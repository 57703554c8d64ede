--------------------------- MODULE DefinitionsMC ----------------------------
(* Files for Definitions: every watch up to two columns, three             *)
(* placeholders and a reverse index, alone, or two queries with watches    *)
(* that map columns or nothing, of one name or of two.                     *)
EXTENDS Definitions

CONSTANTS a, b, c

UpTo(n, S) == UNION {[1 .. k -> S] : k \in 0 .. n}

KeysSqls == [params : 1 .. 2, returns : 0 .. 2]

ColumnWatches ==
  [columns : UpTo(2, Columns), keysSql : {NONE}, keysColumns : {<<>>}, maxKeys : {0}]

AllWatches ==
  [columns : UpTo(1, Columns), keysSql : {NONE} \cup KeysSqls,
   keysColumns : UNION {[S -> Columns] : S \in SUBSET (1 .. 3)},
   maxKeys : {0, MaxKeysCap + 1}]

(* None, one, two, and one too many.                                       *)
ParamCounts == (0 .. 2) \cup {MaxParamsPerQuery + 1}

Queries(names, watchSets) ==
  [name : names, wellFormed : {TRUE}, params : ParamCounts, watches : watchSets]

Bare == [columns |-> <<>>, keysSql |-> NONE, keysColumns |-> <<>>, maxKeys |-> 0]

One(S) == [1 .. 1 -> S]

MCFiles ==
  {<<>>} \cup One(Queries({"orders"}, One(AllWatches)))
  \cup {<<p, q>> : p \in Queries({"orders"}, One(ColumnWatches)),
                   q \in Queries({"orders", "stats"}, One(ColumnWatches))}
  \cup One([name : {"stats"}, wellFormed : {TRUE}, params : {0},
             watches : [1 .. MaxWatchesPerQuery + 1 -> {Bare}]])
  \cup One([name : {"Orders"}, wellFormed : {FALSE}, params : {0}, watches : {<<>>}])
=============================================================================
