----------------------------- MODULE Definitions ----------------------------
(***************************************************************************)
(* The definitions file: what LoadConfig and Validate let through          *)
(* (src/internal/agent/config.go, src/internal/spec/spec.go), and what the *)
(* engine does, definition by definition, with a row change under a file   *)
(* they accepted (New, HandleEvent, runLookup and parseChannel,            *)
(* src/internal/engine/engine.go).  Keys has one good file and many rows;  *)
(* here the files vary and rows are inserted in one table.  How names,     *)
(* identifiers and SQL are written is kept to whether it is well formed,   *)
(* and a SQL text to its highest placeholder and, for a reverse index, the *)
(* number of its result columns.                                           *)
(***************************************************************************)
EXTENDS Naturals, Sequences, FiniteSets

CONSTANTS
  TableColumns,   \* columns of the watched table
  Columns,        \* columns the files name: those, or misspelt ones
  Files,          \* the files to load: sequences of queries
  MaxParamsPerQuery,
  MaxWatchesPerQuery,
  MaxKeysCap,
  NONE            \* no keysSql

(* Query == [name, wellFormed, params, watches : Seq(Watch)]               *)
(* Watch == [columns : Seq(Columns), keysSql : NONE or [params, returns],  *)
(*           keysColumns : [subset of Nat \ {0} -> Columns], maxKeys]      *)
ASSUME ConstantsType ==
  /\ {MaxParamsPerQuery, MaxWatchesPerQuery, MaxKeysCap} \subseteq Nat
  /\ TableColumns # {} /\ TableColumns \subseteq Columns
  /\ \A f \in Files : \A i \in DOMAIN f :
       /\ i \in Nat
       /\ f[i].wellFormed \in BOOLEAN /\ f[i].params \in Nat
       /\ \A j \in DOMAIN f[i].watches :
            /\ f[i].watches[j].columns \in Seq(Columns)
            /\ f[i].watches[j].keysSql = NONE \/ f[i].watches[j].keysSql.params \in Nat
            /\ f[i].watches[j].maxKeys \in Nat

VARIABLES
  file,         \* the definitions file
  phase,        \* "load", "refused" or "running"
  row,          \* the last row changed: its columns' values
  handled,      \* watches the last change derived a mark or a lookup from
  lookups,      \* reverse-index runs it queued
  marked        \* channels it marked dirty

vars == <<file, phase, row, handled, lookups, marked>>

(* A value that can be a channel segment, one for each column, or one that *)
(* cannot.                                                                 *)
Values == {<<"value", c>> : c \in TableColumns} \cup {<<"odd">>}

ValidChannelValue(v) == v # <<"odd">>

Rows ==
  {r \in [TableColumns -> Values] :
     \A c \in TableColumns : r[c] \in {<<"value", c>>, <<"odd">>}}

-----------------------------------------------------------------------------
(* LoadConfig and Validate.                                                *)

HasColumns(watch) == watch.columns # <<>>
HasKeysSql(watch) == watch.keysSql # NONE

(* mutant: the number of columns is not compared with the params           *)
ValidColumnsAnyLength(watch, arity) ==
  watch.maxKeys = 0 /\ watch.keysColumns = <<>>

ValidColumns(watch, arity) ==
  /\ watch.maxKeys = 0 /\ watch.keysColumns = <<>>
  /\ Len(watch.columns) = arity

(* Which placeholders keysColumns has is not looked at.                    *)
ValidKeys(watch) ==
  /\ watch.keysColumns # <<>>
  /\ watch.maxKeys <= MaxKeysCap

(* Exactly one of the two, or, without params, at most one.                *)
ValidateWatch(watch, arity) ==
  /\ arity > 0 => HasColumns(watch) # HasKeysSql(watch)
  /\ HasColumns(watch) => ValidColumns(watch, arity)
  /\ ~HasColumns(watch) /\ HasKeysSql(watch) => ValidKeys(watch)

Validate(query) ==
  /\ query.wellFormed
  /\ query.params <= MaxParamsPerQuery
  /\ Len(query.watches) <= MaxWatchesPerQuery
  /\ \A j \in DOMAIN query.watches : ValidateWatch(query.watches[j], query.params)

(* mutant: a name may be declared twice                                    *)
LoadConfigTwice == file # <<>> /\ \A i \in DOMAIN file : Validate(file[i])

LoadConfig ==
  /\ file # <<>>
  /\ \A i \in DOMAIN file : Validate(file[i])
  /\ \A i, k \in DOMAIN file : file[i].name = file[k].name => i = k

-----------------------------------------------------------------------------
(* The engine over a file that was accepted.                               *)

(* New: the last definition of a name is the one its watches refer to.     *)
queries(name) ==
  LET at == CHOOSE i \in DOMAIN file :
              /\ file[i].name = name
              /\ \A k \in DOMAIN file : file[k].name = name => k <= i
  IN file[at]

Watches == UNION {{<<i, j>> : j \in DOMAIN file[i].watches} : i \in DOMAIN file}

Name(ref)  == file[ref[1]].name
Watch(ref) == file[ref[1]].watches[ref[2]]

BuildChannel(name, values) == [query |-> name, values |-> values]

Segments(values) ==
  IF \A i \in DOMAIN values : ValidChannelValue(values[i]) THEN {values} ELSE {}

(* Validate looks at how a column's name is written (spec.go:158-161), not *)
(* at the table: a row that lacks the column derives nothing.              *)
InTable(columns) == \A i \in DOMAIN columns : columns[i] \in TableColumns

MarkFromRow(ref, r) ==
  LET columns == Watch(ref).columns
  IN IF InTable(columns)
     THEN {BuildChannel(Name(ref), values) :
             values \in Segments([i \in DOMAIN columns |-> r[columns[i]]])}
     ELSE {}

(* mutant: placeholders are taken to count from 0                          *)
EnqueueLookupFromZero(ref, r) ==
  LET columns == Watch(ref).keysColumns
      n       == Cardinality(DOMAIN columns)
  IN IF DOMAIN columns \subseteq 0 .. n - 1 /\ InTable(columns)
     THEN {[ref |-> ref, args |-> [i \in 1 .. n |-> r[columns[i - 1]]]]}
     ELSE {}

(* One argument for each entry of keysColumns, numbered from 1, or none.   *)
EnqueueLookup(ref, r) ==
  LET columns == Watch(ref).keysColumns
      n       == Cardinality(DOMAIN columns)
  IN IF DOMAIN columns \subseteq 1 .. n /\ InTable(columns)
     THEN {[ref |-> ref, args |-> [i \in 1 .. n |-> r[columns[i]]]]}
     ELSE {}

MarksOf(ref, r) ==
  IF HasColumns(Watch(ref)) THEN MarkFromRow(ref, r)
  ELSE IF HasKeysSql(Watch(ref)) THEN {}
  ELSE {BuildChannel(Name(ref), <<>>)}

LookupsOf(ref, r) ==
  IF ~HasColumns(Watch(ref)) /\ HasKeysSql(Watch(ref)) THEN EnqueueLookup(ref, r)
  ELSE {}

(* The customer's Postgres takes exactly the arguments the SQL has.        *)
Runs(l) == Len(l.args) = Watch(l.ref).keysSql.params

KeysOf(l, keyRow) ==
  IF Len(keyRow) = queries(Name(l.ref)).params
  THEN {BuildChannel(Name(l.ref), v) : v \in Segments(keyRow)} ELSE {}

-----------------------------------------------------------------------------
TypeOK ==
  /\ file \in Files
  /\ phase \in {"load", "refused", "running"}
  /\ row \in Rows
  /\ handled \subseteq Watches
  /\ \A l \in lookups : l.ref \in handled
  /\ phase # "running" => handled = {} /\ marked = {}
  /\ \A c \in marked : c.query \in {file[i].name : i \in DOMAIN file}

Init ==
  /\ file \in Files
  /\ phase = "load"
  /\ row = [c \in TableColumns |-> <<"odd">>]
  /\ handled = {} /\ lookups = {} /\ marked = {}

Load ==
  /\ phase = "load"
  /\ phase' = IF LoadConfig THEN "running" ELSE "refused"
  /\ UNCHANGED <<file, row, handled, lookups, marked>>

(* mutant: events are handled whatever became of the file                  *)
HandleEventUnloaded(r) ==
  /\ row' = r
  /\ marked' = UNION {MarksOf(ref, r) : ref \in Watches}
  /\ lookups' = UNION {LookupsOf(ref, r) : ref \in Watches}
  /\ handled' = {ref \in Watches : MarksOf(ref, r) \cup LookupsOf(ref, r) # {}}
  /\ UNCHANGED <<file, phase>>

(* An insert; what an earlier change left has been taken.                  *)
HandleEvent(r) ==
  /\ phase = "running"
  /\ row' = r
  /\ marked' = UNION {MarksOf(ref, r) : ref \in Watches}
  /\ lookups' = UNION {LookupsOf(ref, r) : ref \in Watches}
  /\ handled' = {ref \in Watches : MarksOf(ref, r) \cup LookupsOf(ref, r) # {}}
  /\ UNCHANGED <<file, phase>>

(* A lookup that runs returns a row, of values of some column or odd ones. *)
RunLookup(l) ==
  /\ l \in lookups
  /\ Runs(l)
  /\ \E v \in Values :
       marked' = marked \cup KeysOf(l, [i \in 1 .. Watch(l.ref).keysSql.returns |-> v])
  /\ lookups' = lookups \ {l}
  /\ UNCHANGED <<file, phase, row, handled>>

Next == Load \/ (\E r \in Rows : HandleEvent(r)) \/ (\E l \in lookups : RunLookup(l))

Spec == Init /\ [][Next]_vars

-----------------------------------------------------------------------------
(* parseChannel.                                                           *)
Parses(channel) ==
  /\ channel.query \in {file[i].name : i \in DOMAIN file}
  /\ Len(channel.values) = queries(channel.query).params
  /\ \A i \in DOMAIN channel.values : ValidChannelValue(channel.values[i])

(***************************************************************************)
(* Under every file that is accepted, what a change marks is a doc the     *)
(* engine can compute: compute drops a channel that does not parse without *)
(* a word, and no subscriber could be on it (engine.go:336-340, 370-392,   *)
(* 472-494, 587-607).                                                      *)
(***************************************************************************)
DerivedIsServed == \A c \in marked : Parses(c)

Complete(r) == \A c \in TableColumns : ValidChannelValue(r[c])

(* The table has the columns, and keysColumns numbers its placeholders as  *)
(* the SQL does, from 1 up.  Validate asks for neither: what is not        *)
(* regular is accepted, and deaf, or queues what can never run.            *)
Regular(watch) ==
  /\ InTable(watch.columns) /\ InTable(watch.keysColumns)
  /\ HasKeysSql(watch) => DOMAIN watch.keysColumns = 1 .. watch.keysSql.params

(***************************************************************************)
(* Under every file that is accepted, a change of a row whose values can   *)
(* all be segments is not passed over by any watch of its table, and what  *)
(* it queues can be run (engine.go:262-276, 394-425).                      *)
(***************************************************************************)
Derives(ref) == ref \in handled /\ \A l \in lookups : l.ref = ref => Runs(l)

RegularWatchesDerive ==
  phase = "running" /\ Complete(row) =>
    \A ref \in Watches : Regular(Watch(ref)) => Derives(ref)
=============================================================================
