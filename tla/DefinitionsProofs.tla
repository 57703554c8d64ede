-------------------------- MODULE DefinitionsProofs -------------------------
(***************************************************************************)
(* Proofs about Definitions, for any set of definitions files and any      *)
(* limits: what a row change marks under an accepted file is served, and   *)
(* no regular watch is deaf.                                               *)
(***************************************************************************)
EXTENDS Definitions, FiniteSetTheorems, SequenceTheorems, TLAPS

USE ConstantsType

Accepted == phase = "running" => LoadConfig

DefinitionsInv == TypeOK /\ Accepted /\ DerivedIsServed

LEMMA WatchType ==
  ASSUME file \in Files, NEW ref \in Watches
  PROVE  /\ ref[1] \in DOMAIN file /\ ref[2] \in DOMAIN file[ref[1]].watches
         /\ Watch(ref) = file[ref[1]].watches[ref[2]] /\ Name(ref) = file[ref[1]].name
         /\ Watch(ref).columns \in Seq(Columns)
         /\ HasKeysSql(Watch(ref)) => Watch(ref).keysSql.params \in Nat
<1>1. PICK i \in DOMAIN file : \E j \in DOMAIN file[i].watches : ref = <<i, j>>
  BY DEF Watches
<1>2. PICK j \in DOMAIN file[i].watches : ref = <<i, j>>
  BY <1>1
<1>3. ref[1] = i /\ ref[2] = j
  BY <1>2
<1>4. /\ file[i].watches[j].columns \in Seq(Columns)
      /\ file[i].watches[j].keysSql = NONE \/ file[i].watches[j].keysSql.params \in Nat
  BY DEF ConstantsType
<1> QED
  BY <1>3, <1>4 DEF Watch, Name, HasKeysSql

(* Under an accepted file a name has one definition.                       *)
LEMMA NamesOnce ==
  ASSUME file \in Files, LoadConfig, NEW i \in DOMAIN file
  PROVE  queries(file[i].name) = file[i]
<1> DEFINE Last(k) == /\ file[k].name = file[i].name
                      /\ \A n \in DOMAIN file : file[n].name = file[i].name => n <= k
           at == CHOOSE k \in DOMAIN file : Last(k)
<1>1. \A n \in DOMAIN file : file[n].name = file[i].name => n = i
  BY DEF LoadConfig
<1>2. i \in Nat
  BY DEF ConstantsType
<1>3. Last(i)
  BY <1>1, <1>2
<1>4. at \in DOMAIN file /\ Last(at)
  BY <1>3
<1>5. at = i
  BY <1>1, <1>4
<1> QED
  BY <1>5 DEF queries

(* A watch that maps columns maps one for each param, one that maps        *)
(* nothing belongs to a query without params.                              *)
LEMMA ArityMatches ==
  ASSUME file \in Files, LoadConfig, NEW ref \in Watches
  PROVE  LET arity == queries(Name(ref)).params IN
         /\ HasColumns(Watch(ref)) => Len(Watch(ref).columns) = arity
         /\ ~HasColumns(Watch(ref)) /\ ~HasKeysSql(Watch(ref)) => arity = 0
<1> DEFINE q == file[ref[1]]
           w == Watch(ref)
<1>1. ref[1] \in DOMAIN file /\ ref[2] \in DOMAIN q.watches /\ w = q.watches[ref[2]]
  BY WatchType
<1>2. ValidateWatch(w, q.params)
  BY <1>1 DEF LoadConfig, Validate
<1>3. queries(Name(ref)) = q
  BY <1>1, WatchType, NamesOnce
<1>4. q.params \in Nat
  BY <1>1 DEF ConstantsType
<1> HIDE DEF q, w
<1> QED
  BY <1>2, <1>3, <1>4 DEF ValidateWatch, ValidColumns, HasColumns, HasKeysSql, q, w

LEMMA ChannelParts ==
  ASSUME NEW name, NEW values
  PROVE  BuildChannel(name, values).query = name /\ BuildChannel(name, values).values = values
BY DEF BuildChannel

(* What a change marks has the arity of its query, and segments.           *)
LEMMA MarksParse ==
  ASSUME file \in Files, LoadConfig, NEW ref \in Watches, NEW r \in Rows,
         NEW c \in MarksOf(ref, r)
  PROVE  Parses(c)
<1> DEFINE w == Watch(ref)
           values == [i \in DOMAIN w.columns |-> r[w.columns[i]]]
<1>1. Name(ref) \in {file[i].name : i \in DOMAIN file}
  BY WatchType
<1>2. CASE HasColumns(w)
  <2>1. /\ c = BuildChannel(Name(ref), values)
        /\ \A i \in DOMAIN values : ValidChannelValue(values[i])
    BY <1>2 DEF MarksOf, MarkFromRow, Segments
  <2>2. w.columns \in Seq(Columns) /\ DOMAIN w.columns = 1 .. Len(w.columns) /\ Len(w.columns) \in Nat
    BY WatchType, LenProperties
  <2>3. Len(values) = Len(w.columns)
    BY <2>2
  <2> HIDE DEF values
  <2> QED
    BY <1>1, <1>2, <2>1, <2>3, ChannelParts, ArityMatches DEF Parses
<1>3. CASE ~HasColumns(w)
  <2>1. c = BuildChannel(Name(ref), << >>) /\ ~HasKeysSql(w)
    BY <1>3 DEF MarksOf
  <2>2. Len(<< >>) = 0 /\ DOMAIN << >> = {}
    BY EmptySeq
  <2> QED
    BY <1>1, <1>3, <2>1, <2>2, ChannelParts, ArityMatches DEF Parses
<1> QED
  BY <1>2, <1>3

LEMMA KeysParse ==
  ASSUME file \in Files, NEW l, l.ref \in Watches, NEW keyRow, NEW c \in KeysOf(l, keyRow)
  PROVE  Parses(c)
<1>1. Name(l.ref) \in {file[i].name : i \in DOMAIN file}
  BY WatchType
<1>2. /\ c = BuildChannel(Name(l.ref), keyRow)
      /\ Len(keyRow) = queries(Name(l.ref)).params
      /\ \A i \in DOMAIN keyRow : ValidChannelValue(keyRow[i])
  BY DEF KeysOf, Segments
<1> QED
  BY <1>1, <1>2, ChannelParts DEF Parses

-----------------------------------------------------------------------------
(* Types and what is marked.                                               *)

LEMMA RefsOfLookups ==
  ASSUME NEW ref, NEW r, NEW l \in LookupsOf(ref, r) PROVE l.ref = ref
BY DEF LookupsOf, EnqueueLookup

LEMMA NameOfMark ==
  ASSUME file \in Files, NEW ref \in Watches, NEW r, NEW c \in MarksOf(ref, r)
  PROVE  c.query \in {file[i].name : i \in DOMAIN file}
<1>1. PICK values : c = BuildChannel(Name(ref), values)
  BY DEF MarksOf, MarkFromRow
<1> QED
  BY <1>1, WatchType, ChannelParts

LEMMA NameOfKey ==
  ASSUME file \in Files, NEW l, l.ref \in Watches, NEW keyRow, NEW c \in KeysOf(l, keyRow)
  PROVE  c.query \in {file[i].name : i \in DOMAIN file}
BY WatchType, ChannelParts DEF KeysOf

LEMMA DefinitionsTypeInit == Init => TypeOK
BY DEF Init, TypeOK, Rows, Values

LEMMA DefinitionsTypeNext == TypeOK /\ [Next]_vars => TypeOK'
<1> SUFFICES ASSUME TypeOK, [Next]_vars PROVE TypeOK'
  OBVIOUS
<1>1. CASE Load \/ UNCHANGED vars
  BY <1>1 DEF Load, vars, TypeOK, Watches
<1>2. ASSUME NEW r \in Rows, HandleEvent(r) PROVE TypeOK'
  <2>1. file' = file /\ phase' = "running" /\ row' = r /\ Watches' = Watches
    BY <1>2 DEF HandleEvent, Watches
  <2>2. \A c \in marked' : c.query \in {file[i].name : i \in DOMAIN file}
    BY <1>2, NameOfMark DEF HandleEvent, TypeOK
  <2>3. \A l \in lookups' : l.ref \in handled'
    <3> SUFFICES ASSUME NEW ref \in Watches, NEW l \in LookupsOf(ref, r)
                 PROVE  l.ref \in handled'
      BY <1>2 DEF HandleEvent
    <3> QED
      BY <1>2, RefsOfLookups DEF HandleEvent
  <2>4. handled' \subseteq Watches
    BY <1>2 DEF HandleEvent
  <2> QED
    BY <2>1, <2>2, <2>3, <2>4 DEF TypeOK
<1>3. ASSUME NEW l \in lookups, RunLookup(l) PROVE TypeOK'
  <2>1. /\ UNCHANGED <<file, phase, row, handled>> /\ lookups' \subseteq lookups
        /\ l.ref \in handled /\ l.ref \in Watches /\ Watches' = Watches
    BY <1>3 DEF RunLookup, TypeOK, Watches
  <2>2. PICK keyRow : marked' = marked \cup KeysOf(l, keyRow)
    BY <1>3 DEF RunLookup
  <2>3. \A c \in marked' : c.query \in {file[i].name : i \in DOMAIN file}
    BY <2>1, <2>2, NameOfKey DEF TypeOK
  <2>4. phase = "running"
    BY <2>1 DEF TypeOK
  <2> QED
    BY <2>1, <2>3, <2>4 DEF TypeOK
<1> QED
  BY <1>1, <1>2, <1>3 DEF Next

(***************************************************************************)
(* Only an accepted file derives anything, and only under names it has: no *)
(* change of a row reaches the engine before LoadConfig has let the file   *)
(* through (config.go:43-76, agent.go:42-58).                              *)
(***************************************************************************)
THEOREM DefinitionsTypeOK == Spec => []TypeOK
BY DefinitionsTypeInit, DefinitionsTypeNext, PTL DEF Spec

LEMMA DefinitionsInvNext == DefinitionsInv /\ [Next]_vars => DefinitionsInv'
<1> SUFFICES ASSUME DefinitionsInv, [Next]_vars PROVE Accepted' /\ DerivedIsServed'
  BY DefinitionsTypeNext DEF DefinitionsInv
<1>0. TypeOK /\ Accepted /\ DerivedIsServed /\ file \in Files
  BY DEF DefinitionsInv, TypeOK
<1>1. file' = file
  BY DEF Next, Load, HandleEvent, RunLookup, vars
<1>2. LoadConfig' <=> LoadConfig
  BY <1>1 DEF LoadConfig
<1>3. ASSUME NEW c, Parses(c) PROVE Parses(c)'
  BY <1>1, <1>3 DEF Parses, queries
<1>4. CASE Load \/ UNCHANGED vars
  BY <1>0, <1>2, <1>3, <1>4 DEF Load, vars, Accepted, DerivedIsServed
<1>5. ASSUME NEW r \in Rows, HandleEvent(r) PROVE Accepted' /\ DerivedIsServed'
  <2>1. LoadConfig
    BY <1>0, <1>5 DEF HandleEvent, Accepted
  <2>2. \A c \in marked' : Parses(c)
    BY <1>0, <1>5, <2>1, MarksParse DEF HandleEvent
  <2> QED
    BY <1>2, <1>3, <2>1, <2>2 DEF Accepted, DerivedIsServed
<1>6. ASSUME NEW l \in lookups, RunLookup(l) PROVE Accepted' /\ DerivedIsServed'
  <2>1. l.ref \in Watches /\ phase' = phase
    BY <1>0, <1>6 DEF TypeOK, RunLookup
  <2>2. PICK keyRow : marked' = marked \cup KeysOf(l, keyRow)
    BY <1>6 DEF RunLookup
  <2>3. \A c \in marked' : Parses(c)
    BY <1>0, <2>1, <2>2, KeysParse DEF DerivedIsServed
  <2> QED
    BY <1>0, <1>2, <1>3, <2>1, <2>3 DEF Accepted, DerivedIsServed
<1> QED
  BY <1>4, <1>5, <1>6 DEF Next

(***************************************************************************)
(* Whatever file Validate accepts, every channel the engine marks is one   *)
(* parseChannel takes: of a declared query, with as many segments as it    *)
(* has params (spec.go:117-188, engine.go:370-392, 587-607).               *)
(***************************************************************************)
THEOREM DerivedIsServedHolds == Spec => []DerivedIsServed
<1>1. Init => DefinitionsInv
  BY DefinitionsTypeInit DEF Init, DefinitionsInv, Accepted, DerivedIsServed
<1>2. DefinitionsInv => DerivedIsServed
  BY DEF DefinitionsInv
<1> QED
  BY <1>1, <1>2, DefinitionsInvNext, PTL DEF Spec

-----------------------------------------------------------------------------
(* No regular watch is deaf.                                               *)

LEMMA CompleteRowMarks ==
  ASSUME file \in Files, NEW ref \in Watches, NEW r \in Rows, Complete(r),
         HasColumns(Watch(ref)) \/ ~HasKeysSql(Watch(ref)), Regular(Watch(ref))
  PROVE  MarksOf(ref, r) # {}
<1> DEFINE w == Watch(ref)
           values == [i \in DOMAIN w.columns |-> r[w.columns[i]]]
<1>1. InTable(w.columns) /\ \A i \in DOMAIN w.columns : w.columns[i] \in TableColumns
  BY DEF Regular, InTable
<1>2. \A i \in DOMAIN values : ValidChannelValue(values[i])
  BY <1>1 DEF Complete
<1>3. CASE HasColumns(w)
  <2>1. MarksOf(ref, r) = {BuildChannel(Name(ref), v) : v \in Segments(values)}
    BY <1>1, <1>3 DEF MarksOf, MarkFromRow
  <2>2. Segments(values) = {values}
    BY <1>2 DEF Segments
  <2> HIDE DEF values
  <2> QED
    BY <2>1, <2>2
<1>4. CASE ~HasColumns(w)
  BY <1>4 DEF MarksOf
<1> QED
  BY <1>3, <1>4

LEMMA IntervalSize ==
  ASSUME NEW n \in Nat PROVE Cardinality(1 .. n) = n
<1>1. 1 \in Int /\ n \in Int
  OBVIOUS
<1>2. Cardinality(1 .. n) = IF 1 > n THEN 0 ELSE n - 1 + 1
  BY <1>1, FS_Interval, Zenon
<1>3. (IF 1 > n THEN 0 ELSE n - 1 + 1) = n
  OBVIOUS
<1> QED
  BY <1>2, <1>3

LEMMA RegularLookupRuns ==
  ASSUME file \in Files, NEW ref \in Watches, NEW r,
         HasKeysSql(Watch(ref)), Regular(Watch(ref))
  PROVE  /\ EnqueueLookup(ref, r) # {}
         /\ \A l \in EnqueueLookup(ref, r) : Runs(l)
<1> DEFINE columns == Watch(ref).keysColumns
           p == Watch(ref).keysSql.params
           n == Cardinality(DOMAIN columns)
           args == [i \in 1 .. n |-> r[columns[i]]]
           l == [ref |-> ref, args |-> args]
<1>1. p \in Nat /\ DOMAIN columns = 1 .. p /\ InTable(columns)
  BY WatchType DEF Regular
<1>2. n = p
  <2>1. Cardinality(1 .. p) = p
    BY <1>1, IntervalSize
  <2> QED
    BY <1>1, <2>1
<1>3. EnqueueLookup(ref, r) = {l}
  BY <1>1, <1>2 DEF EnqueueLookup
<1>4. l.ref = ref /\ l.args = args
  OBVIOUS
<1>5. Len(args) = n
  BY <1>1, <1>2
<1> HIDE DEF l, args, n
<1> QED
  BY <1>2, <1>3, <1>4, <1>5 DEF Runs

(* Before the file is loaded no row has been seen.                         *)
RegularInv ==
  /\ TypeOK
  /\ phase = "load" => ~Complete(row)
  /\ RegularWatchesDerive

LEMMA FileStays ==
  ASSUME [Next]_vars
  PROVE  /\ file' = file /\ Watches' = Watches
         /\ \A ref : Watch(ref)' = Watch(ref)
         /\ \A ref : Regular(Watch(ref))' <=> Regular(Watch(ref))
         /\ \A l : Runs(l)' <=> Runs(l)
<1>1. file' = file
  <2>1. ASSUME NEW r \in Rows, HandleEvent(r) PROVE file' = file
    BY <2>1 DEF HandleEvent
  <2>2. ASSUME NEW l \in lookups, RunLookup(l) PROVE file' = file
    BY <2>2 DEF RunLookup
  <2> QED
    BY <2>1, <2>2 DEF Next, Load, vars
<1> QED
  BY <1>1 DEF Watches, Watch, Regular, InTable, HasKeysSql, Runs

LEMMA RegularNext ==
  ASSUME RegularInv, [Next]_vars PROVE RegularInv'
<1>0. /\ TypeOK /\ file \in Files /\ RegularWatchesDerive
      /\ phase = "load" => ~Complete(row)
  BY DEF RegularInv, TypeOK
<1>1. TypeOK'
  BY <1>0, DefinitionsTypeNext
<1>2. ASSUME phase' = phase \/ phase' = "refused", row' = row, handled' = handled,
             lookups' \subseteq lookups
      PROVE  RegularInv'
  BY <1>0, <1>1, <1>2, FileStays DEF RegularInv, RegularWatchesDerive, Derives, Complete
<1>3. CASE Load
  BY <1>0, <1>1, <1>3 DEF Load, RegularInv, RegularWatchesDerive, Complete
<1>4. ASSUME NEW r \in Rows, HandleEvent(r) PROVE RegularInv'
  <2>1. /\ row' = r /\ phase' = "running"
        /\ lookups' = UNION {LookupsOf(ref, r) : ref \in Watches}
        /\ handled' = {ref \in Watches : MarksOf(ref, r) \cup LookupsOf(ref, r) # {}}
    BY <1>4 DEF HandleEvent
  <2>2. ASSUME NEW ref \in Watches, Complete(r), Regular(Watch(ref))
        PROVE  /\ MarksOf(ref, r) \cup LookupsOf(ref, r) # {}
               /\ \A l \in LookupsOf(ref, r) : Runs(l)
    <3>1. CASE HasColumns(Watch(ref)) \/ ~HasKeysSql(Watch(ref))
      BY <1>0, <2>2, <3>1, CompleteRowMarks DEF LookupsOf
    <3>2. CASE ~HasColumns(Watch(ref)) /\ HasKeysSql(Watch(ref))
      BY <1>0, <2>2, <3>2, RegularLookupRuns DEF LookupsOf
    <3> QED
      BY <3>1, <3>2
  <2>3. ASSUME NEW ref \in Watches, Complete(r), Regular(Watch(ref)),
               NEW l \in lookups', l.ref = ref
        PROVE  Runs(l)
    <3>1. PICK w \in Watches : l \in LookupsOf(w, r)
      BY <2>1
    <3>2. w = ref
      BY <2>3, <3>1, RefsOfLookups
    <3> QED
      BY <2>2, <2>3, <3>1, <3>2
  <2>4. RegularWatchesDerive'
    <3> SUFFICES ASSUME Complete(r), NEW ref \in Watches, Regular(Watch(ref))
                 PROVE  ref \in handled' /\ \A l \in lookups' : l.ref = ref => Runs(l)
      BY <2>1, FileStays DEF RegularWatchesDerive, Derives, Complete
    <3> QED
      BY <2>1, <2>2, <2>3
  <2> QED
    BY <1>1, <2>1, <2>4 DEF RegularInv
<1>5. ASSUME NEW k \in lookups, RunLookup(k) PROVE RegularInv'
  BY <1>2, <1>5 DEF RunLookup
<1>6. CASE UNCHANGED vars
  BY <1>2, <1>6 DEF vars
<1> QED
  BY <1>3, <1>4, <1>5, <1>6 DEF Next

(***************************************************************************)
(* Whatever file Validate accepts and however many columns, watches and    *)
(* placeholders it has: a row whose values can all be segments is passed   *)
(* over by no watch whose keysColumns number the placeholders as its SQL   *)
(* does, and what it queues can be run (engine.go:262-276, 394-425).       *)
(***************************************************************************)
THEOREM RegularWatchesDeriveHolds == Spec => []RegularWatchesDerive
<1>1. Init => RegularInv
  <2> SUFFICES ASSUME Init PROVE RegularInv
    OBVIOUS
  <2>1. ~Complete(row)
    <3>1. PICK c \in Columns : TRUE
      BY DEF ConstantsType
    <3> QED
      BY <3>1 DEF Init, Complete, ValidChannelValue
  <2> QED
    BY <2>1, DefinitionsTypeInit DEF Init, RegularInv, RegularWatchesDerive
<1>2. RegularInv => RegularWatchesDerive
  BY DEF RegularInv
<1> QED
  BY <1>1, <1>2, RegularNext, PTL DEF Spec
=============================================================================
