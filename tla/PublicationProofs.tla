-------------------------- MODULE PublicationProofs -------------------------
(***************************************************************************)
(* Proofs about Publication, for any tables, any folding of their names,   *)
(* any definitions and any number of faults and migrations.                *)
(***************************************************************************)
EXTENDS Publication, FiniteSetTheorems, TLAPS

-----------------------------------------------------------------------------
(***************************************************************************)
(* Between the statements of one connection the publication may change:    *)
(* the operator may run the statement shown by an earlier one.  What makes *)
(* that harmless is that a statement is only shown to an agent whose role  *)
(* cannot run it, and still fits the publication that is there, so that    *)
(* the agent has no other statement it could run meanwhile; and that each  *)
(* step of ensurePublication is taken on a publication of the shape it was *)
(* chosen for.                                                             *)
(***************************************************************************)
HintFits ==
  \A s \in hint :
    /\ Denies(s)
    /\ s.do = "create" =>
         (s.on = {} <=> desiredAll) /\ (pub = "none" \/ (desiredAll <=> pub = "all"))
    /\ s.do = "drop" =>
         s.on = {} /\ pub # "none" /\ ~(desiredAll <=> pub = "all")
    /\ s.do = "alter" => pub = "scoped" /\ ~desiredAll

StepFits ==
  /\ step \in {"read", "alter"} => pub = "scoped" /\ ~desiredAll
  /\ step = "create" => pub = "none" \/ (desiredAll <=> pub = "all")
  /\ step = "drop" => \/ pub = "none" /\ hint = {}
                      \/ pub # "none" /\ ~(desiredAll <=> pub = "all")
  /\ step = "streaming" => hint = {}

InLineInv == TypeOK /\ InLine /\ HintFits /\ StepFits

-----------------------------------------------------------------------------
LEMMA InitInv == Init => InLineInv
<1> SUFFICES ASSUME Init PROVE InLineInv
  OBVIOUS
<1>1. Cardinality(hint) <= 1
  BY FS_EmptySet DEF Init
<1>2. faults \in 0 .. MaxFaults /\ migrations \in 0 .. MaxMigrations
  BY ConstantsType DEF ConstantsType, Init
<1>3. watched \subseteq Names
  BY ConstantsType DEF ConstantsType, Init
<1>4. TypeOK
  BY <1>1, <1>2, <1>3 DEF Init, TypeOK, Steps
<1> QED
  BY <1>4 DEF Init, InLineInv, InLine, HintFits, StepFits

(* What any statement leaves behind.                                       *)
LEMMA ExecuteKeepsType ==
  ASSUME TypeOK, NEW s \in Statement, NEW byRole \in BOOLEAN, Execute(s, byRole),
         s.do = "drop" => s.on = {}
  PROVE  /\ pub' \in {"none", "all", "scoped"}
         /\ members' \subseteq Names
         /\ pub' # "scoped" => members' = {}
         /\ owned' \in BOOLEAN /\ (owned' => pub' # "none")
         /\ UNCHANGED <<tables, role>>
<1>1. Named(s) \subseteq Names /\ (s.on = {} => Named(s) = {})
  BY ConstantsType DEF ConstantsType, Named, Statement
<1> QED
  BY <1>1 DEF Execute, Statement, Accepts, TypeOK

(* A shown statement is of no effect on a publication it does not fit.     *)
LEMMA HintInv == ASSUME InLineInv, RunHint PROVE InLineInv'
<1> USE DEF InLineInv, TypeOK
<1>1. PICK s \in hint : Execute(s, FALSE) \/ (~Accepts(s) /\ UNCHANGED pgVars)
  BY DEF RunHint
<1>2. /\ hint' = {}
      /\ UNCHANGED <<watched, step, desired, gone, faults, migrations>>
  BY DEF RunHint
<1>3. s \in Statement /\ (s.do = "drop" => s.on = {})
  BY <1>1 DEF HintFits
<1>4. /\ pub' \in {"none", "all", "scoped"}
      /\ members' \subseteq Names
      /\ pub' # "scoped" => members' = {}
      /\ owned' \in BOOLEAN /\ (owned' => pub' # "none")
      /\ UNCHANGED <<tables, role>>
  <2>1. CASE Execute(s, FALSE)
    BY <1>3, <2>1, ExecuteKeepsType
  <2>2. CASE UNCHANGED pgVars
    BY <2>2 DEF pgVars
  <2> QED
    BY <1>1, <2>1, <2>2
<1>5. Cardinality(hint') <= 1
  BY <1>2, FS_EmptySet
<1>6. desiredAll' = desiredAll
  BY <1>2 DEF desiredAll
<1>7. TypeOK'
  BY <1>2, <1>4, <1>5, <1>6
<1>8. step # "streaming"
  BY <1>1 DEF StepFits
<1>9. HintFits' /\ InLine'
  BY <1>2, <1>8 DEF HintFits, InLine
<1>10. step \in {"read", "alter"} => pub' = "scoped" /\ ~desiredAll
  <2> SUFFICES ASSUME step \in {"read", "alter"} PROVE pub' = "scoped"
    BY DEF StepFits
  <2>1. pub = "scoped" /\ ~desiredAll /\ s.do # "drop"
    BY <1>1 DEF StepFits, HintFits, desiredAll
  <2>2. CASE Execute(s, FALSE)
    BY <1>3, <2>1, <2>2 DEF Execute, Accepts, Statement
  <2> QED
    BY <1>1, <2>1, <2>2 DEF pgVars
<1>11. step = "drop" => \/ pub' = "none"
                        \/ pub' # "none" /\ ~(desiredAll <=> pub' = "all")
  <2> SUFFICES ASSUME step = "drop", Execute(s, FALSE) PROVE pub' = "none"
    BY <1>1 DEF StepFits, pgVars
  <2>1. pub # "none" /\ ~(desiredAll <=> pub = "all")
    BY <1>1 DEF StepFits
  <2>2. s.do = "drop"
    BY <1>1, <1>3, <2>1 DEF Execute, Accepts, HintFits, Statement, desiredAll
  <2> QED
    BY <2>2 DEF Execute
<1>12. step = "create" => pub' = "none" \/ (desiredAll <=> pub' = "all")
  <2> SUFFICES ASSUME step = "create", Execute(s, FALSE)
               PROVE  pub' = "none" \/ (desiredAll <=> pub' = "all")
    BY <1>1 DEF StepFits, pgVars
  <2>1. /\ s.do = "create" => (s.on = {} <=> desiredAll)
        /\ s.do = "alter" => ~desiredAll /\ s.on # {}
    BY <1>1 DEF HintFits, Execute, Accepts
  <2> QED
    BY <1>3, <2>1 DEF Execute, Statement
<1> QED
  BY <1>2, <1>6, <1>7, <1>8, <1>9, <1>10, <1>11, <1>12 DEF StepFits

-----------------------------------------------------------------------------
LEMMA MigrateInv == ASSUME InLineInv, Migrate PROVE InLineInv'
<1>1. PICK t \in Names : CreateTable(t) \/ DropTable(t)
  BY DEF Migrate
<1> USE DEF InLineInv, TypeOK, desiredAll
<1>2. migrations' \in 0 .. MaxMigrations
  BY <1>1, ConstantsType DEF ConstantsType, CreateTable, DropTable
<1>3. /\ UNCHANGED <<pub, role, owned, watched, step, desired, hint, faults>>
      /\ tables' \subseteq Names /\ gone' \subseteq Names
      /\ members' \subseteq members
      /\ members \ members' \subseteq gone' /\ gone \subseteq gone'
  BY <1>1 DEF CreateTable, DropTable, readerVars
<1>4. TypeOK'
  BY <1>2, <1>3
<1>5. InLine'
  BY <1>3 DEF InLine, Plain
<1>6. HintFits'
  BY <1>3 DEF HintFits, Denies
<1>7. StepFits'
  BY <1>3 DEF StepFits
<1> QED
  BY <1>4, <1>5, <1>6, <1>7

LEMMA FaultInv == ASSUME InLineInv, LoseConnection \/ Restart PROVE InLineInv'
<1> USE DEF InLineInv, TypeOK, desiredAll
<1>1. faults' \in 0 .. MaxFaults
  BY ConstantsType DEF ConstantsType, LoseConnection, Restart
<1>2. /\ UNCHANGED <<pgVars, migrations>> /\ hint' = {}
      /\ step' \in {"failed", "resolve"}
      /\ watched' \in Configs /\ desired' \subseteq watched' /\ gone' \subseteq Names
  BY DEF LoseConnection, Restart, Fail
<1>3. Cardinality(hint') <= 1
  BY <1>2, FS_EmptySet
<1>4. TypeOK'
  BY <1>1, <1>2, <1>3 DEF pgVars, Steps
<1> QED
  BY <1>2, <1>4 DEF InLine, HintFits, StepFits

-----------------------------------------------------------------------------
(* A step that leaves Postgres and the hint alone needs only its own       *)
(* conjuncts.                                                              *)
LEMMA QuietType ==
  ASSUME TypeOK, UNCHANGED <<pgVars, watched, gone, faults, migrations>>,
         hint' = hint \/ hint' = {}, step' \in Steps, desired' \subseteq watched,
         step' \notin {"resolve", "failed"} => (desired' = {} <=> desiredAll)
  PROVE  TypeOK'
<1>1. Cardinality(hint') <= 1
  BY FS_EmptySet DEF TypeOK
<1> QED
  BY <1>1 DEF TypeOK, pgVars, desiredAll

LEMMA ResolveInv ==
  ASSUME InLineInv, ResolveDesiredTables PROVE InLineInv'
<1> USE DEF InLineInv
<1>1. /\ UNCHANGED <<pgVars, watched, faults, migrations>> /\ gone' = {}
      /\ desired' \subseteq watched /\ hint' \subseteq hint
      /\ \/ step' = "failed" /\ hint' = {}
         \/ step' = "fetch" /\ hint' = hint /\ (desired' = {} => desiredAll)
  BY DEF ResolveDesiredTables, Fail, Goto
<1>2. Cardinality(hint') <= 1
  BY <1>1, FS_EmptySet DEF TypeOK
<1>3. TypeOK'
  BY <1>1, <1>2 DEF TypeOK, pgVars, Steps, desiredAll
<1>4. HintFits'
  BY <1>1 DEF HintFits, Denies, pgVars, desiredAll
<1> QED
  BY <1>1, <1>3, <1>4 DEF InLine, StepFits

LEMMA FetchInv ==
  ASSUME InLineInv, FetchPublicationState PROVE InLineInv'
<1> USE DEF InLineInv
<1>1. /\ step = "fetch"
      /\ UNCHANGED <<pgVars, watched, gone, faults, migrations, desired>>
      /\ \/ step' = "create" /\ hint' = hint /\ pub = "none"
         \/ step' = "streaming" /\ hint' = {} /\ desiredAll /\ pub = "all"
         \/ /\ step' = "drop" /\ hint' = hint
            /\ pub # "none" /\ ~(desiredAll <=> pub = "all")
         \/ /\ step' = "read" /\ hint' = hint
            /\ pub = "scoped" /\ ~desiredAll
  BY DEF FetchPublicationState, Goto, Stream, Local
<1>2. TypeOK'
  BY <1>1, QuietType DEF TypeOK, Steps
<1>3. HintFits'
  BY <1>1 DEF HintFits, Denies, pgVars, desiredAll
<1>4. StepFits'
  BY <1>1 DEF StepFits, pgVars, desiredAll
<1>5. InLine'
  BY <1>1 DEF InLine, pgVars, desiredAll, TypeOK
<1> QED
  BY <1>2, <1>3, <1>4, <1>5

LEMMA ReadInv ==
  ASSUME InLineInv, CurrentPublicationTables PROVE InLineInv'
<1> USE DEF InLineInv
<1>1. /\ step = "read" /\ pub = "scoped" /\ ~desiredAll
      /\ UNCHANGED <<pgVars, watched, gone, faults, migrations, desired>>
      /\ \/ step' = "streaming" /\ hint' = {} /\ members = desired
         \/ step' = "alter" /\ hint' = hint
  BY DEF CurrentPublicationTables, Goto, Stream, Local, StepFits
<1>2. TypeOK'
  BY <1>1, QuietType DEF TypeOK, Steps
<1>3. HintFits'
  BY <1>1 DEF HintFits, Denies, pgVars, desiredAll
<1>4. StepFits'
  BY <1>1 DEF StepFits, pgVars, desiredAll
<1>5. InLine'
  BY <1>1 DEF InLine, pgVars, desiredAll
<1> QED
  BY <1>2, <1>3, <1>4, <1>5

LEMMA AgainInv == ASSUME InLineInv, TryAgain PROVE InLineInv'
<1> USE DEF InLineInv
<1>1. /\ UNCHANGED <<pgVars, watched, gone, faults, migrations, desired, hint>>
      /\ step' = "resolve"
  BY DEF TryAgain, Goto, Local
<1>2. TypeOK'
  BY <1>1, QuietType DEF TypeOK, Steps
<1>3. HintFits'
  BY <1>1 DEF HintFits, Denies, pgVars, desiredAll
<1> QED
  BY <1>1, <1>2, <1>3 DEF InLine, StepFits

-----------------------------------------------------------------------------
(* A role that can run the statement a step has chosen is shown nothing.   *)
LEMMA NothingShown ==
  ASSUME InLineInv, step \in {"create", "drop"}, NEW s \in Statement,
         Execute(s, TRUE), ~Denies(s),
         \/ step = "create" /\ s.do = "create" /\ (s.on = {} <=> desiredAll)
         \/ step = "drop" /\ s.do = "drop"
  PROVE  hint = {}
<1> SUFFICES ASSUME NEW h \in hint PROVE FALSE
  OBVIOUS
<1>1. h \in Statement /\ hint # {}
  BY DEF InLineInv, TypeOK
<1>2. role \in Roles
  BY DEF InLineInv, TypeOK
<1>3. CASE step = "create"
  <2>1. s.do = "create" /\ pub = "none"
    BY <1>3 DEF Execute, Accepts
  <2>2. h.do = "create" /\ (h.on = {} <=> desiredAll) /\ Denies(h)
    BY <1>1, <2>1 DEF InLineInv, HintFits, Statement
  <2> QED
    BY <1>3, <2>1, <2>2 DEF Denies
<1>4. CASE step = "drop"
  <2>1. s.do = "drop" /\ pub # "none" /\ ~(desiredAll <=> pub = "all")
    BY <1>1, <1>4 DEF InLineInv, StepFits
  <2>2. h.do # "create"
    BY <2>1 DEF InLineInv, HintFits
  <2>3. h.do # "alter"
    BY <2>1 DEF InLineInv, HintFits, desiredAll
  <2>4. h.do = "drop" /\ Denies(h)
    BY <1>1, <2>2, <2>3 DEF InLineInv, HintFits, Statement
  <2> QED
    BY <2>1, <2>4 DEF Denies
<1> QED
  BY <1>3, <1>4

(* A statement that the role has run leaves nothing shown, and the         *)
(* publication is what it says.                                            *)
LEMMA ExecuteInv ==
  ASSUME InLineInv, NEW s \in Statement, Execute(s, TRUE), Local, UNCHANGED desired,
         hint' = {}, step' \in {"create", "streaming"},
         s.do = "drop" => s.on = {}, desired = {} <=> desiredAll,
         step' = "create" => s.do = "drop",
         step' = "streaming" => s.do # "drop" /\ s.on = desired
  PROVE  InLineInv'
<1> USE DEF InLineInv
<1>1. /\ pub' \in {"none", "all", "scoped"}
      /\ members' \subseteq Names
      /\ pub' # "scoped" => members' = {}
      /\ owned' \in BOOLEAN /\ (owned' => pub' # "none")
      /\ UNCHANGED <<tables, role>>
  BY ExecuteKeepsType
<1>2. Cardinality(hint') <= 1
  BY FS_EmptySet
<1>3. UNCHANGED <<watched, gone, faults, migrations>>
  BY DEF Local
<1>4. TypeOK'
  BY <1>1, <1>2, <1>3 DEF TypeOK, Steps, desiredAll
<1>5. HintFits' /\ StepFits'
  BY DEF HintFits, StepFits, Execute
<1>6. InLine'
  <2> SUFFICES ASSUME Plain', step' = "streaming"
      PROVE  /\ pub' = IF desiredAll THEN "all" ELSE "scoped"
             /\ members' \subseteq desired /\ desired \ gone \subseteq members'
    BY <1>3 DEF InLine, desiredAll
  <2>1. Named(s) = desired
    BY <1>3 DEF Named, Plain, TypeOK
  <2> QED
    BY <2>1 DEF Execute
<1> QED
  BY <1>4, <1>5, <1>6

(* A refused statement is shown, and fits what is there.                   *)
LEMMA RefusedInv ==
  ASSUME InLineInv, NEW s \in Statement, Denies(s), Fail({s}), UNCHANGED pgVars,
         Local, UNCHANGED desired,
         s.do = "drop" =>
           s.on = {} /\ pub # "none" /\ ~(desiredAll <=> pub = "all"),
         s.do = "create" =>
           (s.on = {} <=> desiredAll) /\ (pub = "none" \/ (desiredAll <=> pub = "all")),
         s.do = "alter" => pub = "scoped" /\ ~desiredAll
  PROVE  InLineInv'
<1> USE DEF InLineInv
<1>1. /\ step' = "failed" /\ hint' = {s}
      /\ UNCHANGED <<pgVars, watched, gone, faults, migrations, desired>>
  BY DEF Fail, Local
<1>2. Cardinality(hint') <= 1
  <2>1. Cardinality({s}) = 1
    BY FS_Singleton
  <2> QED
    BY <1>1, <2>1
<1>3. TypeOK'
  BY <1>1, <1>2 DEF TypeOK, pgVars, Steps
<1>4. HintFits'
  BY <1>1 DEF HintFits, Denies, pgVars, desiredAll
<1> QED
  BY <1>1, <1>3, <1>4 DEF InLine, StepFits

LEMMA ErrorInv ==
  ASSUME InLineInv, Fail({}), UNCHANGED pgVars, Local, UNCHANGED desired
  PROVE  InLineInv'
<1> USE DEF InLineInv
<1>1. /\ step' = "failed" /\ hint' = {}
      /\ UNCHANGED <<pgVars, watched, gone, faults, migrations, desired>>
  BY DEF Fail, Local
<1>2. TypeOK'
  BY <1>1, QuietType DEF TypeOK, Steps
<1> QED
  BY <1>1, <1>2 DEF InLine, HintFits, StepFits

LEMMA StatementInv ==
  ASSUME InLineInv, CreatePublication \/ DropPublication \/ AlterPublication
  PROVE  InLineInv'
<1>1. desired \subseteq Names
  BY ConstantsType DEF ConstantsType, InLineInv, TypeOK
<1>2. ASSUME CreatePublication PROVE InLineInv'
  <2> DEFINE s == [do |-> "create", on |-> desired]
  <2>1. s \in Statement /\ Local /\ UNCHANGED desired /\ Try(s, Stream)
    BY <1>1, <1>2 DEF Statement, CreatePublication
  <2>2. desired = {} <=> desiredAll
    BY <1>2 DEF CreatePublication, InLineInv, TypeOK
  <2>3. pub = "none" \/ (desiredAll <=> pub = "all")
    BY <1>2 DEF CreatePublication, InLineInv, StepFits
  <2>4. s.do = "create" /\ s.on = desired
    OBVIOUS
  <2> HIDE DEF s
  <2>5. CASE Execute(s, TRUE) /\ Stream
    BY <2>1, <2>2, <2>4, <2>5, ExecuteInv DEF Stream
  <2>6. CASE Denies(s) /\ Fail({s}) /\ UNCHANGED pgVars
    BY <2>1, <2>2, <2>3, <2>4, <2>6, RefusedInv
  <2>7. CASE Fail({}) /\ UNCHANGED pgVars
    BY <2>1, <2>7, ErrorInv
  <2> QED
    BY <2>1, <2>5, <2>6, <2>7 DEF Try
<1>3. ASSUME AlterPublication PROVE InLineInv'
  <2> DEFINE s == [do |-> "alter", on |-> desired]
  <2>1. s \in Statement /\ Local /\ UNCHANGED desired /\ Try(s, Stream)
    BY <1>1, <1>3 DEF Statement, AlterPublication
  <2>2. (desired = {} <=> desiredAll) /\ pub = "scoped" /\ ~desiredAll
    BY <1>3 DEF AlterPublication, InLineInv, TypeOK, StepFits
  <2>4. s.do = "alter" /\ s.on = desired
    OBVIOUS
  <2> HIDE DEF s
  <2>5. CASE Execute(s, TRUE) /\ Stream
    BY <2>1, <2>2, <2>4, <2>5, ExecuteInv DEF Stream
  <2>6. CASE Denies(s) /\ Fail({s}) /\ UNCHANGED pgVars
    BY <2>1, <2>2, <2>4, <2>6, RefusedInv
  <2>7. CASE Fail({}) /\ UNCHANGED pgVars
    BY <2>1, <2>7, ErrorInv
  <2> QED
    BY <2>1, <2>5, <2>6, <2>7 DEF Try
<1>4. ASSUME DropPublication PROVE InLineInv'
  <2> DEFINE s == [do |-> "drop", on |-> {}]
  <2>1. s \in Statement /\ Local /\ UNCHANGED desired
    BY <1>4 DEF Statement, DropPublication
  <2>2. /\ step = "drop" /\ (desired = {} <=> desiredAll)
        /\ \/ pub = "none" /\ hint = {}
           \/ pub # "none" /\ ~(desiredAll <=> pub = "all")
    BY <1>4 DEF DropPublication, InLineInv, TypeOK, StepFits
  <2>3. s.do = "drop" /\ s.on = {}
    OBVIOUS
  <2> HIDE DEF s
  <2>4. CASE ~Denies(s) /\ Execute(s, TRUE) /\ Goto("create")
    <3>1. hint = {}
      BY <2>1, <2>2, <2>3, <2>4, NothingShown
    <3>2. step' = "create" /\ hint' = {}
      BY <2>4, <3>1 DEF Goto
    <3> QED
      BY <2>1, <2>2, <2>3, <2>4, <3>2, ExecuteInv
  <2>5. CASE Denies(s) /\ Fail({s}) /\ UNCHANGED pgVars
    <3>1. pub # "none"
      BY <2>3, <2>5 DEF Denies
    <3> QED
      BY <2>1, <2>2, <2>3, <2>5, <3>1, RefusedInv
  <2>6. CASE Fail({}) /\ UNCHANGED pgVars
    BY <2>1, <2>6, ErrorInv
  <2> QED
    BY <1>4, <2>4, <2>5, <2>6 DEF DropPublication, Try, s
<1> QED
  BY <1>2, <1>3, <1>4

-----------------------------------------------------------------------------
LEMMA NextInv == InLineInv /\ [Next]_vars => InLineInv'
<1> SUFFICES ASSUME InLineInv, [Next]_vars PROVE InLineInv'
  OBVIOUS
<1>1. CASE UNCHANGED vars
  BY <1>1 DEF InLineInv, TypeOK, InLine, HintFits, Denies, StepFits, Plain,
     desiredAll, vars, pgVars, readerVars
<1>2. CASE EnsurePublication
  BY <1>2, ResolveInv, FetchInv, ReadInv, AgainInv, StatementInv
     DEF EnsurePublication
<1> QED
  BY <1>1, <1>2, HintInv, MigrateInv, FaultInv DEF Next

(* Every variable keeps its type; a connection past its first step has a   *)
(* table list exactly when it does not watch all tables (reader.go:        *)
(* 383-398).                                                               *)
THEOREM TypeCorrect == Spec => []TypeOK
<1>1. InLineInv => TypeOK
  BY DEF InLineInv
<1> QED
  BY <1>1, InitInv, NextInv, PTL DEF Spec

(* However migrations, the operator and earlier configurations interfere   *)
(* between the statements, the reader only streams on a publication that   *)
(* is in line with what it watches (reader.go:259-328).                    *)
THEOREM StreamsInLine == Spec => []InLine
<1>1. InLineInv => InLine
  BY DEF InLineInv
<1> QED
  BY <1>1, InitInv, NextInv, PTL DEF Spec
=============================================================================
