----------------------------- MODULE SyncProofs -----------------------------
(***************************************************************************)
(* The agent across its crashes loses no change and implements DocSync.    *)
(*                                                                         *)
(* Every step of reader, workers, interest or crash is, for a subscriber,  *)
(* a change of the rows, a change of interest, a publish or a change of    *)
(* plans.  That a stale doc with subscribers is due is an invariant of     *)
(* DocSync, and so carries over; what the mapping needs of the reader is   *)
(* its own inductive invariant (ReaderProofs): a position is acknowledged  *)
(* only when what lies before it was handled or preceded the startup poll. *)
(***************************************************************************)
EXTENDS Sync, ReaderProofs

(* An event is counted as handled only once its transaction had committed. *)
HandledLate == \A i \in current \cap DOMAIN wal : Committed(wal[i].tx)

(* What is published, then what is in hand, then what the rows say.        *)
Ordered ==
  \A d \in Docs :
    /\ published[d] <= Version(d)
    /\ result[d] # 0 => published[d] <= result[d] /\ result[d] <= Version(d)

SyncInv ==
  /\ ReaderInv
  /\ SyncTypeOK
  /\ phase = "boot" => live = {}
  /\ HandledLate
  /\ Ordered
  /\ NoLostChange

-----------------------------------------------------------------------------
(* Versions.                                                               *)

LEMMA CountsAreVersions ==
  ASSUME NEW T \in SUBSET Txs
  PROVE  IsFiniteSet(T) /\ Cardinality(T) \in Nat /\ 1 + Cardinality(T) \in 1 .. MaxVersion
<1>1. Cardinality(Txs) \in Nat /\ Cardinality(T) \in Nat /\ Cardinality(T) <= Cardinality(Txs)
  BY DocsType, FS_Subset, FS_CardinalityType DEF DocsType
<1>2. IsFiniteSet(T)
  BY DocsType, FS_Subset DEF DocsType
<1> QED
  BY <1>1, <1>2 DEF MaxVersion

LEMMA VersionType ==
  /\ MaxVersion \in Nat /\ MaxVersion >= 1
  /\ \A d : Version(d) \in 1 .. MaxVersion
  /\ \A d : Version(d)' \in 1 .. MaxVersion
<1>1. MaxVersion \in Nat /\ MaxVersion >= 1
  BY DocsType, FS_CardinalityType DEF DocsType, MaxVersion
<1>2. ASSUME NEW d PROVE Version(d) \in 1 .. MaxVersion
  BY CountsAreVersions DEF Version
<1>3. ASSUME NEW d PROVE Version(d)' \in 1 .. MaxVersion
  BY CountsAreVersions DEF Version
<1> QED
  BY <1>1, <1>2, <1>3

LEMMA EventsAreRecords ==
  ASSUME TypeOK, queue # << >>
  PROVE  \A i \in Events(Head(queue)) : i \in DOMAIN wal /\ wal[i].tx \in Txs
<1>1. Head(queue) \in Message
  BY HeadTailProperties DEF TypeOK
<1>2. DOMAIN wal = 1 .. Len(wal) /\ Len(wal) \in Nat /\ \A i \in DOMAIN wal : wal[i] \in Record
  BY LenProperties DEF TypeOK
<1>3. \A i \in Events(Head(queue)) : i \in DOMAIN wal
  BY <1>1, <1>2 DEF Events, Message, Positions
<1> QED
  BY <1>2, <1>3 DEF Record

(* What the reader's part of a step is to Reader.                          *)
LEMMA ReaderSteps ==
  ASSUME [SyncNext]_syncVars
  PROVE  \/ [Next]_vars
         \/ /\ UNCHANGED <<serverVars, senderVars, queue, phase, clientVars, engineVars>>
            /\ faults < MaxFaults /\ faults' = faults + 1
<1>1. CASE ReaderAlone \/ HandleEvent \/ SyncLiveAtStart \/ Die
  BY <1>1 DEF ReaderAlone, HandleEvent, SyncLiveAtStart, Die, Next, Setup, StreamLoop, Fault
<1>2. ASSUME NEW d \in Docs, Warm(d) \/ Expire(d) \/ Work(d) PROVE UNCHANGED vars
  BY <1>2 DEF Warm, Expire, Work, Drop, RunDoc, PublishDoc
<1>3. ASSUME NEW d \in Docs, Fails(d)
      PROVE  /\ UNCHANGED <<serverVars, senderVars, queue, phase, clientVars, engineVars>>
             /\ faults < MaxFaults /\ faults' = faults + 1
  BY <1>3 DEF Fails
<1> QED
  BY <1>1, <1>2, <1>3 DEF SyncNext, syncVars

LEMMA SyncTypeInit == SyncInit => SyncTypeOK
BY TypeInit, VersionType DEF SyncInit, SyncTypeOK

LEMMA SyncTypeNext == SyncTypeOK /\ [SyncNext]_syncVars => SyncTypeOK'
<1> SUFFICES ASSUME SyncTypeOK, [SyncNext]_syncVars PROVE SyncTypeOK'
  OBVIOUS
<1> USE DEF SyncTypeOK
<1>1. TypeOK'
  <2>1. CASE [Next]_vars
    BY <2>1, TypeNext
  <2>2. CASE /\ UNCHANGED <<serverVars, senderVars, queue, phase, clientVars, engineVars>>
             /\ faults < MaxFaults /\ faults' = faults + 1
    BY <2>2, ConstantsType
    DEF ConstantsType, serverVars, senderVars, clientVars, engineVars, TypeOK, Positions, Message
  <2> QED
    BY <2>1, <2>2, ReaderSteps
<1>2. CASE ReaderAlone \/ UNCHANGED syncVars
  BY <1>1, <1>2 DEF ReaderAlone, syncVars, docVars
<1>3. CASE HandleEvent
  <2>1. queue # << >>
    BY <1>3 DEF HandleEvent, Receive
  <2>2. \A i \in Events(Head(queue)) : On[wal[i].tx] \subseteq Docs
    BY <2>1, EventsAreRecords, DocsType DEF DocsType
  <2>3. UNION {On[wal[i].tx] : i \in Events(Head(queue))} \subseteq Docs
    BY <2>2
  <2> QED
    BY <1>1, <1>3, <2>3 DEF HandleEvent
<1>4. CASE SyncLiveAtStart \/ Die
  BY <1>1, <1>4, VersionType DEF SyncLiveAtStart, Die
<1>5. ASSUME NEW d \in Docs, Warm(d) \/ Expire(d) \/ Drop(d) PROVE SyncTypeOK'
  BY <1>1, <1>5 DEF Warm, Expire, Drop
<1>6. ASSUME NEW d \in Docs, RunDoc(d) \/ PublishDoc(d) \/ Fails(d) PROVE SyncTypeOK'
  BY <1>1, <1>6, VersionType DEF RunDoc, PublishDoc, Fails
<1> QED
  BY <1>2, <1>3, <1>4, <1>5, <1>6 DEF SyncNext, Work

(***************************************************************************)
(* The docs in memory are docs of the definitions, and what is in hand or  *)
(* retained is a result some rows had (agent.go:203-214, engine.go:319-368).*)
(***************************************************************************)
THEOREM SyncTypeHolds == SyncSpec => []SyncTypeOK
BY SyncTypeInit, SyncTypeNext, PTL DEF SyncSpec

-----------------------------------------------------------------------------
(* What a step of the log changes: one transaction commits, or none.       *)

LEMMA CommitsLogged ==
  ASSUME TypeOK, NEW t \in Txs, NEW kind \in Kinds, Log(t, kind)
  PROVE  /\ \A u \in Txs : Committed(u) =>
              u # t /\ Committed(u)' /\ CommitLSN(u)' = CommitLSN(u)
         /\ \A u \in Txs : Committed(u)' => Committed(u) \/ (u = t /\ kind = "commit")
         /\ kind = "commit" => Committed(t)' /\ CommitLSN(t)' = Len(wal') /\ ~Committed(t)
<1>1. /\ DOMAIN wal = 1 .. Len(wal) /\ Len(wal) \in Nat
      /\ Len(wal') = Len(wal) + 1
      /\ \A i \in 1 .. Len(wal) : wal'[i] = wal[i]
      /\ wal'[Len(wal')] = [tx |-> t, kind |-> kind]
  BY LogAppends
<1>2. \A i : i \in 1 .. Len(wal') <=> (i \in 1 .. Len(wal) \/ i = Len(wal'))
  BY <1>1
<1>3. ~Committed(t)
  BY DEF Log, Ended
<1>4. ASSUME NEW u \in Txs, u # t
      PROVE  RecordsOf(u, "commit")' = RecordsOf(u, "commit")
  <2>1. wal'[Len(wal')] # [tx |-> u, kind |-> "commit"]
    BY <1>1, <1>4
  <2> QED
    BY <1>1, <1>2, <2>1 DEF RecordsOf
<1>5. \A u \in Txs : Committed(u) <=> RecordsOf(u, "commit") # {}
  BY DEF Committed, Logged, RecordsOf
<1>6. \A u \in Txs : Committed(u)' <=> RecordsOf(u, "commit")' # {}
  BY DEF Committed, Logged, RecordsOf
<1>7. ASSUME NEW u \in Txs, Committed(u)
      PROVE  u # t /\ Committed(u)' /\ CommitLSN(u)' = CommitLSN(u)
  BY <1>3, <1>4, <1>5, <1>6, <1>7 DEF CommitLSN
<1>8. ASSUME kind = "commit"
      PROVE  Committed(t)' /\ CommitLSN(t)' = Len(wal')
  <2>1. RecordsOf(t, "commit") = {}
    BY <1>3, <1>5
  <2>2. RecordsOf(t, "commit")' = {Len(wal')}
    BY <1>1, <1>2, <1>8, <2>1 DEF RecordsOf
  <2> QED
    BY <1>6, <2>2 DEF CommitLSN
<1>9. ASSUME NEW u \in Txs, Committed(u)' PROVE Committed(u) \/ (u = t /\ kind = "commit")
  <2>1. CASE u # t
    BY <1>4, <1>5, <1>6, <1>9, <2>1
  <2>2. CASE u = t /\ kind # "commit"
    <3>1. wal'[Len(wal')] # [tx |-> t, kind |-> "commit"]
      BY <1>1, <2>2
    <3>2. RecordsOf(t, "commit")' = RecordsOf(t, "commit")
      BY <1>1, <1>2, <3>1 DEF RecordsOf
    <3> QED
      BY <1>5, <1>6, <1>9, <2>2, <3>2
  <2> QED
    BY <2>1, <2>2
<1> QED
  BY <1>3, <1>7, <1>8, <1>9

(* Committed transactions are covered as before, the new one is not.       *)
LEMMA CommitIsOnItsWay ==
  ASSUME ReaderInv, HandledLate, NEW t \in Txs, End(t), Log(t, "commit")
  PROVE  OnItsWay(t)'
<1>0. TypeOK /\ "commit" \in Kinds
  BY DEF ReaderInv, Kinds
<1>1. /\ Committed(t)' /\ CommitLSN(t)' = Len(wal') /\ ~Committed(t)
      /\ Len(wal') = Len(wal) + 1 /\ Len(wal) \in Nat
  BY <1>0, CommitsLogged, LogAppends
<1>2. confirmed' = confirmed /\ refreshed' = refreshed /\ current' = current
  BY DEF Log, engineVars
<1>3. confirmed <= Len(wal) /\ refreshed <= Len(wal) /\ confirmed \in Nat /\ refreshed \in Nat
  BY <1>0, <1>1 DEF TypeOK, Positions
<1>4. PICK i : i \in Changes(t)
  BY DEF End
<1>5. i \in DOMAIN wal /\ wal[i].tx = t
  BY <1>0, <1>4, RecordsOfType DEF TypeOK, Changes
<1>6. i \in Changes(t)'
  BY <1>0, <1>4, <1>5, LogAppends DEF Changes, RecordsOf
<1>7. i \notin current
  BY <1>1, <1>5 DEF HandledLate
<1>8. ~(Changes(t)' \subseteq current')
  BY <1>2, <1>6, <1>7
<1> QED
  BY <1>1, <1>2, <1>3, <1>8 DEF OnItsWay, Covered

LEMMA LogKeepsOnItsWay ==
  ASSUME TypeOK, NEW t \in Txs, NEW kind \in Kinds, Log(t, kind),
         NEW u \in Txs, Committed(u)
  PROVE  OnItsWay(u)' <=> OnItsWay(u)
<1>1. u # t /\ Committed(u)' /\ CommitLSN(u)' = CommitLSN(u)
  BY CommitsLogged
<1>2. Changes(u)' = Changes(u)
  BY <1>1, LogAppends
<1>3. confirmed' = confirmed /\ refreshed' = refreshed /\ current' = current
  BY DEF Log, engineVars
<1> QED
  BY <1>1, <1>2, <1>3 DEF OnItsWay, Covered

(* The version of a doc counts the transactions that altered it.           *)
LEMMA VersionLogged ==
  ASSUME TypeOK, NEW t \in Txs, NEW kind \in Kinds, Log(t, kind), NEW d
  PROVE  Version(d)' = IF kind = "commit" /\ d \in On[t] THEN Version(d) + 1 ELSE Version(d)
<1> DEFINE T == {u \in Txs : Committed(u) /\ d \in On[u]}
           S == {u \in Txs : Committed(u)' /\ d \in On[u]}
<1>1. Version(d) = 1 + Cardinality(T) /\ Version(d)' = 1 + Cardinality(S)
  BY DEF Version
<1>2. IsFiniteSet(T) /\ Cardinality(T) \in Nat
  BY CountsAreVersions
<1>3. \A u \in Txs : Committed(u)' <=> Committed(u) \/ (u = t /\ kind = "commit")
  BY CommitsLogged
<1>4. kind = "commit" => ~Committed(t)
  BY CommitsLogged
<1>5. CASE kind = "commit" /\ d \in On[t]
  <2>1. S = T \cup {t} /\ t \notin T
    BY <1>3, <1>4, <1>5
  <2> HIDE DEF S, T
  <2>2. Cardinality(S) = Cardinality(T) + 1
    BY <1>2, <2>1, FS_AddElement
  <2> QED
    BY <1>1, <1>2, <1>5, <2>2
<1>6. CASE ~(kind = "commit" /\ d \in On[t])
  <2>1. S = T
    BY <1>3, <1>6
  <2> QED
    BY <1>1, <1>6, <2>1
<1> QED
  BY <1>5, <1>6

-----------------------------------------------------------------------------
(* What is due.                                                            *)

OnWay(d) == \E t \in Txs : d \in On[t] /\ OnItsWay(t)

LEMMA DueParts ==
  \A d : Due(d) <=> d \in marked \/ result[d] = Version(d) \/ OnWay(d)
BY DEF Due, OnWay

LEMMA DuePartsNext ==
  \A d : Due(d)' <=> d \in marked' \/ result'[d] = Version(d)' \/ OnWay(d)'
BY DEF Due, OnWay

LEMMA RowsStay ==
  ASSUME wal' = wal
  PROVE  /\ \A t : (Committed(t)' <=> Committed(t)) /\ CommitLSN(t)' = CommitLSN(t)
         /\ \A d : Version(d)' = Version(d)
<1>1. \A t : (Committed(t)' <=> Committed(t)) /\ CommitLSN(t)' = CommitLSN(t)
  BY DEF Committed, Logged, CommitLSN, RecordsOf
<1> QED
  BY <1>1 DEF Version

LEMMA WayStays ==
  ASSUME wal' = wal, confirmed' = confirmed, current' = current, refreshed' = refreshed
  PROVE  \A d : (OnWay(d)' <=> OnWay(d)) /\ Version(d)' = Version(d)
<1>1. \A t : OnItsWay(t)' <=> OnItsWay(t)
  BY RowsStay, LogStays DEF OnItsWay, Covered
<1> QED
  BY <1>1, RowsStay DEF OnWay

-----------------------------------------------------------------------------
(* The steps of DocSync, in the terms of this module.                      *)

SameRows == \A d \in WholeDocs : Version(d)' = Version(d)

LEMMA AsPlan ==
  ASSUME SameRows, published' = published, live' = live,
         \A d \in DueDocs \ DueDocs' : d \notin live \/ ~Stale(d)
  PROVE  Promised!Next
<1>1. DueDocs' \subseteq WholeDocs /\ DueDocs \subseteq WholeDocs
  BY DEF DueDocs, WholeDocs, Whole
<1>2. Promised!Plan
  BY <1>1 DEF Promised!Plan, Promised!Stale, SameRows, Stale, WholeDocs, Whole
<1> QED
  BY <1>2 DEF Promised!Next

LEMMA AsInterest ==
  ASSUME SameRows, published' = published,
         WholeDocs \cap (live' \ live) \subseteq DueDocs',
         DueDocs \cap live' \subseteq DueDocs'
  PROVE  Promised!Next
<1>1. DueDocs' \subseteq WholeDocs
  BY DEF DueDocs, WholeDocs, Whole
<1>2. Promised!Interest
  BY <1>1 DEF Promised!Interest, SameRows, WholeDocs, Whole
<1> QED
  BY <1>2 DEF Promised!Next

LEMMA AsPublish ==
  ASSUME SameRows, live' = live, published \in [Docs -> Nat],
         NEW d \in WholeDocs, NEW v \in published[d] .. Version(d),
         published' = [published EXCEPT ![d] = v],
         DueDocs \ {d} \subseteq DueDocs', DueDocs' \subseteq DueDocs \cup {d},
         d \in DueDocs' \/ d \notin live \/ v = Version(d)
  PROVE  Promised!Next
<1>1. Promised!Publish(d)
  BY DEF Promised!Publish, SameRows, WholeDocs, Whole
<1> QED
  BY <1>1 DEF Promised!Next

LEMMA AsChange ==
  ASSUME UNCHANGED <<published, live>>, NEW changed \in SUBSET Docs,
         \A d \in WholeDocs :
           Version(d)' = IF d \in changed THEN Version(d) + 1 ELSE Version(d),
         DueDocs \cup (changed \cap WholeDocs) \subseteq DueDocs'
  PROVE  Promised!Next
<1>1. DueDocs' \subseteq WholeDocs /\ WholeDocs' = WholeDocs
  BY DEF DueDocs, WholeDocs, Whole
<1>2. \A d : Version(d)' \in 0 .. MaxVersion
  BY VersionType
<1>3. Promised!Change(changed \cap WholeDocs)
  BY <1>1, <1>2 DEF Promised!Change, Promised!Version
<1> QED
  BY <1>3 DEF Promised!Next

(* In DocSync a stale doc with subscribers is due, and no step undoes it.  *)
LEMMA PromiseKeepsDue ==
  ASSUME SyncTypeOK, SyncTypeOK', NoLostChange, [Promised!Next]_(Promised!vars)
  PROVE  NoLostChange'
<1> SUFFICES ASSUME NEW d \in live', Whole(d), published'[d] # Version(d)'
             PROVE  Due(d)'
  BY DEF NoLostChange, Stale, Whole
<1> SUFFICES d \in DueDocs'
  BY DEF DueDocs
<1>1. d \in WholeDocs
  BY DEF SyncTypeOK, WholeDocs
<1>2. WholeDocs' = WholeDocs
  BY DEF WholeDocs, Whole
<1>3. d \in live /\ published[d] # Version(d) => d \in DueDocs
  BY <1>1 DEF NoLostChange, Stale, DueDocs, WholeDocs
<1> DEFINE db  == [c \in WholeDocs |-> Version(c)]
           pub == [c \in WholeDocs |-> published[c]]
<1>4. /\ db[d] = Version(d) /\ pub[d] = published[d]
      /\ db'[d] = Version(d)' /\ pub'[d] = published'[d]
  BY <1>1, <1>2
<1> HIDE DEF db, pub
<1>5. CASE Promised!Plan
  BY <1>1, <1>2, <1>3, <1>4, <1>5 DEF Promised!Plan, Promised!Stale, db, pub
<1>6. CASE Promised!Interest
  BY <1>1, <1>2, <1>3, <1>4, <1>6 DEF Promised!Interest, db, pub
<1>7. ASSUME NEW c \in WholeDocs, Promised!Publish(c) PROVE d \in DueDocs'
  BY <1>1, <1>2, <1>3, <1>4, <1>7 DEF Promised!Publish, db, pub
<1>8. ASSUME NEW changed \in SUBSET WholeDocs, Promised!Change(changed) PROVE d \in DueDocs'
  BY <1>1, <1>2, <1>3, <1>4, <1>8 DEF Promised!Change, db, pub
<1>9. CASE UNCHANGED Promised!vars
  BY <1>1, <1>2, <1>3, <1>4, <1>9 DEF Promised!vars, db, pub
<1> QED
  BY <1>5, <1>6, <1>7, <1>8, <1>9 DEF Promised!Next

-----------------------------------------------------------------------------
(* Step by step.                                                           *)

(* Nothing that any doc depends on changes.                                *)
LEMMA RefinesIdle ==
  ASSUME wal' = wal, confirmed' = confirmed, current' = current,
         refreshed' = refreshed, UNCHANGED docVars
  PROVE  Promised!Next
<1>1. \A d : Due(d)' <=> Due(d)
  BY WayStays, DueParts, DuePartsNext DEF docVars
<1>2. DueDocs' = DueDocs
  BY <1>1 DEF DueDocs, WholeDocs, Whole
<1> QED
  BY <1>2, WayStays, AsPlan DEF docVars, SameRows

LEMMA RefinesDatabase ==
  ASSUME SyncInv, Database, UNCHANGED docVars PROVE Promised!Next
<1>0. TypeOK /\ ReaderInv /\ HandledLate
  BY DEF SyncInv, ReaderInv
<1>1. PICK t \in Txs : ChangeRow(t) \/ End(t)
  BY DEF Database
<1>2. PICK kind \in Kinds : Log(t, kind) /\ (kind = "commit" => End(t))
  BY <1>1 DEF ChangeRow, End, Kinds
<1> DEFINE changed == IF kind = "commit" THEN On[t] ELSE {}
<1>3. changed \in SUBSET Docs
  BY DocsType DEF DocsType
<1>4. \A d : Version(d)' = IF d \in changed THEN Version(d) + 1 ELSE Version(d)
  BY <1>0, <1>2, VersionLogged
<1>5. ASSUME NEW d \in changed PROVE OnWay(d)'
  BY <1>0, <1>2, <1>5, CommitIsOnItsWay DEF OnWay
<1>6. ASSUME NEW d, OnWay(d) PROVE OnWay(d)'
  <2>1. PICK u \in Txs : d \in On[u] /\ OnItsWay(u)
    BY <1>6 DEF OnWay
  <2>2. OnItsWay(u)'
    BY <1>0, <1>2, <2>1, LogKeepsOnItsWay DEF OnItsWay
  <2> QED
    BY <2>1, <2>2 DEF OnWay
<1>7. ASSUME NEW d, Due(d) \/ d \in changed PROVE Due(d)'
  <2>1. d \notin changed => Version(d)' = Version(d)
    BY <1>4
  <2> HIDE DEF changed
  <2> QED
    BY <1>5, <1>6, <1>7, <2>1, DueParts, DuePartsNext DEF docVars
<1> HIDE DEF changed
<1>8. DueDocs \cup (changed \cap WholeDocs) \subseteq DueDocs'
  BY <1>7 DEF DueDocs, WholeDocs, Whole
<1> QED
  BY <1>3, <1>4, <1>8, AsChange DEF docVars

LEMMA RefinesSendStandbyStatus ==
  ASSUME SyncInv, SendStandbyStatus, UNCHANGED docVars PROVE Promised!Next
<1>0. ReaderInv /\ TypeOK /\ ReachedTo(clientLSN)
  BY DEF SyncInv, ReaderInv, ReachedInv, SendStandbyStatus
<1>1. /\ wal' = wal /\ current' = current /\ refreshed' = refreshed
      /\ confirmed' = clientLSN
  BY DEF SendStandbyStatus, engineVars
<1>2. ASSUME NEW d \in WholeDocs, OnWay(d) PROVE OnWay(d)'
  <2>1. PICK t \in Txs : d \in On[t] /\ OnItsWay(t)
    BY <1>2 DEF OnWay
  <2>2. t \notin Streamed
    BY <2>1 DEF WholeDocs, Whole
  <2>3. Committed(t) /\ ~Covered(t) /\ ~(CommitLSN(t) <= clientLSN)
    BY <1>0, <2>1, <2>2, ReachedIsCovered DEF OnItsWay
  <2>4. CommitLSN(t) \in Nat
    BY <1>0, <2>3, RecordsOfType DEF TypeOK, CommitLSN, Committed, Logged, RecordsOf
  <2>5. CommitLSN(t) > clientLSN
    BY <1>0, <2>3, <2>4 DEF TypeOK, Positions
  <2>6. OnItsWay(t)'
    BY <1>1, <2>3, <2>5, RowsStay, LogStays DEF OnItsWay, Covered
  <2> QED
    BY <2>1, <2>6 DEF OnWay
<1>3. \A d : Version(d)' = Version(d)
  BY <1>1, RowsStay
<1>4. DueDocs \subseteq DueDocs'
  BY <1>2, <1>3, DueParts, DuePartsNext DEF DueDocs, WholeDocs, Whole, docVars
<1> QED
  BY <1>3, <1>4, AsPlan DEF docVars, SameRows

(* A transaction handled to its end has its docs marked by its last event. *)
LEMMA RefinesHandleEvent ==
  ASSUME SyncInv, HandleEvent PROVE Promised!Next
<1> DEFINE handled == Events(Head(queue))
<1>0. TypeOK /\ queue # << >>
  BY DEF SyncInv, ReaderInv, HandleEvent, Receive
<1>1. /\ wal' = wal /\ confirmed' = confirmed /\ refreshed' = refreshed
      /\ current' \subseteq current \cup handled
      /\ UNCHANGED <<live, result, published>>
      /\ marked' = marked \cup UNION {On[wal[i].tx] : i \in handled}
  BY DEF HandleEvent, Receive, serverVars
<1> HIDE DEF handled
<1>2. \A d : Version(d)' = Version(d)
  BY <1>1, RowsStay
<1>3. ASSUME NEW t \in Txs, NEW d \in On[t], OnItsWay(t), ~OnItsWay(t)' PROVE d \in marked'
  <2>1. Changes(t)' = Changes(t) /\ Committed(t)' /\ CommitLSN(t)' = CommitLSN(t)
    BY <1>1, <1>3, RowsStay, LogStays DEF OnItsWay
  <2>2. ~(Changes(t) \subseteq current) /\ Changes(t) \subseteq current'
    BY <1>1, <1>3, <2>1 DEF OnItsWay, Covered
  <2>3. PICK i : i \in Changes(t) /\ i \in handled
    BY <1>1, <2>2
  <2>4. wal[i].tx = t
    BY <1>0, <2>3, RecordsOfType DEF TypeOK, Changes
  <2> QED
    BY <1>1, <2>3, <2>4
<1>4. ASSUME NEW d, Due(d) PROVE Due(d)'
  <2>1. OnWay(d) => OnWay(d)' \/ d \in marked'
    BY <1>3 DEF OnWay
  <2> QED
    BY <1>1, <1>2, <1>4, <2>1, DueParts, DuePartsNext
<1>5. DueDocs \subseteq DueDocs'
  BY <1>4 DEF DueDocs, WholeDocs, Whole
<1> QED
  BY <1>1, <1>2, <1>5, AsPlan DEF SameRows

(* Interest comes, goes, or dies with the process.                         *)
LEMMA RefinesInterest ==
  ASSUME SyncInv,
         \/ SyncLiveAtStart \/ Die
         \/ \E d \in Docs : Warm(d) \/ Expire(d)
  PROVE  Promised!Next
<1>1. wal' = wal /\ published' = published
  BY DEF SyncLiveAtStart, StartupPoll, Die, Crash, Warm, Expire, vars, serverVars
<1>2. SameRows
  BY <1>1, RowsStay DEF SameRows
<1>3. CASE SyncLiveAtStart
  <2>1. live = {} /\ live' \subseteq Docs /\ marked' = live'
    BY <1>3 DEF SyncInv, SyncLiveAtStart, StartupPoll
  <2>2. WholeDocs \cap live' \subseteq DueDocs'
    BY <2>1, DuePartsNext DEF DueDocs, WholeDocs, Whole
  <2>3. DueDocs \subseteq WholeDocs
    BY DEF DueDocs
  <2> QED
    BY <1>1, <1>2, <2>2, <2>3, AsInterest
<1>4. CASE Die
  BY <1>1, <1>2, <1>4, AsInterest DEF Die
<1>5. ASSUME NEW d \in Docs, Warm(d) \/ Expire(d) PROVE Promised!Next
  <2>1. /\ confirmed' = confirmed /\ current' = current /\ refreshed' = refreshed
        /\ marked \subseteq marked' /\ live' \ live \subseteq marked' /\ result' = result
    BY <1>5 DEF Warm, Expire, vars, serverVars, engineVars
  <2>2. \A c : Due(c) => Due(c)'
    BY <1>1, <2>1, WayStays, DueParts, DuePartsNext
  <2>3. \A c \in live' \ live : Due(c)'
    BY <2>1, DuePartsNext
  <2>4. DueDocs \subseteq DueDocs' /\ WholeDocs \cap (live' \ live) \subseteq DueDocs'
    BY <2>2, <2>3 DEF DueDocs, WholeDocs, Whole
  <2> QED
    BY <1>1, <1>2, <2>4, AsInterest
<1> QED
  BY <1>3, <1>4, <1>5

(* A doc is taken, and dropped or computed.                                *)
LEMMA RefinesTake ==
  ASSUME SyncInv, NEW d \in Docs, Drop(d) \/ RunDoc(d) PROVE Promised!Next
<1>1. /\ wal' = wal /\ confirmed' = confirmed /\ current' = current /\ refreshed' = refreshed
      /\ published' = published /\ live' = live /\ marked' = marked \ {d}
  BY DEF Drop, RunDoc, vars, serverVars, engineVars
<1>2. SameRows
  BY <1>1, RowsStay DEF SameRows
<1>3. \A c \in Docs : c # d => result'[c] = result[c]
  BY DEF Drop, RunDoc, SyncInv, SyncTypeOK
<1>4. ASSUME NEW c \in Docs, c # d, Due(c) PROVE Due(c)'
  BY <1>1, <1>3, <1>4, WayStays, DueParts, DuePartsNext
<1>5. CASE Drop(d)
  <2>1. d \notin live
    BY <1>5 DEF Drop
  <2>2. \A c \in DueDocs \ DueDocs' : c = d
    BY <1>4 DEF DueDocs, WholeDocs, Whole
  <2> QED
    BY <1>1, <1>2, <2>1, <2>2, AsPlan
<1>6. CASE RunDoc(d)
  <2>1. result'[d] = Version(d)'
    BY <1>1, <1>6, WayStays DEF RunDoc, SyncInv, SyncTypeOK
  <2>2. DueDocs \subseteq DueDocs'
    BY <1>4, <2>1, DuePartsNext DEF DueDocs, WholeDocs, Whole
  <2> QED
    BY <1>1, <1>2, <2>2, AsPlan
<1> QED
  BY <1>5, <1>6

(* A result leaves the worker's hands, for foony or not.                   *)
LEMMA RefinesPublish ==
  ASSUME SyncInv, NEW d \in Docs, PublishDoc(d) \/ Fails(d) PROVE Promised!Next
<1>1. /\ wal' = wal /\ confirmed' = confirmed /\ current' = current /\ refreshed' = refreshed
      /\ live' = live /\ result[d] # 0
      /\ result' = [result EXCEPT ![d] = 0]
      /\ marked' = marked \/ marked' = marked \cup {d}
      /\ \/ published' = [published EXCEPT ![d] = result[d]]
         \/ published' = published /\ d \in marked'
  BY DEF PublishDoc, Fails, vars, serverVars, engineVars
<1>2. SameRows
  BY <1>1, RowsStay DEF SameRows
<1>3. /\ result \in [Docs -> Nat] /\ published \in [Docs -> Nat]
      /\ live \subseteq Docs
  BY VersionType DEF SyncInv, SyncTypeOK
<1>4. \A c \in Docs : c # d => result'[c] = result[c]
  BY <1>1, <1>3
<1>5. ASSUME NEW c \in Docs, c # d PROVE Due(c)' <=> Due(c)
  BY <1>1, <1>4, <1>5, WayStays, DueParts, DuePartsNext
<1>6. DueDocs \ {d} \subseteq DueDocs' /\ DueDocs' \subseteq DueDocs \cup {d}
  BY <1>5 DEF DueDocs, WholeDocs, Whole
<1>7. CASE d \notin WholeDocs
  <2>1. DueDocs' = DueDocs
    BY <1>6, <1>7 DEF DueDocs, WholeDocs, Whole
  <2>2. Promised!Plan
    <3>1. \A c \in WholeDocs : published'[c] = published[c] /\ Version(c)' = Version(c)
      BY <1>1, <1>2, <1>3, <1>7 DEF SameRows, WholeDocs
    <3> QED
      BY <1>1, <2>1, <3>1 DEF Promised!Plan, WholeDocs, Whole, DueDocs
  <2> QED
    BY <2>2 DEF Promised!Next
<1>8. CASE d \in WholeDocs /\ published' = published /\ d \in marked'
  <2>1. d \in DueDocs'
    BY <1>8, DuePartsNext DEF DueDocs, WholeDocs, Whole
  <2> QED
    BY <1>1, <1>2, <1>6, <1>8, <2>1, AsPlan
<1>9. CASE d \in WholeDocs /\ published' = [published EXCEPT ![d] = result[d]]
  <2>1. published[d] <= result[d] /\ result[d] <= Version(d) /\ Version(d) \in Nat
    BY <1>1, VersionType DEF SyncInv, Ordered
  <2>2. result[d] \in published[d] .. Version(d)
    BY <1>3, <2>1
  <2>3. ASSUME d \in live, result[d] # Version(d) PROVE d \in DueDocs'
    <3>1. Stale(d) /\ Whole(d)
      BY <1>3, <1>9, <2>1, <2>3 DEF Stale, WholeDocs
    <3>2. d \in marked \/ OnWay(d)
      BY <2>3, <3>1, DueParts DEF SyncInv, NoLostChange
    <3>3. Due(d)'
      BY <1>1, <3>2, WayStays, DuePartsNext
    <3> QED
      BY <1>9, <3>3 DEF DueDocs, WholeDocs, Whole
  <2> QED
    BY <1>1, <1>2, <1>3, <1>6, <1>9, <2>2, <2>3, AsPublish
<1> QED
  BY <1>1, <1>7, <1>8, <1>9

LEMMA RefinesNext ==
  ASSUME SyncInv, [SyncNext]_syncVars PROVE Promised!Next
<1>1. CASE ReaderAlone
  <2>1. UNCHANGED docVars
    BY <1>1 DEF ReaderAlone
  <2>2. CASE Walsender \/ Connect \/ EnsureReplicationSlot \/ StartReplication \/ Disconnect
    <3>1. wal' = wal /\ current' = current /\ refreshed' = refreshed
      BY <2>2 DEF Walsender, ReadChange, SendWhole, StreamRest, ReadAbort, Reads, Keepalive,
         Connect, EnsureReplicationSlot, StartReplication, Disconnect, serverVars, engineVars
    <3>2. confirmed' = confirmed
      BY <2>2
      DEF Walsender, ReadChange, SendWhole, StreamRest, ReadAbort, Reads, Keepalive, Connect,
          EnsureReplicationSlot, StartReplication, Disconnect, serverVars, SyncInv, ReaderInv,
          SessionInv
    <3> QED
      BY <2>1, <3>1, <3>2, RefinesIdle
  <2> QED
    BY <1>1, <2>1, <2>2, RefinesDatabase, RefinesSendStandbyStatus DEF ReaderAlone
<1>2. CASE UNCHANGED syncVars
  BY <1>2, RefinesIdle DEF syncVars, vars, serverVars, engineVars
<1> QED
  BY <1>1, <1>2, RefinesHandleEvent, RefinesInterest, RefinesTake, RefinesPublish
  DEF SyncNext, Work

-----------------------------------------------------------------------------
(* The rest of the invariant.                                              *)

LEMMA SyncInvInit == SlotAtStart /\ SyncInit => SyncInv
<1> SUFFICES ASSUME SlotAtStart, SyncInit PROVE SyncInv
  OBVIOUS
<1>1. ReaderInv /\ SyncTypeOK
  BY ReaderInvInit, SyncTypeInit DEF SyncInit
<1> QED
  BY <1>1, VersionType DEF SyncInit, Init, SyncInv, HandledLate, Ordered, NoLostChange

LEMMA ReaderPart ==
  ASSUME ReaderInv, [SyncNext]_syncVars PROVE ReaderInv'
<1>1. CASE [Next]_vars
  BY <1>1, ReaderInvNext
<1>2. CASE /\ UNCHANGED <<serverVars, senderVars, queue, phase, clientVars, engineVars>>
           /\ faults < MaxFaults /\ faults' = faults + 1
  BY <1>2, IdleKeeps, ConstantsType DEF ConstantsType, ReaderInv, TypeOK
<1> QED
  BY <1>1, <1>2, ReaderSteps

LEMMA HandledLateNext ==
  ASSUME SyncInv, [SyncNext]_syncVars PROVE HandledLate'
<1>0. TypeOK
  BY DEF SyncInv, ReaderInv
<1>1. ASSUME NEW t \in Txs, NEW kind \in Kinds, Log(t, kind) PROVE HandledLate'
  <2>1. ASSUME NEW i \in current', i \in DOMAIN wal'
        PROVE  /\ i \in current \cap DOMAIN wal /\ wal'[i] = wal[i]
               /\ wal[i].tx \in Txs
    <3>1. i \in current /\ i \in Positions
      BY <1>0, <1>1, <2>1 DEF Log, engineVars, TypeOK
    <3>2. i # Len(wal') /\ (i = Len(wal') \/ i \in DOMAIN wal)
      <4>1. Len(wal') = Len(wal) + 1 /\ Len(wal) \in Nat /\ i \in 0 .. Len(wal)
        BY <1>0, <1>1, <3>1, LogAppends DEF Positions
      <4> QED
        BY <1>0, <1>1, <2>1, <4>1, LogAppends
    <3>3. wal'[i] = wal[i]
      BY <1>0, <1>1, <3>2, LogAppends
    <3>4. wal[i] \in Record
      BY <1>0, <3>2, LenProperties DEF TypeOK
    <3> QED
      BY <3>1, <3>2, <3>3, <3>4 DEF Record
  <2>2. ASSUME NEW i \in current', i \in DOMAIN wal' PROVE Committed(wal[i].tx)'
    <3> DEFINE u == wal[i].tx
    <3>1. u \in Txs /\ u' = u /\ Committed(u)
      BY <2>1, <2>2 DEF SyncInv, HandledLate
    <3> HIDE DEF u
    <3>2. PICK w \in Txs : w = u
      BY <3>1
    <3>3. Committed(w)'
      BY <1>0, <1>1, <3>1, <3>2, CommitsLogged
    <3>4. w = u'
      BY <3>1, <3>2
    <3>5. \A x : x = w => (Committed(x)' <=> Committed(w)')
      OBVIOUS
    <3> QED
      BY <3>3, <3>4, <3>5 DEF u
  <2> QED
    BY <2>2 DEF HandledLate
<1>2. ASSUME wal' = wal, \A i \in current' : i \in current \/ Committed(wal[i].tx)
      PROVE  HandledLate'
  BY <1>2, RowsStay DEF SyncInv, HandledLate
<1>3. CASE [Next]_vars /\ ~Database
  BY <1>2, <1>3
  DEF Next, Walsender, ReadChange, SendWhole, StreamRest, ReadAbort, Reads, Keepalive,
      Setup, StartupPoll, Connect, EnsureReplicationSlot, StartReplication, StreamLoop, Receive,
      SendStandbyStatus, Fault, Disconnect, Crash, vars, serverVars, engineVars
<1>4. CASE Database
  BY <1>1, <1>4 DEF Database, ChangeRow, End, Kinds
<1>5. CASE UNCHANGED <<serverVars, engineVars>>
  BY <1>2, <1>5 DEF serverVars, engineVars
<1> QED
  BY <1>3, <1>4, <1>5, ReaderSteps

LEMMA OrderedNext ==
  ASSUME SyncInv, [SyncNext]_syncVars PROVE Ordered'
<1>0. TypeOK /\ SyncTypeOK /\ Ordered
  BY DEF SyncInv, ReaderInv
<1> SUFFICES ASSUME NEW d \in Docs
             PROVE  /\ published'[d] <= Version(d)'
                    /\ result'[d] # 0 => published'[d] <= result'[d] /\ result'[d] <= Version(d)'
  BY DEF Ordered
<1>1. /\ published[d] <= Version(d)
      /\ result[d] # 0 => published[d] <= result[d] /\ result[d] <= Version(d)
  BY <1>0 DEF Ordered
<1>2. /\ Version(d) \in Nat /\ Version(d)' \in Nat
      /\ published[d] \in Nat /\ result[d] \in Nat
  BY <1>0, VersionType DEF SyncTypeOK
<1>3. Version(d) <= Version(d)'
  <2>1. CASE wal' = wal
    BY <1>2, <2>1, RowsStay
  <2>2. ASSUME NEW t \in Txs, NEW kind \in Kinds, Log(t, kind) PROVE Version(d) <= Version(d)'
    BY <1>0, <1>2, <2>2, VersionLogged
  <2>3. CASE Database
    BY <2>2, <2>3 DEF Database, ChangeRow, End, Kinds
  <2>4. CASE [Next]_vars /\ ~Database
    BY <2>1, <2>4
    DEF Next, Walsender, ReadChange, SendWhole, StreamRest, ReadAbort, Reads, Keepalive,
        Setup, StartupPoll, Connect, EnsureReplicationSlot, StartReplication, StreamLoop, Receive,
        SendStandbyStatus, Fault, Disconnect, Crash, NoSession, vars, serverVars
  <2> QED
    BY <2>1, <2>3, <2>4, ReaderSteps DEF serverVars
<1>4. /\ published'[d] = published[d] \/ (result[d] # 0 /\ published'[d] = result[d] /\ result'[d] = 0)
      /\ result'[d] = result[d] \/ result'[d] = 0 \/ (result'[d] = Version(d) /\ published'[d] = published[d])
  BY <1>0
  DEF SyncTypeOK, SyncNext, syncVars, docVars, ReaderAlone, HandleEvent, SyncLiveAtStart, Die,
      Warm, Expire, Work, Drop, RunDoc, PublishDoc, Fails
<1> QED
  BY <1>1, <1>2, <1>3, <1>4

LEMMA SyncInvNext ==
  ASSUME SyncInv, [SyncNext]_syncVars PROVE SyncInv'
<1>1. ReaderInv' /\ SyncTypeOK'
  BY ReaderPart, SyncTypeNext DEF SyncInv
<1>2. HandledLate' /\ Ordered'
  BY HandledLateNext, OrderedNext
<1>3. NoLostChange'
  BY <1>1, RefinesNext, PromiseKeepsDue DEF SyncInv
<1>4. phase' = "boot" => live' = {}
  <2>1. CASE phase = "boot"
    BY <2>1
    DEF SyncInv, SyncNext, syncVars, docVars, vars, ReaderAlone, HandleEvent, Receive,
        SyncLiveAtStart, StartupPoll, Die, Warm, Expire, Work, Drop, RunDoc, PublishDoc, Fails
  <2>2. CASE phase # "boot" /\ ~Die
    <3>1. CASE \E d \in Docs : Warm(d) \/ Expire(d) \/ Work(d) \/ Fails(d)
      BY <2>2, <3>1 DEF Warm, Expire, Work, Drop, RunDoc, PublishDoc, Fails, vars
    <3>2. CASE ReaderAlone
      BY <2>2, <3>2
      DEF ReaderAlone, Database, ChangeRow, End, Log, Walsender, ReadChange, SendWhole, StreamRest,
          ReadAbort, Reads, Keepalive, Connect, EnsureReplicationSlot, StartReplication,
          SendStandbyStatus, Disconnect
    <3> QED
      BY <2>2, <3>1, <3>2
      DEF SyncNext, syncVars, vars, HandleEvent, Receive, SyncLiveAtStart, StartupPoll
  <2> QED
    BY <2>1, <2>2 DEF Die
<1> QED
  BY <1>1, <1>2, <1>3, <1>4 DEF SyncInv

(***************************************************************************)
(* From the row to the subscriber, no change is lost, whatever crashes,    *)
(* breaks or runs out in between: a doc with subscribers that is not       *)
(* current is marked, in hand, or altered by a transaction the slot will   *)
(* send again (agent.go:72-80, reader.go:625-633).  An agent that starts   *)
(* without its slot passes over what happens before it creates it, hence   *)
(* the hypothesis.                                                         *)
(***************************************************************************)
THEOREM NoLostChangeHolds ==
  ASSUME SlotAtStart PROVE SyncSpec => []NoLostChange
<1>1. SyncInv => NoLostChange
  BY DEF SyncInv
<1> QED
  BY <1>1, SyncInvInit, SyncInvNext, PTL DEF SyncSpec

LEMMA RefinesInit == SyncInit => Promised!Init
<1> SUFFICES ASSUME SyncInit PROVE Promised!Init
  OBVIOUS
<1>1. wal = << >> /\ Len(wal) = 0
  BY EmptySeq DEF SyncInit, Init
<1>2. \A t \in Txs : ~Committed(t)
  BY <1>1 DEF Committed, Logged
<1>3. ASSUME NEW d PROVE Version(d) = 1
  <2>1. {t \in Txs : Committed(t) /\ d \in On[t]} = {}
    BY <1>2
  <2> QED
    BY <2>1, FS_EmptySet DEF Version
<1>4. DueDocs = {}
  BY <1>2, <1>3 DEF SyncInit, DueDocs, WholeDocs, Whole, Due, OnItsWay
<1> QED
  BY <1>3, <1>4 DEF SyncInit, Promised!Init, WholeDocs, Whole

(***************************************************************************)
(* The agent across its crashes keeps the safety part of the promise to    *)
(* subscribers of every doc that no streamed transaction alters: they see  *)
(* only results the query had, in order, and a doc they watch is current   *)
(* or due (README.md:3-9).                                                 *)
(***************************************************************************)
THEOREM SyncImplementsPromise ==
  ASSUME SlotAtStart PROVE SyncSpec => Promise
<1>1. SyncInv /\ [SyncNext]_syncVars => [Promised!Next]_(Promised!vars)
  BY RefinesNext
<1> QED
  BY <1>1, SyncInvInit, SyncInvNext, RefinesInit, PTL DEF SyncSpec, Promise, Promised!Safety
=============================================================================
