---------------------------- MODULE EngineProofs ----------------------------
(***************************************************************************)
(* Proofs about Engine, for any number of workers, docs, lookups and       *)
(* changes and any configuration that satisfies its assumptions: types,    *)
(* safety, and that the engine implements DocSync.                         *)
(*                                                                         *)
(* The argument for safety is in three layers, each an inductive invariant *)
(* on top of the one before:                                               *)
(*                                                                         *)
(*   Held      who holds what: the in-flight marks are exactly the units   *)
(*             the workers hold, and no unit is held twice;                *)
(*   Ordered   a result on its way to foony lies between what foony has    *)
(*             and what the database has;                                  *)
(*   NoLostChange                                                          *)
(*             a live doc that is out of date has a recompute on its way.  *)
(***************************************************************************)
EXTENDS Engine, TLAPS

USE ConstantsType

-----------------------------------------------------------------------------
(* What signal() and its absence do to the workers: at most a sleeping     *)
(* worker wakes.                                                           *)
WakesOnly(pcs) ==
  /\ pc' \in [Workers -> Steps]
  /\ wake' \in BOOLEAN
  /\ \A w \in Workers :
       \/ pc'[w] = pcs[w]
       \/ pcs[w] = "parked" /\ pc'[w] = "scan"

(* signal() is a send that never blocks and never moves a running worker   *)
(* (engine.go:526-531).                                                    *)
LEMMA SignalWakesOnly ==
  ASSUME NEW pcs \in [Workers -> Steps], wake \in BOOLEAN,
         Signal(pcs) \/ Quiet(pcs)
  PROVE  WakesOnly(pcs)
<1>1. CASE \E w \in Parked(pcs) : pc' = [pcs EXCEPT ![w] = "scan"]
  BY <1>1 DEF Signal, Quiet, WakesOnly, Parked, Steps, FreeSteps
<1>2. CASE pc' = pcs
  BY <1>2 DEF Signal, Quiet, WakesOnly
<1> QED
  BY <1>1, <1>2 DEF Signal, Quiet

(* The same, when the worker w first goes to another step.                 *)
LEMMA GotoWakesOnly ==
  ASSUME TypeOK, NEW w \in Workers, NEW step \in Steps,
         Signal(Goto(w, step)) \/ Quiet(Goto(w, step))
  PROVE  /\ Goto(w, step) \in [Workers -> Steps]
         /\ WakesOnly(Goto(w, step))
<1>1. Goto(w, step) \in [Workers -> Steps]
  BY DEF TypeOK, Goto
<1> QED
  BY <1>1, SignalWakesOnly DEF TypeOK

-----------------------------------------------------------------------------
(* Every variable keeps its type, and a worker that works on a doc or on a *)
(* lookup holds one (engine.go:65-102, 283-302).                           *)
LEMMA TypeInit == Init => TypeOK
<1> SUFFICES ASSUME Init PROVE TypeOK
  OBVIOUS
<1>1. published \in [Channels -> Version]
  <2>1. 0 .. 1 \subseteq Version
    BY DEF Version
  <2> QED
    BY <2>1 DEF Init
<1>2. db \in [Channels -> Version]
  BY DEF Init, Version
<1>3. stream \in Seq(Events)
  BY DEF Init
<1>4. /\ pc \in [Workers -> Steps]
      /\ \A w \in Workers :
           pc[w] \notin DocSteps /\ pc[w] \notin LookupSteps
  BY DEF Init, Steps, FreeSteps, DocSteps, LookupSteps
<1>5. /\ age \in [Channels -> 0 .. TouchGrace]
      /\ doc \in [Workers -> Version]
      /\ job \in [Workers -> Channels \cup Lookups \cup {NONE}]
      /\ fan \in [Workers -> SUBSET Channels]
  BY DEF Init, Version
<1>6. wake \in BOOLEAN /\ cancelled \in BOOLEAN
  BY DEF Init
<1> QED
  BY <1>1, <1>2, <1>3, <1>4, <1>5, <1>6 DEF Init, TypeOK

(* Warms, touches and polls preserve the types.                            *)
LEMMA TypeInterest == TypeOK /\ Interest => TypeOK'
<1> SUFFICES ASSUME TypeOK, Interest PROVE TypeOK'
  OBVIOUS
<1> USE DEF TypeOK
<1>0. Signal(pc) \/ Quiet(pc) => WakesOnly(pc)
  BY SignalWakesOnly
<1> DEFINE Rest ==
      /\ pc' \in [Workers -> Steps]
      /\ wake' \in BOOLEAN
      /\ \A w \in Workers :
           /\ pc'[w] \in DocSteps => job[w] \in Channels
           /\ pc'[w] \in LookupSteps => job[w] \in Lookups
<1>1. WakesOnly(pc) => Rest
  BY DEF WakesOnly, DocSteps, LookupSteps
<1>2. \A c \in Channels : Renew({c}) \in [Channels -> 0 .. TouchGrace]
  BY DEF Renew
<1>3. ASSUME NEW c \in Channels, Warm(c) PROVE TypeOK'
  <2>1. Rest
    BY <1>0, <1>1, <1>3 DEF Warm
  <2>2. age' \in [Channels -> 0 .. TouchGrace]
    BY <1>2, <1>3 DEF Warm
  <2>3. live' \subseteq Channels /\ dirty' \subseteq Channels
    BY <1>3 DEF Warm
  <2>4. UNCHANGED <<envVars, handling, inflight, lookVars, localVars, cancelled>>
    BY <1>3 DEF Warm
  <2> HIDE DEF Rest
  <2> QED
    BY <2>1, <2>2, <2>3, <2>4 DEF Rest, envVars, lookVars, localVars
<1>4. ASSUME NEW c \in Channels, Touch(c) PROVE TypeOK'
  <2>1. Rest
    BY <1>0, <1>1, <1>4 DEF Touch, SignalIf
  <2>2. age' \in [Channels -> 0 .. TouchGrace]
    BY <1>2, <1>4 DEF Touch
  <2>3. live' \subseteq Channels /\ dirty' \subseteq Channels
    BY <1>4 DEF Touch, MissedChanges
  <2>4. UNCHANGED <<envVars, handling, inflight, lookVars, localVars, cancelled>>
    BY <1>4 DEF Touch
  <2> HIDE DEF Rest
  <2> QED
    BY <2>1, <2>2, <2>3, <2>4 DEF Rest, envVars, lookVars, localVars
<1>5. ASSUME NEW listed \in Listings, NEW complete \in BOOLEAN,
             SyncLive(listed, complete)
      PROVE  TypeOK'
  <2>1. WakesOnly(pc)
    BY <1>0, <1>5 DEF SyncLive, SignalIf
  <2>2. age' \in [Channels -> 0 .. TouchGrace]
    BY <1>5 DEF SyncLive
  <2>3. live' \subseteq Channels /\ dirty' \subseteq Channels
    BY <1>5 DEF SyncLive, Kept, MissedChanges
  <2> QED
    BY <1>1, <1>5, <2>1, <2>2, <2>3 DEF SyncLive, envVars, lookVars, localVars
<1> QED
  BY <1>3, <1>4, <1>5 DEF Interest

(* Changes, the clock and the end of the context preserve the types.       *)
LEMMA TypeEnvironment == TypeOK /\ Environment => TypeOK'
<1> SUFFICES ASSUME TypeOK, Environment PROVE TypeOK'
  OBVIOUS
<1> USE DEF TypeOK, dirtyVars, lookVars, liveVars, localVars, envVars
<1>1. ASSUME NEW e \in Events, Commit(e) PROVE TypeOK'
  <2>1. db' \in [Channels -> Version]
    BY <1>1 DEF Commit, Version
  <2>2. stream' \in Seq(Events)
    BY <1>1 DEF Commit
  <2> QED
    BY <1>1, <2>1, <2>2 DEF Commit
<1>2. CASE Tick
  <2>1. age' \in [Channels -> 0 .. TouchGrace]
    BY <1>2 DEF Tick
  <2> QED
    BY <1>2, <2>1 DEF Tick
<1>3. CASE Cancel
  BY <1>3 DEF Cancel, Steps, FreeSteps, DocSteps, LookupSteps
<1> QED
  BY <1>1, <1>2, <1>3 DEF Environment

(* The reader's marks preserve the types.                                  *)
LEMMA TypeReader == TypeOK /\ Reader => TypeOK'
<1> SUFFICES ASSUME TypeOK, Reader PROVE TypeOK'
  OBVIOUS
<1> USE DEF TypeOK, dirtyVars, lookVars, liveVars, localVars, envVars
<1>0. Signal(pc) => WakesOnly(pc)
  BY SignalWakesOnly
<1>1. CASE HandleEvent
  <2>1. Head(stream) \in Events /\ Tail(stream) \in Seq(Events)
    BY <1>1 DEF HandleEvent
  <2>2. handling' \subseteq Channels \cup Lookups
    BY <1>1, <2>1 DEF HandleEvent
  <2> QED
    BY <1>1, <2>1, <2>2 DEF HandleEvent
<1>2. ASSUME NEW c \in Channels, MarkFromRow(c) PROVE TypeOK'
  BY <1>0, <1>2 DEF MarkFromRow, WakesOnly, DocSteps, LookupSteps
<1>3. ASSUME NEW k \in Lookups, EnqueueLookup(k) PROVE TypeOK'
  BY <1>0, <1>3 DEF EnqueueLookup, WakesOnly, DocSteps, LookupSteps
<1> QED
  BY <1>1, <1>2, <1>3 DEF Reader

(* A worker's move keeps the types of the steps and of the units held, if  *)
(* it holds a unit of the right kind afterwards.                           *)
Placed ==
  /\ pc' \in [Workers -> Steps]
  /\ wake' \in BOOLEAN
  /\ \A v \in Workers :
       /\ pc'[v] \in DocSteps => job'[v] \in Channels
       /\ pc'[v] \in LookupSteps => job'[v] \in Lookups

LEMMA MovePlaced ==
  ASSUME TypeOK, NEW w \in Workers, NEW step \in Steps,
         Signal(Goto(w, step)) \/ Quiet(Goto(w, step)),
         \A v \in Workers \ {w} : job'[v] = job[v],
         step \in DocSteps => job'[w] \in Channels,
         step \in LookupSteps => job'[w] \in Lookups
  PROVE  Placed
<1>1. WakesOnly(Goto(w, step))
  BY GotoWakesOnly
<1>2. \A v \in Workers : Goto(w, step)[v] = IF v = w THEN step ELSE pc[v]
  BY DEF TypeOK, Goto
<1>3. ASSUME NEW v \in Workers
      PROVE  /\ pc'[v] \in DocSteps => job'[v] \in Channels
             /\ pc'[v] \in LookupSteps => job'[v] \in Lookups
  <2>1. pc'[v] = Goto(w, step)[v] \/ pc'[v] = "scan"
    BY <1>1 DEF WakesOnly
  <2>2. CASE pc'[v] = "scan"
    BY <2>2 DEF DocSteps, LookupSteps
  <2>3. CASE pc'[v] = Goto(w, step)[v] /\ v = w
    BY <1>2, <2>3
  <2>4. CASE pc'[v] = Goto(w, step)[v] /\ v # w
    <3>1. pc'[v] = pc[v] /\ job'[v] = job[v]
      BY <1>2, <2>4
    <3> QED
      BY <3>1 DEF TypeOK
  <2> QED
    BY <2>1, <2>2, <2>3, <2>4
<1> QED
  BY <1>1, <1>3 DEF Placed, WakesOnly

(* What a worker does to a doc preserves the types.                        *)
LEMMA TypeWorkerDoc ==
  ASSUME TypeOK, NEW w \in Workers, WorkerDoc(w) PROVE TypeOK'
<1> USE DEF dirtyVars, lookVars, liveVars, localVars, envVars, SignalIf
<1>0. /\ \A step \in DocSteps \cup LookupSteps \cup FreeSteps : step \in Steps
      /\ {"query", "publish", "retry", "finish"} \subseteq DocSteps \ LookupSteps
      /\ {"scan", "select"} \subseteq FreeSteps \ (DocSteps \cup LookupSteps)
  BY DEF Steps, DocSteps, LookupSteps, FreeSteps
<1>1. ASSUME NEW c \in Channels, TakeDirty(w, c) PROVE TypeOK'
  <2>1. Placed
    BY <1>0, <1>1, MovePlaced DEF TakeDirty, TypeOK
  <2> QED
    BY <1>1, <2>1 DEF TakeDirty, TypeOK, Placed
<1>2. CASE NothingDirty(w)
  <2>1. Placed
    BY <1>0, <1>2, MovePlaced DEF NothingDirty, TypeOK
  <2> QED
    BY <1>2, <2>1 DEF NothingDirty, TypeOK, Placed
<1>3. CASE RunDoc(w)
  <2>1. job[w] \in Channels
    BY <1>0, <1>3 DEF RunDoc, TypeOK
  <2>2. Placed
    BY <1>0, <1>3, <2>1, MovePlaced DEF RunDoc, TypeOK
  <2> QED
    BY <1>3, <2>1, <2>2 DEF RunDoc, TypeOK, Placed
<1>4. CASE RunDocFails(w)
  <2>1. job[w] \in Channels
    BY <1>0, <1>4 DEF RunDocFails, TypeOK
  <2>2. Placed
    BY <1>0, <1>4, <2>1, MovePlaced DEF RunDocFails, TypeOK
  <2> QED
    BY <1>4, <2>2 DEF RunDocFails, TypeOK, Placed
<1>5. CASE PublishDoc(w)
  <2>1. job[w] \in Channels
    BY <1>0, <1>5 DEF PublishDoc, TypeOK
  <2>2. Placed
    BY <1>0, <1>5, <2>1, MovePlaced DEF PublishDoc, TypeOK
  <2> QED
    BY <1>5, <2>1, <2>2 DEF PublishDoc, Deliver, TypeOK, Placed
<1>6. CASE PublishFails(w)
  <2>1. job[w] \in Channels
    BY <1>0, <1>6 DEF PublishFails, TypeOK
  <2>2. Placed
    BY <1>0, <1>6, <2>1, MovePlaced DEF PublishFails, TypeOK
  <2> QED
    BY <1>6, <2>1, <2>2 DEF PublishFails, Deliver, TypeOK, Placed
<1>7. CASE RetryDoc(w)
  <2>1. job[w] \in Channels
    BY <1>0, <1>7 DEF RetryDoc, TypeOK
  <2>2. Placed
    BY <1>0, <1>7, <2>1, MovePlaced DEF RetryDoc, TypeOK
  <2> QED
    BY <1>7, <2>1, <2>2 DEF RetryDoc, TypeOK, Placed
<1>8. CASE FinishDoc(w)
  <2>1. Placed
    BY <1>0, <1>8, MovePlaced DEF FinishDoc, TypeOK
  <2>2. doc' \in [Workers -> Version]
    BY <1>8 DEF FinishDoc, TypeOK, Version
  <2> QED
    BY <1>8, <2>1, <2>2 DEF FinishDoc, TypeOK, Placed
<1> QED
  BY <1>1, <1>2, <1>3, <1>4, <1>5, <1>6, <1>7, <1>8 DEF WorkerDoc

(* What a worker does to a lookup preserves the types.                     *)
LEMMA TypeWorkerLookup ==
  ASSUME TypeOK, NEW w \in Workers, WorkerLookup(w) PROVE TypeOK'
<1> USE DEF dirtyVars, lookVars, liveVars, localVars, envVars, SignalIf
<1>0. /\ \A step \in DocSteps \cup LookupSteps \cup FreeSteps : step \in Steps
      /\ {"keys", "fanout", "requeue"} \subseteq LookupSteps \ DocSteps
      /\ {"scan", "drain"} \subseteq FreeSteps \ (DocSteps \cup LookupSteps)
  BY DEF Steps, DocSteps, LookupSteps, FreeSteps
<1>1. ASSUME NEW k \in Lookups, TakeLookup(w, k) PROVE TypeOK'
  <2>1. Placed
    BY <1>0, <1>1, MovePlaced DEF TakeLookup, TypeOK
  <2> QED
    BY <1>1, <2>1 DEF TakeLookup, TypeOK, Placed
<1>2. CASE NoLookup(w)
  <2>1. Placed
    BY <1>0, <1>2, MovePlaced DEF NoLookup, TypeOK
  <2> QED
    BY <1>2, <2>1 DEF NoLookup, TypeOK, Placed
<1>3. CASE RunKeys(w)
  <2>1. job[w] \in Lookups
    BY <1>0, <1>3 DEF RunKeys, TypeOK
  <2>2. Placed
    BY <1>0, <1>3, <2>1, MovePlaced DEF RunKeys, TypeOK
  <2>3. Fanout[job[w]] \in SUBSET Channels
    BY <2>1
  <2>4. fan' \in [Workers -> SUBSET Channels]
    BY <1>3, <2>3 DEF RunKeys, TypeOK
  <2> QED
    BY <1>3, <2>2, <2>4 DEF RunKeys, TypeOK, Placed
<1>4. CASE RunKeysOverCap(w)
  <2>1. job[w] \in Lookups
    BY <1>0, <1>4 DEF RunKeysOverCap, TypeOK
  <2>2. Placed
    BY <1>0, <1>4, <2>1, MovePlaced DEF RunKeysOverCap, TypeOK
  <2> QED
    BY <1>4, <2>1, <2>2 DEF RunKeysOverCap, Fallback, TypeOK, Placed
<1>5. CASE RunKeysFails(w)
  <2>1. job[w] \in Lookups
    BY <1>0, <1>5 DEF RunKeysFails, TypeOK
  <2>2. Placed
    BY <1>0, <1>5, <2>1, MovePlaced DEF RunKeysFails, TypeOK
  <2> QED
    BY <1>5, <2>2 DEF RunKeysFails, TypeOK, Placed
<1>6. ASSUME NEW c \in Channels, MarkKey(w, c) PROVE TypeOK'
  <2>1. WakesOnly(pc)
    BY <1>6, SignalWakesOnly DEF MarkKey, TypeOK
  <2>2. Placed
    BY <1>6, <2>1 DEF MarkKey, WakesOnly, Placed, TypeOK, DocSteps, LookupSteps
  <2> QED
    BY <1>6, <2>2 DEF MarkKey, TypeOK, Placed
<1>7. CASE RequeueLookup(w)
  <2>1. job[w] \in Lookups
    BY <1>0, <1>7 DEF RequeueLookup, TypeOK
  <2>2. Placed
    BY <1>0, <1>7, <2>1, MovePlaced DEF RequeueLookup, TypeOK
  <2> QED
    BY <1>7, <2>1, <2>2 DEF RequeueLookup, TypeOK, Placed
<1>8. CASE FinishLookup(w)
  <2>1. Placed
    BY <1>0, <1>8, MovePlaced DEF FinishLookup, TypeOK
  <2> QED
    BY <1>8, <2>1 DEF FinishLookup, TypeOK, Placed
<1> QED
  BY <1>1, <1>2, <1>3, <1>4, <1>5, <1>6, <1>7, <1>8 DEF WorkerLookup

(* Sleeping and waking preserve the types.                                 *)
LEMMA TypeWorkerSleep ==
  ASSUME TypeOK, NEW w \in Workers, WorkerSleep(w) PROVE TypeOK'
<1> USE DEF dirtyVars, lookVars, liveVars, localVars, envVars, TypeOK
<1> USE DEF Steps, DocSteps, LookupSteps, FreeSteps
<1>1. CASE Woken(w)
  <2>1. pc' = [pc EXCEPT ![w] = "scan"] /\ job' = job
    BY <1>1 DEF Woken, Goto
  <2>2. wake' \in BOOLEAN
    BY <1>1 DEF Woken
  <2>3. Placed
    BY <2>1, <2>2 DEF Placed
  <2> HIDE DEF Steps, DocSteps, LookupSteps, FreeSteps
  <2> QED
    BY <1>1, <2>3 DEF Woken, Placed
<1>2. CASE Park(w)
  BY <1>2 DEF Park, Quiet, Goto
<1>3. CASE Exit(w)
  BY <1>3 DEF Exit, Quiet, Goto
<1> QED
  BY <1>1, <1>2, <1>3 DEF WorkerSleep

(* Every step preserves the types.                                         *)
LEMMA TypeNext == TypeOK /\ [Next]_vars => TypeOK'
<1> SUFFICES ASSUME TypeOK, [Next]_vars PROVE TypeOK'
  OBVIOUS
<1>1. CASE Next
  BY <1>1, TypeInterest, TypeEnvironment, TypeReader, TypeWorkerDoc,
     TypeWorkerLookup, TypeWorkerSleep DEF Next, Worker
<1>2. CASE UNCHANGED vars
  BY <1>2 DEF vars, TypeOK, envVars, dirtyVars, lookVars, liveVars, localVars
<1> QED
  BY <1>1, <1>2

(* In every reachable state every variable has its type, and a worker in   *)
(* the middle of a doc or of a lookup holds one (engine.go:283-302).       *)
THEOREM TypeCorrect == Spec => []TypeOK
<1>1. Init => TypeOK
  BY TypeInit
<1>2. TypeOK /\ [Next]_vars => TypeOK'
  BY TypeNext
<1> QED
  BY <1>1, <1>2, PTL DEF Spec

-----------------------------------------------------------------------------
(* Safety.                                                                 *)

IsFree(w) == pc[w] \in FreeSteps

Marks == inflight \cup lookupInflight

Held ==
  /\ \A w \in Workers : IsFree(w) => job[w] = NONE
  /\ \A u \in Marks : \E w \in Workers : job[w] = u
  /\ \A w \in Workers : job[w] # NONE => job[w] \in Marks
  /\ \A v, w \in Workers : v # w /\ job[v] = job[w] => job[v] = NONE

Ordered ==
  /\ \A c \in Channels : published[c] <= db[c]
  /\ \A w \in Workers : pc[w] = "publish" =>
       /\ published[job[w]] <= doc[w]
       /\ doc[w] <= db[job[w]]

SafetyInv == TypeOK /\ Held /\ Ordered /\ NoLostChange

-----------------------------------------------------------------------------
(* What a step leaves alone.                                               *)

(* The workers in S are where they were, or have been woken or stopped.    *)
Bystanders(S) ==
  \A v \in S :
    /\ \/ pc'[v] = pc[v]
       \/ pc[v] = "parked" /\ pc'[v] \in {"scan", "exited"}
    /\ job'[v] = job[v]
    /\ doc'[v] = doc[v]
    /\ fan'[v] = fan[v]

Outside == Environment \/ Interest \/ Reader

(* Nothing outside the workers touches a running worker or what it holds.  *)
LEMMA OutsideLeaves ==
  ASSUME TypeOK, Outside
  PROVE  /\ Bystanders(Workers)
         /\ UNCHANGED <<published, inflight, lookupInflight>>
<1>1. Signal(pc) \/ Quiet(pc) => WakesOnly(pc)
  BY SignalWakesOnly DEF TypeOK
<1>2. CASE WakesOnly(pc) /\ UNCHANGED <<job, doc, fan, published, inflight, lookupInflight>>
  BY <1>2 DEF WakesOnly, Bystanders
<1>3. CASE Environment
  <2>1. ASSUME NEW e \in Events, Commit(e) PROVE Bystanders(Workers)
    BY <2>1 DEF Commit, Bystanders, localVars
  <2>2. CASE Tick
    BY <2>2 DEF Tick, Bystanders, localVars, envVars, dirtyVars, lookVars
  <2>3. CASE Cancel
    BY <2>3 DEF Cancel, Bystanders, localVars, envVars, dirtyVars, lookVars
  <2>4. UNCHANGED <<published, inflight, lookupInflight>>
    BY <1>3 DEF Environment, Commit, Tick, Cancel, envVars, dirtyVars, lookVars
  <2> QED
    BY <1>3, <2>1, <2>2, <2>3, <2>4 DEF Environment
<1>4. CASE Interest
  BY <1>1, <1>2, <1>4
  DEF Interest, Warm, Touch, SyncLive, SignalIf, envVars, lookVars, localVars
<1>5. CASE Reader
  <2>1. CASE HandleEvent
    BY <2>1 DEF HandleEvent, Bystanders, localVars, dirtyVars, lookVars
  <2>2. ASSUME NEW c \in Channels, MarkFromRow(c)
        PROVE  WakesOnly(pc) /\ UNCHANGED <<job, doc, fan, published, inflight, lookupInflight>>
    BY <1>1, <2>2 DEF MarkFromRow, envVars, lookVars, localVars
  <2>3. ASSUME NEW k \in Lookups, EnqueueLookup(k)
        PROVE  WakesOnly(pc) /\ UNCHANGED <<job, doc, fan, published, inflight, lookupInflight>>
    BY <1>1, <2>3 DEF EnqueueLookup, envVars, dirtyVars, localVars
  <2> QED
    BY <1>2, <1>5, <2>1, <2>2, <2>3 DEF Reader
<1> QED
  BY <1>3, <1>4, <1>5 DEF Outside

(* A worker that goes to a step arrives there, and the others stand by.    *)
LEMMA Arrives ==
  ASSUME TypeOK, NEW w \in Workers, NEW step \in Steps, step # "parked",
         Signal(Goto(w, step)) \/ Quiet(Goto(w, step))
  PROVE  /\ pc'[w] = step
         /\ \A v \in Workers \ {w} :
              pc'[v] = pc[v] \/ (pc[v] = "parked" /\ pc'[v] = "scan")
<1>1. WakesOnly(Goto(w, step))
  BY GotoWakesOnly
<1>2. \A v \in Workers : Goto(w, step)[v] = IF v = w THEN step ELSE pc[v]
  BY DEF TypeOK, Goto
<1> QED
  BY <1>1, <1>2 DEF WakesOnly

(* The step each action of a worker ends in.                               *)
Destination(w) ==
  \/ (\E c \in Channels : TakeDirty(w, c)) /\ pc'[w] = "query"
  \/ NothingDirty(w)   /\ pc'[w] = "select"
  \/ RunDoc(w)         /\ pc'[w] = "publish"
  \/ RunDocFails(w)    /\ pc'[w] = "retry"
  \/ PublishDoc(w)     /\ pc'[w] = "finish"
  \/ PublishFails(w)   /\ pc'[w] = "retry"
  \/ RetryDoc(w)       /\ pc'[w] = "finish"
  \/ FinishDoc(w)      /\ pc'[w] = "scan"
  \/ (\E k \in Lookups : TakeLookup(w, k)) /\ pc'[w] = "keys"
  \/ NoLookup(w)       /\ pc'[w] = "drain"
  \/ RunKeys(w)        /\ pc'[w] = "fanout"
  \/ RunKeysOverCap(w) /\ pc'[w] = "fanout"
  \/ RunKeysFails(w)   /\ pc'[w] = "requeue"
  \/ (\E c \in Channels : MarkKey(w, c)) /\ pc'[w] = "fanout"
  \/ RequeueLookup(w)  /\ pc'[w] = "fanout"
  \/ FinishLookup(w)   /\ pc'[w] = "scan"
  \/ Woken(w)          /\ pc'[w] = "scan"
  \/ Park(w)           /\ pc'[w] = "parked"
  \/ Exit(w)           /\ pc'[w] = "exited"

LEMMA WorkerLeaves ==
  ASSUME TypeOK, NEW w \in Workers, Worker(w)
  PROVE  /\ Destination(w)
         /\ Bystanders(Workers \ {w})
         /\ UNCHANGED <<db, stream, handling, live, age, cancelled>>
<1> DEFINE Moves == \A v \in Workers \ {w} :
             pc'[v] = pc[v] \/ (pc[v] = "parked" /\ pc'[v] = "scan")
           Locals == \A v \in Workers \ {w} :
             job'[v] = job[v] /\ doc'[v] = doc[v] /\ fan'[v] = fan[v]
<1> USE DEF dirtyVars, lookVars, liveVars, localVars, envVars
<1>0. {"query", "publish", "retry", "finish", "keys", "fanout", "requeue",
       "scan", "drain", "select", "exited"} \subseteq Steps \ {"parked"}
  BY DEF Steps, DocSteps, LookupSteps, FreeSteps
<1>1. UNCHANGED <<db, stream, handling, live, age, cancelled>>
  BY DEF Worker, WorkerDoc, WorkerLookup, WorkerSleep, TakeDirty, NothingDirty,
     RunDoc, RunDocFails, PublishDoc, PublishFails, RetryDoc, FinishDoc,
     TakeLookup, NoLookup, RunKeys, RunKeysOverCap, RunKeysFails, MarkKey,
     RequeueLookup, FinishLookup, Woken, Park, Exit
<1>2. Locals
  BY DEF TypeOK, Worker, WorkerDoc, WorkerLookup, WorkerSleep, TakeDirty,
     NothingDirty, RunDoc, RunDocFails, PublishDoc, PublishFails, RetryDoc,
     FinishDoc, TakeLookup, NoLookup, RunKeys, RunKeysOverCap, RunKeysFails,
     MarkKey, RequeueLookup, FinishLookup, Woken, Park, Exit
<1>3. CASE WorkerDoc(w)
  <2>1. Destination(w) /\ Moves
    BY <1>0, <1>3, Arrives
    DEF WorkerDoc, TakeDirty, NothingDirty, RunDoc, RunDocFails, PublishDoc,
        PublishFails, RetryDoc, FinishDoc, SignalIf, Destination
  <2> QED
    BY <1>1, <1>2, <2>1 DEF Bystanders
<1>4. CASE WorkerLookup(w)
  <2>1. ASSUME NEW c \in Channels, MarkKey(w, c)
        PROVE  Destination(w) /\ Moves
    <3>1. WakesOnly(pc)
      BY <2>1, SignalWakesOnly DEF MarkKey, TypeOK
    <3> QED
      BY <2>1, <3>1 DEF WakesOnly, MarkKey, Destination
  <2>2. Destination(w) /\ Moves
    BY <1>0, <1>4, <2>1, Arrives
    DEF WorkerLookup, TakeLookup, NoLookup, RunKeys, RunKeysOverCap,
        RunKeysFails, RequeueLookup, FinishLookup, SignalIf, Destination
  <2> QED
    BY <1>1, <1>2, <2>2 DEF Bystanders
<1>5. CASE WorkerSleep(w)
  <2>1. Destination(w) /\ Moves
    BY <1>5 DEF WorkerSleep, Woken, Park, Exit, Quiet, Goto, TypeOK, Destination
  <2> QED
    BY <1>1, <1>2, <2>1 DEF Bystanders
<1> QED
  BY <1>3, <1>4, <1>5 DEF Worker

-----------------------------------------------------------------------------
(* Held: the in-flight marks and the workers' units agree.                 *)

LEMMA HeldGivesOne == TypeOK /\ Held => OneWorkerPerUnit
<1> SUFFICES ASSUME TypeOK, Held PROVE OneWorkerPerUnit
  OBVIOUS
<1>1. \A c \in Channels : c \in inflight <=> \E w \in Workers : job[w] = c
  BY DEF TypeOK, Held, Marks
<1>2. \A k \in Lookups : k \in lookupInflight <=> \E w \in Workers : job[w] = k
  BY DEF TypeOK, Held, Marks
<1>3. inflight = {c \in Channels : \E w \in Workers : job[w] = c}
  BY <1>1 DEF TypeOK
<1>4. lookupInflight = {k \in Lookups : \E w \in Workers : job[w] = k}
  BY <1>2 DEF TypeOK
<1> QED
  BY <1>3, <1>4 DEF Held, OneWorkerPerUnit

(* A step that takes and returns nothing keeps it.                         *)
LEMMA HeldKept ==
  ASSUME TypeOK, Held, UNCHANGED <<job, inflight, lookupInflight>>,
         \A v \in Workers : pc'[v] \in FreeSteps => pc[v] \in FreeSteps
  PROVE  Held'
BY DEF Held, Marks, IsFree

(* A worker that holds nothing takes a unit that nobody holds.             *)
LEMMA HeldTaken ==
  ASSUME TypeOK, Held, NEW w \in Workers, NEW u \in Channels \cup Lookups,
         IsFree(w), pc'[w] \notin FreeSteps, u \notin Marks,
         \A v \in Workers \ {w} : pc'[v] \in FreeSteps => pc[v] \in FreeSteps,
         job' = [job EXCEPT ![w] = u],
         Marks' = Marks \cup {u}
  PROVE  Held'
<1>1. job[w] = NONE
  BY DEF Held
<1>2. /\ job'[w] = u
      /\ \A v \in Workers \ {w} : job'[v] = job[v]
  BY DEF TypeOK
<1>3. \A v \in Workers : job[v] # u
  BY DEF Held
<1>4. \A v \in Workers : pc'[v] \in FreeSteps => job'[v] = NONE
  BY <1>2 DEF Held, IsFree
<1>5. /\ \A x \in Marks' : \E v \in Workers : job'[v] = x
      /\ \A v \in Workers : job'[v] # NONE => job'[v] \in Marks'
  <2>1. NONE \notin Marks
    BY DEF TypeOK, Marks
  <2> QED
    BY <1>1, <1>2, <2>1 DEF Held
<1>6. \A v, x \in Workers : v # x /\ job'[v] = job'[x] => job'[v] = NONE
  BY <1>2, <1>3 DEF Held
<1> QED
  BY <1>4, <1>5, <1>6 DEF Held, IsFree

(* A worker returns the unit it holds.                                     *)
LEMMA HeldReturned ==
  ASSUME TypeOK, Held, NEW w \in Workers, job[w] # NONE,
         \A v \in Workers \ {w} : pc'[v] \in FreeSteps => pc[v] \in FreeSteps,
         job' = [job EXCEPT ![w] = NONE],
         Marks' = Marks \ {job[w]}
  PROVE  Held'
<1>1. /\ job'[w] = NONE
      /\ \A v \in Workers \ {w} : job'[v] = job[v] /\ job[v] # job[w]
  BY DEF TypeOK, Held
<1>2. \A v \in Workers : pc'[v] \in FreeSteps => job'[v] = NONE
  BY <1>1 DEF Held, IsFree
<1>3. /\ \A x \in Marks' : \E v \in Workers : job'[v] = x
      /\ \A v \in Workers : job'[v] # NONE => job'[v] \in Marks'
  BY <1>1 DEF Held
<1>4. \A v, x \in Workers : v # x /\ job'[v] = job'[x] => job'[v] = NONE
  BY <1>1 DEF Held
<1> QED
  BY <1>2, <1>3, <1>4 DEF Held, IsFree

LEMMA HeldInit == Init => Held
<1> SUFFICES ASSUME Init PROVE Held
  OBVIOUS
<1>1. Marks = {} /\ \A w \in Workers : job[w] = NONE
  BY DEF Init, Marks
<1> QED
  BY <1>1 DEF Held

LEMMA HeldWorker ==
  ASSUME TypeOK, Held, NEW w \in Workers, Worker(w) PROVE Held'
<1> USE DEF dirtyVars, lookVars, liveVars, localVars, envVars
<1>1. /\ Destination(w)
      /\ Bystanders(Workers \ {w})
  BY WorkerLeaves
<1>2. \A v \in Workers \ {w} : pc'[v] \in FreeSteps => pc[v] \in FreeSteps
  BY <1>1 DEF Bystanders, FreeSteps
<1>3. ASSUME NEW c \in Channels, TakeDirty(w, c), pc'[w] = "query"
      PROVE  Held'
  <2>1. IsFree(w) /\ pc'[w] \notin FreeSteps
    BY <1>3 DEF TakeDirty, IsFree, FreeSteps
  <2>2. c \notin Marks /\ Marks' = Marks \cup {c}
    BY <1>3 DEF TakeDirty, ReadyDocs, Marks, TypeOK
  <2>3. job' = [job EXCEPT ![w] = c]
    BY <1>3 DEF TakeDirty
  <2> QED
    BY <1>2, <2>1, <2>2, <2>3, HeldTaken
<1>4. ASSUME NEW k \in Lookups, TakeLookup(w, k), pc'[w] = "keys"
      PROVE  Held'
  <2>1. IsFree(w) /\ pc'[w] \notin FreeSteps
    BY <1>4 DEF TakeLookup, IsFree, FreeSteps
  <2>2. k \notin Marks /\ Marks' = Marks \cup {k}
    BY <1>4 DEF TakeLookup, ReadyLookups, Marks, TypeOK
  <2>3. job' = [job EXCEPT ![w] = k]
    BY <1>4 DEF TakeLookup
  <2> QED
    BY <1>2, <2>1, <2>2, <2>3, HeldTaken
<1>5. CASE FinishDoc(w)
  <2>1. job[w] \in Channels
    BY <1>5 DEF FinishDoc, TypeOK, DocSteps
  <2>2. Marks' = Marks \ {job[w]}
    BY <1>5, <2>1 DEF FinishDoc, TypeOK, Marks
  <2>3. job[w] # NONE /\ job' = [job EXCEPT ![w] = NONE]
    BY <1>5, <2>1 DEF FinishDoc
  <2> QED
    BY <1>2, <2>2, <2>3, HeldReturned
<1>6. CASE FinishLookup(w)
  <2>1. job[w] \in Lookups
    BY <1>6 DEF FinishLookup, TypeOK, LookupSteps
  <2>2. Marks' = Marks \ {job[w]}
    BY <1>6, <2>1 DEF FinishLookup, TypeOK, Marks
  <2>3. job[w] # NONE /\ job' = [job EXCEPT ![w] = NONE]
    BY <1>6, <2>1 DEF FinishLookup
  <2> QED
    BY <1>2, <2>2, <2>3, HeldReturned
<1>7. ASSUME UNCHANGED <<job, inflight, lookupInflight>>,
             pc'[w] \in FreeSteps => pc[w] \in FreeSteps
      PROVE  Held'
  BY <1>2, <1>7, HeldKept
<1> QED
  BY <1>1, <1>3, <1>4, <1>5, <1>6, <1>7
  DEF Destination, NothingDirty, RunDoc, RunDocFails, PublishDoc, PublishFails,
      RetryDoc, NoLookup, RunKeys, RunKeysOverCap, RunKeysFails, MarkKey,
      RequeueLookup, Woken, Park, Exit, FreeSteps

LEMMA HeldNext == TypeOK /\ Held /\ [Next]_vars => Held'
<1> SUFFICES ASSUME TypeOK, Held, [Next]_vars PROVE Held'
  OBVIOUS
<1>1. CASE Outside
  <2>1. /\ Bystanders(Workers)
        /\ UNCHANGED <<inflight, lookupInflight>>
    BY <1>1, OutsideLeaves
  <2>2. job' = job
    BY <1>1 DEF Outside, Environment, Commit, Tick, Cancel, Interest, Warm,
       Touch, SyncLive, Reader, HandleEvent, MarkFromRow, EnqueueLookup,
       localVars
  <2> QED
    BY <2>1, <2>2, HeldKept DEF Bystanders, FreeSteps
<1>2. ASSUME NEW w \in Workers, Worker(w) PROVE Held'
  BY <1>2, HeldWorker
<1>3. CASE UNCHANGED vars
  BY <1>3, HeldKept DEF vars, dirtyVars, lookVars, localVars
<1> QED
  BY <1>1, <1>2, <1>3 DEF Next, Outside

(* No two workers ever work on the same doc or lookup, and the in-flight   *)
(* marks say exactly which units are being worked on (engine.go:80-82,     *)
(* 427-429).                                                               *)
THEOREM ExclusiveWork == Spec => []OneWorkerPerUnit
<1>1. Init => TypeOK /\ Held
  BY TypeInit, HeldInit
<1>2. TypeOK /\ Held /\ [Next]_vars => (TypeOK /\ Held)'
  BY TypeNext, HeldNext
<1>3. TypeOK /\ Held => OneWorkerPerUnit
  BY HeldGivesOne
<1> QED
  BY <1>1, <1>2, <1>3, PTL DEF Spec

-----------------------------------------------------------------------------
(* Ordered: a result in transit is between foony's copy and the database.  *)

LEMMA OrderedInit == Init => Ordered
<1> SUFFICES ASSUME Init PROVE Ordered
  OBVIOUS
<1>1. \A w \in Workers : pc[w] # "publish"
  BY DEF Init
<1>2. \A c \in Channels : published[c] \in 0 .. 1 /\ db[c] = 1
  BY DEF Init
<1> QED
  BY <1>1, <1>2 DEF Ordered

LEMMA OrderedOutside ==
  ASSUME TypeOK, Ordered, Outside PROVE Ordered'
<1>1. Bystanders(Workers) /\ published' = published
  BY OutsideLeaves
<1>2. \A c \in Channels : db'[c] \in Nat /\ db[c] \in Nat /\ db[c] <= db'[c]
  <2>1. CASE \E e \in Events : Commit(e)
    BY <2>1 DEF Commit, TypeOK, Version
  <2>2. CASE db' = db
    BY <2>2 DEF TypeOK, Version
  <2> QED
    BY <2>1, <2>2 DEF Outside, Environment, Tick, Cancel, Interest, Warm,
       Touch, SyncLive, Reader, HandleEvent, MarkFromRow, EnqueueLookup, envVars
<1>3. \A c \in Channels : published[c] \in Nat
  BY DEF TypeOK, Version
<1>4. \A w \in Workers : doc[w] \in Nat
  BY DEF TypeOK, Version
<1>5. ASSUME NEW w \in Workers, pc'[w] = "publish"
      PROVE  published'[job'[w]] <= doc'[w] /\ doc'[w] <= db'[job'[w]]
  <2>1. pc[w] = "publish" /\ job'[w] = job[w] /\ doc'[w] = doc[w]
    BY <1>1, <1>5 DEF Bystanders
  <2>2. job[w] \in Channels
    BY <2>1 DEF TypeOK, DocSteps
  <2> QED
    BY <1>1, <1>2, <1>3, <1>4, <2>1, <2>2 DEF Ordered
<1>6. \A c \in Channels : published'[c] <= db'[c]
  BY <1>1, <1>2, <1>3 DEF Ordered
<1> QED
  BY <1>5, <1>6 DEF Ordered

(* What a worker's step does to foony's copies: nothing, or it delivers    *)
(* the worker's result for the doc it holds.                               *)
LEMMA WorkerPublishes ==
  ASSUME TypeOK, NEW w \in Workers, Worker(w)
  PROVE  \/ published' = published
         \/ /\ pc[w] = "publish"
            /\ job[w] \in Channels
            /\ published' = [published EXCEPT ![job[w]] = doc[w]]
            /\ pc'[w] \in {"finish", "retry"}
<1> USE DEF envVars
<1>1. Destination(w)
  BY WorkerLeaves
<1>2. CASE PublishDoc(w) /\ pc'[w] = "finish"
  BY <1>2 DEF PublishDoc, Deliver, TypeOK, DocSteps
<1>3. CASE PublishFails(w) /\ pc'[w] = "retry"
  BY <1>3 DEF PublishFails, Deliver, TypeOK, DocSteps
<1> QED
  BY <1>1, <1>2, <1>3
  DEF Destination, TakeDirty, NothingDirty, RunDoc, RunDocFails, RetryDoc,
      FinishDoc, TakeLookup, NoLookup, RunKeys, RunKeysOverCap, RunKeysFails,
      MarkKey, RequeueLookup, FinishLookup, Woken, Park, Exit

LEMMA OrderedWorker ==
  ASSUME TypeOK, Held, Ordered, NEW w \in Workers, Worker(w) PROVE Ordered'
<1>1. /\ Destination(w)
      /\ Bystanders(Workers \ {w})
      /\ db' = db
  BY WorkerLeaves
<1>2. \A c \in Channels : published[c] \in Nat /\ db[c] \in Nat
  BY DEF TypeOK, Version
<1>3. \A v \in Workers : doc[v] \in Nat
  BY DEF TypeOK, Version
<1>4. CASE published' = published
  <2>1. ASSUME NEW v \in Workers, pc'[v] = "publish"
        PROVE  published'[job'[v]] <= doc'[v] /\ doc'[v] <= db'[job'[v]]
    <3>1. CASE v # w
      <4>1. pc[v] = "publish" /\ job'[v] = job[v] /\ doc'[v] = doc[v]
        BY <1>1, <2>1, <3>1 DEF Bystanders
      <4> QED
        BY <1>1, <1>4, <4>1 DEF Ordered
    <3>2. CASE v = w
      <4>1. RunDoc(w)
        BY <1>1, <2>1, <3>2 DEF Destination
      <4>2. job[w] \in Channels
        BY <4>1 DEF RunDoc, TypeOK, DocSteps
      <4>3. job'[w] = job[w] /\ doc'[w] = db[job[w]]
        BY <4>1 DEF RunDoc, TypeOK
      <4> QED
        BY <1>1, <1>2, <1>4, <3>2, <4>2, <4>3 DEF Ordered
    <3> QED
      BY <3>1, <3>2
  <2> QED
    BY <1>1, <1>4, <2>1 DEF Ordered
<1>5. CASE /\ pc[w] = "publish"
           /\ job[w] \in Channels
           /\ published' = [published EXCEPT ![job[w]] = doc[w]]
           /\ pc'[w] \in {"finish", "retry"}
  <2>1. \A c \in Channels :
          published'[c] = IF c = job[w] THEN doc[w] ELSE published[c]
    BY <1>5 DEF TypeOK
  <2>2. ASSUME NEW v \in Workers, pc'[v] = "publish"
        PROVE  published'[job'[v]] <= doc'[v] /\ doc'[v] <= db'[job'[v]]
    <3>1. v # w
      BY <1>5, <2>2
    <3>2. pc[v] = "publish" /\ job'[v] = job[v] /\ doc'[v] = doc[v]
      BY <1>1, <2>2, <3>1 DEF Bystanders
    <3>3. job[v] \in Channels
      BY <3>2 DEF TypeOK, DocSteps
    <3>4. job[v] # job[w]
      BY <1>5, <3>1, <3>3 DEF Held
    <3> QED
      BY <1>1, <2>1, <3>2, <3>3, <3>4 DEF Ordered
  <2> QED
    BY <1>1, <1>5, <2>1, <2>2 DEF Ordered
<1> QED
  BY <1>4, <1>5, WorkerPublishes

LEMMA OrderedNext == TypeOK /\ Held /\ Ordered /\ [Next]_vars => Ordered'
<1>1. ASSUME TypeOK, Ordered, UNCHANGED vars PROVE Ordered'
  BY <1>1 DEF vars, envVars, localVars, Ordered
<1> QED
  BY <1>1, OrderedOutside, OrderedWorker DEF Next, Outside

LEMMA OrderedAlways == Spec => [](TypeOK /\ Held /\ Ordered)
<1>1. Init => TypeOK /\ Held /\ Ordered
  BY TypeInit, HeldInit, OrderedInit
<1>2. TypeOK /\ Held /\ Ordered /\ [Next]_vars => (TypeOK /\ Held /\ Ordered)'
  BY TypeNext, HeldNext, OrderedNext
<1> QED
  BY <1>1, <1>2, PTL DEF Spec

(* No step shows subscribers of a doc an older result than the one they    *)
(* had: the result a worker publishes is at least as new as what foony     *)
(* holds, because no other worker computes the doc (engine.go:80-82).      *)
THEOREM PublishedNeverRegresses == Spec => NoRegress
<1>1. ASSUME TypeOK, Ordered, [Next]_vars
      PROVE  \A c \in Channels : published'[c] >= published[c]
  <2>0. \A c \in Channels : published[c] \in Nat
    BY <1>1 DEF TypeOK, Version
  <2>1. CASE published' = published
    BY <2>0, <2>1
  <2>2. ASSUME NEW w \in Workers, Worker(w), published' # published
        PROVE  \A c \in Channels : published'[c] >= published[c]
    <3>1. /\ pc[w] = "publish"
          /\ job[w] \in Channels
          /\ published' = [published EXCEPT ![job[w]] = doc[w]]
      BY <1>1, <2>2, WorkerPublishes
    <3>2. published[job[w]] <= doc[w] /\ doc[w] \in Nat
      BY <1>1, <3>1 DEF Ordered, TypeOK, Version
    <3> QED
      BY <1>1, <2>0, <3>1, <3>2 DEF TypeOK
  <2> QED
    BY <1>1, <2>1, <2>2, OutsideLeaves DEF Next, Outside, vars, envVars
<1>2. TypeOK /\ Ordered /\ [Next]_vars =>
        [\A c \in Channels : published'[c] >= published[c]]_vars
  BY <1>1
<1> QED
  BY <1>2, OrderedAlways, PTL DEF Spec, NoRegress

-----------------------------------------------------------------------------
(* NoLostChange.  Pending(c) in two parts: what waits in a queue, and what *)
(* a worker carries.                                                       *)

Waiting(c) ==
  \/ \E i \in 1 .. Len(stream) : Covers(stream[i], c)
  \/ c \in handling \cup dirty
  \/ \E k \in (handling \cap Lookups) \cup lookups : c \in Fanout[k]

Carried(w, c) ==
  \/ LookupOnWay(w, c)
  \/ /\ job[w] = c
     /\ \/ pc[w] \in {"query", "retry"}
        \/ pc[w] = "publish" /\ doc[w] = db[c]

LEMMA DueParts ==
  ASSUME NEW c \in Channels
  PROVE  Due(c) <=> Waiting(c) \/ \E w \in Workers : Carried(w, c)
BY DEF Due, Pending, Computing, Waiting, Carried

(* The same in the next state.                                             *)
LEMMA DuePartsNext ==
  ASSUME NEW c \in Channels
  PROVE  Due(c)' <=> Waiting(c)' \/ \E w \in Workers : Carried(w, c)'
BY DEF Due, Pending, Computing, Waiting, Carried

(* What stands by carries on.                                              *)
LEMMA BystanderCarries ==
  ASSUME TypeOK, NEW S \in SUBSET Workers, Bystanders(S), NEW w \in S,
         NEW c \in Channels, db'[c] = db[c], Carried(w, c)
  PROVE  Carried(w, c)'
<1>1. pc[w] # "parked"
  BY DEF Carried, LookupOnWay
<1>2. pc'[w] = pc[w] /\ job'[w] = job[w] /\ doc'[w] = doc[w] /\ fan'[w] = fan[w]
  BY <1>1 DEF Bystanders
<1> QED
  BY <1>2 DEF Carried, LookupOnWay

(* The reader moves a change from the stream to the marks, and the marks   *)
(* to the dirty set and the lookups, and nothing outside the workers takes *)
(* from those.                                                             *)
LEMMA OutsideKeepsWaiting ==
  ASSUME TypeOK, Outside, NEW c \in Channels, Waiting(c)
  PROVE  Waiting(c)'
<1> USE DEF envVars, dirtyVars, lookVars, localVars, liveVars
<1>1. ASSUME NEW e \in Events, Commit(e) PROVE Waiting(c)'
  <2>1. /\ Len(stream') = Len(stream) + 1
        /\ \A i \in 1 .. Len(stream) : stream'[i] = stream[i]
    BY <1>1 DEF Commit, TypeOK
  <2>2. UNCHANGED <<handling, dirty, lookups>>
    BY <1>1 DEF Commit
  <2>3. Len(stream) \in Nat
    BY DEF TypeOK
  <2>4. 1 .. Len(stream) \subseteq 1 .. Len(stream')
    BY <2>1, <2>3
  <2> QED
    BY <2>1, <2>2, <2>4 DEF Waiting, Covers
<1>2. CASE HandleEvent
  <2>1. UNCHANGED <<dirty, lookups>> /\ handling = {}
    BY <1>2 DEF HandleEvent
  <2>2. CASE c \in dirty \/ \E k \in lookups : c \in Fanout[k]
    BY <2>1, <2>2 DEF Waiting
  <2>3. ASSUME NEW i \in 1 .. Len(stream), Covers(stream[i], c)
        PROVE  Waiting(c)'
    <3>1. CASE i = 1
      <4>1. handling' = Direct[stream[1]] \cup Reverse[stream[1]]
        BY <1>2 DEF HandleEvent, TypeOK
      <4>2. Reverse[stream[1]] \subseteq Lookups
        BY <2>3, <3>1 DEF TypeOK
      <4> QED
        BY <2>3, <3>1, <4>1, <4>2 DEF Covers, Waiting
    <3>2. CASE i # 1
      <4>1. i - 1 \in 1 .. Len(stream')
        BY <1>2, <3>2 DEF HandleEvent, TypeOK
      <4>2. stream'[i - 1] = stream[i]
        BY <1>2, <3>2 DEF HandleEvent, TypeOK
      <4> QED
        BY <2>3, <4>1, <4>2 DEF Waiting, Covers
    <3> QED
      BY <3>1, <3>2
  <2> QED
    BY <2>1, <2>2, <2>3 DEF Waiting
<1>3. ASSUME NEW m \in Channels, MarkFromRow(m) PROVE Waiting(c)'
  BY <1>3 DEF MarkFromRow, Waiting, Covers
<1>4. ASSUME NEW k \in Lookups, EnqueueLookup(k) PROVE Waiting(c)'
  BY <1>4 DEF EnqueueLookup, Waiting, Covers
<1>5. CASE Interest
  <2>1. UNCHANGED <<stream, handling, lookups>> /\ dirty \subseteq dirty'
    BY <1>5 DEF Interest, Warm, Touch, SyncLive
  <2> QED
    BY <2>1 DEF Waiting, Covers
<1>6. CASE Tick \/ Cancel
  <2>1. UNCHANGED <<stream, handling, lookups, dirty>>
    BY <1>6 DEF Tick, Cancel
  <2> QED
    BY <2>1 DEF Waiting, Covers
<1> QED
  BY <1>1, <1>2, <1>3, <1>4, <1>5, <1>6 DEF Outside, Environment, Reader

(* A doc that becomes live becomes dirty.                                  *)
LEMMA JoinsDirty ==
  ASSUME TypeOK, Outside, NEW c \in live', c \notin live
  PROVE  c \in dirty'
BY DEF Outside, Environment, Commit, Tick, Cancel, Interest, Warm, Touch,
   SyncLive, Kept, MissedChanges, Reader, HandleEvent, MarkFromRow,
   EnqueueLookup, liveVars

(* A doc whose result changes is covered by the change in the stream: the  *)
(* one use of WatchesCover.                                                *)
LEMMA ChangeIsWaiting ==
  ASSUME TypeOK, Outside, NEW c \in Channels, db'[c] # db[c]
  PROVE  Waiting(c)'
<1>1. PICK e \in Events : Commit(e)
  BY DEF Outside, Environment, Tick, Cancel, Interest, Warm, Touch, SyncLive,
     Reader, HandleEvent, MarkFromRow, EnqueueLookup, envVars
<1>2. c \in Affects[e]
  BY <1>1 DEF Commit
<1>3. Covers(e, c)
  BY <1>2, WatchesCover DEF Covers
<1>4. Len(stream') \in 1 .. Len(stream') /\ stream'[Len(stream')] = e
  BY <1>1 DEF Commit, TypeOK
<1> QED
  BY <1>3, <1>4 DEF Waiting, Covers

LEMMA NoLostChangeOutside ==
  ASSUME TypeOK, NoLostChange, Outside PROVE NoLostChange'
<1> SUFFICES ASSUME NEW c \in live', Stale(c)' PROVE Due(c)'
  BY DEF NoLostChange
<1>1. c \in Channels
  BY TypeInterest, TypeEnvironment, TypeReader DEF Outside, TypeOK
<1>2. Bystanders(Workers) /\ published' = published
  BY OutsideLeaves
<1>3. CASE c \notin live
  BY <1>1, <1>3, JoinsDirty, DuePartsNext DEF Waiting
<1>4. CASE db'[c] # db[c]
  BY <1>1, <1>4, ChangeIsWaiting, DuePartsNext
<1>5. CASE c \in live /\ db'[c] = db[c]
  <2>1. Due(c)
    BY <1>2, <1>5 DEF NoLostChange, Stale
  <2>2. CASE Waiting(c)
    BY <1>1, <2>2, OutsideKeepsWaiting, DuePartsNext
  <2>3. ASSUME NEW w \in Workers, Carried(w, c) PROVE Due(c)'
    <3>1. Carried(w, c)'
      BY <1>1, <1>2, <1>5, <2>3, BystanderCarries
    <3> QED
      BY <1>1, <3>1, DuePartsNext
  <2> QED
    BY <1>1, <2>1, <2>2, <2>3, DueParts
<1> QED
  BY <1>3, <1>4, <1>5

(* A worker takes a live doc, or a lookup, from its queue only to carry it *)
LEMMA WorkerKeepsWaiting ==
  ASSUME TypeOK, NEW w \in Workers, Worker(w), NEW c \in live, Waiting(c)
  PROVE  Waiting(c)' \/ Carried(w, c)'
<1> USE DEF dirtyVars, lookVars
<1>1. Destination(w) /\ UNCHANGED <<db, stream, handling, live>>
  BY WorkerLeaves
<1>2. c \in Channels
  BY DEF TypeOK
<1>3. ASSUME NEW d \in Channels, TakeDirty(w, d), pc'[w] = "query"
      PROVE  Waiting(c)' \/ Carried(w, c)'
  <2>1. CASE d = c
    <3>1. job'[w] = c
      BY <1>3, <2>1 DEF TakeDirty, TypeOK
    <3> QED
      BY <1>3, <3>1 DEF Carried
  <2>2. CASE d # c
    <3>1. c \in dirty => c \in dirty'
      BY <1>3, <2>2 DEF TakeDirty, ColdDocs
    <3>2. lookups' = lookups
      BY <1>3 DEF TakeDirty
    <3> QED
      BY <1>1, <3>1, <3>2 DEF Waiting, Covers
  <2> QED
    BY <2>1, <2>2
<1>4. ASSUME NEW k \in Lookups, TakeLookup(w, k), pc'[w] = "keys"
      PROVE  Waiting(c)' \/ Carried(w, c)'
  <2>1. dirty' = dirty /\ lookups' = lookups \ {k} /\ job'[w] = k
    BY <1>4 DEF TakeLookup, TypeOK
  <2>2. CASE c \in Fanout[k]
    BY <1>4, <2>1, <2>2 DEF Carried, LookupOnWay
  <2>3. CASE c \notin Fanout[k]
    BY <1>1, <2>1, <2>3 DEF Waiting, Covers
  <2> QED
    BY <2>2, <2>3
<1>5. CASE (c \in dirty => c \in dirty') /\ lookups \subseteq lookups'
  BY <1>1, <1>5 DEF Waiting, Covers
<1> QED
  BY <1>1, <1>3, <1>4, <1>5
  DEF Destination, NothingDirty, ColdDocs, RunDoc, RunDocFails, PublishDoc,
      PublishFails, RetryDoc, FinishDoc, NoLookup, RunKeys, RunKeysOverCap,
      RunKeysFails, MarkKey, RequeueLookup, FinishLookup, Woken, Park, Exit

(* What a worker carries for a doc it carries on, queues again or delivers *)
LEMMA WorkerKeepsCarrying ==
  ASSUME TypeOK, NEW w \in Workers, Worker(w), NEW c \in live, Carried(w, c)
  PROVE  Waiting(c)' \/ Carried(w, c)' \/ ~Stale(c)'
<1> USE DEF envVars, dirtyVars, lookVars, localVars
<1>1. Destination(w) /\ UNCHANGED <<db, stream, handling, live>>
  BY WorkerLeaves
<1>2. c \in Channels
  BY DEF TypeOK
<1>3. CASE LookupOnWay(w, c)
  <2>1. pc[w] \in {"keys", "requeue", "fanout"}
    BY <1>3 DEF LookupOnWay
  <2>2. job[w] \in Lookups
    BY <2>1 DEF TypeOK, LookupSteps
  <2>3. CASE RunKeys(w) /\ pc'[w] = "fanout"
    <3>1. fan'[w] = Fanout[job[w]] /\ c \in Fanout[job[w]]
      BY <1>3, <2>3 DEF RunKeys, LookupOnWay, TypeOK
    <3> QED
      BY <2>3, <3>1 DEF Carried, LookupOnWay
  <2>4. CASE RunKeysOverCap(w)
    <3>1. c \in Fanout[job[w]]
      BY <1>3, <2>4 DEF RunKeysOverCap, LookupOnWay
    <3>2. c \in dirty'
      BY <2>2, <2>4, <3>1, FanoutOfQuery DEF RunKeysOverCap, Fallback
    <3> QED
      BY <3>2 DEF Waiting
  <2>5. CASE RunKeysFails(w) /\ pc'[w] = "requeue"
    BY <1>3, <2>5 DEF RunKeysFails, LookupOnWay, Carried
  <2>6. CASE RequeueLookup(w)
    <3>1. c \in Fanout[job[w]] /\ job[w] \in lookups'
      BY <1>3, <2>6 DEF RequeueLookup, LookupOnWay
    <3> QED
      BY <3>1 DEF Waiting
  <2>7. ASSUME NEW d \in Channels, MarkKey(w, d), pc'[w] = "fanout"
        PROVE  Waiting(c)' \/ Carried(w, c)'
    <3>1. c \in fan[w]
      BY <1>3, <2>7 DEF MarkKey, LookupOnWay
    <3>2. fan'[w] = fan[w] \ {d} /\ d \in dirty'
      BY <2>7 DEF MarkKey, TypeOK
    <3> QED
      BY <2>7, <3>1, <3>2 DEF Waiting, Carried, LookupOnWay
  <2>8. ~FinishLookup(w)
    BY <1>3 DEF FinishLookup, LookupOnWay
  <2> QED
    BY <1>1, <2>1, <2>3, <2>4, <2>5, <2>6, <2>7, <2>8
    DEF Destination, TakeDirty, NothingDirty, RunDoc, RunDocFails, PublishDoc,
        PublishFails, RetryDoc, FinishDoc, TakeLookup, NoLookup, Woken, Park,
        Exit
<1>4. CASE /\ job[w] = c
           /\ \/ pc[w] \in {"query", "retry"}
              \/ pc[w] = "publish" /\ doc[w] = db[c]
  <2>1. CASE RunDoc(w) /\ pc'[w] = "publish"
    <3>1. job'[w] = c /\ doc'[w] = db[c]
      BY <1>4, <2>1 DEF RunDoc, TypeOK
    <3> QED
      BY <1>1, <2>1, <3>1 DEF Carried
  <2>2. CASE RunDocFails(w) /\ pc'[w] = "retry"
    BY <1>4, <2>2 DEF RunDocFails, Carried
  <2>3. CASE PublishDoc(w)
    <3>1. published'[c] = db[c]
      BY <1>2, <1>4, <2>3 DEF PublishDoc, Deliver, TypeOK
    <3> QED
      BY <1>1, <3>1 DEF Stale
  <2>4. CASE PublishFails(w) /\ pc'[w] = "retry"
    BY <1>4, <2>4 DEF PublishFails, Carried
  <2>5. CASE RetryDoc(w)
    BY <1>4, <2>5 DEF RetryDoc, Waiting
  <2> QED
    BY <1>1, <1>4, <2>1, <2>2, <2>3, <2>4, <2>5
    DEF Destination, TakeDirty, NothingDirty, FinishDoc, TakeLookup, NoLookup,
        RunKeys, RunKeysOverCap, RunKeysFails, MarkKey, RequeueLookup,
        FinishLookup, Woken, Park, Exit
<1> QED
  BY <1>3, <1>4 DEF Carried

LEMMA NoLostChangeWorker ==
  ASSUME TypeOK, Held, Ordered, NoLostChange, NEW w \in Workers, Worker(w)
  PROVE  NoLostChange'
<1>1. Bystanders(Workers \ {w}) /\ db' = db /\ live' = live
  BY WorkerLeaves
<1> SUFFICES ASSUME NEW c \in live, Stale(c)' PROVE Due(c)'
  BY <1>1 DEF NoLostChange
<1>2. c \in Channels
  BY DEF TypeOK
<1>3. Stale(c)
  <2> SUFFICES ASSUME published[c] = db[c] PROVE published'[c] = db[c]
    BY <1>1 DEF Stale
  <2>1. CASE published' = published
    BY <2>1
  <2>2. CASE /\ pc[w] = "publish"
             /\ job[w] \in Channels
             /\ published' = [published EXCEPT ![job[w]] = doc[w]]
    <3>1. CASE job[w] = c
      <4>1. published[c] <= doc[w] /\ doc[w] <= db[c]
        BY <2>2, <3>1 DEF Ordered
      <4>2. doc[w] = db[c]
        BY <1>2, <4>1 DEF TypeOK, Version
      <4> QED
        BY <2>2, <3>1, <4>2 DEF TypeOK
    <3>2. CASE job[w] # c
      BY <1>2, <2>2, <3>2 DEF TypeOK
    <3> QED
      BY <3>1, <3>2
  <2> QED
    BY <2>1, <2>2, WorkerPublishes
<1>4. Due(c)
  BY <1>3 DEF NoLostChange
<1>5. CASE Waiting(c)
  BY <1>2, <1>5, WorkerKeepsWaiting, DuePartsNext
<1>6. CASE Carried(w, c)
  BY <1>2, <1>6, WorkerKeepsCarrying, DuePartsNext
<1>7. ASSUME NEW v \in Workers \ {w}, Carried(v, c) PROVE Due(c)'
  <2>1. Carried(v, c)'
    BY <1>1, <1>2, <1>7, BystanderCarries
  <2> QED
    BY <1>2, <2>1, DuePartsNext
<1> QED
  BY <1>2, <1>4, <1>5, <1>6, <1>7, DueParts

LEMMA NoLostChangeNext == SafetyInv /\ [Next]_vars => NoLostChange'
<1>1. ASSUME NoLostChange, UNCHANGED vars PROVE NoLostChange'
  BY <1>1 DEF vars, envVars, dirtyVars, lookVars, liveVars, localVars,
     NoLostChange, Stale, Due, Pending, Computing, LookupOnWay, Covers
<1> QED
  BY <1>1, NoLostChangeOutside, NoLostChangeWorker DEF SafetyInv, Next, Outside

LEMMA SafetyInvariant == Spec => []SafetyInv
<1>1. Init => SafetyInv
  BY TypeInit, HeldInit, OrderedInit DEF Init, SafetyInv, NoLostChange
<1>2. SafetyInv /\ [Next]_vars => SafetyInv'
  BY TypeNext, HeldNext, OrderedNext, NoLostChangeNext DEF SafetyInv
<1> QED
  BY <1>1, <1>2, PTL DEF Spec

(* A doc with subscribers whose published copy is out of date always has a *)
(* recompute on its way, whatever changes, subscribers, failures, retries  *)
(* and workers interleave (engine.go:79-89, 185-190, 237-240, 352-354).    *)
THEOREM NoChangeIsLost == Spec => []NoLostChange
<1>1. SafetyInv => NoLostChange
  BY DEF SafetyInv
<1> QED
  BY <1>1, SafetyInvariant, PTL

-----------------------------------------------------------------------------
(***************************************************************************)
(* NoLostWakeup.  A worker that has already looked for lookups ("drain")   *)
(* is awake but will miss one that arrives now, so the invariant asks more *)
(* for lookups than for docs.                                              *)
(***************************************************************************)
Alert(w) == pc[w] \notin {"drain", "select", "parked", "exited"}

WakeInv ==
  ~cancelled =>
    /\ ReadyLookups # {} => wake \/ \E w \in Workers : Alert(w)
    /\ ReadyDocs # {} => wake \/ \E w \in Workers : Awake(w)

(* After a signal the slot is full or a worker is about to look for work.  *)
LEMMA SignalWakes ==
  ASSUME NEW pcs \in [Workers -> Steps], Signal(pcs)
  PROVE  wake' \/ \E w \in Workers : pc'[w] = "scan"
BY DEF Signal, Parked

LEMMA WakeInvOutside ==
  ASSUME TypeOK, WakeInv, Outside PROVE WakeInv'
<1> SUFFICES ASSUME ~cancelled' PROVE WakeInv'
  BY DEF WakeInv
<1> USE DEF envVars, dirtyVars, lookVars, liveVars, localVars
<1>1. ~cancelled
  BY DEF Outside, Environment, Commit, Tick, Cancel, Interest, Warm, Touch,
     SyncLive, Reader, HandleEvent, MarkFromRow, EnqueueLookup
<1>2. CASE Signal(pc)
  BY <1>2, SignalWakes DEF WakeInv, Alert, Awake, TypeOK
<1>3. CASE /\ ReadyLookups' \subseteq ReadyLookups
           /\ ReadyDocs' \subseteq ReadyDocs
           /\ wake' = wake
           /\ pc' = pc
  BY <1>1, <1>3 DEF WakeInv, Alert, Awake
<1>4. CASE Environment
  <2>1. ~Cancel
    BY DEF Cancel
  <2> QED
    BY <1>3, <1>4, <2>1
    DEF Environment, Commit, Tick, ReadyLookups, ReadyDocs
<1>5. CASE Interest
  <2>1. ASSUME NEW listed \in Listings, NEW complete \in BOOLEAN,
               SyncLive(listed, complete), MissedChanges(listed) = {}
        PROVE  WakeInv'
    <3>1. live' \subseteq live /\ dirty' = dirty
      BY <2>1 DEF SyncLive, Kept, MissedChanges
    <3>2. ReadyDocs' \subseteq ReadyDocs
      BY <2>1, <3>1 DEF SyncLive, ReadyDocs
    <3> QED
      BY <1>3, <2>1, <3>2 DEF SyncLive, SignalIf, Quiet, ReadyLookups
  <2>2. ASSUME NEW c \in Channels, Touch(c), MissedChanges({c}) = {}
        PROVE  WakeInv'
    <3>1. Quiet(pc)
      BY <2>2 DEF Touch, SignalIf
    <3>2. ReadyDocs' \subseteq ReadyDocs
      BY <2>2 DEF Touch, MissedChanges, ReadyDocs
    <3> QED
      BY <1>3, <2>2, <3>1, <3>2 DEF Touch, Quiet, ReadyLookups
  <2> QED
    BY <1>2, <1>5, <2>1, <2>2 DEF Interest, Warm, Touch, SyncLive, SignalIf
<1>6. CASE Reader
  BY <1>2, <1>3, <1>6
  DEF Reader, HandleEvent, MarkFromRow, EnqueueLookup, ReadyLookups, ReadyDocs
<1> QED
  BY <1>4, <1>5, <1>6 DEF Outside

LEMMA WakeInvWorker ==
  ASSUME TypeOK, WakeInv, NEW w \in Workers, Worker(w) PROVE WakeInv'
<1> USE DEF dirtyVars, lookVars, localVars
<1>1. /\ Destination(w)
      /\ Bystanders(Workers \ {w})
      /\ UNCHANGED <<live, cancelled>>
  BY WorkerLeaves
<1>2. CASE pc'[w] \notin {"drain", "select", "parked", "exited"}
  BY <1>2 DEF WakeInv, Alert, Awake
<1>3. \A v \in Workers \ {w} :
        /\ Alert(v) => Alert(v)'
        /\ Awake(v) => Awake(v)'
  BY <1>1 DEF Bystanders, Alert, Awake
<1>4. CASE NoLookup(w) /\ pc'[w] = "drain"
  <2>1. ReadyLookups' = {} /\ Awake(w)'
    BY <1>4 DEF NoLookup, ReadyLookups, Awake
  <2> QED
    BY <2>1 DEF WakeInv
<1>5. CASE NothingDirty(w) /\ pc'[w] = "select"
  <2>1. ReadyDocs' = {} /\ ReadyLookups' = ReadyLookups /\ wake' = wake
    BY <1>1, <1>5 DEF NothingDirty, ReadyDocs, ColdDocs, ReadyLookups, Quiet
  <2>2. ~Alert(w)
    BY <1>5 DEF NothingDirty, Alert
  <2> QED
    BY <1>1, <1>3, <2>1, <2>2 DEF WakeInv
<1>6. CASE Park(w)
  <2>1. /\ ReadyDocs' = ReadyDocs
        /\ ReadyLookups' = ReadyLookups
        /\ wake' = wake
    BY <1>1, <1>6 DEF Park, ReadyDocs, ReadyLookups, Quiet
  <2>2. ~Alert(w) /\ ~Awake(w)
    BY <1>6 DEF Park, Alert, Awake
  <2> QED
    BY <1>1, <1>3, <2>1, <2>2 DEF WakeInv
<1>7. CASE Exit(w)
  BY <1>1, <1>7 DEF Exit, WakeInv
<1> QED
  BY <1>1, <1>2, <1>4, <1>5, <1>6, <1>7 DEF Destination

(* While the context lives, work that can be taken never waits with every  *)
(* worker asleep and no token in the wake channel, although the channel    *)
(* drops every signal that finds it full (engine.go:96, 281-314, 526-531). *)
THEOREM NoWakeupIsLost == Spec => []NoLostWakeup
<1>1. Init => WakeInv
  BY DEF Init, WakeInv, ReadyLookups, ReadyDocs
<1>2. TypeOK /\ WakeInv /\ [Next]_vars => WakeInv'
  <2>1. ASSUME WakeInv, UNCHANGED vars PROVE WakeInv'
    BY <2>1 DEF vars, dirtyVars, lookVars, liveVars, WakeInv, Alert, Awake,
       ReadyLookups, ReadyDocs
  <2> QED
    BY <2>1, WakeInvOutside, WakeInvWorker DEF Next, Outside
<1>3. WakeInv => NoLostWakeup
  BY DEF WakeInv, NoLostWakeup, Alert, Awake
<1> QED
  BY <1>1, <1>2, <1>3, TypeCorrect, PTL DEF Spec

-----------------------------------------------------------------------------
(***************************************************************************)
(* The engine implements DocSync: every step of the engine is, for a       *)
(* subscriber, a change of the rows, a change of interest, a publish, a    *)
(* change of plans, or nothing.                                            *)
(***************************************************************************)

LEMMA RefinesInit == Init => DocSync!Init
<1> SUFFICES ASSUME Init PROVE DocSync!Init
  OBVIOUS
<1>1. ASSUME NEW c \in Channels PROVE ~Due(c)
  <2>1. ~Waiting(c)
    BY DEF Init, Waiting
  <2>2. \A w \in Workers : ~Carried(w, c)
    BY DEF Init, Carried, LookupOnWay
  <2> QED
    BY <2>1, <2>2, DueParts
<1>2. DueDocs = {}
  BY <1>1 DEF DueDocs
<1> QED
  BY <1>2 DEF Init, DocSync!Init

(* Outside the workers no doc stops being due.                             *)
LEMMA OutsideKeepsDue ==
  ASSUME TypeOK, Outside PROVE DueDocs \subseteq DueDocs'
<1> SUFFICES ASSUME NEW c \in Channels, Due(c) PROVE Due(c)'
  BY DEF DueDocs
<1>1. Bystanders(Workers)
  BY OutsideLeaves
<1>2. CASE db'[c] # db[c]
  BY <1>2, ChangeIsWaiting, DuePartsNext
<1>3. CASE Waiting(c)
  BY <1>3, OutsideKeepsWaiting, DuePartsNext
<1>4. ASSUME NEW w \in Workers, Carried(w, c), db'[c] = db[c] PROVE Due(c)'
  BY <1>1, <1>4, BystanderCarries, DuePartsNext
<1> QED
  BY <1>2, <1>3, <1>4, DueParts

LEMMA RefinesOutside ==
  ASSUME SafetyInv, TypeOK', Outside PROVE DocSync!Next
<1>1. DueDocs \subseteq DueDocs' /\ DueDocs' \subseteq Channels
  BY OutsideKeepsDue DEF SafetyInv, DueDocs
<1>2. published' = published
  BY OutsideLeaves DEF SafetyInv
<1>3. ASSUME NEW e \in Events, Commit(e) PROVE DocSync!Change(Affects[e])
  <2>1. Affects[e] \subseteq DueDocs'
    <3> SUFFICES ASSUME NEW c \in Affects[e] PROVE Due(c)'
      BY DEF DueDocs
    <3>1. c \in Channels /\ db[c] \in Nat
      BY DEF SafetyInv, TypeOK, Version
    <3>2. db'[c] # db[c]
      BY <1>3, <3>1 DEF Commit
    <3> QED
      BY <3>1, <3>2, ChangeIsWaiting, DuePartsNext DEF SafetyInv
  <2>2. /\ db' \in [Channels -> DocSync!Version]
        /\ live' = live
        /\ db' = [c \in Channels |-> IF c \in Affects[e] THEN db[c] + 1 ELSE db[c]]
    BY <1>3 DEF Commit, TypeOK, Version, DocSync!Version, liveVars
  <2> QED
    BY <1>1, <1>2, <2>1, <2>2 DEF DocSync!Change
<1>4. CASE Interest
  <2>1. db' = db
    BY <1>4 DEF Interest, Warm, Touch, SyncLive, envVars
  <2>2. live' \ live \subseteq DueDocs'
    <3> SUFFICES ASSUME NEW c \in live', c \notin live PROVE Due(c)'
      BY DEF TypeOK, DueDocs
    <3>1. c \in Channels /\ c \in dirty'
      BY JoinsDirty DEF SafetyInv, TypeOK
    <3> QED
      BY <3>1, DuePartsNext DEF Waiting
  <2>3. DocSync!Interest
    BY <1>1, <1>2, <2>1, <2>2 DEF DocSync!Interest, TypeOK
  <2> QED
    BY <2>3 DEF DocSync!Next
<1>5. CASE Tick \/ Cancel \/ Reader
  <2>1. db' = db /\ live' = live
    BY <1>5 DEF Tick, Cancel, Reader, HandleEvent, MarkFromRow, EnqueueLookup,
       envVars, liveVars
  <2>2. DocSync!Plan
    BY <1>1, <1>2, <2>1 DEF DocSync!Plan
  <2> QED
    BY <2>2 DEF DocSync!Next
<1>6. CASE \E e \in Events : Commit(e)
  BY <1>3, <1>6 DEF DocSync!Next
<1> QED
  BY <1>4, <1>5, <1>6 DEF Outside, Environment

(* A worker that delivers a result does nothing else to what is due.       *)
LEMMA RefinesPublish ==
  ASSUME SafetyInv, NoLostChange', NEW w \in Workers, Worker(w),
         published' # published
  PROVE  DocSync!Next
<1> DEFINE c == job[w]
<1>1. /\ pc[w] = "publish"
      /\ c \in Channels
      /\ published' = [published EXCEPT ![c] = doc[w]]
      /\ pc'[w] \in {"finish", "retry"}
  BY WorkerPublishes DEF SafetyInv
<1>2. /\ Destination(w)
      /\ Bystanders(Workers \ {w})
      /\ UNCHANGED <<db, stream, handling, live>>
  BY WorkerLeaves DEF SafetyInv
<1>3. PublishDoc(w) \/ PublishFails(w)
  BY <1>1, <1>2 DEF Destination, TakeDirty, NothingDirty, RunDoc, RunDocFails,
     RetryDoc, FinishDoc, TakeLookup, NoLookup, RunKeys, RunKeysOverCap,
     RunKeysFails, MarkKey, RequeueLookup, FinishLookup, Woken, Park, Exit
<1>4. UNCHANGED <<dirty, lookups, job>>
  BY <1>3 DEF PublishDoc, PublishFails, dirtyVars, lookVars, localVars
<1>5. ASSUME NEW d \in Channels PROVE Waiting(d)' <=> Waiting(d)
  BY <1>2, <1>4 DEF Waiting, Covers
<1>6. ASSUME NEW d \in Channels, d # c, NEW v \in Workers
      PROVE  Carried(v, d)' <=> Carried(v, d)
  <2>1. CASE v = w
    BY <1>1, <1>4, <1>6, <2>1 DEF Carried, LookupOnWay
  <2>2. CASE v # w
    BY <1>2, <2>2 DEF Bystanders, Carried, LookupOnWay
  <2> QED
    BY <2>1, <2>2
<1>7. ASSUME NEW d \in Channels, d # c PROVE Due(d)' <=> Due(d)
  BY <1>5, <1>6, <1>7, DueParts, DuePartsNext
<1>8. /\ DueDocs \ {c} \subseteq DueDocs'
      /\ DueDocs' \subseteq DueDocs \cup {c}
  BY <1>7 DEF DueDocs
<1>9. \E v \in published[c] .. db[c] :
        published' = [published EXCEPT ![c] = v]
  <2>1. doc[w] \in published[c] .. db[c]
    BY <1>1 DEF SafetyInv, TypeOK, Version, Ordered
  <2> QED
    BY <1>1, <2>1
<1>10. c \in DueDocs' \/ c \notin live \/ published'[c] = db[c]
  BY <1>1, <1>2 DEF NoLostChange, Stale, DueDocs
<1>11. DocSync!Publish(c)
  BY <1>2, <1>8, <1>9, <1>10 DEF DocSync!Publish
<1> QED
  BY <1>1, <1>11 DEF DocSync!Next

(* Any other step of a worker leaves live docs due until they are current. *)
LEMMA RefinesPlan ==
  ASSUME SafetyInv, NEW w \in Workers, Worker(w), published' = published
  PROVE  DocSync!Next
<1>1. Bystanders(Workers \ {w}) /\ db' = db /\ live' = live
  BY WorkerLeaves DEF SafetyInv
<1>2. ASSUME NEW c \in DueDocs \ DueDocs', c \in live PROVE ~Stale(c)
  <2>1. c \in Channels /\ Due(c) /\ ~Due(c)'
    BY <1>2 DEF DueDocs
  <2>2. Stale(c)' <=> Stale(c)
    BY <1>1 DEF Stale
  <2>3. CASE Waiting(c)
    BY <1>2, <2>1, <2>3, WorkerKeepsWaiting, DuePartsNext DEF SafetyInv
  <2>4. CASE Carried(w, c)
    BY <1>2, <2>1, <2>2, <2>4, WorkerKeepsCarrying, DuePartsNext DEF SafetyInv
  <2>5. ASSUME NEW v \in Workers \ {w}, Carried(v, c) PROVE FALSE
    <3>1. Carried(v, c)'
      BY <1>1, <2>1, <2>5, BystanderCarries DEF SafetyInv
    <3> QED
      BY <2>1, <3>1, DuePartsNext
  <2> QED
    BY <2>1, <2>3, <2>4, <2>5, DueParts
<1>3. \A c \in DueDocs \ DueDocs' : c \notin live \/ ~DocSync!Stale(c)
  BY <1>2 DEF Stale, DocSync!Stale
<1>4. DueDocs' \subseteq Channels
  BY DEF DueDocs
<1>5. DocSync!Plan
  BY <1>1, <1>3, <1>4 DEF DocSync!Plan
<1> QED
  BY <1>5 DEF DocSync!Next

LEMMA RefinesStutter == UNCHANGED vars => UNCHANGED DocSync!vars
<1> SUFFICES ASSUME UNCHANGED vars PROVE UNCHANGED DocSync!vars
  OBVIOUS
<1>1. UNCHANGED DueDocs
  BY DEF vars, envVars, dirtyVars, lookVars, localVars, DueDocs, Due, Pending,
     Computing, LookupOnWay, Covers
<1> QED
  BY <1>1 DEF vars, envVars, liveVars, DocSync!vars

(* Whatever its workers, queues, leases and retries do, the engine keeps   *)
(* the safety part of the promise to subscribers: they see only results    *)
(* the query had, in order, and a doc they watch is current or due         *)
(* (README.md:3-9, engine.go:1-8).                                         *)
THEOREM ImplementsPromise == Spec => Promise
<1>1. Init => DocSync!Init
  BY RefinesInit
<1>2. ASSUME SafetyInv, SafetyInv', [Next]_vars
      PROVE  [DocSync!Next]_(DocSync!vars)
  <2>1. CASE Outside
    BY <1>2, <2>1, RefinesOutside DEF SafetyInv
  <2>2. ASSUME NEW w \in Workers, Worker(w) PROVE DocSync!Next
    BY <1>2, <2>2, RefinesPublish, RefinesPlan DEF SafetyInv
  <2>3. CASE UNCHANGED vars
    BY <2>3, RefinesStutter
  <2> QED
    BY <1>2, <2>1, <2>2, <2>3 DEF Next, Outside
<1> QED
  BY <1>1, <1>2, SafetyInvariant, PTL DEF Spec, Promise, DocSync!Safety
=============================================================================
