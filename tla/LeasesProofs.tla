---------------------------- MODULE LeasesProofs ----------------------------
(***************************************************************************)
(* Proofs about Leases, for any channels, any grace of at least one poll   *)
(* interval and any number of faults.                                      *)
(***************************************************************************)
EXTENDS Leases, TLAPS

USE DEF interestVars, listenerVars, NoFault

-----------------------------------------------------------------------------
LEMMA GraceType == TouchGrace \in Nat /\ TouchGrace >= 1 /\ MaxFaults \in Nat
BY ConstantsType DEF ConstantsType

LEMMA FaultsCounted ==
  ASSUME TypeOK, Fault \/ UNCHANGED faults PROVE faults' \in 0 .. MaxFaults
BY GraceType DEF TypeOK, Fault

LEMMA TypeInit == Init => TypeOK
<1> SUFFICES ASSUME Init PROVE TypeOK
  OBVIOUS
<1>1. faults \in 0 .. MaxFaults /\ live \in [Channels -> 0 .. Cold]
  BY GraceType DEF Init, Cold
<1>2. known \subseteq watchers /\ poll \in Polls
  BY DEF Init, Polls
<1> QED
  BY <1>1, <1>2, Zenon DEF Init, TypeOK, Connections, ListenerSteps

LEMMA TypeSubscribers ==
  ASSUME TypeOK, NEW c \in Channels, Attach(c) \/ Leave(c) \/ HandleSignal(c)
  PROVE  TypeOK'
<1>1. UNCHANGED <<poll, listenerVars, faults>>
  BY DEF Attach, Leave, HandleSignal
<1>2. /\ watchers' \subseteq Channels /\ signals' \subseteq Channels
      /\ known' \subseteq watchers'
  BY DEF TypeOK, Attach, Leave, HandleSignal
<1>3. live' \in [Channels -> 0 .. Cold]
  BY GraceType DEF TypeOK, Cold, Attach, Leave, HandleSignal
<1> QED
  BY <1>1, <1>2, <1>3 DEF TypeOK

LEMMA TypePolling == ASSUME TypeOK, Polling PROVE TypeOK'
<1>1. UNCHANGED <<interestVars, listenerVars>>
  BY DEF Polling, Tick, Answer, PollFails, SyncLive
<1>2. faults' \in 0 .. MaxFaults
  BY FaultsCounted DEF Polling, Tick, Answer, PollFails, SyncLive
<1>3. poll' \in Polls
  BY DEF Polling, Tick, Answer, PollFails, SyncLive, Polls, TypeOK
<1>4. known' \subseteq watchers'
  BY DEF Polling, Tick, Answer, PollFails, SyncLive, TypeOK
<1>5. live' \in [Channels -> 0 .. Cold]
  BY GraceType DEF Polling, Tick, Answer, PollFails, SyncLive, TypeOK, Older, Cold
<1> QED
  BY <1>1, <1>2, <1>3, <1>4, <1>5 DEF TypeOK

LEMMA TypeListening ==
  ASSUME TypeOK, Connection \/ Drop \/ ChangeKey \/ Listening PROVE TypeOK'
<1> USE DEF Connection, Establish, Fail, Listening, CallConnect,
        ConnectReturns, Select, TakeFailure, PauseEnds, Drop, ChangeKey
<1>1. UNCHANGED <<watchers, poll, live, known>>
  OBVIOUS
<1>2. faults' \in 0 .. MaxFaults
  BY FaultsCounted
<1>3. signals' \subseteq Channels
  BY DEF TypeOK
<1>4. conn' \in Connections /\ listener' \in ListenerSteps
  BY DEF TypeOK, Connections, ListenerSteps
<1>5. key' \in BOOLEAN /\ failed' \in BOOLEAN
  BY DEF TypeOK
<1>6. conn' = "off" => listener' = "connect"
  BY DEF TypeOK
<1> QED
  BY <1>1, <1>2, <1>3, <1>4, <1>5, <1>6 DEF TypeOK

(* Every variable keeps its type: what the agent was told of is watched,   *)
(* and the connection is off only before the first Connect (warm.go:67).   *)
THEOREM TypeCorrect == Spec => []TypeOK
<1>1. TypeOK /\ [Next]_vars => TypeOK'
  <2> SUFFICES ASSUME TypeOK, [Next]_vars PROVE TypeOK'
    OBVIOUS
  <2>1. CASE UNCHANGED vars
    BY <2>1 DEF TypeOK, vars
  <2> QED
    BY <2>1, TypeSubscribers, TypePolling, TypeListening DEF Next, Subscribers
<1> QED
  BY <1>1, TypeInit, PTL DEF Spec

-----------------------------------------------------------------------------
(***************************************************************************)
(* A complete list may lack a doc the agent was told of only when the      *)
(* telling came after the list was made, so that the lease is fresh: the   *)
(* next tick waits for the poll to end.                                    *)
(***************************************************************************)
ListedOrFresh ==
  poll.step = "answered" /\ poll.complete =>
    \A c \in known : c \in poll.list \/ live[c] = 0

LEMMA ForgetInit == Init => NotForgotten /\ ListedOrFresh
BY GraceType DEF Init, NotForgotten, ListedOrFresh, Idle, Cold

LEMMA ForgetStep ==
  TypeOK /\ NotForgotten /\ ListedOrFresh /\ [Next]_vars
    => (NotForgotten /\ ListedOrFresh)'
<1> SUFFICES ASSUME TypeOK, NotForgotten, ListedOrFresh, [Next]_vars
    PROVE  NotForgotten' /\ ListedOrFresh'
  OBVIOUS
<1> USE DEF NotForgotten, ListedOrFresh
<1>1. CASE UNCHANGED vars \/ Connection \/ Drop \/ ChangeKey \/ Listening
  BY <1>1 DEF vars, Connection, Establish, Fail, Listening, CallConnect,
     ConnectReturns, Select, TakeFailure, PauseEnds, Drop, ChangeKey
<1>2. ASSUME NEW c \in Channels, Attach(c) \/ Leave(c)
      PROVE  NotForgotten' /\ ListedOrFresh'
  BY <1>2 DEF Attach, Leave
<1>3. ASSUME NEW c \in Channels, HandleSignal(c)
      PROVE  NotForgotten' /\ ListedOrFresh'
  <2>1. /\ live' = [live EXCEPT ![c] = 0] /\ live'[c] = 0
        /\ known' \subseteq known \cup {c} /\ poll' = poll
    BY <1>3 DEF HandleSignal, TypeOK
  <2> QED
    BY <2>1, GraceType DEF Cold, TypeOK
<1>4. CASE Tick
  <2>1. /\ poll' = Asked /\ known' = known
        /\ \A c \in Channels : live'[c] = Older(live[c])
    BY <1>4 DEF Tick
  <2>2. \A c \in known : live'[c] # Cold
    BY <2>1, GraceType DEF Older, Cold, TypeOK
  <2> QED
    BY <2>1, <2>2 DEF Asked, Idle
<1>5. CASE Answer
  BY <1>5 DEF Answer, TypeOK
<1>6. CASE PollFails
  BY <1>6 DEF PollFails, Idle
<1>7. CASE SyncLive
  <2>1. /\ poll' = Idle /\ known' \subseteq known \cup poll.list
        /\ poll.step = "answered"
        /\ \A c \in Channels :
             live'[c] = IF c \in poll.list THEN 0
                        ELSE IF Kept(c) THEN live[c] ELSE Cold
    BY <1>7 DEF SyncLive
  <2>2. ASSUME NEW c \in known' PROVE live'[c] # Cold
    <3>1. c \in Channels
      BY <1>7 DEF SyncLive, TypeOK
    <3>2. CASE c \in poll.list
      BY <2>1, <3>1, <3>2, GraceType DEF Cold
    <3>3. CASE c \notin poll.list
      <4>1. c \in known /\ live[c] # Cold
        BY <2>1, <2>2, <3>3
      <4>2. Kept(c)
        BY <2>1, <3>3, <4>1, GraceType DEF Kept
      <4> QED
        BY <2>1, <3>1, <3>3, <4>1, <4>2
    <3> QED
      BY <3>2, <3>3
  <2> QED
    BY <2>1, <2>2 DEF Idle
<1> QED
  BY <1>1, <1>2, <1>3, <1>4, <1>5, <1>6, <1>7 DEF Next, Subscribers, Polling

(* No poll, however old or partial, drops a subscriber the agent was told  *)
(* of (engine.go:26-30, 177-183).                                          *)
THEOREM NoneForgotten == Spec => []NotForgotten
BY TypeCorrect, ForgetInit, ForgetStep, PTL DEF Spec
=============================================================================
