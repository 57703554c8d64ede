------------------------------- MODULE Leases -------------------------------
(***************************************************************************)
(* How the agent knows which docs have subscribers: signals that arrive    *)
(* over a realtime connection the warm listener keeps alive                *)
(* (src/internal/agent/warm.go), polls of foony's fleet that put right     *)
(* what the signals missed (runLivenessPolls, src/internal/agent/agent.go) *)
(* and the leases both leave in the engine's live set (SyncLive, Warm and  *)
(* Touch, src/internal/engine/engine.go).  What the engine does with a     *)
(* live doc is in Engine.                                                  *)
(*                                                                         *)
(* Foony and the realtime SDK are external.  Time is counted in poll       *)
(* intervals: a poll is over, by its client's timeout, long before the     *)
(* next is due.                                                            *)
(***************************************************************************)
EXTENDS Naturals

CONSTANTS
  Channels,     \* the db: channels
  TouchGrace,   \* touchGrace, in poll intervals
  MaxFaults     \* bound: polls that fail or see a part, drops, revocations

ASSUME ConstantsType ==
  /\ TouchGrace \in Nat \ {0}
  /\ MaxFaults \in Nat

VARIABLES
  watchers,     \* channels with subscribers, as foony's fleet sees them
  signals,      \* warms and touches on their way over the connection
  poll,         \* the liveness poll: see Polls
  live,         \* live[c]: age of the lease of c, or Cold
  known,        \* watched channels whose present interest the agent was told
  conn,         \* the SDK's connection: see Connections
  key,          \* whether foony accepts the agent key
  listener,     \* runWarmListener: see ListenerSteps
  failed,       \* its one-slot channel holds a token
  faults        \* faults so far

interestVars == <<watchers, signals>>
listenerVars == <<conn, key, listener, failed>>
vars == <<interestVars, poll, live, known, listenerVars, faults>>

Cold == TouchGrace + 1

Idle  == [step |-> "idle", list |-> {}, complete |-> FALSE]
Asked == [Idle EXCEPT !.step = "asked"]
Polls == {Idle, Asked} \cup
         [step : {"answered"}, list : SUBSET Channels, complete : BOOLEAN]

(* "dialing" includes what the SDK does by itself after a drop; "failed"   *)
(* is final until Connect is called again.                                 *)
Connections == {"off", "dialing", "up", "failed"}

ListenerSteps ==
  {"connect",   \* the top of the loop
   "connecting",\* Connect has been called
   "connected", \* it has returned nil
   "wait",      \* at the select
   "pause"}     \* failedRetryDelay

TypeOK ==
  /\ watchers \subseteq Channels
  /\ signals \subseteq Channels
  /\ poll \in Polls
  /\ live \in [Channels -> 0 .. Cold]
  /\ known \subseteq watchers
  /\ conn \in Connections
  /\ key \in BOOLEAN
  /\ listener \in ListenerSteps
  /\ failed \in BOOLEAN
  /\ faults \in 0 .. MaxFaults
  /\ conn = "off" => listener = "connect"

(* After the startup poll.                                                 *)
Init ==
  /\ watchers \in SUBSET Channels
  /\ signals = {}
  /\ poll = Idle
  /\ live \in [Channels -> {0, Cold}]
  /\ known = {c \in watchers : live[c] = 0}
  /\ conn = "off" /\ key = TRUE /\ listener = "connect" /\ failed = FALSE
  /\ faults = 0

Fault == faults < MaxFaults /\ faults' = faults + 1

NoFault == UNCHANGED faults

-----------------------------------------------------------------------------
(* Subscribers.  The edge signals each one that attaches, unless its rate  *)
(* limiter sheds the signal or the connection is not up.                   *)

Attach(c) ==
  /\ watchers' = watchers \cup {c}
  /\ \/ conn = "up" /\ signals' = signals \cup {c}
     \/ UNCHANGED signals
  /\ NoFault
  /\ UNCHANGED <<poll, live, known, listenerVars>>

Leave(c) ==
  /\ c \in watchers
  /\ watchers' = watchers \ {c}
  /\ known' = known \ {c}
  /\ NoFault
  /\ UNCHANGED <<signals, poll, live, listenerVars>>

(* Warm or Touch: either renews the lease.                                 *)
HandleSignal(c) ==
  /\ c \in signals
  /\ signals' = signals \ {c}
  /\ live' = [live EXCEPT ![c] = 0]
  /\ known' = known \cup ({c} \cap watchers)
  /\ NoFault
  /\ UNCHANGED <<watchers, poll, listenerVars>>

-----------------------------------------------------------------------------
(* runLivenessPolls and SyncLive.                                          *)

Older(age) == IF age < TouchGrace THEN age + 1 ELSE age

Tick ==
  /\ poll = Idle
  /\ live' = [c \in Channels |-> Older(live[c])]
  /\ poll' = Asked
  /\ NoFault
  /\ UNCHANGED <<interestVars, known, listenerVars>>

(* Foony lists what has subscribers now, or, incomplete, a part of it.     *)
Answer ==
  /\ poll = Asked
  /\ \E list \in SUBSET watchers, complete \in BOOLEAN :
       /\ poll' = [step |-> "answered", list |-> list, complete |-> complete]
       /\ IF complete THEN list = watchers /\ NoFault ELSE Fault
  /\ UNCHANGED <<interestVars, live, known, listenerVars>>

(* mutant: a poll that failed is taken for an answer that lists nothing    *)
PollFailsEmpty ==
  /\ poll = Asked
  /\ poll' = [step |-> "answered", list |-> {}, complete |-> TRUE]
  /\ Fault
  /\ UNCHANGED <<interestVars, live, known, listenerVars>>

(* A failed poll keeps the live set.                                       *)
PollFails ==
  /\ poll = Asked
  /\ poll' = Idle
  /\ Fault
  /\ UNCHANGED <<interestVars, live, known, listenerVars>>

(* mutant: no grace for what the list does not name                        *)
KeptUnsure(c) == ~poll.complete

(* mutant: what is kept gets a new lease, so it is kept the next time      *)
KeptAlways(c) == live[c] # Cold

(* A lease the list does not renew is kept while it is young, or while the *)
(* list may be lacking.                                                    *)
Kept(c) == ~poll.complete \/ live[c] < TouchGrace

(* mutant: a listing renews leases, and only a signal gives one            *)
SyncLiveRenews ==
  /\ poll.step = "answered"
  /\ live' = [c \in Channels |->
                IF c \in poll.list /\ live[c] # Cold THEN 0
                ELSE IF Kept(c) THEN live[c] ELSE Cold]
  /\ known' = {c \in known \cup (poll.list \cap watchers) : live'[c] # Cold}
  /\ poll' = Idle
  /\ NoFault
  /\ UNCHANGED <<interestVars, listenerVars>>

SyncLive ==
  /\ poll.step = "answered"
  /\ live' = [c \in Channels |->
                IF c \in poll.list THEN 0 ELSE IF Kept(c) THEN live[c] ELSE Cold]
  /\ known' = known \cup (poll.list \cap watchers)
  /\ poll' = Idle
  /\ NoFault
  /\ UNCHANGED <<interestVars, listenerVars>>

-----------------------------------------------------------------------------
(* The SDK's connection.                                                   *)

(* mutant: the failure is dropped unless the listener is at its select     *)
FailUnbuffered ==
  /\ conn \in {"dialing", "up"}
  /\ ~key
  /\ conn' = "failed"
  /\ failed' = (listener = "wait")
  /\ NoFault
  /\ UNCHANGED <<interestVars, poll, live, known, key, listener>>

(* A rejected key ends the connection; the callback leaves a token, or     *)
(* finds one there.                                                        *)
Fail ==
  /\ conn \in {"dialing", "up"}
  /\ ~key
  /\ conn' = "failed"
  /\ failed' = TRUE
  /\ NoFault
  /\ UNCHANGED <<interestVars, poll, live, known, key, listener>>

Establish ==
  /\ conn = "dialing"
  /\ key
  /\ conn' = "up"
  /\ NoFault
  /\ UNCHANGED <<interestVars, poll, live, known, key, listener, failed>>

(* Signals under way may go with the connection.                           *)
Drop ==
  /\ conn = "up"
  /\ conn' = "dialing"
  /\ signals' \in SUBSET signals
  /\ Fault
  /\ UNCHANGED <<watchers, poll, live, known, key, listener, failed>>

(* The key is revoked, or restored, on the dashboard.                      *)
ChangeKey ==
  /\ key' = ~key
  /\ IF key THEN Fault ELSE NoFault
  /\ UNCHANGED <<interestVars, poll, live, known, conn, listener, failed>>

-----------------------------------------------------------------------------
(* runWarmListener.                                                        *)

(* mutant: the SDK is expected to connect by itself the first time         *)
CallConnectLater ==
  /\ listener = "connect"
  /\ listener' = "connecting"
  /\ conn' = IF conn = "failed" THEN "dialing" ELSE conn
  /\ NoFault
  /\ UNCHANGED <<interestVars, poll, live, known, key, failed>>

CallConnect ==
  /\ listener = "connect"
  /\ listener' = "connecting"
  /\ conn' = IF conn \in {"off", "failed"} THEN "dialing" ELSE conn
  /\ NoFault
  /\ UNCHANGED <<interestVars, poll, live, known, key, failed>>

(* Connect returns: connected, or an error, final or not.                  *)
ConnectReturns ==
  /\ listener = "connecting"
  /\ \/ conn = "up" /\ listener' = "connected" /\ NoFault
     \/ conn = "failed" /\ listener' = "pause" /\ NoFault
     \/ conn = "dialing" /\ listener' = "pause" /\ Fault
  /\ UNCHANGED <<interestVars, poll, live, known, conn, key, failed>>

Select ==
  /\ listener = "connected"
  /\ listener' = "wait"
  /\ NoFault
  /\ UNCHANGED <<interestVars, poll, live, known, conn, key, failed>>

TakeFailure ==
  /\ listener = "wait"
  /\ failed
  /\ failed' = FALSE
  /\ listener' = "pause"
  /\ NoFault
  /\ UNCHANGED <<interestVars, poll, live, known, conn, key>>

PauseEnds ==
  /\ listener = "pause"
  /\ listener' = "connect"
  /\ NoFault
  /\ UNCHANGED <<interestVars, poll, live, known, conn, key, failed>>

-----------------------------------------------------------------------------
Subscribers == \E c \in Channels : Attach(c) \/ Leave(c)

Polling == Tick \/ Answer \/ PollFails \/ SyncLive

Connection == Establish \/ Fail

Listening ==
  CallConnect \/ ConnectReturns \/ Select \/ TakeFailure \/ PauseEnds

Next ==
  \/ Subscribers \/ Polling \/ Connection \/ Drop \/ ChangeKey \/ Listening
  \/ \E c \in Channels : HandleSignal(c)

Spec == Init /\ [][Next]_vars

(***************************************************************************)
(* Fairness: the ticker ticks and a poll ends, the SDK dials until it is   *)
(* connected or refused and delivers what it received, the listener goes   *)
(* on.  Nothing is assumed of subscribers or of the key.                   *)
(***************************************************************************)
FairSpec ==
  /\ Spec
  /\ WF_vars(Polling) /\ WF_vars(Connection) /\ WF_vars(Listening)
  /\ \A c \in Channels : WF_vars(HandleSignal(c))

-----------------------------------------------------------------------------
(***************************************************************************)
(* A subscriber the agent was told of, by a signal or a poll, is never     *)
(* dropped from the live set while it stays, whatever polls fail, see a    *)
(* part of the fleet, or were taken before it attached                     *)
(* (engine.go:26-30, 177-183).                                             *)
(***************************************************************************)
NotForgotten == \A c \in known : live[c] # Cold

(***************************************************************************)
(* A doc with subscribers ends up live for good, also when every one of    *)
(* its signals was shed or lost (agent.go:106-110).                        *)
(***************************************************************************)
EventuallyLive ==
  \A c \in Channels : <>[](c \in watchers) => <>[](live[c] # Cold)

(***************************************************************************)
(* A doc without subscribers ends up cold: it is not recomputed for ever   *)
(* (agent.go:107-109, engine.go:28-30).                                    *)
(***************************************************************************)
EventuallyCold ==
  \A c \in Channels : <>[](c \notin watchers) => <>[](live[c] = Cold)

(***************************************************************************)
(* A key that was revoked and restored gets the listener its connection    *)
(* back (warm.go:48-50).                                                   *)
(***************************************************************************)
ListensAgain == <>[]key => <>[](conn = "up")
=============================================================================
