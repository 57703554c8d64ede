-------------------------------- MODULE Agent --------------------------------
(***************************************************************************)
(* The runner around the engine (src/internal/agent/agent.go): the         *)
(* goroutine that keeps a replication stream alive, the one that sends     *)
(* heartbeats and holds the WAL safety valve, the goroutine that carries   *)
(* the valve's stop token to the reader, and the state they share under    *)
(* one mutex.  One action is one critical section of it, one call out, or  *)
(* one operation on a channel or context.                                  *)
(*                                                                         *)
(* Postgres is kept to the slot, the session that holds it, and whether    *)
(* the slot retains more WAL than the cap.  A session may outlive its      *)
(* client: the server learns of a lost, killed or abandoned connection     *)
(* some time later.  What the stream carries is in Reader.                 *)
(***************************************************************************)
EXTENDS Naturals

CONSTANTS
  CanInvalidate,  \* whether Postgres may invalidate the slot
  PauseSuffices,  \* whether the reader has returned when detach's sleep ends
  MaxFaults       \* bound: failed calls, lost connections and restarts

ASSUME ConstantsType ==
  /\ CanInvalidate \in BOOLEAN
  /\ PauseSuffices \in BOOLEAN
  /\ MaxFaults \in Nat

VARIABLES
  slot,         \* "none", "intact", or "lost": invalidated by Postgres
  session,      \* who holds the slot: see Sessions
  retained,     \* the slot retains more WAL than the cap
  reader,       \* the reader's goroutine: see ReaderSteps
  cancelled,    \* readerCtx has ended
  token,        \* the one-slot stopReader channel holds a token
  detached,     \* runner.detached
  state,        \* runner.state and runner.lastError
  beating,      \* the heartbeat goroutine: see BeatSteps
  over,         \* it measured a slotLag above the cap
  beat,         \* the state in the heartbeat it is sending
  dashboard,    \* the state in the last heartbeat foony received
  dropped,      \* this process has dropped its slot
  faults        \* faults so far

pgVars     == <<slot, session, retained>>
stopVars   == <<cancelled, token>>
runnerVars == <<detached, state>>
beatVars   == <<beating, over, beat, dashboard, dropped>>
vars == <<pgVars, reader, stopVars, runnerVars, beatVars, faults>>

(* "ours" is the reader's own; "stale" belongs to a connection whose       *)
(* client is gone.                                                         *)
Sessions == {"none", "ours", "stale"}

(* Run up to the reader, reader.start, and runReader after cdc.Run.        *)
ReaderSteps ==
  {"boot",      \* the startup liveness poll is still being answered
   "dead",      \* Run has returned an error
   "connect",   \* the top of the loop in start
   "setup",     \* connected, the slot not ensured
   "start",     \* startReplicationWithRetry
   "report",    \* streaming; a nil status to report
   "stream",    \* streamLoop
   "failed",    \* a step failed, ctx not looked at yet
   "tell",      \* an error to report
   "close",     \* closeConnection and the back-off
   "returned",  \* cdc.Run has returned
   "down"}      \* detached: waiting for the process to end

BeatSteps == {"tick", "measured", "stop", "drop", "report", "send"}

States == {"connected", "degraded", "detached"}

TypeOK ==
  /\ slot \in {"none", "intact", "lost"}
  /\ session \in Sessions
  /\ retained \in BOOLEAN
  /\ reader \in ReaderSteps
  /\ cancelled \in BOOLEAN /\ token \in BOOLEAN
  /\ detached \in BOOLEAN
  /\ state \in States \cup {"unset"}
  /\ beating \in BeatSteps
  /\ over \in BOOLEAN
  /\ beat \in States \cup {"unset"}
  /\ dashboard \in States \cup {"unset"}
  /\ dropped \in BOOLEAN
  /\ faults \in 0 .. MaxFaults
  /\ state = "unset" => reader \in {"boot", "dead"}

Init ==
  /\ slot \in {"none", "intact"}
  /\ session = "none"
  /\ retained = FALSE
  /\ reader = "boot"
  /\ cancelled = FALSE /\ token = FALSE
  /\ detached = FALSE
  /\ state = "unset"
  /\ beating = "tick"
  /\ over = FALSE
  /\ beat = "unset"
  /\ dashboard = "unset"
  /\ dropped = FALSE
  /\ faults = 0

Fault == faults < MaxFaults /\ faults' = faults + 1

NoFault == UNCHANGED faults

-----------------------------------------------------------------------------
(* Postgres.                                                               *)

(* A long transaction, or a reader that is away, holds WAL back.           *)
Retain ==
  /\ slot = "intact"
  /\ ~retained
  /\ retained' = TRUE
  /\ NoFault
  /\ UNCHANGED <<slot, session, reader, stopVars, runnerVars, beatVars>>

(* The reader's acknowledgements let it go.                                *)
Release ==
  /\ session = "ours"
  /\ retained
  /\ retained' = FALSE
  /\ NoFault
  /\ UNCHANGED <<slot, session, reader, stopVars, runnerVars, beatVars>>

(* max_slot_wal_keep_size: the slot stays, useless, and retains nothing.   *)
Invalidate ==
  /\ CanInvalidate
  /\ slot = "intact"
  /\ retained
  /\ slot' = "lost"
  /\ retained' = FALSE
  /\ session' = "none"
  /\ NoFault
  /\ UNCHANGED <<reader, stopVars, runnerVars, beatVars>>

(* The stream breaks; the server has not noticed, or ends the session.     *)
LoseConnection ==
  /\ session = "ours"
  /\ session' \in {"stale", "none"}
  /\ Fault
  /\ UNCHANGED <<slot, retained, reader, stopVars, runnerVars, beatVars>>

(* wal_sender_timeout, or the closed socket is seen.                       *)
NoticeGone ==
  /\ session = "stale"
  /\ session' = "none"
  /\ NoFault
  /\ UNCHANGED <<slot, retained, reader, stopVars, runnerVars, beatVars>>

(* What becomes of the reader's session when the reader leaves it.         *)
LeaveSession == session' = IF session = "ours" THEN "stale" ELSE session

-----------------------------------------------------------------------------
(* Run: the liveness poll is retried until it succeeds or is refused, then *)
(* the goroutines start and runReader sets the first state.                *)

(* mutant: the first state is left to the first status *)
StartSilently ==
  /\ reader = "boot"
  /\ reader' = "connect"
  /\ NoFault
  /\ UNCHANGED <<pgVars, stopVars, runnerVars, beatVars>>

Start ==
  /\ reader = "boot"
  /\ reader' = "connect"
  /\ state' = "connected"
  /\ NoFault
  /\ UNCHANGED <<pgVars, stopVars, detached, beatVars>>

(* A 4xx: the key is bad or deleted.                                       *)
PollRefused ==
  /\ reader = "boot"
  /\ reader' = "dead"
  /\ Fault
  /\ UNCHANGED <<pgVars, stopVars, runnerVars, beatVars>>

(* The process ends, by a signal or a crash, and is started again.         *)
Restart ==
  /\ reader # "boot"
  /\ Fault
  /\ LeaveSession
  /\ reader' = "boot"
  /\ cancelled' = FALSE /\ token' = FALSE
  /\ detached' = FALSE /\ state' = "unset"
  /\ beating' = "tick" /\ over' = FALSE /\ beat' = "unset"
  /\ dropped' = FALSE
  /\ UNCHANGED <<slot, retained, dashboard>>

-----------------------------------------------------------------------------
(* reader.start.  A call made with an ended context fails.                 *)

Step(from, to) == reader = from /\ reader' = to

Connect ==
  /\ Step("connect", "setup")
  /\ ~cancelled
  /\ NoFault
  /\ UNCHANGED <<pgVars, stopVars, runnerVars, beatVars>>

(* mutant: a slot that is not there is not created *)
ExpectReplicationSlot ==
  /\ Step("setup", "start")
  /\ ~cancelled
  /\ NoFault
  /\ UNCHANGED <<pgVars, stopVars, runnerVars, beatVars>>

EnsureReplicationSlot ==
  /\ Step("setup", "start")
  /\ ~cancelled
  /\ slot' = IF slot = "none" THEN "intact" ELSE slot
  /\ NoFault
  /\ UNCHANGED <<session, retained, stopVars, runnerVars, beatVars>>

StartReplication ==
  /\ Step("start", "report")
  /\ ~cancelled
  /\ slot = "intact"
  /\ session = "none"
  /\ session' = "ours"
  /\ NoFault
  /\ UNCHANGED <<slot, retained, stopVars, runnerVars, beatVars>>

(* Half a minute of retries has found the slot busy, invalidated or gone.  *)
StartTimesOut ==
  /\ Step("start", "failed")
  /\ slot # "intact" \/ session # "none"
  /\ NoFault
  /\ UNCHANGED <<pgVars, stopVars, runnerVars, beatVars>>

(* Any call of the setup fails; with an ended context all of them do.      *)
SetupFails ==
  /\ \/ cancelled /\ NoFault
     \/ ~cancelled /\ Fault
  /\ \/ Step("connect", "failed") /\ ~cancelled
     \/ Step("setup", "failed")
     \/ Step("start", "failed")
  /\ UNCHANGED <<pgVars, stopVars, runnerVars, beatVars>>

(* Only the answer is lost, or the context ends while the call is under    *)
(* way: the slot has been created, or a session started that no one reads. *)
AnswerLost ==
  /\ \/ /\ Step("setup", "failed")
        /\ ~cancelled /\ Fault
        /\ slot = "none" /\ slot' = "intact"
        /\ UNCHANGED session
     \/ /\ Step("start", "failed")
        /\ \/ cancelled /\ NoFault
           \/ ~cancelled /\ Fault
        /\ slot = "intact" /\ session = "none" /\ session' = "stale"
        /\ UNCHANGED slot
  /\ UNCHANGED <<retained, stopVars, runnerVars, beatVars>>

(* The top of the loop sees the ended context; so does a connect under way *)
(* when it ends, by way of a failure that is not told.                     *)
ReturnAtTop ==
  /\ Step("connect", "returned")
  /\ cancelled
  /\ NoFault
  /\ UNCHANGED <<pgVars, stopVars, runnerVars, beatVars>>

(* streamLoop returns because the session broke.                           *)
StreamBreaks ==
  /\ Step("stream", "failed")
  /\ session # "ours"
  /\ ~cancelled
  /\ NoFault
  /\ UNCHANGED <<pgVars, stopVars, runnerVars, beatVars>>

(* streamLoop returns because of the context: start returns at once and    *)
(* leaves the connection as it is (reader.go:170-173).                     *)
StreamCancelled ==
  /\ Step("stream", "returned")
  /\ cancelled
  /\ LeaveSession
  /\ NoFault
  /\ UNCHANGED <<slot, retained, stopVars, runnerVars, beatVars>>

(* reportStatus: an error is told unless the context has ended by now.     *)
ReportStatus ==
  /\ \/ Step("failed", "tell") /\ ~cancelled
     \/ Step("failed", "close") /\ cancelled
  /\ NoFault
  /\ UNCHANGED <<pgVars, stopVars, runnerVars, beatVars>>

(* mutant: a late status overwrites the safety valve's message *)
SetErrorUnguarded ==
  /\ Step("tell", "close")
  /\ state' = "degraded"
  /\ NoFault
  /\ UNCHANGED <<pgVars, stopVars, detached, beatVars>>

SetError ==
  /\ Step("tell", "close")
  /\ state' = IF detached THEN state ELSE "degraded"
  /\ NoFault
  /\ UNCHANGED <<pgVars, stopVars, detached, beatVars>>

(* mutant: streaming again does not clear the error *)
KeepError ==
  /\ Step("report", "stream")
  /\ NoFault
  /\ UNCHANGED <<pgVars, stopVars, runnerVars, beatVars>>

ClearError ==
  /\ Step("report", "stream")
  /\ state' = IF detached THEN state ELSE "connected"
  /\ NoFault
  /\ UNCHANGED <<pgVars, stopVars, detached, beatVars>>

CloseConnection ==
  /\ Step("close", "connect")
  /\ LeaveSession
  /\ NoFault
  /\ UNCHANGED <<slot, retained, stopVars, runnerVars, beatVars>>

-----------------------------------------------------------------------------
(* runReader's loop and the goroutine that ends the reader's context.      *)

CancelReader ==
  /\ token
  /\ reader \notin {"boot", "dead", "returned", "down"}
  /\ ~cancelled
  /\ token' = FALSE
  /\ cancelled' = TRUE
  /\ NoFault
  /\ UNCHANGED <<pgVars, reader, runnerVars, beatVars>>

(* mutant: the loop does not ask whether the agent is detached *)
RunAgainAlways ==
  /\ Step("returned", "connect")
  /\ cancelled' = FALSE
  /\ NoFault
  /\ UNCHANGED <<pgVars, token, runnerVars, beatVars>>

(* Detached, the loop waits for the process to end; otherwise it runs the  *)
(* reader again with a context of its own.                                 *)
RunAgain ==
  /\ Step("returned", IF detached THEN "down" ELSE "connect")
  /\ cancelled' = (cancelled /\ detached)
  /\ NoFault
  /\ UNCHANGED <<pgVars, token, runnerVars, beatVars>>

-----------------------------------------------------------------------------
(* runHeartbeats.  Its first tick comes half a minute after runReader has  *)
(* set the first state.                                                    *)

Up == reader \notin {"boot", "dead"}

BeatStep(from, to) == Up /\ beating = from /\ beating' = to

Measure ==
  /\ BeatStep("tick", "measured")
  /\ \/ over' = retained /\ NoFault
     \/ over' = FALSE /\ Fault
  /\ UNCHANGED <<pgVars, reader, stopVars, runnerVars, beat, dashboard, dropped>>

UnderCap ==
  /\ BeatStep("measured", "report")
  /\ ~over \/ detached
  /\ NoFault
  /\ UNCHANGED <<pgVars, reader, stopVars, runnerVars, over, beat, dashboard,
                 dropped>>

(* mutant: the valve only reports *)
DetachOnlyReports ==
  /\ BeatStep("measured", "report")
  /\ over /\ ~detached
  /\ state' = "detached"
  /\ NoFault
  /\ UNCHANGED <<pgVars, reader, stopVars, detached, over, beat, dashboard,
                 dropped>>

Detach ==
  /\ BeatStep("measured", "stop")
  /\ over /\ ~detached
  /\ detached' = TRUE
  /\ state' = "detached"
  /\ NoFault
  /\ UNCHANGED <<pgVars, reader, stopVars, over, beat, dashboard, dropped>>

StopReader ==
  /\ BeatStep("stop", "drop")
  /\ token' = TRUE
  /\ NoFault
  /\ UNCHANGED <<pgVars, reader, cancelled, runnerVars, over, beat, dashboard,
                 dropped>>

(* The two seconds' sleep is long enough for the token to be taken; with   *)
(* PauseSuffices also for the reader to return.                            *)
Slept ==
  /\ ~token
  /\ PauseSuffices => reader \in {"returned", "down"}

DropSlot ==
  /\ BeatStep("drop", "report")
  /\ Slept
  /\ slot # "none" /\ session = "none"
  /\ slot' = "none"
  /\ retained' = FALSE
  /\ dropped' = TRUE
  /\ over' = FALSE
  /\ NoFault
  /\ UNCHANGED <<session, reader, stopVars, runnerVars, beat, dashboard>>

(* The slot is in use, or not there, or the call fails: logged, no more.   *)
DropFails ==
  /\ BeatStep("drop", "report")
  /\ Slept
  /\ \/ (slot = "none" \/ session # "none") /\ NoFault
     \/ Fault
  /\ over' = FALSE
  /\ UNCHANGED <<pgVars, reader, stopVars, runnerVars, beat, dashboard, dropped>>

Snapshot ==
  /\ BeatStep("report", "send")
  /\ beat' = state
  /\ NoFault
  /\ UNCHANGED <<pgVars, reader, stopVars, runnerVars, over, dashboard, dropped>>

(* It arrives, and its answer may be lost; or it is lost.                  *)
SendHeartbeat ==
  /\ BeatStep("send", "tick")
  /\ \/ dashboard' = beat /\ NoFault
     \/ UNCHANGED dashboard /\ Fault
  /\ over' = FALSE /\ beat' = "unset"
  /\ UNCHANGED <<pgVars, reader, stopVars, runnerVars, dropped>>

-----------------------------------------------------------------------------
Postgres == Retain \/ Release \/ Invalidate \/ LoseConnection \/ NoticeGone

Reading ==
  \/ Connect \/ EnsureReplicationSlot \/ StartReplication \/ StartTimesOut
  \/ SetupFails \/ AnswerLost \/ ReturnAtTop \/ StreamBreaks
  \/ StreamCancelled \/ ReportStatus \/ SetError \/ ClearError
  \/ CloseConnection \/ RunAgain

Beating ==
  \/ Measure \/ UnderCap \/ Detach \/ StopReader \/ DropSlot \/ DropFails
  \/ Snapshot \/ SendHeartbeat

Process == Start \/ PollRefused \/ Restart

Next == Postgres \/ Process \/ Reading \/ CancelReader \/ Beating

Spec == Init /\ [][Next]_vars

(***************************************************************************)
(* Fairness: the goroutines run, foony answers the startup poll, and the   *)
(* server learns of a dead connection (wal_sender_timeout).  Faults are    *)
(* bounded, so they end.  Nothing is assumed of what the slot retains.     *)
(***************************************************************************)
FairSpec ==
  /\ Spec
  /\ WF_vars(Start \/ PollRefused)
  /\ WF_vars(Reading)
  /\ WF_vars(CancelReader)
  /\ WF_vars(Beating)
  /\ WF_vars(NoticeGone)

-----------------------------------------------------------------------------
Healthy == session = "ours"

(***************************************************************************)
(* "Detached is terminal until restart" (agent.go:316-317): however the    *)
(* reader's reports, the heartbeats and the stop interleave, the state to  *)
(* report stays the safety valve's, and a slot the agent dropped is not    *)
(* created again by its own reader.                                        *)
(***************************************************************************)
DetachedIsTerminal ==
  /\ detached => state = "detached"
  /\ dropped => detached /\ slot = "none"

(***************************************************************************)
(* Heartbeats tell the truth in the end (cdc/reader.go:73-78, agent.go:    *)
(* 192-195, 324-325): a stream that stays up is shown as connected, and    *)
(* one that stays down, in setup, on an invalidated slot or detached, is   *)
(* not.                                                                    *)
(***************************************************************************)
HealthIsShown ==
  /\ <>[]Healthy => <>[](dashboard = "connected")
  /\ <>[](~Healthy /\ Up) => <>[](dashboard # "connected")

(***************************************************************************)
(* The stream comes back after every fault and restart, a stale session on *)
(* the slot included, unless the agent is detached or the slot lost        *)
(* (reader.go:106-108, 553-583).                                           *)
(***************************************************************************)
StreamsAgain ==
  []<>Healthy \/ <>[](detached \/ slot = "lost" \/ reader = "dead")

(***************************************************************************)
(* The safety valve fires (agent.go:231-234): a slot that stays over the   *)
(* cap gets the agent detached and its reader stopped for good.            *)
(***************************************************************************)
ValveFires ==
  <>[](slot = "intact" /\ retained /\ Up) =>
    <>[](detached /\ ~Healthy /\ reader = "down")

(***************************************************************************)
(* "The replication slot was dropped" (agent.go:292), "rather than risk    *)
(* filling the database's disk" (README.md:84-85): what the dashboard      *)
(* shows of a detached source is so.                                       *)
(***************************************************************************)
DetachedHasNoSlot == dashboard = "detached" ~> slot = "none"
=============================================================================
