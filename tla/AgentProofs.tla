----------------------------- MODULE AgentProofs ----------------------------
(***************************************************************************)
(* Proofs about Agent, for any number of faults, whether or not Postgres   *)
(* invalidates slots, and however long detach sleeps beyond what Slept     *)
(* asks for.                                                               *)
(***************************************************************************)
EXTENDS Agent, TLAPS

-----------------------------------------------------------------------------
LEMMA TypeInit == Init => TypeOK
<1> SUFFICES ASSUME Init PROVE TypeOK
  OBVIOUS
<1>1. faults \in 0 .. MaxFaults
  BY ConstantsType DEF ConstantsType, Init
<1> QED
  BY <1>1, Zenon DEF Init, TypeOK, Sessions, ReaderSteps, BeatSteps, States

(* What an action does to the number of faults keeps it within its bound.  *)
LEMMA FaultsCounted ==
  ASSUME TypeOK, Fault \/ NoFault PROVE faults' \in 0 .. MaxFaults
<1>1. faults \in Nat /\ faults <= MaxFaults /\ MaxFaults \in Nat
  BY ConstantsType DEF ConstantsType, TypeOK
<1>2. CASE Fault
  <2>1. faults < MaxFaults /\ faults' = faults + 1
    BY <1>2 DEF Fault
  <2> QED
    BY <1>1, <2>1
<1>3. CASE NoFault
  BY <1>1, <1>3 DEF NoFault
<1> QED
  BY <1>2, <1>3

LEMMA TypePostgres ==
  ASSUME TypeOK, Postgres PROVE TypeOK'
<1>1. faults' \in 0 .. MaxFaults
  <2>1. Fault \/ NoFault
    BY DEF Postgres, Retain, Release, Invalidate, LoseConnection, NoticeGone
  <2> QED
    BY <2>1, FaultsCounted
<1>2. /\ slot' \in {"none", "intact", "lost"}
      /\ session' \in Sessions
      /\ retained' \in BOOLEAN
  BY DEF Postgres, Retain, Release, Invalidate, LoseConnection, NoticeGone,
         TypeOK, Sessions
<1>3. UNCHANGED <<reader, stopVars, runnerVars, beatVars>>
  BY DEF Postgres, Retain, Release, Invalidate, LoseConnection, NoticeGone
<1> QED
  BY <1>1, <1>2, <1>3 DEF TypeOK, stopVars, runnerVars, beatVars

LEMMA TypeProcess ==
  ASSUME TypeOK, Process PROVE TypeOK'
<1> USE DEF TypeOK, pgVars, runnerVars, stopVars, beatVars,
        LeaveSession, Sessions, ReaderSteps, BeatSteps, States
<1>1. CASE Start
  BY <1>1, FaultsCounted DEF Start
<1>2. CASE PollRefused
  BY <1>2, FaultsCounted DEF PollRefused
<1>3. CASE Restart
  BY <1>3, FaultsCounted DEF Restart
<1> QED
  BY <1>1, <1>2, <1>3 DEF Process

LEMMA TypeReading ==
  ASSUME TypeOK, Reading \/ CancelReader PROVE TypeOK'
<1> USE DEF TypeOK, pgVars, runnerVars, stopVars, beatVars,
        LeaveSession, Step, Sessions, ReaderSteps, States
<1>1. CASE Connect
  BY <1>1, FaultsCounted DEF Connect
<1>2. CASE EnsureReplicationSlot
  BY <1>2, FaultsCounted DEF EnsureReplicationSlot
<1>3. CASE StartReplication
  BY <1>3, FaultsCounted DEF StartReplication
<1>4. CASE StartTimesOut
  BY <1>4, FaultsCounted DEF StartTimesOut
<1>5. CASE SetupFails
  BY <1>5, FaultsCounted DEF SetupFails
<1>6. CASE ReturnAtTop
  BY <1>6, FaultsCounted DEF ReturnAtTop
<1>7. CASE StreamBreaks
  BY <1>7, FaultsCounted DEF StreamBreaks
<1>8. CASE StreamCancelled
  BY <1>8, FaultsCounted DEF StreamCancelled
<1>9. CASE ReportStatus
  BY <1>9, FaultsCounted DEF ReportStatus
<1>10. CASE SetError
  BY <1>10, FaultsCounted DEF SetError
<1>11. CASE ClearError
  BY <1>11, FaultsCounted DEF ClearError
<1>12. CASE CloseConnection
  BY <1>12, FaultsCounted DEF CloseConnection
<1>13. CASE RunAgain
  BY <1>13, FaultsCounted DEF RunAgain
<1>14. CASE AnswerLost
  <2>1. faults' \in 0 .. MaxFaults
    BY <1>14, FaultsCounted DEF AnswerLost
  <2>2. slot' \in {"none", "intact", "lost"} /\ session' \in Sessions
    BY <1>14 DEF AnswerLost
  <2>3. reader \in {"setup", "start"} /\ reader' = "failed"
    BY <1>14 DEF AnswerLost
  <2>4. UNCHANGED <<retained, stopVars, runnerVars, beatVars>>
    BY <1>14 DEF AnswerLost
  <2> QED
    BY <2>1, <2>2, <2>3, <2>4
<1>15. CASE CancelReader
  <2>1. faults' \in 0 .. MaxFaults
    BY <1>15, FaultsCounted DEF CancelReader
  <2>2. cancelled' \in BOOLEAN /\ token' \in BOOLEAN
    BY <1>15 DEF CancelReader
  <2>3. UNCHANGED <<slot, session, retained, reader, detached, state, beating,
                    over, beat, dashboard, dropped>>
    BY <1>15 DEF CancelReader, beatVars
  <2> QED
    BY <2>1, <2>2, <2>3
<1> QED
  BY <1>1, <1>2, <1>3, <1>4, <1>5, <1>6, <1>7, <1>8, <1>9, <1>10, <1>11,
     <1>12, <1>13, <1>14, <1>15 DEF Reading

LEMMA TypeBeating ==
  ASSUME TypeOK, Beating PROVE TypeOK'
<1> USE DEF TypeOK, pgVars, runnerVars, stopVars, BeatStep,
        BeatSteps, States, Up
<1>1. CASE Measure
  <2>1. faults' \in 0 .. MaxFaults
    BY <1>1, FaultsCounted DEF Measure
  <2>2. over' \in BOOLEAN
    BY <1>1 DEF Measure
  <2> QED
    BY <1>1, <2>1, <2>2 DEF Measure
<1>2. CASE UnderCap
  BY <1>2, FaultsCounted DEF UnderCap
<1>3. CASE Detach
  BY <1>3, FaultsCounted DEF Detach
<1>4. CASE StopReader
  BY <1>4, FaultsCounted DEF StopReader
<1>5. CASE DropSlot
  BY <1>5, FaultsCounted DEF DropSlot
<1>6. CASE DropFails
  <2>1. faults' \in 0 .. MaxFaults
    BY <1>6, FaultsCounted DEF DropFails
  <2>2. over' \in BOOLEAN
    BY <1>6 DEF DropFails
  <2> QED
    BY <1>6, <2>1, <2>2 DEF DropFails
<1>7. CASE Snapshot
  BY <1>7, FaultsCounted DEF Snapshot
<1>8. CASE SendHeartbeat
  <2>1. faults' \in 0 .. MaxFaults
    BY <1>8, FaultsCounted DEF SendHeartbeat
  <2>2. dashboard' \in States \cup {"unset"} /\ over' \in BOOLEAN /\ beat' = "unset"
    BY <1>8 DEF SendHeartbeat
  <2>3. beating' = "tick"
    BY <1>8 DEF SendHeartbeat
  <2>4. UNCHANGED <<pgVars, reader, stopVars, runnerVars, dropped>>
    BY <1>8 DEF SendHeartbeat
  <2> QED
    BY <2>1, <2>2, <2>3, <2>4
<1> QED
  BY <1>1, <1>2, <1>3, <1>4, <1>5, <1>6, <1>7, <1>8 DEF Beating

(* Every variable keeps its type, and a process that has got as far as its *)
(* reader has a state for its heartbeats to report (agent.go:146-157,      *)
(* 165-169).                                                               *)
THEOREM TypeCorrect == Spec => []TypeOK
<1>1. TypeOK /\ [Next]_vars => TypeOK'
  <2> SUFFICES ASSUME TypeOK, [Next]_vars PROVE TypeOK'
    OBVIOUS
  <2>1. CASE UNCHANGED vars
    BY <2>1 DEF TypeOK, vars, pgVars, stopVars, runnerVars, beatVars
  <2> QED
    BY <2>1, TypePostgres, TypeProcess, TypeReading, TypeBeating DEF Next
<1> QED
  BY <1>1, TypeInit, PTL DEF Spec

-----------------------------------------------------------------------------
(***************************************************************************)
(* Why detached is terminal.  The flag is raised together with the state,  *)
(* only in a process that is up, and before the stop token is sent.  When  *)
(* the slot is dropped the token has been taken, so the reader's context   *)
(* has ended, and since runReader asks for the flag before it makes a new  *)
(* context, it stays ended: every call that could create the slot fails.   *)
(***************************************************************************)
FlagWithState == detached => state = "detached" /\ Up

StopAfterFlag ==
  /\ beating \in {"stop", "drop"} => detached
  /\ beating = "drop" => token \/ cancelled

DropAfterStop == dropped => detached /\ cancelled /\ slot = "none"

TerminalInv == TypeOK /\ FlagWithState /\ StopAfterFlag /\ DropAfterStop

LEMMA TerminalInit == Init => TerminalInv
<1> SUFFICES ASSUME Init PROVE TerminalInv
  OBVIOUS
<1> QED
  BY TypeInit DEF Init, TerminalInv, FlagWithState, StopAfterFlag, DropAfterStop

LEMMA TerminalPostgres ==
  ASSUME TerminalInv, Postgres
  PROVE  FlagWithState' /\ StopAfterFlag' /\ DropAfterStop'
<1> USE DEF TerminalInv, FlagWithState, StopAfterFlag, DropAfterStop, Up,
        runnerVars, stopVars, beatVars
<1>1. CASE Invalidate
  BY <1>1 DEF Invalidate
<1>2. CASE Retain \/ Release \/ LoseConnection \/ NoticeGone
  BY <1>2 DEF Retain, Release, LoseConnection, NoticeGone
<1> QED
  BY <1>1, <1>2 DEF Postgres

LEMMA TerminalProcess ==
  ASSUME TerminalInv, Process
  PROVE  FlagWithState' /\ StopAfterFlag' /\ DropAfterStop'
<1> USE DEF TerminalInv, FlagWithState, StopAfterFlag, DropAfterStop, Up,
        pgVars, runnerVars, stopVars, beatVars
<1>1. CASE Start
  BY <1>1 DEF Start
<1>2. CASE PollRefused
  BY <1>2 DEF PollRefused
<1>3. CASE Restart
  BY <1>3 DEF Restart
<1> QED
  BY <1>1, <1>2, <1>3 DEF Process

LEMMA TerminalReading ==
  ASSUME TerminalInv, Reading \/ CancelReader
  PROVE  FlagWithState' /\ StopAfterFlag' /\ DropAfterStop'
<1> USE DEF TerminalInv, FlagWithState, StopAfterFlag, DropAfterStop, Up, Step,
        pgVars, runnerVars, stopVars, beatVars
<1>1. CASE SetError \/ ClearError
  BY <1>1 DEF SetError, ClearError
<1>2. CASE EnsureReplicationSlot
  BY <1>2 DEF EnsureReplicationSlot
<1>3. CASE RunAgain
  BY <1>3 DEF RunAgain, TypeOK
<1>4. CASE CancelReader
  BY <1>4 DEF CancelReader
<1>5. CASE AnswerLost
  BY <1>5 DEF AnswerLost
<1>6. CASE \/ Connect \/ StartReplication \/ StartTimesOut \/ SetupFails
           \/ ReturnAtTop \/ StreamBreaks \/ StreamCancelled \/ ReportStatus
           \/ CloseConnection
  BY <1>6 DEF Connect, StartReplication, StartTimesOut, SetupFails,
     ReturnAtTop, StreamBreaks, StreamCancelled, ReportStatus, CloseConnection
<1> QED
  BY <1>1, <1>2, <1>3, <1>4, <1>5, <1>6 DEF Reading

LEMMA TerminalBeating ==
  ASSUME TerminalInv, Beating
  PROVE  FlagWithState' /\ StopAfterFlag' /\ DropAfterStop'
<1> USE DEF TerminalInv, FlagWithState, StopAfterFlag, DropAfterStop, Up,
        BeatStep, pgVars, runnerVars, stopVars
<1>1. CASE Detach
  BY <1>1 DEF Detach
<1>2. CASE StopReader
  BY <1>2 DEF StopReader
<1>3. CASE DropSlot
  BY <1>3 DEF DropSlot, Slept
<1>4. CASE Measure \/ UnderCap \/ DropFails \/ Snapshot \/ SendHeartbeat
  BY <1>4 DEF Measure, UnderCap, DropFails, Snapshot, SendHeartbeat
<1> QED
  BY <1>1, <1>2, <1>3, <1>4 DEF Beating

LEMMA TerminalStep == TerminalInv /\ TypeOK' /\ [Next]_vars => TerminalInv'
<1> SUFFICES ASSUME TerminalInv, TypeOK', [Next]_vars PROVE TerminalInv'
  OBVIOUS
<1>1. CASE UNCHANGED vars
  BY <1>1 DEF TerminalInv, FlagWithState, StopAfterFlag, DropAfterStop, Up,
     vars, pgVars, stopVars, runnerVars, beatVars
<1>2. CASE Next
  BY <1>2, TerminalPostgres, TerminalProcess, TerminalReading, TerminalBeating
     DEF Next, TerminalInv
<1> QED
  BY <1>1, <1>2

(* However the reader's late reports, the heartbeats and the stop          *)
(* interleave, a detached agent keeps the safety valve's message, and a    *)
(* slot it dropped is not created again before a restart (agent.go:        *)
(* 285-304, 312-334).                                                      *)
THEOREM DetachedStays == Spec => []DetachedIsTerminal
<1>1. TerminalInv => DetachedIsTerminal
  BY DEF TerminalInv, FlagWithState, DropAfterStop, DetachedIsTerminal
<1> QED
  BY <1>1, TerminalInit, TerminalStep, TypeCorrect, PTL DEF Spec
=============================================================================
