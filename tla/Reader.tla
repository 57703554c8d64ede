------------------------------- MODULE Reader -------------------------------
(***************************************************************************)
(* The WAL reader (src/internal/cdc): one replication connection at a      *)
(* time, the pgoutput decoder, the position acknowledged to the slot, and  *)
(* reconnection; with the start of the process around it (agent.Run: the   *)
(* liveness poll first, the reader last).                                  *)
(*                                                                         *)
(* Postgres is outside the repository and kept to what the reader relies   *)
(* on.  The WAL is a sequence of records; a transaction is sent when its   *)
(* commit record is read, except that one too large for the server's       *)
(* memory is streamed in chunks before that (streaming 'true').  A slot    *)
(* remembers the acknowledged position, and a new session sends every      *)
(* transaction that commits after it.  A position is the number of records *)
(* before it.                                                              *)
(***************************************************************************)
EXTENDS Naturals, Sequences, FiniteSets

CONSTANTS
  Txs,            \* transactions on watched tables
  Streamed,       \* those Postgres may stream before they end
  Aborting,       \* those that may abort
  SlotAtStart,    \* whether the slot exists when the agent first starts
  MaxChanges,     \* bound: MaxChanges[t] row changes of t
  MaxQueue,       \* bound: the sender reads on while no more are in flight
  MaxFaults       \* bound: lost connections, failed setups and crashes

ASSUME ConstantsType ==
  /\ Streamed \subseteq Txs
  /\ Aborting \subseteq Txs
  /\ SlotAtStart \in BOOLEAN
  /\ MaxChanges \in [Txs -> Nat \ {0}]
  /\ MaxQueue \in Nat
  /\ MaxFaults \in Nat

VARIABLES
  wal,          \* the log: row changes, commits and aborts
  slot,         \* whether the replication slot exists
  confirmed,    \* its confirmed_flush_lsn (0 while there is no slot)
  decoded,      \* walsender: records read in this session
  flushed,      \* walsender: changes streamed in this session
  queue,        \* messages sent and not yet received
  phase,        \* the process: see Phases
  clientLSN,    \* reader.clientLSN; before, the position to start from
  inStream,     \* the decoder's only state that can go wrong
  current,      \* changes this process handled after their commit
  refreshed,    \* position of the log when this process marked every live doc
  faults        \* faults so far

serverVars == <<wal, slot, confirmed>>
senderVars == <<decoded, flushed>>
clientVars == <<clientLSN, inStream>>
engineVars == <<current, refreshed>>
vars == <<serverVars, senderVars, queue, phase, clientVars, engineVars, faults>>

(* "boot" ends with the startup poll; "down" waits to connect; "setup" has *)
(* a connection; "starting" has a slot as well; "streaming" is streamLoop. *)
Phases == {"boot", "down", "setup", "starting", "streaming"}

Kinds == {"change", "commit", "abort"}

Record    == [tx : Txs, kind : Kinds]
Positions == 0 .. Len(wal)

Message ==
  {m \in
     [kind : {"change", "commit", "abort", "streamStart", "streamStop",
              "keepalive"},
      at     : Positions,     \* the change's record, 0 for the other kinds
      lsn    : Positions,     \* WALStart, or ServerWALEnd of a keepalive
      framed : BOOLEAN] :     \* sent inside a stream: carries an extra Xid
   m.kind = "change" <=> m.at # 0}

TypeOK ==
  /\ wal \in Seq(Record)
  /\ slot \in BOOLEAN
  /\ confirmed \in Positions
  /\ decoded \in Positions
  /\ flushed \subseteq Positions
  /\ queue \in Seq(Message)
  /\ phase \in Phases
  /\ clientLSN \in Positions
  /\ inStream \in BOOLEAN
  /\ current \subseteq Positions
  /\ refreshed \in Positions
  /\ faults \in 0 .. MaxFaults

Init ==
  /\ wal = <<>>
  /\ slot = SlotAtStart
  /\ confirmed = 0
  /\ decoded = 0 /\ flushed = {}
  /\ queue = <<>>
  /\ phase = "boot"
  /\ clientLSN = 0
  /\ inStream = FALSE
  /\ current = {} /\ refreshed = 0
  /\ faults = 0

-----------------------------------------------------------------------------
(* The log.                                                                *)

RecordsOf(t, kind) ==
  {i \in 1 .. Len(wal) : wal[i] = [tx |-> t, kind |-> kind]}

Logged(t, kind) == \E i \in 1 .. Len(wal) : wal[i] = [tx |-> t, kind |-> kind]

Changes(t)   == RecordsOf(t, "change")
Committed(t) == Logged(t, "commit")
Ended(t)     == Committed(t) \/ Logged(t, "abort")
CommitLSN(t) == CHOOSE i \in RecordsOf(t, "commit") : TRUE

Log(t, kind) ==
  /\ ~Ended(t)
  /\ wal' = Append(wal, [tx |-> t, kind |-> kind])
  /\ UNCHANGED <<slot, confirmed, senderVars, queue, phase, clientVars,
                 engineVars, faults>>

ChangeRow(t) == Cardinality(Changes(t)) < MaxChanges[t] /\ Log(t, "change")
End(t) ==
  /\ Changes(t) # {}
  /\ Log(t, "commit") \/ (t \in Aborting /\ Log(t, "abort"))

-----------------------------------------------------------------------------
(***************************************************************************)
(* The walsender.  It reads the log in order.  A change's message carries  *)
(* the start of its record, a commit's the end of its own.                 *)
(***************************************************************************)
Msg(kind, at, lsn, framed) ==
  [kind |-> kind, at |-> at, lsn |-> lsn, framed |-> framed]

InLogOrder(S) ==
  CHOOSE s \in [1 .. Cardinality(S) -> S] :
    \A m, n \in DOMAIN s : m < n => s[m] < s[n]

ChangeMsgs(S, framed) ==
  [n \in 1 .. Cardinality(S) |->
     Msg("change", InLogOrder(S)[n], InLogOrder(S)[n] - 1, framed)]

Chunk(S, lsn) ==
  IF S = {} THEN <<>>
  ELSE <<Msg("streamStart", 0, 0, FALSE)>> \o ChangeMsgs(S, TRUE)
       \o <<Msg("streamStop", 0, lsn, FALSE)>>

Pos == decoded + 1

Reads(t, kind) ==
  /\ phase = "streaming"
  /\ decoded < Len(wal)
  /\ Len(queue) <= MaxQueue
  /\ wal[Pos] = [tx |-> t, kind |-> kind]
  /\ decoded' = Pos
  /\ UNCHANGED <<serverVars, phase, clientVars, engineVars, faults>>

(* What the sender has read of t and not sent in this session.             *)
Unsent(t) == {i \in Changes(t) : i <= Pos} \ flushed

ReadChange(t) ==
  /\ Reads(t, "change")
  /\ \/ UNCHANGED <<flushed, queue>>
     \/ /\ t \in Streamed
        /\ queue' = queue \o Chunk(Unsent(t), decoded)
        /\ flushed' = flushed \cup Unsent(t)

SendWhole(t) ==
  /\ flushed \cap Changes(t) = {}
  /\ Reads(t, "commit")
  /\ queue' = queue \o ChangeMsgs(Changes(t), FALSE)
                    \o <<Msg("commit", 0, Pos, FALSE)>>
  /\ UNCHANGED flushed

StreamRest(t) ==
  /\ flushed \cap Changes(t) # {}
  /\ Reads(t, "commit")
  /\ queue' = queue \o Chunk(Unsent(t), decoded)
                    \o <<Msg("commit", 0, Pos, FALSE)>>
  /\ flushed' = flushed \cup Changes(t)

ReadAbort(t) ==
  /\ Reads(t, "abort")
  /\ queue' = IF flushed \cap Changes(t) = {} THEN queue
              ELSE Append(queue, Msg("abort", 0, Pos, FALSE))
  /\ UNCHANGED flushed

(* Sent when the sender has nothing else to send; useless ones left out.   *)
Keepalive ==
  /\ phase = "streaming"
  /\ queue = <<>>
  /\ clientLSN < decoded
  /\ queue' = <<Msg("keepalive", 0, decoded, FALSE)>>
  /\ UNCHANGED <<serverVars, senderVars, phase, clientVars, engineVars, faults>>

-----------------------------------------------------------------------------
(* The process: agent.Run up to the reader, then reader.start.             *)

(* The startup poll marks every live doc dirty, before there is a reader.  *)
StartupPoll ==
  /\ phase = "boot"
  /\ phase' = "down"
  /\ refreshed' = Len(wal)
  /\ UNCHANGED <<serverVars, senderVars, queue, clientVars, current, faults>>

(* mutant: the decoder outlives the connection *)
ConnectOldDecoder ==
  /\ phase = "down"
  /\ phase' = "setup"
  /\ UNCHANGED <<serverVars, senderVars, queue, clientVars, engineVars, faults>>

Connect ==
  /\ phase = "down"
  /\ phase' = "setup"
  /\ inStream' = FALSE
  /\ UNCHANGED <<serverVars, senderVars, queue, clientLSN, engineVars,
                 faults>>

(* mutant: the session starts from IdentifySystem's position *)
SlotFromSystem ==
  /\ phase = "setup"
  /\ phase' = "starting"
  /\ clientLSN' = Len(wal)
  /\ slot' = TRUE
  /\ confirmed' = IF slot THEN confirmed ELSE Len(wal)
  /\ UNCHANGED <<wal, senderVars, queue, inStream, engineVars, faults>>

(* An existing slot resumes where it was acknowledged; a new one starts    *)
(* where the log is now.                                                   *)
EnsureReplicationSlot ==
  /\ phase = "setup"
  /\ phase' = "starting"
  /\ confirmed' = IF slot THEN confirmed ELSE Len(wal)
  /\ clientLSN' = confirmed'
  /\ slot' = TRUE
  /\ UNCHANGED <<wal, senderVars, queue, inStream, engineVars, faults>>

StartReplication ==
  /\ phase = "starting"
  /\ phase' = "streaming"
  /\ decoded' = clientLSN /\ flushed' = {}
  /\ UNCHANGED <<serverVars, queue, clientVars, engineVars, faults>>

(***************************************************************************)
(* Inside a stream every Relation and change message carries an Xid, which *)
(* ParseV2 reads when inStream is set.  Parsed with the wrong idea of it,  *)
(* a change names a relation the decoder does not know and is passed over. *)
(***************************************************************************)
Events(m) ==
  IF m.kind = "change" /\ m.framed = inStream THEN {m.at} ELSE {}

InStreamAfter(m) ==
  \/ m.kind = "streamStart"
  \/ m.kind # "streamStop" /\ inStream

(* mutant: only data moves the position to acknowledge *)
AdvanceOnData(m) ==
  IF m.kind # "keepalive" /\ m.lsn > clientLSN THEN m.lsn ELSE clientLSN

(* mutant: the position after the last byte is acknowledged *)
AdvancePast(m) == IF m.lsn >= clientLSN THEN m.lsn + 1 ELSE clientLSN

Advance(m) ==
  IF m.lsn > clientLSN THEN m.lsn ELSE clientLSN

(* One turn of streamLoop: decode, hand the event over, then note the LSN. *)
Receive ==
  /\ phase = "streaming"
  /\ queue # <<>>
  /\ LET m == Head(queue)
     IN /\ inStream' = InStreamAfter(m)
        /\ current' = current \cup {i \in Events(m) : Committed(wal[i].tx)}
        /\ clientLSN' = Advance(m)
  /\ queue' = Tail(queue)
  /\ UNCHANGED <<serverVars, senderVars, phase, refreshed, faults>>

(* The standby status at the top of the loop, after its deadline.          *)
SendStandbyStatus ==
  /\ phase = "streaming"
  /\ confirmed < clientLSN
  /\ confirmed' = clientLSN
  /\ UNCHANGED <<wal, slot, senderVars, queue, phase, clientVars, engineVars,
                 faults>>

(* The walsender exits and what is in flight is gone.                      *)
NoSession ==
  /\ queue' = <<>>
  /\ decoded' = 0 /\ flushed' = {}

(* A setup step or the stream fails: the connection is closed and the loop *)
(* starts over after a pause.                                              *)
Disconnect ==
  /\ phase \in {"setup", "starting", "streaming"}
  /\ faults < MaxFaults
  /\ faults' = faults + 1
  /\ phase' = "down"
  /\ NoSession
  /\ clientLSN' = 0     \* never read before it is set again
  /\ UNCHANGED <<serverVars, inStream, engineVars>>

(* The process dies and is restarted: the slot is all that survives.       *)
Crash ==
  /\ phase # "boot"
  /\ faults < MaxFaults
  /\ faults' = faults + 1
  /\ phase' = "boot"
  /\ NoSession
  /\ current' = {}
  /\ refreshed' = 0
  /\ clientLSN' = 0
  /\ inStream' = FALSE
  /\ UNCHANGED serverVars

-----------------------------------------------------------------------------
Database == \E t \in Txs : ChangeRow(t) \/ End(t)

Walsender ==
  \/ \E t \in Txs : ReadChange(t) \/ SendWhole(t) \/ StreamRest(t) \/ ReadAbort(t)
  \/ Keepalive

Setup == StartupPoll \/ Connect \/ EnsureReplicationSlot \/ StartReplication

StreamLoop == Receive \/ SendStandbyStatus

Fault == Disconnect \/ Crash

Next == Database \/ Walsender \/ Setup \/ StreamLoop \/ Fault

Spec == Init /\ [][Next]_vars

(***************************************************************************)
(* Fairness: the server reads its log and the reader's goroutine runs, its *)
(* deadline for a standby status passing again and again whether messages  *)
(* arrive or not.  Faults are bounded, so they end.                        *)
(***************************************************************************)
FairSpec ==
  /\ Spec
  /\ WF_vars(Walsender)
  /\ WF_vars(Setup)
  /\ WF_vars(Receive)
  /\ WF_vars(SendStandbyStatus)

-----------------------------------------------------------------------------
(* The docs a committed transaction changes will be recomputed: marked by  *)
(* the startup poll, or by each of its events handled once it had          *)
(* committed.                                                              *)
Covered(t) == CommitLSN(t) <= refreshed \/ Changes(t) \subseteq current

Acked(t) == Committed(t) /\ CommitLSN(t) <= confirmed

(***************************************************************************)
(* What the slot will not send again has reached the engine.  For a        *)
(* transaction sent at its commit: however often the connection or the     *)
(* process dies, whatever the interleaving of transactions in the log, an  *)
(* acknowledged change was handled by the running process or came before   *)
(* its startup poll (reader.go:625-633, agent.go:159-164).                 *)
(***************************************************************************)
AckedIsCovered ==
  phase # "boot" => \A t \in Txs \ Streamed : Acked(t) => Covered(t)

(***************************************************************************)
(* The same, for every transaction and every start of the agent: docs      *)
(* follow "every time the underlying rows change" (README.md:8-9), and the *)
(* startup poll "lets docs converge after a WAL safety-valve detach +      *)
(* restart" (engine.go:189-190), which is a start without a slot.          *)
(***************************************************************************)
EveryChangeCounts ==
  phase # "boot" => \A t \in Txs : Acked(t) => Covered(t)

(***************************************************************************)
(* A committed transaction reaches the engine in the end, whatever broke   *)
(* on the way (reader.go:106-108, the loop auto-reconnects).               *)
(***************************************************************************)
EventuallyCovered ==
  \A t \in Txs \ Streamed :
    Committed(t) ~> phase # "boot" /\ Committed(t) /\ Covered(t)

(***************************************************************************)
(* Once the log stops growing all of it is acknowledged, what holds no     *)
(* change of interest included: the slot does not retain WAL behind an     *)
(* idle reader (agent.go:159-161, decoder.go:27-28).  The log of an        *)
(* instance is bounded.                                                    *)
(***************************************************************************)
WalIsReleased == <>[](slot /\ confirmed = Len(wal))
=============================================================================
