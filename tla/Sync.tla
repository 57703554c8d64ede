-------------------------------- MODULE Sync --------------------------------
(***************************************************************************)
(* The agent as a whole: the WAL reader of Reader joined to an engine that *)
(* marks docs dirty, computes them and publishes them, across crashes.     *)
(* What survives a crash is the slot in Postgres and the docs foony        *)
(* retains; the live set, the dirty set and the work in hand do not.       *)
(*                                                                         *)
(* The engine is taken at the grain its own module justifies (Engine,      *)
(* EngineProofs): a set of docs on their way to a worker, and one          *)
(* computation of a doc at a time.                                         *)
(***************************************************************************)
EXTENDS Reader

CONSTANTS
  Docs,         \* the db: channels
  On            \* On[t]: docs each row change of t alters and derives

ASSUME DocsType ==
  /\ On \in [Txs -> SUBSET Docs]
  /\ IsFiniteSet(Txs)

VARIABLES
  live,         \* docs with subscriber interest, as this process knows it
  marked,       \* docs in the dirty set, or derived by a pending lookup
  result,       \* result[d]: what a worker has read and not published, or 0
  published     \* published[d]: version foony retains

docVars  == <<live, marked, result, published>>
syncVars == <<vars, docVars>>

(* The version of a doc's result: one for each transaction that altered it.*)
Version(d) == 1 + Cardinality({t \in Txs : Committed(t) /\ d \in On[t]})

MaxVersion == 1 + Cardinality(Txs)

SyncTypeOK ==
  /\ TypeOK
  /\ live \subseteq Docs
  /\ marked \subseteq Docs
  /\ result \in [Docs -> 0 .. MaxVersion]
  /\ published \in [Docs -> 0 .. MaxVersion]

SyncInit ==
  /\ Init
  /\ live = {} /\ marked = {}
  /\ result = [d \in Docs |-> 0]
  /\ published = [d \in Docs |-> 0]

-----------------------------------------------------------------------------
(* The reader's steps that reach the engine.                               *)

(* mutant: what the event names is marked, not the docs derived from it    *)
HandleEventRaw ==
  /\ Receive
  /\ marked' = marked \cup {wal[i].tx : i \in Events(Head(queue))}
  /\ UNCHANGED <<live, result, published>>

(* HandleEvent runs to its end before the loop notes the position.         *)
HandleEvent ==
  /\ Receive
  /\ marked' = marked \cup UNION {On[wal[i].tx] : i \in Events(Head(queue))}
  /\ UNCHANGED <<live, result, published>>

(* mutant: the startup poll fills the live set and computes nothing        *)
SyncLiveCold ==
  /\ StartupPoll
  /\ live' \in SUBSET Docs
  /\ UNCHANGED <<marked, result, published>>

(* SyncLive on an empty engine: whatever foony lists becomes live and dirty*)
SyncLiveAtStart ==
  /\ StartupPoll
  /\ live' \in SUBSET Docs
  /\ marked' = live'
  /\ UNCHANGED <<result, published>>

(* A publish under way reaches foony or does not.                          *)
Die ==
  /\ Crash
  /\ live' = {} /\ marked' = {}
  /\ result' = [d \in Docs |-> 0]
  /\ UNCHANGED published

ReaderAlone ==
  /\ \/ Database \/ Walsender
     \/ Connect \/ EnsureReplicationSlot \/ StartReplication
     \/ SendStandbyStatus \/ Disconnect
  /\ UNCHANGED docVars

-----------------------------------------------------------------------------
(* Interest.  The warm listener and the polls start after the startup poll.*)

(* mutant: only a doc that was live already is marked                      *)
WarmKnown(d) ==
  /\ phase # "boot"
  /\ live' = live \cup {d}
  /\ marked' = marked \cup ({d} \cap live)
  /\ UNCHANGED <<vars, result, published>>

(* A warm marks the doc whether it was live or not, a touch or a listing   *)
(* only when it was not.                                                   *)
Warm(d) ==
  /\ phase # "boot"
  /\ live' = live \cup {d}
  /\ marked' = marked \cup {d}
  /\ UNCHANGED <<vars, result, published>>

(* A complete poll finds the lease run out.                                *)
Expire(d) ==
  /\ d \in live
  /\ live' = live \ {d}
  /\ UNCHANGED <<vars, marked, result, published>>

-----------------------------------------------------------------------------
(* The workers.                                                            *)

(* Taken from the dirty set; a doc that is not live is dropped there.      *)
Drop(d) ==
  /\ d \in marked \ live
  /\ result[d] = 0
  /\ marked' = marked \ {d}
  /\ UNCHANGED <<vars, live, result, published>>

RunDoc(d) ==
  /\ d \in marked \cap live
  /\ result[d] = 0
  /\ marked' = marked \ {d}
  /\ result' = [result EXCEPT ![d] = Version(d)]
  /\ UNCHANGED <<vars, live, published>>

PublishDoc(d) ==
  /\ result[d] # 0
  /\ published' = [published EXCEPT ![d] = result[d]]
  /\ result' = [result EXCEPT ![d] = 0]
  /\ UNCHANGED <<vars, live, marked>>

(* mutant: a doc that failed is left for the next change                   *)
FailsForGood(d) ==
  /\ result[d] # 0
  /\ faults < MaxFaults /\ faults' = faults + 1
  /\ result' = [result EXCEPT ![d] = 0]
  /\ UNCHANGED <<serverVars, senderVars, queue, phase, clientVars, engineVars,
                 live, marked, published>>

(* The query or the publish fails, with or without effect: the doc is      *)
(* dirty again.                                                            *)
Fails(d) ==
  /\ result[d] # 0
  /\ faults < MaxFaults /\ faults' = faults + 1
  /\ \/ published' = [published EXCEPT ![d] = result[d]]
     \/ UNCHANGED published
  /\ marked' = marked \cup {d}
  /\ result' = [result EXCEPT ![d] = 0]
  /\ UNCHANGED <<serverVars, senderVars, queue, phase, clientVars, engineVars,
                 live>>

-----------------------------------------------------------------------------
Work(d) == Drop(d) \/ RunDoc(d) \/ PublishDoc(d)

SyncNext ==
  \/ ReaderAlone \/ HandleEvent \/ SyncLiveAtStart \/ Die
  \/ \E d \in Docs : Warm(d) \/ Expire(d) \/ Work(d) \/ Fails(d)

SyncSpec == SyncInit /\ [][SyncNext]_syncVars

(* What the process does between booting and streaming, a step at a time.  *)
Prepare ==
  \/ SyncLiveAtStart
  \/ (Connect \/ EnsureReplicationSlot \/ StartReplication) /\ UNCHANGED docVars

(* Fairness: Reader's, without the acknowledgements, and workers that go   *)
(* on; failures are bounded.                                               *)
SyncFairSpec ==
  /\ SyncSpec
  /\ WF_syncVars(Walsender /\ UNCHANGED docVars)
  /\ WF_syncVars(Prepare)
  /\ WF_syncVars(HandleEvent)
  /\ \A d \in Docs : WF_syncVars(Work(d))

-----------------------------------------------------------------------------
(* A transaction the slot will send again, or has not sent yet, and that   *)
(* this process has still to handle.                                       *)
OnItsWay(t) == Committed(t) /\ CommitLSN(t) > confirmed /\ ~Covered(t)

Due(d) ==
  \/ d \in marked
  \/ result[d] = Version(d)
  \/ \E t \in Txs : d \in On[t] /\ OnItsWay(t)

(* A doc that no transaction too large for the server's memory alters.     *)
Whole(d) == \A t \in Streamed : d \notin On[t]

WholeDocs == {d \in Docs : Whole(d)}
DueDocs   == {d \in WholeDocs : Due(d)}

Stale(d) == published[d] # Version(d)

(***************************************************************************)
(* From the row to the subscriber, no change is lost: a doc with           *)
(* subscribers whose copy is out of date is marked, is being published, or *)
(* has its change in a transaction the slot will still send.  The slot may *)
(* be acknowledged while the doc waits in memory only, because a process   *)
(* that dies then is followed by a startup poll (agent.go:72-80,           *)
(* reader.go:625-633).                                                     *)
(***************************************************************************)
NoLostChange == \A d \in live : Whole(d) /\ Stale(d) => Due(d)

(***************************************************************************)
(* A doc with subscribers becomes current, or loses them, through lost     *)
(* connections, crashes and failed calls (README.md:7-9).                  *)
(***************************************************************************)
EventuallyFresh ==
  \A d \in Docs :
    Whole(d) /\ d \in live /\ Stale(d) ~> d \notin live \/ ~Stale(d)

-----------------------------------------------------------------------------
(***************************************************************************)
(* The agent across its crashes implements the same abstract promise as    *)
(* the engine does within one process: a crash is the loss of all          *)
(* interest, and the startup poll its return.                              *)
(***************************************************************************)
Promised == INSTANCE DocSync WITH
  Channels <- WholeDocs,
  db <- [d \in WholeDocs |-> Version(d)],
  published <- [d \in WholeDocs |-> published[d]],
  live <- live \cap WholeDocs,
  due <- DueDocs

Promise == Promised!Safety
=============================================================================
