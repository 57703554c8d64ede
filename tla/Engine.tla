------------------------------- MODULE Engine -------------------------------
(***************************************************************************)
(* The recompute engine (src/internal/engine/engine.go): the dirty set,    *)
(* the in-flight marks, the pending reverse-index lookups, the live set    *)
(* with its leases, and the workers that drain them.  One action is one    *)
(* critical section of engine.mutex or one call to the customer database   *)
(* or to foony; everything between two of those is local to a goroutine.   *)
(*                                                                         *)
(* What surrounds the engine is kept to what it can observe: rows change   *)
(* (db), the replication stream delivers one event per change in order     *)
(* (stream), foony retains the last published doc (published).  The        *)
(* liveness polls list any channels at any time.  A doc is the version of  *)
(* its query's result: 0 is "never published".                             *)
(***************************************************************************)
EXTENDS Naturals, Sequences, FiniteSets

CONSTANTS
  Workers,      \* the refetch goroutines (workerCount = 2)
  Channels,     \* the db: channels that parseChannel accepts
  Lookups,      \* dedup keys of keysSql runs: (query, keysSql, args)
  Events,       \* row changes
  Direct,       \* Direct[e]: docs HandleEvent marks straight from the row
  Reverse,      \* Reverse[e]: lookups HandleEvent enqueues for the row
  Affects,      \* Affects[e]: docs whose query result the change alters
  Fanout,       \* Fanout[k]: docs the reverse index of lookup k returns
  QueryDocs,    \* QueryDocs[k]: all docs of the query lookup k belongs to
  MaxKeys,      \* MaxKeys[k]: the watch's cap on the fan-out
  Listings,     \* the sets of channels a liveness poll may list
  Poison,       \* docs and lookups that fail every time (empty: none does)
  TouchGrace,   \* touchGrace, in ticks
  CanCancel,    \* whether the context given to Start may end
  MaxVersion,   \* bound: a doc's result changes fewer than this many times
  MaxStream,    \* bound: undelivered events
  NONE          \* no job

(***************************************************************************)
(* The configuration the engine is given.  A watch set covers a change     *)
(* when every doc the change alters is marked directly or returned by an   *)
(* enqueued reverse index: this is what the author of the definitions owes *)
(* the engine (spec.go, Watch), and nothing in the engine can replace it.  *)
(***************************************************************************)
ASSUME ConstantsType ==
  /\ Channels \cap Lookups = {}
  /\ NONE \notin Channels \cup Lookups
  /\ Direct \in [Events -> SUBSET Channels]
  /\ Reverse \in [Events -> SUBSET Lookups]
  /\ Affects \in [Events -> SUBSET Channels]
  /\ Fanout \in [Lookups -> SUBSET Channels]
  /\ QueryDocs \in [Lookups -> SUBSET Channels]
  /\ MaxKeys \in [Lookups -> Nat]
  /\ Listings \subseteq SUBSET Channels
  /\ Poison \subseteq Channels \cup Lookups
  /\ TouchGrace \in Nat \ {0}
  /\ CanCancel \in BOOLEAN
  /\ MaxVersion \in Nat \ {0}
  /\ MaxStream \in Nat

ASSUME WatchesCover ==
  \A e \in Events :
    Affects[e] \subseteq Direct[e] \cup UNION {Fanout[k] : k \in Reverse[e]}

ASSUME FanoutOfQuery == \A k \in Lookups : Fanout[k] \subseteq QueryDocs[k]

VARIABLES
  db,             \* db[c]: version of c's query result now
  stream,         \* events committed and not yet given to HandleEvent
  published,      \* published[c]: version foony retains for c
  handling,       \* marks the current HandleEvent call has still to make
  dirty, inflight, lookups, lookupInflight,
  live,           \* channels with subscriber interest
  age,            \* age[c]: ticks since live[c] was last renewed
  wake,           \* whether the one-slot wake channel holds a token
  pc, job, doc, fan,    \* worker locals: step, unit, result, keys to mark
  cancelled       \* the context has ended

envVars   == <<db, stream, published>>
dirtyVars == <<dirty, inflight>>
lookVars  == <<lookups, lookupInflight>>
liveVars  == <<live, age>>
localVars == <<job, doc, fan>>
vars == <<envVars, handling, dirtyVars, lookVars, liveVars, wake, pc,
          localVars, cancelled>>

Version == 0 .. MaxVersion

(***************************************************************************)
(* A worker's steps.  "scan", "drain" and "select" are the three parts of  *)
(* the loop in runWorker; "parked" is the select with the goroutine        *)
(* already on the channel's receive queue.                                 *)
(***************************************************************************)
DocSteps    == {"query", "publish", "retry", "finish"}
LookupSteps == {"keys", "fanout", "requeue"}
FreeSteps   == {"scan", "drain", "select", "parked", "exited"}
Steps       == DocSteps \cup LookupSteps \cup FreeSteps

TypeOK ==
  /\ db \in [Channels -> Version]
  /\ stream \in Seq(Events)
  /\ published \in [Channels -> Version]
  /\ handling \subseteq Channels \cup Lookups
  /\ dirty \subseteq Channels
  /\ inflight \subseteq Channels
  /\ lookups \subseteq Lookups
  /\ lookupInflight \subseteq Lookups
  /\ live \subseteq Channels
  /\ age \in [Channels -> 0 .. TouchGrace]
  /\ wake \in BOOLEAN
  /\ pc \in [Workers -> Steps]
  /\ job \in [Workers -> Channels \cup Lookups \cup {NONE}]
  /\ doc \in [Workers -> Version]
  /\ fan \in [Workers -> SUBSET Channels]
  /\ cancelled \in BOOLEAN
  /\ \A w \in Workers :
       /\ pc[w] \in DocSteps => job[w] \in Channels
       /\ pc[w] \in LookupSteps => job[w] \in Lookups

(* New, then Start: every map is empty and the workers enter their loops.  *)
(* What foony retained from an earlier process is any older version.       *)
Init ==
  /\ db = [c \in Channels |-> 1]
  /\ stream = <<>>
  /\ published \in [Channels -> 0 .. 1]
  /\ handling = {}
  /\ dirty = {} /\ inflight = {} /\ lookups = {} /\ lookupInflight = {}
  /\ live = {}
  /\ age = [c \in Channels |-> 0]
  /\ wake = FALSE
  /\ pc = [w \in Workers |-> "scan"]
  /\ job = [w \in Workers |-> NONE]
  /\ doc = [w \in Workers |-> 0]
  /\ fan = [w \in Workers |-> {}]
  /\ cancelled = FALSE

-----------------------------------------------------------------------------
(***************************************************************************)
(* signal(): a non-blocking send on a channel of capacity one.  A parked   *)
(* receiver is handed the token and runs; otherwise the slot is filled,    *)
(* and a token that finds it full is dropped.  pcs is the step function    *)
(* after the caller's own move.                                            *)
(***************************************************************************)
Parked(pcs) == {w \in Workers : pcs[w] = "parked"}

(* mutant: the wake channel has no buffer *)
SignalUnbuffered(pcs) ==
  /\ IF Parked(pcs) = {} THEN pc' = pcs
     ELSE \E w \in Parked(pcs) : pc' = [pcs EXCEPT ![w] = "scan"]
  /\ UNCHANGED wake

Signal(pcs) ==
  \/ /\ \E w \in Parked(pcs) : pc' = [pcs EXCEPT ![w] = "scan"]
     /\ UNCHANGED wake
  \/ /\ Parked(pcs) = {}
     /\ pc' = pcs
     /\ wake' = TRUE

Quiet(pcs) == pc' = pcs /\ UNCHANGED wake

SignalIf(cond, pcs) == IF cond THEN Signal(pcs) ELSE Quiet(pcs)

Goto(w, step) == [pc EXCEPT ![w] = step]

-----------------------------------------------------------------------------
(* The environment: a transaction commits and its change enters the        *)
(* replication stream; time passes; the context ends.                      *)

Commit(e) ==
  /\ Len(stream) < MaxStream
  /\ \A c \in Affects[e] : db[c] < MaxVersion
  /\ db' = [c \in Channels |-> IF c \in Affects[e] THEN db[c] + 1 ELSE db[c]]
  /\ stream' = Append(stream, e)
  /\ UNCHANGED <<published, handling, dirtyVars, lookVars, liveVars, wake, pc,
                 localVars, cancelled>>

(* Only the difference to touchGrace matters, so an age stops there.       *)
Tick ==
  /\ \E c \in live : age[c] < TouchGrace
  /\ age' = [c \in Channels |-> IF c \in live /\ age[c] < TouchGrace
                                THEN age[c] + 1 ELSE age[c]]
  /\ UNCHANGED <<envVars, handling, dirtyVars, lookVars, live, wake, pc,
                 localVars, cancelled>>

(* Closing ctx.Done() wakes every goroutine parked in the select at once.  *)
Cancel ==
  /\ CanCancel
  /\ ~cancelled
  /\ cancelled' = TRUE
  /\ pc' = [w \in Workers |-> IF pc[w] = "parked" THEN "exited" ELSE pc[w]]
  /\ UNCHANGED <<envVars, handling, dirtyVars, lookVars, liveVars, wake,
                 localVars>>

-----------------------------------------------------------------------------
(* Interest: Warm, Touch and SyncLive.                                     *)

Renew(S) == [c \in Channels |-> IF c \in S THEN 0 ELSE age[c]]

Warm(c) ==
  /\ live' = live \cup {c}
  /\ age' = Renew({c})
  /\ dirty' = dirty \cup {c}
  /\ Signal(pc)
  /\ UNCHANGED <<envVars, handling, inflight, lookVars, localVars, cancelled>>

(* mutant: a doc that becomes live is not recomputed *)
MissedNothing(S) == {}

(* A channel that was not live may have skipped changes while cold.        *)
MissedChanges(S) == S \ live

Touch(c) ==
  /\ live' = live \cup {c}
  /\ age' = Renew({c})
  /\ dirty' = dirty \cup MissedChanges({c})
  /\ SignalIf(MissedChanges({c}) # {}, pc)
  /\ UNCHANGED <<envVars, handling, inflight, lookVars, localVars, cancelled>>

(* What a poll leaves of the live set before the listed channels are added *)
Kept(complete) ==
  IF complete THEN {c \in live : age[c] < TouchGrace} ELSE live

SyncLive(listed, complete) ==
  /\ live' = Kept(complete) \cup listed
  /\ age' = [c \in Channels |-> IF c \in listed \/ c \notin live' THEN 0
                                ELSE age[c]]
  /\ dirty' = dirty \cup MissedChanges(listed)
  /\ SignalIf(MissedChanges(listed) # {}, pc)
  /\ UNCHANGED <<envVars, handling, inflight, lookVars, localVars, cancelled>>

-----------------------------------------------------------------------------
(* The replication reader's goroutine: HandleEvent takes the next change   *)
(* and marks what its watches derive, one critical section per mark.  The  *)
(* order of the watches is left open.                                      *)

HandleEvent ==
  /\ handling = {}
  /\ stream # <<>>
  /\ handling' = Direct[Head(stream)] \cup Reverse[Head(stream)]
  /\ stream' = Tail(stream)
  /\ UNCHANGED <<db, published, dirtyVars, lookVars, liveVars, wake, pc,
                 localVars, cancelled>>

MarkFromRow(c) ==
  /\ c \in handling
  /\ handling' = handling \ {c}
  /\ dirty' = dirty \cup {c}
  /\ Signal(pc)
  /\ UNCHANGED <<envVars, inflight, lookVars, liveVars, localVars, cancelled>>

(* mutant: a keysSql watch marks its row like a column mapping *)
EnqueueAsDoc(k) ==
  /\ k \in handling
  /\ handling' = handling \ {k}
  /\ dirty' = dirty \cup {k}
  /\ Signal(pc)
  /\ UNCHANGED <<envVars, inflight, lookVars, liveVars, localVars, cancelled>>

EnqueueLookup(k) ==
  /\ k \in handling
  /\ handling' = handling \ {k}
  /\ lookups' = lookups \cup {k}
  /\ Signal(pc)
  /\ UNCHANGED <<envVars, dirtyVars, lookupInflight, liveVars, localVars,
                 cancelled>>

-----------------------------------------------------------------------------
(***************************************************************************)
(* A worker: reverse-index lookups first, then docs, then sleep.  Go       *)
(* iterates a map in random order, so any eligible entry may be taken, and *)
(* any set of cold entries may have been passed, and dropped, before it.   *)
(***************************************************************************)
ReadyLookups == lookups \ lookupInflight
(* mutant: takeDirty does not look at the in-flight marks *)
ReadyDocsRacy == dirty \cap live

ReadyDocs    == (dirty \ inflight) \cap live
ColdDocs     == (dirty \ inflight) \ live

TakeLookup(w, k) ==
  /\ pc[w] = "scan"
  /\ k \in ReadyLookups
  /\ lookups' = lookups \ {k}
  /\ lookupInflight' = lookupInflight \cup {k}
  /\ job' = [job EXCEPT ![w] = k]
  /\ Quiet(Goto(w, "keys"))
  /\ UNCHANGED <<envVars, handling, dirtyVars, liveVars, doc, fan, cancelled>>

NoLookup(w) ==
  /\ pc[w] = "scan"
  /\ ReadyLookups = {}
  /\ Quiet(Goto(w, "drain"))
  /\ UNCHANGED <<envVars, handling, dirtyVars, lookVars, liveVars, localVars,
                 cancelled>>

TakeDirty(w, c) ==
  /\ pc[w] = "drain"
  /\ c \in ReadyDocs
  /\ \E passed \in SUBSET ColdDocs : dirty' = dirty \ (passed \cup {c})
  /\ inflight' = inflight \cup {c}
  /\ job' = [job EXCEPT ![w] = c]
  /\ Quiet(Goto(w, "query"))
  /\ UNCHANGED <<envVars, handling, lookVars, liveVars, doc, fan, cancelled>>

NothingDirty(w) ==
  /\ pc[w] = "drain"
  /\ ReadyDocs = {}
  /\ dirty' = dirty \ ColdDocs
  /\ Quiet(Goto(w, "select"))
  /\ UNCHANGED <<envVars, handling, inflight, lookVars, liveVars, localVars,
                 cancelled>>

(* The select: a waiting token is consumed, otherwise the worker parks.    *)
Woken(w) ==
  /\ pc[w] = "select"
  /\ wake
  /\ wake' = FALSE
  /\ pc' = Goto(w, "scan")
  /\ UNCHANGED <<envVars, handling, dirtyVars, lookVars, liveVars, localVars,
                 cancelled>>

Park(w) ==
  /\ pc[w] = "select"
  /\ ~wake
  /\ ~cancelled
  /\ Quiet(Goto(w, "parked"))
  /\ UNCHANGED <<envVars, handling, dirtyVars, lookVars, liveVars, localVars,
                 cancelled>>

Exit(w) ==
  /\ pc[w] = "select"
  /\ cancelled
  /\ Quiet(Goto(w, "exited"))
  /\ UNCHANGED <<envVars, handling, dirtyVars, lookVars, liveVars, localVars,
                 cancelled>>

-----------------------------------------------------------------------------
(* compute: the doc query, the publish, and the retry of either.  A call   *)
(* made with an ended context fails.                                       *)

RunDoc(w) ==
  /\ pc[w] = "query"
  /\ ~cancelled
  /\ job[w] \notin Poison
  /\ doc' = [doc EXCEPT ![w] = db[job[w]]]
  /\ Quiet(Goto(w, "publish"))
  /\ UNCHANGED <<envVars, handling, dirtyVars, lookVars, liveVars, job, fan,
                 cancelled>>

RunDocFails(w) ==
  /\ pc[w] = "query"
  /\ Quiet(Goto(w, "retry"))
  /\ UNCHANGED <<envVars, handling, dirtyVars, lookVars, liveVars, localVars,
                 cancelled>>

Deliver(w) == published' = [published EXCEPT ![job[w]] = doc[w]]

PublishDoc(w) ==
  /\ pc[w] = "publish"
  /\ ~cancelled
  /\ Deliver(w)
  /\ Quiet(Goto(w, "finish"))
  /\ UNCHANGED <<db, stream, handling, dirtyVars, lookVars, liveVars,
                 localVars, cancelled>>

(* The request may be lost, or arrive and only its answer be lost.         *)
PublishFails(w) ==
  /\ pc[w] = "publish"
  /\ Deliver(w) \/ UNCHANGED published
  /\ Quiet(Goto(w, "retry"))
  /\ UNCHANGED <<db, stream, handling, dirtyVars, lookVars, liveVars,
                 localVars, cancelled>>

(* mutant: failed work is dropped *)
DropDoc(w) ==
  /\ pc[w] = "retry"
  /\ Quiet(Goto(w, "finish"))
  /\ UNCHANGED <<envVars, handling, dirtyVars, lookVars, liveVars, localVars,
                 cancelled>>

(* retryLater has waited: the doc is dirty again, still marked in flight.  *)
RetryDoc(w) ==
  /\ pc[w] = "retry"
  /\ dirty' = dirty \cup {job[w]}
  /\ Signal(Goto(w, "finish"))
  /\ UNCHANGED <<envVars, handling, inflight, lookVars, liveVars, localVars,
                 cancelled>>

HasPending(d, l) == d # {} \/ l # {}

(* mutant: finish leaves the in-flight mark *)
FinishDocMarked(w) ==
  /\ pc[w] = "finish"
  /\ SignalIf(HasPending(dirty, lookups), Goto(w, "scan"))
  /\ job' = [job EXCEPT ![w] = NONE]
  /\ doc' = [doc EXCEPT ![w] = 0]
  /\ UNCHANGED <<envVars, handling, dirtyVars, lookVars, liveVars, fan,
                 cancelled>>

FinishDoc(w) ==
  /\ pc[w] = "finish"
  /\ inflight' = inflight \ {job[w]}
  /\ SignalIf(HasPending(dirty, lookups), Goto(w, "scan"))
  /\ job' = [job EXCEPT ![w] = NONE]
  /\ doc' = [doc EXCEPT ![w] = 0]
  /\ UNCHANGED <<envVars, handling, dirty, lookVars, liveVars, fan, cancelled>>

-----------------------------------------------------------------------------
(* runLookup: the reverse index, then one mark per row it returned.        *)

OverCap(k) == Cardinality(Fanout[k]) > MaxKeys[k]

RunKeys(w) ==
  /\ pc[w] = "keys"
  /\ ~cancelled
  /\ job[w] \notin Poison
  /\ ~OverCap(job[w])
  /\ fan' = [fan EXCEPT ![w] = Fanout[job[w]]]
  /\ Quiet(Goto(w, "fanout"))
  /\ UNCHANGED <<envVars, handling, dirtyVars, lookVars, liveVars, job, doc,
                 cancelled>>

(* mutant: a fan-out over the cap is only logged *)
NoFallback(k) == {}

(* ErrTooManyKeys: markQueryLiveDirty instead.                             *)
Fallback(k) == QueryDocs[k] \cap live

RunKeysOverCap(w) ==
  /\ pc[w] = "keys"
  /\ ~cancelled
  /\ job[w] \notin Poison
  /\ OverCap(job[w])
  /\ dirty' = dirty \cup Fallback(job[w])
  /\ SignalIf(Fallback(job[w]) # {}, Goto(w, "fanout"))
  /\ UNCHANGED <<envVars, handling, inflight, lookVars, liveVars, localVars,
                 cancelled>>

RunKeysFails(w) ==
  /\ pc[w] = "keys"
  /\ Quiet(Goto(w, "requeue"))
  /\ UNCHANGED <<envVars, handling, dirtyVars, lookVars, liveVars, localVars,
                 cancelled>>

MarkKey(w, c) ==
  /\ pc[w] = "fanout"
  /\ c \in fan[w]
  /\ fan' = [fan EXCEPT ![w] = @ \ {c}]
  /\ dirty' = dirty \cup {c}
  /\ Signal(pc)
  /\ UNCHANGED <<envVars, handling, inflight, lookVars, liveVars, job, doc,
                 cancelled>>

RequeueLookup(w) ==
  /\ pc[w] = "requeue"
  /\ lookups' = lookups \cup {job[w]}
  /\ Signal(Goto(w, "fanout"))
  /\ UNCHANGED <<envVars, handling, dirtyVars, lookupInflight, liveVars,
                 localVars, cancelled>>

FinishLookup(w) ==
  /\ pc[w] = "fanout"
  /\ fan[w] = {}
  /\ lookupInflight' = lookupInflight \ {job[w]}
  /\ SignalIf(HasPending(dirty, lookups), Goto(w, "scan"))
  /\ job' = [job EXCEPT ![w] = NONE]
  /\ UNCHANGED <<envVars, handling, dirtyVars, lookups, liveVars, doc, fan,
                 cancelled>>

-----------------------------------------------------------------------------
WorkerDoc(w) ==
  \/ \E c \in Channels : TakeDirty(w, c)
  \/ NothingDirty(w)
  \/ RunDoc(w)
  \/ RunDocFails(w)
  \/ PublishDoc(w)
  \/ PublishFails(w)
  \/ RetryDoc(w)
  \/ FinishDoc(w)

WorkerLookup(w) ==
  \/ \E k \in Lookups : TakeLookup(w, k)
  \/ NoLookup(w)
  \/ RunKeys(w)
  \/ RunKeysOverCap(w)
  \/ RunKeysFails(w)
  \/ \E c \in Channels : MarkKey(w, c)
  \/ RequeueLookup(w)
  \/ FinishLookup(w)

WorkerSleep(w) == Woken(w) \/ Park(w) \/ Exit(w)

Worker(w) == WorkerDoc(w) \/ WorkerLookup(w) \/ WorkerSleep(w)

Reader ==
  \/ HandleEvent
  \/ \E c \in Channels : MarkFromRow(c)
  \/ \E k \in Lookups : EnqueueLookup(k)

(* The warm listener and the liveness polls run on the workers' context.   *)
Interest ==
  /\ ~cancelled
  /\ \/ \E c \in Channels : Warm(c)
     \/ \E c \in Channels : Touch(c)
     \/ \E listed \in Listings, complete \in BOOLEAN :
          SyncLive(listed, complete)

Environment == (\E e \in Events : Commit(e)) \/ Tick \/ Cancel

Next == Environment \/ Interest \/ Reader \/ \E w \in Workers : Worker(w)

Spec == Init /\ [][Next]_vars

(***************************************************************************)
(* Fairness.  The scheduler runs the reader's goroutine and the workers.   *)
(* Random map iteration does not pass over an entry for ever.  Calls to    *)
(* the customer database and to foony fail for a while and then stop       *)
(* failing (statement_timeout and the HTTP client bound each call), except *)
(* that a Poison doc or lookup never succeeds (wrong SQL, a doc over the   *)
(* size cap) and a call made after the context ended always fails.         *)
(* Nothing is assumed of changes or of subscribers.                        *)
(***************************************************************************)
Running ==
  /\ WF_vars(Reader)
  /\ \A w \in Workers : WF_vars(Worker(w))
  /\ \A c \in Channels : SF_vars(\E w \in Workers : TakeDirty(w, c))
  /\ \A k \in Lookups : SF_vars(\E w \in Workers : TakeLookup(w, k))

Fault ==
  /\ ~cancelled
  /\ \E w \in Workers :
       \/ RunDocFails(w) /\ job[w] \notin Poison
       \/ PublishFails(w)
       \/ RunKeysFails(w) /\ job[w] \notin Poison

FaultsEnd == <>[][~Fault]_vars

FairSpec == Spec /\ Running /\ FaultsEnd

(* The pause before a retry is seconds: a worker that is about to look for *)
(* work does so within another's pause, not always just after it.          *)
PausesAreLong == \A w \in Workers : SF_vars(NoLookup(w))

PacedSpec == FairSpec /\ PausesAreLong

-----------------------------------------------------------------------------
(***************************************************************************)
(* Where a doc's next recompute is: a change still to be handled, a mark   *)
(* still to be made, the dirty set, or a lookup on its way to mark it.     *)
(***************************************************************************)
Covers(e, c) == c \in Direct[e] \/ \E k \in Reverse[e] : c \in Fanout[k]

LookupOnWay(w, c) ==
  \/ pc[w] \in {"keys", "requeue"} /\ c \in Fanout[job[w]]
  \/ pc[w] = "fanout" /\ c \in fan[w]

Pending(c) ==
  \/ \E i \in 1 .. Len(stream) : Covers(stream[i], c)
  \/ c \in handling \cup dirty
  \/ \E k \in (handling \cap Lookups) \cup lookups : c \in Fanout[k]
  \/ \E w \in Workers : LookupOnWay(w, c)

(* A worker has taken the doc and will publish what is in the database now,*)
(* or will mark the doc dirty again.                                       *)
Computing(c) ==
  \E w \in Workers :
    /\ job[w] = c
    /\ \/ pc[w] \in {"query", "retry"}
       \/ pc[w] = "publish" /\ doc[w] = db[c]

Due(c) == Pending(c) \/ Computing(c)

Stale(c) == published[c] # db[c]

(***************************************************************************)
(* No change is lost: a doc with subscriber interest whose published copy  *)
(* is out of date always has a recompute on its way, whatever the          *)
(* interleaving of changes, leases, failures and workers.  This is the     *)
(* promise of the dirty set, the in-flight marks and the re-dirty on       *)
(* failure (engine.go:79-89, 352-354), and of marking a doc dirty when it  *)
(* becomes live (engine.go:185-190, 237-240).                              *)
(***************************************************************************)
NoLostChange == \A c \in live : Stale(c) => Due(c)

(***************************************************************************)
(* A unit of work is on one worker at a time, and the in-flight marks say  *)
(* which units those are (engine.go:80-82, 427-429).                       *)
(***************************************************************************)
OneWorkerPerUnit ==
  /\ inflight = {c \in Channels : \E w \in Workers : job[w] = c}
  /\ lookupInflight = {k \in Lookups : \E w \in Workers : job[w] = k}
  /\ \A v, w \in Workers : v # w /\ job[v] = job[w] => job[v] = NONE

(***************************************************************************)
(* No wake-up is lost: when work can be taken, some worker is on its feet  *)
(* or the token that will wake one is in the channel, although the channel *)
(* holds one token and drops the rest (engine.go:96, 526-531).             *)
(***************************************************************************)
Awake(w) == pc[w] \notin {"select", "parked", "exited"}

NoLostWakeup ==
  ~cancelled /\ (ReadyDocs # {} \/ ReadyLookups # {}) =>
    wake \/ \E w \in Workers : Awake(w)

(***************************************************************************)
(* What subscribers see of a doc never goes back to an older result: two   *)
(* computations of a doc never overlap (engine.go:80-82).                  *)
(***************************************************************************)
NoRegress == [][\A c \in Channels : published'[c] >= published[c]]_vars

(***************************************************************************)
(* A doc with subscribers whose copy is out of date becomes current, or    *)
(* loses its subscribers (README.md:7-9); other docs that fail every time, *)
(* and are retried for ever, do not keep it waiting.                       *)
(***************************************************************************)
EventuallyFresh ==
  \A c \in Channels \ Poison :
    c \in live /\ Stale(c) ~> c \notin live \/ ~Stale(c)

-----------------------------------------------------------------------------
(***************************************************************************)
(* The engine implements the abstract promise: seen from a subscriber, its *)
(* workers, queues and leases are a set of docs that are due.              *)
(***************************************************************************)
DueDocs == {c \in Channels : Due(c)}

DocSync == INSTANCE DocSync WITH due <- DueDocs

Promise == DocSync!Safety
=============================================================================
