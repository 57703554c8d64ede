# A model of foony-sync

foony-sync runs beside a customer's Postgres. It reads row changes from a
replication slot, works out which live documents each change affects, runs
their queries again and publishes the results on `db:` channels. This
directory holds TLA+ modules of the parts that decide whether a document
follows its rows, the TLC configurations that check them, and proofs, for every
value of the constants, of every safety property the passing runs check. All paths
below are relative to the repository root (`src/internal/...` in PROJECT.json).

## The system

| Part | State | Operations | Talks to |
| --- | --- | --- | --- |
| Recompute engine, `engine/engine.go` | `dirty`, `inflight`, `lookups`, `lookupInflight`, `live` with lease times, the one-slot `wake` channel, two workers' locals | `HandleEvent`, `Warm`, `Touch`, `SyncLive`, `runWorker` (`takeLookup`, `runLookup`, `takeDirty`, `compute`, `finish`, `retryLater`) | called by the reader, the warm listener and the polls; calls the executor and the Foony client |
| Key derivation, `engine/engine.go`, `spec/channels.go` | none (definitions fixed at start) | `markFromRow`, `enqueueLookup`, `BuildChannel`, `parseChannel`, `channelValue` | inside the engine |
| Executor, `engine/executor.go` | a pool of two read-only sessions | `RunDoc`, `RunKeys` | customer database |
| WAL reader, `cdc/reader.go` | connection, decoder, `clientLSN` | `start` (connect, set up, stream, reconnect), `ensureReplicationSlot`, `streamLoop`, `sendStandbyStatus` | Postgres walsender; calls `HandleEvent` synchronously; reports to the runner with `OnStatus` |
| Decoder, `cdc/decoder.go`, `cdc/event.go` | relation cache, `inStream` | `decode` | inside the reader |
| Publication management, `cdc/reader.go` | the publication (in Postgres) | `ensurePublication`, create, drop, alter | Postgres |
| Agent runner, `agent/agent.go` | `state`, `lastError`, `lastEventAt`, `detached`, `stopReader` | `Run`, `runReader`, `runHeartbeats`, `detach`, `setError`, `clearError` | all of the above, under one mutex |
| Liveness polls, `agent/agent.go`, `agent/foony.go` | none | `runLivenessPolls`, `liveDocsWithRetry` | Foony; calls `SyncLive` |
| Warm listener, `agent/warm.go` | the SDK connection | `runWarmListener` | Foony; calls `Warm`, `Touch` |
| Foony client, `agent/foony.go` | credentials | `PublishDoc`, `LiveDocs`, `SendHeartbeat` | Foony |
| Replica identity check, `agent/replident.go` | none | `checkReplicaIdentities` | customer database, once, at startup |
| Definitions and configuration, `spec/spec.go`, `agent/config.go` | none | `Validate`, `LoadConfig` | read at startup |
| Entry point, `main.go`, `Dockerfile` | none | environment, signals | ends the context |

What is hard about it, and what makes each part correct:

* **Engine.** The reader, the listener, the polls and two workers share the maps
  in short critical sections, and the database and Foony are called between
  them. A document changes again while it is being computed, loses and regains
  its subscribers, fails and is retried. It is correct when no change of a
  document with subscribers is forgotten, results never go back, work is never
  left without a worker that will look for it, and in the end the copy is
  current.
* **Key derivation and definitions.** What an event shows of a change depends on
  the table's replica identity; a reverse index runs later than its event; and a
  definition may be accepted that derives nothing. They are correct when the
  documents derived cover the documents changed, under every file that loads.
* **Reader and decoder.** Transactions interleave in the log, connections and
  processes die, and what is acknowledged is never sent again. They are correct
  when only what the engine was told, or will find out at its start, is
  acknowledged, and when everything is acknowledged in the end.
* **Runner.** The heartbeat loop stops the reader and drops its slot while the
  reader is working and reporting, and the server believes in connections that
  are gone. It is correct when a detached agent stays detached and says so, the
  dashboard ends up showing what is, the stream comes back after every fault, the
  valve fires, and the slot it drops is gone.
* **Publication.** A change of kind is a drop and a create, each may fail or be
  refused, and tables come and go meanwhile. It is correct when the reader only
  streams from a publication in line with its tables, and gets there.
* **Polls and listener.** Signals are shed or lost, polls fail, see a part of the
  fleet, or are older than a subscriber. They are correct when a subscriber the
  agent knows of is not dropped, and leases follow interest in the end.

## Modules

| Module | What it is |
| --- | --- |
| `DocSync` | The abstract promise: documents, their versions, subscribers, and the set of documents that are *due*. |
| `Engine` | The recompute engine, with its surroundings kept to what it observes. |
| `EngineMC` | Small instances of it: `EngineMC_*.cfg`. |
| `EngineProofs` | Proofs: types; safety; the engine implements `DocSync!Safety`. |
| `Reader` | The WAL reader and decoder, with the log, the slot and the walsender, process crashes and the startup poll. |
| `ReaderMC` | Small instances: `ReaderMC_*.cfg`. |
| `ReaderProofs` | Proofs: types; what is acknowledged has reached the engine. |
| `Sync` | `Reader` joined to the engine's dirty set and computations, across crashes; shown to implement `DocSync` too. |
| `SyncMC` | A small instance. |
| `SyncProofs` | Proofs, on top of `ReaderProofs`: types; no change is lost across crashes; the agent implements `DocSync!Safety`. |
| `Agent` | The runner: reader supervision, status reports, heartbeats, the safety valve, and the slot with its sessions. Its configurations are `AgentMC_*.cfg`. |
| `AgentProofs` | Proofs: types; detached is terminal. |
| `Publication` | `ensurePublication`, statement by statement, against migrations, refusals, faults and restarts. |
| `PublicationMC` | A small instance. |
| `PublicationProofs` | Proofs: types; a stream is in line with its tables. |
| `Leases` | Signals, liveness polls, leases and the warm listener's connection. |
| `LeasesProofs` | Proofs: types; no known subscriber is forgotten. |
| `Keys` | From row changes to documents: events under each replica identity, watches, reverse indexes, channel names, the startup warning. |
| `KeysMC` | A small instance. |
| `KeysProofs` | Proofs: types; documents that change are followed or were warned about. |
| `Definitions` | Which definitions files load, and what the engine does with a row under those that do. |
| `DefinitionsMC` | Small files. |
| `DefinitionsProofs` | Proofs: types; what is derived is served; regular watches are not deaf. |

How they meet. `Sync` extends `Reader` with the engine at the grain `Engine` and
its proofs justify: a set of marked documents, and one computation of a document
at a time (`OneWorkerPerUnit`). `Engine` and `Sync` are both shown to implement
the safety part of `DocSync`, one within a process and with every interleaving
of the workers, the other from the row to the subscriber and across crashes.
`Engine` assumes of the definitions that the documents an event derives cover
those it alters (`WatchesCover`): `Keys!UnwarnedDocsFollow` is that assumption
held against the code of the derivation for one set of definitions with every kind
of watch (and proved for any rows and identities), and `Definitions`
says what the files that load are good for. `Engine` takes any listing at any time; `Leases` says which
come. `Agent` takes the stream as up or down; `Reader` says what it carries, and
`Publication` what the server puts in it. `DocSync!Interest` lets documents that stay without
subscribers keep or drop their obligation, since a crash in `Sync` loses all
interest at once.

### Engine and the code

One action is one critical section of `engine.mutex`, or one call out. The lines
between two of those touch only locals, so they are part of the action before.

* `db[c]` is the version of the result document `c`'s query has now; a change
  raises it for the documents in `Affects[e]`. Versions stand for results, so
  "older" means something.
* `Warm`, `Touch`, `SyncLive` are the functions of those names. A lease is an age
  in ticks, up to `touchGrace`; `Kept` is the loop that drops leases that ran out
  in a complete poll.
* `HandleEvent` takes the next change; `MarkFromRow` and `EnqueueLookup` make the
  marks it derives, each its own critical section, with the workers in between.
  The order of marks is left open.
* A worker's `pc` follows `runWorker`: `scan` (`TakeLookup`, `NoLookup`), `drain`
  (`TakeDirty`, `NothingDirty`), `select` (`Woken`, `Park`, `Exit`), then for a
  document `query`, `publish`, `retry`, `finish`, and for a lookup `keys`,
  `requeue`, `fanout`. Go iterates maps in random order, so any eligible entry
  may be taken, and any set of cold ones dropped on the way.
* `signal()` is folded into the critical section before it. The send either
  hands the token to a goroutine that is parked in the select, which then runs,
  or fills the slot, or is dropped, as a Go channel of capacity one does. Between
  the section and its send nothing else can depend on the send not having
  happened, except that the token arrives later.
* `Cancel` ends the context: parked workers return, and every later call fails.
* A doc query sees every change committed before it. A failed publish may have
  been delivered.
* `Poison` documents and lookups fail every time (wrong SQL, a document over the
  size cap); the others fail at most for a while.

### Reader and the code

* `phase` follows `agent.Run` and `reader.start`: the startup poll, `connect`
  (`Connect`: fresh decoder), `setupReplication` (`EnsureReplicationSlot`,
  `StartReplication`), `streamLoop` (`Receive`, `SendStandbyStatus`).
  `Disconnect` is any failed step: close, wait, start over. `Crash` forgets
  everything but what Postgres keeps.
* `Receive` is one turn of the loop: decode, hand the events to the handler, then
  advance `clientLSN`. The acknowledgement is sent at the top of the loop, so it
  never splits a turn.
* Postgres is external and kept to what the reader relies on: a transaction is
  sent when its commit record is read, or in chunks before that when it is large
  and streaming was asked for; a change's message carries the start of its
  record and a commit's the end; a keepalive carries how far the log was read; a
  new session sends every transaction that commits after the confirmed position,
  from its first change.
* Status reports, the retry on a slot in use and cancellation are in `Agent`.
* Left out: how long a back-off is, Begin, Relation, Type and logical messages
  (their positions never pass the transaction's commit). A message parsed with
  the wrong idea of its framing is passed over, as the comment at
  reader.go:220-223 says.

### Keys and the code

* One schema and one set of definitions with every kind of watch:
  `post(id)` through the key, `thread(post)` through another column,
  `byAuthor(author)` through a column of one table and a reverse index from the
  other, `total()` with a bare watch.
* `Write` is a statement: it changes the table, appends the event the decoder
  makes of it, and adds to `changed` the live documents whose result it altered.
  With the default identity an old row has its key and nulls; without one
  Postgres refuses updates and deletes on a published table.
* `Update` may change a row's value and its key; with a new key Postgres sends the old
  one even under the default identity (replident.go:17-18). `Truncate` empties any
  table.
* `takenAway` is not in the code: it is the part of `changed` that a row went from
  without the derivation being shown it. It steers no action.
* `HandleEvent`, `Marks`, `KeyOf`, `LookupsOf` are the functions of the engine;
  here `HandleEvent` is one step, since `Engine` has the interleavings.
* `Warned` is the startup check, by document: a watch of its query reads a column
  its table's old rows do not carry.

### Definitions and the code

* A file is a sequence of queries, a query its name, its highest placeholder and
  its watches; names, identifiers and SQL texts are well formed or not. `LoadConfig`,
  `Validate`, `ValidateWatch`, `ValidColumns` and `ValidKeys` are the checks
  of those functions.
* `HandleEvent` is an insert under an accepted file, with `MarkFromRow` and
  `EnqueueLookup`; `RunLookup` the reverse index, whose call fails for ever when
  the arguments are not as many as the SQL has placeholders. A value can be a
  segment or is odd; values of different columns differ. A definition may name
  `Columns` the table does not have (those outside `TableColumns`); a row then has no
  value there, and nothing is derived (`InTable`).

### Sync and the code

* The reader's steps are `Reader`'s. `HandleEvent` is `Receive` with the marks
  its events make, which happen before the position moves (reader.go:625-633).
  `SyncLiveAtStart` is the startup poll; `Die` a crash, which leaves only the slot
  and what Foony retains.
* A document is marked, being computed (`result`), or neither. A reverse index
  counts as a mark of the documents it will return.

### Agent and the code

* `reader` follows `Run`, `start` and `runReader`; `beating` follows one turn of
  `runHeartbeats`. An action is one critical section of the runner's mutex, a call
  out, or one operation on a channel or context; `CancelReader` is the goroutine
  that carries the stop token to the reader's context.
* `session` is who holds the slot: the reader, no one, or a connection whose
  client is gone (`stale`), which lasts until the server notices. `LeaveSession`
  makes the reader's session stale when it goes without closing it or with the
  server still to see it.
* `SetupFails` is a step of the setup that had no effect; `AnswerLost` one that did:
  the slot was created, or a session started which no one reads, and the call failed
  on the agent's side, or its context ended meanwhile.
* `Retain`, `Release` and `Invalidate` are what the WAL does to the slot, in any
  order that is possible.
* Assumed: the two seconds' sleep in `detach` suffices for the stop token to be
  taken, and the first heartbeat is measured after `runReader` set its state
  (thirty seconds later).

### Publication and the code

* `step` follows `ensurePublication`: `ResolveDesiredTables`,
  `FetchPublicationState` and its decision, then `DropPublication`,
  `CreatePublication`, or `CurrentPublicationTables` and `AlterPublication`. Every
  statement commits by itself. `Try` is a statement that is executed, refused (42501,
  with the hint) or fails.
* `role` and `owned` decide what Postgres refuses (`Denies`): a superuser may do
  everything; `FOR ALL TABLES` takes one; a role that owns the tables may create a
  scoped publication, which it then owns, and alter or drop those it owns; a plain
  replication role may only drop one it owns. What the operator creates is not the
  role's.
* Only tables of the public schema are members: the reader reads no others
  (reader.go:465), and never sees that an operator added one.
* `Stream` is the rest of the setup and the report that clears the error, in one step.
  Nothing in between touches the publication.
* `hint` is the statement the reported error shows; `RunHint` is the operator who
  runs it, once, while it is shown.
* Unquoted names in statements are folded to lower case (`Fold`), those looked up
  in the catalogue are not.

### Leases and the code

* `live[c]` is the age of the lease in poll intervals, up to `TouchGrace`, or
  `Cold`. A poll is asked at a `Tick`, answered from the fleet as it is then, and
  taken by `SyncLive` later; signals and departures come in between.
* `listener` follows the loop in `runWarmListener`; `failed` is its one-slot
  channel, filled from the SDK's callback. The SDK dials by itself after a drop
  and gives up when the key is refused; Connect on a connection that is up
  returns at once.
* `known` is not in the code: it is the watched channels whose present interest
  reached the agent. Assumed: a poll is over before the next tick.

## Runs

| Run | Instance | What it shows |
| --- | --- | --- |
| `engine_safety` | 2 workers, 2 documents, 2 lookups of which one is over its key cap, 2 kinds of change, one undelivered event, one version change per document, context may end | `TypeOK`, `NoLostChange`, `OneWorkerPerUnit`, `NoLostWakeup`, `NoRegress`, and `Promise`: the engine implements the safety part of `DocSync` |
| `engine_live` | 1 worker, 2 documents of which one always fails, a lookup over its cap, two version changes | `EventuallyFresh`: the sound document becomes current, beside one that fails for ever and under endless warms and touches |
| `engine_starved` | 2 workers, 1 document, two lookups that always fail | violated: as many failing lookups as workers stop every document |
| `reader` | 2 transactions (one of two changes that may be streamed or aborted, one of one change), 2 faults | `AckedIsCovered`, `EventuallyCovered`, `WalIsReleased` |
| `reader_streamed` | the same | violated: a streamed transaction is acknowledged and its documents not recomputed after its commit |
| `sync` | 2 transactions on 1 document, 2 faults | `NoLostChange`, `Promise`, `EventuallyFresh`: from the row to the subscriber, across crashes |
| `agent` | 4 faults (lost answers among them), the slot may be invalidated, the reader may return late | `DetachedIsTerminal`, `HealthIsShown`, `StreamsAgain`, `ValveFires` |
| `agent_slot` | no fault at all, the reader returns in time | violated: the source is shown detached, its slot dropped, and the slot is there |
| `publication` | 3 names, one of them with capitals, 5 sets of definitions, 3 kinds of role, 2 faults, 2 migrations | `InLine`, `EventuallyStreams` |
| `leases` | 2 channels, `TouchGrace` 2, 2 faults | `NotForgotten`, `EventuallyLive`, `EventuallyCold`, `ListensAgain` |
| `definitions` | 19747 files: any one watch of up to three placeholders, or two queries with watches of columns or nothing, and a few over a limit; 2 columns the table has and 1 it lacks | `DerivedIsServed`, `RegularWatchesDerive` |
| `keys` | 1 comment, 2 posts, 2 authors and one that cannot be a channel segment, 1 tag; each replica identity of comments and posts with at least one of them full; 2 undelivered events | `UnwarnedDocsFollow` |

Each passing run also checks its module's type invariant, except `engine_live`,
whose states are those of `engine_safety`. The violated
properties are things the documentation or the comments say; the text is quoted
under "findings" in PROJECT.json.

**Bounds.** Two workers is what the code has. Two documents, because a document
interferes with another only by competing for workers and tokens; one undelivered
event suffices for a change to arrive at every point of a computation, since
`HandleEvent` empties the stream at once. `MaxVersion` bounds how often a result
changes: one change makes a copy stale at any moment of a computation, two make
the second one arrive during the recompute for the first (`engine_live`; the
proofs have no bound). `TouchGrace = 1` in the engine keeps a lease that is fresh
and one that ran out; `Leases` has 2, so that a lease also gets old without running
out (the code's fifteen minutes are three intervals). One worker in `engine_live`
makes every document wait for every other. In `reader` and `sync` two faults allow a lost
connection followed by a crash and the reverse; the sender reads on when the
last message has been received (`MaxQueue = 0`): what it had sent ahead would be
lost with the connection, and the order of messages is the same. Only the second
transaction may abort, since an abort matters only as log that carries nothing, or
after a stream. `sync` leaves streamed transactions out, which lose changes by
themselves (`reader_streamed`). In `agent` four faults let a lost connection, a restart, a
failed drop and a lost heartbeat meet in one run. In `publication` two migrations drop a table and create it
again between two statements, and two faults restart the process twice. In
`keys` documents do not interact, so one live document at a time (any of the
seven) is enough, and two undelivered events let a second statement overtake a
lookup. With one comment its key cannot change to another; the keys of posts do, and
the theorem covers every table. In `definitions` watches do not interact but through the names of their
queries, so one watch of any kind, or two with two names, suffice.

**Where the passing runs stop.** Five restrictions are not there for size: the code
does not do what the property says beyond them. Each hazard they leave out is listed
in PROJECT.json with no property and a note.

* `reader` and `sync` start with a slot. With `SlotAtStart = FALSE`, a transaction
  that commits between the startup poll and the creation of the slot
  (agent.go:72-102, reader.go:245) is in neither: `EveryChangeCounts` fails.
* `UnwarnedDocsFollow` leaves out the documents in `takenAway`. A comment moves to
  another post, and `enqueueLookup` looks up the new one only (engine.go:399): the
  document of the old post's author is not found, with a `FULL` replica identity as
  well (`LeftBehind`). A truncation is an event without rows (decoder.go:121-132),
  and derives nothing for columns and keysSql (`Keyed`). Both happen in the run; the
  history variable says which documents they took a row from, until those are
  computed for another reason, and everything else the statements alter is held to
  the property.
* `RegularWatchesDerive` is about watches whose `keysColumns` numbers the
  placeholders its SQL has. `validateWatch` does not ask for that (spec.go:173-183):
  with a gap the watch is deaf, with another number of them its lookups fail for
  ever, which feeds `engine_starved`.
* Nor does `validateWatch` ask whether the table has the columns (spec.go:158-161,
  180-182). A misspelt one is accepted, every row lacks it, and the watch is deaf
  (engine.go:380-383, 412-415); `Regular` leaves those watches out too.
* `InLine` and `EventuallyStreams` are about watched tables with lower-case names
  (`Plain`), see "Not modelled".

**Deadlock.** Checking it is switched off where the system may really stop: in
`engine_safety`, where every worker may return after the context ended; in the
reader's runs and `sync`, when the bounded log has been read and acknowledged and
the documents are current; in `agent`, when the startup poll was refused;
in `publication`, when the reader streams and no fault or migration is left;
and in `definitions`, when the file was refused. `engine_live`, `engine_starved`,
`leases` and `keys` check it.

**Fairness.** In `Engine`, `Running`: the reader's goroutine and each worker take
steps, which the Go scheduler ensures; an entry that stays eligible is taken sooner
or later by random map iteration. `FaultsEnd`: calls fail only for a while, except
poisoned ones and those made after the context ended. A call always returns,
because of `statement_timeout` and the HTTP client's timeout. `PausesAreLong`, for
`engine_starved` only: `retryLater` waits five seconds, so a worker that is about
to look for lookups does so at some time while the other waits with the failing
one in its hands; without it the violation could be blamed on the order of two
pauses. Nothing is assumed of changes, polls, warms or touches. In `Reader` and `Sync` the
walsender, the setup steps, the loop, the standby deadline and the workers go on;
faults are bounded, so they end. In `Agent` the goroutines run, the startup poll
is answered, and the server notices a connection that is gone, which
`wal_sender_timeout` ensures; nothing is assumed of what the slot retains. In
`Publication` the loop runs and the operator runs the statement the error
shows, once and while it is shown: without an operator a role that may not
change the publication waits for ever, as the message says. In `Leases` the ticker
and the listener run and the SDK dials until it is connected or refused; nothing
is assumed of subscribers or of the key.

## Proofs

**Engine.** For every set of workers, documents, lookups and events, under
`ConstantsType` and, for the last three, `WatchesCover`:

* `TypeCorrect`: `Spec => []TypeOK`.
* `ExclusiveWork`: `Spec => []OneWorkerPerUnit`. The inductive invariant is `Held`:
  a free worker holds nothing, every mark is held by a worker and every held unit
  is marked, and no two workers hold one unit.
* `PublishedNeverRegresses`: `Spec => NoRegress`. It needs `Ordered` on top of
  `Held`: nothing published is newer than the database, and a result on its way
  lies between the two. A second worker on the same document would break it,
  which is why `Held` comes first.
* `NoChangeIsLost`: `Spec => []NoLostChange`. `NoLostChange` is inductive relative
  to `TypeOK`, `Held` and `Ordered`. The step that matters is a publish: what the
  worker read equals the database's version, or the document was marked again in
  the meantime. A change makes its documents *pending*, and each step of the
  reader or of a worker hands a pending document on (event, mark, lookup,
  fan-out, dirty, computing) without dropping it.
* `NoWakeupIsLost`: `Spec => []NoLostWakeup`, from its own invariant `WakeInv`: work
  that can be taken implies a token or a worker on its feet, work held back by an
  in-flight mark implies the worker that holds it, who signals when it is done.
* `ImplementsPromise`: `Spec => Promise`. The mapping takes `due` to the documents
  that are pending or being computed. Steps of the environment map to `Change`,
  `Interest` or `Plan`, publishes to `Publish`, all others to `Plan`
  or stuttering; that `due` shrinks only where `DocSync` allows is
  `NoLostChange` at work.

**Agent** (`AgentProofs`), for any number of faults, whether or not slots can be
invalidated or the pause suffices: `TypeCorrect`, and `DetachedStays`,
`Spec => []DetachedIsTerminal`. The inductive invariant `TerminalInv` adds what
keeps a second reader from starting and a first one from going on: once detached,
the stop token, the cancelled context or the returned reader is there, so nothing
reaches `EnsureReplicationSlot` after the drop.

**Publication** (`PublicationProofs`), for any names, folding, definitions and
bounds: `TypeCorrect`, and `StreamsInLine`, `Spec => []InLine`. The inductive
invariant `InLineInv` adds `HintFits`: the statement shown to the operator is one the
role may not run, and it still fits the publication that is there; and `StepFits`: what
the reader's next statement relies on, and that a stream leaves nothing shown. Without
them an operator could change the publication under a stream: that a role which can
run the reader's next statement has been shown none is `NothingShown`.

**Leases** (`LeasesProofs`), for any channels, grace and number of faults:
`TypeCorrect`, and `NoneForgotten`, `Spec => []NotForgotten`. It needs
`ListedOrFresh`: a known channel that a complete answer does not list was
signalled after the poll was asked, so its lease is younger than the grace.

**Reader** (`ReaderProofs`), for any transactions and any number of records, faults
and messages in flight: `ReaderTypeOK`, and, when the slot exists from the start
(`SlotAtStart`), `AckedIsCoveredHolds`, `Spec => []AckedIsCovered`. The inductive
invariant `ReaderInv` says: a commit or abort is its transaction's last record
(`EndsLast`); a session starts from the confirmed position with nothing in flight and
the decoder outside any stream (`SessionInv`); every message finds the decoder where
the sender thinks it is (`Framed`), so none is passed over; the commit of a
transaction that is sent as a whole lies in the queue behind each of its changes
not yet handled, and nothing before it moves the position that far (`Underway`); and what
is acknowledged, or noted to be, has been reached (`ReachedInv`). Without `Underway`
a position could pass a commit whose changes are still to come; without `Framed` a
change could be received and not handled. `EveryChangeCountsUnstreamed` adds that
without streaming, and with the slot there from the start, every acknowledged
transaction counts: those two are all that stands between the code and the property the run
`reader_streamed` shows violated.

**Sync** (`SyncProofs`, which uses `ReaderInv` as it is), for any documents,
transactions and faults: `SyncTypeHolds`, and under `SlotAtStart`
`NoLostChangeHolds`, `SyncSpec => []NoLostChange`, and `SyncImplementsPromise`,
`SyncSpec => Promise`, for the documents no streamed transaction alters. The
inductive invariant `SyncInv` adds to `ReaderInv` that no one is live before the
startup poll, that an event counts as handled only after its commit
(`HandledLate`), that published, computed and current versions are in
order (`Ordered`), and `NoLostChange` itself. Each step is a step of `DocSync`
(`RefinesNext`), where a stale document with subscribers is due by construction; so
`NoLostChange` carries over from one state to the next (`PromiseKeepsDue`). The step
with content is the acknowledgement: a transaction stops being on its way only when it
is covered, and that is `ReaderInv`.

**Keys** (`KeysProofs`), for any rows, authors, posts, replica identities, live sets
and stream lengths: `KeysTypeOK`, and `UnwarnedDocsFollowHolds`,
`Spec => []UnwarnedDocsFollow`, without further hypotheses. With `TypeOK` the property
is inductive. `WriteKeeps` is the argument: the event of a statement derives every
document it alters, but for those the statement takes a row from unseen, and every
document that a lookup still to run finds no longer because the statement changed the
post it reads. For `byAuthor` that takes both images of the post's row, which is why the
watch on `posts` needs a full identity, and why the agent warns without one.

**Definitions** (`DefinitionsProofs`), for any set of files and any limits:
`DefinitionsTypeOK`; `DerivedIsServedHolds`, `Spec => []DerivedIsServed`, from
`DefinitionsInv` (a running agent has a file that `LoadConfig` accepted); and
`RegularWatchesDeriveHolds`, `Spec => []RegularWatchesDerive`, from `RegularInv`,
which needs besides that no row was handled before the file was loaded.

What the proofs assume is in the modules' `ConstantsType`, `DocsType` (finitely many
transactions, so that versions count) and, for the engine, `WatchesCover`; and in the
hypotheses named above. Where an argument is by induction over positions
or lengths, the least counterexample is taken (`ReaderProofs`: a set of records has one
arrangement in the order of the log, which is why `Reader` defines `InLogOrder` by its
order and not by a recursive sort). The unions in `Keys` are parenthesised because the
prover and the parser disagree about the precedence of `UNION`.

Only model-checked: liveness in every module (`EventuallyFresh`, `EventuallyCovered`,
`WalIsReleased`, `HealthIsShown`, `StreamsAgain`, `ValveFires`, `EventuallyStreams`,
`EventuallyLive`, `EventuallyCold`, `ListensAgain`), which is outside the proof
system's reach, and the three violated properties, of which TLC shows a
counterexample.

## Not modelled

* SQL itself, JSON, log and heartbeat text, session pinning, authentication, the
  realtime SDK, the entry point: no decision about freshness is made there.
* The patterns of names, identifiers and SQL texts, beyond whether they match, and
  the defaults of the optional knobs (`resolved`).
* Two things inside other systems that the models assume away: Postgres lets the
  walsender see a commit a moment before new snapshots do, so a query run at once
  might miss it; and Foony might apply a publish that timed out after a later one.
* A watched table created after the connection was set up is published only by the
  next connection (reader.go:61-63); `InLine` is about the tables seen.
* A watched table whose name has capitals: the statements name another table.
  `Publication` has such a name and folds it; its properties assume there is none
  among those watched (`Plain`).
* What happens to changes made between the drop and the create of a publication
  when the walsender decodes them later: it depends on the server's version.
* A worker whose context has ended may loop on its retry instead of returning; the
  process is ending then.
* In `Sync`, streamed transactions and the gap before the first slot (see "Where the
  passing runs stop").

## Plan

Every safety invariant and action property that a passing run checks is proved. What
is left:

1. `Agent` and `Leases`: the safety halves of their liveness properties, as
   invariants of their own (a running reader that streams is shown as such unless its
   report is still to come; an answer on its way is not older than one poll).
2. `Engine` as seen by `Sync`: the set of marked documents and one computation at a
   time as a refinement of its own, so that the grain of `Sync` is proved as well.
3. `Keys` for any definitions `Definitions` accepts, in place of one set with every
   kind of watch.
