# A TLA+ verification of phaselock

phaselock is a sync-first database. A Rust server (`db/`) decides mutations with
JavaScript deciders, keeps an ordered log of edits in SQLite, and streams it. A
generated client (`typespec/ts/assets/skeleton.ts`, its Engine) over a transport
(`client/ts`) keeps a replica of the slices it may see, an outbox of its own
mutations, and queries over both. This directory models the parts of it where
order, concurrency, failure and restarts matter, and the pure algorithms those
parts rest on; it checks them with TLC, and proves with TLAPS
the safety of the writer, of the streams, of the outbox, and of the keys, the session,
the pool and the cron scheduler, and of the replica its downloads and its view.

Paths below are relative to the repository. `P1`..`P23` are the numbered rules
of `db/README.md`, "Protocol".

## The system

### Components

| component | code | state it keeps | operations |
|---|---|---|---|
| edit log writer | `db/src/core/writer.rs`, `store.rs`, `buffer.rs` | tables `kv`, `slices`, `log`, `series`; `position`; the write buffer of the decision running | `submit`, cron ticks, registrations, group commit, bootstrap, recovery by opening the store |
| reader | `db/src/core/reader.rs` | none: a read transaction each | `read_log`, `read_edits`, `snapshot`, `password_hash` |
| server streams | `db/src/server.rs`, `core/mod.rs` | connections with a view, a backlog, flags; the published position | dispatcher: `account`, `view`, `reply`, `commit`; a task for each connection: catchup, switch, forward, heartbeat, end |
| server mutations | `db/src/server.rs` | none | prepare, prove, submit, again after a bounce |
| signing keys | `db/src/keys.rs`, `auth.rs` | the key table, the keyring with its signing key | open, mint, rotate and sweep, verify |
| cron scheduler | `db/src/cron.rs` | the next slot of each entry, the series marks | arm, sleep, tick |
| worker pool | `db/src/pool.rs` | a bounded queue of jobs, the workers | `run`, `try_run`, `queue_run`, stop |
| client replica | `skeleton.ts` | `!checkpoint`, `!view`, `!seq:*`, `!backfill:*`, parked edits and blobs, the base | `#onInbox` (view, edits, vouch, live, end), `#parkPushIn`, `#landIn`, `#onBackfillOutcomes`, `#onConnect`, `#initialize` |
| downloads | `client/ts/src/http.ts` | the resume a call was given, the two halves' progress | `backfill`, `#blobPages`, `#tail` |
| client outbox | `skeleton.ts`, `http.ts` | `!mutation:*`, `#sent`, `#acked`, `#online`; `#sends` | `#onSubmitted`, `#onMutationOutcomes`, the releases; `sendMutations`, `#pump`, `#post` |
| session | `client/ts/src/http.ts`, `session.ts` | a token with its expiry, the refresh in flight | `#fresh`, `#refresh`, `#reissue`, `#post`, the end |
| overlay and queries | `skeleton.ts` | the overlay of predictions, the query graph with what each query read | `#rebuildOverlay`, `#runGraph`, scans, callbacks |
| in-memory store | `skeleton.ts` | values, a list of sorted keys in blocks | commits, scans by pattern |
| wire formats | `client/ts/src/msgpack.ts`, `bytes.ts`, `frames.ts`, `edits.ts`, `checksum.ts`, `registry.ts` | a reader's buffer and offset | reading and writing of values, frames, edits and blobs; conversion by type |
| union solver | `typespec/core/src/solver.ts` | none | the decision tree that tells a union's members apart |
| library example | `examples/library/model` | one room's tables | deciders, predictors, cron hooks |
| development stack | `examples/*/devstack.mts` | stages, commands, `running.json`, the log timeline | keys, boots and shutdowns, recovery, rendering |
| the rest | interpreters, QuickJS embedding, listeners, emitters, wrappers | none, or I/O | see *What is not modelled* |

### How they interact

```
 app --submit--> Engine outbox --#sends, POST /mutations--> server decide --> writer
  ^                 ^                                                           | COMMIT
  | queries         | edits, vouches, views (the stream)                        v
 base <--- Engine --+<--- connection task <--- backlog <--- dispatcher <--- results
   ^ land           |
   +--- blobs and tails, GET /snapshot and /edits <--- reader <--- store
```

The writer thread owns the tables. It takes all the calls that wait as one
batch, decides each inside one transaction, and only after `COMMIT` hands the
results to the dispatcher: revocations, views, then the commit's frame. The
dispatcher queues frames on each connection's bounded backlog, and the
connection's task, which first replays the log from the client's cursor, forwards
them. The client's advancer is single-threaded. Its passes take what the
transport's callbacks queued, in a fixed priority, each in one store transaction.

Beside this path, the session gives every request its token and shares one
refresh between them; the server verifies it with the keyring. The cron scheduler
submits ticks to the writer as any client does. Hashing passwords and checking large
bodies go through the pool. On the client, each pass of the advancer that changes
the base, the outbox or the status rebuilds the overlay and runs the query graph,
whose functions scan the in-memory store through the overlay. Bytes cross between
the two sides as frames and blobs, and an app's values are converted by the types
of its model, with the solution of each union made when the code was generated.

### What is hard

* *Group commit.* Dedup, expectations and reads look at a transaction that
  other mutations of the group are still changing, and a crash loses all of it.
* *Lifecycles.* A slice is born, dies, is erased and is born again within one
  decision, and its seqs must still chain (P1 to P7).
* *The switch to streaming.* A task reads the log while commits are dispatched
  behind it; views change at positions of their own (P8, P9, P11, P12).
* *Backfills.* Blobs are cut ahead of or behind the cursor, tails and the live
  stream overlap, and downloads fail at every point (P10, P12, P15 to P19).
* *Retries.* A request given up on may be decided after its retry, its
  connection or its client's process is gone.
* *Clocks.* Keys are swept, tokens refreshed and ticks armed by a wall clock that
  may be set, and that runs on while a process is down.
* *Awaits.* A call that holds a pool's place, a mint's lock or a refresh may be
  dropped at any of its awaits.
* *Reentrancy.* Query functions and subscribers are the app's, and add, close,
  subscribe and submit from within a pass.
* *Incremental recomputation.* A query runs again only when a key it recorded
  changes, so the record must cover what the result depends on, hidden keys and
  the ends of batches included.
* *Chunks.* A body is cut anywhere, and a download resumes in the middle of one
  whose hash and count it kept.
* *Liveness.* A frame must never be slept over, a backfill never stranded, the
  outbox never stuck, a supervisor never asleep with work to do.

`PROJECT.json` lists each of these as a hazard at its line, with the properties
that cover it.

## The modules

| module | models | lines it stands on |
|---|---|---|
| `WriteBuffer` | the buffer a decider reads and writes through | `buffer.rs` |
| `EditLog` | the writer over its store | `writer.rs`, `store.rs` |
| `EditLogProofs` | the theorems about `EditLog` | |
| `Stream` | one stream connection and the client's cursor | `server.rs`, `writer.rs` `settle` |
| `History` | the log as data: seq, life and state of a slice at a position | `writer.rs` `commit_slice`, `store.rs` |
| `ReplicaStore` | the Engine's store and the transactions its passes are made of | `skeleton.ts` |
| `Replica` | the advancer, its queues, the downloads, the feed | `skeleton.ts`, `http.ts` |
| `ReplicaProofs` | the theorems about `Replica` | |
| `Mirror` | what an app is promised to read: the abstract specification of `Replica` | P9, P18, P22 as `#landIn` keeps them |
| `Outbox` | mutations from submission to their edits' return | `skeleton.ts`, `http.ts`, `server.rs` `decide` |
| `OutboxProofs` | the theorems about `Outbox` | |
| `Keys` | the signing keys through rotations, restarts and clock steps | `keys.rs`, `auth.rs` |
| `KeysProofs` | the theorems about `Keys` | |
| `Session` | the token posts, streams and downloads share | `http.ts`, `auth.rs` |
| `Cron` | the scheduler over its marks | `cron.rs`, `writer.rs` |
| `Pool` | the pool, its queue and its stop | `pool.rs` |
| `StreamProofs` | the theorems about `Stream` | |
| `SessionProofs`, `CronProofs`, `PoolProofs` | the theorems about these three | |
| `Overlay` | predictions over the base, batched scans, what a query records | `skeleton.ts` |
| `Queries` | the query graph and the passes that run it | `skeleton.ts` |
| `KeyScan` | the skip scan of a pattern over pending and stored keys | `skeleton.ts` |
| `KeyList` | the sorted list of keys in blocks | `skeleton.ts` |
| `Unions` | the union solver | `solver.ts`, `ptypes.ts` |
| `Wire` | conversion of values by type and solution | `registry.ts` |
| `Msgpack` | reading and writing of any value | `msgpack.ts` |
| `Framing` | the buffer over chunks, frames, edits | `bytes.ts`, `frames.ts`, `edits.ts` |
| `Checksum` | CRC-32C and FNV-1a 64 on halves and limbs | `checksum.ts` |
| `Blob` | a snapshot's download with breaks and resumption | `http.ts` |
| `Library` | one room of the library example | `examples/library` |
| `Devstack`, `Timeline` | the supervisor of a development stack, and its log | `devstack.mts` |
| `MCEditLog`, `MCDatabase`, `MCStream`, `MCReplica`, `MCQueries`, `MCWire`, `MCBodies`, `MCLocal`, `MCDevstack` | instances for TLC | |

Where one MC module holds several components that share no state (`MCDatabase`,
`MCLocal`, `MCDevstack`), a variable `part` chooses one of them at the start, and
the others rest. That checks each of them on its own, in one run.

Definitions whose comment says *Mutant of* are faulty variants of the definition
after them. Nothing uses them in the specification; put in the place of the
original, each one makes TLC report the property `PROJECT.json` pairs it with,
which shows that the property depends on that code being right.

### EditLog, over WriteBuffer

A database is a record of four tables. `txn` is what the writer sees inside its
transaction, `disk` what a restart or a reader finds. `BeginBatch` is the
`run_loop` taking the whole queue; then for the first call waiting one of
`RefuseData`, `AnswerDuplicate`, `BounceProof`, `RejectEarly` (expectations,
`check_expect`) or `StartDecider` happens. A decider is arbitrary JavaScript,
so it is any sequence of `DeciderPuts` and `DeciderDeletesSlice` on the buffer,
which ends in `DeciderAccepts` or `DeciderRejects` (a throw as well). Accepting
turns the buffer into edits by `CommitEdits`: `LifeOf` picks birth, normal or
death, `NewRow` moves the slice's row, `Erased` drops the earlier edits. Answers
wait in `after` until `CommitBatch`. `Crash` loses everything but `disk`, and
`OpenOn` is what `Writer::open` recovers. `Bootstrap` is the first edit of a new
database.

Contents are sets of fields with values, as the tree of keys within a slice
matters to no property here. Left out: byte counters, the scheduler of cron ticks (`Cron`; here
a tick may come at any time, for any slot), calls that carry several mutations
(the decisions are the same, one after the other; `Outbox` has such calls), the
pruning of old edits by retention, accounts.

### Stream

The writer's batch is one action, `Batch`: commits, the grant after them, the
requests that waited, and the results in the order `settle` sends them. The
dispatcher's four actions take one result each. The connection's task is a
program counter `pc` over the steps between which the code awaits or unlocks:
take the backlog, forward its frames, read a cold window, read the hot tail,
switch, sleep, wake, beat, vouch. Every read of shared state and its use are
different steps where the code has a lock, an await or another thread between
them. The connection's two copies of its view (the entry's and the task's own
`selectors`) are two variables.

A selector set is the set of slices it covers, so a view's token is the view.
The client is its cursor, its view, and which edits it was sent or told to
backfill: `Replica` is the client in full. Left out: shutdown frames, one-off
reads and their `not_visible`, the end by a failed read of the log, token expiry
(it ends a connection like `Drop`), and the restart of the client from an older
copy of its store.

### Replica, over ReplicaStore and History

The database is a history that `head` walks through; `History` says what each
slice is after each position. The connection is what `Stream` shows it to be:
readable edits in order, each under the view told, view frames at their
position, vouches. `ReplicaStore` has the store transactions as operators from
a store to a store, named after the methods (`OnViewIn`, `OnEditsIn`,
`ParkPushIn`, `LandIn`, `StaleIn`, `FailureIn`, `InitializeIn`), and `Replica`
the passes that run them with the queues between the transport and the advancer.
A download's two halves advance independently (`OpenBlob`, `NextPage`,
`NextTail`), each push waits in `work` for a pass, and the call ends with an
outcome that waits in turn. `Restart` may start another build with other wants.

Decisions worth knowing:

* the epoch is constant (P14 ends the Engine in the code, "until that exists");
* a selector is the set of slices it covers;
* a blob may be cut up to `CutLag` positions behind the head, as caches are;
* a failing call kills both halves at once, and the retry's timer outlasts the
  pushes still queued;
* wants are purged at boot, as `#initialize` does;
* no gap ever arises in the edits a connection delivers, since nothing in the
  model prunes the log but erasures: `#onEditsIn`'s repair of one is modelled and
  stays unused;
* status and progress (P20, P21), lengths and checksums are left out;
* `MirrorsHistory` is claimed for histories without erasures (`Erases`), since P18
  lets a client keep an erased state until it reaches the erasure.

### Outbox

A mutation is its index in the order of numbering. `engine` is the Engine's
outbox, `#sent`, `#acked` and `#online`, with the cursor, the applied position
and whether the base is frozen. Of the base nothing else matters to a mutation.
The passes are those of the advancer, in its priority: `OnSubmitted` (the resend
first, then each submission under the next number), `FeedNext`, `Land` and
`OnEnd` (the inbox), `OnMutationOutcomes`, `OnConnect`. The transport is `Pump`
and `Reply` with a call in flight cut into requests of `Limit` mutations.
`PostFails` covers every failed post: retried on the same connection up to
`SendRetries` times, or the call fails with all behind it and the connection
ends. Whatever a client gave up on may be lost or stay in `net`, where the
database still decides it at any later time (`Abandoned`, `Decide`).

The database is one step for each mutation of a request, since a bounced proof
lets other requests in between (`server.rs` `decide`). It refuses invalid data
without a decision, answers ok at its head below the series' mark, and decides
otherwise. `Restart` keeps the stored outbox and starts a series of its own, as
the Engine's constructor does.

Three facts of the code that the properties reflect, all documented by it: a
resend of a rejected mutation is answered ok (`skeleton.ts` `sendOnlineMutation`),
a refusal of data moves no mark, and answers count from any connection. Left
out: the limit a 413 teaches, refused sessions, edits by other clients, the
predictions over the outbox. The base is taken to exist (`applied` is 0 or more).

### Keys

Times are in one unit, so `mint`'s cut to whole seconds is left out. A key's id is
drawn once. `OpenKeys` and `CloseKeys` are a server's life, with the requests the
writer has not committed lost at its end. `SignToken` is `mint` with a young key at
hand; `BeginMint` draws one, names the keys it sweeps (`Swept`) and asks the writer
for both in one commit; `CommitKey` is that commit, `EndMint` the task that takes
its answer, and `AbandonMint` the client that leaves before it: the lock is freed,
the request stays queued. `ClockSteps` moves the clock, never more than `Grace`
behind the latest time it has shown. `issued` is the tokens that have been valid at
every moment since they were handed out.

### Session

The calls that share a session are `Callers`: each is at one of its places (asking
for a fresh token, posting, waiting for the shared refresh, streaming, between
retries). Requests and rests take up to `Delay`, a fetch that hangs for longer fails,
and the database judges a token when it arrives: expired, revoked, or good. The
assumptions on the times are those of the code's own numbers, in small. `#fresh` compares the expiry with a time it took
before it awaited, as the code does. `excused` remembers what may end a session: a
revocation, a failed refresh, an app that came back too late.

### Cron

A spec's calendar is the set of times it names, and an `every` entry's slots its
multiples. The scheduler's wall clock may be stepped either way (`WallStepped`), its
sleeps are on the monotonic one and capped, and the process may be down across
slots. A tick's decision is dedup by the series mark, as in the writer.

### Pool

`run`, `try_run` and `queue_run` are calls that acquire a place, hold it, send their
job, and wait for the answer, each await a state a client may leave in. The
semaphore's queue is first come, first served. `stop` closes the queue at any time;
workers drain or drop what it held, as the race of the code's two ends allows.

### Overlay and Queries

A pattern is the set of keys it matches, and keys are numbered in their order. A
layer (`Overlay`) says of each key what is predicted, if anything; `NextBatch` fetches
through the layer and the base batch by batch, in sizes that grow, and `Record` adds
or extends the spans a query read. `Queries` has the passes: a base that lands, an
answer, a submission, a new query; each rebuilds the overlay (`Refresh`), runs every
query whose record meets what changed (`RunGraph`), and then calls the subscribers
one by one (`Notify`), from within which the app may add, close, subscribe and submit. A program is
what a query function reads: a get, a scan that may stop early, a read of the
status.

### KeyScan and KeyList

A key's text is a sequence of characters, since that the order of texts is the
order of the parameters is half of what the scan rests on: one character sorts
below the separators and may stand in a name. `Visit`, `Skip`, `WalkEnds` and
`ResumeBatch` are the steps of the walk with its seeks, its budget of keys examined
and its batches. `KeyList` has one action, a commit of any of `Changes`, either way
the code takes: key by key, or by sorting all.

### Unions and Wire

`SolveUnion` follows the solver: literals, single fields, discriminators, lengths
of tuples, and pruning under each. `Wire` reads and writes values under the types
of a model along those solutions, under both policies. Each exchange of a run is
one value read and sent back, or sent and read back by the strictest reader.

### Msgpack, Framing, Checksum and Blob

Bytes are bytes here, since what is checked is how they are cut, measured and
resumed. A body arrives in chunks of the given sizes, cut anywhere, and may end at
any byte; the buffer compacts and grows as in the code. `Blob` adds the pages a
download pushes, the engine that keeps each or loses the last, the range that is
honoured or ignored, the body of another position, and a byte that changed on its
way. A checksum is computed as the code does, on halves and limbs.

### Library

A room's tables as records, and each decider, predictor and cron hook as a function
from them. `Send` is a mutation of a patron or librarian through its predictor and
its decider, `SignUp` and `Administer` what the clerk does, `Ticks` the hooks.
`slips` collects what must not happen: a throw, a prediction of a synced Engine
that the database decides otherwise, a touch of another's holds, a hold that
closes without notice.

### Devstack and Timeline

Node runs one handler at a time, so a handler is an action. A turn (`TurnEnds`) is
`advance` over all stages, with the one slot for pre and post steps; keys, exits,
settled docker commands and timers ask for turns. `tracker` is what `running.json`
is to name and what it does name, which differ after a write that failed. `world` is
what lives outside: the children, the containers, what docker is still asked for
(`asked`, and `late` of a supervisor that died), and what earlier runs left. Docker
creates, starts and removes in actions of its own, and each may fail before it did
anything or, for a create, after.

A supervisor dies of a second quit or of a `panic`, which signal its children, or
of a kill from outside, which does not (`Killed`), and a kill may cut a turn short
(`KilledInTurn`): `SpawnMain` records each moment at which a process is started and
not yet in `running.json`, and the kill leaves one of these. A panic is taken
between handlers. The next supervisor takes the lock and goes through the file entry
by entry (`Restart`, `RecoverPid`, `RecoverContainer`, `Begin`), and may be killed
between any two. What it leaves alive is another's from then on: processes it
signalled end in their own time, beside its new ones; those it did not are
`forgotten`. `RecoveryForgetsNone` says which those may be: one started in the turn
of a kill, one of a file that could not be written, one whose arguments do not match.

The `Timeline` cuts chunks into lines, with carriage returns and line ends cut in
two, headless and on a terminal, wrapped to a width that changes and scrolled. A
step that waits for a line hears of each part of a chunk from within `log`, and logs
from there to the supervisor's own stream. A terminal too small to paint takes up
its scrolls when it has grown.

## The runs

All are for `tlc -workers 2 -config X.cfg M`, and finish in under four minutes
each. Bounds are the CONSTANTS named `Max...`; each stands in one guard. A property
named for a whole is the conjunction of parts that the module states one by one.

| run | shows | bounds, and why they are enough |
|---|---|---|
| `edit_log_series` | `TypeOK`, `CarriedOutOnce`, `OkIsDurable`, `RejectedLeavesNothing`, `ExpectationHolds`, `CommittedPositionsStand`: two mutations of a series, one with an expectation, and a tick, in any number of copies, group-committed and crashed | 3 positions, a queue of 2, 1 crash: two copies in one batch, a copy on either side of a commit and of a crash, and a decision whose expectation the group outdates |
| `edit_log_lifecycle` | the writer: `TablesAgree` (`StoreReplaysLog`, `SeqsChain`, `HeadSurvives`), `ReadsOwnWrites`, `CommitsWhatWasWritten`; beside it `LiveTokensVerify`, `CronHolds` (`SlotsDecidedInOrder`, `NeverOversleeps`), `PoolHolds`, `SessionHolds` (`NeverEndedInVain`, `HoldsTheNewest`) | 2 slices of 2 fields, 2 writes to a decision, 3 positions: birth, death or erasure, and rebirth in one or in several decisions, with the log's last edits erased; 2 keys over times on either side of a rotation and a sweep; a schedule of every 3 and one of a spec over times 0 to 7 with 3 steps of the clock; 3 calls, one of them `try_run`, for 1 worker and 1 place, so one waits, one is queued and one runs; 2 callers of a session, 1 retry and 1 mishap, so a refresh races a refusal and a late answer |
| `stream` | `ViewsHold` (`FiltersByViewTold`, `PublishedViewIsCurrent`), `StreamIsExact` (`CursorSkipsNothing`, `EachEditOnce`), `NoLostWakeup`, `NoStaleTokenStreams`, and `ClientCatchesUp`, with grants that widen, narrow and fail, erasures and a new generation | 2 positions, groups of 2, a backlog of 1 that overflows, cold windows of 1, 1 dropped connection or restart: a cold read, a hot read and a forwarded commit in one connection, a group a view change straddles, then a second connection |
| `replica` | `Consistent` (`BaseIsHistory`, `HoldsWhatItSees`, `CursorSkipsNothing`), `ViewIsTold`, `EngineNeverFails`, and the refinement `MirrorsHistory` | `FocusedInit` takes two kinds of behaviours, and counts what is not to happen as spent. Over births, a normal edit and a birth over a live slice, under one build and from the grant of both slices: 2 changes of the grant among both slices, one and none, so it can flip and flip back under a frozen base. Over an erasure of a live slice, under one grant: 1 fault anywhere, a download that fails as it opens, between pages or in its tail, a lost connection, or a restart into a build with or without a slice type. Blobs 1 behind the head in both, so a cached one may be older than what is held |
| `replica_catches_up` | `CatchesUp` | 1 failure of a download, 1 change of the grant |
| `replica_strands`, `replica_rollback`, `replica_cancels` | findings 1, 2 and 3 | |
| `outbox` | `DecidedOnceInOrder` (`CarriedOutInOrder`, `NothingSkipped`), `LeavesOnlyShown`, `OnlineTellsTheTruth`, and `OutboxDrains` | 2 mutations in requests of 1, 1 retry, 2 faults, 1 freeze, 1 refusal: a call behind a failed one, a retry that fails again, a late request decided after the next connection's or process's resend |
| `client_local` | `QueriesShowTheView`, `GraphHolds` (`SubscribersToldLatest`, `EveryQueryAnswered`), `StoreHolds` (`ExactScans`, `ListHoldsTheKeys`), `LibraryHolds`, `ConvertsWhatItIs`, `DownloadsAreWhole` (`BodiesReadAsSent`, `SnapshotIsWhole`) | queries: 3 keys in 2 slices, a query of any of five programs, 2 mutations, 2 changes of the base, batches of 1. Scans: stores of 6 or 8 of 8 keys, 9 patterns, forward and reverse. The list: 9 keys in blocks of at most 6, so blocks split, join and empty. The library: 3 copies of one book, 2 readers, 5 mutations, so a hold waits, is offered, expires or becomes a checkout. Conversions: unions of two and three types chosen so that each branch of the solver is taken. Bodies: chunks of 7 and 30 over a buffer of 8, pages of 2 operations or 9 bytes, 3 downloads of one blob |
| `queries_skips` | finding 4 | |
| `devstack` | `NothingForgotten`, `BooksAreRight` (`DownLeavesNothing`, `WhatLivesIsTracked`, `RecoveryForgetsNone`), `BootsInOrder`, `WalksToTarget`, `LogHolds` (`LinesAreThoseWritten`, `WrittenOnce`), `ScrollsByRows` | a container with a pre and a post step under a plain process, a command key, 3 keys and 2 faults, 4 of both together: a crash or a refusal of docker during a quit, a kill within a turn, and a recovery that is killed or that meets arguments that do not match; 2 streams, 5 inputs, 2 rows, 3 widths, at the least of which nothing is painted |

`CHECK_DEADLOCK FALSE` stands where the modelled system may really stop: the
app submits no more, the bounds on faults and grants are used up, and everyone is
done. In `edit_log_lifecycle` deadlock is checked for the writer; the other parts
may come to the end of their bounds, and stutter there.

### Fairness

Fairness is never for what the environment chooses.

* `Stream`: weak fairness of the writer thread's loop, the dispatcher's loop, the
  connection's task and the heartbeat timer (threads and tokio tasks run whenever
  they can). Strong fairness of connecting with a current token: the client tries
  again and again, its backoff is bounded and it refreshes a refused token, while
  another generation may close the way in between. Commits, drops, restarts and
  revocations are not fair.
* `Replica`: weak fairness of the feed, the advancer (every callback calls
  `#schedule`), and the downloads and their retry timers. The database, changes of
  the grant and all faults are not fair.
* `Outbox`: the database decides what reaches it, the feed delivers, a frozen
  base lands (`CatchesUp` is that claim), the passes and the transport run.
  Submissions, faults and freezes are not fair.
* `Devstack`: a turn that is scheduled runs (`setImmediate`), what was aborted or
  signalled ends, docker and the commands of recovery answer, a container that is
  told to stop obeys, and a command that is being killed ends. Steps and processes
  that nobody ended may run for ever, and so may what an earlier run left. The turns that `log()` asks for are left out, so nothing waits for
  output to be woken, and a child that fails to spawn is one that ends at once.

Faults are bounded, so each liveness property says what happens once they stop.

`SYMMETRY` is used over slices and fields in `edit_log_lifecycle`, which no
definition of that run's parts orders or names.

## Findings

1. **A download is stranded** (`replica_strands`, `skeleton.ts` `#parkPushIn`).
   When a blob's body breaks before its first page, after the tail has finished,
   the next call sends the header again, which resets `tailDone`, and skips the
   tail, which by the resume it was given is done. The call ends well, the
   backfill is never ready, and nothing will run it: the base stays frozen until
   the next connection. The documents promise that a resumed backfill skips a
   finished half and is ready to land (P17).
2. **A build that never connects loses a view** (`replica_rollback`,
   `skeleton.ts` `#initialize`). A narrower build filters the stored view's
   selectors and keeps its token. If it ends before a connection tells it a new
   one, and the wider build starts again, the token matches, no view frame comes,
   and what was purged is never backfilled.
3. **A cancel ends the freeze without a land** (`replica_cancels`, `skeleton.ts`
   `#onViewIn` and `#landIn`). A view frame that covers no backfill in flight cancels
   them all, and lands what parked. But the land waits while an edit is parked past the
   cursor, as one of the canceled backfill's tail may be, and nothing in flight is left
   to wait for. The base counts as unfrozen from then on: what the view dropped stays,
   the parked edits stay, and the next frames move the applied position past both. P8
   promises that nothing is kept of a slice the view does not cover, and P15 that such
   a cancel lands.
4. **A hidden key between two batches is not recorded** (`queries_skips`,
   `skeleton.ts` `batches` and `record`). A batch's span is cut back to the entry it
   handed out last, while the next batch goes on from the batch's own end. A key
   the overlay hides between the two is in neither span, and when it comes back the
   query is not run again.

`replica_catches_up` claims liveness for what is left of the first: its downloads
fail as they open, between pages and in the tail, and the `body` fault, which
strands, is `replica_strands`' alone. A restart, which the second needs, is in
`replica`, under one grant, which checks what holds in spite of it. The third needs
a slice with a selector of its own that lives before another is born, and the grants
of `replica` are of both slices or one. `client_local` asks
`QueriesShowTheView` of scans in batches of one, where a hidden key fills no batch
with an entry before it, and `queries_skips` of scans in batches of two.

### Notes from reading

Behaviour a maintainer may want to know of, which no document rules out, or which
no run isolates:

* writer: erasing a slice that is already deleted, and setting no key of it,
  returns before `slice_erase` and leaves the earlier edits in the log
  (`writer.rs:764`, `782`; `db/README.md:250-251`).
* downloads: a blob resumed after it kept a page of a body that had changed can
  never end well; the checksum refuses each try.
* keys: an abandoned mint leaves a stored key that never signs and is in no keyring
  until a restart. A clock set back by more than `KEY_GRACE` across a restart can
  strand live tokens, which is why `Keys` bounds the steps.
* session: `#fresh` compares with a time taken before its await; a 401 for an old
  token that is still on its way ends a session that was refreshed meanwhile; a
  refresh that succeeds after the session ended still replaces its token; resumed
  waiters present an ended session's token once more.
* cron: a clock stepped back while a hook runs lengthens the next sleep past
  `CRON_CAP`.
* pool: a job that is begun as the pool stops may run although its client was
  answered `Closed`.
* solver: optional literal fields count as discriminators (`solver.ts:155-165`);
  `json` items in a union of tuples overlap undetected (`267-276`); a member `json`
  beside a literal takes only other JSON types; pruning does not look into
  `HasField` (`345-405`); a lone struct is a bare match, so an unknown newer member
  is a `ConvertError` and not an `UnknownMember`.
* wire: of a repeated key whose last entry is dropped the earlier one is kept. A
  `Date` given for a record, or for a struct without required fields, is sent as an
  empty object and no error (`registry.ts:500-504`, `549-550`): only `null`, arrays
  and what is no object are refused.
* devstack: a container stage whose log follower exits is torn down without its
  `killSignal`; a kill while `docker create` is in flight leaves a container that
  `running.json` does not name, and a kill between a `spawn` and its `trackPid`
  (`devstack.mts:547-578`) a process; the children of steps are not tracked on a forced
  quit; recovery signals processes and does not wait for them (`2061-2087`), so one
  may live on beside the first stage, which the comment above it (`2041-2044`,
  "gets killed before this run spawns anything that could collide with it") does not
  say; it clears the file over a process whose arguments did not match or a container
  that docker would not remove; it never forces a container that is slow to stop; a key of a crashed
  stage above the target restarts it without moving the target; a crash cleared by
  a quit in the same turn exits with 0.

## The proofs

`EditLogProofs` proves, for every set of mutations, series, slices, fields and
values, and every bound:

| theorem | property |
|---|---|
| `TypeCorrect` | `TypeOK` |
| `TablesAlwaysAgree` | `TablesAgree`, from the next three |
| `StoreAlwaysReplaysLog` | the key-value store and the rows are what replaying the log gives |
| `SeqsAlwaysChain` | `SeqsChain`: dense, ordered, and after an erasure starting at a reset |
| `HeadAlwaysSurvives` | the writer's position is the log's head |
| `AtMostOnce` | `CarriedOutOnce` |
| `OkAlwaysDurable` | `OkIsDurable` |
| `RejectionsLeaveNothing` | `RejectedLeavesNothing` |
| `ExpectationsHold` | `ExpectationHolds` |
| `DecidersReadTheirWrites` | `ReadsOwnWrites` |
| `PositionsStand` | the action property `CommittedPositionsStand` |
| `CommitsAreFaithful` | the action property `CommitsWhatWasWritten` |
| `Invariance` | the inductive invariant `IInv`, which the others follow from |

That is each property of the writer the two `edit_log` runs check. They rest on
`MutationsAssumption` (a number names one mutation of its series, as each client
numbers its own, and a tick's slot is its number), `BoundsAssumption`, and the
assumptions of `WriteBuffer`, and on nothing else.

The inductive invariant is `IInv == TypeOK /\ TablesInv /\ PhaseInv /\ AnswersInv`:

* none of the properties is inductive alone. Replaying the log says nothing
  unless seqs are dense and in order, and whether a birth may reuse an erased
  slice's seq depends on the rows as well as the log. `TablesInv` is all of it,
  `Sound`, for `disk` and `txn` at once;
* `PhaseInv` ties the buffer, the position and the transaction to the phase: a
  writer with no batch open has `txn = disk`, and while a decider runs, what it
  reads (`seen`) is the transaction with its buffer over it;
* `AnswersInv` says of every answer, held in `after` or gone out, what the marks
  and the log have to say about its mutation; without the held ones an ok is not
  known to be durable at the moment it goes out.

The argument has three layers. `CommitKeepsSound` says that turning any buffer
into edits keeps a sound database sound; it needs one lemma for each part
(order, density, replay). `DecisionCommits` says what one decision does to the
marks, the log and the answers. Then each action has a lemma, and `NextIInv`
puts them together. TLC checks the properties in the runs; `IInv` itself holds
in the instance of `edit_log_series` with 2 positions and a queue of 1.

`StreamProofs` proves, for any slices, grants, mutations, connection ids, backlog and
cold window:

| theorem | property |
|---|---|
| `StreamExactAlways` | `StreamIsExact`: no edit missed at or below the cursor, none written twice |
| `StreamViewsHold` | `ViewsHold`: the types, `FiltersByViewTold`, `PublishedViewIsCurrent` |
| `StreamWakes` | `NoLostWakeup` |
| `StreamRefusesStaleTokens` | `NoStaleTokenStreams` |
| `StreamInvariance` | the inductive invariant `StreamInv`, which the others follow from |

They rest on `StreamAssumption`, whose content is that a mutation erases only what
it edits and that `NoConn` and `NoView` are no connection and no view, and on
`NoConnAssumption`. Nothing bounds the number of connections, drops or restarts, nor
the length of the log beyond `MaxPosition`.

That the cursor skips nothing is a statement about the client alone, and no step of
the server is allowed to break it, so its invariant has to say where each edit past
the cursor is. `StreamInv == TypeOK /\ CoreInv /\ ClientInv` has two halves, by the
two hands a commit goes through:

* `CoreInv` follows the results from the writer thread to the dispatcher. `PublishedBy`
  and `ViewBy` are the published position and the connection's view once the results
  before a given one have been dispatched. A commit's mutations start at the position
  published by then (`ResultHolds`), so its dispatch leaves no gap and queues none
  twice; the view by then is the one its batch's grant gives (`ViewsFollow`), so a
  commit is filtered by no older grant; the last account result carries the current
  generation (`GenerationsFollow`); and a registration waits for its one answer
  (`RegistrationHolds`).
* `ClientInv` follows the frames from the backlog to the client. `FramesHold` orders them:
  a view frame's position divides the commits before it from those behind it, and the
  view the frames lead to is the dispatcher's. `ItemsHold` and `FramesBring` are the
  heart: what the log read holds, and what the frames bring, cover each position past
  the cursor, the first up to `mark`, the second from there to the published position.
  Which of a position's edits have to come is decided by the last view frame short of
  it, or by the view forwarded so far when all lie past it (`Brings`); what only a
  later view covers, that view's backfill reads.
  `CursorHolds` says what the task's own copies (`cursor`, `told`, `selectors`) have to
  do with the client's at each step.

An overflow or an end frame stops the argument short of the published position, so
`FramesBring` is up to a bound that is the published position only while the
connection is active; and a commit queued between the switch to streaming and the
end of the hot catchup is in both the log read and the backlog, which is why the
bound of the first is the cursor and `mark` and not the published position. Each
action has a lemma for each half (`...Core`, `...Client`); the dispatcher's are
`EndsClient`, `FrameClient` and `UnseenClient`, for a connection that ends, that gets a
frame, and that has no frame of a commit.

`StreamInv` itself holds in the instance of the `stream` run.

`OutboxProofs` proves, for any kinds of mutations, limit of a request, retries and
queue, and any number of mutations, faults, restarts and freezes:

| theorem | property |
|---|---|
| `OutboxDecidedOnce` | `DecidedOnceInOrder`: the types, `CarriedOutInOrder`, `NothingSkipped` |
| `OutboxLeavesShown` | `LeavesOnlyShown` (P13) |
| `OutboxTellsTruth` | `OnlineTellsTheTruth` |
| `OutboxInvariance` | the inductive invariant `OutboxInv`, which the others follow from |

They rest on `OutboxAssumption` and on `NoPostAssumption`, that `NoPost` is no call.

What could go wrong is a gap: the database answers ok, unseen, a number at or below
its series' mark, so a mutation that another of its series overtakes is lost with an
ok. The properties speak of the decisions alone, and say nothing of the requests
that are still on their way, from this process or an earlier one, so none of them is
inductive. The invariant follows each mutation from the outbox to its decision:

* the *flow* is what the connection has still to carry: the call in flight
  (`PostIds`) and those behind it (`SendIds`). `SendsHold` and `PostHolds` say that
  it is in the order of the numbers, and `Cleared` that an outbox mutation below one
  of it was decided, is one the database refuses (`Done`), or is in the flow itself,
  ahead. A resend is sent with the flow empty (`ConnectionHolds`), which is why it
  may go back to low numbers;
* a request is a part of a call, cut so that all below it in the call is answered
  (`RequestHolds`), and stays so on the wire for as long as it is late: what is below
  its mutations is done or in the request. So `Decide` finds every outbox mutation
  below the one it decides decided or invalid (`AskedIsCleared`), which gives
  the order, and, with `NumbersHold`, that an ok at or below the mark is true
  (`AnswersHold`);
* @online mutations are never resent, so an outbox mutation may overtake one that was
  lost; `OnlineAhead` says that none overtakes one still in the flow, for which an ok
  would then be given unseen;
* `EngineHolds`, `OutcomeHolds` and `SettledHolds` carry the truth of answers
  (`TrueAnswer`) to the maps of the Engine and to the app: a mutation leaves the
  outbox with a proof that its decision is at or before the applied position.

History only grows (`Grows`), and what was decided stays so (`Persists`); each action
then has a lemma, named after it. `CallsOfIs` says what the calls of some mutations are (a
partition in order, an @online one alone), `NextRequestIs` what the next request of a
call is, `LeavesHolds` what a pass leaves the app with. To be reasoned about, `Outbox`
states the answers of an outcome and the split into calls in closed form and not by
folds. TLC checks `OutboxInv` itself on the states of the `outbox` run, and with three
mutations of which a request carries two.

`ReplicaProofs` proves, for any slices, histories, grants, builds, faults and bounds:

| theorem | property |
|---|---|
| `NoPushWithoutResume` | `EngineNeverFails` (P17) |
| `ReplicaTypes` | `TypeOK`, the first part of `Consistent` |
| `DownloadsAgree` | the inductive invariant `DownloadInv`, which these two follow from |
| `ViewsAgree` | `ViewIsTold`, while `NoWider` |

They rest on `ReplicaAssumption` and `NothingAssumption`.

`#parkPush` throws when a push other than a header finds no resume. Whether one can
is a question about four places that change at different times: the backfill's
record, the pushes queued for it, the outcomes queued for it, and the call that goes
on with a copy of the resume it was given. `DownloadInv` ties them:

* what a resume says was downloaded was: its header is that of its cut, its pages are
  the first `skip` of the blob's, nothing is edited between `visible` and the cut, and
  each edit from the cut to `from` is parked (`SnapshotHolds`, `TailHolds`). A finished
  backfill has every readable edit below its `until`;
* a push that is current goes on from what the record will be once the pushes before it
  parked (`ItemHolds`); at most one of each half waits, and a header alone
  (`QueueHolds`), which is what `#blobPages` and `#tail` await;
* the call's own copy is the resume once those parked (`CallHolds`, by how far the blob
  is), and where no call runs, nothing but an outcome waits (`DownloadHolds`);
* a push or an outcome of an earlier backfill or connection is not current
  (`QueuesHold`), so a selector that is dropped and granted again starts clean.

A pass folds over its queue, so `StoreHolds` is of a store, the queues, how much of
each was read, and the backfills gone on the way: `JudgingHold`, `ParkingHold` and
`ReadsHold` carry it through the folds, with one lemma for each transaction
(`...Holds`) and one for each action (`...Keeps`).

`ViewsAgree` adds `ViewInv`: the view frames that wait lead from the Engine's view to
the one the connection filters by (`Leads`), every one of them is covered by the
build's wants, and the Engine's view is what the wants keep of its token's selectors
(`KeptOf`). The last is what makes an equal token at `#onConnect` mean an equal view.
A restart keeps it as long as no build wants more than the build before it; finding 2
is the run where one does, so the theorem supposes `[][NoWider]_wants` and the runs
check the property with the builds that may start.

TLC checks `DownloadInv` itself on instances with every fault.

`KeysProofs` proves `KeysInvariance` and `LiveTokensAlwaysVerify`
(`LiveTokensVerify`), for every set of key ids and times and every `Rotation`,
`Grace` and `Lifetime`, from the assumptions that `Rotation` is at most `Grace` and at
most `Lifetime` (a day, a day and thirty in the code), and of a clock that is never
more than `Grace` behind the latest time it has shown, which `ClockSteps` guards.

A sweep names a key only when the grace and a token's lifetime have passed since it
stopped signing by one of the accounts of that: its successor's minting, or the
start of the process. `LiveTokensVerify` alone says nothing of the sweeps that wait
for their commit, nor of when a key may still sign. `KeysInv` adds that a token was
signed within a rotation of its key's minting and, with a key of a past process,
within the grace of the start (`TimesHold`, `PastHolds`); that ids are drawn once, so
a sweep never names a later key of the same id (`DrawnHolds`); that the key a mint
waits for is not swept (`MintHolds`, `MintTime`); that the signing key is this
process's own, and signs no more once a sweep names it (`SigningHolds`); and that no
pending sweep names the key of a live token (`SweepsHold`). `NoTokenIsSwept` is the
arithmetic at a sweep's drawing, `SweptIsSpent` and `SigningIsNotSpent` say that a
swept key of this process is spent and that a spent one does not sign, however the
clock is stepped.

`SessionProofs` proves `SessionInvariance` and `SessionAlwaysHolds` (`SessionHolds`),
for any callers and any lengths with `Delay < RefreshAfter` and
`RefreshAfter + (2 * SendRetries + 1) * Delay <= TokenLife`, which the code's own
numbers satisfy by far. That the session is not ended in vain is not inductive: it
needs that no token on its way is about to expire. `SessionInv` says so of each
place a request can be, by the age of the token it presents: a waiting caller's is
one shared refresh old, a post's as many delays older as it was sent again
(`PostDue`), and each of them, while nothing excuses the end, arrives before the
token's expiry. The n-th retry's bound is a product, so `RetryTimes` states the
little arithmetic the steps need.

`PoolProofs` proves `PoolInvariance` and `PoolAlwaysHolds` (`PoolHolds`) for any
finite set of calls and any workers; places are at least one, as both pools have
twice their workers. The count of places alone is not inductive: a step that gives
a permit back has to know that the job was in the queue or in that worker's hand,
once. `PoolInv` adds where each job is (`QueueHolds`, `HandsHold`) and how far it is
by where its call stands (`CallsHold`); `CallMoves` and `JobMoves` are the counting, once
for calls and once for jobs.

`CronProofs` proves `CronInvariance` and `CronAlwaysHolds` (`CronHolds`), for any
schedules, cap and minute. The core is what `SlotAfter` and `LatestSlot` return
(`Greatest` and `Least` over the times of a day, and division for an `every` entry);
then `MarksHold`, that the scheduler's marks are the table's but for the slot it
fires, gives the order across restarts, and `WakeHolds`, that the wake is at or before
the next slot of each entry looked at so far, gives that it oversleeps none.

## What is only model-checked, and why

* The rest of `Consistent`: that the base is the history's, that it holds what the view
  shows, and that the cursor skips nothing. Finding 3 shows that they do not hold of
  every instance, so a theorem needs a hypothesis that no edit is left parked with an
  unfrozen base, and on top of `DownloadInv` an account of what the frames on their
  way and the backfills still bring to each slice.
  It also needs that two selectors nest or are disjoint, as names and
  prefixes do (`selectorCovers`, skeleton.ts:2939-2945) and as the selectors of the
  runs do: `Selectors` are any sets of slices here, and over three slices with
  selectors that overlap in one of them TLC finds a dead slice brought back from an
  edit parked under the other selector.
* The safety of `Queries`, `Library` and `Devstack`, and of `KeyScan` and `KeyList`: no
  inductive invariant of them is proved.
* Liveness: `ClientCatchesUp`, `CatchesUp`, `OutboxDrains`, `WalksToTarget`. TLAPS
  has no reasoning about fairness that reaches them (`ENABLED`).
* The refinement `MirrorsHistory` as a whole. `History` uses no recursion, but
  facts about `Cardinality` over ranges of positions are inductions over data.
* `Unions`, `Wire`, `Msgpack`, `Framing`, `Checksum` and `Blob` use RECURSIVE
  operators, as the code recurses over its data, and what they compute for every
  input would be an induction over it. No module with a theorem reaches them.

## What is not modelled, and why

* One-off reads, registrations and their time to live: request paths of the server
  that no other part's state depends on.
* Logins, password hashes, proofs and rate limits: hashing and arithmetic on
  requests. What a token's life is, is in `Keys` and `Session`.
* The calendar arithmetic of cron specs: a spec is the set of its times.
* Interpreters of schemas, paths and read sets (`walk.rs`, `scan.rs`), the QuickJS
  embedding, the encoders of the database: pure functions over unbounded data.
* Of the formats, the forms for 2^16 items or bytes and more, and floats beyond
  their bytes. Answers of 416: a footer always follows the last page, so a range
  never starts at a body's end.
* Sockets, TLS, process set-up: I/O.
* The lowering and emitting of code, which is text without state; other examples
  and plugins; the Go and Python wrappers, which run the same generated Engine.
* Queries over several stores, the learning of a request's limit from a 413,
  progress and status frames of the replica, and several rooms of the library.

## How the plan went, and what is left

The order put first what everything else rests on: the log, then the stream that
shows it, then the replica that keeps it, then the mutations that change it; then
what a client does on its own over the replica (overlay, queries, store,
conversions, bodies), what stands beside the writer in the database (keys, cron,
pool, sessions), and the development stack. These are written. What is left, in
order:

1. `Feed`: the promise of a connection as a module of its own, with `Stream`
   shown to implement it and `Replica` built on it, so the two compose by
   refinement and not by description; and `EditLog` shown to implement `History`.
2. `Replica`: `BaseIsHistory` and `HoldsWhatItSees` as theorems on top of
   `DownloadInv`, one lemma for each transaction of `ReplicaStore`.
