# TLA+ models of torch-mojo-backend

torch-mojo-backend runs PyTorch on GPUs through Mojo and MAX. Two kinds of
mistake in it escape a test easily. In the *runtime* a mistake hangs or kills a
job once in a thousand runs: the collective watchdog, the flight recorder, the
teardown of process groups, the store operations and reports behind them, the
streams a collective or a compiled region runs on, the cache several processes
build a library in. In the *translation* of ATen operators to MAX graphs a
mistake puts an element in the wrong place for one shape in a hundred. This
directory models both, the first as state machines, the second as operators
compared with what ATen promises.

All paths below are under `src/torch_mojo_backend/`; `backend/` stands for
`mojo/tmb/backend/`.

## Inventory

| Component | State | Operations | Interacts with | Hard behaviour | Module |
|---|---|---|---|---|---|
| Completion queue of a communicator (`backend/watchdog.mojo`, `Tracker`) | words `T_HEAD..T_ASYNC`, segment table, segment pool, seqlocked slots with vendor events | `watch_commit`, `_retire_now`, `_drain`, `_poll_tracker`, reports | producer under the backend mutex; watchdog thread, draining thread and exit hook without it; recorder ids | three lock-free retirers, reuse of slots and events, a full table | `CallLedger`, `WatchQueue` |
| Claims, teardown, interpreter exit (`watchdog.mojo`, `backend/pg.mojo`, `distributed/process_group.py`) | `T_STATE`, `T_UNWATCHED`, `W_STOP`, `W_JOINER`, `W_CALL_*`, `W_RETAINED`, reaper cells; `closing`, `comms`; `_LIVE_WATCHDOGS` | `watch_claim/release`, `_poll_async`, `_fail`, `watch_exit`, `watch_stop`, `watch_destroy`, abort, destroy, shutdown, `__del__`, exit hook | the collectives library, whose calls may hang | who frees a communicator, joins under a mutex, deadlines against late returns | `WatchTeardown` |
| Flight recorder ring (`backend/flight_recorder.mojo`) | `H_NEXT`, slots with a version that is lock and seqlock | `_record`, `fr_link`, `fr_untracked`, `fr_done`, `_snapshot`, `fr_after_fork` | producer, stampers, dumping thread, forked children | reuse of a slot under a late stamp, torn dumps, fork inside a slot | `FlightRing` |
| Bounded store operations (`distributed/store_worker.py`) | job queue, abandoned flag, stuck count | `run`, `_serve`, `close` | desync reporter, recorder monitor | an answer at the deadline; abandoned jobs | `BoundedCalls`, `StoreWorker` |
| Desync reporter (`distributed/process_group.py`) | published incidents, index generation | incident and `resolved` lines, index rewrites | watchdog pipe, c10d store | late writes of an abandoned job, re-created groups | `DesyncIndex` |
| Recorder monitor (`distributed/flight_recorder.py`) | `_StoreState`: base, done, pending, failed, unacked | `signal_dump`, `claim`, `finish`, `poll`, attach/detach | store server, other ranks | restarted servers, failed dumps and acknowledgements | `DumpSignal` |
| Collectives of a process group (`distributed/process_group.py`, `backend/pg.mojo`, `backend/device.mojo`) | comm stream, staged buffers, coalescing block, recorded users | the collective methods, blocks, `record_stream`, frees | allocator, current stream, library groups | memory freed while the comm stream reads it; an unwound block | `CollStreams` |
| torch.compile backend: regions and streams (`torch_compile_backend/streams.py`, `compiler.py`, `collectives.py`) | regions, fences, MAX stream pool, handles of collectives | cut, plan, import, stage, execute, export, publish, fail | torch streams, MAX graphs, AOT's copies | an order lost between two regions or two streams | `GraphStreams` |
| torch.compile backend: operators (`aten_functions.py`) | none | one lowering per ATen operator | MAX graph operations | indexing at boundaries, backward formulas, ties and NaN | `MaxOps`, `AtenLowering`, `AtenCalls` |
| Native library cache (`native/__init__.py`) | the library, its mark, a lock file, scratch directories | `build`, `_install`, `load`, fallback | other processes, a network home | a process that dies mid-build, a replaced library | `LibraryCache` |
| NCCL group folding (`watchdog.mojo`, `Groups`) | per-library levels, folds, deferred recorder entries | `group_enter/add/exit`, `_fr_submit`, `groups_forget` | queue, recorder | nested groups of several process groups | none |
| Pinned host memory, uploads (`backend/device.mojo`) | pinned blocks with callback counts, `pending_host`, quarantine | alloc, free, copies, drains | driver callbacks | partial failures of an upload | none |
| Kernel loader (`backend/loader.mojo`) | build cache directories, loaded libraries | build, lock, rename, load | other processes | a process that dies mid-build | none |
| mojoccl (`mojo/tmb/ccl/`) | symmetric memory, mailboxes, exchange ring, credits | bootstrap, collectives, progress thread, transports | peers, NIC, kernels spinning on words | released requests while the thread sleeps, timeouts, aborts | none |
| Kernels | data | numerics | MAX, PyTorch | numerics, covered by comparison tests | none |

What makes each one correct, in a sentence: the queue never retires unfinished
work nor loses an entry in flight; a communicator is torn down once and nobody
touches a freed watch; the process ends even if the library hangs; a recorder
entry never mixes two calls and a stamp is neither lost nor misplaced; a store
operation has one outcome, and blocked ones are bounded; the store's index of
stuck collectives never goes back; a dump generation is served, and acknowledged
only once a dump that follows it is written; memory is not reused while a
stream still uses it; the order a program asked for survives its compilation;
a lowered operator computes ATen's; a library that does not load here can always
be replaced.

`PROJECT.json` lists every component with its status and every hazard with the
line where it bites and the properties that cover it (or why none does yet).

## Modules

| Module | Models | Abstracts |
|---|---|---|
| `CallLedger` | what a queue promises of the calls it is handed | table, slots, events, retirers |
| `WatchQueue` | one communicator's queue: each load, store, compare-exchange and driver call is an action | argument words of a slot as the number of the call they describe; the clock (timeouts and deadlines may pass at any time); the library call as "work enqueued" |
| `WatchTeardown` | claims, polls, reports, reapers, destroy and exit over several communicators, user threads, the watchdog and the exit hook | a queue as one bit (work in flight), timeouts at any time |
| `FlightRing` | the recorder ring word by word, and fork | the descriptive words of an entry as one word; flags and link as one word |
| `BoundedCalls` | what a caller of the store worker is promised | threads, queues, the lock |
| `StoreWorker` | the worker: its queues, its threads, its lock sections | what an operation does at the store |
| `DesyncIndex` | the reporter of stuck collectives on top of `StoreWorker` | the text of records and reports |
| `DumpSignal` | the dump signal: attach, poll, claim, write, acknowledge, and the store server that may restart | a worker call is one step with three outcomes; backoffs are time |
| `CollStreams` | every collective method's enqueues, staging, fences, blocks; frees and recorded users; the device executing streams | sizes and data: a buffer holds one tag |
| `GraphStreams` | cut of a traced program into regions, MAX's stream plan, fences, collectives, epilogue, failure | the graph's arithmetic: an item is a node's effect |
| `MaxOps` | MAX graph operations, from how the lowerings use them | numbers are polynomials in the elements of the inputs |
| `AtenLowering` | some sixty functions of `aten_functions.py`, by their names | dtypes, devices, symbolic dimensions, what raises |
| `AtenCalls` | calls of these operators, their lowering, and what ATen says of the result | |
| `TorchCompile` | composes `GraphStreams` and `AtenCalls` | |
| `LibraryCache` | several processes on one cache of the native library | the compiler, file contents |
| `CollStreamsInv` | the inductive invariants of `CollStreams`, and the relations its proofs follow a host step by | |
| `*_proofs` | theorems about `WatchQueue`, `WatchTeardown`, `FlightRing`, `StoreWorker` and `DesyncIndex` (one module), `DumpSignal`, `LibraryCache`, `CollStreams`, `GraphStreams` | |

### CallLedger and WatchQueue

`cpc` is the producer's step inside `watch_commit`; `rpc[r]`/`loc[r]` are the
step and the locals of the three retirers ("dog" the watchdog thread, "prod"
the producer inside `_retire_now`, "down" the thread that destroys the group or
exits). `mem` holds the slots by segment, `segs` the table. A slot's event is
named by its place, because the code creates it once and re-records it: so a
query through a stale pointer sees the record of the slot's *new* owner, which
is the interesting case. The stream completes in order (`completed`), or stops.
History: `log` (the commit behind each index). `seq` is one word for a slot's
sequence number, `work` one word for the others (arguments, issue time, `S_FR`).

The code's acquire/release accesses are modelled as sequentially consistent;
weaker memory orders are not covered.

`CallLedger` is what the recorder, a drain and a reader of incidents may rely on,
in sets of numbered calls: a call is queued or dropped; retiring takes a finished
call and everything before it out of the queue; only calls that left are stamped;
an incident names the oldest call (or one that was, when it was begun) and never an
earlier one than the last. `WatchQueue` satisfies it (`CallsKept`) with `queued` the
calls of `log` from the tail to the head, `left` those before the tail, `open` a
commit in progress.

### WatchTeardown

`Threads` are the users, the watchdog ("dog") and the exit hook ("exit"). Three
loops over the communicators share one set of actions (`Claim`, `ClaimLost`,
`Abort`, `Aborted`, `Release`, `LookOn`/`LookOff`, `Scan`): the destroy's,
`_abort_all` and `_exit_cleanup`; `job` says which one a thread runs. `torn` and
`aborts` are the library's view of a communicator, `byCall` the history of
`_cancel_reaper`'s last look.

Merged steps: `T_UNWATCHED` is stored with the claim that precedes it, the three
stores of `InCall.__enter__` with each other. The clock is gone: a grace, a
timeout or a reaper's deadline passes at any time. A library call on a
communicator returns at any time, or never. `_arm_reaper` may fail.

### FlightRing

`F_VER` is both lock and seqlock. `rid[t]` is the entry (record id + 1) a writer
works on. `Fork` replaces the process by its child: writers and the dump are
gone, words stay, and `Released` is `_after_fork_in_child` -> `fr_after_fork`.
The model has one fork, after which the child only dumps.

### BoundedCalls and StoreWorker

`BoundedCalls` has three actions for a call (refused, answered, given up) and one
for an abandoned operation that returns. `StoreWorker` has the caller (`pc`, `job`,
`ret`), the worker's fields (`cur` for `_jobs`, `stuck`, `latest`) and one row per
thread and per job; a thread is numbered by the job it was started for.
`DesyncIndex` and `StoreWorker` both satisfy `CallsBounded`, the abstract
specification under `calling <- pc # "idle"`, `late <- Blocked` (the threads whose
caller gave up and whose operation has not returned).

### DesyncIndex

One rank's reporter and every write that can reach its index: the jobs of the
worker, those of its abandoned threads, and one write left by the same rank's
previous incarnation of the group. A job is the compare-and-set loop of
`_set_index` with its record operations; a compare-and-set may land although its
answer is lost (`SwapUnanswered`). Generations are numbers, the clock that
seeds them is the constant `Clock`.

### DumpSignal

A process with a monitor thread (`m`), a desync reporter (`i`) and a main thread
that attaches and detaches (`a`), and the server (`inc`, `gen`, `key`, `acks`).
Peers signal through the server's words alone. A store call answers, is given up
(its operation may land later: `late`), or fails because the server it was
connected to is gone. `covered` is what the written dumps follow, per incarnation;
`straddled` are the servers acknowledged at for what another one had said.

### CollStreams

The host only enqueues: one host call is one step, and the device then executes
any stream that has work. A buffer is a role of a call (input, output, the
caller's own, and the staged ones). `val` is what it holds, `gone` the memory the
allocator took back once the owner stream passed every recorded user. In a
coalescing block the vendor library submits nothing before its group ends, while
mojoccl submits at once; both are in one run.

### GraphStreams

A traced program is a sequence of nodes in contexts. `Partition` and `StreamOf` are
the compiler's decisions, `RunControl`, `RunGraph` and `RunFails` what one region
does. A stream is the set of the items queued on it or waited for by it, so an
item's `past` is what is ordered before it; two runs of the same program, eager
and compiled, are compared as orders, not as schedules. `ran` is what was queued.
What the code does node by node is a fold in the order of the nodes (`InTurn`).

### MaxOps, AtenLowering and AtenCalls

`MaxOps` is the external vocabulary (slice, gather, scatter, pad, concat, reduce,
sort, contractions). A number is a polynomial in the elements of the inputs, so
one evaluation compares two computations for every content of the tensors, and a
gradient is a derivative taken term by term. Numbers that an order looks at
(sorts, searches) are small integers, the infinities and NaN; a sort of MAX's answers
nothing for a lane with a NaN (`Ranked`), because its order is not known.

`AtenLowering` has one operator per function of `aten_functions.py`, with the
function's name. `AtenCalls` enumerates calls (`Layouts`, `Gradients`, `Orders`),
lowers one per behaviour and states ATen's result independently: `Laid` by where
each element comes from, `Adjoint` by differentiating the forward, `Ordered` by
counting what precedes an element.

### TorchCompile

A behaviour of `CompileSpec` schedules one program or lowers one call. The two
halves of the backend share no state, and neither module reads the other's
variables; they are composed so that one run checks the backend.

### LibraryCache

`out` and `mark` are the files that matter, `holder` the lock; a process is a
program counter, what it holds in scratch (`tmp`) and whether it may take the
shipped library (`pre`). The fallback looks at the mark under the lock and at the
file after releasing it (`LookKept`). A copy, a compile, an install or a rename may
fail (`BuildFails`). A crash returns a process to the start and releases its lock, and
leaves the files as they are.

## Runs

| Run | Bounds | Distinct states | Shows |
|---|---|---|---|
| `queue_wrap` | 3 segments of 1 slot, limit 2, 4 calls, a drain | 2.2 M | the table wraps and segments are pooled while entries are in flight, a commit is dropped for a full table, a report races a reuse; the queue implements `CallLedger` |
| `queue_live` | 2 segments of 2 slots, limit 2, 3 calls, driver faults, drain, exit or abort, fairness | 310 k | binary search inside a segment, failed events and queries; commits return, finished entries are stamped |
| `queue_drain_claim` | 2 segments of 1 slot, limit 1, 2 calls | | violation: a drain succeeds over a dropped call |
| `queue_line` | 2 segments of 1 slot, limit 1, 3 calls | | violation: a report line names another call's recorder entry |
| `flight_ring` | 2 slots, 3 entries, 3 marks or stamps, producer and one stamper (the producer stamps too), a fork | | the ring wraps under late stamps, marks and dumps |
| `teardown` | 2 communicators, 2 users, 2 calls, both actions | 2.6 M | every pair of abort, destroy, watchdog abort and exit |
| `teardown_live` | 1 communicator, 1 user, 1 call, fairness | | exit and stop end |
| `desync` | 3 jobs, 5 generations, 2 communicators, 2 incidents, 2 rounds of the loop, 1 error, at most 1 stuck job or any number, fairness | 1.4 M | the worker implements `BoundedCalls`; the index only moves forward; an ended group that was told so lists nothing; an incident is acknowledged |
| `dump_signal` | 2 generations, 1 trouble, 1 attach, fairness | 690 k | an acknowledgement has a dump behind it, but at servers where a call acknowledged for another one; no generation is forgotten; a signal is served |
| `coll_streams` | 2 calls of 9 kinds, both libraries, dense or strided, 1 raise | 2.3 M | no enqueued work touches freed memory; a waiter reads results; a block that ended leaves nothing |
| `graph_streams` | 4 nodes on 3 streams, 1 collective, 1 wait; about 3200 ATen calls on tensors of at most 24 elements | 1.3 M | eager order, reads after writes, settled transfers; layouts, adjoints and orders are ATen's |
| `library_cache` | 3 processes, locks, 2 crashes | 520 k | a shipped library is never visible without its mark; a failed load has been overtaken |

Three one-slot segments are the smallest table in which an index can wrap onto
a row whose segment was pooled and mapped elsewhere (`_full` keeps one row
free); four calls fill it once and reuse it once. Two-slot segments add the
search inside a segment and a segment that is only half retired. Two ring slots
and three entries overwrite each slot's entry while a stamp for the old one is
under way. In the teardown two communicators are needed for "another claim
still in progress", which is what a release looks for; two calls let one thread
abort while the other's collective hangs.

Three jobs let one be abandoned, a second start on a new thread and a third
follow both; five generations are two more than the clock of the incarnation.
One trouble is one fault in a run of the dump signal; two at once (a restart
during an acknowledgement that was given up) are not covered. Two collectives
are enough for a buffer of the first to be freed and reused by the second, and
for a block with two calls of which the second raises. Four nodes on three
streams hold a tensor node, a stream operation and a tensor node on another
stream with a collective between them, and a region with two side streams. The
ATen calls have every argument around its ends (negative dimensions, indices one
past both ends, empty and full diagonals, steps that do not divide).

Deadlock is not checked: all of these systems may stop (no more calls, a GPU
that never finishes, a process that exited, a program that ended).

### Fairness

- `queue_live`: weak fairness of the watchdog's polling loop, of the commit in
  progress and of the drain loop. These are loops of running threads in
  the code (`_watch_main` polls every `POLL_S`; a commit and a drain never
  block). Neither the GPU nor the caller is fair: work may never complete and
  no further call need come.
- `teardown_live`: weak fairness of the watchdog thread, of the exit hook
  (without its library calls) and of the reapers' deadlines. `Aborted` and
  `CollReturn` are not fair: `ncclCommAbort` or a collective may hang forever,
  which is what the reapers are for.
- `desync`: weak fairness of the reporter's own steps (its timed wait, which ends
  by answer or by deadline, the acknowledgement and the close). The store owes
  nothing: an operation may block forever.
- `dump_signal`: weak fairness of the monitor's loop and of the reporter, and of
  the store client's unblocking (its socket has a timeout); strong fairness of a
  poll that is answered, for the store may be down again and again but not
  always when it is asked.

### What the violations show

`queue_drain_claim`: after a dropped commit the queue has no trace of the call,
so `watch_drain` returns True while its work is still on the stream, although
`tmb_pg_destroy` says it tears down "once this rank's collectives completed"
(`pg.mojo:340`). It needs a whole table in flight (about a million collectives)
in production; the tests lower the limit.

`queue_line`: `_device_timeout` reads `S_FR` after `_pending` re-checked the
tail, so the number on the machine-readable line may be another call's; the
module's comment (`watchdog.mojo:20-21`) says that "slots are seqlocked (every field
an atomic word), so a read racing a reuse is detected, not torn". Everything else on
the line (`IncidentUntorn`) is consistent.

## Proofs

Every safety property the passing runs check of `WatchQueue`, `WatchTeardown`,
`FlightRing`, `StoreWorker`, `DesyncIndex`, `DumpSignal`, `LibraryCache`, `CollStreams`
and `GraphStreams` is also a theorem, for every value of the constants the module's
assumption allows. The assumptions are named in the modules that declare the
constants; nothing else is assumed. TLC checked each inductive invariant on the run's constants as well.

`WatchQueue_proofs` proves, for every segment size, table size, limit and number of
calls, with and without driver faults (`WatchQueueAssumption`):

- `RetirementIsSound` (`RetiredOnlyWhenComplete`), `NothingInFlightRecycled`
  (`InFlightIntact`), `DoneNeverPassesRunning` (`DoneIsComplete`),
  `StampsFollowTheTail` (`StampedOnlyRetired`), `IncidentIsOneEntry`
  (`IncidentUntorn`), `EveryCallAccounted` (`CommitAccounted`)
- `IncidentsMoveOn`: the action property `ReportedOnce`
- `QueueImplements`: every step is one of `CallLedger`'s or leaves its view alone
  (`CallsKept`)

The invariant `IInv` has layers. `Logged` and `Accounted`: commits are numbered in
order, each call queued or untracked. `Mapped` and `Owned`: the rows from the tail's
to the head's are distinct rows of the table, and a segment is in one row or at one
place of the pool; so no live row is recycled, and a fresh segment exists whenever
the pool is empty (a pigeonhole on the `NSEG` rows). `Written`: the slots in flight
hold what was committed, and only the producer's slot has an odd version. `Retired`
and `Retiring`: what a retirer has read describes the queue *unless the tail moved
since it loaded it*. That clause is what is not in the code as a test: between the
load of the tail and the compare-exchange a retirer may search recycled slots and
find any boundary, and only the exchange tells. `Reading` and `Reporting` say the
same of the watchdog's copy of the oldest entry, and that a forgotten report is of
an entry the tail has passed.

`FlightRing_proofs` proves, for every `Size`, `Stampers`, `MaxRec` and `MaxCalls`
allowed by `FlightRingAssumption`:

- `TypeCorrect`: `Spec => []TypeOK`
- `SlotsUnmixedAlways`: no released slot mixes two entries
- `StampNotLostAlways`: a completed `fr_done` is not lost while the ring keeps the entry
- `SnapshotWholeAlways`: kept copies are whole, and the entry looked for
- `ChildMissesNothing`: a dump in a forked child misses at most the oldest entry
- `FirstStampAlways`: the action property `FirstStampStays`

None of these state properties is inductive. The invariant is

    IInv == TypeOK /\ HeldOnce /\ Targets /\ Gone /\ Learned /\ Content
            /\ StampNotLost /\ Copied /\ SnapshotWhole

`HeldOnce`: a writer past its lock holds its slot's odd version and no two
writers hold one slot, which makes "under the lock" a fact. `Targets` bounds the
entries that marks and stamps may name by those recorded. `Learned` is what a
writer knows from a test under the lock (the slot is still its entry's, its
stamp word is still empty). `Content` says which words of a slot agree with its
id at every point of a recording. `Copied` is the seqlock argument: if the
version is still the even one the dump read, then every word already copied
equals the slot's. Each step's effect on the writers' steps is stated once
(lemmas on moves, frames and held slots), then each conjunct has a lemma.
`ChildMissesNothing` adds two clauses: `Kept` (the slots hold the last `Size` entries,
but for the one being overwritten) and `Child` (after a fork no slot is locked, none
changes, and the dump has collected every entry its cursor passed).

`WatchTeardown_proofs` proves, for every number of communicators `N`, every set
`Users` and the other constants allowed by `WatchTeardownAssumption`:

- `TypeCorrect`: `Spec => []TypeOK`
- `AbortedAtMostOnce`: no communicator's `ncclCommAbort` starts twice (`TornOnce`)
- `NeverQueriesTorn`: the poll asks the library about live communicators only
  (`QueryOnLive`)
- `NobodyInFreedWatch`: nobody is inside a freed watch (`FreedUnused`)
- `DestroyLeavesNothing`: it is freed only when all is torn down (`FreedAllTorn`)
- `ReaperIsLetGo`: the exit hook's reaper outlives it only for a library call in
  progress (`ReaperLetGo`)
- `ClaimsAreKept`: the action property `ClaimStands`

`TornOnce` alone is not inductive: nothing in it says that a thread about to call
`ncclCommAbort` is the first. Its invariant is `TypeOK /\ Own`, where `Own`
says that a thread between `watch_claim` and `watch_release` is at a communicator
(`AtComm`) whose state is CLAIMED (`OwnsClaim`) and where no other thread is
(`OneOwner`); that a poll holds the state it took until it stores LIVE back
(`PollHeld`), which is why that plain store undoes no claim; and that a
communicator is untouched until its owner's abort (`UnclaimedLive`,
`ClaimedLive`). `OwnMove` covers every step that changes no state word and takes
no claim; the six steps that do have a lemma each. The argument uses neither the
backend mutex nor the join: the state word alone gives exclusive teardown.

The other three need both, in three more layers. `Closing`: who holds the mutex, that
one thread at most destroys the group, that it has taken the handle and waited for
the hook's calls, and that a join saw the watchdog end; after the free nobody is left
and nobody comes (`Quiet`). `Tearing`: a claimed communicator is gone or its owner is on
the way to tear it, one that left the table is about to be claimed, and the destroy's
loop has found or made a claim on all it passed. `Reaping`: the hook arms its reaper
once the watchdog has ended, and one it leaves armed is a releasing thread's to cancel
unless a call was in progress, a destroy's included. `WatchTeardownAssumption` keeps the users' names apart
from the values of the mutex and the joiner.

`LibraryCache_proofs` proves, for any set of processes and any number of crashes
on a file system that honours locks:

- `FallbackAlways`: a shipped library is never visible without its mark
  (`FallbackPossible`). `IInv` adds that whoever is between the lock and its release
  holds it (`Exclusive`), that the mark is there from before a shipped library is
  installed (`MarkedFirst`), and that a mark is removed only while there is no
  library (`Unmarking`).
- `FallsBackAlways`: while nobody dies, a process ends without a library that
  loads only because another came between (`LoadFallsBack`). `LInv` says what each
  step of a process that may still fall back has found: marks stand while a
  shipped library is there, or were left by an install that failed (`Marks`), a process compiles only without one
  (`Building`), what it holds in scratch fits its stage (`Stages`), what it loads it
  has found (`Finds`), and who put a shipped one back is another (`PutBack`).

`DesyncIndex_proofs` proves, for any number of jobs and threads and any limit,
that the worker implements `BoundedCalls` (`WorkerImplements`): every step is a step of
the abstract specification or leaves its variables alone. The invariant `WInv` says
that threads not yet born have nothing (`Fresh`), that the newest thread serves the
newest job and no other (`Serves`, `Elsewhere`), that an abandoned job has nobody
waiting (`GivenUp`), and that `stuck` is the number of blocked threads (`Counts`),
which is what bounds them. The last part needs the cardinality of a set that gains
or loses one thread.

It carries this over to the reporter (`ReporterImplements`), and
proves that the index only moves to newer generations (`IndexMovesForward`): a writer
that is about to compare and set names a generation above the one it read
(`Newer`), whichever job, thread or incarnation it belongs to.

`EndLeavesNoIncident` (`EndedMeansEmpty`) stands on `EmptyInv`: generations of this
incarnation are above the stray write's, the newest generation names what is published
(`NamesPublished`), a job that answered True left the index at its generation or found
it above (`Written`), and so a True tells the reporter that the index is at the latest
(`Told`), which names nothing once the group ended (`EndsEmpty`).

`DumpSignal_proofs` proves, for any number of generations, faults and attaches
(`DumpAssumption`):

- `AcknowledgedIsDumped`: an acknowledgement has a dump behind it (`AckMeansDump`), at
  every server but those where a call acknowledged what another one had said
  (`straddled`: see the known gaps)
- `GenerationsAccounted`: each generation is in one place (`NoGenerationLost`)

`Servers` says that nobody knows of a server before it runs, `Identity` that a state is
of one server while it lives and that claims name the state they were taken from.
`Whole` is the accounting, of the claims of both threads at once: a claim of a state that
was replaced meanwhile (`sid`) changes nothing of the new one. `Signalled` and `Claims`
bound what is claimed by what was signalled at the running server. `Dumped` follows the
dumps: whatever is, or may yet be, acknowledged, by a thread, by a state's retries or by a
write that lands late, has one behind it. The base of a state moves over the finished
prefix; that the prefix ends is a least-element argument over the well-founded order of
the naturals (`LeastOf`), the form of induction the provers take here.

`CollStreams_proofs` proves, for any number of calls and of raises, any set of
collectives and either library (`StreamsAssumption`); its invariants are defined in
`CollStreamsInv`:

- `ReleaseIsLast`: nothing enqueued or queued in the library's group touches memory
  that went back to the allocator (`NoUseAfterRelease`)
- `BlocksEndEmpty`: no block leaves anything for the next (`BlockLeavesNothing`)
- `ResultsKept`: whoever waits for a `Work`, and then reads, reads what the collective
  leaves in the tensors it was given (`ResultsInOrder`)

`NoUseAfterRelease` speaks of memory that is gone; what keeps it true lies earlier, when
an operation is enqueued and when its buffer is freed. `StreamsInv` (`Invariance`)
follows a buffer through both. `Guarded`: an operation on a live buffer is on the
owner's stream, or on a stream recorded on the buffer, or on the comm stream with the
fence deferred by the open block. `HeldAlive`: what a block defers is alive, so
nothing is freed before its fence is made. Hence whoever frees knows every stream
to wait for, and `Ordered` holds: a release is behind each operation on its buffer,
on its own stream or by what it waits for on another. `GoneUnused` is the theorem's
statement for the streams. Tensors of a call that raised halfway are left out, as
`Fenced` says. The collectives enter through one relation (`Collects`): each is a batch
of operations on its own buffers that makes or defers a fence for every tensor it was
given, one lemma per method. Steps fold over sets of buffers and over the library's
group; that a fold stays inside what its steps keep is proved once (`SetClimbs`,
`FoldStays`), by the least size of a set where it would not.

`ResultsInOrder` speaks of a read that happened; `ValueInv`, which is inductive beside
`StreamsInv`, says what the streams hold before it does. It looks at the comm
stream's operations followed by the group's, the *line* they will execute in. `Sound`
says of each call that did not raise: every operation of it finds on the line before
it, or in memory, what it has to read (`Flows`), so a copy back is behind the library's
operation and that one behind the copy in, whether or not a group held it up; none
passes the producer of the call's input (`Ahead`); and wherever its caller may look,
the tensors it still refers to end with the expected value. That is: in an open block
once the deferred copies back are made (`Member`), after the event of its `Work`
(`Work`), and at the point a consumer still to run waits for (`Used`). Each method is
followed operation by operation (`Doing`) to the line it leaves (`Given`), the copies
back of a block in any order (`Returning`). An execution shifts every point of its
stream by one (`Shifted`). A free is a further operation that nobody still reading
meets (`FreeFine`), and memory goes only when no call needs it (`ExecuteUnneeded`): here
the two invariants meet. `Sides` keeps the producers, consumers and releases on the
caller's streams.

`GraphStreams_proofs` proves, for any side streams, any length of the traced program
and any number of collectives (`GraphAssumption`):

- `ProgramEagerOrderKept`: items that meet in memory keep the order the program gives
  them (`EagerOrderKept`)
- `ProgramReadsAfterWrites`: nothing is read before it is there (`ReadsAfterWrites`)
- `ProgramTransfersSettled`: memory outlives the transfers that use it, also when the
  execution of a graph raised (`TransfersSettled`)
- `CompiledInOrder`: all three hold of `CompileSpec`, the whole backend

The properties speak of a program that is over; `GraphInv` says what the streams hold
at each region. Between two regions (`Outside`) MAX's main stream holds all that ran and
the transfers it waited for (`Had`, `Settled`), and each torch stream holds, with the
copies they end with, the operations the eager program would have ordered before the
region on it (`Follows`). This is where the compiled streams and the eager ones are
compared: the two never hold the same items, and a region's fences make up for it at
its end only. Inside a region (`Inside`) the main stream and every side stream of its
pool hold all that came before, for every context of the region at once (`Ready`), and
so whatever MAX queues on any of them is behind it. `Sound` is what remains true of the
items queued, and all that is left of a graph that raised. `Cut` says what compiling
promises: numbers that rise by one where a region starts, one side stream for each
context. A fold over the nodes is handled by what its steps keep and let grow (`Climbs`),
by the same least-size argument as in `CollStreams_proofs`.

What stays with TLC, and why:

- Liveness (`CommitReturns`, `FinishedIsStamped`, `ExitEnds`, `StopStops`,
  `IncidentAcked`, `SignalServed`): fairness and ENABLED are out of the provers' reach.
- `LayoutIsAten`, `BackwardIsAdjoint` and `OrderIsAten` of `AtenCalls`, whose lowerings
  fold over shapes and polynomials: what they compute for every input is induction over
  data. TLC compares them with their reference definitions on bounded inputs.

## Gaps met while modelling

These are behaviours of the code that a comment or a docstring does not lead one
to expect. The models either contain them and state properties that allow for
them, or exclude them by a bound, as said.

- A call from a thread other than the one that opened a coalescing block can
  unwind that block (`distributed/process_group.py:621`; the comment at line 1208
  speaks of the block's own calls). `CollStreams` has one calling thread.
- A partial raise inside a call leaves its caller's tensors unfenced
  (`process_group.py:1147`, `:1261`): `Fenced` in `CollStreams` allows for it.
- The fallback from a shipped library looks at the file and at its mark in two
  steps (`native/__init__.py:779-791`), so a process can find a library another one
  put back: the second half of `LoadFallsBack`. Without file locks a shipped library
  can be left without its mark (the docstring at line 293 excludes it); the run and
  the theorem assume locks. A process that dies between removing a library and its
  mark leaves a mark that a later loader applies to a compiled library (against
  line 783); `LoadFallsBack` is stated for runs where none dies.
- A `wait_tensor` on a collective that an earlier compiled region started orders
  nothing (`torch_compile_backend/compiler.py:1195`): that region has waited for the
  transfer itself. `EagerNode` says so.
- A poll that read its generations before the store was restarted at its address
  acknowledges them at the new server, through a client that reconnects by itself
  (`distributed/flight_recorder.py:1013`): whoever fires there does not wait for a
  dump that is never written, although "an acknowledgement means a file is there"
  (`process_group.py:551`). An incident straddles a restart in the same way (`:554`;
  its claim at `flight_recorder.py:1061` may be on a state of either server). The
  model has both. `AckMeansDump` and its theorem exempt exactly the servers
  acknowledged at that way (`straddled`); without the exemption TLC finds such a
  poll in the run `dump_signal`.
- An install that fails after the mark was made leaves the mark
  (`native/__init__.py:480-481`): a library another process compiles is then marked
  as shipped, and removed by one whose load of the shipped one had failed.
  `BuildFails` has it, and it is the last case `LoadFallsBack` allows for.
- `sort`, `topk` and `kthvalue` hand a NaN to MAX's selection as it is
  (`aten_functions.py:633-658`, `:775-791`), and `argmax` and `amax` to its
  reductions; MAX's order has no place for one (`:708-716`). The model's selection
  (`Ranked`) returns no order for a lane with a NaN, and the calls of these operators
  have none: `OrderIsAten` says nothing of them there. `median`, `nanmedian`,
  `searchsorted` and `isin`, which deal with NaN themselves, are called with it.
- `synchronize()` skips a group whose handle was replaced since the graph was
  compiled (`torch_compile_backend/collectives.py:219`). `RunFails` waits for every
  group: groups are not destroyed or recreated in `GraphStreams`, so `TransfersSettled`
  does not cover a graph that outlives its group.
- The index may name a record whose write was given up (`process_group.py:291`,
  `:479`); the reader of the report copes.
- `aten_tril` and `aten_triu` beyond the shorter side of a matrix that is not square:
  the clamp takes the shorter side for the number of diagonals
  (`aten_functions.py:6271-6273`, `:6333-6335`), so `tril(-3)` of a matrix of 3 rows
  and 2 columns keeps the element of its last row and first column, where the
  comment says that the result is all zeros. The calls have these diagonals, and
  `LayoutIsAten` leaves out the elements of exactly these calls (`Misclamped`);
  without that TLC finds this one.
- Of the lowerings, in a domain the calls leave out: `aten_squeeze` of several negative
  dimensions; `aten_index` with index tensors on both sides of a full slice;
  `aten_argmax` and `aten_argmin` along dimension 0 of rank 4 without `keepdim`;
  `aten_amax` and `aten_amin` with negative dimensions; `_adaptive_avg_pool2d` whose
  input is no multiple of its output; a search among boundaries with several NaN.

## Not modelled

- Kernels, elementwise arithmetic and its dtype promotion, transcendental functions,
  attention and normalizations: numerics, compared with PyTorch by the repository's
  tests.
- NCCL group folding and the recorder's sequence counters (`GroupFold`), pinned host
  memory and uploads (`PinnedHost`), and the network proxy of mojoccl (`NetProxy`):
  the Mojo modules a next step of this development would take. mojoccl's contract
  (what a call enqueues, where it may hang or fail) is in `CollStreams` and
  `WatchTeardown`.
- `loader.mojo`'s kernel cache and `cache clean`: the same protocol as `LibraryCache`
  without marks.
- Of the compiled programs: graphs that draw a seed, several devices, the tokens
  of Metal and the CPU, symbolic shapes, the weight cache.
- The text of reports and dumps, settings, ABI tables and vendor bindings have no
  state. Scripts and demos are clients.

## Plan

Next: `GroupFold` (levels and folds of nested groups, with the sequence counters
of the recorder), `PinnedHost` ("no block is freed under a driver callback" is
meant to be proved), `NetProxy` (mailbox words, credits, a sleeping progress
thread). `WatchTeardown` keeps a queue as one bit; `CallLedger` is the module to put in
its place.
