# Fai: specification and verification

Fai is a functional language with a compiler, a compiler daemon, a package
manager and a native runtime.  This directory holds TLA+ specifications of the
parts whose correctness depends on interleavings, failures and time rather than on
inputs: the green-thread runtime (`crates/fai-runtime/src/scheduler.rs`) with its
network reactor (`reactor.rs`), the compiler daemon and its clients
(`crates/fai-server`, `crates/fai-driver/src/session.rs`) and the journalled updates
of package metadata (`crates/fai-package-store/src/transaction.rs`).  TLC checks the
specifications on small instances; TLAPS proves every safety property that the passing
runs check, for every value of the constants.

## Inventory

| part | state | operations | talks to | what is hard | what makes it correct |
|---|---|---|---|---|---|
| task scheduler (`scheduler.rs`) | injector, one deque per worker, idle gate, coroutine lock per task, live count | `schedule`, `find_task`, `run_task`, `spawn_tracked`, `block_on` | everything that parks a task | wake before suspend, duplicate queue entries, stealing, missed signals, quiescence | no lost wake, no double resume, `block_on` returns exactly at quiescence |
| channels (`scheduler.rs`) | buffer, closed flag, two waiter lists with one-shot registrations | `chan_send`, `chan_recv`, `chan_close` | scheduler, cancellation | a notified waiter is cancelled or resumed for another reason; close during parking | bounded FIFO queue; nobody sleeps next to a value or a slot |
| structured concurrency (`scheduler.rs`) | nursery count and joiner, handle state and awaiters, cancelled flag, cleanup depth, weak child lists | `scope`, `spawn_in`, `await_handle`, `cancel_handle`, `cleanup` | scheduler | spawn during teardown, masks, races of completion with waiting | joins wait for all members; cancellation reaches the subtree; teardown ends |
| blocking pool (`scheduler.rs`) | job queue, `idle`, `threads`, result slot per call | `submit_blocking`, `blocking_worker_loop`, `run_blocking` | file I/O, DNS, crypto, SQLite, terminal | stale idle count, early resume of the submitter | each call runs once and returns to its task |
| reactor (`reactor.rs`) | readiness latch and waiters per direction, timer heap, worker-driven poll | `try_io`, `wake_direction`, `close_connection`, `sleep_until`, `poll_worker` | scheduler, mio | edge-triggered readiness against failed probes; timers against cancellation; waking a polling worker | no lost edge, no early or missing timer |
| daemon life cycle (`fai-server`: `transport.rs`, `idle.rs`, `server.rs`, `client.rs`; routing in `fai-cli`) | socket path, idle timer, connections, what a client knows of its request | `bind`, admission, idle expiry, shutdown, `connect_or_spawn`, fallback or unknown outcome | operating system, driver | endpoint races, expiry against admission, death around a request | commands with effects submitted at most once, expiry spares admitted work, every command ends |
| daemon session (`server.rs`, `fai-driver/session.rs`) | session lock, database inputs, recorded stats, snapshots | `prepare_update`, `apply_prepared`, `snapshot`, cancelled reads | file system, salsa | edits between stat, read, publication and snapshot; writer against readers | answers never older than the request; no request waits for ever |
| supervision of runs (`server.rs` `supervise`, `client.rs` `stream_run_submitted`) | child process, reader threads on both sides, bounded event channels, input credits | start, forward output and input, time out, kill | client, worker process | a disconnect with full queues, input against output | one credit, complete output, no thread or process left behind |
| package metadata (`fai-package-store/transaction.rs`) | journal, lock file, metadata files | `commit`, `recover` | file system | a crash between any two writes | all files old or, after recovery, all new; foreign edits preserved |
| toolchain registry, installer | journal, leases, slots | install, remove, recover | file system, network | interrupted operations | recoverable at each step |
| resolver, lock file, query database, front end, back end, editor support, command line, `std/` | none shared, or a library's | pure passes | driver | size of inputs | functional correctness, outside the reach of model checking |

`PROJECT.json` lists the same parts as components, the hazards line by line, and
for every definition the source lines it stands for.

## Modules

| module | role |
|---|---|
| `ParkWake` | abstract: a task is woken, resumed, parks, returns; a wake is answered by a resume that begins after it |
| `Scheduler` | the scheduler; `Contract == INSTANCE ParkWake` is the refinement |
| `SchedulerProofs` | theorems about `Scheduler` |
| `BoundedQueue` | abstract: an atomic FIFO queue with close, cancellation and masks |
| `Channel` | channels over `ParkWake`-style tasks; `Queue == INSTANCE BoundedQueue` is the refinement |
| `ChannelProofs` | theorems about `Channel` |
| `TaskTree` | nurseries, handles and the cancellation tree over `ParkWake`-style tasks |
| `MCTaskTree` | symmetry set for TLC |
| `TaskTreeProofs` | theorems about `TaskTree` |
| `BlockingPool` | the pool and `run_blocking` over `ParkWake`-style tasks |
| `BlockingPoolProofs` | theorems about `BlockingPool` |
| `Reactor` | readiness, timers and the two poll drivers over `ParkWake`-style tasks |
| `ReactorProofs` | theorems about `Reactor` |
| `MetadataTransaction` | journalled updates of manifest and lock file, with crashes |
| `MetadataProofs` | theorems about `MetadataTransaction` |
| `Daemon` | endpoint, admission, idle expiry and exit of daemons; commands of clients |
| `DaemonProofs` | theorems about `Daemon` |
| `Session` | requests against the shared session while files are edited |
| `Supervision` | one supervised run: the worker, the daemon's threads and the client's threads |
| `ServerProofs` | theorems about `Session` and about `Supervision`, whose names do not meet |

The modules are layered.  `Scheduler` is shown to implement `ParkWake`;
`Channel`, `TaskTree`, `BlockingPool` and `Reactor` use only what `ParkWake` promises: a Boolean `owed[t]` for an outstanding
wake, a resume that needs it, and the freedom to leave it set afterwards, which
stands for duplicate entries and hence for spurious resumes at any time.  None of
them mentions a queue; `Reactor` mentions the sole worker, because that worker is
its driver.  `Daemon`, `Session` and `Supervision` describe three sides of one
program: what happens to a request from outside the daemon, from its admission to its
answer, and on the connection of a run.

### Scheduler

`wpc[w]` is a worker's place: `find`, `global`, `steal` inside `find_task`; `gate`,
`wait` at the idle gate; `claimed` with an entry in hand before the coroutine lock;
`run`, `spawn` inside a resume; `retire` between dropping the coroutine and
decrementing the count.  `coro[t]` is `Task.coro` together with its lock.
`schedule` is two steps, the push and the notification, because a worker may go
through the gate between them; a spawn is two steps because a task is reachable
before it is queued.  How many entries `steal_batch_and_pop` moves is left open:
that is the deque library's choice.  The scan visits all deques by index, the
worker's own included, as the code does.  A running task does whatever it likes:
spawn, park, return; anybody may wake any existing task at any time (`Wake`,
bounded by `MaxWakes`).

Left out: the sole worker of a one-worker configuration polls the reactor instead
of waiting at the gate (modelled in `Reactor`); the shutdown flag, which nothing
sets; the thread-local pointers to the current task and yielder.

### Channel

One action per section of the channel lock, one for each notification issued after
the lock is released, and single steps for the atomic accesses that are not under
the lock (deactivating a registration on resume, `cancel_task`'s flag, mask check
and wake).  Registering and suspending are one step: a wake in between stays owed.
A payload is named after its sender and a registration after its task; a task has
at most one registration in a channel, because it removes the one it has before it
registers again (`Lines` in `ChannelProofs` is that fact, and it is what lets `Without`
remove one entry where the code retains all others).  `take_channel_waiter` is described by the position of the waiter
it returns (it pops from the back) and the set of registrations it deactivates on
the way.

### TaskTree

`work[a]` is the remaining recursion of the `cancel_task` call of actor `a`, a stack
of single accesses (`visit` the swap, `mask` the depth check, `kids` the snapshot of
live children, `wake` the schedule), so several cancellations, spawns and cleanup
ends interleave at the granularity of the code.  A nursery is named after the task
that opened it.  `freed[t]` is the death of the last `Arc` of a task: after that its
weak references, and with them its own list of children, are gone.
`OwnScopeOnly` restricts programs to spawning into scopes they opened themselves;
`ScopedSubtreeFollows` does without the restriction and speaks of the descendants
that were spawned that way.  Descendants are the least set of tasks closed under the
links in question (`Below`), and `Snapshot` is the filtered copy of the child list that
`cancel_task` takes before it recurses.

A task may spawn into its own scope or into any scope it runs in, that is, the one it was
spawned into and those around that one (`Around`); a nursery handle smuggled out of its
scope, through a channel say, is left out.  A handle may be awaited by any task but its own
once the spawn has returned it, so one handle has several awaiters and two tasks may await
each other.  The code ends an await only when the awaited task is done: its comment trusts
that a cancelled awaiter's task is its descendant and is cancelled with it.  Two tasks that
await each other therefore stay where they are even when they are cancelled; such programs
are part of `tasktree_safe` and not of `tasktree_live`.  `Cleaners` are the tasks whose bodies
have cleanup sections; the theorems hold for every choice of them.

### BlockingPool

`tpc[h]` distinguishes a thread in the condition variable (`wait`) from one that was
notified and has not got the lock back (`woken`); the code's `idle` counts both.
Condition variables and tasks may wake spuriously.  The code makes a result slot for each
call; here it is one per task, empty again when the call returns.

### Reactor

One direction of one socket, since the two directions share nothing, with the timer
heap.  `sole` chooses the driver: a reactor thread, or the only worker, which polls
when it finds nothing to run and after every `PollEvery` (64 in the code) resumes.
The direction's mutex is held across a failed probe and the registration (`dirlock`),
which is what `try_io` exists for; a connect keeps the latch that a probe discards
(`Latched`).  The operating system's poll is edge triggered: an arrival is reported
once.  `schedule` by a thread that is no worker is two steps, the push and the wake of
the poll.  Timers are popped under one lock and their tasks unparked one by one later,
so a late wake meets a task that has moved on.

### MetadataTransaction

Every file operation of `commit`, `recover` and `finish` is a step.  The manifest's
content is a version and the lock's content is the version it was resolved from, so
"the lock belongs to the manifest" is an equality; digests stand for contents.  A
command reads the manifest, looks for a journal, reads the lock and prepares a
transaction before it takes the advisory lock, as the driver does.  A process may die
(or give up on an I/O error) anywhere; a power failure kills all processes and may
undo the removal of the journal, which is not synchronised, while everything written
through `atomic_write` is.  `drift` and `raced` are history: they record that the user
edited a file since the tool had files and journal in step, and since it validated
that file.

An edit by hand between the validation of a file and its replacement is overwritten:
`docs/PACKAGES.md` asks for a recheck immediately before committing, which bounds that
window and cannot close it, and `NoForeignOverwrite` says exactly how far the check
reaches.

### Daemon

`sock` is what the socket path names.  Binding and listening are two system calls of
the listener library; in between the path exists and a connect is refused.  `link[c]`
is how far a client's request has come, from the accept queue to the written answer,
and a process that dies takes its ends of connections with it.  Admission and the
idle decision share a lock that the watchdog keeps until the process is gone
(`IdleHolds`); a `Shutdown` does not ask who else is served.  A client that finds no
daemon spawns one and polls until a deadline, and then runs the command itself; one
that loses its daemon after submitting does so only if the command has no effects.
The daemon executes a command on a snapshot, its writes included, and a change of the
inputs cancels it and runs it again from the start (`Retry`, `with_snapshot`), so a build
or a writing `fmt` may write more than once and may have written when its daemon dies.
`taken` and `effect` are history: how many times the command was taken up for execution,
by a daemon that admitted it or by the client itself, and whether it has had effects;
how often the daemon that took it repeats it is not counted, for the code sets no limit.
Versions and builds are part of the path, so the mismatch branch of the handshake is
left out.

### Session

A file's content is the number of the edit that wrote it, 0 when absent, and its stat
is the same number: two writes are assumed to leave different stats (time stamps and
lengths), which is the stat gate's own assumption.  All missing files have the same stat,
0 here and no time and length 0 in the code, which looks no further.  A request prepares off the lock,
publishes under it, one `stat` and one `read` per step so that edits fall in between,
and takes its snapshot in a second section.  A publication that changes an input first
cancels the running reads and waits for their snapshots, the contract of the query
library.  `base[r]` is history: the disk when the request began, less the files deleted
since (see the observations below).

### Supervision

Both ends of one `run` request.  On the daemon's side: a reader per output pipe
(`rpc`), the input thread (`ipc`), the thread that waits for the worker (`wpc`),
`supervise` itself (`mpc`) and the connection's frame reader (`fpc`); on the client's
side the network reader (`npc`), the stdin reader (`spc`) and the main loop (`cpc`).
Between them stand the two event channels, the channel of credits, the pipes and the
socket, all bounded, so every send may block.  Chunks are tokens.  The worker writes,
reads and exits as it likes and may do nothing at all; the client may be interrupted
anywhere, its output may be refused and its terminal may fail; the time limit may pass
at any time.  When a process dies its queues and its ends of pipes and sockets go with
it.  Left out: exit codes, the taps' copies of frames, a worker that closes a pipe
before it exits, and descendants of a worker that inherit its pipes; such a descendant
would keep the readers, and with them the run, waiting for as long as it lives.

### Assumptions

Atomic accesses are sequentially consistent: the code uses acquire/release
orderings or locks for all of them.  Crossbeam's queues, the operating system's
condition variables and the coroutine switch are trusted to do what the code uses
them for.

## Runs

| run | instance | shows | states |
|---|---|---|---|
| `scheduler` | 2 workers, root and one task, 2 further wakes | `TypeOK`, `SingleRunner`, `ActiveExact`, `QuiescentReturn`, `NoMissedSignal`; refinement of `ParkWake` with its fairness; `BlockOnReturns` | 222 057 |
| `channel` | capacity 2; a sender that may close, a cancellable task that sends and receives, a receiver | `NoStrandedValue`, `NoStrandedSlot`, `WakerExists`, `CloseReachesAll`, refinement of `BoundedQueue` with its fairness | 161 693 |
| `tasktree_safe` | root and two tasks, cleanup sections of the two to depth 1, host cancels, spawns into any scope around, awaits of any handle | `ScopeCountsMembers`, `JoinNotLost`, `AwaitNotLost`, `ChildrenFollow`, `ScopedSubtreeFollows`, `CancelWakes` | 1 219 652 |
| `tasktree_live` | root and one task | `TearsDown` | 4 212 |
| `tasktree_escape` | as `tasktree_safe` | `SubtreeFollows` is violated (finding 1) | |
| `blocking_pool` | 3 tasks, 2 threads | `OneCall`, `ResultAnnounced`, `NoStrandedJob`, `CallReturns` | 9 296 |
| `metadata_transaction` | 2 processes, 2 versions, 1 edit by hand, 2 crashes or power failures | `PublishedTogether`, `InterruptionRecoverable`, `NoForeignOverwrite`, `Recovers` | 599 700 |
| `reactor` | both drivers; a task that transfers, sleeps and is cancelled, one that connects and closes; 1 arrival; a poll after 2 resumes | `NoSleepOnReadiness`, `PollBoundedByTimers`, `QueuedWorkInterrupts`, `SleepEnds` | 180 000 |
| `daemon` | 2 daemons; a mutating, a reading and a stopping command; 1 crash; with and without a stale socket | `SubmittedOnce`, `IdleSparesAdmitted`, `CommandEnds` | 428 268 |
| `session` | 2 requests, 1 file, 5 edits of source or manifest | `ContentFresh`, `RequestsEnd` | 371 061 |
| `session_inventory` | 2 requests, 1 file, 1 edit | `InventoryFresh` is violated (finding 2) | |
| `supervision` | one output pipe, every queue of one entry | `OneCredit`, `OutputComplete`, `SupervisionEnds` | 188 571 |

Why the bounds are enough for the interesting cases.  Two workers suffice for a
task that is taken by one worker while the other is still inside it, for stealing,
and for a sleeper next to a busy worker; two further wakes put a task into the
queues three times; the theorems remove the bounds for the safety part.  In
`channel` a notified receiver can be cancelled with another receiver asleep and
a value in the buffer, and capacity 2 lets several notifications be under way.
Three tasks give a grandchild, two siblings of one nursery, and a spawn by a child
into its parent's scope.  Only the two tasks have cleanup sections there, one of them
possibly the other's child; with the root's too the instance has 4 410 266 states and
the invariants hold as well.  Two pool threads and three tasks give a full pool, a
notified thread overtaken by a running one, and two submissions on one idle thread.
Two processes suffice for an update that is overtaken between its preparation and its
commit and for a recovery by another process than the one that died; the theorems
remove the bounds.  Two tasks on a direction give a competitor for the readiness a
task was woken for, a closer next to a sleeper, and a busy neighbour of a sleeping
task.  Two daemons and three commands give two starters on one stale socket, a stop
under a running request and a client whose daemon dies before, during and after its
request.  Two requests and five edits give a publication that overtakes another, an
edit between stat and read, one after the request began, and a file that is missing at
two stats with other contents in between.  With two files there are 6 099 750 states, in
which `ContentFresh` holds too, and with two files and three edits (129 014 states) so does
`RequestsEnd`.
In `supervision` every queue
fills up, in both directions at once, because it holds one entry; a second output pipe
adds no new case (that instance has 882 063 states and passes too).
Symmetry is used only in runs without liveness, over tasks with equal roles.

Type invariants are part of the proofs (`Reactor`'s stands in `ReactorProofs`).

A deadlock is an error in every run but those of `Session`, whose behaviours end when
all requests are answered and all edits made (`RequestsEnd` says that this is the only
way to stop), and `tasktree_safe` and `tasktree_escape`, in which two tasks may await each
other.  `TaskTree` ends in `Exit` when all tasks are gone, `Daemon` in
`Finished` when all commands are, `Supervision` in `Over` when the connection's threads
have ended; in the others the environment can always act.

### Fairness

Each thread keeps running (weak fairness of its steps), the gate's timeout fires, a
resumed task parks or returns, a blocking call of the operating system returns.
`ParkWake` fairness, which the `scheduler` run establishes, is what `Channel`,
`TaskTree` and `BlockingPool` assume of `Resume`.  In `TaskTree` a cancelled body is
assumed to unwind: all its blocking operations fail, so it gets again and again to
the point where it closes its scope or returns, and it is assumed to do so in the
end (strong fairness of `Join` and `Complete` when cancelled).  A program that
ignores the cancellation result and loops for ever is not covered.  Starting an
operation, closing, cancelling, spawning are never fair.

In `Reactor` the clock advances, the poll returns when it has a reason to, and a
queued task is resumed (strong fairness: the injector is first-in first-out, and a sole
worker's poll comes between resumes); the driver gets the direction's lock although
others take it again and again (strong fairness of `DispatchEvent`, a mutex that does
not starve).  In `MetadataTransaction` commands keep being run: nothing in the code
resumes an interrupted update by itself.  In `Daemon` every process and every command
takes finitely many steps, so one weak fairness condition, that some step is taken
while one can be, is enough; the idle limit need never pass, no daemon need crash and no
execution need be cancelled (nor can one be cancelled for ever, which would take edits for
ever).
In `Session` the lock is granted to a request that keeps asking for it (sections under
it are short), and a read ends, by itself or by its cancellation.  In `Supervision` every
thread of daemon and client runs while it can, and the waiting thread polls; the worker,
the time limit, the terminal's input and the interruption of the client are not fair, so
`SupervisionEnds` owes nothing to the time limit.

The timeout is needed: entries moved to a worker's own deque by a batch refill are
not signalled, and a sleeping sibling looks for them only when its wait times out.
For entries of the injector `NoMissedSignal` shows that signals alone suffice.

## Findings

1. **A grandchild can escape cancellation** (`tasktree_escape`).  The comment on
   `Task.children` says that cancelling a task cancels its whole descendant subtree.
   The tree consists of weak links from spawner to spawned, and an intermediate
   task's list dies with it: if a child spawns into its ancestor's nursery and
   returns, the new task is linked to nobody, the ancestor's cancellation does not
   reach it, and the ancestor's `scope` keeps waiting for it.  `ScopedSubtreeFollows`
   shows that the statement holds along chains of tasks spawned into scopes their
   parents opened.
2. **A new file can be missing from an answer** (`session_inventory`).  The list of
   source files is collected off the session lock and not compared again at
   publication, and the snapshot is taken in a later section.  A slow request that
   listed the files before one was created can publish between another request's
   publication and its snapshot; the second request, begun after the file was created,
   is answered without it.  `docs/MEMORY.md` (D61) says that before each request the
   daemon re-scans the workspace and new files are added.  Contents of the files that
   are listed and still there are always fresh (`ContentFresh`).

Three observations without a run of their own.  A notified pool thread counts as idle
until it has the lock back, so a second submission in that moment starts no thread,
although the cap would allow one, and its job waits behind the first job's blocking
call; the comment on `submit_blocking` speaks of threads that are available.  Every job
is still served (`CallReturns`).  `Daemon` reaches states in which a serving
daemon cannot be reached.  Two processes that start on a stale socket can both find it
stale, and the second removes the endpoint the first has just bound; a process that
probes between another's bind and listen does the same; and such an orphan unlinks the
live daemon's path when it expires.  `docs/CLI.md` says that a successful bind owns the
endpoint, and `docs/MEMORY.md` (R14) mentions a spawn lock that the code does not have.
What is lost is the warm daemon: `CommandEnds` and `SubmittedOnce` hold all the same,
because the client falls back to its own process.

And the stat gate takes a missing file for an unchanged one.  `apply_project` stats a file
that has just been deleted as (no time, length 0) and reads its text when it has just been
created again: that text is kept with the stat of a missing file.  If the file is rewritten,
and deleted between the listing and the stat of a later request, the stats are equal, and the
request is answered with the text of two edits ago, although the file had newer contents
when it began; a file never seen missing before would have failed the request at its read.
It takes five edits and is repaired by the next request, which no longer lists the file.
`ContentFresh` asks nothing about a file that was deleted since the request began, which is
exactly this case: if deletions are not taken out of `base`, TLC finds the behaviour above.
`docs/MEMORY.md` (D61) calls the scan stat-gated and hash-confirmed and says nothing of
missing files.

## Proofs

The argument is the same in every module: an inductive invariant, one lemma per action
that says the action preserves it, and theorems that read the checked property off it.
TLC checked each invariant before it was proved, on the run's instance or a larger one:

| invariant of | instance | states |
|---|---|---|
| `ChannelProofs` | the run's | 161 693 |
| `TaskTreeProofs` | root and two tasks, cleanup sections of all three, no symmetry; also root and one task, depth 2, everybody cancels | 8 820 366; 42 991 |
| `BlockingPoolProofs` | the run's | 9 296 |
| `ReactorProofs` | more arrivals and time than in the run | 2 689 548 |
| `DaemonProofs` | the run's | 428 268 |
| `ServerProofs`, session | the run's | 371 061 |
| `ServerProofs`, supervision | one output pipe, channels and socket of two entries | 769 690 |

The only assumptions are the named ones of the modules: sets of tasks, processes or
versions are finite, the distinguished values (`NoTask`, `Host`, `None`, ...) are outside
the sets they accompany, roles are subsets of the tasks or clients, and bounds are natural
numbers, positive where the code has at least one (channel capacity, pool threads, resumes
between polls).

### Scheduler

`SchedulerProofs` proves, for every `NWorkers`, `Tasks` and `MaxWakes` that satisfy
the assumptions stated in `Scheduler`:

| theorem | statement |
|---|---|
| `TypeCorrect` | `Spec => []TypeOK` |
| `RunnerExclusive` | `Spec => []SingleRunner` |
| `CountExact` | `Spec => []ActiveExact` |
| `BlockOnQuiescent` | `Spec => []QuiescentReturn` |
| `GateAttended` | `Spec => []NoMissedSignal` |
| `ImplementsParkWake` | `Spec => ParkWakeSafe` |

The inductive invariant is `Core == TypeOK /\ Hands /\ SingleRunner /\ ActiveExact`.
`Hands` says that a worker past `find_task` holds an existing task, that a spawner has
built its child and that the root exists once `block_on` has started.  The parts
cannot be proved one by one: that `active` stays a natural number at `Retire` needs
the exact count, the count at `Return` needs the returning task to be live, and that
needs a worker inside a resume to own the coroutine, which is `SingleRunner`.  On top
of `Core`, `Returned` (after `block_on` has returned the count is zero, and no step can
raise it again) gives `QuiescentReturn`, and `LocalEmpty` (a worker past its local look
has an empty deque, so a batch refill overwrites nothing) gives `NoMissedSignal` and
the refinement.  The refinement mapping takes a task's entry in any queue, or in the
hand of a worker that has not resumed it yet, for an owed wake; the lemmas
`EntriesAppend`, `EntriesTail` and `EntriesSplit` say what the queue operations do to
the set of entries.

### Metadata

`MetadataProofs` proves, for every set of processes and versions and any bounds on
crashes and edits:

| theorem | statement |
|---|---|
| `MetadataTypes` | `Spec => []TypeOK` |
| `ManifestAndLockTogether` | `Spec => []PublishedTogether` |
| `InterruptedUpdateResumes` | `Spec => []InterruptionRecoverable` |
| `CompareAndReplace` | `Spec => NoForeignOverwrite` |

The inductive invariant is `IInv == TypeOK /\ Exclusion /\ Control /\ InStep /\ Applied
/\ Validated`.  `Exclusion` ties the places past `lock_file` to the owner of the lock;
`Control` says which transaction a process works on at each place, in particular that
`finish` works on the journal that is on the disk and `commit` finds none there;
`InStep` is the pair of published properties, extended to a journal whose removal a
power failure may undo; `Applied` says that `finish` leaves nothing behind it undone,
without which the removal of the journal would not give `PublishedTogether`;
`Validated` says that what `finish` has compared is still what it accepted unless the
user interfered, without which a replacement could hit foreign content.  The argument
rests on the two shapes a transaction has (lemmas `LockOnly`, `Both`, `Shapes`), on what
a replacement does to the checks of a resumption (`WriteAccepted`), and on the fact
that a complete update leaves a lock resolved from its manifest (`CompleteTogether`).
The assumptions are those stated in `MetadataTransaction`: the constants are finite and
distinct, and `NoTx` is no transaction.

### Channels

`ChannelProofs`, for every capacity, finite set of tasks and set of cancellable tasks:

| theorem | statement |
|---|---|
| `TypeCorrect` | `Spec => []TypeOK` |
| `ValueNotStranded` | `Spec => []NoStrandedValue` |
| `SlotNotStranded` | `Spec => []NoStrandedSlot` |
| `ParkedHasWaker` | `Spec => []WakerExists` |
| `CloseReaches` | `Spec => []CloseReachesAll` |
| `ImplementsQueue` | `Spec => QueueSafe` |

`NoStrandedValue` and `NoStrandedSlot` are counts: at least as many receivers are up and
looking as there are values with a receiver asleep.  A step keeps the count only if
every receiver asleep can be found by the next sender, and that is what the rest of the
invariant provides: `Places` (which fields a place of `chan_send`, `chan_recv` and
`chan_close` goes with), `Lines` (a wait queue holds each task once, asleep and active or
just about to withdraw), `ActiveFound` (an active registration is in its queue or in a
closer's list), `CancelOnTheWay` (a cancellation a parked task has not seen is still on
its way) and `WakerExists` itself.  `TakeLine` is the lemma about `take_channel_waiter`: it
returns a takeable waiter if there is one, and loses none that it does not return.
The refinement maps every end of an operation to the atomic operation of `BoundedQueue`
and everything else to a stutter (`EndRefines`, `WaitingStutters`).

### Task tree

`TaskTreeProofs`, for every finite set of tasks, cleanup depth and set of cancellers, and
for both values of `OwnScopeOnly`:

| theorem | statement |
|---|---|
| `TypeCorrect` | `Spec => []TypeOK` |
| `ScopeWaitsForMembers` | `Spec => []ScopeCountsMembers` |
| `JoinWoken` | `Spec => []JoinNotLost` |
| `AwaitWoken` | `Spec => []AwaitNotLost` |
| `CancellationReachesChildren` | `Spec => []ChildrenFollow` |
| `CancellationWakes` | `Spec => []CancelWakes` |
| `CancellationReachesScope` | `Spec => []ScopedSubtreeFollows` |

The properties about cancellation speak of settled states, in which nobody is inside
`cancel_task`.  The invariant has to say what is true in the middle: `Pend(what, t)` means
that a step of some actor's recursion is still to come, `WakePending` that a blocked
cancelled task is woken or somebody has still to check its mask or wake it,
`ChildPending` that a child of a cancelled task is cancelled or ended, or its parent has
still to look at its flag (after registering it, or after its cleanup), or somebody has
still to visit it.  `Registered` is what makes the snapshot complete; `SnapshotVisits`
says the copy contains every live child of the list.  `Joiners` and `Awaiters` follow a
waiting task through the three places its wake can be in.  A spawn finds the scope it names
open (`ScopesAround`): the owner of an open scope has not ended, so it is a member of an
open scope itself.  The chain in
`CancellationReachesScope` needs no induction over the tree: a parent whose scope has a
member has not ended, so the tasks that are cancelled or ended are closed under the links
of `StartedInScope`, and `Below` is the least closed set.

### Blocking pool

`BlockingPoolProofs`, for every finite set of tasks and every `MaxThreads`:

| theorem | statement |
|---|---|
| `TypeCorrect` | `Spec => []TypeOK` |
| `CallInOnePlace` | `Spec => []OneCall` |
| `ResultWakes` | `Spec => []ResultAnnounced` |
| `JobNotStranded` | `Spec => []NoStrandedJob` |

`ThreadCount` says that `idle` is the number of threads in the condition variable and of
those notified out of it, `JobNamed` that a busy thread holds a task's job, and `OnePlace`
that a task is parked exactly while its call is queued, running or answered, and in one
of the three.  Without the exact `idle` a submission could skip both the notification and
the new thread and strand its job.

### Reactor

`ReactorProofs`, for every set of tasks and roles, both drivers, and any number of arrivals,
resumes between polls and ticks:

| theorem | statement |
|---|---|
| `ReadinessDelivered` | `Spec => []NoSleepOnReadiness` |
| `TimersBoundPoll` | `Spec => []PollBoundedByTimers` |
| `WorkInterruptsPoll` | `Spec => []QueuedWorkInterrupts` |

`LockProbed` ties the direction's lock to the task between its failed probe and its
registration; `ProbeNotMissed` says that readiness arriving in that window is still in
the poll or in the driver's hands, which is why holding the lock suffices; `Registered`
and `TimerKept` follow a waiting task's registration and a sleeper's timer until the wake
is owed; `PollTold` says that a timer earlier than the poll's end belongs to a task that
has still to interrupt the poll or has done so; `DriverEmpty` says when the driver carries
nothing, and `WorkInterrupts` is the third property extended to the moment between the
sole worker's decision and its poll.

### Daemon, session and supervision

`DaemonProofs`, for every set of daemons and commands and any number of crashes and of
cancelled executions:

| theorem | statement |
|---|---|
| `SubmittedAtMostOnce` | `Spec => []SubmittedOnce` |
| `ExpirySparesAdmitted` | `Spec => []IdleSparesAdmitted` |

`Course` says how far a request can have come at each place of its command, `Effect` who
has taken it up by then and what it has done, in particular that a mutating command reaches
its fallback only if nobody has taken it; `Counted` that a request being served is in the idle count of the daemon that
serves it, without which the expiry could not spare it; `Leaving` that only a serving
daemon has threads on their way out.

`ServerProofs` about the session, for every set of requests and files and any number of
edits:

| theorem | statement |
|---|---|
| `AnswersFresh` | `Spec => []ContentFresh` |

An answer may hold an old text of a file that was deleted since the request began, and of
no other.  `Exclusion` ties the publication to the session lock, `Forward` says that the disk
is at least as new as anything seen of it and still asked for, `Gated` that a text is never older than the stat kept
with it, so an equal stat of a file that exists proves the text current, and `SessionFresh` that both the
session and what the holder of the lock is about to install are fresh for every request
that has published and not yet taken its snapshot: the window in which another request
may replace the inputs.

`ServerProofs` about a supervised run, for any output streams and any capacities of the
pipes, channels and sockets (not even that they are positive is needed):

| theorem | statement |
|---|---|
| `RunCreditUnique` | `RunSpec => []OneCredit` |
| `RunOutputComplete` | `RunSpec => []OutputComplete` |

The invariant `RunInv` holds the types and four parts.  `Single(Purse)` is `OneCredit` in
the form in which it is preserved: of the twelve places where a credit can be at most one
holds one, so a step that takes a credit from one place to the next (`SingleMove`), or
loses it with the client (`CreditLoss`), keeps it, and a sum of twelve numbers appears
only once, in `SingleTotal`.  It is also what excludes the step that would create a second
credit, a ready message handled while the channel of credits is occupied.  For the
output, `Stages` says what each place of `supervise` implies about the event in its hand
and about the event channel, whose receiver lives exactly while events are forwarded;
`Drained` that unless a write to the client failed a reader has ended only at the end of its pipe, and
forwarding has ended only after every reader; `ResultLast` that a result exists only after
that, ends what is on the socket, and is followed by no output in the client's queue: the
same order has to be kept in four places, because the result passes through all of them
before the client takes it.  The queue lemmas (`CountAppend`, `CountTail`, `ResultAppend`,
`ResultTail`) say how counts and the place of the result change at the two ends of a queue.

### Only model-checked

The liveness properties (`ParkWakeFair`, `BlockOnReturns`, `QueueFair`, `TearsDown`,
`CallReturns`, `Recovers`, `SleepEnds`, `CommandEnds`, `RequestsEnd`, `SupervisionEnds`),
which are outside this prover: TLAPS 1.4.5 reasons neither about fairness nor about
`ENABLED`.

## Plan

What is left, in order:

1. The editor's overlays and dirty sets in `Session`.
2. The installer's journal and the toolchain leases.

## Not modelled

Most of the repository by size is outside the reach of this method, and no claim is
made about it: the lexer, parser, resolver, type checker, contracts, formatter,
Core passes, reference-count insertion and code generator are pure functions over
programs, whose correctness is not a property of small instances; the value
representation and the reference counting of the runtime (`fai-runtime/src/lib.rs`)
are sequential algorithms over raw memory; host operations are calls into the
operating system and libraries; the editor support is a set of views of the query
database, whose concurrency is a library's.  They make up more than nine tenths of the
implementation's lines, which is why the map covers only a small share of them, while
it covers the runtime's scheduler and the protocols above almost completely.
