------------------------------- MODULE Scheduler ------------------------------
(***************************************************************************)
(* The M:N scheduler of crates/fai-runtime/src/scheduler.rs: a global      *)
(* injector, one FIFO deque per worker with batch refills and stealing,    *)
(* the idle gate with its condition variable and 1 ms timeout, the         *)
(* coroutine lock held for a whole resume, and the live-task count on      *)
(* which block_on waits.                                                   *)
(*                                                                         *)
(* A queue entry is an Arc<Task>; `schedule` always pushes one, so a task  *)
(* may be queued several times.  What a task does while it runs is left    *)
(* open: it may spawn, park or return, and anybody may wake any task that  *)
(* exists (`Wake`).  The single-worker configuration, whose only worker    *)
(* also polls the network reactor when idle, is not described here.        *)
(***************************************************************************)
EXTENDS Naturals, Sequences, FiniteSets

CONSTANTS
  NWorkers,  \* worker_count(): FAI_WORKERS or the available parallelism
  Tasks,     \* every task the program may create
  Root,      \* the task block_on spawns
  NoTask,    \* the absent task
  MaxWakes   \* bound: how many wakes parties other than `spawn` issue

ASSUME WorkersAssumption == NWorkers \in Nat \ {0}
ASSUME TasksAssumption == IsFiniteSet(Tasks) /\ Root \in Tasks /\ NoTask \notin Tasks
ASSUME WakesAssumption == MaxWakes \in Nat

Workers == 1..NWorkers

VARIABLES
  coro,      \* Task.coro: absent, parked (Some, lock free), running (lock held), done (None)
  injector,  \* Scheduler.injector
  deque,     \* the workers' local deques
  wpc,       \* where each worker is in worker_loop / find_task / run_task
  cur,       \* the entry a worker has taken and not finished with
  scan,      \* the next sibling a worker tries to steal from
  child,     \* the task a running task (or block_on) is in the middle of spawning
  signals,   \* schedule calls between injector.push and signal.notify_one
  active,    \* Scheduler.active, the number of live tasks
  main,      \* where the thread in block_on is
  wakes      \* wakes issued so far, for the bound

vars == <<coro, injector, deque, wpc, cur, scan, child, signals, active, main, wakes>>

WorkerPCs == {"find", "global", "steal", "gate", "wait", "claimed", "run", "spawn", "retire"}

Init ==
  /\ coro = [t \in Tasks |-> "absent"]
  /\ injector = <<>>
  /\ deque = [w \in Workers |-> <<>>]
  /\ wpc = [w \in Workers |-> "find"]
  /\ cur = [w \in Workers |-> NoTask]
  /\ scan = [w \in Workers |-> 1]
  /\ child = [w \in Workers |-> NoTask]
  /\ signals = 0
  /\ active = 0
  /\ main = "start"
  /\ wakes = 0

-------------------------------------------------------------------------------
(* schedule: push to the injector, then signal the idle gate in a step of its own. *)

Push(t) ==
  /\ injector' = Append(injector, t)
  /\ signals' = signals + 1

(* notify_one under the idle lock: some waiting worker leaves the condition variable. *)
Notify ==
  /\ signals > 0
  /\ signals' = signals - 1
  /\ IF \E w \in Workers : wpc[w] = "wait"
     THEN \E w \in Workers : wpc[w] = "wait" /\ wpc' = [wpc EXCEPT ![w] = "find"]
     ELSE UNCHANGED wpc
  /\ UNCHANGED <<coro, injector, deque, cur, scan, child, active, main, wakes>>

(* Any party that holds the task wakes it: a sync object, the reactor, a canceller. *)
Wake(t) ==
  /\ wakes < MaxWakes
  /\ coro[t] # "absent"
  /\ Push(t)
  /\ wakes' = wakes + 1
  /\ UNCHANGED <<coro, deque, wpc, cur, scan, child, active, main>>

-------------------------------------------------------------------------------
(* find_task: own deque, then the injector, then the siblings in order. *)

Claim(w, t) ==
  /\ wpc' = [wpc EXCEPT ![w] = "claimed"]
  /\ cur' = [cur EXCEPT ![w] = t]

FindLocal(w) ==
  /\ wpc[w] = "find"
  /\ \/ /\ deque[w] # <<>>
        /\ deque' = [deque EXCEPT ![w] = Tail(deque[w])]
        /\ Claim(w, Head(deque[w]))
     \/ /\ deque[w] = <<>>
        /\ wpc' = [wpc EXCEPT ![w] = "global"]
        /\ UNCHANGED <<deque, cur>>
  /\ UNCHANGED <<coro, injector, scan, child, signals, active, main, wakes>>

(* What moves along with the front entry when k entries leave the injector. *)
BatchSkipping(k) == SubSeq(injector, 3, k)  \* slip: one entry falls between the queues
Batch(k) == SubSeq(injector, 2, k)

(* steal_batch_and_pop: the front entry is returned, and as many as the deque  *)
(* library chooses of the ones behind it move to the worker's own deque.       *)
FindGlobal(w) ==
  /\ wpc[w] = "global"
  /\ \/ /\ injector # <<>>
        /\ Claim(w, Head(injector))
        /\ \E k \in 1..Len(injector) :
             /\ injector' = SubSeq(injector, k + 1, Len(injector))
             /\ deque' = [deque EXCEPT ![w] = Batch(k)]
        /\ UNCHANGED scan
     \/ /\ injector = <<>>
        /\ wpc' = [wpc EXCEPT ![w] = "steal"]
        /\ scan' = [scan EXCEPT ![w] = 1]
        /\ UNCHANGED <<injector, deque, cur>>
  /\ UNCHANGED <<coro, child, signals, active, main, wakes>>

FindSteal(w) ==
  /\ wpc[w] = "steal"
  /\ LET v == scan[w] IN
     \/ /\ deque[v] # <<>>
        /\ deque' = [deque EXCEPT ![v] = Tail(deque[v])]
        /\ Claim(w, Head(deque[v]))
        /\ UNCHANGED scan
     \/ /\ deque[v] = <<>>
        /\ IF v < NWorkers
           THEN scan' = [scan EXCEPT ![w] = v + 1] /\ UNCHANGED wpc
           ELSE wpc' = [wpc EXCEPT ![w] = "gate"] /\ UNCHANGED scan
        /\ UNCHANGED <<deque, cur>>
  /\ UNCHANGED <<coro, injector, child, signals, active, main, wakes>>

NothingQueuedUnchecked == TRUE               \* slip: wait without a second look
NothingQueued == injector = <<>>

(* No work: under the idle lock, wait only if the injector is still empty. *)
Gate(w) ==
  /\ wpc[w] = "gate"
  /\ wpc' = [wpc EXCEPT ![w] = IF NothingQueued THEN "wait" ELSE "find"]
  /\ UNCHANGED <<coro, injector, deque, cur, scan, child, signals, active, main, wakes>>

(* wait_timeout's 1 ms runs out. *)
Timeout(w) ==
  /\ wpc[w] = "wait"
  /\ wpc' = [wpc EXCEPT ![w] = "find"]
  /\ UNCHANGED <<coro, injector, deque, cur, scan, child, signals, active, main, wakes>>

-------------------------------------------------------------------------------
(* run_task *)

MayEnterUnlocked(t) == coro[t] \in {"parked", "running"}  \* slip: no lock around a resume
MayEnter(t) == coro[t] = "parked"

SpentTryLock(t) == coro[t] \in {"done", "running"}  \* slip: try_lock, entry dropped if held
Spent(t) == coro[t] = "done"

(* The coroutine lock is free: resume the task, or drop a finished task's entry. *)
Resume(w) ==
  /\ wpc[w] = "claimed"
  /\ \/ /\ MayEnter(cur[w])
        /\ coro' = [coro EXCEPT ![cur[w]] = "running"]
        /\ wpc' = [wpc EXCEPT ![w] = "run"]
        /\ UNCHANGED cur
     \/ /\ Spent(cur[w])
        /\ wpc' = [wpc EXCEPT ![w] = "find"]
        /\ cur' = [cur EXCEPT ![w] = NoTask]
        /\ UNCHANGED coro
  /\ UNCHANGED <<injector, deque, scan, child, signals, active, main, wakes>>

(* The task suspends: the worker keeps the coroutine and releases its lock. *)
Park(w) ==
  /\ wpc[w] = "run"
  /\ coro' = [coro EXCEPT ![cur[w]] = "parked"]
  /\ wpc' = [wpc EXCEPT ![w] = "find"]
  /\ cur' = [cur EXCEPT ![w] = NoTask]
  /\ UNCHANGED <<injector, deque, scan, child, signals, active, main, wakes>>

(* The body returned: the coroutine is dropped and the lock released ... *)
Return(w) ==
  /\ wpc[w] = "run"
  /\ coro' = [coro EXCEPT ![cur[w]] = "done"]
  /\ wpc' = [wpc EXCEPT ![w] = "retire"]
  /\ UNCHANGED <<injector, deque, cur, scan, child, signals, active, main, wakes>>

LastOffByOne(n) == n = 1                     \* slip: main is notified one task early
Last(n) == n = 0

(* ... and only then is the task counted finished. *)
Retire(w) ==
  /\ wpc[w] = "retire"
  /\ active' = active - 1
  /\ main' = IF Last(active - 1) /\ main = "wait" THEN "check" ELSE main
  /\ wpc' = [wpc EXCEPT ![w] = "find"]
  /\ cur' = [cur EXCEPT ![w] = NoTask]
  /\ UNCHANGED <<coro, injector, deque, scan, child, signals, wakes>>

-------------------------------------------------------------------------------
(* spawn_tracked: count the task live, build it, and queue it last.  In     *)
(* between the task is reachable (its handle, its parent's children list),  *)
(* so a canceller may already wake it.                                      *)

CountedLate(t) == active                     \* slip: a spawned task is not counted
Counted(t) == active + 1

CountLive(t) ==
  /\ coro[t] = "absent"
  /\ active' = Counted(t)
  /\ coro' = [coro EXCEPT ![t] = "parked"]

SpawnMake(w, t) ==
  /\ wpc[w] = "run"
  /\ CountLive(t)
  /\ wpc' = [wpc EXCEPT ![w] = "spawn"]
  /\ child' = [child EXCEPT ![w] = t]
  /\ UNCHANGED <<injector, deque, cur, scan, signals, main, wakes>>

SpawnPush(w) ==
  /\ wpc[w] = "spawn"
  /\ Push(child[w])
  /\ wpc' = [wpc EXCEPT ![w] = "run"]
  /\ child' = [child EXCEPT ![w] = NoTask]
  /\ UNCHANGED <<coro, deque, cur, scan, active, main, wakes>>

-------------------------------------------------------------------------------
(* block_on: spawn the root, then wait until no task is live. *)

MainMake ==
  /\ main = "start"
  /\ CountLive(Root)
  /\ main' = "push"
  /\ UNCHANGED <<injector, deque, wpc, cur, scan, child, signals, wakes>>

MainPush ==
  /\ main = "push"
  /\ Push(Root)
  /\ main' = "check"
  /\ UNCHANGED <<coro, deque, wpc, cur, scan, child, active, wakes>>

QuiescentRootOnly == coro[Root] = "done"     \* slip: wait for the root alone
Quiescent == active = 0

MainCheck ==
  /\ main = "check"
  /\ main' = IF Quiescent THEN "returned" ELSE "wait"
  /\ UNCHANGED <<coro, injector, deque, wpc, cur, scan, child, signals, active, wakes>>

-------------------------------------------------------------------------------
Next ==
  \/ Notify
  \/ \E t \in Tasks : Wake(t)
  \/ \E w \in Workers :
       \/ FindLocal(w) \/ FindGlobal(w) \/ FindSteal(w) \/ Gate(w) \/ Timeout(w)
       \/ Resume(w) \/ Park(w) \/ Return(w) \/ Retire(w) \/ SpawnPush(w)
       \/ \E t \in Tasks \ {Root} : SpawnMake(w, t)
  \/ MainMake \/ MainPush \/ MainCheck

Spec == Init /\ [][Next]_vars

(* Threads are scheduled by the operating system, the gate's timeout fires, and *)
(* a resumed task parks or returns: tasks yield cooperatively.                   *)
Fairness ==
  /\ WF_vars(Notify)
  /\ WF_vars(MainMake \/ MainPush \/ MainCheck)
  /\ \A w \in Workers :
       /\ WF_vars(FindLocal(w) \/ FindGlobal(w) \/ FindSteal(w) \/ Gate(w) \/ Timeout(w))
       /\ WF_vars(Resume(w) \/ Retire(w) \/ SpawnPush(w))
       /\ WF_vars(Park(w) \/ Return(w))

FairSpec == Spec /\ Fairness

-------------------------------------------------------------------------------
(* Properties *)

Entries(q) == {q[i] : i \in DOMAIN q}

(* A wake of t that no resume has answered: an entry in some queue or in a worker's hand. *)
Queued(t) ==
  \/ t \in Entries(injector)
  \/ \E w \in Workers : t \in Entries(deque[w]) \/ (wpc[w] = "claimed" /\ cur[w] = t)

Executing(w) == wpc[w] \in {"run", "spawn"}

(* The types of the scheduler's state. *)
TypeOK ==
  /\ coro \in [Tasks -> {"absent", "parked", "running", "done"}]
  /\ injector \in Seq(Tasks)
  /\ deque \in [Workers -> Seq(Tasks)]
  /\ wpc \in [Workers -> WorkerPCs]
  /\ cur \in [Workers -> Tasks \cup {NoTask}]
  /\ scan \in [Workers -> Workers]
  /\ child \in [Workers -> Tasks \cup {NoTask}]
  /\ signals \in Nat
  /\ active \in Nat
  /\ main \in {"start", "push", "check", "wait", "returned"}
  /\ wakes \in Nat

(* A task's coroutine is entered by at most one worker at a time, and its lock  *)
(* is held while one is inside: run_task holds Task.coro for a whole resume.    *)
SingleRunner ==
  /\ \A w \in Workers : Executing(w) => coro[cur[w]] = "running"
  /\ \A v, w \in Workers : Executing(v) /\ Executing(w) /\ cur[v] = cur[w] => v = w

Unretired == {w \in Workers : wpc[w] = "retire"}
LiveTasks == {t \in Tasks : coro[t] \in {"parked", "running"}}

(* The count block_on waits for is the number of tasks whose coroutine is not    *)
(* yet dropped plus the drops not yet counted: it is never early and never late. *)
ActiveExact == active = Cardinality(LiveTasks) + Cardinality(Unretired)

(* block_on returns only once every task ever created has dropped its coroutine, *)
(* the root among them, and no worker is still finishing one (the exit-time leak *)
(* check sees a settled heap).                                                   *)
QuiescentReturn ==
  main = "returned" =>
    /\ coro[Root] = "done"
    /\ \A t \in Tasks : coro[t] \in {"absent", "done"}
    /\ Unretired = {}

(* A worker asleep at the idle gate leaves no entry of the injector unattended:  *)
(* for each one a notification is on its way or another worker is about to look  *)
(* (it is past the check of its own, empty, deque).  Signals alone suffice for   *)
(* the injector; the timeout is needed only for entries in a sibling's deque.    *)
Looking == {w \in Workers : wpc[w] = "global" \/ (wpc[w] = "find" /\ deque[w] = <<>>)}
NoMissedSignal ==
  (\E w \in Workers : wpc[w] = "wait") =>
    Len(injector) <= signals + Cardinality(Looking)

(* The scheduler implements the park/wake contract. *)
Contract == INSTANCE ParkWake WITH phase <- coro, owed <- [t \in Tasks |-> Queued(t)]
ParkWakeSafe == Contract!Spec
ParkWakeFair == Contract!FairSpec

(* When every task has finished block_on returns: the notification the last one  *)
(* sends cannot slip between block_on's check of the count and its wait.          *)
AllFinished == \A t \in Tasks : coro[t] \in {"absent", "done"}
BlockOnReturns == (coro[Root] = "done" /\ AllFinished) ~> main = "returned"

===============================================================================
