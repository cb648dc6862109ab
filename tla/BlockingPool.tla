----------------------------- MODULE BlockingPool -----------------------------
(***************************************************************************)
(* The blocking-work pool of crates/fai-runtime/src/scheduler.rs:          *)
(* submit_blocking and blocking_worker_loop, one section of the pool lock  *)
(* per step, and run_blocking, the task that hands its operating-system    *)
(* call to the pool and parks until the result is in its slot.             *)
(*                                                                         *)
(* A job is named after the task that submits it.  A thread that was       *)
(* notified has left the condition variable but stays counted in `idle`    *)
(* until it has the lock again.                                            *)
(***************************************************************************)
EXTENDS Naturals, Sequences, FiniteSets

CONSTANTS
  Tasks,     \* tasks that call run_blocking
  NoTask,
  MaxThreads \* max_blocking_threads(): FAI_BLOCKING_THREADS or 512

ASSUME PoolAssumption ==
  IsFiniteSet(Tasks) /\ NoTask \notin Tasks /\ MaxThreads \in Nat \ {0}

Threads == 1..MaxThreads

VARIABLES
  queue,    \* BlockingInner.queue
  idle,     \* BlockingInner.idle
  threads,  \* BlockingInner.threads
  tpc,      \* where each pool thread is
  job,      \* the job a thread runs
  pc,       \* where each task is in run_blocking
  result,   \* the task's result slot is filled
  owed      \* a wake of the task is outstanding (ParkWake)

vars == <<queue, idle, threads, tpc, job, pc, result, owed>>

ThreadPCs == {"none", "top", "wait", "woken", "busy", "filled"}

Init ==
  /\ queue = <<>> /\ idle = 0 /\ threads = 0
  /\ tpc = [h \in Threads |-> "none"]
  /\ job = [h \in Threads |-> NoTask]
  /\ pc = [t \in Tasks |-> "run"]
  /\ result = [t \in Tasks |-> FALSE]
  /\ owed = [t \in Tasks |-> FALSE]

-------------------------------------------------------------------------------
(* run_blocking: submit_blocking under the pool lock, then park. *)

NotifyNobody == UNCHANGED tpc                \* slip: no notification

(* notify_one: a thread in the condition variable, if there is one, leaves it. *)
NotifyOne ==
  IF \E h \in Threads : tpc[h] = "wait"
  THEN \E h \in Threads : tpc[h] = "wait" /\ tpc' = [tpc EXCEPT ![h] = "woken"]
  ELSE UNCHANGED tpc

MayGrow == idle = 0 /\ threads < MaxThreads

(* No thread counts as idle and the cap leaves room: start one, else notify. *)
Submit(t) ==
  /\ pc[t] = "run"
  /\ queue' = Append(queue, t)
  /\ IF MayGrow
     THEN /\ threads' = threads + 1
          /\ tpc' = [tpc EXCEPT ![threads + 1] = "top"]
     ELSE NotifyOne /\ UNCHANGED threads
  /\ pc' = [pc EXCEPT ![t] = "parked"]
  /\ UNCHANGED <<idle, job, result, owed>>

AfterResumeAnyway(t) == "run"                \* slip: returns on any wake
AfterResume(t) == IF result[t] THEN "run" ELSE "parked"

(* The scheduler resumes the task: take the result, or park again.  Each call has *)
(* a slot of its own, so the next one's starts empty.                             *)
Resume(t) ==
  /\ pc[t] = "parked" /\ owed[t]
  /\ \E more \in BOOLEAN : owed' = [owed EXCEPT ![t] = more]
  /\ pc' = [pc EXCEPT ![t] = AfterResume(t)]
  /\ result' = [result EXCEPT ![t] = FALSE]
  /\ UNCHANGED <<queue, idle, threads, tpc, job>>

(* Another party wakes the task: a cancellation, or a late wake of an earlier park. *)
WakeOther(t) ==
  /\ owed' = [owed EXCEPT ![t] = TRUE]
  /\ UNCHANGED <<queue, idle, threads, tpc, job, pc, result>>

-------------------------------------------------------------------------------
(* blocking_worker_loop *)

(* With the lock: take the first job, or count as idle and wait. *)
Look(h) ==
  /\ tpc[h] \in {"top", "woken"}
  /\ IF queue # <<>>
     THEN /\ job' = [job EXCEPT ![h] = Head(queue)]
          /\ queue' = Tail(queue)
          /\ tpc' = [tpc EXCEPT ![h] = "busy"]
          /\ idle' = IF tpc[h] = "woken" THEN idle - 1 ELSE idle
     ELSE /\ tpc' = [tpc EXCEPT ![h] = "wait"]
          /\ idle' = IF tpc[h] = "woken" THEN idle ELSE idle + 1
          /\ UNCHANGED <<job, queue>>
  /\ UNCHANGED <<threads, pc, result, owed>>

(* A condition variable may return without a notification. *)
SpuriousWakeup(h) ==
  /\ tpc[h] = "wait"
  /\ tpc' = [tpc EXCEPT ![h] = "woken"]
  /\ UNCHANGED <<queue, idle, threads, job, pc, result, owed>>

AfterFillSilent == "top"                     \* slip: the task is not woken
AfterFill == "filled"

(* The operating-system call returns: fill the slot ... *)
Fill(h) ==
  /\ tpc[h] = "busy"
  /\ result' = [result EXCEPT ![job[h]] = TRUE]
  /\ tpc' = [tpc EXCEPT ![h] = AfterFill]
  /\ UNCHANGED <<queue, idle, threads, job, pc, owed>>

(* ... then wake the task. *)
WakeSubmitter(h) ==
  /\ tpc[h] = "filled"
  /\ owed' = [owed EXCEPT ![job[h]] = TRUE]
  /\ job' = [job EXCEPT ![h] = NoTask]
  /\ tpc' = [tpc EXCEPT ![h] = "top"]
  /\ UNCHANGED <<queue, idle, threads, pc, result>>

-------------------------------------------------------------------------------
Next ==
  \/ \E t \in Tasks : Submit(t) \/ Resume(t) \/ WakeOther(t)
  \/ \E h \in Threads : Look(h) \/ SpuriousWakeup(h) \/ Fill(h) \/ WakeSubmitter(h)

Spec == Init /\ [][Next]_vars

(* Pool threads run, woken tasks are resumed, and the blocking call returns. *)
Fairness ==
  /\ \A t \in Tasks : WF_vars(Resume(t))
  /\ \A h \in Threads : WF_vars(Look(h) \/ WakeSubmitter(h)) /\ WF_vars(Fill(h))

FairSpec == Spec /\ Fairness

-------------------------------------------------------------------------------
(* Properties *)

Entries(q) == {q[i] : i \in DOMAIN q}

(* The types of the pool's state. *)
TypeOK ==
  /\ queue \in Seq(Tasks)
  /\ idle \in Nat /\ threads \in 0..MaxThreads
  /\ tpc \in [Threads -> ThreadPCs]
  /\ job \in [Threads -> Tasks \cup {NoTask}]
  /\ pc \in [Tasks -> {"run", "parked"}]
  /\ result \in [Tasks -> BOOLEAN]
  /\ owed \in [Tasks -> BOOLEAN]

(* While its task waits, a submitted call is in exactly one place: queued, on    *)
(* one thread, or answered in its slot; and no call outlives the wait for it:    *)
(* run_blocking never returns on a cancellation's wake while the pool still has  *)
(* the work.                                                                     *)
Holders(t) == {h \in Threads : tpc[h] = "busy" /\ job[h] = t}
Queued(t) == {i \in DOMAIN queue : queue[i] = t}
OneCall ==
  \A t \in Tasks :
    Cardinality(Queued(t)) + Cardinality(Holders(t)) + (IF result[t] THEN 1 ELSE 0)
      = IF pc[t] = "parked" THEN 1 ELSE 0

(* A filled slot is never slept on: its task has a wake coming. *)
ResultAnnounced ==
  \A t \in Tasks : result[t] => owed[t] \/ \E h \in Threads : tpc[h] = "filled" /\ job[h] = t

(* No job is stranded while a thread sleeps: each queued job has a thread of its  *)
(* own that is about to look, although the idle count is stale while notified      *)
(* threads compete for the lock.                                                   *)
NoStrandedJob ==
  (\E h \in Threads : tpc[h] = "wait") =>
    Len(queue) <= Cardinality({h \in Threads : tpc[h] \in {"top", "woken"}})

(* Every blocking call returns to its task. *)
CallReturns == \A t \in Tasks : pc[t] = "parked" ~> pc[t] = "run"
===============================================================================
