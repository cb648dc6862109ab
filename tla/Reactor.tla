-------------------------------- MODULE Reactor --------------------------------
(***************************************************************************)
(* The network reactor and the timers of crates/fai-runtime/src/reactor.rs, *)
(* for one direction of one socket (the two directions share nothing), in   *)
(* both of its configurations: a dedicated reactor thread beside several    *)
(* workers, or a sole scheduler worker that polls when it has no work.      *)
(*                                                                          *)
(* Tasks follow the park/wake contract (ParkWake): `owed` stands for an     *)
(* entry of the task in a run queue.  The operating system's poll is edge   *)
(* triggered: an arrival is reported once, to the next poll that returns.   *)
(***************************************************************************)
EXTENDS Naturals, FiniteSets

CONSTANTS
  Tasks, NoTask,
  Connecting,     \* tasks whose operation is finish_connect
  Sleepers, Closers, Cancellable,   \* tasks that sleep, that close, that are cancelled
  PollEvery,      \* resumes after which a busy sole worker polls (64)
  MaxArrivals,    \* bound: arrivals at the socket
  MaxNow          \* bound: the clock; every deadline lies before it

ASSUME ReactorAssumption ==
  /\ IsFiniteSet(Tasks) /\ NoTask \notin Tasks
  /\ \A role \in {Connecting, Sleepers, Closers, Cancellable} : role \subseteq Tasks
  /\ PollEvery \in Nat \ {0} /\ MaxArrivals \in Nat /\ MaxNow \in Nat

Never == MaxNow + 1               \* no deadline

VARIABLES
  sole,       \* has_single_worker(), when the reactor is created
  avail,      \* operations the socket can serve without blocking
  shut,       \* the connection was shut down: operations no longer block
  arrivals,   \* arrivals so far
  edge,       \* an arrival no poll has reported
  ready,      \* Readiness.ready
  waiters,    \* Readiness.waiters
  dirlock,    \* owner of the direction's lock, across steps
  timer,      \* Timers.heap: each task's deadline there, or Never
  now,
  waker,      \* the poll's Waker is set
  dpc,        \* where the driver is
  timeout,    \* when its poll ends at the latest
  got,        \* its poll reported the socket
  toWake,     \* tasks the driver has taken and not yet unparked
  pc, deadline, owed, cancelled,
  cur,        \* the task on the sole worker
  resumed,    \* worker_loop's count of resumes since it last polled
  ext         \* a thread that is no worker is inside schedule

socket == <<avail, shut, arrivals, edge>>
direction == <<ready, waiters, dirlock>>
driver == <<dpc, timeout, got>>
worker == <<cur, resumed>>
vars == <<sole, socket, direction, timer, now, waker, driver, toWake,
          pc, deadline, owed, cancelled, worker, ext>>

Parked == {"rest", "iowait", "sleeping"}

Init ==
  /\ sole \in BOOLEAN
  /\ avail = 0 /\ shut = FALSE /\ arrivals = 0 /\ edge = FALSE
  /\ ready = FALSE /\ waiters = {} /\ dirlock = NoTask
  /\ timer = [t \in Tasks |-> Never] /\ now = 0 /\ waker = FALSE
  /\ dpc = (IF sole THEN "off" ELSE "top") /\ timeout = Never /\ got = FALSE
  /\ toWake = {}
  /\ pc = [t \in Tasks |-> "rest"] /\ deadline = [t \in Tasks |-> 0]
  /\ owed = [t \in Tasks |-> TRUE] /\ cancelled = [t \in Tasks |-> FALSE]
  /\ cur = NoTask /\ resumed = 0 /\ ext = FALSE

-------------------------------------------------------------------------------
(* Tasks: a task runs on some worker, or on the sole one. *)

Runs(t, place) == pc[t] = place /\ (sole => cur = t)

Goto(t, place) ==
  /\ pc' = [pc EXCEPT ![t] = place]
  /\ cur' = IF place \in Parked THEN NoTask ELSE cur

(* The program waits for something else; so it does after each operation. *)
Rest(t) ==
  /\ Runs(t, "run") /\ Goto(t, "rest")
  /\ UNCHANGED <<sole, socket, direction, timer, now, waker, driver, toWake, deadline, owed,
                 cancelled, resumed, ext>>

(* accept_loop, recv_into, send_loop, finish_connect: unless cancelled, attempt  *)
(* with the direction locked; an attempt that would block keeps the lock.        *)
Probe(t) ==
  /\ Runs(t, "run") \/ Runs(t, "top")
  /\ IF cancelled[t]
     THEN Goto(t, "rest") /\ UNCHANGED <<avail, dirlock>>
     ELSE /\ dirlock = NoTask
          /\ IF avail > 0 \/ shut
             THEN /\ Goto(t, "rest")
                  /\ avail' = IF shut \/ t \in Connecting THEN avail ELSE avail - 1
                  /\ UNCHANGED dirlock
             ELSE Goto(t, "probed") /\ dirlock' = t /\ UNCHANGED avail
  /\ UNCHANGED <<sole, shut, arrivals, edge, ready, waiters, timer, now, waker, driver, toWake,
                 deadline, owed, cancelled, resumed, ext>>

(* The latch survives the probe of a connect only; try_io discards it as stale. *)
Latched(t) == t \in Connecting /\ ready

(* wait_locked: consume the latch and retry, or register, unlock and park. *)
WaitLocked(t) ==
  /\ Runs(t, "probed")
  /\ ready' = FALSE /\ dirlock' = NoTask
  /\ IF Latched(t)
     THEN Goto(t, "top") /\ UNCHANGED waiters
     ELSE Goto(t, "iowait") /\ waiters' = waiters \cup {t}
  /\ UNCHANGED <<sole, socket, timer, now, waker, driver, toWake, deadline, owed, cancelled,
                 resumed, ext>>

(* After the park: withdraw the registration, then retry. *)
Unregister(t) ==
  /\ Runs(t, "iowoken") /\ dirlock = NoTask
  /\ waiters' = waiters \ {t}
  /\ Goto(t, "top")
  /\ UNCHANGED <<sole, socket, ready, dirlock, timer, now, waker, driver, toWake, deadline, owed,
                 cancelled, resumed, ext>>

(* wake_direction, with the direction locked: latch, and take every waiter. *)
MayDeliverUnlocked == TRUE                   \* slip: delivery does not take the lock
MayDeliver == dirlock = NoTask
Deliver == MayDeliver /\ ready' = TRUE /\ waiters' = {}

(* close_connection: shut the socket down, then wake the direction. *)
Shutdown(t) ==
  /\ Runs(t, "run") /\ t \in Closers /\ ~shut
  /\ shut' = TRUE
  /\ Goto(t, "closing")
  /\ UNCHANGED <<sole, avail, arrivals, edge, direction, timer, now, waker, driver, toWake,
                 deadline, owed, cancelled, resumed, ext>>

CloseWakesNobody == {}                       \* slip: a local shutdown leaves the waiters
CloseWakes == waiters
CloseDirection(t) ==
  /\ Runs(t, "closing")
  /\ Deliver
  /\ owed' = [u \in Tasks |-> owed[u] \/ u \in CloseWakes]
  /\ Goto(t, "rest")
  /\ UNCHANGED <<sole, socket, dirlock, timer, now, waker, driver, toWake, deadline, cancelled,
                 resumed, ext>>

(* sleep_until: register the timer, then interrupt the poll. *)
StartSleep(t) ==
  /\ Runs(t, "run") /\ t \in Sleepers /\ ~cancelled[t]
  /\ \E d \in (now + 1)..MaxNow :
       timer' = [timer EXCEPT ![t] = d] /\ deadline' = [deadline EXCEPT ![t] = d]
  /\ Goto(t, "pushed")
  /\ UNCHANGED <<sole, socket, direction, now, waker, driver, toWake, owed, cancelled, resumed, ext>>

InterruptNothing == waker                    \* slip: the poll is not interrupted
Interrupt == TRUE
InterruptPoll(t) ==
  /\ Runs(t, "pushed")
  /\ waker' = Interrupt
  /\ Goto(t, "awake")
  /\ UNCHANGED <<sole, socket, direction, timer, now, driver, toWake, deadline, owed, cancelled,
                 resumed, ext>>

(* The loop of sleep_until; leaving it drops the registration. *)
SleepCheck(t) ==
  /\ Runs(t, "awake")
  /\ IF cancelled[t] \/ now >= deadline[t]
     THEN /\ Goto(t, "rest")
          /\ timer' = [timer EXCEPT ![t] = Never] /\ deadline' = [deadline EXCEPT ![t] = 0]
     ELSE Goto(t, "sleeping") /\ UNCHANGED <<timer, deadline>>
  /\ UNCHANGED <<sole, socket, direction, now, waker, driver, toWake, owed, cancelled,
                 resumed, ext>>

PollDueNever == FALSE                        \* slip: a busy worker never polls
PollDue == resumed = PollEvery

(* A worker takes a queue entry of the task. *)
Resume(t) ==
  /\ pc[t] \in Parked /\ owed[t]
  /\ sole => cur = NoTask /\ dpc = "off" /\ ~PollDue
  /\ owed' = [owed EXCEPT ![t] = FALSE]
  /\ pc' = [pc EXCEPT ![t] = CASE @ = "rest" -> "run" [] @ = "iowait" -> "iowoken"
                               [] @ = "sleeping" -> "awake"]
  /\ IF sole THEN cur' = t /\ resumed' = (resumed % PollEvery) + 1 ELSE UNCHANGED worker
  /\ UNCHANGED <<sole, socket, direction, timer, now, waker, driver, toWake, deadline, cancelled, ext>>

-------------------------------------------------------------------------------
(* Other threads: schedule pushes the task, then interrupts a sole worker's poll. *)

(* A wake from outside the workers, by a cancellation or by anything else. *)
WakeOther(t) ==
  /\ ~ext
  /\ owed' = [owed EXCEPT ![t] = TRUE]
  /\ \/ UNCHANGED cancelled
     \/ t \in Cancellable /\ cancelled' = [cancelled EXCEPT ![t] = TRUE]
  /\ ext' = TRUE
  /\ UNCHANGED <<sole, socket, direction, timer, now, waker, driver, toWake, pc, deadline, worker>>

WakeWorkerPollNever == FALSE                 \* slip: the sole worker's poll is left alone
WakeWorkerPoll == sole
WakeOtherDone ==
  /\ ext /\ ext' = FALSE
  /\ waker' = (waker \/ WakeWorkerPoll)
  /\ UNCHANGED <<sole, socket, direction, timer, now, driver, toWake, pc, deadline, owed,
                 cancelled, worker>>

Arrive ==
  /\ arrivals < MaxArrivals /\ ~shut
  /\ arrivals' = arrivals + 1 /\ avail' = avail + 1 /\ edge' = TRUE
  /\ UNCHANGED <<sole, shut, direction, timer, now, waker, driver, toWake, pc, deadline, owed,
                 cancelled, worker, ext>>

Tick ==
  /\ now < MaxNow
  /\ now' = now + 1
  /\ UNCHANGED <<sole, socket, direction, timer, waker, driver, toWake, pc, deadline, owed,
                 cancelled, worker, ext>>

-------------------------------------------------------------------------------
(* The driver: reactor_loop, or the sole worker in poll_on_idle and poll_ready. *)

Earliest == CHOOSE d \in {timer[t] : t \in Tasks} : \A t \in Tasks : d <= timer[t]

(* worker_loop: nothing to run, or enough resumes: poll. *)
WorkerPolls ==
  /\ sole /\ cur = NoTask /\ dpc = "off"
  /\ \/ PollDue /\ dpc' = "glance"
     \/ ~PollDue /\ (\A t \in Tasks : ~(pc[t] \in Parked /\ owed[t])) /\ dpc' = "top"
  /\ resumed' = 0
  /\ UNCHANGED <<sole, socket, direction, timer, now, waker, timeout, got, toWake, pc, deadline,
                 owed, cancelled, cur, ext>>

(* next_timeout; a worker with runnable tasks does not block. *)
PollBegin ==
  /\ dpc \in {"top", "glance"}
  /\ timeout' = IF dpc = "glance" THEN 0 ELSE Earliest
  /\ dpc' = "poll"
  /\ UNCHANGED <<sole, socket, direction, timer, now, waker, got, toWake, pc, deadline, owed,
                 cancelled, worker, ext>>

PollReturn ==
  /\ dpc = "poll"
  /\ waker \/ edge \/ timeout <= now
  /\ got' = edge /\ edge' = FALSE /\ waker' = FALSE
  /\ dpc' = "timers" /\ timeout' = Never
  /\ UNCHANGED <<sole, avail, shut, arrivals, direction, timer, now, toWake, pc, deadline,
                 owed, cancelled, worker, ext>>

(* fire_expired_timers: pop what is due, under the timers' lock. *)
Due == {t \in Tasks : timer[t] <= now}
FireTimers ==
  /\ dpc = "timers"
  /\ toWake' = Due
  /\ timer' = [t \in Tasks |-> IF t \in Due THEN Never ELSE timer[t]]
  /\ dpc' = "fired"
  /\ UNCHANGED <<sole, socket, direction, now, waker, timeout, got, pc, deadline, owed, cancelled,
                 worker, ext>>

(* unpark one of the tasks taken. *)
Unpark(t) ==
  /\ t \in toWake
  /\ toWake' = toWake \ {t}
  /\ owed' = [owed EXCEPT ![t] = TRUE]
  /\ UNCHANGED <<sole, socket, direction, timer, now, waker, driver, pc, deadline, cancelled,
                 worker, ext>>

(* dispatch_events: the socket's event, if there is one. *)
DispatchEvent ==
  /\ dpc = "fired" /\ toWake = {}
  /\ IF got THEN Deliver /\ toWake' = waiters ELSE UNCHANGED <<ready, waiters, toWake>>
  /\ got' = FALSE /\ dpc' = "dispatched"
  /\ UNCHANGED <<sole, socket, dirlock, timer, now, waker, timeout, pc, deadline, owed, cancelled,
                 worker, ext>>

DriverLoops ==
  /\ dpc = "dispatched" /\ toWake = {}
  /\ dpc' = (IF sole THEN "off" ELSE "top")
  /\ UNCHANGED <<sole, socket, direction, timer, now, waker, timeout, got, toWake, pc, deadline,
                 owed, cancelled, worker, ext>>

-------------------------------------------------------------------------------
TaskStep(t) ==
  \/ Rest(t) \/ Probe(t) \/ WaitLocked(t) \/ Unregister(t) \/ Shutdown(t) \/ CloseDirection(t)
  \/ StartSleep(t) \/ InterruptPoll(t) \/ SleepCheck(t)

DriverStep ==
  \/ WorkerPolls \/ PollBegin \/ PollReturn \/ FireTimers \/ DispatchEvent \/ DriverLoops

Next ==
  \/ \E t \in Tasks : TaskStep(t) \/ Resume(t) \/ WakeOther(t) \/ Unpark(t)
  \/ DriverStep \/ WakeOtherDone \/ Arrive \/ Tick

Spec == Init /\ [][Next]_vars

(* Threads run and get the lock they wait for, the clock advances, queued tasks  *)
(* are resumed (the injector is first-in first-out), and a running task comes to *)
(* an operation or parks (tasks are not preempted).                              *)
Fairness ==
  /\ \A t \in Tasks : WF_vars(TaskStep(t)) /\ SF_vars(Resume(t)) /\ WF_vars(Unpark(t))
  /\ WF_vars(DriverStep) /\ SF_vars(DispatchEvent) /\ WF_vars(WakeOtherDone) /\ WF_vars(Tick)

FairSpec == Spec /\ Fairness

-------------------------------------------------------------------------------
(* Properties *)

Asleep(t, place) == pc[t] = place /\ ~owed[t]

(* No operation sleeps on readiness: while the socket can serve it, its wake is  *)
(* on the way: an edge no poll has reported or the driver has not delivered, a   *)
(* closer that has not woken the direction, or a wake-up in progress.            *)
NoSleepOnReadiness ==
  \A t \in Tasks : Asleep(t, "iowait") /\ (avail > 0 \/ shut) =>
    edge \/ got \/ t \in toWake \/ \E c \in Tasks : pc[c] = "closing"

(* A poll never sleeps past a deadline: it was told of every timer, or the task  *)
(* that registered an earlier one is about to interrupt it; and no sleeping task *)
(* has lost its timer.                                                           *)
PollBoundedByTimers ==
  /\ \A t \in Tasks : dpc = "poll" /\ timer[t] < timeout => waker \/ pc[t] = "pushed"
  /\ \A t \in Tasks : Asleep(t, "sleeping") => timer[t] = deadline[t] \/ t \in toWake

(* The sole worker does not sleep in the poll while a task is runnable, unless   *)
(* the thread that queued it is about to interrupt the poll.                     *)
QueuedWorkInterrupts ==
  sole /\ dpc = "poll" /\ timeout > now /\ (\E t \in Tasks : pc[t] \in Parked /\ owed[t])
    => waker \/ ext

(* A sleep ends, whatever other tasks and wakes keep the workers busy. *)
SleepEnds == \A t \in Sleepers : pc[t] = "sleeping" ~> pc[t] = "rest"

===============================================================================
