----------------------------- MODULE ReactorProofs ----------------------------
(***************************************************************************)
(* Proofs about Reactor, for any number of tasks of any roles and any      *)
(* bounds, in both configurations: no operation sleeps on a socket that    *)
(* can serve it, the poll is bounded by the timers and no sleeping task    *)
(* loses its timer, and queued work interrupts a sole worker's poll.       *)
(***************************************************************************)
EXTENDS Reactor, WellFoundedInduction, TLAPS

-------------------------------------------------------------------------------
(* The inductive invariant *)

Deadlines == 0..Never
TaskPCs == Parked \cup {"run", "top", "probed", "iowoken", "closing", "pushed", "awake"}

(* The types of the state; the poll's end is a deadline once there is a task. *)
TypeOK ==
  /\ sole \in BOOLEAN /\ shut \in BOOLEAN /\ edge \in BOOLEAN /\ ready \in BOOLEAN
  /\ waker \in BOOLEAN /\ got \in BOOLEAN /\ ext \in BOOLEAN
  /\ avail \in Nat /\ now \in 0..MaxNow
  /\ waiters \in SUBSET Tasks /\ toWake \in SUBSET Tasks
  /\ dirlock \in Tasks \cup {NoTask} /\ cur \in Tasks \cup {NoTask}
  /\ timer \in [Tasks -> Deadlines] /\ deadline \in [Tasks -> Deadlines]
  /\ Tasks # {} => timeout \in Deadlines
  /\ dpc \in {"off", "top", "glance", "poll", "timers", "fired", "dispatched"}
  /\ pc \in [Tasks -> TaskPCs]
  /\ owed \in [Tasks -> BOOLEAN] /\ cancelled \in [Tasks -> BOOLEAN]

(* The direction's lock is held across steps exactly by the task that has just *)
(* found that its attempt would block.                                         *)
LockProbed == \A t \in Tasks : dirlock = t <=> pc[t] = "probed"

(* The driver carries tasks to wake and an event to deliver only between the   *)
(* return of its poll and the next one; a sole worker polls only when it has   *)
(* no task on it.                                                              *)
DriverEmpty ==
  /\ toWake # {} => dpc \in {"fired", "dispatched"}
  /\ got => dpc \in {"timers", "fired"}
  /\ sole /\ dpc # "off" => cur = NoTask

(* A task that waits for the socket is registered, or its wake is on the way.  *)
Registered == \A t \in Tasks : pc[t] = "iowait" => t \in waiters \/ t \in toWake \/ owed[t]

(* Readiness that came after a failed attempt is still to be delivered: while  *)
(* the task has the lock the delivery cannot have slipped past it.             *)
Servable == avail > 0 \/ shut
Closing == \E c \in Tasks : pc[c] = "closing"
ProbeNotMissed == \A t \in Tasks : pc[t] = "probed" /\ Servable => edge \/ got \/ Closing

(* A task in sleep_until has its timer, or the timer went off: then its        *)
(* deadline has passed, and it has not yet gone to sleep or is being woken.    *)
TimerKept ==
  \A t \in Tasks : pc[t] \in {"pushed", "awake", "sleeping"} =>
    \/ timer[t] = deadline[t]
    \/ deadline[t] <= now /\ (pc[t] # "sleeping" \/ t \in toWake \/ owed[t])

(* A blocking poll was told of every timer, or will be interrupted. *)
PollTold == \A t \in Tasks : dpc = "poll" /\ timer[t] < timeout => waker \/ pc[t] = "pushed"

(* From its decision to poll for as long as it takes, a sole worker leaves no  *)
(* runnable task behind, unless it is interrupted.                             *)
Runnable == \E t \in Tasks : pc[t] \in Parked /\ owed[t]
Blocking == dpc = "top" \/ (dpc = "poll" /\ timeout > now)
WorkInterrupts == sole /\ Blocking /\ Runnable => waker \/ ext

IInv ==
  /\ TypeOK /\ LockProbed /\ DriverEmpty /\ Registered /\ ProbeNotMissed /\ NoSleepOnReadiness
  /\ TimerKept /\ PollTold /\ WorkInterrupts

-------------------------------------------------------------------------------
(* The earliest deadline *)

(* The ends of the range of deadlines. *)
LEMMA DeadlineEnds == Never \in Deadlines /\ 0 \in Deadlines /\ 0 \in 0..MaxNow
BY ReactorAssumption DEF Deadlines, Never

(* A set of natural numbers that is not empty has a least element. *)
LEMMA LeastElement ==
  ASSUME NEW S \in SUBSET Nat, S # {}
  PROVE  \E n \in S : \A m \in S : n <= m
<1>1. PICK n \in S : \A m \in S : ~(<<m, n>> \in OpToRel(<, Nat))
  BY WFMin, NatLessThanWellFounded, Zenon
<1>2. \A m \in S : m \in Nat /\ n \in Nat /\ ~(m < n)
  BY <1>1, Zenon DEF OpToRel
<1> QED BY <1>2

(* next_timeout finds the earliest timer. *)
LEMMA EarliestTimer ==
  ASSUME TypeOK, Tasks # {}
  PROVE  Earliest \in Deadlines /\ \A t \in Tasks : Earliest <= timer[t]
<1> DEFINE S == {timer[t] : t \in Tasks}
<1>1. S \in SUBSET Nat /\ S # {} /\ S \subseteq Deadlines
  BY ReactorAssumption DEF TypeOK, Deadlines, Never
<1>2. \E d \in S : \A t \in Tasks : d <= timer[t]
  <2> HIDE DEF S
  <2>1. PICK d \in S : \A m \in S : d <= m
    BY <1>1, LeastElement
  <2>2. \A t \in Tasks : timer[t] \in S
    BY DEF S
  <2> QED BY <2>1, <2>2
<1>3. Earliest \in S /\ \A t \in Tasks : Earliest <= timer[t]
  BY <1>2, Zenon DEF Earliest
<1> QED BY <1>1, <1>3

(* The invariant holds initially. *)
LEMMA IInvInit == Init => IInv
<1> SUFFICES ASSUME Init PROVE IInv
  OBVIOUS
<1> USE ReactorAssumption DEF Init
<1>1. TypeOK
  <2>1. Never \in Deadlines /\ 0 \in Deadlines /\ 0 \in 0..MaxNow
    BY DeadlineEnds
  <2>2. "rest" \in TaskPCs
    BY DEF TaskPCs, Parked
  <2> QED BY <2>1, <2>2 DEF TypeOK
<1>2. LockProbed /\ DriverEmpty /\ Registered /\ ProbeNotMissed /\ NoSleepOnReadiness
  BY DEF LockProbed, DriverEmpty, Registered, ProbeNotMissed, NoSleepOnReadiness, Asleep
<1>3. TimerKept /\ PollTold
  BY DEF TimerKept, PollTold
<1>4. WorkInterrupts
  BY DEF WorkInterrupts, Blocking, Runnable
<1> QED BY <1>1, <1>2, <1>3, <1>4 DEF IInv

-------------------------------------------------------------------------------
(* The steps of tasks *)

(* The program waits for something else. *)
LEMMA RestStep == ASSUME IInv, NEW t \in Tasks, Rest(t) PROVE IInv'
<1> USE ReactorAssumption DEF IInv, Rest, Runs, Goto, Parked, socket, direction, driver, worker
<1>1. TypeOK'
  BY DEF TypeOK, TaskPCs, Parked, Deadlines, Never
<1>2. LockProbed' /\ DriverEmpty'
  BY DEF LockProbed, DriverEmpty, TypeOK, Parked
<1>3. Registered' /\ ProbeNotMissed'
  BY DEF Registered, ProbeNotMissed, Servable, Closing, LockProbed, DriverEmpty, TypeOK
<1>4. NoSleepOnReadiness'
  BY DEF NoSleepOnReadiness, Asleep, Registered, ProbeNotMissed, Servable, Closing, DriverEmpty,
         TypeOK
<1>5. TimerKept' /\ PollTold'
  BY DEF TimerKept, PollTold, DriverEmpty, TypeOK, Deadlines, Never
<1>6. WorkInterrupts'
  BY DEF WorkInterrupts, Blocking, Runnable, DriverEmpty, TypeOK, Parked, Deadlines, Never
<1> QED BY <1>1, <1>2, <1>3, <1>4, <1>5, <1>6

(* An attempt is served, or keeps the lock because nothing is there. *)
LEMMA ProbeStep == ASSUME IInv, NEW t \in Tasks, Probe(t) PROVE IInv'
<1> USE ReactorAssumption DEF IInv, Probe, Runs, Goto, Parked, socket, direction, driver, worker
<1>1. TypeOK'
  BY DEF TypeOK, TaskPCs, Parked, Deadlines, Never
<1>2. LockProbed' /\ DriverEmpty'
  BY DEF LockProbed, DriverEmpty, TypeOK, Parked
<1>3. Registered' /\ ProbeNotMissed'
  BY DEF Registered, ProbeNotMissed, Servable, Closing, LockProbed, DriverEmpty, TypeOK
<1>4. NoSleepOnReadiness'
  BY DEF NoSleepOnReadiness, Asleep, Registered, ProbeNotMissed, Servable, Closing, DriverEmpty,
         TypeOK
<1>5. TimerKept' /\ PollTold'
  BY DEF TimerKept, PollTold, DriverEmpty, TypeOK, Deadlines, Never
<1>6. WorkInterrupts'
  BY DEF WorkInterrupts, Blocking, Runnable, DriverEmpty, TypeOK, Parked, Deadlines, Never
<1> QED BY <1>1, <1>2, <1>3, <1>4, <1>5, <1>6

(* What became ready since the attempt is still to be delivered. *)
LEMMA WaitLockedStep == ASSUME IInv, NEW t \in Tasks, WaitLocked(t) PROVE IInv'
<1> USE ReactorAssumption DEF IInv, WaitLocked, Runs, Goto, Parked, socket, direction, driver,
                              worker
<1>1. TypeOK'
  <2>1. pc' \in [Tasks -> TaskPCs]
    <3>1. pc \in [Tasks -> TaskPCs] /\ "top" \in TaskPCs /\ "iowait" \in TaskPCs
      BY DEF TypeOK, TaskPCs
    <3> QED BY <3>1
  <2>2. /\ ready' \in BOOLEAN /\ dirlock' \in Tasks \cup {NoTask} /\ waiters' \in SUBSET Tasks
        /\ cur' \in Tasks \cup {NoTask}
    BY DEF TypeOK
  <2>3. /\ UNCHANGED <<sole, avail, shut, edge, timer, now, waker, dpc, timeout, got, toWake>>
        /\ UNCHANGED <<deadline, owed, cancelled, ext>>
    OBVIOUS
  <2> HIDE DEF WaitLocked
  <2> QED BY <2>1, <2>2, <2>3 DEF TypeOK
<1>2. LockProbed' /\ DriverEmpty'
  BY DEF LockProbed, DriverEmpty, TypeOK, Parked
<1>3. Registered' /\ ProbeNotMissed'
  BY DEF Registered, ProbeNotMissed, Servable, Closing, LockProbed, DriverEmpty, TypeOK
<1>4. NoSleepOnReadiness'
  BY DEF NoSleepOnReadiness, Asleep, Registered, ProbeNotMissed, Servable, Closing, DriverEmpty,
         TypeOK
<1>5. TimerKept' /\ PollTold'
  BY DEF TimerKept, PollTold, DriverEmpty, TypeOK, Deadlines, Never
<1>6. WorkInterrupts'
  BY DEF WorkInterrupts, Blocking, Runnable, DriverEmpty, TypeOK, Parked, Deadlines, Never
<1> QED BY <1>1, <1>2, <1>3, <1>4, <1>5, <1>6

(* A woken task withdraws and retries. *)
LEMMA UnregisterStep == ASSUME IInv, NEW t \in Tasks, Unregister(t) PROVE IInv'
<1> USE ReactorAssumption DEF IInv, Unregister, Runs, Goto, Parked, socket, direction, driver,
                              worker
<1>1. TypeOK'
  BY DEF TypeOK, TaskPCs, Parked, Deadlines, Never
<1>2. LockProbed' /\ DriverEmpty'
  BY DEF LockProbed, DriverEmpty, TypeOK, Parked
<1>3. Registered' /\ ProbeNotMissed'
  BY DEF Registered, ProbeNotMissed, Servable, Closing, LockProbed, DriverEmpty, TypeOK
<1>4. NoSleepOnReadiness'
  BY DEF NoSleepOnReadiness, Asleep, Registered, ProbeNotMissed, Servable, Closing, DriverEmpty,
         TypeOK
<1>5. TimerKept' /\ PollTold'
  BY DEF TimerKept, PollTold, DriverEmpty, TypeOK, Deadlines, Never
<1>6. WorkInterrupts'
  BY DEF WorkInterrupts, Blocking, Runnable, DriverEmpty, TypeOK, Parked, Deadlines, Never
<1> QED BY <1>1, <1>2, <1>3, <1>4, <1>5, <1>6

(* The closer will wake the direction. *)
LEMMA ShutdownStep == ASSUME IInv, NEW t \in Tasks, Shutdown(t) PROVE IInv'
<1> USE ReactorAssumption DEF IInv, Shutdown, Runs, Goto, Parked, socket, direction, driver,
                              worker
<1>1. TypeOK'
  BY DEF TypeOK, TaskPCs, Parked, Deadlines, Never
<1>2. LockProbed' /\ DriverEmpty'
  BY DEF LockProbed, DriverEmpty, TypeOK, Parked
<1>3. Registered' /\ ProbeNotMissed'
  BY DEF Registered, ProbeNotMissed, Servable, Closing, LockProbed, DriverEmpty, TypeOK
<1>4. NoSleepOnReadiness'
  BY DEF NoSleepOnReadiness, Asleep, Registered, ProbeNotMissed, Servable, Closing, DriverEmpty,
         TypeOK
<1>5. TimerKept' /\ PollTold'
  BY DEF TimerKept, PollTold, DriverEmpty, TypeOK, Deadlines, Never
<1>6. WorkInterrupts'
  BY DEF WorkInterrupts, Blocking, Runnable, DriverEmpty, TypeOK, Parked, Deadlines, Never
<1> QED BY <1>1, <1>2, <1>3, <1>4, <1>5, <1>6

(* It wakes every task that is registered. *)
LEMMA CloseDirectionStep == ASSUME IInv, NEW t \in Tasks, CloseDirection(t) PROVE IInv'
<1> USE ReactorAssumption DEF IInv, CloseDirection, Deliver, MayDeliver, CloseWakes, Runs, Goto,
                              Parked, socket, direction, driver, worker
<1>1. TypeOK'
  BY DEF TypeOK, TaskPCs, Parked, Deadlines, Never
<1>2. LockProbed' /\ DriverEmpty'
  BY DEF LockProbed, DriverEmpty, TypeOK, Parked
<1>3. Registered' /\ ProbeNotMissed'
  BY DEF Registered, ProbeNotMissed, Servable, Closing, LockProbed, DriverEmpty, TypeOK
<1>4. NoSleepOnReadiness'
  BY DEF NoSleepOnReadiness, Asleep, Registered, ProbeNotMissed, Servable, Closing, DriverEmpty,
         TypeOK
<1>5. TimerKept' /\ PollTold'
  BY DEF TimerKept, PollTold, DriverEmpty, TypeOK, Deadlines, Never
<1>6. WorkInterrupts'
  BY DEF WorkInterrupts, Blocking, Runnable, DriverEmpty, TypeOK, Parked, Deadlines, Never
<1> QED BY <1>1, <1>2, <1>3, <1>4, <1>5, <1>6

(* A new timer may be earlier than the poll was told. *)
LEMMA StartSleepStep == ASSUME IInv, NEW t \in Tasks, StartSleep(t) PROVE IInv'
<1> USE ReactorAssumption DEF IInv, StartSleep, Runs, Goto, Parked, socket, direction, driver,
                              worker
<1>1. TypeOK'
  BY DEF TypeOK, TaskPCs, Parked, Deadlines, Never
<1>2. LockProbed' /\ DriverEmpty'
  BY DEF LockProbed, DriverEmpty, TypeOK, Parked
<1>3. Registered' /\ ProbeNotMissed'
  BY DEF Registered, ProbeNotMissed, Servable, Closing, LockProbed, DriverEmpty, TypeOK
<1>4. NoSleepOnReadiness'
  BY DEF NoSleepOnReadiness, Asleep, Registered, ProbeNotMissed, Servable, Closing, DriverEmpty,
         TypeOK
<1>5. TimerKept' /\ PollTold'
  BY DEF TimerKept, PollTold, DriverEmpty, TypeOK, Deadlines, Never
<1>6. WorkInterrupts'
  BY DEF WorkInterrupts, Blocking, Runnable, DriverEmpty, TypeOK, Parked, Deadlines, Never
<1> QED BY <1>1, <1>2, <1>3, <1>4, <1>5, <1>6

(* So its task interrupts the poll. *)
LEMMA InterruptPollStep == ASSUME IInv, NEW t \in Tasks, InterruptPoll(t) PROVE IInv'
<1> USE ReactorAssumption DEF IInv, InterruptPoll, Interrupt, Runs, Goto, Parked, socket,
                              direction, driver, worker
<1>1. TypeOK'
  BY DEF TypeOK, TaskPCs, Parked, Deadlines, Never
<1>2. LockProbed' /\ DriverEmpty'
  BY DEF LockProbed, DriverEmpty, TypeOK, Parked
<1>3. Registered' /\ ProbeNotMissed'
  BY DEF Registered, ProbeNotMissed, Servable, Closing, LockProbed, DriverEmpty, TypeOK
<1>4. NoSleepOnReadiness'
  BY DEF NoSleepOnReadiness, Asleep, Registered, ProbeNotMissed, Servable, Closing, DriverEmpty,
         TypeOK
<1>5. TimerKept' /\ PollTold'
  BY DEF TimerKept, PollTold, DriverEmpty, TypeOK, Deadlines, Never
<1>6. WorkInterrupts'
  BY DEF WorkInterrupts, Blocking, Runnable, DriverEmpty, TypeOK, Parked, Deadlines, Never
<1> QED BY <1>1, <1>2, <1>3, <1>4, <1>5, <1>6

(* A task goes to sleep only before its deadline. *)
LEMMA SleepCheckStep == ASSUME IInv, NEW t \in Tasks, SleepCheck(t) PROVE IInv'
<1> USE ReactorAssumption DEF IInv, SleepCheck, Runs, Goto, Parked, socket, direction, driver,
                              worker
<1>1. TypeOK'
  BY DEF TypeOK, TaskPCs, Parked, Deadlines, Never
<1>2. LockProbed' /\ DriverEmpty'
  BY DEF LockProbed, DriverEmpty, TypeOK, Parked
<1>3. Registered' /\ ProbeNotMissed'
  BY DEF Registered, ProbeNotMissed, Servable, Closing, LockProbed, DriverEmpty, TypeOK
<1>4. NoSleepOnReadiness'
  BY DEF NoSleepOnReadiness, Asleep, Registered, ProbeNotMissed, Servable, Closing, DriverEmpty,
         TypeOK
<1>5. TimerKept' /\ PollTold'
  BY DEF TimerKept, PollTold, DriverEmpty, TypeOK, Deadlines, Never
<1>6. WorkInterrupts'
  BY DEF WorkInterrupts, Blocking, Runnable, DriverEmpty, TypeOK, Parked, Deadlines, Never
<1> QED BY <1>1, <1>2, <1>3, <1>4, <1>5, <1>6

(* A worker takes a queue entry of the task. *)
LEMMA ResumeStep == ASSUME IInv, NEW t \in Tasks, Resume(t) PROVE IInv'
<1> USE ReactorAssumption DEF IInv, Resume, Parked, socket, direction, driver, worker
<1>1. TypeOK'
  BY DEF TypeOK, TaskPCs, Parked, Deadlines, Never
<1>2. LockProbed' /\ DriverEmpty'
  BY DEF LockProbed, DriverEmpty, TypeOK, Parked
<1>3. Registered' /\ ProbeNotMissed'
  BY DEF Registered, ProbeNotMissed, Servable, Closing, LockProbed, DriverEmpty, TypeOK
<1>4. NoSleepOnReadiness'
  BY DEF NoSleepOnReadiness, Asleep, Registered, ProbeNotMissed, Servable, Closing, DriverEmpty,
         TypeOK
<1>5. TimerKept' /\ PollTold'
  BY DEF TimerKept, PollTold, DriverEmpty, TypeOK, Deadlines, Never
<1>6. WorkInterrupts'
  BY DEF WorkInterrupts, Blocking, Runnable, DriverEmpty, TypeOK, Parked, Deadlines, Never
<1> QED BY <1>1, <1>2, <1>3, <1>4, <1>5, <1>6

-------------------------------------------------------------------------------
(* The steps of other threads *)

(* A wake from outside will interrupt the poll. *)
LEMMA WakeOtherStep == ASSUME IInv, NEW t \in Tasks, WakeOther(t) PROVE IInv'
<1> USE ReactorAssumption DEF IInv, WakeOther, socket, direction, driver, worker
<1>1. TypeOK'
  <2>1. owed' \in [Tasks -> BOOLEAN]
    BY DEF TypeOK
  <2>2. cancelled' \in [Tasks -> BOOLEAN]
    BY DEF TypeOK
  <2> QED BY <2>1, <2>2 DEF TypeOK
<1>2. LockProbed' /\ DriverEmpty'
  BY DEF LockProbed, DriverEmpty, TypeOK, Parked
<1>3. Registered' /\ ProbeNotMissed'
  BY DEF Registered, ProbeNotMissed, Servable, Closing, LockProbed, DriverEmpty, TypeOK
<1>4. NoSleepOnReadiness'
  BY DEF NoSleepOnReadiness, Asleep, Registered, ProbeNotMissed, Servable, Closing, DriverEmpty,
         TypeOK
<1>5. TimerKept' /\ PollTold'
  BY DEF TimerKept, PollTold, DriverEmpty, TypeOK, Deadlines, Never
<1>6. WorkInterrupts'
  BY DEF WorkInterrupts, Blocking, Runnable, DriverEmpty, TypeOK, Parked, Deadlines, Never
<1> QED BY <1>1, <1>2, <1>3, <1>4, <1>5, <1>6

(* It does if the worker is the only one. *)
LEMMA WakeOtherDoneStep == ASSUME IInv, WakeOtherDone PROVE IInv'
<1> USE ReactorAssumption DEF IInv, WakeOtherDone, WakeWorkerPoll, socket, direction, driver,
                              worker
<1>1. TypeOK'
  <2>1. waker' \in BOOLEAN /\ ext' \in BOOLEAN
    BY DEF TypeOK
  <2>2. /\ UNCHANGED <<sole, avail, shut, edge, ready, dirlock, waiters, timer, now>>
        /\ UNCHANGED <<dpc, timeout, got, toWake, pc, deadline, owed, cancelled, cur>>
    OBVIOUS
  <2> HIDE DEF WakeOtherDone
  <2> QED BY <2>1, <2>2 DEF TypeOK
<1>2. LockProbed' /\ DriverEmpty'
  BY DEF LockProbed, DriverEmpty, TypeOK, Parked
<1>3. Registered' /\ ProbeNotMissed'
  BY DEF Registered, ProbeNotMissed, Servable, Closing, LockProbed, DriverEmpty, TypeOK
<1>4. NoSleepOnReadiness'
  BY DEF NoSleepOnReadiness, Asleep, Registered, ProbeNotMissed, Servable, Closing, DriverEmpty,
         TypeOK
<1>5. TimerKept' /\ PollTold'
  BY DEF TimerKept, PollTold, DriverEmpty, TypeOK, Deadlines, Never
<1>6. WorkInterrupts'
  BY DEF WorkInterrupts, Blocking, Runnable, DriverEmpty, TypeOK, Parked, Deadlines, Never
<1> QED BY <1>1, <1>2, <1>3, <1>4, <1>5, <1>6

(* An arrival leaves an edge. *)
LEMMA ArriveStep == ASSUME IInv, Arrive PROVE IInv'
<1> USE ReactorAssumption DEF IInv, Arrive, socket, direction, driver, worker
<1>1. TypeOK'
  BY DEF TypeOK, TaskPCs, Parked, Deadlines, Never
<1>2. LockProbed' /\ DriverEmpty'
  BY DEF LockProbed, DriverEmpty, TypeOK, Parked
<1>3. Registered' /\ ProbeNotMissed'
  BY DEF Registered, ProbeNotMissed, Servable, Closing, LockProbed, DriverEmpty, TypeOK
<1>4. NoSleepOnReadiness'
  BY DEF NoSleepOnReadiness, Asleep, Registered, ProbeNotMissed, Servable, Closing, DriverEmpty,
         TypeOK
<1>5. TimerKept' /\ PollTold'
  BY DEF TimerKept, PollTold, DriverEmpty, TypeOK, Deadlines, Never
<1>6. WorkInterrupts'
  BY DEF WorkInterrupts, Blocking, Runnable, DriverEmpty, TypeOK, Parked, Deadlines, Never
<1> QED BY <1>1, <1>2, <1>3, <1>4, <1>5, <1>6

(* Time passes. *)
LEMMA TickStep == ASSUME IInv, Tick PROVE IInv'
<1> USE ReactorAssumption DEF IInv, Tick, socket, direction, driver, worker
<1>1. TypeOK'
  BY DEF TypeOK, TaskPCs, Parked, Deadlines, Never
<1>2. LockProbed' /\ DriverEmpty'
  BY DEF LockProbed, DriverEmpty, TypeOK, Parked
<1>3. Registered' /\ ProbeNotMissed'
  BY DEF Registered, ProbeNotMissed, Servable, Closing, LockProbed, DriverEmpty, TypeOK
<1>4. NoSleepOnReadiness'
  BY DEF NoSleepOnReadiness, Asleep, Registered, ProbeNotMissed, Servable, Closing, DriverEmpty,
         TypeOK
<1>5. TimerKept' /\ PollTold'
  BY DEF TimerKept, PollTold, DriverEmpty, TypeOK, Deadlines, Never
<1>6. WorkInterrupts'
  BY DEF WorkInterrupts, Blocking, Runnable, DriverEmpty, TypeOK, Parked, Deadlines, Never
<1> QED BY <1>1, <1>2, <1>3, <1>4, <1>5, <1>6

-------------------------------------------------------------------------------
(* The steps of the driver *)

(* A sole worker with nothing to run polls. *)
LEMMA WorkerPollsStep == ASSUME IInv, WorkerPolls PROVE IInv'
<1> USE ReactorAssumption DEF IInv, WorkerPolls, socket, direction, driver, worker
<1>1. TypeOK'
  BY DEF TypeOK, TaskPCs, Parked, Deadlines, Never
<1>2. LockProbed' /\ DriverEmpty'
  BY DEF LockProbed, DriverEmpty, TypeOK, Parked
<1>3. Registered' /\ ProbeNotMissed'
  BY DEF Registered, ProbeNotMissed, Servable, Closing, LockProbed, DriverEmpty, TypeOK
<1>4. NoSleepOnReadiness'
  BY DEF NoSleepOnReadiness, Asleep, Registered, ProbeNotMissed, Servable, Closing, DriverEmpty,
         TypeOK
<1>5. TimerKept' /\ PollTold'
  BY DEF TimerKept, PollTold, DriverEmpty, TypeOK, Deadlines, Never
<1>6. WorkInterrupts'
  BY DEF WorkInterrupts, Blocking, Runnable, DriverEmpty, TypeOK, Parked, Deadlines, Never
<1> QED BY <1>1, <1>2, <1>3, <1>4, <1>5, <1>6

(* The poll lasts no longer than the earliest timer. *)
LEMMA PollBeginStep == ASSUME IInv, PollBegin PROVE IInv'
<1> USE ReactorAssumption DEF IInv, PollBegin, socket, direction, driver, worker
<1>1. TypeOK'
  BY EarliestTimer, DeadlineEnds DEF TypeOK
<1>2. LockProbed' /\ DriverEmpty'
  BY DEF LockProbed, DriverEmpty, TypeOK, Parked
<1>3. Registered' /\ ProbeNotMissed'
  BY DEF Registered, ProbeNotMissed, Servable, Closing, LockProbed, DriverEmpty, TypeOK
<1>4. NoSleepOnReadiness'
  BY DEF NoSleepOnReadiness, Asleep, Registered, ProbeNotMissed, Servable, Closing, DriverEmpty,
         TypeOK
<1>5. TimerKept' /\ PollTold'
  BY EarliestTimer DEF TimerKept, PollTold, DriverEmpty, TypeOK, Deadlines, Never
<1>6. WorkInterrupts'
  BY DEF WorkInterrupts, Blocking, Runnable, DriverEmpty, TypeOK, Parked, Deadlines, Never
<1> QED BY <1>1, <1>2, <1>3, <1>4, <1>5, <1>6

(* The poll reports the edge. *)
LEMMA PollReturnStep == ASSUME IInv, PollReturn PROVE IInv'
<1> USE ReactorAssumption DEF IInv, PollReturn, socket, direction, driver, worker
<1>1. TypeOK'
  BY DeadlineEnds DEF TypeOK
<1>2. LockProbed' /\ DriverEmpty'
  BY DEF LockProbed, DriverEmpty, TypeOK, Parked
<1>3. Registered' /\ ProbeNotMissed'
  BY DEF Registered, ProbeNotMissed, Servable, Closing, LockProbed, DriverEmpty, TypeOK
<1>4. NoSleepOnReadiness'
  BY DEF NoSleepOnReadiness, Asleep, Registered, ProbeNotMissed, Servable, Closing, DriverEmpty,
         TypeOK
<1>5. TimerKept' /\ PollTold'
  BY DEF TimerKept, PollTold, DriverEmpty, TypeOK, Deadlines, Never
<1>6. WorkInterrupts'
  BY DEF WorkInterrupts, Blocking, Runnable, DriverEmpty, TypeOK, Parked, Deadlines, Never
<1> QED BY <1>1, <1>2, <1>3, <1>4, <1>5, <1>6

(* Timers that are due go off. *)
LEMMA FireTimersStep == ASSUME IInv, FireTimers PROVE IInv'
<1> USE ReactorAssumption DEF IInv, FireTimers, Due, socket, direction, driver, worker
<1>1. TypeOK'
  BY DEF TypeOK, TaskPCs, Parked, Deadlines, Never
<1>2. LockProbed' /\ DriverEmpty'
  BY DEF LockProbed, DriverEmpty, TypeOK, Parked
<1>3. Registered' /\ ProbeNotMissed'
  BY DEF Registered, ProbeNotMissed, Servable, Closing, LockProbed, DriverEmpty, TypeOK
<1>4. NoSleepOnReadiness'
  BY DEF NoSleepOnReadiness, Asleep, Registered, ProbeNotMissed, Servable, Closing, DriverEmpty,
         TypeOK
<1>5. TimerKept' /\ PollTold'
  BY DEF TimerKept, PollTold, DriverEmpty, TypeOK, Deadlines, Never
<1>6. WorkInterrupts'
  BY DEF WorkInterrupts, Blocking, Runnable, DriverEmpty, TypeOK, Parked, Deadlines, Never
<1> QED BY <1>1, <1>2, <1>3, <1>4, <1>5, <1>6

(* A task taken is woken. *)
LEMMA UnparkStep == ASSUME IInv, NEW t \in Tasks, Unpark(t) PROVE IInv'
<1> USE ReactorAssumption DEF IInv, Unpark, socket, direction, driver, worker
<1>1. TypeOK'
  BY DEF TypeOK, TaskPCs, Parked, Deadlines, Never
<1>2. LockProbed' /\ DriverEmpty'
  BY DEF LockProbed, DriverEmpty, TypeOK, Parked
<1>3. Registered' /\ ProbeNotMissed'
  BY DEF Registered, ProbeNotMissed, Servable, Closing, LockProbed, DriverEmpty, TypeOK
<1>4. NoSleepOnReadiness'
  BY DEF NoSleepOnReadiness, Asleep, Registered, ProbeNotMissed, Servable, Closing, DriverEmpty,
         TypeOK
<1>5. TimerKept' /\ PollTold'
  BY DEF TimerKept, PollTold, DriverEmpty, TypeOK, Deadlines, Never
<1>6. WorkInterrupts'
  BY DEF WorkInterrupts, Blocking, Runnable, DriverEmpty, TypeOK, Parked, Deadlines, Never
<1> QED BY <1>1, <1>2, <1>3, <1>4, <1>5, <1>6

(* The event reaches every task that is registered. *)
LEMMA DispatchEventStep == ASSUME IInv, DispatchEvent PROVE IInv'
<1> USE ReactorAssumption DEF IInv, DispatchEvent, Deliver, MayDeliver, socket, direction,
                              driver, worker
<1>1. TypeOK'
  BY DEF TypeOK, TaskPCs, Parked, Deadlines, Never
<1>2. LockProbed' /\ DriverEmpty'
  BY DEF LockProbed, DriverEmpty, TypeOK, Parked
<1>3. Registered' /\ ProbeNotMissed'
  BY DEF Registered, ProbeNotMissed, Servable, Closing, LockProbed, DriverEmpty, TypeOK
<1>4. NoSleepOnReadiness'
  BY DEF NoSleepOnReadiness, Asleep, Registered, ProbeNotMissed, Servable, Closing, DriverEmpty,
         TypeOK
<1>5. TimerKept' /\ PollTold'
  BY DEF TimerKept, PollTold, DriverEmpty, TypeOK, Deadlines, Never
<1>6. WorkInterrupts'
  BY DEF WorkInterrupts, Blocking, Runnable, DriverEmpty, TypeOK, Parked, Deadlines, Never
<1> QED BY <1>1, <1>2, <1>3, <1>4, <1>5, <1>6

(* The driver has nothing left to deliver. *)
LEMMA DriverLoopsStep == ASSUME IInv, DriverLoops PROVE IInv'
<1> USE ReactorAssumption DEF IInv, DriverLoops, socket, direction, driver, worker
<1>1. TypeOK'
  BY DEF TypeOK, TaskPCs, Parked, Deadlines, Never
<1>2. LockProbed' /\ DriverEmpty'
  BY DEF LockProbed, DriverEmpty, TypeOK, Parked
<1>3. Registered' /\ ProbeNotMissed'
  BY DEF Registered, ProbeNotMissed, Servable, Closing, LockProbed, DriverEmpty, TypeOK
<1>4. NoSleepOnReadiness'
  BY DEF NoSleepOnReadiness, Asleep, Registered, ProbeNotMissed, Servable, Closing, DriverEmpty,
         TypeOK
<1>5. TimerKept' /\ PollTold'
  BY DEF TimerKept, PollTold, DriverEmpty, TypeOK, Deadlines, Never
<1>6. WorkInterrupts'
  BY DEF WorkInterrupts, Blocking, Runnable, DriverEmpty, TypeOK, Parked, Deadlines, Never
<1> QED BY <1>1, <1>2, <1>3, <1>4, <1>5, <1>6

-------------------------------------------------------------------------------
(* Every step preserves the invariant. *)
LEMMA IInvStep == IInv /\ [Next]_vars => IInv'
<1> SUFFICES ASSUME IInv, [Next]_vars PROVE IInv'
  OBVIOUS
<1>1. CASE UNCHANGED vars
  BY <1>1 DEF vars, socket, direction, driver, worker, IInv, TypeOK, LockProbed, DriverEmpty,
              Registered, ProbeNotMissed, Servable, Closing, NoSleepOnReadiness, Asleep, TimerKept,
              PollTold, WorkInterrupts, Blocking, Runnable
<1>2. ASSUME NEW t \in Tasks, TaskStep(t) PROVE IInv'
  BY <1>2, RestStep, ProbeStep, WaitLockedStep, UnregisterStep, ShutdownStep, CloseDirectionStep,
     StartSleepStep, InterruptPollStep, SleepCheckStep DEF TaskStep
<1>3. CASE DriverStep
  BY <1>3, WorkerPollsStep, PollBeginStep, PollReturnStep, FireTimersStep, DispatchEventStep,
     DriverLoopsStep DEF DriverStep
<1> QED
  BY <1>1, <1>2, <1>3, ResumeStep, WakeOtherStep, UnparkStep, WakeOtherDoneStep, ArriveStep,
     TickStep DEF Next

(* Spec keeps the inductive invariant. *)
LEMMA Invariance == Spec => []IInv
BY IInvInit, IInvStep, PTL DEF Spec

(* No operation sleeps on a socket that can serve it without its wake being on *)
(* the way (reactor.rs try_io, wait_locked, wake_direction, dispatch_events).  *)
THEOREM ReadinessDelivered == Spec => []NoSleepOnReadiness
<1>1. IInv => NoSleepOnReadiness
  BY DEF IInv
<1> QED BY <1>1, Invariance, PTL

(* A poll never sleeps past a deadline and no sleeping task has lost its timer *)
(* (reactor.rs sleep_until, next_timeout, fire_expired_timers).                *)
THEOREM TimersBoundPoll == Spec => []PollBoundedByTimers
<1>1. IInv => PollBoundedByTimers
  BY DEF IInv, PollTold, TimerKept, PollBoundedByTimers, Asleep
<1> QED BY <1>1, Invariance, PTL

(* A sole worker does not sleep in the poll while a task is runnable           *)
(* (reactor.rs wake_worker_poll, scheduler.rs worker_loop and schedule).       *)
THEOREM WorkInterruptsPoll == Spec => []QueuedWorkInterrupts
<1>1. IInv => QueuedWorkInterrupts
  BY DEF IInv, WorkInterrupts, Blocking, Runnable, QueuedWorkInterrupts
<1> QED BY <1>1, Invariance, PTL
===============================================================================
