-------------------------------- MODULE Channel -------------------------------
(***************************************************************************)
(* The bounded channel of crates/fai-runtime/src/scheduler.rs (chan_send,  *)
(* chan_recv, chan_close, park_channel, take_channel_waiter), with task    *)
(* cancellation (cancel_task, is_cancelled) and the cleanup mask           *)
(* (fai_cleanup), one critical section of the channel lock per step.  The  *)
(* notifications the code issues after it releases the lock are steps of   *)
(* their own, so a notified task may be overtaken, cancelled or resumed    *)
(* for another reason first.                                               *)
(*                                                                         *)
(* Tasks are resumed according to ParkWake: `owed[t]` is an outstanding    *)
(* wake.  A payload is named after the task that sends it.  A task's       *)
(* registration (ChannelWaiter) is named after the task: a task has at     *)
(* most one in the queues of a channel, because it takes back the one it   *)
(* has before it registers again.                                          *)
(***************************************************************************)
EXTENDS Naturals, Sequences, FiniteSets

CONSTANTS
  Senders,      \* tasks that send
  Receivers,    \* tasks that receive; a task may do both
  Closers,      \* tasks that may close the channel
  Cancellable,  \* tasks somebody holds a handle of and may cancel
  Capacity,     \* Chan.capacity
  NoTask

Tasks == Senders \cup Receivers \cup Closers

ASSUME CapacityAssumption == Capacity \in Nat \ {0}
ASSUME TasksAssumption == IsFiniteSet(Tasks) /\ NoTask \notin Tasks /\ Cancellable \subseteq Tasks

VARIABLES
  buf,        \* ChanState.buf
  closed,     \* ChanState.closed
  recvQ,      \* ChanState.recv_waiters
  sendQ,      \* ChanState.send_waiters
  active,     \* ChannelWaiter.active of the task's registration
  pc,         \* where the task is
  op,         \* the channel operation it is in: "none", "send", "recv"
  next,       \* the task it took from a wait queue and has still to schedule
  closing,    \* the waiters chan_close took and has still to visit
  owed,       \* a wake of the task is outstanding (ParkWake)
  cancelled,  \* Task.cancelled, sticky
  masked,     \* Task.cleanup_depth # 0
  canceller   \* how far the cancel_task call for the task is

chanVars == <<buf, closed, recvQ, sendQ>>
taskVars == <<pc, op, next, closing>>
vars == <<buf, closed, recvQ, sendQ, active, pc, op, next, closing, owed,
          cancelled, masked, canceller>>

PCs == {"idle",     \* outside the channel
        "top",      \* in the retry loop, about to take the channel lock
        "parked",   \* registered and suspended
        "unreg",    \* woken while still registered, about to remove the registration
        "notify",   \* finished, about to schedule the waiter it took
        "closing"}  \* visiting the waiters taken by chan_close

Init ==
  /\ buf = <<>> /\ closed = FALSE /\ recvQ = <<>> /\ sendQ = <<>>
  /\ active = [t \in Tasks |-> FALSE]
  /\ pc = [t \in Tasks |-> "idle"]
  /\ op = [t \in Tasks |-> "none"]
  /\ next = [t \in Tasks |-> NoTask]
  /\ closing = [t \in Tasks |-> <<>>]
  /\ owed = [t \in Tasks |-> FALSE]
  /\ cancelled = [t \in Tasks |-> FALSE]
  /\ masked = [t \in Tasks |-> FALSE]
  /\ canceller = [t \in Tasks |-> "none"]

IsCancelled(t) == cancelled[t] /\ ~masked[t]

Goto(t, where) == pc' = [pc EXCEPT ![t] = where]

Schedule(t) == owed' = [owed EXCEPT ![t] = TRUE]

-------------------------------------------------------------------------------
(* take_channel_waiter pops registrations from the back until it meets one   *)
(* that is still active and whose task is not cancelled; every registration  *)
(* it pops is deactivated.                                                   *)

Takeable(t) == active[t] /\ ~IsCancelled(t)

Entries(q) == {q[i] : i \in DOMAIN q}

(* The position of the registration it returns, 0 when it empties the queue. *)
TakePos(q) ==
  IF \E i \in 1..Len(q) : Takeable(q[i])
  THEN CHOOSE i \in 1..Len(q) : Takeable(q[i]) /\ \A j \in (i + 1)..Len(q) : ~Takeable(q[j])
  ELSE 0

TakenFrom(q) == IF TakePos(q) = 0 THEN NoTask ELSE q[TakePos(q)]
RestOf(q) == SubSeq(q, 1, TakePos(q) - 1)
PoppedAll(q) == Entries(q)                   \* slip: wake one, deactivate all
Popped(q) == {q[i] : i \in {j \in 1..Len(q) : j >= TakePos(q)}}

Deactivate(ts) == active' = [t \in Tasks |-> active[t] /\ t \notin ts]

(* The operation is over; a waiter it took is scheduled after the unlock. *)
Finish(t, taken) ==
  /\ op' = [op EXCEPT ![t] = "none"]
  /\ next' = [next EXCEPT ![t] = taken]
  /\ Goto(t, IF taken = NoTask THEN "idle" ELSE "notify")
  /\ UNCHANGED closing

FinishTakingReceiver(t) ==
  /\ Finish(t, TakenFrom(recvQ))
  /\ recvQ' = RestOf(recvQ)
  /\ Deactivate(Popped(recvQ))
  /\ UNCHANGED sendQ

FinishTakingSender(t) ==
  /\ Finish(t, TakenFrom(sendQ))
  /\ sendQ' = RestOf(sendQ)
  /\ Deactivate(Popped(sendQ))
  /\ UNCHANGED recvQ

FinishAlone(t) ==
  /\ Finish(t, NoTask)
  /\ UNCHANGED <<recvQ, sendQ, active>>

-------------------------------------------------------------------------------
(* chan_send *)

HasRoom == Len(buf) < Capacity

(* A departing sender hands on a slot that is free, ... *)
SlotToForwardNever == FALSE                  \* slip: the notification dies with it
SlotToForward == ~closed /\ Len(buf) < Capacity

(* ... a departing receiver a value that is ready. *)
ValueToForwardNever == FALSE                 \* slip: the notification dies with it
ValueToForward == buf # <<>>

Begin(t, kind) ==
  /\ pc[t] = "idle"
  /\ Goto(t, "top")
  /\ op' = [op EXCEPT ![t] = kind]
  /\ UNCHANGED <<buf, closed, recvQ, sendQ, active, next, closing, owed, cancelled, masked, canceller>>

AtTop(t, kind) == pc[t] = "top" /\ op[t] = kind

(* Cancelled: drop the payload, but hand a slot that is free to another sender. *)
SendCancelled(t) ==
  /\ AtTop(t, "send") /\ IsCancelled(t)
  /\ IF SlotToForward THEN FinishTakingSender(t) ELSE FinishAlone(t)
  /\ UNCHANGED <<buf, closed, owed, cancelled, masked, canceller>>

SendClosed(t) ==
  /\ AtTop(t, "send") /\ ~IsCancelled(t) /\ closed
  /\ FinishAlone(t)
  /\ UNCHANGED <<buf, closed, owed, cancelled, masked, canceller>>

SendPush(t) ==
  /\ AtTop(t, "send") /\ ~IsCancelled(t) /\ ~closed
  /\ HasRoom
  /\ buf' = Append(buf, t)
  /\ FinishTakingReceiver(t)
  /\ UNCHANGED <<closed, owed, cancelled, masked, canceller>>

(* park_channel: register under the lock, release it, suspend.  A wake between *)
(* the release and the suspension stays owed, so the two are one step.         *)
SendPark(t) ==
  /\ AtTop(t, "send") /\ ~IsCancelled(t) /\ ~closed
  /\ ~HasRoom
  /\ sendQ' = Append(sendQ, t)
  /\ active' = [active EXCEPT ![t] = TRUE]
  /\ Goto(t, "parked")
  /\ UNCHANGED <<buf, closed, recvQ, op, next, closing, owed, cancelled, masked, canceller>>

-------------------------------------------------------------------------------
(* chan_recv *)

(* Cancelled: hand a value that is ready to another receiver. *)
RecvCancelled(t) ==
  /\ AtTop(t, "recv") /\ IsCancelled(t)
  /\ IF ValueToForward THEN FinishTakingReceiver(t) ELSE FinishAlone(t)
  /\ UNCHANGED <<buf, closed, owed, cancelled, masked, canceller>>

RecvPop(t) ==
  /\ AtTop(t, "recv") /\ ~IsCancelled(t)
  /\ buf # <<>>
  /\ buf' = Tail(buf)
  /\ FinishTakingSender(t)
  /\ UNCHANGED <<closed, owed, cancelled, masked, canceller>>

RecvClosed(t) ==
  /\ AtTop(t, "recv") /\ ~IsCancelled(t)
  /\ buf = <<>> /\ closed
  /\ FinishAlone(t)
  /\ UNCHANGED <<buf, closed, owed, cancelled, masked, canceller>>

RecvPark(t) ==
  /\ AtTop(t, "recv") /\ ~IsCancelled(t)
  /\ buf = <<>> /\ ~closed
  /\ recvQ' = Append(recvQ, t)
  /\ active' = [active EXCEPT ![t] = TRUE]
  /\ Goto(t, "parked")
  /\ UNCHANGED <<buf, closed, sendQ, op, next, closing, owed, cancelled, masked, canceller>>

-------------------------------------------------------------------------------
(* Waking up in park_channel, and scheduling a taken waiter. *)

(* The scheduler resumes the task; it deactivates its registration and, if it *)
(* was the one to do so, goes on to remove it from the queue.                  *)
Resume(t) ==
  /\ pc[t] = "parked" /\ owed[t]
  /\ \E more \in BOOLEAN : owed' = [owed EXCEPT ![t] = more]
  /\ Goto(t, IF active[t] THEN "unreg" ELSE "top")
  /\ active' = [active EXCEPT ![t] = FALSE]
  /\ UNCHANGED <<buf, closed, recvQ, sendQ, op, next, closing, cancelled, masked, canceller>>

(* The queue without the task's registration, of which there is at most one. *)
Without(q, t) ==
  IF t \in Entries(q)
  THEN LET i == CHOOSE j \in 1..Len(q) : q[j] = t
       IN  SubSeq(q, 1, i - 1) \o SubSeq(q, i + 1, Len(q))
  ELSE q

Unregister(t) ==
  /\ pc[t] = "unreg"
  /\ recvQ' = IF op[t] = "recv" THEN Without(recvQ, t) ELSE recvQ
  /\ sendQ' = IF op[t] = "send" THEN Without(sendQ, t) ELSE sendQ
  /\ Goto(t, "top")
  /\ UNCHANGED <<buf, closed, active, op, next, closing, owed, cancelled, masked, canceller>>

NotifyTaken(t) ==
  /\ pc[t] = "notify"
  /\ Schedule(next[t])
  /\ next' = [next EXCEPT ![t] = NoTask]
  /\ Goto(t, "idle")
  /\ UNCHANGED <<buf, closed, recvQ, sendQ, active, op, closing, cancelled, masked, canceller>>

-------------------------------------------------------------------------------
(* chan_close: take both queues under the lock, then visit them without it. *)

WaitersReceivers == recvQ                    \* slip: close forgets the parked senders
Waiters == recvQ \o sendQ

Close(t) ==
  /\ pc[t] = "idle"
  /\ closed' = TRUE
  /\ closing' = [closing EXCEPT ![t] = Waiters]
  /\ recvQ' = <<>> /\ sendQ' = <<>>
  /\ Goto(t, "closing")
  /\ UNCHANGED <<buf, active, op, next, owed, cancelled, masked, canceller>>

CloseVisit(t) ==
  /\ pc[t] = "closing"
  /\ closing[t] # <<>>
  /\ LET u == Head(closing[t]) IN
       /\ active' = [active EXCEPT ![u] = FALSE]
       /\ IF active[u] THEN Schedule(u) ELSE UNCHANGED owed
  /\ closing' = [closing EXCEPT ![t] = Tail(closing[t])]
  /\ UNCHANGED <<buf, closed, recvQ, sendQ, pc, op, next, cancelled, masked, canceller>>

CloseDone(t) ==
  /\ pc[t] = "closing"
  /\ closing[t] = <<>>
  /\ Goto(t, "idle")
  /\ UNCHANGED <<buf, closed, recvQ, sendQ, active, op, next, closing, owed, cancelled, masked, canceller>>

-------------------------------------------------------------------------------
(* cancel_task: set the flag, stop there if the mask is up, else wake the task. *)

CancelFlag(t) ==
  /\ ~cancelled[t]
  /\ cancelled' = [cancelled EXCEPT ![t] = TRUE]
  /\ canceller' = [canceller EXCEPT ![t] = "flagged"]
  /\ UNCHANGED <<buf, closed, recvQ, sendQ, active, pc, op, next, closing, owed, masked>>

AfterFlagSilent(t) == "done"                 \* slip: the flag is set and nobody woken
AfterFlag(t) == IF masked[t] THEN "done" ELSE "waking"

CancelMask(t) ==
  /\ canceller[t] = "flagged"
  /\ canceller' = [canceller EXCEPT ![t] = AfterFlag(t)]
  /\ UNCHANGED <<buf, closed, recvQ, sendQ, active, pc, op, next, closing, owed, cancelled, masked>>

CancelWake(t) ==
  /\ canceller[t] = "waking"
  /\ Schedule(t)
  /\ canceller' = [canceller EXCEPT ![t] = "done"]
  /\ UNCHANGED <<buf, closed, recvQ, sendQ, active, pc, op, next, closing, cancelled, masked>>

(* cleanup: the task raises and lowers the mask between channel operations. *)
ToggleMask(t) ==
  /\ pc[t] = "idle"
  /\ masked' = [masked EXCEPT ![t] = ~masked[t]]
  /\ UNCHANGED <<buf, closed, recvQ, sendQ, active, pc, op, next, closing, owed, cancelled, canceller>>

-------------------------------------------------------------------------------
SendStep(t) == SendCancelled(t) \/ SendClosed(t) \/ SendPush(t) \/ SendPark(t)
RecvStep(t) == RecvCancelled(t) \/ RecvPop(t) \/ RecvClosed(t) \/ RecvPark(t)
TaskStep(t) ==
  SendStep(t) \/ RecvStep(t) \/ Unregister(t) \/ NotifyTaken(t) \/ CloseVisit(t) \/ CloseDone(t)
CancelStep(t) == CancelMask(t) \/ CancelWake(t)

Next ==
  \/ \E t \in Tasks : TaskStep(t) \/ Resume(t) \/ CancelStep(t)
  \/ \E t \in Senders : Begin(t, "send")
  \/ \E t \in Receivers : Begin(t, "recv")
  \/ \E t \in Closers : Close(t)
  \/ \E t \in Cancellable : CancelFlag(t) \/ ToggleMask(t)

Spec == Init /\ [][Next]_vars

(* The scheduler resumes a woken task (ParkWake) and runs it to its next      *)
(* suspension; a cancel_task call, once begun, runs to its end.  Starting an   *)
(* operation, closing and cancelling are the program's choice.                *)
Fairness ==
  \A t \in Tasks : WF_vars(TaskStep(t)) /\ WF_vars(Resume(t)) /\ WF_vars(CancelStep(t))

FairSpec == Spec /\ Fairness

-------------------------------------------------------------------------------
(* Properties *)

(* The types of the channel's state; a buffer never exceeds the capacity. *)
TypeOK ==
  /\ buf \in Seq(Tasks) /\ Len(buf) <= Capacity
  /\ closed \in BOOLEAN
  /\ recvQ \in Seq(Tasks) /\ sendQ \in Seq(Tasks)
  /\ active \in [Tasks -> BOOLEAN]
  /\ pc \in [Tasks -> PCs]
  /\ op \in [Tasks -> {"none", "send", "recv"}]
  /\ next \in [Tasks -> Tasks \cup {NoTask}]
  /\ closing \in [Tasks -> Seq(Tasks)]
  /\ owed \in [Tasks -> BOOLEAN]
  /\ cancelled \in [Tasks -> BOOLEAN]
  /\ masked \in [Tasks -> BOOLEAN]
  /\ canceller \in [Tasks -> {"none", "flagged", "waking", "done"}]

(* The tasks in an operation of a kind that are suspended with a live         *)
(* registration and no reason of their own to wake, and those that are awake  *)
(* or have been picked by a notifier and will look at the buffer again.       *)
InOp(t, kind) == op[t] = kind /\ pc[t] \in {"top", "parked", "unreg"}
Asleep(kind) == {t \in Tasks : op[t] = kind /\ pc[t] = "parked" /\ Takeable(t)}
Attentive(kind) == {t \in Tasks : InOp(t, kind) /\ ~(pc[t] = "parked" /\ active[t])}

(* No value is stranded: while a receiver sleeps, every buffered value has a   *)
(* receiver of its own that is up or notified.  Cancelling a notified          *)
(* receiver, or resuming one for another reason, must not lose the value's     *)
(* notification (take_channel_waiter, the forwarding in chan_recv).            *)
NoStrandedValue ==
  Asleep("recv") # {} /\ ~closed => Len(buf) <= Cardinality(Attentive("recv"))

(* No free slot is stranded: while a sender sleeps, every free slot of an open *)
(* channel has a sender of its own that is up or notified.                     *)
NoStrandedSlot ==
  Asleep("send") # {} /\ ~closed => Capacity - Len(buf) <= Cardinality(Attentive("send"))

(* A parked task whose registration somebody else deactivated is never left    *)
(* behind: a wake is owed, a notifier still holds it, or its canceller is on    *)
(* the way.                                                                    *)
HasWaker(t) ==
  \/ owed[t]
  \/ \E u \in Tasks : pc[u] = "notify" /\ next[u] = t
  \/ canceller[t] \in {"flagged", "waking"} /\ IsCancelled(t)
WakerExists == \A t \in Tasks : pc[t] = "parked" /\ ~active[t] => HasWaker(t)

(* After a close, a task still parked is in the list the closer has to visit.  *)
CloseReachesAll ==
  closed => \A t \in Tasks : pc[t] = "parked" /\ active[t] =>
              \E u \in Tasks : t \in Entries(closing[u])

(* The channel implements the bounded queue, fairness included: whatever the      *)
(* order of notifications, spurious resumes, cancellations and the close, room    *)
(* is used by a blocked sender, a value by a blocked receiver, and a closed or    *)
(* cancelled operation ends.                                                      *)
Queue == INSTANCE BoundedQueue
QueueSafe == Queue!Spec
QueueFair == Queue!FairSpec

===============================================================================
