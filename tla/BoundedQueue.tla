----------------------------- MODULE BoundedQueue -----------------------------
(***************************************************************************)
(* What a channel promises a Fai program: a bounded FIFO queue with close  *)
(* whose operations take effect at one instant, in which nobody who could  *)
(* proceed waits for ever and cancellation ends a blocked operation.       *)
(* Nothing is said about who waits where or how anybody is woken.          *)
(***************************************************************************)
EXTENDS Naturals, Sequences

CONSTANTS Tasks, Senders, Receivers, Closers, Cancellable, Capacity

VARIABLES
  buf,        \* the values in the queue, oldest first
  closed,
  op,         \* the operation each task is blocked in, "none" outside one
  cancelled,  \* sticky
  masked      \* the task is in a cleanup section: its cancellation does not show

vars == <<buf, closed, op, cancelled, masked>>

Init ==
  /\ buf = <<>> /\ closed = FALSE
  /\ op = [t \in Tasks |-> "none"]
  /\ cancelled = [t \in Tasks |-> FALSE]
  /\ masked = [t \in Tasks |-> FALSE]

Cancelled(t) == cancelled[t] /\ ~masked[t]

Begin(t, kind) ==
  /\ op[t] = "none"
  /\ op' = [op EXCEPT ![t] = kind]
  /\ UNCHANGED <<buf, closed, cancelled, masked>>

End(t) == op' = [op EXCEPT ![t] = "none"] /\ UNCHANGED <<closed, cancelled, masked>>

Put(t) ==
  /\ op[t] = "send" /\ ~Cancelled(t) /\ ~closed /\ Len(buf) < Capacity
  /\ buf' = Append(buf, t)
  /\ End(t)

Get(t) ==
  /\ op[t] = "recv" /\ ~Cancelled(t) /\ buf # <<>>
  /\ buf' = Tail(buf)
  /\ End(t)

(* A send to a closed queue is discarded; a receive returns None once it is drained. *)
Refuse(t) ==
  /\ closed /\ ~Cancelled(t)
  /\ op[t] = "send" \/ (op[t] = "recv" /\ buf = <<>>)
  /\ End(t) /\ UNCHANGED buf

Abandon(t) ==
  /\ op[t] # "none" /\ Cancelled(t)
  /\ End(t) /\ UNCHANGED buf

Close ==
  /\ closed' = TRUE
  /\ UNCHANGED <<buf, op, cancelled, masked>>

Cancel(t) ==
  /\ cancelled' = [cancelled EXCEPT ![t] = TRUE]
  /\ UNCHANGED <<buf, closed, op, masked>>

Mask(t) ==
  /\ op[t] = "none"
  /\ masked' = [masked EXCEPT ![t] = ~masked[t]]
  /\ UNCHANGED <<buf, closed, op, cancelled>>

Next ==
  \/ \E t \in Tasks : Put(t) \/ Get(t) \/ Refuse(t) \/ Abandon(t)
  \/ \E t \in Senders : Begin(t, "send")
  \/ \E t \in Receivers : Begin(t, "recv")
  \/ Closers # {} /\ Close
  \/ \E t \in Cancellable : Cancel(t) \/ Mask(t)

Spec == Init /\ [][Next]_vars

(* While there is room some blocked sender gets in, while there is a value some *)
(* blocked receiver gets one; nobody stays blocked on a closed, drained queue   *)
(* or while cancelled.                                                          *)
Fairness ==
  /\ WF_vars(\E t \in Tasks : Put(t))
  /\ WF_vars(\E t \in Tasks : Get(t))
  /\ \A t \in Tasks : WF_vars(Refuse(t)) /\ WF_vars(Abandon(t))

FairSpec == Spec /\ Fairness

===============================================================================
