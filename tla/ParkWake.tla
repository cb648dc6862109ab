------------------------------- MODULE ParkWake -------------------------------
(***************************************************************************)
(* What the green-thread scheduler promises to everything built on it      *)
(* (channels, task handles, nurseries, the reactor, the blocking pool):    *)
(* a task that was woken is resumed after the wake, whether the wake came  *)
(* before or after it parked, and no task is resumed twice at once.        *)
(*                                                                         *)
(* `owed[t]` says that a wake of t has been issued and no resume that      *)
(* began after it has happened yet.  Several wakes may be answered by one  *)
(* resume or by one each, so a resume may leave owed[t] set: the users of  *)
(* the scheduler must tolerate spurious resumes.                           *)
(***************************************************************************)
CONSTANT Tasks

VARIABLES phase,  \* where the task's coroutine is
          owed    \* a wake is outstanding

vars == <<phase, owed>>

Phases == {"absent", "parked", "running", "done"}

Init ==
  /\ phase = [t \in Tasks |-> "absent"]
  /\ owed = [t \in Tasks |-> FALSE]

Make(t) ==      \* the task is built; it has not run yet
  /\ phase[t] = "absent"
  /\ phase' = [phase EXCEPT ![t] = "parked"]
  /\ UNCHANGED owed

Wake(t) ==
  /\ phase[t] # "absent"
  /\ owed' = [owed EXCEPT ![t] = TRUE]
  /\ UNCHANGED phase

Resume(t) ==
  /\ phase[t] = "parked"
  /\ owed[t]
  /\ phase' = [phase EXCEPT ![t] = "running"]
  /\ \E more \in BOOLEAN : owed' = [owed EXCEPT ![t] = more]

Park(t) ==      \* parking forgets no wake
  /\ phase[t] = "running"
  /\ phase' = [phase EXCEPT ![t] = "parked"]
  /\ UNCHANGED owed

Return(t) ==
  /\ phase[t] = "running"
  /\ phase' = [phase EXCEPT ![t] = "done"]
  /\ UNCHANGED owed

Discard(t) ==   \* a wake of a finished task is a no-op
  /\ phase[t] = "done"
  /\ owed[t]
  /\ \E more \in BOOLEAN : owed' = [owed EXCEPT ![t] = more]
  /\ UNCHANGED phase

Next ==
  \E t \in Tasks : \/ Make(t) \/ Wake(t) \/ Resume(t)
                   \/ Park(t) \/ Return(t) \/ Discard(t)

Spec == Init /\ [][Next]_vars

Fairness == \A t \in Tasks : WF_vars(Resume(t))

FairSpec == Spec /\ Fairness

===============================================================================
