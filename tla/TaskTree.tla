------------------------------- MODULE TaskTree -------------------------------
(***************************************************************************)
(* Structured concurrency in crates/fai-runtime/src/scheduler.rs: spawning *)
(* into a nursery, task handles and await, scope and join, and the         *)
(* cancellation tree (cancel_task, cancel_children, register_child, the    *)
(* cleanup mask).  Each step is one lock section or one atomic access, so  *)
(* a spawn, the end of a cleanup section and several cancellations may     *)
(* interleave.                                                             *)
(*                                                                         *)
(* Tasks park and resume according to ParkWake (`owed`).  A nursery is     *)
(* named after the task that opened it.  A blocking operation is left      *)
(* abstract: it ends when its object is ready or when the task observes    *)
(* its cancellation (Channel describes one in full).                       *)
(***************************************************************************)
EXTENDS Naturals, Sequences, FiniteSets

CONSTANTS
  Tasks,
  Root,          \* the task block_on spawned
  Host,          \* the thread in block_on_cancellable, which may cancel the root
  NoTask,
  Cancellers,    \* the actors that cancel: the host, tasks that hold handles
  Cleaners,      \* the tasks whose bodies have cleanup sections
  MaxDepth,      \* bound: nesting of cleanup sections
  OwnScopeOnly   \* TRUE: the program spawns only into the innermost scope it
                 \* opened; FALSE: also into a scope it runs in

ASSUME TreeAssumption ==
  /\ IsFiniteSet(Tasks) /\ Root \in Tasks /\ Host \notin Tasks /\ NoTask \notin Tasks
  /\ Cancellers \subseteq Tasks \cup {Host} /\ Cleaners \subseteq Tasks
  /\ MaxDepth \in Nat /\ OwnScopeOnly \in BOOLEAN

Actors == Tasks \cup {Host}

VARIABLES
  pc,         \* where the task's body is
  making,     \* the task it is in the middle of spawning
  awaited,    \* the task whose handle it awaits
  nursery,    \* the owner of the nursery the task was spawned into
  parent,     \* the task that spawned it
  scope,      \* the task has a scope open
  live,       \* NurseryState.live
  joiner,     \* NurseryState.joiner is set
  finished,   \* HandleState.done
  awaiters,   \* HandleState.awaiters
  toWake,     \* tasks taken from an awaiter list, still to be scheduled
  owed,       \* a wake of the task is outstanding (ParkWake)
  cancelled,  \* Task.cancelled
  depth,      \* Task.cleanup_depth
  children,   \* Task.children
  freed,      \* the last Arc of the task is gone: weak references are dead
  work        \* what is left of the cancel_task recursion of each actor

flow == <<pc, making, awaited>>
tree == <<nursery, parent, children, freed>>
join == <<scope, live, joiner>>
handles == <<finished, awaiters, toWake>>
vars == <<flow, tree, join, handles, owed, cancelled, depth, work>>

PCs == {"absent",
        "run",                                \* executing the body
        "register", "regcheck", "queue",      \* inside spawn_tracked
        "fresh", "block", "await", "join",    \* parked: never run, in an operation, ...
        "unmask",                             \* end of the outermost cleanup section
        "wakers", "leave",                    \* the on_done sequence
        "done"}                               \* the coroutine is dropped

Parked == {"fresh", "block", "await", "join"}

IsCancelled(t) == cancelled[t] /\ depth[t] = 0

Running(t) == pc[t] = "run" /\ work[t] = <<>>
Goto(t, where) == pc' = [pc EXCEPT ![t] = where]
Schedule(t) == owed' = [owed EXCEPT ![t] = TRUE]

Init ==
  /\ pc = [t \in Tasks |-> IF t = Root THEN "fresh" ELSE "absent"]
  /\ making = [t \in Tasks |-> NoTask]
  /\ awaited = [t \in Tasks |-> NoTask]
  /\ nursery = [t \in Tasks |-> NoTask]
  /\ parent = [t \in Tasks |-> NoTask]
  /\ scope = [t \in Tasks |-> FALSE]
  /\ live = [t \in Tasks |-> 0]
  /\ joiner = [t \in Tasks |-> FALSE]
  /\ finished = [t \in Tasks |-> FALSE]
  /\ awaiters = [t \in Tasks |-> {}]
  /\ toWake = [t \in Tasks |-> {}]
  /\ owed = [t \in Tasks |-> t = Root]
  /\ cancelled = [t \in Tasks |-> FALSE]
  /\ depth = [t \in Tasks |-> 0]
  /\ children = [t \in Tasks |-> <<>>]
  /\ freed = [t \in Tasks |-> FALSE]
  /\ work = [a \in Actors |-> <<>>]

-------------------------------------------------------------------------------
(* The cancel_task / cancel_children recursion, one atomic access at a time. *)

Do(what, t) == [do |-> what, task |-> t]
Todo(a) == Head(work[a])
Pending(a, what) == work[a] # <<>> /\ Todo(a).do = what
Continue(a, first) == work' = [work EXCEPT ![a] = first \o Tail(@)]

(* cancelled.swap(true): return if it was set already. *)
CancelSwap(a) ==
  /\ Pending(a, "visit")
  /\ LET t == Todo(a).task IN
       /\ cancelled' = [cancelled EXCEPT ![t] = TRUE]
       /\ Continue(a, IF cancelled[t] THEN <<>> ELSE <<Do("mask", t)>>)
  /\ UNCHANGED <<flow, tree, join, handles, owed, depth>>

PropagateOnly(t) == <<Do("kids", t)>>         \* slip: the task itself is not woken
Propagate(t) == <<Do("kids", t), Do("wake", t)>>

(* In a cleanup section the flag is all: the section's end does the rest. *)
CancelMask(a) ==
  /\ Pending(a, "mask")
  /\ LET t == Todo(a).task IN
       Continue(a, IF depth[t] # 0 THEN <<>> ELSE Propagate(t))
  /\ UNCHANGED <<flow, tree, join, handles, owed, cancelled, depth>>

(* The children that are still referenced, in the order of the list. *)
Snapshot(kids) ==
  LET held == {i \in DOMAIN kids : ~freed[kids[i]]}
      Rank(i) == Cardinality({j \in held : j <= i})
  IN  [n \in 1..Cardinality(held) |-> Do("visit", kids[CHOOSE i \in held : Rank(i) = n])]

(* cancel_children *)
CancelKids(a) ==
  /\ Pending(a, "kids")
  /\ Continue(a, Snapshot(children[Todo(a).task]))
  /\ UNCHANGED <<flow, tree, join, handles, owed, cancelled, depth>>

CancelWake(a) ==
  /\ Pending(a, "wake")
  /\ Schedule(Todo(a).task)
  /\ Continue(a, <<>>)
  /\ UNCHANGED <<flow, tree, join, handles, cancelled, depth>>

(* cancel_handle: by a task that holds the handle, or once by block_on's monitor for the root. *)
CancelHandle(a, t) ==
  /\ work[a] = <<>>
  /\ IF a = Host THEN t = Root /\ ~cancelled[Root] ELSE pc[a] = "run" /\ t # Root
  /\ pc[t] # "absent" /\ ~freed[t]
  /\ \A u \in Tasks : making[u] # t  \* spawn has not returned the handle yet
  /\ work' = [work EXCEPT ![a] = <<Do("visit", t)>>]
  /\ UNCHANGED <<flow, tree, join, handles, owed, cancelled, depth>>

-------------------------------------------------------------------------------
(* spawn_tracked, called by the running task t for a new task k in nursery n. *)

(* The nurseries around a task: the one it was spawned into, the one its owner     *)
(* was spawned into, and so on: the members of every set that contains the first   *)
(* and those its members were spawned into.                                        *)
Around(t) ==
  {n \in Tasks : \A S \in SUBSET (Tasks \cup {NoTask}) :
                   nursery[t] \in S /\ (\A x \in S \cap Tasks : nursery[x] \in S) => n \in S}

(* t may name its own open scope, or any scope it runs in. *)
MaySpawnInto(t, n) ==
  \/ n = t /\ scope[t]
  \/ ~OwnScopeOnly /\ n \in Around(t)

EnrolForgets(n) == live                       \* slip: the nursery never hears of the child
Enrol(n) == [live EXCEPT ![n] = @ + 1]

SpawnCount(t, k, n) ==
  /\ Running(t) /\ pc[k] = "absent" /\ MaySpawnInto(t, n)
  /\ live' = Enrol(n)
  /\ nursery' = [nursery EXCEPT ![k] = n]
  /\ parent' = [parent EXCEPT ![k] = t]
  /\ making' = [making EXCEPT ![t] = k]
  /\ pc' = [pc EXCEPT ![t] = "register", ![k] = "fresh"]
  /\ UNCHANGED <<awaited, children, freed, scope, joiner, handles, owed, cancelled, depth, work>>

(* register_child: into the parent's list first ... *)
SpawnRegister(t) ==
  /\ pc[t] = "register"
  /\ children' = [children EXCEPT ![t] = Append(@, making[t])]
  /\ Goto(t, "regcheck")
  /\ UNCHANGED <<making, awaited, nursery, parent, freed, join, handles, owed, cancelled, depth, work>>

BornCancelledNever(t) == FALSE                \* slip: a spawn during teardown escapes
BornCancelled(t) == IsCancelled(t)

(* ... and only then look whether the parent is cancelled already. *)
SpawnCheck(t) ==
  /\ pc[t] = "regcheck"
  /\ Goto(t, "queue")
  /\ work' = [work EXCEPT ![t] = IF BornCancelled(t) THEN <<Do("visit", making[t])>> ELSE <<>>]
  /\ UNCHANGED <<making, awaited, tree, join, handles, owed, cancelled, depth>>

SpawnQueue(t) ==
  /\ pc[t] = "queue" /\ work[t] = <<>>
  /\ Schedule(making[t])
  /\ making' = [making EXCEPT ![t] = NoTask]
  /\ Goto(t, "run")
  /\ UNCHANGED <<awaited, tree, join, handles, cancelled, depth, work>>

-------------------------------------------------------------------------------
(* scope / join, await, and a blocking operation. *)

OpenScope(t) ==
  /\ Running(t) /\ ~scope[t]
  /\ scope' = [scope EXCEPT ![t] = TRUE]
  /\ UNCHANGED <<flow, tree, live, joiner, handles, owed, cancelled, depth, work>>

(* One turn of Nursery::join's loop; cancellation does not end it. *)
JoinTurn(t) ==
  IF live[t] = 0
  THEN /\ scope' = [scope EXCEPT ![t] = FALSE]
       /\ joiner' = [joiner EXCEPT ![t] = FALSE]
       /\ Goto(t, "run")
  ELSE /\ joiner' = [joiner EXCEPT ![t] = TRUE]
       /\ Goto(t, "join")
       /\ UNCHANGED scope

Join(t) ==
  /\ Running(t) /\ scope[t]
  /\ JoinTurn(t)
  /\ UNCHANGED <<making, awaited, tree, live, handles, owed, cancelled, depth, work>>

StillRunningUnchecked(h) == h \in Tasks       \* slip: park on a handle already done
StillRunning(h) == ~finished[h]

(* Any task may have been given the handle of another once spawn has returned it; *)
(* the root's is block_on's.                                                      *)
HoldsHandle(t, h) ==
  h \notin {t, Root} /\ pc[h] # "absent" /\ \A u \in Tasks : making[u] # h

(* await_handle: register once, under the handle's lock, unless it is done. *)
Await(t, h) ==
  /\ Running(t) /\ HoldsHandle(t, h) /\ StillRunning(h)
  /\ awaiters' = [awaiters EXCEPT ![h] = @ \cup {t}]
  /\ awaited' = [awaited EXCEPT ![t] = h]
  /\ Goto(t, "await")
  /\ UNCHANGED <<making, tree, join, finished, toWake, owed, cancelled, depth, work>>

(* A blocking operation parks, unless the task is cancelled when it starts. *)
Block(t) ==
  /\ Running(t) /\ ~IsCancelled(t)
  /\ Goto(t, "block")
  /\ UNCHANGED <<making, awaited, tree, join, handles, owed, cancelled, depth, work>>

(* What the task blocks on becomes ready and wakes it. *)
Ready(t) ==
  /\ pc[t] = "block"
  /\ Schedule(t)
  /\ UNCHANGED <<flow, tree, join, handles, cancelled, depth, work>>

-------------------------------------------------------------------------------
(* The scheduler resumes a parked task, which takes a turn of its retry loop. *)

Answered(t) == \E more \in BOOLEAN : owed' = [owed EXCEPT ![t] = more]

ResumeFresh(t) ==
  /\ pc[t] = "fresh" /\ owed[t] /\ Answered(t)
  /\ Goto(t, "run")
  /\ UNCHANGED <<making, awaited, tree, join, handles, cancelled, depth, work>>

ResumeBlock(t) ==
  /\ pc[t] = "block" /\ owed[t] /\ Answered(t)
  /\ IF IsCancelled(t) THEN Goto(t, "run") ELSE \E where \in {"run", "block"} : Goto(t, where)
  /\ UNCHANGED <<making, awaited, tree, join, handles, cancelled, depth, work>>

ResumeAwait(t) ==
  /\ pc[t] = "await" /\ owed[t] /\ Answered(t)
  /\ IF finished[awaited[t]]
     THEN Goto(t, "run") /\ awaited' = [awaited EXCEPT ![t] = NoTask]
     ELSE UNCHANGED <<pc, awaited>>
  /\ UNCHANGED <<making, tree, join, handles, cancelled, depth, work>>

ResumeJoin(t) ==
  /\ pc[t] = "join" /\ owed[t] /\ Answered(t)
  /\ JoinTurn(t)
  /\ UNCHANGED <<making, awaited, tree, live, handles, cancelled, depth, work>>

Resume(t) == ResumeFresh(t) \/ ResumeBlock(t) \/ ResumeAwait(t) \/ ResumeJoin(t)

-------------------------------------------------------------------------------
(* fai_cleanup: the mask goes up around a body; its outermost end propagates *)
(* a cancellation that arrived meanwhile to the children.                    *)

EnterCleanup(t) ==
  /\ t \in Cleaners /\ Running(t) /\ depth[t] < MaxDepth
  /\ depth' = [depth EXCEPT ![t] = @ + 1]
  /\ UNCHANGED <<flow, tree, join, handles, owed, cancelled, work>>

LeaveCleanup(t) ==
  /\ Running(t) /\ depth[t] > 0
  /\ depth' = [depth EXCEPT ![t] = @ - 1]
  /\ IF depth[t] = 1 THEN Goto(t, "unmask") ELSE UNCHANGED pc
  /\ UNCHANGED <<making, awaited, tree, join, handles, owed, cancelled, work>>

LateCancel(t) == FALSE                        \* slip: a cancellation during cleanup is forgotten
MaskedCancel(t) == cancelled[t]

Unmask(t) ==
  /\ pc[t] = "unmask"
  /\ Goto(t, "run")
  /\ work' = [work EXCEPT ![t] = IF MaskedCancel(t) THEN <<Do("kids", t)>> ELSE <<>>]
  /\ UNCHANGED <<making, awaited, tree, join, handles, owed, cancelled, depth>>

-------------------------------------------------------------------------------
(* The body returns: complete the handle, wake its awaiters, tell the nursery, *)
(* drop the coroutine.                                                         *)

Complete(t) ==
  /\ Running(t) /\ ~scope[t] /\ depth[t] = 0
  /\ finished' = [finished EXCEPT ![t] = TRUE]
  /\ toWake' = [toWake EXCEPT ![t] = awaiters[t]]
  /\ awaiters' = [awaiters EXCEPT ![t] = {}]
  /\ Goto(t, "wakers")
  /\ UNCHANGED <<making, awaited, tree, join, owed, cancelled, depth, work>>

WakeAwaiter(t, u) ==
  /\ pc[t] = "wakers" /\ u \in toWake[t]
  /\ toWake' = [toWake EXCEPT ![t] = @ \ {u}]
  /\ Schedule(u)
  /\ UNCHANGED <<flow, tree, join, finished, awaiters, cancelled, depth, work>>

LastChildOffByOne(n) == live[n] = 0           \* slip: compares before it decrements
LastChild(n) == live[n] = 1

(* child_finished: the last child takes the joiner out and wakes it. *)
ChildFinished(t) ==
  /\ pc[t] = "wakers" /\ toWake[t] = {}
  /\ IF nursery[t] = NoTask
     THEN Goto(t, "done") /\ UNCHANGED <<live, joiner>>
     ELSE LET n == nursery[t] IN
          /\ live' = [live EXCEPT ![n] = @ - 1]
          /\ IF LastChild(n) /\ joiner[n]
             THEN joiner' = [joiner EXCEPT ![n] = FALSE] /\ Goto(t, "leave")
             ELSE Goto(t, "done") /\ UNCHANGED joiner
  /\ UNCHANGED <<making, awaited, tree, scope, handles, owed, cancelled, depth, work>>

WakeJoiner(t) ==
  /\ pc[t] = "leave"
  /\ Schedule(nursery[t])
  /\ Goto(t, "done")
  /\ UNCHANGED <<making, awaited, tree, join, handles, cancelled, depth, work>>

(* The last strong reference of a finished task goes away, if no cancellation holds one. *)
Held(t) == \E a \in Actors : \E i \in DOMAIN work[a] : work[a][i].task = t

Free(t) ==
  /\ pc[t] = "done" /\ ~freed[t] /\ ~Held(t)
  /\ freed' = [freed EXCEPT ![t] = TRUE]
  /\ owed' = [owed EXCEPT ![t] = FALSE]
  /\ UNCHANGED <<flow, nursery, parent, children, join, handles, cancelled, depth, work>>

-------------------------------------------------------------------------------
(* Every task has ended and the program exits. *)
Exit ==
  /\ \A t \in Tasks : pc[t] = "absent" \/ freed[t]
  /\ UNCHANGED vars

CancelStep(a) == CancelSwap(a) \/ CancelMask(a) \/ CancelKids(a) \/ CancelWake(a)
SpawnStep(t) == SpawnRegister(t) \/ SpawnCheck(t) \/ SpawnQueue(t)
EndStep(t) == (\E u \in Tasks : WakeAwaiter(t, u)) \/ ChildFinished(t) \/ WakeJoiner(t)
ForcedStep(t) == SpawnStep(t) \/ Unmask(t) \/ EndStep(t)

Next ==
  \/ \E a \in Actors : CancelStep(a)
  \/ \E a \in Cancellers, t \in Tasks : CancelHandle(a, t)
  \/ \E t \in Tasks :
       \/ ForcedStep(t) \/ Resume(t) \/ Ready(t) \/ Free(t)
       \/ OpenScope(t) \/ Join(t) \/ Block(t) \/ EnterCleanup(t) \/ LeaveCleanup(t) \/ Complete(t)
       \/ \E h \in Tasks : Await(t, h)
       \/ \E k \in Tasks, n \in Tasks : SpawnCount(t, k, n)
  \/ Exit

Spec == Init /\ [][Next]_vars

(* A thread runs its straight-line code to the end and the scheduler resumes a    *)
(* woken task.  A cancelled body unwinds: every blocking operation fails, so again *)
(* and again it gets to close its scope or return, and in the end it does.         *)
Fairness ==
  /\ \A a \in Actors : WF_vars(CancelStep(a))
  /\ \A t \in Tasks :
       /\ WF_vars(ForcedStep(t) \/ Resume(t))
       /\ SF_vars(cancelled[t] /\ Join(t))
       /\ SF_vars(cancelled[t] /\ Complete(t))

FairSpec == Spec /\ Fairness

-------------------------------------------------------------------------------
(* Properties *)

(* The types of the task tree's state. *)
TypeOK ==
  /\ pc \in [Tasks -> PCs]
  /\ making \in [Tasks -> Tasks \cup {NoTask}]
  /\ awaited \in [Tasks -> Tasks \cup {NoTask}]
  /\ nursery \in [Tasks -> Tasks \cup {NoTask}]
  /\ parent \in [Tasks -> Tasks \cup {NoTask}]
  /\ scope \in [Tasks -> BOOLEAN] /\ joiner \in [Tasks -> BOOLEAN]
  /\ live \in [Tasks -> Nat]
  /\ finished \in [Tasks -> BOOLEAN]
  /\ awaiters \in [Tasks -> SUBSET Tasks] /\ toWake \in [Tasks -> SUBSET Tasks]
  /\ owed \in [Tasks -> BOOLEAN]
  /\ cancelled \in [Tasks -> BOOLEAN]
  /\ depth \in [Tasks -> 0..MaxDepth]
  /\ children \in [Tasks -> Seq(Tasks)]
  /\ freed \in [Tasks -> BOOLEAN]
  /\ work \in [Actors -> Seq([do : {"visit", "mask", "kids", "wake"}, task : Tasks])]

Members(n) == {t \in Tasks : nursery[t] = n /\ pc[t] \notin {"absent", "leave", "done"}}

(* scope returns only when every task spawned into the nursery, by whomever, has *)
(* ended: live counts exactly the members that have not reported their end.      *)
ScopeCountsMembers ==
  \A n \in Tasks : live[n] = Cardinality(Members(n)) /\ (live[n] > 0 => scope[n])

(* No join is lost: a joiner that sleeps although its last child has ended is     *)
(* about to be woken, whatever cancellation wakes raced with child_finished.      *)
JoinNotLost ==
  \A t \in Tasks : pc[t] = "join" /\ live[t] = 0 =>
    owed[t] \/ \E u \in Tasks : pc[u] = "leave" /\ nursery[u] = t

(* No await is lost: a task asleep on a finished handle is about to be woken. *)
AwaitNotLost ==
  \A t \in Tasks : pc[t] = "await" /\ finished[awaited[t]] =>
    owed[t] \/ t \in toWake[awaited[t]]

(* Nobody is still cancelling, spawning or leaving a cleanup section. *)
Settled ==
  /\ \A a \in Actors : work[a] = <<>>
  /\ \A t \in Tasks : pc[t] \notin {"register", "regcheck", "unmask"}
Unmasked == \A t \in Tasks : depth[t] = 0

Ended(t) == pc[t] \in {"absent", "wakers", "leave", "done"}

(* A task spawned during teardown, or whose parent was in a cleanup section when   *)
(* the cancellation came, does not escape: once everything has settled, the live   *)
(* children of a cancelled task are cancelled.                                     *)
ChildrenFollow ==
  Settled => \A p, k \in Tasks :
    parent[k] = p /\ IsCancelled(p) /\ ~freed[p] /\ ~Ended(p) => cancelled[k] \/ Ended(k)

(* A cancelled task asleep in a blocking operation is woken or about to be. *)
CancelWakes ==
  Settled => \A t \in Tasks : pc[t] = "block" /\ IsCancelled(t) => owed[t]

(* What is reached from p along `kids`: the members of every set that contains p   *)
(* and the kids of its members.                                                    *)
Below(kids, p) ==
  {k \in Tasks : \A S \in SUBSET Tasks : p \in S /\ (\A x \in S : kids[x] \subseteq S) => k \in S}

(* "cancelling a task cancels its whole descendant subtree, so a timeout or a      *)
(* server shutdown tears down everything the cancelled work started"               *)
(* (Task.children in scheduler.rs): every live task that was started, directly or  *)
(* through others, by a cancelled task is cancelled once things have settled.      *)
Started == [p \in Tasks |-> {k \in Tasks : parent[k] = p}]
SubtreeFollows ==
  Settled /\ Unmasked => \A p \in Tasks : IsCancelled(p) /\ ~Ended(p) =>
    \A k \in Below(Started, p) : cancelled[k] \/ Ended(k)

(* The same along tasks spawned into their parent's own scope: there the chain of  *)
(* ancestors cannot end early, and a cancellation reaches every live descendant,   *)
(* also one that is being spawned when its grandparent is cancelled.               *)
StartedInScope == [p \in Tasks |-> {k \in Tasks : parent[k] = p /\ nursery[k] = p}]
ScopedSubtreeFollows ==
  Settled /\ Unmasked => \A p \in Tasks : IsCancelled(p) /\ ~Ended(p) =>
    \A k \in Below(StartedInScope, p) : cancelled[k] \/ Ended(k)

(* Cancelling the root tears the whole program down. *)
TearsDown == cancelled[Root] ~> \A t \in Tasks : pc[t] \in {"absent", "done"}

===============================================================================
