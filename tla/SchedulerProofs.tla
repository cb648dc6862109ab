---------------------------- MODULE SchedulerProofs ---------------------------
(***************************************************************************)
(* Proofs about Scheduler, for any number of workers and tasks: its types, *)
(* the exclusion of the coroutine lock, the count of live tasks and the    *)
(* return of block_on, the absence of missed signals at the idle gate, and *)
(* that every step of the scheduler is a step of the park/wake contract.   *)
(***************************************************************************)
EXTENDS Scheduler, SequenceTheorems, FiniteSetTheorems, TLAPS

-------------------------------------------------------------------------------
(* Queues *)

(* Appending an entry adds it to the queue's entries. *)
LEMMA EntriesAppend ==
  ASSUME NEW S, NEW q \in Seq(S), NEW x \in S
  PROVE  Entries(Append(q, x)) = Entries(q) \cup {x}
<1>1. /\ Append(q, x) \in Seq(S)
      /\ Len(Append(q, x)) = Len(q) + 1
      /\ \A i \in 1..Len(q) : Append(q, x)[i] = q[i]
      /\ Append(q, x)[Len(q) + 1] = x
  BY AppendProperties
<1>2. /\ DOMAIN q = 1..Len(q) /\ DOMAIN Append(q, x) = 1..(Len(q) + 1) /\ Len(q) \in Nat
  BY <1>1, LenProperties
<1>3. 1..(Len(q) + 1) = 1..Len(q) \cup {Len(q) + 1}
  BY <1>2
<1> QED BY <1>1, <1>2, <1>3 DEF Entries

(* The entries of a queue that is not empty are its head and those of its tail. *)
LEMMA EntriesTail ==
  ASSUME NEW S, NEW q \in Seq(S), q # <<>>
  PROVE  Entries(q) = {Head(q)} \cup Entries(Tail(q))
<1>1. /\ Tail(q) \in Seq(S) /\ Len(Tail(q)) = Len(q) - 1
      /\ \A i \in 1..Len(Tail(q)) : Tail(q)[i] = q[i + 1]
  BY HeadTailProperties
<1>2. Len(q) \in Nat \ {0} /\ DOMAIN q = 1..Len(q) /\ DOMAIN Tail(q) = 1..(Len(q) - 1)
  BY <1>1, LenProperties, EmptySeq
<1>3. Head(q) = q[1]
  OBVIOUS
<1>4. ASSUME NEW i \in 1..Len(q) PROVE q[i] \in {Head(q)} \cup Entries(Tail(q))
  <2>1. CASE i = 1
    BY <2>1, <1>3
  <2>2. CASE i # 1
    <3>1. i - 1 \in 1..(Len(q) - 1) /\ (i - 1) + 1 = i
      BY <2>2, <1>2
    <3>2. Tail(q)[i - 1] = q[i]
      BY <3>1, <1>1
    <3> QED BY <3>1, <3>2, <1>2 DEF Entries
  <2> QED BY <2>1, <2>2
<1>5. ASSUME NEW i \in 1..(Len(q) - 1) PROVE Tail(q)[i] \in Entries(q)
  <2>1. i + 1 \in 1..Len(q) /\ Tail(q)[i] = q[i + 1]
    BY <1>1, <1>2
  <2> QED BY <2>1, <1>2 DEF Entries
<1>6. Head(q) \in Entries(q)
  BY <1>2, <1>3 DEF Entries
<1> QED BY <1>2, <1>4, <1>5, <1>6 DEF Entries

(* A batch leaving the front of a queue splits its entries into the one        *)
(* returned, the ones moved along and the ones left.                            *)
LEMMA EntriesSplit ==
  ASSUME NEW S, NEW q \in Seq(S), NEW k \in 1..Len(q)
  PROVE  /\ SubSeq(q, 2, k) \in Seq(S)
         /\ SubSeq(q, k + 1, Len(q)) \in Seq(S)
         /\ Len(SubSeq(q, k + 1, Len(q))) = Len(q) - k
         /\ Entries(q) = {Head(q)} \cup Entries(SubSeq(q, 2, k))
                                   \cup Entries(SubSeq(q, k + 1, Len(q)))
<1> DEFINE n == Len(q)
           moved == SubSeq(q, 2, k)
           left == SubSeq(q, k + 1, n)
<1>1. n \in Nat /\ k \in 1..n /\ DOMAIN q = 1..n /\ \A i \in 1..n : q[i] \in S
  BY LenProperties, ElementOfSeq
<1> HIDE DEF n
<1>2. /\ moved \in Seq(S)
      /\ Len(moved) = IF 2 <= k THEN k - 1 ELSE 0
      /\ \A i \in 1..(k - 1) : moved[i] = q[i + 1]
  <2>1. \A i \in 2..k : q[i] \in S
    BY <1>1
  <2>2. /\ moved \in Seq(S)
        /\ Len(moved) = IF 2 <= k THEN k - 2 + 1 ELSE 0
        /\ \A i \in 1..(k - 2 + 1) : moved[i] = q[2 + i - 1]
    BY <2>1, <1>1, SubSeqProperties
  <2>3. k - 2 + 1 = k - 1 /\ \A i \in 1..(k - 1) : 2 + i - 1 = i + 1
    BY <1>1
  <2> QED BY <2>2, <2>3
<1>3. /\ left \in Seq(S)
      /\ Len(left) = n - k
      /\ \A i \in 1..(n - k) : left[i] = q[k + i]
  <2>1. \A i \in (k + 1)..n : q[i] \in S
    BY <1>1
  <2>2. /\ left \in Seq(S)
        /\ Len(left) = IF k + 1 <= n THEN n - (k + 1) + 1 ELSE 0
        /\ \A i \in 1..(n - (k + 1) + 1) : left[i] = q[(k + 1) + i - 1]
    BY <2>1, <1>1, SubSeqProperties
  <2>3. n - (k + 1) + 1 = n - k /\ \A i \in 1..(n - k) : (k + 1) + i - 1 = k + i
    BY <1>1
  <2>4. ~(k + 1 <= n) => n - k = 0
    BY <1>1
  <2> QED BY <2>2, <2>3, <2>4
<1>4. /\ DOMAIN moved = 1..(k - 1) /\ DOMAIN left = 1..(n - k)
      /\ Head(q) = q[1]
  <2>1. DOMAIN moved = 1..Len(moved) /\ DOMAIN left = 1..Len(left)
    BY <1>2, <1>3, LenProperties
  <2>2. Len(moved) = k - 1
    BY <1>1, <1>2
  <2> QED BY <2>1, <2>2, <1>3
<1> HIDE DEF moved, left
<1>5. ASSUME NEW i \in 1..n
      PROVE  q[i] \in {Head(q)} \cup Entries(moved) \cup Entries(left)
  <2>1. CASE i = 1
    BY <2>1, <1>4
  <2>2. CASE i \in 2..k
    <3>1. i - 1 \in 1..(k - 1) /\ moved[i - 1] = q[i]
      BY <2>2, <1>1, <1>2
    <3> QED BY <3>1, <1>4 DEF Entries
  <2>3. CASE i > k
    <3>1. i - k \in 1..(n - k) /\ left[i - k] = q[i]
      BY <2>3, <1>1, <1>3
    <3> QED BY <3>1, <1>4 DEF Entries
  <2> QED BY <2>1, <2>2, <2>3, <1>1
<1>6. ASSUME NEW i \in 1..(k - 1) PROVE moved[i] \in Entries(q)
  <2>1. i + 1 \in 1..n /\ moved[i] = q[i + 1]
    BY <1>1, <1>2
  <2> QED BY <2>1, <1>1 DEF Entries
<1>7. ASSUME NEW i \in 1..(n - k) PROVE left[i] \in Entries(q)
  <2>1. k + i \in 1..n /\ left[i] = q[k + i]
    BY <1>1, <1>3
  <2> QED BY <2>1, <1>1 DEF Entries
<1>8. Head(q) \in Entries(q)
  BY <1>1, <1>4 DEF Entries
<1>9. Entries(q) = {Head(q)} \cup Entries(moved) \cup Entries(left)
  BY <1>1, <1>4, <1>5, <1>6, <1>7, <1>8 DEF Entries
<1> QED BY <1>2, <1>3, <1>9 DEF n, moved, left

-------------------------------------------------------------------------------
(* The core of the inductive invariant: types, hands, exclusion and the count. *)

(* A worker that holds an entry holds a task; one that is spawning has built   *)
(* the child; and block_on has built the root once it has started.              *)
Hands ==
  /\ \A w \in Workers :
       /\ wpc[w] \in {"claimed", "run", "spawn", "retire"} => cur[w] \in Tasks
       /\ wpc[w] = "spawn" => child[w] \in Tasks /\ coro[child[w]] # "absent"
  /\ main # "start" => coro[Root] # "absent"

Core == TypeOK /\ Hands /\ SingleRunner /\ ActiveExact

(* The core of the invariant holds initially. *)
LEMMA CoreInit == Init => Core
<1> SUFFICES ASSUME Init PROVE Core
  OBVIOUS
<1>1. TypeOK
  BY WorkersAssumption, EmptySeq, TasksAssumption DEF Init, TypeOK, WorkerPCs, Workers
<1>2. Hands /\ SingleRunner
  BY DEF Init, Hands, SingleRunner, Executing
<1>3. LiveTasks = {} /\ Unretired = {}
  BY DEF Init, LiveTasks, Unretired
<1>4. ActiveExact
  BY <1>3, FS_EmptySet DEF Init, ActiveExact
<1> QED BY <1>1, <1>2, <1>4 DEF Core

(* The two sets that ActiveExact counts are finite. *)
LEMMA CountsFinite ==
  ASSUME TypeOK
  PROVE  /\ IsFiniteSet(LiveTasks) /\ Cardinality(LiveTasks) \in Nat
         /\ IsFiniteSet(Unretired) /\ Cardinality(Unretired) \in Nat
<1>1. IsFiniteSet(Workers)
  BY WorkersAssumption, FS_Interval DEF Workers
<1>2. LiveTasks \in SUBSET Tasks /\ Unretired \in SUBSET Workers
  BY DEF LiveTasks, Unretired
<1>3. IsFiniteSet(LiveTasks) /\ IsFiniteSet(Unretired)
  BY <1>1, <1>2, TasksAssumption, FS_Subset
<1> QED BY <1>3, FS_CardinalityType

(* A step preserves the types: only Retire lowers the count, and it is positive then. *)
LEMMA TypeStep == Core /\ [Next]_vars => TypeOK'
<1> SUFFICES ASSUME Core, [Next]_vars PROVE TypeOK'
  OBVIOUS
<1> USE TasksAssumption DEF Core, TypeOK
<1>a. {"find", "global", "steal", "gate", "wait", "claimed", "run", "spawn", "retire"} = WorkerPCs
  BY DEF WorkerPCs
<1>b. ASSUME NEW w \in Workers, NEW t \in Tasks, Claim(w, t)
      PROVE  wpc' \in [Workers -> WorkerPCs] /\ cur' \in [Workers -> Tasks \cup {NoTask}]
  BY <1>a, <1>b DEF Claim
<1>1. CASE Notify
  <2>1. wpc' \in [Workers -> WorkerPCs]
    <3>1. wpc \in [Workers -> WorkerPCs] /\ "find" \in WorkerPCs
      BY <1>a
    <3>2. UNCHANGED wpc \/ \E w \in Workers : wpc' = [wpc EXCEPT ![w] = "find"]
      BY <1>1 DEF Notify
    <3> QED BY <3>1, <3>2
  <2>2. signals' \in Nat
    BY <1>1 DEF Notify
  <2> QED BY <1>1, <2>1, <2>2 DEF Notify
<1>2. ASSUME NEW t \in Tasks, Wake(t) PROVE TypeOK'
  BY <1>2 DEF Wake, Push
<1>3. ASSUME NEW w \in Workers, FindLocal(w) PROVE TypeOK'
  <2>1. CASE deque[w] # <<>>
    <3>1. Head(deque[w]) \in Tasks /\ Tail(deque[w]) \in Seq(Tasks)
      BY <2>1, HeadTailProperties
    <3>2. Claim(w, Head(deque[w])) /\ deque' = [deque EXCEPT ![w] = Tail(deque[w])]
      BY <1>3, <2>1, Zenon DEF FindLocal
    <3>3. deque' \in [Workers -> Seq(Tasks)]
      BY <3>1, <3>2
    <3> QED BY <1>3, <1>b, <3>1, <3>2, <3>3 DEF FindLocal
  <2>2. CASE deque[w] = <<>>
    <3>1. wpc' \in [Workers -> WorkerPCs]
      BY <1>3, <1>a, <2>2 DEF FindLocal
    <3> QED BY <1>3, <2>2, <3>1 DEF FindLocal
  <2> QED BY <2>1, <2>2
<1>4. ASSUME NEW w \in Workers, FindGlobal(w) PROVE TypeOK'
  <2>1. CASE injector # <<>>
    <3>1. PICK k \in 1..Len(injector) :
            /\ injector' = SubSeq(injector, k + 1, Len(injector))
            /\ deque' = [deque EXCEPT ![w] = SubSeq(injector, 2, k)]
      BY <1>4, <2>1 DEF FindGlobal, Batch
    <3>2. SubSeq(injector, 2, k) \in Seq(Tasks) /\ SubSeq(injector, k + 1, Len(injector)) \in Seq(Tasks)
      BY EntriesSplit
    <3>3. injector' \in Seq(Tasks) /\ deque' \in [Workers -> Seq(Tasks)]
      BY <3>1, <3>2
    <3>4. Head(injector) \in Tasks /\ Claim(w, Head(injector)) /\ UNCHANGED scan
      BY <1>4, <2>1, HeadTailProperties DEF FindGlobal
    <3> QED BY <1>4, <1>b, <3>3, <3>4 DEF FindGlobal
  <2>2. CASE injector = <<>>
    <3>1. 1 \in Workers
      BY WorkersAssumption DEF Workers
    <3>2. wpc' \in [Workers -> WorkerPCs] /\ scan' \in [Workers -> Workers]
      BY <1>4, <1>a, <2>2, <3>1 DEF FindGlobal
    <3> QED BY <1>4, <2>2, <3>2 DEF FindGlobal
  <2> QED BY <2>1, <2>2
<1>5. ASSUME NEW w \in Workers, FindSteal(w) PROVE TypeOK'
  <2>1. PICK v \in Workers : v = scan[w]
    OBVIOUS
  <2>2. CASE deque[v] # <<>>
    <3>1. Head(deque[v]) \in Tasks /\ Tail(deque[v]) \in Seq(Tasks)
      BY <2>2, HeadTailProperties
    <3>2. /\ Claim(w, Head(deque[v])) /\ UNCHANGED scan
          /\ deque' = [deque EXCEPT ![v] = Tail(deque[v])]
      BY <1>5, <2>1, <2>2, Zenon DEF FindSteal
    <3>3. deque' \in [Workers -> Seq(Tasks)]
      BY <3>1, <3>2
    <3> QED BY <1>5, <1>b, <3>1, <3>2, <3>3 DEF FindSteal
  <2>3. CASE deque[v] = <<>>
    <3>1. v < NWorkers => v + 1 \in Workers
      BY WorkersAssumption DEF Workers
    <3>2. wpc' \in [Workers -> WorkerPCs] /\ scan' \in [Workers -> Workers] /\ UNCHANGED <<deque, cur>>
      BY <1>5, <1>a, <2>1, <2>3, <3>1 DEF FindSteal
    <3> QED BY <1>5, <3>2 DEF FindSteal
  <2> QED BY <2>2, <2>3
<1>6. ASSUME NEW w \in Workers, Gate(w) \/ Timeout(w) PROVE TypeOK'
  BY <1>6 DEF Gate, Timeout, WorkerPCs
<1>7. ASSUME NEW w \in Workers, Resume(w) \/ Park(w) \/ Return(w) PROVE TypeOK'
  BY <1>7 DEF Resume, Park, Return, WorkerPCs
<1>8. ASSUME NEW w \in Workers, Retire(w) PROVE TypeOK'
  <2>1. Unretired # {}
    BY <1>8 DEF Retire, Unretired
  <2>2. Cardinality(Unretired) \in Nat \ {0}
    BY <2>1, CountsFinite, FS_EmptySet
  <2>3. active - 1 \in Nat
    BY <2>2, CountsFinite DEF ActiveExact
  <2> QED BY <1>8, <2>3 DEF Retire, WorkerPCs
<1>9. ASSUME NEW w \in Workers, NEW t \in Tasks, SpawnMake(w, t) PROVE TypeOK'
  BY <1>9 DEF SpawnMake, CountLive, Counted, WorkerPCs
<1>10. ASSUME NEW w \in Workers, SpawnPush(w) PROVE TypeOK'
  BY <1>10 DEF SpawnPush, Push, Hands, WorkerPCs
<1>11. CASE MainMake \/ MainPush \/ MainCheck
  <2>1. CASE MainMake
    BY <2>1 DEF MainMake, CountLive, Counted
  <2>2. CASE MainPush
    BY <2>2 DEF MainPush, Push
  <2>3. CASE MainCheck
    BY <2>3 DEF MainCheck
  <2> QED BY <1>11, <2>1, <2>2, <2>3
<1>12. CASE UNCHANGED vars
  BY <1>12 DEF vars
<1> QED BY <1>1, <1>2, <1>3, <1>4, <1>5, <1>6, <1>7, <1>8, <1>9, <1>10, <1>11, <1>12 DEF Next

(* A step keeps Hands: entries are tasks, and a task once built is never absent again. *)
LEMMA HandsStep == Core /\ [Next]_vars => Hands'
<1> SUFFICES ASSUME Core, [Next]_vars PROVE Hands'
  OBVIOUS
<1> USE TasksAssumption DEF Core, TypeOK, Hands
<1>1. CASE Notify
  BY <1>1 DEF Notify
<1>2. ASSUME NEW t \in Tasks, Wake(t) PROVE Hands'
  BY <1>2 DEF Wake, Push
<1>3. ASSUME NEW w \in Workers, FindLocal(w) PROVE Hands'
  <2>1. deque[w] # <<>> => Head(deque[w]) \in Tasks
    BY HeadTailProperties
  <2> QED BY <1>3, <2>1 DEF FindLocal, Claim
<1>4. ASSUME NEW w \in Workers, FindGlobal(w) PROVE Hands'
  <2>1. injector # <<>> => Head(injector) \in Tasks
    BY HeadTailProperties
  <2> QED BY <1>4, <2>1 DEF FindGlobal, Claim
<1>5. ASSUME NEW w \in Workers, FindSteal(w) PROVE Hands'
  <2>1. deque[scan[w]] # <<>> => Head(deque[scan[w]]) \in Tasks
    BY HeadTailProperties
  <2> QED BY <1>5, <2>1 DEF FindSteal, Claim
<1>6. ASSUME NEW w \in Workers, Gate(w) \/ Timeout(w) PROVE Hands'
  BY <1>6 DEF Gate, Timeout
<1>7. ASSUME NEW w \in Workers, Resume(w) \/ Park(w) \/ Return(w) PROVE Hands'
  BY <1>7 DEF Resume, Park, Return
<1>8. ASSUME NEW w \in Workers, Retire(w) PROVE Hands'
  BY <1>8 DEF Retire
<1>9. ASSUME NEW w \in Workers, NEW t \in Tasks, SpawnMake(w, t) PROVE Hands'
  BY <1>9 DEF SpawnMake, CountLive
<1>10. ASSUME NEW w \in Workers, SpawnPush(w) PROVE Hands'
  BY <1>10 DEF SpawnPush, Push
<1>11. CASE MainMake \/ MainPush \/ MainCheck
  BY <1>11 DEF MainMake, MainPush, MainCheck, CountLive, Push
<1>12. CASE UNCHANGED vars
  BY <1>12 DEF vars
<1> QED BY <1>1, <1>2, <1>3, <1>4, <1>5, <1>6, <1>7, <1>8, <1>9, <1>10, <1>11, <1>12 DEF Next

(* A step keeps the coroutine lock exclusive: Resume enters a task nobody is in, *)
(* Park and Return leave it, and a new task was absent, hence not entered.        *)
LEMMA RunnerStep == Core /\ [Next]_vars => SingleRunner'
<1> SUFFICES ASSUME Core, [Next]_vars PROVE SingleRunner'
  OBVIOUS
<1> USE TasksAssumption DEF Core, TypeOK, Hands, SingleRunner, Executing
<1>1. CASE Notify
  BY <1>1 DEF Notify
<1>2. ASSUME NEW t \in Tasks, Wake(t) PROVE SingleRunner'
  BY <1>2 DEF Wake, Push
<1>3. ASSUME NEW w \in Workers, FindLocal(w) \/ FindGlobal(w) \/ FindSteal(w) PROVE SingleRunner'
  <2>1. UNCHANGED coro /\ \A v \in Workers : Executing(v)' => Executing(v) /\ cur'[v] = cur[v]
    BY <1>3 DEF FindLocal, FindGlobal, FindSteal, Claim
  <2> QED BY <2>1
<1>6. ASSUME NEW w \in Workers, Gate(w) \/ Timeout(w) PROVE SingleRunner'
  <2>1. UNCHANGED <<coro, cur>> /\ \A v \in Workers : Executing(v)' => Executing(v)
    BY <1>6 DEF Gate, Timeout
  <2> QED BY <2>1
<1>7. ASSUME NEW w \in Workers, Resume(w) \/ Park(w) \/ Return(w) PROVE SingleRunner'
  <2>1. CASE Resume(w) /\ MayEnter(cur[w])
    <3>1. cur[w] \in Tasks /\ coro[cur[w]] = "parked"
      BY <2>1 DEF Resume, MayEnter
    <3>2. /\ UNCHANGED cur
          /\ coro' = [coro EXCEPT ![cur[w]] = "running"]
          /\ wpc' = [wpc EXCEPT ![w] = "run"]
      BY <2>1, <3>1 DEF Resume, Spent
    <3>3. \A v \in Workers : Executing(v) => cur[v] # cur[w]
      BY <3>1
    <3> QED BY <3>1, <3>2, <3>3
  <2>2. CASE Resume(w) /\ ~MayEnter(cur[w])
    <3>1. UNCHANGED coro /\ \A v \in Workers : Executing(v)' => Executing(v) /\ cur'[v] = cur[v]
      BY <2>2 DEF Resume
    <3> QED BY <3>1
  <2>3. CASE Park(w) \/ Return(w)
    <3>1. PICK what \in {"parked", "done"} : coro' = [coro EXCEPT ![cur[w]] = what]
      BY <2>3 DEF Park, Return
    <3>2. Executing(w) /\ ~Executing(w)' /\ cur[w] \in Tasks
      BY <2>3 DEF Park, Return
    <3>3. \A v \in Workers : Executing(v)' => v # w /\ Executing(v) /\ cur'[v] = cur[v]
      BY <2>3 DEF Park, Return
    <3>4. \A v \in Workers : Executing(v)' => cur[v] # cur[w]
      BY <3>2, <3>3
    <3>5. \A v \in Workers : Executing(v)' => coro'[cur'[v]] = "running"
      BY <3>1, <3>2, <3>3, <3>4
    <3> QED BY <3>3, <3>5
  <2> QED BY <1>7, <2>1, <2>2, <2>3
<1>8. ASSUME NEW w \in Workers, Retire(w) PROVE SingleRunner'
  BY <1>8 DEF Retire
<1>9. ASSUME NEW w \in Workers, NEW t \in Tasks, SpawnMake(w, t) PROVE SingleRunner'
  BY <1>9 DEF SpawnMake, CountLive
<1>10. ASSUME NEW w \in Workers, SpawnPush(w) PROVE SingleRunner'
  BY <1>10 DEF SpawnPush, Push
<1>11. CASE MainMake \/ MainPush \/ MainCheck
  BY <1>11 DEF MainMake, MainPush, MainCheck, CountLive, Push
<1>12. CASE UNCHANGED vars
  BY <1>12 DEF vars
<1> QED BY <1>1, <1>2, <1>3, <1>6, <1>7, <1>8, <1>9, <1>10, <1>11, <1>12 DEF Next

(* A step keeps the count exact: spawning adds a live task, Return turns one     *)
(* into an unfinished drop, Retire settles it, and nothing else touches either.  *)
LEMMA CountStep == Core /\ [Next]_vars => ActiveExact'
<1> SUFFICES ASSUME Core, [Next]_vars PROVE ActiveExact'
  OBVIOUS
<1> USE TasksAssumption DEF Core, TypeOK, Hands
<1>a. /\ IsFiniteSet(LiveTasks) /\ Cardinality(LiveTasks) \in Nat
      /\ IsFiniteSet(Unretired) /\ Cardinality(Unretired) \in Nat
  BY CountsFinite
<1>b. ASSUME UNCHANGED active, LiveTasks' = LiveTasks, Unretired' = Unretired
      PROVE  ActiveExact'
  BY <1>b DEF ActiveExact
<1>c. ASSUME NEW t \in Tasks, CountLive(t), Unretired' = Unretired
      PROVE  ActiveExact'
  <2>1. t \notin LiveTasks /\ LiveTasks' = LiveTasks \cup {t}
    BY <1>c DEF CountLive, LiveTasks
  <2>2. Cardinality(LiveTasks') = Cardinality(LiveTasks) + 1
    BY <2>1, <1>a, FS_AddElement
  <2>3. active' = active + 1
    BY <1>c DEF CountLive, Counted
  <2> QED BY <1>a, <1>c, <2>2, <2>3 DEF ActiveExact
<1>1. CASE Notify
  <2>1. LiveTasks' = LiveTasks /\ Unretired' = Unretired /\ UNCHANGED active
    BY <1>1 DEF Notify, LiveTasks, Unretired
  <2> QED BY <2>1, <1>b
<1>2. ASSUME NEW t \in Tasks, Wake(t) PROVE ActiveExact'
  BY <1>2, <1>b DEF Wake, LiveTasks, Unretired
<1>3. ASSUME NEW w \in Workers, FindLocal(w) \/ FindGlobal(w) \/ FindSteal(w) PROVE ActiveExact'
  <2>1. UNCHANGED <<coro, active>> /\ \A v \in Workers : wpc'[v] = "retire" <=> wpc[v] = "retire"
    BY <1>3 DEF FindLocal, FindGlobal, FindSteal, Claim
  <2> QED BY <2>1, <1>b DEF LiveTasks, Unretired
<1>4. ASSUME NEW w \in Workers, Gate(w) \/ Timeout(w) PROVE ActiveExact'
  <2>1. UNCHANGED <<coro, active>> /\ \A v \in Workers : wpc'[v] = "retire" <=> wpc[v] = "retire"
    BY <1>4 DEF Gate, Timeout
  <2> QED BY <2>1, <1>b DEF LiveTasks, Unretired
<1>5. ASSUME NEW w \in Workers, Resume(w) \/ Park(w) PROVE ActiveExact'
  <2>1. UNCHANGED active /\ \A v \in Workers : wpc'[v] = "retire" <=> wpc[v] = "retire"
    BY <1>5 DEF Resume, Park
  <2>2. \A t \in Tasks : coro'[t] \in {"parked", "running"} <=> coro[t] \in {"parked", "running"}
    BY <1>5 DEF Resume, Park, MayEnter, SingleRunner, Executing
  <2> QED BY <2>1, <2>2, <1>b DEF LiveTasks, Unretired
<1>6. ASSUME NEW w \in Workers, Return(w) PROVE ActiveExact'
  <2>1. cur[w] \in Tasks /\ coro[cur[w]] = "running"
    BY <1>6 DEF Return, SingleRunner, Executing
  <2>2. cur[w] \in LiveTasks /\ LiveTasks' = LiveTasks \ {cur[w]}
    BY <1>6, <2>1 DEF Return, LiveTasks
  <2>3. w \notin Unretired /\ Unretired' = Unretired \cup {w}
    BY <1>6 DEF Return, Unretired
  <2>4. Cardinality(LiveTasks') = Cardinality(LiveTasks) - 1
    BY <2>2, <1>a, FS_RemoveElement
  <2>5. Cardinality(Unretired') = Cardinality(Unretired) + 1
    BY <2>3, <1>a, FS_AddElement
  <2> QED BY <1>6, <1>a, <2>4, <2>5 DEF Return, ActiveExact
<1>7. ASSUME NEW w \in Workers, Retire(w) PROVE ActiveExact'
  <2>1. w \in Unretired /\ Unretired' = Unretired \ {w} /\ LiveTasks' = LiveTasks
    BY <1>7 DEF Retire, Unretired, LiveTasks
  <2>2. Cardinality(Unretired') = Cardinality(Unretired) - 1
    BY <2>1, <1>a, FS_RemoveElement
  <2>3. active' = active - 1
    BY <1>7 DEF Retire
  <2> QED BY <1>a, <2>1, <2>2, <2>3 DEF ActiveExact
<1>8. ASSUME NEW w \in Workers, NEW t \in Tasks, SpawnMake(w, t) PROVE ActiveExact'
  <2>1. CountLive(t) /\ Unretired' = Unretired
    BY <1>8 DEF SpawnMake, Unretired
  <2> QED BY <2>1, <1>c
<1>9. ASSUME NEW w \in Workers, SpawnPush(w) PROVE ActiveExact'
  <2>1. UNCHANGED <<coro, active>> /\ Unretired' = Unretired
    BY <1>9 DEF SpawnPush, Unretired
  <2> QED BY <2>1, <1>b DEF LiveTasks
<1>10. CASE MainMake
  BY <1>10, <1>c DEF MainMake, Unretired
<1>11. CASE MainPush \/ MainCheck
  BY <1>11, <1>b DEF MainPush, MainCheck, LiveTasks, Unretired
<1>12. CASE UNCHANGED vars
  BY <1>12, <1>b DEF vars, LiveTasks, Unretired
<1> QED BY <1>1, <1>2, <1>3, <1>4, <1>5, <1>6, <1>7, <1>8, <1>9, <1>10, <1>11, <1>12 DEF Next

(* Spec keeps the core of the invariant. *)
LEMMA CoreInvariant == Spec => []Core
<1>1. Core /\ [Next]_vars => Core'
  BY TypeStep, HandsStep, RunnerStep, CountStep DEF Core
<1> QED BY <1>1, CoreInit, PTL DEF Spec

(* The scheduler's state keeps its types: in particular the count of live tasks  *)
(* never goes below zero.                                                        *)
THEOREM TypeCorrect == Spec => []TypeOK
BY CoreInvariant, PTL DEF Core

(* run_task's lock works: no coroutine is ever entered by two workers at once. *)
THEOREM RunnerExclusive == Spec => []SingleRunner
BY CoreInvariant, PTL DEF Core

(* The count block_on waits for is exact at every moment. *)
THEOREM CountExact == Spec => []ActiveExact
BY CoreInvariant, PTL DEF Core

-------------------------------------------------------------------------------
(* The return of block_on *)

(* Once block_on has returned nothing is live, and so nothing can become live. *)
Returned == main = "returned" => active = 0

(* When the count is zero every coroutine is absent or dropped. *)
LEMMA ZeroMeansNone ==
  ASSUME Core, active = 0
  PROVE  LiveTasks = {} /\ Unretired = {}
<1>1. Cardinality(LiveTasks) = 0 /\ Cardinality(Unretired) = 0
  BY CountsFinite DEF Core, ActiveExact
<1> QED BY <1>1, CountsFinite, FS_EmptySet DEF Core

(* block_on returns only when every task ever created has dropped its coroutine *)
(* and every drop has been counted.                                             *)
THEOREM BlockOnQuiescent == Spec => []QuiescentReturn
<1>1. Init => Returned
  BY DEF Init, Returned
<1>2. Core /\ Returned /\ [Next]_vars => Returned'
  <2> SUFFICES ASSUME Core, Returned, [Next]_vars PROVE Returned'
    OBVIOUS
  <2>1. CASE main = "returned"
    <3>1. active = 0
      BY <2>1 DEF Returned
    <3>2. \A w \in Workers : wpc[w] # "retire"
      BY <3>1, ZeroMeansNone DEF Unretired
    <3>3. \A w \in Workers : wpc[w] # "run"
      BY <3>1, ZeroMeansNone DEF LiveTasks, Core, SingleRunner, Executing, Hands
    <3>4. UNCHANGED active
      BY <2>1, <3>2, <3>3 DEF Next, Notify, Wake, FindLocal, FindGlobal, FindSteal, Gate, Timeout,
         Resume, Park, Return, Retire, SpawnMake, SpawnPush, MainMake, MainPush, MainCheck, vars
    <3> QED BY <3>1, <3>4 DEF Returned
  <2>2. CASE main # "returned" /\ main' = "returned"
    <3>1. MainCheck
      BY <2>2 DEF Next, Notify, Wake, FindLocal, FindGlobal, FindSteal, Gate, Timeout,
         Resume, Park, Return, Retire, SpawnMake, SpawnPush, MainMake, MainPush, vars
    <3> QED BY <2>2, <3>1 DEF MainCheck, Quiescent, Returned
  <2> QED BY <2>1, <2>2 DEF Returned
<1>3. Core /\ Returned => QuiescentReturn
  <2> SUFFICES ASSUME Core, Returned, main = "returned" PROVE QuiescentReturn
    BY DEF QuiescentReturn
  <2>1. LiveTasks = {} /\ Unretired = {}
    BY ZeroMeansNone DEF Returned
  <2>2. \A t \in Tasks : coro[t] \in {"absent", "done"}
    BY <2>1 DEF LiveTasks, Core, TypeOK
  <2>3. coro[Root] # "absent"
    BY DEF Core, Hands
  <2> QED BY <2>1, <2>2, <2>3, TasksAssumption DEF QuiescentReturn
<1> QED BY <1>1, <1>2, <1>3, CoreInvariant, PTL DEF Spec

-------------------------------------------------------------------------------
(* The idle gate *)

(* A worker past the look at its own deque found it empty, and nobody fills it   *)
(* for it: only its own batch refill does, and that ends the search.              *)
LocalEmpty ==
  \A w \in Workers : wpc[w] \in {"global", "steal", "gate", "wait"} => deque[w] = <<>>

(* Every step keeps the deques empty where LocalEmpty says so. *)
LEMMA LocalEmptyStep == Core /\ LocalEmpty /\ [Next]_vars => LocalEmpty'
<1> SUFFICES ASSUME Core, LocalEmpty, [Next]_vars PROVE LocalEmpty'
  OBVIOUS
<1> USE DEF Core, TypeOK, LocalEmpty
<1>1. CASE Notify
  BY <1>1 DEF Notify
<1>2. ASSUME NEW t \in Tasks, Wake(t) PROVE LocalEmpty'
  BY <1>2 DEF Wake
<1>3. ASSUME NEW w \in Workers, FindLocal(w) PROVE LocalEmpty'
  BY <1>3 DEF FindLocal, Claim
<1>4. ASSUME NEW w \in Workers, FindGlobal(w) PROVE LocalEmpty'
  <2>1. /\ wpc'[w] = "claimed" \/ (wpc'[w] = "steal" /\ UNCHANGED deque)
        /\ \A v \in Workers \ {w} : wpc'[v] = wpc[v] /\ deque'[v] = deque[v]
    BY <1>4 DEF FindGlobal, Claim
  <2> QED BY <1>4, <2>1 DEF FindGlobal
<1>5. ASSUME NEW w \in Workers, FindSteal(w) PROVE LocalEmpty'
  <2>1. PICK v \in Workers : v = scan[w]
    OBVIOUS
  <2>2. CASE deque[v] # <<>>
    <3>1. /\ wpc' = [wpc EXCEPT ![w] = "claimed"]
          /\ deque' = [deque EXCEPT ![v] = Tail(deque[v])]
      BY <1>5, <2>1, <2>2 DEF FindSteal, Claim
    <3> QED BY <2>2, <3>1
  <2>3. CASE deque[v] = <<>>
    <3>1. UNCHANGED deque /\ \A u \in Workers \ {w} : wpc'[u] = wpc[u]
      BY <1>5, <2>1, <2>3 DEF FindSteal
    <3> QED BY <1>5, <3>1 DEF FindSteal
  <2> QED BY <2>2, <2>3
<1>6. ASSUME NEW w \in Workers, Gate(w) \/ Timeout(w) PROVE LocalEmpty'
  BY <1>6 DEF Gate, Timeout
<1>7. ASSUME NEW w \in Workers, Resume(w) \/ Park(w) \/ Return(w) \/ Retire(w) PROVE LocalEmpty'
  BY <1>7 DEF Resume, Park, Return, Retire
<1>8. ASSUME NEW w \in Workers, NEW t \in Tasks, SpawnMake(w, t) \/ SpawnPush(w) PROVE LocalEmpty'
  BY <1>8 DEF SpawnMake, SpawnPush
<1>9. CASE MainMake \/ MainPush \/ MainCheck \/ UNCHANGED vars
  BY <1>9 DEF MainMake, MainPush, MainCheck, vars
<1> QED BY <1>1, <1>2, <1>3, <1>4, <1>5, <1>6, <1>7, <1>8, <1>9, TasksAssumption DEF Next

Waiting == {w \in Workers : wpc[w] = "wait"}

(* The workers about to look can be counted. *)
LEMMA LookingFinite ==
  ASSUME TypeOK
  PROVE  /\ IsFiniteSet(Looking) /\ Cardinality(Looking) \in Nat
         /\ \A T \in SUBSET Looking : Cardinality(T) \in Nat /\ Cardinality(T) <= Cardinality(Looking)
<1>1. IsFiniteSet(Workers) /\ Looking \in SUBSET Workers
  BY WorkersAssumption, FS_Interval DEF Workers, Looking
<1>2. IsFiniteSet(Looking)
  BY <1>1, FS_Subset
<1> QED BY <1>2, FS_Subset, FS_CardinalityType

(* A step that adds no sleeper, takes no looker away and lets the injector grow    *)
(* no faster than the signals keeps NoMissedSignal.                                *)
LEMMA SignalsKeepPace ==
  ASSUME TypeOK, TypeOK', NoMissedSignal, Waiting' \subseteq Waiting, Looking \subseteq Looking',
         Len(injector') - signals' <= Len(injector) - signals
  PROVE  NoMissedSignal'
<1> SUFFICES ASSUME Waiting' # {}
             PROVE  Len(injector') <= signals' + Cardinality(Looking')
  BY DEF NoMissedSignal, Waiting
<1>1. Len(injector) <= signals + Cardinality(Looking)
  BY DEF NoMissedSignal, Waiting
<1>2. Cardinality(Looking) \in Nat
  BY LookingFinite
<1>3. Cardinality(Looking') \in Nat /\ Cardinality(Looking) <= Cardinality(Looking')
  <2>1. IsFiniteSet(Workers) /\ Looking' \in SUBSET Workers
    BY WorkersAssumption, FS_Interval DEF Workers, Looking
  <2>2. IsFiniteSet(Looking')
    BY <2>1, FS_Subset
  <2> QED BY <2>2, FS_Subset, FS_CardinalityType
<1>4. Len(injector) \in Nat /\ Len(injector') \in Nat /\ signals \in Nat /\ signals' \in Nat
  BY LenProperties DEF TypeOK
<1> QED BY <1>1, <1>2, <1>3, <1>4

(* The steps that could miss a signal: a notification, a worker that leaves the    *)
(* lookers with or without a batch, and a worker that goes to sleep.                *)
LEMMA SignalStep == Core /\ Core' /\ LocalEmpty /\ NoMissedSignal /\ [Next]_vars => NoMissedSignal'
<1> SUFFICES ASSUME Core, Core', LocalEmpty, NoMissedSignal, [Next]_vars PROVE NoMissedSignal'
  OBVIOUS
<1> USE DEF Core
<1>a. Len(injector) \in Nat /\ Len(injector') \in Nat /\ signals \in Nat /\ signals' \in Nat
  BY LenProperties DEF TypeOK
<1>b. Cardinality(Looking) \in Nat /\ Cardinality(Looking') \in Nat
  <2>1. IsFiniteSet(Workers) /\ Looking \in SUBSET Workers /\ Looking' \in SUBSET Workers
    BY WorkersAssumption, FS_Interval DEF Workers, Looking
  <2> QED BY <2>1, FS_Subset, FS_CardinalityType
<1>c. ASSUME UNCHANGED <<injector, signals>>, Waiting' \subseteq Waiting, Looking \subseteq Looking'
      PROVE  NoMissedSignal'
  BY <1>a, <1>c, SignalsKeepPace
<1>d. ASSUME NEW t \in Tasks, Push(t), Waiting' \subseteq Waiting, Looking \subseteq Looking'
      PROVE  NoMissedSignal'
  <2>1. Len(injector') = Len(injector) + 1 /\ signals' = signals + 1
    BY <1>d, AppendProperties DEF Push, TypeOK
  <2> QED BY <1>a, <1>d, <2>1, SignalsKeepPace
<1>e. ASSUME Len(injector') = 0 PROVE NoMissedSignal'
  BY <1>a, <1>b, <1>e DEF NoMissedSignal
<1>1. CASE Notify
  <2>1. CASE Waiting = {}
    <3>1. Waiting' = {}
      BY <1>1, <2>1 DEF Notify, Waiting
    <3> QED BY <3>1 DEF NoMissedSignal, Waiting
  <2>2. CASE Waiting # {}
    <3>1. PICK w \in Workers : wpc[w] = "wait" /\ wpc' = [wpc EXCEPT ![w] = "find"]
      BY <1>1, <2>2 DEF Notify, Waiting
    <3>2. deque[w] = <<>> /\ UNCHANGED <<deque, injector>> /\ signals' = signals - 1
      BY <1>1, <3>1 DEF Notify, LocalEmpty
    <3>3. w \notin Looking /\ Looking' = Looking \cup {w}
      BY <3>1, <3>2 DEF Looking, TypeOK
    <3>4. Cardinality(Looking') = Cardinality(Looking) + 1
      BY <3>3, LookingFinite, FS_AddElement
    <3>5. Len(injector) <= signals + Cardinality(Looking)
      BY <3>1 DEF NoMissedSignal
    <3> QED BY <1>a, <1>b, <3>2, <3>4, <3>5 DEF NoMissedSignal
  <2> QED BY <2>1, <2>2
<1>2. ASSUME NEW t \in Tasks, Wake(t) PROVE NoMissedSignal'
  BY <1>2, <1>d DEF Wake, Waiting, Looking
<1>3. ASSUME NEW w \in Workers, FindLocal(w) PROVE NoMissedSignal'
  <2>1. /\ UNCHANGED <<injector, signals>>
        /\ \A v \in Workers : wpc'[v] = "wait" => wpc[v] = "wait"
        /\ \A v \in Workers \ {w} : wpc'[v] = wpc[v] /\ deque'[v] = deque[v]
        /\ deque[w] # <<>> \/ wpc'[w] = "global"
        /\ wpc[w] = "find"
    BY <1>3 DEF FindLocal, Claim, TypeOK
  <2> QED BY <2>1, <1>c DEF Waiting, Looking
<1>4. ASSUME NEW w \in Workers, FindGlobal(w) PROVE NoMissedSignal'
  <2>1. CASE injector = <<>>
    BY <1>4, <1>e, <2>1, EmptySeq DEF FindGlobal
  <2>2. CASE injector # <<>>
    <3>1. PICK k \in 1..Len(injector) : injector' = SubSeq(injector, k + 1, Len(injector))
      BY <1>4, <2>2 DEF FindGlobal
    <3>2. Len(injector') <= Len(injector) - 1
      BY <1>a, <3>1, EntriesSplit DEF TypeOK
    <3>3. /\ wpc[w] = "global" /\ wpc' = [wpc EXCEPT ![w] = "claimed"] /\ UNCHANGED signals
          /\ \A v \in Workers \ {w} : deque'[v] = deque[v]
      BY <1>4, <2>2 DEF FindGlobal, Claim, TypeOK
    <3>4. w \in Looking /\ Looking' = Looking \ {w} /\ Waiting' = Waiting
      BY <3>3 DEF Looking, Waiting, TypeOK
    <3>5. Cardinality(Looking') = Cardinality(Looking) - 1
      BY <3>4, LookingFinite, FS_RemoveElement
    <3>6. Waiting' # {} => Len(injector) <= signals + Cardinality(Looking)
      BY <3>4 DEF NoMissedSignal, Waiting
    <3>7. Waiting' # {} => Len(injector') <= signals' + Cardinality(Looking')
      BY <1>a, <1>b, <3>2, <3>3, <3>5, <3>6
    <3> QED BY <3>7 DEF NoMissedSignal, Waiting
  <2> QED BY <2>1, <2>2
<1>5. ASSUME NEW w \in Workers, FindSteal(w) PROVE NoMissedSignal'
  <2>1. /\ UNCHANGED <<injector, signals>> /\ wpc[w] = "steal" /\ wpc'[w] # "wait"
        /\ \A v \in Workers \ {w} : wpc'[v] = wpc[v]
    BY <1>5 DEF FindSteal, Claim, TypeOK
  <2>2. \A v \in Workers : deque[v] = <<>> => deque'[v] = <<>>
    BY <1>5 DEF FindSteal, TypeOK
  <2> QED BY <2>1, <2>2, <1>c DEF Waiting, Looking
<1>6. ASSUME NEW w \in Workers, Gate(w) PROVE NoMissedSignal'
  <2>1. CASE injector = <<>>
    BY <1>6, <1>e, <2>1, EmptySeq DEF Gate
  <2>2. CASE injector # <<>>
    <3>1. /\ wpc' = [wpc EXCEPT ![w] = "find"] /\ wpc[w] = "gate"
          /\ UNCHANGED <<injector, signals, deque>>
      BY <1>6, <2>2 DEF Gate, NothingQueued
    <3> QED BY <3>1, <1>c DEF Waiting, Looking, TypeOK
  <2> QED BY <2>1, <2>2
<1>7. ASSUME NEW w \in Workers,
             Timeout(w) \/ Resume(w) \/ Park(w) \/ Return(w) \/ Retire(w)
      PROVE  NoMissedSignal'
  <2>1. /\ UNCHANGED <<injector, signals, deque>>
        /\ wpc[w] \notin {"find", "global"} /\ wpc'[w] # "wait"
        /\ \A v \in Workers \ {w} : wpc'[v] = wpc[v]
    BY <1>7 DEF Timeout, Resume, Park, Return, Retire, TypeOK
  <2> QED BY <2>1, <1>c DEF Waiting, Looking
<1>8. ASSUME NEW w \in Workers, NEW t \in Tasks, SpawnMake(w, t) PROVE NoMissedSignal'
  <2>1. /\ UNCHANGED <<injector, signals, deque>> /\ wpc[w] = "run" /\ wpc'[w] = "spawn"
        /\ \A v \in Workers \ {w} : wpc'[v] = wpc[v]
    BY <1>8 DEF SpawnMake, TypeOK
  <2> QED BY <2>1, <1>c DEF Waiting, Looking
<1>9. ASSUME NEW w \in Workers, SpawnPush(w) PROVE NoMissedSignal'
  <2>1. /\ UNCHANGED deque /\ wpc[w] = "spawn" /\ wpc'[w] = "run"
        /\ \A v \in Workers \ {w} : wpc'[v] = wpc[v]
    BY <1>9 DEF SpawnPush, TypeOK
  <2>2. child[w] \in Tasks /\ Push(child[w])
    BY <1>9 DEF SpawnPush, Hands
  <2>3. Waiting' \subseteq Waiting /\ Looking \subseteq Looking'
    BY <2>1 DEF Waiting, Looking
  <2> QED BY <2>2, <2>3, <1>d
<1>10. CASE MainPush
  BY <1>10, <1>d, TasksAssumption DEF MainPush, Waiting, Looking
<1>11. CASE MainMake \/ MainCheck \/ UNCHANGED vars
  BY <1>11, <1>c DEF MainMake, MainCheck, vars, Waiting, Looking
<1> QED BY <1>1, <1>2, <1>3, <1>4, <1>5, <1>6, <1>7, <1>8, <1>9, <1>10, <1>11 DEF Next

(* No signal is missed: while a worker sleeps at the idle gate, every entry of     *)
(* the injector has a notification on its way or a worker about to look.           *)
THEOREM GateAttended == Spec => []NoMissedSignal
<1>1. Init => LocalEmpty /\ NoMissedSignal
  BY DEF Init, LocalEmpty, NoMissedSignal
<1>2. Core /\ Core' /\ LocalEmpty /\ NoMissedSignal /\ [Next]_vars => LocalEmpty' /\ NoMissedSignal'
  BY LocalEmptyStep, SignalStep
<1> QED BY <1>1, <1>2, CoreInvariant, PTL DEF Spec

-------------------------------------------------------------------------------
(* The scheduler implements ParkWake. *)

(* Worker w has an entry of t in its deque or in its hand. *)
Has(w, t) == t \in Entries(deque[w]) \/ (wpc[w] = "claimed" /\ cur[w] = t)

Owed == [t \in Tasks |-> Queued(t)]

(* A queued task is in the injector or with some worker. *)
LEMMA QueuedHas == \A t : Queued(t) <=> t \in Entries(injector) \/ \E w \in Workers : Has(w, t)
BY DEF Queued, Has

(* Two states with the same queued tasks have the same wakes outstanding. *)
LEMMA SameWakes ==
  ASSUME \A t \in Tasks : Queued(t)' <=> Queued(t)
  PROVE  Owed' = Owed
<1>1. \A t \in Tasks : Queued(t) \in BOOLEAN /\ Queued(t)' \in BOOLEAN
  BY DEF Queued
<1> QED BY <1>1 DEF Owed

(* Searching for work moves entries about but neither adds nor drops one. *)
LEMMA SearchKeepsWakes ==
  ASSUME Core, LocalEmpty, NEW w \in Workers,
         FindLocal(w) \/ FindGlobal(w) \/ FindSteal(w) \/ Gate(w) \/ Timeout(w)
  PROVE  UNCHANGED coro /\ Owed' = Owed
<1> USE DEF Core, TypeOK
<1>a. UNCHANGED coro
  BY DEF FindLocal, FindGlobal, FindSteal, Gate, Timeout
<1> SUFFICES \A t \in Tasks : Queued(t)' <=> Queued(t)
  BY <1>a, SameWakes
<1>b. \A t : Queued(t)' <=> t \in Entries(injector') \/ \E v \in Workers : Has(v, t)'
  BY DEF Queued, Has
<1>1. CASE FindLocal(w) /\ deque[w] # <<>>
  <2>1. /\ UNCHANGED injector /\ wpc[w] = "find" /\ wpc'[w] = "claimed"
        /\ cur'[w] = Head(deque[w]) /\ deque'[w] = Tail(deque[w])
        /\ \A v \in Workers \ {w} : wpc'[v] = wpc[v] /\ cur'[v] = cur[v] /\ deque'[v] = deque[v]
    BY <1>1 DEF FindLocal, Claim
  <2>2. Entries(deque[w]) = {Head(deque[w])} \cup Entries(Tail(deque[w]))
    BY <1>1, EntriesTail
  <2>3. \A t : Has(w, t)' <=> Has(w, t)
    BY <2>1, <2>2 DEF Has
  <2>4. \A v \in Workers \ {w} : \A t : Has(v, t)' <=> Has(v, t)
    BY <2>1 DEF Has
  <2> QED BY <2>1, <2>3, <2>4, <1>b, QueuedHas
<1>2. CASE FindGlobal(w) /\ injector # <<>>
  <2>1. PICK k \in 1..Len(injector) :
          /\ injector' = SubSeq(injector, k + 1, Len(injector))
          /\ deque' = [deque EXCEPT ![w] = SubSeq(injector, 2, k)]
    BY <1>2 DEF FindGlobal, Batch
  <2>2. /\ wpc[w] = "global" /\ wpc'[w] = "claimed" /\ cur'[w] = Head(injector)
        /\ \A v \in Workers \ {w} : wpc'[v] = wpc[v] /\ cur'[v] = cur[v] /\ deque'[v] = deque[v]
    BY <1>2 DEF FindGlobal, Claim
  <2>3. Entries(injector) = {Head(injector)} \cup Entries(deque'[w]) \cup Entries(injector')
    BY <2>1, EntriesSplit
  <2>4. \A t : ~Has(w, t)
    BY <2>2 DEF LocalEmpty, Has, Entries
  <2>5. \A t : Has(w, t)' <=> t = Head(injector) \/ t \in Entries(deque'[w])
    BY <2>2 DEF Has
  <2>6. \A v \in Workers \ {w} : \A t : Has(v, t)' <=> Has(v, t)
    BY <2>2 DEF Has
  <2> QED BY <2>3, <2>4, <2>5, <2>6, <1>b, QueuedHas
<1>3. CASE FindSteal(w) /\ deque[scan[w]] # <<>>
  <2>1. PICK v \in Workers : v = scan[w]
    OBVIOUS
  <2>2. /\ UNCHANGED injector /\ wpc[w] = "steal"
        /\ wpc' = [wpc EXCEPT ![w] = "claimed"]
        /\ cur' = [cur EXCEPT ![w] = Head(deque[v])]
        /\ deque' = [deque EXCEPT ![v] = Tail(deque[v])]
    BY <1>3, <2>1 DEF FindSteal, Claim
  <2>3. v # w
    BY <1>3, <2>1, <2>2 DEF LocalEmpty
  <2>4. Entries(deque[v]) = {Head(deque[v])} \cup Entries(Tail(deque[v]))
    BY <1>3, <2>1, EntriesTail
  <2>5. \A t : Has(v, t) <=> t = Head(deque[v]) \/ Has(v, t)'
    BY <2>2, <2>3, <2>4 DEF Has
  <2>6. \A t : ~Has(w, t)
    BY <2>2 DEF LocalEmpty, Has, Entries
  <2>7. \A t : Has(w, t)' <=> t = Head(deque[v])
    BY <2>2, <2>3 DEF LocalEmpty, Has, Entries
  <2>8. \A u \in Workers \ {v, w} : \A t : Has(u, t)' <=> Has(u, t)
    BY <2>2 DEF Has
  <2> QED BY <2>2, <2>5, <2>6, <2>7, <2>8, <1>b, QueuedHas
<1>4. CASE ~(FindLocal(w) /\ deque[w] # <<>>) /\ ~(FindGlobal(w) /\ injector # <<>>)
           /\ ~(FindSteal(w) /\ deque[scan[w]] # <<>>)
  <2>1. /\ UNCHANGED <<injector, deque, cur>>
        /\ \A v \in Workers : wpc'[v] = "claimed" <=> wpc[v] = "claimed"
    BY <1>4 DEF FindLocal, FindGlobal, FindSteal, Gate, Timeout
  <2> QED BY <2>1 DEF Queued
<1> QED BY <1>1, <1>2, <1>3, <1>4

(* schedule(t) makes a wake of t outstanding and changes no other task's. *)
LEMMA PushOwes ==
  ASSUME Core, NEW t \in Tasks, Push(t), UNCHANGED <<deque, cur>>,
         \A v \in Workers : wpc'[v] = "claimed" <=> wpc[v] = "claimed"
  PROVE  Owed' = [Owed EXCEPT ![t] = TRUE]
<1>1. Entries(injector') = Entries(injector) \cup {t}
  BY EntriesAppend DEF Push, Core, TypeOK
<1>2. \A u \in Tasks : Queued(u)' <=> Queued(u) \/ u = t
  BY <1>1 DEF Queued
<1>3. \A u \in Tasks : Queued(u) \in BOOLEAN /\ Queued(u)' \in BOOLEAN
  BY DEF Queued
<1>4. \A u \in Tasks : Queued(u)' = IF u = t THEN TRUE ELSE Queued(u)
  BY <1>2, <1>3
<1> QED BY <1>4 DEF Owed

(* The scheduler implements the park/wake contract: no wake is ever lost between   *)
(* the queues, whichever way batches, steals, the lock and the gate interleave.     *)
THEOREM ImplementsParkWake == Spec => ParkWakeSafe
<1>1. Init => Contract!Init
  <2> SUFFICES ASSUME Init PROVE Contract!Init
    OBVIOUS
  <2>1. \A t \in Tasks : Queued(t) = FALSE
    BY DEF Init, Queued, Entries
  <2> QED BY <2>1 DEF Init, Contract!Init
<1>2. ASSUME Core, LocalEmpty, [Next]_vars
      PROVE  [Contract!Next]_(Contract!vars)
  <2> USE <1>2 DEF Core, TypeOK
  <2>s. ASSUME UNCHANGED coro, Owed' = Owed PROVE [Contract!Next]_(Contract!vars)
    BY <2>s DEF Owed, Contract!vars
  <2>w. ASSUME NEW t \in Tasks, UNCHANGED coro, coro[t] # "absent", Owed' = [Owed EXCEPT ![t] = TRUE]
        PROVE  Contract!Next
    BY <2>w DEF Owed, Contract!Next, Contract!Wake
  <2>1. CASE Notify
    <3>1. /\ UNCHANGED <<coro, injector, deque, cur>>
          /\ \A v \in Workers : wpc'[v] = "claimed" <=> wpc[v] = "claimed"
      BY <2>1 DEF Notify
    <3> QED BY <3>1, <2>s, SameWakes DEF Queued
  <2>2. ASSUME NEW t \in Tasks, Wake(t) PROVE Contract!Next
    BY <2>2, <2>w, PushOwes DEF Wake
  <2>3. ASSUME NEW w \in Workers,
               FindLocal(w) \/ FindGlobal(w) \/ FindSteal(w) \/ Gate(w) \/ Timeout(w)
        PROVE  [Contract!Next]_(Contract!vars)
    BY <2>3, <2>s, SearchKeepsWakes
  <2>4. ASSUME NEW w \in Workers, Resume(w) PROVE Contract!Next
    <3>t. PICK t \in Tasks : t = cur[w]
      BY <2>4 DEF Resume, Hands
    <3>1. Owed[t] = TRUE /\ UNCHANGED <<injector, deque>>
      <4>1. Queued(t) /\ UNCHANGED <<injector, deque>>
        BY <2>4, <3>t DEF Resume, Queued
      <4> QED BY <4>1 DEF Owed, Queued
    <3>2. \A u \in Tasks \ {t} : Queued(u)' = Queued(u)
      <4>1. \A u \in Tasks \ {t} : Queued(u)' <=> Queued(u)
        <5>1. \A v \in Workers : v # w => wpc'[v] = wpc[v] /\ cur'[v] = cur[v]
          BY <2>4 DEF Resume, TypeOK
        <5>2. wpc'[w] # "claimed"
          BY <2>4 DEF Resume, TypeOK
        <5> QED BY <3>t, <3>1, <5>1, <5>2 DEF Queued
      <4> QED BY <4>1 DEF Queued
    <3>3. PICK more \in BOOLEAN : more = Queued(t)'
      BY DEF Queued
    <3>4. Owed' = [Owed EXCEPT ![t] = more]
      <4>1. \A u \in Tasks : Queued(u)' = IF u = t THEN more ELSE Queued(u)
        BY <3>2, <3>3, Zenon
      <4> QED BY <4>1, Zenon DEF Owed
    <3>5. CASE MayEnter(t) /\ coro' = [coro EXCEPT ![t] = "running"]
      BY <3>1, <3>4, <3>5 DEF MayEnter, Owed, Contract!Next, Contract!Resume
    <3>6. CASE Spent(t) /\ UNCHANGED coro
      BY <3>1, <3>4, <3>6 DEF Spent, Owed, Contract!Next, Contract!Discard
    <3> QED BY <2>4, <3>t, <3>5, <3>6 DEF Resume
  <2>5. ASSUME NEW w \in Workers, Park(w) \/ Return(w) PROVE Contract!Next
    <3>1. cur[w] \in Tasks /\ coro[cur[w]] = "running"
      BY <2>5 DEF Park, Return, Hands, SingleRunner, Executing
    <3>2. \A t \in Tasks : Queued(t)' <=> Queued(t)
      BY <2>5 DEF Park, Return, Queued
    <3>3. Owed' = Owed
      BY <3>2, SameWakes
    <3> QED BY <2>5, <3>1, <3>3 DEF Park, Return, Owed, Contract!Next, Contract!Park, Contract!Return
  <2>6. ASSUME NEW w \in Workers, Retire(w) PROVE [Contract!Next]_(Contract!vars)
    <3>1. \A t \in Tasks : Queued(t)' <=> Queued(t)
      BY <2>6 DEF Retire, Queued
    <3> QED BY <2>6, <3>1, <2>s, SameWakes DEF Retire
  <2>m. ASSUME NEW t \in Tasks, CountLive(t), UNCHANGED <<injector, deque, cur>>,
               \A v \in Workers : wpc'[v] = "claimed" <=> wpc[v] = "claimed"
        PROVE  Contract!Next
    <3>1. Owed' = Owed
      BY <2>m, SameWakes DEF Queued
    <3> QED BY <2>m, <3>1 DEF CountLive, Owed, Contract!Next, Contract!Make
  <2>7. ASSUME NEW w \in Workers, NEW t \in Tasks, SpawnMake(w, t) PROVE Contract!Next
    BY <2>7, <2>m DEF SpawnMake
  <2>8. ASSUME NEW w \in Workers, SpawnPush(w) PROVE Contract!Next
    BY <2>8, <2>w, PushOwes DEF SpawnPush, Hands
  <2>9. CASE MainMake
    BY <2>9, <2>m, TasksAssumption DEF MainMake
  <2>10. CASE MainPush
    BY <2>10, <2>w, PushOwes, TasksAssumption DEF MainPush, Hands
  <2>11. CASE MainCheck \/ UNCHANGED vars
    <3>1. UNCHANGED <<coro, injector, deque, wpc, cur>>
      BY <2>11 DEF MainCheck, vars
    <3> QED BY <3>1, <2>s, SameWakes DEF Queued
  <2> QED BY <1>2, <2>1, <2>2, <2>3, <2>4, <2>5, <2>6, <2>7, <2>8, <2>9, <2>10, <2>11 DEF Next
<1>3. Init => LocalEmpty
  BY DEF Init, LocalEmpty
<1>4. Spec => []LocalEmpty
  BY <1>3, LocalEmptyStep, CoreInvariant, PTL DEF Spec
<1> QED BY <1>1, <1>2, <1>4, CoreInvariant, PTL DEF Spec, ParkWakeSafe, Contract!Spec

===============================================================================
