-------------------------- MODULE BlockingPoolProofs --------------------------
(***************************************************************************)
(* Proofs about BlockingPool, for any number of tasks and any cap on the   *)
(* threads: its types and the idle count, that a submitted call is in      *)
(* exactly one place, that a result is never slept on, and that no job is  *)
(* stranded while a thread sleeps.                                         *)
(***************************************************************************)
EXTENDS BlockingPool, SequenceTheorems, FiniteSetTheorems, TLAPS

-------------------------------------------------------------------------------
(* The inductive invariant *)

Looking == {h \in Threads : tpc[h] \in {"top", "woken"}}
Counted == {h \in Threads : tpc[h] \in {"wait", "woken"}}

(* Threads are started in order; `idle` counts those in the condition variable *)
(* and those notified out of it that have not had the lock since.              *)
ThreadCount ==
  /\ \A h \in Threads : h > threads => tpc[h] = "none"
  /\ idle = Cardinality(Counted)

(* A thread between taking a job and waking its submitter names a task. *)
JobNamed == \A h \in Threads : tpc[h] \in {"busy", "filled"} => job[h] \in Tasks

(* No call is queued twice or run by two threads, and the three places a call  *)
(* can be in exclude each other; a task is parked exactly while its call is in *)
(* one of them.                                                                *)
InQueue(t) == \E i \in 1..Len(queue) : queue[i] = t
Running(h, t) == tpc[h] = "busy" /\ job[h] = t
OnePlace ==
  /\ \A i, j \in 1..Len(queue) : queue[i] = queue[j] => i = j
  /\ \A h, k \in Threads : tpc[h] = "busy" /\ tpc[k] = "busy" /\ job[h] = job[k] => h = k
  /\ \A t \in Tasks :
       /\ InQueue(t) => ~result[t] /\ pc[t] = "parked"
       /\ \A h \in Threads : Running(h, t) => ~InQueue(t) /\ ~result[t] /\ pc[t] = "parked"
       /\ result[t] => pc[t] = "parked"
       /\ pc[t] = "parked" => InQueue(t) \/ result[t] \/ \E h \in Threads : Running(h, t)

IInv == TypeOK /\ ThreadCount /\ JobNamed /\ OnePlace /\ ResultAnnounced /\ NoStrandedJob

-------------------------------------------------------------------------------
(* Counting threads *)

(* The sets of threads that are counted are finite. *)
LEMMA ThreadsFinite ==
  /\ IsFiniteSet(Threads)
  /\ \A S \in SUBSET Threads : IsFiniteSet(S) /\ Cardinality(S) \in Nat
<1>1. IsFiniteSet(Threads)
  BY PoolAssumption, FS_Interval DEF Threads
<1> QED BY <1>1, FS_Subset, FS_CardinalityType

(* A thread that joins a set of threads adds one. *)
LEMMA CountJoin ==
  ASSUME NEW S \in SUBSET Threads, NEW h \in Threads, h \notin S
  PROVE  Cardinality(S \cup {h}) = Cardinality(S) + 1
BY ThreadsFinite, FS_AddElement

(* A thread that leaves a set of threads takes one away. *)
LEMMA CountLeave ==
  ASSUME NEW S \in SUBSET Threads, NEW h \in S
  PROVE  Cardinality(S \ {h}) = Cardinality(S) - 1
BY ThreadsFinite, FS_RemoveElement

(* The invariant holds initially: there are no threads and no calls. *)
LEMMA IInvInit == Init => IInv
<1> SUFFICES ASSUME Init PROVE IInv
  OBVIOUS
<1> USE PoolAssumption DEF Init
<1>1. TypeOK
  BY DEF TypeOK, ThreadPCs, Threads
<1>2. ThreadCount
  <2>1. Counted = {}
    BY DEF Counted
  <2> QED BY <2>1, FS_EmptySet DEF ThreadCount
<1>3. JobNamed /\ OnePlace /\ ResultAnnounced
  BY DEF JobNamed, OnePlace, InQueue, Running, ResultAnnounced
<1>4. NoStrandedJob
  BY DEF NoStrandedJob
<1> QED BY <1>1, <1>2, <1>3, <1>4 DEF IInv

-------------------------------------------------------------------------------
(* The steps of tasks *)

(* Submitting queues the call once more, and gives it a thread that looks. *)
LEMMA SubmitStep == ASSUME IInv, NEW t \in Tasks, Submit(t) PROVE IInv'
<1> USE PoolAssumption DEF IInv
<1>0. /\ pc[t] = "run" /\ queue' = Append(queue, t) /\ pc' = [pc EXCEPT ![t] = "parked"]
      /\ idle' = idle /\ job' = job /\ result' = result /\ owed' = owed
      /\ queue \in Seq(Tasks)
  BY DEF Submit, TypeOK
<1>1. /\ queue' \in Seq(Tasks) /\ Len(queue) \in Nat /\ Len(queue') = Len(queue) + 1
      /\ \A i \in 1..Len(queue) : queue'[i] = queue[i]
      /\ queue'[Len(queue) + 1] = t
  BY <1>0, AppendProperties, LenProperties
<1>2. \/ /\ MayGrow /\ threads' = threads + 1 /\ threads + 1 \in Threads
         /\ tpc' = [tpc EXCEPT ![threads + 1] = "top"]
      \/ /\ threads' = threads
         /\ \E h \in Threads : tpc[h] = "wait" /\ tpc' = [tpc EXCEPT ![h] = "woken"]
      \/ threads' = threads /\ tpc' = tpc /\ \A h \in Threads : tpc[h] # "wait"
  BY DEF Submit, NotifyOne, TypeOK, Threads, MayGrow
<1>3. TypeOK'
  BY <1>0, <1>1, <1>2 DEF TypeOK, ThreadPCs, Threads
<1>4. \A h \in Threads : /\ tpc'[h] \in {"busy", "filled"} <=> tpc[h] \in {"busy", "filled"}
                         /\ tpc'[h] = "busy" <=> tpc[h] = "busy"
                         /\ tpc'[h] = "filled" <=> tpc[h] = "filled"
  BY <1>2 DEF TypeOK, ThreadCount, Threads
<1>5. ThreadCount'
  <2>1. Counted' = Counted
    BY <1>2 DEF Counted, TypeOK, ThreadCount, Threads
  <2>2. \A h \in Threads : h > threads' => tpc'[h] = "none"
    BY <1>2 DEF ThreadCount, TypeOK, Threads
  <2> QED BY <1>0, <2>1, <2>2 DEF ThreadCount
<1>6. JobNamed' /\ ResultAnnounced'
  BY <1>0, <1>4 DEF JobNamed, ResultAnnounced
<1>7. OnePlace'
  <2>1. \A s \in Tasks : InQueue(s)' <=> InQueue(s) \/ s = t
    BY <1>1 DEF InQueue
  <2>2. \A s \in Tasks, h \in Threads : Running(h, s)' <=> Running(h, s)
    BY <1>0, <1>4 DEF Running
  <2>3. ~InQueue(t) /\ ~result[t] /\ \A h \in Threads : ~Running(h, t)
    BY <1>0 DEF OnePlace
  <2>4. \A i, j \in 1..Len(queue') : queue'[i] = queue'[j] => i = j
    <3>1. \A i \in 1..Len(queue') : i \in 1..Len(queue) \/ i = Len(queue) + 1
      BY <1>1
    <3>2. \A i \in 1..Len(queue) : queue[i] # t
      BY <2>3 DEF InQueue
    <3> QED BY <1>1, <3>1, <3>2 DEF OnePlace
  <2>5. \A h, k \in Threads : tpc'[h] = "busy" /\ tpc'[k] = "busy" /\ job'[h] = job'[k] => h = k
    BY <1>0, <1>4 DEF OnePlace
  <2>6. \A s \in Tasks : pc'[s] = IF s = t THEN "parked" ELSE pc[s]
    BY <1>0 DEF TypeOK
  <2>7. ASSUME NEW s \in Tasks
        PROVE  /\ InQueue(s)' => ~result'[s] /\ pc'[s] = "parked"
               /\ \A h \in Threads : Running(h, s)' => ~InQueue(s)' /\ ~result'[s] /\ pc'[s] = "parked"
               /\ result'[s] => pc'[s] = "parked"
               /\ pc'[s] = "parked" => InQueue(s)' \/ result'[s] \/ \E h \in Threads : Running(h, s)'
    BY <1>0, <2>1, <2>2, <2>3, <2>6 DEF OnePlace
  <2> QED BY <2>4, <2>5, <2>7 DEF OnePlace
<1>8. NoStrandedJob'
  <2> SUFFICES ASSUME NEW g \in Threads, tpc'[g] = "wait"
               PROVE  Len(queue') <= Cardinality(Looking')
    BY DEF NoStrandedJob, Looking
  <2>1. PICK h \in Threads, to \in {"top", "woken"} :
          tpc[h] \in {"none", "wait"} /\ tpc' = [tpc EXCEPT ![h] = to]
    <3>1. ASSUME MayGrow, threads + 1 \in Threads PROVE tpc[threads + 1] = "none"
      <4>1. threads \in Nat /\ threads + 1 > threads
        BY DEF TypeOK
      <4> QED BY <3>1, <4>1 DEF ThreadCount
    <3> QED BY <1>2, <3>1
  <2>2. tpc[g] = "wait"
    BY <2>1 DEF TypeOK
  <2>6. h \notin Looking /\ Looking' = Looking \cup {h}
    BY <2>1 DEF Looking, TypeOK
  <2>3. Len(queue) <= Cardinality(Looking)
    BY <2>2 DEF NoStrandedJob, Looking
  <2>4. Looking \in SUBSET Threads /\ Cardinality(Looking) \in Nat
    BY ThreadsFinite DEF Looking
  <2>5. Cardinality(Looking') = Cardinality(Looking) + 1
    BY <2>6, <2>4, CountJoin
  <2> QED BY <1>1, <2>3, <2>4, <2>5
<1> QED BY <1>3, <1>5, <1>6, <1>7, <1>8

(* A resumed task takes its result or parks again. *)
LEMMA ResumeStep == ASSUME IInv, NEW t \in Tasks, Resume(t) PROVE IInv'
<1> USE DEF IInv, Resume, AfterResume
<1>1. TypeOK'
  BY DEF TypeOK
<1>2. ThreadCount' /\ JobNamed' /\ NoStrandedJob'
  BY DEF ThreadCount, Counted, JobNamed, NoStrandedJob
<1>3. OnePlace'
  BY DEF OnePlace, InQueue, Running, TypeOK
<1>4. ResultAnnounced'
  BY DEF ResultAnnounced, TypeOK
<1> QED BY <1>1, <1>2, <1>3, <1>4

(* Another party's wake adds a reason to resume. *)
LEMMA WakeOtherStep == ASSUME IInv, NEW t \in Tasks, WakeOther(t) PROVE IInv'
<1> USE DEF IInv, WakeOther
<1>1. TypeOK'
  BY DEF TypeOK
<1>2. ThreadCount' /\ JobNamed' /\ NoStrandedJob' /\ OnePlace'
  BY DEF ThreadCount, Counted, JobNamed, NoStrandedJob, OnePlace, InQueue, Running
<1>3. ResultAnnounced'
  BY DEF ResultAnnounced, TypeOK
<1> QED BY <1>1, <1>2, <1>3

-------------------------------------------------------------------------------
(* The steps of pool threads *)

(* A thread with the lock takes the first job. *)
LEMMA TakeStep ==
  ASSUME IInv, NEW h \in Threads, Look(h), queue # <<>>
  PROVE  IInv'
<1> USE PoolAssumption DEF IInv
<1> DEFINE t == Head(queue)
<1>0. /\ tpc[h] \in {"top", "woken"} /\ job' = [job EXCEPT ![h] = t] /\ queue' = Tail(queue)
      /\ tpc' = [tpc EXCEPT ![h] = "busy"]
      /\ idle' = IF tpc[h] = "woken" THEN idle - 1 ELSE idle
      /\ threads' = threads /\ pc' = pc /\ result' = result /\ owed' = owed
      /\ queue \in Seq(Tasks)
  BY DEF Look, TypeOK
<1>1. /\ queue' \in Seq(Tasks) /\ Len(queue') = Len(queue) - 1 /\ Len(queue) \in Nat \ {0}
      /\ \A i \in 1..Len(queue') : queue'[i] = queue[i + 1]
      /\ t = queue[1] /\ t \in Tasks
  BY <1>0, HeadTailProperties, LenProperties, EmptySeq
<1> HIDE DEF t
<1>2. ThreadCount' /\ idle' \in Nat
  <2>1. Counted \in SUBSET Threads /\ Cardinality(Counted) \in Nat /\ idle = Cardinality(Counted)
    BY ThreadsFinite DEF Counted, ThreadCount
  <2>2. \A k \in Threads : k > threads => tpc'[k] = "none"
    BY <1>0 DEF ThreadCount, TypeOK
  <2>3. CASE tpc[h] = "top"
    <3>1. Counted' = Counted
      BY <1>0, <2>3 DEF Counted, TypeOK
    <3> QED BY <1>0, <2>1, <2>2, <2>3, <3>1 DEF ThreadCount
  <2>4. CASE tpc[h] = "woken"
    <3>1. h \in Counted /\ Counted' = Counted \ {h}
      BY <1>0, <2>4 DEF Counted, TypeOK
    <3>2. Cardinality(Counted') = Cardinality(Counted) - 1
      BY <2>1, <3>1, CountLeave
    <3>3. Counted' \in SUBSET Threads /\ Cardinality(Counted') \in Nat
      BY ThreadsFinite DEF Counted
    <3> QED BY <1>0, <2>1, <2>2, <2>4, <3>2, <3>3 DEF ThreadCount
  <2> QED BY <1>0, <2>3, <2>4
<1>3. TypeOK'
  BY <1>0, <1>1, <1>2 DEF TypeOK, ThreadPCs
<1>4. JobNamed' /\ ResultAnnounced'
  BY <1>0, <1>1 DEF JobNamed, ResultAnnounced, TypeOK
<1>5. OnePlace'
  <2>1. InQueue(t) /\ \A s \in Tasks : InQueue(s)' <=> InQueue(s) /\ s # t
    <3>1. 1 \in 1..Len(queue) /\ InQueue(t)
      BY <1>1 DEF InQueue
    <3>2. ASSUME NEW s \in Tasks, NEW i \in 1..Len(queue'), queue'[i] = s
          PROVE  InQueue(s) /\ s # t
      <4>1. i + 1 \in 1..Len(queue) /\ i + 1 # 1 /\ queue[i + 1] = s
        BY <1>1, <3>2
      <4> QED BY <1>1, <3>1, <4>1 DEF InQueue, OnePlace
    <3>3. ASSUME NEW s \in Tasks, NEW i \in 1..Len(queue), queue[i] = s, s # t
          PROVE  InQueue(s)'
      <4>1. i - 1 \in 1..Len(queue') /\ (i - 1) + 1 = i
        BY <1>1, <3>3
      <4>2. queue'[i - 1] = s
        BY <1>1, <3>3, <4>1
      <4> QED BY <4>1, <4>2 DEF InQueue
    <3> QED BY <3>1, <3>2, <3>3 DEF InQueue
  <2>2. \A s \in Tasks, k \in Threads : Running(k, s)' <=> IF k = h THEN s = t ELSE Running(k, s)
    BY <1>0, <1>1 DEF Running, TypeOK
  <2>3. \A i, j \in 1..Len(queue') : queue'[i] = queue'[j] => i = j
    <3> SUFFICES ASSUME NEW i \in 1..Len(queue'), NEW j \in 1..Len(queue'), queue'[i] = queue'[j]
                 PROVE  i = j
      OBVIOUS
    <3>1. i + 1 \in 1..Len(queue) /\ j + 1 \in 1..Len(queue) /\ queue[i + 1] = queue[j + 1]
      BY <1>1
    <3> QED BY <3>1, <1>1 DEF OnePlace
  <2>4. \A k \in Threads : tpc[k] = "busy" => job[k] # t
    BY <1>1, <2>1 DEF OnePlace, Running
  <2>5. \A g, k \in Threads : tpc'[g] = "busy" /\ tpc'[k] = "busy" /\ job'[g] = job'[k] => g = k
    BY <1>0, <2>4 DEF OnePlace, TypeOK
  <2>6. ASSUME NEW s \in Tasks
        PROVE  /\ InQueue(s)' => ~result'[s] /\ pc'[s] = "parked"
               /\ \A k \in Threads : Running(k, s)' => ~InQueue(s)' /\ ~result'[s] /\ pc'[s] = "parked"
               /\ result'[s] => pc'[s] = "parked"
               /\ pc'[s] = "parked" => InQueue(s)' \/ result'[s] \/ \E k \in Threads : Running(k, s)'
    <3>1. ~Running(h, s)
      BY <1>0 DEF Running
    <3> QED BY <1>0, <1>1, <2>1, <2>2, <3>1 DEF OnePlace
  <2> QED BY <2>3, <2>5, <2>6 DEF OnePlace
<1>6. NoStrandedJob'
  <2> SUFFICES ASSUME NEW g \in Threads, tpc'[g] = "wait"
               PROVE  Len(queue') <= Cardinality(Looking')
    BY DEF NoStrandedJob, Looking
  <2>1. h \in Looking /\ Looking' = Looking \ {h}
    BY <1>0 DEF Looking, TypeOK
  <2>2. tpc[g] = "wait"
    BY <1>0 DEF TypeOK
  <2>3. Len(queue) <= Cardinality(Looking)
    BY <2>2 DEF NoStrandedJob, Looking
  <2>4. Looking \in SUBSET Threads /\ Cardinality(Looking) \in Nat
    BY ThreadsFinite DEF Looking
  <2>5. Cardinality(Looking') = Cardinality(Looking) - 1
    BY <2>1, <2>4, CountLeave
  <2> QED BY <1>1, <2>3, <2>4, <2>5
<1> QED BY <1>2, <1>3, <1>4, <1>5, <1>6

(* A step that leaves the queue and the calls alone and moves one thread, which *)
(* was not and is not running a call, from one place to another.                *)
LEMMA MoveStep ==
  ASSUME IInv, NEW h \in Threads, NEW to \in {"wait", "woken", "top"},
         tpc[h] \notin {"none", "busy"}, tpc' = [tpc EXCEPT ![h] = to], idle' \in Nat,
         idle' = Cardinality(Counted)', NoStrandedJob',
         job' \in [Threads -> Tasks \cup {NoTask}], \A k \in Threads : k # h => job'[k] = job[k],
         owed' \in [Tasks -> BOOLEAN], \A t \in Tasks : owed[t] => owed'[t],
         tpc[h] = "filled" => owed'[job[h]],
         UNCHANGED <<queue, threads, pc, result>>
  PROVE  IInv'
<1> USE DEF IInv
<1>1. TypeOK'
  BY DEF TypeOK, ThreadPCs
<1>2. ThreadCount'
  BY DEF ThreadCount, TypeOK
<1>3. JobNamed'
  BY DEF JobNamed, TypeOK
<1>4. OnePlace'
  <2>1. \A k \in Threads : tpc'[k] = "busy" <=> tpc[k] = "busy"
    BY DEF TypeOK
  <2>2. \A t \in Tasks, k \in Threads : Running(k, t)' <=> Running(k, t)
    BY <2>1 DEF Running
  <2>3. \A t \in Tasks : InQueue(t)' <=> InQueue(t)
    BY DEF InQueue
  <2>4. \A g, k \in Threads : tpc'[g] = "busy" /\ tpc'[k] = "busy" /\ job'[g] = job'[k] => g = k
    BY <2>1 DEF OnePlace
  <2> QED BY <2>2, <2>3, <2>4 DEF OnePlace
<1>5. ResultAnnounced'
  BY DEF ResultAnnounced, TypeOK, JobNamed
<1> QED BY <1>1, <1>2, <1>3, <1>4, <1>5

(* A thread that finds no job counts as idle and waits. *)
LEMMA WaitStep ==
  ASSUME IInv, NEW h \in Threads, Look(h), queue = <<>>
  PROVE  IInv'
<1> USE DEF IInv
<1>0. /\ tpc[h] \in {"top", "woken"} /\ tpc' = [tpc EXCEPT ![h] = "wait"]
      /\ idle' = IF tpc[h] = "woken" THEN idle ELSE idle + 1
      /\ UNCHANGED <<queue, threads, job, pc, result, owed>>
  BY DEF Look
<1>1. NoStrandedJob'
  <2>1. {k \in Threads : tpc[k] \in {"top", "woken"}}' \in SUBSET Threads
    OBVIOUS
  <2>2. Cardinality({k \in Threads : tpc[k] \in {"top", "woken"}}') \in Nat /\ Len(queue') = 0
    BY <1>0, <2>1, ThreadsFinite, EmptySeq
  <2> QED BY <2>2 DEF NoStrandedJob
<1>2. idle' \in Nat /\ idle' = Cardinality(Counted')
  <2>0. Counted \in SUBSET Threads /\ idle = Cardinality(Counted) /\ idle \in Nat
    BY DEF Counted, ThreadCount, TypeOK
  <2>1. CASE tpc[h] = "woken"
    <3>1. Counted' = Counted
      BY <1>0, <2>1 DEF Counted, TypeOK
    <3> QED BY <1>0, <2>0, <2>1, <3>1
  <2>2. CASE tpc[h] = "top"
    <3>1. h \notin Counted /\ Counted' = Counted \cup {h}
      BY <1>0, <2>2 DEF Counted, TypeOK
    <3>2. Cardinality(Counted') = Cardinality(Counted) + 1
      BY <2>0, <3>1, CountJoin
    <3> QED BY <1>0, <2>0, <2>2, <3>2
  <2> QED BY <1>0, <2>1, <2>2
<1> QED BY <1>0, <1>1, <1>2, MoveStep DEF TypeOK

(* More threads that look keep what is queued covered. *)
LEMMA LookerJoins ==
  ASSUME IInv, NEW h \in Threads, NEW to \in {"woken", "top"}, tpc[h] \notin {"top", "woken"},
         tpc' = [tpc EXCEPT ![h] = to], UNCHANGED queue
  PROVE  NoStrandedJob'
<1> USE DEF IInv
<1> SUFFICES ASSUME NEW g \in Threads, tpc'[g] = "wait"
             PROVE  Len(queue') <= Cardinality(Looking')
  BY DEF NoStrandedJob, Looking
<1>1. Len(queue) <= Cardinality(Looking)
  BY DEF NoStrandedJob, Looking, TypeOK
<1>2. h \notin Looking /\ Looking' = Looking \cup {h} /\ Looking \in SUBSET Threads
  BY DEF Looking, TypeOK
<1>3. Cardinality(Looking') = Cardinality(Looking) + 1 /\ Cardinality(Looking) \in Nat
  BY <1>2, CountJoin, ThreadsFinite
<1>4. Len(queue) \in Nat
  BY LenProperties DEF TypeOK
<1> QED BY <1>1, <1>3, <1>4

(* A spurious wakeup is like a notification. *)
LEMMA SpuriousStep == ASSUME IInv, NEW h \in Threads, SpuriousWakeup(h) PROVE IInv'
<1> USE DEF IInv, SpuriousWakeup
<1>1. NoStrandedJob'
  BY LookerJoins
<1>2. Counted' = Counted
  BY DEF Counted, TypeOK
<1> QED BY <1>1, <1>2, MoveStep DEF TypeOK, ThreadCount

(* Waking the submitter is what the filled slot was still owed. *)
LEMMA WakeSubmitterStep == ASSUME IInv, NEW h \in Threads, WakeSubmitter(h) PROVE IInv'
<1> USE DEF IInv, WakeSubmitter
<1>1. NoStrandedJob'
  BY LookerJoins
<1>2. Counted' = Counted
  BY DEF Counted, TypeOK
<1>3. job[h] \in Tasks
  BY DEF JobNamed
<1> QED BY <1>1, <1>2, <1>3, MoveStep DEF TypeOK, ThreadCount

(* The call moves from its thread to the task's slot. *)
LEMMA FillStep == ASSUME IInv, NEW h \in Threads, Fill(h) PROVE IInv'
<1> USE DEF IInv
<1>0. /\ tpc[h] = "busy" /\ result' = [result EXCEPT ![job[h]] = TRUE]
      /\ tpc' = [tpc EXCEPT ![h] = "filled"] /\ job[h] \in Tasks
      /\ UNCHANGED <<queue, idle, threads, job, pc, owed>>
  BY DEF Fill, AfterFill, JobNamed
<1>1. TypeOK'
  BY <1>0 DEF TypeOK, ThreadPCs
<1>2. ThreadCount' /\ JobNamed'
  <2>1. Counted' = Counted
    BY <1>0 DEF Counted, TypeOK
  <2> QED BY <1>0, <2>1 DEF ThreadCount, JobNamed, TypeOK
<1>3. OnePlace'
  <2>1. \A t \in Tasks : InQueue(t)' <=> InQueue(t)
    BY <1>0 DEF InQueue
  <2>2. \A t \in Tasks, k \in Threads : Running(k, t)' <=> Running(k, t) /\ k # h
    BY <1>0 DEF Running, TypeOK
  <2>3. \A t \in Tasks : result'[t] <=> result[t] \/ Running(h, t)
    BY <1>0 DEF Running, TypeOK
  <2>4. \A g, k \in Threads : tpc'[g] = "busy" /\ tpc'[k] = "busy" /\ job'[g] = job'[k] => g = k
    BY <1>0 DEF OnePlace, TypeOK
  <2>5. \A t \in Tasks, k \in Threads : Running(h, t) /\ Running(k, t) => k = h
    BY DEF OnePlace, Running
  <2>6. ASSUME NEW t \in Tasks
        PROVE  /\ InQueue(t)' => ~result'[t] /\ pc'[t] = "parked"
               /\ \A k \in Threads : Running(k, t)' => ~InQueue(t)' /\ ~result'[t] /\ pc'[t] = "parked"
               /\ result'[t] => pc'[t] = "parked"
               /\ pc'[t] = "parked" => InQueue(t)' \/ result'[t] \/ \E k \in Threads : Running(k, t)'
    BY <1>0, <2>1, <2>2, <2>3, <2>5 DEF OnePlace
  <2> QED BY <1>0, <2>4, <2>6 DEF OnePlace
<1>4. ResultAnnounced'
  BY <1>0 DEF ResultAnnounced, TypeOK
<1>5. NoStrandedJob'
  <2>1. \A k \in Threads : /\ tpc'[k] = "wait" <=> tpc[k] = "wait"
                           /\ tpc'[k] \in {"top", "woken"} <=> tpc[k] \in {"top", "woken"}
    BY <1>0 DEF TypeOK
  <2>2. {k \in Threads : tpc[k] \in {"top", "woken"}}' = {k \in Threads : tpc[k] \in {"top", "woken"}}
    BY <2>1
  <2> QED BY <1>0, <2>1, <2>2 DEF NoStrandedJob
<1> QED BY <1>1, <1>2, <1>3, <1>4, <1>5

-------------------------------------------------------------------------------
(* Every step preserves the invariant. *)
LEMMA IInvStep == IInv /\ [Next]_vars => IInv'
<1> SUFFICES ASSUME IInv, [Next]_vars PROVE IInv'
  OBVIOUS
<1>1. CASE UNCHANGED vars
  BY <1>1 DEF vars, IInv, TypeOK, ThreadCount, Counted, JobNamed, OnePlace, InQueue, Running,
              ResultAnnounced, NoStrandedJob
<1> QED
  BY <1>1, SubmitStep, ResumeStep, WakeOtherStep, TakeStep, WaitStep, SpuriousStep, FillStep,
     WakeSubmitterStep DEF Next

(* Spec keeps the inductive invariant. *)
LEMMA Invariance == Spec => []IInv
BY IInvInit, IInvStep, PTL DEF Spec

(* The pool's state has its types; in particular `idle` never wraps below zero *)
(* (scheduler.rs submit_blocking, blocking_worker_loop).                        *)
THEOREM TypeCorrect == Spec => []TypeOK
<1>1. IInv => TypeOK
  BY DEF IInv
<1> QED BY <1>1, Invariance, PTL

(* A submitted call is in exactly one place and a task that does not wait has  *)
(* no call anywhere (scheduler.rs run_blocking).                               *)
THEOREM CallInOnePlace == Spec => []OneCall
<1>1. ASSUME IInv, NEW t \in Tasks
      PROVE  Cardinality(Queued(t)) + Cardinality(Holders(t)) + (IF result[t] THEN 1 ELSE 0)
               = IF pc[t] = "parked" THEN 1 ELSE 0
  <2> USE <1>1 DEF IInv
  <2>0. Queued(t) = {i \in 1..Len(queue) : queue[i] = t}
    BY LenProperties DEF Queued, TypeOK
  <2>1. IF InQueue(t) THEN \E i : Queued(t) = {i} ELSE Queued(t) = {}
    <3>1. ASSUME NEW i \in 1..Len(queue), queue[i] = t PROVE Queued(t) = {i}
      BY <2>0, <3>1 DEF OnePlace
    <3>2. ~InQueue(t) => Queued(t) = {}
      BY <2>0 DEF InQueue
    <3> QED BY <3>1, <3>2 DEF InQueue
  <2>2. IF \E h \in Threads : Running(h, t) THEN \E h : Holders(t) = {h} ELSE Holders(t) = {}
    <3>1. ASSUME NEW h \in Threads, Running(h, t) PROVE Holders(t) = {h}
      BY <3>1 DEF Holders, Running, OnePlace
    <3>2. (\A h \in Threads : ~Running(h, t)) => Holders(t) = {}
      BY DEF Holders, Running
    <3> QED BY <3>1, <3>2
  <2>3. Cardinality(Queued(t)) = IF InQueue(t) THEN 1 ELSE 0
    BY <2>1, FS_EmptySet, FS_Singleton
  <2>4. Cardinality(Holders(t)) = IF \E h \in Threads : Running(h, t) THEN 1 ELSE 0
    BY <2>2, FS_EmptySet, FS_Singleton
  <2> QED BY <2>3, <2>4 DEF OnePlace, TypeOK
<1>2. IInv => OneCall
  BY <1>1 DEF OneCall
<1> QED BY <1>2, Invariance, PTL

(* A filled slot is never slept on (scheduler.rs run_blocking: the slot is     *)
(* filled before the wake).                                                    *)
THEOREM ResultWakes == Spec => []ResultAnnounced
<1>1. IInv => ResultAnnounced
  BY DEF IInv
<1> QED BY <1>1, Invariance, PTL

(* While a thread sleeps every queued job has a thread of its own about to     *)
(* look (scheduler.rs submit_blocking, blocking_worker_loop), whatever the     *)
(* stale idle count says.                                                      *)
THEOREM JobNotStranded == Spec => []NoStrandedJob
<1>1. IInv => NoStrandedJob
  BY DEF IInv
<1> QED BY <1>1, Invariance, PTL
===============================================================================
