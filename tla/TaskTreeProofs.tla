---------------------------- MODULE TaskTreeProofs ----------------------------
(***************************************************************************)
(* Proofs about TaskTree, for any tasks, cancellers and nesting of cleanup *)
(* sections: a scope counts its members, no join and no await is lost, a   *)
(* cancelled task is woken and its children follow it.                     *)
(***************************************************************************)
EXTENDS TaskTree, SequenceTheorems, FiniteSetTheorems, FunctionTheorems, TLAPS

-------------------------------------------------------------------------------
(* The inductive invariant *)

Entries(q) == {q[i] : i \in DOMAIN q}

(* A step of the cancel_task recursion. *)
Item == [do : {"visit", "mask", "kids", "wake"}, task : Tasks]

(* Something is still to be done by the cancel_task recursion of some actor. *)
Pend(what, t) == \E a \in Actors : Do(what, t) \in Entries(work[a])

Finishing == {"wakers", "leave", "done"}
Spawning == {"register", "regcheck", "queue"}

(* What the place of a task's body says about the rest of its state. *)
Places ==
  \A t \in Tasks :
    /\ pc[t] = "absent" => parent[t] = NoTask /\ \A u \in Tasks : parent[u] # t
    /\ pc[t] \in Spawning => making[t] \in Tasks /\ parent[making[t]] = t
    /\ pc[t] = "await" => awaited[t] \in Tasks
    /\ work[t] # <<>> => pc[t] \in {"run", "queue"}
    /\ finished[t] => pc[t] \in Finishing
    /\ toWake[t] # {} => pc[t] = "wakers"
    /\ freed[t] => pc[t] = "done"
    /\ scope[t] => ~Ended(t)

(* A joiner sleeps until its last child has taken it out of the nursery; from then  *)
(* on the child, or the wake it left, brings it back.                               *)
Joiners ==
  \A t \in Tasks : pc[t] = "join" =>
    \/ joiner[t] /\ live[t] > 0
    \/ owed[t]
    \/ \E u \in Tasks : pc[u] = "leave" /\ nursery[u] = t

(* An awaiter is on the handle's list until the handle is done, then on the list of *)
(* those to wake, then woken.                                                       *)
Awaiters ==
  \A t \in Tasks : pc[t] = "await" =>
    IF finished[awaited[t]] THEN owed[t] \/ t \in toWake[awaited[t]] ELSE t \in awaiters[awaited[t]]

(* A cancellation a blocked task has not been woken for is in somebody's recursion. *)
WakePending ==
  \A t \in Tasks : pc[t] = "block" /\ IsCancelled(t) =>
    owed[t] \/ Pend("mask", t) \/ Pend("wake", t)

(* A child is in its parent's list from the first step of register_child on. *)
Registered ==
  \A k \in Tasks : parent[k] \in Tasks =>
    \/ pc[parent[k]] = "register" /\ making[parent[k]] = k
    \/ k \in Entries(children[parent[k]])

(* A live child of a cancelled task is cancelled, or its parent has still to look   *)
(* at its own flag, or somebody has still to visit the child.                       *)
ChildPending ==
  \A k \in Tasks : parent[k] \in Tasks /\ IsCancelled(parent[k]) /\ ~Ended(parent[k]) =>
    \/ cancelled[k] \/ Ended(k)
    \/ pc[parent[k]] \in {"register", "regcheck"} /\ making[parent[k]] = k
    \/ pc[parent[k]] = "unmask"
    \/ Pend("mask", parent[k]) \/ Pend("kids", parent[k]) \/ Pend("visit", k)

IInv ==
  TypeOK /\ Places /\ ScopeCountsMembers /\ Joiners /\ Awaiters /\ WakePending /\ Registered /\ ChildPending

-------------------------------------------------------------------------------
(* Sequences *)

(* The entries of a sequence, by position. *)
LEMMA EntriesOf ==
  ASSUME NEW S, NEW q \in Seq(S)
  PROVE  /\ Len(q) \in Nat /\ DOMAIN q = 1..Len(q)
         /\ \A x : x \in Entries(q) <=> \E i \in 1..Len(q) : q[i] = x
         /\ Entries(q) \subseteq S
         /\ Entries(q) = {} => q = <<>>
         /\ Entries(<<>>) = {}
<1>1. Len(q) \in Nat /\ DOMAIN q = 1..Len(q) /\ \A i \in 1..Len(q) : q[i] \in S
  BY LenProperties, ElementOfSeq
<1>2. Entries(q) = {} => q = <<>>
  <2>1. q # <<>> => 1 \in 1..Len(q)
    BY EmptySeq
  <2> QED BY <1>1, <2>1 DEF Entries
<1>3. \A x : x \in Entries(q) <=> \E i \in 1..Len(q) : q[i] = x
  BY <1>1, Zenon DEF Entries
<1>4. Entries(<<>>) = {}
  BY DEF Entries
<1> QED BY <1>1, <1>2, <1>3, <1>4

(* The entries of two sequences in a row. *)
LEMMA ConcatEntries ==
  ASSUME NEW S, NEW p \in Seq(S), NEW q \in Seq(S)
  PROVE  p \o q \in Seq(S) /\ Entries(p \o q) = Entries(p) \cup Entries(q)
<1>1. /\ p \o q \in Seq(S) /\ Len(p \o q) = Len(p) + Len(q)
      /\ \A i \in 1..(Len(p) + Len(q)) : (p \o q)[i] = IF i <= Len(p) THEN p[i] ELSE q[i - Len(p)]
  BY ConcatProperties
<1>2. /\ Len(p) \in Nat /\ Len(q) \in Nat
      /\ \A y : y \in Entries(p) <=> \E i \in 1..Len(p) : p[i] = y
      /\ \A y : y \in Entries(q) <=> \E i \in 1..Len(q) : q[i] = y
      /\ \A y : y \in Entries(p \o q) <=> \E i \in 1..Len(p \o q) : (p \o q)[i] = y
  BY <1>1, EntriesOf, Zenon
<1>3. \A i \in 1..(Len(p) + Len(q)) :
        \/ i \in 1..Len(p) /\ (p \o q)[i] = p[i]
        \/ i - Len(p) \in 1..Len(q) /\ (p \o q)[i] = q[i - Len(p)]
  BY <1>1, <1>2
<1>4. \A i \in 1..Len(p) : i \in 1..(Len(p) + Len(q)) /\ (p \o q)[i] = p[i]
  BY <1>1, <1>2
<1>5. \A i \in 1..Len(q) : i + Len(p) \in 1..(Len(p) + Len(q)) /\ (p \o q)[i + Len(p)] = q[i]
  <2> TAKE i \in 1..Len(q)
  <2>1. i + Len(p) \in 1..(Len(p) + Len(q)) /\ ~(i + Len(p) <= Len(p)) /\ (i + Len(p)) - Len(p) = i
    BY <1>2
  <2> QED BY <1>1, <2>1
<1>6. Entries(p \o q) \subseteq Entries(p) \cup Entries(q)
  BY <1>2, <1>3
<1>7. Entries(p) \cup Entries(q) \subseteq Entries(p \o q)
  BY <1>2, <1>4, <1>5
<1> QED BY <1>1, <1>6, <1>7

(* Appending adds one entry. *)
LEMMA AppendEntries ==
  ASSUME NEW S, NEW q \in Seq(S), NEW x \in S
  PROVE  /\ Append(q, x) \in Seq(S)
         /\ Entries(Append(q, x)) = Entries(q) \cup {x}
<1>1. /\ Append(q, x) \in Seq(S)
      /\ Len(Append(q, x)) = Len(q) + 1
      /\ \A i \in 1..Len(q) : Append(q, x)[i] = q[i]
      /\ Append(q, x)[Len(q) + 1] = x
  BY AppendProperties
<1>2. /\ Len(q) \in Nat /\ \A y : y \in Entries(q) <=> \E i \in 1..Len(q) : q[i] = y
      /\ \A y : y \in Entries(Append(q, x)) <=> \E i \in 1..Len(Append(q, x)) : Append(q, x)[i] = y
  BY <1>1, EntriesOf, Zenon
<1>3. 1..(Len(q) + 1) = 1..Len(q) \cup {Len(q) + 1}
  BY <1>2
<1>4. Entries(Append(q, x)) = Entries(q) \cup {x}
  BY <1>1, <1>2, <1>3
<1> QED BY <1>1, <1>4

(* A sequence that is not empty holds its head and its tail. *)
LEMMA TailEntries ==
  ASSUME NEW S, NEW q \in Seq(S), q # <<>>
  PROVE  /\ Tail(q) \in Seq(S) /\ Len(Tail(q)) = Len(q) - 1 /\ Len(q) \in Nat \ {0}
         /\ Head(q) \in S /\ Entries(q) = {Head(q)} \cup Entries(Tail(q))
<1>1. /\ Tail(q) \in Seq(S) /\ Len(Tail(q)) = Len(q) - 1 /\ Head(q) \in S
      /\ \A i \in 1..Len(Tail(q)) : Tail(q)[i] = q[i + 1]
      /\ Len(q) \in Nat \ {0} /\ Head(q) = q[1]
  BY HeadTailProperties, EmptySeq
<1>2. /\ \A y : y \in Entries(q) <=> \E i \in 1..Len(q) : q[i] = y
      /\ \A y : y \in Entries(Tail(q)) <=> \E i \in 1..Len(Tail(q)) : Tail(q)[i] = y
  <2>1. \A y : y \in Entries(q) <=> \E i \in 1..Len(q) : q[i] = y
    BY EntriesOf, Zenon
  <2>2. \A y : y \in Entries(Tail(q)) <=> \E i \in 1..Len(Tail(q)) : Tail(q)[i] = y
    <3>1. Tail(q) \in Seq(S)
      BY <1>1
    <3> QED BY <3>1, EntriesOf, Zenon
  <2> QED BY <2>1, <2>2
<1>3. \A i \in 1..Len(q) : i = 1 \/ (i - 1 \in 1..(Len(q) - 1) /\ q[i] = Tail(q)[i - 1])
  BY <1>1
<1>4. \A i \in 1..(Len(q) - 1) : i + 1 \in 1..Len(q) /\ Tail(q)[i] = q[i + 1]
  BY <1>1
<1>5. 1 \in 1..Len(q)
  BY <1>1
<1>6. Entries(q) \subseteq {Head(q)} \cup Entries(Tail(q))
  BY <1>1, <1>2, <1>3
<1>7. {Head(q)} \cup Entries(Tail(q)) \subseteq Entries(q)
  BY <1>1, <1>2, <1>4, <1>5
<1> QED BY <1>1, <1>6, <1>7

(* What the snapshot of cancel_children visits: every child that is not freed. *)
LEMMA SnapshotVisits ==
  ASSUME NEW q \in Seq(Tasks)
  PROVE  /\ Snapshot(q) \in Seq(Item)
         /\ \A k \in Entries(q) : freed[k] \/ Do("visit", k) \in Entries(Snapshot(q))
<1> DEFINE held == {i \in DOMAIN q : ~freed[q[i]]}
           upto(i) == {j \in held : j <= i}
           Rank(i) == Cardinality(upto(i))
           N == Cardinality(held)
           at(n) == CHOOSE i \in held : Rank(i) = n
<1>1. /\ Len(q) \in Nat /\ DOMAIN q = 1..Len(q) /\ \A i \in 1..Len(q) : q[i] \in Tasks
      /\ \A k \in Entries(q) : \E i \in 1..Len(q) : q[i] = k
  BY EntriesOf, ElementOfSeq
<1>2. IsFiniteSet(held) /\ N \in Nat
  <2>1. IsFiniteSet(1..Len(q))
    BY <1>1, FS_Interval
  <2>2. held \in SUBSET (1..Len(q))
    BY <1>1
  <2> QED BY <2>1, <2>2, FS_Subset, FS_CardinalityType
<1>3. \A i \in held : Rank(i) \in 1..N
  <2> TAKE i \in held
  <2>1. upto(i) \in SUBSET held /\ i \in upto(i)
    BY <1>1
  <2>2. IsFiniteSet(upto(i)) /\ Rank(i) \in Nat /\ Rank(i) <= N
    BY <1>2, <2>1, FS_Subset, FS_CardinalityType
  <2>3. Rank(i) # 0
    BY <2>1, <2>2, FS_EmptySet
  <2> QED BY <1>2, <2>2, <2>3
<1>4. \A i, j \in held : i < j => Rank(i) < Rank(j)
  <2> TAKE i, j \in held
  <2> HAVE i < j
  <2>1. upto(i) \in SUBSET upto(j) /\ j \in upto(j) /\ j \notin upto(i) /\ upto(j) \in SUBSET held
    BY <1>1
  <2>2. IsFiniteSet(upto(j)) /\ upto(i) # upto(j)
    BY <1>2, <2>1, FS_Subset
  <2>3. Rank(i) <= Rank(j) /\ Rank(i) # Rank(j) /\ Rank(i) \in Nat /\ Rank(j) \in Nat
    BY <2>1, <2>2, FS_Subset, FS_CardinalityType
  <2> QED BY <2>3
<1>5. \A i, j \in held : Rank(i) = Rank(j) => i = j
  <2> TAKE i, j \in held
  <2>1. i < j \/ j < i \/ i = j
    BY <1>1
  <2> HIDE DEF held, Rank, N
  <2>2. Rank(i) \in Nat /\ Rank(j) \in Nat
    BY <1>2, <1>3
  <2> QED BY <1>4, <2>1, <2>2
<1>6. \A n \in 1..N : \E i \in held : Rank(i) = n
  <2> DEFINE f == [i \in held |-> Rank(i)]
  <2>1. f \in Injection(held, 1..N)
    <3>1. f \in [held -> 1..N] /\ \A i, j \in held : f[i] = f[j] => i = j
      <4> HIDE DEF held, Rank, N
      <4> QED BY <1>3, <1>5
    <3> HIDE DEF f
    <3> QED BY <3>1 DEF Injection, IsInjective
  <2>2. IsFiniteSet(1..N) /\ Cardinality(1..N) = N
    BY <1>2, FS_Interval
  <2>3. f \in Surjection(held, 1..N)
    BY <2>1, <2>2, FS_Injection
  <2> QED BY <2>3 DEF Surjection
<1>7. \A n \in 1..N : at(n) \in held /\ Rank(at(n)) = n
  BY <1>6
<1>8. \A i \in held : at(Rank(i)) = i
  BY <1>3, <1>5, <1>7
<1>9. Snapshot(q) = [n \in 1..N |-> Do("visit", q[at(n)])]
  BY DEF Snapshot
<1> HIDE DEF held, Rank, N, at
<1>10. \A n \in 1..N : Do("visit", q[at(n)]) \in Item
  BY <1>1, <1>7 DEF Do, Item, held
<1>11. Snapshot(q) \in Seq(Item)
  BY <1>2, <1>9, <1>10, IsASeq
<1>12. ASSUME NEW k \in Entries(q), ~freed[k] PROVE Do("visit", k) \in Entries(Snapshot(q))
  <2>1. PICK i \in held : q[i] = k
    BY <1>1, <1>12 DEF held
  <2>2. Rank(i) \in DOMAIN Snapshot(q) /\ Snapshot(q)[Rank(i)] = Do("visit", k)
    BY <1>3, <1>8, <1>9, <2>1
  <2> QED BY <2>2 DEF Entries
<1> QED BY <1>11, <1>12

-------------------------------------------------------------------------------
(* What most steps leave alone *)

(* What is pending is a matter of `work` alone. *)
LEMMA SamePending == ASSUME UNCHANGED work PROVE \A what, t : Pend(what, t)' <=> Pend(what, t)
BY DEF Pend

(* A body that moves on is still at one of the places. *)
LEMMA Moved ==
  ASSUME TypeOK, NEW t \in Tasks
  PROVE  /\ pc \in [Tasks -> PCs]
         /\ \A to \in {"run", "block", "join", "queue"} : [pc EXCEPT ![t] = to] \in [Tasks -> PCs]
<1>1. pc \in [Tasks -> PCs] /\ {"run", "block", "join", "queue"} \subseteq PCs
  BY DEF TypeOK, PCs
<1> QED BY <1>1

(* Where a task is neither waiting for another one nor about to end. *)
Plain == {"run", "regcheck", "queue", "fresh", "block", "unmask"}

(* A step within the plain places that takes no wake from a joiner or an awaiter    *)
(* leaves scopes, joins, awaits and the lists of children as they were.             *)
LEMMA Aside ==
  ASSUME IInv, TypeOK', UNCHANGED <<nursery, parent, children, live, joiner, handles>>,
         \A u \in Tasks : pc'[u] = pc[u] \/ (pc[u] \in Plain /\ pc'[u] \in Plain),
         \A u \in Tasks : pc[u] \in {"join", "await"} /\ owed[u] => owed'[u],
         \A u \in Tasks : pc[u] = "await" => awaited'[u] = awaited[u],
         \A u \in Tasks : pc[u] = "register" => making'[u] = making[u],
         \A u \in Tasks : scope[u] /\ live[u] > 0 => scope'[u]
  PROVE  ScopeCountsMembers' /\ Joiners' /\ Awaiters' /\ Registered'
<1> USE DEF IInv, Plain, handles
<1>1. ScopeCountsMembers'
  <2>1. ASSUME NEW n \in Tasks PROVE Members(n)' = Members(n)
    BY DEF Members
  <2> QED BY <2>1 DEF ScopeCountsMembers
<1>2. Joiners'
  <2> SUFFICES ASSUME NEW t \in Tasks, pc'[t] = "join"
               PROVE  \/ (joiner[t] /\ live[t] > 0) \/ owed'[t]
                      \/ \E u \in Tasks : pc'[u] = "leave" /\ nursery[u] = t
    BY DEF Joiners
  <2>1. pc[t] = "join" /\ \A u \in Tasks : pc[u] = "leave" => pc'[u] = "leave"
    OBVIOUS
  <2> QED BY <2>1 DEF Joiners
<1>3. Awaiters'
  BY DEF Awaiters
<1>4. Registered'
  BY DEF Registered
<1> QED BY <1>1, <1>2, <1>3, <1>4

-------------------------------------------------------------------------------
(* Cleanup sections and blocking operations *)

(* Entering and leaving cleanup sections: the outermost end goes on to look at the *)
(* flag.                                                                           *)
LEMMA CleanupStep ==
  ASSUME IInv, NEW t \in Tasks, EnterCleanup(t) \/ LeaveCleanup(t)
  PROVE  IInv'
<1> USE TreeAssumption DEF IInv
<1>0. /\ UNCHANGED <<making, awaited, nursery, parent, children, freed, scope, live, joiner, handles,
                     owed, cancelled, work>>
      /\ pc[t] = "run" /\ depth[t] \in Nat
      /\ \/ depth[t] < MaxDepth /\ depth' = [depth EXCEPT ![t] = @ + 1] /\ pc' = pc
         \/ depth[t] > 1 /\ depth' = [depth EXCEPT ![t] = @ - 1] /\ pc' = pc
         \/ depth[t] = 1 /\ depth' = [depth EXCEPT ![t] = @ - 1] /\ pc' = [pc EXCEPT ![t] = "unmask"]
            /\ work[t] = <<>>
  BY DEF EnterCleanup, LeaveCleanup, Running, Goto, flow, tree, join, TypeOK
<1>1. TypeOK'
  <2>0. /\ depth \in [Tasks -> 0..MaxDepth] /\ pc \in [Tasks -> PCs]
        /\ "unmask" \in PCs /\ depth[t] \in 0..MaxDepth
    BY DEF TypeOK, PCs
  <2>1. /\ depth[t] < MaxDepth => depth[t] + 1 \in 0..MaxDepth
        /\ depth[t] > 0 => depth[t] - 1 \in 0..MaxDepth
    BY <2>0
  <2>2. depth' \in [Tasks -> 0..MaxDepth]
    BY <1>0, <2>0, <2>1
  <2>3. pc' \in [Tasks -> PCs]
    BY <1>0, <2>0
  <2> QED BY <1>0, <2>2, <2>3 DEF TypeOK, handles
<1>2. Places'
  BY <1>0 DEF Places, TypeOK, Ended, Spawning, Finishing, handles
<1>3. ScopeCountsMembers' /\ Joiners' /\ Awaiters' /\ Registered'
  BY <1>0, <1>1, Aside DEF Plain, TypeOK
<1>4. WakePending'
  BY <1>0, SamePending DEF WakePending, IsCancelled, TypeOK
<1>5. ChildPending'
  <2>1. \A what, u : Pend(what, u)' <=> Pend(what, u)
    BY <1>0, SamePending
  <2>2. \A u \in Tasks : /\ Ended(u)' <=> Ended(u)
                         /\ pc[u] \in {"register", "regcheck", "unmask"} => pc'[u] = pc[u]
    BY <1>0 DEF Ended, TypeOK
  <2>3. \A u \in Tasks : IsCancelled(u)' /\ ~IsCancelled(u) => u = t /\ pc'[u] = "unmask"
    BY <1>0 DEF IsCancelled, TypeOK
  <2> SUFFICES ASSUME NEW k \in Tasks, NEW p \in Tasks, parent[k] = p, IsCancelled(p)', ~Ended(p)'
               PROVE  \/ cancelled[k] \/ Ended(k)'
                      \/ pc'[p] \in {"register", "regcheck"} /\ making[p] = k
                      \/ pc'[p] = "unmask"
                      \/ Pend("mask", p)' \/ Pend("kids", p)' \/ Pend("visit", k)'
    BY <1>0 DEF ChildPending, IsCancelled, Ended
  <2>4. ~Ended(p)
    BY <2>2
  <2>5. CASE IsCancelled(p)
    <3>1. \/ cancelled[k] \/ Ended(k)
          \/ pc[p] \in {"register", "regcheck"} /\ making[p] = k
          \/ pc[p] = "unmask"
          \/ Pend("mask", p) \/ Pend("kids", p) \/ Pend("visit", k)
      BY <2>4, <2>5 DEF ChildPending
    <3> QED BY <2>1, <2>2, <3>1
  <2> QED BY <2>3, <2>5
<1> QED BY <1>1, <1>2, <1>3, <1>4, <1>5

(* A blocking operation, its object becoming ready, and the first resumption. *)
LEMMA BlockStep ==
  ASSUME IInv, NEW t \in Tasks,
         Block(t) \/ Ready(t) \/ ResumeFresh(t) \/ ResumeBlock(t) \/ OpenScope(t)
  PROVE  IInv'
<1> USE DEF IInv
<1>0. /\ UNCHANGED <<making, awaited, nursery, parent, children, freed, live, joiner, handles,
                     cancelled, depth, work>>
      /\ \/ pc[t] = "run" /\ work[t] = <<>> /\ ~IsCancelled(t) /\ pc' = [pc EXCEPT ![t] = "block"]
            /\ UNCHANGED <<owed, scope>>
         \/ pc' = pc /\ owed' = [owed EXCEPT ![t] = TRUE] /\ UNCHANGED scope
         \/ /\ pc[t] \in {"fresh", "block"} /\ UNCHANGED scope
            /\ \E more \in BOOLEAN : owed' = [owed EXCEPT ![t] = more]
            /\ pc' = [pc EXCEPT ![t] = "run"] \/ (~IsCancelled(t) /\ pc' = [pc EXCEPT ![t] = "block"])
         \/ pc[t] = "run" /\ scope' = [scope EXCEPT ![t] = TRUE] /\ UNCHANGED <<pc, owed>>
  BY DEF Block, Ready, ResumeFresh, ResumeBlock, OpenScope, Answered, Running, Goto, Schedule,
         flow, tree, join
<1>1. TypeOK'
  <2>1. pc' \in [Tasks -> PCs]
    BY <1>0, Moved
  <2>2. owed' \in [Tasks -> BOOLEAN] /\ scope' \in [Tasks -> BOOLEAN]
    <3>1. owed \in [Tasks -> BOOLEAN] /\ scope \in [Tasks -> BOOLEAN]
      BY DEF TypeOK
    <3> QED BY <1>0, <3>1
  <2> QED BY <1>0, <2>1, <2>2 DEF TypeOK, handles
<1>2. Places'
  BY <1>0 DEF Places, TypeOK, Ended, Spawning, Finishing, handles
<1>3. ScopeCountsMembers' /\ Joiners' /\ Awaiters' /\ Registered'
  <2>1. pc \in [Tasks -> PCs] /\ owed \in [Tasks -> BOOLEAN] /\ scope \in [Tasks -> BOOLEAN]
    BY DEF TypeOK
  <2>2. \A u \in Tasks : pc'[u] = pc[u] \/ (pc[u] \in Plain /\ pc'[u] \in Plain)
    BY <1>0, <2>1 DEF Plain
  <2>3. \A u \in Tasks : pc[u] \in {"join", "await"} /\ owed[u] => owed'[u]
    BY <1>0, <2>1
  <2>4. \A u \in Tasks : scope[u] => scope'[u]
    BY <1>0, <2>1
  <2> QED BY <1>0, <1>1, <2>2, <2>3, <2>4, Aside
<1>4. WakePending'
  BY <1>0, SamePending DEF WakePending, IsCancelled, TypeOK
<1>5. ChildPending'
  BY <1>0, SamePending DEF ChildPending, IsCancelled, Ended, TypeOK
<1> QED BY <1>1, <1>2, <1>3, <1>4, <1>5

-------------------------------------------------------------------------------
(* Awaiting, joining and ending *)

(* A task registers with a handle that is not done; woken, it looks again. *)
LEMMA AwaitStep ==
  ASSUME IInv, NEW t \in Tasks, (\E h \in Tasks : Await(t, h)) \/ ResumeAwait(t)
  PROVE  IInv'
<1> USE DEF IInv
<1>0. UNCHANGED <<making, nursery, parent, children, freed, scope, live, joiner, finished, toWake,
                  cancelled, depth, work>>
  BY DEF Await, ResumeAwait, tree, join, handles
<1>1. CASE \E h \in Tasks : Await(t, h)
  <2>0. PICK h \in Tasks :
          /\ pc[t] = "run" /\ work[t] = <<>> /\ ~finished[h] /\ UNCHANGED owed
          /\ pc' = [pc EXCEPT ![t] = "await"] /\ awaited' = [awaited EXCEPT ![t] = h]
          /\ awaiters' = [awaiters EXCEPT ![h] = @ \cup {t}]
    BY <1>1 DEF Await, Running, StillRunning, Goto
  <2>1. TypeOK'
    BY <1>0, <2>0 DEF TypeOK, PCs
  <2>2. Places'
    BY <1>0, <2>0 DEF Places, TypeOK, Ended, Spawning, Finishing
  <2>3. ScopeCountsMembers'
    <3>1. ASSUME NEW n \in Tasks PROVE Members(n)' = Members(n)
      BY <1>0, <2>0 DEF Members, TypeOK
    <3> QED BY <1>0, <3>1 DEF ScopeCountsMembers
  <2>4. Joiners'
    BY <1>0, <2>0 DEF Joiners, TypeOK
  <2>5. Awaiters'
    BY <1>0, <2>0 DEF Awaiters, TypeOK
  <2>6. WakePending' /\ Registered'
    BY <1>0, <2>0, SamePending DEF WakePending, Registered, IsCancelled, TypeOK
  <2>7. ChildPending'
    BY <1>0, <2>0, SamePending DEF ChildPending, IsCancelled, Ended, TypeOK
  <2> QED BY <2>1, <2>2, <2>3, <2>4, <2>5, <2>6, <2>7
<1>2. CASE ResumeAwait(t)
  <2>0. PICK more \in BOOLEAN :
          /\ pc[t] = "await" /\ owed' = [owed EXCEPT ![t] = more] /\ UNCHANGED awaiters
          /\ \/ pc' = [pc EXCEPT ![t] = "run"] /\ awaited' = [awaited EXCEPT ![t] = NoTask]
             \/ ~finished[awaited[t]] /\ UNCHANGED <<pc, awaited>>
    BY <1>2 DEF ResumeAwait, Answered, Goto, handles
  <2>1. TypeOK'
    BY <1>0, <2>0 DEF TypeOK, PCs
  <2>2. Places'
    BY <1>0, <2>0 DEF Places, TypeOK, Ended, Spawning, Finishing
  <2>3. ScopeCountsMembers'
    <3>1. ASSUME NEW n \in Tasks PROVE Members(n)' = Members(n)
      BY <1>0, <2>0 DEF Members, TypeOK
    <3> QED BY <1>0, <3>1 DEF ScopeCountsMembers
  <2>4. Joiners'
    BY <1>0, <2>0 DEF Joiners, TypeOK
  <2>5. Awaiters'
    BY <1>0, <2>0 DEF Awaiters, TypeOK
  <2>6. WakePending' /\ Registered'
    BY <1>0, <2>0, SamePending DEF WakePending, Registered, IsCancelled, TypeOK
  <2>7. ChildPending'
    BY <1>0, <2>0, SamePending DEF ChildPending, IsCancelled, Ended, TypeOK
  <2> QED BY <2>1, <2>2, <2>3, <2>4, <2>5, <2>6, <2>7
<1> QED BY <1>1, <1>2

(* A turn of join's loop: the scope closes when it has no members left, else the   *)
(* joiner is registered.                                                           *)
LEMMA JoinStep ==
  ASSUME IInv, NEW t \in Tasks, Join(t) \/ ResumeJoin(t)
  PROVE  IInv'
<1> USE DEF IInv
<1>0. /\ UNCHANGED <<making, awaited, nursery, parent, children, freed, live, handles,
                     cancelled, depth, work>>
      /\ (pc[t] = "run" /\ work[t] = <<>> /\ scope[t]) \/ pc[t] = "join"
      /\ UNCHANGED owed \/ \E more \in BOOLEAN : owed' = [owed EXCEPT ![t] = more]
      /\ \/ live[t] = 0 /\ scope' = [scope EXCEPT ![t] = FALSE] /\ joiner' = [joiner EXCEPT ![t] = FALSE]
            /\ pc' = [pc EXCEPT ![t] = "run"]
         \/ live[t] # 0 /\ joiner' = [joiner EXCEPT ![t] = TRUE] /\ pc' = [pc EXCEPT ![t] = "join"]
            /\ UNCHANGED scope
  BY DEF Join, ResumeJoin, JoinTurn, Running, Answered, Goto, tree
<1>a. live[t] \in Nat /\ \A u \in Tasks : u # t => owed'[u] = owed[u]
  BY <1>0 DEF TypeOK
<1>1. TypeOK'
  <2>1. pc' \in [Tasks -> PCs]
    BY <1>0, Moved
  <2>2. owed' \in [Tasks -> BOOLEAN] /\ scope' \in [Tasks -> BOOLEAN] /\ joiner' \in [Tasks -> BOOLEAN]
    <3>1. owed \in [Tasks -> BOOLEAN] /\ scope \in [Tasks -> BOOLEAN] /\ joiner \in [Tasks -> BOOLEAN]
      BY DEF TypeOK
    <3>2. owed' \in [Tasks -> BOOLEAN]
      BY <1>0, <3>1
    <3> QED BY <1>0, <3>1, <3>2
  <2> QED BY <1>0, <2>1, <2>2 DEF TypeOK, handles
<1>2. Places'
  BY <1>0 DEF Places, TypeOK, Ended, Spawning, Finishing, handles
<1>3. ScopeCountsMembers'
  <2>1. ASSUME NEW n \in Tasks PROVE Members(n)' = Members(n)
    BY <1>0 DEF Members, TypeOK
  <2>2. \A n \in Tasks : scope'[n] = scope[n] \/ (n = t /\ live[n] = 0)
    BY <1>0 DEF TypeOK
  <2> QED BY <1>0, <2>1, <2>2 DEF ScopeCountsMembers
<1>4. Joiners'
  <2> SUFFICES ASSUME NEW u \in Tasks, pc'[u] = "join"
               PROVE  \/ (joiner'[u] /\ live[u] > 0) \/ owed'[u]
                      \/ \E v \in Tasks : pc'[v] = "leave" /\ nursery[v] = u
    BY <1>0 DEF Joiners
  <2>1. CASE u = t
    <3>1. live[t] # 0 /\ joiner'[t]
      BY <1>0, <2>1 DEF TypeOK
    <3> QED BY <1>a, <2>1, <3>1
  <2>2. CASE u # t
    <3>1. pc[u] = "join" /\ owed'[u] = owed[u] /\ joiner'[u] = joiner[u]
      BY <1>0, <1>a, <2>2 DEF TypeOK
    <3>2. \A v \in Tasks : pc[v] = "leave" => pc'[v] = "leave"
      BY <1>0 DEF TypeOK
    <3> QED BY <3>1, <3>2 DEF Joiners
  <2> QED BY <2>1, <2>2
<1>5. Awaiters'
  BY <1>0, <1>a DEF Awaiters, TypeOK, handles
<1>6. WakePending' /\ Registered'
  <2>1. pc \in [Tasks -> PCs]
    BY DEF TypeOK
  <2>2. \A u \in Tasks : pc[u] # pc'[u] => u = t /\ pc'[u] # "block" /\ pc[u] # "register"
    BY <1>0, <2>1
  <2>3. WakePending'
    BY <1>0, <1>a, <2>2, SamePending DEF WakePending, IsCancelled
  <2>4. Registered'
    BY <1>0, <2>2 DEF Registered
  <2> QED BY <2>3, <2>4
<1>7. ChildPending'
  <2>1. pc \in [Tasks -> PCs]
    BY DEF TypeOK
  <2>2. \A u \in Tasks : /\ Ended(u)' <=> Ended(u)
                         /\ pc[u] \in {"register", "regcheck", "unmask"} => pc'[u] = pc[u]
    BY <1>0, <2>1 DEF Ended
  <2>3. \A what, u : Pend(what, u)' <=> Pend(what, u)
    BY <1>0, SamePending
  <2> SUFFICES ASSUME NEW k \in Tasks, NEW p \in Tasks, parent[k] = p, IsCancelled(p), ~Ended(p)'
               PROVE  \/ cancelled[k] \/ Ended(k)'
                      \/ pc'[p] \in {"register", "regcheck"} /\ making[p] = k
                      \/ pc'[p] = "unmask"
                      \/ Pend("mask", p)' \/ Pend("kids", p)' \/ Pend("visit", k)'
    BY <1>0 DEF ChildPending, IsCancelled, Ended
  <2>4. ~Ended(p)
    BY <2>2
  <2>5. \/ cancelled[k] \/ Ended(k)
        \/ pc[p] \in {"register", "regcheck"} /\ making[p] = k
        \/ pc[p] = "unmask"
        \/ Pend("mask", p) \/ Pend("kids", p) \/ Pend("visit", k)
    BY <2>4 DEF ChildPending
  <2> QED BY <2>2, <2>3, <2>5
<1> QED BY <1>1, <1>2, <1>3, <1>4, <1>5, <1>6, <1>7

(* The body returns and takes its awaiters out of the handle. *)
LEMMA CompleteStep == ASSUME IInv, NEW t \in Tasks, Complete(t) PROVE IInv'
<1> USE DEF IInv
<1>0. /\ UNCHANGED <<making, awaited, nursery, parent, children, freed, scope, live, joiner, owed,
                     cancelled, depth, work>>
      /\ pc[t] = "run" /\ work[t] = <<>> /\ ~scope[t] /\ pc' = [pc EXCEPT ![t] = "wakers"]
      /\ finished' = [finished EXCEPT ![t] = TRUE]
      /\ toWake' = [toWake EXCEPT ![t] = awaiters[t]]
      /\ awaiters' = [awaiters EXCEPT ![t] = {}]
  BY DEF Complete, Running, Goto, tree, join
<1>1. TypeOK'
  BY <1>0 DEF TypeOK, PCs
<1>2. Places'
  BY <1>0 DEF Places, TypeOK, Ended, Spawning, Finishing
<1>3. ScopeCountsMembers'
  <2>1. ASSUME NEW n \in Tasks PROVE Members(n)' = Members(n)
    BY <1>0 DEF Members, TypeOK
  <2> QED BY <1>0, <2>1 DEF ScopeCountsMembers
<1>4. Joiners'
  BY <1>0 DEF Joiners, TypeOK
<1>5. Awaiters'
  <2> SUFFICES ASSUME NEW u \in Tasks, pc'[u] = "await"
               PROVE  IF finished'[awaited[u]] THEN owed[u] \/ u \in toWake'[awaited[u]]
                      ELSE u \in awaiters'[awaited[u]]
    BY <1>0 DEF Awaiters
  <2>0. pc[u] = "await" /\ ~finished[t]
    <3>1. pc \in [Tasks -> PCs]
      BY DEF TypeOK
    <3>2. pc[u] = "await"
      BY <1>0, <3>1
    <3> QED BY <1>0, <3>2 DEF Places, Finishing
  <2>1. pc[u] = "await" /\ awaited[u] \in Tasks /\ ~finished[t]
    BY <2>0 DEF Places
  <2>2. CASE awaited[u] = t
    BY <1>0, <2>1, <2>2 DEF Awaiters, TypeOK
  <2>3. CASE awaited[u] # t
    BY <1>0, <2>1, <2>3 DEF Awaiters, TypeOK
  <2> QED BY <2>2, <2>3
<1>6. WakePending' /\ Registered'
  BY <1>0, SamePending DEF WakePending, Registered, IsCancelled, TypeOK
<1>7. ChildPending'
  BY <1>0, SamePending DEF ChildPending, IsCancelled, Ended, TypeOK
<1> QED BY <1>1, <1>2, <1>3, <1>4, <1>5, <1>6, <1>7

(* The ended task wakes one of its awaiters. *)
LEMMA WakeAwaiterStep == ASSUME IInv, NEW t \in Tasks, NEW u \in Tasks, WakeAwaiter(t, u) PROVE IInv'
<1> USE DEF IInv
<1>0. /\ UNCHANGED <<pc, making, awaited, nursery, parent, children, freed, scope, live, joiner, finished,
                     awaiters, cancelled, depth, work>>
      /\ pc[t] = "wakers" /\ toWake' = [toWake EXCEPT ![t] = @ \ {u}]
      /\ owed' = [owed EXCEPT ![u] = TRUE]
  BY DEF WakeAwaiter, Schedule, flow, tree, join
<1>1. TypeOK'
  BY <1>0 DEF TypeOK
<1>2. Places'
  BY <1>0 DEF Places, TypeOK, Ended, Spawning, Finishing
<1>3. ScopeCountsMembers'
  BY <1>0 DEF ScopeCountsMembers, Members
<1>4. Joiners'
  BY <1>0 DEF Joiners, TypeOK
<1>5. Awaiters'
  BY <1>0 DEF Awaiters, Places, TypeOK
<1>6. WakePending' /\ Registered'
  BY <1>0, SamePending DEF WakePending, Registered, IsCancelled, TypeOK
<1>7. ChildPending'
  BY <1>0, SamePending DEF ChildPending, IsCancelled, Ended
<1> QED BY <1>1, <1>2, <1>3, <1>4, <1>5, <1>6, <1>7

(* The members of a nursery can be counted. *)
LEMMA MembersFinite == \A n : IsFiniteSet(Members(n)) /\ Cardinality(Members(n)) \in Nat
BY TreeAssumption, FS_Subset, FS_CardinalityType DEF Members

(* child_finished: one member less; the last one takes the joiner with it. *)
LEMMA ChildFinishedStep == ASSUME IInv, NEW t \in Tasks, ChildFinished(t) PROVE IInv'
<1> USE DEF IInv
<1>0. /\ UNCHANGED <<making, awaited, nursery, parent, children, freed, scope, handles, owed,
                     cancelled, depth, work>>
      /\ pc[t] = "wakers" /\ toWake[t] = {}
      /\ \/ nursery[t] = NoTask /\ pc' = [pc EXCEPT ![t] = "done"] /\ UNCHANGED <<live, joiner>>
         \/ /\ nursery[t] \in Tasks /\ live' = [live EXCEPT ![nursery[t]] = @ - 1]
            /\ live[nursery[t]] = 1 /\ joiner[nursery[t]]
            /\ joiner' = [joiner EXCEPT ![nursery[t]] = FALSE] /\ pc' = [pc EXCEPT ![t] = "leave"]
         \/ /\ nursery[t] \in Tasks /\ live' = [live EXCEPT ![nursery[t]] = @ - 1]
            /\ ~(live[nursery[t]] = 1 /\ joiner[nursery[t]])
            /\ UNCHANGED joiner /\ pc' = [pc EXCEPT ![t] = "done"]
  BY DEF ChildFinished, LastChild, Goto, tree, TypeOK
<1>m. ASSUME NEW n \in Tasks
      PROVE  Members(n)' = IF nursery[t] = n THEN Members(n) \ {t} ELSE Members(n)
  BY <1>0 DEF Members, TypeOK
<1>l. ASSUME NEW n \in Tasks, nursery[t] = n
      PROVE  live[n] \in Nat \ {0} /\ live'[n] = live[n] - 1 /\ live'[n] = Cardinality(Members(n)')
  <2>1. t \in Members(n) /\ live[n] = Cardinality(Members(n)) /\ n # NoTask
    BY <1>0, <1>l, TreeAssumption DEF Members, ScopeCountsMembers
  <2>2. /\ Cardinality(Members(n) \ {t}) = Cardinality(Members(n)) - 1
        /\ Cardinality(Members(n)) \in Nat \ {0}
    BY <2>1, MembersFinite, FS_RemoveElement, FS_EmptySet
  <2>3. live'[n] = live[n] - 1
    BY <1>0, <1>l, <2>1 DEF TypeOK
  <2> QED BY <1>m, <1>l, <2>1, <2>2, <2>3
<1>o. \A n \in Tasks : nursery[t] # n => live'[n] = live[n] /\ joiner'[n] = joiner[n]
  BY <1>0 DEF TypeOK
<1>1. TypeOK'
  <2>1. pc' \in [Tasks -> PCs] /\ joiner' \in [Tasks -> BOOLEAN]
    BY <1>0 DEF TypeOK, PCs
  <2>2. live' \in [Tasks -> Nat]
    <3>1. live \in [Tasks -> Nat] /\ \A n \in Tasks : live[n] \in Nat
      BY DEF TypeOK
    <3>2. ASSUME NEW n \in Tasks PROVE live'[n] \in Nat
      BY <1>l, <1>o, <3>1
    <3> QED BY <1>0, <3>1, <3>2
  <2> QED BY <1>0, <2>1, <2>2 DEF TypeOK, handles
<1>2. Places'
  BY <1>0 DEF Places, TypeOK, Ended, Spawning, Finishing, handles
<1>3. ScopeCountsMembers'
  <2> SUFFICES ASSUME NEW n \in Tasks
               PROVE  live'[n] = Cardinality(Members(n)') /\ (live'[n] > 0 => scope[n])
    BY <1>0 DEF ScopeCountsMembers
  <2>1. CASE nursery[t] = n
    BY <1>l, <2>1 DEF ScopeCountsMembers
  <2>2. CASE nursery[t] # n
    BY <1>m, <1>o, <2>2 DEF ScopeCountsMembers
  <2> QED BY <2>1, <2>2
<1>4. Joiners'
  <2> SUFFICES ASSUME NEW u \in Tasks, pc'[u] = "join"
               PROVE  \/ (joiner'[u] /\ live'[u] > 0) \/ owed[u]
                      \/ \E v \in Tasks : pc'[v] = "leave" /\ nursery[v] = u
    BY <1>0 DEF Joiners
  <2>1. pc[u] = "join" /\ \A v \in Tasks : pc[v] = "leave" => pc'[v] = "leave"
    BY <1>0 DEF TypeOK
  <2>2. CASE owed[u] \/ \E v \in Tasks : pc[v] = "leave" /\ nursery[v] = u
    BY <2>1, <2>2
  <2>3. CASE joiner[u] /\ live[u] > 0 /\ nursery[t] # u
    BY <1>o, <2>3
  <2>4. CASE joiner[u] /\ nursery[t] = u /\ live[u] = 1
    <3>1. pc'[t] = "leave"
      BY <1>0, <2>4, TreeAssumption DEF TypeOK
    <3> QED BY <2>4, <3>1
  <2>5. CASE joiner[u] /\ nursery[t] = u /\ live[u] # 1
    <3>1. joiner'[u]
      BY <1>0, <2>5, TreeAssumption
    <3> QED BY <1>l, <2>5, <3>1
  <2> QED BY <2>1, <2>2, <2>3, <2>4, <2>5 DEF Joiners
<1>5. Awaiters'
  BY <1>0 DEF Awaiters, TypeOK, handles
<1>6. WakePending' /\ Registered'
  BY <1>0, SamePending DEF WakePending, Registered, IsCancelled, TypeOK
<1>7. ChildPending'
  <2>1. pc \in [Tasks -> PCs]
    BY DEF TypeOK
  <2>2. \A u \in Tasks : /\ Ended(u) => Ended(u)'
                         /\ pc[u] \in {"register", "regcheck", "unmask"} => pc'[u] = pc[u]
    BY <1>0, <2>1 DEF Ended
  <2>3. \A what, u : Pend(what, u)' <=> Pend(what, u)
    BY <1>0, SamePending
  <2> SUFFICES ASSUME NEW k \in Tasks, NEW p \in Tasks, parent[k] = p, IsCancelled(p), ~Ended(p)'
               PROVE  \/ cancelled[k] \/ Ended(k)'
                      \/ pc'[p] \in {"register", "regcheck"} /\ making[p] = k
                      \/ pc'[p] = "unmask"
                      \/ Pend("mask", p)' \/ Pend("kids", p)' \/ Pend("visit", k)'
    BY <1>0 DEF ChildPending, IsCancelled, Ended
  <2>4. ~Ended(p)
    BY <2>2
  <2>5. \/ cancelled[k] \/ Ended(k)
        \/ pc[p] \in {"register", "regcheck"} /\ making[p] = k
        \/ pc[p] = "unmask"
        \/ Pend("mask", p) \/ Pend("kids", p) \/ Pend("visit", k)
    BY <2>4 DEF ChildPending
  <2> QED BY <2>2, <2>3, <2>5
<1> QED BY <1>1, <1>2, <1>3, <1>4, <1>5, <1>6, <1>7

(* The last child wakes the joiner it took. *)
LEMMA WakeJoinerStep == ASSUME IInv, NEW t \in Tasks, WakeJoiner(t) PROVE IInv'
<1> USE DEF IInv
<1>0. /\ UNCHANGED <<making, awaited, nursery, parent, children, freed, scope, live, joiner, handles,
                     cancelled, depth, work>>
      /\ pc[t] = "leave" /\ pc' = [pc EXCEPT ![t] = "done"]
      /\ owed' = [owed EXCEPT ![nursery[t]] = TRUE]
  BY DEF WakeJoiner, Schedule, Goto, tree, join
<1>a. \A u \in Tasks : owed[u] \/ nursery[t] = u => owed'[u]
  BY <1>0 DEF TypeOK
<1>1. TypeOK'
  BY <1>0 DEF TypeOK, PCs, handles
<1>2. Places'
  BY <1>0 DEF Places, TypeOK, Ended, Spawning, Finishing, handles
<1>3. ScopeCountsMembers'
  <2>1. ASSUME NEW n \in Tasks PROVE Members(n)' = Members(n)
    BY <1>0 DEF Members, TypeOK
  <2> QED BY <1>0, <2>1 DEF ScopeCountsMembers
<1>4. Joiners'
  <2> SUFFICES ASSUME NEW u \in Tasks, pc'[u] = "join"
               PROVE  \/ (joiner[u] /\ live[u] > 0) \/ owed'[u]
                      \/ \E v \in Tasks : pc'[v] = "leave" /\ nursery[v] = u
    BY <1>0 DEF Joiners
  <2>1. pc[u] = "join" /\ \A v \in Tasks : pc[v] = "leave" => v = t \/ pc'[v] = "leave"
    BY <1>0 DEF TypeOK
  <2> QED BY <1>a, <2>1 DEF Joiners
<1>5. Awaiters'
  BY <1>0, <1>a DEF Awaiters, TypeOK, handles
<1>6. WakePending' /\ Registered'
  BY <1>0, <1>a, SamePending DEF WakePending, Registered, IsCancelled, TypeOK
<1>7. ChildPending'
  BY <1>0, SamePending DEF ChildPending, IsCancelled, Ended, TypeOK
<1> QED BY <1>1, <1>2, <1>3, <1>4, <1>5, <1>6, <1>7

(* A freed task is done: nobody asks for the wakes it was owed. *)
LEMMA FreeStep == ASSUME IInv, NEW t \in Tasks, Free(t) PROVE IInv'
<1> USE DEF IInv
<1>0. /\ UNCHANGED <<pc, making, awaited, nursery, parent, children, scope, live, joiner, handles,
                     cancelled, depth, work>>
      /\ pc[t] = "done" /\ freed' = [freed EXCEPT ![t] = TRUE] /\ owed' = [owed EXCEPT ![t] = FALSE]
  BY DEF Free, flow, join
<1>1. TypeOK'
  BY <1>0 DEF TypeOK, handles
<1>2. Places'
  BY <1>0 DEF Places, TypeOK, Ended, Spawning, Finishing, handles
<1>3. ScopeCountsMembers' /\ Joiners' /\ Awaiters' /\ Registered'
  <2>1. pc \in [Tasks -> PCs] /\ owed \in [Tasks -> BOOLEAN] /\ scope \in [Tasks -> BOOLEAN]
    BY DEF TypeOK
  <2>2. \A u \in Tasks : pc[u] \in {"join", "await"} /\ owed[u] => owed'[u]
    BY <1>0, <2>1
  <2> QED BY <1>0, <1>1, <2>2, Aside
<1>4. WakePending'
  BY <1>0, SamePending DEF WakePending, IsCancelled, TypeOK
<1>5. ChildPending'
  BY <1>0, SamePending DEF ChildPending, IsCancelled, Ended, TypeOK
<1> QED BY <1>1, <1>2, <1>3, <1>4, <1>5

-------------------------------------------------------------------------------
(* Spawning *)

(* The scope a task is a member of is open. *)
LEMMA MemberScope ==
  ASSUME IInv, NEW t \in Tasks, pc[t] \notin {"absent", "leave", "done"}, nursery[t] \in Tasks
  PROVE  scope[nursery[t]]
<1>1. t \in Members(nursery[t])
  BY DEF Members
<1>2. live[nursery[t]] \in Nat /\ live[nursery[t]] # 0
  BY <1>1, MembersFinite, FS_EmptySet DEF IInv, TypeOK, ScopeCountsMembers
<1>3. live[nursery[t]] > 0
  BY <1>2
<1> QED BY <1>3 DEF IInv, ScopeCountsMembers

(* And so are those around it: the owner of an open scope has not ended.           *)
LEMMA ScopesAround ==
  ASSUME IInv, NEW t \in Tasks, pc[t] \notin {"absent", "leave", "done"}, NEW n \in Around(t)
  PROVE  n \in Tasks /\ scope[n]
<1> DEFINE S == {x \in Tasks : scope[x]} \cup {NoTask}
<1>1. nursery[t] \in S
  BY MemberScope DEF IInv, TypeOK
<1>2. ASSUME NEW x \in S \cap Tasks PROVE nursery[x] \in S
  <2>1. x \in Tasks /\ scope[x]
    BY TreeAssumption
  <2>2. pc[x] \notin {"absent", "leave", "done"}
    BY <2>1 DEF IInv, Places, Ended
  <2> QED BY <2>1, <2>2, MemberScope DEF IInv, TypeOK
<1>3. n \in Tasks /\ n \in S
  <2>1. S \in SUBSET (Tasks \cup {NoTask})
    OBVIOUS
  <2> HIDE DEF S
  <2> QED BY <1>1, <1>2, <2>1 DEF Around
<1> QED BY <1>3, TreeAssumption

(* The child is counted by the nursery before anything else; its parent has still  *)
(* to register it.                                                                 *)
LEMMA SpawnCountStep ==
  ASSUME IInv, NEW t \in Tasks, NEW k \in Tasks, NEW n \in Tasks, SpawnCount(t, k, n)
  PROVE  IInv'
<1> USE DEF IInv
<1>0. /\ UNCHANGED <<awaited, children, freed, scope, joiner, handles, owed, cancelled, depth, work>>
      /\ pc[t] = "run" /\ work[t] = <<>> /\ pc[k] = "absent" /\ k # t
      /\ (n = t /\ scope[t]) \/ n \in Around(t)
      /\ live' = [live EXCEPT ![n] = @ + 1]
      /\ nursery' = [nursery EXCEPT ![k] = n]
      /\ parent' = [parent EXCEPT ![k] = t]
      /\ making' = [making EXCEPT ![t] = k]
      /\ pc' = [pc EXCEPT ![t] = "register", ![k] = "fresh"]
  BY DEF SpawnCount, MaySpawnInto, Enrol, Running
<1>t. /\ pc'[t] = "register" /\ pc'[k] = "fresh" /\ \A u \in Tasks \ {t, k} : pc'[u] = pc[u]
      /\ making'[t] = k /\ \A u \in Tasks \ {t} : making'[u] = making[u]
      /\ parent'[k] = t /\ nursery'[k] = n
      /\ \A u \in Tasks \ {k} : parent'[u] = parent[u] /\ nursery'[u] = nursery[u]
  BY <1>0 DEF TypeOK
<1>l. live[n] \in Nat /\ live'[n] = live[n] + 1 /\ \A u \in Tasks \ {n} : live'[u] = live[u]
  BY <1>0 DEF TypeOK
<1>1. TypeOK'
  <2>1. pc' \in [Tasks -> PCs]
    BY <1>0 DEF TypeOK, PCs
  <2>2. live' \in [Tasks -> Nat]
    BY <1>0, <1>l DEF TypeOK
  <2>3. nursery' \in [Tasks -> Tasks \cup {NoTask}] /\ parent' \in [Tasks -> Tasks \cup {NoTask}]
        /\ making' \in [Tasks -> Tasks \cup {NoTask}]
    BY <1>0 DEF TypeOK
  <2> QED BY <1>0, <2>1, <2>2, <2>3 DEF TypeOK, handles
<1>2. Places'
  <2> SUFFICES ASSUME NEW u \in Tasks
               PROVE  /\ pc'[u] = "absent" => parent'[u] = NoTask /\ \A v \in Tasks : parent'[v] # u
                      /\ pc'[u] \in Spawning => making'[u] \in Tasks /\ parent'[making'[u]] = u
                      /\ pc'[u] = "await" => awaited[u] \in Tasks
                      /\ work[u] # <<>> => pc'[u] \in {"run", "queue"}
                      /\ finished[u] => pc'[u] \in Finishing
                      /\ toWake[u] # {} => pc'[u] = "wakers"
                      /\ freed[u] => pc'[u] = "done"
                      /\ scope[u] => ~Ended(u)'
    BY <1>0 DEF Places, handles
  <2>1. CASE u = t
    BY <1>0, <1>t, <2>1 DEF Places, Spawning, Finishing, Ended
  <2>2. CASE u = k
    BY <1>0, <1>t, <2>2 DEF Places, Spawning, Finishing, Ended
  <2>3. CASE u # t /\ u # k
    <3>1. pc'[u] = pc[u] /\ making'[u] = making[u]
      BY <1>t, <2>3
    <3>2. ASSUME pc[u] \in Spawning PROVE making[u] \in Tasks /\ parent'[making[u]] = u
      <4>1. making[u] \in Tasks /\ parent[making[u]] = u
        BY <3>2 DEF Places
      <4>2. making[u] # k
        BY <1>0, <4>1, TreeAssumption DEF Places
      <4> QED BY <1>t, <4>1, <4>2
    <3>3. ASSUME pc[u] = "absent" PROVE parent'[u] = NoTask /\ \A v \in Tasks : parent'[v] # u
      BY <1>t, <2>3, <3>3 DEF Places
    <3>4. Ended(u)' <=> Ended(u)
      BY <3>1 DEF Ended
    <3> QED BY <1>0, <3>1, <3>2, <3>3, <3>4 DEF Places
  <2> QED BY <2>1, <2>2, <2>3
<1>3. ScopeCountsMembers'
  <2>1. ASSUME NEW m \in Tasks PROVE Members(m)' = IF m = n THEN Members(m) \cup {k} ELSE Members(m)
    <3>1. \A u \in Tasks : u \in Members(m)' <=> u \in Members(m) \/ (u = k /\ m = n)
      <4>1. CASE m # n
        BY <1>0, <1>t, <4>1 DEF Members
      <4>2. CASE m = n
        BY <1>0, <1>t, <4>2 DEF Members
      <4> QED BY <4>1, <4>2
    <3>2. Members(m) \subseteq Tasks /\ Members(m)' \subseteq Tasks
      BY DEF Members
    <3> QED BY <3>1, <3>2
  <2>2. k \notin Members(n)
    BY <1>0 DEF Members
  <2>3. live'[n] = Cardinality(Members(n)')
    BY <1>l, <2>1, <2>2, MembersFinite, FS_AddElement DEF ScopeCountsMembers
  <2>4. scope[n]
    <3>1. CASE n \in Around(t)
      BY <1>0, <3>1, ScopesAround
    <3> QED BY <1>0, <3>1
  <2> QED BY <1>0, <1>l, <2>1, <2>3, <2>4 DEF ScopeCountsMembers
<1>4. Joiners'
  <2> SUFFICES ASSUME NEW u \in Tasks, pc'[u] = "join"
               PROVE  \/ (joiner[u] /\ live'[u] > 0) \/ owed[u]
                      \/ \E v \in Tasks : pc'[v] = "leave" /\ nursery'[v] = u
    BY <1>0 DEF Joiners
  <2>0. pc[u] = "join" /\ live[u] \in Nat
    BY <1>t DEF TypeOK
  <2>1. pc[u] = "join" /\ (live[u] > 0 => live'[u] > 0)
    BY <1>l, <2>0
  <2>2. \A v \in Tasks : pc[v] = "leave" => pc'[v] = "leave" /\ nursery'[v] = nursery[v]
    BY <1>0, <1>t
  <2> QED BY <2>1, <2>2 DEF Joiners
<1>5. Awaiters'
  BY <1>0, <1>t DEF Awaiters, handles
<1>6. WakePending'
  BY <1>0, <1>t, SamePending DEF WakePending, IsCancelled
<1>7. Registered'
  <2> SUFFICES ASSUME NEW u \in Tasks, NEW p \in Tasks, parent'[u] = p
               PROVE  (pc'[p] = "register" /\ making'[p] = u) \/ u \in Entries(children[p])
    BY <1>0 DEF Registered
  <2>1. CASE u = k
    BY <1>t, <2>1
  <2>2. CASE u # k
    <3>1. parent[u] = p /\ p # k
      BY <1>0, <1>t, <2>2 DEF Places
    <3>2. (pc[p] = "register" /\ making[p] = u) \/ u \in Entries(children[p])
      BY <3>1 DEF Registered
    <3> QED BY <1>0, <1>t, <3>1, <3>2
  <2> QED BY <2>1, <2>2
<1>8. ChildPending'
  <2> SUFFICES ASSUME NEW u \in Tasks, NEW p \in Tasks, parent'[u] = p, IsCancelled(p), ~Ended(p)'
               PROVE  \/ cancelled[u] \/ Ended(u)'
                      \/ pc'[p] \in {"register", "regcheck"} /\ making'[p] = u
                      \/ pc'[p] = "unmask"
                      \/ Pend("mask", p) \/ Pend("kids", p) \/ Pend("visit", u)
    BY <1>0, SamePending DEF ChildPending, IsCancelled, Ended
  <2>1. CASE u = k
    BY <1>t, <2>1
  <2>2. CASE u # k
    <3>1. parent[u] = p /\ p # k
      BY <1>0, <1>t, <2>2 DEF Places
    <3>2. ~Ended(p) /\ (Ended(u) => Ended(u)')
      BY <1>0, <1>t, <2>2, <3>1 DEF Ended
    <3>3. \/ cancelled[u] \/ Ended(u)
          \/ pc[p] \in {"register", "regcheck"} /\ making[p] = u
          \/ pc[p] = "unmask"
          \/ Pend("mask", p) \/ Pend("kids", p) \/ Pend("visit", u)
      BY <3>1, <3>2 DEF ChildPending
    <3> QED BY <1>0, <1>t, <3>1, <3>2, <3>3
  <2> QED BY <2>1, <2>2
<1> QED BY <1>1, <1>2, <1>3, <1>4, <1>5, <1>6, <1>7, <1>8

(* register_child puts the child into its parent's list, ... *)
LEMMA SpawnRegisterStep == ASSUME IInv, NEW t \in Tasks, SpawnRegister(t) PROVE IInv'
<1> USE DEF IInv
<1>0. /\ UNCHANGED <<making, awaited, nursery, parent, freed, scope, live, joiner, handles, owed,
                     cancelled, depth, work>>
      /\ pc[t] = "register" /\ pc' = [pc EXCEPT ![t] = "regcheck"]
      /\ children' = [children EXCEPT ![t] = Append(@, making[t])]
  BY DEF SpawnRegister, Goto, join
<1>k. /\ making[t] \in Tasks /\ parent[making[t]] = t /\ children[t] \in Seq(Tasks)
      /\ work[t] = <<>>
  BY <1>0 DEF Places, TypeOK, Spawning
<1>a. PICK q \in Seq(Tasks) : /\ q = Append(children[t], making[t])
                              /\ making[t] \in Entries(q) /\ Entries(children[t]) \subseteq Entries(q)
  BY <1>k, AppendEntries
<1>t. /\ pc'[t] = "regcheck" /\ \A u \in Tasks \ {t} : pc'[u] = pc[u]
      /\ children'[t] = q /\ \A u \in Tasks \ {t} : children'[u] = children[u]
  BY <1>0, <1>a DEF TypeOK
<1>1. TypeOK'
  <2>1. pc' \in [Tasks -> PCs] /\ children' \in [Tasks -> Seq(Tasks)]
    BY <1>0, <1>a DEF TypeOK, PCs
  <2> QED BY <1>0, <2>1 DEF TypeOK, handles
<1>2. Places'
  BY <1>0 DEF Places, TypeOK, Ended, Spawning, Finishing, handles
<1>3. ScopeCountsMembers'
  <2>1. ASSUME NEW n \in Tasks PROVE Members(n)' = Members(n)
    BY <1>0, <1>t DEF Members
  <2> QED BY <1>0, <2>1 DEF ScopeCountsMembers
<1>4. Joiners'
  BY <1>0, <1>t DEF Joiners
<1>5. Awaiters'
  BY <1>0, <1>t DEF Awaiters, handles
<1>6. WakePending'
  BY <1>0, <1>t, SamePending DEF WakePending, IsCancelled
<1>7. Registered'
  BY <1>0, <1>a, <1>t DEF Registered
<1>8. ChildPending'
  BY <1>0, <1>t, SamePending DEF ChildPending, IsCancelled, Ended
<1> QED BY <1>1, <1>2, <1>3, <1>4, <1>5, <1>6, <1>7, <1>8

(* ... and at last the child is queued to run. *)
LEMMA SpawnQueueStep == ASSUME IInv, NEW t \in Tasks, SpawnQueue(t) PROVE IInv'
<1> USE DEF IInv
<1>0. /\ UNCHANGED <<awaited, nursery, parent, children, freed, scope, live, joiner, handles,
                     cancelled, depth, work>>
      /\ pc[t] = "queue" /\ pc' = [pc EXCEPT ![t] = "run"]
      /\ making' = [making EXCEPT ![t] = NoTask]
      /\ owed' = [owed EXCEPT ![making[t]] = TRUE]
  BY DEF SpawnQueue, Schedule, Goto, tree, join
<1>1. TypeOK'
  <2>1. pc' \in [Tasks -> PCs]
    BY <1>0, Moved
  <2>2. making' \in [Tasks -> Tasks \cup {NoTask}] /\ owed' \in [Tasks -> BOOLEAN]
    BY <1>0 DEF TypeOK
  <2> QED BY <1>0, <2>1, <2>2 DEF TypeOK, handles
<1>2. Places'
  BY <1>0 DEF Places, TypeOK, Ended, Spawning, Finishing, handles
<1>3. ScopeCountsMembers' /\ Joiners' /\ Awaiters' /\ Registered'
  <2>1. pc \in [Tasks -> PCs] /\ owed \in [Tasks -> BOOLEAN] /\ scope \in [Tasks -> BOOLEAN]
    BY DEF TypeOK
  <2>2. \A u \in Tasks : pc'[u] = pc[u] \/ (pc[u] \in Plain /\ pc'[u] \in Plain)
    BY <1>0, <2>1 DEF Plain
  <2>3. \A u \in Tasks : owed[u] => owed'[u]
    BY <1>0, <2>1
  <2>4. \A u \in Tasks : pc[u] = "register" => making'[u] = making[u]
    BY <1>0 DEF TypeOK
  <2> QED BY <1>0, <1>1, <2>2, <2>3, <2>4, Aside
<1>4. WakePending'
  BY <1>0, SamePending DEF WakePending, IsCancelled, TypeOK
<1>5. ChildPending'
  BY <1>0, SamePending DEF ChildPending, IsCancelled, Ended, TypeOK
<1> QED BY <1>1, <1>2, <1>3, <1>4, <1>5

-------------------------------------------------------------------------------
(* The cancel_task recursion *)

(* An item names its step and its task. *)
LEMMA DoIs ==
  /\ \A w, v, t, u : Do(w, t) = Do(v, u) => w = v /\ t = u
  /\ \A x \in Item : x = Do(x.do, x.task)
BY DEF Do, Item

(* The entries of the short sequences the recursion is extended by. *)
LEMMA Short ==
  ASSUME NEW S, NEW x \in S
  PROVE  <<>> \in Seq(S) /\ <<x>> \in Seq(S) /\ Entries(<<>>) = {} /\ Entries(<<x>>) = {x}
<1>1. DOMAIN <<x>> = {1} /\ DOMAIN << >> = {}
  OBVIOUS
<1>2. <<>> \in Seq(S) /\ <<x>> \in Seq(S)
  OBVIOUS
<1> QED BY <1>1, <1>2 DEF Entries

(* An actor that does nothing starts a recursion. *)
LEMMA StartWork ==
  ASSUME TypeOK, NEW a \in Actors, work[a] = <<>>, NEW first \in Seq(Item),
         work' = [work EXCEPT ![a] = first]
  PROVE  /\ work' \in [Actors -> Seq(Item)]
         /\ \A b \in Actors : b # a => work'[b] = work[b]
         /\ \A what, t : Pend(what, t) => Pend(what, t)'
         /\ \A what, t : Do(what, t) \in Entries(first) => Pend(what, t)'
<1>1. work \in [Actors -> Seq(Item)]
  BY DEF TypeOK, Item
<1>2. work' \in [Actors -> Seq(Item)] /\ work'[a] = first /\ \A b \in Actors : b # a => work'[b] = work[b]
  BY <1>1
<1>3. Entries(work[a]) = {}
  BY EntriesOf
<1> QED BY <1>2, <1>3 DEF Pend

(* A step of the recursion: its head is done and replaced by what follows from it. *)
LEMMA ContinueWork ==
  ASSUME TypeOK, NEW a \in Actors, work[a] # <<>>, NEW first \in Seq(Item), Continue(a, first)
  PROVE  /\ work' \in [Actors -> Seq(Item)] /\ Todo(a) \in Item
         /\ \A b \in Actors : b # a => work'[b] = work[b]
         /\ \A what, t : Pend(what, t) => Pend(what, t)' \/ Do(what, t) = Todo(a)
         /\ \A what, t : Do(what, t) \in Entries(first) => Pend(what, t)'
<1>1. work \in [Actors -> Seq(Item)] /\ work[a] \in Seq(Item)
  BY DEF TypeOK, Item
<1>2. PICK rest \in Seq(Item) :
        /\ rest = Tail(work[a]) /\ Todo(a) \in Item
        /\ Entries(work[a]) = {Todo(a)} \cup Entries(rest)
  BY <1>1, TailEntries, Zenon DEF Todo
<1>3. PICK q \in Seq(Item) : q = first \o rest /\ Entries(q) = Entries(first) \cup Entries(rest)
  BY ConcatEntries
<1>4. work' = [work EXCEPT ![a] = q]
  BY <1>2, <1>3 DEF Continue
<1>5. work' \in [Actors -> Seq(Item)] /\ work'[a] = q /\ \A b \in Actors : b # a => work'[b] = work[b]
  BY <1>1, <1>4
<1> QED BY <1>2, <1>3, <1>5 DEF Pend

(* cancel_handle: the actor will visit the task. *)
LEMMA CancelHandleStep ==
  ASSUME IInv, NEW a \in Cancellers, NEW t \in Tasks, CancelHandle(a, t)
  PROVE  IInv'
<1> USE DEF IInv
<1>0. /\ UNCHANGED <<pc, making, awaited, nursery, parent, children, freed, scope, live, joiner, handles,
                     owed, cancelled, depth>>
      /\ work[a] = <<>> /\ work' = [work EXCEPT ![a] = <<Do("visit", t)>>]
      /\ a \in Actors /\ (a \in Tasks => pc[a] = "run")
  BY TreeAssumption DEF CancelHandle, flow, tree, join, Actors
<1>w. PICK first \in Seq(Item) : first = <<Do("visit", t)>>
  <2>1. Do("visit", t) \in Item
    BY DEF Do, Item
  <2> QED BY <2>1, Short
<1>p. /\ work' \in [Actors -> Seq(Item)] /\ \A b \in Actors : b # a => work'[b] = work[b]
      /\ \A what, u : Pend(what, u) => Pend(what, u)'
  BY <1>0, <1>w, StartWork
<1>1. TypeOK'
  BY <1>0, <1>p DEF TypeOK, Item, handles
<1>2. Places'
  BY <1>0, <1>p DEF Places, Actors, Ended, handles
<1>3. ScopeCountsMembers' /\ Joiners' /\ Awaiters' /\ Registered'
  BY <1>0, <1>1, Aside
<1>4. WakePending' /\ ChildPending'
  BY <1>0, <1>p DEF WakePending, ChildPending, IsCancelled, Ended
<1> QED BY <1>1, <1>2, <1>3, <1>4

(* The end of register_child, and of a cleanup section: a cancelled task goes on to *)
(* its new child, or to all of its children.                                        *)
LEMMA FlagStep == ASSUME IInv, NEW t \in Tasks, SpawnCheck(t) \/ Unmask(t) PROVE IInv'
<1> USE DEF IInv
<1>0. /\ UNCHANGED <<making, awaited, nursery, parent, children, freed, scope, live, joiner, handles,
                     owed, cancelled, depth>>
      /\ t \in Actors
      /\ \/ /\ pc[t] = "regcheck" /\ pc' = [pc EXCEPT ![t] = "queue"]
            /\ work' = [work EXCEPT ![t] = IF IsCancelled(t) THEN <<Do("visit", making[t])>> ELSE <<>>]
         \/ /\ pc[t] = "unmask" /\ pc' = [pc EXCEPT ![t] = "run"]
            /\ work' = [work EXCEPT ![t] = IF cancelled[t] THEN <<Do("kids", t)>> ELSE <<>>]
  BY DEF SpawnCheck, Unmask, BornCancelled, MaskedCancel, Goto, flow, tree, join, Actors
<1>k. /\ work[t] = <<>> /\ pc[t] \in {"regcheck", "unmask"}
      /\ pc[t] = "regcheck" => making[t] \in Tasks
  BY <1>0 DEF Places, Spawning
<1>w. PICK first \in Seq(Item) :
        /\ work' = [work EXCEPT ![t] = first]
        /\ IsCancelled(t) /\ pc[t] = "regcheck" => Do("visit", making[t]) \in Entries(first)
        /\ cancelled[t] /\ pc[t] = "unmask" => Do("kids", t) \in Entries(first)
  <2>1. CASE pc[t] = "regcheck"
    <3>1. Do("visit", making[t]) \in Item
      BY <1>k, <2>1 DEF Do, Item
    <3> QED BY <1>0, <2>1, <3>1, Short
  <2>2. CASE pc[t] = "unmask"
    <3>1. Do("kids", t) \in Item
      BY DEF Do, Item
    <3> QED BY <1>0, <2>2, <3>1, Short
  <2> QED BY <1>k, <2>1, <2>2
<1>p. /\ work' \in [Actors -> Seq(Item)] /\ \A b \in Actors : b # t => work'[b] = work[b]
      /\ \A what, u : Pend(what, u) => Pend(what, u)'
      /\ \A what, u : Do(what, u) \in Entries(first) => Pend(what, u)'
  BY <1>0, <1>k, <1>w, StartWork
<1>t. /\ pc'[t] \in {"run", "queue"} /\ \A u \in Tasks \ {t} : pc'[u] = pc[u]
      /\ pc'[t] = "queue" <=> pc[t] = "regcheck"
  BY <1>0 DEF TypeOK
<1>1. TypeOK'
  <2>1. pc' \in [Tasks -> PCs]
    BY <1>0, Moved
  <2> QED BY <1>0, <1>p, <2>1 DEF TypeOK, Item, handles
<1>2. Places'
  BY <1>0, <1>k, <1>p, <1>t DEF Places, Actors, Ended, Spawning, Finishing, handles
<1>3. ScopeCountsMembers' /\ Joiners' /\ Awaiters' /\ Registered'
  BY <1>0, <1>1, Aside DEF Plain, TypeOK
<1>4. WakePending'
  BY <1>0, <1>p, <1>t DEF WakePending, IsCancelled
<1>5. ChildPending'
  <2> SUFFICES ASSUME NEW k \in Tasks, NEW p \in Tasks, parent[k] = p, IsCancelled(p), ~Ended(p)'
               PROVE  \/ cancelled[k] \/ Ended(k)'
                      \/ pc'[p] \in {"register", "regcheck"} /\ making[p] = k
                      \/ pc'[p] = "unmask"
                      \/ Pend("mask", p)' \/ Pend("kids", p)' \/ Pend("visit", k)'
    BY <1>0 DEF ChildPending, IsCancelled, Ended
  <2>1. \A u \in Tasks : Ended(u)' <=> Ended(u)
    BY <1>k, <1>t DEF Ended
  <2>2. \/ cancelled[k] \/ Ended(k)
        \/ pc[p] \in {"register", "regcheck"} /\ making[p] = k
        \/ pc[p] = "unmask"
        \/ Pend("mask", p) \/ Pend("kids", p) \/ Pend("visit", k)
    BY <2>1 DEF ChildPending
  <2>3. p = t /\ pc[p] = "regcheck" /\ making[p] = k => Pend("visit", k)'
    BY <1>w, <1>p
  <2>4. p = t /\ pc[p] = "unmask" => Pend("kids", p)'
    BY <1>w, <1>p DEF IsCancelled
  <2> QED BY <1>k, <1>p, <1>t, <2>1, <2>2, <2>3, <2>4
<1> QED BY <1>1, <1>2, <1>3, <1>4, <1>5

(* A step of the recursion changes flags and wakes only; what it must still bring   *)
(* about is what WakePending and ChildPending say.                                  *)
LEMMA RecursionStep ==
  ASSUME IInv, NEW a \in Actors, work[a] # <<>>, work' \in [Actors -> Seq(Item)],
         \A b \in Actors : b # a => work'[b] = work[b],
         UNCHANGED <<flow, tree, join, handles, depth>>,
         cancelled' \in [Tasks -> BOOLEAN], owed' \in [Tasks -> BOOLEAN],
         \A u \in Tasks : owed[u] => owed'[u],
         WakePending', ChildPending'
  PROVE  IInv'
<1> USE DEF IInv, flow, tree, join, handles
<1>1. TypeOK'
  BY DEF TypeOK, Item
<1>2. Places'
  <2>1. \A u \in Tasks : work'[u] # <<>> => work[u] # <<>>
    BY DEF Actors
  <2> QED BY <2>1 DEF Places, Ended
<1>3. ScopeCountsMembers' /\ Joiners' /\ Awaiters' /\ Registered'
  BY <1>1, Aside
<1> QED BY <1>1, <1>2, <1>3

(* The item at the head of the recursion. *)
LEMMA HeadIs ==
  ASSUME TypeOK, NEW a \in Actors, NEW what, Pending(a, what)
  PROVE  /\ work[a] # <<>> /\ Todo(a).task \in Tasks /\ Todo(a) = Do(what, Todo(a).task)
<1>1. work[a] \in Seq(Item) /\ work[a] # <<>> /\ Todo(a).do = what
  BY DEF TypeOK, Item, Pending
<1>2. Todo(a) \in Item
  BY <1>1, TailEntries DEF Todo
<1> QED BY <1>1, <1>2, DoIs DEF Item

(* cancelled.swap(true) *)
LEMMA CancelSwapStep == ASSUME IInv, NEW a \in Actors, CancelSwap(a) PROVE IInv'
<1> USE DEF IInv
<1>0. PICK t \in Tasks : t = Todo(a).task /\ work[a] # <<>> /\ Todo(a) = Do("visit", t)
  BY HeadIs DEF CancelSwap
<1>1. /\ UNCHANGED <<flow, tree, join, handles, owed, depth>>
      /\ cancelled' = [cancelled EXCEPT ![t] = TRUE]
      /\ Continue(a, IF cancelled[t] THEN <<>> ELSE <<Do("mask", t)>>)
  BY <1>0 DEF CancelSwap
<1>2. PICK first \in Seq(Item) : /\ Continue(a, first)
                                 /\ cancelled[t] \/ Do("mask", t) \in Entries(first)
  <2>1. Do("mask", t) \in Item
    BY DEF Do, Item
  <2>2. <<>> \in Seq(Item) /\ <<Do("mask", t)>> \in Seq(Item)
        /\ Do("mask", t) \in Entries(<<Do("mask", t)>>)
    BY <2>1, Short
  <2>3. CASE cancelled[t]
    BY <1>1, <2>2, <2>3, Zenon
  <2>4. CASE ~cancelled[t]
    BY <1>1, <2>2, <2>4, Zenon
  <2> QED BY <2>3, <2>4
<1>3. /\ work' \in [Actors -> Seq(Item)] /\ \A b \in Actors : b # a => work'[b] = work[b]
      /\ \A what, u : Pend(what, u) => Pend(what, u)' \/ Do(what, u) = Do("visit", t)
      /\ \A what, u : Do(what, u) \in Entries(first) => Pend(what, u)'
  BY <1>0, <1>2, ContinueWork
<1>4. /\ cancelled'[t] /\ \A u \in Tasks : cancelled[u] => cancelled'[u]
      /\ \A u \in Tasks : cancelled'[u] => cancelled[u] \/ (u = t /\ Pend("mask", t)')
      /\ \A u \in Tasks : /\ Pend("mask", u) => Pend("mask", u)'
                          /\ Pend("wake", u) => Pend("wake", u)'
                          /\ Pend("kids", u) => Pend("kids", u)'
                          /\ Pend("visit", u) => Pend("visit", u)' \/ u = t
  BY <1>1, <1>2, <1>3, DoIs DEF TypeOK
<1>5. WakePending'
  BY <1>1, <1>4 DEF WakePending, IsCancelled, flow
<1>6. ChildPending'
  BY <1>1, <1>4 DEF ChildPending, IsCancelled, Ended, flow, tree
<1>7. cancelled' \in [Tasks -> BOOLEAN] /\ owed' \in [Tasks -> BOOLEAN]
  BY <1>1 DEF TypeOK
<1> QED BY <1>0, <1>1, <1>3, <1>5, <1>6, <1>7, RecursionStep

(* The mask: outside a cleanup section the recursion goes on to the children. *)
LEMMA CancelMaskStep == ASSUME IInv, NEW a \in Actors, CancelMask(a) PROVE IInv'
<1> USE DEF IInv
<1>0. PICK t \in Tasks : t = Todo(a).task /\ work[a] # <<>> /\ Todo(a) = Do("mask", t)
  BY HeadIs DEF CancelMask
<1>1. /\ UNCHANGED <<flow, tree, join, handles, owed, cancelled, depth>>
      /\ Continue(a, IF depth[t] # 0 THEN <<>> ELSE <<Do("kids", t), Do("wake", t)>>)
  BY <1>0 DEF CancelMask, Propagate
<1>2. PICK first \in Seq(Item) :
        /\ Continue(a, first)
        /\ depth[t] # 0 \/ (Do("kids", t) \in Entries(first) /\ Do("wake", t) \in Entries(first))
  <2>1. PICK x \in Item, y \in Item : x = Do("kids", t) /\ y = Do("wake", t)
    BY DEF Do, Item
  <2>2. <<>> \in Seq(Item) /\ <<x, y>> \in Seq(Item) /\ Entries(<<x, y>>) = {x, y}
    <3>1. <<>> \in Seq(Item) /\ <<x, y>> \in Seq(Item)
      OBVIOUS
    <3>2. Entries(<<x, y>>) = {x, y}
      <4>1. DOMAIN <<x, y>> = {1, 2}
        OBVIOUS
      <4> QED BY <4>1 DEF Entries
    <3> QED BY <3>1, <3>2
  <2>3. CASE depth[t] # 0
    BY <1>1, <2>2, <2>3, Zenon
  <2>4. CASE depth[t] = 0
    <3>1. PICK q \in Seq(Item) : q = <<x, y>> /\ x \in Entries(q) /\ y \in Entries(q)
      BY <2>2
    <3>2. Continue(a, q)
      BY <1>1, <2>1, <2>4, <3>1, Zenon
    <3> QED BY <2>1, <3>1, <3>2
  <2> QED BY <2>3, <2>4
<1>3. /\ work' \in [Actors -> Seq(Item)] /\ \A b \in Actors : b # a => work'[b] = work[b]
      /\ \A what, u : Pend(what, u) => Pend(what, u)' \/ Do(what, u) = Do("mask", t)
      /\ \A what, u : Do(what, u) \in Entries(first) => Pend(what, u)'
  BY <1>0, <1>2, ContinueWork
<1>4. /\ depth[t] = 0 => Pend("kids", t)' /\ Pend("wake", t)'
      /\ \A u \in Tasks : /\ Pend("mask", u) => Pend("mask", u)' \/ u = t
                          /\ Pend("wake", u) => Pend("wake", u)'
                          /\ Pend("kids", u) => Pend("kids", u)'
                          /\ Pend("visit", u) => Pend("visit", u)'
  BY <1>2, <1>3, DoIs
<1>5. WakePending'
  BY <1>1, <1>4 DEF WakePending, IsCancelled, flow
<1>6. ChildPending'
  BY <1>1, <1>4 DEF ChildPending, IsCancelled, Ended, flow, tree
<1>7. cancelled' \in [Tasks -> BOOLEAN] /\ owed' \in [Tasks -> BOOLEAN]
  BY <1>1 DEF TypeOK
<1> QED BY <1>0, <1>1, <1>3, <1>5, <1>6, <1>7, RecursionStep

(* cancel_children: every child that can still be live is visited. *)
LEMMA CancelKidsStep == ASSUME IInv, NEW a \in Actors, CancelKids(a) PROVE IInv'
<1> USE DEF IInv
<1>0. PICK t \in Tasks : t = Todo(a).task /\ work[a] # <<>> /\ Todo(a) = Do("kids", t)
  BY HeadIs DEF CancelKids
<1>1. /\ UNCHANGED <<flow, tree, join, handles, owed, cancelled, depth>>
      /\ Continue(a, Snapshot(children[t]))
  BY <1>0 DEF CancelKids
<1>2. PICK first \in Seq(Item) :
        /\ Continue(a, first)
        /\ \A k \in Entries(children[t]) : freed[k] \/ Do("visit", k) \in Entries(first)
  <2>1. children[t] \in Seq(Tasks)
    BY DEF TypeOK
  <2> QED BY <1>1, <2>1, SnapshotVisits
<1>3. /\ work' \in [Actors -> Seq(Item)] /\ \A b \in Actors : b # a => work'[b] = work[b]
      /\ \A what, u : Pend(what, u) => Pend(what, u)' \/ Do(what, u) = Do("kids", t)
      /\ \A what, u : Do(what, u) \in Entries(first) => Pend(what, u)'
  BY <1>0, <1>2, ContinueWork
<1>4. /\ \A k \in Entries(children[t]) : freed[k] \/ Pend("visit", k)'
      /\ \A u \in Tasks : /\ Pend("mask", u) => Pend("mask", u)'
                          /\ Pend("wake", u) => Pend("wake", u)'
                          /\ Pend("kids", u) => Pend("kids", u)' \/ u = t
                          /\ Pend("visit", u) => Pend("visit", u)'
  BY <1>2, <1>3, DoIs
<1>5. WakePending'
  BY <1>1, <1>4 DEF WakePending, IsCancelled, flow
<1>6. ChildPending'
  <2>1. \A k \in Tasks : freed[k] => Ended(k)
    BY DEF Places, Ended
  <2>2. \A k \in Tasks : parent[k] = t =>
          (pc[t] = "register" /\ making[t] = k) \/ freed[k] \/ Pend("visit", k)'
    BY <1>4 DEF Registered
  <2> QED BY <1>1, <1>4, <2>1, <2>2 DEF ChildPending, IsCancelled, Ended, flow, tree
<1>7. cancelled' \in [Tasks -> BOOLEAN] /\ owed' \in [Tasks -> BOOLEAN]
  BY <1>1 DEF TypeOK
<1> QED BY <1>0, <1>1, <1>3, <1>5, <1>6, <1>7, RecursionStep

(* The wake at the end of cancel_task. *)
LEMMA CancelWakeStep == ASSUME IInv, NEW a \in Actors, CancelWake(a) PROVE IInv'
<1> USE DEF IInv
<1>0. PICK t \in Tasks : t = Todo(a).task /\ work[a] # <<>> /\ Todo(a) = Do("wake", t)
  BY HeadIs DEF CancelWake
<1>1. /\ UNCHANGED <<flow, tree, join, handles, cancelled, depth>>
      /\ owed' = [owed EXCEPT ![t] = TRUE] /\ Continue(a, <<>>)
  BY <1>0 DEF CancelWake, Schedule
<1>2. <<>> \in Seq(Item)
  OBVIOUS
<1>3. /\ work' \in [Actors -> Seq(Item)] /\ \A b \in Actors : b # a => work'[b] = work[b]
      /\ \A what, u : Pend(what, u) => Pend(what, u)' \/ Do(what, u) = Do("wake", t)
  BY <1>0, <1>1, <1>2, ContinueWork
<1>4. /\ owed'[t] /\ \A u \in Tasks : owed[u] => owed'[u]
      /\ \A u \in Tasks : /\ Pend("mask", u) => Pend("mask", u)'
                          /\ Pend("wake", u) => Pend("wake", u)' \/ u = t
                          /\ Pend("kids", u) => Pend("kids", u)'
                          /\ Pend("visit", u) => Pend("visit", u)'
  BY <1>1, <1>3, DoIs DEF TypeOK
<1>5. WakePending'
  BY <1>1, <1>4 DEF WakePending, IsCancelled, flow
<1>6. ChildPending'
  BY <1>1, <1>4 DEF ChildPending, IsCancelled, Ended, flow, tree
<1>7. cancelled' \in [Tasks -> BOOLEAN] /\ owed' \in [Tasks -> BOOLEAN]
  BY <1>1 DEF TypeOK
<1> QED BY <1>0, <1>1, <1>3, <1>4, <1>5, <1>6, <1>7, RecursionStep

-------------------------------------------------------------------------------
(* The theorems *)

(* The invariant holds initially: there is only the root, which is fresh. *)
LEMMA IInvInit == Init => IInv
<1> SUFFICES ASSUME Init PROVE IInv
  OBVIOUS
<1> USE TreeAssumption DEF Init
<1>1. TypeOK
  <2>1. /\ pc \in [Tasks -> PCs] /\ making \in [Tasks -> Tasks \cup {NoTask}]
        /\ awaited \in [Tasks -> Tasks \cup {NoTask}] /\ nursery \in [Tasks -> Tasks \cup {NoTask}]
        /\ parent \in [Tasks -> Tasks \cup {NoTask}]
    BY DEF PCs
  <2>2. /\ scope \in [Tasks -> BOOLEAN] /\ joiner \in [Tasks -> BOOLEAN] /\ finished \in [Tasks -> BOOLEAN]
        /\ owed \in [Tasks -> BOOLEAN] /\ cancelled \in [Tasks -> BOOLEAN] /\ freed \in [Tasks -> BOOLEAN]
    OBVIOUS
  <2>3. /\ live \in [Tasks -> Nat] /\ depth \in [Tasks -> 0..MaxDepth]
        /\ awaiters \in [Tasks -> SUBSET Tasks] /\ toWake \in [Tasks -> SUBSET Tasks]
    OBVIOUS
  <2>4. children \in [Tasks -> Seq(Tasks)] /\ work \in [Actors -> Seq(Item)]
    <3>1. <<>> \in Seq(Tasks) /\ <<>> \in Seq(Item)
      OBVIOUS
    <3> QED BY <3>1
  <2> QED BY <2>1, <2>2, <2>3, <2>4 DEF TypeOK, Item
<1>2. Places
  BY DEF Places, Ended, Spawning, Finishing, Actors
<1>3. ScopeCountsMembers
  <2>1. \A n \in Tasks : Members(n) = {}
    BY DEF Members
  <2>2. Cardinality({}) = 0 /\ \A n \in Tasks : live[n] = 0
    BY FS_EmptySet
  <2> HIDE DEF Init
  <2> QED BY <2>1, <2>2 DEF ScopeCountsMembers
<1>4. Joiners /\ Awaiters /\ WakePending /\ Registered /\ ChildPending
  BY DEF Joiners, Awaiters, WakePending, Registered, ChildPending, IsCancelled
<1> QED BY <1>1, <1>2, <1>3, <1>4 DEF IInv

(* Every step preserves the invariant. *)
LEMMA IInvStep == IInv /\ [Next]_vars => IInv'
<1> SUFFICES ASSUME IInv, [Next]_vars PROVE IInv'
  OBVIOUS
<1>1. CASE UNCHANGED vars
  <2>1. UNCHANGED <<flow, tree, join, handles, owed, cancelled, depth, work>>
    BY <1>1 DEF vars
  <2>2. TypeOK'
    BY <2>1 DEF IInv, TypeOK, flow, tree, join, handles
  <2>3. Places'
    BY <2>1 DEF IInv, Places, Ended, flow, tree, join, handles
  <2>4. ScopeCountsMembers' /\ Joiners' /\ Awaiters' /\ Registered'
    BY <2>1, <2>2, Aside DEF flow, tree, join
  <2>5. WakePending' /\ ChildPending'
    BY <2>1, SamePending DEF IInv, WakePending, ChildPending, IsCancelled, Ended, flow, tree
  <2> QED BY <2>2, <2>3, <2>4, <2>5 DEF IInv
<1>2. ASSUME NEW a \in Actors, CancelStep(a) PROVE IInv'
  BY <1>2, CancelSwapStep, CancelMaskStep, CancelKidsStep, CancelWakeStep DEF CancelStep
<1>3. ASSUME NEW t \in Tasks, ForcedStep(t) PROVE IInv'
  BY <1>3, SpawnRegisterStep, FlagStep, SpawnQueueStep, WakeAwaiterStep, ChildFinishedStep,
     WakeJoinerStep DEF ForcedStep, SpawnStep, EndStep
<1>4. ASSUME NEW t \in Tasks, Resume(t) \/ Ready(t) \/ Free(t) \/ OpenScope(t) \/ Join(t) \/ Block(t)
                              \/ EnterCleanup(t) \/ LeaveCleanup(t) \/ Complete(t)
                              \/ \E h \in Tasks : Await(t, h)
      PROVE  IInv'
  BY <1>4, BlockStep, AwaitStep, JoinStep, FreeStep, CleanupStep, CompleteStep DEF Resume
<1>5. CASE Exit
  BY <1>1, <1>5 DEF Exit
<1> QED BY <1>1, <1>2, <1>3, <1>4, <1>5, CancelHandleStep, SpawnCountStep DEF Next

(* Spec keeps the inductive invariant. *)
LEMMA Invariance == Spec => []IInv
BY IInvInit, IInvStep, PTL DEF Spec

(* The task tree's state has its types; in particular no counter of a nursery goes  *)
(* below zero (NurseryState.live in scheduler.rs).                                  *)
THEOREM TypeCorrect == Spec => []TypeOK
<1>1. IInv => TypeOK
  BY DEF IInv
<1> QED BY <1>1, Invariance, PTL

(* A nursery's count is the number of its members that have not reported their end, *)
(* whoever spawned them, and a scope is open while it has one (spawn_tracked,       *)
(* child_finished and Nursery::join in scheduler.rs).                               *)
THEOREM ScopeWaitsForMembers == Spec => []ScopeCountsMembers
<1>1. IInv => ScopeCountsMembers
  BY DEF IInv
<1> QED BY <1>1, Invariance, PTL

(* A joiner asleep after its last child ended is about to be woken (Nursery::join,  *)
(* child_finished in scheduler.rs).                                                 *)
THEOREM JoinWoken == Spec => []JoinNotLost
<1>1. ASSUME IInv PROVE JoinNotLost
  BY <1>1 DEF IInv, Joiners, JoinNotLost
<1> QED BY <1>1, Invariance, PTL

(* A task asleep on a finished handle is about to be woken (await_handle and the    *)
(* completion of a handle in scheduler.rs).                                         *)
THEOREM AwaitWoken == Spec => []AwaitNotLost
<1>1. ASSUME IInv PROVE AwaitNotLost
  BY <1>1 DEF IInv, Awaiters, AwaitNotLost
<1> QED BY <1>1, Invariance, PTL

(* When nobody is cancelling any more, nothing is pending. *)
LEMMA SettledDone == ASSUME Settled PROVE \A what, t : ~Pend(what, t)
<1>1. Entries(<<>>) = {}
  BY DEF Entries
<1> QED BY <1>1 DEF Settled, Pend

(* The live children of a cancelled task are cancelled once everything has settled  *)
(* (cancel_task, cancel_children, register_child, fai_cleanup in scheduler.rs).     *)
THEOREM CancellationReachesChildren == Spec => []ChildrenFollow
<1>1. ASSUME IInv PROVE ChildrenFollow
  <2> SUFFICES ASSUME Settled, NEW p \in Tasks, NEW k \in Tasks, parent[k] = p, IsCancelled(p), ~Ended(p)
               PROVE  cancelled[k] \/ Ended(k)
    BY DEF ChildrenFollow
  <2>1. pc[p] \notin {"register", "regcheck", "unmask"}
    BY DEF Settled
  <2> QED BY <1>1, <2>1, SettledDone DEF IInv, ChildPending
<1> QED BY <1>1, Invariance, PTL

(* A cancelled task asleep in a blocking operation has been woken once everything   *)
(* has settled (cancel_task in scheduler.rs).                                       *)
THEOREM CancellationWakes == Spec => []CancelWakes
<1>1. ASSUME IInv PROVE CancelWakes
  BY <1>1, SettledDone DEF IInv, WakePending, CancelWakes
<1> QED BY <1>1, Invariance, PTL

(* Along tasks spawned into their parent's own scope a cancellation reaches every   *)
(* live descendant: the scope keeps each parent alive as long as a child is, so the *)
(* tasks that have ended or are cancelled are closed under such children.           *)
THEOREM CancellationReachesScope == Spec => []ScopedSubtreeFollows
<1>1. ASSUME IInv PROVE ScopedSubtreeFollows
  <2> SUFFICES ASSUME Settled, Unmasked, NEW p \in Tasks, IsCancelled(p),
                      NEW k \in Below(StartedInScope, p)
               PROVE  cancelled[k] \/ Ended(k)
    BY DEF ScopedSubtreeFollows
  <2> DEFINE S == {u \in Tasks : cancelled[u] \/ Ended(u)}
  <2>1. p \in S
    BY DEF IsCancelled
  <2>2. ASSUME NEW x \in S, NEW y \in Tasks, parent[y] = x, nursery[y] = x PROVE y \in S
    <3>1. CASE Ended(y)
      BY <3>1
    <3>2. CASE ~Ended(y)
      <4>1. y \in Members(x)
        BY <2>2, <3>2 DEF Members, Ended
      <4>2. live[x] \in Nat /\ live[x] # 0
        BY <1>1, <4>1, MembersFinite, FS_EmptySet DEF IInv, ScopeCountsMembers
      <4>3. ~Ended(x)
        BY <1>1, <4>2 DEF IInv, ScopeCountsMembers, Places
      <4>4. IsCancelled(x)
        BY <2>2, <4>3 DEF Unmasked, IsCancelled
      <4>5. pc[x] \notin {"register", "regcheck", "unmask"}
        BY DEF Settled
      <4>6. cancelled[y] \/ Ended(y)
        BY <1>1, <2>2, <4>3, <4>4, <4>5, SettledDone DEF IInv, ChildPending
      <4> QED BY <4>6
    <3> QED BY <3>1, <3>2
  <2>3. \A x \in S : StartedInScope[x] \subseteq S
    BY <2>2 DEF StartedInScope
  <2>4. k \in S
    BY <2>1, <2>3 DEF Below
  <2> QED BY <2>4
<1> QED BY <1>1, Invariance, PTL

===============================================================================
