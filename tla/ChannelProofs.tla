----------------------------- MODULE ChannelProofs ----------------------------
(***************************************************************************)
(* Proofs about Channel, for any tasks in any roles and any capacity: no   *)
(* buffered value and no free slot is stranded while somebody sleeps on    *)
(* it, a parked task always has somebody to wake it, a close reaches every *)
(* parked task, and every step of the channel is a step of the bounded     *)
(* queue.                                                                  *)
(***************************************************************************)
EXTENDS Channel, SequenceTheorems, FiniteSetTheorems, WellFoundedInduction, TLAPS

-------------------------------------------------------------------------------
(* The inductive invariant *)

Distinct(q) == \A i, j \in 1..Len(q) : q[i] = q[j] => i = j

(* A task is in an operation while it tries, waits or withdraws; it notifies   *)
(* exactly while it holds a waiter it took; only a closer has waiters left to  *)
(* visit; and only a parked task's registration is active.                     *)
Places ==
  \A t \in Tasks :
    /\ pc[t] \in {"top", "parked", "unreg"} <=> op[t] # "none"
    /\ pc[t] = "notify" <=> next[t] # NoTask
    /\ closing[t] # <<>> => closed /\ pc[t] = "closing"
    /\ active[t] => pc[t] = "parked"

(* A wait queue holds each registration once: of tasks in that operation that  *)
(* sleep, or that woke for another reason and have not withdrawn yet.          *)
InLine(q, kind) ==
  /\ Distinct(q)
  /\ \A t \in Entries(q) : op[t] = kind /\ (pc[t] = "unreg" \/ (pc[t] = "parked" /\ active[t]))

Lines ==
  /\ InLine(recvQ, "recv") /\ InLine(sendQ, "send")
  /\ closed => recvQ = <<>> /\ sendQ = <<>>

(* An active registration can be found: in its wait queue or in a closer's list. *)
Line(kind) == IF kind = "recv" THEN recvQ ELSE sendQ
Found(t) == t \in Entries(Line(op[t])) \/ \E u \in Tasks : t \in Entries(closing[u])
ActiveFound == \A t \in Tasks : active[t] => Found(t)

(* A cancellation that a parked task has not seen is still on its way to it.   *)
CancelOnTheWay ==
  \A t \in Tasks : pc[t] = "parked" /\ IsCancelled(t) =>
    owed[t] \/ canceller[t] \in {"flagged", "waking"}

Core == TypeOK /\ Places /\ Lines /\ ActiveFound /\ CancelOnTheWay /\ WakerExists
IInv == Core /\ NoStrandedValue /\ NoStrandedSlot

-------------------------------------------------------------------------------
(* Queues *)

(* The entries of a sequence, by position. *)
LEMMA EntriesOf ==
  ASSUME NEW S, NEW q \in Seq(S)
  PROVE  /\ Len(q) \in Nat /\ DOMAIN q = 1..Len(q)
         /\ \A x : x \in Entries(q) <=> \E i \in 1..Len(q) : q[i] = x
         /\ Entries(q) \subseteq S
         /\ Entries(q) = {} => q = <<>>
         /\ Entries(<<>>) = {}
<1>1. Len(q) \in Nat /\ DOMAIN q = 1..Len(q) /\ \A i \in 1..Len(q) : q[i] \in S
  BY LenProperties, ElementOfSeq
<1>2. Entries(q) = {} => q = <<>>
  <2>1. q # <<>> => 1 \in 1..Len(q)
    BY EmptySeq
  <2> QED BY <1>1, <2>1 DEF Entries
<1>3. \A x : x \in Entries(q) <=> \E i \in 1..Len(q) : q[i] = x
  BY <1>1, Zenon DEF Entries
<1>4. Entries(<<>>) = {}
  BY DEF Entries
<1> QED BY <1>1, <1>2, <1>3, <1>4

(* Appending a task that is not in line keeps the line distinct. *)
LEMMA AppendLine ==
  ASSUME NEW S, NEW q \in Seq(S), NEW x \in S
  PROVE  /\ Append(q, x) \in Seq(S)
         /\ Entries(Append(q, x)) = Entries(q) \cup {x}
         /\ Distinct(q) /\ x \notin Entries(q) => Distinct(Append(q, x))
<1>1. /\ Append(q, x) \in Seq(S)
      /\ Len(Append(q, x)) = Len(q) + 1
      /\ \A i \in 1..Len(q) : Append(q, x)[i] = q[i]
      /\ Append(q, x)[Len(q) + 1] = x
  BY AppendProperties
<1>2. /\ Len(q) \in Nat /\ \A y : y \in Entries(q) <=> \E i \in 1..Len(q) : q[i] = y
      /\ \A y : y \in Entries(Append(q, x)) <=> \E i \in 1..Len(Append(q, x)) : Append(q, x)[i] = y
  BY <1>1, EntriesOf, Zenon
<1>3. 1..(Len(q) + 1) = 1..Len(q) \cup {Len(q) + 1}
  BY <1>2
<1>4. Entries(Append(q, x)) = Entries(q) \cup {x}
  BY <1>1, <1>2, <1>3
<1>5. ASSUME Distinct(q), x \notin Entries(q) PROVE Distinct(Append(q, x))
  <2>1. \A i \in 1..Len(q) : q[i] # x
    BY <1>2, <1>5
  <2> QED BY <1>1, <1>3, <1>5, <2>1 DEF Distinct
<1> QED BY <1>1, <1>4, <1>5

(* A sequence that is not empty holds its head and its tail. *)
LEMMA TailLine ==
  ASSUME NEW S, NEW q \in Seq(S), q # <<>>
  PROVE  /\ Tail(q) \in Seq(S) /\ Len(Tail(q)) = Len(q) - 1 /\ Len(q) \in Nat \ {0}
         /\ Head(q) \in S /\ Entries(q) = {Head(q)} \cup Entries(Tail(q))
<1>1. /\ Tail(q) \in Seq(S) /\ Len(Tail(q)) = Len(q) - 1 /\ Head(q) \in S
      /\ \A i \in 1..Len(Tail(q)) : Tail(q)[i] = q[i + 1]
      /\ Len(q) \in Nat \ {0} /\ Head(q) = q[1]
  BY HeadTailProperties, EmptySeq
<1>2. /\ \A y : y \in Entries(q) <=> \E i \in 1..Len(q) : q[i] = y
      /\ \A y : y \in Entries(Tail(q)) <=> \E i \in 1..Len(Tail(q)) : Tail(q)[i] = y
  BY <1>1, EntriesOf, Zenon
<1>3. \A i \in 1..Len(q) : i = 1 \/ (i - 1 \in 1..(Len(q) - 1) /\ q[i] = Tail(q)[i - 1])
  BY <1>1
<1>4. \A i \in 1..(Len(q) - 1) : i + 1 \in 1..Len(q) /\ Tail(q)[i] = q[i + 1]
  BY <1>1
<1>5. 1 \in 1..Len(q)
  BY <1>1
<1>6. Entries(q) \subseteq {Head(q)} \cup Entries(Tail(q))
  BY <1>1, <1>2, <1>3
<1>7. {Head(q)} \cup Entries(Tail(q)) \subseteq Entries(q)
  BY <1>1, <1>2, <1>4, <1>5
<1> QED BY <1>1, <1>6, <1>7

(* The part of a sequence between two positions. *)
LEMMA PartOf ==
  ASSUME NEW S, NEW q \in Seq(S), NEW m \in 1..(Len(q) + 1), NEW n \in (m - 1)..Len(q)
  PROVE  /\ SubSeq(q, m, n) \in Seq(S) /\ Len(SubSeq(q, m, n)) = n - m + 1
         /\ \A i \in 1..(n - m + 1) : SubSeq(q, m, n)[i] = q[m + i - 1]
         /\ \A y : y \in Entries(SubSeq(q, m, n)) <=> \E i \in m..n : q[i] = y
<1>1. Len(q) \in Nat /\ m \in Nat /\ n \in Int /\ m >= 1 /\ n >= m - 1 /\ n <= Len(q)
  BY EntriesOf
<1>2. \A i \in m..n : q[i] \in S
  BY <1>1, ElementOfSeq
<1>3. /\ SubSeq(q, m, n) \in Seq(S) /\ Len(SubSeq(q, m, n)) = IF m <= n THEN n - m + 1 ELSE 0
      /\ \A i \in 1..(n - m + 1) : SubSeq(q, m, n)[i] = q[m + i - 1]
  BY <1>1, <1>2, SubSeqProperties
<1>4. Len(SubSeq(q, m, n)) = n - m + 1
  BY <1>1, <1>3
<1>5. \A y : y \in Entries(SubSeq(q, m, n)) <=>
               \E i \in 1..Len(SubSeq(q, m, n)) : SubSeq(q, m, n)[i] = y
  BY <1>3, EntriesOf, Zenon
<1>6. \A i \in 1..(n - m + 1) : m + i - 1 \in m..n
  BY <1>1
<1>7. \A i \in m..n : i - m + 1 \in 1..(n - m + 1) /\ SubSeq(q, m, n)[i - m + 1] = q[i]
  <2> TAKE i \in m..n
  <2>1. i - m + 1 \in 1..(n - m + 1) /\ m + (i - m + 1) - 1 = i
    BY <1>1
  <2>2. \A k \in 1..(n - m + 1) : SubSeq(q, m, n)[k] = q[m + k - 1]
    BY <1>3
  <2>3. SubSeq(q, m, n)[i - m + 1] = q[m + (i - m + 1) - 1]
    BY <2>1, <2>2, Zenon
  <2> QED BY <2>1, <2>3, Zenon
<1>8. \A y : y \in Entries(SubSeq(q, m, n)) <=> \E i \in m..n : q[i] = y
  <2> DEFINE s == SubSeq(q, m, n)
  <2>1. \A y : y \in Entries(s) <=> \E i \in 1..(n - m + 1) : s[i] = y
    BY <1>4, <1>5, Zenon
  <2>2. \A i \in 1..(n - m + 1) : s[i] = q[m + i - 1]
    BY <1>3
  <2>3. \A i \in m..n : i - m + 1 \in 1..(n - m + 1) /\ s[i - m + 1] = q[i]
    BY <1>7
  <2> HIDE DEF s
  <2>4. ASSUME NEW i \in 1..(n - m + 1) PROVE \E k \in m..n : q[k] = s[i]
    BY <1>6, <2>2
  <2>5. ASSUME NEW k \in m..n PROVE \E i \in 1..(n - m + 1) : s[i] = q[k]
    BY <2>3
  <2>6. \A y : y \in Entries(s) <=> \E i \in m..n : q[i] = y
    BY <2>1, <2>4, <2>5
  <2> QED BY <2>6 DEF s
<1> QED BY <1>3, <1>4, <1>8

(* The entries of two sequences in a row. *)
LEMMA ConcatEntries ==
  ASSUME NEW S, NEW p \in Seq(S), NEW q \in Seq(S)
  PROVE  p \o q \in Seq(S) /\ Entries(p \o q) = Entries(p) \cup Entries(q)
<1>1. /\ p \o q \in Seq(S) /\ Len(p \o q) = Len(p) + Len(q)
      /\ \A i \in 1..(Len(p) + Len(q)) : (p \o q)[i] = IF i <= Len(p) THEN p[i] ELSE q[i - Len(p)]
  BY ConcatProperties
<1>2. /\ Len(p) \in Nat /\ Len(q) \in Nat
      /\ \A y : y \in Entries(p) <=> \E i \in 1..Len(p) : p[i] = y
      /\ \A y : y \in Entries(q) <=> \E i \in 1..Len(q) : q[i] = y
      /\ \A y : y \in Entries(p \o q) <=> \E i \in 1..Len(p \o q) : (p \o q)[i] = y
  BY <1>1, EntriesOf, Zenon
<1>3. \A i \in 1..(Len(p) + Len(q)) :
        \/ i \in 1..Len(p) /\ (p \o q)[i] = p[i]
        \/ i - Len(p) \in 1..Len(q) /\ (p \o q)[i] = q[i - Len(p)]
  BY <1>1, <1>2
<1>4. \A i \in 1..Len(p) : i \in 1..(Len(p) + Len(q)) /\ (p \o q)[i] = p[i]
  BY <1>1, <1>2
<1>5. \A i \in 1..Len(q) : i + Len(p) \in 1..(Len(p) + Len(q)) /\ (p \o q)[i + Len(p)] = q[i]
  <2> TAKE i \in 1..Len(q)
  <2>1. i + Len(p) \in 1..(Len(p) + Len(q)) /\ ~(i + Len(p) <= Len(p)) /\ (i + Len(p)) - Len(p) = i
    BY <1>2
  <2> QED BY <1>1, <2>1
<1>6. Entries(p \o q) \subseteq Entries(p) \cup Entries(q)
  BY <1>2, <1>3
<1>7. Entries(p) \cup Entries(q) \subseteq Entries(p \o q)
  BY <1>2, <1>4, <1>5
<1> QED BY <1>1, <1>6, <1>7

(* Withdrawing takes the one registration of the task from the line. *)
LEMMA WithoutLine ==
  ASSUME NEW S, NEW q \in Seq(S), Distinct(q), NEW t
  PROVE  /\ Without(q, t) \in Seq(S) /\ Distinct(Without(q, t))
         /\ Entries(Without(q, t)) = Entries(q) \ {t}
<1>1. CASE t \notin Entries(q)
  BY <1>1 DEF Without
<1>2. CASE t \in Entries(q)
  <2>1. \E j \in 1..Len(q) : q[j] = t
    BY <1>2, EntriesOf
  <2> DEFINE i == CHOOSE j \in 1..Len(q) : q[j] = t
             p == SubSeq(q, 1, i - 1)
             r == SubSeq(q, i + 1, Len(q))
  <2>2. i \in 1..Len(q) /\ q[i] = t
    BY <2>1
  <2>3. Without(q, t) = p \o r
    BY <1>2 DEF Without
  <2> HIDE DEF i
  <2>4. Len(q) \in Nat /\ i \in Nat /\ 1 <= i /\ i <= Len(q)
    BY <2>2, EntriesOf
  <2>5. /\ p \in Seq(S) /\ Len(p) = i - 1 /\ \A k \in 1..(i - 1) : p[k] = q[k]
        /\ \A y : y \in Entries(p) <=> \E k \in 1..(i - 1) : q[k] = y
    <3>1. 1 \in 1..(Len(q) + 1) /\ i - 1 \in (1 - 1)..Len(q) /\ (i - 1) - 1 + 1 = i - 1
      BY <2>4
    <3>2. \A k \in 1..(i - 1) : 1 + k - 1 = k
      BY <2>4
    <3> QED BY <3>1, <3>2, PartOf
  <2>6. /\ r \in Seq(S) /\ Len(r) = Len(q) - i /\ \A k \in 1..(Len(q) - i) : r[k] = q[i + k]
        /\ \A y : y \in Entries(r) <=> \E k \in (i + 1)..Len(q) : q[k] = y
    <3>1. /\ i + 1 \in 1..(Len(q) + 1) /\ Len(q) \in ((i + 1) - 1)..Len(q)
          /\ Len(q) - (i + 1) + 1 = Len(q) - i
      BY <2>4
    <3>2. \A k \in 1..(Len(q) - i) : (i + 1) + k - 1 = i + k
      BY <2>4
    <3> QED BY <3>1, <3>2, PartOf
  <2> HIDE DEF p, r
  <2>7. p \o r \in Seq(S) /\ Entries(p \o r) = Entries(p) \cup Entries(r)
    BY <2>5, <2>6, ConcatEntries
  <2>8. Entries(p) \cup Entries(r) = Entries(q) \ {t}
    <3>1. \A y : y \in Entries(q) <=> \E k \in 1..Len(q) : q[k] = y
      BY EntriesOf
    <3>2. \A k \in 1..Len(q) : k \in 1..(i - 1) \/ k = i \/ k \in (i + 1)..Len(q)
      BY <2>4
    <3>3. \A k \in 1..(i - 1) : k \in 1..Len(q) /\ k # i
      BY <2>4
    <3>4. \A k \in (i + 1)..Len(q) : k \in 1..Len(q) /\ k # i
      BY <2>4
    <3>5. \A k \in 1..Len(q) : k # i => q[k] # t
      BY <2>2 DEF Distinct
    <3>6. \A y : y \in Entries(p) \cup Entries(r) => y \in Entries(q) /\ y # t
      BY <2>5, <2>6, <3>1, <3>3, <3>4, <3>5
    <3>7. \A y : y \in Entries(q) /\ y # t => y \in Entries(p) \cup Entries(r)
      BY <2>2, <2>5, <2>6, <3>1, <3>2
    <3> QED BY <3>6, <3>7
  <2>9. Distinct(p \o r)
    <3> DEFINE pos(k) == IF k <= i - 1 THEN k ELSE k + 1
    <3>1. Len(p \o r) = Len(q) - 1
      <4>1. Len(p \o r) = Len(p) + Len(r)
        BY <2>5, <2>6, ConcatProperties
      <4> QED BY <2>4, <2>5, <2>6, <4>1
    <3>2. \A k \in 1..(Len(q) - 1) : pos(k) \in 1..Len(q) /\ (p \o r)[k] = q[pos(k)]
      <4> TAKE k \in 1..(Len(q) - 1)
      <4>1. (p \o r)[k] = IF k <= i - 1 THEN p[k] ELSE r[k - (i - 1)]
        <5>1. k \in 1..(Len(p) + Len(r))
          BY <2>4, <2>5, <2>6
        <5> QED BY <2>5, <2>6, <5>1, ConcatProperties
      <4>2. CASE k <= i - 1
        BY <2>4, <2>5, <4>1, <4>2
      <4>3. CASE ~(k <= i - 1)
        <5>1. k - (i - 1) \in 1..(Len(q) - i) /\ i + (k - (i - 1)) = k + 1 /\ k + 1 \in 1..Len(q)
          BY <2>4, <4>3
        <5> QED BY <2>6, <4>1, <4>3, <5>1
      <4> QED BY <4>2, <4>3
    <3>3. \A k, l \in 1..(Len(q) - 1) : pos(k) = pos(l) => k = l
      BY <2>4
    <3> HIDE DEF pos
    <3> QED BY <3>1, <3>2, <3>3 DEF Distinct
  <2> QED BY <2>3, <2>7, <2>8, <2>9
<1> QED BY <1>1, <1>2

(* A set of positions that is not empty has a last one. *)
LEMMA LastPosition ==
  ASSUME NEW n \in Nat, NEW I \in SUBSET (1..n), I # {}
  PROVE  \E i \in I : \A j \in I : j <= i
<1> DEFINE T == {n - i : i \in I}
<1>2. \A i \in I : n - i \in T
  OBVIOUS
<1>1. T \subseteq Nat /\ T # {}
  <2>1. \A i \in I : n - i \in Nat
    OBVIOUS
  <2>2. PICK i \in I : TRUE
    OBVIOUS
  <2> QED BY <1>2, <2>1, <2>2
<1>3. \A d \in T : \E i \in I : d = n - i
  OBVIOUS
<1> HIDE DEF T
<1>4. PICK d \in T : \A e \in T : ~(<<e, d>> \in OpToRel(<, Nat))
  BY <1>1, WFMin, NatLessThanWellFounded, Zenon
<1>5. \A e \in T : e \in Nat /\ d \in Nat /\ ~(e < d)
  BY <1>1, <1>4, Zenon DEF OpToRel
<1>6. PICK i \in I : d = n - i
  BY <1>3
<1>7. ASSUME NEW j \in I PROVE j <= i
  <2>1. n - j \in T /\ i \in Nat /\ j \in Nat
    BY <1>2
  <2> QED BY <1>5, <1>6, <2>1
<1> QED BY <1>7

(* take_channel_waiter splits the line: it pops the last registration that is  *)
(* active and not cancelled, and everything behind it; if there is none, all.  *)
LEMMA TakeLine ==
  ASSUME NEW q \in Seq(Tasks), Distinct(q)
  PROVE  /\ RestOf(q) \in Seq(Tasks) /\ Distinct(RestOf(q))
         /\ Popped(q) \subseteq Entries(q) /\ Entries(RestOf(q)) = Entries(q) \ Popped(q)
         /\ \/ /\ TakenFrom(q) \in Popped(q) /\ Takeable(TakenFrom(q))
               /\ \A t \in Popped(q) : t # TakenFrom(q) => ~Takeable(t)
            \/ /\ TakenFrom(q) = NoTask
               /\ \A t \in Entries(q) : ~Takeable(t)
<1>1. /\ Len(q) \in Nat /\ \A i \in 1..Len(q) : q[i] \in Tasks
      /\ \A y : y \in Entries(q) <=> \E i \in 1..Len(q) : q[i] = y
  BY EntriesOf, ElementOfSeq
<1>2. \A y : y \in Popped(q) <=> \E i \in 1..Len(q) : i >= TakePos(q) /\ q[i] = y
  BY DEF Popped
<1>3. CASE \E i \in 1..Len(q) : Takeable(q[i])
  <2> DEFINE I == {i \in 1..Len(q) : Takeable(q[i])}
             p == TakePos(q)
  <2>1. PICK i \in I : \A j \in I : j <= i
    BY <1>1, <1>3, LastPosition
  <2>2. i \in 1..Len(q) /\ Takeable(q[i]) /\ \A j \in (i + 1)..Len(q) : ~Takeable(q[j])
    BY <1>1, <2>1
  <2>3. p \in 1..Len(q) /\ Takeable(q[p]) /\ \A j \in (p + 1)..Len(q) : ~Takeable(q[j])
    <3>1. p = CHOOSE k \in 1..Len(q) : Takeable(q[k]) /\ \A j \in (k + 1)..Len(q) : ~Takeable(q[j])
      BY <1>3 DEF TakePos
    <3> HIDE DEF p
    <3> QED BY <2>2, <3>1
  <2> HIDE DEF p
  <2>4. p \in Nat /\ 1 <= p /\ p <= Len(q) /\ TakenFrom(q) = q[p]
    BY <1>1, <2>3 DEF p, TakenFrom
  <2>5. /\ RestOf(q) \in Seq(Tasks) /\ Len(RestOf(q)) = p - 1
        /\ \A k \in 1..(p - 1) : RestOf(q)[k] = q[k]
        /\ \A y : y \in Entries(RestOf(q)) <=> \E k \in 1..(p - 1) : q[k] = y
    <3>1. 1 \in 1..(Len(q) + 1) /\ p - 1 \in (1 - 1)..Len(q) /\ (p - 1) - 1 + 1 = p - 1
      BY <1>1, <2>4
    <3>2. \A k \in 1..(p - 1) : 1 + k - 1 = k
      BY <2>4
    <3> QED BY <3>1, <3>2, PartOf DEF RestOf, p
  <2>6. \A y : y \in Popped(q) <=> \E k \in p..Len(q) : q[k] = y
    <3>1. \A k : k \in p..Len(q) <=> k \in 1..Len(q) /\ k >= p
      BY <1>1, <2>4
    <3> QED BY <1>2, <3>1 DEF p
  <2>7. \A k \in 1..Len(q) :
          \/ k \in 1..(p - 1) /\ k \notin p..Len(q)
          \/ k \in p..Len(q) /\ k \notin 1..(p - 1)
    BY <1>1, <2>4
  <2>8. (1..(p - 1)) \subseteq 1..Len(q) /\ (p..Len(q)) \subseteq 1..Len(q)
    BY <1>1, <2>4
  <2>9. Entries(RestOf(q)) = Entries(q) \ Popped(q) /\ Popped(q) \subseteq Entries(q)
    BY <1>1, <2>5, <2>6, <2>7, <2>8 DEF Distinct
  <2>10. Distinct(RestOf(q))
    BY <2>5, <2>8 DEF Distinct
  <2>11. TakenFrom(q) \in Popped(q) /\ Takeable(TakenFrom(q))
    <3>1. p \in p..Len(q)
      BY <1>1, <2>4
    <3> QED BY <2>3, <2>4, <2>6, <3>1
  <2>12. ASSUME NEW t \in Popped(q), t # TakenFrom(q) PROVE ~Takeable(t)
    <3>1. PICK k \in p..Len(q) : q[k] = t
      BY <2>6
    <3>2. k # p /\ k \in (p + 1)..Len(q)
      BY <1>1, <2>4, <2>12, <3>1
    <3> QED BY <2>3, <3>1, <3>2
  <2> QED BY <2>5, <2>9, <2>10, <2>11, <2>12
<1>4. CASE ~\E i \in 1..Len(q) : Takeable(q[i])
  <2>1. TakePos(q) = 0 /\ TakenFrom(q) = NoTask
    BY <1>4 DEF TakePos, TakenFrom
  <2>2. Popped(q) = Entries(q)
    <3>1. \A i \in 1..Len(q) : i >= TakePos(q)
      BY <1>1, <2>1
    <3>2. \A y : y \in Popped(q) <=> y \in Entries(q)
      BY <1>1, <1>2, <3>1
    <3> QED BY <3>2
  <2>3. RestOf(q) = <<>>
    BY <2>1, SubSeqEmpty DEF RestOf
  <2>4. Distinct(<<>>) /\ <<>> \in Seq(Tasks) /\ Entries(<<>>) = {}
    BY EmptySeq, EntriesOf DEF Distinct
  <2> QED BY <1>1, <1>4, <2>1, <2>2, <2>3, <2>4
<1> QED BY <1>3, <1>4

-------------------------------------------------------------------------------
(* Counting tasks *)

(* A set of tasks that gains one, that keeps its members, that loses one, and  *)
(* that loses one and gains one.                                               *)
LEMMA TaskCount ==
  ASSUME NEW A \in SUBSET Tasks, NEW B \in SUBSET Tasks
  PROVE  /\ Cardinality(A) \in Nat
         /\ A \subseteq B => Cardinality(A) <= Cardinality(B)
         /\ \A x : A \ {x} \subseteq B => Cardinality(A) - 1 <= Cardinality(B)
         /\ \A y : y \notin A /\ y \in B /\ A \subseteq B => Cardinality(A) + 1 <= Cardinality(B)
         /\ \A x, y : y \notin A /\ y \in B /\ A \ {x} \subseteq B => Cardinality(A) <= Cardinality(B)
<1>1. IsFiniteSet(A) /\ IsFiniteSet(B) /\ Cardinality(A) \in Nat /\ Cardinality(B) \in Nat
  BY TasksAssumption, FS_Subset, FS_CardinalityType
<1>2. \A S \in SUBSET B : IsFiniteSet(S) /\ Cardinality(S) <= Cardinality(B) /\ Cardinality(S) \in Nat
  BY <1>1, FS_Subset, FS_CardinalityType
<1>3. \A x : /\ IsFiniteSet(A \ {x}) /\ Cardinality(A \ {x}) \in Nat
             /\ Cardinality(A \ {x}) = IF x \in A THEN Cardinality(A) - 1 ELSE Cardinality(A)
  BY <1>1, FS_RemoveElement, FS_CardinalityType
<1>4. ASSUME NEW x, A \ {x} \subseteq B PROVE Cardinality(A) - 1 <= Cardinality(B)
  <2>1. Cardinality(A \ {x}) <= Cardinality(B) /\ Cardinality(A \ {x}) \in Nat
    BY <1>2, <1>4
  <2>2. Cardinality(A \ {x}) = Cardinality(A) - 1 \/ Cardinality(A \ {x}) = Cardinality(A)
    BY <1>3
  <2> QED BY <1>1, <2>1, <2>2
<1>5. ASSUME NEW y, y \notin A, y \in B, A \subseteq B PROVE Cardinality(A) + 1 <= Cardinality(B)
  <2>1. Cardinality(A \cup {y}) = Cardinality(A) + 1 /\ A \cup {y} \in SUBSET B
    BY <1>1, <1>5, FS_AddElement
  <2> QED BY <1>2, <2>1
<1>6. ASSUME NEW x, NEW y, y \notin A, y \in B, A \ {x} \subseteq B
      PROVE  Cardinality(A) <= Cardinality(B)
  <2>1. /\ Cardinality((A \ {x}) \cup {y}) = Cardinality(A \ {x}) + 1
        /\ (A \ {x}) \cup {y} \in SUBSET B
    BY <1>3, <1>6, FS_AddElement
  <2>2. Cardinality((A \ {x}) \cup {y}) <= Cardinality(B)
    BY <1>2, <2>1
  <2> QED BY <1>1, <1>3, <2>1, <2>2
<1> QED BY <1>1, <1>2, <1>4, <1>5, <1>6

-------------------------------------------------------------------------------
(* Steps that end an operation *)

Kinds == {"recv", "send"}

(* A task that sleeps in an open channel is in its line. *)
LEMMA SleeperInLine ==
  ASSUME Core, ~closed, NEW kind \in Kinds, NEW u \in Asleep(kind)
  PROVE  u \in Entries(Line(kind)) /\ Takeable(u)
<1>1. u \in Tasks /\ op[u] = kind /\ active[u] /\ Takeable(u)
  BY DEF Asleep, Takeable
<1>2. \A w \in Tasks : closing[w] = <<>>
  BY DEF Core, Places
<1>3. Entries(<<>>) = {}
  BY EntriesOf, EmptySeq
<1> QED BY <1>1, <1>2, <1>3 DEF Core, ActiveFound, Found

(* What a step of task t does to the sleepers and to the attentive tasks of a  *)
(* kind when it ends its operation ...                                         *)
Leaves(t, kind) ==
  /\ Asleep(kind)' \subseteq Asleep(kind)
  /\ Attentive(kind) \ {t} \subseteq Attentive(kind)'
  /\ op[t] # kind => t \notin Attentive(kind)

(* ... and when it takes a waiter of that kind: there is one more who looks,   *)
(* unless nobody sleeps.                                                       *)
Gains(kind) ==
  closed \/ Asleep(kind) = {} \/ \E y : y \notin Attentive(kind) /\ y \in Attentive(kind)'

(* Ending an operation, whoever it takes from the lines and deactivates (D). *)
LEMMA FinishCore ==
  ASSUME Core, NEW t \in Tasks, pc[t] = "top", NEW taken, Finish(t, taken),
         buf' \in Seq(Tasks), Len(buf') <= Capacity,
         UNCHANGED <<closed, owed, cancelled, masked, canceller>>,
         NEW D \in SUBSET Tasks, D \subseteq Entries(recvQ) \cup Entries(sendQ),
         recvQ' \in Seq(Tasks), Distinct(recvQ'), Entries(recvQ') = Entries(recvQ) \ D,
         sendQ' \in Seq(Tasks), Distinct(sendQ'), Entries(sendQ') = Entries(sendQ) \ D,
         active' \in [Tasks -> BOOLEAN], \A u \in Tasks : active'[u] <=> active[u] /\ u \notin D,
         taken = NoTask \/ taken \in D, \A u \in D : u # taken => ~Takeable(u)
  PROVE  /\ Core'
         /\ \A kind \in Kinds : Leaves(t, kind)
         /\ \A kind \in Kinds : taken # NoTask /\ op[taken] = kind => taken \in Attentive(kind)'
<1> USE TasksAssumption DEF Core
<1>0. /\ op' = [op EXCEPT ![t] = "none"] /\ next' = [next EXCEPT ![t] = taken]
      /\ pc' = [pc EXCEPT ![t] = IF taken = NoTask THEN "idle" ELSE "notify"]
      /\ closing' = closing /\ op[t] # "none" /\ ~active[t]
      /\ taken \in Tasks \cup {NoTask}
  BY DEF Finish, Goto, Places
<1>1. TypeOK'
  BY <1>0 DEF TypeOK, PCs
<1>2. Places'
  BY <1>0 DEF Places, TypeOK
<1>3. t \notin Entries(recvQ) /\ t \notin Entries(sendQ)
  BY DEF Lines, InLine
<1>4. Lines'
  <2>0. Entries(recvQ) \subseteq Tasks /\ Entries(sendQ) \subseteq Tasks
    BY EntriesOf DEF TypeOK
  <2>1. InLine(recvQ, "recv")'
    BY <1>0, <1>3, <2>0 DEF Lines, InLine, TypeOK
  <2>2. InLine(sendQ, "send")'
    BY <1>0, <1>3, <2>0 DEF Lines, InLine, TypeOK
  <2>3. ASSUME closed PROVE recvQ' = <<>> /\ sendQ' = <<>>
    <3>1. Entries(<<>>) = {} /\ recvQ = <<>> /\ sendQ = <<>>
      BY <2>3, EntriesOf, EmptySeq DEF Lines
    <3> QED BY <3>1, EntriesOf
  <2> QED BY <2>1, <2>2, <2>3 DEF Lines
<1>5. ActiveFound'
  <2> SUFFICES ASSUME NEW u \in Tasks, active'[u] PROVE Found(u)'
    BY DEF ActiveFound
  <2>1. active[u] /\ u \notin D /\ u # t /\ op'[u] = op[u]
    BY <1>0 DEF TypeOK
  <2>2. Found(u)
    BY <2>1 DEF ActiveFound
  <2> QED BY <1>0, <2>1, <2>2 DEF Found, Line
<1>6. CancelOnTheWay'
  BY <1>0 DEF CancelOnTheWay, IsCancelled, TypeOK
<1>7. WakerExists'
  <2> SUFFICES ASSUME NEW u \in Tasks, pc'[u] = "parked", ~active'[u] PROVE HasWaker(u)'
    BY DEF WakerExists
  <2>1. u # t /\ pc[u] = "parked"
    BY <1>0 DEF TypeOK
  <2>2. CASE ~active[u]
    <3>1. HasWaker(u)
      BY <2>1, <2>2 DEF WakerExists
    <3>2. \A w \in Tasks : pc[w] = "notify" /\ next[w] = u => pc'[w] = "notify" /\ next'[w] = u
      BY <1>0 DEF TypeOK
    <3> QED BY <3>1, <3>2 DEF HasWaker, IsCancelled
  <2>3. CASE u = taken
    BY <1>0, <2>3 DEF HasWaker, TypeOK
  <2>4. CASE active[u] /\ u # taken
    <3>1. IsCancelled(u)
      BY <2>4 DEF Takeable
    <3> QED BY <2>1, <3>1 DEF CancelOnTheWay, HasWaker, IsCancelled
  <2> QED BY <2>2, <2>3, <2>4
<1>8. ASSUME NEW kind \in Kinds PROVE Leaves(t, kind)
  <2>1. Asleep(kind)' \subseteq Asleep(kind)
    BY <1>0 DEF Asleep, Takeable, IsCancelled, TypeOK, Kinds
  <2>2. Attentive(kind) \ {t} \subseteq Attentive(kind)'
    BY <1>0 DEF Attentive, InOp, TypeOK
  <2> QED BY <2>1, <2>2 DEF Leaves, Attentive, InOp
<1>9. ASSUME NEW kind \in Kinds, taken # NoTask, op[taken] = kind PROVE taken \in Attentive(kind)'
  <2>1. taken \in Tasks /\ ~active'[taken] /\ taken # t
    BY <1>3, <1>9
  <2>2. pc[taken] \in {"unreg", "parked"}
    BY <1>9 DEF Lines, InLine
  <2> QED BY <1>0, <1>9, <2>1, <2>2 DEF Attentive, InOp, TypeOK
<1> QED BY <1>1, <1>2, <1>4, <1>5, <1>6, <1>7, <1>8, <1>9

(* Ending an operation and taking a waiter of a kind from its line. *)
LEMMA FinishTaking ==
  ASSUME Core, NEW t \in Tasks, pc[t] = "top",
         buf' \in Seq(Tasks), Len(buf') <= Capacity,
         UNCHANGED <<closed, owed, cancelled, masked, canceller>>,
         NEW kind \in Kinds,
         IF kind = "recv" THEN FinishTakingReceiver(t) ELSE FinishTakingSender(t)
  PROVE  Core' /\ (\A k \in Kinds : Leaves(t, k)) /\ Gains(kind)
<1>0. PICK q, taken, D : q = Line(kind) /\ taken = TakenFrom(q) /\ D = Popped(q)
  OBVIOUS
<1>1. q \in Seq(Tasks) /\ InLine(q, kind)
  BY <1>0 DEF Core, Lines, TypeOK, Line, Kinds
<1>2. recvQ \in Seq(Tasks) /\ sendQ \in Seq(Tasks) /\ Distinct(recvQ) /\ Distinct(sendQ)
  BY DEF Core, Lines, InLine, TypeOK
<1>3. \A u : ~(u \in Entries(recvQ) /\ u \in Entries(sendQ))
  BY DEF Core, Lines, InLine
<1>4. /\ RestOf(q) \in Seq(Tasks) /\ Distinct(RestOf(q))
      /\ D \subseteq Entries(q) /\ Entries(RestOf(q)) = Entries(q) \ D
      /\ \/ taken \in D /\ Takeable(taken) /\ \A u \in D : u # taken => ~Takeable(u)
         \/ taken = NoTask /\ \A u \in Entries(q) : ~Takeable(u)
  BY <1>0, <1>1, TakeLine DEF InLine
<1>5. Entries(q) \subseteq Tasks
  BY <1>1, EntriesOf
<1>6. /\ Finish(t, taken) /\ active' = [u \in Tasks |-> active[u] /\ u \notin D]
      /\ IF kind = "recv" THEN recvQ' = RestOf(q) /\ sendQ' = sendQ
                          ELSE sendQ' = RestOf(q) /\ recvQ' = recvQ
  BY <1>0 DEF FinishTakingReceiver, FinishTakingSender, Deactivate, Line, Kinds
<1>7. IF kind = "recv" THEN q = recvQ ELSE q = sendQ
  BY <1>0 DEF Line
<1>8. active' \in [Tasks -> BOOLEAN] /\ \A u \in Tasks : active'[u] <=> active[u] /\ u \notin D
  BY <1>6
<1>9. /\ recvQ' \in Seq(Tasks) /\ Distinct(recvQ') /\ Entries(recvQ') = Entries(recvQ) \ D
      /\ sendQ' \in Seq(Tasks) /\ Distinct(sendQ') /\ Entries(sendQ') = Entries(sendQ) \ D
      /\ D \subseteq Entries(recvQ) \cup Entries(sendQ)
  BY <1>2, <1>3, <1>4, <1>6, <1>7
<1>10. D \in SUBSET Tasks /\ (taken = NoTask \/ taken \in D) /\ \A u \in D : u # taken => ~Takeable(u)
  BY <1>4, <1>5
<1>11. /\ Core' /\ \A k \in Kinds : Leaves(t, k)
       /\ \A k \in Kinds : taken # NoTask /\ op[taken] = k => taken \in Attentive(k)'
  BY <1>6, <1>8, <1>9, <1>10, FinishCore
<1>12. Gains(kind)
  <2>1. CASE taken \in D /\ Takeable(taken)
    <3>1. taken \in Entries(q) /\ op[taken] = kind /\ taken # NoTask /\ active[taken]
      BY <1>1, <1>4, <1>5, <2>1, TasksAssumption DEF InLine, Takeable
    <3>2. taken \notin Attentive(kind)
      BY <3>1 DEF Attentive, Core, Places
    <3> QED BY <1>11, <3>1, <3>2 DEF Gains
  <2>2. CASE \A u \in Entries(q) : ~Takeable(u)
    BY <1>0, <2>2, SleeperInLine DEF Gains
  <2> QED BY <1>4, <2>1, <2>2
<1> QED BY <1>11, <1>12

(* Ending an operation without taking anybody. *)
LEMMA FinishWithout ==
  ASSUME Core, NEW t \in Tasks, pc[t] = "top", FinishAlone(t),
         UNCHANGED <<buf, closed, owed, cancelled, masked, canceller>>
  PROVE  Core' /\ \A k \in Kinds : Leaves(t, k)
<1>1. /\ Finish(t, NoTask) /\ recvQ' = recvQ /\ sendQ' = sendQ /\ active' = active
      /\ buf' \in Seq(Tasks) /\ Len(buf') <= Capacity
      /\ recvQ' \in Seq(Tasks) /\ sendQ' \in Seq(Tasks) /\ active' \in [Tasks -> BOOLEAN]
      /\ Distinct(recvQ') /\ Distinct(sendQ')
  BY DEF FinishAlone, Core, TypeOK, Lines, InLine
<1>2. /\ {} \in SUBSET Tasks /\ {} \subseteq Entries(recvQ) \cup Entries(sendQ)
      /\ Entries(recvQ') = Entries(recvQ) \ {} /\ Entries(sendQ') = Entries(sendQ) \ {}
      /\ \A u \in Tasks : active'[u] <=> active[u] /\ u \notin {}
      /\ \A u \in {} : u # NoTask => ~Takeable(u)
  BY <1>1
<1> QED BY <1>1, <1>2, FinishCore

(* Counting after an operation ended.  delta is how much there is less to       *)
(* attend to: one if the task that leaves took its share, none otherwise.       *)
LEMMA CountLeaves ==
  ASSUME NEW t \in Tasks, NEW kind \in Kinds, Leaves(t, kind), NEW n \in Int, NEW m \in Int,
         Asleep(kind) # {} /\ ~closed => n <= Cardinality(Attentive(kind)),
         closed' = closed, Asleep(kind)' # {}, ~closed',
         \/ m <= n /\ op[t] # kind
         \/ m <= n - 1
         \/ m <= n /\ Gains(kind)
         \/ m <= n + 1 /\ op[t] # kind /\ Gains(kind)
         \/ m <= 0
  PROVE  m <= Cardinality(Attentive(kind)')
<1> DEFINE A == Attentive(kind)
           B == Attentive(kind)'
<1>1. A \in SUBSET Tasks /\ B \in SUBSET Tasks
  BY DEF Attentive
<1>2. Asleep(kind) # {} /\ ~closed /\ A \ {t} \subseteq B /\ (op[t] # kind => t \notin A)
  BY DEF Leaves
<1>3. n <= Cardinality(A)
  BY <1>2
<1>4. Gains(kind) => \E y : y \notin A /\ y \in B
  BY <1>2 DEF Gains
<1> HIDE DEF A, B
<1>5. op[t] # kind => A \subseteq B
  BY <1>2
<1>6. /\ Cardinality(A) \in Nat /\ Cardinality(B) \in Nat
      /\ Cardinality(A) - 1 <= Cardinality(B)
      /\ op[t] # kind => Cardinality(A) <= Cardinality(B)
      /\ Gains(kind) => Cardinality(A) <= Cardinality(B)
      /\ Gains(kind) /\ op[t] # kind => Cardinality(A) + 1 <= Cardinality(B)
  BY <1>1, <1>2, <1>4, <1>5, TaskCount
<1>7. m <= Cardinality(B)
  BY <1>3, <1>6
<1> QED BY <1>7 DEF B

(* Both counts after an operation ended: what each kind has to attend to. *)
LEMMA CountsAfter ==
  ASSUME IInv, NEW t \in Tasks, Core', \A k \in Kinds : Leaves(t, k), closed' = closed,
         closed \/ Len(buf') <= 0
           \/ (Len(buf') <= Len(buf) /\ (op[t] # "recv" \/ Gains("recv")))
           \/ Len(buf') <= Len(buf) - 1
           \/ (Len(buf') <= Len(buf) + 1 /\ op[t] # "recv" /\ Gains("recv")),
         closed \/ Len(buf') >= Capacity
           \/ (Len(buf') >= Len(buf) /\ (op[t] # "send" \/ Gains("send")))
           \/ Len(buf') >= Len(buf) + 1
           \/ (Len(buf') >= Len(buf) - 1 /\ op[t] # "send" /\ Gains("send"))
  PROVE  IInv'
<1>1. Len(buf) \in Nat /\ Len(buf') \in Nat /\ Capacity \in Nat
  BY LenProperties, CapacityAssumption DEF IInv, Core, TypeOK
<1>2. NoStrandedValue'
  <2> SUFFICES ASSUME Asleep("recv")' # {}, ~closed'
               PROVE  Len(buf') <= Cardinality(Attentive("recv")')
    BY DEF NoStrandedValue
  <2>1. Asleep("recv") # {} /\ ~closed => Len(buf) <= Cardinality(Attentive("recv"))
    BY DEF IInv, NoStrandedValue
  <2>2. "recv" \in Kinds /\ Leaves(t, "recv") /\ Len(buf) \in Int /\ Len(buf') \in Int
    BY <1>1 DEF Kinds
  <2>3. PICK n \in Int, m \in Int : n = Len(buf) /\ m = Len(buf')
    BY <2>2
  <2> QED BY <2>1, <2>2, <2>3, CountLeaves
<1>3. NoStrandedSlot'
  <2> SUFFICES ASSUME Asleep("send")' # {}, ~closed'
               PROVE  Capacity - Len(buf') <= Cardinality(Attentive("send")')
    BY DEF NoStrandedSlot
  <2>1. Asleep("send") # {} /\ ~closed => Capacity - Len(buf) <= Cardinality(Attentive("send"))
    BY DEF IInv, NoStrandedSlot
  <2>2. "send" \in Kinds /\ Leaves(t, "send")
    BY DEF Kinds
  <2>3. PICK n \in Int, m \in Int : n = Capacity - Len(buf) /\ m = Capacity - Len(buf')
    BY <1>1
  <2>4. \/ m <= n /\ op[t] # "send"
        \/ m <= n - 1
        \/ m <= n /\ Gains("send")
        \/ m <= n + 1 /\ op[t] # "send" /\ Gains("send")
        \/ m <= 0
    BY <1>1, <2>3
  <2> QED BY <2>1, <2>2, <2>3, <2>4, CountLeaves
<1> QED BY <1>2, <1>3 DEF IInv

(* A send ends: cancelled, refused, or with its value in the buffer. *)
LEMMA SendEnds ==
  ASSUME IInv, NEW t \in Tasks, SendCancelled(t) \/ SendClosed(t) \/ SendPush(t)
  PROVE  IInv'
<1> USE DEF IInv
<1>0. pc[t] = "top" /\ op[t] = "send" /\ buf \in Seq(Tasks) /\ Len(buf) \in Nat /\ Len(buf) <= Capacity
      /\ Capacity \in Nat
  BY LenProperties, CapacityAssumption
     DEF SendCancelled, SendClosed, SendPush, AtTop, Core, TypeOK
<1>1. CASE SendCancelled(t) /\ SlotToForward
  <2>1. UNCHANGED <<buf, closed, owed, cancelled, masked, canceller>> /\ FinishTakingSender(t)
    BY <1>1 DEF SendCancelled
  <2>2. Core' /\ (\A k \in Kinds : Leaves(t, k)) /\ Gains("send")
    BY <1>0, <2>1, FinishTaking DEF Kinds
  <2> QED BY <1>0, <2>1, <2>2, CountsAfter
<1>2. CASE (SendCancelled(t) /\ ~SlotToForward) \/ SendClosed(t)
  <2>1. UNCHANGED <<buf, closed, owed, cancelled, masked, canceller>> /\ FinishAlone(t)
    BY <1>2 DEF SendCancelled, SendClosed
  <2>2. Core' /\ (\A k \in Kinds : Leaves(t, k))
    BY <1>0, <2>1, FinishWithout
  <2>3. closed \/ Len(buf) >= Capacity
    BY <1>0, <1>2 DEF SlotToForward, SendClosed
  <2> QED BY <1>0, <2>1, <2>2, <2>3, CountsAfter
<1>3. CASE SendPush(t)
  <2>1. /\ UNCHANGED <<closed, owed, cancelled, masked, canceller>> /\ FinishTakingReceiver(t)
        /\ buf' = Append(buf, t) /\ Len(buf) < Capacity
    BY <1>3 DEF SendPush, HasRoom
  <2>2. buf' \in Seq(Tasks) /\ Len(buf') = Len(buf) + 1
    BY <1>0, <2>1, AppendProperties
  <2>3. Len(buf') <= Capacity
    BY <1>0, <2>1, <2>2
  <2>4. Core' /\ (\A k \in Kinds : Leaves(t, k)) /\ Gains("recv")
    BY <1>0, <2>1, <2>2, <2>3, FinishTaking DEF Kinds
  <2> QED BY <1>0, <2>1, <2>2, <2>4, CountsAfter
<1> QED BY <1>1, <1>2, <1>3

(* A receive ends: cancelled, on a closed and drained channel, or with a value. *)
LEMMA RecvEnds ==
  ASSUME IInv, NEW t \in Tasks, RecvCancelled(t) \/ RecvClosed(t) \/ RecvPop(t)
  PROVE  IInv'
<1> USE DEF IInv
<1>0. pc[t] = "top" /\ op[t] = "recv" /\ buf \in Seq(Tasks) /\ Len(buf) \in Nat /\ Len(buf) <= Capacity
      /\ Capacity \in Nat
  BY LenProperties, CapacityAssumption
     DEF RecvCancelled, RecvClosed, RecvPop, AtTop, Core, TypeOK
<1>1. CASE RecvCancelled(t) /\ ValueToForward
  <2>1. UNCHANGED <<buf, closed, owed, cancelled, masked, canceller>> /\ FinishTakingReceiver(t)
    BY <1>1 DEF RecvCancelled
  <2>2. Core' /\ (\A k \in Kinds : Leaves(t, k)) /\ Gains("recv")
    BY <1>0, <2>1, FinishTaking DEF Kinds
  <2> QED BY <1>0, <2>1, <2>2, CountsAfter
<1>2. CASE (RecvCancelled(t) /\ ~ValueToForward) \/ RecvClosed(t)
  <2>1. UNCHANGED <<buf, closed, owed, cancelled, masked, canceller>> /\ FinishAlone(t)
    BY <1>2 DEF RecvCancelled, RecvClosed
  <2>2. Core' /\ (\A k \in Kinds : Leaves(t, k))
    BY <1>0, <2>1, FinishWithout
  <2>3. Len(buf) = 0
    BY <1>2, EmptySeq DEF ValueToForward, RecvClosed
  <2> QED BY <1>0, <2>1, <2>2, <2>3, CountsAfter
<1>3. CASE RecvPop(t)
  <2>1. /\ UNCHANGED <<closed, owed, cancelled, masked, canceller>> /\ FinishTakingSender(t)
        /\ buf' = Tail(buf) /\ buf # <<>>
    BY <1>3 DEF RecvPop
  <2>2. buf' \in Seq(Tasks) /\ Len(buf') = Len(buf) - 1
    BY <1>0, <2>1, HeadTailProperties
  <2>3. Len(buf') <= Capacity
    BY <1>0, <2>2
  <2>4. Core' /\ (\A k \in Kinds : Leaves(t, k)) /\ Gains("send")
    BY <1>0, <2>1, <2>2, <2>3, FinishTaking DEF Kinds
  <2> QED BY <1>0, <2>1, <2>2, <2>4, CountsAfter
<1> QED BY <1>1, <1>2, <1>3

-------------------------------------------------------------------------------
(* Steps inside an operation *)

(* Counting when nobody falls asleep and nobody stops being attentive. *)
LEMMA CountsKept ==
  ASSUME IInv, Core', buf' = buf, closed' = closed,
         \A k \in Kinds : Asleep(k)' \subseteq Asleep(k) /\ Attentive(k) \subseteq Attentive(k)'
  PROVE  IInv'
<1>1. Len(buf) \in Nat /\ Capacity \in Nat
  BY LenProperties, CapacityAssumption DEF IInv, Core, TypeOK
<1>2. ASSUME NEW k \in Kinds
      PROVE  /\ Cardinality(Attentive(k)) \in Nat /\ Cardinality(Attentive(k)') \in Nat
             /\ Cardinality(Attentive(k)) <= Cardinality(Attentive(k)')
             /\ Asleep(k)' # {} => Asleep(k) # {}
  <2>1. Attentive(k) \in SUBSET Tasks /\ Attentive(k)' \in SUBSET Tasks
    BY DEF Attentive
  <2> QED BY <2>1, TaskCount
<1>3. NoStrandedValue'
  <2>1. "recv" \in Kinds
    BY DEF Kinds
  <2> QED BY <1>1, <1>2, <2>1 DEF IInv, NoStrandedValue
<1>4. NoStrandedSlot'
  <2>1. "send" \in Kinds
    BY DEF Kinds
  <2> QED BY <1>1, <1>2, <2>1 DEF IInv, NoStrandedSlot
<1> QED BY <1>3, <1>4 DEF IInv

(* A task starts an operation and is attentive. *)
LEMMA BeginStep ==
  ASSUME IInv, NEW t \in Tasks, NEW kind \in Kinds, Begin(t, kind)
  PROVE  IInv'
<1> USE TasksAssumption DEF IInv, Core
<1>0. /\ pc[t] = "idle" /\ pc' = [pc EXCEPT ![t] = "top"] /\ op' = [op EXCEPT ![t] = kind]
      /\ kind \in {"recv", "send"} /\ op[t] = "none" /\ ~active[t]
      /\ UNCHANGED <<buf, closed, recvQ, sendQ, active, next, closing, owed, cancelled, masked,
                     canceller>>
  BY DEF Begin, Goto, Kinds, Places
<1>1. TypeOK'
  BY <1>0 DEF TypeOK, PCs
<1>2. Places'
  BY <1>0 DEF Places, TypeOK
<1>3. Lines'
  BY <1>0 DEF Lines, InLine, TypeOK
<1>4. ActiveFound'
  BY <1>0 DEF ActiveFound, Found, Line, TypeOK
<1>5. CancelOnTheWay' /\ WakerExists'
  BY <1>0 DEF CancelOnTheWay, WakerExists, HasWaker, IsCancelled, TypeOK
<1>6. \A k \in Kinds : Asleep(k)' \subseteq Asleep(k) /\ Attentive(k) \subseteq Attentive(k)'
  BY <1>0 DEF Asleep, Attentive, InOp, Takeable, IsCancelled, TypeOK, Kinds
<1> QED BY <1>0, <1>1, <1>2, <1>3, <1>4, <1>5, <1>6, CountsKept

(* A task registers and parks: then there is nothing to attend to. *)
LEMMA ParkStep ==
  ASSUME IInv, NEW t \in Tasks, SendPark(t) \/ RecvPark(t)
  PROVE  IInv'
<1> USE TasksAssumption DEF IInv, Core
<1>0. /\ pc[t] = "top" /\ ~IsCancelled(t) /\ ~closed
      /\ pc' = [pc EXCEPT ![t] = "parked"] /\ active' = [active EXCEPT ![t] = TRUE]
      /\ \/ op[t] = "send" /\ sendQ' = Append(sendQ, t) /\ recvQ' = recvQ /\ ~HasRoom
         \/ op[t] = "recv" /\ recvQ' = Append(recvQ, t) /\ sendQ' = sendQ /\ buf = <<>>
      /\ UNCHANGED <<buf, closed, op, next, closing, owed, cancelled, masked, canceller>>
  BY DEF SendPark, RecvPark, AtTop, Goto
<1>1. recvQ \in Seq(Tasks) /\ sendQ \in Seq(Tasks) /\ t \notin Entries(recvQ) /\ t \notin Entries(sendQ)
  BY <1>0 DEF TypeOK, Lines, InLine
<1>2. \/ /\ op[t] = "send" /\ sendQ' \in Seq(Tasks) /\ recvQ' = recvQ
         /\ Entries(sendQ') = Entries(sendQ) \cup {t} /\ (Distinct(sendQ) => Distinct(sendQ'))
      \/ /\ op[t] = "recv" /\ recvQ' \in Seq(Tasks) /\ sendQ' = sendQ
         /\ Entries(recvQ') = Entries(recvQ) \cup {t} /\ (Distinct(recvQ) => Distinct(recvQ'))
  <2>1. ASSUME NEW q \in Seq(Tasks), t \notin Entries(q)
        PROVE  /\ Append(q, t) \in Seq(Tasks) /\ Entries(Append(q, t)) = Entries(q) \cup {t}
               /\ Distinct(q) => Distinct(Append(q, t))
    BY <2>1, AppendLine
  <2>2. CASE op[t] = "send" /\ sendQ' = Append(sendQ, t) /\ recvQ' = recvQ
    BY <1>1, <2>1, <2>2
  <2>3. CASE op[t] = "recv" /\ recvQ' = Append(recvQ, t) /\ sendQ' = sendQ
    BY <1>1, <2>1, <2>3
  <2> QED BY <1>0, <2>2, <2>3
<1>3. TypeOK'
  BY <1>0, <1>1, <1>2 DEF TypeOK, PCs
<1>4. Places'
  BY <1>0 DEF Places, TypeOK
<1>5. Lines'
  <2>0. Entries(recvQ) \subseteq Tasks /\ Entries(sendQ) \subseteq Tasks
    BY <1>1, EntriesOf
  <2>1. InLine(recvQ, "recv")'
    BY <1>0, <1>2, <2>0 DEF Lines, InLine, TypeOK
  <2>2. InLine(sendQ, "send")'
    BY <1>0, <1>2, <2>0 DEF Lines, InLine, TypeOK
  <2> QED BY <1>0, <2>1, <2>2 DEF Lines
<1>6. ActiveFound'
  BY <1>0, <1>2 DEF ActiveFound, Found, Line, TypeOK
<1>7. CancelOnTheWay' /\ WakerExists'
  BY <1>0 DEF CancelOnTheWay, WakerExists, HasWaker, IsCancelled, TypeOK
<1>8. Leaves(t, "recv") \/ op[t] = "recv"
  BY <1>0 DEF Leaves, Asleep, Attentive, InOp, Takeable, IsCancelled, TypeOK
<1>9. Leaves(t, "send") \/ op[t] = "send"
  BY <1>0 DEF Leaves, Asleep, Attentive, InOp, Takeable, IsCancelled, TypeOK
<1>10. \A k \in Kinds : Attentive(k)' \in SUBSET Tasks /\ Cardinality(Attentive(k)') \in Nat
  <2> TAKE k \in Kinds
  <2>1. Attentive(k)' \in SUBSET Tasks
    BY DEF Attentive
  <2> QED BY <2>1, TaskCount
<1>11. Len(buf) \in Nat /\ Capacity \in Nat /\ Len(buf) <= Capacity
  BY LenProperties, CapacityAssumption DEF TypeOK
<1>12. NoStrandedValue'
  <2>1. CASE op[t] = "recv"
    <3>1. Len(buf) = 0 /\ "recv" \in Kinds
      BY <1>0, <2>1, EmptySeq DEF Kinds
    <3> QED BY <1>0, <1>10, <3>1 DEF NoStrandedValue
  <2>2. CASE op[t] # "recv"
    <3>1. Leaves(t, "recv") /\ "recv" \in Kinds
      BY <1>8, <2>2 DEF Kinds
    <3>2. PICK n \in Int : n = Len(buf)
      BY <1>11
    <3>3. Asleep("recv") # {} /\ ~closed => n <= Cardinality(Attentive("recv"))
      BY <3>2 DEF NoStrandedValue
    <3>4. Asleep("recv")' # {} => n <= Cardinality(Attentive("recv")')
      BY <1>0, <2>2, <3>1, <3>3, CountLeaves
    <3> QED BY <1>0, <3>2, <3>4 DEF NoStrandedValue
  <2> QED BY <2>1, <2>2
<1>13. NoStrandedSlot'
  <2>1. CASE op[t] = "send"
    <3>1. Capacity - Len(buf) = 0 /\ "send" \in Kinds
      BY <1>0, <1>11, <2>1 DEF HasRoom, Kinds
    <3> QED BY <1>0, <1>10, <3>1 DEF NoStrandedSlot
  <2>2. CASE op[t] # "send"
    <3>1. Leaves(t, "send") /\ "send" \in Kinds
      BY <1>9, <2>2 DEF Kinds
    <3>2. PICK n \in Int : n = Capacity - Len(buf)
      BY <1>11
    <3>3. Asleep("send") # {} /\ ~closed => n <= Cardinality(Attentive("send"))
      BY <3>2 DEF NoStrandedSlot
    <3>4. Asleep("send")' # {} => n <= Cardinality(Attentive("send")')
      BY <1>0, <2>2, <3>1, <3>3, CountLeaves
    <3> QED BY <1>0, <3>2, <3>4 DEF NoStrandedSlot
  <2> QED BY <2>1, <2>2
<1> QED BY <1>3, <1>4, <1>5, <1>6, <1>7, <1>12, <1>13

(* A woken task that nobody has deactivated becomes attentive; one that        *)
(* somebody has was attentive already.                                         *)
LEMMA ResumeStep == ASSUME IInv, NEW t \in Tasks, Resume(t) PROVE IInv'
<1> USE TasksAssumption DEF IInv, Core
<1>0. /\ pc[t] = "parked" /\ pc' = [pc EXCEPT ![t] = IF active[t] THEN "unreg" ELSE "top"]
      /\ active' = [active EXCEPT ![t] = FALSE] /\ op[t] # "none"
      /\ owed' \in [Tasks -> BOOLEAN] /\ \A u \in Tasks : u # t => owed'[u] = owed[u]
      /\ UNCHANGED <<buf, closed, recvQ, sendQ, op, next, closing, cancelled, masked, canceller>>
  BY DEF Resume, Goto, Places, TypeOK
<1>1. TypeOK'
  BY <1>0 DEF TypeOK, PCs
<1>2. Places'
  BY <1>0 DEF Places, TypeOK
<1>3. Lines'
  <2>0. Entries(recvQ) \subseteq Tasks /\ Entries(sendQ) \subseteq Tasks
    BY EntriesOf DEF TypeOK
  <2> QED BY <1>0, <2>0 DEF Lines, InLine, TypeOK
<1>4. ActiveFound'
  BY <1>0 DEF ActiveFound, Found, Line, TypeOK
<1>5. CancelOnTheWay' /\ WakerExists'
  BY <1>0 DEF CancelOnTheWay, WakerExists, HasWaker, IsCancelled, TypeOK
<1>6. \A k \in Kinds : Asleep(k)' \subseteq Asleep(k) /\ Attentive(k) \subseteq Attentive(k)'
  BY <1>0 DEF Asleep, Attentive, InOp, Takeable, IsCancelled, TypeOK
<1> QED BY <1>0, <1>1, <1>2, <1>3, <1>4, <1>5, <1>6, CountsKept

(* A task withdraws its registration, which nobody had used. *)
LEMMA UnregisterStep == ASSUME IInv, NEW t \in Tasks, Unregister(t) PROVE IInv'
<1> USE TasksAssumption DEF IInv, Core
<1>0. /\ pc[t] = "unreg" /\ pc' = [pc EXCEPT ![t] = "top"] /\ op[t] # "none" /\ ~active[t]
      /\ recvQ' = IF op[t] = "recv" THEN Without(recvQ, t) ELSE recvQ
      /\ sendQ' = IF op[t] = "send" THEN Without(sendQ, t) ELSE sendQ
      /\ UNCHANGED <<buf, closed, active, op, next, closing, owed, cancelled, masked, canceller>>
  BY DEF Unregister, Goto, Places
<1>1. /\ recvQ \in Seq(Tasks) /\ sendQ \in Seq(Tasks) /\ Distinct(recvQ) /\ Distinct(sendQ)
      /\ op[t] # "recv" => t \notin Entries(recvQ)
      /\ op[t] # "send" => t \notin Entries(sendQ)
  BY DEF TypeOK, Lines, InLine
<1>2. /\ recvQ' \in Seq(Tasks) /\ Distinct(recvQ') /\ Entries(recvQ') = Entries(recvQ) \ {t}
      /\ sendQ' \in Seq(Tasks) /\ Distinct(sendQ') /\ Entries(sendQ') = Entries(sendQ) \ {t}
  <2>1. ASSUME NEW q \in Seq(Tasks), Distinct(q)
        PROVE  /\ Without(q, t) \in Seq(Tasks) /\ Distinct(Without(q, t))
               /\ Entries(Without(q, t)) = Entries(q) \ {t}
    BY <2>1, WithoutLine
  <2> QED BY <1>0, <1>1, <2>1
<1>3. TypeOK'
  BY <1>0, <1>2 DEF TypeOK, PCs
<1>4. Places'
  BY <1>0 DEF Places, TypeOK
<1>5. Lines'
  <2>0. Entries(recvQ) \subseteq Tasks /\ Entries(sendQ) \subseteq Tasks
    BY <1>1, EntriesOf
  <2>1. InLine(recvQ, "recv")'
    BY <1>0, <1>2, <2>0 DEF Lines, InLine, TypeOK
  <2>2. InLine(sendQ, "send")'
    BY <1>0, <1>2, <2>0 DEF Lines, InLine, TypeOK
  <2>3. ASSUME closed PROVE recvQ' = <<>> /\ sendQ' = <<>>
    <3>1. Entries(<<>>) = {} /\ recvQ = <<>> /\ sendQ = <<>>
      BY <2>3, EntriesOf, EmptySeq DEF Lines
    <3> QED BY <1>2, <3>1, EntriesOf
  <2> QED BY <1>0, <2>1, <2>2, <2>3 DEF Lines
<1>6. ActiveFound'
  <2> SUFFICES ASSUME NEW u \in Tasks, active'[u] PROVE Found(u)'
    BY DEF ActiveFound
  <2>1. active[u] /\ u # t /\ Found(u)
    BY <1>0 DEF ActiveFound
  <2> QED BY <1>0, <1>2, <2>1 DEF Found, Line
<1>7. CancelOnTheWay' /\ WakerExists'
  BY <1>0 DEF CancelOnTheWay, WakerExists, HasWaker, IsCancelled, TypeOK
<1>8. \A k \in Kinds : Asleep(k)' \subseteq Asleep(k) /\ Attentive(k) \subseteq Attentive(k)'
  BY <1>0 DEF Asleep, Attentive, InOp, Takeable, IsCancelled, TypeOK
<1> QED BY <1>0, <1>3, <1>4, <1>5, <1>6, <1>7, <1>8, CountsKept

(* A step that leaves the lines, the registrations and the operations alone,   *)
(* and moves no task into, out of or within an operation.                      *)
LEMMA AsideStep ==
  ASSUME IInv, TypeOK', Places', CancelOnTheWay', WakerExists',
         UNCHANGED <<buf, closed, recvQ, sendQ, active, op, closing>>,
         \A u \in Tasks : op[u] # "none" => pc'[u] = pc[u],
         \A u \in Tasks : pc[u] = "parked" /\ IsCancelled(u) => IsCancelled(u)'
  PROVE  IInv'
<1> USE DEF IInv, Core
<1>1. Lines'
  <2>0. Entries(recvQ) \subseteq Tasks /\ Entries(sendQ) \subseteq Tasks
    BY EntriesOf DEF TypeOK
  <2> QED BY <2>0 DEF Lines, InLine
<1>2. ActiveFound'
  BY DEF ActiveFound, Found, Line
<1>3. \A k \in Kinds : Asleep(k)' \subseteq Asleep(k) /\ Attentive(k) \subseteq Attentive(k)'
  <2>1. \A u \in Tasks : pc'[u] = "parked" => op'[u] # "none"
    BY DEF Places
  <2> QED BY <2>1 DEF Asleep, Attentive, InOp, Takeable, Kinds
<1> QED BY <1>1, <1>2, <1>3, CountsKept

(* The waiter that was taken is scheduled. *)
LEMMA NotifyStep == ASSUME IInv, NEW t \in Tasks, NotifyTaken(t) PROVE IInv'
<1> USE TasksAssumption DEF IInv, Core
<1>0. /\ pc[t] = "notify" /\ pc' = [pc EXCEPT ![t] = "idle"] /\ next' = [next EXCEPT ![t] = NoTask]
      /\ owed' = [owed EXCEPT ![next[t]] = TRUE] /\ op[t] = "none" /\ next[t] \in Tasks
      /\ UNCHANGED <<buf, closed, recvQ, sendQ, active, op, closing, cancelled, masked, canceller>>
  BY DEF NotifyTaken, Schedule, Goto, Places, TypeOK
<1>1. TypeOK'
  BY <1>0 DEF TypeOK, PCs
<1>2. Places'
  BY <1>0 DEF Places, TypeOK
<1>3. CancelOnTheWay' /\ WakerExists'
  BY <1>0 DEF CancelOnTheWay, WakerExists, HasWaker, IsCancelled, TypeOK
<1>4. /\ \A u \in Tasks : op[u] # "none" => pc'[u] = pc[u]
      /\ \A u \in Tasks : pc[u] = "parked" /\ IsCancelled(u) => IsCancelled(u)'
  BY <1>0 DEF IsCancelled, TypeOK
<1> QED BY <1>0, <1>1, <1>2, <1>3, <1>4, AsideStep

-------------------------------------------------------------------------------
(* Closing *)

(* A closed channel counts nothing; what is left is that its waiters are found. *)
LEMMA ClosedCounts == ASSUME Core', closed' PROVE IInv'
BY DEF IInv, NoStrandedValue, NoStrandedSlot

(* Close moves both lines to the closer's list. *)
LEMMA CloseStep == ASSUME IInv, NEW t \in Tasks, Close(t) PROVE IInv'
<1> USE TasksAssumption DEF IInv, Core
<1>0. /\ pc[t] = "idle" /\ pc' = [pc EXCEPT ![t] = "closing"] /\ closed' = TRUE
      /\ closing' = [closing EXCEPT ![t] = recvQ \o sendQ] /\ recvQ' = <<>> /\ sendQ' = <<>>
      /\ UNCHANGED <<buf, active, op, next, owed, cancelled, masked, canceller>>
      /\ closing[t] = <<>> /\ op[t] = "none" /\ recvQ \in Seq(Tasks) /\ sendQ \in Seq(Tasks)
  BY DEF Close, Goto, Waiters, Places, TypeOK
<1>1. /\ recvQ \o sendQ \in Seq(Tasks) /\ <<>> \in Seq(Tasks) /\ Entries(<<>>) = {} /\ Distinct(<<>>)
      /\ Entries(recvQ \o sendQ) = Entries(recvQ) \cup Entries(sendQ)
  BY <1>0, ConcatEntries, EntriesOf, EmptySeq DEF Distinct
<1>2. PICK w \in Seq(Tasks) : w = recvQ \o sendQ
  BY <1>1
<1>3. TypeOK'
  BY <1>0, <1>1, <1>2 DEF TypeOK, PCs
<1>4. Places'
  BY <1>0, <1>2 DEF Places, TypeOK
<1>5. Lines'
  BY <1>0, <1>1 DEF Lines, InLine
<1>6. ActiveFound'
  <2> SUFFICES ASSUME NEW u \in Tasks, active'[u] PROVE Found(u)'
    BY DEF ActiveFound
  <2>1. Found(u)
    BY <1>0 DEF ActiveFound
  <2>2. CASE u \in Entries(Line(op[u]))
    <3>1. u \in Entries(w)
      BY <1>1, <1>2, <2>2 DEF Line
    <3>2. closing'[t] = w
      BY <1>0, <1>2 DEF TypeOK
    <3> QED BY <3>1, <3>2 DEF Found
  <2>3. ASSUME NEW v \in Tasks, u \in Entries(closing[v]) PROVE Found(u)'
    <3>1. v # t /\ closing'[v] = closing[v]
      BY <1>0, <1>1, <2>3 DEF TypeOK
    <3> QED BY <2>3, <3>1 DEF Found
  <2> QED BY <2>1, <2>2, <2>3 DEF Found
<1>7. CancelOnTheWay' /\ WakerExists'
  BY <1>0 DEF CancelOnTheWay, WakerExists, HasWaker, IsCancelled, TypeOK
<1> QED BY <1>0, <1>3, <1>4, <1>5, <1>6, <1>7, ClosedCounts

(* The closer deactivates and schedules the next waiter of its list. *)
LEMMA CloseVisitStep == ASSUME IInv, NEW t \in Tasks, CloseVisit(t) PROVE IInv'
<1> USE TasksAssumption DEF IInv, Core
<1>0. /\ pc[t] = "closing" /\ closing[t] # <<>> /\ closing[t] \in Seq(Tasks) /\ closed
      /\ recvQ = <<>> /\ sendQ = <<>>
  BY DEF CloseVisit, Places, TypeOK, Lines
<1>1. PICK h \in Tasks, rest \in Seq(Tasks) :
        h = Head(closing[t]) /\ rest = Tail(closing[t]) /\ Entries(closing[t]) = {h} \cup Entries(rest)
  <2>1. /\ Tail(closing[t]) \in Seq(Tasks) /\ Head(closing[t]) \in Tasks
        /\ Entries(closing[t]) = {Head(closing[t])} \cup Entries(Tail(closing[t]))
    BY <1>0, TailLine, Zenon
  <2> QED BY <2>1, Zenon
<1>2. /\ active' = [active EXCEPT ![h] = FALSE] /\ closing' = [closing EXCEPT ![t] = rest]
      /\ owed' \in [Tasks -> BOOLEAN] /\ \A u \in Tasks : owed'[u] <=> owed[u] \/ (u = h /\ active[h])
      /\ UNCHANGED <<buf, closed, recvQ, sendQ, pc, op, next, cancelled, masked, canceller>>
  BY <1>1 DEF CloseVisit, Schedule, TypeOK
<1>3. TypeOK'
  BY <1>1, <1>2 DEF TypeOK
<1>4. Places'
  BY <1>0, <1>2 DEF Places, TypeOK
<1>5. Lines'
  <2>1. Entries(<<>>) = {} /\ Distinct(<<>>)
    BY EntriesOf, EmptySeq DEF Distinct
  <2> QED BY <1>0, <1>2, <2>1 DEF Lines, InLine
<1>6. ActiveFound'
  <2> SUFFICES ASSUME NEW u \in Tasks, active'[u] PROVE Found(u)'
    BY DEF ActiveFound
  <2>1. active[u] /\ u # h /\ Found(u)
    BY <1>2 DEF ActiveFound, TypeOK
  <2>2. u \notin Entries(Line(op[u]))
    BY <1>0, EntriesOf, EmptySeq DEF Line
  <2>3. PICK v \in Tasks : u \in Entries(closing[v])
    BY <2>1, <2>2 DEF Found
  <2>4. u \in Entries(closing'[v])
    BY <1>1, <1>2, <2>1, <2>3 DEF TypeOK
  <2> QED BY <2>4 DEF Found
<1>7. CancelOnTheWay' /\ WakerExists'
  BY <1>2 DEF CancelOnTheWay, WakerExists, HasWaker, IsCancelled, TypeOK
<1> QED BY <1>0, <1>2, <1>3, <1>4, <1>5, <1>6, <1>7, ClosedCounts

(* The closer has visited everybody. *)
LEMMA CloseDoneStep == ASSUME IInv, NEW t \in Tasks, CloseDone(t) PROVE IInv'
<1> USE TasksAssumption DEF IInv, Core
<1>0. /\ pc[t] = "closing" /\ closing[t] = <<>> /\ pc' = [pc EXCEPT ![t] = "idle"] /\ op[t] = "none"
      /\ UNCHANGED <<buf, closed, recvQ, sendQ, active, op, next, closing, owed, cancelled, masked,
                     canceller>>
  BY DEF CloseDone, Goto, Places
<1>1. TypeOK'
  BY <1>0 DEF TypeOK, PCs
<1>2. Places'
  BY <1>0 DEF Places, TypeOK
<1>3. CancelOnTheWay' /\ WakerExists'
  BY <1>0 DEF CancelOnTheWay, WakerExists, HasWaker, IsCancelled, TypeOK
<1>4. /\ \A u \in Tasks : op[u] # "none" => pc'[u] = pc[u]
      /\ \A u \in Tasks : pc[u] = "parked" /\ IsCancelled(u) => IsCancelled(u)'
  BY <1>0 DEF IsCancelled, TypeOK
<1> QED BY <1>0, <1>1, <1>2, <1>3, <1>4, AsideStep

-------------------------------------------------------------------------------
(* Cancelling *)

(* cancel_task: the flag, the mask, the wake; and the task's own mask. *)
LEMMA CancelStepKept ==
  ASSUME IInv, NEW t \in Tasks,
         CancelFlag(t) \/ CancelMask(t) \/ CancelWake(t) \/ ToggleMask(t)
  PROVE  IInv'
<1> USE DEF IInv, Core
<1>0. /\ UNCHANGED <<buf, closed, recvQ, sendQ, active, pc, op, next, closing>>
      /\ \/ ~cancelled[t] /\ cancelled' = [cancelled EXCEPT ![t] = TRUE] /\ masked' = masked
            /\ canceller' = [canceller EXCEPT ![t] = "flagged"] /\ owed' = owed
         \/ canceller[t] = "flagged" /\ UNCHANGED <<owed, cancelled, masked>>
            /\ canceller' = [canceller EXCEPT ![t] = IF masked[t] THEN "done" ELSE "waking"]
         \/ canceller[t] = "waking" /\ owed' = [owed EXCEPT ![t] = TRUE]
            /\ canceller' = [canceller EXCEPT ![t] = "done"] /\ UNCHANGED <<cancelled, masked>>
         \/ pc[t] = "idle" /\ masked' = [masked EXCEPT ![t] = ~masked[t]]
            /\ UNCHANGED <<owed, cancelled, canceller>>
  BY DEF CancelFlag, CancelMask, CancelWake, ToggleMask, AfterFlag, Schedule
<1>1. TypeOK'
  BY <1>0 DEF TypeOK
<1>2. Places'
  BY <1>0 DEF Places
<1>3. CancelOnTheWay'
  <2> SUFFICES ASSUME NEW u \in Tasks, pc[u] = "parked", IsCancelled(u)'
               PROVE  owed'[u] \/ canceller'[u] \in {"flagged", "waking"}
    BY <1>0 DEF CancelOnTheWay
  <2>0. /\ cancelled \in [Tasks -> BOOLEAN] /\ masked \in [Tasks -> BOOLEAN]
        /\ owed \in [Tasks -> BOOLEAN] /\ DOMAIN canceller = Tasks
    BY DEF TypeOK
  <2>1. CASE u # t
    <3>1. /\ cancelled'[u] = cancelled[u] /\ masked'[u] = masked[u] /\ owed'[u] = owed[u]
          /\ canceller'[u] = canceller[u]
      BY <1>0, <2>0, <2>1
    <3> QED BY <2>1, <3>1 DEF CancelOnTheWay, IsCancelled
  <2>2. CASE u = t
    BY <1>0, <2>0, <2>2 DEF CancelOnTheWay, IsCancelled
  <2> QED BY <2>1, <2>2
<1>4. WakerExists'
  <2> SUFFICES ASSUME NEW u \in Tasks, pc[u] = "parked", ~active[u] PROVE HasWaker(u)'
    BY <1>0 DEF WakerExists
  <2>1. HasWaker(u)
    BY DEF WakerExists
  <2>2. CASE owed[u]
    <3>1. owed'[u]
      BY <1>0, <2>2 DEF TypeOK
    <3> QED BY <3>1 DEF HasWaker
  <2>3. CASE \E v \in Tasks : pc[v] = "notify" /\ next[v] = u
    BY <1>0, <2>3 DEF HasWaker
  <2>4. CASE canceller[u] \in {"flagged", "waking"} /\ IsCancelled(u)
    <3>1. owed'[u] \/ (canceller'[u] \in {"flagged", "waking"} /\ cancelled'[u] /\ ~masked'[u])
      BY <1>0, <2>4 DEF IsCancelled, TypeOK
    <3> QED BY <3>1 DEF HasWaker, IsCancelled
  <2> QED BY <2>1, <2>2, <2>3, <2>4 DEF HasWaker
<1>5. /\ \A u \in Tasks : op[u] # "none" => pc'[u] = pc[u]
      /\ \A u \in Tasks : pc[u] = "parked" /\ IsCancelled(u) => IsCancelled(u)'
  BY <1>0 DEF IsCancelled, TypeOK
<1> QED BY <1>0, <1>1, <1>2, <1>3, <1>4, <1>5, AsideStep

-------------------------------------------------------------------------------
(* The invariant holds initially: nobody is in an operation. *)
LEMMA IInvInit == Init => IInv
<1> SUFFICES ASSUME Init PROVE IInv
  OBVIOUS
<1> USE TasksAssumption, CapacityAssumption DEF Init
<1>1. Entries(<<>>) = {} /\ Distinct(<<>>) /\ <<>> \in Seq(Tasks) /\ Len(<<>>) = 0
  BY EntriesOf, EmptySeq DEF Distinct
<1>2. TypeOK
  <2>1. buf \in Seq(Tasks) /\ Len(buf) <= Capacity /\ recvQ \in Seq(Tasks) /\ sendQ \in Seq(Tasks)
    BY <1>1
  <2>2. closing \in [Tasks -> Seq(Tasks)]
    BY <1>1
  <2>3. /\ closed \in BOOLEAN /\ pc \in [Tasks -> PCs] /\ op \in [Tasks -> {"none", "send", "recv"}]
        /\ next \in [Tasks -> Tasks \cup {NoTask}]
        /\ canceller \in [Tasks -> {"none", "flagged", "waking", "done"}]
    BY DEF PCs
  <2>4. /\ active \in [Tasks -> BOOLEAN] /\ owed \in [Tasks -> BOOLEAN]
        /\ cancelled \in [Tasks -> BOOLEAN] /\ masked \in [Tasks -> BOOLEAN]
    OBVIOUS
  <2> QED BY <2>1, <2>2, <2>3, <2>4 DEF TypeOK
<1>3. Places /\ ActiveFound /\ CancelOnTheWay /\ WakerExists
  BY DEF Places, ActiveFound, CancelOnTheWay, WakerExists
<1>4. Lines
  BY <1>1 DEF Lines, InLine
<1>5. NoStrandedValue /\ NoStrandedSlot
  BY DEF NoStrandedValue, NoStrandedSlot, Asleep
<1> QED BY <1>2, <1>3, <1>4, <1>5 DEF IInv, Core

(* Every step preserves the invariant. *)
LEMMA IInvStep == IInv /\ [Next]_vars => IInv'
<1> SUFFICES ASSUME IInv, [Next]_vars PROVE IInv'
  OBVIOUS
<1>1. CASE UNCHANGED vars
  <2>1. Core'
    BY <1>1 DEF IInv, vars, Core, TypeOK, Places, Lines, InLine, ActiveFound, Found, Line,
                CancelOnTheWay, WakerExists, HasWaker, IsCancelled
  <2>2. \A k \in Kinds : Asleep(k)' \subseteq Asleep(k) /\ Attentive(k) \subseteq Attentive(k)'
    BY <1>1 DEF vars, Asleep, Attentive, InOp, Takeable, IsCancelled
  <2> QED BY <1>1, <2>1, <2>2, CountsKept DEF vars
<1>2. ASSUME NEW t \in Tasks, TaskStep(t) \/ Resume(t) \/ CancelStep(t) PROVE IInv'
  BY <1>2, SendEnds, RecvEnds, ParkStep, UnregisterStep, NotifyStep, CloseVisitStep, CloseDoneStep,
     ResumeStep, CancelStepKept DEF TaskStep, SendStep, RecvStep, CancelStep
<1>3. ASSUME NEW t \in Tasks, Begin(t, "send") \/ Begin(t, "recv") PROVE IInv'
  BY <1>3, BeginStep DEF Kinds
<1>4. Senders \subseteq Tasks /\ Receivers \subseteq Tasks /\ Closers \subseteq Tasks
  BY DEF Tasks
<1> QED
  BY <1>1, <1>2, <1>3, <1>4, CloseStep, CancelStepKept, TasksAssumption DEF Next

(* Spec keeps the inductive invariant. *)
LEMMA Invariance == Spec => []IInv
BY IInvInit, IInvStep, PTL DEF Spec

(* The channel's state has its types, and the buffer never exceeds the         *)
(* capacity (scheduler.rs chan_send).                                          *)
THEOREM TypeCorrect == Spec => []TypeOK
<1>1. IInv => TypeOK
  BY DEF IInv, Core
<1> QED BY <1>1, Invariance, PTL

(* While a receiver sleeps, every buffered value of an open channel has a      *)
(* receiver of its own that is up or notified (scheduler.rs chan_send,         *)
(* chan_recv, take_channel_waiter).                                            *)
THEOREM ValueNotStranded == Spec => []NoStrandedValue
<1>1. IInv => NoStrandedValue
  BY DEF IInv
<1> QED BY <1>1, Invariance, PTL

(* While a sender sleeps, every free slot of an open channel has a sender of   *)
(* its own that is up or notified (scheduler.rs chan_recv, chan_send).         *)
THEOREM SlotNotStranded == Spec => []NoStrandedSlot
<1>1. IInv => NoStrandedSlot
  BY DEF IInv
<1> QED BY <1>1, Invariance, PTL

(* A parked task whose registration was deactivated has a wake coming          *)
(* (scheduler.rs take_channel_waiter, park_channel, cancel_task).              *)
THEOREM ParkedHasWaker == Spec => []WakerExists
<1>1. IInv => WakerExists
  BY DEF IInv, Core
<1> QED BY <1>1, Invariance, PTL

(* After a close every parked task is in the list of a closer (chan_close). *)
THEOREM CloseReaches == Spec => []CloseReachesAll
<1>1. ASSUME IInv PROVE CloseReachesAll
  <2>1. Entries(<<>>) = {}
    BY EntriesOf, EmptySeq
  <2> QED BY <1>1, <2>1 DEF IInv, Core, Lines, ActiveFound, Found, Line, CloseReachesAll
<1> QED BY <1>1, Invariance, PTL

-------------------------------------------------------------------------------
(* The channel implements the bounded queue. *)

(* The steps that end an operation take effect at once: a send or a receive    *)
(* that succeeds, one the close refuses, one a cancellation abandons.          *)
LEMMA EndRefines ==
  ASSUME NEW t \in Tasks,
         \/ SendCancelled(t) \/ SendClosed(t) \/ SendPush(t)
         \/ RecvCancelled(t) \/ RecvPop(t) \/ RecvClosed(t)
  PROVE  Queue!Next
<1>1. /\ op' = [op EXCEPT ![t] = "none"] /\ UNCHANGED <<closed, cancelled, masked>>
      /\ IsCancelled(t) <=> Queue!Cancelled(t)
  BY DEF SendCancelled, SendClosed, SendPush, RecvCancelled, RecvPop, RecvClosed,
         FinishTakingSender, FinishTakingReceiver, FinishAlone, Finish, IsCancelled, Queue!Cancelled
<1>2. CASE SendPush(t)
  <2>1. Queue!Put(t)
    BY <1>1, <1>2 DEF SendPush, AtTop, HasRoom, Queue!Put, Queue!End
  <2> QED BY <2>1 DEF Queue!Next
<1>3. CASE RecvPop(t)
  <2>1. Queue!Get(t)
    BY <1>1, <1>3 DEF RecvPop, AtTop, Queue!Get, Queue!End
  <2> QED BY <2>1 DEF Queue!Next
<1>4. CASE SendClosed(t) \/ RecvClosed(t)
  <2>1. Queue!Refuse(t)
    BY <1>1, <1>4 DEF SendClosed, RecvClosed, AtTop, Queue!Refuse, Queue!End
  <2> QED BY <2>1 DEF Queue!Next
<1>5. CASE SendCancelled(t) \/ RecvCancelled(t)
  <2>1. Queue!Abandon(t)
    BY <1>1, <1>5 DEF SendCancelled, RecvCancelled, AtTop, Queue!Abandon, Queue!End
  <2> QED BY <2>1 DEF Queue!Next
<1> QED BY <1>2, <1>3, <1>4, <1>5

(* Registering, waking, withdrawing and notifying are invisible in the queue. *)
LEMMA WaitingStutters ==
  ASSUME NEW t \in Tasks,
         \/ SendPark(t) \/ RecvPark(t) \/ Resume(t) \/ Unregister(t) \/ NotifyTaken(t)
         \/ CloseVisit(t) \/ CloseDone(t) \/ CancelMask(t) \/ CancelWake(t)
  PROVE  UNCHANGED Queue!vars
BY DEF SendPark, RecvPark, Resume, Unregister, NotifyTaken, CloseVisit, CloseDone,
       CancelMask, CancelWake, Queue!vars

(* Every behaviour of the channel is one of a bounded FIFO queue with close,   *)
(* whose operations take effect at one instant: whatever the retry loop of     *)
(* chan_send and chan_recv, the wait queues and the wakes do, no value is      *)
(* lost, duplicated or reordered, and no operation ends without a reason.      *)
THEOREM ImplementsQueue == Spec => QueueSafe
<1>1. Init => Queue!Init
  BY DEF Init, Queue!Init
<1>2. ASSUME IInv, [Next]_vars PROVE [Queue!Next]_(Queue!vars)
  <2>0. Senders \subseteq Tasks /\ Receivers \subseteq Tasks /\ Closers \subseteq Tasks
        /\ Cancellable \subseteq Tasks
    BY TasksAssumption DEF Tasks
  <2>i. \A t \in Tasks : pc[t] = "idle" => op[t] = "none"
    BY <1>2 DEF IInv, Core, Places
  <2>1. ASSUME NEW t \in Tasks, TaskStep(t) \/ Resume(t) \/ CancelStep(t)
        PROVE  [Queue!Next]_(Queue!vars)
    BY <2>1, EndRefines, WaitingStutters DEF TaskStep, SendStep, RecvStep, CancelStep
  <2>2. ASSUME NEW t \in Senders, Begin(t, "send") PROVE Queue!Next
    <3>1. Queue!Begin(t, "send")
      BY <2>0, <2>i, <2>2 DEF Begin, Queue!Begin
    <3> QED BY <3>1 DEF Queue!Next
  <2>3. ASSUME NEW t \in Receivers, Begin(t, "recv") PROVE Queue!Next
    <3>1. Queue!Begin(t, "recv")
      BY <2>0, <2>i, <2>3 DEF Begin, Queue!Begin
    <3> QED BY <3>1 DEF Queue!Next
  <2>4. ASSUME NEW t \in Closers, Close(t) PROVE Queue!Next
    BY <2>4 DEF Close, Queue!Close, Queue!Next
  <2>5. ASSUME NEW t \in Cancellable, CancelFlag(t) \/ ToggleMask(t) PROVE Queue!Next
    <3>1. Queue!Cancel(t) \/ Queue!Mask(t)
      BY <2>0, <2>i, <2>5 DEF CancelFlag, ToggleMask, Queue!Cancel, Queue!Mask
    <3> QED BY <3>1 DEF Queue!Next
  <2>6. CASE UNCHANGED vars
    BY <2>6 DEF vars, Queue!vars
  <2> QED BY <1>2, <2>1, <2>2, <2>3, <2>4, <2>5, <2>6 DEF Next
<1> QED BY <1>1, <1>2, Invariance, PTL DEF Spec, QueueSafe, Queue!Spec

===============================================================================
