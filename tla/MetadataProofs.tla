---------------------------- MODULE MetadataProofs ----------------------------
(* Proofs about journalled metadata updates, for any number of processes, any  *)
(* set of manifest versions and any number of crashes and hand edits: the      *)
(* manifest and its lock are published together, an interrupted update can be  *)
(* resumed, and no file is replaced that the update was not prepared against.  *)
EXTENDS MetadataTransaction, TLAPS

(***************************************************************************)
(* The inductive invariant.                                                *)
(***************************************************************************)
Holding == {"recover", "pre", "journal", "validate", "write", "remove"}

(* A process past LockFile is the owner of the advisory lock, and conversely.  *)
Exclusion == \A p \in Procs : pc[p] \in Holding <=> holder = p

(* Where a process is determines what it works on: in `finish` the journal on  *)
(* the disk, in `commit` its own transaction with no journal on the disk.      *)
Control ==
  \A p \in Procs :
    /\ pc[p] \in {"opened", "clear"} => seen[p] \in Versions
    /\ pc[p] \in {"pre", "journal"} => own[p] # NoTx /\ journal = NoTx
    /\ pc[p] \in {"validate", "write", "remove"} => journal # NoTx /\ doing[p] = journal
    /\ pc[p] = "pre" => at[p] <= NumChecks(own[p])
    /\ pc[p] = "validate" => at[p] <= NumChecks(journal)
    /\ pc[p] = "write" => at[p] <= Len(journal.edits)

(* What the files are worth while the user stays away from them.               *)
InStep ==
  /\ removed # NoTx => journal = NoTx
  /\ ~drift =>
       /\ journal = NoTx => file["lock"] = file["manifest"]
       /\ journal # NoTx => CanResume(journal)
       /\ removed # NoTx => CanResume(removed)

IsDone(i) == file[journal.edits[i].path] = journal.edits[i].after

(* How far `finish` has come.                                                  *)
Applied ==
  ~drift => \A p \in Procs :
    /\ pc[p] = "write" => \A i \in 1..(at[p] - 1) : IsDone(i)
    /\ pc[p] = "remove" => \A i \in DOMAIN journal.edits : IsDone(i)

(* A destination that `finish` has compared, and not yet replaced, holds what  *)
(* was accepted, or was edited by hand since.                                  *)
Validated ==
  \A p \in Procs :
    /\ pc[p] = "validate" => \A i \in 1..(at[p] - 1) :
         file[CheckedPath(journal, i)] \in Resumable(journal, i)
           \/ CheckedPath(journal, i) \in raced
    /\ pc[p] = "write" => \A i \in at[p]..Len(journal.edits) :
         file[journal.edits[i].path] \in {journal.edits[i].before, journal.edits[i].after}
           \/ journal.edits[i].path \in raced

IInv == TypeOK /\ Exclusion /\ Control /\ InStep /\ Applied /\ Validated

(***************************************************************************)
(* The two shapes of a transaction, spelt out.                             *)
(***************************************************************************)

(* A transaction that only writes the lock file.                               *)
LEMMA LockOnly ==
  ASSUME NEW m \in Versions, NEW l \in Contents, NEW x, x = Prepared(m, l, Absent)
  PROVE  /\ Len(x.edits) = 1 /\ DOMAIN x.edits = {1} /\ NumChecks(x) = 2
         /\ x.edits[1].path = "lock" /\ x.edits[1].before = l /\ x.edits[1].after = m
         /\ CheckedPath(x, 1) = "manifest" /\ CheckedPath(x, 2) = "lock"
         /\ Precondition(x, 1) = {m} /\ Precondition(x, 2) = {l}
         /\ Resumable(x, 1) = {m} /\ Resumable(x, 2) = {l, m}
<1>1. /\ x.edits = <<Edit("lock", l, m)>>
      /\ x.observed = <<[path |-> "manifest", expected |-> m]>>
  BY DEF Prepared
<1>2. /\ Len(x.edits) = 1 /\ DOMAIN x.edits = {1} /\ Len(x.observed) = 1
      /\ x.edits[1] = Edit("lock", l, m) /\ x.observed[1] = [path |-> "manifest", expected |-> m]
  BY <1>1
<1>3. Edited(x) = {"lock"}
  BY <1>2 DEF Edited, Edit
<1>4. Dest(x, 2) = Edit("lock", l, m)
  BY <1>2 DEF Dest
<1>5. IsObserved(x, 1) /\ ~IsObserved(x, 2)
  BY <1>2 DEF IsObserved
<1> QED
  BY <1>2, <1>3, <1>4, <1>5 DEF NumChecks, CheckedPath, Precondition, Resumable, Edit

(* A transaction that writes a new manifest and its lock file.                 *)
LEMMA Both ==
  ASSUME NEW m \in Versions, NEW l \in Contents, NEW n \in Versions, NEW x, x = Prepared(m, l, n)
  PROVE  /\ Len(x.edits) = 2 /\ DOMAIN x.edits = {1, 2} /\ NumChecks(x) = 3
         /\ x.edits[1].path = "manifest" /\ x.edits[1].before = m /\ x.edits[1].after = n
         /\ x.edits[2].path = "lock" /\ x.edits[2].before = l /\ x.edits[2].after = n
         /\ CheckedPath(x, 1) = "manifest" /\ CheckedPath(x, 2) = "manifest"
         /\ CheckedPath(x, 3) = "lock"
         /\ Precondition(x, 1) = {m} /\ Precondition(x, 2) = {m} /\ Precondition(x, 3) = {l}
         /\ Resumable(x, 1) = Contents /\ Resumable(x, 2) = {m, n} /\ Resumable(x, 3) = {l, n}
<1>0. n # Absent
  BY MetadataAssumption
<1>1. /\ x.edits = <<Edit("manifest", m, n), Edit("lock", l, n)>>
      /\ x.observed = <<[path |-> "manifest", expected |-> m]>>
  BY <1>0 DEF Prepared
<1>2. /\ Len(x.edits) = 2 /\ DOMAIN x.edits = {1, 2} /\ Len(x.observed) = 1
      /\ x.edits[1] = Edit("manifest", m, n) /\ x.edits[2] = Edit("lock", l, n)
      /\ x.observed[1] = [path |-> "manifest", expected |-> m]
  BY <1>1
<1>3. Edited(x) = {"manifest", "lock"}
  BY <1>2 DEF Edited, Edit
<1>4. Dest(x, 2) = Edit("manifest", m, n) /\ Dest(x, 3) = Edit("lock", l, n)
  BY <1>2 DEF Dest
<1>5. IsObserved(x, 1) /\ ~IsObserved(x, 2) /\ ~IsObserved(x, 3)
  BY <1>2 DEF IsObserved
<1> QED
  BY <1>2, <1>3, <1>4, <1>5 DEF NumChecks, CheckedPath, Precondition, Resumable, Edit

(* Every transaction has one of them.                                          *)
LEMMA Shapes ==
  ASSUME NEW x \in Transactions
  PROVE  \E m \in Versions, l \in Contents :
           \/ x = Prepared(m, l, Absent)
           \/ \E n \in Versions : x = Prepared(m, l, n)
BY DEF Transactions, Contents

AcceptedIn(x, fl) == \A i \in 1..NumChecks(x) : fl[CheckedPath(x, i)] \in Resumable(x, i)

PreparedIn(x, fl) == \A i \in 1..NumChecks(x) : fl[CheckedPath(x, i)] \in Precondition(x, i)

(* What resuming and preparing ask of the files, for each shape.               *)
LEMMA LockOnlyChecks ==
  ASSUME NEW m \in Versions, NEW l \in Contents, NEW x, x = Prepared(m, l, Absent), NEW fl
  PROVE  /\ AcceptedIn(x, fl) <=> fl["manifest"] = m /\ fl["lock"] \in {l, m}
         /\ PreparedIn(x, fl) <=> fl["manifest"] = m /\ fl["lock"] = l
<1>1. NumChecks(x) = 2 /\ 1..2 = {1, 2}
  BY LockOnly
<1> QED
  BY <1>1, LockOnly DEF AcceptedIn, PreparedIn

(* The same for an update of both files.                                       *)
LEMMA BothChecks ==
  ASSUME NEW m \in Versions, NEW l \in Contents, NEW n \in Versions, NEW x, x = Prepared(m, l, n),
         NEW fl, fl["manifest"] \in Contents
  PROVE  /\ AcceptedIn(x, fl) <=> fl["manifest"] \in {m, n} /\ fl["lock"] \in {l, n}
         /\ PreparedIn(x, fl) <=> fl["manifest"] = m /\ fl["lock"] = l
<1>1. NumChecks(x) = 3 /\ 1..3 = {1, 2, 3}
  BY Both
<1> QED
  BY <1>1, Both DEF AcceptedIn, PreparedIn

(***************************************************************************)
(* Types.                                                                  *)
(***************************************************************************)
(* What a command prepares is a transaction.                                   *)
LEMMA PreparedTyped ==
  ASSUME NEW m \in Versions, NEW l \in Contents, NEW n \in Contents
  PROVE  Prepared(m, l, n) \in Transactions
BY DEF Transactions

(* The content an update writes is one the file may have.                      *)
LEMMA EditTyped ==
  ASSUME NEW x \in Transactions, NEW i \in DOMAIN x.edits
  PROVE  /\ x.edits[i].path \in Files /\ x.edits[i].after \in Versions
         /\ i \in 1..2 /\ 1 \in DOMAIN x.edits /\ DOMAIN x.edits = 1..Len(x.edits)
<1>1. PICK m \in Versions, l \in Contents :
        x = Prepared(m, l, Absent) \/ \E n \in Versions : x = Prepared(m, l, n)
  BY Shapes
<1>2. CASE x = Prepared(m, l, Absent)
  BY <1>2, LockOnly DEF Files
<1>3. CASE \E n \in Versions : x = Prepared(m, l, n)
  BY <1>3, Both DEF Files
<1> QED
  BY <1>1, <1>2, <1>3

(* The end of an operation keeps the types of the process state.               *)
LEMMA ForgetTyped ==
  ASSUME TypeOK, NEW p \in Procs, Forget(p)
  PROVE  /\ pc' \in [Procs -> PCs] /\ seen' \in [Procs -> Contents]
         /\ goal' \in [Procs -> Contents] /\ own' \in [Procs -> Transactions \cup {NoTx}]
         /\ doing' \in [Procs -> Transactions \cup {NoTx}] /\ at' \in [Procs -> 1..3]
         /\ holder' \in Procs \cup {NoProc}
<1>1. Absent \in Contents /\ 1 \in 1..3 /\ "idle" \in PCs
  BY DEF Contents, PCs
<1> QED
  BY <1>1 DEF TypeOK, Forget

(* So does entering a loop of `commit` or `finish`.                            *)
LEMMA GotoTyped ==
  ASSUME TypeOK, NEW p \in Procs, NEW place \in PCs, Goto(p, place)
  PROVE  pc' \in [Procs -> PCs] /\ at' \in [Procs -> 1..3]
BY DEF TypeOK, Goto

(* Every step keeps the types.                                                 *)
LEMMA TypeStep ==
  ASSUME IInv, [Next]_vars
  PROVE  TypeOK'
<1> USE DEF IInv
<1>0. TypeOK /\ Absent \in Contents /\ Versions \subseteq Contents
  BY DEF Contents
<1>1. ASSUME NEW p \in Procs, Start(p)
      PROVE  TypeOK'
  <2>1. "opened" \in PCs
    BY DEF PCs
  <2> QED
    BY <1>0, <1>1, <2>1 DEF TypeOK, Start, disk
<1>2. ASSUME NEW p \in Procs, CheckJournal(p)
      PROVE  TypeOK'
  <2>1. "clear" \in PCs /\ "wait" \in PCs
    BY DEF PCs
  <2> QED
    BY <1>0, <1>2, <2>1 DEF TypeOK, CheckJournal, disk, cmd
<1>3. ASSUME NEW p \in Procs, ReadLock(p)
      PROVE  TypeOK'
  <2>1. "wait" \in PCs /\ seen[p] \in Versions /\ goal[p] \in Contents /\ file["lock"] \in Contents
    BY <1>3 DEF PCs, Control, ReadLock, TypeOK, Files
  <2>2. Prepared(seen[p], file["lock"], goal[p]) \in Transactions
    BY <2>1, PreparedTyped
  <2>3. CASE Forget(p)
    BY <1>0, <1>3, <2>3, ForgetTyped DEF TypeOK, ReadLock, disk
  <2>4. CASE ~Forget(p)
    BY <1>0, <1>3, <2>1, <2>2, <2>4 DEF TypeOK, ReadLock, disk
  <2> QED
    BY <2>3, <2>4
<1>4. ASSUME NEW p \in Procs, LockFile(p)
      PROVE  TypeOK'
  <2>1. "recover" \in PCs
    BY DEF PCs
  <2> QED
    BY <1>0, <1>4, <2>1 DEF TypeOK, LockFile, disk, cmd
<1>5. ASSUME NEW p \in Procs, RecoverLocked(p)
      PROVE  TypeOK'
  <2>1. "validate" \in PCs /\ "pre" \in PCs
    BY DEF PCs
  <2>2. CASE Forget(p)
    BY <1>0, <1>5, <2>2, ForgetTyped DEF TypeOK, RecoverLocked, disk, Pending
  <2>3. CASE ~Forget(p)
    <3>1. pc' \in [Procs -> PCs] /\ at' \in [Procs -> 1..3]
      BY <1>5, <2>1, <2>3, GotoTyped DEF RecoverLocked
    <3> QED
      BY <1>0, <1>5, <2>3, <3>1 DEF TypeOK, RecoverLocked, disk, Pending
  <2> QED
    BY <2>2, <2>3
<1>6. ASSUME NEW p \in Procs, Check(p)
      PROVE  TypeOK'
  <2>1. "journal" \in PCs /\ "write" \in PCs
    BY DEF PCs
  <2>2. CASE Forget(p) /\ UNCHANGED raced
    BY <1>0, <1>6, <2>2, ForgetTyped DEF TypeOK, Check, disk
  <2>3. CASE ~(Forget(p) /\ UNCHANGED raced)
    <3> DEFINE x == IF pc[p] = "pre" THEN own[p] ELSE doing[p]
    <3>1. /\ UNCHANGED <<holder, seen, goal, own, doing>> /\ UNCHANGED <<disk, drift, edits, crashes>>
          /\ raced' \subseteq raced
          /\ \/ at[p] < NumChecks(x) /\ at' = [at EXCEPT ![p] = @ + 1] /\ UNCHANGED pc
             \/ Goto(p, "journal") \/ Goto(p, "write")
      BY <1>6, <2>3 DEF Check
    <3>2. x \in Transactions
      BY <1>6 DEF Check, Control, TypeOK
    <3>3. NumChecks(x) \in 2..3
      <4>1. PICK m \in Versions, l \in Contents :
              x = Prepared(m, l, Absent) \/ \E n \in Versions : x = Prepared(m, l, n)
        BY <3>2, Shapes
      <4> HIDE DEF x
      <4> QED
        BY <4>1, LockOnly, Both
    <3> HIDE DEF x
    <3>4. pc' \in [Procs -> PCs] /\ at' \in [Procs -> 1..3]
      BY <1>0, <2>1, <3>1, <3>3, GotoTyped DEF TypeOK
    <3> QED
      BY <1>0, <3>1, <3>4 DEF TypeOK, disk
  <2> QED
    BY <2>2, <2>3
<1>7. ASSUME NEW p \in Procs, WriteJournal(p)
      PROVE  TypeOK'
  <2>1. "validate" \in PCs /\ own[p] \in Transactions
    BY <1>7 DEF PCs, WriteJournal, Control, TypeOK
  <2>2. pc' \in [Procs -> PCs] /\ at' \in [Procs -> 1..3]
    BY <1>7, <2>1, GotoTyped DEF WriteJournal
  <2>3. drift' \in BOOLEAN
    BY <1>7 DEF WriteJournal
  <2> QED
    BY <1>0, <1>7, <2>1, <2>2, <2>3 DEF TypeOK, WriteJournal
<1>8. ASSUME NEW p \in Procs, WriteFile(p)
      PROVE  TypeOK'
  <2>1. "remove" \in PCs /\ doing[p] \in Transactions /\ at[p] \in 1..Len(doing[p].edits)
    BY <1>8 DEF PCs, WriteFile, Control, TypeOK
  <2>2. /\ doing[p].edits[at[p]].path \in Files /\ doing[p].edits[at[p]].after \in Versions
        /\ at[p] \in 1..2
    <3>1. PICK m \in Versions, l \in Contents :
            doing[p] = Prepared(m, l, Absent) \/ \E n \in Versions : doing[p] = Prepared(m, l, n)
      BY <2>1, Shapes
    <3>2. DOMAIN doing[p].edits = 1..Len(doing[p].edits)
      BY <3>1, LockOnly, Both
    <3> QED
      BY <2>1, <3>2, EditTyped
  <2>3. file' \in [Files -> Contents] /\ file'["manifest"] \in Versions
    BY <1>0, <1>8, <2>2 DEF TypeOK, WriteFile, Files
  <2>4. pc' \in [Procs -> PCs] /\ at' \in [Procs -> 1..3]
    BY <1>0, <1>8, <2>1, <2>2, GotoTyped DEF TypeOK, WriteFile
  <2> QED
    BY <1>0, <1>8, <2>3, <2>4 DEF TypeOK, WriteFile
<1>9. ASSUME NEW p \in Procs, RemoveJournal(p)
      PROVE  TypeOK'
  <2>1. "pre" \in PCs
    BY DEF PCs
  <2>2. CASE Forget(p)
    BY <1>0, <1>9, <2>2, ForgetTyped DEF TypeOK, RemoveJournal
  <2>3. CASE ~Forget(p)
    <3>1. pc' \in [Procs -> PCs] /\ at' \in [Procs -> 1..3]
      BY <1>9, <2>1, <2>3, GotoTyped DEF RemoveJournal
    <3> QED
      BY <1>0, <1>9, <2>3, <3>1 DEF TypeOK, RemoveJournal
  <2> QED
    BY <2>2, <2>3
<1>10. ASSUME NEW p \in Procs, Crash(p)
       PROVE  TypeOK'
  BY <1>0, <1>10, ForgetTyped, MetadataAssumption DEF TypeOK, Crash, disk
<1>11. CASE PowerLoss
  <2>1. "idle" \in PCs
    BY DEF PCs
  <2> QED
    BY <1>0, <1>11, <2>1, MetadataAssumption DEF TypeOK, PowerLoss
<1>12. ASSUME NEW f \in Files, HandEdit(f)
       PROVE  TypeOK'
  <2>1. file' \in [Files -> Contents] /\ file'["manifest"] \in Versions
    BY <1>0, <1>12 DEF TypeOK, HandEdit, Files
  <2> QED
    BY <1>0, <1>12, <2>1, MetadataAssumption DEF TypeOK, HandEdit, cmd
<1>13. CASE UNCHANGED vars
  BY <1>0, <1>13 DEF TypeOK, vars, disk, cmd
<1> QED
  BY <1>1, <1>2, <1>3, <1>4, <1>5, <1>6, <1>7, <1>8, <1>9, <1>10, <1>11, <1>12, <1>13
     DEF Next, Step

(***************************************************************************)
(* Mutual exclusion and control.                                           *)
(***************************************************************************)

(* The end of an operation releases the lock if it was held.                   *)
LEMMA ForgetExclusion ==
  ASSUME TypeOK, Exclusion, NEW p \in Procs, Forget(p)
  PROVE  Exclusion'
BY MetadataAssumption DEF TypeOK, Exclusion, Forget, Holding

(* Every step keeps the advisory lock exclusive.                               *)
LEMMA ExclusionStep ==
  ASSUME IInv, [Next]_vars
  PROVE  Exclusion'
<1>0. TypeOK /\ Exclusion
  BY DEF IInv
<1>1. ASSUME NEW p \in Procs, Step(p) \/ Crash(p), Forget(p)
      PROVE  Exclusion'
  BY <1>0, <1>1, ForgetExclusion
<1>2. ASSUME NEW p \in Procs, Step(p) \/ Crash(p), ~Forget(p)
      PROVE  Exclusion'
  <2>1. CASE Start(p) \/ CheckJournal(p) \/ ReadLock(p)
    BY <1>0, <1>2, <2>1 DEF TypeOK, Exclusion, Holding, Start, CheckJournal, ReadLock
  <2>2. CASE LockFile(p)
    BY <1>0, <2>2, MetadataAssumption DEF TypeOK, Exclusion, Holding, LockFile
  <2>3. CASE RecoverLocked(p)
    BY <1>0, <1>2, <2>3 DEF TypeOK, Exclusion, Holding, RecoverLocked, Goto
  <2>4. CASE Check(p)
    <3>1. /\ pc[p] \in Holding /\ holder' = holder
          /\ UNCHANGED pc \/ Goto(p, "journal") \/ Goto(p, "write")
      BY <1>2, <2>4 DEF Check, Holding
    <3> QED
      BY <1>0, <3>1 DEF TypeOK, Exclusion, Holding, Goto
  <2>5. CASE WriteJournal(p)
    BY <1>0, <2>5 DEF TypeOK, Exclusion, Holding, WriteJournal, Goto
  <2>6. CASE WriteFile(p)
    BY <1>0, <2>6 DEF TypeOK, Exclusion, Holding, WriteFile, Goto
  <2>7. CASE RemoveJournal(p)
    BY <1>0, <1>2, <2>7 DEF TypeOK, Exclusion, Holding, RemoveJournal, Goto
  <2> QED
    BY <1>2, <2>1, <2>2, <2>3, <2>4, <2>5, <2>6, <2>7 DEF Step, Crash
<1>3. CASE PowerLoss
  BY <1>0, <1>3, MetadataAssumption DEF TypeOK, Exclusion, Holding, PowerLoss
<1>4. ASSUME NEW f \in Files, HandEdit(f)
      PROVE  Exclusion'
  BY <1>0, <1>4 DEF Exclusion, HandEdit
<1>5. CASE UNCHANGED vars
  BY <1>0, <1>5 DEF Exclusion, vars
<1> QED
  BY <1>1, <1>2, <1>3, <1>4, <1>5 DEF Next

(* While one process holds the lock, no other is in `commit` or `recover`.     *)
LEMMA Alone ==
  ASSUME Exclusion, NEW p \in Procs, pc[p] \in Holding, NEW q \in Procs, q # p
  PROVE  pc[q] \notin Holding
BY DEF Exclusion

(* A process outside `commit` and `recover` constrains nothing but what it saw. *)
LEMMA ControlStep ==
  ASSUME IInv, [Next]_vars
  PROVE  Control'
<1>0. TypeOK /\ Exclusion /\ Control
  BY DEF IInv
<1>1. ASSUME NEW p \in Procs, Step(p) \/ Crash(p), Forget(p), UNCHANGED journal
      PROVE  Control'
  BY <1>0, <1>1 DEF TypeOK, Control, Forget
<1>2. ASSUME NEW p \in Procs, Start(p) \/ CheckJournal(p)
      PROVE  Control'
  BY <1>0, <1>2 DEF TypeOK, Control, Start, CheckJournal, disk, cmd
<1>3. ASSUME NEW p \in Procs, ReadLock(p), ~Forget(p)
      PROVE  Control'
  BY <1>0, <1>3 DEF TypeOK, Control, ReadLock, disk
<1>4. ASSUME NEW p \in Procs, LockFile(p)
      PROVE  Control'
  BY <1>0, <1>4 DEF TypeOK, Control, LockFile, disk, cmd
<1>5. ASSUME NEW x \in Transactions
      PROVE  1 <= NumChecks(x) /\ 1 <= Len(x.edits) /\ NumChecks(x) \in Nat /\ Len(x.edits) \in Nat
  <2>1. PICK m \in Versions, l \in Contents :
          x = Prepared(m, l, Absent) \/ \E n \in Versions : x = Prepared(m, l, n)
    BY Shapes
  <2> QED
    BY <2>1, LockOnly, Both
<1>6. ASSUME NEW p \in Procs, RecoverLocked(p), ~Forget(p)
      PROVE  Control'
  <2>1. CASE journal # NoTx
    <3>1. journal \in Transactions
      BY <1>0, <2>1 DEF TypeOK
    <3> QED
      BY <1>0, <1>6, <2>1, <3>1, <1>5 DEF TypeOK, Control, RecoverLocked, Goto, Pending, disk
  <2>2. CASE journal = NoTx
    <3>1. own[p] \in Transactions /\ own[p] # NoTx
      BY <1>0, <1>6, <2>2 DEF TypeOK, RecoverLocked, Pending
    <3> QED
      BY <1>0, <1>6, <2>2, <3>1, <1>5 DEF TypeOK, Control, RecoverLocked, Goto, Pending, disk
  <2> QED
    BY <2>1, <2>2
<1>7. ASSUME NEW p \in Procs, Check(p), ~Forget(p)
      PROVE  Control'
  <2>1. UNCHANGED <<holder, seen, goal, own, doing, journal>>
    BY <1>7 DEF Check, disk
  <2>2. CASE pc[p] = "pre"
    <3>1. own[p] \in Transactions /\ own[p] # NoTx /\ journal = NoTx
      BY <1>0, <2>2 DEF TypeOK, Control
    <3>2. \/ at[p] < NumChecks(own[p]) /\ at' = [at EXCEPT ![p] = @ + 1] /\ UNCHANGED pc
          \/ Goto(p, "journal")
      BY <1>7, <2>2 DEF Check
    <3> QED
      BY <1>0, <1>5, <2>1, <2>2, <3>1, <3>2 DEF TypeOK, Control, Goto
  <2>3. CASE pc[p] = "validate"
    <3>1. journal \in Transactions /\ journal # NoTx /\ doing[p] = journal
      BY <1>0, <2>3 DEF TypeOK, Control
    <3>2. \/ at[p] < NumChecks(doing[p]) /\ at' = [at EXCEPT ![p] = @ + 1] /\ UNCHANGED pc
          \/ Goto(p, "write")
      BY <1>7, <2>3 DEF Check
    <3> QED
      BY <1>0, <1>5, <2>1, <2>3, <3>1, <3>2 DEF TypeOK, Control, Goto
  <2> QED
    BY <1>7, <2>2, <2>3 DEF Check
<1>8. ASSUME NEW p \in Procs, WriteJournal(p)
      PROVE  Control'
  <2>1. own[p] \in Transactions /\ own[p] # NoTx /\ pc[p] \in Holding
    BY <1>0, <1>8 DEF TypeOK, Control, WriteJournal, Holding
  <2>2. \A q \in Procs \ {p} : pc[q] \notin Holding
    BY <1>0, <2>1, Alone
  <2> QED
    BY <1>0, <1>5, <1>8, <2>1, <2>2 DEF TypeOK, Control, WriteJournal, Goto, Holding
<1>9. ASSUME NEW p \in Procs, WriteFile(p)
      PROVE  Control'
  <2>1. journal \in Transactions /\ journal # NoTx /\ doing[p] = journal
    BY <1>0, <1>9 DEF TypeOK, Control, WriteFile
  <2> QED
    BY <1>0, <1>5, <1>9, <2>1 DEF TypeOK, Control, WriteFile, LastEdit, Goto
<1>10. ASSUME NEW p \in Procs, RemoveJournal(p)
       PROVE  Control'
  <2>1. pc[p] \in Holding
    BY <1>10 DEF RemoveJournal, Holding
  <2>2. \A q \in Procs \ {p} : pc[q] \notin Holding
    BY <1>0, <2>1, Alone
  <2>3. own[p] # NoTx => own[p] \in Transactions
    BY <1>0 DEF TypeOK
  <2> QED
    BY <1>0, <1>5, <1>10, <2>2, <2>3 DEF TypeOK, Control, RemoveJournal, Forget, Goto, Holding
<1>11. CASE PowerLoss
  BY <1>11 DEF Control, PowerLoss
<1>12. ASSUME NEW f \in Files, HandEdit(f)
       PROVE  Control'
  BY <1>0, <1>12 DEF Control, HandEdit, cmd
<1>13. CASE UNCHANGED vars
  BY <1>0, <1>13 DEF Control, vars, disk, cmd
<1>14. ASSUME NEW p \in Procs, Step(p) \/ Crash(p)
       PROVE  Control'
  <2>1. CASE RemoveJournal(p) \/ WriteJournal(p)
    BY <1>8, <1>10, <2>1
  <2>2. CASE ~(RemoveJournal(p) \/ WriteJournal(p)) /\ Forget(p)
    <3>1. UNCHANGED journal
      BY <1>14, <2>2 DEF Step, Crash, Start, CheckJournal, ReadLock, LockFile, RecoverLocked, Check,
                        WriteFile, disk
    <3> QED
      BY <1>1, <1>14, <2>2, <3>1
  <2>3. CASE ~(RemoveJournal(p) \/ WriteJournal(p)) /\ ~Forget(p)
    BY <1>2, <1>3, <1>4, <1>6, <1>7, <1>9, <1>14, <2>3 DEF Step, Crash
  <2> QED
    BY <2>1, <2>2, <2>3
<1> QED
  BY <1>11, <1>12, <1>13, <1>14 DEF Next

(***************************************************************************)
(* The files and the journal.                                              *)
(***************************************************************************)
(* Files as prepared can be resumed from.                                      *)
LEMMA PreparedAccepted ==
  ASSUME NEW x \in Transactions, NEW fl \in [Files -> Contents],
         PreparedIn(x, fl)
  PROVE  AcceptedIn(x, fl)
<1>1. PICK m \in Versions, l \in Contents :
        x = Prepared(m, l, Absent) \/ \E n \in Versions : x = Prepared(m, l, n)
  BY Shapes
<1>2. fl["manifest"] \in Contents
  BY DEF Files
<1>3. CASE x = Prepared(m, l, Absent)
  BY <1>3, LockOnlyChecks
<1>4. ASSUME NEW n \in Versions, x = Prepared(m, l, n)
      PROVE  AcceptedIn(x, fl)
  BY <1>2, <1>4, BothChecks
<1> QED
  BY <1>1, <1>3, <1>4

(* Replacing a destination by its new content leaves the rest resumable.       *)
LEMMA WriteAccepted ==
  ASSUME NEW x \in Transactions, NEW fl \in [Files -> Contents], AcceptedIn(x, fl),
         NEW i \in DOMAIN x.edits,
         NEW gl, \A f \in Files :
                   gl[f] = IF f = x.edits[i].path THEN x.edits[i].after ELSE fl[f]
  PROVE  AcceptedIn(x, gl)
<1>1. PICK m \in Versions, l \in Contents :
        x = Prepared(m, l, Absent) \/ \E n \in Versions : x = Prepared(m, l, n)
  BY Shapes
<1>2. fl["manifest"] \in Contents
  BY DEF Files
<1>3. CASE x = Prepared(m, l, Absent)
  <2>1. i = 1 /\ x.edits[i].path = "lock" /\ x.edits[i].after = m
    BY <1>3, LockOnly
  <2>2. fl["manifest"] = m
    BY <1>3, LockOnlyChecks
  <2>3. gl["manifest"] = m /\ gl["lock"] = m
    BY <2>1, <2>2 DEF Files
  <2>4. AcceptedIn(x, gl) <=> gl["manifest"] = m /\ gl["lock"] \in {l, m}
    BY <1>3, LockOnlyChecks
  <2> QED
    BY <2>3, <2>4
<1>4. ASSUME NEW n \in Versions, x = Prepared(m, l, n)
      PROVE  AcceptedIn(x, gl)
  <2>1. fl["manifest"] \in {m, n} /\ fl["lock"] \in {l, n}
    BY <1>2, <1>4, BothChecks
  <2>2. i \in {1, 2} /\ x.edits[i].path \in Files /\ x.edits[i].after = n
    BY <1>4, Both DEF Files
  <2>3. gl["manifest"] \in {m, n} /\ gl["lock"] \in {l, n}
    BY <2>1, <2>2 DEF Files
  <2>4. gl["manifest"] \in Contents
    BY <2>3 DEF Contents
  <2>5. AcceptedIn(x, gl) <=> gl["manifest"] \in {m, n} /\ gl["lock"] \in {l, n}
    BY <1>4, <2>4, BothChecks
  <2> QED
    BY <2>3, <2>5
<1> QED
  BY <1>1, <1>3, <1>4

(* A complete update leaves a lock resolved from the manifest beside it.       *)
LEMMA CompleteTogether ==
  ASSUME NEW x \in Transactions, NEW fl \in [Files -> Contents], AcceptedIn(x, fl),
         \A i \in DOMAIN x.edits : fl[x.edits[i].path] = x.edits[i].after
  PROVE  fl["lock"] = fl["manifest"]
<1>1. PICK m \in Versions, l \in Contents :
        x = Prepared(m, l, Absent) \/ \E n \in Versions : x = Prepared(m, l, n)
  BY Shapes
<1>2. CASE x = Prepared(m, l, Absent)
  <2>1. fl["manifest"] = m
    BY <1>2, LockOnlyChecks
  <2> QED
    BY <1>2, <2>1, LockOnly
<1>3. CASE \E n \in Versions : x = Prepared(m, l, n)
  BY <1>3, Both
<1> QED
  BY <1>1, <1>2, <1>3

(* The steps that leave files, journal and history alone.                      *)
LEMMA InStepUnchanged ==
  ASSUME InStep, UNCHANGED <<file, journal, removed, drift>>
  PROVE  InStep'
BY DEF InStep, CanResume

(* Every step keeps files and journal in step.                                 *)
LEMMA InStepStep ==
  ASSUME IInv, [Next]_vars
  PROVE  InStep'
<1>0. /\ TypeOK /\ Control /\ InStep /\ Applied
      /\ file \in [Files -> Contents] /\ NoTx \notin Transactions
  BY NoTxAssumption DEF IInv, TypeOK
<1>1. ASSUME NEW p \in Procs, WriteJournal(p)
      PROVE  InStep'
  <2>1. own[p] \in Transactions /\ journal' = own[p] /\ removed' = NoTx /\ file' = file
    BY <1>0, <1>1 DEF TypeOK, Control, WriteJournal
  <2>2. ASSUME ~drift' PROVE AcceptedIn(own[p], file)
    <3>1. AsPrepared(own[p])
      BY <1>1, <2>2 DEF WriteJournal
    <3> QED
      BY <1>0, <2>1, <3>1, PreparedAccepted DEF AsPrepared, PreparedIn
  <2> QED
    BY <1>0, <2>1, <2>2 DEF InStep, CanResume, AcceptedIn
<1>2. ASSUME NEW p \in Procs, WriteFile(p)
      PROVE  InStep'
  <2>1. /\ journal \in Transactions /\ journal # NoTx /\ doing[p] = journal /\ removed = NoTx
        /\ at[p] \in 1..Len(journal.edits)
    BY <1>0, <1>2 DEF TypeOK, Control, WriteFile, InStep
  <2>2. at[p] \in DOMAIN journal.edits
    <3>1. PICK m \in Versions, l \in Contents :
            journal = Prepared(m, l, Absent) \/ \E n \in Versions : journal = Prepared(m, l, n)
      BY <2>1, Shapes
    <3> QED
      BY <2>1, <3>1, LockOnly, Both
  <2>3. /\ file' = [file EXCEPT ![journal.edits[at[p]].path] = journal.edits[at[p]].after]
        /\ UNCHANGED <<journal, removed, drift>>
    BY <1>2, <2>1 DEF WriteFile
  <2>4. ~drift => AcceptedIn(journal, file)
    BY <1>0, <2>1 DEF InStep, CanResume, AcceptedIn
  <2>5. \A f \in Files : file'[f] = IF f = journal.edits[at[p]].path
                                     THEN journal.edits[at[p]].after ELSE file[f]
    BY <1>0, <2>3
  <2>6. ~drift => AcceptedIn(journal, file')
    BY <1>0, <2>1, <2>2, <2>4, <2>5, WriteAccepted
  <2> QED
    BY <2>1, <2>3, <2>6 DEF InStep, CanResume, AcceptedIn
<1>3. ASSUME NEW p \in Procs, RemoveJournal(p)
      PROVE  InStep'
  <2>1. /\ journal \in Transactions /\ journal # NoTx
        /\ journal' = NoTx /\ removed' = journal /\ UNCHANGED <<file, drift>>
    BY <1>0, <1>3 DEF TypeOK, Control, RemoveJournal
  <2>2. ~drift => AcceptedIn(journal, file)
    BY <1>0, <2>1 DEF InStep, CanResume, AcceptedIn
  <2>3. ~drift => file["lock"] = file["manifest"]
    <3>1. ~drift => \A i \in DOMAIN journal.edits :
                       file[journal.edits[i].path] = journal.edits[i].after
      BY <1>0, <1>3 DEF Applied, IsDone, RemoveJournal
    <3> QED
      BY <1>0, <2>1, <2>2, <3>1, CompleteTogether
  <2> QED
    BY <2>1, <2>2, <2>3 DEF InStep, CanResume, AcceptedIn
<1>4. CASE PowerLoss
  <2>1. UNCHANGED <<file, drift>> /\ removed' = NoTx
    BY <1>4 DEF PowerLoss
  <2>2. journal' = journal \/ (journal = NoTx /\ removed # NoTx /\ journal' \in {NoTx, removed})
    BY <1>0, <1>4 DEF PowerLoss, InStep
  <2> QED
    BY <1>0, <2>1, <2>2 DEF InStep, CanResume
<1>5. ASSUME NEW f \in Files, HandEdit(f)
      PROVE  InStep'
  BY <1>0, <1>5 DEF InStep, HandEdit
<1>6. CASE UNCHANGED vars
  BY <1>0, <1>6, InStepUnchanged DEF vars, disk
<1>7. ASSUME NEW p \in Procs, Step(p) \/ Crash(p)
      PROVE  InStep'
  <2>1. CASE ~(WriteJournal(p) \/ WriteFile(p) \/ RemoveJournal(p))
    <3>1. UNCHANGED <<file, journal, removed, drift>>
      BY <1>7, <2>1 DEF Step, Crash, Start, CheckJournal, ReadLock, LockFile, RecoverLocked, Check, disk
    <3> QED
      BY <1>0, <3>1, InStepUnchanged
  <2> QED
    BY <1>1, <1>2, <1>3, <2>1
<1> QED
  BY <1>4, <1>5, <1>6, <1>7 DEF Next

(* Two edits of one transaction have different destinations.                   *)
LEMMA DistinctDestinations ==
  ASSUME NEW x \in Transactions
  PROVE  /\ DOMAIN x.edits = 1..Len(x.edits) /\ Len(x.edits) \in 1..2
         /\ \A i, j \in DOMAIN x.edits : x.edits[i].path = x.edits[j].path => i = j
<1>1. PICK m \in Versions, l \in Contents :
        x = Prepared(m, l, Absent) \/ \E n \in Versions : x = Prepared(m, l, n)
  BY Shapes
<1>2. CASE x = Prepared(m, l, Absent)
  BY <1>2, LockOnly
<1>3. CASE \E n \in Versions : x = Prepared(m, l, n)
  BY <1>3, Both
<1> QED
  BY <1>1, <1>2, <1>3

(* What a step of `finish` that replaces a file does, in terms of the journal. *)
LEMMA WriteFileEffect ==
  ASSUME IInv, NEW p \in Procs, WriteFile(p)
  PROVE  /\ journal \in Transactions /\ doing[p] = journal /\ journal' = journal
         /\ at[p] \in DOMAIN journal.edits
         /\ \A f \in Files : file'[f] = IF f = journal.edits[at[p]].path
                                         THEN journal.edits[at[p]].after ELSE file[f]
         /\ \A q \in Procs \ {p} : pc[q] \notin Holding /\ pc'[q] = pc[q]
         /\ \/ /\ at[p] = Len(journal.edits) /\ pc'[p] = "remove"
            \/ at[p] # Len(journal.edits) /\ pc'[p] = "write" /\ at'[p] = at[p] + 1
<1>0. TypeOK /\ Exclusion /\ Control /\ NoTx \notin Transactions
  BY NoTxAssumption DEF IInv
<1>1. journal \in Transactions /\ doing[p] = journal /\ journal' = journal
  BY <1>0 DEF TypeOK, Control, WriteFile
<1>2. at[p] \in DOMAIN journal.edits
  <2>1. at[p] \in 1..3 /\ at[p] <= Len(journal.edits)
    BY <1>0 DEF TypeOK, Control, WriteFile
  <2> QED
    BY <1>1, <2>1, DistinctDestinations
<1>3. \A f \in Files : file'[f] = IF f = journal.edits[at[p]].path
                                   THEN journal.edits[at[p]].after ELSE file[f]
  BY <1>0, <1>1 DEF TypeOK, WriteFile
<1>4. \A q \in Procs \ {p} : pc[q] \notin Holding /\ pc'[q] = pc[q]
  <2>1. pc[p] \in Holding
    BY DEF WriteFile, Holding
  <2>2. \A q \in Procs \ {p} : pc[q] \notin Holding
    BY <1>0, <2>1, Alone
  <2> QED
    BY <1>0, <2>2 DEF TypeOK, WriteFile, Goto
<1>5. \/ at[p] = Len(journal.edits) /\ pc'[p] = "remove"
      \/ at[p] # Len(journal.edits) /\ pc'[p] = "write" /\ at'[p] = at[p] + 1
  BY <1>0, <1>1 DEF TypeOK, WriteFile, LastEdit, Goto
<1> QED
  BY <1>1, <1>2, <1>3, <1>4, <1>5

(* Every step keeps the edits `finish` has passed applied.                     *)
LEMMA AppliedStep ==
  ASSUME IInv, [Next]_vars
  PROVE  Applied'
<1>0. TypeOK /\ Exclusion /\ Control /\ Applied
  BY DEF IInv
<1>1. ASSUME NEW p \in Procs, WriteFile(p)
      PROVE  Applied'
  <2>1. /\ journal \in Transactions /\ journal' = journal /\ at[p] \in DOMAIN journal.edits
        /\ \A f \in Files : file'[f] = IF f = journal.edits[at[p]].path
                                        THEN journal.edits[at[p]].after ELSE file[f]
        /\ \A q \in Procs \ {p} : pc[q] \notin Holding /\ pc'[q] = pc[q]
        /\ \/ at[p] = Len(journal.edits) /\ pc'[p] = "remove"
           \/ at[p] # Len(journal.edits) /\ pc'[p] = "write" /\ at'[p] = at[p] + 1
    BY <1>1, WriteFileEffect
  <2>2. /\ DOMAIN journal.edits = 1..Len(journal.edits) /\ Len(journal.edits) \in 1..2
        /\ \A i, j \in DOMAIN journal.edits : journal.edits[i].path = journal.edits[j].path => i = j
        /\ \A i \in DOMAIN journal.edits : journal.edits[i].path \in Files
    BY <2>1, DistinctDestinations, EditTyped
  <2>3. drift' = drift
    BY <1>1 DEF WriteFile
  <2>4. ASSUME ~drift, NEW i \in 1..at[p]
        PROVE  file'[journal.edits[i].path] = journal.edits[i].after
    <3>1. i \in DOMAIN journal.edits
      BY <2>1, <2>2
    <3>2. i # at[p] => file[journal.edits[i].path] = journal.edits[i].after
      <4>1. i # at[p] => i \in 1..(at[p] - 1)
        BY <2>1, <2>2
      <4> QED
        BY <1>0, <1>1, <2>4, <4>1 DEF Applied, IsDone, WriteFile
    <3> QED
      BY <2>1, <2>2, <3>1, <3>2
  <2>5. ASSUME ~drift', NEW q \in Procs, pc'[q] = "write", NEW i \in 1..(at'[q] - 1)
        PROVE  file'[journal.edits[i].path] = journal.edits[i].after
    <3>1. q = p /\ i \in 1..at[p]
      BY <2>1, <2>2, <2>5 DEF Holding
    <3> QED
      BY <2>3, <2>4, <2>5, <3>1
  <2>6. ASSUME ~drift', NEW q \in Procs, pc'[q] = "remove", NEW i \in DOMAIN journal.edits
        PROVE  file'[journal.edits[i].path] = journal.edits[i].after
    <3>1. q = p /\ i \in 1..at[p]
      BY <2>1, <2>2, <2>6 DEF Holding
    <3> QED
      BY <2>3, <2>4, <2>6, <3>1
  <2> QED
    BY <2>1, <2>5, <2>6 DEF Applied, IsDone
<1>2. ASSUME NEW p \in Procs, WriteJournal(p) \/ RemoveJournal(p)
      PROVE  Applied'
  <2>1. pc[p] \in Holding
    BY <1>2 DEF WriteJournal, RemoveJournal, Holding
  <2>2. \A q \in Procs \ {p} : pc[q] \notin Holding
    BY <1>0, <2>1, Alone
  <2>3. \A q \in Procs : pc'[q] \notin {"write", "remove"}
    BY <1>0, <1>2, <2>2 DEF TypeOK, WriteJournal, RemoveJournal, Forget, Goto, Holding
  <2> QED
    BY <2>3 DEF Applied
<1>3. ASSUME NEW p \in Procs, Step(p) \/ Crash(p),
             ~(WriteFile(p) \/ WriteJournal(p) \/ RemoveJournal(p))
      PROVE  Applied'
  <2>1. UNCHANGED <<file, journal, removed, drift>>
    BY <1>3 DEF Step, Crash, Start, CheckJournal, ReadLock, LockFile, RecoverLocked, Check, disk
  <2>2. \A q \in Procs \ {p} : pc'[q] = pc[q] /\ at'[q] = at[q]
    BY <1>0, <1>3 DEF TypeOK, Step, Crash, Start, CheckJournal, ReadLock, LockFile, RecoverLocked,
                      Check, Forget, Goto, cmd
  <2>3. pc'[p] # "remove" /\ (pc'[p] = "write" => at'[p] = 1)
    <3>1. CASE Check(p)
      BY <1>0, <3>1 DEF TypeOK, Check, Forget, Goto
    <3>2. CASE ~Check(p)
      BY <1>0, <1>3, <3>2 DEF TypeOK, Step, Crash, Start, CheckJournal, ReadLock, LockFile,
                              RecoverLocked, Forget, Goto
    <3> QED
      BY <3>1, <3>2
  <2>4. 1..(1 - 1) = {}
    OBVIOUS
  <2> QED
    BY <1>0, <2>1, <2>2, <2>3, <2>4 DEF Applied, IsDone
<1>4. CASE PowerLoss
  BY <1>4 DEF Applied, PowerLoss
<1>5. ASSUME NEW f \in Files, HandEdit(f)
      PROVE  Applied'
  BY <1>5 DEF Applied, HandEdit
<1>6. CASE UNCHANGED vars
  BY <1>0, <1>6 DEF Applied, IsDone, vars, disk, cmd
<1> QED
  BY <1>1, <1>2, <1>3, <1>4, <1>5, <1>6 DEF Next

(* How the checks of `finish` and its edits correspond; only an observed file   *)
(* that is edited too is checked twice, and the first check accepts anything.   *)
LEMMA ChecksOfEdits ==
  ASSUME NEW x \in Transactions
  PROVE  /\ NumChecks(x) \in 2..3 /\ Len(x.edits) = NumChecks(x) - 1
         /\ \A i \in 1..Len(x.edits) :
              /\ CheckedPath(x, i + 1) = x.edits[i].path
              /\ Resumable(x, i + 1) = {x.edits[i].before, x.edits[i].after}
         /\ \A i \in 1..NumChecks(x) : CheckedPath(x, i) \in Files
         /\ \A i, j \in 1..NumChecks(x) :
              j < i /\ CheckedPath(x, i) = CheckedPath(x, j) => Resumable(x, j) = Contents
<1>1. PICK m \in Versions, l \in Contents :
        x = Prepared(m, l, Absent) \/ \E n \in Versions : x = Prepared(m, l, n)
  BY Shapes
<1>2. CASE x = Prepared(m, l, Absent)
  <2>1. /\ Len(x.edits) = 1 /\ NumChecks(x) = 2
        /\ x.edits[1].path = "lock" /\ x.edits[1].before = l /\ x.edits[1].after = m
        /\ CheckedPath(x, 1) = "manifest" /\ CheckedPath(x, 2) = "lock"
        /\ Resumable(x, 2) = {l, m}
    BY <1>2, LockOnly
  <2>2. \A i \in 1..1 : i = 1 /\ i + 1 = 2
    OBVIOUS
  <2>3. \A i \in 1..2 : i = 1 \/ i = 2
    OBVIOUS
  <2>4. \A i, j \in 1..2 : j < i => j = 1 /\ i = 2
    BY <2>3
  <2>5. \A i \in 1..1 : /\ CheckedPath(x, i + 1) = x.edits[i].path
                        /\ Resumable(x, i + 1) = {x.edits[i].before, x.edits[i].after}
    BY <2>1, <2>2
  <2>6. \A i \in 1..2 : CheckedPath(x, i) \in Files
    BY <2>1, <2>3 DEF Files
  <2>7. \A i, j \in 1..2 : j < i => CheckedPath(x, i) # CheckedPath(x, j)
    BY <2>1, <2>4
  <2> QED
    BY <2>1, <2>5, <2>6, <2>7
<1>3. CASE \E n \in Versions : x = Prepared(m, l, n)
  <2>0. PICK n \in Versions : x = Prepared(m, l, n)
    BY <1>3
  <2>1. /\ Len(x.edits) = 2 /\ NumChecks(x) = 3
        /\ x.edits[1].path = "manifest" /\ x.edits[1].before = m /\ x.edits[1].after = n
        /\ x.edits[2].path = "lock" /\ x.edits[2].before = l /\ x.edits[2].after = n
        /\ CheckedPath(x, 1) = "manifest" /\ CheckedPath(x, 2) = "manifest"
        /\ CheckedPath(x, 3) = "lock"
        /\ Resumable(x, 1) = Contents /\ Resumable(x, 2) = {m, n} /\ Resumable(x, 3) = {l, n}
    BY <2>0, Both
  <2>2. \A i \in 1..2 : (i = 1 /\ i + 1 = 2) \/ (i = 2 /\ i + 1 = 3)
    OBVIOUS
  <2>3. \A i \in 1..3 : i = 1 \/ i = 2 \/ i = 3
    OBVIOUS
  <2>4. \A i, j \in 1..3 : j < i => j = 1 \/ (j = 2 /\ i = 3)
    BY <2>3
  <2>5. \A i \in 1..2 : /\ CheckedPath(x, i + 1) = x.edits[i].path
                        /\ Resumable(x, i + 1) = {x.edits[i].before, x.edits[i].after}
    BY <2>1, <2>2
  <2>6. \A i \in 1..3 : CheckedPath(x, i) \in Files
    BY <2>1, <2>3 DEF Files
  <2>7. \A i, j \in 1..3 : j < i /\ CheckedPath(x, i) = CheckedPath(x, j) => Resumable(x, j) = Contents
    BY <2>1, <2>4
  <2> QED
    BY <2>1, <2>5, <2>6, <2>7
<1> QED
  BY <1>1, <1>2, <1>3

(* Every step keeps what `finish` has validated valid.                         *)
LEMMA ValidatedStep ==
  ASSUME IInv, [Next]_vars
  PROVE  Validated'
<1>0. TypeOK /\ Exclusion /\ Control /\ Validated /\ file \in [Files -> Contents]
  BY DEF IInv, TypeOK
<1>1. ASSUME NEW p \in Procs, WriteFile(p)
      PROVE  Validated'
  <2>1. /\ journal \in Transactions /\ journal' = journal /\ at[p] \in DOMAIN journal.edits
        /\ \A f \in Files : file'[f] = IF f = journal.edits[at[p]].path
                                        THEN journal.edits[at[p]].after ELSE file[f]
        /\ \A q \in Procs \ {p} : pc[q] \notin Holding /\ pc'[q] = pc[q]
        /\ \/ at[p] = Len(journal.edits) /\ pc'[p] = "remove"
           \/ at[p] # Len(journal.edits) /\ pc'[p] = "write" /\ at'[p] = at[p] + 1
    BY <1>1, WriteFileEffect
  <2>2. /\ DOMAIN journal.edits = 1..Len(journal.edits) /\ Len(journal.edits) \in 1..2
        /\ \A i, j \in DOMAIN journal.edits : journal.edits[i].path = journal.edits[j].path => i = j
        /\ \A i \in DOMAIN journal.edits : journal.edits[i].path \in Files
    BY <2>1, DistinctDestinations, EditTyped
  <2>3. raced' = raced /\ \A q \in Procs : pc'[q] # "validate"
    BY <1>1, <2>1 DEF WriteFile, Holding
  <2>4. ASSUME NEW q \in Procs, pc'[q] = "write", NEW i \in at'[q]..Len(journal.edits)
        PROVE  \/ file'[journal.edits[i].path] \in {journal.edits[i].before, journal.edits[i].after}
               \/ journal.edits[i].path \in raced
    <3>1. q = p /\ i \in DOMAIN journal.edits /\ i # at[p] /\ i \in at[p]..Len(journal.edits)
      BY <2>1, <2>2, <2>4 DEF Holding
    <3>2. \/ file[journal.edits[i].path] \in {journal.edits[i].before, journal.edits[i].after}
          \/ journal.edits[i].path \in raced
      BY <1>0, <1>1, <3>1 DEF Validated, WriteFile
    <3>3. file'[journal.edits[i].path] = file[journal.edits[i].path]
      BY <2>1, <2>2, <3>1
    <3> QED
      BY <3>2, <3>3
  <2> QED
    BY <2>1, <2>3, <2>4 DEF Validated
<1>2. ASSUME NEW p \in Procs, Check(p), pc[p] = "validate", ~Forget(p)
      PROVE  Validated'
  <2> DEFINE path == CheckedPath(journal, at[p])
  <2>1. /\ journal \in Transactions /\ doing[p] = journal
        /\ at[p] \in 1..NumChecks(journal) /\ at[p] \in Nat /\ NumChecks(journal) \in Nat
    <3>1. journal \in Transactions /\ doing[p] = journal
      BY <1>0, <1>2 DEF TypeOK, Control
    <3>2. at[p] \in 1..3 /\ at[p] <= NumChecks(journal)
      BY <1>0, <1>2 DEF TypeOK, Control
    <3> QED
      BY <3>1, <3>2, ChecksOfEdits
  <2>2. /\ file[path] \in Resumable(journal, at[p]) /\ raced' = raced \ {path}
        /\ UNCHANGED <<file, journal>>
        /\ \/ at[p] < NumChecks(journal) /\ at' = [at EXCEPT ![p] = @ + 1] /\ UNCHANGED pc
           \/ at[p] >= NumChecks(journal) /\ Goto(p, "write")
    <3>1. file[CheckedPath(doing[p], at[p])] \in Resumable(doing[p], at[p])
      BY <1>2 DEF Check
    <3>2. raced' = raced \ {CheckedPath(doing[p], at[p])} /\ UNCHANGED <<file, journal>>
      BY <1>2, <3>1 DEF Check, disk
    <3>3. IF at[p] < NumChecks(doing[p])
          THEN at' = [at EXCEPT ![p] = @ + 1] /\ UNCHANGED pc ELSE Goto(p, "write")
      BY <1>2, <3>1 DEF Check
    <3> QED
      BY <2>1, <3>1, <3>2, <3>3
  <2>3. \A q \in Procs \ {p} : pc[q] \notin Holding /\ pc'[q] = pc[q]
    BY <1>0, <1>2, <2>2, Alone DEF TypeOK, Goto, Holding
  <2>4. ASSUME NEW i \in 1..at[p]
        PROVE  \/ file[CheckedPath(journal, i)] \in Resumable(journal, i)
               \/ CheckedPath(journal, i) \in raced'
    <3>1. CASE i = at[p]
      BY <2>2, <3>1
    <3>2. CASE i # at[p] /\ CheckedPath(journal, i) # path
      <4>1. i \in 1..(at[p] - 1)
        BY <2>1, <3>2
      <4> QED
        BY <1>0, <1>2, <2>2, <3>2, <4>1 DEF Validated
    <3>3. CASE i # at[p] /\ CheckedPath(journal, i) = path
      <4>1. i \in 1..NumChecks(journal) /\ i < at[p]
        BY <2>1, <3>3, ChecksOfEdits
      <4>2. Resumable(journal, i) = Contents /\ path \in Files
        BY <2>1, <3>3, <4>1, ChecksOfEdits
      <4> QED
        BY <1>0, <3>3, <4>2
    <3> QED
      BY <3>1, <3>2, <3>3
  <2>5. CASE at[p] < NumChecks(journal) /\ at' = [at EXCEPT ![p] = @ + 1] /\ UNCHANGED pc
    <3>1. at'[p] - 1 = at[p] /\ \A q \in Procs : pc'[q] \in {"validate", "write"} => q = p
      BY <1>0, <2>1, <2>3, <2>5 DEF TypeOK, Holding
    <3>2. pc'[p] = "validate"
      BY <1>2, <2>5
    <3> QED
      BY <2>2, <2>4, <3>1, <3>2 DEF Validated
  <2>6. CASE at[p] >= NumChecks(journal) /\ Goto(p, "write")
    <3>1. at[p] = NumChecks(journal)
      BY <2>1, <2>6, ChecksOfEdits
    <3>2. at'[p] = 1 /\ \A q \in Procs : pc'[q] # "validate" /\ (pc'[q] = "write" => q = p)
      BY <1>0, <2>3, <2>6 DEF TypeOK, Goto, Holding
    <3>3. ASSUME NEW i \in 1..Len(journal.edits)
          PROVE  \/ file[journal.edits[i].path] \in {journal.edits[i].before, journal.edits[i].after}
                 \/ journal.edits[i].path \in raced'
      <4>1. i + 1 \in 1..at[p]
        BY <2>1, <3>1, ChecksOfEdits
      <4>2. /\ CheckedPath(journal, i + 1) = journal.edits[i].path
            /\ Resumable(journal, i + 1) = {journal.edits[i].before, journal.edits[i].after}
        BY <2>1, ChecksOfEdits
      <4> QED
        BY <2>4, <4>1, <4>2
    <3> QED
      BY <2>2, <3>2, <3>3 DEF Validated
  <2> QED
    BY <2>2, <2>5, <2>6
<1>3. ASSUME NEW p \in Procs, Step(p) \/ Crash(p),
             ~(WriteFile(p) \/ (Check(p) /\ pc[p] = "validate" /\ ~Forget(p)))
      PROVE  Validated'
  <2>1. UNCHANGED file
    BY <1>3 DEF Step, Crash, Start, CheckJournal, ReadLock, LockFile, RecoverLocked, Check, disk,
                WriteJournal, RemoveJournal
  <2>2. raced' = raced
    <3>1. CASE Check(p)
      <4>1. CASE Forget(p)
        BY <1>0, <3>1, <4>1 DEF TypeOK, Check, Forget, Goto
      <4>2. CASE ~Forget(p)
        BY <1>3, <3>1, <4>2 DEF Check
      <4> QED
        BY <4>1, <4>2
    <3>2. CASE ~Check(p)
      BY <1>3, <3>2 DEF Step, Crash, Start, CheckJournal, ReadLock, LockFile, RecoverLocked,
                        WriteJournal, RemoveJournal
    <3> QED
      BY <3>1, <3>2
  <2>3. \A q \in Procs \ {p} : pc'[q] = pc[q] /\ at'[q] = at[q]
    BY <1>0, <1>3 DEF TypeOK, Step, Crash, Start, CheckJournal, ReadLock, LockFile, RecoverLocked,
                      Check, WriteJournal, RemoveJournal, Forget, Goto, cmd
  <2>4. pc'[p] # "write" /\ (pc'[p] = "validate" => at'[p] = 1)
    <3>1. CASE Check(p)
      BY <1>0, <1>3, <3>1 DEF TypeOK, Check, Forget, Goto
    <3>2. CASE ~Check(p)
      BY <1>0, <1>3, <3>2 DEF TypeOK, Step, Crash, Start, CheckJournal, ReadLock, LockFile,
                              RecoverLocked, WriteJournal, RemoveJournal, Forget, Goto
    <3> QED
      BY <3>1, <3>2
  <2>5. journal' = journal \/ \A q \in Procs \ {p} : pc[q] \notin Holding
    <3>1. CASE WriteJournal(p) \/ RemoveJournal(p)
      BY <1>0, <3>1, Alone DEF WriteJournal, RemoveJournal, Holding
    <3>2. CASE ~(WriteJournal(p) \/ RemoveJournal(p))
      BY <1>3, <3>2 DEF Step, Crash, Start, CheckJournal, ReadLock, LockFile, RecoverLocked, Check,
                        disk
    <3> QED
      BY <3>1, <3>2
  <2>6. 1..(1 - 1) = {}
    OBVIOUS
  <2> QED
    BY <1>0, <2>1, <2>2, <2>3, <2>4, <2>5, <2>6 DEF Validated, Holding
<1>4. CASE PowerLoss
  BY <1>4 DEF Validated, PowerLoss
<1>5. ASSUME NEW f \in Files, HandEdit(f)
      PROVE  Validated'
  <2>1. /\ raced' = raced \cup {f} /\ \A g \in Files : g # f => file'[g] = file[g]
        /\ UNCHANGED <<journal, pc, at>>
    BY <1>0, <1>5 DEF HandEdit, cmd
  <2>2. ASSUME NEW p \in Procs, pc[p] \in {"validate", "write"}
        PROVE  journal \in Transactions
    BY <1>0, <2>2 DEF TypeOK, Control
  <2>3. ASSUME NEW p \in Procs, pc[p] = "validate", NEW i \in 1..(at[p] - 1)
        PROVE  CheckedPath(journal, i) \in Files
    <3>1. at[p] \in 1..3 /\ at[p] <= NumChecks(journal)
      BY <1>0, <2>3 DEF TypeOK, Control
    <3> QED
      BY <2>2, <2>3, <3>1, ChecksOfEdits
  <2>4. ASSUME NEW p \in Procs, pc[p] = "write", NEW i \in at[p]..Len(journal.edits)
        PROVE  journal.edits[i].path \in Files
    <3>1. at[p] \in 1..3
      BY <1>0 DEF TypeOK
    <3>2. i \in DOMAIN journal.edits
      BY <2>2, <2>4, <3>1, DistinctDestinations
    <3> QED
      BY <2>2, <2>4, <3>2, EditTyped
  <2> QED
    BY <1>0, <2>1, <2>3, <2>4 DEF Validated
<1>6. CASE UNCHANGED vars
  BY <1>0, <1>6 DEF Validated, vars, disk, cmd
<1> QED
  BY <1>1, <1>2, <1>3, <1>4, <1>5, <1>6 DEF Next, Step

(***************************************************************************)
(* The theorems.                                                           *)
(***************************************************************************)
(* The invariant holds of a project nobody is updating.                        *)
LEMMA InitIInv == Init => IInv
<1> SUFFICES ASSUME Init PROVE IInv
  OBVIOUS
<1>1. PICK v \in Versions, l \in Contents :
        file = [f \in Files |-> IF f = "manifest" THEN v ELSE l]
  BY DEF Init
<1>2. file \in [Files -> Contents] /\ file["manifest"] \in Versions
  BY <1>1 DEF Files, Contents
<1>3. TypeOK
  <2>1. "idle" \in PCs /\ Absent \in Contents
    BY DEF PCs, Contents
  <2> QED
    BY <1>2, <2>1, MetadataAssumption DEF Init, TypeOK
<1>4. Exclusion /\ Control /\ Applied /\ Validated
  BY MetadataAssumption DEF Init, Exclusion, Control, Applied, Validated, Holding
<1>5. InStep
  BY DEF Init, InStep
<1> QED
  BY <1>3, <1>4, <1>5 DEF IInv

(* The inductive invariant of the specification.                               *)
LEMMA IInvInductive == Spec => []IInv
<1>1. IInv /\ [Next]_vars => IInv'
  BY TypeStep, ExclusionStep, ControlStep, InStepStep, AppliedStep, ValidatedStep DEF IInv
<1> QED
  BY <1>1, InitIInv, PTL DEF Spec

(* The disk and every process of the metadata tool keep their types: in        *)
(* particular a journal is always a transaction some command prepared.         *)
THEOREM MetadataTypes == Spec => []TypeOK
<1>1. IInv => TypeOK
  BY DEF IInv
<1> QED
  BY <1>1, IInvInductive, PTL

(* However many processes commit, recover, die or lose power, the lock beside  *)
(* a manifest is the one resolved from it once no journal is pending, unless   *)
(* the user has edited a file (transaction.rs commit, recover, finish).        *)
THEOREM ManifestAndLockTogether == Spec => []PublishedTogether
<1>1. IInv => PublishedTogether
  BY DEF IInv, InStep, PublishedTogether
<1> QED
  BY <1>1, IInvInductive, PTL

(* An interrupted update the user has not interfered with is always accepted   *)
(* by the validation of `finish`: recovery never refuses its own work.         *)
THEOREM InterruptedUpdateResumes == Spec => []InterruptionRecoverable
<1>1. IInv => InterruptionRecoverable
  BY DEF IInv, InStep, InterruptionRecoverable
<1> QED
  BY <1>1, IInvInductive, PTL

(* The tool replaces a file only where it holds the content the journalled     *)
(* transaction was prepared against, or was edited after its validation        *)
(* (transaction.rs finish).                                                    *)
THEOREM CompareAndReplace == Spec => NoForeignOverwrite
<1> DEFINE Allowed == \A f \in Files : ToolWrites(f) => journal # NoTx /\ (Expected(f) \/ f \in raced)
<1>1. IInv /\ [Next]_vars => [Allowed]_vars
  <2> SUFFICES ASSUME IInv, Next, NEW f \in Files, ToolWrites(f)
               PROVE  journal # NoTx /\ (Expected(f) \/ f \in raced)
    OBVIOUS
  <2>0. TypeOK /\ Validated /\ NoTx \notin Transactions /\ file'[f] # file[f] /\ edits' = edits
    BY NoTxAssumption DEF IInv, ToolWrites
  <2>1. ASSUME NEW p \in Procs, WriteFile(p)
        PROVE  journal # NoTx /\ (Expected(f) \/ f \in raced)
    <3>1. /\ journal \in Transactions /\ at[p] \in DOMAIN journal.edits
          /\ file'[f] = IF f = journal.edits[at[p]].path THEN journal.edits[at[p]].after ELSE file[f]
      BY <2>1, WriteFileEffect
    <3>2. f = journal.edits[at[p]].path /\ file[f] # journal.edits[at[p]].after
      BY <2>0, <3>1
    <3>3. at[p] \in at[p]..Len(journal.edits)
      BY <3>1, DistinctDestinations
    <3>4. \/ file[f] \in {journal.edits[at[p]].before, journal.edits[at[p]].after}
          \/ f \in raced
      BY <2>0, <2>1, <3>2, <3>3 DEF Validated, WriteFile
    <3> QED
      BY <2>0, <3>1, <3>2, <3>4 DEF Expected
  <2>2. ASSUME NEW g \in Files, HandEdit(g)
        PROVE  FALSE
    BY <2>0, <2>2 DEF HandEdit, TypeOK
  <2>3. CASE PowerLoss
    BY <2>0, <2>3 DEF PowerLoss
  <2>4. ASSUME NEW p \in Procs, Step(p) \/ Crash(p), ~WriteFile(p)
        PROVE  FALSE
    BY <2>0, <2>4 DEF Step, Crash, Start, CheckJournal, ReadLock, LockFile, RecoverLocked, Check, disk,
                      WriteJournal, RemoveJournal
  <2> QED
    BY <2>1, <2>2, <2>3, <2>4 DEF Next
<1>2. [][Next]_vars /\ []IInv => [][Allowed]_vars
  BY <1>1, PTL
<1> QED
  BY <1>2, IInvInductive, PTL DEF Spec, NoForeignOverwrite
===============================================================================
