------------------------------ MODULE ServerProofs -----------------------------
(* Proofs about what the daemon does for its clients.                          *)
(*                                                                             *)
(* Its session, for any number of requests, files and edits: an answer is      *)
(* never older than its request, whichever request published last and however  *)
(* edits fall between stat, read, publication and snapshot.                    *)
(*                                                                             *)
(* A supervised run, for any output streams and any capacities of the queues:  *)
(* there is one credit for standard input, wherever it is between the daemon's *)
(* input thread and the client's terminal, and a client that is told the       *)
(* result has all of the output.                                               *)
EXTENDS Session, Supervision, SequenceTheorems, FiniteSetTheorems, TLAPS

(***************************************************************************)
(* The inductive invariant.                                                *)
(***************************************************************************)
Publishing == {"stat", "read", "drain"}

(* The session lock is held exactly while a request publishes; a request that  *)
(* has not got there has fetched nothing.                                      *)
Exclusion ==
  \A r \in Requests :
    /\ pc[r] \in Publishing <=> lock = r
    /\ pc[r] \in {"begin", "inventory", "lock"} => fetched[r] = Nothing

(* Time only goes forward: no stamp is ahead of the edits made, and what is on *)
(* the disk is at least as new as anything a request has seen there.  Of a     *)
(* missing file nothing is asked.                                              *)
Forward ==
  /\ manifest <= edits
  /\ \A f \in Files : disk[f] <= edits
  /\ \A r \in Requests :
       /\ base[r].manifest <= manifest
       /\ \A f \in Files : base[r].text[f] <= disk[f]
       /\ pc[r] = "read" =>
            /\ reading[r].file \in Files
            /\ reading[r].stat <= edits
            /\ disk[reading[r].file] # 0 => reading[r].stat <= disk[reading[r].file]

(* A text is never older than the stat kept with it: the stat gate may trust   *)
(* an equal stat.                                                              *)
NotOlder(text, stat) == \A f \in Files : text[f] # 0 => stat[f] <= text[f]
Gated ==
  /\ NotOlder(db.text, stats)
  /\ \A r \in Requests : NotOlder(fetched[r].text, fetched[r].stat)

(* Inputs that are at least as new as the disk was when the request began.     *)
Fresh(r, m, text) ==
  /\ m >= base[r].manifest
  /\ \A f \in Files : text[f] # 0 => text[f] >= base[r].text[f]

(* A request that has published finds fresh inputs in the session, and so does *)
(* everybody it may still wait for: what the holder of the lock has collected  *)
(* is fresh for it too.                                                        *)
SessionFresh ==
  \A r \in Requests :
    /\ pc[r] \in {"snapshot", "running"} => Fresh(r, db.manifest, db.text)
    /\ pc[r] \in {"running", "answered"} => Fresh(r, snap[r].manifest, snap[r].text)
    /\ \A x \in Requests :
         pc[x] \in Publishing /\ (r = x \/ pc[r] \in {"snapshot", "running"}) =>
           Fresh(r, prepared[x].manifest, fetched[x].text)

IInv == TypeOK /\ Exclusion /\ Forward /\ Gated /\ SessionFresh

(* The values that stand for nothing collected have their types. *)
LEMMA Blanks ==
  /\ 0 \in Stamps /\ NoTexts \in Texts /\ NoInputs \in Inputs
  /\ Nothing \in [text : Texts, stat : Texts]
  /\ NoFile \in [file : Files \cup {None}, stat : Stamps]
  /\ Unprepared \in [manifest : Stamps, files : SUBSET Files]
<1>1. 0 \in Stamps /\ NoTexts \in Texts
  BY EditBound DEF Stamps, NoTexts, Texts
<1> QED BY <1>1 DEF NoInputs, Inputs, Nothing, NoFile, Unprepared

(* The invariant holds initially. *)
LEMMA IInvInit == Init => IInv
<1> SUFFICES ASSUME Init PROVE IInv
  OBVIOUS
<1>1. TypeOK
  BY Blanks DEF Init, TypeOK
<1> USE NoneAssumption DEF Init, NoTexts, NoInputs, Nothing, NoFile, Unprepared
<1>2. Exclusion
  BY DEF Exclusion, Publishing
<1>3. Forward
  BY DEF Forward
<1>4. Gated
  BY DEF Gated, NotOlder
<1>5. SessionFresh
  BY DEF SessionFresh, Publishing
<1> QED BY <1>1, <1>2, <1>3, <1>4, <1>5 DEF IInv

-------------------------------------------------------------------------------
(* Preparation. *)

(* Beginning a request takes the disk as its base. *)
LEMMA BeginStep == ASSUME IInv, NEW r \in Requests, Begin(r) PROVE IInv'
<1> USE EditBound DEF IInv, Begin, Goto, disks, session
<1>1. TypeOK'
  <2>1. base' \in [Requests -> Inputs]
    BY DEF TypeOK, Inputs
  <2>2. prepared' \in [Requests -> [manifest : Stamps, files : SUBSET Files]]
    BY DEF TypeOK
  <2> QED BY <2>1, <2>2 DEF TypeOK
<1>2. Exclusion'
  BY DEF Exclusion, TypeOK, Publishing
<1>3. Forward'
  BY DEF Forward, TypeOK, Texts, Stamps
<1>4. Gated'
  BY DEF Gated
<1>5. SessionFresh'
  BY DEF SessionFresh, Fresh, TypeOK, Publishing
<1> QED BY <1>1, <1>2, <1>3, <1>4, <1>5

(* The inventory is not part of what freshness is about. *)
LEMMA InventoryStep == ASSUME IInv, NEW r \in Requests, CollectInventory(r) PROVE IInv'
<1> USE DEF IInv, CollectInventory, Goto, disks, session
<1>1. TypeOK'
  BY DEF TypeOK
<1>2. Exclusion'
  BY DEF Exclusion, TypeOK, Publishing
<1>3. Forward'
  BY DEF Forward, TypeOK
<1>4. Gated'
  BY DEF Gated
<1>5. SessionFresh'
  BY DEF SessionFresh, Fresh, TypeOK, Publishing
<1> QED BY <1>1, <1>2, <1>3, <1>4, <1>5

-------------------------------------------------------------------------------
(* Publication. *)

(* At the lock the prepared manifest is compared with the disk, which is at    *)
(* least as new as anybody's base.                                             *)
LEMMA LockStep == ASSUME IInv, NEW r \in Requests, Lock(r) PROVE IInv'
<1> USE DEF IInv, Goto, disks, session
<1>0. /\ UNCHANGED <<disk, manifest, edits, db, stats, cancelling, base, prepared, fetched, reading, snap>>
      /\ lock = None /\ pc[r] = "lock" /\ fetched[r] = Nothing
  BY DEF Lock, Exclusion
<1>1. TypeOK'
  BY DEF Lock, TypeOK
<1>2. Exclusion'
  BY <1>0, NoneAssumption DEF Lock, Exclusion, TypeOK, Publishing
<1>3. Forward'
  BY <1>0 DEF Lock, Forward, TypeOK
<1>4. Gated'
  BY <1>0 DEF Gated
<1>5. SessionFresh'
  <2>1. CASE Observed(r) /\ Goto(r, "lock", "stat")
    <3>1. \A q \in Requests : Fresh(q, prepared[r].manifest, fetched[r].text)
      BY <2>1, <1>0 DEF Fresh, Observed, Forward, Nothing, NoTexts, TypeOK, Inputs, Stamps
    <3>2. \A x \in Requests : x # r => pc[x] \notin Publishing
      BY <1>0, NoneAssumption DEF Exclusion
    <3> QED BY <1>0, <2>1, <3>1, <3>2 DEF SessionFresh, Fresh, TypeOK, Publishing
  <2>2. CASE Goto(r, "lock", "failed")
    BY <1>0, <2>2 DEF SessionFresh, Fresh, TypeOK, Publishing
  <2> QED BY <2>1, <2>2 DEF Lock
<1> QED BY <1>1, <1>2, <1>3, <1>4, <1>5

(* What is fetched of a file. *)
LEMMA FetchEffect ==
  ASSUME TypeOK, NEW r \in Requests, NEW f \in Files, NEW text \in Stamps, NEW stat \in Stamps,
         Fetch(r, f, text, stat)
  PROVE  /\ fetched' \in [Requests -> [text : Texts, stat : Texts]]
         /\ todo' \in [Requests -> SUBSET Files]
         /\ \A x \in Requests : x # r => fetched'[x] = fetched[x]
         /\ fetched'[r].text = [fetched[r].text EXCEPT ![f] = text]
         /\ fetched'[r].stat = [fetched[r].stat EXCEPT ![f] = stat]
<1>1. /\ fetched \in [Requests -> [text : Texts, stat : Texts]]
      /\ todo \in [Requests -> SUBSET Files]
  BY DEF TypeOK
<1>2. todo' \in [Requests -> SUBSET Files]
  BY <1>1 DEF Fetch
<1>3. /\ \A x \in Requests : x # r => fetched'[x] = fetched[x]
      /\ fetched'[r].text = [fetched[r].text EXCEPT ![f] = text]
      /\ fetched'[r].stat = [fetched[r].stat EXCEPT ![f] = stat]
  BY <1>1 DEF Fetch
<1>4. fetched' \in [Requests -> [text : Texts, stat : Texts]]
  BY <1>1 DEF Fetch, Texts
<1> QED BY <1>2, <1>3, <1>4

(* A file is fetched that is no older than its stat and no older than any base. *)
LEMMA FetchStep ==
  ASSUME IInv, NEW r \in Requests, pc[r] \in Publishing, NEW to \in Publishing,
         pc' = [pc EXCEPT ![r] = to], to # "read", lock' = lock,
         NEW f \in Files, NEW text \in Stamps, NEW stat \in Stamps, Fetch(r, f, text, stat),
         text # 0, stat <= text, \A q \in Requests : text >= base[q].text[f],
         reading' \in [Requests -> [file : Files \cup {None}, stat : Stamps]],
         \A q \in Requests : q # r => reading'[q] = reading[q],
         UNCHANGED <<disks, session, cancelling, base, prepared, snap>>
  PROVE  IInv'
<1> USE DEF IInv, disks, session
<1>0. /\ fetched' \in [Requests -> [text : Texts, stat : Texts]]
      /\ todo' \in [Requests -> SUBSET Files]
      /\ \A x \in Requests : x # r => fetched'[x] = fetched[x]
      /\ fetched'[r].text = [fetched[r].text EXCEPT ![f] = text]
      /\ fetched'[r].stat = [fetched[r].stat EXCEPT ![f] = stat]
  BY FetchEffect
<1>a. fetched[r].text \in [Files -> Stamps] /\ fetched[r].stat \in [Files -> Stamps]
  BY DEF TypeOK, Texts
<1>1. TypeOK'
  BY <1>0 DEF TypeOK, Publishing
<1>2. Exclusion'
  BY <1>0 DEF Exclusion, TypeOK, Publishing
<1>3. Forward'
  BY <1>0 DEF Forward, TypeOK
<1>4. Gated'
  <2>1. NotOlder(fetched[r].text, fetched[r].stat) => NotOlder(fetched'[r].text, fetched'[r].stat)
    BY <1>0, <1>a DEF NotOlder
  <2> QED BY <1>0, <2>1 DEF Gated, NotOlder
<1>5. SessionFresh'
  <2>1. \A q, x \in Requests : Fresh(q, prepared[x].manifest, fetched[x].text)
                                 => Fresh(q, prepared[x].manifest, fetched[x].text)'
    <3> SUFFICES ASSUME NEW q \in Requests, Fresh(q, prepared[r].manifest, fetched[r].text)
                 PROVE  Fresh(q, prepared[r].manifest, fetched[r].text)'
      BY <1>0 DEF Fresh
    <3> QED BY <1>0, <1>a DEF Fresh
  <2>2. \A x \in Requests : (pc[x] \in Publishing <=> pc'[x] \in Publishing)
          /\ (pc'[x] \in {"snapshot", "running", "answered"} => pc'[x] = pc[x])
    BY DEF TypeOK, Publishing
  <2> QED BY <2>1, <2>2 DEF SessionFresh, Fresh
<1> QED BY <1>1, <1>2, <1>3, <1>4, <1>5

(* The stat gate: an equal stat vouches for the loaded text; that of a missing *)
(* file vouches for nothing, and nothing is asked of it.                       *)
LEMMA StatStep == ASSUME IInv, NEW r \in Requests, NEW f \in Files, Stat(r, f) PROVE IInv'
<1> USE DEF IInv, Goto
<1>0. disk[f] \in Stamps /\ db.text[f] \in Stamps /\ stats[f] \in Stamps
  BY DEF TypeOK, Texts, Inputs
<1>1. CASE StatGate(f) /\ Goto(r, "stat", "stat") /\ Fetch(r, f, db.text[f], disk[f])
             /\ UNCHANGED reading
  <2>1. db.text[f] # 0 /\ disk[f] <= db.text[f]
    BY <1>1 DEF StatGate, Gated, NotOlder
  <2>2. \A q \in Requests : db.text[f] >= base[q].text[f]
    BY <2>1, <1>0, EditBound DEF Forward, TypeOK, Inputs, Texts, Stamps
  <2> QED
    BY <1>0, <1>1, <2>1, <2>2, FetchStep DEF Stat, Publishing, TypeOK
<1>2. CASE ~StatGate(f) /\ Goto(r, "stat", "read") /\ UNCHANGED <<todo, fetched>>
             /\ reading' = [reading EXCEPT ![r] = [file |-> f, stat |-> disk[f]]]
  <2>0. UNCHANGED <<disk, manifest, edits, lock, db, stats, cancelling, base, prepared, snap>>
    BY DEF Stat, disks, session
  <2>1. TypeOK'
    BY <1>0, <1>2, <2>0 DEF TypeOK
  <2>2. Exclusion'
    BY <1>2, <2>0 DEF Exclusion, TypeOK, Publishing
  <2>3. Forward'
    BY <1>0, <1>2, <2>0, EditBound DEF Forward, TypeOK, Stamps
  <2>4. Gated'
    BY <1>2, <2>0 DEF Gated
  <2>5. SessionFresh'
    BY <1>2, <2>0 DEF SessionFresh, Fresh, TypeOK, Publishing
  <2> QED BY <2>1, <2>2, <2>3, <2>4, <2>5
<1> QED BY <1>1, <1>2 DEF Stat

(* A read keeps the older stat with the newer text. *)
LEMMA ReadStep == ASSUME IInv, NEW r \in Requests, Read(r) PROVE IInv'
<1> USE DEF IInv, Goto
<1> DEFINE f == reading[r].file
<1>0. /\ pc[r] = "read" /\ f \in Files /\ disk[f] \in Stamps /\ reading[r].stat \in Stamps
      /\ disk[f] # 0 => reading[r].stat <= disk[f]
  BY DEF Read, Forward, TypeOK, Texts
<1>a. /\ reading' = [reading EXCEPT ![r] = NoFile]
      /\ NoFile \in [file : Files \cup {None}, stat : Stamps]
      /\ UNCHANGED <<disks, session, cancelling, base, prepared, snap>>
  BY Blanks DEF Read
<1>1. CASE disk[f] # 0 /\ Goto(r, "read", "stat") /\ Fetch(r, f, disk[f], reading[r].stat)
             /\ UNCHANGED lock
  <2>1. \A q \in Requests : disk[f] >= base[q].text[f]
    BY <1>0, <1>1, EditBound DEF Forward, TypeOK, Inputs, Texts, Stamps
  <2> QED
    BY <1>0, <1>a, <1>1, <2>1, FetchStep DEF Publishing, TypeOK
<1>2. CASE disk[f] = 0 /\ Goto(r, "read", "failed") /\ lock' = None /\ UNCHANGED <<todo, fetched>>
  <2>0. UNCHANGED <<disk, manifest, edits, db, stats>>
    BY <1>a DEF disks, session
  <2>1. TypeOK'
    BY <1>a, <1>2, <2>0 DEF TypeOK
  <2>2. Exclusion'
    BY <1>2, <2>0, NoneAssumption DEF Exclusion, TypeOK, Publishing
  <2>3. Forward'
    BY <1>a, <1>2, <2>0 DEF Forward, TypeOK
  <2>4. Gated'
    BY <1>a, <1>2, <2>0 DEF Gated
  <2>5. SessionFresh'
    BY <1>a, <1>2, <2>0 DEF SessionFresh, Fresh, TypeOK, Publishing
  <2> QED BY <2>1, <2>2, <2>3, <2>4, <2>5
<1> QED BY <1>1, <1>2 DEF Read, Entry

(* Installing what the holder of the lock has collected.  If it differs from   *)
(* the session's inputs nobody runs on them any more.                          *)
LEMMA InstallStep ==
  ASSUME IInv, NEW r \in Requests, pc[r] \in Publishing, pc' = [pc EXCEPT ![r] = "snapshot"],
         Install(r), Prepared(r) = db \/ Handles = {}
  PROVE  IInv'
<1> USE DEF IInv, Install, disks
<1>0. /\ fetched[r].text \in Texts /\ fetched[r].stat \in Texts /\ prepared[r].manifest \in Stamps
      /\ db' = [manifest |-> prepared[r].manifest, text |-> fetched[r].text]
  BY DEF TypeOK, Prepared
<1>1. TypeOK'
  <2>1. db' \in Inputs
    BY <1>0 DEF Inputs
  <2> QED BY <1>0, <2>1, Blanks DEF TypeOK
<1>2. Exclusion'
  BY NoneAssumption DEF Exclusion, TypeOK, Publishing
<1>3. Forward'
  BY DEF Forward, TypeOK
<1>4. Gated'
  <2>1. NotOlder(Nothing.text, Nothing.stat)
    BY DEF NotOlder, Nothing, NoTexts
  <2> QED BY <1>0, <2>1 DEF Gated, NotOlder, TypeOK
<1>5. SessionFresh'
  <2>1. \A x \in Requests : pc'[x] \notin Publishing
    BY NoneAssumption DEF Exclusion, TypeOK, Publishing
  <2>2. ASSUME NEW q \in Requests, pc'[q] \in {"snapshot", "running"}
        PROVE  Fresh(q, db.manifest, db.text)'
    <3>1. q = r \/ pc[q] \in {"snapshot", "running"}
      BY <2>2 DEF TypeOK
    <3>2. Fresh(q, prepared[r].manifest, fetched[r].text)
      BY <3>1 DEF SessionFresh
    <3> QED BY <1>0, <3>2 DEF Fresh
  <2>3. ASSUME NEW q \in Requests, pc'[q] \in {"running", "answered"}
        PROVE  Fresh(q, snap[q].manifest, snap[q].text)'
    BY <2>3 DEF SessionFresh, Fresh, TypeOK
  <2> QED BY <2>1, <2>2, <2>3 DEF SessionFresh
<1> QED BY <1>1, <1>2, <1>3, <1>4, <1>5

(* Publishing, with or without waiting for the running reads. *)
LEMMA PublishStep == ASSUME IInv, NEW r \in Requests, Publish(r) PROVE IInv'
<1> USE DEF IInv, Goto
<1>1. CASE Prepared(r) = db /\ Goto(r, "stat", "snapshot") /\ Install(r)
  BY <1>1, InstallStep DEF Publishing
<1>2. CASE Goto(r, "stat", "drain") /\ cancelling' = TRUE
             /\ UNCHANGED <<disks, lock, session, base, prepared, todo, fetched, reading, snap>>
  <2> USE DEF disks, session
  <2>1. TypeOK'
    BY <1>2 DEF TypeOK
  <2>2. Exclusion'
    BY <1>2 DEF Exclusion, TypeOK, Publishing
  <2>3. Forward'
    BY <1>2 DEF Forward, TypeOK
  <2>4. Gated'
    BY <1>2 DEF Gated
  <2>5. SessionFresh'
    BY <1>2 DEF SessionFresh, Fresh, TypeOK, Publishing
  <2> QED BY <2>1, <2>2, <2>3, <2>4, <2>5
<1> QED BY <1>1, <1>2 DEF Publish

-------------------------------------------------------------------------------
(* Reading. *)

(* Snapshot, Finish and Cancelled move between states the session is fresh for. *)
LEMMA SnapshotStep ==
  ASSUME IInv, NEW r \in Requests, Snapshot(r) \/ Finish(r) \/ Cancelled(r)
  PROVE  IInv'
<1> USE DEF IInv, Goto, OtherVars, disks, session
<1>0. /\ UNCHANGED <<disk, manifest, edits, lock, db, stats, cancelling, base, prepared, todo,
                     fetched, reading>>
      /\ pc[r] \in {"snapshot", "running"}
      /\ \/ pc' = [pc EXCEPT ![r] = "running"] /\ snap' = [snap EXCEPT ![r] = db]
         \/ pc[r] = "running" /\ pc' = [pc EXCEPT ![r] = "answered"] /\ UNCHANGED snap
         \/ pc' = [pc EXCEPT ![r] = "snapshot"] /\ snap' = [snap EXCEPT ![r] = NoInputs]
  BY DEF Snapshot, Finish, Cancelled
<1>a. NoInputs \in Inputs
  BY Blanks
<1>1. TypeOK'
  <2>1. snap \in [Requests -> Inputs] /\ db \in Inputs
    BY DEF TypeOK
  <2>2. snap' \in [Requests -> Inputs]
    BY <1>0, <1>a, <2>1
  <2> QED BY <1>0, <2>2 DEF TypeOK
<1>2. Exclusion'
  BY <1>0 DEF Exclusion, TypeOK, Publishing
<1>3. Forward'
  BY <1>0 DEF Forward, TypeOK
<1>4. Gated'
  BY <1>0 DEF Gated
<1>5. SessionFresh'
  BY <1>0 DEF SessionFresh, Fresh, TypeOK, Publishing
<1> QED BY <1>1, <1>2, <1>3, <1>4, <1>5

(* An edit carries a stamp nobody has seen. *)
LEMMA EditStep == ASSUME IInv, Edit PROVE IInv'
<1> USE DEF IInv
<1>0. /\ UNCHANGED <<lock, db, stats, cancelling, pc, prepared, todo, fetched, reading, snap>>
      /\ edits' = edits + 1 /\ edits' \in Stamps /\ edits \in Nat
  BY EditBound DEF Edit, session, TypeOK, Stamps
<1>a. /\ manifest \in Nat /\ \A f \in Files : disk[f] \in Nat
      /\ \A q \in Requests : base[q].manifest \in Nat /\ \A f \in Files : base[q].text[f] \in Nat
  BY EditBound DEF TypeOK, Inputs, Texts, Stamps
<1>1. /\ disk' \in Texts /\ manifest' \in Stamps
      /\ manifest' \in {manifest, edits + 1}
      /\ \A f \in Files : disk'[f] \in {disk[f], 0, edits + 1}
  <2>1. disk \in [Files -> Stamps] /\ manifest \in Stamps /\ edits + 1 \in Stamps /\ 0 \in Stamps
    BY <1>0, Blanks DEF TypeOK, Texts
  <2>2. CASE \E f \in Files : disk' = [disk EXCEPT ![f] = edits + 1] /\ UNCHANGED manifest
    BY <2>1, <2>2 DEF Texts
  <2>3. CASE \E f \in Files : disk' = [disk EXCEPT ![f] = 0] /\ UNCHANGED manifest
    BY <2>1, <2>3 DEF Texts
  <2>4. CASE manifest' = edits + 1 /\ UNCHANGED disk
    BY <2>1, <2>4 DEF Texts
  <2> QED BY <2>2, <2>3, <2>4 DEF Edit
<1>2. /\ base' \in [Requests -> Inputs]
      /\ \A q \in Requests :
           /\ base'[q].manifest = base[q].manifest
           /\ \A f \in Files : base'[q].text[f] = base[q].text[f]
                                 \/ (base'[q].text[f] = 0 /\ disk'[f] = 0)
      /\ \A q \in Requests, f \in Files : disk'[f] = 0 /\ disk[f] # 0 => base'[q].text[f] = 0
  <2>0. base \in [Requests -> Inputs] /\ disk \in Texts
    BY DEF TypeOK
  <2>1. CASE UNCHANGED base /\ \A f \in Files : disk'[f] \in {disk[f], edits + 1}
    BY <1>0, <1>a, <2>0, <2>1
  <2>2. ASSUME NEW g \in Files, disk' = [disk EXCEPT ![g] = 0],
               base' = [q \in Requests |-> [base[q] EXCEPT !.text[g] = 0]]
        PROVE  <1>2!1 /\ <1>2!2 /\ <1>2!3
    <3>1. \A q \in Requests : [base[q] EXCEPT !.text[g] = 0] \in Inputs
      BY <2>0, Blanks DEF Inputs, Texts
    <3>2. \A q \in Requests, f \in Files :
            [base[q] EXCEPT !.text[g] = 0].text[f] = IF f = g THEN 0 ELSE base[q].text[f]
      BY <2>0 DEF Inputs, Texts
    <3>3. \A q \in Requests : [base[q] EXCEPT !.text[g] = 0].manifest = base[q].manifest
      BY <2>0 DEF Inputs
    <3>4. \A f \in Files : disk'[f] = IF f = g THEN 0 ELSE disk[f]
      BY <2>0, <2>2 DEF Texts
    <3>5. \A q \in Requests : base'[q] = [base[q] EXCEPT !.text[g] = 0]
      BY <2>2
    <3>6. base' \in [Requests -> Inputs]
      BY <2>2, <3>1
    <3>7. ASSUME NEW q \in Requests, NEW f \in Files
          PROVE  base'[q].text[f] = IF f = g THEN 0 ELSE base[q].text[f]
      <4>1. base'[q] = [base[q] EXCEPT !.text[g] = 0]
        BY <3>5
      <4>2. [base[q] EXCEPT !.text[g] = 0].text[f] = IF f = g THEN 0 ELSE base[q].text[f]
        BY <3>2
      <4> QED BY ONLY <4>1, <4>2
    <3>8. \A q \in Requests : base'[q].manifest = base[q].manifest
      BY <3>3, <3>5
    <3> QED BY <3>4, <3>6, <3>7, <3>8
  <2>3. CASE \E f \in Files : disk' = [disk EXCEPT ![f] = edits + 1] /\ UNCHANGED base
    BY <2>0, <2>1, <2>3 DEF Texts
  <2>4. CASE UNCHANGED <<disk, base>>
    BY <2>1, <2>4
  <2> QED BY <2>2, <2>3, <2>4 DEF Edit
<1>3. TypeOK'
  BY <1>0, <1>1, <1>2 DEF TypeOK
<1>4. Exclusion' /\ Gated'
  BY <1>0 DEF Exclusion, Gated
<1>5. SessionFresh'
  <2>1. \A q \in Requests, m \in Stamps, text \in Texts : Fresh(q, m, text) => Fresh(q, m, text)'
    <3> SUFFICES ASSUME NEW q \in Requests, NEW m \in Stamps, NEW text \in Texts, Fresh(q, m, text),
                        NEW f \in Files, text[f] # 0
                 PROVE  text[f] >= base'[q].text[f]
      BY <1>2 DEF Fresh
    <3>1. text[f] \in Nat /\ text[f] >= base[q].text[f]
      BY EditBound DEF Fresh, Texts, Stamps
    <3> QED BY <1>2, <3>1
  <2>2. /\ db.manifest \in Stamps /\ db.text \in Texts
        /\ \A q \in Requests : /\ snap[q].manifest \in Stamps /\ snap[q].text \in Texts
                               /\ prepared[q].manifest \in Stamps /\ fetched[q].text \in Texts
    BY DEF TypeOK, Inputs
  <2>3. \A q \in Requests :
          /\ Fresh(q, db.manifest, db.text) => Fresh(q, db.manifest, db.text)'
          /\ Fresh(q, snap[q].manifest, snap[q].text) => Fresh(q, snap[q].manifest, snap[q].text)'
          /\ \A x \in Requests : Fresh(q, prepared[x].manifest, fetched[x].text)
                                   => Fresh(q, prepared[x].manifest, fetched[x].text)'
    BY <1>0, <2>1, <2>2 DEF Fresh
  <2> QED BY <1>0, <2>3 DEF SessionFresh
<1>6. Forward'
  <2>1. manifest' <= edits' /\ \A f \in Files : disk'[f] <= edits'
    BY <1>0, <1>1, <1>a DEF Forward
  <2>2. \A q \in Requests : base'[q].manifest <= manifest'
    BY <1>0, <1>1, <1>2, EditBound DEF Forward, TypeOK, Inputs, Stamps
  <2>3. \A q \in Requests, f \in Files : base'[q].text[f] <= disk'[f]
    BY <1>0, <1>1, <1>2, <1>a DEF Forward
  <2>4. \A q \in Requests : pc[q] = "read" =>
          /\ reading[q].file \in Files
          /\ reading[q].stat <= edits'
          /\ disk'[reading[q].file] # 0 => reading[q].stat <= disk'[reading[q].file]
    <3>1. \A q \in Requests : reading[q].stat \in Nat
      BY EditBound DEF TypeOK, Stamps
    <3> QED BY <1>0, <1>1, <3>1 DEF Forward
  <2> QED BY <1>0, <2>1, <2>2, <2>3, <2>4 DEF Forward
<1> QED BY <1>3, <1>4, <1>5, <1>6

-------------------------------------------------------------------------------
(* Every step preserves the invariant. *)
LEMMA IInvStep == IInv /\ [Next]_vars => IInv'
<1> SUFFICES ASSUME IInv, [Next]_vars PROVE IInv'
  OBVIOUS
<1>1. ASSUME NEW r \in Requests, Drain(r) PROVE IInv'
  BY <1>1, InstallStep DEF Drain, Goto, Publishing
<1>2. CASE UNCHANGED vars
  BY <1>2 DEF vars, disks, session, IInv, TypeOK, Exclusion, Forward, Gated, SessionFresh, Fresh
<1> QED
  BY <1>1, <1>2, BeginStep, InventoryStep, LockStep, StatStep, ReadStep, PublishStep, SnapshotStep,
     EditStep DEF Next, Serve

(* Whichever request published last, whatever was edited in between and however *)
(* often a read was cancelled, an answer is never older than its request        *)
(* (server.rs with_fresh_snapshot, session.rs apply_project).                   *)
THEOREM AnswersFresh == Spec => []ContentFresh
<1>1. Spec => []IInv
  BY IInvInit, IInvStep, PTL DEF Spec
<1>2. IInv => ContentFresh
  BY DEF IInv, SessionFresh, Fresh, ContentFresh
<1> QED BY <1>1, <1>2, PTL

-------------------------------------------------------------------------------
(* The inductive invariant *)

Events == {"out", "ready", "input"}
Answers == {"out", "ready", "result"}
Typed == {"input", "eof", "broken"}
Frames == {"input", "eof", "exit", "err"}

RunTypes ==
  /\ child \in {"alive", "dead"} /\ pipe \in [Streams -> Nat]
  /\ rpc \in [Streams -> {"read", "send", "done"}]
  /\ ipc \in {"first", "loop", "recv", "write", "tell", "ready", "last", "done"}
  /\ mpc \in {"forward", "deliver", "join", "result", "serve", "ended"}
  /\ hand \in Events \cup {NoMessage} /\ events \in Seq(Events)
  /\ failed \in BOOLEAN /\ open \in BOOLEAN
  /\ fpc \in {"read", "put", "done"} /\ frame \in Frames \cup {NoMessage} /\ reqs \in Seq(Frames)
  /\ toServer \in Seq(Frames) /\ toClient \in Seq(Answers)
  /\ here \in BOOLEAN /\ npc \in Answers \cup {NoMessage} /\ cq \in Seq(Answers \cup Typed)
  /\ spc \in {"credit", "stdin", "done"} \cup Typed /\ credit \in BOOLEAN
  /\ cpc \in {"loop", "input", "eof", "fail", "failed", "ok", "gone"}

(* What the place of a thread says about what it holds: the receiver of events   *)
(* lives while supervise forwards them, and dies with an empty channel.          *)
Stages ==
  /\ open <=> mpc \in {"forward", "deliver"}
  /\ mpc = "deliver" => hand # NoMessage
  /\ mpc # "deliver" => hand = NoMessage
  /\ fpc = "put" => frame # NoMessage
  /\ ~open => events = <<>>
  /\ failed => mpc \in {"join", "ended"}

(* Unless a write to the client failed, a reader ends only at the end of its     *)
(* pipe, and supervise stops forwarding only when every reader has ended.        *)
Drained ==
  ~failed => /\ \A s \in Streams : rpc[s] = "done" => pipe[s] = 0 /\ child = "dead"
             /\ ~open => \A s \in Streams : rpc[s] = "done"

(* The result is the last word of a run that went well: nothing follows it on    *)
(* the socket, and no output follows it in the client.                           *)
Has(q) == \E i \in 1..Len(q) : q[i] = "result"
EndsIt(q) == \A i \in 1..Len(q) : q[i] = "result" => i = Len(q)
Ordered(q) == \A i, j \in 1..Len(q) : q[i] = "result" /\ i < j => q[j] # "out"
NoOut(q) == \A i \in 1..Len(q) : q[i] # "out"

Silent == toClient = <<>> /\ npc = NoMessage
ResultLast ==
  /\ cpc = "ok" \/ npc = "result" \/ Has(toClient) \/ Has(cq) =>
       mpc \in {"serve", "ended"} /\ ~failed
  /\ EndsIt(toClient) /\ Ordered(cq)
  /\ npc = "result" => toClient = <<>>
  /\ Has(cq) => Silent
  /\ cpc = "ok" /\ here => Silent /\ NoOut(cq)

(* The places of a credit, and how many of them hold one. *)
Places == {"thread", "events", "hand", "socket", "reader", "queue", "credit", "stdin", "main",
           "returning", "frame", "requests"}
Purse ==
  [thread |-> Holds(ipc \in {"first", "write", "tell", "ready"}),
   events |-> Count(events, {"ready"}), hand |-> Holds(hand = "ready"),
   socket |-> Count(toClient, {"ready"}), reader |-> Holds(npc = "ready"),
   queue |-> Count(cq, {"ready", "input", "eof"}), credit |-> Holds(credit),
   stdin |-> Holds(spc \in {"stdin", "input", "eof", "broken"}),
   main |-> Holds(cpc \in {"input", "eof"}), returning |-> Count(toServer, {"input", "eof"}),
   frame |-> Holds(frame \in {"input", "eof"}), requests |-> Count(reqs, {"input", "eof"})]

(* At most one place holds a credit, and at most one. *)
Single(p) ==
  /\ \A i \in Places : p[i] <= 1
  /\ \A i, j \in Places : i # j => p[i] = 0 \/ p[j] = 0

Total(p) == p.thread + p.events + p.hand + p.socket + p.reader + p.queue + p.credit + p.stdin
            + p.main + p.returning + p.frame + p.requests

RunInv == RunTypes /\ Stages /\ Drained /\ ResultLast /\ Single(Purse)

-------------------------------------------------------------------------------
(* Queues *)

Spots(q, W) == {i \in DOMAIN q : q[i] \in W}

(* A queue has finitely many entries of a kind. *)
LEMMA CountNat ==
  ASSUME NEW S, NEW q \in Seq(S), NEW W
  PROVE  /\ IsFiniteSet(Spots(q, W)) /\ Count(q, W) = Cardinality(Spots(q, W))
         /\ Count(q, W) \in Nat /\ Spots(q, W) \subseteq 1..Len(q) /\ Len(q) \in Nat
<1>1. Len(q) \in Nat /\ DOMAIN q = 1..Len(q)
  BY LenProperties
<1>2. Spots(q, W) \subseteq 1..Len(q) /\ Count(q, W) = Cardinality(Spots(q, W))
  BY <1>1 DEF Spots, Count
<1>3. IsFiniteSet(1..Len(q))
  BY <1>1, FS_Interval
<1>4. IsFiniteSet(Spots(q, W))
  BY <1>2, <1>3, FS_Subset
<1> QED BY <1>1, <1>2, <1>4, FS_CardinalityType

(* An empty queue has none. *)
LEMMA CountEmpty == \A W : Count(<<>>, W) = 0
<1>1. \A W : {i \in DOMAIN <<>> : <<>>[i] \in W} = {}
  OBVIOUS
<1> QED BY <1>1, FS_EmptySet DEF Count

(* An entry is added at the end ... *)
LEMMA CountAppend ==
  ASSUME NEW S, NEW q \in Seq(S), NEW x \in S, NEW W
  PROVE  Count(Append(q, x), W) = Count(q, W) + Holds(x \in W)
<1> DEFINE n == Len(q) + 1
<1>1. /\ Append(q, x) \in Seq(S) /\ Len(Append(q, x)) = n
      /\ Append(q, x)[n] = x /\ \A i \in 1..Len(q) : Append(q, x)[i] = q[i]
  BY AppendProperties
<1>2. Len(q) \in Nat /\ DOMAIN q = 1..Len(q) /\ DOMAIN Append(q, x) = 1..n
  BY <1>1, LenProperties
<1>3. n \notin Spots(q, W) /\ IsFiniteSet(Spots(q, W)) /\ Count(q, W) \in Nat
  BY <1>2, CountNat
<1>4. /\ Count(q, W) = Cardinality(Spots(q, W))
      /\ Count(Append(q, x), W) = Cardinality(Spots(Append(q, x), W))
  BY <1>1, CountNat
<1>5. CASE x \in W
  <2>1. \A i : i \in 1..n <=> i \in 1..Len(q) \/ i = n
    BY <1>2
  <2>2. Spots(Append(q, x), W) = Spots(q, W) \cup {n}
    BY <1>1, <1>2, <1>5, <2>1 DEF Spots
  <2>3. Cardinality(Spots(q, W) \cup {n}) = Cardinality(Spots(q, W)) + 1
    BY <1>3, FS_AddElement
  <2>4. Holds(x \in W) = 1
    BY <1>5 DEF Holds
  <2> QED BY <1>4, <2>2, <2>3, <2>4
<1>6. CASE x \notin W
  <2>1. \A i : i \in 1..n <=> i \in 1..Len(q) \/ i = n
    BY <1>2
  <2>2. Spots(Append(q, x), W) = Spots(q, W)
    BY <1>1, <1>2, <1>6, <2>1 DEF Spots
  <2>3. Holds(x \in W) = 0
    BY <1>6 DEF Holds
  <2> QED BY <1>3, <1>4, <2>2, <2>3
<1> QED BY <1>5, <1>6

(* ... and taken from the front. *)
LEMMA CountTail ==
  ASSUME NEW S, NEW q \in Seq(S), q # <<>>, NEW W
  PROVE  Count(Tail(q), W) = Count(q, W) - Holds(Head(q) \in W)
<1>1. /\ Tail(q) \in Seq(S) /\ Len(Tail(q)) = Len(q) - 1 /\ Head(q) = q[1]
      /\ \A i \in 1..Len(Tail(q)) : Tail(q)[i] = q[i + 1]
      /\ Len(q) \in Nat \ {0}
  BY HeadTailProperties, EmptySeq
<1>2. DOMAIN q = 1..Len(q) /\ DOMAIN Tail(q) = 1..(Len(q) - 1)
  BY <1>1, LenProperties
<1> DEFINE P == Spots(Tail(q), W)
           Q == Spots(q, W)
           f == [i \in P |-> i + 1]
<1>3. IsFiniteSet(P) /\ IsFiniteSet(Q) /\ Cardinality(P) \in Nat /\ Cardinality(Q) \in Nat
      /\ Count(Tail(q), W) = Cardinality(P) /\ Count(q, W) = Cardinality(Q)
  BY <1>1, CountNat
<1>4. \A i \in P : i \in Nat /\ i + 1 \in Q \ {1}
  BY <1>1, <1>2 DEF Spots
<1>5. \A j \in Q \ {1} : j \in Nat /\ j - 1 \in P /\ (j - 1) + 1 = j
  BY <1>1, <1>2 DEF Spots
<1> HIDE DEF P, Q
<1>6. f \in Bijection(P, Q \ {1})
  <2>1. f \in [P -> Q \ {1}] /\ \A i \in P : f[i] = i + 1
    BY <1>4
  <2>2. \A i, j \in P : f[i] = f[j] => i = j
    BY <1>4, <2>1
  <2>3. \A j \in Q \ {1} : \E i \in P : f[i] = j
    BY <1>5, <2>1
  <2> QED BY <2>1, <2>2, <2>3 DEF Bijection, Injection, Surjection, IsInjective
<1>7. Cardinality(P) = Cardinality(Q \ {1})
  BY <1>3, <1>6, FS_Bijection DEF ExistsBijection
<1>8. 1 \in Q <=> Head(q) \in W
  BY <1>1, <1>2 DEF Q, Spots
<1>9. Cardinality(Q \ {1}) = IF 1 \in Q THEN Cardinality(Q) - 1 ELSE Cardinality(Q)
  BY <1>3, FS_RemoveElement
<1>10. Holds(Head(q) \in W) = IF 1 \in Q THEN 1 ELSE 0
  BY <1>8 DEF Holds
<1> QED BY <1>3, <1>7, <1>9, <1>10

(* A queue of one entry. *)
LEMMA CountOne == \A x, W : Count(<<x>>, W) = Holds(x \in W)
<1> TAKE x, W
<1>1. <<>> \in Seq({x}) /\ Append(<<>>, x) = <<x>>
  OBVIOUS
<1>2. Count(Append(<<>>, x), W) = Count(<<>>, W) + Holds(x \in W)
  BY <1>1, CountAppend
<1>3. Count(<<>>, W) = 0 /\ Holds(x \in W) \in Nat
  BY CountEmpty DEF Holds
<1> QED BY <1>1, <1>2, <1>3

(* Where the result stands in a queue that grows at the end ... *)
LEMMA ResultAppend ==
  ASSUME NEW S, NEW q \in Seq(S), NEW x \in S
  PROVE  /\ Append(q, x) \in Seq(S)
         /\ Has(Append(q, x)) <=> Has(q) \/ x = "result"
         /\ NoOut(Append(q, x)) <=> NoOut(q) /\ x # "out"
         /\ ~Has(q) => EndsIt(Append(q, x))
         /\ Ordered(q) /\ (x # "out" \/ ~Has(q)) => Ordered(Append(q, x))
<1> DEFINE n == Len(q) + 1
<1>1. /\ Append(q, x) \in Seq(S) /\ Len(Append(q, x)) = n
      /\ Append(q, x)[n] = x /\ \A i \in 1..Len(q) : Append(q, x)[i] = q[i]
  BY AppendProperties
<1>2. Len(q) \in Nat
  BY LenProperties
<1>3. \A i : i \in 1..n <=> i \in 1..Len(q) \/ i = n
  BY <1>2
<1>4. Has(Append(q, x)) <=> Has(q) \/ x = "result"
  BY <1>1, <1>3 DEF Has
<1>5. NoOut(Append(q, x)) <=> NoOut(q) /\ x # "out"
  BY <1>1, <1>3 DEF NoOut
<1>6. ~Has(q) => EndsIt(Append(q, x))
  BY <1>1, <1>3 DEF Has, EndsIt
<1>7. ASSUME Ordered(q), x # "out" \/ ~Has(q) PROVE Ordered(Append(q, x))
  <2> SUFFICES ASSUME NEW i \in 1..n, NEW j \in 1..n, Append(q, x)[i] = "result", i < j
               PROVE  Append(q, x)[j] # "out"
    BY <1>1 DEF Ordered
  <2>1. i \in 1..Len(q) /\ q[i] = "result" /\ Has(q)
    BY <1>1, <1>2 DEF Has
  <2>2. CASE j = n
    BY <1>1, <1>7, <2>1, <2>2
  <2>3. CASE j \in 1..Len(q)
    BY <1>1, <1>7, <2>1, <2>3 DEF Ordered
  <2> QED BY <1>3, <2>2, <2>3
<1> QED BY <1>1, <1>4, <1>5, <1>6, <1>7

(* ... and shrinks at the front. *)
LEMMA ResultTail ==
  ASSUME NEW S, NEW q \in Seq(S), q # <<>>
  PROVE  /\ Tail(q) \in Seq(S) /\ Head(q) \in S
         /\ Head(q) = "result" \/ Has(Tail(q)) => Has(q)
         /\ NoOut(q) => NoOut(Tail(q))
         /\ EndsIt(q) => EndsIt(Tail(q)) /\ (Head(q) = "result" => Tail(q) = <<>>)
         /\ Ordered(q) => Ordered(Tail(q)) /\ (Head(q) = "result" => NoOut(Tail(q)))
<1>1. /\ Tail(q) \in Seq(S) /\ Len(Tail(q)) = Len(q) - 1 /\ Head(q) = q[1] /\ Head(q) \in S
      /\ \A i \in 1..Len(Tail(q)) : Tail(q)[i] = q[i + 1]
      /\ Len(q) \in Nat \ {0}
  BY HeadTailProperties, EmptySeq
<1>2. 1 \in 1..Len(q) /\ \A i \in 1..(Len(q) - 1) : i + 1 \in 1..Len(q) /\ 1 < i + 1 /\ i \in Nat
  BY <1>1
<1>3. Head(q) = "result" \/ Has(Tail(q)) => Has(q)
  BY <1>1, <1>2 DEF Has
<1>4. NoOut(q) => NoOut(Tail(q))
  BY <1>1, <1>2 DEF NoOut
<1>5. ASSUME EndsIt(q) PROVE EndsIt(Tail(q))
  <2> SUFFICES ASSUME NEW i \in 1..Len(Tail(q)), Tail(q)[i] = "result" PROVE i = Len(Tail(q))
    BY DEF EndsIt
  <2>1. i + 1 \in 1..Len(q) /\ q[i + 1] = "result" /\ i \in Nat
    BY <1>1, <1>2
  <2>2. i + 1 = Len(q)
    BY <1>5, <2>1 DEF EndsIt
  <2>3. Len(Tail(q)) = Len(q) - 1 /\ Len(q) \in Nat
    BY <1>1
  <2> QED BY <2>1, <2>2, <2>3
<1>6. EndsIt(q) /\ Head(q) = "result" => Tail(q) = <<>>
  <2>1. EndsIt(q) /\ Head(q) = "result" => Len(q) = 1
    BY <1>1, <1>2, Zenon DEF EndsIt
  <2> QED BY <1>1, <2>1, EmptySeq
<1>7. Ordered(q) => Ordered(Tail(q))
  BY <1>1, <1>2 DEF Ordered
<1>8. Ordered(q) /\ Head(q) = "result" => NoOut(Tail(q))
  BY <1>1, <1>2 DEF Ordered, NoOut
<1> QED BY <1>1, <1>3, <1>4, <1>5, <1>6, <1>7, <1>8

(* An empty queue. *)
LEMMA ResultEmpty ==
  ~Has(<<>>) /\ EndsIt(<<>>) /\ Ordered(<<>>) /\ NoOut(<<>>) /\ \A S : <<>> \in Seq(S)
BY DEF Has, EndsIt, Ordered, NoOut

(* That is what a sum of at most one says. *)
LEMMA SingleTotal == ASSUME NEW p \in [Places -> Nat], Single(p) PROVE Total(p) <= 1
<1>1. PICK i \in Places : p[i] <= 1 /\ \A j \in Places \ {i} : p[j] = 0
  <2>1. CASE \A j \in Places : p[j] = 0
    <3>1. "thread" \in Places
      BY DEF Places
    <3> QED BY <2>1, <3>1
  <2>2. CASE \E j \in Places : p[j] # 0
    BY <2>2 DEF Single
  <2> QED BY <2>1, <2>2
<1>2. p[i] \in Nat
  OBVIOUS
<1> DEFINE n == p[i]
<1>3. CASE i \in {"thread", "events", "hand", "socket", "reader", "queue"}
  BY <1>1, <1>2, <1>3 DEF Places, Total
<1>4. CASE i \in {"credit", "stdin", "main", "returning", "frame", "requests"}
  BY <1>1, <1>2, <1>4 DEF Places, Total
<1> QED BY <1>3, <1>4 DEF Places

(* A step that takes a credit from one place to another, or loses it. *)
LEMMA SingleMove ==
  ASSUME NEW p \in [Places -> Nat], NEW q \in [Places -> Nat], Single(p),
         NEW i \in Places, NEW j \in Places, q[i] + q[j] <= p[i] + p[j],
         \A k \in Places \ {i, j} : q[k] <= p[k]
  PROVE  Single(q)
<1>1. \A k \in Places : p[k] \in Nat /\ q[k] \in Nat
  OBVIOUS
<1>2. q[i] + q[j] <= (IF i = j THEN 2 ELSE 1)
  BY <1>1 DEF Single
<1>3. \A k \in Places : q[k] <= 1
  BY <1>1, <1>2 DEF Single
<1>4. ASSUME NEW k \in Places, NEW l \in Places, k # l PROVE q[k] = 0 \/ q[l] = 0
  BY <1>1, <1>2, <1>4 DEF Single
<1> QED BY <1>3, <1>4 DEF Single

(* What a purse holds are numbers. *)
LEMMA PurseNumbers == RunTypes => Purse \in [Places -> Nat]
<1> SUFFICES ASSUME RunTypes PROVE Purse \in [Places -> Nat]
  OBVIOUS
<1>1. /\ Count(events, {"ready"}) \in Nat /\ Count(toClient, {"ready"}) \in Nat
      /\ Count(cq, {"ready", "input", "eof"}) \in Nat
      /\ Count(toServer, {"input", "eof"}) \in Nat /\ Count(reqs, {"input", "eof"}) \in Nat
  BY CountNat DEF RunTypes
<1>2. \A b : Holds(b) \in Nat
  BY DEF Holds
<1> QED BY <1>1, <1>2 DEF Purse, Places

(* A step of the run that takes a credit from one place to another. *)
LEMMA CreditStep ==
  ASSUME RunTypes, RunTypes', Single(Purse), NEW i \in Places, NEW j \in Places,
         Purse'[i] + Purse'[j] <= Purse[i] + Purse[j],
         \A k \in Places \ {i, j} : Purse'[k] = Purse[k]
  PROVE  Single(Purse)'
<1>1. RunTypes' => (Purse \in [Places -> Nat])'
  BY PurseNumbers, PTL
<1>2. Purse \in [Places -> Nat] /\ Purse' \in [Places -> Nat]
  BY <1>1, PurseNumbers
<1>3. \A k \in Places : Purse[k] \in Nat
  BY <1>2
<1>4. \A k \in Places \ {i, j} : Purse'[k] <= Purse[k]
  BY <1>3
<1>5. Single(Purse')
  BY <1>2, <1>4, SingleMove
<1> QED BY <1>5 DEF Single

(* A step that loses what some places hold. *)
LEMMA CreditLoss ==
  ASSUME RunTypes, RunTypes', Single(Purse),
         \A k \in Places : Purse'[k] = Purse[k] \/ Purse'[k] = 0
  PROVE  Single(Purse)'
<1>1. RunTypes' => (Purse \in [Places -> Nat])'
  BY PurseNumbers, PTL
<1>2. Purse \in [Places -> Nat] /\ Purse' \in [Places -> Nat]
  BY <1>1, PurseNumbers
<1>3. \A k \in Places : Purse[k] \in Nat
  BY <1>2
<1>4. Single(Purse')
  BY <1>3 DEF Single
<1> QED BY <1>4 DEF Single

-------------------------------------------------------------------------------
(* Steps *)

(* The worker and the thread that waits for it. *)
LEMMA WorkerStep ==
  ASSUME RunInv,
         \/ \E s \in Streams : ChildWrites(s)
         \/ ChildReads \/ ChildExits \/ Watch \/ Timeout \/ Announce
  PROVE  RunInv'
<1> USE DEF RunInv
<1>0. /\ UNCHANGED <<rpc, ipc, mpc, hand, failed, events, open, fpc, frame, reqs, toServer, toClient,
                     here, npc, cq, spc, credit, cpc>>
      /\ child' \in {"alive", "dead"}
      /\ pipe' \in [Streams -> Nat]
      /\ child = "dead" => child' = "dead" /\ pipe' = pipe
  BY DEF ChildWrites, ChildReads, ChildExits, Watch, Timeout, Announce,
         WatchdogUnchanged, daemon, conn, client, RunTypes
<1>1. RunTypes'
  BY <1>0 DEF RunTypes
<1>2. Stages' /\ Drained'
  BY <1>0 DEF Stages, Drained
<1>3. ResultLast'
  BY <1>0 DEF ResultLast, Silent
<1>4. Single(Purse)'
  BY <1>0 DEF Single, Purse
<1> QED BY <1>1, <1>2, <1>3, <1>4

(* A reader takes a chunk from its pipe, or finds the pipe's end. *)
LEMMA ReadPipeStep == ASSUME RunInv, NEW s \in Streams, ReadPipe(s) PROVE RunInv'
<1> USE DEF RunInv
<1>0. /\ UNCHANGED <<child, ipc, mpc, hand, failed, events, open, fpc, frame, reqs, toServer, toClient,
                     here, npc, cq, spc, credit, cpc>>
      /\ rpc[s] = "read"
      /\ \/ pipe[s] > 0 /\ pipe' = [pipe EXCEPT ![s] = @ - 1] /\ rpc' = [rpc EXCEPT ![s] = "send"]
         \/ pipe[s] = 0 /\ child = "dead" /\ pipe' = pipe /\ rpc' = [rpc EXCEPT ![s] = "done"]
  BY DEF ReadPipe, conn, client
<1>1. RunTypes'
  <2>1. rpc' \in [Streams -> {"read", "send", "done"}]
    BY <1>0 DEF RunTypes
  <2>2. pipe' \in [Streams -> Nat]
    <3>1. pipe \in [Streams -> Nat] /\ pipe[s] \in Nat
      BY DEF RunTypes
    <3>2. pipe[s] > 0 => pipe[s] - 1 \in Nat
      BY <3>1
    <3> QED BY <1>0, <3>1, <3>2
  <2> QED BY <1>0, <2>1, <2>2 DEF RunTypes
<1>2. Stages'
  BY <1>0 DEF Stages
<1>3. Drained'
  BY <1>0 DEF Drained, RunTypes
<1>4. ResultLast'
  BY <1>0 DEF ResultLast, Silent
<1>5. Single(Purse)'
  BY <1>0 DEF Single, Purse
<1> QED BY <1>1, <1>2, <1>3, <1>4, <1>5

(* A send of a reader or of the input thread, on the event channel. *)
LEMMA SentCount ==
  ASSUME RunInv, NEW e \in Events, Sent(e)
  PROVE  /\ events' \in Seq(Events) /\ open
         /\ Count(events', {"ready"}) = Count(events, {"ready"}) + Holds(e \in {"ready"})
<1>1. events \in Seq(Events)
  BY DEF RunInv, RunTypes
<1> QED BY <1>1, CountAppend, AppendProperties DEF Sent

(* A reader passes its chunk on; it is refused only after a failed write. *)
LEMMA SendChunkStep == ASSUME RunInv, NEW s \in Streams, SendChunk(s) PROVE RunInv'
<1> USE DEF RunInv
<1>0. /\ UNCHANGED <<child, pipe, ipc, mpc, hand, failed, open, fpc, frame, reqs, toServer, toClient,
                     here, npc, cq, spc, credit, cpc>>
      /\ rpc[s] = "send"
      /\ \/ Sent("out") /\ rpc' = [rpc EXCEPT ![s] = "read"]
         \/ ~open /\ events' = events /\ rpc' = [rpc EXCEPT ![s] = "done"]
  BY DEF SendChunk, Refused, worker, conn, client
<1>1. /\ events' \in Seq(Events) /\ Count(events', {"ready"}) = Count(events, {"ready"})
      /\ ~open => events' = events
  <2>1. CASE Sent("out")
    <3>1. Holds("out" \in {"ready"}) = 0
      BY DEF Holds
    <3>2. Count(events, {"ready"}) \in Nat
      BY CountNat DEF RunTypes
    <3> QED BY <2>1, <3>1, <3>2, SentCount DEF Events
  <2>2. CASE events' = events
    BY <2>2 DEF RunTypes
  <2> QED BY <1>0, <2>1, <2>2
<1>2. RunTypes'
  <2>1. rpc' \in [Streams -> {"read", "send", "done"}]
    BY <1>0 DEF RunTypes
  <2> QED BY <1>0, <1>1, <2>1 DEF RunTypes
<1>3. Stages'
  BY <1>0, <1>1 DEF Stages
<1>4. Drained'
  BY <1>0 DEF Drained, Sent, RunTypes
<1>5. ResultLast'
  BY <1>0 DEF ResultLast, Silent
<1>6. Single(Purse)'
  BY <1>0, <1>1 DEF Single, Purse
<1> QED BY <1>2, <1>3, <1>4, <1>5, <1>6

(* The input thread looks at the flags, takes a request, writes to the worker. *)
LEMMA InputStep == ASSUME RunInv, InputLoop \/ InputRecv \/ InputWrite PROVE RunInv'
<1> USE DEF RunInv
<1>0. /\ UNCHANGED <<child, pipe, rpc, mpc, hand, failed, events, open, fpc, frame, toServer, toClient,
                     here, npc, cq, spc, credit, cpc>>
      /\ \/ reqs' = reqs /\ ipc \in {"loop", "recv"} /\ ipc' \in {"loop", "recv", "done"}
         \/ reqs' = reqs /\ ipc = "write" /\ ipc' \in {"tell", "last"}
         \/ /\ reqs # <<>> /\ reqs' = Tail(reqs) /\ ipc = "recv"
            /\ \/ Head(reqs) = "input" /\ ipc' = "write"
               \/ Head(reqs) # "input" /\ ipc' \in {"done", "last"}
  BY DEF InputLoop, InputRecv, InputWrite, InputUnchanged, worker, client
<1>1. /\ reqs' \in Seq(Frames)
      /\ reqs' = reqs \/ Count(reqs', {"input", "eof"})
                           = Count(reqs, {"input", "eof"}) - Holds(Head(reqs) \in {"input", "eof"})
  <2>1. reqs \in Seq(Frames)
    BY DEF RunTypes
  <2> QED BY <1>0, <2>1, CountTail, ResultTail
<1>2. RunTypes'
  BY <1>0, <1>1 DEF RunTypes
<1>3. Stages' /\ Drained'
  BY <1>0 DEF Stages, Drained
<1>4. ResultLast'
  BY <1>0 DEF ResultLast, Silent
<1>5. Single(Purse)'
  <2>1. Count(reqs, {"input", "eof"}) \in Nat
    BY CountNat DEF RunTypes
  <2>2. Count(reqs', {"input", "eof"}) + Holds(ipc' \in {"first", "write", "tell", "ready"})
          <= Count(reqs, {"input", "eof"}) + Holds(ipc \in {"first", "write", "tell", "ready"})
    BY <1>0, <1>1, <2>1 DEF Holds
  <2>3. /\ Purse'["requests"] + Purse'["thread"] <= Purse["requests"] + Purse["thread"]
        /\ "requests" \in Places /\ "thread" \in Places
    BY <2>2 DEF Purse, Places
  <2>4. \A k \in Places \ {"requests", "thread"} : Purse'[k] = Purse[k]
    BY <1>0 DEF Purse, Places
  <2> QED BY <1>2, <2>3, <2>4, CreditStep
<1> QED BY <1>2, <1>3, <1>4, <1>5

(* A credit, or a copy for the taps, enters the event channel. *)
LEMMA InputSendStep == ASSUME RunInv, InputSend PROVE RunInv'
<1> USE DEF RunInv
<1>0. /\ UNCHANGED <<child, pipe, rpc, mpc, hand, failed, open, fpc, frame, reqs, toServer, toClient,
                     here, npc, cq, spc, credit, cpc>>
      /\ ipc \in {"first", "tell", "ready", "last"}
      /\ \/ Sent("ready") /\ ipc \in {"first", "ready"} /\ ipc' = "loop"
         \/ Sent("input") /\ ipc = "tell" /\ ipc' = "ready"
         \/ Sent("input") /\ ipc = "last" /\ ipc' = "done"
         \/ events' = events /\ ipc' \in {"loop", "done"}
  BY DEF InputSend, Refused, InputUnchanged, worker, client
<1>1. /\ events' = events \/ (events' \in Seq(Events) /\ open)
      /\ Sent("ready") => Count(events', {"ready"}) = Count(events, {"ready"}) + 1
      /\ Sent("input") => Count(events', {"ready"}) = Count(events, {"ready"})
  <2>0. Count(events, {"ready"}) \in Nat
    BY CountNat DEF RunTypes
  <2>1. Holds("ready" \in {"ready"}) = 1 /\ Holds("input" \in {"ready"}) = 0
    BY DEF Holds
  <2>2. "ready" \in Events /\ "input" \in Events
    BY DEF Events
  <2>3. ASSUME Sent("ready")
        PROVE  /\ events' \in Seq(Events) /\ open
               /\ Count(events', {"ready"}) = Count(events, {"ready"}) + 1
    BY <2>0, <2>1, <2>2, <2>3, SentCount
  <2>4. ASSUME Sent("input")
        PROVE  /\ events' \in Seq(Events) /\ open
               /\ Count(events', {"ready"}) = Count(events, {"ready"})
    BY <2>0, <2>1, <2>2, <2>4, SentCount
  <2> QED BY <1>0, <2>3, <2>4
<1>2. RunTypes'
  BY <1>0, <1>1 DEF RunTypes
<1>3. Stages' /\ Drained'
  BY <1>0, <1>1 DEF Stages, Drained
<1>4. ResultLast'
  BY <1>0 DEF ResultLast, Silent
<1>5. Single(Purse)'
  <2>1. Count(events, {"ready"}) \in Nat
    BY CountNat DEF RunTypes
  <2>2. Count(events', {"ready"}) + Holds(ipc' \in {"first", "write", "tell", "ready"})
          <= Count(events, {"ready"}) + Holds(ipc \in {"first", "write", "tell", "ready"})
    <3>1. CASE events' = events /\ ipc' \in {"loop", "done"}
      BY <2>1, <3>1 DEF Holds
    <3>2. CASE Sent("ready") /\ ipc \in {"first", "ready"} /\ ipc' = "loop"
      BY <1>1, <2>1, <3>2 DEF Holds
    <3>3. CASE Sent("input") /\ ipc = "tell" /\ ipc' = "ready"
      BY <1>1, <2>1, <3>3 DEF Holds
    <3>4. CASE Sent("input") /\ ipc = "last" /\ ipc' = "done"
      BY <1>1, <2>1, <3>4 DEF Holds
    <3> QED BY <1>0, <3>1, <3>2, <3>3, <3>4
  <2>3. /\ Purse'["events"] + Purse'["thread"] <= Purse["events"] + Purse["thread"]
        /\ "events" \in Places /\ "thread" \in Places
    BY <2>2 DEF Purse, Places
  <2>4. \A k \in Places \ {"events", "thread"} : Purse'[k] = Purse[k]
    BY <1>0 DEF Purse, Places
  <2> QED BY <1>2, <2>3, <2>4, CreditStep
<1> QED BY <1>2, <1>3, <1>4, <1>5

(* supervise takes an event, or finds that every sender has ended. *)
LEMMA TakeEventStep == ASSUME RunInv, TakeEvent PROVE RunInv'
<1> USE DEF RunInv
<1>0. /\ UNCHANGED <<child, pipe, rpc, ipc, failed, fpc, frame, reqs, toServer, toClient, here, npc, cq,
                     spc, credit, cpc>>
      /\ mpc = "forward" /\ open /\ ~failed
      /\ \/ /\ events # <<>> /\ hand' = Head(events) /\ events' = Tail(events)
            /\ mpc' = "deliver" /\ open' = open
         \/ /\ events = <<>> /\ mpc' = "join" /\ open' = FALSE /\ hand' = hand /\ events' = events
            /\ \A s \in Streams : rpc[s] = "done"
  BY DEF TakeEvent, SendersGone, MainUnchanged, worker, client, Stages
<1>1. events \in Seq(Events) /\ hand = NoMessage
  BY <1>0 DEF RunTypes, Stages
<1>2. events # <<>> => /\ events' \in Seq(Events) /\ hand' \in Events
                       /\ Count(events', {"ready"})
                            = Count(events, {"ready"}) - Holds(hand' \in {"ready"})
  BY <1>0, <1>1, CountTail, ResultTail
<1>3. RunTypes'
  <2>1. hand' \in Events \cup {NoMessage} /\ events' \in Seq(Events)
    BY <1>0, <1>1, <1>2
  <2>2. mpc' \in {"deliver", "join"} /\ open' \in BOOLEAN
    BY <1>0 DEF RunTypes
  <2> QED BY <1>0, <2>1, <2>2 DEF RunTypes
<1>4. Stages'
  BY <1>0, <1>1, <1>2 DEF Stages, NoMessage, Events
<1>5. Drained'
  BY <1>0 DEF Drained
<1>6. ResultLast'
  BY <1>0 DEF ResultLast, Silent
<1>7. Single(Purse)'
  <2>1. Count(events, {"ready"}) \in Nat
    BY <1>1, CountNat
  <2>2. Count(events', {"ready"}) + Holds(hand' = "ready")
          <= Count(events, {"ready"}) + Holds(hand = "ready")
    <3>1. CASE events = <<>>
      BY <1>0, <2>1, <3>1 DEF Holds
    <3>2. CASE events # <<>>
      BY <1>2, <2>1, <3>2 DEF Holds
    <3> QED BY <3>1, <3>2
  <2>3. /\ Purse'["events"] + Purse'["hand"] <= Purse["events"] + Purse["hand"]
        /\ "events" \in Places /\ "hand" \in Places
    BY <2>2 DEF Purse, Places
  <2>4. \A k \in Places \ {"events", "hand"} : Purse'[k] = Purse[k]
    BY <1>0 DEF Purse, Places
  <2> QED BY <1>3, <2>3, <2>4, CreditStep
<1> QED BY <1>3, <1>4, <1>5, <1>6, <1>7

(* The event is for the taps, or the client gets it, or the client has gone. *)
LEMMA DeliverStep == ASSUME RunInv, Deliver PROVE RunInv'
<1> USE DEF RunInv
<1>0. /\ UNCHANGED <<child, pipe, rpc, ipc, fpc, frame, reqs, toServer, here, npc, cq, spc, credit, cpc>>
      /\ mpc = "deliver" /\ open /\ ~failed /\ hand # NoMessage /\ hand' = NoMessage
      /\ \/ UNCHANGED <<failed, events, open, toClient>> /\ mpc' = "forward"
         \/ /\ hand # "input" /\ toClient' = Append(toClient, hand) /\ mpc' = "forward"
            /\ UNCHANGED <<failed, events, open>>
         \/ mpc' = "join" /\ failed' = TRUE /\ open' = FALSE /\ events' = <<>> /\ toClient' = toClient
  BY DEF Deliver, MainUnchanged, worker, client, Stages
<1>1. events \in Seq(Events) /\ toClient \in Seq(Answers) /\ hand \in Events
  BY <1>0 DEF RunTypes
<1>2. /\ cpc # "ok" /\ npc # "result" /\ ~Has(toClient) /\ ~Has(cq)
      /\ Ordered(cq) /\ EndsIt(toClient)
  BY <1>0 DEF ResultLast
<1>3. CASE toClient' = Append(toClient, hand) /\ hand # "input" /\ mpc' = "forward"
           /\ UNCHANGED <<failed, events, open>>
  <2>1. hand \in Answers /\ hand # "result"
    BY <1>1, <1>3 DEF Events, Answers
  <2>2. toClient' \in Seq(Answers) /\ ~Has(toClient') /\ EndsIt(toClient')
    BY <1>1, <1>2, <1>3, <2>1, ResultAppend
  <2>3. Count(toClient', {"ready"}) = Count(toClient, {"ready"}) + Holds(hand \in {"ready"})
    BY <1>1, <1>3, <2>1, CountAppend
  <2>4. RunTypes'
    BY <1>0, <1>3, <2>2 DEF RunTypes
  <2>5. Stages' /\ Drained'
    BY <1>0, <1>3 DEF Stages, Drained
  <2>6. ResultLast'
    BY <1>0, <1>2, <2>2 DEF ResultLast
  <2>7. Single(Purse)'
    <3>1. Count(toClient, {"ready"}) \in Nat
      BY <1>1, CountNat
    <3>2. Count(toClient', {"ready"}) + Holds(hand' = "ready")
            <= Count(toClient, {"ready"}) + Holds(hand = "ready")
      BY <1>0, <2>3, <3>1 DEF Holds, NoMessage
    <3>3. /\ Purse'["socket"] + Purse'["hand"] <= Purse["socket"] + Purse["hand"]
          /\ "socket" \in Places /\ "hand" \in Places
      BY <3>2 DEF Purse, Places
    <3>4. \A k \in Places \ {"socket", "hand"} : Purse'[k] = Purse[k]
      BY <1>0, <1>3 DEF Purse, Places
    <3> QED BY <2>4, <3>3, <3>4, CreditStep
  <2> QED BY <2>4, <2>5, <2>6, <2>7
<1>4. CASE /\ toClient' = toClient
           /\ \/ UNCHANGED <<failed, events, open>> /\ mpc' = "forward"
              \/ mpc' = "join" /\ failed' = TRUE /\ open' = FALSE /\ events' = <<>>
  <2>0. events' \in Seq(Events) /\ (events' = events \/ events' = <<>>)
    BY <1>1, <1>4, ResultEmpty
  <2>1. RunTypes'
    <3>1. mpc' \in {"forward", "join"} /\ open' \in BOOLEAN /\ failed' \in BOOLEAN
      BY <1>4 DEF RunTypes
    <3> QED BY <1>0, <1>4, <2>0, <3>1 DEF RunTypes
  <2>2. Stages' /\ Drained'
    <3>1. CASE UNCHANGED <<failed, events, open>> /\ mpc' = "forward"
      BY <1>0, <3>1 DEF Stages, Drained
    <3>2. CASE mpc' = "join" /\ failed' = TRUE /\ open' = FALSE /\ events' = <<>>
      BY <1>0, <3>2 DEF Stages, Drained
    <3> QED BY <1>4, <3>1, <3>2
  <2>3. ResultLast'
    BY <1>0, <1>2, <1>4 DEF ResultLast
  <2>4. Single(Purse)'
    <3>1. Count(events, {"ready"}) \in Nat /\ Count(<<>>, {"ready"}) = 0
      BY <1>1, CountNat, CountEmpty
    <3>2. Count(events', {"ready"}) + Holds(hand' = "ready")
            <= Count(events, {"ready"}) + Holds(hand = "ready")
      <4>1. Holds(hand' = "ready") = 0 /\ Holds(hand = "ready") \in {0, 1}
        BY <1>0 DEF Holds, NoMessage
      <4>2. \/ Count(events', {"ready"}) = Count(events, {"ready"})
            \/ Count(events', {"ready"}) = 0
        BY <2>0, <3>1
      <4> QED BY <3>1, <4>1, <4>2
    <3>3. /\ Purse'["events"] + Purse'["hand"] <= Purse["events"] + Purse["hand"]
          /\ "events" \in Places /\ "hand" \in Places
      BY <3>2 DEF Purse, Places
    <3>4. \A k \in Places \ {"events", "hand"} : Purse'[k] = Purse[k]
      BY <1>0, <1>4 DEF Purse, Places
    <3> QED BY <2>1, <3>3, <3>4, CreditStep
  <2> QED BY <2>1, <2>2, <2>3, <2>4
<1> QED BY <1>0, <1>3, <1>4

(* The threads are joined. *)
LEMMA JoinStep == ASSUME RunInv, JoinThreads PROVE RunInv'
<1> USE DEF RunInv
<1>0. /\ UNCHANGED <<child, pipe, rpc, ipc, hand, failed, events, open, fpc, frame, reqs, toServer, toClient,
                     here, npc, cq, spc, credit, cpc>>
      /\ mpc = "join" /\ mpc' \in {"ended", "result"} /\ (failed => mpc' = "ended")
  BY DEF JoinThreads, MainUnchanged, worker, client
<1>1. RunTypes' /\ Stages' /\ Drained'
  BY <1>0 DEF RunTypes, Stages, Drained
<1>2. ResultLast'
  BY <1>0 DEF ResultLast, Silent
<1>3. Single(Purse)'
  BY <1>0 DEF Single, Purse
<1> QED BY <1>1, <1>2, <1>3

(* The answer: the first and last result on the socket. *)
LEMMA AnswerStep == ASSUME RunInv, Answer PROVE RunInv'
<1> USE DEF RunInv
<1>0. /\ UNCHANGED <<child, pipe, rpc, ipc, hand, failed, events, open, fpc, frame, reqs, toServer,
                     here, npc, cq, spc, credit, cpc>>
      /\ mpc = "result" /\ ~failed /\ mpc' \in {"serve", "ended"}
      /\ toClient' = toClient \/ (toClient' = Append(toClient, "result") /\ mpc' = "serve")
  BY DEF Answer, MainUnchanged, worker, client, Stages
<1>1. /\ cpc # "ok" /\ npc # "result" /\ ~Has(toClient) /\ ~Has(cq)
      /\ Ordered(cq) /\ EndsIt(toClient)
  BY <1>0 DEF ResultLast
<1>2. /\ toClient' \in Seq(Answers) /\ EndsIt(toClient')
      /\ Count(toClient', {"ready"}) = Count(toClient, {"ready"})
  <2>1. toClient \in Seq(Answers) /\ "result" \in Answers /\ Holds("result" \in {"ready"}) = 0
    BY DEF RunTypes, Answers, Holds
  <2>2. Count(toClient, {"ready"}) \in Nat
    BY <2>1, CountNat
  <2>3. CASE toClient' = Append(toClient, "result")
    BY <1>1, <2>1, <2>2, <2>3, ResultAppend, CountAppend
  <2> QED BY <1>0, <1>1, <2>1, <2>3
<1>3. RunTypes' /\ Stages' /\ Drained'
  BY <1>0, <1>2 DEF RunTypes, Stages, Drained
<1>4. ResultLast'
  BY <1>0, <1>1, <1>2 DEF ResultLast
<1>5. Single(Purse)'
  BY <1>0, <1>2 DEF Single, Purse
<1> QED BY <1>3, <1>4, <1>5

(* Late input is taken from the connection. *)
LEMMA ServeStep == ASSUME RunInv, ServeNext PROVE RunInv'
<1> USE DEF RunInv
<1>0. /\ UNCHANGED <<child, pipe, rpc, ipc, hand, failed, events, open, fpc, frame, toServer, toClient,
                     here, npc, cq, spc, credit, cpc>>
      /\ mpc = "serve" /\ mpc' \in {"serve", "ended"} /\ reqs # <<>> /\ reqs' = Tail(reqs)
  BY DEF ServeNext, MainUnchanged, worker, client
<1>1. /\ reqs' \in Seq(Frames) /\ Count(reqs, {"input", "eof"}) \in Nat
      /\ Count(reqs', {"input", "eof"})
           = Count(reqs, {"input", "eof"}) - Holds(Head(reqs) \in {"input", "eof"})
  <2>1. reqs \in Seq(Frames)
    BY DEF RunTypes
  <2> QED BY <1>0, <2>1, CountNat, CountTail, ResultTail
<1>2. RunTypes' /\ Stages' /\ Drained'
  BY <1>0, <1>1 DEF RunTypes, Stages, Drained
<1>3. ResultLast'
  BY <1>0 DEF ResultLast, Silent
<1>4. Single(Purse)'
  <2>1. /\ Purse'["requests"] = Count(reqs', {"input", "eof"})
        /\ Purse["requests"] = Count(reqs, {"input", "eof"})
        /\ "requests" \in Places /\ Holds(Head(reqs) \in {"input", "eof"}) \in {0, 1}
    BY DEF Purse, Places, Holds
  <2>2. Purse'["requests"] + Purse'["requests"] <= Purse["requests"] + Purse["requests"]
    BY <1>1, <2>1
  <2>3. \A k \in Places \ {"requests", "requests"} : Purse'[k] = Purse[k]
    BY <1>0 DEF Purse, Places
  <2> QED BY <1>2, <2>1, <2>2, <2>3, CreditStep
<1> QED BY <1>2, <1>3, <1>4

(* The connection's reader takes a frame from the socket ... *)
LEMMA ReadFrameStep == ASSUME RunInv, ReadFrame PROVE RunInv'
<1> USE DEF RunInv
<1>0. /\ UNCHANGED <<child, pipe, rpc, ipc, mpc, hand, failed, events, open, reqs, toClient,
                     here, npc, cq, spc, credit, cpc>>
      /\ fpc' = "put"
      /\ \/ toServer # <<>> /\ frame' = Head(toServer) /\ toServer' = Tail(toServer)
         \/ frame' = "err" /\ toServer' = toServer
  BY DEF ReadFrame, worker, client
<1>1. toServer \in Seq(Frames) /\ "err" \in Frames
  BY DEF RunTypes, Frames
<1>2. /\ frame' \in Frames /\ toServer' \in Seq(Frames)
      /\ \/ Count(toServer', {"input", "eof"})
              = Count(toServer, {"input", "eof"}) - Holds(frame' \in {"input", "eof"})
         \/ toServer' = toServer /\ frame' = "err"
  BY <1>0, <1>1, CountTail, ResultTail
<1>3. RunTypes'
  BY <1>0, <1>2 DEF RunTypes
<1>4. Stages' /\ Drained'
  BY <1>0, <1>2 DEF Stages, Drained, NoMessage, Frames
<1>5. ResultLast'
  BY <1>0 DEF ResultLast, Silent
<1>6. Single(Purse)'
  <2>1. Count(toServer, {"input", "eof"}) \in Nat
    BY <1>1, CountNat
  <2>2. Count(toServer', {"input", "eof"}) + Holds(frame' \in {"input", "eof"})
          <= Count(toServer, {"input", "eof"}) + Holds(frame \in {"input", "eof"})
    BY <1>2, <2>1 DEF Holds
  <2>3. /\ Purse'["returning"] + Purse'["frame"] <= Purse["returning"] + Purse["frame"]
        /\ "returning" \in Places /\ "frame" \in Places
    BY <2>2 DEF Purse, Places
  <2>4. \A k \in Places \ {"returning", "frame"} : Purse'[k] = Purse[k]
    BY <1>0 DEF Purse, Places
  <2> QED BY <1>3, <2>3, <2>4, CreditStep
<1> QED BY <1>3, <1>4, <1>5, <1>6

(* ... and puts it in the channel of one request. *)
LEMMA PutRequestStep == ASSUME RunInv, PutRequest PROVE RunInv'
<1> USE DEF RunInv
<1>0. /\ UNCHANGED <<child, pipe, rpc, ipc, mpc, hand, failed, events, open, toServer, toClient,
                     here, npc, cq, spc, credit, cpc>>
      /\ frame \in Frames /\ frame' = NoMessage /\ fpc' \in {"read", "done"}
      /\ reqs' = reqs \/ (reqs = <<>> /\ reqs' = <<frame>>)
  BY DEF PutRequest, worker, daemon, client, RunTypes, Stages
<1>1. reqs' \in Seq(Frames)
  <2>1. reqs \in Seq(Frames) /\ <<frame>> \in Seq(Frames)
    BY <1>0 DEF RunTypes
  <2> QED BY <1>0, <2>1
<1>2. RunTypes' /\ Stages' /\ Drained'
  BY <1>0, <1>1 DEF RunTypes, Stages, Drained
<1>3. ResultLast'
  BY <1>0 DEF ResultLast, Silent
<1>4. Single(Purse)'
  <2>1. /\ Count(reqs, {"input", "eof"}) \in Nat /\ Count(<<>>, {"input", "eof"}) = 0
        /\ Count(<<frame>>, {"input", "eof"}) = Holds(frame \in {"input", "eof"})
    BY CountNat, CountEmpty, CountOne DEF RunTypes
  <2>2. Count(reqs', {"input", "eof"}) + Holds(frame' \in {"input", "eof"})
          <= Count(reqs, {"input", "eof"}) + Holds(frame \in {"input", "eof"})
    BY <1>0, <2>1 DEF Holds, NoMessage
  <2>3. /\ Purse'["requests"] + Purse'["frame"] <= Purse["requests"] + Purse["frame"]
        /\ "requests" \in Places /\ "frame" \in Places
    BY <2>2 DEF Purse, Places
  <2>4. \A k \in Places \ {"requests", "frame"} : Purse'[k] = Purse[k]
    BY <1>0 DEF Purse, Places
  <2> QED BY <1>2, <2>3, <2>4, CreditStep
<1> QED BY <1>2, <1>3, <1>4

(* The client's network reader takes a message ... *)
LEMMA ReceiveStep ==
  ASSUME RunInv, npc = NoMessage, toClient # <<>>, npc' = Head(toClient), toClient' = Tail(toClient),
         UNCHANGED <<cq, toServer, spc, credit, cpc>>, ClientUnchanged, here
  PROVE  RunInv'
<1> USE DEF RunInv
<1>0. UNCHANGED <<child, pipe, rpc, ipc, mpc, hand, failed, events, open, fpc, frame, reqs, toServer,
                  here, cq, spc, credit, cpc>>
  BY DEF ClientUnchanged, worker, daemon, conn
<1>1. toClient \in Seq(Answers) /\ toClient # <<>>
  BY DEF RunTypes
<1>2. /\ toClient' \in Seq(Answers) /\ npc' \in Answers
      /\ Count(toClient', {"ready"}) = Count(toClient, {"ready"}) - Holds(npc' \in {"ready"})
      /\ npc' = "result" \/ Has(toClient') => Has(toClient)
      /\ EndsIt(toClient) => EndsIt(toClient') /\ (npc' = "result" => toClient' = <<>>)
  BY <1>1, CountTail, ResultTail
<1>3. RunTypes'
  BY <1>0, <1>2 DEF RunTypes
<1>4. Stages' /\ Drained'
  BY <1>0 DEF Stages, Drained
<1>5. ResultLast'
  <2>1. ~Has(cq) /\ cpc # "ok"
    BY <1>1 DEF ResultLast, Silent
  <2> QED BY <1>0, <1>2, <2>1 DEF ResultLast
<1>6. Single(Purse)'
  <2>1. Count(toClient, {"ready"}) \in Nat
    BY <1>1, CountNat
  <2>2. Count(toClient', {"ready"}) + Holds(npc' = "ready")
          <= Count(toClient, {"ready"}) + Holds(npc = "ready")
    BY <1>2, <2>1 DEF Holds
  <2>3. /\ Purse'["socket"] + Purse'["reader"] <= Purse["socket"] + Purse["reader"]
        /\ "socket" \in Places /\ "reader" \in Places
    BY <2>2 DEF Purse, Places
  <2>4. \A k \in Places \ {"socket", "reader"} : Purse'[k] = Purse[k]
    BY <1>0 DEF Purse, Places
  <2> QED BY <1>3, <2>3, <2>4, CreditStep
<1> QED BY <1>3, <1>4, <1>5, <1>6

(* ... and queues it for the main thread. *)
LEMMA QueueMessageStep ==
  ASSUME RunInv, npc # NoMessage, Queued(npc), npc' = NoMessage, toClient' = toClient,
         UNCHANGED <<toServer, spc, credit, cpc>>, ClientUnchanged, here
  PROVE  RunInv'
<1> USE DEF RunInv
<1>0. UNCHANGED <<child, pipe, rpc, ipc, mpc, hand, failed, events, open, fpc, frame, reqs, toServer,
                  toClient, here, spc, credit, cpc>>
  BY DEF ClientUnchanged, worker, daemon, conn
<1>1. cq \in Seq(Answers \cup Typed) /\ npc \in Answers /\ npc \in Answers \cup Typed
  BY DEF RunTypes
<1>2. /\ cq' \in Seq(Answers \cup Typed)
      /\ Count(cq', {"ready", "input", "eof"})
           = Count(cq, {"ready", "input", "eof"}) + Holds(npc \in {"ready", "input", "eof"})
      /\ Has(cq') <=> Has(cq) \/ npc = "result"
      /\ Ordered(cq) /\ ~Has(cq) => Ordered(cq')
  BY <1>1, CountAppend, ResultAppend DEF Queued
<1>3. RunTypes'
  BY <1>0, <1>2 DEF RunTypes
<1>4. Stages' /\ Drained'
  BY <1>0 DEF Stages, Drained
<1>5. ResultLast'
  <2>1. ~Has(cq) /\ cpc # "ok"
    BY DEF ResultLast, Silent
  <2> QED BY <1>0, <1>2, <2>1 DEF ResultLast, Silent, NoMessage
<1>6. Single(Purse)'
  <2>1. Count(cq, {"ready", "input", "eof"}) \in Nat
    BY <1>1, CountNat
  <2>2. Count(cq', {"ready", "input", "eof"}) + Holds(npc' = "ready")
          <= Count(cq, {"ready", "input", "eof"}) + Holds(npc = "ready")
    <3>1. npc \in {"ready", "input", "eof"} <=> npc = "ready"
      BY <1>1 DEF Answers
    <3> QED BY <1>2, <2>1, <3>1 DEF Holds, NoMessage
  <2>3. /\ Purse'["queue"] + Purse'["reader"] <= Purse["queue"] + Purse["reader"]
        /\ "queue" \in Places /\ "reader" \in Places
    BY <2>2 DEF Purse, Places
  <2>4. \A k \in Places \ {"queue", "reader"} : Purse'[k] = Purse[k]
    BY <1>0 DEF Purse, Places
  <2> QED BY <1>3, <2>3, <2>4, CreditStep
<1> QED BY <1>3, <1>4, <1>5, <1>6

(* The stdin reader takes its credit and reads. *)
LEMMA StdinStep == ASSUME RunInv, TakeCredit \/ ReadStdin PROVE RunInv'
<1> USE DEF RunInv
<1>0. /\ UNCHANGED <<child, pipe, rpc, ipc, mpc, hand, failed, events, open, fpc, frame, reqs, toServer,
                     toClient, here, npc, cq, cpc>>
      /\ \/ credit /\ spc = "credit" /\ credit' = FALSE /\ spc' = "stdin"
         \/ credit' = credit /\ spc = "stdin" /\ spc' \in {"input", "eof", "broken"}
  BY DEF TakeCredit, ReadStdin, HasCredit, ClientUnchanged, worker, daemon,
         conn
<1>1. RunTypes'
  <2>1. spc' \in {"credit", "stdin", "done"} \cup Typed /\ credit' \in BOOLEAN
    BY <1>0 DEF RunTypes, Typed
  <2> QED BY <1>0, <2>1 DEF RunTypes
<1>2. Stages' /\ Drained'
  BY <1>0 DEF Stages, Drained
<1>3. ResultLast'
  BY <1>0 DEF ResultLast, Silent
<1>4. Single(Purse)'
  <2>1. Holds(credit') + Holds(spc' \in {"stdin", "input", "eof", "broken"})
          <= Holds(credit) + Holds(spc \in {"stdin", "input", "eof", "broken"})
    BY <1>0 DEF Holds
  <2>2. /\ Purse'["credit"] + Purse'["stdin"] <= Purse["credit"] + Purse["stdin"]
        /\ "credit" \in Places /\ "stdin" \in Places
    BY <2>1 DEF Purse, Places
  <2>3. \A k \in Places \ {"credit", "stdin"} : Purse'[k] = Purse[k]
    BY <1>0 DEF Purse, Places
  <2> QED BY <1>1, <2>2, <2>3, CreditStep
<1> QED BY <1>1, <1>2, <1>3, <1>4

(* What it has read is queued for the main thread. *)
LEMMA QueueInputStep == ASSUME RunInv, QueueInput PROVE RunInv'
<1> USE DEF RunInv
<1>0. /\ UNCHANGED <<child, pipe, rpc, ipc, mpc, hand, failed, events, open, fpc, frame, reqs, toServer,
                     toClient, here, npc, credit, cpc>>
      /\ spc \in Typed /\ spc' \in {"credit", "done"} /\ cq' = Append(cq, spc)
  BY DEF QueueInput, Queued, Typed, ClientUnchanged, worker, daemon, conn
<1>1. cq \in Seq(Answers \cup Typed) /\ spc \in Answers \cup Typed /\ spc # "result" /\ spc # "out"
  BY <1>0 DEF RunTypes, Typed
<1>2. /\ cq' \in Seq(Answers \cup Typed)
      /\ Count(cq', {"ready", "input", "eof"})
           = Count(cq, {"ready", "input", "eof"}) + Holds(spc \in {"ready", "input", "eof"})
      /\ Has(cq') <=> Has(cq)
      /\ NoOut(cq') <=> NoOut(cq)
      /\ Ordered(cq) => Ordered(cq')
  BY <1>0, <1>1, CountAppend, ResultAppend
<1>3. RunTypes'
  BY <1>0, <1>2 DEF RunTypes
<1>4. Stages' /\ Drained'
  BY <1>0 DEF Stages, Drained
<1>5. ResultLast'
  BY <1>0, <1>2 DEF ResultLast, Silent
<1>6. Single(Purse)'
  <2>1. Count(cq, {"ready", "input", "eof"}) \in Nat
    BY <1>1, CountNat
  <2>2. Count(cq', {"ready", "input", "eof"}) + Holds(spc' \in {"stdin", "input", "eof", "broken"})
          <= Count(cq, {"ready", "input", "eof"}) + Holds(spc \in {"stdin", "input", "eof", "broken"})
    BY <1>0, <1>2, <2>1 DEF Holds, Typed
  <2>3. /\ Purse'["queue"] + Purse'["stdin"] <= Purse["queue"] + Purse["stdin"]
        /\ "queue" \in Places /\ "stdin" \in Places
    BY <2>2 DEF Purse, Places
  <2>4. \A k \in Places \ {"queue", "stdin"} : Purse'[k] = Purse[k]
    BY <1>0 DEF Purse, Places
  <2> QED BY <1>3, <2>3, <2>4, CreditStep
<1> QED BY <1>3, <1>4, <1>5, <1>6

(* The main thread handles a message; a credit never finds another one.  After   *)
(* the result nothing is left to come.                                           *)
LEMMA HandleStep == ASSUME RunInv, Handle PROVE RunInv'
<1> USE DEF RunInv
<1>0. /\ UNCHANGED <<child, pipe, rpc, ipc, mpc, hand, failed, events, open, fpc, frame, reqs, toServer,
                     toClient, here, npc, spc>>
      /\ cpc = "loop" /\ cq # <<>> /\ cq' = Tail(cq)
      /\ \/ Head(cq) \in {"input", "eof"} /\ cpc' = Head(cq) /\ credit' = credit
         \/ Head(cq) = "ready" /\ cpc' \in {"loop", "fail"} /\ credit' = TRUE
         \/ Head(cq) \in {"out", "broken"} /\ cpc' \in {"loop", "fail"} /\ credit' = credit
         \/ Head(cq) = "result" /\ cpc' = "ok" /\ credit' = credit
  BY DEF Handle, ClientUnchanged, worker, daemon, conn
<1>1. cq \in Seq(Answers \cup Typed)
  BY DEF RunTypes
<1>2. /\ cq' \in Seq(Answers \cup Typed)
      /\ Count(cq', {"ready", "input", "eof"})
           = Count(cq, {"ready", "input", "eof"}) - Holds(Head(cq) \in {"ready", "input", "eof"})
      /\ Head(cq) = "result" \/ Has(cq') => Has(cq)
      /\ Ordered(cq) => Ordered(cq') /\ (Head(cq) = "result" => NoOut(cq'))
  BY <1>0, <1>1, CountTail, ResultTail
<1>3. RunTypes'
  <2>1. cpc' \in {"loop", "input", "eof", "fail", "ok"} /\ credit' \in BOOLEAN
    BY <1>0 DEF RunTypes
  <2> QED BY <1>0, <1>2, <2>1 DEF RunTypes
<1>4. Stages' /\ Drained'
  BY <1>0 DEF Stages, Drained
<1>5. ResultLast'
  <2>1. cpc' = "ok" => Head(cq) = "result"
    BY <1>0
  <2> QED BY <1>0, <1>2, <2>1 DEF ResultLast, Silent
<1>6. Single(Purse)'
  <2>1. /\ Count(cq, {"ready", "input", "eof"}) \in Nat
        /\ Count(cq', {"ready", "input", "eof"}) \in Nat
    BY <1>1, <1>2, CountNat
  <2>2. CASE Head(cq) \in {"input", "eof"} /\ cpc' = Head(cq) /\ credit' = credit
    <3>1. Count(cq', {"ready", "input", "eof"}) + Holds(cpc' \in {"input", "eof"})
            <= Count(cq, {"ready", "input", "eof"}) + Holds(cpc \in {"input", "eof"})
      BY <1>2, <2>1, <2>2 DEF Holds
    <3>2. /\ Purse'["queue"] + Purse'["main"] <= Purse["queue"] + Purse["main"]
          /\ "queue" \in Places /\ "main" \in Places
      BY <3>1 DEF Purse, Places
    <3>3. \A k \in Places \ {"queue", "main"} : Purse'[k] = Purse[k]
      BY <1>0, <2>2 DEF Purse, Places
    <3> QED BY <1>3, <3>2, <3>3, CreditStep
  <2>3. CASE Head(cq) = "ready" /\ cpc' \in {"loop", "fail"} /\ credit' = TRUE
    <3>1. Count(cq', {"ready", "input", "eof"}) = Count(cq, {"ready", "input", "eof"}) - 1
      BY <1>2, <2>3 DEF Holds
    <3>2. Count(cq, {"ready", "input", "eof"}) # 0
      BY <2>1, <3>1
    <3>3. /\ "queue" \in Places /\ "credit" \in Places
          /\ Purse["queue"] = Count(cq, {"ready", "input", "eof"}) /\ Purse["credit"] = Holds(credit)
      BY DEF Purse, Places
    <3>4. Holds(credit) = 0
      BY <3>2, <3>3 DEF Single
    <3>5. Count(cq', {"ready", "input", "eof"}) + Holds(credit')
            <= Count(cq, {"ready", "input", "eof"}) + Holds(credit)
      BY <2>1, <2>3, <3>1, <3>4 DEF Holds
    <3>6. Purse'["queue"] + Purse'["credit"] <= Purse["queue"] + Purse["credit"]
      BY <3>5 DEF Purse
    <3>7. \A k \in Places \ {"queue", "credit"} : Purse'[k] = Purse[k]
      BY <1>0, <2>3 DEF Purse, Places, Holds
    <3> QED BY <1>3, <3>3, <3>6, <3>7, CreditStep
  <2>4. CASE /\ Head(cq) \in {"out", "broken", "result"}
             /\ cpc' \in {"loop", "fail", "ok"} /\ credit' = credit
    <3>1. Count(cq', {"ready", "input", "eof"}) = Count(cq, {"ready", "input", "eof"})
      BY <1>2, <2>1, <2>4 DEF Holds
    <3>2. \A k \in Places : Purse'[k] = Purse[k]
      BY <1>0, <2>4, <3>1 DEF Purse, Places, Holds
    <3> QED BY <1>3, <3>2, CreditLoss
  <2> QED BY <1>0, <2>2, <2>3, <2>4
<1> QED BY <1>3, <1>4, <1>5, <1>6

(* An input, or the end of a failed run, is sent to the daemon. *)
LEMMA SendRequestStep == ASSUME RunInv, SendRequest PROVE RunInv'
<1> USE DEF RunInv
<1>0. /\ UNCHANGED <<child, pipe, rpc, ipc, mpc, hand, failed, events, open, fpc, frame, reqs,
                     toClient, here, npc, cq, spc, credit>>
      /\ \/ cpc \in {"input", "eof"} /\ toServer' = Append(toServer, cpc) /\ cpc' = "loop"
         \/ cpc = "fail" /\ toServer' = Append(toServer, "exit") /\ cpc' = "failed"
  BY DEF SendRequest, ClientUnchanged, worker, daemon, conn
<1>1. toServer \in Seq(Frames) /\ "exit" \in Frames /\ "input" \in Frames /\ "eof" \in Frames
  BY DEF RunTypes, Frames
<1>2. PICK r \in Frames :
        /\ toServer' = Append(toServer, r)
        /\ \/ cpc \in {"input", "eof"} /\ r = cpc /\ cpc' = "loop"
           \/ cpc = "fail" /\ r = "exit" /\ cpc' = "failed"
  BY <1>0, <1>1
<1>3. /\ toServer' \in Seq(Frames)
      /\ Count(toServer', {"input", "eof"})
           = Count(toServer, {"input", "eof"}) + Holds(r \in {"input", "eof"})
  BY <1>1, <1>2, CountAppend, ResultAppend
<1>4. RunTypes'
  BY <1>0, <1>3 DEF RunTypes
<1>5. Stages' /\ Drained'
  BY <1>0 DEF Stages, Drained
<1>6. ResultLast'
  BY <1>0 DEF ResultLast, Silent
<1>7. Single(Purse)'
  <2>1. Count(toServer, {"input", "eof"}) \in Nat
    BY <1>1, CountNat
  <2>2. Count(toServer', {"input", "eof"}) + Holds(cpc' \in {"input", "eof"})
          <= Count(toServer, {"input", "eof"}) + Holds(cpc \in {"input", "eof"})
    BY <1>2, <1>3, <2>1 DEF Holds
  <2>3. /\ Purse'["returning"] + Purse'["main"] <= Purse["returning"] + Purse["main"]
        /\ "returning" \in Places /\ "main" \in Places
    BY <2>2 DEF Purse, Places
  <2>4. \A k \in Places \ {"returning", "main"} : Purse'[k] = Purse[k]
    BY <1>0 DEF Purse, Places
  <2> QED BY <1>4, <2>3, <2>4, CreditStep
<1> QED BY <1>4, <1>5, <1>6, <1>7

(* The client leaves, and takes what it holds with it. *)
LEMMA LeaveStep == ASSUME RunInv, Quit \/ Interrupt PROVE RunInv'
<1> USE DEF RunInv
<1>0. /\ UNCHANGED <<child, pipe, rpc, ipc, mpc, hand, failed, events, open, fpc, frame, reqs, toServer>>
      /\ here' = FALSE /\ toClient' = <<>> /\ npc' = NoMessage /\ cq' = <<>>
      /\ spc' = "done" /\ credit' = FALSE
      /\ (cpc \in {"ok", "failed"} /\ cpc' = cpc) \/ cpc' = "gone"
  BY DEF Quit, Interrupt, Leave, worker, daemon, conn
<1>1. RunTypes'
  <2>1. /\ toClient' \in Seq(Answers) /\ cq' \in Seq(Answers \cup Typed)
        /\ cpc' \in {"ok", "failed", "gone"}
    BY <1>0, ResultEmpty
  <2>2. /\ here' \in BOOLEAN /\ npc' \in Answers \cup {NoMessage} /\ credit' \in BOOLEAN
        /\ spc' \in {"credit", "stdin", "done"} \cup Typed
    BY <1>0
  <2> QED BY <1>0, <2>1, <2>2 DEF RunTypes
<1>2. Stages' /\ Drained'
  BY <1>0 DEF Stages, Drained
<1>3. ResultLast'
  BY <1>0, ResultEmpty DEF ResultLast, NoMessage
<1>4. Single(Purse)'
  <2>1. Count(<<>>, {"ready"}) = 0 /\ Count(<<>>, {"ready", "input", "eof"}) = 0
    BY CountEmpty
  <2>2. \A k \in Places : Purse'[k] = Purse[k] \/ Purse'[k] = 0
    BY <1>0, <2>1 DEF Purse, Places, Holds, NoMessage
  <2> QED BY <1>1, <2>2, CreditLoss
<1> QED BY <1>1, <1>2, <1>3, <1>4

(* The beginning of a run: the one credit is with the input thread. *)
LEMMA RunStart == RunInit => RunInv
<1> SUFFICES ASSUME RunInit PROVE RunInv
  OBVIOUS
<1>1. RunTypes
  BY ResultEmpty DEF RunInit, RunTypes
<1>2. Stages /\ Drained
  BY DEF RunInit, Stages, Drained
<1>3. ResultLast
  BY ResultEmpty DEF RunInit, ResultLast, NoMessage
<1>4. Single(Purse)
  <2>1. /\ Count(<<>>, {"ready"}) = 0 /\ Count(<<>>, {"ready", "input", "eof"}) = 0
        /\ Count(<<>>, {"input", "eof"}) = 0
    BY CountEmpty
  <2>2. /\ \A k \in Places \ {"thread"} : Purse[k] = 0
        /\ Purse["thread"] = 1
    BY <2>1 DEF RunInit, Purse, Places, Holds, NoMessage
  <2> QED BY <2>2 DEF Single
<1> QED BY <1>1, <1>2, <1>3, <1>4 DEF RunInv

(* Every step keeps the invariant. *)
LEMMA RunStep == RunInv /\ [RunNext]_runVars => RunInv'
<1> SUFFICES ASSUME RunInv, [RunNext]_runVars PROVE RunInv'
  OBVIOUS
<1>1. CASE \/ \E s \in Streams : ChildWrites(s)
           \/ ChildReads \/ ChildExits \/ Watch \/ Timeout \/ Announce
  BY <1>1, WorkerStep
<1>2. CASE \E s \in Streams : Reader(s)
  BY <1>2, ReadPipeStep, SendChunkStep DEF Reader
<1>3. CASE InputThread
  BY <1>3, InputStep, InputSendStep DEF InputThread
<1>4. CASE Main
  BY <1>4, TakeEventStep, DeliverStep, JoinStep, AnswerStep, ServeStep DEF Main
<1>5. CASE FrameReader
  BY <1>5, ReadFrameStep, PutRequestStep DEF FrameReader
<1>6. CASE Receive
  BY <1>6, ReceiveStep, QueueMessageStep DEF Receive
<1>7. CASE StdinReader \/ ReadStdin
  BY <1>7, StdinStep, QueueInputStep DEF StdinReader
<1>8. CASE ClientMain \/ Interrupt
  BY <1>8, HandleStep, SendRequestStep, LeaveStep DEF ClientMain
<1>9. CASE UNCHANGED runVars
  <2>1. UNCHANGED <<child, pipe, rpc, ipc, mpc, hand, failed, events, open, fpc, frame, reqs, toServer,
                    toClient, here, npc, cq, spc, credit, cpc>>
    BY <1>9 DEF runVars, worker, daemon, conn, client
  <2>2. RunTypes' /\ Stages' /\ Drained'
    BY <2>1 DEF RunInv, RunTypes, Stages, Drained
  <2>3. ResultLast' /\ Single(Purse)'
    BY <2>1 DEF RunInv, ResultLast, Silent, Single, Purse
  <2> QED BY <2>2, <2>3 DEF RunInv
<1> QED BY <1>1, <1>2, <1>3, <1>4, <1>5, <1>6, <1>7, <1>8, <1>9 DEF RunNext, Over

(* What the invariant says of the credits and of the output. *)
LEMMA RunInvImplies == RunInv => OneCredit /\ OutputComplete
<1> SUFFICES ASSUME RunInv PROVE OneCredit /\ OutputComplete
  OBVIOUS
<1>1. OneCredit
  <2>1. Purse \in [Places -> Nat] /\ Single(Purse)
    BY PurseNumbers DEF RunInv
  <2>2. Total(Purse) <= 1
    BY <2>1, SingleTotal
  <2>3. Credits = Total(Purse)
    BY DEF Credits, Total, Purse
  <2> QED BY <2>2, <2>3 DEF OneCredit
<1>2. ASSUME cpc = "ok", here PROVE
        /\ \A s \in Streams : pipe[s] = 0 /\ rpc[s] = "done"
        /\ \A queue \in {events, toClient, cq, <<hand, npc>>} : \A i \in DOMAIN queue : queue[i] # "out"
  <2>1. /\ mpc \in {"serve", "ended"} /\ ~failed /\ toClient = <<>> /\ npc = NoMessage /\ NoOut(cq)
    BY <1>2 DEF RunInv, ResultLast, Silent
  <2>2. ~open /\ hand = NoMessage /\ events = <<>>
    BY <2>1 DEF RunInv, Stages
  <2>3. \A s \in Streams : pipe[s] = 0 /\ rpc[s] = "done"
    BY <2>1, <2>2 DEF RunInv, Drained
  <2>4. \A i \in DOMAIN cq : cq[i] # "out"
    <3>1. cq \in Seq(Answers \cup Typed)
      BY DEF RunInv, RunTypes
    <3> QED BY <2>1, <3>1, LenProperties DEF NoOut
  <2>5. \A i \in DOMAIN <<hand, npc>> : <<hand, npc>>[i] # "out"
    BY <2>1, <2>2 DEF NoMessage
  <2>6. \A i \in DOMAIN <<>> : <<>>[i] # "out"
    OBVIOUS
  <2> QED BY <2>1, <2>2, <2>3, <2>4, <2>5, <2>6
<1> QED BY <1>1, <1>2 DEF OutputComplete

(* The invariant holds throughout a run. *)
LEMMA RunInvariant == RunSpec => []RunInv
BY RunStart, RunStep, PTL DEF RunSpec

(* In every reachable state of a supervised run there is at most one credit for  *)
(* standard input, counted over every thread and queue of daemon and client: the *)
(* client's channel of credits never overflows, and the daemon is never sent     *)
(* input that it has not asked for.                                              *)
THEOREM RunCreditUnique == RunSpec => []OneCredit
BY RunInvariant, RunInvImplies, PTL

(* A client that has taken the result of a run has taken all of its output: no   *)
(* chunk is left in a pipe, with a reader, in a queue or on the socket, whatever *)
(* the order in which the threads ran.                                           *)
THEOREM RunOutputComplete == RunSpec => []OutputComplete
BY RunInvariant, RunInvImplies, PTL
===============================================================================
