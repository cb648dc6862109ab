-------------------------------- MODULE Session -------------------------------
(* How the daemon answers requests about a project while its files are being   *)
(* edited: each request prepares the project off-lock, brings the shared       *)
(* session up to date under the session lock, and runs on a snapshot taken in  *)
(* a second critical section; a change to the inputs cancels running reads and *)
(* waits until their snapshots are dropped.  fai-server/src/server.rs          *)
(* (with_fresh_snapshot, with_snapshot), fai-driver/src/session.rs             *)
(* (prepare_update, apply_project, snapshot).                                  *)
(*                                                                             *)
(* A file's contents are the number of the edit that wrote it, 0 when absent;  *)
(* its stat (mtime and length) is the same number, which assumes that two      *)
(* writes never leave the same stat; all missing files have the same stat, 0.  *)
(* Requests carry no dirty set, as those of the command line, and share one    *)
(* context.                                                                    *)
EXTENDS Naturals, FiniteSets

CONSTANTS
  Requests,
  Files,      \* source files the project may have
  None,
  MaxEdits    \* edits made to the disk

ASSUME EditBound == MaxEdits \in Nat
ASSUME NoneAssumption == None \notin Requests

VARIABLES
  disk, manifest, edits,   \* sources, fai.toml and lock, and edits so far
  lock,       \* the request holding the session lock
  db,         \* the inputs: manifest and the text of each loaded file
  stats,      \* the stat recorded with each loaded file
  cancelling, \* a writer waits for the other handles of the database
  pc,
  base,       \* the disk when the request began, less what was deleted since (history)
  prepared,   \* the manifest and the inventory the request prepared
  todo,       \* files still to be brought up to date
  fetched,    \* texts and stats collected so far
  reading,    \* the file being read, with the stat taken of it
  snap        \* the request's snapshot, kept after it as its answer

disks == <<disk, manifest, edits>>
session == <<db, stats>>
vars == <<disks, lock, session, cancelling, pc, base, prepared, todo, fetched, reading, snap>>

Stamps == 0..MaxEdits
Texts == [Files -> Stamps]
Inputs == [manifest : Stamps, text : Texts]

TypeOK ==
  /\ disk \in Texts /\ manifest \in Stamps /\ edits \in Stamps
  /\ lock \in Requests \cup {None} /\ db \in Inputs /\ stats \in Texts /\ cancelling \in BOOLEAN
  /\ pc \in [Requests -> {"begin", "inventory", "lock", "stat", "read", "drain",
                          "snapshot", "running", "answered", "failed"}]
  /\ base \in [Requests -> Inputs] /\ snap \in [Requests -> Inputs]
  /\ prepared \in [Requests -> [manifest : Stamps, files : SUBSET Files]]
  /\ todo \in [Requests -> SUBSET Files]
  /\ reading \in [Requests -> [file : Files \cup {None}, stat : Stamps]]
  /\ fetched \in [Requests -> [text : Texts, stat : Texts]]

NoTexts == [f \in Files |-> 0]
NoInputs == [manifest |-> 0, text |-> NoTexts]
Nothing == [text |-> NoTexts, stat |-> NoTexts]
NoFile == [file |-> None, stat |-> 0]
Unprepared == [manifest |-> 0, files |-> {}]

Init ==
  /\ disk = NoTexts /\ manifest = 0 /\ edits = 0
  /\ lock = None /\ db = NoInputs /\ stats = NoTexts /\ cancelling = FALSE
  /\ pc = [r \in Requests |-> "begin"]
  /\ base = [r \in Requests |-> NoInputs] /\ snap = [r \in Requests |-> NoInputs]
  /\ prepared = [r \in Requests |-> Unprepared] /\ todo = [r \in Requests |-> {}]
  /\ fetched = [r \in Requests |-> Nothing] /\ reading = [r \in Requests |-> NoFile]

Goto(r, from, to) == pc[r] = from /\ pc' = [pc EXCEPT ![r] = to]

(***************************************************************************)
(* Preparation, off the lock: the metadata documents, then the inventory.  *)
(***************************************************************************)
Begin(r) ==
  /\ Goto(r, "begin", "inventory")
  /\ base' = [base EXCEPT ![r] = [manifest |-> manifest, text |-> disk]]
  /\ prepared' = [prepared EXCEPT ![r].manifest = manifest]
  /\ UNCHANGED <<disks, lock, session, cancelling, todo, fetched, reading, snap>>

CollectInventory(r) ==
  /\ Goto(r, "inventory", "lock")
  /\ prepared' = [prepared EXCEPT ![r].files = {f \in Files : disk[f] # 0}]
  /\ UNCHANGED <<disks, lock, session, cancelling, base, todo, fetched, reading, snap>>

(***************************************************************************)
(* Publication, under the lock (apply_project).                            *)
(***************************************************************************)
ObservedUnchecked(r) == TRUE
Observed(r) == prepared[r].manifest = manifest

\* The digests of the prepared metadata are compared with the disk first.
Lock(r) ==
  /\ lock = None
  /\ \/ /\ Observed(r) /\ Goto(r, "lock", "stat") /\ lock' = r
        /\ todo' = [todo EXCEPT ![r] = prepared[r].files]
     \/ ~Observed(r) /\ Goto(r, "lock", "failed") /\ UNCHANGED <<lock, todo>>
  /\ UNCHANGED <<disks, session, cancelling, base, prepared, fetched, reading, snap>>

Fetch(r, f, text, stat) ==
  /\ fetched' = [fetched EXCEPT ![r].text[f] = text, ![r].stat[f] = stat]
  /\ todo' = [todo EXCEPT ![r] = @ \ {f}]

\* Same stat as recorded with a loaded text: the text is reused, not read, also
\* when both are the stat of a missing file.
StatGate(f) == stats[f] = disk[f] /\ db.text[f] # 0

Stat(r, f) ==
  /\ f \in todo[r]
  /\ \/ /\ StatGate(f) /\ Goto(r, "stat", "stat") /\ Fetch(r, f, db.text[f], disk[f])
        /\ UNCHANGED reading
     \/ /\ ~StatGate(f) /\ Goto(r, "stat", "read")
        /\ reading' = [reading EXCEPT ![r] = [file |-> f, stat |-> disk[f]]]
        /\ UNCHANGED <<todo, fetched>>
  /\ UNCHANGED <<disks, lock, session, cancelling, base, prepared, snap>>

(* What is kept of a file whose stat was taken before its text was read.       *)
EntrySwapped(before, now) == [text |-> before, stat |-> now]
Entry(before, now) == [text |-> now, stat |-> before]

\* If the file is gone by now the request fails, and the session is as it was.
Read(r) ==
  LET f == reading[r].file
      e == Entry(reading[r].stat, disk[f]) IN
  /\ pc[r] = "read"
  /\ \/ disk[f] # 0 /\ Goto(r, "read", "stat") /\ Fetch(r, f, e.text, e.stat) /\ UNCHANGED lock
     \/ disk[f] = 0 /\ Goto(r, "read", "failed") /\ lock' = None /\ UNCHANGED <<todo, fetched>>
  /\ reading' = [reading EXCEPT ![r] = NoFile]
  /\ UNCHANGED <<disks, session, cancelling, base, prepared, snap>>

Prepared(r) == [manifest |-> prepared[r].manifest, text |-> fetched[r].text]

\* The request's context replaces the session's, and the lock is released.
Install(r) ==
  /\ db' = Prepared(r) /\ stats' = fetched[r].stat
  /\ lock' = None /\ cancelling' = FALSE
  /\ fetched' = [fetched EXCEPT ![r] = Nothing]
  /\ prepared' = [prepared EXCEPT ![r] = Unprepared]
  /\ UNCHANGED <<disks, base, todo, reading, snap>>

\* An update that changes no input touches no setter; one that does cancels the
\* running reads and waits, holding the lock, until every snapshot is dropped.
Publish(r) ==
  /\ todo[r] = {}
  /\ \/ Prepared(r) = db /\ Goto(r, "stat", "snapshot") /\ Install(r)
     \/ /\ Prepared(r) # db /\ Goto(r, "stat", "drain") /\ cancelling' = TRUE
        /\ UNCHANGED <<disks, lock, session, base, prepared, todo, fetched, reading, snap>>

(* The requests that keep a clone of the database.                             *)
HandlesKept == {r \in Requests : pc[r] \in {"running", "snapshot"}}
Handles == {r \in Requests : pc[r] = "running"}
Drain(r) == Handles = {} /\ Goto(r, "drain", "snapshot") /\ Install(r)

(***************************************************************************)
(* Reading, off the lock (with_snapshot, run_read).                        *)
(***************************************************************************)
OtherVars == <<disks, lock, session, cancelling, base, prepared, todo, fetched, reading>>

Snapshot(r) ==
  /\ lock = None /\ Goto(r, "snapshot", "running")
  /\ snap' = [snap EXCEPT ![r] = db]
  /\ UNCHANGED OtherVars

Finish(r) == Goto(r, "running", "answered") /\ UNCHANGED <<OtherVars, snap>>

\* A cancelled read drops its snapshot before it asks for the lock again; it does
\* not synchronise again.
Cancelled(r) ==
  /\ cancelling /\ Goto(r, "running", "snapshot")
  /\ snap' = [snap EXCEPT ![r] = NoInputs]
  /\ UNCHANGED OtherVars

(***************************************************************************)
(* The user: writes or creates a file, deletes one (and asks nothing more  *)
(* of its contents), edits the manifest.                                   *)
(***************************************************************************)
Edit ==
  /\ edits < MaxEdits /\ edits' = edits + 1
  /\ \/ \E f \in Files : disk' = [disk EXCEPT ![f] = edits + 1] /\ UNCHANGED <<manifest, base>>
     \/ \E f \in Files :
          /\ disk[f] # 0 /\ disk' = [disk EXCEPT ![f] = 0] /\ UNCHANGED manifest
          /\ base' = [r \in Requests |-> [base[r] EXCEPT !.text[f] = 0]]
     \/ manifest' = edits + 1 /\ UNCHANGED <<disk, base>>
  /\ UNCHANGED <<lock, session, cancelling, pc, prepared, todo, fetched, reading, snap>>

Serve(r) ==
  \/ Begin(r) \/ CollectInventory(r) \/ Lock(r) \/ (\E f \in Files : Stat(r, f)) \/ Read(r)
  \/ Publish(r) \/ Drain(r) \/ Snapshot(r) \/ Cancelled(r)

Next == (\E r \in Requests : Serve(r) \/ Finish(r)) \/ Edit

Spec == Init /\ [][Next]_vars

(* A request's thread runs while it can, and the lock is granted to those who  *)
(* keep asking for it: sections under it are short and requests are few.  A    *)
(* read may take as long as it likes unless it is cancelled.                   *)
FairSpec == Spec /\ \A r \in Requests : SF_vars(Serve(r)) /\ WF_vars(Finish(r))

(***************************************************************************)
(* Properties.                                                             *)
(***************************************************************************)

(* An answer is never older than its request (with_fresh_snapshot, the stat    *)
(* gate of apply_project): it uses a manifest, and for every file it includes  *)
(* a text, at least as new as the disk held when the request began, whichever  *)
(* request published last and however edits fall between stat and read.  A     *)
(* file deleted since the request began is left out: two missing files have    *)
(* the same stat, so a text once read just after its file was missing passes   *)
(* the gate when the file is missing again, however old it is.                 *)
ContentFresh ==
  \A r \in Requests : pc[r] = "answered" =>
    /\ snap[r].manifest >= base[r].manifest
    /\ \A f \in Files : snap[r].text[f] # 0 => snap[r].text[f] >= base[r].text[f]

(* Every request ends (cancel_others against with_snapshot): a writer that     *)
(* holds the session lock while it waits for snapshots to be dropped, and the  *)
(* cancelled readers that come back for the lock, never wait on each other.    *)
RequestsEnd == \A r \in Requests : <>(pc[r] \in {"answered", "failed"})

(* The daemon re-scans the workspace before each request: a file on the disk   *)
(* when the request began, and still there, is part of its answer.             *)
InventoryFresh ==
  \A r \in Requests : pc[r] = "answered" =>
    \A f \in Files : base[r].text[f] # 0 /\ disk[f] = base[r].text[f] => snap[r].text[f] # 0
===============================================================================
