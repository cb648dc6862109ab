-------------------------- MODULE MetadataTransaction --------------------------
(***************************************************************************)
(* Journalled updates of a project's manifest and lock file                *)
(* (crates/fai-package-store/src/transaction.rs), by the commands that      *)
(* prepare them (crates/fai-driver/src/project.rs and                       *)
(* project/resolution.rs).                                                  *)
(*                                                                          *)
(* The content of the manifest is a version; the content of the lock file   *)
(* is the version of the manifest it was resolved from.  A digest stands    *)
(* for its content.  Each file operation is a step: between any two, other  *)
(* processes run, the user edits the files by hand, the process dies (or    *)
(* gives up on an I/O error) or the machine loses power.                    *)
(***************************************************************************)
EXTENDS Naturals, Sequences, FiniteSets

CONSTANTS
  Procs, NoProc,
  Versions,          \* contents of the manifest
  Absent,            \* the file does not exist
  NoTx,              \* no journal, no transaction
  MaxEdits,          \* bound: edits by hand
  MaxCrashes         \* bound: process deaths and power failures

ASSUME MetadataAssumption ==
  /\ IsFiniteSet(Procs) /\ NoProc \notin Procs
  /\ IsFiniteSet(Versions) /\ Absent \notin Versions
  /\ MaxEdits \in Nat /\ MaxCrashes \in Nat

Files == {"manifest", "lock"}
Contents == Versions \cup {Absent}

VARIABLES
  file,      \* the contents on disk
  journal,   \* .fai/transaction.json
  removed,   \* a journal whose removal may not have reached the disk
  holder,    \* owner of the advisory lock .fai/metadata.lock
  pc,
  seen,      \* the manifest a process has read
  goal,      \* the version a command wants to write, Absent: only resolve
  own,       \* the transaction a process wants to commit
  doing,     \* the transaction `finish` is working on
  at,        \* index of the next check or edit
  drift,     \* history: a hand edit since the tool last had files and journal in step
  raced,     \* history: files edited by hand since they were validated
  edits, crashes

disk == <<file, journal, removed>>
cmd == <<seen, goal, own, doing, at>>
vars == <<disk, holder, pc, cmd, drift, raced, edits, crashes>>

-------------------------------------------------------------------------------
(* Transactions: FileEdit and MetadataTransaction *)

Edit(path, before, after) == [path |-> path, before |-> before, after |-> after]

(* The lock alone, or a changed manifest with its lock; the manifest is observed. *)
Prepared(m, l, n) ==
  [edits |-> IF n = Absent THEN <<Edit("lock", l, m)>>
             ELSE <<Edit("manifest", m, n), Edit("lock", l, n)>>,
   observed |-> <<[path |-> "manifest", expected |-> m]>>]

Transactions ==
  {Prepared(m, l, n) : m \in Versions, l \in Contents, n \in Contents}

ASSUME NoTxAssumption == NoTx \notin Transactions

Edited(x) == {x.edits[i].path : i \in DOMAIN x.edits}

(* Checks 1, 2, ... of a transaction: the observed files, then the destinations. *)
NumChecks(x) == Len(x.observed) + Len(x.edits)
IsObserved(x, i) == i <= Len(x.observed)
Dest(x, i) == x.edits[i - Len(x.observed)]
CheckedPath(x, i) == IF IsObserved(x, i) THEN x.observed[i].path ELSE Dest(x, i).path

(* commit: every observed file and every destination is exactly as prepared. *)
PreObservedOnly(x, i) ==                     \* slip: destinations are not compared
  IF IsObserved(x, i) THEN {x.observed[i].expected} ELSE Contents
Precondition(x, i) ==
  IF IsObserved(x, i) THEN {x.observed[i].expected} ELSE {Dest(x, i).before}

(* finish: an observed file that is also edited is skipped; a destination may be done. *)
ResumeAnything(x, i) ==                      \* slip: destinations are not validated
  IF IsObserved(x, i) /\ x.observed[i].path \notin Edited(x)
  THEN {x.observed[i].expected} ELSE Contents
Resumable(x, i) ==
  IF IsObserved(x, i)
  THEN IF x.observed[i].path \in Edited(x) THEN Contents ELSE {x.observed[i].expected}
  ELSE {Dest(x, i).before, Dest(x, i).after}

AsPrepared(x) == \A i \in 1..NumChecks(x) : file[CheckedPath(x, i)] \in Precondition(x, i)
CanResume(x) == \A i \in 1..NumChecks(x) : file[CheckedPath(x, i)] \in Resumable(x, i)

-------------------------------------------------------------------------------
PCs == {"idle", "opened", "clear", "wait", "recover", "pre", "journal",
        "validate", "write", "remove"}

Init ==
  /\ \E v \in Versions, l \in Contents : file = [f \in Files |-> IF f = "manifest" THEN v ELSE l]
  /\ journal = NoTx /\ removed = NoTx /\ holder = NoProc
  /\ pc = [p \in Procs |-> "idle"]
  /\ seen = [p \in Procs |-> Absent] /\ goal = [p \in Procs |-> Absent]
  /\ own = [p \in Procs |-> NoTx] /\ doing = [p \in Procs |-> NoTx]
  /\ at = [p \in Procs |-> 1]
  /\ drift = (file["lock"] # file["manifest"])
  /\ raced = {} /\ edits = 0 /\ crashes = 0

(* The operation of p is over: its lock is dropped with it. *)
Forget(p) ==
  /\ pc' = [pc EXCEPT ![p] = "idle"]
  /\ seen' = [seen EXCEPT ![p] = Absent] /\ goal' = [goal EXCEPT ![p] = Absent]
  /\ own' = [own EXCEPT ![p] = NoTx] /\ doing' = [doing EXCEPT ![p] = NoTx]
  /\ at' = [at EXCEPT ![p] = 1]
  /\ holder' = IF holder = p THEN NoProc ELSE holder

(* Go to a place of the program, at index 1 of its loop. *)
Goto(p, place) ==
  /\ pc' = [pc EXCEPT ![p] = place]
  /\ at' = [at EXCEPT ![p] = 1]

-------------------------------------------------------------------------------
(* The command: read the manifest, look for a journal, read the lock, resolve. *)

Start(p) ==
  /\ pc[p] = "idle"
  /\ \E n \in Contents \ {file["manifest"]} : goal' = [goal EXCEPT ![p] = n]
  /\ seen' = [seen EXCEPT ![p] = file["manifest"]]
  /\ pc' = [pc EXCEPT ![p] = "opened"]
  /\ UNCHANGED <<disk, holder, own, doing, at, drift, raced, edits, crashes>>

(* State::open: an interrupted update is recovered first, and the command gives up. *)
CheckJournal(p) ==
  /\ pc[p] = "opened"
  /\ pc' = [pc EXCEPT ![p] = IF journal = NoTx THEN "clear" ELSE "wait"]
  /\ UNCHANGED <<disk, holder, cmd, drift, raced, edits, crashes>>

(* A lock that is current needs no write; otherwise a transaction is prepared. *)
ReadLock(p) ==
  /\ pc[p] = "clear"
  /\ LET l == file["lock"] IN
     IF goal[p] = Absent /\ l = seen[p]
     THEN Forget(p)
     ELSE /\ own' = [own EXCEPT ![p] = Prepared(seen[p], l, goal[p])]
          /\ pc' = [pc EXCEPT ![p] = "wait"]
          /\ UNCHANGED <<holder, seen, goal, doing, at>>
  /\ UNCHANGED <<disk, drift, raced, edits, crashes>>

-------------------------------------------------------------------------------
(* commit and recover *)

LockFile(p) ==
  /\ pc[p] = "wait" /\ holder = NoProc
  /\ holder' = p
  /\ pc' = [pc EXCEPT ![p] = "recover"]
  /\ UNCHANGED <<disk, cmd, drift, raced, edits, crashes>>

PendingIgnored == NoTx                       \* slip: a pending journal is not resumed
Pending == journal

(* recover_locked: resume a journal; without one, go on to the commit, if any. *)
RecoverLocked(p) ==
  /\ pc[p] = "recover"
  /\ IF Pending # NoTx
     THEN /\ doing' = [doing EXCEPT ![p] = Pending]
          /\ Goto(p, "validate") /\ UNCHANGED <<holder, seen, goal, own>>
     ELSE IF own[p] # NoTx
          THEN Goto(p, "pre") /\ UNCHANGED <<holder, seen, goal, own, doing>>
          ELSE Forget(p)
  /\ UNCHANGED <<disk, drift, raced, edits, crashes>>

(* One check of commit's preconditions or of finish's validation. *)
Check(p) ==
  /\ pc[p] \in {"pre", "validate"}
  /\ LET x == IF pc[p] = "pre" THEN own[p] ELSE doing[p]
         path == CheckedPath(x, at[p])
         allowed == IF pc[p] = "pre" THEN Precondition(x, at[p]) ELSE Resumable(x, at[p])
     IN
     IF file[path] \in allowed
     THEN /\ IF at[p] < NumChecks(x)
             THEN at' = [at EXCEPT ![p] = @ + 1] /\ UNCHANGED pc
             ELSE Goto(p, IF pc[p] = "pre" THEN "journal" ELSE "write")
          /\ raced' = IF pc[p] = "validate" THEN raced \ {path} ELSE raced
          /\ UNCHANGED <<holder, seen, goal, own, doing>>
     ELSE Forget(p) /\ UNCHANGED raced
  /\ UNCHANGED <<disk, drift, edits, crashes>>

(* The journal is written and its directory synchronised; then finish begins. *)
WriteJournal(p) ==
  /\ pc[p] = "journal"
  /\ journal' = own[p] /\ removed' = NoTx
  /\ doing' = [doing EXCEPT ![p] = own[p]] /\ own' = [own EXCEPT ![p] = NoTx]
  /\ Goto(p, "validate")
  /\ drift' = ~AsPrepared(own[p])
  /\ UNCHANGED <<file, holder, seen, goal, raced, edits, crashes>>

LastEditOffByOne(p) == at[p] >= Len(doing[p].edits) - 1   \* slip: the last edit is left out
LastEdit(p) == at[p] = Len(doing[p].edits)

(* atomic_write of the next destination, unless it has its content already. *)
WriteFile(p) ==
  /\ pc[p] = "write"
  /\ LET e == doing[p].edits[at[p]] IN file' = [file EXCEPT ![e.path] = e.after]
  /\ IF LastEdit(p) THEN Goto(p, "remove") ELSE at' = [at EXCEPT ![p] = @ + 1] /\ UNCHANGED pc
  /\ UNCHANGED <<journal, removed, holder, seen, goal, own, doing, drift, raced, edits, crashes>>

(* The journal is removed, without synchronising its directory. *)
RemoveJournal(p) ==
  /\ pc[p] = "remove"
  /\ journal' = NoTx /\ removed' = journal
  /\ IF own[p] # NoTx
     THEN Goto(p, "pre") /\ UNCHANGED <<holder, seen, goal, own, doing>>
     ELSE Forget(p)
  /\ UNCHANGED <<file, drift, raced, edits, crashes>>

-------------------------------------------------------------------------------
(* The environment *)

(* The process dies, or an operation of its fails and it gives up. *)
Crash(p) ==
  /\ pc[p] # "idle" /\ crashes < MaxCrashes
  /\ crashes' = crashes + 1
  /\ Forget(p)
  /\ UNCHANGED <<disk, drift, raced, edits>>

(* Every process dies; a removal that was not synchronised may be undone. *)
PowerLoss ==
  /\ crashes < MaxCrashes
  /\ crashes' = crashes + 1
  /\ journal' \in IF removed = NoTx THEN {journal} ELSE {NoTx, removed}
  /\ removed' = NoTx
  /\ holder' = NoProc
  /\ pc' = [p \in Procs |-> "idle"]
  /\ seen' = [p \in Procs |-> Absent] /\ goal' = [p \in Procs |-> Absent]
  /\ own' = [p \in Procs |-> NoTx] /\ doing' = [p \in Procs |-> NoTx]
  /\ at' = [p \in Procs |-> 1]
  /\ UNCHANGED <<file, drift, raced, edits>>

(* The user edits the manifest, or edits or deletes the lock file. *)
HandEdit(f) ==
  /\ edits < MaxEdits
  /\ edits' = edits + 1
  /\ \E c \in (IF f = "manifest" THEN Versions ELSE Contents) \ {file[f]} :
       file' = [file EXCEPT ![f] = c]
  /\ drift' = TRUE
  /\ raced' = raced \cup {f}
  /\ UNCHANGED <<journal, removed, holder, pc, cmd, crashes>>

Step(p) ==
  \/ Start(p) \/ CheckJournal(p) \/ ReadLock(p) \/ LockFile(p) \/ RecoverLocked(p)
  \/ Check(p) \/ WriteJournal(p) \/ WriteFile(p) \/ RemoveJournal(p)

Next ==
  \/ \E p \in Procs : Step(p) \/ Crash(p)
  \/ PowerLoss
  \/ \E f \in Files : HandEdit(f)

Spec == Init /\ [][Next]_vars

(* Commands go on being run, and the operating system runs their processes. *)
FairSpec == Spec /\ \A p \in Procs : WF_vars(Step(p))

-------------------------------------------------------------------------------
(* Properties *)

(* The types of the disk, of the processes and of the history. *)
TypeOK ==
  /\ file \in [Files -> Contents] /\ file["manifest"] \in Versions
  /\ journal \in Transactions \cup {NoTx} /\ removed \in Transactions \cup {NoTx}
  /\ holder \in Procs \cup {NoProc}
  /\ pc \in [Procs -> PCs]
  /\ seen \in [Procs -> Contents] /\ goal \in [Procs -> Contents]
  /\ own \in [Procs -> Transactions \cup {NoTx}] /\ doing \in [Procs -> Transactions \cup {NoTx}]
  /\ at \in [Procs -> 1..3]
  /\ drift \in BOOLEAN /\ raced \subseteq Files
  /\ edits \in 0..MaxEdits /\ crashes \in 0..MaxCrashes

(* The manifest and the lock file are published together: whatever processes    *)
(* died and wherever, when no journal is pending the lock is the one resolved   *)
(* from the manifest, unless the user has edited a file since.                  *)
PublishedTogether == journal = NoTx /\ ~drift => file["lock"] = file["manifest"]

(* An interrupted update nobody interfered with can be resumed: the validation  *)
(* of `finish` accepts every file, however far the update had come.             *)
InterruptionRecoverable == journal # NoTx /\ ~drift => CanResume(journal)

(* Compare and replace: the tool replaces a file only if it holds the content   *)
(* the transaction was prepared against, no other process's and no user's, save *)
(* for an edit made after the file was validated.                               *)
ToolWrites(f) == file'[f] # file[f] /\ edits' = edits
Expected(f) == \E i \in DOMAIN journal.edits :
                 journal.edits[i].path = f /\ journal.edits[i].before = file[f]
NoForeignOverwrite ==
  [][\A f \in Files : ToolWrites(f) => journal # NoTx /\ (Expected(f) \/ f \in raced)]_vars

(* An interrupted update is completed by whichever command runs next, unless the *)
(* user has edited a file.                                                       *)
Recovers == journal # NoTx ~> journal = NoTx \/ drift

===============================================================================
