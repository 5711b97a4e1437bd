------------------------- MODULE TemplateReconcile -------------------------
(***************************************************************************)
(* One template update of a workspace or a service against the files,       *)
(* angee.yaml and the render state on disk: copierx.PrepareReconcile,       *)
(* ApplyFiles, SaveState and their rollback, GuardedPath's replace by two   *)
(* renames, and parentStackTransaction, in the order WorkspaceUpdate and    *)
(* serviceUpdateFromTemplateLocked call them.  Editors and another process  *)
(* write meanwhile, every step may fail, and the process may be killed.     *)
(*                                                                         *)
(* An entry is what it holds and its inode: a guard recognises an entry by  *)
(* its inode, so a write in place goes unnoticed between the check of a     *)
(* path and the end of the update.  Writers in place are therefore assumed  *)
(* to keep off a path meanwhile; those that replace the file are not.       *)
(***************************************************************************)
EXTENDS ReconcilePath, Naturals, Sequences, SequencesExt

CONSTANTS Paths,      \* files the templates render, or did
          Answers,    \* the answers files: installed without a look at what is there
          MaxEdits, MaxRuns

Manifest == "angee.yaml"
State == "state"
Files == Paths \cup Answers
Guarded == Files \cup {Manifest}
Edited == Paths \cup {Manifest}

ASSUME ReconcileAssumption == /\ IsFiniteSet(Files) /\ Paths \cap Answers = {}
                              /\ {Manifest, State} \cap Files = {}
                              /\ MaxEdits \in 0..2 /\ MaxRuns \in Nat \ {0}
                              /\ {"v1", "v2", "e1", "e2"} \subseteq Content
                              /\ Absent \notin {"old", "new"}

VARIABLES
  rendered,   \* what the last update rendered and what this one renders
  overwrite,  \* --overwrite, or a create
  disk,       \* per guarded path, its entry; angee.yaml's content is a set of updates
  saved,      \* the render state on disk: "old", "new", or between two renames Absent
  phase, step,
  todo,       \* paths still to install, then angee.yaml, then the render state
  expected,   \* what Prepare saw
  guard,      \* the inode each guarded path must have
  aside,      \* the entry of Head(todo) between the two renames
  before,     \* the journal's backups
  undo,       \* paths to put back, latest first
  broken,     \* an undo failed
  edit,       \* per path, the last edit the update has to keep; of angee.yaml the rival's
  edits, runs

txVars == <<phase, step, todo, expected, guard, aside, before, undo, broken>>
options == <<rendered, overwrite>>
vars == <<options, disk, saved, txVars, edit, edits, runs>>

Nothing == [is |-> Absent, ino |-> "none"]
Entry(content, inode) == [is |-> content, ino |-> inode]
EditName == <<"e1", "e2">>

Init ==
  /\ rendered \in [old : [Paths -> {"v1", Absent}], new : [Paths -> {"v1", "v2", Absent}]]
  /\ overwrite \in BOOLEAN
  /\ disk = [x \in Guarded |->
       IF x = Manifest THEN Entry({}, "first")
       ELSE IF x \in Answers THEN Entry("v1", "first")
       ELSE IF rendered.old[x] = Absent THEN Nothing ELSE Entry(rendered.old[x], "first")]
  /\ saved = "old" /\ phase = "idle" /\ step = "check" /\ todo = <<>> /\ undo = <<>>
  /\ expected = [x \in Edited \cup {State} |-> Absent] /\ guard = [x \in Guarded |-> "none"]
  /\ aside = Nothing /\ before = [x \in Files |-> Nothing] /\ broken = FALSE
  /\ edit = [x \in Edited |-> Absent] /\ edits = 0 /\ runs = 1

-----------------------------------------------------------------------------
(* Others.                                                                     *)

Ended == phase \in {"idle", "done", "failed", "refused", "killed"}
BetweenRenames(x) == phase = "apply" /\ step = "install" /\ Head(todo) = x
Journaled(x) == ~Ended /\ x \in ToSet(undo)

(* An edit that writes a new file over the path, or creates it. *)
Replace(p) ==
  /\ edits < MaxEdits /\ ~BetweenRenames(p)
  /\ disk' = [disk EXCEPT ![p] = Entry(EditName[edits + 1], EditName[edits + 1])]
  /\ edits' = edits + 1 /\ edit' = [edit EXCEPT ![p] = EditName[edits + 1]]
  /\ UNCHANGED <<options, saved, txVars, runs>>

WriteInPlace(p) ==
  /\ edits < MaxEdits /\ disk[p] # Nothing /\ ~Journaled(p) /\ ~BetweenRenames(p)
  /\ disk' = [disk EXCEPT ![p].is = EditName[edits + 1]]
  /\ edits' = edits + 1 /\ edit' = [edit EXCEPT ![p] = EditName[edits + 1]]
  /\ UNCHANGED <<options, saved, txVars, runs>>

(* Another process saves angee.yaml through a transaction of its own. *)
RivalSaves ==
  /\ edits < MaxEdits /\ disk[Manifest] # Nothing /\ ~BetweenRenames(Manifest)
  /\ "rival" \notin disk[Manifest].is /\ edits' = edits + 1
  /\ disk' = [disk EXCEPT ![Manifest] = Entry(@.is \cup {"rival"}, "rival")]
  /\ edit' = [edit EXCEPT ![Manifest] = "rival"]
  /\ UNCHANGED <<options, saved, txVars, runs>>

-----------------------------------------------------------------------------
(* PrepareReconcile.                                                           *)

Old(p) == IF saved = "old" THEN rendered.old[p]
          ELSE IF saved = "new" THEN rendered.new[p] ELSE Absent
Decided(p) == Decision(Old(p), disk[p].is, rendered.new[p], overwrite)
Conflicts == {p \in Paths : Decided(p) = "conflict"}
Deletes == {p \in Paths : Decided(p) = "delete"}
Installs == {p \in Paths : Decided(p) \in {"add", "modify"}}

Refuse ==
  /\ phase = "idle" /\ (disk[Manifest] = Nothing \/ Conflicts # {})
  /\ phase' = "refused"
  /\ UNCHANGED <<options, disk, saved, step, todo, expected, guard, aside, before, undo, broken,
                 edit, edits, runs>>

Ready(order) ==
  /\ phase = "idle" /\ disk[Manifest] # Nothing /\ Conflicts = {}
  /\ todo' = order /\ phase' = "apply" /\ step' = "check"
  /\ expected' = [x \in Edited \cup {State} |-> IF x = State THEN saved ELSE disk[x].is]
  /\ guard' = [guard EXCEPT ![Manifest] = disk[Manifest].ino]
  /\ edit' = IF overwrite THEN [x \in Edited |-> IF x = Manifest THEN edit[x] ELSE Absent] ELSE edit
  /\ UNCHANGED <<options, disk, saved, aside, before, undo, broken, edits, runs>>

\* Mutant: the render state is saved before the files are applied.
PrepareStateFirst ==
  \E first \in SetToSeqs(Deletes), then \in SetToSeqs(Installs \cup Answers) :
    Ready(<<State>> \o first \o then \o <<Manifest>>)

(* Deletes go first, the rest follows by name; then angee.yaml, then the state. *)
Prepare ==
  \E first \in SetToSeqs(Deletes), then \in SetToSeqs(Installs \cup Answers) :
    Ready(first \o then \o <<Manifest, State>>)

-----------------------------------------------------------------------------
(* ApplyFiles, Save and SaveState.                                             *)

Fail ==
  /\ phase = "apply" /\ phase' = "rollback" /\ step' = "undo" /\ todo' = <<>>
  /\ LET x == Head(todo) IN
       IF step = "install"
       THEN /\ disk' = IF x \in Guarded THEN [disk EXCEPT ![x] = aside] ELSE disk
            /\ saved' = IF x = State THEN aside.is ELSE saved
       ELSE UNCHANGED <<disk, saved>>
  /\ aside' = Nothing
  /\ UNCHANGED <<options, expected, guard, before, undo, broken, edit, edits, runs>>

Advance == todo' = Tail(todo) /\ step' = "check" /\ phase' = IF Len(todo) = 1 THEN "done" ELSE "apply"

\* Mutant: what Prepare saw is not compared with what is there.
CheckFileUnread(x) ==
  /\ phase = "apply" /\ step = "check" /\ Head(todo) = x
  /\ guard' = [guard EXCEPT ![x] = disk[x].ino]
  /\ before' = [before EXCEPT ![x] = disk[x]] /\ undo' = <<x>> \o undo
  /\ step' = "aside"
  /\ UNCHANGED <<options, disk, saved, phase, todo, expected, aside, broken, edit, edits, runs>>

\* Mutant: a path is journaled only when something is there.
CheckFileExisting(x) ==
  /\ phase = "apply" /\ step = "check" /\ Head(todo) = x
  /\ x \in Paths => disk[x].is = expected[x]
  /\ guard' = [guard EXCEPT ![x] = disk[x].ino]
  /\ before' = [before EXCEPT ![x] = disk[x]]
  /\ undo' = IF disk[x] = Nothing THEN undo ELSE <<x>> \o undo
  /\ step' = "aside"
  /\ UNCHANGED <<options, disk, saved, phase, todo, expected, aside, broken, edit, edits, runs>>

(* The path is opened, compared with what Prepare saw, backed up, journaled. *)
CheckFile(x) ==
  /\ phase = "apply" /\ step = "check" /\ Head(todo) = x
  /\ x \in Paths => disk[x].is = expected[x]
  /\ guard' = [guard EXCEPT ![x] = disk[x].ino]
  /\ before' = [before EXCEPT ![x] = disk[x]] /\ undo' = <<x>> \o undo
  /\ step' = "aside"
  /\ UNCHANGED <<options, disk, saved, phase, todo, expected, aside, broken, edit, edits, runs>>

CheckManifest ==
  /\ phase = "apply" /\ step = "check" /\ Head(todo) = Manifest
  /\ disk[Manifest] = Entry(expected[Manifest], guard[Manifest])
  /\ step' = "aside"
  /\ UNCHANGED <<options, disk, saved, phase, todo, expected, guard, aside, before, undo, broken,
                 edit, edits, runs>>

(* moveExpectedAside: the entry must still be the guarded one. *)
SetAside(x) ==
  /\ phase = "apply" /\ step = "aside" /\ Head(todo) = x
  /\ disk[x].ino = guard[x]
  /\ disk' = [disk EXCEPT ![x] = Nothing]
  /\ IF x \in Paths /\ rendered.new[x] = Absent
     THEN guard' = [guard EXCEPT ![x] = "none"] /\ Advance /\ UNCHANGED aside
     ELSE step' = "install" /\ aside' = disk[x] /\ UNCHANGED <<guard, todo, phase>>
  /\ UNCHANGED <<options, saved, expected, before, undo, broken, edit, edits, runs>>

Rendering(x) == IF x \in Answers THEN "v2"
                ELSE IF x = Manifest THEN expected[Manifest] \cup {"tx"}
                ELSE rendered.new[x]

(* The new entry takes the name; angee.yaml is then the transaction's to undo. *)
Install(x) ==
  /\ phase = "apply" /\ step = "install" /\ Head(todo) = x
  /\ disk' = [disk EXCEPT ![x] = Entry(Rendering(x), "tx")]
  /\ guard' = [guard EXCEPT ![x] = "tx"] /\ aside' = Nothing
  /\ undo' = IF x = Manifest THEN <<x>> \o undo ELSE undo
  /\ Advance
  /\ UNCHANGED <<options, saved, expected, before, broken, edit, edits, runs>>

SetStateAside ==
  /\ phase = "apply" /\ step = "check" /\ Head(todo) = State
  /\ step' = "install" /\ saved' = Absent /\ aside' = Entry(saved, "state")
  /\ UNCHANGED <<options, disk, phase, todo, expected, guard, before, undo, broken,
                 edit, edits, runs>>

(* The commit point. *)
InstallState ==
  /\ phase = "apply" /\ step = "install" /\ Head(todo) = State
  /\ saved' = "new" /\ aside' = Nothing /\ Advance
  /\ UNCHANGED <<options, disk, expected, guard, before, undo, broken, edit, edits, runs>>

-----------------------------------------------------------------------------
(* The rollbacks: angee.yaml's, then the files' from the last to the first.    *)

Backup(x) == IF x = Manifest THEN Entry(expected[Manifest], "tx")
             ELSE IF before[x] = Nothing THEN Nothing ELSE Entry(before[x].is, "tx")

Undone == undo' = Tail(undo) /\ step' = "undo"

(* What the update installed is removed, unless another entry is there. *)
UndoRemove(x) ==
  /\ phase = "rollback" /\ step = "undo" /\ undo # <<>> /\ Head(undo) = x
  /\ disk[x].ino = guard[x]
  /\ disk' = [disk EXCEPT ![x] = Nothing] /\ guard' = [guard EXCEPT ![x] = "none"]
  /\ step' = "restore"
  /\ UNCHANGED <<options, saved, phase, todo, expected, aside, before, undo, broken, edit, edits, runs>>

(* The backup takes the name, unless an entry has appeared there. *)
UndoRestore(x) ==
  /\ phase = "rollback" /\ step = "restore" /\ Head(undo) = x
  /\ Backup(x) # Nothing => disk[x].ino = guard[x]
  /\ IF Backup(x) = Nothing THEN UNCHANGED <<disk, guard>>
     ELSE disk' = [disk EXCEPT ![x] = Backup(x)] /\ guard' = [guard EXCEPT ![x] = "tx"]
  /\ Undone
  /\ UNCHANGED <<options, saved, phase, todo, expected, aside, before, broken, edit, edits, runs>>

(* An undo that fails is reported and the others still run.  A file's backup  *)
(* is tried after a failed removal; angee.yaml's failed rename is taken back.  *)
UndoFails(x) ==
  /\ phase = "rollback" /\ undo # <<>> /\ Head(undo) = x /\ broken' = TRUE
  /\ IF step = "undo" /\ x \in Files THEN step' = "restore" /\ UNCHANGED undo ELSE Undone
  /\ IF step = "restore" /\ x = Manifest
     THEN /\ disk' = [disk EXCEPT ![x] = Entry(expected[x] \cup {"tx"}, "tx")]
          /\ guard' = [guard EXCEPT ![x] = "tx"]
     ELSE UNCHANGED <<disk, guard>>
  /\ UNCHANGED <<options, saved, phase, todo, expected, aside, before, edit, edits, runs>>

RolledBack ==
  /\ phase = "rollback" /\ undo = <<>> /\ phase' = "failed"
  /\ UNCHANGED <<options, disk, saved, step, todo, expected, guard, aside, before, undo, broken,
                 edit, edits, runs>>

-----------------------------------------------------------------------------
Kill ==
  /\ ~Ended /\ phase' = "killed"
  /\ UNCHANGED <<options, disk, saved, step, todo, expected, guard, aside, before, undo, broken,
                 edit, edits, runs>>

(* The update is asked for again. *)
Rerun ==
  /\ Ended /\ phase # "idle" /\ runs < MaxRuns /\ runs' = runs + 1
  /\ phase' = "idle" /\ step' = "check" /\ todo' = <<>> /\ undo' = <<>>
  /\ aside' = Nothing /\ before' = [x \in Files |-> Nothing] /\ broken' = FALSE
  /\ expected' = [x \in Edited \cup {State} |-> Absent] /\ guard' = [x \in Guarded |-> "none"]
  /\ UNCHANGED <<options, disk, saved, edit, edits>>

Others == RivalSaves \/ \E p \in Paths : Replace(p) \/ WriteInPlace(p)
Applies == \/ \E x \in Files : CheckFile(x)
           \/ \E x \in Guarded : SetAside(x) \/ Install(x)
           \/ CheckManifest \/ SetStateAside \/ InstallState \/ Fail
Undoes == RolledBack \/ \E x \in Guarded : UndoRemove(x) \/ UndoRestore(x) \/ UndoFails(x)

Next == Others \/ Refuse \/ Prepare \/ Applies \/ Undoes \/ Kill \/ Rerun
Spec == Init /\ [][Next]_vars

-----------------------------------------------------------------------------
TypeOK ==
  /\ rendered \in [old : [Paths -> Entries], new : [Paths -> Entries]] /\ overwrite \in BOOLEAN
  /\ \A x \in Files : disk[x].is \in Entries /\ (disk[x].is = Absent <=> disk[x].ino = "none")
  /\ disk[Manifest] = Nothing \/ disk[Manifest].is \subseteq {"tx", "rival"}
  /\ saved \in {"old", "new", Absent} /\ broken \in BOOLEAN
  /\ phase \in {"idle", "refused", "apply", "rollback", "done", "failed", "killed"}
  /\ step \in {"check", "aside", "install", "undo", "restore"}
  /\ ToSet(todo) \subseteq Guarded \cup {State} /\ ToSet(undo) \subseteq Guarded
  /\ \A x \in Edited : edit[x] \in Entries \cup {"rival"}
  /\ edits \in 0..MaxEdits /\ runs \in 1..MaxRuns

(* Nobody else's work is lost: an edit made before an update without           *)
(* --overwrite, or during any update, is at its path whatever the update did,  *)
(* undid or left half done; and angee.yaml, where there is one, holds what     *)
(* the other process saved in it.                                              *)
OthersWorkSurvives ==
  /\ \A p \in Paths : edit[p] # Absent => disk[p].is = edit[p]
  /\ edit[Manifest] # Absent /\ disk[Manifest] # Nothing => "rival" \in disk[Manifest].is

(* An update that failed and rolled back left everything as Prepare saw it,    *)
(* but for what others wrote; one that succeeded left all it manages as rendered, *)
(* angee.yaml updated, and the state that says so.                             *)
AllOrNothing ==
  /\ phase = "failed" /\ ~broken =>
       /\ saved = expected[State]
       /\ \A p \in Paths : disk[p].is \in {expected[p], edit[p]}
       /\ disk[Manifest].is \ {"rival"} = expected[Manifest] \ {"rival"}
  /\ phase = "done" =>
       /\ saved = "new" /\ "tx" \in disk[Manifest].is
       /\ \A p \in Paths : rendered.new[p] # Absent \/ (expected[State] = "old" /\ rendered.old[p] # Absent)
            => disk[p].is \in {rendered.new[p], edit[p]}

(* An update killed at any step, its rollback included, can be asked for again *)
(* without a conflict, but for the one path it was replacing, which it may     *)
(* have left without an entry.                                                 *)
RerunIsClean ==
  phase = "killed" /\ edits = 0 /\ ~broken =>
    \A p \in Conflicts : disk[p] = Nothing /\ step \in {"install", "restore"}

=============================================================================
