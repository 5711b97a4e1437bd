---------------------------- MODULE SlotMigrate ----------------------------
(***************************************************************************)
(* Migrating a workspace slot between a git worktree and a jj slot          *)
(* (service/migrate.go), its record under run/migrate (migrate_marker.go)    *)
(* and the renames it is built from (copierx/aside.go, reconcile.go).        *)
(*                                                                         *)
(* One migrate of one slot runs with its failures, its rollback, writers     *)
(* that use the slot meanwhile, a kill between any two steps, and a person   *)
(* who then follows the steps of the record by hand, in order.               *)
(***************************************************************************)
EXTENDS Naturals, Sequences, FiniteSets, SequencesExt

CONSTANTS Entries,     \* untracked or ignored entries a checkout may hold
          Tracked,     \* stands for a change to a tracked file, or a commit
          MaxWrites,   \* bound on what writers add to the slot meanwhile
          Windows      \* TRUE: writers also hit between a check and its use

NoEntry == "no entry"

ASSUME EntriesAssumption == /\ IsFiniteSet(Entries)
                            /\ Tracked \notin Entries /\ NoEntry \notin Entries
                            /\ MaxWrites \in Nat
                            /\ Windows \in BOOLEAN

VARIABLES
  pc,         \* where the migrate is
  to,         \* the mode migrated to; the slot was in the other one
  at,         \* what is at the slot's path and at the two private names
  files,      \* copies <<item, n>> each checkout or directory holds
  reg,        \* git's registrations of the two checkouts
  jjName,     \* the cache has the slot's jj workspace
  bookmark,   \* "before", "set" by the migrate, or "resolved" by it from a
              \* conflict, or "moved" by others since
  manifest,   \* the mode angee.yaml records, or Gone
  marker,     \* the migrate's record on disk, or NoRecord
  pending,    \* the record being written, and where the migrate goes on
  undo,       \* m.undo
  listed,     \* the entries to carry across
  moved,      \* those renamed into the new checkout
  added,      \* the tool made the new checkout
  looked,     \* the entry moveWithin has looked up and renames next
  forgotten,  \* m.forgotten
  written,    \* every copy of an item there ever was
  hand        \* the person following the record

disk == <<at, files, reg, jjName, bookmark, manifest>>
memory == <<undo, listed, added, moved, looked, forgotten>>
vars == <<pc, to, disk, marker, pending, memory, written, hand>>

Modes == {"jj", "worktree"}
Other(mode) == CHOOSE other \in Modes : other # mode
from == Other(to)

Gone == "gone"
NoRecord == [phase |-> "none", steps |-> <<>>, cleanup |-> <<>>]

Items == Entries \cup {Tracked}
Has(checkout, item) == \E n \in 0..MaxWrites : <<item, n>> \in files[checkout]
HasListed(checkout) == \E entry \in listed : Has(checkout, entry)
Held == UNION {files[c] : c \in DOMAIN files}

(* The steps of a record and of a rollback, one per migrationUndo.what. *)
LookBeside == <<"move back what is beside the slot">>
MoveBack == <<"move the old checkout back">>
RestoreMark == <<"set the bookmark back">>
RemoveNew == <<"remove the new checkout">>
LookAt == <<"look at what was left at the path">>
CarryBack(entry) == <<"carry back", entry>>
MoveNewBack == <<"move the new checkout back">>
Forget == <<"forget the jj workspace">>
ForgetIfListed == <<"forget the jj workspace if jj lists it">>
RemoveAside == <<"remove the old checkout">>

undoSteps(undos) == Reverse(undos)

\* Mutant: the jj workspace is no part of the clean-up.
cleanupStepsOfAside == <<RemoveAside>>

cleanupSteps == IF to = "worktree" THEN <<Forget, RemoveAside>> ELSE <<RemoveAside>>

Init ==
  /\ pc = "prepare" /\ to \in Modes
  /\ at = [slot |-> "old", aside |-> "none", stash |-> "none"]
  /\ \E held \in SUBSET Entries :
       files = [old |-> {<<e, 0>> : e \in held}, new |-> {}, kept |-> {}, stray |-> {}, taken |-> {}]
  /\ reg = [old |-> "slot", new |-> FALSE]
  /\ jjName = (to = "worktree")
  /\ bookmark = "before" /\ manifest = from
  /\ marker = NoRecord /\ pending = [record |-> NoRecord, next |-> "none"]
  /\ undo = <<>> /\ listed = {} /\ added = FALSE /\ moved = {} /\ looked = NoEntry /\ forgotten = FALSE
  /\ written = files.old
  /\ hand = [state |-> "away", left |-> <<>>, misled |-> FALSE]

-----------------------------------------------------------------------------
(* The record: GuardedPath.WriteFile renames the file there aside, then      *)
(* renames the new one in, so between the two the name has no file.          *)

Record(phase, steps, cleanup, next) ==
  /\ pending' = [record |-> [phase |-> phase, steps |-> steps, cleanup |-> cleanup], next |-> next]
  /\ marker' = NoRecord
  /\ pc' = "recording"

InstallRecord ==
  /\ pc = "recording"
  /\ marker' = pending.record /\ pc' = pending.next
  /\ pending' = [record |-> NoRecord, next |-> "none"]
  /\ UNCHANGED <<to, disk, memory, written, hand>>

(* push and pushAll: remember the undos, then rewrite the record with them.   *)
(* A record that cannot be written fails the migrate, which rolls back.       *)
Push(undos, next) ==
  /\ undo' = undo \o undos
  /\ \/ Record("migrating", undoSteps(undo'), <<>>, next)
     \/ pc' = "undo" /\ UNCHANGED <<marker, pending>>

(* recordCleanup: a record that cannot be written is a warning. *)
Cleanup(phase, steps, next) ==
  \/ Record(phase, steps, <<>>, next)
  \/ pc' = next /\ UNCHANGED <<marker, pending>>

(* Any of the reads and checks between two changes fails: roll back. *)
CheckFails ==
  /\ pc \in {"setting aside", "repoint", "check", "add", "added", "carry", "recordSaving", "save"}
  /\ pc' = "undo" /\ looked' = NoEntry
  /\ UNCHANGED <<to, disk, marker, pending, undo, listed, added, moved, forgotten, written, hand>>

-----------------------------------------------------------------------------
(* WorkspaceSourceMigrate, migrateToJJ and migrateToWorktree up to setAside.  *)

Refuse ==
  /\ pc = "prepare" /\ pc' = "refused"
  /\ UNCHANGED <<to, disk, marker, pending, memory, written, hand>>

\* Mutant: the bookmark set is not remembered.
PrepareForgetting ==
  /\ pc = "prepare" /\ pc' = "begin"
  /\ bookmark' \in IF to = "worktree" THEN {"before", "set", "resolved"} ELSE {"before"}
  /\ UNCHANGED <<to, at, files, reg, jjName, manifest, marker, pending, memory, written, hand>>

(* PrepareWorktree may create or move the slot's bookmark, or resolve a       *)
(* conflicted one; its undo is pushed before there is a record (m.marked), so *)
(* only remembered.                                                           *)
Prepare ==
  /\ pc = "prepare" /\ pc' = "begin"
  /\ \/ UNCHANGED <<bookmark, undo>>
     \/ /\ to = "worktree"
        /\ bookmark' \in {"set", "resolved"} /\ undo' = <<RestoreMark>>
  /\ UNCHANGED <<to, at, files, reg, jjName, manifest, marker, pending, listed, added, moved, looked,
                 forgotten, written, hand>>

BeginMarker ==
  /\ pc = "begin"
  /\ \/ Record("setting-aside", <<LookBeside>>, <<>>, "setting aside")
     \/ pc' = "undo" /\ UNCHANGED <<marker, pending>>
  /\ UNCHANGED <<to, disk, memory, written, hand>>

SetAside ==
  /\ pc = "setting aside" /\ at.slot = "old"
  /\ at' = [at EXCEPT !.slot = "none", !.aside = "old"]
  /\ pc' = "push aside"
  /\ UNCHANGED <<to, files, reg, jjName, bookmark, manifest, marker, pending, memory, written, hand>>

PushAside ==
  /\ pc = "push aside"
  /\ Push(<<MoveBack>>, "repoint")
  /\ UNCHANGED <<to, disk, listed, added, moved, looked, forgotten, written, hand>>

(* repointRegistration may fail after it pointed the registration. *)
Repoint ==
  /\ pc = "repoint"
  /\ reg' = [reg EXCEPT !.old = "aside"]
  /\ pc' \in {"check", "undo"}
  /\ UNCHANGED <<to, at, files, jjName, bookmark, manifest, marker, pending, memory, written, hand>>

-----------------------------------------------------------------------------
(* toJJ and toWorktree.                                                       *)

(* The checkout set aside is checked again there, and its entries listed. *)
Check ==
  /\ pc = "check" /\ ~Has("old", Tracked)
  /\ listed' = {e \in Entries : Has("old", e)}
  /\ Push(<<RemoveNew>>, "add")
  /\ UNCHANGED <<to, disk, added, moved, looked, forgotten, written, hand>>

(* The tool makes the directory, the registration and the jj workspace one   *)
(* after the other; it refuses a path something else was made at.             *)
AddBegins ==
  /\ pc = "add" /\ at.slot = "none"
  /\ at' = [at EXCEPT !.slot = "new"]
  /\ \E made \in BOOLEAN : reg' = [reg EXCEPT !.new = made]
  /\ pc' = "adding"
  /\ UNCHANGED <<to, files, jjName, bookmark, manifest, marker, pending, memory, written, hand>>

AddEnds ==
  /\ pc = "adding"
  /\ reg' = [reg EXCEPT !.new = TRUE] /\ jjName' = TRUE /\ added' = TRUE
  /\ pc' = "added"
  /\ UNCHANGED <<to, at, files, bookmark, manifest, marker, pending, undo, listed, moved, looked,
                 forgotten, written, hand>>

(* It removes what it made when it fails, unless it cannot. What a writer     *)
(* put into the directory made for the new checkout goes with it.             *)
AddFails ==
  /\ pc = "adding"
  /\ \/ /\ at' = [at EXCEPT !.slot = "none"] /\ files' = [files EXCEPT !.new = {}]
        /\ reg' = [reg EXCEPT !.new = FALSE]
     \/ UNCHANGED <<at, files, reg>>
  /\ pc' = "undo"
  /\ UNCHANGED <<to, jjName, bookmark, manifest, marker, pending, memory, written, hand>>

(* carry: every undo is recorded before the first rename. *)
PushCarry ==
  /\ pc = "added"
  /\ IF listed = {}
     THEN pc' = "recordSaving" /\ UNCHANGED <<undo, marker, pending>>
     ELSE Push(SetToSeq({CarryBack(e) : e \in listed}), "carry")
  /\ UNCHANGED <<to, disk, listed, added, moved, looked, forgotten, written, hand>>

(* moveWithin looks both places up, then renames. A rename over a file a      *)
(* writer made in between replaces it; over a directory it fails.             *)
Look(entry, source, target) ==
  /\ Has(source, entry) /\ ~Has(target, entry)
  /\ looked' = entry

Rename(entry, source, target) ==
  files' = [files EXCEPT ![source] = {c \in @ : c[1] # entry},
                         ![target] = {c \in @ : c[1] # entry}
                                       \cup {c \in files[source] : c[1] = entry}]

CarryLooks ==
  /\ pc = "carry" /\ looked = NoEntry
  /\ \E e \in listed \ moved : Look(e, "old", "new")
  /\ UNCHANGED <<pc, to, disk, marker, pending, undo, listed, added, moved, forgotten, written, hand>>

CarryRenames ==
  /\ pc = "carry" /\ looked # NoEntry
  /\ Rename(looked, "old", "new")
  /\ moved' = moved \cup {looked} /\ looked' = NoEntry
  /\ pc' = IF moved' = listed THEN "recordSaving" ELSE "carry"
  /\ UNCHANGED <<to, at, reg, jjName, bookmark, manifest, marker, pending, undo, listed,
                 added, forgotten, written, hand>>

(* save: the record first, with the steps for either outcome; then the        *)
(* manifest, in the same two renames.                                         *)
RecordSaving ==
  /\ pc = "recordSaving"
  /\ Record("saving", undoSteps(undo), cleanupSteps, "save")
  /\ UNCHANGED <<to, disk, memory, written, hand>>

SaveDetaches ==
  /\ pc = "save" /\ manifest' = Gone /\ pc' = "saving"
  /\ UNCHANGED <<to, at, files, reg, jjName, bookmark, marker, pending, memory, written, hand>>

SaveInstalls ==
  /\ pc = "saving"
  /\ \/ manifest' = to /\ pc' = "saved"
     \/ manifest' = from /\ pc' = "undo"
  /\ UNCHANGED <<to, at, files, reg, jjName, bookmark, marker, pending, memory, written, hand>>

Saved ==
  /\ pc = "saved"
  /\ Cleanup("saved", cleanupSteps, "finish")
  /\ UNCHANGED <<to, disk, memory, written, hand>>

-----------------------------------------------------------------------------
(* finishToJJ and finishToWorktree: the clean-up, whose failures are          *)
(* warnings.                                                                  *)

\* Mutant: the aside is removed as it is.
FinishUnread ==
  /\ pc = "finish"
  /\ pc' = IF to = "worktree" THEN "forget" ELSE "remove aside"
  /\ UNCHANGED <<to, disk, marker, pending, memory, written, hand>>

(* The aside is read again: one that holds anything more is kept, as is one   *)
(* that cannot be read.                                                       *)
Finish ==
  /\ pc = "finish"
  /\ \/ pc' = "end"
     \/ /\ files.old = {}
        /\ pc' = IF to = "worktree" THEN "forget" ELSE "remove aside"
  /\ UNCHANGED <<to, disk, marker, pending, memory, written, hand>>

(* forgetBeside sets the new worktree aside for the forget; a failure to      *)
(* leaves the jj workspace.                                                   *)
SetNewAside ==
  /\ pc = "forget"
  /\ \/ /\ at.slot = "new"
        /\ at' = [at EXCEPT !.slot = "none", !.stash = "new"] /\ pc' = "record forgetting"
     \/ pc' = "remove aside" /\ UNCHANGED at
  /\ UNCHANGED <<to, files, reg, jjName, bookmark, manifest, marker, pending, memory, written, hand>>

RecordForgetting ==
  /\ pc = "record forgetting"
  /\ Cleanup("forgetting", <<MoveNewBack, ForgetIfListed, RemoveAside>>, "forget name")
  /\ UNCHANGED <<to, disk, memory, written, hand>>

ForgetName ==
  /\ pc = "forget name" /\ pc' = "restore new"
  /\ \/ at.slot = "none" /\ jjName' = FALSE /\ forgotten' = TRUE
     \/ UNCHANGED <<jjName, forgotten>>
  /\ UNCHANGED <<to, at, files, reg, bookmark, manifest, marker, pending, undo, listed, added, moved, looked,
                 written, hand>>

RestoreNew ==
  /\ pc = "restore new"
  /\ \/ /\ at.slot = "none"
        /\ at' = [at EXCEPT !.slot = "new", !.stash = "none"] /\ pc' = "record restored"
     \/ pc' = "remove aside" /\ UNCHANGED at          \* m.stranded
  /\ UNCHANGED <<to, files, reg, jjName, bookmark, manifest, marker, pending, memory, written, hand>>

stranded == at.stash = "new"
forgetLeft(step) == IF forgotten THEN <<>> ELSE <<step>>

RecordRestored ==
  /\ pc = "record restored"
  /\ Cleanup("saved", forgetLeft(Forget) \o <<RemoveAside>>, "remove aside")
  /\ UNCHANGED <<to, disk, memory, written, hand>>

(* removeAside: the checkout first, then its registration; either may fail. *)
RemoveOld ==
  /\ pc = "remove aside"
  /\ \/ /\ at' = [at EXCEPT !.aside = "none"] /\ files' = [files EXCEPT !.old = {}]
        /\ pc' = "deregister"
     \/ pc' = "stranded?" /\ UNCHANGED <<at, files>>
  /\ UNCHANGED <<to, reg, jjName, bookmark, manifest, marker, pending, memory, written, hand>>

Deregister ==
  /\ pc = "deregister" /\ pc' = "stranded?"
  /\ reg' \in {reg, [reg EXCEPT !.old = "none"]}
  /\ UNCHANGED <<to, at, files, jjName, bookmark, manifest, marker, pending, memory, written, hand>>

RecordStranded ==
  /\ pc = "stranded?"
  /\ IF stranded
     THEN Cleanup("forgetting",
                  <<MoveNewBack>> \o forgetLeft(Forget)
                    \o (IF at.aside = "old" THEN <<RemoveAside>> ELSE <<>>), "end")
     ELSE pc' = "end" /\ UNCHANGED <<marker, pending>>
  /\ UNCHANGED <<to, disk, memory, written, hand>>

(* A stranded migrate keeps its record; else it is removed, or a warning      *)
(* says it was left.                                                          *)
End ==
  /\ pc = "end" /\ pc' = "migrated"
  /\ \/ ~stranded /\ marker' = NoRecord
     \/ UNCHANGED marker
  /\ UNCHANGED <<to, disk, pending, memory, written, hand>>

-----------------------------------------------------------------------------
(* rollback: the undos in reverse. It does not rewrite the record between     *)
(* two of them, and stops at the first that fails.                            *)

Undoing(step) == pc = "undo" /\ undo # <<>> /\ Last(undo) = step
Undone == undo' = Front(undo)

(* RestoreBookmark leaves a bookmark that was conflicted, and one that is not *)
(* where the migrate set it (ErrBookmarkMoved, a warning). The step of the    *)
(* record says the same.                                                      *)
MarkRestored == IF bookmark = "set" THEN "before" ELSE bookmark

UndoMark ==
  /\ Undoing(RestoreMark) /\ Undone
  /\ bookmark' = MarkRestored
  /\ UNCHANGED <<pc, to, at, files, reg, jjName, manifest, marker, pending, listed, added, moved, looked,
                 forgotten, written, hand>>

UndoCarryNothing(entry) ==
  /\ Undoing(CarryBack(entry)) /\ entry \notin moved /\ Undone
  /\ UNCHANGED <<pc, to, disk, marker, pending, listed, added, moved, looked, forgotten, written, hand>>

UndoCarryLooks(entry) ==
  /\ Undoing(CarryBack(entry)) /\ entry \in moved /\ looked = NoEntry
  /\ Look(entry, "new", "old")
  /\ UNCHANGED <<pc, to, disk, marker, pending, undo, listed, added, moved, forgotten, written, hand>>

UndoCarryRenames(entry) ==
  /\ Undoing(CarryBack(entry)) /\ looked = entry /\ Undone
  /\ Rename(entry, "new", "old")
  /\ looked' = NoEntry
  /\ UNCHANGED <<pc, to, at, reg, jjName, bookmark, manifest, marker, pending, listed, added, moved,
                 forgotten, written, hand>>

(* keep: the old checkout holds the entry again, so the copy carried across   *)
(* goes beside both.                                                          *)
UndoCarryKeeps(entry) ==
  /\ Undoing(CarryBack(entry)) /\ entry \in moved /\ looked = NoEntry
  /\ Has("old", entry) /\ ~Has("kept", entry) /\ Undone
  /\ Rename(entry, "new", "kept")
  /\ UNCHANGED <<pc, to, at, reg, jjName, bookmark, manifest, marker, pending, listed, added, moved, looked,
                 forgotten, written, hand>>

(* With the new checkout never made, nothing may be at its path; one made goes *)
(* only once it holds none of the entries, and stops the rollback when only    *)
(* its directory could be removed.                                             *)
UndoNothingMade ==
  /\ Undoing(RemoveNew) /\ ~added /\ at.slot = "none" /\ Undone
  /\ UNCHANGED <<pc, to, disk, marker, pending, listed, added, moved, looked, forgotten, written, hand>>

\* Mutant: the new checkout is removed whatever it holds.
UndoNewUnread ==
  /\ Undoing(RemoveNew) /\ added /\ at.slot = "new" /\ Undone
  /\ at' = [at EXCEPT !.slot = "none"] /\ files' = [files EXCEPT !.new = {}]
  /\ reg' = [reg EXCEPT !.new = FALSE] /\ jjName' = (to = "worktree")
  /\ UNCHANGED <<pc, to, bookmark, manifest, marker, pending, listed, added, moved, looked, forgotten,
                 written, hand>>

UndoNew ==
  /\ Undoing(RemoveNew) /\ added /\ at.slot = "new" /\ ~HasListed("new")
  /\ at' = [at EXCEPT !.slot = "none"] /\ files' = [files EXCEPT !.new = {}]
  /\ \/ /\ Undone /\ UNCHANGED pc
        /\ reg' = [reg EXCEPT !.new = FALSE] /\ jjName' = (to = "worktree")
     \/ pc' = "stop" /\ UNCHANGED <<undo, reg, jjName>>
  /\ UNCHANGED <<to, bookmark, manifest, marker, pending, listed, added, moved, looked, forgotten,
                 written, hand>>

(* The old checkout goes back to its path, which must hold nothing; its       *)
(* registration may not follow, which stops the rollback.                     *)
UndoAside ==
  /\ Undoing(MoveBack) /\ at.slot = "none"
  /\ at' = [at EXCEPT !.slot = "old", !.aside = "none"]
  /\ \/ Undone /\ reg' = [reg EXCEPT !.old = "slot"] /\ UNCHANGED pc
     \/ pc' = "stop" /\ UNCHANGED <<undo, reg>>
  /\ UNCHANGED <<to, files, jjName, bookmark, manifest, marker, pending, listed, added, moved, looked,
                 forgotten, written, hand>>

(* Any undo with something to do may fail; one of a checkout its tool left    *)
(* behind keeps a step of its own (restepped).                                *)
UndoFails ==
  /\ pc = "undo" /\ undo # <<>> /\ pc' = "stop" /\ looked' = NoEntry
  /\ \A e \in listed \ moved : Last(undo) # CarryBack(e)
  /\ undo' = IF Last(undo) = RemoveNew /\ ~added /\ at.slot # "none"
             THEN Append(Front(undo), LookAt) ELSE undo
  /\ UNCHANGED <<to, disk, marker, pending, listed, added, moved, forgotten, written, hand>>

Stop ==
  /\ pc = "stop"
  /\ Cleanup("rollback-stopped", undoSteps(undo), "stopped")
  /\ UNCHANGED <<to, disk, memory, written, hand>>

RolledBack ==
  /\ pc = "undo" /\ undo = <<>> /\ pc' = "rolled back"
  /\ \/ marker' = NoRecord
     \/ UNCHANGED marker                     \* endMarker failed: a warning
  /\ UNCHANGED <<to, disk, pending, memory, written, hand>>

-----------------------------------------------------------------------------
(* Everyone else.                                                             *)

Over == pc \in {"refused", "migrated", "rolled back", "stopped", "killed"}

Kill ==
  /\ ~Over /\ pc' = "killed"
  /\ UNCHANGED <<to, disk, marker, pending, memory, written, hand>>

(* Another workspace of the primary moves the bookmark, without its lock. *)
OthersMoveMark ==
  /\ bookmark \in {"set", "resolved"} /\ bookmark' = "moved"
  /\ UNCHANGED <<pc, to, at, files, reg, jjName, manifest, marker, pending, memory, written, hand>>

(* What has the slot open follows it into the aside; what writes by its path  *)
(* reaches whatever is there, and makes a directory where nothing is.         *)
Unseen ==
  \/ looked # NoEntry
  \/ pc \in {"adding", "forget", "record forgetting", "forget name", "restore new",
             "record restored", "remove aside"}
  \/ pc = "recording" /\ pending.next \in {"forget name", "remove aside"}

Write(place, item) ==
  LET checkout == IF at[place] = "none" THEN "stray" ELSE at[place]
      copy == <<item, 1 + Cardinality({c \in written : c[2] > 0})>>
  IN /\ hand.state = "away" /\ pc # "refused"
     /\ copy[2] <= MaxWrites /\ (Windows \/ ~Unseen)
     /\ place = "aside" => at.aside = "old"
     /\ ~Has(checkout, item)
     /\ at' = [at EXCEPT ![place] = checkout]
     /\ files' = [files EXCEPT ![checkout] = @ \cup {copy}]
     /\ written' = written \cup {copy}
     /\ UNCHANGED <<pc, to, reg, jjName, bookmark, manifest, marker, pending, memory, hand>>

-----------------------------------------------------------------------------
(* A person follows the record's steps, in order: each is one command, which  *)
(* stops at its refusal (recoverySteps).                                      *)

(* The record no longer fits the disk: it lacks a step for what is done, or   *)
(* has one for what is undone already.                                        *)
Stale ==
  LET recorded == ToSet(marker.steps) IN
  \/ at.stash = "new" /\ MoveNewBack \notin recorded
  \/ at.stash # "new" /\ MoveNewBack \in recorded
  \/ at.slot = "old" /\ MoveBack \in recorded
  \/ manifest = from /\ bookmark = "set" /\ RestoreMark \notin recorded
  \/ manifest = Gone

HandBegins ==
  /\ Over /\ hand.state = "away" /\ marker # NoRecord
  /\ hand' = [state |-> "following", misled |-> Stale,
              left |-> IF marker.phase = "saving" /\ manifest = to THEN marker.cleanup ELSE marker.steps]
  /\ UNCHANGED <<pc, to, disk, marker, pending, memory, written>>

ByHand(step) == hand.state = "following" /\ hand.left # <<>> /\ Head(hand.left) = step
Next1 == hand' = [hand EXCEPT !.left = Tail(@)]
Stuck == hand' = [hand EXCEPT !.state = "stuck"] /\ UNCHANGED disk

(* vacantCommand refuses while anything is at the path, and mv fails with     *)
(* nothing to move.                                                           *)
HandMovesBack ==
  /\ ByHand(MoveBack) \/ ByHand(LookBeside)
  /\ IF at.slot = "none" /\ at.aside = "old"
     THEN /\ Next1
          /\ at' = [at EXCEPT !.slot = "old", !.aside = "none"]
          /\ reg' = [reg EXCEPT !.old = "slot"] /\ UNCHANGED <<files, jjName, bookmark, manifest>>
     ELSE IF ByHand(LookBeside) /\ at.aside = "none" THEN Next1 /\ UNCHANGED disk ELSE Stuck

HandRestoresMark ==
  /\ ByHand(RestoreMark) /\ Next1
  /\ bookmark' = MarkRestored /\ UNCHANGED <<at, files, reg, jjName, manifest>>

HandCarriesBack ==
  \E e \in Entries :
    /\ ByHand(CarryBack(e))
    /\ LET carried == at.slot # "none" /\ Has(at.slot, e)
           Move(target) == Rename(e, at.slot, target) /\ UNCHANGED <<at, reg, jjName, bookmark, manifest>>
       IN \/ ~carried /\ Next1 /\ UNCHANGED disk
          \/ carried /\ at.aside = "none" /\ Stuck
          \/ /\ carried /\ at.aside = "old" /\ Next1
             /\ \/ ~Has("old", e) /\ Move("old")
                \/ Has("old", e) /\ ~Has("kept", e) /\ Move("kept")
                \/ Has("old", e) /\ Has("kept", e) /\ UNCHANGED disk

(* removeNewCommand refuses while an entry is there, then rm -rf; the jj      *)
(* workspace and git's registration of the path go with it.                   *)
HandRemovesNew ==
  /\ ByHand(RemoveNew)
  /\ IF at.slot # "none" /\ HasListed(at.slot) THEN Stuck
     ELSE /\ Next1
          /\ at' = [at EXCEPT !.slot = "none"]
          /\ files' = IF at.slot = "none" THEN files ELSE [files EXCEPT ![at.slot] = {}]
          /\ reg' = [old |-> IF reg.old = "slot" THEN "none" ELSE reg.old, new |-> FALSE]
          /\ jjName' = (to = "worktree")
          /\ UNCHANGED <<bookmark, manifest>>

(* The person moves out what is needed and clears the path. *)
HandLooks ==
  /\ ByHand(LookAt) /\ Next1
  /\ at' = [at EXCEPT !.slot = "none"]
  /\ files' = IF at.slot = "none" THEN files
              ELSE [files EXCEPT ![at.slot] = {}, !.taken = @ \cup files[at.slot]]
  /\ reg' = [reg EXCEPT !.new = FALSE]
  /\ UNCHANGED <<jjName, bookmark, manifest>>

HandMovesNewBack ==
  /\ ByHand(MoveNewBack)
  /\ IF at.slot = "none" /\ at.stash = "new"
     THEN /\ Next1 /\ at' = [at EXCEPT !.slot = "new", !.stash = "none"]
          /\ UNCHANGED <<files, reg, jjName, bookmark, manifest>>
     ELSE Stuck

HandForgets ==
  /\ ByHand(Forget) \/ ByHand(ForgetIfListed)
  /\ IF at.slot = "none" /\ (jjName \/ ByHand(Forget)) THEN Stuck
     ELSE Next1 /\ jjName' = FALSE /\ UNCHANGED <<at, files, reg, bookmark, manifest>>

HandRemovesAside ==
  /\ ByHand(RemoveAside) /\ Next1
  /\ at' = [at EXCEPT !.aside = "none"]
  /\ files' = [files EXCEPT !.old = {}, !.taken = @ \cup files.old]
  /\ reg' = [reg EXCEPT !.old = "none"]
  /\ UNCHANGED <<jjName, bookmark, manifest>>

HandStep ==
  /\ \/ HandMovesBack \/ HandRestoresMark \/ HandCarriesBack \/ HandRemovesNew \/ HandLooks
     \/ HandMovesNewBack \/ HandForgets \/ HandRemovesAside
  /\ UNCHANGED <<pc, to, marker, pending, memory, written>>

HandFinishes ==
  /\ hand.state = "following" /\ hand.left = <<>>
  /\ hand' = [hand EXCEPT !.state = "finished"] /\ marker' = NoRecord
  /\ UNCHANGED <<pc, to, disk, pending, memory, written>>

-----------------------------------------------------------------------------
Migrates ==
  \/ Refuse \/ Prepare \/ BeginMarker \/ SetAside \/ PushAside \/ Repoint \/ Check
  \/ AddBegins \/ AddEnds \/ AddFails \/ PushCarry \/ CarryLooks \/ CarryRenames
  \/ RecordSaving \/ SaveDetaches \/ SaveInstalls \/ Saved \/ CheckFails \/ InstallRecord

CleansUp ==
  \/ Finish \/ SetNewAside \/ RecordForgetting \/ ForgetName \/ RestoreNew \/ RecordRestored
  \/ RemoveOld \/ Deregister \/ RecordStranded \/ End

RollsBack ==
  \/ UndoMark \/ UndoNothingMade \/ UndoNew \/ UndoAside \/ UndoFails \/ Stop \/ RolledBack
  \/ \E e \in Entries : UndoCarryNothing(e) \/ UndoCarryLooks(e) \/ UndoCarryRenames(e) \/ UndoCarryKeeps(e)

ByPerson == HandBegins \/ HandStep \/ HandFinishes
Writes == \E place \in {"slot", "aside"}, item \in Items : Write(place, item)

SlotStep == Migrates \/ CleansUp \/ RollsBack \/ Kill \/ Writes \/ ByPerson

Next == SlotStep \/ OthersMoveMark
Spec == Init /\ [][Next]_vars

-----------------------------------------------------------------------------
(* Properties.                                                                *)

TypeOK ==
  /\ to \in Modes
  /\ at \in [slot : {"old", "new", "stray", "none"}, aside : {"old", "none"}, stash : {"new", "none"}]
  /\ files \in [{"old", "new", "kept", "stray", "taken"} -> SUBSET (Items \X (0..MaxWrites))]
  /\ reg \in [old : {"slot", "aside", "none"}, new : BOOLEAN]
  /\ jjName \in BOOLEAN /\ added \in BOOLEAN /\ forgotten \in BOOLEAN
  /\ bookmark \in {"before", "set", "resolved", "moved"} /\ manifest \in Modes \cup {Gone}
  /\ listed \subseteq Entries /\ moved \subseteq listed /\ looked \in listed \cup {NoEntry}
  /\ written \subseteq Items \X (0..MaxWrites)
  /\ hand.state \in {"away", "following", "finished", "stuck"}

(* No copy of an entry the migrate found in the slot is lost, whether it was  *)
(* there or a writer made it meanwhile: the migrate renames entries and never *)
(* removes a checkout that holds one, nor does a person who follows a record, *)
(* even one that no longer fits the disk.                                     *)
EntriesSurvive ==
  \A copy \in written : (copy[1] \in listed \/ copy[2] = 0) => copy \in Held

(* What the old checkout holds, a change to a tracked file or an entry no one *)
(* listed included, is never deleted with it: an old checkout that holds      *)
(* anything is kept or put back.                                              *)
OldKeepsItsWork == [][~hand.misled => \A copy \in files.old : copy \in Held']_vars

(* The bookmark is not where the migrate moved it: it is back where it was,   *)
(* others moved it since, or it was conflicted, which a migrate resolves and  *)
(* nothing undoes.                                                            *)
MarkGivenBack == bookmark # "set"

(* A rollback that finishes leaves the slot the checkout it was, registered,  *)
(* with its entries in it or kept beside it, its bookmark not where the       *)
(* migrate moved it, and the manifest as it was.                              *)
RolledBackIsWhole ==
  (pc = "rolled back" /\ hand.state = "away") =>
    /\ at = [slot |-> "old", aside |-> "none", stash |-> "none"]
    /\ reg.old = "slot" /\ MarkGivenBack /\ manifest = from
    /\ \A copy \in written : copy[2] = 0 => copy \in files.old \cup files.kept

(* The checkout angee.yaml names is at the slot's path.                       *)
InPlace == at.slot = (IF manifest = to THEN "new" ELSE "old")

(* Following a record that fits the disk to its end leaves the slot whole:    *)
(* the checkout the manifest names at its path, registered, nothing aside,    *)
(* the bookmark not where a migrate undone moved it, and jj listing a         *)
(* workspace only for a jj slot; and only something a writer or a tool left   *)
(* in the way stops the person who follows it.                                *)
HandRestores ==
  ~hand.misled =>
    /\ hand.state = "finished" =>
         /\ InPlace /\ at.stash = "none" /\ manifest \in Modes
         /\ manifest = from => /\ at.aside = "none" /\ reg.old = "slot" /\ MarkGivenBack
                               /\ jjName = (to = "worktree")
         /\ manifest = to => at.aside = "none" /\ jjName = (to = "jj")
    /\ hand.state = "stuck" => at.slot = "stray" \/ \E copy \in written : copy[2] > 0

(* What the repository says of the same code, each checked on its own.        *)

(* The step that removes what was made of the new checkout removes nothing    *)
(* else: the old one, once it is back at its path, is not deleted by hand.    *)
HandKeepsTheSlot ==
  [][(pc = "killed" /\ ByHand(RemoveNew) /\ at.slot = "old") => at'.slot = "old"]_vars

=============================================================================
