------------------------- MODULE WorkspaceLifecycle -------------------------
(***************************************************************************)
(* Creating, repairing and destroying workspaces (service/workspaces.go,     *)
(* workspace_repair.go): the manifest's entry, the directory, one git        *)
(* worktree per source slot and its registration in the source cache, cut    *)
(* and removed by the git driver (vcs/gitdriver/lifecycle.go) under the      *)
(* cache's lock (primary_lock.go).                                           *)
(*                                                                         *)
(* Several processes work on one stack root, each with its own lease, and on *)
(* one cache, maybe on one workspace. Any step fails, a process is killed     *)
(* anywhere, and people work in the checkouts, push, and delete what they    *)
(* please.                                                                   *)
(***************************************************************************)
EXTENDS Naturals, Sequences, FiniteSets, SequencesExt

CONSTANTS Procs,       \* processes that work on the stack root
          Workspaces,  \* names of workspaces
          SlotsOf,     \* the source slots of each, in the order they are cut
          Optional,    \* slots a create may do without
          Serves,      \* which process is asked about which workspace
          MaxOps,      \* bound on the operations one process is asked for
          None

SlotSet(w) == ToSet(SlotsOf[w])
Slots == UNION {SlotSet(w) : w \in Workspaces}
HomeOf(s) == CHOOSE w \in Workspaces : s \in SlotSet(w)

(* Who made something: an earlier time, or a process in one of its operations. *)
Old == <<"before", 0>>
Ids == {Old} \cup (Procs \X (1..MaxOps))

ASSUME WorkspaceAssumption ==
  /\ None \notin Procs \cup Slots \cup Ids /\ Optional \subseteq Slots
  /\ Serves \subseteq Procs \X Workspaces /\ MaxOps \in Nat \ {0}
  /\ \A w \in Workspaces : SlotsOf[w] \in Seq(SlotSet(w))
  /\ \A w, v \in Workspaces : w # v => SlotSet(w) \cap SlotSet(v) = {}

VARIABLES
  pc,        \* where each process is
  op,        \* what it was asked: [n, kind, w, sync, purge]; n numbers its operations
  seen,      \* the manifest it read (parentStackTransaction.before)
  guard,     \* the directory its guard captured when it began
  todo,      \* slots it has still to look at
  dest,      \* the slot's entry and directory as the slot's guard captured them
  cut,       \* slots it made and would remove (workspaceSourceCleanup.entries)
  manifest,  \* angee.yaml: per workspace the slots its entry records, or NoEntry
  dir,       \* who made each workspace's directory, or None
  slot,      \* what is at each slot's path, who made it, and the work in it
  reg,       \* the cache's registration of the slot's worktree
  stage,     \* who made the staging directory that is there, or None
  lock,      \* who holds the cache's lock
  broken,    \* operations killed, or whose clean-up failed or went without the lock
  crowded    \* operations that another process's on the same workspace has met

asked == <<op, seen>>
locals == <<guard, todo, dest, cut>>
going == <<pc, asked, locals>>
disk == <<dir, slot, reg, stage>>
vars == <<going, disk, manifest, lock, broken, crowded>>

NoEntry == {None}
Me(p) == <<p, op[p].n>>
NoOp == [n |-> 0, kind |-> "none", w |-> None, sync |-> FALSE, purge |-> FALSE]
Unread == [w \in Workspaces |-> NoEntry]
NoSlot == [at |-> "none", by |-> Old, work |-> "clean"]
NoDest == [slot |-> NoSlot, dir |-> None]
Checkout(id) == [at |-> "checkout", by |-> id, work |-> "clean"]
Resting == {"idle", "failed"}

W(p) == op[p].w

(* workspaceRepairOrder: slots are taken in the order in which they are cut.  *)
NextOf(R, w) == CHOOSE s \in R :
  \E i \in DOMAIN SlotsOf[w] :
    SlotsOf[w][i] = s /\ \A j \in DOMAIN SlotsOf[w] : SlotsOf[w][j] \in R => i <= j
S(p) == NextOf(todo[p], W(p))

Live == {Me(p) : p \in {q \in Procs : pc[q] \notin Resting}}

(* What an earlier time left: nothing, a whole workspace, a leftover of a     *)
(* create that failed, a directory someone made, or only a declaration.       *)
Init ==
  /\ pc = [p \in Procs |-> "idle"]
  /\ op = [p \in Procs |-> NoOp] /\ seen = [p \in Procs |-> Unread]
  /\ todo = [p \in Procs |-> {}] /\ cut = [p \in Procs |-> <<>>]
  /\ guard = [p \in Procs |-> None]
  /\ dest = [p \in Procs |-> NoDest]
  /\ \E past \in [Workspaces -> {"nothing", "declared", "whole", "leftover", "stray"}] :
       /\ manifest = [w \in Workspaces |-> IF past[w] = "whole" THEN SlotSet(w)
                                           ELSE IF past[w] = "declared" THEN {} ELSE NoEntry]
       /\ dir = [w \in Workspaces |-> IF past[w] \in {"nothing", "declared"} THEN None ELSE Old]
       /\ slot = [s \in Slots |-> IF past[HomeOf(s)] \in {"whole", "leftover"} THEN Checkout(Old)
                                  ELSE IF past[HomeOf(s)] = "stray" THEN [NoSlot EXCEPT !.at = "stray"]
                                  ELSE NoSlot]
  /\ reg = [s \in Slots |-> IF slot[s].at = "checkout" THEN "slot" ELSE "none"]
  /\ stage = [s \in Slots |-> None] /\ lock = None
  /\ broken = {} /\ crowded = {}

Goto(p, place) == pc' = [pc EXCEPT ![p] = place]
Goes(p, place) == Goto(p, place) /\ UNCHANGED <<asked, locals>>

(* The call returns, or its process is killed: what it held in memory is gone. *)
(* A create that failed is remembered for what it may have left.              *)
Returns(p, place) ==
  /\ Goto(p, place)
  /\ guard' = [guard EXCEPT ![p] = None] /\ dest' = [dest EXCEPT ![p] = NoDest]
  /\ todo' = [todo EXCEPT ![p] = {}] /\ cut' = [cut EXCEPT ![p] = <<>>]
  /\ IF place = "failed" THEN UNCHANGED asked
     ELSE /\ op' = [op EXCEPT ![p] = [NoOp EXCEPT !.n = op[p].n]]
          /\ seen' = [seen EXCEPT ![p] = Unread]

-----------------------------------------------------------------------------
(* Beginnings: WorkspaceCreate, WorkspaceDestroy and WorkspaceRepair up to    *)
(* their first change. A refusal there changes nothing and is not a step.     *)

Begin(p, w, kind, sync, purge, slots, place) ==
  /\ pc[p] \in Resting /\ op[p].n < MaxOps /\ <<p, w>> \in Serves
  /\ op' = [op EXCEPT ![p] = [n |-> op[p].n + 1, kind |-> kind, w |-> w, sync |-> sync, purge |-> purge]]
  /\ seen' = [seen EXCEPT ![p] = manifest]
  /\ guard' = [guard EXCEPT ![p] = dir[w]]
  /\ todo' = [todo EXCEPT ![p] = slots]
  /\ cut' = [cut EXCEPT ![p] = <<>>]
  /\ dest' = [dest EXCEPT ![p] = NoDest]
  /\ Goto(p, place)
  /\ UNCHANGED <<disk, manifest, lock, broken>>

(* An entry whose directory is missing is a declaration, which is adopted.    *)
CreateBegins(p, w, sync) ==
  /\ manifest[w] = NoEntry \/ dir[w] = None
  /\ Begin(p, w, "create", sync, FALSE, SlotSet(w), "mkdir")

DestroyBegins(p, w, purge) ==
  /\ manifest[w] # NoEntry
  /\ Begin(p, w, "destroy", FALSE, purge, manifest[w], "check")

RepairBegins(p, w) ==
  /\ manifest[w] # NoEntry /\ dir[w] # None
  /\ Begin(p, w, "repair", FALSE, FALSE, manifest[w], "slots")

(* GuardedPath.MkdirAll: an entry that appeared, or went, since the guard was *)
(* opened is refused, before anything is registered to be rolled back.        *)
MakeDir(p) ==
  /\ pc[p] = "mkdir"
  /\ \/ /\ dir[W(p)] = guard[p]
        /\ dir' = [dir EXCEPT ![W(p)] = IF @ = None THEN Me(p) ELSE @]
        /\ Goes(p, "slots")
     \/ Returns(p, "idle") /\ UNCHANGED dir
  /\ UNCHANGED <<slot, reg, stage, manifest, lock, broken>>

-----------------------------------------------------------------------------
(* One slot: materializeWorkspaceSource and, under the cache's lock,          *)
(* addWorktreeSlot and the driver's addWorktree.                              *)

(* A slot that cannot be cut fails a create unless it is optional; a repair   *)
(* goes on to the next, a destroy's removals are best effort.                 *)
NextSlot(p) ==
  /\ todo' = [todo EXCEPT ![p] = @ \ {S(p)}] /\ dest' = [dest EXCEPT ![p] = NoDest]
  /\ Goto(p, "slots") /\ UNCHANGED <<asked, guard>>
SlotFails(p) ==
  /\ IF op[p].kind # "create" \/ S(p) \in Optional
       THEN NextSlot(p) ELSE Goes(p, "undo")
  /\ UNCHANGED cut

LookAtSlot(p) ==
  LET found == slot[S(p)].at # "none" IN
  /\ pc[p] = "slots" /\ todo[p] # {}
  /\ \/ op[p].kind = "repair" /\ found /\ NextSlot(p) /\ UNCHANGED cut
     \/ op[p].kind = "create" /\ found /\ ~op[p].sync /\ SlotFails(p)
     \/ /\ ~found \/ op[p].sync \/ op[p].kind = "destroy"
        /\ dest' = [dest EXCEPT ![p] = [slot |-> slot[S(p)], dir |-> dir[W(p)]]]
        /\ Goto(p, "lock") /\ UNCHANGED <<asked, guard, todo, cut>>
  /\ UNCHANGED <<disk, manifest, lock, broken>>

LookAtSlotFails(p) ==
  /\ pc[p] = "slots" /\ todo[p] # {} /\ SlotFails(p)
  /\ UNCHANGED <<disk, manifest, lock, broken>>

TakeLock(p) ==
  /\ pc[p] \in {"lock", "undo"} /\ lock = None
  /\ pc[p] = "undo" => cut[p] # <<>>
  /\ lock' = p
  /\ Goes(p, IF pc[p] = "undo" THEN "remove" ELSE IF op[p].kind = "destroy" THEN "purge" ELSE "settle")
  /\ UNCHANGED <<disk, manifest, broken>>

(* What the lock is waited for times out, or is cancelled. *)
LockFails(p) ==
  /\ pc[p] = "lock" /\ op[p].kind # "destroy" /\ SlotFails(p)
  /\ UNCHANGED <<disk, manifest, lock, broken>>

(* git worktree prune drops every registration of this cache whose checkout,  *)
(* or staging directory, is missing, or is where the process cannot see it: a *)
(* cache bind-mounted into a container is pruned without the temporary        *)
(* directories of the processes outside.                                      *)
Prunes(p, slots) == \E sees \in BOOLEAN :
  reg' = [s \in Slots |->
    IF \/ reg[s] = "slot" /\ slots[s].at # "checkout"
       \/ reg[s] = "stage" /\ (stage[s] = None \/ (~sees /\ stage[s][1] # p))
    THEN "none" ELSE reg[s]]

(* GuardedPath.RemoveAll removes the entry its guard captured and no other.   *)
Same(s, captured) == slot[s].at = captured.at /\ slot[s].by = captured.by
Removed(s, captured) == IF Same(s, captured) THEN [slot EXCEPT ![s] = NoSlot] ELSE slot

(* Refresh the cache, then: a worktree listed at the path is a leftover,      *)
(* removed with its registration; a populated path not listed is refused.     *)
Settle(p) ==
  LET s == S(p) IN
  /\ pc[p] = "settle"
  /\ \/ /\ reg[s] = "slot"
        /\ slot' = Removed(s, dest[p].slot)
        /\ Prunes(p, slot')
        /\ \/ /\ slot'[s] = NoSlot
              /\ dest' = [dest EXCEPT ![p].slot = NoSlot]
              /\ Goto(p, "add") /\ UNCHANGED <<asked, guard, todo, cut, lock>>
           \/ slot'[s] # NoSlot /\ SlotFails(p) /\ lock' = None
     \/ /\ reg[s] # "slot" /\ dest[p].slot.at = "none"
        /\ Goes(p, "add") /\ UNCHANGED <<slot, reg, lock>>
     \/ SlotFails(p) /\ lock' = None /\ UNCHANGED <<slot, reg>>
  /\ UNCHANGED <<dir, stage, manifest, broken>>

(* git worktree add in a staging directory. git refuses a branch that another *)
(* worktree has, a dead operation's stage included.                           *)
Stage(p) ==
  /\ pc[p] = "add"
  /\ \/ /\ reg[S(p)] = "none"
        /\ reg' = [reg EXCEPT ![S(p)] = "stage"] /\ stage' = [stage EXCEPT ![S(p)] = Me(p)]
        /\ Goes(p, "install") /\ UNCHANGED lock
     \/ SlotFails(p) /\ lock' = None /\ UNCHANGED <<reg, stage>>
  /\ UNCHANGED <<dir, slot, manifest, broken>>

(* dest.ReplaceFrom copies the stage to the slot's path, if the path and its  *)
(* directory are still what the guard captured; a directory that was missing  *)
(* then is made.                                                              *)
Install(p) ==
  /\ pc[p] = "install"
  /\ Same(S(p), dest[p].slot) /\ dir[W(p)] = dest[p].dir
  /\ slot' = [slot EXCEPT ![S(p)] = Checkout(Me(p))]
  /\ dir' = [dir EXCEPT ![W(p)] = IF @ = None THEN Me(p) ELSE @]
  /\ Goes(p, "register")
  /\ UNCHANGED <<reg, stage, manifest, lock, broken>>

(* finishWorktree points the registration at the path and drops the stage; a  *)
(* repair then asks whether the slot is ready.                                *)
Register(p) ==
  /\ pc[p] = "register" /\ Same(S(p), Checkout(Me(p))) /\ reg[S(p)] = "stage"
  /\ reg' = [reg EXCEPT ![S(p)] = "slot"] /\ stage' = [stage EXCEPT ![S(p)] = None]
  /\ cut' = [cut EXCEPT ![p] = Append(@, S(p))]
  /\ \/ op[p].kind = "repair" /\ Goto(p, "ready") /\ UNCHANGED <<asked, guard, todo, dest>>
     \/ op[p].kind = "create" /\ NextSlot(p)
  /\ lock' = None
  /\ UNCHANGED <<dir, slot, manifest, broken>>

(* An operation whose clean-up failed, or went without the lock.              *)
Breaks(p, fails) == broken' = IF fails THEN broken \cup {Me(p)} ELSE broken

(* addWorktree's deferred clean-up: the installed checkout and the stage go,  *)
(* then the registration (dropRegistrations), unless something is at its path *)
(* or git fails.                                                              *)
AddFails(p) ==
  LET s == S(p) IN
  /\ pc[p] \in {"install", "register"}
  /\ stage' = [stage EXCEPT ![s] = None]
  /\ \E repaired, removes, drops \in BOOLEAN :
       /\ repaired => pc[p] = "register"
       /\ slot' = IF pc[p] = "register" /\ removes THEN Removed(s, Checkout(Me(p))) ELSE slot
       /\ reg' = [reg EXCEPT ![s] = IF drops /\ (repaired => slot'[s] = NoSlot) THEN "none"
                                    ELSE IF repaired THEN "slot" ELSE "stage"]
       /\ Breaks(p, ~removes \/ ~drops)
  /\ SlotFails(p) /\ lock' = None
  /\ UNCHANGED <<dir, manifest>>

Ready(p) ==
  /\ pc[p] = "ready"
  /\ \/ cut' = [cut EXCEPT ![p] = <<>>] /\ NextSlot(p)
     \/ Goes(p, "undo")
  /\ UNCHANGED <<disk, manifest, lock, broken>>

RepairEnds(p) ==
  /\ pc[p] = "slots" /\ op[p].kind = "repair" /\ todo[p] = {}
  /\ Returns(p, "idle")
  /\ UNCHANGED <<disk, manifest, lock, broken>>

-----------------------------------------------------------------------------
(* The rest of a create: render and apply (TemplateReconcile), save angee.yaml *)
(* if it is as it was read, save the render state, the commit point.          *)

Render(p) ==
  /\ pc[p] = "slots" /\ op[p].kind = "create" /\ todo[p] = {}
  /\ \/ dir[W(p)] # None /\ Goes(p, "save")
     \/ Goes(p, "undo")
  /\ UNCHANGED <<disk, manifest, lock, broken>>

Saved(p) == [seen[p] EXCEPT ![W(p)] = ToSet(cut[p])]

\* Mutant: angee.yaml is not compared with what was read.
SaveBlindly(p) ==
  /\ pc[p] = "save"
  /\ \/ manifest' = Saved(p) /\ Goes(p, "state")
     \/ Goes(p, "undo") /\ UNCHANGED manifest
  /\ UNCHANGED <<disk, lock, broken>>

Save(p) ==
  /\ pc[p] = "save"
  /\ \/ manifest = seen[p] /\ manifest' = Saved(p) /\ Goes(p, "state")
     \/ Goes(p, "undo") /\ UNCHANGED manifest
  /\ UNCHANGED <<disk, lock, broken>>

SaveState(p) ==
  /\ pc[p] = "state" /\ Returns(p, "idle")
  /\ UNCHANGED <<disk, manifest, lock, broken>>

\* Mutant: the manifest is left as it was saved.
SaveStateFailsOnly(p) ==
  /\ pc[p] = "state" /\ Goes(p, "undo")
  /\ UNCHANGED <<disk, manifest, lock, broken>>

(* parentTx.Rollback writes back what was read, over what it wrote only.      *)
SaveStateFails(p) ==
  /\ pc[p] = "state" /\ Goes(p, "undo")
  /\ \/ manifest = Saved(p) /\ manifest' = seen[p] /\ UNCHANGED broken
     \/ manifest # Saved(p) /\ Breaks(p, TRUE) /\ UNCHANGED manifest
  /\ UNCHANGED <<disk, lock>>

(* workspaceSourceCleanup.Rollback, last slot first, each removed under the   *)
(* lock and the cache pruned; what fails is reported and the next is tried.   *)
AfterUndo(p) ==
  /\ cut' = [cut EXCEPT ![p] = Front(@)]
  /\ \/ op[p].kind = "repair" /\ NextSlot(p)
     \/ op[p].kind = "create" /\ Goto(p, "undo") /\ UNCHANGED <<asked, guard, todo, dest>>

UndoSlot(p) ==
  /\ pc[p] = "remove"
  /\ \E removes \in BOOLEAN :
       /\ slot' = IF removes THEN Removed(Last(cut[p]), Checkout(Me(p))) ELSE slot
       /\ Breaks(p, slot' = slot)
  /\ Prunes(p, slot') /\ lock' = None
  /\ AfterUndo(p)
  /\ UNCHANGED <<dir, stage, manifest>>

\* Mutant: the cache is pruned although its lock is not held.
UndoSlotPruning(p) ==
  /\ pc[p] = "undo" /\ cut[p] # <<>>
  /\ slot' = Removed(Last(cut[p]), Checkout(Me(p)))
  /\ Prunes(p, slot')
  /\ Breaks(p, TRUE) /\ AfterUndo(p)
  /\ UNCHANGED <<dir, stage, manifest, lock>>

(* When the lock cannot be had, the slot is removed and the cache left alone. *)
UndoSlotUnlocked(p) ==
  /\ pc[p] = "undo" /\ cut[p] # <<>>
  /\ slot' = Removed(Last(cut[p]), Checkout(Me(p)))
  /\ Breaks(p, TRUE) /\ AfterUndo(p)
  /\ UNCHANGED <<dir, reg, stage, manifest, lock>>

Emptied(w) == [s \in Slots |-> IF HomeOf(s) = w THEN NoSlot ELSE slot[s]]

(* The directory goes last, with all that is in it, if this create made it.   *)
UndoDir(p) ==
  /\ pc[p] = "undo" /\ cut[p] = <<>> /\ Returns(p, "failed")
  /\ \/ /\ guard[p] = None /\ dir[W(p)] = Me(p)
        /\ dir' = [dir EXCEPT ![W(p)] = None] /\ slot' = Emptied(W(p))
        /\ UNCHANGED broken
     \/ Breaks(p, guard[p] = None) /\ UNCHANGED <<dir, slot>>
  /\ UNCHANGED <<reg, stage, manifest, lock>>

-----------------------------------------------------------------------------
(* WorkspaceDestroy: refuse while a recorded slot holds work nothing else     *)
(* does, save angee.yaml without the workspace, then, to purge, remove its    *)
(* slots, best effort, and the directory.                                     *)

\* Mutant: the status of a slot is not asked for what is uncommitted.
CheckSlotUnread(p) ==
  /\ pc[p] = "check" /\ todo[p] # {}
  /\ \/ slot[S(p)].at # "stray" /\ todo' = [todo EXCEPT ![p] = @ \ {S(p)}]
        /\ UNCHANGED <<pc, asked, guard, dest, cut>>
     \/ Returns(p, "idle")
  /\ UNCHANGED <<disk, manifest, lock, broken>>

(* ensureWorkspaceGitSourcesPushed. A slot that is missing holds nothing.     *)
CheckSlot(p) ==
  /\ pc[p] = "check" /\ todo[p] # {}
  /\ \/ /\ slot[S(p)].at # "stray" /\ slot[S(p)].work = "clean"
        /\ todo' = [todo EXCEPT ![p] = @ \ {S(p)}]
        /\ UNCHANGED <<pc, asked, guard, dest, cut>>
     \/ Returns(p, "idle")
  /\ UNCHANGED <<disk, manifest, lock, broken>>

DestroySaves(p) ==
  /\ pc[p] = "check" /\ todo[p] = {}
  /\ \/ /\ manifest = seen[p]
        /\ manifest' = [seen[p] EXCEPT ![W(p)] = NoEntry]
        /\ \/ /\ op[p].purge
              /\ todo' = [todo EXCEPT ![p] = seen[p][W(p)]]
              /\ Goto(p, "slots") /\ UNCHANGED <<asked, guard, dest, cut>>
           \/ ~op[p].purge /\ Returns(p, "idle")
     \/ Returns(p, "idle") /\ UNCHANGED manifest
  /\ UNCHANGED <<disk, lock, broken>>

(* removeWorkspaceSlot as a purge calls it: with the lock, or without. *)
PurgeSlot(p) ==
  /\ pc[p] = "purge" \/ (pc[p] = "lock" /\ op[p].kind = "destroy")
  /\ \E removes \in BOOLEAN : slot' = IF removes THEN Removed(S(p), dest[p].slot) ELSE slot
  /\ IF pc[p] = "purge" THEN lock' = None /\ Prunes(p, slot') ELSE UNCHANGED <<lock, reg>>
  /\ NextSlot(p)
  /\ UNCHANGED <<cut, dir, stage, manifest, broken>>

PurgeDir(p) ==
  /\ pc[p] = "slots" /\ op[p].kind = "destroy" /\ todo[p] = {}
  /\ \/ /\ dir[W(p)] = guard[p]
        /\ dir' = [dir EXCEPT ![W(p)] = None] /\ slot' = Emptied(W(p))
     \/ UNCHANGED <<dir, slot>>
  /\ Returns(p, "idle")
  /\ UNCHANGED <<reg, stage, manifest, lock, broken>>

-----------------------------------------------------------------------------
(* Around them: kills and people.                                             *)

Kill(p) ==
  /\ pc[p] \notin Resting /\ Returns(p, "idle")
  /\ lock' = IF lock = p THEN None ELSE lock
  /\ Breaks(p, TRUE)
  /\ UNCHANGED <<disk, manifest>>

(* A destroy that has looked at a slot takes what is written then for nothing. *)
Passed(s) == \E p \in Procs :
  /\ op[p].kind = "destroy" /\ pc[p] \notin Resting /\ W(p) = HomeOf(s)
  /\ pc[p] # "check" \/ s \notin todo[p]

(* People work in checkouts that no operation is still making. *)
Work(s) ==
  /\ slot[s].at = "checkout" /\ slot[s].by \notin Live /\ slot[s].work = "clean"
  /\ slot' = [slot EXCEPT ![s].work = IF Passed(s) THEN "late" ELSE "work"]
  /\ UNCHANGED <<going, dir, reg, stage, manifest, lock, broken>>

PushWork(s) ==
  /\ slot[s].work # "clean" /\ slot' = [slot EXCEPT ![s].work = "clean"]
  /\ UNCHANGED <<going, dir, reg, stage, manifest, lock, broken>>

Delete(s) ==
  /\ slot[s].at # "none" /\ slot[s].by \notin Live /\ slot' = [slot EXCEPT ![s] = NoSlot]
  /\ UNCHANGED <<going, dir, reg, stage, manifest, lock, broken>>

(* The system clears its temporary directory of what a killed create left.    *)
CleanTemp(s) ==
  /\ stage[s] # None /\ stage[s] \notin Live /\ stage' = [stage EXCEPT ![s] = None]
  /\ UNCHANGED <<going, dir, slot, reg, manifest, lock, broken>>

Step(p) ==
  \/ \E w \in Workspaces :
       \/ \E sync \in BOOLEAN : CreateBegins(p, w, sync)
       \/ \E purge \in BOOLEAN : DestroyBegins(p, w, purge)
       \/ RepairBegins(p, w)
  \/ MakeDir(p) \/ LookAtSlot(p) \/ LookAtSlotFails(p) \/ TakeLock(p) \/ LockFails(p) \/ Settle(p)
  \/ Stage(p) \/ Install(p) \/ Register(p) \/ AddFails(p) \/ Ready(p) \/ RepairEnds(p)
  \/ Render(p) \/ Save(p) \/ SaveState(p) \/ SaveStateFails(p)
  \/ UndoSlot(p) \/ UndoSlotUnlocked(p) \/ UndoDir(p)
  \/ CheckSlot(p) \/ DestroySaves(p) \/ PurgeSlot(p) \/ PurgeDir(p)
  \/ Kill(p)

People(s) == Work(s) \/ PushWork(s) \/ Delete(s) \/ CleanTemp(s)

(* Two operations meet when one begins on a workspace that another process is *)
(* at work on, or where a create of another process has failed: what that one *)
(* left is from then on the new one's to change.                              *)
Meets(p) ==
  LET others == {q \in Procs \ {p} : pc[q] # "idle" /\ W(q) = op'[p].w}
      at_work == {q \in others : pc[q] \notin Resting} IN
  crowded' = IF op'[p].n = op[p].n THEN crowded
             ELSE crowded \cup {Me(q) : q \in others} \cup {<<p, op'[p].n>> : q \in at_work}

Next == \/ \E p \in Procs : Step(p) /\ Meets(p)
        \/ \E s \in Slots : People(s) /\ UNCHANGED crowded

Spec == Init /\ [][Next]_vars

-----------------------------------------------------------------------------
(* Properties.                                                                *)

Places == Resting \cup {"mkdir", "slots", "lock", "settle", "add", "install", "register", "ready",
                        "save", "state", "undo", "remove", "check", "purge"}
UnderLock == {"settle", "add", "install", "register", "remove", "purge"}

(* Types, and who holds the cache's lock: exactly who is at work on the cache. *)
TypeOK ==
  /\ pc \in [Procs -> Places]
  /\ dir \in [Workspaces -> {None} \cup Ids]
  /\ slot \in [Slots -> [at : {"none", "checkout", "stray"}, by : Ids, work : {"clean", "work", "late"}]]
  /\ reg \in [Slots -> {"none", "stage", "slot"}] /\ stage \in [Slots -> {None} \cup Ids]
  /\ broken \subseteq Ids /\ crowded \subseteq Ids
  /\ \A w \in Workspaces : manifest[w] = NoEntry \/ manifest[w] \subseteq SlotSet(w)
  /\ \A p \in Procs : pc[p] \in UnderLock <=> lock = p

(* A create that fails, and whose removals all went through, leaves of its    *)
(* own neither a checkout nor a stage and, if it has met no other operation   *)
(* on the workspace, neither the directory nor another entry than there was.  *)
FailedCreateLeavesNothing ==
  \A p \in Procs : (pc[p] = "failed" /\ op[p].kind = "create" /\ Me(p) \notin broken) =>
    /\ \A s \in SlotSet(W(p)) : slot[s].by # Me(p) /\ stage[s] # Me(p)
    /\ Me(p) \notin crowded => dir[W(p)] # Me(p) /\ manifest[W(p)] = seen[p][W(p)]

(* However the operations on the slots of one cache fall together, the        *)
(* registration of a worktree that is being added is there until it names the *)
(* slot's path, whatever others prune, and a checkout stays registered then.  *)
CheckoutsStayRegistered ==
  /\ \A p \in Procs : pc[p] \in {"install", "register"} => reg[S(p)] = "stage"
  /\ \A s \in Slots :
       (slot[s].at = "checkout" /\ slot[s].by \notin Live \cup broken) => reg[s] = "slot"

(* An entry of angee.yaml changes only by an operation on its workspace: no   *)
(* save of another process, and no rollback of one, is lost or undone.        *)
SavesAreKept == [][\A w \in Workspaces :
  manifest'[w] # manifest[w] => \E p \in Procs : W(p) = w /\ pc'[p] # pc[p]]_vars

(* Work that was in a slot before a destroy looked at it is never deleted by  *)
(* an operation, but for what is asked for (a create with --sync reclaims the *)
(* slot, a purge takes the slots its entry does not record with the           *)
(* directory), and but for what the rollback of a create removes with the     *)
(* directory it has made when another operation has met it there.             *)
WorkSurvives == [][going' # going =>
  \A s \in Slots : (slot[s].work = "work" /\ slot'[s] # slot[s]) =>
    \E p \in Procs :
      \/ op[p].sync /\ pc[p] = "settle" /\ S(p) = s
      \/ op[p].purge /\ pc[p] = "slots" /\ W(p) = HomeOf(s) /\ s \notin seen[p][W(p)]
      \/ Me(p) \in crowded /\ pc[p] = "undo" /\ cut[p] = <<>> /\ W(p) = HomeOf(s)]_vars

=============================================================================
