---------------------- MODULE WorkspaceLifecycle_proofs ----------------------
(***************************************************************************)
(* What creates, repairs and destroys keep, for any processes, workspaces,   *)
(* slots, failures, kills and work of people, however the processes share    *)
(* the workspaces.  What holds of an operation only while no other process   *)
(* has met it on its workspace comes last.                                   *)
(***************************************************************************)
EXTENDS WorkspaceLifecycle, SequenceTheorems, WellFoundedInduction, TLAPS

-----------------------------------------------------------------------------
(* The invariant, in parts.                                                  *)

Kinds == {"none", "create", "repair", "destroy"}
Asks == [n : 0..MaxOps, kind : Kinds, w : Workspaces \cup {None}, sync : BOOLEAN, purge : BOOLEAN]
SlotStates == [at : {"none", "checkout", "stray"}, by : Ids, work : {"clean", "work", "late"}]
Manifests == [Workspaces -> SUBSET (Slots \cup {None})]
IsEntry(e, w) == e = NoEntry \/ e \subseteq SlotSet(w)

PcType == pc \in [Procs -> Places]
OpType == op \in [Procs -> Asks]
EntryType ==
  /\ manifest \in Manifests /\ \A w \in Workspaces : IsEntry(manifest[w], w)
  /\ seen \in [Procs -> Manifests] /\ \A p \in Procs : \A w \in Workspaces : IsEntry(seen[p][w], w)
GuardType ==
  /\ guard \in [Procs -> {None} \cup Ids]
  /\ dest \in [Procs -> [slot : SlotStates, dir : {None} \cup Ids]]
TodoType == todo \in [Procs -> SUBSET Slots] /\ \A p \in Procs : \A s \in todo[p] : s \in SlotSet(W(p))
CutType == cut \in [Procs -> Seq(Slots)] /\ \A p \in Procs : \A s \in ToSet(cut[p]) : s \in SlotSet(W(p))
DirType == dir \in [Workspaces -> {None} \cup Ids]
SlotType == slot \in [Slots -> SlotStates]
RegType == reg \in [Slots -> {"none", "stage", "slot"}] /\ stage \in [Slots -> {None} \cup Ids]
MarkType == lock \in Procs \cup {None} /\ broken \subseteq Ids

(* Who is at work on the cache holds its lock, and so is the only one.        *)
LockInv == \A p \in Procs : pc[p] \in UnderLock <=> lock = p

(* Which operation may be where, on what it was asked about, with a slot at   *)
(* hand where it works on one.                                                *)
KindOf(p) ==
  /\ pc[p] = "idle" => op[p].kind = "none"
  /\ pc[p] # "idle" => op[p].kind # "none" /\ <<p, W(p)>> \in Serves /\ op[p].n > 0
  /\ pc[p] \in {"mkdir", "save", "state"} => op[p].kind = "create"
  /\ pc[p] = "failed" => op[p].kind = "create"
  /\ pc[p] = "ready" => op[p].kind = "repair"
  /\ pc[p] \in {"settle", "add", "install", "register", "undo", "remove"}
       => op[p].kind \in {"create", "repair"}
  /\ pc[p] \in {"check", "purge"} => op[p].kind = "destroy"
  /\ pc[p] \notin {"idle", "check"} /\ op[p].kind = "destroy" => op[p].purge
  /\ pc[p] # "idle" /\ op[p].kind = "repair" => guard[p] # None
KindInv == \A p \in Procs : KindOf(p)
HandOf(p) ==
  /\ pc[p] \in {"lock", "settle", "add", "install", "register", "purge"} => todo[p] # {}
  /\ pc[p] \in {"ready", "remove"} => cut[p] # <<>>
  /\ pc[p] = "undo" /\ op[p].kind = "repair" => cut[p] # <<>>
  /\ pc[p] \in Resting => cut[p] = <<>>
HandInv == \A p \in Procs : HandOf(p)

(* Whatever was made was made by an operation that has begun: numbers of      *)
(* operations are new.                                                        *)
Known(id) == id \in {Old, None} \/ id[2] <= op[id[1]].n
KnownInv ==
  /\ \A w \in Workspaces : Known(dir[w])
  /\ \A s \in Slots : Known(slot[s].by) /\ Known(stage[s])
  /\ \A id \in broken : Known(id)

(* A worktree that is being added is registered at its stage. A checkout that *)
(* nothing is broken about is registered at its path, but for the one that is *)
(* just being installed.                                                      *)
StageOf(p) ==
  pc[p] \in {"install", "register"} => reg[S(p)] = "stage" /\ stage[S(p)] = Me(p)
StageInv == \A p \in Procs : StageOf(p)
RegInv == \A s \in Slots :
  slot[s].at = "checkout" /\ slot[s].by \notin broken =>
    \/ reg[s] = "slot"
    \/ \E p \in Procs : slot[s].by = Me(p) /\ pc[p] = "register" /\ S(p) = s

(* A slot that is empty holds nothing, and so does one whose directory is not *)
(* there. What is still being made holds no work.                             *)
EmptyInv ==
  /\ \A s \in Slots : slot[s].at = "none" => slot[s] = NoSlot
  /\ \A s \in Slots : slot[s].by # Old => slot[s].at = "checkout"
  /\ \A w \in Workspaces : dir[w] = None => \A s \in SlotSet(w) : slot[s] = NoSlot
CleanOf(p) == pc[p] \notin Resting =>
  \A s \in Slots : slot[s].by = Me(p) => slot[s].work = "clean"
CleanInv == \A p \in Procs : CleanOf(p)

(* Only a create with --sync takes a slot that holds something.               *)
DestOf(p) ==
  /\ pc[p] \in {"add", "install"} => dest[p].slot.at = "none"
  /\ pc[p] \in {"lock", "settle"} /\ op[p].kind # "destroy" /\ ~op[p].sync => dest[p].slot.at = "none"
DestInv == \A p \in Procs : DestOf(p)

(* A destroy goes through what the entry it read records, and a slot it is    *)
(* past holds no work that was there before.                                  *)
PastOf(p) == pc[p] # "idle" /\ op[p].kind = "destroy" =>
  /\ todo[p] \subseteq seen[p][W(p)] /\ seen[p][W(p)] # NoEntry
  /\ \A s \in seen[p][W(p)] : pc[p] # "check" \/ s \notin todo[p] => slot[s].work # "work"
PastInv == \A p \in Procs : PastOf(p)

(* What an operation has staged, and what a create has cut, is on its books.  *)
StagedOf(p) == pc[p] # "idle" => \A s \in Slots :
  stage[s] = Me(p) => Me(p) \in broken \/ (pc[p] \in {"install", "register"} /\ S(p) = s)
StagedInv == \A p \in Procs : StagedOf(p)
CutOf(p) == pc[p] # "idle" /\ op[p].kind = "create" => \A s \in Slots :
  slot[s].by = Me(p) => Me(p) \in broken \/ s \in ToSet(cut[p]) \/ (pc[p] = "register" /\ S(p) = s)
CutInv == \A p \in Procs : CutOf(p)

TypeInv == /\ PcType /\ OpType /\ EntryType /\ GuardType /\ TodoType /\ CutType
           /\ DirType /\ SlotType /\ RegType /\ MarkType
SharedInv == /\ LockInv /\ KindInv /\ HandInv /\ KnownInv /\ StageInv /\ RegInv
             /\ EmptyInv /\ CleanInv /\ DestInv /\ PastInv /\ StagedInv /\ CutInv

(* Of two processes on one workspace, one of them at work, both have met the  *)
(* other, or the one that is not has been met where its create failed.        *)
CrowdInv ==
  /\ crowded \subseteq Procs \X (1..MaxOps)
  /\ \A p, q \in Procs :
       p # q /\ pc[p] \notin Resting /\ pc[q] # "idle" /\ W(p) = W(q) => Me(q) \in crowded
IInv == TypeInv /\ SharedInv /\ CrowdInv

(* A create that nobody has met, and that found no directory, is alone in its *)
(* own, and the entry is as it was read until it is saved.                    *)
Creating(p) == op[p].kind = "create" /\ pc[p] \notin {"idle", "mkdir", "failed"}
DirOf(p) ==
  /\ pc[p] # "idle" /\ op[p].kind = "create" => guard[p] # Me(p)
  /\ pc[p] = "mkdir" => dir[W(p)] # Me(p)
  /\ Creating(p) => dir[W(p)] # None /\ (guard[p] # None => dir[W(p)] # Me(p))
  /\ pc[p] = "failed" /\ op[p].kind = "create" => dir[W(p)] # Me(p) \/ Me(p) \in broken
DirInv == \A p \in Procs : Me(p) \notin crowded => DirOf(p)
OwnOf(p) == Creating(p) /\ guard[p] = None =>
  \A s \in SlotSet(W(p)) : slot[s] = NoSlot \/ slot[s].by = Me(p)
OwnInv == \A p \in Procs : Me(p) \notin crowded => OwnOf(p)
SavedOf(p) ==
  op[p].kind = "create" /\ pc[p] \notin {"idle", "state"} /\ Me(p) \notin broken
    => manifest[W(p)] = seen[p][W(p)]
SavedInv == \A p \in Procs : Me(p) \notin crowded => SavedOf(p)
AloneInv == DirInv /\ OwnInv /\ SavedInv

-----------------------------------------------------------------------------
(* What the assumption says of slots, and which slot is next.                 *)

LEMMA LeastNat == ASSUME NEW T, T \subseteq Nat, T # {} PROVE \E x \in T : \A y \in T : x <= y
<1> DEFINE R == OpToRel(<, Nat)
<1>1. IsWellFoundedOn(R, Nat)
  BY NatLessThanWellFounded
<1>2. \A x, y \in Nat : x < y => <<x, y>> \in R
  BY DEF OpToRel
<1> HIDE DEF R
<1>3. PICK x \in T : \A y \in T : ~ (<<y, x>> \in R)
  BY <1>1, WFMin
<1>4. ASSUME NEW y \in T PROVE x <= y
  <2>1. x \in Nat /\ y \in Nat /\ ~ (y < x)
    BY <1>2, <1>3, <1>4
  <2> QED BY <2>1
<1> QED BY <1>4

LEMMA NextFacts ==
  ASSUME NEW w \in Workspaces, NEW R \in SUBSET SlotSet(w), R # {}
  PROVE  NextOf(R, w) \in R
<1> DEFINE T == {i \in DOMAIN SlotsOf[w] : SlotsOf[w][i] \in R}
<1>1. SlotsOf[w] \in Seq(SlotSet(w))
  BY WorkspaceAssumption
<1>2. T \subseteq Nat
  BY <1>1
<1>3. T # {}
  BY DEF SlotSet, ToSet
<1>4. PICK i \in T : \A j \in T : i <= j
  BY <1>2, <1>3, LeastNat
<1>5. \E s \in R : \E k \in DOMAIN SlotsOf[w] :
        SlotsOf[w][k] = s /\ \A j \in DOMAIN SlotsOf[w] : SlotsOf[w][j] \in R => k <= j
  BY <1>4
<1> QED BY <1>5 DEF NextOf

LEMMA SlotFacts ==
  /\ \A w \in Workspaces : SlotSet(w) \subseteq Slots
  /\ \A w \in Workspaces : \A s \in SlotSet(w) : HomeOf(s) = w
  /\ \A s \in Slots : HomeOf(s) \in Workspaces /\ s \in SlotSet(HomeOf(s))
<1>1. \A w \in Workspaces : SlotSet(w) \subseteq Slots
  BY DEF Slots
<1>2. ASSUME NEW w \in Workspaces, NEW s \in SlotSet(w) PROVE HomeOf(s) = w
  BY WorkspaceAssumption DEF HomeOf
<1>3. ASSUME NEW s \in Slots PROVE HomeOf(s) \in Workspaces /\ s \in SlotSet(HomeOf(s))
  BY DEF HomeOf, Slots
<1> QED BY <1>1, <1>2, <1>3

(* The slot at hand is one of the workspace's that are still to be looked at.  *)
LEMMA HandFacts ==
  ASSUME OpType, TodoType, KindInv, NEW p \in Procs, pc[p] # "idle", todo[p] # {}
  PROVE  S(p) \in todo[p] /\ S(p) \in SlotSet(W(p)) /\ S(p) \in Slots /\ W(p) \in Workspaces
<1>1. W(p) \in Workspaces
  BY WorkspaceAssumption DEF KindInv, KindOf
<1>2. todo[p] \in SUBSET SlotSet(W(p))
  BY DEF TodoType
<1>3. NextOf(todo[p], W(p)) \in todo[p]
  BY <1>1, <1>2, NextFacts
<1> QED BY <1>1, <1>2, <1>3, SlotFacts DEF S

LEMMA OldFacts ==
  /\ Old \in Ids /\ None \notin Ids /\ NoSlot \in SlotStates
  /\ NoDest \in [slot : SlotStates, dir : {None} \cup Ids]
  /\ \A id \in Ids : Checkout(id) \in SlotStates
<1>1. Old \in Ids /\ None \notin Ids
  BY WorkspaceAssumption DEF Ids
<1>2. NoSlot \in SlotStates
  BY <1>1 DEF NoSlot, SlotStates
<1>3. ASSUME NEW id \in Ids PROVE Checkout(id) \in SlotStates
  BY <1>3 DEF Checkout, SlotStates
<1> QED BY <1>1, <1>2, <1>3 DEF NoDest

LEMMA SlotFields ==
  /\ NoSlot.at = "none" /\ NoSlot.by = Old /\ NoSlot.work = "clean"
  /\ \A id : Checkout(id).at = "checkout" /\ Checkout(id).by = id /\ Checkout(id).work = "clean"
  BY DEF NoSlot, Checkout

LEMMA MeFacts == ASSUME OpType, KindInv, NEW p \in Procs, pc[p] # "idle" PROVE Me(p) \in Ids
<1>1. op[p].n \in 0..MaxOps /\ op[p].n > 0
  BY DEF OpType, Asks, KindInv, KindOf
<1>2. op[p].n \in 1..MaxOps
  BY <1>1, WorkspaceAssumption
<1> QED BY <1>2 DEF Me, Ids

LEMMA WFacts == ASSUME KindInv, NEW p \in Procs, pc[p] # "idle" PROVE W(p) \in Workspaces
  BY WorkspaceAssumption DEF KindInv, KindOf

LEMMA RestFacts ==
  ASSUME NEW o \in Asks
  PROVE  /\ [NoOp EXCEPT !.n = o.n] \in Asks
         /\ [NoOp EXCEPT !.n = o.n].n = o.n /\ [NoOp EXCEPT !.n = o.n].kind = "none"
         /\ [NoOp EXCEPT !.n = o.n].w = None
  BY DEF NoOp, Asks, Kinds

-----------------------------------------------------------------------------
(* Types: each part is preserved, by the helpers first.                       *)

LEMMA RestTyped ==
  ASSUME OpType, GuardType, TodoType, CutType, NEW p \in Procs, NEW place \in Resting, Returns(p, place)
  PROVE  OpType' /\ GuardType' /\ TodoType' /\ CutType'
<1> USE OpType, GuardType, TodoType, CutType DEF Returns, locals
<1>1. OpType'
  <2>1. [NoOp EXCEPT !.n = op[p].n] \in Asks
    BY RestFacts DEF OpType
  <2>2. op' = op \/ op' = [op EXCEPT ![p] = [NoOp EXCEPT !.n = op[p].n]]
    BY DEF asked
  <2> QED BY <2>1, <2>2 DEF OpType
<1>2. GuardType'
  BY OldFacts DEF GuardType
<1>3. TodoType'
  <2>1. \A q \in Procs \ {p} : W(q)' = W(q) /\ todo'[q] = todo[q]
    BY DEF W, OpType, TodoType, asked
  <2>2. todo'[p] = {} /\ todo' \in [Procs -> SUBSET Slots]
    BY DEF TodoType
  <2> QED BY <2>1, <2>2 DEF TodoType
<1>4. CutType'
  <2>1. \A q \in Procs \ {p} : W(q)' = W(q) /\ cut'[q] = cut[q]
    BY DEF W, OpType, CutType, asked
  <2>2. cut'[p] = <<>> /\ cut' \in [Procs -> Seq(Slots)]
    BY DEF CutType
  <2>3. ToSet(cut'[p]) = {}
    BY <2>2 DEF ToSet
  <2> QED BY <2>1, <2>2, <2>3 DEF CutType
<1> QED BY <1>1, <1>2, <1>3, <1>4

LEMMA NextTyped ==
  ASSUME OpType, GuardType, TodoType, NEW p \in Procs, NextSlot(p)
  PROVE  OpType' /\ GuardType' /\ TodoType'
<1> USE OpType, GuardType, TodoType DEF NextSlot, asked
<1>1. OpType'
  BY DEF OpType
<1>2. GuardType'
  BY OldFacts DEF GuardType
<1>3. TodoType'
  BY DEF TodoType, W
<1> QED BY <1>1, <1>2, <1>3

LEMMA FailsTyped ==
  ASSUME OpType, GuardType, TodoType, CutType, NEW p \in Procs, SlotFails(p)
  PROVE  OpType' /\ GuardType' /\ TodoType' /\ CutType'
<1>1. CASE NextSlot(p)
  <2>1. CutType'
    BY <1>1 DEF SlotFails, NextSlot, CutType, W, asked
  <2> QED BY <1>1, <2>1, NextTyped
<1>2. CASE ~NextSlot(p)
  <2>1. UNCHANGED <<op, guard, dest, todo, cut>>
    BY <1>2 DEF SlotFails, Goes, asked, locals
  <2> QED BY <2>1 DEF OpType, GuardType, TodoType, CutType, W
<1> QED BY <1>1, <1>2

LEMMA RemovedTyped == ASSUME SlotType, NEW s \in Slots, NEW captured PROVE Removed(s, captured) \in [Slots -> SlotStates]
  BY OldFacts DEF SlotType, Removed

LEMMA PcStep ==
  ASSUME PcType, [Next]_vars
  PROVE  PcType'
<1> USE PcType, WorkspaceAssumption DEF PcType, Places, Resting, asked, locals, going, disk
<1>1. ASSUME NEW p \in Procs, NEW w \in Workspaces, NEW sync \in BOOLEAN,
             CreateBegins(p, w, sync)
      PROVE  PcType'
  BY <1>1 DEF CreateBegins, Begin, Goto
<1>2. ASSUME NEW p \in Procs, NEW w \in Workspaces, NEW purge \in BOOLEAN,
             DestroyBegins(p, w, purge)
      PROVE  PcType'
  BY <1>2 DEF DestroyBegins, Begin, Goto
<1>3. ASSUME NEW p \in Procs, NEW w \in Workspaces, RepairBegins(p, w)
      PROVE  PcType'
  BY <1>3 DEF RepairBegins, Begin, Goto
<1>4. ASSUME NEW p \in Procs, MakeDir(p) PROVE PcType'
  BY <1>4 DEF MakeDir, Goes, Goto, Returns
<1>5. ASSUME NEW p \in Procs, LookAtSlot(p) PROVE PcType'
  BY <1>5 DEF LookAtSlot, NextSlot, SlotFails, Goes, Goto
<1>6. ASSUME NEW p \in Procs, LookAtSlotFails(p) PROVE PcType'
  BY <1>6 DEF LookAtSlotFails, NextSlot, SlotFails, Goes, Goto
<1>7. ASSUME NEW p \in Procs, TakeLock(p) PROVE PcType'
  BY <1>7 DEF TakeLock, Goes, Goto
<1>8. ASSUME NEW p \in Procs, LockFails(p) PROVE PcType'
  BY <1>8 DEF LockFails, NextSlot, SlotFails, Goes, Goto
<1>9. ASSUME NEW p \in Procs, Settle(p) PROVE PcType'
  BY <1>9 DEF Settle, NextSlot, SlotFails, Goes, Goto
<1>10. ASSUME NEW p \in Procs, Stage(p) PROVE PcType'
  BY <1>10 DEF Stage, NextSlot, SlotFails, Goes, Goto
<1>11. ASSUME NEW p \in Procs, Install(p) PROVE PcType'
  BY <1>11 DEF Install, Goes, Goto
<1>12. ASSUME NEW p \in Procs, Register(p) PROVE PcType'
  BY <1>12 DEF Register, NextSlot, Goto
<1>13. ASSUME NEW p \in Procs, AddFails(p) PROVE PcType'
  BY <1>13 DEF AddFails, NextSlot, SlotFails, Goes, Goto
<1>14. ASSUME NEW p \in Procs, Ready(p) PROVE PcType'
  BY <1>14 DEF Ready, NextSlot, Goes, Goto
<1>15. ASSUME NEW p \in Procs, RepairEnds(p) PROVE PcType'
  BY <1>15 DEF RepairEnds, Returns, Goto
<1>16. ASSUME NEW p \in Procs, Render(p) PROVE PcType'
  BY <1>16 DEF Render, Goes, Goto
<1>17. ASSUME NEW p \in Procs, Save(p) PROVE PcType'
  BY <1>17 DEF Save, Goes, Goto
<1>18. ASSUME NEW p \in Procs, SaveState(p) PROVE PcType'
  BY <1>18 DEF SaveState, Returns, Goto
<1>19. ASSUME NEW p \in Procs, SaveStateFails(p) PROVE PcType'
  BY <1>19 DEF SaveStateFails, Goes, Goto
<1>20. ASSUME NEW p \in Procs, UndoSlot(p) PROVE PcType'
  BY <1>20 DEF UndoSlot, AfterUndo, NextSlot, Goto
<1>21. ASSUME NEW p \in Procs, UndoSlotUnlocked(p) PROVE PcType'
  BY <1>21 DEF UndoSlotUnlocked, AfterUndo, NextSlot, Goto
<1>22. ASSUME NEW p \in Procs, UndoDir(p) PROVE PcType'
  BY <1>22 DEF UndoDir, Returns, Goto
<1>23. ASSUME NEW p \in Procs, CheckSlot(p) PROVE PcType'
  BY <1>23 DEF CheckSlot, Returns, Goto
<1>24. ASSUME NEW p \in Procs, DestroySaves(p) PROVE PcType'
  BY <1>24 DEF DestroySaves, Returns, Goto
<1>25. ASSUME NEW p \in Procs, PurgeSlot(p) PROVE PcType'
  BY <1>25 DEF PurgeSlot, NextSlot, Goto
<1>26. ASSUME NEW p \in Procs, PurgeDir(p) PROVE PcType'
  BY <1>26 DEF PurgeDir, Returns, Goto
<1>27. ASSUME NEW p \in Procs, Kill(p) PROVE PcType'
  BY <1>27 DEF Kill, Returns, Goto
<1>28. ASSUME NEW s \in Slots, People(s) PROVE PcType'
  BY <1>28 DEF People, Work, PushWork, Delete, CleanTemp
<1>29. CASE UNCHANGED vars
  BY <1>29 DEF vars
<1> HIDE DEF PcType, Places, Resting, asked, locals, going, disk
<1> QED BY <1>1, <1>2, <1>3, <1>4, <1>5, <1>6, <1>7, <1>8, <1>9, <1>10, <1>11, <1>12,
           <1>13, <1>14, <1>15, <1>16, <1>17, <1>18, <1>19, <1>20, <1>21, <1>22, <1>23, <1>24,
           <1>25, <1>26, <1>27, <1>28, <1>29 DEF Next, Step

LEMMA OpStep ==
  ASSUME PcType, OpType, GuardType, TodoType, CutType, [Next]_vars
  PROVE  OpType'
<1> USE PcType, OpType, GuardType, TodoType, CutType, WorkspaceAssumption, RestTyped, NextTyped, FailsTyped DEF PcType, OpType, Resting, asked, locals, going, disk
<1>1. ASSUME NEW p \in Procs, NEW w \in Workspaces, NEW sync \in BOOLEAN,
             CreateBegins(p, w, sync)
      PROVE  OpType'
  <2>1. op[p].n + 1 \in 0..MaxOps
    BY <1>1 DEF CreateBegins, Begin, Asks
  <2> QED BY <1>1, <2>1 DEF CreateBegins, Begin, Asks, Kinds
<1>2. ASSUME NEW p \in Procs, NEW w \in Workspaces, NEW purge \in BOOLEAN,
             DestroyBegins(p, w, purge)
      PROVE  OpType'
  <2>1. op[p].n + 1 \in 0..MaxOps
    BY <1>2 DEF DestroyBegins, Begin, Asks
  <2> QED BY <1>2, <2>1 DEF DestroyBegins, Begin, Asks, Kinds
<1>3. ASSUME NEW p \in Procs, NEW w \in Workspaces, RepairBegins(p, w)
      PROVE  OpType'
  <2>1. op[p].n + 1 \in 0..MaxOps
    BY <1>3 DEF RepairBegins, Begin, Asks
  <2> QED BY <1>3, <2>1 DEF RepairBegins, Begin, Asks, Kinds
<1>4. ASSUME NEW p \in Procs, MakeDir(p) PROVE OpType'
  BY <1>4 DEF MakeDir, Goes, Goto
<1>5. ASSUME NEW p \in Procs, LookAtSlot(p) PROVE OpType'
  BY <1>5 DEF LookAtSlot, Goes, Goto
<1>6. ASSUME NEW p \in Procs, LookAtSlotFails(p) PROVE OpType'
  BY <1>6 DEF LookAtSlotFails, Goes, Goto
<1>7. ASSUME NEW p \in Procs, TakeLock(p) PROVE OpType'
  BY <1>7 DEF TakeLock, Goes, Goto
<1>8. ASSUME NEW p \in Procs, LockFails(p) PROVE OpType'
  BY <1>8 DEF LockFails, Goes, Goto
<1>9. ASSUME NEW p \in Procs, Settle(p) PROVE OpType'
  BY <1>9 DEF Settle, Goes, Goto
<1>10. ASSUME NEW p \in Procs, Stage(p) PROVE OpType'
  BY <1>10 DEF Stage, Goes, Goto
<1>11. ASSUME NEW p \in Procs, Install(p) PROVE OpType'
  BY <1>11 DEF Install, Goes, Goto
<1>12. ASSUME NEW p \in Procs, Register(p) PROVE OpType'
  BY <1>12 DEF Register, Goto
<1>13. ASSUME NEW p \in Procs, AddFails(p) PROVE OpType'
  BY <1>13 DEF AddFails, Goes, Goto
<1>14. ASSUME NEW p \in Procs, Ready(p) PROVE OpType'
  BY <1>14 DEF Ready, Goes, Goto
<1>15. ASSUME NEW p \in Procs, RepairEnds(p) PROVE OpType'
  BY <1>15 DEF RepairEnds, Goto
<1>16. ASSUME NEW p \in Procs, Render(p) PROVE OpType'
  BY <1>16 DEF Render, Goes, Goto
<1>17. ASSUME NEW p \in Procs, Save(p) PROVE OpType'
  BY <1>17 DEF Save, Goes, Goto
<1>18. ASSUME NEW p \in Procs, SaveState(p) PROVE OpType'
  BY <1>18 DEF SaveState, Goto
<1>19. ASSUME NEW p \in Procs, SaveStateFails(p) PROVE OpType'
  BY <1>19 DEF SaveStateFails, Goes, Goto
<1>20. ASSUME NEW p \in Procs, UndoSlot(p) PROVE OpType'
  BY <1>20 DEF UndoSlot, AfterUndo, Goto
<1>21. ASSUME NEW p \in Procs, UndoSlotUnlocked(p) PROVE OpType'
  BY <1>21 DEF UndoSlotUnlocked, AfterUndo, Goto
<1>22. ASSUME NEW p \in Procs, UndoDir(p) PROVE OpType'
  BY <1>22 DEF UndoDir, Goto
<1>23. ASSUME NEW p \in Procs, CheckSlot(p) PROVE OpType'
  BY <1>23 DEF CheckSlot, Goto
<1>24. ASSUME NEW p \in Procs, DestroySaves(p) PROVE OpType'
  BY <1>24 DEF DestroySaves, Goto
<1>25. ASSUME NEW p \in Procs, PurgeSlot(p) PROVE OpType'
  BY <1>25 DEF PurgeSlot, Goto
<1>26. ASSUME NEW p \in Procs, PurgeDir(p) PROVE OpType'
  BY <1>26 DEF PurgeDir, Goto
<1>27. ASSUME NEW p \in Procs, Kill(p) PROVE OpType'
  BY <1>27 DEF Kill, Goto
<1>28. ASSUME NEW s \in Slots, People(s) PROVE OpType'
  BY <1>28 DEF People, Work, PushWork, Delete, CleanTemp
<1>29. CASE UNCHANGED vars
  BY <1>29 DEF vars
<1> HIDE DEF PcType, OpType, Resting, asked, locals, going, disk
<1> QED BY <1>1, <1>2, <1>3, <1>4, <1>5, <1>6, <1>7, <1>8, <1>9, <1>10, <1>11, <1>12,
           <1>13, <1>14, <1>15, <1>16, <1>17, <1>18, <1>19, <1>20, <1>21, <1>22, <1>23, <1>24,
           <1>25, <1>26, <1>27, <1>28, <1>29 DEF Next, Step

LEMMA GuardStep ==
  ASSUME PcType, KindInv, HandInv, DirType, SlotType, OpType, GuardType, TodoType, CutType, [Next]_vars
  PROVE  GuardType'
<1> USE PcType, KindInv, HandInv, DirType, SlotType, OpType, GuardType, TodoType, CutType, WorkspaceAssumption, OldFacts, HandFacts, RestTyped, NextTyped, FailsTyped DEF PcType, GuardType, DirType, SlotType, Resting, asked, locals, going, disk
<1>1. ASSUME NEW p \in Procs, NEW w \in Workspaces, NEW sync \in BOOLEAN,
             CreateBegins(p, w, sync)
      PROVE  GuardType'
  BY <1>1 DEF CreateBegins, Begin, Goto
<1>2. ASSUME NEW p \in Procs, NEW w \in Workspaces, NEW purge \in BOOLEAN,
             DestroyBegins(p, w, purge)
      PROVE  GuardType'
  BY <1>2 DEF DestroyBegins, Begin, Goto
<1>3. ASSUME NEW p \in Procs, NEW w \in Workspaces, RepairBegins(p, w)
      PROVE  GuardType'
  BY <1>3 DEF RepairBegins, Begin, Goto
<1>4. ASSUME NEW p \in Procs, MakeDir(p) PROVE GuardType'
  BY <1>4 DEF MakeDir, Goes, Goto
<1>5. ASSUME NEW p \in Procs, LookAtSlot(p) PROVE GuardType'
  BY <1>5 DEF LookAtSlot, Goes, Goto
<1>6. ASSUME NEW p \in Procs, LookAtSlotFails(p) PROVE GuardType'
  BY <1>6 DEF LookAtSlotFails, Goes, Goto
<1>7. ASSUME NEW p \in Procs, TakeLock(p) PROVE GuardType'
  BY <1>7 DEF TakeLock, Goes, Goto
<1>8. ASSUME NEW p \in Procs, LockFails(p) PROVE GuardType'
  BY <1>8 DEF LockFails, Goes, Goto
<1>9. ASSUME NEW p \in Procs, Settle(p) PROVE GuardType'
  BY <1>9 DEF Settle, Goes, Goto
<1>10. ASSUME NEW p \in Procs, Stage(p) PROVE GuardType'
  BY <1>10 DEF Stage, Goes, Goto
<1>11. ASSUME NEW p \in Procs, Install(p) PROVE GuardType'
  BY <1>11 DEF Install, Goes, Goto
<1>12. ASSUME NEW p \in Procs, Register(p) PROVE GuardType'
  BY <1>12 DEF Register, Goto
<1>13. ASSUME NEW p \in Procs, AddFails(p) PROVE GuardType'
  BY <1>13 DEF AddFails, Goes, Goto
<1>14. ASSUME NEW p \in Procs, Ready(p) PROVE GuardType'
  BY <1>14 DEF Ready, Goes, Goto
<1>15. ASSUME NEW p \in Procs, RepairEnds(p) PROVE GuardType'
  BY <1>15 DEF RepairEnds, Goto
<1>16. ASSUME NEW p \in Procs, Render(p) PROVE GuardType'
  BY <1>16 DEF Render, Goes, Goto
<1>17. ASSUME NEW p \in Procs, Save(p) PROVE GuardType'
  BY <1>17 DEF Save, Goes, Goto
<1>18. ASSUME NEW p \in Procs, SaveState(p) PROVE GuardType'
  BY <1>18 DEF SaveState, Goto
<1>19. ASSUME NEW p \in Procs, SaveStateFails(p) PROVE GuardType'
  BY <1>19 DEF SaveStateFails, Goes, Goto
<1>20. ASSUME NEW p \in Procs, UndoSlot(p) PROVE GuardType'
  BY <1>20 DEF UndoSlot, AfterUndo, Goto
<1>21. ASSUME NEW p \in Procs, UndoSlotUnlocked(p) PROVE GuardType'
  BY <1>21 DEF UndoSlotUnlocked, AfterUndo, Goto
<1>22. ASSUME NEW p \in Procs, UndoDir(p) PROVE GuardType'
  BY <1>22 DEF UndoDir, Goto
<1>23. ASSUME NEW p \in Procs, CheckSlot(p) PROVE GuardType'
  BY <1>23 DEF CheckSlot, Goto
<1>24. ASSUME NEW p \in Procs, DestroySaves(p) PROVE GuardType'
  BY <1>24 DEF DestroySaves, Goto
<1>25. ASSUME NEW p \in Procs, PurgeSlot(p) PROVE GuardType'
  BY <1>25 DEF PurgeSlot, Goto
<1>26. ASSUME NEW p \in Procs, PurgeDir(p) PROVE GuardType'
  BY <1>26 DEF PurgeDir, Goto
<1>27. ASSUME NEW p \in Procs, Kill(p) PROVE GuardType'
  BY <1>27 DEF Kill, Goto
<1>28. ASSUME NEW s \in Slots, People(s) PROVE GuardType'
  BY <1>28 DEF People, Work, PushWork, Delete, CleanTemp
<1>29. CASE UNCHANGED vars
  BY <1>29 DEF vars
<1> HIDE DEF PcType, GuardType, DirType, SlotType, Resting, asked, locals, going, disk
<1> QED BY <1>1, <1>2, <1>3, <1>4, <1>5, <1>6, <1>7, <1>8, <1>9, <1>10, <1>11, <1>12,
           <1>13, <1>14, <1>15, <1>16, <1>17, <1>18, <1>19, <1>20, <1>21, <1>22, <1>23, <1>24,
           <1>25, <1>26, <1>27, <1>28, <1>29 DEF Next, Step

LEMMA DirStep ==
  ASSUME PcType, OpType, KindInv, GuardType, DirType, [Next]_vars
  PROVE  DirType'
<1> USE PcType, OpType, KindInv, GuardType, DirType, WorkspaceAssumption, OldFacts, MeFacts DEF PcType, OpType, GuardType, DirType, Resting, asked, locals, going, disk
<1>1. ASSUME NEW p \in Procs, NEW w \in Workspaces, NEW sync \in BOOLEAN,
             CreateBegins(p, w, sync)
      PROVE  DirType'
  BY <1>1 DEF CreateBegins, Begin, Goto
<1>2. ASSUME NEW p \in Procs, NEW w \in Workspaces, NEW purge \in BOOLEAN,
             DestroyBegins(p, w, purge)
      PROVE  DirType'
  BY <1>2 DEF DestroyBegins, Begin, Goto
<1>3. ASSUME NEW p \in Procs, NEW w \in Workspaces, RepairBegins(p, w)
      PROVE  DirType'
  BY <1>3 DEF RepairBegins, Begin, Goto
<1>4. ASSUME NEW p \in Procs, MakeDir(p) PROVE DirType'
  BY <1>4 DEF MakeDir, Goes, Goto, Returns
<1>5. ASSUME NEW p \in Procs, LookAtSlot(p) PROVE DirType'
  BY <1>5 DEF LookAtSlot, NextSlot, SlotFails, Goes, Goto
<1>6. ASSUME NEW p \in Procs, LookAtSlotFails(p) PROVE DirType'
  BY <1>6 DEF LookAtSlotFails, NextSlot, SlotFails, Goes, Goto
<1>7. ASSUME NEW p \in Procs, TakeLock(p) PROVE DirType'
  BY <1>7 DEF TakeLock, Goes, Goto
<1>8. ASSUME NEW p \in Procs, LockFails(p) PROVE DirType'
  BY <1>8 DEF LockFails, NextSlot, SlotFails, Goes, Goto
<1>9. ASSUME NEW p \in Procs, Settle(p) PROVE DirType'
  BY <1>9 DEF Settle, NextSlot, SlotFails, Goes, Goto
<1>10. ASSUME NEW p \in Procs, Stage(p) PROVE DirType'
  BY <1>10 DEF Stage, NextSlot, SlotFails, Goes, Goto
<1>11. ASSUME NEW p \in Procs, Install(p) PROVE DirType'
  BY <1>11 DEF Install, Goes, Goto
<1>12. ASSUME NEW p \in Procs, Register(p) PROVE DirType'
  BY <1>12 DEF Register, NextSlot, Goto
<1>13. ASSUME NEW p \in Procs, AddFails(p) PROVE DirType'
  BY <1>13 DEF AddFails, NextSlot, SlotFails, Goes, Goto
<1>14. ASSUME NEW p \in Procs, Ready(p) PROVE DirType'
  BY <1>14 DEF Ready, NextSlot, Goes, Goto
<1>15. ASSUME NEW p \in Procs, RepairEnds(p) PROVE DirType'
  BY <1>15 DEF RepairEnds, Returns, Goto
<1>16. ASSUME NEW p \in Procs, Render(p) PROVE DirType'
  BY <1>16 DEF Render, Goes, Goto
<1>17. ASSUME NEW p \in Procs, Save(p) PROVE DirType'
  BY <1>17 DEF Save, Goes, Goto
<1>18. ASSUME NEW p \in Procs, SaveState(p) PROVE DirType'
  BY <1>18 DEF SaveState, Returns, Goto
<1>19. ASSUME NEW p \in Procs, SaveStateFails(p) PROVE DirType'
  BY <1>19 DEF SaveStateFails, Goes, Goto
<1>20. ASSUME NEW p \in Procs, UndoSlot(p) PROVE DirType'
  BY <1>20 DEF UndoSlot, AfterUndo, NextSlot, Goto
<1>21. ASSUME NEW p \in Procs, UndoSlotUnlocked(p) PROVE DirType'
  BY <1>21 DEF UndoSlotUnlocked, AfterUndo, NextSlot, Goto
<1>22. ASSUME NEW p \in Procs, UndoDir(p) PROVE DirType'
  BY <1>22 DEF UndoDir, Returns, Goto
<1>23. ASSUME NEW p \in Procs, CheckSlot(p) PROVE DirType'
  BY <1>23 DEF CheckSlot, Returns, Goto
<1>24. ASSUME NEW p \in Procs, DestroySaves(p) PROVE DirType'
  BY <1>24 DEF DestroySaves, Returns, Goto
<1>25. ASSUME NEW p \in Procs, PurgeSlot(p) PROVE DirType'
  BY <1>25 DEF PurgeSlot, NextSlot, Goto
<1>26. ASSUME NEW p \in Procs, PurgeDir(p) PROVE DirType'
  BY <1>26 DEF PurgeDir, Returns, Goto
<1>27. ASSUME NEW p \in Procs, Kill(p) PROVE DirType'
  BY <1>27 DEF Kill, Returns, Goto
<1>28. ASSUME NEW s \in Slots, People(s) PROVE DirType'
  BY <1>28 DEF People, Work, PushWork, Delete, CleanTemp
<1>29. CASE UNCHANGED vars
  BY <1>29 DEF vars
<1> HIDE DEF PcType, OpType, GuardType, DirType, Resting, asked, locals, going, disk
<1> QED BY <1>1, <1>2, <1>3, <1>4, <1>5, <1>6, <1>7, <1>8, <1>9, <1>10, <1>11, <1>12,
           <1>13, <1>14, <1>15, <1>16, <1>17, <1>18, <1>19, <1>20, <1>21, <1>22, <1>23, <1>24,
           <1>25, <1>26, <1>27, <1>28, <1>29 DEF Next, Step

LEMMA SlotStep ==
  ASSUME PcType, OpType, KindInv, SlotType, [Next]_vars
  PROVE  SlotType'
<1> USE PcType, OpType, KindInv, SlotType, WorkspaceAssumption, OldFacts, MeFacts DEF PcType, OpType, SlotType, Resting, asked, locals, going, disk
<1>1. ASSUME NEW p \in Procs, NEW w \in Workspaces, NEW sync \in BOOLEAN,
             CreateBegins(p, w, sync)
      PROVE  SlotType'
  BY <1>1 DEF CreateBegins, Begin, Goto
<1>2. ASSUME NEW p \in Procs, NEW w \in Workspaces, NEW purge \in BOOLEAN,
             DestroyBegins(p, w, purge)
      PROVE  SlotType'
  BY <1>2 DEF DestroyBegins, Begin, Goto
<1>3. ASSUME NEW p \in Procs, NEW w \in Workspaces, RepairBegins(p, w)
      PROVE  SlotType'
  BY <1>3 DEF RepairBegins, Begin, Goto
<1>4. ASSUME NEW p \in Procs, MakeDir(p) PROVE SlotType'
  BY <1>4 DEF MakeDir, Goes, Goto, Returns
<1>5. ASSUME NEW p \in Procs, LookAtSlot(p) PROVE SlotType'
  BY <1>5 DEF LookAtSlot, NextSlot, SlotFails, Goes, Goto
<1>6. ASSUME NEW p \in Procs, LookAtSlotFails(p) PROVE SlotType'
  BY <1>6 DEF LookAtSlotFails, NextSlot, SlotFails, Goes, Goto
<1>7. ASSUME NEW p \in Procs, TakeLock(p) PROVE SlotType'
  BY <1>7 DEF TakeLock, Goes, Goto
<1>8. ASSUME NEW p \in Procs, LockFails(p) PROVE SlotType'
  BY <1>8 DEF LockFails, NextSlot, SlotFails, Goes, Goto
<1>9. ASSUME NEW p \in Procs, Settle(p) PROVE SlotType'
  BY <1>9 DEF Settle, NextSlot, SlotFails, Goes, Goto, Removed
<1>10. ASSUME NEW p \in Procs, Stage(p) PROVE SlotType'
  BY <1>10 DEF Stage, NextSlot, SlotFails, Goes, Goto
<1>11. ASSUME NEW p \in Procs, Install(p) PROVE SlotType'
  BY <1>11 DEF Install, Goes, Goto
<1>12. ASSUME NEW p \in Procs, Register(p) PROVE SlotType'
  BY <1>12 DEF Register, NextSlot, Goto
<1>13. ASSUME NEW p \in Procs, AddFails(p) PROVE SlotType'
  BY <1>13 DEF AddFails, NextSlot, SlotFails, Goes, Goto, Removed
<1>14. ASSUME NEW p \in Procs, Ready(p) PROVE SlotType'
  BY <1>14 DEF Ready, NextSlot, Goes, Goto
<1>15. ASSUME NEW p \in Procs, RepairEnds(p) PROVE SlotType'
  BY <1>15 DEF RepairEnds, Returns, Goto
<1>16. ASSUME NEW p \in Procs, Render(p) PROVE SlotType'
  BY <1>16 DEF Render, Goes, Goto
<1>17. ASSUME NEW p \in Procs, Save(p) PROVE SlotType'
  BY <1>17 DEF Save, Goes, Goto
<1>18. ASSUME NEW p \in Procs, SaveState(p) PROVE SlotType'
  BY <1>18 DEF SaveState, Returns, Goto
<1>19. ASSUME NEW p \in Procs, SaveStateFails(p) PROVE SlotType'
  BY <1>19 DEF SaveStateFails, Goes, Goto
<1>20. ASSUME NEW p \in Procs, UndoSlot(p) PROVE SlotType'
  BY <1>20 DEF UndoSlot, AfterUndo, NextSlot, Goto, Removed
<1>21. ASSUME NEW p \in Procs, UndoSlotUnlocked(p) PROVE SlotType'
  BY <1>21 DEF UndoSlotUnlocked, AfterUndo, NextSlot, Goto, Removed
<1>22. ASSUME NEW p \in Procs, UndoDir(p) PROVE SlotType'
  BY <1>22 DEF UndoDir, Returns, Goto, Emptied
<1>23. ASSUME NEW p \in Procs, CheckSlot(p) PROVE SlotType'
  BY <1>23 DEF CheckSlot, Returns, Goto
<1>24. ASSUME NEW p \in Procs, DestroySaves(p) PROVE SlotType'
  BY <1>24 DEF DestroySaves, Returns, Goto
<1>25. ASSUME NEW p \in Procs, PurgeSlot(p) PROVE SlotType'
  BY <1>25 DEF PurgeSlot, NextSlot, Goto, Removed
<1>26. ASSUME NEW p \in Procs, PurgeDir(p) PROVE SlotType'
  BY <1>26 DEF PurgeDir, Returns, Goto, Emptied
<1>27. ASSUME NEW p \in Procs, Kill(p) PROVE SlotType'
  BY <1>27 DEF Kill, Returns, Goto
<1>28. ASSUME NEW s \in Slots, People(s) PROVE SlotType'
  <2>1. CASE Work(s)
    BY <1>28, <2>1 DEF Work, SlotStates
  <2>2. CASE PushWork(s)
    BY <1>28, <2>2 DEF PushWork, SlotStates
  <2> QED BY <1>28, <2>1, <2>2 DEF People, Delete, CleanTemp
<1>29. CASE UNCHANGED vars
  BY <1>29 DEF vars
<1> HIDE DEF PcType, OpType, SlotType, Resting, asked, locals, going, disk
<1> QED BY <1>1, <1>2, <1>3, <1>4, <1>5, <1>6, <1>7, <1>8, <1>9, <1>10, <1>11, <1>12,
           <1>13, <1>14, <1>15, <1>16, <1>17, <1>18, <1>19, <1>20, <1>21, <1>22, <1>23, <1>24,
           <1>25, <1>26, <1>27, <1>28, <1>29 DEF Next, Step

LEMMA RegStep ==
  ASSUME PcType, OpType, KindInv, TodoType, RegType, [Next]_vars
  PROVE  RegType'
<1> USE PcType, OpType, KindInv, TodoType, RegType, WorkspaceAssumption, OldFacts, MeFacts DEF PcType, OpType, RegType, Resting, asked, locals, going, disk
<1>1. ASSUME NEW p \in Procs, NEW w \in Workspaces, NEW sync \in BOOLEAN,
             CreateBegins(p, w, sync)
      PROVE  RegType'
  BY <1>1 DEF CreateBegins, Begin, Goto
<1>2. ASSUME NEW p \in Procs, NEW w \in Workspaces, NEW purge \in BOOLEAN,
             DestroyBegins(p, w, purge)
      PROVE  RegType'
  BY <1>2 DEF DestroyBegins, Begin, Goto
<1>3. ASSUME NEW p \in Procs, NEW w \in Workspaces, RepairBegins(p, w)
      PROVE  RegType'
  BY <1>3 DEF RepairBegins, Begin, Goto
<1>4. ASSUME NEW p \in Procs, MakeDir(p) PROVE RegType'
  BY <1>4 DEF MakeDir, Goes, Goto, Returns
<1>5. ASSUME NEW p \in Procs, LookAtSlot(p) PROVE RegType'
  BY <1>5 DEF LookAtSlot, NextSlot, SlotFails, Goes, Goto
<1>6. ASSUME NEW p \in Procs, LookAtSlotFails(p) PROVE RegType'
  BY <1>6 DEF LookAtSlotFails, NextSlot, SlotFails, Goes, Goto
<1>7. ASSUME NEW p \in Procs, TakeLock(p) PROVE RegType'
  BY <1>7 DEF TakeLock, Goes, Goto
<1>8. ASSUME NEW p \in Procs, LockFails(p) PROVE RegType'
  BY <1>8 DEF LockFails, NextSlot, SlotFails, Goes, Goto
<1>9. ASSUME NEW p \in Procs, Settle(p) PROVE RegType'
  BY <1>9 DEF Settle, NextSlot, SlotFails, Goes, Goto, Prunes
<1>10. ASSUME NEW p \in Procs, Stage(p) PROVE RegType'
  BY <1>10 DEF Stage, NextSlot, SlotFails, Goes, Goto
<1>11. ASSUME NEW p \in Procs, Install(p) PROVE RegType'
  BY <1>11 DEF Install, Goes, Goto
<1>12. ASSUME NEW p \in Procs, Register(p) PROVE RegType'
  BY <1>12 DEF Register, NextSlot, Goto
<1>13. ASSUME NEW p \in Procs, AddFails(p) PROVE RegType'
  BY <1>13 DEF AddFails, NextSlot, SlotFails, Goes, Goto
<1>14. ASSUME NEW p \in Procs, Ready(p) PROVE RegType'
  BY <1>14 DEF Ready, NextSlot, Goes, Goto
<1>15. ASSUME NEW p \in Procs, RepairEnds(p) PROVE RegType'
  BY <1>15 DEF RepairEnds, Returns, Goto
<1>16. ASSUME NEW p \in Procs, Render(p) PROVE RegType'
  BY <1>16 DEF Render, Goes, Goto
<1>17. ASSUME NEW p \in Procs, Save(p) PROVE RegType'
  BY <1>17 DEF Save, Goes, Goto
<1>18. ASSUME NEW p \in Procs, SaveState(p) PROVE RegType'
  BY <1>18 DEF SaveState, Returns, Goto
<1>19. ASSUME NEW p \in Procs, SaveStateFails(p) PROVE RegType'
  BY <1>19 DEF SaveStateFails, Goes, Goto
<1>20. ASSUME NEW p \in Procs, UndoSlot(p) PROVE RegType'
  BY <1>20 DEF UndoSlot, AfterUndo, NextSlot, Goto, Prunes
<1>21. ASSUME NEW p \in Procs, UndoSlotUnlocked(p) PROVE RegType'
  BY <1>21 DEF UndoSlotUnlocked, AfterUndo, NextSlot, Goto
<1>22. ASSUME NEW p \in Procs, UndoDir(p) PROVE RegType'
  BY <1>22 DEF UndoDir, Returns, Goto
<1>23. ASSUME NEW p \in Procs, CheckSlot(p) PROVE RegType'
  BY <1>23 DEF CheckSlot, Returns, Goto
<1>24. ASSUME NEW p \in Procs, DestroySaves(p) PROVE RegType'
  BY <1>24 DEF DestroySaves, Returns, Goto
<1>25. ASSUME NEW p \in Procs, PurgeSlot(p) PROVE RegType'
  BY <1>25 DEF PurgeSlot, NextSlot, Goto, Prunes
<1>26. ASSUME NEW p \in Procs, PurgeDir(p) PROVE RegType'
  BY <1>26 DEF PurgeDir, Returns, Goto
<1>27. ASSUME NEW p \in Procs, Kill(p) PROVE RegType'
  BY <1>27 DEF Kill, Returns, Goto
<1>28. ASSUME NEW s \in Slots, People(s) PROVE RegType'
  BY <1>28 DEF People, Work, PushWork, Delete, CleanTemp
<1>29. CASE UNCHANGED vars
  BY <1>29 DEF vars
<1> HIDE DEF PcType, OpType, RegType, Resting, asked, locals, going, disk
<1> QED BY <1>1, <1>2, <1>3, <1>4, <1>5, <1>6, <1>7, <1>8, <1>9, <1>10, <1>11, <1>12,
           <1>13, <1>14, <1>15, <1>16, <1>17, <1>18, <1>19, <1>20, <1>21, <1>22, <1>23, <1>24,
           <1>25, <1>26, <1>27, <1>28, <1>29 DEF Next, Step

LEMMA MarkStep ==
  ASSUME PcType, OpType, KindInv, MarkType, [Next]_vars
  PROVE  MarkType'
<1> USE PcType, OpType, KindInv, MarkType, WorkspaceAssumption, OldFacts, MeFacts DEF PcType, OpType, MarkType, Resting, asked, locals, going, disk
<1>1. ASSUME NEW p \in Procs, NEW w \in Workspaces, NEW sync \in BOOLEAN,
             CreateBegins(p, w, sync)
      PROVE  MarkType'
  BY <1>1 DEF CreateBegins, Begin, Goto
<1>2. ASSUME NEW p \in Procs, NEW w \in Workspaces, NEW purge \in BOOLEAN,
             DestroyBegins(p, w, purge)
      PROVE  MarkType'
  BY <1>2 DEF DestroyBegins, Begin, Goto
<1>3. ASSUME NEW p \in Procs, NEW w \in Workspaces, RepairBegins(p, w)
      PROVE  MarkType'
  BY <1>3 DEF RepairBegins, Begin, Goto
<1>4. ASSUME NEW p \in Procs, MakeDir(p) PROVE MarkType'
  BY <1>4 DEF MakeDir, Goes, Goto, Returns
<1>5. ASSUME NEW p \in Procs, LookAtSlot(p) PROVE MarkType'
  BY <1>5 DEF LookAtSlot, NextSlot, SlotFails, Goes, Goto
<1>6. ASSUME NEW p \in Procs, LookAtSlotFails(p) PROVE MarkType'
  BY <1>6 DEF LookAtSlotFails, NextSlot, SlotFails, Goes, Goto
<1>7. ASSUME NEW p \in Procs, TakeLock(p) PROVE MarkType'
  BY <1>7 DEF TakeLock, Goes, Goto
<1>8. ASSUME NEW p \in Procs, LockFails(p) PROVE MarkType'
  BY <1>8 DEF LockFails, NextSlot, SlotFails, Goes, Goto
<1>9. ASSUME NEW p \in Procs, Settle(p) PROVE MarkType'
  BY <1>9 DEF Settle, NextSlot, SlotFails, Goes, Goto
<1>10. ASSUME NEW p \in Procs, Stage(p) PROVE MarkType'
  BY <1>10 DEF Stage, NextSlot, SlotFails, Goes, Goto
<1>11. ASSUME NEW p \in Procs, Install(p) PROVE MarkType'
  BY <1>11 DEF Install, Goes, Goto
<1>12. ASSUME NEW p \in Procs, Register(p) PROVE MarkType'
  BY <1>12 DEF Register, NextSlot, Goto
<1>13. ASSUME NEW p \in Procs, AddFails(p) PROVE MarkType'
  BY <1>13 DEF AddFails, NextSlot, SlotFails, Goes, Goto, Breaks
<1>14. ASSUME NEW p \in Procs, Ready(p) PROVE MarkType'
  BY <1>14 DEF Ready, NextSlot, Goes, Goto
<1>15. ASSUME NEW p \in Procs, RepairEnds(p) PROVE MarkType'
  BY <1>15 DEF RepairEnds, Returns, Goto
<1>16. ASSUME NEW p \in Procs, Render(p) PROVE MarkType'
  BY <1>16 DEF Render, Goes, Goto
<1>17. ASSUME NEW p \in Procs, Save(p) PROVE MarkType'
  BY <1>17 DEF Save, Goes, Goto
<1>18. ASSUME NEW p \in Procs, SaveState(p) PROVE MarkType'
  BY <1>18 DEF SaveState, Returns, Goto
<1>19. ASSUME NEW p \in Procs, SaveStateFails(p) PROVE MarkType'
  BY <1>19 DEF SaveStateFails, Goes, Goto, Breaks
<1>20. ASSUME NEW p \in Procs, UndoSlot(p) PROVE MarkType'
  BY <1>20 DEF UndoSlot, AfterUndo, NextSlot, Goto, Breaks
<1>21. ASSUME NEW p \in Procs, UndoSlotUnlocked(p) PROVE MarkType'
  BY <1>21 DEF UndoSlotUnlocked, AfterUndo, NextSlot, Goto, Breaks
<1>22. ASSUME NEW p \in Procs, UndoDir(p) PROVE MarkType'
  BY <1>22 DEF UndoDir, Returns, Goto, Breaks
<1>23. ASSUME NEW p \in Procs, CheckSlot(p) PROVE MarkType'
  BY <1>23 DEF CheckSlot, Returns, Goto
<1>24. ASSUME NEW p \in Procs, DestroySaves(p) PROVE MarkType'
  BY <1>24 DEF DestroySaves, Returns, Goto
<1>25. ASSUME NEW p \in Procs, PurgeSlot(p) PROVE MarkType'
  BY <1>25 DEF PurgeSlot, NextSlot, Goto
<1>26. ASSUME NEW p \in Procs, PurgeDir(p) PROVE MarkType'
  BY <1>26 DEF PurgeDir, Returns, Goto
<1>27. ASSUME NEW p \in Procs, Kill(p) PROVE MarkType'
  BY <1>27 DEF Kill, Returns, Goto, Breaks
<1>28. ASSUME NEW s \in Slots, People(s) PROVE MarkType'
  BY <1>28 DEF People, Work, PushWork, Delete, CleanTemp
<1>29. CASE UNCHANGED vars
  BY <1>29 DEF vars
<1> HIDE DEF PcType, OpType, MarkType, Resting, asked, locals, going, disk
<1> QED BY <1>1, <1>2, <1>3, <1>4, <1>5, <1>6, <1>7, <1>8, <1>9, <1>10, <1>11, <1>12,
           <1>13, <1>14, <1>15, <1>16, <1>17, <1>18, <1>19, <1>20, <1>21, <1>22, <1>23, <1>24,
           <1>25, <1>26, <1>27, <1>28, <1>29 DEF Next, Step

LEMMA TodoStep ==
  ASSUME PcType, KindInv, HandInv, EntryType, PastInv, OpType, GuardType, TodoType, CutType, [Next]_vars
  PROVE  TodoType'
<1> USE PcType, KindInv, HandInv, EntryType, PastInv, OpType, GuardType, TodoType, CutType, WorkspaceAssumption, SlotFacts, RestTyped, NextTyped, FailsTyped DEF PcType, OpType, TodoType, W, Resting, asked, locals, going, disk
<1>1. ASSUME NEW p \in Procs, NEW w \in Workspaces, NEW sync \in BOOLEAN,
             CreateBegins(p, w, sync)
      PROVE  TodoType'
  BY <1>1 DEF CreateBegins, Begin, Goto
<1>2. ASSUME NEW p \in Procs, NEW w \in Workspaces, NEW purge \in BOOLEAN,
             DestroyBegins(p, w, purge)
      PROVE  TodoType'
  <2>1. manifest[w] \subseteq SlotSet(w)
    BY <1>2 DEF DestroyBegins, EntryType, IsEntry
  <2> QED BY <1>2, <2>1 DEF DestroyBegins, Begin, Goto
<1>3. ASSUME NEW p \in Procs, NEW w \in Workspaces, RepairBegins(p, w)
      PROVE  TodoType'
  <2>1. manifest[w] \subseteq SlotSet(w)
    BY <1>3 DEF RepairBegins, EntryType, IsEntry
  <2> QED BY <1>3, <2>1 DEF RepairBegins, Begin, Goto
<1>4. ASSUME NEW p \in Procs, MakeDir(p) PROVE TodoType'
  BY <1>4 DEF MakeDir, Goes, Goto
<1>5. ASSUME NEW p \in Procs, LookAtSlot(p) PROVE TodoType'
  BY <1>5 DEF LookAtSlot, Goes, Goto
<1>6. ASSUME NEW p \in Procs, LookAtSlotFails(p) PROVE TodoType'
  BY <1>6 DEF LookAtSlotFails, Goes, Goto
<1>7. ASSUME NEW p \in Procs, TakeLock(p) PROVE TodoType'
  BY <1>7 DEF TakeLock, Goes, Goto
<1>8. ASSUME NEW p \in Procs, LockFails(p) PROVE TodoType'
  BY <1>8 DEF LockFails, Goes, Goto
<1>9. ASSUME NEW p \in Procs, Settle(p) PROVE TodoType'
  BY <1>9 DEF Settle, Goes, Goto
<1>10. ASSUME NEW p \in Procs, Stage(p) PROVE TodoType'
  BY <1>10 DEF Stage, Goes, Goto
<1>11. ASSUME NEW p \in Procs, Install(p) PROVE TodoType'
  BY <1>11 DEF Install, Goes, Goto
<1>12. ASSUME NEW p \in Procs, Register(p) PROVE TodoType'
  BY <1>12 DEF Register, Goto
<1>13. ASSUME NEW p \in Procs, AddFails(p) PROVE TodoType'
  BY <1>13 DEF AddFails, Goes, Goto
<1>14. ASSUME NEW p \in Procs, Ready(p) PROVE TodoType'
  BY <1>14 DEF Ready, Goes, Goto
<1>15. ASSUME NEW p \in Procs, RepairEnds(p) PROVE TodoType'
  BY <1>15 DEF RepairEnds, Goto
<1>16. ASSUME NEW p \in Procs, Render(p) PROVE TodoType'
  BY <1>16 DEF Render, Goes, Goto
<1>17. ASSUME NEW p \in Procs, Save(p) PROVE TodoType'
  BY <1>17 DEF Save, Goes, Goto
<1>18. ASSUME NEW p \in Procs, SaveState(p) PROVE TodoType'
  BY <1>18 DEF SaveState, Goto
<1>19. ASSUME NEW p \in Procs, SaveStateFails(p) PROVE TodoType'
  BY <1>19 DEF SaveStateFails, Goes, Goto
<1>20. ASSUME NEW p \in Procs, UndoSlot(p) PROVE TodoType'
  BY <1>20 DEF UndoSlot, AfterUndo, Goto
<1>21. ASSUME NEW p \in Procs, UndoSlotUnlocked(p) PROVE TodoType'
  BY <1>21 DEF UndoSlotUnlocked, AfterUndo, Goto
<1>22. ASSUME NEW p \in Procs, UndoDir(p) PROVE TodoType'
  BY <1>22 DEF UndoDir, Goto
<1>23. ASSUME NEW p \in Procs, CheckSlot(p) PROVE TodoType'
  BY <1>23 DEF CheckSlot, Goto
<1>24. ASSUME NEW p \in Procs, DestroySaves(p) PROVE TodoType'
  <2>1. W(p) \in Workspaces /\ op[p].kind = "destroy"
    BY <1>24, WFacts DEF DestroySaves, KindInv, KindOf
  <2>2. seen[p][W(p)] \subseteq SlotSet(W(p))
    BY <1>24, <2>1 DEF DestroySaves, EntryType, IsEntry, PastInv, PastOf
  <2>3. CASE Returns(p, "idle")
    BY <2>3
  <2>4. CASE ~Returns(p, "idle")
    BY <1>24, <2>1, <2>2, <2>4 DEF DestroySaves
  <2> QED BY <2>3, <2>4
<1>25. ASSUME NEW p \in Procs, PurgeSlot(p) PROVE TodoType'
  BY <1>25 DEF PurgeSlot, Goto
<1>26. ASSUME NEW p \in Procs, PurgeDir(p) PROVE TodoType'
  BY <1>26 DEF PurgeDir, Goto
<1>27. ASSUME NEW p \in Procs, Kill(p) PROVE TodoType'
  BY <1>27 DEF Kill, Goto
<1>28. ASSUME NEW s \in Slots, People(s) PROVE TodoType'
  BY <1>28 DEF People, Work, PushWork, Delete, CleanTemp
<1>29. CASE UNCHANGED vars
  BY <1>29 DEF vars
<1> HIDE DEF PcType, OpType, TodoType, W, Resting, asked, locals, going, disk
<1> QED BY <1>1, <1>2, <1>3, <1>4, <1>5, <1>6, <1>7, <1>8, <1>9, <1>10, <1>11, <1>12,
           <1>13, <1>14, <1>15, <1>16, <1>17, <1>18, <1>19, <1>20, <1>21, <1>22, <1>23, <1>24,
           <1>25, <1>26, <1>27, <1>28, <1>29 DEF Next, Step

LEMMA FrontFacts ==
  ASSUME NEW c \in Seq(Slots), c # <<>>
  PROVE  /\ Front(c) \in Seq(Slots) /\ Last(c) \in ToSet(c) /\ Last(c) \in Slots
         /\ ToSet(Front(c)) \subseteq ToSet(c)
         /\ \A s \in ToSet(c) : s = Last(c) \/ s \in ToSet(Front(c))
<1>1. Len(c) \in Nat /\ Len(c) > 0 /\ DOMAIN c = 1..Len(c)
  OBVIOUS
<1>2. \A i \in 1..(1 + Len(c)) : \A k \in 0..Len(c) :
        /\ SubSeq(c, i, k) \in Seq(Slots)
        /\ Len(SubSeq(c, i, k)) = IF i <= k THEN k - i + 1 ELSE 0
        /\ \A j \in 1..(k - i + 1) : SubSeq(c, i, k)[j] = c[i + j - 1]
  BY SubSeqProperties
<1> DEFINE f == SubSeq(c, 1, Len(c) - 1)
<1>3. f \in Seq(Slots) /\ Len(f) = Len(c) - 1 /\ \A j \in 1..(Len(c) - 1) : f[j] = c[j]
  BY <1>1, <1>2
<1> HIDE DEF f
<1>4. DOMAIN f = 1..(Len(c) - 1)
  BY <1>3
<1>5. Front(c) = f
  BY DEF Front, f
<1>6. c[Len(c)] \in Slots /\ c[Len(c)] \in ToSet(c)
  BY <1>1 DEF ToSet
<1>7. ASSUME NEW s \in ToSet(c) PROVE s = c[Len(c)] \/ s \in ToSet(f)
  <2>1. PICK i \in 1..Len(c) : s = c[i]
    BY <1>1 DEF ToSet
  <2>2. CASE i = Len(c)
    BY <2>1, <2>2
  <2>3. CASE i # Len(c)
    <3> DEFINE n == Len(c)
    <3>0. n \in Nat /\ i \in 1..n /\ i # n
      BY <1>1, <2>1, <2>3
    <3> HIDE DEF n
    <3>2. i \in 1..(n - 1)
      BY <3>0
    <3>1. i \in 1..(Len(c) - 1)
      BY <3>2 DEF n
    <3> QED BY <1>3, <1>4, <2>1, <3>1 DEF ToSet
  <2> QED BY <2>2, <2>3
<1>8. ToSet(f) \subseteq ToSet(c)
  BY <1>1, <1>3, <1>4 DEF ToSet
<1> QED BY <1>3, <1>5, <1>6, <1>7, <1>8 DEF Last

LEMMA AppendFacts ==
  ASSUME NEW c \in Seq(Slots), NEW s \in Slots
  PROVE  Append(c, s) \in Seq(Slots) /\ Append(c, s) # <<>> /\ ToSet(Append(c, s)) = ToSet(c) \cup {s}
<1>1. /\ Append(c, s) \in Seq(Slots) /\ Len(Append(c, s)) = Len(c) + 1
      /\ \A i \in 1..Len(c) : Append(c, s)[i] = c[i]
      /\ Append(c, s)[Len(c) + 1] = s
  OBVIOUS
<1> DEFINE d == Append(c, s)
<1> HIDE DEF d
<1>2. DOMAIN d = 1..(Len(c) + 1) /\ DOMAIN c = 1..Len(c) /\ Len(c) \in Nat
  BY <1>1 DEF d
<1>3. /\ d \in Seq(Slots) /\ d # <<>> /\ d[Len(c) + 1] = s /\ \A i \in 1..Len(c) : d[i] = c[i]
  BY <1>1 DEF d
<1>4. ToSet(d) = ToSet(c) \cup {s}
  <2>1. ASSUME NEW x \in ToSet(d) PROVE x \in ToSet(c) \cup {s}
    <3>1. PICK i \in 1..(Len(c) + 1) : x = d[i]
      BY <1>2 DEF ToSet
    <3>2. i = Len(c) + 1 \/ i \in 1..Len(c)
      BY <1>2
    <3> QED BY <1>2, <1>3, <3>1, <3>2 DEF ToSet
  <2>2. ASSUME NEW x \in ToSet(c) PROVE x \in ToSet(d)
    <3>1. PICK i \in 1..Len(c) : x = c[i]
      BY <1>2 DEF ToSet
    <3>2. i \in 1..(Len(c) + 1)
      BY <1>2
    <3> QED BY <1>2, <1>3, <3>1, <3>2 DEF ToSet
  <2>3. s \in ToSet(d)
    <3>1. Len(c) + 1 \in 1..(Len(c) + 1)
      BY <1>2
    <3> QED BY <1>2, <1>3, <3>1 DEF ToSet
  <2> QED BY <2>1, <2>2, <2>3
<1> QED BY <1>3, <1>4 DEF d

LEMMA NothingCut == ToSet(<<>>) = {} /\ <<>> \in Seq(Slots)
  BY DEF ToSet

LEMMA CutTyped ==
  ASSUME CutType, NEW p \in Procs, NEW c \in Seq(Slots), \A s \in ToSet(c) : s \in SlotSet(W(p)),
         op' = op, cut' = cut \/ cut' = [cut EXCEPT ![p] = c]
  PROVE  CutType'
<1>1. CASE cut' = cut
  BY <1>1 DEF CutType, W
<1>2. CASE cut' = [cut EXCEPT ![p] = c]
  <2>1. cut' \in [Procs -> Seq(Slots)] /\ cut'[p] = c /\ \A q \in Procs \ {p} : cut'[q] = cut[q]
    BY <1>2 DEF CutType
  <2>2. \A q \in Procs : W(q)' = W(q)
    BY DEF W
  <2> QED BY <2>1, <2>2 DEF CutType
<1> QED BY <1>1, <1>2

LEMMA CutStep ==
  ASSUME PcType, KindInv, HandInv, OpType, GuardType, TodoType, CutType, [Next]_vars
  PROVE  CutType'
<1> USE PcType, KindInv, HandInv, OpType, GuardType, TodoType, CutType, WorkspaceAssumption, SlotFacts, HandFacts, RestTyped, FailsTyped DEF PcType, OpType, CutType, W, Resting, asked, locals, going, disk
<1>1. ASSUME NEW p \in Procs, NEW w \in Workspaces, NEW sync \in BOOLEAN,
             CreateBegins(p, w, sync)
      PROVE  CutType'
  <2>1. \A q \in Procs \ {p} : W(q)' = W(q) /\ cut'[q] = cut[q]
    BY <1>1 DEF CreateBegins, Begin
  <2>2. cut'[p] = <<>> /\ cut' \in [Procs -> Seq(Slots)]
    BY <1>1 DEF CreateBegins, Begin
  <2> QED BY <2>1, <2>2, NothingCut
<1>2. ASSUME NEW p \in Procs, NEW w \in Workspaces, NEW purge \in BOOLEAN,
             DestroyBegins(p, w, purge)
      PROVE  CutType'
  <2>1. \A q \in Procs \ {p} : W(q)' = W(q) /\ cut'[q] = cut[q]
    BY <1>2 DEF DestroyBegins, Begin
  <2>2. cut'[p] = <<>> /\ cut' \in [Procs -> Seq(Slots)]
    BY <1>2 DEF DestroyBegins, Begin
  <2> QED BY <2>1, <2>2, NothingCut
<1>3. ASSUME NEW p \in Procs, NEW w \in Workspaces, RepairBegins(p, w)
      PROVE  CutType'
  <2>1. \A q \in Procs \ {p} : W(q)' = W(q) /\ cut'[q] = cut[q]
    BY <1>3 DEF RepairBegins, Begin
  <2>2. cut'[p] = <<>> /\ cut' \in [Procs -> Seq(Slots)]
    BY <1>3 DEF RepairBegins, Begin
  <2> QED BY <2>1, <2>2, NothingCut
<1>4. ASSUME NEW p \in Procs, MakeDir(p) PROVE CutType'
  BY <1>4 DEF MakeDir, Goes, Goto
<1>5. ASSUME NEW p \in Procs, LookAtSlot(p) PROVE CutType'
  <2>1. CASE SlotFails(p)
    BY <2>1
  <2>2. CASE ~SlotFails(p)
    BY <1>5, <2>2 DEF LookAtSlot, NextSlot
  <2> QED BY <2>1, <2>2
<1>6. ASSUME NEW p \in Procs, LookAtSlotFails(p) PROVE CutType'
  BY <1>6 DEF LookAtSlotFails, Goes, Goto
<1>7. ASSUME NEW p \in Procs, TakeLock(p) PROVE CutType'
  BY <1>7 DEF TakeLock, Goes, Goto
<1>8. ASSUME NEW p \in Procs, LockFails(p) PROVE CutType'
  BY <1>8 DEF LockFails, Goes, Goto
<1>9. ASSUME NEW p \in Procs, Settle(p) PROVE CutType'
  BY <1>9 DEF Settle, Goes, Goto
<1>10. ASSUME NEW p \in Procs, Stage(p) PROVE CutType'
  BY <1>10 DEF Stage, Goes, Goto
<1>11. ASSUME NEW p \in Procs, Install(p) PROVE CutType'
  BY <1>11 DEF Install, Goes, Goto
<1>12. ASSUME NEW p \in Procs, Register(p) PROVE CutType'
  <2>1. S(p) \in Slots /\ S(p) \in SlotSet(W(p))
    BY <1>12 DEF Register, HandInv, HandOf
  <2>2. op' = op /\ cut' = [cut EXCEPT ![p] = Append(@, S(p))]
    BY <1>12 DEF Register, NextSlot
  <2>3. cut[p] \in Seq(Slots)
    OBVIOUS
  <2>4. Append(cut[p], S(p)) \in Seq(Slots) /\ ToSet(Append(cut[p], S(p))) = ToSet(cut[p]) \cup {S(p)}
    BY <2>1, <2>3, AppendFacts
  <2> DEFINE c == Append(cut[p], S(p))
  <2>5. c \in Seq(Slots) /\ (\A s \in ToSet(c) : s \in SlotSet(W(p))) /\ cut' = [cut EXCEPT ![p] = c]
    BY <2>1, <2>2, <2>4
  <2> HIDE DEF c
  <2> QED BY <2>2, <2>5, CutTyped
<1>13. ASSUME NEW p \in Procs, AddFails(p) PROVE CutType'
  BY <1>13 DEF AddFails, Goes, Goto
<1>14. ASSUME NEW p \in Procs, Ready(p) PROVE CutType'
  <2>1. op' = op /\ (cut' = cut \/ cut' = [cut EXCEPT ![p] = <<>>])
    BY <1>14 DEF Ready, NextSlot, Goes
  <2>2. CutType
    OBVIOUS
  <2> HIDE DEF CutType
  <2> QED BY <2>1, <2>2, NothingCut, CutTyped
<1>15. ASSUME NEW p \in Procs, RepairEnds(p) PROVE CutType'
  BY <1>15 DEF RepairEnds, Goto
<1>16. ASSUME NEW p \in Procs, Render(p) PROVE CutType'
  BY <1>16 DEF Render, Goes, Goto
<1>17. ASSUME NEW p \in Procs, Save(p) PROVE CutType'
  BY <1>17 DEF Save, Goes, Goto
<1>18. ASSUME NEW p \in Procs, SaveState(p) PROVE CutType'
  BY <1>18 DEF SaveState, Goto
<1>19. ASSUME NEW p \in Procs, SaveStateFails(p) PROVE CutType'
  BY <1>19 DEF SaveStateFails, Goes, Goto
<1>20. ASSUME NEW p \in Procs, UndoSlot(p) PROVE CutType'
  <2>1. CutType /\ cut[p] # <<>> /\ cut[p] \in Seq(Slots)
    BY <1>20 DEF UndoSlot, HandInv, HandOf
  <2>2. Front(cut[p]) \in Seq(Slots) /\ ToSet(Front(cut[p])) \subseteq ToSet(cut[p])
    BY <2>1, FrontFacts
  <2> HIDE DEF CutType
  <2>3. op' = op /\ cut' = [cut EXCEPT ![p] = Front(@)]
    BY <1>20 DEF UndoSlot, AfterUndo, NextSlot
  <2> QED BY <2>1, <2>2, <2>3 DEF CutType
<1>21. ASSUME NEW p \in Procs, UndoSlotUnlocked(p) PROVE CutType'
  <2>1. CutType /\ cut[p] # <<>> /\ cut[p] \in Seq(Slots)
    BY <1>21 DEF UndoSlotUnlocked, HandInv, HandOf
  <2>2. Front(cut[p]) \in Seq(Slots) /\ ToSet(Front(cut[p])) \subseteq ToSet(cut[p])
    BY <2>1, FrontFacts
  <2> HIDE DEF CutType
  <2>3. op' = op /\ cut' = [cut EXCEPT ![p] = Front(@)]
    BY <1>21 DEF UndoSlotUnlocked, AfterUndo, NextSlot
  <2> QED BY <2>1, <2>2, <2>3 DEF CutType
<1>22. ASSUME NEW p \in Procs, UndoDir(p) PROVE CutType'
  BY <1>22 DEF UndoDir, Goto
<1>23. ASSUME NEW p \in Procs, CheckSlot(p) PROVE CutType'
  BY <1>23 DEF CheckSlot, Goto
<1>24. ASSUME NEW p \in Procs, DestroySaves(p) PROVE CutType'
  BY <1>24 DEF DestroySaves, Goto
<1>25. ASSUME NEW p \in Procs, PurgeSlot(p) PROVE CutType'
  <2>1. op' = op /\ (cut' = cut \/ cut' = [cut EXCEPT ![p] = <<>>])
    BY <1>25 DEF PurgeSlot, NextSlot, Goes
  <2>2. CutType
    OBVIOUS
  <2> HIDE DEF CutType
  <2> QED BY <2>1, <2>2, NothingCut, CutTyped
<1>26. ASSUME NEW p \in Procs, PurgeDir(p) PROVE CutType'
  BY <1>26 DEF PurgeDir, Goto
<1>27. ASSUME NEW p \in Procs, Kill(p) PROVE CutType'
  BY <1>27 DEF Kill, Goto
<1>28. ASSUME NEW s \in Slots, People(s) PROVE CutType'
  BY <1>28 DEF People, Work, PushWork, Delete, CleanTemp
<1>29. CASE UNCHANGED vars
  BY <1>29 DEF vars
<1> HIDE DEF PcType, OpType, CutType, W, Resting, asked, locals, going, disk
<1> QED BY <1>1, <1>2, <1>3, <1>4, <1>5, <1>6, <1>7, <1>8, <1>9, <1>10, <1>11, <1>12,
           <1>13, <1>14, <1>15, <1>16, <1>17, <1>18, <1>19, <1>20, <1>21, <1>22, <1>23, <1>24,
           <1>25, <1>26, <1>27, <1>28, <1>29 DEF Next, Step

LEMMA RestSeen ==
  ASSUME EntryType, NEW p \in Procs, NEW place, Returns(p, place)
  PROVE  /\ seen' \in [Procs -> Manifests]
         /\ \A q \in Procs : \A w \in Workspaces : IsEntry(seen'[q][w], w)
<1>1. Unread \in Manifests /\ \A w \in Workspaces : IsEntry(Unread[w], w)
  BY DEF Unread, Manifests, NoEntry, IsEntry
<1>2. seen' = seen \/ seen' = [seen EXCEPT ![p] = Unread]
  BY DEF Returns, asked
<1> QED BY <1>1, <1>2 DEF EntryType

LEMMA SavedEntry ==
  ASSUME EntryType, CutType, NEW p \in Procs, W(p) \in Workspaces, NEW e, e = ToSet(cut[p]) \/ e = NoEntry
  PROVE  LET m == [seen[p] EXCEPT ![W(p)] = e] IN m \in Manifests /\ \A w \in Workspaces : IsEntry(m[w], w)
<1>1. e \subseteq Slots \cup {None} /\ IsEntry(e, W(p))
  BY SlotFacts DEF CutType, IsEntry, NoEntry
<1> QED BY <1>1 DEF EntryType, Manifests

LEMMA EntryStep ==
  ASSUME PcType, OpType, KindInv, CutType, EntryType, [Next]_vars
  PROVE  EntryType'
<1> USE PcType, OpType, KindInv, CutType, EntryType, WorkspaceAssumption, RestSeen DEF PcType, OpType, EntryType, Resting, asked, locals, going, disk
<1>1. ASSUME NEW p \in Procs, NEW w \in Workspaces, NEW sync \in BOOLEAN,
             CreateBegins(p, w, sync)
      PROVE  EntryType'
  BY <1>1 DEF CreateBegins, Begin, Goto
<1>2. ASSUME NEW p \in Procs, NEW w \in Workspaces, NEW purge \in BOOLEAN,
             DestroyBegins(p, w, purge)
      PROVE  EntryType'
  BY <1>2 DEF DestroyBegins, Begin, Goto
<1>3. ASSUME NEW p \in Procs, NEW w \in Workspaces, RepairBegins(p, w)
      PROVE  EntryType'
  BY <1>3 DEF RepairBegins, Begin, Goto
<1>4. ASSUME NEW p \in Procs, MakeDir(p) PROVE EntryType'
  BY <1>4 DEF MakeDir, Goes, Goto
<1>5. ASSUME NEW p \in Procs, LookAtSlot(p) PROVE EntryType'
  BY <1>5 DEF LookAtSlot, Goes, Goto, SlotFails, NextSlot
<1>6. ASSUME NEW p \in Procs, LookAtSlotFails(p) PROVE EntryType'
  BY <1>6 DEF LookAtSlotFails, Goes, Goto, SlotFails, NextSlot
<1>7. ASSUME NEW p \in Procs, TakeLock(p) PROVE EntryType'
  BY <1>7 DEF TakeLock, Goes, Goto
<1>8. ASSUME NEW p \in Procs, LockFails(p) PROVE EntryType'
  BY <1>8 DEF LockFails, Goes, Goto, SlotFails, NextSlot
<1>9. ASSUME NEW p \in Procs, Settle(p) PROVE EntryType'
  BY <1>9 DEF Settle, Goes, Goto, SlotFails, NextSlot
<1>10. ASSUME NEW p \in Procs, Stage(p) PROVE EntryType'
  BY <1>10 DEF Stage, Goes, Goto, SlotFails, NextSlot
<1>11. ASSUME NEW p \in Procs, Install(p) PROVE EntryType'
  BY <1>11 DEF Install, Goes, Goto
<1>12. ASSUME NEW p \in Procs, Register(p) PROVE EntryType'
  BY <1>12 DEF Register, Goto, NextSlot
<1>13. ASSUME NEW p \in Procs, AddFails(p) PROVE EntryType'
  BY <1>13 DEF AddFails, Goes, Goto, SlotFails, NextSlot
<1>14. ASSUME NEW p \in Procs, Ready(p) PROVE EntryType'
  BY <1>14 DEF Ready, Goes, Goto, NextSlot
<1>15. ASSUME NEW p \in Procs, RepairEnds(p) PROVE EntryType'
  BY <1>15 DEF RepairEnds, Goto
<1>16. ASSUME NEW p \in Procs, Render(p) PROVE EntryType'
  BY <1>16 DEF Render, Goes, Goto
<1>17. ASSUME NEW p \in Procs, Save(p) PROVE EntryType'
  <2>1. pc[p] # "idle" /\ W(p) \in Workspaces
    BY <1>17, WFacts DEF Save
  <2> DEFINE m == [seen[p] EXCEPT ![W(p)] = ToSet(cut[p])]
  <2>2. m \in Manifests /\ \A w \in Workspaces : IsEntry(m[w], w)
    BY <2>1, SavedEntry
  <2>3. manifest' \in {manifest, m, seen[p]}
    BY <1>17 DEF Save, Saved
  <2>4. seen' = seen \/ \E place : Returns(p, place)
    BY <1>17 DEF Save, Goes
  <2> HIDE DEF m
  <2> QED BY <2>2, <2>3, <2>4, RestSeen DEF EntryType
<1>18. ASSUME NEW p \in Procs, SaveState(p) PROVE EntryType'
  BY <1>18 DEF SaveState, Goto
<1>19. ASSUME NEW p \in Procs, SaveStateFails(p) PROVE EntryType'
  <2>1. pc[p] # "idle" /\ W(p) \in Workspaces
    BY <1>19, WFacts DEF SaveStateFails
  <2> DEFINE m == [seen[p] EXCEPT ![W(p)] = ToSet(cut[p])]
  <2>2. m \in Manifests /\ \A w \in Workspaces : IsEntry(m[w], w)
    BY <2>1, SavedEntry
  <2>3. manifest' \in {manifest, m, seen[p]}
    BY <1>19 DEF SaveStateFails, Saved
  <2>4. seen' = seen \/ \E place : Returns(p, place)
    BY <1>19 DEF SaveStateFails, Goes
  <2> HIDE DEF m
  <2> QED BY <2>2, <2>3, <2>4, RestSeen DEF EntryType
<1>20. ASSUME NEW p \in Procs, UndoSlot(p) PROVE EntryType'
  BY <1>20 DEF UndoSlot, AfterUndo, Goto, NextSlot
<1>21. ASSUME NEW p \in Procs, UndoSlotUnlocked(p) PROVE EntryType'
  BY <1>21 DEF UndoSlotUnlocked, AfterUndo, Goto, NextSlot
<1>22. ASSUME NEW p \in Procs, UndoDir(p) PROVE EntryType'
  BY <1>22 DEF UndoDir, Goto
<1>23. ASSUME NEW p \in Procs, CheckSlot(p) PROVE EntryType'
  BY <1>23 DEF CheckSlot, Goto
<1>24. ASSUME NEW p \in Procs, DestroySaves(p) PROVE EntryType'
  <2>1. pc[p] # "idle" /\ W(p) \in Workspaces
    BY <1>24, WFacts DEF DestroySaves
  <2> DEFINE m == [seen[p] EXCEPT ![W(p)] = NoEntry]
  <2>2. m \in Manifests /\ \A w \in Workspaces : IsEntry(m[w], w)
    BY <2>1, SavedEntry
  <2>3. manifest' \in {manifest, m, seen[p]}
    BY <1>24 DEF DestroySaves, Saved
  <2>4. seen' = seen \/ \E place : Returns(p, place)
    BY <1>24 DEF DestroySaves, Goes
  <2> HIDE DEF m
  <2> QED BY <2>2, <2>3, <2>4, RestSeen DEF EntryType
<1>25. ASSUME NEW p \in Procs, PurgeSlot(p) PROVE EntryType'
  BY <1>25 DEF PurgeSlot, Goto, NextSlot
<1>26. ASSUME NEW p \in Procs, PurgeDir(p) PROVE EntryType'
  BY <1>26 DEF PurgeDir, Goto
<1>27. ASSUME NEW p \in Procs, Kill(p) PROVE EntryType'
  BY <1>27 DEF Kill, Goto
<1>28. ASSUME NEW s \in Slots, People(s) PROVE EntryType'
  BY <1>28 DEF People, Work, PushWork, Delete, CleanTemp
<1>29. CASE UNCHANGED vars
  BY <1>29 DEF vars
<1> HIDE DEF PcType, OpType, EntryType, Resting, asked, locals, going, disk
<1> QED BY <1>1, <1>2, <1>3, <1>4, <1>5, <1>6, <1>7, <1>8, <1>9, <1>10, <1>11, <1>12,
           <1>13, <1>14, <1>15, <1>16, <1>17, <1>18, <1>19, <1>20, <1>21, <1>22, <1>23, <1>24,
           <1>25, <1>26, <1>27, <1>28, <1>29 DEF Next, Step

-----------------------------------------------------------------------------
(* Control: what a step changes of the process that takes it, and of others.  *)

Kept(q) == UNCHANGED <<pc[q], op[q], seen[q], guard[q], todo[q], dest[q], cut[q]>>

LEMMA ReturnsMine ==
  ASSUME TypeInv, NEW p \in Procs, NEW place \in Resting, Returns(p, place)
  PROVE  /\ pc'[p] = place /\ guard'[p] = None /\ dest'[p] = NoDest /\ todo'[p] = {} /\ cut'[p] = <<>>
         /\ op'[p].n = op[p].n
         /\ place = "failed" => op'[p] = op[p] /\ seen'[p] = seen[p]
         /\ place = "idle" => op'[p].kind = "none"
<1>1. pc'[p] = place /\ guard'[p] = None /\ dest'[p] = NoDest /\ todo'[p] = {} /\ cut'[p] = <<>>
  BY DEF TypeInv, PcType, GuardType, TodoType, CutType, Returns, Goto
<1>2. CASE place = "failed"
  BY <1>1, <1>2 DEF Returns, asked
<1>3. CASE place # "failed"
  <2>1. op'[p] = [NoOp EXCEPT !.n = op[p].n] /\ op[p] \in Asks
    BY <1>3 DEF TypeInv, OpType, Returns
  <2>2. op'[p].n = op[p].n /\ op'[p].kind = "none"
    BY <2>1, RestFacts
  <2> QED BY <1>1, <1>3, <2>2
<1> QED BY <1>2, <1>3

LEMMA ReturnsOthers ==
  ASSUME TypeInv, NEW p \in Procs, NEW place, Returns(p, place), NEW q \in Procs, q # p
  PROVE  Kept(q)
<1>1. UNCHANGED <<op[q], seen[q]>>
  BY DEF TypeInv, OpType, EntryType, Returns, asked
<1> QED BY <1>1 DEF TypeInv, PcType, GuardType, TodoType, CutType, Returns, Goto, Kept

LEMMA NextMine ==
  ASSUME TypeInv, NEW p \in Procs, NextSlot(p)
  PROVE  /\ pc'[p] = "slots" /\ todo'[p] = todo[p] \ {S(p)} /\ dest'[p] = NoDest
         /\ UNCHANGED <<op, seen, guard>>
         /\ \A q \in Procs \ {p} : UNCHANGED <<pc[q], todo[q], dest[q]>>
  BY DEF TypeInv, PcType, GuardType, TodoType, NextSlot, Goto, asked

LEMMA GoesMine ==
  ASSUME TypeInv, NEW p \in Procs, NEW place, Goes(p, place)
  PROVE  /\ pc'[p] = place /\ UNCHANGED <<op, seen, guard, todo, dest, cut>>
         /\ \A q \in Procs \ {p} : pc'[q] = pc[q]
  BY DEF TypeInv, PcType, Goes, Goto, asked, locals

LEMMA FailsMine ==
  ASSUME TypeInv, NEW p \in Procs, SlotFails(p)
  PROVE  /\ UNCHANGED <<op, seen, guard, cut>> /\ pc'[p] \in {"slots", "undo"}
         /\ pc'[p] = "undo" => op[p].kind = "create" /\ todo'[p] = todo[p] /\ dest'[p] = dest[p]
         /\ pc'[p] = "slots" => todo'[p] = todo[p] \ {S(p)} /\ dest'[p] = NoDest
         /\ \A q \in Procs \ {p} : UNCHANGED <<pc[q], todo[q], dest[q]>>
<1>1. CASE NextSlot(p)
  BY <1>1, NextMine DEF SlotFails
<1>2. CASE ~NextSlot(p)
  BY <1>2, GoesMine DEF SlotFails
<1> QED BY <1>1, <1>2


LEMMA CreateBeginsMine ==
  ASSUME TypeInv, NEW p \in Procs, NEW w \in Workspaces, NEW sync \in BOOLEAN, CreateBegins(p, w, sync)
  PROVE  /\ pc[p] \in Resting /\ op[p].n < MaxOps /\ <<p, w>> \in Serves /\ pc'[p] = "mkdir"
         /\ op'[p].n = op[p].n + 1 /\ op'[p].kind = "create" /\ op'[p].w = w /\ (op'[p].sync <=> sync) /\ (op'[p].purge <=> FALSE)
         /\ seen'[p] = manifest /\ guard'[p] = dir[w] /\ todo'[p] = SlotSet(w) /\ cut'[p] = <<>> /\ dest'[p] = NoDest
         /\ manifest[w] = NoEntry \/ dir[w] = None
         /\ UNCHANGED <<dir, slot, reg, stage, manifest, lock, broken>>
<1> USE DEF CreateBegins, Begin
<1>1. op'[p] = [n |-> op[p].n + 1, kind |-> "create", w |-> w, sync |-> sync, purge |-> FALSE]
  BY DEF TypeInv, OpType
<1>2. /\ op'[p].n = op[p].n + 1 /\ op'[p].kind = "create" /\ op'[p].w = w
      /\ (op'[p].sync <=> sync) /\ (op'[p].purge <=> FALSE)
  BY <1>1
<1> QED BY <1>2 DEF TypeInv, PcType, EntryType, GuardType, TodoType, CutType, Goto, disk

LEMMA DestroyBeginsMine ==
  ASSUME TypeInv, NEW p \in Procs, NEW w \in Workspaces, NEW purge \in BOOLEAN, DestroyBegins(p, w, purge)
  PROVE  /\ pc[p] \in Resting /\ op[p].n < MaxOps /\ <<p, w>> \in Serves /\ pc'[p] = "check"
         /\ op'[p].n = op[p].n + 1 /\ op'[p].kind = "destroy" /\ op'[p].w = w /\ (op'[p].sync <=> FALSE) /\ (op'[p].purge <=> purge)
         /\ seen'[p] = manifest /\ guard'[p] = dir[w] /\ todo'[p] = manifest[w] /\ cut'[p] = <<>> /\ dest'[p] = NoDest
         /\ manifest[w] # NoEntry
         /\ UNCHANGED <<dir, slot, reg, stage, manifest, lock, broken>>
<1> USE DEF DestroyBegins, Begin
<1>1. op'[p] = [n |-> op[p].n + 1, kind |-> "destroy", w |-> w, sync |-> FALSE, purge |-> purge]
  BY DEF TypeInv, OpType
<1>2. /\ op'[p].n = op[p].n + 1 /\ op'[p].kind = "destroy" /\ op'[p].w = w
      /\ (op'[p].sync <=> FALSE) /\ (op'[p].purge <=> purge)
  BY <1>1
<1> QED BY <1>2 DEF TypeInv, PcType, EntryType, GuardType, TodoType, CutType, Goto, disk

LEMMA RepairBeginsMine ==
  ASSUME TypeInv, NEW p \in Procs, NEW w \in Workspaces, RepairBegins(p, w)
  PROVE  /\ pc[p] \in Resting /\ op[p].n < MaxOps /\ <<p, w>> \in Serves /\ pc'[p] = "slots"
         /\ op'[p].n = op[p].n + 1 /\ op'[p].kind = "repair" /\ op'[p].w = w /\ (op'[p].sync <=> FALSE) /\ (op'[p].purge <=> FALSE)
         /\ seen'[p] = manifest /\ guard'[p] = dir[w] /\ todo'[p] = manifest[w] /\ cut'[p] = <<>> /\ dest'[p] = NoDest
         /\ manifest[w] # NoEntry /\ dir[w] # None
         /\ UNCHANGED <<dir, slot, reg, stage, manifest, lock, broken>>
<1> USE DEF RepairBegins, Begin
<1>1. op'[p] = [n |-> op[p].n + 1, kind |-> "repair", w |-> w, sync |-> FALSE, purge |-> FALSE]
  BY DEF TypeInv, OpType
<1>2. /\ op'[p].n = op[p].n + 1 /\ op'[p].kind = "repair" /\ op'[p].w = w
      /\ (op'[p].sync <=> FALSE) /\ (op'[p].purge <=> FALSE)
  BY <1>1
<1> QED BY <1>2 DEF TypeInv, PcType, EntryType, GuardType, TodoType, CutType, Goto, disk

LEMMA BeginOthers ==
  ASSUME TypeInv, NEW p \in Procs, NEW w, NEW kind, NEW sync, NEW purge, NEW slots, NEW place,
         Begin(p, w, kind, sync, purge, slots, place), NEW q \in Procs, q # p
  PROVE  Kept(q)
  BY DEF TypeInv, PcType, OpType, EntryType, GuardType, TodoType, CutType, Begin, Goto, Kept

LEMMA PeopleKeep == ASSUME NEW s, People(s), NEW q PROVE Kept(q)
  BY DEF People, Work, PushWork, Delete, CleanTemp, Kept, going, asked, locals

LEMMA OthersKept ==
  ASSUME TypeInv, NEW p \in Procs, Step(p), NEW q \in Procs, q # p
  PROVE  Kept(q)
<1>1. ASSUME NEW w \in Workspaces, NEW sync, NEW purge,
             CreateBegins(p, w, sync) \/ DestroyBegins(p, w, purge) \/ RepairBegins(p, w)
      PROVE  Kept(q)
  BY <1>1, BeginOthers DEF CreateBegins, DestroyBegins, RepairBegins
<1> USE ReturnsOthers, NextMine, GoesMine, FailsMine DEF Kept
<1>2. ASSUME MakeDir(p) PROVE Kept(q)
  BY <1>2 DEF MakeDir, Goto, locals, asked, TypeInv, PcType, GuardType, TodoType, CutType
<1>3. ASSUME LookAtSlot(p) PROVE Kept(q)
  BY <1>3 DEF LookAtSlot, Goto, locals, asked, TypeInv, PcType, GuardType, TodoType, CutType
<1>4. ASSUME LookAtSlotFails(p) PROVE Kept(q)
  BY <1>4 DEF LookAtSlotFails, Goto, locals, asked, TypeInv, PcType, GuardType, TodoType, CutType
<1>5. ASSUME TakeLock(p) PROVE Kept(q)
  BY <1>5 DEF TakeLock, Goto, locals, asked, TypeInv, PcType, GuardType, TodoType, CutType
<1>6. ASSUME LockFails(p) PROVE Kept(q)
  BY <1>6 DEF LockFails, Goto, locals, asked, TypeInv, PcType, GuardType, TodoType, CutType
<1>7. ASSUME Settle(p) PROVE Kept(q)
  BY <1>7 DEF Settle, Goto, locals, asked, TypeInv, PcType, GuardType, TodoType, CutType
<1>8. ASSUME Stage(p) PROVE Kept(q)
  BY <1>8 DEF Stage, Goto, locals, asked, TypeInv, PcType, GuardType, TodoType, CutType
<1>9. ASSUME Install(p) PROVE Kept(q)
  BY <1>9 DEF Install, Goto, locals, asked, TypeInv, PcType, GuardType, TodoType, CutType
<1>10. ASSUME Register(p) PROVE Kept(q)
  BY <1>10 DEF Register, Goto, locals, asked, TypeInv, PcType, GuardType, TodoType, CutType
<1>11. ASSUME AddFails(p) PROVE Kept(q)
  BY <1>11 DEF AddFails, Goto, locals, asked, TypeInv, PcType, GuardType, TodoType, CutType
<1>12. ASSUME Ready(p) PROVE Kept(q)
  BY <1>12 DEF Ready, Goto, locals, asked, TypeInv, PcType, GuardType, TodoType, CutType
<1>13. ASSUME RepairEnds(p) PROVE Kept(q)
  BY <1>13 DEF RepairEnds, Goto, locals, asked, TypeInv, PcType, GuardType, TodoType, CutType
<1>14. ASSUME Render(p) PROVE Kept(q)
  BY <1>14 DEF Render, Goto, locals, asked, TypeInv, PcType, GuardType, TodoType, CutType
<1>15. ASSUME Save(p) PROVE Kept(q)
  BY <1>15 DEF Save, Goto, locals, asked, TypeInv, PcType, GuardType, TodoType, CutType
<1>16. ASSUME SaveState(p) PROVE Kept(q)
  BY <1>16 DEF SaveState, Goto, locals, asked, TypeInv, PcType, GuardType, TodoType, CutType
<1>17. ASSUME SaveStateFails(p) PROVE Kept(q)
  BY <1>17 DEF SaveStateFails, Goto, locals, asked, TypeInv, PcType, GuardType, TodoType, CutType
<1>18. ASSUME UndoSlot(p) PROVE Kept(q)
  BY <1>18 DEF UndoSlot, AfterUndo, Goto, locals, asked, TypeInv, PcType, GuardType, TodoType, CutType
<1>19. ASSUME UndoSlotUnlocked(p) PROVE Kept(q)
  BY <1>19 DEF UndoSlotUnlocked, AfterUndo, Goto, locals, asked, TypeInv, PcType, GuardType, TodoType, CutType
<1>20. ASSUME UndoDir(p) PROVE Kept(q)
  BY <1>20 DEF UndoDir, Goto, locals, asked, TypeInv, PcType, GuardType, TodoType, CutType
<1>21. ASSUME CheckSlot(p) PROVE Kept(q)
  BY <1>21 DEF CheckSlot, Goto, locals, asked, TypeInv, PcType, GuardType, TodoType, CutType
<1>22. ASSUME DestroySaves(p) PROVE Kept(q)
  BY <1>22 DEF DestroySaves, Goto, locals, asked, TypeInv, PcType, GuardType, TodoType, CutType
<1>23. ASSUME PurgeSlot(p) PROVE Kept(q)
  BY <1>23 DEF PurgeSlot, Goto, locals, asked, TypeInv, PcType, GuardType, TodoType, CutType
<1>24. ASSUME PurgeDir(p) PROVE Kept(q)
  BY <1>24 DEF PurgeDir, Goto, locals, asked, TypeInv, PcType, GuardType, TodoType, CutType
<1>25. ASSUME Kill(p) PROVE Kept(q)
  BY <1>25 DEF Kill, Goto, locals, asked, TypeInv, PcType, GuardType, TodoType, CutType
<1> HIDE DEF Kept
<1> QED BY <1>1, <1>2, <1>3, <1>4, <1>5, <1>6, <1>7, <1>8, <1>9, <1>10, <1>11, <1>12,
           <1>13, <1>14, <1>15, <1>16, <1>17, <1>18, <1>19, <1>20, <1>21, <1>22, <1>23, <1>24,
           <1>25 DEF Step

(* The macros of a step, together.                                            *)
LEMMA MineFacts ==
  ASSUME TypeInv, NEW p \in Procs
  PROVE  /\ op[p].kind \in {"none", "create", "repair", "destroy"} /\ op[p].n \in Nat /\ op[p].purge \in BOOLEAN
         /\ \A place \in Resting : Returns(p, place) =>
              /\ pc'[p] = place /\ guard'[p] = None /\ dest'[p] = NoDest /\ todo'[p] = {} /\ cut'[p] = <<>>
              /\ op'[p].n = op[p].n
              /\ place = "failed" => op'[p] = op[p] /\ seen'[p] = seen[p]
              /\ place = "idle" => op'[p].kind = "none"
         /\ NextSlot(p) => /\ pc'[p] = "slots" /\ todo'[p] = todo[p] \ {S(p)} /\ dest'[p] = NoDest
                           /\ UNCHANGED <<op, seen, guard>>
         /\ SlotFails(p) => /\ UNCHANGED <<op, seen, guard, cut>> /\ pc'[p] \in {"slots", "undo"}
                            /\ pc'[p] = "undo" => /\ op[p].kind = "create" /\ todo'[p] = todo[p]
                                                  /\ dest'[p] = dest[p]
                            /\ pc'[p] = "slots" => todo'[p] = todo[p] \ {S(p)} /\ dest'[p] = NoDest
         /\ \A place : Goes(p, place) => pc'[p] = place /\ UNCHANGED <<op, seen, guard, todo, dest, cut>>
         /\ \A place : Goto(p, place) => pc'[p] = place
<1>1. op[p].kind \in {"none", "create", "repair", "destroy"} /\ op[p].n \in Nat /\ op[p].purge \in BOOLEAN
  BY WorkspaceAssumption DEF TypeInv, OpType, Asks, Kinds
<1> QED BY <1>1, ReturnsMine, NextMine, FailsMine, GoesMine DEF Goto, TypeInv, PcType

LEMMA LockStep ==
  ASSUME PcType, OpType, MarkType, LockInv, [Next]_vars
  PROVE  LockInv'
<1> USE PcType, OpType, MarkType, LockInv, WorkspaceAssumption DEF PcType, MarkType, LockInv, UnderLock, Resting, asked, locals, going, disk
<1>1. ASSUME NEW p \in Procs, NEW w \in Workspaces, NEW sync \in BOOLEAN,
             CreateBegins(p, w, sync)
      PROVE  LockInv'
  BY <1>1 DEF CreateBegins, Begin, Goto
<1>2. ASSUME NEW p \in Procs, NEW w \in Workspaces, NEW purge \in BOOLEAN,
             DestroyBegins(p, w, purge)
      PROVE  LockInv'
  BY <1>2 DEF DestroyBegins, Begin, Goto
<1>3. ASSUME NEW p \in Procs, NEW w \in Workspaces, RepairBegins(p, w)
      PROVE  LockInv'
  BY <1>3 DEF RepairBegins, Begin, Goto
<1>4. ASSUME NEW p \in Procs, MakeDir(p) PROVE LockInv'
  BY <1>4 DEF MakeDir, Goes, Goto, Returns
<1>5. ASSUME NEW p \in Procs, LookAtSlot(p) PROVE LockInv'
  BY <1>5 DEF LookAtSlot, NextSlot, SlotFails, Goes, Goto
<1>6. ASSUME NEW p \in Procs, LookAtSlotFails(p) PROVE LockInv'
  BY <1>6 DEF LookAtSlotFails, NextSlot, SlotFails, Goes, Goto
<1>7. ASSUME NEW p \in Procs, TakeLock(p) PROVE LockInv'
  BY <1>7 DEF TakeLock, Goes, Goto
<1>8. ASSUME NEW p \in Procs, LockFails(p) PROVE LockInv'
  BY <1>8 DEF LockFails, NextSlot, SlotFails, Goes, Goto
<1>9. ASSUME NEW p \in Procs, Settle(p) PROVE LockInv'
  BY <1>9 DEF Settle, NextSlot, SlotFails, Goes, Goto
<1>10. ASSUME NEW p \in Procs, Stage(p) PROVE LockInv'
  BY <1>10 DEF Stage, NextSlot, SlotFails, Goes, Goto
<1>11. ASSUME NEW p \in Procs, Install(p) PROVE LockInv'
  BY <1>11 DEF Install, Goes, Goto
<1>12. ASSUME NEW p \in Procs, Register(p) PROVE LockInv'
  BY <1>12 DEF Register, NextSlot, Goto
<1>13. ASSUME NEW p \in Procs, AddFails(p) PROVE LockInv'
  BY <1>13 DEF AddFails, NextSlot, SlotFails, Goes, Goto
<1>14. ASSUME NEW p \in Procs, Ready(p) PROVE LockInv'
  BY <1>14 DEF Ready, NextSlot, Goes, Goto
<1>15. ASSUME NEW p \in Procs, RepairEnds(p) PROVE LockInv'
  BY <1>15 DEF RepairEnds, Returns, Goto
<1>16. ASSUME NEW p \in Procs, Render(p) PROVE LockInv'
  BY <1>16 DEF Render, Goes, Goto
<1>17. ASSUME NEW p \in Procs, Save(p) PROVE LockInv'
  BY <1>17 DEF Save, Goes, Goto
<1>18. ASSUME NEW p \in Procs, SaveState(p) PROVE LockInv'
  BY <1>18 DEF SaveState, Returns, Goto
<1>19. ASSUME NEW p \in Procs, SaveStateFails(p) PROVE LockInv'
  BY <1>19 DEF SaveStateFails, Goes, Goto
<1>20. ASSUME NEW p \in Procs, UndoSlot(p) PROVE LockInv'
  BY <1>20 DEF UndoSlot, AfterUndo, NextSlot, Goto
<1>21. ASSUME NEW p \in Procs, UndoSlotUnlocked(p) PROVE LockInv'
  BY <1>21 DEF UndoSlotUnlocked, AfterUndo, NextSlot, Goto
<1>22. ASSUME NEW p \in Procs, UndoDir(p) PROVE LockInv'
  BY <1>22 DEF UndoDir, Returns, Goto
<1>23. ASSUME NEW p \in Procs, CheckSlot(p) PROVE LockInv'
  BY <1>23 DEF CheckSlot, Returns, Goto
<1>24. ASSUME NEW p \in Procs, DestroySaves(p) PROVE LockInv'
  BY <1>24 DEF DestroySaves, Returns, Goto
<1>25. ASSUME NEW p \in Procs, PurgeSlot(p) PROVE LockInv'
  BY <1>25 DEF PurgeSlot, NextSlot, Goto
<1>26. ASSUME NEW p \in Procs, PurgeDir(p) PROVE LockInv'
  BY <1>26 DEF PurgeDir, Returns, Goto
<1>27. ASSUME NEW p \in Procs, Kill(p) PROVE LockInv'
  BY <1>27 DEF Kill, Returns, Goto
<1>28. ASSUME NEW s \in Slots, People(s) PROVE LockInv'
  BY <1>28 DEF People, Work, PushWork, Delete, CleanTemp
<1>29. CASE UNCHANGED vars
  BY <1>29 DEF vars
<1> HIDE DEF PcType, MarkType, LockInv, UnderLock, Resting, asked, locals, going, disk
<1> QED BY <1>1, <1>2, <1>3, <1>4, <1>5, <1>6, <1>7, <1>8, <1>9, <1>10, <1>11, <1>12,
           <1>13, <1>14, <1>15, <1>16, <1>17, <1>18, <1>19, <1>20, <1>21, <1>22, <1>23, <1>24,
           <1>25, <1>26, <1>27, <1>28, <1>29 DEF Next, Step

LEMMA KindStep ==
  ASSUME TypeInv, KindInv, HandInv, [Next]_vars
  PROVE  KindInv'
<1> USE TypeInv, KindInv, HandInv, WorkspaceAssumption
<1>1. ASSUME NEW p \in Procs, Step(p), NEW q \in Procs, q # p PROVE KindOf(q)'
  BY <1>1, OthersKept DEF KindInv, KindOf, Kept, W, S, Me
<1> USE MineFacts DEF KindInv, KindOf, HandInv, HandOf, Resting, W, asked, locals, disk
<1>2. ASSUME NEW p \in Procs, NEW w \in Workspaces, NEW sync \in BOOLEAN,
             CreateBegins(p, w, sync)
      PROVE  KindOf(p)'
  <2>1. /\ pc[p] \in Resting /\ <<p, w>> \in Serves /\ pc'[p] = "mkdir"
        /\ op'[p].n = op[p].n + 1 /\ op'[p].kind = "create" /\ op'[p].w = w
        /\ seen'[p] = manifest /\ guard'[p] = dir[w] /\ todo'[p] = SlotSet(w) /\ cut'[p] = <<>> /\ dest'[p] = NoDest
        /\ (manifest[w] = NoEntry \/ dir[w] = None) /\ UNCHANGED <<dir, slot, reg, stage, manifest, lock, broken>>
    BY ONLY TypeInv, <1>2, CreateBeginsMine
  <2> QED BY <2>1
<1>3. ASSUME NEW p \in Procs, NEW w \in Workspaces, NEW purge \in BOOLEAN,
             DestroyBegins(p, w, purge)
      PROVE  KindOf(p)'
  <2>1. /\ pc[p] \in Resting /\ <<p, w>> \in Serves /\ pc'[p] = "check"
        /\ op'[p].n = op[p].n + 1 /\ op'[p].kind = "destroy" /\ op'[p].w = w
        /\ seen'[p] = manifest /\ guard'[p] = dir[w] /\ todo'[p] = manifest[w] /\ cut'[p] = <<>> /\ dest'[p] = NoDest
        /\ (manifest[w] # NoEntry) /\ UNCHANGED <<dir, slot, reg, stage, manifest, lock, broken>>
    BY ONLY TypeInv, <1>3, DestroyBeginsMine
  <2> QED BY <2>1
<1>4. ASSUME NEW p \in Procs, NEW w \in Workspaces, RepairBegins(p, w)
      PROVE  KindOf(p)'
  <2>1. /\ pc[p] \in Resting /\ <<p, w>> \in Serves /\ pc'[p] = "slots"
        /\ op'[p].n = op[p].n + 1 /\ op'[p].kind = "repair" /\ op'[p].w = w
        /\ seen'[p] = manifest /\ guard'[p] = dir[w] /\ todo'[p] = manifest[w] /\ cut'[p] = <<>> /\ dest'[p] = NoDest
        /\ (manifest[w] # NoEntry /\ dir[w] # None) /\ UNCHANGED <<dir, slot, reg, stage, manifest, lock, broken>>
    BY ONLY TypeInv, <1>4, RepairBeginsMine
  <2> QED BY <2>1
<1>5. ASSUME NEW p \in Procs, MakeDir(p) PROVE KindOf(p)'
  BY <1>5 DEF MakeDir
<1>6. ASSUME NEW p \in Procs, LookAtSlot(p) PROVE KindOf(p)'
  BY <1>6 DEF LookAtSlot
<1>7. ASSUME NEW p \in Procs, LookAtSlotFails(p) PROVE KindOf(p)'
  BY <1>7 DEF LookAtSlotFails
<1>8. ASSUME NEW p \in Procs, TakeLock(p) PROVE KindOf(p)'
  BY <1>8 DEF TakeLock
<1>9. ASSUME NEW p \in Procs, LockFails(p) PROVE KindOf(p)'
  BY <1>9 DEF LockFails
<1>10. ASSUME NEW p \in Procs, Settle(p) PROVE KindOf(p)'
  <2>1. CASE SlotFails(p)
    BY <1>10, <2>1 DEF Settle, disk
  <2>2. CASE ~SlotFails(p)
    BY <1>10, <2>2 DEF Settle, disk
  <2> QED BY <2>1, <2>2
<1>11. ASSUME NEW p \in Procs, Stage(p) PROVE KindOf(p)'
  BY <1>11 DEF Stage
<1>12. ASSUME NEW p \in Procs, Install(p) PROVE KindOf(p)'
  BY <1>12 DEF Install
<1>13. ASSUME NEW p \in Procs, Register(p) PROVE KindOf(p)'
  BY <1>13 DEF Register
<1>14. ASSUME NEW p \in Procs, AddFails(p) PROVE KindOf(p)'
  BY <1>14 DEF AddFails
<1>15. ASSUME NEW p \in Procs, Ready(p) PROVE KindOf(p)'
  BY <1>15 DEF Ready
<1>16. ASSUME NEW p \in Procs, RepairEnds(p) PROVE KindOf(p)'
  BY <1>16 DEF RepairEnds
<1>17. ASSUME NEW p \in Procs, Render(p) PROVE KindOf(p)'
  BY <1>17 DEF Render
<1>18. ASSUME NEW p \in Procs, Save(p) PROVE KindOf(p)'
  BY <1>18 DEF Save
<1>19. ASSUME NEW p \in Procs, SaveState(p) PROVE KindOf(p)'
  BY <1>19 DEF SaveState
<1>20. ASSUME NEW p \in Procs, SaveStateFails(p) PROVE KindOf(p)'
  BY <1>20 DEF SaveStateFails
<1>21. ASSUME NEW p \in Procs, UndoSlot(p) PROVE KindOf(p)'
  BY <1>21 DEF UndoSlot, AfterUndo
<1>22. ASSUME NEW p \in Procs, UndoSlotUnlocked(p) PROVE KindOf(p)'
  BY <1>22 DEF UndoSlotUnlocked, AfterUndo
<1>23. ASSUME NEW p \in Procs, UndoDir(p) PROVE KindOf(p)'
  BY <1>23 DEF UndoDir
<1>24. ASSUME NEW p \in Procs, CheckSlot(p) PROVE KindOf(p)'
  BY <1>24 DEF CheckSlot
<1>25. ASSUME NEW p \in Procs, DestroySaves(p) PROVE KindOf(p)'
  <2>1. CASE Returns(p, "idle")
    BY <1>25, <2>1 DEF DestroySaves, disk
  <2>2. CASE ~Returns(p, "idle")
    BY <1>25, <2>2 DEF DestroySaves, disk
  <2> QED BY <2>1, <2>2
<1>26. ASSUME NEW p \in Procs, PurgeSlot(p) PROVE KindOf(p)'
  BY <1>26 DEF PurgeSlot
<1>27. ASSUME NEW p \in Procs, PurgeDir(p) PROVE KindOf(p)'
  BY <1>27 DEF PurgeDir
<1>28. ASSUME NEW p \in Procs, Kill(p) PROVE KindOf(p)'
  BY <1>28 DEF Kill
<1>29. ASSUME NEW s \in Slots, People(s), NEW q \in Procs PROVE KindOf(q)'
  BY <1>29, PeopleKeep DEF Kept, W, S, Me
<1>30. ASSUME UNCHANGED vars, NEW q \in Procs PROVE KindOf(q)'
  BY <1>30 DEF vars, going, asked, W, S, Me
<1> HIDE DEF KindInv, KindOf, HandInv, HandOf, Resting, W, asked, locals, disk
<1>31. ASSUME NEW p \in Procs, Step(p) PROVE KindOf(p)'
  BY <1>31, <1>2, <1>3, <1>4, <1>5, <1>6, <1>7, <1>8, <1>9, <1>10, <1>11, <1>12, <1>13,
     <1>14, <1>15, <1>16, <1>17, <1>18, <1>19, <1>20, <1>21, <1>22, <1>23, <1>24, <1>25,
     <1>26, <1>27, <1>28 DEF Step
<1> QED BY <1>1, <1>29, <1>30, <1>31 DEF Next, KindInv

LEMMA HandStep ==
  ASSUME TypeInv, KindInv, HandInv, [Next]_vars
  PROVE  HandInv'
<1> USE TypeInv, KindInv, HandInv, WorkspaceAssumption
<1>1. ASSUME NEW p \in Procs, Step(p), NEW q \in Procs, q # p PROVE HandOf(q)'
  BY <1>1, OthersKept DEF HandInv, HandOf, Kept, W, S, Me
<1> USE MineFacts, AppendFacts, HandFacts DEF HandInv, HandOf, KindInv, KindOf, Resting, asked, locals, disk
<1>2. ASSUME NEW p \in Procs, NEW w \in Workspaces, NEW sync \in BOOLEAN,
             CreateBegins(p, w, sync)
      PROVE  HandOf(p)'
  <2>1. /\ pc[p] \in Resting /\ <<p, w>> \in Serves /\ pc'[p] = "mkdir"
        /\ op'[p].n = op[p].n + 1 /\ op'[p].kind = "create" /\ op'[p].w = w
        /\ seen'[p] = manifest /\ guard'[p] = dir[w] /\ todo'[p] = SlotSet(w) /\ cut'[p] = <<>> /\ dest'[p] = NoDest
        /\ (manifest[w] = NoEntry \/ dir[w] = None) /\ UNCHANGED <<dir, slot, reg, stage, manifest, lock, broken>>
    BY ONLY TypeInv, <1>2, CreateBeginsMine
  <2> QED BY <2>1
<1>3. ASSUME NEW p \in Procs, NEW w \in Workspaces, NEW purge \in BOOLEAN,
             DestroyBegins(p, w, purge)
      PROVE  HandOf(p)'
  <2>1. /\ pc[p] \in Resting /\ <<p, w>> \in Serves /\ pc'[p] = "check"
        /\ op'[p].n = op[p].n + 1 /\ op'[p].kind = "destroy" /\ op'[p].w = w
        /\ seen'[p] = manifest /\ guard'[p] = dir[w] /\ todo'[p] = manifest[w] /\ cut'[p] = <<>> /\ dest'[p] = NoDest
        /\ (manifest[w] # NoEntry) /\ UNCHANGED <<dir, slot, reg, stage, manifest, lock, broken>>
    BY ONLY TypeInv, <1>3, DestroyBeginsMine
  <2> QED BY <2>1
<1>4. ASSUME NEW p \in Procs, NEW w \in Workspaces, RepairBegins(p, w)
      PROVE  HandOf(p)'
  <2>1. /\ pc[p] \in Resting /\ <<p, w>> \in Serves /\ pc'[p] = "slots"
        /\ op'[p].n = op[p].n + 1 /\ op'[p].kind = "repair" /\ op'[p].w = w
        /\ seen'[p] = manifest /\ guard'[p] = dir[w] /\ todo'[p] = manifest[w] /\ cut'[p] = <<>> /\ dest'[p] = NoDest
        /\ (manifest[w] # NoEntry /\ dir[w] # None) /\ UNCHANGED <<dir, slot, reg, stage, manifest, lock, broken>>
    BY ONLY TypeInv, <1>4, RepairBeginsMine
  <2> QED BY <2>1
<1>5. ASSUME NEW p \in Procs, MakeDir(p) PROVE HandOf(p)'
  BY <1>5 DEF MakeDir
<1>6. ASSUME NEW p \in Procs, LookAtSlot(p) PROVE HandOf(p)'
  BY <1>6 DEF LookAtSlot
<1>7. ASSUME NEW p \in Procs, LookAtSlotFails(p) PROVE HandOf(p)'
  BY <1>7 DEF LookAtSlotFails
<1>8. ASSUME NEW p \in Procs, TakeLock(p) PROVE HandOf(p)'
  BY <1>8 DEF TakeLock
<1>9. ASSUME NEW p \in Procs, LockFails(p) PROVE HandOf(p)'
  BY <1>9 DEF LockFails
<1>10. ASSUME NEW p \in Procs, Settle(p) PROVE HandOf(p)'
  <2>1. CASE SlotFails(p)
    BY <1>10, <2>1 DEF Settle, disk
  <2>2. CASE ~SlotFails(p)
    BY <1>10, <2>2 DEF Settle, disk
  <2> QED BY <2>1, <2>2
<1>11. ASSUME NEW p \in Procs, Stage(p) PROVE HandOf(p)'
  BY <1>11 DEF Stage
<1>12. ASSUME NEW p \in Procs, Install(p) PROVE HandOf(p)'
  BY <1>12 DEF Install
<1>13. ASSUME NEW p \in Procs, Register(p) PROVE HandOf(p)'
  <2>1. S(p) \in Slots /\ cut[p] \in Seq(Slots)
    BY <1>13, HandFacts DEF Register, TypeInv, CutType
  <2>2. Append(cut[p], S(p)) \in Seq(Slots) /\ Append(cut[p], S(p)) # <<>>
        /\ ToSet(Append(cut[p], S(p))) = ToSet(cut[p]) \cup {S(p)}
    BY <2>1, AppendFacts
  <2>3. pc'[p] \in {"ready", "slots"} /\ op' = op /\ cut'[p] = Append(cut[p], S(p))
    BY <1>13 DEF Register, TypeInv, CutType
  <2> HIDE DEF S
  <2> QED BY <1>13, <2>2, <2>3
<1>14. ASSUME NEW p \in Procs, AddFails(p) PROVE HandOf(p)'
  BY <1>14 DEF AddFails
<1>15. ASSUME NEW p \in Procs, Ready(p) PROVE HandOf(p)'
  BY <1>15 DEF Ready
<1>16. ASSUME NEW p \in Procs, RepairEnds(p) PROVE HandOf(p)'
  BY <1>16 DEF RepairEnds
<1>17. ASSUME NEW p \in Procs, Render(p) PROVE HandOf(p)'
  BY <1>17 DEF Render
<1>18. ASSUME NEW p \in Procs, Save(p) PROVE HandOf(p)'
  <2>1. pc[p] \in {"save", "state"} /\ \E place \in {"state", "undo"} : Goes(p, place)
    BY ONLY <1>18 DEF Save
  <2>2. pc'[p] \in {"state", "undo"} /\ UNCHANGED <<op, seen, guard, todo, dest, cut>>
    BY ONLY <2>1, TypeInv, GoesMine
  <2> QED BY <2>1, <2>2
<1>19. ASSUME NEW p \in Procs, SaveState(p) PROVE HandOf(p)'
  BY <1>19 DEF SaveState
<1>20. ASSUME NEW p \in Procs, SaveStateFails(p) PROVE HandOf(p)'
  <2>1. pc[p] \in {"save", "state"} /\ \E place \in {"state", "undo"} : Goes(p, place)
    BY ONLY <1>20 DEF SaveStateFails
  <2>2. pc'[p] \in {"state", "undo"} /\ UNCHANGED <<op, seen, guard, todo, dest, cut>>
    BY ONLY <2>1, TypeInv, GoesMine
  <2> QED BY <2>1, <2>2
<1>21. ASSUME NEW p \in Procs, UndoSlot(p) PROVE HandOf(p)'
  BY <1>21 DEF UndoSlot, AfterUndo
<1>22. ASSUME NEW p \in Procs, UndoSlotUnlocked(p) PROVE HandOf(p)'
  BY <1>22 DEF UndoSlotUnlocked, AfterUndo
<1>23. ASSUME NEW p \in Procs, UndoDir(p) PROVE HandOf(p)'
  BY <1>23 DEF UndoDir
<1>24. ASSUME NEW p \in Procs, CheckSlot(p) PROVE HandOf(p)'
  BY <1>24 DEF CheckSlot
<1>25. ASSUME NEW p \in Procs, DestroySaves(p) PROVE HandOf(p)'
  <2>1. CASE Returns(p, "idle")
    BY <1>25, <2>1 DEF DestroySaves, disk
  <2>2. CASE ~Returns(p, "idle")
    BY <1>25, <2>2 DEF DestroySaves, disk
  <2> QED BY <2>1, <2>2
<1>26. ASSUME NEW p \in Procs, PurgeSlot(p) PROVE HandOf(p)'
  BY <1>26 DEF PurgeSlot
<1>27. ASSUME NEW p \in Procs, PurgeDir(p) PROVE HandOf(p)'
  BY <1>27 DEF PurgeDir
<1>28. ASSUME NEW p \in Procs, Kill(p) PROVE HandOf(p)'
  BY <1>28 DEF Kill
<1>29. ASSUME NEW s \in Slots, People(s), NEW q \in Procs PROVE HandOf(q)'
  BY <1>29, PeopleKeep DEF Kept, W, S, Me
<1>30. ASSUME UNCHANGED vars, NEW q \in Procs PROVE HandOf(q)'
  BY <1>30 DEF vars, going, asked, W, S, Me
<1> HIDE DEF HandInv, HandOf, KindInv, KindOf, Resting, asked, locals, disk
<1>31. ASSUME NEW p \in Procs, Step(p) PROVE HandOf(p)'
  BY <1>31, <1>2, <1>3, <1>4, <1>5, <1>6, <1>7, <1>8, <1>9, <1>10, <1>11, <1>12, <1>13,
     <1>14, <1>15, <1>16, <1>17, <1>18, <1>19, <1>20, <1>21, <1>22, <1>23, <1>24, <1>25,
     <1>26, <1>27, <1>28 DEF Step
<1> QED BY <1>1, <1>29, <1>30, <1>31 DEF Next, HandInv

-----------------------------------------------------------------------------
(* What a step may do to what is on disk.                                     *)

LEMMA BeginDisk ==
  ASSUME NEW p \in Procs, NEW w \in Workspaces, NEW sync \in BOOLEAN, NEW purge \in BOOLEAN,
         CreateBegins(p, w, sync) \/ DestroyBegins(p, w, purge) \/ RepairBegins(p, w)
  PROVE  UNCHANGED <<dir, slot, reg, stage, manifest, lock, broken>> /\ pc[p] \in Resting
<1>1. ASSUME NEW kind, NEW s, NEW u, NEW slots, NEW place, Begin(p, w, kind, s, u, slots, place)
      PROVE  UNCHANGED <<dir, slot, reg, stage, manifest, lock, broken>> /\ pc[p] \in Resting
  BY <1>1 DEF Begin, disk
<1> QED BY <1>1 DEF CreateBegins, DestroyBegins, RepairBegins

LEMMA RemovedSlots ==
  ASSUME SlotType, NEW s \in Slots, NEW captured
  PROVE  /\ \A t \in Slots : Removed(s, captured)[t] = slot[t] \/ (t = s /\ Same(s, captured) /\ Removed(s, captured)[t] = NoSlot)
         /\ Same(s, captured) => Removed(s, captured)[s] = NoSlot
  BY DEF SlotType, Removed

LEMMA DirSteps ==
  ASSUME TypeInv, NEW p \in Procs, Step(p)
  PROVE  \A w \in Workspaces : dir'[w] # dir[w] =>
           w = W(p) /\ pc[p] \notin Resting /\ (dir'[w] = None \/ (dir[w] = None /\ dir'[w] = Me(p)))
<1> USE TypeInv, WorkspaceAssumption DEF TypeInv, DirType, disk, Resting
<1> DEFINE Goal ==
         \A w \in Workspaces : dir'[w] # dir[w] =>
           w = W(p) /\ pc[p] \notin Resting /\ (dir'[w] = None \/ (dir[w] = None /\ dir'[w] = Me(p)))
<1>1. ASSUME NEW w \in Workspaces, NEW sync \in BOOLEAN, NEW purge \in BOOLEAN,
             CreateBegins(p, w, sync) \/ DestroyBegins(p, w, purge) \/ RepairBegins(p, w)
      PROVE  Goal
  BY <1>1, BeginDisk
<1>2. ASSUME MakeDir(p) PROVE Goal
  BY <1>2 DEF MakeDir
<1>3. ASSUME LookAtSlot(p) PROVE Goal
  BY <1>3 DEF LookAtSlot
<1>4. ASSUME LookAtSlotFails(p) PROVE Goal
  BY <1>4 DEF LookAtSlotFails
<1>5. ASSUME TakeLock(p) PROVE Goal
  BY <1>5 DEF TakeLock
<1>6. ASSUME LockFails(p) PROVE Goal
  BY <1>6 DEF LockFails
<1>7. ASSUME Settle(p) PROVE Goal
  BY <1>7 DEF Settle
<1>8. ASSUME Stage(p) PROVE Goal
  BY <1>8 DEF Stage
<1>9. ASSUME Install(p) PROVE Goal
  BY <1>9 DEF Install
<1>10. ASSUME Register(p) PROVE Goal
  BY <1>10 DEF Register
<1>11. ASSUME AddFails(p) PROVE Goal
  BY <1>11 DEF AddFails
<1>12. ASSUME Ready(p) PROVE Goal
  BY <1>12 DEF Ready
<1>13. ASSUME RepairEnds(p) PROVE Goal
  BY <1>13 DEF RepairEnds
<1>14. ASSUME Render(p) PROVE Goal
  BY <1>14 DEF Render
<1>15. ASSUME Save(p) PROVE Goal
  BY <1>15 DEF Save
<1>16. ASSUME SaveState(p) PROVE Goal
  BY <1>16 DEF SaveState
<1>17. ASSUME SaveStateFails(p) PROVE Goal
  BY <1>17 DEF SaveStateFails
<1>18. ASSUME UndoSlot(p) PROVE Goal
  BY <1>18 DEF UndoSlot, AfterUndo
<1>19. ASSUME UndoSlotUnlocked(p) PROVE Goal
  BY <1>19 DEF UndoSlotUnlocked, AfterUndo
<1>20. ASSUME UndoDir(p) PROVE Goal
  BY <1>20 DEF UndoDir
<1>21. ASSUME CheckSlot(p) PROVE Goal
  BY <1>21 DEF CheckSlot
<1>22. ASSUME DestroySaves(p) PROVE Goal
  BY <1>22 DEF DestroySaves
<1>23. ASSUME PurgeSlot(p) PROVE Goal
  BY <1>23 DEF PurgeSlot
<1>24. ASSUME PurgeDir(p) PROVE Goal
  BY <1>24 DEF PurgeDir
<1>25. ASSUME Kill(p) PROVE Goal
  BY <1>25 DEF Kill
<1> HIDE DEF Goal
<1>26. Goal
  BY ONLY Step(p), <1>1, <1>2, <1>3, <1>4, <1>5, <1>6, <1>7, <1>8, <1>9, <1>10, <1>11, <1>12,
     <1>13, <1>14, <1>15, <1>16, <1>17, <1>18, <1>19, <1>20, <1>21, <1>22, <1>23, <1>24,
     <1>25 DEF Step
<1> QED BY ONLY <1>26 DEF Goal

LEMMA SlotSteps ==
  ASSUME TypeInv, KindInv, HandInv, NEW p \in Procs, Step(p)
  PROVE  \A s \in Slots : slot'[s] # slot[s] =>
           /\ pc[p] \notin Resting
           /\ slot'[s] = NoSlot \/ (slot'[s] = Checkout(Me(p)) /\ pc[p] = "install" /\ s = S(p))
<1> USE TypeInv, KindInv, HandInv, WorkspaceAssumption, RemovedSlots, HandFacts DEF TypeInv, SlotType, disk, Resting
<1> DEFINE Goal ==
         \A s \in Slots : slot'[s] # slot[s] =>
           /\ pc[p] \notin Resting
           /\ slot'[s] = NoSlot \/ (slot'[s] = Checkout(Me(p)) /\ pc[p] = "install" /\ s = S(p))
<1>1. ASSUME NEW w \in Workspaces, NEW sync \in BOOLEAN, NEW purge \in BOOLEAN,
             CreateBegins(p, w, sync) \/ DestroyBegins(p, w, purge) \/ RepairBegins(p, w)
      PROVE  Goal
  BY <1>1, BeginDisk
<1>2. ASSUME MakeDir(p) PROVE Goal
  BY <1>2 DEF MakeDir
<1>3. ASSUME LookAtSlot(p) PROVE Goal
  BY <1>3 DEF LookAtSlot
<1>4. ASSUME LookAtSlotFails(p) PROVE Goal
  BY <1>4 DEF LookAtSlotFails
<1>5. ASSUME TakeLock(p) PROVE Goal
  BY <1>5 DEF TakeLock
<1>6. ASSUME LockFails(p) PROVE Goal
  BY <1>6 DEF LockFails
<1>7. ASSUME Settle(p) PROVE Goal
  BY <1>7 DEF Settle, Removed
<1>8. ASSUME Stage(p) PROVE Goal
  BY <1>8 DEF Stage
<1>9. ASSUME Install(p) PROVE Goal
  BY <1>9 DEF Install
<1>10. ASSUME Register(p) PROVE Goal
  BY <1>10 DEF Register
<1>11. ASSUME AddFails(p) PROVE Goal
  BY <1>11 DEF AddFails, Removed
<1>12. ASSUME Ready(p) PROVE Goal
  BY <1>12 DEF Ready
<1>13. ASSUME RepairEnds(p) PROVE Goal
  BY <1>13 DEF RepairEnds
<1>14. ASSUME Render(p) PROVE Goal
  BY <1>14 DEF Render
<1>15. ASSUME Save(p) PROVE Goal
  BY <1>15 DEF Save
<1>16. ASSUME SaveState(p) PROVE Goal
  BY <1>16 DEF SaveState
<1>17. ASSUME SaveStateFails(p) PROVE Goal
  BY <1>17 DEF SaveStateFails
<1>18. ASSUME UndoSlot(p) PROVE Goal
  BY <1>18 DEF UndoSlot, AfterUndo, Removed
<1>19. ASSUME UndoSlotUnlocked(p) PROVE Goal
  BY <1>19 DEF UndoSlotUnlocked, AfterUndo, Removed
<1>20. ASSUME UndoDir(p) PROVE Goal
  BY <1>20 DEF UndoDir, Emptied
<1>21. ASSUME CheckSlot(p) PROVE Goal
  BY <1>21 DEF CheckSlot
<1>22. ASSUME DestroySaves(p) PROVE Goal
  BY <1>22 DEF DestroySaves
<1>23. ASSUME PurgeSlot(p) PROVE Goal
  BY <1>23 DEF PurgeSlot, Removed
<1>24. ASSUME PurgeDir(p) PROVE Goal
  BY <1>24 DEF PurgeDir, Emptied
<1>25. ASSUME Kill(p) PROVE Goal
  BY <1>25 DEF Kill
<1> HIDE DEF Goal
<1>26. Goal
  BY ONLY Step(p), <1>1, <1>2, <1>3, <1>4, <1>5, <1>6, <1>7, <1>8, <1>9, <1>10, <1>11, <1>12,
     <1>13, <1>14, <1>15, <1>16, <1>17, <1>18, <1>19, <1>20, <1>21, <1>22, <1>23, <1>24,
     <1>25 DEF Step
<1> QED BY ONLY <1>26 DEF Goal

LEMMA RegSteps ==
  ASSUME TypeInv, KindInv, HandInv, NEW p \in Procs, Step(p)
  PROVE  \A s \in Slots : reg'[s] # reg[s] => pc[p] \in UnderLock
<1> USE TypeInv, KindInv, HandInv, WorkspaceAssumption DEF TypeInv, RegType, disk, UnderLock
<1> DEFINE Goal ==
         \A s \in Slots : reg'[s] # reg[s] => pc[p] \in UnderLock
<1>1. ASSUME NEW w \in Workspaces, NEW sync \in BOOLEAN, NEW purge \in BOOLEAN,
             CreateBegins(p, w, sync) \/ DestroyBegins(p, w, purge) \/ RepairBegins(p, w)
      PROVE  Goal
  BY <1>1, BeginDisk
<1>2. ASSUME MakeDir(p) PROVE Goal
  BY <1>2 DEF MakeDir
<1>3. ASSUME LookAtSlot(p) PROVE Goal
  BY <1>3 DEF LookAtSlot
<1>4. ASSUME LookAtSlotFails(p) PROVE Goal
  BY <1>4 DEF LookAtSlotFails
<1>5. ASSUME TakeLock(p) PROVE Goal
  BY <1>5 DEF TakeLock
<1>6. ASSUME LockFails(p) PROVE Goal
  BY <1>6 DEF LockFails
<1>7. ASSUME Settle(p) PROVE Goal
  BY <1>7 DEF Settle, Prunes
<1>8. ASSUME Stage(p) PROVE Goal
  BY <1>8 DEF Stage
<1>9. ASSUME Install(p) PROVE Goal
  BY <1>9 DEF Install
<1>10. ASSUME Register(p) PROVE Goal
  BY <1>10 DEF Register
<1>11. ASSUME AddFails(p) PROVE Goal
  BY <1>11 DEF AddFails
<1>12. ASSUME Ready(p) PROVE Goal
  BY <1>12 DEF Ready
<1>13. ASSUME RepairEnds(p) PROVE Goal
  BY <1>13 DEF RepairEnds
<1>14. ASSUME Render(p) PROVE Goal
  BY <1>14 DEF Render
<1>15. ASSUME Save(p) PROVE Goal
  BY <1>15 DEF Save
<1>16. ASSUME SaveState(p) PROVE Goal
  BY <1>16 DEF SaveState
<1>17. ASSUME SaveStateFails(p) PROVE Goal
  BY <1>17 DEF SaveStateFails
<1>18. ASSUME UndoSlot(p) PROVE Goal
  BY <1>18 DEF UndoSlot, AfterUndo, Prunes
<1>19. ASSUME UndoSlotUnlocked(p) PROVE Goal
  BY <1>19 DEF UndoSlotUnlocked, AfterUndo
<1>20. ASSUME UndoDir(p) PROVE Goal
  BY <1>20 DEF UndoDir
<1>21. ASSUME CheckSlot(p) PROVE Goal
  BY <1>21 DEF CheckSlot
<1>22. ASSUME DestroySaves(p) PROVE Goal
  BY <1>22 DEF DestroySaves
<1>23. ASSUME PurgeSlot(p) PROVE Goal
  BY <1>23 DEF PurgeSlot, Prunes
<1>24. ASSUME PurgeDir(p) PROVE Goal
  BY <1>24 DEF PurgeDir
<1>25. ASSUME Kill(p) PROVE Goal
  BY <1>25 DEF Kill
<1> HIDE DEF Goal
<1>26. Goal
  BY ONLY Step(p), <1>1, <1>2, <1>3, <1>4, <1>5, <1>6, <1>7, <1>8, <1>9, <1>10, <1>11, <1>12,
     <1>13, <1>14, <1>15, <1>16, <1>17, <1>18, <1>19, <1>20, <1>21, <1>22, <1>23, <1>24,
     <1>25 DEF Step
<1> QED BY ONLY <1>26 DEF Goal

LEMMA StageSteps ==
  ASSUME TypeInv, KindInv, HandInv, NEW p \in Procs, Step(p)
  PROVE  \A s \in Slots : stage'[s] # stage[s] =>
           /\ pc[p] \in UnderLock /\ s = S(p)
           /\ stage'[s] = None \/ (stage'[s] = Me(p) /\ pc'[p] = "install" /\ UNCHANGED <<op, todo>>)
<1> USE TypeInv, KindInv, HandInv, WorkspaceAssumption DEF TypeInv, RegType, disk, UnderLock
<1> DEFINE Goal ==
         \A s \in Slots : stage'[s] # stage[s] =>
           /\ pc[p] \in UnderLock /\ s = S(p)
           /\ stage'[s] = None \/ (stage'[s] = Me(p) /\ pc'[p] = "install" /\ UNCHANGED <<op, todo>>)
<1>1. ASSUME NEW w \in Workspaces, NEW sync \in BOOLEAN, NEW purge \in BOOLEAN,
             CreateBegins(p, w, sync) \/ DestroyBegins(p, w, purge) \/ RepairBegins(p, w)
      PROVE  Goal
  BY <1>1, BeginDisk
<1>2. ASSUME MakeDir(p) PROVE Goal
  BY <1>2 DEF MakeDir
<1>3. ASSUME LookAtSlot(p) PROVE Goal
  BY <1>3 DEF LookAtSlot
<1>4. ASSUME LookAtSlotFails(p) PROVE Goal
  BY <1>4 DEF LookAtSlotFails
<1>5. ASSUME TakeLock(p) PROVE Goal
  BY <1>5 DEF TakeLock
<1>6. ASSUME LockFails(p) PROVE Goal
  BY <1>6 DEF LockFails
<1>7. ASSUME Settle(p) PROVE Goal
  BY <1>7 DEF Settle
<1>8. ASSUME Stage(p) PROVE Goal
  <2>1. CASE UNCHANGED stage
    BY <2>1
  <2>2. CASE ~UNCHANGED stage
    <3>1. Goes(p, "install") /\ stage' = [stage EXCEPT ![S(p)] = Me(p)] /\ pc[p] = "add"
      BY <1>8, <2>2 DEF Stage
    <3>2. pc'[p] = "install" /\ UNCHANGED <<op, todo>>
      BY <3>1, GoesMine
    <3> QED BY <3>1, <3>2
  <2> QED BY <2>1, <2>2
<1>9. ASSUME Install(p) PROVE Goal
  BY <1>9 DEF Install
<1>10. ASSUME Register(p) PROVE Goal
  BY <1>10 DEF Register
<1>11. ASSUME AddFails(p) PROVE Goal
  BY <1>11 DEF AddFails
<1>12. ASSUME Ready(p) PROVE Goal
  BY <1>12 DEF Ready
<1>13. ASSUME RepairEnds(p) PROVE Goal
  BY <1>13 DEF RepairEnds
<1>14. ASSUME Render(p) PROVE Goal
  BY <1>14 DEF Render
<1>15. ASSUME Save(p) PROVE Goal
  BY <1>15 DEF Save
<1>16. ASSUME SaveState(p) PROVE Goal
  BY <1>16 DEF SaveState
<1>17. ASSUME SaveStateFails(p) PROVE Goal
  BY <1>17 DEF SaveStateFails
<1>18. ASSUME UndoSlot(p) PROVE Goal
  BY <1>18 DEF UndoSlot, AfterUndo
<1>19. ASSUME UndoSlotUnlocked(p) PROVE Goal
  BY <1>19 DEF UndoSlotUnlocked, AfterUndo
<1>20. ASSUME UndoDir(p) PROVE Goal
  BY <1>20 DEF UndoDir
<1>21. ASSUME CheckSlot(p) PROVE Goal
  BY <1>21 DEF CheckSlot
<1>22. ASSUME DestroySaves(p) PROVE Goal
  BY <1>22 DEF DestroySaves
<1>23. ASSUME PurgeSlot(p) PROVE Goal
  BY <1>23 DEF PurgeSlot
<1>24. ASSUME PurgeDir(p) PROVE Goal
  BY <1>24 DEF PurgeDir
<1>25. ASSUME Kill(p) PROVE Goal
  BY <1>25 DEF Kill
<1> HIDE DEF Goal
<1>26. Goal
  BY ONLY Step(p), <1>1, <1>2, <1>3, <1>4, <1>5, <1>6, <1>7, <1>8, <1>9, <1>10, <1>11, <1>12,
     <1>13, <1>14, <1>15, <1>16, <1>17, <1>18, <1>19, <1>20, <1>21, <1>22, <1>23, <1>24,
     <1>25 DEF Step
<1> QED BY ONLY <1>26 DEF Goal

LEMMA BrokenSteps ==
  ASSUME TypeInv, NEW p \in Procs, Step(p)
  PROVE  /\ broken \subseteq broken' /\ broken' \subseteq broken \cup {Me(p)}
         /\ pc[p] \in Resting => broken' = broken
<1> USE TypeInv, WorkspaceAssumption DEF disk, Resting
<1> DEFINE Goal ==
         /\ broken \subseteq broken' /\ broken' \subseteq broken \cup {Me(p)}
         /\ pc[p] \in Resting => broken' = broken
<1>1. ASSUME NEW w \in Workspaces, NEW sync \in BOOLEAN, NEW purge \in BOOLEAN,
             CreateBegins(p, w, sync) \/ DestroyBegins(p, w, purge) \/ RepairBegins(p, w)
      PROVE  Goal
  BY <1>1, BeginDisk
<1>2. ASSUME MakeDir(p) PROVE Goal
  BY <1>2 DEF MakeDir
<1>3. ASSUME LookAtSlot(p) PROVE Goal
  BY <1>3 DEF LookAtSlot
<1>4. ASSUME LookAtSlotFails(p) PROVE Goal
  BY <1>4 DEF LookAtSlotFails
<1>5. ASSUME TakeLock(p) PROVE Goal
  BY <1>5 DEF TakeLock
<1>6. ASSUME LockFails(p) PROVE Goal
  BY <1>6 DEF LockFails
<1>7. ASSUME Settle(p) PROVE Goal
  BY <1>7 DEF Settle
<1>8. ASSUME Stage(p) PROVE Goal
  BY <1>8 DEF Stage
<1>9. ASSUME Install(p) PROVE Goal
  BY <1>9 DEF Install
<1>10. ASSUME Register(p) PROVE Goal
  BY <1>10 DEF Register
<1>11. ASSUME AddFails(p) PROVE Goal
  BY <1>11 DEF AddFails, Breaks
<1>12. ASSUME Ready(p) PROVE Goal
  BY <1>12 DEF Ready
<1>13. ASSUME RepairEnds(p) PROVE Goal
  BY <1>13 DEF RepairEnds
<1>14. ASSUME Render(p) PROVE Goal
  BY <1>14 DEF Render
<1>15. ASSUME Save(p) PROVE Goal
  BY <1>15 DEF Save
<1>16. ASSUME SaveState(p) PROVE Goal
  BY <1>16 DEF SaveState
<1>17. ASSUME SaveStateFails(p) PROVE Goal
  BY <1>17 DEF SaveStateFails, Breaks
<1>18. ASSUME UndoSlot(p) PROVE Goal
  BY <1>18 DEF UndoSlot, AfterUndo, Breaks
<1>19. ASSUME UndoSlotUnlocked(p) PROVE Goal
  BY <1>19 DEF UndoSlotUnlocked, AfterUndo, Breaks
<1>20. ASSUME UndoDir(p) PROVE Goal
  BY <1>20 DEF UndoDir, Breaks
<1>21. ASSUME CheckSlot(p) PROVE Goal
  BY <1>21 DEF CheckSlot
<1>22. ASSUME DestroySaves(p) PROVE Goal
  BY <1>22 DEF DestroySaves
<1>23. ASSUME PurgeSlot(p) PROVE Goal
  BY <1>23 DEF PurgeSlot
<1>24. ASSUME PurgeDir(p) PROVE Goal
  BY <1>24 DEF PurgeDir
<1>25. ASSUME Kill(p) PROVE Goal
  BY <1>25 DEF Kill, Breaks
<1> HIDE DEF Goal
<1>26. Goal
  BY ONLY Step(p), <1>1, <1>2, <1>3, <1>4, <1>5, <1>6, <1>7, <1>8, <1>9, <1>10, <1>11, <1>12,
     <1>13, <1>14, <1>15, <1>16, <1>17, <1>18, <1>19, <1>20, <1>21, <1>22, <1>23, <1>24,
     <1>25 DEF Step
<1> QED BY ONLY <1>26 DEF Goal

LEMMA BeginCounts ==
  ASSUME TypeInv, NEW p \in Procs, NEW w \in Workspaces, NEW sync \in BOOLEAN, NEW purge \in BOOLEAN,
         CreateBegins(p, w, sync) \/ DestroyBegins(p, w, purge) \/ RepairBegins(p, w)
  PROVE  op[p].n < MaxOps /\ op'[p].n = op[p].n + 1
<1>1. ASSUME NEW kind, NEW s, NEW u, NEW slots, NEW place, Begin(p, w, kind, s, u, slots, place)
      PROVE  op[p].n < MaxOps /\ op'[p].n = op[p].n + 1
  BY <1>1 DEF Begin, TypeInv, OpType
<1> QED BY <1>1 DEF CreateBegins, DestroyBegins, RepairBegins

LEMMA NumberSteps ==
  ASSUME TypeInv, NEW p \in Procs, Step(p)
  PROVE  /\ op'[p].n \in Nat /\ op[p].n \in Nat /\ op'[p].n >= op[p].n
         /\ pc[p] \notin Resting => op'[p].n = op[p].n /\ Me(p)' = Me(p)
<1> DEFINE Goal == /\ op'[p].n \in Nat /\ op[p].n \in Nat /\ op'[p].n >= op[p].n
                   /\ pc[p] \notin Resting => op'[p].n = op[p].n
<1>0. op[p].n \in Nat
  BY MineFacts
<1>1. ASSUME NEW w \in Workspaces, NEW sync \in BOOLEAN, NEW purge \in BOOLEAN,
             CreateBegins(p, w, sync) \/ DestroyBegins(p, w, purge) \/ RepairBegins(p, w)
      PROVE  Goal
  <2>1. pc[p] \in Resting /\ op'[p].n = op[p].n + 1
    BY <1>1, BeginDisk, BeginCounts
  <2> QED BY <1>0, <2>1
<1>2. ASSUME Returns(p, "idle") \/ Returns(p, "failed") \/ NextSlot(p) \/ SlotFails(p) \/ op' = op
      PROVE  Goal
  <2>1. op'[p].n = op[p].n
    BY <1>2, MineFacts DEF Resting
  <2> QED BY <1>0, <2>1
<1> HIDE DEF Goal
<1>3. ASSUME MakeDir(p) PROVE Goal
  BY <1>2, <1>3 DEF MakeDir, Goes, asked
<1>4. ASSUME LookAtSlot(p) PROVE Goal
  BY <1>2, <1>4 DEF LookAtSlot, Goes, asked
<1>5. ASSUME LookAtSlotFails(p) PROVE Goal
  BY <1>2, <1>5 DEF LookAtSlotFails, Goes, asked
<1>6. ASSUME TakeLock(p) PROVE Goal
  BY <1>2, <1>6 DEF TakeLock, Goes, asked
<1>7. ASSUME LockFails(p) PROVE Goal
  BY <1>2, <1>7 DEF LockFails, Goes, asked
<1>8. ASSUME Settle(p) PROVE Goal
  BY <1>2, <1>8 DEF Settle, Goes, asked
<1>9. ASSUME Stage(p) PROVE Goal
  BY <1>2, <1>9 DEF Stage, Goes, asked
<1>10. ASSUME Install(p) PROVE Goal
  BY <1>2, <1>10 DEF Install, Goes, asked
<1>11. ASSUME Register(p) PROVE Goal
  BY <1>2, <1>11 DEF Register, asked
<1>12. ASSUME AddFails(p) PROVE Goal
  BY <1>2, <1>12 DEF AddFails, Goes, asked
<1>13. ASSUME Ready(p) PROVE Goal
  BY <1>2, <1>13 DEF Ready, Goes, asked
<1>14. ASSUME RepairEnds(p) PROVE Goal
  BY <1>2, <1>14 DEF RepairEnds, asked
<1>15. ASSUME Render(p) PROVE Goal
  BY <1>2, <1>15 DEF Render, Goes, asked
<1>16. ASSUME Save(p) PROVE Goal
  BY <1>2, <1>16 DEF Save, Goes, asked
<1>17. ASSUME SaveState(p) PROVE Goal
  BY <1>2, <1>17 DEF SaveState, asked
<1>18. ASSUME SaveStateFails(p) PROVE Goal
  BY <1>2, <1>18 DEF SaveStateFails, Goes, asked
<1>19. ASSUME UndoSlot(p) PROVE Goal
  BY <1>2, <1>19 DEF UndoSlot, AfterUndo, asked
<1>20. ASSUME UndoSlotUnlocked(p) PROVE Goal
  BY <1>2, <1>20 DEF UndoSlotUnlocked, AfterUndo, asked
<1>21. ASSUME UndoDir(p) PROVE Goal
  BY <1>2, <1>21 DEF UndoDir, asked
<1>22. ASSUME CheckSlot(p) PROVE Goal
  BY <1>2, <1>22 DEF CheckSlot, asked
<1>23. ASSUME DestroySaves(p) PROVE Goal
  BY <1>2, <1>23 DEF DestroySaves, asked
<1>24. ASSUME PurgeSlot(p) PROVE Goal
  BY <1>2, <1>24 DEF PurgeSlot, asked
<1>25. ASSUME PurgeDir(p) PROVE Goal
  BY <1>2, <1>25 DEF PurgeDir, asked
<1>26. ASSUME Kill(p) PROVE Goal
  BY <1>2, <1>26 DEF Kill, asked
<1>40. Goal
  BY ONLY Step(p), <1>1, <1>3, <1>4, <1>5, <1>6, <1>7, <1>8, <1>9, <1>10, <1>11, <1>12, <1>13,
     <1>14, <1>15, <1>16, <1>17, <1>18, <1>19, <1>20, <1>21, <1>22, <1>23, <1>24, <1>25,
     <1>26 DEF Step
<1> QED BY <1>40 DEF Goal, Me

LEMMA PeopleDisk ==
  ASSUME NEW s \in Slots, People(s)
  PROVE  UNCHANGED <<op, pc, dir, reg, manifest, lock, broken>>
<1> USE DEF going, asked
<1>1. CASE Work(s)
  BY <1>1 DEF Work
<1>2. CASE PushWork(s)
  BY <1>2 DEF PushWork
<1>3. CASE Delete(s)
  BY <1>3 DEF Delete
<1>4. CASE CleanTemp(s)
  BY <1>4 DEF CleanTemp
<1> QED BY <1>1, <1>2, <1>3, <1>4 DEF People

LEMMA PeopleSlots ==
  ASSUME TypeInv, NEW s \in Slots, People(s), NEW t \in Slots
  PROVE  /\ slot'[t] = NoSlot \/ (slot'[t].at = slot[t].at /\ slot'[t].by = slot[t].by)
         /\ slot[t].at = "none" => slot'[t].at = "none"
         /\ slot[t] = NoSlot => slot'[t] = NoSlot
         /\ slot[t].by \in Live => slot'[t].work \in {slot[t].work, "clean"}
<1> USE DEF TypeInv, SlotType, SlotStates, NoSlot
<1>1. CASE Work(s)
  BY <1>1 DEF Work
<1>2. CASE PushWork(s)
  BY <1>2 DEF PushWork
<1>3. CASE Delete(s)
  BY <1>3 DEF Delete
<1>4. CASE CleanTemp(s)
  BY <1>4 DEF CleanTemp
<1> QED BY <1>1, <1>2, <1>3, <1>4 DEF People

LEMMA PeopleStages ==
  ASSUME TypeInv, NEW s \in Slots, People(s), NEW t \in Slots
  PROVE  stage'[t] = stage[t] \/ (stage'[t] = None /\ stage[t] \notin Live)
<1> USE DEF TypeInv, RegType
<1>1. CASE Work(s)
  BY <1>1 DEF Work
<1>2. CASE PushWork(s)
  BY <1>2 DEF PushWork
<1>3. CASE Delete(s)
  BY <1>3 DEF Delete
<1>4. CASE CleanTemp(s)
  BY <1>4 DEF CleanTemp
<1> QED BY <1>1, <1>2, <1>3, <1>4 DEF People

LEMMA KnownStays ==
  ASSUME TypeInv, TypeInv', NEW id \in Ids \cup {None}, Known(id), \A q \in Procs : op'[q].n >= op[q].n
  PROVE  Known(id)'
<1>1. CASE id \in {Old, None}
  BY <1>1 DEF Known
<1>2. CASE id \notin {Old, None}
  <2>1. PICK q \in Procs, n \in 1..MaxOps : id = <<q, n>>
    BY <1>2 DEF Ids
  <2>2. n <= op[q].n /\ op'[q].n >= op[q].n
    BY <1>2, <2>1 DEF Known
  <2>3. n \in Nat /\ op[q].n \in Nat /\ op'[q].n \in Nat
    BY WorkspaceAssumption, TypeInv, TypeInv' DEF TypeInv, OpType, Asks
  <2>4. n <= op'[q].n
    BY <2>2, <2>3
  <2> QED BY <2>1, <2>4 DEF Known
<1> QED BY <1>1, <1>2

(* No number is used twice.                                                   *)
LEMMA NewIsUnknown ==
  ASSUME TypeInv, NEW p \in Procs, op[p].n < MaxOps
  PROVE  ~Known(<<p, op[p].n + 1>>)
<1> DEFINE id == <<p, op[p].n + 1>>
<1>1. op[p].n \in Nat /\ op[p].n + 1 \in 1..MaxOps /\ op[p].n + 1 # 0
  BY MineFacts, WorkspaceAssumption
<1>2. id # Old
  BY <1>1 DEF Old
<1>3. id # None
  BY <1>1, WorkspaceAssumption DEF Ids
<1>4. ~(op[p].n + 1 <= op[p].n)
  BY <1>1
<1> QED BY <1>2, <1>3, <1>4 DEF Known

LEMMA KnownStep ==
  ASSUME TypeInv, TypeInv', KindInv, HandInv, KnownInv, [Next]_vars
  PROVE  KnownInv'
<1>1. ASSUME NEW p \in Procs, Step(p) PROVE KnownInv'
  <2>1. \A q \in Procs : op'[q].n >= op[q].n
    <3>1. op'[p].n >= op[p].n
      BY <1>1, NumberSteps
    <3>2. ASSUME NEW q \in Procs, q # p PROVE op'[q].n >= op[q].n
      BY <1>1, <3>2, OthersKept, MineFacts DEF Kept
    <3> QED BY <3>1, <3>2
  <2>2. \A id \in Ids \cup {None} : Known(id) => Known(id)'
    BY <2>1, KnownStays
  <2>3. Known(Me(p))'
    BY <1>1, NumberSteps, MineFacts DEF Known, Me
  <2>4. pc[p] \notin Resting => Me(p)' = Me(p)
    BY <1>1, NumberSteps
  <2>5. Known(Old)' /\ Known(None)'
    BY DEF Known
  <2>6. ASSUME NEW w \in Workspaces PROVE Known(dir[w])'
    <3>1. dir'[w] = dir[w] \/ dir'[w] = None \/ dir'[w] = Me(p)'
      BY <1>1, <2>4, DirSteps
    <3> QED BY <2>2, <2>3, <2>5, <3>1 DEF KnownInv, TypeInv, DirType
  <2>7. ASSUME NEW s \in Slots PROVE Known(slot[s].by)' /\ Known(stage[s])'
    <3>1. slot'[s].by = slot[s].by \/ slot'[s].by = Old \/ slot'[s].by = Me(p)'
      BY <1>1, <2>4, SlotSteps, SlotFields
    <3>2. stage'[s] = stage[s] \/ stage'[s] = None \/ stage'[s] = Me(p)'
      BY <1>1, <2>4, StageSteps DEF UnderLock, Resting
    <3> QED BY <2>2, <2>3, <2>5, <3>1, <3>2 DEF KnownInv, TypeInv, SlotType, SlotStates, RegType
  <2>8. ASSUME NEW id \in broken' PROVE Known(id)'
    <3>1. id \in broken \/ id = Me(p)'
      BY <1>1, <2>4, BrokenSteps
    <3> QED BY <2>2, <2>3, <3>1 DEF KnownInv, TypeInv, MarkType
  <2> QED BY <2>6, <2>7, <2>8 DEF KnownInv
<1>2. ASSUME NEW s \in Slots, People(s) PROVE KnownInv'
  <2>1. UNCHANGED <<op, dir, broken>>
    BY <1>2, PeopleDisk
  <2>2. ASSUME NEW t \in Slots PROVE slot'[t].by \in {slot[t].by, Old} /\ stage'[t] \in {stage[t], None}
    <3>1. slot'[t].by = slot[t].by \/ slot'[t].by = Old
      BY <1>2, <2>2, PeopleSlots, SlotFields
    <3>2. stage'[t] = stage[t] \/ stage'[t] = None
      BY <1>2, <2>2, PeopleStages
    <3> QED BY <3>1, <3>2
  <2> QED BY <2>1, <2>2 DEF KnownInv, Known
<1>3. CASE UNCHANGED vars
  BY <1>3 DEF vars, going, asked, disk, KnownInv, Known
<1> QED BY <1>1, <1>2, <1>3 DEF Next

-----------------------------------------------------------------------------
(* Registrations, and what is held where.                                     *)

LEMMA StageStep ==
  ASSUME TypeInv, StageInv, LockInv, KindInv, HandInv, [Next]_vars
  PROVE  StageInv'
<1> USE TypeInv, StageInv, LockInv, KindInv, HandInv, WorkspaceAssumption
<1>1. ASSUME NEW p \in Procs, Step(p), NEW q \in Procs, q # p PROVE StageOf(q)'
  <2>1. Kept(q)
    BY <1>1, OthersKept
  <2>2. ASSUME pc[q] \in {"install", "register"} PROVE reg'[S(q)] = reg[S(q)] /\ stage'[S(q)] = stage[S(q)]
    <3>1. S(q) \in Slots
      BY <2>2, HandFacts DEF TypeInv, HandInv, HandOf
    <3>2. pc[q] \in UnderLock /\ pc[p] \notin UnderLock
      BY <1>1, <2>2 DEF LockInv, UnderLock
    <3> QED BY <1>1, <3>1, <3>2, RegSteps, StageSteps
  <2>3. Me(q)' = Me(q) /\ S(q)' = S(q)
    BY <2>1 DEF Kept, Me, S, W
  <2> QED BY <2>1, <2>2, <2>3 DEF StageInv, StageOf, Kept
<1> USE MineFacts, SlotFields DEF StageInv, StageOf, UnderLock, LockInv, RegType, Resting, asked, locals, disk
<1>2. ASSUME NEW p \in Procs, NEW w \in Workspaces, NEW sync \in BOOLEAN,
             CreateBegins(p, w, sync)
      PROVE  StageOf(p)'
  <2>1. /\ pc[p] \in Resting /\ <<p, w>> \in Serves /\ pc'[p] = "mkdir"
        /\ op'[p].n = op[p].n + 1 /\ op'[p].kind = "create" /\ op'[p].w = w
        /\ seen'[p] = manifest /\ guard'[p] = dir[w] /\ todo'[p] = SlotSet(w) /\ cut'[p] = <<>> /\ dest'[p] = NoDest
        /\ (manifest[w] = NoEntry \/ dir[w] = None) /\ UNCHANGED <<dir, slot, reg, stage, manifest, lock, broken>>
    BY ONLY TypeInv, <1>2, CreateBeginsMine
  <2> QED BY <2>1
<1>3. ASSUME NEW p \in Procs, NEW w \in Workspaces, NEW purge \in BOOLEAN,
             DestroyBegins(p, w, purge)
      PROVE  StageOf(p)'
  <2>1. /\ pc[p] \in Resting /\ <<p, w>> \in Serves /\ pc'[p] = "check"
        /\ op'[p].n = op[p].n + 1 /\ op'[p].kind = "destroy" /\ op'[p].w = w
        /\ seen'[p] = manifest /\ guard'[p] = dir[w] /\ todo'[p] = manifest[w] /\ cut'[p] = <<>> /\ dest'[p] = NoDest
        /\ (manifest[w] # NoEntry) /\ UNCHANGED <<dir, slot, reg, stage, manifest, lock, broken>>
    BY ONLY TypeInv, <1>3, DestroyBeginsMine
  <2> QED BY <2>1
<1>4. ASSUME NEW p \in Procs, NEW w \in Workspaces, RepairBegins(p, w)
      PROVE  StageOf(p)'
  <2>1. /\ pc[p] \in Resting /\ <<p, w>> \in Serves /\ pc'[p] = "slots"
        /\ op'[p].n = op[p].n + 1 /\ op'[p].kind = "repair" /\ op'[p].w = w
        /\ seen'[p] = manifest /\ guard'[p] = dir[w] /\ todo'[p] = manifest[w] /\ cut'[p] = <<>> /\ dest'[p] = NoDest
        /\ (manifest[w] # NoEntry /\ dir[w] # None) /\ UNCHANGED <<dir, slot, reg, stage, manifest, lock, broken>>
    BY ONLY TypeInv, <1>4, RepairBeginsMine
  <2> QED BY <2>1
<1>5. ASSUME NEW p \in Procs, MakeDir(p) PROVE StageOf(p)'
  BY <1>5 DEF MakeDir
<1>6. ASSUME NEW p \in Procs, LookAtSlot(p) PROVE StageOf(p)'
  BY <1>6 DEF LookAtSlot
<1>7. ASSUME NEW p \in Procs, LookAtSlotFails(p) PROVE StageOf(p)'
  BY <1>7 DEF LookAtSlotFails
<1>8. ASSUME NEW p \in Procs, TakeLock(p) PROVE StageOf(p)'
  BY <1>8 DEF TakeLock
<1>9. ASSUME NEW p \in Procs, LockFails(p) PROVE StageOf(p)'
  BY <1>9 DEF LockFails
<1>10. ASSUME NEW p \in Procs, Settle(p) PROVE StageOf(p)'
  BY <1>10 DEF Settle
<1>11. ASSUME NEW p \in Procs, Stage(p) PROVE StageOf(p)'
  <2>1. CASE SlotFails(p)
    BY <1>11, <2>1
  <2>2. CASE ~SlotFails(p)
    <3>1. S(p) \in Slots
      BY <1>11, HandFacts DEF Stage, TypeInv, HandInv, HandOf
    <3>2. /\ reg' = [reg EXCEPT ![S(p)] = "stage"] /\ stage' = [stage EXCEPT ![S(p)] = Me(p)]
          /\ UNCHANGED <<op, todo>>
      BY <1>11, <2>2 DEF Stage
    <3>3. S(p)' = S(p) /\ Me(p)' = Me(p)
      BY <3>2 DEF S, W, Me
    <3> QED BY <3>1, <3>2, <3>3 DEF TypeInv
  <2> QED BY <2>1, <2>2
<1>12. ASSUME NEW p \in Procs, Install(p) PROVE StageOf(p)'
  <2>1. UNCHANGED <<op, todo, reg, stage>> /\ pc[p] = "install"
    BY <1>12 DEF Install
  <2>2. S(p)' = S(p) /\ Me(p)' = Me(p)
    BY <2>1 DEF S, W, Me
  <2> QED BY <2>1, <2>2
<1>13. ASSUME NEW p \in Procs, Register(p) PROVE StageOf(p)'
  BY <1>13 DEF Register
<1>14. ASSUME NEW p \in Procs, AddFails(p) PROVE StageOf(p)'
  BY <1>14 DEF AddFails
<1>15. ASSUME NEW p \in Procs, Ready(p) PROVE StageOf(p)'
  BY <1>15 DEF Ready
<1>16. ASSUME NEW p \in Procs, RepairEnds(p) PROVE StageOf(p)'
  BY <1>16 DEF RepairEnds
<1>17. ASSUME NEW p \in Procs, Render(p) PROVE StageOf(p)'
  BY <1>17 DEF Render
<1>18. ASSUME NEW p \in Procs, Save(p) PROVE StageOf(p)'
  BY <1>18 DEF Save
<1>19. ASSUME NEW p \in Procs, SaveState(p) PROVE StageOf(p)'
  BY <1>19 DEF SaveState
<1>20. ASSUME NEW p \in Procs, SaveStateFails(p) PROVE StageOf(p)'
  BY <1>20 DEF SaveStateFails
<1>21. ASSUME NEW p \in Procs, UndoSlot(p) PROVE StageOf(p)'
  BY <1>21 DEF UndoSlot, AfterUndo
<1>22. ASSUME NEW p \in Procs, UndoSlotUnlocked(p) PROVE StageOf(p)'
  BY <1>22 DEF UndoSlotUnlocked, AfterUndo
<1>23. ASSUME NEW p \in Procs, UndoDir(p) PROVE StageOf(p)'
  BY <1>23 DEF UndoDir
<1>24. ASSUME NEW p \in Procs, CheckSlot(p) PROVE StageOf(p)'
  BY <1>24 DEF CheckSlot
<1>25. ASSUME NEW p \in Procs, DestroySaves(p) PROVE StageOf(p)'
  BY <1>25 DEF DestroySaves
<1>26. ASSUME NEW p \in Procs, PurgeSlot(p) PROVE StageOf(p)'
  BY <1>26 DEF PurgeSlot
<1>27. ASSUME NEW p \in Procs, PurgeDir(p) PROVE StageOf(p)'
  BY <1>27 DEF PurgeDir
<1>28. ASSUME NEW p \in Procs, Kill(p) PROVE StageOf(p)'
  BY <1>28 DEF Kill
<1>29. ASSUME NEW s \in Slots, People(s), NEW q \in Procs PROVE StageOf(q)'
  <2>1. Kept(q) /\ reg' = reg
    BY <1>29, PeopleKeep, PeopleDisk
  <2>2. ASSUME pc[q] \in {"install", "register"} PROVE stage'[S(q)] = stage[S(q)]
    <3>1. S(q) \in Slots
      BY <2>2, HandFacts DEF TypeInv, HandInv, HandOf
    <3>2. stage[S(q)] \in Live
      BY <2>2 DEF Live, Resting
    <3> QED BY <1>29, <3>1, <3>2, PeopleStages
  <2>3. Me(q)' = Me(q) /\ S(q)' = S(q)
    BY <2>1 DEF Kept, Me, S, W
  <2> QED BY <2>1, <2>2, <2>3 DEF Kept
<1>30. ASSUME UNCHANGED vars, NEW q \in Procs PROVE StageOf(q)'
  BY <1>30 DEF vars, going, asked, W, S, Me
<1> HIDE DEF StageInv, StageOf, UnderLock, LockInv, RegType, Resting, asked, locals, disk
<1>31. ASSUME NEW p \in Procs, Step(p) PROVE StageOf(p)'
  BY <1>31, <1>2, <1>3, <1>4, <1>5, <1>6, <1>7, <1>8, <1>9, <1>10, <1>11, <1>12, <1>13,
     <1>14, <1>15, <1>16, <1>17, <1>18, <1>19, <1>20, <1>21, <1>22, <1>23, <1>24, <1>25,
     <1>26, <1>27, <1>28 DEF Step
<1> QED BY <1>1, <1>29, <1>30, <1>31 DEF Next, StageInv

LEMMA AtWorkSteps ==
  ASSUME TypeInv, NEW p \in Procs, Step(p)
  PROVE  /\ pc[p] = "install" => Install(p) \/ AddFails(p) \/ Kill(p)
         /\ pc[p] = "register" => Register(p) \/ AddFails(p) \/ Kill(p)
<1> USE TypeInv, WorkspaceAssumption DEF Resting
<1> DEFINE Goal ==
         /\ pc[p] = "install" => Install(p) \/ AddFails(p) \/ Kill(p)
         /\ pc[p] = "register" => Register(p) \/ AddFails(p) \/ Kill(p)
<1>1. ASSUME NEW w \in Workspaces, NEW sync \in BOOLEAN, NEW purge \in BOOLEAN,
             CreateBegins(p, w, sync) \/ DestroyBegins(p, w, purge) \/ RepairBegins(p, w)
      PROVE  Goal
  BY <1>1, BeginDisk
<1>2. ASSUME MakeDir(p) PROVE Goal
  BY <1>2 DEF MakeDir
<1>3. ASSUME LookAtSlot(p) PROVE Goal
  BY <1>3 DEF LookAtSlot
<1>4. ASSUME LookAtSlotFails(p) PROVE Goal
  BY <1>4 DEF LookAtSlotFails
<1>5. ASSUME TakeLock(p) PROVE Goal
  BY <1>5 DEF TakeLock
<1>6. ASSUME LockFails(p) PROVE Goal
  BY <1>6 DEF LockFails
<1>7. ASSUME Settle(p) PROVE Goal
  BY <1>7 DEF Settle
<1>8. ASSUME Stage(p) PROVE Goal
  BY <1>8 DEF Stage
<1>9. ASSUME Install(p) PROVE Goal
  <2>1. pc[p] = "install"
    BY <1>9 DEF Install
  <2> QED BY <1>9, <2>1
<1>10. ASSUME Register(p) PROVE Goal
  <2>1. pc[p] = "register"
    BY <1>10 DEF Register
  <2> QED BY <1>10, <2>1
<1>11. ASSUME AddFails(p) PROVE Goal
  BY <1>11
<1>12. ASSUME Ready(p) PROVE Goal
  BY <1>12 DEF Ready
<1>13. ASSUME RepairEnds(p) PROVE Goal
  BY <1>13 DEF RepairEnds
<1>14. ASSUME Render(p) PROVE Goal
  BY <1>14 DEF Render
<1>15. ASSUME Save(p) PROVE Goal
  BY <1>15 DEF Save
<1>16. ASSUME SaveState(p) PROVE Goal
  BY <1>16 DEF SaveState
<1>17. ASSUME SaveStateFails(p) PROVE Goal
  BY <1>17 DEF SaveStateFails
<1>18. ASSUME UndoSlot(p) PROVE Goal
  BY <1>18 DEF UndoSlot, AfterUndo
<1>19. ASSUME UndoSlotUnlocked(p) PROVE Goal
  BY <1>19 DEF UndoSlotUnlocked, AfterUndo
<1>20. ASSUME UndoDir(p) PROVE Goal
  BY <1>20 DEF UndoDir
<1>21. ASSUME CheckSlot(p) PROVE Goal
  BY <1>21 DEF CheckSlot
<1>22. ASSUME DestroySaves(p) PROVE Goal
  BY <1>22 DEF DestroySaves
<1>23. ASSUME PurgeSlot(p) PROVE Goal
  BY <1>23 DEF PurgeSlot
<1>24. ASSUME PurgeDir(p) PROVE Goal
  BY <1>24 DEF PurgeDir
<1>25. ASSUME Kill(p) PROVE Goal
  BY <1>25
<1> HIDE DEF Goal
<1>26. Goal
  BY ONLY Step(p), <1>1, <1>2, <1>3, <1>4, <1>5, <1>6, <1>7, <1>8, <1>9, <1>10, <1>11, <1>12,
     <1>13, <1>14, <1>15, <1>16, <1>17, <1>18, <1>19, <1>20, <1>21, <1>22, <1>23, <1>24,
     <1>25 DEF Step
<1> QED BY ONLY <1>26 DEF Goal

LEMMA PruneSteps ==
  ASSUME TypeInv, KindInv, HandInv, StageInv, NEW p \in Procs, Step(p)
  PROVE  \A s \in Slots : reg[s] = "slot" /\ reg'[s] # "slot" => slot'[s].at # "checkout"
<1> USE TypeInv, KindInv, HandInv, StageInv, WorkspaceAssumption, HandFacts DEF TypeInv, RegType, disk, StageInv, StageOf, HandInv, HandOf
<1> DEFINE Goal ==
         \A s \in Slots : reg[s] = "slot" /\ reg'[s] # "slot" => slot'[s].at # "checkout"
<1>1. ASSUME NEW w \in Workspaces, NEW sync \in BOOLEAN, NEW purge \in BOOLEAN,
             CreateBegins(p, w, sync) \/ DestroyBegins(p, w, purge) \/ RepairBegins(p, w)
      PROVE  Goal
  BY <1>1, BeginDisk
<1>2. ASSUME MakeDir(p) PROVE Goal
  BY <1>2 DEF MakeDir
<1>3. ASSUME LookAtSlot(p) PROVE Goal
  BY <1>3 DEF LookAtSlot
<1>4. ASSUME LookAtSlotFails(p) PROVE Goal
  BY <1>4 DEF LookAtSlotFails
<1>5. ASSUME TakeLock(p) PROVE Goal
  BY <1>5 DEF TakeLock
<1>6. ASSUME LockFails(p) PROVE Goal
  BY <1>6 DEF LockFails
<1>7. ASSUME Settle(p) PROVE Goal
  BY <1>7 DEF Settle, Prunes
<1>8. ASSUME Stage(p) PROVE Goal
  BY <1>8 DEF Stage
<1>9. ASSUME Install(p) PROVE Goal
  BY <1>9 DEF Install
<1>10. ASSUME Register(p) PROVE Goal
  BY <1>10 DEF Register
<1>11. ASSUME AddFails(p) PROVE Goal
  BY <1>11 DEF AddFails
<1>12. ASSUME Ready(p) PROVE Goal
  BY <1>12 DEF Ready
<1>13. ASSUME RepairEnds(p) PROVE Goal
  BY <1>13 DEF RepairEnds
<1>14. ASSUME Render(p) PROVE Goal
  BY <1>14 DEF Render
<1>15. ASSUME Save(p) PROVE Goal
  BY <1>15 DEF Save
<1>16. ASSUME SaveState(p) PROVE Goal
  BY <1>16 DEF SaveState
<1>17. ASSUME SaveStateFails(p) PROVE Goal
  BY <1>17 DEF SaveStateFails
<1>18. ASSUME UndoSlot(p) PROVE Goal
  BY <1>18 DEF UndoSlot, AfterUndo, Prunes
<1>19. ASSUME UndoSlotUnlocked(p) PROVE Goal
  BY <1>19 DEF UndoSlotUnlocked, AfterUndo
<1>20. ASSUME UndoDir(p) PROVE Goal
  BY <1>20 DEF UndoDir
<1>21. ASSUME CheckSlot(p) PROVE Goal
  BY <1>21 DEF CheckSlot
<1>22. ASSUME DestroySaves(p) PROVE Goal
  BY <1>22 DEF DestroySaves
<1>23. ASSUME PurgeSlot(p) PROVE Goal
  BY <1>23 DEF PurgeSlot, Prunes
<1>24. ASSUME PurgeDir(p) PROVE Goal
  BY <1>24 DEF PurgeDir
<1>25. ASSUME Kill(p) PROVE Goal
  BY <1>25 DEF Kill
<1> HIDE DEF Goal
<1>26. Goal
  BY ONLY Step(p), <1>1, <1>2, <1>3, <1>4, <1>5, <1>6, <1>7, <1>8, <1>9, <1>10, <1>11, <1>12,
     <1>13, <1>14, <1>15, <1>16, <1>17, <1>18, <1>19, <1>20, <1>21, <1>22, <1>23, <1>24,
     <1>25 DEF Step
<1> QED BY ONLY <1>26 DEF Goal

LEMMA EmptySteps ==
  ASSUME TypeInv, KindInv, NEW p \in Procs, Step(p)
  PROVE  \A w \in Workspaces : dir[w] # None /\ dir'[w] = None => \A s \in SlotSet(w) : slot'[s] = NoSlot
<1> USE TypeInv, KindInv, WorkspaceAssumption, SlotFacts DEF TypeInv, DirType, SlotType, disk
<1> DEFINE Goal ==
         \A w \in Workspaces : dir[w] # None /\ dir'[w] = None => \A s \in SlotSet(w) : slot'[s] = NoSlot
<1>1. ASSUME NEW w \in Workspaces, NEW sync \in BOOLEAN, NEW purge \in BOOLEAN,
             CreateBegins(p, w, sync) \/ DestroyBegins(p, w, purge) \/ RepairBegins(p, w)
      PROVE  Goal
  BY <1>1, BeginDisk
<1>2. ASSUME MakeDir(p) PROVE Goal
  BY <1>2 DEF MakeDir
<1>3. ASSUME LookAtSlot(p) PROVE Goal
  BY <1>3 DEF LookAtSlot
<1>4. ASSUME LookAtSlotFails(p) PROVE Goal
  BY <1>4 DEF LookAtSlotFails
<1>5. ASSUME TakeLock(p) PROVE Goal
  BY <1>5 DEF TakeLock
<1>6. ASSUME LockFails(p) PROVE Goal
  BY <1>6 DEF LockFails
<1>7. ASSUME Settle(p) PROVE Goal
  BY <1>7 DEF Settle
<1>8. ASSUME Stage(p) PROVE Goal
  BY <1>8 DEF Stage
<1>9. ASSUME Install(p) PROVE Goal
  BY <1>9 DEF Install
<1>10. ASSUME Register(p) PROVE Goal
  BY <1>10 DEF Register
<1>11. ASSUME AddFails(p) PROVE Goal
  BY <1>11 DEF AddFails
<1>12. ASSUME Ready(p) PROVE Goal
  BY <1>12 DEF Ready
<1>13. ASSUME RepairEnds(p) PROVE Goal
  BY <1>13 DEF RepairEnds
<1>14. ASSUME Render(p) PROVE Goal
  BY <1>14 DEF Render
<1>15. ASSUME Save(p) PROVE Goal
  BY <1>15 DEF Save
<1>16. ASSUME SaveState(p) PROVE Goal
  BY <1>16 DEF SaveState
<1>17. ASSUME SaveStateFails(p) PROVE Goal
  BY <1>17 DEF SaveStateFails
<1>18. ASSUME UndoSlot(p) PROVE Goal
  BY <1>18 DEF UndoSlot, AfterUndo
<1>19. ASSUME UndoSlotUnlocked(p) PROVE Goal
  BY <1>19 DEF UndoSlotUnlocked, AfterUndo
<1>20. ASSUME UndoDir(p) PROVE Goal
  BY <1>20 DEF UndoDir, Emptied
<1>21. ASSUME CheckSlot(p) PROVE Goal
  BY <1>21 DEF CheckSlot
<1>22. ASSUME DestroySaves(p) PROVE Goal
  BY <1>22 DEF DestroySaves
<1>23. ASSUME PurgeSlot(p) PROVE Goal
  BY <1>23 DEF PurgeSlot
<1>24. ASSUME PurgeDir(p) PROVE Goal
  BY <1>24 DEF PurgeDir, Emptied
<1>25. ASSUME Kill(p) PROVE Goal
  BY <1>25 DEF Kill
<1> HIDE DEF Goal
<1>26. Goal
  BY ONLY Step(p), <1>1, <1>2, <1>3, <1>4, <1>5, <1>6, <1>7, <1>8, <1>9, <1>10, <1>11, <1>12,
     <1>13, <1>14, <1>15, <1>16, <1>17, <1>18, <1>19, <1>20, <1>21, <1>22, <1>23, <1>24,
     <1>25 DEF Step
<1> QED BY ONLY <1>26 DEF Goal

LEMMA RegStepKeeps ==
  ASSUME TypeInv, KindInv, HandInv, LockInv, StageInv, RegInv, EmptyInv, NEW p \in Procs, Step(p)
  PROVE  RegInv'
<1> SUFFICES ASSUME NEW t \in Slots, slot'[t].at = "checkout", slot'[t].by \notin broken'
             PROVE  reg'[t] = "slot" \/ \E q \in Procs : slot'[t].by = Me(q)' /\ pc'[q] = "register" /\ S(q)' = t
  BY DEF RegInv
<1>1. CASE slot'[t] # slot[t]
  <2>1. slot'[t] = Checkout(Me(p)) /\ pc[p] = "install" /\ t = S(p)
    BY <1>1, SlotSteps, SlotFields
  <2>2. Install(p)
    <3>1. Install(p) \/ AddFails(p) \/ Kill(p)
      BY <2>1, AtWorkSteps
    <3>2. AddFails(p) => slot' = slot
      BY <2>1 DEF AddFails
    <3>3. Kill(p) => slot' = slot
      BY DEF Kill, disk
    <3> QED BY <1>1, <3>1, <3>2, <3>3
  <2>3. pc'[p] = "register" /\ UNCHANGED <<op, todo>>
    BY <2>2, MineFacts DEF Install
  <2>4. Me(p)' = Me(p) /\ S(p)' = S(p)
    BY <2>3 DEF Me, S, W
  <2> QED BY <2>1, <2>3, <2>4, SlotFields
<1>2. CASE slot'[t] = slot[t]
  <2>1. slot[t].by \notin broken
    BY <1>2, BrokenSteps
  <2>2. CASE reg[t] = "slot"
    BY <2>2, PruneSteps
  <2>3. ASSUME NEW q \in Procs, slot[t].by = Me(q), pc[q] = "register", S(q) = t
        PROVE  reg'[t] = "slot" \/ (slot'[t].by = Me(q)' /\ pc'[q] = "register" /\ S(q)' = t)
    <3>1. CASE q # p
      BY <1>2, <2>3, <3>1, OthersKept DEF Kept, Me, S, W
    <3>2. CASE q = p
      <4>1. CASE Register(p)
        BY <2>3, <3>2, <4>1 DEF Register, TypeInv, RegType
      <4>2. CASE AddFails(p)
        <5>1. PICK removes \in BOOLEAN, drops \in BOOLEAN :
                /\ slot' = IF removes THEN Removed(t, Checkout(Me(p))) ELSE slot
                /\ Breaks(p, ~removes \/ ~drops)
          BY <2>3, <3>2, <4>2 DEF AddFails
        <5>2. ~removes
          BY <1>2, <2>3, <3>2, <5>1, RemovedSlots, SlotFields DEF Same, TypeInv
        <5>3. Me(p) \in broken'
          BY <5>1, <5>2 DEF Breaks
        <5> QED BY <1>2, <2>3, <3>2, <5>3
      <4>3. CASE Kill(p)
        BY <1>2, <2>3, <3>2, <4>3 DEF Kill, Breaks
      <4> QED BY <2>3, <3>2, <4>1, <4>2, <4>3, AtWorkSteps
    <3> QED BY <3>1, <3>2
  <2> QED BY <1>2, <2>1, <2>2, <2>3 DEF RegInv
<1> QED BY <1>1, <1>2

LEMMA RegInvStep ==
  ASSUME TypeInv, KindInv, HandInv, LockInv, StageInv, RegInv, EmptyInv, [Next]_vars
  PROVE  RegInv'
<1>1. ASSUME NEW s \in Slots, People(s), NEW t \in Slots, slot'[t].at = "checkout", slot'[t].by \notin broken'
      PROVE  reg'[t] = "slot" \/ \E q \in Procs : slot'[t].by = Me(q)' /\ pc'[q] = "register" /\ S(q)' = t
  <2>1. UNCHANGED <<op, pc, reg, broken>> /\ \A q \in Procs : Me(q)' = Me(q) /\ S(q)' = S(q)
    BY <1>1, PeopleDisk, PeopleKeep DEF Kept, Me, S, W
  <2>2. slot[t].at = "checkout" /\ slot[t].by = slot'[t].by
    BY <1>1, PeopleSlots, SlotFields
  <2> QED BY <1>1, <2>1, <2>2 DEF RegInv
<1>2. CASE UNCHANGED vars
  BY <1>2 DEF vars, going, asked, locals, disk, RegInv, Me, S, W
<1>3. ASSUME NEW s \in Slots, People(s) PROVE RegInv'
  BY <1>1, <1>3 DEF RegInv
<1> QED BY <1>2, <1>3, RegStepKeeps DEF Next

LEMMA EmptyStep ==
  ASSUME TypeInv, KindInv, HandInv, EmptyInv, [Next]_vars
  PROVE  EmptyInv'
<1>1. ASSUME NEW p \in Procs, Step(p) PROVE EmptyInv'
  <2>1. ASSUME NEW s \in Slots
        PROVE  slot'[s] = slot[s] \/ slot'[s] = NoSlot \/ (slot'[s] = Checkout(Me(p)) /\ Install(p) /\ s = S(p))
    <3>1. slot'[s] = slot[s] \/ slot'[s] = NoSlot \/ (slot'[s] = Checkout(Me(p)) /\ pc[p] = "install" /\ s = S(p))
      BY <1>1, SlotSteps
    <3>2. pc[p] = "install" => Install(p) \/ slot' = slot
      BY <1>1, AtWorkSteps DEF AddFails, Kill, disk
    <3> QED BY <3>1, <3>2
  <2>2. ASSUME NEW s \in Slots
        PROVE  (slot'[s].at = "none" => slot'[s] = NoSlot) /\ (slot'[s].by # Old => slot'[s].at = "checkout")
    BY <2>1, SlotFields DEF EmptyInv
  <2>3. ASSUME NEW w \in Workspaces, dir'[w] = None, NEW s \in SlotSet(w) PROVE slot'[s] = NoSlot
    <3>1. s \in Slots
      BY SlotFacts
    <3>2. CASE dir[w] # None
      BY <1>1, <2>3, <3>2, EmptySteps
    <3>3. CASE dir[w] = None
      <4>1. slot[s] = NoSlot
        BY <3>3 DEF EmptyInv
      <4>2. ASSUME Install(p), s = S(p) PROVE FALSE
        <5>1. s \in SlotSet(W(p)) /\ W(p) \in Workspaces
          BY <4>2, HandFacts DEF Install, HandInv, HandOf, TypeInv
        <5>2. w = W(p)
          BY <5>1, SlotFacts
        <5>3. dir'[W(p)] # None
          <6>1. Me(p) # None
            BY <4>2, MeFacts, OldFacts DEF Install, TypeInv
          <6> QED BY <4>2, <5>1, <6>1 DEF Install, TypeInv, DirType
        <5> QED BY <2>3, <5>2, <5>3
      <4> QED BY <2>1, <3>1, <4>1, <4>2
    <3> QED BY <3>2, <3>3
  <2> QED BY <2>2, <2>3 DEF EmptyInv
<1>2. ASSUME NEW s \in Slots, People(s) PROVE EmptyInv'
  <2>1. dir' = dir
    BY <1>2, PeopleDisk
  <2>2. ASSUME NEW t \in Slots
        PROVE  /\ slot'[t].at = "none" => slot'[t] = NoSlot
               /\ slot'[t].by # Old => slot'[t].at = "checkout"
               /\ slot[t] = NoSlot => slot'[t] = NoSlot
    BY <1>2, PeopleSlots, SlotFields DEF EmptyInv
  <2> QED BY <2>1, <2>2, SlotFacts DEF EmptyInv
<1>3. CASE UNCHANGED vars
  BY <1>3 DEF vars, disk, EmptyInv
<1> QED BY <1>1, <1>2, <1>3 DEF Next

LEMMA DestStep ==
  ASSUME TypeInv, DestInv, KindInv, EmptyInv, [Next]_vars
  PROVE  DestInv'
<1> USE TypeInv, DestInv, KindInv, EmptyInv, WorkspaceAssumption
<1>1. ASSUME NEW p \in Procs, Step(p), NEW q \in Procs, q # p PROVE DestOf(q)'
  BY <1>1, OthersKept DEF DestInv, DestOf, Kept, W, S, Me
<1> USE MineFacts, SlotFields DEF DestInv, DestOf, KindInv, KindOf, Resting, asked, locals, disk
<1>2. ASSUME NEW p \in Procs, NEW w \in Workspaces, NEW sync \in BOOLEAN,
             CreateBegins(p, w, sync)
      PROVE  DestOf(p)'
  <2>1. /\ pc[p] \in Resting /\ <<p, w>> \in Serves /\ pc'[p] = "mkdir"
        /\ op'[p].n = op[p].n + 1 /\ op'[p].kind = "create" /\ op'[p].w = w
        /\ seen'[p] = manifest /\ guard'[p] = dir[w] /\ todo'[p] = SlotSet(w) /\ cut'[p] = <<>> /\ dest'[p] = NoDest
        /\ (manifest[w] = NoEntry \/ dir[w] = None) /\ UNCHANGED <<dir, slot, reg, stage, manifest, lock, broken>>
    BY ONLY TypeInv, <1>2, CreateBeginsMine
  <2> QED BY <2>1
<1>3. ASSUME NEW p \in Procs, NEW w \in Workspaces, NEW purge \in BOOLEAN,
             DestroyBegins(p, w, purge)
      PROVE  DestOf(p)'
  <2>1. /\ pc[p] \in Resting /\ <<p, w>> \in Serves /\ pc'[p] = "check"
        /\ op'[p].n = op[p].n + 1 /\ op'[p].kind = "destroy" /\ op'[p].w = w
        /\ seen'[p] = manifest /\ guard'[p] = dir[w] /\ todo'[p] = manifest[w] /\ cut'[p] = <<>> /\ dest'[p] = NoDest
        /\ (manifest[w] # NoEntry) /\ UNCHANGED <<dir, slot, reg, stage, manifest, lock, broken>>
    BY ONLY TypeInv, <1>3, DestroyBeginsMine
  <2> QED BY <2>1
<1>4. ASSUME NEW p \in Procs, NEW w \in Workspaces, RepairBegins(p, w)
      PROVE  DestOf(p)'
  <2>1. /\ pc[p] \in Resting /\ <<p, w>> \in Serves /\ pc'[p] = "slots"
        /\ op'[p].n = op[p].n + 1 /\ op'[p].kind = "repair" /\ op'[p].w = w
        /\ seen'[p] = manifest /\ guard'[p] = dir[w] /\ todo'[p] = manifest[w] /\ cut'[p] = <<>> /\ dest'[p] = NoDest
        /\ (manifest[w] # NoEntry /\ dir[w] # None) /\ UNCHANGED <<dir, slot, reg, stage, manifest, lock, broken>>
    BY ONLY TypeInv, <1>4, RepairBeginsMine
  <2> QED BY <2>1
<1>5. ASSUME NEW p \in Procs, MakeDir(p) PROVE DestOf(p)'
  BY <1>5 DEF MakeDir
<1>6. ASSUME NEW p \in Procs, LookAtSlot(p) PROVE DestOf(p)'
  <2>1. CASE pc'[p] = "lock"
    <3>1. /\ UNCHANGED <<op, slot>> /\ dest' = [dest EXCEPT ![p] = [slot |-> slot[S(p)], dir |-> dir[W(p)]]]
          /\ slot[S(p)].at = "none" \/ op[p].sync \/ op[p].kind = "destroy"
      BY <1>6, <2>1 DEF LookAtSlot
    <3>2. dest'[p] = [slot |-> slot[S(p)], dir |-> dir[W(p)]]
      BY <3>1 DEF GuardType, TypeInv
    <3>3. dest'[p].slot = slot[S(p)]
      BY <3>2
    <3> QED BY <2>1, <3>1, <3>3
  <2>2. CASE pc'[p] # "lock"
    <3>1. pc'[p] \notin {"add", "install", "settle"}
      BY <1>6, <2>2 DEF LookAtSlot
    <3> QED BY <2>2, <3>1
  <2> QED BY <2>1, <2>2
<1>7. ASSUME NEW p \in Procs, LookAtSlotFails(p) PROVE DestOf(p)'
  BY <1>7 DEF LookAtSlotFails
<1>8. ASSUME NEW p \in Procs, TakeLock(p) PROVE DestOf(p)'
  BY <1>8 DEF TakeLock
<1>9. ASSUME NEW p \in Procs, LockFails(p) PROVE DestOf(p)'
  BY <1>9 DEF LockFails
<1>10. ASSUME NEW p \in Procs, Settle(p) PROVE DestOf(p)'
  <2>1. CASE SlotFails(p)
    <3>1. pc'[p] \in {"slots", "undo"}
      BY <2>1
    <3> QED BY <3>1
  <2>2. CASE ~SlotFails(p)
    <3>1. CASE dest' = [dest EXCEPT ![p].slot = NoSlot]
      <4>1. dest'[p].slot = NoSlot
        BY <3>1 DEF GuardType, TypeInv
      <4>2. pc'[p] = "add"
        BY <1>10, <2>2 DEF Settle
      <4> QED BY <4>1, <4>2, SlotFields
    <3>2. CASE dest' # [dest EXCEPT ![p].slot = NoSlot]
      <4>1. dest[p].slot.at = "none" /\ Goes(p, "add")
        BY <1>10, <2>2, <3>2 DEF Settle
      <4> QED BY <4>1
    <3> QED BY <3>1, <3>2
  <2> QED BY <2>1, <2>2
<1>11. ASSUME NEW p \in Procs, Stage(p) PROVE DestOf(p)'
  BY <1>11 DEF Stage
<1>12. ASSUME NEW p \in Procs, Install(p) PROVE DestOf(p)'
  BY <1>12 DEF Install
<1>13. ASSUME NEW p \in Procs, Register(p) PROVE DestOf(p)'
  BY <1>13 DEF Register
<1>14. ASSUME NEW p \in Procs, AddFails(p) PROVE DestOf(p)'
  BY <1>14 DEF AddFails
<1>15. ASSUME NEW p \in Procs, Ready(p) PROVE DestOf(p)'
  BY <1>15 DEF Ready
<1>16. ASSUME NEW p \in Procs, RepairEnds(p) PROVE DestOf(p)'
  BY <1>16 DEF RepairEnds
<1>17. ASSUME NEW p \in Procs, Render(p) PROVE DestOf(p)'
  BY <1>17 DEF Render
<1>18. ASSUME NEW p \in Procs, Save(p) PROVE DestOf(p)'
  BY <1>18 DEF Save
<1>19. ASSUME NEW p \in Procs, SaveState(p) PROVE DestOf(p)'
  BY <1>19 DEF SaveState
<1>20. ASSUME NEW p \in Procs, SaveStateFails(p) PROVE DestOf(p)'
  BY <1>20 DEF SaveStateFails
<1>21. ASSUME NEW p \in Procs, UndoSlot(p) PROVE DestOf(p)'
  BY <1>21 DEF UndoSlot, AfterUndo
<1>22. ASSUME NEW p \in Procs, UndoSlotUnlocked(p) PROVE DestOf(p)'
  BY <1>22 DEF UndoSlotUnlocked, AfterUndo
<1>23. ASSUME NEW p \in Procs, UndoDir(p) PROVE DestOf(p)'
  BY <1>23 DEF UndoDir
<1>24. ASSUME NEW p \in Procs, CheckSlot(p) PROVE DestOf(p)'
  BY <1>24 DEF CheckSlot
<1>25. ASSUME NEW p \in Procs, DestroySaves(p) PROVE DestOf(p)'
  BY <1>25 DEF DestroySaves
<1>26. ASSUME NEW p \in Procs, PurgeSlot(p) PROVE DestOf(p)'
  BY <1>26 DEF PurgeSlot
<1>27. ASSUME NEW p \in Procs, PurgeDir(p) PROVE DestOf(p)'
  BY <1>27 DEF PurgeDir
<1>28. ASSUME NEW p \in Procs, Kill(p) PROVE DestOf(p)'
  BY <1>28 DEF Kill
<1>29. ASSUME NEW s \in Slots, People(s), NEW q \in Procs PROVE DestOf(q)'
  BY <1>29, PeopleKeep DEF Kept, W, S, Me
<1>30. ASSUME UNCHANGED vars, NEW q \in Procs PROVE DestOf(q)'
  BY <1>30 DEF vars, going, asked, W, S, Me
<1> HIDE DEF DestInv, DestOf, KindInv, KindOf, Resting, asked, locals, disk
<1>31. ASSUME NEW p \in Procs, Step(p) PROVE DestOf(p)'
  BY <1>31, <1>2, <1>3, <1>4, <1>5, <1>6, <1>7, <1>8, <1>9, <1>10, <1>11, <1>12, <1>13,
     <1>14, <1>15, <1>16, <1>17, <1>18, <1>19, <1>20, <1>21, <1>22, <1>23, <1>24, <1>25,
     <1>26, <1>27, <1>28 DEF Step
<1> QED BY <1>1, <1>29, <1>30, <1>31 DEF Next, DestInv

-----------------------------------------------------------------------------
(* What an operation has made.                                                *)

LEMMA RestSteps ==
  ASSUME TypeInv, NEW p \in Procs, Step(p)
  PROVE  pc[p] \in Resting =>
           /\ op[p].n < MaxOps /\ op'[p].n = op[p].n + 1
           /\ UNCHANGED <<dir, slot, reg, stage, manifest, lock, broken>>
<1> USE TypeInv, WorkspaceAssumption DEF Resting
<1> DEFINE Goal ==
         pc[p] \in Resting =>
           /\ op[p].n < MaxOps /\ op'[p].n = op[p].n + 1
           /\ UNCHANGED <<dir, slot, reg, stage, manifest, lock, broken>>
<1>1. ASSUME NEW w \in Workspaces, NEW sync \in BOOLEAN, NEW purge \in BOOLEAN,
             CreateBegins(p, w, sync) \/ DestroyBegins(p, w, purge) \/ RepairBegins(p, w)
      PROVE  Goal
  BY <1>1, BeginDisk, BeginCounts
<1>2. ASSUME MakeDir(p) PROVE Goal
  BY <1>2 DEF MakeDir
<1>3. ASSUME LookAtSlot(p) PROVE Goal
  BY <1>3 DEF LookAtSlot
<1>4. ASSUME LookAtSlotFails(p) PROVE Goal
  BY <1>4 DEF LookAtSlotFails
<1>5. ASSUME TakeLock(p) PROVE Goal
  BY <1>5 DEF TakeLock
<1>6. ASSUME LockFails(p) PROVE Goal
  BY <1>6 DEF LockFails
<1>7. ASSUME Settle(p) PROVE Goal
  BY <1>7 DEF Settle
<1>8. ASSUME Stage(p) PROVE Goal
  BY <1>8 DEF Stage
<1>9. ASSUME Install(p) PROVE Goal
  BY <1>9 DEF Install
<1>10. ASSUME Register(p) PROVE Goal
  BY <1>10 DEF Register
<1>11. ASSUME AddFails(p) PROVE Goal
  BY <1>11 DEF AddFails
<1>12. ASSUME Ready(p) PROVE Goal
  BY <1>12 DEF Ready
<1>13. ASSUME RepairEnds(p) PROVE Goal
  BY <1>13 DEF RepairEnds
<1>14. ASSUME Render(p) PROVE Goal
  BY <1>14 DEF Render
<1>15. ASSUME Save(p) PROVE Goal
  BY <1>15 DEF Save
<1>16. ASSUME SaveState(p) PROVE Goal
  BY <1>16 DEF SaveState
<1>17. ASSUME SaveStateFails(p) PROVE Goal
  BY <1>17 DEF SaveStateFails
<1>18. ASSUME UndoSlot(p) PROVE Goal
  BY <1>18 DEF UndoSlot, AfterUndo
<1>19. ASSUME UndoSlotUnlocked(p) PROVE Goal
  BY <1>19 DEF UndoSlotUnlocked, AfterUndo
<1>20. ASSUME UndoDir(p) PROVE Goal
  BY <1>20 DEF UndoDir
<1>21. ASSUME CheckSlot(p) PROVE Goal
  BY <1>21 DEF CheckSlot
<1>22. ASSUME DestroySaves(p) PROVE Goal
  BY <1>22 DEF DestroySaves
<1>23. ASSUME PurgeSlot(p) PROVE Goal
  BY <1>23 DEF PurgeSlot
<1>24. ASSUME PurgeDir(p) PROVE Goal
  BY <1>24 DEF PurgeDir
<1>25. ASSUME Kill(p) PROVE Goal
  BY <1>25 DEF Kill
<1> HIDE DEF Goal
<1>26. Goal
  BY ONLY Step(p), <1>1, <1>2, <1>3, <1>4, <1>5, <1>6, <1>7, <1>8, <1>9, <1>10, <1>11, <1>12,
     <1>13, <1>14, <1>15, <1>16, <1>17, <1>18, <1>19, <1>20, <1>21, <1>22, <1>23, <1>24,
     <1>25 DEF Step
<1> QED BY ONLY <1>26 DEF Goal

(* Nothing there is yet is of the operation that begins.                      *)
LEMMA BeginsNew ==
  ASSUME TypeInv, KnownInv, NEW p \in Procs, Step(p), pc[p] \in Resting
  PROVE  /\ \A w \in Workspaces : dir'[w] # Me(p)'
         /\ \A s \in Slots : slot'[s].by # Me(p)' /\ stage'[s] # Me(p)'
<1>1. /\ op[p].n < MaxOps /\ op'[p].n = op[p].n + 1 /\ UNCHANGED <<dir, slot, stage>>
  BY RestSteps
<1>2. Me(p)' = <<p, op[p].n + 1>>
  BY <1>1 DEF Me
<1>3. ~Known(Me(p)')
  BY <1>1, <1>2, NewIsUnknown
<1> QED BY <1>1, <1>3 DEF KnownInv

(* The part of an operation that goes on is its own.                          *)
LEMMA GoesOn ==
  ASSUME TypeInv, KindInv, NEW p \in Procs, Step(p), pc[p] \notin Resting
  PROVE  /\ Me(p)' = Me(p) /\ Me(p) \in Ids /\ Me(p) # None /\ Me(p) # Old
         /\ \A q \in Procs : q # p => Me(q) # Me(p)
<1>1. Me(p)' = Me(p)
  BY NumberSteps
<1>2. Me(p) \in Ids /\ op[p].n > 0 /\ op[p].n \in Nat
  BY MeFacts, MineFacts DEF KindInv, KindOf, Resting, TypeInv
<1>3. Me(p) # Old
  BY <1>2 DEF Me, Old
<1> QED BY <1>1, <1>2, <1>3, OldFacts DEF Me

LEMMA CleanStep ==
  ASSUME TypeInv, KindInv, HandInv, KnownInv, CleanInv, [Next]_vars
  PROVE  CleanInv'
<1>1. ASSUME NEW p \in Procs, Step(p), NEW q \in Procs, pc'[q] \notin Resting,
             NEW s \in Slots, slot'[s].by = Me(q)'
      PROVE  slot'[s].work = "clean"
  <2>1. slot'[s] = slot[s] \/ slot'[s].work = "clean"
    BY <1>1, SlotSteps, SlotFields
  <2>2. CASE q # p
    BY <1>1, <2>1, <2>2, OthersKept DEF Kept, CleanInv, CleanOf, Me
  <2>3. CASE q = p /\ pc[p] \notin Resting
    BY <1>1, <2>1, <2>3, GoesOn DEF CleanInv, CleanOf
  <2>4. CASE q = p /\ pc[p] \in Resting
    BY <1>1, <2>4, BeginsNew
  <2> QED BY <2>2, <2>3, <2>4
<1>2. ASSUME NEW t \in Slots, People(t), NEW q \in Procs, pc'[q] \notin Resting,
             NEW s \in Slots, slot'[s].by = Me(q)'
      PROVE  slot'[s].work = "clean"
  <2>1. pc[q] \notin Resting /\ Me(q)' = Me(q)
    BY <1>2, PeopleKeep DEF Kept, Me
  <2>2. CASE slot'[s] = NoSlot
    BY <2>2, SlotFields
  <2>3. CASE slot'[s].by = slot[s].by
    <3>1. slot[s].by \in Live /\ slot[s].work = "clean"
      BY <1>2, <2>1, <2>3 DEF Live, CleanInv, CleanOf
    <3> QED BY <1>2, <3>1, PeopleSlots
  <2> QED BY <1>2, <2>2, <2>3, PeopleSlots
<1>3. CASE UNCHANGED vars
  BY <1>3 DEF vars, going, asked, disk, CleanInv, CleanOf, Me
<1>4. ASSUME NEW p \in Procs, Step(p) PROVE CleanInv'
  BY <1>1, <1>4 DEF CleanInv, CleanOf
<1>5. ASSUME NEW t \in Slots, People(t) PROVE CleanInv'
  BY <1>2, <1>5 DEF CleanInv, CleanOf
<1> QED BY <1>3, <1>4, <1>5 DEF Next

LEMMA StagedStep ==
  ASSUME TypeInv, KindInv, HandInv, KnownInv, StagedInv, [Next]_vars
  PROVE  StagedInv'
<1> DEFINE Booked(q, s) == Me(q) \in broken \/ (pc[q] \in {"install", "register"} /\ S(q) = s)
<1>1. ASSUME NEW p \in Procs, Step(p), NEW q \in Procs, pc'[q] # "idle",
             NEW s \in Slots, stage'[s] = Me(q)'
      PROVE  Booked(q, s)'
  <2>1. broken \subseteq broken'
    BY <1>1, BrokenSteps
  <2>2. stage'[s] = stage[s] \/ stage'[s] = None
        \/ (stage'[s] = Me(p) /\ pc[p] \in UnderLock /\ s = S(p) /\ pc'[p] = "install" /\ UNCHANGED <<op, todo>>)
    BY <1>1, StageSteps
  <2>3. CASE q # p
    <3>1. Kept(q) /\ Me(q)' = Me(q) /\ S(q)' = S(q) /\ pc[q] # "idle"
      BY <1>1, <2>3, OthersKept DEF Kept, Me, S, W
    <3>2. Me(q) # Me(p) /\ Me(q) # None
      BY <2>3, <3>1, MeFacts, OldFacts DEF Me, TypeInv
    <3>3. stage[s] = Me(q)
      BY <1>1, <2>2, <3>1, <3>2
    <3> QED BY <2>1, <3>1, <3>3 DEF StagedInv, StagedOf, Kept
  <2>4. CASE q = p /\ pc[p] \notin Resting
    <3>1. Me(p)' = Me(p) /\ Me(p) # None
      BY <1>1, <2>4, GoesOn
    <3>2. CASE stage'[s] = stage[s]
      <4>1. CASE Me(p) \in broken
        BY <2>1, <2>4, <3>1, <4>1
      <4>2. CASE pc[p] \in {"install", "register"} /\ S(p) = s
        <5>0. s \in Slots /\ stage[s] = Me(p)
          BY <1>1, <2>4, <3>1, <3>2
        <5>1. CASE Install(p)
          <6>1. pc'[p] = "register" /\ UNCHANGED <<op, todo>>
            BY <5>1, MineFacts DEF Install
          <6> QED BY <2>4, <4>2, <6>1 DEF S, W
        <5>2. CASE Register(p) \/ AddFails(p)
          <6>1. stage' = [stage EXCEPT ![s] = None]
            BY <4>2, <5>2 DEF Register, AddFails
          <6> QED BY <1>1, <2>4, <3>1, <6>1 DEF TypeInv, RegType
        <5>3. CASE Kill(p)
          BY <1>1, <2>4, <5>3, MineFacts DEF Kill, Resting
        <5> QED BY <1>1, <4>2, <5>1, <5>2, <5>3, AtWorkSteps
      <4> QED BY <1>1, <2>4, <3>1, <3>2, <4>1, <4>2 DEF StagedInv, StagedOf, Resting
    <3>3. CASE stage'[s] # stage[s]
      <4>1. pc'[p] = "install" /\ s = S(p) /\ UNCHANGED <<op, todo>>
        BY <1>1, <2>2, <2>4, <3>1, <3>3
      <4> QED BY <2>4, <4>1 DEF S, W
    <3> QED BY <3>2, <3>3
  <2>5. CASE q = p /\ pc[p] \in Resting
    BY <1>1, <2>5, BeginsNew
  <2> QED BY <2>3, <2>4, <2>5
<1>2. ASSUME NEW t \in Slots, People(t), NEW q \in Procs, pc'[q] # "idle",
             NEW s \in Slots, stage'[s] = Me(q)'
      PROVE  Booked(q, s)'
  <2>1. Kept(q) /\ Me(q)' = Me(q) /\ S(q)' = S(q) /\ pc[q] # "idle" /\ broken' = broken
    BY <1>2, PeopleKeep, PeopleDisk DEF Kept, Me, S, W
  <2>2. Me(q) # None
    BY <2>1, MeFacts, OldFacts DEF TypeInv
  <2>3. stage[s] = Me(q)
    BY <1>2, <2>1, <2>2, PeopleStages
  <2> QED BY <2>1, <2>3 DEF StagedInv, StagedOf, Kept
<1>3. CASE UNCHANGED vars
  BY <1>3 DEF vars, going, asked, locals, disk, StagedInv, StagedOf, Me, S, W
<1>4. ASSUME NEW p \in Procs, Step(p) PROVE StagedInv'
  BY <1>1, <1>4 DEF StagedInv, StagedOf
<1>5. ASSUME NEW t \in Slots, People(t) PROVE StagedInv'
  BY <1>2, <1>5 DEF StagedInv, StagedOf
<1> QED BY <1>3, <1>4, <1>5 DEF Next

LEMMA OpKeepsOrRests ==
  ASSUME TypeInv, NEW p \in Procs, Step(p)
  PROVE  pc[p] \notin Resting => op'[p] = op[p] \/ (pc'[p] = "idle" /\ op'[p].kind = "none")
<1> USE TypeInv, WorkspaceAssumption, MineFacts DEF Resting, asked
<1> DEFINE Goal ==
         pc[p] \notin Resting => op'[p] = op[p] \/ (pc'[p] = "idle" /\ op'[p].kind = "none")
<1>1. ASSUME NEW w \in Workspaces, NEW sync \in BOOLEAN, NEW purge \in BOOLEAN,
             CreateBegins(p, w, sync) \/ DestroyBegins(p, w, purge) \/ RepairBegins(p, w)
      PROVE  Goal
  BY <1>1, BeginDisk
<1>2. ASSUME MakeDir(p) PROVE Goal
  BY <1>2 DEF MakeDir
<1>3. ASSUME LookAtSlot(p) PROVE Goal
  BY <1>3 DEF LookAtSlot
<1>4. ASSUME LookAtSlotFails(p) PROVE Goal
  BY <1>4 DEF LookAtSlotFails
<1>5. ASSUME TakeLock(p) PROVE Goal
  BY <1>5 DEF TakeLock
<1>6. ASSUME LockFails(p) PROVE Goal
  BY <1>6 DEF LockFails
<1>7. ASSUME Settle(p) PROVE Goal
  BY <1>7 DEF Settle
<1>8. ASSUME Stage(p) PROVE Goal
  BY <1>8 DEF Stage
<1>9. ASSUME Install(p) PROVE Goal
  BY <1>9 DEF Install
<1>10. ASSUME Register(p) PROVE Goal
  BY <1>10 DEF Register
<1>11. ASSUME AddFails(p) PROVE Goal
  BY <1>11 DEF AddFails
<1>12. ASSUME Ready(p) PROVE Goal
  BY <1>12 DEF Ready
<1>13. ASSUME RepairEnds(p) PROVE Goal
  BY <1>13 DEF RepairEnds
<1>14. ASSUME Render(p) PROVE Goal
  BY <1>14 DEF Render
<1>15. ASSUME Save(p) PROVE Goal
  BY <1>15 DEF Save
<1>16. ASSUME SaveState(p) PROVE Goal
  BY <1>16 DEF SaveState
<1>17. ASSUME SaveStateFails(p) PROVE Goal
  BY <1>17 DEF SaveStateFails
<1>18. ASSUME UndoSlot(p) PROVE Goal
  BY <1>18 DEF UndoSlot, AfterUndo
<1>19. ASSUME UndoSlotUnlocked(p) PROVE Goal
  BY <1>19 DEF UndoSlotUnlocked, AfterUndo
<1>20. ASSUME UndoDir(p) PROVE Goal
  BY <1>20 DEF UndoDir
<1>21. ASSUME CheckSlot(p) PROVE Goal
  BY <1>21 DEF CheckSlot
<1>22. ASSUME DestroySaves(p) PROVE Goal
  BY <1>22 DEF DestroySaves
<1>23. ASSUME PurgeSlot(p) PROVE Goal
  BY <1>23 DEF PurgeSlot
<1>24. ASSUME PurgeDir(p) PROVE Goal
  BY <1>24 DEF PurgeDir
<1>25. ASSUME Kill(p) PROVE Goal
  BY <1>25 DEF Kill
<1> HIDE DEF Goal
<1>26. Goal
  BY ONLY Step(p), <1>1, <1>2, <1>3, <1>4, <1>5, <1>6, <1>7, <1>8, <1>9, <1>10, <1>11, <1>12,
     <1>13, <1>14, <1>15, <1>16, <1>17, <1>18, <1>19, <1>20, <1>21, <1>22, <1>23, <1>24,
     <1>25 DEF Step
<1> QED BY ONLY <1>26 DEF Goal

LEMMA OpKeeps ==
  ASSUME TypeInv, NEW p \in Procs, Step(p), pc[p] \notin Resting, pc'[p] # "idle"
  PROVE  op'[p] = op[p]
  BY OpKeepsOrRests

LEMMA PeopleWork ==
  ASSUME TypeInv, NEW t \in Slots, People(t), NEW s \in Slots, Passed(s), slot[s].work # "work"
  PROVE  slot'[s].work # "work"
<1> USE DEF TypeInv, SlotType, SlotStates, NoSlot
<1>1. CASE Work(t)
  BY <1>1 DEF Work
<1>2. CASE PushWork(t)
  BY <1>2 DEF PushWork
<1>3. CASE Delete(t)
  BY <1>3 DEF Delete
<1>4. CASE CleanTemp(t)
  BY <1>4 DEF CleanTemp
<1> QED BY <1>1, <1>2, <1>3, <1>4 DEF People

LEMMA RestingBegins ==
  ASSUME TypeInv, NEW p \in Procs, Step(p)
  PROVE  pc[p] \in Resting =>
           \E w \in Workspaces, sync \in BOOLEAN, purge \in BOOLEAN :
             CreateBegins(p, w, sync) \/ DestroyBegins(p, w, purge) \/ RepairBegins(p, w)
<1> USE TypeInv, WorkspaceAssumption DEF Resting
<1> DEFINE Goal ==
         pc[p] \in Resting =>
           \E w \in Workspaces, sync \in BOOLEAN, purge \in BOOLEAN :
             CreateBegins(p, w, sync) \/ DestroyBegins(p, w, purge) \/ RepairBegins(p, w)
<1>1. ASSUME NEW w \in Workspaces, NEW sync \in BOOLEAN, NEW purge \in BOOLEAN,
             CreateBegins(p, w, sync) \/ DestroyBegins(p, w, purge) \/ RepairBegins(p, w)
      PROVE  Goal
  BY <1>1
<1>2. ASSUME MakeDir(p) PROVE Goal
  BY <1>2 DEF MakeDir
<1>3. ASSUME LookAtSlot(p) PROVE Goal
  BY <1>3 DEF LookAtSlot
<1>4. ASSUME LookAtSlotFails(p) PROVE Goal
  BY <1>4 DEF LookAtSlotFails
<1>5. ASSUME TakeLock(p) PROVE Goal
  BY <1>5 DEF TakeLock
<1>6. ASSUME LockFails(p) PROVE Goal
  BY <1>6 DEF LockFails
<1>7. ASSUME Settle(p) PROVE Goal
  BY <1>7 DEF Settle
<1>8. ASSUME Stage(p) PROVE Goal
  BY <1>8 DEF Stage
<1>9. ASSUME Install(p) PROVE Goal
  BY <1>9 DEF Install
<1>10. ASSUME Register(p) PROVE Goal
  BY <1>10 DEF Register
<1>11. ASSUME AddFails(p) PROVE Goal
  BY <1>11 DEF AddFails
<1>12. ASSUME Ready(p) PROVE Goal
  BY <1>12 DEF Ready
<1>13. ASSUME RepairEnds(p) PROVE Goal
  BY <1>13 DEF RepairEnds
<1>14. ASSUME Render(p) PROVE Goal
  BY <1>14 DEF Render
<1>15. ASSUME Save(p) PROVE Goal
  BY <1>15 DEF Save
<1>16. ASSUME SaveState(p) PROVE Goal
  BY <1>16 DEF SaveState
<1>17. ASSUME SaveStateFails(p) PROVE Goal
  BY <1>17 DEF SaveStateFails
<1>18. ASSUME UndoSlot(p) PROVE Goal
  BY <1>18 DEF UndoSlot, AfterUndo
<1>19. ASSUME UndoSlotUnlocked(p) PROVE Goal
  BY <1>19 DEF UndoSlotUnlocked, AfterUndo
<1>20. ASSUME UndoDir(p) PROVE Goal
  BY <1>20 DEF UndoDir
<1>21. ASSUME CheckSlot(p) PROVE Goal
  BY <1>21 DEF CheckSlot
<1>22. ASSUME DestroySaves(p) PROVE Goal
  BY <1>22 DEF DestroySaves
<1>23. ASSUME PurgeSlot(p) PROVE Goal
  BY <1>23 DEF PurgeSlot
<1>24. ASSUME PurgeDir(p) PROVE Goal
  BY <1>24 DEF PurgeDir
<1>25. ASSUME Kill(p) PROVE Goal
  BY <1>25 DEF Kill
<1> HIDE DEF Goal
<1>26. Goal
  BY ONLY Step(p), <1>1, <1>2, <1>3, <1>4, <1>5, <1>6, <1>7, <1>8, <1>9, <1>10, <1>11, <1>12,
     <1>13, <1>14, <1>15, <1>16, <1>17, <1>18, <1>19, <1>20, <1>21, <1>22, <1>23, <1>24,
     <1>25 DEF Step
<1> QED BY ONLY <1>26 DEF Goal

LEMMA BeginFacts ==
  ASSUME TypeInv, NEW p \in Procs, Step(p), pc[p] \in Resting
  PROVE  \E w \in Workspaces :
           /\ op'[p].w = w /\ seen'[p] = manifest /\ guard'[p] = dir[w] /\ manifest' = manifest /\ cut'[p] = <<>>
           /\ op'[p].kind = "destroy" => manifest[w] # NoEntry /\ todo'[p] = manifest[w] /\ pc'[p] = "check"
           /\ op'[p].kind = "create" => pc'[p] = "mkdir"
<1> DEFINE Goal == \E w \in Workspaces :
           /\ op'[p].w = w /\ seen'[p] = manifest /\ guard'[p] = dir[w] /\ manifest' = manifest /\ cut'[p] = <<>>
           /\ op'[p].kind = "destroy" => manifest[w] # NoEntry /\ todo'[p] = manifest[w] /\ pc'[p] = "check"
           /\ op'[p].kind = "create" => pc'[p] = "mkdir"
<1>1. ASSUME NEW w \in Workspaces, NEW sync \in BOOLEAN, CreateBegins(p, w, sync) PROVE Goal
  <2>1. op'[p].w = w /\ seen'[p] = manifest /\ guard'[p] = dir[w] /\ manifest' = manifest /\ cut'[p] = <<>>
    BY ONLY TypeInv, <1>1, CreateBeginsMine
  <2>2. op'[p].kind = "create" /\ pc'[p] = "mkdir"
    BY ONLY TypeInv, <1>1, CreateBeginsMine
  <2> QED BY <2>1, <2>2
<1>2. ASSUME NEW w \in Workspaces, NEW purge \in BOOLEAN, DestroyBegins(p, w, purge) PROVE Goal
  <2>1. op'[p].w = w /\ seen'[p] = manifest /\ guard'[p] = dir[w] /\ manifest' = manifest /\ cut'[p] = <<>>
    BY ONLY TypeInv, <1>2, DestroyBeginsMine
  <2>2. op'[p].kind = "destroy" /\ manifest[w] # NoEntry /\ todo'[p] = manifest[w] /\ pc'[p] = "check"
    BY ONLY TypeInv, <1>2, DestroyBeginsMine
  <2> QED BY <2>1, <2>2
<1>3. ASSUME NEW w \in Workspaces, RepairBegins(p, w) PROVE Goal
  <2>1. op'[p].w = w /\ seen'[p] = manifest /\ guard'[p] = dir[w] /\ manifest' = manifest /\ cut'[p] = <<>>
    BY ONLY TypeInv, <1>3, RepairBeginsMine
  <2>2. op'[p].kind = "repair"
    BY ONLY TypeInv, <1>3, RepairBeginsMine
  <2> QED BY <2>1, <2>2
<1> HIDE DEF Goal
<1>4. Goal
  BY <1>1, <1>2, <1>3, RestingBegins
<1> QED BY <1>4 DEF Goal

LEMMA CheckSteps ==
  ASSUME TypeInv, KindInv, NEW p \in Procs, Step(p)
  PROVE  op[p].kind = "destroy" /\ pc[p] \notin Resting /\ pc'[p] # "idle" =>
           /\ UNCHANGED <<op, seen>>
           /\ \/ /\ pc[p] = "check" /\ pc'[p] = "check" /\ slot' = slot
                 /\ todo'[p] = todo[p] \ {S(p)} /\ slot[S(p)].work = "clean"
              \/ pc[p] = "check" /\ todo[p] = {} /\ todo'[p] = seen[p][W(p)] /\ slot' = slot
              \/ pc[p] # "check" /\ pc'[p] # "check" /\ todo'[p] \subseteq todo[p]
<1> USE TypeInv, KindInv, WorkspaceAssumption, MineFacts DEF Resting, KindInv, KindOf, TypeInv, TodoType, asked, disk
<1> DEFINE Goal ==
         op[p].kind = "destroy" /\ pc[p] \notin Resting /\ pc'[p] # "idle" =>
           /\ UNCHANGED <<op, seen>>
           /\ \/ /\ pc[p] = "check" /\ pc'[p] = "check" /\ slot' = slot
                 /\ todo'[p] = todo[p] \ {S(p)} /\ slot[S(p)].work = "clean"
              \/ pc[p] = "check" /\ todo[p] = {} /\ todo'[p] = seen[p][W(p)] /\ slot' = slot
              \/ pc[p] # "check" /\ pc'[p] # "check" /\ todo'[p] \subseteq todo[p]
<1>1. ASSUME NEW w \in Workspaces, NEW sync \in BOOLEAN, NEW purge \in BOOLEAN,
             CreateBegins(p, w, sync) \/ DestroyBegins(p, w, purge) \/ RepairBegins(p, w)
      PROVE  Goal
  BY <1>1, BeginDisk
<1>2. ASSUME MakeDir(p) PROVE Goal
  BY <1>2 DEF MakeDir
<1>3. ASSUME LookAtSlot(p) PROVE Goal
  BY <1>3 DEF LookAtSlot
<1>4. ASSUME LookAtSlotFails(p) PROVE Goal
  BY <1>4 DEF LookAtSlotFails
<1>5. ASSUME TakeLock(p) PROVE Goal
  BY <1>5 DEF TakeLock
<1>6. ASSUME LockFails(p) PROVE Goal
  BY <1>6 DEF LockFails
<1>7. ASSUME Settle(p) PROVE Goal
  BY <1>7 DEF Settle
<1>8. ASSUME Stage(p) PROVE Goal
  BY <1>8 DEF Stage
<1>9. ASSUME Install(p) PROVE Goal
  BY <1>9 DEF Install
<1>10. ASSUME Register(p) PROVE Goal
  BY <1>10 DEF Register
<1>11. ASSUME AddFails(p) PROVE Goal
  BY <1>11 DEF AddFails
<1>12. ASSUME Ready(p) PROVE Goal
  BY <1>12 DEF Ready
<1>13. ASSUME RepairEnds(p) PROVE Goal
  BY <1>13 DEF RepairEnds
<1>14. ASSUME Render(p) PROVE Goal
  BY <1>14 DEF Render
<1>15. ASSUME Save(p) PROVE Goal
  BY <1>15 DEF Save
<1>16. ASSUME SaveState(p) PROVE Goal
  BY <1>16 DEF SaveState
<1>17. ASSUME SaveStateFails(p) PROVE Goal
  BY <1>17 DEF SaveStateFails
<1>18. ASSUME UndoSlot(p) PROVE Goal
  BY <1>18 DEF UndoSlot, AfterUndo
<1>19. ASSUME UndoSlotUnlocked(p) PROVE Goal
  BY <1>19 DEF UndoSlotUnlocked, AfterUndo
<1>20. ASSUME UndoDir(p) PROVE Goal
  BY <1>20 DEF UndoDir
<1>21. ASSUME CheckSlot(p) PROVE Goal
  BY <1>21 DEF CheckSlot
<1>22. ASSUME DestroySaves(p) PROVE Goal
  BY <1>22 DEF DestroySaves
<1>23. ASSUME PurgeSlot(p) PROVE Goal
  BY <1>23 DEF PurgeSlot
<1>24. ASSUME PurgeDir(p) PROVE Goal
  BY <1>24 DEF PurgeDir
<1>25. ASSUME Kill(p) PROVE Goal
  BY <1>25 DEF Kill
<1> HIDE DEF Goal
<1>26. Goal
  BY ONLY Step(p), <1>1, <1>2, <1>3, <1>4, <1>5, <1>6, <1>7, <1>8, <1>9, <1>10, <1>11, <1>12,
     <1>13, <1>14, <1>15, <1>16, <1>17, <1>18, <1>19, <1>20, <1>21, <1>22, <1>23, <1>24,
     <1>25 DEF Step
<1> QED BY ONLY <1>26 DEF Goal

LEMMA EntrySlots ==
  ASSUME TypeInv, KindInv, NEW p \in Procs, pc[p] # "idle", seen[p][W(p)] # NoEntry
  PROVE  seen[p][W(p)] \subseteq SlotSet(W(p)) /\ seen[p][W(p)] \subseteq Slots
  BY WFacts, SlotFacts DEF TypeInv, EntryType, IsEntry

LEMMA PastStep ==
  ASSUME TypeInv, TypeInv', KindInv, KindInv', HandInv, PastInv, [Next]_vars
  PROVE  PastInv'
<1>1. ASSUME NEW p \in Procs, Step(p), NEW q \in Procs, pc'[q] # "idle", op'[q].kind = "destroy"
      PROVE  PastOf(q)'
  <2>1. \A s \in Slots : slot'[s] = slot[s] \/ slot'[s].work # "work"
    BY <1>1, SlotSteps, SlotFields
  <2>2. CASE q # p
    <3>1. Kept(q) /\ W(q)' = W(q) /\ pc[q] # "idle" /\ op[q].kind = "destroy"
      BY <1>1, <2>2, OthersKept DEF Kept, W
    <3>2. PastOf(q) /\ seen[q][W(q)] # NoEntry
      BY <3>1 DEF PastInv, PastOf
    <3>3. seen[q][W(q)] \subseteq Slots
      BY <3>1, <3>2, EntrySlots
    <3> QED BY <2>1, <3>1, <3>2, <3>3 DEF PastOf, Kept
  <2>3. CASE q = p /\ pc[p] \notin Resting
    <3> USE <1>1, <2>3
    <3>1. op[p].kind = "destroy"
      BY OpKeeps
    <3>2. UNCHANGED <<op, seen>>
      BY <3>1, CheckSteps
    <3>3. PastOf(p) /\ W(p)' = W(p) /\ seen[p][W(p)] # NoEntry /\ pc[p] # "idle"
      BY <3>1, <3>2 DEF PastInv, PastOf, W, Resting
    <3>4. seen[p][W(p)] \subseteq Slots
      BY <3>3, EntrySlots
    <3>5. CASE pc[p] = "check" /\ pc'[p] = "check" /\ todo'[p] = todo[p] \ {S(p)} /\ slot[S(p)].work = "clean" /\ slot' = slot
      BY <3>1, <3>2, <3>3, <3>5 DEF PastOf
    <3>6. CASE pc[p] = "check" /\ todo[p] = {} /\ todo'[p] = seen[p][W(p)] /\ slot' = slot
      BY <3>1, <3>2, <3>3, <3>6 DEF PastOf
    <3>7. CASE pc[p] # "check" /\ pc'[p] # "check" /\ todo'[p] \subseteq todo[p]
      BY <2>1, <3>1, <3>2, <3>3, <3>4, <3>7 DEF PastOf
    <3> QED BY <3>1, <3>5, <3>6, <3>7, CheckSteps
  <2>4. CASE q = p /\ pc[p] \in Resting
    <3>1. PICK w \in Workspaces :
            /\ op'[p].w = w /\ seen'[p] = manifest /\ manifest[w] # NoEntry /\ todo'[p] = manifest[w] /\ pc'[p] = "check"
      BY <1>1, <2>4, BeginFacts
    <3> QED BY <2>4, <3>1 DEF PastOf, W
  <2> QED BY <2>2, <2>3, <2>4
<1>2. ASSUME NEW t \in Slots, People(t), NEW q \in Procs, pc'[q] # "idle", op'[q].kind = "destroy"
      PROVE  PastOf(q)'
  <2>1. Kept(q) /\ W(q)' = W(q) /\ pc[q] \notin Resting /\ op[q].kind = "destroy"
    BY <1>2, PeopleKeep DEF Kept, W, KindInv, KindOf, Resting
  <2>2. PastOf(q) /\ seen[q][W(q)] # NoEntry
    BY <2>1 DEF PastInv, PastOf, Resting
  <2>3. seen[q][W(q)] \subseteq Slots /\ seen[q][W(q)] \subseteq SlotSet(W(q)) /\ W(q) \in Workspaces
    BY <2>1, <2>2, EntrySlots, WFacts DEF Resting
  <2>4. ASSUME NEW s \in seen[q][W(q)], pc[q] # "check" \/ s \notin todo[q] PROVE slot'[s].work # "work"
    <3>1. slot[s].work # "work" /\ s \in Slots
      BY <2>1, <2>2, <2>3, <2>4 DEF PastOf, Resting
    <3>2. Passed(s)
      BY <2>1, <2>3, <2>4, SlotFacts DEF Passed
    <3> QED BY <1>2, <3>1, <3>2, PeopleWork
  <2> QED BY <2>1, <2>2, <2>4 DEF PastOf, Kept
<1>3. CASE UNCHANGED vars
  BY <1>3 DEF vars, going, asked, locals, disk, PastInv, PastOf, W
<1>4. ASSUME NEW p \in Procs, Step(p) PROVE PastInv'
  BY <1>1, <1>4 DEF PastInv, PastOf
<1>5. ASSUME NEW t \in Slots, People(t) PROVE PastInv'
  BY <1>2, <1>5 DEF PastInv, PastOf
<1> QED BY <1>3, <1>4, <1>5 DEF Next

LEMMA NotOld == ASSUME TypeInv, KindInv, NEW p \in Procs, pc[p] # "idle" PROVE Me(p) # Old
<1>1. op[p].n > 0 /\ op[p].n \in Nat
  BY MineFacts DEF KindInv, KindOf
<1> QED BY <1>1 DEF Me, Old

(* What is cut is on the books; what leaves the books is gone or reported.    *)
LEMMA RegisterCuts ==
  ASSUME TypeInv, KindInv, HandInv, NEW p \in Procs, Register(p)
  PROVE  ToSet(cut'[p]) = ToSet(cut[p]) \cup {S(p)}
<1>1. S(p) \in Slots /\ cut[p] \in Seq(Slots)
  BY HandFacts DEF Register, HandInv, HandOf, TypeInv, CutType
<1>2. cut'[p] = Append(cut[p], S(p))
  BY DEF Register, TypeInv, CutType
<1> QED BY <1>1, <1>2, AppendFacts

LEMMA AddBreaks ==
  ASSUME TypeInv, NEW p \in Procs, NEW s \in Slots, AddFails(p), pc[p] = "register", S(p) = s,
         slot[s].by = Me(p), slot'[s] = slot[s], Me(p) # Old, EmptyInv
  PROVE  Me(p) \in broken'
<1>1. PICK removes \in BOOLEAN, drops \in BOOLEAN :
        /\ slot' = IF removes THEN Removed(s, Checkout(Me(p))) ELSE slot
        /\ Breaks(p, ~removes \/ ~drops)
  BY DEF AddFails
<1>2. slot[s].at = "checkout"
  BY DEF EmptyInv
<1>3. ~removes
  BY <1>1, <1>2, RemovedSlots, SlotFields DEF Same, TypeInv
<1> QED BY <1>1, <1>3 DEF Breaks

LEMMA UndoCuts ==
  ASSUME TypeInv, HandInv, EmptyInv, NEW p \in Procs, UndoSlot(p) \/ UndoSlotUnlocked(p),
         NEW s \in ToSet(cut[p]), s \in Slots, slot[s].by = Me(p), slot'[s] = slot[s], Me(p) # Old
  PROVE  Me(p) \in broken' \/ s \in ToSet(cut'[p])
<1>1. CASE UndoSlotUnlocked(p)
  BY <1>1 DEF UndoSlotUnlocked, Breaks
<1>2. CASE UndoSlot(p)
  <2>1. cut'[p] = Front(cut[p]) /\ cut[p] # <<>> /\ cut[p] \in Seq(Slots)
    BY <1>2 DEF UndoSlot, AfterUndo, HandInv, HandOf, TypeInv, CutType
  <2>2. s = Last(cut[p]) \/ s \in ToSet(cut'[p])
    BY <2>1, FrontFacts
  <2>3. ASSUME s = Last(cut[p]) PROVE Me(p) \in broken'
    <3>1. PICK removes \in BOOLEAN :
            /\ slot' = IF removes THEN Removed(s, Checkout(Me(p))) ELSE slot
            /\ Breaks(p, slot' = slot)
      BY <1>2, <2>3 DEF UndoSlot
    <3>2. slot[s].at = "checkout"
      BY DEF EmptyInv
    <3>3. ~removes
      BY <3>1, <3>2, RemovedSlots, SlotFields DEF Same, TypeInv
    <3> QED BY <3>1, <3>3 DEF Breaks
  <2> QED BY <2>2, <2>3
<1> QED BY <1>1, <1>2

LEMMA CutSteps ==
  ASSUME TypeInv, KindInv, NEW p \in Procs, Step(p)
  PROVE  op[p].kind = "create" /\ pc[p] \notin Resting /\ pc'[p] # "idle" =>
           cut'[p] = cut[p] \/ cut[p] = <<>> \/ Register(p) \/ UndoSlot(p) \/ UndoSlotUnlocked(p)
<1> USE TypeInv, KindInv, WorkspaceAssumption, MineFacts DEF Resting, KindInv, KindOf, locals
<1> DEFINE Goal ==
         op[p].kind = "create" /\ pc[p] \notin Resting /\ pc'[p] # "idle" =>
           cut'[p] = cut[p] \/ cut[p] = <<>> \/ Register(p) \/ UndoSlot(p) \/ UndoSlotUnlocked(p)
<1>1. ASSUME NEW w \in Workspaces, NEW sync \in BOOLEAN, NEW purge \in BOOLEAN,
             CreateBegins(p, w, sync) \/ DestroyBegins(p, w, purge) \/ RepairBegins(p, w)
      PROVE  Goal
  BY <1>1, BeginDisk
<1>2. ASSUME MakeDir(p) PROVE Goal
  BY <1>2 DEF MakeDir
<1>3. ASSUME LookAtSlot(p) PROVE Goal
  BY <1>3 DEF LookAtSlot
<1>4. ASSUME LookAtSlotFails(p) PROVE Goal
  BY <1>4 DEF LookAtSlotFails
<1>5. ASSUME TakeLock(p) PROVE Goal
  BY <1>5 DEF TakeLock
<1>6. ASSUME LockFails(p) PROVE Goal
  BY <1>6 DEF LockFails
<1>7. ASSUME Settle(p) PROVE Goal
  BY <1>7 DEF Settle
<1>8. ASSUME Stage(p) PROVE Goal
  BY <1>8 DEF Stage
<1>9. ASSUME Install(p) PROVE Goal
  BY <1>9 DEF Install
<1>10. ASSUME Register(p) PROVE Goal
  BY <1>10
<1>11. ASSUME AddFails(p) PROVE Goal
  BY <1>11 DEF AddFails
<1>12. ASSUME Ready(p) PROVE Goal
  BY <1>12 DEF Ready
<1>13. ASSUME RepairEnds(p) PROVE Goal
  BY <1>13 DEF RepairEnds
<1>14. ASSUME Render(p) PROVE Goal
  BY <1>14 DEF Render
<1>15. ASSUME Save(p) PROVE Goal
  BY <1>15 DEF Save
<1>16. ASSUME SaveState(p) PROVE Goal
  BY <1>16 DEF SaveState
<1>17. ASSUME SaveStateFails(p) PROVE Goal
  BY <1>17 DEF SaveStateFails
<1>18. ASSUME UndoSlot(p) PROVE Goal
  BY <1>18
<1>19. ASSUME UndoSlotUnlocked(p) PROVE Goal
  BY <1>19
<1>20. ASSUME UndoDir(p) PROVE Goal
  BY <1>20 DEF UndoDir
<1>21. ASSUME CheckSlot(p) PROVE Goal
  BY <1>21 DEF CheckSlot
<1>22. ASSUME DestroySaves(p) PROVE Goal
  BY <1>22 DEF DestroySaves
<1>23. ASSUME PurgeSlot(p) PROVE Goal
  BY <1>23 DEF PurgeSlot
<1>24. ASSUME PurgeDir(p) PROVE Goal
  BY <1>24 DEF PurgeDir
<1>25. ASSUME Kill(p) PROVE Goal
  BY <1>25 DEF Kill
<1> HIDE DEF Goal
<1>26. Goal
  BY ONLY Step(p), <1>1, <1>2, <1>3, <1>4, <1>5, <1>6, <1>7, <1>8, <1>9, <1>10, <1>11, <1>12,
     <1>13, <1>14, <1>15, <1>16, <1>17, <1>18, <1>19, <1>20, <1>21, <1>22, <1>23, <1>24,
     <1>25 DEF Step
<1> QED BY ONLY <1>26 DEF Goal

LEMMA BooksStep ==
  ASSUME TypeInv, KindInv, HandInv, KnownInv, EmptyInv, CutInv, [Next]_vars
  PROVE  CutInv'
<1> DEFINE Booked(q, s) == Me(q) \in broken \/ s \in ToSet(cut[q]) \/ (pc[q] = "register" /\ S(q) = s)
<1>1. ASSUME NEW p \in Procs, Step(p), NEW q \in Procs, pc'[q] # "idle", op'[q].kind = "create",
             NEW s \in Slots, slot'[s].by = Me(q)'
      PROVE  Booked(q, s)'
  <2>1. broken \subseteq broken'
    BY <1>1, BrokenSteps
  <2>2. slot'[s] = slot[s] \/ slot'[s].by = Old \/ (slot'[s].by = Me(p) /\ pc[p] = "install" /\ s = S(p))
    BY <1>1, SlotSteps, SlotFields
  <2>3. CASE q # p
    <3>1. Kept(q) /\ Me(q)' = Me(q) /\ S(q)' = S(q) /\ pc[q] # "idle" /\ op[q].kind = "create"
      BY <1>1, <2>3, OthersKept DEF Kept, Me, S, W
    <3>2. Me(q) # Me(p) /\ Me(q) # Old
      BY <2>3, <3>1, NotOld DEF Me
    <3>3. slot[s].by = Me(q)
      BY <1>1, <2>2, <3>1, <3>2
    <3> QED BY <2>1, <3>1, <3>3 DEF CutInv, CutOf, Kept
  <2>4. CASE q = p /\ pc[p] \notin Resting
    <3>1. Me(p)' = Me(p) /\ Me(p) # Old /\ op'[p] = op[p] /\ op[p].kind = "create" /\ pc[p] # "idle"
      BY <1>1, <2>4, GoesOn, OpKeeps DEF Resting
    <3>2. CASE slot'[s] # slot[s]
      <4>1. pc[p] = "install" /\ s = S(p)
        BY <1>1, <2>2, <2>4, <3>1, <3>2
      <4>2. Install(p)
        <5>1. AddFails(p) => slot' = slot
          BY <4>1 DEF AddFails
        <5>2. Kill(p) => slot' = slot
          BY DEF Kill, disk
        <5> QED BY <1>1, <3>2, <4>1, <5>1, <5>2, AtWorkSteps
      <4>3. pc'[p] = "register" /\ UNCHANGED <<op, todo>>
        BY <4>2, MineFacts DEF Install
      <4> QED BY <2>4, <4>1, <4>3 DEF S, W
    <3>3. CASE slot'[s] = slot[s]
      <4>1. Booked(p, s)
        BY <1>1, <2>4, <3>1, <3>3 DEF CutInv, CutOf
      <4>2. CASE Me(p) \in broken
        BY <2>1, <2>4, <3>1, <4>2
      <4>3. CASE s \in ToSet(cut[p])
        <5>1. CASE cut'[p] = cut[p]
          BY <2>4, <4>3, <5>1
        <5>2. CASE cut[p] = <<>>
          BY <4>3, <5>2, NothingCut
        <5>3. CASE Register(p)
          BY <2>4, <4>3, <5>3, RegisterCuts
        <5>4. CASE UndoSlot(p) \/ UndoSlotUnlocked(p)
          BY <1>1, <2>4, <3>1, <3>3, <4>3, <5>4, UndoCuts
        <5> QED BY <1>1, <2>4, <3>1, <5>1, <5>2, <5>3, <5>4, CutSteps
      <4>4. CASE pc[p] = "register" /\ S(p) = s
        <5>1. CASE Register(p)
          BY <2>4, <4>4, <5>1, RegisterCuts
        <5>2. CASE AddFails(p)
          BY <1>1, <2>4, <3>1, <3>3, <4>4, <5>2, AddBreaks
        <5>3. CASE Kill(p)
          BY <2>4, <3>1, <5>3 DEF Kill, Breaks
        <5> QED BY <1>1, <4>4, <5>1, <5>2, <5>3, AtWorkSteps
      <4> QED BY <4>1, <4>2, <4>3, <4>4
    <3> QED BY <3>2, <3>3
  <2>5. CASE q = p /\ pc[p] \in Resting
    BY <1>1, <2>5, BeginsNew
  <2> QED BY <2>3, <2>4, <2>5
<1>2. ASSUME NEW t \in Slots, People(t), NEW q \in Procs, pc'[q] # "idle", op'[q].kind = "create",
             NEW s \in Slots, slot'[s].by = Me(q)'
      PROVE  Booked(q, s)'
  <2>1. Kept(q) /\ Me(q)' = Me(q) /\ S(q)' = S(q) /\ pc[q] # "idle" /\ op[q].kind = "create" /\ broken' = broken
    BY <1>2, PeopleKeep, PeopleDisk DEF Kept, Me, S, W
  <2>2. slot[s].by = Me(q)
    BY <1>2, <2>1, NotOld, PeopleSlots, SlotFields
  <2> QED BY <2>1, <2>2 DEF CutInv, CutOf, Kept
<1>3. CASE UNCHANGED vars
  BY <1>3 DEF vars, going, asked, locals, disk, CutInv, CutOf, Me, S, W
<1>4. ASSUME NEW p \in Procs, Step(p) PROVE CutInv'
  BY <1>1, <1>4 DEF CutInv, CutOf
<1>5. ASSUME NEW t \in Slots, People(t) PROVE CutInv'
  BY <1>2, <1>5 DEF CutInv, CutOf
<1> QED BY <1>3, <1>4, <1>5 DEF Next

LEMMA ManifestSteps ==
  ASSUME TypeInv, NEW p \in Procs, Step(p)
  PROVE  \A w \in Workspaces : manifest'[w] # manifest[w] =>
           w = W(p) /\ pc[p] \notin Resting /\ pc'[p] # pc[p]
<1> USE TypeInv, WorkspaceAssumption, MineFacts DEF TypeInv, EntryType, Resting
<1> DEFINE Goal ==
         \A w \in Workspaces : manifest'[w] # manifest[w] =>
           w = W(p) /\ pc[p] \notin Resting /\ pc'[p] # pc[p]
<1>1. ASSUME NEW w \in Workspaces, NEW sync \in BOOLEAN, NEW purge \in BOOLEAN,
             CreateBegins(p, w, sync) \/ DestroyBegins(p, w, purge) \/ RepairBegins(p, w)
      PROVE  Goal
  BY <1>1, BeginDisk
<1>2. ASSUME MakeDir(p) PROVE Goal
  BY <1>2 DEF MakeDir
<1>3. ASSUME LookAtSlot(p) PROVE Goal
  BY <1>3 DEF LookAtSlot
<1>4. ASSUME LookAtSlotFails(p) PROVE Goal
  BY <1>4 DEF LookAtSlotFails
<1>5. ASSUME TakeLock(p) PROVE Goal
  BY <1>5 DEF TakeLock
<1>6. ASSUME LockFails(p) PROVE Goal
  BY <1>6 DEF LockFails
<1>7. ASSUME Settle(p) PROVE Goal
  BY <1>7 DEF Settle
<1>8. ASSUME Stage(p) PROVE Goal
  BY <1>8 DEF Stage
<1>9. ASSUME Install(p) PROVE Goal
  BY <1>9 DEF Install
<1>10. ASSUME Register(p) PROVE Goal
  BY <1>10 DEF Register
<1>11. ASSUME AddFails(p) PROVE Goal
  BY <1>11 DEF AddFails
<1>12. ASSUME Ready(p) PROVE Goal
  BY <1>12 DEF Ready
<1>13. ASSUME RepairEnds(p) PROVE Goal
  BY <1>13 DEF RepairEnds
<1>14. ASSUME Render(p) PROVE Goal
  BY <1>14 DEF Render
<1>15. ASSUME Save(p) PROVE Goal
  <2>1. CASE manifest' = manifest
    BY <2>1
  <2>2. CASE manifest' # manifest
    <3>1. manifest = seen[p] /\ manifest' = Saved(p) /\ pc[p] = "save" /\ pc'[p] \in {"state"}
      BY <1>15, <2>2 DEF Save
    <3>2. \A w \in Workspaces : w # W(p) => manifest'[w] = manifest[w]
      BY <3>1 DEF Manifests, Saved
    <3> QED BY <3>1, <3>2
  <2> QED BY <2>1, <2>2
<1>16. ASSUME SaveState(p) PROVE Goal
  BY <1>16 DEF SaveState
<1>17. ASSUME SaveStateFails(p) PROVE Goal
  <2>1. CASE manifest' = manifest
    BY <2>1
  <2>2. CASE manifest' # manifest
    <3>1. manifest = Saved(p) /\ manifest' = seen[p] /\ pc[p] = "state" /\ pc'[p] \in {"undo"}
      BY <1>17, <2>2 DEF SaveStateFails
    <3>2. \A w \in Workspaces : w # W(p) => manifest'[w] = manifest[w]
      BY <3>1 DEF Manifests, Saved
    <3> QED BY <3>1, <3>2
  <2> QED BY <2>1, <2>2
<1>18. ASSUME UndoSlot(p) PROVE Goal
  BY <1>18 DEF UndoSlot, AfterUndo
<1>19. ASSUME UndoSlotUnlocked(p) PROVE Goal
  BY <1>19 DEF UndoSlotUnlocked, AfterUndo
<1>20. ASSUME UndoDir(p) PROVE Goal
  BY <1>20 DEF UndoDir
<1>21. ASSUME CheckSlot(p) PROVE Goal
  BY <1>21 DEF CheckSlot
<1>22. ASSUME DestroySaves(p) PROVE Goal
  <2>1. CASE manifest' = manifest
    BY <2>1
  <2>2. CASE manifest' # manifest
    <3>1. manifest = seen[p] /\ manifest' = [seen[p] EXCEPT ![W(p)] = NoEntry] /\ pc[p] = "check" /\ pc'[p] \in {"slots", "idle"}
      BY <1>22, <2>2 DEF DestroySaves
    <3>2. \A w \in Workspaces : w # W(p) => manifest'[w] = manifest[w]
      BY <3>1 DEF Manifests
    <3> QED BY <3>1, <3>2
  <2> QED BY <2>1, <2>2
<1>23. ASSUME PurgeSlot(p) PROVE Goal
  BY <1>23 DEF PurgeSlot
<1>24. ASSUME PurgeDir(p) PROVE Goal
  BY <1>24 DEF PurgeDir
<1>25. ASSUME Kill(p) PROVE Goal
  BY <1>25 DEF Kill
<1> HIDE DEF Goal
<1>26. Goal
  BY ONLY Step(p), <1>1, <1>2, <1>3, <1>4, <1>5, <1>6, <1>7, <1>8, <1>9, <1>10, <1>11, <1>12,
     <1>13, <1>14, <1>15, <1>16, <1>17, <1>18, <1>19, <1>20, <1>21, <1>22, <1>23, <1>24,
     <1>25 DEF Step
<1> QED BY ONLY <1>26 DEF Goal

-----------------------------------------------------------------------------
(* The invariant, and what follows from it.                                   *)

LEMMA StartTyped == ASSUME Init PROVE TypeInv
<1> USE WorkspaceAssumption, OldFacts, SlotFacts DEF Init
<1>1. PcType
  BY DEF PcType, Places, Resting
<1>2. OpType
  <2>1. NoOp \in Asks
    BY DEF NoOp, Asks, Kinds
  <2> QED BY <2>1 DEF OpType
<1>3. EntryType
  <2>1. Unread \in Manifests /\ \A w \in Workspaces : IsEntry(Unread[w], w)
    BY DEF Unread, NoEntry, Manifests, IsEntry
  <2>2. PICK past \in [Workspaces -> {"nothing", "declared", "whole", "leftover", "stray"}] :
          manifest = [w \in Workspaces |-> IF past[w] = "whole" THEN SlotSet(w)
                                           ELSE IF past[w] = "declared" THEN {} ELSE NoEntry]
    OBVIOUS
  <2>3. manifest \in Manifests /\ \A w \in Workspaces : IsEntry(manifest[w], w)
    BY <2>2 DEF NoEntry, Manifests, IsEntry
  <2> QED BY <2>1, <2>3 DEF EntryType
<1>4. GuardType
  BY DEF GuardType
<1>5. TodoType
  BY DEF TodoType
<1>6. CutType
  BY NothingCut DEF CutType
<1>7. DirType
  BY DEF DirType
<1>8. SlotType
  <2>1. [NoSlot EXCEPT !.at = "stray"] \in SlotStates
    BY DEF NoSlot, SlotStates
  <2>2. PICK past \in [Workspaces -> {"nothing", "declared", "whole", "leftover", "stray"}] :
          slot = [s \in Slots |-> IF past[HomeOf(s)] \in {"whole", "leftover"} THEN Checkout(Old)
                                  ELSE IF past[HomeOf(s)] = "stray" THEN [NoSlot EXCEPT !.at = "stray"]
                                  ELSE NoSlot]
    OBVIOUS
  <2>3. Checkout(Old) \in SlotStates
    OBVIOUS
  <2> QED BY <2>1, <2>2, <2>3 DEF SlotType
<1>9. RegType
  BY DEF RegType
<1>10. MarkType
  BY DEF MarkType
<1> QED BY <1>1, <1>2, <1>3, <1>4, <1>5, <1>6, <1>7, <1>8, <1>9, <1>10 DEF TypeInv

LEMMA StartFacts ==
  ASSUME Init
  PROVE  /\ \A p \in Procs : pc[p] = "idle" /\ op[p].kind = "none" /\ cut[p] = <<>>
         /\ lock = None /\ broken = {} /\ \A w \in Workspaces : dir[w] \in {None, Old}
         /\ \A s \in Slots : /\ slot[s] \in {NoSlot, Checkout(Old), [NoSlot EXCEPT !.at = "stray"]}
                             /\ stage[s] = None /\ slot[s].at = "checkout" => reg[s] = "slot"
         /\ \A w \in Workspaces : dir[w] = None => \A s \in SlotSet(w) : slot[s] = NoSlot
<1>1. /\ \A p \in Procs : pc[p] = "idle" /\ op[p].kind = "none" /\ cut[p] = <<>>
      /\ lock = None /\ broken = {} /\ \A s \in Slots : stage[s] = None /\ slot[s].at = "checkout" => reg[s] = "slot"
  BY DEF Init, NoOp
<1>2. PICK past \in [Workspaces -> {"nothing", "declared", "whole", "leftover", "stray"}] :
       /\ dir = [w \in Workspaces |-> IF past[w] \in {"nothing", "declared"} THEN None ELSE Old]
       /\ slot = [s \in Slots |-> IF past[HomeOf(s)] \in {"whole", "leftover"} THEN Checkout(Old)
                                  ELSE IF past[HomeOf(s)] = "stray" THEN [NoSlot EXCEPT !.at = "stray"]
                                  ELSE NoSlot]
  BY DEF Init
<1>3. \A s \in Slots : slot[s] \in {NoSlot, Checkout(Old), [NoSlot EXCEPT !.at = "stray"]}
  BY <1>2
<1>4. \A w \in Workspaces : dir[w] \in {None, Old}
  BY <1>2
<1>5. ASSUME NEW w \in Workspaces, dir[w] = None, NEW s \in SlotSet(w) PROVE slot[s] = NoSlot
  <2>1. past[w] \in {"nothing", "declared"}
    BY <1>2, <1>5, OldFacts
  <2> QED BY <1>2, <1>5, <2>1, SlotFacts
<1> QED BY <1>1, <1>3, <1>4, <1>5

LEMMA StartInv == ASSUME Init PROVE IInv
<1> USE StartFacts
<1>1. TypeInv
  BY StartTyped
<1>2. LockInv /\ KindInv /\ HandInv
  BY WorkspaceAssumption DEF LockInv, KindInv, KindOf, HandInv, HandOf, UnderLock, Resting
<1>3. \A s \in Slots : slot[s].by = Old /\ (slot[s].at = "none" => slot[s] = NoSlot)
  BY DEF NoSlot, Checkout
<1>4. KnownInv /\ EmptyInv
  <2>1. KnownInv
    <3>1. \A id \in {Old, None} : Known(id)
      BY DEF Known
    <3>2. \A s \in Slots : stage[s] = None
      BY DEF Init
    <3> QED BY <1>3, <3>1, <3>2 DEF KnownInv
  <2> QED BY <1>3, <2>1 DEF EmptyInv
<1>5. StageInv /\ CleanInv /\ DestInv /\ PastInv /\ StagedInv /\ CutInv
  <2>1. \A p \in Procs : pc[p] = "idle"
    OBVIOUS
  <2> QED BY ONLY <2>1 DEF StageInv, StageOf, CleanInv, CleanOf, Resting, DestInv, DestOf, PastInv, PastOf,
                           StagedInv, StagedOf, CutInv, CutOf
<1>6. RegInv
  <2>1. \A s \in Slots : slot[s].at = "checkout" => reg[s] = "slot"
    BY DEF Init
  <2> QED BY ONLY <2>1 DEF RegInv
<1>7. CrowdInv
  BY DEF Init, CrowdInv, Resting
<1> QED BY <1>1, <1>2, <1>4, <1>5, <1>6, <1>7 DEF IInv, SharedInv

LEMMA CrowdStep ==
  ASSUME TypeInv, TypeInv', KindInv, CrowdInv, [Next]_vars
  PROVE  CrowdInv' /\ crowded \subseteq crowded'
<1>1. ASSUME NEW p \in Procs, Step(p), Meets(p) PROVE CrowdInv' /\ crowded \subseteq crowded'
  <2> DEFINE others == {q \in Procs \ {p} : pc[q] # "idle" /\ W(q) = op'[p].w}
  <2> DEFINE working == {q \in others : pc[q] \notin Resting}
  <2>1. op[p].n \in Nat /\ op'[p].n \in 0..MaxOps /\ (pc[p] \notin Resting => op'[p].n = op[p].n)
    BY <1>1, NumberSteps DEF TypeInv, OpType, Asks
  <2>2. pc[p] \in Resting => op'[p].n = op[p].n + 1
    BY <1>1, RestSteps
  <2>3. crowded' = IF op'[p].n = op[p].n THEN crowded
                   ELSE crowded \cup {Me(q) : q \in others} \cup {<<p, op'[p].n>> : q \in working}
    BY <1>1 DEF Meets
  <2>4. crowded' \subseteq Procs \X (1..MaxOps)
    <3>1. ASSUME NEW q \in Procs, pc[q] # "idle" PROVE Me(q) \in Procs \X (1..MaxOps)
      <4>1. op[q].n > 0 /\ op[q].n \in 0..MaxOps
        BY <3>1 DEF KindInv, KindOf, TypeInv, OpType, Asks
      <4>2. op[q].n \in 1..MaxOps
        BY <4>1
      <4> QED BY <4>2 DEF Me
    <3>2. op'[p].n # op[p].n => <<p, op'[p].n>> \in Procs \X (1..MaxOps)
      BY <2>1, <2>2
    <3> QED BY <2>3, <3>1, <3>2 DEF CrowdInv
  <2>5. ASSUME NEW q \in Procs, NEW r \in Procs, q # r, pc'[q] \notin Resting, pc'[r] # "idle", W(q)' = W(r)'
        PROVE  Me(r)' \in crowded'
    <3>1. CASE pc[p] \notin Resting
      <4>1. crowded' = crowded
        BY <2>1, <2>3, <3>1
      <4>2. \A o \in {q, r} : W(o)' = W(o) /\ Me(o)' = Me(o) /\ (pc'[o] # "idle" => pc[o] # "idle")
                             /\ (pc'[o] \notin Resting => pc[o] \notin Resting)
        BY <1>1, <2>5, <3>1, OthersKept, OpKeeps, NumberSteps DEF Kept, W, Me, Resting
      <4> QED BY <2>5, <4>1, <4>2 DEF CrowdInv, Resting
    <3>2. CASE pc[p] \in Resting
      <4>1. crowded' = crowded \cup {Me(o) : o \in others} \cup {<<p, op'[p].n>> : o \in working}
        BY <2>1, <2>2, <2>3, <3>2
      <4>2. \A o \in {q, r} : o # p => W(o)' = W(o) /\ Me(o)' = Me(o) /\ pc'[o] = pc[o]
        BY <1>1, <2>5, OthersKept DEF Kept, W, Me
      <4>3. CASE r = p
        <5>1. q \in working
          BY <2>5, <4>2, <4>3 DEF W, Resting
        <5> QED BY <4>1, <4>3, <5>1 DEF Me
      <4>4. CASE q = p
        <5>1. r \in others
          BY <2>5, <4>2, <4>4 DEF W
        <5> QED BY <2>5, <4>1, <4>2, <4>4, <5>1
      <4>5. CASE r # p /\ q # p
        BY <2>5, <4>1, <4>2, <4>5 DEF CrowdInv
      <4> QED BY <4>3, <4>4, <4>5
    <3> QED BY <3>1, <3>2
  <2> QED BY <2>3, <2>4, <2>5 DEF CrowdInv
<1>2. ASSUME NEW s \in Slots, People(s), UNCHANGED crowded PROVE CrowdInv' /\ crowded \subseteq crowded'
  <2>1. UNCHANGED <<pc, op>>
    BY <1>2 DEF People, Work, PushWork, Delete, CleanTemp, going, asked
  <2> QED BY <1>2, <2>1 DEF CrowdInv, W, Me
<1>3. CASE UNCHANGED vars
  BY <1>3 DEF vars, going, asked, CrowdInv, W, Me
<1> QED BY <1>1, <1>2, <1>3 DEF Next

LEMMA StepKeeps == ASSUME IInv, [Next]_vars PROVE IInv'
<1> USE DEF IInv, SharedInv
<1>1. PcType' /\ OpType' /\ EntryType' /\ GuardType' /\ TodoType' /\ CutType'
  BY PcStep, OpStep, EntryStep, GuardStep, TodoStep, CutStep DEF TypeInv
<1>2. DirType' /\ SlotType' /\ RegType' /\ MarkType'
  BY DirStep, SlotStep, RegStep, MarkStep DEF TypeInv
<1>3. TypeInv'
  BY <1>1, <1>2 DEF TypeInv
<1>4. LockInv' /\ KindInv' /\ HandInv'
  BY LockStep, KindStep, HandStep DEF TypeInv
<1>5. KnownInv' /\ StageInv' /\ RegInv' /\ EmptyInv'
  BY <1>3, KnownStep, StageStep, RegInvStep, EmptyStep
<1>6. CleanInv' /\ DestInv' /\ PastInv' /\ StagedInv' /\ CutInv'
  BY <1>3, <1>4, CleanStep, DestStep, PastStep, StagedStep, BooksStep
<1>7. CrowdInv'
  BY <1>3, CrowdStep
<1> QED BY <1>3, <1>4, <1>5, <1>6, <1>7

LEMMA Always == Spec => []IInv
<1>1. Init => IInv
  BY StartInv
<1>2. IInv /\ [Next]_vars => IInv'
  BY StepKeeps
<1> QED BY <1>1, <1>2, PTL DEF Spec

(* Every variable has its type, and whoever works on the cache holds its      *)
(* lock, alone: lockPrimary is never held by two, nor left held by an         *)
(* operation that is over.                                                    *)
THEOREM LifecycleTyping == Spec => []TypeOK
<1>1. IInv => TypeOK
  BY DEF IInv, SharedInv, TypeInv, TypeOK, PcType, DirType, SlotType, SlotStates, RegType, MarkType, EntryType, IsEntry,
         LockInv, CrowdInv, Ids
<1> QED BY <1>1, Always, PTL

(* The worktree an operation adds keeps its registration until it names the   *)
(* path, whatever the others prune, and so does each checkout afterwards,     *)
(* unless a kill or a failed clean-up got in the way.                         *)
THEOREM CheckoutsAlwaysRegistered == Spec => []CheckoutsStayRegistered
<1>1. IInv => CheckoutsStayRegistered
  BY DEF IInv, SharedInv, CheckoutsStayRegistered, StageInv, StageOf, RegInv, Live, Resting
<1> QED BY <1>1, Always, PTL

(* angee.yaml's entry of a workspace is written by operations on that one     *)
(* only: no save, and no rollback of one, takes another's.                    *)
THEOREM SavesAlwaysKept == Spec => SavesAreKept
<1> DEFINE Held == \A w \in Workspaces :
                     manifest'[w] # manifest[w] => \E p \in Procs : W(p) = w /\ pc'[p] # pc[p]
<1>1. IInv /\ [Next]_vars => [Held]_vars
  <2> SUFFICES ASSUME IInv, Next, NEW w \in Workspaces, manifest'[w] # manifest[w]
               PROVE  \E p \in Procs : W(p) = w /\ pc'[p] # pc[p]
    OBVIOUS
  <2>1. ASSUME NEW s \in Slots, People(s) PROVE FALSE
    BY <2>1, PeopleDisk
  <2> QED BY <2>1, ManifestSteps DEF Next, IInv
<1> HIDE DEF Held
<1>2. Spec => [][Held]_vars
  BY <1>1, Always, PTL DEF Spec
<1> QED BY <1>2 DEF SavesAreKept, Held

-----------------------------------------------------------------------------
(* While nobody has met an operation on its workspace.                        *)

LEMMA Alone ==
  ASSUME CrowdInv, NEW p \in Procs, NEW q \in Procs, p # q, pc[p] \notin Resting, pc[q] # "idle",
         Me(q) \notin crowded
  PROVE  W(p) # W(q)
  BY DEF CrowdInv

(* Nothing of it changes by another's step.                                   *)
LEMMA OthersLeave ==
  ASSUME IInv, NEW p \in Procs, Step(p), NEW q \in Procs, q # p, pc[q] # "idle", Me(q) \notin crowded
  PROVE  /\ dir'[W(q)] = dir[W(q)] /\ manifest'[W(q)] = manifest[W(q)]
         /\ \A s \in SlotSet(W(q)) : slot'[s] = slot[s] \/ slot'[s] = NoSlot
<1> USE DEF IInv, SharedInv
<1>1. W(q) \in Workspaces
  BY WFacts
<1>2. pc[p] \notin Resting => W(p) # W(q)
  BY Alone
<1>3. dir'[W(q)] = dir[W(q)] /\ manifest'[W(q)] = manifest[W(q)]
  BY <1>1, <1>2, DirSteps, ManifestSteps
<1>4. ASSUME NEW s \in SlotSet(W(q)), slot'[s] # slot[s], slot'[s] # NoSlot PROVE FALSE
  <2>1. s \in Slots /\ HomeOf(s) = W(q)
    BY <1>1, SlotFacts
  <2>2. pc[p] = "install" /\ s = S(p)
    BY <1>4, <2>1, SlotSteps
  <2>3. s \in SlotSet(W(p)) /\ W(p) \in Workspaces
    BY <2>2, HandFacts DEF TypeInv, HandInv, HandOf
  <2> QED BY <1>2, <2>1, <2>2, <2>3, SlotFacts DEF Resting
<1> QED BY <1>3, <1>4

LEMMA CreateSteps ==
  ASSUME TypeInv, KindInv, NEW p \in Procs, Step(p)
  PROVE  op[p].kind = "create" /\ pc[p] \notin Resting /\ pc'[p] # "idle" =>
           \/ /\ pc[p] = "mkdir" /\ pc'[p] \notin {"mkdir", "failed"} /\ guard'[p] = guard[p] /\ dir[W(p)] = guard[p]
              /\ dir' = [dir EXCEPT ![W(p)] = IF @ = None THEN Me(p) ELSE @]
           \/ /\ pc[p] # "mkdir" /\ pc'[p] \notin {"mkdir", "failed"} /\ guard'[p] = guard[p]
              /\ dir' = dir \/ dir' = [dir EXCEPT ![W(p)] = IF @ = None THEN Me(p) ELSE @]
           \/ /\ pc[p] = "undo" /\ pc'[p] = "failed" /\ guard'[p] = None
              /\ \/ guard[p] = None /\ dir' = [dir EXCEPT ![W(p)] = None]
                 \/ dir' = dir /\ (guard[p] = None => Me(p) \in broken')
<1> USE TypeInv, KindInv, WorkspaceAssumption, MineFacts DEF Resting, KindInv, KindOf, disk, locals
<1> DEFINE Goal ==
         op[p].kind = "create" /\ pc[p] \notin Resting /\ pc'[p] # "idle" =>
           \/ /\ pc[p] = "mkdir" /\ pc'[p] \notin {"mkdir", "failed"} /\ guard'[p] = guard[p] /\ dir[W(p)] = guard[p]
              /\ dir' = [dir EXCEPT ![W(p)] = IF @ = None THEN Me(p) ELSE @]
           \/ /\ pc[p] # "mkdir" /\ pc'[p] \notin {"mkdir", "failed"} /\ guard'[p] = guard[p]
              /\ dir' = dir \/ dir' = [dir EXCEPT ![W(p)] = IF @ = None THEN Me(p) ELSE @]
           \/ /\ pc[p] = "undo" /\ pc'[p] = "failed" /\ guard'[p] = None
              /\ \/ guard[p] = None /\ dir' = [dir EXCEPT ![W(p)] = None]
                 \/ dir' = dir /\ (guard[p] = None => Me(p) \in broken')
<1>1. ASSUME NEW w \in Workspaces, NEW sync \in BOOLEAN, NEW purge \in BOOLEAN,
             CreateBegins(p, w, sync) \/ DestroyBegins(p, w, purge) \/ RepairBegins(p, w)
      PROVE  Goal
  BY <1>1, BeginDisk
<1>2. ASSUME MakeDir(p) PROVE Goal
  BY <1>2 DEF MakeDir
<1>3. ASSUME LookAtSlot(p) PROVE Goal
  BY <1>3 DEF LookAtSlot
<1>4. ASSUME LookAtSlotFails(p) PROVE Goal
  BY <1>4 DEF LookAtSlotFails
<1>5. ASSUME TakeLock(p) PROVE Goal
  BY <1>5 DEF TakeLock
<1>6. ASSUME LockFails(p) PROVE Goal
  BY <1>6 DEF LockFails
<1>7. ASSUME Settle(p) PROVE Goal
  BY <1>7 DEF Settle
<1>8. ASSUME Stage(p) PROVE Goal
  BY <1>8 DEF Stage
<1>9. ASSUME Install(p) PROVE Goal
  BY <1>9 DEF Install
<1>10. ASSUME Register(p) PROVE Goal
  BY <1>10 DEF Register
<1>11. ASSUME AddFails(p) PROVE Goal
  BY <1>11 DEF AddFails
<1>12. ASSUME Ready(p) PROVE Goal
  BY <1>12 DEF Ready
<1>13. ASSUME RepairEnds(p) PROVE Goal
  BY <1>13 DEF RepairEnds
<1>14. ASSUME Render(p) PROVE Goal
  BY <1>14 DEF Render
<1>15. ASSUME Save(p) PROVE Goal
  BY <1>15 DEF Save
<1>16. ASSUME SaveState(p) PROVE Goal
  BY <1>16 DEF SaveState
<1>17. ASSUME SaveStateFails(p) PROVE Goal
  BY <1>17 DEF SaveStateFails
<1>18. ASSUME UndoSlot(p) PROVE Goal
  BY <1>18 DEF UndoSlot, AfterUndo
<1>19. ASSUME UndoSlotUnlocked(p) PROVE Goal
  BY <1>19 DEF UndoSlotUnlocked, AfterUndo
<1>20. ASSUME UndoDir(p) PROVE Goal
  BY <1>20 DEF UndoDir, Breaks
<1>21. ASSUME CheckSlot(p) PROVE Goal
  BY <1>21 DEF CheckSlot
<1>22. ASSUME DestroySaves(p) PROVE Goal
  BY <1>22 DEF DestroySaves
<1>23. ASSUME PurgeSlot(p) PROVE Goal
  BY <1>23 DEF PurgeSlot
<1>24. ASSUME PurgeDir(p) PROVE Goal
  BY <1>24 DEF PurgeDir
<1>25. ASSUME Kill(p) PROVE Goal
  BY <1>25 DEF Kill
<1> HIDE DEF Goal
<1>26. Goal
  BY ONLY Step(p), <1>1, <1>2, <1>3, <1>4, <1>5, <1>6, <1>7, <1>8, <1>9, <1>10, <1>11, <1>12,
     <1>13, <1>14, <1>15, <1>16, <1>17, <1>18, <1>19, <1>20, <1>21, <1>22, <1>23, <1>24,
     <1>25 DEF Step
<1> QED BY ONLY <1>26 DEF Goal

LEMMA SeenSteps ==
  ASSUME TypeInv, KindInv, NEW p \in Procs, Step(p)
  PROVE  op[p].kind = "create" /\ pc[p] \notin Resting /\ pc'[p] \notin {"idle", "state"} =>
           /\ seen'[p] = seen[p]
           /\ \/ manifest' = manifest /\ pc[p] # "state"
              \/ manifest' = seen[p]
              \/ Me(p) \in broken'
<1> USE TypeInv, KindInv, WorkspaceAssumption, MineFacts DEF Resting, KindInv, KindOf, asked
<1> DEFINE Goal ==
         op[p].kind = "create" /\ pc[p] \notin Resting /\ pc'[p] \notin {"idle", "state"} =>
           /\ seen'[p] = seen[p]
           /\ \/ manifest' = manifest /\ pc[p] # "state"
              \/ manifest' = seen[p]
              \/ Me(p) \in broken'
<1>1. ASSUME NEW w \in Workspaces, NEW sync \in BOOLEAN, NEW purge \in BOOLEAN,
             CreateBegins(p, w, sync) \/ DestroyBegins(p, w, purge) \/ RepairBegins(p, w)
      PROVE  Goal
  BY <1>1, BeginDisk
<1>2. ASSUME MakeDir(p) PROVE Goal
  BY <1>2 DEF MakeDir
<1>3. ASSUME LookAtSlot(p) PROVE Goal
  BY <1>3 DEF LookAtSlot
<1>4. ASSUME LookAtSlotFails(p) PROVE Goal
  BY <1>4 DEF LookAtSlotFails
<1>5. ASSUME TakeLock(p) PROVE Goal
  BY <1>5 DEF TakeLock
<1>6. ASSUME LockFails(p) PROVE Goal
  BY <1>6 DEF LockFails
<1>7. ASSUME Settle(p) PROVE Goal
  BY <1>7 DEF Settle
<1>8. ASSUME Stage(p) PROVE Goal
  BY <1>8 DEF Stage
<1>9. ASSUME Install(p) PROVE Goal
  BY <1>9 DEF Install
<1>10. ASSUME Register(p) PROVE Goal
  BY <1>10 DEF Register
<1>11. ASSUME AddFails(p) PROVE Goal
  BY <1>11 DEF AddFails
<1>12. ASSUME Ready(p) PROVE Goal
  BY <1>12 DEF Ready
<1>13. ASSUME RepairEnds(p) PROVE Goal
  BY <1>13 DEF RepairEnds
<1>14. ASSUME Render(p) PROVE Goal
  BY <1>14 DEF Render
<1>15. ASSUME Save(p) PROVE Goal
  BY <1>15 DEF Save
<1>16. ASSUME SaveState(p) PROVE Goal
  BY <1>16 DEF SaveState
<1>17. ASSUME SaveStateFails(p) PROVE Goal
  BY <1>17 DEF SaveStateFails, Breaks
<1>18. ASSUME UndoSlot(p) PROVE Goal
  BY <1>18 DEF UndoSlot, AfterUndo
<1>19. ASSUME UndoSlotUnlocked(p) PROVE Goal
  BY <1>19 DEF UndoSlotUnlocked, AfterUndo
<1>20. ASSUME UndoDir(p) PROVE Goal
  BY <1>20 DEF UndoDir
<1>21. ASSUME CheckSlot(p) PROVE Goal
  BY <1>21 DEF CheckSlot
<1>22. ASSUME DestroySaves(p) PROVE Goal
  BY <1>22 DEF DestroySaves
<1>23. ASSUME PurgeSlot(p) PROVE Goal
  BY <1>23 DEF PurgeSlot
<1>24. ASSUME PurgeDir(p) PROVE Goal
  BY <1>24 DEF PurgeDir
<1>25. ASSUME Kill(p) PROVE Goal
  BY <1>25 DEF Kill
<1> HIDE DEF Goal
<1>26. Goal
  BY ONLY Step(p), <1>1, <1>2, <1>3, <1>4, <1>5, <1>6, <1>7, <1>8, <1>9, <1>10, <1>11, <1>12,
     <1>13, <1>14, <1>15, <1>16, <1>17, <1>18, <1>19, <1>20, <1>21, <1>22, <1>23, <1>24,
     <1>25 DEF Step
<1> QED BY ONLY <1>26 DEF Goal

LEMMA DirInvStep ==
  ASSUME IInv, IInv', DirInv, [Next]_vars
  PROVE  DirInv'
<1> USE DEF IInv, SharedInv
<1>0. crowded \subseteq crowded'
  BY CrowdStep
<1>1. ASSUME NEW p \in Procs, Step(p), NEW q \in Procs, pc'[q] # "idle", op'[q].kind = "create",
             Me(q)' \notin crowded'
      PROVE  DirOf(q)'
  <2>1. broken \subseteq broken'
    BY <1>1, BrokenSteps
  <2>2. CASE q # p
    <3>1. Kept(q) /\ W(q)' = W(q) /\ Me(q)' = Me(q) /\ pc[q] # "idle" /\ op[q].kind = "create"
      BY <1>1, <2>2, OthersKept DEF Kept, W, Me
    <3>2. dir'[W(q)] = dir[W(q)]
      BY <1>0, <1>1, <2>2, <3>1, OthersLeave
    <3>3. DirOf(q)
      BY <1>0, <1>1, <3>1 DEF DirInv
    <3> QED BY <2>1, <3>1, <3>2, <3>3 DEF DirOf, Creating, Kept
  <2>3. CASE q = p /\ pc[p] \notin Resting
    <3>1. op'[p] = op[p] /\ op[p].kind = "create" /\ W(p)' = W(p) /\ Me(p)' = Me(p) /\ Me(p) # None /\ pc[p] # "idle"
      BY <1>1, <2>3, GoesOn, OpKeeps DEF W, Resting
    <3>2. DirOf(p) /\ W(p) \in Workspaces /\ dir \in [Workspaces -> {None} \cup Ids]
      BY <1>0, <1>1, <2>3, <3>1, WFacts DEF DirInv, TypeInv, DirType
    <3>3. \/ /\ pc[p] = "mkdir" /\ pc'[p] \notin {"mkdir", "failed"} /\ guard'[p] = guard[p] /\ dir[W(p)] = guard[p]
             /\ dir' = [dir EXCEPT ![W(p)] = IF @ = None THEN Me(p) ELSE @]
          \/ /\ pc[p] # "mkdir" /\ pc'[p] \notin {"mkdir", "failed"} /\ guard'[p] = guard[p]
             /\ dir' = dir \/ dir' = [dir EXCEPT ![W(p)] = IF @ = None THEN Me(p) ELSE @]
          \/ /\ pc[p] = "undo" /\ pc'[p] = "failed" /\ guard'[p] = None
             /\ \/ guard[p] = None /\ dir' = [dir EXCEPT ![W(p)] = None]
                \/ dir' = dir /\ (guard[p] = None => Me(p) \in broken')
      BY <1>1, <2>3, <3>1, CreateSteps
    <3> QED BY <1>1, <2>3, <3>1, <3>2, <3>3 DEF DirOf, Creating, Resting
  <2>4. CASE q = p /\ pc[p] \in Resting
    <3>1. pc'[p] = "mkdir" /\ W(p)' \in Workspaces /\ guard'[p] = dir[W(p)'] /\ dir' = dir
      BY <1>1, <2>4, BeginFacts, RestSteps DEF W
    <3>2. dir'[W(p)'] # Me(p)'
      BY <1>1, <2>4, <3>1, BeginsNew
    <3> QED BY <2>4, <3>1, <3>2 DEF DirOf, Creating
  <2> QED BY <2>2, <2>3, <2>4
<1>2. ASSUME NEW t \in Slots, People(t), NEW q \in Procs, Me(q)' \notin crowded' PROVE DirOf(q)'
  <2>1. Kept(q) /\ W(q)' = W(q) /\ Me(q)' = Me(q) /\ UNCHANGED <<dir, broken>>
    BY <1>2, PeopleKeep, PeopleDisk DEF Kept, Me, W
  <2> QED BY <1>0, <1>2, <2>1 DEF DirInv, DirOf, Creating, Kept
<1>3. CASE UNCHANGED vars
  BY <1>3 DEF vars, going, asked, locals, disk, DirInv, DirOf, Creating, W, Me
<1>4. ASSUME NEW p \in Procs, Step(p), NEW q \in Procs, Me(q)' \notin crowded' PROVE DirOf(q)'
  BY <1>1, <1>4 DEF DirOf, Creating, KindInv, KindOf
<1> QED BY <1>2, <1>3, <1>4 DEF Next, DirInv

LEMMA OwnInvStep ==
  ASSUME IInv, IInv', DirInv, OwnInv, [Next]_vars
  PROVE  OwnInv'
<1> USE DEF IInv, SharedInv
<1>0. crowded \subseteq crowded'
  BY CrowdStep
<1>1. ASSUME NEW p \in Procs, Step(p), NEW q \in Procs, Creating(q)', guard'[q] = None, NEW s \in SlotSet(W(q)'),
             Me(q)' \notin crowded'
      PROVE  slot'[s] = NoSlot \/ slot'[s].by = Me(q)'
  <2>1. CASE q # p
    <3>1. Kept(q) /\ W(q)' = W(q) /\ Me(q)' = Me(q) /\ Creating(q) /\ guard[q] = None /\ pc[q] # "idle"
      BY <1>1, <2>1, OthersKept DEF Kept, W, Me, Creating
    <3>2. slot'[s] = slot[s] \/ slot'[s] = NoSlot
      BY <1>0, <1>1, <2>1, <3>1, OthersLeave
    <3> QED BY <1>0, <1>1, <3>1, <3>2 DEF OwnInv, OwnOf
  <2>2. CASE q = p /\ pc[p] \notin Resting
    <3>1. op'[p] = op[p] /\ op[p].kind = "create" /\ W(p)' = W(p) /\ Me(p)' = Me(p) /\ pc[p] # "idle" /\ pc'[p] # "idle"
      BY <1>1, <2>2, GoesOn, OpKeeps DEF W, Creating, Resting
    <3>2. s \in Slots /\ s \in SlotSet(W(p)) /\ W(p) \in Workspaces
      BY <1>1, <2>2, <3>1, WFacts, SlotFacts
    <3>3. slot'[s] = slot[s] \/ slot'[s] = NoSlot \/ slot'[s].by = Me(p)
      BY <1>1, <3>2, SlotSteps, SlotFields
    <3>4. slot[s] = NoSlot \/ slot[s].by = Me(p)
      <4>1. guard[p] = None /\ (pc[p] = "mkdir" => dir[W(p)] = None)
        BY <1>1, <2>2, <3>1, CreateSteps DEF Creating
      <4>2. CASE pc[p] = "mkdir"
        BY <3>2, <4>1, <4>2 DEF EmptyInv
      <4>3. CASE pc[p] # "mkdir"
        BY <1>0, <1>1, <2>2, <3>1, <3>2, <4>1, <4>3 DEF OwnInv, OwnOf, Creating, Resting
      <4> QED BY <4>2, <4>3
    <3> QED BY <2>2, <3>1, <3>3, <3>4
  <2>3. CASE q = p /\ pc[p] \in Resting
    BY <1>1, <2>3, BeginFacts DEF Creating
  <2> QED BY <2>1, <2>2, <2>3
<1>2. ASSUME NEW t \in Slots, People(t), NEW q \in Procs, Creating(q)', guard'[q] = None, NEW s \in SlotSet(W(q)'),
             Me(q)' \notin crowded'
      PROVE  slot'[s] = NoSlot \/ slot'[s].by = Me(q)'
  <2>1. Kept(q) /\ W(q)' = W(q) /\ Me(q)' = Me(q) /\ Creating(q) /\ guard[q] = None /\ pc[q] # "idle"
    BY <1>2, PeopleKeep DEF Kept, Me, W, Creating
  <2>2. s \in Slots
    BY <1>2, <2>1, WFacts, SlotFacts
  <2> QED BY <1>0, <1>2, <2>1, <2>2, PeopleSlots DEF OwnInv, OwnOf
<1>3. CASE UNCHANGED vars
  BY <1>3 DEF vars, going, asked, locals, disk, OwnInv, OwnOf, Creating, W, Me
<1>4. ASSUME NEW p \in Procs, Step(p) PROVE OwnInv'
  BY <1>1, <1>4 DEF OwnInv, OwnOf
<1>5. ASSUME NEW t \in Slots, People(t) PROVE OwnInv'
  BY <1>2, <1>5 DEF OwnInv, OwnOf
<1> QED BY <1>3, <1>4, <1>5 DEF Next

LEMMA SavedInvStep ==
  ASSUME IInv, IInv', SavedInv, [Next]_vars
  PROVE  SavedInv'
<1> USE DEF IInv, SharedInv
<1>0. crowded \subseteq crowded'
  BY CrowdStep
<1>1. ASSUME NEW p \in Procs, Step(p), NEW q \in Procs, op'[q].kind = "create", pc'[q] \notin {"idle", "state"},
             Me(q)' \notin broken' \cup crowded'
      PROVE  manifest'[W(q)'] = seen'[q][W(q)']
  <2>1. broken \subseteq broken'
    BY <1>1, BrokenSteps
  <2>2. CASE q # p
    <3>1. Kept(q) /\ W(q)' = W(q) /\ Me(q)' = Me(q) /\ pc[q] # "idle"
      BY <1>1, <2>2, OthersKept DEF Kept, W, Me
    <3>2. manifest'[W(q)] = manifest[W(q)]
      BY <1>0, <1>1, <2>2, <3>1, OthersLeave
    <3> QED BY <1>0, <1>1, <2>1, <3>1, <3>2 DEF SavedInv, SavedOf, Kept
  <2>3. CASE q = p /\ pc[p] \notin Resting
    <3>1. op'[p] = op[p] /\ op[p].kind = "create" /\ W(p)' = W(p) /\ Me(p)' = Me(p) /\ pc[p] # "idle"
      BY <1>1, <2>3, GoesOn, OpKeeps DEF W, Resting
    <3>2. seen'[p] = seen[p] /\ (manifest' = seen[p] \/ (manifest' = manifest /\ pc[p] # "state"))
      BY <1>1, <2>3, <3>1, SeenSteps
    <3> QED BY <1>0, <1>1, <2>1, <2>3, <3>1, <3>2 DEF SavedInv, SavedOf
  <2>4. CASE q = p /\ pc[p] \in Resting
    BY <1>1, <2>4, BeginFacts DEF W
  <2> QED BY <2>2, <2>3, <2>4
<1>2. ASSUME NEW t \in Slots, People(t), NEW q \in Procs, Me(q)' \notin crowded' PROVE SavedOf(q)'
  <2>1. Kept(q) /\ W(q)' = W(q) /\ Me(q)' = Me(q) /\ UNCHANGED <<manifest, broken>>
    BY <1>2, PeopleKeep, PeopleDisk DEF Kept, Me, W
  <2> QED BY <1>0, <1>2, <2>1 DEF SavedInv, SavedOf, Kept
<1>3. CASE UNCHANGED vars
  BY <1>3 DEF vars, going, asked, locals, disk, SavedInv, SavedOf, W, Me
<1>4. ASSUME NEW p \in Procs, Step(p), NEW q \in Procs, Me(q)' \notin crowded' PROVE SavedOf(q)'
  BY <1>1, <1>4 DEF SavedOf
<1> QED BY <1>2, <1>3, <1>4 DEF Next, SavedInv

LEMMA AlwaysAlone == Spec => [](IInv /\ AloneInv)
<1>1. Init => IInv /\ AloneInv
  BY StartInv, StartFacts DEF AloneInv, DirInv, DirOf, OwnInv, OwnOf, SavedInv, SavedOf, Creating
<1>2. IInv /\ AloneInv /\ [Next]_vars => (IInv /\ AloneInv)'
  BY StepKeeps, DirInvStep, OwnInvStep, SavedInvStep DEF AloneInv
<1> QED BY <1>1, <1>2, PTL DEF Spec

(* A create that fails and whose removals went through leaves no checkout or  *)
(* stage of its own, whoever else works on the workspace; and, when nobody    *)
(* has met it there, neither a directory of its own nor another entry than    *)
(* there was (workspaceSourceCleanup.Rollback, UndoDir, parentTx.Rollback).   *)
THEOREM FailedCreatesLeaveNothing == Spec => []FailedCreateLeavesNothing
<1>1. IInv /\ AloneInv => FailedCreateLeavesNothing
  <2> SUFFICES ASSUME IInv, AloneInv, NEW p \in Procs, pc[p] = "failed", op[p].kind = "create", Me(p) \notin broken
               PROVE  /\ \A s \in SlotSet(W(p)) : slot[s].by # Me(p) /\ stage[s] # Me(p)
                      /\ Me(p) \notin crowded => dir[W(p)] # Me(p) /\ manifest[W(p)] = seen[p][W(p)]
    BY DEF FailedCreateLeavesNothing
  <2> USE DEF IInv, SharedInv, AloneInv
  <2>1. Me(p) \notin crowded => dir[W(p)] # Me(p)
    BY DEF DirInv, DirOf
  <2>2. Me(p) \notin crowded => manifest[W(p)] = seen[p][W(p)]
    BY DEF SavedInv, SavedOf
  <2>3. cut[p] = <<>>
    BY DEF HandInv, HandOf, Resting
  <2>4. ASSUME NEW s \in SlotSet(W(p)) PROVE slot[s].by # Me(p) /\ stage[s] # Me(p)
    <3>1. s \in Slots
      BY WFacts, SlotFacts
    <3> QED BY <2>3, <3>1, NothingCut DEF CutInv, CutOf, StagedInv, StagedOf
  <2> QED BY <2>1, <2>2, <2>4
<1> QED BY <1>1, AlwaysAlone, PTL

(* What is taken by a step holds no work from before: nothing is there, or it *)
(* is of the operation itself, or a destroy has looked at it.                 *)
LEMMA MineIsClean ==
  ASSUME IInv, NEW p \in Procs, pc[p] \notin Resting, NEW s \in Slots, slot[s] = NoSlot \/ slot[s].by = Me(p)
  PROVE  slot[s].work # "work"
  BY SlotFields DEF IInv, SharedInv, CleanInv, CleanOf

LEMMA LookedAt ==
  ASSUME IInv, NEW p \in Procs, pc[p] \notin Resting, op[p].kind = "destroy", pc[p] # "check",
         NEW s \in seen[p][W(p)]
  PROVE  slot[s].work # "work"
  BY DEF IInv, SharedInv, PastInv, PastOf, Resting


LEMMA TakenSteps ==
  ASSUME IInv, AloneInv, NEW p \in Procs, Step(p), NEW s \in Slots, slot[s].work = "work", slot'[s] # slot[s]
  PROVE  \/ op[p].sync /\ pc[p] = "settle" /\ S(p) = s
         \/ op[p].purge /\ pc[p] = "slots" /\ W(p) = HomeOf(s) /\ s \notin seen[p][W(p)]
         \/ Me(p) \in crowded /\ pc[p] = "undo" /\ cut[p] = <<>> /\ W(p) = HomeOf(s)
<1> USE IInv, AloneInv, WorkspaceAssumption DEF IInv, SharedInv, AloneInv, TypeInv, disk
<1> DEFINE Goal ==
         \/ op[p].sync /\ pc[p] = "settle" /\ S(p) = s
         \/ op[p].purge /\ pc[p] = "slots" /\ W(p) = HomeOf(s) /\ s \notin seen[p][W(p)]
         \/ Me(p) \in crowded /\ pc[p] = "undo" /\ cut[p] = <<>> /\ W(p) = HomeOf(s)
<1>1. ASSUME NEW w \in Workspaces, NEW sync \in BOOLEAN, NEW purge \in BOOLEAN,
             CreateBegins(p, w, sync) \/ DestroyBegins(p, w, purge) \/ RepairBegins(p, w)
      PROVE  Goal
  BY <1>1, BeginDisk
<1>2. ASSUME MakeDir(p) PROVE Goal
  BY <1>2 DEF MakeDir
<1>3. ASSUME LookAtSlot(p) PROVE Goal
  BY <1>3 DEF LookAtSlot
<1>4. ASSUME LookAtSlotFails(p) PROVE Goal
  BY <1>4 DEF LookAtSlotFails
<1>5. ASSUME TakeLock(p) PROVE Goal
  BY <1>5 DEF TakeLock
<1>6. ASSUME LockFails(p) PROVE Goal
  BY <1>6 DEF LockFails
<1>7. ASSUME Settle(p) PROVE Goal
  <2>1. S(p) \in Slots /\ pc[p] = "settle" /\ op[p].kind # "destroy"
    BY <1>7, HandFacts DEF Settle, HandInv, HandOf, KindInv, KindOf
  <2>2. s = S(p) /\ Same(S(p), dest[p].slot)
    BY <1>7, <2>1, RemovedSlots DEF Settle
  <2>3. CASE op[p].sync
    BY <2>1, <2>2, <2>3
  <2>4. CASE ~op[p].sync
    BY <2>1, <2>2, <2>4, SlotFields DEF Same, DestInv, DestOf, EmptyInv
  <2> QED BY <2>3, <2>4
<1>8. ASSUME Stage(p) PROVE Goal
  BY <1>8 DEF Stage
<1>9. ASSUME Install(p) PROVE Goal
  <2>1. S(p) \in Slots /\ pc[p] = "install" /\ slot' = [slot EXCEPT ![S(p)] = Checkout(Me(p))] /\ Same(S(p), dest[p].slot)
    BY <1>9, HandFacts DEF Install, HandInv, HandOf
  <2>2. s = S(p) /\ slot[s].at = "none"
    BY <2>1 DEF Same, DestInv, DestOf, SlotType
  <2> QED BY <2>2, SlotFields DEF EmptyInv
<1>10. ASSUME Register(p) PROVE Goal
  BY <1>10 DEF Register
<1>11. ASSUME AddFails(p) PROVE Goal
  <2>1. S(p) \in Slots /\ pc[p] \notin Resting
    BY <1>11, HandFacts DEF AddFails, HandInv, HandOf, Resting
  <2>2. s = S(p) /\ Same(S(p), Checkout(Me(p)))
    BY <1>11, <2>1, RemovedSlots DEF AddFails
  <2> QED BY <2>1, <2>2, MineIsClean, SlotFields DEF Same
<1>12. ASSUME Ready(p) PROVE Goal
  BY <1>12 DEF Ready
<1>13. ASSUME RepairEnds(p) PROVE Goal
  BY <1>13 DEF RepairEnds
<1>14. ASSUME Render(p) PROVE Goal
  BY <1>14 DEF Render
<1>15. ASSUME Save(p) PROVE Goal
  BY <1>15 DEF Save
<1>16. ASSUME SaveState(p) PROVE Goal
  BY <1>16 DEF SaveState
<1>17. ASSUME SaveStateFails(p) PROVE Goal
  BY <1>17 DEF SaveStateFails
<1>18. ASSUME UndoSlot(p) PROVE Goal
  <2>1. Last(cut[p]) \in Slots /\ pc[p] \notin Resting
    BY <1>18, FrontFacts DEF UndoSlot, HandInv, HandOf, CutType, Resting
  <2>2. s = Last(cut[p]) /\ Same(Last(cut[p]), Checkout(Me(p)))
    BY <1>18, <2>1, RemovedSlots DEF UndoSlot
  <2> QED BY <2>1, <2>2, MineIsClean, SlotFields DEF Same
<1>19. ASSUME UndoSlotUnlocked(p) PROVE Goal
  <2>1. Last(cut[p]) \in Slots /\ pc[p] \notin Resting
    BY <1>19, FrontFacts DEF UndoSlotUnlocked, CutType, Resting
  <2>2. s = Last(cut[p]) /\ Same(Last(cut[p]), Checkout(Me(p)))
    BY <1>19, <2>1, RemovedSlots DEF UndoSlotUnlocked
  <2> QED BY <2>1, <2>2, MineIsClean, SlotFields DEF Same
<1>20. ASSUME UndoDir(p) PROVE Goal
  <2>1. pc[p] = "undo" /\ op[p].kind # "destroy" /\ guard[p] = None /\ slot' = Emptied(W(p)) /\ cut[p] = <<>>
    BY <1>20 DEF UndoDir, KindInv, KindOf
  <2>2. Creating(p) /\ pc[p] \notin Resting
    BY <2>1 DEF Creating, KindInv, KindOf, HandInv, HandOf, Resting
  <2>3. s \in SlotSet(W(p))
    BY <2>1, SlotFacts DEF Emptied, SlotType
  <2>4. HomeOf(s) = W(p)
    BY <2>1 DEF Emptied, SlotType
  <2>5. Me(p) \notin crowded => slot[s] = NoSlot \/ slot[s].by = Me(p)
    BY <2>1, <2>2, <2>3 DEF OwnInv, OwnOf
  <2> QED BY <2>1, <2>2, <2>4, <2>5, MineIsClean
<1>21. ASSUME CheckSlot(p) PROVE Goal
  BY <1>21 DEF CheckSlot
<1>22. ASSUME DestroySaves(p) PROVE Goal
  BY <1>22 DEF DestroySaves
<1>23. ASSUME PurgeSlot(p) PROVE Goal
  <2>1. S(p) \in Slots /\ pc[p] \notin Resting
    BY <1>23, HandFacts DEF PurgeSlot, HandInv, HandOf, Resting
  <2>2. s = S(p) /\ Same(S(p), dest[p].slot)
    BY <1>23, <2>1, RemovedSlots DEF PurgeSlot
  <2>3. S(p) \in todo[p] /\ op[p].kind = "destroy" /\ pc[p] # "check"
    BY <1>23, HandFacts DEF PurgeSlot, HandInv, HandOf, KindInv, KindOf
  <2>4. S(p) \in seen[p][W(p)]
    BY <2>1, <2>3 DEF PastInv, PastOf, Resting
  <2> QED BY <2>1, <2>2, <2>3, <2>4, LookedAt
<1>24. ASSUME PurgeDir(p) PROVE Goal
  <2>1. pc[p] = "slots" /\ op[p].kind = "destroy" /\ op[p].purge /\ slot' = Emptied(W(p))
    BY <1>24 DEF PurgeDir, KindInv, KindOf
  <2>2. HomeOf(s) = W(p)
    BY <2>1 DEF Emptied, SlotType
  <2>3. s \notin seen[p][W(p)]
    BY <2>1, LookedAt DEF Resting
  <2> QED BY <2>1, <2>2, <2>3
<1>25. ASSUME Kill(p) PROVE Goal
  BY <1>25 DEF Kill
<1> HIDE DEF Goal
<1>26. Goal
  BY ONLY Step(p), <1>1, <1>2, <1>3, <1>4, <1>5, <1>6, <1>7, <1>8, <1>9, <1>10, <1>11, <1>12,
     <1>13, <1>14, <1>15, <1>16, <1>17, <1>18, <1>19, <1>20, <1>21, <1>22, <1>23, <1>24,
     <1>25 DEF Step
<1> QED BY ONLY <1>26 DEF Goal

(* Work that was in a slot before a destroy looked at it is deleted by no     *)
(* operation, but for what is asked for (ensureWorkspaceGitSourcesPushed,     *)
(* GuardedPath.RemoveAll) and for the rollback of a create that another       *)
(* operation has met, which removes the directory with all that is in it.     *)
THEOREM WorkAlwaysSurvives == Spec => WorkSurvives
<1> DEFINE Held == going' # going =>
  \A s \in Slots : (slot[s].work = "work" /\ slot'[s] # slot[s]) =>
    \E p \in Procs :
      \/ op[p].sync /\ pc[p] = "settle" /\ S(p) = s
      \/ op[p].purge /\ pc[p] = "slots" /\ W(p) = HomeOf(s) /\ s \notin seen[p][W(p)]
      \/ Me(p) \in crowded /\ pc[p] = "undo" /\ cut[p] = <<>> /\ W(p) = HomeOf(s)
<1>1. IInv /\ AloneInv /\ [Next]_vars => [Held]_vars
  <2> SUFFICES ASSUME IInv, AloneInv, Next, going' # going,
                      NEW s \in Slots, slot[s].work = "work", slot'[s] # slot[s]
               PROVE  \E p \in Procs :
                        \/ op[p].sync /\ pc[p] = "settle" /\ S(p) = s
                        \/ op[p].purge /\ pc[p] = "slots" /\ W(p) = HomeOf(s) /\ s \notin seen[p][W(p)]
                        \/ Me(p) \in crowded /\ pc[p] = "undo" /\ cut[p] = <<>> /\ W(p) = HomeOf(s)
    OBVIOUS
  <2>1. ASSUME NEW t \in Slots, People(t) PROVE FALSE
    BY <2>1 DEF People, Work, PushWork, Delete, CleanTemp
  <2> QED BY <2>1, TakenSteps DEF Next
<1> HIDE DEF Held
<1>2. Spec => [][Held]_vars
  BY <1>1, AlwaysAlone, PTL DEF Spec
<1> QED BY <1>2 DEF WorkSurvives, Held

==============================================================================
