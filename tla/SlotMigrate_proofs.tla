------------------------ MODULE SlotMigrate_proofs ------------------------
(***************************************************************************)
(* What holds of a migrate, of what writers add to its slot, of its rollback *)
(* and of the person who follows its record, for any entries and any number  *)
(* of writes.                                                                *)
(***************************************************************************)
EXTENDS SlotMigrate, SequenceTheorems, FiniteSetTheorems, TLAPS

-----------------------------------------------------------------------------
(* Steps and places.                                                         *)

Checkouts == {"old", "new", "kept", "stray", "taken"}
Marks == {"before", "set", "resolved", "moved"}
UndoSteps == {RestoreMark, MoveBack, RemoveNew, LookAt} \cup {CarryBack(e) : e \in Entries}
CleanSteps == {MoveNewBack, Forget, ForgetIfListed, RemoveAside}
AllSteps == UndoSteps \cup {LookBeside} \cup CleanSteps
Phases == {"none", "setting-aside", "migrating", "saving", "saved", "forgetting", "rollback-stopped"}
Recs == [phase : Phases, steps : Seq(AllSteps), cleanup : Seq(CleanSteps)]

(* Where the migrate is, or will be once its record is written.              *)
Place == IF pc = "recording" THEN pending.next ELSE pc
Start == {"prepare", "begin", "setting aside", "push aside"}
Early == Start \cup {"repoint", "check"}
Middle == {"add", "adding", "added", "carry", "recordSaving", "save", "saving"}
Emptied == {"forget", "record forgetting", "forget name", "restore new", "record restored", "remove aside"}
Ends == {"refused", "migrated", "rolled back", "stopped", "killed"}
Nexts == {"setting aside", "repoint", "add", "carry", "save", "finish", "forget name", "remove aside", "end",
          "stopped"}

-----------------------------------------------------------------------------
(* The invariant, in parts.                                                  *)

PlaceType ==
  /\ pending \in [record : Recs, next : Nexts \cup {"none"}]
  /\ pc = "recording" => pending.next \in Nexts
  /\ hand.state # "away" => pc \in Ends
DiskType ==
  /\ to \in Modes
  /\ at \in [slot : {"old", "new", "stray", "none"}, aside : {"old", "none"}, stash : {"new", "none"}]
  /\ files \in [Checkouts -> SUBSET (Items \X (0..MaxWrites))]
  /\ reg \in [old : {"slot", "aside", "none"}, new : BOOLEAN]
  /\ jjName \in BOOLEAN /\ bookmark \in Marks /\ manifest \in Modes \cup {Gone}
  /\ written \subseteq Items \X (0..MaxWrites)
MemoryType ==
  /\ added \in BOOLEAN /\ forgotten \in BOOLEAN
  /\ listed \subseteq Entries /\ moved \subseteq listed /\ looked \in listed \cup {NoEntry}
  /\ Place \in Early => moved = {} /\ looked = NoEntry
StepType ==
  /\ undo \in Seq(UndoSteps) /\ marker \in Recs
  /\ hand \in [state : {"away", "following", "finished", "stuck"}, left : Seq(AllSteps), misled : BOOLEAN]
TypeInv == PlaceType /\ DiskType /\ MemoryType /\ StepType

(* Copies: every one is where it was written, carried, kept or taken to.     *)
Somewhere(copy) == \E c \in Checkouts : copy \in files[c]
CopyInv ==
  /\ \A c \in Checkouts : files[c] \subseteq written
  /\ \A copy \in written : copy[2] = 0 => copy[1] \in Entries
  /\ \A copy \in written : (copy[1] \in listed \/ copy[2] = 0) => Somewhere(copy)

(* Before the entries are listed all there ever was is there, and what was   *)
(* there first is in the old checkout; the new one is made empty; the old    *)
(* one is removed empty.                                                     *)
FreshInv ==
  /\ Place \in Early => /\ listed = {}
                        /\ \A copy \in written : Somewhere(copy) /\ (copy[2] = 0 => copy \in files.old)
  /\ Place \in Early \cup {"add"} => at.slot # "new" /\ files.new = {}
  /\ Place = "adding" => files.new = {}
  /\ Place \in Emptied => files.old = {}

(* The new checkout is removed only after the entries were listed.           *)
Found == \A copy \in written : copy[2] = 0 => copy[1] \in listed
NewStays ==
  /\ Place \notin Middle
  /\ RemoveNew \notin ToSet(undo) /\ RemoveNew \notin ToSet(marker.steps)
  /\ RemoveNew \notin ToSet(pending.record.steps) /\ RemoveNew \notin ToSet(hand.left)
FoundInv == Found \/ NewStays

(* An entry looked up is still missing where it is renamed to.               *)
LookInv ==
  looked # NoEntry =>
    /\ Place \in {"carry", "undo", "stop"} \cup Ends
    /\ Place = "carry" => ~Has("new", looked)
    /\ Place = "undo" => ~Has("old", looked)

EntryInv == CopyInv /\ FreshInv /\ FoundInv /\ LookInv

(* What was done last is undone first, by the rollback and by the record.    *)
Rank(step) ==
  IF step \in {RestoreMark, RemoveAside} THEN 1
  ELSE IF step \in {MoveBack, LookBeside, Forget, ForgetIfListed} THEN 2
  ELSE IF step \in {RemoveNew, LookAt, MoveNewBack} THEN 3 ELSE 4
Before(x, y) == Rank(x) < Rank(y) \/ (Rank(x) = 4 /\ Rank(y) = 4 /\ x # y)
Stacked(steps) == \A i, j \in 1..Len(steps) : i < j => Before(steps[i], steps[j])
InOrder(steps) == \A i, j \in 1..Len(steps) : i < j => Before(steps[j], steps[i])
Paired(S) == (\E x \in S : x \in {RemoveNew, LookAt} \/ Rank(x) = 4) => MoveBack \in S

StackInv ==
  /\ Stacked(undo) /\ Paired(ToSet(undo))
  /\ Place \in Start => ToSet(undo) \subseteq {RestoreMark}
  /\ Place \in {"repoint", "check"} => ToSet(undo) \subseteq {RestoreMark, MoveBack}
  /\ Place \in {"add", "adding", "added"} => ToSet(undo) \subseteq {RestoreMark, MoveBack, RemoveNew}
  /\ Place \in {"repoint", "check"} \cup Middle => MoveBack \in ToSet(undo)
  /\ Place \in Middle => RemoveNew \in ToSet(undo)
  /\ Place \in {"carry", "recordSaving", "save", "saving"} => \A e \in listed : CarryBack(e) \in ToSet(undo)

InRecord(record) ==
  /\ InOrder(record.steps) /\ InOrder(record.cleanup) /\ Paired(ToSet(record.steps))
OrderInv == InRecord(marker) /\ InRecord(pending.record) /\ InOrder(hand.left)

(* Who follows a record that fits does not remove the old checkout.          *)
HandKeeps ==
  hand.state = "following" /\ ~hand.misled /\ RemoveNew \in ToSet(hand.left) => at.slot # "old"

(* What is in the old checkout is still somewhere after a step.              *)
OldStays == ~hand.misled => \A copy \in files["old"] : Somewhere(copy)'

-----------------------------------------------------------------------------
(* Until the migrate is saved or its rollback stops, what was done to the slot *)
(* has an undo, and what was there first is there, kept or can be carried back. *)
Undoable == Early \cup Middle \cup {"undo", "rolled back"}
AtHome == at.slot = "old" /\ at.aside = "none" /\ reg.old = "slot"
SetApart == at.slot # "old" /\ at.aside = "old"
HomeInv ==
  (hand.state = "away" /\ Place \in Undoable) =>
    /\ bookmark = "set" => RestoreMark \in ToSet(undo)
    /\ manifest = (IF Place = "saving" THEN Gone ELSE from)
    /\ at.stash = "none"
    /\ Place \in {"prepare", "begin", "setting aside", "rolled back"} => AtHome
    /\ Place \in {"push aside", "repoint", "check"} \cup Middle => SetApart
    /\ Place = "undo" => AtHome \/ (SetApart /\ MoveBack \in ToSet(undo))
    /\ Place = "rolled back" => undo = <<>>
LookedInv ==
  \/ looked = NoEntry
  \/ Place = "carry" /\ looked \notin moved
  \/ Place \in {"undo", "rolled back"} /\ <<looked, 0>> \notin files["old"]
ZeroInv ==
  (hand.state = "away" /\ Place \in Undoable) => LookedInv /\
    \A copy \in written : copy[2] = 0 =>
      \/ copy \in files["old"] \/ copy \in files["kept"]
      \/ copy \in files["new"] /\ copy[1] \in moved /\ CarryBack(copy[1]) \in ToSet(undo)

-----------------------------------------------------------------------------
(* A record fits the disk, or can be told not to: what is not as it was has a *)
(* step, and a step that may be stuck has what it needs done before it.      *)
Quiet == \A copy \in written : copy[2] = 0
Late == Emptied \cup {"saved", "finish", "deregister", "stranded?", "end"}
FitsUndo(S) ==
  /\ S \subseteq UndoSteps \cup {LookBeside}
  /\ LookBeside \in S => S \subseteq {LookBeside, RestoreMark}
  /\ at.slot = "old" => MoveBack \in S \/ (AtHome /\ S \subseteq {LookBeside, RestoreMark})
  /\ at.slot # "old" => at.aside = "old" /\ (MoveBack \in S \/ LookBeside \in S)
  /\ at.slot = "new" => RemoveNew \in S \/ LookAt \in S
  /\ jjName # (to = "worktree") => RemoveNew \in S
  /\ Quiet => \A copy \in files["new"] : CarryBack(copy[1]) \in S
FitsCleanup(S) ==
  /\ S \subseteq CleanSteps
  /\ at.aside = "old" => RemoveAside \in S
  /\ IF to = "jj" THEN Forget \notin S /\ ForgetIfListed \notin S
     ELSE jjName => Forget \in S \/ ForgetIfListed \in S
Rec == IF pc = "recording" THEN pending.record ELSE marker
StepsOf(record) == IF record.phase = "saving" /\ manifest = to THEN record.cleanup ELSE record.steps

(* The disk, while the migrate runs or someone follows a record that fits.   *)
Careful == hand.state = "away" \/ (hand.state = "following" /\ ~hand.misled)
DiskFits ==
  Careful =>
    /\ manifest # to => at.stash = "none" /\ (files["new"] # {} => at.slot = "new")
    /\ manifest = to => /\ at.stash = "new" => at.slot \in {"none", "stray"}
                        /\ at.stash = "none" => at.slot = "new"
                        /\ to = "jj" => jjName
UniqueInv ==
  /\ \A c \in Checkouts : files[c] \subseteq written
  /\ \A copy \in written : copy[2] = 0 =>
       \A c, d \in Checkouts : copy \in files[c] /\ copy \in files[d] => c = d
StageInv ==
  hand.state = "away" =>
    /\ Place \in Undoable \cup {"stop"} => manifest # to /\ ~forgotten
    /\ Place \in Late => manifest = to
    /\ Place \in Early \cup {"add", "adding"} => ~added
    /\ Place \in {"adding", "added", "carry", "recordSaving", "save", "saving"} => at.slot = "new"
    /\ Place \in {"added", "carry", "recordSaving", "save", "saving"} => jjName
    /\ Place \in Early \cup {"add"} => at.slot # "new"
    /\ manifest # to /\ ~added => jjName = (to = "worktree")
    /\ at.stash = "new" => to = "worktree"
    /\ manifest # to /\ Quiet => \A copy \in files["new"] : copy[1] \in moved
    /\ Place \in {"saved", "finish", "forget", "record restored"} => at.stash = "none"
    /\ Place \in {"record forgetting", "forget name", "restore new"} => at.stash = "new"
    /\ Place \in Emptied \ {"remove aside"} => to = "worktree"
    /\ forgotten => ~jjName
UndoFits ==
  (hand.state = "away" /\ Place \in (Undoable \cup {"stop"}) \ {"push aside"}) => FitsUndo(ToSet(undo))
FitsRecord(record) ==
  /\ manifest # to => /\ FitsUndo(ToSet(record.steps))
                      /\ LookBeside \in ToSet(record.steps) => reg.old = "slot"
  /\ manifest = to => /\ FitsCleanup(ToSet(StepsOf(record)))
                      /\ MoveNewBack \in ToSet(StepsOf(record)) <=> MoveNewBack \in ToSet(record.steps)
RecordAt ==
  /\ pc = "recording" => marker = NoRecord
  /\ Place \in {"prepare", "begin"} => Rec = NoRecord
  /\ Place \in {"setting aside", "push aside"} => Rec.steps = <<LookBeside>>
  /\ Place \in {"repoint", "check"} \cup Middle => ToSet(Rec.steps) = ToSet(undo)
  /\ Place \in {"save", "saving"} => Rec.phase = "saving" /\ Rec.cleanup = cleanupSteps
RecordInv == hand.state = "away" => RecordAt /\ (Rec # NoRecord => FitsRecord(Rec))
FitsHand(S) ==
  /\ manifest \in Modes
  /\ manifest # to => /\ FitsUndo(S)
                      /\ bookmark = "set" => RestoreMark \in S
                      /\ at.slot = "old" => MoveBack \notin S
  /\ manifest = to => FitsCleanup(S) /\ (MoveNewBack \in S <=> at.stash = "new")
HandFits == hand.state = "following" /\ ~hand.misled => FitsHand(ToSet(hand.left))

-----------------------------------------------------------------------------
(* Sequences.                                                                *)

(* What leaves the slot, its record and its migrate as they are.             *)
Elsewhere == UNCHANGED vars \/ OthersMoveMark
LEMMA ElsewhereKeeps ==
  ASSUME Elsewhere
  PROVE  /\ UNCHANGED <<pc, to, at, files, reg, jjName, manifest, marker, pending, undo, listed, added, moved,
                        looked, forgotten, written, hand>>
         /\ bookmark' \in {bookmark, "moved"}
         /\ UNCHANGED Place
<1>1. /\ UNCHANGED <<pc, to, at, files, reg, jjName, manifest, marker, pending, undo, listed, added, moved,
                     looked, forgotten, written, hand>>
      /\ bookmark' \in {bookmark, "moved"}
  BY DEF Elsewhere, OthersMoveMark, vars, disk, memory
<1> QED BY <1>1 DEF Place

LEMMA SlotOrElsewhere == [Next]_vars => SlotStep \/ Elsewhere
  BY DEF Next, Elsewhere

LEMMA SeqPops ==
  ASSUME NEW S, NEW s \in Seq(S), s # <<>>
  PROVE  /\ Head(s) \in S /\ Head(s) \in ToSet(s) /\ Tail(s) \in Seq(S)
         /\ ToSet(Tail(s)) \subseteq ToSet(s)
         /\ \A x \in ToSet(s) : x = Head(s) \/ x \in ToSet(Tail(s))
         /\ Len(s) \in Nat \ {0} /\ Head(s) = s[1] /\ Len(Tail(s)) = Len(s) - 1
         /\ \A i \in 1..(Len(s) - 1) : Tail(s)[i] = s[i + 1]
<1> DEFINE t == Tail(s)
<1>1. /\ Head(s) \in S /\ t \in Seq(S) /\ Len(t) = Len(s) - 1
      /\ \A i \in 1..Len(t) : t[i] = s[i + 1]
  BY HeadTailProperties
<1>2. Len(s) \in Nat \ {0} /\ DOMAIN s = 1..Len(s) /\ DOMAIN t = 1..Len(t) /\ Len(t) \in Nat
  BY <1>1, LenProperties, EmptySeq
<1>3. Head(s) = s[1]
  BY <1>2
<1> HIDE DEF t
<1>5. Head(s) \in ToSet(s)
  BY <1>2, <1>3 DEF ToSet
<1>6. ASSUME NEW x \in ToSet(t) PROVE x \in ToSet(s)
  <2>1. PICK i \in 1..Len(t) : x = t[i]
    BY <1>2, <1>6 DEF ToSet
  <2>2. i + 1 \in 1..Len(s) /\ x = s[i + 1]
    BY <1>1, <1>2, <2>1
  <2> QED BY <1>2, <2>2 DEF ToSet
<1>7. ASSUME NEW x \in ToSet(s), x # Head(s) PROVE x \in ToSet(t)
  <2>1. PICK i \in 1..Len(s) : x = s[i]
    BY <1>2, <1>7 DEF ToSet
  <2>2. i # 1
    BY <1>3, <1>7, <2>1
  <2>3. i - 1 \in 1..Len(t) /\ x = t[i - 1]
    BY <1>1, <1>2, <2>1, <2>2
  <2> QED BY <1>2, <2>3 DEF ToSet
<1> QED BY <1>1, <1>2, <1>3, <1>5, <1>6, <1>7 DEF t

LEMMA SeqFront ==
  ASSUME NEW S, NEW s \in Seq(S), s # <<>>
  PROVE  /\ Last(s) \in S /\ Last(s) \in ToSet(s) /\ Front(s) \in Seq(S)
         /\ ToSet(Front(s)) \subseteq ToSet(s)
         /\ \A x \in ToSet(s) : x = Last(s) \/ x \in ToSet(Front(s))
         /\ Len(s) \in Nat \ {0} /\ Last(s) = s[Len(s)] /\ Len(Front(s)) = Len(s) - 1
         /\ \A i \in 1..(Len(s) - 1) : Front(s)[i] = s[i]
<1> DEFINE t == Front(s)
<1>1. Len(s) \in Nat \ {0} /\ DOMAIN s = 1..Len(s)
  BY LenProperties, EmptySeq
<1>2. /\ t \in Seq(S) /\ Len(t) = Len(s) - 1
      /\ \A i \in 1..(Len(s) - 1) : t[i] = s[i]
  BY <1>1, SubSeqProperties DEF Front
<1>3. DOMAIN t = 1..(Len(s) - 1)
  BY <1>2, LenProperties
<1> HIDE DEF t
<1>4. Last(s) = s[Len(s)] /\ Last(s) \in ToSet(s) /\ Last(s) \in S
  BY <1>1, ElementOfSeq DEF Last, ToSet
<1>5. ASSUME NEW x \in ToSet(t) PROVE x \in ToSet(s)
  <2>1. PICK i \in 1..(Len(s) - 1) : x = t[i]
    BY <1>3, <1>5 DEF ToSet
  <2>2. i \in 1..Len(s) /\ x = s[i]
    BY <1>1, <1>2, <2>1
  <2> QED BY <1>1, <2>2 DEF ToSet
<1>6. ASSUME NEW x \in ToSet(s), x # Last(s) PROVE x \in ToSet(t)
  <2>1. PICK i \in 1..Len(s) : x = s[i]
    BY <1>1, <1>6 DEF ToSet
  <2>2. i \in 1..(Len(s) - 1) /\ x = t[i]
    BY <1>1, <1>2, <1>4, <1>6, <2>1
  <2> QED BY <1>3, <2>2 DEF ToSet
<1> QED BY <1>1, <1>2, <1>4, <1>5, <1>6 DEF t

LEMMA SeqJoins ==
  ASSUME NEW S, NEW s \in Seq(S), NEW t \in Seq(S)
  PROVE  /\ s \o t \in Seq(S) /\ ToSet(s \o t) = ToSet(s) \cup ToSet(t)
         /\ Len(s \o t) = Len(s) + Len(t) /\ Len(s) \in Nat /\ Len(t) \in Nat
         /\ \A i \in 1..(Len(s) + Len(t)) : (s \o t)[i] = IF i <= Len(s) THEN s[i] ELSE t[i - Len(s)]
<1> DEFINE u == s \o t
<1>1. /\ u \in Seq(S) /\ Len(u) = Len(s) + Len(t)
      /\ \A i \in 1..(Len(s) + Len(t)) : u[i] = IF i <= Len(s) THEN s[i] ELSE t[i - Len(s)]
  BY ConcatProperties
<1>2. /\ Len(s) \in Nat /\ Len(t) \in Nat /\ DOMAIN s = 1..Len(s) /\ DOMAIN t = 1..Len(t)
      /\ DOMAIN u = 1..Len(u)
  BY <1>1, LenProperties
<1> HIDE DEF u
<1>3. ASSUME NEW x \in ToSet(u) PROVE x \in ToSet(s) \cup ToSet(t)
  <2>1. PICK i \in 1..(Len(s) + Len(t)) : x = u[i]
    BY <1>1, <1>2, <1>3 DEF ToSet
  <2>2. CASE i <= Len(s)
    <3>1. i \in 1..Len(s) /\ x = s[i]
      BY <1>1, <1>2, <2>1, <2>2
    <3> QED BY <1>2, <3>1 DEF ToSet
  <2>3. CASE ~(i <= Len(s))
    <3>1. i - Len(s) \in 1..Len(t) /\ x = t[i - Len(s)]
      BY <1>1, <1>2, <2>1, <2>3
    <3> QED BY <1>2, <3>1 DEF ToSet
  <2> QED BY <2>2, <2>3
<1>4. ASSUME NEW x \in ToSet(s) PROVE x \in ToSet(u)
  <2>1. PICK i \in 1..Len(s) : x = s[i]
    BY <1>2, <1>4 DEF ToSet
  <2>2. i \in 1..(Len(s) + Len(t)) /\ x = u[i]
    BY <1>1, <1>2, <2>1
  <2> QED BY <1>1, <1>2, <2>2 DEF ToSet
<1>5. ASSUME NEW x \in ToSet(t) PROVE x \in ToSet(u)
  <2>1. PICK i \in 1..Len(t) : x = t[i]
    BY <1>2, <1>5 DEF ToSet
  <2>2. i + Len(s) \in 1..(Len(s) + Len(t)) /\ x = u[i + Len(s)]
    BY <1>1, <1>2, <2>1
  <2> QED BY <1>1, <1>2, <2>2 DEF ToSet
<1> QED BY <1>1, <1>2, <1>3, <1>4, <1>5 DEF u

LEMMA SeqReversed ==
  ASSUME NEW S, NEW s \in Seq(S)
  PROVE  /\ Reverse(s) \in Seq(S) /\ ToSet(Reverse(s)) = ToSet(s)
         /\ Len(Reverse(s)) = Len(s) /\ Len(s) \in Nat
         /\ \A i \in 1..Len(s) : Reverse(s)[i] = s[(Len(s) - i) + 1]
<1> DEFINE t == Reverse(s)
<1>1. Len(s) \in Nat /\ DOMAIN s = 1..Len(s) /\ \A i \in 1..Len(s) : s[i] \in S
  BY LenProperties, ElementOfSeq
<1>2. \A i \in 1..Len(s) : (Len(s) - i) + 1 \in 1..Len(s)
  BY <1>1
<1>3. t \in [1..Len(s) -> S] /\ \A i \in 1..Len(s) : t[i] = s[(Len(s) - i) + 1]
  BY <1>1, <1>2 DEF Reverse
<1>4. t \in Seq(S) /\ Len(t) = Len(s) /\ DOMAIN t = 1..Len(s)
  BY <1>1, <1>3, SeqDef
<1> HIDE DEF t
<1>5. ASSUME NEW x \in ToSet(t) PROVE x \in ToSet(s)
  <2>1. PICK i \in 1..Len(s) : x = t[i]
    BY <1>4, <1>5 DEF ToSet
  <2> QED BY <1>1, <1>2, <1>3, <2>1 DEF ToSet
<1>6. ASSUME NEW x \in ToSet(s) PROVE x \in ToSet(t)
  <2>1. PICK i \in 1..Len(s) : x = s[i]
    BY <1>1, <1>6 DEF ToSet
  <2>2. (Len(s) - i) + 1 \in 1..Len(s) /\ (Len(s) - ((Len(s) - i) + 1)) + 1 = i
    BY <1>1, <2>1
  <2>3. x = t[(Len(s) - i) + 1]
    BY <1>3, <2>1, <2>2
  <2> QED BY <1>4, <2>2, <2>3 DEF ToSet
<1> QED BY <1>1, <1>3, <1>4, <1>5, <1>6 DEF t

LEMMA SetAsSeq ==
  ASSUME NEW S, IsFiniteSet(S)
  PROVE  /\ SetToSeq(S) \in Seq(S) /\ ToSet(SetToSeq(S)) = S
         /\ \A i, j \in 1..Len(SetToSeq(S)) : SetToSeq(S)[i] = SetToSeq(S)[j] => i = j
<1> DEFINE D == 1..Cardinality(S)
<1>1. Cardinality(S) \in Nat /\ ExistsBijection(D, S)
  BY FS_CardinalityType
<1>2. PICK f \in Bijection(D, S) : TRUE
  BY <1>1 DEF ExistsBijection
<1>3. f \in [D -> S] /\ IsInjective(f)
  BY <1>2 DEF Bijection, Injection, IsInjective
<1>4. SetToSeq(S) \in [D -> S] /\ IsInjective(SetToSeq(S))
  BY <1>3 DEF SetToSeq
<1>5. SetToSeq(S) \in Injection(D, S)
  BY <1>4 DEF Injection, IsInjective
<1>6. SetToSeq(S) \in Surjection(D, S)
  <2>1. Cardinality(D) = Cardinality(S)
    BY <1>1, FS_Interval
  <2> QED BY <1>5, <2>1, FS_Injection
<1>7. (\A x \in S : \E i \in D : SetToSeq(S)[i] = x) /\ DOMAIN SetToSeq(S) = D
  BY <1>4, <1>6 DEF Surjection
<1>8. SetToSeq(S) \in Seq(S) /\ Len(SetToSeq(S)) = Cardinality(S)
  BY <1>1, <1>4, SeqDef
<1> QED BY <1>4, <1>7, <1>8 DEF ToSet, IsInjective

LEMMA SeqOfOne ==
  ASSUME NEW S, NEW x \in S
  PROVE  <<x>> \in Seq(S) /\ ToSet(<<x>>) = {x} /\ Len(<<x>>) = 1 /\ <<x>>[1] = x
<1>1. <<x>> \in Seq(S) /\ DOMAIN <<x>> = 1..1
  OBVIOUS
<1> QED BY <1>1 DEF ToSet

LEMMA SeqOfNone ==
  ASSUME NEW S PROVE <<>> \in Seq(S) /\ ToSet(<<>>) = {} /\ Len(<<>>) = 0
  BY DEF ToSet

(* The steps are different ones.                                             *)
LEMMA StepsDiffer ==
  /\ LookBeside \notin UndoSteps \cup CleanSteps
  /\ \A x \in UndoSteps : x \notin CleanSteps
  /\ RestoreMark # MoveBack /\ RestoreMark # RemoveNew /\ RestoreMark # LookAt
  /\ MoveBack # RemoveNew /\ MoveBack # LookAt /\ RemoveNew # LookAt
  /\ MoveNewBack # Forget /\ MoveNewBack # ForgetIfListed /\ MoveNewBack # RemoveAside
  /\ Forget # ForgetIfListed /\ Forget # RemoveAside /\ ForgetIfListed # RemoveAside
  /\ \A e : CarryBack(e) \notin {RestoreMark, MoveBack, RemoveNew, LookAt, LookBeside} \cup CleanSteps
  /\ \A e, f : CarryBack(e) = CarryBack(f) => e = f
<1>1. \A e, f : CarryBack(e) = CarryBack(f) => e = f
  BY DEF CarryBack
<1>2. \A e : /\ CarryBack(e) # RestoreMark /\ CarryBack(e) # MoveBack /\ CarryBack(e) # RemoveNew
             /\ CarryBack(e) # LookAt /\ CarryBack(e) # LookBeside
  BY DEF CarryBack, RestoreMark, MoveBack, RemoveNew, LookAt, LookBeside
<1>3. \A e : /\ CarryBack(e) # MoveNewBack /\ CarryBack(e) # Forget /\ CarryBack(e) # ForgetIfListed
             /\ CarryBack(e) # RemoveAside
  BY DEF CarryBack, MoveNewBack, Forget, ForgetIfListed, RemoveAside
<1>4. /\ RestoreMark # MoveBack /\ RestoreMark # RemoveNew /\ RestoreMark # LookAt
      /\ MoveBack # RemoveNew /\ MoveBack # LookAt /\ RemoveNew # LookAt
  BY DEF RestoreMark, MoveBack, RemoveNew, LookAt
<1>5. /\ MoveNewBack # Forget /\ MoveNewBack # ForgetIfListed /\ MoveNewBack # RemoveAside
      /\ Forget # ForgetIfListed /\ Forget # RemoveAside /\ ForgetIfListed # RemoveAside
  BY DEF MoveNewBack, Forget, ForgetIfListed, RemoveAside
<1>6. \A x \in {RestoreMark, MoveBack, RemoveNew, LookAt, LookBeside} : x \notin CleanSteps
  <2>1. RestoreMark \notin CleanSteps
    BY DEF RestoreMark, CleanSteps, MoveNewBack, Forget, ForgetIfListed, RemoveAside
  <2>2. MoveBack \notin CleanSteps
    BY DEF MoveBack, CleanSteps, MoveNewBack, Forget, ForgetIfListed, RemoveAside
  <2>3. RemoveNew \notin CleanSteps
    BY DEF RemoveNew, CleanSteps, MoveNewBack, Forget, ForgetIfListed, RemoveAside
  <2>4. LookAt \notin CleanSteps
    BY DEF LookAt, CleanSteps, MoveNewBack, Forget, ForgetIfListed, RemoveAside
  <2>5. LookBeside \notin CleanSteps
    BY DEF LookBeside, CleanSteps, MoveNewBack, Forget, ForgetIfListed, RemoveAside
  <2> QED BY <2>1, <2>2, <2>3, <2>4, <2>5
<1>7. /\ LookBeside # RestoreMark /\ LookBeside # MoveBack /\ LookBeside # RemoveNew
      /\ LookBeside # LookAt
  BY DEF RestoreMark, MoveBack, RemoveNew, LookAt, LookBeside
<1>8. \A e : CarryBack(e) \notin CleanSteps
  BY <1>3 DEF CleanSteps
<1>9. LookBeside \notin UndoSteps /\ \A x \in UndoSteps : x \notin CleanSteps
  BY <1>2, <1>6, <1>7, <1>8 DEF UndoSteps
<1> QED BY <1>1, <1>2, <1>4, <1>5, <1>6, <1>8, <1>9

LEMMA StepsAre ==
  /\ {RestoreMark, MoveBack, RemoveNew, LookAt} \subseteq UndoSteps /\ \A e \in Entries : CarryBack(e) \in UndoSteps
  /\ {MoveNewBack, Forget, ForgetIfListed, RemoveAside} \subseteq CleanSteps
  /\ UndoSteps \subseteq AllSteps /\ CleanSteps \subseteq AllSteps /\ LookBeside \in AllSteps
  /\ Seq(UndoSteps) \subseteq Seq(AllSteps) /\ Seq(CleanSteps) \subseteq Seq(AllSteps)
<1>1. UndoSteps \subseteq AllSteps /\ CleanSteps \subseteq AllSteps /\ LookBeside \in AllSteps
  BY DEF AllSteps
<1>2. Seq(UndoSteps) \subseteq Seq(AllSteps) /\ Seq(CleanSteps) \subseteq Seq(AllSteps)
  BY <1>1, SeqMonotonic
<1> QED BY <1>1, <1>2 DEF UndoSteps, CleanSteps

LEMMA ModesAre ==
  ASSUME NEW m \in Modes
  PROVE  Other(m) \in Modes /\ Other(m) # m /\ m # Gone /\ Other(m) # Gone /\ Modes = {m, Other(m)}
<1>1. \E o \in Modes : o # m
  BY DEF Modes
<1>2. Other(m) \in Modes /\ Other(m) # m
  BY <1>1 DEF Other
<1> QED BY <1>2 DEF Modes, Gone

LEMMA CarriesAsSeq ==
  ASSUME NEW L \in SUBSET Entries
  PROVE  LET S == {CarryBack(e) : e \in L} s == SetToSeq(S)
         IN /\ s \in Seq(UndoSteps) /\ ToSet(s) = S
            /\ \A i, j \in 1..Len(s) : s[i] = s[j] => i = j
<1> DEFINE S == {CarryBack(e) : e \in L}
<1>1. IsFiniteSet(L)
  BY EntriesAssumption, FS_Subset
<1>2. IsFiniteSet(S)
  <2> DEFINE f == [e \in L |-> CarryBack(e)]
  <2>1. f \in Surjection(L, S)
    BY DEF Surjection
  <2> QED BY <1>1, <2>1, FS_Surjection
<1>3. SetToSeq(S) \in Seq(S) /\ ToSet(SetToSeq(S)) = S
      /\ \A i, j \in 1..Len(SetToSeq(S)) : SetToSeq(S)[i] = SetToSeq(S)[j] => i = j
  BY <1>2, SetAsSeq
<1>4. S \subseteq UndoSteps
  BY DEF UndoSteps
<1>5. SetToSeq(S) \in Seq(UndoSteps)
  BY <1>3, <1>4, SeqMonotonic
<1> QED BY <1>3, <1>5

-----------------------------------------------------------------------------
(* What the parts of a step do.                                              *)

LEMMA StepsTyped ==
  /\ undo \in Seq(UndoSteps) => undoSteps(undo) \in Seq(UndoSteps) /\ undoSteps(undo) \in Seq(AllSteps)
  /\ cleanupSteps \in Seq(CleanSteps) /\ cleanupSteps \in Seq(AllSteps)
  /\ \A x \in CleanSteps : forgetLeft(x) \in Seq(CleanSteps)
<1>1. undo \in Seq(UndoSteps) => undoSteps(undo) \in Seq(UndoSteps)
  BY SeqReversed DEF undoSteps
<1>2. cleanupSteps \in Seq(CleanSteps)
  BY StepsAre DEF cleanupSteps
<1>3. \A x \in CleanSteps : forgetLeft(x) \in Seq(CleanSteps)
  BY DEF forgetLeft
<1> QED BY <1>1, <1>2, <1>3, StepsAre

LEMMA RecordTyped ==
  ASSUME NEW phase \in Phases, NEW steps \in Seq(AllSteps), NEW cleanup \in Seq(CleanSteps), NEW next \in Nexts,
         Record(phase, steps, cleanup, next)
  PROVE  /\ pending' \in [record : Recs, next : Nexts \cup {"none"}] /\ marker' \in Recs
         /\ pc' = "recording" /\ pending'.next = next
  BY DEF Record, Recs, NoRecord, Phases

LEMMA CleanupTyped ==
  ASSUME TypeInv, NEW phase \in Phases, NEW steps \in Seq(AllSteps), NEW next \in Nexts, Cleanup(phase, steps, next)
  PROVE  /\ pending' \in [record : Recs, next : Nexts \cup {"none"}] /\ marker' \in Recs
         /\ pc' = "recording" => pending'.next \in Nexts
<1>1. <<>> \in Seq(CleanSteps)
  OBVIOUS
<1>2. CASE Record(phase, steps, <<>>, next)
  BY <1>1, <1>2, RecordTyped
<1>3. CASE pc' = next /\ UNCHANGED <<marker, pending>>
  BY <1>3 DEF TypeInv, PlaceType, StepType, Nexts
<1> QED BY <1>2, <1>3 DEF Cleanup

LEMMA PushTyped ==
  ASSUME TypeInv, NEW undos \in Seq(UndoSteps), NEW next \in Nexts, Push(undos, next)
  PROVE  /\ pending' \in [record : Recs, next : Nexts \cup {"none"}] /\ marker' \in Recs
         /\ pc' = "recording" => pending'.next \in Nexts
         /\ undo' \in Seq(UndoSteps) /\ undo' = undo \o undos
<1>1. undo' = undo \o undos /\ undo' \in Seq(UndoSteps)
  BY SeqJoins DEF Push, TypeInv, StepType
<1>2. undoSteps(undo') \in Seq(AllSteps) /\ <<>> \in Seq(CleanSteps)
  <2>1. Reverse(undo') \in Seq(UndoSteps)
    BY ONLY <1>1, SeqReversed
  <2>2. Reverse(undo') \in Seq(AllSteps)
    BY <2>1, StepsAre
  <2> QED BY <2>2 DEF undoSteps
<1>3. CASE Record("migrating", undoSteps(undo'), <<>>, next)
  BY <1>1, <1>2, <1>3, RecordTyped DEF Phases
<1>4. CASE pc' = "undo" /\ UNCHANGED <<marker, pending>>
  BY <1>1, <1>4 DEF TypeInv, PlaceType, StepType, Nexts
<1> QED BY <1>3, <1>4 DEF Push

LEMMA RenameDoes ==
  ASSUME DiskType, NEW e \in Entries, NEW s \in Checkouts, NEW t \in Checkouts, s # t, Rename(e, s, t), ~Has(t, e)
  PROVE  /\ files' \in [Checkouts -> SUBSET (Items \X (0..MaxWrites))]
         /\ files'[s] = {c \in files[s] : c[1] # e}
         /\ files'[t] = files[t] \cup {c \in files[s] : c[1] = e}
         /\ \A d \in Checkouts : d # s /\ d # t => files'[d] = files[d]
<1>1. files' = [files EXCEPT ![s] = {c \in files[s] : c[1] # e},
                             ![t] = {c \in files[t] : c[1] # e} \cup {c \in files[s] : c[1] = e}]
  BY DEF Rename, DiskType
<1>2. \A d \in Checkouts : files[d] \in SUBSET (Items \X (0..MaxWrites))
  BY DEF DiskType
<1>3. {c \in files[t] : c[1] # e} = files[t]
  <2>1. ASSUME NEW c \in files[t] PROVE c[1] # e
    <3>1. PICK i \in Items, n \in 0..MaxWrites : c = <<i, n>>
      BY <1>2, <2>1
    <3> QED BY <3>1 DEF Has
  <2> QED BY <2>1
<1>4. \A d \in Checkouts : files'[d] = IF d = t THEN files[t] \cup {c \in files[s] : c[1] = e}
                                      ELSE IF d = s THEN {c \in files[s] : c[1] # e} ELSE files[d]
  BY <1>1, <1>3 DEF DiskType
<1>5. DOMAIN files' = Checkouts /\ files' = [d \in Checkouts |-> files'[d]]
  BY <1>1 DEF DiskType
<1>6. \A d \in Checkouts : files'[d] \in SUBSET (Items \X (0..MaxWrites))
  BY <1>2, <1>4
<1> QED BY <1>4, <1>5, <1>6

LEMMA WriteDoes ==
  ASSUME DiskType, NEW place \in {"slot", "aside"}, NEW item \in Items, Write(place, item)
  PROVE  \E c \in {"old", "new", "stray"}, n \in 1..MaxWrites :
           /\ files' \in [Checkouts -> SUBSET (Items \X (0..MaxWrites))]
           /\ files'[c] = files[c] \cup {<<item, n>>}
           /\ \A d \in Checkouts : d # c => files'[d] = files[d]
           /\ written' = written \cup {<<item, n>>}
           /\ at' \in [slot : {"old", "new", "stray", "none"}, aside : {"old", "none"}, stash : {"new", "none"}]
           /\ at'.aside = at.aside /\ at'.stash = at.stash
           /\ at'.slot = at.slot \/ (at.slot = "none" /\ at'.slot = "stray")
           /\ c = "new" => at.slot = "new"
           /\ c = "old" => at.slot = "old" \/ at.aside = "old"
           /\ Windows \/ ~Unseen
           /\ hand.state = "away" /\ pc # "refused"
           /\ UNCHANGED <<pc, to, reg, jjName, bookmark, manifest, marker, pending, memory, hand>>
<1> DEFINE c == IF at[place] = "none" THEN "stray" ELSE at[place]
           n == 1 + Cardinality({x \in written : x[2] > 0})
<1>1. n \in Nat \ {0}
  <2>1. IsFiniteSet(Items)
    BY EntriesAssumption, FS_AddElement DEF Items
  <2>2. IsFiniteSet(0..MaxWrites)
    BY EntriesAssumption, FS_Interval
  <2>3. IsFiniteSet(Items \X (0..MaxWrites))
    BY <2>1, <2>2, FS_Product
  <2>4. IsFiniteSet({x \in written : x[2] > 0})
    BY <2>3, FS_Subset DEF DiskType
  <2> QED BY <2>4, FS_CardinalityType
<1>2. /\ n <= MaxWrites /\ at' = [at EXCEPT ![place] = c]
      /\ files' = [files EXCEPT ![c] = @ \cup {<<item, n>>}] /\ written' = written \cup {<<item, n>>}
      /\ place = "aside" => at.aside = "old"
      /\ Windows \/ ~Unseen
      /\ hand.state = "away" /\ pc # "refused"
      /\ UNCHANGED <<pc, to, reg, jjName, bookmark, manifest, marker, pending, memory, hand>>
  BY DEF Write
<1>3. n \in 1..MaxWrites /\ n \in 0..MaxWrites
  BY <1>1, <1>2, EntriesAssumption
<1>4. /\ c \in {"old", "new", "stray"}
      /\ c = "new" => at.slot = "new"
      /\ c = "old" => at.slot = "old" \/ at.aside = "old"
  BY <1>2 DEF DiskType
<1>5. /\ at' \in [slot : {"old", "new", "stray", "none"}, aside : {"old", "none"}, stash : {"new", "none"}]
      /\ at'.aside = at.aside /\ at'.stash = at.stash
      /\ at'.slot = at.slot \/ (at.slot = "none" /\ at'.slot = "stray")
  BY <1>2 DEF DiskType
<1> HIDE DEF c, n
<1>6. /\ files'[c] = files[c] \cup {<<item, n>>}
      /\ \A d \in Checkouts : d # c => files'[d] = files[d]
      /\ files' \in [Checkouts -> SUBSET (Items \X (0..MaxWrites))]
  <2>1. <<item, n>> \in Items \X (0..MaxWrites) /\ c \in Checkouts
    BY <1>3, <1>4 DEF Checkouts
  <2> QED BY <1>2, <2>1 DEF DiskType
<1> QED BY <1>2, <1>3, <1>4, <1>5, <1>6

LEMMA HandCarriesDoes ==
  ASSUME HandCarriesBack
  PROVE  \E e \in Entries :
           /\ ByHand(CarryBack(e))
           /\ \/ Next1 /\ UNCHANGED disk /\ (at.slot = "none" \/ ~Has(at.slot, e) \/ at.aside = "old")
              \/ Stuck /\ at.slot # "none" /\ Has(at.slot, e) /\ at.aside = "none"
              \/ \E t \in {"old", "kept"} :
                   /\ Next1 /\ at.slot # "none" /\ Has(at.slot, e) /\ ~Has(t, e) /\ at.aside = "old"
                   /\ Rename(e, at.slot, t) /\ UNCHANGED <<at, reg, jjName, bookmark, manifest>>
  BY DEF HandCarriesBack

(* Where each action is, and where it leaves the migrate.                    *)
LEMMA PlaceAfter ==
  /\ \A phase, steps, cleanup, next : Record(phase, steps, cleanup, next) => Place' = next
  /\ \A phase, steps, next : Cleanup(phase, steps, next) /\ next # "recording" => Place' = next
  /\ \A undos, next : Push(undos, next) => Place' = next \/ Place' = "undo"
  /\ pc # "recording" => Place = pc
  /\ pc' # "recording" => Place' = pc'
<1>1. \A phase, steps, cleanup, next : Record(phase, steps, cleanup, next) => Place' = next
  BY DEF Record, Place
<1>2. /\ pc # "recording" => Place = pc
      /\ pc' # "recording" => Place' = pc'
  BY DEF Place
<1>3. \A phase, steps, next : Cleanup(phase, steps, next) /\ next # "recording" => Place' = next
  BY <1>1, <1>2 DEF Cleanup
<1>4. \A undos, next : Push(undos, next) => Place' = next \/ Place' = "undo"
  BY <1>1, <1>2 DEF Push
<1> QED BY <1>1, <1>2, <1>3, <1>4

LEMMA Moves ==
  ASSUME TypeInv
  PROVE  /\ Refuse => Place = "prepare" /\ Place' = "refused"
         /\ Prepare => Place = "prepare" /\ Place' = "begin"
         /\ BeginMarker => Place = "begin" /\ Place' \in {"setting aside", "undo"}
         /\ SetAside => Place = "setting aside" /\ Place' = "push aside"
         /\ PushAside => Place = "push aside" /\ Place' \in {"repoint", "undo"}
         /\ Repoint => Place = "repoint" /\ Place' \in {"check", "undo"}
         /\ Check => Place = "check" /\ Place' \in {"add", "undo"}
         /\ AddBegins => Place = "add" /\ Place' = "adding"
         /\ AddEnds => Place = "adding" /\ Place' = "added"
         /\ AddFails => Place = "adding" /\ Place' = "undo"
         /\ PushCarry => Place = "added" /\ Place' \in {"recordSaving", "carry", "undo"}
         /\ CarryLooks => Place = "carry" /\ Place' = "carry"
         /\ CarryRenames => Place = "carry" /\ Place' \in {"recordSaving", "carry"}
         /\ RecordSaving => Place = "recordSaving" /\ Place' = "save"
         /\ SaveDetaches => Place = "save" /\ Place' = "saving"
         /\ SaveInstalls => Place = "saving" /\ Place' \in {"saved", "undo"}
         /\ Saved => Place = "saved" /\ Place' = "finish"
         /\ Finish => Place = "finish" /\ Place' \in {"end", "forget", "remove aside"}
         /\ SetNewAside => Place = "forget" /\ Place' \in {"record forgetting", "remove aside"}
         /\ RecordForgetting => Place = "record forgetting" /\ Place' = "forget name"
         /\ ForgetName => Place = "forget name" /\ Place' = "restore new"
         /\ RestoreNew => Place = "restore new" /\ Place' \in {"record restored", "remove aside"}
         /\ RecordRestored => Place = "record restored" /\ Place' = "remove aside"
         /\ RemoveOld => Place = "remove aside" /\ Place' \in {"deregister", "stranded?"}
         /\ Deregister => Place = "deregister" /\ Place' = "stranded?"
         /\ RecordStranded => Place = "stranded?" /\ Place' = "end"
         /\ End => Place = "end" /\ Place' = "migrated"
         /\ UndoMark => Place = "undo" /\ Place' = "undo"
         /\ UndoNothingMade => Place = "undo" /\ Place' = "undo"
         /\ UndoNew => Place = "undo" /\ Place' \in {"undo", "stop"}
         /\ UndoAside => Place = "undo" /\ Place' \in {"undo", "stop"}
         /\ UndoFails => Place = "undo" /\ Place' = "stop"
         /\ Stop => Place = "stop" /\ Place' = "stopped"
         /\ RolledBack => Place = "undo" /\ Place' = "rolled back"
         /\ CheckFails => Place \in (Early \ Start) \cup {"setting aside"} \cup Middle /\ Place' = "undo"
         /\ InstallRecord => Place' = Place
         /\ Kill => Place' = "killed"
         /\ \A e : UndoCarryNothing(e) \/ UndoCarryLooks(e) \/ UndoCarryRenames(e) \/ UndoCarryKeeps(e) =>
            Place = "undo" /\ Place' = "undo"
         /\ \A place \in {"slot", "aside"}, item \in Items : Write(place, item) =>
            Place' = Place /\ (Windows \/ (looked = NoEntry /\ Place \notin {"adding"} \cup Emptied))
         /\ ByPerson => UNCHANGED <<pc, to, pending, memory, written>> /\ Place \in Ends /\ Place' = Place
<1>1. Refuse => Place = "prepare" /\ Place' = "refused"
  BY PlaceAfter DEF Refuse
<1>2. Prepare => Place = "prepare" /\ Place' = "begin"
  BY PlaceAfter DEF Prepare
<1>3. BeginMarker => Place = "begin" /\ Place' \in {"setting aside", "undo"}
  BY PlaceAfter DEF BeginMarker
<1>4. SetAside => Place = "setting aside" /\ Place' = "push aside"
  BY PlaceAfter DEF SetAside
<1>5. PushAside => Place = "push aside" /\ Place' \in {"repoint", "undo"}
  BY PlaceAfter DEF PushAside
<1>6. Repoint => Place = "repoint" /\ Place' \in {"check", "undo"}
  BY PlaceAfter DEF Repoint
<1>7. Check => Place = "check" /\ Place' \in {"add", "undo"}
  BY PlaceAfter DEF Check
<1>8. AddBegins => Place = "add" /\ Place' = "adding"
  BY PlaceAfter DEF AddBegins
<1>9. AddEnds => Place = "adding" /\ Place' = "added"
  BY PlaceAfter DEF AddEnds
<1>10. AddFails => Place = "adding" /\ Place' = "undo"
  BY PlaceAfter DEF AddFails
<1>11. PushCarry => Place = "added" /\ Place' \in {"recordSaving", "carry", "undo"}
  BY PlaceAfter DEF PushCarry
<1>12. CarryLooks => Place = "carry" /\ Place' = "carry"
  BY PlaceAfter DEF CarryLooks
<1>13. CarryRenames => Place = "carry" /\ Place' \in {"recordSaving", "carry"}
  BY PlaceAfter DEF CarryRenames
<1>14. RecordSaving => Place = "recordSaving" /\ Place' = "save"
  BY PlaceAfter DEF RecordSaving
<1>15. SaveDetaches => Place = "save" /\ Place' = "saving"
  BY PlaceAfter DEF SaveDetaches
<1>16. SaveInstalls => Place = "saving" /\ Place' \in {"saved", "undo"}
  BY PlaceAfter DEF SaveInstalls
<1>17. Saved => Place = "saved" /\ Place' = "finish"
  BY PlaceAfter DEF Saved
<1>18. Finish => Place = "finish" /\ Place' \in {"end", "forget", "remove aside"}
  BY PlaceAfter DEF Finish
<1>19. SetNewAside => Place = "forget" /\ Place' \in {"record forgetting", "remove aside"}
  BY PlaceAfter DEF SetNewAside
<1>20. RecordForgetting => Place = "record forgetting" /\ Place' = "forget name"
  BY PlaceAfter DEF RecordForgetting
<1>21. ForgetName => Place = "forget name" /\ Place' = "restore new"
  BY PlaceAfter DEF ForgetName
<1>22. RestoreNew => Place = "restore new" /\ Place' \in {"record restored", "remove aside"}
  BY PlaceAfter DEF RestoreNew
<1>23. RecordRestored => Place = "record restored" /\ Place' = "remove aside"
  BY PlaceAfter DEF RecordRestored
<1>24. RemoveOld => Place = "remove aside" /\ Place' \in {"deregister", "stranded?"}
  BY PlaceAfter DEF RemoveOld
<1>25. Deregister => Place = "deregister" /\ Place' = "stranded?"
  BY PlaceAfter DEF Deregister
<1>26. RecordStranded => Place = "stranded?" /\ Place' = "end"
  BY PlaceAfter DEF RecordStranded
<1>27. End => Place = "end" /\ Place' = "migrated"
  BY PlaceAfter DEF End
<1>28. UndoMark => Place = "undo" /\ Place' = "undo"
  BY PlaceAfter DEF UndoMark, MarkRestored, Undoing
<1>29. UndoNothingMade => Place = "undo" /\ Place' = "undo"
  BY PlaceAfter DEF UndoNothingMade, Undoing
<1>30. UndoNew => Place = "undo" /\ Place' \in {"undo", "stop"}
  BY PlaceAfter DEF UndoNew, Undoing
<1>31. UndoAside => Place = "undo" /\ Place' \in {"undo", "stop"}
  BY PlaceAfter DEF UndoAside, Undoing
<1>32. UndoFails => Place = "undo" /\ Place' = "stop"
  BY PlaceAfter DEF UndoFails
<1>33. Stop => Place = "stop" /\ Place' = "stopped"
  BY PlaceAfter DEF Stop
<1>34. RolledBack => Place = "undo" /\ Place' = "rolled back"
  BY PlaceAfter DEF RolledBack
<1>35. CheckFails => Place \in (Early \ Start) \cup {"setting aside"} \cup Middle /\ Place' = "undo"
  BY PlaceAfter DEF CheckFails, Early, Start, Middle
<1>36. InstallRecord => Place' = Place
  BY PlaceAfter DEF InstallRecord, Place, TypeInv, PlaceType, Nexts
<1>37. Kill => Place' = "killed"
  BY PlaceAfter DEF Kill
<1>38. \A e : UndoCarryNothing(e) \/ UndoCarryLooks(e) \/ UndoCarryRenames(e) \/ UndoCarryKeeps(e) =>
            Place = "undo" /\ Place' = "undo"
  BY PlaceAfter DEF UndoCarryNothing, UndoCarryLooks, UndoCarryRenames, UndoCarryKeeps, Undoing
<1>39. \A place \in {"slot", "aside"}, item \in Items : Write(place, item) =>
            Place' = Place /\ (Windows \/ (looked = NoEntry /\ Place \notin {"adding"} \cup Emptied))
  <2> SUFFICES ASSUME NEW place \in {"slot", "aside"}, NEW item \in Items, Write(place, item)
               PROVE  Place' = Place /\ (Windows \/ (looked = NoEntry /\ Place \notin {"adding"} \cup Emptied))
    OBVIOUS
  <2>1. (Windows \/ ~Unseen) /\ UNCHANGED <<pc, pending>>
    BY WriteDoes DEF TypeInv
  <2>2. Place' = Place
    BY <2>1 DEF Place
  <2>3. ~Unseen => looked = NoEntry /\ Place \notin {"adding"} \cup Emptied
    BY DEF Place, Unseen, Emptied, TypeInv, PlaceType, Nexts
  <2> QED BY <2>1, <2>2, <2>3
<1>40. ByPerson => UNCHANGED <<pc, to, pending, memory, written>> /\ Place \in Ends /\ Place' = Place
  <2>1. HandStep => hand.state # "away" /\ UNCHANGED <<pc, to, pending, memory, written>>
    BY DEF HandStep, HandMovesBack, HandRestoresMark, HandCarriesBack, HandRemovesNew, HandLooks,
         HandMovesNewBack, HandForgets, HandRemovesAside, ByHand
  <2>2. HandBegins => pc \in Ends /\ UNCHANGED <<pc, to, pending, memory, written>>
    BY DEF HandBegins, Over, Ends
  <2>3. HandFinishes => hand.state # "away" /\ UNCHANGED <<pc, to, pending, memory, written>>
    BY DEF HandFinishes
  <2>4. ByPerson => pc \in Ends /\ UNCHANGED <<pc, to, pending, memory, written>>
    BY <2>1, <2>2, <2>3 DEF ByPerson, TypeInv, PlaceType
  <2> QED BY <2>4 DEF Ends, Place
<1> QED BY <1>1, <1>2, <1>3, <1>4, <1>5, <1>6, <1>7, <1>8, <1>9, <1>10, <1>11, <1>12, <1>13, <1>14, <1>15,
        <1>16, <1>17, <1>18, <1>19, <1>20, <1>21, <1>22, <1>23, <1>24, <1>25, <1>26, <1>27, <1>28, <1>29,
        <1>30, <1>31, <1>32, <1>33, <1>34, <1>35, <1>36, <1>37, <1>38, <1>39, <1>40

-----------------------------------------------------------------------------
(* Types.                                                                    *)

LEMMA PlaceTyped ==
  ASSUME TypeInv, SlotStep
  PROVE  PlaceType'
<1>1. CASE Refuse
  BY <1>1 DEF Refuse, disk, memory, TypeInv, PlaceType, Nexts, Ends
<1>2. CASE Prepare
  BY <1>2 DEF Prepare, memory, TypeInv, PlaceType, Nexts, Ends
<1>3. CASE BeginMarker
  <2>1. <<LookBeside>> \in Seq(AllSteps) /\ <<>> \in Seq(CleanSteps)
    BY StepsAre
  <2>2. CASE Record("setting-aside", <<LookBeside>>, <<>>, "setting aside")
    BY <1>3, <2>1, <2>2, RecordTyped DEF BeginMarker, TypeInv, PlaceType, Nexts, Ends, Phases
  <2>3. CASE pc' = "undo" /\ UNCHANGED <<marker, pending>>
    BY <1>3, <2>3 DEF BeginMarker, TypeInv, PlaceType, Nexts, Ends
  <2> QED BY <1>3, <2>2, <2>3 DEF BeginMarker
<1>4. CASE SetAside
  BY <1>4 DEF SetAside, memory, TypeInv, PlaceType, Nexts, Ends
<1>5. CASE PushAside
  <2>1. <<MoveBack>> \in Seq(UndoSteps)
    BY StepsAre
  <2>2. Push(<<MoveBack>>, "repoint") /\ UNCHANGED hand /\ pc \notin Ends
    BY <1>5 DEF PushAside, Ends
  <2>3. pending' \in [record : Recs, next : Nexts \cup {"none"}] /\ (pc' = "recording" => pending'.next \in Nexts)
    BY <2>1, <2>2, PushTyped DEF Nexts
  <2> QED BY <2>2, <2>3 DEF TypeInv, PlaceType
<1>6. CASE Repoint
  BY <1>6 DEF Repoint, memory, TypeInv, PlaceType, Nexts, Ends
<1>7. CASE Check
  <2>1. <<RemoveNew>> \in Seq(UndoSteps)
    BY StepsAre
  <2>2. Push(<<RemoveNew>>, "add") /\ UNCHANGED hand /\ pc \notin Ends
    BY <1>7 DEF Check, Ends
  <2>3. pending' \in [record : Recs, next : Nexts \cup {"none"}] /\ (pc' = "recording" => pending'.next \in Nexts)
    BY <2>1, <2>2, PushTyped DEF Nexts
  <2> QED BY <2>2, <2>3 DEF TypeInv, PlaceType
<1>8. CASE AddBegins
  BY <1>8 DEF AddBegins, memory, TypeInv, PlaceType, Nexts, Ends
<1>9. CASE AddEnds
  BY <1>9 DEF AddEnds, memory, TypeInv, PlaceType, Nexts, Ends
<1>10. CASE AddFails
  BY <1>10 DEF AddFails, memory, TypeInv, PlaceType, Nexts, Ends
<1>11. CASE PushCarry
  <2>1. CASE listed = {}
    BY <1>11, <2>1 DEF PushCarry, TypeInv, PlaceType, Nexts, Ends, disk
  <2>2. CASE listed # {}
    <3>1. SetToSeq({CarryBack(e) : e \in listed}) \in Seq(UndoSteps)
      BY CarriesAsSeq DEF TypeInv, MemoryType
    <3>2. Push(SetToSeq({CarryBack(e) : e \in listed}), "carry") /\ UNCHANGED hand /\ pc \notin Ends
      BY <1>11, <2>2 DEF PushCarry, Ends
    <3>3. pending' \in [record : Recs, next : Nexts \cup {"none"}] /\ (pc' = "recording" => pending'.next \in Nexts)
      BY <3>1, <3>2, PushTyped DEF Nexts
    <3> QED BY <3>2, <3>3 DEF TypeInv, PlaceType
  <2> QED BY <2>1, <2>2
<1>12. CASE CarryLooks
  BY <1>12 DEF CarryLooks, disk, memory, TypeInv, PlaceType, Nexts, Ends
<1>13. CASE CarryRenames
  BY <1>13 DEF CarryRenames, memory, TypeInv, PlaceType, Nexts, Ends
<1>14. CASE RecordSaving
  <2>1. Record("saving", undoSteps(undo), cleanupSteps, "save") /\ UNCHANGED hand /\ pc \notin Ends
    BY <1>14 DEF RecordSaving, Ends
  <2>2. undoSteps(undo) \in Seq(AllSteps) /\ cleanupSteps \in Seq(CleanSteps)
    BY StepsTyped DEF TypeInv, StepType
  <2> QED BY <2>1, <2>2, RecordTyped DEF TypeInv, PlaceType, Nexts, Phases
<1>15. CASE SaveDetaches
  BY <1>15 DEF SaveDetaches, memory, TypeInv, PlaceType, Nexts, Ends
<1>16. CASE SaveInstalls
  BY <1>16 DEF SaveInstalls, memory, TypeInv, PlaceType, Nexts, Ends
<1>17. CASE Saved
  <2>1. Cleanup("saved", cleanupSteps, "finish") /\ UNCHANGED hand /\ pc \notin Ends
    BY <1>17 DEF Saved, Ends
  <2>2. cleanupSteps \in Seq(AllSteps)
    BY StepsTyped
  <2> QED BY <2>1, <2>2, CleanupTyped DEF TypeInv, PlaceType, Nexts, Phases
<1>18. CASE CheckFails
  BY <1>18 DEF CheckFails, disk, memory, TypeInv, PlaceType, Nexts, Ends
<1>19. CASE InstallRecord
  <2>1. NoRecord \in Recs
    BY DEF NoRecord, Recs, Phases
  <2> QED BY <1>19, <2>1 DEF InstallRecord, TypeInv, PlaceType, Nexts, Ends
<1>20. CASE Finish
  BY <1>20 DEF Finish, disk, memory, TypeInv, PlaceType, Nexts, Ends
<1>21. CASE SetNewAside
  BY <1>21 DEF SetNewAside, memory, TypeInv, PlaceType, Nexts, Ends
<1>22. CASE RecordForgetting
  <2>1. Cleanup("forgetting", <<MoveNewBack, ForgetIfListed, RemoveAside>>, "forget name") /\ UNCHANGED hand /\ pc \notin Ends
    BY <1>22 DEF RecordForgetting, Ends
  <2>2. <<MoveNewBack, ForgetIfListed, RemoveAside>> \in Seq(AllSteps)
    BY StepsAre
  <2> QED BY <2>1, <2>2, CleanupTyped DEF TypeInv, PlaceType, Nexts, Phases
<1>23. CASE ForgetName
  BY <1>23 DEF ForgetName, memory, TypeInv, PlaceType, Nexts, Ends
<1>24. CASE RestoreNew
  BY <1>24 DEF RestoreNew, memory, TypeInv, PlaceType, Nexts, Ends
<1>25. CASE RecordRestored
  <2>1. Cleanup("saved", forgetLeft(Forget) \o <<RemoveAside>>, "remove aside") /\ UNCHANGED hand /\ pc \notin Ends
    BY <1>25 DEF RecordRestored, Ends
  <2>2. forgetLeft(Forget) \o <<RemoveAside>> \in Seq(AllSteps)
    BY StepsAre DEF forgetLeft
  <2> QED BY <2>1, <2>2, CleanupTyped DEF TypeInv, PlaceType, Nexts, Phases
<1>26. CASE RemoveOld
  BY <1>26 DEF RemoveOld, memory, TypeInv, PlaceType, Nexts, Ends
<1>27. CASE Deregister
  BY <1>27 DEF Deregister, memory, TypeInv, PlaceType, Nexts, Ends
<1>28. CASE RecordStranded
  <2>1. CASE stranded
    <3>1. Cleanup("forgetting", <<MoveNewBack>> \o forgetLeft(Forget)
                                  \o (IF at.aside = "old" THEN <<RemoveAside>> ELSE <<>>), "end")
          /\ UNCHANGED hand /\ pc \notin Ends
      BY <1>28, <2>1 DEF RecordStranded, Ends
    <3>2. <<MoveNewBack>> \o forgetLeft(Forget) \o (IF at.aside = "old" THEN <<RemoveAside>> ELSE <<>>) \in Seq(AllSteps)
      BY StepsAre DEF forgetLeft
    <3> QED BY <3>1, <3>2, CleanupTyped DEF TypeInv, PlaceType, Nexts, Phases
  <2>2. CASE ~stranded
    BY <1>28, <2>2 DEF RecordStranded, TypeInv, PlaceType, Nexts, Ends
  <2> QED BY <2>1, <2>2
<1>29. CASE End
  BY <1>29 DEF End, stranded, disk, memory, TypeInv, PlaceType, Nexts, Ends
<1>30. CASE UndoMark
  BY <1>30 DEF UndoMark, MarkRestored, Undoing, Undone, memory, TypeInv, PlaceType, Nexts, Ends
<1>31. CASE UndoNothingMade
  BY <1>31 DEF UndoNothingMade, Undoing, Undone, disk, memory, TypeInv, PlaceType, Nexts, Ends
<1>32. CASE UndoNew
  BY <1>32 DEF UndoNew, Undoing, Undone, memory, TypeInv, PlaceType, Nexts, Ends
<1>33. CASE UndoAside
  BY <1>33 DEF UndoAside, Undoing, Undone, memory, TypeInv, PlaceType, Nexts, Ends
<1>34. CASE UndoFails
  BY <1>34 DEF UndoFails, disk, memory, TypeInv, PlaceType, Nexts, Ends
<1>35. CASE Stop
  <2>1. Cleanup("rollback-stopped", undoSteps(undo), "stopped") /\ UNCHANGED hand /\ pc \notin Ends
    BY <1>35 DEF Stop, Ends
  <2>2. undoSteps(undo) \in Seq(AllSteps)
    BY StepsTyped DEF TypeInv, StepType
  <2> QED BY <2>1, <2>2, CleanupTyped DEF TypeInv, PlaceType, Nexts, Phases
<1>36. CASE RolledBack
  BY <1>36 DEF RolledBack, disk, memory, TypeInv, PlaceType, Nexts, Ends
<1>37. ASSUME NEW e \in Entries, UndoCarryNothing(e) PROVE PlaceType'
  BY <1>37 DEF UndoCarryNothing, Undoing, Undone, disk, memory, TypeInv, PlaceType, Nexts, Ends
<1>38. ASSUME NEW e \in Entries, UndoCarryLooks(e) PROVE PlaceType'
  BY <1>38 DEF UndoCarryLooks, Undoing, disk, memory, TypeInv, PlaceType, Nexts, Ends
<1>39. ASSUME NEW e \in Entries, UndoCarryRenames(e) PROVE PlaceType'
  BY <1>39 DEF UndoCarryRenames, Undoing, Undone, memory, TypeInv, PlaceType, Nexts, Ends
<1>40. ASSUME NEW e \in Entries, UndoCarryKeeps(e) PROVE PlaceType'
  BY <1>40 DEF UndoCarryKeeps, Undoing, Undone, memory, TypeInv, PlaceType, Nexts, Ends
<1>41. CASE Kill
  BY <1>41 DEF Kill, Over, disk, memory, TypeInv, PlaceType, Nexts, Ends
<1>42. ASSUME NEW place \in {"slot", "aside"}, NEW item \in Items, Write(place, item) PROVE PlaceType'
  BY <1>42 DEF Write, memory, TypeInv, PlaceType, Nexts, Ends
<1>43. CASE HandBegins
  BY <1>43 DEF HandBegins, disk, memory, TypeInv, PlaceType, Nexts, Ends, Over
<1>44. CASE HandMovesBack /\ UNCHANGED <<pc, to, marker, pending, memory, written>>
  <2>1. hand.state # "away"
    BY <1>44 DEF HandMovesBack, ByHand
  <2> QED BY <1>44, <2>1 DEF TypeInv, PlaceType, Nexts, Ends
<1>45. CASE HandRestoresMark /\ UNCHANGED <<pc, to, marker, pending, memory, written>>
  <2>1. hand.state # "away"
    BY <1>45 DEF HandRestoresMark, MarkRestored, ByHand
  <2> QED BY <1>45, <2>1 DEF TypeInv, PlaceType, Nexts, Ends
<1>46. CASE HandCarriesBack /\ UNCHANGED <<pc, to, marker, pending, memory, written>>
  <2>1. hand.state # "away"
    BY <1>46 DEF HandCarriesBack, ByHand
  <2> QED BY <1>46, <2>1 DEF TypeInv, PlaceType, Nexts, Ends
<1>47. CASE HandRemovesNew /\ UNCHANGED <<pc, to, marker, pending, memory, written>>
  <2>1. hand.state # "away"
    BY <1>47 DEF HandRemovesNew, ByHand
  <2> QED BY <1>47, <2>1 DEF TypeInv, PlaceType, Nexts, Ends
<1>48. CASE HandLooks /\ UNCHANGED <<pc, to, marker, pending, memory, written>>
  <2>1. hand.state # "away"
    BY <1>48 DEF HandLooks, ByHand
  <2> QED BY <1>48, <2>1 DEF TypeInv, PlaceType, Nexts, Ends
<1>49. CASE HandMovesNewBack /\ UNCHANGED <<pc, to, marker, pending, memory, written>>
  <2>1. hand.state # "away"
    BY <1>49 DEF HandMovesNewBack, ByHand
  <2> QED BY <1>49, <2>1 DEF TypeInv, PlaceType, Nexts, Ends
<1>50. CASE HandForgets /\ UNCHANGED <<pc, to, marker, pending, memory, written>>
  <2>1. hand.state # "away"
    BY <1>50 DEF HandForgets, ByHand
  <2> QED BY <1>50, <2>1 DEF TypeInv, PlaceType, Nexts, Ends
<1>51. CASE HandRemovesAside /\ UNCHANGED <<pc, to, marker, pending, memory, written>>
  <2>1. hand.state # "away"
    BY <1>51 DEF HandRemovesAside, ByHand
  <2> QED BY <1>51, <2>1 DEF TypeInv, PlaceType, Nexts, Ends
<1>52. CASE HandFinishes
  BY <1>52 DEF HandFinishes, disk, memory, TypeInv, PlaceType, Nexts, Ends
<1> QED BY <1>1, <1>2, <1>3, <1>4, <1>5, <1>6, <1>7, <1>8, <1>9, <1>10, <1>11, <1>12, <1>13, <1>14, <1>15,
        <1>16, <1>17, <1>18, <1>19, <1>20, <1>21, <1>22, <1>23, <1>24, <1>25, <1>26, <1>27, <1>28, <1>29,
        <1>30, <1>31, <1>32, <1>33, <1>34, <1>35, <1>36, <1>37, <1>38, <1>39, <1>40, <1>41, <1>42, <1>43,
        <1>44, <1>45, <1>46, <1>47, <1>48, <1>49, <1>50, <1>51, <1>52 DEF SlotStep, Migrates, CleansUp, RollsBack,
        Writes, ByPerson, HandStep

LEMMA RenameTyped ==
  ASSUME DiskType, NEW e, NEW s \in Checkouts, NEW t \in Checkouts, Rename(e, s, t)
  PROVE  files' \in [Checkouts -> SUBSET (Items \X (0..MaxWrites))]
<1>1. \A d \in Checkouts : files[d] \in SUBSET (Items \X (0..MaxWrites))
  BY DEF DiskType
<1>2. CASE s # t
  <2>1. files' = [files EXCEPT ![s] = {c \in files[s] : c[1] # e},
                               ![t] = {c \in files[t] : c[1] # e} \cup {c \in files[s] : c[1] = e}]
    BY <1>2 DEF Rename, DiskType
  <2> QED BY <1>1, <2>1 DEF DiskType
<1>3. CASE s = t
  <2>1. \E S \in SUBSET (Items \X (0..MaxWrites)) : files' = [files EXCEPT ![s] = S]
    BY <1>1, <1>3 DEF Rename, DiskType
  <2> QED BY <2>1 DEF DiskType
<1> QED BY <1>2, <1>3

LEMMA DiskTyped ==
  ASSUME TypeInv, SlotStep
  PROVE  DiskType'
<1>1. CASE Refuse
  BY <1>1 DEF Refuse, disk, memory, TypeInv, DiskType, Checkouts, Modes
<1>2. CASE Prepare
  BY <1>2 DEF Prepare, Marks, disk, memory, TypeInv, DiskType, Checkouts, Modes
<1>3. CASE BeginMarker
  BY <1>3 DEF BeginMarker, Record, disk, memory, TypeInv, DiskType, Checkouts, Modes
<1>4. CASE SetAside
  BY <1>4 DEF SetAside, disk, memory, TypeInv, DiskType, Checkouts, Modes
<1>5. CASE PushAside
  BY <1>5 DEF PushAside, Push, Record, undoSteps, disk, memory, TypeInv, DiskType, Checkouts, Modes
<1>6. CASE Repoint
  BY <1>6 DEF Repoint, disk, memory, TypeInv, DiskType, Checkouts, Modes
<1>7. CASE Check
  BY <1>7 DEF Check, Push, Record, undoSteps, disk, memory, TypeInv, DiskType, Checkouts, Modes
<1>8. CASE AddBegins
  BY <1>8 DEF AddBegins, disk, memory, TypeInv, DiskType, Checkouts, Modes
<1>9. CASE AddEnds
  BY <1>9 DEF AddEnds, disk, memory, TypeInv, DiskType, Checkouts, Modes
<1>10. CASE AddFails
  <2>1. DiskType /\ UNCHANGED <<to, jjName, bookmark, manifest, written>>
    BY <1>10 DEF AddFails, memory, TypeInv
  <2>2. CASE UNCHANGED <<at, files, reg>>
    BY <2>1, <2>2 DEF DiskType
  <2>3. CASE /\ at' = [at EXCEPT !.slot = "none"] /\ files' = [files EXCEPT !.new = {}]
             /\ reg' = [reg EXCEPT !.new = FALSE]
    BY <2>1, <2>3 DEF DiskType, Checkouts
  <2> QED BY <1>10, <2>2, <2>3 DEF AddFails
<1>11. CASE PushCarry
  BY <1>11 DEF PushCarry, Push, Record, undoSteps, disk, memory, TypeInv, DiskType, Checkouts, Modes
<1>12. CASE CarryLooks
  BY <1>12 DEF CarryLooks, disk, memory, TypeInv, DiskType, Checkouts, Modes
<1>13. CASE CarryRenames
  <2>1. Rename(looked, "old", "new") /\ UNCHANGED <<to, at, reg, jjName, bookmark, manifest, written>>
    BY <1>13 DEF CarryRenames
  <2>2. files' \in [Checkouts -> SUBSET (Items \X (0..MaxWrites))]
    BY <2>1, RenameTyped DEF TypeInv, Checkouts
  <2> QED BY <2>1, <2>2 DEF TypeInv, DiskType
<1>14. CASE RecordSaving
  BY <1>14 DEF RecordSaving, Record, cleanupSteps, disk, memory, TypeInv, DiskType, Checkouts, Modes
<1>15. CASE SaveDetaches
  BY <1>15 DEF SaveDetaches, disk, memory, TypeInv, DiskType, Checkouts, Modes
<1>16. CASE SaveInstalls
  BY <1>16, ModesAre DEF SaveInstalls, disk, memory, TypeInv, DiskType, Checkouts, from
<1>17. CASE Saved
  BY <1>17 DEF Saved, Cleanup, Record, cleanupSteps, disk, memory, TypeInv, DiskType, Checkouts, Modes
<1>18. CASE CheckFails
  BY <1>18 DEF CheckFails, disk, memory, TypeInv, DiskType, Checkouts, Modes
<1>19. CASE InstallRecord
  BY <1>19 DEF InstallRecord, disk, memory, TypeInv, DiskType, Checkouts, Modes
<1>20. CASE Finish
  BY <1>20 DEF Finish, disk, memory, TypeInv, DiskType, Checkouts, Modes
<1>21. CASE SetNewAside
  BY <1>21 DEF SetNewAside, disk, memory, TypeInv, DiskType, Checkouts, Modes
<1>22. CASE RecordForgetting
  BY <1>22 DEF RecordForgetting, Cleanup, Record, disk, memory, TypeInv, DiskType, Checkouts, Modes
<1>23. CASE ForgetName
  BY <1>23 DEF ForgetName, disk, memory, TypeInv, DiskType, Checkouts, Modes
<1>24. CASE RestoreNew
  BY <1>24 DEF RestoreNew, disk, memory, TypeInv, DiskType, Checkouts, Modes
<1>25. CASE RecordRestored
  BY <1>25 DEF RecordRestored, Cleanup, Record, forgetLeft, disk, memory, TypeInv, DiskType, Checkouts, Modes
<1>26. CASE RemoveOld
  BY <1>26 DEF RemoveOld, disk, memory, TypeInv, DiskType, Checkouts, Modes
<1>27. CASE Deregister
  BY <1>27 DEF Deregister, disk, memory, TypeInv, DiskType, Checkouts, Modes
<1>28. CASE RecordStranded
  BY <1>28 DEF RecordStranded, Cleanup, Record, forgetLeft, stranded, disk, memory, TypeInv, DiskType,
       Checkouts, Modes
<1>29. CASE End
  BY <1>29 DEF End, stranded, disk, memory, TypeInv, DiskType, Checkouts, Modes
<1>30. CASE UndoMark
  BY <1>30 DEF UndoMark, Marks, MarkRestored, Undoing, Undone, disk, memory, TypeInv, DiskType, Checkouts, Modes
<1>31. CASE UndoNothingMade
  BY <1>31 DEF UndoNothingMade, Undoing, Undone, disk, memory, TypeInv, DiskType, Checkouts, Modes
<1>32. CASE UndoNew
  BY <1>32 DEF UndoNew, Undoing, Undone, disk, memory, TypeInv, DiskType, Checkouts, Modes
<1>33. CASE UndoAside
  BY <1>33 DEF UndoAside, Undoing, Undone, disk, memory, TypeInv, DiskType, Checkouts, Modes
<1>34. CASE UndoFails
  BY <1>34 DEF UndoFails, disk, memory, TypeInv, DiskType, Checkouts, Modes
<1>35. CASE Stop
  BY <1>35 DEF Stop, Cleanup, Record, disk, memory, TypeInv, DiskType, Checkouts, Modes
<1>36. CASE RolledBack
  BY <1>36 DEF RolledBack, disk, memory, TypeInv, DiskType, Checkouts, Modes
<1>37. ASSUME NEW e \in Entries, UndoCarryNothing(e) PROVE DiskType'
  BY <1>37 DEF UndoCarryNothing, Undoing, Undone, disk, memory, TypeInv, DiskType, Checkouts, Modes
<1>38. ASSUME NEW e \in Entries, UndoCarryLooks(e) PROVE DiskType'
  BY <1>38 DEF UndoCarryLooks, Undoing, disk, memory, TypeInv, DiskType, Checkouts, Modes
<1>39. ASSUME NEW e \in Entries, UndoCarryRenames(e) PROVE DiskType'
  <2>1. Rename(e, "new", "old") /\ UNCHANGED <<to, at, reg, jjName, bookmark, manifest, written>>
    BY <1>39 DEF UndoCarryRenames
  <2>2. files' \in [Checkouts -> SUBSET (Items \X (0..MaxWrites))]
    BY <2>1, RenameTyped DEF TypeInv, Checkouts
  <2> QED BY <2>1, <2>2 DEF TypeInv, DiskType
<1>40. ASSUME NEW e \in Entries, UndoCarryKeeps(e) PROVE DiskType'
  <2>1. Rename(e, "new", "kept") /\ UNCHANGED <<to, at, reg, jjName, bookmark, manifest, written>>
    BY <1>40 DEF UndoCarryKeeps
  <2>2. files' \in [Checkouts -> SUBSET (Items \X (0..MaxWrites))]
    BY <2>1, RenameTyped DEF TypeInv, Checkouts
  <2> QED BY <2>1, <2>2 DEF TypeInv, DiskType
<1>41. CASE Kill
  BY <1>41 DEF Kill, Over, disk, memory, TypeInv, DiskType, Checkouts, Modes
<1>42. ASSUME NEW place \in {"slot", "aside"}, NEW item \in Items, Write(place, item) PROVE DiskType'
  <2>1. PICK c \in {"old", "new", "stray"}, n \in 1..MaxWrites :
           /\ files' \in [Checkouts -> SUBSET (Items \X (0..MaxWrites))]
           /\ written' = written \cup {<<item, n>>}
           /\ at' \in [slot : {"old", "new", "stray", "none"}, aside : {"old", "none"}, stash : {"new", "none"}]
           /\ UNCHANGED <<to, reg, jjName, bookmark, manifest>>
    BY <1>42, WriteDoes DEF TypeInv
  <2>2. <<item, n>> \in Items \X (0..MaxWrites)
    BY EntriesAssumption
  <2> QED BY <2>1, <2>2 DEF TypeInv, DiskType
<1>43. CASE HandBegins
  BY <1>43 DEF HandBegins, disk, memory, TypeInv, DiskType, Checkouts, Modes
<1>44. CASE HandMovesBack /\ UNCHANGED <<pc, to, marker, pending, memory, written>>
  <2>1. \/ UNCHANGED disk
        \/ /\ at' = [at EXCEPT !.slot = "old", !.aside = "none"]
           /\ reg' = [reg EXCEPT !.old = "slot"] /\ UNCHANGED <<files, jjName, bookmark, manifest>>
    BY <1>44 DEF HandMovesBack, Stuck
  <2> QED BY <1>44, <2>1 DEF TypeInv, DiskType, disk
<1>45. CASE HandRestoresMark /\ UNCHANGED <<pc, to, marker, pending, memory, written>>
  BY <1>45 DEF HandRestoresMark, Marks, MarkRestored, ByHand, Next1, disk, memory, TypeInv, DiskType, Checkouts, Modes
<1>46. CASE HandCarriesBack /\ UNCHANGED <<pc, to, marker, pending, memory, written>>
  <2>1. PICK e \in Entries :
           \/ UNCHANGED disk
           \/ \E t \in {"old", "kept"} : /\ Rename(e, at.slot, t) /\ at.slot # "none"
                                       /\ UNCHANGED <<at, reg, jjName, bookmark, manifest>>
    BY <1>46, HandCarriesDoes DEF Stuck
  <2>2. CASE UNCHANGED disk
    BY <1>46, <2>2 DEF TypeInv, DiskType, disk
  <2>3. ASSUME NEW t \in {"old", "kept"}, Rename(e, at.slot, t), at.slot # "none",
               UNCHANGED <<at, reg, jjName, bookmark, manifest>>
        PROVE  DiskType'
    <3>1. at.slot \in Checkouts /\ t \in Checkouts
      BY <2>3 DEF TypeInv, DiskType, Checkouts
    <3>2. files' \in [Checkouts -> SUBSET (Items \X (0..MaxWrites))]
      BY <2>3, <3>1, RenameTyped DEF TypeInv
    <3> QED BY <1>46, <2>3, <3>2 DEF TypeInv, DiskType
  <2> QED BY <2>1, <2>2, <2>3
<1>47. CASE HandRemovesNew /\ UNCHANGED <<pc, to, marker, pending, memory, written>>
  <2>1. CASE UNCHANGED disk
    BY <1>47, <2>1 DEF TypeInv, DiskType, disk
  <2>2. CASE ~UNCHANGED disk
    <3>1. /\ at' = [at EXCEPT !.slot = "none"]
          /\ files' = IF at.slot = "none" THEN files ELSE [files EXCEPT ![at.slot] = {}]
          /\ reg' = [old |-> IF reg.old = "slot" THEN "none" ELSE reg.old, new |-> FALSE]
          /\ jjName' = (to = "worktree") /\ UNCHANGED <<bookmark, manifest>>
      BY <1>47, <2>2 DEF HandRemovesNew, Stuck
    <3>2. files' \in [Checkouts -> SUBSET (Items \X (0..MaxWrites))]
      BY <3>1 DEF TypeInv, DiskType, Checkouts
    <3> QED BY <1>47, <3>1, <3>2 DEF TypeInv, DiskType
  <2> QED BY <2>1, <2>2
<1>48. CASE HandLooks /\ UNCHANGED <<pc, to, marker, pending, memory, written>>
  BY <1>48 DEF HandLooks, ByHand, Next1, disk, memory, TypeInv, DiskType, Checkouts, Modes
<1>49. CASE HandMovesNewBack /\ UNCHANGED <<pc, to, marker, pending, memory, written>>
  BY <1>49 DEF HandMovesNewBack, ByHand, Next1, Stuck, disk, memory, TypeInv, DiskType, Checkouts, Modes
<1>50. CASE HandForgets /\ UNCHANGED <<pc, to, marker, pending, memory, written>>
  BY <1>50 DEF HandForgets, ByHand, Next1, Stuck, disk, memory, TypeInv, DiskType, Checkouts, Modes
<1>51. CASE HandRemovesAside /\ UNCHANGED <<pc, to, marker, pending, memory, written>>
  BY <1>51 DEF HandRemovesAside, ByHand, Next1, disk, memory, TypeInv, DiskType, Checkouts, Modes
<1>52. CASE HandFinishes
  BY <1>52 DEF HandFinishes, disk, memory, TypeInv, DiskType, Checkouts, Modes
<1> QED BY <1>1, <1>2, <1>3, <1>4, <1>5, <1>6, <1>7, <1>8, <1>9, <1>10, <1>11, <1>12, <1>13, <1>14, <1>15,
        <1>16, <1>17, <1>18, <1>19, <1>20, <1>21, <1>22, <1>23, <1>24, <1>25, <1>26, <1>27, <1>28, <1>29,
        <1>30, <1>31, <1>32, <1>33, <1>34, <1>35, <1>36, <1>37, <1>38, <1>39, <1>40, <1>41, <1>42, <1>43,
        <1>44, <1>45, <1>46, <1>47, <1>48, <1>49, <1>50, <1>51, <1>52 DEF SlotStep, Migrates, CleansUp, RollsBack,
        Writes, ByPerson, HandStep

LEMMA MemoryTyped ==
  ASSUME TypeInv, SlotStep
  PROVE  MemoryType'
<1>1. CASE Refuse
  BY <1>1, Moves DEF Refuse, disk, memory, TypeInv, MemoryType, Early, Start, Ends, Middle
<1>2. CASE Prepare
  BY <1>2, Moves DEF Prepare, memory, TypeInv, MemoryType, Early, Start, Ends, Middle
<1>3. CASE BeginMarker
  BY <1>3, Moves DEF BeginMarker, Record, disk, memory, TypeInv, MemoryType, Early, Start, Ends, Middle
<1>4. CASE SetAside
  BY <1>4, Moves DEF SetAside, memory, TypeInv, MemoryType, Early, Start, Ends, Middle
<1>5. CASE PushAside
  BY <1>5, Moves DEF PushAside, Push, Record, undoSteps, disk, memory, TypeInv, MemoryType, Early, Start,
       Ends, Middle
<1>6. CASE Repoint
  BY <1>6, Moves DEF Repoint, memory, TypeInv, MemoryType, Early, Start, Ends, Middle
<1>7. CASE Check
  <2>1. moved = {} /\ looked = NoEntry
    BY <1>7, Moves DEF TypeInv, MemoryType, Early
  <2> QED BY <1>7, <2>1, Moves DEF Check, TypeInv, MemoryType, Early, Start
<1>8. CASE AddBegins
  BY <1>8, Moves DEF AddBegins, memory, TypeInv, MemoryType, Early, Start, Ends, Middle
<1>9. CASE AddEnds
  BY <1>9, Moves DEF AddEnds, memory, TypeInv, MemoryType, Early, Start, Ends, Middle
<1>10. CASE AddFails
  BY <1>10, Moves DEF AddFails, memory, TypeInv, MemoryType, Early, Start, Ends, Middle
<1>11. CASE PushCarry
  BY <1>11, Moves DEF PushCarry, Push, Record, undoSteps, disk, memory, TypeInv, MemoryType, Early, Start,
       Ends, Middle
<1>12. CASE CarryLooks
  BY <1>12, Moves DEF CarryLooks, disk, memory, TypeInv, MemoryType, Look, Early, Start, Ends, Middle
<1>13. CASE CarryRenames
  BY <1>13, Moves DEF CarryRenames, memory, TypeInv, MemoryType, Early, Start, Ends, Middle
<1>14. CASE RecordSaving
  BY <1>14, Moves DEF RecordSaving, Record, cleanupSteps, disk, memory, TypeInv, MemoryType, Early, Start,
       Ends, Middle
<1>15. CASE SaveDetaches
  BY <1>15, Moves DEF SaveDetaches, memory, TypeInv, MemoryType, Early, Start, Ends, Middle
<1>16. CASE SaveInstalls
  BY <1>16, Moves DEF SaveInstalls, memory, TypeInv, MemoryType, Early, Start, Ends, Middle
<1>17. CASE Saved
  BY <1>17, Moves DEF Saved, Cleanup, Record, cleanupSteps, disk, memory, TypeInv, MemoryType, Early, Start,
       Ends, Middle
<1>18. CASE CheckFails
  BY <1>18, Moves DEF CheckFails, disk, memory, TypeInv, MemoryType, Early, Start, Ends, Middle
<1>19. CASE InstallRecord
  BY <1>19, Moves DEF InstallRecord, disk, memory, TypeInv, MemoryType, Early, Start, Ends, Middle
<1>20. CASE Finish
  BY <1>20, Moves DEF Finish, disk, memory, TypeInv, MemoryType, Early, Start, Ends, Middle
<1>21. CASE SetNewAside
  BY <1>21, Moves DEF SetNewAside, memory, TypeInv, MemoryType, Early, Start, Ends, Middle
<1>22. CASE RecordForgetting
  BY <1>22, Moves DEF RecordForgetting, Cleanup, Record, disk, memory, TypeInv, MemoryType, Early, Start,
       Ends, Middle
<1>23. CASE ForgetName
  BY <1>23, Moves DEF ForgetName, memory, TypeInv, MemoryType, Early, Start, Ends, Middle
<1>24. CASE RestoreNew
  BY <1>24, Moves DEF RestoreNew, memory, TypeInv, MemoryType, Early, Start, Ends, Middle
<1>25. CASE RecordRestored
  BY <1>25, Moves DEF RecordRestored, Cleanup, Record, forgetLeft, disk, memory, TypeInv, MemoryType, Early,
       Start, Ends, Middle
<1>26. CASE RemoveOld
  BY <1>26, Moves DEF RemoveOld, memory, TypeInv, MemoryType, Early, Start, Ends, Middle
<1>27. CASE Deregister
  BY <1>27, Moves DEF Deregister, memory, TypeInv, MemoryType, Early, Start, Ends, Middle
<1>28. CASE RecordStranded
  BY <1>28, Moves DEF RecordStranded, Cleanup, Record, forgetLeft, stranded, disk, memory, TypeInv,
       MemoryType, Early, Start, Ends, Middle
<1>29. CASE End
  BY <1>29, Moves DEF End, stranded, disk, memory, TypeInv, MemoryType, Early, Start, Ends, Middle
<1>30. CASE UndoMark
  BY <1>30, Moves DEF UndoMark, MarkRestored, Undoing, Undone, memory, TypeInv, MemoryType, Early, Start, Ends, Middle
<1>31. CASE UndoNothingMade
  BY <1>31, Moves DEF UndoNothingMade, Undoing, Undone, disk, memory, TypeInv, MemoryType, Early, Start, Ends,
       Middle
<1>32. CASE UndoNew
  BY <1>32, Moves DEF UndoNew, Undoing, Undone, memory, TypeInv, MemoryType, Early, Start, Ends, Middle
<1>33. CASE UndoAside
  BY <1>33, Moves DEF UndoAside, Undoing, Undone, memory, TypeInv, MemoryType, Early, Start, Ends, Middle
<1>34. CASE UndoFails
  BY <1>34, Moves DEF UndoFails, disk, memory, TypeInv, MemoryType, Early, Start, Ends, Middle
<1>35. CASE Stop
  BY <1>35, Moves DEF Stop, Cleanup, Record, disk, memory, TypeInv, MemoryType, Early, Start, Ends, Middle
<1>36. CASE RolledBack
  BY <1>36, Moves DEF RolledBack, disk, memory, TypeInv, MemoryType, Early, Start, Ends, Middle
<1>37. ASSUME NEW e \in Entries, UndoCarryNothing(e) PROVE MemoryType'
  BY <1>37, Moves DEF UndoCarryNothing, Undoing, Undone, disk, memory, TypeInv, MemoryType, Early, Start,
       Ends, Middle
<1>38. ASSUME NEW e \in Entries, UndoCarryLooks(e) PROVE MemoryType'
  BY <1>38, Moves DEF UndoCarryLooks, Undoing, disk, memory, TypeInv, MemoryType, Look, Early, Start, Ends,
       Middle
<1>39. ASSUME NEW e \in Entries, UndoCarryRenames(e) PROVE MemoryType'
  BY <1>39, Moves DEF UndoCarryRenames, Undoing, Undone, memory, TypeInv, MemoryType, Early, Start, Ends, Middle
<1>40. ASSUME NEW e \in Entries, UndoCarryKeeps(e) PROVE MemoryType'
  BY <1>40, Moves DEF UndoCarryKeeps, Undoing, Undone, memory, TypeInv, MemoryType, Early, Start, Ends, Middle
<1>41. CASE Kill
  BY <1>41, Moves DEF Kill, Over, disk, memory, TypeInv, MemoryType, Early, Start, Ends, Middle
<1>42. ASSUME NEW place \in {"slot", "aside"}, NEW item \in Items, Write(place, item) PROVE MemoryType'
  <2>1. UNCHANGED <<added, forgotten, listed, moved, looked>>
    BY <1>42, WriteDoes DEF TypeInv, memory
  <2> QED BY <1>42, <2>1, Moves DEF TypeInv, MemoryType
<1>43. CASE ByPerson
  BY <1>43, Moves DEF TypeInv, MemoryType, Ends, Early, Start, memory
<1> QED BY <1>1, <1>2, <1>3, <1>4, <1>5, <1>6, <1>7, <1>8, <1>9, <1>10, <1>11, <1>12, <1>13, <1>14, <1>15,
        <1>16, <1>17, <1>18, <1>19, <1>20, <1>21, <1>22, <1>23, <1>24, <1>25, <1>26, <1>27, <1>28, <1>29,
        <1>30, <1>31, <1>32, <1>33, <1>34, <1>35, <1>36, <1>37, <1>38, <1>39, <1>40, <1>41, <1>42,
        <1>43 DEF SlotStep, Migrates, CleansUp, RollsBack, Writes

(* The person takes the steps one after the other.                           *)
LEMMA HandTyped ==
  ASSUME TypeInv, ByPerson
  PROVE  /\ hand' \in [state : {"away", "following", "finished", "stuck"}, left : Seq(AllSteps), misled : BOOLEAN]
         /\ marker' \in Recs /\ marker' \in {marker, NoRecord}
<1>1. CASE HandBegins
  <2>1. /\ hand'.state = "following" /\ hand'.misled = Stale /\ marker' = marker
        /\ hand' = [state |-> "following", misled |-> Stale, left |-> hand'.left]
        /\ hand'.left = marker.cleanup \/ hand'.left = marker.steps
    BY <1>1 DEF HandBegins
  <2>2. hand'.left \in Seq(AllSteps) /\ Stale \in BOOLEAN
    BY <2>1, StepsAre DEF TypeInv, StepType, Recs, Stale
  <2> QED BY <2>1, <2>2 DEF TypeInv, StepType
<1>2. ASSUME NEW step, ByHand(step), Next1 \/ Stuck, UNCHANGED marker
      PROVE  /\ hand' \in [state : {"away", "following", "finished", "stuck"}, left : Seq(AllSteps), misled : BOOLEAN]
             /\ marker' \in Recs /\ marker' = marker
  <2>1. Tail(hand.left) \in Seq(AllSteps)
    BY <1>2, SeqPops DEF ByHand, TypeInv, StepType
  <2> QED BY <1>2, <2>1 DEF Next1, Stuck, TypeInv, StepType
<1>3. CASE HandStep
  <2>1. \E step : ByHand(step) /\ (Next1 \/ Stuck)
    BY <1>3, HandCarriesDoes DEF HandStep, HandMovesBack, HandRestoresMark, HandRemovesNew, HandLooks,
         HandMovesNewBack, HandForgets, HandRemovesAside
  <2> QED BY <1>2, <1>3, <2>1 DEF HandStep
<1>4. CASE HandFinishes
  BY <1>4 DEF HandFinishes, TypeInv, StepType, NoRecord, Recs, Phases
<1> QED BY <1>1, <1>3, <1>4 DEF ByPerson

LEMMA StepTyped ==
  ASSUME TypeInv, SlotStep
  PROVE  StepType'
<1>1. CASE Refuse
  BY <1>1 DEF Refuse, disk, memory, TypeInv, StepType
<1>2. CASE Prepare
  <2>1. <<RestoreMark>> \in Seq(UndoSteps)
    BY StepsAre
  <2> QED BY <1>2, <2>1 DEF Prepare, TypeInv, StepType
<1>3. CASE BeginMarker
  <2>1. NoRecord \in Recs
    BY DEF NoRecord, Recs, Phases
  <2>2. marker' \in {marker, NoRecord} /\ UNCHANGED <<undo, hand>>
    BY <1>3 DEF BeginMarker, Record, memory
  <2> QED BY <2>1, <2>2 DEF TypeInv, StepType
<1>4. CASE SetAside
  BY <1>4 DEF SetAside, memory, TypeInv, StepType
<1>5. CASE PushAside
  <2>1. <<MoveBack>> \in Seq(UndoSteps)
    BY StepsAre
  <2>2. Push(<<MoveBack>>, "repoint") /\ UNCHANGED hand
    BY <1>5 DEF PushAside
  <2>3. undo' \in Seq(UndoSteps) /\ marker' \in Recs
    BY <2>1, <2>2, PushTyped DEF Nexts
  <2> QED BY <2>2, <2>3 DEF TypeInv, StepType
<1>6. CASE Repoint
  BY <1>6 DEF Repoint, memory, TypeInv, StepType
<1>7. CASE Check
  <2>1. <<RemoveNew>> \in Seq(UndoSteps)
    BY StepsAre
  <2>2. Push(<<RemoveNew>>, "add") /\ UNCHANGED hand
    BY <1>7 DEF Check
  <2>3. undo' \in Seq(UndoSteps) /\ marker' \in Recs
    BY <2>1, <2>2, PushTyped DEF Nexts
  <2> QED BY <2>2, <2>3 DEF TypeInv, StepType
<1>8. CASE AddBegins
  BY <1>8 DEF AddBegins, memory, TypeInv, StepType
<1>9. CASE AddEnds
  BY <1>9 DEF AddEnds, TypeInv, StepType
<1>10. CASE AddFails
  BY <1>10 DEF AddFails, memory, TypeInv, StepType
<1>11. CASE PushCarry
  <2>1. CASE listed = {}
    BY <1>11, <2>1 DEF PushCarry, TypeInv, StepType
  <2>2. CASE listed # {}
    <3>1. SetToSeq({CarryBack(e) : e \in listed}) \in Seq(UndoSteps)
      BY CarriesAsSeq DEF TypeInv, MemoryType
    <3>2. Push(SetToSeq({CarryBack(e) : e \in listed}), "carry") /\ UNCHANGED hand
      BY <1>11, <2>2 DEF PushCarry
    <3>3. undo' \in Seq(UndoSteps) /\ marker' \in Recs
      BY <3>1, <3>2, PushTyped DEF Nexts
    <3> QED BY <3>2, <3>3 DEF TypeInv, StepType
  <2> QED BY <2>1, <2>2
<1>12. CASE CarryLooks
  BY <1>12 DEF CarryLooks, disk, TypeInv, StepType
<1>13. CASE CarryRenames
  BY <1>13 DEF CarryRenames, TypeInv, StepType
<1>14. CASE RecordSaving
  <2>1. NoRecord \in Recs
    BY DEF NoRecord, Recs, Phases
  <2>2. marker' \in {marker, NoRecord} /\ UNCHANGED <<undo, hand>>
    BY <1>14 DEF RecordSaving, Record, memory
  <2> QED BY <2>1, <2>2 DEF TypeInv, StepType
<1>15. CASE SaveDetaches
  BY <1>15 DEF SaveDetaches, memory, TypeInv, StepType
<1>16. CASE SaveInstalls
  BY <1>16 DEF SaveInstalls, memory, TypeInv, StepType
<1>17. CASE Saved
  <2>1. NoRecord \in Recs
    BY DEF NoRecord, Recs, Phases
  <2>2. marker' \in {marker, NoRecord} /\ UNCHANGED <<undo, hand>>
    BY <1>17 DEF Saved, Record, Cleanup, memory
  <2> QED BY <2>1, <2>2 DEF TypeInv, StepType
<1>18. CASE CheckFails
  BY <1>18 DEF CheckFails, disk, TypeInv, StepType
<1>19. CASE InstallRecord
  BY <1>19 DEF InstallRecord, disk, memory, TypeInv, StepType, PlaceType
<1>20. CASE Finish
  BY <1>20 DEF Finish, disk, memory, TypeInv, StepType
<1>21. CASE SetNewAside
  BY <1>21 DEF SetNewAside, memory, TypeInv, StepType
<1>22. CASE RecordForgetting
  <2>1. NoRecord \in Recs
    BY DEF NoRecord, Recs, Phases
  <2>2. marker' \in {marker, NoRecord} /\ UNCHANGED <<undo, hand>>
    BY <1>22 DEF RecordForgetting, Record, Cleanup, memory
  <2> QED BY <2>1, <2>2 DEF TypeInv, StepType
<1>23. CASE ForgetName
  BY <1>23 DEF ForgetName, TypeInv, StepType
<1>24. CASE RestoreNew
  BY <1>24 DEF RestoreNew, memory, TypeInv, StepType
<1>25. CASE RecordRestored
  <2>1. NoRecord \in Recs
    BY DEF NoRecord, Recs, Phases
  <2>2. marker' \in {marker, NoRecord} /\ UNCHANGED <<undo, hand>>
    BY <1>25 DEF RecordRestored, Record, Cleanup, memory
  <2> QED BY <2>1, <2>2 DEF TypeInv, StepType
<1>26. CASE RemoveOld
  BY <1>26 DEF RemoveOld, memory, TypeInv, StepType
<1>27. CASE Deregister
  BY <1>27 DEF Deregister, memory, TypeInv, StepType
<1>28. CASE RecordStranded
  <2>1. NoRecord \in Recs
    BY DEF NoRecord, Recs, Phases
  <2>2. marker' \in {marker, NoRecord} /\ UNCHANGED <<undo, hand>>
    BY <1>28 DEF RecordStranded, Record, Cleanup, memory
  <2> QED BY <2>1, <2>2 DEF TypeInv, StepType
<1>29. CASE End
  <2>1. NoRecord \in Recs
    BY DEF NoRecord, Recs, Phases
  <2>2. marker' \in {marker, NoRecord} /\ UNCHANGED <<undo, hand>>
    BY <1>29 DEF End, memory
  <2> QED BY <2>1, <2>2 DEF TypeInv, StepType
<1>30. CASE UndoMark
  <2>1. undo # <<>> => Front(undo) \in Seq(UndoSteps)
    BY SeqFront DEF TypeInv, StepType
  <2>2. undo' = undo \/ (undo # <<>> /\ undo' = Front(undo))
    BY <1>30 DEF UndoMark, MarkRestored, Undoing, Undone
  <2>3. UNCHANGED <<marker, hand>>
    BY <1>30 DEF UndoMark
  <2> QED BY <2>1, <2>2, <2>3 DEF TypeInv, StepType
<1>31. CASE UndoNothingMade
  <2>1. undo # <<>> => Front(undo) \in Seq(UndoSteps)
    BY SeqFront DEF TypeInv, StepType
  <2>2. undo' = undo \/ (undo # <<>> /\ undo' = Front(undo))
    BY <1>31 DEF UndoNothingMade, Undoing, Undone
  <2>3. UNCHANGED <<marker, hand>>
    BY <1>31 DEF UndoNothingMade
  <2> QED BY <2>1, <2>2, <2>3 DEF TypeInv, StepType
<1>32. CASE UndoNew
  <2>1. undo # <<>> => Front(undo) \in Seq(UndoSteps)
    BY SeqFront DEF TypeInv, StepType
  <2>2. undo' = undo \/ (undo # <<>> /\ undo' = Front(undo))
    BY <1>32 DEF UndoNew, Undoing, Undone
  <2>3. UNCHANGED <<marker, hand>>
    BY <1>32 DEF UndoNew
  <2> QED BY <2>1, <2>2, <2>3 DEF TypeInv, StepType
<1>33. CASE UndoAside
  <2>1. undo # <<>> => Front(undo) \in Seq(UndoSteps)
    BY SeqFront DEF TypeInv, StepType
  <2>2. undo' = undo \/ (undo # <<>> /\ undo' = Front(undo))
    BY <1>33 DEF UndoAside, Undoing, Undone
  <2>3. UNCHANGED <<marker, hand>>
    BY <1>33 DEF UndoAside
  <2> QED BY <2>1, <2>2, <2>3 DEF TypeInv, StepType
<1>34. CASE UndoFails
  <2>1. undo # <<>> /\ Front(undo) \in Seq(UndoSteps)
    BY <1>34, SeqFront DEF UndoFails, TypeInv, StepType
  <2>2. Append(Front(undo), LookAt) \in Seq(UndoSteps)
    BY <2>1, StepsAre, AppendProperties
  <2>3. (undo' = undo \/ undo' = Append(Front(undo), LookAt)) /\ UNCHANGED <<marker, hand>>
    BY <1>34 DEF UndoFails
  <2> QED BY <2>1, <2>2, <2>3 DEF TypeInv, StepType
<1>35. CASE Stop
  <2>1. NoRecord \in Recs
    BY DEF NoRecord, Recs, Phases
  <2>2. marker' \in {marker, NoRecord} /\ UNCHANGED <<undo, hand>>
    BY <1>35 DEF Stop, Record, Cleanup, memory
  <2> QED BY <2>1, <2>2 DEF TypeInv, StepType
<1>36. CASE RolledBack
  <2>1. NoRecord \in Recs
    BY DEF NoRecord, Recs, Phases
  <2>2. marker' \in {marker, NoRecord} /\ UNCHANGED <<undo, hand>>
    BY <1>36 DEF RolledBack, memory
  <2> QED BY <2>1, <2>2 DEF TypeInv, StepType
<1>37. ASSUME NEW e \in Entries, UndoCarryNothing(e) PROVE StepType'
  <2>1. undo # <<>> => Front(undo) \in Seq(UndoSteps)
    BY SeqFront DEF TypeInv, StepType
  <2>2. undo' = undo \/ (undo # <<>> /\ undo' = Front(undo))
    BY <1>37 DEF UndoCarryNothing, Undoing, Undone
  <2>3. UNCHANGED <<marker, hand>>
    BY <1>37 DEF UndoCarryNothing
  <2> QED BY <2>1, <2>2, <2>3 DEF TypeInv, StepType
<1>38. ASSUME NEW e \in Entries, UndoCarryLooks(e) PROVE StepType'
  BY <1>38 DEF UndoCarryLooks, Undoing, disk, TypeInv, StepType
<1>39. ASSUME NEW e \in Entries, UndoCarryRenames(e) PROVE StepType'
  <2>1. undo # <<>> => Front(undo) \in Seq(UndoSteps)
    BY SeqFront DEF TypeInv, StepType
  <2>2. undo' = undo \/ (undo # <<>> /\ undo' = Front(undo))
    BY <1>39 DEF UndoCarryRenames, Undoing, Undone
  <2>3. UNCHANGED <<marker, hand>>
    BY <1>39 DEF UndoCarryRenames
  <2> QED BY <2>1, <2>2, <2>3 DEF TypeInv, StepType
<1>40. ASSUME NEW e \in Entries, UndoCarryKeeps(e) PROVE StepType'
  <2>1. undo # <<>> => Front(undo) \in Seq(UndoSteps)
    BY SeqFront DEF TypeInv, StepType
  <2>2. undo' = undo \/ (undo # <<>> /\ undo' = Front(undo))
    BY <1>40 DEF UndoCarryKeeps, Undoing, Undone
  <2>3. UNCHANGED <<marker, hand>>
    BY <1>40 DEF UndoCarryKeeps
  <2> QED BY <2>1, <2>2, <2>3 DEF TypeInv, StepType
<1>41. CASE Kill
  BY <1>41 DEF Kill, Over, disk, memory, TypeInv, StepType
<1>42. ASSUME NEW place \in {"slot", "aside"}, NEW item \in Items, Write(place, item) PROVE StepType'
  <2>1. UNCHANGED <<undo, marker, hand>>
    BY <1>42, WriteDoes DEF TypeInv, memory
  <2> QED BY <2>1 DEF TypeInv, StepType
<1>43. CASE ByPerson
  BY <1>43, HandTyped, Moves DEF TypeInv, StepType, memory
<1> QED BY <1>1, <1>2, <1>3, <1>4, <1>5, <1>6, <1>7, <1>8, <1>9, <1>10, <1>11, <1>12, <1>13, <1>14, <1>15,
        <1>16, <1>17, <1>18, <1>19, <1>20, <1>21, <1>22, <1>23, <1>24, <1>25, <1>26, <1>27, <1>28, <1>29,
        <1>30, <1>31, <1>32, <1>33, <1>34, <1>35, <1>36, <1>37, <1>38, <1>39, <1>40, <1>41, <1>42,
        <1>43 DEF SlotStep, Migrates, CleansUp, RollsBack, Writes

LEMMA TypeStep ==
  ASSUME TypeInv, SlotStep
  PROVE  TypeInv'
  BY PlaceTyped, DiskTyped, MemoryTyped, StepTyped DEF TypeInv

LEMMA TypeStutters ==
  ASSUME TypeInv, Elsewhere
  PROVE  TypeInv'
<1>1. /\ UNCHANGED <<pc, to, at, files, reg, jjName, manifest, marker, pending, undo, listed, added, moved,
                     looked, forgotten, written, hand>>
      /\ bookmark' \in {bookmark, "moved"} /\ UNCHANGED Place
  BY ElsewhereKeeps
<1>2. PlaceType' /\ DiskType'
  BY <1>1 DEF TypeInv, PlaceType, DiskType, Marks
<1>3. MemoryType'
  BY <1>1 DEF TypeInv, MemoryType
<1>4. StepType'
  BY <1>1 DEF TypeInv, StepType
<1> QED BY <1>2, <1>3, <1>4 DEF TypeInv

LEMMA TypeStarts ==
  ASSUME Init
  PROVE  TypeInv
<1>1. PICK held \in SUBSET Entries :
        files = [old |-> {<<e, 0>> : e \in held}, new |-> {}, kept |-> {}, stray |-> {}, taken |-> {}]
  BY DEF Init
<1>2. files.old \subseteq Items \X (0..MaxWrites)
  BY <1>1, EntriesAssumption DEF Items
<1>3. files \in [Checkouts -> SUBSET (Items \X (0..MaxWrites))]
  BY <1>1, <1>2 DEF Checkouts
<1>4. DiskType
  BY <1>2, <1>3, ModesAre DEF Init, DiskType, Marks, from
<1>5. NoRecord \in Recs
  BY DEF NoRecord, Recs, Phases
<1>6. PlaceType /\ StepType
  BY <1>5 DEF Init, PlaceType, StepType
<1>7. MemoryType
  BY DEF Init, MemoryType
<1> QED BY <1>4, <1>6, <1>7 DEF TypeInv

-----------------------------------------------------------------------------
(* What the steps of a record and the undos are made of.                     *)

LEMMA NoStepRecorded ==
  NoRecord \in Recs /\ NoRecord.steps = <<>> /\ NoRecord.cleanup = <<>> /\ NoRecord.phase = "none" /\ ToSet(<<>>) = {}
  BY SeqOfNone DEF NoRecord, Recs, Phases

LEMMA OneUndone ==
  ASSUME TypeInv, NEW step, Undoing(step), Undone
  PROVE  /\ undo # <<>> /\ Last(undo) = step /\ undo' = Front(undo) /\ step \in ToSet(undo)
         /\ ToSet(undo') \subseteq ToSet(undo)
         /\ \A x \in ToSet(undo) : x = step \/ x \in ToSet(undo')
<1>1. undo # <<>> /\ Last(undo) = step /\ undo' = Front(undo)
  BY DEF Undoing, Undone
<1>2. undo \in Seq(UndoSteps)
  BY DEF TypeInv, StepType
<1> QED BY <1>1, <1>2, SeqFront

LEMMA OneTaken ==
  ASSUME TypeInv, NEW step, ByHand(step)
  PROVE  /\ hand.state = "following" /\ hand.left # <<>> /\ Head(hand.left) = step /\ step \in ToSet(hand.left)
         /\ ToSet(Tail(hand.left)) \subseteq ToSet(hand.left)
         /\ \A x \in ToSet(hand.left) : x = step \/ x \in ToSet(Tail(hand.left))
<1>1. hand.state = "following" /\ hand.left # <<>> /\ Head(hand.left) = step
  BY DEF ByHand
<1>2. hand.left \in Seq(AllSteps)
  BY DEF TypeInv, StepType
<1> QED BY <1>1, <1>2, SeqPops

LEMMA PushedSteps ==
  ASSUME TypeInv, NEW undos \in Seq(UndoSteps), NEW next, Push(undos, next)
  PROVE  /\ undo' = undo \o undos /\ ToSet(undo') = ToSet(undo) \cup ToSet(undos)
         /\ \/ /\ pc' = "recording" /\ marker' = NoRecord /\ pending'.next = next
               /\ pending'.record = [phase |-> "migrating", steps |-> Reverse(undo'), cleanup |-> <<>>]
               /\ ToSet(pending'.record.steps) = ToSet(undo')
            \/ pc' = "undo" /\ UNCHANGED <<marker, pending>>
<1>1. undo' = undo \o undos /\ undo \in Seq(UndoSteps)
  BY DEF Push, TypeInv, StepType
<1>2. undo' \in Seq(UndoSteps) /\ ToSet(undo') = ToSet(undo) \cup ToSet(undos)
  BY <1>1, SeqJoins
<1>3. ToSet(Reverse(undo')) = ToSet(undo')
  BY ONLY <1>2, SeqReversed
<1>4. CASE Record("migrating", undoSteps(undo'), <<>>, next)
  BY <1>1, <1>2, <1>3, <1>4 DEF Record, undoSteps
<1> QED BY <1>1, <1>2, <1>4 DEF Push

LEMMA Records ==
  ASSUME NEW phase, NEW steps, NEW cleanup, NEW next, Record(phase, steps, cleanup, next)
  PROVE  /\ pc' = "recording" /\ marker' = NoRecord /\ pending'.next = next
         /\ pending'.record = [phase |-> phase, steps |-> steps, cleanup |-> cleanup]
         /\ pending'.record.steps = steps /\ pending'.record.phase = phase /\ pending'.record.cleanup = cleanup
<1>1. /\ pc' = "recording" /\ marker' = NoRecord
      /\ pending' = [record |-> [phase |-> phase, steps |-> steps, cleanup |-> cleanup], next |-> next]
  BY DEF Record
<1>2. pending'.record = [phase |-> phase, steps |-> steps, cleanup |-> cleanup] /\ pending'.next = next
  BY <1>1
<1> QED BY <1>1, <1>2

LEMMA CleanupRecords ==
  ASSUME NEW phase, NEW steps, NEW next, Cleanup(phase, steps, next)
  PROVE  \/ /\ pc' = "recording" /\ marker' = NoRecord /\ pending'.next = next
            /\ pending'.record = [phase |-> phase, steps |-> steps, cleanup |-> <<>>]
            /\ pending'.record.steps = steps /\ pending'.record.phase = phase /\ pending'.record.cleanup = <<>>
         \/ pc' = next /\ UNCHANGED <<marker, pending>>
  BY Records DEF Cleanup

(* What the clean-up records.                                                *)
LEMMA CleanupSteps ==
  /\ ToSet(cleanupSteps) \subseteq CleanSteps
  /\ ToSet(<<MoveNewBack, ForgetIfListed, RemoveAside>>) \subseteq CleanSteps
  /\ ToSet(forgetLeft(Forget) \o <<RemoveAside>>) \subseteq CleanSteps
  /\ ToSet(<<MoveNewBack>> \o forgetLeft(Forget) \o (IF at.aside = "old" THEN <<RemoveAside>> ELSE <<>>)) \subseteq CleanSteps
<1>1. \A s \in Seq(CleanSteps) : ToSet(s) \subseteq CleanSteps
  BY ElementOfSeq, LenProperties DEF ToSet
<1>2. cleanupSteps \in Seq(CleanSteps) /\ <<MoveNewBack, ForgetIfListed, RemoveAside>> \in Seq(CleanSteps)
  BY StepsTyped, StepsAre
<1>3. forgetLeft(Forget) \o <<RemoveAside>> \in Seq(CleanSteps)
  BY StepsAre DEF forgetLeft
<1>4. <<MoveNewBack>> \o forgetLeft(Forget) \o (IF at.aside = "old" THEN <<RemoveAside>> ELSE <<>>) \in Seq(CleanSteps)
  BY StepsAre DEF forgetLeft
<1> QED BY <1>1, <1>2, <1>3, <1>4

-----------------------------------------------------------------------------
(* Copies.                                                                   *)

LEMMA CopyPairs ==
  ASSUME DiskType, NEW c \in Checkouts, NEW x \in files[c]
  PROVE  x = <<x[1], x[2]>> /\ x[1] \in Items /\ x[2] \in 0..MaxWrites /\ Has(c, x[1])
<1>1. x \in Items \X (0..MaxWrites)
  BY DEF DiskType
<1>2. x = <<x[1], x[2]>> /\ x[1] \in Items /\ x[2] \in 0..MaxWrites
  BY <1>1
<1> QED BY <1>2 DEF Has

LEMMA CopiesMove ==
  ASSUME CopyInv, UNCHANGED <<written, listed>>, \A c \in Checkouts : files'[c] \subseteq written,
         \A x \in written : (x[1] \in listed \/ x[2] = 0) /\ Somewhere(x) => \E c \in Checkouts : x \in files'[c]
  PROVE  CopyInv'
  BY DEF CopyInv, Somewhere

LEMMA RenamedStay ==
  ASSUME TypeInv, CopyInv, NEW e \in Entries, NEW s \in Checkouts, NEW t \in Checkouts, s # t,
         Rename(e, s, t), ~Has(t, e)
  PROVE  /\ \A c \in Checkouts : files'[c] \subseteq written
         /\ \A x : Somewhere(x) => \E c \in Checkouts : x \in files'[c]
<1>1. /\ files'[s] = {c \in files[s] : c[1] # e}
      /\ files'[t] = files[t] \cup {c \in files[s] : c[1] = e}
      /\ \A d \in Checkouts : d # s /\ d # t => files'[d] = files[d]
  BY RenameDoes DEF TypeInv
<1>2. \A c \in Checkouts : files'[c] \subseteq written
  BY <1>1 DEF CopyInv
<1>3. ASSUME NEW x, NEW c \in Checkouts, x \in files[c] PROVE \E d \in Checkouts : x \in files'[d]
  BY <1>1, <1>3
<1> QED BY <1>2, <1>3 DEF Somewhere

LEMMA UnlistedGo ==
  ASSUME TypeInv, CopyInv, FoundInv, NEW c \in Checkouts, ~HasListed(c), ~NewStays,
         \A d \in Checkouts : d # c => files[d] \subseteq files'[d]
  PROVE  \A x \in written : (x[1] \in listed \/ x[2] = 0) /\ Somewhere(x) => \E d \in Checkouts : x \in files'[d]
<1>1. Found
  BY DEF FoundInv
<1> SUFFICES ASSUME NEW x \in written, x[1] \in listed \/ x[2] = 0, NEW d \in Checkouts, x \in files[d]
             PROVE  \E b \in Checkouts : x \in files'[b]
  BY DEF Somewhere
<1>2. x[1] \in listed
  BY <1>1 DEF Found
<1>3. Has(d, x[1])
  BY CopyPairs DEF TypeInv
<1>4. d # c
  BY <1>2, <1>3 DEF HasListed
<1> QED BY <1>4

LEMMA CopyStep ==
  ASSUME TypeInv, Windows = FALSE, EntryInv, SlotStep
  PROVE  CopyInv'
<1>1. CASE Refuse
  <2>1. UNCHANGED <<files, written, listed>>
    BY <1>1 DEF Refuse, disk, memory
  <2> QED BY <2>1 DEF EntryInv, CopyInv, Somewhere
<1>2. CASE Prepare
  <2>1. UNCHANGED <<files, written, listed>>
    BY <1>2 DEF Prepare, disk, memory
  <2> QED BY <2>1 DEF EntryInv, CopyInv, Somewhere
<1>3. CASE BeginMarker
  <2>1. UNCHANGED <<files, written, listed>>
    BY <1>3 DEF BeginMarker, disk, memory
  <2> QED BY <2>1 DEF EntryInv, CopyInv, Somewhere
<1>4. CASE SetAside
  <2>1. UNCHANGED <<files, written, listed>>
    BY <1>4 DEF SetAside, disk, memory
  <2> QED BY <2>1 DEF EntryInv, CopyInv, Somewhere
<1>5. CASE PushAside
  <2>1. UNCHANGED <<files, written, listed>>
    BY <1>5 DEF PushAside, disk, memory
  <2> QED BY <2>1 DEF EntryInv, CopyInv, Somewhere
<1>6. CASE Repoint
  <2>1. UNCHANGED <<files, written, listed>>
    BY <1>6 DEF Repoint, disk, memory
  <2> QED BY <2>1 DEF EntryInv, CopyInv, Somewhere
<1>7. CASE Check
  <2>1. listed = {} /\ \A copy \in written : Somewhere(copy)
    BY <1>7, Moves DEF EntryInv, FreshInv, Early
  <2>2. UNCHANGED <<files, written>>
    BY <1>7 DEF Check, disk
  <2> QED BY <2>1, <2>2 DEF EntryInv, CopyInv, Somewhere
<1>8. CASE AddBegins
  <2>1. UNCHANGED <<files, written, listed>>
    BY <1>8 DEF AddBegins, disk, memory
  <2> QED BY <2>1 DEF EntryInv, CopyInv, Somewhere
<1>9. CASE AddEnds
  <2>1. UNCHANGED <<files, written, listed>>
    BY <1>9 DEF AddEnds, disk, memory
  <2> QED BY <2>1 DEF EntryInv, CopyInv, Somewhere
<1>10. CASE AddFails
  <2>1. files.new = {}
    BY <1>10, Moves DEF EntryInv, FreshInv
  <2>2. \A c \in Checkouts : files'[c] = files[c]
    BY <1>10, <2>1 DEF AddFails, TypeInv, DiskType, Checkouts
  <2>3. UNCHANGED <<written, listed>>
    BY <1>10 DEF AddFails, memory
  <2> QED BY <2>2, <2>3 DEF EntryInv, CopyInv, Somewhere
<1>11. CASE PushCarry
  <2>1. UNCHANGED <<files, written, listed>>
    BY <1>11 DEF PushCarry, disk, memory
  <2> QED BY <2>1 DEF EntryInv, CopyInv, Somewhere
<1>12. CASE CarryLooks
  <2>1. UNCHANGED <<files, written, listed>>
    BY <1>12 DEF CarryLooks, disk, memory
  <2> QED BY <2>1 DEF EntryInv, CopyInv, Somewhere
<1>13. CASE CarryRenames
  <2>1. looked \in Entries /\ ~Has("new", looked) /\ Rename(looked, "old", "new") /\ UNCHANGED <<written, listed>>
    BY <1>13, Moves DEF CarryRenames, EntryInv, LookInv, TypeInv, MemoryType
  <2>2. /\ \A c \in Checkouts : files'[c] \subseteq written
        /\ \A x : Somewhere(x) => \E c \in Checkouts : x \in files'[c]
    BY <2>1, RenamedStay DEF EntryInv, Checkouts
  <2> QED BY <2>1, <2>2, CopiesMove DEF EntryInv
<1>14. CASE RecordSaving
  <2>1. UNCHANGED <<files, written, listed>>
    BY <1>14 DEF RecordSaving, disk, memory
  <2> QED BY <2>1 DEF EntryInv, CopyInv, Somewhere
<1>15. CASE SaveDetaches
  <2>1. UNCHANGED <<files, written, listed>>
    BY <1>15 DEF SaveDetaches, disk, memory
  <2> QED BY <2>1 DEF EntryInv, CopyInv, Somewhere
<1>16. CASE SaveInstalls
  <2>1. UNCHANGED <<files, written, listed>>
    BY <1>16 DEF SaveInstalls, disk, memory
  <2> QED BY <2>1 DEF EntryInv, CopyInv, Somewhere
<1>17. CASE Saved
  <2>1. UNCHANGED <<files, written, listed>>
    BY <1>17 DEF Saved, disk, memory
  <2> QED BY <2>1 DEF EntryInv, CopyInv, Somewhere
<1>18. CASE CheckFails
  <2>1. UNCHANGED <<files, written, listed>>
    BY <1>18 DEF CheckFails, disk, memory
  <2> QED BY <2>1 DEF EntryInv, CopyInv, Somewhere
<1>19. CASE InstallRecord
  <2>1. UNCHANGED <<files, written, listed>>
    BY <1>19 DEF InstallRecord, disk, memory
  <2> QED BY <2>1 DEF EntryInv, CopyInv, Somewhere
<1>20. CASE Finish
  <2>1. UNCHANGED <<files, written, listed>>
    BY <1>20 DEF Finish, disk, memory
  <2> QED BY <2>1 DEF EntryInv, CopyInv, Somewhere
<1>21. CASE SetNewAside
  <2>1. UNCHANGED <<files, written, listed>>
    BY <1>21 DEF SetNewAside, disk, memory
  <2> QED BY <2>1 DEF EntryInv, CopyInv, Somewhere
<1>22. CASE RecordForgetting
  <2>1. UNCHANGED <<files, written, listed>>
    BY <1>22 DEF RecordForgetting, disk, memory
  <2> QED BY <2>1 DEF EntryInv, CopyInv, Somewhere
<1>23. CASE ForgetName
  <2>1. UNCHANGED <<files, written, listed>>
    BY <1>23 DEF ForgetName, disk, memory
  <2> QED BY <2>1 DEF EntryInv, CopyInv, Somewhere
<1>24. CASE RestoreNew
  <2>1. UNCHANGED <<files, written, listed>>
    BY <1>24 DEF RestoreNew, disk, memory
  <2> QED BY <2>1 DEF EntryInv, CopyInv, Somewhere
<1>25. CASE RecordRestored
  <2>1. UNCHANGED <<files, written, listed>>
    BY <1>25 DEF RecordRestored, disk, memory
  <2> QED BY <2>1 DEF EntryInv, CopyInv, Somewhere
<1>26. CASE RemoveOld
  <2>1. files.old = {}
    BY <1>26, Moves DEF EntryInv, FreshInv, Emptied
  <2>2. \A c \in Checkouts : files'[c] = files[c]
    BY <1>26, <2>1 DEF RemoveOld, TypeInv, DiskType, Checkouts
  <2>3. UNCHANGED <<written, listed>>
    BY <1>26 DEF RemoveOld, memory
  <2> QED BY <2>2, <2>3 DEF EntryInv, CopyInv, Somewhere
<1>27. CASE Deregister
  <2>1. UNCHANGED <<files, written, listed>>
    BY <1>27 DEF Deregister, disk, memory
  <2> QED BY <2>1 DEF EntryInv, CopyInv, Somewhere
<1>28. CASE RecordStranded
  <2>1. UNCHANGED <<files, written, listed>>
    BY <1>28 DEF RecordStranded, disk, memory
  <2> QED BY <2>1 DEF EntryInv, CopyInv, Somewhere
<1>29. CASE End
  <2>1. UNCHANGED <<files, written, listed>>
    BY <1>29 DEF End, disk, memory
  <2> QED BY <2>1 DEF EntryInv, CopyInv, Somewhere
<1>30. CASE UndoMark
  <2>1. UNCHANGED <<files, written, listed>>
    BY <1>30 DEF UndoMark, MarkRestored, disk, memory
  <2> QED BY <2>1 DEF EntryInv, CopyInv, Somewhere
<1>31. CASE UndoNothingMade
  <2>1. UNCHANGED <<files, written, listed>>
    BY <1>31 DEF UndoNothingMade, disk, memory
  <2> QED BY <2>1 DEF EntryInv, CopyInv, Somewhere
<1>32. CASE UndoNew
  <2>1. ~NewStays
    BY <1>32, SeqFront DEF UndoNew, Undoing, NewStays, TypeInv, StepType
  <2>2. /\ ~HasListed("new") /\ UNCHANGED <<written, listed>>
        /\ files' = [files EXCEPT !.new = {}]
    BY <1>32 DEF UndoNew
  <2>3. /\ \A d \in Checkouts : d # "new" => files[d] \subseteq files'[d]
        /\ \A d \in Checkouts : files'[d] \subseteq files[d]
    BY <2>2 DEF TypeInv, DiskType
  <2>4. \A x \in written : (x[1] \in listed \/ x[2] = 0) /\ Somewhere(x) => \E d \in Checkouts : x \in files'[d]
    BY <2>1, <2>2, <2>3, UnlistedGo DEF EntryInv, Checkouts
  <2>5. \A d \in Checkouts : files'[d] \subseteq written
    BY <2>3 DEF EntryInv, CopyInv
  <2> QED BY <2>2, <2>4, <2>5, CopiesMove DEF EntryInv
<1>33. CASE UndoAside
  <2>1. UNCHANGED <<files, written, listed>>
    BY <1>33 DEF UndoAside, disk, memory
  <2> QED BY <2>1 DEF EntryInv, CopyInv, Somewhere
<1>34. CASE UndoFails
  <2>1. UNCHANGED <<files, written, listed>>
    BY <1>34 DEF UndoFails, disk, memory
  <2> QED BY <2>1 DEF EntryInv, CopyInv, Somewhere
<1>35. CASE Stop
  <2>1. UNCHANGED <<files, written, listed>>
    BY <1>35 DEF Stop, disk, memory
  <2> QED BY <2>1 DEF EntryInv, CopyInv, Somewhere
<1>36. CASE RolledBack
  <2>1. UNCHANGED <<files, written, listed>>
    BY <1>36 DEF RolledBack, disk, memory
  <2> QED BY <2>1 DEF EntryInv, CopyInv, Somewhere
<1>37. ASSUME NEW e \in Entries, UndoCarryNothing(e) PROVE CopyInv'
  <2>1. UNCHANGED <<files, written, listed>>
    BY <1>37 DEF UndoCarryNothing, disk, memory
  <2> QED BY <2>1 DEF EntryInv, CopyInv, Somewhere
<1>38. ASSUME NEW e \in Entries, UndoCarryLooks(e) PROVE CopyInv'
  <2>1. UNCHANGED <<files, written, listed>>
    BY <1>38 DEF UndoCarryLooks, disk, memory
  <2> QED BY <2>1 DEF EntryInv, CopyInv, Somewhere
<1>39. ASSUME NEW e \in Entries, UndoCarryRenames(e) PROVE CopyInv'
  <2>0. looked # NoEntry
    BY <1>39, EntriesAssumption DEF UndoCarryRenames
  <2>1. e \in Entries /\ ~Has("old", e) /\ Rename(e, "new", "old") /\ UNCHANGED <<written, listed>>
    BY <1>39, <2>0, Moves DEF UndoCarryRenames, EntryInv, LookInv
  <2>2. /\ \A c \in Checkouts : files'[c] \subseteq written
        /\ \A x : Somewhere(x) => \E c \in Checkouts : x \in files'[c]
    BY <2>1, RenamedStay DEF EntryInv, Checkouts
  <2> QED BY <2>1, <2>2, CopiesMove DEF EntryInv
<1>40. ASSUME NEW e \in Entries, UndoCarryKeeps(e) PROVE CopyInv'
  <2>1. e \in Entries /\ ~Has("kept", e) /\ Rename(e, "new", "kept") /\ UNCHANGED <<written, listed>>
    BY <1>40 DEF UndoCarryKeeps
  <2>2. /\ \A c \in Checkouts : files'[c] \subseteq written
        /\ \A x : Somewhere(x) => \E c \in Checkouts : x \in files'[c]
    BY <2>1, RenamedStay DEF EntryInv, Checkouts
  <2> QED BY <2>1, <2>2, CopiesMove DEF EntryInv
<1>41. CASE Kill
  <2>1. UNCHANGED <<files, written, listed>>
    BY <1>41 DEF Kill, disk, memory
  <2> QED BY <2>1 DEF EntryInv, CopyInv, Somewhere
<1>42. ASSUME NEW place \in {"slot", "aside"}, NEW item \in Items, Write(place, item) PROVE CopyInv'
  <2>1. PICK c \in {"old", "new", "stray"}, n \in 1..MaxWrites :
           /\ files'[c] = files[c] \cup {<<item, n>>} /\ written' = written \cup {<<item, n>>}
           /\ \A d \in Checkouts : d # c => files'[d] = files[d]
           /\ UNCHANGED memory
    BY <1>42, WriteDoes DEF TypeInv
  <2>2. c \in Checkouts /\ n # 0 /\ <<item, n>>[2] = n
    BY EntriesAssumption DEF Checkouts
  <2>3. \A d \in Checkouts : files[d] \subseteq files'[d]
    BY <2>1
  <2>4. \A d \in Checkouts : files'[d] \subseteq written'
    BY <2>1 DEF EntryInv, CopyInv
  <2>5. \A copy \in written' : copy[2] = 0 => copy[1] \in Entries
    BY <2>1, <2>2 DEF EntryInv, CopyInv
  <2>6. ASSUME NEW x \in written', x[1] \in listed' \/ x[2] = 0 PROVE \E d \in Checkouts : x \in files'[d]
    <3>1. CASE x \in written
      BY <2>1, <2>3, <2>6, <3>1 DEF EntryInv, CopyInv, Somewhere, memory
    <3>2. CASE x = <<item, n>>
      BY <2>1, <2>2, <3>2
    <3> QED BY <2>1, <3>1, <3>2
  <2> QED BY <2>4, <2>5, <2>6 DEF CopyInv, Somewhere
<1>43. CASE HandBegins
  <2>1. UNCHANGED <<files, written, listed>>
    BY <1>43 DEF HandBegins, disk, memory
  <2> QED BY <2>1 DEF EntryInv, CopyInv, Somewhere
<1>44. CASE HandMovesBack /\ UNCHANGED <<pc, to, marker, pending, memory, written>>
  <2>1. UNCHANGED <<files, written, listed>>
    BY <1>44 DEF HandMovesBack, Stuck, disk, memory
  <2> QED BY <2>1 DEF EntryInv, CopyInv, Somewhere
<1>45. CASE HandRestoresMark /\ UNCHANGED <<pc, to, marker, pending, memory, written>>
  <2>1. UNCHANGED <<files, written, listed>>
    BY <1>45 DEF HandRestoresMark, MarkRestored, disk, memory
  <2> QED BY <2>1 DEF EntryInv, CopyInv, Somewhere
<1>46. CASE HandCarriesBack /\ UNCHANGED <<pc, to, marker, pending, memory, written>>
  <2>0. UNCHANGED <<written, listed>>
    BY <1>46 DEF memory
  <2>1. PICK e \in Entries :
           \/ UNCHANGED disk
           \/ \E t \in {"old", "kept"} : Rename(e, at.slot, t) /\ at.slot # "none" /\ Has(at.slot, e) /\ ~Has(t, e)
    BY <1>46, HandCarriesDoes DEF Stuck
  <2>2. CASE UNCHANGED disk
    BY <2>0, <2>2 DEF EntryInv, CopyInv, Somewhere, disk
  <2>3. ASSUME NEW t \in {"old", "kept"}, Rename(e, at.slot, t), at.slot # "none", Has(at.slot, e), ~Has(t, e)
        PROVE  CopyInv'
    <3>1. at.slot \in Checkouts /\ t \in Checkouts /\ at.slot # t
      BY <2>3 DEF TypeInv, DiskType, Checkouts
    <3>2. /\ \A c \in Checkouts : files'[c] \subseteq written
          /\ \A x : Somewhere(x) => \E c \in Checkouts : x \in files'[c]
      BY <2>3, <3>1, RenamedStay DEF EntryInv
    <3> QED BY <2>0, <3>2, CopiesMove DEF EntryInv
  <2> QED BY <2>1, <2>2, <2>3
<1>47. CASE HandRemovesNew /\ UNCHANGED <<pc, to, marker, pending, memory, written>>
  <2>0. UNCHANGED <<written, listed>>
    BY <1>47 DEF memory
  <2>1. ~NewStays
    BY <1>47, OneTaken DEF HandRemovesNew, NewStays
  <2>2. CASE UNCHANGED files
    BY <2>0, <2>2 DEF EntryInv, CopyInv, Somewhere
  <2>3. CASE ~UNCHANGED files
    <3>1. /\ at.slot # "none" /\ ~HasListed(at.slot)
          /\ files' = [files EXCEPT ![at.slot] = {}]
      BY <1>47, <2>3 DEF HandRemovesNew, Stuck, disk
    <3>2. at.slot \in Checkouts
      BY <3>1 DEF TypeInv, DiskType, Checkouts
    <3>3. /\ \A d \in Checkouts : d # at.slot => files[d] \subseteq files'[d]
          /\ \A d \in Checkouts : files'[d] \subseteq files[d]
      BY <3>1, <3>2 DEF TypeInv, DiskType
    <3>4. \A x \in written : (x[1] \in listed \/ x[2] = 0) /\ Somewhere(x) => \E d \in Checkouts : x \in files'[d]
      BY <2>1, <3>1, <3>2, <3>3, UnlistedGo DEF EntryInv
    <3>5. \A d \in Checkouts : files'[d] \subseteq written
      BY <3>3 DEF EntryInv, CopyInv
    <3> QED BY <2>0, <3>4, <3>5, CopiesMove DEF EntryInv
  <2> QED BY <2>2, <2>3
<1>48. CASE HandLooks /\ UNCHANGED <<pc, to, marker, pending, memory, written>>
  <2>0. UNCHANGED <<written, listed>>
    BY <1>48 DEF memory
  <2>1. CASE UNCHANGED files
    BY <2>0, <2>1 DEF EntryInv, CopyInv, Somewhere
  <2>2. CASE ~UNCHANGED files
    <3>1. files' = [files EXCEPT ![at.slot] = {}, !.taken = files["taken"] \cup files[at.slot]] /\ at.slot # "none"
      BY <1>48, <2>2 DEF HandLooks, TypeInv, DiskType, Checkouts
    <3>2. at.slot \in Checkouts /\ at.slot # "taken" /\ "taken" \in Checkouts
      BY <3>1 DEF TypeInv, DiskType, Checkouts
    <3>3. /\ files'["taken"] = files["taken"] \cup files[at.slot] /\ files'[at.slot] = {}
          /\ \A d \in Checkouts : d # at.slot /\ d # "taken" => files'[d] = files[d]
      BY <3>1, <3>2 DEF TypeInv, DiskType
    <3>4. \A d \in Checkouts : files'[d] \subseteq written
      BY <3>2, <3>3 DEF EntryInv, CopyInv
    <3>5. \A x : Somewhere(x) => \E d \in Checkouts : x \in files'[d]
      BY <3>2, <3>3 DEF Somewhere
    <3> QED BY <2>0, <3>4, <3>5, CopiesMove DEF EntryInv
  <2> QED BY <2>1, <2>2
<1>49. CASE HandMovesNewBack /\ UNCHANGED <<pc, to, marker, pending, memory, written>>
  <2>1. UNCHANGED <<files, written, listed>>
    BY <1>49 DEF HandMovesNewBack, Stuck, disk, memory
  <2> QED BY <2>1 DEF EntryInv, CopyInv, Somewhere
<1>50. CASE HandForgets /\ UNCHANGED <<pc, to, marker, pending, memory, written>>
  <2>1. UNCHANGED <<files, written, listed>>
    BY <1>50 DEF HandForgets, Stuck, disk, memory
  <2> QED BY <2>1 DEF EntryInv, CopyInv, Somewhere
<1>51. CASE HandRemovesAside /\ UNCHANGED <<pc, to, marker, pending, memory, written>>
  <2>0. UNCHANGED <<written, listed>>
    BY <1>51 DEF memory
  <2>1. CASE UNCHANGED files
    BY <2>0, <2>1 DEF EntryInv, CopyInv, Somewhere
  <2>2. CASE ~UNCHANGED files
    <3>1. files' = [files EXCEPT !["old"] = {}, !.taken = files["taken"] \cup files["old"]] /\ "old" # "none"
      BY <1>51, <2>2 DEF HandRemovesAside, TypeInv, DiskType, Checkouts
    <3>2. "old" \in Checkouts /\ "old" # "taken" /\ "taken" \in Checkouts
      BY <3>1 DEF TypeInv, DiskType, Checkouts
    <3>3. /\ files'["taken"] = files["taken"] \cup files["old"] /\ files'["old"] = {}
          /\ \A d \in Checkouts : d # "old" /\ d # "taken" => files'[d] = files[d]
      BY <3>1, <3>2 DEF TypeInv, DiskType
    <3>4. \A d \in Checkouts : files'[d] \subseteq written
      BY <3>2, <3>3 DEF EntryInv, CopyInv
    <3>5. \A x : Somewhere(x) => \E d \in Checkouts : x \in files'[d]
      BY <3>2, <3>3 DEF Somewhere
    <3> QED BY <2>0, <3>4, <3>5, CopiesMove DEF EntryInv
  <2> QED BY <2>1, <2>2
<1>52. CASE HandFinishes
  <2>1. UNCHANGED <<files, written, listed>>
    BY <1>52 DEF HandFinishes, disk, memory
  <2> QED BY <2>1 DEF EntryInv, CopyInv, Somewhere
<1> QED BY <1>1, <1>2, <1>3, <1>4, <1>5, <1>6, <1>7, <1>8, <1>9, <1>10, <1>11, <1>12, <1>13, <1>14, <1>15,
        <1>16, <1>17, <1>18, <1>19, <1>20, <1>21, <1>22, <1>23, <1>24, <1>25, <1>26, <1>27, <1>28, <1>29,
        <1>30, <1>31, <1>32, <1>33, <1>34, <1>35, <1>36, <1>37, <1>38, <1>39, <1>40, <1>41, <1>42, <1>43,
        <1>44, <1>45, <1>46, <1>47, <1>48, <1>49, <1>50, <1>51, <1>52 DEF SlotStep, Migrates, CleansUp, RollsBack,
        Writes, ByPerson, HandStep

LEMMA FreshStep ==
  ASSUME TypeInv, Windows = FALSE, EntryInv, SlotStep
  PROVE  FreshInv'
<1>1. CASE Refuse
  BY <1>1, Moves DEF Refuse, EntryInv, FreshInv, Early, Start, Middle, Emptied, Ends, Somewhere, disk, memory
<1>2. CASE Prepare
  BY <1>2, Moves DEF Prepare, EntryInv, FreshInv, Early, Start, Middle, Emptied, Ends, Somewhere, memory
<1>3. CASE BeginMarker
  BY <1>3, Moves DEF BeginMarker, EntryInv, FreshInv, Early, Start, Middle, Emptied, Ends, Somewhere, disk,
       memory
<1>4. CASE SetAside
  BY <1>4, Moves DEF SetAside, EntryInv, FreshInv, Early, Start, Middle, Emptied, Ends, Somewhere, memory,
       TypeInv, DiskType
<1>5. CASE PushAside
  BY <1>5, Moves DEF PushAside, EntryInv, FreshInv, Early, Start, Middle, Emptied, Ends, Somewhere, disk, memory
<1>6. CASE Repoint
  BY <1>6, Moves DEF Repoint, EntryInv, FreshInv, Early, Start, Middle, Emptied, Ends, Somewhere, memory
<1>7. CASE Check
  BY <1>7, Moves DEF Check, EntryInv, FreshInv, Early, Start, Middle, Emptied, Ends, Somewhere, disk, memory
<1>8. CASE AddBegins
  BY <1>8, Moves DEF AddBegins, EntryInv, FreshInv, Early, Start, Middle, Emptied, Ends, Somewhere, memory,
       TypeInv, DiskType
<1>9. CASE AddEnds
  BY <1>9, Moves DEF AddEnds, EntryInv, FreshInv, Early, Start, Middle, Emptied, Ends, Somewhere, memory
<1>10. CASE AddFails
  BY <1>10, Moves DEF AddFails, EntryInv, FreshInv, Early, Start, Middle, Emptied, Ends, Somewhere, memory
<1>11. CASE PushCarry
  BY <1>11, Moves DEF PushCarry, EntryInv, FreshInv, Early, Start, Middle, Emptied, Ends, Somewhere, disk,
       memory
<1>12. CASE CarryLooks
  BY <1>12, Moves DEF CarryLooks, EntryInv, FreshInv, Early, Start, Middle, Emptied, Ends, Somewhere, disk,
       memory
<1>13. CASE CarryRenames
  BY <1>13, Moves DEF CarryRenames, EntryInv, FreshInv, Early, Start, Middle, Emptied, Ends, Somewhere, memory
<1>14. CASE RecordSaving
  BY <1>14, Moves DEF RecordSaving, EntryInv, FreshInv, Early, Start, Middle, Emptied, Ends, Somewhere, disk,
       memory
<1>15. CASE SaveDetaches
  BY <1>15, Moves DEF SaveDetaches, EntryInv, FreshInv, Early, Start, Middle, Emptied, Ends, Somewhere, memory
<1>16. CASE SaveInstalls
  BY <1>16, Moves DEF SaveInstalls, EntryInv, FreshInv, Early, Start, Middle, Emptied, Ends, Somewhere, memory
<1>17. CASE Saved
  BY <1>17, Moves DEF Saved, EntryInv, FreshInv, Early, Start, Middle, Emptied, Ends, Somewhere, disk, memory
<1>18. CASE CheckFails
  BY <1>18, Moves DEF CheckFails, EntryInv, FreshInv, Early, Start, Middle, Emptied, Ends, Somewhere, disk,
       memory
<1>19. CASE InstallRecord
  BY <1>19, Moves DEF InstallRecord, EntryInv, FreshInv, Early, Start, Middle, Emptied, Ends, Somewhere, disk,
       memory
<1>20. CASE Finish
  <2>1. Place' = "end" \/ files'.old = {}
    BY <1>20, PlaceAfter DEF Finish, disk
  <2> QED BY <1>20, <2>1, Moves DEF FreshInv, Early, Start, Emptied
<1>21. CASE SetNewAside
  BY <1>21, Moves DEF SetNewAside, EntryInv, FreshInv, Early, Start, Middle, Emptied, Ends, Somewhere, memory
<1>22. CASE RecordForgetting
  BY <1>22, Moves DEF RecordForgetting, EntryInv, FreshInv, Early, Start, Middle, Emptied, Ends, Somewhere,
       disk, memory
<1>23. CASE ForgetName
  BY <1>23, Moves DEF ForgetName, EntryInv, FreshInv, Early, Start, Middle, Emptied, Ends, Somewhere, memory
<1>24. CASE RestoreNew
  BY <1>24, Moves DEF RestoreNew, EntryInv, FreshInv, Early, Start, Middle, Emptied, Ends, Somewhere, memory
<1>25. CASE RecordRestored
  BY <1>25, Moves DEF RecordRestored, EntryInv, FreshInv, Early, Start, Middle, Emptied, Ends, Somewhere,
       disk, memory
<1>26. CASE RemoveOld
  BY <1>26, Moves DEF RemoveOld, EntryInv, FreshInv, Early, Start, Middle, Emptied, Ends, Somewhere, memory
<1>27. CASE Deregister
  BY <1>27, Moves DEF Deregister, EntryInv, FreshInv, Early, Start, Middle, Emptied, Ends, Somewhere, memory
<1>28. CASE RecordStranded
  BY <1>28, Moves DEF RecordStranded, EntryInv, FreshInv, Early, Start, Middle, Emptied, Ends, Somewhere,
       disk, memory
<1>29. CASE End
  BY <1>29, Moves DEF End, EntryInv, FreshInv, Early, Start, Middle, Emptied, Ends, Somewhere, disk, memory
<1>30. CASE UndoMark
  BY <1>30, Moves DEF UndoMark, MarkRestored, EntryInv, FreshInv, Early, Start, Middle, Emptied, Ends, Somewhere, memory
<1>31. CASE UndoNothingMade
  BY <1>31, Moves DEF UndoNothingMade, EntryInv, FreshInv, Early, Start, Middle, Emptied, Ends, Somewhere,
       disk, memory
<1>32. CASE UndoNew
  BY <1>32, Moves DEF UndoNew, EntryInv, FreshInv, Early, Start, Middle, Emptied, Ends, Somewhere, memory
<1>33. CASE UndoAside
  BY <1>33, Moves DEF UndoAside, EntryInv, FreshInv, Early, Start, Middle, Emptied, Ends, Somewhere, memory
<1>34. CASE UndoFails
  BY <1>34, Moves DEF UndoFails, EntryInv, FreshInv, Early, Start, Middle, Emptied, Ends, Somewhere, disk,
       memory
<1>35. CASE Stop
  BY <1>35, Moves DEF Stop, EntryInv, FreshInv, Early, Start, Middle, Emptied, Ends, Somewhere, disk, memory
<1>36. CASE RolledBack
  BY <1>36, Moves DEF RolledBack, EntryInv, FreshInv, Early, Start, Middle, Emptied, Ends, Somewhere, disk,
       memory
<1>37. ASSUME NEW e \in Entries, UndoCarryNothing(e) PROVE FreshInv'
  BY <1>37, Moves DEF UndoCarryNothing, EntryInv, FreshInv, Early, Start, Middle, Emptied, Ends, Somewhere,
       disk, memory
<1>38. ASSUME NEW e \in Entries, UndoCarryLooks(e) PROVE FreshInv'
  BY <1>38, Moves DEF UndoCarryLooks, EntryInv, FreshInv, Early, Start, Middle, Emptied, Ends, Somewhere,
       disk, memory
<1>39. ASSUME NEW e \in Entries, UndoCarryRenames(e) PROVE FreshInv'
  BY <1>39, Moves DEF UndoCarryRenames, EntryInv, FreshInv, Early, Start, Middle, Emptied, Ends, Somewhere,
       memory
<1>40. ASSUME NEW e \in Entries, UndoCarryKeeps(e) PROVE FreshInv'
  BY <1>40, Moves DEF UndoCarryKeeps, EntryInv, FreshInv, Early, Start, Middle, Emptied, Ends, Somewhere, memory
<1>41. CASE Kill
  BY <1>41, Moves DEF Kill, EntryInv, FreshInv, Early, Start, Middle, Emptied, Ends, Somewhere, disk, memory
<1>42. ASSUME NEW place \in {"slot", "aside"}, NEW item \in Items, Write(place, item) PROVE FreshInv'
  <2>1. PICK c \in {"old", "new", "stray"}, n \in 1..MaxWrites :
           /\ files'[c] = files[c] \cup {<<item, n>>} /\ written' = written \cup {<<item, n>>}
           /\ \A d \in Checkouts : d # c => files'[d] = files[d]
           /\ c = "new" => at.slot = "new"
           /\ at'.slot = at.slot \/ at'.slot = "stray"
           /\ UNCHANGED memory
    BY <1>42, WriteDoes DEF TypeInv
  <2>2. Place' = Place /\ Place # "adding" /\ Place \notin Emptied
    BY <1>42, Moves
  <2>3. c \in Checkouts /\ n # 0 /\ <<item, n>>[2] = n
    BY EntriesAssumption DEF Checkouts
  <2>4. \A d \in Checkouts : files[d] \subseteq files'[d]
    BY <2>1
  <2>5. Place \in Early => /\ listed' = {}
                           /\ \A copy \in written' : Somewhere(copy)' /\ (copy[2] = 0 => copy \in files'.old)
    <3>1. ASSUME Place \in Early, NEW x \in written PROVE Somewhere(x)' /\ (x[2] = 0 => x \in files'["old"])
      BY <2>4, <3>1 DEF EntryInv, FreshInv, Somewhere, Checkouts
    <3>2. Somewhere(<<item, n>>)'
      BY <2>1, <2>3 DEF Somewhere
    <3> QED BY <2>1, <2>3, <3>1, <3>2 DEF EntryInv, FreshInv, memory
  <2>6. Place \in Early \cup {"add"} => at'.slot # "new" /\ files'.new = {}
    BY <2>1, "new" \in Checkouts DEF EntryInv, FreshInv, Checkouts
  <2> QED BY <2>2, <2>5, <2>6 DEF FreshInv
<1>43. CASE ByPerson
  <2>1. Place' \in Ends
    BY <1>43, Moves
  <2> QED BY <2>1 DEF FreshInv, Ends, Early, Start, Emptied
<1> QED BY <1>1, <1>2, <1>3, <1>4, <1>5, <1>6, <1>7, <1>8, <1>9, <1>10, <1>11, <1>12, <1>13, <1>14, <1>15,
        <1>16, <1>17, <1>18, <1>19, <1>20, <1>21, <1>22, <1>23, <1>24, <1>25, <1>26, <1>27, <1>28, <1>29,
        <1>30, <1>31, <1>32, <1>33, <1>34, <1>35, <1>36, <1>37, <1>38, <1>39, <1>40, <1>41, <1>42,
        <1>43 DEF SlotStep, Migrates, CleansUp, RollsBack, Writes

LEMMA LookStep ==
  ASSUME TypeInv, Windows = FALSE, EntryInv, SlotStep
  PROVE  LookInv'
<1>1. CASE Refuse
  <2>1. looked' = looked \/ looked' = NoEntry
    BY <1>1 DEF Refuse, disk, memory
  <2> QED BY <1>1, <2>1, Moves DEF Refuse, EntryInv, LookInv, Has, Middle, Early, Start, Ends, disk
<1>2. CASE Prepare
  <2>1. looked' = looked \/ looked' = NoEntry
    BY <1>2 DEF Prepare
  <2> QED BY <1>2, <2>1, Moves DEF Prepare, EntryInv, LookInv, Has, Middle, Early, Start, Ends
<1>3. CASE BeginMarker
  <2>1. looked' = looked \/ looked' = NoEntry
    BY <1>3 DEF BeginMarker, disk, memory
  <2> QED BY <1>3, <2>1, Moves DEF BeginMarker, EntryInv, LookInv, Has, Middle, Early, Start, Ends, disk
<1>4. CASE SetAside
  <2>1. looked' = looked \/ looked' = NoEntry
    BY <1>4 DEF SetAside, memory
  <2> QED BY <1>4, <2>1, Moves DEF SetAside, EntryInv, LookInv, Has, Middle, Early, Start, Ends
<1>5. CASE PushAside
  <2>1. looked' = looked \/ looked' = NoEntry
    BY <1>5 DEF PushAside, disk
  <2> QED BY <1>5, <2>1, Moves DEF PushAside, EntryInv, LookInv, Has, Middle, Early, Start, Ends, disk
<1>6. CASE Repoint
  <2>1. looked' = looked \/ looked' = NoEntry
    BY <1>6 DEF Repoint, memory
  <2> QED BY <1>6, <2>1, Moves DEF Repoint, EntryInv, LookInv, Has, Middle, Early, Start, Ends
<1>7. CASE Check
  <2>1. looked' = looked \/ looked' = NoEntry
    BY <1>7 DEF Check, disk
  <2> QED BY <1>7, <2>1, Moves DEF Check, EntryInv, LookInv, Has, Middle, Early, Start, Ends, disk
<1>8. CASE AddBegins
  <2>1. looked' = looked \/ looked' = NoEntry
    BY <1>8 DEF AddBegins, memory
  <2> QED BY <1>8, <2>1, Moves DEF AddBegins, EntryInv, LookInv, Has, Middle, Early, Start, Ends
<1>9. CASE AddEnds
  <2>1. looked' = looked \/ looked' = NoEntry
    BY <1>9 DEF AddEnds
  <2> QED BY <1>9, <2>1, Moves DEF AddEnds, EntryInv, LookInv, Has, Middle, Early, Start, Ends
<1>10. CASE AddFails
  <2>1. looked' = looked \/ looked' = NoEntry
    BY <1>10 DEF AddFails, memory
  <2> QED BY <1>10, <2>1, Moves DEF AddFails, EntryInv, LookInv, Has, Middle, Early, Start, Ends
<1>11. CASE PushCarry
  <2>1. looked' = looked \/ looked' = NoEntry
    BY <1>11 DEF PushCarry, disk
  <2> QED BY <1>11, <2>1, Moves DEF PushCarry, EntryInv, LookInv, Has, Middle, Early, Start, Ends, disk
<1>12. CASE CarryLooks
  <2>1. ~Has("new", looked') /\ files' = files
    BY <1>12 DEF CarryLooks, Look, disk
  <2>2. ~Has("new", looked)'
    BY <2>1 DEF Has
  <2> QED BY <1>12, <2>2, Moves DEF LookInv
<1>13. CASE CarryRenames
  <2>1. looked' = looked \/ looked' = NoEntry
    BY <1>13 DEF CarryRenames
  <2> QED BY <1>13, <2>1, Moves DEF CarryRenames, EntryInv, LookInv, Has, Middle, Early, Start, Ends
<1>14. CASE RecordSaving
  <2>1. looked' = looked \/ looked' = NoEntry
    BY <1>14 DEF RecordSaving, disk, memory
  <2> QED BY <1>14, <2>1, Moves DEF RecordSaving, EntryInv, LookInv, Has, Middle, Early, Start, Ends, disk
<1>15. CASE SaveDetaches
  <2>1. looked' = looked \/ looked' = NoEntry
    BY <1>15 DEF SaveDetaches, memory
  <2> QED BY <1>15, <2>1, Moves DEF SaveDetaches, EntryInv, LookInv, Has, Middle, Early, Start, Ends
<1>16. CASE SaveInstalls
  <2>1. looked' = looked \/ looked' = NoEntry
    BY <1>16 DEF SaveInstalls, memory
  <2> QED BY <1>16, <2>1, Moves DEF SaveInstalls, EntryInv, LookInv, Has, Middle, Early, Start, Ends
<1>17. CASE Saved
  <2>1. looked' = looked \/ looked' = NoEntry
    BY <1>17 DEF Saved, disk, memory
  <2> QED BY <1>17, <2>1, Moves DEF Saved, EntryInv, LookInv, Has, Middle, Early, Start, Ends, disk
<1>18. CASE CheckFails
  <2>1. looked' = looked \/ looked' = NoEntry
    BY <1>18 DEF CheckFails, disk
  <2> QED BY <1>18, <2>1, Moves DEF CheckFails, EntryInv, LookInv, Has, Middle, Early, Start, Ends, disk
<1>19. CASE InstallRecord
  <2>1. looked' = looked \/ looked' = NoEntry
    BY <1>19 DEF InstallRecord, disk, memory
  <2> QED BY <1>19, <2>1, Moves DEF InstallRecord, EntryInv, LookInv, Has, Middle, Early, Start, Ends, disk
<1>20. CASE Finish
  <2>1. looked' = looked \/ looked' = NoEntry
    BY <1>20 DEF Finish, disk, memory
  <2> QED BY <1>20, <2>1, Moves DEF Finish, EntryInv, LookInv, Has, Middle, Early, Start, Ends, disk
<1>21. CASE SetNewAside
  <2>1. looked' = looked \/ looked' = NoEntry
    BY <1>21 DEF SetNewAside, memory
  <2> QED BY <1>21, <2>1, Moves DEF SetNewAside, EntryInv, LookInv, Has, Middle, Early, Start, Ends
<1>22. CASE RecordForgetting
  <2>1. looked' = looked \/ looked' = NoEntry
    BY <1>22 DEF RecordForgetting, disk, memory
  <2> QED BY <1>22, <2>1, Moves DEF RecordForgetting, EntryInv, LookInv, Has, Middle, Early, Start, Ends, disk
<1>23. CASE ForgetName
  <2>1. looked' = looked \/ looked' = NoEntry
    BY <1>23 DEF ForgetName
  <2> QED BY <1>23, <2>1, Moves DEF ForgetName, EntryInv, LookInv, Has, Middle, Early, Start, Ends
<1>24. CASE RestoreNew
  <2>1. looked' = looked \/ looked' = NoEntry
    BY <1>24 DEF RestoreNew, memory
  <2> QED BY <1>24, <2>1, Moves DEF RestoreNew, EntryInv, LookInv, Has, Middle, Early, Start, Ends
<1>25. CASE RecordRestored
  <2>1. looked' = looked \/ looked' = NoEntry
    BY <1>25 DEF RecordRestored, disk, memory
  <2> QED BY <1>25, <2>1, Moves DEF RecordRestored, EntryInv, LookInv, Has, Middle, Early, Start, Ends, disk
<1>26. CASE RemoveOld
  <2>1. looked' = looked \/ looked' = NoEntry
    BY <1>26 DEF RemoveOld, memory
  <2> QED BY <1>26, <2>1, Moves DEF RemoveOld, EntryInv, LookInv, Has, Middle, Early, Start, Ends
<1>27. CASE Deregister
  <2>1. looked' = looked \/ looked' = NoEntry
    BY <1>27 DEF Deregister, memory
  <2> QED BY <1>27, <2>1, Moves DEF Deregister, EntryInv, LookInv, Has, Middle, Early, Start, Ends
<1>28. CASE RecordStranded
  <2>1. looked' = looked \/ looked' = NoEntry
    BY <1>28 DEF RecordStranded, disk, memory
  <2> QED BY <1>28, <2>1, Moves DEF RecordStranded, EntryInv, LookInv, Has, Middle, Early, Start, Ends, disk
<1>29. CASE End
  <2>1. looked' = looked \/ looked' = NoEntry
    BY <1>29 DEF End, disk, memory
  <2> QED BY <1>29, <2>1, Moves DEF End, EntryInv, LookInv, Has, Middle, Early, Start, Ends, disk
<1>30. CASE UndoMark
  <2>1. looked' = looked \/ looked' = NoEntry
    BY <1>30 DEF UndoMark
  <2> QED BY <1>30, <2>1, Moves DEF UndoMark, MarkRestored, EntryInv, LookInv, Has, Middle, Early, Start, Ends
<1>31. CASE UndoNothingMade
  <2>1. looked' = looked \/ looked' = NoEntry
    BY <1>31 DEF UndoNothingMade, disk
  <2> QED BY <1>31, <2>1, Moves DEF UndoNothingMade, EntryInv, LookInv, Has, Middle, Early, Start, Ends, disk
<1>32. CASE UndoNew
  <2>1. looked' = looked /\ files' = [files EXCEPT !.new = {}]
    BY <1>32 DEF UndoNew
  <2>2. files'["old"] = files["old"]
    BY <2>1 DEF TypeInv, DiskType, Checkouts
  <2> QED BY <1>32, <2>1, <2>2, Moves DEF EntryInv, LookInv, Has
<1>33. CASE UndoAside
  <2>1. looked' = looked \/ looked' = NoEntry
    BY <1>33 DEF UndoAside
  <2> QED BY <1>33, <2>1, Moves DEF UndoAside, EntryInv, LookInv, Has, Middle, Early, Start, Ends
<1>34. CASE UndoFails
  <2>1. looked' = looked \/ looked' = NoEntry
    BY <1>34 DEF UndoFails, disk
  <2> QED BY <1>34, <2>1, Moves DEF UndoFails, EntryInv, LookInv, Has, Middle, Early, Start, Ends, disk
<1>35. CASE Stop
  <2>1. looked' = looked \/ looked' = NoEntry
    BY <1>35 DEF Stop, disk, memory
  <2> QED BY <1>35, <2>1, Moves DEF Stop, EntryInv, LookInv, Has, Middle, Early, Start, Ends, disk
<1>36. CASE RolledBack
  <2>1. looked' = looked \/ looked' = NoEntry
    BY <1>36 DEF RolledBack, disk, memory
  <2> QED BY <1>36, <2>1, Moves DEF RolledBack, EntryInv, LookInv, Has, Middle, Early, Start, Ends, disk
<1>37. ASSUME NEW e \in Entries, UndoCarryNothing(e) PROVE LookInv'
  <2>1. looked' = looked \/ looked' = NoEntry
    BY <1>37 DEF UndoCarryNothing, disk
  <2> QED BY <1>37, <2>1, Moves DEF UndoCarryNothing, EntryInv, LookInv, Has, Middle, Early, Start, Ends, disk
<1>38. ASSUME NEW e \in Entries, UndoCarryLooks(e) PROVE LookInv'
  <2>1. ~Has("old", looked') /\ files' = files
    BY <1>38 DEF UndoCarryLooks, Look, disk
  <2>2. ~Has("old", looked)'
    BY <2>1 DEF Has
  <2> QED BY <1>38, <2>2, Moves DEF LookInv
<1>39. ASSUME NEW e \in Entries, UndoCarryRenames(e) PROVE LookInv'
  <2>1. looked' = looked \/ looked' = NoEntry
    BY <1>39 DEF UndoCarryRenames
  <2> QED BY <1>39, <2>1, Moves DEF UndoCarryRenames, EntryInv, LookInv, Has, Middle, Early, Start, Ends
<1>40. ASSUME NEW e \in Entries, UndoCarryKeeps(e) PROVE LookInv'
  <2>1. looked' = looked \/ looked' = NoEntry
    BY <1>40 DEF UndoCarryKeeps
  <2> QED BY <1>40, <2>1, Moves DEF UndoCarryKeeps, EntryInv, LookInv, Has, Middle, Early, Start, Ends
<1>41. CASE Kill
  <2>1. looked' = looked \/ looked' = NoEntry
    BY <1>41 DEF Kill, disk, memory
  <2> QED BY <1>41, <2>1, Moves DEF Kill, EntryInv, LookInv, Has, Middle, Early, Start, Ends, disk
<1>42. ASSUME NEW place \in {"slot", "aside"}, NEW item \in Items, Write(place, item) PROVE LookInv'
  <2>1. looked = NoEntry /\ looked' = looked
    BY <1>42, Moves, WriteDoes DEF TypeInv, memory
  <2> QED BY <2>1 DEF LookInv
<1>43. CASE ByPerson
  <2>1. UNCHANGED looked /\ Place' \in Ends
    BY <1>43, Moves DEF memory
  <2> QED BY <2>1 DEF LookInv, Ends
<1> QED BY <1>1, <1>2, <1>3, <1>4, <1>5, <1>6, <1>7, <1>8, <1>9, <1>10, <1>11, <1>12, <1>13, <1>14, <1>15,
        <1>16, <1>17, <1>18, <1>19, <1>20, <1>21, <1>22, <1>23, <1>24, <1>25, <1>26, <1>27, <1>28, <1>29,
        <1>30, <1>31, <1>32, <1>33, <1>34, <1>35, <1>36, <1>37, <1>38, <1>39, <1>40, <1>41, <1>42,
        <1>43 DEF SlotStep, Migrates, CleansUp, RollsBack, Writes

(* Once the entries are listed every one that was there first is.            *)
LEMMA FoundStays ==
  ASSUME TypeInv, EntryInv, Found, SlotStep
  PROVE  Found'
<1>1. CASE Refuse
  <2>1. UNCHANGED <<written, listed>>
    BY <1>1 DEF Refuse, disk, memory
  <2> QED BY <2>1 DEF Found
<1>2. CASE Prepare
  <2>1. UNCHANGED <<written, listed>>
    BY <1>2 DEF Prepare, memory
  <2> QED BY <2>1 DEF Found
<1>3. CASE BeginMarker
  <2>1. UNCHANGED <<written, listed>>
    BY <1>3 DEF BeginMarker, disk, memory
  <2> QED BY <2>1 DEF Found
<1>4. CASE SetAside
  <2>1. UNCHANGED <<written, listed>>
    BY <1>4 DEF SetAside, memory
  <2> QED BY <2>1 DEF Found
<1>5. CASE PushAside
  <2>1. UNCHANGED <<written, listed>>
    BY <1>5 DEF PushAside, disk, memory
  <2> QED BY <2>1 DEF Found
<1>6. CASE Repoint
  <2>1. UNCHANGED <<written, listed>>
    BY <1>6 DEF Repoint, memory
  <2> QED BY <2>1 DEF Found
<1>7. CASE Check
  <2>1. listed = {}
    BY <1>7, Moves DEF EntryInv, FreshInv, Early
  <2>2. UNCHANGED written
    BY <1>7 DEF Check
  <2> QED BY <2>1, <2>2 DEF Found
<1>8. CASE AddBegins
  <2>1. UNCHANGED <<written, listed>>
    BY <1>8 DEF AddBegins, memory
  <2> QED BY <2>1 DEF Found
<1>9. CASE AddEnds
  <2>1. UNCHANGED <<written, listed>>
    BY <1>9 DEF AddEnds, memory
  <2> QED BY <2>1 DEF Found
<1>10. CASE AddFails
  <2>1. UNCHANGED <<written, listed>>
    BY <1>10 DEF AddFails, memory
  <2> QED BY <2>1 DEF Found
<1>11. CASE PushCarry
  <2>1. UNCHANGED <<written, listed>>
    BY <1>11 DEF PushCarry, disk, memory
  <2> QED BY <2>1 DEF Found
<1>12. CASE CarryLooks
  <2>1. UNCHANGED <<written, listed>>
    BY <1>12 DEF CarryLooks, disk, memory
  <2> QED BY <2>1 DEF Found
<1>13. CASE CarryRenames
  <2>1. UNCHANGED <<written, listed>>
    BY <1>13 DEF CarryRenames, memory
  <2> QED BY <2>1 DEF Found
<1>14. CASE RecordSaving
  <2>1. UNCHANGED <<written, listed>>
    BY <1>14 DEF RecordSaving, disk, memory
  <2> QED BY <2>1 DEF Found
<1>15. CASE SaveDetaches
  <2>1. UNCHANGED <<written, listed>>
    BY <1>15 DEF SaveDetaches, memory
  <2> QED BY <2>1 DEF Found
<1>16. CASE SaveInstalls
  <2>1. UNCHANGED <<written, listed>>
    BY <1>16 DEF SaveInstalls, memory
  <2> QED BY <2>1 DEF Found
<1>17. CASE Saved
  <2>1. UNCHANGED <<written, listed>>
    BY <1>17 DEF Saved, disk, memory
  <2> QED BY <2>1 DEF Found
<1>18. CASE CheckFails
  <2>1. UNCHANGED <<written, listed>>
    BY <1>18 DEF CheckFails, disk, memory
  <2> QED BY <2>1 DEF Found
<1>19. CASE InstallRecord
  <2>1. UNCHANGED <<written, listed>>
    BY <1>19 DEF InstallRecord, disk, memory
  <2> QED BY <2>1 DEF Found
<1>20. CASE Finish
  <2>1. UNCHANGED <<written, listed>>
    BY <1>20 DEF Finish, disk, memory
  <2> QED BY <2>1 DEF Found
<1>21. CASE SetNewAside
  <2>1. UNCHANGED <<written, listed>>
    BY <1>21 DEF SetNewAside, memory
  <2> QED BY <2>1 DEF Found
<1>22. CASE RecordForgetting
  <2>1. UNCHANGED <<written, listed>>
    BY <1>22 DEF RecordForgetting, disk, memory
  <2> QED BY <2>1 DEF Found
<1>23. CASE ForgetName
  <2>1. UNCHANGED <<written, listed>>
    BY <1>23 DEF ForgetName, memory
  <2> QED BY <2>1 DEF Found
<1>24. CASE RestoreNew
  <2>1. UNCHANGED <<written, listed>>
    BY <1>24 DEF RestoreNew, memory
  <2> QED BY <2>1 DEF Found
<1>25. CASE RecordRestored
  <2>1. UNCHANGED <<written, listed>>
    BY <1>25 DEF RecordRestored, disk, memory
  <2> QED BY <2>1 DEF Found
<1>26. CASE RemoveOld
  <2>1. UNCHANGED <<written, listed>>
    BY <1>26 DEF RemoveOld, memory
  <2> QED BY <2>1 DEF Found
<1>27. CASE Deregister
  <2>1. UNCHANGED <<written, listed>>
    BY <1>27 DEF Deregister, memory
  <2> QED BY <2>1 DEF Found
<1>28. CASE RecordStranded
  <2>1. UNCHANGED <<written, listed>>
    BY <1>28 DEF RecordStranded, disk, memory
  <2> QED BY <2>1 DEF Found
<1>29. CASE End
  <2>1. UNCHANGED <<written, listed>>
    BY <1>29 DEF End, disk, memory
  <2> QED BY <2>1 DEF Found
<1>30. CASE UndoMark
  <2>1. UNCHANGED <<written, listed>>
    BY <1>30 DEF UndoMark, MarkRestored, memory
  <2> QED BY <2>1 DEF Found
<1>31. CASE UndoNothingMade
  <2>1. UNCHANGED <<written, listed>>
    BY <1>31 DEF UndoNothingMade, disk, memory
  <2> QED BY <2>1 DEF Found
<1>32. CASE UndoNew
  <2>1. UNCHANGED <<written, listed>>
    BY <1>32 DEF UndoNew, memory
  <2> QED BY <2>1 DEF Found
<1>33. CASE UndoAside
  <2>1. UNCHANGED <<written, listed>>
    BY <1>33 DEF UndoAside, memory
  <2> QED BY <2>1 DEF Found
<1>34. CASE UndoFails
  <2>1. UNCHANGED <<written, listed>>
    BY <1>34 DEF UndoFails, disk, memory
  <2> QED BY <2>1 DEF Found
<1>35. CASE Stop
  <2>1. UNCHANGED <<written, listed>>
    BY <1>35 DEF Stop, disk, memory
  <2> QED BY <2>1 DEF Found
<1>36. CASE RolledBack
  <2>1. UNCHANGED <<written, listed>>
    BY <1>36 DEF RolledBack, disk, memory
  <2> QED BY <2>1 DEF Found
<1>37. ASSUME NEW e \in Entries, UndoCarryNothing(e) PROVE Found'
  <2>1. UNCHANGED <<written, listed>>
    BY <1>37 DEF UndoCarryNothing, disk, memory
  <2> QED BY <2>1 DEF Found
<1>38. ASSUME NEW e \in Entries, UndoCarryLooks(e) PROVE Found'
  <2>1. UNCHANGED <<written, listed>>
    BY <1>38 DEF UndoCarryLooks, disk, memory
  <2> QED BY <2>1 DEF Found
<1>39. ASSUME NEW e \in Entries, UndoCarryRenames(e) PROVE Found'
  <2>1. UNCHANGED <<written, listed>>
    BY <1>39 DEF UndoCarryRenames, memory
  <2> QED BY <2>1 DEF Found
<1>40. ASSUME NEW e \in Entries, UndoCarryKeeps(e) PROVE Found'
  <2>1. UNCHANGED <<written, listed>>
    BY <1>40 DEF UndoCarryKeeps, memory
  <2> QED BY <2>1 DEF Found
<1>41. CASE Kill
  <2>1. UNCHANGED <<written, listed>>
    BY <1>41 DEF Kill, disk, memory
  <2> QED BY <2>1 DEF Found
<1>42. ASSUME NEW place \in {"slot", "aside"}, NEW item \in Items, Write(place, item) PROVE Found'
  <2>1. PICK c \in {"old", "new", "stray"}, n \in 1..MaxWrites :
           written' = written \cup {<<item, n>>} /\ UNCHANGED memory
    BY <1>42, WriteDoes DEF TypeInv
  <2>2. n # 0 /\ <<item, n>>[2] = n
    BY EntriesAssumption
  <2> QED BY <2>1, <2>2 DEF Found, memory
<1>43. CASE ByPerson
  <2>1. UNCHANGED <<written, listed>>
    BY <1>43, Moves DEF memory
  <2> QED BY <2>1 DEF Found
<1> QED BY <1>1, <1>2, <1>3, <1>4, <1>5, <1>6, <1>7, <1>8, <1>9, <1>10, <1>11, <1>12, <1>13, <1>14, <1>15,
        <1>16, <1>17, <1>18, <1>19, <1>20, <1>21, <1>22, <1>23, <1>24, <1>25, <1>26, <1>27, <1>28, <1>29,
        <1>30, <1>31, <1>32, <1>33, <1>34, <1>35, <1>36, <1>37, <1>38, <1>39, <1>40, <1>41, <1>42,
        <1>43 DEF SlotStep, Migrates, CleansUp, RollsBack, Writes

LEMMA HandMoves ==
  ASSUME TypeInv, HandStep
  PROVE  \E step : /\ ByHand(step)
                   /\ \/ hand'.left = Tail(hand.left) /\ hand'.state = "following"
                      \/ hand'.left = hand.left /\ hand'.state = "stuck" /\ UNCHANGED disk
                   /\ hand'.misled = hand.misled
<1>1. \E step : ByHand(step) /\ (Next1 \/ Stuck)
  BY HandCarriesDoes DEF HandStep, HandMovesBack, HandRestoresMark, HandRemovesNew, HandLooks,
       HandMovesNewBack, HandForgets, HandRemovesAside
<1>2. Next1 => hand'.left = Tail(hand.left) /\ UNCHANGED <<hand.state, hand.misled>>
  BY DEF Next1, TypeInv, StepType
<1>3. Stuck => hand'.left = hand.left /\ hand'.state = "stuck" /\ UNCHANGED disk /\ UNCHANGED hand.misled
  BY DEF Stuck, TypeInv, StepType
<1> QED BY <1>1, <1>2, <1>3 DEF ByHand

LEMMA NewStaysStep ==
  ASSUME TypeInv, EntryInv, NewStays, SlotStep
  PROVE  FoundInv'
<1>1. CASE Refuse
  <2>1. Place' \notin Middle
    BY <1>1, Moves DEF NewStays, Middle, Early, Start
  <2>2. UNCHANGED <<undo, marker, pending, hand>>
    BY <1>1 DEF Refuse, memory
  <2> QED BY <2>1, <2>2 DEF NewStays, FoundInv
<1>2. CASE Prepare
  <2>1. Place' \notin Middle
    BY <1>2, Moves DEF Middle
  <2>2. ToSet(<<RestoreMark>>) = {RestoreMark}
    BY SeqOfOne
  <2>3. undo' = undo \/ undo' = <<RestoreMark>>
    BY <1>2 DEF Prepare
  <2>4. UNCHANGED <<marker, pending, hand>>
    BY <1>2 DEF Prepare
  <2> QED BY <2>1, <2>2, <2>3, <2>4, StepsDiffer DEF NewStays, FoundInv
<1>3. CASE BeginMarker
  <2>1. Place' \notin Middle
    BY <1>3, Moves DEF Middle
  <2>2. UNCHANGED <<undo, hand>>
    BY <1>3 DEF BeginMarker, memory
  <2>3. \/ UNCHANGED <<marker, pending>>
        \/ marker' = NoRecord /\ pending'.record.steps = <<LookBeside>>
    BY <1>3, Records DEF BeginMarker
  <2>4. ToSet(<<LookBeside>>) = {LookBeside} /\ RemoveNew \in UndoSteps
    BY SeqOfOne, StepsAre
  <2> QED BY <2>1, <2>2, <2>3, <2>4, NoStepRecorded, StepsDiffer DEF NewStays, FoundInv
<1>4. CASE SetAside
  <2>1. Place' \notin Middle
    BY <1>4, Moves DEF NewStays, Middle, Early, Start
  <2>2. UNCHANGED <<undo, marker, pending, hand>>
    BY <1>4 DEF SetAside, memory
  <2> QED BY <2>1, <2>2 DEF NewStays, FoundInv
<1>5. CASE PushAside
  <2>1. Place' \notin Middle
    BY <1>5, Moves DEF Middle
  <2>2. Push(<<MoveBack>>, "repoint") /\ UNCHANGED hand
    BY <1>5 DEF PushAside
  <2>3. <<MoveBack>> \in Seq(UndoSteps) /\ ToSet(<<MoveBack>>) = {MoveBack}
    BY SeqOfOne, StepsAre
  <2>4. ToSet(undo') = ToSet(undo) \cup {MoveBack} /\ (UNCHANGED <<marker, pending>>
           \/ (marker' = NoRecord /\ ToSet(pending'.record.steps) = ToSet(undo')))
    BY <2>2, <2>3, PushedSteps
  <2> QED BY <2>1, <2>2, <2>4, NoStepRecorded, StepsDiffer DEF NewStays, FoundInv
<1>6. CASE Repoint
  <2>1. Place' \notin Middle
    BY <1>6, Moves DEF NewStays, Middle, Early, Start
  <2>2. UNCHANGED <<undo, marker, pending, hand>>
    BY <1>6 DEF Repoint, memory
  <2> QED BY <2>1, <2>2 DEF NewStays, FoundInv
<1>7. CASE Check
  <2>1. \A copy \in written : copy[2] = 0 => copy \in files.old /\ copy[1] \in Entries
    BY <1>7, Moves DEF EntryInv, CopyInv, FreshInv, Early
  <2>2. listed' = {e \in Entries : Has("old", e)} /\ UNCHANGED written
    BY <1>7 DEF Check
  <2>3. \A copy \in written : copy[2] = 0 => Has("old", copy[1])
    BY <2>1, CopyPairs, "old" \in Checkouts DEF TypeInv, Checkouts
  <2> QED BY <2>1, <2>2, <2>3 DEF FoundInv, Found
<1>8. CASE AddBegins
  <2>1. Place \in Middle
    BY <1>8, Moves DEF Middle
  <2> QED BY <2>1 DEF NewStays
<1>9. CASE AddEnds
  <2>1. Place \in Middle
    BY <1>9, Moves DEF Middle
  <2> QED BY <2>1 DEF NewStays
<1>10. CASE AddFails
  <2>1. Place \in Middle
    BY <1>10, Moves DEF Middle
  <2> QED BY <2>1 DEF NewStays
<1>11. CASE PushCarry
  <2>1. Place \in Middle
    BY <1>11, Moves DEF Middle
  <2> QED BY <2>1 DEF NewStays
<1>12. CASE CarryLooks
  <2>1. Place \in Middle
    BY <1>12, Moves DEF Middle
  <2> QED BY <2>1 DEF NewStays
<1>13. CASE CarryRenames
  <2>1. Place \in Middle
    BY <1>13, Moves DEF Middle
  <2> QED BY <2>1 DEF NewStays
<1>14. CASE RecordSaving
  <2>1. Place \in Middle
    BY <1>14, Moves DEF Middle
  <2> QED BY <2>1 DEF NewStays
<1>15. CASE SaveDetaches
  <2>1. Place \in Middle
    BY <1>15, Moves DEF Middle
  <2> QED BY <2>1 DEF NewStays
<1>16. CASE SaveInstalls
  <2>1. Place \in Middle
    BY <1>16, Moves DEF Middle
  <2> QED BY <2>1 DEF NewStays
<1>17. CASE Saved
  <2>1. Place' \notin Middle
    BY <1>17, Moves DEF Middle
  <2>2. Cleanup("saved", cleanupSteps, "finish") /\ UNCHANGED <<undo, hand>>
    BY <1>17 DEF Saved, memory
  <2>3. \/ UNCHANGED <<marker, pending>>
        \/ marker' = NoRecord /\ pending'.record.steps = cleanupSteps
    BY <2>2, CleanupRecords
  <2>4. RemoveNew \in UndoSteps
    BY StepsAre
  <2> QED BY <2>1, <2>2, <2>3, <2>4, CleanupSteps, NoStepRecorded, StepsDiffer DEF NewStays, FoundInv
<1>18. CASE CheckFails
  <2>1. Place' \notin Middle
    BY <1>18, Moves DEF NewStays, Middle, Early, Start
  <2>2. UNCHANGED <<undo, marker, pending, hand>>
    BY <1>18 DEF CheckFails
  <2> QED BY <2>1, <2>2 DEF NewStays, FoundInv
<1>19. CASE InstallRecord
  <2>1. Place' \notin Middle
    BY <1>19, Moves DEF NewStays
  <2>2. marker' = pending.record /\ pending'.record = NoRecord /\ UNCHANGED <<undo, hand>>
    BY <1>19 DEF InstallRecord, memory
  <2> QED BY <2>1, <2>2, NoStepRecorded DEF NewStays, FoundInv
<1>20. CASE Finish
  <2>1. Place' \notin Middle
    BY <1>20, Moves DEF NewStays, Middle, Early, Start
  <2>2. UNCHANGED <<undo, marker, pending, hand>>
    BY <1>20 DEF Finish, memory
  <2> QED BY <2>1, <2>2 DEF NewStays, FoundInv
<1>21. CASE SetNewAside
  <2>1. Place' \notin Middle
    BY <1>21, Moves DEF NewStays, Middle, Early, Start
  <2>2. UNCHANGED <<undo, marker, pending, hand>>
    BY <1>21 DEF SetNewAside, memory
  <2> QED BY <2>1, <2>2 DEF NewStays, FoundInv
<1>22. CASE RecordForgetting
  <2>1. Place' \notin Middle
    BY <1>22, Moves DEF Middle
  <2>2. Cleanup("forgetting", <<MoveNewBack, ForgetIfListed, RemoveAside>>, "forget name") /\ UNCHANGED <<undo, hand>>
    BY <1>22 DEF RecordForgetting, memory
  <2>3. \/ UNCHANGED <<marker, pending>>
        \/ marker' = NoRecord /\ pending'.record.steps = <<MoveNewBack, ForgetIfListed, RemoveAside>>
    BY <2>2, CleanupRecords
  <2>4. RemoveNew \in UndoSteps
    BY StepsAre
  <2> QED BY <2>1, <2>2, <2>3, <2>4, CleanupSteps, NoStepRecorded, StepsDiffer DEF NewStays, FoundInv
<1>23. CASE ForgetName
  <2>1. Place' \notin Middle
    BY <1>23, Moves DEF NewStays, Middle, Early, Start
  <2>2. UNCHANGED <<undo, marker, pending, hand>>
    BY <1>23 DEF ForgetName
  <2> QED BY <2>1, <2>2 DEF NewStays, FoundInv
<1>24. CASE RestoreNew
  <2>1. Place' \notin Middle
    BY <1>24, Moves DEF NewStays, Middle, Early, Start
  <2>2. UNCHANGED <<undo, marker, pending, hand>>
    BY <1>24 DEF RestoreNew, memory
  <2> QED BY <2>1, <2>2 DEF NewStays, FoundInv
<1>25. CASE RecordRestored
  <2>1. Place' \notin Middle
    BY <1>25, Moves DEF Middle
  <2>2. Cleanup("saved", forgetLeft(Forget) \o <<RemoveAside>>, "remove aside") /\ UNCHANGED <<undo, hand>>
    BY <1>25 DEF RecordRestored, memory
  <2>3. \/ UNCHANGED <<marker, pending>>
        \/ marker' = NoRecord /\ pending'.record.steps = forgetLeft(Forget) \o <<RemoveAside>>
    BY <2>2, CleanupRecords
  <2>4. RemoveNew \in UndoSteps
    BY StepsAre
  <2> QED BY <2>1, <2>2, <2>3, <2>4, CleanupSteps, NoStepRecorded, StepsDiffer DEF NewStays, FoundInv
<1>26. CASE RemoveOld
  <2>1. Place' \notin Middle
    BY <1>26, Moves DEF NewStays, Middle, Early, Start
  <2>2. UNCHANGED <<undo, marker, pending, hand>>
    BY <1>26 DEF RemoveOld, memory
  <2> QED BY <2>1, <2>2 DEF NewStays, FoundInv
<1>27. CASE Deregister
  <2>1. Place' \notin Middle
    BY <1>27, Moves DEF NewStays, Middle, Early, Start
  <2>2. UNCHANGED <<undo, marker, pending, hand>>
    BY <1>27 DEF Deregister, memory
  <2> QED BY <2>1, <2>2 DEF NewStays, FoundInv
<1>28. CASE RecordStranded
  <2> DEFINE left == <<MoveNewBack>> \o forgetLeft(Forget) \o (IF at.aside = "old" THEN <<RemoveAside>> ELSE <<>>)
  <2>1. Place' \notin Middle
    BY <1>28, Moves DEF Middle
  <2>2. (Cleanup("forgetting", left, "end") \/ UNCHANGED <<marker, pending>>) /\ UNCHANGED <<undo, hand>>
    BY <1>28 DEF RecordStranded, memory
  <2>3. RemoveNew \notin ToSet(left)
    BY CleanupSteps, StepsAre, StepsDiffer
  <2> HIDE DEF left
  <2>4. \/ UNCHANGED <<marker, pending>>
        \/ marker' = NoRecord /\ pending'.record.steps = left
    BY <2>2, CleanupRecords
  <2> QED BY <2>1, <2>2, <2>3, <2>4, NoStepRecorded DEF NewStays, FoundInv
<1>29. CASE End
  <2>1. Place' \notin Middle
    BY <1>29, Moves DEF Middle
  <2>2. marker' \in {marker, NoRecord} /\ UNCHANGED <<undo, pending, hand>>
    BY <1>29 DEF End, memory
  <2> QED BY <2>1, <2>2, NoStepRecorded DEF NewStays, FoundInv
<1>30. CASE UndoMark
  <2>1. Place' \notin Middle
    BY <1>30, Moves DEF Middle
  <2>2. undo' = undo \/ (Undoing(RestoreMark) /\ Undone)
    BY <1>30 DEF UndoMark
  <2>3. ToSet(undo') \subseteq ToSet(undo)
    BY <2>2, OneUndone
  <2>4. UNCHANGED <<marker, pending, hand>>
    BY <1>30 DEF UndoMark
  <2> QED BY <2>1, <2>3, <2>4 DEF NewStays, FoundInv
<1>31. CASE UndoNothingMade
  <2>1. Place' \notin Middle
    BY <1>31, Moves DEF Middle
  <2>2. undo' = undo \/ (Undoing(RemoveNew) /\ Undone)
    BY <1>31 DEF UndoNothingMade
  <2>3. ToSet(undo') \subseteq ToSet(undo)
    BY <2>2, OneUndone
  <2>4. UNCHANGED <<marker, pending, hand>>
    BY <1>31 DEF UndoNothingMade
  <2> QED BY <2>1, <2>3, <2>4 DEF NewStays, FoundInv
<1>32. CASE UndoNew
  <2>1. Place' \notin Middle
    BY <1>32, Moves DEF Middle
  <2>2. undo' = undo \/ (Undoing(RemoveNew) /\ Undone)
    BY <1>32 DEF UndoNew
  <2>3. ToSet(undo') \subseteq ToSet(undo)
    BY <2>2, OneUndone
  <2>4. UNCHANGED <<marker, pending, hand>>
    BY <1>32 DEF UndoNew
  <2> QED BY <2>1, <2>3, <2>4 DEF NewStays, FoundInv
<1>33. CASE UndoAside
  <2>1. Place' \notin Middle
    BY <1>33, Moves DEF Middle
  <2>2. undo' = undo \/ (Undoing(MoveBack) /\ Undone)
    BY <1>33 DEF UndoAside
  <2>3. ToSet(undo') \subseteq ToSet(undo)
    BY <2>2, OneUndone
  <2>4. UNCHANGED <<marker, pending, hand>>
    BY <1>33 DEF UndoAside
  <2> QED BY <2>1, <2>3, <2>4 DEF NewStays, FoundInv
<1>34. CASE UndoFails
  <2>1. Place' \notin Middle
    BY <1>34, Moves DEF Middle
  <2>2. undo # <<>> /\ Last(undo) \in ToSet(undo)
    BY <1>34, SeqFront DEF UndoFails, TypeInv, StepType
  <2>3. undo' = undo
    BY <1>34, <2>2 DEF UndoFails, NewStays
  <2>4. UNCHANGED <<marker, pending, hand>>
    BY <1>34 DEF UndoFails
  <2> QED BY <2>1, <2>3, <2>4 DEF NewStays, FoundInv
<1>35. CASE Stop
  <2>1. Place' \notin Middle
    BY <1>35, Moves DEF Middle
  <2>2. Cleanup("rollback-stopped", undoSteps(undo), "stopped") /\ UNCHANGED <<undo, hand>>
    BY <1>35 DEF Stop, memory
  <2>3. \/ UNCHANGED <<marker, pending>>
        \/ marker' = NoRecord /\ pending'.record.steps = undoSteps(undo)
    BY <2>2, CleanupRecords
  <2>4. ToSet(undoSteps(undo)) = ToSet(undo)
    BY SeqReversed DEF undoSteps, TypeInv, StepType
  <2> QED BY <2>1, <2>2, <2>3, <2>4, NoStepRecorded DEF NewStays, FoundInv
<1>36. CASE RolledBack
  <2>1. Place' \notin Middle
    BY <1>36, Moves DEF Middle
  <2>2. marker' \in {marker, NoRecord} /\ UNCHANGED <<undo, pending, hand>>
    BY <1>36 DEF RolledBack, memory
  <2> QED BY <2>1, <2>2, NoStepRecorded DEF NewStays, FoundInv
<1>37. ASSUME NEW e \in Entries, UndoCarryNothing(e) PROVE FoundInv'
  <2>1. Place' \notin Middle
    BY <1>37, Moves DEF Middle
  <2>2. undo' = undo \/ (Undoing(CarryBack(e)) /\ Undone)
    BY <1>37 DEF UndoCarryNothing
  <2>3. ToSet(undo') \subseteq ToSet(undo)
    BY <2>2, OneUndone
  <2>4. UNCHANGED <<marker, pending, hand>>
    BY <1>37 DEF UndoCarryNothing
  <2> QED BY <2>1, <2>3, <2>4 DEF NewStays, FoundInv
<1>38. ASSUME NEW e \in Entries, UndoCarryLooks(e) PROVE FoundInv'
  <2>1. Place' \notin Middle
    BY <1>38, Moves DEF NewStays, Middle, Early, Start
  <2>2. UNCHANGED <<undo, marker, pending, hand>>
    BY <1>38 DEF UndoCarryLooks
  <2> QED BY <2>1, <2>2 DEF NewStays, FoundInv
<1>39. ASSUME NEW e \in Entries, UndoCarryRenames(e) PROVE FoundInv'
  <2>1. Place' \notin Middle
    BY <1>39, Moves DEF Middle
  <2>2. undo' = undo \/ (Undoing(CarryBack(e)) /\ Undone)
    BY <1>39 DEF UndoCarryRenames
  <2>3. ToSet(undo') \subseteq ToSet(undo)
    BY <2>2, OneUndone
  <2>4. UNCHANGED <<marker, pending, hand>>
    BY <1>39 DEF UndoCarryRenames
  <2> QED BY <2>1, <2>3, <2>4 DEF NewStays, FoundInv
<1>40. ASSUME NEW e \in Entries, UndoCarryKeeps(e) PROVE FoundInv'
  <2>1. Place' \notin Middle
    BY <1>40, Moves DEF Middle
  <2>2. undo' = undo \/ (Undoing(CarryBack(e)) /\ Undone)
    BY <1>40 DEF UndoCarryKeeps
  <2>3. ToSet(undo') \subseteq ToSet(undo)
    BY <2>2, OneUndone
  <2>4. UNCHANGED <<marker, pending, hand>>
    BY <1>40 DEF UndoCarryKeeps
  <2> QED BY <2>1, <2>3, <2>4 DEF NewStays, FoundInv
<1>41. CASE Kill
  <2>1. Place' \notin Middle
    BY <1>41, Moves DEF NewStays, Middle, Early, Start
  <2>2. UNCHANGED <<undo, marker, pending, hand>>
    BY <1>41 DEF Kill, memory
  <2> QED BY <2>1, <2>2 DEF NewStays, FoundInv
<1>42. ASSUME NEW place \in {"slot", "aside"}, NEW item \in Items, Write(place, item) PROVE FoundInv'
  <2>1. Place' \notin Middle
    BY <1>42, Moves DEF NewStays
  <2>2. UNCHANGED <<undo, marker, pending, hand>>
    BY <1>42, WriteDoes DEF TypeInv, memory
  <2> QED BY <2>1, <2>2 DEF NewStays, FoundInv
<1>43. CASE ByPerson
  <2>1. Place' \notin Middle /\ UNCHANGED <<undo, pending>>
    BY <1>43, Moves DEF Ends, Middle, memory
  <2>2. marker' \in {marker, NoRecord}
    BY <1>43, HandTyped
  <2>3. CASE HandBegins
    <3>1. hand'.left = marker.cleanup \/ hand'.left = marker.steps
      BY <2>3 DEF HandBegins
    <3>2. marker.cleanup \in Seq(CleanSteps)
      BY DEF TypeInv, StepType, Recs
    <3>3. ToSet(marker.cleanup) \subseteq CleanSteps
      BY <3>2, LenProperties, ElementOfSeq DEF ToSet
    <3> QED BY <2>1, <2>2, <3>1, <3>3, StepsAre, StepsDiffer, NoStepRecorded DEF NewStays, FoundInv
  <2>4. CASE HandStep
    <3>1. \E step : ByHand(step) /\ (hand'.left = hand.left \/ hand'.left = Tail(hand.left))
      BY <2>4, HandMoves
    <3>2. ToSet(hand'.left) \subseteq ToSet(hand.left)
      BY <3>1, OneTaken
    <3> QED BY <2>1, <2>2, <3>2, NoStepRecorded DEF NewStays, FoundInv
  <2>5. CASE HandFinishes
    <3>1. hand'.left = hand.left
      BY <2>5 DEF HandFinishes, TypeInv, StepType
    <3> QED BY <2>1, <2>2, <3>1, NoStepRecorded DEF NewStays, FoundInv
  <2> QED BY <1>43, <2>3, <2>4, <2>5 DEF ByPerson
<1> QED BY <1>1, <1>2, <1>3, <1>4, <1>5, <1>6, <1>7, <1>8, <1>9, <1>10, <1>11, <1>12, <1>13, <1>14, <1>15,
        <1>16, <1>17, <1>18, <1>19, <1>20, <1>21, <1>22, <1>23, <1>24, <1>25, <1>26, <1>27, <1>28, <1>29,
        <1>30, <1>31, <1>32, <1>33, <1>34, <1>35, <1>36, <1>37, <1>38, <1>39, <1>40, <1>41, <1>42,
        <1>43 DEF SlotStep, Migrates, CleansUp, RollsBack, Writes

LEMMA EntryStep ==
  ASSUME TypeInv, Windows = FALSE, EntryInv, SlotStep
  PROVE  EntryInv'
<1>1. FoundInv'
  BY FoundStays, NewStaysStep DEF EntryInv, FoundInv
<1> QED BY <1>1, CopyStep, FreshStep, LookStep DEF EntryInv

LEMMA EntryStutters ==
  ASSUME EntryInv, Elsewhere
  PROVE  EntryInv'
<1>1. UNCHANGED <<pc, at, files, marker, pending, undo, listed, looked, written, hand>>
  BY ElsewhereKeeps
<1>2. UNCHANGED Place
  BY ElsewhereKeeps
<1>3. CopyInv' /\ FreshInv'
  BY <1>1, <1>2 DEF EntryInv, CopyInv, FreshInv, Somewhere
<1>4. FoundInv'
  BY <1>1, <1>2 DEF EntryInv, FoundInv, Found, NewStays
<1>5. LookInv'
  BY <1>1, <1>2 DEF EntryInv, LookInv, Has
<1> QED BY <1>3, <1>4, <1>5 DEF EntryInv

LEMMA EntryStarts ==
  ASSUME Init
  PROVE  EntryInv
<1>1. PICK there \in SUBSET Entries :
        files = [old |-> {<<e, 0>> : e \in there}, new |-> {}, kept |-> {}, stray |-> {}, taken |-> {}]
  BY DEF Init
<1>2. /\ files["old"] = {<<e, 0>> : e \in there} /\ files.new = {} /\ written = files["old"] /\ at.slot = "old"
      /\ Place = "prepare" /\ listed = {} /\ undo = <<>> /\ marker = NoRecord /\ pending.record = NoRecord
      /\ looked = NoEntry /\ hand.left = <<>>
  <2>1. files["old"] = {<<e, 0>> : e \in there} /\ files.new = {}
    BY <1>1
  <2>2. hand.left = <<>> /\ pending.record = NoRecord /\ at.slot = "old"
    BY DEF Init
  <2> QED BY <2>1, <2>2 DEF Init, Place
<1>3. \A c \in Checkouts : files[c] \subseteq written
  BY <1>1, <1>2 DEF Checkouts
<1>4. \A x \in written : x[1] \in Entries /\ Somewhere(x)
  BY <1>1, <1>2 DEF Checkouts, Somewhere
<1>5. CopyInv /\ FreshInv
  BY <1>2, <1>3, <1>4 DEF CopyInv, FreshInv, Emptied
<1>6. FoundInv
  BY <1>2, NoStepRecorded DEF FoundInv, NewStays, Middle
<1> QED BY <1>2, <1>5, <1>6 DEF EntryInv, LookInv

-----------------------------------------------------------------------------
(* The variables are typed.                                                  *)
THEOREM Typed == Spec => []TypeOK
<1>1. TypeInv => TypeOK
  BY DEF TypeInv, DiskType, MemoryType, StepType, TypeOK, Checkouts, Marks
<1>2. TypeInv /\ [Next]_vars => TypeInv'
  BY TypeStep, TypeStutters, SlotOrElsewhere
<1> QED BY <1>1, <1>2, TypeStarts, PTL DEF Spec

(* As long as writers do not hit between a check and the rename or removal it *)
(* is for, no copy of an entry the migrate found in the slot is lost, in no   *)
(* failure, rollback or kill, and by no one who follows its record: a copy is *)
(* renamed only to where there is none, and a checkout is removed only when   *)
(* the entries were listed and none of them is in it.                         *)
THEOREM EntriesAreKept == ASSUME Windows = FALSE PROVE Spec => []EntriesSurvive
<1> DEFINE I == TypeInv /\ EntryInv
<1>1. Init => I
  BY TypeStarts, EntryStarts
<1>2. I /\ [Next]_vars => I'
  BY TypeStep, TypeStutters, EntryStep, EntryStutters, SlotOrElsewhere
<1>3. I => EntriesSurvive
  BY DEF EntryInv, CopyInv, Somewhere, EntriesSurvive, Held, TypeInv, DiskType
<1> QED BY <1>1, <1>2, <1>3, PTL DEF Spec

-----------------------------------------------------------------------------
(* The order of the steps.                                                   *)

LEMMA Ranks ==
  /\ Rank(RestoreMark) = 1 /\ Rank(RemoveAside) = 1
  /\ Rank(MoveBack) = 2 /\ Rank(LookBeside) = 2 /\ Rank(Forget) = 2 /\ Rank(ForgetIfListed) = 2
  /\ Rank(RemoveNew) = 3 /\ Rank(LookAt) = 3 /\ Rank(MoveNewBack) = 3
  /\ \A e : Rank(CarryBack(e)) = 4
  /\ \A x : Rank(x) \in 1..4
<1>1. Rank(RestoreMark) = 1 /\ Rank(RemoveAside) = 1
  BY DEF Rank
<1>2. Rank(MoveBack) = 2 /\ Rank(LookBeside) = 2 /\ Rank(Forget) = 2 /\ Rank(ForgetIfListed) = 2
  BY StepsDiffer, StepsAre DEF Rank
<1>3. Rank(RemoveNew) = 3 /\ Rank(LookAt) = 3 /\ Rank(MoveNewBack) = 3
  BY StepsDiffer, StepsAre DEF Rank
<1>4. \A e : Rank(CarryBack(e)) = 4
  BY StepsDiffer, StepsAre DEF Rank
<1>5. \A x : Rank(x) \in 1..4
  BY DEF Rank
<1> QED BY <1>1, <1>2, <1>3, <1>4, <1>5

LEMMA CarriesRank ==
  \A x \in AllSteps : Rank(x) = 4 <=> \E e \in Entries : x = CarryBack(e)
<1>1. \A e : Rank(CarryBack(e)) = 4
  BY Ranks
<1>2. \A x \in AllSteps : Rank(x) = 4 => \E e \in Entries : x = CarryBack(e)
  BY DEF Rank, AllSteps, UndoSteps, CleanSteps
<1> QED BY <1>1, <1>2

LEMMA FrontStacked ==
  ASSUME NEW S, NEW s \in Seq(S), s # <<>>, Stacked(s)
  PROVE  /\ Stacked(Front(s))
         /\ \A x \in ToSet(Front(s)) : Before(x, Last(s))
<1>1. /\ Front(s) \in Seq(S) /\ Len(s) \in Nat \ {0} /\ Last(s) = s[Len(s)] /\ Len(Front(s)) = Len(s) - 1
      /\ \A i \in 1..(Len(s) - 1) : Front(s)[i] = s[i]
  BY SeqFront
<1> DEFINE t == Front(s)
<1> HIDE DEF t
<1>2. \A i, j \in 1..(Len(s) - 1) : i < j => Before(t[i], t[j])
  BY <1>1 DEF t, Stacked
<1>3. ASSUME NEW x \in ToSet(t) PROVE Before(x, Last(s))
  <2>1. DOMAIN t = 1..(Len(s) - 1)
    BY <1>1, LenProperties DEF t
  <2>2. PICK i \in 1..(Len(s) - 1) : x = t[i]
    BY <1>3, <2>1 DEF ToSet
  <2>3. i \in 1..Len(s) /\ Len(s) \in 1..Len(s) /\ i < Len(s) /\ x = s[i]
    BY <1>1, <2>2 DEF t
  <2> QED BY <1>1, <2>3 DEF Stacked
<1>4. Stacked(t)
  BY <1>1, <1>2 DEF Stacked, t
<1> QED BY <1>3, <1>4 DEF t

LEMMA JoinStacked ==
  ASSUME NEW S, NEW s \in Seq(S), NEW t \in Seq(S), Stacked(s), Stacked(t),
         \A x \in ToSet(s), y \in ToSet(t) : Before(x, y)
  PROVE  Stacked(s \o t)
<1> DEFINE u == s \o t
<1>1. /\ Len(u) = Len(s) + Len(t) /\ Len(s) \in Nat /\ Len(t) \in Nat
      /\ \A i \in 1..(Len(s) + Len(t)) : u[i] = IF i <= Len(s) THEN s[i] ELSE t[i - Len(s)]
  BY SeqJoins
<1>2. DOMAIN s = 1..Len(s) /\ DOMAIN t = 1..Len(t)
  BY LenProperties
<1> HIDE DEF u
<1> SUFFICES ASSUME NEW i \in 1..Len(u), NEW j \in 1..Len(u), i < j
             PROVE  Before(u[i], u[j])
  BY DEF Stacked, u
<1>3. CASE j <= Len(s)
  <2>1. i \in 1..Len(s) /\ j \in 1..Len(s) /\ u[i] = s[i] /\ u[j] = s[j]
    BY <1>1, <1>3
  <2> QED BY <2>1 DEF Stacked
<1>4. CASE ~(i <= Len(s))
  <2>1. /\ i - Len(s) \in 1..Len(t) /\ j - Len(s) \in 1..Len(t) /\ i - Len(s) < j - Len(s)
        /\ u[i] = t[i - Len(s)] /\ u[j] = t[j - Len(s)]
    BY <1>1, <1>4
  <2> QED BY <2>1 DEF Stacked
<1>5. CASE i <= Len(s) /\ ~(j <= Len(s))
  <2>1. i \in 1..Len(s) /\ j - Len(s) \in 1..Len(t) /\ u[i] = s[i] /\ u[j] = t[j - Len(s)]
    BY <1>1, <1>5
  <2>2. u[i] \in ToSet(s) /\ u[j] \in ToSet(t)
    BY <1>2, <2>1 DEF ToSet
  <2> QED BY <2>2
<1>6. i \in Nat /\ j \in Nat
  BY <1>1
<1> QED BY <1>1, <1>3, <1>4, <1>5, <1>6

LEMMA ReverseInOrder ==
  ASSUME NEW S, NEW s \in Seq(S), Stacked(s)
  PROVE  InOrder(Reverse(s))
<1> DEFINE t == Reverse(s)
<1>1. Len(t) = Len(s) /\ Len(s) \in Nat /\ \A i \in 1..Len(s) : t[i] = s[(Len(s) - i) + 1]
  BY SeqReversed
<1> HIDE DEF t
<1> SUFFICES ASSUME NEW i \in 1..Len(s), NEW j \in 1..Len(s), i < j
             PROVE  Before(t[j], t[i])
  BY <1>1 DEF InOrder, t
<1>2. /\ (Len(s) - i) + 1 \in 1..Len(s) /\ (Len(s) - j) + 1 \in 1..Len(s)
      /\ (Len(s) - j) + 1 < (Len(s) - i) + 1
  BY <1>1
<1> QED BY <1>1, <1>2 DEF Stacked

LEMMA TailInOrder ==
  ASSUME NEW S, NEW s \in Seq(S), s # <<>>, InOrder(s)
  PROVE  /\ InOrder(Tail(s))
         /\ \A x \in ToSet(Tail(s)) : Before(x, Head(s))
<1> DEFINE t == Tail(s)
<1>1. /\ t \in Seq(S) /\ Len(s) \in Nat \ {0} /\ Head(s) = s[1] /\ Len(t) = Len(s) - 1
      /\ \A i \in 1..(Len(s) - 1) : t[i] = s[i + 1]
  BY SeqPops
<1>2. DOMAIN t = 1..(Len(s) - 1)
  BY <1>1, LenProperties
<1> HIDE DEF t
<1>3. ASSUME NEW i \in 1..(Len(s) - 1), NEW j \in 1..(Len(s) - 1), i < j
      PROVE  Before(t[j], t[i])
  <2>1. i + 1 \in 1..Len(s) /\ j + 1 \in 1..Len(s) /\ i + 1 < j + 1 /\ t[i] = s[i + 1] /\ t[j] = s[j + 1]
    BY <1>1, <1>3
  <2> QED BY <2>1 DEF InOrder
<1>4. ASSUME NEW x \in ToSet(t) PROVE Before(x, Head(s))
  <2>1. PICK i \in 1..(Len(s) - 1) : x = t[i]
    BY <1>2, <1>4 DEF ToSet
  <2>2. 1 \in 1..Len(s) /\ i + 1 \in 1..Len(s) /\ 1 < i + 1 /\ x = s[i + 1]
    BY <1>1, <2>1
  <2> QED BY <1>1, <2>2 DEF InOrder
<1>5. InOrder(t)
  BY <1>1, <1>3 DEF InOrder
<1> QED BY <1>4, <1>5 DEF t

LEMMA ShortLists ==
  /\ Stacked(<<>>) /\ InOrder(<<>>)
  /\ \A x : Stacked(<<x>>) /\ InOrder(<<x>>)
  /\ \A x, y : Before(y, x) => InOrder(<<x, y>>)
  /\ \A x, y, z : Before(y, x) /\ Before(z, y) /\ Before(z, x) => InOrder(<<x, y, z>>)
  BY DEF Stacked, InOrder

LEMMA CarriesStacked ==
  ASSUME NEW L \in SUBSET Entries
  PROVE  Stacked(SetToSeq({CarryBack(e) : e \in L}))
<1> DEFINE s == SetToSeq({CarryBack(e) : e \in L})
<1>1. /\ s \in Seq(UndoSteps) /\ ToSet(s) = {CarryBack(e) : e \in L}
      /\ \A i, j \in 1..Len(s) : s[i] = s[j] => i = j
  BY CarriesAsSeq
<1> HIDE DEF s
<1>2. DOMAIN s = 1..Len(s) /\ Len(s) \in Nat
  BY <1>1, LenProperties
<1>3. \A i \in 1..Len(s) : Rank(s[i]) = 4
  <2>1. \A i \in 1..Len(s) : s[i] \in ToSet(s)
    BY <1>2 DEF ToSet
  <2> QED BY <1>1, <2>1, Ranks
<1>4. \A i, j \in 1..Len(s) : i < j => s[i] # s[j]
  BY <1>1, <1>2
<1> QED BY <1>3, <1>4 DEF Stacked, Before, s

LEMMA JoinInOrder ==
  ASSUME NEW S, NEW s \in Seq(S), NEW t \in Seq(S), InOrder(s), InOrder(t),
         \A x \in ToSet(s), y \in ToSet(t) : Before(y, x)
  PROVE  InOrder(s \o t)
<1> DEFINE u == s \o t
<1>1. /\ Len(u) = Len(s) + Len(t) /\ Len(s) \in Nat /\ Len(t) \in Nat
      /\ \A i \in 1..(Len(s) + Len(t)) : u[i] = IF i <= Len(s) THEN s[i] ELSE t[i - Len(s)]
  BY SeqJoins
<1>2. DOMAIN s = 1..Len(s) /\ DOMAIN t = 1..Len(t)
  BY LenProperties
<1> HIDE DEF u
<1> SUFFICES ASSUME NEW i \in 1..Len(u), NEW j \in 1..Len(u), i < j
             PROVE  Before(u[j], u[i])
  BY DEF InOrder, u
<1>3. CASE j <= Len(s)
  <2>1. i \in 1..Len(s) /\ j \in 1..Len(s) /\ u[i] = s[i] /\ u[j] = s[j]
    BY <1>1, <1>3
  <2> QED BY <2>1 DEF InOrder
<1>4. CASE ~(i <= Len(s))
  <2>1. /\ i - Len(s) \in 1..Len(t) /\ j - Len(s) \in 1..Len(t) /\ i - Len(s) < j - Len(s)
        /\ u[i] = t[i - Len(s)] /\ u[j] = t[j - Len(s)]
    BY <1>1, <1>4
  <2> QED BY <2>1 DEF InOrder
<1>5. CASE i <= Len(s) /\ ~(j <= Len(s))
  <2>1. i \in 1..Len(s) /\ j - Len(s) \in 1..Len(t) /\ u[i] = s[i] /\ u[j] = t[j - Len(s)]
    BY <1>1, <1>5
  <2>2. u[i] \in ToSet(s) /\ u[j] \in ToSet(t)
    BY <1>2, <2>1 DEF ToSet
  <2> QED BY <2>2
<1>6. i \in Nat /\ j \in Nat
  BY <1>1
<1> QED BY <1>1, <1>3, <1>4, <1>5, <1>6

LEMMA CleanupInOrder ==
  /\ InOrder(cleanupSteps) /\ InOrder(<<MoveNewBack, ForgetIfListed, RemoveAside>>)
  /\ InOrder(forgetLeft(Forget) \o <<RemoveAside>>)
  /\ InOrder(<<MoveNewBack>> \o forgetLeft(Forget) \o (IF at.aside = "old" THEN <<RemoveAside>> ELSE <<>>))
<1>1. /\ Before(RemoveAside, Forget) /\ Before(RemoveAside, ForgetIfListed) /\ Before(RemoveAside, MoveNewBack)
      /\ Before(Forget, MoveNewBack) /\ Before(ForgetIfListed, MoveNewBack)
  BY Ranks DEF Before
<1>2. InOrder(cleanupSteps) /\ InOrder(<<MoveNewBack, ForgetIfListed, RemoveAside>>)
  BY <1>1, ShortLists DEF cleanupSteps
<1> DEFINE last == IF at.aside = "old" THEN <<RemoveAside>> ELSE <<>>
           left == forgetLeft(Forget)
           one == <<MoveNewBack>>
<1>3. /\ left \in Seq(CleanSteps) /\ InOrder(left) /\ \A x \in ToSet(left) : x = Forget
      /\ last \in Seq(CleanSteps) /\ InOrder(last) /\ \A x \in ToSet(last) : x = RemoveAside
  BY StepsAre, ShortLists, SeqOfOne, SeqOfNone DEF forgetLeft
<1>4. \A x \in CleanSteps : <<x>> \in Seq(CleanSteps) /\ ToSet(<<x>>) = {x} /\ InOrder(<<x>>)
  BY SeqOfOne, ShortLists
<1>9. one \in Seq(CleanSteps) /\ ToSet(one) = {MoveNewBack} /\ InOrder(one)
  BY <1>4, StepsAre
<1> HIDE DEF last, left, one
<1>5. InOrder(left \o <<RemoveAside>>)
  BY <1>1, <1>3, <1>4, StepsAre, JoinInOrder
<1>6. one \o left \in Seq(CleanSteps) /\ ToSet(one \o left) = ToSet(one) \cup ToSet(left)
  BY ONLY <1>3, <1>9, SeqJoins
<1>7. InOrder(one \o left)
  BY <1>1, <1>3, <1>9, JoinInOrder
<1>8. InOrder((one \o left) \o last)
  BY <1>1, <1>3, <1>6, <1>7, <1>9, JoinInOrder
<1> QED BY <1>2, <1>5, <1>8 DEF last, left, one

LEMMA UndoneStacked ==
  ASSUME TypeInv, Stacked(undo), Paired(ToSet(undo)), NEW step, Undoing(step), undo' = undo \/ Undone
  PROVE  Stacked(undo') /\ Paired(ToSet(undo'))
<1>1. CASE undo' = undo
  BY <1>1
<1>2. CASE Undone
  <2>1. undo # <<>> /\ Last(undo) = step /\ undo' = Front(undo) /\ (\A x \in ToSet(undo) : x = step \/ x \in ToSet(undo'))
        /\ ToSet(undo') \subseteq ToSet(undo) /\ step \in ToSet(undo)
    BY <1>2, OneUndone
  <2>2. undo \in Seq(UndoSteps)
    BY DEF TypeInv, StepType
  <2>3. Stacked(undo') /\ \A x \in ToSet(undo') : Before(x, step)
    BY <2>1, <2>2, FrontStacked
  <2>4. ToSet(undo) \subseteq UndoSteps
    BY <2>2, LenProperties, ElementOfSeq DEF ToSet
  <2>5. Paired(ToSet(undo'))
    <3>1. SUFFICES ASSUME NEW x \in ToSet(undo'), x \in {RemoveNew, LookAt} \/ Rank(x) = 4
                   PROVE  MoveBack \in ToSet(undo')
      BY DEF Paired
    <3>0. x \in ToSet(undo)
      BY <2>1, <3>1
    <3>2. MoveBack \in ToSet(undo)
      BY <2>4, <3>0, <3>1 DEF Paired
    <3>3. Rank(x) > 2 /\ (Rank(x) < Rank(step) \/ Rank(step) = 4)
      BY <2>3, <3>1, Ranks DEF Before
    <3>4. step # MoveBack
      BY <3>3, Ranks
    <3> QED BY <2>1, <3>2, <3>4
  <2> QED BY <2>3, <2>5
<1> QED BY <1>1, <1>2

LEMMA StackStep ==
  ASSUME TypeInv, StackInv, SlotStep
  PROVE  StackInv'
<1>1. CASE Refuse
  <2>1. UNCHANGED <<undo, listed>>
    BY <1>1 DEF Refuse, memory
  <2> QED BY <1>1, <2>1, Moves DEF StackInv, Early, Start, Middle, Ends, Emptied
<1>2. CASE Prepare
  <2>1. ToSet(<<RestoreMark>>) = {RestoreMark} /\ Stacked(<<RestoreMark>>)
    BY SeqOfOne, ShortLists
  <2>2. undo' = undo \/ undo' = <<RestoreMark>>
    BY <1>2 DEF Prepare
  <2>3. Place = "prepare" /\ Place' = "begin"
    BY <1>2, Moves
  <2>4. Paired({RestoreMark})
    BY Ranks, StepsDiffer DEF Paired
  <2> QED BY <2>1, <2>2, <2>3, <2>4 DEF StackInv, Start, Middle
<1>3. CASE BeginMarker
  <2>1. UNCHANGED <<undo, listed>>
    BY <1>3 DEF BeginMarker, memory
  <2> QED BY <1>3, <2>1, Moves DEF StackInv, Early, Start, Middle, Ends, Emptied
<1>4. CASE SetAside
  <2>1. UNCHANGED <<undo, listed>>
    BY <1>4 DEF SetAside, memory
  <2> QED BY <1>4, <2>1, Moves DEF StackInv, Early, Start, Middle, Ends, Emptied
<1>5. CASE PushAside
  <2>1. Push(<<MoveBack>>, "repoint")
    BY <1>5 DEF PushAside
  <2>2. <<MoveBack>> \in Seq(UndoSteps) /\ ToSet(<<MoveBack>>) = {MoveBack} /\ Stacked(<<MoveBack>>)
    BY SeqOfOne, StepsAre, ShortLists
  <2>3. undo' = undo \o <<MoveBack>> /\ ToSet(undo') = ToSet(undo) \cup {MoveBack}
    BY <2>1, <2>2, PushedSteps
  <2>4. /\ Place = "push aside" /\ Place' \in {"repoint", "undo"}
        /\ ToSet(undo) \subseteq {RestoreMark} /\ Stacked(undo) /\ undo \in Seq(UndoSteps)
        /\ "push aside" = "check" => MoveBack \in ToSet(undo)
    BY <1>5, Moves DEF StackInv, Start, TypeInv, StepType
  <2>5. \A x \in ToSet(undo) : Before(x, MoveBack)
    <3>1. ToSet(undo) \subseteq {RestoreMark}
      BY <2>4
    <3> QED BY ONLY <3>1, Ranks DEF Before
  <2>6. Stacked(undo')
    BY <2>2, <2>3, <2>4, <2>5, JoinStacked
  <2>7. Paired(ToSet(undo'))
    BY <2>3, <2>4 DEF Paired
  <2> QED BY <2>3, <2>4, <2>6, <2>7 DEF StackInv, Start, Middle
<1>6. CASE Repoint
  <2>1. UNCHANGED <<undo, listed>>
    BY <1>6 DEF Repoint, memory
  <2> QED BY <1>6, <2>1, Moves DEF StackInv, Early, Start, Middle, Ends, Emptied
<1>7. CASE Check
  <2>1. Push(<<RemoveNew>>, "add")
    BY <1>7 DEF Check
  <2>2. <<RemoveNew>> \in Seq(UndoSteps) /\ ToSet(<<RemoveNew>>) = {RemoveNew} /\ Stacked(<<RemoveNew>>)
    BY SeqOfOne, StepsAre, ShortLists
  <2>3. undo' = undo \o <<RemoveNew>> /\ ToSet(undo') = ToSet(undo) \cup {RemoveNew}
    BY <2>1, <2>2, PushedSteps
  <2>4. /\ Place = "check" /\ Place' \in {"add", "undo"}
        /\ ToSet(undo) \subseteq {RestoreMark, MoveBack} /\ Stacked(undo) /\ undo \in Seq(UndoSteps)
        /\ "check" = "check" => MoveBack \in ToSet(undo)
    BY <1>7, Moves DEF StackInv, Start, TypeInv, StepType
  <2>5. \A x \in ToSet(undo) : Before(x, RemoveNew)
    <3>1. ToSet(undo) \subseteq {RestoreMark, MoveBack}
      BY <2>4
    <3> QED BY ONLY <3>1, Ranks DEF Before
  <2>6. Stacked(undo')
    BY <2>2, <2>3, <2>4, <2>5, JoinStacked
  <2>7. Paired(ToSet(undo'))
    BY <2>3, <2>4 DEF Paired
  <2> QED BY <2>3, <2>4, <2>6, <2>7 DEF StackInv, Start, Middle
<1>8. CASE AddBegins
  <2>1. UNCHANGED <<undo, listed>>
    BY <1>8 DEF AddBegins, memory
  <2> QED BY <1>8, <2>1, Moves DEF StackInv, Early, Start, Middle, Ends, Emptied
<1>9. CASE AddEnds
  <2>1. UNCHANGED <<undo, listed>>
    BY <1>9 DEF AddEnds
  <2> QED BY <1>9, <2>1, Moves DEF StackInv, Early, Start, Middle, Ends, Emptied
<1>10. CASE AddFails
  <2>1. UNCHANGED <<undo, listed>>
    BY <1>10 DEF AddFails, memory
  <2> QED BY <1>10, <2>1, Moves DEF StackInv, Early, Start, Middle, Ends, Emptied
<1>11. CASE PushCarry
  <2>0. /\ Place = "added" /\ Place' \in {"recordSaving", "carry", "undo"} /\ UNCHANGED listed
        /\ ToSet(undo) \subseteq {RestoreMark, MoveBack, RemoveNew} /\ Stacked(undo) /\ undo \in Seq(UndoSteps)
        /\ MoveBack \in ToSet(undo) /\ RemoveNew \in ToSet(undo)
    BY <1>11, Moves DEF PushCarry, StackInv, Middle, TypeInv, StepType
  <2>1. CASE listed = {}
    <3>1. UNCHANGED undo
      BY <1>11, <2>1 DEF PushCarry
    <3> QED BY <2>0, <2>1, <3>1 DEF StackInv, Start, Middle
  <2>2. CASE listed # {}
    <3> DEFINE carries == SetToSeq({CarryBack(e) : e \in listed})
    <3>1. carries \in Seq(UndoSteps) /\ ToSet(carries) = {CarryBack(e) : e \in listed} /\ Stacked(carries)
      BY CarriesAsSeq, CarriesStacked DEF TypeInv, MemoryType
    <3>2. Push(carries, "carry")
      BY <1>11, <2>2 DEF PushCarry
    <3> HIDE DEF carries
    <3>3. undo' = undo \o carries /\ ToSet(undo') = ToSet(undo) \cup {CarryBack(e) : e \in listed}
      BY <3>1, <3>2, PushedSteps
    <3>4. \A x \in ToSet(undo), y \in ToSet(carries) : Before(x, y)
      BY <2>0, <3>1, Ranks DEF Before
    <3>5. Stacked(undo')
      BY <2>0, <3>1, <3>3, <3>4, JoinStacked
    <3>6. Paired(ToSet(undo'))
      BY <2>0, <3>3 DEF Paired
    <3>7. Place' # "recordSaving"
      BY <3>2, PlaceAfter
    <3> QED BY <2>0, <3>3, <3>5, <3>6, <3>7 DEF StackInv, Start, Middle
  <2> QED BY <2>1, <2>2
<1>12. CASE CarryLooks
  <2>1. UNCHANGED <<undo, listed>>
    BY <1>12 DEF CarryLooks
  <2> QED BY <1>12, <2>1, Moves DEF StackInv, Early, Start, Middle, Ends, Emptied
<1>13. CASE CarryRenames
  <2>1. UNCHANGED <<undo, listed>>
    BY <1>13 DEF CarryRenames
  <2> QED BY <1>13, <2>1, Moves DEF StackInv, Early, Start, Middle, Ends, Emptied
<1>14. CASE RecordSaving
  <2>1. UNCHANGED <<undo, listed>>
    BY <1>14 DEF RecordSaving, memory
  <2> QED BY <1>14, <2>1, Moves DEF StackInv, Early, Start, Middle, Ends, Emptied
<1>15. CASE SaveDetaches
  <2>1. UNCHANGED <<undo, listed>>
    BY <1>15 DEF SaveDetaches, memory
  <2> QED BY <1>15, <2>1, Moves DEF StackInv, Early, Start, Middle, Ends, Emptied
<1>16. CASE SaveInstalls
  <2>1. UNCHANGED <<undo, listed>>
    BY <1>16 DEF SaveInstalls, memory
  <2> QED BY <1>16, <2>1, Moves DEF StackInv, Early, Start, Middle, Ends, Emptied
<1>17. CASE Saved
  <2>1. UNCHANGED <<undo, listed>>
    BY <1>17 DEF Saved, memory
  <2> QED BY <1>17, <2>1, Moves DEF StackInv, Early, Start, Middle, Ends, Emptied
<1>18. CASE CheckFails
  <2>1. UNCHANGED <<undo, listed>>
    BY <1>18 DEF CheckFails
  <2> QED BY <1>18, <2>1, Moves DEF StackInv, Early, Start, Middle, Ends, Emptied
<1>19. CASE InstallRecord
  <2>1. UNCHANGED <<undo, listed>>
    BY <1>19 DEF InstallRecord, memory
  <2> QED BY <1>19, <2>1, Moves DEF StackInv, Early, Start, Middle, Ends, Emptied
<1>20. CASE Finish
  <2>1. UNCHANGED <<undo, listed>>
    BY <1>20 DEF Finish, memory
  <2> QED BY <1>20, <2>1, Moves DEF StackInv, Early, Start, Middle, Ends, Emptied
<1>21. CASE SetNewAside
  <2>1. UNCHANGED <<undo, listed>>
    BY <1>21 DEF SetNewAside, memory
  <2> QED BY <1>21, <2>1, Moves DEF StackInv, Early, Start, Middle, Ends, Emptied
<1>22. CASE RecordForgetting
  <2>1. UNCHANGED <<undo, listed>>
    BY <1>22 DEF RecordForgetting, memory
  <2> QED BY <1>22, <2>1, Moves DEF StackInv, Early, Start, Middle, Ends, Emptied
<1>23. CASE ForgetName
  <2>1. UNCHANGED <<undo, listed>>
    BY <1>23 DEF ForgetName
  <2> QED BY <1>23, <2>1, Moves DEF StackInv, Early, Start, Middle, Ends, Emptied
<1>24. CASE RestoreNew
  <2>1. UNCHANGED <<undo, listed>>
    BY <1>24 DEF RestoreNew, memory
  <2> QED BY <1>24, <2>1, Moves DEF StackInv, Early, Start, Middle, Ends, Emptied
<1>25. CASE RecordRestored
  <2>1. UNCHANGED <<undo, listed>>
    BY <1>25 DEF RecordRestored, memory
  <2> QED BY <1>25, <2>1, Moves DEF StackInv, Early, Start, Middle, Ends, Emptied
<1>26. CASE RemoveOld
  <2>1. UNCHANGED <<undo, listed>>
    BY <1>26 DEF RemoveOld, memory
  <2> QED BY <1>26, <2>1, Moves DEF StackInv, Early, Start, Middle, Ends, Emptied
<1>27. CASE Deregister
  <2>1. UNCHANGED <<undo, listed>>
    BY <1>27 DEF Deregister, memory
  <2> QED BY <1>27, <2>1, Moves DEF StackInv, Early, Start, Middle, Ends, Emptied
<1>28. CASE RecordStranded
  <2>1. UNCHANGED <<undo, listed>>
    BY <1>28 DEF RecordStranded, memory
  <2> QED BY <1>28, <2>1, Moves DEF StackInv, Early, Start, Middle, Ends, Emptied
<1>29. CASE End
  <2>1. UNCHANGED <<undo, listed>>
    BY <1>29 DEF End, memory
  <2> QED BY <1>29, <2>1, Moves DEF StackInv, Early, Start, Middle, Ends, Emptied
<1>30. CASE UndoMark
  <2>1. Undoing(RestoreMark) /\ (undo' = undo \/ Undone)
    BY <1>30 DEF UndoMark
  <2>2. Stacked(undo) /\ Stacked(undo') /\ Paired(ToSet(undo'))
    BY <2>1, UndoneStacked DEF StackInv
  <2>3. Place' \in {"undo", "stop"}
    BY <1>30, Moves
  <2> QED BY <2>2, <2>3 DEF StackInv, Start, Middle
<1>31. CASE UndoNothingMade
  <2>1. Undoing(RemoveNew) /\ (undo' = undo \/ Undone)
    BY <1>31 DEF UndoNothingMade
  <2>2. Stacked(undo) /\ Stacked(undo') /\ Paired(ToSet(undo'))
    BY <2>1, UndoneStacked DEF StackInv
  <2>3. Place' \in {"undo", "stop"}
    BY <1>31, Moves
  <2> QED BY <2>2, <2>3 DEF StackInv, Start, Middle
<1>32. CASE UndoNew
  <2>1. Undoing(RemoveNew) /\ (undo' = undo \/ Undone)
    BY <1>32 DEF UndoNew
  <2>2. Stacked(undo) /\ Stacked(undo') /\ Paired(ToSet(undo'))
    BY <2>1, UndoneStacked DEF StackInv
  <2>3. Place' \in {"undo", "stop"}
    BY <1>32, Moves
  <2> QED BY <2>2, <2>3 DEF StackInv, Start, Middle
<1>33. CASE UndoAside
  <2>1. Undoing(MoveBack) /\ (undo' = undo \/ Undone)
    BY <1>33 DEF UndoAside
  <2>2. Stacked(undo) /\ Stacked(undo') /\ Paired(ToSet(undo'))
    BY <2>1, UndoneStacked DEF StackInv
  <2>3. Place' \in {"undo", "stop"}
    BY <1>33, Moves
  <2> QED BY <2>2, <2>3 DEF StackInv, Start, Middle
<1>34. CASE UndoFails
  <2>1. undo # <<>> /\ undo \in Seq(UndoSteps)
    BY <1>34 DEF UndoFails, TypeInv, StepType
  <2>2. Place' = "stop"
    BY <1>34, Moves
  <2>3. CASE undo' = undo
    BY <2>2, <2>3 DEF StackInv, Start, Middle
  <2>4. CASE undo' # undo
    <3>1. Last(undo) = RemoveNew /\ undo' = Append(Front(undo), LookAt)
      BY <1>34, <2>4 DEF UndoFails
    <3>2. Front(undo) \in Seq(UndoSteps) /\ LookAt \in UndoSteps
      BY <2>1, SeqFront, StepsAre
    <3>3. undo' = Front(undo) \o <<LookAt>>
      BY <3>1, <3>2, AppendIsConcat
    <3>4. Stacked(Front(undo)) /\ \A x \in ToSet(Front(undo)) : Before(x, RemoveNew)
      BY <2>1, <3>1, FrontStacked DEF StackInv
    <3>5. \A x \in ToSet(Front(undo)) : Before(x, LookAt)
      BY <3>4, Ranks DEF Before
    <3>6. <<LookAt>> \in Seq(UndoSteps) /\ ToSet(<<LookAt>>) = {LookAt} /\ Stacked(<<LookAt>>)
      BY <3>2, SeqOfOne, ShortLists
    <3>7. Stacked(undo') /\ ToSet(undo') = ToSet(Front(undo)) \cup {LookAt}
      <4> DEFINE front == Front(undo) look == <<LookAt>>
      <4>1. Front(undo) \in Seq(UndoSteps) /\ \A x \in ToSet(Front(undo)), y \in ToSet(<<LookAt>>) : Before(x, y)
        BY <3>2, <3>5, <3>6
      <4>2. Stacked(Front(undo) \o <<LookAt>>)
        BY ONLY <3>4, <3>6, <4>1, JoinStacked
      <4>3. ToSet(Front(undo) \o <<LookAt>>) = ToSet(Front(undo)) \cup ToSet(<<LookAt>>)
        <5>1. front \in Seq(UndoSteps) /\ look \in Seq(UndoSteps)
          BY <3>6, <4>1
        <5> HIDE DEF front, look
        <5>2. ToSet(front \o look) = ToSet(front) \cup ToSet(look)
          BY ONLY <5>1, SeqJoins
        <5> QED BY <5>2 DEF front, look
      <4> QED BY <3>3, <3>6, <4>2, <4>3
    <3>8. MoveBack \in ToSet(Front(undo))
      <4>1. RemoveNew \in ToSet(undo) /\ \A x \in ToSet(undo) : x = RemoveNew \/ x \in ToSet(Front(undo))
        BY <2>1, <3>1, SeqFront
      <4>2. ToSet(undo) \subseteq UndoSteps
        BY <2>1, LenProperties, ElementOfSeq DEF ToSet
      <4> QED BY <4>1, <4>2, StepsDiffer DEF StackInv, Paired
    <3> QED BY <2>2, <3>7, <3>8 DEF StackInv, Paired, Start, Middle
  <2> QED BY <2>3, <2>4
<1>35. CASE Stop
  <2>1. UNCHANGED <<undo, listed>>
    BY <1>35 DEF Stop, memory
  <2> QED BY <1>35, <2>1, Moves DEF StackInv, Early, Start, Middle, Ends, Emptied
<1>36. CASE RolledBack
  <2>1. UNCHANGED <<undo, listed>>
    BY <1>36 DEF RolledBack, memory
  <2> QED BY <1>36, <2>1, Moves DEF StackInv, Early, Start, Middle, Ends, Emptied
<1>37. ASSUME NEW e \in Entries, UndoCarryNothing(e) PROVE StackInv'
  <2>1. Undoing(CarryBack(e)) /\ (undo' = undo \/ Undone)
    BY <1>37 DEF UndoCarryNothing
  <2>2. Stacked(undo) /\ Stacked(undo') /\ Paired(ToSet(undo'))
    BY <2>1, UndoneStacked DEF StackInv
  <2>3. Place' \in {"undo", "stop"}
    BY <1>37, Moves
  <2> QED BY <2>2, <2>3 DEF StackInv, Start, Middle
<1>38. ASSUME NEW e \in Entries, UndoCarryLooks(e) PROVE StackInv'
  <2>1. UNCHANGED <<undo, listed>>
    BY <1>38 DEF UndoCarryLooks
  <2> QED BY <1>38, <2>1, Moves DEF StackInv, Early, Start, Middle, Ends, Emptied
<1>39. ASSUME NEW e \in Entries, UndoCarryRenames(e) PROVE StackInv'
  <2>1. Undoing(CarryBack(e)) /\ (undo' = undo \/ Undone)
    BY <1>39 DEF UndoCarryRenames
  <2>2. Stacked(undo) /\ Stacked(undo') /\ Paired(ToSet(undo'))
    BY <2>1, UndoneStacked DEF StackInv
  <2>3. Place' \in {"undo", "stop"}
    BY <1>39, Moves
  <2> QED BY <2>2, <2>3 DEF StackInv, Start, Middle
<1>40. ASSUME NEW e \in Entries, UndoCarryKeeps(e) PROVE StackInv'
  <2>1. Undoing(CarryBack(e)) /\ (undo' = undo \/ Undone)
    BY <1>40 DEF UndoCarryKeeps
  <2>2. Stacked(undo) /\ Stacked(undo') /\ Paired(ToSet(undo'))
    BY <2>1, UndoneStacked DEF StackInv
  <2>3. Place' \in {"undo", "stop"}
    BY <1>40, Moves
  <2> QED BY <2>2, <2>3 DEF StackInv, Start, Middle
<1>41. CASE Kill
  <2>1. UNCHANGED <<undo, listed>>
    BY <1>41 DEF Kill, memory
  <2> QED BY <1>41, <2>1, Moves DEF StackInv, Early, Start, Middle, Ends, Emptied
<1>42. ASSUME NEW place \in {"slot", "aside"}, NEW item \in Items, Write(place, item) PROVE StackInv'
  <2>1. UNCHANGED <<undo, listed>>
    BY <1>42, WriteDoes DEF TypeInv, memory
  <2> QED BY <1>42, <2>1, Moves DEF StackInv
<1>43. CASE ByPerson
  <2>1. UNCHANGED <<undo, listed>>
    BY <1>43, Moves DEF memory
  <2> QED BY <1>43, <2>1, Moves DEF StackInv
<1> QED BY <1>1, <1>2, <1>3, <1>4, <1>5, <1>6, <1>7, <1>8, <1>9, <1>10, <1>11, <1>12, <1>13, <1>14, <1>15,
        <1>16, <1>17, <1>18, <1>19, <1>20, <1>21, <1>22, <1>23, <1>24, <1>25, <1>26, <1>27, <1>28, <1>29,
        <1>30, <1>31, <1>32, <1>33, <1>34, <1>35, <1>36, <1>37, <1>38, <1>39, <1>40, <1>41, <1>42,
        <1>43 DEF SlotStep, Migrates, CleansUp, RollsBack, Writes

LEMMA CleanupUnpaired ==
  \A S : S \subseteq CleanSteps => Paired(S)
<1>1. \A x \in CleanSteps : x \notin {RemoveNew, LookAt} /\ Rank(x) # 4
  BY StepsAre, StepsDiffer, Ranks DEF CleanSteps
<1> QED BY <1>1 DEF Paired

LEMMA EmptyRecord == InRecord(NoRecord)
  BY NoStepRecorded, ShortLists DEF InRecord, Paired

LEMMA PushedInOrder ==
  ASSUME TypeInv, StackInv, StackInv', OrderInv, NEW undos \in Seq(UndoSteps), NEW next \in Nexts, Push(undos, next)
  PROVE  InRecord(marker') /\ InRecord(pending'.record)
<1>1. undo' \in Seq(UndoSteps) /\ Stacked(undo') /\ Paired(ToSet(undo'))
  BY PushTyped DEF StackInv
<1>2. InOrder(Reverse(undo'))
  BY ONLY <1>1, ReverseInOrder
<1>3. \/ /\ marker' = NoRecord /\ ToSet(pending'.record.steps) = ToSet(undo')
         /\ pending'.record = [phase |-> "migrating", steps |-> Reverse(undo'), cleanup |-> <<>>]
      \/ UNCHANGED <<marker, pending>>
  BY PushedSteps
<1>4. CASE /\ marker' = NoRecord /\ ToSet(pending'.record.steps) = ToSet(undo')
           /\ pending'.record = [phase |-> "migrating", steps |-> Reverse(undo'), cleanup |-> <<>>]
  <2>1. pending'.record.steps = Reverse(undo') /\ pending'.record.cleanup = <<>>
    BY <1>4
  <2> QED BY <1>1, <1>2, <1>4, <2>1, EmptyRecord, ShortLists DEF InRecord
<1>5. CASE UNCHANGED <<marker, pending>>
  BY <1>5 DEF OrderInv
<1> QED BY <1>3, <1>4, <1>5

LEMMA CleanupRecorded ==
  ASSUME OrderInv, NEW phase, NEW steps, NEW next, Cleanup(phase, steps, next), InOrder(steps), Paired(ToSet(steps))
  PROVE  InRecord(marker') /\ InRecord(pending'.record)
<1>1. \/ UNCHANGED <<marker, pending>>
      \/ marker' = NoRecord /\ pending'.record.steps = steps /\ pending'.record.cleanup = <<>>
  BY CleanupRecords
<1> QED BY <1>1, EmptyRecord, ShortLists DEF OrderInv, InRecord

LEMMA OrderStep ==
  ASSUME TypeInv, StackInv, OrderInv, SlotStep
  PROVE  OrderInv'
<1>1. CASE Refuse
  <2>1. UNCHANGED <<marker, pending, hand>>
    BY <1>1 DEF Refuse
  <2> QED BY <2>1 DEF OrderInv, InRecord
<1>2. CASE Prepare
  <2>1. UNCHANGED <<marker, pending, hand>>
    BY <1>2 DEF Prepare
  <2> QED BY <2>1 DEF OrderInv, InRecord
<1>3. CASE BeginMarker
  <2>1. UNCHANGED hand
    BY <1>3 DEF BeginMarker
  <2>2. \/ UNCHANGED <<marker, pending>>
        \/ marker' = NoRecord /\ pending'.record.steps = <<LookBeside>> /\ pending'.record.cleanup = <<>>
    BY <1>3, Records DEF BeginMarker
  <2>3. ToSet(<<LookBeside>>) = {LookBeside} /\ Rank(LookBeside) = 2 /\ LookBeside \notin {RemoveNew, LookAt}
    BY SeqOfOne, StepsAre, StepsDiffer, Ranks
  <2> QED BY <2>1, <2>2, <2>3, EmptyRecord, ShortLists DEF OrderInv, InRecord, Paired
<1>4. CASE SetAside
  <2>1. UNCHANGED <<marker, pending, hand>>
    BY <1>4 DEF SetAside
  <2> QED BY <2>1 DEF OrderInv, InRecord
<1>5. CASE PushAside
  <2>0. MoveBack \in UndoSteps
    BY StepsAre DEF UndoSteps
  <2>1. /\ <<MoveBack>> \in Seq(UndoSteps) /\ "repoint" \in Nexts
        /\ Push(<<MoveBack>>, "repoint") /\ UNCHANGED hand
    <3>1. <<MoveBack>> \in Seq(UndoSteps)
      BY ONLY <2>0
    <3>2. Push(<<MoveBack>>, "repoint") /\ UNCHANGED hand
      BY ONLY <1>5 DEF PushAside
    <3> QED BY <3>1, <3>2 DEF Nexts
  <2>2. StackInv'
    BY StackStep
  <2>3. InRecord(marker') /\ InRecord(pending'.record)
    BY <2>1, <2>2, PushedInOrder
  <2> QED BY <2>1, <2>3 DEF OrderInv
<1>6. CASE Repoint
  <2>1. UNCHANGED <<marker, pending, hand>>
    BY <1>6 DEF Repoint
  <2> QED BY <2>1 DEF OrderInv, InRecord
<1>7. CASE Check
  <2>0. RemoveNew \in UndoSteps
    BY StepsAre DEF UndoSteps
  <2>1. /\ <<RemoveNew>> \in Seq(UndoSteps) /\ "add" \in Nexts
        /\ Push(<<RemoveNew>>, "add") /\ UNCHANGED hand
    <3>1. <<RemoveNew>> \in Seq(UndoSteps)
      BY ONLY <2>0
    <3>2. Push(<<RemoveNew>>, "add") /\ UNCHANGED hand
      BY ONLY <1>7 DEF Check
    <3> QED BY <3>1, <3>2 DEF Nexts
  <2>2. StackInv'
    BY StackStep
  <2>3. InRecord(marker') /\ InRecord(pending'.record)
    BY <2>1, <2>2, PushedInOrder
  <2> QED BY <2>1, <2>3 DEF OrderInv
<1>8. CASE AddBegins
  <2>1. UNCHANGED <<marker, pending, hand>>
    BY <1>8 DEF AddBegins
  <2> QED BY <2>1 DEF OrderInv, InRecord
<1>9. CASE AddEnds
  <2>1. UNCHANGED <<marker, pending, hand>>
    BY <1>9 DEF AddEnds
  <2> QED BY <2>1 DEF OrderInv, InRecord
<1>10. CASE AddFails
  <2>1. UNCHANGED <<marker, pending, hand>>
    BY <1>10 DEF AddFails
  <2> QED BY <2>1 DEF OrderInv, InRecord
<1>11. CASE PushCarry
  <2>1. CASE listed = {}
    BY <1>11, <2>1 DEF PushCarry, OrderInv, InRecord
  <2>2. CASE listed # {}
    <3>1. SetToSeq({CarryBack(e) : e \in listed}) \in Seq(UndoSteps) /\ "carry" \in Nexts
      BY CarriesAsSeq DEF TypeInv, MemoryType, Nexts
    <3>2. Push(SetToSeq({CarryBack(e) : e \in listed}), "carry") /\ UNCHANGED hand
      BY <1>11, <2>2 DEF PushCarry
    <3>3. StackInv'
      BY StackStep
    <3>4. InRecord(marker') /\ InRecord(pending'.record)
      BY <3>1, <3>2, <3>3, PushedInOrder
    <3> QED BY <3>2, <3>4 DEF OrderInv
  <2> QED BY <2>1, <2>2
<1>12. CASE CarryLooks
  <2>1. UNCHANGED <<marker, pending, hand>>
    BY <1>12 DEF CarryLooks
  <2> QED BY <2>1 DEF OrderInv, InRecord
<1>13. CASE CarryRenames
  <2>1. UNCHANGED <<marker, pending, hand>>
    BY <1>13 DEF CarryRenames
  <2> QED BY <2>1 DEF OrderInv, InRecord
<1>14. CASE RecordSaving
  <2>1. Record("saving", undoSteps(undo), cleanupSteps, "save") /\ UNCHANGED hand
    BY <1>14 DEF RecordSaving
  <2>2. marker' = NoRecord /\ pending'.record.steps = undoSteps(undo) /\ pending'.record.cleanup = cleanupSteps
    BY <2>1, Records
  <2>3. undo \in Seq(UndoSteps) /\ Stacked(undo) /\ Paired(ToSet(undo))
    BY DEF TypeInv, StepType, StackInv
  <2>4. InOrder(undoSteps(undo)) /\ ToSet(undoSteps(undo)) = ToSet(undo)
    BY <2>3, ReverseInOrder, SeqReversed DEF undoSteps
  <2> QED BY <2>1, <2>2, <2>3, <2>4, EmptyRecord, CleanupInOrder DEF OrderInv, InRecord
<1>15. CASE SaveDetaches
  <2>1. UNCHANGED <<marker, pending, hand>>
    BY <1>15 DEF SaveDetaches
  <2> QED BY <2>1 DEF OrderInv, InRecord
<1>16. CASE SaveInstalls
  <2>1. UNCHANGED <<marker, pending, hand>>
    BY <1>16 DEF SaveInstalls
  <2> QED BY <2>1 DEF OrderInv, InRecord
<1>17. CASE Saved
  <2>1. Cleanup("saved", cleanupSteps, "finish") /\ UNCHANGED hand
    BY <1>17 DEF Saved
  <2>2. InRecord(marker') /\ InRecord(pending'.record)
    BY <2>1, CleanupRecorded, CleanupInOrder, CleanupSteps, CleanupUnpaired
  <2> QED BY <2>1, <2>2 DEF OrderInv
<1>18. CASE CheckFails
  <2>1. UNCHANGED <<marker, pending, hand>>
    BY <1>18 DEF CheckFails
  <2> QED BY <2>1 DEF OrderInv, InRecord
<1>19. CASE InstallRecord
  <2>1. marker' = pending.record /\ pending'.record = NoRecord /\ UNCHANGED hand
    BY <1>19 DEF InstallRecord
  <2> QED BY <2>1, EmptyRecord DEF OrderInv
<1>20. CASE Finish
  <2>1. UNCHANGED <<marker, pending, hand>>
    BY <1>20 DEF Finish
  <2> QED BY <2>1 DEF OrderInv, InRecord
<1>21. CASE SetNewAside
  <2>1. UNCHANGED <<marker, pending, hand>>
    BY <1>21 DEF SetNewAside
  <2> QED BY <2>1 DEF OrderInv, InRecord
<1>22. CASE RecordForgetting
  <2>1. Cleanup("forgetting", <<MoveNewBack, ForgetIfListed, RemoveAside>>, "forget name") /\ UNCHANGED hand
    BY <1>22 DEF RecordForgetting
  <2>2. InRecord(marker') /\ InRecord(pending'.record)
    BY <2>1, CleanupRecorded, CleanupInOrder, CleanupSteps, CleanupUnpaired
  <2> QED BY <2>1, <2>2 DEF OrderInv
<1>23. CASE ForgetName
  <2>1. UNCHANGED <<marker, pending, hand>>
    BY <1>23 DEF ForgetName
  <2> QED BY <2>1 DEF OrderInv, InRecord
<1>24. CASE RestoreNew
  <2>1. UNCHANGED <<marker, pending, hand>>
    BY <1>24 DEF RestoreNew
  <2> QED BY <2>1 DEF OrderInv, InRecord
<1>25. CASE RecordRestored
  <2>1. Cleanup("saved", forgetLeft(Forget) \o <<RemoveAside>>, "remove aside") /\ UNCHANGED hand
    BY <1>25 DEF RecordRestored
  <2>2. InRecord(marker') /\ InRecord(pending'.record)
    BY <2>1, CleanupRecorded, CleanupInOrder, CleanupSteps, CleanupUnpaired
  <2> QED BY <2>1, <2>2 DEF OrderInv
<1>26. CASE RemoveOld
  <2>1. UNCHANGED <<marker, pending, hand>>
    BY <1>26 DEF RemoveOld
  <2> QED BY <2>1 DEF OrderInv, InRecord
<1>27. CASE Deregister
  <2>1. UNCHANGED <<marker, pending, hand>>
    BY <1>27 DEF Deregister
  <2> QED BY <2>1 DEF OrderInv, InRecord
<1>28. CASE RecordStranded
  <2> DEFINE left == <<MoveNewBack>> \o forgetLeft(Forget) \o (IF at.aside = "old" THEN <<RemoveAside>> ELSE <<>>)
  <2>2. (Cleanup("forgetting", left, "end") \/ UNCHANGED <<marker, pending>>) /\ UNCHANGED hand
    BY <1>28 DEF RecordStranded
  <2>3. InOrder(left) /\ Paired(ToSet(left))
    BY CleanupSteps, CleanupInOrder, CleanupUnpaired
  <2> HIDE DEF left
  <2>4. InRecord(marker') /\ InRecord(pending'.record)
    BY <2>2, <2>3, CleanupRecorded DEF OrderInv
  <2> QED BY <2>2, <2>4 DEF OrderInv
<1>29. CASE End
  <2>2. marker' \in {marker, NoRecord} /\ UNCHANGED <<pending, hand>>
    BY <1>29 DEF End
  <2> QED BY <2>2, EmptyRecord DEF OrderInv
<1>30. CASE UndoMark
  <2>1. UNCHANGED <<marker, pending, hand>>
    BY <1>30 DEF UndoMark
  <2> QED BY <2>1 DEF OrderInv, InRecord
<1>31. CASE UndoNothingMade
  <2>1. UNCHANGED <<marker, pending, hand>>
    BY <1>31 DEF UndoNothingMade
  <2> QED BY <2>1 DEF OrderInv, InRecord
<1>32. CASE UndoNew
  <2>1. UNCHANGED <<marker, pending, hand>>
    BY <1>32 DEF UndoNew
  <2> QED BY <2>1 DEF OrderInv, InRecord
<1>33. CASE UndoAside
  <2>1. UNCHANGED <<marker, pending, hand>>
    BY <1>33 DEF UndoAside
  <2> QED BY <2>1 DEF OrderInv, InRecord
<1>34. CASE UndoFails
  <2>1. UNCHANGED <<marker, pending, hand>>
    BY <1>34 DEF UndoFails
  <2> QED BY <2>1 DEF OrderInv, InRecord
<1>35. CASE Stop
  <2>1. Cleanup("rollback-stopped", undoSteps(undo), "stopped") /\ UNCHANGED hand
    BY <1>35 DEF Stop
  <2>3. undo \in Seq(UndoSteps) /\ Stacked(undo) /\ Paired(ToSet(undo))
    BY DEF TypeInv, StepType, StackInv
  <2>4. InOrder(undoSteps(undo)) /\ ToSet(undoSteps(undo)) = ToSet(undo)
    BY <2>3, ReverseInOrder, SeqReversed DEF undoSteps
  <2>2. InRecord(marker') /\ InRecord(pending'.record)
    BY <2>1, <2>3, <2>4, CleanupRecorded
  <2> QED BY <2>1, <2>2 DEF OrderInv
<1>36. CASE RolledBack
  <2>2. marker' \in {marker, NoRecord} /\ UNCHANGED <<pending, hand>>
    BY <1>36 DEF RolledBack
  <2> QED BY <2>2, EmptyRecord DEF OrderInv
<1>37. ASSUME NEW e \in Entries, UndoCarryNothing(e) PROVE OrderInv'
  <2>1. UNCHANGED <<marker, pending, hand>>
    BY <1>37 DEF UndoCarryNothing
  <2> QED BY <2>1 DEF OrderInv, InRecord
<1>38. ASSUME NEW e \in Entries, UndoCarryLooks(e) PROVE OrderInv'
  <2>1. UNCHANGED <<marker, pending, hand>>
    BY <1>38 DEF UndoCarryLooks
  <2> QED BY <2>1 DEF OrderInv, InRecord
<1>39. ASSUME NEW e \in Entries, UndoCarryRenames(e) PROVE OrderInv'
  <2>1. UNCHANGED <<marker, pending, hand>>
    BY <1>39 DEF UndoCarryRenames
  <2> QED BY <2>1 DEF OrderInv, InRecord
<1>40. ASSUME NEW e \in Entries, UndoCarryKeeps(e) PROVE OrderInv'
  <2>1. UNCHANGED <<marker, pending, hand>>
    BY <1>40 DEF UndoCarryKeeps
  <2> QED BY <2>1 DEF OrderInv, InRecord
<1>41. CASE Kill
  <2>1. UNCHANGED <<marker, pending, hand>>
    BY <1>41 DEF Kill
  <2> QED BY <2>1 DEF OrderInv, InRecord
<1>42. ASSUME NEW place \in {"slot", "aside"}, NEW item \in Items, Write(place, item) PROVE OrderInv'
  <2>2. UNCHANGED <<marker, pending, hand>>
    BY <1>42, WriteDoes DEF TypeInv
  <2> QED BY <2>2 DEF OrderInv
<1>43. CASE ByPerson
  <2>1. UNCHANGED pending /\ marker' \in {marker, NoRecord}
    BY <1>43, Moves, HandTyped
  <2>2. InRecord(marker') /\ InRecord(pending'.record)
    BY <2>1, EmptyRecord DEF OrderInv
  <2>3. CASE HandBegins
    <3>1. hand'.left = marker.cleanup \/ hand'.left = marker.steps
      BY <2>3 DEF HandBegins
    <3> QED BY <2>2, <3>1 DEF OrderInv, InRecord
  <2>4. CASE HandStep
    <3>1. PICK step : ByHand(step) /\ (hand'.left = hand.left \/ hand'.left = Tail(hand.left))
      BY <2>4, HandMoves
    <3>2. hand.left # <<>> /\ hand.left \in Seq(AllSteps)
      BY <3>1 DEF ByHand, TypeInv, StepType
    <3>3. InOrder(Tail(hand.left))
      BY <3>2, TailInOrder DEF OrderInv
    <3> QED BY <2>2, <3>1, <3>3 DEF OrderInv
  <2>5. CASE HandFinishes
    <3>1. hand'.left = hand.left
      BY <2>5 DEF HandFinishes, TypeInv, StepType
    <3> QED BY <2>2, <3>1 DEF OrderInv
  <2> QED BY <1>43, <2>3, <2>4, <2>5 DEF ByPerson
<1> QED BY <1>1, <1>2, <1>3, <1>4, <1>5, <1>6, <1>7, <1>8, <1>9, <1>10, <1>11, <1>12, <1>13, <1>14, <1>15,
        <1>16, <1>17, <1>18, <1>19, <1>20, <1>21, <1>22, <1>23, <1>24, <1>25, <1>26, <1>27, <1>28, <1>29,
        <1>30, <1>31, <1>32, <1>33, <1>34, <1>35, <1>36, <1>37, <1>38, <1>39, <1>40, <1>41, <1>42,
        <1>43 DEF SlotStep, Migrates, CleansUp, RollsBack, Writes

(* Only the person takes steps once the record is followed.                  *)
LEMMA AwayStays ==
  ASSUME TypeInv, SlotStep
  PROVE  ByPerson \/ (hand.state = "away" /\ UNCHANGED hand)
<1>1. CASE Refuse
  <2>1. pc \notin Ends /\ UNCHANGED hand
    BY <1>1 DEF Refuse, Ends
  <2> QED BY <2>1 DEF TypeInv, PlaceType
<1>2. CASE Prepare
  <2>1. pc \notin Ends /\ UNCHANGED hand
    BY <1>2 DEF Prepare, Ends
  <2> QED BY <2>1 DEF TypeInv, PlaceType
<1>3. CASE BeginMarker
  <2>1. pc \notin Ends /\ UNCHANGED hand
    BY <1>3 DEF BeginMarker, Ends
  <2> QED BY <2>1 DEF TypeInv, PlaceType
<1>4. CASE SetAside
  <2>1. pc \notin Ends /\ UNCHANGED hand
    BY <1>4 DEF SetAside, Ends
  <2> QED BY <2>1 DEF TypeInv, PlaceType
<1>5. CASE PushAside
  <2>1. pc \notin Ends /\ UNCHANGED hand
    BY <1>5 DEF PushAside, Ends
  <2> QED BY <2>1 DEF TypeInv, PlaceType
<1>6. CASE Repoint
  <2>1. pc \notin Ends /\ UNCHANGED hand
    BY <1>6 DEF Repoint, Ends
  <2> QED BY <2>1 DEF TypeInv, PlaceType
<1>7. CASE Check
  <2>1. pc \notin Ends /\ UNCHANGED hand
    BY <1>7 DEF Check, Ends
  <2> QED BY <2>1 DEF TypeInv, PlaceType
<1>8. CASE AddBegins
  <2>1. pc \notin Ends /\ UNCHANGED hand
    BY <1>8 DEF AddBegins, Ends
  <2> QED BY <2>1 DEF TypeInv, PlaceType
<1>9. CASE AddEnds
  <2>1. pc \notin Ends /\ UNCHANGED hand
    BY <1>9 DEF AddEnds, Ends
  <2> QED BY <2>1 DEF TypeInv, PlaceType
<1>10. CASE AddFails
  <2>1. pc \notin Ends /\ UNCHANGED hand
    BY <1>10 DEF AddFails, Ends
  <2> QED BY <2>1 DEF TypeInv, PlaceType
<1>11. CASE PushCarry
  <2>1. pc \notin Ends /\ UNCHANGED hand
    BY <1>11 DEF PushCarry, Ends
  <2> QED BY <2>1 DEF TypeInv, PlaceType
<1>12. CASE CarryLooks
  <2>1. pc \notin Ends /\ UNCHANGED hand
    BY <1>12 DEF CarryLooks, Ends
  <2> QED BY <2>1 DEF TypeInv, PlaceType
<1>13. CASE CarryRenames
  <2>1. pc \notin Ends /\ UNCHANGED hand
    BY <1>13 DEF CarryRenames, Ends
  <2> QED BY <2>1 DEF TypeInv, PlaceType
<1>14. CASE RecordSaving
  <2>1. pc \notin Ends /\ UNCHANGED hand
    BY <1>14 DEF RecordSaving, Ends
  <2> QED BY <2>1 DEF TypeInv, PlaceType
<1>15. CASE SaveDetaches
  <2>1. pc \notin Ends /\ UNCHANGED hand
    BY <1>15 DEF SaveDetaches, Ends
  <2> QED BY <2>1 DEF TypeInv, PlaceType
<1>16. CASE SaveInstalls
  <2>1. pc \notin Ends /\ UNCHANGED hand
    BY <1>16 DEF SaveInstalls, Ends
  <2> QED BY <2>1 DEF TypeInv, PlaceType
<1>17. CASE Saved
  <2>1. pc \notin Ends /\ UNCHANGED hand
    BY <1>17 DEF Saved, Ends
  <2> QED BY <2>1 DEF TypeInv, PlaceType
<1>18. CASE CheckFails
  <2>1. pc \notin Ends /\ UNCHANGED hand
    BY <1>18 DEF CheckFails, Ends
  <2> QED BY <2>1 DEF TypeInv, PlaceType
<1>19. CASE InstallRecord
  <2>1. pc \notin Ends /\ UNCHANGED hand
    BY <1>19 DEF InstallRecord, Ends
  <2> QED BY <2>1 DEF TypeInv, PlaceType
<1>20. CASE Finish
  <2>1. pc \notin Ends /\ UNCHANGED hand
    BY <1>20 DEF Finish, Ends
  <2> QED BY <2>1 DEF TypeInv, PlaceType
<1>21. CASE SetNewAside
  <2>1. pc \notin Ends /\ UNCHANGED hand
    BY <1>21 DEF SetNewAside, Ends
  <2> QED BY <2>1 DEF TypeInv, PlaceType
<1>22. CASE RecordForgetting
  <2>1. pc \notin Ends /\ UNCHANGED hand
    BY <1>22 DEF RecordForgetting, Ends
  <2> QED BY <2>1 DEF TypeInv, PlaceType
<1>23. CASE ForgetName
  <2>1. pc \notin Ends /\ UNCHANGED hand
    BY <1>23 DEF ForgetName, Ends
  <2> QED BY <2>1 DEF TypeInv, PlaceType
<1>24. CASE RestoreNew
  <2>1. pc \notin Ends /\ UNCHANGED hand
    BY <1>24 DEF RestoreNew, Ends
  <2> QED BY <2>1 DEF TypeInv, PlaceType
<1>25. CASE RecordRestored
  <2>1. pc \notin Ends /\ UNCHANGED hand
    BY <1>25 DEF RecordRestored, Ends
  <2> QED BY <2>1 DEF TypeInv, PlaceType
<1>26. CASE RemoveOld
  <2>1. pc \notin Ends /\ UNCHANGED hand
    BY <1>26 DEF RemoveOld, Ends
  <2> QED BY <2>1 DEF TypeInv, PlaceType
<1>27. CASE Deregister
  <2>1. pc \notin Ends /\ UNCHANGED hand
    BY <1>27 DEF Deregister, Ends
  <2> QED BY <2>1 DEF TypeInv, PlaceType
<1>28. CASE RecordStranded
  <2>1. pc \notin Ends /\ UNCHANGED hand
    BY <1>28 DEF RecordStranded, Ends
  <2> QED BY <2>1 DEF TypeInv, PlaceType
<1>29. CASE End
  <2>1. pc \notin Ends /\ UNCHANGED hand
    BY <1>29 DEF End, Ends
  <2> QED BY <2>1 DEF TypeInv, PlaceType
<1>30. CASE UndoMark
  <2>1. pc \notin Ends /\ UNCHANGED hand
    BY <1>30 DEF UndoMark, MarkRestored, Undoing, Ends
  <2> QED BY <2>1 DEF TypeInv, PlaceType
<1>31. CASE UndoNothingMade
  <2>1. pc \notin Ends /\ UNCHANGED hand
    BY <1>31 DEF UndoNothingMade, Undoing, Ends
  <2> QED BY <2>1 DEF TypeInv, PlaceType
<1>32. CASE UndoNew
  <2>1. pc \notin Ends /\ UNCHANGED hand
    BY <1>32 DEF UndoNew, Undoing, Ends
  <2> QED BY <2>1 DEF TypeInv, PlaceType
<1>33. CASE UndoAside
  <2>1. pc \notin Ends /\ UNCHANGED hand
    BY <1>33 DEF UndoAside, Undoing, Ends
  <2> QED BY <2>1 DEF TypeInv, PlaceType
<1>34. CASE UndoFails
  <2>1. pc \notin Ends /\ UNCHANGED hand
    BY <1>34 DEF UndoFails, Ends
  <2> QED BY <2>1 DEF TypeInv, PlaceType
<1>35. CASE Stop
  <2>1. pc \notin Ends /\ UNCHANGED hand
    BY <1>35 DEF Stop, Ends
  <2> QED BY <2>1 DEF TypeInv, PlaceType
<1>36. CASE RolledBack
  <2>1. pc \notin Ends /\ UNCHANGED hand
    BY <1>36 DEF RolledBack, Ends
  <2> QED BY <2>1 DEF TypeInv, PlaceType
<1>37. ASSUME NEW e \in Entries, UndoCarryNothing(e) PROVE ByPerson \/ (hand.state = "away" /\ UNCHANGED hand)
  <2>1. pc \notin Ends /\ UNCHANGED hand
    BY <1>37 DEF UndoCarryNothing, Undoing, Ends
  <2> QED BY <2>1 DEF TypeInv, PlaceType
<1>38. ASSUME NEW e \in Entries, UndoCarryLooks(e) PROVE ByPerson \/ (hand.state = "away" /\ UNCHANGED hand)
  <2>1. pc \notin Ends /\ UNCHANGED hand
    BY <1>38 DEF UndoCarryLooks, Undoing, Ends
  <2> QED BY <2>1 DEF TypeInv, PlaceType
<1>39. ASSUME NEW e \in Entries, UndoCarryRenames(e) PROVE ByPerson \/ (hand.state = "away" /\ UNCHANGED hand)
  <2>1. pc \notin Ends /\ UNCHANGED hand
    BY <1>39 DEF UndoCarryRenames, Undoing, Ends
  <2> QED BY <2>1 DEF TypeInv, PlaceType
<1>40. ASSUME NEW e \in Entries, UndoCarryKeeps(e) PROVE ByPerson \/ (hand.state = "away" /\ UNCHANGED hand)
  <2>1. pc \notin Ends /\ UNCHANGED hand
    BY <1>40 DEF UndoCarryKeeps, Undoing, Ends
  <2> QED BY <2>1 DEF TypeInv, PlaceType
<1>41. CASE Kill
  <2>1. pc \notin Ends /\ UNCHANGED hand
    BY <1>41 DEF Kill, Ends, Over
  <2> QED BY <2>1 DEF TypeInv, PlaceType
<1>42. ASSUME NEW place \in {"slot", "aside"}, NEW item \in Items, Write(place, item) PROVE ByPerson \/ (hand.state = "away" /\ UNCHANGED hand)
  <2>1. hand.state = "away" /\ UNCHANGED hand
    BY <1>42, WriteDoes DEF TypeInv
  <2> QED BY <2>1
<1>43. CASE ByPerson
  BY <1>43
<1> QED BY <1>1, <1>2, <1>3, <1>4, <1>5, <1>6, <1>7, <1>8, <1>9, <1>10, <1>11, <1>12, <1>13, <1>14, <1>15,
        <1>16, <1>17, <1>18, <1>19, <1>20, <1>21, <1>22, <1>23, <1>24, <1>25, <1>26, <1>27, <1>28, <1>29,
        <1>30, <1>31, <1>32, <1>33, <1>34, <1>35, <1>36, <1>37, <1>38, <1>39, <1>40, <1>41, <1>42,
        <1>43 DEF SlotStep, Migrates, CleansUp, RollsBack, Writes

LEMMA BackByHand ==
  ASSUME HandStep, TypeInv, at.slot # "old", at'.slot = "old"
  PROVE  Head(hand.left) \in {MoveBack, LookBeside}
<1>1. CASE HandMovesBack
  BY <1>1 DEF HandMovesBack, ByHand
<1>2. CASE HandRestoresMark
  BY <1>2 DEF HandRestoresMark
<1>3. CASE HandCarriesBack
  BY <1>3, HandCarriesDoes DEF Stuck, disk
<1>4. CASE HandRemovesNew
  BY <1>4 DEF HandRemovesNew, Stuck, disk, TypeInv, DiskType
<1>5. CASE HandLooks
  BY <1>5 DEF HandLooks, TypeInv, DiskType
<1>6. CASE HandMovesNewBack
  BY <1>6 DEF HandMovesNewBack, Stuck, disk, TypeInv, DiskType
<1>7. CASE HandForgets
  BY <1>7 DEF HandForgets, Stuck, disk
<1>8. CASE HandRemovesAside
  BY <1>8 DEF HandRemovesAside, TypeInv, DiskType
<1> QED BY <1>1, <1>2, <1>3, <1>4, <1>5, <1>6, <1>7, <1>8 DEF HandStep

LEMMA HandKeepsStep ==
  ASSUME TypeInv, OrderInv, HandKeeps, SlotStep
  PROVE  HandKeeps'
<1>5. ByPerson => HandBegins \/ HandFinishes \/ hand.state # "away"
  BY DEF ByPerson, HandStep, HandMovesBack, HandRestoresMark, HandCarriesBack, HandRemovesNew, HandLooks,
       HandMovesNewBack, HandForgets, HandRemovesAside, ByHand
<1>1. CASE hand.state = "away" /\ ~HandBegins
  <2>1. hand'.state # "following"
    BY <1>1, <1>5, AwayStays DEF HandFinishes
  <2> QED BY <2>1 DEF HandKeeps
<1>2. CASE HandBegins
  <2>1. /\ hand'.misled = Stale /\ UNCHANGED <<at, marker>>
        /\ hand'.left = marker.cleanup \/ hand'.left = marker.steps
    BY <1>2 DEF HandBegins, disk
  <2>2. ToSet(marker.cleanup) \subseteq CleanSteps
    <3>1. marker.cleanup \in Seq(CleanSteps)
      BY DEF TypeInv, StepType, Recs
    <3> QED BY <3>1, LenProperties, ElementOfSeq DEF ToSet
  <2>3. RemoveNew \in ToSet(hand'.left) => hand'.left = marker.steps
    BY <2>1, <2>2, StepsAre, StepsDiffer
  <2>4. CASE MoveBack \in ToSet(marker.steps)
    BY <2>1, <2>4 DEF HandKeeps, Stale
  <2>5. CASE MoveBack \notin ToSet(marker.steps)
    BY <2>3, <2>5 DEF HandKeeps, OrderInv, InRecord, Paired
  <2> QED BY <2>4, <2>5
<1>3. CASE HandFinishes
  BY <1>3 DEF HandFinishes, TypeInv, StepType, HandKeeps
<1>4. CASE HandStep
  <2>1. PICK step : ByHand(step) /\ hand'.misled = hand.misled
                    /\ (hand'.left = Tail(hand.left) \/ hand'.state = "stuck")
    BY <1>4, HandMoves
  <2>2. hand.left \in Seq(AllSteps) /\ hand.left # <<>> /\ hand.state = "following" /\ InOrder(hand.left)
    BY <2>1 DEF ByHand, TypeInv, StepType, OrderInv
  <2>3. ToSet(Tail(hand.left)) \subseteq ToSet(hand.left)
    BY <2>1, OneTaken
  <2>4. CASE at'.slot # "old"
    BY <2>4 DEF HandKeeps
  <2>5. CASE at'.slot = "old" /\ at.slot # "old"
    <3>1. Head(hand.left) \in {MoveBack, LookBeside}
      BY <1>4, <2>5, BackByHand
    <3>2. \A x \in ToSet(Tail(hand.left)) : Before(x, Head(hand.left))
      BY <2>2, TailInOrder
    <3>3. RemoveNew \notin ToSet(Tail(hand.left))
      BY <3>1, <3>2, Ranks DEF Before
    <3> QED BY <2>1, <3>3 DEF HandKeeps
  <2>6. CASE at'.slot = "old" /\ at.slot = "old"
    BY <2>1, <2>2, <2>3, <2>6 DEF HandKeeps
  <2> QED BY <2>4, <2>5, <2>6
<1>6. hand.state # "away" => ByPerson
  BY AwayStays
<1> QED BY <1>1, <1>2, <1>3, <1>4, <1>5, <1>6 DEF ByPerson

LEMMA UndoStutters ==
  ASSUME StackInv, OrderInv, Elsewhere
  PROVE  StackInv' /\ OrderInv'
<1>1. UNCHANGED <<pc, at, marker, pending, undo, listed, hand>>
  BY ElsewhereKeeps
<1>2. UNCHANGED Place
  BY ElsewhereKeeps
<1>3. StackInv'
  BY <1>1, <1>2 DEF StackInv
<1> QED BY <1>1, <1>3 DEF OrderInv

LEMMA KeepsStutters ==
  ASSUME HandKeeps, Elsewhere
  PROVE  HandKeeps'
  BY ElsewhereKeeps DEF HandKeeps

LEMMA UndoStarts ==
  ASSUME Init
  PROVE  StackInv /\ OrderInv /\ HandKeeps
<1>1. undo = <<>> /\ marker = NoRecord /\ pending.record = NoRecord /\ hand.left = <<>> /\ hand.state = "away"
      /\ Place = "prepare"
  BY DEF Init, Place
<1>2. Stacked(<<>>) /\ InOrder(<<>>) /\ ToSet(<<>>) = {}
  BY ShortLists, SeqOfNone
<1>3. StackInv
  BY <1>1, <1>2 DEF StackInv, Paired, Start, Middle
<1>4. OrderInv /\ HandKeeps
  BY <1>1, <1>2, EmptyRecord DEF OrderInv, HandKeeps
<1> QED BY <1>3, <1>4

LEMMA OldStaysStep ==
  ASSUME TypeInv, Windows = FALSE, EntryInv, HandKeeps, SlotStep
  PROVE  OldStays
<1>1. CASE Refuse
  <2>1. UNCHANGED files
    BY <1>1 DEF Refuse, disk
  <2> QED BY <2>1 DEF OldStays, Somewhere, Checkouts
<1>2. CASE Prepare
  <2>1. UNCHANGED files
    BY <1>2 DEF Prepare
  <2> QED BY <2>1 DEF OldStays, Somewhere, Checkouts
<1>3. CASE BeginMarker
  <2>1. UNCHANGED files
    BY <1>3 DEF BeginMarker, disk
  <2> QED BY <2>1 DEF OldStays, Somewhere, Checkouts
<1>4. CASE SetAside
  <2>1. UNCHANGED files
    BY <1>4 DEF SetAside
  <2> QED BY <2>1 DEF OldStays, Somewhere, Checkouts
<1>5. CASE PushAside
  <2>1. UNCHANGED files
    BY <1>5 DEF PushAside, disk
  <2> QED BY <2>1 DEF OldStays, Somewhere, Checkouts
<1>6. CASE Repoint
  <2>1. UNCHANGED files
    BY <1>6 DEF Repoint
  <2> QED BY <2>1 DEF OldStays, Somewhere, Checkouts
<1>7. CASE Check
  <2>1. UNCHANGED files
    BY <1>7 DEF Check, disk
  <2> QED BY <2>1 DEF OldStays, Somewhere, Checkouts
<1>8. CASE AddBegins
  <2>1. UNCHANGED files
    BY <1>8 DEF AddBegins
  <2> QED BY <2>1 DEF OldStays, Somewhere, Checkouts
<1>9. CASE AddEnds
  <2>1. UNCHANGED files
    BY <1>9 DEF AddEnds
  <2> QED BY <2>1 DEF OldStays, Somewhere, Checkouts
<1>10. CASE AddFails
  <2>1. files' = files \/ files' = [files EXCEPT !.new = {}]
    BY <1>10 DEF AddFails
  <2>2. files'["old"] = files["old"]
    BY <2>1 DEF TypeInv, DiskType, Checkouts
  <2> QED BY <2>2 DEF OldStays, Somewhere, Checkouts
<1>11. CASE PushCarry
  <2>1. UNCHANGED files
    BY <1>11 DEF PushCarry, disk
  <2> QED BY <2>1 DEF OldStays, Somewhere, Checkouts
<1>12. CASE CarryLooks
  <2>1. UNCHANGED files
    BY <1>12 DEF CarryLooks, disk
  <2> QED BY <2>1 DEF OldStays, Somewhere, Checkouts
<1>13. CASE CarryRenames
  <2>1. looked \in Entries /\ ~Has("new", looked) /\ Rename(looked, "old", "new")
    BY <1>13, Moves DEF CarryRenames, EntryInv, LookInv, TypeInv, MemoryType
  <2>2. \A x : Somewhere(x) => \E c \in Checkouts : x \in files'[c]
    BY <2>1, RenamedStay DEF EntryInv, Checkouts
  <2> QED BY <2>2 DEF OldStays, Somewhere, Checkouts
<1>14. CASE RecordSaving
  <2>1. UNCHANGED files
    BY <1>14 DEF RecordSaving, disk
  <2> QED BY <2>1 DEF OldStays, Somewhere, Checkouts
<1>15. CASE SaveDetaches
  <2>1. UNCHANGED files
    BY <1>15 DEF SaveDetaches
  <2> QED BY <2>1 DEF OldStays, Somewhere, Checkouts
<1>16. CASE SaveInstalls
  <2>1. UNCHANGED files
    BY <1>16 DEF SaveInstalls
  <2> QED BY <2>1 DEF OldStays, Somewhere, Checkouts
<1>17. CASE Saved
  <2>1. UNCHANGED files
    BY <1>17 DEF Saved, disk
  <2> QED BY <2>1 DEF OldStays, Somewhere, Checkouts
<1>18. CASE CheckFails
  <2>1. UNCHANGED files
    BY <1>18 DEF CheckFails, disk
  <2> QED BY <2>1 DEF OldStays, Somewhere, Checkouts
<1>19. CASE InstallRecord
  <2>1. UNCHANGED files
    BY <1>19 DEF InstallRecord, disk
  <2> QED BY <2>1 DEF OldStays, Somewhere, Checkouts
<1>20. CASE Finish
  <2>1. UNCHANGED files
    BY <1>20 DEF Finish, disk
  <2> QED BY <2>1 DEF OldStays, Somewhere, Checkouts
<1>21. CASE SetNewAside
  <2>1. UNCHANGED files
    BY <1>21 DEF SetNewAside
  <2> QED BY <2>1 DEF OldStays, Somewhere, Checkouts
<1>22. CASE RecordForgetting
  <2>1. UNCHANGED files
    BY <1>22 DEF RecordForgetting, disk
  <2> QED BY <2>1 DEF OldStays, Somewhere, Checkouts
<1>23. CASE ForgetName
  <2>1. UNCHANGED files
    BY <1>23 DEF ForgetName
  <2> QED BY <2>1 DEF OldStays, Somewhere, Checkouts
<1>24. CASE RestoreNew
  <2>1. UNCHANGED files
    BY <1>24 DEF RestoreNew
  <2> QED BY <2>1 DEF OldStays, Somewhere, Checkouts
<1>25. CASE RecordRestored
  <2>1. UNCHANGED files
    BY <1>25 DEF RecordRestored, disk
  <2> QED BY <2>1 DEF OldStays, Somewhere, Checkouts
<1>26. CASE RemoveOld
  <2>1. files["old"] = {}
    BY <1>26, Moves DEF EntryInv, FreshInv, Emptied
  <2> QED BY <2>1 DEF OldStays
<1>27. CASE Deregister
  <2>1. UNCHANGED files
    BY <1>27 DEF Deregister
  <2> QED BY <2>1 DEF OldStays, Somewhere, Checkouts
<1>28. CASE RecordStranded
  <2>1. UNCHANGED files
    BY <1>28 DEF RecordStranded, disk
  <2> QED BY <2>1 DEF OldStays, Somewhere, Checkouts
<1>29. CASE End
  <2>1. UNCHANGED files
    BY <1>29 DEF End, disk
  <2> QED BY <2>1 DEF OldStays, Somewhere, Checkouts
<1>30. CASE UndoMark
  <2>1. UNCHANGED files
    BY <1>30 DEF UndoMark
  <2> QED BY <2>1 DEF OldStays, Somewhere, Checkouts
<1>31. CASE UndoNothingMade
  <2>1. UNCHANGED files
    BY <1>31 DEF UndoNothingMade, disk
  <2> QED BY <2>1 DEF OldStays, Somewhere, Checkouts
<1>32. CASE UndoNew
  <2>1. files' = files \/ files' = [files EXCEPT !.new = {}]
    BY <1>32 DEF UndoNew
  <2>2. files'["old"] = files["old"]
    BY <2>1 DEF TypeInv, DiskType, Checkouts
  <2> QED BY <2>2 DEF OldStays, Somewhere, Checkouts
<1>33. CASE UndoAside
  <2>1. UNCHANGED files
    BY <1>33 DEF UndoAside
  <2> QED BY <2>1 DEF OldStays, Somewhere, Checkouts
<1>34. CASE UndoFails
  <2>1. UNCHANGED files
    BY <1>34 DEF UndoFails, disk
  <2> QED BY <2>1 DEF OldStays, Somewhere, Checkouts
<1>35. CASE Stop
  <2>1. UNCHANGED files
    BY <1>35 DEF Stop, disk
  <2> QED BY <2>1 DEF OldStays, Somewhere, Checkouts
<1>36. CASE RolledBack
  <2>1. UNCHANGED files
    BY <1>36 DEF RolledBack, disk
  <2> QED BY <2>1 DEF OldStays, Somewhere, Checkouts
<1>37. ASSUME NEW e \in Entries, UndoCarryNothing(e) PROVE OldStays
  <2>1. UNCHANGED files
    BY <1>37 DEF UndoCarryNothing, disk
  <2> QED BY <2>1 DEF OldStays, Somewhere, Checkouts
<1>38. ASSUME NEW e \in Entries, UndoCarryLooks(e) PROVE OldStays
  <2>1. UNCHANGED files
    BY <1>38 DEF UndoCarryLooks, disk
  <2> QED BY <2>1 DEF OldStays, Somewhere, Checkouts
<1>39. ASSUME NEW e \in Entries, UndoCarryRenames(e) PROVE OldStays
  <2>0. looked # NoEntry
    BY <1>39, EntriesAssumption DEF UndoCarryRenames
  <2>1. e \in Entries /\ ~Has("old", e) /\ Rename(e, "new", "old")
    BY <1>39, <2>0, Moves DEF UndoCarryRenames, EntryInv, LookInv
  <2>2. \A x : Somewhere(x) => \E c \in Checkouts : x \in files'[c]
    BY <2>1, RenamedStay DEF EntryInv, Checkouts
  <2> QED BY <2>2 DEF OldStays, Somewhere, Checkouts
<1>40. ASSUME NEW e \in Entries, UndoCarryKeeps(e) PROVE OldStays
  <2>1. e \in Entries /\ ~Has("kept", e) /\ Rename(e, "new", "kept")
    BY <1>40 DEF UndoCarryKeeps
  <2>2. \A x : Somewhere(x) => \E c \in Checkouts : x \in files'[c]
    BY <2>1, RenamedStay DEF EntryInv, Checkouts
  <2> QED BY <2>2 DEF OldStays, Somewhere, Checkouts
<1>41. CASE Kill
  <2>1. UNCHANGED files
    BY <1>41 DEF Kill, disk
  <2> QED BY <2>1 DEF OldStays, Somewhere, Checkouts
<1>42. ASSUME NEW place \in {"slot", "aside"}, NEW item \in Items, Write(place, item) PROVE OldStays
  <2>1. PICK c \in {"old", "new", "stray"}, n \in 1..MaxWrites :
           /\ files'[c] = files[c] \cup {<<item, n>>}
           /\ \A d \in Checkouts : d # c => files'[d] = files[d]
    BY <1>42, WriteDoes DEF TypeInv
  <2>2. files["old"] \subseteq files'["old"]
    BY <2>1 DEF Checkouts
  <2> QED BY <2>2 DEF OldStays, Somewhere, Checkouts
<1>43. CASE ByPerson
  <2>1. CASE UNCHANGED files
    BY <2>1 DEF OldStays, Somewhere, Checkouts
  <2>2. CASE HandCarriesBack /\ ~UNCHANGED files
    <3>1. PICK e \in Entries, t \in {"old", "kept"} :
            at.slot # "none" /\ Has(at.slot, e) /\ ~Has(t, e) /\ Rename(e, at.slot, t)
      BY <2>2, HandCarriesDoes DEF Stuck, disk
    <3>2. at.slot \in Checkouts /\ t \in Checkouts /\ at.slot # t
      BY <3>1 DEF TypeInv, DiskType, Checkouts
    <3>3. \A x : Somewhere(x) => \E c \in Checkouts : x \in files'[c]
      BY <3>1, <3>2, RenamedStay DEF EntryInv
    <3> QED BY <3>3 DEF OldStays, Somewhere, Checkouts
  <2>3. CASE HandRemovesNew /\ ~UNCHANGED files
    <3>1. ByHand(RemoveNew) /\ files' = [files EXCEPT ![at.slot] = {}]
      BY <2>3 DEF HandRemovesNew, Stuck, disk
    <3>2. ~hand.misled => at.slot # "old"
      BY <3>1, OneTaken DEF HandKeeps
    <3>3. ~hand.misled => files'["old"] = files["old"]
      BY <3>1, <3>2 DEF TypeInv, DiskType, Checkouts
    <3> QED BY <3>3 DEF OldStays, Somewhere, Checkouts
  <2>4. CASE HandLooks /\ ~UNCHANGED files
    <3>1. files' = [files EXCEPT ![at.slot] = {}, !.taken = @ \cup files[at.slot]] /\ at.slot # "none"
      BY <2>4 DEF HandLooks
    <3>2. at.slot \in Checkouts /\ at.slot # "taken"
      BY <3>1 DEF TypeInv, DiskType, Checkouts
    <3>3. files'["old"] = files["old"] \/ files["old"] \subseteq files'["taken"]
      BY <3>1, <3>2 DEF TypeInv, DiskType, Checkouts
    <3> QED BY <3>3 DEF OldStays, Somewhere, Checkouts
  <2>5. CASE HandRemovesAside
    <3>1. files' = [files EXCEPT !.old = {}, !.taken = @ \cup files.old]
      BY <2>5 DEF HandRemovesAside
    <3>2. files["old"] \subseteq files'["taken"]
      BY <3>1 DEF TypeInv, DiskType, Checkouts
    <3> QED BY <3>2 DEF OldStays, Somewhere, Checkouts
  <2>6. HandMovesBack \/ HandRestoresMark \/ HandMovesNewBack \/ HandForgets \/ HandBegins \/ HandFinishes =>
          UNCHANGED files
    BY DEF HandMovesBack, HandRestoresMark, HandMovesNewBack, HandForgets, HandBegins, HandFinishes, Stuck, disk
  <2> QED BY <1>43, <2>1, <2>2, <2>3, <2>4, <2>5, <2>6 DEF ByPerson, HandStep
<1> QED BY <1>1, <1>2, <1>3, <1>4, <1>5, <1>6, <1>7, <1>8, <1>9, <1>10, <1>11, <1>12, <1>13, <1>14, <1>15,
        <1>16, <1>17, <1>18, <1>19, <1>20, <1>21, <1>22, <1>23, <1>24, <1>25, <1>26, <1>27, <1>28, <1>29,
        <1>30, <1>31, <1>32, <1>33, <1>34, <1>35, <1>36, <1>37, <1>38, <1>39, <1>40, <1>41, <1>42,
        <1>43 DEF SlotStep, Migrates, CleansUp, RollsBack, Writes

-----------------------------------------------------------------------------
(* As long as writers do not hit between a check and its use, what the old    *)
(* checkout holds, a change to a tracked file or an entry no one listed       *)
(* included, is still held somewhere after every step of the migrate, of its  *)
(* rollback and of a person whose record fits the disk: the old checkout is   *)
(* removed only empty or into what the person took out, and is not at its     *)
(* path while a step that removes what is there is still to come.             *)
THEOREM OldWorkIsKept == ASSUME Windows = FALSE PROVE Spec => OldKeepsItsWork
<1> DEFINE I == TypeInv /\ EntryInv /\ StackInv /\ OrderInv /\ HandKeeps
<1>1. Init => I
  BY TypeStarts, EntryStarts, UndoStarts
<1>2. I /\ [Next]_vars => I'
  BY TypeStep, TypeStutters, EntryStep, EntryStutters, StackStep, OrderStep, HandKeepsStep, UndoStutters,
     KeepsStutters, SlotOrElsewhere
<1>3. I /\ [Next]_vars => [~hand.misled => \A copy \in files.old : copy \in Held']_vars
  <2> SUFFICES ASSUME I, Next PROVE ~hand.misled => \A copy \in files.old : copy \in Held'
    OBVIOUS
  <2>1. OldStays /\ I'
    <3>1. CASE SlotStep
      BY <1>2, <3>1, OldStaysStep
    <3>2. CASE Elsewhere
      <4>1. UNCHANGED files
        BY <3>2, ElsewhereKeeps
      <4> QED BY <1>2, <4>1 DEF OldStays, Somewhere, Checkouts
    <3> QED BY <3>1, <3>2, SlotOrElsewhere
  <2>2. \A copy : Somewhere(copy)' => copy \in Held'
    BY <2>1 DEF Somewhere, Held, TypeInv, DiskType
  <2> QED BY <2>1, <2>2 DEF OldStays
<1> QED BY <1>1, <1>2, <1>3, PTL DEF Spec, OldKeepsItsWork

LEMMA PersonStays ==
  ASSUME TypeInv, ByPerson
  PROVE  hand'.state # "away"
<1>1. CASE HandBegins
  BY <1>1 DEF HandBegins
<1>2. CASE HandStep
  <2>1. hand'.state = "following" \/ hand'.state = "stuck"
    BY <1>2, HandMoves
  <2> QED BY <2>1
<1>3. CASE HandFinishes
  BY <1>3 DEF HandFinishes, TypeInv, StepType
<1> QED BY <1>1, <1>2, <1>3 DEF ByPerson

LEMMA HomeStep ==
  ASSUME TypeInv, StackInv, HomeInv, SlotStep
  PROVE  HomeInv'
<1>1. CASE Refuse
  <2>1. Place' = "refused"
    BY <1>1, Moves
  <2> QED BY <2>1 DEF HomeInv, Undoable, Early, Start, Middle
<1>2. CASE Prepare
  <2>1. Place = "prepare" /\ Place' = "begin"
    BY <1>2, Moves
  <2>2. /\ UNCHANGED <<hand, manifest, to, at, reg>>
        /\ \/ UNCHANGED <<bookmark, undo>>
           \/ undo' = <<RestoreMark>>
    BY <1>2 DEF Prepare
  <2>3. ToSet(<<RestoreMark>>) = {RestoreMark}
    BY SeqOfOne
  <2> QED BY <2>1, <2>2, <2>3 DEF HomeInv, Undoable, Early, Start, Middle, AtHome, SetApart, from, TypeInv,
       DiskType
<1>3. CASE BeginMarker
  <2>1. Place = "begin" /\ Place' \in {"setting aside", "undo"}
    BY <1>3, Moves
  <2>2. UNCHANGED <<hand, bookmark, manifest, to, at, reg, undo>>
    BY <1>3 DEF BeginMarker, disk, memory
  <2> QED BY <2>1, <2>2 DEF HomeInv, Undoable, Early, Start, Middle, AtHome, SetApart, from, TypeInv, DiskType
<1>4. CASE SetAside
  <2>1. Place = "setting aside" /\ Place' = "push aside"
    BY <1>4, Moves
  <2>2. /\ UNCHANGED <<hand, bookmark, manifest, to, reg, undo>>
        /\ at'.slot = "none" /\ at'.aside = "old" /\ at'.stash = at.stash
    BY <1>4 DEF SetAside, memory, TypeInv, DiskType
  <2> QED BY <2>1, <2>2 DEF HomeInv, Undoable, Early, Start, Middle, AtHome, SetApart, from, TypeInv, DiskType
<1>5. CASE PushAside
  <2>1. Place = "push aside" /\ Place' \in {"repoint", "undo"}
    BY <1>5, Moves
  <2>2. Push(<<MoveBack>>, "repoint") /\ UNCHANGED <<hand, bookmark, manifest, to, at, reg>>
    BY <1>5 DEF PushAside, disk
  <2>3. <<MoveBack>> \in Seq(UndoSteps) /\ ToSet(<<MoveBack>>) = {MoveBack}
    BY SeqOfOne, StepsAre
  <2>4. ToSet(undo') = ToSet(undo) \cup {MoveBack}
    BY <2>2, <2>3, PushedSteps
  <2>5. MoveBack \in ToSet(undo')
    BY <2>1, <2>4 DEF StackInv
  <2> QED BY <2>1, <2>2, <2>4, <2>5 DEF HomeInv, Undoable, Early, Start, Middle, AtHome, SetApart, from,
       TypeInv, DiskType
<1>6. CASE Repoint
  <2>1. Place = "repoint" /\ Place' \in {"check", "undo"}
    BY <1>6, Moves
  <2>2. UNCHANGED <<hand, bookmark, manifest, to, at, undo>>
    BY <1>6 DEF Repoint, memory
  <2>3. MoveBack \in ToSet(undo)
    BY <2>1 DEF StackInv, Middle
  <2> QED BY <2>1, <2>2, <2>3 DEF HomeInv, Undoable, Early, Start, Middle, AtHome, SetApart, from, TypeInv,
       DiskType
<1>7. CASE Check
  <2>1. Place = "check" /\ Place' \in {"add", "undo"}
    BY <1>7, Moves
  <2>2. Push(<<RemoveNew>>, "add") /\ UNCHANGED <<hand, bookmark, manifest, to, at, reg>>
    BY <1>7 DEF Check, disk
  <2>3. <<RemoveNew>> \in Seq(UndoSteps) /\ ToSet(<<RemoveNew>>) = {RemoveNew}
    BY SeqOfOne, StepsAre
  <2>4. ToSet(undo') = ToSet(undo) \cup {RemoveNew}
    BY <2>2, <2>3, PushedSteps
  <2>5. MoveBack \in ToSet(undo')
    BY <2>1, <2>4 DEF StackInv
  <2> QED BY <2>1, <2>2, <2>4, <2>5 DEF HomeInv, Undoable, Early, Start, Middle, AtHome, SetApart, from,
       TypeInv, DiskType
<1>8. CASE AddBegins
  <2>1. Place = "add" /\ Place' = "adding"
    BY <1>8, Moves
  <2>2. /\ UNCHANGED <<hand, bookmark, manifest, to, undo>>
        /\ at'.slot = "new" /\ at'.aside = at.aside /\ at'.stash = at.stash
    BY <1>8 DEF AddBegins, memory, TypeInv, DiskType
  <2> QED BY <2>1, <2>2 DEF HomeInv, Undoable, Early, Start, Middle, AtHome, SetApart, from, TypeInv, DiskType
<1>9. CASE AddEnds
  <2>1. Place = "adding" /\ Place' = "added"
    BY <1>9, Moves
  <2>2. UNCHANGED <<hand, bookmark, manifest, to, undo, at>>
    BY <1>9 DEF AddEnds
  <2> QED BY <2>1, <2>2 DEF HomeInv, Undoable, Early, Start, Middle, AtHome, SetApart, from, TypeInv, DiskType
<1>10. CASE AddFails
  <2>1. Place = "adding" /\ Place' = "undo"
    BY <1>10, Moves
  <2>2. /\ UNCHANGED <<hand, bookmark, manifest, to, undo>>
        /\ at'.slot \in {at.slot, "none"} /\ at'.aside = at.aside /\ at'.stash = at.stash
    BY <1>10 DEF AddFails, memory, TypeInv, DiskType
  <2>3. MoveBack \in ToSet(undo)
    BY <2>1 DEF StackInv, Middle
  <2> QED BY <2>1, <2>2, <2>3 DEF HomeInv, Undoable, Early, Start, Middle, AtHome, SetApart, from, TypeInv,
       DiskType
<1>11. CASE PushCarry
  <2>1. Place = "added" /\ Place' \in {"recordSaving", "carry", "undo"}
    BY <1>11, Moves
  <2>4. listed = {} => undo' = undo
    BY <1>11 DEF PushCarry
  <2>5. listed # {} => ToSet(undo) \subseteq ToSet(undo')
    <3>1. SetToSeq({CarryBack(e) : e \in listed}) \in Seq(UndoSteps)
      BY CarriesAsSeq DEF TypeInv, MemoryType
    <3>2. listed # {} => Push(SetToSeq({CarryBack(e) : e \in listed}), "carry")
      BY <1>11 DEF PushCarry
    <3> QED BY <3>1, <3>2, PushedSteps
  <2>2. UNCHANGED <<hand, bookmark, manifest, to, at, reg>> /\ ToSet(undo) \subseteq ToSet(undo')
    BY <2>4, <2>5, <1>11 DEF PushCarry, disk
  <2>3. MoveBack \in ToSet(undo)
    BY <2>1 DEF StackInv, Middle
  <2> QED BY <2>1, <2>2, <2>3 DEF HomeInv, Undoable, Early, Start, Middle, AtHome, SetApart, from, TypeInv,
       DiskType
<1>12. CASE CarryLooks
  <2>1. Place = "carry" /\ Place' = "carry"
    BY <1>12, Moves
  <2>2. UNCHANGED <<hand, bookmark, manifest, to, at, reg, undo>>
    BY <1>12 DEF CarryLooks, disk
  <2> QED BY <2>1, <2>2 DEF HomeInv, Undoable, Early, Start, Middle, AtHome, SetApart, from, TypeInv, DiskType
<1>13. CASE CarryRenames
  <2>1. Place = "carry" /\ Place' \in {"recordSaving", "carry"}
    BY <1>13, Moves
  <2>2. UNCHANGED <<hand, bookmark, manifest, to, at, reg, undo>>
    BY <1>13 DEF CarryRenames
  <2> QED BY <2>1, <2>2 DEF HomeInv, Undoable, Early, Start, Middle, AtHome, SetApart, from, TypeInv, DiskType
<1>14. CASE RecordSaving
  <2>1. Place = "recordSaving" /\ Place' = "save"
    BY <1>14, Moves
  <2>2. UNCHANGED <<hand, bookmark, manifest, to, at, reg, undo>>
    BY <1>14 DEF RecordSaving, disk, memory
  <2> QED BY <2>1, <2>2 DEF HomeInv, Undoable, Early, Start, Middle, AtHome, SetApart, from, TypeInv, DiskType
<1>15. CASE SaveDetaches
  <2>1. Place = "save" /\ Place' = "saving"
    BY <1>15, Moves
  <2>2. UNCHANGED <<hand, bookmark, to, at, reg, undo>> /\ manifest' = Gone
    BY <1>15 DEF SaveDetaches, memory
  <2> QED BY <2>1, <2>2 DEF HomeInv, Undoable, Early, Start, Middle, AtHome, SetApart, from, TypeInv, DiskType
<1>16. CASE SaveInstalls
  <2>1. Place = "saving" /\ Place' \in {"saved", "undo"}
    BY <1>16, Moves
  <2>2. UNCHANGED <<hand, bookmark, to, at, reg, undo>> /\ (Place' = "saved" \/ manifest' = from)
    BY <1>16, PlaceAfter DEF SaveInstalls, memory
  <2>3. MoveBack \in ToSet(undo)
    BY <2>1 DEF StackInv, Middle
  <2> QED BY <2>1, <2>2, <2>3 DEF HomeInv, Undoable, Early, Start, Middle, AtHome, SetApart, from, TypeInv,
       DiskType
<1>17. CASE Saved
  <2>1. Place' = "finish"
    BY <1>17, Moves
  <2> QED BY <2>1 DEF HomeInv, Undoable, Early, Start, Middle
<1>18. CASE CheckFails
  <2>1. Place \in (Early \ Start) \cup {"setting aside"} \cup Middle /\ Place' = "undo"
    BY <1>18, Moves
  <2>2. UNCHANGED <<hand, bookmark, manifest, to, at, reg, undo>> /\ pc # "saving" /\ Place = pc
    BY <1>18 DEF CheckFails, disk, Place
  <2>3. Place # "setting aside" => MoveBack \in ToSet(undo)
    BY <2>1 DEF StackInv, Early, Start
  <2> QED BY <2>1, <2>2, <2>3 DEF HomeInv, Undoable, Early, Start, Middle, AtHome, SetApart, from, TypeInv,
       DiskType
<1>19. CASE InstallRecord
  <2>1. Place' = Place
    BY <1>19, Moves
  <2>2. UNCHANGED <<hand, bookmark, manifest, to, at, reg, undo>>
    BY <1>19 DEF InstallRecord, disk, memory
  <2> QED BY <2>1, <2>2 DEF HomeInv, Undoable, Early, Start, Middle, AtHome, SetApart, from, TypeInv, DiskType
<1>20. CASE Finish
  <2>1. Place' \in {"end", "forget", "remove aside"}
    BY <1>20, Moves
  <2> QED BY <2>1 DEF HomeInv, Undoable, Early, Start, Middle
<1>21. CASE SetNewAside
  <2>1. Place' \in {"record forgetting", "remove aside"}
    BY <1>21, Moves
  <2> QED BY <2>1 DEF HomeInv, Undoable, Early, Start, Middle
<1>22. CASE RecordForgetting
  <2>1. Place' = "forget name"
    BY <1>22, Moves
  <2> QED BY <2>1 DEF HomeInv, Undoable, Early, Start, Middle
<1>23. CASE ForgetName
  <2>1. Place' = "restore new"
    BY <1>23, Moves
  <2> QED BY <2>1 DEF HomeInv, Undoable, Early, Start, Middle
<1>24. CASE RestoreNew
  <2>1. Place' \in {"record restored", "remove aside"}
    BY <1>24, Moves
  <2> QED BY <2>1 DEF HomeInv, Undoable, Early, Start, Middle
<1>25. CASE RecordRestored
  <2>1. Place' = "remove aside"
    BY <1>25, Moves
  <2> QED BY <2>1 DEF HomeInv, Undoable, Early, Start, Middle
<1>26. CASE RemoveOld
  <2>1. Place' \in {"deregister", "stranded?"}
    BY <1>26, Moves
  <2> QED BY <2>1 DEF HomeInv, Undoable, Early, Start, Middle
<1>27. CASE Deregister
  <2>1. Place' = "stranded?"
    BY <1>27, Moves
  <2> QED BY <2>1 DEF HomeInv, Undoable, Early, Start, Middle
<1>28. CASE RecordStranded
  <2>1. Place' = "end"
    BY <1>28, Moves
  <2> QED BY <2>1 DEF HomeInv, Undoable, Early, Start, Middle
<1>29. CASE End
  <2>1. Place' = "migrated"
    BY <1>29, Moves
  <2> QED BY <2>1 DEF HomeInv, Undoable, Early, Start, Middle
<1>30. CASE UndoMark
  <2>1. Place = "undo" /\ Place' \in {"undo", "stop"}
    BY <1>30, Moves
  <2>2. UNCHANGED <<hand, manifest, to>> /\ UNCHANGED <<at, reg>> /\ bookmark' # "set"
    BY <1>30 DEF UndoMark, MarkRestored
  <2>3. Place' = "undo" => \A x \in ToSet(undo) : x = RestoreMark \/ x \in ToSet(undo')
    <3>1. Undoing(RestoreMark) /\ (Undone \/ Place' = "stop")
      BY <1>30, PlaceAfter DEF UndoMark
    <3> QED BY <3>1, OneUndone, <2>1
  <2> QED BY <2>1, <2>2, <2>3, StepsDiffer DEF HomeInv, Undoable, Early, Start, Middle, AtHome, SetApart,
       from, TypeInv, DiskType
<1>31. CASE UndoNothingMade
  <2>1. Place = "undo" /\ Place' \in {"undo", "stop"}
    BY <1>31, Moves
  <2>2. UNCHANGED <<hand, manifest, to>> /\ UNCHANGED <<at, reg, bookmark>>
    BY <1>31 DEF UndoNothingMade, disk
  <2>3. Place' = "undo" => \A x \in ToSet(undo) : x = RemoveNew \/ x \in ToSet(undo')
    <3>1. Undoing(RemoveNew) /\ (Undone \/ Place' = "stop")
      BY <1>31, PlaceAfter DEF UndoNothingMade
    <3> QED BY <3>1, OneUndone, <2>1
  <2> QED BY <2>1, <2>2, <2>3, StepsDiffer DEF HomeInv, Undoable, Early, Start, Middle, AtHome, SetApart,
       from, TypeInv, DiskType
<1>32. CASE UndoNew
  <2>1. Place = "undo" /\ Place' \in {"undo", "stop"}
    BY <1>32, Moves
  <2>2. /\ UNCHANGED <<hand, manifest, to>>
        /\ UNCHANGED bookmark /\ reg'.old = reg.old
        /\ at.slot = "new" /\ at'.slot = "none" /\ at'.aside = at.aside /\ at'.stash = at.stash
    BY <1>32 DEF UndoNew, TypeInv, DiskType
  <2>3. Place' = "undo" => \A x \in ToSet(undo) : x = RemoveNew \/ x \in ToSet(undo')
    <3>1. Undoing(RemoveNew) /\ (Undone \/ Place' = "stop")
      BY <1>32, PlaceAfter DEF UndoNew
    <3> QED BY <3>1, OneUndone, <2>1
  <2> QED BY <2>1, <2>2, <2>3, StepsDiffer DEF HomeInv, Undoable, Early, Start, Middle, AtHome, SetApart,
       from, TypeInv, DiskType
<1>33. CASE UndoAside
  <2>1. Place = "undo" /\ Place' \in {"undo", "stop"}
    BY <1>33, Moves
  <2>2. /\ UNCHANGED <<hand, manifest, to>>
        /\ UNCHANGED bookmark /\ (Place' = "undo" => reg'.old = "slot")
        /\ at'.slot = "old" /\ at'.aside = "none" /\ at'.stash = at.stash
    BY <1>33, PlaceAfter DEF UndoAside, TypeInv, DiskType, Undoing
  <2>3. Place' = "undo" => \A x \in ToSet(undo) : x = MoveBack \/ x \in ToSet(undo')
    <3>1. Undoing(MoveBack) /\ (Undone \/ Place' = "stop")
      BY <1>33, PlaceAfter DEF UndoAside
    <3> QED BY <3>1, OneUndone, <2>1
  <2> QED BY <2>1, <2>2, <2>3, StepsDiffer DEF HomeInv, Undoable, Early, Start, Middle, AtHome, SetApart,
       from, TypeInv, DiskType
<1>34. CASE UndoFails
  <2>1. Place' = "stop"
    BY <1>34, Moves
  <2> QED BY <2>1 DEF HomeInv, Undoable, Early, Start, Middle
<1>35. CASE Stop
  <2>1. Place' = "stopped"
    BY <1>35, Moves
  <2> QED BY <2>1 DEF HomeInv, Undoable, Early, Start, Middle
<1>36. CASE RolledBack
  <2>1. Place = "undo" /\ Place' = "rolled back"
    BY <1>36, Moves
  <2>0. \A x : x \notin ToSet(undo)
    BY <1>36, SeqOfNone DEF RolledBack
  <2>2. UNCHANGED <<hand, bookmark, manifest, to, at, reg, undo>> /\ undo = <<>> /\ MoveBack \notin ToSet(undo)
    BY <1>36, SeqOfNone DEF RolledBack, disk, memory
  <2> QED BY <2>0, <2>1, <2>2 DEF HomeInv, Undoable, Early, Start, Middle, AtHome, SetApart, from, TypeInv,
       DiskType
<1>37. ASSUME NEW e \in Entries, UndoCarryNothing(e) PROVE HomeInv'
  <2>1. Place = "undo" /\ Place' \in {"undo", "stop"}
    BY <1>37, Moves
  <2>2. UNCHANGED <<hand, manifest, to>> /\ UNCHANGED <<at, reg, bookmark>>
    BY <1>37 DEF UndoCarryNothing, disk
  <2>3. Place' = "undo" => \A x \in ToSet(undo) : x = CarryBack(e) \/ x \in ToSet(undo')
    <3>1. Undoing(CarryBack(e)) /\ (Undone \/ Place' = "stop")
      BY <1>37, PlaceAfter DEF UndoCarryNothing
    <3> QED BY <3>1, OneUndone, <2>1
  <2> QED BY <2>1, <2>2, <2>3, StepsDiffer DEF HomeInv, Undoable, Early, Start, Middle, AtHome, SetApart,
       from, TypeInv, DiskType
<1>38. ASSUME NEW e \in Entries, UndoCarryLooks(e) PROVE HomeInv'
  <2>1. Place = "undo" /\ Place' = "undo"
    BY <1>38, Moves
  <2>2. UNCHANGED <<hand, bookmark, manifest, to, at, reg, undo>>
    BY <1>38 DEF UndoCarryLooks, disk
  <2> QED BY <2>1, <2>2 DEF HomeInv, Undoable, Early, Start, Middle, AtHome, SetApart, from, TypeInv, DiskType
<1>39. ASSUME NEW e \in Entries, UndoCarryRenames(e) PROVE HomeInv'
  <2>1. Place = "undo" /\ Place' \in {"undo", "stop"}
    BY <1>39, Moves
  <2>2. UNCHANGED <<hand, manifest, to>> /\ UNCHANGED <<at, reg, bookmark>>
    BY <1>39 DEF UndoCarryRenames
  <2>3. Place' = "undo" => \A x \in ToSet(undo) : x = CarryBack(e) \/ x \in ToSet(undo')
    <3>1. Undoing(CarryBack(e)) /\ (Undone \/ Place' = "stop")
      BY <1>39, PlaceAfter DEF UndoCarryRenames
    <3> QED BY <3>1, OneUndone, <2>1
  <2> QED BY <2>1, <2>2, <2>3, StepsDiffer DEF HomeInv, Undoable, Early, Start, Middle, AtHome, SetApart,
       from, TypeInv, DiskType
<1>40. ASSUME NEW e \in Entries, UndoCarryKeeps(e) PROVE HomeInv'
  <2>1. Place = "undo" /\ Place' \in {"undo", "stop"}
    BY <1>40, Moves
  <2>2. UNCHANGED <<hand, manifest, to>> /\ UNCHANGED <<at, reg, bookmark>>
    BY <1>40 DEF UndoCarryKeeps
  <2>3. Place' = "undo" => \A x \in ToSet(undo) : x = CarryBack(e) \/ x \in ToSet(undo')
    <3>1. Undoing(CarryBack(e)) /\ (Undone \/ Place' = "stop")
      BY <1>40, PlaceAfter DEF UndoCarryKeeps
    <3> QED BY <3>1, OneUndone, <2>1
  <2> QED BY <2>1, <2>2, <2>3, StepsDiffer DEF HomeInv, Undoable, Early, Start, Middle, AtHome, SetApart,
       from, TypeInv, DiskType
<1>41. CASE Kill
  <2>1. Place' = "killed"
    BY <1>41, Moves
  <2> QED BY <2>1 DEF HomeInv, Undoable, Early, Start, Middle
<1>42. ASSUME NEW place \in {"slot", "aside"}, NEW item \in Items, Write(place, item) PROVE HomeInv'
  <2>1. Place' = Place
    BY <1>42, Moves
  <2>2. /\ at'.aside = at.aside /\ at'.stash = at.stash
        /\ at'.slot = at.slot \/ (at.slot = "none" /\ at'.slot = "stray")
        /\ UNCHANGED <<to, reg, bookmark, manifest, undo, hand>>
    BY <1>42, WriteDoes DEF TypeInv, memory
  <2> QED BY <2>1, <2>2 DEF HomeInv, AtHome, SetApart, from
<1>43. CASE ByPerson
  <2>1. hand'.state # "away"
    BY <1>43, PersonStays
  <2> QED BY <2>1 DEF HomeInv
<1> QED BY <1>1, <1>2, <1>3, <1>4, <1>5, <1>6, <1>7, <1>8, <1>9, <1>10, <1>11, <1>12, <1>13, <1>14, <1>15,
        <1>16, <1>17, <1>18, <1>19, <1>20, <1>21, <1>22, <1>23, <1>24, <1>25, <1>26, <1>27, <1>28, <1>29,
        <1>30, <1>31, <1>32, <1>33, <1>34, <1>35, <1>36, <1>37, <1>38, <1>39, <1>40, <1>41, <1>42,
        <1>43 DEF SlotStep, Migrates, CleansUp, RollsBack, Writes

LEMMA RenameMoves ==
  ASSUME DiskType, NEW e, NEW s \in Checkouts, NEW t \in Checkouts, s # t, Rename(e, s, t)
  PROVE  /\ files'[s] = {c \in files[s] : c[1] # e}
         /\ files'[t] = {c \in files[t] : c[1] # e} \cup {c \in files[s] : c[1] = e}
         /\ \A d \in Checkouts : d # s /\ d # t => files'[d] = files[d]
<1>1. files' = [files EXCEPT ![s] = {c \in files[s] : c[1] # e},
                             ![t] = {c \in files[t] : c[1] # e} \cup {c \in files[s] : c[1] = e}]
  BY DEF Rename, DiskType
<1>2. \A d \in Checkouts : files'[d] = IF d = t THEN {c \in files[t] : c[1] # e} \cup {c \in files[s] : c[1] = e}
                                      ELSE IF d = s THEN {c \in files[s] : c[1] # e} ELSE files[d]
  BY <1>1 DEF DiskType
<1> QED BY <1>2

LEMMA ZeroStep ==
  ASSUME TypeInv, StackInv, ZeroInv, SlotStep
  PROVE  ZeroInv'
<1>1. CASE Refuse
  <2>1. Place' = "refused"
    BY <1>1, Moves
  <2> QED BY <2>1 DEF ZeroInv, LookedInv, Undoable, Early, Start, Middle
<1>2. CASE Prepare
  <2>1. Place = "prepare" /\ moved = {}
    BY <1>2, Moves DEF TypeInv, MemoryType, Early, Start
  <2>2. UNCHANGED <<hand, files, written, moved, looked>>
    BY <1>2 DEF Prepare
  <2> QED BY <2>1, <2>2 DEF ZeroInv, LookedInv, Undoable, Early, Start, Middle
<1>3. CASE BeginMarker
  <2>1. Place = "begin" /\ Place' \in {"setting aside", "undo"}
    BY <1>3, Moves
  <2>2. UNCHANGED <<hand, files, written, moved, undo, looked>>
    BY <1>3 DEF BeginMarker, disk, memory
  <2> QED BY <2>1, <2>2 DEF ZeroInv, LookedInv, Undoable, Early, Start, Middle
<1>4. CASE SetAside
  <2>1. Place = "setting aside" /\ Place' = "push aside"
    BY <1>4, Moves
  <2>2. UNCHANGED <<hand, files, written, moved, undo, looked>>
    BY <1>4 DEF SetAside, memory
  <2> QED BY <2>1, <2>2 DEF ZeroInv, LookedInv, Undoable, Early, Start, Middle
<1>5. CASE PushAside
  <2>1. Place = "push aside" /\ Place' \in {"repoint", "undo"}
    BY <1>5, Moves
  <2>2. UNCHANGED <<hand, files, written, moved, looked>>
    BY <1>5 DEF PushAside, disk
  <2>3. ToSet(undo) \subseteq ToSet(undo')
    <3>1. Push(<<MoveBack>>, "repoint")
      BY <1>5 DEF PushAside
    <3>2. <<MoveBack>> \in Seq(UndoSteps)
      BY SeqOfOne, StepsAre
    <3> QED BY <3>1, <3>2, PushedSteps
  <2> QED BY <2>1, <2>2, <2>3 DEF ZeroInv, LookedInv, Undoable, Early, Start, Middle
<1>6. CASE Repoint
  <2>1. Place = "repoint" /\ Place' \in {"check", "undo"}
    BY <1>6, Moves
  <2>2. UNCHANGED <<hand, files, written, moved, undo, looked>>
    BY <1>6 DEF Repoint, memory
  <2> QED BY <2>1, <2>2 DEF ZeroInv, LookedInv, Undoable, Early, Start, Middle
<1>7. CASE Check
  <2>1. Place = "check" /\ Place' \in {"add", "undo"}
    BY <1>7, Moves
  <2>2. UNCHANGED <<hand, files, written, moved, looked>>
    BY <1>7 DEF Check, disk
  <2>3. ToSet(undo) \subseteq ToSet(undo')
    <3>1. Push(<<RemoveNew>>, "add")
      BY <1>7 DEF Check
    <3>2. <<RemoveNew>> \in Seq(UndoSteps)
      BY SeqOfOne, StepsAre
    <3> QED BY <3>1, <3>2, PushedSteps
  <2> QED BY <2>1, <2>2, <2>3 DEF ZeroInv, LookedInv, Undoable, Early, Start, Middle
<1>8. CASE AddBegins
  <2>1. Place = "add" /\ Place' = "adding"
    BY <1>8, Moves
  <2>2. UNCHANGED <<hand, files, written, moved, undo, looked>>
    BY <1>8 DEF AddBegins, memory
  <2> QED BY <2>1, <2>2 DEF ZeroInv, LookedInv, Undoable, Early, Start, Middle
<1>9. CASE AddEnds
  <2>1. Place = "adding" /\ Place' = "added"
    BY <1>9, Moves
  <2>2. UNCHANGED <<hand, files, written, moved, undo, looked>>
    BY <1>9 DEF AddEnds, memory
  <2> QED BY <2>1, <2>2 DEF ZeroInv, LookedInv, Undoable, Early, Start, Middle
<1>10. CASE AddFails
  <2>1. Place = "adding" /\ Place' = "undo" /\ \A e : CarryBack(e) \notin ToSet(undo)
    BY <1>10, Moves, StepsDiffer DEF StackInv
  <2>2. UNCHANGED <<hand, written, moved, undo, looked>> /\ (files' = files \/ files' = [files EXCEPT !.new = {}])
    BY <1>10 DEF AddFails, memory
  <2>3. files'["old"] = files["old"] /\ files'["kept"] = files["kept"]
    BY <2>2 DEF TypeInv, DiskType, Checkouts
  <2> QED BY <2>1, <2>2, <2>3 DEF ZeroInv, LookedInv, Undoable, Early, Start, Middle
<1>11. CASE PushCarry
  <2>1. Place = "added" /\ Place' \in {"recordSaving", "carry", "undo"}
    BY <1>11, Moves
  <2>2. UNCHANGED <<hand, files, written, moved, looked>>
    BY <1>11 DEF PushCarry, disk
  <2>3. ToSet(undo) \subseteq ToSet(undo')
    <3>1. SetToSeq({CarryBack(e) : e \in listed}) \in Seq(UndoSteps)
      BY CarriesAsSeq DEF TypeInv, MemoryType
    <3>2. undo' = undo \/ Push(SetToSeq({CarryBack(e) : e \in listed}), "carry")
      BY <1>11 DEF PushCarry
    <3> QED BY <3>1, <3>2, PushedSteps
  <2> QED BY <2>1, <2>2, <2>3 DEF ZeroInv, LookedInv, Undoable, Early, Start, Middle
<1>12. CASE CarryLooks
  <2>1. Place = "carry" /\ Place' = "carry"
    BY <1>12, Moves
  <2>2. UNCHANGED <<hand, files, written, moved, undo>> /\ looked' \notin moved
    BY <1>12 DEF CarryLooks, Look, disk
  <2> QED BY <2>1, <2>2 DEF ZeroInv, LookedInv, Undoable, Early, Start, Middle
<1>13. CASE CarryRenames
  <2>1. looked \in Entries /\ Rename(looked, "old", "new")
    BY <1>13, Moves DEF CarryRenames, TypeInv, MemoryType
  <2>2. /\ UNCHANGED <<hand, written, undo>> /\ moved' = moved \cup {looked} /\ Place = "carry"
        /\ looked \in listed /\ looked' = NoEntry /\ looked # NoEntry
    BY <1>13, Moves DEF CarryRenames, TypeInv, MemoryType
  <2>3. /\ \A copy \in files["old"] : copy[1] # looked => copy \in files'["old"]
        /\ \A copy \in files["new"] : copy[1] # looked => copy \in files'["new"]
        /\ \A copy \in files["kept"] : copy \in files'["kept"]
        /\ \A copy \in files["old"] : copy[1] = looked => copy \in files'["new"]
    BY <2>1, RenameMoves DEF TypeInv, Checkouts
  <2>4. CarryBack(looked) \in ToSet(undo)
    BY <2>2 DEF StackInv
  <2> QED BY <2>2, <2>3, <2>4 DEF ZeroInv, LookedInv, Undoable, Early, Start, Middle
<1>14. CASE RecordSaving
  <2>1. Place = "recordSaving" /\ Place' = "save"
    BY <1>14, Moves
  <2>2. UNCHANGED <<hand, files, written, moved, undo, looked>>
    BY <1>14 DEF RecordSaving, disk, memory
  <2> QED BY <2>1, <2>2 DEF ZeroInv, LookedInv, Undoable, Early, Start, Middle
<1>15. CASE SaveDetaches
  <2>1. Place = "save" /\ Place' = "saving"
    BY <1>15, Moves
  <2>2. UNCHANGED <<hand, files, written, moved, undo, looked>>
    BY <1>15 DEF SaveDetaches, memory
  <2> QED BY <2>1, <2>2 DEF ZeroInv, LookedInv, Undoable, Early, Start, Middle
<1>16. CASE SaveInstalls
  <2>1. Place = "saving" /\ Place' \in {"saved", "undo"}
    BY <1>16, Moves
  <2>2. UNCHANGED <<hand, files, written, moved, undo, looked>>
    BY <1>16 DEF SaveInstalls, memory
  <2> QED BY <2>1, <2>2 DEF ZeroInv, LookedInv, Undoable, Early, Start, Middle
<1>17. CASE Saved
  <2>1. Place' = "finish"
    BY <1>17, Moves
  <2> QED BY <2>1 DEF ZeroInv, LookedInv, Undoable, Early, Start, Middle
<1>18. CASE CheckFails
  <2>1. Place \in (Early \ Start) \cup {"setting aside"} \cup Middle /\ Place' = "undo"
    BY <1>18, Moves
  <2>2. UNCHANGED <<hand, files, written, moved, undo>> /\ looked' = NoEntry
    BY <1>18 DEF CheckFails, disk, memory
  <2> QED BY <2>1, <2>2 DEF ZeroInv, LookedInv, Undoable, Early, Start, Middle
<1>19. CASE InstallRecord
  <2>1. Place' = Place
    BY <1>19, Moves
  <2>2. UNCHANGED <<hand, files, written, moved, undo, looked>>
    BY <1>19 DEF InstallRecord, disk, memory
  <2> QED BY <2>1, <2>2 DEF ZeroInv, LookedInv, Undoable, Early, Start, Middle
<1>20. CASE Finish
  <2>1. Place' \in {"end", "forget", "remove aside"}
    BY <1>20, Moves
  <2> QED BY <2>1 DEF ZeroInv, LookedInv, Undoable, Early, Start, Middle
<1>21. CASE SetNewAside
  <2>1. Place' \in {"record forgetting", "remove aside"}
    BY <1>21, Moves
  <2> QED BY <2>1 DEF ZeroInv, LookedInv, Undoable, Early, Start, Middle
<1>22. CASE RecordForgetting
  <2>1. Place' = "forget name"
    BY <1>22, Moves
  <2> QED BY <2>1 DEF ZeroInv, LookedInv, Undoable, Early, Start, Middle
<1>23. CASE ForgetName
  <2>1. Place' = "restore new"
    BY <1>23, Moves
  <2> QED BY <2>1 DEF ZeroInv, LookedInv, Undoable, Early, Start, Middle
<1>24. CASE RestoreNew
  <2>1. Place' \in {"record restored", "remove aside"}
    BY <1>24, Moves
  <2> QED BY <2>1 DEF ZeroInv, LookedInv, Undoable, Early, Start, Middle
<1>25. CASE RecordRestored
  <2>1. Place' = "remove aside"
    BY <1>25, Moves
  <2> QED BY <2>1 DEF ZeroInv, LookedInv, Undoable, Early, Start, Middle
<1>26. CASE RemoveOld
  <2>1. Place' \in {"deregister", "stranded?"}
    BY <1>26, Moves
  <2> QED BY <2>1 DEF ZeroInv, LookedInv, Undoable, Early, Start, Middle
<1>27. CASE Deregister
  <2>1. Place' = "stranded?"
    BY <1>27, Moves
  <2> QED BY <2>1 DEF ZeroInv, LookedInv, Undoable, Early, Start, Middle
<1>28. CASE RecordStranded
  <2>1. Place' = "end"
    BY <1>28, Moves
  <2> QED BY <2>1 DEF ZeroInv, LookedInv, Undoable, Early, Start, Middle
<1>29. CASE End
  <2>1. Place' = "migrated"
    BY <1>29, Moves
  <2> QED BY <2>1 DEF ZeroInv, LookedInv, Undoable, Early, Start, Middle
<1>30. CASE UndoMark
  <2>1. Place = "undo" /\ Place' \in {"undo", "stop"}
    BY <1>30, Moves
  <2>2. UNCHANGED <<hand, files, written, moved, looked>>
    BY <1>30 DEF UndoMark
  <2>3. Place' = "undo" => \A x \in ToSet(undo) : x = RestoreMark \/ x \in ToSet(undo')
    <3>1. Undoing(RestoreMark) /\ (Undone \/ Place' = "stop")
      BY <1>30, PlaceAfter DEF UndoMark
    <3> QED BY <3>1, OneUndone
  <2> QED BY <2>1, <2>2, <2>3, StepsDiffer DEF ZeroInv, LookedInv, Undoable, Early, Start, Middle
<1>31. CASE UndoNothingMade
  <2>1. Place = "undo" /\ Place' \in {"undo", "stop"}
    BY <1>31, Moves
  <2>2. UNCHANGED <<hand, files, written, moved, looked>>
    BY <1>31 DEF UndoNothingMade, disk
  <2>3. Place' = "undo" => \A x \in ToSet(undo) : x = RemoveNew \/ x \in ToSet(undo')
    <3>1. Undoing(RemoveNew) /\ (Undone \/ Place' = "stop")
      BY <1>31, PlaceAfter DEF UndoNothingMade
    <3> QED BY <3>1, OneUndone
  <2> QED BY <2>1, <2>2, <2>3, StepsDiffer DEF ZeroInv, LookedInv, Undoable, Early, Start, Middle
<1>32. CASE UndoNew
  <2>1. Place = "undo" /\ Place' \in {"undo", "stop"} /\ ~HasListed("new")
    BY <1>32, Moves DEF UndoNew
  <2>2. UNCHANGED <<hand, written, moved, looked>> /\ files' = [files EXCEPT !.new = {}]
    BY <1>32 DEF UndoNew
  <2>3. files'["old"] = files["old"] /\ files'["kept"] = files["kept"]
    BY <2>2 DEF TypeInv, DiskType, Checkouts
  <2>4. ASSUME NEW copy \in files["new"] PROVE copy[1] \notin moved
    <3>1. Has("new", copy[1])
      BY CopyPairs DEF TypeInv, Checkouts
    <3> QED BY <2>1, <3>1 DEF HasListed, TypeInv, MemoryType
  <2> QED BY <2>1, <2>2, <2>3, <2>4 DEF ZeroInv, LookedInv, Undoable, Early, Start, Middle
<1>33. CASE UndoAside
  <2>1. Place = "undo" /\ Place' \in {"undo", "stop"}
    BY <1>33, Moves
  <2>2. UNCHANGED <<hand, files, written, moved, looked>>
    BY <1>33 DEF UndoAside
  <2>3. Place' = "undo" => \A x \in ToSet(undo) : x = MoveBack \/ x \in ToSet(undo')
    <3>1. Undoing(MoveBack) /\ (Undone \/ Place' = "stop")
      BY <1>33, PlaceAfter DEF UndoAside
    <3> QED BY <3>1, OneUndone
  <2> QED BY <2>1, <2>2, <2>3, StepsDiffer DEF ZeroInv, LookedInv, Undoable, Early, Start, Middle
<1>34. CASE UndoFails
  <2>1. Place' = "stop"
    BY <1>34, Moves
  <2> QED BY <2>1 DEF ZeroInv, LookedInv, Undoable, Early, Start, Middle
<1>35. CASE Stop
  <2>1. Place' = "stopped"
    BY <1>35, Moves
  <2> QED BY <2>1 DEF ZeroInv, LookedInv, Undoable, Early, Start, Middle
<1>36. CASE RolledBack
  <2>1. Place = "undo" /\ Place' = "rolled back"
    BY <1>36, Moves
  <2>2. UNCHANGED <<hand, files, written, moved, undo, looked>>
    BY <1>36 DEF RolledBack, disk, memory
  <2> QED BY <2>1, <2>2 DEF ZeroInv, LookedInv, Undoable, Early, Start, Middle
<1>37. ASSUME NEW e \in Entries, UndoCarryNothing(e) PROVE ZeroInv'
  <2>1. Place = "undo" /\ Place' = "undo" /\ e \notin moved
    BY <1>37, Moves DEF UndoCarryNothing
  <2>2. UNCHANGED <<hand, files, written, moved, looked>>
    BY <1>37 DEF UndoCarryNothing, disk
  <2>3. Place' = "undo" => \A x \in ToSet(undo) : x = CarryBack(e) \/ x \in ToSet(undo')
    <3>1. Undoing(CarryBack(e)) /\ (Undone \/ Place' = "stop")
      BY <1>37, PlaceAfter DEF UndoCarryNothing
    <3> QED BY <3>1, OneUndone
  <2> QED BY <2>1, <2>2, <2>3, StepsDiffer DEF ZeroInv, LookedInv, Undoable, Early, Start, Middle
<1>38. ASSUME NEW e \in Entries, UndoCarryLooks(e) PROVE ZeroInv'
  <2>1. Place = "undo" /\ Place' = "undo"
    BY <1>38, Moves
  <2>2. UNCHANGED <<hand, files, written, moved, undo>> /\ looked' = e /\ ~Has("old", e)
    BY <1>38 DEF UndoCarryLooks, Look, disk
  <2>3. <<e, 0>> \notin files["old"]
    BY <2>2, EntriesAssumption DEF Has
  <2> QED BY <2>1, <2>2, <2>3 DEF ZeroInv, LookedInv, Undoable, Early, Start, Middle
<1>39. ASSUME NEW e \in Entries, UndoCarryRenames(e) PROVE ZeroInv'
  <2>0. looked = e /\ looked # NoEntry /\ looked' = NoEntry
    BY <1>39, EntriesAssumption DEF UndoCarryRenames
  <2>1. Rename(e, "new", "old")
    BY <1>39 DEF UndoCarryRenames
  <2>2. UNCHANGED <<hand, written, moved>> /\ Place = "undo" /\ Place' = "undo"
    BY <1>39, Moves DEF UndoCarryRenames
  <2>3. /\ \A copy \in files["old"] : copy[1] # e => copy \in files'["old"]
        /\ \A copy \in files["new"] : copy[1] # e => copy \in files'["new"]
        /\ \A copy \in files["kept"] : copy \in files'["kept"]
        /\ \A copy \in files["new"] : copy[1] = e => copy \in files'["old"]
    BY <2>1, RenameMoves DEF TypeInv, Checkouts
  <2>4. Place' = "undo" => \A x \in ToSet(undo) : x = CarryBack(e) \/ x \in ToSet(undo')
    <3>1. Undoing(CarryBack(e)) /\ (Undone \/ Place' = "stop")
      BY <1>39, PlaceAfter DEF UndoCarryRenames
    <3> QED BY <3>1, OneUndone
  <2>5. ASSUME hand.state = "away", NEW copy \in files["old"], copy[2] = 0 PROVE copy[1] # e
    <3>1. <<e, 0>> \notin files["old"]
      BY <2>0, <2>2, <2>5 DEF ZeroInv, LookedInv, Undoable
    <3> QED BY <3>1, <2>5, CopyPairs DEF TypeInv, Checkouts
  <2> QED BY <2>0, <2>2, <2>3, <2>4, <2>5, StepsDiffer DEF ZeroInv, LookedInv, Undoable, Early, Start, Middle
<1>40. ASSUME NEW e \in Entries, UndoCarryKeeps(e) PROVE ZeroInv'
  <2>1. ~Has("kept", e) /\ Rename(e, "new", "kept")
    BY <1>40 DEF UndoCarryKeeps
  <2>2. UNCHANGED <<hand, written, moved, looked>> /\ Place = "undo" /\ Place' = "undo" /\ looked = NoEntry
    BY <1>40, Moves DEF UndoCarryKeeps
  <2>3. /\ \A copy \in files["old"] : copy \in files'["old"]
        /\ \A copy \in files["new"] : copy[1] # e => copy \in files'["new"]
        /\ \A copy \in files["new"] : copy[1] = e => copy \in files'["kept"]
        /\ \A copy \in files["kept"] : copy \in files'["kept"]
    BY <2>1, RenameDoes DEF TypeInv, Checkouts
  <2>4. Place' = "undo" => \A x \in ToSet(undo) : x = CarryBack(e) \/ x \in ToSet(undo')
    <3>1. Undoing(CarryBack(e)) /\ (Undone \/ Place' = "stop")
      BY <1>40, PlaceAfter DEF UndoCarryKeeps
    <3> QED BY <3>1, OneUndone
  <2> QED BY <2>2, <2>3, <2>4, StepsDiffer DEF ZeroInv, LookedInv, Undoable, Early, Start, Middle
<1>41. CASE Kill
  <2>1. Place' = "killed"
    BY <1>41, Moves
  <2> QED BY <2>1 DEF ZeroInv, LookedInv, Undoable, Early, Start, Middle
<1>42. ASSUME NEW place \in {"slot", "aside"}, NEW item \in Items, Write(place, item) PROVE ZeroInv'
  <2>1. Place' = Place
    BY <1>42, Moves
  <2>2. PICK c \in {"old", "new", "stray"}, n \in 1..MaxWrites :
           /\ files'[c] = files[c] \cup {<<item, n>>} /\ written' = written \cup {<<item, n>>}
           /\ \A d \in Checkouts : d # c => files'[d] = files[d]
           /\ UNCHANGED memory /\ UNCHANGED hand
    BY <1>42, WriteDoes DEF TypeInv
  <2>3. n # 0 /\ <<item, n>>[2] = n
    BY EntriesAssumption
  <2>4. \A d \in Checkouts : files[d] \subseteq files'[d]
    BY <2>2
  <2>5. \A x : <<x, 0>> \in files'["old"] => <<x, 0>> \in files["old"]
    BY <2>2, <2>3 DEF Checkouts
  <2>6. UNCHANGED <<looked, moved, undo, hand>>
    BY <2>2 DEF memory
  <2>7. \A copy \in written' : copy[2] = 0 => copy \in written
    BY <2>2, <2>3
  <2>8. LookedInv => LookedInv'
    BY <2>1, <2>5, <2>6 DEF LookedInv
  <2> QED BY <2>1, <2>4, <2>6, <2>7, <2>8 DEF ZeroInv, Checkouts
<1>43. CASE ByPerson
  <2>1. hand'.state # "away"
    BY <1>43, PersonStays
  <2> QED BY <2>1 DEF ZeroInv
<1> QED BY <1>1, <1>2, <1>3, <1>4, <1>5, <1>6, <1>7, <1>8, <1>9, <1>10, <1>11, <1>12, <1>13, <1>14, <1>15,
        <1>16, <1>17, <1>18, <1>19, <1>20, <1>21, <1>22, <1>23, <1>24, <1>25, <1>26, <1>27, <1>28, <1>29,
        <1>30, <1>31, <1>32, <1>33, <1>34, <1>35, <1>36, <1>37, <1>38, <1>39, <1>40, <1>41, <1>42,
        <1>43 DEF SlotStep, Migrates, CleansUp, RollsBack, Writes

LEMMA HomeStutters ==
  ASSUME HomeInv, Elsewhere
  PROVE  HomeInv'
<1>1. UNCHANGED <<pc, to, at, reg, manifest, pending, undo, hand>> /\ bookmark' \in {bookmark, "moved"}
  BY ElsewhereKeeps
<1>2. UNCHANGED Place
  BY ElsewhereKeeps
<1> QED BY <1>1, <1>2 DEF HomeInv, AtHome, SetApart, from

LEMMA ZeroStutters ==
  ASSUME ZeroInv, Elsewhere
  PROVE  ZeroInv'
<1>1. UNCHANGED <<pc, files, pending, undo, moved, looked, written, hand>>
  BY ElsewhereKeeps
<1>2. UNCHANGED Place
  BY ElsewhereKeeps
<1> QED BY <1>1, <1>2 DEF ZeroInv, LookedInv

LEMMA HomeStarts ==
  ASSUME Init
  PROVE  HomeInv /\ ZeroInv
<1>1. /\ Place = "prepare" /\ bookmark = "before" /\ manifest = from
      /\ at.slot = "old" /\ at.aside = "none" /\ at.stash = "none" /\ reg.old = "slot"
  BY DEF Init, Place
<1>2. PICK there \in SUBSET Entries :
        files = [old |-> {<<e, 0>> : e \in there}, new |-> {}, kept |-> {}, stray |-> {}, taken |-> {}]
  BY DEF Init
<1>3. files.old = files["old"] /\ written = files["old"]
  BY <1>2 DEF Init
<1>4. HomeInv
  BY <1>1 DEF HomeInv, AtHome, Middle
<1>5. looked = NoEntry
  BY DEF Init
<1> QED BY <1>3, <1>4, <1>5 DEF ZeroInv, LookedInv

-----------------------------------------------------------------------------
(* A rollback that finishes leaves the slot the checkout it was, at its path  *)
(* and registered there, the bookmark not where the migrate moved it, unless  *)
(* it was conflicted and is resolved, the manifest as it was, and every entry *)
(* that was in it in it, or kept beside it where a writer made it again, also *)
(* when others move the bookmark, and when writers hit between a check and its use: what is not as   *)
(* it was has an undo for as long as a rollback may come, and the undo of one *)
(* entry's rename still finds the copy it carried, and replaces no other.     *)
THEOREM RolledBackWhole == Spec => []RolledBackIsWhole
<1> DEFINE I == TypeInv /\ StackInv /\ OrderInv /\ HomeInv /\ ZeroInv
<1>1. Init => I
  BY TypeStarts, UndoStarts, HomeStarts
<1>2. I /\ [Next]_vars => I'
  BY TypeStep, TypeStutters, StackStep, OrderStep, UndoStutters, HomeStep, ZeroStep, HomeStutters, ZeroStutters,
     SlotOrElsewhere
<1>3. I => RolledBackIsWhole
  <2> SUFFICES ASSUME I, pc = "rolled back", hand.state = "away"
               PROVE  /\ at = [slot |-> "old", aside |-> "none", stash |-> "none"]
                      /\ reg.old = "slot" /\ MarkGivenBack /\ manifest = from
                      /\ \A copy \in written : copy[2] = 0 => copy \in files.old \cup files.kept
    BY DEF RolledBackIsWhole
  <2>1. Place = "rolled back" /\ Place \in Undoable
    BY DEF Place, Undoable
  <2>2. \A x : x \notin ToSet(undo)
    BY <2>1, SeqOfNone DEF HomeInv
  <2>3. AtHome /\ at.stash = "none" /\ MarkGivenBack /\ manifest = from
    BY <2>1, <2>2 DEF HomeInv, MarkGivenBack
  <2>4. at = [slot |-> "old", aside |-> "none", stash |-> "none"]
    BY <2>3 DEF AtHome, TypeInv, DiskType
  <2>5. \A copy \in written : copy[2] = 0 => copy \in files["old"] \cup files["kept"]
    BY <2>1, <2>2 DEF ZeroInv
  <2> QED BY <2>3, <2>4, <2>5 DEF AtHome
<1> QED BY <1>1, <1>2, <1>3, PTL DEF Spec

-----------------------------------------------------------------------------
(* Following a record that fits.                                             *)

(* What a step of a rank is.                                                 *)
LEMMA RankedSteps ==
  /\ \A x \in UndoSteps \cup {LookBeside} :
       /\ Rank(x) = 1 => x = RestoreMark
       /\ Rank(x) = 2 => x \in {MoveBack, LookBeside}
       /\ Rank(x) = 3 => x \in {RemoveNew, LookAt}
  /\ \A x, y : Before(x, y) => x # y /\ Rank(x) <= Rank(y) /\ (Rank(y) < 4 => Rank(x) < Rank(y))
<1>1. \A x, y : Before(x, y) => x # y /\ Rank(x) <= Rank(y) /\ (Rank(y) < 4 => Rank(x) < Rank(y))
  BY Ranks DEF Before
<1> QED BY <1>1, Ranks DEF UndoSteps

LEMMA HandTakes ==
  ASSUME TypeInv, OrderInv, NEW step, ByHand(step)
  PROVE  /\ step \in ToSet(hand.left) /\ ToSet(Tail(hand.left)) \subseteq ToSet(hand.left)
         /\ \A x \in ToSet(hand.left) : x = step \/ x \in ToSet(Tail(hand.left))
         /\ \A x \in ToSet(Tail(hand.left)) : x # step /\ Rank(x) <= Rank(step) /\ (Rank(step) < 4 => Rank(x) < Rank(step))
<1>1. hand.left \in Seq(AllSteps) /\ hand.left # <<>> /\ Head(hand.left) = step /\ InOrder(hand.left)
  BY OneTaken DEF TypeInv, StepType, OrderInv
<1>2. \A x \in ToSet(Tail(hand.left)) : Before(x, step)
  BY <1>1, TailInOrder
<1> QED BY <1>2, OneTaken, RankedSteps

LEMMA HandFitsStep ==
  ASSUME TypeInv, OrderInv, UniqueInv, DiskFits, HandFits, HandStep
  PROVE  HandFits' /\ DiskFits'
<1>1. CASE hand.misled \/ hand'.state # "following"
  <2>1. hand'.misled = hand.misled /\ hand'.state # "away"
    BY HandMoves, PersonStays DEF ByPerson
  <2> QED BY <1>1, <2>1 DEF HandFits, DiskFits, Careful
<1>2. CASE ~hand.misled /\ hand'.state = "following"
  <2>1. PICK S, T : S = ToSet(hand.left) /\ T = ToSet(Tail(hand.left))
    OBVIOUS
  <2>2. hand.state = "following" /\ ToSet(hand'.left) = T /\ hand'.misled = hand.misled /\ UNCHANGED <<to, written>>
    BY <1>2, <2>1, HandMoves, OneTaken DEF HandStep
  <2>3. \A step : ByHand(step) =>
          /\ step \in S /\ T \subseteq S /\ \A x \in S : x = step \/ x \in T
          /\ \A x \in T : x # step /\ Rank(x) <= Rank(step) /\ (Rank(step) < 4 => Rank(x) < Rank(step))
    BY <2>1, HandTakes
  <2>4. FitsHand(S)
    BY <1>2, <2>1, <2>2 DEF HandFits
  <2>5. /\ manifest # to => at.stash = "none" /\ (files["new"] # {} => at.slot = "new")
        /\ manifest = to => /\ at.stash = "new" => at.slot \in {"none", "stray"}
                            /\ at.stash = "none" => at.slot = "new"
                            /\ to = "jj" => jjName
    BY <1>2, <2>2 DEF DiskFits, Careful
  <2>6. UNCHANGED Quiet
    BY <2>2 DEF Quiet
  <2>7. /\ to \in Modes /\ at.slot \in {"old", "new", "stray", "none"} /\ at.aside \in {"old", "none"}
        /\ at.stash \in {"new", "none"} /\ jjName \in BOOLEAN /\ manifest \in Modes
    BY <2>4 DEF TypeInv, DiskType, FitsHand
  <2>8. \A step : ByHand(step) =>
          /\ step \in UndoSteps \cup {LookBeside} => manifest # to /\ FitsUndo(S)
          /\ step \in CleanSteps => manifest = to /\ FitsCleanup(S)
    BY <2>3, <2>4, StepsDiffer DEF FitsHand, FitsUndo, FitsCleanup
  <2> SUFFICES FitsHand(T)' /\ DiskFits'
    BY <2>2 DEF HandFits, FitsHand, FitsUndo, FitsCleanup
  <2>20. CASE HandMovesBack
    <3>1. PICK step \in {MoveBack, LookBeside} : ByHand(step) /\ UNCHANGED <<files, jjName, bookmark, manifest>>
           /\ \/ /\ at.slot = "none" /\ at.aside = "old" /\ at'.slot = "old" /\ at'.aside = "none"
                 /\ at'.stash = at.stash /\ reg'.old = "slot"
              \/ step = LookBeside /\ at.aside = "none" /\ UNCHANGED <<at, reg>>
      <4>1. ~Stuck
        BY <1>2 DEF Stuck, TypeInv, StepType
      <4>2. CASE at.slot = "none" /\ at.aside = "old"
        BY <2>20, <4>2 DEF HandMovesBack, TypeInv, DiskType
      <4>3. CASE ~(at.slot = "none" /\ at.aside = "old")
        BY <2>20, <4>1, <4>3 DEF HandMovesBack, disk
      <4> QED BY <4>2, <4>3
    <3>2. Rank(step) = 2 /\ step \in UndoSteps \cup {LookBeside} /\ step \notin {RestoreMark, RemoveNew}
      BY Ranks, StepsDiffer, StepsAre
    <3>3. manifest # to /\ FitsUndo(S)
      BY <2>8, <3>1, <3>2
    <3>4. T \subseteq {RestoreMark}
      <4>1. \A x \in T : Rank(x) = 1 /\ x \in UndoSteps \cup {LookBeside}
        BY <2>3, <3>1, <3>2, <3>3, Ranks DEF FitsUndo
      <4> QED BY <4>1, RankedSteps
    <3>5. RemoveNew \notin S /\ (bookmark = "set" => RestoreMark \in T)
      BY <2>3, <2>4, <3>1, <3>2, <3>3, <3>4, StepsDiffer DEF FitsHand
    <3>6. files["new"] = {} /\ AtHome' /\ jjName = (to = "worktree")
      <4>1. CASE at.slot = "none" /\ at'.slot = "old"
        BY <2>5, <2>7, <3>1, <3>3, <3>5, <4>1 DEF FitsUndo, AtHome
      <4>2. CASE step = LookBeside /\ at.aside = "none" /\ UNCHANGED <<at, reg>>
        <5>1. at.slot = "old" /\ MoveBack \notin S
          BY <2>3, <2>4, <3>1, <3>3, <4>2 DEF FitsUndo, FitsHand
        <5> QED BY <2>5, <2>7, <3>3, <3>5, <4>2, <5>1 DEF FitsUndo, AtHome
      <4> QED BY <3>1, <4>1, <4>2
    <3>7. FitsUndo(T)'
      BY <2>2, <3>1, <3>4, <3>6, StepsDiffer DEF FitsUndo, AtHome, UndoSteps
    <3> QED BY <2>2, <2>5, <2>7, <3>1, <3>3, <3>4, <3>5, <3>6, <3>7, StepsDiffer DEF FitsHand, DiskFits, AtHome
  <2>21. CASE HandRestoresMark
    <3>1. ByHand(RestoreMark) /\ bookmark' # "set" /\ UNCHANGED <<at, reg, files, jjName, manifest>>
      BY <2>21 DEF HandRestoresMark, MarkRestored
    <3>2. manifest # to /\ FitsUndo(S)
      BY <2>8, <3>1, StepsAre
    <3>3. T = {}
      BY <2>3, <3>1, Ranks
    <3>4. S \subseteq {RestoreMark}
      BY <2>3, <3>1, <3>3
    <3>5. AtHome /\ jjName = (to = "worktree") /\ files["new"] = {}
      BY <2>5, <2>7, <3>2, <3>4, StepsDiffer, StepsAre DEF FitsUndo
    <3>6. FitsUndo(T)'
      BY <2>2, <3>1, <3>3, <3>5 DEF FitsUndo, AtHome
    <3> QED BY <2>2, <2>5, <2>7, <3>1, <3>2, <3>3, <3>6 DEF FitsHand, DiskFits
  <2>22. CASE HandCarriesBack
    <3>1. PICK e \in Entries :
            /\ ByHand(CarryBack(e)) /\ UNCHANGED <<at, reg, jjName, bookmark, manifest>>
            /\ \/ UNCHANGED files /\ (at.slot = "none" \/ ~Has(at.slot, e))
               \/ UNCHANGED files /\ Has("old", e) /\ Has("kept", e) /\ at.slot # "none"
               \/ \E t \in {"old", "kept"} : at.slot # "none" /\ Has(at.slot, e) /\ ~Has(t, e) /\ Rename(e, at.slot, t)
      BY <1>2, <2>22 DEF HandCarriesBack, Stuck, disk, TypeInv, StepType
    <3>2. manifest # to /\ FitsUndo(S)
      BY <2>8, <3>1, StepsAre
    <3>3. /\ MoveBack \in S /\ CarryBack(e) \in S
          /\ \A x \in S : x = CarryBack(e) \/ x \in T
          /\ T \subseteq S
      BY <2>3, <3>1, <3>2, StepsDiffer DEF FitsUndo
    <3>4. Quiet => \A copy \in files'["new"] : copy \in files["new"] /\ copy[1] # e
      <4>1. ASSUME Quiet, NEW c \in Checkouts, NEW d \in Checkouts, NEW copy \in files[c], copy[1] = e, Has(d, e)
            PROVE  c = d
        <5>1. copy = <<e, 0>> /\ copy \in written /\ copy[2] = 0
          BY <4>1, CopyPairs DEF TypeInv, UniqueInv, Quiet
        <5>2. PICK n \in 0..MaxWrites : <<e, n>> \in files[d]
          BY <4>1 DEF Has
        <5>3. <<e, n>> \in written /\ <<e, n>>[2] = n
          BY <5>2 DEF UniqueInv
        <5>4. copy \in files[d]
          BY <4>1, <5>1, <5>2, <5>3 DEF Quiet
        <5> QED BY <5>1, <5>4 DEF UniqueInv
      <4>2. CASE UNCHANGED files /\ (at.slot = "none" \/ ~Has(at.slot, e))
        <5>1. \A copy \in files["new"] : Has("new", copy[1])
          BY CopyPairs DEF TypeInv, Checkouts
        <5> QED BY <2>5, <3>2, <4>2, <5>1
      <4>3. CASE UNCHANGED files /\ Has("old", e) /\ Has("kept", e)
        BY <4>1, <4>3 DEF Checkouts
      <4>4. ASSUME NEW t \in {"old", "kept"}, at.slot # "none", Has(at.slot, e), ~Has(t, e), Rename(e, at.slot, t)
            PROVE  \A copy \in files'["new"] : copy \in files["new"] /\ copy[1] # e
        <5>1. at.slot \in Checkouts /\ t \in Checkouts /\ at.slot # t /\ t # "new"
          BY <2>7, <4>4 DEF Checkouts
        <5>2. at.slot # "new" => files["new"] = {}
          BY <2>5, <3>2
        <5>3. at.slot # "new" => files'["new"] = files["new"]
          BY <4>4, <5>1, RenameMoves DEF TypeInv, Checkouts
        <5>4. at.slot = "new" => files'["new"] = {c \in files["new"] : c[1] # e}
          BY <4>4, <5>1, RenameMoves DEF TypeInv
        <5> QED BY <5>2, <5>3, <5>4
      <4> QED BY <3>1, <4>2, <4>3, <4>4
    <3>5. files'["new"] # {} => files["new"] # {}
      <4>1. ASSUME NEW t \in {"old", "kept"}, at.slot # "none", Has(at.slot, e), ~Has(t, e), Rename(e, at.slot, t)
            PROVE  files'["new"] \subseteq files["new"]
        <5>1. at.slot \in Checkouts /\ t \in Checkouts /\ at.slot # t /\ t # "new"
          BY <2>7, <4>1 DEF Checkouts
        <5>2. at.slot # "new" => files'["new"] = files["new"]
          BY <4>1, <5>1, RenameMoves DEF TypeInv, Checkouts
        <5>3. at.slot = "new" => files'["new"] = {c \in files["new"] : c[1] # e}
          BY <4>1, <5>1, RenameMoves DEF TypeInv
        <5> QED BY <5>2, <5>3
      <4> QED BY <3>1, <4>1
    <3>6. FitsUndo(T)'
      BY <2>2, <2>6, <3>1, <3>2, <3>3, <3>4, StepsDiffer DEF FitsUndo, AtHome
    <3> QED BY <2>2, <2>4, <2>5, <2>7, <3>1, <3>2, <3>3, <3>5, <3>6, StepsDiffer DEF FitsHand, DiskFits
  <2>23. CASE HandRemovesNew
    <3>1. /\ ByHand(RemoveNew) /\ UNCHANGED <<bookmark, manifest>> /\ jjName' = (to = "worktree")
          /\ at'.slot = "none" /\ at'.aside = at.aside /\ at'.stash = at.stash
          /\ files' = (IF at.slot = "none" THEN files ELSE [files EXCEPT ![at.slot] = {}])
      BY <1>2, <2>23 DEF HandRemovesNew, Stuck, TypeInv, DiskType, StepType
    <3>2. manifest # to /\ FitsUndo(S)
      BY <2>8, <3>1, StepsAre
    <3>3. MoveBack \in T /\ T \subseteq S
      BY <2>3, <3>1, <3>2, StepsDiffer, StepsAre DEF FitsUndo
    <3>4. files'["new"] = {}
      <4>1. CASE at.slot = "new"
        BY <3>1, <4>1 DEF TypeInv, DiskType, Checkouts
      <4>2. CASE at.slot # "new"
        BY <2>5, <3>1, <3>2, <4>2 DEF TypeInv, DiskType, Checkouts
      <4> QED BY <4>1, <4>2
    <3>5. at.slot # "old" /\ (bookmark = "set" => RestoreMark \in T)
      BY <2>3, <2>4, <3>1, <3>2, <3>3, StepsDiffer DEF FitsHand
    <3>6. FitsUndo(T)'
      BY <2>2, <3>1, <3>2, <3>3, <3>4, <3>5 DEF FitsUndo
    <3> QED BY <2>2, <2>5, <2>7, <3>1, <3>2, <3>4, <3>5, <3>6 DEF FitsHand, DiskFits
  <2>24. CASE HandLooks
    <3>1. /\ ByHand(LookAt) /\ UNCHANGED <<jjName, bookmark, manifest>>
          /\ at'.slot = "none" /\ at'.aside = at.aside /\ at'.stash = at.stash
          /\ files' = (IF at.slot = "none" THEN files
                       ELSE [files EXCEPT ![at.slot] = {}, !.taken = @ \cup files[at.slot]])
      BY <2>24 DEF HandLooks, TypeInv, DiskType
    <3>2. manifest # to /\ FitsUndo(S)
      BY <2>8, <3>1, StepsAre
    <3>3. MoveBack \in T /\ T \subseteq S /\ RemoveNew \notin S
      <4>1. MoveBack \in T /\ T \subseteq S
        BY <2>3, <3>1, <3>2, StepsDiffer, StepsAre DEF FitsUndo
      <4>2. RemoveNew \notin T
        <5>1. ByHand(LookAt) /\ Rank(LookAt) = 3 /\ Rank(RemoveNew) = 3
          BY <3>1, Ranks
        <5>2. \A x \in T : Rank(LookAt) < 4 => Rank(x) < Rank(LookAt)
          BY ONLY <2>3, <5>1
        <5> QED BY ONLY <5>1, <5>2
      <4> QED BY <2>3, <3>1, <4>1, <4>2, StepsDiffer
    <3>4. files'["new"] = {}
      <4>1. CASE at.slot = "new"
        BY <3>1, <4>1 DEF TypeInv, DiskType, Checkouts
      <4>2. CASE at.slot # "new"
        BY <2>5, <2>7, <3>1, <3>2, <4>2 DEF TypeInv, DiskType, Checkouts
      <4> QED BY <4>1, <4>2
    <3>5. at.slot # "old" /\ (bookmark = "set" => RestoreMark \in T)
      BY <2>3, <2>4, <3>1, <3>2, <3>3, StepsDiffer DEF FitsHand
    <3>6. FitsUndo(T)'
      BY <2>2, <3>1, <3>2, <3>3, <3>4, <3>5 DEF FitsUndo
    <3> QED BY <2>2, <2>5, <2>7, <3>1, <3>2, <3>4, <3>5, <3>6 DEF FitsHand, DiskFits
  <2>25. CASE HandMovesNewBack
    <3>1. /\ ByHand(MoveNewBack) /\ UNCHANGED <<files, jjName, manifest>>
          /\ at.stash = "new" /\ at'.slot = "new" /\ at'.stash = "none" /\ at'.aside = at.aside
      BY <1>2, <2>25 DEF HandMovesNewBack, Stuck, TypeInv, DiskType, StepType
    <3>2. manifest = to /\ FitsCleanup(S)
      BY <2>8, <3>1, StepsAre
    <3>3. MoveNewBack \notin T /\ T \subseteq S /\ \A x \in S : x = MoveNewBack \/ x \in T
      BY <2>3, <3>1
    <3>4. FitsCleanup(T)'
      BY <2>2, <3>1, <3>2, <3>3, StepsDiffer DEF FitsCleanup
    <3> QED BY <2>2, <2>5, <2>7, <3>1, <3>2, <3>3, <3>4 DEF FitsHand, DiskFits
  <2>26. CASE HandForgets
    <3>1. PICK step \in {Forget, ForgetIfListed} :
            ByHand(step) /\ jjName' = FALSE /\ UNCHANGED <<at, files, manifest>>
      BY <1>2, <2>26 DEF HandForgets, Stuck, TypeInv, StepType
    <3>2. manifest = to /\ FitsCleanup(S)
      BY <2>8, <3>1, StepsAre
    <3>3. step \in S /\ T \subseteq S /\ \A x \in S : x = step \/ x \in T
      BY <2>3, <3>1
    <3>4. FitsCleanup(T)' /\ to # "jj"
      BY <2>2, <3>1, <3>2, <3>3, StepsDiffer DEF FitsCleanup
    <3>5. MoveNewBack \in T <=> at.stash = "new"
      BY <2>4, <3>2, <3>3, StepsDiffer DEF FitsHand
    <3> QED BY <2>2, <2>5, <2>7, <3>1, <3>2, <3>4, <3>5 DEF FitsHand, DiskFits
  <2>27. CASE HandRemovesAside
    <3>1. /\ ByHand(RemoveAside) /\ UNCHANGED <<jjName, manifest>>
          /\ at'.aside = "none" /\ at'.slot = at.slot /\ at'.stash = at.stash
      BY <2>27 DEF HandRemovesAside, TypeInv, DiskType
    <3>2. manifest = to /\ FitsCleanup(S)
      BY <2>8, <3>1, StepsAre
    <3>3. T \subseteq S /\ \A x \in S : x = RemoveAside \/ x \in T
      BY <2>3, <3>1
    <3>4. FitsCleanup(T)'
      BY <2>2, <3>1, <3>2, <3>3, StepsDiffer DEF FitsCleanup
    <3>5. MoveNewBack \in T <=> at.stash = "new"
      BY <2>4, <3>2, <3>3, StepsDiffer DEF FitsHand
    <3> QED BY <2>2, <2>5, <2>7, <3>1, <3>2, <3>4, <3>5 DEF FitsHand, DiskFits
  <2> QED BY <2>20, <2>21, <2>22, <2>23, <2>24, <2>25, <2>26, <2>27 DEF HandStep
<1> QED BY <1>1, <1>2

(* Only what a writer or a tool left in the way stops the person.            *)
LEMMA HandIsStuck ==
  ASSUME TypeInv, OrderInv, UniqueInv, DiskFits, HandFits, HandStep, ~hand.misled, hand'.state = "stuck"
  PROVE  at.slot = "stray" \/ ~Quiet
<1>1. PICK S, T : S = ToSet(hand.left) /\ T = ToSet(Tail(hand.left))
  OBVIOUS
<1>2. \A step : ByHand(step) =>
        /\ hand.state = "following" /\ step \in S /\ \A x \in S : x = step \/ x \in T
        /\ \A x \in T : x # step /\ Rank(x) <= Rank(step) /\ (Rank(step) < 4 => Rank(x) < Rank(step))
  BY <1>1, HandTakes DEF ByHand
<1>3. \E step : ByHand(step)
  BY HandMoves
<1>4. hand.state = "following" /\ FitsHand(S) /\ Careful
  BY <1>1, <1>2, <1>3 DEF HandFits, Careful
<1>5. /\ manifest # to => at.stash = "none" /\ (files["new"] # {} => at.slot = "new")
      /\ manifest = to => /\ at.stash = "new" => at.slot \in {"none", "stray"}
                          /\ at.stash = "none" => at.slot = "new"
  BY <1>4 DEF DiskFits
<1>6. /\ to \in Modes /\ at.slot \in {"old", "new", "stray", "none"} /\ at.aside \in {"old", "none"}
      /\ at.stash \in {"new", "none"} /\ jjName \in BOOLEAN /\ manifest \in Modes
  BY <1>4 DEF TypeInv, DiskType, FitsHand
<1>7. \A step : ByHand(step) =>
        /\ step \in UndoSteps \cup {LookBeside} => manifest # to /\ FitsUndo(S)
        /\ step \in CleanSteps => manifest = to /\ FitsCleanup(S)
  BY <1>2, <1>4, StepsDiffer DEF FitsHand, FitsUndo, FitsCleanup
<1>8. ~Next1
  BY <1>4 DEF Next1, TypeInv, StepType
<1>20. CASE HandMovesBack
  <2>1. PICK step \in {MoveBack, LookBeside} : ByHand(step) /\ ~(at.slot = "none" /\ at.aside = "old")
          /\ (step = LookBeside => at.aside # "none")
    BY <1>8, <1>20 DEF HandMovesBack
  <2>2. Rank(step) = 2 /\ step \in UndoSteps \cup {LookBeside}
    BY Ranks, StepsAre
  <2>3. FitsUndo(S) /\ manifest # to
    BY <1>7, <2>1, <2>2
  <2>4. at.slot # "old"
    BY <1>2, <1>4, <2>1, <2>3, StepsDiffer DEF FitsHand, FitsUndo, AtHome
  <2>5. at.slot # "new"
    <3>1. \A x \in S : Rank(x) <= 2
      BY <1>2, <2>1, <2>2
    <3> QED BY <2>3, <3>1, Ranks DEF FitsUndo
  <2> QED BY <1>6, <2>1, <2>3, <2>4, <2>5 DEF FitsUndo
<1>21. CASE HandRestoresMark
  BY <1>8, <1>21 DEF HandRestoresMark
<1>22. CASE HandCarriesBack
  <2>1. PICK e \in Entries : ByHand(CarryBack(e)) /\ at.aside = "none"
    BY <1>8, <1>22 DEF HandCarriesBack
  <2>2. FitsUndo(S) /\ manifest # to /\ CarryBack(e) \in S
    BY <1>2, <1>7, <2>1, StepsAre
  <2> QED BY <1>4, <2>1, <2>2, StepsDiffer DEF FitsHand, FitsUndo
<1>23. CASE HandRemovesNew
  <2>1. ByHand(RemoveNew) /\ at.slot # "none" /\ HasListed(at.slot)
    BY <1>8, <1>23 DEF HandRemovesNew
  <2>2. FitsUndo(S) /\ manifest # to /\ RemoveNew \in S
    BY <1>2, <1>7, <2>1, StepsAre
  <2>3. at.slot # "old"
    BY <1>4, <2>2, StepsDiffer, StepsAre DEF FitsHand, FitsUndo
  <2>4. CASE at.slot = "new"
    <3>1. PICK e \in listed, n \in 0..MaxWrites : <<e, n>> \in files["new"]
      BY <2>1, <2>4 DEF HasListed, Has
    <3>2. \A x \in S : Rank(x) # 4
      BY <1>2, <2>1, Ranks
    <3> QED BY <2>2, <3>1, <3>2, Ranks DEF FitsUndo
  <2> QED BY <1>6, <2>1, <2>3, <2>4
<1>24. CASE HandLooks
  BY <1>8, <1>24 DEF HandLooks
<1>25. CASE HandMovesNewBack
  <2>1. ByHand(MoveNewBack) /\ ~(at.slot = "none" /\ at.stash = "new")
    BY <1>8, <1>25 DEF HandMovesNewBack
  <2>2. manifest = to /\ MoveNewBack \in S
    BY <1>2, <1>7, <2>1, StepsAre
  <2> QED BY <1>4, <1>5, <1>6, <2>1, <2>2 DEF FitsHand
<1>26. CASE HandForgets
  <2>1. PICK step \in {Forget, ForgetIfListed} : ByHand(step) /\ at.slot = "none"
    BY <1>8, <1>26 DEF HandForgets
  <2>2. manifest = to /\ FitsCleanup(S)
    BY <1>7, <2>1, StepsAre
  <2>3. MoveNewBack \in S
    BY <1>4, <1>5, <1>6, <2>1, <2>2 DEF FitsHand
  <2>4. MoveNewBack = step \/ Rank(MoveNewBack) < Rank(step)
    BY <1>2, <2>1, <2>3, Ranks
  <2> QED BY <2>1, <2>4, Ranks, StepsDiffer
<1>27. CASE HandRemovesAside
  BY <1>8, <1>27 DEF HandRemovesAside
<1> QED BY <1>20, <1>21, <1>22, <1>23, <1>24, <1>25, <1>26, <1>27 DEF HandStep

(* Whoever begins to follow a record that fits has what it takes.            *)
LEMMA HandBeginsFitting ==
  ASSUME TypeInv, RecordInv, DiskFits, HandBegins
  PROVE  HandFits' /\ DiskFits'
<1>1. /\ hand.state = "away" /\ marker # NoRecord /\ Rec = marker /\ UNCHANGED <<to, at, files, reg, jjName, bookmark>>
      /\ UNCHANGED <<manifest, written>> /\ hand'.misled = Stale /\ hand'.left = StepsOf(marker)
  BY DEF HandBegins, Over, Rec, StepsOf, disk
<1>2. DiskFits'
  BY <1>1 DEF DiskFits, Careful
<1>3. FitsRecord(marker)
  BY <1>1 DEF RecordInv
<1>4. CASE Stale
  <2>1. hand'.misled
    BY <1>1, <1>4
  <2> QED BY <1>2, <2>1 DEF HandFits
<1>5. CASE ~Stale
  <2>1. manifest \in Modes
    BY <1>5 DEF Stale, TypeInv, DiskType
  <2>2. manifest # to => manifest = from
    BY <2>1, ModesAre DEF TypeInv, DiskType, from
  <2>3. FitsHand(ToSet(StepsOf(marker)))
    <3>1. CASE manifest # to
      <4>1. StepsOf(marker) = marker.steps
        BY <3>1 DEF StepsOf
      <4> QED BY <1>3, <1>5, <2>1, <2>2, <3>1, <4>1 DEF FitsRecord, FitsHand, Stale
    <3>2. CASE manifest = to
      BY <1>3, <1>5, <2>1, <3>2 DEF FitsRecord, FitsHand, Stale, TypeInv, DiskType
    <3> QED BY <3>1, <3>2
  <2>4. PICK S : S = ToSet(StepsOf(marker))
    OBVIOUS
  <2>5. FitsHand(S)'
    BY <1>1, <2>3, <2>4 DEF FitsHand, FitsUndo, FitsCleanup, AtHome, Quiet
  <2>6. ToSet(hand'.left) = S
    BY <1>1, <2>4
  <2>7. FitsHand(ToSet(hand.left))'
    BY <2>5, <2>6 DEF FitsHand, FitsUndo, FitsCleanup
  <2> QED BY <1>2, <2>7 DEF HandFits, FitsHand, FitsUndo, FitsCleanup
<1> QED BY <1>2, <1>4, <1>5

-----------------------------------------------------------------------------
(* The disk while the migrate runs.                                          *)

LEMMA AwayAt ==
  ASSUME TypeInv, Place \notin Ends
  PROVE  hand.state = "away"
  BY DEF TypeInv, PlaceType, Place, Ends

LEMMA DiskFitsStep ==
  ASSUME TypeInv, OrderInv, UniqueInv, StageInv, RecordInv, HandFits, DiskFits, SlotStep
  PROVE  DiskFits'
<1>1. CASE Refuse
  <2>1. UNCHANGED <<manifest, at, files, jjName, to, hand>>
    BY <1>1 DEF Refuse, disk
  <2> QED BY <2>1 DEF DiskFits, Careful
<1>2. CASE Prepare
  <2>1. UNCHANGED <<manifest, at, files, jjName, to, hand>>
    BY <1>2 DEF Prepare
  <2> QED BY <2>1 DEF DiskFits, Careful
<1>3. CASE BeginMarker
  <2>1. UNCHANGED <<manifest, at, files, jjName, to, hand>>
    BY <1>3 DEF BeginMarker, disk
  <2> QED BY <2>1 DEF DiskFits, Careful
<1>4. CASE SetAside
  <2>1. Place = "setting aside" /\ Place' = "push aside" /\ hand.state = "away"
    BY <1>4, Moves, AwayAt DEF Ends
  <2>2. /\ at.slot = "old" /\ at'.slot = "none" /\ at'.stash = at.stash
        /\ UNCHANGED <<manifest, files, jjName, to, hand>>
    BY <1>4 DEF SetAside, TypeInv, DiskType
  <2> QED BY <2>1, <2>2 DEF DiskFits, Careful, StageInv, Undoable, Early, Start, Middle, Late, Emptied
<1>5. CASE PushAside
  <2>1. UNCHANGED <<manifest, at, files, jjName, to, hand>>
    BY <1>5 DEF PushAside, disk
  <2> QED BY <2>1 DEF DiskFits, Careful
<1>6. CASE Repoint
  <2>1. UNCHANGED <<manifest, at, files, jjName, to, hand>>
    BY <1>6 DEF Repoint
  <2> QED BY <2>1 DEF DiskFits, Careful
<1>7. CASE Check
  <2>1. UNCHANGED <<manifest, at, files, jjName, to, hand>>
    BY <1>7 DEF Check, disk
  <2> QED BY <2>1 DEF DiskFits, Careful
<1>8. CASE AddBegins
  <2>1. Place = "add" /\ Place' = "adding" /\ hand.state = "away"
    BY <1>8, Moves, AwayAt DEF Ends
  <2>2. /\ at'.slot = "new" /\ at'.stash = at.stash
        /\ UNCHANGED <<manifest, files, jjName, to, hand>>
    BY <1>8 DEF AddBegins, TypeInv, DiskType
  <2> QED BY <2>1, <2>2 DEF DiskFits, Careful, StageInv, Undoable, Early, Start, Middle, Late, Emptied
<1>9. CASE AddEnds
  <2>1. Place = "adding" /\ Place' = "added" /\ hand.state = "away"
    BY <1>9, Moves, AwayAt DEF Ends
  <2>2. UNCHANGED <<manifest, files, at, to, hand>>
    BY <1>9 DEF AddEnds
  <2> QED BY <2>1, <2>2 DEF DiskFits, Careful, StageInv, Undoable, Early, Start, Middle, Late, Emptied
<1>10. CASE AddFails
  <2>1. Place = "adding" /\ Place' = "undo" /\ hand.state = "away"
    BY <1>10, Moves, AwayAt DEF Ends
  <2>2. /\ UNCHANGED <<manifest, jjName, to, hand>> /\ at'.stash = at.stash
        /\ UNCHANGED <<at, files>> \/ files'["new"] = {}
    BY <1>10 DEF AddFails, TypeInv, DiskType, Checkouts
  <2> QED BY <2>1, <2>2 DEF DiskFits, Careful, StageInv, Undoable, Early, Start, Middle, Late, Emptied
<1>11. CASE PushCarry
  <2>1. UNCHANGED <<manifest, at, files, jjName, to, hand>>
    BY <1>11 DEF PushCarry, disk
  <2> QED BY <2>1 DEF DiskFits, Careful
<1>12. CASE CarryLooks
  <2>1. UNCHANGED <<manifest, at, files, jjName, to, hand>>
    BY <1>12 DEF CarryLooks, disk
  <2> QED BY <2>1 DEF DiskFits, Careful
<1>13. CASE CarryRenames
  <2>1. Place = "carry" /\ Place' \in {"recordSaving", "carry"} /\ hand.state = "away"
    BY <1>13, Moves, AwayAt DEF Ends
  <2>2. UNCHANGED <<manifest, jjName, to, hand, at>>
    BY <1>13 DEF CarryRenames
  <2> QED BY <2>1, <2>2 DEF DiskFits, Careful, StageInv, Undoable, Early, Start, Middle, Late, Emptied
<1>14. CASE RecordSaving
  <2>1. UNCHANGED <<manifest, at, files, jjName, to, hand>>
    BY <1>14 DEF RecordSaving, disk
  <2> QED BY <2>1 DEF DiskFits, Careful
<1>15. CASE SaveDetaches
  <2>1. Place = "save" /\ Place' = "saving" /\ hand.state = "away"
    BY <1>15, Moves, AwayAt DEF Ends
  <2>2. UNCHANGED <<files, jjName, to, hand, at>> /\ manifest' = Gone /\ to # Gone
    BY <1>15, ModesAre DEF SaveDetaches, TypeInv, DiskType
  <2> QED BY <2>1, <2>2 DEF DiskFits, Careful, StageInv, Undoable, Early, Start, Middle, Late, Emptied
<1>16. CASE SaveInstalls
  <2>1. Place = "saving" /\ Place' \in {"saved", "undo"} /\ hand.state = "away"
    BY <1>16, Moves, AwayAt DEF Ends
  <2>2. UNCHANGED <<files, jjName, to, hand, at>> /\ manifest' \in {to, Other(to)} /\ Other(to) # to
    BY <1>16, ModesAre DEF SaveInstalls, from, TypeInv, DiskType
  <2> QED BY <2>1, <2>2 DEF DiskFits, Careful, StageInv, Undoable, Early, Start, Middle, Late, Emptied
<1>17. CASE Saved
  <2>1. UNCHANGED <<manifest, at, files, jjName, to, hand>>
    BY <1>17 DEF Saved, disk
  <2> QED BY <2>1 DEF DiskFits, Careful
<1>18. CASE CheckFails
  <2>1. UNCHANGED <<manifest, at, files, jjName, to, hand>>
    BY <1>18 DEF CheckFails, disk
  <2> QED BY <2>1 DEF DiskFits, Careful
<1>19. CASE InstallRecord
  <2>1. UNCHANGED <<manifest, at, files, jjName, to, hand>>
    BY <1>19 DEF InstallRecord, disk
  <2> QED BY <2>1 DEF DiskFits, Careful
<1>20. CASE Finish
  <2>1. UNCHANGED <<manifest, at, files, jjName, to, hand>>
    BY <1>20 DEF Finish, disk
  <2> QED BY <2>1 DEF DiskFits, Careful
<1>21. CASE SetNewAside
  <2>1. Place = "forget" /\ Place' \in {"record forgetting", "remove aside"} /\ hand.state = "away"
    BY <1>21, Moves, AwayAt DEF Ends
  <2>2. /\ UNCHANGED <<manifest, files, jjName, to, hand>>
        /\ UNCHANGED at \/ (at'.slot = "none" /\ at'.stash = "new")
    BY <1>21 DEF SetNewAside, TypeInv, DiskType
  <2> QED BY <2>1, <2>2 DEF DiskFits, Careful, StageInv, Undoable, Early, Start, Middle, Late, Emptied
<1>22. CASE RecordForgetting
  <2>1. UNCHANGED <<manifest, at, files, jjName, to, hand>>
    BY <1>22 DEF RecordForgetting, disk
  <2> QED BY <2>1 DEF DiskFits, Careful
<1>23. CASE ForgetName
  <2>1. Place = "forget name" /\ Place' = "restore new" /\ hand.state = "away"
    BY <1>23, Moves, AwayAt DEF Ends
  <2>2. UNCHANGED <<manifest, files, at, to, hand>> /\ jjName' \in {FALSE, jjName}
    BY <1>23 DEF ForgetName
  <2> QED BY <2>1, <2>2 DEF DiskFits, Careful, StageInv, Undoable, Early, Start, Middle, Late, Emptied
<1>24. CASE RestoreNew
  <2>1. Place = "restore new" /\ Place' \in {"record restored", "remove aside"} /\ hand.state = "away"
    BY <1>24, Moves, AwayAt DEF Ends
  <2>2. /\ UNCHANGED <<manifest, files, jjName, to, hand>>
        /\ UNCHANGED at \/ (at'.slot = "new" /\ at'.stash = "none")
    BY <1>24 DEF RestoreNew, TypeInv, DiskType
  <2> QED BY <2>1, <2>2 DEF DiskFits, Careful, StageInv, Undoable, Early, Start, Middle, Late, Emptied
<1>25. CASE RecordRestored
  <2>1. UNCHANGED <<manifest, at, files, jjName, to, hand>>
    BY <1>25 DEF RecordRestored, disk
  <2> QED BY <2>1 DEF DiskFits, Careful
<1>26. CASE RemoveOld
  <2>1. Place = "remove aside" /\ Place' \in {"deregister", "stranded?"} /\ hand.state = "away"
    BY <1>26, Moves, AwayAt DEF Ends
  <2>2. /\ UNCHANGED <<manifest, jjName, to, hand>> /\ at'.slot = at.slot /\ at'.stash = at.stash
        /\ files'["new"] = files["new"]
    BY <1>26 DEF RemoveOld, TypeInv, DiskType, Checkouts
  <2> QED BY <2>1, <2>2 DEF DiskFits, Careful, StageInv, Undoable, Early, Start, Middle, Late, Emptied
<1>27. CASE Deregister
  <2>1. UNCHANGED <<manifest, at, files, jjName, to, hand>>
    BY <1>27 DEF Deregister
  <2> QED BY <2>1 DEF DiskFits, Careful
<1>28. CASE RecordStranded
  <2>1. UNCHANGED <<manifest, at, files, jjName, to, hand>>
    BY <1>28 DEF RecordStranded, disk
  <2> QED BY <2>1 DEF DiskFits, Careful
<1>29. CASE End
  <2>1. UNCHANGED <<manifest, at, files, jjName, to, hand>>
    BY <1>29 DEF End, disk
  <2> QED BY <2>1 DEF DiskFits, Careful
<1>30. CASE UndoMark
  <2>1. UNCHANGED <<manifest, at, files, jjName, to, hand>>
    BY <1>30 DEF UndoMark
  <2> QED BY <2>1 DEF DiskFits, Careful
<1>31. CASE UndoNothingMade
  <2>1. UNCHANGED <<manifest, at, files, jjName, to, hand>>
    BY <1>31 DEF UndoNothingMade, disk
  <2> QED BY <2>1 DEF DiskFits, Careful
<1>32. CASE UndoNew
  <2>1. Place = "undo" /\ Place' \in {"undo", "stop"} /\ hand.state = "away"
    BY <1>32, Moves, AwayAt DEF Ends
  <2>2. /\ UNCHANGED <<manifest, to, hand>> /\ at'.stash = at.stash
        /\ files'["new"] = {}
    BY <1>32 DEF UndoNew, TypeInv, DiskType, Checkouts
  <2> QED BY <2>1, <2>2 DEF DiskFits, Careful, StageInv, Undoable, Early, Start, Middle, Late, Emptied
<1>33. CASE UndoAside
  <2>1. Place = "undo" /\ Place' \in {"undo", "stop"} /\ hand.state = "away"
    BY <1>33, Moves, AwayAt DEF Ends
  <2>2. /\ UNCHANGED <<manifest, to, hand, files>> /\ at'.stash = at.stash
        /\ at.slot = "none"
    BY <1>33 DEF UndoAside, TypeInv, DiskType
  <2> QED BY <2>1, <2>2 DEF DiskFits, Careful, StageInv, Undoable, Early, Start, Middle, Late, Emptied
<1>34. CASE UndoFails
  <2>1. UNCHANGED <<manifest, at, files, jjName, to, hand>>
    BY <1>34 DEF UndoFails, disk
  <2> QED BY <2>1 DEF DiskFits, Careful
<1>35. CASE Stop
  <2>1. UNCHANGED <<manifest, at, files, jjName, to, hand>>
    BY <1>35 DEF Stop, disk
  <2> QED BY <2>1 DEF DiskFits, Careful
<1>36. CASE RolledBack
  <2>1. UNCHANGED <<manifest, at, files, jjName, to, hand>>
    BY <1>36 DEF RolledBack, disk
  <2> QED BY <2>1 DEF DiskFits, Careful
<1>37. ASSUME NEW e \in Entries, UndoCarryNothing(e) PROVE DiskFits'
  <2>1. UNCHANGED <<manifest, at, files, jjName, to, hand>>
    BY <1>37 DEF UndoCarryNothing, disk
  <2> QED BY <2>1 DEF DiskFits, Careful
<1>38. ASSUME NEW e \in Entries, UndoCarryLooks(e) PROVE DiskFits'
  <2>1. UNCHANGED <<manifest, at, files, jjName, to, hand>>
    BY <1>38 DEF UndoCarryLooks, disk
  <2> QED BY <2>1 DEF DiskFits, Careful
<1>39. ASSUME NEW e \in Entries, UndoCarryRenames(e) PROVE DiskFits'
  <2>1. Place = "undo" /\ Place' = "undo" /\ hand.state = "away"
    BY <1>39, Moves, AwayAt DEF Ends
  <2>0. files'["new"] \subseteq files["new"]
    <3>1. Rename(e, "new", "old")
      BY <1>39 DEF UndoCarryRenames
    <3> QED BY <3>1, RenameMoves DEF TypeInv, Checkouts
  <2>2. UNCHANGED <<manifest, jjName, to, hand, at>> /\ files'["new"] \subseteq files["new"]
    BY <1>39, <2>0 DEF UndoCarryRenames
  <2> QED BY <2>1, <2>2 DEF DiskFits, Careful, StageInv, Undoable, Early, Start, Middle, Late, Emptied
<1>40. ASSUME NEW e \in Entries, UndoCarryKeeps(e) PROVE DiskFits'
  <2>1. Place = "undo" /\ Place' = "undo" /\ hand.state = "away"
    BY <1>40, Moves, AwayAt DEF Ends
  <2>0. files'["new"] \subseteq files["new"]
    <3>1. Rename(e, "new", "kept")
      BY <1>40 DEF UndoCarryKeeps
    <3> QED BY <3>1, RenameMoves DEF TypeInv, Checkouts
  <2>2. UNCHANGED <<manifest, jjName, to, hand, at>> /\ files'["new"] \subseteq files["new"]
    BY <1>40, <2>0 DEF UndoCarryKeeps
  <2> QED BY <2>1, <2>2 DEF DiskFits, Careful, StageInv, Undoable, Early, Start, Middle, Late, Emptied
<1>41. CASE Kill
  <2>1. UNCHANGED <<manifest, at, files, jjName, to, hand>>
    BY <1>41 DEF Kill, disk
  <2> QED BY <2>1 DEF DiskFits, Careful
<1>42. ASSUME NEW place \in {"slot", "aside"}, NEW item \in Items, Write(place, item) PROVE DiskFits'
  <2>1. PICK c \in {"old", "new", "stray"}, n \in 1..MaxWrites :
           /\ \A d \in Checkouts : d # c => files'[d] = files[d]
           /\ at'.stash = at.stash /\ (at'.slot = at.slot \/ (at.slot = "none" /\ at'.slot = "stray"))
           /\ c = "new" => at.slot = "new"
           /\ hand.state = "away" /\ UNCHANGED <<to, jjName, manifest, hand>>
    BY <1>42, WriteDoes DEF TypeInv
  <2>2. files'["new"] # {} => files["new"] # {} \/ at.slot = "new"
    BY <2>1 DEF Checkouts
  <2> QED BY <2>1, <2>2 DEF DiskFits, Careful
<1>43. CASE ByPerson
  <2>1. CASE HandFinishes
    BY <2>1 DEF HandFinishes, DiskFits, Careful, TypeInv, StepType
  <2> QED BY <1>43, <2>1, HandFitsStep, HandBeginsFitting DEF ByPerson
<1> QED BY <1>1, <1>2, <1>3, <1>4, <1>5, <1>6, <1>7, <1>8, <1>9, <1>10, <1>11, <1>12, <1>13, <1>14, <1>15,
        <1>16, <1>17, <1>18, <1>19, <1>20, <1>21, <1>22, <1>23, <1>24, <1>25, <1>26, <1>27, <1>28, <1>29,
        <1>30, <1>31, <1>32, <1>33, <1>34, <1>35, <1>36, <1>37, <1>38, <1>39, <1>40, <1>41, <1>42,
        <1>43 DEF SlotStep, Migrates, CleansUp, RollsBack, Writes

LEMMA HandFitsNext ==
  ASSUME TypeInv, OrderInv, UniqueInv, RecordInv, DiskFits, HandFits, SlotStep
  PROVE  HandFits'
<1>1. CASE HandStep
  BY <1>1, HandFitsStep
<1>2. CASE HandBegins
  BY <1>2, HandBeginsFitting
<1>3. CASE HandFinishes
  BY <1>3 DEF HandFinishes, HandFits, TypeInv, StepType
<1>4. CASE hand'.state = "away"
  BY <1>4 DEF HandFits
<1> QED BY <1>1, <1>2, <1>3, <1>4, AwayStays DEF ByPerson

LEMMA UniqueRename ==
  ASSUME TypeInv, UniqueInv, NEW e, NEW s \in Checkouts, NEW t \in Checkouts, s # t, Rename(e, s, t), UNCHANGED written
  PROVE  UniqueInv'
<1>1. /\ files'[s] = {c \in files[s] : c[1] # e}
      /\ files'[t] = {c \in files[t] : c[1] # e} \cup {c \in files[s] : c[1] = e}
      /\ \A d \in Checkouts : d # s /\ d # t => files'[d] = files[d]
  <2>1. files \in [Checkouts -> SUBSET (Items \X (0..MaxWrites))]
    BY DEF TypeInv, DiskType
  <2>2. files' = [files EXCEPT ![s] = {c \in files[s] : c[1] # e},
                               ![t] = {c \in files[t] : c[1] # e} \cup {c \in files[s] : c[1] = e}]
    BY <2>1 DEF Rename
  <2>3. \A d \in Checkouts : files'[d] = IF d = t THEN {c \in files[t] : c[1] # e} \cup {c \in files[s] : c[1] = e}
                                        ELSE IF d = s THEN {c \in files[s] : c[1] # e} ELSE files[d]
    BY <2>1, <2>2
  <2> QED BY <2>3
<1>2. \A c \in Checkouts : files'[c] \subseteq written
  BY <1>1 DEF UniqueInv
<1>3. ASSUME NEW x \in written, x[2] = 0, NEW c \in Checkouts, NEW d \in Checkouts, x \in files'[c], x \in files'[d]
      PROVE  c = d
  <2>1. CASE x[1] # e
    <3>1. x \in files[c] /\ x \in files[d]
      BY <1>1, <1>3, <2>1
    <3> QED BY <1>3, <3>1 DEF UniqueInv
  <2>2. CASE x[1] = e
    <3>1. \A b \in Checkouts : x \in files'[b] => b # s /\ (b = t => x \in files[s]) /\ (b # t => x \in files[b])
      BY <1>1, <1>3, <2>2
    <3> QED BY <1>3, <3>1 DEF UniqueInv
  <2> QED BY <2>1, <2>2
<1> QED BY <1>2, <1>3 DEF UniqueInv

LEMMA UniqueStep ==
  ASSUME TypeInv, UniqueInv, SlotStep
  PROVE  UniqueInv'
<1>1. CASE Refuse
  <2>1. UNCHANGED <<files, written>>
    BY <1>1 DEF Refuse, disk
  <2> QED BY <2>1 DEF UniqueInv
<1>2. CASE Prepare
  <2>1. UNCHANGED <<files, written>>
    BY <1>2 DEF Prepare
  <2> QED BY <2>1 DEF UniqueInv
<1>3. CASE BeginMarker
  <2>1. UNCHANGED <<files, written>>
    BY <1>3 DEF BeginMarker, disk
  <2> QED BY <2>1 DEF UniqueInv
<1>4. CASE SetAside
  <2>1. UNCHANGED <<files, written>>
    BY <1>4 DEF SetAside
  <2> QED BY <2>1 DEF UniqueInv
<1>5. CASE PushAside
  <2>1. UNCHANGED <<files, written>>
    BY <1>5 DEF PushAside, disk
  <2> QED BY <2>1 DEF UniqueInv
<1>6. CASE Repoint
  <2>1. UNCHANGED <<files, written>>
    BY <1>6 DEF Repoint
  <2> QED BY <2>1 DEF UniqueInv
<1>7. CASE Check
  <2>1. UNCHANGED <<files, written>>
    BY <1>7 DEF Check, disk
  <2> QED BY <2>1 DEF UniqueInv
<1>8. CASE AddBegins
  <2>1. UNCHANGED <<files, written>>
    BY <1>8 DEF AddBegins
  <2> QED BY <2>1 DEF UniqueInv
<1>9. CASE AddEnds
  <2>1. UNCHANGED <<files, written>>
    BY <1>9 DEF AddEnds
  <2> QED BY <2>1 DEF UniqueInv
<1>10. CASE AddFails
  <2>1. (\A c \in Checkouts : files'[c] \subseteq files[c]) /\ UNCHANGED written
    BY <1>10 DEF AddFails, TypeInv, DiskType, Checkouts
  <2> QED BY <2>1 DEF UniqueInv
<1>11. CASE PushCarry
  <2>1. UNCHANGED <<files, written>>
    BY <1>11 DEF PushCarry, disk
  <2> QED BY <2>1 DEF UniqueInv
<1>12. CASE CarryLooks
  <2>1. UNCHANGED <<files, written>>
    BY <1>12 DEF CarryLooks, disk
  <2> QED BY <2>1 DEF UniqueInv
<1>13. CASE CarryRenames
  <2>1. Rename(looked, "old", "new") /\ UNCHANGED written
    BY <1>13 DEF CarryRenames
  <2> QED BY <2>1, UniqueRename DEF Checkouts
<1>14. CASE RecordSaving
  <2>1. UNCHANGED <<files, written>>
    BY <1>14 DEF RecordSaving, disk
  <2> QED BY <2>1 DEF UniqueInv
<1>15. CASE SaveDetaches
  <2>1. UNCHANGED <<files, written>>
    BY <1>15 DEF SaveDetaches
  <2> QED BY <2>1 DEF UniqueInv
<1>16. CASE SaveInstalls
  <2>1. UNCHANGED <<files, written>>
    BY <1>16 DEF SaveInstalls
  <2> QED BY <2>1 DEF UniqueInv
<1>17. CASE Saved
  <2>1. UNCHANGED <<files, written>>
    BY <1>17 DEF Saved, disk
  <2> QED BY <2>1 DEF UniqueInv
<1>18. CASE CheckFails
  <2>1. UNCHANGED <<files, written>>
    BY <1>18 DEF CheckFails, disk
  <2> QED BY <2>1 DEF UniqueInv
<1>19. CASE InstallRecord
  <2>1. UNCHANGED <<files, written>>
    BY <1>19 DEF InstallRecord, disk
  <2> QED BY <2>1 DEF UniqueInv
<1>20. CASE Finish
  <2>1. UNCHANGED <<files, written>>
    BY <1>20 DEF Finish, disk
  <2> QED BY <2>1 DEF UniqueInv
<1>21. CASE SetNewAside
  <2>1. UNCHANGED <<files, written>>
    BY <1>21 DEF SetNewAside
  <2> QED BY <2>1 DEF UniqueInv
<1>22. CASE RecordForgetting
  <2>1. UNCHANGED <<files, written>>
    BY <1>22 DEF RecordForgetting, disk
  <2> QED BY <2>1 DEF UniqueInv
<1>23. CASE ForgetName
  <2>1. UNCHANGED <<files, written>>
    BY <1>23 DEF ForgetName
  <2> QED BY <2>1 DEF UniqueInv
<1>24. CASE RestoreNew
  <2>1. UNCHANGED <<files, written>>
    BY <1>24 DEF RestoreNew
  <2> QED BY <2>1 DEF UniqueInv
<1>25. CASE RecordRestored
  <2>1. UNCHANGED <<files, written>>
    BY <1>25 DEF RecordRestored, disk
  <2> QED BY <2>1 DEF UniqueInv
<1>26. CASE RemoveOld
  <2>1. (\A c \in Checkouts : files'[c] \subseteq files[c]) /\ UNCHANGED written
    BY <1>26 DEF RemoveOld, TypeInv, DiskType, Checkouts
  <2> QED BY <2>1 DEF UniqueInv
<1>27. CASE Deregister
  <2>1. UNCHANGED <<files, written>>
    BY <1>27 DEF Deregister
  <2> QED BY <2>1 DEF UniqueInv
<1>28. CASE RecordStranded
  <2>1. UNCHANGED <<files, written>>
    BY <1>28 DEF RecordStranded, disk
  <2> QED BY <2>1 DEF UniqueInv
<1>29. CASE End
  <2>1. UNCHANGED <<files, written>>
    BY <1>29 DEF End, disk
  <2> QED BY <2>1 DEF UniqueInv
<1>30. CASE UndoMark
  <2>1. UNCHANGED <<files, written>>
    BY <1>30 DEF UndoMark
  <2> QED BY <2>1 DEF UniqueInv
<1>31. CASE UndoNothingMade
  <2>1. UNCHANGED <<files, written>>
    BY <1>31 DEF UndoNothingMade, disk
  <2> QED BY <2>1 DEF UniqueInv
<1>32. CASE UndoNew
  <2>1. (\A c \in Checkouts : files'[c] \subseteq files[c]) /\ UNCHANGED written
    BY <1>32 DEF UndoNew, TypeInv, DiskType, Checkouts
  <2> QED BY <2>1 DEF UniqueInv
<1>33. CASE UndoAside
  <2>1. UNCHANGED <<files, written>>
    BY <1>33 DEF UndoAside
  <2> QED BY <2>1 DEF UniqueInv
<1>34. CASE UndoFails
  <2>1. UNCHANGED <<files, written>>
    BY <1>34 DEF UndoFails, disk
  <2> QED BY <2>1 DEF UniqueInv
<1>35. CASE Stop
  <2>1. UNCHANGED <<files, written>>
    BY <1>35 DEF Stop, disk
  <2> QED BY <2>1 DEF UniqueInv
<1>36. CASE RolledBack
  <2>1. UNCHANGED <<files, written>>
    BY <1>36 DEF RolledBack, disk
  <2> QED BY <2>1 DEF UniqueInv
<1>37. ASSUME NEW e \in Entries, UndoCarryNothing(e) PROVE UniqueInv'
  <2>1. UNCHANGED <<files, written>>
    BY <1>37 DEF UndoCarryNothing, disk
  <2> QED BY <2>1 DEF UniqueInv
<1>38. ASSUME NEW e \in Entries, UndoCarryLooks(e) PROVE UniqueInv'
  <2>1. UNCHANGED <<files, written>>
    BY <1>38 DEF UndoCarryLooks, disk
  <2> QED BY <2>1 DEF UniqueInv
<1>39. ASSUME NEW e \in Entries, UndoCarryRenames(e) PROVE UniqueInv'
  <2>1. Rename(e, "new", "old") /\ UNCHANGED written
    BY <1>39 DEF UndoCarryRenames
  <2> QED BY <2>1, UniqueRename DEF Checkouts
<1>40. ASSUME NEW e \in Entries, UndoCarryKeeps(e) PROVE UniqueInv'
  <2>1. Rename(e, "new", "kept") /\ UNCHANGED written
    BY <1>40 DEF UndoCarryKeeps
  <2> QED BY <2>1, UniqueRename DEF Checkouts
<1>41. CASE Kill
  <2>1. UNCHANGED <<files, written>>
    BY <1>41 DEF Kill, disk
  <2> QED BY <2>1 DEF UniqueInv
<1>42. ASSUME NEW place \in {"slot", "aside"}, NEW item \in Items, Write(place, item) PROVE UniqueInv'
  <2>1. PICK c \in {"old", "new", "stray"}, n \in 1..MaxWrites :
           /\ files'[c] = files[c] \cup {<<item, n>>} /\ written' = written \cup {<<item, n>>}
           /\ \A d \in Checkouts : d # c => files'[d] = files[d]
    BY <1>42, WriteDoes DEF TypeInv
  <2>2. n # 0 /\ <<item, n>>[2] = n
    BY EntriesAssumption
  <2>3. \A d \in Checkouts : files'[d] \subseteq written'
    BY <2>1 DEF UniqueInv
  <2>4. ASSUME NEW x \in written', x[2] = 0, NEW a \in Checkouts, NEW b \in Checkouts, x \in files'[a], x \in files'[b]
        PROVE  a = b
    <3>1. x \in written /\ x \in files[a] /\ x \in files[b]
      BY <2>1, <2>2, <2>4
    <3> QED BY <2>4, <3>1 DEF UniqueInv
  <2> QED BY <2>3, <2>4 DEF UniqueInv
<1>43. CASE ByPerson
  <2>1. UNCHANGED written
    BY <1>43, Moves
  <2>2. CASE UNCHANGED files
    BY <2>1, <2>2 DEF UniqueInv
  <2>3. CASE HandCarriesBack /\ ~UNCHANGED files
    <3>1. PICK e \in Entries, t \in {"old", "kept"} :
            at.slot # "none" /\ Has(at.slot, e) /\ ~Has(t, e) /\ Rename(e, at.slot, t)
      BY <2>3, HandCarriesDoes DEF Stuck, disk
    <3>2. at.slot \in Checkouts /\ t \in Checkouts /\ at.slot # t
      BY <3>1 DEF TypeInv, DiskType, Checkouts
    <3> QED BY <2>1, <3>1, <3>2, UniqueRename
  <2>4. CASE HandRemovesNew /\ ~UNCHANGED files
    <3>1. files' = [files EXCEPT ![at.slot] = {}]
      BY <2>4 DEF HandRemovesNew, Stuck, disk
    <3>2. \A c \in Checkouts : files'[c] \subseteq files[c]
      BY <3>1 DEF TypeInv, DiskType, Checkouts
    <3> QED BY <2>1, <3>2 DEF UniqueInv
  <2>5. ASSUME NEW s \in Checkouts, s # "taken", files' = [files EXCEPT ![s] = {}, !.taken = @ \cup files[s]]
        PROVE  UniqueInv'
    <3>1. /\ files'[s] = {} /\ files'["taken"] = files["taken"] \cup files[s]
          /\ \A d \in Checkouts : d # s /\ d # "taken" => files'[d] = files[d]
      BY <2>5 DEF TypeInv, DiskType, Checkouts
    <3>2. \A c \in Checkouts : files'[c] \subseteq written
      BY <2>5, <3>1 DEF UniqueInv, Checkouts
    <3>3. ASSUME NEW x \in written, x[2] = 0, NEW c \in Checkouts, NEW d \in Checkouts, x \in files'[c], x \in files'[d]
          PROVE  c = d
      <4>1. \A b \in Checkouts : x \in files'[b] => b # s /\ (b # "taken" => x \in files[b])
                                              /\ (b = "taken" => x \in files["taken"] \/ x \in files[s])
        BY <3>1
      <4>2. "taken" \in Checkouts
        BY DEF Checkouts
      <4> QED BY <2>5, <3>3, <4>1, <4>2 DEF UniqueInv
    <3> QED BY <2>1, <3>2, <3>3 DEF UniqueInv
  <2>6. CASE HandLooks /\ ~UNCHANGED files
    <3>1. files' = [files EXCEPT ![at.slot] = {}, !.taken = @ \cup files[at.slot]] /\ at.slot # "none"
      BY <2>6 DEF HandLooks
    <3>2. at.slot \in Checkouts /\ at.slot # "taken"
      BY <3>1 DEF TypeInv, DiskType, Checkouts
    <3> QED BY <2>5, <3>1, <3>2
  <2>7. CASE HandRemovesAside
    <3>1. files' = [files EXCEPT !["old"] = {}, !.taken = @ \cup files["old"]]
      BY <2>7 DEF HandRemovesAside
    <3> QED BY <2>5, <3>1 DEF Checkouts
  <2>8. HandMovesBack \/ HandRestoresMark \/ HandMovesNewBack \/ HandForgets \/ HandBegins \/ HandFinishes =>
          UNCHANGED files
    BY DEF HandMovesBack, HandRestoresMark, HandMovesNewBack, HandForgets, HandBegins, HandFinishes, Stuck, disk
  <2> QED BY <1>43, <2>2, <2>3, <2>4, <2>6, <2>7, <2>8 DEF ByPerson, HandStep
<1> QED BY <1>1, <1>2, <1>3, <1>4, <1>5, <1>6, <1>7, <1>8, <1>9, <1>10, <1>11, <1>12, <1>13, <1>14, <1>15,
        <1>16, <1>17, <1>18, <1>19, <1>20, <1>21, <1>22, <1>23, <1>24, <1>25, <1>26, <1>27, <1>28, <1>29,
        <1>30, <1>31, <1>32, <1>33, <1>34, <1>35, <1>36, <1>37, <1>38, <1>39, <1>40, <1>41, <1>42,
        <1>43 DEF SlotStep, Migrates, CleansUp, RollsBack, Writes

LEMMA StageStep ==
  ASSUME TypeInv, DiskFits, StageInv, SlotStep
  PROVE  StageInv'
<1>1. CASE Refuse
  <2>1. Place = "prepare" /\ Place' = "refused"
    BY <1>1, Moves
  <2>2. UNCHANGED <<hand, manifest, to, forgotten, added, at, jjName, files, moved, written>>
    BY <1>1 DEF Refuse, disk, memory
  <2>3. UNCHANGED Quiet
    BY <2>2 DEF Quiet
  <2> QED BY <2>1, <2>2, <2>3 DEF StageInv, Undoable, Early, Start, Middle, Late, Emptied
<1>2. CASE Prepare
  <2>1. Place = "prepare" /\ Place' = "begin"
    BY <1>2, Moves
  <2>2. UNCHANGED <<hand, manifest, to, forgotten, added, at, jjName, files, moved, written>>
    BY <1>2 DEF Prepare
  <2>3. UNCHANGED Quiet
    BY <2>2 DEF Quiet
  <2> QED BY <2>1, <2>2, <2>3 DEF StageInv, Undoable, Early, Start, Middle, Late, Emptied
<1>3. CASE BeginMarker
  <2>1. Place = "begin" /\ Place' \in {"setting aside", "undo"}
    BY <1>3, Moves
  <2>2. UNCHANGED <<hand, manifest, to, forgotten, added, at, jjName, files, moved, written>>
    BY <1>3 DEF BeginMarker, disk, memory
  <2>3. UNCHANGED Quiet
    BY <2>2 DEF Quiet
  <2> QED BY <2>1, <2>2, <2>3 DEF StageInv, Undoable, Early, Start, Middle, Late, Emptied
<1>4. CASE SetAside
  <2>1. Place = "setting aside" /\ Place' = "push aside"
    BY <1>4, Moves
  <2>2. /\ UNCHANGED <<hand, manifest, to, forgotten, added, jjName, files, moved, written>>
        /\ at'.slot = "none" /\ at'.stash = at.stash
    BY <1>4 DEF SetAside, memory, TypeInv, DiskType
  <2>3. UNCHANGED Quiet
    BY <2>2 DEF Quiet
  <2> QED BY <2>1, <2>2, <2>3 DEF StageInv, Undoable, Early, Start, Middle, Late, Emptied
<1>5. CASE PushAside
  <2>1. Place = "push aside" /\ Place' \in {"repoint", "undo"}
    BY <1>5, Moves
  <2>2. UNCHANGED <<hand, manifest, to, forgotten, added, at, jjName, files, moved, written>>
    BY <1>5 DEF PushAside, disk
  <2>3. UNCHANGED Quiet
    BY <2>2 DEF Quiet
  <2> QED BY <2>1, <2>2, <2>3 DEF StageInv, Undoable, Early, Start, Middle, Late, Emptied
<1>6. CASE Repoint
  <2>1. Place = "repoint" /\ Place' \in {"check", "undo"}
    BY <1>6, Moves
  <2>2. UNCHANGED <<hand, manifest, to, forgotten, added, at, jjName, files, moved, written>>
    BY <1>6 DEF Repoint, memory
  <2>3. UNCHANGED Quiet
    BY <2>2 DEF Quiet
  <2> QED BY <2>1, <2>2, <2>3 DEF StageInv, Undoable, Early, Start, Middle, Late, Emptied
<1>7. CASE Check
  <2>1. Place = "check" /\ Place' \in {"add", "undo"}
    BY <1>7, Moves
  <2>2. UNCHANGED <<hand, manifest, to, forgotten, added, at, jjName, files, moved, written>>
    BY <1>7 DEF Check, disk
  <2>3. UNCHANGED Quiet
    BY <2>2 DEF Quiet
  <2> QED BY <2>1, <2>2, <2>3 DEF StageInv, Undoable, Early, Start, Middle, Late, Emptied
<1>8. CASE AddBegins
  <2>1. Place = "add" /\ Place' = "adding"
    BY <1>8, Moves
  <2>2. /\ UNCHANGED <<hand, manifest, to, forgotten, added, jjName, files, moved, written>>
        /\ at'.slot = "new" /\ at'.stash = at.stash
    BY <1>8 DEF AddBegins, memory, TypeInv, DiskType
  <2>3. UNCHANGED Quiet
    BY <2>2 DEF Quiet
  <2> QED BY <2>1, <2>2, <2>3 DEF StageInv, Undoable, Early, Start, Middle, Late, Emptied
<1>9. CASE AddEnds
  <2>1. Place = "adding" /\ Place' = "added"
    BY <1>9, Moves
  <2>2. /\ UNCHANGED <<hand, manifest, to, forgotten, at, files, moved, written>>
        /\ jjName' /\ added'
    BY <1>9 DEF AddEnds
  <2>3. UNCHANGED Quiet
    BY <2>2 DEF Quiet
  <2> QED BY <2>1, <2>2, <2>3 DEF StageInv, Undoable, Early, Start, Middle, Late, Emptied
<1>10. CASE AddFails
  <2>1. Place = "adding" /\ Place' = "undo"
    BY <1>10, Moves
  <2>2. /\ UNCHANGED <<hand, manifest, to, forgotten, added, jjName, moved, written>>
        /\ at'.stash = at.stash /\ files'["new"] \subseteq files["new"]
    BY <1>10 DEF AddFails, memory, Checkouts, TypeInv, DiskType
  <2>3. UNCHANGED Quiet
    BY <2>2 DEF Quiet
  <2> QED BY <2>1, <2>2, <2>3 DEF StageInv, Undoable, Early, Start, Middle, Late, Emptied
<1>11. CASE PushCarry
  <2>1. Place = "added" /\ Place' \in {"recordSaving", "carry", "undo"}
    BY <1>11, Moves
  <2>2. UNCHANGED <<hand, manifest, to, forgotten, added, at, jjName, files, moved, written>>
    BY <1>11 DEF PushCarry, disk
  <2>3. UNCHANGED Quiet
    BY <2>2 DEF Quiet
  <2> QED BY <2>1, <2>2, <2>3 DEF StageInv, Undoable, Early, Start, Middle, Late, Emptied
<1>12. CASE CarryLooks
  <2>1. Place = "carry" /\ Place' = "carry"
    BY <1>12, Moves
  <2>2. UNCHANGED <<hand, manifest, to, forgotten, added, at, jjName, files, moved, written>>
    BY <1>12 DEF CarryLooks, disk
  <2>3. UNCHANGED Quiet
    BY <2>2 DEF Quiet
  <2> QED BY <2>1, <2>2, <2>3 DEF StageInv, Undoable, Early, Start, Middle, Late, Emptied
<1>13. CASE CarryRenames
  <2>1. Place = "carry" /\ Place' \in {"recordSaving", "carry"}
    BY <1>13, Moves
  <2>2. UNCHANGED <<hand, manifest, to, forgotten, added, at, jjName, written>> /\ moved' = moved \cup {looked}
    BY <1>13 DEF CarryRenames
  <2>3. UNCHANGED Quiet
    BY <2>2 DEF Quiet
  <2>4. Rename(looked, "old", "new")
    BY <1>13 DEF CarryRenames
  <2>5. files'["new"] = {c \in files["new"] : c[1] # looked} \cup {c \in files["old"] : c[1] = looked}
    BY <2>4, RenameMoves DEF TypeInv, Checkouts
  <2>6. (\A c \in files["new"] : c[1] \in moved) => \A c \in files'["new"] : c[1] \in moved'
    BY <2>2, <2>5
  <2> QED BY <2>1, <2>2, <2>3, <2>6 DEF StageInv, Undoable, Early, Start, Middle, Late, Emptied
<1>14. CASE RecordSaving
  <2>1. Place = "recordSaving" /\ Place' = "save"
    BY <1>14, Moves
  <2>2. UNCHANGED <<hand, manifest, to, forgotten, added, at, jjName, files, moved, written>>
    BY <1>14 DEF RecordSaving, disk, memory
  <2>3. UNCHANGED Quiet
    BY <2>2 DEF Quiet
  <2> QED BY <2>1, <2>2, <2>3 DEF StageInv, Undoable, Early, Start, Middle, Late, Emptied
<1>15. CASE SaveDetaches
  <2>1. Place = "save" /\ Place' = "saving"
    BY <1>15, Moves
  <2>2. /\ UNCHANGED <<hand, to, forgotten, added, at, jjName, files, moved, written>>
        /\ manifest' # to
    BY <1>15, ModesAre DEF SaveDetaches, memory, TypeInv, DiskType
  <2>3. UNCHANGED Quiet
    BY <2>2 DEF Quiet
  <2> QED BY <2>1, <2>2, <2>3 DEF StageInv, Undoable, Early, Start, Middle, Late, Emptied
<1>16. CASE SaveInstalls
  <2>1. Place = "saving" /\ Place' \in {"saved", "undo"}
    BY <1>16, Moves
  <2>2. /\ UNCHANGED <<hand, to, forgotten, added, at, jjName, files, moved, written>>
        /\ manifest' = to => Place' = "saved"
        /\ Place' = "saved" => manifest' = to
    BY <1>16, PlaceAfter, ModesAre DEF SaveInstalls, from, memory, TypeInv, DiskType
  <2>3. UNCHANGED Quiet
    BY <2>2 DEF Quiet
  <2>4. at.stash = "none"
    BY <2>1, AwayAt DEF DiskFits, Careful, StageInv, Undoable, Middle, Ends
  <2> QED BY <2>1, <2>2, <2>3, <2>4 DEF StageInv, Undoable, Early, Start, Middle, Late, Emptied
<1>17. CASE Saved
  <2>1. Place = "saved" /\ Place' = "finish"
    BY <1>17, Moves
  <2>2. UNCHANGED <<hand, manifest, to, forgotten, added, at, jjName, files, moved, written>>
    BY <1>17 DEF Saved, disk, memory
  <2>3. UNCHANGED Quiet
    BY <2>2 DEF Quiet
  <2> QED BY <2>1, <2>2, <2>3 DEF StageInv, Undoable, Early, Start, Middle, Late, Emptied
<1>18. CASE CheckFails
  <2>1. Place \in (Early \ Start) \cup {"setting aside"} \cup Middle /\ Place' = "undo"
    BY <1>18, Moves
  <2>2. UNCHANGED <<hand, manifest, to, forgotten, added, at, jjName, files, moved, written>>
    BY <1>18 DEF CheckFails, disk
  <2>3. UNCHANGED Quiet
    BY <2>2 DEF Quiet
  <2> QED BY <2>1, <2>2, <2>3 DEF StageInv, Undoable, Early, Start, Middle, Late, Emptied
<1>19. CASE InstallRecord
  <2>1. Place' = Place
    BY <1>19, Moves
  <2>2. UNCHANGED <<hand, manifest, to, forgotten, added, at, jjName, files, moved, written>>
    BY <1>19 DEF InstallRecord, disk, memory
  <2>3. UNCHANGED Quiet
    BY <2>2 DEF Quiet
  <2> QED BY <2>1, <2>2, <2>3 DEF StageInv, Undoable, Early, Start, Middle, Late, Emptied
<1>20. CASE Finish
  <2>1. Place = "finish" /\ Place' \in {"end", "forget", "remove aside"}
    BY <1>20, Moves
  <2>2. UNCHANGED <<hand, manifest, to, forgotten, added, at, jjName, files, moved, written>> /\ (Place' = "forget" => to = "worktree")
    BY <1>20, PlaceAfter DEF Finish, disk, memory
  <2>3. UNCHANGED Quiet
    BY <2>2 DEF Quiet
  <2> QED BY <2>1, <2>2, <2>3 DEF StageInv, Undoable, Early, Start, Middle, Late, Emptied
<1>21. CASE SetNewAside
  <2>1. Place = "forget" /\ Place' \in {"record forgetting", "remove aside"}
    BY <1>21, Moves
  <2>2. /\ UNCHANGED <<hand, manifest, to, forgotten, added, jjName, files, moved, written>>
        /\ Place' = "record forgetting" => at'.stash = "new"
        /\ at'.stash = at.stash \/ at'.slot = "none"
    BY <1>21, PlaceAfter DEF SetNewAside, memory, TypeInv, DiskType
  <2>3. UNCHANGED Quiet
    BY <2>2 DEF Quiet
  <2> QED BY <2>1, <2>2, <2>3 DEF StageInv, Undoable, Early, Start, Middle, Late, Emptied
<1>22. CASE RecordForgetting
  <2>1. Place = "record forgetting" /\ Place' = "forget name"
    BY <1>22, Moves
  <2>2. UNCHANGED <<hand, manifest, to, forgotten, added, at, jjName, files, moved, written>>
    BY <1>22 DEF RecordForgetting, disk, memory
  <2>3. UNCHANGED Quiet
    BY <2>2 DEF Quiet
  <2> QED BY <2>1, <2>2, <2>3 DEF StageInv, Undoable, Early, Start, Middle, Late, Emptied
<1>23. CASE ForgetName
  <2>1. Place = "forget name" /\ Place' = "restore new"
    BY <1>23, Moves
  <2>2. /\ UNCHANGED <<hand, manifest, to, added, at, files, moved, written>>
        /\ UNCHANGED <<jjName, forgotten>> \/ ~jjName'
    BY <1>23 DEF ForgetName
  <2>3. UNCHANGED Quiet
    BY <2>2 DEF Quiet
  <2> QED BY <2>1, <2>2, <2>3 DEF StageInv, Undoable, Early, Start, Middle, Late, Emptied
<1>24. CASE RestoreNew
  <2>1. Place = "restore new" /\ Place' \in {"record restored", "remove aside"}
    BY <1>24, Moves
  <2>2. /\ UNCHANGED <<hand, manifest, to, forgotten, added, jjName, files, moved, written>>
        /\ Place' = "record restored" => at'.stash = "none"
        /\ at'.stash = at.stash \/ at'.stash = "none"
    BY <1>24, PlaceAfter DEF RestoreNew, memory, TypeInv, DiskType
  <2>3. UNCHANGED Quiet
    BY <2>2 DEF Quiet
  <2> QED BY <2>1, <2>2, <2>3 DEF StageInv, Undoable, Early, Start, Middle, Late, Emptied
<1>25. CASE RecordRestored
  <2>1. Place = "record restored" /\ Place' = "remove aside"
    BY <1>25, Moves
  <2>2. UNCHANGED <<hand, manifest, to, forgotten, added, at, jjName, files, moved, written>>
    BY <1>25 DEF RecordRestored, disk, memory
  <2>3. UNCHANGED Quiet
    BY <2>2 DEF Quiet
  <2> QED BY <2>1, <2>2, <2>3 DEF StageInv, Undoable, Early, Start, Middle, Late, Emptied
<1>26. CASE RemoveOld
  <2>1. Place = "remove aside" /\ Place' \in {"deregister", "stranded?"}
    BY <1>26, Moves
  <2>2. /\ UNCHANGED <<hand, manifest, to, forgotten, added, jjName, moved, written>>
        /\ at'.slot = at.slot /\ at'.stash = at.stash
    BY <1>26 DEF RemoveOld, memory, TypeInv, DiskType
  <2>3. UNCHANGED Quiet
    BY <2>2 DEF Quiet
  <2> QED BY <2>1, <2>2, <2>3 DEF StageInv, Undoable, Early, Start, Middle, Late, Emptied
<1>27. CASE Deregister
  <2>1. Place = "deregister" /\ Place' = "stranded?"
    BY <1>27, Moves
  <2>2. UNCHANGED <<hand, manifest, to, forgotten, added, at, jjName, files, moved, written>>
    BY <1>27 DEF Deregister, memory
  <2>3. UNCHANGED Quiet
    BY <2>2 DEF Quiet
  <2> QED BY <2>1, <2>2, <2>3 DEF StageInv, Undoable, Early, Start, Middle, Late, Emptied
<1>28. CASE RecordStranded
  <2>1. Place = "stranded?" /\ Place' = "end"
    BY <1>28, Moves
  <2>2. UNCHANGED <<hand, manifest, to, forgotten, added, at, jjName, files, moved, written>>
    BY <1>28 DEF RecordStranded, disk, memory
  <2>3. UNCHANGED Quiet
    BY <2>2 DEF Quiet
  <2> QED BY <2>1, <2>2, <2>3 DEF StageInv, Undoable, Early, Start, Middle, Late, Emptied
<1>29. CASE End
  <2>1. Place = "end" /\ Place' = "migrated"
    BY <1>29, Moves
  <2>2. UNCHANGED <<hand, manifest, to, forgotten, added, at, jjName, files, moved, written>>
    BY <1>29 DEF End, disk, memory
  <2>3. UNCHANGED Quiet
    BY <2>2 DEF Quiet
  <2> QED BY <2>1, <2>2, <2>3 DEF StageInv, Undoable, Early, Start, Middle, Late, Emptied
<1>30. CASE UndoMark
  <2>1. Place = "undo" /\ Place' = "undo"
    BY <1>30, Moves
  <2>2. UNCHANGED <<hand, manifest, to, forgotten, added, at, jjName, files, moved, written>>
    BY <1>30 DEF UndoMark
  <2>3. UNCHANGED Quiet
    BY <2>2 DEF Quiet
  <2> QED BY <2>1, <2>2, <2>3 DEF StageInv, Undoable, Early, Start, Middle, Late, Emptied
<1>31. CASE UndoNothingMade
  <2>1. Place = "undo" /\ Place' = "undo"
    BY <1>31, Moves
  <2>2. UNCHANGED <<hand, manifest, to, forgotten, added, at, jjName, files, moved, written>>
    BY <1>31 DEF UndoNothingMade, disk
  <2>3. UNCHANGED Quiet
    BY <2>2 DEF Quiet
  <2> QED BY <2>1, <2>2, <2>3 DEF StageInv, Undoable, Early, Start, Middle, Late, Emptied
<1>32. CASE UndoNew
  <2>1. Place = "undo" /\ Place' \in {"undo", "stop"}
    BY <1>32, Moves
  <2>2. /\ UNCHANGED <<hand, manifest, to, forgotten, added, moved, written>>
        /\ added /\ at'.stash = at.stash /\ files'["new"] = {}
    BY <1>32 DEF UndoNew, Checkouts, TypeInv, DiskType
  <2>3. UNCHANGED Quiet
    BY <2>2 DEF Quiet
  <2> QED BY <2>1, <2>2, <2>3 DEF StageInv, Undoable, Early, Start, Middle, Late, Emptied
<1>33. CASE UndoAside
  <2>1. Place = "undo" /\ Place' \in {"undo", "stop"}
    BY <1>33, Moves
  <2>2. /\ UNCHANGED <<hand, manifest, to, forgotten, added, jjName, files, moved, written>>
        /\ at'.stash = at.stash
    BY <1>33 DEF UndoAside, TypeInv, DiskType
  <2>3. UNCHANGED Quiet
    BY <2>2 DEF Quiet
  <2> QED BY <2>1, <2>2, <2>3 DEF StageInv, Undoable, Early, Start, Middle, Late, Emptied
<1>34. CASE UndoFails
  <2>1. Place = "undo" /\ Place' = "stop"
    BY <1>34, Moves
  <2>2. UNCHANGED <<hand, manifest, to, forgotten, added, at, jjName, files, moved, written>>
    BY <1>34 DEF UndoFails, disk
  <2>3. UNCHANGED Quiet
    BY <2>2 DEF Quiet
  <2> QED BY <2>1, <2>2, <2>3 DEF StageInv, Undoable, Early, Start, Middle, Late, Emptied
<1>35. CASE Stop
  <2>1. Place = "stop" /\ Place' = "stopped"
    BY <1>35, Moves
  <2>2. UNCHANGED <<hand, manifest, to, forgotten, added, at, jjName, files, moved, written>>
    BY <1>35 DEF Stop, disk, memory
  <2>3. UNCHANGED Quiet
    BY <2>2 DEF Quiet
  <2> QED BY <2>1, <2>2, <2>3 DEF StageInv, Undoable, Early, Start, Middle, Late, Emptied
<1>36. CASE RolledBack
  <2>1. Place = "undo" /\ Place' = "rolled back"
    BY <1>36, Moves
  <2>2. UNCHANGED <<hand, manifest, to, forgotten, added, at, jjName, files, moved, written>>
    BY <1>36 DEF RolledBack, disk, memory
  <2>3. UNCHANGED Quiet
    BY <2>2 DEF Quiet
  <2> QED BY <2>1, <2>2, <2>3 DEF StageInv, Undoable, Early, Start, Middle, Late, Emptied
<1>37. ASSUME NEW e \in Entries, UndoCarryNothing(e) PROVE StageInv'
  <2>1. Place = "undo" /\ Place' = "undo"
    BY <1>37, Moves
  <2>2. UNCHANGED <<hand, manifest, to, forgotten, added, at, jjName, files, moved, written>>
    BY <1>37 DEF UndoCarryNothing, disk
  <2>3. UNCHANGED Quiet
    BY <2>2 DEF Quiet
  <2> QED BY <2>1, <2>2, <2>3 DEF StageInv, Undoable, Early, Start, Middle, Late, Emptied
<1>38. ASSUME NEW e \in Entries, UndoCarryLooks(e) PROVE StageInv'
  <2>1. Place = "undo" /\ Place' = "undo"
    BY <1>38, Moves
  <2>2. UNCHANGED <<hand, manifest, to, forgotten, added, at, jjName, files, moved, written>>
    BY <1>38 DEF UndoCarryLooks, disk
  <2>3. UNCHANGED Quiet
    BY <2>2 DEF Quiet
  <2> QED BY <2>1, <2>2, <2>3 DEF StageInv, Undoable, Early, Start, Middle, Late, Emptied
<1>39. ASSUME NEW e \in Entries, UndoCarryRenames(e) PROVE StageInv'
  <2>1. Place = "undo" /\ Place' = "undo"
    BY <1>39, Moves
  <2>2. UNCHANGED <<hand, manifest, to, forgotten, added, at, jjName, moved, written>>
    BY <1>39 DEF UndoCarryRenames
  <2>3. UNCHANGED Quiet
    BY <2>2 DEF Quiet
  <2>4. files'["new"] \subseteq files["new"]
    <3>1. Rename(e, "new", "old")
      BY <1>39 DEF UndoCarryRenames
    <3> QED BY <3>1, RenameMoves DEF TypeInv, Checkouts
  <2> QED BY <2>1, <2>2, <2>3, <2>4 DEF StageInv, Undoable, Early, Start, Middle, Late, Emptied
<1>40. ASSUME NEW e \in Entries, UndoCarryKeeps(e) PROVE StageInv'
  <2>1. Place = "undo" /\ Place' = "undo"
    BY <1>40, Moves
  <2>2. UNCHANGED <<hand, manifest, to, forgotten, added, at, jjName, moved, written>>
    BY <1>40 DEF UndoCarryKeeps
  <2>3. UNCHANGED Quiet
    BY <2>2 DEF Quiet
  <2>4. files'["new"] \subseteq files["new"]
    <3>1. Rename(e, "new", "kept")
      BY <1>40 DEF UndoCarryKeeps
    <3> QED BY <3>1, RenameMoves DEF TypeInv, Checkouts
  <2> QED BY <2>1, <2>2, <2>3, <2>4 DEF StageInv, Undoable, Early, Start, Middle, Late, Emptied
<1>41. CASE Kill
  <2>1. Place' = "killed"
    BY <1>41, Moves
  <2>2. UNCHANGED <<hand, manifest, to, forgotten, added, at, jjName, files, moved, written>>
    BY <1>41 DEF Kill, disk, memory
  <2>3. UNCHANGED Quiet
    BY <2>2 DEF Quiet
  <2> QED BY <2>1, <2>2, <2>3 DEF StageInv, Undoable, Early, Start, Middle, Late, Emptied
<1>42. ASSUME NEW place \in {"slot", "aside"}, NEW item \in Items, Write(place, item) PROVE StageInv'
  <2>1. Place' = Place
    BY <1>42, Moves
  <2>2. /\ at'.stash = at.stash /\ (at'.slot = at.slot \/ (at.slot = "none" /\ at'.slot = "stray"))
        /\ UNCHANGED <<to, jjName, manifest, hand, added, forgotten>>
    BY <1>42, WriteDoes DEF TypeInv, memory
  <2>3. ~Quiet'
    <3>1. PICK n \in 1..MaxWrites : written' = written \cup {<<item, n>>}
      BY <1>42, WriteDoes DEF TypeInv
    <3>2. <<item, n>>[2] # 0
      BY EntriesAssumption
    <3> QED BY <3>1, <3>2 DEF Quiet
  <2> QED BY <2>1, <2>2, <2>3 DEF StageInv
<1>43. CASE ByPerson
  <2>1. hand'.state # "away"
    BY <1>43, PersonStays
  <2> QED BY <2>1 DEF StageInv
<1> QED BY <1>1, <1>2, <1>3, <1>4, <1>5, <1>6, <1>7, <1>8, <1>9, <1>10, <1>11, <1>12, <1>13, <1>14, <1>15,
        <1>16, <1>17, <1>18, <1>19, <1>20, <1>21, <1>22, <1>23, <1>24, <1>25, <1>26, <1>27, <1>28, <1>29,
        <1>30, <1>31, <1>32, <1>33, <1>34, <1>35, <1>36, <1>37, <1>38, <1>39, <1>40, <1>41, <1>42,
        <1>43 DEF SlotStep, Migrates, CleansUp, RollsBack, Writes

-----------------------------------------------------------------------------
(* The rollback left to do fits the disk.                                    *)

LEMMA FitsNext ==
  ASSUME NEW T, T = ToSet(undo'), FitsUndo(T)'
  PROVE  UndoFits'
  BY DEF UndoFits, FitsUndo

LEMMA SameFits ==
  ASSUME NEW S, FitsUndo(S), UNCHANGED <<at, jjName, to, files, written>>, UNCHANGED reg \/ at.slot # "old"
  PROVE  FitsUndo(S)'
  BY DEF FitsUndo, AtHome, Quiet

LEMMA MoreFits ==
  ASSUME NEW S, NEW T, FitsUndo(S), S \subseteq T, T \subseteq UndoSteps, at.slot # "old"
  PROVE  FitsUndo(T)
  BY StepsDiffer DEF FitsUndo

LEMMA HomeFits ==
  ASSUME NEW S, S \subseteq {LookBeside, RestoreMark}, AtHome, jjName = (to = "worktree"), files["new"] = {}
  PROVE  FitsUndo(S)
  BY StepsAre DEF FitsUndo, AtHome

LEMMA ApartFits ==
  ASSUME NEW T, T \subseteq UndoSteps, MoveBack \in T, SetApart, at.slot # "new",
         jjName = (to = "worktree"), files["new"] = {}
  PROVE  FitsUndo(T)
  BY StepsDiffer DEF FitsUndo, SetApart

(* Until the tool made the new checkout, no jj workspace of it is there.     *)
LEMMA NotYet ==
  ASSUME TypeInv, DiskFits, StageInv, Place \in Start \cup {"repoint", "check", "add"}
  PROVE  jjName = (to = "worktree") /\ files["new"] = {}
<1>1. hand.state = "away"
  BY AwayAt DEF Start, Ends
<1>2. manifest # to /\ ~added /\ at.slot # "new"
  BY <1>1 DEF StageInv, Undoable, Early, Start, Middle
<1> QED BY <1>1, <1>2 DEF StageInv, DiskFits, Careful

LEMMA UndoIsSteps ==
  ASSUME TypeInv
  PROVE  ToSet(undo) \subseteq UndoSteps
<1>1. undo \in Seq(UndoSteps)
  BY DEF TypeInv, StepType
<1> QED BY <1>1, LenProperties, ElementOfSeq DEF ToSet

LEMMA UndoIsLast ==
  ASSUME TypeInv, NEW step, Undoing(step)
  PROVE  step \in ToSet(undo)
<1>1. undo \in Seq(UndoSteps) /\ undo # <<>> /\ Last(undo) = step
  BY DEF TypeInv, StepType, Undoing
<1> QED BY <1>1, SeqFront

LEMMA UndoneBefore ==
  ASSUME TypeInv, StackInv, NEW step, Undoing(step), Undone
  PROVE  \A x \in ToSet(undo') : Before(x, step)
<1>1. undo \in Seq(UndoSteps) /\ undo # <<>> /\ Last(undo) = step /\ undo' = Front(undo)
  BY DEF TypeInv, StepType, Undoing, Undone
<1> QED BY <1>1, FrontStacked DEF StackInv

LEMMA AppendedSteps ==
  ASSUME NEW S, NEW s \in Seq(S), NEW x \in S
  PROVE  ToSet(Append(s, x)) = ToSet(s) \cup {x}
<1> DEFINE one == <<x>>
<1>1. one \in Seq(S) /\ ToSet(one) = {x}
  BY SeqOfOne
<1>2. Append(s, x) = s \o one
  BY AppendIsConcat
<1> HIDE DEF one
<1>3. ToSet(s \o one) = ToSet(s) \cup ToSet(one)
  BY ONLY <1>1, s \in Seq(S), SeqJoins
<1> QED BY <1>1, <1>2, <1>3

LEMMA UndoFitsStep ==
  ASSUME TypeInv, StackInv, HomeInv, DiskFits, StageInv, UndoFits, SlotStep
  PROVE  UndoFits'
<1>1. CASE Refuse
  <2>1. Place = "prepare" /\ Place' = "refused"
    BY <1>1, Moves
  <2> QED BY <2>1 DEF UndoFits, Undoable, Early, Start, Middle
<1>2. CASE Prepare
  <2>1. Place = "prepare" /\ Place' = "begin" /\ hand.state = "away"
    BY <1>2, Moves, AwayAt DEF Ends
  <2>3. PICK T : T = ToSet(undo')
    OBVIOUS
  <2>4. UNCHANGED <<at, reg, jjName, to, files, written>> /\ (undo' = undo \/ undo' = <<RestoreMark>>)
    BY <1>2 DEF Prepare
  <2>5. T \subseteq {RestoreMark}
    BY <2>1, <2>3, <2>4, SeqOfOne DEF StackInv, Start
  <2>6. AtHome /\ jjName = (to = "worktree") /\ files["new"] = {}
    BY <2>1, NotYet DEF HomeInv, Undoable, Early, Start
  <2>7. FitsUndo(T)
    BY <2>5, <2>6, HomeFits
  <2> QED BY <2>3, <2>4, <2>7, SameFits, FitsNext
<1>3. CASE BeginMarker
  <2>1. Place = "begin" /\ Place' \in {"setting aside", "undo"} /\ hand.state = "away"
    BY <1>3, Moves, AwayAt DEF Ends, Early, Start, Middle
  <2>2. PICK S : S = ToSet(undo)
    OBVIOUS
  <2>3. PICK T : T = ToSet(undo')
    OBVIOUS
  <2>4. FitsUndo(S) /\ S \subseteq UndoSteps
    BY <2>1, <2>2, UndoIsSteps DEF UndoFits, Undoable, Early, Start, Middle
  <2>5. UNCHANGED <<at, reg, jjName, to, files, written, undo>>
    BY <1>3 DEF BeginMarker, disk, memory
  <2> QED BY <2>2, <2>4, <2>5, SameFits, FitsNext
<1>4. CASE SetAside
  <2>1. Place = "setting aside" /\ Place' = "push aside"
    BY <1>4, Moves
  <2> QED BY <2>1 DEF UndoFits, Undoable, Early, Start, Middle
<1>5. CASE PushAside
  <2>1. Place = "push aside" /\ hand.state = "away"
    BY <1>5, Moves, AwayAt DEF Ends
  <2>3. PICK T : T = ToSet(undo')
    OBVIOUS
  <2>4. UNCHANGED <<at, reg, jjName, to, files, written>> /\ Push(<<MoveBack>>, "repoint")
    BY <1>5 DEF PushAside, disk
  <2>5. <<MoveBack>> \in Seq(UndoSteps) /\ ToSet(<<MoveBack>>) = {MoveBack}
    BY SeqOfOne, StepsAre
  <2>6. T = ToSet(undo) \cup {MoveBack} /\ T \subseteq UndoSteps
    BY <2>3, <2>4, <2>5, PushedSteps, UndoIsSteps, StepsAre
  <2>7. SetApart /\ at.slot # "new" /\ jjName = (to = "worktree") /\ files["new"] = {}
    BY <2>1, NotYet DEF HomeInv, StageInv, Undoable, Early, Start
  <2>8. FitsUndo(T)
    BY <2>6, <2>7, ApartFits
  <2> QED BY <2>3, <2>4, <2>8, SameFits, FitsNext
<1>6. CASE Repoint
  <2>1. Place = "repoint" /\ Place' \in {"check", "undo"} /\ hand.state = "away"
    BY <1>6, Moves, AwayAt DEF Ends, Early, Start, Middle
  <2>2. PICK S : S = ToSet(undo)
    OBVIOUS
  <2>3. PICK T : T = ToSet(undo')
    OBVIOUS
  <2>4. FitsUndo(S) /\ S \subseteq UndoSteps
    BY <2>1, <2>2, UndoIsSteps DEF UndoFits, Undoable, Early, Start, Middle
  <2>5. UNCHANGED <<at, jjName, to, files, written, undo>> /\ at.slot # "old"
    BY <1>6, <2>1 DEF Repoint, memory, HomeInv, SetApart, Undoable, Early, Start
  <2> QED BY <2>2, <2>4, <2>5, SameFits, FitsNext
<1>7. CASE Check
  <2>1. Place = "check" /\ Place' \in {"add", "undo"} /\ hand.state = "away"
    BY <1>7, Moves, AwayAt DEF Ends, Early, Start, Middle
  <2>2. PICK S : S = ToSet(undo)
    OBVIOUS
  <2>3. PICK T : T = ToSet(undo')
    OBVIOUS
  <2>4. FitsUndo(S) /\ S \subseteq UndoSteps
    BY <2>1, <2>2, UndoIsSteps DEF UndoFits, Undoable, Early, Start, Middle
  <2>5. at.slot # "old" /\ at.aside = "old" /\ MoveBack \in S
    BY <2>1, <2>2 DEF HomeInv, StackInv, SetApart, Undoable, Early, Start, Middle
  <2>6. UNCHANGED <<at, reg, jjName, to, files, written>> /\ Push(<<RemoveNew>>, "add")
    BY <1>7 DEF Check, disk
  <2>7. <<RemoveNew>> \in Seq(UndoSteps) /\ ToSet(<<RemoveNew>>) = {RemoveNew}
    BY SeqOfOne, StepsAre
  <2>8. S \subseteq T /\ T \subseteq UndoSteps
    BY <2>2, <2>3, <2>4, <2>6, <2>7, PushedSteps, StepsAre
  <2>9. FitsUndo(T)
    BY <2>4, <2>5, <2>8, MoreFits
  <2> QED BY <2>3, <2>6, <2>9, SameFits, FitsNext
<1>8. CASE AddBegins
  <2>1. Place = "add" /\ Place' = "adding" /\ hand.state = "away"
    BY <1>8, Moves, AwayAt DEF Ends, Early, Start, Middle
  <2>2. PICK S : S = ToSet(undo)
    OBVIOUS
  <2>3. PICK T : T = ToSet(undo')
    OBVIOUS
  <2>4. FitsUndo(S) /\ S \subseteq UndoSteps
    BY <2>1, <2>2, UndoIsSteps DEF UndoFits, Undoable, Early, Start, Middle
  <2>5. at.slot # "old" /\ at.aside = "old" /\ MoveBack \in S /\ RemoveNew \in S
    BY <2>1, <2>2 DEF HomeInv, StackInv, SetApart, Undoable, Early, Start, Middle
  <2>6. /\ UNCHANGED <<to, jjName, files, written, undo>>
        /\ at'.slot = "new" /\ at'.aside = at.aside
    BY <1>8 DEF AddBegins, TypeInv, DiskType, memory
  <2>7. UNCHANGED Quiet
    BY <2>6 DEF Quiet
  <2>8. FitsUndo(S)'
    BY <2>4, <2>5, <2>6, <2>7, StepsDiffer DEF FitsUndo
  <2> QED BY <2>2, <2>6, <2>8, FitsNext
<1>9. CASE AddEnds
  <2>1. Place = "adding" /\ Place' = "added" /\ hand.state = "away"
    BY <1>9, Moves, AwayAt DEF Ends, Early, Start, Middle
  <2>2. PICK S : S = ToSet(undo)
    OBVIOUS
  <2>3. PICK T : T = ToSet(undo')
    OBVIOUS
  <2>4. FitsUndo(S) /\ S \subseteq UndoSteps
    BY <2>1, <2>2, UndoIsSteps DEF UndoFits, Undoable, Early, Start, Middle
  <2>5. at.slot # "old" /\ at.aside = "old" /\ MoveBack \in S /\ RemoveNew \in S
    BY <2>1, <2>2 DEF HomeInv, StackInv, SetApart, Undoable, Early, Start, Middle
  <2>6. UNCHANGED <<to, at, files, written, undo>>
    BY <1>9 DEF AddEnds
  <2>7. UNCHANGED Quiet
    BY <2>6 DEF Quiet
  <2>8. FitsUndo(S)'
    BY <2>4, <2>5, <2>6, <2>7, StepsDiffer DEF FitsUndo
  <2> QED BY <2>2, <2>6, <2>8, FitsNext
<1>10. CASE AddFails
  <2>1. Place = "adding" /\ Place' = "undo" /\ hand.state = "away"
    BY <1>10, Moves, AwayAt DEF Ends, Early, Start, Middle
  <2>2. PICK S : S = ToSet(undo)
    OBVIOUS
  <2>3. PICK T : T = ToSet(undo')
    OBVIOUS
  <2>4. FitsUndo(S) /\ S \subseteq UndoSteps
    BY <2>1, <2>2, UndoIsSteps DEF UndoFits, Undoable, Early, Start, Middle
  <2>5. at.slot # "old" /\ at.aside = "old" /\ MoveBack \in S /\ RemoveNew \in S
    BY <2>1, <2>2 DEF HomeInv, StackInv, SetApart, Undoable, Early, Start, Middle
  <2>6. /\ UNCHANGED <<to, jjName, written, undo>> /\ at'.slot \in {at.slot, "none"} /\ at'.aside = at.aside
        /\ files'["new"] \subseteq files["new"]
    BY <1>10 DEF AddFails, memory, TypeInv, DiskType, Checkouts
  <2>7. UNCHANGED Quiet
    BY <2>6 DEF Quiet
  <2>8. FitsUndo(S)'
    BY <2>4, <2>5, <2>6, <2>7, StepsDiffer DEF FitsUndo
  <2> QED BY <2>2, <2>6, <2>8, FitsNext
<1>11. CASE PushCarry
  <2>1. Place = "added" /\ Place' \in {"recordSaving", "carry", "undo"} /\ hand.state = "away"
    BY <1>11, Moves, AwayAt DEF Ends, Early, Start, Middle
  <2>2. PICK S : S = ToSet(undo)
    OBVIOUS
  <2>3. PICK T : T = ToSet(undo')
    OBVIOUS
  <2>4. FitsUndo(S) /\ S \subseteq UndoSteps
    BY <2>1, <2>2, UndoIsSteps DEF UndoFits, Undoable, Early, Start, Middle
  <2>5. at.slot # "old" /\ at.aside = "old" /\ MoveBack \in S
    BY <2>1, <2>2 DEF HomeInv, StackInv, SetApart, Undoable, Early, Start, Middle
  <2>6. UNCHANGED <<at, reg, jjName, to, files, written>>
    BY <1>11 DEF PushCarry, disk
  <2>7. CASE listed = {}
    <3>1. UNCHANGED undo
      BY <1>11, <2>7 DEF PushCarry
    <3> QED BY <2>2, <2>4, <2>6, <3>1, SameFits, FitsNext
  <2>8. CASE listed # {}
    <3> DEFINE carries == SetToSeq({CarryBack(e) : e \in listed})
    <3>1. carries \in Seq(UndoSteps) /\ ToSet(carries) = {CarryBack(e) : e \in listed}
      BY CarriesAsSeq DEF TypeInv, MemoryType
    <3>2. Push(carries, "carry")
      BY <1>11, <2>8 DEF PushCarry
    <3> HIDE DEF carries
    <3>3. T = S \cup {CarryBack(e) : e \in listed}
      BY <2>2, <2>3, <3>1, <3>2, PushedSteps
    <3>4. T \subseteq UndoSteps
      BY <2>4, <3>3, StepsAre DEF TypeInv, MemoryType
    <3>5. FitsUndo(T)
      BY <2>4, <2>5, <3>3, <3>4, MoreFits
    <3> QED BY <2>3, <2>6, <3>5, SameFits, FitsNext
  <2> QED BY <2>7, <2>8
<1>12. CASE CarryLooks
  <2>1. Place = "carry" /\ Place' = "carry" /\ hand.state = "away"
    BY <1>12, Moves, AwayAt DEF Ends, Early, Start, Middle
  <2>2. PICK S : S = ToSet(undo)
    OBVIOUS
  <2>3. PICK T : T = ToSet(undo')
    OBVIOUS
  <2>4. FitsUndo(S) /\ S \subseteq UndoSteps
    BY <2>1, <2>2, UndoIsSteps DEF UndoFits, Undoable, Early, Start, Middle
  <2>5. UNCHANGED <<at, reg, jjName, to, files, written, undo>>
    BY <1>12 DEF CarryLooks, disk
  <2> QED BY <2>2, <2>4, <2>5, SameFits, FitsNext
<1>13. CASE CarryRenames
  <2>1. Place = "carry" /\ Place' \in {"recordSaving", "carry"} /\ hand.state = "away"
    BY <1>13, Moves, AwayAt DEF Ends, Early, Start, Middle
  <2>2. PICK S : S = ToSet(undo)
    OBVIOUS
  <2>3. PICK T : T = ToSet(undo')
    OBVIOUS
  <2>4. FitsUndo(S) /\ S \subseteq UndoSteps
    BY <2>1, <2>2, UndoIsSteps DEF UndoFits, Undoable, Early, Start, Middle
  <2>5. at.slot # "old" /\ at.aside = "old" /\ MoveBack \in S /\ RemoveNew \in S
    BY <2>1, <2>2 DEF HomeInv, StackInv, SetApart, Undoable, Early, Start, Middle
  <2>9. files'["new"] = {c \in files["new"] : c[1] # looked} \cup {c \in files["old"] : c[1] = looked}
    <3>1. Rename(looked, "old", "new")
      BY <1>13 DEF CarryRenames
    <3> QED BY <3>1, RenameMoves DEF TypeInv, Checkouts
  <2>10. \A e \in listed : CarryBack(e) \in S
    BY <2>1, <2>2 DEF StackInv
  <2>6. UNCHANGED <<to, at, jjName, written, undo>> /\ looked \in listed
    BY <1>13 DEF CarryRenames, TypeInv, MemoryType
  <2>7. UNCHANGED Quiet
    BY <2>6 DEF Quiet
  <2>8. FitsUndo(S)'
    BY <2>4, <2>5, <2>6, <2>7, <2>9, <2>10, StepsDiffer DEF FitsUndo
  <2> QED BY <2>2, <2>6, <2>8, FitsNext
<1>14. CASE RecordSaving
  <2>1. Place = "recordSaving" /\ Place' = "save" /\ hand.state = "away"
    BY <1>14, Moves, AwayAt DEF Ends, Early, Start, Middle
  <2>2. PICK S : S = ToSet(undo)
    OBVIOUS
  <2>3. PICK T : T = ToSet(undo')
    OBVIOUS
  <2>4. FitsUndo(S) /\ S \subseteq UndoSteps
    BY <2>1, <2>2, UndoIsSteps DEF UndoFits, Undoable, Early, Start, Middle
  <2>5. UNCHANGED <<at, reg, jjName, to, files, written, undo>>
    BY <1>14 DEF RecordSaving, disk, memory
  <2> QED BY <2>2, <2>4, <2>5, SameFits, FitsNext
<1>15. CASE SaveDetaches
  <2>1. Place = "save" /\ Place' = "saving" /\ hand.state = "away"
    BY <1>15, Moves, AwayAt DEF Ends, Early, Start, Middle
  <2>2. PICK S : S = ToSet(undo)
    OBVIOUS
  <2>3. PICK T : T = ToSet(undo')
    OBVIOUS
  <2>4. FitsUndo(S) /\ S \subseteq UndoSteps
    BY <2>1, <2>2, UndoIsSteps DEF UndoFits, Undoable, Early, Start, Middle
  <2>5. UNCHANGED <<at, reg, jjName, to, files, written, undo>>
    BY <1>15 DEF SaveDetaches, memory
  <2> QED BY <2>2, <2>4, <2>5, SameFits, FitsNext
<1>16. CASE SaveInstalls
  <2>1. Place = "saving" /\ Place' \in {"saved", "undo"} /\ hand.state = "away"
    BY <1>16, Moves, AwayAt DEF Ends, Early, Start, Middle
  <2>2. PICK S : S = ToSet(undo)
    OBVIOUS
  <2>3. PICK T : T = ToSet(undo')
    OBVIOUS
  <2>4. FitsUndo(S) /\ S \subseteq UndoSteps
    BY <2>1, <2>2, UndoIsSteps DEF UndoFits, Undoable, Early, Start, Middle
  <2>5. UNCHANGED <<at, reg, jjName, to, files, written, undo>>
    BY <1>16 DEF SaveInstalls, memory
  <2> QED BY <2>2, <2>4, <2>5, SameFits, FitsNext
<1>17. CASE Saved
  <2>1. Place = "saved" /\ Place' = "finish"
    BY <1>17, Moves
  <2> QED BY <2>1 DEF UndoFits, Undoable, Early, Start, Middle
<1>18. CASE CheckFails
  <2>1. Place \in (Early \ Start) \cup {"setting aside"} \cup Middle /\ Place' = "undo" /\ hand.state = "away"
    BY <1>18, Moves, AwayAt DEF Ends, Early, Start, Middle
  <2>2. PICK S : S = ToSet(undo)
    OBVIOUS
  <2>3. PICK T : T = ToSet(undo')
    OBVIOUS
  <2>4. FitsUndo(S) /\ S \subseteq UndoSteps
    BY <2>1, <2>2, UndoIsSteps DEF UndoFits, Undoable, Early, Start, Middle
  <2>5. UNCHANGED <<at, reg, jjName, to, files, written, undo>>
    BY <1>18 DEF CheckFails, disk
  <2> QED BY <2>2, <2>4, <2>5, SameFits, FitsNext
<1>19. CASE InstallRecord
  <2>1. Place' = Place /\ UNCHANGED <<at, reg, jjName, to, files, written, undo, hand>>
    BY <1>19, Moves DEF InstallRecord, disk, memory
  <2> QED BY <2>1 DEF UndoFits, FitsUndo, AtHome, Quiet
<1>20. CASE Finish
  <2>1. Place = "finish" /\ Place' \in {"end", "forget", "remove aside"}
    BY <1>20, Moves
  <2> QED BY <2>1 DEF UndoFits, Undoable, Early, Start, Middle
<1>21. CASE SetNewAside
  <2>1. Place = "forget" /\ Place' \in {"record forgetting", "remove aside"}
    BY <1>21, Moves
  <2> QED BY <2>1 DEF UndoFits, Undoable, Early, Start, Middle
<1>22. CASE RecordForgetting
  <2>1. Place = "record forgetting" /\ Place' = "forget name"
    BY <1>22, Moves
  <2> QED BY <2>1 DEF UndoFits, Undoable, Early, Start, Middle
<1>23. CASE ForgetName
  <2>1. Place = "forget name" /\ Place' = "restore new"
    BY <1>23, Moves
  <2> QED BY <2>1 DEF UndoFits, Undoable, Early, Start, Middle
<1>24. CASE RestoreNew
  <2>1. Place = "restore new" /\ Place' \in {"record restored", "remove aside"}
    BY <1>24, Moves
  <2> QED BY <2>1 DEF UndoFits, Undoable, Early, Start, Middle
<1>25. CASE RecordRestored
  <2>1. Place = "record restored" /\ Place' = "remove aside"
    BY <1>25, Moves
  <2> QED BY <2>1 DEF UndoFits, Undoable, Early, Start, Middle
<1>26. CASE RemoveOld
  <2>1. Place = "remove aside" /\ Place' \in {"deregister", "stranded?"}
    BY <1>26, Moves
  <2> QED BY <2>1 DEF UndoFits, Undoable, Early, Start, Middle
<1>27. CASE Deregister
  <2>1. Place = "deregister" /\ Place' = "stranded?"
    BY <1>27, Moves
  <2> QED BY <2>1 DEF UndoFits, Undoable, Early, Start, Middle
<1>28. CASE RecordStranded
  <2>1. Place = "stranded?" /\ Place' = "end"
    BY <1>28, Moves
  <2> QED BY <2>1 DEF UndoFits, Undoable, Early, Start, Middle
<1>29. CASE End
  <2>1. Place = "end" /\ Place' = "migrated"
    BY <1>29, Moves
  <2> QED BY <2>1 DEF UndoFits, Undoable, Early, Start, Middle
<1>30. CASE UndoMark
  <2>1. Place = "undo" /\ Place' = "undo" /\ hand.state = "away"
    BY <1>30, Moves, AwayAt DEF Ends, Early, Start, Middle
  <2>2. PICK S : S = ToSet(undo)
    OBVIOUS
  <2>3. PICK T : T = ToSet(undo')
    OBVIOUS
  <2>4. FitsUndo(S) /\ S \subseteq UndoSteps
    BY <2>1, <2>2, UndoIsSteps DEF UndoFits, Undoable, Early, Start, Middle
  <2>5. Undoing(RestoreMark)
    BY <1>30 DEF UndoMark
  <2>6. RestoreMark \in S /\ (Undone => \A x \in S : x = RestoreMark \/ x \in T) /\ (Undone => T \subseteq S)
    BY <2>2, <2>3, <2>5, OneUndone, UndoIsLast
  <2>7. Undone => \A x \in T : Before(x, RestoreMark)
    BY <2>3, <2>5, UndoneBefore
  <2>8. Undone /\ UNCHANGED <<at, reg, jjName, to, files, written>>
    BY <1>30 DEF UndoMark
  <2>9. T = {} /\ S = {RestoreMark}
    BY <2>6, <2>7, <2>8, Ranks, RankedSteps
  <2>10. FitsUndo(T)
    BY <2>4, <2>9, StepsDiffer, StepsAre DEF FitsUndo
  <2> QED BY <2>3, <2>8, <2>10, SameFits, FitsNext
<1>31. CASE UndoNothingMade
  <2>1. Place = "undo" /\ Place' = "undo" /\ hand.state = "away"
    BY <1>31, Moves, AwayAt DEF Ends, Early, Start, Middle
  <2>2. PICK S : S = ToSet(undo)
    OBVIOUS
  <2>3. PICK T : T = ToSet(undo')
    OBVIOUS
  <2>4. FitsUndo(S) /\ S \subseteq UndoSteps
    BY <2>1, <2>2, UndoIsSteps DEF UndoFits, Undoable, Early, Start, Middle
  <2>5. Undoing(RemoveNew)
    BY <1>31 DEF UndoNothingMade
  <2>6. RemoveNew \in S /\ (Undone => \A x \in S : x = RemoveNew \/ x \in T) /\ (Undone => T \subseteq S)
    BY <2>2, <2>3, <2>5, OneUndone, UndoIsLast
  <2>7. Undone /\ ~added /\ at.slot = "none" /\ UNCHANGED <<at, reg, jjName, to, files, written>>
    BY <1>31 DEF UndoNothingMade, disk
  <2>8. jjName = (to = "worktree")
    BY <2>1, <2>7 DEF StageInv, Undoable
  <2>9. FitsUndo(T)
    BY <2>4, <2>6, <2>7, <2>8, StepsDiffer DEF FitsUndo
  <2> QED BY <2>3, <2>7, <2>9, SameFits, FitsNext
<1>32. CASE UndoNew
  <2>1. Place = "undo" /\ Place' \in {"undo", "stop"} /\ hand.state = "away"
    BY <1>32, Moves, AwayAt DEF Ends, Early, Start, Middle
  <2>2. PICK S : S = ToSet(undo)
    OBVIOUS
  <2>3. PICK T : T = ToSet(undo')
    OBVIOUS
  <2>4. FitsUndo(S) /\ S \subseteq UndoSteps
    BY <2>1, <2>2, UndoIsSteps DEF UndoFits, Undoable, Early, Start, Middle
  <2>5. Undoing(RemoveNew)
    BY <1>32 DEF UndoNew
  <2>6. RemoveNew \in S /\ (Undone => \A x \in S : x = RemoveNew \/ x \in T) /\ (Undone => T \subseteq S)
    BY <2>2, <2>3, <2>5, OneUndone, UndoIsLast
  <2>7. /\ at.slot = "new" /\ at'.slot = "none" /\ at'.aside = at.aside /\ files'["new"] = {} /\ UNCHANGED <<to, written>>
        /\ \/ Undone /\ jjName' = (to = "worktree")
           \/ UNCHANGED <<undo, jjName>>
    BY <1>32 DEF UndoNew, TypeInv, DiskType, Checkouts
  <2>8. T = S \/ (Undone /\ jjName' = (to = "worktree"))
    BY <2>2, <2>3, <2>7
  <2>9. FitsUndo(T)'
    BY <2>4, <2>6, <2>7, <2>8, StepsDiffer DEF FitsUndo
  <2> QED BY <2>3, <2>9, FitsNext
<1>33. CASE UndoAside
  <2>1. Place = "undo" /\ Place' \in {"undo", "stop"} /\ hand.state = "away"
    BY <1>33, Moves, AwayAt DEF Ends, Early, Start, Middle
  <2>2. PICK S : S = ToSet(undo)
    OBVIOUS
  <2>3. PICK T : T = ToSet(undo')
    OBVIOUS
  <2>4. FitsUndo(S) /\ S \subseteq UndoSteps
    BY <2>1, <2>2, UndoIsSteps DEF UndoFits, Undoable, Early, Start, Middle
  <2>5. Undoing(MoveBack)
    BY <1>33 DEF UndoAside
  <2>6. MoveBack \in S /\ (Undone => \A x \in S : x = MoveBack \/ x \in T) /\ (Undone => T \subseteq S)
    BY <2>2, <2>3, <2>5, OneUndone, UndoIsLast
  <2>7. Undone => \A x \in T : Before(x, MoveBack)
    BY <2>3, <2>5, UndoneBefore
  <2>8. /\ at.slot = "none" /\ at'.slot = "old" /\ at'.aside = "none" /\ UNCHANGED <<to, written, files, jjName>>
        /\ (Undone /\ reg'.old = "slot") \/ UNCHANGED undo
    BY <1>33 DEF UndoAside, TypeInv, DiskType
  <2>9. CASE Undone /\ reg'.old = "slot"
    <3>1. T \subseteq {RestoreMark}
      <4>1. \A x \in T : x \in UndoSteps /\ Rank(x) = 1
        BY <2>4, <2>6, <2>7, <2>9, Ranks, RankedSteps
      <4> QED BY <4>1, RankedSteps
    <3>2. S \subseteq {RestoreMark, MoveBack}
      BY <2>6, <2>9, <3>1
    <3>3. RemoveNew \notin S /\ \A e : CarryBack(e) \notin S
      BY <3>2, StepsDiffer
    <3>4. FitsUndo(T)'
      BY <2>4, <2>8, <2>9, <3>1, <3>3, StepsDiffer, StepsAre DEF FitsUndo, AtHome, Quiet
    <3> QED BY <2>3, <3>4, FitsNext
  <2>10. CASE UNCHANGED undo
    <3>1. T = S
      BY <2>2, <2>3, <2>10
    <3>2. FitsUndo(T)'
      BY <2>4, <2>6, <2>8, <3>1, StepsDiffer DEF FitsUndo, Quiet
    <3> QED BY <2>3, <3>2, FitsNext
  <2> QED BY <2>8, <2>9, <2>10
<1>34. CASE UndoFails
  <2>1. Place = "undo" /\ Place' = "stop" /\ hand.state = "away"
    BY <1>34, Moves, AwayAt DEF Ends, Early, Start, Middle
  <2>2. PICK S : S = ToSet(undo)
    OBVIOUS
  <2>3. PICK T : T = ToSet(undo')
    OBVIOUS
  <2>4. FitsUndo(S) /\ S \subseteq UndoSteps
    BY <2>1, <2>2, UndoIsSteps DEF UndoFits, Undoable, Early, Start, Middle
  <2>5. undo # <<>> /\ undo \in Seq(UndoSteps) /\ UNCHANGED <<at, reg, jjName, to, files, written>>
    BY <1>34 DEF UndoFails, TypeInv, StepType, disk
  <2>6. CASE UNCHANGED undo
    BY <2>2, <2>4, <2>5, <2>6, SameFits, FitsNext
  <2>7. CASE ~UNCHANGED undo
    <3>1. Last(undo) = RemoveNew /\ undo' = Append(Front(undo), LookAt) /\ ~added
      BY <1>34, <2>7 DEF UndoFails
    <3>2. /\ Front(undo) \in Seq(UndoSteps) /\ LookAt \in UndoSteps
          /\ \A x \in S : x = RemoveNew \/ x \in ToSet(Front(undo))
          /\ ToSet(Front(undo)) \subseteq S
      BY <2>2, <2>5, <3>1, SeqFront, StepsAre
    <3>3. T = ToSet(Front(undo)) \cup {LookAt}
      BY <2>3, <3>1, <3>2, AppendedSteps
    <3>4. T \subseteq UndoSteps /\ (\A x \in S : x = RemoveNew \/ x \in T) /\ LookAt \in T
      BY <2>4, <3>2, <3>3
    <3>5. jjName = (to = "worktree")
      BY <2>1, <3>1 DEF StageInv, Undoable
    <3>6. MoveBack \in S
      <4>1. RemoveNew \in S
        BY <2>2, <2>5, <3>1, SeqFront
      <4> QED BY <2>2, <4>1 DEF StackInv, Paired
    <3>7. FitsUndo(T)
      BY <2>4, <3>4, <3>5, <3>6, StepsDiffer DEF FitsUndo
    <3> QED BY <2>3, <2>5, <3>7, SameFits, FitsNext
  <2> QED BY <2>6, <2>7
<1>35. CASE Stop
  <2>1. Place = "stop" /\ Place' = "stopped"
    BY <1>35, Moves
  <2> QED BY <2>1 DEF UndoFits, Undoable, Early, Start, Middle
<1>36. CASE RolledBack
  <2>1. Place = "undo" /\ Place' = "rolled back" /\ hand.state = "away"
    BY <1>36, Moves, AwayAt DEF Ends, Early, Start, Middle
  <2>2. PICK S : S = ToSet(undo)
    OBVIOUS
  <2>3. PICK T : T = ToSet(undo')
    OBVIOUS
  <2>4. FitsUndo(S) /\ S \subseteq UndoSteps
    BY <2>1, <2>2, UndoIsSteps DEF UndoFits, Undoable, Early, Start, Middle
  <2>5. UNCHANGED <<at, reg, jjName, to, files, written, undo>>
    BY <1>36 DEF RolledBack, disk, memory
  <2> QED BY <2>2, <2>4, <2>5, SameFits, FitsNext
<1>37. ASSUME NEW e \in Entries, UndoCarryNothing(e) PROVE UndoFits'
  <2>1. Place = "undo" /\ Place' = "undo" /\ hand.state = "away"
    BY <1>37, Moves, AwayAt DEF Ends, Early, Start, Middle
  <2>2. PICK S : S = ToSet(undo)
    OBVIOUS
  <2>3. PICK T : T = ToSet(undo')
    OBVIOUS
  <2>4. FitsUndo(S) /\ S \subseteq UndoSteps
    BY <2>1, <2>2, UndoIsSteps DEF UndoFits, Undoable, Early, Start, Middle
  <2>5. Undoing(CarryBack(e))
    BY <1>37 DEF UndoCarryNothing
  <2>6. CarryBack(e) \in S /\ (Undone => \A x \in S : x = CarryBack(e) \/ x \in T) /\ (Undone => T \subseteq S)
    BY <2>2, <2>3, <2>5, OneUndone, UndoIsLast
  <2>7. Undone /\ UNCHANGED <<at, reg, jjName, to, written>>
    BY <1>37 DEF UndoCarryNothing, disk
  <2>8. RemoveNew \in S => RemoveNew \in T
    BY <2>6, <2>7, StepsDiffer
  <2>9. LookAt \in S => LookAt \in T
    BY <2>6, <2>7, StepsDiffer
  <2>10. MoveBack \in S /\ MoveBack \in T
    <3>1. MoveBack \in S
      BY <2>2, <2>6, Ranks DEF StackInv, Paired
    <3> QED BY <2>6, <2>7, <3>1, StepsDiffer
  <2>11. T \subseteq UndoSteps
    BY <2>4, <2>6, <2>7
  <2>12. UNCHANGED files /\ e \notin moved
    BY <1>37 DEF UndoCarryNothing, disk
  <2>13. Quiet' => \A c \in files'["new"] : CarryBack(c[1]) \in T
    <3>1. Quiet' => Quiet /\ \A c \in files["new"] : c[1] # e /\ CarryBack(c[1]) \in S
      BY <2>1, <2>4, <2>7, <2>12 DEF StageInv, Undoable, FitsUndo, Quiet
    <3> QED BY <2>6, <2>7, <2>12, <3>1, StepsDiffer
  <2>14. FitsUndo(T)'
    BY <2>4, <2>7, <2>8, <2>9, <2>10, <2>11, <2>13, StepsDiffer DEF FitsUndo
  <2> QED BY <2>3, <2>14, FitsNext
<1>38. ASSUME NEW e \in Entries, UndoCarryLooks(e) PROVE UndoFits'
  <2>1. Place = "undo" /\ Place' = "undo" /\ hand.state = "away"
    BY <1>38, Moves, AwayAt DEF Ends, Early, Start, Middle
  <2>2. PICK S : S = ToSet(undo)
    OBVIOUS
  <2>3. PICK T : T = ToSet(undo')
    OBVIOUS
  <2>4. FitsUndo(S) /\ S \subseteq UndoSteps
    BY <2>1, <2>2, UndoIsSteps DEF UndoFits, Undoable, Early, Start, Middle
  <2>5. UNCHANGED <<at, reg, jjName, to, files, written, undo>>
    BY <1>38 DEF UndoCarryLooks, disk
  <2> QED BY <2>2, <2>4, <2>5, SameFits, FitsNext
<1>39. ASSUME NEW e \in Entries, UndoCarryRenames(e) PROVE UndoFits'
  <2>1. Place = "undo" /\ Place' = "undo" /\ hand.state = "away"
    BY <1>39, Moves, AwayAt DEF Ends, Early, Start, Middle
  <2>2. PICK S : S = ToSet(undo)
    OBVIOUS
  <2>3. PICK T : T = ToSet(undo')
    OBVIOUS
  <2>4. FitsUndo(S) /\ S \subseteq UndoSteps
    BY <2>1, <2>2, UndoIsSteps DEF UndoFits, Undoable, Early, Start, Middle
  <2>5. Undoing(CarryBack(e))
    BY <1>39 DEF UndoCarryRenames
  <2>6. CarryBack(e) \in S /\ (Undone => \A x \in S : x = CarryBack(e) \/ x \in T) /\ (Undone => T \subseteq S)
    BY <2>2, <2>3, <2>5, OneUndone, UndoIsLast
  <2>7. Undone /\ UNCHANGED <<at, reg, jjName, to, written>>
    BY <1>39 DEF UndoCarryRenames
  <2>8. RemoveNew \in S => RemoveNew \in T
    BY <2>6, <2>7, StepsDiffer
  <2>9. LookAt \in S => LookAt \in T
    BY <2>6, <2>7, StepsDiffer
  <2>10. MoveBack \in S /\ MoveBack \in T
    <3>1. MoveBack \in S
      BY <2>2, <2>6, Ranks DEF StackInv, Paired
    <3> QED BY <2>6, <2>7, <3>1, StepsDiffer
  <2>11. T \subseteq UndoSteps
    BY <2>4, <2>6, <2>7
  <2>12. files'["new"] = {c \in files["new"] : c[1] # e}
    <3>1. Rename(e, "new", "old")
      BY <1>39 DEF UndoCarryRenames
    <3> QED BY <3>1, RenameMoves DEF TypeInv, Checkouts
  <2>13. Quiet' => \A c \in files'["new"] : CarryBack(c[1]) \in T
    <3>1. Quiet' => \A c \in files'["new"] : c[1] # e /\ CarryBack(c[1]) \in S
      BY <2>4, <2>7, <2>12 DEF FitsUndo, Quiet
    <3> QED BY <2>6, <2>7, <3>1, StepsDiffer
  <2>14. FitsUndo(T)'
    BY <2>4, <2>7, <2>8, <2>9, <2>10, <2>11, <2>13, StepsDiffer DEF FitsUndo
  <2> QED BY <2>3, <2>14, FitsNext
<1>40. ASSUME NEW e \in Entries, UndoCarryKeeps(e) PROVE UndoFits'
  <2>1. Place = "undo" /\ Place' = "undo" /\ hand.state = "away"
    BY <1>40, Moves, AwayAt DEF Ends, Early, Start, Middle
  <2>2. PICK S : S = ToSet(undo)
    OBVIOUS
  <2>3. PICK T : T = ToSet(undo')
    OBVIOUS
  <2>4. FitsUndo(S) /\ S \subseteq UndoSteps
    BY <2>1, <2>2, UndoIsSteps DEF UndoFits, Undoable, Early, Start, Middle
  <2>5. Undoing(CarryBack(e))
    BY <1>40 DEF UndoCarryKeeps
  <2>6. CarryBack(e) \in S /\ (Undone => \A x \in S : x = CarryBack(e) \/ x \in T) /\ (Undone => T \subseteq S)
    BY <2>2, <2>3, <2>5, OneUndone, UndoIsLast
  <2>7. Undone /\ UNCHANGED <<at, reg, jjName, to, written>>
    BY <1>40 DEF UndoCarryKeeps
  <2>8. RemoveNew \in S => RemoveNew \in T
    BY <2>6, <2>7, StepsDiffer
  <2>9. LookAt \in S => LookAt \in T
    BY <2>6, <2>7, StepsDiffer
  <2>10. MoveBack \in S /\ MoveBack \in T
    <3>1. MoveBack \in S
      BY <2>2, <2>6, Ranks DEF StackInv, Paired
    <3> QED BY <2>6, <2>7, <3>1, StepsDiffer
  <2>11. T \subseteq UndoSteps
    BY <2>4, <2>6, <2>7
  <2>12. files'["new"] = {c \in files["new"] : c[1] # e}
    <3>1. Rename(e, "new", "kept")
      BY <1>40 DEF UndoCarryKeeps
    <3> QED BY <3>1, RenameMoves DEF TypeInv, Checkouts
  <2>13. Quiet' => \A c \in files'["new"] : CarryBack(c[1]) \in T
    <3>1. Quiet' => \A c \in files'["new"] : c[1] # e /\ CarryBack(c[1]) \in S
      BY <2>4, <2>7, <2>12 DEF FitsUndo, Quiet
    <3> QED BY <2>6, <2>7, <3>1, StepsDiffer
  <2>14. FitsUndo(T)'
    BY <2>4, <2>7, <2>8, <2>9, <2>10, <2>11, <2>13, StepsDiffer DEF FitsUndo
  <2> QED BY <2>3, <2>14, FitsNext
<1>41. CASE Kill
  <2>1. Place' = "killed"
    BY <1>41, Moves
  <2> QED BY <2>1 DEF UndoFits, Undoable, Early, Start, Middle
<1>42. ASSUME NEW place \in {"slot", "aside"}, NEW item \in Items, Write(place, item) PROVE UndoFits'
  <2>1. Place' = Place
    BY <1>42, Moves
  <2>2. /\ at'.aside = at.aside /\ (at'.slot = at.slot \/ (at.slot = "none" /\ at'.slot = "stray"))
        /\ UNCHANGED <<to, jjName, reg, undo, hand>>
    BY <1>42, WriteDoes DEF TypeInv, memory
  <2>3. ~Quiet'
    <3>1. PICK n \in 1..MaxWrites : written' = written \cup {<<item, n>>}
      BY <1>42, WriteDoes DEF TypeInv
    <3>2. <<item, n>>[2] # 0
      BY EntriesAssumption
    <3> QED BY <3>1, <3>2 DEF Quiet
  <2> QED BY <2>1, <2>2, <2>3 DEF UndoFits, FitsUndo, AtHome
<1>43. CASE ByPerson
  <2>1. hand'.state # "away"
    BY <1>43, PersonStays
  <2> QED BY <2>1 DEF UndoFits
<1> QED BY <1>1, <1>2, <1>3, <1>4, <1>5, <1>6, <1>7, <1>8, <1>9, <1>10, <1>11, <1>12, <1>13, <1>14, <1>15,
        <1>16, <1>17, <1>18, <1>19, <1>20, <1>21, <1>22, <1>23, <1>24, <1>25, <1>26, <1>27, <1>28, <1>29,
        <1>30, <1>31, <1>32, <1>33, <1>34, <1>35, <1>36, <1>37, <1>38, <1>39, <1>40, <1>41, <1>42,
        <1>43 DEF SlotStep, Migrates, CleansUp, RollsBack, Writes

-----------------------------------------------------------------------------
(* The record fits the disk.                                                 *)

LEMMA ListsAsSets ==
  /\ \A x, y : ToSet(<<x, y>>) = {x, y}
  /\ \A x, y, z : ToSet(<<x, y, z>>) = {x, y, z}
<1>1. ASSUME NEW x, NEW y PROVE ToSet(<<x, y>>) = {x, y}
  <2>1. DOMAIN <<x, y>> = 1..2 /\ <<x, y>>[1] = x /\ <<x, y>>[2] = y
    OBVIOUS
  <2> DEFINE s == <<x, y>>
  <2> HIDE DEF s
  <2>2. DOMAIN s = 1..2 /\ s[1] = x /\ s[2] = y
    BY <2>1 DEF s
  <2>3. ToSet(s) = {x, y}
    BY ONLY <2>2 DEF ToSet
  <2> QED BY <2>3 DEF s
<1>2. ASSUME NEW x, NEW y, NEW z PROVE ToSet(<<x, y, z>>) = {x, y, z}
  <2>1. DOMAIN <<x, y, z>> = 1..3 /\ <<x, y, z>>[1] = x /\ <<x, y, z>>[2] = y /\ <<x, y, z>>[3] = z
    OBVIOUS
  <2> DEFINE s == <<x, y, z>>
  <2> HIDE DEF s
  <2>2. DOMAIN s = 1..3 /\ s[1] = x /\ s[2] = y /\ s[3] = z
    BY <2>1 DEF s
  <2>3. ToSet(s) = {x, y, z}
    BY ONLY <2>2 DEF ToSet
  <2> QED BY <2>3 DEF s
<1> QED BY <1>1, <1>2

LEMMA CleanupSets ==
  /\ ToSet(cleanupSteps) = (IF to = "worktree" THEN {Forget, RemoveAside} ELSE {RemoveAside})
  /\ ToSet(<<MoveNewBack, ForgetIfListed, RemoveAside>>) = {MoveNewBack, ForgetIfListed, RemoveAside}
  /\ ToSet(forgetLeft(Forget) \o <<RemoveAside>>) = (IF forgotten THEN {RemoveAside} ELSE {Forget, RemoveAside})
  /\ ToSet(<<MoveNewBack>> \o forgetLeft(Forget) \o (IF at.aside = "old" THEN <<RemoveAside>> ELSE <<>>)) =
       {MoveNewBack} \cup (IF forgotten THEN {} ELSE {Forget}) \cup (IF at.aside = "old" THEN {RemoveAside} ELSE {})
<1>1. \A x \in CleanSteps : <<x>> \in Seq(CleanSteps) /\ ToSet(<<x>>) = {x}
  BY SeqOfOne
<1>2. ToSet(cleanupSteps) = (IF to = "worktree" THEN {Forget, RemoveAside} ELSE {RemoveAside})
  <2>1. CASE to = "worktree"
    BY <2>1, ListsAsSets DEF cleanupSteps
  <2>2. CASE to # "worktree"
    BY <2>2, <1>1, StepsAre DEF cleanupSteps
  <2> QED BY <2>1, <2>2
<1> DEFINE left == forgetLeft(Forget)
           last == IF at.aside = "old" THEN <<RemoveAside>> ELSE <<>>
           one == <<MoveNewBack>>
           gone == <<RemoveAside>>
<1>3. left \in Seq(CleanSteps) /\ ToSet(left) = (IF forgotten THEN {} ELSE {Forget})
  BY <1>1, StepsAre, SeqOfNone DEF forgetLeft
<1>4. last \in Seq(CleanSteps) /\ ToSet(last) = (IF at.aside = "old" THEN {RemoveAside} ELSE {})
  BY <1>1, StepsAre, SeqOfNone
<1>5. one \in Seq(CleanSteps) /\ ToSet(one) = {MoveNewBack} /\ gone \in Seq(CleanSteps) /\ ToSet(gone) = {RemoveAside}
  BY <1>1, StepsAre
<1> HIDE DEF left, last, one, gone
<1>6. ToSet(left \o gone) = ToSet(left) \cup ToSet(gone)
  BY ONLY <1>3, <1>5, SeqJoins
<1>7. one \o left \in Seq(CleanSteps) /\ ToSet(one \o left) = ToSet(one) \cup ToSet(left)
  BY ONLY <1>3, <1>5, SeqJoins
<1> DEFINE both == one \o left
<1>11. both \in Seq(CleanSteps)
  BY <1>7
<1> HIDE DEF both
<1>12. ToSet(both \o last) = ToSet(both) \cup ToSet(last)
  BY ONLY <1>4, <1>11, SeqJoins
<1>8. ToSet((one \o left) \o last) = ToSet(one \o left) \cup ToSet(last)
  BY <1>12 DEF both
<1>9. ToSet(left \o gone) = (IF forgotten THEN {RemoveAside} ELSE {Forget, RemoveAside})
  BY <1>3, <1>5, <1>6
<1>10. ToSet((one \o left) \o last) =
         {MoveNewBack} \cup (IF forgotten THEN {} ELSE {Forget}) \cup (IF at.aside = "old" THEN {RemoveAside} ELSE {})
  BY <1>3, <1>4, <1>5, <1>7, <1>8
<1> QED BY <1>2, <1>9, <1>10, ListsAsSets DEF left, last, one, gone

LEMMA RecordNext ==
  ASSUME NEW r, r = Rec', r # NoRecord => FitsRecord(r)', RecordAt'
  PROVE  RecordInv'
  BY DEF RecordInv, FitsRecord, StepsOf, FitsUndo, FitsCleanup

LEMMA SameRecord ==
  ASSUME NEW r, FitsRecord(r), UNCHANGED <<at, reg, jjName, to, files, written, manifest>>
  PROVE  FitsRecord(r)'
  BY DEF FitsRecord, StepsOf, FitsUndo, FitsCleanup, AtHome, Quiet

LEMMA LateRecord ==
  ASSUME NEW r, FitsRecord(r), manifest = to, UNCHANGED <<to, manifest>>,
         at'.aside = "old" => at.aside = "old", jjName' => jjName
  PROVE  FitsRecord(r)'
  BY DEF FitsRecord, StepsOf, FitsCleanup

(* A record of what is left to undo, and one of what is left to clean up.    *)
LEMMA UndoRecord ==
  ASSUME NEW r, NEW T, T = ToSet(undo'), ToSet(r.steps) = T, T \subseteq UndoSteps, UndoFits', hand'.state = "away",
         Place' \in (Undoable \cup {"stop"}) \ {"push aside"}, manifest' # to'
  PROVE  FitsRecord(r)'
<1>1. FitsUndo(T)'
  BY DEF UndoFits, FitsUndo
<1> QED BY <1>1, StepsDiffer DEF FitsRecord, FitsUndo

LEMMA CleanupRecord ==
  ASSUME NEW r, NEW C, C = ToSet(r.steps), r.phase # "saving", manifest = to, FitsCleanup(C)
  PROVE  FitsRecord(r)
  BY DEF FitsRecord, StepsOf, FitsCleanup

LEMMA RecordStep ==
  ASSUME TypeInv, TypeInv', StackInv, HomeInv, DiskFits, StageInv, StageInv', UndoFits, UndoFits', RecordInv, SlotStep
  PROVE  RecordInv'
<1>1. CASE Refuse
  <2>1. Place = "prepare" /\ Place' = "refused" /\ hand.state = "away" /\ UNCHANGED hand
    BY <1>1, Moves, AwayAt DEF Ends, Early, Start, Middle, Refuse
  <2>2. PICK r : r = Rec
    OBVIOUS
  <2>3. r = Rec' /\ pc' # "recording" /\ pc # "recording"
    BY <1>1, <2>2 DEF Refuse, Rec
  <2>4. r # NoRecord => FitsRecord(r)
    BY <2>1, <2>2 DEF RecordInv
  <2>5. UNCHANGED <<at, reg, jjName, to, files, written, manifest>>
    BY <1>1 DEF Refuse, disk, memory
  <2>7. r # NoRecord => FitsRecord(r)'
    BY <2>4, <2>5, SameRecord
  <2>6. UNCHANGED <<undo, to>>
    BY <1>1 DEF Refuse, disk, memory
  <2>8. RecordAt'
    BY <2>1, <2>2, <2>3, <2>6 DEF RecordInv, RecordAt, Early, Start, Middle, cleanupSteps
  <2> QED BY <2>3, <2>7, <2>8, RecordNext
<1>2. CASE Prepare
  <2>1. Place = "prepare" /\ Place' = "begin" /\ hand.state = "away" /\ UNCHANGED hand
    BY <1>2, Moves, AwayAt DEF Ends, Early, Start, Middle, Prepare
  <2>2. PICK r : r = Rec
    OBVIOUS
  <2>3. r = Rec' /\ pc' # "recording" /\ pc # "recording"
    BY <1>2, <2>2 DEF Prepare, Rec
  <2>4. r # NoRecord => FitsRecord(r)
    BY <2>1, <2>2 DEF RecordInv
  <2>5. UNCHANGED <<at, reg, jjName, to, files, written, manifest>>
    BY <1>2 DEF Prepare
  <2>7. r # NoRecord => FitsRecord(r)'
    BY <2>4, <2>5, SameRecord
  <2>6. UNCHANGED to
    BY <1>2 DEF Prepare
  <2>8. RecordAt'
    BY <2>1, <2>2, <2>3, <2>6 DEF RecordInv, RecordAt, Early, Start, Middle, cleanupSteps
  <2> QED BY <2>3, <2>7, <2>8, RecordNext
<1>3. CASE BeginMarker
  <2>1. Place = "begin" /\ Place' \in {"setting aside", "undo"} /\ hand.state = "away" /\ UNCHANGED hand
    BY <1>3, Moves, AwayAt DEF Ends, Early, Start, Middle, BeginMarker
  <2>2. PICK r : r = Rec'
    OBVIOUS
  <2>3. UNCHANGED <<at, reg, jjName, to, files, written, manifest>> /\ pc # "recording"
    BY <1>3 DEF BeginMarker, disk
  <2>4. CASE Record("setting-aside", <<LookBeside>>, <<>>, "setting aside")
    <3>1. pc' = "recording" /\ marker' = NoRecord /\ Place' = "setting aside" /\ r.steps = <<LookBeside>>
      BY <2>2, <2>4, Records DEF Rec, Place
    <3>2. ToSet(r.steps) = {LookBeside}
      BY <3>1, SeqOfOne
    <3>3. AtHome /\ jjName = (to = "worktree") /\ files["new"] = {} /\ manifest # to
      BY <2>1, NotYet DEF HomeInv, StageInv, Undoable, Early, Start
    <3>4. FitsUndo({LookBeside})
      BY <3>3, HomeFits
    <3>5. FitsRecord(r)
      BY <3>2, <3>3, <3>4 DEF FitsRecord, AtHome
    <3>6. FitsRecord(r)'
      BY <2>3, <3>5, SameRecord
    <3>7. RecordAt'
      BY <2>2, <3>1 DEF RecordAt, Middle
    <3> QED BY <2>2, <3>6, <3>7, RecordNext
  <2>5. CASE pc' = "undo" /\ UNCHANGED <<marker, pending>>
    <3>0. Place' = "undo"
      BY <2>5, PlaceAfter
    <3>1. r = Rec /\ pc' # "recording"
      BY <2>2, <2>3, <2>5, <3>0 DEF Rec
    <3>2. r # NoRecord => FitsRecord(r)'
      BY <2>1, <2>3, <3>1, SameRecord DEF RecordInv
    <3>3. RecordAt'
      BY <2>1, <3>1, <2>5, <3>0 DEF RecordAt, RecordInv, Middle
    <3> QED BY <2>2, <3>2, <3>3, RecordNext
  <2> QED BY <1>3, <2>4, <2>5 DEF BeginMarker
<1>4. CASE SetAside
  <2>1. Place = "setting aside" /\ Place' = "push aside" /\ hand.state = "away" /\ UNCHANGED hand
    BY <1>4, Moves, AwayAt DEF Ends, Early, Start, Middle, SetAside
  <2>2. PICK r : r = Rec
    OBVIOUS
  <2>3. r = Rec' /\ pc' # "recording" /\ pc # "recording"
    BY <1>4, <2>2 DEF SetAside, Rec
  <2>4. r # NoRecord => FitsRecord(r)
    BY <2>1, <2>2 DEF RecordInv
  <2>5. /\ UNCHANGED <<reg, jjName, to, files, written, manifest>>
        /\ at'.slot = "none" /\ at'.aside = "old" /\ at'.stash = at.stash /\ at.slot = "old"
    BY <1>4 DEF SetAside, TypeInv, DiskType
  <2>6. jjName = (to = "worktree") /\ files["new"] = {} /\ manifest # to /\ r.steps = <<LookBeside>>
    BY <2>1, <2>2, NotYet DEF StageInv, RecordInv, RecordAt, Undoable, Early, Start
  <2>9. ToSet(r.steps) = {LookBeside}
    BY <2>6, SeqOfOne
  <2>10. FitsUndo({LookBeside})'
    BY <2>5, <2>6, StepsDiffer DEF FitsUndo
  <2>11. reg.old = "slot"
    BY <2>1 DEF HomeInv, AtHome, Undoable, Early, Start
  <2>7. FitsRecord(r)'
    BY <2>5, <2>6, <2>9, <2>10, <2>11 DEF FitsRecord, FitsUndo
  <2>8. RecordAt'
    BY <2>1, <2>3, <2>6 DEF RecordInv, RecordAt, Early, Start, Middle, cleanupSteps
  <2> QED BY <2>3, <2>7, <2>8, RecordNext
<1>5. CASE PushAside
  <2>1. Place = "push aside" /\ Place' \in {"repoint", "undo"} /\ hand.state = "away" /\ UNCHANGED hand
    BY <1>5, Moves, AwayAt DEF Ends, Early, Start, Middle, PushAside
  <2>2. PICK r : r = Rec'
    OBVIOUS
  <2>3. UNCHANGED <<at, reg, jjName, to, files, written, manifest>> /\ pc # "recording"
    BY <1>5 DEF PushAside, disk
  <2>4. manifest' # to'
    BY <2>1, <2>3 DEF StageInv, Undoable, Early, Start, Middle
  <2>9. undo' \in Seq(UndoSteps)
    BY DEF TypeInv, StepType
  <2>5. CASE pc' = "recording" /\ marker' = NoRecord /\ pending'.record.steps = Reverse(undo')
             /\ ToSet(pending'.record.steps) = ToSet(undo') /\ pending'.next = "repoint"
    <3>1. r = pending'.record /\ Place' = "repoint"
      BY <2>2, <2>5 DEF Rec, Place
    <3>2. ToSet(undo') \subseteq UndoSteps
      BY <2>9, LenProperties, ElementOfSeq DEF ToSet
    <3>3. FitsRecord(r)'
      BY <2>1, <2>4, <2>5, <3>1, <3>2, UndoRecord DEF Undoable, Early, Start, Middle
    <3>4. RecordAt'
      BY <2>2, <2>5, <3>1 DEF RecordAt, Middle
    <3> QED BY <2>2, <3>3, <3>4, RecordNext
  <2>6. CASE pc' = "undo" /\ UNCHANGED <<marker, pending>>
    <3>1. r = Rec /\ Place' = "undo" /\ pc' # "recording"
      BY <2>2, <2>3, <2>6 DEF Rec, Place
    <3>2. r # NoRecord => FitsRecord(r)'
      BY <2>1, <2>3, <3>1, SameRecord DEF RecordInv
    <3>3. RecordAt'
      BY <3>1 DEF RecordAt, Middle
    <3> QED BY <2>2, <3>2, <3>3, RecordNext
  <2> DEFINE one == <<MoveBack>>
  <2>10. one \in Seq(UndoSteps)
    BY SeqOfOne, StepsAre
  <2>11. Push(one, "repoint")
    BY <1>5 DEF PushAside
  <2> HIDE DEF one
  <2> QED BY <2>5, <2>6, <2>10, <2>11, PushedSteps
<1>6. CASE Repoint
  <2>1. Place = "repoint" /\ Place' \in {"check", "undo"} /\ hand.state = "away" /\ UNCHANGED hand
    BY <1>6, Moves, AwayAt DEF Ends, Early, Start, Middle, Repoint
  <2>2. PICK r : r = Rec
    OBVIOUS
  <2>3. r = Rec' /\ pc' # "recording" /\ pc # "recording"
    BY <1>6, <2>2 DEF Repoint, Rec
  <2>4. r # NoRecord => FitsRecord(r)
    BY <2>1, <2>2 DEF RecordInv
  <2>5. UNCHANGED <<undo, to>> /\ ToSet(r.steps) = ToSet(undo)
    BY <1>6, <2>1, <2>2 DEF Repoint, memory, RecordInv, RecordAt, Middle
  <2>6. manifest' # to'
    BY <2>1 DEF StageInv, Undoable, Early, Start, Middle
  <2>7. r # NoRecord => FitsRecord(r)'
    BY <2>1, <2>5, <2>6, UndoRecord, UndoIsSteps DEF Undoable, Early, Start, Middle
  <2>8. RecordAt'
    BY <2>1, <2>2, <2>3, <2>5 DEF RecordInv, RecordAt, Early, Start, Middle, cleanupSteps
  <2> QED BY <2>3, <2>7, <2>8, RecordNext
<1>7. CASE Check
  <2>1. Place = "check" /\ Place' \in {"add", "undo"} /\ hand.state = "away" /\ UNCHANGED hand
    BY <1>7, Moves, AwayAt DEF Ends, Early, Start, Middle, Check
  <2>2. PICK r : r = Rec'
    OBVIOUS
  <2>3. UNCHANGED <<at, reg, jjName, to, files, written, manifest>> /\ pc # "recording"
    BY <1>7 DEF Check, disk
  <2>4. manifest' # to'
    BY <2>1, <2>3 DEF StageInv, Undoable, Early, Start, Middle
  <2>9. undo' \in Seq(UndoSteps)
    BY DEF TypeInv, StepType
  <2>5. CASE pc' = "recording" /\ marker' = NoRecord /\ pending'.record.steps = Reverse(undo')
             /\ ToSet(pending'.record.steps) = ToSet(undo') /\ pending'.next = "add"
    <3>1. r = pending'.record /\ Place' = "add"
      BY <2>2, <2>5 DEF Rec, Place
    <3>2. ToSet(undo') \subseteq UndoSteps
      BY <2>9, LenProperties, ElementOfSeq DEF ToSet
    <3>3. FitsRecord(r)'
      BY <2>1, <2>4, <2>5, <3>1, <3>2, UndoRecord DEF Undoable, Early, Start, Middle
    <3>4. RecordAt'
      BY <2>2, <2>5, <3>1 DEF RecordAt, Middle
    <3> QED BY <2>2, <3>3, <3>4, RecordNext
  <2>6. CASE pc' = "undo" /\ UNCHANGED <<marker, pending>>
    <3>1. r = Rec /\ Place' = "undo" /\ pc' # "recording"
      BY <2>2, <2>3, <2>6 DEF Rec, Place
    <3>2. r # NoRecord => FitsRecord(r)'
      BY <2>1, <2>3, <3>1, SameRecord DEF RecordInv
    <3>3. RecordAt'
      BY <3>1 DEF RecordAt, Middle
    <3> QED BY <2>2, <3>2, <3>3, RecordNext
  <2> DEFINE one == <<RemoveNew>>
  <2>10. one \in Seq(UndoSteps)
    BY SeqOfOne, StepsAre
  <2>11. Push(one, "add")
    BY <1>7 DEF Check
  <2> HIDE DEF one
  <2> QED BY <2>5, <2>6, <2>10, <2>11, PushedSteps
<1>8. CASE AddBegins
  <2>1. Place = "add" /\ Place' = "adding" /\ hand.state = "away" /\ UNCHANGED hand
    BY <1>8, Moves, AwayAt DEF Ends, Early, Start, Middle, AddBegins
  <2>2. PICK r : r = Rec
    OBVIOUS
  <2>3. r = Rec' /\ pc' # "recording" /\ pc # "recording"
    BY <1>8, <2>2 DEF AddBegins, Rec
  <2>4. r # NoRecord => FitsRecord(r)
    BY <2>1, <2>2 DEF RecordInv
  <2>5. UNCHANGED <<undo, to>> /\ ToSet(r.steps) = ToSet(undo)
    BY <1>8, <2>1, <2>2 DEF AddBegins, memory, RecordInv, RecordAt, Middle
  <2>6. manifest' # to'
    BY <2>1 DEF StageInv, Undoable, Early, Start, Middle
  <2>7. r # NoRecord => FitsRecord(r)'
    BY <2>1, <2>5, <2>6, UndoRecord, UndoIsSteps DEF Undoable, Early, Start, Middle
  <2>8. RecordAt'
    BY <2>1, <2>2, <2>3, <2>5 DEF RecordInv, RecordAt, Early, Start, Middle, cleanupSteps
  <2> QED BY <2>3, <2>7, <2>8, RecordNext
<1>9. CASE AddEnds
  <2>1. Place = "adding" /\ Place' = "added" /\ hand.state = "away" /\ UNCHANGED hand
    BY <1>9, Moves, AwayAt DEF Ends, Early, Start, Middle, AddEnds
  <2>2. PICK r : r = Rec
    OBVIOUS
  <2>3. r = Rec' /\ pc' # "recording" /\ pc # "recording"
    BY <1>9, <2>2 DEF AddEnds, Rec
  <2>4. r # NoRecord => FitsRecord(r)
    BY <2>1, <2>2 DEF RecordInv
  <2>5. UNCHANGED <<undo, to>> /\ ToSet(r.steps) = ToSet(undo)
    BY <1>9, <2>1, <2>2 DEF AddEnds, RecordInv, RecordAt, Middle
  <2>6. manifest' # to'
    BY <2>1 DEF StageInv, Undoable, Early, Start, Middle
  <2>7. r # NoRecord => FitsRecord(r)'
    BY <2>1, <2>5, <2>6, UndoRecord, UndoIsSteps DEF Undoable, Early, Start, Middle
  <2>8. RecordAt'
    BY <2>1, <2>2, <2>3, <2>5 DEF RecordInv, RecordAt, Early, Start, Middle, cleanupSteps
  <2> QED BY <2>3, <2>7, <2>8, RecordNext
<1>10. CASE AddFails
  <2>1. Place = "adding" /\ Place' = "undo" /\ hand.state = "away" /\ UNCHANGED hand
    BY <1>10, Moves, AwayAt DEF Ends, Early, Start, Middle, AddFails
  <2>2. PICK r : r = Rec
    OBVIOUS
  <2>3. r = Rec' /\ pc' # "recording" /\ pc # "recording"
    BY <1>10, <2>2 DEF AddFails, Rec
  <2>4. r # NoRecord => FitsRecord(r)
    BY <2>1, <2>2 DEF RecordInv
  <2>5. UNCHANGED <<undo, to>> /\ ToSet(r.steps) = ToSet(undo)
    BY <1>10, <2>1, <2>2 DEF AddFails, memory, RecordInv, RecordAt, Middle
  <2>6. manifest' # to'
    BY <2>1 DEF StageInv, Undoable, Early, Start, Middle
  <2>7. r # NoRecord => FitsRecord(r)'
    BY <2>1, <2>5, <2>6, UndoRecord, UndoIsSteps DEF Undoable, Early, Start, Middle
  <2>8. RecordAt'
    BY <2>1, <2>2, <2>3, <2>5 DEF RecordInv, RecordAt, Early, Start, Middle, cleanupSteps
  <2> QED BY <2>3, <2>7, <2>8, RecordNext
<1>11. CASE PushCarry
  <2>1. Place = "added" /\ Place' \in {"recordSaving", "carry", "undo"} /\ hand.state = "away" /\ UNCHANGED hand
    BY <1>11, Moves, AwayAt DEF Ends, Early, Start, Middle, PushCarry
  <2>2. PICK r : r = Rec'
    OBVIOUS
  <2>3. UNCHANGED <<at, reg, jjName, to, files, written, manifest>> /\ pc # "recording"
    BY <1>11 DEF PushCarry, disk
  <2>4. manifest' # to'
    BY <2>1, <2>3 DEF StageInv, Undoable, Early, Start, Middle
  <2>9. undo' \in Seq(UndoSteps)
    BY DEF TypeInv, StepType
  <2>5. CASE pc' = "recording" /\ marker' = NoRecord /\ pending'.record.steps = Reverse(undo')
             /\ ToSet(pending'.record.steps) = ToSet(undo') /\ pending'.next = "carry"
    <3>1. r = pending'.record /\ Place' = "carry"
      BY <2>2, <2>5 DEF Rec, Place
    <3>2. ToSet(undo') \subseteq UndoSteps
      BY <2>9, LenProperties, ElementOfSeq DEF ToSet
    <3>3. FitsRecord(r)'
      BY <2>1, <2>4, <2>5, <3>1, <3>2, UndoRecord DEF Undoable, Early, Start, Middle
    <3>4. RecordAt'
      BY <2>2, <2>5, <3>1 DEF RecordAt, Middle
    <3> QED BY <2>2, <3>3, <3>4, RecordNext
  <2>6. CASE pc' = "undo" /\ UNCHANGED <<marker, pending>>
    <3>1. r = Rec /\ Place' = "undo" /\ pc' # "recording"
      BY <2>2, <2>3, <2>6 DEF Rec, Place
    <3>2. r # NoRecord => FitsRecord(r)'
      BY <2>1, <2>3, <3>1, SameRecord DEF RecordInv
    <3>3. RecordAt'
      BY <3>1 DEF RecordAt, Middle
    <3> QED BY <2>2, <3>2, <3>3, RecordNext
  <2>10. CASE listed = {}
    <3>1. UNCHANGED <<undo, marker, pending, to>> /\ Place' = "recordSaving" /\ pc' # "recording"
      BY <1>11, <2>10, PlaceAfter DEF PushCarry, disk
    <3>2. r = Rec
      BY <2>2, <2>3, <3>1 DEF Rec
    <3>3. r # NoRecord => FitsRecord(r)'
      BY <2>1, <2>3, <3>2, SameRecord DEF RecordInv
    <3>4. RecordAt'
      BY <2>1, <2>2, <3>1, <3>2 DEF RecordInv, RecordAt, Middle
    <3> QED BY <2>2, <3>3, <3>4, RecordNext
  <2>11. CASE listed # {}
    <3>1. SetToSeq({CarryBack(e) : e \in listed}) \in Seq(UndoSteps)
      BY CarriesAsSeq DEF TypeInv, MemoryType
    <3>2. Push(SetToSeq({CarryBack(e) : e \in listed}), "carry")
      BY <1>11, <2>11 DEF PushCarry
    <3> QED BY <2>5, <2>6, <3>1, <3>2, PushedSteps
  <2> QED BY <2>10, <2>11
<1>12. CASE CarryLooks
  <2>1. Place = "carry" /\ Place' = "carry" /\ hand.state = "away" /\ UNCHANGED hand
    BY <1>12, Moves, AwayAt DEF Ends, Early, Start, Middle, CarryLooks
  <2>2. PICK r : r = Rec
    OBVIOUS
  <2>3. r = Rec' /\ pc' # "recording" /\ pc # "recording"
    BY <1>12, <2>2 DEF CarryLooks, Rec
  <2>4. r # NoRecord => FitsRecord(r)
    BY <2>1, <2>2 DEF RecordInv
  <2>5. UNCHANGED <<at, reg, jjName, to, files, written, manifest>>
    BY <1>12 DEF CarryLooks, disk
  <2>7. r # NoRecord => FitsRecord(r)'
    BY <2>4, <2>5, SameRecord
  <2>6. UNCHANGED <<undo, to>>
    BY <1>12 DEF CarryLooks, disk
  <2>8. RecordAt'
    BY <2>1, <2>2, <2>3, <2>6 DEF RecordInv, RecordAt, Early, Start, Middle, cleanupSteps
  <2> QED BY <2>3, <2>7, <2>8, RecordNext
<1>13. CASE CarryRenames
  <2>1. Place = "carry" /\ Place' \in {"recordSaving", "carry"} /\ hand.state = "away" /\ UNCHANGED hand
    BY <1>13, Moves, AwayAt DEF Ends, Early, Start, Middle, CarryRenames
  <2>2. PICK r : r = Rec
    OBVIOUS
  <2>3. r = Rec' /\ pc' # "recording" /\ pc # "recording"
    BY <1>13, <2>2 DEF CarryRenames, Rec
  <2>4. r # NoRecord => FitsRecord(r)
    BY <2>1, <2>2 DEF RecordInv
  <2>5. UNCHANGED <<undo, to>> /\ ToSet(r.steps) = ToSet(undo)
    BY <1>13, <2>1, <2>2 DEF CarryRenames, RecordInv, RecordAt, Middle
  <2>6. manifest' # to'
    BY <2>1 DEF StageInv, Undoable, Early, Start, Middle
  <2>7. r # NoRecord => FitsRecord(r)'
    BY <2>1, <2>5, <2>6, UndoRecord, UndoIsSteps DEF Undoable, Early, Start, Middle
  <2>8. RecordAt'
    BY <2>1, <2>2, <2>3, <2>5 DEF RecordInv, RecordAt, Early, Start, Middle, cleanupSteps
  <2> QED BY <2>3, <2>7, <2>8, RecordNext
<1>14. CASE RecordSaving
  <2>1. Place = "recordSaving" /\ Place' = "save" /\ hand.state = "away" /\ UNCHANGED hand
    BY <1>14, Moves, AwayAt DEF Ends, Early, Start, Middle, RecordSaving
  <2>2. PICK r : r = Rec'
    OBVIOUS
  <2>3. UNCHANGED <<to, undo>> /\ Record("saving", undoSteps(undo), cleanupSteps, "save")
    BY <1>14 DEF RecordSaving, memory
  <2>4. manifest' # to'
    BY <2>1 DEF StageInv, Undoable, Middle
  <2>5. /\ pc' = "recording" /\ marker' = NoRecord /\ r.steps = undoSteps(undo) /\ r.phase = "saving"
        /\ r.cleanup = cleanupSteps /\ Place' = "save"
    BY <2>2, <2>3, Records DEF Rec, Place
  <2>6. PICK T : T = ToSet(undo')
    OBVIOUS
  <2>7. ToSet(r.steps) = T /\ T \subseteq UndoSteps
    BY <2>3, <2>5, <2>6, SeqReversed, UndoIsSteps DEF undoSteps, TypeInv, StepType
  <2>8. FitsRecord(r)'
    BY <2>1, <2>4, <2>5, <2>6, <2>7, UndoRecord DEF Undoable, Middle
  <2>9. RecordAt'
    BY <2>2, <2>3, <2>5, <2>6, <2>7 DEF RecordAt, cleanupSteps
  <2> QED BY <2>2, <2>8, <2>9, RecordNext
<1>15. CASE SaveDetaches
  <2>1. Place = "save" /\ Place' = "saving" /\ hand.state = "away" /\ UNCHANGED hand
    BY <1>15, Moves, AwayAt DEF Ends, Early, Start, Middle, SaveDetaches
  <2>2. PICK r : r = Rec
    OBVIOUS
  <2>3. r = Rec' /\ pc' # "recording" /\ pc # "recording"
    BY <1>15, <2>2 DEF SaveDetaches, Rec
  <2>4. r # NoRecord => FitsRecord(r)
    BY <2>1, <2>2 DEF RecordInv
  <2>5. UNCHANGED <<undo, to>> /\ ToSet(r.steps) = ToSet(undo)
    BY <1>15, <2>1, <2>2 DEF SaveDetaches, memory, RecordInv, RecordAt, Middle
  <2>6. manifest' # to'
    BY <2>1 DEF StageInv, Undoable, Early, Start, Middle
  <2>7. r # NoRecord => FitsRecord(r)'
    BY <2>1, <2>5, <2>6, UndoRecord, UndoIsSteps DEF Undoable, Early, Start, Middle
  <2>8. RecordAt'
    BY <2>1, <2>2, <2>3, <2>5 DEF RecordInv, RecordAt, Early, Start, Middle, cleanupSteps
  <2> QED BY <2>3, <2>7, <2>8, RecordNext
<1>16. CASE SaveInstalls
  <2>1. Place = "saving" /\ Place' \in {"saved", "undo"} /\ hand.state = "away" /\ UNCHANGED hand
    BY <1>16, Moves, AwayAt DEF Ends, Early, Start, Middle, SaveInstalls
  <2>2. PICK r : r = Rec
    OBVIOUS
  <2>3. r = Rec' /\ pc' # "recording" /\ pc # "recording"
    BY <1>16, <2>2 DEF SaveInstalls, Rec
  <2>4. r # NoRecord => FitsRecord(r)
    BY <2>1, <2>2 DEF RecordInv
  <2>5. UNCHANGED <<undo, to, at, files, jjName>> /\ ToSet(r.steps) = ToSet(undo)
        /\ r.phase = "saving" /\ r.cleanup = cleanupSteps
    BY <1>16, <2>1, <2>2 DEF SaveInstalls, memory, RecordInv, RecordAt, Middle
  <2>6. ASSUME manifest' = to PROVE FitsRecord(r)'
    <3>1. PICK C : C = ToSet(cleanupSteps)
      OBVIOUS
    <3>2. FitsCleanup(C)
      BY <3>1, CleanupSets, StepsAre, StepsDiffer DEF FitsCleanup, TypeInv, DiskType, Modes
    <3>3. MoveNewBack \notin C /\ MoveNewBack \notin ToSet(r.steps)
      BY <2>5, <3>2, UndoIsSteps, CleanupSets, <3>1, StepsDiffer, StepsAre
    <3>4. FitsCleanup(C)'
      BY <2>5, <3>2 DEF FitsCleanup
    <3> QED BY <2>5, <2>6, <3>1, <3>3, <3>4 DEF FitsRecord, StepsOf, FitsCleanup
  <2>9. ASSUME Place' = "undo" PROVE FitsRecord(r)'
    <3>1. manifest' # to'
      BY <2>1, <2>9 DEF StageInv, Undoable
    <3> QED BY <2>1, <2>5, <2>9, <3>1, UndoRecord, UndoIsSteps DEF Undoable
  <2>10. manifest' = to \/ Place' = "undo"
    BY <1>16, PlaceAfter DEF SaveInstalls
  <2>7. r # NoRecord => FitsRecord(r)'
    BY <2>6, <2>9, <2>10
  <2>8. RecordAt'
    BY <2>1, <2>3 DEF RecordInv, RecordAt, Early, Start, Middle, cleanupSteps
  <2> QED BY <2>3, <2>7, <2>8, RecordNext
<1>17. CASE Saved
  <2>1. Place = "saved" /\ Place' = "finish" /\ hand.state = "away" /\ UNCHANGED hand
    BY <1>17, Moves, AwayAt DEF Ends, Early, Start, Middle, Saved
  <2>2. PICK r : r = Rec'
    OBVIOUS
  <2>3. UNCHANGED <<at, reg, jjName, to, files, written, manifest>> /\ pc # "recording"
    BY <1>17 DEF Saved, disk
  <2>4. manifest = to
    BY <2>1 DEF StageInv, Late, Emptied
  <2>5. Cleanup("saved", cleanupSteps, "finish")
    BY <1>17 DEF Saved
  <2>10. to \in Modes
    BY DEF TypeInv, DiskType
  <2>6. CASE pc' = "recording" /\ marker' = NoRecord /\ pending'.record.steps = cleanupSteps
             /\ pending'.record.phase = "saved"
    <3>1. r = pending'.record
      BY <2>2, <2>6 DEF Rec
    <3>2. PICK C : C = ToSet(cleanupSteps)
      OBVIOUS
    <3>3. FitsCleanup(C)
      BY <2>10, <3>2, CleanupSets, StepsAre, StepsDiffer DEF FitsCleanup, Modes
    <3>4. FitsRecord(r)
      BY <2>4, <2>6, <3>1, <3>2, <3>3, CleanupRecord
    <3>5. FitsRecord(r)'
      BY <2>3, <3>4, SameRecord
    <3>6. RecordAt'
      BY <2>1, <2>6 DEF RecordAt, Middle
    <3> QED BY <2>2, <3>5, <3>6, RecordNext
  <2>7. CASE pc' = "finish" /\ UNCHANGED <<marker, pending>>
    <3>1. r = Rec /\ pc' # "recording"
      BY <2>2, <2>3, <2>7 DEF Rec
    <3>2. r # NoRecord => FitsRecord(r)'
      BY <2>1, <2>3, <3>1, SameRecord DEF RecordInv
    <3>3. RecordAt'
      BY <2>1, <3>1 DEF RecordAt, Middle
    <3> QED BY <2>2, <3>2, <3>3, RecordNext
  <2> QED BY <2>5, <2>6, <2>7, CleanupRecords
<1>18. CASE CheckFails
  <2>1. Place \in (Early \ Start) \cup {"setting aside"} \cup Middle /\ Place' = "undo" /\ hand.state = "away" /\ UNCHANGED hand
    BY <1>18, Moves, AwayAt DEF Ends, Early, Start, Middle, CheckFails
  <2>2. PICK r : r = Rec
    OBVIOUS
  <2>3. r = Rec' /\ pc' # "recording" /\ pc # "recording"
    BY <1>18, <2>2 DEF CheckFails, Rec
  <2>4. r # NoRecord => FitsRecord(r)
    BY <2>1, <2>2 DEF RecordInv
  <2>5. UNCHANGED <<at, reg, jjName, to, files, written, manifest>>
    BY <1>18 DEF CheckFails, disk
  <2>7. r # NoRecord => FitsRecord(r)'
    BY <2>4, <2>5, SameRecord
  <2>6. UNCHANGED <<undo, to>>
    BY <1>18 DEF CheckFails, disk
  <2>8. RecordAt'
    BY <2>1, <2>2, <2>3, <2>6 DEF RecordInv, RecordAt, Early, Start, Middle, cleanupSteps
  <2> QED BY <2>3, <2>7, <2>8, RecordNext
<1>19. CASE InstallRecord
  <2>1. Place' = Place /\ UNCHANGED <<at, reg, jjName, to, files, written, manifest, undo, hand>>
    BY <1>19, Moves DEF InstallRecord, disk, memory
  <2>2. PICK r : r = Rec
    OBVIOUS
  <2>3. r = Rec' /\ pc' # "recording"
    BY <1>19, <2>2 DEF InstallRecord, Rec, TypeInv, PlaceType, Nexts
  <2>4. CASE hand.state = "away"
    <3>1. r # NoRecord => FitsRecord(r)'
      BY <2>1, <2>2, <2>4, SameRecord DEF RecordInv
    <3>2. RecordAt'
      BY <2>1, <2>2, <2>3, <2>4 DEF RecordInv, RecordAt, cleanupSteps
    <3> QED BY <2>3, <3>1, <3>2, RecordNext
  <2>5. CASE hand.state # "away"
    BY <2>1, <2>5 DEF RecordInv
  <2> QED BY <2>4, <2>5
<1>20. CASE Finish
  <2>1. Place = "finish" /\ Place' \in {"end", "forget", "remove aside"} /\ hand.state = "away" /\ UNCHANGED hand
    BY <1>20, Moves, AwayAt DEF Ends, Early, Start, Middle, Finish
  <2>2. PICK r : r = Rec
    OBVIOUS
  <2>3. r = Rec' /\ pc' # "recording" /\ pc # "recording"
    BY <1>20, <2>2 DEF Finish, Rec
  <2>4. r # NoRecord => FitsRecord(r)
    BY <2>1, <2>2 DEF RecordInv
  <2>5. UNCHANGED <<at, reg, jjName, to, files, written, manifest>>
    BY <1>20 DEF Finish, disk, memory
  <2>7. r # NoRecord => FitsRecord(r)'
    BY <2>4, <2>5, SameRecord
  <2>6. UNCHANGED <<undo, to>>
    BY <1>20 DEF Finish, disk, memory
  <2>8. RecordAt'
    BY <2>1, <2>2, <2>3, <2>6 DEF RecordInv, RecordAt, Early, Start, Middle, cleanupSteps
  <2> QED BY <2>3, <2>7, <2>8, RecordNext
<1>21. CASE SetNewAside
  <2>1. Place = "forget" /\ Place' \in {"record forgetting", "remove aside"} /\ hand.state = "away" /\ UNCHANGED hand
    BY <1>21, Moves, AwayAt DEF Ends, Early, Start, Middle, SetNewAside
  <2>2. PICK r : r = Rec
    OBVIOUS
  <2>3. r = Rec' /\ pc' # "recording" /\ pc # "recording"
    BY <1>21, <2>2 DEF SetNewAside, Rec
  <2>4. r # NoRecord => FitsRecord(r)
    BY <2>1, <2>2 DEF RecordInv
  <2>5. manifest = to
    BY <2>1 DEF StageInv, Late, Emptied
  <2>6. /\ UNCHANGED <<to, manifest>> /\ (jjName' => jjName)
        /\ at'.aside = "old" => at.aside = "old"
    BY <1>21 DEF SetNewAside, TypeInv, DiskType
  <2>7. r # NoRecord => FitsRecord(r)'
    BY <2>4, <2>5, <2>6, LateRecord
  <2>8. RecordAt'
    BY <2>1, <2>3 DEF RecordInv, RecordAt, Early, Start, Middle, cleanupSteps
  <2> QED BY <2>3, <2>7, <2>8, RecordNext
<1>22. CASE RecordForgetting
  <2>1. Place = "record forgetting" /\ Place' = "forget name" /\ hand.state = "away" /\ UNCHANGED hand
    BY <1>22, Moves, AwayAt DEF Ends, Early, Start, Middle, RecordForgetting
  <2>2. PICK r : r = Rec'
    OBVIOUS
  <2>3. UNCHANGED <<at, reg, jjName, to, files, written, manifest>> /\ pc # "recording"
    BY <1>22 DEF RecordForgetting, disk
  <2>4. manifest = to
    BY <2>1 DEF StageInv, Late, Emptied
  <2>5. Cleanup("forgetting", <<MoveNewBack, ForgetIfListed, RemoveAside>>, "forget name")
    BY <1>22 DEF RecordForgetting
  <2>10. to = "worktree" /\ (forgotten => ~jjName)
    BY <2>1 DEF StageInv, Emptied
  <2>6. CASE pc' = "recording" /\ marker' = NoRecord /\ pending'.record.steps = <<MoveNewBack, ForgetIfListed, RemoveAside>>
             /\ pending'.record.phase = "forgetting"
    <3>1. r = pending'.record
      BY <2>2, <2>6 DEF Rec
    <3>2. PICK C : C = ToSet(<<MoveNewBack, ForgetIfListed, RemoveAside>>)
      OBVIOUS
    <3>3. FitsCleanup(C)
      BY <2>10, <3>2, CleanupSets, StepsAre, StepsDiffer DEF FitsCleanup
    <3>4. FitsRecord(r)
      BY <2>4, <2>6, <3>1, <3>2, <3>3, CleanupRecord
    <3>5. FitsRecord(r)'
      BY <2>3, <3>4, SameRecord
    <3>6. RecordAt'
      BY <2>1, <2>6 DEF RecordAt, Middle
    <3> QED BY <2>2, <3>5, <3>6, RecordNext
  <2>7. CASE pc' = "forget name" /\ UNCHANGED <<marker, pending>>
    <3>1. r = Rec /\ pc' # "recording"
      BY <2>2, <2>3, <2>7 DEF Rec
    <3>2. r # NoRecord => FitsRecord(r)'
      BY <2>1, <2>3, <3>1, SameRecord DEF RecordInv
    <3>3. RecordAt'
      BY <2>1, <3>1 DEF RecordAt, Middle
    <3> QED BY <2>2, <3>2, <3>3, RecordNext
  <2> QED BY <2>5, <2>6, <2>7, CleanupRecords
<1>23. CASE ForgetName
  <2>1. Place = "forget name" /\ Place' = "restore new" /\ hand.state = "away" /\ UNCHANGED hand
    BY <1>23, Moves, AwayAt DEF Ends, Early, Start, Middle, ForgetName
  <2>2. PICK r : r = Rec
    OBVIOUS
  <2>3. r = Rec' /\ pc' # "recording" /\ pc # "recording"
    BY <1>23, <2>2 DEF ForgetName, Rec
  <2>4. r # NoRecord => FitsRecord(r)
    BY <2>1, <2>2 DEF RecordInv
  <2>5. manifest = to
    BY <2>1 DEF StageInv, Late, Emptied
  <2>6. /\ UNCHANGED <<to, manifest>> /\ (jjName' => jjName)
        /\ at'.aside = "old" => at.aside = "old"
    BY <1>23 DEF ForgetName, TypeInv, DiskType
  <2>7. r # NoRecord => FitsRecord(r)'
    BY <2>4, <2>5, <2>6, LateRecord
  <2>8. RecordAt'
    BY <2>1, <2>3 DEF RecordInv, RecordAt, Early, Start, Middle, cleanupSteps
  <2> QED BY <2>3, <2>7, <2>8, RecordNext
<1>24. CASE RestoreNew
  <2>1. Place = "restore new" /\ Place' \in {"record restored", "remove aside"} /\ hand.state = "away" /\ UNCHANGED hand
    BY <1>24, Moves, AwayAt DEF Ends, Early, Start, Middle, RestoreNew
  <2>2. PICK r : r = Rec
    OBVIOUS
  <2>3. r = Rec' /\ pc' # "recording" /\ pc # "recording"
    BY <1>24, <2>2 DEF RestoreNew, Rec
  <2>4. r # NoRecord => FitsRecord(r)
    BY <2>1, <2>2 DEF RecordInv
  <2>5. manifest = to
    BY <2>1 DEF StageInv, Late, Emptied
  <2>6. /\ UNCHANGED <<to, manifest>> /\ (jjName' => jjName)
        /\ at'.aside = "old" => at.aside = "old"
    BY <1>24 DEF RestoreNew, TypeInv, DiskType
  <2>7. r # NoRecord => FitsRecord(r)'
    BY <2>4, <2>5, <2>6, LateRecord
  <2>8. RecordAt'
    BY <2>1, <2>3 DEF RecordInv, RecordAt, Early, Start, Middle, cleanupSteps
  <2> QED BY <2>3, <2>7, <2>8, RecordNext
<1>25. CASE RecordRestored
  <2>1. Place = "record restored" /\ Place' = "remove aside" /\ hand.state = "away" /\ UNCHANGED hand
    BY <1>25, Moves, AwayAt DEF Ends, Early, Start, Middle, RecordRestored
  <2>2. PICK r : r = Rec'
    OBVIOUS
  <2>3. UNCHANGED <<at, reg, jjName, to, files, written, manifest>> /\ pc # "recording"
    BY <1>25 DEF RecordRestored, disk
  <2>4. manifest = to
    BY <2>1 DEF StageInv, Late, Emptied
  <2>5. Cleanup("saved", forgetLeft(Forget) \o <<RemoveAside>>, "remove aside")
    BY <1>25 DEF RecordRestored
  <2>10. to = "worktree" /\ (forgotten => ~jjName)
    BY <2>1 DEF StageInv, Emptied
  <2>6. CASE pc' = "recording" /\ marker' = NoRecord /\ pending'.record.steps = forgetLeft(Forget) \o <<RemoveAside>>
             /\ pending'.record.phase = "saved"
    <3>1. r = pending'.record
      BY <2>2, <2>6 DEF Rec
    <3>2. PICK C : C = ToSet(forgetLeft(Forget) \o <<RemoveAside>>)
      OBVIOUS
    <3>3. FitsCleanup(C)
      BY <2>10, <3>2, CleanupSets, StepsAre, StepsDiffer DEF FitsCleanup
    <3>4. FitsRecord(r)
      BY <2>4, <2>6, <3>1, <3>2, <3>3, CleanupRecord
    <3>5. FitsRecord(r)'
      BY <2>3, <3>4, SameRecord
    <3>6. RecordAt'
      BY <2>1, <2>6 DEF RecordAt, Middle
    <3> QED BY <2>2, <3>5, <3>6, RecordNext
  <2>7. CASE pc' = "remove aside" /\ UNCHANGED <<marker, pending>>
    <3>1. r = Rec /\ pc' # "recording"
      BY <2>2, <2>3, <2>7 DEF Rec
    <3>2. r # NoRecord => FitsRecord(r)'
      BY <2>1, <2>3, <3>1, SameRecord DEF RecordInv
    <3>3. RecordAt'
      BY <2>1, <3>1 DEF RecordAt, Middle
    <3> QED BY <2>2, <3>2, <3>3, RecordNext
  <2> QED BY <2>5, <2>6, <2>7, CleanupRecords
<1>26. CASE RemoveOld
  <2>1. Place = "remove aside" /\ Place' \in {"deregister", "stranded?"} /\ hand.state = "away" /\ UNCHANGED hand
    BY <1>26, Moves, AwayAt DEF Ends, Early, Start, Middle, RemoveOld
  <2>2. PICK r : r = Rec
    OBVIOUS
  <2>3. r = Rec' /\ pc' # "recording" /\ pc # "recording"
    BY <1>26, <2>2 DEF RemoveOld, Rec
  <2>4. r # NoRecord => FitsRecord(r)
    BY <2>1, <2>2 DEF RecordInv
  <2>5. manifest = to
    BY <2>1 DEF StageInv, Late, Emptied
  <2>6. /\ UNCHANGED <<to, manifest>> /\ (jjName' => jjName)
        /\ at'.aside = "old" => at.aside = "old"
    BY <1>26 DEF RemoveOld, TypeInv, DiskType
  <2>7. r # NoRecord => FitsRecord(r)'
    BY <2>4, <2>5, <2>6, LateRecord
  <2>8. RecordAt'
    BY <2>1, <2>3 DEF RecordInv, RecordAt, Early, Start, Middle, cleanupSteps
  <2> QED BY <2>3, <2>7, <2>8, RecordNext
<1>27. CASE Deregister
  <2>1. Place = "deregister" /\ Place' = "stranded?" /\ hand.state = "away" /\ UNCHANGED hand
    BY <1>27, Moves, AwayAt DEF Ends, Early, Start, Middle, Deregister
  <2>2. PICK r : r = Rec
    OBVIOUS
  <2>3. r = Rec' /\ pc' # "recording" /\ pc # "recording"
    BY <1>27, <2>2 DEF Deregister, Rec
  <2>4. r # NoRecord => FitsRecord(r)
    BY <2>1, <2>2 DEF RecordInv
  <2>5. manifest = to
    BY <2>1 DEF StageInv, Late, Emptied
  <2>6. /\ UNCHANGED <<to, manifest>> /\ (jjName' => jjName)
        /\ at'.aside = "old" => at.aside = "old"
    BY <1>27 DEF Deregister, TypeInv, DiskType
  <2>7. r # NoRecord => FitsRecord(r)'
    BY <2>4, <2>5, <2>6, LateRecord
  <2>8. RecordAt'
    BY <2>1, <2>3 DEF RecordInv, RecordAt, Early, Start, Middle, cleanupSteps
  <2> QED BY <2>3, <2>7, <2>8, RecordNext
<1>28. CASE RecordStranded
  <2>1. Place = "stranded?" /\ Place' = "end" /\ hand.state = "away" /\ UNCHANGED hand
    BY <1>28, Moves, AwayAt DEF Ends, Early, Start, Middle, RecordStranded
  <2>2. PICK r : r = Rec'
    OBVIOUS
  <2>3. UNCHANGED <<at, reg, jjName, to, files, written, manifest>> /\ pc # "recording"
    BY <1>28 DEF RecordStranded, disk
  <2>4. manifest = to
    BY <2>1 DEF StageInv, Late, Emptied
  <2>9. CASE stranded
    <3>5. Cleanup("forgetting", <<MoveNewBack>> \o forgetLeft(Forget) \o (IF at.aside = "old" THEN <<RemoveAside>> ELSE <<>>), "end")
      BY <1>28, <2>9 DEF RecordStranded
    <3>10. to = "worktree" /\ (forgotten => ~jjName)
      BY <2>1, <2>9 DEF StageInv, stranded
    <3>6. CASE pc' = "recording" /\ marker' = NoRecord /\ pending'.record.steps = <<MoveNewBack>> \o forgetLeft(Forget) \o (IF at.aside = "old" THEN <<RemoveAside>> ELSE <<>>)
               /\ pending'.record.phase = "forgetting"
      <4>1. r = pending'.record
        BY <2>2, <3>6 DEF Rec
      <4>2. PICK C : C = ToSet(<<MoveNewBack>> \o forgetLeft(Forget) \o (IF at.aside = "old" THEN <<RemoveAside>> ELSE <<>>))
        OBVIOUS
      <4>3. FitsCleanup(C)
        BY <3>10, <4>2, CleanupSets, StepsAre, StepsDiffer DEF FitsCleanup
      <4>4. FitsRecord(r)
        BY <2>4, <3>6, <4>1, <4>2, <4>3, CleanupRecord
      <4>5. FitsRecord(r)'
        BY <2>3, <4>4, SameRecord
      <4>6. RecordAt'
        BY <2>1, <3>6 DEF RecordAt, Middle
      <4> QED BY <2>2, <4>5, <4>6, RecordNext
    <3>7. CASE pc' = "end" /\ UNCHANGED <<marker, pending>>
      <4>1. r = Rec /\ pc' # "recording"
        BY <2>2, <2>3, <3>7 DEF Rec
      <4>2. r # NoRecord => FitsRecord(r)'
        BY <2>1, <2>3, <4>1, SameRecord DEF RecordInv
      <4>3. RecordAt'
        BY <2>1, <4>1 DEF RecordAt, Middle
      <4> QED BY <2>2, <4>2, <4>3, RecordNext
    <3> QED BY <3>5, <3>6, <3>7, CleanupRecords
  <2>10. CASE ~stranded
    <3>1. pc' = "end" /\ UNCHANGED <<marker, pending>>
      BY <1>28, <2>10 DEF RecordStranded
    <3>2. r = Rec
      BY <2>2, <2>3, <3>1 DEF Rec
    <3>3. r # NoRecord => FitsRecord(r)'
      BY <2>1, <2>3, <3>2, SameRecord DEF RecordInv
    <3>4. RecordAt'
      BY <2>1, <3>1 DEF RecordAt, Middle
    <3> QED BY <2>2, <3>3, <3>4, RecordNext
  <2> QED BY <2>9, <2>10
<1>29. CASE End
  <2>1. Place = "end" /\ Place' = "migrated" /\ hand.state = "away" /\ UNCHANGED hand
    BY <1>29, Moves, AwayAt DEF Ends, Early, Start, Middle, End
  <2>2. PICK r : r = Rec'
    OBVIOUS
  <2>3. UNCHANGED <<at, reg, jjName, to, files, written, manifest>> /\ pc # "recording" /\ pc' = "migrated"
    BY <1>29 DEF End, disk
  <2>4. r = NoRecord \/ r = Rec
    BY <1>29, <2>2, <2>3 DEF Rec, End
  <2>5. r # NoRecord => FitsRecord(r)'
    BY <2>1, <2>3, <2>4, SameRecord DEF RecordInv
  <2>6. RecordAt'
    BY <2>1, <2>3 DEF RecordAt, Middle
  <2> QED BY <2>2, <2>5, <2>6, RecordNext
<1>30. CASE UndoMark
  <2>1. Place = "undo" /\ Place' = "undo" /\ hand.state = "away" /\ UNCHANGED hand
    BY <1>30, Moves, AwayAt DEF Ends, Early, Start, Middle, UndoMark
  <2>2. PICK r : r = Rec
    OBVIOUS
  <2>3. r = Rec' /\ pc' # "recording" /\ pc # "recording"
    BY <1>30, <2>2 DEF UndoMark, MarkRestored, Rec, Undoing
  <2>4. r # NoRecord => FitsRecord(r)
    BY <2>1, <2>2 DEF RecordInv
  <2>5. UNCHANGED <<at, reg, jjName, to, files, written, manifest>>
    BY <1>30 DEF UndoMark
  <2>7. r # NoRecord => FitsRecord(r)'
    BY <2>4, <2>5, SameRecord
  <2>6. UNCHANGED to
    BY <1>30 DEF UndoMark
  <2>8. RecordAt'
    BY <2>1, <2>2, <2>3, <2>6 DEF RecordInv, RecordAt, Early, Start, Middle, cleanupSteps
  <2> QED BY <2>3, <2>7, <2>8, RecordNext
<1>31. CASE UndoNothingMade
  <2>1. Place = "undo" /\ Place' = "undo" /\ hand.state = "away" /\ UNCHANGED hand
    BY <1>31, Moves, AwayAt DEF Ends, Early, Start, Middle, UndoNothingMade
  <2>2. PICK r : r = Rec
    OBVIOUS
  <2>3. r = Rec' /\ pc' # "recording" /\ pc # "recording"
    BY <1>31, <2>2 DEF UndoNothingMade, Rec, Undoing
  <2>4. r # NoRecord => FitsRecord(r)
    BY <2>1, <2>2 DEF RecordInv
  <2>5. UNCHANGED <<at, reg, jjName, to, files, written, manifest>>
    BY <1>31 DEF UndoNothingMade, disk
  <2>7. r # NoRecord => FitsRecord(r)'
    BY <2>4, <2>5, SameRecord
  <2>6. UNCHANGED to
    BY <1>31 DEF UndoNothingMade, disk
  <2>8. RecordAt'
    BY <2>1, <2>2, <2>3, <2>6 DEF RecordInv, RecordAt, Early, Start, Middle, cleanupSteps
  <2> QED BY <2>3, <2>7, <2>8, RecordNext
<1>32. CASE UndoNew
  <2>1. Place = "undo" /\ Place' \in {"undo", "stop"} /\ hand.state = "away" /\ UNCHANGED hand
    BY <1>32, Moves, AwayAt DEF Ends, Early, Start, Middle, UndoNew
  <2>2. PICK r : r = Rec
    OBVIOUS
  <2>3. r = Rec' /\ pc' # "recording" /\ pc # "recording"
    BY <1>32, <2>2 DEF UndoNew, Rec, Undoing
  <2>4. r # NoRecord => FitsRecord(r)
    BY <2>1, <2>2 DEF RecordInv
  <2>5. manifest # to /\ UNCHANGED <<manifest, to, written>>
    BY <1>32, <2>1 DEF UndoNew, StageInv, Undoable
  <2>6. /\ at.slot = "new" /\ at'.slot = "none" /\ at'.aside = at.aside /\ files'["new"] = {}
        /\ reg'.old = reg.old /\ (jjName' = jjName \/ jjName' = (to = "worktree"))
    BY <1>32 DEF UndoNew, TypeInv, DiskType, Checkouts
  <2>9. PICK S : S = ToSet(r.steps)
    OBVIOUS
  <2>7. r # NoRecord => FitsRecord(r)'
    <3> SUFFICES ASSUME r # NoRecord PROVE FitsRecord(r)'
      OBVIOUS
    <3>1. FitsUndo(S) /\ (LookBeside \in S => reg.old = "slot")
      BY <2>4, <2>5, <2>9 DEF FitsRecord
    <3>2. FitsUndo(S)' /\ (LookBeside \in S => reg'.old = "slot")
      BY <2>5, <2>6, <3>1, StepsDiffer DEF FitsUndo, AtHome, Quiet
    <3> QED BY <2>5, <2>9, <3>2 DEF FitsRecord, FitsUndo
  <2>8. RecordAt'
    BY <2>1, <2>3 DEF RecordInv, RecordAt, Early, Start, Middle, cleanupSteps
  <2> QED BY <2>3, <2>7, <2>8, RecordNext
<1>33. CASE UndoAside
  <2>1. Place = "undo" /\ Place' \in {"undo", "stop"} /\ hand.state = "away" /\ UNCHANGED hand
    BY <1>33, Moves, AwayAt DEF Ends, Early, Start, Middle, UndoAside
  <2>2. PICK r : r = Rec
    OBVIOUS
  <2>3. r = Rec' /\ pc' # "recording" /\ pc # "recording"
    BY <1>33, <2>2 DEF UndoAside, Rec, Undoing
  <2>4. r # NoRecord => FitsRecord(r)
    BY <2>1, <2>2 DEF RecordInv
  <2>5. manifest # to /\ UNCHANGED <<manifest, to, written>>
    BY <1>33, <2>1 DEF UndoAside, StageInv, Undoable
  <2>6. /\ at.slot = "none" /\ at'.slot = "old" /\ at'.aside = "none" /\ UNCHANGED <<files, jjName>>
        /\ reg'.old \in {"slot", reg.old}
    BY <1>33 DEF UndoAside, TypeInv, DiskType
  <2>9. PICK S : S = ToSet(r.steps)
    OBVIOUS
  <2>7. r # NoRecord => FitsRecord(r)'
    <3> SUFFICES ASSUME r # NoRecord PROVE FitsRecord(r)'
      OBVIOUS
    <3>1. FitsUndo(S) /\ (LookBeside \in S => reg.old = "slot")
      BY <2>4, <2>5, <2>9 DEF FitsRecord
    <3>2. FitsUndo(S)' /\ (LookBeside \in S => reg'.old = "slot")
      BY <2>5, <2>6, <3>1, StepsDiffer DEF FitsUndo, AtHome, Quiet
    <3> QED BY <2>5, <2>9, <3>2 DEF FitsRecord, FitsUndo
  <2>8. RecordAt'
    BY <2>1, <2>3 DEF RecordInv, RecordAt, Early, Start, Middle, cleanupSteps
  <2> QED BY <2>3, <2>7, <2>8, RecordNext
<1>34. CASE UndoFails
  <2>1. Place = "undo" /\ Place' = "stop" /\ hand.state = "away" /\ UNCHANGED hand
    BY <1>34, Moves, AwayAt DEF Ends, Early, Start, Middle, UndoFails
  <2>2. PICK r : r = Rec
    OBVIOUS
  <2>3. r = Rec' /\ pc' # "recording" /\ pc # "recording"
    BY <1>34, <2>2 DEF UndoFails, Rec
  <2>4. r # NoRecord => FitsRecord(r)
    BY <2>1, <2>2 DEF RecordInv
  <2>5. UNCHANGED <<at, reg, jjName, to, files, written, manifest>>
    BY <1>34 DEF UndoFails, disk
  <2>7. r # NoRecord => FitsRecord(r)'
    BY <2>4, <2>5, SameRecord
  <2>6. UNCHANGED to
    BY <1>34 DEF UndoFails, disk
  <2>8. RecordAt'
    BY <2>1, <2>2, <2>3, <2>6 DEF RecordInv, RecordAt, Early, Start, Middle, cleanupSteps
  <2> QED BY <2>3, <2>7, <2>8, RecordNext
<1>35. CASE Stop
  <2>1. Place = "stop" /\ Place' = "stopped" /\ hand.state = "away" /\ UNCHANGED hand
    BY <1>35, Moves, AwayAt DEF Ends, Early, Start, Middle, Stop
  <2>2. PICK r : r = Rec'
    OBVIOUS
  <2>3. UNCHANGED <<at, reg, jjName, to, files, written, manifest>> /\ pc # "recording"
    BY <1>35 DEF Stop, disk
  <2>4. CASE pc' = "recording" /\ marker' = NoRecord /\ pending'.record.steps = undoSteps(undo)
    <3>1. r = pending'.record
      BY <2>2, <2>4 DEF Rec
    <3>2. ToSet(r.steps) = ToSet(undo) /\ LookBeside \notin ToSet(undo)
      BY <2>4, <3>1, SeqReversed, UndoIsSteps, StepsDiffer DEF undoSteps, TypeInv, StepType
    <3>3. manifest # to /\ FitsUndo(ToSet(undo))
      BY <2>1 DEF StageInv, UndoFits
    <3>4. FitsRecord(r)
      BY <3>2, <3>3 DEF FitsRecord
    <3>5. FitsRecord(r)'
      BY <2>3, <3>4, SameRecord
    <3>6. RecordAt'
      BY <2>1, <2>4 DEF RecordAt, Middle
    <3> QED BY <2>2, <3>5, <3>6, RecordNext
  <2>5. CASE pc' = "stopped" /\ UNCHANGED <<marker, pending>>
    <3>1. r = Rec /\ pc' # "recording"
      BY <2>2, <2>3, <2>5 DEF Rec
    <3>2. r # NoRecord => FitsRecord(r)'
      BY <2>1, <2>3, <3>1, SameRecord DEF RecordInv
    <3>3. RecordAt'
      BY <2>1, <3>1, <2>5 DEF RecordAt, RecordInv, Middle
    <3> QED BY <2>2, <3>2, <3>3, RecordNext
  <2>6. Cleanup("rollback-stopped", undoSteps(undo), "stopped")
    BY <1>35 DEF Stop
  <2> QED BY <2>4, <2>5, <2>6, CleanupRecords
<1>36. CASE RolledBack
  <2>1. Place = "undo" /\ Place' = "rolled back" /\ hand.state = "away" /\ UNCHANGED hand
    BY <1>36, Moves, AwayAt DEF Ends, Early, Start, Middle, RolledBack
  <2>2. PICK r : r = Rec'
    OBVIOUS
  <2>3. UNCHANGED <<at, reg, jjName, to, files, written, manifest>> /\ pc # "recording" /\ pc' = "rolled back"
    BY <1>36 DEF RolledBack, disk
  <2>4. r = NoRecord \/ r = Rec
    BY <1>36, <2>2, <2>3 DEF Rec, RolledBack
  <2>5. r # NoRecord => FitsRecord(r)'
    BY <2>1, <2>3, <2>4, SameRecord DEF RecordInv
  <2>6. RecordAt'
    BY <2>1, <2>3 DEF RecordAt, Middle
  <2> QED BY <2>2, <2>5, <2>6, RecordNext
<1>37. ASSUME NEW e \in Entries, UndoCarryNothing(e) PROVE RecordInv'
  <2>1. Place = "undo" /\ Place' = "undo" /\ hand.state = "away" /\ UNCHANGED hand
    BY <1>37, Moves, AwayAt DEF Ends, Early, Start, Middle, UndoCarryNothing
  <2>2. PICK r : r = Rec
    OBVIOUS
  <2>3. r = Rec' /\ pc' # "recording" /\ pc # "recording"
    BY <1>37, <2>2 DEF UndoCarryNothing, Rec, Undoing
  <2>4. r # NoRecord => FitsRecord(r)
    BY <2>1, <2>2 DEF RecordInv
  <2>5. UNCHANGED <<at, reg, jjName, to, files, written, manifest>>
    BY <1>37 DEF UndoCarryNothing, disk
  <2>7. r # NoRecord => FitsRecord(r)'
    BY <2>4, <2>5, SameRecord
  <2>6. UNCHANGED to
    BY <1>37 DEF UndoCarryNothing, disk
  <2>8. RecordAt'
    BY <2>1, <2>2, <2>3, <2>6 DEF RecordInv, RecordAt, Early, Start, Middle, cleanupSteps
  <2> QED BY <2>3, <2>7, <2>8, RecordNext
<1>38. ASSUME NEW e \in Entries, UndoCarryLooks(e) PROVE RecordInv'
  <2>1. Place = "undo" /\ Place' = "undo" /\ hand.state = "away" /\ UNCHANGED hand
    BY <1>38, Moves, AwayAt DEF Ends, Early, Start, Middle, UndoCarryLooks
  <2>2. PICK r : r = Rec
    OBVIOUS
  <2>3. r = Rec' /\ pc' # "recording" /\ pc # "recording"
    BY <1>38, <2>2 DEF UndoCarryLooks, Rec, Undoing
  <2>4. r # NoRecord => FitsRecord(r)
    BY <2>1, <2>2 DEF RecordInv
  <2>5. UNCHANGED <<at, reg, jjName, to, files, written, manifest>>
    BY <1>38 DEF UndoCarryLooks, disk
  <2>7. r # NoRecord => FitsRecord(r)'
    BY <2>4, <2>5, SameRecord
  <2>6. UNCHANGED <<undo, to>>
    BY <1>38 DEF UndoCarryLooks, disk
  <2>8. RecordAt'
    BY <2>1, <2>2, <2>3, <2>6 DEF RecordInv, RecordAt, Early, Start, Middle, cleanupSteps
  <2> QED BY <2>3, <2>7, <2>8, RecordNext
<1>39. ASSUME NEW e \in Entries, UndoCarryRenames(e) PROVE RecordInv'
  <2>1. Place = "undo" /\ Place' = "undo" /\ hand.state = "away" /\ UNCHANGED hand
    BY <1>39, Moves, AwayAt DEF Ends, Early, Start, Middle, UndoCarryRenames
  <2>2. PICK r : r = Rec
    OBVIOUS
  <2>3. r = Rec' /\ pc' # "recording" /\ pc # "recording"
    BY <1>39, <2>2 DEF UndoCarryRenames, Rec, Undoing
  <2>4. r # NoRecord => FitsRecord(r)
    BY <2>1, <2>2 DEF RecordInv
  <2>5. manifest # to /\ UNCHANGED <<manifest, to, written>>
    BY <1>39, <2>1 DEF UndoCarryRenames, StageInv, Undoable
  <2>10. files'["new"] \subseteq files["new"]
    <3>1. Rename(e, "new", "old")
      BY <1>39 DEF UndoCarryRenames
    <3> QED BY <3>1, RenameMoves DEF TypeInv, Checkouts
  <2>6. UNCHANGED <<at, reg, jjName>> /\ files'["new"] \subseteq files["new"]
    BY <1>39, <2>10 DEF UndoCarryRenames
  <2>9. PICK S : S = ToSet(r.steps)
    OBVIOUS
  <2>7. r # NoRecord => FitsRecord(r)'
    <3> SUFFICES ASSUME r # NoRecord PROVE FitsRecord(r)'
      OBVIOUS
    <3>1. FitsUndo(S) /\ (LookBeside \in S => reg.old = "slot")
      BY <2>4, <2>5, <2>9 DEF FitsRecord
    <3>2. FitsUndo(S)' /\ (LookBeside \in S => reg'.old = "slot")
      BY <2>5, <2>6, <3>1, StepsDiffer DEF FitsUndo, AtHome, Quiet
    <3> QED BY <2>5, <2>9, <3>2 DEF FitsRecord, FitsUndo
  <2>8. RecordAt'
    BY <2>1, <2>3 DEF RecordInv, RecordAt, Early, Start, Middle, cleanupSteps
  <2> QED BY <2>3, <2>7, <2>8, RecordNext
<1>40. ASSUME NEW e \in Entries, UndoCarryKeeps(e) PROVE RecordInv'
  <2>1. Place = "undo" /\ Place' = "undo" /\ hand.state = "away" /\ UNCHANGED hand
    BY <1>40, Moves, AwayAt DEF Ends, Early, Start, Middle, UndoCarryKeeps
  <2>2. PICK r : r = Rec
    OBVIOUS
  <2>3. r = Rec' /\ pc' # "recording" /\ pc # "recording"
    BY <1>40, <2>2 DEF UndoCarryKeeps, Rec, Undoing
  <2>4. r # NoRecord => FitsRecord(r)
    BY <2>1, <2>2 DEF RecordInv
  <2>5. manifest # to /\ UNCHANGED <<manifest, to, written>>
    BY <1>40, <2>1 DEF UndoCarryKeeps, StageInv, Undoable
  <2>10. files'["new"] \subseteq files["new"]
    <3>1. Rename(e, "new", "kept")
      BY <1>40 DEF UndoCarryKeeps
    <3> QED BY <3>1, RenameMoves DEF TypeInv, Checkouts
  <2>6. UNCHANGED <<at, reg, jjName>> /\ files'["new"] \subseteq files["new"]
    BY <1>40, <2>10 DEF UndoCarryKeeps
  <2>9. PICK S : S = ToSet(r.steps)
    OBVIOUS
  <2>7. r # NoRecord => FitsRecord(r)'
    <3> SUFFICES ASSUME r # NoRecord PROVE FitsRecord(r)'
      OBVIOUS
    <3>1. FitsUndo(S) /\ (LookBeside \in S => reg.old = "slot")
      BY <2>4, <2>5, <2>9 DEF FitsRecord
    <3>2. FitsUndo(S)' /\ (LookBeside \in S => reg'.old = "slot")
      BY <2>5, <2>6, <3>1, StepsDiffer DEF FitsUndo, AtHome, Quiet
    <3> QED BY <2>5, <2>9, <3>2 DEF FitsRecord, FitsUndo
  <2>8. RecordAt'
    BY <2>1, <2>3 DEF RecordInv, RecordAt, Early, Start, Middle, cleanupSteps
  <2> QED BY <2>3, <2>7, <2>8, RecordNext
<1>41. CASE Kill
  <2>1. Place' = "killed" /\ pc' = "killed" /\ UNCHANGED <<at, reg, jjName, to, files, written, manifest, undo, hand, marker>>
    BY <1>41, Moves DEF Kill, disk, memory
  <2>2. PICK r : r = Rec'
    OBVIOUS
  <2>4. CASE hand.state = "away"
    <3>0. r = NoRecord \/ r = Rec
      BY <2>1, <2>2, <2>4 DEF Rec, RecordInv, RecordAt
    <3>1. r # NoRecord => FitsRecord(r)'
      BY <2>1, <2>4, <3>0, SameRecord DEF RecordInv
    <3>2. RecordAt'
      BY <2>1 DEF RecordAt, Middle
    <3> QED BY <2>2, <3>1, <3>2, RecordNext
  <2>5. CASE hand.state # "away"
    BY <2>1, <2>5 DEF RecordInv
  <2> QED BY <2>4, <2>5
<1>42. ASSUME NEW place \in {"slot", "aside"}, NEW item \in Items, Write(place, item) PROVE RecordInv'
  <2>1. Place' = Place
    BY <1>42, Moves
  <2>2. /\ at'.aside = at.aside /\ (at'.slot = at.slot \/ (at.slot = "none" /\ at'.slot = "stray"))
        /\ UNCHANGED <<to, jjName, reg, undo, hand, manifest, pc, marker, pending>> /\ hand.state = "away"
    BY <1>42, WriteDoes DEF TypeInv, memory
  <2>3. ~Quiet'
    <3>1. PICK n \in 1..MaxWrites : written' = written \cup {<<item, n>>}
      BY <1>42, WriteDoes DEF TypeInv
    <3>2. <<item, n>>[2] # 0
      BY EntriesAssumption
    <3> QED BY <3>1, <3>2 DEF Quiet
  <2>4. PICK r : r = Rec
    OBVIOUS
  <2>5. r = Rec'
    BY <2>2, <2>4 DEF Rec
  <2>6. r # NoRecord => FitsRecord(r)'
    BY <2>2, <2>3, <2>4 DEF RecordInv, FitsRecord, StepsOf, FitsUndo, FitsCleanup, AtHome
  <2>7. RecordAt'
    BY <2>1, <2>2, <2>4, <2>5 DEF RecordInv, RecordAt, cleanupSteps
  <2> QED BY <2>5, <2>6, <2>7, RecordNext
<1>43. CASE ByPerson
  <2>1. hand'.state # "away"
    BY <1>43, PersonStays
  <2> QED BY <2>1 DEF RecordInv
<1> QED BY <1>1, <1>2, <1>3, <1>4, <1>5, <1>6, <1>7, <1>8, <1>9, <1>10, <1>11, <1>12, <1>13, <1>14, <1>15,
        <1>16, <1>17, <1>18, <1>19, <1>20, <1>21, <1>22, <1>23, <1>24, <1>25, <1>26, <1>27, <1>28, <1>29,
        <1>30, <1>31, <1>32, <1>33, <1>34, <1>35, <1>36, <1>37, <1>38, <1>39, <1>40, <1>41, <1>42,
        <1>43 DEF SlotStep, Migrates, CleansUp, RollsBack, Writes

LEMMA FitsStutters ==
  ASSUME DiskFits, UniqueInv, StageInv, UndoFits, RecordInv, HandFits, Elsewhere
  PROVE  DiskFits' /\ UniqueInv' /\ StageInv' /\ UndoFits' /\ RecordInv' /\ HandFits'
<1>1. /\ UNCHANGED <<pc, to, at, files, reg, jjName, manifest, marker, pending>>
      /\ UNCHANGED <<undo, listed, added, moved, looked, forgotten, written, hand>>
      /\ bookmark' \in {bookmark, "moved"}
  BY ElsewhereKeeps
<1>2. UNCHANGED Place /\ UNCHANGED Quiet /\ UNCHANGED Rec
  BY <1>1, ElsewhereKeeps DEF Quiet, Rec
<1>3. DiskFits' /\ UniqueInv' /\ StageInv'
  BY <1>1, <1>2 DEF DiskFits, Careful, UniqueInv, StageInv
<1>4. UndoFits'
  BY <1>1, <1>2 DEF UndoFits, FitsUndo, AtHome
<1>5. RecordInv'
  BY <1>1, <1>2 DEF RecordInv, RecordAt, FitsRecord, FitsUndo, FitsCleanup, StepsOf, cleanupSteps, AtHome
<1>6. HandFits'
  BY <1>1, <1>2 DEF HandFits, FitsHand, FitsUndo, FitsCleanup, AtHome
<1> QED BY <1>3, <1>4, <1>5, <1>6

LEMMA FitsStarts ==
  ASSUME Init
  PROVE  DiskFits /\ UniqueInv /\ StageInv /\ UndoFits /\ RecordInv /\ HandFits
<1>1. /\ pc = "prepare" /\ Place = "prepare" /\ hand.state = "away" /\ manifest = from /\ to \in Modes
      /\ at.slot = "old" /\ at.aside = "none" /\ at.stash = "none" /\ reg.old = "slot"
      /\ jjName = (to = "worktree") /\ ~added /\ ~forgotten /\ undo = <<>> /\ marker = NoRecord
  BY DEF Init, Place
<1>2. PICK there \in SUBSET Entries :
        files = [old |-> {<<e, 0>> : e \in there}, new |-> {}, kept |-> {}, stray |-> {}, taken |-> {}]
  BY DEF Init
<1>3. /\ \A c \in Checkouts : c # "old" => files[c] = {}
      /\ written = files["old"] /\ files["new"] = {} /\ files.old = files["old"]
  BY <1>2 DEF Init, Checkouts
<1>4. manifest # to
  BY <1>1, ModesAre DEF from
<1>5. DiskFits
  BY <1>1, <1>3, <1>4 DEF DiskFits
<1>6. UniqueInv
  BY <1>3 DEF UniqueInv, Checkouts
<1>7. StageInv
  BY <1>1, <1>3, <1>4 DEF StageInv, Late, Emptied
<1>8. UndoFits
  <2>1. ToSet(undo) = {}
    BY <1>1, SeqOfNone
  <2>2. FitsUndo({})
    BY <1>1, <1>3, HomeFits DEF AtHome
  <2> QED BY <2>1, <2>2 DEF UndoFits
<1>9. RecordInv
  BY <1>1 DEF RecordInv, RecordAt, Rec, Middle
<1>10. HandFits
  BY <1>1 DEF HandFits
<1> QED BY <1>5, <1>6, <1>7, <1>8, <1>9, <1>10

(* A step leaves whoever followed a record that fits at a slot that is whole, *)
(* or stuck only over something in the way.                                  *)
LEMMA RestoresStep ==
  ASSUME TypeInv, OrderInv, UniqueInv, DiskFits, HandFits, SlotStep
  PROVE  HandRestores'
<1>1. CASE HandStep
  <2>1. hand'.misled = hand.misled /\ (hand'.state = "following" \/ (hand'.state = "stuck" /\ UNCHANGED disk))
    BY <1>1, HandMoves
  <2>2. CASE hand'.misled \/ hand'.state = "following"
    BY <2>1, <2>2 DEF HandRestores
  <2>3. CASE ~hand.misled /\ hand'.state = "stuck"
    <3>1. UNCHANGED <<at, written>>
      BY <1>1, <2>1, <2>3 DEF HandStep, disk
    <3>2. at.slot = "stray" \/ ~Quiet
      BY <1>1, <2>3, HandIsStuck
    <3>3. ~Quiet => \E copy \in written : copy[2] > 0
      <4>1. \A copy \in written : copy[2] \in 0..MaxWrites
        BY DEF TypeInv, DiskType
      <4> QED BY <4>1, EntriesAssumption DEF Quiet
    <3> QED BY <2>3, <3>1, <3>2, <3>3 DEF HandRestores
  <2> QED BY <2>1, <2>2, <2>3
<1>2. CASE HandFinishes
  <2>1. /\ hand.state = "following" /\ hand.left = <<>> /\ hand'.state = "finished" /\ hand'.misled = hand.misled
        /\ UNCHANGED <<to, at, files, reg, jjName, bookmark, manifest>>
    BY <1>2 DEF HandFinishes, TypeInv, StepType, disk
  <2>2. CASE hand.misled
    BY <2>1, <2>2 DEF HandRestores
  <2>3. CASE ~hand.misled
    <3>1. ToSet(hand.left) = {}
      BY <2>1, SeqOfNone
    <3>2. FitsHand({})
      BY <2>1, <2>3, <3>1 DEF HandFits, FitsHand, FitsUndo, FitsCleanup
    <3>3. /\ at.stash \in {"new", "none"} /\ at.aside \in {"old", "none"} /\ jjName \in BOOLEAN
          /\ to \in Modes /\ from # to /\ (to = "jj" \/ to = "worktree")
      BY ModesAre DEF TypeInv, DiskType, from, Modes
    <3>4. CASE manifest # to
      <4>1. /\ at.slot = "old" /\ at.aside = "none" /\ at.stash = "none" /\ reg.old = "slot"
            /\ MarkGivenBack /\ jjName = (to = "worktree") /\ manifest \in Modes
        BY <2>1, <2>3, <3>2, <3>3, <3>4 DEF FitsHand, FitsUndo, AtHome, DiskFits, Careful, MarkGivenBack
      <4> QED BY <2>1, <3>4, <4>1 DEF HandRestores, InPlace, MarkGivenBack
    <3>5. CASE manifest = to
      <4>1. at.slot = "new" /\ at.aside = "none" /\ at.stash = "none" /\ manifest \in Modes
        BY <2>1, <2>3, <3>2, <3>3, <3>5 DEF FitsHand, FitsCleanup, DiskFits, Careful
      <4>2. jjName = (to = "jj")
        BY <2>1, <2>3, <3>2, <3>3, <3>5 DEF FitsHand, FitsCleanup, DiskFits, Careful
      <4>3. UNCHANGED from
        BY <2>1 DEF from
      <4> QED BY <2>1, <3>3, <3>5, <4>1, <4>2, <4>3 DEF HandRestores, InPlace
    <3> QED BY <3>4, <3>5
  <2> QED BY <2>2, <2>3
<1>3. CASE hand'.state = "away" \/ hand'.state = "following"
  BY <1>3 DEF HandRestores
<1>4. HandBegins => hand'.state = "following"
  BY DEF HandBegins
<1> QED BY <1>1, <1>2, <1>3, <1>4, AwayStays DEF ByPerson

LEMMA RestoresStutters ==
  ASSUME HandRestores, Elsewhere
  PROVE  HandRestores'
<1>1. UNCHANGED <<to, at, reg, jjName, manifest, written, hand>> /\ bookmark' \in {bookmark, "moved"}
  BY ElsewhereKeeps
<1> QED BY <1>1 DEF HandRestores, InPlace, MarkGivenBack, from

-----------------------------------------------------------------------------
(* Whoever follows a record that fits the disk to its end leaves the slot     *)
(* whole, whenever the migrate was killed or stopped, whatever writers hit    *)
(* and whichever of its steps failed; and only what a writer or a tool left   *)
(* in the way stops that person. The record on disk has at every moment a     *)
(* step for whatever is not as it was, in an order in which each step finds   *)
(* done what it needs, or is told to be stale.                                *)
THEOREM HandRestoring == Spec => []HandRestores
<1> DEFINE I == /\ TypeInv /\ StackInv /\ OrderInv /\ HomeInv /\ DiskFits /\ UniqueInv /\ StageInv
                /\ UndoFits /\ RecordInv /\ HandFits /\ HandRestores
<1>1. Init => I
  <2>1. Init => HandRestores
    BY DEF Init, HandRestores
  <2> QED BY <2>1, TypeStarts, UndoStarts, HomeStarts, FitsStarts
<1>2. I /\ [Next]_vars => I'
  <2>1. CASE Elsewhere
    BY <2>1, TypeStutters, UndoStutters, HomeStutters, FitsStutters, RestoresStutters
  <2>2. ASSUME I, SlotStep PROVE I'
    <3>1. TypeInv' /\ StackInv' /\ OrderInv' /\ HomeInv'
      BY <2>2, TypeStep, StackStep, OrderStep, HomeStep
    <3>2. UniqueInv' /\ DiskFits' /\ HandFits' /\ StageInv'
      BY <2>2, UniqueStep, DiskFitsStep, HandFitsNext, StageStep
    <3>3. UndoFits'
      BY <2>2, UndoFitsStep
    <3>4. RecordInv'
      BY <2>2, <3>1, <3>2, <3>3, RecordStep
    <3>5. HandRestores'
      BY <2>2, RestoresStep
    <3> QED BY <3>1, <3>2, <3>3, <3>4, <3>5
  <2> QED BY <2>1, <2>2, SlotOrElsewhere
<1> QED BY <1>1, <1>2, PTL DEF Spec

=============================================================================
