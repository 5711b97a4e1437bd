---------------------- MODULE TemplateReconcile_proofs ----------------------
(***************************************************************************)
(* What a template update keeps, for any rendered paths, answers files,     *)
(* fingerprints, writers, failures, kills and reruns; and, first, what the  *)
(* three-way decision for one path guarantees.                              *)
(***************************************************************************)
EXTENDS TemplateReconcile, SequenceTheorems, FiniteSetTheorems, TLAPS

-----------------------------------------------------------------------------
(* The invariant, in parts.                                                  *)

Inodes == {"first", "tx", "rival", "e1", "e2"}
FileEntries == {Nothing} \cup [is : Content, ino : Inodes]
ManifestEntries == {Nothing} \cup [is : SUBSET {"tx", "rival"}, ino : Inodes]
SavedStates == {"old", "new", Absent}

RenderType ==
  /\ rendered.old \in [Paths -> {"v1", Absent}] /\ rendered.new \in [Paths -> {"v1", "v2", Absent}]
  /\ rendered \in [old : [Paths -> {"v1", Absent}], new : [Paths -> {"v1", "v2", Absent}]]
  /\ overwrite \in BOOLEAN
DiskType ==
  /\ DOMAIN disk = Guarded
  /\ \A x \in Files : disk[x] \in FileEntries
  /\ disk[Manifest] \in ManifestEntries
SavedType == saved \in SavedStates
PlaceType ==
  /\ phase \in {"idle", "refused", "apply", "rollback", "done", "failed", "killed"}
  /\ step \in {"check", "aside", "install", "undo", "restore"}
  /\ phase = "apply" => step \in {"check", "aside", "install"} /\ todo # <<>>
  /\ phase = "rollback" => step \in {"undo", "restore"} /\ (step = "restore" => undo # <<>>)
SeqType == todo \in Seq(Guarded \cup {State}) /\ undo \in Seq(Guarded)
SeenType ==
  /\ DOMAIN expected = Edited \cup {State}
  /\ \A p \in Paths : expected[p] \in Entries
  /\ expected[Manifest] \in (SUBSET {"tx", "rival"}) \cup {Absent} /\ expected[State] \in SavedStates
  /\ phase \in {"apply", "rollback"} => expected[Manifest] \in SUBSET {"tx", "rival"}
  /\ guard \in [Guarded -> Inodes \cup {"none"}]
AsideType ==
  /\ ~(phase = "apply" /\ step = "install") => aside = Nothing \/ phase = "killed"
  /\ phase = "apply" /\ step = "install" =>
       /\ Head(todo) \in Files => aside \in FileEntries
       /\ Head(todo) = Manifest => aside \in ManifestEntries
       /\ Head(todo) = State => aside.is \in SavedStates
       /\ Head(todo) \in Paths => rendered.new[Head(todo)] # Absent
BackupType == before \in [Files -> FileEntries] /\ broken \in BOOLEAN
EditType ==
  /\ DOMAIN edit = Edited /\ \A p \in Paths : edit[p] \in {Absent, "e1", "e2"}
  /\ edit[Manifest] \in {Absent, "rival"}
  /\ edits \in 0..MaxEdits /\ runs \in 1..MaxRuns

TypeInv == /\ RenderType /\ DiskType /\ SavedType /\ PlaceType /\ SeqType /\ SeenType
           /\ AsideType /\ BackupType /\ EditType

(* angee.yaml is the last but one, the render state the last to install; the  *)
(* file at hand is the one journaled last, angee.yaml is journaled when it is *)
(* installed.                                                                 *)
Ordered(s) == \A i \in 1..Len(s) : /\ s[i] = State <=> i = Len(s)
                                   /\ s[i] = Manifest <=> i + 1 = Len(s)
OrderInv ==
  /\ phase = "apply" => Ordered(todo)
  /\ phase = "idle" => undo = <<>>
  /\ phase = "apply" /\ step = "aside" => Head(todo) # State
  /\ phase = "apply" /\ step # "check" /\ Head(todo) \in Files => Head(todo) \in ToSet(undo)
  /\ phase = "apply" /\ Head(todo) # State => Manifest \notin ToSet(undo)

InTx == phase \in {"apply", "rollback"}
Installing(x) == phase = "apply" /\ step = "install" /\ Head(todo) = x
Restoring(x) == phase = "rollback" /\ step = "restore" /\ Head(undo) = x
Edit(x) == edit[x] # Absent

(* What has not been written yet is nowhere.                                  *)
Coming(e) == (e = "e1" /\ edits = 0) \/ (e = "e2" /\ edits <= 1)
FreshInv == \A e \in {"e1", "e2"} : Coming(e) =>
  /\ \A p \in Paths : /\ e \notin {disk[p].is, disk[p].ino, guard[p], expected[p], edit[p]}
                      /\ e # before[p].is
  /\ \A p \in Paths : Installing(p) => e \notin {aside.is, aside.ino}

(* An edit the update has to keep is seen by its checks and its guards: what  *)
(* it will still install was not edited when it looked, and what it has in    *)
(* its journal has another inode by then.                                     *)
EditSeenInv == \A p \in Paths :
  /\ InTx /\ Edit(p) /\ p \in ToSet(undo) => disk[p].ino # guard[p]
  /\ phase = "apply" /\ Edit(p) /\ p \in ToSet(todo) => expected[p] # edit[p]
  /\ Installing(p) => ~Edit(p)

(* The rival's inode goes with its update; where the guard still fits, what   *)
(* is written back or anew is made from what it saved.                        *)
RivalInv ==
  /\ disk[Manifest].ino = "rival" => "rival" \in disk[Manifest].is
  /\ Installing(Manifest) /\ aside.ino = "rival" => "rival" \in aside.is
  /\ InTx /\ guard[Manifest] = "rival" => "rival" \in expected[Manifest]
  /\ InTx /\ Edit(Manifest) /\ disk[Manifest].ino = guard[Manifest] => "rival" \in expected[Manifest]
  /\ Installing(Manifest) /\ Edit(Manifest) => "rival" \in expected[Manifest] /\ "rival" \in aside.is
  /\ Restoring(Manifest) => disk[Manifest] = Nothing /\ guard[Manifest] = "none"
  /\ phase = "apply" => guard[Manifest] # "none"

(* What is not as Prepare saw it, or edited, is in the journal.               *)
Trying == phase \in {"apply", "rollback", "failed"}
UndoInv ==
  /\ Trying =>
       IF Installing(State) THEN saved = Absent /\ aside.is = expected[State] ELSE saved = expected[State]
  /\ InTx => \A p \in Paths : p \in ToSet(undo) => before[p].is = expected[p]
  /\ Trying /\ ~broken => \A p \in Paths : disk[p].is \in {expected[p], edit[p]} \/ p \in ToSet(undo)
  /\ Trying /\ ~broken => \A p \in Paths : Restoring(p) => disk[p].is \in {Absent, edit[p]}
  /\ Trying /\ ~broken =>
       \/ Manifest \in ToSet(undo)
       \/ IF Installing(Manifest)
          THEN aside.is \ {"rival"} = expected[Manifest] \ {"rival"}
          ELSE disk[Manifest].is \ {"rival"} = expected[Manifest] \ {"rival"}
  /\ phase = "failed" => undo = <<>>

(* What is managed and no longer to do is as rendered, or edited.             *)
IsManaged(p) == rendered.new[p] # Absent \/ (expected[State] = "old" /\ rendered.old[p] # Absent)
DoneInv ==
  /\ phase = "apply" => \A p \in Paths :
       IsManaged(p) => disk[p].is = rendered.new[p] \/ Edit(p) \/ p \in ToSet(todo)
  /\ phase = "apply" /\ Head(todo) = State => "tx" \in disk[Manifest].is
  /\ phase = "done" => /\ saved = "new" /\ "tx" \in disk[Manifest].is
                       /\ \A p \in Paths : IsManaged(p) => disk[p].is \in {rendered.new[p], edit[p]}

(* While nobody edits, each path is as Prepare saw it or as rendered, but for *)
(* the one that is being replaced.                                            *)
OldOf(state, p) == IF state = "old" THEN rendered.old[p]
                   ELSE IF state = "new" THEN rendered.new[p] ELSE Absent
CleanInv ==
  /\ InTx => \A p \in Paths :
       Decision(OldOf(expected[State], p), expected[p], rendered.new[p], overwrite) # "conflict"
  /\ edits = 0 => \A x \in Edited : ~Edit(x)
  /\ InTx /\ edits = 0 /\ ~broken => \A p \in Paths :
       /\ disk[p].is \in {expected[p], rendered.new[p]}
            \/ (disk[p] = Nothing /\ (Installing(p) \/ Restoring(p)))
       /\ Installing(p) => aside.is \in {expected[p], rendered.new[p]}

IInv == /\ TypeInv /\ OrderInv /\ FreshInv /\ OthersWorkSurvives /\ EditSeenInv /\ RivalInv
        /\ UndoInv /\ DoneInv /\ CleanInv /\ RerunIsClean

-----------------------------------------------------------------------------
(* The decision for one path.                                                *)

Carried(old, current, new, force) == Applied(Decision(old, current, new, force), current, new)

(* What the render state tracks, or the templates render, is managed.         *)
Managed(old, new) == old # Absent \/ new # Absent

(* A decision is one of reconcilePath's answers.                               *)
LEMMA DecisionTyping ==
  ASSUME NEW old \in Entries, NEW current \in Entries, NEW new \in Entries,
         NEW force \in BOOLEAN
  PROVE  Decision(old, current, new, force)
           \in {"none", "add", "adopt", "modify", "delete", "conflict"}
<1>1. CASE old = Absent
  BY <1>1 DEF Decision, Untracked
<1>2. CASE old # Absent /\ new = Absent
  BY <1>2 DEF Decision, Dropped
<1>3. CASE old # Absent /\ new # Absent
  BY <1>3 DEF Decision, Tracked
<1> QED BY <1>1, <1>2, <1>3

(* Without --overwrite, a path that holds neither what the last render left   *)
(* nor what this one renders keeps what it holds, no entry included: an       *)
(* update never discards a local edit, nor brings a deleted file back.        *)
THEOREM LocalWorkIsKept ==
  ASSUME NEW old \in Entries, NEW current \in Entries, NEW new \in Entries,
         current \notin {old, new}
  PROVE  /\ Carried(old, current, new, FALSE) = current
         /\ Decision(old, current, new, FALSE) \in {"none", "conflict"}
<1>1. CASE old = Absent
  BY <1>1 DEF Carried, Applied, Decision, Untracked
<1>2. CASE old # Absent /\ new = Absent
  BY <1>2 DEF Carried, Applied, Decision, Dropped
<1>3. CASE old # Absent /\ new # Absent
  <2>1. CASE current = Absent
    BY <1>3, <2>1 DEF Carried, Applied, Decision, Tracked
  <2>2. CASE current # Absent
    BY <1>3, <2>2 DEF Carried, Applied, Decision, Tracked
  <2> QED BY <2>1, <2>2
<1> QED BY <1>1, <1>2, <1>3

(* A decision without a conflict leaves a managed path as rendered.            *)
THEOREM UpdatesConverge ==
  ASSUME NEW old \in Entries, NEW current \in Entries, NEW new \in Entries,
         NEW force \in BOOLEAN,
         Managed(old, new), Decision(old, current, new, force) # "conflict"
  PROVE  Carried(old, current, new, force) = new
<1>1. CASE old = Absent
  BY <1>1 DEF Carried, Applied, Decision, Untracked, Managed
<1>2. CASE old # Absent /\ new = Absent
  <2>1. CASE current = Absent
    BY <1>2, <2>1 DEF Carried, Applied, Decision, Dropped
  <2>2. CASE current # Absent
    BY <1>2, <2>2 DEF Carried, Applied, Decision, Dropped
  <2> QED BY <2>1, <2>2
<1>3. CASE old # Absent /\ new # Absent
  <2>1. CASE current \in {Absent, new}
    BY <1>3, <2>1 DEF Carried, Applied, Decision, Tracked
  <2>2. CASE current \notin {Absent, new}
    BY <1>3, <2>2 DEF Carried, Applied, Decision, Tracked
  <2> QED BY <2>1, <2>2
<1> QED BY <1>1, <1>2, <1>3

(* What is as rendered is never a conflict, whatever the state says of it.    *)
LEMMA RenderedIsNoConflict ==
  ASSUME NEW old \in Entries, NEW new \in Entries, NEW force \in BOOLEAN
  PROVE  Decision(old, new, new, force) \in {"none", "adopt"}
<1>1. CASE old = Absent
  BY <1>1 DEF Decision, Untracked
<1>2. CASE old # Absent /\ new = Absent
  BY <1>2 DEF Decision, Dropped
<1>3. CASE old # Absent /\ new # Absent
  BY <1>3 DEF Decision, Tracked
<1> QED BY <1>1, <1>2, <1>3

(* An update that was killed after it carried a path out can be asked for     *)
(* again, whether the render state still tells of the last render (old) or    *)
(* was lost between its two renames (Absent): nothing is left to do there.    *)
THEOREM RerunsDoNotConflict ==
  ASSUME NEW old \in Entries, NEW current \in Entries, NEW new \in Entries,
         NEW force \in BOOLEAN,
         Managed(old, new), Decision(old, current, new, force) # "conflict"
  PROVE  \A known \in {old, Absent} :
           Decision(known, Carried(old, current, new, force), new, force) \in {"none", "adopt"}
<1>1. Carried(old, current, new, force) = new
  BY UpdatesConverge
<1>2. \A known \in {old, Absent} : Decision(known, new, new, force) \in {"none", "adopt"}
  BY RenderedIsNoConflict DEF Entries
<1> QED BY <1>1, <1>2

-----------------------------------------------------------------------------
(* Sequences: the head leaves, one is put in front.                          *)

LEMMA SeqPops ==
  ASSUME NEW S, NEW s \in Seq(S), s # <<>>
  PROVE  /\ Head(s) \in S /\ Head(s) \in ToSet(s) /\ Tail(s) \in Seq(S)
         /\ ToSet(Tail(s)) \subseteq ToSet(s)
         /\ \A x \in ToSet(s) : x = Head(s) \/ x \in ToSet(Tail(s))
         /\ Len(s) \in Nat \ {0} /\ Head(s) = s[1] /\ (Tail(s) = <<>> <=> Len(s) = 1)
<1> DEFINE t == Tail(s)
<1>1. /\ Head(s) \in S /\ t \in Seq(S) /\ Len(t) = Len(s) - 1
      /\ \A i \in 1..Len(t) : t[i] = s[i + 1]
  BY HeadTailProperties
<1>2. Len(s) \in Nat \ {0} /\ DOMAIN s = 1..Len(s) /\ DOMAIN t = 1..Len(t) /\ Len(t) \in Nat
  BY <1>1, LenProperties, EmptySeq
<1>3. Head(s) = s[1]
  BY <1>2
<1>4. t = <<>> <=> Len(s) = 1
  BY <1>1, <1>2, EmptySeq
<1> HIDE DEF t
<1>5. Head(s) \in ToSet(s)
  BY <1>2, <1>3 DEF ToSet
<1>6. ASSUME NEW x \in ToSet(t) PROVE x \in ToSet(s)
  <2>1. PICK i \in 1..Len(t) : x = t[i]
    BY <1>2, <1>6 DEF ToSet
  <2>2. i + 1 \in 1..Len(s) /\ x = s[i + 1]
    BY <1>1, <1>2, <2>1
  <2> QED BY <1>2, <2>2 DEF ToSet
<1>7. ASSUME NEW x \in ToSet(s), x # Head(s) PROVE x \in ToSet(t)
  <2>1. PICK i \in 1..Len(s) : x = s[i]
    BY <1>2, <1>7 DEF ToSet
  <2>2. i # 1
    BY <1>3, <1>7, <2>1
  <2>3. i - 1 \in 1..Len(t) /\ x = t[i - 1]
    BY <1>1, <1>2, <2>1, <2>2
  <2> QED BY <1>2, <2>3 DEF ToSet
<1> QED BY <1>1, <1>2, <1>3, <1>4, <1>5, <1>6, <1>7 DEF t

LEMMA SeqPushes ==
  ASSUME NEW S, NEW s \in Seq(S), NEW x \in S
  PROVE  /\ <<x>> \o s \in Seq(S) /\ <<x>> \o s # <<>> /\ ToSet(<<x>> \o s) = ToSet(s) \cup {x}
         /\ Head(<<x>> \o s) = x
<1> DEFINE t == <<x>> \o s
<1>1. <<x>> \in Seq(S) /\ Len(<<x>>) = 1 /\ <<x>>[1] = x
  OBVIOUS
<1>2. /\ t \in Seq(S) /\ Len(t) = 1 + Len(s)
      /\ \A i \in 1..(1 + Len(s)) : t[i] = IF i <= 1 THEN <<x>>[i] ELSE s[i - 1]
  BY <1>1, ConcatProperties
<1>3. Len(s) \in Nat /\ DOMAIN s = 1..Len(s) /\ DOMAIN t = 1..Len(t)
  BY <1>2, LenProperties
<1>4. t[1] = x
  BY <1>1, <1>2, <1>3
<1> HIDE DEF t
<1>5. t # <<>> /\ Head(t) = x
  BY <1>2, <1>3, <1>4, EmptySeq
<1>6. ASSUME NEW y \in ToSet(t) PROVE y = x \/ y \in ToSet(s)
  <2>1. PICK i \in 1..Len(t) : y = t[i]
    BY <1>3, <1>6 DEF ToSet
  <2>2. CASE i = 1
    BY <1>4, <2>1, <2>2
  <2>3. CASE i # 1
    <3>1. i - 1 \in 1..Len(s) /\ y = s[i - 1]
      BY <1>2, <1>3, <2>1, <2>3
    <3> QED BY <1>3, <3>1 DEF ToSet
  <2> QED BY <2>2, <2>3
<1>7. x \in ToSet(t)
  BY <1>2, <1>3, <1>4 DEF ToSet
<1>8. ASSUME NEW y \in ToSet(s) PROVE y \in ToSet(t)
  <2>1. PICK i \in 1..Len(s) : y = s[i]
    BY <1>3, <1>8 DEF ToSet
  <2>2. i + 1 \in 1..Len(t) /\ t[i + 1] = y
    BY <1>2, <1>3, <2>1
  <2> QED BY <1>3, <2>2 DEF ToSet
<1> QED BY <1>2, <1>5, <1>6, <1>7, <1>8 DEF t

(* An order's tail is one, and its last two are angee.yaml and the state.     *)
LEMMA OrderedPops ==
  ASSUME NEW s \in Seq(Guarded \cup {State}), s # <<>>, Ordered(s)
  PROVE  /\ Head(s) = State <=> Len(s) = 1
         /\ Ordered(Tail(s))
         /\ Tail(s) # <<>> => (Head(Tail(s)) = State <=> Head(s) = Manifest)
         /\ Head(s) = Manifest => Tail(s) # <<>>
<1> DEFINE t == Tail(s)
<1>1. /\ t \in Seq(Guarded \cup {State}) /\ Len(t) = Len(s) - 1
      /\ \A i \in 1..Len(t) : t[i] = s[i + 1]
      /\ Len(s) \in Nat \ {0} /\ Head(s) = s[1] /\ (t = <<>> <=> Len(s) = 1)
  BY HeadTailProperties, SeqPops
<1>2. t # <<>> => Head(t) = t[1] /\ Len(t) \in Nat \ {0}
  BY <1>1, SeqPops
<1> HIDE DEF t
<1>3. Head(s) = State <=> Len(s) = 1
  BY <1>1 DEF Ordered
<1>4. Head(s) = Manifest <=> Len(s) = 2
  BY <1>1 DEF Ordered
<1>5. ASSUME NEW i \in 1..Len(t) PROVE /\ t[i] = State <=> i = Len(t)
                                       /\ t[i] = Manifest <=> i + 1 = Len(t)
  <2>1. i + 1 \in 1..Len(s) /\ t[i] = s[i + 1]
    BY <1>1, <1>5
  <2> QED BY <1>1, <2>1 DEF Ordered
<1>6. Ordered(t)
  BY <1>5 DEF Ordered
<1>7. t # <<>> => (Head(t) = State <=> Head(s) = Manifest)
  <2> SUFFICES ASSUME t # <<>> PROVE Head(t) = State <=> Head(s) = Manifest
    OBVIOUS
  <2>1. Head(t) = t[1] /\ 1 \in 1..Len(t)
    BY <1>2
  <2>2. t[1] = State <=> 1 = Len(t)
    BY <1>5, <2>1
  <2> QED BY <1>1, <1>4, <2>1, <2>2
<1> QED BY <1>1, <1>3, <1>4, <1>6, <1>7 DEF t

(* An order of a set has all of it, and nothing else.                        *)
LEMMA SeqOfSet ==
  ASSUME NEW S, IsFiniteSet(S), NEW s \in SetToSeqs(S)
  PROVE  s \in Seq(S) /\ ToSet(s) = S
<1> DEFINE D == 1..Cardinality(S)
<1>1. s \in [D -> S] /\ \A i, j \in D : i # j => s[i] # s[j]
  BY DEF SetToSeqs
<1>2. Cardinality(S) \in Nat
  BY FS_CardinalityType
<1>3. s \in Seq(S)
  BY <1>1, <1>2, SeqDef
<1>4. s \in Injection(D, S)
  BY <1>1 DEF Injection, IsInjective
<1>5. Cardinality(D) = Cardinality(S)
  BY <1>2, FS_Interval
<1>6. s \in Surjection(D, S)
  BY <1>4, <1>5, FS_Injection
<1>7. \A x \in S : \E i \in D : s[i] = x
  BY <1>6 DEF Surjection
<1>8. DOMAIN s = D
  BY <1>1
<1> QED BY <1>1, <1>3, <1>7, <1>8 DEF ToSet

(* The update's order: paths in any order, then angee.yaml, then the state.   *)
LEMMA OrderBuilt ==
  ASSUME NEW a \in Seq(Files), NEW b \in Seq(Files)
  PROVE  /\ a \o b \o <<Manifest, State>> \in Seq(Guarded \cup {State})
         /\ a \o b \o <<Manifest, State>> # <<>>
         /\ Ordered(a \o b \o <<Manifest, State>>)
         /\ ToSet(a \o b \o <<Manifest, State>>) = ToSet(a) \cup ToSet(b) \cup {Manifest, State}
<1> DEFINE ab == a \o b
           last == <<Manifest, State>>
           s == ab \o last
           G == Guarded \cup {State}
<1>1. Manifest # State /\ Manifest \notin Files /\ State \notin Files
  BY ReconcileAssumption DEF Manifest, State
<1>2. /\ ab \in Seq(Files) /\ Len(ab) = Len(a) + Len(b)
      /\ \A i \in 1..(Len(a) + Len(b)) : ab[i] = IF i <= Len(a) THEN a[i] ELSE b[i - Len(a)]
  BY ConcatProperties
<1>3. /\ Len(a) \in Nat /\ Len(b) \in Nat /\ DOMAIN a = 1..Len(a) /\ DOMAIN b = 1..Len(b)
      /\ DOMAIN ab = 1..Len(ab)
  BY <1>2, LenProperties
<1> HIDE DEF ab
<1>4. ab \in Seq(G)
  BY <1>2, SeqMonotonic DEF Guarded
<1>5. last \in Seq(G) /\ Len(last) = 2 /\ last[1] = Manifest /\ last[2] = State
  BY DEF Guarded
<1> HIDE DEF last
<1>6. /\ s \in Seq(G) /\ Len(s) = Len(ab) + 2
      /\ \A i \in 1..(Len(ab) + 2) : s[i] = IF i <= Len(ab) THEN ab[i] ELSE last[i - Len(ab)]
  <2>1. /\ s \in Seq(G) /\ Len(s) = Len(ab) + Len(last)
        /\ \A i \in 1..(Len(ab) + Len(last)) : s[i] = IF i <= Len(ab) THEN ab[i] ELSE last[i - Len(ab)]
    BY <1>4, <1>5, ConcatProperties
  <2> HIDE DEF s
  <2> QED BY ONLY <1>5, <2>1
<1>7. DOMAIN s = 1..Len(s)
  BY <1>6, LenProperties
<1> HIDE DEF s
<1>8. \A i \in 1..Len(ab) : s[i] = ab[i] /\ ab[i] \in Files
  BY <1>2, <1>3, <1>6, ElementOfSeq
<1>10. Len(ab) \in Nat
  BY <1>2, <1>3
<1>9. s[Len(ab) + 1] = Manifest /\ s[Len(ab) + 2] = State
  <2>1. s[Len(ab) + 1] = last[Len(ab) + 1 - Len(ab)] /\ s[Len(ab) + 2] = last[Len(ab) + 2 - Len(ab)]
    BY ONLY <1>6, <1>10
  <2>2. Len(ab) + 1 - Len(ab) = 1 /\ Len(ab) + 2 - Len(ab) = 2
    BY ONLY <1>10
  <2> QED BY ONLY <1>5, <2>1, <2>2
<1>11. s # <<>>
  BY <1>6, <1>10, EmptySeq
<1>12. ASSUME NEW i \in 1..Len(s) PROVE /\ s[i] = State <=> i = Len(s)
                                        /\ s[i] = Manifest <=> i + 1 = Len(s)
  <2>1. CASE i <= Len(ab)
    <3>1. s[i] \in Files /\ i # Len(s) /\ i + 1 # Len(s)
      BY <1>6, <1>8, <1>10, <2>1
    <3> QED BY <1>1, <3>1
  <2>2. CASE i = Len(ab) + 1
    BY <1>1, <1>6, <1>9, <1>10, <2>2
  <2>3. CASE i = Len(ab) + 2
    BY <1>1, <1>6, <1>9, <1>10, <2>3
  <2>4. i <= Len(ab) \/ i = Len(ab) + 1 \/ i = Len(ab) + 2
    BY <1>6, <1>10
  <2> QED BY <2>1, <2>2, <2>3, <2>4
<1>13. ToSet(ab) = ToSet(a) \cup ToSet(b)
  <2>1. ASSUME NEW x \in ToSet(ab) PROVE x \in ToSet(a) \cup ToSet(b)
    <3>1. PICK i \in 1..Len(ab) : x = ab[i]
      BY <1>3, <2>1 DEF ToSet
    <3>2. CASE i <= Len(a)
      <4>1. i \in 1..Len(a) /\ x = a[i]
        BY <1>2, <1>3, <3>1, <3>2
      <4> QED BY <1>3, <4>1 DEF ToSet
    <3>3. CASE ~(i <= Len(a))
      <4>1. i - Len(a) \in 1..Len(b) /\ x = b[i - Len(a)]
        BY <1>2, <1>3, <3>1, <3>3
      <4> QED BY <1>3, <4>1 DEF ToSet
    <3> QED BY <3>2, <3>3
  <2>2. ASSUME NEW x \in ToSet(a) PROVE x \in ToSet(ab)
    <3>1. PICK i \in 1..Len(a) : x = a[i]
      BY <1>3, <2>2 DEF ToSet
    <3>2. i \in 1..Len(ab) /\ x = ab[i]
      BY <1>2, <1>3, <3>1
    <3> QED BY <1>3, <3>2 DEF ToSet
  <2>3. ASSUME NEW x \in ToSet(b) PROVE x \in ToSet(ab)
    <3>1. PICK i \in 1..Len(b) : x = b[i]
      BY <1>3, <2>3 DEF ToSet
    <3> DEFINE j == i + Len(a)
    <3>2. j \in 1..(Len(a) + Len(b)) /\ ~(j <= Len(a)) /\ j - Len(a) = i
      BY <1>3, <3>1
    <3> HIDE DEF j
    <3>3. j \in 1..Len(ab) /\ x = ab[j]
      BY <1>2, <3>1, <3>2
    <3> QED BY <1>3, <3>3 DEF ToSet
  <2> QED BY <2>1, <2>2, <2>3
<1>14. ToSet(s) = ToSet(ab) \cup {Manifest, State}
  <2>1. ASSUME NEW x \in ToSet(s) PROVE x \in ToSet(ab) \cup {Manifest, State}
    <3>1. PICK i \in 1..Len(s) : x = s[i]
      BY <1>7, <2>1 DEF ToSet
    <3>2. CASE i <= Len(ab)
      <4>1. i \in 1..Len(ab) /\ x = ab[i]
        BY <1>8, <1>10, <3>1, <3>2
      <4> QED BY <1>3, <4>1 DEF ToSet
    <3>3. CASE i = Len(ab) + 1 \/ i = Len(ab) + 2
      BY <1>9, <3>1, <3>3
    <3> QED BY <1>6, <1>10, <3>2, <3>3
  <2>2. ASSUME NEW x \in ToSet(ab) PROVE x \in ToSet(s)
    <3>1. PICK i \in 1..Len(ab) : x = ab[i]
      BY <1>3, <2>2 DEF ToSet
    <3>2. i \in 1..Len(s) /\ x = s[i]
      BY <1>6, <1>8, <1>10, <3>1
    <3> QED BY <1>7, <3>2 DEF ToSet
  <2>3. Len(ab) + 1 \in 1..Len(s) /\ Len(ab) + 2 \in 1..Len(s)
    BY <1>6, <1>10
  <2> QED BY <1>7, <1>9, <2>1, <2>2, <2>3 DEF ToSet
<1> QED BY <1>6, <1>11, <1>12, <1>13, <1>14 DEF Ordered, ab, last, s

-----------------------------------------------------------------------------
(* What the assumption says of names.                                        *)
LEMMA Names ==
  /\ Manifest # State /\ Manifest \notin Files /\ State \notin Guarded
  /\ Paths \subseteq Files /\ Answers \subseteq Files /\ Files \subseteq Guarded /\ Manifest \in Guarded
  /\ Paths \subseteq Edited /\ Manifest \in Edited /\ Paths \cap Answers = {}
  /\ \A x \in Guarded : x \in Paths \/ x \in Answers \/ x = Manifest
  /\ Absent \notin Content /\ {"v1", "v2", "e1", "e2"} \subseteq Content /\ Absent \notin {"old", "new"}
  BY ReconcileAssumption, AbsentAssumption DEF Manifest, State, Files, Guarded, Edited

(* What the edits write is new.                                              *)
Now == EditName[edits + 1]
LEMMA EditIsNew ==
  ASSUME EditType, edits < MaxEdits, edits' = edits + 1
  PROVE  /\ Now \in {"e1", "e2"} /\ Coming(Now) /\ edits' \in 0..MaxEdits /\ edits' # 0
         /\ \A e \in {"e1", "e2"} : Coming(e)' => Coming(e) /\ e # Now
<1>1. edits = 0 \/ edits = 1
  BY ReconcileAssumption DEF EditType
<1>2. edits = 0 => Now = "e1"
  BY DEF Now, EditName
<1>3. edits = 1 => Now = "e2"
  BY DEF Now, EditName
<1>4. edits' \in 0..MaxEdits /\ edits' # 0
  BY ReconcileAssumption, <1>1 DEF EditType
<1> QED BY <1>1, <1>2, <1>3, <1>4 DEF Coming

-----------------------------------------------------------------------------
(* The steps that move on in what is to do or to undo, said in sets.         *)

Moves ==
  /\ step' = "check" /\ todo' \in Seq(Guarded \cup {State}) /\ ToSet(todo') \subseteq ToSet(todo)
  /\ Head(todo) \in ToSet(todo) /\ \A x \in ToSet(todo) : x = Head(todo) \/ x \in ToSet(todo')
  /\ Head(todo) = State => phase' = "done"
  /\ Head(todo) # State => /\ phase' = "apply" /\ todo' # <<>> /\ Ordered(todo')
                           /\ Head(todo') = State <=> Head(todo) = Manifest
Journals(x) ==
  undo' \in Seq(Guarded) /\ undo' # <<>> /\ ToSet(undo') = ToSet(undo) \cup {x}
Unwinds ==
  /\ step' = "undo" /\ undo' \in Seq(Guarded) /\ ToSet(undo') \subseteq ToSet(undo)
  /\ \A x \in ToSet(undo) : x = Head(undo) \/ x \in ToSet(undo')

LEMMA AdvanceMoves ==
  ASSUME TypeInv, OrderInv, phase = "apply", Advance PROVE Moves
<1>1. todo \in Seq(Guarded \cup {State}) /\ todo # <<>> /\ Ordered(todo)
  BY DEF TypeInv, SeqType, PlaceType, OrderInv
<1>2. /\ Head(todo) \in ToSet(todo) /\ Tail(todo) \in Seq(Guarded \cup {State})
      /\ ToSet(Tail(todo)) \subseteq ToSet(todo)
      /\ \A x \in ToSet(todo) : x = Head(todo) \/ x \in ToSet(Tail(todo))
      /\ (Tail(todo) = <<>> <=> Len(todo) = 1)
  BY ONLY <1>1, SeqPops
<1>3. /\ Head(todo) = State <=> Len(todo) = 1
      /\ Ordered(Tail(todo))
      /\ Tail(todo) # <<>> => (Head(Tail(todo)) = State <=> Head(todo) = Manifest)
  BY <1>1, OrderedPops
<1> QED BY ONLY <1>2, <1>3, Advance, phase = "apply" DEF Advance, Moves

LEMMA StateIsLast ==
  ASSUME TypeInv, OrderInv, phase = "apply", Head(todo) = State PROVE ToSet(todo) = {State}
<1>1. todo \in Seq(Guarded \cup {State}) /\ todo # <<>> /\ Ordered(todo)
  BY DEF TypeInv, SeqType, PlaceType, OrderInv
<1>2. Head(todo) = todo[1] /\ Len(todo) = 1 /\ DOMAIN todo = 1..1
  BY <1>1, SeqPops, OrderedPops, LenProperties
<1> QED BY <1>2 DEF ToSet

LEMMA UndoneUnwinds ==
  ASSUME SeqType, undo # <<>>, Undone PROVE Unwinds
<1>1. /\ Tail(undo) \in Seq(Guarded) /\ ToSet(Tail(undo)) \subseteq ToSet(undo)
      /\ \A x \in ToSet(undo) : x = Head(undo) \/ x \in ToSet(Tail(undo))
  BY SeqPops DEF SeqType
<1> QED BY ONLY <1>1, Undone DEF Undone, Unwinds

LEMMA CheckFileDoes ==
  ASSUME TypeInv, OrderInv, NEW x \in Files, CheckFile(x)
  PROVE  /\ phase = "apply" /\ step = "check" /\ Head(todo) = x /\ todo # <<>> /\ x \in ToSet(todo)
         /\ x \in Paths => disk[x].is = expected[x]
         /\ guard' = [guard EXCEPT ![x] = disk[x].ino] /\ before' = [before EXCEPT ![x] = disk[x]]
         /\ Journals(x) /\ step' = "aside"
         /\ UNCHANGED <<options, disk, saved, phase, todo, expected, aside, broken, edit, edits, runs>>
<1>1. x \in Guarded /\ undo \in Seq(Guarded) /\ todo \in Seq(Guarded \cup {State}) /\ todo # <<>>
  BY Names DEF CheckFile, TypeInv, SeqType, PlaceType
<1>2. /\ <<x>> \o undo \in Seq(Guarded) /\ <<x>> \o undo # <<>>
      /\ ToSet(<<x>> \o undo) = ToSet(undo) \cup {x}
  BY ONLY <1>1, SeqPushes
<1>3. Head(todo) \in ToSet(todo)
  BY ONLY <1>1, SeqPops
<1> QED BY <1>1, <1>2, <1>3 DEF CheckFile, Journals

LEMMA SetAsideDoes ==
  ASSUME TypeInv, OrderInv, NEW x \in Guarded, SetAside(x)
  PROVE  /\ phase = "apply" /\ step = "aside" /\ Head(todo) = x /\ todo # <<>> /\ x \in ToSet(todo)
         /\ disk[x].ino = guard[x] /\ disk' = [disk EXCEPT ![x] = Nothing]
         /\ \/ /\ x \in Paths /\ rendered.new[x] = Absent
               /\ guard' = [guard EXCEPT ![x] = "none"] /\ UNCHANGED aside
               /\ Moves /\ Head(todo) # State
            \/ /\ x \in Paths => rendered.new[x] # Absent
               /\ step' = "install" /\ aside' = disk[x] /\ UNCHANGED <<guard, todo, phase>>
         /\ UNCHANGED <<options, saved, expected, before, undo, broken, edit, edits, runs>>
<1>1. phase = "apply" /\ todo \in Seq(Guarded \cup {State}) /\ todo # <<>>
  BY DEF SetAside, TypeInv, SeqType, PlaceType
<1>2. Head(todo) \in ToSet(todo)
  BY ONLY <1>1, SeqPops
<1>3. Advance => Moves
  BY <1>1, AdvanceMoves
<1>4. Head(todo) = x /\ x # State
  BY Names DEF SetAside
<1> QED BY ONLY <1>1, <1>2, <1>3, <1>4, SetAside(x) DEF SetAside

LEMMA InstallDoes ==
  ASSUME TypeInv, OrderInv, NEW x \in Guarded, Install(x)
  PROVE  /\ phase = "apply" /\ step = "install" /\ Head(todo) = x /\ todo # <<>> /\ x \in ToSet(todo)
         /\ disk' = [disk EXCEPT ![x] = Entry(Rendering(x), "tx")]
         /\ guard' = [guard EXCEPT ![x] = "tx"] /\ aside' = Nothing
         /\ IF x = Manifest THEN Journals(x) ELSE UNCHANGED undo
         /\ Moves /\ Head(todo) # State
         /\ UNCHANGED <<options, saved, expected, before, broken, edit, edits, runs>>
<1>1. /\ phase = "apply" /\ todo \in Seq(Guarded \cup {State}) /\ todo # <<>>
      /\ undo \in Seq(Guarded)
  BY DEF Install, TypeInv, SeqType, PlaceType
<1>2. Head(todo) \in ToSet(todo)
  BY ONLY <1>1, SeqPops
<1>3. Moves
  BY <1>1, AdvanceMoves DEF Install
<1>4. Head(todo) = x /\ x # State
  BY Names DEF Install
<1>5. /\ <<x>> \o undo \in Seq(Guarded) /\ <<x>> \o undo # <<>>
      /\ ToSet(<<x>> \o undo) = ToSet(undo) \cup {x}
  BY ONLY <1>1, SeqPushes, x \in Guarded
<1> QED BY ONLY <1>1, <1>2, <1>3, <1>4, <1>5, Install(x) DEF Install, Journals

LEMMA InstallStateDoes ==
  ASSUME TypeInv, OrderInv, InstallState
  PROVE  /\ phase = "apply" /\ step = "install" /\ Head(todo) = State
         /\ saved' = "new" /\ aside' = Nothing /\ Moves
         /\ UNCHANGED <<options, disk, expected, guard, before, undo, broken, edit, edits, runs>>
<1>1. Moves
  BY AdvanceMoves DEF InstallState
<1> QED BY ONLY <1>1, InstallState DEF InstallState

LEMMA UndoRemoveDoes ==
  ASSUME TypeInv, NEW x \in Guarded, UndoRemove(x) PROVE x \in ToSet(undo)
  BY SeqPops DEF TypeInv, SeqType, UndoRemove

LEMMA UndoRestoreDoes ==
  ASSUME TypeInv, OrderInv, NEW x \in Guarded, UndoRestore(x)
  PROVE  /\ phase = "rollback" /\ step = "restore" /\ Head(undo) = x /\ x \in ToSet(undo) /\ undo # <<>>
         /\ Backup(x) # Nothing => disk[x].ino = guard[x]
         /\ IF Backup(x) = Nothing THEN UNCHANGED <<disk, guard>>
            ELSE disk' = [disk EXCEPT ![x] = Backup(x)] /\ guard' = [guard EXCEPT ![x] = "tx"]
         /\ Unwinds
         /\ UNCHANGED <<options, saved, phase, todo, expected, aside, before, broken, edit, edits, runs>>
<1>1. undo \in Seq(Guarded) /\ undo # <<>>
  BY DEF UndoRestore, TypeInv, SeqType, PlaceType
<1>2. Unwinds
  BY <1>1, UndoneUnwinds DEF UndoRestore, TypeInv
<1>3. Head(undo) \in ToSet(undo)
  BY ONLY <1>1, SeqPops
<1> QED BY ONLY <1>1, <1>2, <1>3, UndoRestore(x) DEF UndoRestore

LEMMA UndoFailsDoes ==
  ASSUME TypeInv, OrderInv, NEW x \in Guarded, UndoFails(x)
  PROVE  /\ phase = "rollback" /\ Head(undo) = x /\ x \in ToSet(undo) /\ undo # <<>> /\ broken' = TRUE
         /\ \/ step = "undo" /\ x \in Files /\ step' = "restore" /\ UNCHANGED undo
            \/ ~(step = "undo" /\ x \in Files) /\ Unwinds
         /\ IF step = "restore" /\ x = Manifest
            THEN /\ disk' = [disk EXCEPT ![x] = Entry(expected[x] \cup {"tx"}, "tx")]
                 /\ guard' = [guard EXCEPT ![x] = "tx"]
            ELSE UNCHANGED <<disk, guard>>
         /\ UNCHANGED <<options, saved, phase, todo, expected, aside, before, edit, edits, runs>>
<1>1. undo \in Seq(Guarded) /\ undo # <<>>
  BY DEF UndoFails, TypeInv, SeqType
<1>2. Undone => Unwinds
  BY <1>1, UndoneUnwinds DEF TypeInv
<1>3. Head(undo) \in ToSet(undo)
  BY ONLY <1>1, SeqPops
<1> QED BY ONLY <1>1, <1>2, <1>3, UndoFails(x) DEF UndoFails

LEMMA PrepareDoes ==
  ASSUME TypeInv, OrderInv, Prepare
  PROVE  /\ phase = "idle" /\ disk[Manifest] # Nothing /\ Conflicts = {}
         /\ todo' \in Seq(Guarded \cup {State}) /\ todo' # <<>> /\ Ordered(todo')
         /\ \A p \in Paths : p \in ToSet(todo') <=> p \in Deletes \cup Installs
         /\ Head(todo') # State
         /\ phase' = "apply" /\ step' = "check"
         /\ expected' = [x \in Edited \cup {State} |-> IF x = State THEN saved ELSE disk[x].is]
         /\ guard' = [guard EXCEPT ![Manifest] = disk[Manifest].ino]
         /\ edit' = IF overwrite THEN [x \in Edited |-> IF x = Manifest THEN edit[x] ELSE Absent] ELSE edit
         /\ UNCHANGED <<options, disk, saved, aside, before, undo, broken, edits, runs>>
         /\ ToSet(undo) = {}
<1>1. PICK first \in SetToSeqs(Deletes), then \in SetToSeqs(Installs \cup Answers) :
        Ready(first \o then \o <<Manifest, State>>)
  BY DEF Prepare
<1>2. Deletes \subseteq Files /\ (Installs \cup Answers) \subseteq Files /\ Installs \cap Answers = {}
      /\ Deletes \cap Answers = {} /\ Deletes \subseteq Paths /\ Installs \subseteq Paths
  BY Names DEF Deletes, Installs
<1>3. IsFiniteSet(Deletes) /\ IsFiniteSet(Installs \cup Answers)
  BY <1>2, ReconcileAssumption, FS_Subset
<1>4. /\ first \in Seq(Deletes) /\ ToSet(first) = Deletes
      /\ then \in Seq(Installs \cup Answers) /\ ToSet(then) = Installs \cup Answers
  BY <1>1, <1>3, SeqOfSet
<1>5. first \in Seq(Files) /\ then \in Seq(Files)
  BY <1>2, <1>4, SeqMonotonic
<1> DEFINE order == first \o then \o <<Manifest, State>>
<1>6. /\ order \in Seq(Guarded \cup {State}) /\ order # <<>> /\ Ordered(order)
      /\ ToSet(order) = ToSet(first) \cup ToSet(then) \cup {Manifest, State}
  BY <1>5, OrderBuilt
<1>7. Ready(order)
  BY <1>1
<1> HIDE DEF order
<1>8. Head(order) # State
  <2>1. Len(order) = 1 => order[1] = State /\ Manifest = State
    <3>1. ASSUME Len(order) = 1, NEW x \in ToSet(order) PROVE x = order[1]
      <4>1. DOMAIN order = 1..1
        BY <1>6, <3>1, LenProperties
      <4> QED BY <3>1, <4>1 DEF ToSet
    <3>2. Manifest \in ToSet(order) /\ State \in ToSet(order)
      BY <1>6
    <3> QED BY <3>1, <3>2
  <2>2. Head(order) = State <=> Len(order) = 1
    BY <1>6, OrderedPops
  <2> QED BY <2>1, <2>2, Names
<1>9. ToSet(undo) = {}
  BY <1>7 DEF Ready, OrderInv, ToSet
<1>10. \A p \in Paths : p \in ToSet(order) <=> p \in Deletes \cup Installs
  BY <1>2, <1>4, <1>6, Names
<1> QED BY ONLY <1>6, <1>7, <1>8, <1>9, <1>10 DEF Ready

-----------------------------------------------------------------------------
(* The same of what is at each path, in angee.yaml and in the guards.        *)

AloneAt(x) ==
  /\ \A p \in Paths : p # x => disk'[p] = disk[p] /\ guard'[p] = guard[p]
  /\ x # Manifest => disk'[Manifest] = disk[Manifest] /\ guard'[Manifest] = guard[Manifest]
Holds(x, content, inode) == disk'[x].is = content /\ disk'[x].ino = inode
Written(p) ==
  /\ edits' # 0 /\ Now \in {"e1", "e2"} /\ Coming(Now) /\ Now # Absent
  /\ \A e \in {"e1", "e2"} : Coming(e)' => Coming(e) /\ e # Now
  /\ edit'[p] = Now /\ disk'[p].is = Now
  /\ edit'[Manifest] = edit[Manifest] /\ \A q \in Paths : q # p => edit'[q] = edit[q]
  /\ UNCHANGED <<options, saved, phase, step, todo, expected, guard, aside, before, undo, broken, runs>>

LEMMA ReplaceChanges ==
  ASSUME DiskType, EditType, NEW p \in Paths, Replace(p)
  PROVE  Written(p) /\ disk'[p].ino = Now /\ AloneAt(p) /\ ~BetweenRenames(p)
<1>1. /\ Now \in {"e1", "e2"} /\ Coming(Now) /\ edits' # 0
      /\ \A e \in {"e1", "e2"} : Coming(e)' => Coming(e) /\ e # Now
  BY EditIsNew DEF Replace
<1>2. /\ disk' = [disk EXCEPT ![p] = Entry(Now, Now)] /\ edit' = [edit EXCEPT ![p] = Now]
      /\ UNCHANGED <<options, saved, phase, step, todo, expected, guard, aside, before, undo, broken, runs>>
      /\ ~BetweenRenames(p)
  BY DEF Replace, Now, txVars
<1>3. disk'[p].is = Now /\ disk'[p].ino = Now /\ edit'[p] = Now
  BY <1>2, Names DEF DiskType, EditType, Entry
<1>4. AloneAt(p)
  BY <1>2, Names DEF AloneAt, DiskType
<1>5. edit'[Manifest] = edit[Manifest] /\ \A q \in Paths : q # p => edit'[q] = edit[q]
  BY <1>2, Names DEF EditType
<1>6. Now # Absent
  BY <1>1, Names
<1> QED BY <1>1, <1>2, <1>3, <1>4, <1>5, <1>6 DEF Written

LEMMA WriteInPlaceChanges ==
  ASSUME DiskType, EditType, NEW p \in Paths, WriteInPlace(p)
  PROVE  Written(p) /\ disk'[p].ino = disk[p].ino /\ AloneAt(p) /\ ~BetweenRenames(p) /\ ~Journaled(p)
<1>1. /\ Now \in {"e1", "e2"} /\ Coming(Now) /\ edits' # 0
      /\ \A e \in {"e1", "e2"} : Coming(e)' => Coming(e) /\ e # Now
  BY EditIsNew DEF WriteInPlace
<1>2. /\ disk' = [disk EXCEPT ![p].is = Now] /\ edit' = [edit EXCEPT ![p] = Now]
      /\ UNCHANGED <<options, saved, phase, step, todo, expected, guard, aside, before, undo, broken, runs>>
      /\ ~BetweenRenames(p) /\ ~Journaled(p) /\ disk[p] # Nothing
  BY DEF WriteInPlace, Now, txVars
<1>3. disk[p] \in [is : Content, ino : Inodes]
  BY <1>2, Names DEF DiskType, FileEntries
<1>4. disk'[p].is = Now /\ disk'[p].ino = disk[p].ino
  BY <1>2, <1>3, Names DEF DiskType
<1>5. AloneAt(p)
  BY <1>2, Names DEF AloneAt, DiskType
<1>6. /\ edit'[Manifest] = edit[Manifest] /\ \A q \in Paths : q # p => edit'[q] = edit[q]
      /\ edit'[p] = Now
  BY <1>2, Names DEF EditType
<1>7. Now # Absent
  BY <1>1, Names
<1> QED BY <1>1, <1>2, <1>4, <1>5, <1>6, <1>7 DEF Written

LEMMA RivalSavesChanges ==
  ASSUME DiskType, EditType, RivalSaves
  PROVE  /\ Holds(Manifest, disk[Manifest].is \cup {"rival"}, "rival") /\ AloneAt(Manifest)
         /\ edits' # 0 /\ \A e \in {"e1", "e2"} : Coming(e)' => Coming(e)
         /\ edit'[Manifest] = "rival" /\ \A p \in Paths : edit'[p] = edit[p]
         /\ "rival" \notin disk[Manifest].is /\ disk[Manifest] # Nothing /\ ~BetweenRenames(Manifest)
         /\ UNCHANGED <<options, saved, phase, step, todo, expected, guard, aside, before, undo, broken, runs>>
<1>1. edits' # 0 /\ \A e \in {"e1", "e2"} : Coming(e)' => Coming(e)
  BY EditIsNew DEF RivalSaves
<1>2. disk' = [disk EXCEPT ![Manifest] = Entry(disk[Manifest].is \cup {"rival"}, "rival")]
  BY DEF RivalSaves
<1>3. Holds(Manifest, disk[Manifest].is \cup {"rival"}, "rival")
  BY <1>2, Names DEF DiskType, Holds, Entry
<1>4. \A y \in Guarded \ {Manifest} : disk'[y] = disk[y]
  BY <1>2 DEF DiskType
<1> QED BY <1>1, <1>3, <1>4, Names DEF RivalSaves, AloneAt, EditType, txVars

LEMMA SetAsideChanges ==
  ASSUME TypeInv, OrderInv, NEW x \in Guarded, SetAside(x)
  PROVE  Holds(x, Absent, "none") /\ disk'[x] = Nothing /\ AloneAt(x) /\ guard'[x] \in {guard[x], "none"}
<1>1. /\ disk' = [disk EXCEPT ![x] = Nothing] /\ (guard' = guard \/ guard' = [guard EXCEPT ![x] = "none"])
  BY SetAsideDoes
<1>2. DiskType /\ SeenType
  BY DEF TypeInv
<1> QED BY <1>1, <1>2, Names DEF DiskType, SeenType, AloneAt, Holds, Nothing

LEMMA InstallChanges ==
  ASSUME TypeInv, OrderInv, NEW x \in Guarded, Install(x)
  PROVE  Holds(x, Rendering(x), "tx") /\ AloneAt(x) /\ guard'[x] = "tx"
<1>1. /\ disk' = [disk EXCEPT ![x] = Entry(Rendering(x), "tx")] /\ guard' = [guard EXCEPT ![x] = "tx"]
  BY InstallDoes
<1>2. DiskType /\ SeenType
  BY DEF TypeInv
<1> QED BY <1>1, <1>2, Names DEF DiskType, SeenType, AloneAt, Holds, Entry

LEMMA FailChanges ==
  ASSUME DiskType, Fail
  PROVE  /\ phase = "apply" /\ phase' = "rollback" /\ step' = "undo" /\ aside' = Nothing
         /\ \A y \in Guarded : disk'[y] = IF Installing(y) THEN aside ELSE disk[y]
         /\ saved' = IF Installing(State) THEN aside.is ELSE saved
         /\ UNCHANGED <<options, expected, guard, before, undo, broken, edit, edits, runs>>
<1>1. CASE step = "install" /\ Head(todo) \in Guarded
  BY <1>1, Names DEF Fail, DiskType, Installing
<1>2. CASE step = "install" /\ Head(todo) \notin Guarded
  BY <1>2, Names DEF Fail, DiskType, Installing
<1>3. CASE step # "install"
  BY <1>3, Names DEF Fail, DiskType, Installing
<1> QED BY <1>1, <1>2, <1>3

LEMMA UndoRemoveChanges ==
  ASSUME TypeInv, NEW x \in Guarded, UndoRemove(x)
  PROVE  /\ phase = "rollback" /\ step = "undo" /\ Head(undo) = x /\ x \in ToSet(undo) /\ undo # <<>>
         /\ disk[x].ino = guard[x] /\ disk'[x] = Nothing /\ Holds(x, Absent, "none") /\ guard'[x] = "none"
         /\ AloneAt(x) /\ step' = "restore"
         /\ UNCHANGED <<options, saved, phase, todo, expected, aside, before, undo, broken, edit, edits, runs>>
  BY UndoRemoveDoes, Names DEF UndoRemove, TypeInv, DiskType, SeenType, AloneAt, Holds, Nothing

LEMMA UndoRestoreChanges ==
  ASSUME TypeInv, OrderInv, NEW x \in Guarded, UndoRestore(x)
  PROVE  /\ AloneAt(x)
         /\ IF x \in Files /\ before[x] = Nothing THEN disk'[x] = disk[x] /\ guard'[x] = guard[x]
            ELSE /\ disk[x].ino = guard[x] /\ guard'[x] = "tx"
                 /\ Holds(x, IF x = Manifest THEN expected[x] ELSE before[x].is, "tx")
<1>1. /\ Backup(x) # Nothing => disk[x].ino = guard[x]
      /\ IF Backup(x) = Nothing THEN UNCHANGED <<disk, guard>>
         ELSE disk' = [disk EXCEPT ![x] = Backup(x)] /\ guard' = [guard EXCEPT ![x] = "tx"]
  BY UndoRestoreDoes
<1>2. DiskType /\ SeenType
  BY DEF TypeInv
<1>3. CASE x \in Files /\ before[x] = Nothing
  BY <1>1, <1>3, Names DEF Backup, AloneAt
<1>4. CASE ~(x \in Files /\ before[x] = Nothing)
  <2>1. /\ Backup(x).ino = "tx" /\ Backup(x) # Nothing
        /\ Backup(x).is = IF x = Manifest THEN expected[x] ELSE before[x].is
    BY <1>4, Names DEF Backup, Entry, Nothing
  <2>2. disk' = [disk EXCEPT ![x] = Backup(x)] /\ guard' = [guard EXCEPT ![x] = "tx"]
        /\ disk[x].ino = guard[x]
    BY <1>1, <2>1
  <2> QED BY <1>2, <1>4, <2>1, <2>2, Names DEF DiskType, SeenType, AloneAt, Holds
<1> QED BY <1>3, <1>4

LEMMA UndoFailsChanges ==
  ASSUME TypeInv, OrderInv, NEW x \in Guarded, UndoFails(x)
  PROVE  /\ AloneAt(Manifest)
         /\ IF step = "restore" /\ x = Manifest
            THEN Holds(Manifest, expected[Manifest] \cup {"tx"}, "tx") /\ guard'[Manifest] = "tx"
            ELSE disk'[Manifest] = disk[Manifest] /\ guard'[Manifest] = guard[Manifest]
<1>1. DiskType /\ SeenType /\ Manifest \in Guarded
  BY Names DEF TypeInv
<1>2. CASE step = "restore" /\ x = Manifest
  <2>1. /\ disk' = [disk EXCEPT ![Manifest] = Entry(expected[Manifest] \cup {"tx"}, "tx")]
        /\ guard' = [guard EXCEPT ![Manifest] = "tx"]
    BY <1>2, UndoFailsDoes
  <2> QED BY <1>1, <1>2, <2>1, Names DEF DiskType, SeenType, AloneAt, Holds, Entry
<1>3. CASE ~(step = "restore" /\ x = Manifest)
  BY <1>3, UndoFailsDoes DEF AloneAt
<1> QED BY <1>2, <1>3

LEMMA PrepareChanges ==
  ASSUME TypeInv, OrderInv, Prepare
  PROVE  /\ \A p \in Paths : expected'[p] = disk[p].is
         /\ expected'[Manifest] = disk[Manifest].is /\ expected'[State] = saved
         /\ \A p \in Paths : guard'[p] = guard[p]
         /\ guard'[Manifest] = disk[Manifest].ino
         /\ edit'[Manifest] = edit[Manifest]
         /\ \A p \in Paths : edit'[p] = IF overwrite THEN Absent ELSE edit[p]
<1>1. /\ expected' = [x \in Edited \cup {State} |-> IF x = State THEN saved ELSE disk[x].is]
      /\ guard' = [guard EXCEPT ![Manifest] = disk[Manifest].ino]
      /\ edit' = IF overwrite THEN [x \in Edited |-> IF x = Manifest THEN edit[x] ELSE Absent] ELSE edit
  BY PrepareDoes
<1>2. SeenType /\ EditType
  BY DEF TypeInv
<1>3. \A p \in Paths : p # State /\ p # Manifest /\ p \in Guarded /\ p \in Edited
  BY Names
<1> QED BY <1>1, <1>2, <1>3, Names DEF SeenType, EditType

LEMMA CheckFileChanges ==
  ASSUME TypeInv, OrderInv, NEW x \in Files, CheckFile(x)
  PROVE  /\ guard'[x] = disk[x].ino /\ \A p \in Paths : p # x => guard'[p] = guard[p]
         /\ guard'[Manifest] = guard[Manifest]
         /\ before'[x] = disk[x] /\ \A p \in Paths : p # x => before'[p] = before[p]
  BY CheckFileDoes, Names DEF TypeInv, SeenType, BackupType

-----------------------------------------------------------------------------
(* Every step preserves every part.  First the types.                        *)

LEMMA PlaceStep ==
  ASSUME TypeInv, OrderInv, [Next]_vars
  PROVE  PlaceType'
<1>0. PlaceType
  BY DEF TypeInv
<1>1. ASSUME NEW p \in Paths, Replace(p) PROVE PlaceType'
  BY <1>0, <1>1, Names, EditIsNew
     DEF PlaceType, Ended, Replace, options, txVars, Now
<1>2. ASSUME NEW p \in Paths, WriteInPlace(p) PROVE PlaceType'
  BY <1>0, <1>2, Names, EditIsNew
     DEF PlaceType, Ended, WriteInPlace, options, txVars, Now
<1>3. CASE RivalSaves
  BY <1>0, <1>3, Names, EditIsNew
     DEF PlaceType, Ended, RivalSaves, options, txVars
<1>4. CASE Refuse
  BY <1>0, <1>4, Names
     DEF PlaceType, Ended, Refuse, options, txVars
<1>5. CASE Prepare
  BY <1>0, <1>5, Names, PrepareDoes
     DEF PlaceType, Ended, options, Moves, Journals, Unwinds
<1>6. ASSUME NEW x \in Files, CheckFile(x) PROVE PlaceType'
  BY <1>0, <1>6, Names, CheckFileDoes
     DEF PlaceType, Ended, options, Moves, Journals, Unwinds
<1>7. ASSUME NEW x \in Guarded, SetAside(x) PROVE PlaceType'
  BY <1>0, <1>7, Names, SetAsideDoes
     DEF PlaceType, Ended, options, Moves, Journals, Unwinds
<1>8. ASSUME NEW x \in Guarded, Install(x) PROVE PlaceType'
  BY <1>0, <1>8, Names, InstallDoes
     DEF PlaceType, Ended, options, Moves, Journals, Unwinds
<1>9. CASE CheckManifest
  BY <1>0, <1>9, Names
     DEF PlaceType, Ended, CheckManifest, options, txVars
<1>10. CASE SetStateAside
  BY <1>0, <1>10, Names
     DEF PlaceType, Ended, SetStateAside, options, txVars
<1>11. CASE InstallState
  BY <1>0, <1>11, Names, InstallStateDoes
     DEF PlaceType, Ended, options, Moves, Journals, Unwinds
<1>12. CASE Fail
  BY <1>0, <1>12, Names
     DEF PlaceType, Ended, Fail, options, txVars
<1>13. CASE RolledBack
  BY <1>0, <1>13, Names
     DEF PlaceType, Ended, RolledBack, options, txVars
<1>14. ASSUME NEW x \in Guarded, UndoRemove(x) PROVE PlaceType'
  BY <1>0, <1>14, Names, UndoRemoveDoes
     DEF PlaceType, Ended, UndoRemove, options, txVars
<1>15. ASSUME NEW x \in Guarded, UndoRestore(x) PROVE PlaceType'
  BY <1>0, <1>15, Names, UndoRestoreDoes
     DEF PlaceType, Ended, options, Moves, Journals, Unwinds
<1>16. ASSUME NEW x \in Guarded, UndoFails(x) PROVE PlaceType'
  BY <1>0, <1>16, Names, UndoFailsDoes
     DEF PlaceType, Ended, options, Moves, Journals, Unwinds
<1>17. CASE Kill
  BY <1>0, <1>17, Names
     DEF PlaceType, Ended, Kill, options, txVars
<1>18. CASE Rerun
  BY <1>0, <1>18, Names
     DEF PlaceType, Ended, Rerun, options, txVars
<1>19. CASE UNCHANGED vars
  BY <1>19, <1>0 DEF PlaceType, Ended, vars, options, txVars
<1> QED BY ONLY [Next]_vars, <1>1, <1>2, <1>3, <1>4, <1>5, <1>6, <1>7, <1>8, <1>9, <1>10, <1>11, <1>12, <1>13, <1>14, <1>15, <1>16, <1>17, <1>18, <1>19
           DEF Next, Others, Applies, Undoes

LEMMA SeqStep ==
  ASSUME TypeInv, OrderInv, [Next]_vars
  PROVE  SeqType'
<1>0. SeqType
  BY DEF TypeInv
<1>1. ASSUME NEW p \in Paths, Replace(p) PROVE SeqType'
  BY <1>0, <1>1, Names, EditIsNew
     DEF SeqType, Replace, options, txVars, Now
<1>2. ASSUME NEW p \in Paths, WriteInPlace(p) PROVE SeqType'
  BY <1>0, <1>2, Names, EditIsNew
     DEF SeqType, WriteInPlace, options, txVars, Now
<1>3. CASE RivalSaves
  BY <1>0, <1>3, Names, EditIsNew
     DEF SeqType, RivalSaves, options, txVars
<1>4. CASE Refuse
  BY <1>0, <1>4, Names
     DEF SeqType, Refuse, options, txVars
<1>5. CASE Prepare
  BY <1>0, <1>5, Names, PrepareDoes
     DEF SeqType, options, Moves, Journals, Unwinds
<1>6. ASSUME NEW x \in Files, CheckFile(x) PROVE SeqType'
  BY <1>0, <1>6, Names, CheckFileDoes
     DEF SeqType, options, Moves, Journals, Unwinds
<1>7. ASSUME NEW x \in Guarded, SetAside(x) PROVE SeqType'
  BY <1>0, <1>7, Names, SetAsideDoes
     DEF SeqType, options, Moves, Journals, Unwinds
<1>8. ASSUME NEW x \in Guarded, Install(x) PROVE SeqType'
  BY <1>0, <1>8, Names, InstallDoes
     DEF SeqType, options, Moves, Journals, Unwinds
<1>9. CASE CheckManifest
  BY <1>0, <1>9, Names
     DEF SeqType, CheckManifest, options, txVars
<1>10. CASE SetStateAside
  BY <1>0, <1>10, Names
     DEF SeqType, SetStateAside, options, txVars
<1>11. CASE InstallState
  BY <1>0, <1>11, Names, InstallStateDoes
     DEF SeqType, options, Moves, Journals, Unwinds
<1>12. CASE Fail
  BY <1>0, <1>12, Names
     DEF SeqType, Fail, options, txVars
<1>13. CASE RolledBack
  BY <1>0, <1>13, Names
     DEF SeqType, RolledBack, options, txVars
<1>14. ASSUME NEW x \in Guarded, UndoRemove(x) PROVE SeqType'
  BY <1>0, <1>14, Names, UndoRemoveDoes
     DEF SeqType, UndoRemove, options, txVars
<1>15. ASSUME NEW x \in Guarded, UndoRestore(x) PROVE SeqType'
  BY <1>0, <1>15, Names, UndoRestoreDoes
     DEF SeqType, options, Moves, Journals, Unwinds
<1>16. ASSUME NEW x \in Guarded, UndoFails(x) PROVE SeqType'
  BY <1>0, <1>16, Names, UndoFailsDoes
     DEF SeqType, options, Moves, Journals, Unwinds
<1>17. CASE Kill
  BY <1>0, <1>17, Names
     DEF SeqType, Kill, options, txVars
<1>18. CASE Rerun
  BY <1>0, <1>18, Names
     DEF SeqType, Rerun, options, txVars
<1>19. CASE UNCHANGED vars
  BY <1>19, <1>0 DEF SeqType, vars, options, txVars
<1> QED BY ONLY [Next]_vars, <1>1, <1>2, <1>3, <1>4, <1>5, <1>6, <1>7, <1>8, <1>9, <1>10, <1>11, <1>12, <1>13, <1>14, <1>15, <1>16, <1>17, <1>18, <1>19
           DEF Next, Others, Applies, Undoes

LEMMA DiskStep ==
  ASSUME TypeInv, OrderInv, [Next]_vars
  PROVE  DiskType'
<1>0. DiskType /\ SeenType /\ AsideType /\ BackupType /\ RenderType /\ PlaceType /\ EditType
  BY DEF TypeInv
<1>1. ASSUME NEW p \in Paths, Replace(p) PROVE DiskType'
  BY <1>0, <1>1, Names, EditIsNew
     DEF DiskType, SeenType, AsideType, BackupType, RenderType, PlaceType, EditType, FileEntries, ManifestEntries, Inodes, Entry, Nothing, Replace, options, txVars, Now
<1>2. ASSUME NEW p \in Paths, WriteInPlace(p) PROVE DiskType'
  BY <1>0, <1>2, Names, EditIsNew
     DEF DiskType, SeenType, AsideType, BackupType, RenderType, PlaceType, EditType, FileEntries, ManifestEntries, Inodes, Entry, Nothing, WriteInPlace, options, txVars, Now
<1>3. CASE RivalSaves
  BY <1>0, <1>3, Names, EditIsNew
     DEF DiskType, SeenType, AsideType, BackupType, RenderType, PlaceType, EditType, FileEntries, ManifestEntries, Inodes, Entry, Nothing, RivalSaves, options, txVars
<1>4. CASE Refuse
  BY <1>0, <1>4, Names
     DEF DiskType, SeenType, AsideType, BackupType, RenderType, PlaceType, EditType, FileEntries, ManifestEntries, Inodes, Entry, Nothing, Refuse, options, txVars
<1>5. CASE Prepare
  BY <1>0, <1>5, Names, PrepareDoes
     DEF DiskType, SeenType, AsideType, BackupType, RenderType, PlaceType, EditType, FileEntries, ManifestEntries, Inodes, Entry, Nothing, options, Moves, Journals, Unwinds
<1>6. ASSUME NEW x \in Files, CheckFile(x) PROVE DiskType'
  BY <1>0, <1>6, Names, CheckFileDoes
     DEF DiskType, SeenType, AsideType, BackupType, RenderType, PlaceType, EditType, FileEntries, ManifestEntries, Inodes, Entry, Nothing, options, Moves, Journals, Unwinds
<1>7. ASSUME NEW x \in Guarded, SetAside(x) PROVE DiskType'
  BY <1>0, <1>7, Names, SetAsideDoes
     DEF DiskType, SeenType, AsideType, BackupType, RenderType, PlaceType, EditType, FileEntries, ManifestEntries, Inodes, Entry, Nothing, options, Moves, Journals, Unwinds
<1>8. ASSUME NEW x \in Guarded, Install(x) PROVE DiskType'
  <2>1. Rendering(x) \in (IF x = Manifest THEN SUBSET {"tx", "rival"} ELSE Content)
    <3>1. CASE x \in Answers
      BY <3>1, Names DEF Rendering
    <3>2. CASE x = Manifest
      BY <1>0, <1>8, <3>2, Names, InstallDoes DEF Rendering, SeenType
    <3>3. CASE x \in Paths
      BY <1>0, <1>8, <3>3, Names, InstallDoes DEF Rendering, AsideType, RenderType
    <3> QED BY <3>1, <3>2, <3>3, Names
  <2>2. disk' = [disk EXCEPT ![x] = Entry(Rendering(x), "tx")]
    BY <1>8, InstallDoes
  <2> QED BY <1>0, <2>1, <2>2, Names DEF DiskType, FileEntries, ManifestEntries, Inodes, Entry
<1>9. CASE CheckManifest
  BY <1>0, <1>9, Names
     DEF DiskType, SeenType, AsideType, BackupType, RenderType, PlaceType, EditType, FileEntries, ManifestEntries, Inodes, Entry, Nothing, CheckManifest, options, txVars
<1>10. CASE SetStateAside
  BY <1>0, <1>10, Names
     DEF DiskType, SeenType, AsideType, BackupType, RenderType, PlaceType, EditType, FileEntries, ManifestEntries, Inodes, Entry, Nothing, SetStateAside, options, txVars
<1>11. CASE InstallState
  BY <1>0, <1>11, Names, InstallStateDoes
     DEF DiskType, SeenType, AsideType, BackupType, RenderType, PlaceType, EditType, FileEntries, ManifestEntries, Inodes, Entry, Nothing, options, Moves, Journals, Unwinds
<1>12. CASE Fail
  BY <1>0, <1>12, Names
     DEF DiskType, SeenType, AsideType, BackupType, RenderType, PlaceType, EditType, FileEntries, ManifestEntries, Inodes, Entry, Nothing, Fail, options, txVars
<1>13. CASE RolledBack
  BY <1>0, <1>13, Names
     DEF DiskType, SeenType, AsideType, BackupType, RenderType, PlaceType, EditType, FileEntries, ManifestEntries, Inodes, Entry, Nothing, RolledBack, options, txVars
<1>14. ASSUME NEW x \in Guarded, UndoRemove(x) PROVE DiskType'
  BY <1>0, <1>14, Names, UndoRemoveDoes
     DEF DiskType, SeenType, AsideType, BackupType, RenderType, PlaceType, EditType, FileEntries, ManifestEntries, Inodes, Entry, Nothing, UndoRemove, options, txVars
<1>15. ASSUME NEW x \in Guarded, UndoRestore(x) PROVE DiskType'
  <2>1. Backup(x) \in (IF x = Manifest THEN ManifestEntries ELSE FileEntries)
    <3>1. CASE x = Manifest
      BY <1>0, <1>15, <3>1, Names, UndoRestoreDoes DEF Backup, SeenType, Entry, ManifestEntries, Inodes
    <3>2. CASE x \in Files
      BY <1>0, <3>2, Names DEF Backup, BackupType, Entry, FileEntries, Inodes
    <3> QED BY <3>1, <3>2, Names
  <2>2. disk' = disk \/ disk' = [disk EXCEPT ![x] = Backup(x)]
    BY <1>15, UndoRestoreDoes
  <2> QED BY <1>0, <2>1, <2>2, Names DEF DiskType
<1>16. ASSUME NEW x \in Guarded, UndoFails(x) PROVE DiskType'
  <2>1. \/ disk' = disk
        \/ x = Manifest /\ disk' = [disk EXCEPT ![x] = Entry(expected[x] \cup {"tx"}, "tx")]
    BY <1>16, UndoFailsDoes
  <2>2. x = Manifest => Entry(expected[x] \cup {"tx"}, "tx") \in ManifestEntries
    BY <1>0, <1>16, Names, UndoFailsDoes DEF SeenType, Entry, ManifestEntries, Inodes
  <2> QED BY <1>0, <2>1, <2>2, Names DEF DiskType
<1>17. CASE Kill
  BY <1>0, <1>17, Names
     DEF DiskType, SeenType, AsideType, BackupType, RenderType, PlaceType, EditType, FileEntries, ManifestEntries, Inodes, Entry, Nothing, Kill, options, txVars
<1>18. CASE Rerun
  BY <1>0, <1>18, Names
     DEF DiskType, SeenType, AsideType, BackupType, RenderType, PlaceType, EditType, FileEntries, ManifestEntries, Inodes, Entry, Nothing, Rerun, options, txVars
<1>19. CASE UNCHANGED vars
  BY <1>19, <1>0 DEF DiskType, SeenType, AsideType, BackupType, RenderType, PlaceType, EditType, FileEntries, ManifestEntries, Inodes, Entry, Nothing, vars, options, txVars
<1> QED BY ONLY [Next]_vars, <1>1, <1>2, <1>3, <1>4, <1>5, <1>6, <1>7, <1>8, <1>9, <1>10, <1>11, <1>12, <1>13, <1>14, <1>15, <1>16, <1>17, <1>18, <1>19
           DEF Next, Others, Applies, Undoes

LEMMA SeenStep ==
  ASSUME TypeInv, OrderInv, [Next]_vars
  PROVE  SeenType'
<1>0. DiskType /\ SeenType /\ PlaceType /\ SavedType
  BY DEF TypeInv
<1>1. ASSUME NEW p \in Paths, Replace(p) PROVE SeenType'
  BY <1>0, <1>1, Names, EditIsNew
     DEF DiskType, SeenType, PlaceType, SavedType, FileEntries, ManifestEntries, Inodes, Entry, Nothing, Entries, SavedStates, Replace, options, txVars, Now
<1>2. ASSUME NEW p \in Paths, WriteInPlace(p) PROVE SeenType'
  BY <1>0, <1>2, Names, EditIsNew
     DEF DiskType, SeenType, PlaceType, SavedType, FileEntries, ManifestEntries, Inodes, Entry, Nothing, Entries, SavedStates, WriteInPlace, options, txVars, Now
<1>3. CASE RivalSaves
  BY <1>0, <1>3, Names, EditIsNew
     DEF DiskType, SeenType, PlaceType, SavedType, FileEntries, ManifestEntries, Inodes, Entry, Nothing, Entries, SavedStates, RivalSaves, options, txVars
<1>4. CASE Refuse
  BY <1>0, <1>4, Names
     DEF DiskType, SeenType, PlaceType, SavedType, FileEntries, ManifestEntries, Inodes, Entry, Nothing, Entries, SavedStates, Refuse, options, txVars
<1>5. CASE Prepare
  BY <1>0, <1>5, Names, PrepareDoes
     DEF DiskType, SeenType, PlaceType, SavedType, FileEntries, ManifestEntries, Inodes, Entry, Nothing, Entries, SavedStates, options, Moves, Journals, Unwinds
<1>6. ASSUME NEW x \in Files, CheckFile(x) PROVE SeenType'
  BY <1>0, <1>6, Names, CheckFileDoes
     DEF DiskType, SeenType, PlaceType, SavedType, FileEntries, ManifestEntries, Inodes, Entry, Nothing, Entries, SavedStates, options, Moves, Journals, Unwinds
<1>7. ASSUME NEW x \in Guarded, SetAside(x) PROVE SeenType'
  BY <1>0, <1>7, Names, SetAsideDoes
     DEF DiskType, SeenType, PlaceType, SavedType, FileEntries, ManifestEntries, Inodes, Entry, Nothing, Entries, SavedStates, options, Moves, Journals, Unwinds
<1>8. ASSUME NEW x \in Guarded, Install(x) PROVE SeenType'
  BY <1>0, <1>8, Names, InstallDoes
     DEF DiskType, SeenType, PlaceType, SavedType, FileEntries, ManifestEntries, Inodes, Entry, Nothing, Entries, SavedStates, options, Moves, Journals, Unwinds
<1>9. CASE CheckManifest
  BY <1>0, <1>9, Names
     DEF DiskType, SeenType, PlaceType, SavedType, FileEntries, ManifestEntries, Inodes, Entry, Nothing, Entries, SavedStates, CheckManifest, options, txVars
<1>10. CASE SetStateAside
  BY <1>0, <1>10, Names
     DEF DiskType, SeenType, PlaceType, SavedType, FileEntries, ManifestEntries, Inodes, Entry, Nothing, Entries, SavedStates, SetStateAside, options, txVars
<1>11. CASE InstallState
  BY <1>0, <1>11, Names, InstallStateDoes
     DEF DiskType, SeenType, PlaceType, SavedType, FileEntries, ManifestEntries, Inodes, Entry, Nothing, Entries, SavedStates, options, Moves, Journals, Unwinds
<1>12. CASE Fail
  BY <1>0, <1>12, Names
     DEF DiskType, SeenType, PlaceType, SavedType, FileEntries, ManifestEntries, Inodes, Entry, Nothing, Entries, SavedStates, Fail, options, txVars
<1>13. CASE RolledBack
  BY <1>0, <1>13, Names
     DEF DiskType, SeenType, PlaceType, SavedType, FileEntries, ManifestEntries, Inodes, Entry, Nothing, Entries, SavedStates, RolledBack, options, txVars
<1>14. ASSUME NEW x \in Guarded, UndoRemove(x) PROVE SeenType'
  BY <1>0, <1>14, Names, UndoRemoveDoes
     DEF DiskType, SeenType, PlaceType, SavedType, FileEntries, ManifestEntries, Inodes, Entry, Nothing, Entries, SavedStates, UndoRemove, options, txVars
<1>15. ASSUME NEW x \in Guarded, UndoRestore(x) PROVE SeenType'
  BY <1>0, <1>15, Names, UndoRestoreDoes
     DEF DiskType, SeenType, PlaceType, SavedType, FileEntries, ManifestEntries, Inodes, Entry, Nothing, Entries, SavedStates, options, Moves, Journals, Unwinds
<1>16. ASSUME NEW x \in Guarded, UndoFails(x) PROVE SeenType'
  <2>1. /\ guard' = guard \/ guard' = [guard EXCEPT ![x] = "tx"]
        /\ UNCHANGED <<expected, phase>>
    BY <1>16, UndoFailsDoes
  <2> QED BY <1>0, <2>1 DEF SeenType, Inodes
<1>17. CASE Kill
  BY <1>0, <1>17, Names
     DEF DiskType, SeenType, PlaceType, SavedType, FileEntries, ManifestEntries, Inodes, Entry, Nothing, Entries, SavedStates, Kill, options, txVars
<1>18. CASE Rerun
  <2>1. /\ expected' = [x \in Edited \cup {State} |-> Absent] /\ guard' = [x \in Guarded |-> "none"]
        /\ phase' = "idle"
    BY <1>18 DEF Rerun
  <2>2. /\ DOMAIN expected' = Edited \cup {State} /\ \A p \in Paths : expected'[p] = Absent
        /\ expected'[Manifest] = Absent /\ expected'[State] = Absent
    BY <2>1, Names
  <2>3. guard' \in [Guarded -> Inodes \cup {"none"}]
    BY <2>1
  <2>4. /\ \A p \in Paths : expected'[p] \in Entries
        /\ expected'[Manifest] \in (SUBSET {"tx", "rival"}) \cup {Absent} /\ expected'[State] \in SavedStates
    BY ONLY <2>2 DEF Entries, SavedStates
  <2>5. ~(phase' \in {"apply", "rollback"})
    BY <2>1
  <2> QED BY ONLY <2>2, <2>3, <2>4, <2>5 DEF SeenType
<1>19. CASE UNCHANGED vars
  BY <1>19, <1>0 DEF DiskType, SeenType, PlaceType, SavedType, FileEntries, ManifestEntries, Inodes, Entry, Nothing, Entries, SavedStates, vars, options, txVars
<1> QED BY ONLY [Next]_vars, <1>1, <1>2, <1>3, <1>4, <1>5, <1>6, <1>7, <1>8, <1>9, <1>10, <1>11, <1>12, <1>13, <1>14, <1>15, <1>16, <1>17, <1>18, <1>19
           DEF Next, Others, Applies, Undoes

LEMMA AsideStep ==
  ASSUME TypeInv, OrderInv, [Next]_vars
  PROVE  AsideType'
<1>0. DiskType /\ AsideType /\ PlaceType /\ SavedType
  BY DEF TypeInv
<1>1. ASSUME NEW p \in Paths, Replace(p) PROVE AsideType'
  BY <1>0, <1>1, Names, EditIsNew
     DEF DiskType, AsideType, PlaceType, SavedType, Entry, Nothing, Replace, options, txVars, Now
<1>2. ASSUME NEW p \in Paths, WriteInPlace(p) PROVE AsideType'
  BY <1>0, <1>2, Names, EditIsNew
     DEF DiskType, AsideType, PlaceType, SavedType, Entry, Nothing, WriteInPlace, options, txVars, Now
<1>3. CASE RivalSaves
  BY <1>0, <1>3, Names, EditIsNew
     DEF DiskType, AsideType, PlaceType, SavedType, Entry, Nothing, RivalSaves, options, txVars
<1>4. CASE Refuse
  BY <1>0, <1>4, Names
     DEF DiskType, AsideType, PlaceType, SavedType, Entry, Nothing, Refuse, options, txVars
<1>5. CASE Prepare
  BY <1>0, <1>5, Names, PrepareDoes
     DEF DiskType, AsideType, PlaceType, SavedType, Entry, Nothing, options, Moves, Journals, Unwinds
<1>6. ASSUME NEW x \in Files, CheckFile(x) PROVE AsideType'
  BY <1>0, <1>6, Names, CheckFileDoes
     DEF DiskType, AsideType, PlaceType, SavedType, Entry, Nothing, options, Moves, Journals, Unwinds
<1>7. ASSUME NEW x \in Guarded, SetAside(x) PROVE AsideType'
  BY <1>0, <1>7, Names, SetAsideDoes
     DEF DiskType, AsideType, PlaceType, SavedType, Entry, Nothing, options, Moves, Journals, Unwinds
<1>8. ASSUME NEW x \in Guarded, Install(x) PROVE AsideType'
  BY <1>0, <1>8, Names, InstallDoes
     DEF DiskType, AsideType, PlaceType, SavedType, Entry, Nothing, options, Moves, Journals, Unwinds
<1>9. CASE CheckManifest
  BY <1>0, <1>9, Names
     DEF DiskType, AsideType, PlaceType, SavedType, Entry, Nothing, CheckManifest, options, txVars
<1>10. CASE SetStateAside
  BY <1>0, <1>10, Names
     DEF DiskType, AsideType, PlaceType, SavedType, Entry, Nothing, SetStateAside, options, txVars
<1>11. CASE InstallState
  BY <1>0, <1>11, Names, InstallStateDoes
     DEF DiskType, AsideType, PlaceType, SavedType, Entry, Nothing, options, Moves, Journals, Unwinds
<1>12. CASE Fail
  BY <1>0, <1>12, Names
     DEF DiskType, AsideType, PlaceType, SavedType, Entry, Nothing, Fail, options, txVars
<1>13. CASE RolledBack
  BY <1>0, <1>13, Names
     DEF DiskType, AsideType, PlaceType, SavedType, Entry, Nothing, RolledBack, options, txVars
<1>14. ASSUME NEW x \in Guarded, UndoRemove(x) PROVE AsideType'
  BY <1>0, <1>14, Names, UndoRemoveDoes
     DEF DiskType, AsideType, PlaceType, SavedType, Entry, Nothing, UndoRemove, options, txVars
<1>15. ASSUME NEW x \in Guarded, UndoRestore(x) PROVE AsideType'
  BY <1>0, <1>15, Names, UndoRestoreDoes
     DEF DiskType, AsideType, PlaceType, SavedType, Entry, Nothing, options, Moves, Journals, Unwinds
<1>16. ASSUME NEW x \in Guarded, UndoFails(x) PROVE AsideType'
  BY <1>0, <1>16, Names, UndoFailsDoes
     DEF DiskType, AsideType, PlaceType, SavedType, Entry, Nothing, options, Moves, Journals, Unwinds
<1>17. CASE Kill
  BY <1>0, <1>17, Names
     DEF DiskType, AsideType, PlaceType, SavedType, Entry, Nothing, Kill, options, txVars
<1>18. CASE Rerun
  BY <1>0, <1>18, Names
     DEF DiskType, AsideType, PlaceType, SavedType, Entry, Nothing, Rerun, options, txVars
<1>19. CASE UNCHANGED vars
  BY <1>19, <1>0 DEF DiskType, AsideType, PlaceType, SavedType, Entry, Nothing, vars, options, txVars
<1> QED BY ONLY [Next]_vars, <1>1, <1>2, <1>3, <1>4, <1>5, <1>6, <1>7, <1>8, <1>9, <1>10, <1>11, <1>12, <1>13, <1>14, <1>15, <1>16, <1>17, <1>18, <1>19
           DEF Next, Others, Applies, Undoes

LEMMA BackupStep ==
  ASSUME TypeInv, OrderInv, [Next]_vars
  PROVE  BackupType'
<1>0. BackupType /\ DiskType
  BY DEF TypeInv
<1>1. ASSUME NEW p \in Paths, Replace(p) PROVE BackupType'
  BY <1>0, <1>1, Names, EditIsNew
     DEF BackupType, DiskType, FileEntries, Nothing, Replace, options, txVars, Now
<1>2. ASSUME NEW p \in Paths, WriteInPlace(p) PROVE BackupType'
  BY <1>0, <1>2, Names, EditIsNew
     DEF BackupType, DiskType, FileEntries, Nothing, WriteInPlace, options, txVars, Now
<1>3. CASE RivalSaves
  BY <1>0, <1>3, Names, EditIsNew
     DEF BackupType, DiskType, FileEntries, Nothing, RivalSaves, options, txVars
<1>4. CASE Refuse
  BY <1>0, <1>4, Names
     DEF BackupType, DiskType, FileEntries, Nothing, Refuse, options, txVars
<1>5. CASE Prepare
  BY <1>0, <1>5, Names, PrepareDoes
     DEF BackupType, DiskType, FileEntries, Nothing, options, Moves, Journals, Unwinds
<1>6. ASSUME NEW x \in Files, CheckFile(x) PROVE BackupType'
  BY <1>0, <1>6, Names, CheckFileDoes
     DEF BackupType, DiskType, FileEntries, Nothing, options, Moves, Journals, Unwinds
<1>7. ASSUME NEW x \in Guarded, SetAside(x) PROVE BackupType'
  BY <1>0, <1>7, Names, SetAsideDoes
     DEF BackupType, DiskType, FileEntries, Nothing, options, Moves, Journals, Unwinds
<1>8. ASSUME NEW x \in Guarded, Install(x) PROVE BackupType'
  BY <1>0, <1>8, Names, InstallDoes
     DEF BackupType, DiskType, FileEntries, Nothing, options, Moves, Journals, Unwinds
<1>9. CASE CheckManifest
  BY <1>0, <1>9, Names
     DEF BackupType, DiskType, FileEntries, Nothing, CheckManifest, options, txVars
<1>10. CASE SetStateAside
  BY <1>0, <1>10, Names
     DEF BackupType, DiskType, FileEntries, Nothing, SetStateAside, options, txVars
<1>11. CASE InstallState
  BY <1>0, <1>11, Names, InstallStateDoes
     DEF BackupType, DiskType, FileEntries, Nothing, options, Moves, Journals, Unwinds
<1>12. CASE Fail
  BY <1>0, <1>12, Names
     DEF BackupType, DiskType, FileEntries, Nothing, Fail, options, txVars
<1>13. CASE RolledBack
  BY <1>0, <1>13, Names
     DEF BackupType, DiskType, FileEntries, Nothing, RolledBack, options, txVars
<1>14. ASSUME NEW x \in Guarded, UndoRemove(x) PROVE BackupType'
  BY <1>0, <1>14, Names, UndoRemoveDoes
     DEF BackupType, DiskType, FileEntries, Nothing, UndoRemove, options, txVars
<1>15. ASSUME NEW x \in Guarded, UndoRestore(x) PROVE BackupType'
  BY <1>0, <1>15, Names, UndoRestoreDoes
     DEF BackupType, DiskType, FileEntries, Nothing, options, Moves, Journals, Unwinds
<1>16. ASSUME NEW x \in Guarded, UndoFails(x) PROVE BackupType'
  BY <1>0, <1>16, Names, UndoFailsDoes
     DEF BackupType, DiskType, FileEntries, Nothing, options, Moves, Journals, Unwinds
<1>17. CASE Kill
  BY <1>0, <1>17, Names
     DEF BackupType, DiskType, FileEntries, Nothing, Kill, options, txVars
<1>18. CASE Rerun
  BY <1>0, <1>18, Names
     DEF BackupType, DiskType, FileEntries, Nothing, Rerun, options, txVars
<1>19. CASE UNCHANGED vars
  BY <1>19, <1>0 DEF BackupType, DiskType, FileEntries, Nothing, vars, options, txVars
<1> QED BY ONLY [Next]_vars, <1>1, <1>2, <1>3, <1>4, <1>5, <1>6, <1>7, <1>8, <1>9, <1>10, <1>11, <1>12, <1>13, <1>14, <1>15, <1>16, <1>17, <1>18, <1>19
           DEF Next, Others, Applies, Undoes

LEMMA EditStep ==
  ASSUME TypeInv, OrderInv, [Next]_vars
  PROVE  EditType'
<1>0. EditType
  BY DEF TypeInv
<1>1. ASSUME NEW p \in Paths, Replace(p) PROVE EditType'
  BY <1>0, <1>1, Names, EditIsNew
     DEF EditType, Replace, options, txVars, Now
<1>2. ASSUME NEW p \in Paths, WriteInPlace(p) PROVE EditType'
  BY <1>0, <1>2, Names, EditIsNew
     DEF EditType, WriteInPlace, options, txVars, Now
<1>3. CASE RivalSaves
  BY <1>0, <1>3, Names, EditIsNew
     DEF EditType, RivalSaves, options, txVars
<1>4. CASE Refuse
  BY <1>0, <1>4, Names
     DEF EditType, Refuse, options, txVars
<1>5. CASE Prepare
  BY <1>0, <1>5, Names, PrepareDoes
     DEF EditType, options, Moves, Journals, Unwinds
<1>6. ASSUME NEW x \in Files, CheckFile(x) PROVE EditType'
  BY <1>0, <1>6, Names, CheckFileDoes
     DEF EditType, options, Moves, Journals, Unwinds
<1>7. ASSUME NEW x \in Guarded, SetAside(x) PROVE EditType'
  BY <1>0, <1>7, Names, SetAsideDoes
     DEF EditType, options, Moves, Journals, Unwinds
<1>8. ASSUME NEW x \in Guarded, Install(x) PROVE EditType'
  BY <1>0, <1>8, Names, InstallDoes
     DEF EditType, options, Moves, Journals, Unwinds
<1>9. CASE CheckManifest
  BY <1>0, <1>9, Names
     DEF EditType, CheckManifest, options, txVars
<1>10. CASE SetStateAside
  BY <1>0, <1>10, Names
     DEF EditType, SetStateAside, options, txVars
<1>11. CASE InstallState
  BY <1>0, <1>11, Names, InstallStateDoes
     DEF EditType, options, Moves, Journals, Unwinds
<1>12. CASE Fail
  BY <1>0, <1>12, Names
     DEF EditType, Fail, options, txVars
<1>13. CASE RolledBack
  BY <1>0, <1>13, Names
     DEF EditType, RolledBack, options, txVars
<1>14. ASSUME NEW x \in Guarded, UndoRemove(x) PROVE EditType'
  BY <1>0, <1>14, Names, UndoRemoveDoes
     DEF EditType, UndoRemove, options, txVars
<1>15. ASSUME NEW x \in Guarded, UndoRestore(x) PROVE EditType'
  BY <1>0, <1>15, Names, UndoRestoreDoes
     DEF EditType, options, Moves, Journals, Unwinds
<1>16. ASSUME NEW x \in Guarded, UndoFails(x) PROVE EditType'
  BY <1>0, <1>16, Names, UndoFailsDoes
     DEF EditType, options, Moves, Journals, Unwinds
<1>17. CASE Kill
  BY <1>0, <1>17, Names
     DEF EditType, Kill, options, txVars
<1>18. CASE Rerun
  BY <1>0, <1>18, Names, ReconcileAssumption
     DEF EditType, Rerun, options, txVars
<1>19. CASE UNCHANGED vars
  BY <1>19, <1>0 DEF EditType, vars, options, txVars
<1> QED BY ONLY [Next]_vars, <1>1, <1>2, <1>3, <1>4, <1>5, <1>6, <1>7, <1>8, <1>9, <1>10, <1>11, <1>12, <1>13, <1>14, <1>15, <1>16, <1>17, <1>18, <1>19
           DEF Next, Others, Applies, Undoes

LEMMA RestStep ==
  ASSUME TypeInv, OrderInv, [Next]_vars
  PROVE  (RenderType /\ SavedType)'
<1>0. RenderType /\ SavedType /\ AsideType /\ PlaceType
  BY DEF TypeInv
<1>1. ASSUME NEW p \in Paths, Replace(p) PROVE (RenderType /\ SavedType)'
  BY <1>0, <1>1, Names, EditIsNew
     DEF RenderType, SavedType, AsideType, PlaceType, SavedStates, Replace, options, txVars, Now
<1>2. ASSUME NEW p \in Paths, WriteInPlace(p) PROVE (RenderType /\ SavedType)'
  BY <1>0, <1>2, Names, EditIsNew
     DEF RenderType, SavedType, AsideType, PlaceType, SavedStates, WriteInPlace, options, txVars, Now
<1>3. CASE RivalSaves
  BY <1>0, <1>3, Names, EditIsNew
     DEF RenderType, SavedType, AsideType, PlaceType, SavedStates, RivalSaves, options, txVars
<1>4. CASE Refuse
  BY <1>0, <1>4, Names
     DEF RenderType, SavedType, AsideType, PlaceType, SavedStates, Refuse, options, txVars
<1>5. CASE Prepare
  BY <1>0, <1>5, Names, PrepareDoes
     DEF RenderType, SavedType, AsideType, PlaceType, SavedStates, options, Moves, Journals, Unwinds
<1>6. ASSUME NEW x \in Files, CheckFile(x) PROVE (RenderType /\ SavedType)'
  BY <1>0, <1>6, Names, CheckFileDoes
     DEF RenderType, SavedType, AsideType, PlaceType, SavedStates, options, Moves, Journals, Unwinds
<1>7. ASSUME NEW x \in Guarded, SetAside(x) PROVE (RenderType /\ SavedType)'
  BY <1>0, <1>7, Names, SetAsideDoes
     DEF RenderType, SavedType, AsideType, PlaceType, SavedStates, options, Moves, Journals, Unwinds
<1>8. ASSUME NEW x \in Guarded, Install(x) PROVE (RenderType /\ SavedType)'
  BY <1>0, <1>8, Names, InstallDoes
     DEF RenderType, SavedType, AsideType, PlaceType, SavedStates, options, Moves, Journals, Unwinds
<1>9. CASE CheckManifest
  BY <1>0, <1>9, Names
     DEF RenderType, SavedType, AsideType, PlaceType, SavedStates, CheckManifest, options, txVars
<1>10. CASE SetStateAside
  BY <1>0, <1>10, Names
     DEF RenderType, SavedType, AsideType, PlaceType, SavedStates, SetStateAside, options, txVars
<1>11. CASE InstallState
  BY <1>0, <1>11, Names, InstallStateDoes
     DEF RenderType, SavedType, AsideType, PlaceType, SavedStates, options, Moves, Journals, Unwinds
<1>12. CASE Fail
  BY <1>0, <1>12, Names
     DEF RenderType, SavedType, AsideType, PlaceType, SavedStates, Fail, options, txVars
<1>13. CASE RolledBack
  BY <1>0, <1>13, Names
     DEF RenderType, SavedType, AsideType, PlaceType, SavedStates, RolledBack, options, txVars
<1>14. ASSUME NEW x \in Guarded, UndoRemove(x) PROVE (RenderType /\ SavedType)'
  BY <1>0, <1>14, Names, UndoRemoveDoes
     DEF RenderType, SavedType, AsideType, PlaceType, SavedStates, UndoRemove, options, txVars
<1>15. ASSUME NEW x \in Guarded, UndoRestore(x) PROVE (RenderType /\ SavedType)'
  BY <1>0, <1>15, Names, UndoRestoreDoes
     DEF RenderType, SavedType, AsideType, PlaceType, SavedStates, options, Moves, Journals, Unwinds
<1>16. ASSUME NEW x \in Guarded, UndoFails(x) PROVE (RenderType /\ SavedType)'
  BY <1>0, <1>16, Names, UndoFailsDoes
     DEF RenderType, SavedType, AsideType, PlaceType, SavedStates, options, Moves, Journals, Unwinds
<1>17. CASE Kill
  BY <1>0, <1>17, Names
     DEF RenderType, SavedType, AsideType, PlaceType, SavedStates, Kill, options, txVars
<1>18. CASE Rerun
  BY <1>0, <1>18, Names
     DEF RenderType, SavedType, AsideType, PlaceType, SavedStates, Rerun, options, txVars
<1>19. CASE UNCHANGED vars
  BY <1>19, <1>0 DEF RenderType, SavedType, AsideType, PlaceType, SavedStates, vars, options, txVars
<1> QED BY ONLY [Next]_vars, <1>1, <1>2, <1>3, <1>4, <1>5, <1>6, <1>7, <1>8, <1>9, <1>10, <1>11, <1>12, <1>13, <1>14, <1>15, <1>16, <1>17, <1>18, <1>19
           DEF Next, Others, Applies, Undoes

-----------------------------------------------------------------------------
(* Then order, novelty and what others are promised.                         *)

LEMMA OrderStep ==
  ASSUME TypeInv, OrderInv, [Next]_vars
  PROVE  OrderInv'
<1>0. PlaceType /\ SeqType
  BY DEF TypeInv
<1>1. ASSUME NEW p \in Paths, Replace(p) PROVE OrderInv'
  BY <1>0, <1>1, Names, EditIsNew
     DEF PlaceType, SeqType, OrderInv, Replace, options, txVars, Now
<1>2. ASSUME NEW p \in Paths, WriteInPlace(p) PROVE OrderInv'
  BY <1>0, <1>2, Names, EditIsNew
     DEF PlaceType, SeqType, OrderInv, WriteInPlace, options, txVars, Now
<1>3. CASE RivalSaves
  BY <1>0, <1>3, Names, EditIsNew
     DEF PlaceType, SeqType, OrderInv, RivalSaves, options, txVars
<1>4. CASE Refuse
  BY <1>0, <1>4, Names
     DEF PlaceType, SeqType, OrderInv, Refuse, options, txVars
<1>5. CASE Prepare
  BY <1>0, <1>5, Names, PrepareDoes
     DEF PlaceType, SeqType, OrderInv, options, Moves, Journals, Unwinds
<1>6. ASSUME NEW x \in Files, CheckFile(x) PROVE OrderInv'
  BY <1>0, <1>6, Names, CheckFileDoes
     DEF PlaceType, SeqType, OrderInv, options, Moves, Journals, Unwinds
<1>7. ASSUME NEW x \in Guarded, SetAside(x) PROVE OrderInv'
  BY <1>0, <1>7, Names, SetAsideDoes
     DEF PlaceType, SeqType, OrderInv, options, Moves, Journals, Unwinds
<1>8. ASSUME NEW x \in Guarded, Install(x) PROVE OrderInv'
  BY <1>0, <1>8, Names, InstallDoes
     DEF PlaceType, SeqType, OrderInv, options, Moves, Journals, Unwinds
<1>9. CASE CheckManifest
  BY <1>0, <1>9, Names
     DEF PlaceType, SeqType, OrderInv, CheckManifest, options, txVars
<1>10. CASE SetStateAside
  BY <1>0, <1>10, Names
     DEF PlaceType, SeqType, OrderInv, SetStateAside, options, txVars
<1>11. CASE InstallState
  BY <1>0, <1>11, Names, InstallStateDoes
     DEF PlaceType, SeqType, OrderInv, options, Moves, Journals, Unwinds
<1>12. CASE Fail
  BY <1>0, <1>12, Names
     DEF PlaceType, SeqType, OrderInv, Fail, options, txVars
<1>13. CASE RolledBack
  BY <1>0, <1>13, Names
     DEF PlaceType, SeqType, OrderInv, RolledBack, options, txVars
<1>14. ASSUME NEW x \in Guarded, UndoRemove(x) PROVE OrderInv'
  BY <1>0, <1>14, Names, UndoRemoveDoes
     DEF PlaceType, SeqType, OrderInv, UndoRemove, options, txVars
<1>15. ASSUME NEW x \in Guarded, UndoRestore(x) PROVE OrderInv'
  BY <1>0, <1>15, Names, UndoRestoreDoes
     DEF PlaceType, SeqType, OrderInv, options, Moves, Journals, Unwinds
<1>16. ASSUME NEW x \in Guarded, UndoFails(x) PROVE OrderInv'
  BY <1>0, <1>16, Names, UndoFailsDoes
     DEF PlaceType, SeqType, OrderInv, options, Moves, Journals, Unwinds
<1>17. CASE Kill
  BY <1>0, <1>17, Names
     DEF PlaceType, SeqType, OrderInv, Kill, options, txVars
<1>18. CASE Rerun
  BY <1>0, <1>18, Names
     DEF PlaceType, SeqType, OrderInv, Rerun, options, txVars
<1>19. CASE UNCHANGED vars
  BY <1>19, <1>0 DEF PlaceType, SeqType, OrderInv, vars, options, txVars
<1> QED BY ONLY [Next]_vars, <1>1, <1>2, <1>3, <1>4, <1>5, <1>6, <1>7, <1>8, <1>9, <1>10, <1>11, <1>12, <1>13, <1>14, <1>15, <1>16, <1>17, <1>18, <1>19
           DEF Next, Others, Applies, Undoes

LEMMA FreshStep ==
  ASSUME TypeInv, OrderInv, FreshInv, [Next]_vars
  PROVE  FreshInv'
<1>0. DiskType /\ SeenType /\ AsideType /\ PlaceType /\ RenderType /\ EditType /\ BackupType
  BY DEF TypeInv
<1>1. ASSUME NEW p \in Paths, Replace(p) PROVE FreshInv'
  BY <1>0, <1>1, Names, FreshInv, ReplaceChanges
     DEF DiskType, SeenType, AsideType, PlaceType, RenderType, EditType, BackupType, FreshInv, Nothing, Installing, options, AloneAt, Holds, Written
<1>2. ASSUME NEW p \in Paths, WriteInPlace(p) PROVE FreshInv'
  BY <1>0, <1>2, Names, FreshInv, WriteInPlaceChanges
     DEF DiskType, SeenType, AsideType, PlaceType, RenderType, EditType, BackupType, FreshInv, Nothing, Installing, options, AloneAt, Holds, Written
<1>3. CASE RivalSaves
  BY <1>0, <1>3, Names, FreshInv, RivalSavesChanges
     DEF DiskType, SeenType, AsideType, PlaceType, RenderType, EditType, BackupType, FreshInv, Nothing, Installing, options, AloneAt, Holds, Written
<1>4. CASE Refuse
  BY <1>0, <1>4, Names, FreshInv
     DEF DiskType, SeenType, AsideType, PlaceType, RenderType, EditType, BackupType, FreshInv, Nothing, Installing, Refuse, options, txVars, Coming
<1>5. CASE Prepare
  BY <1>0, <1>5, Names, FreshInv, PrepareChanges, PrepareDoes
     DEF DiskType, SeenType, AsideType, PlaceType, RenderType, EditType, BackupType, FreshInv, Nothing, Installing, options, AloneAt, Holds, Written, Moves, Journals, Unwinds, Coming
<1>6. ASSUME NEW x \in Files, CheckFile(x) PROVE FreshInv'
  BY <1>0, <1>6, Names, FreshInv, CheckFileChanges, CheckFileDoes
     DEF DiskType, SeenType, AsideType, PlaceType, RenderType, EditType, BackupType, FreshInv, Nothing, Installing, options, AloneAt, Holds, Written, Moves, Journals, Unwinds, Coming
<1>7. ASSUME NEW x \in Guarded, SetAside(x) PROVE FreshInv'
  BY <1>0, <1>7, Names, FreshInv, SetAsideChanges, SetAsideDoes
     DEF DiskType, SeenType, AsideType, PlaceType, RenderType, EditType, BackupType, FreshInv, Nothing, Installing, options, AloneAt, Holds, Written, Moves, Journals, Unwinds, Coming
<1>8. ASSUME NEW x \in Guarded, Install(x) PROVE FreshInv'
  BY <1>0, <1>8, Names, FreshInv, InstallChanges, InstallDoes
     DEF DiskType, SeenType, AsideType, PlaceType, RenderType, EditType, BackupType, FreshInv, Nothing, Installing, options, AloneAt, Holds, Written, Moves, Journals, Unwinds, Coming, Rendering
<1>9. CASE CheckManifest
  BY <1>0, <1>9, Names, FreshInv
     DEF DiskType, SeenType, AsideType, PlaceType, RenderType, EditType, BackupType, FreshInv, Nothing, Installing, CheckManifest, options, txVars, Coming
<1>10. CASE SetStateAside
  BY <1>0, <1>10, Names, FreshInv
     DEF DiskType, SeenType, AsideType, PlaceType, RenderType, EditType, BackupType, FreshInv, Nothing, Installing, SetStateAside, options, txVars, Coming
<1>11. CASE InstallState
  BY <1>0, <1>11, Names, FreshInv, InstallStateDoes
     DEF DiskType, SeenType, AsideType, PlaceType, RenderType, EditType, BackupType, FreshInv, Nothing, Installing, options, Moves, Journals, Unwinds, Coming
<1>12. CASE Fail
  <2>1. /\ \A p \in Paths : disk'[p] = IF Installing(p) THEN aside ELSE disk[p]
        /\ \A p \in Paths : ~Installing(p)'
        /\ UNCHANGED <<expected, guard, before, edit, edits>>
    BY <1>0, <1>12, Names, FailChanges DEF Installing
  <2> QED BY <2>1, FreshInv DEF FreshInv, Coming
<1>13. CASE RolledBack
  BY <1>0, <1>13, Names, FreshInv
     DEF DiskType, SeenType, AsideType, PlaceType, RenderType, EditType, BackupType, FreshInv, Nothing, Installing, RolledBack, options, txVars, Coming
<1>14. ASSUME NEW x \in Guarded, UndoRemove(x) PROVE FreshInv'
  BY <1>0, <1>14, Names, FreshInv, UndoRemoveChanges
     DEF DiskType, SeenType, AsideType, PlaceType, RenderType, EditType, BackupType, FreshInv, Nothing, Installing, options, AloneAt, Holds, Written, Coming
<1>15. ASSUME NEW x \in Guarded, UndoRestore(x) PROVE FreshInv'
  BY <1>0, <1>15, Names, FreshInv, UndoRestoreChanges, UndoRestoreDoes
     DEF DiskType, SeenType, AsideType, PlaceType, RenderType, EditType, BackupType, FreshInv, Nothing, Installing, options, AloneAt, Holds, Written, Moves, Journals, Unwinds, Coming
<1>16. ASSUME NEW x \in Guarded, UndoFails(x) PROVE FreshInv'
  <2>1. /\ \A p \in Paths : disk'[p] = disk[p] /\ guard'[p] = guard[p] /\ ~Installing(p)'
        /\ UNCHANGED <<expected, before, edit, edits>>
    BY <1>16, Names, UndoFailsChanges, UndoFailsDoes DEF AloneAt, Installing
  <2> QED BY <2>1, FreshInv DEF FreshInv, Coming
<1>17. CASE Kill
  BY <1>0, <1>17, Names, FreshInv
     DEF DiskType, SeenType, AsideType, PlaceType, RenderType, EditType, BackupType, FreshInv, Nothing, Installing, Kill, options, txVars, Coming
<1>18. CASE Rerun
  BY <1>0, <1>18, Names, FreshInv
     DEF DiskType, SeenType, AsideType, PlaceType, RenderType, EditType, BackupType, FreshInv, Nothing, Installing, Rerun, options, txVars, Coming
<1>19. CASE UNCHANGED vars
  BY <1>19, <1>0, FreshInv DEF DiskType, SeenType, AsideType, PlaceType, RenderType, EditType, BackupType, FreshInv, Nothing, Installing, Coming, vars, options, txVars
<1> QED BY ONLY [Next]_vars, <1>1, <1>2, <1>3, <1>4, <1>5, <1>6, <1>7, <1>8, <1>9, <1>10, <1>11, <1>12, <1>13, <1>14, <1>15, <1>16, <1>17, <1>18, <1>19
           DEF Next, Others, Applies, Undoes

LEMMA SurvivesStep ==
  ASSUME TypeInv, OrderInv, OthersWorkSurvives, EditSeenInv, RivalInv, [Next]_vars
  PROVE  OthersWorkSurvives'
<1>0. DiskType /\ PlaceType /\ EditType
  BY DEF TypeInv
<1>1. ASSUME NEW p \in Paths, Replace(p) PROVE OthersWorkSurvives'
  BY <1>0, <1>1, Names, OthersWorkSurvives, EditSeenInv, RivalInv, ReplaceChanges
     DEF DiskType, PlaceType, EditType, OthersWorkSurvives, EditSeenInv, RivalInv, OrderInv, Nothing, InTx, Installing, Restoring, Edit, options, AloneAt, Holds, Written
<1>2. ASSUME NEW p \in Paths, WriteInPlace(p) PROVE OthersWorkSurvives'
  BY <1>0, <1>2, Names, OthersWorkSurvives, EditSeenInv, RivalInv, WriteInPlaceChanges
     DEF DiskType, PlaceType, EditType, OthersWorkSurvives, EditSeenInv, RivalInv, OrderInv, Nothing, InTx, Installing, Restoring, Edit, options, AloneAt, Holds, Written
<1>3. CASE RivalSaves
  BY <1>0, <1>3, Names, OthersWorkSurvives, EditSeenInv, RivalInv, RivalSavesChanges
     DEF DiskType, PlaceType, EditType, OthersWorkSurvives, EditSeenInv, RivalInv, OrderInv, Nothing, InTx, Installing, Restoring, Edit, options, AloneAt, Holds, Written
<1>4. CASE Refuse
  BY <1>0, <1>4, Names, OthersWorkSurvives, EditSeenInv, RivalInv
     DEF DiskType, PlaceType, EditType, OthersWorkSurvives, EditSeenInv, RivalInv, OrderInv, Nothing, InTx, Installing, Restoring, Edit, Refuse, options, txVars
<1>5. CASE Prepare
  BY <1>0, <1>5, Names, OthersWorkSurvives, EditSeenInv, RivalInv, PrepareChanges, PrepareDoes
     DEF DiskType, PlaceType, EditType, OthersWorkSurvives, EditSeenInv, RivalInv, OrderInv, Nothing, InTx, Installing, Restoring, Edit, options, AloneAt, Holds, Written, Moves, Journals, Unwinds
<1>6. ASSUME NEW x \in Files, CheckFile(x) PROVE OthersWorkSurvives'
  BY <1>0, <1>6, Names, OthersWorkSurvives, EditSeenInv, RivalInv, CheckFileChanges, CheckFileDoes
     DEF DiskType, PlaceType, EditType, OthersWorkSurvives, EditSeenInv, RivalInv, OrderInv, Nothing, InTx, Installing, Restoring, Edit, options, AloneAt, Holds, Written, Moves, Journals, Unwinds
<1>7. ASSUME NEW x \in Guarded, SetAside(x) PROVE OthersWorkSurvives'
  BY <1>0, <1>7, Names, OthersWorkSurvives, EditSeenInv, RivalInv, SetAsideChanges, SetAsideDoes
     DEF DiskType, PlaceType, EditType, OthersWorkSurvives, EditSeenInv, RivalInv, OrderInv, Nothing, InTx, Installing, Restoring, Edit, options, AloneAt, Holds, Written, Moves, Journals, Unwinds
<1>8. ASSUME NEW x \in Guarded, Install(x) PROVE OthersWorkSurvives'
  BY <1>0, <1>8, Names, OthersWorkSurvives, EditSeenInv, RivalInv, InstallChanges, InstallDoes
     DEF DiskType, PlaceType, EditType, OthersWorkSurvives, EditSeenInv, RivalInv, OrderInv, Nothing, InTx, Installing, Restoring, Edit, options, AloneAt, Holds, Written, Moves, Journals, Unwinds, Rendering
<1>9. CASE CheckManifest
  BY <1>0, <1>9, Names, OthersWorkSurvives, EditSeenInv, RivalInv
     DEF DiskType, PlaceType, EditType, OthersWorkSurvives, EditSeenInv, RivalInv, OrderInv, Nothing, InTx, Installing, Restoring, Edit, CheckManifest, options, txVars
<1>10. CASE SetStateAside
  BY <1>0, <1>10, Names, OthersWorkSurvives, EditSeenInv, RivalInv
     DEF DiskType, PlaceType, EditType, OthersWorkSurvives, EditSeenInv, RivalInv, OrderInv, Nothing, InTx, Installing, Restoring, Edit, SetStateAside, options, txVars
<1>11. CASE InstallState
  BY <1>0, <1>11, Names, OthersWorkSurvives, EditSeenInv, RivalInv, InstallStateDoes
     DEF DiskType, PlaceType, EditType, OthersWorkSurvives, EditSeenInv, RivalInv, OrderInv, Nothing, InTx, Installing, Restoring, Edit, options, Moves, Journals, Unwinds
<1>12. CASE Fail
  BY <1>0, <1>12, Names, OthersWorkSurvives, EditSeenInv, RivalInv, FailChanges
     DEF DiskType, PlaceType, EditType, OthersWorkSurvives, EditSeenInv, RivalInv, OrderInv, Nothing, InTx, Installing, Restoring, Edit, options, AloneAt, Holds, Written
<1>13. CASE RolledBack
  BY <1>0, <1>13, Names, OthersWorkSurvives, EditSeenInv, RivalInv
     DEF DiskType, PlaceType, EditType, OthersWorkSurvives, EditSeenInv, RivalInv, OrderInv, Nothing, InTx, Installing, Restoring, Edit, RolledBack, options, txVars
<1>14. ASSUME NEW x \in Guarded, UndoRemove(x) PROVE OthersWorkSurvives'
  BY <1>0, <1>14, Names, OthersWorkSurvives, EditSeenInv, RivalInv, UndoRemoveChanges
     DEF DiskType, PlaceType, EditType, OthersWorkSurvives, EditSeenInv, RivalInv, OrderInv, Nothing, InTx, Installing, Restoring, Edit, options, AloneAt, Holds, Written
<1>15. ASSUME NEW x \in Guarded, UndoRestore(x) PROVE OthersWorkSurvives'
  BY <1>0, <1>15, Names, OthersWorkSurvives, EditSeenInv, RivalInv, UndoRestoreChanges, UndoRestoreDoes
     DEF DiskType, PlaceType, EditType, OthersWorkSurvives, EditSeenInv, RivalInv, OrderInv, Nothing, InTx, Installing, Restoring, Edit, options, AloneAt, Holds, Written, Moves, Journals, Unwinds
<1>16. ASSUME NEW x \in Guarded, UndoFails(x) PROVE OthersWorkSurvives'
  <2>1. \A p \in Paths : disk'[p] = disk[p] /\ edit'[p] = edit[p]
    BY <1>16, Names, UndoFailsChanges, UndoFailsDoes DEF AloneAt
  <2>2. CASE step = "restore" /\ x = Manifest
    <3>1. Restoring(Manifest) /\ InTx
      BY <1>16, <2>2, UndoFailsDoes DEF Restoring, InTx
    <3>2. Edit(Manifest) => "rival" \in expected[Manifest]
      BY <3>1, RivalInv DEF RivalInv, Nothing
    <3>3. disk'[Manifest].is = expected[Manifest] \cup {"tx"} /\ edit' = edit
      BY <1>16, <2>2, UndoFailsChanges, UndoFailsDoes DEF Holds
    <3> QED BY <2>1, <3>2, <3>3, OthersWorkSurvives DEF OthersWorkSurvives, Edit
  <2>3. CASE ~(step = "restore" /\ x = Manifest)
    <3>1. disk'[Manifest] = disk[Manifest] /\ edit' = edit
      BY <1>16, <2>3, UndoFailsChanges, UndoFailsDoes
    <3> QED BY <2>1, <3>1, OthersWorkSurvives DEF OthersWorkSurvives
  <2> QED BY <2>2, <2>3
<1>17. CASE Kill
  BY <1>0, <1>17, Names, OthersWorkSurvives, EditSeenInv, RivalInv
     DEF DiskType, PlaceType, EditType, OthersWorkSurvives, EditSeenInv, RivalInv, OrderInv, Nothing, InTx, Installing, Restoring, Edit, Kill, options, txVars
<1>18. CASE Rerun
  BY <1>0, <1>18, Names, OthersWorkSurvives, EditSeenInv, RivalInv
     DEF DiskType, PlaceType, EditType, OthersWorkSurvives, EditSeenInv, RivalInv, OrderInv, Nothing, InTx, Installing, Restoring, Edit, Rerun, options, txVars
<1>19. CASE UNCHANGED vars
  BY <1>19, <1>0, OthersWorkSurvives, EditSeenInv, RivalInv DEF DiskType, PlaceType, EditType, OthersWorkSurvives, EditSeenInv, RivalInv, OrderInv, Nothing, InTx, Installing, Restoring, Edit, vars, options, txVars
<1> QED BY ONLY [Next]_vars, <1>1, <1>2, <1>3, <1>4, <1>5, <1>6, <1>7, <1>8, <1>9, <1>10, <1>11, <1>12, <1>13, <1>14, <1>15, <1>16, <1>17, <1>18, <1>19
           DEF Next, Others, Applies, Undoes

LEMMA EditSeenStep ==
  ASSUME TypeInv, OrderInv, OthersWorkSurvives, EditSeenInv, FreshInv, [Next]_vars
  PROVE  EditSeenInv'
<1>0. DiskType /\ SeenType /\ PlaceType /\ RenderType /\ EditType
  BY DEF TypeInv
<1>1. ASSUME NEW p \in Paths, Replace(p) PROVE EditSeenInv'
  <2>1. ~Installing(p)' /\ Written(p) /\ AloneAt(p)
    BY <1>1, <1>0, ReplaceChanges DEF Installing, BetweenRenames, Written
  <2>2. Now # guard[p] /\ Now # expected[p]
    BY <2>1, FreshInv DEF FreshInv, Written
  <2>3. ASSUME NEW q \in Paths
        PROVE  /\ InTx' /\ Edit(q)' /\ q \in ToSet(undo') => disk'[q].ino # guard'[q]
               /\ phase' = "apply" /\ Edit(q)' /\ q \in ToSet(todo') => expected'[q] # edit'[q]
               /\ Installing(q)' => ~Edit(q)'
    <3>1. CASE q = p
      <4>1. disk'[p].ino = Now /\ edit'[p] = Now /\ UNCHANGED <<expected, guard>>
        BY <1>1, <1>0, <2>1, ReplaceChanges DEF Written
      <4> QED BY <2>1, <2>2, <3>1, <4>1
    <3>2. CASE q # p
      <4>1. disk'[q] = disk[q] /\ edit'[q] = edit[q]
        BY <2>1, <3>2 DEF Written, AloneAt
      <4>2. UNCHANGED <<phase, step, todo, expected, guard, undo>>
        BY <2>1 DEF Written
      <4> QED BY <4>1, <4>2, EditSeenInv DEF EditSeenInv, InTx, Edit, Installing
    <3> QED BY <3>1, <3>2
  <2> QED BY <2>3 DEF EditSeenInv
<1>2. ASSUME NEW p \in Paths, WriteInPlace(p) PROVE EditSeenInv'
  <2>1. ~Installing(p)' /\ Written(p) /\ AloneAt(p)
    BY <1>2, <1>0, WriteInPlaceChanges DEF Installing, BetweenRenames, Written
  <2>2. Now # guard[p] /\ Now # expected[p]
    BY <2>1, FreshInv DEF FreshInv, Written
  <2>3. ASSUME NEW q \in Paths
        PROVE  /\ InTx' /\ Edit(q)' /\ q \in ToSet(undo') => disk'[q].ino # guard'[q]
               /\ phase' = "apply" /\ Edit(q)' /\ q \in ToSet(todo') => expected'[q] # edit'[q]
               /\ Installing(q)' => ~Edit(q)'
    <3>1. CASE q = p
      <4>1. /\ edit'[p] = Now /\ UNCHANGED <<phase, expected, undo>>
            /\ ~Journaled(p)
        BY <1>2, <1>0, <2>1, WriteInPlaceChanges DEF Written
      <4>2. InTx' => p \notin ToSet(undo')
        BY <4>1 DEF Journaled, Ended, InTx
      <4> QED BY <2>1, <2>2, <3>1, <4>1, <4>2
    <3>2. CASE q # p
      <4>1. disk'[q] = disk[q] /\ edit'[q] = edit[q]
        BY <2>1, <3>2 DEF Written, AloneAt
      <4>2. UNCHANGED <<phase, step, todo, expected, guard, undo>>
        BY <2>1 DEF Written
      <4> QED BY <4>1, <4>2, EditSeenInv DEF EditSeenInv, InTx, Edit, Installing
    <3> QED BY <3>1, <3>2
  <2> QED BY <2>3 DEF EditSeenInv
<1>3. CASE RivalSaves
  BY <1>0, <1>3, Names, OthersWorkSurvives, EditSeenInv, FreshInv, RivalSavesChanges
     DEF DiskType, SeenType, PlaceType, RenderType, EditType, OthersWorkSurvives, EditSeenInv, FreshInv, OrderInv, Nothing, InTx, Installing, Edit, options, AloneAt, Holds, Written
<1>4. CASE Refuse
  BY <1>0, <1>4, Names, OthersWorkSurvives, EditSeenInv, FreshInv
     DEF DiskType, SeenType, PlaceType, RenderType, EditType, OthersWorkSurvives, EditSeenInv, FreshInv, OrderInv, Nothing, InTx, Installing, Edit, Refuse, options, txVars
<1>5. CASE Prepare
  <2>1. ASSUME NEW q \in Paths, Edit(q)' PROVE q \notin ToSet(todo')
    <3>1. overwrite = FALSE /\ disk[q].is = edit[q] /\ edit[q] \in {"e1", "e2"}
      BY <1>0, <1>5, <2>1, PrepareChanges, OthersWorkSurvives DEF Edit, RenderType, EditType, OthersWorkSurvives
    <3>2. Old(q) \in {"v1", "v2", Absent} /\ rendered.new[q] \in {"v1", "v2", Absent}
      BY <1>0 DEF Old, RenderType
    <3>3. /\ Old(q) \in Entries /\ rendered.new[q] \in Entries /\ disk[q].is \in Entries
          /\ disk[q].is \notin {Old(q), rendered.new[q]}
      BY <3>1, <3>2, Names DEF Entries
    <3>4. Decided(q) \in {"none", "conflict"}
      BY <3>1, <3>3, LocalWorkIsKept DEF Decided
    <3>5. q \notin Deletes \cup Installs
      BY <3>4 DEF Deletes, Installs
    <3> QED BY <1>5, <3>5, PrepareDoes
  <2>2. undo' = undo /\ ToSet(undo) = {} /\ step' = "check"
    BY <1>5, PrepareDoes
  <2> QED BY <2>1, <2>2 DEF EditSeenInv, Installing
<1>6. ASSUME NEW x \in Files, CheckFile(x) PROVE EditSeenInv'
  BY <1>0, <1>6, Names, OthersWorkSurvives, EditSeenInv, FreshInv, CheckFileChanges, CheckFileDoes
     DEF DiskType, SeenType, PlaceType, RenderType, EditType, OthersWorkSurvives, EditSeenInv, FreshInv, OrderInv, Nothing, InTx, Installing, Edit, options, AloneAt, Holds, Written, Moves, Journals, Unwinds
<1>7. ASSUME NEW x \in Guarded, SetAside(x) PROVE EditSeenInv'
  BY <1>0, <1>7, Names, OthersWorkSurvives, EditSeenInv, FreshInv, SetAsideChanges, SetAsideDoes
     DEF DiskType, SeenType, PlaceType, RenderType, EditType, OthersWorkSurvives, EditSeenInv, FreshInv, OrderInv, Nothing, InTx, Installing, Edit, options, AloneAt, Holds, Written, Moves, Journals, Unwinds
<1>8. ASSUME NEW x \in Guarded, Install(x) PROVE EditSeenInv'
  BY <1>0, <1>8, Names, OthersWorkSurvives, EditSeenInv, FreshInv, InstallChanges, InstallDoes
     DEF DiskType, SeenType, PlaceType, RenderType, EditType, OthersWorkSurvives, EditSeenInv, FreshInv, OrderInv, Nothing, InTx, Installing, Edit, options, AloneAt, Holds, Written, Moves, Journals, Unwinds
<1>9. CASE CheckManifest
  BY <1>0, <1>9, Names, OthersWorkSurvives, EditSeenInv, FreshInv
     DEF DiskType, SeenType, PlaceType, RenderType, EditType, OthersWorkSurvives, EditSeenInv, FreshInv, OrderInv, Nothing, InTx, Installing, Edit, CheckManifest, options, txVars
<1>10. CASE SetStateAside
  BY <1>0, <1>10, Names, OthersWorkSurvives, EditSeenInv, FreshInv
     DEF DiskType, SeenType, PlaceType, RenderType, EditType, OthersWorkSurvives, EditSeenInv, FreshInv, OrderInv, Nothing, InTx, Installing, Edit, SetStateAside, options, txVars
<1>11. CASE InstallState
  BY <1>0, <1>11, Names, OthersWorkSurvives, EditSeenInv, FreshInv, InstallStateDoes
     DEF DiskType, SeenType, PlaceType, RenderType, EditType, OthersWorkSurvives, EditSeenInv, FreshInv, OrderInv, Nothing, InTx, Installing, Edit, options, Moves, Journals, Unwinds
<1>12. CASE Fail
  BY <1>0, <1>12, Names, OthersWorkSurvives, EditSeenInv, FreshInv, FailChanges
     DEF DiskType, SeenType, PlaceType, RenderType, EditType, OthersWorkSurvives, EditSeenInv, FreshInv, OrderInv, Nothing, InTx, Installing, Edit, options, AloneAt, Holds, Written
<1>13. CASE RolledBack
  BY <1>0, <1>13, Names, OthersWorkSurvives, EditSeenInv, FreshInv
     DEF DiskType, SeenType, PlaceType, RenderType, EditType, OthersWorkSurvives, EditSeenInv, FreshInv, OrderInv, Nothing, InTx, Installing, Edit, RolledBack, options, txVars
<1>14. ASSUME NEW x \in Guarded, UndoRemove(x) PROVE EditSeenInv'
  BY <1>0, <1>14, Names, OthersWorkSurvives, EditSeenInv, FreshInv, UndoRemoveChanges
     DEF DiskType, SeenType, PlaceType, RenderType, EditType, OthersWorkSurvives, EditSeenInv, FreshInv, OrderInv, Nothing, InTx, Installing, Edit, options, AloneAt, Holds, Written
<1>15. ASSUME NEW x \in Guarded, UndoRestore(x) PROVE EditSeenInv'
  BY <1>0, <1>15, Names, OthersWorkSurvives, EditSeenInv, FreshInv, UndoRestoreChanges, UndoRestoreDoes
     DEF DiskType, SeenType, PlaceType, RenderType, EditType, OthersWorkSurvives, EditSeenInv, FreshInv, OrderInv, Nothing, InTx, Installing, Edit, options, AloneAt, Holds, Written, Moves, Journals, Unwinds
<1>16. ASSUME NEW x \in Guarded, UndoFails(x) PROVE EditSeenInv'
  <2>1. \A p \in Paths : disk'[p] = disk[p] /\ guard'[p] = guard[p]
    BY <1>16, Names, UndoFailsChanges DEF AloneAt
  <2>2. /\ phase = "rollback" /\ phase' = "rollback" /\ edit' = edit
        /\ ToSet(undo') \subseteq ToSet(undo)
    BY <1>16, UndoFailsDoes DEF Unwinds
  <2> QED BY <2>1, <2>2, EditSeenInv DEF EditSeenInv, InTx, Edit, Installing
<1>17. CASE Kill
  BY <1>0, <1>17, Names, OthersWorkSurvives, EditSeenInv, FreshInv
     DEF DiskType, SeenType, PlaceType, RenderType, EditType, OthersWorkSurvives, EditSeenInv, FreshInv, OrderInv, Nothing, InTx, Installing, Edit, Kill, options, txVars
<1>18. CASE Rerun
  BY <1>0, <1>18, Names, OthersWorkSurvives, EditSeenInv, FreshInv
     DEF DiskType, SeenType, PlaceType, RenderType, EditType, OthersWorkSurvives, EditSeenInv, FreshInv, OrderInv, Nothing, InTx, Installing, Edit, Rerun, options, txVars
<1>19. CASE UNCHANGED vars
  BY <1>19, <1>0, OthersWorkSurvives, EditSeenInv, FreshInv DEF DiskType, SeenType, PlaceType, RenderType, EditType, OthersWorkSurvives, EditSeenInv, FreshInv, OrderInv, Nothing, InTx, Installing, Edit, vars, options, txVars
<1> QED BY ONLY [Next]_vars, <1>1, <1>2, <1>3, <1>4, <1>5, <1>6, <1>7, <1>8, <1>9, <1>10, <1>11, <1>12, <1>13, <1>14, <1>15, <1>16, <1>17, <1>18, <1>19
           DEF Next, Others, Applies, Undoes

LEMMA RivalStep ==
  ASSUME TypeInv, OrderInv, OthersWorkSurvives, RivalInv, [Next]_vars
  PROVE  RivalInv'
<1>0. DiskType /\ SeenType /\ PlaceType /\ EditType
  BY DEF TypeInv
<1>1. ASSUME NEW p \in Paths, Replace(p) PROVE RivalInv'
  BY <1>0, <1>1, Names, OthersWorkSurvives, RivalInv, ReplaceChanges
     DEF DiskType, SeenType, PlaceType, EditType, OthersWorkSurvives, RivalInv, Nothing, InTx, Installing, Restoring, Edit, options, AloneAt, Holds, Written
<1>2. ASSUME NEW p \in Paths, WriteInPlace(p) PROVE RivalInv'
  BY <1>0, <1>2, Names, OthersWorkSurvives, RivalInv, WriteInPlaceChanges
     DEF DiskType, SeenType, PlaceType, EditType, OthersWorkSurvives, RivalInv, Nothing, InTx, Installing, Restoring, Edit, options, AloneAt, Holds, Written
<1>3. CASE RivalSaves
  <2>1. /\ disk'[Manifest].ino = "rival" /\ "rival" \in disk'[Manifest].is
        /\ ~Installing(Manifest)' /\ disk[Manifest] # Nothing
        /\ UNCHANGED <<phase, step, todo, expected, guard, aside, undo>>
    BY <1>0, <1>3, RivalSavesChanges DEF Holds, Installing, BetweenRenames
  <2> QED BY <2>1, RivalInv DEF RivalInv, InTx, Edit, Restoring, Installing
<1>4. CASE Refuse
  BY <1>0, <1>4, Names, OthersWorkSurvives, RivalInv
     DEF DiskType, SeenType, PlaceType, EditType, OthersWorkSurvives, RivalInv, Nothing, InTx, Installing, Restoring, Edit, Refuse, options, txVars
<1>5. CASE Prepare
  <2>1. /\ guard'[Manifest] = disk[Manifest].ino /\ expected'[Manifest] = disk[Manifest].is
        /\ disk' = disk /\ disk[Manifest] # Nothing /\ edit'[Manifest] = edit[Manifest]
        /\ phase' = "apply" /\ step' = "check"
    BY <1>5, PrepareChanges, PrepareDoes
  <2>2. disk[Manifest].ino # "none"
    BY <1>0, <2>1 DEF DiskType, ManifestEntries, Inodes
  <2>3. Edit(Manifest) => "rival" \in disk[Manifest].is
    BY <2>1, OthersWorkSurvives DEF OthersWorkSurvives, Edit
  <2> QED BY <2>1, <2>2, <2>3, RivalInv DEF RivalInv, InTx, Edit, Restoring, Installing
<1>6. ASSUME NEW x \in Files, CheckFile(x) PROVE RivalInv'
  BY <1>0, <1>6, Names, OthersWorkSurvives, RivalInv, CheckFileChanges, CheckFileDoes
     DEF DiskType, SeenType, PlaceType, EditType, OthersWorkSurvives, RivalInv, Nothing, InTx, Installing, Restoring, Edit, options, AloneAt, Holds, Written, Moves, Journals, Unwinds
<1>7. ASSUME NEW x \in Guarded, SetAside(x) PROVE RivalInv'
  BY <1>0, <1>7, Names, OthersWorkSurvives, RivalInv, SetAsideChanges, SetAsideDoes
     DEF DiskType, SeenType, PlaceType, EditType, OthersWorkSurvives, RivalInv, Nothing, InTx, Installing, Restoring, Edit, options, AloneAt, Holds, Written, Moves, Journals, Unwinds
<1>8. ASSUME NEW x \in Guarded, Install(x) PROVE RivalInv'
  BY <1>0, <1>8, Names, OthersWorkSurvives, RivalInv, InstallChanges, InstallDoes
     DEF DiskType, SeenType, PlaceType, EditType, OthersWorkSurvives, RivalInv, Nothing, InTx, Installing, Restoring, Edit, options, AloneAt, Holds, Written, Moves, Journals, Unwinds
<1>9. CASE CheckManifest
  BY <1>0, <1>9, Names, OthersWorkSurvives, RivalInv
     DEF DiskType, SeenType, PlaceType, EditType, OthersWorkSurvives, RivalInv, Nothing, InTx, Installing, Restoring, Edit, CheckManifest, options, txVars
<1>10. CASE SetStateAside
  BY <1>0, <1>10, Names, OthersWorkSurvives, RivalInv
     DEF DiskType, SeenType, PlaceType, EditType, OthersWorkSurvives, RivalInv, Nothing, InTx, Installing, Restoring, Edit, SetStateAside, options, txVars
<1>11. CASE InstallState
  BY <1>0, <1>11, Names, OthersWorkSurvives, RivalInv, InstallStateDoes
     DEF DiskType, SeenType, PlaceType, EditType, OthersWorkSurvives, RivalInv, Nothing, InTx, Installing, Restoring, Edit, options, Moves, Journals, Unwinds
<1>12. CASE Fail
  BY <1>0, <1>12, Names, OthersWorkSurvives, RivalInv, FailChanges
     DEF DiskType, SeenType, PlaceType, EditType, OthersWorkSurvives, RivalInv, Nothing, InTx, Installing, Restoring, Edit, options, AloneAt, Holds, Written
<1>13. CASE RolledBack
  BY <1>0, <1>13, Names, OthersWorkSurvives, RivalInv
     DEF DiskType, SeenType, PlaceType, EditType, OthersWorkSurvives, RivalInv, Nothing, InTx, Installing, Restoring, Edit, RolledBack, options, txVars
<1>14. ASSUME NEW x \in Guarded, UndoRemove(x) PROVE RivalInv'
  BY <1>0, <1>14, Names, OthersWorkSurvives, RivalInv, UndoRemoveChanges
     DEF DiskType, SeenType, PlaceType, EditType, OthersWorkSurvives, RivalInv, Nothing, InTx, Installing, Restoring, Edit, options, AloneAt, Holds, Written
<1>15. ASSUME NEW x \in Guarded, UndoRestore(x) PROVE RivalInv'
  BY <1>0, <1>15, Names, OthersWorkSurvives, RivalInv, UndoRestoreChanges, UndoRestoreDoes
     DEF DiskType, SeenType, PlaceType, EditType, OthersWorkSurvives, RivalInv, Nothing, InTx, Installing, Restoring, Edit, options, AloneAt, Holds, Written, Moves, Journals, Unwinds
<1>16. ASSUME NEW x \in Guarded, UndoFails(x) PROVE RivalInv'
  <2>1. /\ phase = "rollback" /\ Head(undo) = x /\ UNCHANGED <<phase, expected, edit, aside>>
        /\ step' = "undo" \/ (step' = "restore" /\ x \in Files /\ undo' = undo)
    BY <1>16, UndoFailsDoes DEF Unwinds
  <2>2. ~Restoring(Manifest)'
    BY <2>1, Names DEF Restoring
  <2>3. ~Installing(Manifest)' /\ phase' # "apply"
    BY <2>1 DEF Installing
  <2>4. CASE step = "restore" /\ x = Manifest
    <3>1. disk'[Manifest].ino = "tx" /\ guard'[Manifest] = "tx"
      BY <1>16, <2>4, UndoFailsChanges DEF Holds
    <3>2. Edit(Manifest) => "rival" \in expected[Manifest]
      BY <2>1, <2>4, RivalInv DEF RivalInv, Restoring, InTx, Nothing
    <3> QED BY <2>1, <2>2, <2>3, <3>1, <3>2 DEF RivalInv, Edit
  <2>5. CASE ~(step = "restore" /\ x = Manifest)
    <3>1. disk'[Manifest] = disk[Manifest] /\ guard'[Manifest] = guard[Manifest]
      BY <1>16, <2>5, UndoFailsChanges
    <3> QED BY <2>1, <2>2, <2>3, <3>1, RivalInv DEF RivalInv, Edit, InTx
  <2> QED BY <2>4, <2>5
<1>17. CASE Kill
  BY <1>0, <1>17, Names, OthersWorkSurvives, RivalInv
     DEF DiskType, SeenType, PlaceType, EditType, OthersWorkSurvives, RivalInv, Nothing, InTx, Installing, Restoring, Edit, Kill, options, txVars
<1>18. CASE Rerun
  BY <1>0, <1>18, Names, OthersWorkSurvives, RivalInv
     DEF DiskType, SeenType, PlaceType, EditType, OthersWorkSurvives, RivalInv, Nothing, InTx, Installing, Restoring, Edit, Rerun, options, txVars
<1>19. CASE UNCHANGED vars
  BY <1>19, <1>0, OthersWorkSurvives, RivalInv DEF DiskType, SeenType, PlaceType, EditType, OthersWorkSurvives, RivalInv, Nothing, InTx, Installing, Restoring, Edit, vars, options, txVars
<1> QED BY ONLY [Next]_vars, <1>1, <1>2, <1>3, <1>4, <1>5, <1>6, <1>7, <1>8, <1>9, <1>10, <1>11, <1>12, <1>13, <1>14, <1>15, <1>16, <1>17, <1>18, <1>19
           DEF Next, Others, Applies, Undoes

LEMMA UndoStep ==
  ASSUME TypeInv, OrderInv, EditSeenInv, RivalInv, UndoInv, [Next]_vars
  PROVE  UndoInv'
<1>0. DiskType /\ SeenType /\ PlaceType /\ EditType /\ BackupType
  BY DEF TypeInv
<1>1. ASSUME NEW p \in Paths, Replace(p) PROVE UndoInv'
  BY <1>0, <1>1, Names, EditSeenInv, RivalInv, UndoInv, ReplaceChanges
     DEF DiskType, SeenType, PlaceType, EditType, BackupType, EditSeenInv, RivalInv, UndoInv, OrderInv, Nothing, InTx, Installing, Restoring, Edit, Trying, options, AloneAt, Holds, Written
<1>2. ASSUME NEW p \in Paths, WriteInPlace(p) PROVE UndoInv'
  BY <1>0, <1>2, Names, EditSeenInv, RivalInv, UndoInv, WriteInPlaceChanges
     DEF DiskType, SeenType, PlaceType, EditType, BackupType, EditSeenInv, RivalInv, UndoInv, OrderInv, Nothing, InTx, Installing, Restoring, Edit, Trying, options, AloneAt, Holds, Written
<1>3. CASE RivalSaves
  BY <1>0, <1>3, Names, EditSeenInv, RivalInv, UndoInv, RivalSavesChanges
     DEF DiskType, SeenType, PlaceType, EditType, BackupType, EditSeenInv, RivalInv, UndoInv, OrderInv, Nothing, InTx, Installing, Restoring, Edit, Trying, options, AloneAt, Holds, Written
<1>4. CASE Refuse
  BY <1>0, <1>4, Names, EditSeenInv, RivalInv, UndoInv
     DEF DiskType, SeenType, PlaceType, EditType, BackupType, EditSeenInv, RivalInv, UndoInv, OrderInv, Nothing, InTx, Installing, Restoring, Edit, Trying, Refuse, options, txVars
<1>5. CASE Prepare
  BY <1>0, <1>5, Names, EditSeenInv, RivalInv, UndoInv, PrepareChanges, PrepareDoes
     DEF DiskType, SeenType, PlaceType, EditType, BackupType, EditSeenInv, RivalInv, UndoInv, OrderInv, Nothing, InTx, Installing, Restoring, Edit, Trying, options, AloneAt, Holds, Written, Moves, Journals, Unwinds
<1>6. ASSUME NEW x \in Files, CheckFile(x) PROVE UndoInv'
  BY <1>0, <1>6, Names, EditSeenInv, RivalInv, UndoInv, CheckFileChanges, CheckFileDoes
     DEF DiskType, SeenType, PlaceType, EditType, BackupType, EditSeenInv, RivalInv, UndoInv, OrderInv, Nothing, InTx, Installing, Restoring, Edit, Trying, options, AloneAt, Holds, Written, Moves, Journals, Unwinds
<1>7. ASSUME NEW x \in Guarded, SetAside(x) PROVE UndoInv'
  BY <1>0, <1>7, Names, EditSeenInv, RivalInv, UndoInv, SetAsideChanges, SetAsideDoes
     DEF DiskType, SeenType, PlaceType, EditType, BackupType, EditSeenInv, RivalInv, UndoInv, OrderInv, Nothing, InTx, Installing, Restoring, Edit, Trying, options, AloneAt, Holds, Written, Moves, Journals, Unwinds
<1>8. ASSUME NEW x \in Guarded, Install(x) PROVE UndoInv'
  BY <1>0, <1>8, Names, EditSeenInv, RivalInv, UndoInv, InstallChanges, InstallDoes
     DEF DiskType, SeenType, PlaceType, EditType, BackupType, EditSeenInv, RivalInv, UndoInv, OrderInv, Nothing, InTx, Installing, Restoring, Edit, Trying, options, AloneAt, Holds, Written, Moves, Journals, Unwinds
<1>9. CASE CheckManifest
  BY <1>0, <1>9, Names, EditSeenInv, RivalInv, UndoInv
     DEF DiskType, SeenType, PlaceType, EditType, BackupType, EditSeenInv, RivalInv, UndoInv, OrderInv, Nothing, InTx, Installing, Restoring, Edit, Trying, CheckManifest, options, txVars
<1>10. CASE SetStateAside
  BY <1>0, <1>10, Names, EditSeenInv, RivalInv, UndoInv
     DEF DiskType, SeenType, PlaceType, EditType, BackupType, EditSeenInv, RivalInv, UndoInv, OrderInv, Nothing, InTx, Installing, Restoring, Edit, Trying, SetStateAside, options, txVars, Entry
<1>11. CASE InstallState
  BY <1>0, <1>11, Names, EditSeenInv, RivalInv, UndoInv, InstallStateDoes
     DEF DiskType, SeenType, PlaceType, EditType, BackupType, EditSeenInv, RivalInv, UndoInv, OrderInv, Nothing, InTx, Installing, Restoring, Edit, Trying, options, Moves, Journals, Unwinds
<1>12. CASE Fail
  BY <1>0, <1>12, Names, EditSeenInv, RivalInv, UndoInv, FailChanges
     DEF DiskType, SeenType, PlaceType, EditType, BackupType, EditSeenInv, RivalInv, UndoInv, OrderInv, Nothing, InTx, Installing, Restoring, Edit, Trying, options, AloneAt, Holds, Written
<1>13. CASE RolledBack
  BY <1>0, <1>13, Names, EditSeenInv, RivalInv, UndoInv
     DEF DiskType, SeenType, PlaceType, EditType, BackupType, EditSeenInv, RivalInv, UndoInv, OrderInv, Nothing, InTx, Installing, Restoring, Edit, Trying, RolledBack, options, txVars
<1>14. ASSUME NEW x \in Guarded, UndoRemove(x) PROVE UndoInv'
  BY <1>0, <1>14, Names, EditSeenInv, RivalInv, UndoInv, UndoRemoveChanges
     DEF DiskType, SeenType, PlaceType, EditType, BackupType, EditSeenInv, RivalInv, UndoInv, OrderInv, Nothing, InTx, Installing, Restoring, Edit, Trying, options, AloneAt, Holds, Written
<1>15. ASSUME NEW x \in Guarded, UndoRestore(x) PROVE UndoInv'
  BY <1>0, <1>15, Names, EditSeenInv, RivalInv, UndoInv, UndoRestoreChanges, UndoRestoreDoes
     DEF DiskType, SeenType, PlaceType, EditType, BackupType, EditSeenInv, RivalInv, UndoInv, OrderInv, Nothing, InTx, Installing, Restoring, Edit, Trying, options, AloneAt, Holds, Written, Moves, Journals, Unwinds
<1>16. ASSUME NEW x \in Guarded, UndoFails(x) PROVE UndoInv'
  BY <1>0, <1>16, Names, EditSeenInv, RivalInv, UndoInv, UndoFailsChanges, UndoFailsDoes
     DEF DiskType, SeenType, PlaceType, EditType, BackupType, EditSeenInv, RivalInv, UndoInv, OrderInv, Nothing, InTx, Installing, Restoring, Edit, Trying, options, AloneAt, Holds, Written, Moves, Journals, Unwinds
<1>17. CASE Kill
  BY <1>0, <1>17, Names, EditSeenInv, RivalInv, UndoInv
     DEF DiskType, SeenType, PlaceType, EditType, BackupType, EditSeenInv, RivalInv, UndoInv, OrderInv, Nothing, InTx, Installing, Restoring, Edit, Trying, Kill, options, txVars
<1>18. CASE Rerun
  BY <1>0, <1>18, Names, EditSeenInv, RivalInv, UndoInv
     DEF DiskType, SeenType, PlaceType, EditType, BackupType, EditSeenInv, RivalInv, UndoInv, OrderInv, Nothing, InTx, Installing, Restoring, Edit, Trying, Rerun, options, txVars
<1>19. CASE UNCHANGED vars
  BY <1>19, <1>0, EditSeenInv, RivalInv, UndoInv DEF DiskType, SeenType, PlaceType, EditType, BackupType, EditSeenInv, RivalInv, UndoInv, OrderInv, Nothing, InTx, Installing, Restoring, Edit, Trying, vars, options, txVars
<1> QED BY ONLY [Next]_vars, <1>1, <1>2, <1>3, <1>4, <1>5, <1>6, <1>7, <1>8, <1>9, <1>10, <1>11, <1>12, <1>13, <1>14, <1>15, <1>16, <1>17, <1>18, <1>19
           DEF Next, Others, Applies, Undoes

LEMMA DoneStep ==
  ASSUME TypeInv, OrderInv, OthersWorkSurvives, EditSeenInv, DoneInv, [Next]_vars
  PROVE  DoneInv'
<1>0. DiskType /\ SeenType /\ PlaceType /\ EditType /\ RenderType /\ SavedType
  BY DEF TypeInv
<1>1. ASSUME NEW p \in Paths, Replace(p) PROVE DoneInv'
  BY <1>0, <1>1, Names, OthersWorkSurvives, EditSeenInv, DoneInv, ReplaceChanges
     DEF DiskType, SeenType, PlaceType, EditType, RenderType, SavedType, OthersWorkSurvives, EditSeenInv, DoneInv, OrderInv, Nothing, InTx, Installing, Edit, IsManaged, options, AloneAt, Holds, Written
<1>2. ASSUME NEW p \in Paths, WriteInPlace(p) PROVE DoneInv'
  BY <1>0, <1>2, Names, OthersWorkSurvives, EditSeenInv, DoneInv, WriteInPlaceChanges
     DEF DiskType, SeenType, PlaceType, EditType, RenderType, SavedType, OthersWorkSurvives, EditSeenInv, DoneInv, OrderInv, Nothing, InTx, Installing, Edit, IsManaged, options, AloneAt, Holds, Written
<1>3. CASE RivalSaves
  BY <1>0, <1>3, Names, OthersWorkSurvives, EditSeenInv, DoneInv, RivalSavesChanges
     DEF DiskType, SeenType, PlaceType, EditType, RenderType, SavedType, OthersWorkSurvives, EditSeenInv, DoneInv, OrderInv, Nothing, InTx, Installing, Edit, IsManaged, options, AloneAt, Holds, Written
<1>4. CASE Refuse
  BY <1>0, <1>4, Names, OthersWorkSurvives, EditSeenInv, DoneInv
     DEF DiskType, SeenType, PlaceType, EditType, RenderType, SavedType, OthersWorkSurvives, EditSeenInv, DoneInv, OrderInv, Nothing, InTx, Installing, Edit, IsManaged, Refuse, options, txVars
<1>5. CASE Prepare
  <2>1. ASSUME NEW q \in Paths, IsManaged(q)' PROVE disk'[q].is = rendered'.new[q] \/ q \in ToSet(todo')
    <3>1. /\ expected'[State] = saved /\ rendered' = rendered /\ disk' = disk /\ q \notin Conflicts
          /\ q \in Deletes \cup Installs => q \in ToSet(todo')
      BY <1>5, PrepareChanges, PrepareDoes DEF options
    <3>2. Managed(Old(q), rendered.new[q])
      BY <1>0, <2>1, <3>1, Names DEF IsManaged, Managed, Old, SavedType, SavedStates, RenderType
    <3>3. Old(q) \in Entries /\ rendered.new[q] \in Entries /\ disk[q].is \in Entries
      BY <1>0, Names DEF Old, RenderType, Entries, DiskType, FileEntries, Nothing
    <3>4. overwrite \in BOOLEAN
      BY <1>0 DEF RenderType
    <3>5. Decision(Old(q), disk[q].is, rendered.new[q], overwrite) # "conflict"
      BY <3>1 DEF Conflicts, Decided
    <3>6. /\ Carried(Old(q), disk[q].is, rendered.new[q], overwrite) = rendered.new[q]
          /\ Decided(q) \in {"none", "add", "adopt", "modify", "delete", "conflict"}
      BY <3>2, <3>3, <3>4, <3>5, UpdatesConverge, DecisionTyping DEF Decided
    <3>7. CASE Decided(q) \in {"add", "modify", "delete"}
      BY <3>1, <3>7 DEF Deletes, Installs
    <3>8. CASE Decided(q) \notin {"add", "modify", "delete"}
      BY <3>1, <3>6, <3>8 DEF Carried, Applied, Decided
    <3> QED BY <3>7, <3>8
  <2>2. phase' = "apply" /\ Head(todo') # State
    BY <1>5, PrepareDoes
  <2> QED BY <2>1, <2>2 DEF DoneInv
<1>6. ASSUME NEW x \in Files, CheckFile(x) PROVE DoneInv'
  BY <1>0, <1>6, Names, OthersWorkSurvives, EditSeenInv, DoneInv, CheckFileChanges, CheckFileDoes
     DEF DiskType, SeenType, PlaceType, EditType, RenderType, SavedType, OthersWorkSurvives, EditSeenInv, DoneInv, OrderInv, Nothing, InTx, Installing, Edit, IsManaged, options, AloneAt, Holds, Written, Moves, Journals, Unwinds
<1>7. ASSUME NEW x \in Guarded, SetAside(x) PROVE DoneInv'
  BY <1>0, <1>7, Names, OthersWorkSurvives, EditSeenInv, DoneInv, SetAsideChanges, SetAsideDoes
     DEF DiskType, SeenType, PlaceType, EditType, RenderType, SavedType, OthersWorkSurvives, EditSeenInv, DoneInv, OrderInv, Nothing, InTx, Installing, Edit, IsManaged, options, AloneAt, Holds, Written, Moves, Journals, Unwinds
<1>8. ASSUME NEW x \in Guarded, Install(x) PROVE DoneInv'
  BY <1>0, <1>8, Names, OthersWorkSurvives, EditSeenInv, DoneInv, InstallChanges, InstallDoes
     DEF DiskType, SeenType, PlaceType, EditType, RenderType, SavedType, OthersWorkSurvives, EditSeenInv, DoneInv, OrderInv, Nothing, InTx, Installing, Edit, IsManaged, options, AloneAt, Holds, Written, Moves, Journals, Unwinds, Rendering
<1>9. CASE CheckManifest
  BY <1>0, <1>9, Names, OthersWorkSurvives, EditSeenInv, DoneInv
     DEF DiskType, SeenType, PlaceType, EditType, RenderType, SavedType, OthersWorkSurvives, EditSeenInv, DoneInv, OrderInv, Nothing, InTx, Installing, Edit, IsManaged, CheckManifest, options, txVars
<1>10. CASE SetStateAside
  BY <1>0, <1>10, Names, OthersWorkSurvives, EditSeenInv, DoneInv
     DEF DiskType, SeenType, PlaceType, EditType, RenderType, SavedType, OthersWorkSurvives, EditSeenInv, DoneInv, OrderInv, Nothing, InTx, Installing, Edit, IsManaged, SetStateAside, options, txVars
<1>11. CASE InstallState
  <2>1. /\ phase = "apply" /\ Head(todo) = State /\ phase' = "done" /\ saved' = "new"
        /\ UNCHANGED <<rendered, disk, expected, edit>>
    BY <1>11, InstallStateDoes DEF Moves, options
  <2>2. ToSet(todo) = {State} /\ \A p \in Paths : p # State
    BY <2>1, StateIsLast, Names
  <2>3. ASSUME NEW p \in Paths, IsManaged(p) PROVE disk[p].is \in {rendered.new[p], edit[p]}
    BY <2>1, <2>2, <2>3, DoneInv, OthersWorkSurvives DEF DoneInv, OthersWorkSurvives, Edit
  <2> QED BY <2>1, <2>3, DoneInv DEF DoneInv, IsManaged
<1>12. CASE Fail
  BY <1>0, <1>12, Names, OthersWorkSurvives, EditSeenInv, DoneInv, FailChanges
     DEF DiskType, SeenType, PlaceType, EditType, RenderType, SavedType, OthersWorkSurvives, EditSeenInv, DoneInv, OrderInv, Nothing, InTx, Installing, Edit, IsManaged, options, AloneAt, Holds, Written
<1>13. CASE RolledBack
  BY <1>0, <1>13, Names, OthersWorkSurvives, EditSeenInv, DoneInv
     DEF DiskType, SeenType, PlaceType, EditType, RenderType, SavedType, OthersWorkSurvives, EditSeenInv, DoneInv, OrderInv, Nothing, InTx, Installing, Edit, IsManaged, RolledBack, options, txVars
<1>14. ASSUME NEW x \in Guarded, UndoRemove(x) PROVE DoneInv'
  BY <1>0, <1>14, Names, OthersWorkSurvives, EditSeenInv, DoneInv, UndoRemoveChanges
     DEF DiskType, SeenType, PlaceType, EditType, RenderType, SavedType, OthersWorkSurvives, EditSeenInv, DoneInv, OrderInv, Nothing, InTx, Installing, Edit, IsManaged, options, AloneAt, Holds, Written
<1>15. ASSUME NEW x \in Guarded, UndoRestore(x) PROVE DoneInv'
  BY <1>0, <1>15, Names, OthersWorkSurvives, EditSeenInv, DoneInv, UndoRestoreChanges, UndoRestoreDoes
     DEF DiskType, SeenType, PlaceType, EditType, RenderType, SavedType, OthersWorkSurvives, EditSeenInv, DoneInv, OrderInv, Nothing, InTx, Installing, Edit, IsManaged, options, AloneAt, Holds, Written, Moves, Journals, Unwinds
<1>16. ASSUME NEW x \in Guarded, UndoFails(x) PROVE DoneInv'
  BY <1>0, <1>16, Names, OthersWorkSurvives, EditSeenInv, DoneInv, UndoFailsChanges, UndoFailsDoes
     DEF DiskType, SeenType, PlaceType, EditType, RenderType, SavedType, OthersWorkSurvives, EditSeenInv, DoneInv, OrderInv, Nothing, InTx, Installing, Edit, IsManaged, options, AloneAt, Holds, Written, Moves, Journals, Unwinds
<1>17. CASE Kill
  BY <1>0, <1>17, Names, OthersWorkSurvives, EditSeenInv, DoneInv
     DEF DiskType, SeenType, PlaceType, EditType, RenderType, SavedType, OthersWorkSurvives, EditSeenInv, DoneInv, OrderInv, Nothing, InTx, Installing, Edit, IsManaged, Kill, options, txVars
<1>18. CASE Rerun
  BY <1>0, <1>18, Names, OthersWorkSurvives, EditSeenInv, DoneInv
     DEF DiskType, SeenType, PlaceType, EditType, RenderType, SavedType, OthersWorkSurvives, EditSeenInv, DoneInv, OrderInv, Nothing, InTx, Installing, Edit, IsManaged, Rerun, options, txVars
<1>19. CASE UNCHANGED vars
  BY <1>19, <1>0, OthersWorkSurvives, EditSeenInv, DoneInv DEF DiskType, SeenType, PlaceType, EditType, RenderType, SavedType, OthersWorkSurvives, EditSeenInv, DoneInv, OrderInv, Nothing, InTx, Installing, Edit, IsManaged, vars, options, txVars
<1> QED BY ONLY [Next]_vars, <1>1, <1>2, <1>3, <1>4, <1>5, <1>6, <1>7, <1>8, <1>9, <1>10, <1>11, <1>12, <1>13, <1>14, <1>15, <1>16, <1>17, <1>18, <1>19
           DEF Next, Others, Applies, Undoes

LEMMA CleanStep ==
  ASSUME TypeInv, OrderInv, UndoInv, CleanInv, [Next]_vars
  PROVE  CleanInv'
<1>0. DiskType /\ SeenType /\ PlaceType /\ EditType /\ RenderType /\ SavedType /\ AsideType
  BY DEF TypeInv
<1>1. ASSUME NEW p \in Paths, Replace(p) PROVE CleanInv'
  BY <1>0, <1>1, Names, UndoInv, CleanInv, ReplaceChanges
     DEF DiskType, SeenType, PlaceType, EditType, RenderType, SavedType, AsideType, UndoInv, CleanInv, OrderInv, Nothing, InTx, Installing, Restoring, Edit, OldOf, Trying, options, AloneAt, Holds, Written
<1>2. ASSUME NEW p \in Paths, WriteInPlace(p) PROVE CleanInv'
  BY <1>0, <1>2, Names, UndoInv, CleanInv, WriteInPlaceChanges
     DEF DiskType, SeenType, PlaceType, EditType, RenderType, SavedType, AsideType, UndoInv, CleanInv, OrderInv, Nothing, InTx, Installing, Restoring, Edit, OldOf, Trying, options, AloneAt, Holds, Written
<1>3. CASE RivalSaves
  BY <1>0, <1>3, Names, UndoInv, CleanInv, RivalSavesChanges
     DEF DiskType, SeenType, PlaceType, EditType, RenderType, SavedType, AsideType, UndoInv, CleanInv, OrderInv, Nothing, InTx, Installing, Restoring, Edit, OldOf, Trying, options, AloneAt, Holds, Written
<1>4. CASE Refuse
  BY <1>0, <1>4, Names, UndoInv, CleanInv
     DEF DiskType, SeenType, PlaceType, EditType, RenderType, SavedType, AsideType, UndoInv, CleanInv, OrderInv, Nothing, InTx, Installing, Restoring, Edit, OldOf, Trying, Refuse, options, txVars
<1>5. CASE Prepare
  <2>1. /\ \A p \in Paths : expected'[p] = disk[p].is
        /\ expected'[State] = saved /\ UNCHANGED <<rendered, overwrite, disk, edits>> /\ Conflicts = {}
        /\ phase' = "apply" /\ step' = "check"
        /\ \A x \in Edited : edit'[x] = Absent \/ edit'[x] = edit[x]
    BY <1>0, <1>5, Names, PrepareChanges, PrepareDoes DEF options, Edited
  <2>2. \A p \in Paths : Decision(OldOf(saved, p), disk[p].is, rendered.new[p], overwrite) # "conflict"
    BY <2>1 DEF Conflicts, Decided, Old, OldOf
  <2>3. \A p \in Paths : OldOf(expected[State], p)' = OldOf(saved, p)
    BY <2>1 DEF OldOf
  <2> QED BY <2>1, <2>2, <2>3, CleanInv DEF CleanInv, InTx, Edit, Installing
<1>6. ASSUME NEW x \in Files, CheckFile(x) PROVE CleanInv'
  BY <1>0, <1>6, Names, UndoInv, CleanInv, CheckFileChanges, CheckFileDoes
     DEF DiskType, SeenType, PlaceType, EditType, RenderType, SavedType, AsideType, UndoInv, CleanInv, OrderInv, Nothing, InTx, Installing, Restoring, Edit, OldOf, Trying, options, AloneAt, Holds, Written, Moves, Journals, Unwinds
<1>7. ASSUME NEW x \in Guarded, SetAside(x) PROVE CleanInv'
  BY <1>0, <1>7, Names, UndoInv, CleanInv, SetAsideChanges, SetAsideDoes
     DEF DiskType, SeenType, PlaceType, EditType, RenderType, SavedType, AsideType, UndoInv, CleanInv, OrderInv, Nothing, InTx, Installing, Restoring, Edit, OldOf, Trying, options, AloneAt, Holds, Written, Moves, Journals, Unwinds
<1>8. ASSUME NEW x \in Guarded, Install(x) PROVE CleanInv'
  BY <1>0, <1>8, Names, UndoInv, CleanInv, InstallChanges, InstallDoes
     DEF DiskType, SeenType, PlaceType, EditType, RenderType, SavedType, AsideType, UndoInv, CleanInv, OrderInv, Nothing, InTx, Installing, Restoring, Edit, OldOf, Trying, options, AloneAt, Holds, Written, Moves, Journals, Unwinds, Rendering
<1>9. CASE CheckManifest
  BY <1>0, <1>9, Names, UndoInv, CleanInv
     DEF DiskType, SeenType, PlaceType, EditType, RenderType, SavedType, AsideType, UndoInv, CleanInv, OrderInv, Nothing, InTx, Installing, Restoring, Edit, OldOf, Trying, CheckManifest, options, txVars
<1>10. CASE SetStateAside
  BY <1>0, <1>10, Names, UndoInv, CleanInv
     DEF DiskType, SeenType, PlaceType, EditType, RenderType, SavedType, AsideType, UndoInv, CleanInv, OrderInv, Nothing, InTx, Installing, Restoring, Edit, OldOf, Trying, SetStateAside, options, txVars
<1>11. CASE InstallState
  BY <1>0, <1>11, Names, UndoInv, CleanInv, InstallStateDoes
     DEF DiskType, SeenType, PlaceType, EditType, RenderType, SavedType, AsideType, UndoInv, CleanInv, OrderInv, Nothing, InTx, Installing, Restoring, Edit, OldOf, Trying, options, Moves, Journals, Unwinds
<1>12. CASE Fail
  BY <1>0, <1>12, Names, UndoInv, CleanInv, FailChanges
     DEF DiskType, SeenType, PlaceType, EditType, RenderType, SavedType, AsideType, UndoInv, CleanInv, OrderInv, Nothing, InTx, Installing, Restoring, Edit, OldOf, Trying, options, AloneAt, Holds, Written
<1>13. CASE RolledBack
  BY <1>0, <1>13, Names, UndoInv, CleanInv
     DEF DiskType, SeenType, PlaceType, EditType, RenderType, SavedType, AsideType, UndoInv, CleanInv, OrderInv, Nothing, InTx, Installing, Restoring, Edit, OldOf, Trying, RolledBack, options, txVars
<1>14. ASSUME NEW x \in Guarded, UndoRemove(x) PROVE CleanInv'
  BY <1>0, <1>14, Names, UndoInv, CleanInv, UndoRemoveChanges
     DEF DiskType, SeenType, PlaceType, EditType, RenderType, SavedType, AsideType, UndoInv, CleanInv, OrderInv, Nothing, InTx, Installing, Restoring, Edit, OldOf, Trying, options, AloneAt, Holds, Written
<1>15. ASSUME NEW x \in Guarded, UndoRestore(x) PROVE CleanInv'
  BY <1>0, <1>15, Names, UndoInv, CleanInv, UndoRestoreChanges, UndoRestoreDoes
     DEF DiskType, SeenType, PlaceType, EditType, RenderType, SavedType, AsideType, UndoInv, CleanInv, OrderInv, Nothing, InTx, Installing, Restoring, Edit, OldOf, Trying, options, AloneAt, Holds, Written, Moves, Journals, Unwinds
<1>16. ASSUME NEW x \in Guarded, UndoFails(x) PROVE CleanInv'
  <2>1. /\ broken' = TRUE /\ UNCHANGED <<rendered, overwrite, expected, edit, edits>>
        /\ phase' = "rollback" /\ phase = "rollback"
    BY <1>16, UndoFailsDoes DEF options
  <2> QED BY <2>1, CleanInv DEF CleanInv, InTx, Edit, OldOf
<1>17. CASE Kill
  BY <1>0, <1>17, Names, UndoInv, CleanInv
     DEF DiskType, SeenType, PlaceType, EditType, RenderType, SavedType, AsideType, UndoInv, CleanInv, OrderInv, Nothing, InTx, Installing, Restoring, Edit, OldOf, Trying, Kill, options, txVars
<1>18. CASE Rerun
  BY <1>0, <1>18, Names, UndoInv, CleanInv
     DEF DiskType, SeenType, PlaceType, EditType, RenderType, SavedType, AsideType, UndoInv, CleanInv, OrderInv, Nothing, InTx, Installing, Restoring, Edit, OldOf, Trying, Rerun, options, txVars
<1>19. CASE UNCHANGED vars
  BY <1>19, <1>0, UndoInv, CleanInv DEF DiskType, SeenType, PlaceType, EditType, RenderType, SavedType, AsideType, UndoInv, CleanInv, OrderInv, Nothing, InTx, Installing, Restoring, Edit, OldOf, Trying, vars, options, txVars
<1> QED BY ONLY [Next]_vars, <1>1, <1>2, <1>3, <1>4, <1>5, <1>6, <1>7, <1>8, <1>9, <1>10, <1>11, <1>12, <1>13, <1>14, <1>15, <1>16, <1>17, <1>18, <1>19
           DEF Next, Others, Applies, Undoes

LEMMA RerunStep ==
  ASSUME TypeInv, OrderInv, UndoInv, DoneInv, CleanInv, RerunIsClean, [Next]_vars
  PROVE  RerunIsClean'
<1>0. PlaceType
  BY DEF TypeInv
<1>1. ASSUME NEW p \in Paths, Replace(p) PROVE RerunIsClean'
  <2>1. edits' # 0
    BY <1>1, EditIsNew, TypeInv DEF TypeInv, Replace
  <2> QED BY <2>1 DEF RerunIsClean
<1>2. ASSUME NEW p \in Paths, WriteInPlace(p) PROVE RerunIsClean'
  <2>1. edits' # 0
    BY <1>2, EditIsNew, TypeInv DEF TypeInv, WriteInPlace
  <2> QED BY <2>1 DEF RerunIsClean
<1>3. CASE RivalSaves
  <2>1. edits' # 0
    BY <1>3, EditIsNew, TypeInv DEF TypeInv, RivalSaves
  <2> QED BY <2>1 DEF RerunIsClean
<1>4. CASE Refuse
  <2>1. phase' # "killed" \/ edits' # 0
    BY <1>4, <1>0 DEF Refuse, PlaceType, Ended
  <2> QED BY <2>1 DEF RerunIsClean
<1>5. CASE Prepare
  <2>1. phase' # "killed" \/ edits' # 0
    BY <1>5, <1>0, PrepareDoes DEF Moves, PlaceType
  <2> QED BY <2>1 DEF RerunIsClean
<1>6. ASSUME NEW x \in Files, CheckFile(x) PROVE RerunIsClean'
  <2>1. phase' # "killed" \/ edits' # 0
    BY <1>6, <1>0, CheckFileDoes DEF Moves, PlaceType
  <2> QED BY <2>1 DEF RerunIsClean
<1>7. ASSUME NEW x \in Guarded, SetAside(x) PROVE RerunIsClean'
  <2>1. phase' # "killed" \/ edits' # 0
    BY <1>7, <1>0, SetAsideDoes DEF Moves, PlaceType
  <2> QED BY <2>1 DEF RerunIsClean
<1>8. ASSUME NEW x \in Guarded, Install(x) PROVE RerunIsClean'
  <2>1. phase' # "killed" \/ edits' # 0
    BY <1>8, <1>0, InstallDoes DEF Moves, PlaceType
  <2> QED BY <2>1 DEF RerunIsClean
<1>9. CASE CheckManifest
  <2>1. phase' # "killed" \/ edits' # 0
    BY <1>9, <1>0 DEF CheckManifest, PlaceType, Ended
  <2> QED BY <2>1 DEF RerunIsClean
<1>10. CASE SetStateAside
  <2>1. phase' # "killed" \/ edits' # 0
    BY <1>10, <1>0 DEF SetStateAside, PlaceType, Ended
  <2> QED BY <2>1 DEF RerunIsClean
<1>11. CASE InstallState
  <2>1. phase' # "killed" \/ edits' # 0
    BY <1>11, <1>0, InstallStateDoes DEF Moves, PlaceType
  <2> QED BY <2>1 DEF RerunIsClean
<1>12. CASE Fail
  <2>1. phase' # "killed" \/ edits' # 0
    BY <1>12, <1>0 DEF Fail, PlaceType, Ended
  <2> QED BY <2>1 DEF RerunIsClean
<1>13. CASE RolledBack
  <2>1. phase' # "killed" \/ edits' # 0
    BY <1>13, <1>0 DEF RolledBack, PlaceType, Ended
  <2> QED BY <2>1 DEF RerunIsClean
<1>14. ASSUME NEW x \in Guarded, UndoRemove(x) PROVE RerunIsClean'
  <2>1. phase' # "killed" \/ edits' # 0
    BY <1>14, <1>0 DEF UndoRemove, PlaceType, Ended
  <2> QED BY <2>1 DEF RerunIsClean
<1>15. ASSUME NEW x \in Guarded, UndoRestore(x) PROVE RerunIsClean'
  <2>1. phase' # "killed" \/ edits' # 0
    BY <1>15, <1>0, UndoRestoreDoes DEF Moves, PlaceType
  <2> QED BY <2>1 DEF RerunIsClean
<1>16. ASSUME NEW x \in Guarded, UndoFails(x) PROVE RerunIsClean'
  <2>1. phase' # "killed" \/ edits' # 0
    BY <1>16, <1>0, UndoFailsDoes DEF Moves, PlaceType
  <2> QED BY <2>1 DEF RerunIsClean
<1>17. CASE Kill
  <2>1. InTx /\ UNCHANGED <<rendered, overwrite, disk, saved, step, broken, edits>>
    BY <1>17, <1>0 DEF Kill, Ended, PlaceType, InTx, options
  <2>2. ASSUME edits = 0, ~broken, NEW p \in Conflicts
        PROVE  disk[p] = Nothing /\ step \in {"install", "restore"}
    <3>1. p \in Paths /\ Decision(Old(p), disk[p].is, rendered.new[p], overwrite) = "conflict"
      BY DEF Conflicts, Decided
    <3>2. /\ rendered.new[p] \in Entries /\ OldOf(expected[State], p) \in Entries /\ Old(p) \in Entries
          /\ overwrite \in BOOLEAN
      BY <3>1, Names DEF TypeInv, RenderType, Entries, Old, OldOf
    <3>3. disk[p].is # rendered.new[p]
      BY <3>1, <3>2, RenderedIsNoConflict
    <3>4. CASE disk[p] = Nothing /\ (Installing(p) \/ Restoring(p))
      BY <3>4 DEF Installing, Restoring
    <3>5. CASE disk[p].is = expected[p] /\ ~Installing(State)
      <4>1. saved = expected[State]
        BY <2>1, <3>5, UndoInv DEF UndoInv, Trying, InTx
      <4>2. Decision(OldOf(saved, p), expected[p], rendered.new[p], overwrite) # "conflict"
        BY <2>1, <3>1, <4>1, CleanInv DEF CleanInv
      <4> QED BY <3>1, <3>5, <4>2 DEF Old, OldOf
    <3>6. CASE Installing(State)
      <4>1. phase = "apply" /\ Head(todo) = State /\ saved = Absent
        BY <3>6, UndoInv DEF Installing, UndoInv, Trying
      <4>2. p \notin ToSet(todo) /\ ~Edit(p)
        BY <2>2, <3>1, <4>1, StateIsLast, Names, CleanInv DEF CleanInv
      <4>3. rendered.new[p] = Absent
        BY <3>1, <3>3, <4>1, <4>2, DoneInv DEF DoneInv, IsManaged
      <4>4. Old(p) = Absent
        BY <4>1, Names DEF Old
      <4> QED BY <3>1, <4>3, <4>4 DEF Decision, Untracked
    <3> QED BY <2>1, <2>2, <3>1, <3>3, <3>4, <3>5, <3>6, CleanInv DEF CleanInv
  <2>3. Conflicts' = Conflicts
    BY <2>1 DEF Conflicts, Decided, Old
  <2> QED BY <2>1, <2>2, <2>3 DEF RerunIsClean
<1>18. CASE Rerun
  <2>1. phase' # "killed" \/ edits' # 0
    BY <1>18, <1>0 DEF Rerun, PlaceType, Ended
  <2> QED BY <2>1 DEF RerunIsClean
<1>19. CASE UNCHANGED vars
  <2>1. Conflicts' = Conflicts
    BY <1>19 DEF vars, options, txVars, Conflicts, Decided, Old
  <2> QED BY <1>19, <2>1, RerunIsClean DEF vars, options, txVars, RerunIsClean
<1> QED BY ONLY [Next]_vars, <1>1, <1>2, <1>3, <1>4, <1>5, <1>6, <1>7, <1>8, <1>9, <1>10, <1>11, <1>12, <1>13, <1>14, <1>15, <1>16, <1>17, <1>18, <1>19
           DEF Next, Others, Applies, Undoes

-----------------------------------------------------------------------------
(* The theorems.                                                             *)

LEMMA Initially == Init => IInv
<1> SUFFICES ASSUME Init PROVE IInv
  OBVIOUS
<1>1. /\ phase = "idle" /\ step = "check" /\ todo = <<>> /\ undo = <<>> /\ saved = "old"
      /\ aside = Nothing /\ broken = FALSE /\ edits = 0 /\ runs = 1
      /\ rendered \in [old : [Paths -> {"v1", Absent}], new : [Paths -> {"v1", "v2", Absent}]]
      /\ overwrite \in BOOLEAN
  BY DEF Init
<1>2. RenderType /\ SavedType /\ PlaceType /\ SeqType
  BY <1>1 DEF RenderType, SavedType, SavedStates, PlaceType, SeqType
<1>3. /\ DOMAIN disk = Guarded /\ disk[Manifest].is = {} /\ disk[Manifest].ino = "first"
      /\ disk[Manifest] \in ManifestEntries
  BY Names DEF Init, Entry, ManifestEntries, Inodes
<1>4. /\ \A x \in Answers : disk[x] = Entry("v1", "first")
      /\ \A x \in Paths : disk[x] = IF rendered.old[x] = Absent THEN Nothing ELSE Entry(rendered.old[x], "first")
  BY Names DEF Init
<1>5. \A x \in Files : disk[x] \in FileEntries
  <2>1. Entry("v1", "first") \in FileEntries
    BY Names DEF Entry, FileEntries, Inodes
  <2>2. \A x \in Paths : rendered.old[x] \in {"v1", Absent}
    BY <1>1
  <2>3. Nothing \in FileEntries
    BY DEF FileEntries
  <2>4. \A x \in Paths : disk[x] \in FileEntries
    BY <1>4, <2>1, <2>2, <2>3
  <2> QED BY <1>4, <2>1, <2>4 DEF Files
<1>6. DiskType
  BY <1>3, <1>5 DEF DiskType
<1>7. /\ DOMAIN expected = Edited \cup {State} /\ \A p \in Paths : expected[p] = Absent
      /\ expected[Manifest] = Absent /\ expected[State] = Absent
      /\ guard \in [Guarded -> Inodes \cup {"none"}] /\ \A x \in Guarded : guard[x] = "none"
      /\ before = [x \in Files |-> Nothing] /\ DOMAIN edit = Edited /\ \A x \in Edited : edit[x] = Absent
  BY Names DEF Init
<1>8. SeenType
  <2>1. /\ \A p \in Paths : expected[p] \in Entries
        /\ expected[Manifest] \in (SUBSET {"tx", "rival"}) \cup {Absent} /\ expected[State] \in SavedStates
    BY ONLY <1>7 DEF Entries, SavedStates
  <2> QED BY <1>1, <1>7, <2>1 DEF SeenType
<1>9. AsideType /\ BackupType
  BY <1>1, <1>7 DEF AsideType, BackupType, FileEntries
<1>10. EditType
  BY <1>1, <1>7, Names, ReconcileAssumption DEF EditType
<1>11. OrderInv
  BY <1>1 DEF OrderInv
<1>12. FreshInv
  <2>1. \A p \in Paths : /\ disk[p].is \in {"v1", Absent} /\ disk[p].ino \in {"first", "none"}
                         /\ guard[p] = "none" /\ expected[p] = Absent /\ edit[p] = Absent
                         /\ before[p].is = Absent
    <3> SUFFICES ASSUME NEW p \in Paths
                 PROVE  /\ disk[p].is \in {"v1", Absent} /\ disk[p].ino \in {"first", "none"}
                        /\ guard[p] = "none" /\ expected[p] = Absent /\ edit[p] = Absent
                        /\ before[p].is = Absent
      OBVIOUS
    <3>1. p \in Guarded /\ p \in Files /\ p \in Edited
      BY Names DEF Guarded, Files, Edited
    <3>2. guard[p] = "none" /\ expected[p] = Absent /\ edit[p] = Absent /\ before[p] = Nothing
      BY ONLY <1>7, <3>1
    <3>3. Nothing.is = Absent /\ Nothing.ino = "none"
      BY DEF Nothing
    <3>4. Entry("v1", "first").is = "v1" /\ Entry("v1", "first").ino = "first"
      BY DEF Entry
    <3>5. rendered.old[p] \in {"v1", Absent}
      BY ONLY <1>1
    <3>6. disk[p] = Nothing \/ disk[p] = Entry("v1", "first")
      BY ONLY <1>4, <3>5
    <3> QED BY ONLY <3>2, <3>3, <3>4, <3>6
  <2>2. \A p \in Paths : ~Installing(p)
    BY <1>1 DEF Installing
  <2> QED BY <2>1, <2>2, Names DEF FreshInv
<1>13. OthersWorkSurvives
  BY <1>7, Names DEF OthersWorkSurvives
<1>14. EditSeenInv
  BY <1>1 DEF EditSeenInv, InTx, Installing
<1>15. RivalInv
  BY <1>1, <1>3 DEF RivalInv, InTx, Installing, Restoring
<1>16. UndoInv /\ DoneInv /\ CleanInv /\ RerunIsClean
  BY <1>1, <1>7 DEF UndoInv, DoneInv, CleanInv, RerunIsClean, InTx, Trying, Edit
<1> QED BY <1>2, <1>6, <1>8, <1>9, <1>10, <1>11, <1>12, <1>13, <1>14, <1>15, <1>16 DEF IInv, TypeInv

LEMMA Always == Spec => []IInv
<1>1. IInv /\ [Next]_vars => IInv'
  <2> SUFFICES ASSUME IInv, [Next]_vars PROVE IInv'
    OBVIOUS
  <2>1. /\ TypeInv /\ OrderInv /\ FreshInv /\ OthersWorkSurvives /\ EditSeenInv /\ RivalInv
        /\ UndoInv /\ DoneInv /\ CleanInv /\ RerunIsClean
    BY DEF IInv
  <2>2. TypeInv'
    BY <2>1, PlaceStep, SeqStep, DiskStep, SeenStep, AsideStep, BackupStep, EditStep, RestStep DEF TypeInv
  <2>3. OrderInv' /\ FreshInv' /\ OthersWorkSurvives' /\ EditSeenInv' /\ RivalInv'
    BY <2>1, OrderStep, FreshStep, SurvivesStep, EditSeenStep, RivalStep
  <2>4. UndoInv' /\ DoneInv' /\ CleanInv' /\ RerunIsClean'
    BY <2>1, UndoStep, DoneStep, CleanStep, RerunStep
  <2> QED BY <2>2, <2>3, <2>4 DEF IInv
<1> QED BY <1>1, Initially, PTL DEF Spec

(* The update's variables keep their types: entries, journal, order and       *)
(* edits, at every step of copierx's apply and rollback.                      *)
THEOREM ReconcileTyping == Spec => []TypeOK
<1>1. IInv => TypeOK
  <2> SUFFICES ASSUME IInv PROVE TypeOK
    OBVIOUS
  <2>1. /\ RenderType /\ DiskType /\ SavedType /\ PlaceType /\ SeqType /\ BackupType /\ EditType
    BY DEF IInv, TypeInv
  <2>2. rendered \in [old : [Paths -> {"v1", Absent}], new : [Paths -> {"v1", "v2", Absent}]]
    BY <2>1 DEF RenderType
  <2>3. rendered \in [old : [Paths -> Entries], new : [Paths -> Entries]]
    <3>1. {"v1", Absent} \subseteq Entries /\ {"v1", "v2", Absent} \subseteq Entries
      BY Names DEF Entries
    <3> QED BY ONLY <2>2, <3>1
  <2>4. \A x \in Files : disk[x].is \in Entries /\ (disk[x].is = Absent <=> disk[x].ino = "none")
    BY <2>1, Names DEF DiskType, FileEntries, Inodes, Nothing, Entries
  <2>5. disk[Manifest] = Nothing \/ disk[Manifest].is \subseteq {"tx", "rival"}
    BY <2>1 DEF DiskType, ManifestEntries
  <2>6. ToSet(todo) \subseteq Guarded \cup {State} /\ ToSet(undo) \subseteq Guarded
    BY <2>1 DEF SeqType, ToSet
  <2>7. \A x \in Edited : edit[x] \in Entries \cup {"rival"}
    BY <2>1, Names DEF EditType, Edited, Entries
  <2> QED BY <2>1, <2>3, <2>4, <2>5, <2>6, <2>7
          DEF TypeOK, RenderType, SavedType, SavedStates, PlaceType, BackupType, EditType
<1> QED BY <1>1, Always, PTL

(* No update without --overwrite replaces, removes or undoes away what        *)
(* somebody else wrote at a rendered path, and none loses what another        *)
(* process saved in angee.yaml, whatever fails and whenever it is killed.     *)
THEOREM OthersWorkAlwaysSurvives == Spec => []OthersWorkSurvives
<1>1. IInv => OthersWorkSurvives
  BY DEF IInv
<1> QED BY <1>1, Always, PTL

(* An update that fails and can undo what it did leaves paths, angee.yaml and *)
(* render state as it found them; one that succeeds leaves all as rendered.   *)
THEOREM UpdatesAreAllOrNothing == Spec => []AllOrNothing
<1>1. IInv => AllOrNothing
  <2> SUFFICES ASSUME IInv PROVE AllOrNothing
    OBVIOUS
  <2>1. UndoInv /\ DoneInv
    BY DEF IInv
  <2>2. phase = "failed" => ToSet(undo) = {} /\ \A x : ~Installing(x)
    BY <2>1 DEF UndoInv, Installing, ToSet
  <2> QED BY <2>1, <2>2 DEF AllOrNothing, UndoInv, DoneInv, Trying, IsManaged
<1> QED BY <1>1, Always, PTL

(* An update that was killed at any step, with nobody editing, can be asked   *)
(* for again without a conflict, but for the path it was replacing.           *)
THEOREM RerunsAreClean == Spec => []RerunIsClean
<1>1. IInv => RerunIsClean
  BY DEF IInv
<1> QED BY <1>1, Always, PTL

=============================================================================
