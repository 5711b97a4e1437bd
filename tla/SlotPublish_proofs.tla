------------------------- MODULE SlotPublish_proofs -------------------------
(***************************************************************************)
(* The verbs of jj slots that share one cache: for any slots, processes and *)
(* numbers of verbs, of acts of the agents and of pushes by others, what    *)
(* was fetched stays; what is pushed was checked or found, or a rebase or   *)
(* an agent has put it under the bookmark; and a rebase moves no other slot *)
(* but where others' rebases have put slot and slot together.               *)
(***************************************************************************)
EXTENDS SlotPublish, FiniteSetTheorems, FunctionTheorems, SequenceTheorems, WellFoundedInduction, TLAPS

Ids == DOMAIN commits

(* The changes that name a commit or a working copy.                          *)
Used == Changes(Ids) \cup {wc[s] : s \in Slots}

-----------------------------------------------------------------------------
(* Numbers and finite sets.                                                   *)

(* A set of numbers has a least one.                                          *)
LEMMA Least == ASSUME NEW T, T \subseteq Nat, T # {} PROVE \E x \in T : \A y \in T : x <= y
<1> DEFINE R == OpToRel(<, Nat)
<1>1. IsWellFoundedOn(R, Nat)
  BY NatLessThanWellFounded
<1>2. \A x, y \in Nat : x < y => <<x, y>> \in R
  BY DEF OpToRel
<1> HIDE DEF R
<1>3. PICK x \in T : \A y \in T : ~ (<<y, x>> \in R)
  BY <1>1, WFMin
<1>4. ASSUME NEW y \in T PROVE x <= y
  <2>1. x \in Nat /\ y \in Nat /\ ~ (y < x)
    BY <1>2, <1>3, <1>4
  <2> QED BY <2>1
<1> QED BY <1>4

(* A finite set of numbers has a greatest one, Max.                           *)
LEMMA Greatest ==
  ASSUME NEW S, S \subseteq Nat, S # {}, IsFiniteSet(S)
  PROVE  Max(S) \in S /\ \A y \in S : y <= Max(S)
<1>1. PICK n \in Nat : ExistsBijection(1..n, S)
  BY FS_NatBijection
<1>2. PICK f \in [1..n -> S] : \A y \in S : \E i \in 1..n : f[i] = y
  BY <1>1 DEF ExistsBijection, Bijection, Surjection
<1> DEFINE Bad == {k \in 0..n : ~ \E b \in Nat : \A i \in 1..k : f[i] <= b}
<1>3. Bad = {}
  <2> SUFFICES ASSUME Bad # {} PROVE FALSE
    OBVIOUS
  <2>1. PICK k \in Bad : \A j \in Bad : k <= j
    <3>1. Bad \subseteq Nat
      OBVIOUS
    <3> HIDE DEF Bad
    <3> QED BY <3>1, Least
  <2>2. k # 0
    <3>1. \A i \in 1..0 : f[i] <= 0
      OBVIOUS
    <3> QED BY <3>1
  <2>3. k \in 1..n /\ k - 1 \in 0..n /\ k - 1 \notin Bad
    <3>1. k \in 1..n /\ k - 1 \in 0..n /\ ~(k <= k - 1)
      BY <2>2
    <3> HIDE DEF Bad
    <3> QED BY <2>1, <3>1
  <2>4. PICK b \in Nat : \A i \in 1..(k - 1) : f[i] <= b
    BY <2>3
  <2>5. f[k] \in Nat
    BY <2>3, <1>2
  <2>6. PICK c \in Nat : b <= c /\ f[k] <= c
    <3>1. \A x, y \in Nat : \E z \in Nat : x <= z /\ y <= z
      <4>1. \A x, y \in Nat : x <= x + y /\ y <= x + y /\ x + y \in Nat
        OBVIOUS
      <4> QED BY <4>1
    <3> QED BY <3>1, <2>5
  <2>7. ASSUME NEW i \in 1..k PROVE f[i] <= c
    <3>1. CASE i = k
      BY <3>1, <2>6
    <3>2. CASE i # k
      <4>1. i \in 1..(k - 1) /\ i \in 1..n
        BY <3>2, <2>1
      <4>2. f[i] \in Nat /\ f[i] <= b
        BY <4>1, <2>4, <1>2
      <4> QED BY <4>2, <2>6
    <3> QED BY <3>1, <3>2
  <2> QED BY <2>1, <2>7
<1>4. PICK b \in Nat : \A i \in 1..n : f[i] <= b
  <2>1. n \in 0..n /\ n \notin Bad
    <3>1. n \in 0..n
      OBVIOUS
    <3> HIDE DEF Bad
    <3> QED BY <1>3, <3>1
  <2> QED BY <2>1
<1>5. \A y \in S : y <= b
  BY <1>2, <1>4
<1> DEFINE Above == {x \in Nat : \A y \in S : y <= x}
<1>6. PICK x \in Above : \A z \in Above : x <= z
  <2>1. Above \subseteq Nat /\ b \in Above
    BY <1>5
  <2> HIDE DEF Above
  <2> QED BY <2>1, Least
<1>7. x \in S
  <2> SUFFICES ASSUME x \notin S PROVE FALSE
    OBVIOUS
  <2>1. \A y \in S : y \in Nat /\ y < x
    BY <1>6
  <2>2. PICK y \in S : TRUE
    OBVIOUS
  <2>3. x \in Nat /\ y \in Nat /\ y < x
    BY <1>6, <2>1
  <2>4. x - 1 \in Nat /\ x - 1 < x
    BY <2>3
  <2>5. \A z \in S : z <= x - 1
    BY <2>1, <2>3
  <2> QED BY <1>6, <2>3, <2>4, <2>5
<1>8. \E z \in S : \A y \in S : z >= y
  BY <1>6, <1>7
<1>9. Max(S) \in S /\ \A y \in S : Max(S) >= y
  BY <1>8 DEF Max
<1> QED BY <1>9

(* Counted from below, the elements of a finite set of numbers take the       *)
(* places from one to their number, each its own, in their order.             *)
LEMMA Places ==
  ASSUME NEW n \in Nat, NEW scope, scope \subseteq 1..n
  PROVE  /\ Cardinality(scope) \in Nat
         /\ \A c \in scope : Place(scope, c) \in 1..Cardinality(scope)
         /\ \A c, d \in scope : c < d => Place(scope, c) < Place(scope, d)
         /\ \A i \in 1..Cardinality(scope) : \E c \in scope : Place(scope, c) = i
<1> DEFINE k == Cardinality(scope)
           Upto(c) == {d \in scope : d <= c}
<1>1. IsFiniteSet(scope) /\ k \in Nat
  <2>1. IsFiniteSet(1..n)
    BY FS_Interval
  <2>2. IsFiniteSet(scope)
    BY <2>1, FS_Subset
  <2> QED BY <2>2, FS_CardinalityType
<1>2. ASSUME NEW c \in scope
      PROVE  IsFiniteSet(Upto(c)) /\ Cardinality(Upto(c)) \in 1..k
  <2>1. Upto(c) \in SUBSET scope /\ c \in Upto(c)
    OBVIOUS
  <2>2. IsFiniteSet(Upto(c)) /\ Cardinality(Upto(c)) <= k
    BY <1>1, <2>1, FS_Subset
  <2>3. Cardinality(Upto(c)) \in Nat /\ Cardinality(Upto(c)) # 0
    BY <2>1, <2>2, FS_CardinalityType, FS_EmptySet
  <2> QED BY <1>1, <2>2, <2>3
<1>3. ASSUME NEW c \in scope, NEW d \in scope, c < d
      PROVE  Cardinality(Upto(c)) < Cardinality(Upto(d))
  <2>1. Upto(c) \in SUBSET Upto(d) /\ d \in Upto(d) /\ d \notin Upto(c)
    <3>1. \A e \in scope : e \in Nat
      OBVIOUS
    <3>2. d <= d /\ ~(d <= c) /\ \A e \in scope : e <= c => e <= d
      BY <1>3, <3>1
    <3> QED BY <3>2
  <2>2. /\ Cardinality(Upto(c)) <= Cardinality(Upto(d))
        /\ Cardinality(Upto(c)) # Cardinality(Upto(d))
    BY <1>2, <2>1, FS_Subset
  <2>3. Cardinality(Upto(c)) \in Nat /\ Cardinality(Upto(d)) \in Nat
    BY <1>2
  <2> QED BY <2>2, <2>3
<1>4. \A i \in 1..k : \E c \in scope : Cardinality(Upto(c)) = i
  <2> DEFINE f == [c \in scope |-> Cardinality(Upto(c))]
  <2>1. f \in [scope -> 1..k]
    BY <1>2
  <2>2. \A c, d \in scope : f[c] = f[d] => c = d
    <3> SUFFICES ASSUME NEW c \in scope, NEW d \in scope, f[c] = f[d] PROVE c = d
      OBVIOUS
    <3>1. ~(c < d) /\ ~(d < c)
      BY <1>2, <1>3
    <3> QED BY <3>1
  <2>3. f \in Injection(scope, 1..k)
    BY <2>1, <2>2 DEF Injection, IsInjective
  <2>4. IsFiniteSet(1..k) /\ Cardinality(1..k) = k
    BY <1>1, FS_Interval
  <2>5. f \in Surjection(scope, 1..k)
    BY <2>3, <2>4, <1>1, FS_Injection
  <2>6. \A i \in 1..k : \E c \in scope : f[c] = i
    <3> HIDE DEF f
    <3> QED BY <2>5 DEF Surjection
  <2> QED BY <2>6
<1> QED BY <1>1, <1>2, <1>3, <1>4 DEF Place

-----------------------------------------------------------------------------
(* The commits, which no step takes away or changes.                          *)

(* The changes of a commit and its ancestors; of a branch; of what a commit   *)
(* has above the base.                                                        *)
Holds(h, c) == {h[d].change : d \in h[c].past}
HoldsOn(h, b) == IF b = None THEN {} ELSE Holds(h, b)
HoldsAbove(h, c) == {h[d].change : d \in h[c].past \ {OldBase, NewBase}}

Extends == Ids \subseteq Ids' /\ \A c \in Ids : commits'[c] = commits[c]

LEMMA History ==
  ASSUME CommitsOK
  PROVE  /\ Len(commits) \in Nat /\ Ids = 1..Len(commits)
         /\ \A c \in Ids : /\ commits[c] \in [change : Nat, past : SUBSET Ids]
                           /\ commits[c].change \in Nat /\ Past(c) = commits[c].past
                           /\ c \in Past(c) /\ Past(c) \subseteq 1..c /\ Past(c) \subseteq Ids
                           /\ \A d \in Past(c) : Past(d) \subseteq Past(c)
<1>1. Len(commits) \in Nat /\ Ids = 1..Len(commits)
  BY DEF CommitsOK, Ids
<1>2. \A c \in Ids : commits[c] \in [change : Nat, past : SUBSET Ids]
  BY <1>1, ElementOfSeq DEF CommitsOK, Ids
<1>3. \A c \in Ids : c \in Past(c) /\ Past(c) \subseteq 1..c /\ \A d \in Past(c) : Past(d) \subseteq Past(c)
  BY DEF CommitsOK, Ids
<1> QED BY <1>1, <1>2, <1>3 DEF Past

(* A commit is put on others, with all their ancestors.                       *)
LEMMA Appended ==
  ASSUME CommitsOK, NEW change \in Nat, NEW past \in SUBSET Ids,
         \A d \in past : Past(d) \subseteq past, NewCommit(change, past)
  PROVE  LET n == Len(commits) + 1 IN
         /\ CommitsOK' /\ Extends /\ n \notin Ids /\ Ids' = Ids \cup {n}
         /\ commits'[n].change = change /\ commits'[n].past = past \cup {n}
<1> DEFINE n == Len(commits) + 1
           R == [change : Nat, past : SUBSET (Ids \cup {n})]
           new == Commit(change, past \cup {n})
<1>1. n \in Nat /\ n \notin Ids /\ Ids \cup {n} = 1..n /\ Ids = 1..Len(commits)
  BY History
<1>2. commits \in Seq(R)
  <2>1. commits \in Seq([change : Nat, past : SUBSET Ids])
    BY DEF CommitsOK, Ids
  <2>2. [change : Nat, past : SUBSET Ids] \subseteq R
    OBVIOUS
  <2> HIDE DEF R
  <2> QED BY <2>1, <2>2, SeqMonotonic
<1>3. new \in R
  BY DEF Commit
<1>4. commits' = Append(commits, new)
  BY DEF NewCommit
<1>5. /\ commits' \in Seq(R) /\ Len(commits') = n
      /\ \A i \in 1..Len(commits) : commits'[i] = commits[i]
      /\ commits'[n] = new
  <2> HIDE DEF R, new
  <2> QED BY <1>2, <1>3, <1>4, AppendProperties
<1>6. Ids' = Ids \cup {n}
  BY <1>1, <1>5 DEF Ids
<1>7. Extends
  BY <1>1, <1>5, <1>6 DEF Extends
<1>8. commits'[n].change = change /\ commits'[n].past = past \cup {n}
  BY <1>5 DEF Commit
<1>9. CommitsOK'
  <2>1. commits' \in Seq([change : Nat, past : SUBSET Ids'])
    BY <1>5, <1>6
  <2>2. ASSUME NEW c \in Ids
        PROVE  /\ c \in commits'[c].past /\ commits'[c].past \subseteq 1..c
               /\ \A d \in commits'[c].past : commits'[d].past \subseteq commits'[c].past
    <3>1. /\ c \in Past(c) /\ Past(c) \subseteq 1..c /\ Past(c) \subseteq Ids
          /\ \A d \in Past(c) : Past(d) \subseteq Past(c)
      BY <2>2, History
    <3>2. \A d \in Ids : commits'[d].past = Past(d)
      BY <1>7 DEF Extends, Past
    <3> QED BY <3>1, <3>2
  <2>3. /\ n \in commits'[n].past /\ commits'[n].past \subseteq 1..n
        /\ \A d \in commits'[n].past : commits'[d].past \subseteq commits'[n].past
    <3>1. \A d \in Ids : commits'[d].past = Past(d)
      BY <1>7 DEF Extends, Past
    <3>2. commits'[n].past \subseteq 1..n
      BY <1>1, <1>8
    <3> QED BY <1>8, <3>1, <3>2
  <2> QED BY <2>1, <2>2, <2>3, <1>6 DEF CommitsOK, Ids, Past
<1> QED BY <1>1, <1>6, <1>7, <1>8, <1>9

(* The base's two commits are where they were.                                *)
RootInv ==
  /\ {OldBase, NewBase} \subseteq Ids
  /\ commits[OldBase] = Commit(OldBase, {OldBase})
  /\ commits[NewBase] = Commit(NewBase, {OldBase, NewBase})

(* What jj shows are commits, with all their ancestors; what is immutable is   *)
(* part of it.                                                                *)
LEMMA Shown ==
  ASSUME CommitsOK, RepoOK, RootInv
  PROVE  /\ Visible \subseteq Ids /\ \A x \in Visible : Past(x) \subseteq Visible
         /\ Immutable \subseteq Visible /\ \A x \in Immutable : Past(x) \subseteq Immutable
<1> DEFINE shown == {tip[s] : s \in Slots} \cup local \cup Optional(seen) \cup {base}
           pinned == {base} \cup IF tracked THEN {} ELSE Optional(seen)
<1>1. shown \subseteq Ids /\ pinned \subseteq shown
  BY DEF RepoOK, RootInv, Optional, Ids
<1>2. \A y \in Ids : Past(y) \subseteq Ids /\ \A x \in Past(y) : Past(x) \subseteq Past(y)
  BY History
<1>3. Visible = UNION {Past(y) : y \in shown} /\ Immutable = UNION {Past(y) : y \in pinned}
  BY DEF Visible, Immutable, PastOf
<1> HIDE DEF shown, pinned
<1>4. Visible \subseteq Ids
  BY <1>1, <1>2, <1>3
<1>5. \A x \in Visible : Past(x) \subseteq Visible
  BY <1>1, <1>2, <1>3
<1>6. \A x \in Immutable : Past(x) \subseteq Immutable
  BY <1>1, <1>2, <1>3
<1>7. Immutable \subseteq Visible
  BY <1>1, <1>3
<1> QED BY <1>4, <1>5, <1>6, <1>7

(* What is rewritten is rewritten with all that is visible above it: no       *)
(* commit that stays has an ancestor that moves.                              *)
LEMMA UpwardClosed ==
  ASSUME CommitsOK, RepoOK, RootInv, NEW S
  PROVE  /\ Descendants(S) \subseteq Ids
         /\ \A c \in Descendants(S) : \A d \in Past(c) :
              d \notin Descendants(S) => Past(d) \cap Descendants(S) = {}
<1>1. Descendants(S) = {c \in Visible : Past(c) \cap S # {}}
  BY DEF Descendants
<1>2. ASSUME NEW c \in Descendants(S), NEW d \in Past(c), NEW e \in Past(d), e \in Descendants(S)
      PROVE  d \in Descendants(S)
  <2>1. d \in Visible /\ d \in Ids
    BY <1>1, Shown
  <2>2. Past(e) \subseteq Past(d) /\ Past(e) \cap S # {}
    BY <1>1, <1>2, <2>1, History
  <2> QED BY <1>1, <2>1, <2>2
<1> QED BY <1>1, <1>2, Shown

(* A rewrite adds a version of every commit it moves, and nothing else: of the *)
(* same change, on the versions of its ancestors and what it is moved onto.    *)
LEMMA Rewritten ==
  ASSUME CommitsOK, RepoOK, RootInv, NEW S, NEW onto \in {None} \cup Ids,
         Rewrite(Descendants(S), onto)
  PROVE  LET scope == Descendants(S)
             mv(c) == Moved(scope, c)
             under == IF onto = None THEN {} ELSE commits[onto].past
         IN /\ CommitsOK' /\ Extends
            /\ \A c \in Ids : mv(c) \in Ids' /\ (c \notin scope => mv(c) = c)
            /\ \A c \in scope : /\ mv(c) \notin Ids /\ commits'[mv(c)].change = commits[c].change
                                /\ commits'[mv(c)].past = {mv(d) : d \in commits[c].past} \cup under
            /\ \A n \in Ids' \ Ids : \E c \in scope : n = mv(c)
            /\ tip' = [s \in Slots |-> mv(tip[s])] /\ local' = {mv(c) : c \in local}
<1> DEFINE scope == Descendants(S)
           mv(c) == Moved(scope, c)
           under == IF onto = None THEN {} ELSE commits[onto].past
           m == Len(commits)
           k == Cardinality(scope)
           nth(i) == CHOOSE c \in scope : Place(scope, c) = i
           R == [change : Nat, past : SUBSET (1..(m + k))]
           added == [i \in 1..k |-> Version(scope, onto, nth(i))]
<1>1. m \in Nat /\ Ids = 1..m /\ scope \subseteq 1..m
  BY History, UpwardClosed
<1> HIDE DEF scope
<1>2. /\ k \in Nat
      /\ \A c \in scope : Place(scope, c) \in 1..k
      /\ \A c, d \in scope : c < d => Place(scope, c) < Place(scope, d)
      /\ \A i \in 1..k : \E c \in scope : Place(scope, c) = i
  BY <1>1, Places
<1>3. \A i \in 1..k : nth(i) \in scope /\ Place(scope, nth(i)) = i
  BY <1>2
<1>4. \A c \in scope : nth(Place(scope, c)) = c
  <2> SUFFICES ASSUME NEW c \in scope PROVE nth(Place(scope, c)) = c
    OBVIOUS
  <2> DEFINE d == nth(Place(scope, c))
  <2>1. d \in scope /\ Place(scope, d) = Place(scope, c)
    BY <1>2, <1>3
  <2> HIDE DEF d, nth
  <2>2. ~(c < d) /\ ~(d < c) /\ c \in Nat /\ d \in Nat
    <3>1. \A x \in 1..k : ~(x < x)
      BY <1>2
    <3> QED BY <1>1, <1>2, <2>1, <3>1
  <2> QED BY <2>2 DEF d
<1> HIDE DEF nth
<1>5. /\ \A c \in scope : mv(c) = m + Place(scope, c) /\ mv(c) \in (m + 1)..(m + k)
      /\ \A c \in Ids \ scope : mv(c) = c
      /\ \A c \in Ids : mv(c) \in 1..(m + k)
  <2>1. \A c \in scope : mv(c) = m + Place(scope, c) /\ Place(scope, c) \in 1..k
    BY <1>2 DEF Moved
  <2>2. \A c \in Ids \ scope : mv(c) = c
    BY DEF Moved
  <2> HIDE DEF mv, m, k
  <2>3. /\ \A x \in 1..k : m + x \in (m + 1)..(m + k) /\ m + x \in 1..(m + k)
        /\ \A x \in 1..m : x \in 1..(m + k)
    BY <1>1, <1>2
  <2>4. \A c \in scope : mv(c) \in (m + 1)..(m + k) /\ mv(c) \in 1..(m + k)
    BY <2>1, <2>3
  <2>5. \A c \in Ids \ scope : mv(c) \in 1..(m + k)
    BY <1>1, <2>2, <2>3
  <2> QED BY <2>1, <2>2, <2>4, <2>5
<1>6. under \subseteq Ids /\ \A d \in under : Past(d) \subseteq under
  <2>1. CASE onto = None
    BY <2>1
  <2>2. CASE onto # None
    <3>1. onto \in Ids /\ under = Past(onto)
      BY <2>2 DEF Past
    <3> HIDE DEF under
    <3> QED BY <3>1, History
  <2> QED BY <2>1, <2>2
<1>7. \A c \in scope : Version(scope, onto, c) =
        [change |-> commits[c].change, past |-> {mv(d) : d \in commits[c].past} \cup under]
  <2>1. PastOf(Optional(onto)) = under
    <3>1. CASE onto = None
      BY <3>1 DEF PastOf, Optional
    <3>2. CASE onto # None
      BY <3>2 DEF PastOf, Optional, Past
    <3> QED BY <3>1, <3>2
  <2>2. \A c \in scope : commits[c] \in [change : Nat, past : SUBSET Ids]
    BY <1>1, History
  <2> HIDE DEF under, mv
  <2>3. ASSUME NEW c \in scope PROVE Version(scope, onto, c) =
          [change |-> commits[c].change, past |-> {mv(d) : d \in commits[c].past} \cup under]
    <3>1. Version(scope, onto, c) = [commits[c] EXCEPT !.past = {mv(d) : d \in @} \cup under]
      BY <2>1 DEF Version, mv
    <3> QED BY <2>2, <3>1
  <2> QED BY <2>3
<1>8. added \in Seq(R) /\ Len(added) = k /\ \A i \in 1..k : added[i] = Version(scope, onto, nth(i))
  <2>1. ASSUME NEW c \in scope
        PROVE  [change |-> commits[c].change, past |-> {mv(d) : d \in commits[c].past} \cup under] \in R
    <3>1. commits[c].change \in Nat /\ commits[c].past \subseteq Ids
      BY <1>1, History
    <3>2. {mv(d) : d \in commits[c].past} \cup under \subseteq 1..(m + k)
      <4> HIDE DEF mv, under, m, k
      <4>1. Ids \subseteq 1..(m + k)
        BY <1>1, <1>2
      <4> QED BY <1>5, <1>6, <3>1, <4>1
    <3> HIDE DEF mv, under, m, k
    <3> QED BY <3>1, <3>2
  <2>2. \A i \in 1..k : Version(scope, onto, nth(i)) \in R
    <3> HIDE DEF R, mv, under
    <3> QED BY <1>3, <1>7, <2>1
  <2> HIDE DEF R, k
  <2> QED BY <1>2, <2>2
<1>9. commits \in Seq(R)
  <2>1. commits \in Seq([change : Nat, past : SUBSET Ids])
    BY DEF CommitsOK, Ids
  <2>2. Ids \subseteq 1..(m + k)
    <3> HIDE DEF m, k
    <3> QED BY <1>1, <1>2
  <2>3. [change : Nat, past : SUBSET Ids] \subseteq R
    BY <2>2
  <2> HIDE DEF R
  <2> QED BY <2>1, <2>3, SeqMonotonic
<1>10. commits' = commits \o added
  BY DEF Rewrite, nth, scope
<1>11. /\ commits' \in Seq(R) /\ Len(commits') = m + k
       /\ \A i \in 1..(m + k) : commits'[i] = IF i <= m THEN commits[i] ELSE added[i - m]
  <2> HIDE DEF R, added, m, k
  <2>1. Len(added) = k /\ \A i \in 1..k : added[i] = Version(scope, onto, nth(i))
    BY <1>8
  <2>2. /\ commits' \in Seq(R) /\ Len(commits') = Len(commits) + Len(added)
        /\ \A i \in 1..Len(commits) + Len(added) :
             commits'[i] = IF i <= Len(commits) THEN commits[i] ELSE added[i - Len(commits)]
    BY <1>8, <1>9, <1>10, ConcatProperties
  <2> QED BY <2>1, <2>2 DEF m
<1>12. Ids' = 1..(m + k)
  BY <1>11 DEF Ids
<1>13. Extends
  <2> HIDE DEF m, k, added
  <2>1. \A c \in 1..m : c <= m /\ c \in 1..(m + k)
    BY <1>1, <1>2
  <2>2. \A c \in Ids : commits'[c] = commits[c] /\ c \in Ids'
    BY <1>1, <1>11, <1>12, <2>1
  <2> QED BY <2>2 DEF Extends
<1>14. \A c \in scope : /\ mv(c) \notin Ids /\ commits'[mv(c)].change = commits[c].change
                        /\ commits'[mv(c)].past = {mv(d) : d \in commits[c].past} \cup under
  <2> SUFFICES ASSUME NEW c \in scope
               PROVE  /\ mv(c) \notin Ids /\ commits'[mv(c)].change = commits[c].change
                      /\ commits'[mv(c)].past = {mv(d) : d \in commits[c].past} \cup under
    OBVIOUS
  <2> HIDE DEF mv, under, m, k, added
  <2>1. /\ mv(c) = m + Place(scope, c) /\ Place(scope, c) \in 1..k /\ mv(c) \in 1..(m + k)
        /\ mv(c) \notin Ids /\ ~(mv(c) <= m) /\ mv(c) - m = Place(scope, c)
    <3>1. mv(c) = m + Place(scope, c) /\ Place(scope, c) \in 1..k /\ mv(c) \in (m + 1)..(m + k)
      BY <1>2, <1>5
    <3> QED BY <1>1, <1>2, <3>1
  <2>2. commits'[mv(c)] = Version(scope, onto, nth(Place(scope, c)))
    BY <2>1, <1>8, <1>11
  <2>3. commits'[mv(c)] = [change |-> commits[c].change,
                           past |-> {mv(d) : d \in commits[c].past} \cup under]
    BY <2>2, <1>4, <1>7
  <2> QED BY <2>1, <2>3
<1>15. \A n \in Ids' \ Ids : \E c \in scope : n = mv(c)
  <2> SUFFICES ASSUME NEW n \in Ids' \ Ids PROVE \E c \in scope : n = mv(c)
    OBVIOUS
  <2> HIDE DEF mv, m, k
  <2>1. n - m \in 1..k /\ m + (n - m) = n
    BY <1>1, <1>2, <1>12
  <2>2. PICK c \in scope : Place(scope, c) = n - m
    BY <1>2, <2>1
  <2> QED BY <1>5, <2>1, <2>2
<1>16. tip' = [s \in Slots |-> mv(tip[s])] /\ local' = {mv(c) : c \in local}
  BY DEF Rewrite, scope
<1>17. CommitsOK'
  <2>1. commits' \in Seq([change : Nat, past : SUBSET Ids'])
    BY <1>11, <1>12
  <2>2. \A d \in Ids : commits'[d] = commits[d] /\ commits'[d].past = Past(d)
    BY <1>13 DEF Extends, Past
  <2>3. ASSUME NEW c \in Ids
        PROVE  /\ c \in commits'[c].past /\ commits'[c].past \subseteq 1..c
               /\ \A d \in commits'[c].past : commits'[d].past \subseteq commits'[c].past
    BY <2>2, History
  <2>4. ASSUME NEW c \in scope
        PROVE  LET n == mv(c) IN
               /\ n \in commits'[n].past /\ commits'[n].past \subseteq 1..n
               /\ \A d \in commits'[n].past : commits'[d].past \subseteq commits'[n].past
    <3> DEFINE moved == {mv(d) : d \in Past(c)}
    <3> HIDE DEF mv, under, m, k, moved
    <3>1. /\ c \in Ids /\ c \in Past(c) /\ Past(c) \subseteq 1..c /\ Past(c) \subseteq Ids
          /\ Past(c) = commits[c].past
          /\ \A d \in Past(c) : Past(d) \subseteq Past(c) /\ Past(d) = commits[d].past
      BY <1>1, History
    <3>2. commits'[mv(c)].past = moved \cup under
      BY <1>14, <3>1 DEF moved
    <3>3. mv(c) \in moved
      BY <3>1 DEF moved
    <3>4. \A d \in Past(c) : mv(d) <= mv(c) /\ mv(d) \in 1..(m + k)
      <4> SUFFICES ASSUME NEW d \in Past(c) PROVE mv(d) <= mv(c) /\ mv(d) \in 1..(m + k)
        OBVIOUS
      <4>1. d \in Ids /\ d <= c /\ d \in Nat /\ c \in Nat
        BY <1>1, <3>1
      <4>2. mv(c) = m + Place(scope, c) /\ Place(scope, c) \in 1..k
        BY <1>2, <1>5
      <4>3. CASE d \in scope
        <5>1. mv(d) = m + Place(scope, d) /\ Place(scope, d) \in 1..k
          BY <1>2, <1>5, <4>3
        <5>2. d = c \/ Place(scope, d) < Place(scope, c)
          BY <1>2, <4>1, <4>3
        <5>3. mv(d) <= mv(c)
          BY <1>1, <1>2, <4>2, <5>1, <5>2
        <5> QED BY <1>5, <4>1, <5>3
      <4>4. CASE d \notin scope
        <5>1. mv(d) = d /\ d \in 1..m
          BY <1>1, <1>5, <4>1, <4>4
        <5>2. mv(d) <= mv(c)
          BY <1>1, <1>2, <4>2, <5>1
        <5> QED BY <1>5, <4>1, <5>2
      <4> QED BY <4>3, <4>4
    <3>5. moved \cup under \subseteq 1..mv(c)
      <4>1. mv(c) \in (m + 1)..(m + k)
        BY <1>5
      <4>2. under \subseteq 1..mv(c)
        BY <1>1, <1>2, <1>6, <4>1
      <4>3. \A d \in Past(c) : mv(d) \in 1..mv(c)
        BY <1>1, <1>2, <3>4, <4>1
      <4> QED BY <4>2, <4>3 DEF moved
    <3>6. ASSUME NEW d \in Past(c) PROVE commits'[mv(d)].past \subseteq moved \cup under
      <4>1. CASE d \in scope
        <5>1. commits'[mv(d)].past = {mv(e) : e \in Past(d)} \cup under
          BY <1>14, <3>1, <4>1
        <5> QED BY <3>1, <5>1 DEF moved
      <4>2. CASE d \notin scope
        <5>1. mv(d) = d /\ commits'[d].past = Past(d)
          BY <1>5, <2>2, <3>1, <4>2
        <5>2. \A e \in Past(d) : e \in Past(c) /\ e \in Ids /\ e \notin scope /\ mv(e) = e
          <6>1. Past(d) \cap scope = {}
            BY <4>2, UpwardClosed DEF scope
          <6> QED BY <1>5, <3>1, <6>1
        <5> QED BY <5>1, <5>2 DEF moved
      <4> QED BY <4>1, <4>2
    <3>7. ASSUME NEW d \in under PROVE commits'[d].past \subseteq under
      BY <1>6, <2>2
    <3>8. \A d \in moved \cup under : commits'[d].past \subseteq moved \cup under
      BY <3>6, <3>7 DEF moved
    <3> QED BY <3>2, <3>3, <3>5, <3>8
  <2>5. ASSUME NEW n \in Ids'
        PROVE  /\ n \in commits'[n].past /\ commits'[n].past \subseteq 1..n
               /\ \A d \in commits'[n].past : commits'[d].past \subseteq commits'[n].past
    <3>1. CASE n \in Ids
      BY <2>3, <3>1
    <3>2. CASE n \notin Ids
      <4>1. PICK c \in scope : n = mv(c)
        BY <1>15, <3>2
      <4> QED BY <2>4, <4>1
    <3> QED BY <3>1, <3>2
  <2> QED BY <2>1, <2>5 DEF CommitsOK, Ids, Past
<1>18. \A c \in Ids : mv(c) \in Ids' /\ (c \notin scope => mv(c) = c)
  BY <1>5, <1>12
<1> HIDE DEF mv, under
<1>19. /\ CommitsOK' /\ Extends
       /\ \A c \in Ids : mv(c) \in Ids' /\ (c \notin scope => mv(c) = c)
       /\ \A c \in scope : /\ mv(c) \notin Ids /\ commits'[mv(c)].change = commits[c].change
                           /\ commits'[mv(c)].past = {mv(d) : d \in commits[c].past} \cup under
       /\ \A n \in Ids' \ Ids : \E c \in scope : n = mv(c)
       /\ tip' = [s \in Slots |-> mv(tip[s])] /\ local' = {mv(c) : c \in local}
  BY <1>13, <1>14, <1>15, <1>16, <1>17, <1>18
<1> QED BY <1>19 DEF mv, under, scope

(* What was there holds what it held.                                         *)
LEMMA Kept ==
  ASSUME CommitsOK, Extends
  PROVE  /\ \A c \in Ids : /\ commits'[c] = commits[c] /\ c \in Ids'
                           /\ Holds(commits', c) = Holds(commits, c)
                           /\ HoldsAbove(commits', c) = HoldsAbove(commits, c)
         /\ \A b \in Ids \cup {None} : HoldsOn(commits', b) = HoldsOn(commits, b)
<1>1. \A c \in Ids : commits'[c] = commits[c] /\ c \in Ids'
  BY DEF Extends
<1>2. ASSUME NEW c \in Ids
      PROVE  /\ Holds(commits', c) = Holds(commits, c)
             /\ HoldsAbove(commits', c) = HoldsAbove(commits, c)
  <2>1. \A d \in commits[c].past : d \in Ids /\ commits'[d] = commits[d]
    BY <1>1, History
  <2>2. commits'[c].past = commits[c].past
    BY <1>1
  <2> QED BY <2>1, <2>2 DEF Holds, HoldsAbove
<1>3. ASSUME NEW b \in Ids \cup {None} PROVE HoldsOn(commits', b) = HoldsOn(commits, b)
  BY <1>2 DEF HoldsOn
<1> QED BY <1>1, <1>2, <1>3

(* A new change is one that nothing has yet, and greater than all of them.     *)
LEMMA Newest ==
  ASSUME CommitsOK, RepoOK
  PROVE  NewChange \in Nat /\ \A n \in Used : n \in Nat /\ n < NewChange
<1> DEFINE C == Changes(Ids)
           W == {wc[s] : s \in Slots}
<1>1. IsFiniteSet(C) /\ C \subseteq Nat
  <2> DEFINE f == [c \in Ids |-> commits[c].change]
  <2>1. C = {commits[c].change : c \in Ids}
    BY DEF Changes
  <2>2. IsFiniteSet(Ids)
    <3>1. Len(commits) \in Nat /\ Ids = 1..Len(commits)
      BY History
    <3> HIDE DEF Ids
    <3> QED BY <3>1, FS_Interval
  <2>3. f \in Surjection(Ids, C)
    BY <2>1 DEF Surjection
  <2>4. IsFiniteSet(C)
    <3> HIDE DEF f, C
    <3> QED BY <2>2, <2>3, FS_Surjection
  <2> QED BY <2>1, <2>4, History
<1>2. IsFiniteSet(W) /\ W \subseteq Nat /\ W # {}
  <2> DEFINE f == [s \in Slots |-> wc[s]]
  <2>1. f \in Surjection(Slots, W)
    BY DEF Surjection
  <2>2. IsFiniteSet(W)
    <3> HIDE DEF f, W
    <3> QED BY <2>1, SlotPublishAssumption, FS_Surjection
  <2> QED BY <2>2, SlotPublishAssumption DEF RepoOK
<1>3. IsFiniteSet(C \cup W) /\ C \cup W \subseteq Nat /\ C \cup W # {}
  <2> HIDE DEF C, W
  <2> QED BY <1>1, <1>2, FS_Union
<1>4. Max(C \cup W) \in Nat /\ \A y \in C \cup W : y <= Max(C \cup W)
  <2> HIDE DEF C, W
  <2> QED BY <1>3, Greatest
<1>5. NewChange = 1 + Max(C \cup W) /\ Used = C \cup W
  BY DEF NewChange, Used, Ids
<1> HIDE DEF C, W
<1>6. \A n \in C \cup W : n \in Nat /\ n < 1 + Max(C \cup W)
  BY <1>3, <1>4
<1> QED BY <1>4, <1>5, <1>6

-----------------------------------------------------------------------------
(* The invariant.                                                             *)

(* Every working copy has a change of its own that no commit has yet; a       *)
(* rebase's is that of its slot for as long as any slot has it.               *)
FreshInv ==
  /\ \A s \in Slots : wc[s] \notin Changes(Ids) /\ \A t \in Slots \ {s} : wc[t] # wc[s]
  /\ \A p \in Procs : verb[p].at = "pinned" =>
       /\ \E n \in Used : verb[p].change <= n
       /\ \A s \in Slots : wc[s] = verb[p].change => s = verb[p].slot

(* The commits that do not show the new base before it is fetched.            *)
Known == {c \in Ids : base = OldBase => NewBase \notin commits[c].past}

(* A verb under way has its slot, its commits or its destination.             *)
Planning == {"planned", "prepared", "merging"}

VerbInv ==
  \A p \in Procs :
    /\ verb[p].at # "idle" => verb[p].slot \in Slots
    /\ verb[p].at \in Planning => verb[p].commit \in Known
    /\ verb[p].at = "merging" => Named(verb[p].on) # None /\ verb[p].on \in {None} \cup Known
    /\ verb[p].at = "pinned" => verb[p].on \in Known /\ verb[p].change \in Nat

(* The new base is not seen before it is fetched.                             *)
BaseInv == base = OldBase => NewBase \notin Visible

(* The branch has all that it was last seen with: others add to it or amend.  *)
BranchInv ==
  /\ HoldsOn(commits, seen) \subseteq HoldsOn(commits, branch)
  /\ branch = None => seen = None

(* What a publish found on the branch is under its commit, then under every   *)
(* target of the bookmark, unless it is gone from the branch as last seen.    *)
HeldInv ==
  \A p \in Procs :
    /\ verb[p].held \subseteq Changes(Ids)
    /\ branch = None => verb[p].held = {}
    /\ verb[p].held \cap HoldsOn(commits, branch) \subseteq HoldsOn(commits, seen)
    /\ verb[p].at \in {"planned", "prepared"} => verb[p].held \subseteq Holds(commits, verb[p].commit)
    /\ verb[p].at \in {"set", "ready"} =>
         /\ local # {}
         /\ \A c \in local : verb[p].held \cap HoldsOn(commits, seen) \subseteq Holds(commits, c)

(* What the bookmark and a publish have above the base was checked, or is on  *)
(* the branch, or a rebase or an agent has brought it.                        *)
CheckedInv ==
  /\ \A c \in local : HoldsAbove(commits, c) \subseteq checked \cup HoldsOn(commits, seen) \cup brought
  /\ \A p \in Procs : verb[p].at \in {"planned", "prepared"} =>
       HoldsAbove(commits, verb[p].commit) \subseteq checked

(* Nothing that a rebase would move, now or when it is pinned to a later      *)
(* version, is under a commit it is to spare.                                 *)
Apart(on, d, c) == (commits[d].past \ commits[on].past) \cap commits[c].past = {}

SparedInv ==
  \A p \in Procs : verb[p].at = "pinned" => \A c \in verb[p].spared :
    /\ \A s \in Slots : wc[s] = verb[p].change => Apart(verb[p].on, tip[s], c)
    /\ \A d \in Ids : commits[d].change = verb[p].change => Apart(verb[p].on, d, c)

IInv == /\ TypeOK /\ RootInv /\ FreshInv /\ VerbInv /\ BaseInv /\ BranchInv
        /\ HeldInv /\ CheckedInv /\ SparedInv


(* The parts of a state's types.                                              *)
LEMMA Types ==
  ASSUME IInv
  PROVE  /\ CommitsOK /\ RepoOK /\ RootInv
         /\ tip \in [Slots -> Ids] /\ wc \in [Slots -> Nat] /\ local \subseteq Ids
         /\ {seen, branch} \subseteq Ids \cup {None} /\ base \in {OldBase, NewBase}
         /\ verb \in [Procs -> Verbs(Ids)] /\ Ids \subseteq Nat /\ None \notin Ids
         /\ \A p \in Procs : /\ verb[p].commit \in Ids \cup {None} /\ verb[p].on \in Ids \cup {None}
                             /\ verb[p].held \subseteq Nat /\ verb[p].spared \subseteq Ids
<1>1. CommitsOK /\ RepoOK /\ RootInv /\ verb \in [Procs -> Verbs(Ids)]
  BY DEF IInv, TypeOK, Ids
<1>2. Ids \subseteq Nat /\ None \notin Ids
  <2>1. \A c \in Ids : c \in Nat
    BY <1>1, History
  <2> QED BY <2>1, SlotPublishAssumption
<1>3. \A p \in Procs : /\ verb[p].commit \in Ids \cup {None} /\ verb[p].on \in Ids \cup {None}
                       /\ verb[p].held \subseteq Nat /\ verb[p].spared \subseteq Ids
  BY <1>1 DEF Verbs
<1>4. /\ tip \in [Slots -> Ids] /\ wc \in [Slots -> Nat] /\ local \subseteq Ids
      /\ {seen, branch} \subseteq Ids \cup {None} /\ base \in {OldBase, NewBase}
  BY <1>1 DEF RepoOK, Ids
<1> QED BY <1>1, <1>2, <1>3, <1>4

(* What a step does to the repository and the remote.                         *)
Stays == UNCHANGED <<commits, tip, wc, local, seen, tracked, base, branch>>

Sets(c) == MaySet(c) /\ local' = {c} /\ UNCHANGED <<commits, tip, wc, seen, tracked, base, branch>>

Marks(c) ==
  /\ local' = {c} /\ HoldsOn(commits, c) \subseteq brought'
  /\ \A q \in Procs : verb[q].at \in {"set", "ready"} => verb'[q].held \subseteq HoldsOn(commits, c)
  /\ UNCHANGED <<commits, tip, wc, seen, tracked, base, branch>>

Tracks ==
  /\ local' = local \/ local' = Heads(local \cup Optional(seen))
  /\ tracked' = TRUE /\ UNCHANGED <<commits, tip, wc, seen, base, branch>>

Pushes(c) ==
  /\ MayPush /\ c \in local /\ branch' = c /\ seen' = c
  /\ UNCHANGED <<commits, tip, wc, local, tracked, base>>

(* A rebase of these changes has left no verb a commit to spare that it put    *)
(* above the verb's destination.                                               *)
Clears(changes, onto) ==
  \A q \in Procs : verb'[q].at = "pinned" /\ verb[q].change \in changes =>
    \A x \in verb'[q].spared : To(verb[q].on, onto) \cap Past(x) = {}

Shifted(scope) == Changes(scope) \cup {wc[s] : s \in {t \in Slots : tip[t] \in scope}}

Rewrites(S, onto) ==
  /\ Descendants(S) \cap Immutable = {}
  /\ Rewrite(Descendants(S), onto)
  /\ local \cap Descendants(S) # {} => HoldsOn(commits, onto) \subseteq brought'
  /\ onto # None => Clears(Shifted(Descendants(S)), onto)
  /\ UNCHANGED <<wc, seen, tracked, base, branch>>

Seats(change, on) ==
  /\ tip' = [s \in Slots |-> IF wc[s] = change THEN on ELSE tip[s]]
  /\ Clears({change}, on)
  /\ UNCHANGED <<commits, wc, local, seen, tracked, base, branch>>

Merges(p) ==
  /\ verb[p].at = "merging"
  /\ NewCommit(NewChange, Past(verb[p].commit) \cup Past(Named(verb[p].on)))
  /\ tip' = [tip EXCEPT ![verb[p].slot] = Len(commits) + 1]
  /\ wc' = [wc EXCEPT ![verb[p].slot] = NewChange + 1]
  /\ UNCHANGED <<local, seen, tracked, base, branch>>

Commits(s) == AgentCommits(s) /\ UNCHANGED <<seen, tracked, base, branch>>
Moves(s) == AgentMoves(s) /\ UNCHANGED <<seen, tracked, base, branch>>

Adds ==
  /\ \/ NewCommit(NewChange, Past(IF branch = None THEN NewBase ELSE branch))
     \/ branch # None /\ NewCommit(commits[branch].change, Past(branch) \ {branch})
  /\ branch' = Len(commits) + 1 /\ UNCHANGED <<tip, wc, local, seen, tracked, base>>

Publishes == \E p \in Procs : verb[p].at = "prepared" /\ Sets(verb[p].commit)

RepoStep ==
  \/ Stays \/ Fetches \/ Tracks \/ Adds \/ Publishes
  \/ \E p \in Procs : Merges(p)
  \/ \E c \in Visible : Marks(c)
  \/ \E c \in local : Pushes(c)
  \/ \E change \in Nat, on \in Known : Seats(change, on)
  \/ \E S \in SUBSET Ids, onto \in {None} \cup Known : Rewrites(S, onto)
  \/ \E s \in Slots : Commits(s) \/ Moves(s)

Grown == checked \subseteq checked' /\ (Publishes \/ brought \subseteq brought')

(* A commit that is visible is known.                                         *)
LEMMA VisibleIsKnown == ASSUME IInv PROVE Visible \subseteq Known /\ {tip[s] : s \in Slots} \cup {base} \subseteq Visible
<1>1. /\ Visible \subseteq Ids /\ \A x \in Visible : Past(x) \subseteq Visible
      /\ \A x \in Ids : Past(x) = commits[x].past
  BY Types, Shown, History
<1>2. base = OldBase => NewBase \notin Visible
  BY DEF IInv, BaseInv
<1>3. \A x \in {tip[s] : s \in Slots} \cup {base} : x \in Past(x)
  <2>1. {tip[s] : s \in Slots} \cup {base} \subseteq Ids
    BY Types DEF RootInv
  <2> QED BY <2>1, Types, History
<1> QED BY <1>1, <1>2, <1>3 DEF Known, Visible, PastOf

(* The changes under a commit.                                                *)
LEMMA OfPast ==
  ASSUME NEW c, c # None PROVE Changes(Past(c)) = HoldsOn(commits, c)
  BY DEF Changes, Past, HoldsOn, Holds

(* A rebase of a branch rewrites, or seats the working copy only.             *)
LEMMA Branching ==
  ASSUME IInv, NEW change \in Nat, NEW c \in Ids, NEW onto \in Known, RebaseBranch(change, c, onto),
         UNCHANGED <<wc, seen, tracked, base, branch>>,
         \A q \in Procs : verb'[q].at = "pinned" => verb'[q] = Excused(verb[q], change, c, onto)
  PROVE  RepoStep /\ brought \subseteq brought'
<1> DEFINE own == To(onto, c)
           roots == {r \in own : Past(r) \cap own = {r} /\ Past(r) # Past(onto) \cup {r}}
           scope == Scope(onto, c)
<1>1. scope = Descendants(roots) /\ roots \in SUBSET Ids /\ onto # None
  <2>1. own \subseteq Ids
    BY Types, History DEF To
  <2> QED BY <2>1, Types DEF Scope, Known
<1>2. ASSUME NEW C, C \subseteq Displaced(change, c, onto) PROVE Clears(C, onto)
  <2> SUFFICES ASSUME NEW q \in Procs, verb'[q].at = "pinned", verb[q].change \in C, NEW x \in verb'[q].spared
               PROVE  To(verb[q].on, onto) \cap Past(x) = {}
    BY DEF Clears
  <2>1. verb'[q] = Excused(verb[q], change, c, onto) /\ verb[q].change \in Displaced(change, c, onto)
    BY <1>2
  <2>2. verb[q].at = "pinned"
    BY <2>1 DEF Excused
  <2>3. verb'[q] = [verb[q] EXCEPT !.spared = {y \in @ : To(verb[q].on, onto) \cap Past(y) = {}}]
    BY <2>1, <2>2 DEF Excused
  <2>4. verb'[q].spared = {y \in verb[q].spared : To(verb[q].on, onto) \cap Past(y) = {}}
    <3>1. verb[q] \in Verbs(Ids)
      BY Types
    <3> QED BY <2>3, <3>1 DEF Verbs
  <2> QED BY <2>4
<1>3. brought \subseteq brought' /\ (local \cap scope # {} => HoldsOn(commits, onto) \subseteq brought')
  BY <1>1, OfPast DEF RebaseBranch
<1> HIDE DEF roots, own, scope
<1>4. CASE c \in Past(onto)
  <2>1. Clears({change}, onto)
    BY <1>2 DEF Displaced
  <2>2. Seats(change, onto)
    BY <1>4, <2>1 DEF RebaseBranch, Seats
  <2> QED BY <1>3, <2>2 DEF RepoStep
<1>5. CASE c \notin Past(onto)
  <2>1. Clears(Shifted(scope), onto)
    BY <1>2 DEF Displaced, Shifted, scope
  <2>2. Rewrite(scope, onto) /\ scope \cap Immutable = {}
    BY <1>5 DEF RebaseBranch, scope
  <2>3. Rewrites(roots, onto)
    BY <1>1, <1>3, <2>1, <2>2 DEF Rewrites
  <2> QED BY <1>1, <1>3, <2>3 DEF RepoStep
<1> QED BY <1>4, <1>5

LEMMA RepoSteps == ASSUME IInv, [Next]_vars PROVE RepoStep /\ Grown
<1>0. /\ Stays /\ checked \subseteq checked' /\ brought' = brought => RepoStep /\ Grown
      /\ Fetches /\ checked' = checked => RepoStep /\ Grown
  BY DEF RepoStep, Grown, Fetches
<1>1. ASSUME NEW p \in Procs, NEW s \in Slots, Plan(p, s) \/ SyncBase(p, s) \/ Rebase(p, s) \/ MergeReads(p, s)
      PROVE  RepoStep /\ Grown
  <2>1. CASE SyncBase(p, s)
    BY <1>0, <2>1 DEF SyncBase, Rebases
  <2>2. CASE Plan(p, s) \/ Rebase(p, s) \/ MergeReads(p, s)
    <3>1. UNCHANGED <<commits, repo, branch, brought>>
      BY <2>2, Zenon DEF Plan, Rebase, MergeReads
    <3>2. ASSUME Plan(p, s) PROVE checked \subseteq checked'
      <4>1. checked' = checked \cup Changes(Pending(s)) \cup ChangesOn(seen)
        BY <3>2, Zenon DEF Plan
      <4> QED BY <4>1
    <3>3. Rebase(p, s) \/ MergeReads(p, s) => checked' = checked
      BY Zenon DEF Rebase, Rebases, MergeReads
    <3>4. Stays
      BY <3>1 DEF Stays, repo
    <3> QED BY <1>0, <2>2, <3>1, <3>2, <3>3, <3>4
  <2> QED BY <1>1, <2>1, <2>2
<1>2. ASSUME NEW p \in Procs, Prepare(p) \/ CheckScope(p) \/ Fetch(p) \/ MergeEnds(p)
      PROVE  RepoStep /\ Grown
  <2>1. CASE Fetch(p)
    BY <1>0, <2>1 DEF Fetch
  <2>2. CASE Prepare(p) \/ CheckScope(p) \/ MergeEnds(p)
    <3>1. UNCHANGED <<commits, tip, wc, local, seen, tracked, base, branch, checked, brought>>
      <4>1. Prepare(p) \/ CheckScope(p) => UNCHANGED <<commits, repo, branch, checked, brought>>
        BY Zenon DEF Prepare, CheckScope
      <4>2. MergeEnds(p) => UNCHANGED <<commits, tip, wc, local, seen, tracked, base, branch, checked, brought>>
        BY Zenon DEF MergeEnds
      <4> QED BY <2>2, <4>1, <4>2 DEF repo
    <3> QED BY <1>0, <3>1 DEF Stays
  <2> QED BY <1>2, <2>1, <2>2
<1>3. ASSUME NEW p \in Procs, SetBookmark(p) PROVE RepoStep /\ Grown
  <2>1. CASE ~MaySet(verb[p].commit)
    BY <1>3, <2>1 DEF SetBookmark, RepoStep, Grown, Stays, repo
  <2>2. CASE MaySet(verb[p].commit)
    <3>1. verb[p].at = "prepared" /\ Sets(verb[p].commit) /\ checked' = checked
      BY <1>3, <2>2 DEF SetBookmark, Sets
    <3> QED BY <3>1 DEF RepoStep, Publishes, Grown
  <2> QED BY <2>1, <2>2
<1>4. ASSUME NEW p \in Procs, TrackNew(p) PROVE RepoStep /\ Grown
  <2>1. Tracks /\ checked' = checked /\ brought' = brought
    BY <1>4 DEF TrackNew, Tracks
  <2> QED BY <2>1 DEF RepoStep, Grown
<1>5. ASSUME NEW p \in Procs, Push(p) PROVE RepoStep /\ Grown
  <2>1. CASE MayPush
    <3>1. PICK c \in local : branch' = c /\ seen' = c
      BY <1>5, <2>1 DEF Push
    <3>2. Pushes(c) /\ checked' = checked /\ brought' = brought
      BY <1>5, <2>1, <3>1 DEF Push, Pushes
    <3> QED BY <3>2 DEF RepoStep, Grown
  <2>2. CASE ~MayPush
    BY <1>5, <2>2 DEF Push, RepoStep, Grown, Stays, repo
  <2> QED BY <2>1, <2>2
<1>6. ASSUME NEW p \in Procs, RebasePinned(p) PROVE RepoStep /\ Grown
  <2> DEFINE v == verb[p]
             pin == Pinned(v.change)
             c == CHOOSE d \in pin : TRUE
  <2>1. /\ v.at = "pinned" /\ checked' = checked
        /\ UNCHANGED <<wc, seen, tracked, base, branch>>
        /\ \/ UNCHANGED <<commits, tip, local, brought>>
           \/ /\ Cardinality(pin) = 1 /\ RebaseBranch(v.change, c, v.on)
              /\ verb' = [q \in Procs |-> IF q = p THEN Idle ELSE Excused(verb[q], v.change, c, v.on)]
    BY <1>6 DEF RebasePinned, RebaseOf
  <2>2. v.on \in Known /\ v.change \in Nat
    BY <2>1 DEF IInv, VerbInv
  <2>3. ASSUME Cardinality(pin) = 1 PROVE c \in Ids
    <3>1. pin # {}
      BY <2>3, FS_EmptySet
    <3>2. pin \subseteq Ids
      <4>1. Visible \subseteq Ids
        BY Types, Shown
      <4> QED BY <4>1, Types DEF Pinned
    <3> QED BY <3>1, <3>2
  <2> HIDE DEF v, pin, c
  <2>4. CASE UNCHANGED <<commits, tip, local, brought>>
    BY <2>1, <2>4 DEF RepoStep, Grown, Stays
  <2>5. CASE /\ Cardinality(pin) = 1 /\ RebaseBranch(v.change, c, v.on)
             /\ verb' = [q \in Procs |-> IF q = p THEN Idle ELSE Excused(verb[q], v.change, c, v.on)]
    <3>1. Idle.at = "idle"
      BY DEF Idle
    <3>2. \A q \in Procs : verb'[q].at = "pinned" => verb'[q] = Excused(verb[q], v.change, c, v.on)
      BY <2>5, <3>1
    <3> QED BY <2>1, <2>2, <2>3, <2>5, <3>2, Branching DEF Grown
  <2> QED BY <2>1, <2>4, <2>5
<1>7. ASSUME NEW p \in Procs, MergeMakes(p) PROVE RepoStep /\ Grown
  <2>1. Merges(p) /\ checked' = checked /\ brought' = brought
    BY <1>7 DEF MergeMakes, Merges
  <2> QED BY <2>1 DEF RepoStep, Grown
<1>8. ASSUME NEW s \in Slots, Agent(s) PROVE RepoStep /\ Grown
  <2>1. CASE AgentCommits(s) \/ AgentMoves(s)
    <3>1. (Commits(s) \/ Moves(s)) /\ checked' = checked /\ brought' = brought
      BY <1>8, <2>1 DEF Agent, AgentCommits, AgentMoves, Commits, Moves
    <3> QED BY <3>1 DEF RepoStep, Grown
  <2>2. CASE AgentAmends(s)
    <3>1. Descendants({tip[s]}) \cap Immutable = {}
      <4>1. \A x \in Immutable : Past(x) \subseteq Immutable
        BY Types, Shown
      <4> QED BY <2>2, <4>1 DEF AgentAmends, Descendants
    <3>2. Rewrites({tip[s]}, None)
      BY <1>8, <2>2, <3>1 DEF Agent, AgentAmends, Rewrites, HoldsOn
    <3>3. {tip[s]} \in SUBSET Ids /\ checked' = checked /\ brought' = brought
      BY <1>8, <2>2, Types DEF Agent, AgentAmends
    <3> QED BY <3>2, <3>3 DEF RepoStep, Grown
  <2>3. CASE AgentStarts(s)
    BY <1>8, <2>3 DEF Agent, AgentStarts, RepoStep, Grown, Stays
  <2>4. CASE AgentRebases(s)
    <3>1. PICK onto \in Visible :
            /\ RebaseBranch(wc[s], tip[s], onto)
            /\ verb' = [q \in Procs |-> Excused(verb[q], wc[s], tip[s], onto)]
      BY <2>4 DEF AgentRebases
    <3>2. onto \in Known /\ wc[s] \in Nat /\ tip[s] \in Ids
      BY Types, VisibleIsKnown
    <3>3. \A q \in Procs : verb'[q] = Excused(verb[q], wc[s], tip[s], onto)
      BY <3>1
    <3>4. checked' = checked /\ UNCHANGED <<wc, seen, tracked, base, branch>>
      BY <1>8, <2>4 DEF Agent, AgentRebases
    <3> QED BY <3>1, <3>2, <3>3, <3>4, Branching DEF Grown
  <2>5. CASE AgentMarks
    <3>1. PICK c \in Visible :
            /\ local' = {c} /\ brought' = brought \cup Changes(Past(c))
            /\ verb' = [q \in Procs |-> IF verb[q].at \in {"set", "ready"}
                                       THEN [verb[q] EXCEPT !.held = @ \cap Changes(Past(c))] ELSE verb[q]]
      BY <2>5 DEF AgentMarks
    <3>2. Changes(Past(c)) = HoldsOn(commits, c)
      <4>1. c # None
        BY Types, VisibleIsKnown DEF Known
      <4> QED BY <4>1, OfPast
    <3>3. ASSUME NEW q \in Procs, verb[q].at \in {"set", "ready"} PROVE verb'[q].held \subseteq HoldsOn(commits, c)
      <4>1. verb'[q] = [verb[q] EXCEPT !.held = @ \cap Changes(Past(c))] /\ verb[q] \in Verbs(Ids)
        BY <3>1, <3>3, Types
      <4> QED BY <3>2, <4>1 DEF Verbs
    <3>4. Marks(c) /\ checked' = checked /\ brought \subseteq brought'
      BY <1>8, <2>5, <3>1, <3>2, <3>3 DEF Agent, AgentMarks, Marks
    <3> QED BY <3>4 DEF RepoStep, Grown
  <2> QED BY <1>8, <2>1, <2>2, <2>3, <2>4, <2>5 DEF Agent
<1>9. ASSUME OthersPush PROVE RepoStep /\ Grown
  BY <1>9 DEF OthersPush, RepoStep, Grown, Adds, repo
<1>10. ASSUME UNCHANGED vars PROVE RepoStep /\ Grown
  BY <1>10 DEF vars, repo, RepoStep, Grown, Stays
<1> QED BY <1>1, <1>2, <1>3, <1>4, <1>5, <1>6, <1>7, <1>8, <1>9, <1>10 DEF Next

(* What a step does to a process's verb.                                      *)
Eased(q) ==
  /\ verb'[q].at = verb[q].at /\ verb'[q].slot = verb[q].slot /\ verb'[q].commit = verb[q].commit
  /\ verb'[q].on = verb[q].on /\ verb'[q].change = verb[q].change
  /\ verb'[q].held \subseteq verb[q].held /\ verb'[q].spared \subseteq verb[q].spared
  /\ verb'[q] \in Verbs(Ids)

Checks(q, onto) ==
  LET s == verb[q].slot
      theirs == {tip[t] : t \in Slots \ {s}}
  IN /\ verb[q].at \in {"syncing", "rebasing"} /\ Stays
     /\ Descendants(To(onto, tip[s])) \cap (Immutable \cup theirs) = {}
     /\ verb'[q] = [verb[q] EXCEPT !.at = "pinned", !.on = onto, !.change = wc[s], !.spared = theirs]

VerbStep(q) ==
  \/ verb'[q] = Idle
  \/ Eased(q)
  \/ \E s \in Slots :
       \/ /\ Plan(q, s)
          /\ verb'[q] = [Idle EXCEPT !.at = "planned", !.slot = s, !.commit = tip[s],
                                     !.held = ChangesOn(seen)]
       \/ \E at \in {"syncing", "rebasing"} : verb'[q] = [Idle EXCEPT !.at = at, !.slot = s]
       \/ \E ref \in {None} \cup Visible :
            /\ Named(ref) # None /\ Stays
            /\ verb'[q] = [Idle EXCEPT !.at = "merging", !.slot = s, !.commit = tip[s], !.on = ref]
  \/ /\ verb[q].at = "planned" /\ Stays /\ tip[verb[q].slot] = verb[q].commit
     /\ verb'[q] = [verb[q] EXCEPT !.at = "prepared", !.on = seen]
  \/ /\ verb[q].at = "prepared" /\ Sets(verb[q].commit)
     /\ verb'[q] = [verb[q] EXCEPT !.at = IF verb[q].on = None THEN "set" ELSE "ready"]
  \/ /\ verb[q].at = "set" /\ TrackNew(q)
     /\ verb'[q] = [verb[q] EXCEPT !.at = "ready"]
  \/ verb[q].at = "merging" /\ verb'[q] = [verb[q] EXCEPT !.at = "merged"]
  \/ \E onto \in Visible : Checks(q, onto)

(* A verb that stays as it is, or is excused or eased by an agent.            *)
LEMMA Easing ==
  ASSUME IInv, NEW q \in Procs
  PROVE  /\ verb'[q] = verb[q] => Eased(q)
         /\ \A change, c, onto : verb'[q] = Excused(verb[q], change, c, onto) => Eased(q)
         /\ \A H : verb'[q] = [verb[q] EXCEPT !.held = @ \cap H] => Eased(q)
<1>1. verb[q] \in Verbs(Ids)
  BY Types
<1>2. verb'[q] = verb[q] => Eased(q)
  BY <1>1 DEF Eased
<1>3. ASSUME NEW x \in SUBSET verb[q].spared, verb'[q] = [verb[q] EXCEPT !.spared = x] PROVE Eased(q)
  BY <1>1, <1>3 DEF Eased, Verbs
<1>4. ASSUME NEW change, NEW c, NEW onto, verb'[q] = Excused(verb[q], change, c, onto) PROVE Eased(q)
  <2> DEFINE x == {y \in verb[q].spared : To(verb[q].on, onto) \cap Past(y) = {}}
  <2>1. verb'[q] = verb[q] \/ verb'[q] = [verb[q] EXCEPT !.spared = x]
    BY <1>4 DEF Excused
  <2>2. x \in SUBSET verb[q].spared
    OBVIOUS
  <2> HIDE DEF x
  <2> QED BY <1>2, <1>3, <2>1, <2>2
<1>5. ASSUME NEW H, verb'[q] = [verb[q] EXCEPT !.held = @ \cap H] PROVE Eased(q)
  BY <1>1, <1>5 DEF Eased, Verbs
<1> QED BY <1>2, <1>4, <1>5

LEMMA OneVerb ==
  ASSUME IInv, NEW p \in Procs, NEW x, verb' = [verb EXCEPT ![p] = x]
  PROVE  verb' = [r \in Procs |-> verb'[r]] /\ verb'[p] = x /\ \A q \in Procs \ {p} : verb'[q] = verb[q]
<1>1. verb = [r \in Procs |-> verb[r]]
  BY Types
<1> QED BY <1>1

LEMMA VerbSteps ==
  ASSUME IInv, [Next]_vars
  PROVE  verb' = [r \in Procs |-> verb'[r]] /\ \A q \in Procs : VerbStep(q)
<1> DEFINE Goal == verb' = [r \in Procs |-> verb'[r]] /\ \A q \in Procs : VerbStep(q)
<1>0. \A q \in Procs : (Eased(q) => VerbStep(q)) /\ (verb'[q] = verb[q] => VerbStep(q))
  BY Easing, Zenon DEF VerbStep
<1>1. ASSUME NEW p \in Procs, NEW x, verb' = [verb EXCEPT ![p] = x], verb'[p] = x => VerbStep(p)
      PROVE  Goal
  <2>1. /\ verb' = [r \in Procs |-> verb'[r]] /\ \A q \in Procs \ {p} : verb'[q] = verb[q]
        /\ verb'[p] = x
    BY <1>1, OneVerb
  <2> QED BY <1>0, <1>1, <2>1
<1>2. ASSUME verb' = verb PROVE Goal
  <2>1. verb' = [r \in Procs |-> verb'[r]]
    BY <1>2, Types
  <2> QED BY <1>0, <1>2, <2>1
<1>3. ASSUME NEW p \in Procs, Ends(p) PROVE Goal
  <2>1. verb' = [verb EXCEPT ![p] = Idle]
    BY <1>3 DEF Ends
  <2>2. verb'[p] = Idle => VerbStep(p)
    BY DEF VerbStep
  <2> QED BY <1>1, <2>1, <2>2
<1>4. ASSUME NEW p \in Procs, NEW s \in Slots, Plan(p, s) PROVE Goal
  <2> DEFINE new == [Idle EXCEPT !.at = "planned", !.slot = s, !.commit = tip[s], !.held = ChangesOn(seen)]
  <2>1. verb' = [verb EXCEPT ![p] = new]
    BY <1>4, Zenon DEF Plan
  <2>2. verb'[p] = new => VerbStep(p)
    BY <1>4, Zenon DEF VerbStep
  <2> HIDE DEF new
  <2> QED BY <1>1, <2>1, <2>2
<1>5. ASSUME NEW p \in Procs, NEW s \in Slots, SyncBase(p, s) \/ Rebase(p, s) PROVE Goal
  <2>1. PICK at \in {"syncing", "rebasing"} : Rebases(p, s, at)
    BY <1>5 DEF SyncBase, Rebase
  <2> DEFINE new == [Idle EXCEPT !.at = at, !.slot = s]
  <2>2. verb' = [verb EXCEPT ![p] = new]
    BY <2>1, Zenon DEF Rebases
  <2>3. verb'[p] = new => VerbStep(p)
    BY Zenon DEF VerbStep
  <2> HIDE DEF new
  <2> QED BY <1>1, <2>2, <2>3
<1>6. ASSUME NEW p \in Procs, NEW s \in Slots, MergeReads(p, s) PROVE Goal
  <2> DEFINE new(ref) == [Idle EXCEPT !.at = "merging", !.slot = s, !.commit = tip[s], !.on = ref]
  <2>1. PICK ref \in {None} \cup Visible : Named(ref) # None /\ verb' = [verb EXCEPT ![p] = new(ref)]
    BY <1>6, Zenon DEF MergeReads
  <2>2. UNCHANGED <<commits, repo, branch>>
    BY <1>6, Zenon DEF MergeReads
  <2>3. Stays
    BY <2>2 DEF Stays, repo
  <2>4. verb'[p] = new(ref) => VerbStep(p)
    BY <2>1, <2>3, Zenon DEF VerbStep
  <2> HIDE DEF new
  <2> QED BY <1>1, <2>1, <2>4
<1>7. ASSUME NEW p \in Procs, Prepare(p), ~Ends(p) PROVE Goal
  <2> DEFINE new == [verb[p] EXCEPT !.at = "prepared", !.on = seen]
  <2>1. /\ verb[p].at = "planned" /\ tip[verb[p].slot] = verb[p].commit
        /\ verb' = [verb EXCEPT ![p].at = "prepared", ![p].on = seen] /\ UNCHANGED <<commits, repo, branch>>
    BY <1>7, Zenon DEF Prepare
  <2>2. verb' = [verb EXCEPT ![p] = new] /\ Stays
    BY <2>1 DEF Stays, repo
  <2>3. verb'[p] = new => VerbStep(p)
    BY <2>1, <2>2, Zenon DEF VerbStep
  <2> HIDE DEF new
  <2> QED BY <1>1, <2>2, <2>3
<1>8. ASSUME NEW p \in Procs, SetBookmark(p), ~Ends(p) PROVE Goal
  <2> DEFINE at == IF verb[p].on = None THEN "set" ELSE "ready"
             new == [verb[p] EXCEPT !.at = at]
  <2>1. verb[p].at = "prepared" /\ Sets(verb[p].commit) /\ Step(p, at)
    BY <1>8 DEF SetBookmark, Sets
  <2>2. verb' = [verb EXCEPT ![p] = new]
    BY <2>1 DEF Step
  <2>3. verb'[p] = new => VerbStep(p)
    BY <2>1, Zenon DEF VerbStep
  <2> HIDE DEF new
  <2> QED BY <1>1, <2>2, <2>3
<1>9. ASSUME NEW p \in Procs, TrackNew(p) PROVE Goal
  <2> DEFINE new == [verb[p] EXCEPT !.at = "ready"]
  <2>1. verb[p].at = "set" /\ verb' = [verb EXCEPT ![p] = new]
    BY <1>9 DEF TrackNew, Step
  <2>2. verb'[p] = new => VerbStep(p)
    BY <1>9, <2>1, Zenon DEF VerbStep
  <2> HIDE DEF new
  <2> QED BY <1>1, <2>1, <2>2
<1>10. ASSUME NEW p \in Procs, MergeMakes(p) PROVE Goal
  <2> DEFINE new == [verb[p] EXCEPT !.at = "merged"]
  <2>1. verb[p].at = "merging" /\ verb' = [verb EXCEPT ![p] = new]
    BY <1>10 DEF MergeMakes, Step
  <2>2. verb'[p] = new => VerbStep(p)
    BY <2>1, Zenon DEF VerbStep
  <2> HIDE DEF new
  <2> QED BY <1>1, <2>1, <2>2
<1>11. ASSUME NEW p \in Procs, CheckScope(p), ~Ends(p) PROVE Goal
  <2> DEFINE s == verb[p].slot
             theirs == {tip[t] : t \in Slots \ {s}}
             new(onto) == [verb[p] EXCEPT !.at = "pinned", !.on = onto, !.change = wc[s], !.spared = theirs]
  <2>1. UNCHANGED <<commits, repo, branch>> /\ verb[p].at \in {"syncing", "rebasing"}
    BY <1>11, Zenon DEF CheckScope
  <2>2. PICK onto \in {base} \cup Visible :
          /\ Descendants(To(onto, tip[s])) \cap (Immutable \cup theirs) = {}
          /\ verb' = [verb EXCEPT ![p].at = "pinned", ![p].on = onto, ![p].change = wc[s], ![p].spared = theirs]
    <3>1. PICK onto \in IF verb[p].at = "syncing" THEN {base} ELSE Visible :
            IF Descendants(To(onto, tip[s])) \cap (Immutable \cup theirs) # {} THEN Ends(p)
            ELSE verb' = [verb EXCEPT ![p].at = "pinned", ![p].on = onto, ![p].change = wc[s], ![p].spared = theirs]
      BY <1>11, Zenon DEF CheckScope
    <3> HIDE DEF s, theirs
    <3> QED BY <1>11, <3>1, Zenon
  <2>3. onto \in Visible
    BY <2>2, VisibleIsKnown
  <2>4. verb' = [verb EXCEPT ![p] = new(onto)]
    <3> DEFINE change == wc[s]
    <3>1. verb' = [verb EXCEPT ![p].at = "pinned", ![p].on = onto, ![p].change = change, ![p].spared = theirs]
      BY <2>2, Zenon
    <3> HIDE DEF theirs, change
    <3>2. verb' = [verb EXCEPT ![p] = [verb[p] EXCEPT !.at = "pinned", !.on = onto, !.change = change, !.spared = theirs]]
      BY <3>1
    <3> QED BY <3>2, Zenon DEF change
  <2>5. Stays
    BY <2>1 DEF Stays, repo
  <2>6. verb'[p] = new(onto) => VerbStep(p)
    <3>1. verb'[p] = new(onto) => Checks(p, onto)
      BY <2>1, <2>2, <2>5, Zenon DEF Checks
    <3> QED BY <2>3, <3>1, Zenon DEF VerbStep
  <2> HIDE DEF new
  <2> QED BY <1>1, <2>4, <2>6
<1>12. ASSUME NEW p \in Procs, RebasePinned(p), ~Ends(p) PROVE Goal
  <2> DEFINE v == verb[p]
             c == CHOOSE d \in Pinned(v.change) : TRUE
  <2>1. verb' = [q \in Procs |-> IF q = p THEN Idle ELSE Excused(verb[q], v.change, c, v.on)]
    BY <1>12 DEF RebasePinned, RebaseOf
  <2> HIDE DEF v, c
  <2>2. \A q \in Procs : verb'[q] = Idle \/ verb'[q] = Excused(verb[q], v.change, c, v.on)
    BY <2>1
  <2>3. \A q \in Procs : VerbStep(q)
    <3>1. \A q \in Procs : verb'[q] = Idle \/ Eased(q)
      BY <2>2, Easing
    <3> QED BY <1>0, <3>1, Zenon DEF VerbStep
  <2>4. verb' = [q \in Procs |-> verb'[q]]
    BY <2>1
  <2> QED BY <2>3, <2>4
<1>13. ASSUME NEW p \in Procs, \/ Prepare(p) \/ SetBookmark(p) \/ TrackNew(p) \/ Push(p) \/ Fetch(p)
                               \/ CheckScope(p) \/ RebasePinned(p) \/ MergeMakes(p) \/ MergeEnds(p)
      PROVE  Goal
  <2>1. Push(p) \/ MergeEnds(p) => Ends(p)
    BY DEF Push, MergeEnds
  <2>2. Fetch(p) => verb' = verb
    BY DEF Fetch
  <2> HIDE DEF Goal
  <2> QED BY <1>2, <1>3, <1>7, <1>8, <1>9, <1>10, <1>11, <1>12, <1>13, <2>1, <2>2
<1>14. ASSUME NEW s \in Slots, Agent(s) PROVE Goal
  <2>1. CASE AgentRebases(s)
    <3>1. PICK onto : verb' = [q \in Procs |-> Excused(verb[q], wc[s], tip[s], onto)]
      BY <2>1 DEF AgentRebases
    <3>2. \A q \in Procs : verb'[q] = Excused(verb[q], wc[s], tip[s], onto)
      BY <3>1
    <3>3. \A q \in Procs : VerbStep(q)
      BY <1>0, <3>2, Easing
    <3>4. verb' = [q \in Procs |-> verb'[q]]
      BY <3>1
    <3> QED BY <3>3, <3>4
  <2>2. CASE AgentMarks
    <3>1. PICK c : verb' = [q \in Procs |-> IF verb[q].at \in {"set", "ready"}
                              THEN [verb[q] EXCEPT !.held = @ \cap Changes(Past(c))] ELSE verb[q]]
      BY <2>2 DEF AgentMarks
    <3> DEFINE H == Changes(Past(c))
    <3>2. \A q \in Procs : verb'[q] = verb[q] \/ verb'[q] = [verb[q] EXCEPT !.held = @ \cap H]
      BY <3>1
    <3>3. verb' = [q \in Procs |-> verb'[q]]
      BY <3>1
    <3> HIDE DEF H
    <3>4. \A q \in Procs : VerbStep(q)
      BY <1>0, <3>2, Easing
    <3> QED BY <3>3, <3>4
  <2>3. CASE AgentCommits(s) \/ AgentStarts(s) \/ AgentAmends(s) \/ AgentMoves(s)
    <3>1. verb' = verb
      BY <2>3 DEF AgentCommits, AgentStarts, AgentAmends, AgentMoves
    <3> HIDE DEF Goal
    <3> QED BY <1>2, <3>1
  <2> QED BY <1>14, <2>1, <2>2, <2>3 DEF Agent
<1>15. ASSUME OthersPush \/ UNCHANGED vars PROVE Goal
  <2>1. verb' = verb
    BY <1>15 DEF OthersPush, vars
  <2> HIDE DEF Goal
  <2> QED BY <1>2, <2>1
<1> HIDE DEF Goal
<1>16. Goal
  BY <1>4, <1>5, <1>6, <1>13, <1>14, <1>15 DEF Next
<1> QED BY <1>16 DEF Goal

-----------------------------------------------------------------------------
(* Types.                                                                     *)

(* The repository's state after a step, the commits checked apart.            *)
RepoTypes ==
  /\ CommitsOK' /\ Extends
  /\ tip' \in [Slots -> Ids'] /\ wc' \in [Slots -> Nat] /\ local' \subseteq Ids'
  /\ {seen', branch'} \subseteq Ids' \cup {None} /\ base' \in {OldBase, NewBase} /\ tracked' \in BOOLEAN

LEMMA SameCommits ==
  ASSUME IInv, commits' = commits PROVE CommitsOK' /\ Extends /\ Ids' = Ids
<1>1. CommitsOK'
  BY DEF IInv, TypeOK, CommitsOK, Past
<1> QED BY <1>1 DEF Extends, Ids

(* The parts of a merge, an agent's commit and what others add.               *)
LEMMA Merging ==
  ASSUME IInv, NEW p \in Procs, Merges(p)
  PROVE  LET n == Len(commits) + 1
             c == verb[p].commit
             d == Named(verb[p].on)
             s == verb[p].slot
         IN /\ CommitsOK' /\ Extends /\ n \notin Ids /\ Ids' = Ids \cup {n}
            /\ c \in Known /\ s \in Slots /\ d \in Ids /\ (d = seen \/ d \in Known)
            /\ commits'[n].change = NewChange
            /\ commits'[n].past = commits[c].past \cup commits[d].past \cup {n}
<1> DEFINE c == verb[p].commit
           d == Named(verb[p].on)
           past == Past(c) \cup Past(d)
<1>1. /\ c \in Known /\ verb[p].slot \in Slots /\ d # None /\ verb[p].on \in {None} \cup Known
  BY DEF IInv, VerbInv, Merges, Planning
<1>2. c \in Ids /\ d \in Ids /\ (d = seen \/ d \in Known)
  BY <1>1, Types DEF Known, Named
<1> HIDE DEF c, d
<1>3. past \in SUBSET Ids /\ \A e \in past : Past(e) \subseteq past
  BY <1>2, Types, History
<1>4. NewChange \in Nat
  BY Types, Newest
<1>5. NewCommit(NewChange, past) /\ CommitsOK
  BY Types DEF Merges, c, d
<1> HIDE DEF past
<1>6. LET n == Len(commits) + 1 IN
      /\ CommitsOK' /\ Extends /\ n \notin Ids /\ Ids' = Ids \cup {n}
      /\ commits'[n].change = NewChange /\ commits'[n].past = past \cup {n}
  BY <1>3, <1>4, <1>5, Appended
<1> QED BY <1>1, <1>2, <1>6 DEF past, Past, c, d

LEMMA Committing ==
  ASSUME IInv, NEW s \in Slots, Commits(s)
  PROVE  LET n == Len(commits) + 1
         IN /\ CommitsOK' /\ Extends /\ n \notin Ids /\ Ids' = Ids \cup {n}
            /\ commits'[n].change = wc[s]
            /\ commits'[n].past = commits[tip[s]].past \cup {n}
            /\ tip' = [tip EXCEPT ![s] = n] /\ wc' = [wc EXCEPT ![s] = NewChange]
            /\ UNCHANGED <<local, seen, tracked, base, branch>>
<1> DEFINE past == Past(tip[s])
<1>1. tip[s] \in Ids /\ wc[s] \in Nat /\ CommitsOK
  BY Types
<1>2. past \in SUBSET Ids /\ \A d \in past : Past(d) \subseteq past
  BY <1>1, History
<1>3. /\ NewCommit(wc[s], past) /\ Sit(s, Len(commits) + 1)
      /\ UNCHANGED <<local, seen, tracked, base, branch>>
  BY DEF Commits, AgentCommits
<1> HIDE DEF past
<1>4. LET n == Len(commits) + 1 IN
      /\ CommitsOK' /\ Extends /\ n \notin Ids /\ Ids' = Ids \cup {n}
      /\ commits'[n].change = wc[s] /\ commits'[n].past = past \cup {n}
  BY <1>1, <1>2, <1>3, Appended
<1> QED BY <1>3, <1>4 DEF past, Past, Sit

LEMMA Moving ==
  ASSUME IInv, NEW s \in Slots, Moves(s)
  PROVE  \E c \in {base} \cup {tip[t] : t \in Slots} :
           /\ tip' = [tip EXCEPT ![s] = c] /\ wc' = [wc EXCEPT ![s] = NewChange]
           /\ UNCHANGED <<commits, local, seen, tracked, base, branch>>
  BY DEF Moves, AgentMoves, Sit

LEMMA Adding ==
  ASSUME IInv, Adds
  PROVE  LET n == Len(commits) + 1
         IN /\ CommitsOK' /\ Extends /\ n \notin Ids /\ Ids' = Ids \cup {n}
            /\ branch' = n /\ UNCHANGED <<tip, wc, local, seen, tracked, base>>
            /\ \/ /\ commits'[n].change = NewChange
                  /\ commits'[n].past = commits[IF branch = None THEN NewBase ELSE branch].past \cup {n}
               \/ /\ branch \in Ids /\ commits'[n].change = commits[branch].change
                  /\ commits'[n].past = (commits[branch].past \ {branch}) \cup {n}
<1> DEFINE b == IF branch = None THEN NewBase ELSE branch
           n == Len(commits) + 1
<1>1. b \in Ids /\ CommitsOK /\ Ids \subseteq Nat
  BY Types DEF RootInv
<1>2. CASE NewCommit(NewChange, Past(b))
  <2> DEFINE past == Past(b)
  <2>1. past \in SUBSET Ids /\ \A d \in past : Past(d) \subseteq past
    BY <1>1, History
  <2>2. NewChange \in Nat /\ NewCommit(NewChange, past)
    BY <1>2, Types, Newest
  <2> HIDE DEF past, b
  <2>3. /\ CommitsOK' /\ Extends /\ n \notin Ids /\ Ids' = Ids \cup {n}
        /\ commits'[n].change = NewChange /\ commits'[n].past = past \cup {n}
    BY <1>1, <2>1, <2>2, Appended
  <2> QED BY <2>3 DEF past, Past, b, Adds
<1>3. CASE branch # None /\ NewCommit(commits[branch].change, Past(branch) \ {branch})
  <2> DEFINE past == Past(branch) \ {branch}
             change == commits[branch].change
  <2>1. branch \in Ids
    BY <1>1, <1>3
  <2>2. past \in SUBSET Ids /\ \A d \in past : Past(d) \subseteq past
    <3>1. Past(branch) \subseteq Ids /\ Past(branch) \subseteq 1..branch
      BY <1>1, <2>1, History
    <3>2. ASSUME NEW d \in past PROVE Past(d) \subseteq past
      <4>1. d \in Ids /\ d \in Nat /\ branch \in Nat /\ d <= branch /\ d # branch
        BY <1>1, <2>1, <3>1
      <4>2. Past(d) \subseteq Past(branch) /\ Past(d) \subseteq 1..d
        BY <1>1, <2>1, <4>1, History
      <4>3. branch \notin 1..d
        BY <4>1
      <4> QED BY <4>2, <4>3
    <3> QED BY <3>1, <3>2
  <2>3. change \in Nat /\ NewCommit(change, past)
    BY <1>1, <1>3, <2>1, History
  <2> HIDE DEF past, change
  <2>4. /\ CommitsOK' /\ Extends /\ n \notin Ids /\ Ids' = Ids \cup {n}
        /\ commits'[n].change = change /\ commits'[n].past = past \cup {n}
    BY <1>1, <2>2, <2>3, Appended
  <2> QED BY <2>1, <2>4 DEF past, change, Past, Adds
<1> QED BY <1>2, <1>3 DEF Adds

LEMMA RepoTyped == ASSUME IInv, RepoStep PROVE RepoTypes
<1>1. /\ tip \in [Slots -> Ids] /\ wc \in [Slots -> Nat] /\ local \subseteq Ids
      /\ {seen, branch} \subseteq Ids \cup {None} /\ base \in {OldBase, NewBase} /\ tracked \in BOOLEAN
      /\ {OldBase, NewBase} \subseteq Ids /\ NewChange \in Nat /\ NewChange + 1 \in Nat
  BY Types, Newest DEF RepoOK, RootInv
<1>2. CASE Stays
  BY <1>1, <1>2, SameCommits DEF Stays, RepoTypes
<1>3. CASE Fetches
  <2>1. UNCHANGED <<commits, tip, wc, tracked, branch>> /\ local' = Followed /\ seen' = branch /\ base' = NewBase
    BY <1>3 DEF Fetches
  <2>2. branch # seen => branch \in Ids
    BY <1>1 DEF IInv, BranchInv
  <2>3. Followed \subseteq Ids
    BY <1>1, <2>2 DEF Followed, Heads, Optional
  <2> QED BY <1>1, <2>1, <2>3, SameCommits DEF RepoTypes
<1>4. CASE Tracks
  BY <1>1, <1>4, SameCommits DEF Tracks, Heads, Optional, RepoTypes
<1>5. CASE Adds
  BY <1>1, <1>5, Adding DEF RepoTypes
<1>6. CASE Publishes
  <2>1. PICK p \in Procs : verb[p].at = "prepared" /\ Sets(verb[p].commit)
    BY <1>6 DEF Publishes
  <2>2. verb[p].commit \in Ids
    BY <2>1 DEF IInv, VerbInv, Planning, Known
  <2> QED BY <1>1, <2>1, <2>2, SameCommits DEF Sets, RepoTypes
<1>7. ASSUME NEW change \in Nat, NEW on \in Known, Seats(change, on) PROVE RepoTypes
  <2>1. on \in Ids
    BY DEF Known
  <2> QED BY <1>1, <1>7, <2>1, SameCommits DEF Seats, RepoTypes
<1>8. ASSUME NEW p \in Procs, Merges(p) PROVE RepoTypes
  BY <1>1, <1>8, Merging DEF Merges, RepoTypes
<1>9. ASSUME NEW c \in local, Pushes(c) PROVE RepoTypes
  BY <1>1, <1>9, SameCommits DEF Pushes, RepoTypes
<1>10. ASSUME NEW S \in SUBSET Ids, NEW onto \in {None} \cup Known, Rewrites(S, onto) PROVE RepoTypes
  <2>1. CommitsOK /\ RepoOK /\ RootInv /\ onto \in {None} \cup Ids /\ Rewrite(Descendants(S), onto)
    BY <1>1, <1>10, Types DEF Rewrites, Known
  <2>2. LET mv(c) == Moved(Descendants(S), c) IN
        /\ CommitsOK' /\ Extends /\ \A c \in Ids : mv(c) \in Ids'
        /\ tip' = [s \in Slots |-> mv(tip[s])] /\ local' = {mv(c) : c \in local}
    BY <2>1, Rewritten
  <2>3. tip' \in [Slots -> Ids'] /\ local' \subseteq Ids'
    BY <1>1, <2>2
  <2>4. {seen, branch} \subseteq Ids' \cup {None}
    BY <1>1, <2>2 DEF Extends
  <2> QED BY <1>1, <1>10, <2>2, <2>3, <2>4 DEF Rewrites, RepoTypes
<1>11. ASSUME NEW s \in Slots, Commits(s) PROVE RepoTypes
  BY <1>1, <1>11, Committing DEF RepoTypes
<1>12. ASSUME NEW s \in Slots, Moves(s) PROVE RepoTypes
  BY <1>1, <1>12, Moving, SameCommits DEF RepoTypes
<1>13. ASSUME NEW c \in Visible, Marks(c) PROVE RepoTypes
  <2>1. c \in Ids
    BY VisibleIsKnown DEF Known
  <2> QED BY <1>1, <1>13, <2>1, SameCommits DEF Marks, RepoTypes
<1> QED BY <1>2, <1>3, <1>4, <1>5, <1>6, <1>7, <1>8, <1>9, <1>10, <1>11, <1>12, <1>13 DEF RepoStep

LEMMA RootStep == ASSUME IInv, Extends PROVE RootInv'
  BY Types DEF RootInv, Extends, Commit

LEMMA ChangesAreNumbers ==
  ASSUME IInv
  PROVE  /\ \A c \in Ids : commits[c].change \in Nat /\ commits[c].past \subseteq Ids
         /\ ChangesOn(seen) = HoldsOn(commits, seen) /\ HoldsOn(commits, seen) \subseteq Changes(Ids)
         /\ Changes(Ids) \subseteq Nat
<1>1. \A c \in Ids : commits[c].change \in Nat /\ commits[c].past \subseteq Ids
  BY Types, History
<1>2. ChangesOn(seen) = HoldsOn(commits, seen)
  <2>1. CASE seen = None
    BY <2>1 DEF ChangesOn, HoldsOn, Changes, PastOf, Optional
  <2>2. CASE seen # None
    BY <2>2 DEF ChangesOn, HoldsOn, Holds, Changes, PastOf, Optional, Past
  <2> QED BY <2>1, <2>2
<1>3. HoldsOn(commits, seen) \subseteq Changes(Ids)
  <2>1. CASE seen = None
    BY <2>1 DEF HoldsOn
  <2>2. CASE seen # None
    <3>1. seen \in Ids
      BY <2>2, Types
    <3> QED BY <1>1, <2>2, <3>1 DEF HoldsOn, Holds, Changes
  <2> QED BY <2>1, <2>2
<1>4. Changes(Ids) \subseteq Nat
  BY <1>1 DEF Changes
<1> QED BY <1>1, <1>2, <1>3, <1>4

(* What a plan is of.                                                          *)
LEMMA Planned ==
  ASSUME IInv, NEW p \in Procs, NEW s \in Slots, Plan(p, s)
  PROVE  /\ Stays /\ tip[s] \in Ids
         /\ checked' = checked \cup Changes(Pending(s)) \cup HoldsOn(commits, seen)
         /\ Changes(Pending(s)) \subseteq Changes(Ids)
         /\ HoldsAbove(commits, tip[s]) \subseteq checked'
         /\ HoldsOn(commits, seen) \subseteq Holds(commits, tip[s])
<1>1. tip[s] \in Ids /\ base \in Ids /\ (seen # None => seen \in Ids) /\ Ids \subseteq Nat
  BY Types DEF RootInv
<1>2. \A c \in Ids : Past(c) = commits[c].past /\ Past(c) \subseteq Ids
  BY Types, History
<1>3. /\ Stays /\ checked' = checked \cup Changes(Pending(s)) \cup HoldsOn(commits, seen)
  <2>1. UNCHANGED <<commits, repo, branch>> /\ checked' = checked \cup Changes(Pending(s)) \cup ChangesOn(seen)
    BY Zenon DEF Plan
  <2> QED BY <2>1, ChangesAreNumbers DEF Stays, repo
<1>4. Pending(s) = Past(tip[s]) \ Past(IF seen = None THEN base ELSE seen)
  BY DEF Pending, To
<1>5. Changes(Pending(s)) \subseteq Changes(Ids)
  BY <1>1, <1>2, <1>4 DEF Changes
<1>6. HoldsAbove(commits, tip[s]) \subseteq checked'
  <2> SUFFICES ASSUME NEW d \in commits[tip[s]].past \ {OldBase, NewBase}
               PROVE  commits[d].change \in checked'
    BY DEF HoldsAbove
  <2>1. CASE d \in Pending(s)
    BY <1>3, <2>1 DEF Changes
  <2>2. CASE d \notin Pending(s) /\ seen # None
    <3>1. d \in commits[seen].past
      BY <1>1, <1>2, <1>4, <2>2
    <3> QED BY <1>3, <2>2, <3>1 DEF HoldsOn, Holds
  <2>3. CASE d \notin Pending(s) /\ seen = None
    <3>1. d \in commits[base].past
      BY <1>1, <1>2, <1>4, <2>3
    <3>2. commits[base].past \subseteq {OldBase, NewBase}
      BY Types DEF RootInv, Commit
    <3> QED BY <3>1, <3>2
  <2> QED BY <2>1, <2>2, <2>3
<1>7. HoldsOn(commits, seen) \subseteq Holds(commits, tip[s])
  <2>1. CASE seen = None
    BY <2>1 DEF HoldsOn
  <2>2. CASE seen # None
    <3>1. Foreign(s, To(tip[s], seen)) = {}
      BY <2>2 DEF Plan, OwnBranch
    <3>2. ASSUME NEW d \in commits[seen].past PROVE commits[d].change \in Holds(commits, tip[s])
      <4>1. CASE d \in Past(tip[s])
        BY <1>1, <1>2, <4>1 DEF Holds
      <4>2. CASE d \notin Past(tip[s])
        <5>1. d \in To(tip[s], seen)
          BY <1>1, <1>2, <2>2, <4>2 DEF To
        <5>2. commits[d].change \in Ours(s)
          BY <3>1, <5>1 DEF Foreign
        <5>3. PICK e \in Past(tip[s]) : commits[e].change = commits[d].change
          BY <5>2 DEF Ours, Changes, To
        <5> QED BY <1>1, <1>2, <5>3 DEF Holds
      <4> QED BY <4>1, <4>2
    <3> QED BY <2>2, <3>2 DEF HoldsOn, Holds
  <2> QED BY <2>1, <2>2
<1> QED BY <1>1, <1>3, <1>5, <1>6, <1>7

(* What is brought are changes; on a merge are slots.                         *)
LEMMA BroughtStep == ASSUME IInv, [Next]_vars PROVE brought' \subseteq Nat /\ onMerge' \subseteq Slots
<1>1. brought \subseteq Nat /\ onMerge \subseteq Slots
  BY Types DEF RepoOK
<1>2. ASSUME NEW c, c \in Ids PROVE Changes(Past(c)) \subseteq Nat
  BY <1>2, Types, History DEF Changes
<1>3. \A change, c, onto : RebaseBranch(change, c, onto) /\ onto \in Ids => brought' \subseteq Nat
  BY <1>1, <1>2 DEF RebaseBranch
<1>4. ASSUME NEW p \in Procs, RebasePinned(p) PROVE brought' \subseteq Nat /\ onMerge' = onMerge
  <2>1. verb[p].at = "pinned" /\ onMerge' = onMerge
    BY <1>4 DEF RebasePinned, RebaseOf
  <2>2. verb[p].on \in Ids
    BY <2>1 DEF IInv, VerbInv, Known
  <2>3. brought' = brought \/ \E c : RebaseBranch(verb[p].change, c, verb[p].on)
    BY <1>4 DEF RebasePinned, RebaseOf
  <2> QED BY <1>1, <1>3, <2>1, <2>2, <2>3
<1>5. ASSUME NEW s \in Slots, Agent(s) PROVE brought' \subseteq Nat /\ onMerge' \subseteq Slots
  <2>1. CASE AgentRebases(s)
    <3>1. PICK onto \in Visible : RebaseBranch(wc[s], tip[s], onto)
      BY <2>1 DEF AgentRebases
    <3>2. onto \in Ids /\ onMerge' = onMerge
      BY <2>1, VisibleIsKnown DEF Known, AgentRebases
    <3> QED BY <1>1, <1>3, <3>1, <3>2
  <2>2. CASE AgentMarks
    <3>1. PICK c \in Visible : brought' = brought \cup Changes(Past(c)) /\ onMerge' = onMerge
      BY <2>2 DEF AgentMarks
    <3>2. c \in Ids
      BY VisibleIsKnown DEF Known
    <3> QED BY <1>1, <1>2, <3>1, <3>2
  <2>3. CASE AgentCommits(s) \/ AgentStarts(s) \/ AgentAmends(s) \/ AgentMoves(s)
    <3>1. brought' = brought /\ onMerge' \subseteq onMerge
      BY <2>3 DEF AgentCommits, AgentStarts, AgentAmends, AgentMoves, Sit
    <3> QED BY <1>1, <3>1
  <2> QED BY <1>5, <2>1, <2>2, <2>3 DEF Agent
<1>6. ASSUME NEW p \in Procs, MergeMakes(p) \/ MergeEnds(p) PROVE brought' = brought /\ onMerge' \subseteq Slots
  <2>1. verb[p].at # "idle" /\ brought' = brought /\ onMerge' \subseteq onMerge \cup {verb[p].slot}
    BY <1>6 DEF MergeMakes, MergeEnds
  <2>2. verb[p].slot \in Slots
    BY <2>1 DEF IInv, VerbInv
  <2> QED BY <1>1, <2>1, <2>2
<1>7. ASSUME NEW p \in Procs, \/ Prepare(p) \/ SetBookmark(p) \/ TrackNew(p) \/ Push(p) \/ Fetch(p) \/ CheckScope(p)
      PROVE  brought' \subseteq brought /\ onMerge' = onMerge
  <2>1. CASE Prepare(p)
    BY <2>1, Zenon DEF Prepare, repo
  <2>2. CASE CheckScope(p)
    BY <2>2, Zenon DEF CheckScope, repo
  <2>3. CASE SetBookmark(p) \/ TrackNew(p) \/ Push(p) \/ Fetch(p)
    BY <2>3 DEF SetBookmark, TrackNew, Push, Fetch, Fetches
  <2> QED BY <1>7, <2>1, <2>2, <2>3
<1>8. ASSUME NEW p \in Procs, NEW s \in Slots, Plan(p, s) \/ SyncBase(p, s) \/ Rebase(p, s) \/ MergeReads(p, s)
      PROVE  brought' = brought /\ onMerge' = onMerge
  BY <1>8, Zenon DEF Plan, SyncBase, Rebase, MergeReads, Fetches, repo
<1>9. ASSUME OthersPush \/ UNCHANGED vars PROVE brought' = brought /\ onMerge' = onMerge
  BY <1>9 DEF OthersPush, vars, repo
<1> QED BY <1>1, <1>4, <1>5, <1>6, <1>7, <1>8, <1>9 DEF Next

LEMMA TypeStep == ASSUME IInv, [Next]_vars PROVE TypeOK' /\ RepoTypes /\ RootInv'
<1>1. RepoStep /\ RepoTypes /\ RootInv'
  <2>1. RepoTypes
    BY RepoSteps, RepoTyped
  <2> QED BY <2>1, RepoSteps, RootStep DEF RepoTypes
<1>2. Ids \subseteq Ids' /\ Changes(Ids) \subseteq Nat /\ HoldsOn(commits, seen) \subseteq Nat
  BY <1>1, ChangesAreNumbers DEF RepoTypes, Extends
<1>3. checked' \subseteq Nat
  <2>1. checked \subseteq Nat
    BY Types DEF RepoOK
  <2>2. ASSUME NEW p \in Procs, NEW s \in Slots, Plan(p, s) PROVE checked' \subseteq Nat
    BY <1>2, <2>1, <2>2, Planned
  <2>3. CASE checked' = checked
    BY <2>1, <2>3
  <2>4. ASSUME NEW p \in Procs, \/ Prepare(p) \/ SetBookmark(p) \/ TrackNew(p) \/ Push(p) \/ Fetch(p)
                                \/ CheckScope(p) \/ RebasePinned(p) \/ MergeMakes(p) \/ MergeEnds(p)
        PROVE  checked' = checked
    BY <2>4, Zenon DEF Prepare, SetBookmark, TrackNew, Push, Fetch, CheckScope, RebasePinned, RebaseOf,
                       MergeMakes, MergeEnds
  <2>5. ASSUME NEW p \in Procs, NEW s \in Slots, SyncBase(p, s) \/ Rebase(p, s) \/ MergeReads(p, s)
        PROVE  checked' = checked
    BY <2>5, Zenon DEF SyncBase, Rebase, Rebases, MergeReads
  <2>6. (\E s \in Slots : Agent(s)) \/ OthersPush \/ UNCHANGED vars => checked' = checked
    BY DEF Agent, OthersPush, vars
  <2> QED BY <2>2, <2>3, <2>4, <2>5, <2>6 DEF Next
<1>4. verb' \in [Procs -> Verbs(Ids')]
  <2>1. ASSUME NEW q \in Procs PROVE verb'[q] \in Verbs(Ids')
    <3>1. /\ verb[q] \in Verbs(Ids) /\ seen \in Ids \cup {None} /\ base \in Ids /\ base \in Nat
          /\ tip \in [Slots -> Ids] /\ wc \in [Slots -> Nat] /\ Visible \subseteq Ids
      BY Types, VisibleIsKnown DEF RootInv, Known
    <3>2. /\ Idle \in Verbs(Ids') /\ Verbs(Ids) \subseteq Verbs(Ids')
          /\ \A at \in Ats : [verb[q] EXCEPT !.at = at] \in Verbs(Ids')
      BY <1>2, <3>1 DEF Verbs, Idle, Ats
    <3>3. ASSUME NEW s \in Slots
          PROVE  /\ [Idle EXCEPT !.at = "planned", !.slot = s, !.commit = tip[s],
                                 !.held = ChangesOn(seen)] \in Verbs(Ids')
                 /\ \A at \in {"syncing", "rebasing"} : [Idle EXCEPT !.at = at, !.slot = s] \in Verbs(Ids')
                 /\ \A ref \in {None} \cup Visible :
                      [Idle EXCEPT !.at = "merging", !.slot = s, !.commit = tip[s], !.on = ref] \in Verbs(Ids')
      <4> DEFINE H == ChangesOn(seen)
      <4>1. H \subseteq Nat
        BY <1>2, ChangesAreNumbers
      <4>2. tip[s] \in Ids' /\ \A ref \in {None} \cup Visible : ref \in Ids' \cup {None}
        BY <1>2, <3>1
      <4> HIDE DEF H
      <4>3. [Idle EXCEPT !.at = "planned", !.slot = s, !.commit = tip[s], !.held = H] \in Verbs(Ids')
        BY <4>1, <4>2 DEF Verbs, Idle, Ats
      <4>4. \A at \in {"syncing", "rebasing"} : [Idle EXCEPT !.at = at, !.slot = s] \in Verbs(Ids')
        BY DEF Verbs, Idle, Ats
      <4>5. ASSUME NEW ref \in {None} \cup Visible
            PROVE  [Idle EXCEPT !.at = "merging", !.slot = s, !.commit = tip[s], !.on = ref] \in Verbs(Ids')
        BY <4>2 DEF Verbs, Idle, Ats
      <4> QED BY <4>3, <4>4, <4>5, Zenon DEF H
    <3>4. [verb[q] EXCEPT !.at = "prepared", !.on = seen] \in Verbs(Ids')
      BY <1>2, <3>1 DEF Verbs, Ats
    <3>5. ASSUME NEW onto \in Visible, Checks(q, onto) PROVE verb'[q] \in Verbs(Ids')
      <4> DEFINE s == verb[q].slot
                 theirs == {tip[t] : t \in Slots \ {s}}
      <4>1. s \in Slots
        BY <3>5 DEF Checks, IInv, VerbInv
      <4>2. theirs \subseteq Ids /\ wc[s] \in Nat /\ onto \in Ids
        BY <3>1, <4>1
      <4>3. verb'[q] = [verb[q] EXCEPT !.at = "pinned", !.on = onto, !.change = wc[s], !.spared = theirs]
        BY <3>5 DEF Checks
      <4> HIDE DEF theirs, s
      <4> QED BY <1>2, <3>1, <4>1, <4>2, <4>3 DEF Verbs, Ats
    <3>6. Eased(q) => verb'[q] \in Verbs(Ids')
      BY <3>2 DEF Eased
    <3>7. \A at \in {"set", "ready", "merged"} : at \in Ats
      BY DEF Ats
    <3>8. ASSUME NEW s \in Slots,
             \/ verb'[q] = [Idle EXCEPT !.at = "planned", !.slot = s, !.commit = tip[s], !.held = ChangesOn(seen)]
             \/ \E at \in {"syncing", "rebasing"} : verb'[q] = [Idle EXCEPT !.at = at, !.slot = s]
             \/ \E ref \in {None} \cup Visible :
                  verb'[q] = [Idle EXCEPT !.at = "merging", !.slot = s, !.commit = tip[s], !.on = ref]
          PROVE  verb'[q] \in Verbs(Ids')
      BY <3>3, <3>8, Zenon
    <3>9. VerbStep(q)
      BY VerbSteps
    <3> QED BY <3>2, <3>4, <3>5, <3>6, <3>7, <3>8, <3>9, Zenon DEF VerbStep
  <2>2. verb' = [q \in Procs |-> verb'[q]]
    BY VerbSteps
  <2> QED BY <2>1, <2>2
<1>5. verbs' \in 0..MaxVerbs /\ agents' \in 0..MaxAgents /\ others' \in 0..MaxOthers
  <2>1. /\ verbs \in 0..MaxVerbs /\ agents \in 0..MaxAgents /\ others \in 0..MaxOthers
        /\ MaxVerbs \in Nat /\ MaxAgents \in Nat /\ MaxOthers \in Nat
    BY SlotPublishAssumption DEF IInv, TypeOK
  <2> DEFINE Goal == /\ verbs' = verbs \/ (verbs < MaxVerbs /\ verbs' = verbs + 1)
                     /\ agents' = agents \/ (agents < MaxAgents /\ agents' = agents + 1)
                     /\ others' = others \/ (others < MaxOthers /\ others' = others + 1)
  <2>2. ASSUME NEW p \in Procs, \/ Prepare(p) \/ SetBookmark(p) \/ TrackNew(p) \/ Push(p)
                                \/ CheckScope(p) \/ RebasePinned(p) \/ MergeMakes(p) \/ MergeEnds(p)
        PROVE  Goal
    BY <2>2, Zenon DEF Prepare, SetBookmark, TrackNew, Push, CheckScope, RebasePinned, RebaseOf,
                       MergeMakes, MergeEnds, counts
  <2>3. ASSUME NEW p \in Procs, NEW s \in Slots,
               Plan(p, s) \/ SyncBase(p, s) \/ Rebase(p, s) \/ MergeReads(p, s) \/ Fetch(p)
        PROVE  Goal
    BY <2>3, Zenon DEF Plan, SyncBase, Rebase, Rebases, MergeReads, Fetch
  <2>4. (\E s \in Slots : Agent(s)) \/ OthersPush \/ UNCHANGED vars => Goal
    BY DEF Agent, OthersPush, vars, counts
  <2>5. Slots # {}
    BY SlotPublishAssumption
  <2> HIDE DEF Goal
  <2>6. Goal
    BY <2>2, <2>3, <2>4, <2>5 DEF Next
  <2> QED BY <2>1, <2>6 DEF Goal
<1> QED BY <1>1, <1>3, <1>4, <1>5, BroughtStep DEF RepoTypes, TypeOK, RepoOK, Ids

-----------------------------------------------------------------------------
(* The invariant's other parts, step by step.                                 *)

LEMMA StepFacts ==
  ASSUME IInv, [Next]_vars
  PROVE  /\ RepoStep /\ RepoTypes /\ CommitsOK' /\ Extends /\ RootInv' /\ Grown
         /\ \A c \in Ids : /\ commits'[c] = commits[c] /\ c \in Ids'
                           /\ Holds(commits', c) = Holds(commits, c)
                           /\ HoldsAbove(commits', c) = HoldsAbove(commits, c)
         /\ \A b \in Ids \cup {None} : HoldsOn(commits', b) = HoldsOn(commits, b)
  BY TypeStep, RepoSteps, Kept, Types DEF RepoTypes

(* The kinds of steps that leave the changes there are, and the working        *)
(* copies', alone.                                                            *)
LEMMA SameChanges ==
  ASSUME IInv, \/ Stays \/ Fetches \/ Tracks \/ Publishes
               \/ \E c : Marks(c) \/ Pushes(c)
               \/ \E change, on : Seats(change, on)
               \/ \E S \in SUBSET Ids, onto \in {None} \cup Known : Rewrites(S, onto)
  PROVE  wc' = wc /\ Changes(Ids)' = Changes(Ids)
<1>1. CASE commits' = commits /\ wc' = wc
  BY <1>1 DEF Changes, Ids
<1>2. ASSUME NEW S \in SUBSET Ids, NEW onto \in {None} \cup Known, Rewrites(S, onto)
      PROVE  wc' = wc /\ Changes(Ids)' = Changes(Ids)
  <2> DEFINE scope == Descendants(S)
             mv(c) == Moved(scope, c)
  <2>1. CommitsOK /\ RepoOK /\ RootInv /\ onto \in {None} \cup Ids /\ Rewrite(Descendants(S), onto)
    BY <1>2, Types DEF Rewrites, Known
  <2>2. /\ Extends
        /\ \A c \in scope : commits'[mv(c)].change = commits[c].change
        /\ \A n \in Ids' \ Ids : \E c \in scope : n = mv(c)
        /\ scope \subseteq Ids
    BY <2>1, Rewritten, UpwardClosed
  <2> HIDE DEF scope, mv
  <2>3. \A c \in Ids' : \E d \in Ids : commits'[c].change = commits[d].change
    <3> SUFFICES ASSUME NEW c \in Ids' PROVE \E d \in Ids : commits'[c].change = commits[d].change
      OBVIOUS
    <3>1. CASE c \in Ids
      BY <2>2, <3>1 DEF Extends
    <3>2. CASE c \notin Ids
      BY <2>2, <3>2
    <3> QED BY <3>1, <3>2
  <2>4. \A d \in Ids : d \in Ids' /\ commits'[d].change = commits[d].change
    BY <2>2 DEF Extends
  <2>5. {commits'[c].change : c \in Ids'} = {commits[c].change : c \in Ids}
    BY <2>3, <2>4
  <2> QED BY <1>2, <2>5 DEF Changes, Rewrites
<1> QED BY <1>1, <1>2 DEF Stays, Fetches, Tracks, Publishes, Sets, Marks, Pushes, Seats

(* Changes only become more; a working copy keeps its own or gets a newer one. *)
LEMMA FreshRepo ==
  ASSUME IInv, [Next]_vars
  PROVE  /\ \A s \in Slots : wc'[s] \notin Changes(Ids)' /\ \A t \in Slots \ {s} : wc'[t] # wc'[s]
         /\ \A n \in Used : \E m \in Used' : n <= m
         /\ \A s \in Slots : wc'[s] = wc[s] \/ \A n \in Used : n < wc'[s]
<1> DEFINE C == Changes(Ids)
           C1 == {commits'[c].change : c \in Ids'}
           new == NewChange
<1>1. /\ RepoStep /\ Extends /\ Used = C \cup {wc[s] : s \in Slots}
      /\ Used' = C1 \cup {wc'[s] : s \in Slots} /\ Changes(Ids)' = C1
  BY StepFacts DEF Used, Changes
<1>2. /\ new \in Nat /\ \A n \in Used : n \in Nat /\ n < new
      /\ wc \in [Slots -> Nat]
      /\ \A s \in Slots : wc[s] \in Used /\ wc[s] \notin C /\ \A t \in Slots \ {s} : wc[t] # wc[s]
  BY Types, Newest DEF IInv, FreshInv, Used
<1>3. C = {commits[c].change : c \in Ids} /\ C \subseteq Used
  BY DEF Changes, Used
<1>5. ASSUME wc' = wc, C \subseteq C1, C1 \subseteq C \cup {new}
      PROVE  /\ \A t \in Slots : wc'[t] \notin C1 /\ \A u \in Slots \ {t} : wc'[u] # wc'[t]
             /\ \A n \in Used : \E m \in Used' : n <= m
             /\ \A t \in Slots : wc'[t] = wc[t] \/ \A n \in Used : n < wc'[t]
  <2> HIDE DEF C, C1, new
  <2>1. \A n \in Used : n \in Used' /\ n \in Nat /\ n <= n /\ n # new
    BY <1>1, <1>2, <1>5
  <2>2. \A t \in Slots : wc'[t] \notin C1 /\ \A u \in Slots \ {t} : wc'[u] # wc'[t]
    BY <1>2, <1>5, <2>1
  <2> QED BY <1>5, <2>1, <2>2
<1>6. ASSUME NEW s \in Slots, NEW x \in Nat, new <= x, wc' = [wc EXCEPT ![s] = x],
             C \subseteq C1, C1 \subseteq C \cup {wc[s]} \/ (C1 \subseteq C \cup {new} /\ x # new)
      PROVE  /\ \A t \in Slots : wc'[t] \notin C1 /\ \A u \in Slots \ {t} : wc'[u] # wc'[t]
             /\ \A n \in Used : \E m \in Used' : n <= m
             /\ \A t \in Slots : wc'[t] = wc[t] \/ \A n \in Used : n < wc'[t]
  <2> HIDE DEF C, C1, new
  <2>1. wc'[s] = x /\ \A t \in Slots \ {s} : wc'[t] = wc[t]
    BY <1>2, <1>6
  <2>2. \A n \in Used : n \in Nat /\ n < x /\ n <= x /\ n # new
    BY <1>2, <1>6
  <2>3. x \in Used'
    BY <1>1, <2>1
  <2>4. \A t \in Slots : wc'[t] \notin C1
    <3> SUFFICES ASSUME NEW t \in Slots PROVE wc'[t] \notin C1
      OBVIOUS
    <3>1. CASE t = s
      <4>1. x \notin C /\ x # wc[s]
        BY <1>2, <1>3, <2>2
      <4> QED BY <1>6, <2>1, <3>1, <4>1
    <3>2. CASE t # s
      BY <1>2, <1>6, <2>1, <2>2, <3>2
    <3> QED BY <3>1, <3>2
  <2>5. \A t \in Slots : \A u \in Slots \ {t} : wc'[u] # wc'[t]
    <3> SUFFICES ASSUME NEW t \in Slots, NEW u \in Slots \ {t} PROVE wc'[u] # wc'[t]
      OBVIOUS
    <3>1. \A v \in Slots : wc[v] # x
      BY <1>2, <2>2
    <3> QED BY <1>2, <2>1, <3>1
  <2> QED BY <2>1, <2>2, <2>3, <2>4, <2>5
<1>7. ASSUME Adds PROVE wc' = wc /\ C \subseteq C1 /\ C1 \subseteq C \cup {new}
  <2>1. /\ Ids' = Ids \cup {Len(commits) + 1} /\ wc' = wc
        /\ \/ commits'[Len(commits) + 1].change = new
           \/ branch \in Ids /\ commits'[Len(commits) + 1].change = commits[branch].change
    BY <1>7, Adding
  <2>2. C \subseteq C1 /\ C1 \subseteq C \cup {new}
    BY <1>1, <1>3, <2>1 DEF Extends
  <2> QED BY <2>1, <2>2
<1>8. ASSUME NEW p \in Procs, Merges(p)
      PROVE  \E s \in Slots : wc' = [wc EXCEPT ![s] = new + 1] /\ C \subseteq C1 /\ C1 \subseteq C \cup {new}
  <2>1. /\ Ids' = Ids \cup {Len(commits) + 1} /\ commits'[Len(commits) + 1].change = new
        /\ verb[p].slot \in Slots /\ wc' = [wc EXCEPT ![verb[p].slot] = new + 1]
    BY <1>8, Merging DEF Merges
  <2>2. C \subseteq C1 /\ C1 \subseteq C \cup {new}
    BY <1>1, <1>3, <2>1 DEF Extends
  <2> QED BY <2>1, <2>2
<1>9. ASSUME NEW s \in Slots, Commits(s)
      PROVE  wc' = [wc EXCEPT ![s] = new] /\ C \subseteq C1 /\ C1 \subseteq C \cup {wc[s]}
  <2>1. /\ Ids' = Ids \cup {Len(commits) + 1} /\ commits'[Len(commits) + 1].change = wc[s]
        /\ wc' = [wc EXCEPT ![s] = new]
    BY <1>9, Committing
  <2>2. C \subseteq C1 /\ C1 \subseteq C \cup {wc[s]}
    BY <1>1, <1>3, <2>1 DEF Extends
  <2> QED BY <2>1, <2>2
<1>10. ASSUME NEW s \in Slots, Moves(s)
      PROVE  wc' = [wc EXCEPT ![s] = new] /\ C1 = C
  <2>1. wc' = [wc EXCEPT ![s] = new] /\ commits' = commits
    BY <1>10, Moving
  <2> QED BY <1>3, <2>1 DEF Ids
<1> HIDE DEF C, C1, new
<1>11. new <= new /\ new <= new + 1 /\ new + 1 \in Nat /\ new + 1 # new
  BY <1>2
<1>12. \/ wc' = wc /\ C1 = C
       \/ Adds \/ (\E p \in Procs : Merges(p)) \/ \E s \in Slots : Commits(s) \/ Moves(s)
  <2>1. CASE \/ Stays \/ Fetches \/ Tracks \/ Publishes
             \/ \E c : Marks(c) \/ Pushes(c)
             \/ \E change, on : Seats(change, on)
             \/ \E S \in SUBSET Ids, onto \in {None} \cup Known : Rewrites(S, onto)
    <3>1. wc' = wc /\ Changes(Ids)' = Changes(Ids)
      BY <2>1, SameChanges
    <3> QED BY <1>1, <3>1 DEF C
  <2> QED BY <1>1, <2>1 DEF RepoStep
<1>13. /\ \A t \in Slots : wc'[t] \notin C1 /\ \A u \in Slots \ {t} : wc'[u] # wc'[t]
       /\ \A n \in Used : \E m \in Used' : n <= m
       /\ \A t \in Slots : wc'[t] = wc[t] \/ \A n \in Used : n < wc'[t]
  <2>1. CASE (wc' = wc /\ C1 = C) \/ Adds
    BY <1>5, <1>7, <2>1
  <2>2. CASE \E p \in Procs : Merges(p)
    BY <1>6, <1>8, <1>11, <2>2
  <2>3. CASE \E s \in Slots : Commits(s) \/ Moves(s)
    <3>1. PICK s \in Slots : Commits(s) \/ Moves(s)
      BY <2>3
    <3>2. wc' = [wc EXCEPT ![s] = new] /\ C \subseteq C1 /\ C1 \subseteq C \cup {wc[s]}
      BY <1>9, <1>10, <3>1
    <3> QED BY <1>2, <1>6, <1>11, <3>2
  <2> QED BY <1>12, <2>1, <2>2, <2>3
<1> QED BY <1>1, <1>13

(* How a verb's fields change.                                                 *)
Same(q) ==
  /\ verb'[q].slot = verb[q].slot /\ verb'[q].commit = verb[q].commit
  /\ verb'[q].on = verb[q].on /\ verb'[q].change = verb[q].change

Keeps(q) == verb'[q].slot = verb[q].slot /\ verb'[q].held = verb[q].held

LEMMA VerbShapes ==
  ASSUME IInv, [Next]_vars, NEW q \in Procs
  PROVE  \/ verb'[q].at = "idle" /\ verb'[q].held = {}
         \/ /\ verb'[q].at = verb[q].at /\ Same(q)
            /\ verb'[q].held \subseteq verb[q].held /\ verb'[q].spared \subseteq verb[q].spared
         \/ \E s \in Slots : /\ Plan(q, s) /\ Stays /\ verb'[q].at = "planned" /\ verb'[q].slot = s
                             /\ verb'[q].commit = tip[s] /\ verb'[q].held = HoldsOn(commits, seen)
         \/ verb'[q].at \in {"syncing", "rebasing"} /\ verb'[q].slot \in Slots /\ verb'[q].held = {}
         \/ \E s \in Slots : /\ Stays /\ verb'[q].at = "merging" /\ verb'[q].slot = s
                             /\ verb'[q].commit = tip[s] /\ verb'[q].held = {}
                             /\ Named(verb'[q].on) # None /\ verb'[q].on \in {None} \cup Visible
         \/ /\ verb[q].at = "planned" /\ Stays /\ verb'[q].at = "prepared" /\ Keeps(q)
            /\ verb'[q].commit = verb[q].commit
         \/ /\ verb[q].at = "prepared" /\ Sets(verb[q].commit) /\ verb'[q].at \in {"set", "ready"} /\ Keeps(q)
         \/ verb[q].at = "set" /\ TrackNew(q) /\ verb'[q].at = "ready" /\ Keeps(q)
         \/ verb[q].at = "merging" /\ verb'[q].at = "merged" /\ Keeps(q)
         \/ \E onto \in Visible :
              LET s == verb[q].slot
                  theirs == {tip[t] : t \in Slots \ {s}}
              IN /\ verb[q].at \in {"syncing", "rebasing"} /\ Stays /\ Keeps(q)
                 /\ Descendants(To(onto, tip[s])) \cap (Immutable \cup theirs) = {}
                 /\ verb'[q].at = "pinned" /\ verb'[q].on = onto /\ verb'[q].change = wc[s]
                 /\ verb'[q].spared = theirs
<1>1. VerbStep(q) /\ verb[q] \in Verbs(Ids)
  BY VerbSteps, Types
<1>2. ASSUME NEW s \in Slots, Plan(q, s),
             verb'[q] = [Idle EXCEPT !.at = "planned", !.slot = s, !.commit = tip[s], !.held = ChangesOn(seen)]
      PROVE  /\ Stays /\ verb'[q].at = "planned" /\ verb'[q].slot = s
             /\ verb'[q].commit = tip[s] /\ verb'[q].held = HoldsOn(commits, seen)
  BY <1>2, Planned, ChangesAreNumbers DEF Idle
<1>3. ASSUME NEW s \in Slots, NEW at \in {"syncing", "rebasing"}, verb'[q] = [Idle EXCEPT !.at = at, !.slot = s]
      PROVE  verb'[q].at \in {"syncing", "rebasing"} /\ verb'[q].slot \in Slots /\ verb'[q].held = {}
  BY <1>3 DEF Idle
<1>4. ASSUME NEW s \in Slots, NEW ref \in {None} \cup Visible,
             verb'[q] = [Idle EXCEPT !.at = "merging", !.slot = s, !.commit = tip[s], !.on = ref]
      PROVE  /\ verb'[q].at = "merging" /\ verb'[q].slot = s
             /\ verb'[q].commit = tip[s] /\ verb'[q].held = {} /\ verb'[q].on = ref
  BY <1>4 DEF Idle
<1>5. ASSUME verb'[q] = [verb[q] EXCEPT !.at = "prepared", !.on = seen]
      PROVE  verb'[q].at = "prepared" /\ Keeps(q) /\ verb'[q].commit = verb[q].commit
  BY <1>1, <1>5 DEF Verbs, Keeps
<1>6. ASSUME NEW at, verb'[q] = [verb[q] EXCEPT !.at = at]
      PROVE  verb'[q].at = at /\ Keeps(q)
  BY <1>1, <1>6 DEF Verbs, Keeps
<1>7. ASSUME NEW on, NEW change, NEW spared,
             verb'[q] = [verb[q] EXCEPT !.at = "pinned", !.on = on, !.change = change, !.spared = spared]
      PROVE  /\ verb'[q].at = "pinned" /\ verb'[q].on = on /\ verb'[q].change = change
             /\ verb'[q].spared = spared /\ Keeps(q)
  BY <1>1, <1>7 DEF Verbs, Keeps
<1>8. CASE \E s \in Slots :
             /\ Plan(q, s)
             /\ verb'[q] = [Idle EXCEPT !.at = "planned", !.slot = s, !.commit = tip[s],
                                        !.held = ChangesOn(seen)]
  <2>1. PICK s \in Slots :
             /\ Plan(q, s)
             /\ verb'[q] = [Idle EXCEPT !.at = "planned", !.slot = s, !.commit = tip[s],
                                        !.held = ChangesOn(seen)]
    BY <1>8, Zenon
  <2>2. /\ Stays /\ verb'[q].at = "planned" /\ verb'[q].slot = s
        /\ verb'[q].commit = tip[s] /\ verb'[q].held = HoldsOn(commits, seen)
    BY <1>2, <2>1, Zenon
  <2> QED BY <2>1, <2>2, Zenon
<1>9. CASE \E s \in Slots, at \in {"syncing", "rebasing"} : verb'[q] = [Idle EXCEPT !.at = at, !.slot = s]
  BY <1>3, <1>9, Zenon
<1>10. CASE \E s \in Slots, ref \in {None} \cup Visible :
              /\ Named(ref) # None /\ Stays
              /\ verb'[q] = [Idle EXCEPT !.at = "merging", !.slot = s, !.commit = tip[s], !.on = ref]
  <2>1. PICK s \in Slots, ref \in {None} \cup Visible :
              /\ Named(ref) # None /\ Stays
              /\ verb'[q] = [Idle EXCEPT !.at = "merging", !.slot = s, !.commit = tip[s], !.on = ref]
    BY <1>10, Zenon
  <2>2. /\ verb'[q].at = "merging" /\ verb'[q].slot = s
        /\ verb'[q].commit = tip[s] /\ verb'[q].held = {} /\ verb'[q].on = ref
    BY <1>4, <2>1, Zenon
  <2>3. Stays /\ Named(verb'[q].on) # None /\ verb'[q].on \in {None} \cup Visible
    BY <2>1, <2>2, Zenon
  <2> QED BY <2>2, <2>3, Zenon
<1>11. CASE /\ verb[q].at = "planned" /\ Stays /\ tip[verb[q].slot] = verb[q].commit
            /\ verb'[q] = [verb[q] EXCEPT !.at = "prepared", !.on = seen]
  BY <1>5, <1>11
<1>12. CASE /\ verb[q].at = "prepared" /\ Sets(verb[q].commit)
            /\ verb'[q] = [verb[q] EXCEPT !.at = IF verb[q].on = None THEN "set" ELSE "ready"]
  BY <1>6, <1>12
<1>13. CASE /\ verb[q].at = "set" /\ TrackNew(q)
            /\ verb'[q] = [verb[q] EXCEPT !.at = "ready"]
  BY <1>6, <1>13
<1>14. CASE verb[q].at = "merging" /\ verb'[q] = [verb[q] EXCEPT !.at = "merged"]
  BY <1>6, <1>14
<1>15. CASE \E onto \in Visible : Checks(q, onto)
  <2> DEFINE s == verb[q].slot
             theirs == {tip[t] : t \in Slots \ {s}}
  <2>1. PICK onto \in Visible : Checks(q, onto)
    BY <1>15
  <2>2. /\ verb[q].at \in {"syncing", "rebasing"} /\ Stays
        /\ Descendants(To(onto, tip[s])) \cap (Immutable \cup theirs) = {}
        /\ verb'[q] = [verb[q] EXCEPT !.at = "pinned", !.on = onto, !.change = wc[s], !.spared = theirs]
    BY <2>1, Zenon DEF Checks
  <2>3. /\ verb'[q].at = "pinned" /\ verb'[q].on = onto /\ verb'[q].change = wc[s]
        /\ verb'[q].spared = theirs /\ Keeps(q)
    <3> DEFINE change == wc[s]
    <3>1. verb'[q] = [verb[q] EXCEPT !.at = "pinned", !.on = onto, !.change = change, !.spared = theirs]
      BY <2>2, Zenon
    <3> HIDE DEF theirs, change
    <3>2. /\ verb'[q].at = "pinned" /\ verb'[q].on = onto /\ verb'[q].change = change
          /\ verb'[q].spared = theirs /\ Keeps(q)
      BY <1>7, <3>1, Zenon
    <3> QED BY <3>2, Zenon DEF change
  <2> QED BY <2>2, <2>3, Zenon
<1>16. CASE verb'[q] = Idle
  BY <1>16 DEF Idle
<1>17. CASE Eased(q)
  BY <1>17 DEF Eased, Same
<1>18. ASSUME NEW s \in Slots,
              \/ /\ Plan(q, s)
                 /\ verb'[q] = [Idle EXCEPT !.at = "planned", !.slot = s, !.commit = tip[s],
                                            !.held = ChangesOn(seen)]
              \/ \E at \in {"syncing", "rebasing"} : verb'[q] = [Idle EXCEPT !.at = at, !.slot = s]
              \/ \E ref \in {None} \cup Visible :
                   /\ Named(ref) # None /\ Stays
                   /\ verb'[q] = [Idle EXCEPT !.at = "merging", !.slot = s, !.commit = tip[s], !.on = ref]
       PROVE  \/ \E r \in Slots :
                   /\ Plan(q, r)
                   /\ verb'[q] = [Idle EXCEPT !.at = "planned", !.slot = r, !.commit = tip[r],
                                              !.held = ChangesOn(seen)]
              \/ \E r \in Slots, at \in {"syncing", "rebasing"} : verb'[q] = [Idle EXCEPT !.at = at, !.slot = r]
              \/ \E r \in Slots, ref \in {None} \cup Visible :
                   /\ Named(ref) # None /\ Stays
                   /\ verb'[q] = [Idle EXCEPT !.at = "merging", !.slot = r, !.commit = tip[r], !.on = ref]
  BY <1>18, Zenon
<1> QED BY <1>1, <1>8, <1>9, <1>10, <1>11, <1>12, <1>13, <1>14, <1>15, <1>16, <1>17, <1>18, Zenon DEF VerbStep

LEMMA FreshStep == ASSUME IInv, [Next]_vars PROVE FreshInv'
<1>1. /\ \A s \in Slots : wc'[s] \notin Changes(Ids)' /\ \A t \in Slots \ {s} : wc'[t] # wc'[s]
      /\ \A n \in Used : \E m \in Used' : n <= m
      /\ \A s \in Slots : wc'[s] = wc[s] \/ \A n \in Used : n < wc'[s]
  BY FreshRepo
<1>2. ASSUME NEW q \in Procs, verb'[q].at = "pinned"
      PROVE  /\ \E n \in Used' : verb'[q].change <= n
             /\ \A s \in Slots : wc'[s] = verb'[q].change => s = verb'[q].slot
  <2>1. CASE verb'[q].at = verb[q].at /\ Same(q)
    <3>0. verb'[q].change = verb[q].change /\ verb'[q].slot = verb[q].slot
      BY <2>1 DEF Same
    <3>1. /\ verb[q].at = "pinned" /\ verb[q].change \in Nat
          /\ \A s \in Slots : wc[s] = verb[q].change => s = verb[q].slot
      BY <1>2, <2>1 DEF IInv, VerbInv, FreshInv
    <3>2. PICK n \in Used : verb[q].change <= n
      BY <3>1 DEF IInv, FreshInv
    <3>3. n \in Nat /\ wc \in [Slots -> Nat] /\ wc' \in [Slots -> Nat] /\ \A m \in Used' : m \in Nat
      <4>1. CommitsOK /\ RepoOK /\ CommitsOK' /\ RepoOK'
        BY Types, TypeStep DEF TypeOK
      <4>2. Changes(Ids)' \subseteq Nat
        <5>1. \A c \in Ids' : commits'[c].change \in Nat
          <6>1. commits' \in Seq([change : Nat, past : SUBSET Ids'])
            BY <4>1 DEF CommitsOK, Ids
          <6> DEFINE R == [change : Nat, past : SUBSET Ids']
          <6>2. Len(commits') \in Nat /\ DOMAIN commits' = 1..Len(commits')
            BY <6>1
          <6>3. \A c \in Ids' : commits'[c] \in R
            <7> HIDE DEF R
            <7> QED BY <6>1, <6>2, ElementOfSeq DEF R, Ids
          <6> QED BY <6>3
        <5> QED BY <5>1 DEF Changes
      <4>3. wc' \in [Slots -> Nat]
        BY <4>1 DEF RepoOK
      <4> QED BY <4>1, <4>2, <4>3, Types, Newest DEF Used
    <3>4. \E m \in Used' : verb[q].change <= m
      <4>1. PICK m \in Used' : n <= m
        BY <1>1
      <4> QED BY <3>1, <3>2, <3>3, <4>1
    <3>5. ASSUME NEW s \in Slots, wc'[s] = verb[q].change PROVE s = verb[q].slot
      <4>1. ~(n < wc'[s])
        BY <3>1, <3>2, <3>3, <3>5
      <4> QED BY <1>1, <3>1, <3>5, <4>1
    <3> QED BY <3>0, <3>4, <3>5
  <2>2. CASE ~(verb'[q].at = verb[q].at /\ Same(q))
    <3> DEFINE s == verb[q].slot
    <3>1. /\ verb[q].at \in {"syncing", "rebasing"} /\ Stays /\ verb'[q].change = wc[s] /\ verb'[q].slot = s
      BY <1>2, <2>2, VerbShapes DEF Keeps
    <3>2. s \in Slots /\ wc' = wc /\ wc[s] \in Nat
      BY <3>1, Types DEF IInv, VerbInv, Stays
    <3>3. wc'[s] \in Used' /\ wc'[s] <= wc'[s]
      BY <3>2 DEF Used
    <3> QED BY <1>1, <3>1, <3>2, <3>3
  <2> QED BY <2>1, <2>2
<1> QED BY <1>1, <1>2 DEF FreshInv

(* The branch is never gone again, nor the base moved back.                    *)
LEMMA SeenStays ==
  ASSUME IInv, RepoStep
  PROVE  /\ seen # None => seen' # None
         /\ branch # None => branch' # None
         /\ base' = base \/ (Fetches /\ base' = NewBase)
<1>1. /\ local \subseteq Ids /\ None \notin Ids /\ (branch = None => seen = None)
      /\ Len(commits) + 1 \in Nat
  BY Types, History DEF IInv, BranchInv
<1>2. Len(commits) + 1 # None
  BY <1>1, SlotPublishAssumption
<1> QED BY <1>1, <1>2 DEF RepoStep, Stays, Fetches, Tracks, Adds, Publishes, Sets, Marks, Seats, Merges, Pushes,
                          Rewrites, Commits, Moves, AgentCommits, AgentMoves

LEMMA VerbInvStep == ASSUME IInv, [Next]_vars PROVE VerbInv'
<1> DEFINE Names(ref) == IF ref = None THEN seen' ELSE ref
<1>1. /\ RepoStep /\ (seen # None => seen' # None)
      /\ base' = base \/ base' = NewBase
      /\ base \in {OldBase, NewBase} /\ tip \in [Slots -> Ids] /\ wc \in [Slots -> Nat]
      /\ \A c \in Ids : commits'[c] = commits[c] /\ c \in Ids'
  BY StepFacts, SeenStays, Types
<1>2. Known \subseteq Known'
  BY <1>1 DEF Known, OldBase, NewBase
<1>3. Visible \subseteq Known /\ \A s \in Slots : tip[s] \in Known
  BY VisibleIsKnown
<1>4. ASSUME NEW q \in Procs
      PROVE  /\ verb'[q].at # "idle" => verb'[q].slot \in Slots
             /\ verb'[q].at \in Planning => verb'[q].commit \in Known'
             /\ verb'[q].at = "merging" => Names(verb'[q].on) # None /\ verb'[q].on \in {None} \cup Known'
             /\ verb'[q].at = "pinned" => verb'[q].on \in Known' /\ verb'[q].change \in Nat
  <2>1. /\ verb[q].at # "idle" => verb[q].slot \in Slots
        /\ verb[q].at \in Planning => verb[q].commit \in Known
        /\ verb[q].at = "merging" => Named(verb[q].on) # None /\ verb[q].on \in {None} \cup Known
        /\ verb[q].at = "pinned" => verb[q].on \in Known /\ verb[q].change \in Nat
    BY DEF IInv, VerbInv
  <2>2. \A ref : Named(ref) # None => Names(ref) # None
    BY <1>1 DEF Named
  <2> HIDE DEF Names
  <2>4. CASE verb'[q].at = verb[q].at /\ Same(q)
    BY <1>2, <2>1, <2>2, <2>4 DEF Same
  <2>5. CASE verb'[q].at = "planned"
    BY <1>2, <1>3, <2>1, <2>4, <2>5, VerbShapes
  <2>6. CASE verb'[q].at \in {"syncing", "rebasing"}
    BY <2>1, <2>4, <2>6, VerbShapes DEF Planning
  <2>7. CASE verb'[q].at = "merging"
    BY <1>2, <1>3, <2>2, <2>4, <2>7, VerbShapes DEF Planning
  <2>8. CASE verb'[q].at = "prepared"
    BY <1>2, <2>1, <2>4, <2>8, VerbShapes DEF Planning, Keeps
  <2>9. CASE verb'[q].at \in {"set", "ready", "merged"}
    BY <2>1, <2>4, <2>9, VerbShapes DEF Planning, Keeps
  <2>10. CASE verb'[q].at = "pinned"
    <3>1. CASE ~(verb'[q].at = verb[q].at /\ Same(q))
      <4>1. PICK onto \in Visible : /\ verb[q].at \in {"syncing", "rebasing"} /\ Keeps(q)
                                    /\ verb'[q].on = onto /\ verb'[q].change = wc[verb[q].slot]
        BY <2>10, <3>1, VerbShapes
      <4>2. verb'[q].slot = verb[q].slot /\ verb[q].slot \in Slots
        BY <2>1, <4>1 DEF Keeps
      <4> QED BY <1>1, <1>2, <1>3, <2>10, <4>1, <4>2 DEF Planning
    <3> QED BY <2>4, <3>1
  <2>11. CASE verb'[q].at = "idle"
    BY <2>11 DEF Planning
  <2> QED BY <2>4, <2>5, <2>6, <2>7, <2>8, <2>9, <2>10, <2>11, VerbShapes
<1> QED BY <1>4 DEF VerbInv, Named

(* A rewrite of what is mutable: every commit it moves keeps its change and    *)
(* what it holds; what it has that is new above the base, or of the commits    *)
(* there were, is of the commit it is moved onto.                              *)
LEMMA Rewriting ==
  ASSUME IInv, NEW S \in SUBSET Ids, NEW onto \in {None} \cup Known, Rewrites(S, onto)
  PROVE  LET mv(c) == Moved(Descendants(S), c)
             under == IF onto = None THEN {} ELSE commits[onto].past
         IN /\ \A c \in Ids : /\ mv(c) \in Ids' /\ commits'[mv(c)].change = commits[c].change
                              /\ Holds(commits, c) \subseteq Holds(commits', mv(c))
                              /\ HoldsAbove(commits', mv(c)) \subseteq
                                   HoldsAbove(commits, c) \cup
                                   IF c \in Descendants(S) THEN HoldsOn(commits, onto) ELSE {}
                              /\ \A x \in commits'[mv(c)].past \cap Ids :
                                   x \in commits[c].past \/ (c \in Descendants(S) /\ x \in under)
            /\ \A c \in Ids \ Descendants(S) : mv(c) = c
            /\ \A n \in Ids' \ Ids : \E c \in Descendants(S) : n = mv(c)
            /\ tip' = [s \in Slots |-> mv(tip[s])] /\ local' = {mv(c) : c \in local}
            /\ Descendants(S) \subseteq Ids
<1> DEFINE scope == Descendants(S)
           mv(c) == Moved(scope, c)
           under == IF onto = None THEN {} ELSE commits[onto].past
<1>1. CommitsOK /\ RepoOK /\ RootInv /\ onto \in {None} \cup Ids /\ Rewrite(Descendants(S), onto)
  BY Types DEF Rewrites, Known
<1>2. /\ Extends
      /\ \A c \in Ids : mv(c) \in Ids' /\ (c \notin scope => mv(c) = c)
      /\ \A c \in scope : /\ mv(c) \notin Ids /\ commits'[mv(c)].change = commits[c].change
                          /\ commits'[mv(c)].past = {mv(d) : d \in commits[c].past} \cup under
      /\ \A n \in Ids' \ Ids : \E c \in scope : n = mv(c)
      /\ tip' = [s \in Slots |-> mv(tip[s])] /\ local' = {mv(c) : c \in local}
  BY <1>1, Rewritten
<1>3. scope \subseteq Ids /\ scope \subseteq Visible /\ scope \cap Immutable = {}
  BY <1>1, UpwardClosed DEF Descendants, Rewrites
<1>4. OldBase \notin scope /\ NewBase \notin scope
  <2>1. commits[base].past \subseteq Immutable
    BY DEF Immutable, PastOf, Past
  <2>2. OldBase \in commits[base].past /\ (base = NewBase => NewBase \in commits[base].past)
    BY Types DEF RootInv, Commit
  <2>3. base = OldBase => NewBase \notin Visible
    BY DEF IInv, BaseInv
  <2> QED BY <1>3, <2>1, <2>2, <2>3, Types
<1>5. under \subseteq Ids /\ \A d \in under : commits'[d].change = commits[d].change
  <2>1. CASE onto = None
    BY <2>1
  <2>2. CASE onto # None
    BY <1>1, <1>2, <2>2, ChangesAreNumbers DEF Extends
  <2> QED BY <2>1, <2>2
<1>6. HoldsOn(commits, onto) = {commits[d].change : d \in under}
  BY DEF HoldsOn, Holds
<1> HIDE DEF scope, mv, under
<1>7. \A c \in Ids : commits'[mv(c)].change = commits[c].change
  BY <1>2 DEF Extends
<1>8. ASSUME NEW c \in Ids
      PROVE  /\ Holds(commits, c) \subseteq Holds(commits', mv(c))
             /\ HoldsAbove(commits', mv(c)) \subseteq
                  HoldsAbove(commits, c) \cup IF c \in scope THEN HoldsOn(commits, onto) ELSE {}
             /\ \A x \in commits'[mv(c)].past \cap Ids : x \in commits[c].past \/ (c \in scope /\ x \in under)
  <2>1. CASE c \notin scope
    <3>1. mv(c) = c /\ commits'[c] = commits[c]
      BY <1>2, <2>1 DEF Extends
    <3>2. Holds(commits', c) = Holds(commits, c) /\ HoldsAbove(commits', c) = HoldsAbove(commits, c)
      BY <1>1, <1>2, Kept
    <3> QED BY <2>1, <3>1, <3>2
  <2>2. CASE c \in scope
    <3>1. commits[c].past \subseteq Ids
      BY ChangesAreNumbers
    <3>2. commits'[mv(c)].past = {mv(d) : d \in commits[c].past} \cup under
      BY <1>2, <2>2
    <3>3. \A d \in commits[c].past : commits'[mv(d)].change = commits[d].change
      BY <1>7, <3>1
    <3>4. \A d \in commits[c].past : d \in {OldBase, NewBase} => mv(d) = d
      BY <1>2, <1>4, <3>1
    <3>5. \A d \in commits[c].past : mv(d) \in Ids => mv(d) = d
      BY <1>2, <3>1
    <3>6. Holds(commits, c) \subseteq Holds(commits', mv(c))
      BY <3>2, <3>3 DEF Holds
    <3>7. HoldsAbove(commits', mv(c)) \subseteq HoldsAbove(commits, c) \cup HoldsOn(commits, onto)
      <4> SUFFICES ASSUME NEW x \in commits'[mv(c)].past \ {OldBase, NewBase}
                   PROVE  commits'[x].change \in HoldsAbove(commits, c) \cup HoldsOn(commits, onto)
        BY DEF HoldsAbove
      <4>1. CASE x \in under
        BY <1>5, <1>6, <4>1
      <4>2. CASE x \notin under
        <5>1. PICK d \in commits[c].past : x = mv(d)
          BY <3>2, <4>2
        <5>2. d \notin {OldBase, NewBase}
          BY <3>4, <5>1
        <5> QED BY <3>3, <5>1, <5>2 DEF HoldsAbove
      <4> QED BY <4>1, <4>2
    <3>8. ASSUME NEW x \in commits'[mv(c)].past \cap Ids
          PROVE  x \in commits[c].past \/ x \in under
      <4>1. CASE x \notin under
        <5>1. PICK d \in commits[c].past : x = mv(d)
          BY <3>2, <4>1
        <5> QED BY <3>5, <5>1
      <4> QED BY <4>1
    <3> QED BY <2>2, <3>6, <3>7, <3>8
  <2> QED BY <2>1, <2>2
<1>9. \A c \in Ids \ scope : mv(c) = c
  BY <1>2
<1> QED BY <1>2, <1>3, <1>7, <1>8, <1>9 DEF mv, scope, under

LEMMA NotShown ==
  /\ NewBase \notin Visible => /\ \A s \in Slots : NewBase \notin commits[tip[s]].past
                               /\ \A c \in local : NewBase \notin commits[c].past
                               /\ seen # None => NewBase \notin commits[seen].past
  /\ /\ \A s \in Slots : NewBase \notin commits'[tip'[s]].past
     /\ \A c \in local' : NewBase \notin commits'[c].past
     /\ seen' # None => NewBase \notin commits'[seen'].past
     /\ NewBase \notin commits'[base'].past
     => NewBase \notin Visible'
  BY DEF Visible, PastOf, Past, Optional

LEMMA BaseStep == ASSUME IInv, [Next]_vars PROVE BaseInv'
<1>1. /\ RepoStep /\ CommitsOK' /\ RootInv' /\ base \in {OldBase, NewBase} /\ tip \in [Slots -> Ids]
      /\ local \subseteq Ids /\ {seen, branch} \subseteq Ids \cup {None} /\ {OldBase, NewBase} \subseteq Ids
      /\ \A c \in Ids : commits'[c] = commits[c]
      /\ commits[OldBase].past = {OldBase} /\ OldBase # NewBase
  BY StepFacts, Types DEF RootInv, Commit, OldBase, NewBase
<1>2. \A c \in Known : c \in Ids /\ (base = OldBase => NewBase \notin commits[c].past)
  BY DEF Known
<1>3. ASSUME base' = OldBase
      PROVE  /\ base = OldBase /\ NewBase \notin Visible /\ NewBase \notin commits[base].past
             /\ \A s \in Slots : NewBase \notin commits[tip[s]].past
             /\ \A c \in local : NewBase \notin commits[c].past
             /\ seen # None => NewBase \notin commits[seen].past
             /\ \A c \in Known : NewBase \notin commits[c].past
  <2>1. base = OldBase
    BY <1>1, <1>3, SeenStays
  <2>2. NewBase \notin Visible
    BY <2>1 DEF IInv, BaseInv
  <2> QED BY <1>1, <1>2, <2>1, <2>2, NotShown
<1>4. ASSUME base' = OldBase PROVE NewBase \notin Visible'
  <2> DEFINE Clear == /\ \A s \in Slots : NewBase \notin commits'[tip'[s]].past
                      /\ \A c \in local' : NewBase \notin commits'[c].past
                      /\ seen' # None => NewBase \notin commits'[seen'].past
                      /\ NewBase \notin commits'[base'].past
  <2>1. NewBase \notin commits'[base'].past
    BY <1>1, <1>4
  <2>2. ASSUME Stays \/ (\E c \in local : Pushes(c)) \/ Adds PROVE Clear
    BY <1>1, <1>3, <1>4, <2>1, <2>2 DEF Stays, Pushes, Adds
  <2>3. ASSUME Tracks PROVE Clear
    BY <1>1, <1>3, <1>4, <2>1, <2>3 DEF Tracks, Heads, Optional
  <2>4. ASSUME NEW p \in Procs, verb[p].at = "prepared" /\ Sets(verb[p].commit) PROVE Clear
    <3>1. verb[p].commit \in Known
      BY <2>4 DEF IInv, VerbInv, Planning
    <3> QED BY <1>1, <1>2, <1>3, <1>4, <2>1, <2>4, <3>1 DEF Sets
  <2>5. ASSUME NEW change \in Nat, NEW on \in Known, Seats(change, on) PROVE Clear
    <3>1. on \in Ids /\ NewBase \notin commits[on].past
      BY <1>2, <1>3, <1>4
    <3>2. \A s \in Slots : tip'[s] = on \/ tip'[s] = tip[s]
      BY <2>5 DEF Seats
    <3>3. \A s \in Slots : NewBase \notin commits'[tip'[s]].past
      BY <1>1, <1>3, <1>4, <3>1, <3>2
    <3> QED BY <1>1, <1>3, <1>4, <2>1, <2>5, <3>3 DEF Seats
  <2>6. ASSUME NEW p \in Procs, Merges(p) PROVE Clear
    <3> DEFINE n == Len(commits) + 1
               c == verb[p].commit
               d == Named(verb[p].on)
    <3>1. /\ n \notin Ids /\ commits'[n].past = commits[c].past \cup commits[d].past \cup {n}
          /\ c \in Known /\ d \in Ids /\ d # None /\ (d = seen \/ d \in Known)
      BY <2>6, Merging, Types
    <3> HIDE DEF c, d
    <3>2. NewBase \notin commits'[n].past
      BY <1>1, <1>3, <1>4, <3>1
    <3>3. \A s \in Slots : tip'[s] = n \/ tip'[s] = tip[s]
      BY <1>1, <2>6 DEF Merges
    <3> HIDE DEF n
    <3>4. \A s \in Slots : NewBase \notin commits'[tip'[s]].past
      BY <1>1, <1>3, <1>4, <3>2, <3>3
    <3> QED BY <1>1, <1>3, <1>4, <2>1, <2>6, <3>4 DEF Merges
  <2>7. ASSUME NEW s \in Slots, Commits(s) PROVE Clear
    <3> DEFINE n == Len(commits) + 1
    <3>1. /\ n \notin Ids /\ commits'[n].past = commits[tip[s]].past \cup {n}
          /\ tip' = [tip EXCEPT ![s] = n] /\ UNCHANGED <<local, seen, base>>
      BY <2>7, Committing
    <3>2. NewBase \notin commits'[n].past
      BY <1>1, <1>3, <1>4, <3>1
    <3>3. \A t \in Slots : tip'[t] = n \/ tip'[t] = tip[t]
      BY <1>1, <3>1
    <3> HIDE DEF n
    <3>4. \A t \in Slots : NewBase \notin commits'[tip'[t]].past
      BY <1>1, <1>3, <1>4, <3>2, <3>3
    <3> QED BY <1>1, <1>3, <1>4, <2>1, <3>1, <3>4
  <2>8. ASSUME NEW s \in Slots, Moves(s) PROVE Clear
    <3>1. PICK c \in {base} \cup {tip[t] : t \in Slots} :
            tip' = [tip EXCEPT ![s] = c] /\ UNCHANGED <<commits, local, seen, base>>
      BY <2>8, Moving
    <3>2. \A t \in Slots : tip'[t] = c \/ tip'[t] = tip[t]
      BY <1>1, <3>1
    <3>3. \A t \in Slots : NewBase \notin commits'[tip'[t]].past
      BY <1>1, <1>3, <1>4, <3>1, <3>2
    <3> QED BY <1>1, <1>3, <1>4, <2>1, <3>1, <3>3
  <2>9. ASSUME NEW S \in SUBSET Ids, NEW onto \in {None} \cup Known, Rewrites(S, onto) PROVE Clear
    <3> DEFINE mv(c) == Moved(Descendants(S), c)
    <3>1. /\ \A c \in Ids : \A x \in commits'[mv(c)].past \cap Ids :
                x \in commits[c].past \/ (onto # None /\ x \in commits[onto].past)
          /\ tip' = [s \in Slots |-> mv(tip[s])] /\ local' = {mv(c) : c \in local}
      BY <2>9, Rewriting
    <3> HIDE DEF mv
    <3>2. \A c \in Ids : NewBase \notin commits[c].past => NewBase \notin commits'[mv(c)].past
      <4>1. onto # None => NewBase \notin commits[onto].past
        BY <1>3, <1>4
      <4> QED BY <1>1, <3>1, <4>1
    <3>3. \A s \in Slots : NewBase \notin commits'[tip'[s]].past
      BY <1>1, <1>3, <1>4, <3>1, <3>2
    <3>4. \A c \in local' : NewBase \notin commits'[c].past
      BY <1>1, <1>3, <1>4, <3>1, <3>2
    <3>5. seen' = seen
      BY <2>9 DEF Rewrites
    <3>6. seen' # None => NewBase \notin commits'[seen'].past
      BY <1>1, <1>3, <1>4, <3>5
    <3> QED BY <2>1, <3>3, <3>4, <3>6
  <2>10. ~Fetches
    BY <1>1, <1>4 DEF Fetches
  <2> HIDE DEF Clear
  <2>11. Clear
    <3>1. CASE Stays \/ (\E c \in local : Pushes(c)) \/ Adds \/ Tracks
      BY <2>2, <2>3, <3>1
    <3>2. ASSUME NEW c \in Visible, Marks(c) PROVE Clear
      <4>1. c \in Known
        BY VisibleIsKnown
      <4> QED BY <1>1, <1>2, <1>3, <1>4, <2>1, <3>2, <4>1 DEF Marks, Clear
    <3> QED BY <1>1, <2>4, <2>5, <2>6, <2>7, <2>8, <2>9, <2>10, <3>1, <3>2 DEF RepoStep, Publishes
  <2> QED BY <2>11, NotShown DEF Clear
<1> QED BY <1>4 DEF BaseInv

(* What others add leaves the branch with every change it had, and at most a   *)
(* new one.                                                                    *)
LEMMA AddedHolds ==
  ASSUME IInv, Adds
  PROVE  /\ HoldsOn(commits, branch) \subseteq HoldsOn(commits', branch') /\ branch' # None
         /\ branch # None => HoldsOn(commits', branch') \subseteq HoldsOn(commits, branch) \cup {NewChange}
<1> DEFINE n == Len(commits) + 1
           b == IF branch = None THEN NewBase ELSE branch
<1>1. /\ Extends /\ n \notin Ids /\ Ids' = Ids \cup {n} /\ branch' = n /\ n # None
      /\ \/ commits'[n].change = NewChange /\ commits'[n].past = commits[b].past \cup {n}
         \/ /\ branch \in Ids /\ commits'[n].change = commits[branch].change
            /\ commits'[n].past = (commits[branch].past \ {branch}) \cup {n}
  <2>1. n \in Nat
    BY Types, History
  <2>2. n # None
    BY <2>1, SlotPublishAssumption
  <2> QED BY <2>2, Adding
<1>2. b \in Ids /\ commits[b].past \subseteq Ids
  <2>1. b \in Ids
    BY Types DEF RootInv
  <2> HIDE DEF b
  <2> QED BY <2>1, ChangesAreNumbers
<1>3. \A d \in commits[b].past : commits'[d].change = commits[d].change
  BY <1>1, <1>2 DEF Extends
<1>4. HoldsOn(commits', branch') = {commits'[d].change : d \in commits'[n].past}
  BY <1>1 DEF HoldsOn, Holds
<1>5. HoldsOn(commits, branch) = IF branch = None THEN {} ELSE {commits[d].change : d \in commits[branch].past}
  BY DEF HoldsOn, Holds
<1> HIDE DEF n
<1>6. CASE branch = None
  BY <1>1, <1>5, <1>6
<1>7. CASE branch # None
  <2>1. b = branch
    BY <1>7
  <2>2. branch \in commits[branch].past
    BY <1>2, <2>1, Types, History
  <2> QED BY <1>1, <1>3, <1>4, <1>5, <1>7, <2>1, <2>2
<1> QED BY <1>6, <1>7

LEMMA BranchStep == ASSUME IInv, [Next]_vars PROVE BranchInv'
<1>1. /\ RepoStep /\ \A b \in Ids \cup {None} : HoldsOn(commits', b) = HoldsOn(commits, b)
      /\ {seen, branch} \subseteq Ids \cup {None}
      /\ HoldsOn(commits, seen) \subseteq HoldsOn(commits, branch) /\ (branch = None => seen = None)
  BY StepFacts, Types DEF IInv, BranchInv
<1>2. HoldsOn(commits', seen') \subseteq HoldsOn(commits', branch') /\ (branch' = None => seen' = None)
  <2>1. CASE seen' = branch'
    BY <2>1
  <2>2. CASE seen' = seen /\ branch' = branch
    BY <1>1, <2>2
  <2>3. CASE Adds
    BY <1>1, <2>3, AddedHolds DEF Adds
  <2> QED BY <1>1, <2>1, <2>2, <2>3 DEF RepoStep, Stays, Fetches, Tracks, Publishes, Sets, Marks, Seats,
                                        Merges, Pushes, Rewrites, Commits, Moves
<1> QED BY <1>2 DEF BranchInv

(* Commits there are have heads.                                               *)
LEMMA HeadsExist == ASSUME CommitsOK, NEW S, S \subseteq Ids, S # {} PROVE Heads(S) # {} /\ Heads(S) \subseteq S
<1>1. Len(commits) \in Nat /\ Ids = 1..Len(commits)
  BY History
<1>2. IsFiniteSet(S) /\ S \subseteq Nat
  <2>1. IsFiniteSet(1..Len(commits)) /\ S \in SUBSET (1..Len(commits))
    BY <1>1, FS_Interval
  <2>2. IsFiniteSet(S)
    BY <2>1, FS_Subset
  <2>3. \A x \in 1..Len(commits) : x \in Nat
    BY <1>1
  <2> QED BY <2>1, <2>2, <2>3
<1>3. Max(S) \in S /\ \A y \in S : y <= Max(S)
  BY <1>2, Greatest
<1>4. ASSUME NEW d \in S \ {Max(S)} PROVE Max(S) \notin Past(d)
  <2>1. d <= Max(S) /\ d # Max(S) /\ d \in Nat /\ Max(S) \in Nat /\ Past(d) \subseteq 1..d
    BY <1>2, <1>3, <1>4, History
  <2> QED BY <2>1
<1> QED BY <1>3, <1>4 DEF Heads

(* What a publish found on the branch, while the repository and the branch     *)
(* change around it.                                                           *)
LEMMA HeldRepo ==
  ASSUME IInv, [Next]_vars, NEW q \in Procs
  PROVE  LET H == verb[q].held \cap verb'[q].held IN
         /\ branch' = None => H = {}
         /\ H \cap HoldsOn(commits', branch') \subseteq HoldsOn(commits', seen')
         /\ verb[q].at \in {"set", "ready"} =>
              /\ local' # {}
              /\ \A c \in local' : H \cap HoldsOn(commits', seen') \subseteq Holds(commits', c)
<1> DEFINE H == verb[q].held \cap verb'[q].held
           after == verb[q].at \in {"set", "ready"}
           Goal == /\ branch' = None => H = {}
                   /\ H \cap HoldsOn(commits', branch') \subseteq HoldsOn(commits', seen')
                   /\ after => /\ local' # {}
                               /\ \A c \in local' : H \cap HoldsOn(commits', seen') \subseteq Holds(commits', c)
<1>1. /\ RepoStep /\ \A b \in Ids \cup {None} : HoldsOn(commits', b) = HoldsOn(commits, b)
      /\ \A c \in Ids : Holds(commits', c) = Holds(commits, c)
      /\ {seen, branch} \subseteq Ids \cup {None} /\ local \subseteq Ids /\ None \notin Ids /\ CommitsOK
      /\ branch = None => branch = seen
      /\ H \subseteq Changes(Ids) /\ (branch = None => H = {})
      /\ H \cap HoldsOn(commits, branch) \subseteq HoldsOn(commits, seen)
      /\ after => local # {} /\ \A c \in local : H \cap HoldsOn(commits, seen) \subseteq Holds(commits, c)
  BY StepFacts, Types DEF IInv, BranchInv, HeldInv
<1> HIDE DEF H, after
<1>2. ASSUME UNCHANGED <<local, seen, branch>> PROVE Goal
  BY <1>1, <1>2
<1>3. ASSUME Fetches PROVE Goal
  <2>1. UNCHANGED <<commits, branch>> /\ local' = Followed /\ seen' = branch
    BY <1>3 DEF Fetches
  <2>2. ASSUME after, branch # seen
        PROVE  /\ {branch} # {} /\ Heads((local \ {seen}) \cup {branch}) # {}
               /\ Heads((local \ {seen}) \cup {branch}) \subseteq (local \ {seen}) \cup {branch}
    <3>1. (local \ {seen}) \cup {branch} \subseteq Ids
      BY <1>1, <2>2
    <3>2. (local \ {seen}) \cup {branch} # {} /\ {branch} # {}
      OBVIOUS
    <3> QED BY <1>1, <3>1, <3>2, HeadsExist
  <2>3. ASSUME after PROVE Followed # {} /\ Followed \subseteq local \cup Optional(branch)
    BY <1>1, <2>2, <2>3 DEF Followed, Optional
  <2>4. ASSUME after, NEW c \in Followed PROVE H \cap HoldsOn(commits', branch) \subseteq Holds(commits', c)
    <3>1. CASE c \in local
      BY <1>1, <2>4, <3>1
    <3>2. CASE c = branch /\ branch # None
      BY <3>2 DEF HoldsOn
    <3> QED BY <2>3, <2>4, <3>1, <3>2 DEF Optional
  <2> QED BY <1>1, <2>1, <2>3, <2>4
<1>4. ASSUME Tracks PROVE Goal
  <2>1. UNCHANGED <<commits, seen, branch>> /\ (local' = local \/ local' = Heads(local \cup Optional(seen)))
    BY <1>4 DEF Tracks
  <2>2. ASSUME after PROVE local' # {} /\ local' \subseteq local \cup Optional(seen)
    <3>1. local \cup Optional(seen) \subseteq Ids /\ local \cup Optional(seen) # {}
      BY <1>1, <2>2 DEF Optional
    <3>2. Heads(local \cup Optional(seen)) # {} /\ Heads(local \cup Optional(seen)) \subseteq local \cup Optional(seen)
      BY <1>1, <3>1, HeadsExist
    <3> QED BY <1>1, <2>1, <2>2, <3>2
  <2>3. ASSUME after, NEW c \in local' PROVE H \cap HoldsOn(commits, seen) \subseteq Holds(commits, c)
    <3>1. CASE c \in local
      BY <1>1, <2>3, <3>1
    <3>2. CASE c = seen /\ seen # None
      BY <3>2 DEF HoldsOn
    <3> QED BY <2>2, <2>3, <3>1, <3>2 DEF Optional
  <2> QED BY <1>1, <2>1, <2>2, <2>3
<1>5. ASSUME Adds PROVE Goal
  <2>1. UNCHANGED <<local, seen>> /\ branch' # None
    BY <1>5, AddedHolds DEF Adds
  <2>2. NewChange \notin H
    <3>1. \A n \in Changes(Ids) : n \in Nat /\ n < NewChange
      BY Types, Newest DEF Used
    <3>2. ~(NewChange < NewChange)
      BY Types, Newest
    <3> QED BY <1>1, <3>1, <3>2
  <2>3. H \cap HoldsOn(commits', branch') \subseteq HoldsOn(commits', seen')
    BY <1>1, <1>5, <2>1, <2>2, AddedHolds
  <2> QED BY <1>1, <2>1, <2>3
<1>6. ASSUME NEW p \in Procs, verb[p].at = "prepared" /\ Sets(verb[p].commit) PROVE Goal
  <2> DEFINE x == verb[p].commit
  <2>1. x \in Ids /\ MaySet(x) /\ local' = {x} /\ UNCHANGED <<commits, seen, branch>>
    BY <1>6 DEF Sets, IInv, VerbInv, Planning, Known
  <2> HIDE DEF x
  <2>2. ASSUME after PROVE H \cap HoldsOn(commits, seen) \subseteq Holds(commits, x)
    <3>1. PICK c \in local : c \in Past(x)
      BY <1>1, <2>1, <2>2 DEF MaySet
    <3>2. commits[c].past \subseteq commits[x].past
      BY <1>1, <2>1, <3>1, History
    <3>3. Holds(commits, c) \subseteq Holds(commits, x)
      BY <3>2 DEF Holds
    <3> QED BY <1>1, <2>2, <3>1, <3>3
  <2> QED BY <1>1, <2>1, <2>2
<1>7. ASSUME NEW c \in local, Pushes(c) PROVE Goal
  <2>1. Cardinality(local) = 1 /\ local' = local /\ seen' = c /\ branch' = c /\ commits' = commits /\ c \in Ids
    BY <1>1, <1>7 DEF Pushes, MayPush
  <2>2. local = {c}
    <3>1. IsFiniteSet(local)
      <4>1. IsFiniteSet(Ids)
        BY <1>1, FS_Interval, History
      <4> QED BY <1>1, <4>1, FS_Subset
    <3>2. \E e : local = {e}
      BY <2>1, <3>1, FS_Singleton
    <3> QED BY <1>7, <3>2
  <2>3. HoldsOn(commits', seen') = Holds(commits', c)
    BY <1>1, <2>1 DEF HoldsOn
  <2> QED BY <1>1, <2>1, <2>2, <2>3
<1>8. ASSUME NEW S \in SUBSET Ids, NEW onto \in {None} \cup Known, Rewrites(S, onto) PROVE Goal
  <2> DEFINE mv(c) == Moved(Descendants(S), c)
  <2>1. /\ \A c \in Ids : Holds(commits, c) \subseteq Holds(commits', mv(c))
        /\ local' = {mv(c) : c \in local} /\ UNCHANGED <<seen, branch>>
    BY <1>8, Rewriting DEF Rewrites
  <2> HIDE DEF mv
  <2> QED BY <1>1, <2>1
<1>9. ASSUME NEW c \in Visible, Marks(c) PROVE Goal
  <2>1. /\ local' = {c} /\ c \in Ids /\ UNCHANGED <<commits, seen, branch>>
        /\ after => H \subseteq HoldsOn(commits, c)
    BY <1>9, VisibleIsKnown DEF Marks, Known, H, after
  <2>2. HoldsOn(commits, c) = Holds(commits, c)
    BY <1>1, <2>1 DEF HoldsOn
  <2> QED BY <1>1, <2>1, <2>2
<1> HIDE DEF Goal
<1>10. Goal
  <2>1. CASE UNCHANGED <<local, seen, branch>>
    BY <1>2, <2>1
  <2> QED BY <1>1, <1>3, <1>4, <1>5, <1>6, <1>7, <1>8, <1>9, <2>1
          DEF RepoStep, Publishes, Stays, Seats, Merges, Commits, Moves, AgentCommits, AgentMoves
<1> QED BY <1>10 DEF Goal, H, after

LEMMA HeldStep == ASSUME IInv, [Next]_vars PROVE HeldInv'
<1>1. /\ \A c \in Ids : Holds(commits', c) = Holds(commits, c)
      /\ \A b \in Ids \cup {None} : HoldsOn(commits', b) = HoldsOn(commits, b)
      /\ {seen, branch} \subseteq Ids \cup {None} /\ tip \in [Slots -> Ids]
      /\ (branch = None => seen = None) /\ HoldsOn(commits, seen) \subseteq Changes(Ids)
  BY StepFacts, Types, ChangesAreNumbers DEF IInv, BranchInv
<1>2. Changes(Ids) \subseteq Changes(Ids)'
  <2>1. \A c \in Ids : c \in Ids' /\ commits'[c].change = commits[c].change
    BY StepFacts
  <2> QED BY <2>1 DEF Changes
<1>3. ASSUME NEW q \in Procs
      PROVE  /\ verb'[q].held \subseteq Changes(Ids)'
             /\ branch' = None => verb'[q].held = {}
             /\ verb'[q].held \cap HoldsOn(commits', branch') \subseteq HoldsOn(commits', seen')
             /\ verb'[q].at \in {"planned", "prepared"} => verb'[q].held \subseteq Holds(commits', verb'[q].commit)
             /\ verb'[q].at \in {"set", "ready"} =>
                  /\ local' # {}
                  /\ \A c \in local' : verb'[q].held \cap HoldsOn(commits', seen') \subseteq Holds(commits', c)
  <2>1. ASSUME verb'[q].held \subseteq verb[q].held
        PROVE  /\ verb'[q].held \subseteq Changes(Ids)'
               /\ branch' = None => verb'[q].held = {}
               /\ verb'[q].held \cap HoldsOn(commits', branch') \subseteq HoldsOn(commits', seen')
               /\ verb[q].at \in {"set", "ready"} =>
                    /\ local' # {}
                    /\ \A c \in local' : verb'[q].held \cap HoldsOn(commits', seen') \subseteq Holds(commits', c)
    <3>1. verb[q].held \cap verb'[q].held = verb'[q].held
      BY <2>1
    <3>2. verb[q].held \subseteq Changes(Ids)
      BY DEF IInv, HeldInv
    <3> QED BY <1>2, <2>1, <3>1, <3>2, HeldRepo
  <2>2. /\ verb[q].held \subseteq Changes(Ids)
        /\ verb[q].at \in {"planned", "prepared"} =>
             /\ verb[q].held \subseteq Holds(commits, verb[q].commit)
             /\ verb[q].commit \in Ids
    BY DEF IInv, HeldInv, VerbInv, Planning, Known
  <2>3. CASE verb'[q].at = verb[q].at /\ verb'[q].commit = verb[q].commit /\ verb'[q].held \subseteq verb[q].held
    BY <1>1, <2>1, <2>2, <2>3
  <2>4. CASE verb'[q].at \in {"idle", "syncing", "rebasing", "merging"} /\ verb'[q].held = {}
    BY <2>4
  <2>5. ASSUME NEW s \in Slots, Plan(q, s), Stays, verb'[q].at = "planned",
               verb'[q].commit = tip[s], verb'[q].held = HoldsOn(commits, seen)
        PROVE  /\ verb'[q].held \subseteq Changes(Ids)'
               /\ branch' = None => verb'[q].held = {}
               /\ verb'[q].held \subseteq HoldsOn(commits', seen')
               /\ verb'[q].held \subseteq Holds(commits', verb'[q].commit)
    <3>1. HoldsOn(commits, seen) \subseteq Holds(commits, tip[s]) /\ tip[s] \in Ids
      BY <2>5, Planned
    <3>2. seen' = seen /\ branch' = branch
      BY <2>5 DEF Stays
    <3>3. seen = None => HoldsOn(commits, seen) = {}
      BY DEF HoldsOn
    <3> QED BY <1>1, <1>2, <2>5, <3>1, <3>2, <3>3
  <2>7. CASE /\ verb[q].at = "planned" /\ verb'[q].at = "prepared"
             /\ verb'[q].commit = verb[q].commit /\ verb'[q].held = verb[q].held
    BY <1>1, <1>2, <2>1, <2>2, <2>7
  <2>8. CASE /\ verb[q].at = "prepared" /\ Sets(verb[q].commit) /\ verb'[q].at \in {"set", "ready"}
             /\ verb'[q].held = verb[q].held
    <3>1. local' = {verb[q].commit}
      BY <2>8 DEF Sets
    <3> QED BY <1>1, <1>2, <2>1, <2>2, <2>8, <3>1
  <2>9. CASE verb[q].at = "set" /\ verb'[q].at = "ready" /\ verb'[q].held = verb[q].held
    BY <2>1, <2>9
  <2>10. CASE verb'[q].at \in {"merged", "pinned"} /\ verb'[q].held = verb[q].held
    BY <2>1, <2>10
  <2>11. \/ \E s \in Slots : /\ Plan(q, s) /\ Stays /\ verb'[q].at = "planned"
                             /\ verb'[q].commit = tip[s] /\ verb'[q].held = HoldsOn(commits, seen)
         \/ verb'[q].at = verb[q].at /\ verb'[q].commit = verb[q].commit /\ verb'[q].held \subseteq verb[q].held
         \/ verb'[q].at \in {"idle", "syncing", "rebasing", "merging"} /\ verb'[q].held = {}
         \/ /\ verb[q].at = "planned" /\ verb'[q].at = "prepared"
            /\ verb'[q].commit = verb[q].commit /\ verb'[q].held = verb[q].held
         \/ /\ verb[q].at = "prepared" /\ Sets(verb[q].commit) /\ verb'[q].at \in {"set", "ready"}
            /\ verb'[q].held = verb[q].held
         \/ verb[q].at = "set" /\ verb'[q].at = "ready" /\ verb'[q].held = verb[q].held
         \/ verb'[q].at \in {"merged", "pinned"} /\ verb'[q].held = verb[q].held
    BY VerbShapes, Zenon DEF Same, Keeps
  <2>12. CASE \E s \in Slots : /\ Plan(q, s) /\ Stays /\ verb'[q].at = "planned"
                               /\ verb'[q].commit = tip[s] /\ verb'[q].held = HoldsOn(commits, seen)
    <3>1. /\ verb'[q].held \subseteq Changes(Ids)' /\ (branch' = None => verb'[q].held = {})
          /\ verb'[q].held \subseteq HoldsOn(commits', seen')
          /\ verb'[q].held \subseteq Holds(commits', verb'[q].commit) /\ verb'[q].at = "planned"
      BY <2>5, <2>12
    <3> QED BY <3>1
  <2> QED BY <2>3, <2>4, <2>7, <2>8, <2>9, <2>10, <2>11, <2>12
<1> QED BY <1>3 DEF HeldInv

LEMMA CheckedStep == ASSUME IInv, [Next]_vars PROVE CheckedInv'
<1> DEFINE Goal == \A c \in local' : HoldsAbove(commits', c) \subseteq checked' \cup HoldsOn(commits', seen') \cup brought'
<1>1. /\ RepoStep /\ checked \subseteq checked' /\ (Publishes \/ brought \subseteq brought')
      /\ \A b \in Ids \cup {None} : HoldsOn(commits', b) = HoldsOn(commits, b)
      /\ \A c \in Ids : HoldsAbove(commits', c) = HoldsAbove(commits, c) /\ Holds(commits', c) = Holds(commits, c)
      /\ {seen, branch} \subseteq Ids \cup {None} /\ local \subseteq Ids /\ None \notin Ids /\ tip \in [Slots -> Ids]
      /\ branch = None => branch = seen
      /\ HoldsOn(commits, seen) \subseteq HoldsOn(commits, branch)
      /\ \A c \in local : HoldsAbove(commits, c) \subseteq checked \cup HoldsOn(commits, seen) \cup brought
  BY StepFacts, Types DEF IInv, BranchInv, CheckedInv, Grown
<1>2. \A p \in Procs : verb[p].at \in {"planned", "prepared"} =>
        verb[p].commit \in Ids /\ HoldsAbove(commits, verb[p].commit) \subseteq checked
  BY DEF IInv, CheckedInv, VerbInv, Planning, Known
<1>3. \A c \in Ids : HoldsAbove(commits, c) \subseteq HoldsOn(commits, c)
  BY <1>1 DEF HoldsAbove, HoldsOn, Holds
<1>0. ASSUME Publishes PROVE Goal
  <2>1. PICK p \in Procs : verb[p].at = "prepared" /\ local' = {verb[p].commit}
    BY <1>0 DEF Publishes, Sets
  <2> QED BY <1>1, <1>2, <2>1
<1>4. ASSUME UNCHANGED <<local, seen>>, brought \subseteq brought' PROVE Goal
  BY <1>1, <1>4
<1>5. ASSUME Fetches, brought \subseteq brought' PROVE Goal
  <2>1. UNCHANGED <<commits, branch>> /\ local' = Followed /\ seen' = branch
    BY <1>5 DEF Fetches
  <2>2. Followed \subseteq local \cup Optional(branch)
    BY <1>1 DEF Followed, Heads, Optional
  <2>3. \A c \in Followed : c \in local \/ (c = branch /\ branch \in Ids)
    BY <1>1, <2>2 DEF Optional
  <2> QED BY <1>1, <1>3, <1>5, <2>1, <2>3
<1>6. ASSUME Tracks, brought \subseteq brought' PROVE Goal
  <2>1. /\ UNCHANGED <<commits, seen>>
        /\ \A c \in local' : c \in local \/ (c = seen /\ seen \in Ids)
    BY <1>1, <1>6 DEF Tracks, Heads, Optional
  <2> QED BY <1>1, <1>3, <1>6, <2>1
<1>7. ASSUME NEW c \in Visible, Marks(c) PROVE Goal
  <2>1. c \in Ids /\ local' = {c} /\ HoldsOn(commits, c) \subseteq brought' /\ HoldsAbove(commits', c) = HoldsAbove(commits, c)
    BY <1>1, <1>7, VisibleIsKnown DEF Marks, Known
  <2> QED BY <1>3, <2>1
<1>8. ASSUME NEW c \in local, Pushes(c) PROVE Goal
  <2>1. Cardinality(local) = 1 /\ local' = local /\ seen' = c /\ c \in Ids
    BY <1>1, <1>8 DEF Pushes, MayPush
  <2>2. local = {c}
    <3>1. IsFiniteSet(local)
      <4>1. IsFiniteSet(Ids)
        BY Types, FS_Interval, History
      <4> QED BY <1>1, <4>1, FS_Subset
    <3>2. \E e : local = {e}
      BY <2>1, <3>1, FS_Singleton
    <3> QED BY <1>8, <3>2
  <2> QED BY <1>1, <1>3, <2>1, <2>2
<1>9. ASSUME NEW S \in SUBSET Ids, NEW onto \in {None} \cup Known, Rewrites(S, onto),
            brought \subseteq brought'
      PROVE  Goal
  <2> DEFINE mv(c) == Moved(Descendants(S), c)
  <2>1. /\ \A c \in Ids : HoldsAbove(commits', mv(c)) \subseteq
                             HoldsAbove(commits, c) \cup
                             IF c \in Descendants(S) THEN HoldsOn(commits, onto) ELSE {}
        /\ local' = {mv(c) : c \in local} /\ seen' = seen
        /\ local \cap Descendants(S) # {} => HoldsOn(commits, onto) \subseteq brought'
    BY <1>9, Rewriting DEF Rewrites
  <2> HIDE DEF mv
  <2>2. ASSUME NEW c \in local
        PROVE  HoldsAbove(commits', mv(c)) \subseteq checked' \cup HoldsOn(commits', seen') \cup brought'
    <3>1. c \in Ids /\ HoldsAbove(commits, c) \subseteq checked' \cup HoldsOn(commits', seen') \cup brought'
      BY <1>1, <1>9, <2>1
    <3> QED BY <2>1, <3>1
  <2> QED BY <2>1, <2>2
<1> HIDE DEF Goal
<1>10. Goal
  <2>1. CASE Publishes
    BY <1>0, <2>1
  <2>2. CASE brought \subseteq brought' /\ UNCHANGED <<local, seen>>
    BY <1>4, <2>2
  <2>3. CASE brought \subseteq brought' /\ ~ UNCHANGED <<local, seen>>
    BY <1>1, <1>0, <1>5, <1>6, <1>7, <1>8, <1>9, <2>3
       DEF RepoStep, Stays, Seats, Merges, Commits, Moves, AgentCommits, AgentMoves, Adds
  <2> QED BY <1>1, <2>1, <2>2, <2>3
<1>11. ASSUME NEW q \in Procs, verb'[q].at \in {"planned", "prepared"}
       PROVE  HoldsAbove(commits', verb'[q].commit) \subseteq checked'
  <2>1. CASE verb[q].at \in {"planned", "prepared"} /\ verb'[q].commit = verb[q].commit
    BY <1>1, <1>2, <2>1
  <2>2. ASSUME NEW s \in Slots, Plan(q, s), verb'[q].commit = tip[s]
        PROVE  HoldsAbove(commits', verb'[q].commit) \subseteq checked'
    BY <1>1, <2>2, Planned
  <2>4. \/ verb[q].at \in {"planned", "prepared"} /\ verb'[q].commit = verb[q].commit
        \/ \E s \in Slots : Plan(q, s) /\ verb'[q].commit = tip[s]
    BY <1>11, VerbShapes, Zenon DEF Same, Keeps
  <2> QED BY <2>1, <2>2, <2>4
<1> QED BY <1>10, <1>11 DEF CheckedInv, Goal

(* What a rebase is to spare, while the repository changes around it.          *)
LEMMA SparedRepo ==
  ASSUME IInv, [Next]_vars, NEW q \in Procs, verb[q].at = "pinned", verb'[q].at = "pinned",
         NEW c \in verb[q].spared, c \in verb'[q].spared
  PROVE  /\ \A s \in Slots : wc'[s] = verb[q].change =>
                 (commits'[tip'[s]].past \ commits'[verb[q].on].past) \cap commits'[c].past = {}
         /\ \A d \in Ids' : commits'[d].change = verb[q].change =>
                 (commits'[d].past \ commits'[verb[q].on].past) \cap commits'[c].past = {}
<1> DEFINE x == verb[q].change
           on == verb[q].on
           P == commits[c].past
           O == commits[on].past
           Clear(past) == (past \ O) \cap P = {}
           Goal == /\ \A s \in Slots : wc'[s] = x => Clear(commits'[tip'[s]].past)
                   /\ \A d \in Ids' : commits'[d].change = x => Clear(commits'[d].past)
<1>1. /\ RepoStep /\ \A d \in Ids : commits'[d] = commits[d] /\ d \in Ids'
      /\ tip \in [Slots -> Ids] /\ wc \in [Slots -> Nat] /\ c \in Ids /\ on \in Ids
      /\ \A s \in Slots : wc[s] = x => Clear(commits[tip[s]].past)
      /\ \A d \in Ids : commits[d].change = x => Clear(commits[d].past)
  <2>1. tip \in [Slots -> Ids] /\ wc \in [Slots -> Nat] /\ c \in Ids
    BY Types
  <2>2. on \in Ids
    BY DEF IInv, VerbInv, Known
  <2>3. /\ \A s \in Slots : wc[s] = x => Clear(commits[tip[s]].past)
        /\ \A d \in Ids : commits[d].change = x => Clear(commits[d].past)
    BY DEF IInv, SparedInv, Apart
  <2> QED BY <2>1, <2>2, <2>3, StepFacts
<1>2. P \subseteq Ids /\ \A y \in Ids : Past(y) = commits[y].past
  BY <1>1, ChangesAreNumbers, Types, History
<1>13. ASSUME NEW changes, NEW onto \in Ids, Clears(changes, onto), x \in changes
       PROVE  Clear(commits[onto].past)
  <2>1. To(verb[q].on, onto) \cap Past(c) = {}
    BY <1>13 DEF Clears
  <2> QED BY <1>1, <1>2, <2>1 DEF To
<1>3. /\ NewChange \in Nat /\ x \in Nat /\ x < NewChange /\ NewChange # x /\ NewChange + 1 # x
  <2>1. /\ NewChange \in Nat /\ \A n \in Used : n \in Nat /\ n < NewChange
        /\ x \in Nat /\ \E n \in Used : x <= n
    BY Types, Newest DEF IInv, VerbInv, FreshInv
  <2> QED BY <2>1
<1> HIDE DEF x, on, P, O
<1>4. ASSUME commits' = commits, UNCHANGED <<tip, wc>> PROVE Goal
  BY <1>1, <1>4 DEF Ids
<1>5. ASSUME Adds PROVE Goal
  <2> DEFINE n == Len(commits) + 1
  <2>1. /\ n \notin Ids /\ Ids' = Ids \cup {n} /\ UNCHANGED <<tip, wc>>
        /\ \/ commits'[n].change = NewChange
           \/ /\ branch \in Ids /\ commits'[n].change = commits[branch].change
              /\ commits'[n].past = (commits[branch].past \ {branch}) \cup {n}
    BY <1>5, Adding
  <2> HIDE DEF n
  <2>2. ASSUME commits'[n].change = x PROVE Clear(commits'[n].past)
    <3>1. /\ branch \in Ids /\ commits[branch].change = x
          /\ commits'[n].past = (commits[branch].past \ {branch}) \cup {n}
      BY <1>3, <2>1, <2>2
    <3>2. Clear(commits[branch].past) /\ n \notin P
      BY <1>1, <1>2, <2>1, <3>1
    <3> QED BY <3>1, <3>2
  <2> QED BY <1>1, <2>1, <2>2
<1>6. ASSUME NEW p \in Procs, Merges(p) PROVE Goal
  <2> DEFINE n == Len(commits) + 1
             s == verb[p].slot
  <2>1. /\ n \notin Ids /\ Ids' = Ids \cup {n} /\ commits'[n].change = NewChange /\ s \in Slots
        /\ tip' = [tip EXCEPT ![s] = n] /\ wc' = [wc EXCEPT ![s] = NewChange + 1]
    BY <1>6, Merging DEF Merges
  <2> HIDE DEF n, s
  <2>2. wc'[s] = NewChange + 1 /\ \A t \in Slots \ {s} : wc'[t] = wc[t] /\ tip'[t] = tip[t]
    BY <1>1, <2>1
  <2> QED BY <1>1, <1>3, <2>1, <2>2
<1>7. ASSUME NEW s \in Slots, Commits(s) PROVE Goal
  <2> DEFINE n == Len(commits) + 1
  <2>1. /\ n \notin Ids /\ Ids' = Ids \cup {n} /\ commits'[n].change = wc[s]
        /\ commits'[n].past = commits[tip[s]].past \cup {n}
        /\ tip' = [tip EXCEPT ![s] = n] /\ wc' = [wc EXCEPT ![s] = NewChange]
    BY <1>7, Committing
  <2> HIDE DEF n
  <2>2. wc'[s] = NewChange /\ \A t \in Slots \ {s} : wc'[t] = wc[t] /\ tip'[t] = tip[t]
    BY <1>1, <2>1
  <2>3. ASSUME commits'[n].change = x PROVE Clear(commits'[n].past)
    <3>1. Clear(commits[tip[s]].past) /\ n \notin P
      BY <1>1, <1>2, <2>1, <2>3
    <3> QED BY <2>1, <3>1
  <2> QED BY <1>1, <1>3, <2>1, <2>2, <2>3
<1>8. ASSUME NEW s \in Slots, Moves(s) PROVE Goal
  <2>1. PICK e \in {base} \cup {tip[t] : t \in Slots} :
          tip' = [tip EXCEPT ![s] = e] /\ wc' = [wc EXCEPT ![s] = NewChange] /\ commits' = commits
    BY <1>8, Moving
  <2>2. wc'[s] = NewChange /\ \A t \in Slots \ {s} : wc'[t] = wc[t] /\ tip'[t] = tip[t]
    BY <1>1, <2>1
  <2> QED BY <1>1, <1>3, <2>1, <2>2 DEF Ids
<1>9. ASSUME NEW change \in Nat, NEW to \in Known, Seats(change, to) PROVE Goal
  <2>1. /\ \A s \in Slots : tip'[s] = IF wc[s] = change THEN to ELSE tip[s]
        /\ commits' = commits /\ wc' = wc /\ to \in Ids
    BY <1>9 DEF Seats, Known
  <2>2. x = change => Clear(commits[to].past)
    BY <1>9, <1>13, <2>1 DEF Seats
  <2> QED BY <1>1, <2>1, <2>2 DEF Ids
<1>10. ASSUME NEW S \in SUBSET Ids, NEW onto \in {None} \cup Known, Rewrites(S, onto) PROVE Goal
  <2> DEFINE scope == Descendants(S)
             mv(d) == Moved(scope, d)
             under == IF onto = None THEN {} ELSE commits[onto].past
  <2>1. /\ \A d \in Ids : /\ commits'[mv(d)].change = commits[d].change
                          /\ \A y \in commits'[mv(d)].past \cap Ids :
                               y \in commits[d].past \/ (d \in scope /\ y \in under)
        /\ \A n \in Ids' \ Ids : \E d \in scope : n = mv(d)
        /\ tip' = [s \in Slots |-> mv(tip[s])] /\ wc' = wc /\ scope \subseteq Ids
    BY <1>10, Rewriting DEF Rewrites
  <2>2. x \in Shifted(scope) => Clear(under)
    BY <1>10, <1>13 DEF Rewrites, Known
  <2>3. /\ \A d \in scope : commits[d].change = x => x \in Shifted(scope)
        /\ \A s \in Slots : wc[s] = x /\ tip[s] \in scope => x \in Shifted(scope)
    BY DEF Shifted, Changes
  <2> HIDE DEF mv, scope, under
  <2>4. ASSUME NEW d \in Ids, Clear(commits[d].past), d \in scope => x \in Shifted(scope)
        PROVE  Clear(commits'[mv(d)].past)
    <3> SUFFICES ASSUME NEW y \in commits'[mv(d)].past, y \in P PROVE y \in O
      OBVIOUS
    <3>1. y \in commits[d].past \/ (d \in scope /\ y \in under)
      BY <1>2, <2>1
    <3> QED BY <2>2, <2>4, <3>1
  <2>5. \A s \in Slots : wc'[s] = x => Clear(commits'[tip'[s]].past)
    BY <1>1, <2>1, <2>3, <2>4
  <2>6. ASSUME NEW d \in Ids', commits'[d].change = x PROVE Clear(commits'[d].past)
    <3>1. CASE d \in Ids
      BY <1>1, <2>6, <3>1
    <3>2. CASE d \notin Ids
      <4>1. PICK e \in scope : d = mv(e)
        BY <2>1, <3>2
      <4> QED BY <1>1, <2>1, <2>3, <2>4, <2>6, <4>1
    <3> QED BY <3>1, <3>2
  <2> QED BY <2>5, <2>6
<1> HIDE DEF Goal
<1>11. Goal
  <2>1. CASE commits' = commits /\ UNCHANGED <<tip, wc>>
    BY <1>4, <2>1
  <2> QED BY <1>1, <1>5, <1>6, <1>7, <1>8, <1>9, <1>10, <2>1
          DEF RepoStep, Stays, Fetches, Tracks, Publishes, Sets, Marks, Pushes
<1>12. commits'[on].past = O /\ commits'[c].past = P
  BY <1>1 DEF O, P
<1> QED BY <1>11, <1>12 DEF Goal, x, on

LEMMA SparedStep == ASSUME IInv, [Next]_vars PROVE SparedInv'
<1>1. ASSUME NEW q \in Procs, verb'[q].at = "pinned", NEW c \in verb'[q].spared
      PROVE  /\ \A s \in Slots : wc'[s] = verb'[q].change =>
                  (commits'[tip'[s]].past \ commits'[verb'[q].on].past) \cap commits'[c].past = {}
             /\ \A d \in Ids' : commits'[d].change = verb'[q].change =>
                  (commits'[d].past \ commits'[verb'[q].on].past) \cap commits'[c].past = {}
  <2>1. CASE verb'[q].at = verb[q].at /\ Same(q) /\ verb'[q].spared \subseteq verb[q].spared
    <3>1. verb[q].at = "pinned" /\ c \in verb[q].spared /\ verb'[q].on = verb[q].on /\ verb'[q].change = verb[q].change
      BY <1>1, <2>1 DEF Same
    <3> QED BY <1>1, <3>1, SparedRepo
  <2>2. CASE ~(verb'[q].at = verb[q].at /\ Same(q) /\ verb'[q].spared \subseteq verb[q].spared)
    <3> DEFINE s == verb[q].slot
               theirs == {tip[t] : t \in Slots \ {s}}
    <3>1. PICK onto \in Visible :
            /\ verb[q].at \in {"syncing", "rebasing"} /\ Stays
            /\ Descendants(To(onto, tip[s])) \cap (Immutable \cup theirs) = {}
            /\ verb'[q].on = onto /\ verb'[q].change = wc[s] /\ verb'[q].spared = theirs
      BY <1>1, <2>2, VerbShapes
    <3>2. s \in Slots /\ commits' = commits /\ tip' = tip /\ wc' = wc
      BY <3>1 DEF IInv, VerbInv, Stays
    <3>3. /\ \A d \in Ids : commits[d].change # wc[s]
          /\ \A t \in Slots : wc[t] = wc[s] => t = s
      BY <3>2 DEF IInv, FreshInv, Changes
    <3>4. c \in Visible /\ c \notin Descendants(To(onto, tip[s]))
      <4>1. PICK t \in Slots \ {s} : c = tip[t]
        BY <1>1, <3>1
      <4>2. c \in Past(c)
        BY <4>1, Types, History
      <4>3. c \in Visible
        BY <4>1, <4>2 DEF Visible, PastOf
      <4> QED BY <1>1, <3>1, <4>3
    <3>5. (commits[tip[s]].past \ commits[onto].past) \cap commits[c].past = {}
      BY <3>4 DEF Descendants, To, Past
    <3> QED BY <3>1, <3>2, <3>3, <3>5 DEF Ids
  <2> QED BY <2>1, <2>2
<1> QED BY <1>1 DEF SparedInv, Apart

-----------------------------------------------------------------------------
(* The invariant holds, from the start and over every step.                    *)

(* There are changes enough for the working copies.                            *)
LEMMA FirstCopies ==
  LET wcs == CHOOSE f \in [Slots -> 4..3 + Cardinality(Slots)] : IsInjective(f)
  IN /\ wcs \in [Slots -> Nat] /\ \A s \in Slots : wcs[s] \notin {1, 2, 3}
     /\ \A s, t \in Slots : wcs[s] = wcs[t] => s = t
<1> DEFINE k == Cardinality(Slots)
           ok(f) == f \in [Slots -> 4..3 + k] /\ IsInjective(f)
<1>1. k \in Nat /\ ExistsBijection(1..k, Slots)
  BY SlotPublishAssumption, FS_CardinalityType
<1>2. PICK g \in Bijection(Slots, 1..k) : TRUE
  BY <1>1, Fun_ExistsBijSymmetric DEF ExistsBijection
<1>3. ok([s \in Slots |-> g[s] + 3])
  <2>1. /\ g \in [Slots -> 1..k] /\ \A s, t \in Slots : g[s] = g[t] => s = t
    BY <1>2 DEF Bijection, Injection, IsInjective
  <2>2. \A i \in 1..k : i + 3 \in 4..3 + k /\ i \in Nat
    BY <1>1
  <2> DEFINE f == [s \in Slots |-> g[s] + 3]
  <2>3. f \in [Slots -> 4..3 + k] /\ DOMAIN f = Slots
    BY <2>1, <2>2
  <2>4. ASSUME NEW s \in Slots, NEW t \in Slots, f[s] = f[t] PROVE s = t
    <3>1. g[s] \in Nat /\ g[t] \in Nat /\ g[s] + 3 = g[t] + 3
      BY <2>1, <2>2, <2>4
    <3>2. g[s] = g[t]
      BY <3>1
    <3> QED BY <2>1, <3>2
  <2> HIDE DEF f
  <2>5. IsInjective(f)
    BY <2>3, <2>4 DEF IsInjective
  <2> QED BY <2>3, <2>5 DEF f
<1> DEFINE wcs == CHOOSE f \in [Slots -> 4..3 + k] : IsInjective(f)
<1>4. ok(wcs)
  <2> HIDE DEF k
  <2>1. \E f \in [Slots -> 4..3 + k] : IsInjective(f)
    BY <1>3
  <2> QED BY <2>1
<1> HIDE DEF wcs
<1>5. /\ wcs \in [Slots -> 4..3 + k] /\ \A s, t \in Slots : wcs[s] = wcs[t] => s = t
  BY <1>4 DEF IsInjective
<1>6. \A i \in 4..3 + k : i \in Nat /\ i \notin {1, 2, 3}
  BY <1>1
<1>7. /\ wcs \in [Slots -> Nat] /\ \A s \in Slots : wcs[s] \notin {1, 2, 3}
      /\ \A s, t \in Slots : wcs[s] = wcs[t] => s = t
  <2> HIDE DEF k
  <2> QED BY <1>5, <1>6
<1> QED BY <1>7 DEF wcs

LEMMA Initially == ASSUME Init PROVE IInv
<1>1. PICK was \in {"unpublished", "published", "rebased"} :
        /\ commits = <<Commit(1, {1}), Commit(2, {1, 2}), Commit(3, {1, 3})>>
                     \o IF was = "rebased" THEN <<Commit(3, {1, 2, 4})>> ELSE <<>>
        /\ base = (IF was = "rebased" THEN NewBase ELSE OldBase)
        /\ tip = [s \in Slots |-> IF s = Owner THEN Len(commits) ELSE base]
        /\ wc = CHOOSE f \in [Slots -> 4..3 + Cardinality(Slots)] : IsInjective(f)
        /\ tracked = (was # "unpublished")
        /\ seen = (IF tracked THEN 3 ELSE None) /\ branch = seen
        /\ local = (IF tracked THEN {tip[Owner]} ELSE {})
        /\ verb = [p \in Procs |-> Idle]
        /\ checked = (IF tracked THEN {3} ELSE {}) /\ brought = {} /\ onMerge = {}
        /\ verbs = 0 /\ agents = 0 /\ others = 0
  BY DEF Init
<1> DEFINE m == IF was = "rebased" THEN 4 ELSE 3
           R == [change : Nat, past : SUBSET (1..m)]
<1>2. /\ Len(commits) = m /\ commits \in Seq(R)
      /\ commits[1] = Commit(1, {1}) /\ commits[2] = Commit(2, {1, 2}) /\ commits[3] = Commit(3, {1, 3})
      /\ was = "rebased" => commits[4] = Commit(3, {1, 2, 4})
  <2>1. CASE was = "rebased"
    <3> DEFINE old == <<Commit(1, {1}), Commit(2, {1, 2}), Commit(3, {1, 3})>>
               new == <<Commit(3, {1, 2, 4})>>
    <3>1. commits = old \o new
      BY <1>1, <2>1
    <3>2. Commit(1, {1}) \in R /\ Commit(2, {1, 2}) \in R /\ Commit(3, {1, 3}) \in R /\ Commit(3, {1, 2, 4}) \in R
      BY <2>1 DEF Commit
    <3> HIDE DEF R
    <3>3. old \in Seq(R) /\ new \in Seq(R) /\ Len(old) = 3 /\ Len(new) = 1
      BY <3>2
    <3>4. /\ old[1] = Commit(1, {1}) /\ old[2] = Commit(2, {1, 2}) /\ old[3] = Commit(3, {1, 3})
          /\ new[1] = Commit(3, {1, 2, 4})
      OBVIOUS
    <3> HIDE DEF old, new
    <3>5. /\ commits \in Seq(R) /\ Len(commits) = 4
          /\ \A i \in 1..4 : commits[i] = IF i <= 3 THEN old[i] ELSE new[i - 3]
      <4>1. /\ commits \in Seq(R) /\ Len(commits) = Len(old) + Len(new)
            /\ \A i \in 1..Len(old) + Len(new) : commits[i] = IF i <= Len(old) THEN old[i] ELSE new[i - Len(old)]
        BY <3>1, <3>3, ConcatProperties
      <4>2. Len(old) + Len(new) = 4
        BY <3>3
      <4> QED BY <3>3, <4>1, <4>2
    <3>6. commits[1] = old[1] /\ commits[2] = old[2] /\ commits[3] = old[3] /\ commits[4] = new[1]
      BY <3>5
    <3> QED BY <2>1, <3>4, <3>5, <3>6
  <2>2. CASE was # "rebased"
    <3>1. commits = <<Commit(1, {1}), Commit(2, {1, 2}), Commit(3, {1, 3})>>
      BY <1>1, <2>2
    <3>2. Commit(1, {1}) \in R /\ Commit(2, {1, 2}) \in R /\ Commit(3, {1, 3}) \in R
      BY <2>2 DEF Commit
    <3> HIDE DEF R
    <3> QED BY <2>2, <3>1, <3>2
  <2> QED BY <2>1, <2>2
<1>3. Ids = 1..m /\ m \in {3, 4} /\ {1, 2, 3} \subseteq Ids /\ m \in Ids
  <2>1. m \in {3, 4} /\ 1..m = Ids
    <3>1. DOMAIN commits = 1..Len(commits)
      <4> HIDE DEF R, m
      <4>1. commits \in Seq(R)
        BY <1>2
      <4> QED BY <4>1
    <3> QED BY <1>2, <3>1 DEF Ids
  <2> HIDE DEF m
  <2> QED BY <2>1
<1>4. /\ \A c \in Ids : c \in {1, 2, 3} \/ (c = 4 /\ was = "rebased")
      /\ commits[1].change = 1 /\ commits[1].past = {1}
      /\ commits[2].change = 2 /\ commits[2].past = {1, 2}
      /\ commits[3].change = 3 /\ commits[3].past = {1, 3}
      /\ was = "rebased" => commits[4].change = 3 /\ commits[4].past = {1, 2, 4}
  BY <1>2, <1>3 DEF Commit
<1>5. /\ wc \in [Slots -> Nat] /\ \A s \in Slots : wc[s] \notin {1, 2, 3}
      /\ \A s, t \in Slots : wc[s] = wc[t] => s = t
  BY <1>1, FirstCopies
<1>6. /\ tip = [s \in Slots |-> IF s = Owner THEN m ELSE base]
      /\ base = (IF was = "rebased" THEN 2 ELSE 1) /\ base \in Ids
      /\ seen \in {3, None} /\ branch = seen /\ None # 3
      /\ local \subseteq {m} /\ (local # {} => seen = 3 /\ checked = {3})
      /\ checked \subseteq {3} /\ tracked \in BOOLEAN /\ brought = {} /\ onMerge = {}
  BY <1>1, <1>2, <1>3, SlotPublishAssumption DEF OldBase, NewBase
<1>7. CommitsOK
  <2>1. commits \in Seq([change : Nat, past : SUBSET DOMAIN commits])
    BY <1>2, <1>3 DEF Ids
  <2>2. \A c \in Ids : c \in commits[c].past /\ commits[c].past \subseteq 1..c
                       /\ \A d \in commits[c].past : commits[d].past \subseteq commits[c].past
    BY <1>4
  <2> QED BY <2>1, <2>2 DEF CommitsOK, Past, Ids
<1>8. RepoOK
  <2>1. tip \in [Slots -> Ids] /\ local \subseteq Ids /\ {seen, branch} \subseteq Ids \cup {None} /\ checked \subseteq Nat
    BY <1>3, <1>6
  <2> QED BY <1>5, <1>6, <2>1 DEF RepoOK, OldBase, NewBase, Ids
<1>9. /\ verb = [p \in Procs |-> Idle] /\ Idle \in Verbs(Ids)
      /\ \A p \in Procs : /\ verb[p].at = "idle" /\ verb[p].held = {}
                          /\ verb[p].at \notin Planning
  BY <1>1 DEF Idle, Verbs, Ats, Planning
<1>10. TypeOK
  BY <1>1, <1>7, <1>8, <1>9, SlotPublishAssumption DEF TypeOK, Ids
<1>11. RootInv
  BY <1>2, <1>3 DEF RootInv, OldBase, NewBase
<1>12. FreshInv
  <2>1. Changes(Ids) \subseteq {1, 2, 3}
    BY <1>4 DEF Changes
  <2> QED BY <1>5, <1>9, <2>1 DEF FreshInv
<1>13. VerbInv
  BY <1>9 DEF VerbInv
<1>14. BaseInv
  <2>1. ASSUME base = OldBase PROVE NewBase \notin Visible
    <3>1. was # "rebased" /\ m = 3
      BY <1>6, <2>1 DEF OldBase
    <3>2. \A x \in {tip[s] : s \in Slots} \cup local \cup Optional(seen) \cup {base} : x \in {1, 3}
      BY <1>6, <3>1 DEF Optional
    <3>3. \A x \in {1, 3} : 2 \notin Past(x)
      BY <1>4 DEF Past
    <3> QED BY <3>2, <3>3 DEF Visible, PastOf, NewBase
  <2> QED BY <2>1 DEF BaseInv
<1>15. BranchInv
  BY <1>6 DEF BranchInv
<1>16. HeldInv
  BY <1>9 DEF HeldInv
<1>17. CheckedInv
  <2>1. ASSUME NEW c \in local PROVE HoldsAbove(commits, c) \subseteq {3}
    <3>1. c = m /\ c \in {3, 4} /\ (c = 4 => was = "rebased")
      BY <1>6, <2>1
    <3> QED BY <1>4, <3>1 DEF HoldsAbove, OldBase, NewBase
  <2>2. \A c \in local : HoldsAbove(commits, c) \subseteq checked \cup HoldsOn(commits, seen)
    BY <1>6, <2>1
  <2> QED BY <1>9, <2>2 DEF CheckedInv
<1>18. SparedInv
  BY <1>9 DEF SparedInv
<1> QED BY <1>10, <1>11, <1>12, <1>13, <1>14, <1>15, <1>16, <1>17, <1>18 DEF IInv

LEMMA Inductively == ASSUME IInv, [Next]_vars PROVE IInv'
<1>1. TypeOK' /\ RootInv'
  BY TypeStep
<1> QED BY <1>1, FreshStep, VerbInvStep, BaseStep, BranchStep, HeldStep, CheckedStep, SparedStep DEF IInv

LEMMA Invariance == Spec => []IInv
<1>1. Init => IInv
  BY Initially
<1>2. IInv /\ [Next]_vars => IInv'
  BY Inductively
<1> QED BY <1>1, <1>2, PTL DEF Spec

-----------------------------------------------------------------------------
(* What the verbs promise.                                                     *)

(* Slots, bookmarks and verbs name commits there are, which know all their     *)
(* ancestors: jj's rewrites leave the graph whole.                             *)
THEOREM SlotTyping == Spec => []TypeOK
<1>1. IInv => TypeOK
  BY DEF IInv
<1> QED BY Invariance, <1>1, PTL

(* A publish that moves the branch is jj's push of the bookmark's one target.  *)
LEMMA PushIs ==
  ASSUME IInv, [Next]_vars, NEW p \in Procs, Pushing(p)
  PROVE  \E c \in local : /\ local = {c} /\ c \in Ids /\ branch' = c /\ branch = seen
                          /\ verb[p].at = "ready"
<1>1. verb[p].at = "ready" /\ verb'[p].at = "idle" /\ branch' # branch
  BY DEF Pushing
<1>2. OthersPush \/ \E q \in Procs : Push(q)
  <2>1. ASSUME NEW q \in Procs, NEW s \in Slots,
               Plan(q, s) \/ SyncBase(q, s) \/ Rebase(q, s) \/ MergeReads(q, s)
        PROVE  FALSE
    BY <1>1, <2>1, Zenon DEF Plan, SyncBase, Rebase, MergeReads, Fetches
  <2>2. ASSUME NEW q \in Procs, Prepare(q) \/ SetBookmark(q) \/ TrackNew(q) \/ Fetch(q) \/ CheckScope(q)
                                 \/ RebasePinned(q) \/ MergeMakes(q) \/ MergeEnds(q)
        PROVE  FALSE
    BY <1>1, <2>2, Zenon DEF Prepare, SetBookmark, TrackNew, Fetch, Fetches, CheckScope, RebasePinned, RebaseOf,
                             MergeMakes, MergeEnds
  <2>3. ~((\E s \in Slots : Agent(s)) \/ UNCHANGED vars)
    BY <1>1 DEF Agent, vars
  <2> QED BY <2>1, <2>2, <2>3 DEF Next
<1>3. ~OthersPush
  BY <1>1 DEF OthersPush
<1>4. PICK q \in Procs : Push(q)
  BY <1>2, <1>3
<1>5. MayPush /\ \E c \in local : branch' = c
  BY <1>1, <1>4 DEF Push
<1>6. PICK c \in local : branch' = c
  BY <1>5
<1>7. local = {c}
  <2>1. IsFiniteSet(local)
    <3>1. IsFiniteSet(Ids) /\ local \in SUBSET Ids
      BY Types, FS_Interval, History
    <3> QED BY <3>1, FS_Subset
  <2>2. \E e : local = {e}
    BY <1>5, <2>1, FS_Singleton DEF MayPush
  <2> QED BY <1>6, <2>2
<1> QED BY <1>1, <1>5, <1>6, <1>7, Types DEF MayPush

(* Whatever was fetched, published, merged, rebased and amended since the      *)
(* plan, a push takes nothing off the branch that the plan had found there.    *)
THEOREM FetchedWorkIsKept == Spec => FetchedWorkStays
<1>1. ASSUME IInv, [Next]_vars, NEW p \in Procs, Pushing(p)
      PROVE  ChangesOn(branch) \cap verb[p].held \subseteq ChangesOn(branch')
  <2>1. PICK c \in local : /\ c \in Ids /\ branch' = c /\ branch = seen /\ verb[p].at = "ready"
    BY <1>1, PushIs
  <2>2. verb[p].held \cap HoldsOn(commits, seen) \subseteq Holds(commits, c)
    BY <1>1, <2>1 DEF IInv, HeldInv
  <2>3. ChangesOn(branch) = HoldsOn(commits, seen)
    BY <1>1, <2>1, ChangesAreNumbers
  <2>4. ChangesOn(branch') = Holds(commits, c)
    <3>1. Optional(branch') = {c}
      BY <1>1, <2>1, Types DEF Optional
    <3> QED BY <3>1 DEF ChangesOn, Changes, PastOf, Past, Holds
  <2> QED BY <2>2, <2>3, <2>4
<1>2. IInv /\ [Next]_vars => \A p \in Procs : Pushing(p) =>
        ChangesOn(branch) \cap verb[p].held \subseteq ChangesOn(branch')
  BY <1>1
<1> QED BY <1>2, Invariance, PTL DEF Spec, FetchedWorkStays

(* A push sends nothing above the base but what a plan checked or found on the *)
(* branch, in some version, and what a rebase or an agent has put under the     *)
(* bookmark since a publish set it.                                            *)
THEOREM PushesAreChecked == Spec => OnlyCheckedIsPushed
<1>1. ASSUME IInv, [Next]_vars, NEW p \in Procs, Pushing(p)
      PROVE  Changes(To(NewBase, branch')) \subseteq checked \cup ChangesOn(branch) \cup brought
  <2>1. PICK c \in local : /\ c \in Ids /\ branch' = c /\ branch = seen
    BY <1>1, PushIs
  <2>2. HoldsAbove(commits, c) \subseteq checked \cup HoldsOn(commits, seen) \cup brought
    BY <1>1, <2>1 DEF IInv, CheckedInv
  <2>3. ChangesOn(branch) = HoldsOn(commits, seen)
    BY <1>1, <2>1, ChangesAreNumbers
  <2>4. Changes(To(NewBase, branch')) = HoldsAbove(commits, c)
    <3>1. Past(NewBase) = {OldBase, NewBase}
      BY <1>1, Types DEF RootInv, Commit, Past
    <3> QED BY <2>1, <3>1 DEF Changes, To, Past, HoldsAbove
  <2> QED BY <2>2, <2>3, <2>4
<1>2. IInv /\ [Next]_vars => \A p \in Procs : Pushing(p) =>
        Changes(To(NewBase, branch')) \subseteq checked \cup ChangesOn(branch) \cup brought
  BY <1>1
<1> QED BY <1>2, Invariance, PTL DEF Spec, OnlyCheckedIsPushed

LEMMA RebaseIs ==
  ASSUME IInv, [Next]_vars, NEW p \in Procs, verb[p].at = "pinned", verb'[p].at = "idle"
  PROVE  RebasePinned(p)
<1>1. ASSUME NEW q \in Procs \ {p}, NEW x, verb' = [verb EXCEPT ![q] = x] PROVE FALSE
  BY <1>1, OneVerb
<1>2. ASSUME NEW q \in Procs, Eased(q), q = p PROVE FALSE
  BY <1>2 DEF Eased
<1>3. ASSUME NEW q \in Procs \ {p}, NEW s \in Slots,
             Plan(q, s) \/ SyncBase(q, s) \/ Rebase(q, s) \/ MergeReads(q, s)
      PROVE  FALSE
  <2>1. ~ \E x : verb' = [verb EXCEPT ![q] = x]
    BY <1>1
  <2> QED BY <1>3, <2>1, Zenon DEF Plan, SyncBase, Rebase, Rebases, MergeReads
<1>4. ASSUME NEW q \in Procs \ {p}
      PROVE  ~(Prepare(q) \/ SetBookmark(q) \/ TrackNew(q) \/ Push(q) \/ Fetch(q)
               \/ CheckScope(q) \/ RebasePinned(q) \/ MergeMakes(q) \/ MergeEnds(q))
  <2>1. ~ \E x : verb' = [verb EXCEPT ![q] = x]
    BY <1>1
  <2>2. ~ Ends(q) /\ verb' # verb
    BY <2>1 DEF Ends
  <2>3. ~ \E at : Step(q, at)
    <3> SUFFICES ASSUME NEW at, Step(q, at) PROVE FALSE
      OBVIOUS
    <3>1. verb' = [verb EXCEPT ![q] = [verb[q] EXCEPT !.at = at]]
      BY DEF Step
    <3> QED BY <2>1, <3>1
  <2>4. ~ Prepare(q)
    <3>1. verb' # [verb EXCEPT ![q] = [verb[q] EXCEPT !.at = "prepared", !.on = seen]]
      BY <2>1
    <3> QED BY <2>2, <3>1 DEF Prepare
  <2>5. ~ CheckScope(q)
    <3> SUFFICES ASSUME CheckScope(q) PROVE FALSE
      OBVIOUS
    <3> DEFINE s == verb[q].slot
               theirs == {tip[t] : t \in Slots \ {s}}
    <3>1. PICK onto \in IF verb[q].at = "syncing" THEN {base} ELSE Visible :
            IF Descendants(To(onto, tip[s])) \cap (Immutable \cup theirs) # {} THEN Ends(q)
            ELSE verb' = [verb EXCEPT ![q].at = "pinned", ![q].on = onto, ![q].change = wc[s], ![q].spared = theirs]
      BY Zenon DEF CheckScope
    <3> DEFINE change == wc[s]
    <3>2. verb' = [verb EXCEPT ![q].at = "pinned", ![q].on = onto, ![q].change = change, ![q].spared = theirs]
      BY <2>2, <3>1, Zenon
    <3> HIDE DEF theirs, change
    <3>3. verb' = [verb EXCEPT ![q] = [verb[q] EXCEPT !.at = "pinned", !.on = onto, !.change = change, !.spared = theirs]]
      BY <3>2
    <3> QED BY <2>1, <3>3
  <2>6. ~ RebasePinned(q)
    <3> SUFFICES ASSUME RebasePinned(q) PROVE FALSE
      OBVIOUS
    <3> DEFINE v == verb[q]
               pin == Pinned(v.change)
               c == CHOOSE d \in pin : TRUE
    <3>1. verb' = [r \in Procs |-> IF r = q THEN Idle ELSE Excused(verb[r], v.change, c, v.on)]
      BY <2>2 DEF RebasePinned, RebaseOf
    <3> HIDE DEF v, pin, c
    <3>2. verb'[p] = Excused(verb[p], v.change, c, v.on)
      BY <3>1
    <3> QED BY <1>2, <3>2, Easing
  <2> QED BY <2>2, <2>3, <2>4, <2>5, <2>6, Zenon DEF SetBookmark, TrackNew, Push, Fetch, MergeMakes, MergeEnds
<1>5. ASSUME NEW s \in Slots PROVE ~(Plan(p, s) \/ SyncBase(p, s) \/ Rebase(p, s) \/ MergeReads(p, s))
  BY Zenon DEF Plan, SyncBase, Rebase, Rebases, MergeReads
<1>6. ~(Prepare(p) \/ SetBookmark(p) \/ TrackNew(p) \/ Push(p) \/ Fetch(p) \/ CheckScope(p)
        \/ MergeMakes(p) \/ MergeEnds(p))
  BY DEF Prepare, SetBookmark, TrackNew, Push, Fetch, CheckScope, MergeMakes, MergeEnds
<1>7. ASSUME NEW s \in Slots, Agent(s) PROVE FALSE
  <2>1. CASE AgentRebases(s)
    <3>1. PICK onto \in Visible : verb' = [q \in Procs |-> Excused(verb[q], wc[s], tip[s], onto)]
      BY <2>1 DEF AgentRebases
    <3>2. verb'[p] = Excused(verb[p], wc[s], tip[s], onto)
      BY <3>1
    <3> QED BY <1>2, <3>2, Easing
  <2>2. CASE AgentMarks
    <3>1. PICK c \in Visible :
            verb' = [q \in Procs |-> IF verb[q].at \in {"set", "ready"}
                                      THEN [verb[q] EXCEPT !.held = @ \cap Changes(Past(c))] ELSE verb[q]]
      BY <2>2 DEF AgentMarks
    <3>2. verb'[p] = verb[p]
      BY <3>1
    <3> QED BY <3>2
  <2>3. CASE AgentCommits(s) \/ AgentStarts(s) \/ AgentAmends(s) \/ AgentMoves(s)
    BY <2>3 DEF AgentCommits, AgentStarts, AgentAmends, AgentMoves
  <2> QED BY <1>7, <2>1, <2>2, <2>3 DEF Agent
<1>8. ~(OthersPush \/ UNCHANGED vars)
  BY DEF OthersPush, vars
<1> QED BY <1>3, <1>4, <1>5, <1>6, <1>7, <1>8 DEF Next

(* A rebase moves no other slot off the commit it sat on when the rebase was   *)
(* checked, wherever the pinned change is by then, unless another's rebase has *)
(* since put the change on a commit that is under that slot too.               *)
THEOREM RebasesSpareOthers == Spec => RebaseSparesOthers
<1>1. ASSUME IInv, [Next]_vars, NEW p \in Procs, verb[p].at = "pinned", verb'[p].at = "idle",
             NEW c \in verb[p].spared, NEW s \in Slots \ {verb[p].slot}, tip[s] = c
      PROVE  tip'[s] = c
  <2> DEFINE x == verb[p].change
             on == verb[p].on
             pin == Pinned(x)
             d == CHOOSE e \in pin : TRUE
             own == To(on, d)
             roots == {r \in own : Past(r) \cap own = {r} /\ Past(r) # Past(on) \cup {r}}
  <2>1. \/ tip' = tip
        \/ tip' = [t \in Slots |-> IF wc[t] = x THEN on ELSE tip[t]]
        \/ Cardinality(pin) = 1 /\ Rewrite(Scope(on, d), on)
    BY <1>1, RebaseIs DEF RebasePinned, RebaseOf, RebaseBranch
  <2>2. wc[s] # x
    BY <1>1 DEF IInv, FreshInv
  <2>3. ASSUME Cardinality(pin) = 1, Rewrite(Scope(on, d), on) PROVE tip'[s] = c
    <3>1. d \in pin
      <4>1. pin # {}
        BY <2>3, FS_EmptySet
      <4> QED BY <4>1
    <3>2. (\E t \in Slots : wc[t] = x /\ d = tip[t]) \/ (d \in Visible /\ commits[d].change = x)
      BY <3>1 DEF Pinned
    <3>3. Visible \subseteq Ids
      BY <1>1, Types, Shown
    <3>4. Apart(on, d, c)
      <4> HIDE DEF d
      <4> QED BY <1>1, <3>2, <3>3 DEF IInv, SparedInv
    <3>5. own \cap Past(c) = {}
      BY <3>4 DEF Apart, To, Past
    <3>6. c \notin Scope(on, d)
      BY <3>5 DEF Scope, Descendants
    <3>7. tip'[s] = Moved(Scope(on, d), c)
      BY <1>1, <2>3 DEF Rewrite
    <3> HIDE DEF d
    <3> QED BY <3>6, <3>7 DEF Moved
  <2>4. tip[s] = c /\ s \in Slots
    BY <1>1
  <2> HIDE DEF x, on, pin, d
  <2> QED BY <2>1, <2>2, <2>3, <2>4
<1>2. IInv /\ [Next]_vars => \A p \in Procs : verb[p].at = "pinned" /\ verb'[p].at = "idle" =>
        \A c \in verb[p].spared : \A s \in Slots \ {verb[p].slot} : tip[s] = c => tip'[s] = c
  BY <1>1
<1> QED BY <1>2, Invariance, PTL DEF Spec, RebaseSparesOthers
=============================================================================
