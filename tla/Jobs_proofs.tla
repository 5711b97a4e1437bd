---------------------------- MODULE Jobs_proofs ----------------------------
(***************************************************************************)
(* One job run, from the request to its receipt.                           *)
(*                                                                         *)
(* What jobRunNodes and jobOperationStack select, for any manifests and in *)
(* any order of their maps.  The loops' invariant: what is selected is part *)
(* of the closure, and what an unchanged pass has visited cannot join.  The *)
(* projection's: a name that is kept and no longer queued has brought in    *)
(* all it needs.                                                           *)
(*                                                                         *)
(* That what is accepted is a run such as JobRun assumes: of the form it    *)
(* asks for, and with an order to run in.                                  *)
(*                                                                         *)
(* What executeJobRun and runJobGraph guarantee, for any stacks, runs,     *)
(* failures and moments of a crash.                                        *)
(***************************************************************************)
EXTENDS JobSelection, JobRun, FiniteSetTheorems, WellFoundedInduction, TLAPS

-----------------------------------------------------------------------------
(* GrowBy, for every set, step and bound: its rounds are the function the   *)
(* definition recurses by, and as many rounds as there are elements close   *)
(* the set under the step, with nothing added that need not be.            *)

(* A set of numbers has a least one.                                       *)
LEMMA LeastNat == ASSUME NEW T, T \subseteq Nat, T # {} PROVE \E x \in T : \A y \in T : x <= y
<1> DEFINE R == OpToRel(<, Nat)
<1>1. IsWellFoundedOn(R, Nat)
  BY NatLessThanWellFounded
<1>2. \A x, y \in Nat : x < y => <<x, y>> \in R
  BY DEF OpToRel
<1> HIDE DEF R
<1>3. PICK x \in T : \A y \in T : ~ (<<y, x>> \in R)
  BY <1>1, WFMin
<1>4. ASSUME NEW y \in T PROVE x <= y
  <2>1. x \in Nat /\ y \in Nat /\ ~ (y < x)
    BY <1>2, <1>3, <1>4
  <2> QED BY <2>1
<1> QED BY <1>4

After(set, step) == set \cup UNION {step[x] : x \in set}

IsGrown(g, set, step, k) ==
  g = [i \in 0..k |-> IF i = 0 THEN set ELSE After(g[i - 1], step)]

LEMMA GrownExists == ASSUME NEW set, NEW step, NEW bound \in Nat PROVE \E g : IsGrown(g, set, step, bound)
<1> DEFINE Bad == {k \in Nat : ~ \E g : IsGrown(g, set, step, k)}
<1>1. 0 \notin Bad
  <2>1. IsGrown([i \in 0..0 |-> set], set, step, 0)
     BY DEF IsGrown
  <2> QED BY <2>1
<1>2. ASSUME NEW k \in Nat \ Bad PROVE k + 1 \notin Bad
  <2>1. PICK g : IsGrown(g, set, step, k)
     BY <1>2
  <2> DEFINE h == [i \in 0..(k + 1) |-> IF i = 0 THEN set ELSE After(g[i - 1], step)]
  <2>2. \A i \in 0..k : g[i] = IF i = 0 THEN set ELSE After(g[i - 1], step)
     BY <2>1 DEF IsGrown
  <2>3. \A i \in 0..(k + 1) : h[i] = IF i = 0 THEN set ELSE After(g[i - 1], step)
     OBVIOUS
  <2>4. \A i \in 0..k : i \in 0..(k + 1) /\ h[i] = g[i]
     BY <2>2, <2>3
  <2> HIDE DEF h
  <2>5. \A i \in 0..(k + 1) : i # 0 => i - 1 \in 0..k
     OBVIOUS
  <2>6. h = [i \in 0..(k + 1) |-> IF i = 0 THEN set ELSE After(h[i - 1], step)]
     BY <2>4, <2>5 DEF h
  <2> QED BY <2>6 DEF IsGrown
<1>3. Bad = {}
  <2> SUFFICES ASSUME Bad # {} PROVE FALSE
    OBVIOUS
  <2>1. PICK m \in Bad : \A y \in Bad : m <= y
    BY LeastNat
  <2>2. m # 0 /\ m \in Nat
    BY <1>1, <2>1
  <2>3. m - 1 \in Nat \ Bad
    BY <2>1, <2>2
  <2> QED BY <1>2, <2>1, <2>2, <2>3
<1> QED BY <1>3

LEMMA GrowByUnfolds ==
  ASSUME NEW set, NEW step, NEW bound \in Nat
  PROVE  \E g : IsGrown(g, set, step, bound) /\ GrowBy(set, step, bound) = g[bound]
<1> DEFINE g == CHOOSE g : IsGrown(g, set, step, bound)
<1>1. IsGrown(g, set, step, bound)
  BY GrownExists
<1>2. GrowBy(set, step, bound) = g[bound]
  BY DEF GrowBy, IsGrown, After
<1> HIDE DEF g
<1> QED BY <1>1, <1>2

ClosedUnder(T, step) == \A x \in T : step[x] \subseteq T

LEMMA GrowByCloses ==
  ASSUME NEW S, IsFiniteSet(S), NEW set \in SUBSET S, NEW step, \A x \in S : step[x] \subseteq S
  PROVE  /\ set \subseteq GrowBy(set, step, Cardinality(S))
         /\ GrowBy(set, step, Cardinality(S)) \subseteq S
         /\ ClosedUnder(GrowBy(set, step, Cardinality(S)), step)
         /\ \A T \in SUBSET S : set \subseteq T /\ ClosedUnder(T, step)
                                 => GrowBy(set, step, Cardinality(S)) \subseteq T
<1> DEFINE N == Cardinality(S)
<1>1. N \in Nat
  BY FS_CardinalityType
<1>2. PICK g : IsGrown(g, set, step, N) /\ GrowBy(set, step, N) = g[N]
  BY <1>1, GrowByUnfolds
<1>3. g[0] = set /\ \A i \in 0..N : i # 0 => g[i] = After(g[i - 1], step)
  BY <1>1, <1>2 DEF IsGrown
<1> DEFINE Good(i) == /\ set \subseteq g[i] /\ g[i] \subseteq S
                      /\ \A T \in SUBSET S : set \subseteq T /\ ClosedUnder(T, step) => g[i] \subseteq T
                      /\ ClosedUnder(g[i], step) \/ Cardinality(g[i]) >= i + 1
           Bad == {i \in 0..N : ~Good(i)}
<1>4. Good(0)
  <2>1. set = {} => ClosedUnder(set, step)
    BY DEF ClosedUnder
  <2>2. set # {} => Cardinality(set) >= 1
    <3>1. IsFiniteSet(set)
      BY FS_Subset
    <3>2. set # {} => Cardinality(set) # 0 /\ Cardinality(set) \in Nat
      BY <3>1, FS_EmptySet, FS_CardinalityType
    <3> QED BY <3>2
  <2> QED BY <1>3, <2>1, <2>2
<1>5. ASSUME NEW i \in 1..N, Good(i - 1) PROVE Good(i)
  <2> DEFINE old == g[i - 1]
  <2>1. g[i] = After(old, step)
    BY <1>1, <1>3
  <2>2. old \subseteq S /\ set \subseteq old
    BY <1>5
  <2>3. \A T \in SUBSET S : set \subseteq T /\ ClosedUnder(T, step) => old \subseteq T
    BY <1>5
  <2>4. ClosedUnder(old, step) \/ Cardinality(old) >= i
    BY <1>5
  <2> HIDE DEF old
  <2>5. old \subseteq g[i] /\ g[i] \subseteq S
    BY <2>1, <2>2 DEF After
  <2>6. \A T \in SUBSET S : set \subseteq T /\ ClosedUnder(T, step) => g[i] \subseteq T
    BY <2>1, <2>3 DEF After, ClosedUnder
  <2>7. CASE ClosedUnder(old, step)
    <3>1. g[i] = old
      BY <2>1, <2>7 DEF After, ClosedUnder
    <3> QED BY <2>2, <2>5, <2>6, <2>7, <3>1
  <2>8. CASE Cardinality(old) >= i /\ ~ClosedUnder(old, step)
    <3>1. g[i] # old
      BY <2>1, <2>8 DEF After, ClosedUnder
    <3>2. IsFiniteSet(g[i]) /\ IsFiniteSet(old)
      BY <2>2, <2>5, FS_Subset
    <3>3. Cardinality(old) <= Cardinality(g[i]) /\ Cardinality(old) # Cardinality(g[i])
      BY <2>5, <3>1, <3>2, FS_Subset
    <3>4. Cardinality(old) \in Nat /\ Cardinality(g[i]) \in Nat
      BY <3>2, FS_CardinalityType
    <3>5. Cardinality(g[i]) >= i + 1
      BY <2>8, <3>3, <3>4
    <3> QED BY <2>2, <2>5, <2>6, <3>5
  <2> QED BY <2>4, <2>7, <2>8
<1>6. Bad = {}
  <2> SUFFICES ASSUME Bad # {} PROVE FALSE
    OBVIOUS
  <2>1. Bad \subseteq Nat
    BY <1>1
  <2>2. PICK m \in Bad : \A y \in Bad : m <= y
    BY <2>1, LeastNat
  <2>3. m \in 1..N /\ ~Good(m)
    BY <1>1, <1>4, <2>2
  <2>4. m - 1 \notin Bad /\ m - 1 \in 0..N
    BY <1>1, <2>2, <2>3
  <2>5. Good(m - 1)
    BY <2>4
  <2> HIDE DEF Good
  <2> QED BY <1>5, <2>3, <2>5
<1>7. Good(N)
  BY <1>1, <1>6
<1>8. ClosedUnder(g[N], step)
  <2>1. Cardinality(g[N]) <= N
    BY <1>7, FS_Subset
  <2>2. Cardinality(g[N]) \in Nat
    BY <1>7, FS_Subset, FS_CardinalityType
  <2> QED BY <1>1, <1>7, <2>1, <2>2
<1> QED BY <1>2, <1>7, <1>8

-----------------------------------------------------------------------------
(* One manifest.                                                           *)

(* The manifests' assumption, for one of them.                             *)
LEMMA Declared ==
  ASSUME NEW r \in Requests
  PROVE  /\ IsFiniteSet(Names(r.stack))
         /\ \A n \in Names(r.stack) : r.stack.deps[n] \subseteq Names(r.stack)
         /\ \A j \in r.stack.jobs : r.stack.holds[j] \subseteq r.stack.services
         /\ r.stack.services \subseteq Names(r.stack)
         /\ r.stack.jobs \subseteq Names(r.stack)
  BY RequestsAssumption DEF Names

(* What a set of names holds are services of the stack.                    *)
LEMMA HoldsAreServices ==
  ASSUME NEW r \in Requests, NEW set
  PROVE  HeldBy(r.stack, set) \subseteq r.stack.services
  BY Declared DEF HeldBy

(* The loops only start for a root that is a job of the stack.             *)
RootIsJob == phase # "rejected" => req.root \in req.stack.jobs

(* Every kept name that is no longer queued has brought in its needs.      *)
BroughtIn(n) ==
  /\ req.stack.deps[n] \subseteq included
  /\ n \in req.stack.jobs => req.stack.holds[n] \subseteq included

ProjectionInv ==
  phase \in {"project", "selected"} =>
    /\ seen \subseteq included
    /\ \A n \in included \ queue : BroughtIn(n)

(* A selected projection has nothing left to bring in.                     *)
QueueIsDone == phase = "selected" => queue = {}

LEMMA TypingAndRoot == SelectionSpec => [](SelectionTypeOK /\ RootIsJob)
<1>1. SelectionInit => SelectionTypeOK /\ RootIsJob
  BY DEF SelectionInit, SelectionTypeOK, RootIsJob, Names, Phases
<1>2. ASSUME SelectionTypeOK, RootIsJob, [SelectionNext]_selectionVars PROVE SelectionTypeOK' /\ RootIsJob'
  <2>0. /\ req \in Requests
        /\ phase \in Phases
        /\ seen \subseteq Names(req.stack) \cup {req.root}
        /\ held \subseteq req.stack.services
        /\ changed \in BOOLEAN
        /\ unvisited \subseteq Names(req.stack)
        /\ included \subseteq Names(req.stack)
        /\ queue \subseteq included
        /\ phase # "rejected" => req.root \in req.stack.jobs
    BY <1>2 DEF SelectionTypeOK, RootIsJob
  <2>1. ASSUME NEW n \in Names(req.stack), Visit(n) PROVE SelectionTypeOK' /\ RootIsJob'
    BY <2>0, <2>1 DEF Visit, SelectionTypeOK, RootIsJob
  <2>2. ASSUME NEW n \in Names(req.stack), Include(n) PROVE SelectionTypeOK' /\ RootIsJob'
    BY <2>0, <2>2 DEF Include, SelectionTypeOK, RootIsJob
  <2>3. CASE EndVisits
    <3>1. req.stack.services \subseteq Names(req.stack)
      BY <2>0, Declared
    <3> QED BY <2>0, <2>3, <3>1 DEF EndVisits, SelectionTypeOK, RootIsJob, Phases
  <2>4. CASE AddHolds
    <3>1. HeldBy(req.stack, seen) \subseteq req.stack.services
      BY <2>0, HoldsAreServices
    <3>2. req.stack.services \subseteq Names(req.stack)
      BY <2>0, Declared
    <3> QED BY <2>0, <2>4, <3>1, <3>2 DEF AddHolds, SelectionTypeOK, RootIsJob, Phases
  <2>5. CASE Check
    <3>1. seen \subseteq Names(req.stack)
      BY <2>0, <2>5, Declared DEF Check
    <3> QED BY <2>0, <2>5, <3>1 DEF Check, SelectionTypeOK, RootIsJob, Phases
  <2>6. CASE Project
    BY <2>0, <2>6 DEF Project, SelectionTypeOK, RootIsJob, Phases
  <2>7. CASE UNCHANGED selectionVars
    BY <2>0, <2>7 DEF selectionVars, SelectionTypeOK, RootIsJob
  <2> QED BY <1>2, <2>1, <2>2, <2>3, <2>4, <2>5, <2>6, <2>7 DEF SelectionNext, Stop
<1> QED BY <1>1, <1>2, PTL DEF SelectionSpec

(* A visit, a pass's end, a hold and an inclusion only ever add names of   *)
(* the stack: every variable keeps its type, for any manifests.            *)
THEOREM SelectionTyping == SelectionSpec => []SelectionTypeOK
  BY TypingAndRoot, PTL

(* The closures of StackGraph, as the least sets closed under their rule.  *)

Joins(s, among, T) == \A m \in among : s.deps[m] \cap T # {} => m \in T

IsLeast(s, set, among, D) ==
  /\ set \subseteq D /\ D \subseteq Names(s) /\ Joins(s, among, D)
  /\ \A T \in SUBSET Names(s) : set \subseteq T /\ Joins(s, among, T) => D \subseteq T

LEMMA DownstreamIs ==
  ASSUME NEW r \in Requests, NEW set, NEW among, set \subseteq Names(r.stack), among \subseteq Names(r.stack)
  PROVE  IsLeast(r.stack, set, among, Downstream(r.stack, set, among))
<1> DEFINE s == r.stack
           step == [n \in Names(s) |-> {m \in among : n \in s.deps[m]}]
           C == GrowBy(set, step, Cardinality(Names(s)))
<1>1. \A x \in Names(s) : step[x] = {m \in among : x \in s.deps[m]} /\ step[x] \subseteq Names(s)
  OBVIOUS
<1>2. C = Downstream(s, set, among)
  BY DEF Downstream
<1>3. \A m \in among : s.deps[m] \subseteq Names(s)
  BY Declared
<1> HIDE DEF step, s
<1>4. /\ set \subseteq C /\ C \subseteq Names(s) /\ ClosedUnder(C, step)
      /\ \A T \in SUBSET Names(s) : set \subseteq T /\ ClosedUnder(T, step) => C \subseteq T
  BY <1>1, Declared, GrowByCloses DEF s
<1> HIDE DEF C
<1>5. \A T \in SUBSET Names(s) : ClosedUnder(T, step) <=> Joins(s, among, T)
  BY <1>1, <1>3 DEF ClosedUnder, Joins
<1> QED BY <1>2, <1>4, <1>5 DEF s, IsLeast

Needs(s, T) == \A n \in T : s.deps[n] \subseteq T

LEMMA PrerequisitesAre ==
  ASSUME NEW r \in Requests, NEW n \in Names(r.stack)
  PROVE  LET C == Prerequisites(r.stack, n) IN
         /\ r.stack.deps[n] \subseteq C /\ C \subseteq Names(r.stack) /\ Needs(r.stack, C)
         /\ \A T \in SUBSET Names(r.stack) : r.stack.deps[n] \subseteq T /\ Needs(r.stack, T) => C \subseteq T
<1>1. r.stack.deps[n] \subseteq Names(r.stack) /\ Dependencies(r.stack, n) = r.stack.deps[n]
  BY Declared DEF Dependencies
<1>2. Prerequisites(r.stack, n) = GrowBy(r.stack.deps[n], r.stack.deps, Cardinality(Names(r.stack)))
  BY <1>1 DEF Prerequisites
<1> DEFINE C == GrowBy(r.stack.deps[n], r.stack.deps, Cardinality(Names(r.stack)))
<1>3. IsFiniteSet(Names(r.stack)) /\ \A x \in Names(r.stack) : r.stack.deps[x] \subseteq Names(r.stack)
  BY Declared
<1>4. /\ r.stack.deps[n] \subseteq C /\ C \subseteq Names(r.stack) /\ ClosedUnder(C, r.stack.deps)
      /\ \A T \in SUBSET Names(r.stack) :
           r.stack.deps[n] \subseteq T /\ ClosedUnder(T, r.stack.deps) => C \subseteq T
  BY <1>1, <1>3, GrowByCloses
<1> HIDE DEF C
<1> QED BY <1>2, <1>4 DEF ClosedUnder, Needs, C

NeedsAndHolds(s, T) == \A n \in T :
  s.deps[n] \subseteq T /\ (n \in s.jobs => s.holds[n] \subseteq T)

LEMMA ProjectionIs ==
  ASSUME NEW r \in Requests, Selected(r) \subseteq Names(r.stack)
  PROVE  LET C == Projection(r) IN
         /\ Selected(r) \subseteq C /\ C \subseteq Names(r.stack) /\ NeedsAndHolds(r.stack, C)
         /\ \A T \in SUBSET Names(r.stack) : Selected(r) \subseteq T /\ NeedsAndHolds(r.stack, T) => C \subseteq T
<1> DEFINE s == r.stack
           step == [n \in Names(s) |-> s.deps[n] \cup (IF n \in s.jobs THEN s.holds[n] ELSE {})]
           C == GrowBy(Selected(r), step, Cardinality(Names(s)))
<1>1. \A x \in Names(s) : /\ step[x] = s.deps[x] \cup (IF x \in s.jobs THEN s.holds[x] ELSE {})
                         /\ step[x] \subseteq Names(s)
  BY Declared
<1>2. C \cap Names(s) = Projection(r)
  BY DEF Projection
<1> HIDE DEF step, s
<1>4. /\ Selected(r) \subseteq C /\ C \subseteq Names(s) /\ ClosedUnder(C, step)
      /\ \A T \in SUBSET Names(s) : Selected(r) \subseteq T /\ ClosedUnder(T, step) => C \subseteq T
  BY <1>1, Declared, GrowByCloses DEF s
<1> HIDE DEF C
<1>5. \A T \in SUBSET Names(s) : ClosedUnder(T, step) <=> NeedsAndHolds(s, T)
  BY <1>1 DEF ClosedUnder, NeedsAndHolds
<1> QED BY <1>2, <1>4, <1>5 DEF s

(* What a request for a job reaches when it is chained, and what a run that *)
(* holds services recovers.                                                 *)
LEMMA ReachedIs ==
  ASSUME NEW r \in Requests, r.root \in r.stack.jobs, r.chained
  PROVE  /\ r.root \in Reached(r) /\ Reached(r) \subseteq Names(r.stack)
         /\ Joins(r.stack, Names(r.stack), Reached(r))
         /\ \A T \in SUBSET Names(r.stack) :
              r.root \in T /\ Joins(r.stack, Names(r.stack), T) => Reached(r) \subseteq T
<1> DEFINE S == {r.root}
           N == Names(r.stack)
<1>1. S \subseteq Names(r.stack) /\ N \subseteq Names(r.stack)
  BY Declared
<1>2. Reached(r) = Downstream(r.stack, S, N)
  BY DEF Reached
<1>3. \A T : S \subseteq T <=> r.root \in T
  OBVIOUS
<1> HIDE DEF S, N
<1>4. IsLeast(r.stack, S, N, Reached(r))
  BY <1>1, <1>2, DownstreamIs
<1>5. /\ S \subseteq Reached(r) /\ Reached(r) \subseteq Names(r.stack) /\ Joins(r.stack, N, Reached(r))
      /\ \A T \in SUBSET Names(r.stack) : S \subseteq T /\ Joins(r.stack, N, T) => Reached(r) \subseteq T
  BY <1>4 DEF IsLeast
<1> QED BY <1>3, <1>5 DEF N

LEMMA SelectedIs ==
  ASSUME NEW r \in Requests, Reached(r) \cup Held(r) \subseteq Names(r.stack), r.chained, Held(r) # {}
  PROVE  /\ Reached(r) \cup Held(r) \subseteq Selected(r) /\ Selected(r) \subseteq Names(r.stack)
         /\ Joins(r.stack, r.stack.services, Selected(r))
         /\ \A T \in SUBSET Names(r.stack) :
              Reached(r) \cup Held(r) \subseteq T /\ Joins(r.stack, r.stack.services, T) => Selected(r) \subseteq T
<1> DEFINE S == Reached(r) \cup Held(r)
           A == r.stack.services
<1>1. S \subseteq Names(r.stack) /\ A \subseteq Names(r.stack)
  BY Declared
<1>2. Selected(r) = Downstream(r.stack, S, A)
  BY DEF Selected
<1> HIDE DEF S, A
<1>3. IsLeast(r.stack, S, A, Selected(r))
  BY <1>1, <1>2, DownstreamIs
<1> QED BY <1>3 DEF IsLeast, S, A

LEMMA SelectionIs ==
  ASSUME NEW r \in Requests, r.root \in r.stack.jobs
  PROVE  /\ r.root \in Reached(r) /\ Reached(r) \subseteq Names(r.stack)
         /\ Held(r) \subseteq r.stack.services
         /\ Reached(r) \cup Held(r) \subseteq Selected(r) /\ Selected(r) \subseteq Names(r.stack)
<1>1. r.root \in Names(r.stack) /\ r.stack.services \subseteq Names(r.stack)
  BY Declared
<1>2. r.root \in Reached(r) /\ Reached(r) \subseteq Names(r.stack)
  <2>1. CASE r.chained
    BY <2>1, ReachedIs
  <2>2. CASE ~r.chained
    BY <1>1, <2>2 DEF Reached
  <2> QED BY <2>1, <2>2
<1>3. Held(r) \subseteq r.stack.services
  BY HoldsAreServices DEF Held
<1>4. CASE r.chained /\ Held(r) # {}
  BY <1>1, <1>2, <1>3, <1>4, SelectedIs
<1>5. CASE ~(r.chained /\ Held(r) # {})
  <2>1. Selected(r) = Reached(r) \cup Held(r)
    BY <1>5 DEF Selected
  <2> QED BY <1>1, <1>2, <1>3, <2>1
<1> QED BY <1>2, <1>3, <1>4, <1>5

-----------------------------------------------------------------------------
(* The projection, and the loops before it.                                *)

(* A name that is no longer queued has brought in what it needs.           *)
LEMMA ProjectionBuilt == SelectionSpec => [](ProjectionInv /\ QueueIsDone)
<1> DEFINE Inv == ProjectionInv /\ QueueIsDone
<1>1. SelectionInit => Inv
  BY DEF SelectionInit, ProjectionInv, QueueIsDone
<1>2. ASSUME SelectionTypeOK, Inv, [SelectionNext]_selectionVars PROVE Inv'
  <2>0. /\ req \in Requests
        /\ included \subseteq Names(req.stack)
        /\ phase \in {"project", "selected"} => seen \subseteq included
        /\ \A n \in included \ queue :
             phase \in {"project", "selected"} => BroughtIn(n)
        /\ phase = "selected" => queue = {}
    BY <1>2 DEF SelectionTypeOK, ProjectionInv, QueueIsDone
  <2>1. CASE \/ \E n \in Names(req.stack) : Visit(n)
             \/ EndVisits \/ AddHolds
    BY <2>1 DEF Visit, EndVisits, AddHolds, ProjectionInv, QueueIsDone
  <2>2. ASSUME NEW n \in Names(req.stack), Include(n) PROVE Inv'
    <3> DEFINE needs == Dependencies(req.stack, n)
                          \cup (IF n \in req.stack.jobs
                                THEN req.stack.holds[n] ELSE {})
               added == (needs \ included) \cap Names(req.stack)
    <3>1. /\ phase = "project" /\ phase' = "project"
          /\ req' = req /\ seen' = seen
          /\ included' = included \cup added
          /\ queue' = (queue \ {n}) \cup added
      BY <2>2 DEF Include
    <3>2. needs \subseteq Names(req.stack)
      <4>1. req.stack.deps[n] \subseteq Names(req.stack)
        BY <2>0, Declared
      <4>2. CASE n \in req.stack.jobs
        <5>1. req.stack.holds[n] \subseteq Names(req.stack)
          BY <2>0, <4>2, Declared
        <5> QED BY <4>1, <4>2, <5>1 DEF Dependencies
      <4>3. CASE n \notin req.stack.jobs
        BY <4>1, <4>3 DEF Dependencies
      <4> QED BY <4>2, <4>3
    <3>3. needs \subseteq included'
      BY <3>1, <3>2
    <3>4. BroughtIn(n)'
      <4>1. req.stack.deps[n] \subseteq included'
        BY <3>3 DEF Dependencies
      <4>2. n \in req.stack.jobs => req.stack.holds[n] \subseteq included'
        BY <3>3
      <4> QED BY <3>1, <4>1, <4>2 DEF BroughtIn
    <3>5. ASSUME NEW m \in included' \ queue' PROVE BroughtIn(m)'
      <4>1. CASE m = n
        BY <3>4, <4>1, <3>1 DEF BroughtIn
      <4>2. CASE m # n
        <5>1. m \in included \ queue
          BY <3>1, <4>2, <3>5
        <5>2. BroughtIn(m)
          BY <2>0, <3>1, <5>1
        <5> QED BY <3>1, <5>2 DEF BroughtIn
      <4> QED BY <4>1, <4>2
    <3> QED BY <2>0, <3>1, <3>5 DEF ProjectionInv, QueueIsDone
  <2>3. CASE Check
    BY <2>3 DEF Check, ProjectionInv, QueueIsDone
  <2>4. CASE Project
    BY <2>0, <2>4 DEF Project, ProjectionInv, QueueIsDone, BroughtIn
  <2>5. CASE UNCHANGED selectionVars
    BY <2>0, <2>5 DEF selectionVars, ProjectionInv, QueueIsDone, BroughtIn
  <2> QED BY <1>2, <2>1, <2>2, <2>3, <2>4, <2>5 DEF SelectionNext, Stop
<1> QED BY <1>1, <1>2, SelectionTyping, PTL DEF SelectionSpec

(* The compiled view of a run holds all its nodes need, however far, for   *)
(* any manifests and in any order of their maps.                           *)
THEOREM ProjectionsAreSelfContained == SelectionSpec => []ProjectionIsSelfContained
<1>1. ASSUME SelectionTypeOK, ProjectionInv, QueueIsDone PROVE ProjectionIsSelfContained
  BY <1>1 DEF SelectionTypeOK, ProjectionInv, QueueIsDone, BroughtIn, ProjectionIsSelfContained
<1> QED BY <1>1, SelectionTyping, ProjectionBuilt, PTL

(* A pass that has selected nothing so far has visited only names that     *)
(* cannot join; the loops only select what belongs to the closure.         *)
Unmoved(set) == ~changed => \A n \in set \ unvisited : n \in seen \/ req.stack.deps[n] \cap seen = {}

LoopInv ==
  /\ phase = "dependents" => /\ req.chained /\ req.root \in seen /\ seen \subseteq Reached(req)
                             /\ Unmoved(Names(req.stack))
  /\ phase = "holds" => seen = Reached(req)
  /\ phase = "recovery" => /\ req.chained /\ held = Held(req) /\ held # {}
                           /\ Reached(req) \cup held \subseteq seen /\ seen \subseteq Selected(req)
                           /\ unvisited \subseteq req.stack.services /\ Unmoved(req.stack.services)
  /\ phase \in {"check", "project", "selected"} => seen = Selected(req) /\ held = Held(req)
  /\ phase \in {"project", "selected"} => Accepted(req) /\ included \subseteq Projection(req)
  /\ phase = "rejected" => ~Accepted(req)

LEMMA LoopsSelect == SelectionSpec => []LoopInv
<1>1. ASSUME SelectionInit PROVE LoopInv
  <2>1. req \in Requests /\ (req.root \in req.stack.jobs => req.root \in Reached(req))
    BY <1>1, SelectionIs DEF SelectionInit
  <2>2. CASE phase = "rejected"
    BY <1>1, <2>2 DEF SelectionInit, LoopInv, Accepted
  <2>3. CASE phase = "dependents"
    BY <1>1, <2>1, <2>3 DEF SelectionInit, LoopInv, Unmoved
  <2>4. CASE phase = "holds"
    BY <1>1, <2>1, <2>4 DEF SelectionInit, LoopInv, Reached
  <2> QED BY <1>1, <2>2, <2>3, <2>4 DEF SelectionInit
<1>2. ASSUME SelectionTypeOK, RootIsJob, LoopInv, [SelectionNext]_selectionVars PROVE LoopInv'
  <2> DEFINE s == req.stack
  <2>1. /\ req \in Requests /\ unvisited \subseteq Names(s) /\ held \subseteq s.services
        /\ s.services \subseteq Names(s) /\ s.jobs \subseteq Names(s)
        /\ phase # "rejected" => req.root \in s.jobs /\ seen \subseteq Names(s)
    BY <1>2, Declared DEF SelectionTypeOK, RootIsJob
  <2>2. phase # "rejected" =>
          /\ req.root \in Reached(req) /\ Reached(req) \subseteq Names(s)
          /\ Reached(req) \cup Held(req) \subseteq Selected(req) /\ Selected(req) \subseteq Names(s)
    BY <2>1, SelectionIs
  <2>3. ASSUME NEW n \in Names(s), Visit(n) PROVE LoopInv'
    <3> DEFINE joins == n \notin seen /\ s.deps[n] \cap seen # {}
    <3>1. /\ n \in unvisited /\ unvisited' = unvisited \ {n} /\ seen' = IF joins THEN seen \cup {n} ELSE seen
          /\ changed' = (changed \/ joins) /\ UNCHANGED <<req, phase, held, included>>
          /\ phase \in {"dependents", "recovery"}
      BY <2>3 DEF Visit, Dependencies
    <3>3. CASE phase = "dependents"
      <4>2. Joins(s, Names(s), Reached(req))
        BY <1>2, <2>1, <3>3, ReachedIs DEF LoopInv
      <4>3. seen' \subseteq Reached(req)
        BY <1>2, <3>1, <3>3, <4>2 DEF LoopInv, Joins
      <4>4. Unmoved(Names(s))'
        BY <1>2, <3>1, <3>3 DEF LoopInv, Unmoved
      <4> QED BY <1>2, <3>1, <3>3, <4>3, <4>4 DEF LoopInv
    <3>4. CASE phase = "recovery"
      <4>2. Joins(s, s.services, Selected(req))
        BY <1>2, <2>1, <2>2, <3>4, SelectedIs DEF LoopInv
      <4>3. seen' \subseteq Selected(req)
        BY <1>2, <3>1, <3>4, <4>2 DEF LoopInv, Joins
      <4>4. Unmoved(s.services)'
        BY <1>2, <3>1, <3>4 DEF LoopInv, Unmoved
      <4> QED BY <1>2, <3>1, <3>4, <4>3, <4>4 DEF LoopInv
    <3> QED BY <3>1, <3>3, <3>4
  <2>4. CASE EndVisits
    <3>1. UNCHANGED <<req, seen, held, included>> /\ changed' = FALSE /\ phase \in {"dependents", "recovery"}
          /\ unvisited = {}
      BY <2>4 DEF EndVisits
    <3>2. CASE changed
      BY <1>2, <2>4, <3>2 DEF EndVisits, LoopInv, Unmoved
    <3>3. CASE ~changed /\ phase = "dependents"
      <4>1. Joins(s, Names(s), seen)
        BY <1>2, <3>1, <3>3 DEF LoopInv, Unmoved, Joins
      <4>3. Reached(req) \subseteq seen
        BY <1>2, <2>1, <3>3, <4>1, ReachedIs DEF LoopInv
      <4> QED BY <1>2, <2>4, <3>1, <3>3, <4>3 DEF EndVisits, LoopInv
    <3>4. CASE ~changed /\ phase = "recovery"
      <4>1. Joins(s, s.services, seen)
        BY <1>2, <3>1, <3>4 DEF LoopInv, Unmoved, Joins
      <4>2. /\ Reached(req) \cup Held(req) \subseteq seen /\ Reached(req) \cup Held(req) \subseteq Names(s)
            /\ req.chained /\ Held(req) # {}
        BY <1>2, <2>1, <2>2, <3>4 DEF LoopInv
      <4>3. Selected(req) \subseteq seen
        BY <2>1, <3>4, <4>1, <4>2, SelectedIs
      <4> QED BY <1>2, <2>4, <3>1, <3>4, <4>3 DEF EndVisits, LoopInv
    <3> QED BY <3>1, <3>2, <3>3, <3>4
  <2>5. CASE AddHolds
    <3>1. seen = Reached(req) /\ held' = Held(req) /\ seen' = Reached(req) \cup Held(req) /\ req' = req
      BY <1>2, <2>5 DEF AddHolds, LoopInv, Held
    <3>2. CASE req.chained /\ held' # {}
      <4>1. phase' = "recovery" /\ unvisited' = s.services
        BY <2>5, <3>2 DEF AddHolds
      <4> QED BY <2>2, <2>5, <3>1, <3>2, <4>1 DEF AddHolds, LoopInv, Unmoved
    <3>3. CASE ~(req.chained /\ held' # {})
      <4>1. phase' = "check"
        BY <2>5, <3>3 DEF AddHolds
      <4>2. Selected(req) = Reached(req) \cup Held(req)
        BY <3>1, <3>3 DEF Selected
      <4> QED BY <3>1, <4>1, <4>2 DEF LoopInv
    <3> QED BY <3>2, <3>3
  <2>6. CASE Check
    <3>1. seen = Selected(req) /\ held = Held(req) /\ UNCHANGED <<req, seen, held>> /\ req.root \in s.jobs
      BY <1>2, <2>1, <2>6 DEF Check, LoopInv
    <3>2. RequiresRecovery(seen) <=> NeedsRecovered(req)
      BY <3>1 DEF RequiresRecovery, NeedsRecovered, JobsOf, ServicesOf
    <3>3. CASE held # {} /\ RequiresRecovery(seen)
      BY <2>6, <3>1, <3>2, <3>3 DEF Check, LoopInv, Accepted
    <3>4. CASE ~(held # {} /\ RequiresRecovery(seen))
      <4>1. phase' = "project" /\ included' = seen
        BY <2>6, <3>4 DEF Check
      <4>2. Selected(req) \subseteq Projection(req)
        BY <2>1, <2>2, <2>6, ProjectionIs DEF Check
      <4> QED BY <3>1, <3>2, <3>4, <4>1, <4>2 DEF LoopInv, Accepted
    <3> QED BY <3>3, <3>4
  <2>7. ASSUME NEW n \in Names(s), Include(n) PROVE LoopInv'
    <3>1. included \subseteq Projection(req) /\ n \in included /\ phase = "project"
      BY <1>2, <2>7 DEF Include, LoopInv, SelectionTypeOK
    <3>2. NeedsAndHolds(s, Projection(req))
      BY <2>1, <2>2, <3>1, ProjectionIs
    <3>3. s.deps[n] \subseteq Projection(req) /\ (n \in s.jobs => s.holds[n] \subseteq Projection(req))
      BY <3>1, <3>2 DEF NeedsAndHolds
    <3>4. included' \subseteq Projection(req)
      BY <2>7, <3>1, <3>3 DEF Include, Dependencies
    <3> QED BY <1>2, <2>7, <3>1, <3>4 DEF Include, LoopInv
  <2>8. CASE Project
    BY <1>2, <2>8 DEF Project, LoopInv
  <2>9. CASE UNCHANGED selectionVars
    BY <1>2, <2>9 DEF selectionVars, LoopInv, Unmoved
  <2> QED BY <1>2, <2>3, <2>4, <2>5, <2>6, <2>7, <2>8, <2>9 DEF SelectionNext, Stop
<1> QED BY <1>1, <1>2, TypingAndRoot, PTL DEF SelectionSpec

(* Whatever order the maps are ranged over in, what comes out is the       *)
(* closure: the nodes, the verdict and the compiled view.                  *)
THEOREM OrderDoesNotMatter == SelectionSpec => []SelectionIsTheClosure
<1>1. ASSUME SelectionTypeOK, RootIsJob, ProjectionInv, QueueIsDone, LoopInv PROVE SelectionIsTheClosure
  <2>1. ASSUME phase = "selected" PROVE Projection(req) \subseteq included
    <3>1. /\ req \in Requests /\ req.root \in req.stack.jobs /\ seen = Selected(req)
          /\ included \in SUBSET Names(req.stack)
      BY <1>1, <2>1 DEF SelectionTypeOK, RootIsJob, LoopInv
    <3>2. seen \subseteq included /\ NeedsAndHolds(req.stack, included)
      BY <1>1, <2>1 DEF ProjectionInv, QueueIsDone, BroughtIn, NeedsAndHolds
    <3>3. Selected(req) \subseteq Names(req.stack)
      BY <3>1, SelectionIs
    <3> QED BY <3>1, <3>2, <3>3, ProjectionIs
  <2> QED BY <1>1, <2>1 DEF LoopInv, SelectionIsTheClosure
<1> QED BY <1>1, TypingAndRoot, ProjectionBuilt, LoopsSelect, PTL

(* Among any names there is one that depends on none of them.              *)
LEMMA SomeoneIsFirst ==
  ASSUME NEW r \in Requests, NEW U \in SUBSET Names(r.stack), U # {}
  PROVE  \E n \in U : r.stack.deps[n] \cap U = {}
<1> DEFINE s == r.stack
           Below == {Prerequisites(s, n) : n \in U}
<1>1. \A n \in U : Prerequisites(s, n) \subseteq Names(s)
  BY PrerequisitesAre
<1>2. Below \subseteq FiniteSubsetsOf(Names(s)) /\ Below # {}
  BY <1>1, Declared, FS_FiniteSubsetsOfFinite
<1>3. PICK P \in Below : \A Q \in Below : ~(<<Q, P>> \in StrictSubsetOrdering(Names(s)))
  BY <1>2, FS_StrictSubsetOrderingWellFounded, WFMin
<1>4. PICK n \in U : P = Prerequisites(s, n)
  BY <1>3
<1>5. ASSUME NEW m \in s.deps[n] \cap U PROVE FALSE
  <2>1. m \in P /\ Needs(s, P) /\ P \subseteq Names(s)
    BY <1>4, <1>5, PrerequisitesAre
  <2>2. Prerequisites(s, m) \subseteq P
    <3>1. s.deps[m] \subseteq P
      BY <2>1 DEF Needs
    <3> QED BY <1>5, <2>1, <3>1, PrerequisitesAre
  <2>3. m \notin Prerequisites(s, m)
    BY <1>5, RequestsAssumption DEF Acyclic
  <2>4. <<Prerequisites(s, m), P>> \in StrictSubsetOrdering(Names(s))
    BY <2>1, <2>2, <2>3 DEF StrictSubsetOrdering
  <2> QED BY <1>3, <1>5, <2>4
<1> QED BY <1>5

(* What a request that is accepted selects has an order to run in: whatever *)
(* is finished, something selected comes next, until all is.  In a run that *)
(* holds services every job comes before every service.                    *)
LEMMA SelectionHasAnOrder ==
  ASSUME NEW r \in Requests, Accepted(r), NEW finished \in SUBSET Selected(r), finished # Selected(r)
  PROVE  \E n \in Selected(r) \ finished :
           /\ r.stack.deps[n] \cap Selected(r) \subseteq finished
           /\ Held(r) # {} /\ n \in r.stack.services => Selected(r) \cap r.stack.jobs \subseteq finished
<1> DEFINE s == r.stack
           left == Selected(r) \ finished
<1>1. Selected(r) \subseteq Names(s) /\ left # {}
  BY SelectionIs DEF Accepted
<1>2. CASE Held(r) = {} \/ left \cap s.jobs = {}
  <2>1. PICK n \in left : s.deps[n] \cap left = {}
    BY <1>1, SomeoneIsFirst
  <2> QED BY <1>2, <2>1
<1>3. CASE Held(r) # {} /\ left \cap s.jobs # {}
  <2>1. PICK n \in left \cap s.jobs : s.deps[n] \cap (left \cap s.jobs) = {}
    <3> DEFINE U == left \cap s.jobs
    <3>1. U \in SUBSET Names(s) /\ U # {}
      BY <1>1, <1>3
    <3> HIDE DEF U
    <3>2. \E n \in U : s.deps[n] \cap U = {}
      BY <3>1, SomeoneIsFirst
    <3> QED BY <3>2 DEF U
  <2>2. s.deps[n] \subseteq Prerequisites(s, n)
    BY <1>1, <2>1, PrerequisitesAre
  <2>3. Prerequisites(s, n) \cap ServicesOf(r) = {}
    BY <1>3, <2>1 DEF Accepted, NeedsRecovered, JobsOf
  <2>4. s.deps[n] \cap Selected(r) \cap s.services = {}
    BY <2>2, <2>3 DEF ServicesOf
  <2>5. n \notin s.services /\ Selected(r) \subseteq s.jobs \cup s.services
    BY <1>1, <2>1, RequestsAssumption DEF Names
  <2> QED BY <2>1, <2>4, <2>5
<1> QED BY <1>2, <1>3

(* A run that is accepted has an order to run in, in any order of the maps. *)
THEOREM AcceptedRunsHaveAnOrder == SelectionSpec => []AcceptedRunsToTheEnd
<1>1. ASSUME SelectionTypeOK, LoopInv PROVE AcceptedRunsToTheEnd
  <2>1. ASSUME phase = "selected"
        PROVE  req \in Requests /\ seen = Selected(req) /\ held = Held(req) /\ Accepted(req)
    BY <1>1, <2>1 DEF SelectionTypeOK, LoopInv
  <2>2. ASSUME phase = "selected", NEW finished \in SUBSET seen, finished # seen
        PROVE  \E n \in seen \ finished :
                 /\ req.stack.deps[n] \cap seen \subseteq finished
                 /\ held # {} /\ n \in req.stack.services => seen \cap req.stack.jobs \subseteq finished
    BY <2>1, <2>2, SelectionHasAnOrder
  <2> QED BY <2>2 DEF AcceptedRunsToTheEnd
<1> QED BY <1>1, TypingAndRoot, LoopsSelect, PTL

-----------------------------------------------------------------------------
(* From a request to its run.                                              *)

(* The run JobRunStart hands to the executor: what is selected, with the    *)
(* dependencies of its nodes in the compiled view.                         *)
RunOf(r, isolated) ==
  [root |-> r.root, chained |-> r.chained, isolated |-> isolated,
   jobs |-> JobsOf(r), services |-> ServicesOf(r), held |-> Held(r),
   deps |-> [n \in NodeNames |-> IF n \in Selected(r) THEN r.stack.deps[n] ELSE {}]]

(* The run of every accepted request, isolated or not, is one JobRun       *)
(* assumes: it has the form RunsAssumption asks for and the order           *)
(* OrderAssumption asks for.  So what is proved of the execution holds of   *)
(* whatever the selection accepts.                                         *)
THEOREM AcceptedRunsAreRuns ==
  ASSUME NEW r \in Requests, Accepted(r), Names(r.stack) \subseteq NodeNames, NEW isolated \in BOOLEAN
  PROVE  LET q == RunOf(r, isolated) IN
         /\ q \in RunType
         /\ q.root \in q.jobs /\ q.jobs \cap q.services = {} /\ q.held \subseteq q.services
         /\ ~q.chained => q.services = q.held /\ q.jobs = {q.root}
         /\ \A finished \in SUBSET (q.jobs \cup q.services) :
              finished # q.jobs \cup q.services =>
                \E n \in (q.jobs \cup q.services) \ finished :
                  /\ q.deps[n] \cap (q.jobs \cup q.services) \subseteq finished
                  /\ q.held # {} /\ n \in q.services => q.jobs \subseteq finished
<1> DEFINE s == r.stack
           D == [n \in NodeNames |-> IF n \in Selected(r) THEN s.deps[n] ELSE {}]
           q == RunOf(r, isolated)
<1>1. r.root \in s.jobs /\ r.chained \in BOOLEAN /\ s.jobs \cap s.services = {}
  BY RequestsAssumption DEF Accepted
<1>2. /\ r.root \in Reached(r) /\ Reached(r) \cup Held(r) \subseteq Selected(r)
      /\ Selected(r) \subseteq Names(s)
  BY <1>1, SelectionIs
<1>3. Held(r) \subseteq s.services
  BY HoldsAreServices DEF Held
<1>4. /\ JobsOf(r) \cup ServicesOf(r) = Selected(r) /\ JobsOf(r) \cap ServicesOf(r) = {}
      /\ r.root \in JobsOf(r) /\ Held(r) \subseteq ServicesOf(r)
  BY <1>1, <1>2, <1>3 DEF JobsOf, ServicesOf, Names
<1>5. D \in [NodeNames -> SUBSET NodeNames] /\ \A n \in Selected(r) : D[n] = s.deps[n]
  <2>1. \A n \in Selected(r) : n \in NodeNames /\ s.deps[n] \subseteq NodeNames
    BY <1>2, Declared
  <2> QED BY <2>1
<1>6. ASSUME ~r.chained PROVE ServicesOf(r) = Held(r) /\ JobsOf(r) = {r.root}
  <2>1. Selected(r) = {r.root} \cup Held(r)
    BY <1>6 DEF Selected, Reached
  <2> QED BY <1>1, <1>3, <2>1 DEF JobsOf, ServicesOf
<1>7. q = [root |-> r.root, chained |-> r.chained, isolated |-> isolated,
           jobs |-> JobsOf(r), services |-> ServicesOf(r), held |-> Held(r), deps |-> D]
  BY DEF RunOf
<1> HIDE DEF D, q
<1>8. /\ q.root = r.root /\ q.chained = r.chained /\ q.jobs = JobsOf(r)
      /\ q.services = ServicesOf(r) /\ q.held = Held(r) /\ q.deps = D
  BY <1>7
<1>9. q \in RunType
  <2>1. Selected(r) \subseteq NodeNames
    BY <1>2
  <2> QED BY <1>1, <1>4, <1>5, <1>7, <2>1 DEF RunType
<1>10. ASSUME NEW finished \in SUBSET Selected(r), finished # Selected(r)
       PROVE  \E n \in Selected(r) \ finished :
                /\ D[n] \cap Selected(r) \subseteq finished
                /\ Held(r) # {} /\ n \in ServicesOf(r) => JobsOf(r) \subseteq finished
  <2>1. PICK n \in Selected(r) \ finished :
          /\ s.deps[n] \cap Selected(r) \subseteq finished
          /\ Held(r) # {} /\ n \in s.services => Selected(r) \cap s.jobs \subseteq finished
    BY <1>10, SelectionHasAnOrder
  <2> QED BY <1>5, <2>1 DEF JobsOf, ServicesOf
<1>11. /\ q.root \in q.jobs /\ q.jobs \cap q.services = {} /\ q.held \subseteq q.services
       /\ ~q.chained => q.services = q.held /\ q.jobs = {q.root}
  BY <1>4, <1>6, <1>8
<1>12. \A finished \in SUBSET (q.jobs \cup q.services) :
         finished # q.jobs \cup q.services =>
           \E n \in (q.jobs \cup q.services) \ finished :
             /\ q.deps[n] \cap (q.jobs \cup q.services) \subseteq finished
             /\ q.held # {} /\ n \in q.services => q.jobs \subseteq finished
  BY <1>4, <1>8, <1>10
<1> QED BY <1>9, <1>11, <1>12 DEF q

-----------------------------------------------------------------------------
(* The execution of one run.                                               *)

-----------------------------------------------------------------------------
(* The invariant, in parts.                                                  *)

RunInv == run \in Runs

PcType == pc \in PCs
CauseType == cause \in Causes
StatusType == opStatus \in {Pending, Running, Succeeded, Failed}
RestType == ctx \in {"live", "canceled", "expired"} /\ progressed \in BOOLEAN

(* What is held is all that is stopped, and resumed, restored or undone.      *)
SetType ==
  /\ todo \subseteq Nodes /\ current \in Nodes
  /\ done \subseteq Nodes /\ failed \subseteq Nodes
  /\ stopped \subseteq run.held /\ resuming \subseteq run.held
  /\ pc \in {"holding", "restoring", "undoing"} => todo \subseteq run.held

NodeStatus == {Pending, Running} \cup Terminal
NodeType == node \in [Nodes -> NodeStatus]
DiskType == disk.status \in {Pending, Running, Succeeded, Failed}
              /\ disk.node \in [Nodes -> NodeStatus] /\ disk = Receipt(disk.status, disk.node)

WorldType ==
  /\ svc \in [run.services -> {"running", "stopped"}]
  /\ cmd \in [run.jobs -> {"idle", "running", "ok", "failed"}]

(* Where the node graph is walked, and where one of its nodes is under way.   *)
InGraph == pc \in {"scanning", "visiting", "calling", "waiting"}
UnderWay == pc \in {"calling", "waiting"}
Starting == pc \in {"starting", "holding"}

(* What is left to do is counted right: the loop ends when all is settled.    *)
CountInv ==
  /\ remaining \in Nat
  /\ InGraph => remaining = Cardinality(Nodes \ Settled)
  /\ UnderWay => current \notin Settled

(* What the executor believes of jobs is what became of their commands.       *)
CommandInv ==
  /\ \A j \in run.jobs : j \in done <=> cmd[j] = "ok"
  /\ \A j \in run.jobs : cmd[j] = "running" => pc = "dead" \/ (pc = "waiting" /\ j = current)

(* Nothing is settled before the graph is walked, but what is held; a run     *)
(* without chaining has then settled all it holds.                            *)
SettledInv ==
  /\ Starting => /\ done \subseteq stopped /\ failed \subseteq run.held /\ resuming = {}
                 /\ run.chained => done = {}
                 /\ \A s \in stopped : svc[s] = "stopped"
  /\ pc = "starting" => done = {} /\ failed = {} /\ stopped = {}
  /\ pc = "holding" => todo \cap stopped = {} /\ \A s \in run.held \ todo :
       s \in failed \/ (s \in stopped /\ (~run.chained => s \in done))
  /\ InGraph => run.held \subseteq stopped /\ (~run.chained => run.held \subseteq done)

(* What is under way has all it needs: what it depends on is done, and every  *)
(* job if it is a service of a held run.                                      *)
ReadyInv ==
  UnderWay => /\ run.deps[current] \cap Nodes \subseteq done
              /\ Recovers(current) => run.jobs \subseteq done

(* A service is up once it is recovered, and what is held is down until the   *)
(* last command has succeeded.                                                *)
HoldInv ==
  /\ HoldsCoverCommands
  /\ InGraph => /\ \A s \in run.services \cap done :
                     svc[s] = IF run.chained THEN "running" ELSE "stopped"
                /\ \A s \in run.held : svc[s] = "stopped" \/ run.jobs \subseteq done

(* A service that was stopped is down unless the run has begun to resume it;  *)
(* unwinding takes those down again.                                          *)
RestoreInv ==
  /\ Starting \/ InGraph => cause = "none" /\ \A s \in stopped \ resuming : svc[s] = "stopped"
  /\ Restoring => \A s \in stopped : svc[s] = "stopped" \/ node[s] = Failed \/ s \in todo
  /\ Restoring \/ pc = "retrying" => cause # "none"
  /\ ErrorsRestoreHolds

(* Only what is done is called succeeded, and a run without an error has done *)
(* all it selected.                                                           *)
BeliefInv ==
  /\ \A n \in Nodes : node[n] = Succeeded \/ disk.node[n] = Succeeded => n \in done
  /\ pc = "holding" \/ InGraph => \A n \in done : node[n] = Succeeded
  /\ pc \in {"returned", "publishing"} /\ cause = "none" =>
       /\ \A n \in Nodes : node[n] = Succeeded
       /\ \A s \in run.services : svc[s] = IF run.chained THEN "running" ELSE "stopped"

(* The durable outcome is settled once, and is what is published.             *)
OutcomeInv ==
  /\ Alive => opStatus \notin Terminal
  /\ disk.status \in Terminal => ~Alive \/ pc = "publishing"
  /\ disk.status \in Terminal => \A n \in Nodes : disk.node[n] \in Terminal
  /\ disk.status = Succeeded =>
       /\ \A n \in Nodes : disk.node[n] = Succeeded
       /\ \A s \in run.services : svc[s] = IF run.chained THEN "running" ELSE "stopped"
  /\ pc = "publishing" => IF disk.status \in Terminal
                          THEN disk.status = Succeeded <=> cause = "none"
                          ELSE cause # "none"
  /\ pc = "published" => opStatus \in Terminal /\ disk.status \in {opStatus, Pending, Running}
                           /\ (disk.status \in Terminal \/ opStatus = Failed)

(* What a pass without progress has left behind can neither run nor fail.     *)
ProgressInv ==
  /\ cause # "no progress"
  /\ pc = "visiting" /\ ~progressed =>
       /\ Nodes # Settled
       /\ \A n \in Nodes \ (todo \cup Settled) : ~MustBlock(n) /\ ~Ready(n)

TypeInv == /\ RunInv /\ PcType /\ CauseType /\ StatusType /\ RestType
           /\ SetType /\ NodeType /\ DiskType /\ WorldType
IInv == /\ TypeInv /\ CountInv /\ CommandInv /\ SettledInv /\ ReadyInv /\ HoldInv
        /\ RestoreInv /\ BeliefInv /\ OutcomeInv /\ ProgressInv

-----------------------------------------------------------------------------
(* The steps of the executor's phases, and those around it.                   *)
HoldingStep ==
  \/ Begin \/ HoldsFailed
  \/ \E n \in Nodes : HoldStops(n) \/ HoldFails(n)
  \/ \E saved \in BOOLEAN : HoldsInForce(saved)
PassStep ==
  \/ StartPass \/ ContextEnds \/ EndPass \/ EndGraph
  \/ \E n \in Nodes : Skip(n) \/ Block(n)
  \/ \E n \in Nodes, saved \in BOOLEAN : Dispatch(n, saved)
CallStep ==
  \/ CallJob \/ CallService \/ FailRecovery \/ FailRoot
  \/ \E saved \in BOOLEAN : Succeed(saved) \/ Fail(saved)
EndStep ==
  \/ EndRestore \/ EndUndo \/ Publish
  \/ \E n \in Nodes : RestoreStops(n) \/ RestoreFails(n)
  \/ \E saved \in BOOLEAN : Complete(saved) \/ Retry(saved)
OtherStep == EndContext \/ Crash \/ Recover \/ UNCHANGED vars

LEMMA Steps == [Next]_vars => HoldingStep \/ PassStep \/ CallStep \/ EndStep \/ OtherStep
  BY DEF Next, Executor, HoldingStep, PassStep, CallStep, EndStep, OtherStep

-----------------------------------------------------------------------------
(* Types.                                                                     *)

(* What the assumptions say of the run.                                       *)
LEMMA RunFacts ==
  ASSUME RunInv
  PROVE  /\ run \in RunType /\ run.root \in run.jobs
         /\ run.jobs \cap run.services = {}
         /\ run.held \subseteq run.services
         /\ ~run.chained => run.services = run.held /\ run.jobs = {run.root}
  BY RunsAssumption DEF RunInv

LEMMA NodesAreFinite == ASSUME RunInv PROVE IsFiniteSet(Nodes)
<1>1. Nodes \subseteq NodeNames
  BY RunFacts DEF Nodes, RunType
<1> QED BY <1>1, NamesAssumption, FS_Subset

LEMMA RunFrame == [Next]_vars => run' = run
  BY Steps DEF HoldingStep, PassStep, CallStep, EndStep, OtherStep, Begin, HoldStops, HoldFails,
     HoldsFailed, HoldsInForce, StartPass, ContextEnds, EndPass, EndGraph, Skip, Block, Dispatch,
     CallJob, CallService, Succeed, Fail, FailRecovery, FailRoot, RestoreStops, RestoreFails,
     EndRestore, Complete, EndUndo, Retry, Publish, EndContext, Crash, Recover, vars

(* No step changes the run.                                                  *)
LEMMA RunStep ==
  ASSUME RunInv, [Next]_vars
  PROVE  RunInv'
  BY RunFrame DEF RunInv

(* The executor's place.                                                     *)
LEMMA PcStep ==
  ASSUME PcType, [Next]_vars
  PROVE  PcType'
<1>0. PcType
  OBVIOUS
<1> USE DEF memory, graph, world, PcType, PCs, Unwind
<1>1. CASE HoldingStep
  BY <1>0, <1>1 DEF HoldingStep, Begin, HoldsFailed, HoldStops, HoldFails,
         HoldsInForce
<1>2. CASE PassStep
  BY <1>0, <1>2 DEF PassStep, StartPass, ContextEnds, EndPass, EndGraph, Skip,
         Block, Dispatch
<1>3. CASE CallStep
  BY <1>0, <1>3 DEF CallStep, CallJob, CallService, FailRecovery, FailRoot,
         Succeed, Fail, Advance
<1>4. CASE EndStep
  BY <1>0, <1>4 DEF EndStep, EndRestore, EndUndo, Publish, RestoreStops,
         RestoreFails, Complete, Retry
<1>5. CASE OtherStep
  BY <1>0, <1>5 DEF OtherStep, EndContext, Crash, Recover, vars
<1> QED BY <1>1, <1>2, <1>3, <1>4, <1>5, Steps

(* What went wrong.                                                          *)
LEMMA CauseStep ==
  ASSUME CauseType, [Next]_vars
  PROVE  CauseType'
<1>0. CauseType
  OBVIOUS
<1> USE DEF memory, graph, world, CauseType, Causes, Unwind
<1>1. CASE HoldingStep
  BY <1>0, <1>1 DEF HoldingStep, Begin, HoldsFailed, HoldStops, HoldFails,
         HoldsInForce
<1>2. CASE PassStep
  BY <1>0, <1>2 DEF PassStep, StartPass, ContextEnds, EndPass, EndGraph, Skip,
         Block, Dispatch
<1>3. CASE CallStep
  BY <1>0, <1>3 DEF CallStep, CallJob, CallService, FailRecovery, FailRoot,
         Succeed, Fail, Advance
<1>4. CASE EndStep
  BY <1>0, <1>4 DEF EndStep, EndRestore, EndUndo, Publish, RestoreStops,
         RestoreFails, Complete, Retry
<1>5. CASE OtherStep
  BY <1>0, <1>5 DEF OtherStep, EndContext, Crash, Recover, vars
<1> QED BY <1>1, <1>2, <1>3, <1>4, <1>5, Steps

(* The status in memory.                                                     *)
LEMMA StatusStep ==
  ASSUME StatusType, [Next]_vars
  PROVE  StatusType'
<1>0. StatusType
  OBVIOUS
<1> USE DEF memory, graph, world, StatusType, Completed, Receipt
<1>1. CASE HoldingStep
  BY <1>0, <1>1 DEF HoldingStep, Begin, HoldsFailed, HoldStops, HoldFails,
         HoldsInForce
<1>2. CASE PassStep
  BY <1>0, <1>2 DEF PassStep, StartPass, ContextEnds, EndPass, EndGraph, Skip,
         Block, Dispatch
<1>3. CASE CallStep
  BY <1>0, <1>3 DEF CallStep, CallJob, CallService, FailRecovery, FailRoot,
         Succeed, Fail, Advance
<1>4. CASE EndStep
  BY <1>0, <1>4 DEF EndStep, EndRestore, EndUndo, Publish, RestoreStops,
         RestoreFails, Complete, Retry
<1>5. CASE OtherStep
  BY <1>0, <1>5 DEF OtherStep, EndContext, Crash, Recover, vars
<1> QED BY <1>1, <1>2, <1>3, <1>4, <1>5, Steps

(* The context and the pass.                                                 *)
LEMMA RestStep ==
  ASSUME RestType, [Next]_vars
  PROVE  RestType'
<1>0. RestType
  OBVIOUS
<1> USE DEF memory, graph, world, RestType
<1>1. CASE HoldingStep
  BY <1>0, <1>1 DEF HoldingStep, Begin, HoldsFailed, HoldStops, HoldFails,
         HoldsInForce
<1>2. CASE PassStep
  BY <1>0, <1>2 DEF PassStep, StartPass, ContextEnds, EndPass, EndGraph, Skip,
         Block, Dispatch
<1>3. CASE CallStep
  BY <1>0, <1>3 DEF CallStep, CallJob, CallService, FailRecovery, FailRoot,
         Succeed, Fail, Advance
<1>4. CASE EndStep
  BY <1>0, <1>4 DEF EndStep, EndRestore, EndUndo, Publish, RestoreStops,
         RestoreFails, Complete, Retry
<1>5. CASE OtherStep
  BY <1>0, <1>5 DEF OtherStep, EndContext, Crash, Recover, vars
<1> QED BY <1>1, <1>2, <1>3, <1>4, <1>5, Steps

(* The executor's sets.                                                      *)
LEMMA SetStep ==
  ASSUME SetType, RunInv, [Next]_vars
  PROVE  SetType'
<1>0. SetType
  OBVIOUS
<1>a. run.held \subseteq run.services /\ run.root \in run.jobs
  BY RunFacts
<1> USE DEF memory, graph, world, SetType, Nodes, Unwind, Settled, Restoring
<1>1. CASE HoldingStep
  <2>1. CASE Begin
    <3>1. run' = run /\ UNCHANGED <<current, graph>> /\ pc' \in {"holding", "restoring"}
      BY <2>1 DEF Begin, Unwind, graph
    <3>2. todo' = run.held \/ todo' = resuming
      BY <2>1 DEF Begin, Unwind, graph
    <3> QED BY <1>0, <1>a, <3>1, <3>2 DEF SetType, Nodes, graph
  <2>2. ASSUME NEW n \in Nodes, HoldStops(n) PROVE SetType'
    <3>1. n \in run.held /\ todo' \subseteq todo /\ run' = run /\ pc' = pc /\ stopped' = stopped \cup {n}
      BY <1>0, <2>2 DEF HoldStops, IsNext, SetType
    <3>2. done' \subseteq done \cup {n}
      BY <2>2 DEF HoldStops
    <3> QED BY <1>0, <2>2, <3>1, <3>2 DEF HoldStops, SetType, Nodes
  <2>3. ASSUME NEW n \in Nodes, HoldFails(n) PROVE SetType'
      BY <1>0, <1>a, <2>3 DEF HoldFails
  <2>4. CASE HoldsFailed
      BY <1>0, <1>a, <2>4 DEF HoldsFailed
  <2>5. ASSUME NEW saved \in BOOLEAN, HoldsInForce(saved) PROVE SetType'
      BY <1>0, <1>a, <2>5 DEF HoldsInForce
  <2> QED BY <1>1, <2>1, <2>2, <2>3, <2>4, <2>5 DEF HoldingStep
<1>2. CASE PassStep
  BY <1>0, <1>a, <1>2 DEF PassStep, StartPass, ContextEnds, EndPass, EndGraph,
         Skip, Block, Dispatch
<1>3. CASE CallStep
  BY <1>0, <1>a, <1>3 DEF CallStep, CallJob, CallService, FailRecovery,
         FailRoot, Succeed, Fail, Advance
<1>4. CASE EndStep
  BY <1>0, <1>a, <1>4 DEF EndStep, EndRestore, EndUndo, Publish, RestoreStops,
         RestoreFails, Complete, Retry
<1>5. CASE OtherStep
  BY <1>0, <1>a, <1>5 DEF OtherStep, EndContext, Crash, Recover, vars
<1> QED BY <1>1, <1>2, <1>3, <1>4, <1>5, Steps

(* The nodes in memory.                                                      *)
LEMMA NodeStep ==
  ASSUME NodeType, [Next]_vars
  PROVE  NodeType'
<1>0. NodeType
  OBVIOUS
<1> USE DEF memory, graph, world, NodeType, NodeStatus, Nodes, Completed,
            CompletedNodes, Receipt, Terminal, Pending, Running, Succeeded,
            Failed, Blocked, Settled
<1>1. CASE HoldingStep
  BY <1>0, <1>1 DEF HoldingStep, Begin, HoldsFailed, HoldStops, HoldFails,
         HoldsInForce
<1>2. CASE PassStep
  BY <1>0, <1>2 DEF PassStep, StartPass, ContextEnds, EndPass, EndGraph, Skip,
         Block, Dispatch
<1>3. CASE CallStep
  BY <1>0, <1>3 DEF CallStep, CallJob, CallService, FailRecovery, FailRoot,
         Succeed, Fail, Advance
<1>4. CASE EndStep
  BY <1>0, <1>4 DEF EndStep, EndRestore, EndUndo, Publish, RestoreStops,
         RestoreFails, Complete, Retry
<1>5. CASE OtherStep
  BY <1>0, <1>5 DEF OtherStep, EndContext, Crash, Recover, vars
<1> QED BY <1>1, <1>2, <1>3, <1>4, <1>5, Steps

(* What a run that ended is completed to.                                     *)
LEMMA CompletedType ==
  ASSUME NodeType, NEW c
  PROVE  /\ Completed(c) = Receipt(Completed(c).status, Completed(c).node)
         /\ Completed(c).status = (IF c = "none" THEN Succeeded ELSE Failed)
         /\ Completed(c).node = CompletedNodes(c)
         /\ CompletedNodes(c) \in [Nodes -> NodeStatus]
  BY DEF NodeType, NodeStatus, Completed, CompletedNodes, Receipt, Terminal, Pending,
         Running, Succeeded, Failed, Blocked

(* What is written is a receipt.                                              *)
LEMMA WriteType ==
  ASSUME DiskType, NEW saved \in BOOLEAN, NEW status \in {Pending, Running, Succeeded, Failed},
         NEW nodes \in [Nodes -> NodeStatus], Write(saved, Receipt(status, nodes)), run' = run
  PROVE  DiskType'
  BY DEF DiskType, Write, Receipt, Nodes

(* The commands and services.                                                *)
LEMMA WorldStep ==
  ASSUME WorldType, [Next]_vars
  PROVE  WorldType'
<1>0. WorldType
  OBVIOUS
<1> USE DEF memory, graph, world, WorldType
<1>1. CASE HoldingStep
  BY <1>0, <1>1 DEF HoldingStep, Begin, HoldsFailed, HoldStops, HoldFails,
         HoldsInForce
<1>2. CASE PassStep
  BY <1>0, <1>2 DEF PassStep, StartPass, ContextEnds, EndPass, EndGraph, Skip,
         Block, Dispatch
<1>3. CASE CallStep
  BY <1>0, <1>3 DEF CallStep, CallJob, CallService, FailRecovery, FailRoot,
         Succeed, Fail, Advance
<1>4. CASE EndStep
  BY <1>0, <1>4 DEF EndStep, EndRestore, EndUndo, Publish, RestoreStops,
         RestoreFails, Complete, Retry
<1>5. CASE OtherStep
  BY <1>0, <1>5 DEF OtherStep, EndContext, Crash, Recover, vars
<1> QED BY <1>1, <1>2, <1>3, <1>4, <1>5, Steps

(* The receipt on disk.                                                      *)
LEMMA DiskStep ==
  ASSUME DiskType, NodeType, StatusType, RunInv, [Next]_vars
  PROVE  DiskType'
<1>0. DiskType /\ StatusType /\ NodeType
  OBVIOUS
<1>a. StatusType' /\ NodeType' /\ run' = run
  BY StatusStep, NodeStep, RunFrame
<1> USE DEF memory, graph, world, DiskType, StatusType, NodeType, Write,
            Receipt, Nodes
<1>1. CASE HoldingStep
  BY <1>0, <1>a, <1>1 DEF HoldingStep, Begin, HoldsFailed, HoldStops,
         HoldFails, HoldsInForce
<1>2. CASE PassStep
  <2>1. CASE StartPass
      BY <1>0, <1>a, <2>1 DEF StartPass
  <2>2. CASE ContextEnds
      BY <1>0, <1>a, <2>2 DEF ContextEnds
  <2>3. CASE EndPass
      BY <1>0, <1>a, <2>3 DEF EndPass
  <2>4. CASE EndGraph
      BY <1>0, <1>a, <2>4 DEF EndGraph
  <2>5. ASSUME NEW n \in Nodes, Skip(n) PROVE DiskType'
      BY <1>0, <1>a, <2>5 DEF Skip
  <2>6. ASSUME NEW n \in Nodes, Block(n) PROVE DiskType'
      BY <1>0, <1>a, <2>6 DEF Block
  <2>7. ASSUME NEW n \in Nodes, NEW saved \in BOOLEAN, Dispatch(n, saved) PROVE DiskType'
      BY <1>0, <1>a, <2>7 DEF Dispatch
  <2> QED BY <1>2, <2>1, <2>2, <2>3, <2>4, <2>5, <2>6, <2>7 DEF PassStep
<1>3. CASE CallStep
  <2>1. CASE CallJob
      BY <1>0, <1>a, <2>1 DEF CallJob
  <2>2. CASE CallService
      BY <1>0, <1>a, <2>2 DEF CallService
  <2>3. CASE FailRecovery
      BY <1>0, <1>a, <2>3 DEF FailRecovery
  <2>4. CASE FailRoot
      BY <1>0, <1>a, <2>4 DEF FailRoot
  <2>5. ASSUME NEW saved \in BOOLEAN, Succeed(saved) PROVE DiskType'
      BY <1>0, <1>a, <2>5 DEF Succeed, Advance
  <2>6. ASSUME NEW saved \in BOOLEAN, Fail(saved) PROVE DiskType'
      BY <1>0, <1>a, <2>6 DEF Fail, Advance
  <2> QED BY <1>3, <2>1, <2>2, <2>3, <2>4, <2>5, <2>6 DEF CallStep
<1>4. CASE EndStep
  <2>1. CASE EndRestore
      BY <1>0, <1>a, <2>1 DEF EndRestore
  <2>2. CASE EndUndo
      BY <1>0, <1>a, <2>2 DEF EndUndo
  <2>3. CASE Publish
      BY <1>0, <1>a, <2>3 DEF Publish
  <2>4. ASSUME NEW n \in Nodes, RestoreStops(n) PROVE DiskType'
      BY <1>0, <1>a, <2>4 DEF RestoreStops
  <2>5. ASSUME NEW n \in Nodes, RestoreFails(n) PROVE DiskType'
      BY <1>0, <1>a, <2>5 DEF RestoreFails
  <2>6. ASSUME NEW saved \in BOOLEAN, Complete(saved) PROVE DiskType'
      BY <1>0, <1>a, <2>6, CompletedType DEF Complete
  <2>7. ASSUME NEW saved \in BOOLEAN, Retry(saved) PROVE DiskType'
      BY <1>0, <1>a, <2>7, CompletedType DEF Retry
  <2> QED BY <1>4, <2>1, <2>2, <2>3, <2>4, <2>5, <2>6, <2>7 DEF EndStep
<1>5. CASE OtherStep
  <2>1. CASE EndContext
      BY <1>0, <1>a, <2>1 DEF EndContext
  <2>2. CASE Crash
      BY <1>0, <1>a, <2>2 DEF Crash
  <2>3. CASE Recover
    <3> DEFINE ended == [n \in Nodes |-> IF disk.node[n] \in {Pending, Running}
                                        THEN Failed ELSE disk.node[n]]
    <3>1. disk' = Receipt(Failed, ended)
      BY <2>3 DEF Recover
    <3>2. ended \in [Nodes -> NodeStatus]
      BY <1>0 DEF DiskType, NodeStatus, Terminal
    <3>3. Failed \in {Pending, Running, Succeeded, Failed}
      OBVIOUS
    <3> HIDE DEF ended
    <3> QED BY <1>a, <3>1, <3>2, <3>3 DEF DiskType, Receipt, Nodes
  <2>4. CASE UNCHANGED vars
      BY <1>0, <1>a, <2>4 DEF vars
  <2> QED BY <1>5, <2>1, <2>2, <2>3, <2>4 DEF OtherStep
<1> QED BY <1>1, <1>2, <1>3, <1>4, <1>5, Steps

(* A node is completed as succeeded only if it was.                            *)
LEMMA CompletedSucceeds ==
  ASSUME NodeType, NEW c, NEW n \in Nodes
  PROVE  Completed(c).node[n] = Succeeded <=> node[n] = Succeeded
  BY DEF NodeType, NodeStatus, Completed, CompletedNodes, Receipt, Terminal, Pending,
         Running, Succeeded, Failed, Blocked

(* The type invariant's parts are kept together.                              *)
LEMMA TypeStep ==
  ASSUME TypeInv, [Next]_vars
  PROVE  TypeInv'
  BY RunStep, PcStep, CauseStep, StatusStep, RestStep, SetStep, NodeStep, DiskStep, WorldStep
  DEF TypeInv

-----------------------------------------------------------------------------
(* Counting.                                                                  *)

(* One node fewer is left when one is settled, and none when all are.         *)
LEMMA Counting ==
  ASSUME RunInv, NEW S \in SUBSET Nodes
  PROVE  /\ Cardinality(Nodes \ S) \in Nat
         /\ Cardinality(Nodes \ S) = 0 <=> S = Nodes
         /\ Cardinality(Nodes \ S) = Cardinality(Nodes) - Cardinality(S)
         /\ \A n \in Nodes \ S : Cardinality(Nodes \ (S \cup {n})) = Cardinality(Nodes \ S) - 1
<1>1. IsFiniteSet(Nodes)
  BY NodesAreFinite
<1>2. IsFiniteSet(Nodes \ S) /\ Cardinality(Nodes \ S) = Cardinality(Nodes) - Cardinality(S)
  <2>1. Nodes \cap S = S
    OBVIOUS
  <2> QED BY <1>1, <2>1, FS_Difference
<1>3. Cardinality(Nodes \ S) \in Nat
  BY <1>2, FS_CardinalityType
<1>4. Cardinality(Nodes \ S) = 0 <=> S = Nodes
  <2>1. Nodes \ S = {} <=> S = Nodes
    OBVIOUS
  <2> QED BY <1>2, <2>1, FS_EmptySet
<1>5. ASSUME NEW n \in Nodes \ S
      PROVE  Cardinality(Nodes \ (S \cup {n})) = Cardinality(Nodes \ S) - 1
  <2>1. Nodes \ (S \cup {n}) = (Nodes \ S) \ {n}
    OBVIOUS
  <2> QED BY <1>2, <2>1, FS_RemoveElement
<1> QED BY <1>2, <1>3, <1>4, <1>5

(* An outcome's step counts the node it settles.                              *)
LEMMA AdvanceCounts ==
  ASSUME CountInv, RunInv, pc = "waiting", current \in Nodes \ Settled, Nodes' = Nodes,
         Settled \in SUBSET Nodes, Settled' = Settled \cup {current},
         NEW saved \in BOOLEAN, Advance(saved)
  PROVE  CountInv'
<1>1. /\ Cardinality(Nodes \ (Settled \cup {current})) = Cardinality(Nodes \ Settled) - 1
      /\ Cardinality(Nodes \ (Settled \cup {current})) \in Nat
  BY Counting
<1>2. remaining \in Nat /\ remaining = Cardinality(Nodes \ Settled)
  BY DEF CountInv, InGraph
<1>3. CASE saved
  BY <1>1, <1>2, <1>3 DEF Advance, CountInv, InGraph, UnderWay
<1>4. CASE ~saved
  BY <1>2, <1>4 DEF Advance, Unwind, CountInv, InGraph, UnderWay
<1> QED BY <1>3, <1>4

(* The loop's count.                                                         *)
LEMMA CountStep ==
  ASSUME CountInv, RunInv, SetType, [Next]_vars
  PROVE  CountInv'
<1>0. CountInv /\ RunInv /\ SetType
  OBVIOUS
<1>a. Nodes' = Nodes
  BY RunFrame DEF Nodes
<1>b. Settled \in SUBSET Nodes
  BY <1>0 DEF SetType, Settled
<1> USE DEF memory, graph, world, CountInv, InGraph, UnderWay, Settled,
            Nodes, Unwind
<1>1. CASE HoldingStep
  <2>1. CASE Begin
      BY <1>0, <2>1 DEF Begin
  <2>2. ASSUME NEW n \in Nodes, HoldStops(n) PROVE CountInv'
      BY <1>0, <2>2 DEF HoldStops
  <2>3. ASSUME NEW n \in Nodes, HoldFails(n) PROVE CountInv'
      BY <1>0, <2>3 DEF HoldFails
  <2>4. CASE HoldsFailed
      BY <1>0, <2>4 DEF HoldsFailed
  <2>5. ASSUME NEW saved \in BOOLEAN, HoldsInForce(saved) PROVE CountInv'
    <3>1. Settled = done /\ done \in SUBSET Nodes
      BY <1>b, <2>5 DEF HoldsInForce, Settled
    <3>2. Cardinality(Nodes \ Settled) = Cardinality(Nodes) - Cardinality(done)
          /\ Cardinality(Nodes \ Settled) \in Nat
      BY <1>0, <3>1, Counting
    <3>3. CASE saved
      <4>1. /\ pc' = "scanning" /\ done' = done /\ failed' = failed
            /\ remaining' = Cardinality(Nodes) - Cardinality(done)
        BY <2>5, <3>3 DEF HoldsInForce
      <4> QED BY <1>a, <3>2, <4>1 DEF CountInv, InGraph, UnderWay, Settled
    <3>4. CASE ~saved
      BY <1>0, <2>5, <3>4 DEF HoldsInForce, Unwind, graph, CountInv, InGraph, UnderWay
    <3> QED BY <3>3, <3>4
  <2> QED BY <1>1, <2>1, <2>2, <2>3, <2>4, <2>5 DEF HoldingStep
<1>2. CASE PassStep
  <2>1. CASE StartPass
      BY <1>0, <2>1 DEF StartPass
  <2>2. CASE ContextEnds
      BY <1>0, <2>2 DEF ContextEnds
  <2>3. CASE EndPass
      BY <1>0, <2>3 DEF EndPass
  <2>4. CASE EndGraph
      BY <1>0, <2>4 DEF EndGraph
  <2>5. ASSUME NEW n \in Nodes, Skip(n) PROVE CountInv'
      BY <1>0, <2>5 DEF Skip
  <2>6. ASSUME NEW n \in Nodes, Block(n) PROVE CountInv'
    <3>1. n \in Nodes \ Settled /\ pc = "visiting" /\ pc' = pc
          /\ remaining' = remaining - 1 /\ done' = done /\ failed' = failed \cup {n}
      BY <2>6 DEF Block, Visiting
    <3>2. Settled' = Settled \cup {n}
      BY <3>1 DEF Settled
    <3>3. Cardinality(Nodes \ (Settled \cup {n})) = Cardinality(Nodes \ Settled) - 1
          /\ Cardinality(Nodes \ (Settled \cup {n})) \in Nat
      <4> HIDE DEF Settled, Nodes
      <4> QED BY <1>0, <1>b, <3>1, Counting
    <3> QED BY <1>0, <1>a, <3>1, <3>2, <3>3 DEF CountInv, InGraph, UnderWay
  <2>7. ASSUME NEW n \in Nodes, NEW saved \in BOOLEAN, Dispatch(n, saved) PROVE CountInv'
    <3>1. CASE saved
      BY <1>0, <1>a, <2>7, <3>1 DEF Dispatch, graph, Visiting, CountInv, InGraph, UnderWay, Settled
    <3>2. CASE ~saved
      BY <1>0, <2>7, <3>2 DEF Dispatch, graph, Unwind, CountInv, InGraph, UnderWay
    <3> QED BY <3>1, <3>2
  <2> QED BY <1>2, <2>1, <2>2, <2>3, <2>4, <2>5, <2>6, <2>7 DEF PassStep
<1>3. CASE CallStep
  <2>1. CASE CallJob
      BY <1>0, <2>1 DEF CallJob
  <2>2. CASE CallService
      BY <1>0, <2>2 DEF CallService
  <2>3. CASE FailRecovery
      BY <1>0, <2>3 DEF FailRecovery
  <2>4. CASE FailRoot
      BY <1>0, <2>4 DEF FailRoot
  <2>5. ASSUME NEW saved \in BOOLEAN, Succeed(saved) PROVE CountInv'
    <3>1. current \in Nodes \ Settled /\ pc = "waiting"
      BY <1>0, <2>5 DEF Succeed, CountInv, UnderWay, SetType
    <3>2. Settled' = Settled \cup {current}
      BY <2>5 DEF Succeed, Settled
    <3> QED BY <1>0, <1>a, <1>b, <3>1, <3>2, <2>5, AdvanceCounts DEF Succeed
  <2>6. ASSUME NEW saved \in BOOLEAN, Fail(saved) PROVE CountInv'
    <3>1. current \in Nodes \ Settled /\ pc = "waiting"
      BY <1>0, <2>6 DEF Fail, CountInv, UnderWay, SetType
    <3>2. Settled' = Settled \cup {current}
      BY <2>6 DEF Fail, Settled
    <3> QED BY <1>0, <1>a, <1>b, <3>1, <3>2, <2>6, AdvanceCounts DEF Fail
  <2> QED BY <1>3, <2>1, <2>2, <2>3, <2>4, <2>5, <2>6 DEF CallStep
<1>4. CASE EndStep
  BY <1>0, <1>4 DEF EndStep, EndRestore, EndUndo, Publish, RestoreStops,
         RestoreFails, Complete, Retry
<1>5. CASE OtherStep
  BY <1>0, <1>5 DEF OtherStep, EndContext, Crash, Recover, vars
<1> QED BY <1>1, <1>2, <1>3, <1>4, <1>5, Steps

-----------------------------------------------------------------------------
(* Safety.                                                                    *)

(* A command runs only where the executor waits for it.                      *)
LEMMA CommandStep ==
  ASSUME CommandInv, RunInv, SetType, WorldType, CountInv, [Next]_vars
  PROVE  CommandInv'
<1>0. CommandInv /\ RunInv /\ SetType /\ WorldType /\ CountInv
  OBVIOUS
<1>a. run.jobs \cap run.services = {} /\ run.held \subseteq run.services /\ run.root \in run.jobs
      /\ (~run.chained => run.services = run.held /\ run.jobs = {run.root})
  BY <1>0, RunFacts
<1> USE DEF memory, graph, world, Nodes, Unwind, Settled, Visiting,
            Restoring, CommandInv, SetType, WorldType, CountInv, UnderWay,
            IsNext, Recovers
<1>1. CASE HoldingStep
  BY <1>0, <1>a, <1>1 DEF HoldingStep, Begin, HoldsFailed, HoldStops,
         HoldFails, HoldsInForce
<1>2. CASE PassStep
  <2>1. CASE StartPass
      BY <1>0, <1>a, <2>1 DEF StartPass
  <2>2. CASE ContextEnds
      BY <1>0, <1>a, <2>2 DEF ContextEnds
  <2>3. CASE EndPass
      BY <1>0, <1>a, <2>3 DEF EndPass
  <2>4. CASE EndGraph
      BY <1>0, <1>a, <2>4 DEF EndGraph
  <2>5. ASSUME NEW n \in Nodes, Skip(n) PROVE CommandInv'
      BY <1>0, <1>a, <2>5 DEF Skip
  <2>6. ASSUME NEW n \in Nodes, Block(n) PROVE CommandInv'
      BY <1>0, <1>a, <2>6 DEF Block
  <2>7. ASSUME NEW n \in Nodes, NEW saved \in BOOLEAN, Dispatch(n, saved) PROVE CommandInv'
      BY <1>0, <1>a, <2>7 DEF Dispatch
  <2> QED BY <1>2, <2>1, <2>2, <2>3, <2>4, <2>5, <2>6, <2>7 DEF PassStep
<1>3. CASE CallStep
  <2>1. CASE CallJob
      BY <1>0, <1>a, <2>1 DEF CallJob
  <2>2. CASE CallService
      BY <1>0, <1>a, <2>2 DEF CallService
  <2>3. CASE FailRecovery
      BY <1>0, <1>a, <2>3 DEF FailRecovery
  <2>4. CASE FailRoot
      BY <1>0, <1>a, <2>4 DEF FailRoot
  <2>5. ASSUME NEW saved \in BOOLEAN, Succeed(saved) PROVE CommandInv'
      BY <1>0, <1>a, <2>5 DEF Succeed, Advance
  <2>6. ASSUME NEW saved \in BOOLEAN, Fail(saved) PROVE CommandInv'
      BY <1>0, <1>a, <2>6 DEF Fail, Advance
  <2> QED BY <1>3, <2>1, <2>2, <2>3, <2>4, <2>5, <2>6 DEF CallStep
<1>4. CASE EndStep
  BY <1>0, <1>a, <1>4 DEF EndStep, EndRestore, EndUndo, Publish, RestoreStops,
         RestoreFails, Complete, Retry
<1>5. CASE OtherStep
  BY <1>0, <1>a, <1>5 DEF OtherStep, EndContext, Crash, Recover, vars
<1> QED BY <1>1, <1>2, <1>3, <1>4, <1>5, Steps

(* Holding settles held services, and nothing else.                          *)
LEMMA SettledStep ==
  ASSUME SettledInv, RunInv, SetType, WorldType, [Next]_vars
  PROVE  SettledInv'
<1>0. SettledInv /\ RunInv /\ SetType /\ WorldType
  OBVIOUS
<1>a. run.jobs \cap run.services = {} /\ run.held \subseteq run.services /\ run.root \in run.jobs
      /\ (~run.chained => run.services = run.held /\ run.jobs = {run.root})
  BY <1>0, RunFacts
<1> USE DEF memory, graph, world, Nodes, Unwind, Settled, Visiting,
            Restoring, SettledInv, SetType, WorldType, InGraph, Starting, IsNext
<1>1. CASE HoldingStep
  BY <1>0, <1>a, <1>1 DEF HoldingStep, Begin, HoldsFailed, HoldStops,
         HoldFails, HoldsInForce
<1>2. CASE PassStep
  BY <1>0, <1>a, <1>2 DEF PassStep, StartPass, ContextEnds, EndPass, EndGraph,
         Skip, Block, Dispatch
<1>3. CASE CallStep
  BY <1>0, <1>a, <1>3 DEF CallStep, CallJob, CallService, FailRecovery,
         FailRoot, Succeed, Fail, Advance
<1>4. CASE EndStep
  BY <1>0, <1>a, <1>4 DEF EndStep, EndRestore, EndUndo, Publish, RestoreStops,
         RestoreFails, Complete, Retry
<1>5. CASE OtherStep
  BY <1>0, <1>a, <1>5 DEF OtherStep, EndContext, Crash, Recover, vars
<1> QED BY <1>1, <1>2, <1>3, <1>4, <1>5, Steps

(* Ready finds the dependencies done, and the jobs before a recovery.        *)
LEMMA ReadyStep ==
  ASSUME ReadyInv, RunInv, SetType, [Next]_vars
  PROVE  ReadyInv'
<1>0. ReadyInv /\ RunInv /\ SetType
  OBVIOUS
<1>a. run.jobs \cap run.services = {} /\ run.held \subseteq run.services /\ run.root \in run.jobs
      /\ (~run.chained => run.services = run.held /\ run.jobs = {run.root})
  BY <1>0, RunFacts
<1> USE DEF memory, graph, world, Nodes, Unwind, Settled, Visiting,
            Restoring, ReadyInv, SetType, UnderWay, Recovers, MustBlock, Ready,
            ChainFailed, ChainPending
<1>1. CASE HoldingStep
  BY <1>0, <1>a, <1>1 DEF HoldingStep, Begin, HoldsFailed, HoldStops,
         HoldFails, HoldsInForce
<1>2. CASE PassStep
  BY <1>0, <1>a, <1>2 DEF PassStep, StartPass, ContextEnds, EndPass, EndGraph,
         Skip, Block, Dispatch
<1>3. CASE CallStep
  BY <1>0, <1>a, <1>3 DEF CallStep, CallJob, CallService, FailRecovery,
         FailRoot, Succeed, Fail, Advance
<1>4. CASE EndStep
  BY <1>0, <1>a, <1>4 DEF EndStep, EndRestore, EndUndo, Publish, RestoreStops,
         RestoreFails, Complete, Retry
<1>5. CASE OtherStep
  BY <1>0, <1>a, <1>5 DEF OtherStep, EndContext, Crash, Recover, vars
<1> QED BY <1>1, <1>2, <1>3, <1>4, <1>5, Steps

(* Held services stay down, and recovered ones up.                           *)
LEMMA HoldStep ==
  ASSUME HoldInv, RunInv, SetType, WorldType, CommandInv, CountInv, SettledInv, ReadyInv, [Next]_vars
  PROVE  HoldInv'
<1>0. HoldInv /\ RunInv /\ SetType /\ WorldType /\ CommandInv /\ CountInv /\ SettledInv /\ ReadyInv
  OBVIOUS
<1>a. run.jobs \cap run.services = {} /\ run.held \subseteq run.services /\ run.root \in run.jobs
      /\ (~run.chained => run.services = run.held /\ run.jobs = {run.root})
  BY <1>0, RunFacts
<1> USE DEF memory, graph, world, Nodes, Unwind, Settled, Visiting,
            Restoring, HoldInv, HoldsCoverCommands, SetType, WorldType,
            CommandInv, CountInv, SettledInv, ReadyInv, InGraph, UnderWay,
            IsNext, Recovers, Starting
<1>1. CASE HoldingStep
  BY <1>0, <1>a, <1>1 DEF HoldingStep, Begin, HoldsFailed, HoldStops,
         HoldFails, HoldsInForce
<1>2. CASE PassStep
  <2>1. CASE StartPass
      BY <1>0, <1>a, <2>1 DEF StartPass
  <2>2. CASE ContextEnds
      BY <1>0, <1>a, <2>2 DEF ContextEnds
  <2>3. CASE EndPass
      BY <1>0, <1>a, <2>3 DEF EndPass
  <2>4. CASE EndGraph
      BY <1>0, <1>a, <2>4 DEF EndGraph
  <2>5. ASSUME NEW n \in Nodes, Skip(n) PROVE HoldInv'
      BY <1>0, <1>a, <2>5 DEF Skip
  <2>6. ASSUME NEW n \in Nodes, Block(n) PROVE HoldInv'
      BY <1>0, <1>a, <2>6 DEF Block
  <2>7. ASSUME NEW n \in Nodes, NEW saved \in BOOLEAN, Dispatch(n, saved) PROVE HoldInv'
      BY <1>0, <1>a, <2>7 DEF Dispatch
  <2> QED BY <1>2, <2>1, <2>2, <2>3, <2>4, <2>5, <2>6, <2>7 DEF PassStep
<1>3. CASE CallStep
  <2>1. CASE CallJob
      BY <1>0, <1>a, <2>1 DEF CallJob
  <2>2. CASE CallService
      BY <1>0, <1>a, <2>2 DEF CallService
  <2>3. CASE FailRecovery
      BY <1>0, <1>a, <2>3 DEF FailRecovery
  <2>4. CASE FailRoot
      BY <1>0, <1>a, <2>4 DEF FailRoot
  <2>5. ASSUME NEW saved \in BOOLEAN, Succeed(saved) PROVE HoldInv'
      BY <1>0, <1>a, <2>5 DEF Succeed, Advance
  <2>6. ASSUME NEW saved \in BOOLEAN, Fail(saved) PROVE HoldInv'
      BY <1>0, <1>a, <2>6 DEF Fail, Advance
  <2> QED BY <1>3, <2>1, <2>2, <2>3, <2>4, <2>5, <2>6 DEF CallStep
<1>4. CASE EndStep
  BY <1>0, <1>a, <1>4 DEF EndStep, EndRestore, EndUndo, Publish, RestoreStops,
         RestoreFails, Complete, Retry
<1>5. CASE OtherStep
  BY <1>0, <1>a, <1>5 DEF OtherStep, EndContext, Crash, Recover, vars
<1> QED BY <1>1, <1>2, <1>3, <1>4, <1>5, Steps

(* Unwinding takes down again what was stopped.                              *)
LEMMA RestoreStep ==
  ASSUME RestoreInv, RunInv, SetType, WorldType, NodeType, SettledInv, [Next]_vars
  PROVE  RestoreInv'
<1>0. RestoreInv /\ RunInv /\ SetType /\ WorldType /\ NodeType /\ SettledInv
  OBVIOUS
<1>a. run.jobs \cap run.services = {} /\ run.held \subseteq run.services /\ run.root \in run.jobs
      /\ (~run.chained => run.services = run.held /\ run.jobs = {run.root})
  BY <1>0, RunFacts
<1> USE DEF memory, graph, world, Nodes, Unwind, Settled, Visiting,
            Restoring, RestoreInv, ErrorsRestoreHolds, SetType, WorldType,
            NodeType, NodeStatus, SettledInv, Starting, InGraph, IsNext,
            Completed, CompletedNodes, Receipt, Pending, Running, Failed,
            Blocked, Succeeded
<1>1. CASE HoldingStep
  BY <1>0, <1>a, <1>1 DEF HoldingStep, Begin, HoldsFailed, HoldStops,
         HoldFails, HoldsInForce
<1>2. CASE PassStep
  <2>1. CASE StartPass
      BY <1>0, <1>a, <2>1 DEF StartPass
  <2>2. CASE ContextEnds
      BY <1>0, <1>a, <2>2 DEF ContextEnds
  <2>3. CASE EndPass
      BY <1>0, <1>a, <2>3 DEF EndPass
  <2>4. CASE EndGraph
      BY <1>0, <1>a, <2>4 DEF EndGraph
  <2>5. ASSUME NEW n \in Nodes, Skip(n) PROVE RestoreInv'
      BY <1>0, <1>a, <2>5 DEF Skip
  <2>6. ASSUME NEW n \in Nodes, Block(n) PROVE RestoreInv'
      BY <1>0, <1>a, <2>6 DEF Block
  <2>7. ASSUME NEW n \in Nodes, NEW saved \in BOOLEAN, Dispatch(n, saved) PROVE RestoreInv'
      BY <1>0, <1>a, <2>7 DEF Dispatch
  <2> QED BY <1>2, <2>1, <2>2, <2>3, <2>4, <2>5, <2>6, <2>7 DEF PassStep
<1>3. CASE CallStep
  BY <1>0, <1>a, <1>3 DEF CallStep, CallJob, CallService, FailRecovery,
         FailRoot, Succeed, Fail, Advance
<1>4. CASE EndStep
  <2>1. CASE EndRestore
      BY <1>0, <1>a, <2>1 DEF EndRestore
  <2>2. CASE EndUndo
      BY <1>0, <1>a, <2>2 DEF EndUndo
  <2>3. CASE Publish
      BY <1>0, <1>a, <2>3 DEF Publish
  <2>4. ASSUME NEW n \in Nodes, RestoreStops(n) PROVE RestoreInv'
      BY <1>0, <1>a, <2>4 DEF RestoreStops
  <2>5. ASSUME NEW n \in Nodes, RestoreFails(n) PROVE RestoreInv'
      BY <1>0, <1>a, <2>5 DEF RestoreFails
  <2>6. ASSUME NEW saved \in BOOLEAN, Complete(saved) PROVE RestoreInv'
      BY <1>0, <1>a, <2>6 DEF Complete
  <2>7. ASSUME NEW saved \in BOOLEAN, Retry(saved) PROVE RestoreInv'
      BY <1>0, <1>a, <2>7 DEF Retry
  <2> QED BY <1>4, <2>1, <2>2, <2>3, <2>4, <2>5, <2>6, <2>7 DEF EndStep
<1>5. CASE OtherStep
  BY <1>0, <1>a, <1>5 DEF OtherStep, EndContext, Crash, Recover, vars
<1> QED BY <1>1, <1>2, <1>3, <1>4, <1>5, Steps

(* Nodes succeed in memory, then on disk.                                    *)
LEMMA BeliefStep ==
  ASSUME BeliefInv, RunInv, SetType, WorldType, NodeType, DiskType, SettledInv, CountInv, HoldInv, RestoreInv, [Next]_vars
  PROVE  BeliefInv'
<1>0. BeliefInv /\ RunInv /\ SetType /\ WorldType /\ NodeType /\ DiskType /\ SettledInv /\ CountInv /\ HoldInv /\ RestoreInv
  OBVIOUS
<1>a. run.jobs \cap run.services = {} /\ run.held \subseteq run.services /\ run.root \in run.jobs
      /\ (~run.chained => run.services = run.held /\ run.jobs = {run.root})
  BY <1>0, RunFacts
<1> USE DEF memory, graph, world, Nodes, Unwind, Settled, Visiting,
            Restoring, BeliefInv, SetType, WorldType, NodeType, DiskType,
            NodeStatus, InGraph, Receipt, Pending, Running, Failed, Blocked,
            Succeeded, Write, UnderWay, CountInv, SettledInv, Starting,
            RestoreInv, IsNext
<1>1. CASE HoldingStep
  BY <1>0, <1>a, <1>1 DEF HoldingStep, Begin, HoldsFailed, HoldStops,
         HoldFails, HoldsInForce
<1>2. CASE PassStep
  <2>1. CASE StartPass
      BY <1>0, <1>a, <2>1 DEF StartPass
  <2>2. CASE ContextEnds
      BY <1>0, <1>a, <2>2 DEF ContextEnds
  <2>3. CASE EndPass
      BY <1>0, <1>a, <2>3 DEF EndPass
  <2>4. CASE EndGraph
    <3>1. CASE failed = {}
      <4>1. pc = "scanning" /\ Settled = done /\ remaining = 0 /\ UNCHANGED <<run, node, disk, done, svc>>
        BY <2>4, <3>1 DEF EndGraph
      <4>2. done = Nodes
        <5>1. Cardinality(Nodes \ Settled) = 0 /\ Settled \in SUBSET Nodes
          BY <1>0, <4>1
        <5> HIDE DEF Settled, Nodes
        <5> QED BY <1>0, <4>1, <5>1, Counting
      <4> QED BY <1>0, <1>a, <4>1, <4>2 DEF HoldInv
    <3>2. CASE failed # {}
      BY <1>0, <2>4, <3>2 DEF EndGraph
    <3> QED BY <3>1, <3>2
  <2>5. ASSUME NEW n \in Nodes, Skip(n) PROVE BeliefInv'
      BY <1>0, <1>a, <2>5 DEF Skip
  <2>6. ASSUME NEW n \in Nodes, Block(n) PROVE BeliefInv'
      BY <1>0, <1>a, <2>6 DEF Block
  <2>7. ASSUME NEW n \in Nodes, NEW saved \in BOOLEAN, Dispatch(n, saved) PROVE BeliefInv'
      BY <1>0, <1>a, <2>7 DEF Dispatch
  <2> QED BY <1>2, <2>1, <2>2, <2>3, <2>4, <2>5, <2>6, <2>7 DEF PassStep
<1>3. CASE CallStep
  <2>1. CASE CallJob
      BY <1>0, <1>a, <2>1 DEF CallJob
  <2>2. CASE CallService
      BY <1>0, <1>a, <2>2 DEF CallService
  <2>3. CASE FailRecovery
      BY <1>0, <1>a, <2>3 DEF FailRecovery
  <2>4. CASE FailRoot
      BY <1>0, <1>a, <2>4 DEF FailRoot
  <2>5. ASSUME NEW saved \in BOOLEAN, Succeed(saved) PROVE BeliefInv'
      BY <1>0, <1>a, <2>5 DEF Succeed, Advance
  <2>6. ASSUME NEW saved \in BOOLEAN, Fail(saved) PROVE BeliefInv'
      BY <1>0, <1>a, <2>6 DEF Fail, Advance
  <2> QED BY <1>3, <2>1, <2>2, <2>3, <2>4, <2>5, <2>6 DEF CallStep
<1>4. CASE EndStep
  <2>1. CASE EndRestore
      BY <1>0, <1>a, <2>1 DEF EndRestore
  <2>2. CASE EndUndo
      BY <1>0, <1>a, <2>2 DEF EndUndo
  <2>3. CASE Publish
    <3>1. /\ \A n \in Nodes : node'[n] = Succeeded => node[n] = Succeeded
          /\ UNCHANGED <<run, disk, done, svc>> /\ pc' = "published"
      BY <1>0, <2>3, CompletedSucceeds DEF Publish
    <3> QED BY <1>0, <3>1
  <2>4. ASSUME NEW n \in Nodes, RestoreStops(n) PROVE BeliefInv'
      BY <1>0, <1>a, <2>4 DEF RestoreStops
  <2>5. ASSUME NEW n \in Nodes, RestoreFails(n) PROVE BeliefInv'
      BY <1>0, <1>a, <2>5 DEF RestoreFails
  <2>6. ASSUME NEW saved \in BOOLEAN, Complete(saved) PROVE BeliefInv'
    <3> DEFINE outcome == IF ctx = "expired" THEN "timeout" ELSE cause
    <3>1. /\ disk' = disk \/ disk' = Completed(outcome)
          /\ UNCHANGED <<run, node, done, svc>>
          /\ pc' \in {"publishing", "undoing", "retrying"}
          /\ pc' = "publishing" => cause' = outcome
          /\ outcome = "none" => cause = "none" /\ pc = "returned"
      BY <2>6 DEF Complete
    <3>2. \A n \in Nodes : Completed(outcome).node[n] = Succeeded => node[n] = Succeeded
      BY <1>0, CompletedSucceeds
    <3> HIDE DEF outcome
    <3>3. \A n \in Nodes : disk'.node[n] = Succeeded => disk.node[n] = Succeeded \/ node[n] = Succeeded
      BY <3>1, <3>2
    <3> QED BY <1>0, <3>1, <3>3
  <2>7. ASSUME NEW saved \in BOOLEAN, Retry(saved) PROVE BeliefInv'
    <3>1. /\ disk' = disk \/ disk' = Completed(cause)
          /\ UNCHANGED <<run, node, done, svc, cause>>
          /\ pc = "retrying" /\ pc' = "publishing"
      BY <2>7 DEF Retry
    <3>2. \A n \in Nodes : Completed(cause).node[n] = Succeeded => node[n] = Succeeded
      BY <1>0, CompletedSucceeds
    <3>3. \A n \in Nodes : disk'.node[n] = Succeeded => disk.node[n] = Succeeded \/ node[n] = Succeeded
      BY <3>1, <3>2
    <3> QED BY <1>0, <3>1, <3>3
  <2> QED BY <1>4, <2>1, <2>2, <2>3, <2>4, <2>5, <2>6, <2>7 DEF EndStep
<1>5. CASE OtherStep
  BY <1>0, <1>a, <1>5 DEF OtherStep, EndContext, Crash, Recover, vars
<1> QED BY <1>1, <1>2, <1>3, <1>4, <1>5, Steps

(* The terminal receipt is written before or without its publication.        *)
LEMMA OutcomeStep ==
  ASSUME OutcomeInv, RunInv, SetType, StatusType, NodeType, DiskType, BeliefInv, RestoreInv, [Next]_vars
  PROVE  OutcomeInv'
<1>0. OutcomeInv /\ RunInv /\ SetType /\ StatusType /\ NodeType /\ DiskType /\ BeliefInv /\ RestoreInv
  OBVIOUS
<1>a. run.jobs \cap run.services = {} /\ run.held \subseteq run.services /\ run.root \in run.jobs
      /\ (~run.chained => run.services = run.held /\ run.jobs = {run.root})
  BY <1>0, RunFacts
<1> USE DEF memory, graph, world, Nodes, Unwind, Settled, Visiting,
            Restoring, OutcomeInv, SetType, StatusType, NodeType, DiskType,
            NodeStatus, BeliefInv, RestoreInv, Alive, Terminal, Receipt, Pending,
            Running, Failed, Blocked, Succeeded, Write, Completed, CompletedNodes
<1>1. CASE HoldingStep
  BY <1>0, <1>a, <1>1 DEF HoldingStep, Begin, HoldsFailed, HoldStops,
         HoldFails, HoldsInForce
<1>2. CASE PassStep
  <2>1. CASE StartPass
      BY <1>0, <1>a, <2>1 DEF StartPass
  <2>2. CASE ContextEnds
      BY <1>0, <1>a, <2>2 DEF ContextEnds
  <2>3. CASE EndPass
      BY <1>0, <1>a, <2>3 DEF EndPass
  <2>4. CASE EndGraph
      BY <1>0, <1>a, <2>4 DEF EndGraph
  <2>5. ASSUME NEW n \in Nodes, Skip(n) PROVE OutcomeInv'
      BY <1>0, <1>a, <2>5 DEF Skip
  <2>6. ASSUME NEW n \in Nodes, Block(n) PROVE OutcomeInv'
      BY <1>0, <1>a, <2>6 DEF Block
  <2>7. ASSUME NEW n \in Nodes, NEW saved \in BOOLEAN, Dispatch(n, saved) PROVE OutcomeInv'
      BY <1>0, <1>a, <2>7 DEF Dispatch
  <2> QED BY <1>2, <2>1, <2>2, <2>3, <2>4, <2>5, <2>6, <2>7 DEF PassStep
<1>3. CASE CallStep
  <2>1. CASE CallJob
      BY <1>0, <1>a, <2>1 DEF CallJob
  <2>2. CASE CallService
      BY <1>0, <1>a, <2>2 DEF CallService
  <2>3. CASE FailRecovery
      BY <1>0, <1>a, <2>3 DEF FailRecovery
  <2>4. CASE FailRoot
      BY <1>0, <1>a, <2>4 DEF FailRoot
  <2>5. ASSUME NEW saved \in BOOLEAN, Succeed(saved) PROVE OutcomeInv'
      BY <1>0, <1>a, <2>5 DEF Succeed, Advance
  <2>6. ASSUME NEW saved \in BOOLEAN, Fail(saved) PROVE OutcomeInv'
      BY <1>0, <1>a, <2>6 DEF Fail, Advance
  <2> QED BY <1>3, <2>1, <2>2, <2>3, <2>4, <2>5, <2>6 DEF CallStep
<1>4. CASE EndStep
  BY <1>0, <1>a, <1>4 DEF EndStep, EndRestore, EndUndo, Publish, RestoreStops,
         RestoreFails, Complete, Retry
<1>5. CASE OtherStep
  BY <1>0, <1>a, <1>5 DEF OtherStep, EndContext, Crash, Recover, vars
<1> QED BY <1>1, <1>2, <1>3, <1>4, <1>5, Steps

(* While the loop counts, something is left to settle.                        *)
LEMMA StillToDo ==
  ASSUME RunInv, SetType, CountInv, pc = "scanning", remaining > 0
  PROVE  Settled # Nodes
<1>1. remaining = Cardinality(Nodes \ Settled)
  BY DEF CountInv, InGraph
<1>2. Settled \in SUBSET Nodes
  BY DEF SetType, Settled
<1> QED BY <1>1, <1>2, Counting

(* Whether a node must fail, or may run, depends on what is settled.           *)
LEMMA PassFrame ==
  ASSUME UNCHANGED <<run, done, failed>>, NEW n
  PROVE  MustBlock(n)' = MustBlock(n) /\ Ready(n)' = Ready(n) /\ Settled' = Settled /\ Nodes' = Nodes
  BY DEF MustBlock, Ready, Settled, Nodes, ChainFailed, ChainPending, Recovers

(* A pass that settles nothing has come past every node.                     *)
LEMMA ProgressStep ==
  ASSUME ProgressInv, RunInv, SetType, CountInv, [Next]_vars
  PROVE  ProgressInv'
<1>0. ProgressInv /\ RunInv /\ SetType /\ CountInv
  OBVIOUS
<1>a. run.jobs \cap run.services = {} /\ run.held \subseteq run.services /\ run.root \in run.jobs
      /\ (~run.chained => run.services = run.held /\ run.jobs = {run.root})
  BY <1>0, RunFacts
<1> USE DEF memory, graph, world, Nodes, Unwind, Settled, Visiting,
            Restoring, ProgressInv, SetType, CountInv, InGraph, UnderWay,
            MustBlock, Ready, ChainFailed, ChainPending, Recovers
<1>1. CASE HoldingStep
  BY <1>0, <1>a, <1>1 DEF HoldingStep, Begin, HoldsFailed, HoldStops,
         HoldFails, HoldsInForce
<1>2. CASE PassStep
  <2>1. CASE StartPass
    <3>1. /\ pc = "scanning" /\ remaining > 0 /\ todo' = Nodes
          /\ UNCHANGED <<run, done, failed, cause>>
      BY <2>1 DEF StartPass
    <3>2. Settled # Nodes
      <4> HIDE DEF Settled, Nodes, CountInv, SetType
      <4> QED BY <1>0, <3>1, StillToDo
    <3> QED BY <1>0, <3>1, <3>2
  <2>2. CASE ContextEnds
      BY <1>0, <1>a, <2>2 DEF ContextEnds
  <2>3. CASE EndPass
    <3>1. pc = "visiting" /\ todo = {} /\ pc' # "visiting"
      BY <2>3 DEF EndPass
    <3>2. progressed
      <4>1. SUFFICES ASSUME ~progressed PROVE FALSE
        OBVIOUS
      <4>2. Settled \in SUBSET Nodes /\ Settled # Nodes
        BY <1>0, <3>1, <4>1
      <4>3. PICK n \in Nodes \ Settled :
              /\ run.deps[n] \cap Nodes \subseteq Settled
              /\ run.held # {} /\ n \in run.services => run.jobs \subseteq Settled
        <5>1. run \in Runs
          BY <1>0 DEF RunInv
        <5> QED BY <4>2, <5>1, OrderAssumption
      <4>4. ~MustBlock(n) /\ ~Ready(n)
        <5> HIDE DEF MustBlock, Ready
        <5> QED BY <1>0, <3>1, <4>1, <4>3
      <4>5. ~ChainPending(n)
        BY <4>3
      <4> QED BY <4>3, <4>4, <4>5
    <3> QED BY <1>0, <2>3, <3>1, <3>2 DEF EndPass
  <2>4. CASE EndGraph
      BY <1>0, <1>a, <2>4 DEF EndGraph
  <2>5. ASSUME NEW n \in Nodes, Skip(n) PROVE ProgressInv'
    <3>1. /\ pc = "visiting" /\ todo' = todo \ {n} /\ (n \notin Settled => ~MustBlock(n) /\ ~Ready(n))
          /\ UNCHANGED <<run, pc, done, failed, progressed, cause>>
      BY <2>5 DEF Skip
    <3> HIDE DEF MustBlock, Ready, Settled, Nodes
    <3>2. \A m : MustBlock(m)' = MustBlock(m) /\ Ready(m)' = Ready(m)
      BY <3>1, PassFrame
    <3>3. Settled' = Settled /\ Nodes' = Nodes
      BY <3>1, PassFrame
    <3>4. ASSUME pc' = "visiting", ~progressed', NEW m \in Nodes \ (todo' \cup Settled)
          PROVE  ~MustBlock(m) /\ ~Ready(m)
      BY <1>0, <3>1, <3>4
    <3> QED BY <1>0, <3>1, <3>2, <3>3, <3>4
  <2>6. ASSUME NEW n \in Nodes, Block(n) PROVE ProgressInv'
      BY <1>0, <1>a, <2>6 DEF Block
  <2>7. ASSUME NEW n \in Nodes, NEW saved \in BOOLEAN, Dispatch(n, saved) PROVE ProgressInv'
      BY <1>0, <1>a, <2>7 DEF Dispatch
  <2> QED BY <1>2, <2>1, <2>2, <2>3, <2>4, <2>5, <2>6, <2>7 DEF PassStep
<1>3. CASE CallStep
  BY <1>0, <1>a, <1>3 DEF CallStep, CallJob, CallService, FailRecovery,
         FailRoot, Succeed, Fail, Advance
<1>4. CASE EndStep
  BY <1>0, <1>a, <1>4 DEF EndStep, EndRestore, EndUndo, Publish, RestoreStops,
         RestoreFails, Complete, Retry
<1>5. CASE OtherStep
  <2>1. CASE EndContext
    <3>1. UNCHANGED <<run, pc, todo, done, failed, progressed, cause>>
      BY <2>1 DEF EndContext
    <3> QED BY <1>0, <3>1, PassFrame
  <2>2. CASE Crash
      BY <1>0, <1>a, <2>2 DEF Crash
  <2>3. CASE Recover
    <3>1. UNCHANGED <<run, pc, todo, done, failed, progressed, cause>>
      BY <2>3 DEF Recover
    <3> QED BY <1>0, <3>1, PassFrame
  <2>4. CASE UNCHANGED vars
    <3>1. UNCHANGED <<run, pc, todo, done, failed, progressed, cause>>
      BY <2>4 DEF vars
    <3> QED BY <1>0, <3>1, PassFrame
  <2> QED BY <1>5, <2>1, <2>2, <2>3, <2>4 DEF OtherStep
<1> QED BY <1>1, <1>2, <1>3, <1>4, <1>5, Steps

-----------------------------------------------------------------------------
(* The invariant holds.                                                       *)
LEMMA Initially == Init => IInv
<1> SUFFICES ASSUME Init PROVE IInv
  OBVIOUS
<1>1. RunInv
  BY DEF Init, RunInv
<1>2. /\ run \in RunType /\ run.root \in run.jobs
      /\ run.held \subseteq run.services
  BY <1>1, RunFacts
<1>3. TypeInv
  BY <1>1, <1>2 DEF Init, TypeInv, PcType, PCs, CauseType, Causes, StatusType, RestType, SetType,
     Nodes, NodeType, NodeStatus, DiskType, Receipt, WorldType, Terminal, Pending, Running
<1>4. CountInv /\ CommandInv
  BY <1>2 DEF Init, CountInv, InGraph, UnderWay, Settled, CommandInv
<1>5. SettledInv /\ ReadyInv /\ HoldInv
  BY <1>2 DEF Init, SettledInv, Starting, InGraph, UnderWay, ReadyInv, HoldInv, HoldsCoverCommands
<1>6. RestoreInv /\ ProgressInv
  BY <1>2 DEF Init, RestoreInv, Starting, InGraph, Restoring, ErrorsRestoreHolds, ProgressInv
<1>7. BeliefInv /\ OutcomeInv
  BY <1>2 DEF Init, BeliefInv, InGraph, OutcomeInv, Alive, Receipt, Terminal, Pending, Succeeded,
     Failed, Blocked
<1> QED BY <1>3, <1>4, <1>5, <1>6, <1>7 DEF IInv

LEMMA Inductively == IInv /\ [Next]_vars => IInv'
<1> SUFFICES ASSUME IInv, [Next]_vars PROVE IInv'
  OBVIOUS
<1>1. /\ RunInv /\ StatusType /\ SetType /\ NodeType /\ DiskType /\ WorldType
  BY DEF IInv, TypeInv
<1>2. TypeInv'
  BY TypeStep DEF IInv
<1>3. CountInv' /\ CommandInv' /\ SettledInv' /\ ReadyInv'
  BY <1>1, CountStep, CommandStep, SettledStep, ReadyStep DEF IInv
<1>4. HoldInv' /\ RestoreInv' /\ BeliefInv'
  BY <1>1, HoldStep, RestoreStep, BeliefStep DEF IInv
<1>5. OutcomeInv' /\ ProgressInv'
  BY <1>1, OutcomeStep, ProgressStep DEF IInv
<1> QED BY <1>2, <1>3, <1>4, <1>5 DEF IInv

LEMMA Invariance == Spec => []IInv
  BY Initially, Inductively, PTL DEF Spec

-----------------------------------------------------------------------------
(* Only an apply brings a service up.                                         *)
LEMMA WorldFrame ==
  ASSUME TypeInv, [Next]_vars, NEW s \in run.services, svc[s] = "stopped", svc'[s] = "running"
  PROVE  CallService
<1>0. svc \in [run.services -> {"running", "stopped"}]
  BY DEF TypeInv, WorldType
<1>1. CASE HoldingStep
  BY <1>0, <1>1 DEF HoldingStep, Begin, HoldStops, HoldFails, HoldsFailed, HoldsInForce, world
<1>2. CASE PassStep
  BY <1>0, <1>2 DEF PassStep, StartPass, ContextEnds, EndPass, EndGraph, Skip, Block, Dispatch, world
<1>3. CASE CallStep
  BY <1>0, <1>3 DEF CallStep, CallJob, FailRecovery, FailRoot, Succeed, Fail, world
<1>4. CASE EndStep
  BY <1>0, <1>4 DEF EndStep, EndRestore, EndUndo, Publish, RestoreStops, RestoreFails, Complete,
     Retry, world
<1>5. CASE OtherStep
  BY <1>0, <1>5 DEF OtherStep, EndContext, Crash, Recover, vars, world
<1> QED BY <1>1, <1>2, <1>3, <1>4, <1>5, Steps

(* A held run whose order exists has no job that needs one of its services.   *)
LEMMA UnchainedNeedsNoHold ==
  ASSUME RunInv, run.held # {}, NEW j \in run.jobs, NEW s \in run.services
  PROVE  s \notin run.deps[j]
<1> DEFINE finished == Nodes \ {j, s}
<1>1. run \in Runs /\ run.jobs \cap run.services = {}
  BY RunFacts DEF RunInv
<1>2. finished \in SUBSET Nodes /\ finished # Nodes /\ Nodes \ finished \subseteq {j, s}
      /\ j \notin finished /\ s \notin finished
  BY DEF Nodes
<1> HIDE DEF finished
<1>3. PICK n \in Nodes \ finished :
        /\ run.deps[n] \cap Nodes \subseteq finished
        /\ run.held # {} /\ n \in run.services => run.jobs \subseteq finished
  BY <1>1, <1>2, OrderAssumption DEF Nodes
<1>4. n = j
  BY <1>1, <1>2, <1>3 DEF Nodes
<1> QED BY <1>2, <1>3, <1>4 DEF Nodes

(* The results.                                                               *)

(* Every variable of the executor keeps its type, and the count of what is    *)
(* left never falls below zero, for any runs.                                 *)
THEOREM RunTyping == Spec => []TypeOK
<1>1. IInv => TypeOK
  BY RunFacts DEF IInv, TypeInv, CountInv, RunInv, PcType, CauseType, StatusType, RestType, SetType,
     NodeType, NodeStatus, DiskType, WorldType, TypeOK, ReceiptType, Receipt
<1> QED BY <1>1, Invariance, PTL

(* No command of a run is ever under way while a service the run holds is up, *)
(* also after the operator died with the command running.                     *)
THEOREM HoldsAlwaysCover == Spec => []HoldsCoverCommands
<1>1. IInv => HoldsCoverCommands
  BY DEF IInv, HoldInv
<1> QED BY <1>1, Invariance, PTL

(* Whatever fails, each service a run has stopped is down again when the run  *)
(* ends with an error, or its node says that it could not be stopped.         *)
THEOREM ErrorsAlwaysRestore == Spec => []ErrorsRestoreHolds
<1>1. IInv => ErrorsRestoreHolds
  BY DEF IInv, RestoreInv
<1> QED BY <1>1, Invariance, PTL

(* At any moment and after any crash, the durable receipt claims only what    *)
(* happened, and agrees with the published one once both are terminal.        *)
THEOREM ReceiptsTellTheTruth == Spec => []ReceiptTellsTheTruth
<1>1. IInv => ReceiptTellsTheTruth
  <2> SUFFICES ASSUME IInv PROVE ReceiptTellsTheTruth
    OBVIOUS
  <2>1. \A j \in run.jobs : disk.node[j] = Succeeded => cmd[j] = "ok"
    BY DEF IInv, BeliefInv, CommandInv, Nodes
  <2>2. pc = "published" /\ disk.status \in Terminal => disk.status = opStatus
    BY DEF IInv, OutcomeInv, Terminal, Pending, Running, Succeeded, Failed, Blocked
  <2> QED BY <2>1, <2>2 DEF IInv, OutcomeInv, ReceiptTellsTheTruth
<1> QED BY <1>1, Invariance, PTL

(* Nothing starts before all it depends on is really there, no held service   *)
(* comes back before every job has succeeded, and the executor never gives up *)
(* for want of progress: whatever jobRunNodes accepts can be carried out.     *)
THEOREM OrderIsAlwaysKept == Spec => OrderIsKept
<1> DEFINE Kept ==
      /\ pc = "calling" /\ pc' = "waiting" =>
           \A d \in run.deps[current] \cap Nodes :
             IF d \in run.jobs THEN cmd[d] = "ok" ELSE svc[d] = "running"
      /\ \A s \in run.services :
           run.held # {} /\ svc[s] = "stopped" /\ svc'[s] = "running"
             => \A j \in run.jobs : cmd[j] = "ok"
      /\ cause' # "no progress"
<1>1. ASSUME IInv, [Next]_vars PROVE Kept
  <2>1. ASSUME pc = "calling", NEW d \in run.deps[current] \cap Nodes
        PROVE  IF d \in run.jobs THEN cmd[d] = "ok" ELSE svc[d] = "running"
    <3>1. d \in done /\ current \in Nodes \ Settled
      BY <1>1, <2>1 DEF IInv, TypeInv, SetType, CountInv, ReadyInv, UnderWay
    <3>2. CASE d \in run.jobs
      BY <1>1, <3>1, <3>2 DEF IInv, CommandInv
    <3>3. CASE d \notin run.jobs
      <4>1. run.chained
        BY <1>1, <2>1, <3>1, <3>3, RunFacts, UnchainedNeedsNoHold
        DEF IInv, TypeInv, SettledInv, InGraph, Nodes, Settled
      <4> QED BY <1>1, <2>1, <3>1, <3>3, <4>1 DEF IInv, HoldInv, InGraph, Nodes
    <3> QED BY <3>2, <3>3
  <2>2. ASSUME NEW s \in run.services, run.held # {}, svc[s] = "stopped", svc'[s] = "running"
        PROVE  run.jobs \subseteq done
    <3>1. CallService
      <4>1. TypeInv
        BY <1>1 DEF IInv
      <4> QED BY <1>1, <2>2, <4>1, WorldFrame
    <3>2. current \in run.services /\ pc = "calling"
      BY <3>1 DEF CallService
    <3> QED BY <1>1, <2>2, <3>2 DEF IInv, ReadyInv, UnderWay, Recovers
  <2>3. \A s \in run.services :
          run.held # {} /\ svc[s] = "stopped" /\ svc'[s] = "running" => \A j \in run.jobs : cmd[j] = "ok"
    BY <1>1, <2>2 DEF IInv, CommandInv
  <2>4. cause' # "no progress"
    BY <1>1, Inductively DEF IInv, ProgressInv
  <2> QED BY <2>1, <2>3, <2>4
<1>2. IInv /\ [Next]_vars => [Kept]_vars
  BY <1>1
<1> QED BY <1>2, Invariance, PTL DEF Spec, OrderIsKept
=============================================================================
