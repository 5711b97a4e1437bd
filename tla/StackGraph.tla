----------------------------- MODULE StackGraph -----------------------------
(***************************************************************************)
(* The dependency graph of a stack manifest and the selection of the nodes *)
(* one job run operates on (internal/service/jobs.go).                     *)
(*                                                                         *)
(* A stack is a record                                                     *)
(*   jobs, services : disjoint sets of names                               *)
(*   deps           : [jobs \cup services -> SUBSET (jobs \cup services)]  *)
(*                    depends_on of a job, after + depends_on of a service *)
(*   holds          : [jobs -> SUBSET services]                            *)
(* A request is a record [stack, root, chained].                           *)
(***************************************************************************)
EXTENDS Naturals, FiniteSets

Names(s) == s.jobs \cup s.services

Dependencies(s, n) == IF n \in Names(s) THEN s.deps[n] ELSE {}

(***************************************************************************)
(* GrowBy(set, step, bound): the set after `bound` rounds of adding        *)
(* step[x], for a step given as a function from elements to their          *)
(* successors.                                                             *)
(***************************************************************************)
GrowBy(set, step, bound) ==
  LET grown[i \in 0..bound] ==
        IF i = 0 THEN set
        ELSE grown[i - 1] \cup UNION {step[x] : x \in grown[i - 1]}
  IN  grown[bound]

\* Everything n needs, directly or transitively (n excluded unless cyclic).
Prerequisites(s, n) ==
  GrowBy(Dependencies(s, n), s.deps, Cardinality(Names(s)))

Acyclic(s) == \A n \in Names(s) : n \notin Prerequisites(s, n)

\* The members of `among` downstream of `set`, through members of `among`.
Downstream(s, set, among) ==
  GrowBy(set,
         [n \in Names(s) |-> {m \in among : n \in s.deps[m]}],
         Cardinality(Names(s)))

HeldBy(s, set) == UNION {s.holds[j] : j \in set \cap s.jobs}

-----------------------------------------------------------------------------
\* What one run of request r selects, before the order of its nodes.
Reached(r) ==
  IF r.chained THEN Downstream(r.stack, {r.root}, Names(r.stack)) ELSE {r.root}

Held(r) == HeldBy(r.stack, Reached(r))

Selected(r) ==
  LET seeds == Reached(r) \cup Held(r)
  IN  IF r.chained /\ Held(r) # {}
      THEN Downstream(r.stack, seeds, r.stack.services)
      ELSE seeds

JobsOf(r)     == Selected(r) \cap r.stack.jobs
ServicesOf(r) == Selected(r) \cap r.stack.services

\* A job of a held run may not need a service the run is to recover.
NeedsRecovered(r) ==
  \E j \in JobsOf(r) : Prerequisites(r.stack, j) \cap ServicesOf(r) # {}

Accepted(r) == r.root \in r.stack.jobs /\ (Held(r) = {} \/ ~NeedsRecovered(r))

\* The runtime graph compiled for the run: its nodes and all they need.
Projection(r) ==
  LET s == r.stack
      needs == [n \in Names(s) |->
                  s.deps[n] \cup (IF n \in s.jobs THEN s.holds[n] ELSE {})]
  IN  GrowBy(Selected(r), needs, Cardinality(Names(s))) \cap Names(s)
=============================================================================
