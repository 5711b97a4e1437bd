------------------------------ MODULE MCJobRun ------------------------------
(***************************************************************************)
(* Runs of small stacks, selected from their manifests by StackGraph.      *)
(* `setup` is never selected: it is a prerequisite outside the run.        *)
(***************************************************************************)
EXTENDS JobRun

Graph == INSTANCE StackGraph

MCNames == {"build", "cache", "check", "setup", "worker"}

MCRank == [n \in MCNames |-> CASE n = "build" -> 1 [] n = "cache" -> 2
             [] n = "check" -> 3 [] n = "setup" -> 4 [] n = "worker" -> 5]

(***************************************************************************)
(* Every manifest of this family: a job and two services downstream of the *)
(* root `build` in all the ways they can depend on each other, with and    *)
(* without holds.                                                          *)
(***************************************************************************)
MCStacks ==
  {[jobs |-> {"build", "check", "setup"}, services |-> {"cache", "worker"},
    deps |-> [n \in MCNames |-> CASE n = "check" -> check [] n = "cache" -> cache
                                  [] n = "worker" -> worker [] OTHER -> {}],
    holds |-> [j \in {"build", "check", "setup"} |->
                 CASE j = "build" -> build_holds [] j = "check" -> check_holds
                   [] OTHER -> {}]] :
     check \in {{"build"}, {"cache"}},
     cache \in {{"build"}, {"worker", "setup"}},
     worker \in {{}, {"cache"}, {"check"}},
     build_holds \in {{}, {"cache"}, {"cache", "worker"}},
     check_holds \in {{}, {"worker"}}}

MCRequests ==
  {r \in [stack : MCStacks, root : {"build"}, chained : BOOLEAN] :
     Graph!Acyclic(r.stack) /\ Graph!Accepted(r)}

\* Dependencies of nodes outside the run are of no concern to it.
RunOf(r, isolated) ==
  [root |-> r.root, chained |-> r.chained, isolated |-> isolated,
   jobs |-> Graph!JobsOf(r), services |-> Graph!ServicesOf(r),
   held |-> Graph!Held(r),
   deps |-> [n \in MCNames |-> IF n \in Graph!Selected(r) THEN r.stack.deps[n]
                               ELSE {}]]

MCRuns == {RunOf(r, Graph!Held(r) # {}) : r \in MCRequests}
=============================================================================
