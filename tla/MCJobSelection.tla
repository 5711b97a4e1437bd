--------------------------- MODULE MCJobSelection ---------------------------
(***************************************************************************)
(* Every manifest ValidateExtended accepts over the given names (its       *)
(* dependency graph is acyclic), with both modes.  Job names are           *)
(* interchangeable, so one root stands for all.                            *)
(***************************************************************************)
EXTENDS JobSelection

CONSTANTS MCJobs, MCServices

MCNodes == MCJobs \cup MCServices

MCGraphs ==
  {deps \in [MCNodes -> SUBSET MCNodes] :
     Acyclic([jobs |-> MCJobs, services |-> MCServices, deps |-> deps])}

MCStacks ==
  [jobs : {MCJobs}, services : {MCServices}, deps : MCGraphs,
   holds : [MCJobs -> SUBSET MCServices]]

MCRequests == [stack : MCStacks, root : {CHOOSE j \in MCJobs : TRUE}, chained : BOOLEAN]
=============================================================================
