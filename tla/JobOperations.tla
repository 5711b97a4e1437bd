--------------------------- MODULE JobOperations ----------------------------
(***************************************************************************)
(* What a stack root promises of its job operations, whatever processes    *)
(* serve it and however they die: at most one operation runs at a time, an *)
(* operation settles once, and only one that is still running can succeed. *)
(* JobReceipts implements it.                                              *)
(***************************************************************************)
CONSTANTS Ids

VARIABLES
  running,   \* the operations under way
  outcome    \* what readers can learn of each operation

vars == <<running, outcome>>

Init ==
  /\ running = {}
  /\ outcome = [i \in Ids |-> "none"]

Start(i) ==
  /\ running = {}
  /\ outcome[i] = "none"
  /\ running' = {i}
  /\ outcome' = [outcome EXCEPT ![i] = "open"]

Succeed(i) ==
  /\ i \in running
  /\ outcome[i] = "open"
  /\ outcome' = [outcome EXCEPT ![i] = "succeeded"]
  /\ UNCHANGED running

\* An operation fails by itself, or is found interrupted after it stopped.
Fail(i) ==
  /\ outcome[i] = "open"
  /\ outcome' = [outcome EXCEPT ![i] = "failed"]
  /\ UNCHANGED running

\* The operation is over, or its process has died.
Stop(i) ==
  /\ running = {i}
  /\ running' = {}
  /\ UNCHANGED outcome

Next == \E i \in Ids : Start(i) \/ Succeed(i) \/ Fail(i) \/ Stop(i)

Spec == Init /\ [][Next]_vars
=============================================================================
