--------------------------- MODULE MCProcSupervisor ---------------------------
(* A service that waits for a job, in a manifest that changes both.            *)
EXTENDS ProcSupervisor, TLC

CONSTANTS a, b, web, init

Waits == web :> {init} @@ init :> {}
Edits == <<{web}, {web, init}>>
Asked == {[verb |-> v, names |-> {web}] : v \in {"up", "start", "stop", "restart"}} \cup
         {[verb |-> "up", names |-> {}], [verb |-> "run", names |-> {init}], [verb |-> "down", names |-> {}]}
Alike == Permutations(Clients)
=============================================================================
