------------------------ MODULE MCWorkspaceLifecycle ------------------------
(* Instances of WorkspaceLifecycle for TLC. *)
EXTENDS WorkspaceLifecycle

CONSTANTS p1, p2, w1, w2, a, b, c

(* Two workspaces on one source cache, the first with an optional slot and     *)
(* asked for by both processes, the second by one and still to be created.     *)
TwoWorkspaces == w1 :> <<a, b>> @@ w2 :> <<c>>
Asked == {<<p1, w1>>, <<p2, w1>>, <<p2, w2>>}

SecondIsNew == Init /\ manifest[w2] = NoEntry /\ dir[w2] = None
SharedSpec == SecondIsNew /\ [][Next]_vars
=============================================================================
