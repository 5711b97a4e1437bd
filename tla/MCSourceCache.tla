---------------------------- MODULE MCSourceCache ----------------------------
(* An instance of SourceCache for TLC. *)
EXTENDS SourceCache

CONSTANTS p1, p2, origin, upstream, ours, theirs

Names == <<origin, upstream>>

(* A fork and the canonical project, under two namings; the project as       *)
(* `repo:`.                                                                  *)
Forked == [form |-> "remotes", url |-> origin :> ours @@ upstream :> theirs,
           canonical |-> upstream, clone |-> upstream, push |-> origin]
Swapped == [form |-> "remotes", url |-> origin :> theirs @@ upstream :> ours,
            canonical |-> origin, clone |-> origin, push |-> upstream]
Repo == [form |-> "repo", url |-> origin :> theirs, canonical |-> None, clone |-> origin, push |-> None]

Stacks == p1 :> {Forked, Swapped} @@ p2 :> {Repo}
=============================================================================
