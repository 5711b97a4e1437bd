----------------------------- MODULE SlotPublish -----------------------------
(***************************************************************************)
(* The verbs of jj slots that share one source cache (vcs/jjdriver): publish *)
(* and push (publish.go), sync-base and rebase (rebase.go), merge (merge.go) *)
(* and fetch, for one branch of one remote and the base on it.               *)
(*                                                                         *)
(* The slots are jj workspaces on one repository, so a bookmark, a fetched   *)
(* remote bookmark and a rewritten commit are every slot's. No verb takes    *)
(* the cache's lock, and the mutation lease is a process's own: verbs of two *)
(* processes, the agents in the slots and the remote's other users interleave*)
(* between any two jj commands.                                              *)
(*                                                                         *)
(* jj itself is modelled as the driver's comments and tests say it behaves.  *)
(* A working copy is empty and undescribed here, or the merge just made: a   *)
(* slot is where its working copy sits. What a caller or an agent names is a *)
(* commit, never another slot's working copy. Commits jj will not push, git  *)
(* worktrees of the cache, deleted bookmarks and jj's abandoning of what a   *)
(* remote dropped are left out.                                              *)
(***************************************************************************)
EXTENDS Naturals, Sequences, FiniteSets, SequencesExt

CONSTANTS Slots,
          Owner,       \* the slot whose manifest names the branch as its own
          Procs,       \* angee processes
          MaxVerbs,    \* bound on verbs
          MaxAgents,   \* bound on what the agents in the slots do
          MaxOthers,   \* bound on the commits others push to the branch
          None

ASSUME SlotPublishAssumption ==
  /\ IsFiniteSet(Slots) /\ Owner \in Slots /\ None \notin Slots \cup Nat
  /\ {MaxVerbs, MaxAgents, MaxOthers} \subseteq Nat

VARIABLES
  commits,  \* every commit there is: its change, its ancestors and itself
  tip,      \* the commit under each slot's working copy (@-)
  wc,       \* the change of each slot's working-copy commit (@)
  onMerge,  \* slots whose working copy is still the merge that was made in them
  local,    \* the targets of the local bookmark: none, one, or a conflict's
  seen,     \* the branch on the remote as the repository last saw it, or None
  tracked,  \* the repository tracks the branch there
  base,     \* the base on the remote as the repository last saw it
  branch,   \* the branch on the remote, or None
  verb,     \* what each process does: where it is, the slot, the commit its plan
            \* names, the remote branch, destination or other parent it read, the
            \* change it pinned; and, for the properties, what it owes: the changes
            \* on the branch when it was planned (held), and the other slots'
            \* commits when it was checked (spared), but for what others' rebases
            \* and bookmark moves have taken from its care since
  checked,  \* the changes that plans have checked, or found on the branch
  brought,  \* the changes that rebases and agents have put under the bookmark
            \* since a publish last set it
  verbs, agents, others  \* how many there were of each

repo == <<tip, wc, onMerge, local, seen, tracked, base>>
counts == <<verbs, agents, others>>
vars == <<commits, repo, branch, verb, checked, brought, counts>>

(* The base as the slots were cut from it, and where it is on the remote. *)
OldBase == 1
NewBase == 2

Past(c) == commits[c].past
PastOf(S) == UNION {Past(c) : c \in S}
To(x, y) == Past(y) \ Past(x)                     \* x..y
Heads(S) == {c \in S : \A d \in S \ {c} : c \notin Past(d)}
Optional(c) == {c} \ {None}

(* What jj shows: what a slot, a bookmark or a remote holds. *)
Visible == PastOf({tip[s] : s \in Slots} \cup local \cup Optional(seen) \cup {base})
Immutable == PastOf({base} \cup IF tracked THEN {} ELSE Optional(seen))

Changes(S) == {commits[c].change : c \in S}
ChangesOn(b) == Changes(PastOf(Optional(b)))
NewChange == 1 + Max(Changes(DOMAIN commits) \cup {wc[s] : s \in Slots})

Ats == {"idle", "planned", "prepared", "set", "ready", "syncing", "rebasing", "pinned", "merging", "merged"}
Idle == [at |-> "idle", slot |-> None, commit |-> None, on |-> None, change |-> None,
         held |-> {}, spared |-> {}]

-----------------------------------------------------------------------------
(* jj's own operations.                                                      *)

(* A rewrite of scope: each of its commits gets a version of the same change, *)
(* on onto's commits too if onto is one; bookmarks and working copies follow. *)
Place(scope, c) == Cardinality({d \in scope : d <= c})
Moved(scope, c) == IF c \in scope THEN Len(commits) + Place(scope, c) ELSE c

Version(scope, onto, c) ==
  [commits[c] EXCEPT !.past = {Moved(scope, d) : d \in @} \cup PastOf(Optional(onto))]

Rewrite(scope, onto) ==
  /\ commits' = commits \o [i \in 1..Cardinality(scope) |->
                              Version(scope, onto, CHOOSE c \in scope : Place(scope, c) = i)]
  /\ tip' = [s \in Slots |-> Moved(scope, tip[s])]
  /\ local' = {Moved(scope, c) : c \in local}

(* jj rebase -b: it moves the roots of onto..c that are not on onto already,   *)
(* and all above them; nothing but the change's working copy if c is onto's.  *)
Descendants(S) == {c \in Visible : Past(c) \cap S # {}}

Scope(onto, c) ==
  LET own == To(onto, c)
      roots == {r \in own : Past(r) \cap own = {r} /\ Past(r) # Past(onto) \cup {r}}
  IN Descendants(roots)

RebaseBranch(change, c, onto) ==
  /\ Scope(onto, c) \cap Immutable = {}
  /\ IF c \in Past(onto)
     THEN tip' = [s \in Slots |-> IF wc[s] = change THEN onto ELSE tip[s]] /\ UNCHANGED <<commits, local>>
     ELSE Rewrite(Scope(onto, c), onto)
  /\ brought' = brought \cup IF local \cap Scope(onto, c) = {} THEN {} ELSE Changes(Past(onto))

(* Another rebase has moved what a verb pinned: what it now shares with those *)
(* that were to be spared, that rebase has put there.                         *)
Displaced(change, c, onto) ==
  LET scope == Scope(onto, c)
  IN {change} \cup Changes(scope) \cup {wc[s] : s \in {t \in Slots : tip[t] \in scope}}

Excused(v, change, c, onto) ==
  IF v.at = "pinned" /\ v.change \in Displaced(change, c, onto)
  THEN [v EXCEPT !.spared = {x \in @ : To(v.on, onto) \cap Past(x) = {}}] ELSE v

(* The slot's working copy starts afresh on a commit; an empty one is gone.   *)
Sit(s, c) ==
  tip' = [tip EXCEPT ![s] = c] /\ wc' = [wc EXCEPT ![s] = NewChange] /\ onMerge' = onMerge \ {s}

(* A fetch: the local bookmark follows a tracked branch that moved, and is in *)
(* conflict with it once both have.                                           *)
Followed ==
  IF ~tracked \/ branch = seen THEN local
  ELSE IF local = Optional(seen) THEN {branch}
  ELSE Heads((local \ {seen}) \cup {branch})

Fetches ==
  /\ local' = Followed /\ seen' = branch /\ base' = NewBase
  /\ UNCHANGED <<commits, tip, wc, onMerge, tracked, branch, brought>>

(* jj bookmark set refuses to move a bookmark backwards or sideways. One in   *)
(* conflict may go to any commit that is ahead of one of its targets.         *)
MaySet(c) == local = {} \/ local \cap Past(c) # {}

(* jj git push: one target, a branch the repository tracks or the remote does *)
(* not have, and a lease on where it was last seen.                           *)
MayPush == Cardinality(local) = 1 /\ tracked /\ branch = seen

-----------------------------------------------------------------------------
(* Publish, and the push of a slot, which is one.                            *)

Commit(change, past) == [change |-> change, past |-> past]

(* Commit 3 is the Owner's, cut from the old base: unpublished, published, or *)
(* published and since rebased on the new base, as 4, by a sync-base.         *)
Init ==
  \E was \in {"unpublished", "published", "rebased"} :
    /\ commits = <<Commit(1, {1}), Commit(2, {1, 2}), Commit(3, {1, 3})>>
                 \o IF was = "rebased" THEN <<Commit(3, {1, 2, 4})>> ELSE <<>>
    /\ base = (IF was = "rebased" THEN NewBase ELSE OldBase)
    /\ tip = [s \in Slots |-> IF s = Owner THEN Len(commits) ELSE base]
    /\ wc = CHOOSE f \in [Slots -> 4..3 + Cardinality(Slots)] : IsInjective(f)
    /\ tracked = (was # "unpublished")
    /\ seen = (IF tracked THEN 3 ELSE None) /\ branch = seen
    /\ local = (IF tracked THEN {tip[Owner]} ELSE {})
    /\ verb = [p \in Procs |-> Idle]
    /\ checked = (IF tracked THEN {3} ELSE {}) /\ brought = {} /\ onMerge = {}
    /\ verbs = 0 /\ agents = 0 /\ others = 0

Ours(s) == Changes(To(base, tip[s]))
Foreign(s, S) == {c \in S : commits[c].change \notin Ours(s)}
Beside(s) == PastOf({tip[t] : t \in Slots \ {s}})

(* A branch the slot's manifest does not name is the slot's only if what it   *)
(* holds is: here, under no other working copy; there, at least one commit.   *)
HoldsOnlyOurs(s) ==
  /\ local \subseteq To(base, tip[s]) \ Beside(s)
  /\ seen # None => To(base, seen) # {} /\ Foreign(s, To(base, seen)) = {}

\* Mutant: what is on the remote is not looked at.
OwnBranchHere(s) == (s # Owner => HoldsOnlyOurs(s)) /\ local \subseteq Past(tip[s])

OwnBranch(s) ==
  /\ s # Owner => HoldsOnlyOurs(s)
  /\ seen # None => Foreign(s, To(tip[s], seen)) = {}
  /\ local \subseteq Past(tip[s])

Pending(s) == To(IF seen = None THEN base ELSE seen, tip[s])

Plan(p, s) ==
  /\ verb[p].at = "idle" /\ verbs < MaxVerbs /\ s \notin onMerge
  /\ seen # None => tracked
  /\ Pending(s) # {}
  /\ OwnBranch(s)
  /\ verb' = [verb EXCEPT ![p] = [Idle EXCEPT !.at = "planned", !.slot = s, !.commit = tip[s],
                                             !.held = ChangesOn(seen)]]
  /\ checked' = checked \cup Changes(Pending(s)) \cup ChangesOn(seen)
  /\ verbs' = verbs + 1 /\ UNCHANGED <<commits, repo, branch, brought, agents, others>>

Step(p, at) == verb' = [verb EXCEPT ![p].at = at]
Ends(p) == verb' = [verb EXCEPT ![p] = Idle]

\* Mutant: whatever the slot sits on by now is what is published.
PrepareAfresh(p) ==
  /\ verb[p].at = "planned"
  /\ verb' = [verb EXCEPT ![p].at = "prepared", ![p].on = seen, ![p].commit = tip[verb[p].slot]]
  /\ UNCHANGED <<commits, repo, branch, checked, brought, counts>>

(* The slot must still sit on the plan's commit. *)
Prepare(p) ==
  /\ verb[p].at = "planned"
  /\ IF tip[verb[p].slot] # verb[p].commit \/ verb[p].slot \in onMerge THEN Ends(p)
     ELSE verb' = [verb EXCEPT ![p].at = "prepared", ![p].on = seen]
  /\ UNCHANGED <<commits, repo, branch, checked, brought, counts>>

SetBookmark(p) ==
  /\ verb[p].at = "prepared"
  /\ IF ~MaySet(verb[p].commit) THEN Ends(p) /\ UNCHANGED <<local, brought>>
     ELSE /\ Step(p, IF verb[p].on = None THEN "set" ELSE "ready")
          /\ local' = {verb[p].commit} /\ brought' = {}
  /\ UNCHANGED <<commits, tip, wc, onMerge, seen, tracked, base, branch, checked, counts>>

(* A branch the remote did not have is tracked there, as jj's push needs. *)
TrackNew(p) ==
  /\ verb[p].at = "set" /\ Step(p, "ready")
  /\ tracked' = TRUE
  /\ local' = IF tracked THEN local ELSE Heads(local \cup Optional(seen))
  /\ UNCHANGED <<commits, tip, wc, onMerge, seen, base, branch, checked, brought, counts>>

Push(p) ==
  /\ verb[p].at = "ready" /\ Ends(p)
  /\ IF MayPush THEN \E c \in local : branch' = c /\ seen' = c
     ELSE UNCHANGED <<branch, seen>>
  /\ UNCHANGED <<commits, tip, wc, onMerge, local, tracked, base, checked, brought, counts>>

-----------------------------------------------------------------------------
(* Fetch, sync-base and rebase, merge.                                       *)

Fetch(p) ==
  /\ verb[p].at = "idle" /\ verbs < MaxVerbs /\ verbs' = verbs + 1
  /\ Fetches /\ UNCHANGED <<verb, checked, agents, others>>

Rebases(p, s, at) ==
  /\ verb[p].at = "idle" /\ verbs < MaxVerbs /\ verbs' = verbs + 1
  /\ verb' = [verb EXCEPT ![p] = [Idle EXCEPT !.at = at, !.slot = s]]
  /\ UNCHANGED <<checked, agents, others>>

(* Onto the base, fetched first; onto whatever its caller names.              *)
SyncBase(p, s) == Rebases(p, s, "syncing") /\ Fetches
Rebase(p, s) == Rebases(p, s, "rebasing") /\ UNCHANGED <<commits, repo, branch, brought>>

(* What the rebase of a slot rewrites is the slot's alone, and mutable. *)
CheckScope(p) ==
  /\ verb[p].at \in {"syncing", "rebasing"}
  /\ \E onto \in IF verb[p].at = "syncing" THEN {base} ELSE Visible :
       LET s == verb[p].slot
           scope == Descendants(To(onto, tip[s]))
           theirs == {tip[t] : t \in Slots \ {s}}
       IN IF scope \cap (Immutable \cup theirs) # {} THEN Ends(p)
          ELSE verb' = [verb EXCEPT ![p].at = "pinned", ![p].on = onto, ![p].change = wc[s],
                                    ![p].spared = theirs]
  /\ UNCHANGED <<commits, repo, branch, checked, brought, counts>>

(* The commit of a change, if it is one and no other: for a working copy, the *)
(* commit under it.                                                           *)
Pinned(change) ==
  {tip[s] : s \in {t \in Slots : wc[t] = change}} \cup {c \in Visible : commits[c].change = change}

RebaseOf(p, pin) ==
  /\ verb[p].at = "pinned"
  /\ LET v == verb[p]
         c == CHOOSE d \in pin : TRUE
     IN IF Cardinality(pin) # 1 \/ Scope(v.on, c) \cap Immutable # {}
        THEN Ends(p) /\ UNCHANGED <<commits, tip, local, brought>>
        ELSE /\ RebaseBranch(v.change, c, v.on)
             /\ verb' = [q \in Procs |-> IF q = p THEN Idle ELSE Excused(verb[q], v.change, c, v.on)]
  /\ UNCHANGED <<wc, onMerge, seen, tracked, base, branch, checked, counts>>

\* Mutant: what the slot sits on by then is rebased.
RebaseCurrent(p) == RebaseOf(p, {tip[verb[p].slot]})

RebasePinned(p) == RebaseOf(p, Pinned(verb[p].change))

(* Merge of what its caller names, the branch on the remote (None) or one     *)
(* commit: on the commit the slot sat on when it was read. Then the merge is  *)
(* the slot's working copy, until jj new has put a fresh one on it.           *)
Named(ref) == IF ref = None THEN seen ELSE ref

MergeReads(p, s) ==
  /\ verb[p].at = "idle" /\ verbs < MaxVerbs /\ verbs' = verbs + 1 /\ s \notin onMerge
  /\ \E ref \in {None} \cup Visible :
       /\ Named(ref) # None /\ Named(ref) \notin Past(tip[s])
       /\ verb' = [verb EXCEPT ![p] = [Idle EXCEPT !.at = "merging", !.slot = s, !.commit = tip[s], !.on = ref]]
  /\ UNCHANGED <<commits, repo, branch, checked, brought, agents, others>>

NewCommit(change, past) == commits' = Append(commits, Commit(change, past \cup {Len(commits) + 1}))

MergeMakes(p) ==
  /\ verb[p].at = "merging" /\ Step(p, "merged")
  /\ NewCommit(NewChange, Past(verb[p].commit) \cup Past(Named(verb[p].on)))
  /\ tip' = [tip EXCEPT ![verb[p].slot] = Len(commits) + 1]
  /\ wc' = [wc EXCEPT ![verb[p].slot] = NewChange + 1]
  /\ onMerge' = onMerge \cup {verb[p].slot}
  /\ UNCHANGED <<local, seen, tracked, base, branch, checked, brought, counts>>

(* jj new may fail, and the slot stays on its merge until somebody runs it.   *)
MergeEnds(p) ==
  /\ verb[p].at = "merged" /\ Ends(p)
  /\ onMerge' = onMerge \ {verb[p].slot} \/ UNCHANGED onMerge
  /\ UNCHANGED <<commits, tip, wc, local, seen, tracked, base, branch, checked, brought, counts>>

-----------------------------------------------------------------------------
(* The agents in the slots, who also rebase with plain jj and put the         *)
(* bookmark anywhere; and the remote's other users, who add a commit to the   *)
(* branch or amend its last one.                                              *)

AgentCommits(s) ==
  /\ s \notin onMerge /\ NewCommit(wc[s], Past(tip[s])) /\ Sit(s, Len(commits) + 1)
  /\ UNCHANGED <<local, verb, brought>>

AgentStarts(s) ==
  /\ s \in onMerge /\ onMerge' = onMerge \ {s}
  /\ UNCHANGED <<commits, tip, wc, local, verb, brought>>

AgentAmends(s) ==
  /\ tip[s] \notin Immutable
  /\ Rewrite(Descendants({tip[s]}), None) /\ UNCHANGED <<wc, onMerge, verb, brought>>

AgentMoves(s) ==
  /\ \E c \in {base} \cup {tip[t] : t \in Slots \ {s}} : c # tip[s] /\ Sit(s, c)
  /\ UNCHANGED <<commits, local, verb, brought>>

AgentRebases(s) ==
  /\ \E onto \in Visible :
       /\ RebaseBranch(wc[s], tip[s], onto)
       /\ verb' = [q \in Procs |-> Excused(verb[q], wc[s], tip[s], onto)]
  /\ UNCHANGED <<wc, onMerge>>

(* What the agent leaves out of a bookmark that a publish has set is no longer *)
(* that publish's to keep.                                                    *)
AgentMarks ==
  /\ \E c \in Visible :
       /\ local' = {c} /\ brought' = brought \cup Changes(Past(c))
       /\ verb' = [q \in Procs |-> IF verb[q].at \in {"set", "ready"}
                                  THEN [verb[q] EXCEPT !.held = @ \cap Changes(Past(c))] ELSE verb[q]]
  /\ UNCHANGED <<commits, tip, wc, onMerge>>

Agent(s) ==
  /\ agents < MaxAgents /\ agents' = agents + 1
  /\ AgentCommits(s) \/ AgentStarts(s) \/ AgentAmends(s) \/ AgentMoves(s) \/ AgentRebases(s) \/ AgentMarks
  /\ UNCHANGED <<seen, tracked, base, branch, checked, verbs, others>>

OthersPush ==
  /\ others < MaxOthers /\ others' = others + 1
  /\ \/ NewCommit(NewChange, Past(IF branch = None THEN NewBase ELSE branch))
     \/ branch # None /\ NewCommit(commits[branch].change, Past(branch) \ {branch})
  /\ branch' = Len(commits) + 1
  /\ UNCHANGED <<repo, verb, checked, brought, verbs, agents>>

Next ==
  \/ \E p \in Procs, s \in Slots : Plan(p, s) \/ SyncBase(p, s) \/ Rebase(p, s) \/ MergeReads(p, s)
  \/ \E p \in Procs : \/ Prepare(p) \/ SetBookmark(p) \/ TrackNew(p) \/ Push(p) \/ Fetch(p)
                       \/ CheckScope(p) \/ RebasePinned(p) \/ MergeMakes(p) \/ MergeEnds(p)
  \/ \E s \in Slots : Agent(s)
  \/ OthersPush

Spec == Init /\ [][Next]_vars

-----------------------------------------------------------------------------
(* Every commit knows its ancestors, which are older or versions of older     *)
(* ones; slots, bookmarks and verbs name commits there are.                   *)
CommitsOK ==
  /\ commits \in Seq([change : Nat, past : SUBSET DOMAIN commits])
  /\ \A c \in DOMAIN commits :
       c \in Past(c) /\ Past(c) \subseteq 1..c /\ \A d \in Past(c) : Past(d) \subseteq Past(c)

RepoOK ==
  /\ tip \in [Slots -> DOMAIN commits] /\ wc \in [Slots -> Nat]
  /\ local \subseteq DOMAIN commits /\ {seen, branch} \subseteq DOMAIN commits \cup {None}
  /\ base \in {OldBase, NewBase} /\ tracked \in BOOLEAN /\ onMerge \subseteq Slots
  /\ checked \subseteq Nat /\ brought \subseteq Nat

Verbs(ids) ==
  [at : Ats, slot : Slots \cup {None}, commit : ids \cup {None}, on : ids \cup {None},
   change : Nat \cup {None}, held : SUBSET Nat, spared : SUBSET ids]

TypeOK ==
  /\ CommitsOK /\ RepoOK
  /\ verb \in [Procs -> Verbs(DOMAIN commits)]
  /\ verbs \in 0..MaxVerbs /\ agents \in 0..MaxAgents /\ others \in 0..MaxOthers

Pushing(p) == verb[p].at = "ready" /\ verb'[p].at = "idle" /\ branch' # branch

(* A commit that was on the branch, and fetched, when a publish was planned   *)
(* is still there, in some version, once the publish pushed: whatever was     *)
(* fetched, published, merged, rebased and amended meanwhile, unless an agent  *)
(* has put the bookmark where it is not.                                      *)
FetchedWorkStays == [][\A p \in Procs : Pushing(p) =>
  ChangesOn(branch) \cap verb[p].held \subseteq ChangesOn(branch')]_vars

(* What a push sends, a plan checked or found on the branch, or it is a new    *)
(* version of that; or a rebase, or an agent, has put it under the bookmark   *)
(* since a publish set it, as neither the set nor the push prevents.          *)
OnlyCheckedIsPushed == [][\A p \in Procs : Pushing(p) =>
  Changes(To(NewBase, branch')) \subseteq checked \cup ChangesOn(branch) \cup brought]_vars

(* A rebase rewrites nothing another slot sat on when it was checked, but for *)
(* what others' rebases have put under the slot or the slot under since.      *)
RebaseSparesOthers == [][\A p \in Procs : verb[p].at = "pinned" /\ verb'[p].at = "idle" =>
  \A c \in verb[p].spared : \A s \in Slots \ {verb[p].slot} : tip[s] = c => tip'[s] = c]_vars
=============================================================================
