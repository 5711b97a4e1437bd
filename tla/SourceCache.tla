----------------------------- MODULE SourceCache -----------------------------
(***************************************************************************)
(* A git source's cache, shared by the stacks that name its path             *)
(* (service/sources.go): cloned into a staging directory beside it, or in    *)
(* place, its remotes reconciled with what a stack declares, fetched, pulled *)
(* and pushed, one process at a time under the cache's lock                  *)
(* (primary_lock.go).                                                        *)
(*                                                                         *)
(* Stacks may declare the same cache differently. Any git call fails, any    *)
(* process is killed, and people change the cache and its path as they like. *)
(***************************************************************************)
EXTENDS Naturals, Sequences, FiniteSets, SequencesExt

CONSTANTS Procs,        \* processes, of one stack or of several
          RemoteOrder,  \* the names of remotes, sorted
          Urls,         \* the URLs they may have
          MayDeclare,   \* per process the declarations its stack goes through
          MaxChanges,   \* bound on the changes people make
          None

Remotes == ToSet(RemoteOrder)

(* manifest.Source: `remotes:` or `repo:`, the URL of each remote it declares *)
(* (a relative repo: declares none here), the canonical one, the one a cache  *)
(* is cloned from and push_default.                                           *)
Declarations == {d \in
    [form : {"remotes", "repo"}, url : UNION {[R -> Urls] : R \in SUBSET Remotes},
     canonical : Remotes \cup {None}, clone : Remotes, push : Remotes \cup {None}] :
  /\ d.canonical # None => d.form = "remotes" /\ d.canonical \in DOMAIN d.url /\ d.clone = d.canonical
  /\ d.push # None => d.push \in DOMAIN d.url /\ d.push # d.canonical}

ASSUME SourceAssumption ==
  /\ None \notin Procs \cup Remotes \cup Urls \cup {"blocked", "mine"}
  /\ RemoteOrder \in Seq(Remotes)
  /\ MayDeclare \in [Procs -> SUBSET Declarations] /\ MaxChanges \in Nat

VARIABLES
  pc,     \* where each process is
  op,     \* what it was asked for, the declaration it read, and the checkout it
          \* works on, "cache" but for a clone it makes: [verb, decl, on]
  todo,   \* the declared remotes it has still to reconcile
  stage,  \* the clone in each process's staging directory, or NoClone
  at,     \* what the cache's path holds
  conf,   \* the configuration of the checkout there
  lock,   \* who holds the cache's lock
  raw,    \* who cloned in place the checkout that is not configured yet, or None
  last,   \* the declaration last written whole into conf and not touched since, or
          \* who is writing it, or None
  killed, \* processes killed while they cloned, and not cleaned up after
  changes \* how often people changed the cache

going == <<pc, op, todo, stage, lock>>
vars == <<going, at, conf, raw, last, killed, changes>>

NoOp == [verb |-> "none", decl |-> None, on |-> "cache"]
NoClone == [url |-> [r \in Remotes |-> None], push |-> [r \in Remotes |-> None],
            pushDefault |-> None, tracks |-> None]
D(p) == op[p].decl

(* git clone --origin: one remote, tracked, and nothing else configured. *)
Cloned(d) == [NoClone EXCEPT !.tracks = d.clone,
                !.url[d.clone] = IF d.clone \in DOMAIN d.url THEN d.url[d.clone] ELSE None]

Init ==
  /\ pc = [p \in Procs |-> "idle"] /\ op = [p \in Procs |-> NoOp]
  /\ todo = [p \in Procs |-> {}] /\ stage = [p \in Procs |-> NoClone]
  /\ at \in {"absent", "empty", "foreign", "repo"} /\ conf = NoClone
  /\ lock = None /\ raw = None /\ last = None /\ killed = {} /\ changes = 0

Goto(p, place) == pc' = [pc EXCEPT ![p] = place]

(* The call returns, and with it the lock is given up. *)
Returns(p) ==
  /\ Goto(p, "idle") /\ op' = [op EXCEPT ![p] = NoOp] /\ todo' = [todo EXCEPT ![p] = {}]
  /\ lock' = IF lock = p THEN None ELSE lock

-----------------------------------------------------------------------------
(* SourceFetch, SourcePush and a bring-up: angee.yaml is read, then the lock  *)
(* is waited for. A push looks for the cache before. SourcePull is a fetch    *)
(* that ends with git pull (Finish).                                          *)

Begin(p, verb, d) ==
  /\ pc[p] = "idle" /\ d \in MayDeclare[p]
  /\ verb = "push" => at = "repo"
  /\ op' = [op EXCEPT ![p] = [verb |-> verb, decl |-> d, on |-> "cache"]] /\ Goto(p, "lock")
  /\ UNCHANGED <<todo, stage, at, conf, lock, raw, last, killed>>

TakeLock(p) ==
  /\ pc[p] = "lock" /\ lock = None /\ lock' = p
  /\ Goto(p, IF op[p].verb = "push" THEN "push" ELSE "look")
  /\ UNCHANGED <<op, todo, stage, at, conf, raw, last, killed>>

LockFails(p) ==
  /\ pc[p] = "lock" /\ Returns(p)
  /\ UNCHANGED <<stage, at, conf, raw, last, killed>>

(* remoteSync: what is new is configured, an existing checkout only when it   *)
(* is fetched or pulled.                                                      *)
Staged(p) == op[p].on = "stage"
InPlace(p) == op[p].on = "place"
Fresh(p) == Staged(p) \/ InPlace(p)
Adopts(p) == op[p].verb = "fetch"
Checkout(p) == IF Staged(p) THEN stage[p] ELSE conf

\* Mutant: a bring-up writes what it finds different.
WritesAlways(p) == op[p].verb # "none"

Writes(p) == Fresh(p) \/ Adopts(p)

Put(p, c) == IF Staged(p) THEN stage' = [stage EXCEPT ![p] = c] /\ UNCHANGED conf
                          ELSE at = "repo" /\ conf' = c /\ UNCHANGED stage
Written(p) == last' = IF last = None THEN None ELSE D(p)

Declared(d) == DOMAIN d.url

(* sortedKeys: r is the next of the names R. *)
IsFirst(r, R) ==
  /\ r \in R
  /\ \A i, j \in DOMAIN RemoteOrder :
       RemoteOrder[i] = r /\ RemoteOrder[j] \in R => i <= j

(* materializeSourceLocked: a checkout is reconciled, or in a bring-up only   *)
(* reported on; a path that holds anything else is refused.                   *)
Look(p) ==
  /\ pc[p] = "look"
  /\ \/ /\ at = "repo"
        /\ todo' = [todo EXCEPT ![p] = Declared(D(p))] /\ Goto(p, "url")
        /\ last' = IF Adopts(p) THEN p ELSE last
        /\ UNCHANGED <<op, lock>>
     \/ at \in {"absent", "empty"} /\ Goto(p, at) /\ UNCHANGED <<op, todo, lock, last>>
     \/ at = "foreign" /\ Returns(p) /\ UNCHANGED last
  /\ UNCHANGED <<stage, at, conf, raw, killed>>

(* cloneSourceCache into an existing empty directory. *)
CloneInPlace(p) ==
  /\ pc[p] = "empty" /\ at = "empty"
  /\ at' = "repo" /\ conf' = Cloned(D(p)) /\ raw' = p /\ last' = p
  /\ op' = [op EXCEPT ![p].on = "place"]
  /\ todo' = [todo EXCEPT ![p] = Declared(D(p))] /\ Goto(p, "url")
  /\ UNCHANGED <<stage, lock, killed>>

(* cloneSourceCache beside the path, after removeCloneStages has removed what *)
(* killed clones left there.                                                  *)
CloneBeside(p) ==
  /\ pc[p] = "absent"
  /\ stage' = [q \in Procs |-> IF q = p THEN Cloned(D(p)) ELSE NoClone]
  /\ killed' = {q \in killed : raw = q} /\ op' = [op EXCEPT ![p].on = "stage"]
  /\ todo' = [todo EXCEPT ![p] = Declared(D(p))] /\ Goto(p, "url")
  /\ UNCHANGED <<at, conf, lock, raw, last>>

-----------------------------------------------------------------------------
(* syncSourceRemotes: per declared remote its URL, then under `remotes:` its  *)
(* push URL; then the push default.                                           *)

\* Mutant: `repo:` reconciles push URLs too.
SyncURLAndBlock(p) == \E r \in todo[p] :
  /\ pc[p] = "url" /\ IsFirst(r, todo[p])
  /\ Put(p, IF Writes(p) THEN [Checkout(p) EXCEPT !.url[r] = D(p).url[r]] ELSE Checkout(p))
  /\ Goto(p, "block")
  /\ UNCHANGED <<op, todo, at, lock, raw, last, killed>>

(* syncRemoteURL. A remote a report finds missing has no push URL to look at. *)
SyncURL(p) == \E r \in todo[p] :
  /\ pc[p] = "url" /\ IsFirst(r, todo[p])
  /\ Put(p, IF Writes(p) THEN [Checkout(p) EXCEPT !.url[r] = D(p).url[r]] ELSE Checkout(p))
  /\ \/ D(p).form = "remotes" /\ Goto(p, "block") /\ UNCHANGED todo
     \/ D(p).form = "repo" /\ todo' = [todo EXCEPT ![p] = @ \ {r}] /\ UNCHANGED pc
  /\ UNCHANGED <<op, at, lock, raw, last, killed>>

(* syncCanonicalPushURL: a canonical remote's only push URL is the block;     *)
(* another remote loses that one and keeps a person's.                        *)
SyncBlock(p) == \E r \in todo[p] :
  LET blocked == Checkout(p).push[r] = "blocked" IN
  /\ pc[p] = "block" /\ IsFirst(r, todo[p])
  /\ Put(p, IF Writes(p) /\ (r = D(p).canonical) # blocked
            THEN [Checkout(p) EXCEPT !.push[r] = IF blocked THEN None ELSE "blocked"]
            ELSE Checkout(p))
  /\ todo' = [todo EXCEPT ![p] = @ \ {r}] /\ Goto(p, "url")
  /\ UNCHANGED <<op, at, lock, raw, last, killed>>

(* The clone is configured: one made in place is whole, one in a stage is     *)
(* still to be moved. An existing checkout is fetched.                        *)
SyncDefault(p) ==
  /\ pc[p] = "url" /\ todo[p] = {}
  /\ Put(p, IF Writes(p) /\ D(p).push # None
            THEN [Checkout(p) EXCEPT !.pushDefault = D(p).push] ELSE Checkout(p))
  /\ \/ Staged(p) /\ Goto(p, "rename") /\ UNCHANGED <<raw, last>>
     \/ InPlace(p) /\ Goto(p, "cloned") /\ raw' = None /\ Written(p)
     \/ ~Fresh(p) /\ Goto(p, "fetch") /\ UNCHANGED <<raw, last>>
  /\ UNCHANGED <<op, todo, at, lock, killed>>

(* os.Rename moves the clone to the path, over nothing or an empty directory. *)
MoveClone(p) ==
  /\ pc[p] = "rename" /\ at \in {"absent", "empty"}
  /\ at' = "repo" /\ conf' = stage[p] /\ last' = D(p) /\ stage' = [stage EXCEPT ![p] = NoClone]
  /\ raw' = None
  /\ Goto(p, "cloned")
  /\ UNCHANGED <<op, todo, lock, killed>>

(* git fetch, then adoptBaseTracking: under `remotes:` the default branch is  *)
(* made to track the clone remote's, if there is such a branch.               *)
Fetch(p) ==
  /\ pc[p] = "fetch" /\ at = "repo"
  /\ \/ ~Adopts(p) /\ Returns(p) /\ UNCHANGED <<conf, raw, last>>
     \/ /\ Adopts(p) /\ raw' = None
        /\ \/ /\ conf' = IF D(p).form = "remotes" THEN [conf EXCEPT !.tracks = D(p).clone] ELSE conf
              /\ Written(p)
           \/ /\ D(p).form = "remotes" /\ conf.tracks # D(p).clone
              /\ last' = None /\ UNCHANGED conf
        /\ Goto(p, "fetched") /\ UNCHANGED <<op, todo, lock>>
  /\ UNCHANGED <<stage, at, killed>>

(* What follows leaves the configuration alone: a pull of the new clone or of *)
(* the fetched cache, or the push of a clean one.                             *)
Finish(p) ==
  /\ pc[p] \in {"cloned", "fetched", "push"} /\ Returns(p)
  /\ UNCHANGED <<stage, at, conf, raw, last, killed>>

Cloning == {"absent", "empty", "url", "block", "rename"}

\* Mutant: a clone made in place and not configured is left where it is.
FailsLeaving(p) ==
  /\ pc[p] \in Cloning \cup {"look", "fetch"} /\ Returns(p)
  /\ stage' = [stage EXCEPT ![p] = NoClone]
  /\ UNCHANGED <<at, conf, raw, last, killed>>

(* A git call fails, or the rename does: the stage is removed, and the clone  *)
(* made in place too, which leaves its directory empty. A checkout that was   *)
(* there before keeps what was written so far.                                *)
Fails(p) ==
  /\ pc[p] \in Cloning \cup {"look", "fetch"} /\ Returns(p)
  /\ stage' = [stage EXCEPT ![p] = NoClone]
  /\ IF InPlace(p)
       THEN /\ at' = IF at = "absent" THEN "absent" ELSE "empty"
            /\ conf' = NoClone /\ raw' = None /\ last' = None
       ELSE UNCHANGED <<at, conf, raw, last>>
  /\ UNCHANGED killed

Kill(p) ==
  /\ pc[p] # "idle" /\ Returns(p)
  /\ killed' = IF Fresh(p) THEN killed \cup {p} ELSE killed
  /\ UNCHANGED <<stage, at, conf, raw, last>>

-----------------------------------------------------------------------------
(* People change the cache's remotes, and what is at its path.                *)

Change == changes < MaxChanges /\ changes' = changes + 1 /\ last' = None

Configure(r) ==
  /\ at = "repo" /\ Change
  /\ \/ \E u \in Urls : conf' = [conf EXCEPT !.url[r] = u]
     \/ conf' = [conf EXCEPT !.push[r] = "mine"]
  /\ UNCHANGED <<going, at, raw, killed>>

Replace(what) ==
  /\ at' = what /\ at # what /\ conf' = NoClone /\ Change
  /\ raw' = None
  /\ UNCHANGED <<going, killed>>

Step(p) ==
  \/ \E verb \in {"bring-up", "fetch", "push"}, d \in MayDeclare[p] : Begin(p, verb, d)
  \/ TakeLock(p) \/ LockFails(p) \/ Look(p) \/ CloneInPlace(p) \/ CloneBeside(p)
  \/ SyncURL(p) \/ SyncBlock(p) \/ SyncDefault(p) \/ MoveClone(p) \/ Fetch(p) \/ Finish(p)
  \/ Fails(p) \/ Kill(p)

People == (\E r \in Remotes : Configure(r))
            \/ (\E what \in {"absent", "empty", "foreign", "repo"} : Replace(what))

Next == (\E p \in Procs : Step(p) /\ UNCHANGED changes) \/ People

Spec == Init /\ [][Next]_vars

-----------------------------------------------------------------------------
(* Properties.                                                                *)

Places == Cloning \cup {"idle", "lock", "look", "fetch", "cloned", "fetched", "push"}
Clones == [url : [Remotes -> Urls \cup {None}], push : [Remotes -> {None, "blocked", "mine"}],
           pushDefault : Remotes \cup {None}, tracks : Remotes \cup {None}]

(* Types, and who holds the cache's lock: exactly who is at work on it. *)
TypeOK ==
  /\ pc \in [Procs -> Places] /\ conf \in Clones /\ stage \in [Procs -> Clones]
  /\ at \in {"absent", "empty", "foreign", "repo"} /\ raw \in Procs \cup {None}
  /\ \A p \in Procs : pc[p] \notin {"idle", "lock"} <=> lock = p

Fits(c, d) ==
  /\ \A r \in DOMAIN d.url :
       /\ c.url[r] = d.url[r]
       /\ d.form = "remotes" => (c.push[r] = "blocked" <=> r = d.canonical)
  /\ d.push # None => c.pushDefault = d.push
  /\ d.form = "remotes" => c.tracks = d.clone

(* The cache has the remotes of the one declaration that was last cloned or   *)
(* adopted whole, whatever other stacks bring up, push, or fail to clone      *)
(* meanwhile: never a mixture of two.                                         *)
LastAdoptedHolds ==
  (lock = None /\ last \notin Procs \cup {None}) => at = "repo" /\ Fits(conf, last)

(* A cache that is moved to its path blocks pushes to its canonical remote    *)
(* from the start, and a block is only lifted by a fetch or pull for          *)
(* `remotes:` that declare the remote and not as canonical (a `repo:` stack   *)
(* never lifts another's), or goes with a clone made in place that failed.    *)
BlocksHold == [][going' # going =>
  \A r \in Remotes :
    /\ at # "repo" /\ at' = "repo" =>
         \A p \in Procs : pc'[p] = "cloned" /\ pc[p] # "cloned" /\ D(p).canonical = r
                           => conf'.push[r] = "blocked"
    /\ at = "repo" /\ conf.push[r] = "blocked" /\ conf'.push[r] # "blocked" =>
         \E p \in Procs : \/ /\ pc[p] = "block" /\ IsFirst(r, todo[p])
                             /\ D(p).form = "remotes" /\ D(p).canonical # r /\ Writes(p)
                          \/ InPlace(p) /\ pc'[p] = "idle"]_vars

(* A clone that fails leaves nothing: neither its stage nor a checkout        *)
(* without its remotes at the path. What a killed one leaves, the next clone  *)
(* removes, or a fetch configures.                                            *)
FailedCloneLeavesNothing ==
  /\ \A p \in Procs \ killed : stage[p] # NoClone => Staged(p)
  /\ raw \notin killed \cup {None} => InPlace(raw)
=============================================================================
