# Verification of angee-operator

Angee's operator keeps a stack of services, jobs and workspaces described by an
`angee.yaml`. This directory holds TLA+ models of the parts of it where state is
shared, ordered, retried or recovered; TLC checks them on small instances, and TLAPS
proves the safety properties for every instance.

- [The system](#the-system): its components, what each keeps and does, and what is hard
- [The modules](#the-modules): which module models which code
- [The runs](#the-runs): what each checks, its bounds, its fairness
- [Where code and documentation disagree](#where-code-and-documentation-disagree)
- [The proofs](#the-proofs)
- [What is left out](#what-is-left-out)
- [The plan](#the-plan)

`PROJECT.json` ties it together: which definition models which lines (`map`), which
mutated definition shows that a property can fail (`mutants`), and which line each
hazard bites at (`hazards`).

## The system

Paths are below `src/internal/`. A *mutation* is an operation that holds the process's
stack mutation lease (`service/platform.go`, beginMutation); several processes (the
operator daemon and any number of CLI invocations) may work on one stack root.

**Job runs** (`service/jobs.go`, `service/job_receipts.go`, `service/job_output.go`).
State: per operation a receipt in memory (at most 64) and in `state/job-runs/`, the
lease, the root lock. Operations: JobRunStart selects the nodes, compiles a view of the
stack, writes the first receipt and hands over to an executor goroutine, which stops the
services the jobs hold, runs the jobs in dependency order, resumes the services, writes
the terminal receipt and publishes it; JobRun and JobRunGet read. Hard: stops, commands,
applies and writes fail or have an unknown outcome; the context is cancelled or expires;
the operator is killed; a reader in another process finds an open receipt and must tell a
live run from a dead one by a lock. Correct means: no command runs while a service it
holds may be up; held services come back after the last job or, on an error, are down;
what a receipt claims has happened; all readers are told one outcome; one run at a time;
every run ends and every poller learns how.

**Slot migration** (`service/migrate.go`, `service/migrate_marker.go`,
`copierx/aside.go`, both VCS drivers' lifecycles). State: what is at the slot's path and
at two private names, git's worktree registrations, jj's workspace and bookmark, the mode
in `angee.yaml`, the record of the migrate. Operation: turn a git worktree into a jj
workspace or back, carrying untracked and ignored entries along; roll back on any
failure; keep a record, readable by a person, of the steps that undo or finish it. Hard:
anyone may write into the checkout meanwhile; every step and every undo may fail; a kill
at any point leaves only the record. Correct means: no entry and no commit is lost, a
rollback that finishes leaves the slot as it was, the record fits the disk.

**Template updates** (`copierx/reconcile.go`, `service/template_plan.go`,
`service/service_template_update.go`, WorkspaceUpdate in `service/workspaces.go`). State:
the rendered files, the render state, `angee.yaml`. Operation: decide per path between
what was rendered, what is there and what is rendered now; refuse on conflicts; apply
with a journal; save `angee.yaml` (if it is as it was read); save the render state, which
is the commit point; roll back otherwise. Hard: editors and other processes write
meanwhile, any step fails, kills, reruns. Correct means: nobody's edit is lost, all or
nothing, a killed update can be asked for again.

**GraphQL event hub** (`operator/gql/events.go`, `operator/gql/broker.go`). State: per
broker its subscribers and their buffered channels, per poller the hash it published
last. Operations: Start, Stop, Subscribe, cancel, poll, publish. Hard: closes of one
channel by a cancel and by Stop, a subscriber that arrives as Stop passes, slow
subscribers, polls that fail. Correct means: no double close, no leak, no stale view
without the subscriber's own doing.

**Workspaces** (`service/workspaces.go`, `service/workspace_repair.go`,
`service/jj_slots.go`). State: the manifest's entry, the directory, one checkout per
source slot and its registration in the source's cache, port leases. Operations: create,
update, destroy, repair, sync-base, push. Hard: several resources per operation with one
rollback; a kill in between; people who work in the slots, push and delete; another
process that saves `angee.yaml`; a cache whose registrations are pruned for all of its
slots at once. Correct means: a failed create leaves nothing, a destroy loses no work, a
save of another process is kept.

**Sources and primary locks** (`service/sources.go`, `service/primary_lock.go`). State:
the caches under their locks, their remotes, push URLs and default. Operations:
materialize (clone in place or beside and move), fetch, pull, push. Hard: clones and
`git config` calls that fail or are killed one by one; stacks that share a cache and
declare it differently; people who reconfigure it. Correct means: a cache's remotes are
those of one declaration, never a mixture, a push block holds, a failed clone leaves
nothing.

**jj slots** (`vcs/jjdriver`, `service/gitops.go`, `service/gitops_merge.go`). State: one
jj repository under all slots of a cache: commits, a working copy per slot, bookmarks,
remote bookmarks; the branch on the remote. Operations: publish and push, fetch,
sync-base, rebase, merge. Hard: no verb takes the cache's lock, so two processes, the
agents in the slots and the remote's other users fall between any two jj commands; what
one slot fetches or rewrites, all see. Correct means: a publish sends what it checked and
drops no commit it could have seen, a rebase rewrites nothing of another slot's; where jj's
commands do not let the driver keep that, what it does keep.

**Stack and services** (`service/platform.go`, `service/runtime.go`, `service/stack.go`,
`service/services.go`, `service/stack_update.go`, `service/service_create.go`). State:
`angee.yaml`, the compiled `docker-compose.yaml` and `process-compose.yaml`, the running
services. Operations: prepare (under the root lock), up, dev, down, start, stop, restart,
init, destroy, update, create. Hard: two backends, either may fail; the root lock is
released between prepare and the backend's start; some writers of `angee.yaml` hold the
root lock and others only their own process's lease. Correct means: what runs is what
some prepare compiled, and no save of another process is lost.

**Process-compose backend** (`runtime/proccompose/backend.go`). State: the supervisor
behind a control port and its processes. Operations: up (start a supervisor, or bring
processes up through the one that serves), start, stop, restart, apply, run a job, down.
Hard: each operation is several requests, and processes end, crash, are relaunched or are
asked for by another client in between; the supervisor answers OK to updates it discards.
Correct means: what is stopped stays down, what is restarted runs what was compiled and
is bounced once, a job's answer is of its own run.

**Smaller parts.** Port pools (`ports/pool.go`: a map under a mutex), files and blob
store (`files`, `store/localfs.go`: one file per key, compare-and-set under a mutex),
secrets (`secrets`), the operator's HTTP server, tokens, log streams and error classes
(`operator`), git and jj wrappers (`git`, `vcs`), compose and edge backends (`runtime`),
manifest, substitution and queries (pure data), the command line (`cli`).

Jobs, workspaces and services call the backends and drivers synchronously; they share
`angee.yaml`, guarded within a process by the lease and, for jobs, prepares and template
updates of services, across processes by the root lock (`fslock`). Pollers and readers
take neither.

## The modules

| module | models | corresponds to the code as |
| --- | --- | --- |
| StackGraph | the closure, refusal and projection of a job request, without order | definitions over one manifest |
| JobSelection | jobRunNodes and jobOperationStack as loops over Go maps | one action per visited name, in any order |
| JobRun | executeJobRun, runJobGraph, restoreJobHolds, recovery after a crash | `pc` is the executor's place; `node`, `opStatus` the receipt in memory, `disk` the one on disk; `svc`, `cmd` the runtime's truth |
| Jobs_proofs | | theorems about JobSelection, about JobRun and about the runs the one hands to the other |
| JobOperations | what a stack root promises of job operations | abstract: at most one running, one outcome, never withdrawn |
| JobReceipts | lease, root lock, receipts, publication, readers, eviction, crashes | per process `pc`, `lease`, `mem`; `root` the lock's owner; `disk` the receipts |
| SlotMigrate | WorkspaceMigrateSlot in both directions, rollback, the record, the person who follows it | `at` what is at the three names, `files` what each checkout holds, `undo` m.undo, `marker` the record |
| SlotMigrate_proofs | | theorems about SlotMigrate |
| EventHub | one broker with its poller, subscribers, cancel and Stop | `broker`, `ch`, `watcher` the broker's map, channels and goroutines; `poller`, `last` the poll loop |
| Operator_proofs | | theorems about what clients are told: about JobReceipts and about EventHub |
| ReconcilePath | reconcilePath, the three-way decision | operators, one per branch of the code |
| WorkspaceLifecycle | WorkspaceCreate and its rollback, WorkspaceDestroy, repair, git worktree slots on one cache | `seen` the manifest a transaction read, `guard` and `dest` what GuardedPaths captured, `cut` workspaceSourceCleanup, `dir`, `slot`, `stage` what is on disk and who made it, `reg` git's registrations, `lock` the cache's |
| WorkspaceLifecycle_proofs | | theorems about WorkspaceLifecycle |
| SourceCache | materializeSource, SourceFetch, SourcePull, push of one git source's cache | `at`, `conf` the cache's path and git configuration, `stage` the clones beside it, `todo` the declared remotes still to reconcile; one action per git call |
| SourceCache_proofs | | theorems about SourceCache |
| ProcSupervisor | up, start, stop, restart, RunJob, down of local services, request by request | `man`, `file` the manifest and what is compiled from it, `proc` the supervisor's entries, `seen`, `base`, `saw` what a client has read of them |
| ProcSupervisor_proofs | | theorems about ProcSupervisor |
| SlotPublish | PlanPublish, PreparePublish, Publish, Fetch, SyncBase, Rebase, Merge of jj slots | `commits` jj's commits with their change and ancestors, `tip`, `wc` and `onMerge` the slots' working copies, `local`, `seen`, `tracked` bookmark X and X@R, `base` B, `branch` the remote's, `verb` what each process has planned |
| SlotPublish_proofs | | theorems about SlotPublish |
| TemplateReconcile | PrepareReconcile, ApplyFiles, Save, SaveState, both rollbacks, editors, a rival process, kill, rerun | `disk` entries with their inode, `guard` GuardedPath's identity, `undo` the journal, `todo` the operations in order |
| TemplateReconcile_proofs | | theorems about the decision and about the update |

The `MC...` modules give the constants values. JobReceipts implements JobOperations
(`ImplementsOperations`: the operations running are those of live processes; an outcome is
the one on disk, or the one told from memory when the disk could not be written). JobRun
takes the runs StackGraph selects (MCJobRun, and for every instance AcceptedRunsAreRuns); JobReceipts takes one executor step for a
whole JobRun.

Abstractions worth knowing:

- JobRun: an output, an input and a configuration are nothing; a command, an apply and a
  stop is an action that succeeds, fails, or fails after having done its work.
- JobReceipts: a job run is "executing" until it finishes; the stack's other mutations are
  one kind, which takes and releases the root lock while it prepares.
- SlotMigrate: an entry is a model value with a version per write, all changes to tracked
  files and commits are one item `Tracked`. A worktree's staging directory, nested
  repositories, what jj's own failed Add leaves, and the two identical record writes
  around the save are folded away. A person who follows a record and meets something in
  the way stops there. A record that no longer fits the disk (its migrate was killed
  between a step and the record's rewrite) marks the person `misled`; OldKeepsItsWork and
  HandRestores are about records that fit, EntriesSurvive about all. The bookmark is where
  it was, `set` by the migrate, `resolved` by it from a conflict, or `moved` by another
  workspace of the primary since, at any time: RestoreBookmark and the record's step set back
  only the second and leave the other two (MarkRestored), so that is all RolledBackIsWhole and
  HandRestores say of it (MarkGivenBack). RestoreBookmark's list and its set are one step; a
  move between the two is overwritten.
- SlotMigrate's `Windows = FALSE` assumes that writers do not hit between a check and the
  rename that relies on it. With TRUE, moveWithin's look and rename (`copierx/aside.go:195`)
  replace an entry that appears in between, although the comment at `aside.go:89` says an
  entry is never overwritten, and what is written between the last comparison and the
  removal of the old checkout (`migrate.go:548`) goes with it.
- WorkspaceLifecycle: each process has a lease of its own, on one `angee.yaml` and one cache;
  `Serves` says which processes may work on which workspace, several on one included. `crowded`
  names the operations that another process's has met on their workspace: FailedCreateLeavesNothing
  does not hold such a create to its directory and entry, nor WorkSurvives its rollback, since the code
  loses a second create's checkouts there (*Where code and documentation disagree*). A checkout holds no work, work that is
  neither committed nor pushed, or work that came after a destroy looked. TemplateReconcile's
  transaction, persisted paths and ports are one step that succeeds or fails. The slots an
  operation has still to look at are a set, taken in the order they are cut; a purge, which
  ranges over a Go map, takes them in the same order. `broken` names
  the operations that were killed, whose removals failed, or that undid a slot without the
  cache's lock (UndoSlotUnlocked, as the code does rather than wait): they may leave things.
- SourceCache: a checkout is its remotes' URLs, push URLs, push default and base tracking; fetched commits
  are nothing. A declaration is `remotes:` or `repo:`.
- ProcSupervisor: the supervisor is external, as backend.go describes process-compose
  v1.120 and v1.122 (both, where they differ); a request is one step, and so is what puts a
  missing process in (AddMissing: a list, a read per process and a post of the whole project,
  `backend.go:976-1053`; a process that another client adds or updates between them is dropped or
  reverted by the post, which the model leaves out). Another stack's
  supervisor on the port, the refusal of legacy shutdown timeouts, ProtectStopped and
  health are left out, and with health what waits for a service to start: a process waits for
  jobs to end (DependsOn). Three things were seen on the way, beside the one that the section on
  disagreements tells: on v1.120 a RunJob whose job still
  runs may take the end of the run it interrupts for its own, a process that was about to be
  launched when it was read, and is launched before the update, is bounced though nobody saw it live (`bounced`
  counts what was seen live, or at rest with no launch due), and a RunJob
  whose job somebody else's up has skipped afterwards may wait for its deadline
  (RunJobSeesTheEnd speaks of jobs that have run). `touched` holds the processes others have
  changed since an operation began; StopRead adds to it what a stop takes for stopped while a
  launch is due. StoppedStaysDown, RestartTakesEffect, EndsNoMoreThanNeeded and UpAsksInOrder
  promise nothing of a process touched.
- SlotPublish: a working copy is empty and undescribed, or the merge that Merge made until the
  second `jj new` has put a fresh one on it (`onMerge`; Plan and Merge refuse it, as the driver
  does a described one or one with several parents); so a slot is where it sits, and
  Ready always holds. A rebase checked while a slot is on its merge pins here the working copy
  that comes after, where the driver pins the merge's own change. What a caller names to
  merge or to rebase onto is a commit that is visible, any one, or to merge the branch on the
  remote as it is by then; another slot's working-copy commit, which is empty, is not named.
  The agents commit, start a working copy on their merge, amend, move, rebase
  onto any commit, and set the bookmark on any; that they edit a commit in place, abandon, undo, or push
  on their own is left out. `brought` and `spared` keep what the code cannot:
  what a rebase, of any process or agent, or an agent's bookmark has put under the bookmark
  since a publish set it is not held against the push (OnlyCheckedIsPushed); a rebase that has
  displaced a change that another has pinned takes from what that one is to spare the slots
  that share with the new place what the pinned destination lacks (Excused, RebaseSparesOthers);
  and an agent who puts a set bookmark where a fetched commit is not takes it from what that
  publish is to keep (FetchedWorkStays). *Where code and documentation disagree* has the first two. jj is external and does what the driver's comments and tests say: a set
  moves a conflicted bookmark ahead of any of its targets, a fetch leaves a bookmark that
  moved on both sides in conflict, a push has a lease on X@R. A sync-base of one slot checks twice what
  its rebase rewrites; the model keeps the second check. The branch and its remote are one; commits jj will not push,
  git worktrees of the cache and the sync or push of several slots at once are left out.
- EventHub: the brokers share only Start and Stop, so one is modelled, the topology's
  (polled from Start) or a workspace's (polled from its first subscriber).
- TemplateReconcile: content is one of a few fingerprints; `angee.yaml` is the set of
  updates saved in it. A guard recognises an entry by its inode, so writers *in place*
  are assumed to keep off a path between its check and the end of the update, and editors
  to keep out of the instant between the two renames; writers that replace the file come
  at any other moment.

## The runs

| run | checks | bounds and why they are enough |
| --- | --- | --- |
| job_selection | the loops compute StackGraph's closure, refuse exactly what cannot recover, project a self-contained view, and accept only runs with an order | every acyclic graph over two jobs and two services, every choice of holds, both modes: chains of up to four names, diamonds, and holds reached through a job and through a service |
| job_run | HoldsCoverCommands, ErrorsRestoreHolds, ReceiptTellsTheTruth, OrderIsKept, Terminates | the runs of MCJobRun: up to two selected jobs and two services, chained and not, held and not, with a prerequisite outside the run; every step fails at will |
| job_receipts | OneRunAtATime, LiveReceiptIsOpen, OneOutcome, ImplementsOperations | two processes, a reader in each, two operations, memory for one: eviction, two processes contending, and a reader that outlives a run all happen |
| job_receipts_live | LeaseComesBack, PollersAreAnswered | two processes, one reader, one operation (with two operations the liveness check does not end in time) |
| slot_migrate | EntriesSurvive, OldKeepsItsWork, RolledBackIsWhole, HandRestores | both directions, two entries, two writes by others at any time, a bookmark that a conflict or another workspace has moved, a kill, a person after it |
| event_hub | NoFault, ChannelsAreReleased, LatestKnown | two subscribers, buffers of one (the code has four: fewer fill sooner), two changes, so that A, B and A again happen |
| template_reconcile | OthersWorkSurvives, AllOrNothing, RerunIsClean | two rendered paths in all 36 combinations of old and new, an answers file, with and without overwrite, an edit by anyone at any time, two updates, a kill and a failure anywhere |
| workspace_lifecycle | FailedCreateLeavesNothing, CheckoutsStayRegistered, SavesAreKept, WorkSurvives | two processes, one operation each, both on a workspace of two slots (one optional) or one of them on another of one slot, in one cache; whatever an earlier time may have left of the first, nothing of the second (SecondIsNew; with all it is the same, in 6.0 million states and too long); each step fails, each process is killed, people write, push and delete anywhere |
| source_cache | LastAdoptedHolds, FailedCloneLeavesNothing, BlocksHold | two processes of two stacks that go through three declarations of two remotes, one of them the other way round and one a `repo:`; any number of operations, one change by a person |
| proc_supervisor | AnswersAfresh, StoppedStaysDown, RestartTakesEffect, EndsNoMoreThanNeeded, UpAsksInOrder, RunJobSeesTheEnd | two clients, two operations, a service that waits for a job, a manifest that gains the job; a run after the first does not crash. Every pair of operations meets at every request |
| slot_publish | FetchedWorkStays, OnlyCheckedIsPushed, RebaseSparesOthers | two slots, two processes, two verbs, one act of an agent, two pushes by others, from an unpublished, a published and a rebased slot: a publish meets a fetch, a rebase, a merge or another publish in every order, with a collaborator's push and an act of an agent in between; 1.5 million states |

Each module with state defines a type invariant (TypeOK; HubTypeOK in EventHub, whose
names stand beside JobReceipts' in one proof module). All are proved (below).

CHECK_DEADLOCK is off where the modelled operations end or are bounded.

Fairness. JobRun: the executor's goroutine goes on and a dead operator's receipt is read
some day (weak). JobReceipts: a process that acts goes on (weak); it gets the root lock if
that is free again and again (strong: flock is retried), and so does a reader that keeps
polling; a write that is tried again and again does not fail for ever (strong).
PollersAreAnswered is stated for roots that come to rest: a reader which finds the lock
busy each time rightly goes on saying that the run is under way. EventHub: a
`select` between the ticker and the context is random, so a poller whose context is done
ends (strong), and not every read fails (strong); everything else is a runnable goroutine
(weak), the subscriber's own receive included. The other runs check safety only: what
they wait for (a lock another process holds, a supervisor, git) promises nothing in the code.

## Where code and documentation disagree

The first is a run expected to be violated (**slot_migrate_hand**), and a finding in
`PROJECT.json`; the others TLC showed as the modules were written, and each is a hazard
there, with a note.

- The record of a rollback killed half way asks the person to remove a checkout at the
  slot's path, where the old one may be back (`service/migrate.go:1143`; the comment at
  1186 and `docs/guide/commands.md:959` say otherwise).
- A deadline that passes after a job graph has succeeded turns the run into a failed one
  whose held services keep running (`service/jobs.go:471`); `docs/guide/commands.md:482`
  says that failure leaves them stopped.
- A reader in another process is told the terminal receipt from disk while the run still
  owns the root lock and the lease (`service/jobs.go:477`); the comment at 495 says never.
- A migrate killed after it set the slot's bookmark, or between the two renames of a
  record's rewrite, leaves something out of the record (`service/migrate.go:676`), against
  `CHANGELOG.md:163`.
- WriteFile "atomically replaces" a file (`copierx/reconcile.go:1917`) by two renames; in
  between, and after a kill there, the stack has no `angee.yaml`.
- Two processes create one workspace: the second finds the directory the first has made,
  takes it for a leftover and cuts its slots in it; when the first fails, its rollback
  removes the directory with them (`service/workspaces.go:183`), although the comment at 174
  says it rolls back only what it materialized. WorkSurvives without its exception for a
  create that has met another shows it.
- A publish plans; others push a commit to the branch, and a second process fetches it, which leaves a
  rebased slot's bookmark in conflict; the first sets the bookmark, which resolves the
  conflict, and pushes with a lease that passes: the others' commit is gone
  (`vcs/jjdriver/publish.go:521`). PlanPublish refuses the same state when it is there before the plan (ownBranch;
  `docs/guide/commands.md:836`). FetchedWorkStays, without its restriction to what had been
  fetched before the plan, shows it in seven steps.
- PreparePublish says that what is pushed is what PlanPublish checked
  (`vcs/jjdriver/publish.go:502`). Between its set of the bookmark and Publish's push, a second process
  rebases the slot onto another slot's commit (WorkspaceSourceRebase takes any ref), and jj takes the bookmark
  along, or an agent moves it: commits that no plan checked are sent, and the read-back
  (592) only warns. OnlyCheckedIsPushed without `brought` shows it.
- Rebase says that it rebases exactly what it checked, or fails (`vcs/jjdriver/rebase.go:107`). Between
  checkScope and rebasePinned a second process or the agent rebases the slot onto another slot's
  commit; the working copy keeps its change, so the pin still names one commit, and `jj rebase -b`
  moves the other slot's commit too (134). RebaseSparesOthers without Excused shows it.
- A service that v1.120 shows as it last ended while its next launch is due (a start, an up or a
  restart was asked for, and what it waits for has not come) is `alreadyStopped`: a stop skips it
  and answers ok, and the launch follows (`runtime/proccompose/backend.go:198` and 261). The comment at
  229 wants every named process absent or stopped, where a transitional one "may still
  launch" and so is not (258); the status does not tell. StoppedStaysDown without StopRead's
  change of `touched` shows it.
- `angee down` skips a backend whose compiled file is gone (`service/runtime.go:418`), as
  when the last local service was removed; `docs/guide/commands.md:282` promises a full
  shutdown.

## The proofs

Eight modules hold theorems; TLAPS checks every leaf. Each theorem is about every value of
the constants that the named assumptions allow. What the run of the same property showed on
a small instance guided the proof: every part of the invariants below was checked by TLC
before it was proved.

`Operator_proofs` proves, of the receipts, for any processes, readers, operations and memory bound
(assumptions: JobReceiptsAssumption, that is, readers and processes differ, each reader
lives in a process, memory holds at least one receipt): Typing, RunsExclude
(OneRunAtATime), LiveReceiptsAreOwned, ReadersAgreeForEver (OneOutcome), ReceiptsAreFinal
and ReceiptsImplementOperations. None of these is inductive. The invariant is
`IInv == TypeOK /\ LockInv /\ IdInv /\ DiskInv /\ OutcomeInv`: LockInv ties the root lock's
owner to who prepares, executes or recovers, which excludes them from each other; IdInv says
that operations of different processes differ and that a process in a run has one; DiskInv
that a live run's receipt is open or its own; OutcomeInv that what readers were told is what
the disk says, or a failure no one can contradict any more. Each action preserves each part
by a step of its own; refinement follows from the same invariant, the interesting steps
being FinishUnsaved and Publish, where the outcome is settled without the disk.

Of the event hub it proves, for any finite set of subscribers, any snapshots and any buffer
(HubAssumption) that the state keeps its types, the buffers their bound (HubTyping), and that
no channel is closed twice or sent on when closed (ChannelsCloseOnce: NoFault). NoFault is not
inductive; ChannelInv adds why: a registration belongs to the broker or to Close, never to
both, and is closed only by who takes it away; ReadInv adds that what a poller compares it
has read.

`TemplateReconcile_proofs` proves first, for any fingerprints (AbsentAssumption), what the
decision for one path guarantees: without --overwrite nothing local is replaced, removed or
brought back (LocalWorkIsKept), every decision but a conflict leaves the path as rendered
(UpdatesConverge), and a path already carried out is no conflict for a rerun, whether the
render state is the old one or lost between its renames (RerunsDoNotConflict). Then, for any
paths, answers files, fingerprints and numbers of edits and runs (ReconcileAssumption: the
names differ, an edit writes something that was not there before), that the update keeps its
types (ReconcileTyping), OthersWorkAlwaysSurvives, UpdatesAreAllOrNothing (AllOrNothing) and
RerunsAreClean (RerunIsClean). The invariant's parts: OrderInv (the paths, then `angee.yaml`,
then the render state; the file at hand is the one journaled last); FreshInv (what an edit is
still to write is nowhere yet); EditSeenInv (an edit shows either in the check against what
Prepare saw or, once a path is in the journal, in its inode); RivalInv (an `angee.yaml` the
other process saved has its inode, so the guard tells it from the update's own); UndoInv
(what is not as Prepare saw it is in the journal, with what to put back); DoneInv (what is
managed and no longer to do is as rendered) and CleanInv (while nobody edits, only the path
at hand is neither as it was nor as rendered). RerunsAreClean applies RerunsDoNotConflict to
each path CleanInv speaks of.

`Jobs_proofs` proves, of the selection, for any manifests whose dependencies and holds are declared in
them (RequestsAssumption, which ValidateExtended checks) that the loops keep their types
(SelectionTyping: a root that is no job is refused before them, RootIsJob) and that the
projection is self-contained (ProjectionsAreSelfContained: a kept name that is no longer
queued has brought in what it needs, ProjectionInv, and the queue ends empty). OrderDoesNotMatter
(SelectionIsTheClosure) rests on GrowByCloses: as many rounds as there are names give the least set
that is closed under the rules (the recursive function is unfolded by a least counterexample
over its rounds), and on LoopInv: what the loops have selected is within that set, and closed itself when
a pass has changed nothing. AcceptedRunsHaveAnOrder
(AcceptedRunsToTheEnd) rests on SelectionHasAnOrder, and that on the acyclicity that StackGraph's definitions require: a
non-empty set of nodes that have not run, each waiting for another of them, would be a cycle.
AcceptedRunsAreRuns then says that the run of every accepted request is one JobRun assumes: of
the shape of RunsAssumption and with the order of OrderAssumption. What is proved of the
execution so holds of whatever the selection accepts.

Of the execution it proves, for any runs and any graph (RunsAssumption: the shape of a run;
OrderAssumption: that a run has an order) RunTyping, HoldsAlwaysCover, ErrorsAlwaysRestore,
ReceiptsTellTheTruth and OrderIsAlwaysKept. The invariant's parts: CountInv (the loop's place and
count), CommandInv (a command belongs to the node the executor is at), SettledInv and ReadyInv (what
has been settled ran after its dependencies), HoldInv (which services are down, by how far
the stops have come), RestoreInv (which have been resumed, by how far the restore has),
BeliefInv and OutcomeInv (what memory and disk claim of a node, a step behind what happened) and
ProgressInv.

`SourceCache_proofs` proves for any stacks, remotes and declarations CacheTyping,
OneDeclarationHolds (LastAdoptedHolds), FailedClonesLeaveNothing and BlocksAlwaysHold. While
nobody writes, the cache is as the declaration `last` says (LastInv); `last` names the process
while it writes, and then all remotes but those it has in `todo` are as it declares
(WriterInv, StagedInv for a clone not yet in place). A change by people takes the mark away.

`WorkspaceLifecycle_proofs` proves for any processes, workspaces and slots, however the processes
share workspaces, LifecycleTyping, CheckoutsAlwaysRegistered, SavesAlwaysKept,
FailedCreatesLeaveNothing and WorkAlwaysSurvives, all that the run checks. The
invariant: LockInv (the cache's lock is with who is in a locked section), KindInv and HandInv
(what each operation may be in the middle of), KnownInv (operation numbers are new), StageInv, RegInv,
EmptyInv and CleanInv (who made each stage, registration and directory, and what is in them),
DestInv, PastInv, StagedInv and CutInv (what an operation knows of slots it has looked at,
staged and cut), and CrowdInv (of two processes on one workspace, one of them at work, both
have met the other). AloneInv adds what holds of an operation nobody has met: the directory is as its
process left it (DirInv), what is in it is its own (OwnInv), and the entry is as
saved (SavedInv). The lemmas of the form "what a step does to a slot" (which steps
change it, and to what) carry most of these proofs.

`ProcSupervisor_proofs` proves for any angee processes, services, jobs, dependencies, requests
and versions of the manifest (SupervisorAssumption: `None` is no process and no entry; there are
finitely many processes and each set of them has an order, which compiling refuses a cycle for; a run names one job, everything else
services) SupervisorTyping, StoppedForGood (StoppedStaysDown), AnswersOfItsOwn (AnswersAfresh),
RestartsForReal (RestartTakesEffect), RunsAreAnswered (RunJobSeesTheEnd), EndsAreNeeded
(EndsNoMoreThanNeeded) and AsksInOrder (UpAsksInOrder), all that the run checks. AnyStep says of any step what it may do to one process: keep it
(Kept), what the supervisor does by itself (Itself: launch, skip, end, relaunch), or what a
request makes of it (Asked, whose Change lists the outcomes); and that a step of somebody else
leaves a call as it was and is remembered in `touched` (Foreign). The invariant's parts: PlaceInv (where a call can
be, by its verb, what it holds and what is at hand); EntryInv (a launch is due of nothing that runs, a run is
younger than those that ended); StopInv (what a stop has found or made stopped
is down, and what it has read and has still to stop is not at rest with a launch due, unless touched), from which HeldInv; RestartInv (the entry is as it was read, due, skipped,
disabled, gone or a newer run: Since); AnswerInv (whatever the job's entry says that it did not say at
the baseline is of a later run, and an end is remembered by `saw` only after the request); LiveInv (a live
process has a pid, a job that ended by itself the pid of that run) and SeesInv (once its request is
answered, the job is due, of another run than the baseline's, skipped or disabled: Awaited), from
which RunsAreAnswered. LookInv and AheadInv say what an operation holds: states it has read of
processes it has still to do, none of them missing since, and what it found at rest with no
launch due as it was found. Brings says what every step of an operation does with these: it
gets ready, reads, works at the process at hand, or goes past it. BounceInv counts: what the update ended
is relaunched or startable (SpentOf), so the restart that follows ends nothing. UpInv keeps the
order: what a process of the plan waits for is ahead of it in the plan, or not disabled; up leaves
nothing disabled behind.

`SlotMigrate_proofs` proves for any entries and any number of writes (EntriesAssumption) Typed
(TypeOK), RolledBackWhole (RolledBackIsWhole) and HandRestoring (HandRestores), and, with
`Windows = FALSE`, EntriesAreKept (EntriesSurvive) and OldWorkIsKept (OldKeepsItsWork). Those two
are false without the hypothesis: with a write between a check and its use the copies the
abstractions above name are lost. The others need none: a rollback answers for what was in the slot
at first, which no window replaces, and where the slot and its private names are does not
depend on what is written into them. The argument has five layers.
StackInv and OrderInv: what was done last is undone first, in the rollback and in every record
(Rank), and what makes a new checkout or carries an entry comes with the way back of the old
one (Paired). CopyInv, FreshInv, FoundInv and LookInv (EntryInv): every copy is in one of the
checkouts, entries are listed before a new checkout can be removed, and what is looked up for
a rename is still missing where it goes. HomeInv and ZeroInv: until the migrate is saved, what was
done to the slot has its undo, and what was there first is there, kept beside it, or carried
and due to be carried back; an entry looked up for a rename is still to be carried, or is
missing in the old checkout as it was at first (LookedInv), so no rename replaces one of these. UndoFits and RecordInv: at every moment the undos in memory fit the
disk (FitsUndo: each thing that is not as it was has a step), and so does the record, or it is
one of the five cases of Stale; FitsCleanup says the same of the record once the mode is saved.
HandFits: each step a person takes leaves the rest fitting, hence the end whole; the order
gives each step what it needs (MoveBack after RemoveNew, Forget before RemoveAside), so only
something that a writer or a tool has put in the way stops that person.

`SlotPublish_proofs` proves for any finite set of slots, any processes and any numbers of
verbs, of acts of the agents and of pushes by others (SlotPublishAssumption) SlotTyping
(TypeOK), FetchedWorkIsKept (FetchedWorkStays), PushesAreChecked (OnlyCheckedIsPushed) and
RebasesSpareOthers (RebaseSparesOthers), all that the run checks. Rewritten says what
jj's rewrite makes of the graph: Place numbers what is rewritten from one, in order (Places),
so every commit that moves has one version, of the same change, on the versions of its ancestors,
and nothing there was changes (Extends, Kept). RepoStep lists the ways a step can change the
repository and VerbStep those it can change a process's verb; each part of the invariant is
shown to survive both. RootInv: the base's two commits are where they were. FreshInv: every working
copy has a change of its own that no commit has. VerbInv: a verb under way has its slot, its
commit and its destination, and these do not show the new base before it is fetched (Known). BaseInv: nor
does anything visible. BranchInv: the branch
has all it was last seen with. HeldInv: what a plan found on the branch is under the
commit it sets, then under every target of the bookmark, unless it is gone from the branch as
last seen, or an agent has put the bookmark elsewhere; a set by another process keeps that because jj moves bookmarks only ahead of one
of their targets (MaySet). CheckedInv: what the bookmark has above the base was checked, is on the
branch, or was brought under it: a rewrite puts nothing under the bookmark but what it is moved onto (Rewriting), and
that is in `brought`. SparedInv: of what a pinned rebase would move, now or when the
pinned change has got a later commit, nothing is under a commit it is to spare; another's rebase
that puts the change on a commit of which that is false has been taken into account (Clears). OnlyCheckedIsPushed
allows for what a plan found on the branch: others may amend that away again, and be fetched
by a rebase, before the push; the run's two pushes by others are too few to show it, more are not.
None of the three allowances is vacuous: the run, without `brought`, without Excused or without
AgentMarks' part of `held`, finds each property violated.

Only model-checked: the liveness properties, since fairness and ENABLED are outside the
prover's reach.

## What is left out

Data and wording (outputs, inputs, error texts, hints), rendering, the merge of a service
document into the manifest, persist paths, empty-parent pruning, dry runs; the query a
subscriber issues beside its subscription; platform-specific files for Windows; of
workspaces the ports, parent stacks, chained templates, clone slots, and the sync and push of several slots in
a row; of jj slots the claiming of names, jj's own undo of a failed Add, several remotes;
of git slots the merge and rebase that stop on a conflict, and what continues or
aborts them; containers (Compose is asked once per operation, and what it does is its
own); transient jobs and foreground up. Generated code, the command line, thin wrappers
(compose, edge, git) and pure data (queries, substitution, validation) carry no protocol
and are not modelled: they are most of the implementation's lines. The rest of what
was seen on the way and no property covers: a `workspace push` of a git slot is not held
to its remote's `branches`, a rebase may rewrite what another workspace stacks on the
slot between its check and its run, a merge leaves behind what an agent commits between
its read and its making.

## The plan

1. **StackPrepare**: who holds the lease and the root lock while `angee.yaml` and the two
   runtime files are read and written, by several processes.
2. **StackUpdate**: TemplateReconcile's transaction with several documents and the service
   created beside it.
3. Sync-base and push over several slots; git slots' merge and rebase with their conflicts.
4. **EventHub** with the subscriber's own query, for the A, B, A hazard.
