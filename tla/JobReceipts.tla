---------------------------- MODULE JobReceipts -----------------------------
(***************************************************************************)
(* Who may run a job and who may write its receipt: JobRunStart, the end   *)
(* of executeJobRun, JobRunGet and readJobReceipt (internal/service/       *)
(* jobs.go, job_receipts.go) in several processes on one stack root, with  *)
(* the in-process mutation lease (platform.go), the root lock              *)
(* (fslock) and processes that die at any moment.  What a run does between *)
(* its start and its end is JobRun's.                                      *)
(***************************************************************************)
EXTENDS Naturals, Sequences, FiniteSets

CONSTANTS
  Procs,     \* processes: the operator daemon and CLI invocations
  Readers,   \* requests that poll receipts
  Home,      \* the process that serves each reader
  Ids,       \* operation ids
  Retain,    \* maxRetainedJobRuns
  None      \* the root lock is free

ASSUME JobReceiptsAssumption ==
  /\ Home \in [Readers -> Procs]
  /\ Retain \in Nat \ {0}
  /\ Procs \cap Readers = {}
  /\ None \notin Procs \cup Readers \cup Ids

VARIABLES
  lease,     \* mutationLease of each process: free or held
  root,      \* the holder of run/operator.lock
  kind,      \* the mutation a process has under way: a job run or another one
  pc,        \* where that mutation is
  id,        \* the operation a process runs
  active,    \* activeJobRun
  mem,       \* jobRuns: the receipts each process keeps in memory
  order,     \* jobRunOrder
  disk,      \* state/job-runs
  result,    \* the outcome a process is about to publish
  rpc,       \* where each reader is
  rid,       \* the operation it reads
  told       \* history: the terminal outcomes readers have been given

shared  == <<lease, root>>
runs    == <<kind, pc, id, active, result>>
memory  == <<mem, order>>
reading == <<rpc, rid>>
vars    == <<shared, runs, memory, disk, reading, told>>

Pending   == "pending"
Running   == "running"
Succeeded == "succeeded"
Failed    == "failed"
Absent    == "absent"
Terminal  == {Succeeded, Failed}
Open      == {Pending, Running}
Statuses  == Open \cup Terminal

Executing == {"executing", "retrying", "publishing"}
Live(p) == pc[p] \in Executing

Init ==
  /\ lease = [p \in Procs |-> "free"]
  /\ root = None
  /\ kind = [p \in Procs |-> "none"]
  /\ pc = [p \in Procs |-> "idle"]
  /\ id = [p \in Procs |-> None]
  /\ active = [p \in Procs |-> FALSE]
  /\ mem = [p \in Procs |-> [i \in Ids |-> Absent]]
  /\ order = [p \in Procs |-> << >>]
  /\ disk = [i \in Ids |-> Absent]
  /\ result = [p \in Procs |-> Absent]
  /\ rpc = [r \in Readers |-> "idle"]
  /\ rid = [r \in Readers |-> None]
  /\ told = [i \in Ids |-> {}]

-----------------------------------------------------------------------------
(***************************************************************************)
(* Mutations.  A second one in the same process is refused with CONFLICT   *)
(* at once (beginMutation); one in another process waits for the root lock *)
(* until its context or ANGEE_LOCK_TIMEOUT ends the wait.                  *)
(***************************************************************************)
BeginMutation(p, k) ==
  /\ pc[p] = "idle" /\ lease[p] = "free"
  /\ lease' = [lease EXCEPT ![p] = "held"]
  /\ kind' = [kind EXCEPT ![p] = k]
  /\ pc' = [pc EXCEPT ![p] = "waiting"]
  /\ UNCHANGED <<root, id, active, result, memory, disk, reading, told>>

\* The mutation's goroutine is over; the request's locals go with it.
EndMutation(p) ==
  /\ lease' = [lease EXCEPT ![p] = "free"]
  /\ pc' = [pc EXCEPT ![p] = "idle"]
  /\ kind' = [kind EXCEPT ![p] = "none"]
  /\ id' = [id EXCEPT ![p] = None]
  /\ result' = [result EXCEPT ![p] = Absent]

GiveUp(p) ==
  /\ pc[p] = "waiting"
  /\ EndMutation(p)
  /\ UNCHANGED <<root, active, memory, disk, reading, told>>

\* Mutant: the root lock is not awaited.
TakeRootAnyway(p) ==
  /\ pc[p] = "waiting"
  /\ root' = p
  /\ pc' = [pc EXCEPT ![p] = "preparing"]
  /\ UNCHANGED <<lease, kind, id, active, result, memory, disk, reading, told>>

TakeRoot(p) ==
  /\ pc[p] = "waiting" /\ root = None
  /\ root' = p
  /\ pc' = [pc EXCEPT ![p] = "preparing"]
  /\ UNCHANGED <<lease, kind, id, active, result, memory, disk, reading, told>>

ReleaseAll(p) == root' = None /\ EndMutation(p)

\* Mutant: the error path releases the root lock but not the lease.
PrepareFailsLeaking(p) ==
  /\ pc[p] = "preparing"
  /\ root' = None
  /\ pc' = [pc EXCEPT ![p] = "idle"]
  /\ UNCHANGED <<lease, kind, id, active, result, memory, disk, reading, told>>

\* stackPrepareLocked, the load or the job's lookup fails.
PrepareFails(p) ==
  /\ pc[p] = "preparing"
  /\ ReleaseAll(p)
  /\ UNCHANGED <<active, memory, disk, reading, told>>

\* Any other mutation keeps the lease but not the root lock (stackPrepare).
StackPrepared(p) ==
  /\ pc[p] = "preparing" /\ kind[p] = "stack"
  /\ root' = None
  /\ pc' = [pc EXCEPT ![p] = "acting"]
  /\ UNCHANGED <<lease, kind, id, active, result, memory, disk, reading, told>>

StackDone(p) ==
  /\ pc[p] = "acting"
  /\ EndMutation(p)
  /\ UNCHANGED <<root, active, memory, disk, reading, told>>

-----------------------------------------------------------------------------
\* rememberJobRun: the oldest receipt in memory makes room for the newest.
Remember(p, i) ==
  LET longer == Append(order[p], i)
  IN  IF Len(longer) <= Retain
      THEN /\ order' = [order EXCEPT ![p] = longer]
           /\ mem' = [mem EXCEPT ![p][i] = Pending]
      ELSE /\ order' = [order EXCEPT ![p] = Tail(longer)]
           /\ mem' = [mem EXCEPT ![p] =
                [@ EXCEPT ![i] = Pending, ![Head(longer)] = Absent]]

\* Mutant: the root lock is released when the run is prepared.
RegisterUnlocked(p, i) ==
  /\ pc[p] = "preparing" /\ kind[p] = "job" /\ ~active[p]
  /\ disk[i] = Absent
  /\ disk' = [disk EXCEPT ![i] = Pending]
  /\ Remember(p, i)
  /\ active' = [active EXCEPT ![p] = TRUE]
  /\ id' = [id EXCEPT ![p] = i]
  /\ pc' = [pc EXCEPT ![p] = "executing"]
  /\ root' = None
  /\ UNCHANGED <<lease, kind, result, reading, told>>

\* The rest of JobRunStart, under jobRunsMu; the id is a fresh one.
Register(p, i) ==
  /\ pc[p] = "preparing" /\ kind[p] = "job" /\ ~active[p]
  /\ disk[i] = Absent
  /\ disk' = [disk EXCEPT ![i] = Pending]
  /\ Remember(p, i)
  /\ active' = [active EXCEPT ![p] = TRUE]
  /\ id' = [id EXCEPT ![p] = i]
  /\ pc' = [pc EXCEPT ![p] = "executing"]
  /\ UNCHANGED <<shared, kind, result, reading, told>>

\* The selection is refused, the receipt cannot be written, or a run is active.
RegisterFails(p) ==
  /\ pc[p] = "preparing" /\ kind[p] = "job"
  /\ ReleaseAll(p)
  /\ UNCHANGED <<active, memory, disk, reading, told>>

\* runJobGraph: the receipt in memory moves on, the one on disk follows.
Progress(p, saved) ==
  /\ pc[p] = "executing"
  /\ mem' = [mem EXCEPT ![p][id[p]] = Running]
  /\ disk' = IF saved THEN [disk EXCEPT ![id[p]] = Running] ELSE disk
  /\ UNCHANGED <<shared, runs, order, reading, told>>

\* executeJobRun persists the outcome before it publishes it.
Finish(p, o) ==
  /\ pc[p] = "executing"
  /\ disk' = [disk EXCEPT ![id[p]] = o]
  /\ result' = [result EXCEPT ![p] = o]
  /\ pc' = [pc EXCEPT ![p] = "publishing"]
  /\ UNCHANGED <<shared, kind, id, active, memory, reading, told>>

\* Mutant: a success that cannot be persisted is published all the same.
FinishUnsavedAsSuccess(p) ==
  /\ pc[p] = "executing"
  /\ result' = [result EXCEPT ![p] = Succeeded]
  /\ pc' = [pc EXCEPT ![p] = "retrying"]
  /\ UNCHANGED <<shared, kind, id, active, memory, disk, reading, told>>

\* An outcome that cannot be persisted becomes a failure, persisted again.
FinishUnsaved(p) ==
  /\ pc[p] = "executing"
  /\ result' = [result EXCEPT ![p] = Failed]
  /\ pc' = [pc EXCEPT ![p] = "retrying"]
  /\ UNCHANGED <<shared, kind, id, active, memory, disk, reading, told>>

Retry(p, saved) ==
  /\ pc[p] = "retrying"
  /\ disk' = IF saved THEN [disk EXCEPT ![id[p]] = Failed] ELSE disk
  /\ pc' = [pc EXCEPT ![p] = "publishing"]
  /\ UNCHANGED <<shared, kind, id, active, result, memory, reading, told>>

\* One critical section of jobRunsMu: no reader of this process sees between.
Publish(p) ==
  /\ pc[p] = "publishing"
  /\ active' = [active EXCEPT ![p] = FALSE]
  /\ ReleaseAll(p)
  /\ mem' = [mem EXCEPT ![p][id[p]] = result[p]]
  /\ UNCHANGED <<order, disk, reading, told>>

HeldIn(holder, p) == holder = p \/ (holder \in Readers /\ Home[holder] = p)

\* The process dies: its memory and its locks are gone, its files stay.
Crash(p) ==
  /\ EndMutation(p)
  /\ root' = IF HeldIn(root, p) THEN None ELSE root
  /\ active' = [active EXCEPT ![p] = FALSE]
  /\ mem' = [mem EXCEPT ![p] = [i \in Ids |-> Absent]]
  /\ order' = [order EXCEPT ![p] = << >>]
  /\ rpc' = [r \in Readers |-> IF Home[r] = p THEN "idle" ELSE rpc[r]]
  /\ rid' = [r \in Readers |-> IF Home[r] = p THEN None ELSE rid[r]]
  /\ UNCHANGED <<disk, told>>

-----------------------------------------------------------------------------
Tell(i, status) ==
  told' = IF status \in Terminal THEN [told EXCEPT ![i] = @ \cup {status}] ELSE told

\* The request is answered.
Answer(r) ==
  /\ rpc' = [rpc EXCEPT ![r] = "idle"]
  /\ rid' = [rid EXCEPT ![r] = None]

Await(r, at) == rpc' = [rpc EXCEPT ![r] = at]

Lookup(r, i) ==
  /\ rpc[r] = "idle"
  /\ Tell(i, mem[Home[r]][i])
  /\ IF mem[Home[r]][i] = Absent
     THEN Await(r, "reading") /\ rid' = [rid EXCEPT ![r] = i]
     ELSE Answer(r)
  /\ UNCHANGED <<shared, runs, memory, disk>>

\* Mutant: only a running receipt is suspected of an interruption.
ReadFileTrusting(r) ==
  /\ rpc[r] = "reading"
  /\ Tell(rid[r], disk[rid[r]])
  /\ IF disk[rid[r]] = Running THEN Await(r, "locking") /\ UNCHANGED rid ELSE Answer(r)
  /\ UNCHANGED <<shared, runs, memory, disk>>

\* readJobReceipt: a terminal receipt is the answer, an open one is suspect.
ReadFile(r) ==
  /\ rpc[r] = "reading"
  /\ Tell(rid[r], disk[rid[r]])
  /\ IF disk[rid[r]] \in Open THEN Await(r, "locking") /\ UNCHANGED rid ELSE Answer(r)
  /\ UNCHANGED <<shared, runs, memory, disk>>

\* The root lock is busy for 10 ms: the open receipt is returned as it is.
LockBusy(r) ==
  /\ rpc[r] = "locking" /\ root # None
  /\ Answer(r)
  /\ UNCHANGED <<shared, runs, memory, disk, told>>

\* Mutant: recovery does not need the root lock.
LockForRecoveryAnyway(r) ==
  /\ rpc[r] = "locking"
  /\ root' = r
  /\ Await(r, "recovering")
  /\ UNCHANGED <<lease, runs, memory, disk, rid, told>>

LockForRecovery(r) ==
  /\ rpc[r] = "locking" /\ root = None
  /\ root' = r
  /\ Await(r, "recovering")
  /\ UNCHANGED <<lease, runs, memory, disk, rid, told>>

\* The receipt is read again: it may have ended before the lock was free.
RecoverReceipt(r, saved) ==
  /\ rpc[r] = "recovering"
  /\ LET i == rid[r]
     IN  IF disk[i] \in Open
         THEN /\ disk' = IF saved THEN [disk EXCEPT ![i] = Failed] ELSE disk
              /\ told' = IF saved THEN [told EXCEPT ![i] = @ \cup {Failed}] ELSE told
         ELSE Tell(i, disk[i]) /\ UNCHANGED disk
  /\ root' = None
  /\ Answer(r)
  /\ UNCHANGED <<lease, runs, memory>>

-----------------------------------------------------------------------------
Mutate(p) ==
  \/ GiveUp(p) \/ TakeRoot(p) \/ PrepareFails(p) \/ StackPrepared(p) \/ StackDone(p)
  \/ (\E i \in Ids : Register(p, i)) \/ RegisterFails(p)

Execute(p) ==
  \/ \E saved \in BOOLEAN : Progress(p, saved) \/ Retry(p, saved)
  \/ \E o \in Terminal : Finish(p, o)
  \/ FinishUnsaved(p) \/ Publish(p)

Read(r) ==
  \/ ReadFile(r) \/ LockBusy(r) \/ LockForRecovery(r)
  \/ \E saved \in BOOLEAN : RecoverReceipt(r, saved)

Next ==
  \/ \E p \in Procs :
       (\E k \in {"job", "stack"} : BeginMutation(p, k)) \/ Mutate(p) \/ Execute(p) \/ Crash(p)
  \/ \E r \in Readers : (\E i \in Ids : Lookup(r, i)) \/ Read(r)

Spec == Init /\ [][Next]_vars

(***************************************************************************)
(* A run ends, a poll of the lock ends in the lock or in the next attempt, *)
(* and readers keep polling: `angee` clients poll until a run is terminal. *)
(* Taking a lock that others keep taking needs strong fairness (the wait   *)
(* is a 10 ms poll), and so does a write that may fail.                    *)
(***************************************************************************)
Fairness ==
  /\ \A p \in Procs :
       /\ WF_vars(Execute(p) /\ pc'[p] # pc[p])
       /\ WF_vars(PrepareFails(p) \/ StackPrepared(p) \/ StackDone(p))
       /\ SF_vars(TakeRoot(p))
  /\ \A r \in Readers :
       /\ \A i \in Ids : SF_vars(Lookup(r, i))
       /\ WF_vars(ReadFile(r))
       /\ SF_vars(LockForRecovery(r))
       /\ WF_vars(\E saved \in BOOLEAN : RecoverReceipt(r, saved))
       /\ \A i \in Ids : SF_vars(rid[r] = i /\ RecoverReceipt(r, TRUE))

FairSpec == Spec /\ Fairness
-----------------------------------------------------------------------------
TypeOK ==
  /\ lease \in [Procs -> {"free", "held"}]
  /\ root \in Procs \cup Readers \cup {None}
  /\ kind \in [Procs -> {"none", "job", "stack"}]
  /\ pc \in [Procs -> {"idle", "waiting", "preparing", "acting"} \cup Executing]
  /\ id \in [Procs -> Ids \cup {None}]
  /\ active \in [Procs -> BOOLEAN]
  /\ mem \in [Procs -> [Ids -> Statuses \cup {Absent}]]
  /\ order \in [Procs -> Seq(Ids)]
  /\ disk \in [Ids -> Statuses \cup {Absent}]
  /\ result \in [Procs -> Terminal \cup {Absent}]
  /\ rpc \in [Readers -> {"idle", "reading", "locking", "recovering"}]
  /\ rid \in [Readers -> Ids \cup {None}]
  /\ told \in [Ids -> SUBSET Terminal]

(***************************************************************************)
(* Two runs never execute on one root, in one process or in several, and   *)
(* no run executes while another mutation prepares or a reader recovers.   *)
(***************************************************************************)
OneRunAtATime ==
  \A p \in Procs : Live(p) =>
    /\ \A q \in Procs \ {p} : ~Live(q) /\ pc[q] # "preparing"
    /\ \A r \in Readers : rpc[r] # "recovering"

(***************************************************************************)
(* A live run's receipt is its own: nobody has finished it on disk while   *)
(* it executes, and what is on disk when it publishes is what it publishes *)
(* or, after two failed writes, still open.                                *)
(***************************************************************************)
LiveReceiptIsOpen ==
  \A p \in Procs :
    /\ pc[p] \in {"executing", "retrying"} => disk[id[p]] \in Open
    /\ pc[p] = "publishing" => disk[id[p]] \in Open \cup {result[p]}

\* A finished receipt is never rewritten, by a recovering reader in particular.
FinishedReceiptsStay ==
  [][\A i \in Ids : disk[i] \in Terminal => disk'[i] = disk[i]]_vars

(***************************************************************************)
(* No two readers are ever given different outcomes of one operation: from *)
(* memory or from disk, before and after crashes, evictions, failed writes *)
(* and recoveries; and "succeeded" is only told when it is durable.        *)
(***************************************************************************)
OneOutcome ==
  \A i \in Ids :
    /\ told[i] # Terminal
    /\ Succeeded \in told[i] => disk[i] = Succeeded

\* Every mutation gives the lease back, on its error paths as well.
LeaseComesBack == \A p \in Procs : lease[p] = "held" ~> lease[p] = "free"

(***************************************************************************)
(* Whoever keeps polling an operation is told an outcome, also when its    *)
(* process died ("A run interrupted when the operator stops is marked      *)
(* failed the next time its receipt is read",                              *)
(* docs/reference/operator-api.md) or could not write the outcome.  Not    *)
(* while the root never comes to rest: a reader that finds the lock busy   *)
(* each time it asks keeps answering that the run is under way.            *)
(***************************************************************************)
\* No mutation begins and no process dies; what an idle process's death could
\* not be told from, the end of a mutation or of a read, counts as that end.
Quiet ==
  \A p \in Procs :
    /\ Crash(p) => Mutate(p) \/ Execute(p) \/ \E r \in Readers : Read(r)
    /\ \A k \in {"job", "stack"} : ~BeginMutation(p, k)

PollersAreAnswered ==
  <>[][Quiet]_vars => \A i \in Ids : disk[i] \in Open ~> told[i] # {}

-----------------------------------------------------------------------------
(***************************************************************************)
(* The operations the root has promised (JobOperations).  An outcome is    *)
(* settled when it is durable, or told from memory when it could not be    *)
(* made durable.                                                           *)
(***************************************************************************)
OutcomeOf(i) ==
  IF disk[i] \in Terminal \/ told[i] = {}
  THEN CASE disk[i] = Absent -> "none"
         [] disk[i] \in Open -> "open"
         [] OTHER -> disk[i]
  ELSE Failed

LiveIds  == {id[p] : p \in {q \in Procs : Live(q)}}
Outcomes == [i \in Ids |-> OutcomeOf(i)]

Operations == INSTANCE JobOperations WITH running <- LiveIds, outcome <- Outcomes

ImplementsOperations == Operations!Spec
=============================================================================
