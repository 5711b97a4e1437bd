------------------------------- MODULE JobRun -------------------------------
(***************************************************************************)
(* The execution of one accepted job run: executeJobRun, runJobGraph and   *)
(* restoreJobHolds (internal/service/jobs.go, job_receipts.go), from the   *)
(* start of the executor goroutine to the publication of the terminal      *)
(* receipt, with the receipt on disk and its recovery after a crash.       *)
(*                                                                         *)
(* What the run acts on is outside the process and modelled by svc and     *)
(* cmd: the services' and the job commands' real state in the runtime.     *)
(* The receipt says what the operator believes of them.                    *)
(***************************************************************************)
EXTENDS Naturals, FiniteSets

CONSTANTS
  NodeNames,   \* names of jobs and services
  Rank,    \* the order of op.Nodes: jobRunNodes sorts them by name
  Runs     \* what JobRunStart may hand to the executor

Pending   == "pending"
Running   == "running"
Succeeded == "succeeded"
Failed    == "failed"
Blocked   == "blocked"

Terminal == {Succeeded, Failed, Blocked}

(***************************************************************************)
(* A run: the selection of jobRunNodes with the dependencies of its nodes. *)
(* A run without chaining selects its root and the services it holds; a    *)
(* service selected with a hold is not needed by a job of the run.         *)
(***************************************************************************)
RunType ==
  [root : NodeNames, chained : BOOLEAN, isolated : BOOLEAN,
   jobs : SUBSET NodeNames, services : SUBSET NodeNames, held : SUBSET NodeNames,
   deps : [NodeNames -> SUBSET NodeNames]]

ASSUME NamesAssumption ==
  /\ IsFiniteSet(NodeNames)
  /\ Rank \in [NodeNames -> Nat]
  /\ \A m, n \in NodeNames : Rank[m] = Rank[n] => m = n

ASSUME RunsAssumption ==
  \A r \in Runs :
    /\ r \in RunType
    /\ r.root \in r.jobs
    /\ r.jobs \cap r.services = {}
    /\ r.held \subseteq r.services
    /\ ~r.chained => r.services = r.held /\ r.jobs = {r.root}

\* What jobRunNodes accepts has an order to run in (AcceptedRunsToTheEnd of
\* JobSelection): in a held run no job needs a service of the run.
ASSUME OrderAssumption ==
  \A r \in Runs : \A finished \in SUBSET (r.jobs \cup r.services) :
    finished # r.jobs \cup r.services =>
      \E n \in (r.jobs \cup r.services) \ finished :
        /\ r.deps[n] \cap (r.jobs \cup r.services) \subseteq finished
        /\ r.held # {} /\ n \in r.services => r.jobs \subseteq finished

VARIABLES
  run,         \* the operation's immutable snapshot
  pc,          \* where the executor is
  todo,        \* nodes the executor's loop has not come to yet
  current,     \* the node whose command or apply is under way
  opStatus,    \* the operation's status in the in-memory receipt
  node,        \* the nodes' statuses in the in-memory receipt
  disk,        \* the receipt in state/job-runs
  done, failed, stopped, resuming,   \* runJobGraph's sets of the same names
  remaining, progressed,             \* runJobGraph's loop variables
  cause,       \* runErr: "none" or what went wrong
  ctx,         \* the operation context: live, canceled or expired
  svc,         \* the runtime's truth: which services run
  cmd          \* the runtime's truth: what became of each job's command

memory == <<opStatus, node>>
graph  == <<done, failed, stopped, resuming, remaining, progressed>>
world  == <<svc, cmd>>
vars   == <<run, pc, todo, current, memory, disk, graph, cause, ctx, world>>

Nodes == run.jobs \cup run.services
Outside(n) == run.deps[n] \ Nodes
Settled == done \cup failed

Alive == pc \notin {"published", "dead"}

\* Every loop over op.Nodes takes the nodes in their order.
IsNext(n) == n \in todo /\ \A m \in todo : Rank[n] <= Rank[m]

Receipt(status, nodes) == [status |-> status, node |-> nodes]

\* completedJobRun: the terminal receipt of a run that ended with error c.
CompletedNodes(c) ==
  IF c = "none" THEN node
  ELSE [n \in Nodes |-> IF node[n] = Running THEN Failed
                        ELSE IF node[n] = Pending THEN Blocked ELSE node[n]]

Completed(c) ==
  Receipt(IF c = "none" THEN Succeeded ELSE Failed, CompletedNodes(c))

\* persistJobReceipt either replaces the file whole or leaves it alone.
Write(saved, receipt) == disk' = IF saved THEN receipt ELSE disk

\* runJobGraph returns error c: its deferred cleanup comes next.
Unwind(c) == pc' = "restoring" /\ todo' = resuming' /\ cause' = c

Init ==
  /\ run \in Runs
  /\ pc = "starting"
  /\ todo = {}
  /\ current = run.root
  /\ opStatus = Pending
  /\ node = [n \in Nodes |-> Pending]
  /\ disk = Receipt(Pending, node)
  /\ done = {} /\ failed = {} /\ stopped = {} /\ resuming = {}
  /\ remaining = 0 /\ progressed = FALSE
  /\ cause = "none"
  /\ ctx = "live"
  /\ svc \in [run.services -> {"running", "stopped"}]
  /\ cmd = [j \in run.jobs |-> "idle"]

-----------------------------------------------------------------------------
(***************************************************************************)
(* Holding.  Preparing the isolated attempts can fail before any stop.     *)
(***************************************************************************)
Begin ==
  /\ pc = "starting"
  /\ opStatus' = Running
  /\ \/ pc' = "holding" /\ todo' = run.held /\ UNCHANGED <<cause, graph>>
     \/ run.isolated /\ UNCHANGED graph /\ Unwind("error")
  /\ UNCHANGED <<run, current, node, disk, ctx, world>>

HoldStops(n) ==
  /\ pc = "holding" /\ IsNext(n)
  /\ todo' = todo \ {n}
  /\ svc' = [svc EXCEPT ![n] = "stopped"]
  /\ stopped' = stopped \cup {n}
  /\ IF run.chained
     THEN node' = [node EXCEPT ![n] = Pending] /\ UNCHANGED done
     ELSE node' = [node EXCEPT ![n] = Succeeded] /\ done' = done \cup {n}
  /\ UNCHANGED <<run, pc, current, opStatus, disk, failed, resuming, remaining,
                 progressed, cause, ctx, cmd>>

\* Mutant: a failed stop is logged and forgotten.
HoldFailsSilently(n) ==
  /\ pc = "holding" /\ IsNext(n)
  /\ todo' = todo \ {n}
  /\ \E left \in {svc[n], "stopped"} : svc' = [svc EXCEPT ![n] = left]
  /\ node' = [node EXCEPT ![n] = Failed]
  /\ UNCHANGED <<run, pc, current, opStatus, disk, done, failed, stopped,
                 resuming, remaining, progressed, cause, ctx, cmd>>

\* A stop that fails may still have stopped the service.
HoldFails(n) ==
  /\ pc = "holding" /\ IsNext(n)
  /\ todo' = todo \ {n}
  /\ \E left \in {svc[n], "stopped"} : svc' = [svc EXCEPT ![n] = left]
  /\ failed' = failed \cup {n}
  /\ node' = [node EXCEPT ![n] = Failed]
  /\ UNCHANGED <<run, pc, current, opStatus, disk, done, stopped, resuming,
                 remaining, progressed, cause, ctx, cmd>>

\* Any failed stop ends the run before its first command.
HoldsFailed ==
  /\ pc = "holding" /\ todo = {} /\ failed # {}
  /\ node' = [n \in Nodes |-> IF n \in Settled THEN node[n] ELSE Blocked]
  /\ UNCHANGED <<run, current, opStatus, disk, graph, ctx, world>>
  /\ Unwind("error")

HoldsInForce(saved) ==
  /\ pc = "holding" /\ todo = {} /\ failed = {}
  /\ Write(saved, Receipt(opStatus, node))
  /\ IF saved
     THEN /\ pc' = "scanning"
          /\ remaining' = Cardinality(Nodes) - Cardinality(done)
          /\ UNCHANGED <<todo, cause, done, failed, stopped, resuming, progressed>>
     ELSE UNCHANGED graph /\ Unwind("persist")
  /\ UNCHANGED <<run, current, memory, ctx, world>>

-----------------------------------------------------------------------------
(***************************************************************************)
(* The node loop: passes over op.Nodes while nodes remain.                 *)
(***************************************************************************)
StartPass ==
  /\ pc = "scanning" /\ remaining > 0 /\ ctx = "live"
  /\ pc' = "visiting" /\ todo' = Nodes /\ progressed' = FALSE
  /\ UNCHANGED <<run, current, memory, disk, done, failed, stopped, resuming,
                 remaining, cause, ctx, world>>

\* The context is tested at the head of each pass and before each node.
ContextEnds ==
  /\ \/ pc = "scanning" /\ remaining > 0
     \/ pc = "visiting" /\ todo # {}
  /\ ctx # "live"
  /\ UNCHANGED <<run, current, memory, disk, graph, ctx, world>>
  /\ Unwind("context")

EndPass ==
  /\ pc = "visiting" /\ todo = {}
  /\ UNCHANGED <<run, current, memory, disk, graph, ctx, world>>
  /\ IF progressed
     THEN pc' = "scanning" /\ UNCHANGED <<todo, cause>>
     ELSE Unwind("no progress")

EndGraph ==
  /\ pc = "scanning" /\ remaining = 0
  /\ UNCHANGED <<run, current, memory, disk, graph, ctx, world>>
  /\ IF failed # {}
     THEN Unwind("job failed")
     ELSE pc' = "returned" /\ UNCHANGED <<todo, cause>>

\* With holds, a selected service is recovered after the last job, or never.
Recovers(n) == run.held # {} /\ n \in run.services
ChainFailed(n)  == Recovers(n) /\ run.jobs \cap failed # {}
\* Mutant: a service is recovered as soon as its own dependencies are done.
ChainPendingNever(n) == FALSE

ChainPending(n) == Recovers(n) /\ ~(run.jobs \subseteq Settled)

MustBlock(n) ==
  \/ ChainFailed(n)
  \/ ~ChainPending(n) /\ run.deps[n] \cap failed # {}

\* A prerequisite outside the run is looked up in the runtime on every visit
\* (dependencySatisfied); it may be found missing, unhealthy or unreadable.
MayBlock(n) ==
  \/ MustBlock(n)
  \/ ~ChainPending(n) /\ Outside(n) # {}

Ready(n) ==
  /\ ~MustBlock(n)
  /\ ~ChainPending(n)
  /\ run.deps[n] \cap Nodes \subseteq done

Visiting(n) == pc = "visiting" /\ ctx = "live" /\ IsNext(n)

Skip(n) ==
  /\ Visiting(n)
  /\ n \notin Settled => ~MustBlock(n) /\ ~Ready(n)
  /\ todo' = todo \ {n}
  /\ UNCHANGED <<run, pc, current, memory, disk, graph, cause, ctx, world>>

Block(n) ==
  /\ Visiting(n)
  /\ n \notin Settled /\ MayBlock(n)
  /\ todo' = todo \ {n}
  /\ node' = [node EXCEPT ![n] = Blocked]
  /\ failed' = failed \cup {n}
  /\ remaining' = remaining - 1
  /\ progressed' = TRUE
  /\ UNCHANGED <<run, pc, current, opStatus, disk, done, stopped, resuming,
                 cause, ctx, world>>

Dispatch(n, saved) ==
  /\ Visiting(n)
  /\ n \notin Settled /\ Ready(n)
  /\ node' = [node EXCEPT ![n] = Running]
  /\ Write(saved, Receipt(opStatus, node'))
  /\ IF saved
     THEN /\ pc' = "calling" /\ current' = n /\ todo' = todo \ {n}
          /\ UNCHANGED <<cause, graph>>
     ELSE UNCHANGED <<current, graph>> /\ Unwind("persist")
  /\ UNCHANGED <<run, opStatus, ctx, world>>

-----------------------------------------------------------------------------
(***************************************************************************)
(* The call to the runtime backend: runJob or applyService on `current`.   *)
(***************************************************************************)
CallJob ==
  /\ pc = "calling" /\ current \in run.jobs
  /\ pc' = "waiting"
  /\ cmd' = [cmd EXCEPT ![current] = "running"]
  /\ UNCHANGED <<run, todo, current, memory, disk, graph, cause, ctx, svc>>

\* Mutant: a service is marked as resuming only once it is known to run.
CallServiceUnmarked ==
  /\ pc = "calling" /\ current \in run.services
  /\ pc' = "waiting"
  /\ \E up \in {svc[current], "running"} :
       /\ svc' = [svc EXCEPT ![current] = up]
       /\ resuming' = IF current \in run.held /\ up = "running" /\ ctx = "live"
                      THEN resuming \cup {current} ELSE resuming
  /\ UNCHANGED <<run, todo, current, memory, disk, done, failed, stopped,
                 remaining, progressed, cause, ctx, cmd>>

\* An apply may start the service before it fails, or fail without starting it.
CallService ==
  /\ pc = "calling" /\ current \in run.services
  /\ pc' = "waiting"
  /\ resuming' = IF current \in run.held THEN resuming \cup {current} ELSE resuming
  /\ \E up \in {svc[current], "running"} : svc' = [svc EXCEPT ![current] = up]
  /\ UNCHANGED <<run, todo, current, memory, disk, done, failed, stopped,
                 remaining, progressed, cause, ctx, cmd>>

\* persistJobRun after the node's outcome, then on to the next node.
Advance(saved) ==
  /\ Write(saved, Receipt(opStatus, node'))
  /\ IF saved
     THEN /\ pc' = "visiting" /\ remaining' = remaining - 1 /\ progressed' = TRUE
          /\ UNCHANGED <<todo, cause>>
     ELSE Unwind("persist") /\ UNCHANGED <<remaining, progressed>>

Succeed(saved) ==
  /\ pc = "waiting"
  /\ IF current \in run.jobs
     THEN cmd' = [cmd EXCEPT ![current] = "ok"]
     ELSE svc[current] = "running" /\ UNCHANGED cmd
  /\ node' = [node EXCEPT ![current] = Succeeded]
  /\ done' = done \cup {current}
  /\ UNCHANGED <<failed, stopped, resuming>>
  /\ Advance(saved)
  /\ UNCHANGED <<run, current, opStatus, ctx, svc>>

Fail(saved) ==
  /\ pc = "waiting"
  /\ cmd' = IF current \in run.jobs THEN [cmd EXCEPT ![current] = "failed"] ELSE cmd
  /\ ~Recovers(current) /\ current # run.root
  /\ node' = [node EXCEPT ![current] = Failed]
  /\ failed' = failed \cup {current}
  /\ UNCHANGED <<done, stopped, resuming>>
  /\ Advance(saved)
  /\ UNCHANGED <<run, current, opStatus, ctx, svc>>

\* A failed recovery ends the run at once.
FailRecovery ==
  /\ pc = "waiting" /\ Recovers(current)
  /\ node' = [node EXCEPT ![current] = Failed]
  /\ failed' = failed \cup {current}
  /\ UNCHANGED <<done, stopped, resuming, remaining, progressed>>
  /\ Unwind("error")
  /\ UNCHANGED <<run, current, opStatus, disk, ctx, world>>

\* So does a failed root job; everything unsettled is blocked by it.
FailRoot ==
  /\ pc = "waiting" /\ current = run.root
  /\ cmd' = [cmd EXCEPT ![current] = "failed"]
  /\ failed' = Nodes \ done
  /\ node' = [n \in Nodes |-> IF n = current THEN Failed
                              ELSE IF n \in Settled THEN node[n] ELSE Blocked]
  /\ UNCHANGED <<done, stopped, resuming, remaining, progressed>>
  /\ Unwind("job failed")
  /\ UNCHANGED <<run, current, opStatus, disk, ctx, svc>>

-----------------------------------------------------------------------------
(***************************************************************************)
(* restoreJobHolds: for the services being resumed when the graph ends     *)
(* with an error, and for every held one when the terminal receipt of a    *)
(* successful run cannot be written.                                       *)
(***************************************************************************)
Restoring == pc \in {"restoring", "undoing"}

RestoreStops(n) ==
  /\ Restoring /\ IsNext(n)
  /\ todo' = todo \ {n}
  /\ svc' = [svc EXCEPT ![n] = "stopped"]
  /\ node' = [node EXCEPT ![n] = Blocked]
  /\ UNCHANGED <<run, pc, current, opStatus, disk, graph, cause, ctx, cmd>>

RestoreFails(n) ==
  /\ Restoring /\ IsNext(n)
  /\ todo' = todo \ {n}
  /\ \E left \in {svc[n], "stopped"} : svc' = [svc EXCEPT ![n] = left]
  /\ node' = [node EXCEPT ![n] = Failed]
  /\ UNCHANGED <<run, pc, current, opStatus, disk, graph, cause, ctx, cmd>>

EndRestore ==
  /\ pc = "restoring" /\ todo = {}
  /\ node' = [n \in Nodes |-> IF node[n] \in {Pending, Running} THEN Blocked
                              ELSE node[n]]
  /\ pc' = "returned"
  /\ UNCHANGED <<run, todo, current, opStatus, disk, graph, cause, ctx, world>>

\* An expired context overrides whatever the graph returned.
Complete(saved) ==
  /\ pc = "returned"
  /\ LET outcome == IF ctx = "expired" THEN "timeout" ELSE cause
     IN  /\ Write(saved, Completed(outcome))
         /\ cause' = IF ~saved /\ outcome = "none" THEN "persist" ELSE outcome
         /\ pc' = IF saved THEN "publishing"
                  ELSE IF outcome = "none" THEN "undoing" ELSE "retrying"
         /\ todo' = IF ~saved /\ outcome = "none" THEN run.held ELSE {}
  /\ UNCHANGED <<run, current, memory, graph, ctx, world>>

EndUndo ==
  /\ pc = "undoing" /\ todo = {}
  /\ pc' = "retrying"
  /\ UNCHANGED <<run, todo, current, memory, disk, graph, cause, ctx, world>>

\* A second failure to write is only logged.
Retry(saved) ==
  /\ pc = "retrying"
  /\ Write(saved, Completed(cause))
  /\ pc' = "publishing"
  /\ UNCHANGED <<run, todo, current, memory, graph, cause, ctx, world>>

\* Lease and root lock are released and the terminal receipt published.
Publish ==
  /\ pc = "publishing"
  /\ opStatus' = Completed(cause).status
  /\ node' = Completed(cause).node
  /\ pc' = "published"
  /\ UNCHANGED <<run, todo, current, disk, graph, cause, ctx, world>>

-----------------------------------------------------------------------------
\* The detached context is canceled when its daemon shuts down, or its
\* deadline (ANGEE_JOB_TIMEOUT) passes.
EndContext ==
  /\ Alive /\ ctx = "live"
  /\ ctx' \in {"canceled", "expired"}
  /\ UNCHANGED <<run, pc, todo, current, memory, disk, graph, cause, world>>

\* The process dies: its memory is gone, the lock is free, the runtime goes on.
Crash ==
  /\ Alive
  /\ pc' = "dead"
  /\ UNCHANGED <<run, todo, current, memory, disk, graph, cause, ctx, world>>

\* Mutant: the nodes that had not started are left pending.
RecoverRunningNodes ==
  /\ ~Alive /\ disk.status \notin Terminal
  /\ disk' = Receipt(Failed, [n \in Nodes |->
       IF disk.node[n] = Running THEN Failed ELSE disk.node[n]])
  /\ UNCHANGED <<run, pc, todo, current, memory, graph, cause, ctx, world>>

\* Mutant: only a running receipt is suspected of an interruption.
RecoverRunning ==
  /\ ~Alive /\ disk.status = Running
  /\ disk' = Receipt(Failed, [n \in Nodes |->
       IF disk.node[n] \in {Pending, Running} THEN Failed ELSE disk.node[n]])
  /\ UNCHANGED <<run, pc, todo, current, memory, graph, cause, ctx, world>>

\* readJobReceipt under the root lock, which a live executor never lets go.
Recover ==
  /\ ~Alive /\ disk.status \notin Terminal
  /\ disk' = Receipt(Failed, [n \in Nodes |->
       IF disk.node[n] \in {Pending, Running} THEN Failed ELSE disk.node[n]])
  /\ UNCHANGED <<run, pc, todo, current, memory, graph, cause, ctx, world>>

Executor ==
  \/ Begin
  \/ \E n \in Nodes : HoldStops(n) \/ HoldFails(n)
  \/ HoldsFailed
  \/ \E saved \in BOOLEAN : HoldsInForce(saved)
  \/ StartPass \/ ContextEnds \/ EndPass \/ EndGraph
  \/ \E n \in Nodes : Skip(n) \/ Block(n)
  \/ \E n \in Nodes, saved \in BOOLEAN : Dispatch(n, saved)
  \/ CallJob \/ CallService
  \/ \E saved \in BOOLEAN : Succeed(saved) \/ Fail(saved)
  \/ FailRecovery \/ FailRoot
  \/ \E n \in Nodes : RestoreStops(n) \/ RestoreFails(n)
  \/ EndRestore
  \/ \E saved \in BOOLEAN : Complete(saved) \/ Retry(saved)
  \/ EndUndo \/ Publish

Next == Executor \/ EndContext \/ Crash \/ Recover

Spec == Init /\ [][Next]_vars

(***************************************************************************)
(* The goroutine runs, every backend call ends (commands and readiness     *)
(* waits are bounded by the context's deadline), and somebody reads the    *)
(* receipt of a run that is over.                                          *)
(***************************************************************************)
FairSpec == Spec /\ WF_vars(Executor) /\ WF_vars(Recover)
-----------------------------------------------------------------------------
ReceiptType ==
  [status : {Pending, Running, Succeeded, Failed},
   node : [Nodes -> {Pending, Running} \cup Terminal]]

PCs == {"starting", "holding", "scanning", "visiting", "calling", "waiting",
        "restoring", "returned", "undoing", "retrying", "publishing",
        "published", "dead"}

Causes == {"none", "error", "persist", "context", "no progress", "job failed",
           "timeout"}

TypeOK ==
  /\ run \in RunType
  /\ pc \in PCs
  /\ todo \subseteq Nodes
  /\ current \in Nodes
  /\ Receipt(opStatus, node) \in ReceiptType
  /\ disk \in ReceiptType
  /\ done \subseteq Nodes /\ failed \subseteq Nodes
  /\ stopped \subseteq run.held /\ resuming \subseteq run.held
  /\ remaining \in Nat /\ progressed \in BOOLEAN
  /\ cause \in Causes
  /\ ctx \in {"live", "canceled", "expired"}
  /\ svc \in [run.services -> {"running", "stopped"}]
  /\ cmd \in [run.jobs -> {"idle", "running", "ok", "failed"}]

(***************************************************************************)
(* While the command of a selected job runs, every held service is down,   *)
(* also after the operator has died with the command under way: "Before    *)
(* any selected job command runs, the operator stops the union of those    *)
(* jobs' held services" (docs/guide/manifest.md).                          *)
(***************************************************************************)
HoldsCoverCommands ==
  \A j \in run.jobs, s \in run.held : cmd[j] = "running" => svc[s] = "stopped"

(***************************************************************************)
(* Nothing starts out of order, and an order is always found.  A command   *)
(* or an apply starts only when everything it depends on inside the run is *)
(* really there; a held service comes back only after every selected       *)
(* job's command has really succeeded (jobsPending, jobsFailed); and the   *)
(* graph never gives up with "job dependency graph cannot make progress"   *)
(* on a run jobRunNodes has accepted.                                      *)
(***************************************************************************)
OrderIsKept ==
  [][/\ pc = "calling" /\ pc' = "waiting" =>
          \A d \in run.deps[current] \cap Nodes :
            IF d \in run.jobs THEN cmd[d] = "ok" ELSE svc[d] = "running"
     /\ \A s \in run.services :
          run.held # {} /\ svc[s] = "stopped" /\ svc'[s] = "running"
            => \A j \in run.jobs : cmd[j] = "ok"
     /\ cause' # "no progress"]_vars

(***************************************************************************)
(* When the node graph ends with an error, or the terminal receipt of a    *)
(* run cannot be written, each service the run has stopped is down again,  *)
(* or its node reports that it could not be stopped (restoreJobHolds).     *)
(***************************************************************************)
ErrorsRestoreHolds ==
  pc \in {"returned", "retrying", "publishing", "published"}
    /\ cause \notin {"none", "timeout"}
  => \A s \in stopped : svc[s] = "stopped" \/ node[s] = Failed

(***************************************************************************)
(* The durable receipt never claims more than what happened, at any moment *)
(* of the run and after a crash: a job it calls succeeded has succeeded, a *)
(* succeeded run has done everything it selected, and a finished receipt   *)
(* leaves no node open.  Whoever polls gets one outcome: the published     *)
(* receipt and the durable one agree once both are terminal, also when the *)
(* terminal one could not be written and a reader recovered the file.      *)
(***************************************************************************)
ReceiptTellsTheTruth ==
  /\ \A j \in run.jobs : disk.node[j] = Succeeded => cmd[j] = "ok"
  /\ disk.status = Succeeded =>
       /\ \A n \in Nodes : disk.node[n] = Succeeded
       /\ \A s \in run.services :
            svc[s] = IF run.chained THEN "running" ELSE "stopped"
  /\ disk.status \in Terminal => \A n \in Nodes : disk.node[n] \in Terminal
  /\ pc = "published" /\ disk.status \in Terminal => disk.status = opStatus

\* Every run ends, and its durable receipt says how.
Terminates == <>(~Alive /\ disk.status \in Terminal)

=============================================================================
