--------------------------- MODULE ProcSupervisor ---------------------------
(***************************************************************************)
(* Local services and jobs under one process-compose supervisor: what angee  *)
(* asks of it (runtime/proccompose/backend.go) when several angee processes  *)
(* bring up, start, stop, restart, run and take down at once                 *)
(* (service/runtime.go), each from what it compiled (service/platform.go).   *)
(*                                                                         *)
(* The supervisor is external: what it does with a request, and when it      *)
(* runs, ends and relaunches a process, is what backend.go says of       *)
(* process-compose v1.120 and v1.122. A request is one step; everything      *)
(* happens between two requests, but for the few that put a missing process  *)
(* in (AddMissing). Each stack has a control port of its own.                *)
(***************************************************************************)
EXTENDS Naturals, Sequences, FiniteSets, SequencesExt

CONSTANTS Clients,     \* angee processes; each runs one operation at a time
          Services, Jobs,
          DependsOn,   \* the jobs whose end a process waits for, by process
          Local,       \* the local processes of each version of the manifest
          Requests,    \* what angee is asked for: records [verb, names]
          MaxOps,      \* bound on the operations asked for
          LastCrash,   \* bound: a run after this one of its process does not crash
          None

Procs == Services \cup Jobs
Versions == 1..Len(Local)
Verbs == {"up", "start", "stop", "restart", "run", "down"}

\* The processes' orders in which each comes after what it waits for.
Orders(P) == {s \in SetToSeqs(P) : \A i, j \in DOMAIN s : s[i] \in DependsOn[s[j]] => i < j}

\* What a supervisor says of a process.
Entries == [st : {"absent", "disabled", "pending", "running", "restarting", "terminating",
                  "completed", "error", "skipped"},
            pid : Nat, end : Nat, ver : 0..Len(Local), dis : BOOLEAN,
            due : {"no", "up", "asked", "free"}]

ASSUME SupervisorAssumption ==
  /\ None \notin Clients \cup Entries /\ IsFiniteSet(Procs) /\ Services \cap Jobs = {}
  /\ DependsOn \in [Procs -> SUBSET Jobs] /\ \A P \in SUBSET Procs : Orders(P) # {}
  /\ Requests \subseteq [verb : Verbs, names : SUBSET Procs]
  /\ \A r \in Requests : IF r.verb = "run" THEN \E j \in Jobs : r.names = {j} ELSE r.names \subseteq Services
  /\ Local \in Seq(SUBSET Procs) /\ Len(Local) > 0
  /\ MaxOps \in Nat /\ LastCrash \in Nat

VARIABLES
  man,      \* the version of the manifest
  file,     \* the version process-compose.yaml was compiled from, 0 without the file
  root,     \* who holds the root lock
  serving,  \* whether a supervisor serves the control port
  proc,     \* its processes
  runs,     \* per process its launches so far, the last one's pid
  ops,      \* operations asked for
  pc,       \* where each client is
  op,       \* what it was asked for
  ver,      \* the version it compiled, or read from the file
  todo,     \* the processes it has still to do, in order
  seen,     \* the states it read
  base,     \* the job's pid and end time before RunJob touched it
  saw,      \* whether a poll saw the job under way
  ended,    \* per job its last run that ended
  since,    \* per client, the job's last run that had ended when its RunJob began
  bounced,  \* live processes it ended while it brought the one at hand up
  touched,  \* the processes others changed since it began, and those a stop took
            \* for stopped although their launch was due
  held      \* processes a stop left down and nobody asked for since

env == <<man, file, root, ops>>
sup == <<serving, proc, runs, ended>>
call == <<op, ver, todo, seen, base, saw, since>>
ghost == <<bounced, touched, held>>
vars == <<env, sup, pc, call, ghost>>

NoOp == [verb |-> "none", names |-> {}]
Ends == {"ok", "failed", "answered"}
Steps == {"lock", "load", "probe", "daemon", "await", "read_file", "read", "up",
          "activate", "confirm", "start", "start_named", "stop_read", "stop", "stop_check",
          "before", "apply", "restart", "baseline", "poll", "down"}

----------------------------------------------------------------------------
(* The supervisor's processes. `pid` and `end` name the run they are of, 0    *)
(* when unset; `due` says that a launch is due, and whether `up` asked for    *)
(* it. v1.120 keeps the state of the run before until it runs, v1.122     *)
(* starts from a blank one.                                                  *)
Absent == [st |-> "absent", pid |-> 0, end |-> 0, ver |-> 0, dis |-> FALSE, due |-> "no"]
Pending(v, dis, who) == [st |-> "pending", pid |-> 0, end |-> 0, ver |-> v, dis |-> dis, due |-> who]
Replaced(v, dis, who) ==
  IF dis THEN [Pending(v, dis, "no") EXCEPT !.st = "disabled"] ELSE Pending(v, dis, who)

Terminal(e) == e.st \in {"completed", "error", "skipped"}
Live(e) == e.st \in {"running", "terminating"}
AtRest(e) == Terminal(e) \/ e.st = "disabled"
Startable(e) == AtRest(e) /\ e.due = "no"

\* A launch or a relaunch will come of itself. angee sees it in the state only.
AboutToRun(e) == e.due # "no" \/ e.st \in {"pending", "restarting"}

\* A run ends; the end time is set only while it is unset.
Over(e, st) == [e EXCEPT !.st = st, !.end = IF @ = 0 THEN e.pid ELSE @]
Again(e, who, reuse) ==
  IF reuse THEN [(IF AtRest(e) THEN e ELSE Over(e, "completed")) EXCEPT !.due = who]
  ELSE Pending(e.ver, e.dis, who)

\* What angee makes of a state. A transitional one is not stopped.
AlreadyStoppedNotRunning(e) == ~Live(e)
AlreadyStopped(e) == Terminal(e) \/ e.st = "disabled"

RelaunchedOncePosted(before, after) == after.st # "absent"
ProcessRelaunched(before, after) ==
  /\ after.st \notin {"absent", "disabled"}
  /\ \/ before.st = "absent"
     \/ after.pid # before.pid
     \/ (Terminal(before) /\ ~Terminal(after))

UpStarts(e, named) == e.st = "disabled" \/ (Terminal(e) /\ named)

AnySample(c, e) == TRUE
NewEnd(c, e) == (e.end # 0 /\ e.end # base[c].end) \/ saw[c]
FreshSample(c, e) ==
  \/ e.end # 0 /\ e.end # base[c].end
  \/ e.pid # 0 /\ e.pid # base[c].pid
  \/ saw[c]

\* The roots and what they wait for, each after what it waits for.
Closed(S, local) == \A p \in S : DependsOn[p] \cap local \subseteq S
UpByName(roots, local) == SetToSeq(roots \cap local)
UpOrder(roots, local) ==
  LET needed(p) == \A S \in SUBSET local : roots \subseteq S /\ Closed(S, local) => p \in S
  IN  CHOOSE s \in Orders({p \in local : needed(p)}) : TRUE

----------------------------------------------------------------------------
NoSeen == [p \in Procs |-> None]

\* What an earlier `up` left, maybe of an older manifest and a part of the stack.
Was(v, st) == [Over(Replaced(v, FALSE, "no"), st) EXCEPT !.pid = 1, !.end = IF st = "running" THEN 0 ELSE 1]
Init ==
  /\ man \in Versions /\ file = man /\ root = None /\ ops = 0
  /\ serving \in BOOLEAN /\ runs = [p \in Procs |-> 1]
  /\ \E v \in 1..man :
       proc \in [Procs -> {Absent, Replaced(v, TRUE, "no"), Replaced(v, FALSE, "asked")} \cup
                          {Was(v, st) : st \in {"running", "restarting", "completed", "error"}}]
       /\ \A p \in Procs : (proc[p] = Absent) = (~serving \/ p \notin Local[v])
  /\ \A j \in Jobs : proc[j].st \notin {"restarting", "pending"}
  /\ \A p \in Services : proc[p].st # "error"
  /\ ended = [j \in Jobs |-> proc[j].end]
  /\ pc = [c \in Clients |-> "idle"] /\ op = [c \in Clients |-> NoOp]
  /\ ver = [c \in Clients |-> 0] /\ todo = [c \in Clients |-> <<>>]
  /\ seen = [c \in Clients |-> NoSeen] /\ saw = [c \in Clients |-> FALSE]
  /\ base = [c \in Clients |-> [pid |-> 0, end |-> 0]] /\ since = [c \in Clients |-> 0]
  /\ bounced = [c \in Clients |-> 0] /\ touched = [c \in Clients |-> {}] /\ held = {}

Goto(c, l) == pc' = [pc EXCEPT ![c] = l]
Keeps == UNCHANGED <<op, ver, todo, seen, base, saw, since>>
OnlyTo(c, l) == Goto(c, l) /\ Keeps /\ UNCHANGED <<env, sup, ghost>>

\* A request that changes processes, and what it did to others' calls.
Touch(c, P) == [d \in Clients |-> touched[d] \cup (IF d = c \/ pc[d] = "idle" THEN {} ELSE P)]
Changes(c, new) ==
  LET P == DOMAIN new
      cut == {p \in P : Live(proc[p]) /\ ~Live(new[p])}
  IN  /\ proc' = [p \in Procs |-> IF p \in P THEN new[p] ELSE proc[p]]
      /\ ended' = [j \in Jobs |-> IF j \in cut THEN proc[j].pid ELSE ended[j]]
      /\ bounced' = [bounced EXCEPT ![c] =
           @ + Cardinality({p \in cut \ touched[c] :
                              seen[c][p] # None /\ ~AboutToRun(seen[c][p])})]
      /\ touched' = Touch(c, P)
      /\ held' = held \ {p \in P : new[p].due # "no"}
      /\ UNCHANGED <<serving, runs>>

ChangesOne(c, p, e) == Changes(c, [q \in {p} |-> e])

Hand(c) == Head(todo[c])
Now(c) == proc[Hand(c)]
Named(c) == Hand(c) \in op[c].names
Advance(c, l) ==
  /\ Goto(c, l) /\ todo' = [todo EXCEPT ![c] = Tail(@)]
  /\ seen' = [seen EXCEPT ![c][Hand(c)] = None]
  /\ UNCHANGED <<env, op, ver, base, saw, since>>

----------------------------------------------------------------------------
(* An operation: service up, start, stop, restart, `angee dev -d` (up of     *)
(* nothing named), job run, down.                                            *)
Begin(c, r) ==
  /\ pc[c] = "idle" /\ ops < MaxOps
  /\ op' = [op EXCEPT ![c] = r] /\ ops' = ops + 1
  /\ Goto(c, IF r.verb = "down" THEN "down" ELSE "lock")
  /\ UNCHANGED <<man, file, root, sup, ver, todo, seen, base, saw, since, ghost>>

\* A call that came back.
Rest(c) ==
  /\ pc[c] \in Ends /\ Goto(c, "idle")
  /\ root' = IF root = c THEN None ELSE root
  /\ op' = [op EXCEPT ![c] = NoOp] /\ ver' = [ver EXCEPT ![c] = 0]
  /\ todo' = [todo EXCEPT ![c] = <<>>] /\ seen' = [seen EXCEPT ![c] = NoSeen]
  /\ base' = [base EXCEPT ![c] = [pid |-> 0, end |-> 0]] /\ saw' = [saw EXCEPT ![c] = FALSE]
  /\ since' = [since EXCEPT ![c] = 0] /\ bounced' = [bounced EXCEPT ![c] = 0]
  /\ touched' = [touched EXCEPT ![c] = {}]
  /\ held' = held \cup (IF op[c].verb = "stop" /\ pc[c] = "ok" THEN op[c].names \ touched[c] ELSE {})
  /\ UNCHANGED <<man, file, ops, sup>>

\* stackPrepareLocked: the manifest is compiled under the root lock, and the
\* compiled file written, or removed when it would be empty.
Prepare(c) ==
  /\ pc[c] = "lock" /\ root = None /\ op[c].verb # "run"
  /\ file' = IF Local[man] = {} THEN 0 ELSE man
  /\ ver' = [ver EXCEPT ![c] = man] /\ Goto(c, "load")
  /\ UNCHANGED <<man, root, ops, sup, op, todo, seen, base, saw, since, ghost>>

PrepareRun(c) ==
  /\ pc[c] = "lock" /\ root = None /\ op[c].verb = "run"
  /\ root' = c /\ ver' = [ver EXCEPT ![c] = man] /\ todo' = [todo EXCEPT ![c] = SetToSeq(op[c].names)]
  /\ Goto(c, IF op[c].names \subseteq Local[man] THEN "baseline" ELSE "failed")
  /\ UNCHANGED <<man, file, ops, sup, op, seen, base, saw, since, ghost>>

\* The stack is loaded again, and the names looked up in it.
LoadStack(c) ==
  LET r == op[c] IN
  /\ pc[c] = "load"
  /\ Goto(c, IF ~(r.names \subseteq Local[man]) THEN "failed"
             ELSE IF r.verb = "up" /\ Local[ver[c]] = {} THEN "ok"
             ELSE IF r.verb = "start" THEN "start_named"
             ELSE IF r.verb = "restart" THEN "before" ELSE "probe")
  /\ todo' = [todo EXCEPT ![c] = IF r.verb = "up" THEN <<>> ELSE SetToSeq(r.names)]
  /\ UNCHANGED <<env, sup, op, ver, seen, base, saw, since, ghost>>

----------------------------------------------------------------------------
\* Up and Stop ask first whether a supervisor serves.
Probe(c) ==
  /\ pc[c] = "probe"
  /\ Goto(c, IF op[c].verb = "stop" THEN (IF serving THEN "stop_read" ELSE "ok")
             ELSE IF serving THEN "read_file" ELSE "daemon")
  /\ Keeps /\ UNCHANGED <<env, sup, ghost>>

\* `up -D` forks a daemon, which dies on a port that was taken meanwhile.
UpDaemon(c) ==
  /\ pc[c] = "daemon"
  /\ IF file = 0 THEN OnlyTo(c, "failed") ELSE
     /\ Goto(c, "await") /\ Keeps /\ UNCHANGED env
     /\ LET roots == IF op[c].names = {} THEN Local[file] ELSE op[c].names
            up == Range(UpOrder(roots, Local[file])) IN
        IF serving THEN UNCHANGED <<sup, ghost>> ELSE
        /\ serving' = TRUE
        /\ proc' = [p \in Procs |-> IF p \in Local[file] THEN Replaced(file, p \notin up, "up") ELSE Absent]
        /\ touched' = Touch(c, Procs)
        /\ held' = held \ up
        /\ UNCHANGED <<runs, ended, bounced>>

AwaitSupervisor(c) ==
  /\ pc[c] = "await" /\ OnlyTo(c, IF serving THEN "ok" ELSE "failed")

\* upThroughSupervisor: the file, then every state, then one process at a time.
ReadFile(c) ==
  /\ pc[c] = "read_file"
  /\ IF file = 0 \/ ~(op[c].names \subseteq Local[file]) THEN OnlyTo(c, "failed") ELSE
     /\ ver' = [ver EXCEPT ![c] = file]
     /\ todo' = [todo EXCEPT ![c] =
          UpOrder(IF op[c].names = {} THEN Local[file] ELSE op[c].names, Local[file])]
     /\ Goto(c, "read")
     /\ UNCHANGED <<env, sup, op, seen, base, saw, since, ghost>>

UpRead(c) ==
  LET left == {i \in DOMAIN todo[c] : seen[c][todo[c][i]] = None}
      next == todo[c][CHOOSE i \in left : \A k \in left : i <= k] IN
  /\ pc[c] = "read"
  /\ IF left = {} THEN OnlyTo(c, "up") ELSE IF ~serving THEN OnlyTo(c, "failed") ELSE
     /\ seen' = [seen EXCEPT ![c][next] = proc[next]]
     /\ Goto(c, IF Cardinality(left) > 1 THEN "read"
                ELSE IF \E p \in ToSet(todo[c]) : seen'[c][p].st = "absent" THEN "failed" ELSE "up")
     /\ UNCHANGED <<env, sup, op, ver, todo, base, saw, since, ghost>>

\* upProcess: what was read decides, whatever the process does meanwhile.
UpUpdates(c) ==
  LET before == seen[c][Hand(c)] IN
  (Named(c) /\ before.st = "restarting") \/ UpStarts(before, Named(c))
UpLeaves(c) ==
  /\ pc[c] = "up"
  /\ IF todo[c] = <<>> THEN OnlyTo(c, "ok")
     ELSE ~UpUpdates(c) /\ Advance(c, "up") /\ UNCHANGED <<sup, ghost>>

----------------------------------------------------------------------------
\* applyProcess reads the state first; a job's run reads its baseline before.
ReadBaseline(c) ==
  /\ pc[c] = "baseline"
  /\ IF ~serving THEN OnlyTo(c, "failed") ELSE
     /\ base' = [base EXCEPT ![c] = [pid |-> Now(c).pid, end |-> Now(c).end]]
     /\ since' = [since EXCEPT ![c] = ended[Hand(c)]]
     /\ Goto(c, "before")
     /\ UNCHANGED <<env, sup, op, ver, todo, seen, saw, ghost>>

ReadBefore(c) ==
  /\ pc[c] = "before"
  /\ IF todo[c] = <<>> THEN OnlyTo(c, "ok")
     ELSE IF ~serving \/ Hand(c) \notin Local[ver[c]] THEN OnlyTo(c, "failed") ELSE
     /\ seen' = [seen EXCEPT ![c][Hand(c)] = Now(c)]
     /\ bounced' = [bounced EXCEPT ![c] = 0] /\ Goto(c, "apply")
     /\ UNCHANGED <<env, sup, op, ver, todo, base, saw, since, touched, held>>

Who(c) == IF op[c].verb = "up" THEN "up" ELSE IF op[c].verb = "run" THEN "free" ELSE "asked"
Applied(c) == IF op[c].verb = "up" THEN "up" ELSE IF op[c].verb = "run" THEN "poll" ELSE "before"

Sent(c, posted) ==
  IF op[c].verb = "up" /\ seen[c][Hand(c)].st = "restarting" THEN Advance(c, "up")
  ELSE /\ Goto(c, IF posted THEN "confirm" ELSE IF op[c].verb = "up" THEN "start" ELSE "restart")
       /\ Keeps /\ UNCHANGED env

\* updateProcess: an update is posted when the definition looks changed, and
\* the supervisor applies it only when it is.
Posts(c) == pc[c] = "apply" \/ (pc[c] = "up" /\ todo[c] # <<>> /\ UpUpdates(c))
UpdateProcess(c, posted) ==
  /\ Posts(c)
  /\ IF ~serving THEN OnlyTo(c, "failed")
     ELSE /\ Now(c).st # "absent"
          /\ IF Now(c).ver = ver[c] THEN UNCHANGED <<sup, ghost>>
             ELSE posted /\ ChangesOne(c, Hand(c), Replaced(ver[c], Now(c).dis, Who(c)))
          /\ Sent(c, posted)

\* addMissingProcess: the whole project is posted, the new process disabled in
\* it; v1.120 may replace what its file loader made. Then it is activated. One
\* step: that the post undoes what others change after its reads is left out.
AddMissing(c, relaunched) ==
  /\ Posts(c) /\ serving /\ Now(c).st = "absent"
  /\ \A p \in relaunched : proc[p].st # "absent"
  /\ Changes(c, [p \in relaunched \cup {Hand(c)} |->
       IF p \in relaunched THEN Replaced(proc[p].ver, proc[p].dis, "asked") ELSE Replaced(0, TRUE, "no")])
  /\ Goto(c, "activate") /\ Keeps /\ UNCHANGED env
Activate(c) ==
  /\ pc[c] = "activate"
  /\ IF ~serving \/ Now(c).st = "absent" \/ Now(c).ver = ver[c] THEN OnlyTo(c, "failed")
     ELSE ChangesOne(c, Hand(c), Replaced(ver[c], FALSE, Who(c))) /\ Sent(c, TRUE)

ConfirmNothing(c) ==
  /\ pc[c] = "confirm" /\ UNCHANGED <<env, sup, ghost>> /\ Keeps
  /\ Goto(c, IF op[c].verb = "up" THEN "start" ELSE "restart")
Confirm(c) ==
  LET relaunched == ProcessRelaunched(seen[c][Hand(c)], Now(c))
      under_way == Now(c).st # "absent" /\ ~UpStarts(Now(c), TRUE) IN
  /\ pc[c] = "confirm"
  /\ IF ~serving THEN OnlyTo(c, "failed")
     ELSE /\ UNCHANGED <<sup, ghost>>
          /\ IF relaunched \/ (op[c].verb = "up" /\ under_way) THEN Advance(c, Applied(c))
             ELSE /\ Goto(c, IF op[c].verb = "up" THEN "start" ELSE "restart")
                  /\ Keeps /\ UNCHANGED env

\* `process start` refuses a process that runs or is about to.
StartProcess(c, reuse) ==
  /\ pc[c] = "start"
  /\ IF serving /\ Startable(Now(c))
     THEN ChangesOne(c, Hand(c), Again(Now(c), Who(c), reuse)) /\ Advance(c, "up")
     ELSE OnlyTo(c, "failed")

RestartProcess(c, reuse) ==
  /\ pc[c] = "restart"
  /\ IF serving /\ Now(c).st # "absent"
     THEN ChangesOne(c, Hand(c), Again(Now(c), Who(c), reuse)) /\ Advance(c, Applied(c))
     ELSE OnlyTo(c, "failed")

\* Service start is `process start` of the names as they are.
StartNamed(c, reuse) ==
  LET P == {p \in op[c].names : Startable(proc[p])} IN
  /\ pc[c] = "start_named"
  /\ IF ~serving THEN OnlyTo(c, "failed") ELSE
     /\ Changes(c, [p \in P |-> Again(proc[p], "asked", reuse)])
     /\ Goto(c, IF P = op[c].names THEN "ok" ELSE "failed") /\ Keeps /\ UNCHANGED env

Job(c) == CHOOSE j \in op[c].names : TRUE
Poll(c) ==
  LET e == proc[Job(c)] IN
  /\ pc[c] = "poll" /\ serving /\ e.st # "absent"
  /\ IF ~Terminal(e)
     THEN saw' = [saw EXCEPT ![c] = TRUE] /\ UNCHANGED <<env, sup, pc, op, ver, todo, seen, base, since, ghost>>
     ELSE FreshSample(c, e) /\ OnlyTo(c, "answered")

----------------------------------------------------------------------------
\* Stop reads each process and names those that need stopping. One that v1.120
\* shows as it last ended while its next launch is due is taken for stopped.
StopRead(c) ==
  LET p == Hand(c) IN
  /\ pc[c] = "stop_read"
  /\ IF todo[c] = <<>>
     THEN IF seen[c] = NoSeen THEN OnlyTo(c, "ok") ELSE OnlyTo(c, "stop")
     ELSE IF ~serving THEN OnlyTo(c, "failed") ELSE
     /\ seen' = [seen EXCEPT ![c][p] = IF proc[p].st = "absent" \/ AlreadyStopped(proc[p]) THEN None ELSE proc[p]]
     /\ todo' = [todo EXCEPT ![c] = Tail(@)]
     /\ touched' = [touched EXCEPT ![c] = @ \cup {q \in {p} : AlreadyStopped(proc[q]) /\ proc[q].due # "no"}]
     /\ UNCHANGED <<env, sup, pc, op, ver, base, saw, since, bounced, held>>

\* process-compose refuses to stop what does not run, and marks what it stops.
ProcessStop(c) ==
  LET asked == {p \in Procs : seen[c][p] # None}
      stops == {p \in asked : proc[p].st # "absent" /\ ~Startable(proc[p])}
      down(e) == IF Live(e) THEN [e EXCEPT !.st = "terminating"]
                 ELSE [(IF AtRest(e) THEN e ELSE Over(e, "completed")) EXCEPT !.due = "no"] IN
  /\ pc[c] = "stop"
  /\ IF serving THEN Changes(c, [p \in stops |-> down(proc[p])]) ELSE UNCHANGED <<sup, ghost>>
  /\ IF serving /\ stops = asked
     THEN Goto(c, "ok") /\ todo' = todo
     ELSE Goto(c, "stop_check") /\ todo' = [todo EXCEPT ![c] = SetToSeq(op[c].names)]
  /\ UNCHANGED <<env, op, ver, seen, base, saw, since>>

\* A stop that failed succeeds all the same when nothing named runs: servicesStopped.
StopCheck(c) ==
  /\ pc[c] = "stop_check"
  /\ IF ~serving \/ todo[c] = <<>> THEN OnlyTo(c, "ok")
     ELSE IF Now(c).st = "absent" \/ AlreadyStopped(Now(c))
     THEN Advance(c, "stop_check") /\ UNCHANGED <<sup, ghost>>
     ELSE OnlyTo(c, "failed")

\* StackDown asks the supervisor to end, where there is a compiled file.
StackDown(c) ==
  /\ pc[c] = "down"
  /\ IF file = 0 THEN OnlyTo(c, "ok")
     ELSE IF ~serving THEN OnlyTo(c, "failed") ELSE
     /\ serving' = FALSE /\ proc' = [p \in Procs |-> Absent]
     /\ ended' = [j \in Jobs |-> IF Live(proc[j]) THEN proc[j].pid ELSE ended[j]]
     /\ touched' = Touch(c, Procs)
     /\ Goto(c, "ok") /\ Keeps /\ UNCHANGED <<env, runs, bounced, held>>

Kill(c) == pc[c] \notin Ends \cup {"idle"} /\ OnlyTo(c, "failed")

----------------------------------------------------------------------------
(* What the supervisor does by itself, and people do to the manifest. A       *)
(* process waits for the jobs it depends on, but for those left out.          *)
Launched(p, e) == [e EXCEPT !.st = "running", !.pid = runs[p] + 1, !.due = "no"]
SupervisorStep(p, e) ==
  /\ proc' = [proc EXCEPT ![p] = e]
  /\ UNCHANGED <<env, serving, pc, call, ghost>>

WaitsFor(p) ==
  IF proc[p].due = "free" THEN {} ELSE
  {d \in DependsOn[p] : proc[d].st # "absent" /\ ~(proc[d].st = "disabled" /\ proc[d].due = "no")}
Launch(p) ==
  /\ \/ proc[p].due # "no" /\ \A d \in WaitsFor(p) : proc[d].st = "completed" /\ proc[d].due = "no"
     \/ proc[p].st = "restarting"
  /\ SupervisorStep(p, Launched(p, proc[p])) /\ runs' = [runs EXCEPT ![p] = @ + 1]
  /\ UNCHANGED ended

Skip(p) ==
  /\ proc[p].due # "no" /\ \E d \in WaitsFor(p) : proc[d].st \in {"error", "skipped"} /\ proc[d].due = "no"
  /\ SupervisorStep(p, [proc[p] EXCEPT !.st = "skipped", !.due = "no"])
  /\ UNCHANGED <<runs, ended>>

Ended(p, st) ==
  /\ Live(proc[p])
  /\ st = "error" => p \in Jobs /\ proc[p].st = "running"
  /\ SupervisorStep(p, Over(proc[p], st))
  /\ ended' = (IF p \in Jobs THEN [ended EXCEPT ![p] = proc[p].pid] ELSE ended)
  /\ UNCHANGED runs

Crash(p) ==
  /\ p \in Services /\ proc[p].st = "running" /\ proc[p].pid <= LastCrash
  /\ SupervisorStep(p, Over(proc[p], "restarting"))
  /\ UNCHANGED <<runs, ended>>

SupervisorExits ==
  /\ serving /\ \A p \in Procs : proc[p].st = "absent" \/ Startable(proc[p])
  /\ serving' = FALSE /\ proc' = [p \in Procs |-> Absent]
  /\ touched' = Touch(None, Procs)
  /\ UNCHANGED <<env, runs, ended, pc, call, bounced, held>>

Edit ==
  /\ man < Len(Local) /\ man' = man + 1
  /\ UNCHANGED <<file, root, ops, sup, pc, call, ghost>>

Asks(c) ==
  \/ \E r \in Requests : Begin(c, r)
  \/ Rest(c) \/ Prepare(c) \/ PrepareRun(c) \/ LoadStack(c)
  \/ Probe(c) \/ UpDaemon(c) \/ AwaitSupervisor(c) \/ ReadFile(c) \/ UpRead(c) \/ UpLeaves(c)
  \/ ReadBaseline(c) \/ ReadBefore(c) \/ \E posted \in BOOLEAN : UpdateProcess(c, posted)
  \/ \E P \in SUBSET Procs : AddMissing(c, P)
  \/ Activate(c) \/ Confirm(c)
  \/ \E reuse \in BOOLEAN : StartProcess(c, reuse) \/ RestartProcess(c, reuse) \/ StartNamed(c, reuse)
  \/ StopRead(c) \/ ProcessStop(c) \/ StopCheck(c) \/ StackDown(c) \/ Kill(c)
Runs(p) == Launch(p) \/ Skip(p) \/ Crash(p) \/ \E st \in {"completed", "error"} : Ended(p, st)
Next == (\E c \in Clients : Asks(c) \/ Poll(c)) \/ (\E p \in Procs : Runs(p)) \/ SupervisorExits \/ Edit

Spec == Init /\ [][Next]_vars

----------------------------------------------------------------------------
\* Types; no supervisor has no processes; the lock is held by who prepares or runs.
TypeOK ==
  /\ man \in Versions /\ file \in 0..Len(Local) /\ root \in Clients \cup {None}
  /\ serving \in BOOLEAN /\ proc \in [Procs -> Entries]
  /\ ~serving => \A p \in Procs : proc[p] = Absent
  /\ ended \in [Jobs -> Nat] /\ runs \in [Procs -> Nat] /\ held \subseteq Procs
  /\ pc \in [Clients -> {"idle"} \cup Ends \cup Steps]
  /\ \A c \in Clients :
       /\ op[c] \in Requests \cup {NoOp} /\ ver[c] \in 0..Len(Local) /\ todo[c] \in Seq(Procs)
       /\ seen[c] \in [Procs -> Entries \cup {None}] /\ touched[c] \subseteq Procs
       /\ (pc[c] \in {"baseline", "poll"} => root = c)

(* RunJob takes no result of a run that had ended before it was called        *)
(* (backend.go: a terminal sample of the previous run is skipped).            *)
AnswersAfresh ==
  [][\A c \in Clients : pc[c] = "poll" /\ pc'[c] = "answered" =>
       proc[Job(c)].st = "skipped" \/ proc[Job(c)].pid > since[c]]_vars

(* A service that a stop reported down stays down, not even relaunched by its  *)
(* restart policy, until somebody asks for it (Stop, alreadyStopped), unless   *)
(* others changed it during the stop, or the stop read it as it last ended     *)
(* while a launch was due, which it cannot tell from stopped.                  *)
StoppedStaysDown == \A p \in held : ~(proc[p].st = "running" \/ AboutToRun(proc[p]))

(* A restarted process is a new incarnation of what was compiled, whatever the *)
(* supervisor did with the update, if nobody else changed it (applyProcess).  *)
RestartTakesEffect ==
  [][\A c \in Clients :
       LET p == Hand(c)  e == proc'[Hand(c)] IN
       /\ op[c].verb \in {"restart", "run"} /\ pc[c] \in {"confirm", "restart"}
       /\ pc'[c] = Applied(c) /\ p \notin touched'[c]
       => /\ e.ver = ver[c]
          /\ e.due # "no" \/ e.st = "skipped" \/ (e.pid # 0 /\ e.pid # seen[c][p].pid)]_vars

(* A restart ends a process at most once, up none but one that was about to    *)
(* run when it was read ("make it run", not "restart"), and a stop each one    *)
(* named.                                                                      *)
EndsNoMoreThanNeeded ==
  \A c \in Clients : bounced[c] <= IF op[c].verb = "up" THEN 0
                                  ELSE IF op[c].verb = "stop" THEN Cardinality(op[c].names) ELSE 1

(* When up asks for a process, what it waits for has been asked for before: a  *)
(* disabled dependency would not be waited for (upThroughSupervisor).         *)
UpAsksInOrder ==
  [][\A c \in Clients, p \in Procs :
       /\ op[c].verb = "up" /\ <<pc[c], todo[c]>>' # <<pc[c], todo[c]>>
       /\ proc[p].due # "up" /\ proc'[p].due = "up"
       => \A d \in (DependsOn[p] \cap Local[ver[c]]) \ touched'[c] :
            proc'[d].st # "disabled" \/ proc'[d].due # "no"]_vars

(* RunJob is never left waiting for a sign it cannot get: once its job has     *)
(* run again and ended, a poll takes the end, for one of the three signs. What *)
(* is skipped has not run, and tells of the run before.                       *)
RunJobSeesTheEnd ==
  \A c \in Clients : pc[c] = "poll" =>
    LET e == proc[Job(c)] IN
    Terminal(e) /\ e.st # "skipped" /\ e.due = "no" => FreshSample(c, e)
=============================================================================
