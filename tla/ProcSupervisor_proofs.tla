------------------------ MODULE ProcSupervisor_proofs ------------------------
(***************************************************************************)
(* What holds of the supervisor's processes and of the calls that change    *)
(* them, for any clients, services, jobs and versions of the manifest.      *)
(***************************************************************************)
EXTENDS ProcSupervisor, SequenceTheorems, FiniteSetTheorems, WellFoundedInduction, TLAPS

-----------------------------------------------------------------------------
(* The invariant, in parts.                                                  *)

EnvType ==
  /\ man \in Versions /\ file \in 0..Len(Local) /\ root \in Clients \cup {None}
  /\ serving \in BOOLEAN /\ held \subseteq Procs
SupType == proc \in [Procs -> Entries] /\ runs \in [Procs -> Nat] /\ ended \in [Jobs -> Nat]
CallType ==
  /\ pc \in [Clients -> {"idle"} \cup Ends \cup Steps]
  /\ op \in [Clients -> Requests \cup {NoOp}]
  /\ ver \in [Clients -> 0..Len(Local)]
  /\ saw \in [Clients -> BOOLEAN] /\ since \in [Clients -> Nat]
  /\ base \in [Clients -> [pid : Nat, end : Nat]]
  /\ touched \in [Clients -> SUBSET Procs]
TodoType == todo \in [Clients -> Seq(Procs)]
SeenType == seen \in [Clients -> [Procs -> Entries \cup {None}]]

(* Where a call can be, by what it was asked for.                             *)
PlacesOf(verb) ==
  IF verb = "up" THEN {"lock", "load", "probe", "daemon", "await", "read_file", "read", "up",
                       "activate", "confirm", "start"}
  ELSE IF verb = "start" THEN {"lock", "load", "start_named"}
  ELSE IF verb = "stop" THEN {"lock", "load", "probe", "stop_read", "stop", "stop_check"}
  ELSE IF verb = "restart" THEN {"lock", "load", "before", "apply", "activate", "confirm", "restart"}
  ELSE IF verb = "run" THEN {"lock", "baseline", "before", "apply", "activate", "confirm", "restart", "poll"}
  ELSE {"down"}
Handing == {"baseline", "apply", "activate", "confirm", "start", "restart"}
PlaceOf(c) ==
  /\ pc[c] = "idle" \/ pc[c] \in Ends \/ (op[c] \in Requests /\ pc[c] \in PlacesOf(op[c].verb))
  /\ pc[c] \in Handing => todo[c] # <<>>
  /\ pc[c] \notin {"idle", "failed", "lock"} /\ op[c].verb = "run" => root = c \/ pc[c] = "ok" \/ pc[c] = "answered"
  /\ op[c].verb \in {"stop", "restart", "run"} => ToSet(todo[c]) \subseteq op[c].names
  /\ op[c].verb = "stop" /\ pc[c] # "idle" => \A p \in Procs : seen[c][p] # None => p \in op[c].names
  /\ pc[c] = "idle" => seen[c] = NoSeen /\ todo[c] = <<>>
  /\ pc[c] \in {"load", "baseline", "before"} => ver[c] # 0
PlaceInv == \A c \in Clients : PlaceOf(c)

(* A launch is due of what does not run; a run is younger than those that     *)
(* ended; an entry tells of runs of its process.                              *)
EntryOk(e) ==
  /\ e.due # "no" => ~Live(e) /\ e.st # "restarting"
  /\ e.st = "absent" => e = Absent
  /\ e.st = "pending" => e.pid = 0
  /\ e.end <= e.pid
EntryInv ==
  /\ \A p \in Procs : EntryOk(proc[p]) /\ proc[p].pid <= runs[p]
  /\ ~serving => \A p \in Procs : proc[p] = Absent
  /\ \A j \in Jobs : /\ ended[j] <= runs[j] /\ proc[j].st # "restarting"
                     /\ Live(proc[j]) => ended[j] < proc[j].pid

(* Down, and nobody asked for it.                                             *)
Down(e) == e.st \notin {"running", "restarting", "pending"} /\ e.due = "no"

(* What a stop has found or made stopped is down, unless somebody else asked  *)
(* for it, or it was found at rest with a launch due; what it has still to    *)
(* stop is not at rest with a launch due.                                     *)
Stops(c) == op[c].verb = "stop" /\ pc[c] # "idle"
Rested(e) == AtRest(e) => e.due = "no"
StopOf(c) == Stops(c) => \A p \in op[c].names \ touched[c] :
  /\ pc[c] = "probe" => p \in ToSet(todo[c])
  /\ pc[c] = "stop_read" => \/ p \in ToSet(todo[c])
                            \/ seen[c][p] # None /\ Rested(proc[p])
                            \/ Down(proc[p])
  /\ pc[c] = "stop" => (seen[c][p] # None /\ Rested(proc[p])) \/ Down(proc[p])
  /\ pc[c] = "stop_check" => (p \in ToSet(todo[c]) /\ Rested(proc[p])) \/ Down(proc[p])
  /\ pc[c] = "ok" => Down(proc[p])
StopInv == \A c \in Clients : StopOf(c)
HeldInv == \A p \in held : Down(proc[p])

(* What became of a process that was read as s, while only the supervisor or  *)
(* the reader changed it.                                                     *)
Since(s, e) ==
  \/ e.due # "no"
  \/ e.st \in {"skipped", "disabled"}
  \/ e.pid # 0 /\ e.pid # s.pid
  \/ e.pid = s.pid /\ s.st # "absent" /\ (Terminal(s) => Terminal(e))
  \/ e = Absent
Renews(c) == op[c].verb \in {"restart", "run"} /\ pc[c] \in {"apply", "activate", "confirm", "restart"}
RestartOf(c) == Renews(c) =>
  LET p == Hand(c) IN
  /\ ver[c] # 0 /\ seen[c][p] # None /\ seen[c][p].pid <= runs[p]
  /\ p \notin touched[c] =>
       /\ pc[c] \in {"apply", "confirm"} => Since(seen[c][p], proc[p])
       /\ pc[c] \in {"confirm", "restart"} => proc[p].ver = ver[c]

RestartInv == \A c \in Clients : RestartOf(c)

(* What a job's entry says that it did not say before the run was asked for   *)
(* is of a later run.                                                         *)
Waits(c) == op[c].verb = "run" /\ pc[c] \in {"before", "apply", "activate", "confirm", "restart", "poll"}
AnswerOf(c) ==
  /\ Waits(c) =>
       LET e == proc[Job(c)] IN
       /\ since[c] <= ended[Job(c)]
       /\ e.end \in {0, base[c].end} \/ e.end > since[c]
       /\ e.pid \in {0, base[c].pid} \/ e.pid > since[c]
       /\ saw[c] /\ Terminal(e) => e.st = "skipped" \/ e.pid > since[c]
  /\ saw[c] => op[c].verb = "run" /\ pc[c] \in Ends \cup {"poll"}
AnswerInv == \A c \in Clients : AnswerOf(c)

(* A live process has a pid, and a job that ended by itself has the one of    *)
(* the run it tells of; a job is not relaunched by a policy.                  *)
Alive(e) == Live(e) => e.pid # 0
Told(e) == Terminal(e) /\ e.due = "no" /\ e.st # "skipped" => e.pid # 0
LiveInv == /\ \A p \in Procs : Alive(proc[p])
           /\ \A j \in Jobs : Told(proc[j])

(* An up, a restart or a run at work.                                         *)
AtIt(c) == op[c].verb \in {"up", "restart", "run"} /\ pc[c] \notin Ends \cup {"idle"}
Bringing == {"activate", "confirm", "start", "restart"}

(* Which processes' states it holds: one that it restarts, all that it brings *)
(* up. None of these was missing, nor is, unless the supervisor ended.        *)
Read(p, e) == Alive(e) /\ (p \in Jobs => e.st # "restarting")
LookOf(c) == AtIt(c) =>
  /\ \A p \in Procs : seen[c][p] # None =>
       /\ Read(p, seen[c][p])
       /\ op[c].verb # "up" => p = Hand(c) /\ pc[c] \in {"apply", "activate", "confirm", "restart"}
       /\ op[c].verb = "up" =>
            /\ p \in ToSet(todo[c]) /\ pc[c] \in {"read", "up", "activate", "confirm", "start"}
            /\ pc[c] # "read" => seen[c][p].st # "absent"
            /\ seen[c][p].st # "absent" /\ proc[p].st = "absent" => Procs \subseteq touched[c]
  /\ pc[c] \in {"up", "activate", "confirm", "start"} /\ op[c].verb = "up" =>
       \A p \in ToSet(todo[c]) : seen[c][p] # None
  /\ pc[c] = "read" /\ todo[c] # <<>> => \E p \in ToSet(todo[c]) : seen[c][p] = None
LookInv == \A c \in Clients : LookOf(c)

(* What it has not come to and found at rest and not due is so still, unless  *)
(* somebody else changed it. It comes to each once.                           *)
Distinct(s) == \A i, j \in 1..Len(s) : s[i] = s[j] => i = j
Early == {"lock", "load", "probe", "daemon", "read_file", "baseline"}
Ahead(c) ==
  IF pc[c] \in Early \cup {"read"} THEN Procs
  ELSE IF pc[c] \in {"before", "apply", "up"} THEN ToSet(todo[c])
  ELSE IF pc[c] \in Bringing THEN ToSet(Tail(todo[c])) ELSE {}
AheadOf(c) == AtIt(c) =>
  /\ Distinct(todo[c])
  /\ \A p \in Ahead(c) \ touched[c] :
       seen[c][p] # None /\ Startable(seen[c][p]) => Startable(proc[p])
AheadInv == \A c \in Clients : AheadOf(c)

(* What a call has ended, and what keeps it from ending more: a process that  *)
(* was ended for an update has a new run, or none.                            *)
BoundOf(c) ==
  /\ pc[c] = "idle" \/ op[c].verb \notin {"restart", "run", "stop"} => bounced[c] = 0
  /\ op[c].verb = "stop" => /\ bounced[c] <= Cardinality(op[c].names)
                            /\ pc[c] \notin Ends \cup {"stop_check"} => bounced[c] = 0
  /\ op[c].verb \in {"restart", "run"} =>
       /\ bounced[c] <= 1
       /\ pc[c] \in {"lock", "load", "baseline", "apply", "activate"} => bounced[c] = 0
SpentOf(c) == pc[c] \in Bringing /\ Hand(c) \notin touched[c] =>
  /\ pc[c] = "activate" => Startable(proc[Hand(c)])
  /\ pc[c] = "confirm" /\ bounced[c] = 1 =>
       ProcessRelaunched(seen[c][Hand(c)], proc[Hand(c)]) \/ Startable(proc[Hand(c)])
  /\ pc[c] = "restart" /\ bounced[c] = 1 => Startable(proc[Hand(c)])
BounceInv == bounced \in [Clients -> Nat] /\ \A c \in Clients : BoundOf(c) /\ SpentOf(c)

(* How far a job's entry e is from s, which its run read before it applied the *)
(* definition, and from b, which it read first; and once it was relaunched.   *)
Followed(s, e, b) ==
  /\ e.pid = s.pid \/ e.pid = 0 \/ e.pid # b
  /\ Terminal(s) /\ e.pid = s.pid /\ e.pid # 0 => Terminal(e) \/ e.st = "disabled"
Awaited(e, b) == e.due # "no" \/ e.pid # b \/ e.pid = 0 \/ e.st \in {"skipped", "disabled"}
SeesOf(c) == op[c].verb = "run" =>
  LET j == Job(c) IN
  /\ pc[c] \in {"before", "apply", "activate", "confirm", "restart", "poll"} => base[c].pid <= runs[j]
  /\ pc[c] \in {"apply", "activate", "confirm"} =>
       EntryOk(seen[c][j]) /\ Followed(seen[c][j], proc[j], base[c].pid)
  /\ pc[c] = "poll" => Awaited(proc[j], base[c].pid)
SeesInv == \A c \in Clients : SeesOf(c)

(* What an up has come past is not left disabled.                             *)
Ready(e) == e.st # "disabled" \/ e.due # "no"
Ups(c) == op[c].verb = "up" /\ pc[c] \in {"read", "up", "activate", "confirm", "start"}
UpOf(c) == Ups(c) =>
  /\ ver[c] \in Versions
  /\ \A i, j \in 1..Len(todo[c]) : todo[c][i] \in DependsOn[todo[c][j]] => i < j
  /\ \A p \in ToSet(todo[c]) : \A d \in (DependsOn[p] \cap Local[ver[c]]) \ touched[c] :
       d \in ToSet(todo[c]) \/ Ready(proc[d])
  /\ \A p \in Procs \ touched[c] :
       seen[c][p] # None /\ seen[c][p].st # "disabled" /\ ~(pc[c] \in Bringing /\ p = Hand(c)) => Ready(proc[p])
UpInv == \A c \in Clients : UpOf(c)

TypeInv == EnvType /\ SupType /\ CallType /\ TodoType /\ SeenType
IInv == /\ TypeInv /\ PlaceInv /\ EntryInv /\ StopInv /\ HeldInv
        /\ RestartInv /\ AnswerInv /\ LiveInv /\ SeesInv
        /\ LookInv /\ AheadInv /\ BounceInv /\ UpInv

-----------------------------------------------------------------------------
(* What the assumption says.                                                  *)
LEMMA Facts ==
  /\ None \notin Clients /\ None \notin Entries /\ IsFiniteSet(Procs)
  /\ Services \subseteq Procs /\ Jobs \subseteq Procs /\ \A j \in Jobs : j \notin Services
  /\ \A r \in Requests : /\ r.verb \in Verbs /\ r.names \subseteq Procs
                         /\ r.verb # "run" => r.names \subseteq Services
                         /\ r.verb = "run" => \E j \in Jobs : r.names = {j}
  /\ \A r \in Requests : r = [verb |-> r.verb, names |-> r.names]
  /\ Len(Local) \in Nat /\ 1 \in Versions /\ \A v \in Versions : Local[v] \subseteq Procs /\ v \in 0..Len(Local) /\ v # 0
  /\ \A P \in SUBSET Procs : Orders(P) # {}
  /\ \A p \in Procs : DependsOn[p] \subseteq Jobs
  /\ Absent \in Entries /\ Entries # {}
<1>1. \A r \in Requests : /\ r.verb \in Verbs /\ r.names \subseteq Procs
                          /\ r = [verb |-> r.verb, names |-> r.names]
  BY SupervisorAssumption
<1>2. \A r \in Requests : /\ r.verb # "run" => r.names \subseteq Services
                          /\ r.verb = "run" => \E j \in Jobs : r.names = {j}
  BY SupervisorAssumption
<1>3. Len(Local) \in Nat /\ DOMAIN Local = 1..Len(Local) /\ \A v \in 1..Len(Local) : Local[v] \in SUBSET Procs
  BY SupervisorAssumption, LenProperties, ElementOfSeq
<1>4. 1 \in Versions /\ \A v \in Versions : Local[v] \subseteq Procs /\ v \in 0..Len(Local) /\ v # 0
  BY <1>3, SupervisorAssumption DEF Versions
<1>5. Absent \in Entries
  BY <1>3 DEF Absent, Entries
<1> QED BY <1>1, <1>2, <1>3, <1>4, <1>5, SupervisorAssumption DEF Procs

LEMMA SeqPops ==
  ASSUME NEW S, NEW s \in Seq(S), s # <<>>
  PROVE  /\ Head(s) \in S /\ Head(s) \in ToSet(s) /\ Tail(s) \in Seq(S)
         /\ ToSet(Tail(s)) \subseteq ToSet(s)
         /\ \A x \in ToSet(s) : x = Head(s) \/ x \in ToSet(Tail(s))
         /\ Len(s) \in Nat \ {0} /\ Head(s) = s[1] /\ (Tail(s) = <<>> <=> Len(s) = 1)
<1> DEFINE t == Tail(s)
<1>1. /\ Head(s) \in S /\ t \in Seq(S) /\ Len(t) = Len(s) - 1
      /\ \A i \in 1..Len(t) : t[i] = s[i + 1]
  BY HeadTailProperties
<1>2. Len(s) \in Nat \ {0} /\ DOMAIN s = 1..Len(s) /\ DOMAIN t = 1..Len(t) /\ Len(t) \in Nat
  BY <1>1, LenProperties, EmptySeq
<1>3. Head(s) = s[1]
  BY <1>2
<1>4. t = <<>> <=> Len(s) = 1
  BY <1>1, <1>2, EmptySeq
<1> HIDE DEF t
<1>5. Head(s) \in ToSet(s)
  BY <1>2, <1>3 DEF ToSet
<1>6. ASSUME NEW x \in ToSet(t) PROVE x \in ToSet(s)
  <2>1. PICK i \in 1..Len(t) : x = t[i]
    BY <1>2, <1>6 DEF ToSet
  <2>2. i + 1 \in 1..Len(s) /\ x = s[i + 1]
    BY <1>1, <1>2, <2>1
  <2> QED BY <1>2, <2>2 DEF ToSet
<1>7. ASSUME NEW x \in ToSet(s), x # Head(s) PROVE x \in ToSet(t)
  <2>1. PICK i \in 1..Len(s) : x = s[i]
    BY <1>2, <1>7 DEF ToSet
  <2>2. i # 1
    BY <1>3, <1>7, <2>1
  <2>3. i - 1 \in 1..Len(t) /\ x = t[i - 1]
    BY <1>1, <1>2, <2>1, <2>2
  <2> QED BY <1>2, <2>3 DEF ToSet
<1> QED BY <1>1, <1>2, <1>3, <1>4, <1>5, <1>6, <1>7 DEF t

LEMMA SetAsSeq ==
  ASSUME NEW S, IsFiniteSet(S)
  PROVE  SetToSeq(S) \in Seq(S) /\ ToSet(SetToSeq(S)) = S /\ Distinct(SetToSeq(S))
<1> DEFINE D == 1..Cardinality(S)
<1>1. Cardinality(S) \in Nat /\ ExistsBijection(D, S)
  BY FS_CardinalityType
<1>2. PICK f \in Bijection(D, S) : TRUE
  BY <1>1 DEF ExistsBijection
<1>3. f \in [D -> S] /\ IsInjective(f)
  BY <1>2 DEF Bijection, Injection, IsInjective
<1>4. SetToSeq(S) \in [D -> S] /\ IsInjective(SetToSeq(S))
  BY <1>3 DEF SetToSeq
<1>5. SetToSeq(S) \in Injection(D, S)
  BY <1>4 DEF Injection, IsInjective
<1>6. SetToSeq(S) \in Surjection(D, S)
  <2>1. Cardinality(D) = Cardinality(S)
    BY <1>1, FS_Interval
  <2> QED BY <1>5, <2>1, FS_Injection
<1>7. (\A x \in S : \E i \in D : SetToSeq(S)[i] = x) /\ DOMAIN SetToSeq(S) = D
  BY <1>4, <1>6 DEF Surjection
<1>8. SetToSeq(S) \in Seq(S)
  BY <1>1, <1>4, SeqDef
<1>9. Distinct(SetToSeq(S))
  <2>1. DOMAIN SetToSeq(S) = 1..Len(SetToSeq(S))
    BY <1>8, LenProperties
  <2> QED BY <1>4, <2>1 DEF Distinct, IsInjective
<1> QED BY <1>4, <1>7, <1>8, <1>9 DEF ToSet

LEMMA NamesAsSeq ==
  ASSUME NEW P \in SUBSET Procs
  PROVE  /\ SetToSeq(P) \in Seq(Procs) /\ ToSet(SetToSeq(P)) = P /\ (P # {} => SetToSeq(P) # <<>>)
         /\ Distinct(SetToSeq(P))
<1>1. IsFiniteSet(P)
  BY Facts, FS_Subset
<1>2. SetToSeq(P) \in Seq(P) /\ ToSet(SetToSeq(P)) = P /\ Distinct(SetToSeq(P))
  BY <1>1, SetAsSeq
<1>3. SetToSeq(P) \in Seq(Procs)
  BY <1>2, SeqMonotonic
<1>4. ToSet(<<>>) = {}
  BY DEF ToSet
<1> QED BY <1>2, <1>3, <1>4

LEMMA OrderTyped ==
  ASSUME NEW roots, NEW local \in SUBSET Procs
  PROVE  UpOrder(roots, local) \in Seq(Procs) /\ Distinct(UpOrder(roots, local))
<1> DEFINE needed(p) == \A S \in SUBSET local : roots \subseteq S /\ Closed(S, local) => p \in S
           P == {p \in local : needed(p)}
<1>1. P \in SUBSET Procs
  OBVIOUS
<1>2. UpOrder(roots, local) \in Orders(P)
  BY <1>1, Facts DEF UpOrder
<1> HIDE DEF P
<1>3. UpOrder(roots, local) \in SetToSeqs(P)
  BY <1>2 DEF Orders
<1>4. IsFiniteSet(P) /\ Cardinality(P) \in Nat
  BY <1>1, Facts, FS_Subset, FS_CardinalityType
<1>5. UpOrder(roots, local) \in [1..Cardinality(P) -> P]
  BY <1>3 DEF SetToSeqs
<1>6. UpOrder(roots, local) \in Seq(P)
  BY <1>4, <1>5, SeqDef
<1>7. Distinct(UpOrder(roots, local))
  <2>1. DOMAIN UpOrder(roots, local) = 1..Len(UpOrder(roots, local))
    BY <1>6, LenProperties
  <2> QED BY <1>3, <1>5, <2>1 DEF SetToSeqs, Distinct
<1> QED BY <1>1, <1>6, <1>7, SeqMonotonic

-----------------------------------------------------------------------------
(* What a request makes of a process's entry.                                 *)

Change(e, n) ==
  /\ n \in Entries /\ EntryOk(n) /\ n.pid \in {0, e.pid} /\ n.st # "restarting"
  /\ n.due = "no" => Down(n)
  /\ Live(n) => Live(e) /\ n.pid = e.pid
  /\ e.st # "restarting" => n.end \in {0, e.end} \/ (Live(e) /\ n.end = e.pid)

(* Nothing ends but what had ended.                                           *)
Gentle(e, n) == Terminal(n) => Terminal(e) /\ n.st = e.st /\ n.pid = e.pid

Dues == {"up", "asked", "free"}

(* An entry that is there, and a job's at rest is one nobody asked for.        *)
Anew(p, n) == n.st # "absent" /\ (p \in Jobs /\ n.due = "no" => n.st = "disabled")

LEMMA AbsentChange ==
  ASSUME NEW e \in Entries PROVE Change(e, Absent) /\ Gentle(e, Absent)
  BY Facts DEF Change, Gentle, Absent, EntryOk, Down, Live, Terminal, Entries

LEMMA ReplacedChange ==
  ASSUME NEW e \in Entries, NEW v \in 0..Len(Local), NEW dis \in BOOLEAN, NEW who,
         who \in Dues \/ dis
  PROVE  /\ Change(e, Replaced(v, dis, who)) /\ Gentle(e, Replaced(v, dis, who))
         /\ Replaced(v, dis, who).ver = v
         /\ dis => Replaced(v, dis, who).st = "disabled"
         /\ ~dis => Replaced(v, dis, who).due = who
         /\ \A p : Anew(p, Replaced(v, dis, who))
<1> DEFINE n == Replaced(v, dis, who)
<1>1. CASE dis
  <2>1. n = [st |-> "disabled", pid |-> 0, end |-> 0, ver |-> v, dis |-> TRUE, due |-> "no"]
    BY <1>1 DEF Replaced, Pending
  <2> HIDE DEF n
  <2>2. n \in Entries
    BY <2>1 DEF Entries
  <2>3. n.st = "disabled" /\ n.pid = 0 /\ n.end = 0 /\ n.due = "no" /\ n.ver = v
    BY <2>1
  <2>4. Change(e, n) /\ Gentle(e, n)
    BY ONLY <2>2, <2>3 DEF Change, Gentle, EntryOk, Down, Live, Terminal
  <2>5. \A p : Anew(p, n)
    BY ONLY <2>3 DEF Anew
  <2> QED BY <1>1, <2>3, <2>4, <2>5 DEF n
<1>2. CASE ~dis
  <2>1. n = [st |-> "pending", pid |-> 0, end |-> 0, ver |-> v, dis |-> FALSE, due |-> who]
    BY <1>2 DEF Replaced, Pending
  <2> HIDE DEF n
  <2>2. n \in Entries /\ who \in Dues
    BY <1>2, <2>1 DEF Entries, Dues
  <2>3. \A p : Anew(p, n)
    BY <2>1, <2>2 DEF Anew, Dues
  <2>4. /\ n.st = "pending" /\ n.pid = 0 /\ n.end = 0 /\ n.due = who /\ n.ver = v /\ who # "no"
    BY <2>1, <2>2 DEF Dues
  <2>5. Change(e, n) /\ Gentle(e, n)
    BY ONLY <2>2, <2>4 DEF Change, Gentle, EntryOk, Down, Live, Terminal
  <2> QED BY <1>2, <2>3, <2>4, <2>5 DEF n
<1> QED BY <1>1, <1>2

LEMMA AgainChange ==
  ASSUME NEW e \in Entries, EntryOk(e), e.st # "absent", NEW who \in Dues, NEW reuse \in BOOLEAN
  PROVE  /\ Change(e, Again(e, who, reuse))
         /\ AtRest(e) => Gentle(e, Again(e, who, reuse))
         /\ Again(e, who, reuse).ver = e.ver /\ Again(e, who, reuse).due = who
         /\ \A p : Anew(p, Again(e, who, reuse))
<1> DEFINE n == Again(e, who, reuse)
<1>0. /\ e.pid \in Nat /\ e.end \in Nat /\ e.ver \in 0..Len(Local) /\ e.dis \in BOOLEAN
      /\ e = [st |-> e.st, pid |-> e.pid, end |-> e.end, ver |-> e.ver, dis |-> e.dis, due |-> e.due]
      /\ e.st \in {"absent", "disabled", "pending", "running", "restarting", "terminating",
                   "completed", "error", "skipped"}
  BY DEF Entries
<1>1. CASE ~reuse
  <2>1. n = [st |-> "pending", pid |-> 0, end |-> 0, ver |-> e.ver, dis |-> e.dis, due |-> who]
    BY <1>1 DEF Again, Pending
  <2> HIDE DEF n
  <2>2. n \in Entries
    BY <1>0, <2>1 DEF Entries, Dues
  <2>3. \A p : Anew(p, n)
    BY <2>1 DEF Anew, Dues
  <2> QED BY <1>0, <2>1, <2>2, <2>3 DEF n, Change, Gentle, EntryOk, Down, Live, Terminal, Dues
<1>2. CASE reuse /\ AtRest(e)
  <2>1. n = [st |-> e.st, pid |-> e.pid, end |-> e.end, ver |-> e.ver, dis |-> e.dis, due |-> who]
    BY <1>0, <1>2 DEF Again
  <2> HIDE DEF n
  <2>2. n \in Entries
    BY <1>0, <2>1 DEF Entries, Dues
  <2>3. e.st \in {"completed", "error", "skipped", "disabled"}
    BY <1>2 DEF AtRest, Terminal
  <2>4. \A p : Anew(p, n)
    BY <2>1, <2>3 DEF Anew, Dues
  <2> QED BY <1>0, <2>1, <2>2, <2>3, <2>4 DEF n, Change, Gentle, EntryOk, Down, Live, Terminal, Dues
<1>3. CASE reuse /\ ~AtRest(e)
  <2>1. n = [st |-> "completed", pid |-> e.pid, end |-> IF e.end = 0 THEN e.pid ELSE e.end,
             ver |-> e.ver, dis |-> e.dis, due |-> who]
    BY <1>0, <1>3 DEF Again, Over
  <2> HIDE DEF n
  <2>2. n \in Entries
    BY <1>0, <2>1 DEF Entries, Dues
  <2>3. Live(e) \/ e.st = "restarting" \/ (e.st = "pending" /\ e.pid = 0)
    BY <1>0, <1>3 DEF AtRest, Terminal, Live, EntryOk
  <2>4. /\ n.st = "completed" /\ n.pid = e.pid /\ n.end = IF e.end = 0 THEN e.pid ELSE e.end
        /\ n.due = who /\ n.ver = e.ver /\ who # "no"
    BY <2>1 DEF Dues
  <2>5. Change(e, n)
    BY ONLY <1>0, <2>2, <2>3, <2>4, EntryOk(e) DEF Change, EntryOk, Down, Live
  <2>6. \A p : Anew(p, n)
    BY ONLY <2>4 DEF Anew
  <2> QED BY <1>3, <2>4, <2>5, <2>6 DEF n
<1> QED BY <1>1, <1>2, <1>3

Downed(e) == IF Live(e) THEN [e EXCEPT !.st = "terminating"]
             ELSE [(IF AtRest(e) THEN e ELSE Over(e, "completed")) EXCEPT !.due = "no"]

LEMMA DownedChange ==
  ASSUME NEW e \in Entries, EntryOk(e), e.st # "absent"
  PROVE  Change(e, Downed(e)) /\ Down(Downed(e)) /\ Downed(e).st # "absent"
<1> DEFINE n == Downed(e)
<1>0. /\ e.pid \in Nat /\ e.end \in Nat /\ e.ver \in 0..Len(Local) /\ e.dis \in BOOLEAN
      /\ e = [st |-> e.st, pid |-> e.pid, end |-> e.end, ver |-> e.ver, dis |-> e.dis, due |-> e.due]
      /\ e.st \in {"absent", "disabled", "pending", "running", "restarting", "terminating",
                   "completed", "error", "skipped"}
  BY DEF Entries
<1>1. CASE Live(e)
  <2>1. n = [st |-> "terminating", pid |-> e.pid, end |-> e.end, ver |-> e.ver, dis |-> e.dis, due |-> e.due]
    BY <1>0, <1>1 DEF Downed
  <2>2. e.due = "no"
    BY <1>1 DEF EntryOk
  <2> HIDE DEF n
  <2>3. n \in Entries
    BY <1>0, <2>1, <2>2 DEF Entries
  <2> QED BY <1>0, <1>1, <2>1, <2>2, <2>3 DEF n, Change, EntryOk, Down, Live
<1>2. CASE AtRest(e)
  <2>1. n = [st |-> e.st, pid |-> e.pid, end |-> e.end, ver |-> e.ver, dis |-> e.dis, due |-> "no"]
    BY <1>0, <1>2 DEF Downed, Live, AtRest, Terminal
  <2> HIDE DEF n
  <2>2. n \in Entries
    BY <1>0, <2>1 DEF Entries
  <2>3. e.st \in {"completed", "error", "skipped", "disabled"}
    BY <1>2 DEF AtRest, Terminal
  <2> QED BY <1>0, <2>1, <2>2, <2>3 DEF n, Change, EntryOk, Down, Live
<1>3. CASE ~Live(e) /\ ~AtRest(e)
  <2>1. n = [st |-> "completed", pid |-> e.pid, end |-> IF e.end = 0 THEN e.pid ELSE e.end,
             ver |-> e.ver, dis |-> e.dis, due |-> "no"]
    BY <1>0, <1>3 DEF Downed, Over
  <2> HIDE DEF n
  <2>2. n \in Entries
    BY <1>0, <2>1 DEF Entries
  <2>3. e.st = "restarting" \/ (e.st = "pending" /\ e.pid = 0)
    BY <1>0, <1>3 DEF AtRest, Terminal, Live, EntryOk
  <2> QED BY <1>0, <2>1, <2>2, <2>3 DEF n, Change, EntryOk, Down, Live
<1> QED BY <1>1, <1>2, <1>3

-----------------------------------------------------------------------------
(* What a step does to the processes.                                         *)

Kept(p) == /\ proc'[p] = proc[p] /\ runs'[p] = runs[p]
           /\ p \in Jobs => ended'[p] = ended[p]

(* The supervisor launches p, skips it, or tells how its run ended.           *)
Itself(p) ==
  LET e == proc[p]
      n == proc'[p]
  IN  /\ n \in Entries /\ EntryOk(n) /\ n.ver = e.ver /\ n.due = "no"
      /\ \/ /\ e.due # "no" \/ e.st = "restarting"
            /\ n.st = "running" /\ n.pid = runs[p] + 1 /\ n.end = e.end
            /\ runs'[p] = runs[p] + 1 /\ (p \in Jobs => ended'[p] = ended[p])
         \/ /\ e.due # "no" /\ n.st = "skipped" /\ n.pid = e.pid /\ n.end = e.end
            /\ runs'[p] = runs[p] /\ (p \in Jobs => ended'[p] = ended[p])
         \/ /\ Live(e) /\ n.st \in {"completed", "error"} /\ n.pid = e.pid /\ n.end \in {e.end, e.pid}
            /\ runs'[p] = runs[p] /\ (p \in Jobs => ended'[p] = e.pid)
         \/ /\ p \in Services /\ e.st = "running" /\ n.st = "restarting" /\ n.pid = e.pid
            /\ runs'[p] = runs[p]

(* c asks for a change of p: whoever else is at work is touched by it, and    *)
(* only who runs a job makes an end of what had not ended.                    *)
Asked(p, c) ==
  /\ Change(proc[p], proc'[p]) /\ runs'[p] = runs[p]
  /\ p \in Jobs => ended'[p] = IF Live(proc[p]) /\ ~Live(proc'[p]) THEN proc[p].pid ELSE ended[p]
  /\ \A d \in Clients : d # c /\ pc[d] # "idle" => p \in touched'[d]
  /\ p \in held' => proc'[p].due = "no"
  /\ p \in Jobs /\ (c \in Clients => op[c].verb # "run") => Gentle(proc[p], proc'[p])
  /\ p \in Jobs /\ proc'[p].due = "no" => proc'[p].st \in {"absent", "disabled"}
  /\ proc'[p].st = "absent" /\ proc[p].st # "absent" =>
       /\ c \in Clients => op[c].verb = "down"
       /\ \A d \in Clients : d # c /\ pc[d] # "idle" => Procs \subseteq touched'[d]

AbsentUnserved == ~serving' => \A p \in Procs : proc'[p] = Absent
SupChange(c) == SupType' /\ AbsentUnserved /\ \A p \in Procs : Kept(p) \/ Asked(p, c)

LEMMA ChangesDoes ==
  ASSUME TypeInv, NEW c \in Clients, NEW new, DOMAIN new \subseteq Procs, Changes(c, new)
  PROVE  /\ proc' = [p \in Procs |-> IF p \in DOMAIN new THEN new[p] ELSE proc[p]]
         /\ ended' = [j \in Jobs |-> IF j \in DOMAIN new /\ Live(proc[j]) /\ ~Live(new[j])
                                     THEN proc[j].pid ELSE ended[j]]
         /\ touched' = [d \in Clients |-> touched[d] \cup
                          (IF d = c \/ pc[d] = "idle" THEN {} ELSE DOMAIN new)]
         /\ held' = {p \in held : p \notin DOMAIN new \/ new[p].due = "no"}
         /\ serving' = serving /\ runs' = runs
<1>3. proc' = [p \in Procs |-> IF p \in DOMAIN new THEN new[p] ELSE proc[p]]
  BY DEF Changes
<1>4. ended' = [j \in Jobs |-> IF j \in DOMAIN new /\ Live(proc[j]) /\ ~Live(new[j])
                               THEN proc[j].pid ELSE ended[j]]
  BY DEF Changes
<1>5. /\ held' = {p \in held : p \notin DOMAIN new \/ new[p].due = "no"}
      /\ serving' = serving /\ runs' = runs
  BY DEF Changes
<1>6. touched' = [d \in Clients |-> touched[d] \cup
                    (IF d = c \/ pc[d] = "idle" THEN {} ELSE DOMAIN new)]
  BY DEF Changes, Touch
<1> QED BY <1>3, <1>4, <1>5, <1>6

LEMMA ChangesAt ==
  ASSUME TypeInv, NEW c \in Clients, NEW new, DOMAIN new \subseteq Procs, Changes(c, new), NEW q \in Procs
  PROVE  proc'[q] = IF q \in DOMAIN new THEN new[q] ELSE proc[q]
<1>1. proc' = [p \in Procs |-> IF p \in DOMAIN new THEN new[p] ELSE proc[p]]
  BY ChangesDoes
<1> QED BY <1>1

LEMMA OwnUntouched ==
  ASSUME TypeInv, NEW c \in Clients, NEW new, DOMAIN new \subseteq Procs, Changes(c, new)
  PROVE  touched'[c] = touched[c]
<1>1. touched' = [d \in Clients |-> touched[d] \cup (IF d = c \/ pc[d] = "idle" THEN {} ELSE DOMAIN new)]
  BY ChangesDoes
<1> QED BY <1>1

LEMMA ChangesAsk ==
  ASSUME TypeInv, EntryInv, NEW c \in Clients, NEW new, DOMAIN new \subseteq Procs, Changes(c, new), serving,
         \A p \in DOMAIN new : /\ Change(proc[p], new[p])
                               /\ p \in Jobs /\ op[c].verb # "run" => Gentle(proc[p], new[p])
                               /\ Anew(p, new[p])
  PROVE  SupChange(c)
<1>1. /\ proc' = [p \in Procs |-> IF p \in DOMAIN new THEN new[p] ELSE proc[p]]
      /\ ended' = [j \in Jobs |-> IF j \in DOMAIN new /\ Live(proc[j]) /\ ~Live(new[j])
                                  THEN proc[j].pid ELSE ended[j]]
      /\ touched' = [d \in Clients |-> touched[d] \cup
                       (IF d = c \/ pc[d] = "idle" THEN {} ELSE DOMAIN new)]
      /\ held' = {p \in held : p \notin DOMAIN new \/ new[p].due = "no"}
      /\ serving' = serving /\ runs' = runs
  BY ChangesDoes
<1>2. /\ proc \in [Procs -> Entries] /\ runs \in [Procs -> Nat] /\ ended \in [Jobs -> Nat]
      /\ Jobs \subseteq Procs
  BY Facts DEF TypeInv, SupType
<1>3. \A p \in DOMAIN new : new[p] \in Entries
  BY DEF Change
<1>4. \A p \in Procs : proc[p].pid \in Nat
  BY <1>2 DEF Entries
<1>5. SupType'
  <2>1. proc' \in [Procs -> Entries]
    BY ONLY <1>1, <1>2, <1>3
  <2>2. ended' \in [Jobs -> Nat]
    BY ONLY <1>1, <1>2, <1>4
  <2> QED BY <1>1, <1>2, <2>1, <2>2 DEF SupType
<1>6. ASSUME NEW p \in Procs PROVE Kept(p) \/ Asked(p, c)
  <2>1. CASE p \in DOMAIN new
    <3>1. proc'[p] = new[p] /\ (p \in held' => new[p].due = "no") /\ runs'[p] = runs[p]
      BY ONLY <1>1, <2>1
    <3>2. \A d \in Clients : d # c /\ pc[d] # "idle" => p \in touched'[d]
      BY ONLY <1>1, <2>1
    <3>3. p \in Jobs => ended'[p] = IF Live(proc[p]) /\ ~Live(new[p]) THEN proc[p].pid ELSE ended[p]
      BY ONLY <1>1, <2>1
    <3>4. /\ Change(proc[p], new[p]) /\ Anew(p, new[p])
          /\ p \in Jobs /\ op[c].verb # "run" => Gentle(proc[p], new[p])
      BY <2>1
    <3> QED BY ONLY <3>1, <3>2, <3>3, <3>4, c \in Clients DEF Asked, Anew
  <2>2. CASE p \notin DOMAIN new
    BY <1>1, <2>2 DEF Kept
  <2> QED BY <2>1, <2>2
<1>7. AbsentUnserved
  BY <1>1 DEF AbsentUnserved
<1> QED BY <1>5, <1>6, <1>7 DEF SupChange

LEMMA NothingChanges ==
  ASSUME TypeInv, EntryInv, NEW c, UNCHANGED sup
  PROVE  SupChange(c)
  BY DEF TypeInv, SupType, EntryInv, SupChange, Kept, AbsentUnserved, sup

(* The process at hand.                                                       *)
LEMMA AtHand ==
  ASSUME TypeInv, NEW c \in Clients, todo[c] # <<>>
  PROVE  /\ Hand(c) \in Procs /\ Hand(c) \in ToSet(todo[c])
         /\ Tail(todo[c]) \in Seq(Procs) /\ ToSet(Tail(todo[c])) \subseteq ToSet(todo[c])
         /\ \A x \in ToSet(todo[c]) : x = Hand(c) \/ x \in ToSet(Tail(todo[c]))
  BY SeqPops DEF TypeInv, TodoType, Hand

LEMMA AtWork ==
  ASSUME TypeInv, PlaceInv, NEW c \in Clients,
         pc[c] \in {"probe", "daemon", "await", "read_file", "read", "up", "start_named", "baseline", "before",
                    "apply", "activate", "confirm", "start", "restart", "poll", "stop_read", "stop",
                    "stop_check", "down", "lock", "load"}
  PROVE  /\ op[c] \in Requests /\ pc[c] \in PlacesOf(op[c].verb) /\ op[c].verb \in Verbs
         /\ op[c].names \subseteq Procs
         /\ op[c].verb # "run" => op[c].names \subseteq Services
         /\ op[c].verb = "run" => \E j \in Jobs : op[c].names = {j}
  BY Facts DEF PlaceInv, PlaceOf, Ends

LEMMA WhoTyped ==
  ASSUME NEW c PROVE Who(c) \in Dues
  BY DEF Who, Dues

LEMMA NowTyped ==
  ASSUME TypeInv, EntryInv, NEW p \in Procs
  PROVE  /\ proc[p] \in Entries /\ EntryOk(proc[p]) /\ proc[p].pid \in Nat /\ proc[p].ver \in 0..Len(Local)
         /\ proc[p].dis \in BOOLEAN
  BY DEF TypeInv, SupType, EntryInv, Entries

LEMMA OneChanges ==
  ASSUME TypeInv, EntryInv, NEW c \in Clients, NEW p \in Procs, NEW n, ChangesOne(c, p, n), serving,
         Change(proc[p], n), p \in Jobs /\ op[c].verb # "run" => Gentle(proc[p], n), Anew(p, n)
  PROVE  SupChange(c) /\ proc'[p] = n /\ touched'[c] = touched[c]
<1> DEFINE new == [q \in {p} |-> n]
<1>1. DOMAIN new = {p} /\ new[p] = n
  OBVIOUS
<1>2. Changes(c, new)
  BY DEF ChangesOne
<1> HIDE DEF new
<1>3. SupChange(c)
  BY <1>1, <1>2, ChangesAsk
<1>4. proc'[p] = n
  BY <1>1, <1>2, ChangesAt
<1>5. touched'[c] = touched[c]
  BY <1>1, <1>2, OwnUntouched
<1> QED BY <1>3, <1>4, <1>5

LEMMA UpdateAsks ==
  ASSUME TypeInv, PlaceInv, EntryInv, NEW c \in Clients, NEW posted \in BOOLEAN, UpdateProcess(c, posted)
  PROVE  /\ SupChange(c)
         /\ serving /\ Now(c).ver # ver[c] =>
              posted /\ proc'[Hand(c)] = Replaced(ver[c], Now(c).dis, Who(c)) /\ touched'[c] = touched[c]
         /\ serving /\ Now(c).ver = ver[c] => proc' = proc /\ touched'[c] = touched[c]
<1>0. pc[c] \in {"apply", "up"} /\ todo[c] # <<>>
  BY DEF UpdateProcess, Posts, PlaceInv, PlaceOf, Handing
<1>1. CASE ~serving \/ Now(c).ver = ver[c]
  <2>1. UNCHANGED sup /\ UNCHANGED ghost
    BY <1>1 DEF UpdateProcess, OnlyTo
  <2> QED BY <1>1, <2>1, NothingChanges DEF sup, ghost
<1>2. CASE serving /\ Now(c).ver # ver[c]
  <2>1. Hand(c) \in Procs /\ posted /\ ChangesOne(c, Hand(c), Replaced(ver[c], Now(c).dis, Who(c)))
    BY <1>0, <1>2, AtHand DEF UpdateProcess
  <2>2. ver[c] \in 0..Len(Local) /\ Now(c) \in Entries /\ Now(c).dis \in BOOLEAN
    BY <2>1, NowTyped DEF TypeInv, CallType, Now
  <2>3. /\ Change(Now(c), Replaced(ver[c], Now(c).dis, Who(c)))
        /\ Gentle(Now(c), Replaced(ver[c], Now(c).dis, Who(c)))
        /\ Anew(Hand(c), Replaced(ver[c], Now(c).dis, Who(c)))
    BY <2>2, WhoTyped, ReplacedChange
  <2>4. /\ SupChange(c) /\ proc'[Hand(c)] = Replaced(ver[c], Now(c).dis, Who(c)) /\ touched'[c] = touched[c]
    BY <1>2, <2>1, <2>3, OneChanges DEF Now
  <2> QED BY <1>2, <2>1, <2>4
<1> QED BY <1>1, <1>2

LEMMA AddMissingAsks ==
  ASSUME TypeInv, PlaceInv, EntryInv, NEW c \in Clients, NEW P \in SUBSET Procs, AddMissing(c, P)
  PROVE  SupChange(c) /\ touched'[c] = touched[c]
<1>0. Hand(c) \in Procs /\ serving
  BY AtHand DEF AddMissing, Posts, PlaceInv, PlaceOf, Handing
<1> DEFINE new == [p \in P \cup {Hand(c)} |->
                     IF p \in P THEN Replaced(proc[p].ver, proc[p].dis, "asked") ELSE Replaced(0, TRUE, "no")]
<1>1. Changes(c, new)
  BY DEF AddMissing
<1>2. /\ DOMAIN new = P \cup {Hand(c)}
      /\ \A p \in DOMAIN new : new[p] = IF p \in P THEN Replaced(proc[p].ver, proc[p].dis, "asked")
                                        ELSE Replaced(0, TRUE, "no")
  OBVIOUS
<1> HIDE DEF new
<1>3. ASSUME NEW p \in DOMAIN new PROVE Change(proc[p], new[p]) /\ Gentle(proc[p], new[p]) /\ Anew(p, new[p])
  <2>1. /\ p \in Procs /\ proc[p] \in Entries /\ proc[p].ver \in 0..Len(Local) /\ proc[p].dis \in BOOLEAN
        /\ 0 \in 0..Len(Local) /\ TRUE \in BOOLEAN
    BY <1>0, <1>2, <1>3, NowTyped, Facts
  <2>2. CASE p \in P
    <3>1. new[p] = Replaced(proc[p].ver, proc[p].dis, "asked")
      BY <1>2, <2>2
    <3>2. "asked" \in Dues
      BY DEF Dues
    <3> QED BY ONLY <2>1, <3>1, <3>2, ReplacedChange
  <2>3. CASE p \notin P
    <3>1. new[p] = Replaced(0, TRUE, "no")
      BY <1>2, <2>3
    <3>3. /\ Change(proc[p], Replaced(0, TRUE, "no")) /\ Gentle(proc[p], Replaced(0, TRUE, "no"))
          /\ Anew(p, Replaced(0, TRUE, "no"))
      BY ONLY <2>1, ReplacedChange
    <3> QED BY ONLY <3>1, <3>3
  <2> QED BY <2>2, <2>3
<1>4. DOMAIN new \subseteq Procs
  BY <1>0, <1>2
<1>5. SupChange(c)
  BY ONLY <1>0, <1>1, <1>3, <1>4, TypeInv, EntryInv, c \in Clients, ChangesAsk
<1>6. touched'[c] = touched[c]
  BY ONLY <1>1, <1>4, TypeInv, c \in Clients, OwnUntouched
<1> QED BY <1>5, <1>6

LEMMA ActivateAsks ==
  ASSUME TypeInv, PlaceInv, EntryInv, NEW c \in Clients, Activate(c)
  PROVE  /\ SupChange(c)
         /\ \/ pc'[c] = "failed"
            \/ serving /\ proc'[Hand(c)] = Replaced(ver[c], FALSE, Who(c)) /\ touched'[c] = touched[c] /\ Sent(c, TRUE)
<1>0. pc[c] = "activate" /\ Hand(c) \in Procs
  BY AtHand DEF Activate, PlaceInv, PlaceOf, Handing
<1>1. CASE ~serving \/ Now(c).st = "absent" \/ Now(c).ver = ver[c]
  <2>1. UNCHANGED sup /\ pc'[c] = "failed"
    BY <1>1 DEF Activate, OnlyTo, Goto, TypeInv, CallType
  <2> QED BY <2>1, NothingChanges
<1>2. CASE ~(~serving \/ Now(c).st = "absent" \/ Now(c).ver = ver[c])
  <2>1. ChangesOne(c, Hand(c), Replaced(ver[c], FALSE, Who(c))) /\ Sent(c, TRUE) /\ serving
    BY <1>2 DEF Activate
  <2>2. ver[c] \in 0..Len(Local) /\ proc[Hand(c)] \in Entries /\ FALSE \in BOOLEAN
    BY <1>0, NowTyped DEF TypeInv, CallType
  <2>3. /\ Change(proc[Hand(c)], Replaced(ver[c], FALSE, Who(c)))
        /\ Gentle(proc[Hand(c)], Replaced(ver[c], FALSE, Who(c)))
        /\ Anew(Hand(c), Replaced(ver[c], FALSE, Who(c)))
    BY <2>2, WhoTyped, ReplacedChange
  <2> QED BY <1>0, <2>1, <2>3, OneChanges
<1> QED BY <1>1, <1>2

LEMMA StartAsks ==
  ASSUME TypeInv, PlaceInv, EntryInv, NEW c \in Clients, NEW reuse \in BOOLEAN, StartProcess(c, reuse)
  PROVE  SupChange(c) /\ touched'[c] = touched[c]
<1>0. Hand(c) \in Procs
  BY AtHand DEF StartProcess, PlaceInv, PlaceOf, Handing
<1>1. CASE ~(serving /\ Startable(Now(c)))
  <2>1. UNCHANGED sup /\ UNCHANGED ghost
    BY <1>1 DEF StartProcess, OnlyTo
  <2> QED BY <2>1, NothingChanges DEF ghost
<1>2. CASE serving /\ Startable(Now(c))
  <2>1. ChangesOne(c, Hand(c), Again(Now(c), Who(c), reuse))
    BY <1>2 DEF StartProcess
  <2>2. Now(c) \in Entries /\ EntryOk(Now(c)) /\ AtRest(Now(c)) /\ Now(c).st # "absent"
    BY <1>0, <1>2, NowTyped DEF Now, Startable, AtRest, Terminal
  <2>3. /\ Change(Now(c), Again(Now(c), Who(c), reuse)) /\ Gentle(Now(c), Again(Now(c), Who(c), reuse))
        /\ Anew(Hand(c), Again(Now(c), Who(c), reuse))
    BY <2>2, WhoTyped, AgainChange
  <2> QED BY <1>0, <1>2, <2>1, <2>3, OneChanges DEF Now
<1> QED BY <1>1, <1>2

LEMMA RestartAsks ==
  ASSUME TypeInv, PlaceInv, EntryInv, NEW c \in Clients, NEW reuse \in BOOLEAN, RestartProcess(c, reuse)
  PROVE  /\ SupChange(c)
         /\ \/ pc'[c] = "failed" /\ UNCHANGED <<op, ver, todo, seen, base, saw, since, root>>
            \/ /\ proc'[Hand(c)].due # "no" /\ proc'[Hand(c)].ver = Now(c).ver
               /\ touched'[c] = touched[c] /\ Advance(c, Applied(c))
<1>0. pc[c] = "restart" /\ Hand(c) \in Procs /\ todo[c] # <<>>
  BY AtHand DEF RestartProcess, PlaceInv, PlaceOf, Handing
<1>1. CASE ~(serving /\ Now(c).st # "absent")
  <2>1. UNCHANGED sup /\ pc'[c] = "failed" /\ UNCHANGED <<op, ver, todo, seen, base, saw, since, root>>
    BY <1>1 DEF RestartProcess, OnlyTo, Goto, TypeInv, CallType, Keeps, env
  <2> QED BY <2>1, NothingChanges
<1>2. CASE serving /\ Now(c).st # "absent"
  <2>1. ChangesOne(c, Hand(c), Again(Now(c), Who(c), reuse)) /\ Advance(c, Applied(c))
    BY <1>2 DEF RestartProcess
  <2>2. Now(c) \in Entries /\ EntryOk(Now(c))
    BY <1>0, NowTyped DEF Now
  <2>3. /\ Change(Now(c), Again(Now(c), Who(c), reuse))
        /\ Again(Now(c), Who(c), reuse).ver = Now(c).ver /\ Again(Now(c), Who(c), reuse).due # "no"
        /\ AtRest(Now(c)) => Gentle(Now(c), Again(Now(c), Who(c), reuse))
        /\ Anew(Hand(c), Again(Now(c), Who(c), reuse))
    BY <1>2, <2>2, WhoTyped, AgainChange DEF Dues
  <2>4. Hand(c) \in Jobs => op[c].verb = "run"
    <3>1. op[c].verb \in {"restart", "run"} /\ Hand(c) \in op[c].names
      BY <1>0, AtHand, AtWork DEF PlaceInv, PlaceOf, PlacesOf, Verbs
    <3> QED BY <1>0, <3>1, AtWork, Facts
  <2> QED BY <1>0, <1>2, <2>1, <2>3, <2>4, OneChanges DEF Now
<1> QED BY <1>1, <1>2

LEMMA StartNamedAsks ==
  ASSUME TypeInv, PlaceInv, EntryInv, NEW c \in Clients, NEW reuse \in BOOLEAN, StartNamed(c, reuse)
  PROVE  SupChange(c) /\ touched'[c] = touched[c]
<1>0. pc[c] = "start_named" /\ op[c].names \subseteq Procs
  BY AtWork DEF StartNamed
<1>1. CASE ~serving
  <2>1. UNCHANGED sup /\ UNCHANGED ghost
    BY <1>1 DEF StartNamed, OnlyTo
  <2> QED BY <2>1, NothingChanges DEF ghost
<1>2. CASE serving
  <2> DEFINE P == {p \in op[c].names : Startable(proc[p])}
             new == [p \in P |-> Again(proc[p], "asked", reuse)]
  <2>1. Changes(c, new)
    BY <1>2 DEF StartNamed
  <2>2. DOMAIN new = P /\ P \subseteq Procs
    BY <1>0
  <2>3. ASSUME NEW p \in P PROVE Change(proc[p], new[p]) /\ Gentle(proc[p], new[p]) /\ Anew(p, new[p])
    <3>1. new[p] = Again(proc[p], "asked", reuse) /\ p \in Procs /\ Startable(proc[p]) /\ "asked" \in Dues
      BY <1>0 DEF Dues
    <3>2. proc[p] \in Entries /\ EntryOk(proc[p]) /\ AtRest(proc[p]) /\ proc[p].st # "absent"
      BY <3>1, NowTyped DEF Startable, AtRest, Terminal
    <3> QED BY ONLY <3>1, <3>2, reuse \in BOOLEAN, AgainChange
  <2> HIDE DEF new
  <2>4. SupChange(c)
    BY <1>2, <2>1, <2>2, <2>3, ChangesAsk
  <2>5. touched'[c] = touched[c]
    BY <2>1, <2>2, OwnUntouched
  <2> QED BY <2>4, <2>5
<1> QED BY <1>1, <1>2

LEMMA StopAsks ==
  ASSUME TypeInv, PlaceInv, EntryInv, NEW c \in Clients, ProcessStop(c)
  PROVE  /\ SupChange(c) /\ touched'[c] = touched[c]
         /\ \A p \in Procs : proc'[p] = proc[p] \/ Down(proc'[p])
         /\ pc'[c] = "ok" => serving /\ \A p \in Procs : seen[c][p] # None => Down(proc'[p])
<1>0. pc[c] = "stop" /\ op[c].verb = "stop" /\ op[c].names \subseteq Services /\ Services \subseteq Procs
  BY AtWork, Facts DEF ProcessStop, PlacesOf, Verbs
<1>1. CASE ~serving
  <2>1. UNCHANGED sup /\ UNCHANGED ghost /\ pc'[c] = "stop_check"
    BY <1>1 DEF ProcessStop, Goto, TypeInv, CallType
  <2> QED BY <2>1, NothingChanges DEF ghost, sup
<1>2. CASE serving
  <2> DEFINE A == {p \in Procs : seen[c][p] # None}
             P == {p \in A : proc[p].st # "absent" /\ ~Startable(proc[p])}
             new == [p \in P |-> Downed(proc[p])]
  <2>1. Changes(c, new)
    BY <1>2 DEF ProcessStop, Downed
  <2>2. DOMAIN new = P /\ P \subseteq Procs /\ \A p \in P : new[p] = Downed(proc[p])
    OBVIOUS
  <2>3. ASSUME NEW p \in P
        PROVE  Change(proc[p], new[p]) /\ Down(new[p]) /\ p \notin Jobs /\ Anew(p, new[p])
    <3>1. new[p] = Downed(proc[p]) /\ p \in Procs /\ proc[p].st # "absent" /\ seen[c][p] # None
      OBVIOUS
    <3>2. p \in op[c].names
      BY <1>0, <3>1 DEF PlaceInv, PlaceOf
    <3>3. Change(proc[p], new[p]) /\ Down(new[p]) /\ new[p].st # "absent"
      BY <3>1, NowTyped, DownedChange
    <3>4. p \notin Jobs
      BY <1>0, <3>2, Facts
    <3> QED BY <3>3, <3>4 DEF Anew
  <2>4. pc'[c] = "ok" => P = A
    BY <1>2 DEF ProcessStop, Goto, TypeInv, CallType
  <2> HIDE DEF new
  <2>5. SupChange(c)
    BY <1>2, <2>1, <2>2, <2>3, ChangesAsk
  <2>6. touched'[c] = touched[c]
    BY <2>1, <2>2, OwnUntouched
  <2>7. proc' = [p \in Procs |-> IF p \in DOMAIN new THEN new[p] ELSE proc[p]]
    BY <2>1, <2>2, ChangesDoes
  <2>8. \A p \in Procs : proc'[p] = IF p \in P THEN new[p] ELSE proc[p]
    BY ONLY <2>2, <2>7
  <2> QED BY <1>2, <2>3, <2>4, <2>5, <2>6, <2>8
<1> QED BY <1>1, <1>2

LEMMA DaemonAsks ==
  ASSUME TypeInv, PlaceInv, EntryInv, NEW c \in Clients, UpDaemon(c)
  PROVE  SupChange(c) /\ touched[c] \subseteq touched'[c]
<1>1. CASE file = 0 \/ serving
  <2>1. UNCHANGED sup /\ UNCHANGED ghost
    BY <1>1 DEF UpDaemon, OnlyTo
  <2> QED BY <2>1, NothingChanges DEF ghost
<1>2. CASE file # 0 /\ ~serving
  <2> DEFINE up == Range(UpOrder(IF op[c].names = {} THEN Local[file] ELSE op[c].names, Local[file]))
             n(p) == IF p \in Local[file] THEN Replaced(file, p \notin up, "up") ELSE Absent
  <2>1. /\ proc' = [p \in Procs |-> n(p)] /\ held' = held \ up /\ serving' = TRUE
        /\ touched' = [d \in Clients |-> touched[d] \cup (IF d = c \/ pc[d] = "idle" THEN {} ELSE Procs)]
        /\ runs' = runs /\ ended' = ended
    BY <1>2 DEF UpDaemon, Touch
  <2>2. file \in 0..Len(Local) /\ "up" \in Dues
    BY DEF TypeInv, EnvType, Dues
  <2>3. ASSUME NEW p \in Procs
        PROVE  /\ n(p) \in Entries /\ Change(Absent, n(p)) /\ Gentle(Absent, n(p))
               /\ p \notin up => n(p).due = "no"
               /\ n(p).due = "no" => n(p).st \in {"absent", "disabled"}
    <3>1. CASE p \in Local[file]
      <4>1. Change(Absent, Replaced(file, TRUE, "up")) /\ Gentle(Absent, Replaced(file, TRUE, "up"))
        BY <2>2, Facts, ReplacedChange
      <4>2. Change(Absent, Replaced(file, FALSE, "up")) /\ Gentle(Absent, Replaced(file, FALSE, "up"))
        BY <2>2, Facts, ReplacedChange
      <4>3. /\ Replaced(file, TRUE, "up").due = "no" /\ Replaced(file, TRUE, "up").st = "disabled"
            /\ Replaced(file, FALSE, "up").due = "up"
        BY DEF Replaced, Pending
      <4>4. n(p) = IF p \notin up THEN Replaced(file, TRUE, "up") ELSE Replaced(file, FALSE, "up")
        <5>1. n(p) = Replaced(file, p \notin up, "up")
          BY <3>1
        <5>2. p \notin up => (p \notin up) = TRUE
          OBVIOUS
        <5>3. p \in up => (p \notin up) = FALSE
          OBVIOUS
        <5> HIDE DEF up, n
        <5> QED BY <5>1, <5>2, <5>3
      <4> HIDE DEF up, n
      <4> QED BY ONLY <4>1, <4>2, <4>3, <4>4 DEF Change
    <3>2. CASE p \notin Local[file]
      BY <3>2, AbsentChange, Facts DEF Absent
    <3> QED BY <3>1, <3>2
  <2> HIDE DEF up, n
  <2>4. \A p \in Procs : proc[p] = Absent
    BY <1>2 DEF EntryInv
  <2>5. Absent.st = "absent" /\ ~Live(Absent)
    BY DEF Absent, Live
  <2>6. SupType'
    BY <2>1, <2>3 DEF TypeInv, SupType
  <2>7. ASSUME NEW p \in Procs PROVE Asked(p, c)
    <3>1. proc'[p] = n(p) /\ proc[p] = Absent /\ (p \in held' => p \notin up)
      BY <2>1, <2>4
    <3> QED BY <2>1, <2>3, <2>5, <3>1 DEF Asked
  <2> QED BY <2>1, <2>6, <2>7 DEF SupChange, AbsentUnserved, TypeInv, CallType
<1> QED BY <1>1, <1>2

LEMMA DownAsks ==
  ASSUME TypeInv, PlaceInv, EntryInv, NEW c \in Clients, StackDown(c)
  PROVE  SupChange(c) /\ touched[c] \subseteq touched'[c]
<1>1. CASE file = 0 \/ ~serving
  <2>1. UNCHANGED sup /\ UNCHANGED ghost
    BY <1>1 DEF StackDown, OnlyTo
  <2> QED BY <2>1, NothingChanges DEF ghost
<1>2. CASE file # 0 /\ serving
  <2>1. /\ proc' = [p \in Procs |-> Absent] /\ serving' = FALSE /\ runs' = runs
        /\ touched' = [d \in Clients |-> touched[d] \cup (IF d = c \/ pc[d] = "idle" THEN {} ELSE Procs)]
        /\ ended' = [j \in Jobs |-> IF Live(proc[j]) THEN proc[j].pid ELSE ended[j]]
    BY <1>2 DEF StackDown, Touch
  <2>2. \A p \in Procs : proc[p] \in Entries /\ proc[p].pid \in Nat
    BY NowTyped
  <2>3. SupType'
    <3>1. proc' \in [Procs -> Entries]
      BY ONLY <2>1, Facts
    <3>2. ended' \in [Jobs -> Nat]
      BY <2>1, <2>2, Facts DEF TypeInv, SupType
    <3> QED BY <2>1, <3>1, <3>2 DEF TypeInv, SupType
  <2>4. Absent.due = "no" /\ ~Live(Absent)
    BY DEF Absent, Live
  <2>5. ASSUME NEW p \in Procs PROVE Asked(p, c)
    <3>1. proc'[p] = Absent /\ Change(proc[p], Absent) /\ Gentle(proc[p], Absent)
      BY <2>1, <2>2, AbsentChange
    <3>2. p \in Jobs => ended'[p] = IF Live(proc[p]) THEN proc[p].pid ELSE ended[p]
      BY ONLY <2>1
    <3>3. \A d \in Clients : d # c /\ pc[d] # "idle" => Procs \subseteq touched'[d]
      BY ONLY <2>1
    <3>4. op[c].verb = "down" /\ Absent.st = "absent"
      BY AtWork DEF StackDown, PlacesOf, Verbs, Absent
    <3> QED BY <2>1, <2>4, <3>1, <3>2, <3>3, <3>4 DEF Asked
  <2> QED BY <2>1, <2>3, <2>5 DEF SupChange, AbsentUnserved, TypeInv, CallType
<1> QED BY <1>1, <1>2

(* The supervisor by itself.                                                  *)
LEMMA OneByItself ==
  ASSUME TypeInv, EntryInv, NEW p \in Procs, NEW n \in Entries, SupervisorStep(p, n),
         runs' = runs \/ runs' = [runs EXCEPT ![p] = @ + 1],
         ended' = ended \/ (p \in Jobs /\ ended' = [ended EXCEPT ![p] = proc[p].pid]),
         p \in Procs => Itself(p), serving
  PROVE  SupType' /\ AbsentUnserved /\ \A q \in Procs : Kept(q) \/ Itself(q)
<1>1. proc' = [proc EXCEPT ![p] = n] /\ serving' = serving
  BY DEF SupervisorStep
<1>2. proc[p].pid \in Nat
  BY NowTyped
<1> QED BY <1>1, <1>2 DEF TypeInv, SupType, AbsentUnserved, Kept

Fields(n, st, pid, end, e) == /\ n \in Entries /\ n.st = st /\ n.pid = pid /\ n.end = end
                              /\ n.ver = e.ver /\ n.dis = e.dis /\ n.due = "no"

LEMMA EntryMade ==
  ASSUME NEW e \in Entries, NEW pid \in Nat
  PROVE  /\ Fields([e EXCEPT !.st = "running", !.pid = pid, !.due = "no"], "running", pid, e.end, e)
         /\ Fields([e EXCEPT !.st = "skipped", !.due = "no"], "skipped", e.pid, e.end, e)
         /\ \A st \in {"completed", "error", "restarting"} : e.due = "no" =>
              Fields(Over(e, st), st, e.pid, IF e.end = 0 THEN e.pid ELSE e.end, e)
<1>1. Fields([e EXCEPT !.st = "running", !.pid = pid, !.due = "no"], "running", pid, e.end, e)
  BY DEF Fields, Entries
<1>2. Fields([e EXCEPT !.st = "skipped", !.due = "no"], "skipped", e.pid, e.end, e)
  BY DEF Fields, Entries
<1>3. ASSUME NEW st \in {"completed", "error", "restarting"}, e.due = "no"
      PROVE  Fields(Over(e, st), st, e.pid, IF e.end = 0 THEN e.pid ELSE e.end, e)
  BY <1>3 DEF Fields, Entries, Over
<1> QED BY <1>1, <1>2, <1>3

LEMMA RunsItself ==
  ASSUME TypeInv, EntryInv, NEW p \in Procs, Runs(p)
  PROVE  SupType' /\ AbsentUnserved /\ \A q \in Procs : Kept(q) \/ Itself(q)
<1> DEFINE e == proc[p]
<1>0. /\ e \in Entries /\ EntryOk(e) /\ e.pid \in Nat /\ e.end \in Nat /\ e.ver \in 0..Len(Local) /\ e.dis \in BOOLEAN
      /\ Live(e) => e.due = "no"
      /\ runs[p] \in Nat /\ e.pid <= runs[p] /\ e.end <= e.pid /\ DOMAIN proc = Procs
  BY DEF TypeInv, SupType, EntryInv, Entries, EntryOk
<1> HIDE DEF e
<1>1. CASE Launch(p)
  <2> DEFINE n == Launched(p, e)
  <2>1. /\ SupervisorStep(p, n) /\ runs' = [runs EXCEPT ![p] = @ + 1] /\ ended' = ended
        /\ e.due # "no" \/ e.st = "restarting"
    BY <1>1 DEF Launch, e
  <2>2. Fields(n, "running", runs[p] + 1, e.end, e)
    <3>1. runs[p] + 1 \in Nat /\ e \in Entries /\ e.end \in Nat
      BY <1>0
    <3>2. n = [e EXCEPT !.st = "running", !.pid = runs[p] + 1, !.due = "no"]
      BY DEF Launched, n
    <3> QED BY ONLY <3>1, <3>2, EntryMade
  <2> HIDE DEF n
  <2>3. n \in Entries /\ EntryOk(n)
    BY <1>0, <2>2 DEF Fields, EntryOk, Live
  <2>4. proc'[p] = n /\ serving
    BY <1>0, <2>1 DEF SupervisorStep, EntryInv, Absent, e
  <2>5. Itself(p)
    BY <1>0, <2>1, <2>2, <2>3, <2>4 DEF e, Itself, Fields, TypeInv, SupType
  <2> QED BY <2>1, <2>3, <2>4, <2>5, OneByItself DEF e
<1>2. CASE Skip(p)
  <2> DEFINE n == [e EXCEPT !.st = "skipped", !.due = "no"]
  <2>1. SupervisorStep(p, n) /\ runs' = runs /\ ended' = ended /\ e.due # "no"
    BY <1>2 DEF Skip, e
  <2>2. Fields(n, "skipped", e.pid, e.end, e)
    BY <1>0, <2>1, EntryMade DEF n, Launched, Live
  <2> HIDE DEF n
  <2>3. n \in Entries /\ EntryOk(n)
    BY <1>0, <2>2 DEF Fields, EntryOk, Live
  <2>4. proc'[p] = n /\ serving
    BY <1>0, <2>1 DEF SupervisorStep, EntryInv, Absent, e
  <2>5. Itself(p)
    BY <1>0, <2>1, <2>2, <2>3, <2>4 DEF e, Itself, Fields, TypeInv, SupType
  <2> QED BY <2>1, <2>3, <2>4, <2>5, OneByItself DEF e
<1>3. ASSUME NEW st \in {"completed", "error"}, Ended(p, st)
      PROVE  SupType' /\ AbsentUnserved /\ \A q \in Procs : Kept(q) \/ Itself(q)
  <2> DEFINE n == Over(e, st)
  <2>1. /\ SupervisorStep(p, n) /\ runs' = runs /\ Live(e)
        /\ ended' = IF p \in Jobs THEN [ended EXCEPT ![p] = e.pid] ELSE ended
    BY <1>3 DEF Ended, e
  <2>2. Fields(n, st, e.pid, IF e.end = 0 THEN e.pid ELSE e.end, e)
    BY <1>0, <2>1, EntryMade DEF n, Launched, Live
  <2> HIDE DEF n
  <2>3. n \in Entries /\ EntryOk(n) /\ e.due = "no"
    BY <1>0, <2>1, <2>2 DEF Fields, EntryOk, Live
  <2>4. proc'[p] = n /\ serving
    BY <1>0, <2>1 DEF SupervisorStep, EntryInv, Absent, Live, e
  <2>5. Itself(p)
    BY <1>0, <2>1, <2>2, <2>3, <2>4 DEF e, Itself, Fields, TypeInv, SupType
  <2> QED BY <2>1, <2>3, <2>4, <2>5, OneByItself DEF e
<1>4. CASE Crash(p)
  <2> DEFINE n == Over(e, "restarting")
  <2>1. SupervisorStep(p, n) /\ runs' = runs /\ ended' = ended /\ p \in Services /\ e.st = "running"
    BY <1>4 DEF Crash, e
  <2>2. Fields(n, "restarting", e.pid, IF e.end = 0 THEN e.pid ELSE e.end, e)
    BY <1>0, <2>1, EntryMade DEF n, Launched, Live
  <2> HIDE DEF n
  <2>3. n \in Entries /\ EntryOk(n) /\ e.due = "no"
    BY <1>0, <2>1, <2>2 DEF Fields, EntryOk, Live
  <2>4. proc'[p] = n /\ serving
    BY <1>0, <2>1 DEF SupervisorStep, EntryInv, Absent, e
  <2>5. Itself(p)
    BY <1>0, <2>1, <2>2, <2>3, <2>4 DEF e, Itself, Fields, TypeInv, SupType
  <2> QED BY <2>1, <2>3, <2>4, <2>5, OneByItself DEF e
<1> QED BY <1>1, <1>2, <1>3, <1>4 DEF Runs

LEMMA ExitAsks ==
  ASSUME TypeInv, EntryInv, SupervisorExits PROVE SupChange(None)
<1>1. /\ proc' = [p \in Procs |-> Absent] /\ serving' = FALSE /\ runs' = runs /\ ended' = ended
      /\ touched' = [d \in Clients |-> touched[d] \cup (IF d = None \/ pc[d] = "idle" THEN {} ELSE Procs)]
      /\ \A p \in Procs : ~Live(proc[p])
  BY DEF SupervisorExits, Touch, Startable, AtRest, Terminal, Live
<1>2. \A p \in Procs : proc[p] \in Entries
  BY NowTyped
<1>3. SupType'
  BY <1>1, Facts DEF TypeInv, SupType
<1>4. Absent.due = "no" /\ None \notin Clients
  BY Facts DEF Absent
<1>5. ASSUME NEW p \in Procs PROVE Asked(p, None)
  <2>1. proc'[p] = Absent /\ Change(proc[p], Absent) /\ Gentle(proc[p], Absent)
    BY <1>1, <1>2, AbsentChange
  <2>2. \A d \in Clients : d # None /\ pc[d] # "idle" => Procs \subseteq touched'[d]
    BY ONLY <1>1
  <2>3. Absent.st = "absent"
    BY DEF Absent
  <2> QED BY <1>1, <1>4, <2>1, <2>2, <2>3 DEF Asked
<1> QED BY <1>1, <1>3, <1>5 DEF SupChange, AbsentUnserved

(* What a client's step does to the processes it asks for, and nothing else.    *)
LEMMA ClientChanges ==
  ASSUME TypeInv, PlaceInv, EntryInv, NEW c \in Clients, Asks(c) \/ Poll(c)
  PROVE  SupChange(c)
<1>1. ASSUME NEW r \in Requests, Begin(c, r)
      PROVE  SupChange(c)
  BY <1>1, NothingChanges DEF Begin, sup
<1>2. CASE Rest(c)
  BY <1>2, NothingChanges DEF Rest, sup
<1>3. CASE Prepare(c)
  BY <1>3, NothingChanges DEF Prepare, sup, ghost
<1>4. CASE PrepareRun(c)
  BY <1>4, NothingChanges DEF PrepareRun, sup, ghost
<1>5. CASE LoadStack(c)
  BY <1>5, NothingChanges DEF LoadStack, sup, ghost
<1>6. CASE Probe(c)
  BY <1>6, NothingChanges DEF Probe, sup, ghost
<1>7. CASE UpDaemon(c)
  BY <1>7, DaemonAsks
<1>8. CASE AwaitSupervisor(c)
  BY <1>8, NothingChanges DEF AwaitSupervisor, OnlyTo, sup, ghost
<1>9. CASE ReadFile(c)
  BY <1>9, NothingChanges DEF ReadFile, OnlyTo, sup, ghost
<1>10. CASE UpRead(c)
  BY <1>10, NothingChanges DEF UpRead, OnlyTo, sup, ghost
<1>11. CASE UpLeaves(c)
  BY <1>11, NothingChanges DEF UpLeaves, OnlyTo, Advance, sup, ghost
<1>12. CASE ReadBaseline(c)
  BY <1>12, NothingChanges DEF ReadBaseline, OnlyTo, sup, ghost
<1>13. CASE ReadBefore(c)
  BY <1>13, NothingChanges DEF ReadBefore, OnlyTo, sup, ghost
<1>14. ASSUME NEW posted \in BOOLEAN, UpdateProcess(c, posted)
      PROVE  SupChange(c)
  BY <1>14, UpdateAsks
<1>15. ASSUME NEW P \in SUBSET Procs, AddMissing(c, P)
      PROVE  SupChange(c)
  BY <1>15, AddMissingAsks
<1>16. CASE Activate(c)
  BY <1>16, ActivateAsks
<1>17. CASE Confirm(c)
  BY <1>17, NothingChanges DEF Confirm, OnlyTo, Advance, sup, ghost
<1>18. ASSUME NEW reuse \in BOOLEAN, StartProcess(c, reuse)
      PROVE  SupChange(c)
  BY <1>18, StartAsks
<1>19. ASSUME NEW reuse \in BOOLEAN, RestartProcess(c, reuse)
      PROVE  SupChange(c)
  BY <1>19, RestartAsks
<1>20. ASSUME NEW reuse \in BOOLEAN, StartNamed(c, reuse)
      PROVE  SupChange(c)
  BY <1>20, StartNamedAsks
<1>21. CASE StopRead(c)
  BY <1>21, NothingChanges DEF StopRead, OnlyTo, sup, ghost
<1>22. CASE ProcessStop(c)
  BY <1>22, StopAsks
<1>23. CASE StopCheck(c)
  BY <1>23, NothingChanges DEF StopCheck, OnlyTo, Advance, sup, ghost
<1>24. CASE StackDown(c)
  BY <1>24, DownAsks
<1>25. CASE Kill(c)
  BY <1>25, NothingChanges DEF Kill, OnlyTo, sup, ghost
<1>26. CASE Poll(c)
  BY <1>26, NothingChanges DEF Poll, OnlyTo, sup, ghost
<1> QED BY <1>1, <1>2, <1>3, <1>4, <1>5, <1>6, <1>7, <1>8, <1>9, <1>10, <1>11, <1>12, <1>13, <1>14, <1>15,
     <1>16, <1>17, <1>18, <1>19, <1>20, <1>21, <1>22, <1>23, <1>24, <1>25, <1>26 DEF Asks

Same(d) == /\ pc'[d] = pc[d] /\ op'[d] = op[d] /\ ver'[d] = ver[d] /\ todo'[d] = todo[d]
           /\ seen'[d] = seen[d] /\ base'[d] = base[d] /\ saw'[d] = saw[d] /\ since'[d] = since[d]
           /\ touched[d] \subseteq touched'[d]

LEMMA TouchesMore ==
  ASSUME TypeInv, NEW c \in Clients, NEW new, DOMAIN new \subseteq Procs, Changes(c, new)
  PROVE  /\ touched' \in [Clients -> SUBSET Procs] /\ held' \subseteq held
         /\ \A d \in Clients : touched[d] \subseteq touched'[d]
<1>1. touched' = [x \in Clients |-> touched[x] \cup (IF x = c \/ pc[x] = "idle" THEN {} ELSE DOMAIN new)]
  BY DEF Changes, Touch
<1>2. held' \subseteq held
  BY ChangesDoes
<1> QED BY <1>1, <1>2 DEF TypeInv, CallType

LEMMA OneTouchesMore ==
  ASSUME TypeInv, NEW c \in Clients, NEW p \in Procs, NEW n, ChangesOne(c, p, n)
  PROVE  /\ touched' \in [Clients -> SUBSET Procs] /\ held' \subseteq held
         /\ \A d \in Clients : touched[d] \subseteq touched'[d]
<1> DEFINE new == [q \in {p} |-> n]
<1>1. Changes(c, new) /\ DOMAIN new \subseteq Procs
  BY DEF ChangesOne
<1> QED BY <1>1, TouchesMore

(* A step of a client takes nothing from what the others were touched by.     *)
LEMMA Touches ==
  ASSUME TypeInv, PlaceInv, EntryInv, NEW c \in Clients, Asks(c) \/ Poll(c)
  PROVE  /\ touched' \in [Clients -> SUBSET Procs] /\ (held' \subseteq held \/ Rest(c))
         /\ \A d \in Clients \ {c} : touched[d] \subseteq touched'[d]
<1>1. ASSUME NEW r \in Requests, Begin(c, r)
      PROVE  /\ touched' \in [Clients -> SUBSET Procs] /\ (held' \subseteq held \/ Rest(c))
              /\ \A d \in Clients \ {c} : touched[d] \subseteq touched'[d]
  BY <1>1 DEF Begin, Goto, Hand, sup, ghost, TypeInv, CallType
<1>2. CASE Rest(c)
  BY <1>2 DEF Rest, Goto, Hand, sup, TypeInv, CallType
<1>3. CASE Prepare(c)
  BY <1>3 DEF Prepare, Goto, Hand, sup, ghost, TypeInv, CallType
<1>4. CASE PrepareRun(c)
  BY <1>4 DEF PrepareRun, Goto, Hand, sup, ghost, TypeInv, CallType
<1>5. CASE LoadStack(c)
  BY <1>5 DEF LoadStack, Goto, Hand, env, sup, ghost, TypeInv, CallType
<1>6. CASE Probe(c)
  BY <1>6 DEF Probe, Goto, Keeps, Hand, env, sup, ghost, TypeInv, CallType
<1>7. CASE UpDaemon(c)
  BY <1>7 DEF UpDaemon, Touch, OnlyTo, ghost, TypeInv, CallType
<1>8. CASE AwaitSupervisor(c)
  BY <1>8 DEF AwaitSupervisor, Goto, OnlyTo, Keeps, Hand, env, sup, ghost, TypeInv, CallType
<1>9. CASE ReadFile(c)
  BY <1>9 DEF ReadFile, Goto, OnlyTo, Keeps, Hand, env, sup, ghost, TypeInv, CallType
<1>10. CASE UpRead(c)
  BY <1>10 DEF UpRead, Goto, OnlyTo, Keeps, Hand, env, sup, ghost, TypeInv, CallType
<1>11. CASE UpLeaves(c)
  BY <1>11 DEF UpLeaves, Goto, OnlyTo, Keeps, Advance, Hand, env, sup, ghost, TypeInv, CallType
<1>12. CASE ReadBaseline(c)
  BY <1>12 DEF ReadBaseline, Goto, OnlyTo, Keeps, Hand, env, sup, ghost, TypeInv, CallType
<1>13. CASE ReadBefore(c)
  BY <1>13 DEF ReadBefore, Goto, OnlyTo, Keeps, Hand, env, sup, ghost, TypeInv, CallType
<1>14. ASSUME NEW posted \in BOOLEAN, UpdateProcess(c, posted)
      PROVE  /\ touched' \in [Clients -> SUBSET Procs] /\ (held' \subseteq held \/ Rest(c))
              /\ \A d \in Clients \ {c} : touched[d] \subseteq touched'[d]
  <2>1. Hand(c) \in Procs
    BY <1>14, AtHand DEF UpdateProcess, Posts, PlaceInv, PlaceOf, Handing
  <2>2. (\E n : ChangesOne(c, Hand(c), n)) \/ UNCHANGED <<touched, held>>
    BY <1>14 DEF UpdateProcess, OnlyTo, Sent, Advance, ghost
  <2> QED BY <2>1, <2>2, OneTouchesMore DEF TypeInv, CallType
<1>15. ASSUME NEW P \in SUBSET Procs, AddMissing(c, P)
      PROVE  /\ touched' \in [Clients -> SUBSET Procs] /\ (held' \subseteq held \/ Rest(c))
              /\ \A d \in Clients \ {c} : touched[d] \subseteq touched'[d]
  <2>1. Hand(c) \in Procs
    BY <1>15, AtHand DEF AddMissing, Posts, PlaceInv, PlaceOf, Handing
  <2> DEFINE new == [p \in P \cup {Hand(c)} |->
                     IF p \in P THEN Replaced(proc[p].ver, proc[p].dis, "asked") ELSE Replaced(0, TRUE, "no")]
  <2>2. Changes(c, new) /\ DOMAIN new \subseteq Procs
    BY <1>15, <2>1 DEF AddMissing
  <2> QED BY <2>2, TouchesMore
<1>16. CASE Activate(c)
  <2>1. Hand(c) \in Procs
    BY <1>16, AtHand DEF Activate, PlaceInv, PlaceOf, Handing
  <2>2. (\E n : ChangesOne(c, Hand(c), n)) \/ UNCHANGED <<touched, held>>
    BY <1>16 DEF Activate, OnlyTo, Sent, Advance, ghost
  <2> QED BY <2>1, <2>2, OneTouchesMore DEF TypeInv, CallType
<1>17. CASE Confirm(c)
  BY <1>17 DEF Confirm, Goto, OnlyTo, Keeps, Advance, Hand, env, sup, ghost, TypeInv, CallType
<1>18. ASSUME NEW reuse \in BOOLEAN, StartProcess(c, reuse)
      PROVE  /\ touched' \in [Clients -> SUBSET Procs] /\ (held' \subseteq held \/ Rest(c))
              /\ \A d \in Clients \ {c} : touched[d] \subseteq touched'[d]
  <2>1. Hand(c) \in Procs
    BY <1>18, AtHand DEF StartProcess, PlaceInv, PlaceOf, Handing
  <2>2. (\E n : ChangesOne(c, Hand(c), n)) \/ UNCHANGED <<touched, held>>
    BY <1>18 DEF StartProcess, OnlyTo, Advance, ghost
  <2> QED BY <2>1, <2>2, OneTouchesMore DEF TypeInv, CallType
<1>19. ASSUME NEW reuse \in BOOLEAN, RestartProcess(c, reuse)
      PROVE  /\ touched' \in [Clients -> SUBSET Procs] /\ (held' \subseteq held \/ Rest(c))
              /\ \A d \in Clients \ {c} : touched[d] \subseteq touched'[d]
  <2>1. Hand(c) \in Procs
    BY <1>19, AtHand DEF RestartProcess, PlaceInv, PlaceOf, Handing
  <2>2. (\E n : ChangesOne(c, Hand(c), n)) \/ UNCHANGED <<touched, held>>
    BY <1>19 DEF RestartProcess, OnlyTo, Advance, ghost
  <2> QED BY <2>1, <2>2, OneTouchesMore DEF TypeInv, CallType
<1>20. ASSUME NEW reuse \in BOOLEAN, StartNamed(c, reuse)
      PROVE  /\ touched' \in [Clients -> SUBSET Procs] /\ (held' \subseteq held \/ Rest(c))
              /\ \A d \in Clients \ {c} : touched[d] \subseteq touched'[d]
  <2>1. op[c].names \subseteq Procs
    BY <1>20, AtWork DEF StartNamed
  <2> DEFINE new == [p \in {q \in op[c].names : Startable(proc[q])} |-> Again(proc[p], "asked", reuse)]
  <2>2. (Changes(c, new) /\ DOMAIN new \subseteq Procs) \/ UNCHANGED <<touched, held>>
    BY <1>20, <2>1 DEF StartNamed, OnlyTo, ghost
  <2> QED BY <2>2, TouchesMore DEF TypeInv, CallType
<1>21. CASE StopRead(c)
  <2>1. UNCHANGED <<touched, held>> \/ (todo[c] # <<>> /\ serving)
    BY <1>21 DEF StopRead, OnlyTo, ghost
  <2>2. CASE todo[c] # <<>> /\ serving
    <3>1. Hand(c) \in Procs
      BY <2>2, AtHand
    <3>2. /\ held' = held
          /\ \E Q \in SUBSET {Hand(c)} : touched' = [touched EXCEPT ![c] = @ \cup Q]
      BY <1>21, <2>2 DEF StopRead
    <3> QED BY <3>1, <3>2 DEF TypeInv, CallType
  <2> QED BY <2>1, <2>2 DEF TypeInv, CallType
<1>22. CASE ProcessStop(c)
  <2> DEFINE new == [p \in {q \in {x \in Procs : seen[c][x] # None} : proc[q].st # "absent" /\ ~Startable(proc[q])} |->
                      Downed(proc[p])]
  <2>1. (Changes(c, new) /\ DOMAIN new \subseteq Procs) \/ UNCHANGED <<touched, held>>
    BY <1>22 DEF ProcessStop, Downed, ghost
  <2> QED BY <2>1, TouchesMore DEF TypeInv, CallType
<1>23. CASE StopCheck(c)
  BY <1>23 DEF StopCheck, Goto, OnlyTo, Keeps, Advance, Hand, env, sup, ghost, TypeInv, CallType
<1>24. CASE StackDown(c)
  BY <1>24 DEF StackDown, Touch, OnlyTo, ghost, TypeInv, CallType
<1>25. CASE Kill(c)
  BY <1>25 DEF Kill, Goto, OnlyTo, Keeps, Hand, env, sup, ghost, TypeInv, CallType
<1>26. CASE Poll(c)
  BY <1>26 DEF Poll, Goto, OnlyTo, Keeps, Hand, env, sup, ghost, TypeInv, CallType
<1> QED BY <1>1, <1>2, <1>3, <1>4, <1>5, <1>6, <1>7, <1>8, <1>9, <1>10, <1>11, <1>12, <1>13, <1>14, <1>15,
     <1>16, <1>17, <1>18, <1>19, <1>20, <1>21, <1>22, <1>23, <1>24, <1>25, <1>26 DEF Asks

(* The others' calls are as they were.                                         *)
LEMMA OthersStay ==
  ASSUME TypeInv, PlaceInv, EntryInv, NEW c \in Clients, Asks(c) \/ Poll(c), NEW d \in Clients \ {c}
  PROVE  Same(d)
<1>1. ASSUME NEW r \in Requests, Begin(c, r)
      PROVE  Same(d)
  BY <1>1, Touches DEF Begin, Goto, Keeps, Advance, Hand, env, sup, call, Same, TypeInv, CallType, TodoType,
       SeenType
<1>2. CASE Rest(c)
  BY <1>2, Touches DEF Rest, Goto, Keeps, Advance, Hand, env, sup, call, Same, TypeInv, CallType, TodoType,
       SeenType
<1>3. CASE Prepare(c)
  BY <1>3, Touches DEF Prepare, Goto, Keeps, Advance, Hand, env, sup, call, ghost, Same, TypeInv, CallType,
       TodoType, SeenType
<1>4. CASE PrepareRun(c)
  BY <1>4, Touches DEF PrepareRun, Goto, Keeps, Advance, Hand, env, sup, call, ghost, Same, TypeInv, CallType,
       TodoType, SeenType
<1>5. CASE LoadStack(c)
  BY <1>5, Touches DEF LoadStack, Goto, Keeps, Advance, Hand, env, sup, call, ghost, Same, TypeInv, CallType,
       TodoType, SeenType
<1>6. CASE Probe(c)
  BY <1>6, Touches DEF Probe, Goto, Keeps, Advance, Hand, env, sup, call, ghost, Same, TypeInv, CallType,
       TodoType, SeenType
<1>7. CASE UpDaemon(c)
  BY <1>7, Touches DEF UpDaemon, Goto, OnlyTo, Keeps, Advance, Hand, env, sup, call, ghost, Same, TypeInv,
       CallType, TodoType, SeenType
<1>8. CASE AwaitSupervisor(c)
  BY <1>8, Touches DEF AwaitSupervisor, Goto, OnlyTo, Keeps, Advance, Hand, env, sup, call, ghost, Same,
       TypeInv, CallType, TodoType, SeenType
<1>9. CASE ReadFile(c)
  BY <1>9, Touches DEF ReadFile, Goto, OnlyTo, Keeps, Advance, Hand, env, sup, call, ghost, Same, TypeInv,
       CallType, TodoType, SeenType
<1>10. CASE UpRead(c)
  BY <1>10, Touches DEF UpRead, Goto, OnlyTo, Keeps, Advance, Hand, env, sup, call, ghost, Same, TypeInv,
       CallType, TodoType, SeenType
<1>11. CASE UpLeaves(c)
  BY <1>11, Touches DEF UpLeaves, Goto, OnlyTo, Keeps, Advance, Hand, env, sup, call, ghost, Same, TypeInv,
       CallType, TodoType, SeenType
<1>12. CASE ReadBaseline(c)
  BY <1>12, Touches DEF ReadBaseline, Goto, OnlyTo, Keeps, Advance, Hand, env, sup, call, ghost, Same,
       TypeInv, CallType, TodoType, SeenType
<1>13. CASE ReadBefore(c)
  BY <1>13, Touches DEF ReadBefore, Goto, OnlyTo, Keeps, Advance, Hand, env, sup, call, ghost, Same, TypeInv,
       CallType, TodoType, SeenType
<1>14. ASSUME NEW posted \in BOOLEAN, UpdateProcess(c, posted)
      PROVE  Same(d)
  <2>1. \E l : Advance(c, l) \/ (Goto(c, l) /\ Keeps)
    BY <1>14 DEF UpdateProcess, OnlyTo, Sent
  <2> QED BY ONLY <2>1, Touches, TypeInv, PlaceInv, EntryInv, Asks(c) \/ Poll(c),
       d \in Clients \ {c} DEF Goto, Advance, Keeps, Same, TypeInv, CallType, TodoType, SeenType
<1>15. ASSUME NEW P \in SUBSET Procs, AddMissing(c, P)
      PROVE  Same(d)
  BY <1>15, Touches DEF AddMissing, Goto, Keeps, Advance, Hand, env, call, Same, TypeInv, CallType, TodoType,
       SeenType
<1>16. CASE Activate(c)
  <2>1. \E l : Advance(c, l) \/ (Goto(c, l) /\ Keeps)
    BY <1>16 DEF Activate, OnlyTo, Sent
  <2> QED BY ONLY <2>1, Touches, TypeInv, PlaceInv, EntryInv, Asks(c) \/ Poll(c),
       d \in Clients \ {c} DEF Goto, Advance, Keeps, Same, TypeInv, CallType, TodoType, SeenType
<1>17. CASE Confirm(c)
  <2>1. \E l : Advance(c, l) \/ (Goto(c, l) /\ Keeps)
    BY <1>17 DEF Confirm, OnlyTo
  <2> QED BY ONLY <2>1, Touches, TypeInv, PlaceInv, EntryInv, Asks(c) \/ Poll(c),
       d \in Clients \ {c} DEF Goto, Advance, Keeps, Same, TypeInv, CallType, TodoType, SeenType
<1>18. ASSUME NEW reuse \in BOOLEAN, StartProcess(c, reuse)
      PROVE  Same(d)
  <2>1. \E l : Advance(c, l) \/ (Goto(c, l) /\ Keeps)
    BY <1>18 DEF StartProcess, OnlyTo
  <2> QED BY ONLY <2>1, Touches, TypeInv, PlaceInv, EntryInv, Asks(c) \/ Poll(c),
       d \in Clients \ {c} DEF Goto, Advance, Keeps, Same, TypeInv, CallType, TodoType, SeenType
<1>19. ASSUME NEW reuse \in BOOLEAN, RestartProcess(c, reuse)
      PROVE  Same(d)
  <2>1. \E l : Advance(c, l) \/ (Goto(c, l) /\ Keeps)
    BY <1>19 DEF RestartProcess, OnlyTo
  <2> QED BY ONLY <2>1, Touches, TypeInv, PlaceInv, EntryInv, Asks(c) \/ Poll(c),
       d \in Clients \ {c} DEF Goto, Advance, Keeps, Same, TypeInv, CallType, TodoType, SeenType
<1>20. ASSUME NEW reuse \in BOOLEAN, StartNamed(c, reuse)
      PROVE  Same(d)
  BY <1>20, Touches DEF StartNamed, Goto, OnlyTo, Keeps, Advance, Hand, env, sup, call, ghost, Same, TypeInv,
       CallType, TodoType, SeenType
<1>21. CASE StopRead(c)
  BY <1>21, Touches DEF StopRead, Goto, OnlyTo, Keeps, Advance, Hand, env, sup, call, ghost, Same, TypeInv,
       CallType, TodoType, SeenType
<1>22. CASE ProcessStop(c)
  BY <1>22, Touches DEF ProcessStop, Goto, Keeps, Advance, Hand, env, sup, call, ghost, Same, TypeInv,
       CallType, TodoType, SeenType
<1>23. CASE StopCheck(c)
  BY <1>23, Touches DEF StopCheck, Goto, OnlyTo, Keeps, Advance, Hand, env, sup, call, ghost, Same, TypeInv,
       CallType, TodoType, SeenType
<1>24. CASE StackDown(c)
  BY <1>24, Touches DEF StackDown, Goto, OnlyTo, Keeps, Advance, Hand, env, sup, call, ghost, Same, TypeInv,
       CallType, TodoType, SeenType
<1>25. CASE Kill(c)
  BY <1>25, Touches DEF Kill, Goto, OnlyTo, Keeps, Advance, Hand, env, sup, call, ghost, Same, TypeInv,
       CallType, TodoType, SeenType
<1>26. CASE Poll(c)
  BY <1>26, Touches DEF Poll, Goto, OnlyTo, Keeps, Advance, Hand, env, sup, call, ghost, Same, TypeInv,
       CallType, TodoType, SeenType
<1> QED BY <1>1, <1>2, <1>3, <1>4, <1>5, <1>6, <1>7, <1>8, <1>9, <1>10, <1>11, <1>12, <1>13, <1>14, <1>15,
     <1>16, <1>17, <1>18, <1>19, <1>20, <1>21, <1>22, <1>23, <1>24, <1>25, <1>26 DEF Asks

(* A step of somebody else, as d sees it.                                       *)
Foreign(d) ==
  /\ Same(d)
  /\ \A p \in Procs : Kept(p) \/ Itself(p) \/ \E c \in (Clients \cup {None}) \ {d} : Asked(p, c)

World == /\ \A d \in Clients : Foreign(d)
         /\ UNCHANGED <<file, root, pc, call, held>> /\ man' \in Versions
         /\ serving' \in BOOLEAN /\ touched' \in [Clients -> SUBSET Procs]
         /\ \A p \in Procs : Kept(p) \/ Itself(p) \/ Asked(p, None)

AnyStep ==
  /\ SupType' /\ AbsentUnserved
  /\ \A p \in Procs : Kept(p) \/ Itself(p) \/ \E c \in Clients \cup {None} : Asked(p, c)
  /\ World \/ \E c \in Clients : (Asks(c) \/ Poll(c)) /\ \A d \in Clients \ {c} : Foreign(d)

LEMMA EveryStep ==
  ASSUME TypeInv, PlaceInv, EntryInv, [Next]_vars
  PROVE  AnyStep
<1>1. ASSUME NEW c \in Clients, Asks(c) \/ Poll(c)
      PROVE  SupChange(c) /\ \A d \in Clients \ {c} : Foreign(d)
  <2>1. SupChange(c)
    BY <1>1, ClientChanges
  <2>2. \A d \in Clients \ {c} : Same(d)
    BY <1>1, OthersStay
  <2> QED BY <2>1, <2>2 DEF SupChange, Foreign
<1>2. ASSUME NEW p \in Procs, Runs(p)
      PROVE  /\ SupType' /\ AbsentUnserved /\ \A q \in Procs : Kept(q) \/ Itself(q)
             /\ World
  <2>1. SupType' /\ AbsentUnserved /\ \A q \in Procs : Kept(q) \/ Itself(q)
    BY <1>2, RunsItself
  <2>2. UNCHANGED <<man, file, root, serving, pc, call, touched, held>>
    BY <1>2 DEF Runs, Launch, Skip, Ended, Crash, SupervisorStep, env, ghost
  <2>3. man' \in Versions /\ serving' \in BOOLEAN /\ touched' \in [Clients -> SUBSET Procs]
    BY <2>2 DEF TypeInv, EnvType, CallType
  <2> QED BY <2>1, <2>2, <2>3 DEF World, Foreign, Same, call
<1>3. CASE SupervisorExits
  <2>1. SupChange(None)
    BY <1>3, ExitAsks
  <2>2. /\ UNCHANGED <<man, file, root, pc, call, held>> /\ serving' = FALSE
        /\ \A d \in Clients : touched[d] \subseteq touched'[d]
        /\ man' \in Versions /\ touched' \in [Clients -> SUBSET Procs]
    BY <1>3 DEF SupervisorExits, Touch, env, TypeInv, EnvType, CallType
  <2>3. \A d \in Clients : Same(d)
    BY <2>2 DEF Same, call
  <2> QED BY <2>1, <2>2, <2>3, Facts DEF AnyStep, World, SupChange, Foreign
<1>4. CASE Edit \/ UNCHANGED vars
  <2>1. /\ UNCHANGED <<file, root, sup, pc, call, ghost>> /\ man' \in Versions
    BY <1>4, Facts DEF Edit, vars, env, TypeInv, EnvType, Versions
  <2>2. SupChange(None)
    BY <2>1, NothingChanges
  <2>3. \A p \in Procs : Kept(p)
    BY <2>1 DEF Kept, sup
  <2>4. serving' \in BOOLEAN /\ touched' \in [Clients -> SUBSET Procs]
    BY <2>1 DEF sup, ghost, TypeInv, EnvType, CallType
  <2> QED BY <2>1, <2>2, <2>3, <2>4 DEF AnyStep, World, SupChange, Foreign, Same, call, ghost
<1>5. ASSUME NEW c \in Clients, Asks(c) \/ Poll(c) PROVE AnyStep
  BY <1>1, <1>5 DEF AnyStep, SupChange
<1>6. ASSUME NEW p \in Procs, Runs(p) PROVE AnyStep
  BY <1>2, <1>6 DEF AnyStep
<1>7. CASE Next
  <2>1. CASE \E c \in Clients : Asks(c) \/ Poll(c)
    BY <1>5, <2>1
  <2>2. CASE \E p \in Procs : Runs(p)
    BY <1>6, <2>2
  <2>3. CASE Edit
    BY <1>4, <2>3
  <2> QED BY ONLY <1>3, <1>7, <2>1, <2>2, <2>3 DEF Next
<1>8. CASE UNCHANGED vars
  BY <1>4, <1>8
<1> QED BY ONLY [Next]_vars, <1>7, <1>8

-----------------------------------------------------------------------------
(* Types.                                                                     *)

LEMMA EnvStep ==
  ASSUME TypeInv, PlaceInv, EntryInv, NEW c \in Clients, Asks(c) \/ Poll(c)
  PROVE  man' \in Versions /\ file' \in 0..Len(Local) /\ root' \in Clients \cup {None} /\ serving' \in BOOLEAN
<1>1. ASSUME NEW r \in Requests, Begin(c, r)
      PROVE  man' \in Versions /\ file' \in 0..Len(Local) /\ root' \in Clients \cup {None} /\ serving' \in BOOLEAN
  BY <1>1 DEF Begin, Goto, sup, call, TypeInv, EnvType, CallType, TodoType, SeenType, Versions
<1>2. CASE Rest(c)
  BY <1>2 DEF Rest, Goto, sup, call, TypeInv, EnvType, CallType, TodoType, SeenType, Versions
<1>3. CASE Prepare(c)
  BY <1>3, Facts DEF Prepare, Goto, sup, call, ghost, TypeInv, EnvType, CallType, TodoType, SeenType, Versions
<1>4. CASE PrepareRun(c)
  BY <1>4, Facts DEF PrepareRun, Goto, sup, call, ghost, TypeInv, EnvType, CallType, TodoType, SeenType,
       Versions
<1>5. CASE LoadStack(c)
  BY <1>5 DEF LoadStack, Goto, env, sup, call, ghost, TypeInv, EnvType, CallType, TodoType, SeenType, Versions
<1>6. CASE Probe(c)
  BY <1>6 DEF Probe, Goto, Keeps, env, sup, call, ghost, TypeInv, EnvType, CallType, TodoType, SeenType,
       Versions
<1>7. CASE UpDaemon(c)
  BY <1>7 DEF UpDaemon, Goto, OnlyTo, Keeps, env, sup, call, ghost, TypeInv, EnvType, CallType, TodoType,
       SeenType, Versions
<1>8. CASE AwaitSupervisor(c)
  BY <1>8 DEF AwaitSupervisor, Goto, OnlyTo, Keeps, env, sup, call, ghost, TypeInv, EnvType, CallType,
       TodoType, SeenType, Versions
<1>9. CASE ReadFile(c)
  BY <1>9 DEF ReadFile, Goto, OnlyTo, Keeps, env, sup, call, ghost, TypeInv, EnvType, CallType, TodoType,
       SeenType, Versions
<1>10. CASE UpRead(c)
  BY <1>10 DEF UpRead, Goto, OnlyTo, Keeps, env, sup, call, ghost, TypeInv, EnvType, CallType, TodoType,
       SeenType, Versions
<1>11. CASE UpLeaves(c)
  BY <1>11 DEF UpLeaves, Goto, OnlyTo, Keeps, Advance, Hand, env, sup, call, ghost, TypeInv, EnvType,
       CallType, TodoType, SeenType, Versions
<1>12. CASE ReadBaseline(c)
  BY <1>12 DEF ReadBaseline, Goto, OnlyTo, Keeps, Hand, env, sup, call, ghost, TypeInv, EnvType, CallType,
       TodoType, SeenType, Versions
<1>13. CASE ReadBefore(c)
  BY <1>13 DEF ReadBefore, Goto, OnlyTo, Keeps, Hand, env, sup, call, ghost, TypeInv, EnvType, CallType,
       TodoType, SeenType, Versions
<1>14. ASSUME NEW posted \in BOOLEAN, UpdateProcess(c, posted)
      PROVE  man' \in Versions /\ file' \in 0..Len(Local) /\ root' \in Clients \cup {None} /\ serving' \in BOOLEAN
  BY <1>14 DEF UpdateProcess, Goto, OnlyTo, Keeps, Advance, Sent, Hand, env, sup, call, ghost, Changes,
       ChangesOne, TypeInv, EnvType, CallType, TodoType, SeenType, Versions
<1>15. ASSUME NEW P \in SUBSET Procs, AddMissing(c, P)
      PROVE  man' \in Versions /\ file' \in 0..Len(Local) /\ root' \in Clients \cup {None} /\ serving' \in BOOLEAN
  BY <1>15 DEF AddMissing, Goto, Keeps, Hand, env, call, Changes, TypeInv, EnvType, CallType, TodoType,
       SeenType, Versions
<1>16. CASE Activate(c)
  BY <1>16 DEF Activate, Goto, OnlyTo, Keeps, Advance, Sent, Hand, env, sup, call, ghost, Changes, ChangesOne,
       TypeInv, EnvType, CallType, TodoType, SeenType, Versions
<1>17. CASE Confirm(c)
  BY <1>17 DEF Confirm, Goto, OnlyTo, Keeps, Advance, Hand, env, sup, call, ghost, TypeInv, EnvType, CallType,
       TodoType, SeenType, Versions
<1>18. ASSUME NEW reuse \in BOOLEAN, StartProcess(c, reuse)
      PROVE  man' \in Versions /\ file' \in 0..Len(Local) /\ root' \in Clients \cup {None} /\ serving' \in BOOLEAN
  BY <1>18 DEF StartProcess, Goto, OnlyTo, Keeps, Advance, Hand, env, sup, call, ghost, Changes, ChangesOne,
       TypeInv, EnvType, CallType, TodoType, SeenType, Versions
<1>19. ASSUME NEW reuse \in BOOLEAN, RestartProcess(c, reuse)
      PROVE  man' \in Versions /\ file' \in 0..Len(Local) /\ root' \in Clients \cup {None} /\ serving' \in BOOLEAN
  BY <1>19 DEF RestartProcess, Goto, OnlyTo, Keeps, Advance, Hand, env, sup, call, ghost, Changes, ChangesOne,
       TypeInv, EnvType, CallType, TodoType, SeenType, Versions
<1>20. ASSUME NEW reuse \in BOOLEAN, StartNamed(c, reuse)
      PROVE  man' \in Versions /\ file' \in 0..Len(Local) /\ root' \in Clients \cup {None} /\ serving' \in BOOLEAN
  BY <1>20 DEF StartNamed, Goto, OnlyTo, Keeps, env, sup, call, ghost, Changes, TypeInv, EnvType, CallType,
       TodoType, SeenType, Versions
<1>21. CASE StopRead(c)
  BY <1>21 DEF StopRead, Goto, OnlyTo, Keeps, Hand, env, sup, call, ghost, TypeInv, EnvType, CallType,
       TodoType, SeenType, Versions
<1>22. CASE ProcessStop(c)
  BY <1>22 DEF ProcessStop, Goto, env, sup, call, ghost, Changes, TypeInv, EnvType, CallType, TodoType,
       SeenType, Versions
<1>23. CASE StopCheck(c)
  BY <1>23 DEF StopCheck, Goto, OnlyTo, Keeps, Advance, Hand, env, sup, call, ghost, TypeInv, EnvType,
       CallType, TodoType, SeenType, Versions
<1>24. CASE StackDown(c)
  BY <1>24 DEF StackDown, Goto, OnlyTo, Keeps, env, sup, call, ghost, TypeInv, EnvType, CallType, TodoType,
       SeenType, Versions
<1>25. CASE Kill(c)
  BY <1>25 DEF Kill, Goto, OnlyTo, Keeps, env, sup, call, ghost, TypeInv, EnvType, CallType, TodoType,
       SeenType, Versions
<1>26. CASE Poll(c)
  BY <1>26 DEF Poll, Goto, OnlyTo, Keeps, env, sup, call, ghost, TypeInv, EnvType, CallType, TodoType,
       SeenType, Versions
<1> QED BY <1>1, <1>2, <1>3, <1>4, <1>5, <1>6, <1>7, <1>8, <1>9, <1>10, <1>11, <1>12, <1>13, <1>14, <1>15,
     <1>16, <1>17, <1>18, <1>19, <1>20, <1>21, <1>22, <1>23, <1>24, <1>25, <1>26 DEF Asks

LEMMA MovesTo ==
  ASSUME TypeInv, NEW c \in Clients, NEW l \in {"idle"} \cup Ends \cup Steps, Goto(c, l)
  PROVE  pc' \in [Clients -> {"idle"} \cup Ends \cup Steps]
BY DEF Goto, TypeInv, CallType

LEMMA PcStep ==
  ASSUME TypeInv, PlaceInv, EntryInv, NEW c \in Clients, Asks(c) \/ Poll(c)
  PROVE  pc' \in [Clients -> {"idle"} \cup Ends \cup Steps]
<1>1. ASSUME NEW r \in Requests, Begin(c, r)
      PROVE  pc' \in [Clients -> {"idle"} \cup Ends \cup Steps]
  <2>1. Goto(c, "down") \/ Goto(c, "lock")
    BY <1>1 DEF Begin
  <2> QED BY <2>1, MovesTo DEF Ends, Steps, TypeInv, CallType
<1>2. CASE Rest(c)
  <2>1. Goto(c, "idle")
    BY <1>2 DEF Rest
  <2> QED BY <2>1, MovesTo DEF Ends, Steps, TypeInv, CallType
<1>3. CASE Prepare(c)
  <2>1. Goto(c, "load")
    BY <1>3 DEF Prepare
  <2> QED BY <2>1, MovesTo DEF Ends, Steps, TypeInv, CallType
<1>4. CASE PrepareRun(c)
  <2>1. Goto(c, "baseline") \/ Goto(c, "failed")
    BY <1>4 DEF PrepareRun
  <2> QED BY <2>1, MovesTo DEF Ends, Steps, TypeInv, CallType
<1>5. CASE LoadStack(c)
  <2>1. Goto(c, "failed") \/ Goto(c, "ok") \/ Goto(c, "start_named") \/ Goto(c, "before") \/ Goto(c, "probe")
    BY <1>5 DEF LoadStack
  <2> QED BY <2>1, MovesTo DEF Ends, Steps, TypeInv, CallType
<1>6. CASE Probe(c)
  <2>1. Goto(c, "stop_read") \/ Goto(c, "ok") \/ Goto(c, "read_file") \/ Goto(c, "daemon")
    BY <1>6 DEF Probe
  <2> QED BY <2>1, MovesTo DEF Ends, Steps, TypeInv, CallType
<1>7. CASE UpDaemon(c)
  <2>1. Goto(c, "failed") \/ Goto(c, "await")
    BY <1>7 DEF UpDaemon, OnlyTo
  <2> QED BY <2>1, MovesTo DEF Ends, Steps, TypeInv, CallType
<1>8. CASE AwaitSupervisor(c)
  <2>1. Goto(c, "ok") \/ Goto(c, "failed")
    BY <1>8 DEF AwaitSupervisor, OnlyTo
  <2> QED BY <2>1, MovesTo DEF Ends, Steps, TypeInv, CallType
<1>9. CASE ReadFile(c)
  <2>1. Goto(c, "failed") \/ Goto(c, "read")
    BY <1>9 DEF ReadFile, OnlyTo
  <2> QED BY <2>1, MovesTo DEF Ends, Steps, TypeInv, CallType
<1>10. CASE UpRead(c)
  <2>1. Goto(c, "failed") \/ Goto(c, "read") \/ Goto(c, "up")
    BY <1>10 DEF UpRead, OnlyTo
  <2> QED BY <2>1, MovesTo DEF Ends, Steps, TypeInv, CallType
<1>11. CASE UpLeaves(c)
  <2>1. Goto(c, "ok") \/ Goto(c, "up")
    BY <1>11 DEF UpLeaves, OnlyTo, Advance
  <2> QED BY <2>1, MovesTo DEF Ends, Steps, TypeInv, CallType
<1>12. CASE ReadBaseline(c)
  <2>1. Goto(c, "failed") \/ Goto(c, "before")
    BY <1>12 DEF ReadBaseline, OnlyTo
  <2> QED BY <2>1, MovesTo DEF Ends, Steps, TypeInv, CallType
<1>13. CASE ReadBefore(c)
  <2>1. Goto(c, "ok") \/ Goto(c, "failed") \/ Goto(c, "apply")
    BY <1>13 DEF ReadBefore, OnlyTo
  <2> QED BY <2>1, MovesTo DEF Ends, Steps, TypeInv, CallType
<1>14. ASSUME NEW posted \in BOOLEAN, UpdateProcess(c, posted)
      PROVE  pc' \in [Clients -> {"idle"} \cup Ends \cup Steps]
  <2>1. Goto(c, "failed") \/ Goto(c, "up") \/ Goto(c, "confirm") \/ Goto(c, "start") \/ Goto(c, "restart")
    BY <1>14 DEF UpdateProcess, OnlyTo, Advance, Sent
  <2> QED BY <2>1, MovesTo DEF Ends, Steps, TypeInv, CallType
<1>15. ASSUME NEW P \in SUBSET Procs, AddMissing(c, P)
      PROVE  pc' \in [Clients -> {"idle"} \cup Ends \cup Steps]
  <2>1. Goto(c, "activate")
    BY <1>15 DEF AddMissing
  <2> QED BY <2>1, MovesTo DEF Ends, Steps, TypeInv, CallType
<1>16. CASE Activate(c)
  <2>1. Goto(c, "failed") \/ Goto(c, "up") \/ Goto(c, "confirm") \/ Goto(c, "start") \/ Goto(c, "restart")
    BY <1>16 DEF Activate, OnlyTo, Advance, Sent
  <2> QED BY <2>1, MovesTo DEF Ends, Steps, TypeInv, CallType
<1>17. CASE Confirm(c)
  <2>1. Goto(c, "failed") \/ Goto(c, "up") \/ Goto(c, "poll") \/ Goto(c, "before") \/ Goto(c, "start") \/ Goto(c, "restart")
    BY <1>17 DEF Confirm, OnlyTo, Advance, Applied
  <2> QED BY <2>1, MovesTo DEF Ends, Steps, TypeInv, CallType
<1>18. ASSUME NEW reuse \in BOOLEAN, StartProcess(c, reuse)
      PROVE  pc' \in [Clients -> {"idle"} \cup Ends \cup Steps]
  <2>1. Goto(c, "up") \/ Goto(c, "failed")
    BY <1>18 DEF StartProcess, OnlyTo, Advance
  <2> QED BY <2>1, MovesTo DEF Ends, Steps, TypeInv, CallType
<1>19. ASSUME NEW reuse \in BOOLEAN, RestartProcess(c, reuse)
      PROVE  pc' \in [Clients -> {"idle"} \cup Ends \cup Steps]
  <2>1. Goto(c, "failed") \/ Goto(c, "up") \/ Goto(c, "poll") \/ Goto(c, "before")
    BY <1>19 DEF RestartProcess, OnlyTo, Advance, Applied
  <2> QED BY <2>1, MovesTo DEF Ends, Steps, TypeInv, CallType
<1>20. ASSUME NEW reuse \in BOOLEAN, StartNamed(c, reuse)
      PROVE  pc' \in [Clients -> {"idle"} \cup Ends \cup Steps]
  <2>1. Goto(c, "failed") \/ Goto(c, "ok")
    BY <1>20 DEF StartNamed, OnlyTo
  <2> QED BY <2>1, MovesTo DEF Ends, Steps, TypeInv, CallType
<1>21. CASE StopRead(c)
  <2>1. pc' = pc \/ Goto(c, "ok") \/ Goto(c, "stop") \/ Goto(c, "failed")
    BY <1>21 DEF StopRead, OnlyTo
  <2> QED BY <2>1, MovesTo DEF Ends, Steps, TypeInv, CallType
<1>22. CASE ProcessStop(c)
  <2>1. Goto(c, "ok") \/ Goto(c, "stop_check")
    BY <1>22 DEF ProcessStop
  <2> QED BY <2>1, MovesTo DEF Ends, Steps, TypeInv, CallType
<1>23. CASE StopCheck(c)
  <2>1. Goto(c, "ok") \/ Goto(c, "failed") \/ Goto(c, "stop_check")
    BY <1>23 DEF StopCheck, OnlyTo, Advance
  <2> QED BY <2>1, MovesTo DEF Ends, Steps, TypeInv, CallType
<1>24. CASE StackDown(c)
  <2>1. Goto(c, "ok") \/ Goto(c, "failed")
    BY <1>24 DEF StackDown, OnlyTo
  <2> QED BY <2>1, MovesTo DEF Ends, Steps, TypeInv, CallType
<1>25. CASE Kill(c)
  <2>1. Goto(c, "failed")
    BY <1>25 DEF Kill, OnlyTo
  <2> QED BY <2>1, MovesTo DEF Ends, Steps, TypeInv, CallType
<1>26. CASE Poll(c)
  <2>1. pc' = pc \/ Goto(c, "answered")
    BY <1>26 DEF Poll, OnlyTo
  <2> QED BY <2>1, MovesTo DEF Ends, Steps, TypeInv, CallType
<1> QED BY <1>1, <1>2, <1>3, <1>4, <1>5, <1>6, <1>7, <1>8, <1>9, <1>10, <1>11, <1>12, <1>13, <1>14, <1>15,
     <1>16, <1>17, <1>18, <1>19, <1>20, <1>21, <1>22, <1>23, <1>24, <1>25, <1>26 DEF Asks

LEMMA CallStep ==
  ASSUME TypeInv, PlaceInv, EntryInv, NEW c \in Clients, Asks(c) \/ Poll(c)
  PROVE  /\ op' \in [Clients -> Requests \cup {NoOp}]
         /\ ver' \in [Clients -> 0..Len(Local)]
         /\ saw' \in [Clients -> BOOLEAN] /\ since' \in [Clients -> Nat]
         /\ base' \in [Clients -> [pid : Nat, end : Nat]]
<1>1. ASSUME NEW r \in Requests, Begin(c, r)
      PROVE  /\ op' \in [Clients -> Requests \cup {NoOp}]
         /\ ver' \in [Clients -> 0..Len(Local)]
         /\ saw' \in [Clients -> BOOLEAN] /\ since' \in [Clients -> Nat]
         /\ base' \in [Clients -> [pid : Nat, end : Nat]]
  BY <1>1 DEF Begin, Goto, Hand, sup, call, TypeInv, EnvType, CallType, TodoType, SeenType, Versions
<1>2. CASE Rest(c)
  BY <1>2 DEF Rest, Goto, Hand, sup, call, TypeInv, EnvType, CallType, TodoType, SeenType, Versions
<1>3. CASE Prepare(c)
  BY <1>3, Facts DEF Prepare, Goto, Hand, sup, call, ghost, TypeInv, EnvType, CallType, TodoType, SeenType,
       Versions
<1>4. CASE PrepareRun(c)
  BY <1>4, Facts DEF PrepareRun, Goto, Hand, sup, call, ghost, TypeInv, EnvType, CallType, TodoType, SeenType,
       Versions
<1>5. CASE LoadStack(c)
  BY <1>5, Facts DEF LoadStack, Goto, Hand, env, sup, call, ghost, TypeInv, EnvType, CallType, TodoType,
       SeenType, Versions
<1>6. CASE Probe(c)
  BY <1>6 DEF Probe, Goto, Keeps, Hand, env, sup, call, ghost, TypeInv, EnvType, CallType, TodoType, SeenType,
       Versions
<1>7. CASE UpDaemon(c)
  BY <1>7 DEF UpDaemon, Goto, OnlyTo, Keeps, Hand, env, sup, call, ghost, TypeInv, EnvType, CallType,
       TodoType, SeenType, Versions
<1>8. CASE AwaitSupervisor(c)
  BY <1>8 DEF AwaitSupervisor, Goto, OnlyTo, Keeps, Hand, env, sup, call, ghost, TypeInv, EnvType, CallType,
       TodoType, SeenType, Versions
<1>9. CASE ReadFile(c)
  <2>1. ver' = ver \/ ver' = [ver EXCEPT ![c] = file]
    BY <1>9 DEF ReadFile, OnlyTo, Keeps
  <2>2. UNCHANGED <<op, base, saw, since>>
    BY <1>9 DEF ReadFile, OnlyTo, Keeps
  <2> QED BY <2>1, <2>2 DEF TypeInv, EnvType, CallType
<1>10. CASE UpRead(c)
  BY <1>10 DEF UpRead, Goto, OnlyTo, Keeps, Hand, env, sup, call, ghost, TypeInv, EnvType, CallType, TodoType,
       SeenType, Versions
<1>11. CASE UpLeaves(c)
  BY <1>11 DEF UpLeaves, Goto, OnlyTo, Keeps, Advance, Hand, env, sup, call, ghost, TypeInv, EnvType,
       CallType, TodoType, SeenType, Versions
<1>12. CASE ReadBaseline(c)
  <2>1. pc[c] = "baseline" /\ Hand(c) \in Procs /\ Hand(c) \in op[c].names /\ op[c].verb = "run"
    BY <1>12, AtHand, AtWork DEF ReadBaseline, PlaceInv, PlaceOf, Handing, PlacesOf, Verbs
  <2>2. Hand(c) \in Jobs
    BY <2>1, AtWork
  <2>3. ended[Hand(c)] \in Nat /\ Now(c).pid \in Nat /\ Now(c).end \in Nat
    BY <2>1, <2>2, NowTyped DEF TypeInv, SupType, Now, Entries
  <2>4. /\ base' = base \/ base' = [base EXCEPT ![c] = [pid |-> Now(c).pid, end |-> Now(c).end]]
        /\ since' = since \/ since' = [since EXCEPT ![c] = ended[Hand(c)]]
        /\ UNCHANGED <<op, ver, saw>>
    BY <1>12 DEF ReadBaseline, OnlyTo, Keeps
  <2>5. [pid |-> Now(c).pid, end |-> Now(c).end] \in [pid : Nat, end : Nat]
    BY <2>3
  <2>6. base \in [Clients -> [pid : Nat, end : Nat]] /\ since \in [Clients -> Nat]
    BY DEF TypeInv, CallType
  <2>7. base' \in [Clients -> [pid : Nat, end : Nat]] /\ since' \in [Clients -> Nat]
    BY ONLY <2>3, <2>4, <2>5, <2>6
  <2> QED BY <2>4, <2>7 DEF TypeInv, CallType
<1>13. CASE ReadBefore(c)
  BY <1>13 DEF ReadBefore, Goto, OnlyTo, Keeps, Hand, env, sup, call, ghost, TypeInv, EnvType, CallType,
       TodoType, SeenType, Versions
<1>14. ASSUME NEW posted \in BOOLEAN, UpdateProcess(c, posted)
      PROVE  /\ op' \in [Clients -> Requests \cup {NoOp}]
         /\ ver' \in [Clients -> 0..Len(Local)]
         /\ saw' \in [Clients -> BOOLEAN] /\ since' \in [Clients -> Nat]
         /\ base' \in [Clients -> [pid : Nat, end : Nat]]
  BY <1>14 DEF UpdateProcess, Goto, OnlyTo, Keeps, Advance, Sent, Hand, env, sup, call, ghost, TypeInv,
       EnvType, CallType, TodoType, SeenType, Versions
<1>15. ASSUME NEW P \in SUBSET Procs, AddMissing(c, P)
      PROVE  /\ op' \in [Clients -> Requests \cup {NoOp}]
         /\ ver' \in [Clients -> 0..Len(Local)]
         /\ saw' \in [Clients -> BOOLEAN] /\ since' \in [Clients -> Nat]
         /\ base' \in [Clients -> [pid : Nat, end : Nat]]
  BY <1>15 DEF AddMissing, Goto, Keeps, Hand, env, call, TypeInv, EnvType, CallType, TodoType, SeenType,
       Versions
<1>16. CASE Activate(c)
  BY <1>16 DEF Activate, Goto, OnlyTo, Keeps, Advance, Sent, Hand, env, sup, call, ghost, TypeInv, EnvType,
       CallType, TodoType, SeenType, Versions
<1>17. CASE Confirm(c)
  BY <1>17 DEF Confirm, Goto, OnlyTo, Keeps, Advance, Hand, env, sup, call, ghost, TypeInv, EnvType, CallType,
       TodoType, SeenType, Versions
<1>18. ASSUME NEW reuse \in BOOLEAN, StartProcess(c, reuse)
      PROVE  /\ op' \in [Clients -> Requests \cup {NoOp}]
         /\ ver' \in [Clients -> 0..Len(Local)]
         /\ saw' \in [Clients -> BOOLEAN] /\ since' \in [Clients -> Nat]
         /\ base' \in [Clients -> [pid : Nat, end : Nat]]
  BY <1>18 DEF StartProcess, Goto, OnlyTo, Keeps, Advance, Hand, env, sup, call, ghost, TypeInv, EnvType,
       CallType, TodoType, SeenType, Versions
<1>19. ASSUME NEW reuse \in BOOLEAN, RestartProcess(c, reuse)
      PROVE  /\ op' \in [Clients -> Requests \cup {NoOp}]
         /\ ver' \in [Clients -> 0..Len(Local)]
         /\ saw' \in [Clients -> BOOLEAN] /\ since' \in [Clients -> Nat]
         /\ base' \in [Clients -> [pid : Nat, end : Nat]]
  BY <1>19 DEF RestartProcess, Goto, OnlyTo, Keeps, Advance, Hand, env, sup, call, ghost, TypeInv, EnvType,
       CallType, TodoType, SeenType, Versions
<1>20. ASSUME NEW reuse \in BOOLEAN, StartNamed(c, reuse)
      PROVE  /\ op' \in [Clients -> Requests \cup {NoOp}]
         /\ ver' \in [Clients -> 0..Len(Local)]
         /\ saw' \in [Clients -> BOOLEAN] /\ since' \in [Clients -> Nat]
         /\ base' \in [Clients -> [pid : Nat, end : Nat]]
  BY <1>20 DEF StartNamed, Goto, OnlyTo, Keeps, Hand, env, sup, call, ghost, TypeInv, EnvType, CallType,
       TodoType, SeenType, Versions
<1>21. CASE StopRead(c)
  BY <1>21 DEF StopRead, Goto, OnlyTo, Keeps, Hand, env, sup, call, ghost, TypeInv, EnvType, CallType,
       TodoType, SeenType, Versions
<1>22. CASE ProcessStop(c)
  BY <1>22 DEF ProcessStop, Goto, Hand, env, sup, call, ghost, TypeInv, EnvType, CallType, TodoType, SeenType,
       Versions
<1>23. CASE StopCheck(c)
  BY <1>23 DEF StopCheck, Goto, OnlyTo, Keeps, Advance, Hand, env, sup, call, ghost, TypeInv, EnvType,
       CallType, TodoType, SeenType, Versions
<1>24. CASE StackDown(c)
  BY <1>24 DEF StackDown, Goto, OnlyTo, Keeps, Hand, env, sup, call, ghost, TypeInv, EnvType, CallType,
       TodoType, SeenType, Versions
<1>25. CASE Kill(c)
  BY <1>25 DEF Kill, Goto, OnlyTo, Keeps, Hand, env, sup, call, ghost, TypeInv, EnvType, CallType, TodoType,
       SeenType, Versions
<1>26. CASE Poll(c)
  BY <1>26 DEF Poll, Goto, OnlyTo, Keeps, Hand, env, sup, call, ghost, TypeInv, EnvType, CallType, TodoType,
       SeenType, Versions
<1> QED BY <1>1, <1>2, <1>3, <1>4, <1>5, <1>6, <1>7, <1>8, <1>9, <1>10, <1>11, <1>12, <1>13, <1>14, <1>15,
     <1>16, <1>17, <1>18, <1>19, <1>20, <1>21, <1>22, <1>23, <1>24, <1>25, <1>26 DEF Asks

LEMMA TodoStep ==
  ASSUME TypeInv, PlaceInv, EntryInv, NEW c \in Clients, Asks(c) \/ Poll(c)
  PROVE  todo' \in [Clients -> Seq(Procs)]
<1>1. ASSUME NEW r \in Requests, Begin(c, r)
      PROVE  todo' \in [Clients -> Seq(Procs)]
  BY <1>1 DEF Begin, Goto, sup, TypeInv, TodoType
<1>2. CASE Rest(c)
  BY <1>2 DEF Rest, Goto, sup, TypeInv, TodoType
<1>3. CASE Prepare(c)
  BY <1>3 DEF Prepare, Goto, sup, ghost, TypeInv, TodoType
<1>4. CASE PrepareRun(c)
  <2>1. SetToSeq(op[c].names) \in Seq(Procs)
    BY <1>4, AtWork, NamesAsSeq DEF PrepareRun
  <2> QED BY <1>4, <2>1 DEF PrepareRun, TypeInv, EnvType, CallType, TodoType, SeenType, Versions
<1>5. CASE LoadStack(c)
  <2>1. SetToSeq(op[c].names) \in Seq(Procs)
    BY <1>5, AtWork, NamesAsSeq DEF LoadStack
  <2> QED BY <1>5, <2>1 DEF LoadStack, TypeInv, EnvType, CallType, TodoType, SeenType, Versions
<1>6. CASE Probe(c)
  BY <1>6 DEF Probe, Goto, Keeps, env, sup, ghost, TypeInv, TodoType
<1>7. CASE UpDaemon(c)
  BY <1>7 DEF UpDaemon, Goto, OnlyTo, Keeps, env, sup, ghost, TypeInv, TodoType
<1>8. CASE AwaitSupervisor(c)
  BY <1>8 DEF AwaitSupervisor, Goto, OnlyTo, Keeps, env, sup, ghost, TypeInv, TodoType
<1>9. CASE ReadFile(c)
  <2>1. file # 0 => Local[file] \in SUBSET Procs
    BY Facts DEF TypeInv, EnvType, Versions
  <2>2. file # 0 => UpOrder(IF op[c].names = {} THEN Local[file] ELSE op[c].names, Local[file]) \in Seq(Procs)
    BY <2>1, OrderTyped
  <2> QED BY <1>9, <2>2 DEF ReadFile, OnlyTo, Keeps, TypeInv, TodoType
<1>10. CASE UpRead(c)
  BY <1>10 DEF UpRead, Goto, OnlyTo, Keeps, env, sup, ghost, TypeInv, TodoType
<1>11. CASE UpLeaves(c)
  <2>1. todo[c] # <<>> => Tail(todo[c]) \in Seq(Procs)
    BY AtHand
  <2> QED BY <1>11, <2>1 DEF UpLeaves, Goto, OnlyTo, Keeps, Advance, Hand, env, sup, ghost, TypeInv, TodoType
<1>12. CASE ReadBaseline(c)
  BY <1>12 DEF ReadBaseline, Goto, OnlyTo, Keeps, Hand, env, sup, ghost, TypeInv, TodoType
<1>13. CASE ReadBefore(c)
  BY <1>13 DEF ReadBefore, Goto, OnlyTo, Keeps, Hand, env, sup, ghost, TypeInv, TodoType
<1>14. ASSUME NEW posted \in BOOLEAN, UpdateProcess(c, posted)
      PROVE  todo' \in [Clients -> Seq(Procs)]
  <2>1. Tail(todo[c]) \in Seq(Procs)
    BY <1>14, AtHand DEF UpdateProcess, Posts, PlaceInv, PlaceOf, Handing
  <2> QED BY <1>14, <2>1 DEF UpdateProcess, Goto, OnlyTo, Keeps, Advance, Sent, Hand, env, sup, ghost,
       TypeInv, TodoType
<1>15. ASSUME NEW P \in SUBSET Procs, AddMissing(c, P)
      PROVE  todo' \in [Clients -> Seq(Procs)]
  BY <1>15 DEF AddMissing, Goto, Keeps, Hand, env, TypeInv, TodoType
<1>16. CASE Activate(c)
  <2>1. Tail(todo[c]) \in Seq(Procs)
    BY <1>16, AtHand DEF Activate, PlaceInv, PlaceOf, Handing
  <2> QED BY <1>16, <2>1 DEF Activate, Goto, OnlyTo, Keeps, Advance, Sent, Hand, env, sup, ghost, TypeInv,
       TodoType
<1>17. CASE Confirm(c)
  <2>1. Tail(todo[c]) \in Seq(Procs)
    BY <1>17, AtHand DEF Confirm, PlaceInv, PlaceOf, Handing
  <2> QED BY <1>17, <2>1 DEF Confirm, Goto, OnlyTo, Keeps, Advance, Hand, env, sup, ghost, TypeInv, TodoType
<1>18. ASSUME NEW reuse \in BOOLEAN, StartProcess(c, reuse)
      PROVE  todo' \in [Clients -> Seq(Procs)]
  <2>1. Tail(todo[c]) \in Seq(Procs)
    BY <1>18, AtHand DEF StartProcess, PlaceInv, PlaceOf, Handing
  <2> QED BY <1>18, <2>1 DEF StartProcess, Goto, OnlyTo, Keeps, Advance, Hand, env, sup, ghost, TypeInv,
       TodoType
<1>19. ASSUME NEW reuse \in BOOLEAN, RestartProcess(c, reuse)
      PROVE  todo' \in [Clients -> Seq(Procs)]
  <2>1. Tail(todo[c]) \in Seq(Procs)
    BY <1>19, AtHand DEF RestartProcess, PlaceInv, PlaceOf, Handing
  <2> QED BY <1>19, <2>1 DEF RestartProcess, Goto, OnlyTo, Keeps, Advance, Hand, env, sup, ghost, TypeInv,
       TodoType
<1>20. ASSUME NEW reuse \in BOOLEAN, StartNamed(c, reuse)
      PROVE  todo' \in [Clients -> Seq(Procs)]
  BY <1>20 DEF StartNamed, Goto, OnlyTo, Keeps, env, sup, ghost, TypeInv, TodoType
<1>21. CASE StopRead(c)
  <2>1. todo[c] # <<>> => Tail(todo[c]) \in Seq(Procs)
    BY AtHand
  <2> QED BY <1>21, <2>1 DEF StopRead, Goto, OnlyTo, Keeps, Hand, env, sup, ghost, TypeInv, TodoType
<1>22. CASE ProcessStop(c)
  <2>1. SetToSeq(op[c].names) \in Seq(Procs)
    BY <1>22, AtWork, NamesAsSeq DEF ProcessStop
  <2> QED BY <1>22, <2>1 DEF ProcessStop, TypeInv, EnvType, CallType, TodoType, SeenType, Versions
<1>23. CASE StopCheck(c)
  <2>1. todo[c] # <<>> => Tail(todo[c]) \in Seq(Procs)
    BY AtHand
  <2> QED BY <1>23, <2>1 DEF StopCheck, Goto, OnlyTo, Keeps, Advance, Hand, env, sup, ghost, TypeInv, TodoType
<1>24. CASE StackDown(c)
  BY <1>24 DEF StackDown, Goto, OnlyTo, Keeps, env, sup, ghost, TypeInv, TodoType
<1>25. CASE Kill(c)
  BY <1>25 DEF Kill, Goto, OnlyTo, Keeps, env, sup, ghost, TypeInv, TodoType
<1>26. CASE Poll(c)
  BY <1>26 DEF Poll, Goto, OnlyTo, Keeps, env, sup, ghost, TypeInv, TodoType
<1> QED BY <1>1, <1>2, <1>3, <1>4, <1>5, <1>6, <1>7, <1>8, <1>9, <1>10, <1>11, <1>12, <1>13, <1>14, <1>15,
     <1>16, <1>17, <1>18, <1>19, <1>20, <1>21, <1>22, <1>23, <1>24, <1>25, <1>26 DEF Asks

LEMMA SeenStep ==
  ASSUME TypeInv, PlaceInv, EntryInv, NEW c \in Clients, Asks(c) \/ Poll(c)
  PROVE  seen' \in [Clients -> [Procs -> Entries \cup {None}]]
<1>1. ASSUME NEW r \in Requests, Begin(c, r)
      PROVE  seen' \in [Clients -> [Procs -> Entries \cup {None}]]
  BY <1>1 DEF Begin, Goto, Hand, sup, call, TypeInv, SeenType
<1>2. CASE Rest(c)
  BY <1>2 DEF Rest, Goto, Hand, sup, call, NoSeen, TypeInv, SeenType
<1>3. CASE Prepare(c)
  BY <1>3 DEF Prepare, Goto, Hand, sup, call, ghost, TypeInv, SeenType
<1>4. CASE PrepareRun(c)
  BY <1>4 DEF PrepareRun, Goto, Hand, sup, call, ghost, TypeInv, SeenType
<1>5. CASE LoadStack(c)
  BY <1>5 DEF LoadStack, Goto, Hand, env, sup, call, ghost, TypeInv, SeenType
<1>6. CASE Probe(c)
  BY <1>6 DEF Probe, Goto, Keeps, Hand, env, sup, call, ghost, TypeInv, SeenType
<1>7. CASE UpDaemon(c)
  BY <1>7 DEF UpDaemon, Goto, OnlyTo, Keeps, Hand, env, sup, call, ghost, TypeInv, SeenType
<1>8. CASE AwaitSupervisor(c)
  BY <1>8 DEF AwaitSupervisor, Goto, OnlyTo, Keeps, Hand, env, sup, call, ghost, TypeInv, SeenType
<1>9. CASE ReadFile(c)
  BY <1>9 DEF ReadFile, Goto, OnlyTo, Keeps, Hand, env, sup, call, ghost, TypeInv, SeenType
<1>10. CASE UpRead(c)
  <2>1. \A p \in Procs : proc[p] \in Entries
    BY NowTyped
  <2>2. UNCHANGED seen \/ \E q : seen' = [seen EXCEPT ![c][q] = proc[q]]
    BY <1>10 DEF UpRead, OnlyTo, Keeps
  <2>3. seen \in [Clients -> [Procs -> Entries \cup {None}]]
    BY DEF TypeInv, SeenType
  <2> QED BY ONLY <2>1, <2>2, <2>3, c \in Clients
<1>11. CASE UpLeaves(c)
  BY <1>11 DEF UpLeaves, Goto, OnlyTo, Keeps, Advance, Hand, env, sup, call, ghost, TypeInv, SeenType
<1>12. CASE ReadBaseline(c)
  BY <1>12 DEF ReadBaseline, Goto, OnlyTo, Keeps, Hand, env, sup, call, ghost, TypeInv, SeenType
<1>13. CASE ReadBefore(c)
  <2>1. \A p \in Procs : proc[p] \in Entries
    BY NowTyped
  <2>2. todo[c] # <<>> => Hand(c) \in Procs
    BY AtHand
  <2> QED BY <1>13, <2>1, <2>2 DEF ReadBefore, OnlyTo, Keeps, Hand, Now, TypeInv, SeenType
<1>14. ASSUME NEW posted \in BOOLEAN, UpdateProcess(c, posted)
      PROVE  seen' \in [Clients -> [Procs -> Entries \cup {None}]]
  BY <1>14 DEF UpdateProcess, Goto, OnlyTo, Keeps, Advance, Sent, Hand, env, sup, call, ghost, TypeInv, SeenType
<1>15. ASSUME NEW P \in SUBSET Procs, AddMissing(c, P)
      PROVE  seen' \in [Clients -> [Procs -> Entries \cup {None}]]
  BY <1>15 DEF AddMissing, Goto, Keeps, Hand, env, call, TypeInv, SeenType
<1>16. CASE Activate(c)
  <2>1. seen' = seen \/ seen' = [seen EXCEPT ![c][Hand(c)] = None]
    BY <1>16 DEF Activate, OnlyTo, Keeps, Advance, Sent
  <2> QED BY <2>1 DEF TypeInv, SeenType
<1>17. CASE Confirm(c)
  <2>1. seen' = seen \/ seen' = [seen EXCEPT ![c][Hand(c)] = None]
    BY <1>17 DEF Confirm, OnlyTo, Keeps, Advance
  <2> QED BY <2>1 DEF TypeInv, SeenType
<1>18. ASSUME NEW reuse \in BOOLEAN, StartProcess(c, reuse)
      PROVE  seen' \in [Clients -> [Procs -> Entries \cup {None}]]
  BY <1>18 DEF StartProcess, Goto, OnlyTo, Keeps, Advance, Hand, env, sup, call, ghost, TypeInv, SeenType
<1>19. ASSUME NEW reuse \in BOOLEAN, RestartProcess(c, reuse)
      PROVE  seen' \in [Clients -> [Procs -> Entries \cup {None}]]
  BY <1>19 DEF RestartProcess, Goto, OnlyTo, Keeps, Advance, Hand, env, sup, call, ghost, TypeInv, SeenType
<1>20. ASSUME NEW reuse \in BOOLEAN, StartNamed(c, reuse)
      PROVE  seen' \in [Clients -> [Procs -> Entries \cup {None}]]
  BY <1>20 DEF StartNamed, Goto, OnlyTo, Keeps, Hand, env, sup, call, ghost, TypeInv, SeenType
<1>21. CASE StopRead(c)
  <2>1. \A p \in Procs : proc[p] \in Entries
    BY NowTyped
  <2>2. todo[c] # <<>> => Hand(c) \in Procs
    BY AtHand
  <2> QED BY <1>21, <2>1, <2>2 DEF StopRead, OnlyTo, Keeps, Hand, TypeInv, SeenType
<1>22. CASE ProcessStop(c)
  BY <1>22 DEF ProcessStop, Goto, Hand, env, sup, call, ghost, TypeInv, SeenType
<1>23. CASE StopCheck(c)
  BY <1>23 DEF StopCheck, Goto, OnlyTo, Keeps, Advance, Hand, env, sup, call, ghost, TypeInv, SeenType
<1>24. CASE StackDown(c)
  BY <1>24 DEF StackDown, Goto, OnlyTo, Keeps, Hand, env, sup, call, ghost, TypeInv, SeenType
<1>25. CASE Kill(c)
  BY <1>25 DEF Kill, Goto, OnlyTo, Keeps, Hand, env, sup, call, ghost, TypeInv, SeenType
<1>26. CASE Poll(c)
  BY <1>26 DEF Poll, Goto, OnlyTo, Keeps, Hand, env, sup, call, ghost, TypeInv, SeenType
<1> QED BY <1>1, <1>2, <1>3, <1>4, <1>5, <1>6, <1>7, <1>8, <1>9, <1>10, <1>11, <1>12, <1>13, <1>14, <1>15,
     <1>16, <1>17, <1>18, <1>19, <1>20, <1>21, <1>22, <1>23, <1>24, <1>25, <1>26 DEF Asks

LEMMA HeldTyped ==
  ASSUME TypeInv, PlaceInv, EntryInv, NEW c \in Clients, Asks(c) \/ Poll(c)
  PROVE  held' \subseteq Procs
<1>1. CASE held' \subseteq held
  BY <1>1 DEF TypeInv, EnvType
<1>2. CASE Rest(c)
  <2>1. op[c].names \subseteq Procs
    BY Facts DEF TypeInv, CallType, NoOp
  <2> QED BY <1>2, <2>1 DEF Rest, TypeInv, EnvType
<1> QED BY <1>1, <1>2, Touches

LEMMA TypeStep ==
  ASSUME TypeInv, PlaceInv, EntryInv, [Next]_vars
  PROVE  TypeInv'
<1>1. CASE World
  <2>1. SupType'
    BY EveryStep DEF AnyStep
  <2> QED BY <1>1, <2>1 DEF World, call, TypeInv, EnvType, CallType, TodoType, SeenType
<1>2. ASSUME NEW c \in Clients, Asks(c) \/ Poll(c) PROVE TypeInv'
  <2>1. SupType'
    BY EveryStep DEF AnyStep
  <2>2. EnvType'
    BY <1>2, EnvStep, HeldTyped DEF EnvType
  <2>3. CallType'
    BY <1>2, PcStep, CallStep, Touches DEF CallType
  <2>4. TodoType' /\ SeenType'
    BY <1>2, TodoStep, SeenStep DEF TodoType, SeenType
  <2> QED BY <2>1, <2>2, <2>3, <2>4 DEF TypeInv
<1> QED BY <1>1, <1>2, EveryStep DEF AnyStep

-----------------------------------------------------------------------------
(* The entries stay in order, and what is held stays down.                    *)

LEMMA EntryStep ==
  ASSUME TypeInv, PlaceInv, EntryInv, [Next]_vars
  PROVE  EntryInv'
<1>1. AnyStep
  BY EveryStep
<1>2. ASSUME NEW p \in Procs PROVE /\ EntryOk(proc'[p]) /\ proc'[p].pid <= runs'[p]
                                   /\ p \in Jobs => /\ ended'[p] <= runs'[p] /\ proc'[p].st # "restarting"
                                                    /\ Live(proc'[p]) => ended'[p] < proc'[p].pid
  <2>0. /\ EntryOk(proc[p]) /\ proc[p].pid <= runs[p] /\ runs[p] \in Nat /\ proc[p].pid \in Nat
        /\ p \in Jobs => /\ ended[p] <= runs[p] /\ proc[p].st # "restarting" /\ ended[p] \in Nat /\ p \notin Services
                         /\ Live(proc[p]) => ended[p] < proc[p].pid
    BY NowTyped, Facts DEF EntryInv, TypeInv, SupType
  <2>1. CASE Kept(p)
    BY <2>0, <2>1 DEF Kept
  <2>2. CASE Itself(p)
    <3>1. proc'[p].pid \in Nat /\ EntryOk(proc'[p])
      BY <2>2 DEF Itself, Entries
    <3> QED BY <2>0, <2>2, <3>1 DEF Itself, Live
  <2>3. ASSUME NEW c \in Clients \cup {None}, Asked(p, c)
        PROVE  /\ EntryOk(proc'[p]) /\ proc'[p].pid <= runs'[p]
               /\ p \in Jobs => /\ ended'[p] <= runs'[p] /\ proc'[p].st # "restarting"
                                /\ Live(proc'[p]) => ended'[p] < proc'[p].pid
    BY <2>0, <2>3 DEF Asked, Change, Live
  <2> QED BY <1>1, <2>1, <2>2, <2>3 DEF AnyStep
<1> QED BY <1>1, <1>2, Facts DEF AnyStep, AbsentUnserved, EntryInv

LEMMA HeldStep ==
  ASSUME TypeInv, PlaceInv, EntryInv, StopInv, HeldInv, [Next]_vars
  PROVE  HeldInv'
<1>1. AnyStep
  BY EveryStep
<1>2. held' \subseteq held \/ \E c \in Clients : Rest(c)
  BY <1>1, Touches DEF AnyStep, World
<1>3. ASSUME NEW c \in Clients, Rest(c) PROVE HeldInv'
  <2>1. proc' = proc /\ held' = held \cup (IF op[c].verb = "stop" /\ pc[c] = "ok" THEN op[c].names \ touched[c] ELSE {})
    BY <1>3 DEF Rest, sup
  <2>2. op[c].verb = "stop" /\ pc[c] = "ok" => \A p \in op[c].names \ touched[c] : Down(proc[p])
    BY DEF StopInv, StopOf, Stops
  <2> QED BY <2>1, <2>2 DEF HeldInv
<1>4. CASE held' \subseteq held
  <2> SUFFICES ASSUME NEW p \in held' PROVE Down(proc'[p])
    BY DEF HeldInv
  <2>1. p \in held /\ p \in Procs /\ Down(proc[p])
    BY <1>4 DEF HeldInv, TypeInv, EnvType
  <2>2. CASE Kept(p)
    BY <2>1, <2>2 DEF Kept
  <2>3. CASE Itself(p)
    BY <2>1, <2>3 DEF Itself, Down, Live
  <2>4. ASSUME NEW c \in Clients \cup {None}, Asked(p, c) PROVE Down(proc'[p])
    BY <2>1, <2>4 DEF Asked, Change
  <2> QED BY <1>1, <2>1, <2>2, <2>3, <2>4 DEF AnyStep
<1> QED BY <1>2, <1>3, <1>4

-----------------------------------------------------------------------------
(* Where the calls are.                                                       *)

LEMMA RootStep ==
  ASSUME TypeInv, PlaceInv, EntryInv, NEW c \in Clients, Asks(c) \/ Poll(c)
  PROVE  root' = root \/ root = None \/ root = c
<1>1. ASSUME NEW r \in Requests, Begin(c, r)
      PROVE  root' = root \/ root = None \/ root = c
  BY <1>1 DEF Begin, Goto, sup
<1>2. CASE Rest(c)
  BY <1>2 DEF Rest, Goto, sup
<1>3. CASE Prepare(c)
  BY <1>3 DEF Prepare, Goto, sup, ghost
<1>4. CASE PrepareRun(c)
  BY <1>4 DEF PrepareRun, Goto, sup, ghost
<1>5. CASE LoadStack(c)
  BY <1>5 DEF LoadStack, Goto, env, sup, ghost
<1>6. CASE Probe(c)
  BY <1>6 DEF Probe, Goto, Keeps, env, sup, ghost
<1>7. CASE UpDaemon(c)
  BY <1>7 DEF UpDaemon, Goto, OnlyTo, Keeps, env, sup, ghost
<1>8. CASE AwaitSupervisor(c)
  BY <1>8 DEF AwaitSupervisor, Goto, OnlyTo, Keeps, env, sup, ghost
<1>9. CASE ReadFile(c)
  BY <1>9 DEF ReadFile, Goto, OnlyTo, Keeps, env, sup, ghost
<1>10. CASE UpRead(c)
  BY <1>10 DEF UpRead, Goto, OnlyTo, Keeps, env, sup, ghost
<1>11. CASE UpLeaves(c)
  BY <1>11 DEF UpLeaves, Goto, OnlyTo, Keeps, Advance, Hand, env, sup, ghost
<1>12. CASE ReadBaseline(c)
  BY <1>12 DEF ReadBaseline, Goto, OnlyTo, Keeps, Hand, env, sup, ghost
<1>13. CASE ReadBefore(c)
  BY <1>13 DEF ReadBefore, Goto, OnlyTo, Keeps, Hand, env, sup, ghost
<1>14. ASSUME NEW posted \in BOOLEAN, UpdateProcess(c, posted)
      PROVE  root' = root \/ root = None \/ root = c
  BY <1>14 DEF UpdateProcess, Goto, OnlyTo, Keeps, Advance, Sent, Hand, env, sup, ghost
<1>15. ASSUME NEW P \in SUBSET Procs, AddMissing(c, P)
      PROVE  root' = root \/ root = None \/ root = c
  BY <1>15 DEF AddMissing, Goto, Keeps, Hand, env
<1>16. CASE Activate(c)
  BY <1>16 DEF Activate, Goto, OnlyTo, Keeps, Advance, Sent, Hand, env, sup, ghost
<1>17. CASE Confirm(c)
  BY <1>17 DEF Confirm, Goto, OnlyTo, Keeps, Advance, Hand, env, sup, ghost
<1>18. ASSUME NEW reuse \in BOOLEAN, StartProcess(c, reuse)
      PROVE  root' = root \/ root = None \/ root = c
  BY <1>18 DEF StartProcess, Goto, OnlyTo, Keeps, Advance, Hand, env, sup, ghost
<1>19. ASSUME NEW reuse \in BOOLEAN, RestartProcess(c, reuse)
      PROVE  root' = root \/ root = None \/ root = c
  BY <1>19 DEF RestartProcess, Goto, OnlyTo, Keeps, Advance, Hand, env, sup, ghost
<1>20. ASSUME NEW reuse \in BOOLEAN, StartNamed(c, reuse)
      PROVE  root' = root \/ root = None \/ root = c
  BY <1>20 DEF StartNamed, Goto, OnlyTo, Keeps, env, sup, ghost
<1>21. CASE StopRead(c)
  BY <1>21 DEF StopRead, Goto, OnlyTo, Keeps, Hand, env, sup, ghost
<1>22. CASE ProcessStop(c)
  BY <1>22 DEF ProcessStop, Goto, env, sup, ghost
<1>23. CASE StopCheck(c)
  BY <1>23 DEF StopCheck, Goto, OnlyTo, Keeps, Advance, Hand, env, sup, ghost
<1>24. CASE StackDown(c)
  BY <1>24 DEF StackDown, Goto, OnlyTo, Keeps, env, sup, ghost
<1>25. CASE Kill(c)
  BY <1>25 DEF Kill, Goto, OnlyTo, Keeps, env, sup, ghost
<1>26. CASE Poll(c)
  BY <1>26 DEF Poll, Goto, OnlyTo, Keeps, env, sup, ghost
<1> QED BY <1>1, <1>2, <1>3, <1>4, <1>5, <1>6, <1>7, <1>8, <1>9, <1>10, <1>11, <1>12, <1>13, <1>14, <1>15,
     <1>16, <1>17, <1>18, <1>19, <1>20, <1>21, <1>22, <1>23, <1>24, <1>25, <1>26 DEF Asks

LEMMA OpStep ==
  ASSUME TypeInv, PlaceInv, EntryInv, NEW c \in Clients, Asks(c) \/ Poll(c)
  PROVE  op'[c] = op[c] \/ (pc[c] = "idle" /\ pc'[c] \in {"lock", "down"}) \/ Rest(c)
<1>1. ASSUME NEW r \in Requests, Begin(c, r)
      PROVE  op'[c] = op[c] \/ (pc[c] = "idle" /\ pc'[c] \in {"lock", "down"}) \/ Rest(c)
  BY <1>1 DEF Begin, Goto, sup, TypeInv, CallType
<1>2. CASE Rest(c)
  BY <1>2 DEF Rest, Goto, sup, TypeInv, CallType
<1>3. CASE Prepare(c)
  BY <1>3 DEF Prepare, Goto, sup, ghost, TypeInv, CallType
<1>4. CASE PrepareRun(c)
  BY <1>4 DEF PrepareRun, Goto, sup, ghost, TypeInv, CallType
<1>5. CASE LoadStack(c)
  BY <1>5 DEF LoadStack, Goto, env, sup, ghost, TypeInv, CallType
<1>6. CASE Probe(c)
  BY <1>6 DEF Probe, Goto, Keeps, env, sup, ghost, TypeInv, CallType
<1>7. CASE UpDaemon(c)
  BY <1>7 DEF UpDaemon, Goto, OnlyTo, Keeps, env, sup, ghost, TypeInv, CallType
<1>8. CASE AwaitSupervisor(c)
  BY <1>8 DEF AwaitSupervisor, Goto, OnlyTo, Keeps, env, sup, ghost, TypeInv, CallType
<1>9. CASE ReadFile(c)
  BY <1>9 DEF ReadFile, Goto, OnlyTo, Keeps, env, sup, ghost, TypeInv, CallType
<1>10. CASE UpRead(c)
  BY <1>10 DEF UpRead, Goto, OnlyTo, Keeps, env, sup, ghost, TypeInv, CallType
<1>11. CASE UpLeaves(c)
  BY <1>11 DEF UpLeaves, Goto, OnlyTo, Keeps, Advance, Hand, env, sup, ghost, TypeInv, CallType
<1>12. CASE ReadBaseline(c)
  BY <1>12 DEF ReadBaseline, Goto, OnlyTo, Keeps, Hand, env, sup, ghost, TypeInv, CallType
<1>13. CASE ReadBefore(c)
  BY <1>13 DEF ReadBefore, Goto, OnlyTo, Keeps, Hand, env, sup, ghost, TypeInv, CallType
<1>14. ASSUME NEW posted \in BOOLEAN, UpdateProcess(c, posted)
      PROVE  op'[c] = op[c] \/ (pc[c] = "idle" /\ pc'[c] \in {"lock", "down"}) \/ Rest(c)
  BY <1>14 DEF UpdateProcess, Goto, OnlyTo, Keeps, Advance, Sent, Hand, env, sup, ghost, TypeInv, CallType
<1>15. ASSUME NEW P \in SUBSET Procs, AddMissing(c, P)
      PROVE  op'[c] = op[c] \/ (pc[c] = "idle" /\ pc'[c] \in {"lock", "down"}) \/ Rest(c)
  BY <1>15 DEF AddMissing, Goto, Keeps, Hand, env, TypeInv, CallType
<1>16. CASE Activate(c)
  BY <1>16 DEF Activate, Goto, OnlyTo, Keeps, Advance, Sent, Hand, env, sup, ghost, TypeInv, CallType
<1>17. CASE Confirm(c)
  BY <1>17 DEF Confirm, Goto, OnlyTo, Keeps, Advance, Hand, env, sup, ghost, TypeInv, CallType
<1>18. ASSUME NEW reuse \in BOOLEAN, StartProcess(c, reuse)
      PROVE  op'[c] = op[c] \/ (pc[c] = "idle" /\ pc'[c] \in {"lock", "down"}) \/ Rest(c)
  BY <1>18 DEF StartProcess, Goto, OnlyTo, Keeps, Advance, Hand, env, sup, ghost, TypeInv, CallType
<1>19. ASSUME NEW reuse \in BOOLEAN, RestartProcess(c, reuse)
      PROVE  op'[c] = op[c] \/ (pc[c] = "idle" /\ pc'[c] \in {"lock", "down"}) \/ Rest(c)
  BY <1>19 DEF RestartProcess, Goto, OnlyTo, Keeps, Advance, Hand, env, sup, ghost, TypeInv, CallType
<1>20. ASSUME NEW reuse \in BOOLEAN, StartNamed(c, reuse)
      PROVE  op'[c] = op[c] \/ (pc[c] = "idle" /\ pc'[c] \in {"lock", "down"}) \/ Rest(c)
  BY <1>20 DEF StartNamed, Goto, OnlyTo, Keeps, env, sup, ghost, TypeInv, CallType
<1>21. CASE StopRead(c)
  BY <1>21 DEF StopRead, Goto, OnlyTo, Keeps, Hand, env, sup, ghost, TypeInv, CallType
<1>22. CASE ProcessStop(c)
  BY <1>22 DEF ProcessStop, Goto, env, sup, ghost, TypeInv, CallType
<1>23. CASE StopCheck(c)
  BY <1>23 DEF StopCheck, Goto, OnlyTo, Keeps, Advance, Hand, env, sup, ghost, TypeInv, CallType
<1>24. CASE StackDown(c)
  BY <1>24 DEF StackDown, Goto, OnlyTo, Keeps, env, sup, ghost, TypeInv, CallType
<1>25. CASE Kill(c)
  BY <1>25 DEF Kill, Goto, OnlyTo, Keeps, env, sup, ghost, TypeInv, CallType
<1>26. CASE Poll(c)
  BY <1>26 DEF Poll, Goto, OnlyTo, Keeps, env, sup, ghost, TypeInv, CallType
<1> QED BY <1>1, <1>2, <1>3, <1>4, <1>5, <1>6, <1>7, <1>8, <1>9, <1>10, <1>11, <1>12, <1>13, <1>14, <1>15,
     <1>16, <1>17, <1>18, <1>19, <1>20, <1>21, <1>22, <1>23, <1>24, <1>25, <1>26 DEF Asks

(* The place belongs to what was asked for, and a run past the lock holds it. *)
Placed(c) ==
  /\ pc[c] = "idle" \/ pc[c] \in Ends \/ (op[c] \in Requests /\ pc[c] \in PlacesOf(op[c].verb))
  /\ pc[c] \notin {"idle", "failed", "lock"} /\ op[c].verb = "run" => root = c \/ pc[c] = "ok" \/ pc[c] = "answered"
Handed(c) ==
  /\ pc[c] \in Handing => todo[c] # <<>>
  /\ op[c].verb \in {"stop", "restart", "run"} => ToSet(todo[c]) \subseteq op[c].names
  /\ pc[c] = "idle" => todo[c] = <<>>
Seen(c) ==
  /\ op[c].verb = "stop" /\ pc[c] # "idle" => \A p \in Procs : seen[c][p] # None => p \in op[c].names
  /\ pc[c] = "idle" => seen[c] = NoSeen
Compiled(c) == pc[c] \in {"load", "baseline", "before"} => ver[c] # 0

LEMMA PlacedOwn ==
  ASSUME TypeInv, PlaceInv, EntryInv, NEW c \in Clients, Asks(c) \/ Poll(c)
  PROVE  Placed(c)'
<1>1. ASSUME NEW r \in Requests, Begin(c, r)
      PROVE  Placed(c)'
  BY <1>1, Facts DEF Begin, Goto, PlacesOf, Ends, Verbs, Placed, TypeInv, CallType
<1>2. CASE Rest(c)
  BY <1>2, AtWork DEF Rest, Goto, sup, PlacesOf, Ends, Verbs, Placed, PlaceInv, PlaceOf, TypeInv, CallType
<1>3. CASE Prepare(c)
  BY <1>3, AtWork DEF Prepare, Goto, sup, ghost, PlacesOf, Ends, Verbs, Placed, PlaceInv, PlaceOf, TypeInv,
       CallType
<1>4. CASE PrepareRun(c)
  BY <1>4, AtWork DEF PrepareRun, Goto, sup, ghost, PlacesOf, Ends, Verbs, Placed, PlaceInv, PlaceOf, TypeInv,
       CallType
<1>5. CASE LoadStack(c)
  BY <1>5, AtWork DEF LoadStack, Goto, env, sup, ghost, PlacesOf, Ends, Verbs, Placed, PlaceInv, PlaceOf,
       TypeInv, CallType
<1>6. CASE Probe(c)
  BY <1>6, AtWork DEF Probe, Goto, Keeps, env, sup, ghost, PlacesOf, Ends, Verbs, Placed, PlaceInv, PlaceOf,
       TypeInv, CallType
<1>7. CASE UpDaemon(c)
  BY <1>7, AtWork DEF UpDaemon, Goto, OnlyTo, Keeps, env, sup, ghost, PlacesOf, Ends, Verbs, Placed, PlaceInv,
       PlaceOf, TypeInv, CallType
<1>8. CASE AwaitSupervisor(c)
  BY <1>8, AtWork DEF AwaitSupervisor, Goto, OnlyTo, Keeps, env, sup, ghost, PlacesOf, Ends, Verbs, Placed,
       PlaceInv, PlaceOf, TypeInv, CallType
<1>9. CASE ReadFile(c)
  BY <1>9, AtWork DEF ReadFile, Goto, OnlyTo, Keeps, env, sup, ghost, PlacesOf, Ends, Verbs, Placed, PlaceInv,
       PlaceOf, TypeInv, CallType
<1>10. CASE UpRead(c)
  BY <1>10, AtWork DEF UpRead, Goto, OnlyTo, Keeps, env, sup, ghost, PlacesOf, Ends, Verbs, Placed, PlaceInv,
       PlaceOf, TypeInv, CallType
<1>11. CASE UpLeaves(c)
  BY <1>11, AtWork DEF UpLeaves, Goto, OnlyTo, Keeps, Advance, Hand, env, sup, ghost, PlacesOf, Ends, Verbs,
       Placed, PlaceInv, PlaceOf, TypeInv, CallType
<1>12. CASE ReadBaseline(c)
  BY <1>12, AtWork DEF ReadBaseline, Goto, OnlyTo, Keeps, Hand, env, sup, ghost, PlacesOf, Ends, Verbs,
       Placed, PlaceInv, PlaceOf, TypeInv, CallType
<1>13. CASE ReadBefore(c)
  BY <1>13, AtWork DEF ReadBefore, Goto, OnlyTo, Keeps, Hand, env, sup, ghost, PlacesOf, Ends, Verbs, Placed,
       PlaceInv, PlaceOf, TypeInv, CallType
<1>14. ASSUME NEW posted \in BOOLEAN, UpdateProcess(c, posted)
      PROVE  Placed(c)'
  BY <1>14, AtWork DEF UpdateProcess, Goto, OnlyTo, Keeps, Advance, Sent, Hand, env, sup, ghost, Posts,
       PlacesOf, Ends, Verbs, Placed, PlaceInv, PlaceOf, TypeInv, CallType
<1>15. ASSUME NEW P \in SUBSET Procs, AddMissing(c, P)
      PROVE  Placed(c)'
  BY <1>15, AtWork DEF AddMissing, Goto, Keeps, Hand, env, Posts, PlacesOf, Ends, Verbs, Placed, PlaceInv,
       PlaceOf, TypeInv, CallType
<1>16. CASE Activate(c)
  BY <1>16, AtWork DEF Activate, Goto, OnlyTo, Keeps, Advance, Sent, Hand, env, sup, ghost, PlacesOf, Ends,
       Verbs, Placed, PlaceInv, PlaceOf, TypeInv, CallType
<1>17. CASE Confirm(c)
  BY <1>17, AtWork DEF Confirm, Goto, OnlyTo, Keeps, Advance, Hand, env, sup, ghost, PlacesOf, Ends, Verbs,
       Applied, Placed, PlaceInv, PlaceOf, TypeInv, CallType
<1>18. ASSUME NEW reuse \in BOOLEAN, StartProcess(c, reuse)
      PROVE  Placed(c)'
  BY <1>18, AtWork DEF StartProcess, Goto, OnlyTo, Keeps, Advance, Hand, env, sup, ghost, PlacesOf, Ends,
       Verbs, Placed, PlaceInv, PlaceOf, TypeInv, CallType
<1>19. ASSUME NEW reuse \in BOOLEAN, RestartProcess(c, reuse)
      PROVE  Placed(c)'
  BY <1>19, AtWork DEF RestartProcess, Goto, OnlyTo, Keeps, Advance, Hand, env, sup, ghost, PlacesOf, Ends,
       Verbs, Applied, Placed, PlaceInv, PlaceOf, TypeInv, CallType
<1>20. ASSUME NEW reuse \in BOOLEAN, StartNamed(c, reuse)
      PROVE  Placed(c)'
  BY <1>20, AtWork DEF StartNamed, Goto, OnlyTo, Keeps, env, sup, ghost, PlacesOf, Ends, Verbs, Placed,
       PlaceInv, PlaceOf, TypeInv, CallType
<1>21. CASE StopRead(c)
  BY <1>21, AtWork DEF StopRead, Goto, OnlyTo, Keeps, Hand, env, sup, ghost, PlacesOf, Ends, Verbs, Placed,
       PlaceInv, PlaceOf, TypeInv, CallType
<1>22. CASE ProcessStop(c)
  BY <1>22, AtWork DEF ProcessStop, Goto, env, sup, ghost, PlacesOf, Ends, Verbs, Placed, PlaceInv, PlaceOf,
       TypeInv, CallType
<1>23. CASE StopCheck(c)
  BY <1>23, AtWork DEF StopCheck, Goto, OnlyTo, Keeps, Advance, Hand, env, sup, ghost, PlacesOf, Ends, Verbs,
       Placed, PlaceInv, PlaceOf, TypeInv, CallType
<1>24. CASE StackDown(c)
  BY <1>24, AtWork DEF StackDown, Goto, OnlyTo, Keeps, env, sup, ghost, PlacesOf, Ends, Verbs, Placed,
       PlaceInv, PlaceOf, TypeInv, CallType
<1>25. CASE Kill(c)
  BY <1>25, AtWork DEF Kill, Goto, OnlyTo, Keeps, env, sup, ghost, PlacesOf, Ends, Verbs, Placed, PlaceInv,
       PlaceOf, TypeInv, CallType
<1>26. CASE Poll(c)
  BY <1>26, AtWork DEF Poll, Goto, OnlyTo, Keeps, env, sup, ghost, PlacesOf, Ends, Verbs, Placed, PlaceInv,
       PlaceOf, TypeInv, CallType
<1> QED BY <1>1, <1>2, <1>3, <1>4, <1>5, <1>6, <1>7, <1>8, <1>9, <1>10, <1>11, <1>12, <1>13, <1>14, <1>15,
     <1>16, <1>17, <1>18, <1>19, <1>20, <1>21, <1>22, <1>23, <1>24, <1>25, <1>26 DEF Asks

LEMMA HandedOwn ==
  ASSUME TypeInv, PlaceInv, EntryInv, NEW c \in Clients, Asks(c) \/ Poll(c)
  PROVE  Handed(c)'
<1>1. ASSUME NEW r \in Requests, Begin(c, r)
      PROVE  Handed(c)'
  <2>1. ToSet(<<>>) = {}
    BY DEF ToSet
  <2> QED BY <1>1, <2>1 DEF Begin, Goto, PlaceInv, PlaceOf, Handed, Handing, TypeInv, CallType
<1>2. CASE Rest(c)
  <2>1. ToSet(<<>>) = {}
    BY DEF ToSet
  <2> QED BY <1>2, <2>1 DEF Rest, Goto, NoOp, Ends, Handed, Handing, TypeInv, CallType, TodoType
<1>3. CASE Prepare(c)
  BY <1>3, AtWork DEF Prepare, Goto, sup, ghost, PlacesOf, Verbs, PlaceInv, PlaceOf, Handed, Handing, TypeInv,
       CallType, TodoType
<1>4. CASE PrepareRun(c)
  <2>1. SetToSeq(op[c].names) \in Seq(Procs) /\ ToSet(SetToSeq(op[c].names)) = op[c].names /\ (op[c].names # {} => SetToSeq(op[c].names) # <<>>)
    BY <1>4, AtWork, NamesAsSeq DEF PrepareRun
  <2>2. op[c].verb = "run" => op[c].names # {}
    BY <1>4, AtWork DEF PrepareRun
  <2> QED BY <1>4, <2>1, <2>2 DEF PrepareRun, Goto, sup, ghost, PlaceInv, PlaceOf, Handed, Handing, Ends,
       TypeInv, CallType, TodoType
<1>5. CASE LoadStack(c)
  <2>1. SetToSeq(op[c].names) \in Seq(Procs) /\ ToSet(SetToSeq(op[c].names)) = op[c].names /\ (op[c].names # {} => SetToSeq(op[c].names) # <<>>)
    BY <1>5, AtWork, NamesAsSeq DEF LoadStack
  <2>2. op[c].verb = "run" => op[c].names # {}
    BY <1>5, AtWork DEF LoadStack
  <2> QED BY <1>5, <2>1, <2>2 DEF LoadStack, Goto, env, sup, ghost, PlaceInv, PlaceOf, Handed, Handing, Ends,
       TypeInv, CallType, TodoType
<1>6. CASE Probe(c)
  BY <1>6, AtWork DEF Probe, Goto, Keeps, env, sup, ghost, PlacesOf, Verbs, PlaceInv, PlaceOf, Handed,
       Handing, TypeInv, CallType, TodoType
<1>7. CASE UpDaemon(c)
  BY <1>7, AtWork DEF UpDaemon, Goto, OnlyTo, Keeps, env, sup, ghost, PlacesOf, Verbs, PlaceInv, PlaceOf,
       Handed, Handing, TypeInv, CallType, TodoType
<1>8. CASE AwaitSupervisor(c)
  BY <1>8, AtWork DEF AwaitSupervisor, Goto, OnlyTo, Keeps, env, sup, ghost, PlacesOf, Verbs, PlaceInv,
       PlaceOf, Handed, Handing, TypeInv, CallType, TodoType
<1>9. CASE ReadFile(c)
  BY <1>9, AtWork DEF ReadFile, Goto, OnlyTo, Keeps, env, sup, ghost, PlacesOf, Verbs, PlaceInv, PlaceOf,
       Handed, Handing, TypeInv, CallType, TodoType
<1>10. CASE UpRead(c)
  BY <1>10, AtWork DEF UpRead, Goto, OnlyTo, Keeps, env, sup, ghost, PlacesOf, Verbs, PlaceInv, PlaceOf,
       Handed, Handing, TypeInv, CallType, TodoType
<1>11. CASE UpLeaves(c)
  <2>1. todo[c] # <<>> => ToSet(Tail(todo[c])) \subseteq ToSet(todo[c])
    BY AtHand
  <2> QED BY <1>11, <2>1, AtWork DEF UpLeaves, Goto, OnlyTo, Keeps, Advance, Hand, env, sup, ghost, PlacesOf,
       Verbs, PlaceInv, PlaceOf, Handed, Handing, TypeInv, CallType, TodoType
<1>12. CASE ReadBaseline(c)
  BY <1>12, AtWork DEF ReadBaseline, Goto, OnlyTo, Keeps, Hand, env, sup, ghost, PlacesOf, Verbs, PlaceInv,
       PlaceOf, Handed, Handing, TypeInv, CallType, TodoType
<1>13. CASE ReadBefore(c)
  BY <1>13, AtWork DEF ReadBefore, Goto, OnlyTo, Keeps, Hand, env, sup, ghost, PlacesOf, Verbs, PlaceInv,
       PlaceOf, Handed, Handing, TypeInv, CallType, TodoType
<1>14. ASSUME NEW posted \in BOOLEAN, UpdateProcess(c, posted)
      PROVE  Handed(c)'
  <2>1. todo[c] # <<>> /\ ToSet(Tail(todo[c])) \subseteq ToSet(todo[c])
    BY <1>14, AtHand DEF UpdateProcess, Posts, PlaceInv, PlaceOf, Handing
  <2> QED BY <1>14, <2>1, AtWork DEF UpdateProcess, Goto, OnlyTo, Keeps, Advance, Sent, Hand, env, sup, ghost,
       Posts, PlacesOf, Verbs, PlaceInv, PlaceOf, Handed, Handing, TypeInv, CallType, TodoType
<1>15. ASSUME NEW P \in SUBSET Procs, AddMissing(c, P)
      PROVE  Handed(c)'
  BY <1>15, AtWork DEF AddMissing, Goto, Keeps, Hand, env, Posts, PlacesOf, Verbs, PlaceInv, PlaceOf, Handed,
       Handing, TypeInv, CallType, TodoType
<1>16. CASE Activate(c)
  <2>1. todo[c] # <<>> /\ ToSet(Tail(todo[c])) \subseteq ToSet(todo[c])
    BY <1>16, AtHand DEF Activate, PlaceInv, PlaceOf, Handing
  <2> QED BY <1>16, <2>1, AtWork DEF Activate, Goto, OnlyTo, Keeps, Advance, Sent, Hand, env, sup, ghost,
       PlacesOf, Verbs, PlaceInv, PlaceOf, Handed, Handing, TypeInv, CallType, TodoType
<1>17. CASE Confirm(c)
  <2>1. todo[c] # <<>> /\ ToSet(Tail(todo[c])) \subseteq ToSet(todo[c])
    BY <1>17, AtHand DEF Confirm, PlaceInv, PlaceOf, Handing
  <2> QED BY <1>17, <2>1, AtWork DEF Confirm, Goto, OnlyTo, Keeps, Advance, Hand, env, sup, ghost, Applied,
       PlacesOf, Verbs, PlaceInv, PlaceOf, Handed, Handing, TypeInv, CallType, TodoType
<1>18. ASSUME NEW reuse \in BOOLEAN, StartProcess(c, reuse)
      PROVE  Handed(c)'
  <2>1. todo[c] # <<>> /\ ToSet(Tail(todo[c])) \subseteq ToSet(todo[c])
    BY <1>18, AtHand DEF StartProcess, PlaceInv, PlaceOf, Handing
  <2> QED BY <1>18, <2>1, AtWork DEF StartProcess, Goto, OnlyTo, Keeps, Advance, Hand, env, sup, ghost,
       PlacesOf, Verbs, PlaceInv, PlaceOf, Handed, Handing, TypeInv, CallType, TodoType
<1>19. ASSUME NEW reuse \in BOOLEAN, RestartProcess(c, reuse)
      PROVE  Handed(c)'
  <2>1. todo[c] # <<>> /\ ToSet(Tail(todo[c])) \subseteq ToSet(todo[c])
    BY <1>19, AtHand DEF RestartProcess, PlaceInv, PlaceOf, Handing
  <2> QED BY <1>19, <2>1, AtWork DEF RestartProcess, Goto, OnlyTo, Keeps, Advance, Hand, env, sup, ghost,
       Applied, PlacesOf, Verbs, PlaceInv, PlaceOf, Handed, Handing, TypeInv, CallType, TodoType
<1>20. ASSUME NEW reuse \in BOOLEAN, StartNamed(c, reuse)
      PROVE  Handed(c)'
  BY <1>20, AtWork DEF StartNamed, Goto, OnlyTo, Keeps, env, sup, ghost, PlacesOf, Verbs, PlaceInv, PlaceOf,
       Handed, Handing, TypeInv, CallType, TodoType
<1>21. CASE StopRead(c)
  <2>1. todo[c] # <<>> => ToSet(Tail(todo[c])) \subseteq ToSet(todo[c])
    BY AtHand
  <2> QED BY <1>21, <2>1, AtWork DEF StopRead, Goto, OnlyTo, Keeps, Hand, env, sup, ghost, PlacesOf, Verbs,
       PlaceInv, PlaceOf, Handed, Handing, TypeInv, CallType, TodoType
<1>22. CASE ProcessStop(c)
  <2>1. SetToSeq(op[c].names) \in Seq(Procs) /\ ToSet(SetToSeq(op[c].names)) = op[c].names /\ (op[c].names # {} => SetToSeq(op[c].names) # <<>>)
    BY <1>22, AtWork, NamesAsSeq DEF ProcessStop
  <2>2. op[c].verb = "run" => op[c].names # {}
    BY <1>22, AtWork DEF ProcessStop
  <2> QED BY <1>22, <2>1, <2>2 DEF ProcessStop, Goto, env, sup, ghost, PlaceInv, PlaceOf, Handed, Handing,
       Ends, TypeInv, CallType, TodoType
<1>23. CASE StopCheck(c)
  <2>1. todo[c] # <<>> => ToSet(Tail(todo[c])) \subseteq ToSet(todo[c])
    BY AtHand
  <2> QED BY <1>23, <2>1, AtWork DEF StopCheck, Goto, OnlyTo, Keeps, Advance, Hand, env, sup, ghost, PlacesOf,
       Verbs, PlaceInv, PlaceOf, Handed, Handing, TypeInv, CallType, TodoType
<1>24. CASE StackDown(c)
  BY <1>24, AtWork DEF StackDown, Goto, OnlyTo, Keeps, env, sup, ghost, PlacesOf, Verbs, PlaceInv, PlaceOf,
       Handed, Handing, TypeInv, CallType, TodoType
<1>25. CASE Kill(c)
  BY <1>25, AtWork DEF Kill, Goto, OnlyTo, Keeps, env, sup, ghost, PlacesOf, Verbs, PlaceInv, PlaceOf, Handed,
       Handing, TypeInv, CallType, TodoType
<1>26. CASE Poll(c)
  BY <1>26, AtWork DEF Poll, Goto, OnlyTo, Keeps, env, sup, ghost, PlacesOf, Verbs, PlaceInv, PlaceOf, Handed,
       Handing, TypeInv, CallType, TodoType
<1> QED BY <1>1, <1>2, <1>3, <1>4, <1>5, <1>6, <1>7, <1>8, <1>9, <1>10, <1>11, <1>12, <1>13, <1>14, <1>15,
     <1>16, <1>17, <1>18, <1>19, <1>20, <1>21, <1>22, <1>23, <1>24, <1>25, <1>26 DEF Asks

LEMMA SeenOwn ==
  ASSUME TypeInv, PlaceInv, EntryInv, NEW c \in Clients, Asks(c) \/ Poll(c)
  PROVE  Seen(c)'
<1>1. ASSUME NEW r \in Requests, Begin(c, r)
      PROVE  Seen(c)'
  BY <1>1 DEF Begin, Goto, Hand, sup, call, NoOp, NoSeen, Ends, PlaceInv, PlaceOf, Seen, TypeInv, CallType,
       SeenType
<1>2. CASE Rest(c)
  BY <1>2 DEF Rest, Goto, Hand, sup, call, NoOp, NoSeen, Ends, PlaceInv, PlaceOf, Seen, TypeInv, CallType,
       SeenType
<1>3. CASE Prepare(c)
  BY <1>3 DEF Prepare, Goto, Hand, sup, call, ghost, NoOp, NoSeen, Ends, PlaceInv, PlaceOf, Seen, TypeInv,
       CallType, SeenType
<1>4. CASE PrepareRun(c)
  BY <1>4 DEF PrepareRun, Goto, Hand, sup, call, ghost, NoOp, NoSeen, Ends, PlaceInv, PlaceOf, Seen, TypeInv,
       CallType, SeenType
<1>5. CASE LoadStack(c)
  BY <1>5 DEF LoadStack, Goto, Hand, env, sup, call, ghost, NoOp, NoSeen, Ends, PlaceInv, PlaceOf, Seen,
       TypeInv, CallType, SeenType
<1>6. CASE Probe(c)
  BY <1>6 DEF Probe, Goto, Keeps, Hand, env, sup, call, ghost, NoOp, NoSeen, Ends, PlaceInv, PlaceOf, Seen,
       TypeInv, CallType, SeenType
<1>7. CASE UpDaemon(c)
  BY <1>7 DEF UpDaemon, Goto, OnlyTo, Keeps, Hand, env, sup, call, ghost, NoOp, NoSeen, Ends, PlaceInv,
       PlaceOf, Seen, TypeInv, CallType, SeenType
<1>8. CASE AwaitSupervisor(c)
  BY <1>8 DEF AwaitSupervisor, Goto, OnlyTo, Keeps, Hand, env, sup, call, ghost, NoOp, NoSeen, Ends, PlaceInv,
       PlaceOf, Seen, TypeInv, CallType, SeenType
<1>9. CASE ReadFile(c)
  BY <1>9 DEF ReadFile, Goto, OnlyTo, Keeps, Hand, env, sup, call, ghost, NoOp, NoSeen, Ends, PlaceInv,
       PlaceOf, Seen, TypeInv, CallType, SeenType
<1>10. CASE UpRead(c)
  <2>1. op[c].verb # "stop" /\ op' = op /\ pc'[c] # "idle"
    BY <1>10, AtWork DEF UpRead, OnlyTo, Goto, Keeps, PlacesOf, Verbs, TypeInv, CallType
  <2> QED BY <2>1 DEF Seen
<1>11. CASE UpLeaves(c)
  <2>1. seen' = seen \/ seen' = [seen EXCEPT ![c][Hand(c)] = None]
    BY <1>11 DEF UpLeaves, OnlyTo, Keeps, Advance
  <2>2. pc'[c] # "idle" /\ pc[c] # "idle" /\ op' = op
    BY <1>11 DEF UpLeaves, Goto, OnlyTo, Keeps, Advance, Hand, env, sup, ghost, TypeInv, CallType
  <2> QED BY <2>1, <2>2 DEF Seen, PlaceInv, PlaceOf, TypeInv, SeenType
<1>12. CASE ReadBaseline(c)
  BY <1>12 DEF ReadBaseline, Goto, OnlyTo, Keeps, Hand, env, sup, call, ghost, NoOp, NoSeen, Ends, PlaceInv,
       PlaceOf, Seen, TypeInv, CallType, SeenType
<1>13. CASE ReadBefore(c)
  <2>1. op[c].verb # "stop" /\ op' = op /\ pc'[c] # "idle"
    BY <1>13, AtWork DEF ReadBefore, OnlyTo, Goto, Keeps, PlacesOf, Verbs, TypeInv, CallType
  <2> QED BY <2>1 DEF Seen
<1>14. ASSUME NEW posted \in BOOLEAN, UpdateProcess(c, posted)
      PROVE  Seen(c)'
  <2>1. seen' = seen \/ seen' = [seen EXCEPT ![c][Hand(c)] = None]
    BY <1>14 DEF UpdateProcess, OnlyTo, Keeps, Advance, Sent
  <2>2. pc'[c] # "idle" /\ pc[c] # "idle" /\ op' = op
    BY <1>14 DEF UpdateProcess, Goto, OnlyTo, Keeps, Advance, Sent, Hand, env, sup, ghost, Posts, TypeInv,
         CallType
  <2> QED BY <2>1, <2>2 DEF Seen, PlaceInv, PlaceOf, TypeInv, SeenType
<1>15. ASSUME NEW P \in SUBSET Procs, AddMissing(c, P)
      PROVE  Seen(c)'
  BY <1>15 DEF AddMissing, Goto, Keeps, Hand, env, call, NoOp, NoSeen, Ends, PlaceInv, PlaceOf, Seen, TypeInv,
       CallType, SeenType
<1>16. CASE Activate(c)
  <2>1. seen' = seen \/ seen' = [seen EXCEPT ![c][Hand(c)] = None]
    BY <1>16 DEF Activate, OnlyTo, Keeps, Advance, Sent
  <2>2. pc'[c] # "idle" /\ pc[c] # "idle" /\ op' = op
    BY <1>16 DEF Activate, Goto, OnlyTo, Keeps, Advance, Sent, Hand, env, sup, ghost, TypeInv, CallType
  <2> QED BY <2>1, <2>2 DEF Seen, PlaceInv, PlaceOf, TypeInv, SeenType
<1>17. CASE Confirm(c)
  <2>1. seen' = seen \/ seen' = [seen EXCEPT ![c][Hand(c)] = None]
    BY <1>17 DEF Confirm, OnlyTo, Keeps, Advance
  <2>2. pc'[c] # "idle" /\ pc[c] # "idle" /\ op' = op
    BY <1>17 DEF Confirm, Goto, OnlyTo, Keeps, Advance, Hand, env, sup, ghost, Applied, TypeInv, CallType
  <2> QED BY <2>1, <2>2 DEF Seen, PlaceInv, PlaceOf, TypeInv, SeenType
<1>18. ASSUME NEW reuse \in BOOLEAN, StartProcess(c, reuse)
      PROVE  Seen(c)'
  <2>1. seen' = seen \/ seen' = [seen EXCEPT ![c][Hand(c)] = None]
    BY <1>18 DEF StartProcess, OnlyTo, Keeps, Advance
  <2>2. pc'[c] # "idle" /\ pc[c] # "idle" /\ op' = op
    BY <1>18 DEF StartProcess, Goto, OnlyTo, Keeps, Advance, Hand, env, sup, ghost, TypeInv, CallType
  <2> QED BY <2>1, <2>2 DEF Seen, PlaceInv, PlaceOf, TypeInv, SeenType
<1>19. ASSUME NEW reuse \in BOOLEAN, RestartProcess(c, reuse)
      PROVE  Seen(c)'
  <2>1. seen' = seen \/ seen' = [seen EXCEPT ![c][Hand(c)] = None]
    BY <1>19 DEF RestartProcess, OnlyTo, Keeps, Advance
  <2>2. pc'[c] # "idle" /\ pc[c] # "idle" /\ op' = op
    BY <1>19 DEF RestartProcess, Goto, OnlyTo, Keeps, Advance, Hand, env, sup, ghost, Applied, TypeInv, CallType
  <2> QED BY <2>1, <2>2 DEF Seen, PlaceInv, PlaceOf, TypeInv, SeenType
<1>20. ASSUME NEW reuse \in BOOLEAN, StartNamed(c, reuse)
      PROVE  Seen(c)'
  BY <1>20 DEF StartNamed, Goto, OnlyTo, Keeps, Hand, env, sup, call, ghost, NoOp, NoSeen, Ends, PlaceInv,
       PlaceOf, Seen, TypeInv, CallType, SeenType
<1>21. CASE StopRead(c)
  <2>1. todo[c] # <<>> => Hand(c) \in op[c].names
    BY <1>21, AtHand, AtWork DEF StopRead, PlaceInv, PlaceOf, PlacesOf, Verbs
  <2> QED BY <1>21, <2>1, AtWork DEF StopRead, OnlyTo, Goto, Keeps, PlaceInv, PlaceOf, PlacesOf, Verbs, Seen,
       TypeInv, CallType, SeenType
<1>22. CASE ProcessStop(c)
  BY <1>22 DEF ProcessStop, Goto, Hand, env, sup, call, ghost, NoOp, NoSeen, Ends, PlaceInv, PlaceOf, Seen,
       TypeInv, CallType, SeenType
<1>23. CASE StopCheck(c)
  BY <1>23 DEF StopCheck, Goto, OnlyTo, Keeps, Advance, Hand, env, sup, call, ghost, NoOp, NoSeen, Ends,
       PlaceInv, PlaceOf, Seen, TypeInv, CallType, SeenType
<1>24. CASE StackDown(c)
  BY <1>24 DEF StackDown, Goto, OnlyTo, Keeps, Hand, env, sup, call, ghost, NoOp, NoSeen, Ends, PlaceInv,
       PlaceOf, Seen, TypeInv, CallType, SeenType
<1>25. CASE Kill(c)
  BY <1>25 DEF Kill, Goto, OnlyTo, Keeps, Hand, env, sup, call, ghost, NoOp, NoSeen, Ends, PlaceInv, PlaceOf,
       Seen, TypeInv, CallType, SeenType
<1>26. CASE Poll(c)
  BY <1>26 DEF Poll, Goto, OnlyTo, Keeps, Hand, env, sup, call, ghost, NoOp, NoSeen, Ends, PlaceInv, PlaceOf,
       Seen, TypeInv, CallType, SeenType
<1> QED BY <1>1, <1>2, <1>3, <1>4, <1>5, <1>6, <1>7, <1>8, <1>9, <1>10, <1>11, <1>12, <1>13, <1>14, <1>15,
     <1>16, <1>17, <1>18, <1>19, <1>20, <1>21, <1>22, <1>23, <1>24, <1>25, <1>26 DEF Asks

LEMMA CompiledOwn ==
  ASSUME TypeInv, PlaceInv, EntryInv, RestartInv, NEW c \in Clients, Asks(c) \/ Poll(c)
  PROVE  Compiled(c)'
<1>1. ASSUME NEW r \in Requests, Begin(c, r)
      PROVE  Compiled(c)'
  BY <1>1 DEF Begin, Goto, sup, Ends, PlaceInv, PlaceOf, Compiled, TypeInv, CallType
<1>2. CASE Rest(c)
  BY <1>2 DEF Rest, Goto, sup, Ends, PlaceInv, PlaceOf, Compiled, TypeInv, CallType
<1>3. CASE Prepare(c)
  BY <1>3, Facts DEF Prepare, Goto, Compiled, TypeInv, EnvType, CallType
<1>4. CASE PrepareRun(c)
  BY <1>4, Facts DEF PrepareRun, Goto, Compiled, TypeInv, EnvType, CallType
<1>5. CASE LoadStack(c)
  BY <1>5 DEF LoadStack, Goto, env, sup, ghost, Ends, PlaceInv, PlaceOf, Compiled, TypeInv, CallType
<1>6. CASE Probe(c)
  BY <1>6 DEF Probe, Goto, Keeps, env, sup, ghost, Ends, PlaceInv, PlaceOf, Compiled, TypeInv, CallType
<1>7. CASE UpDaemon(c)
  BY <1>7 DEF UpDaemon, Goto, OnlyTo, Keeps, env, sup, ghost, Ends, PlaceInv, PlaceOf, Compiled, TypeInv,
       CallType
<1>8. CASE AwaitSupervisor(c)
  BY <1>8 DEF AwaitSupervisor, Goto, OnlyTo, Keeps, env, sup, ghost, Ends, PlaceInv, PlaceOf, Compiled,
       TypeInv, CallType
<1>9. CASE ReadFile(c)
  BY <1>9 DEF ReadFile, Goto, OnlyTo, Keeps, env, sup, ghost, Ends, PlaceInv, PlaceOf, Compiled, TypeInv,
       CallType
<1>10. CASE UpRead(c)
  BY <1>10 DEF UpRead, Goto, OnlyTo, Keeps, env, sup, ghost, Ends, PlaceInv, PlaceOf, Compiled, TypeInv,
       CallType
<1>11. CASE UpLeaves(c)
  BY <1>11 DEF UpLeaves, Goto, OnlyTo, Keeps, Advance, Hand, env, sup, ghost, Ends, PlaceInv, PlaceOf,
       Compiled, TypeInv, CallType
<1>12. CASE ReadBaseline(c)
  BY <1>12 DEF ReadBaseline, Goto, OnlyTo, Keeps, Hand, env, sup, ghost, Ends, PlaceInv, PlaceOf, Compiled,
       TypeInv, CallType
<1>13. CASE ReadBefore(c)
  BY <1>13 DEF ReadBefore, Goto, OnlyTo, Keeps, Hand, env, sup, ghost, Ends, PlaceInv, PlaceOf, Compiled,
       TypeInv, CallType
<1>14. ASSUME NEW posted \in BOOLEAN, UpdateProcess(c, posted)
      PROVE  Compiled(c)'
  <2>1. (pc'[c] = "before" => op[c].verb = "restart") /\ pc'[c] \notin {"load", "baseline"} /\ UNCHANGED ver
    BY <1>14, AtWork DEF UpdateProcess, Goto, OnlyTo, Keeps, Advance, Sent, Hand, env, sup, ghost, Posts,
         PlacesOf, Verbs, TypeInv, CallType
  <2>2. pc[c] \in {"confirm", "restart"} /\ op[c].verb = "restart" => ver[c] # 0
    BY DEF RestartInv, RestartOf, Renews
  <2>3. pc'[c] = "before" => pc[c] \in {"confirm", "restart"}
    BY <1>14 DEF UpdateProcess, Goto, OnlyTo, Keeps, Advance, Sent, Hand, env, sup, ghost, Posts, TypeInv,
         CallType
  <2> QED BY <2>1, <2>2, <2>3 DEF Compiled
<1>15. ASSUME NEW P \in SUBSET Procs, AddMissing(c, P)
      PROVE  Compiled(c)'
  BY <1>15 DEF AddMissing, Goto, Keeps, Hand, env, Ends, PlaceInv, PlaceOf, Compiled, TypeInv, CallType
<1>16. CASE Activate(c)
  <2>1. (pc'[c] = "before" => op[c].verb = "restart") /\ pc'[c] \notin {"load", "baseline"} /\ UNCHANGED ver
    BY <1>16, AtWork DEF Activate, Goto, OnlyTo, Keeps, Advance, Sent, Hand, env, sup, ghost, PlacesOf, Verbs,
         TypeInv, CallType
  <2>2. pc[c] \in {"confirm", "restart"} /\ op[c].verb = "restart" => ver[c] # 0
    BY DEF RestartInv, RestartOf, Renews
  <2>3. pc'[c] = "before" => pc[c] \in {"confirm", "restart"}
    BY <1>16 DEF Activate, Goto, OnlyTo, Keeps, Advance, Sent, Hand, env, sup, ghost, TypeInv, CallType
  <2> QED BY <2>1, <2>2, <2>3 DEF Compiled
<1>17. CASE Confirm(c)
  <2>1. (pc'[c] = "before" => op[c].verb = "restart") /\ pc'[c] \notin {"load", "baseline"} /\ UNCHANGED ver
    BY <1>17, AtWork DEF Confirm, Goto, OnlyTo, Keeps, Advance, Hand, env, sup, ghost, Applied, PlacesOf,
         Verbs, TypeInv, CallType
  <2>2. pc[c] \in {"confirm", "restart"} /\ op[c].verb = "restart" => ver[c] # 0
    BY DEF RestartInv, RestartOf, Renews
  <2>3. pc'[c] = "before" => pc[c] \in {"confirm", "restart"}
    BY <1>17 DEF Confirm, Goto, OnlyTo, Keeps, Advance, Hand, env, sup, ghost, Applied, TypeInv, CallType
  <2> QED BY <2>1, <2>2, <2>3 DEF Compiled
<1>18. ASSUME NEW reuse \in BOOLEAN, StartProcess(c, reuse)
      PROVE  Compiled(c)'
  BY <1>18 DEF StartProcess, Goto, OnlyTo, Keeps, Advance, Hand, env, sup, ghost, Ends, PlaceInv, PlaceOf,
       Compiled, TypeInv, CallType
<1>19. ASSUME NEW reuse \in BOOLEAN, RestartProcess(c, reuse)
      PROVE  Compiled(c)'
  <2>1. (pc'[c] = "before" => op[c].verb = "restart") /\ pc'[c] \notin {"load", "baseline"} /\ UNCHANGED ver
    BY <1>19, AtWork DEF RestartProcess, Goto, OnlyTo, Keeps, Advance, Hand, env, sup, ghost, Applied,
         PlacesOf, Verbs, TypeInv, CallType
  <2>2. pc[c] \in {"confirm", "restart"} /\ op[c].verb = "restart" => ver[c] # 0
    BY DEF RestartInv, RestartOf, Renews
  <2>3. pc'[c] = "before" => pc[c] \in {"confirm", "restart"}
    BY <1>19 DEF RestartProcess, Goto, OnlyTo, Keeps, Advance, Hand, env, sup, ghost, Applied, TypeInv, CallType
  <2> QED BY <2>1, <2>2, <2>3 DEF Compiled
<1>20. ASSUME NEW reuse \in BOOLEAN, StartNamed(c, reuse)
      PROVE  Compiled(c)'
  BY <1>20 DEF StartNamed, Goto, OnlyTo, Keeps, env, sup, ghost, Ends, PlaceInv, PlaceOf, Compiled, TypeInv,
       CallType
<1>21. CASE StopRead(c)
  BY <1>21 DEF StopRead, Goto, OnlyTo, Keeps, Hand, env, sup, ghost, Ends, PlaceInv, PlaceOf, Compiled,
       TypeInv, CallType
<1>22. CASE ProcessStop(c)
  BY <1>22 DEF ProcessStop, Goto, env, sup, ghost, Ends, PlaceInv, PlaceOf, Compiled, TypeInv, CallType
<1>23. CASE StopCheck(c)
  BY <1>23 DEF StopCheck, Goto, OnlyTo, Keeps, Advance, Hand, env, sup, ghost, Ends, PlaceInv, PlaceOf,
       Compiled, TypeInv, CallType
<1>24. CASE StackDown(c)
  BY <1>24 DEF StackDown, Goto, OnlyTo, Keeps, env, sup, ghost, Ends, PlaceInv, PlaceOf, Compiled, TypeInv,
       CallType
<1>25. CASE Kill(c)
  BY <1>25 DEF Kill, Goto, OnlyTo, Keeps, env, sup, ghost, Ends, PlaceInv, PlaceOf, Compiled, TypeInv, CallType
<1>26. CASE Poll(c)
  BY <1>26 DEF Poll, Goto, OnlyTo, Keeps, env, sup, ghost, Ends, PlaceInv, PlaceOf, Compiled, TypeInv, CallType
<1> QED BY <1>1, <1>2, <1>3, <1>4, <1>5, <1>6, <1>7, <1>8, <1>9, <1>10, <1>11, <1>12, <1>13, <1>14, <1>15,
     <1>16, <1>17, <1>18, <1>19, <1>20, <1>21, <1>22, <1>23, <1>24, <1>25, <1>26 DEF Asks

LEMMA PlaceStep ==
  ASSUME TypeInv, PlaceInv, EntryInv, RestartInv, [Next]_vars
  PROVE  PlaceInv'
<1>1. ASSUME NEW d \in Clients, Foreign(d), root' = root \/ root # d PROVE PlaceOf(d)'
  BY <1>1 DEF Foreign, Same, PlaceInv, PlaceOf
<1>2. CASE World
  BY <1>1, <1>2 DEF World, PlaceInv
<1>3. ASSUME NEW c \in Clients, Asks(c) \/ Poll(c), \A d \in Clients \ {c} : Foreign(d)
      PROVE  PlaceInv'
  <2>1. PlaceOf(c)'
    BY <1>3, PlacedOwn, HandedOwn, SeenOwn, CompiledOwn DEF Placed, Handed, Seen, Compiled, PlaceOf
  <2>2. root' = root \/ root = None \/ root = c
    BY <1>3, RootStep
  <2>3. \A d \in Clients \ {c} : PlaceOf(d)'
    BY <1>1, <1>3, <2>2, Facts
  <2> QED BY <2>1, <2>3 DEF PlaceInv
<1> QED BY <1>2, <1>3, EveryStep DEF AnyStep

-----------------------------------------------------------------------------
(* A stop that reports success.                                               *)

StopWork(c) == \/ Prepare(c) \/ LoadStack(c) \/ Probe(c) \/ StopRead(c) \/ ProcessStop(c)
               \/ StopCheck(c) \/ Kill(c)

LEMMA StopSteps ==
  ASSUME TypeInv, PlaceInv, EntryInv, NEW c \in Clients, Asks(c) \/ Poll(c)
  PROVE  Stops(c)' => (\E q \in Requests : Begin(c, q)) \/ (Stops(c) /\ StopWork(c))
<1>1. ASSUME NEW r \in Requests, Begin(c, r)
      PROVE  Stops(c)' => (\E q \in Requests : Begin(c, q)) \/ (Stops(c) /\ StopWork(c))
  BY <1>1
<1>2. CASE Rest(c)
  <2>1. pc'[c] = "idle"
    BY <1>2 DEF Rest, Goto, TypeInv, CallType
  <2> QED BY <2>1 DEF Stops
<1>3. CASE Prepare(c)
  <2>1. op' = op /\ pc[c] # "idle"
    BY <1>3 DEF Prepare, Goto, sup, ghost
  <2> QED BY <1>3, <2>1 DEF Stops, StopWork
<1>4. CASE PrepareRun(c)
  <2>1. op' = op /\ op[c].verb # "stop"
    BY <1>4, AtWork DEF PrepareRun, Goto, sup, ghost, PlacesOf, Verbs
  <2> QED BY <2>1 DEF Stops
<1>5. CASE LoadStack(c)
  <2>1. op' = op /\ pc[c] # "idle"
    BY <1>5 DEF LoadStack, Goto, env, sup, ghost
  <2> QED BY <1>5, <2>1 DEF Stops, StopWork
<1>6. CASE Probe(c)
  <2>1. op' = op /\ pc[c] # "idle"
    BY <1>6 DEF Probe, Goto, Keeps, env, sup, ghost
  <2> QED BY <1>6, <2>1 DEF Stops, StopWork
<1>7. CASE UpDaemon(c)
  <2>1. op' = op /\ op[c].verb # "stop"
    BY <1>7, AtWork DEF UpDaemon, Goto, OnlyTo, Keeps, env, sup, ghost, PlacesOf, Verbs
  <2> QED BY <2>1 DEF Stops
<1>8. CASE AwaitSupervisor(c)
  <2>1. op' = op /\ op[c].verb # "stop"
    BY <1>8, AtWork DEF AwaitSupervisor, Goto, OnlyTo, Keeps, env, sup, ghost, PlacesOf, Verbs
  <2> QED BY <2>1 DEF Stops
<1>9. CASE ReadFile(c)
  <2>1. op' = op /\ op[c].verb # "stop"
    BY <1>9, AtWork DEF ReadFile, Goto, OnlyTo, Keeps, env, sup, ghost, PlacesOf, Verbs
  <2> QED BY <2>1 DEF Stops
<1>10. CASE UpRead(c)
  <2>1. op' = op /\ op[c].verb # "stop"
    BY <1>10, AtWork DEF UpRead, Goto, OnlyTo, Keeps, env, sup, ghost, PlacesOf, Verbs
  <2> QED BY <2>1 DEF Stops
<1>11. CASE UpLeaves(c)
  <2>1. op' = op /\ op[c].verb # "stop"
    BY <1>11, AtWork DEF UpLeaves, Goto, OnlyTo, Keeps, Advance, Hand, env, sup, ghost, PlacesOf, Verbs
  <2> QED BY <2>1 DEF Stops
<1>12. CASE ReadBaseline(c)
  <2>1. op' = op /\ op[c].verb # "stop"
    BY <1>12, AtWork DEF ReadBaseline, Goto, OnlyTo, Keeps, Hand, env, sup, ghost, PlacesOf, Verbs
  <2> QED BY <2>1 DEF Stops
<1>13. CASE ReadBefore(c)
  <2>1. op' = op /\ op[c].verb # "stop"
    BY <1>13, AtWork DEF ReadBefore, Goto, OnlyTo, Keeps, Hand, env, sup, ghost, PlacesOf, Verbs
  <2> QED BY <2>1 DEF Stops
<1>14. ASSUME NEW posted \in BOOLEAN, UpdateProcess(c, posted)
      PROVE  Stops(c)' => (\E q \in Requests : Begin(c, q)) \/ (Stops(c) /\ StopWork(c))
  <2>1. op' = op /\ op[c].verb # "stop"
    BY <1>14, AtWork DEF UpdateProcess, Goto, OnlyTo, Keeps, Advance, Sent, Hand, env, sup, ghost, Posts,
         PlacesOf, Verbs
  <2> QED BY <2>1 DEF Stops
<1>15. ASSUME NEW P \in SUBSET Procs, AddMissing(c, P)
      PROVE  Stops(c)' => (\E q \in Requests : Begin(c, q)) \/ (Stops(c) /\ StopWork(c))
  <2>1. op' = op /\ op[c].verb # "stop"
    BY <1>15, AtWork DEF AddMissing, Goto, Keeps, Hand, env, Posts, PlacesOf, Verbs
  <2> QED BY <2>1 DEF Stops
<1>16. CASE Activate(c)
  <2>1. op' = op /\ op[c].verb # "stop"
    BY <1>16, AtWork DEF Activate, Goto, OnlyTo, Keeps, Advance, Sent, Hand, env, sup, ghost, PlacesOf, Verbs
  <2> QED BY <2>1 DEF Stops
<1>17. CASE Confirm(c)
  <2>1. op' = op /\ op[c].verb # "stop"
    BY <1>17, AtWork DEF Confirm, Goto, OnlyTo, Keeps, Advance, Hand, env, sup, ghost, PlacesOf, Verbs
  <2> QED BY <2>1 DEF Stops
<1>18. ASSUME NEW reuse \in BOOLEAN, StartProcess(c, reuse)
      PROVE  Stops(c)' => (\E q \in Requests : Begin(c, q)) \/ (Stops(c) /\ StopWork(c))
  <2>1. op' = op /\ op[c].verb # "stop"
    BY <1>18, AtWork DEF StartProcess, Goto, OnlyTo, Keeps, Advance, Hand, env, sup, ghost, PlacesOf, Verbs
  <2> QED BY <2>1 DEF Stops
<1>19. ASSUME NEW reuse \in BOOLEAN, RestartProcess(c, reuse)
      PROVE  Stops(c)' => (\E q \in Requests : Begin(c, q)) \/ (Stops(c) /\ StopWork(c))
  <2>1. op' = op /\ op[c].verb # "stop"
    BY <1>19, AtWork DEF RestartProcess, Goto, OnlyTo, Keeps, Advance, Hand, env, sup, ghost, PlacesOf, Verbs
  <2> QED BY <2>1 DEF Stops
<1>20. ASSUME NEW reuse \in BOOLEAN, StartNamed(c, reuse)
      PROVE  Stops(c)' => (\E q \in Requests : Begin(c, q)) \/ (Stops(c) /\ StopWork(c))
  <2>1. op' = op /\ op[c].verb # "stop"
    BY <1>20, AtWork DEF StartNamed, Goto, OnlyTo, Keeps, env, sup, ghost, PlacesOf, Verbs
  <2> QED BY <2>1 DEF Stops
<1>21. CASE StopRead(c)
  <2>1. op' = op /\ pc[c] # "idle"
    BY <1>21 DEF StopRead, Goto, OnlyTo, Keeps, Hand, env, sup, ghost
  <2> QED BY <1>21, <2>1 DEF Stops, StopWork
<1>22. CASE ProcessStop(c)
  <2>1. op' = op /\ pc[c] # "idle"
    BY <1>22 DEF ProcessStop, Goto, env, sup, ghost
  <2> QED BY <1>22, <2>1 DEF Stops, StopWork
<1>23. CASE StopCheck(c)
  <2>1. op' = op /\ pc[c] # "idle"
    BY <1>23 DEF StopCheck, Goto, OnlyTo, Keeps, Advance, Hand, env, sup, ghost
  <2> QED BY <1>23, <2>1 DEF Stops, StopWork
<1>24. CASE StackDown(c)
  <2>1. op' = op /\ op[c].verb # "stop"
    BY <1>24, AtWork DEF StackDown, Goto, OnlyTo, Keeps, env, sup, ghost, PlacesOf, Verbs
  <2> QED BY <2>1 DEF Stops
<1>25. CASE Kill(c)
  <2>1. op' = op /\ pc[c] # "idle"
    BY <1>25 DEF Kill, Goto, OnlyTo, Keeps, env, sup, ghost
  <2> QED BY <1>25, <2>1 DEF Stops, StopWork
<1>26. CASE Poll(c)
  <2>1. op' = op /\ op[c].verb # "stop"
    BY <1>26, AtWork DEF Poll, Goto, OnlyTo, Keeps, env, sup, ghost, PlacesOf, Verbs
  <2> QED BY <2>1 DEF Stops
<1> QED BY <1>1, <1>2, <1>3, <1>4, <1>5, <1>6, <1>7, <1>8, <1>9, <1>10, <1>11, <1>12, <1>13, <1>14, <1>15,
     <1>16, <1>17, <1>18, <1>19, <1>20, <1>21, <1>22, <1>23, <1>24, <1>25, <1>26 DEF Asks

LEMMA StopQuiet ==
  ASSUME TypeInv, PlaceInv, EntryInv, NEW c \in Clients, StopWork(c)
  PROVE  /\ op' = op /\ touched[c] \subseteq touched'[c]
         /\ \A p \in Procs : proc'[p] = proc[p] \/ Down(proc'[p])
<1>1. CASE ProcessStop(c)
  BY <1>1, StopAsks DEF ProcessStop
<1>2. CASE StopRead(c)
  <2>1. UNCHANGED <<op, proc>>
    BY <1>2 DEF StopRead, OnlyTo, Keeps, sup
  <2>2. touched[c] \subseteq touched'[c]
    BY <1>2 DEF StopRead, OnlyTo, ghost, TypeInv, CallType
  <2> QED BY <2>1, <2>2
<1>3. CASE ~ProcessStop(c) /\ ~StopRead(c)
  <2>1. UNCHANGED <<op, touched, proc>>
    BY <1>3 DEF StopWork, Prepare, LoadStack, Probe, StopCheck, Kill, OnlyTo, Keeps, Advance, sup, ghost
  <2> QED BY <2>1
<1> QED BY <1>1, <1>2, <1>3

LEMMA NamesTyped ==
  ASSUME TypeInv, NEW c \in Clients PROVE op[c].names \subseteq Procs
<1>1. CASE op[c] \in Requests
  BY <1>1, Facts
<1>2. CASE op[c] = NoOp
  <2>1. NoOp.names = {}
    BY DEF NoOp
  <2> QED BY <1>2, <2>1
<1> QED BY <1>1, <1>2 DEF TypeInv, CallType

LEMMA Stays ==
  ASSUME NEW d \in Clients, Foreign(d), pc[d] # "idle", NEW p \in Procs, p \notin touched'[d]
  PROVE  Kept(p) \/ Itself(p)
  BY DEF Foreign, Asked

LEMMA DownStays ==
  ASSUME NEW p \in Procs, Kept(p) \/ Itself(p), Down(proc[p]) PROVE Down(proc'[p])
  BY DEF Kept, Itself, Down, Live

LEMMA RestedStays ==
  ASSUME NEW p \in Procs, Kept(p) \/ Itself(p), Rested(proc[p]) PROVE Rested(proc'[p])
  BY DEF Kept, Itself, Rested

LEMMA StoppedIsDown ==
  ASSUME EntryInv, NEW p \in Procs, proc[p].st = "absent" \/ (AlreadyStopped(proc[p]) /\ Rested(proc[p]))
  PROVE  Down(proc[p])
<1>1. CASE proc[p].st = "absent"
  BY <1>1 DEF EntryInv, EntryOk, Absent, Down
<1>2. CASE AlreadyStopped(proc[p]) /\ Rested(proc[p])
  BY <1>2 DEF Rested, AlreadyStopped, AtRest, Terminal, Down
<1> QED BY <1>1, <1>2

LEMMA StopOwn ==
  ASSUME TypeInv, PlaceInv, EntryInv, StopInv, NEW c \in Clients, Stops(c), StopWork(c)
  PROVE  StopOf(c)'
<1>0. /\ op' = op /\ touched[c] \subseteq touched'[c] /\ op[c].names \subseteq Procs
      /\ \A p \in Procs : proc'[p] = proc[p] \/ Down(proc'[p])
  BY StopQuiet, NamesTyped
<1> SUFFICES ASSUME NEW p \in op[c].names \ touched'[c]
             PROVE  /\ pc'[c] = "probe" => p \in ToSet(todo'[c])
                    /\ pc'[c] = "stop_read" => \/ p \in ToSet(todo'[c])
                                               \/ seen'[c][p] # None /\ Rested(proc'[p])
                                               \/ Down(proc'[p])
                    /\ pc'[c] = "stop" => (seen'[c][p] # None /\ Rested(proc'[p])) \/ Down(proc'[p])
                    /\ pc'[c] = "stop_check" => (p \in ToSet(todo'[c]) /\ Rested(proc'[p])) \/ Down(proc'[p])
                    /\ pc'[c] = "ok" => Down(proc'[p])
  BY <1>0 DEF StopOf
<1>00. p \in Procs /\ (proc'[p] = proc[p] \/ Down(proc'[p])) /\ op[c].verb = "stop" /\ pc[c] # "idle"
  BY <1>0 DEF Stops
<1>01. /\ pc[c] = "probe" => p \in ToSet(todo[c])
       /\ pc[c] = "stop_read" => \/ p \in ToSet(todo[c])
                                 \/ seen[c][p] # None /\ Rested(proc[p])
                                 \/ Down(proc[p])
       /\ pc[c] = "stop" => (seen[c][p] # None /\ Rested(proc[p])) \/ Down(proc[p])
       /\ pc[c] = "stop_check" => (p \in ToSet(todo[c]) /\ Rested(proc[p])) \/ Down(proc[p])
  BY <1>0 DEF StopInv, StopOf
<1>02. ~serving => Down(proc[p])
  BY <1>00 DEF EntryInv, Absent, Down
<1>03. proc[p].st = "absent" \/ (AlreadyStopped(proc[p]) /\ Rested(proc[p])) => Down(proc[p])
  BY <1>00, StoppedIsDown
<1>06. /\ Down(proc[p]) => Rested(proc[p])
       /\ Down(proc'[p]) => Rested(proc'[p])
  BY DEF Down, Rested
<1>04. ToSet(<<>>) = {}
  BY DEF ToSet
<1>05. proc[p] # None
  BY <1>00, Facts DEF TypeInv, SupType
<1> USE DEF TypeInv, CallType, TodoType, SeenType
<1>1. CASE Prepare(c)
  BY <1>1 DEF Prepare, Goto
<1>2. CASE LoadStack(c)
  <2>1. ToSet(SetToSeq(op[c].names)) = op[c].names
    BY <1>0, NamesAsSeq
  <2> QED BY <1>00, <1>2, <2>1 DEF LoadStack, Goto
<1>3. CASE Probe(c)
  BY <1>00, <1>01, <1>02, <1>3 DEF Probe, Goto, Keeps, sup
<1>4. CASE StopRead(c)
  <2>0. pc[c] = "stop_read" /\ proc' = proc
    BY <1>4 DEF StopRead, OnlyTo, sup
  <2>1. CASE todo[c] = <<>>
    <3>1. /\ seen[c] = NoSeen => Goto(c, "ok")
          /\ seen[c] # NoSeen => Goto(c, "stop")
          /\ seen' = seen
      BY <1>4, <2>1 DEF StopRead, OnlyTo, Keeps
    <3>2. seen[c] = NoSeen => seen[c][p] = None
      BY <1>00 DEF NoSeen
    <3> QED BY <1>01, <1>04, <2>0, <2>1, <3>1, <3>2 DEF Goto
  <2>2. CASE todo[c] # <<>> /\ ~serving
    BY <1>4, <2>2 DEF StopRead, OnlyTo, Goto
  <2>3. CASE todo[c] # <<>> /\ serving
    <3>1. /\ seen' = [seen EXCEPT ![c][Hand(c)] = IF proc[Hand(c)].st = "absent" \/ AlreadyStopped(proc[Hand(c)])
                                                  THEN None ELSE proc[Hand(c)]]
          /\ todo' = [todo EXCEPT ![c] = Tail(@)] /\ pc' = pc
          /\ touched' = [touched EXCEPT ![c] = @ \cup
               {q \in {Hand(c)} : AlreadyStopped(proc[q]) /\ proc[q].due # "no"}]
      BY <1>4, <2>3 DEF StopRead
    <3>2. \A x \in ToSet(todo[c]) : x = Hand(c) \/ x \in ToSet(Tail(todo[c]))
      BY <2>3, AtHand
    <3>3. CASE p = Hand(c)
      <4>1. AlreadyStopped(proc[p]) => proc[p].due = "no"
        BY <3>1, <3>3
      <4>2. proc[p].st = "absent" \/ AlreadyStopped(proc[p]) => Down(proc[p])
        BY <1>03, <4>1 DEF Rested
      <4>3. ~AlreadyStopped(proc[p]) => Rested(proc[p])
        BY DEF Rested, AlreadyStopped, AtRest, Terminal
      <4>4. ~(proc[p].st = "absent" \/ AlreadyStopped(proc[p])) => seen'[c][p] # None
        BY <1>00, <1>05, <3>1, <3>3
      <4> QED BY ONLY <2>0, <3>1, <4>2, <4>3, <4>4
    <3>4. CASE p # Hand(c)
      <4>1. seen'[c][p] = seen[c][p] /\ todo'[c] = Tail(todo[c])
        BY <1>00, <3>1, <3>4
      <4> QED BY ONLY <1>01, <2>0, <3>1, <3>2, <3>4, <4>1
    <3> QED BY <3>3, <3>4
  <2> QED BY <2>1, <2>2, <2>3
<1>5. CASE ProcessStop(c)
  <2>1. /\ pc[c] = "stop"
        /\ pc'[c] = "ok" \/ (pc'[c] = "stop_check" /\ todo'[c] = SetToSeq(op[c].names))
    BY <1>5 DEF ProcessStop, Goto
  <2>2. ToSet(SetToSeq(op[c].names)) = op[c].names
    BY <1>0, NamesAsSeq
  <2>3. pc'[c] = "ok" /\ seen[c][p] # None => Down(proc'[p])
    BY <1>00, <1>5, StopAsks
  <2>4. Rested(proc'[p])
    BY <1>00, <1>01, <1>06, <2>1
  <2> QED BY <1>00, <1>01, <2>1, <2>2, <2>3, <2>4
<1>6. CASE StopCheck(c)
  <2>0. pc[c] = "stop_check" /\ proc' = proc
    BY <1>6 DEF StopCheck, OnlyTo, sup
  <2>1. CASE ~serving \/ todo[c] = <<>>
    BY <1>01, <1>02, <1>04, <1>6, <2>0, <2>1 DEF StopCheck, OnlyTo, Goto
  <2>2. CASE ~(~serving \/ todo[c] = <<>>)
    <3>1. \A x \in ToSet(todo[c]) : x = Hand(c) \/ x \in ToSet(Tail(todo[c]))
      BY <2>2, AtHand
    <3> QED BY <1>01, <1>03, <1>6, <2>0, <2>2, <3>1 DEF StopCheck, OnlyTo, Advance, Goto, Now
  <2> QED BY <2>1, <2>2
<1>7. CASE Kill(c)
  BY <1>7 DEF Kill, OnlyTo, Goto
<1> QED BY <1>1, <1>2, <1>3, <1>4, <1>5, <1>6, <1>7 DEF StopWork

LEMMA StopStep ==
  ASSUME TypeInv, PlaceInv, EntryInv, StopInv, [Next]_vars
  PROVE  StopInv'
<1>1. ASSUME NEW d \in Clients, Foreign(d) PROVE StopOf(d)'
  <2> SUFFICES ASSUME Stops(d)', NEW p \in op'[d].names \ touched'[d]
               PROVE  /\ pc'[d] = "probe" => p \in ToSet(todo'[d])
                      /\ pc'[d] = "stop_read" => \/ p \in ToSet(todo'[d])
                                                 \/ seen'[d][p] # None /\ Rested(proc'[p])
                                                 \/ Down(proc'[p])
                      /\ pc'[d] = "stop" => (seen'[d][p] # None /\ Rested(proc'[p])) \/ Down(proc'[p])
                      /\ pc'[d] = "stop_check" => (p \in ToSet(todo'[d]) /\ Rested(proc'[p])) \/ Down(proc'[p])
                      /\ pc'[d] = "ok" => Down(proc'[p])
    BY DEF StopOf
  <2>1. /\ Stops(d) /\ touched[d] \subseteq touched'[d] /\ op'[d] = op[d] /\ pc'[d] = pc[d]
        /\ todo'[d] = todo[d] /\ seen'[d] = seen[d] /\ pc[d] # "idle"
    BY <1>1 DEF Foreign, Same, Stops
  <2>2. p \in Procs /\ p \in op[d].names \ touched[d]
    BY <2>1, NamesTyped
  <2>3. /\ Down(proc[p]) => Down(proc'[p])
        /\ Rested(proc[p]) => Rested(proc'[p])
    BY <1>1, <2>1, <2>2, Stays, DownStays, RestedStays
  <2>4. /\ pc[d] = "probe" => p \in ToSet(todo[d])
        /\ pc[d] = "stop_read" => \/ p \in ToSet(todo[d])
                                  \/ seen[d][p] # None /\ Rested(proc[p])
                                  \/ Down(proc[p])
        /\ pc[d] = "stop" => (seen[d][p] # None /\ Rested(proc[p])) \/ Down(proc[p])
        /\ pc[d] = "stop_check" => (p \in ToSet(todo[d]) /\ Rested(proc[p])) \/ Down(proc[p])
        /\ pc[d] = "ok" => Down(proc[p])
    BY <2>1, <2>2 DEF StopInv, StopOf
  <2> QED BY ONLY <2>1, <2>3, <2>4
<1>2. ASSUME NEW c \in Clients, Asks(c) \/ Poll(c) PROVE StopOf(c)'
  <2>1. CASE \E r \in Requests : Begin(c, r)
    <3>1. pc'[c] \in {"lock", "down"}
      BY <2>1 DEF Begin, Goto, TypeInv, CallType
    <3> QED BY <3>1 DEF StopOf
  <2>2. CASE Stops(c) /\ StopWork(c)
    BY <2>2, StopOwn
  <2>3. CASE ~Stops(c)'
    BY <2>3 DEF StopOf
  <2> QED BY <1>2, <2>1, <2>2, <2>3, StopSteps
<1> QED BY <1>1, <1>2, EveryStep DEF AnyStep, World, StopInv

-----------------------------------------------------------------------------
(* A restart that is done.                                                    *)

LEMMA SinceStays ==
  ASSUME TypeInv, EntryInv, NEW p \in Procs, Kept(p) \/ Itself(p),
         NEW s, s.pid \in Nat, s.pid <= runs[p], Since(s, proc[p])
  PROVE  Since(s, proc'[p])
<1>0. EntryOk(proc[p]) /\ proc[p].pid \in Nat /\ runs[p] \in Nat
  BY NowTyped DEF TypeInv, SupType
<1>1. CASE Kept(p)
  BY <1>1 DEF Kept
<1>2. CASE Itself(p)
  <2>1. Live(proc[p]) => proc[p].due = "no" /\ proc[p] # Absent
    BY <1>0 DEF EntryOk, Live, Absent
  <2> QED BY <1>0, <1>2, <2>1 DEF Itself, Since, Terminal, Live
<1> QED BY <1>1, <1>2

LEMMA ReplacedSays ==
  ASSUME NEW v, NEW dis \in BOOLEAN, NEW who \in Dues
  PROVE  /\ Replaced(v, dis, who).ver = v
         /\ Replaced(v, dis, who).st = "disabled" \/ Replaced(v, dis, who).due # "no"
<1>1. CASE dis
  BY <1>1 DEF Replaced, Pending
<1>2. CASE ~dis
  BY <1>2 DEF Replaced, Pending, Dues
<1> QED BY <1>1, <1>2

LEMMA RunsGrow ==
  ASSUME TypeInv, PlaceInv, EntryInv, [Next]_vars, NEW p \in Procs
  PROVE  runs[p] <= runs'[p] /\ runs[p] \in Nat /\ runs'[p] \in Nat
<1>1. runs[p] \in Nat /\ runs'[p] \in Nat
  BY EveryStep DEF AnyStep, TypeInv, SupType
<1>2. runs'[p] = runs[p] \/ runs'[p] = runs[p] + 1
  BY EveryStep DEF AnyStep, Kept, Itself, Asked
<1> QED BY <1>1, <1>2

LEMMA RenewSteps ==
  ASSUME TypeInv, PlaceInv, EntryInv, NEW c \in Clients, Asks(c) \/ Poll(c)
  PROVE  Renews(c)' => ReadBefore(c) \/ Activate(c) \/ Confirm(c)
                         \/ (\E b \in BOOLEAN : UpdateProcess(c, b))
                         \/ \E Q \in SUBSET Procs : AddMissing(c, Q)
<1>1. ASSUME NEW r \in Requests, Begin(c, r)
      PROVE  Renews(c)' => ReadBefore(c) \/ Activate(c) \/ Confirm(c)
                         \/ (\E b \in BOOLEAN : UpdateProcess(c, b))
                         \/ \E Q \in SUBSET Procs : AddMissing(c, Q)
  <2>1. pc'[c] \in {"lock", "down"}
    BY <1>1 DEF Begin, Goto, TypeInv, CallType
  <2> QED BY <2>1 DEF Renews
<1>2. CASE Rest(c)
  <2>1. pc'[c] \notin {"apply", "activate", "confirm", "restart"}
    BY <1>2, AtWork DEF Rest, Goto, sup, Ends, PlacesOf, Verbs, PlaceInv, PlaceOf, TypeInv, CallType
  <2> QED BY <2>1 DEF Renews
<1>3. CASE Prepare(c)
  <2>1. pc'[c] \notin {"apply", "activate", "confirm", "restart"}
    BY <1>3, AtWork DEF Prepare, Goto, sup, ghost, Ends, PlacesOf, Verbs, PlaceInv, PlaceOf, TypeInv, CallType
  <2> QED BY <2>1 DEF Renews
<1>4. CASE PrepareRun(c)
  <2>1. pc'[c] \notin {"apply", "activate", "confirm", "restart"}
    BY <1>4, AtWork DEF PrepareRun, Goto, sup, ghost, Ends, PlacesOf, Verbs, PlaceInv, PlaceOf, TypeInv,
         CallType
  <2> QED BY <2>1 DEF Renews
<1>5. CASE LoadStack(c)
  <2>1. pc'[c] \notin {"apply", "activate", "confirm", "restart"}
    BY <1>5, AtWork DEF LoadStack, Goto, env, sup, ghost, Ends, PlacesOf, Verbs, PlaceInv, PlaceOf, TypeInv,
         CallType
  <2> QED BY <2>1 DEF Renews
<1>6. CASE Probe(c)
  <2>1. pc'[c] \notin {"apply", "activate", "confirm", "restart"}
    BY <1>6, AtWork DEF Probe, Goto, Keeps, env, sup, ghost, Ends, PlacesOf, Verbs, PlaceInv, PlaceOf,
         TypeInv, CallType
  <2> QED BY <2>1 DEF Renews
<1>7. CASE UpDaemon(c)
  <2>1. pc'[c] \notin {"apply", "activate", "confirm", "restart"}
    BY <1>7, AtWork DEF UpDaemon, Goto, OnlyTo, Keeps, env, sup, ghost, Ends, PlacesOf, Verbs, PlaceInv,
         PlaceOf, TypeInv, CallType
  <2> QED BY <2>1 DEF Renews
<1>8. CASE AwaitSupervisor(c)
  <2>1. pc'[c] \notin {"apply", "activate", "confirm", "restart"}
    BY <1>8, AtWork DEF AwaitSupervisor, Goto, OnlyTo, Keeps, env, sup, ghost, Ends, PlacesOf, Verbs,
         PlaceInv, PlaceOf, TypeInv, CallType
  <2> QED BY <2>1 DEF Renews
<1>9. CASE ReadFile(c)
  <2>1. pc'[c] \notin {"apply", "activate", "confirm", "restart"}
    BY <1>9, AtWork DEF ReadFile, Goto, OnlyTo, Keeps, env, sup, ghost, Ends, PlacesOf, Verbs, PlaceInv,
         PlaceOf, TypeInv, CallType
  <2> QED BY <2>1 DEF Renews
<1>10. CASE UpRead(c)
  <2>1. pc'[c] \notin {"apply", "activate", "confirm", "restart"}
    BY <1>10, AtWork DEF UpRead, Goto, OnlyTo, Keeps, env, sup, ghost, Ends, PlacesOf, Verbs, PlaceInv,
         PlaceOf, TypeInv, CallType
  <2> QED BY <2>1 DEF Renews
<1>11. CASE UpLeaves(c)
  <2>1. pc'[c] \notin {"apply", "activate", "confirm", "restart"}
    BY <1>11, AtWork DEF UpLeaves, Goto, OnlyTo, Keeps, Advance, Hand, env, sup, ghost, Ends, PlacesOf, Verbs,
         PlaceInv, PlaceOf, TypeInv, CallType
  <2> QED BY <2>1 DEF Renews
<1>12. CASE ReadBaseline(c)
  <2>1. pc'[c] \notin {"apply", "activate", "confirm", "restart"}
    BY <1>12, AtWork DEF ReadBaseline, Goto, OnlyTo, Keeps, Hand, env, sup, ghost, Ends, PlacesOf, Verbs,
         PlaceInv, PlaceOf, TypeInv, CallType
  <2> QED BY <2>1 DEF Renews
<1>13. CASE ReadBefore(c)
  BY <1>13
<1>14. ASSUME NEW posted \in BOOLEAN, UpdateProcess(c, posted)
      PROVE  Renews(c)' => ReadBefore(c) \/ Activate(c) \/ Confirm(c)
                         \/ (\E b \in BOOLEAN : UpdateProcess(c, b))
                         \/ \E Q \in SUBSET Procs : AddMissing(c, Q)
  BY <1>14
<1>15. ASSUME NEW P \in SUBSET Procs, AddMissing(c, P)
      PROVE  Renews(c)' => ReadBefore(c) \/ Activate(c) \/ Confirm(c)
                         \/ (\E b \in BOOLEAN : UpdateProcess(c, b))
                         \/ \E Q \in SUBSET Procs : AddMissing(c, Q)
  BY <1>15
<1>16. CASE Activate(c)
  BY <1>16
<1>17. CASE Confirm(c)
  BY <1>17
<1>18. ASSUME NEW reuse \in BOOLEAN, StartProcess(c, reuse)
      PROVE  Renews(c)' => ReadBefore(c) \/ Activate(c) \/ Confirm(c)
                         \/ (\E b \in BOOLEAN : UpdateProcess(c, b))
                         \/ \E Q \in SUBSET Procs : AddMissing(c, Q)
  <2>1. pc'[c] \notin {"apply", "activate", "confirm", "restart"}
    BY <1>18, AtWork DEF StartProcess, Goto, OnlyTo, Keeps, Advance, Hand, env, sup, ghost, Ends, PlacesOf,
         Verbs, PlaceInv, PlaceOf, TypeInv, CallType
  <2> QED BY <2>1 DEF Renews
<1>19. ASSUME NEW reuse \in BOOLEAN, RestartProcess(c, reuse)
      PROVE  Renews(c)' => ReadBefore(c) \/ Activate(c) \/ Confirm(c)
                         \/ (\E b \in BOOLEAN : UpdateProcess(c, b))
                         \/ \E Q \in SUBSET Procs : AddMissing(c, Q)
  <2>1. pc'[c] \notin {"apply", "activate", "confirm", "restart"}
    BY <1>19, AtWork DEF RestartProcess, Goto, OnlyTo, Keeps, Advance, Hand, env, sup, ghost, Applied, Ends,
         PlacesOf, Verbs, PlaceInv, PlaceOf, TypeInv, CallType
  <2> QED BY <2>1 DEF Renews
<1>20. ASSUME NEW reuse \in BOOLEAN, StartNamed(c, reuse)
      PROVE  Renews(c)' => ReadBefore(c) \/ Activate(c) \/ Confirm(c)
                         \/ (\E b \in BOOLEAN : UpdateProcess(c, b))
                         \/ \E Q \in SUBSET Procs : AddMissing(c, Q)
  <2>1. pc'[c] \notin {"apply", "activate", "confirm", "restart"}
    BY <1>20, AtWork DEF StartNamed, Goto, OnlyTo, Keeps, env, sup, ghost, Ends, PlacesOf, Verbs, PlaceInv,
         PlaceOf, TypeInv, CallType
  <2> QED BY <2>1 DEF Renews
<1>21. CASE StopRead(c)
  <2>1. pc'[c] \notin {"apply", "activate", "confirm", "restart"}
    BY <1>21, AtWork DEF StopRead, Goto, OnlyTo, Keeps, Hand, env, sup, ghost, Ends, PlacesOf, Verbs,
         PlaceInv, PlaceOf, TypeInv, CallType
  <2> QED BY <2>1 DEF Renews
<1>22. CASE ProcessStop(c)
  <2>1. pc'[c] \notin {"apply", "activate", "confirm", "restart"}
    BY <1>22, AtWork DEF ProcessStop, Goto, env, sup, ghost, Ends, PlacesOf, Verbs, PlaceInv, PlaceOf,
         TypeInv, CallType
  <2> QED BY <2>1 DEF Renews
<1>23. CASE StopCheck(c)
  <2>1. pc'[c] \notin {"apply", "activate", "confirm", "restart"}
    BY <1>23, AtWork DEF StopCheck, Goto, OnlyTo, Keeps, Advance, Hand, env, sup, ghost, Ends, PlacesOf,
         Verbs, PlaceInv, PlaceOf, TypeInv, CallType
  <2> QED BY <2>1 DEF Renews
<1>24. CASE StackDown(c)
  <2>1. pc'[c] \notin {"apply", "activate", "confirm", "restart"}
    BY <1>24, AtWork DEF StackDown, Goto, OnlyTo, Keeps, env, sup, ghost, Ends, PlacesOf, Verbs, PlaceInv,
         PlaceOf, TypeInv, CallType
  <2> QED BY <2>1 DEF Renews
<1>25. CASE Kill(c)
  <2>1. pc'[c] \notin {"apply", "activate", "confirm", "restart"}
    BY <1>25, AtWork DEF Kill, Goto, OnlyTo, Keeps, env, sup, ghost, Ends, PlacesOf, Verbs, PlaceInv, PlaceOf,
         TypeInv, CallType
  <2> QED BY <2>1 DEF Renews
<1>26. CASE Poll(c)
  <2>1. pc'[c] \notin {"apply", "activate", "confirm", "restart"}
    BY <1>26, AtWork DEF Poll, Goto, OnlyTo, Keeps, env, sup, ghost, Ends, PlacesOf, Verbs, PlaceInv, PlaceOf,
         TypeInv, CallType
  <2> QED BY <2>1 DEF Renews
<1> QED BY <1>1, <1>2, <1>3, <1>4, <1>5, <1>6, <1>7, <1>8, <1>9, <1>10, <1>11, <1>12, <1>13, <1>14, <1>15,
     <1>16, <1>17, <1>18, <1>19, <1>20, <1>21, <1>22, <1>23, <1>24, <1>25, <1>26 DEF Asks

LEMMA RestartOwn ==
  ASSUME TypeInv, PlaceInv, EntryInv, RestartInv, [Next]_vars, NEW c \in Clients, Asks(c) \/ Poll(c)
  PROVE  RestartOf(c)'
<1> SUFFICES ASSUME Renews(c)' PROVE RestartOf(c)'
  BY DEF RestartOf
<1> DEFINE p == Hand(c)
<1>0. op'[c].verb \in {"restart", "run"} /\ pc'[c] \in {"apply", "activate", "confirm", "restart"}
  BY DEF Renews
<1>00. Who(c) \in Dues /\ Who(c) # "no"
  BY WhoTyped DEF Dues
<1> SUFFICES /\ todo'[c] = todo[c] /\ ver'[c] # 0 /\ seen'[c][p] # None /\ seen'[c][p].pid <= runs'[p]
             /\ p \notin touched'[c] =>
                  /\ pc'[c] \in {"apply", "confirm"} => Since(seen'[c][p], proc'[p])
                  /\ pc'[c] \in {"confirm", "restart"} => proc'[p].ver = ver'[c]
  BY DEF RestartOf, Hand
<1>1. CASE ReadBefore(c)
  <2>1. pc'[c] = "apply" /\ todo[c] # <<>> /\ pc[c] = "before"
    BY <1>0, <1>1 DEF ReadBefore, OnlyTo, Goto, TypeInv, CallType
  <2>2. /\ seen' = [seen EXCEPT ![c][Hand(c)] = Now(c)]
        /\ UNCHANGED <<env, sup, op, ver, todo, touched>>
    BY <1>1, <2>1 DEF ReadBefore, OnlyTo, Goto, TypeInv, CallType
  <2>3. p \in Procs /\ proc[p] \in Entries /\ EntryOk(proc[p]) /\ proc[p].pid <= runs[p] /\ proc[p] # None
    BY <2>1, AtHand, NowTyped, Facts DEF EntryInv
  <2>4. seen'[c][p] = proc[p]
    BY <2>2, <2>3 DEF Now, TypeInv, SeenType
  <2>5. Since(proc[p], proc[p])
    BY <2>3 DEF Since, EntryOk
  <2>6. ver[c] # 0
    BY <2>1 DEF PlaceInv, PlaceOf
  <2> QED BY <2>1, <2>2, <2>3, <2>4, <2>5, <2>6 DEF sup
<1>01. ASSUME op' = op, ver' = ver, todo' = todo, seen' = seen, pc[c] \in {"apply", "activate", "confirm"}
       PROVE  /\ p \in Procs /\ todo'[c] = todo[c] /\ ver'[c] # 0 /\ seen'[c][p] # None
              /\ seen'[c][p].pid <= runs'[p]
              /\ p \notin touched[c] /\ pc[c] \in {"apply", "confirm"} => Since(seen[c][p], proc[p])
              /\ p \notin touched[c] /\ pc[c] = "confirm" => proc[p].ver = ver[c]
  <2>1. Renews(c) /\ todo[c] # <<>>
    BY <1>0, <1>01 DEF Renews, PlaceInv, PlaceOf, Handing
  <2>2. p \in Procs
    BY <2>1, AtHand
  <2>3. /\ ver[c] # 0 /\ seen[c][p] # None /\ seen[c][p].pid <= runs[p]
        /\ p \notin touched[c] =>
             /\ pc[c] \in {"apply", "confirm"} => Since(seen[c][p], proc[p])
             /\ pc[c] \in {"confirm", "restart"} => proc[p].ver = ver[c]
    BY <2>1 DEF RestartInv, RestartOf
  <2>4. seen[c][p] \in Entries
    BY <2>2, <2>3 DEF TypeInv, SeenType
  <2>5. seen[c][p].pid \in Nat
    BY <2>4 DEF Entries
  <2>6. runs[p] <= runs'[p] /\ runs[p] \in Nat /\ runs'[p] \in Nat
    BY <2>2, RunsGrow
  <2>7. seen[c][p].pid <= runs'[p]
    BY ONLY <2>3, <2>5, <2>6
  <2> QED BY <1>01, <2>2, <2>3, <2>7
<1>2. ASSUME NEW posted \in BOOLEAN, UpdateProcess(c, posted)
      PROVE  /\ todo'[c] = todo[c] /\ ver'[c] # 0 /\ seen'[c][p] # None /\ seen'[c][p].pid <= runs'[p]
             /\ p \notin touched'[c] =>
                  /\ pc'[c] \in {"apply", "confirm"} => Since(seen'[c][p], proc'[p])
                  /\ pc'[c] \in {"confirm", "restart"} => proc'[p].ver = ver'[c]
  <2>1. op' = op /\ pc[c] = "apply" /\ serving
    BY <1>0, <1>2, AtWork DEF UpdateProcess, Posts, OnlyTo, Sent, Keeps, Advance, Goto, PlacesOf, Verbs,
         TypeInv, CallType
  <2>2. ver' = ver /\ todo' = todo /\ seen' = seen /\ pc'[c] \in {"confirm", "restart"}
    BY <1>0, <1>2, <2>1 DEF UpdateProcess, Sent, Keeps, Goto, TypeInv, CallType
  <2>3. CASE Now(c).ver # ver[c]
    <3>1. proc'[p] = Replaced(ver[c], Now(c).dis, Who(c)) /\ touched'[c] = touched[c]
      BY <1>2, <2>1, <2>3, UpdateAsks
    <3>2. p \in Procs /\ Now(c) \in Entries /\ Now(c).dis \in BOOLEAN /\ ver[c] \in 0..Len(Local)
      BY <1>01, <2>1, <2>2, NowTyped DEF Now, TypeInv, CallType
    <3>3. proc'[p].ver = ver[c] /\ (proc'[p].st = "disabled" \/ proc'[p].due # "no")
      BY <1>00, <3>1, <3>2, ReplacedSays
    <3>4. Since(seen[c][p], proc'[p])
      BY <3>3 DEF Since
    <3> QED BY <1>01, <2>1, <2>2, <3>3, <3>4
  <2>4. CASE Now(c).ver = ver[c]
    <3>1. proc' = proc /\ touched'[c] = touched[c]
      BY <1>2, <2>1, <2>4, UpdateAsks
    <3> QED BY <1>01, <2>1, <2>2, <2>4, <3>1 DEF Now
  <2> QED BY <2>3, <2>4
<1>3. ASSUME NEW P \in SUBSET Procs, AddMissing(c, P)
      PROVE  /\ todo'[c] = todo[c] /\ ver'[c] # 0 /\ seen'[c][p] # None /\ seen'[c][p].pid <= runs'[p]
             /\ p \notin touched'[c] =>
                  /\ pc'[c] \in {"apply", "confirm"} => Since(seen'[c][p], proc'[p])
                  /\ pc'[c] \in {"confirm", "restart"} => proc'[p].ver = ver'[c]
  <2>1. op' = op /\ ver' = ver /\ todo' = todo /\ seen' = seen /\ pc'[c] = "activate"
    BY <1>3 DEF AddMissing, Keeps, Goto, TypeInv, CallType
  <2>2. pc[c] = "apply"
    BY <1>0, <1>3, <2>1, AtWork DEF AddMissing, Posts, PlacesOf, Verbs
  <2> QED BY <1>01, <2>1, <2>2
<1>4. CASE Activate(c)
  <2>1. pc[c] = "activate" /\ pc'[c] # "failed"
    BY <1>0, <1>4 DEF Activate
  <2>2. proc'[p] = Replaced(ver[c], FALSE, Who(c)) /\ touched'[c] = touched[c] /\ Sent(c, TRUE)
    BY <1>4, <2>1, ActivateAsks
  <2>3. op' = op
    BY <2>2 DEF Sent, Keeps, Advance
  <2>4. ver' = ver /\ todo' = todo /\ seen' = seen /\ pc'[c] = "confirm"
    BY <1>0, <2>2, <2>3 DEF Sent, Keeps, Goto, TypeInv, CallType
  <2>5. p \in Procs /\ proc[p] \in Entries /\ ver[c] \in 0..Len(Local)
    BY <1>01, <2>1, <2>3, <2>4, NowTyped DEF TypeInv, CallType
  <2>6. proc'[p].ver = ver[c] /\ (proc'[p].st = "disabled" \/ proc'[p].due # "no")
    BY <1>00, <2>2 DEF Replaced, Pending
  <2>7. Since(seen[c][p], proc'[p])
    BY <2>6 DEF Since
  <2> QED BY <1>01, <2>1, <2>3, <2>4, <2>6, <2>7
<1>5. CASE Confirm(c)
  <2>1. pc[c] = "confirm" /\ pc'[c] = "restart" /\ proc' = proc /\ touched' = touched
    BY <1>0, <1>5 DEF Confirm, OnlyTo, Advance, Applied, Goto, sup, ghost, TypeInv, CallType
  <2>2. op' = op /\ ver' = ver /\ todo' = todo /\ seen' = seen
    BY <1>5, <2>1 DEF Confirm, OnlyTo, Keeps, Advance, Applied, Goto, TypeInv, CallType
  <2> QED BY <1>01, <2>1, <2>2
<1> QED BY <1>1, <1>2, <1>3, <1>4, <1>5, RenewSteps

LEMMA RestartStep ==
  ASSUME TypeInv, PlaceInv, EntryInv, RestartInv, [Next]_vars
  PROVE  RestartInv'
<1>1. ASSUME NEW d \in Clients, Foreign(d) PROVE RestartOf(d)'
  <2> SUFFICES ASSUME Renews(d)' PROVE RestartOf(d)'
    BY DEF RestartOf
  <2> DEFINE p == Hand(d)
  <2>1. /\ Renews(d) /\ touched[d] \subseteq touched'[d] /\ pc'[d] = pc[d] /\ ver'[d] = ver[d]
        /\ todo'[d] = todo[d] /\ seen'[d] = seen[d] /\ pc[d] # "idle" /\ todo[d] # <<>>
    BY <1>1 DEF Foreign, Same, Renews, PlaceInv, PlaceOf, Handing
  <2>2. /\ ver[d] # 0 /\ seen[d][p] # None /\ seen[d][p].pid <= runs[p]
        /\ p \notin touched[d] =>
             /\ pc[d] \in {"apply", "confirm"} => Since(seen[d][p], proc[p])
             /\ pc[d] \in {"confirm", "restart"} => proc[p].ver = ver[d]
    BY <2>1 DEF RestartInv, RestartOf
  <2>3. p \in Procs
    BY <2>1, AtHand
  <2>4. seen[d][p] \in Entries
    BY <2>2, <2>3 DEF TypeInv, SeenType
  <2>5. seen[d][p].pid \in Nat
    BY <2>4 DEF Entries
  <2>6. runs[p] <= runs'[p] /\ runs[p] \in Nat /\ runs'[p] \in Nat
    BY <2>3, RunsGrow
  <2>7. seen[d][p].pid <= runs'[p]
    BY ONLY <2>2, <2>5, <2>6
  <2>8. p \notin touched'[d] => Kept(p) \/ Itself(p)
    BY <1>1, <2>1, <2>3, Stays
  <2>9. p \notin touched'[d] =>
          /\ pc[d] \in {"apply", "confirm"} => Since(seen[d][p], proc'[p])
          /\ pc[d] \in {"confirm", "restart"} => proc'[p].ver = ver[d]
    <3>1. Kept(p) \/ Itself(p) => proc'[p].ver = proc[p].ver
      BY DEF Kept, Itself
    <3>2. (Kept(p) \/ Itself(p)) /\ Since(seen[d][p], proc[p]) => Since(seen[d][p], proc'[p])
      BY <2>2, <2>3, <2>5, SinceStays
    <3> QED BY <2>1, <2>2, <2>8, <3>1, <3>2
  <2>10. p' = p
    BY <2>1 DEF Hand
  <2> QED BY <2>1, <2>2, <2>7, <2>9, <2>10 DEF RestartOf
<1> QED BY <1>1, RestartOwn, EveryStep DEF AnyStep, World, RestartInv

-----------------------------------------------------------------------------
(* The answer of a run.                                                       *)

LEMMA TheJob ==
  ASSUME TypeInv, PlaceInv, NEW c \in Clients, op[c].verb = "run", pc[c] # "idle", pc[c] \notin Ends
  PROVE  /\ Job(c) \in Jobs /\ Job(c) \in Procs /\ op[c].names = {Job(c)}
         /\ todo[c] # <<>> => Hand(c) = Job(c)
<1>1. op[c] \in Requests
  BY DEF PlaceInv, PlaceOf
<1>2. PICK j \in Jobs : op[c].names = {j}
  BY <1>1, Facts
<1>3. Job(c) = j
  BY <1>2 DEF Job
<1>4. todo[c] # <<>> => Hand(c) \in op[c].names
  BY AtHand DEF PlaceInv, PlaceOf
<1> QED BY <1>2, <1>3, <1>4, Facts

LEMMA WaitSteps ==
  ASSUME TypeInv, PlaceInv, EntryInv, NEW c \in Clients, Asks(c) \/ Poll(c)
  PROVE  Waits(c)' => ReadBaseline(c) \/ Poll(c)
                         \/ (Waits(c) /\ pc[c] # "poll" /\ UNCHANGED <<op, base, saw, since>>)
<1>1. ASSUME NEW r \in Requests, Begin(c, r)
      PROVE  Waits(c)' => ReadBaseline(c) \/ Poll(c)
                         \/ (Waits(c) /\ pc[c] # "poll" /\ UNCHANGED <<op, base, saw, since>>)
  <2>1. pc'[c] \in {"lock", "down"}
    BY <1>1 DEF Begin, Goto, TypeInv, CallType
  <2> QED BY <2>1 DEF Waits
<1>2. CASE Rest(c)
  <2>1. pc'[c] \in {"before", "apply", "activate", "confirm", "restart", "poll"} => op'[c].verb # "run"
    BY <1>2, AtWork DEF Rest, Goto, sup, Ends, PlacesOf, Verbs, PlaceInv, PlaceOf, TypeInv, CallType
  <2> QED BY <2>1 DEF Waits
<1>3. CASE Prepare(c)
  <2>1. pc'[c] \in {"before", "apply", "activate", "confirm", "restart", "poll"} => op'[c].verb # "run"
    BY <1>3, AtWork DEF Prepare, Goto, sup, ghost, Ends, PlacesOf, Verbs, PlaceInv, PlaceOf, TypeInv, CallType
  <2> QED BY <2>1 DEF Waits
<1>4. CASE PrepareRun(c)
  <2>1. pc'[c] \in {"before", "apply", "activate", "confirm", "restart", "poll"} => op'[c].verb # "run"
    BY <1>4, AtWork DEF PrepareRun, Goto, sup, ghost, Ends, PlacesOf, Verbs, PlaceInv, PlaceOf, TypeInv,
         CallType
  <2> QED BY <2>1 DEF Waits
<1>5. CASE LoadStack(c)
  <2>1. pc'[c] \in {"before", "apply", "activate", "confirm", "restart", "poll"} => op'[c].verb # "run"
    BY <1>5, AtWork DEF LoadStack, Goto, env, sup, ghost, Ends, PlacesOf, Verbs, PlaceInv, PlaceOf, TypeInv,
         CallType
  <2> QED BY <2>1 DEF Waits
<1>6. CASE Probe(c)
  <2>1. pc'[c] \in {"before", "apply", "activate", "confirm", "restart", "poll"} => op'[c].verb # "run"
    BY <1>6, AtWork DEF Probe, Goto, Keeps, env, sup, ghost, Ends, PlacesOf, Verbs, PlaceInv, PlaceOf,
         TypeInv, CallType
  <2> QED BY <2>1 DEF Waits
<1>7. CASE UpDaemon(c)
  <2>1. pc'[c] \in {"before", "apply", "activate", "confirm", "restart", "poll"} => op'[c].verb # "run"
    BY <1>7, AtWork DEF UpDaemon, Goto, OnlyTo, Keeps, env, sup, ghost, Ends, PlacesOf, Verbs, PlaceInv,
         PlaceOf, TypeInv, CallType
  <2> QED BY <2>1 DEF Waits
<1>8. CASE AwaitSupervisor(c)
  <2>1. pc'[c] \in {"before", "apply", "activate", "confirm", "restart", "poll"} => op'[c].verb # "run"
    BY <1>8, AtWork DEF AwaitSupervisor, Goto, OnlyTo, Keeps, env, sup, ghost, Ends, PlacesOf, Verbs,
         PlaceInv, PlaceOf, TypeInv, CallType
  <2> QED BY <2>1 DEF Waits
<1>9. CASE ReadFile(c)
  <2>1. pc'[c] \in {"before", "apply", "activate", "confirm", "restart", "poll"} => op'[c].verb # "run"
    BY <1>9, AtWork DEF ReadFile, Goto, OnlyTo, Keeps, env, sup, ghost, Ends, PlacesOf, Verbs, PlaceInv,
         PlaceOf, TypeInv, CallType
  <2> QED BY <2>1 DEF Waits
<1>10. CASE UpRead(c)
  <2>1. pc'[c] \in {"before", "apply", "activate", "confirm", "restart", "poll"} => op'[c].verb # "run"
    BY <1>10, AtWork DEF UpRead, Goto, OnlyTo, Keeps, env, sup, ghost, Ends, PlacesOf, Verbs, PlaceInv,
         PlaceOf, TypeInv, CallType
  <2> QED BY <2>1 DEF Waits
<1>11. CASE UpLeaves(c)
  <2>1. pc'[c] \in {"before", "apply", "activate", "confirm", "restart", "poll"} => op'[c].verb # "run"
    BY <1>11, AtWork DEF UpLeaves, Goto, OnlyTo, Keeps, Advance, Hand, env, sup, ghost, Ends, PlacesOf, Verbs,
         PlaceInv, PlaceOf, TypeInv, CallType
  <2> QED BY <2>1 DEF Waits
<1>12. CASE ReadBaseline(c)
  BY <1>12
<1>13. CASE ReadBefore(c)
  <2>1. pc[c] \in {"before", "apply", "up", "activate", "confirm", "restart"} /\ UNCHANGED <<op, base, saw, since>>
    BY <1>13 DEF ReadBefore, Goto, OnlyTo, Keeps, Hand, env, sup, ghost
  <2>2. pc[c] = "up" => op[c].verb # "run"
    BY AtWork DEF PlacesOf, Verbs
  <2> QED BY <2>1, <2>2 DEF Waits
<1>14. ASSUME NEW posted \in BOOLEAN, UpdateProcess(c, posted)
      PROVE  Waits(c)' => ReadBaseline(c) \/ Poll(c)
                         \/ (Waits(c) /\ pc[c] # "poll" /\ UNCHANGED <<op, base, saw, since>>)
  <2>1. pc[c] \in {"before", "apply", "up", "activate", "confirm", "restart"} /\ UNCHANGED <<op, base, saw, since>>
    BY <1>14 DEF UpdateProcess, Goto, OnlyTo, Keeps, Advance, Sent, Hand, env, sup, ghost, Posts
  <2>2. pc[c] = "up" => op[c].verb # "run"
    BY AtWork DEF PlacesOf, Verbs
  <2> QED BY <2>1, <2>2 DEF Waits
<1>15. ASSUME NEW P \in SUBSET Procs, AddMissing(c, P)
      PROVE  Waits(c)' => ReadBaseline(c) \/ Poll(c)
                         \/ (Waits(c) /\ pc[c] # "poll" /\ UNCHANGED <<op, base, saw, since>>)
  <2>1. pc[c] \in {"before", "apply", "up", "activate", "confirm", "restart"} /\ UNCHANGED <<op, base, saw, since>>
    BY <1>15 DEF AddMissing, Goto, Keeps, Hand, env, Posts
  <2>2. pc[c] = "up" => op[c].verb # "run"
    BY AtWork DEF PlacesOf, Verbs
  <2> QED BY <2>1, <2>2 DEF Waits
<1>16. CASE Activate(c)
  <2>1. pc[c] \in {"before", "apply", "up", "activate", "confirm", "restart"} /\ UNCHANGED <<op, base, saw, since>>
    BY <1>16 DEF Activate, Goto, OnlyTo, Keeps, Advance, Sent, Hand, env, sup, ghost
  <2>2. pc[c] = "up" => op[c].verb # "run"
    BY AtWork DEF PlacesOf, Verbs
  <2> QED BY <2>1, <2>2 DEF Waits
<1>17. CASE Confirm(c)
  <2>1. pc[c] \in {"before", "apply", "up", "activate", "confirm", "restart"} /\ UNCHANGED <<op, base, saw, since>>
    BY <1>17 DEF Confirm, Goto, OnlyTo, Keeps, Advance, Hand, env, sup, ghost
  <2>2. pc[c] = "up" => op[c].verb # "run"
    BY AtWork DEF PlacesOf, Verbs
  <2> QED BY <2>1, <2>2 DEF Waits
<1>18. ASSUME NEW reuse \in BOOLEAN, StartProcess(c, reuse)
      PROVE  Waits(c)' => ReadBaseline(c) \/ Poll(c)
                         \/ (Waits(c) /\ pc[c] # "poll" /\ UNCHANGED <<op, base, saw, since>>)
  <2>1. pc'[c] \in {"before", "apply", "activate", "confirm", "restart", "poll"} => op'[c].verb # "run"
    BY <1>18, AtWork DEF StartProcess, Goto, OnlyTo, Keeps, Advance, Hand, env, sup, ghost, Ends, PlacesOf,
         Verbs, PlaceInv, PlaceOf, TypeInv, CallType
  <2> QED BY <2>1 DEF Waits
<1>19. ASSUME NEW reuse \in BOOLEAN, RestartProcess(c, reuse)
      PROVE  Waits(c)' => ReadBaseline(c) \/ Poll(c)
                         \/ (Waits(c) /\ pc[c] # "poll" /\ UNCHANGED <<op, base, saw, since>>)
  <2>1. pc[c] \in {"before", "apply", "up", "activate", "confirm", "restart"} /\ UNCHANGED <<op, base, saw, since>>
    BY <1>19 DEF RestartProcess, Goto, OnlyTo, Keeps, Advance, Hand, env, sup, ghost
  <2>2. pc[c] = "up" => op[c].verb # "run"
    BY AtWork DEF PlacesOf, Verbs
  <2> QED BY <2>1, <2>2 DEF Waits
<1>20. ASSUME NEW reuse \in BOOLEAN, StartNamed(c, reuse)
      PROVE  Waits(c)' => ReadBaseline(c) \/ Poll(c)
                         \/ (Waits(c) /\ pc[c] # "poll" /\ UNCHANGED <<op, base, saw, since>>)
  <2>1. pc'[c] \in {"before", "apply", "activate", "confirm", "restart", "poll"} => op'[c].verb # "run"
    BY <1>20, AtWork DEF StartNamed, Goto, OnlyTo, Keeps, env, sup, ghost, Ends, PlacesOf, Verbs, PlaceInv,
         PlaceOf, TypeInv, CallType
  <2> QED BY <2>1 DEF Waits
<1>21. CASE StopRead(c)
  <2>1. pc'[c] \in {"before", "apply", "activate", "confirm", "restart", "poll"} => op'[c].verb # "run"
    BY <1>21, AtWork DEF StopRead, Goto, OnlyTo, Keeps, Hand, env, sup, ghost, Ends, PlacesOf, Verbs,
         PlaceInv, PlaceOf, TypeInv, CallType
  <2> QED BY <2>1 DEF Waits
<1>22. CASE ProcessStop(c)
  <2>1. pc'[c] \in {"before", "apply", "activate", "confirm", "restart", "poll"} => op'[c].verb # "run"
    BY <1>22, AtWork DEF ProcessStop, Goto, env, sup, ghost, Ends, PlacesOf, Verbs, PlaceInv, PlaceOf,
         TypeInv, CallType
  <2> QED BY <2>1 DEF Waits
<1>23. CASE StopCheck(c)
  <2>1. pc'[c] \in {"before", "apply", "activate", "confirm", "restart", "poll"} => op'[c].verb # "run"
    BY <1>23, AtWork DEF StopCheck, Goto, OnlyTo, Keeps, Advance, Hand, env, sup, ghost, Ends, PlacesOf,
         Verbs, PlaceInv, PlaceOf, TypeInv, CallType
  <2> QED BY <2>1 DEF Waits
<1>24. CASE StackDown(c)
  <2>1. pc'[c] \in {"before", "apply", "activate", "confirm", "restart", "poll"} => op'[c].verb # "run"
    BY <1>24, AtWork DEF StackDown, Goto, OnlyTo, Keeps, env, sup, ghost, Ends, PlacesOf, Verbs, PlaceInv,
         PlaceOf, TypeInv, CallType
  <2> QED BY <2>1 DEF Waits
<1>25. CASE Kill(c)
  <2>1. pc'[c] \in {"before", "apply", "activate", "confirm", "restart", "poll"} => op'[c].verb # "run"
    BY <1>25, AtWork DEF Kill, Goto, OnlyTo, Keeps, env, sup, ghost, Ends, PlacesOf, Verbs, PlaceInv, PlaceOf,
         TypeInv, CallType
  <2> QED BY <2>1 DEF Waits
<1>26. CASE Poll(c)
  BY <1>26
<1> QED BY <1>1, <1>2, <1>3, <1>4, <1>5, <1>6, <1>7, <1>8, <1>9, <1>10, <1>11, <1>12, <1>13, <1>14, <1>15,
     <1>16, <1>17, <1>18, <1>19, <1>20, <1>21, <1>22, <1>23, <1>24, <1>25, <1>26 DEF Asks

LEMMA SawOwn ==
  ASSUME TypeInv, PlaceInv, EntryInv, AnswerInv, NEW c \in Clients, Asks(c) \/ Poll(c)
  PROVE  saw'[c] => op'[c].verb = "run" /\ pc'[c] \in Ends \cup {"poll"}
<1>1. ASSUME NEW r \in Requests, Begin(c, r)
      PROVE  saw'[c] => op'[c].verb = "run" /\ pc'[c] \in Ends \cup {"poll"}
  <2>1. pc[c] = "idle" /\ saw' = saw
    BY <1>1 DEF Begin
  <2> QED BY <2>1 DEF AnswerInv, AnswerOf, Ends
<1>2. CASE Rest(c)
  BY <1>2 DEF Rest, TypeInv, CallType
<1>3. CASE Prepare(c)
  <2>1. /\ pc[c] \notin Ends \cup {"poll"} \/ (pc[c] = "poll" /\ pc'[c] = "failed")
        /\ op' = op /\ saw' = saw
    BY <1>3 DEF Prepare, Goto, sup, ghost, Ends, TypeInv, CallType
  <2> QED BY <2>1 DEF AnswerInv, AnswerOf, Ends
<1>4. CASE PrepareRun(c)
  <2>1. /\ pc[c] \notin Ends \cup {"poll"} \/ (pc[c] = "poll" /\ pc'[c] = "failed")
        /\ op' = op /\ saw' = saw
    BY <1>4 DEF PrepareRun, Goto, sup, ghost, Ends, TypeInv, CallType
  <2> QED BY <2>1 DEF AnswerInv, AnswerOf, Ends
<1>5. CASE LoadStack(c)
  <2>1. /\ pc[c] \notin Ends \cup {"poll"} \/ (pc[c] = "poll" /\ pc'[c] = "failed")
        /\ op' = op /\ saw' = saw
    BY <1>5 DEF LoadStack, Goto, env, sup, ghost, Ends, TypeInv, CallType
  <2> QED BY <2>1 DEF AnswerInv, AnswerOf, Ends
<1>6. CASE Probe(c)
  <2>1. /\ pc[c] \notin Ends \cup {"poll"} \/ (pc[c] = "poll" /\ pc'[c] = "failed")
        /\ op' = op /\ saw' = saw
    BY <1>6 DEF Probe, Goto, Keeps, env, sup, ghost, Ends, TypeInv, CallType
  <2> QED BY <2>1 DEF AnswerInv, AnswerOf, Ends
<1>7. CASE UpDaemon(c)
  <2>1. /\ pc[c] \notin Ends \cup {"poll"} \/ (pc[c] = "poll" /\ pc'[c] = "failed")
        /\ op' = op /\ saw' = saw
    BY <1>7 DEF UpDaemon, Goto, OnlyTo, Keeps, env, sup, ghost, Ends, TypeInv, CallType
  <2> QED BY <2>1 DEF AnswerInv, AnswerOf, Ends
<1>8. CASE AwaitSupervisor(c)
  <2>1. /\ pc[c] \notin Ends \cup {"poll"} \/ (pc[c] = "poll" /\ pc'[c] = "failed")
        /\ op' = op /\ saw' = saw
    BY <1>8 DEF AwaitSupervisor, Goto, OnlyTo, Keeps, env, sup, ghost, Ends, TypeInv, CallType
  <2> QED BY <2>1 DEF AnswerInv, AnswerOf, Ends
<1>9. CASE ReadFile(c)
  <2>1. /\ pc[c] \notin Ends \cup {"poll"} \/ (pc[c] = "poll" /\ pc'[c] = "failed")
        /\ op' = op /\ saw' = saw
    BY <1>9 DEF ReadFile, Goto, OnlyTo, Keeps, env, sup, ghost, Ends, TypeInv, CallType
  <2> QED BY <2>1 DEF AnswerInv, AnswerOf, Ends
<1>10. CASE UpRead(c)
  <2>1. /\ pc[c] \notin Ends \cup {"poll"} \/ (pc[c] = "poll" /\ pc'[c] = "failed")
        /\ op' = op /\ saw' = saw
    BY <1>10 DEF UpRead, Goto, OnlyTo, Keeps, env, sup, ghost, Ends, TypeInv, CallType
  <2> QED BY <2>1 DEF AnswerInv, AnswerOf, Ends
<1>11. CASE UpLeaves(c)
  <2>1. /\ pc[c] \notin Ends \cup {"poll"} \/ (pc[c] = "poll" /\ pc'[c] = "failed")
        /\ op' = op /\ saw' = saw
    BY <1>11 DEF UpLeaves, Goto, OnlyTo, Keeps, Advance, Hand, env, sup, ghost, Ends, TypeInv, CallType
  <2> QED BY <2>1 DEF AnswerInv, AnswerOf, Ends
<1>12. CASE ReadBaseline(c)
  <2>1. /\ pc[c] \notin Ends \cup {"poll"} \/ (pc[c] = "poll" /\ pc'[c] = "failed")
        /\ op' = op /\ saw' = saw
    BY <1>12 DEF ReadBaseline, Goto, OnlyTo, Keeps, Hand, env, sup, ghost, Ends, TypeInv, CallType
  <2> QED BY <2>1 DEF AnswerInv, AnswerOf, Ends
<1>13. CASE ReadBefore(c)
  <2>1. /\ pc[c] \notin Ends \cup {"poll"} \/ (pc[c] = "poll" /\ pc'[c] = "failed")
        /\ op' = op /\ saw' = saw
    BY <1>13 DEF ReadBefore, Goto, OnlyTo, Keeps, Hand, env, sup, ghost, Ends, TypeInv, CallType
  <2> QED BY <2>1 DEF AnswerInv, AnswerOf, Ends
<1>14. ASSUME NEW posted \in BOOLEAN, UpdateProcess(c, posted)
      PROVE  saw'[c] => op'[c].verb = "run" /\ pc'[c] \in Ends \cup {"poll"}
  <2>1. /\ pc[c] \notin Ends \cup {"poll"} \/ (pc[c] = "poll" /\ pc'[c] = "failed")
        /\ op' = op /\ saw' = saw
    BY <1>14 DEF UpdateProcess, Goto, OnlyTo, Keeps, Advance, Sent, Hand, env, sup, ghost, Posts, Ends,
         TypeInv, CallType
  <2> QED BY <2>1 DEF AnswerInv, AnswerOf, Ends
<1>15. ASSUME NEW P \in SUBSET Procs, AddMissing(c, P)
      PROVE  saw'[c] => op'[c].verb = "run" /\ pc'[c] \in Ends \cup {"poll"}
  <2>1. /\ pc[c] \notin Ends \cup {"poll"} \/ (pc[c] = "poll" /\ pc'[c] = "failed")
        /\ op' = op /\ saw' = saw
    BY <1>15 DEF AddMissing, Goto, Keeps, Hand, env, Posts, Ends, TypeInv, CallType
  <2> QED BY <2>1 DEF AnswerInv, AnswerOf, Ends
<1>16. CASE Activate(c)
  <2>1. /\ pc[c] \notin Ends \cup {"poll"} \/ (pc[c] = "poll" /\ pc'[c] = "failed")
        /\ op' = op /\ saw' = saw
    BY <1>16 DEF Activate, Goto, OnlyTo, Keeps, Advance, Sent, Hand, env, sup, ghost, Ends, TypeInv, CallType
  <2> QED BY <2>1 DEF AnswerInv, AnswerOf, Ends
<1>17. CASE Confirm(c)
  <2>1. /\ pc[c] \notin Ends \cup {"poll"} \/ (pc[c] = "poll" /\ pc'[c] = "failed")
        /\ op' = op /\ saw' = saw
    BY <1>17 DEF Confirm, Goto, OnlyTo, Keeps, Advance, Hand, env, sup, ghost, Ends, TypeInv, CallType
  <2> QED BY <2>1 DEF AnswerInv, AnswerOf, Ends
<1>18. ASSUME NEW reuse \in BOOLEAN, StartProcess(c, reuse)
      PROVE  saw'[c] => op'[c].verb = "run" /\ pc'[c] \in Ends \cup {"poll"}
  <2>1. /\ pc[c] \notin Ends \cup {"poll"} \/ (pc[c] = "poll" /\ pc'[c] = "failed")
        /\ op' = op /\ saw' = saw
    BY <1>18 DEF StartProcess, Goto, OnlyTo, Keeps, Advance, Hand, env, sup, ghost, Ends, TypeInv, CallType
  <2> QED BY <2>1 DEF AnswerInv, AnswerOf, Ends
<1>19. ASSUME NEW reuse \in BOOLEAN, RestartProcess(c, reuse)
      PROVE  saw'[c] => op'[c].verb = "run" /\ pc'[c] \in Ends \cup {"poll"}
  <2>1. /\ pc[c] \notin Ends \cup {"poll"} \/ (pc[c] = "poll" /\ pc'[c] = "failed")
        /\ op' = op /\ saw' = saw
    BY <1>19 DEF RestartProcess, Goto, OnlyTo, Keeps, Advance, Hand, env, sup, ghost, Ends, TypeInv, CallType
  <2> QED BY <2>1 DEF AnswerInv, AnswerOf, Ends
<1>20. ASSUME NEW reuse \in BOOLEAN, StartNamed(c, reuse)
      PROVE  saw'[c] => op'[c].verb = "run" /\ pc'[c] \in Ends \cup {"poll"}
  <2>1. /\ pc[c] \notin Ends \cup {"poll"} \/ (pc[c] = "poll" /\ pc'[c] = "failed")
        /\ op' = op /\ saw' = saw
    BY <1>20 DEF StartNamed, Goto, OnlyTo, Keeps, env, sup, ghost, Ends, TypeInv, CallType
  <2> QED BY <2>1 DEF AnswerInv, AnswerOf, Ends
<1>21. CASE StopRead(c)
  <2>1. /\ pc[c] \notin Ends \cup {"poll"} \/ (pc[c] = "poll" /\ pc'[c] = "failed")
        /\ op' = op /\ saw' = saw
    BY <1>21 DEF StopRead, Goto, OnlyTo, Keeps, Hand, env, sup, ghost, Ends, TypeInv, CallType
  <2> QED BY <2>1 DEF AnswerInv, AnswerOf, Ends
<1>22. CASE ProcessStop(c)
  <2>1. /\ pc[c] \notin Ends \cup {"poll"} \/ (pc[c] = "poll" /\ pc'[c] = "failed")
        /\ op' = op /\ saw' = saw
    BY <1>22 DEF ProcessStop, Goto, env, sup, ghost, Ends, TypeInv, CallType
  <2> QED BY <2>1 DEF AnswerInv, AnswerOf, Ends
<1>23. CASE StopCheck(c)
  <2>1. /\ pc[c] \notin Ends \cup {"poll"} \/ (pc[c] = "poll" /\ pc'[c] = "failed")
        /\ op' = op /\ saw' = saw
    BY <1>23 DEF StopCheck, Goto, OnlyTo, Keeps, Advance, Hand, env, sup, ghost, Ends, TypeInv, CallType
  <2> QED BY <2>1 DEF AnswerInv, AnswerOf, Ends
<1>24. CASE StackDown(c)
  <2>1. /\ pc[c] \notin Ends \cup {"poll"} \/ (pc[c] = "poll" /\ pc'[c] = "failed")
        /\ op' = op /\ saw' = saw
    BY <1>24 DEF StackDown, Goto, OnlyTo, Keeps, env, sup, ghost, Ends, TypeInv, CallType
  <2> QED BY <2>1 DEF AnswerInv, AnswerOf, Ends
<1>25. CASE Kill(c)
  <2>1. /\ pc[c] \notin Ends \cup {"poll"} \/ (pc[c] = "poll" /\ pc'[c] = "failed")
        /\ op' = op /\ saw' = saw
    BY <1>25 DEF Kill, Goto, OnlyTo, Keeps, env, sup, ghost, Ends, TypeInv, CallType
  <2> QED BY <2>1 DEF AnswerInv, AnswerOf, Ends
<1>26. CASE Poll(c)
  <2>1. pc[c] = "poll" /\ op' = op /\ pc'[c] \in {"poll", "answered"}
    BY <1>26 DEF Poll, OnlyTo, Keeps, Goto, TypeInv, CallType
  <2> QED BY <2>1, AtWork DEF PlacesOf, Verbs, Ends
<1> QED BY <1>1, <1>2, <1>3, <1>4, <1>5, <1>6, <1>7, <1>8, <1>9, <1>10, <1>11, <1>12, <1>13, <1>14, <1>15,
     <1>16, <1>17, <1>18, <1>19, <1>20, <1>21, <1>22, <1>23, <1>24, <1>25, <1>26 DEF Asks

(* What AnswerOf says of the entry of the job, its last end and the call.      *)
Tells(e, last, snc, bs, sw) ==
  /\ snc <= last
  /\ e.end \in {0, bs.end} \/ e.end > snc
  /\ e.pid \in {0, bs.pid} \/ e.pid > snc
  /\ sw /\ Terminal(e) => e.st = "skipped" \/ e.pid > snc

LEMMA TellsStays ==
  ASSUME TypeInv, EntryInv, NEW j \in Jobs, NEW snc \in Nat, NEW bs, NEW sw \in BOOLEAN,
         Tells(proc[j], ended[j], snc, bs, sw),
         \/ Kept(j) \/ Itself(j)
         \/ /\ Change(proc[j], proc'[j]) /\ (sw => Gentle(proc[j], proc'[j]))
            /\ ended'[j] = IF Live(proc[j]) /\ ~Live(proc'[j]) THEN proc[j].pid ELSE ended[j]
  PROVE  Tells(proc'[j], ended'[j], snc, bs, sw)
<1>0. /\ j \in Procs /\ proc[j].pid \in Nat /\ proc[j].end \in Nat /\ ended[j] \in Nat /\ runs[j] \in Nat
      /\ proc[j].st # "restarting" /\ ended[j] <= runs[j] /\ j \notin Services
      /\ Live(proc[j]) => ended[j] < proc[j].pid
  BY NowTyped, Facts DEF EntryInv, TypeInv, SupType, Entries
<1>1. CASE Kept(j)
  BY <1>1 DEF Kept, Tells
<1>2. CASE Itself(j)
  BY <1>0, <1>2 DEF Itself, Tells, Terminal, Live
<1>3. CASE /\ Change(proc[j], proc'[j]) /\ (sw => Gentle(proc[j], proc'[j]))
           /\ ended'[j] = IF Live(proc[j]) /\ ~Live(proc'[j]) THEN proc[j].pid ELSE ended[j]
  <2>1. proc'[j].pid \in Nat /\ proc'[j].end \in Nat
    BY <1>3 DEF Change, Entries
  <2>2. snc <= ended'[j]
    BY <1>0, <1>3 DEF Tells
  <2>3. proc'[j].end \in {0, bs.end} \/ proc'[j].end > snc
    BY <1>0, <1>3 DEF Tells, Change
  <2>4. proc'[j].pid \in {0, bs.pid} \/ proc'[j].pid > snc
    BY <1>0, <1>3 DEF Tells, Change
  <2>5. sw /\ Terminal(proc'[j]) => proc'[j].st = "skipped" \/ proc'[j].pid > snc
    BY <1>0, <1>3 DEF Tells, Gentle
  <2> QED BY <2>2, <2>3, <2>4, <2>5 DEF Tells
<1> QED BY <1>1, <1>2, <1>3

LEMMA AnswerIs ==
  ASSUME NEW c, Waits(c)
  PROVE  AnswerOf(c) => Tells(proc[Job(c)], ended[Job(c)], since[c], base[c], saw[c])
  BY DEF AnswerOf, Tells

(* Who runs a job changes processes under the root lock only.                  *)
LEMMA RunHolds ==
  ASSUME TypeInv, PlaceInv, EntryInv, NEW c \in Clients, Asks(c) \/ Poll(c), op[c].verb = "run"
  PROVE  root = c \/ UNCHANGED <<proc, runs, ended>>
<1>1. ASSUME NEW r \in Requests, Begin(c, r)
      PROVE  root = c \/ UNCHANGED <<proc, runs, ended>>
  BY <1>1 DEF Begin, Goto, sup
<1>2. CASE Rest(c)
  BY <1>2 DEF Rest, Goto, sup
<1>3. CASE Prepare(c)
  BY <1>3 DEF Prepare, Goto, sup, ghost
<1>4. CASE PrepareRun(c)
  BY <1>4 DEF PrepareRun, Goto, sup, ghost
<1>5. CASE LoadStack(c)
  BY <1>5 DEF LoadStack, Goto, env, sup, ghost
<1>6. CASE Probe(c)
  BY <1>6 DEF Probe, Goto, Keeps, env, sup, ghost
<1>7. CASE UpDaemon(c)
  BY <1>7, AtWork DEF UpDaemon, PlacesOf, Verbs
<1>8. CASE AwaitSupervisor(c)
  BY <1>8 DEF AwaitSupervisor, Goto, OnlyTo, Keeps, env, sup, ghost
<1>9. CASE ReadFile(c)
  BY <1>9 DEF ReadFile, Goto, OnlyTo, Keeps, env, sup, ghost
<1>10. CASE UpRead(c)
  BY <1>10 DEF UpRead, Goto, OnlyTo, Keeps, env, sup, ghost
<1>11. CASE UpLeaves(c)
  BY <1>11 DEF UpLeaves, Goto, OnlyTo, Keeps, Advance, Hand, env, sup, ghost
<1>12. CASE ReadBaseline(c)
  BY <1>12 DEF ReadBaseline, Goto, OnlyTo, Keeps, Hand, env, sup, ghost
<1>13. CASE ReadBefore(c)
  BY <1>13 DEF ReadBefore, Goto, OnlyTo, Keeps, Hand, env, sup, ghost
<1>14. ASSUME NEW posted \in BOOLEAN, UpdateProcess(c, posted)
      PROVE  root = c \/ UNCHANGED <<proc, runs, ended>>
  <2>1. pc[c] \in {"apply", "up", "activate", "confirm", "restart"}
    BY <1>14 DEF UpdateProcess, Posts
  <2> QED BY <2>1, AtWork DEF PlacesOf, Verbs, PlaceInv, PlaceOf, Ends
<1>15. ASSUME NEW P \in SUBSET Procs, AddMissing(c, P)
      PROVE  root = c \/ UNCHANGED <<proc, runs, ended>>
  <2>1. pc[c] \in {"apply", "up", "activate", "confirm", "restart"}
    BY <1>15 DEF AddMissing, Posts
  <2> QED BY <2>1, AtWork DEF PlacesOf, Verbs, PlaceInv, PlaceOf, Ends
<1>16. CASE Activate(c)
  <2>1. pc[c] \in {"apply", "up", "activate", "confirm", "restart"}
    BY <1>16 DEF Activate
  <2> QED BY <2>1, AtWork DEF PlacesOf, Verbs, PlaceInv, PlaceOf, Ends
<1>17. CASE Confirm(c)
  BY <1>17 DEF Confirm, Goto, OnlyTo, Keeps, Advance, Hand, env, sup, ghost
<1>18. ASSUME NEW reuse \in BOOLEAN, StartProcess(c, reuse)
      PROVE  root = c \/ UNCHANGED <<proc, runs, ended>>
  BY <1>18, AtWork DEF StartProcess, PlacesOf, Verbs
<1>19. ASSUME NEW reuse \in BOOLEAN, RestartProcess(c, reuse)
      PROVE  root = c \/ UNCHANGED <<proc, runs, ended>>
  <2>1. pc[c] \in {"apply", "up", "activate", "confirm", "restart"}
    BY <1>19 DEF RestartProcess
  <2> QED BY <2>1, AtWork DEF PlacesOf, Verbs, PlaceInv, PlaceOf, Ends
<1>20. ASSUME NEW reuse \in BOOLEAN, StartNamed(c, reuse)
      PROVE  root = c \/ UNCHANGED <<proc, runs, ended>>
  BY <1>20, AtWork DEF StartNamed, PlacesOf, Verbs
<1>21. CASE StopRead(c)
  BY <1>21 DEF StopRead, Goto, OnlyTo, Keeps, Hand, env, sup, ghost
<1>22. CASE ProcessStop(c)
  BY <1>22, AtWork DEF ProcessStop, PlacesOf, Verbs
<1>23. CASE StopCheck(c)
  BY <1>23 DEF StopCheck, Goto, OnlyTo, Keeps, Advance, Hand, env, sup, ghost
<1>24. CASE StackDown(c)
  BY <1>24, AtWork DEF StackDown, PlacesOf, Verbs
<1>25. CASE Kill(c)
  BY <1>25 DEF Kill, Goto, OnlyTo, Keeps, env, sup, ghost
<1>26. CASE Poll(c)
  BY <1>26 DEF Poll, Goto, OnlyTo, Keeps, env, sup, ghost
<1> QED BY <1>1, <1>2, <1>3, <1>4, <1>5, <1>6, <1>7, <1>8, <1>9, <1>10, <1>11, <1>12, <1>13, <1>14, <1>15,
     <1>16, <1>17, <1>18, <1>19, <1>20, <1>21, <1>22, <1>23, <1>24, <1>25, <1>26 DEF Asks

LEMMA AnswerOwn ==
  ASSUME TypeInv, PlaceInv, EntryInv, AnswerInv, NEW c \in Clients, Asks(c) \/ Poll(c)
  PROVE  AnswerOf(c)'
<1>1. saw'[c] => op'[c].verb = "run" /\ pc'[c] \in Ends \cup {"poll"}
  BY SawOwn
<1> SUFFICES ASSUME Waits(c)' PROVE Tells(proc'[Job(c)'], ended'[Job(c)'], since'[c], base'[c], saw'[c])
  BY <1>1 DEF AnswerOf, Tells
<1>2. CASE ReadBaseline(c)
  <2>1. /\ pc[c] = "baseline" /\ pc'[c] # "failed" /\ op' = op /\ saw' = saw /\ UNCHANGED sup
    BY <1>2 DEF ReadBaseline, OnlyTo, Keeps, Waits
  <2>2. /\ since' = [since EXCEPT ![c] = ended[Hand(c)]]
        /\ base' = [base EXCEPT ![c] = [pid |-> Now(c).pid, end |-> Now(c).end]]
    BY <1>2, <2>1 DEF ReadBaseline, OnlyTo, Goto, TypeInv, CallType
  <2>3. op[c].verb = "run" /\ todo[c] # <<>>
    BY <2>1, AtWork DEF PlacesOf, Verbs, PlaceInv, PlaceOf, Handing
  <2>4. Job(c) \in Jobs /\ Hand(c) = Job(c) /\ Job(c)' = Job(c)
    BY <2>1, <2>3, TheJob DEF Ends, Job
  <2>5. since'[c] = ended[Job(c)] /\ base'[c].pid = proc[Job(c)].pid /\ base'[c].end = proc[Job(c)].end
    BY <2>2, <2>4 DEF Now, TypeInv, CallType
  <2>6. saw'[c] = FALSE /\ proc' = proc /\ ended' = ended /\ ended[Job(c)] \in Nat
    BY <2>1, <2>4 DEF AnswerInv, AnswerOf, Ends, sup, TypeInv, CallType, SupType
  <2> QED BY <2>4, <2>5, <2>6 DEF Tells
<1>3. CASE Poll(c)
  <2>1. pc[c] = "poll" /\ pc'[c] # "answered" /\ ~Terminal(proc[Job(c)])
    BY <1>3 DEF Poll, OnlyTo, Goto, Waits, TypeInv, CallType
  <2>2. op' = op /\ proc' = proc /\ ended' = ended /\ since' = since /\ base' = base
    BY <1>3, <2>1 DEF Poll, sup
  <2>3. Waits(c) /\ Job(c)' = Job(c)
    BY <2>1, <2>2, AtWork DEF Waits, PlacesOf, Verbs, Job
  <2>4. AnswerOf(c)
    BY DEF AnswerInv
  <2>5. Tells(proc[Job(c)], ended[Job(c)], since[c], base[c], saw[c])
    BY <2>3, <2>4, AnswerIs
  <2> QED BY <2>1, <2>2, <2>3, <2>5 DEF Tells
<1>4. CASE Waits(c) /\ pc[c] # "poll" /\ UNCHANGED <<op, base, saw, since>>
  <2>1. saw[c] = FALSE /\ Job(c)' = Job(c) /\ since[c] \in Nat
    BY <1>4 DEF Waits, AnswerInv, AnswerOf, Ends, Job, TypeInv, CallType
  <2>2. Job(c) \in Jobs /\ Job(c) \in Procs
    BY <1>4, TheJob DEF Waits, Ends
  <2>3. AnswerOf(c)
    BY DEF AnswerInv
  <2>4. Tells(proc[Job(c)], ended[Job(c)], since[c], base[c], FALSE)
    BY <1>4, <2>1, <2>3, AnswerIs
  <2>5. Kept(Job(c)) \/ Asked(Job(c), c)
    BY <2>2, ClientChanges DEF SupChange
  <2>6. Tells(proc'[Job(c)], ended'[Job(c)], since[c], base[c], FALSE)
    BY <2>1, <2>2, <2>4, <2>5, FALSE \in BOOLEAN, TellsStays DEF Asked
  <2> QED BY <1>4, <2>1, <2>6
<1> QED BY <1>2, <1>3, <1>4, WaitSteps

LEMMA AnswerForeign ==
  ASSUME TypeInv, PlaceInv, EntryInv, AnswerInv, NEW d \in Clients, Same(d),
         Waits(d) => \/ Kept(Job(d)) \/ Itself(Job(d))
                     \/ (\E c : Asked(Job(d), c) /\ Gentle(proc[Job(d)], proc'[Job(d)]))
  PROVE  AnswerOf(d)'
<1>0. /\ pc'[d] = pc[d] /\ op'[d] = op[d] /\ base'[d] = base[d] /\ saw'[d] = saw[d] /\ since'[d] = since[d]
  BY DEF Same
<1>1. saw'[d] => op'[d].verb = "run" /\ pc'[d] \in Ends \cup {"poll"}
  BY <1>0 DEF AnswerInv, AnswerOf
<1>2. CASE ~Waits(d)
  BY <1>0, <1>1, <1>2 DEF AnswerOf, Waits
<1>3. CASE Waits(d)
  <2>1. Job(d)' = Job(d) /\ since[d] \in Nat /\ saw[d] \in BOOLEAN
    BY <1>0 DEF Job, TypeInv, CallType
  <2>2. Job(d) \in Jobs
    BY <1>3, TheJob DEF Waits, Ends
  <2>3. AnswerOf(d)
    BY DEF AnswerInv
  <2>4. Tells(proc[Job(d)], ended[Job(d)], since[d], base[d], saw[d])
    BY <1>3, <2>3, AnswerIs
  <2>5. Tells(proc'[Job(d)], ended'[Job(d)], since[d], base[d], saw[d])
    BY <1>3, <2>1, <2>2, <2>4, TellsStays DEF Asked
  <2> QED BY <1>0, <1>1, <2>1, <2>5 DEF AnswerOf, Tells
<1> QED BY <1>2, <1>3

LEMMA AnswerStep ==
  ASSUME TypeInv, PlaceInv, EntryInv, AnswerInv, [Next]_vars
  PROVE  AnswerInv'
<1>1. ASSUME NEW d \in Clients, Waits(d) PROVE Job(d) \in Jobs /\ Job(d) \in Procs /\ root = d
  BY <1>1, TheJob DEF Waits, Ends, PlaceInv, PlaceOf
<1>2. CASE World
  <2> SUFFICES ASSUME NEW d \in Clients PROVE AnswerOf(d)'
    BY DEF AnswerInv
  <2>1. Same(d)
    BY <1>2 DEF World, Foreign
  <2>2. ASSUME Waits(d) PROVE \/ Kept(Job(d)) \/ Itself(Job(d))
                              \/ (\E c : Asked(Job(d), c) /\ Gentle(proc[Job(d)], proc'[Job(d)]))
    <3>1. Job(d) \in Jobs /\ Job(d) \in Procs
      BY <1>1, <2>2
    <3>2. Kept(Job(d)) \/ Itself(Job(d)) \/ Asked(Job(d), None)
      BY <1>2, <3>1 DEF World
    <3>3. Asked(Job(d), None) => Gentle(proc[Job(d)], proc'[Job(d)])
      BY <3>1, Facts DEF Asked
    <3> QED BY <3>2, <3>3
  <2> QED BY <2>1, <2>2, AnswerForeign
<1>3. ASSUME NEW c \in Clients, Asks(c) \/ Poll(c), \A d \in Clients \ {c} : Foreign(d)
      PROVE  AnswerInv'
  <2>1. ASSUME NEW d \in Clients \ {c} PROVE AnswerOf(d)'
    <3>1. Same(d)
      BY <1>3 DEF Foreign
    <3>2. ASSUME Waits(d) PROVE Kept(Job(d)) \/ (Asked(Job(d), c) /\ Gentle(proc[Job(d)], proc'[Job(d)]))
      <4>1. Job(d) \in Jobs /\ Job(d) \in Procs /\ root = d
        BY <1>1, <3>2
      <4>2. Kept(Job(d)) \/ Asked(Job(d), c)
        BY <1>3, <4>1, ClientChanges DEF SupChange
      <4>3. CASE op[c].verb = "run"
        BY <1>3, <4>1, <4>3, RunHolds DEF Kept
      <4>4. CASE op[c].verb # "run"
        BY <4>1, <4>2, <4>4 DEF Asked
      <4> QED BY <4>3, <4>4
    <3> QED BY <3>1, <3>2, AnswerForeign
  <2> QED BY <1>3, <2>1, AnswerOwn DEF AnswerInv
<1> QED BY <1>2, <1>3, EveryStep DEF AnyStep

LEMMA AnswersPolled ==
  ASSUME TypeInv, PlaceInv, EntryInv, NEW c \in Clients, Asks(c) \/ Poll(c), pc[c] = "poll", pc'[c] = "answered"
  PROVE  Poll(c)
<1>1. ASSUME NEW r \in Requests, Begin(c, r)
      PROVE  Poll(c)
  <2>1. pc'[c] # "answered"
    BY <1>1 DEF Begin, Goto, sup, TypeInv, CallType
  <2> QED BY <2>1
<1>2. CASE Rest(c)
  <2>1. pc'[c] # "answered"
    BY <1>2 DEF Rest, Goto, sup, TypeInv, CallType
  <2> QED BY <2>1
<1>3. CASE Prepare(c)
  <2>1. pc'[c] # "answered"
    BY <1>3 DEF Prepare, Goto, sup, ghost, TypeInv, CallType
  <2> QED BY <2>1
<1>4. CASE PrepareRun(c)
  <2>1. pc'[c] # "answered"
    BY <1>4 DEF PrepareRun, Goto, sup, ghost, TypeInv, CallType
  <2> QED BY <2>1
<1>5. CASE LoadStack(c)
  <2>1. pc'[c] # "answered"
    BY <1>5 DEF LoadStack, Goto, env, sup, ghost, TypeInv, CallType
  <2> QED BY <2>1
<1>6. CASE Probe(c)
  <2>1. pc'[c] # "answered"
    BY <1>6 DEF Probe, Goto, Keeps, env, sup, ghost, TypeInv, CallType
  <2> QED BY <2>1
<1>7. CASE UpDaemon(c)
  <2>1. pc'[c] # "answered"
    BY <1>7 DEF UpDaemon, Goto, OnlyTo, Keeps, env, sup, ghost, TypeInv, CallType
  <2> QED BY <2>1
<1>8. CASE AwaitSupervisor(c)
  <2>1. pc'[c] # "answered"
    BY <1>8 DEF AwaitSupervisor, Goto, OnlyTo, Keeps, env, sup, ghost, TypeInv, CallType
  <2> QED BY <2>1
<1>9. CASE ReadFile(c)
  <2>1. pc'[c] # "answered"
    BY <1>9 DEF ReadFile, Goto, OnlyTo, Keeps, env, sup, ghost, TypeInv, CallType
  <2> QED BY <2>1
<1>10. CASE UpRead(c)
  <2>1. pc'[c] # "answered"
    BY <1>10 DEF UpRead, Goto, OnlyTo, Keeps, env, sup, ghost, TypeInv, CallType
  <2> QED BY <2>1
<1>11. CASE UpLeaves(c)
  <2>1. pc'[c] # "answered"
    BY <1>11 DEF UpLeaves, Goto, OnlyTo, Keeps, Advance, Hand, env, sup, ghost, TypeInv, CallType
  <2> QED BY <2>1
<1>12. CASE ReadBaseline(c)
  <2>1. pc'[c] # "answered"
    BY <1>12 DEF ReadBaseline, Goto, OnlyTo, Keeps, Hand, env, sup, ghost, TypeInv, CallType
  <2> QED BY <2>1
<1>13. CASE ReadBefore(c)
  <2>1. pc'[c] # "answered"
    BY <1>13 DEF ReadBefore, Goto, OnlyTo, Keeps, Hand, env, sup, ghost, TypeInv, CallType
  <2> QED BY <2>1
<1>14. ASSUME NEW posted \in BOOLEAN, UpdateProcess(c, posted)
      PROVE  Poll(c)
  <2>1. pc'[c] # "answered"
    BY <1>14 DEF UpdateProcess, Goto, OnlyTo, Keeps, Advance, Sent, Hand, env, sup, ghost, TypeInv, CallType
  <2> QED BY <2>1
<1>15. ASSUME NEW P \in SUBSET Procs, AddMissing(c, P)
      PROVE  Poll(c)
  <2>1. pc'[c] # "answered"
    BY <1>15 DEF AddMissing, Goto, Keeps, Hand, env, TypeInv, CallType
  <2> QED BY <2>1
<1>16. CASE Activate(c)
  <2>1. pc'[c] # "answered"
    BY <1>16 DEF Activate, Goto, OnlyTo, Keeps, Advance, Sent, Hand, env, sup, ghost, TypeInv, CallType
  <2> QED BY <2>1
<1>17. CASE Confirm(c)
  <2>1. pc'[c] # "answered"
    BY <1>17 DEF Confirm, Goto, OnlyTo, Keeps, Advance, Hand, env, sup, ghost, Applied, TypeInv, CallType
  <2> QED BY <2>1
<1>18. ASSUME NEW reuse \in BOOLEAN, StartProcess(c, reuse)
      PROVE  Poll(c)
  <2>1. pc'[c] # "answered"
    BY <1>18 DEF StartProcess, Goto, OnlyTo, Keeps, Advance, Hand, env, sup, ghost, TypeInv, CallType
  <2> QED BY <2>1
<1>19. ASSUME NEW reuse \in BOOLEAN, RestartProcess(c, reuse)
      PROVE  Poll(c)
  <2>1. pc'[c] # "answered"
    BY <1>19 DEF RestartProcess, Goto, OnlyTo, Keeps, Advance, Hand, env, sup, ghost, Applied, TypeInv, CallType
  <2> QED BY <2>1
<1>20. ASSUME NEW reuse \in BOOLEAN, StartNamed(c, reuse)
      PROVE  Poll(c)
  <2>1. pc'[c] # "answered"
    BY <1>20 DEF StartNamed, Goto, OnlyTo, Keeps, env, sup, ghost, TypeInv, CallType
  <2> QED BY <2>1
<1>21. CASE StopRead(c)
  <2>1. pc'[c] # "answered"
    BY <1>21 DEF StopRead, Goto, OnlyTo, Keeps, Hand, env, sup, ghost, TypeInv, CallType
  <2> QED BY <2>1
<1>22. CASE ProcessStop(c)
  <2>1. pc'[c] # "answered"
    BY <1>22 DEF ProcessStop, Goto, env, sup, ghost, TypeInv, CallType
  <2> QED BY <2>1
<1>23. CASE StopCheck(c)
  <2>1. pc'[c] # "answered"
    BY <1>23 DEF StopCheck, Goto, OnlyTo, Keeps, Advance, Hand, env, sup, ghost, TypeInv, CallType
  <2> QED BY <2>1
<1>24. CASE StackDown(c)
  <2>1. pc'[c] # "answered"
    BY <1>24 DEF StackDown, Goto, OnlyTo, Keeps, env, sup, ghost, TypeInv, CallType
  <2> QED BY <2>1
<1>25. CASE Kill(c)
  <2>1. pc'[c] # "answered"
    BY <1>25 DEF Kill, Goto, OnlyTo, Keeps, env, sup, ghost, TypeInv, CallType
  <2> QED BY <2>1
<1>26. CASE Poll(c)
  BY <1>26
<1> QED BY <1>1, <1>2, <1>3, <1>4, <1>5, <1>6, <1>7, <1>8, <1>9, <1>10, <1>11, <1>12, <1>13, <1>14, <1>15,
     <1>16, <1>17, <1>18, <1>19, <1>20, <1>21, <1>22, <1>23, <1>24, <1>25, <1>26 DEF Asks

LEMMA RenewalsEnd ==
  ASSUME TypeInv, PlaceInv, EntryInv, NEW c \in Clients, Asks(c) \/ Poll(c), pc[c] # "poll",
         pc'[c] = "poll" \/ (pc'[c] = "before" /\ pc[c] \in {"confirm", "restart"})
  PROVE  Confirm(c) \/ \E b \in BOOLEAN : RestartProcess(c, b)
<1>1. ASSUME NEW r \in Requests, Begin(c, r)
      PROVE  Confirm(c) \/ \E b \in BOOLEAN : RestartProcess(c, b)
  <2>1. \/ pc[c] = "poll" \/ pc'[c] \notin {"before", "poll"}
        \/ pc'[c] = "before" /\ pc[c] \notin {"confirm", "restart"}
    BY <1>1 DEF Begin, Goto, sup, Ends, TypeInv, CallType
  <2> QED BY <2>1
<1>2. CASE Rest(c)
  <2>1. \/ pc[c] = "poll" \/ pc'[c] \notin {"before", "poll"}
        \/ pc'[c] = "before" /\ pc[c] \notin {"confirm", "restart"}
    BY <1>2 DEF Rest, Goto, sup, Ends, TypeInv, CallType
  <2> QED BY <2>1
<1>3. CASE Prepare(c)
  <2>1. \/ pc[c] = "poll" \/ pc'[c] \notin {"before", "poll"}
        \/ pc'[c] = "before" /\ pc[c] \notin {"confirm", "restart"}
    BY <1>3 DEF Prepare, Goto, sup, ghost, Ends, TypeInv, CallType
  <2> QED BY <2>1
<1>4. CASE PrepareRun(c)
  <2>1. \/ pc[c] = "poll" \/ pc'[c] \notin {"before", "poll"}
        \/ pc'[c] = "before" /\ pc[c] \notin {"confirm", "restart"}
    BY <1>4 DEF PrepareRun, Goto, sup, ghost, Ends, TypeInv, CallType
  <2> QED BY <2>1
<1>5. CASE LoadStack(c)
  <2>1. \/ pc[c] = "poll" \/ pc'[c] \notin {"before", "poll"}
        \/ pc'[c] = "before" /\ pc[c] \notin {"confirm", "restart"}
    BY <1>5 DEF LoadStack, Goto, env, sup, ghost, Ends, TypeInv, CallType
  <2> QED BY <2>1
<1>6. CASE Probe(c)
  <2>1. \/ pc[c] = "poll" \/ pc'[c] \notin {"before", "poll"}
        \/ pc'[c] = "before" /\ pc[c] \notin {"confirm", "restart"}
    BY <1>6 DEF Probe, Goto, Keeps, env, sup, ghost, Ends, TypeInv, CallType
  <2> QED BY <2>1
<1>7. CASE UpDaemon(c)
  <2>1. \/ pc[c] = "poll" \/ pc'[c] \notin {"before", "poll"}
        \/ pc'[c] = "before" /\ pc[c] \notin {"confirm", "restart"}
    BY <1>7 DEF UpDaemon, Goto, OnlyTo, Keeps, env, sup, ghost, Ends, TypeInv, CallType
  <2> QED BY <2>1
<1>8. CASE AwaitSupervisor(c)
  <2>1. \/ pc[c] = "poll" \/ pc'[c] \notin {"before", "poll"}
        \/ pc'[c] = "before" /\ pc[c] \notin {"confirm", "restart"}
    BY <1>8 DEF AwaitSupervisor, Goto, OnlyTo, Keeps, env, sup, ghost, Ends, TypeInv, CallType
  <2> QED BY <2>1
<1>9. CASE ReadFile(c)
  <2>1. \/ pc[c] = "poll" \/ pc'[c] \notin {"before", "poll"}
        \/ pc'[c] = "before" /\ pc[c] \notin {"confirm", "restart"}
    BY <1>9 DEF ReadFile, Goto, OnlyTo, Keeps, env, sup, ghost, Ends, TypeInv, CallType
  <2> QED BY <2>1
<1>10. CASE UpRead(c)
  <2>1. \/ pc[c] = "poll" \/ pc'[c] \notin {"before", "poll"}
        \/ pc'[c] = "before" /\ pc[c] \notin {"confirm", "restart"}
    BY <1>10 DEF UpRead, Goto, OnlyTo, Keeps, env, sup, ghost, Ends, TypeInv, CallType
  <2> QED BY <2>1
<1>11. CASE UpLeaves(c)
  <2>1. \/ pc[c] = "poll" \/ pc'[c] \notin {"before", "poll"}
        \/ pc'[c] = "before" /\ pc[c] \notin {"confirm", "restart"}
    BY <1>11 DEF UpLeaves, Goto, OnlyTo, Keeps, Advance, Hand, env, sup, ghost, Ends, TypeInv, CallType
  <2> QED BY <2>1
<1>12. CASE ReadBaseline(c)
  <2>1. \/ pc[c] = "poll" \/ pc'[c] \notin {"before", "poll"}
        \/ pc'[c] = "before" /\ pc[c] \notin {"confirm", "restart"}
    BY <1>12 DEF ReadBaseline, Goto, OnlyTo, Keeps, Hand, env, sup, ghost, Ends, TypeInv, CallType
  <2> QED BY <2>1
<1>13. CASE ReadBefore(c)
  <2>1. \/ pc[c] = "poll" \/ pc'[c] \notin {"before", "poll"}
        \/ pc'[c] = "before" /\ pc[c] \notin {"confirm", "restart"}
    BY <1>13 DEF ReadBefore, Goto, OnlyTo, Keeps, Hand, env, sup, ghost, Ends, TypeInv, CallType
  <2> QED BY <2>1
<1>14. ASSUME NEW posted \in BOOLEAN, UpdateProcess(c, posted)
      PROVE  Confirm(c) \/ \E b \in BOOLEAN : RestartProcess(c, b)
  <2>1. \/ pc[c] = "poll" \/ pc'[c] \notin {"before", "poll"}
        \/ pc'[c] = "before" /\ pc[c] \notin {"confirm", "restart"}
    BY <1>14 DEF UpdateProcess, Goto, OnlyTo, Keeps, Advance, Sent, Hand, env, sup, ghost, Posts, Ends,
         TypeInv, CallType
  <2> QED BY <2>1
<1>15. ASSUME NEW P \in SUBSET Procs, AddMissing(c, P)
      PROVE  Confirm(c) \/ \E b \in BOOLEAN : RestartProcess(c, b)
  <2>1. \/ pc[c] = "poll" \/ pc'[c] \notin {"before", "poll"}
        \/ pc'[c] = "before" /\ pc[c] \notin {"confirm", "restart"}
    BY <1>15 DEF AddMissing, Goto, Keeps, Hand, env, Posts, Ends, TypeInv, CallType
  <2> QED BY <2>1
<1>16. CASE Activate(c)
  <2>1. \/ pc[c] = "poll" \/ pc'[c] \notin {"before", "poll"}
        \/ pc'[c] = "before" /\ pc[c] \notin {"confirm", "restart"}
    BY <1>16 DEF Activate, Goto, OnlyTo, Keeps, Advance, Sent, Hand, env, sup, ghost, Ends, TypeInv, CallType
  <2> QED BY <2>1
<1>17. CASE Confirm(c)
  BY <1>17
<1>18. ASSUME NEW reuse \in BOOLEAN, StartProcess(c, reuse)
      PROVE  Confirm(c) \/ \E b \in BOOLEAN : RestartProcess(c, b)
  <2>1. \/ pc[c] = "poll" \/ pc'[c] \notin {"before", "poll"}
        \/ pc'[c] = "before" /\ pc[c] \notin {"confirm", "restart"}
    BY <1>18 DEF StartProcess, Goto, OnlyTo, Keeps, Advance, Hand, env, sup, ghost, Ends, TypeInv, CallType
  <2> QED BY <2>1
<1>19. ASSUME NEW reuse \in BOOLEAN, RestartProcess(c, reuse)
      PROVE  Confirm(c) \/ \E b \in BOOLEAN : RestartProcess(c, b)
  BY <1>19
<1>20. ASSUME NEW reuse \in BOOLEAN, StartNamed(c, reuse)
      PROVE  Confirm(c) \/ \E b \in BOOLEAN : RestartProcess(c, b)
  <2>1. \/ pc[c] = "poll" \/ pc'[c] \notin {"before", "poll"}
        \/ pc'[c] = "before" /\ pc[c] \notin {"confirm", "restart"}
    BY <1>20 DEF StartNamed, Goto, OnlyTo, Keeps, env, sup, ghost, Ends, TypeInv, CallType
  <2> QED BY <2>1
<1>21. CASE StopRead(c)
  <2>1. \/ pc[c] = "poll" \/ pc'[c] \notin {"before", "poll"}
        \/ pc'[c] = "before" /\ pc[c] \notin {"confirm", "restart"}
    BY <1>21 DEF StopRead, Goto, OnlyTo, Keeps, Hand, env, sup, ghost, Ends, TypeInv, CallType
  <2> QED BY <2>1
<1>22. CASE ProcessStop(c)
  <2>1. \/ pc[c] = "poll" \/ pc'[c] \notin {"before", "poll"}
        \/ pc'[c] = "before" /\ pc[c] \notin {"confirm", "restart"}
    BY <1>22 DEF ProcessStop, Goto, env, sup, ghost, Ends, TypeInv, CallType
  <2> QED BY <2>1
<1>23. CASE StopCheck(c)
  <2>1. \/ pc[c] = "poll" \/ pc'[c] \notin {"before", "poll"}
        \/ pc'[c] = "before" /\ pc[c] \notin {"confirm", "restart"}
    BY <1>23 DEF StopCheck, Goto, OnlyTo, Keeps, Advance, Hand, env, sup, ghost, Ends, TypeInv, CallType
  <2> QED BY <2>1
<1>24. CASE StackDown(c)
  <2>1. \/ pc[c] = "poll" \/ pc'[c] \notin {"before", "poll"}
        \/ pc'[c] = "before" /\ pc[c] \notin {"confirm", "restart"}
    BY <1>24 DEF StackDown, Goto, OnlyTo, Keeps, env, sup, ghost, Ends, TypeInv, CallType
  <2> QED BY <2>1
<1>25. CASE Kill(c)
  <2>1. \/ pc[c] = "poll" \/ pc'[c] \notin {"before", "poll"}
        \/ pc'[c] = "before" /\ pc[c] \notin {"confirm", "restart"}
    BY <1>25 DEF Kill, Goto, OnlyTo, Keeps, env, sup, ghost, Ends, TypeInv, CallType
  <2> QED BY <2>1
<1>26. CASE Poll(c)
  <2>1. \/ pc[c] = "poll" \/ pc'[c] \notin {"before", "poll"}
        \/ pc'[c] = "before" /\ pc[c] \notin {"confirm", "restart"}
    BY <1>26 DEF Poll, Goto, OnlyTo, Keeps, env, sup, ghost, Ends, TypeInv, CallType
  <2> QED BY <2>1
<1> QED BY <1>1, <1>2, <1>3, <1>4, <1>5, <1>6, <1>7, <1>8, <1>9, <1>10, <1>11, <1>12, <1>13, <1>14, <1>15,
     <1>16, <1>17, <1>18, <1>19, <1>20, <1>21, <1>22, <1>23, <1>24, <1>25, <1>26 DEF Asks

-----------------------------------------------------------------------------
(* The entries of jobs.                                                       *)

LEMMA JobIs ==
  ASSUME TypeInv, EntryInv, NEW j \in Jobs
  PROVE  /\ j \in Procs /\ j \notin Services /\ proc[j] \in Entries /\ EntryOk(proc[j])
         /\ proc[j].pid \in Nat /\ runs[j] \in Nat /\ proc[j].st # "restarting" /\ proc[j].pid <= runs[j]
  BY NowTyped, Facts DEF EntryInv, TypeInv, SupType

LEMMA LiveStep ==
  ASSUME TypeInv, PlaceInv, EntryInv, LiveInv, [Next]_vars
  PROVE  LiveInv'
<1>1. AnyStep
  BY EveryStep
<1>2. ASSUME NEW p \in Procs PROVE Alive(proc'[p])
  <2>1. Alive(proc[p]) /\ proc[p].pid \in Nat /\ runs[p] \in Nat
    BY NowTyped DEF LiveInv, TypeInv, SupType
  <2>2. CASE Kept(p)
    BY <2>1, <2>2 DEF Kept
  <2>3. CASE Itself(p)
    BY <2>1, <2>3 DEF Itself, Alive, Live
  <2>4. ASSUME NEW c \in Clients \cup {None}, Asked(p, c) PROVE Alive(proc'[p])
    BY <2>1, <2>4 DEF Asked, Change, Alive
  <2> QED BY <1>1, <2>2, <2>3, <2>4 DEF AnyStep
<1>3. ASSUME NEW j \in Jobs PROVE Told(proc'[j])
  <2>1. /\ Told(proc[j]) /\ Alive(proc[j]) /\ j \in Procs /\ j \notin Services /\ runs[j] \in Nat
        /\ proc[j].st # "restarting" /\ EntryOk(proc[j])
    BY JobIs DEF LiveInv
  <2>2. CASE Kept(j)
    BY <2>1, <2>2 DEF Kept
  <2>3. CASE Itself(j)
    BY <2>1, <2>3 DEF Itself, Told, Alive, Live, Terminal
  <2>4. ASSUME NEW c \in Clients \cup {None}, Asked(j, c) PROVE Told(proc'[j])
    BY <2>1, <2>4 DEF Asked, Told, Terminal
  <2> QED BY <1>1, <2>1, <2>2, <2>3, <2>4 DEF AnyStep
<1> QED BY <1>2, <1>3 DEF LiveInv

LEMMA FollowedStays ==
  ASSUME TypeInv, EntryInv, NEW j \in Jobs, Kept(j) \/ Itself(j) \/ (\E c : Asked(j, c)),
         NEW s \in Entries, s.pid <= runs[j], NEW b \in Nat, b <= runs[j], Followed(s, proc[j], b)
  PROVE  Followed(s, proc'[j], b)
<1>0. s.pid \in Nat
  BY DEF Entries
<1>1. CASE Kept(j)
  BY <1>1 DEF Kept
<1>2. CASE Itself(j)
  BY <1>0, <1>2, JobIs DEF Itself, Followed, Terminal, Live, EntryOk
<1>3. CASE \E c : Asked(j, c)
  <2>1. /\ proc'[j].pid \in {0, proc[j].pid} /\ EntryOk(proc'[j])
        /\ proc'[j].due = "no" => proc'[j].st \in {"absent", "disabled"}
        /\ proc'[j].st \in {"absent", "disabled", "pending", "running", "restarting", "terminating",
                            "completed", "error", "skipped"}
    BY <1>3 DEF Asked, Change, Entries
  <2>2. proc'[j].st = "absent" => proc'[j].pid = 0
    BY <2>1 DEF EntryOk, Absent
  <2>3. proc'[j].pid # 0 => Terminal(proc'[j]) \/ proc'[j].st = "disabled"
    BY <2>1, <2>2 DEF EntryOk, Live, Terminal
  <2> QED BY <2>1, <2>3, JobIs DEF Followed
<1> QED BY <1>1, <1>2, <1>3

LEMMA AwaitedStays ==
  ASSUME TypeInv, EntryInv, LiveInv, NEW j \in Jobs, Kept(j) \/ Itself(j) \/ (\E c : Asked(j, c)),
         NEW b \in Nat, b <= runs[j], Awaited(proc[j], b)
  PROVE  Awaited(proc'[j], b)
<1>1. CASE Kept(j)
  BY <1>1 DEF Kept
<1>2. CASE Itself(j)
  <2>1. Alive(proc[j])
    BY JobIs DEF LiveInv
  <2> QED BY <1>2, <2>1, JobIs DEF Itself, Awaited, Live, EntryOk, Alive
<1>3. CASE \E c : Asked(j, c)
  BY <1>3 DEF Asked, Change, EntryOk, Absent, Awaited
<1> QED BY <1>1, <1>2, <1>3

LEMMA SeesOwn ==
  ASSUME TypeInv, PlaceInv, EntryInv, RestartInv, LiveInv, SeesInv, [Next]_vars,
         NEW c \in Clients, Asks(c) \/ Poll(c)
  PROVE  SeesOf(c)'
<1> SUFFICES ASSUME Waits(c)' PROVE SeesOf(c)'
  BY DEF SeesOf, Waits
<1>0. op'[c].verb = "run" /\ pc'[c] \in {"before", "apply", "activate", "confirm", "restart", "poll"}
  BY DEF Waits
<1>1. CASE ReadBaseline(c)
  <2>1. /\ pc[c] = "baseline" /\ pc'[c] = "before" /\ op' = op /\ UNCHANGED sup
        /\ base' = [base EXCEPT ![c] = [pid |-> Now(c).pid, end |-> Now(c).end]]
    BY <1>0, <1>1 DEF ReadBaseline, OnlyTo, Goto, Keeps, TypeInv, CallType
  <2>2. Job(c) \in Jobs /\ Hand(c) = Job(c) /\ Job(c)' = Job(c)
    BY <1>0, <2>1, TheJob DEF Ends, Job, PlaceInv, PlaceOf, Handing
  <2>3. base'[c].pid = proc[Job(c)].pid /\ runs' = runs
    BY <2>1, <2>2 DEF Now, sup, TypeInv, CallType
  <2> QED BY <2>1, <2>2, <2>3, JobIs DEF SeesOf
<1>2. CASE Poll(c)
  <2>1. pc[c] = "poll" /\ pc'[c] = "poll" /\ op' = op /\ base' = base /\ proc' = proc /\ runs' = runs
    BY <1>0, <1>2 DEF Poll, OnlyTo, Goto, sup, TypeInv, CallType
  <2>2. SeesOf(c)
    BY DEF SeesInv
  <2> QED BY <2>1, <2>2 DEF SeesOf, Job
<1>3. CASE Waits(c) /\ pc[c] # "poll" /\ UNCHANGED <<op, base, saw, since>>
  <2> DEFINE j == Job(c)
  <2>0. /\ j \in Jobs /\ j \in Procs /\ j' = j /\ op[c].verb = "run" /\ base[c].pid \in Nat
        /\ todo[c] # <<>> => Hand(c) = j
    BY <1>0, <1>3, TheJob DEF Waits, Ends, Job, TypeInv, CallType
  <2>1. base[c].pid <= runs[j] /\ base'[c].pid <= runs'[j]
    <3>1. base[c].pid <= runs[j]
      BY <1>3 DEF SeesInv, SeesOf, Waits
    <3> QED BY <1>3, <2>0, <3>1, RunsGrow
  <2>2. Kept(j) \/ Asked(j, c)
    BY <2>0, ClientChanges DEF SupChange
  <2>3. ASSUME pc[c] \in {"apply", "activate", "confirm"}
        PROVE  /\ seen[c][j] \in Entries /\ seen[c][j].pid <= runs[j] /\ EntryOk(seen[c][j]) /\ Hand(c) = j
               /\ Followed(seen[c][j], proc[j], base[c].pid) /\ Followed(seen[c][j], proc'[j], base[c].pid)
    <3>1. EntryOk(seen[c][j]) /\ Followed(seen[c][j], proc[j], base[c].pid)
      BY <2>0, <2>3 DEF SeesInv, SeesOf
    <3>2. todo[c] # <<>> /\ Renews(c) /\ Hand(c) = j
      BY <2>0, <2>3 DEF PlaceInv, PlaceOf, Handing, Renews
    <3>3. seen[c][j] # None /\ seen[c][j].pid <= runs[j]
      BY <3>2 DEF RestartInv, RestartOf
    <3>4. seen[c][j] \in Entries
      BY <2>0, <3>3 DEF TypeInv, SeenType
    <3> QED BY <2>0, <2>1, <2>2, <3>1, <3>2, <3>3, <3>4, FollowedStays
  <2>4. ASSUME pc'[c] \in {"apply", "activate", "confirm"}
        PROVE  EntryOk(seen'[c][j]) /\ Followed(seen'[c][j], proc'[j], base[c].pid)
    <3>1. CASE ReadBefore(c)
      <4>1. /\ pc[c] = "before" /\ todo[c] # <<>> /\ UNCHANGED sup
            /\ seen' = [seen EXCEPT ![c][Hand(c)] = Now(c)]
        BY <2>4, <3>1 DEF ReadBefore, OnlyTo, Goto, TypeInv, CallType
      <4>2. seen'[c][j] = proc[j] /\ proc' = proc
        BY <2>0, <4>1 DEF Now, sup, TypeInv, SeenType
      <4> QED BY <2>0, <4>2, JobIs DEF Followed
    <3>2. ASSUME NEW b \in BOOLEAN, UpdateProcess(c, b)
          PROVE  pc[c] \in {"apply", "activate", "confirm"} /\ seen' = seen
      <4>1. pc[c] = "apply"
        BY <2>0, <3>2, AtWork DEF UpdateProcess, Posts, PlacesOf, Verbs
      <4> QED BY <2>0, <2>4, <3>2, <4>1 DEF UpdateProcess, OnlyTo, Sent, Keeps, Goto, TypeInv, CallType
    <3>3. ASSUME NEW Q \in SUBSET Procs, AddMissing(c, Q)
          PROVE  pc[c] \in {"apply", "activate", "confirm"} /\ seen' = seen
      <4>1. pc[c] = "apply"
        BY <2>0, <3>3, AtWork DEF AddMissing, Posts, PlacesOf, Verbs
      <4> QED BY <3>3, <4>1 DEF AddMissing, Keeps
    <3>4. CASE Activate(c)
      BY <2>0, <2>3, <2>4, <3>4 DEF Activate, OnlyTo, Sent, Keeps, Goto, TypeInv, CallType
    <3>5. ~Confirm(c)
      BY <2>4 DEF Confirm, OnlyTo, Advance, Applied, Goto, TypeInv, CallType
    <3>6. Renews(c)'
      BY <1>0, <2>4 DEF Renews
    <3> QED BY <2>3, <3>1, <3>2, <3>3, <3>4, <3>5, <3>6, RenewSteps
  <2>5. ASSUME pc'[c] = "poll" PROVE Awaited(proc'[j], base[c].pid)
    <3>1. CASE Confirm(c)
      <4>1. /\ pc[c] = "confirm" /\ proc' = proc
            /\ ProcessRelaunched(seen[c][Hand(c)], Now(c))
        BY <2>0, <2>5, <3>1 DEF Confirm, OnlyTo, Goto, sup, TypeInv, CallType
      <4>2. /\ Followed(seen[c][j], proc[j], base[c].pid) /\ EntryOk(seen[c][j]) /\ Hand(c) = j
        BY <2>3, <4>1
      <4>3. seen[c][j].st = "absent" => seen[c][j].pid = 0
        BY <4>2 DEF EntryOk, Absent
      <4> QED BY <4>1, <4>2, <4>3 DEF ProcessRelaunched, Followed, Awaited, Now
    <3>2. ASSUME NEW b \in BOOLEAN, RestartProcess(c, b) PROVE Awaited(proc'[j], base[c].pid)
      <4>1. pc[c] = "restart" /\ Hand(c) = j
        BY <2>0, <3>2 DEF RestartProcess, PlaceInv, PlaceOf, Handing
      <4>2. proc'[j].due # "no"
        BY <2>5, <3>2, <4>1, RestartAsks
      <4> QED BY <4>2 DEF Awaited
    <3> QED BY <1>3, <2>5, <3>1, <3>2, RenewalsEnd
  <2> QED BY <1>3, <2>0, <2>1, <2>4, <2>5 DEF SeesOf
<1> QED BY <1>1, <1>2, <1>3, WaitSteps

LEMMA SeesStep ==
  ASSUME TypeInv, PlaceInv, EntryInv, RestartInv, LiveInv, SeesInv, [Next]_vars
  PROVE  SeesInv'
<1>1. ASSUME NEW d \in Clients, Foreign(d) PROVE SeesOf(d)'
  <2> SUFFICES ASSUME Waits(d)' PROVE SeesOf(d)'
    BY DEF SeesOf, Waits
  <2> DEFINE j == Job(d)
  <2>1. /\ pc'[d] = pc[d] /\ op'[d] = op[d] /\ base'[d] = base[d] /\ seen'[d] = seen[d] /\ Waits(d) /\ j' = j
    BY <1>1 DEF Foreign, Same, Waits, Job
  <2>2. /\ j \in Jobs /\ j \in Procs /\ op[d].verb = "run" /\ base[d].pid \in Nat
        /\ todo[d] # <<>> => Hand(d) = j
    BY <2>1, TheJob DEF Waits, Ends, TypeInv, CallType
  <2>3. base[d].pid <= runs[j] /\ base[d].pid <= runs'[j]
    <3>1. base[d].pid <= runs[j]
      BY <2>1 DEF SeesInv, SeesOf, Waits
    <3> QED BY <2>2, <3>1, RunsGrow
  <2>4. Kept(j) \/ Itself(j) \/ \E c : Asked(j, c)
    BY <1>1, <2>2 DEF Foreign
  <2>5. ASSUME pc[d] \in {"apply", "activate", "confirm"}
        PROVE  EntryOk(seen[d][j]) /\ Followed(seen[d][j], proc'[j], base[d].pid)
    <3>1. EntryOk(seen[d][j]) /\ Followed(seen[d][j], proc[j], base[d].pid)
      BY <2>2, <2>5 DEF SeesInv, SeesOf
    <3>2. todo[d] # <<>> /\ Renews(d) /\ Hand(d) = j
      BY <2>2, <2>5 DEF PlaceInv, PlaceOf, Handing, Renews
    <3>3. seen[d][j] # None /\ seen[d][j].pid <= runs[j]
      BY <3>2 DEF RestartInv, RestartOf
    <3>4. seen[d][j] \in Entries
      BY <2>2, <3>3 DEF TypeInv, SeenType
    <3> QED BY <2>2, <2>3, <2>4, <3>1, <3>3, <3>4, FollowedStays
  <2>6. ASSUME pc[d] = "poll" PROVE Awaited(proc'[j], base[d].pid)
    <3>1. Awaited(proc[j], base[d].pid)
      BY <2>2, <2>6 DEF SeesInv, SeesOf
    <3> QED BY <2>2, <2>3, <2>4, <3>1, AwaitedStays
  <2> QED BY <2>1, <2>3, <2>5, <2>6 DEF SeesOf
<1> QED BY <1>1, SeesOwn, EveryStep DEF AnyStep, World, SeesInv

-----------------------------------------------------------------------------
(* What a step of an up, a restart or a run does.                             *)

Begins(c) == /\ pc[c] = "idle" /\ pc'[c] = "lock" /\ proc' = proc
             /\ todo'[c] = <<>> /\ seen'[c] = NoSeen
OnlyHand(c) == \A p \in Procs : p # Hand(c) => proc'[p] = proc[p]

(* It gets ready, works at the process at hand, or goes past it.               *)
Readies(c) ==
  /\ pc[c] \in Early /\ pc'[c] \in Early \cup {"await", "read", "before"}
  /\ seen'[c] = seen[c] /\ (todo'[c] = todo[c] \/ Distinct(todo'[c]))
  /\ proc' = proc \/ pc'[c] = "await"
  /\ pc'[c] = "read" => ReadFile(c)
Passing(c) ==
  \/ UpLeaves(c) \/ Activate(c) \/ Confirm(c)
  \/ \E b \in BOOLEAN : UpdateProcess(c, b) \/ StartProcess(c, b) \/ RestartProcess(c, b)
Works(c) ==
  /\ pc[c] \in {"apply", "up", "activate", "confirm"} /\ pc'[c] \in Bringing
  /\ todo[c] # <<>> /\ todo'[c] = todo[c] /\ seen'[c] = seen[c]
  /\ \/ OnlyHand(c) /\ pc'[c] # "activate" /\ Passing(c)
     \/ \E P \in SUBSET Procs : AddMissing(c, P)
Passes(c) ==
  /\ Passing(c) /\ pc[c] \in {"apply", "up"} \cup Bringing
  /\ IF op[c].verb = "up" THEN pc'[c] = "up" ELSE pc'[c] \in {"before", "poll"}
  /\ todo[c] # <<>> /\ todo'[c] = Tail(todo[c]) /\ seen'[c] = [seen[c] EXCEPT ![Hand(c)] = None]
  /\ OnlyHand(c)
Polls(c) == /\ pc[c] = "poll" /\ pc'[c] = "poll" /\ proc' = proc
            /\ todo'[c] = todo[c] /\ seen'[c] = seen[c]
GoesOn(c) == /\ AtIt(c) /\ op'[c] = op[c] /\ touched'[c] = touched[c]
             /\ Readies(c) \/ UpRead(c) \/ ReadBefore(c) \/ Works(c) \/ Passes(c) \/ Polls(c)

LEMMA OneAlone ==
  ASSUME TypeInv, NEW c \in Clients, NEW p \in Procs, NEW n, ChangesOne(c, p, n)
  PROVE  touched'[c] = touched[c] /\ \A q \in Procs : q # p => proc'[q] = proc[q]
<1> DEFINE new == [q \in {p} |-> n]
<1>1. Changes(c, new) /\ DOMAIN new = {p}
  BY DEF ChangesOne
<1> HIDE DEF new
<1> QED BY <1>1, ChangesAt, OwnUntouched

LEMMA Advanced ==
  ASSUME TypeInv, PlaceInv, NEW c \in Clients, NEW l, Advance(c, l), todo[c] # <<>>
  PROVE  /\ pc'[c] = l /\ op'[c] = op[c] /\ todo'[c] = Tail(todo[c])
         /\ seen'[c] = [seen[c] EXCEPT ![Hand(c)] = None]
  BY DEF Advance, Goto, TypeInv, CallType, TodoType, SeenType

LEMMA Brings ==
  ASSUME TypeInv, PlaceInv, EntryInv, NEW c \in Clients, Asks(c) \/ Poll(c)
  PROVE  AtIt(c)' => Begins(c) \/ GoesOn(c)
<1>1. ASSUME NEW r \in Requests, Begin(c, r)
      PROVE  AtIt(c)' => Begins(c) \/ GoesOn(c)
  <2>1. AtIt(c)' => pc'[c] = "lock"
    BY <1>1, Facts DEF Begin, Goto, AtIt, TypeInv, CallType, Verbs, Ends
  <2>2. pc[c] = "idle" /\ seen[c] = NoSeen /\ todo[c] = <<>>
    BY <1>1 DEF Begin, PlaceInv, PlaceOf
  <2> QED BY <1>1, <2>1, <2>2 DEF Begin, Begins, sup, TypeInv, CallType
<1>2. CASE Rest(c)
  <2>1. pc'[c] = "idle"
    BY <1>2 DEF Rest, Goto, TypeInv, CallType
  <2> QED BY <2>1 DEF AtIt
<1>3. CASE Prepare(c)
  <2>1. op' = op /\ seen' = seen /\ pc[c] \in Early /\ touched'[c] = touched[c]
    BY <1>3 DEF Prepare, Goto, OnlyTo, Keeps, env, sup, ghost, Early, TypeInv, CallType
  <2>2. AtIt(c)' => /\ pc'[c] \in Early \cup {"await", "read", "before"} /\ AtIt(c)
                    /\ todo'[c] = todo[c] \/ Distinct(todo'[c])
                    /\ proc' = proc \/ pc'[c] = "await"
                    /\ pc'[c] # "read"
    BY <1>3, <2>1 DEF Prepare, Goto, OnlyTo, Keeps, env, sup, ghost, Early, AtIt, Ends, TypeInv, CallType,
         TodoType
  <2> QED BY <2>1, <2>2 DEF GoesOn, Readies
<1>4. CASE PrepareRun(c)
  <2>1. op' = op /\ seen' = seen /\ pc[c] \in Early /\ touched'[c] = touched[c]
    BY <1>4 DEF PrepareRun, Goto, OnlyTo, Keeps, env, sup, ghost, Early, TypeInv, CallType
  <2>2. Distinct(SetToSeq(op[c].names)) /\ Distinct(<<>>)
    BY <1>4, AtWork, NamesAsSeq DEF PrepareRun, Distinct
  <2>3. AtIt(c)' => /\ pc'[c] \in Early \cup {"await", "read", "before"} /\ AtIt(c)
                    /\ todo'[c] = todo[c] \/ Distinct(todo'[c])
                    /\ proc' = proc \/ pc'[c] = "await"
                    /\ pc'[c] # "read"
    BY <1>4, <2>1, <2>2 DEF PrepareRun, Goto, OnlyTo, Keeps, env, sup, ghost, Early, AtIt, Ends, TypeInv,
         CallType, TodoType
  <2> QED BY <2>1, <2>3 DEF GoesOn, Readies
<1>5. CASE LoadStack(c)
  <2>1. op' = op /\ seen' = seen /\ pc[c] \in Early /\ touched'[c] = touched[c]
    BY <1>5 DEF LoadStack, Goto, OnlyTo, Keeps, env, sup, ghost, Early, TypeInv, CallType
  <2>2. Distinct(SetToSeq(op[c].names)) /\ Distinct(<<>>)
    BY <1>5, AtWork, NamesAsSeq DEF LoadStack, Distinct
  <2>3. AtIt(c)' => /\ pc'[c] \in Early \cup {"await", "read", "before"} /\ AtIt(c)
                    /\ todo'[c] = todo[c] \/ Distinct(todo'[c])
                    /\ proc' = proc \/ pc'[c] = "await"
                    /\ pc'[c] # "read"
    BY <1>5, <2>1, <2>2 DEF LoadStack, Goto, OnlyTo, Keeps, env, sup, ghost, Early, AtIt, Ends, TypeInv,
         CallType, TodoType
  <2> QED BY <2>1, <2>3 DEF GoesOn, Readies
<1>6. CASE Probe(c)
  <2>1. op' = op /\ seen' = seen /\ pc[c] \in Early /\ touched'[c] = touched[c]
    BY <1>6 DEF Probe, Goto, OnlyTo, Keeps, env, sup, ghost, Early, TypeInv, CallType
  <2>2. AtIt(c)' => /\ pc'[c] \in Early \cup {"await", "read", "before"} /\ AtIt(c)
                    /\ todo'[c] = todo[c] \/ Distinct(todo'[c])
                    /\ proc' = proc \/ pc'[c] = "await"
                    /\ pc'[c] # "read"
    BY <1>6, <2>1 DEF Probe, Goto, OnlyTo, Keeps, env, sup, ghost, Early, AtIt, Ends, TypeInv, CallType,
         TodoType
  <2> QED BY <2>1, <2>2 DEF GoesOn, Readies
<1>7. CASE UpDaemon(c)
  <2>1. /\ op' = op /\ seen' = seen /\ todo' = todo
        /\ pc'[c] \in {"await", "failed"} /\ pc[c] = "daemon"
    BY <1>7 DEF UpDaemon, OnlyTo, Goto, Keeps, TypeInv, CallType
  <2>2. touched' = touched \/ touched' = Touch(c, Procs)
    BY <1>7 DEF UpDaemon, OnlyTo, ghost
  <2>3. touched'[c] = touched[c]
    BY <2>2 DEF Touch
  <2> QED BY <2>1, <2>3 DEF GoesOn, Readies, AtIt, Ends, Early
<1>8. CASE AwaitSupervisor(c)
  <2>1. pc'[c] \in Ends
    BY <1>8 DEF AwaitSupervisor, OnlyTo, Goto, Ends, TypeInv, CallType
  <2> QED BY <2>1 DEF AtIt
<1>9. CASE ReadFile(c)
  <2>1. op' = op /\ seen' = seen /\ pc[c] \in Early /\ touched'[c] = touched[c]
    BY <1>9 DEF ReadFile, Goto, OnlyTo, Keeps, env, sup, ghost, Early, TypeInv, CallType
  <2>2. file # 0 => Local[file] \in SUBSET Procs
    BY Facts DEF TypeInv, EnvType, Versions
  <2>3. \A roots : file # 0 => Distinct(UpOrder(roots, Local[file]))
    BY <2>2, OrderTyped
  <2>4. AtIt(c)' => /\ pc'[c] \in Early \cup {"await", "read", "before"} /\ AtIt(c)
                    /\ todo'[c] = todo[c] \/ Distinct(todo'[c])
                    /\ proc' = proc \/ pc'[c] = "await"
    BY <1>9, <2>1, <2>3 DEF ReadFile, Goto, OnlyTo, Keeps, env, sup, ghost, Early, AtIt, Ends, TypeInv,
         CallType, TodoType
  <2> QED BY <1>9, <2>1, <2>4 DEF GoesOn, Readies
<1>10. CASE UpRead(c)
  <2>1. op' = op /\ touched' = touched /\ pc[c] \notin Ends \cup {"idle"}
    BY <1>10 DEF UpRead, Goto, OnlyTo, Keeps, env, sup, ghost, Ends
  <2> QED BY <1>10, <2>1 DEF GoesOn, AtIt
<1>11. CASE UpLeaves(c)
  <2>1. pc[c] \in {"up"} /\ op[c] \in Requests /\ pc[c] \in PlacesOf(op[c].verb) /\ op[c].verb \in Verbs
    BY <1>11, AtWork DEF UpLeaves, Posts
  <2>2. proc' = proc /\ touched' = touched
    BY <1>11 DEF UpLeaves, OnlyTo, sup, ghost
  <2>3. OnlyHand(c) /\ touched'[c] = touched[c]
    BY <2>2 DEF OnlyHand
  <2>4. \/ pc'[c] \in Ends
        \/ todo[c] # <<>> /\ Advance(c, "up")
    BY <1>11 DEF UpLeaves, OnlyTo, Goto, Keeps, Ends, Bringing, TypeInv, CallType
  <2>5. pc[c] \notin Ends \cup {"idle"}
    BY <2>1 DEF Ends
  <2>6. op[c].verb = "up"
    BY <2>1 DEF PlacesOf, Verbs
  <2>7. ASSUME Advance(c, "up"), AtIt(c)', todo[c] # <<>> PROVE GoesOn(c)
    <3>1. /\ pc'[c] = "up" /\ op'[c] = op[c] /\ todo'[c] = Tail(todo[c])
          /\ seen'[c] = [seen[c] EXCEPT ![Hand(c)] = None]
      BY <2>7, Advanced
    <3>2. IF op[c].verb = "up" THEN pc'[c] = "up" ELSE pc'[c] \in {"before", "poll"}
      BY <3>1, <2>6
    <3>3. Passing(c)
      BY <1>11 DEF Passing
    <3>4. AtIt(c)
      BY <2>7, <2>5, <3>1 DEF AtIt
    <3> QED BY <2>1, <2>3, <2>7, <3>1, <3>2, <3>3, <3>4 DEF GoesOn, Passes, Bringing
  <2> QED BY <2>4, <2>7 DEF AtIt
<1>12. CASE ReadBaseline(c)
  <2>1. op' = op /\ seen' = seen /\ pc[c] \in Early /\ touched'[c] = touched[c]
    BY <1>12 DEF ReadBaseline, Goto, OnlyTo, Keeps, env, sup, ghost, Early, TypeInv, CallType
  <2>2. AtIt(c)' => /\ pc'[c] \in Early \cup {"await", "read", "before"} /\ AtIt(c)
                    /\ todo'[c] = todo[c] \/ Distinct(todo'[c])
                    /\ proc' = proc \/ pc'[c] = "await"
                    /\ pc'[c] # "read"
    BY <1>12, <2>1 DEF ReadBaseline, Goto, OnlyTo, Keeps, env, sup, ghost, Early, AtIt, Ends, TypeInv,
         CallType, TodoType
  <2> QED BY <2>1, <2>2 DEF GoesOn, Readies
<1>13. CASE ReadBefore(c)
  <2>1. op' = op /\ touched' = touched /\ pc[c] \notin Ends \cup {"idle"}
    BY <1>13 DEF ReadBefore, Goto, OnlyTo, Keeps, env, sup, ghost, Ends
  <2> QED BY <1>13, <2>1 DEF GoesOn, AtIt
<1>14. ASSUME NEW posted \in BOOLEAN, UpdateProcess(c, posted)
      PROVE  AtIt(c)' => Begins(c) \/ GoesOn(c)
  <2>1. pc[c] \in {"apply", "up"} /\ op[c] \in Requests /\ pc[c] \in PlacesOf(op[c].verb) /\ op[c].verb \in Verbs
    BY <1>14, AtWork DEF UpdateProcess, Posts
  <2>2. Hand(c) \in Procs
    BY <1>14, AtHand DEF UpdateProcess, Posts, PlaceInv, PlaceOf, Handing
  <2>0. (\E n : ChangesOne(c, Hand(c), n)) \/ (proc' = proc /\ touched' = touched)
    BY <1>14 DEF UpdateProcess, OnlyTo, sup, ghost
  <2>3. OnlyHand(c) /\ touched'[c] = touched[c]
    BY <2>0, <2>2, OneAlone DEF OnlyHand
  <2>4. \/ pc'[c] \in Ends
        \/ op[c].verb = "up" /\ Advance(c, "up")
        \/ op' = op /\ todo' = todo /\ seen' = seen /\ pc'[c] \in Bringing \ {"activate"}
    BY <1>14 DEF UpdateProcess, OnlyTo, Goto, Sent, Keeps, Ends, Bringing, TypeInv, CallType
  <2>5. todo[c] # <<>> /\ pc[c] \notin Ends \cup {"idle"}
    BY <1>14, <2>1 DEF PlaceInv, PlaceOf, Handing, Ends, UpdateProcess, Posts
  <2>7. ASSUME Advance(c, "up"), AtIt(c)', op[c].verb = "up" PROVE GoesOn(c)
    <3>1. /\ pc'[c] = "up" /\ op'[c] = op[c] /\ todo'[c] = Tail(todo[c])
          /\ seen'[c] = [seen[c] EXCEPT ![Hand(c)] = None]
      BY <2>7, <2>5, Advanced
    <3>2. IF op[c].verb = "up" THEN pc'[c] = "up" ELSE pc'[c] \in {"before", "poll"}
      BY <3>1, <2>7
    <3>3. Passing(c)
      BY <1>14 DEF Passing
    <3>4. AtIt(c)
      BY <2>7, <2>5, <3>1 DEF AtIt
    <3> QED BY <2>1, <2>3, <2>5, <3>1, <3>2, <3>3, <3>4 DEF GoesOn, Passes, Bringing
  <2>8. ASSUME op' = op, todo' = todo, seen' = seen, pc'[c] \in Bringing \ {"activate"}, AtIt(c)'
       PROVE  GoesOn(c)
    <3>1. Passing(c)
      BY <1>14 DEF Passing
    <3> QED BY <2>1, <2>3, <2>5, <2>8, <3>1 DEF GoesOn, Works, AtIt
  <2> QED BY <2>4, <2>7, <2>8 DEF AtIt
<1>15. ASSUME NEW P \in SUBSET Procs, AddMissing(c, P)
      PROVE  AtIt(c)' => Begins(c) \/ GoesOn(c)
  <2>1. /\ op' = op /\ todo' = todo /\ seen' = seen /\ pc'[c] = "activate" /\ pc[c] \in {"apply", "up"}
        /\ todo[c] # <<>>
    BY <1>15 DEF AddMissing, Keeps, Goto, Posts, PlaceInv, PlaceOf, Handing, TypeInv, CallType
  <2>2. touched'[c] = touched[c]
    BY <1>15, AddMissingAsks
  <2> QED BY <1>15, <2>1, <2>2 DEF GoesOn, Works, Bringing, AtIt, Ends
<1>16. CASE Activate(c)
  <2>1. pc[c] \in {"activate"} /\ op[c] \in Requests /\ pc[c] \in PlacesOf(op[c].verb) /\ op[c].verb \in Verbs
    BY <1>16, AtWork DEF Activate, Posts
  <2>2. Hand(c) \in Procs
    BY <2>1, AtHand DEF PlaceInv, PlaceOf, Handing
  <2>0. (\E n : ChangesOne(c, Hand(c), n)) \/ (proc' = proc /\ touched' = touched)
    BY <1>16 DEF Activate, OnlyTo, sup, ghost
  <2>3. OnlyHand(c) /\ touched'[c] = touched[c]
    BY <2>0, <2>2, OneAlone DEF OnlyHand
  <2>4. \/ pc'[c] \in Ends
        \/ op[c].verb = "up" /\ Advance(c, "up")
        \/ op' = op /\ todo' = todo /\ seen' = seen /\ pc'[c] \in Bringing \ {"activate"}
    BY <1>16 DEF Activate, OnlyTo, Goto, Sent, Keeps, Ends, Bringing, TypeInv, CallType
  <2>5. todo[c] # <<>> /\ pc[c] \notin Ends \cup {"idle"}
    BY <1>16, <2>1 DEF PlaceInv, PlaceOf, Handing, Ends
  <2>7. ASSUME Advance(c, "up"), AtIt(c)', op[c].verb = "up" PROVE GoesOn(c)
    <3>1. /\ pc'[c] = "up" /\ op'[c] = op[c] /\ todo'[c] = Tail(todo[c])
          /\ seen'[c] = [seen[c] EXCEPT ![Hand(c)] = None]
      BY <2>7, <2>5, Advanced
    <3>2. IF op[c].verb = "up" THEN pc'[c] = "up" ELSE pc'[c] \in {"before", "poll"}
      BY <3>1, <2>7
    <3>3. Passing(c)
      BY <1>16 DEF Passing
    <3>4. AtIt(c)
      BY <2>7, <2>5, <3>1 DEF AtIt
    <3> QED BY <2>1, <2>3, <2>5, <3>1, <3>2, <3>3, <3>4 DEF GoesOn, Passes, Bringing
  <2>8. ASSUME op' = op, todo' = todo, seen' = seen, pc'[c] \in Bringing \ {"activate"}, AtIt(c)'
       PROVE  GoesOn(c)
    <3>1. Passing(c)
      BY <1>16 DEF Passing
    <3> QED BY <2>1, <2>3, <2>5, <2>8, <3>1 DEF GoesOn, Works, AtIt
  <2> QED BY <2>4, <2>7, <2>8 DEF AtIt
<1>17. CASE Confirm(c)
  <2>1. pc[c] \in {"confirm"} /\ op[c] \in Requests /\ pc[c] \in PlacesOf(op[c].verb) /\ op[c].verb \in Verbs
    BY <1>17, AtWork DEF Confirm, Posts
  <2>2. proc' = proc /\ touched' = touched
    BY <1>17 DEF Confirm, OnlyTo, sup, ghost
  <2>3. OnlyHand(c) /\ touched'[c] = touched[c]
    BY <2>2 DEF OnlyHand
  <2>4. \/ pc'[c] \in Ends
        \/ Advance(c, Applied(c))
        \/ op' = op /\ todo' = todo /\ seen' = seen /\ pc'[c] \in Bringing \ {"activate"}
    BY <1>17 DEF Confirm, OnlyTo, Goto, Keeps, Ends, Bringing, TypeInv, CallType
  <2>5. todo[c] # <<>> /\ pc[c] \notin Ends \cup {"idle"}
    BY <1>17, <2>1 DEF PlaceInv, PlaceOf, Handing, Ends
  <2>7. ASSUME Advance(c, Applied(c)), AtIt(c)' PROVE GoesOn(c)
    <3>1. /\ pc'[c] = Applied(c) /\ op'[c] = op[c] /\ todo'[c] = Tail(todo[c])
          /\ seen'[c] = [seen[c] EXCEPT ![Hand(c)] = None]
      BY <2>7, <2>5, Advanced
    <3>2. IF op[c].verb = "up" THEN pc'[c] = "up" ELSE pc'[c] \in {"before", "poll"}
      BY <3>1 DEF Applied
    <3>3. Passing(c)
      BY <1>17 DEF Passing
    <3>4. AtIt(c)
      BY <2>7, <2>5, <3>1 DEF AtIt
    <3> QED BY <2>1, <2>3, <2>5, <3>1, <3>2, <3>3, <3>4 DEF GoesOn, Passes, Bringing
  <2>8. ASSUME op' = op, todo' = todo, seen' = seen, pc'[c] \in Bringing \ {"activate"}, AtIt(c)'
       PROVE  GoesOn(c)
    <3>1. Passing(c)
      BY <1>17 DEF Passing
    <3> QED BY <2>1, <2>3, <2>5, <2>8, <3>1 DEF GoesOn, Works, AtIt
  <2> QED BY <2>4, <2>7, <2>8 DEF AtIt
<1>18. ASSUME NEW reuse \in BOOLEAN, StartProcess(c, reuse)
      PROVE  AtIt(c)' => Begins(c) \/ GoesOn(c)
  <2>1. pc[c] \in {"start"} /\ op[c] \in Requests /\ pc[c] \in PlacesOf(op[c].verb) /\ op[c].verb \in Verbs
    BY <1>18, AtWork DEF StartProcess, Posts
  <2>2. Hand(c) \in Procs
    BY <2>1, AtHand DEF PlaceInv, PlaceOf, Handing
  <2>0. (\E n : ChangesOne(c, Hand(c), n)) \/ (proc' = proc /\ touched' = touched)
    BY <1>18 DEF StartProcess, OnlyTo, sup, ghost
  <2>3. OnlyHand(c) /\ touched'[c] = touched[c]
    BY <2>0, <2>2, OneAlone DEF OnlyHand
  <2>4. pc'[c] \in Ends \/ Advance(c, "up")
    BY <1>18 DEF StartProcess, OnlyTo, Goto, Keeps, Ends, Bringing, TypeInv, CallType
  <2>5. todo[c] # <<>> /\ pc[c] \notin Ends \cup {"idle"}
    BY <1>18, <2>1 DEF PlaceInv, PlaceOf, Handing, Ends
  <2>6. op[c].verb = "up"
    BY <2>1 DEF PlacesOf, Verbs
  <2>7. ASSUME Advance(c, "up"), AtIt(c)' PROVE GoesOn(c)
    <3>1. /\ pc'[c] = "up" /\ op'[c] = op[c] /\ todo'[c] = Tail(todo[c])
          /\ seen'[c] = [seen[c] EXCEPT ![Hand(c)] = None]
      BY <2>7, <2>5, Advanced
    <3>2. IF op[c].verb = "up" THEN pc'[c] = "up" ELSE pc'[c] \in {"before", "poll"}
      BY <3>1, <2>6
    <3>3. Passing(c)
      BY <1>18 DEF Passing
    <3>4. AtIt(c)
      BY <2>7, <2>5, <3>1 DEF AtIt
    <3> QED BY <2>1, <2>3, <2>5, <3>1, <3>2, <3>3, <3>4 DEF GoesOn, Passes, Bringing
  <2> QED BY <2>4, <2>7 DEF AtIt
<1>19. ASSUME NEW reuse \in BOOLEAN, RestartProcess(c, reuse)
      PROVE  AtIt(c)' => Begins(c) \/ GoesOn(c)
  <2>1. pc[c] \in {"restart"} /\ op[c] \in Requests /\ pc[c] \in PlacesOf(op[c].verb) /\ op[c].verb \in Verbs
    BY <1>19, AtWork DEF RestartProcess, Posts
  <2>2. Hand(c) \in Procs
    BY <2>1, AtHand DEF PlaceInv, PlaceOf, Handing
  <2>0. (\E n : ChangesOne(c, Hand(c), n)) \/ (proc' = proc /\ touched' = touched)
    BY <1>19 DEF RestartProcess, OnlyTo, sup, ghost
  <2>3. OnlyHand(c) /\ touched'[c] = touched[c]
    BY <2>0, <2>2, OneAlone DEF OnlyHand
  <2>4. pc'[c] \in Ends \/ Advance(c, Applied(c))
    BY <1>19 DEF RestartProcess, OnlyTo, Goto, Keeps, Ends, Bringing, TypeInv, CallType
  <2>5. todo[c] # <<>> /\ pc[c] \notin Ends \cup {"idle"}
    BY <1>19, <2>1 DEF PlaceInv, PlaceOf, Handing, Ends
  <2>7. ASSUME Advance(c, Applied(c)), AtIt(c)' PROVE GoesOn(c)
    <3>1. /\ pc'[c] = Applied(c) /\ op'[c] = op[c] /\ todo'[c] = Tail(todo[c])
          /\ seen'[c] = [seen[c] EXCEPT ![Hand(c)] = None]
      BY <2>7, <2>5, Advanced
    <3>2. IF op[c].verb = "up" THEN pc'[c] = "up" ELSE pc'[c] \in {"before", "poll"}
      BY <3>1 DEF Applied
    <3>3. Passing(c)
      BY <1>19 DEF Passing
    <3>4. AtIt(c)
      BY <2>7, <2>5, <3>1 DEF AtIt
    <3> QED BY <2>1, <2>3, <2>5, <3>1, <3>2, <3>3, <3>4 DEF GoesOn, Passes, Bringing
  <2> QED BY <2>4, <2>7 DEF AtIt
<1>20. ASSUME NEW reuse \in BOOLEAN, StartNamed(c, reuse)
      PROVE  AtIt(c)' => Begins(c) \/ GoesOn(c)
  <2>1. op' = op /\ op[c].verb \notin {"up", "restart", "run"}
    BY <1>20, AtWork DEF StartNamed, Goto, OnlyTo, Keeps, env, sup, ghost, PlacesOf, Verbs
  <2> QED BY <2>1 DEF AtIt
<1>21. CASE StopRead(c)
  <2>1. op' = op /\ op[c].verb \notin {"up", "restart", "run"}
    BY <1>21, AtWork DEF StopRead, Goto, OnlyTo, Keeps, env, sup, ghost, PlacesOf, Verbs
  <2> QED BY <2>1 DEF AtIt
<1>22. CASE ProcessStop(c)
  <2>1. op' = op /\ op[c].verb \notin {"up", "restart", "run"}
    BY <1>22, AtWork DEF ProcessStop, Goto, OnlyTo, Keeps, env, sup, ghost, PlacesOf, Verbs
  <2> QED BY <2>1 DEF AtIt
<1>23. CASE StopCheck(c)
  <2>1. op' = op /\ op[c].verb \notin {"up", "restart", "run"}
    BY <1>23, AtWork DEF StopCheck, Goto, OnlyTo, Keeps, env, sup, ghost, Advance, PlacesOf, Verbs
  <2> QED BY <2>1 DEF AtIt
<1>24. CASE StackDown(c)
  <2>1. op' = op /\ op[c].verb \notin {"up", "restart", "run"}
    BY <1>24, AtWork DEF StackDown, Goto, OnlyTo, Keeps, env, sup, ghost, PlacesOf, Verbs
  <2> QED BY <2>1 DEF AtIt
<1>25. CASE Kill(c)
  <2>1. pc'[c] \in Ends
    BY <1>25 DEF Kill, OnlyTo, Goto, Ends, TypeInv, CallType
  <2> QED BY <2>1 DEF AtIt
<1>26. CASE Poll(c)
  <2>1. op' = op /\ touched' = touched /\ proc' = proc /\ todo' = todo /\ seen' = seen /\ pc[c] = "poll"
    BY <1>26 DEF Poll, Goto, OnlyTo, Keeps, env, sup, ghost
  <2>2. pc'[c] \in {"poll", "answered"}
    BY <1>26 DEF Poll, Goto, OnlyTo, Keeps, env, sup, ghost, TypeInv, CallType
  <2> QED BY <2>1, <2>2 DEF GoesOn, Polls, AtIt, Ends
<1> QED BY <1>1, <1>2, <1>3, <1>4, <1>5, <1>6, <1>7, <1>8, <1>9, <1>10, <1>11, <1>12, <1>13, <1>14, <1>15,
          <1>16, <1>17, <1>18, <1>19, <1>20, <1>21, <1>22, <1>23, <1>24, <1>25, <1>26 DEF Asks

-----------------------------------------------------------------------------
(* The states that a call holds.                                               *)

LEMMA NoneSeen == NoSeen = [p \in Procs |-> None] /\ \A p \in Procs : NoSeen[p] = None
  BY DEF NoSeen

LEMMA LeastNat == ASSUME NEW T, T \subseteq Nat, T # {} PROVE \E x \in T : \A y \in T : x <= y
<1> DEFINE R == OpToRel(<, Nat)
<1>1. IsWellFoundedOn(R, Nat)
  BY NatLessThanWellFounded
<1>2. \A x, y \in Nat : x < y => <<x, y>> \in R
  BY DEF OpToRel
<1> HIDE DEF R
<1>3. PICK x \in T : \A y \in T : ~ (<<y, x>> \in R)
  BY <1>1, WFMin
<1>4. ASSUME NEW y \in T PROVE x <= y
  <2>1. x \in Nat /\ y \in Nat /\ ~ (y < x)
    BY <1>2, <1>3, <1>4
  <2> QED BY <2>1
<1> QED BY <1>4

LEMMA LookReads ==
  ASSUME TypeInv, PlaceInv, EntryInv, LiveInv, LookInv, AheadInv, NEW c \in Clients, AtIt(c), op'[c] = op[c],
         touched'[c] = touched[c], UpRead(c), AtIt(c)'
  PROVE  LookOf(c)'
<1> DEFINE left == {i \in DOMAIN todo[c] : seen[c][todo[c][i]] = None}
           k == CHOOSE i \in left : \A m \in left : i <= m
           next == todo[c][k]
<1>1. op[c].verb = "up" /\ pc[c] = "read"
  BY AtWork DEF UpRead, PlacesOf, Verbs
<1>2. LookOf(c) /\ AheadOf(c)
  BY DEF LookInv, AheadInv
<1>3. /\ todo[c] \in Seq(Procs) /\ DOMAIN todo[c] = 1..Len(todo[c]) /\ Len(todo[c]) \in Nat
      /\ \A i \in DOMAIN todo[c] : todo[c][i] \in Procs /\ todo[c][i] \in ToSet(todo[c])
      /\ \A p \in ToSet(todo[c]) : p \in Procs /\ \E i \in DOMAIN todo[c] : p = todo[c][i]
  BY LenProperties, ElementOfSeq DEF TypeInv, TodoType, ToSet
<1>4. CASE left = {}
  <2>1. pc'[c] = "up" /\ todo'[c] = todo[c] /\ seen'[c] = seen[c]
    BY <1>4 DEF UpRead, OnlyTo, Goto, Keeps, TypeInv, CallType
  <2>2. todo[c] = <<>>
    BY <1>1, <1>2, <1>3, <1>4 DEF LookOf
  <2>3. ToSet(todo[c]) = {}
    BY <2>2 DEF ToSet
  <2>4. \A p \in Procs : seen[c][p] = None
    BY <1>1, <1>2, <2>3 DEF LookOf
  <2> QED BY <2>1, <2>2, <2>3, <2>4 DEF LookOf
<1>5. CASE left # {}
  <2>1. k \in left
    <3>1. left \subseteq Nat
      BY <1>3
    <3>2. \E i \in left : \A m \in left : i <= m
      BY <1>5, <3>1, LeastNat
    <3> HIDE DEF left
    <3> QED BY <3>2
  <2>2. next \in Procs /\ next \in ToSet(todo[c]) /\ seen[c][next] = None
    BY <1>3, <2>1
  <2>3. /\ seen' = [seen EXCEPT ![c][next] = proc[next]] /\ proc' = proc /\ todo' = todo
        /\ pc'[c] = "read" => Cardinality(left) > 1
        /\ pc'[c] = "up" => Cardinality(left) <= 1 /\ \A p \in ToSet(todo[c]) : seen'[c][p].st # "absent"
        /\ pc'[c] \in {"read", "up"}
    <3>1. pc'[c] # "failed"
      BY DEF AtIt, Ends
    <3>2. /\ seen' = [seen EXCEPT ![c][next] = proc[next]]
          /\ Goto(c, IF Cardinality(left) > 1 THEN "read"
                     ELSE IF \E p \in ToSet(todo[c]) : seen'[c][p].st = "absent" THEN "failed" ELSE "up")
          /\ UNCHANGED <<env, sup, op, ver, todo, base, saw, since, ghost>>
      BY <1>5, <3>1 DEF UpRead, OnlyTo, Goto, TypeInv, CallType
    <3>3. IsFiniteSet(left)
      <4>1. left \subseteq 1..Len(todo[c])
        BY <1>3
      <4>2. IsFiniteSet(1..Len(todo[c]))
        BY <1>3, FS_Interval
      <4> QED BY <4>1, <4>2, FS_Subset
    <3>4. Cardinality(left) \in Nat
      BY <3>3, FS_CardinalityType
    <3> HIDE DEF left, next
    <3> QED BY <3>1, <3>2, <3>4 DEF Goto, sup, TypeInv, CallType
  <2>4. /\ seen'[c][next] = proc[next] /\ proc[next] # None
        /\ \A p \in Procs : p # next => seen'[c][p] = seen[c][p]
    BY <2>2, <2>3, NowTyped, Facts DEF TypeInv, SeenType
  <2>5. Read(next, proc[next])
    BY <2>2 DEF Read, LiveInv, EntryInv
  <2>6. ASSUME pc'[c] = "read" PROVE \E p \in ToSet(todo[c]) : seen'[c][p] = None
    <3>1. left # {k}
      <4>1. Cardinality({k}) = 1
        BY FS_Singleton
      <4> HIDE DEF left, k
      <4> QED BY <2>3, <2>6, <4>1
    <3>2. PICK i \in left : i # k
      <4> HIDE DEF left, k
      <4> QED BY <1>5, <3>1
    <3>3. todo[c][i] # next
      BY <1>2, <1>3, <2>1, <3>2 DEF AheadOf, Distinct
    <3> QED BY <1>3, <2>4, <3>2, <3>3
  <2>7. ASSUME pc'[c] = "up", NEW p \in ToSet(todo[c]) PROVE seen'[c][p] # None
    <3>1. left = {k}
      <4>1. IsFiniteSet(left)
        <5>1. left \subseteq 1..Len(todo[c])
          BY <1>3
        <5>2. IsFiniteSet(1..Len(todo[c]))
          BY <1>3, FS_Interval
        <5> QED BY <5>1, <5>2, FS_Subset
      <4>2. IsFiniteSet({k}) /\ Cardinality({k}) = 1 /\ {k} \subseteq left
        BY <2>1, FS_Singleton
      <4>3. Cardinality(left) <= 1
        BY <2>3, <2>7
      <4>4. Cardinality(left) \in Nat
        BY <4>1, FS_CardinalityType
      <4> HIDE DEF left, k
      <4>5. Cardinality({k}) <= Cardinality(left)
        BY <4>1, <4>2, FS_Subset
      <4>6. Cardinality({k}) = Cardinality(left)
        BY <4>2, <4>3, <4>4, <4>5
      <4> QED BY <4>1, <4>2, <4>6, FS_Subset
    <3>2. PICK i \in DOMAIN todo[c] : p = todo[c][i]
      BY <1>3
    <3>3. CASE p = next
      BY <2>4, <3>3
    <3>4. CASE p # next
      <4>1. i # k
        BY <3>2, <3>4
      <4>2. seen[c][p] # None
        BY <3>1, <3>2, <4>1
      <4> QED BY <1>3, <2>4, <3>4, <4>2
    <3> QED BY <3>3, <3>4
  <2>8. \A p \in Procs : seen[c][p] # None =>
          /\ Read(p, seen[c][p]) /\ p \in ToSet(todo[c])
          /\ seen[c][p].st # "absent" /\ proc[p].st = "absent" => Procs \subseteq touched[c]
    BY <1>1, <1>2 DEF LookOf
  <2> HIDE DEF left, k, next
  <2> QED BY <1>1, <2>2, <2>3, <2>4, <2>5, <2>6, <2>7, <2>8 DEF LookOf
<1> QED BY <1>4, <1>5

LEMMA PopsOnce ==
  ASSUME TypeInv, NEW c \in Clients, todo[c] # <<>>, Distinct(todo[c])
  PROVE  /\ Hand(c) \notin ToSet(Tail(todo[c])) /\ Distinct(Tail(todo[c]))
         /\ ToSet(Tail(todo[c])) \subseteq Procs
         /\ \A i \in 1..Len(Tail(todo[c])) : i + 1 \in 1..Len(todo[c]) /\ Tail(todo[c])[i] = todo[c][i + 1]
<1> DEFINE s == todo[c]
           t == Tail(s)
<1>1. s \in Seq(Procs) /\ s # <<>>
  BY DEF TypeInv, TodoType
<1>2. /\ t \in Seq(Procs) /\ Len(t) = Len(s) - 1 /\ \A i \in 1..Len(t) : t[i] = s[i + 1]
      /\ Len(s) \in Nat /\ DOMAIN t = 1..Len(t)
  BY <1>1, HeadTailProperties, LenProperties
<1>3. Hand(c) = s[1] /\ Len(s) \in Nat \ {0}
  BY <1>1, SeqPops DEF Hand
<1> HIDE DEF t
<1>4. \A i \in 1..Len(t) : i + 1 \in 1..Len(s) /\ t[i] = s[i + 1]
  BY <1>2, <1>3
<1>5. Distinct(t)
  BY <1>2, <1>4 DEF Distinct
<1>6. Hand(c) \notin ToSet(t)
  BY <1>2, <1>3, <1>4 DEF ToSet, Distinct
<1>7. ToSet(t) \subseteq Procs
  BY <1>2, ElementOfSeq DEF ToSet
<1> QED BY <1>4, <1>5, <1>6, <1>7 DEF t

LEMMA LookOwn ==
  ASSUME TypeInv, PlaceInv, EntryInv, LiveInv, LookInv, AheadInv, NEW c \in Clients, Asks(c) \/ Poll(c), TypeInv'
  PROVE  LookOf(c)'
<1> SUFFICES ASSUME AtIt(c)' PROVE LookOf(c)'
  BY DEF LookOf
<1>0. LookOf(c) /\ AheadOf(c)
  BY DEF LookInv, AheadInv
<1>1. CASE Begins(c)
  <2>1. \A p \in Procs : seen'[c][p] = None
    BY <1>1, NoneSeen DEF Begins
  <2> QED BY <1>1, <2>1 DEF Begins, LookOf
<1>2. CASE GoesOn(c)
  <2> USE DEF GoesOn
  <2>0. AtIt(c) /\ op'[c] = op[c] /\ touched'[c] = touched[c]
    BY <1>2
  <2>1. CASE Readies(c)
    <3>1. \A p \in Procs : seen[c][p] = None
      BY <1>0, <2>0, <2>1 DEF LookOf, Readies, Early
    <3>2. \A p \in Procs : seen'[c][p] = None
      BY <2>1, <3>1 DEF Readies
    <3>3. todo'[c] # <<>> => \E p \in ToSet(todo'[c]) : p \in Procs
      BY SeqPops DEF TypeInv, TodoType
    <3> QED BY <2>1, <3>2, <3>3 DEF LookOf, Readies, Early
  <2>2. CASE UpRead(c)
    BY <2>0, <2>2, LookReads
  <2>3. CASE ReadBefore(c)
    <3>1. /\ todo[c] # <<>> /\ proc' = proc /\ todo' = todo /\ seen' = [seen EXCEPT ![c][Hand(c)] = Now(c)]
          /\ pc[c] = "before" /\ pc'[c] = "apply"
      BY <2>3 DEF ReadBefore, OnlyTo, Goto, sup, AtIt, Ends, TypeInv, CallType
    <3>2. op[c].verb # "up"
      BY <3>1, AtWork DEF PlacesOf, Verbs
    <3>3. Hand(c) \in Procs /\ Hand(c)' = Hand(c)
      BY <3>1, AtHand DEF Hand
    <3>4. \A p \in Procs : seen[c][p] = None
      BY <1>0, <2>0, <3>1, <3>2 DEF LookOf
    <3>5. seen'[c][Hand(c)] = proc[Hand(c)] /\ \A p \in Procs : p # Hand(c) => seen'[c][p] = None
      BY <3>1, <3>3, <3>4 DEF Now, TypeInv, SeenType
    <3>6. Read(Hand(c), proc[Hand(c)])
      BY <3>3 DEF Read, LiveInv, EntryInv
    <3> QED BY <2>0, <3>1, <3>2, <3>3, <3>5, <3>6 DEF LookOf
  <2>4. CASE Works(c)
    <3>1. /\ todo'[c] = todo[c] /\ seen'[c] = seen[c] /\ pc[c] \in {"apply", "up", "activate", "confirm"}
          /\ pc'[c] \in Bringing /\ Hand(c)' = Hand(c)
      BY <2>4 DEF Works, Hand
    <3>2. \A p \in Procs : proc'[p].st = "absent" => proc[p].st = "absent"
      <4>1. SupChange(c)
        BY ClientChanges
      <4> QED BY <2>0, <4>1 DEF SupChange, Kept, Asked, AtIt
    <3>3. Placed(c)'
      BY PlacedOwn
    <3>4. IF op[c].verb = "up" THEN pc'[c] \in {"activate", "confirm", "start"} /\ pc[c] # "apply"
          ELSE pc'[c] \in {"activate", "confirm", "restart"}
      BY <2>0, <3>1, <3>3, AtWork DEF Placed, Bringing, PlacesOf, Ends, Verbs
    <3> QED BY <1>0, <2>0, <3>1, <3>2, <3>4 DEF LookOf
  <2>5. CASE Passes(c)
    <3>1. /\ todo[c] # <<>> /\ todo'[c] = Tail(todo[c]) /\ seen'[c] = [seen[c] EXCEPT ![Hand(c)] = None]
          /\ IF op[c].verb = "up" THEN pc'[c] = "up" ELSE pc'[c] \in {"before", "poll"}
          /\ OnlyHand(c) /\ pc[c] \in {"apply", "up"} \cup Bringing
      BY <2>5 DEF Passes
    <3>2. /\ Hand(c) \in Procs /\ ToSet(Tail(todo[c])) \subseteq ToSet(todo[c])
          /\ \A x \in ToSet(todo[c]) : x = Hand(c) \/ x \in ToSet(Tail(todo[c]))
          /\ Hand(c) \notin ToSet(Tail(todo[c])) /\ ToSet(Tail(todo[c])) \subseteq Procs
      BY <1>0, <2>0, <3>1, PopsOnce, AtHand DEF AheadOf
    <3>3. seen'[c][Hand(c)] = None /\ \A p \in Procs : p # Hand(c) => seen'[c][p] = seen[c][p]
      BY <3>1, <3>2 DEF TypeInv, SeenType
    <3>4. \A p \in Procs : p # Hand(c) => proc'[p] = proc[p]
      BY <3>1 DEF OnlyHand
    <3>5. op[c].verb = "up" => pc[c] \in {"up", "activate", "confirm", "start"}
      BY <3>1, AtWork DEF Bringing, PlacesOf
    <3>6. ASSUME op[c].verb # "up", NEW p \in Procs PROVE seen'[c][p] = None
      BY <1>0, <2>0, <3>3, <3>6 DEF LookOf
    <3>7. ASSUME op[c].verb = "up" PROVE LookOf(c)'
      BY <1>0, <2>0, <3>1, <3>2, <3>3, <3>4, <3>5, <3>7 DEF LookOf
    <3> QED BY <2>0, <3>1, <3>6, <3>7 DEF LookOf
  <2>6. CASE Polls(c)
    BY <1>0, <2>0, <2>6 DEF Polls, LookOf
  <2> QED BY <1>2, <2>1, <2>2, <2>3, <2>4, <2>5, <2>6
<1> QED BY <1>1, <1>2, Brings

LEMMA LookStep ==
  ASSUME TypeInv, PlaceInv, EntryInv, LiveInv, LookInv, AheadInv, [Next]_vars, TypeInv'
  PROVE  LookInv'
<1>1. ASSUME NEW d \in Clients, Foreign(d) PROVE LookOf(d)'
  <2> SUFFICES ASSUME AtIt(d)' PROVE LookOf(d)'
    BY DEF LookOf
  <2>1. /\ pc'[d] = pc[d] /\ op'[d] = op[d] /\ todo'[d] = todo[d] /\ seen'[d] = seen[d]
        /\ touched[d] \subseteq touched'[d] /\ Hand(d)' = Hand(d)
    BY <1>1 DEF Foreign, Same, Hand
  <2>2. AtIt(d) /\ LookOf(d) /\ pc[d] # "idle"
    BY <2>1 DEF AtIt, LookInv
  <2>3. ASSUME NEW p \in Procs, proc'[p].st = "absent", proc[p].st # "absent" PROVE Procs \subseteq touched'[d]
    BY <1>1, <2>2, <2>3 DEF Foreign, Kept, Itself, Asked
  <2> QED BY <2>1, <2>2, <2>3 DEF LookOf
<1> QED BY <1>1, LookOwn, EveryStep DEF AnyStep, World, LookInv

-----------------------------------------------------------------------------
(* What a call has not come to.                                                *)

LEMMA StartableStays ==
  ASSUME NEW p \in Procs, Kept(p) \/ Itself(p), Startable(proc[p]) PROVE proc'[p] = proc[p]
  BY DEF Kept, Itself, Startable, AtRest, Terminal, Live

LEMMA AheadWorks ==
  ASSUME TypeInv, PlaceInv, EntryInv, LookInv, AheadInv, NEW c \in Clients, GoesOn(c), Works(c), AtIt(c)'
  PROVE  AheadOf(c)'
<1>0. LookOf(c) /\ AheadOf(c) /\ AtIt(c) /\ op'[c] = op[c] /\ touched'[c] = touched[c]
  BY DEF LookInv, AheadInv, GoesOn
<1>1. /\ pc[c] \in {"apply", "up", "activate", "confirm"} /\ pc'[c] \in Bringing
      /\ todo[c] # <<>> /\ todo'[c] = todo[c] /\ seen'[c] = seen[c]
      /\ OnlyHand(c) \/ \E P \in SUBSET Procs : AddMissing(c, P)
  BY DEF Works
<1> DEFINE rest == ToSet(Tail(todo[c]))
<1>2. /\ Distinct(todo[c]) /\ rest \subseteq ToSet(todo[c]) /\ Hand(c) \notin rest /\ rest \subseteq Procs
      /\ Hand(c) \in Procs /\ Hand(c) \in ToSet(todo[c])
  BY <1>0, <1>1, PopsOnce, AtHand DEF AheadOf
<1>3. rest \subseteq Ahead(c) /\ Ahead(c)' = rest
  BY <1>1, <1>2 DEF Ahead, Bringing, Early
<1>4. \A p \in rest \ touched[c] : seen[c][p] # None /\ Startable(seen[c][p]) => Startable(proc[p])
  BY <1>0, <1>3 DEF AheadOf
<1>5. CASE OnlyHand(c)
  <2>1. \A p \in rest : proc'[p] = proc[p]
    BY <1>2, <1>5 DEF OnlyHand
  <2> HIDE DEF rest
  <2> QED BY <1>0, <1>1, <1>2, <1>3, <1>4, <2>1 DEF AheadOf
<1>6. ASSUME NEW P \in SUBSET Procs, AddMissing(c, P) PROVE AheadOf(c)'
  <2>1. proc[Hand(c)].st = "absent" /\ pc[c] \in {"apply", "up"}
    BY <1>6 DEF AddMissing, Posts, Now
  <2>4. ASSUME NEW p \in rest \ touched[c] PROVE seen[c][p] = None
    <3>1. CASE op[c].verb = "up"
      <4>1. pc[c] = "up"
        BY <2>1, <3>1, AtWork DEF PlacesOf
      <4>2. Procs \subseteq touched[c]
        BY <1>0, <1>2, <2>1, <3>1, <4>1 DEF LookOf
      <4> QED BY <1>2, <4>2
    <3>2. CASE op[c].verb # "up"
      BY <1>0, <1>2, <3>2 DEF LookOf
    <3> QED BY <3>1, <3>2
  <2> HIDE DEF rest
  <2> QED BY <1>0, <1>1, <1>2, <1>3, <2>4 DEF AheadOf
<1> QED BY <1>1, <1>5, <1>6

LEMMA AheadOwn ==
  ASSUME TypeInv, PlaceInv, EntryInv, LookInv, AheadInv, NEW c \in Clients, Asks(c) \/ Poll(c), TypeInv'
  PROVE  AheadOf(c)'
<1> SUFFICES ASSUME AtIt(c)' PROVE AheadOf(c)'
  BY DEF AheadOf
<1>0. LookOf(c) /\ AheadOf(c)
  BY DEF LookInv, AheadInv
<1>1. CASE Begins(c)
  <2>1. \A p \in Procs : seen'[c][p] = None
    BY <1>1, NoneSeen DEF Begins
  <2>2. Distinct(<<>>)
    BY DEF Distinct
  <2>3. Ahead(c)' = Procs
    BY <1>1 DEF Begins, Ahead, Early
  <2> QED BY <1>1, <2>1, <2>2, <2>3 DEF Begins, AheadOf
<1>2. CASE GoesOn(c)
  <2>0. AtIt(c) /\ op'[c] = op[c] /\ touched'[c] = touched[c] /\ Distinct(todo[c])
    BY <1>0, <1>2 DEF GoesOn, AheadOf
  <2>00. ToSet(todo'[c]) \subseteq Procs /\ ToSet(todo[c]) \subseteq Procs
    <3>1. \A s \in Seq(Procs) : ToSet(s) \subseteq Procs
      BY LenProperties, ElementOfSeq DEF ToSet
    <3> QED BY <3>1 DEF TypeInv, TodoType
  <2>1. CASE Readies(c)
    <3>1. \A p \in Procs : seen[c][p] = None
      BY <1>0, <2>0, <2>1 DEF LookOf, Readies, Early
    <3>2. \A p \in Procs : seen'[c][p] = None
      BY <2>1, <3>1 DEF Readies
    <3>3. Ahead(c) = Procs /\ Distinct(todo'[c])
      BY <2>0, <2>1 DEF Readies, Ahead
    <3>4. proc' = proc \/ Ahead(c)' = {}
      BY <2>1 DEF Readies, Ahead, Early, Bringing
    <3>5. Ahead(c)' \subseteq Procs
      BY <2>00, <2>1 DEF Readies, Ahead, Early, Bringing
    <3> QED BY <1>0, <2>0, <3>2, <3>3, <3>4, <3>5 DEF AheadOf
  <2>2. ASSUME proc' = proc, todo'[c] = todo[c], Ahead(c)' \subseteq Ahead(c), Ahead(c) \subseteq Procs,
               \A p \in Procs : seen'[c][p] \in {seen[c][p], proc[p]}
        PROVE  AheadOf(c)'
    BY <1>0, <2>0, <2>2 DEF AheadOf, Startable
  <2>3. CASE UpRead(c)
    <3>1. proc' = proc /\ todo' = todo /\ pc[c] = "read" /\ pc'[c] \in {"read", "up"}
      BY <2>3 DEF UpRead, OnlyTo, Goto, Keeps, sup, AtIt, Ends, TypeInv, CallType
    <3>2. seen' = seen \/ \E q : seen' = [seen EXCEPT ![c][q] = proc[q]]
      BY <2>3 DEF UpRead, OnlyTo, Keeps
    <3>3. \A p \in Procs : seen'[c][p] \in {seen[c][p], proc[p]}
      BY <3>2 DEF TypeInv, SeenType
    <3>4. Ahead(c)' \subseteq Ahead(c) /\ Ahead(c) \subseteq Procs
      BY <2>00, <3>1 DEF Ahead, Early
    <3> QED BY <2>2, <3>1, <3>3, <3>4
  <2>4. CASE ReadBefore(c)
    <3>1. /\ proc' = proc /\ todo' = todo /\ pc[c] = "before" /\ pc'[c] = "apply"
          /\ seen' = [seen EXCEPT ![c][Hand(c)] = Now(c)]
      BY <2>4 DEF ReadBefore, OnlyTo, Goto, Keeps, sup, AtIt, Ends, TypeInv, CallType
    <3>2. \A p \in Procs : seen'[c][p] \in {seen[c][p], proc[p]}
      BY <3>1 DEF Now, TypeInv, SeenType
    <3>3. Ahead(c)' \subseteq Ahead(c) /\ Ahead(c) \subseteq Procs
      BY <2>00, <3>1 DEF Ahead, Early
    <3> QED BY <2>2, <3>1, <3>2, <3>3
  <2>5. CASE Works(c)
    BY <1>2, <2>5, AheadWorks
  <2>6. CASE Passes(c)
    <3> DEFINE rest == ToSet(Tail(todo[c]))
    <3>1. /\ todo[c] # <<>> /\ todo'[c] = Tail(todo[c]) /\ seen'[c] = [seen[c] EXCEPT ![Hand(c)] = None]
          /\ pc'[c] \in {"up", "before", "poll"} /\ OnlyHand(c) /\ pc[c] \in {"apply", "up"} \cup Bringing
      BY <2>6 DEF Passes
    <3>2. /\ rest \subseteq ToSet(todo[c]) /\ Hand(c) \notin rest /\ rest \subseteq Procs /\ Distinct(Tail(todo[c]))
      BY <2>0, <3>1, PopsOnce, AtHand
    <3>3. Ahead(c)' \subseteq rest /\ rest \subseteq Ahead(c)
      BY <3>1, <3>2 DEF Ahead, Early, Bringing
    <3>4. \A p \in rest : proc'[p] = proc[p] /\ seen'[c][p] = seen[c][p]
      BY <3>1, <3>2 DEF OnlyHand, TypeInv, SeenType
    <3> HIDE DEF rest
    <3> QED BY <1>0, <2>0, <3>1, <3>2, <3>3, <3>4 DEF AheadOf
  <2>7. CASE Polls(c)
    <3>1. Ahead(c)' = {} /\ todo'[c] = todo[c]
      BY <2>7 DEF Polls, Ahead, Early, Bringing
    <3> QED BY <2>0, <3>1 DEF AheadOf
  <2> QED BY <1>2, <2>1, <2>3, <2>4, <2>5, <2>6, <2>7 DEF GoesOn
<1> QED BY <1>1, <1>2, Brings

LEMMA AheadStep ==
  ASSUME TypeInv, PlaceInv, EntryInv, LookInv, AheadInv, [Next]_vars, TypeInv'
  PROVE  AheadInv'
<1>1. ASSUME NEW d \in Clients, Foreign(d) PROVE AheadOf(d)'
  <2> SUFFICES ASSUME AtIt(d)' PROVE AheadOf(d)'
    BY DEF AheadOf
  <2>1. /\ pc'[d] = pc[d] /\ op'[d] = op[d] /\ todo'[d] = todo[d] /\ seen'[d] = seen[d]
        /\ touched[d] \subseteq touched'[d] /\ Ahead(d)' = Ahead(d)
    BY <1>1 DEF Foreign, Same, Ahead
  <2>2. AtIt(d) /\ AheadOf(d) /\ pc[d] # "idle"
    BY <2>1 DEF AtIt, AheadInv
  <2>3. Ahead(d) \subseteq Procs
    <3>1. ToSet(todo[d]) \subseteq Procs
      BY LenProperties, ElementOfSeq DEF ToSet, TypeInv, TodoType
    <3>2. pc[d] \in Bringing => ToSet(Tail(todo[d])) \subseteq ToSet(todo[d])
      BY AtHand DEF Bringing, PlaceInv, PlaceOf, Handing
    <3> QED BY <3>1, <3>2 DEF Ahead
  <2>4. ASSUME NEW p \in Ahead(d) \ touched'[d]
        PROVE  seen[d][p] # None /\ Startable(seen[d][p]) => Startable(proc'[p])
    <3>1. Kept(p) \/ Itself(p)
      BY <1>1, <2>2, <2>3, <2>4, Stays
    <3>2. p \in Ahead(d) \ touched[d] /\ p \in Procs
      BY <2>1, <2>3, <2>4
    <3>3. seen[d][p] # None /\ Startable(seen[d][p]) => Startable(proc[p])
      BY <2>2, <3>2 DEF AheadOf
    <3> QED BY <3>1, <3>2, <3>3, StartableStays
  <2> QED BY <2>1, <2>2, <2>4 DEF AheadOf
<1> QED BY <1>1, AheadOwn, EveryStep DEF AnyStep, World, AheadInv

-----------------------------------------------------------------------------
(* What a call ends.                                                           *)

Counted(c, p) == /\ Live(proc[p]) /\ p \notin touched[c]
                 /\ seen[c][p] # None /\ ~AboutToRun(seen[c][p])
Adds(c, n) == /\ bounced' \in [Clients -> Nat] /\ bounced'[c] <= bounced[c] + n
              /\ \A d \in Clients \ {c} : bounced'[d] = bounced[d]

LEMMA ChangesCount ==
  ASSUME TypeInv, bounced \in [Clients -> Nat], NEW c \in Clients, NEW new, DOMAIN new \subseteq Procs,
         Changes(c, new), NEW N, IsFiniteSet(N), \A p \in DOMAIN new : Counted(c, p) => p \in N
  PROVE  Adds(c, Cardinality(N)) /\ (N = {} => bounced' = bounced)
<1> DEFINE new_cut == {p \in DOMAIN new : Live(proc[p]) /\ ~Live(new[p])}
           K == {p \in new_cut \ touched[c] :
                   seen[c][p] # None /\ ~AboutToRun(seen[c][p])}
<1>1. bounced' = [bounced EXCEPT ![c] = @ + Cardinality(K)]
  BY DEF Changes
<1>2. K \subseteq N
  BY DEF Counted
<1> HIDE DEF K
<1>3. IsFiniteSet(K) /\ Cardinality(K) \in Nat /\ Cardinality(N) \in Nat /\ Cardinality(K) <= Cardinality(N)
  BY <1>2, FS_Subset, FS_CardinalityType
<1>4. bounced[c] \in Nat /\ bounced' \in [Clients -> Nat] /\ bounced'[c] = bounced[c] + Cardinality(K)
  BY <1>1, <1>3
<1>5. N = {} => Cardinality(K) = 0
  BY <1>2, FS_EmptySet
<1>6. N = {} => bounced' = bounced
  BY <1>1, <1>4, <1>5
<1> QED BY <1>1, <1>3, <1>4, <1>6 DEF Adds

LEMMA NothingCounts ==
  ASSUME TypeInv, bounced \in [Clients -> Nat], NEW c \in Clients, NEW new, DOMAIN new \subseteq Procs,
         Changes(c, new), \A p \in DOMAIN new : ~Counted(c, p)
  PROVE  bounced' = bounced
<1>1. IsFiniteSet({}) /\ \A p \in DOMAIN new : Counted(c, p) => p \in {}
  BY FS_EmptySet
<1> QED BY <1>1, ChangesCount

LEMMA OneCounts ==
  ASSUME TypeInv, bounced \in [Clients -> Nat], NEW c \in Clients, NEW p \in Procs, NEW n, ChangesOne(c, p, n)
  PROVE  Adds(c, 1) /\ (~Counted(c, p) => bounced' = bounced)
<1> DEFINE new == [q \in {p} |-> n]
<1>1. Changes(c, new) /\ DOMAIN new = {p}
  BY DEF ChangesOne
<1> HIDE DEF new
<1>2. IsFiniteSet({p}) /\ Cardinality({p}) = 1
  BY FS_Singleton
<1>3. Adds(c, 1)
  BY <1>1, <1>2, ChangesCount
<1>4. ~Counted(c, p) => bounced' = bounced
  BY <1>1, NothingCounts
<1> QED BY <1>3, <1>4

LEMMA SameAdds ==
  ASSUME bounced \in [Clients -> Nat], bounced' = bounced, NEW c \in Clients, NEW n \in Nat PROVE Adds(c, n)
  BY DEF Adds

(* An up ends nothing when it updates a process; a restart or a run, what was  *)
(* live when it was read.                                                      *)
LEMMA UpdateCounts ==
  ASSUME TypeInv, PlaceInv, AheadInv, BounceInv, NEW c \in Clients, NEW posted \in BOOLEAN,
         UpdateProcess(c, posted)
  PROVE  /\ Adds(c, 1) /\ (op[c].verb = "up" => bounced' = bounced)
         /\ bounced' # bounced => Counted(c, Hand(c)) /\ serving /\ Now(c).ver # ver[c] /\ posted
<1>0. pc[c] \in {"apply", "up"} /\ todo[c] # <<>>
  BY DEF UpdateProcess, Posts, PlaceInv, PlaceOf, Handing
<1>00. bounced \in [Clients -> Nat]
  BY DEF BounceInv
<1>1. CASE ~serving \/ Now(c).ver = ver[c]
  <2>1. bounced' = bounced
    BY <1>1 DEF UpdateProcess, OnlyTo, ghost
  <2> QED BY <1>00, <2>1, SameAdds
<1>2. CASE serving /\ Now(c).ver # ver[c]
  <2>1. Hand(c) \in Procs /\ posted /\ ChangesOne(c, Hand(c), Replaced(ver[c], Now(c).dis, Who(c)))
    BY <1>0, <1>2, AtHand DEF UpdateProcess
  <2>2. Adds(c, 1) /\ (~Counted(c, Hand(c)) => bounced' = bounced)
    BY <1>00, <2>1, OneCounts
  <2>3. ASSUME op[c].verb = "up" PROVE ~Counted(c, Hand(c))
    <3>1. pc[c] = "up" /\ UpUpdates(c)
      BY <1>0, <2>3, AtWork DEF UpdateProcess, Posts, PlacesOf
    <3>2. seen[c][Hand(c)].st = "restarting" \/ AtRest(seen[c][Hand(c)])
      BY <3>1 DEF UpUpdates, UpStarts, AtRest
    <3>3. AheadOf(c) /\ AtIt(c) /\ Ahead(c) = ToSet(todo[c])
      BY <2>3, <3>1 DEF AheadInv, AtIt, Ends, Ahead, Early
    <3>4. Hand(c) \in ToSet(todo[c])
      BY <1>0, AtHand
    <3>5. /\ seen[c][Hand(c)] # None /\ Startable(seen[c][Hand(c)]) /\ Hand(c) \notin touched[c]
          => Startable(proc[Hand(c)])
      BY <3>3, <3>4 DEF AheadOf
    <3>6. ~AboutToRun(seen[c][Hand(c)]) => Startable(seen[c][Hand(c)])
      BY <3>2 DEF AboutToRun, Startable
    <3> QED BY <3>5, <3>6 DEF Counted, Startable, AtRest, Terminal, Live
  <2> QED BY <1>2, <2>1, <2>2, <2>3
<1> QED BY <1>1, <1>2

LEMMA AddMissingCounts ==
  ASSUME TypeInv, PlaceInv, LookInv, BounceInv, NEW c \in Clients, NEW P \in SUBSET Procs, AddMissing(c, P)
  PROVE  bounced' = bounced
<1>0. pc[c] \in {"apply", "up"} /\ todo[c] # <<>> /\ proc[Hand(c)].st = "absent"
  BY DEF AddMissing, Posts, PlaceInv, PlaceOf, Handing, Now
<1> DEFINE new == [p \in P \cup {Hand(c)} |->
                     IF p \in P THEN Replaced(proc[p].ver, proc[p].dis, "asked") ELSE Replaced(0, TRUE, "no")]
<1>1. Changes(c, new) /\ DOMAIN new = P \cup {Hand(c)}
  BY DEF AddMissing
<1> HIDE DEF new
<1>2. Hand(c) \in Procs /\ Hand(c) \in ToSet(todo[c])
  BY <1>0, AtHand
<1>3. LookOf(c) /\ AtIt(c)
  BY <1>0, AtWork DEF LookInv, AtIt, Ends, PlacesOf, Verbs
<1>4. ASSUME NEW p \in DOMAIN new PROVE ~Counted(c, p)
  <2>1. p \in Procs
    BY <1>1, <1>2, <1>4
  <2>2. CASE op[c].verb = "up"
    <3>1. pc[c] = "up"
      BY <1>0, <2>2, AtWork DEF PlacesOf
    <3>2. Procs \subseteq touched[c]
      BY <1>0, <1>2, <1>3, <2>2, <3>1 DEF LookOf
    <3> QED BY <2>1, <3>2 DEF Counted
  <2>3. CASE op[c].verb # "up"
    <3>1. seen[c][p] # None => p = Hand(c)
      BY <1>3, <2>1, <2>3 DEF LookOf
    <3> QED BY <1>0, <3>1 DEF Counted, Live
  <2> QED BY <2>2, <2>3
<1> QED BY <1>1, <1>2, <1>4, NothingCounts DEF BounceInv

LEMMA ActivateCounts ==
  ASSUME TypeInv, PlaceInv, BounceInv, NEW c \in Clients, Activate(c)
  PROVE  bounced' = bounced
<1>0. pc[c] = "activate" /\ Hand(c) \in Procs
  BY AtHand DEF Activate, PlaceInv, PlaceOf, Handing
<1>1. ~Counted(c, Hand(c))
  BY <1>0 DEF BounceInv, SpentOf, Bringing, Counted, Startable, AtRest, Terminal, Live
<1>2. (\E n : ChangesOne(c, Hand(c), n)) \/ bounced' = bounced
  BY DEF Activate, OnlyTo, ghost
<1> QED BY <1>0, <1>1, <1>2, OneCounts DEF BounceInv

LEMMA StartCounts ==
  ASSUME TypeInv, PlaceInv, BounceInv, NEW c \in Clients, NEW reuse \in BOOLEAN, StartProcess(c, reuse)
  PROVE  bounced' = bounced
<1>0. Hand(c) \in Procs
  BY AtHand DEF StartProcess, PlaceInv, PlaceOf, Handing
<1>1. (Startable(proc[Hand(c)]) /\ \E n : ChangesOne(c, Hand(c), n)) \/ bounced' = bounced
  BY DEF StartProcess, OnlyTo, ghost, Now
<1>2. Startable(proc[Hand(c)]) => ~Counted(c, Hand(c))
  BY DEF Counted, Startable, AtRest, Terminal, Live
<1> QED BY <1>0, <1>1, <1>2, OneCounts DEF BounceInv

LEMMA RestartCounts ==
  ASSUME TypeInv, PlaceInv, BounceInv, NEW c \in Clients, NEW reuse \in BOOLEAN, RestartProcess(c, reuse)
  PROVE  Adds(c, 1) /\ (bounced' # bounced => Counted(c, Hand(c)))
<1>0. Hand(c) \in Procs /\ bounced \in [Clients -> Nat]
  BY AtHand DEF RestartProcess, PlaceInv, PlaceOf, Handing, BounceInv
<1>1. (\E n : ChangesOne(c, Hand(c), n)) \/ bounced' = bounced
  BY DEF RestartProcess, OnlyTo, ghost
<1> QED BY <1>0, <1>1, OneCounts, SameAdds

LEMMA StartNamedCounts ==
  ASSUME TypeInv, PlaceInv, BounceInv, NEW c \in Clients, NEW reuse \in BOOLEAN, StartNamed(c, reuse)
  PROVE  bounced' = bounced
<1>0. op[c].names \subseteq Procs
  BY AtWork DEF StartNamed
<1> DEFINE P == {q \in op[c].names : Startable(proc[q])}
           new == [p \in P |-> Again(proc[p], "asked", reuse)]
<1>1. Changes(c, new) \/ bounced' = bounced
  BY DEF StartNamed, OnlyTo, ghost
<1>2. DOMAIN new = P
  OBVIOUS
<1> HIDE DEF new
<1>3. \A p \in DOMAIN new : ~Counted(c, p)
  BY <1>2 DEF Counted, Startable, AtRest, Terminal, Live
<1> QED BY <1>0, <1>1, <1>2, <1>3, NothingCounts DEF BounceInv

LEMMA StopCounts ==
  ASSUME TypeInv, PlaceInv, BounceInv, NEW c \in Clients, ProcessStop(c)
  PROVE  Adds(c, Cardinality(op[c].names))
<1>0. /\ pc[c] = "stop" /\ op[c].verb = "stop" /\ op[c].names \subseteq Procs /\ bounced \in [Clients -> Nat]
  BY AtWork DEF ProcessStop, PlacesOf, Verbs, BounceInv
<1>1. IsFiniteSet(op[c].names) /\ Cardinality(op[c].names) \in Nat
  BY <1>0, Facts, FS_Subset, FS_CardinalityType
<1> DEFINE A == {p \in Procs : seen[c][p] # None}
           P == {p \in A : proc[p].st # "absent" /\ ~Startable(proc[p])}
           new == [p \in P |-> Downed(proc[p])]
<1>2. Changes(c, new) \/ bounced' = bounced
  BY DEF ProcessStop, Downed, ghost
<1>3. DOMAIN new = P /\ P \subseteq Procs
  OBVIOUS
<1>4. \A p \in P : p \in op[c].names
  BY <1>0 DEF PlaceInv, PlaceOf
<1> HIDE DEF new, P
<1>5. CASE Changes(c, new)
  BY <1>0, <1>1, <1>3, <1>4, <1>5, ChangesCount
<1>6. CASE bounced' = bounced
  BY <1>0, <1>1, <1>6, SameAdds
<1> QED BY <1>2, <1>5, <1>6

(* How its count moves.                                                        *)
Bounces(c) ==
  \/ bounced'[c] = bounced[c]
  \/ bounced'[c] = 0
  \/ op[c].verb = "stop" /\ pc[c] = "stop" /\ bounced'[c] <= bounced[c] + Cardinality(op[c].names)
  \/ /\ op[c].verb \in {"restart", "run"} /\ bounced'[c] <= bounced[c] + 1
     /\ pc[c] = "apply" \/ (pc[c] = "restart" /\ Counted(c, Hand(c)))
Steadily(c) == /\ bounced' \in [Clients -> Nat] /\ \A d \in Clients \ {c} : bounced'[d] = bounced[d]
               /\ Bounces(c) /\ (pc'[c] = "idle" => bounced'[c] = 0)

LEMMA BounceMoves ==
  ASSUME TypeInv, PlaceInv, EntryInv, LookInv, AheadInv, BounceInv, NEW c \in Clients, Asks(c) \/ Poll(c)
  PROVE  Steadily(c)
<1>0. bounced \in [Clients -> Nat] /\ bounced[c] \in Nat
  BY DEF BounceInv
<1>1. ASSUME NEW r \in Requests, Begin(c, r)
      PROVE  Steadily(c)
  <2>1. bounced' = bounced
    BY <1>1 DEF Begin, OnlyTo, ghost
  <2>2. pc'[c] # "idle"
    BY <1>1 DEF Begin, OnlyTo, Goto, TypeInv, CallType
  <2> QED BY <1>0, <2>1, <2>2 DEF Steadily, Bounces
<1>2. CASE Rest(c)
  BY <1>2, <1>0 DEF Rest, Steadily, Bounces
<1>3. CASE Prepare(c)
  <2>1. bounced' = bounced
    BY <1>3 DEF Prepare, OnlyTo, ghost
  <2>2. pc'[c] # "idle"
    BY <1>3 DEF Prepare, OnlyTo, Goto, TypeInv, CallType
  <2> QED BY <1>0, <2>1, <2>2 DEF Steadily, Bounces
<1>4. CASE PrepareRun(c)
  <2>1. bounced' = bounced
    BY <1>4 DEF PrepareRun, OnlyTo, ghost
  <2>2. pc'[c] # "idle"
    BY <1>4 DEF PrepareRun, OnlyTo, Goto, TypeInv, CallType
  <2> QED BY <1>0, <2>1, <2>2 DEF Steadily, Bounces
<1>5. CASE LoadStack(c)
  <2>1. bounced' = bounced
    BY <1>5 DEF LoadStack, OnlyTo, ghost
  <2>2. pc'[c] # "idle"
    BY <1>5 DEF LoadStack, OnlyTo, Goto, TypeInv, CallType
  <2> QED BY <1>0, <2>1, <2>2 DEF Steadily, Bounces
<1>6. CASE Probe(c)
  <2>1. bounced' = bounced
    BY <1>6 DEF Probe, OnlyTo, ghost
  <2>2. pc'[c] # "idle"
    BY <1>6 DEF Probe, OnlyTo, Goto, TypeInv, CallType
  <2> QED BY <1>0, <2>1, <2>2 DEF Steadily, Bounces
<1>7. CASE UpDaemon(c)
  <2>1. bounced' = bounced
    BY <1>7 DEF UpDaemon, OnlyTo, ghost
  <2>2. pc'[c] # "idle"
    BY <1>7 DEF UpDaemon, OnlyTo, Goto, TypeInv, CallType
  <2> QED BY <1>0, <2>1, <2>2 DEF Steadily, Bounces
<1>8. CASE AwaitSupervisor(c)
  <2>1. bounced' = bounced
    BY <1>8 DEF AwaitSupervisor, OnlyTo, ghost
  <2>2. pc'[c] # "idle"
    BY <1>8 DEF AwaitSupervisor, OnlyTo, Goto, TypeInv, CallType
  <2> QED BY <1>0, <2>1, <2>2 DEF Steadily, Bounces
<1>9. CASE ReadFile(c)
  <2>1. bounced' = bounced
    BY <1>9 DEF ReadFile, OnlyTo, ghost
  <2>2. pc'[c] # "idle"
    BY <1>9 DEF ReadFile, OnlyTo, Goto, TypeInv, CallType
  <2> QED BY <1>0, <2>1, <2>2 DEF Steadily, Bounces
<1>10. CASE UpRead(c)
  <2>1. bounced' = bounced
    BY <1>10 DEF UpRead, OnlyTo, ghost
  <2>2. pc'[c] # "idle"
    BY <1>10 DEF UpRead, OnlyTo, Goto, TypeInv, CallType
  <2> QED BY <1>0, <2>1, <2>2 DEF Steadily, Bounces
<1>11. CASE UpLeaves(c)
  <2>1. bounced' = bounced
    BY <1>11 DEF UpLeaves, OnlyTo, ghost
  <2>2. pc'[c] # "idle"
    BY <1>11 DEF UpLeaves, OnlyTo, Goto, Advance, TypeInv, CallType
  <2> QED BY <1>0, <2>1, <2>2 DEF Steadily, Bounces
<1>12. CASE ReadBaseline(c)
  <2>1. bounced' = bounced
    BY <1>12 DEF ReadBaseline, OnlyTo, ghost
  <2>2. pc'[c] # "idle"
    BY <1>12 DEF ReadBaseline, OnlyTo, Goto, TypeInv, CallType
  <2> QED BY <1>0, <2>1, <2>2 DEF Steadily, Bounces
<1>13. CASE ReadBefore(c)
  <2>1. bounced' = bounced \/ bounced' = [bounced EXCEPT ![c] = 0]
    BY <1>13 DEF ReadBefore, OnlyTo, ghost
  <2>2. pc'[c] # "idle"
    BY <1>13 DEF ReadBefore, OnlyTo, Goto, TypeInv, CallType
  <2> QED BY <1>0, <2>1, <2>2 DEF Steadily, Bounces
<1>14. ASSUME NEW posted \in BOOLEAN, UpdateProcess(c, posted)
      PROVE  Steadily(c)
  <2>1. pc'[c] # "idle"
    BY <1>14 DEF UpdateProcess, Sent, OnlyTo, Goto, Advance, Applied, TypeInv, CallType
  <2>2. Adds(c, 1) /\ (op[c].verb = "up" => bounced' = bounced)
    BY <1>14, UpdateCounts
  <2>3. op[c].verb = "up" \/ (op[c].verb \in {"restart", "run"} /\ pc[c] = "apply")
    BY <1>14, AtWork DEF UpdateProcess, Posts, PlacesOf, Verbs
  <2> QED BY <1>0, <2>1, <2>2, <2>3 DEF Adds, Steadily, Bounces
<1>15. ASSUME NEW P \in SUBSET Procs, AddMissing(c, P)
      PROVE  Steadily(c)
  <2>1. bounced' = bounced
    BY <1>15, AddMissingCounts
  <2>2. pc'[c] # "idle"
    BY <1>15 DEF AddMissing, OnlyTo, Goto, TypeInv, CallType
  <2> QED BY <1>0, <2>1, <2>2 DEF Steadily, Bounces
<1>16. CASE Activate(c)
  <2>1. bounced' = bounced
    BY <1>16, ActivateCounts
  <2>2. pc'[c] # "idle"
    BY <1>16 DEF Activate, OnlyTo, Goto, Sent, Advance, TypeInv, CallType
  <2> QED BY <1>0, <2>1, <2>2 DEF Steadily, Bounces
<1>17. CASE Confirm(c)
  <2>1. bounced' = bounced
    BY <1>17 DEF Confirm, OnlyTo, ghost
  <2>2. pc'[c] # "idle"
    BY <1>17 DEF Confirm, OnlyTo, Goto, Advance, Applied, TypeInv, CallType
  <2> QED BY <1>0, <2>1, <2>2 DEF Steadily, Bounces
<1>18. ASSUME NEW reuse \in BOOLEAN, StartProcess(c, reuse)
      PROVE  Steadily(c)
  <2>1. bounced' = bounced
    BY <1>18, StartCounts
  <2>2. pc'[c] # "idle"
    BY <1>18 DEF StartProcess, OnlyTo, Goto, Advance, TypeInv, CallType
  <2> QED BY <1>0, <2>1, <2>2 DEF Steadily, Bounces
<1>19. ASSUME NEW reuse \in BOOLEAN, RestartProcess(c, reuse)
      PROVE  Steadily(c)
  <2>1. pc'[c] # "idle"
    BY <1>19 DEF RestartProcess, Sent, OnlyTo, Goto, Advance, Applied, TypeInv, CallType
  <2>2. Adds(c, 1) /\ (bounced' # bounced => Counted(c, Hand(c)))
    BY <1>19, RestartCounts
  <2>3. op[c].verb \in {"restart", "run"} /\ pc[c] = "restart"
    BY <1>19, AtWork DEF RestartProcess, PlacesOf, Verbs
  <2> QED BY <1>0, <2>1, <2>2, <2>3 DEF Adds, Steadily, Bounces
<1>20. ASSUME NEW reuse \in BOOLEAN, StartNamed(c, reuse)
      PROVE  Steadily(c)
  <2>1. bounced' = bounced
    BY <1>20, StartNamedCounts
  <2>2. pc'[c] # "idle"
    BY <1>20 DEF StartNamed, OnlyTo, Goto, TypeInv, CallType
  <2> QED BY <1>0, <2>1, <2>2 DEF Steadily, Bounces
<1>21. CASE StopRead(c)
  <2>1. bounced' = bounced
    BY <1>21 DEF StopRead, OnlyTo, ghost
  <2>2. pc'[c] # "idle"
    BY <1>21 DEF StopRead, OnlyTo, Goto, TypeInv, CallType
  <2> QED BY <1>0, <2>1, <2>2 DEF Steadily, Bounces
<1>22. CASE ProcessStop(c)
  <2>1. pc'[c] # "idle"
    BY <1>22 DEF ProcessStop, Sent, OnlyTo, Goto, Advance, Applied, TypeInv, CallType
  <2>2. Adds(c, Cardinality(op[c].names))
    BY <1>22, StopCounts
  <2>3. op[c].verb = "stop" /\ pc[c] = "stop"
    BY <1>22, AtWork DEF ProcessStop, PlacesOf, Verbs
  <2> QED BY <1>0, <2>1, <2>2, <2>3 DEF Adds, Steadily, Bounces
<1>23. CASE StopCheck(c)
  <2>1. bounced' = bounced
    BY <1>23 DEF StopCheck, OnlyTo, ghost
  <2>2. pc'[c] # "idle"
    BY <1>23 DEF StopCheck, OnlyTo, Goto, Advance, TypeInv, CallType
  <2> QED BY <1>0, <2>1, <2>2 DEF Steadily, Bounces
<1>24. CASE StackDown(c)
  <2>1. bounced' = bounced
    BY <1>24 DEF StackDown, OnlyTo, ghost
  <2>2. pc'[c] # "idle"
    BY <1>24 DEF StackDown, OnlyTo, Goto, TypeInv, CallType
  <2> QED BY <1>0, <2>1, <2>2 DEF Steadily, Bounces
<1>25. CASE Kill(c)
  <2>1. bounced' = bounced
    BY <1>25 DEF Kill, OnlyTo, ghost
  <2>2. pc'[c] # "idle"
    BY <1>25 DEF Kill, OnlyTo, Goto, TypeInv, CallType
  <2> QED BY <1>0, <2>1, <2>2 DEF Steadily, Bounces
<1>26. CASE Poll(c)
  <2>1. bounced' = bounced
    BY <1>26 DEF Poll, OnlyTo, ghost
  <2>2. pc'[c] # "idle"
    BY <1>26 DEF Poll, OnlyTo, Goto, TypeInv, CallType
  <2> QED BY <1>0, <2>1, <2>2 DEF Steadily, Bounces
<1> QED BY <1>1, <1>2, <1>3, <1>4, <1>5, <1>6, <1>7, <1>8, <1>9, <1>10, <1>11, <1>12, <1>13, <1>14, <1>15,
          <1>16, <1>17, <1>18, <1>19, <1>20, <1>21, <1>22, <1>23, <1>24, <1>25, <1>26 DEF Asks

-----------------------------------------------------------------------------
(* What a call has ended stays within its bound.                              *)

(* Every step of another leaves what a call has ended.                        *)
LEMMA WorldCounts ==
  ASSUME [Next]_vars
  PROVE  bounced' = bounced \/ \E c \in Clients : Asks(c) \/ Poll(c)
<1>1. ASSUME NEW p \in Procs, Runs(p) PROVE bounced' = bounced
  BY <1>1 DEF Runs, Launch, Skip, Crash, Ended, SupervisorStep, ghost
<1>2. SupervisorExits \/ Edit \/ UNCHANGED vars => bounced' = bounced
  BY DEF SupervisorExits, Edit, vars, ghost
<1> QED BY <1>1, <1>2 DEF Next

LEMMA StopsHere ==
  ASSUME TypeInv, NEW c \in Clients, StopWork(c), pc[c] \in Ends \cup {"stop", "stop_check"}
  PROVE  pc'[c] \in Ends \cup {"stop_check"}
  BY DEF StopWork, Prepare, LoadStack, Probe, StopRead, ProcessStop, StopCheck, Kill, OnlyTo, Goto, Advance, Ends,
         TypeInv, CallType

LEMMA BoundMoves ==
  ASSUME TypeInv, PlaceInv, EntryInv, LookInv, AheadInv, BounceInv, NEW c \in Clients, Asks(c) \/ Poll(c),
         op'[c] = op[c], op[c].verb \in {"restart", "run"},
         pc'[c] \in {"lock", "load", "baseline", "apply", "activate"}
  PROVE  bounced'[c] = 0
<1>0. BoundOf(c) /\ Steadily(c) /\ AtIt(c)'
  BY BounceMoves DEF BounceInv, AtIt, Ends
<1>1. CASE Begins(c)
  BY <1>0, <1>1 DEF Begins, BoundOf, Steadily, Bounces
<1>2. CASE GoesOn(c)
  <2>1. pc[c] \in PlacesOf(op[c].verb)
    BY <1>2 DEF GoesOn, AtIt, PlaceInv, PlaceOf
  <2>2. CASE Readies(c)
    <3>1. pc[c] \in {"lock", "load", "baseline"}
      BY <2>1, <2>2 DEF Readies, PlacesOf, Early
    <3> QED BY <1>0, <3>1 DEF BoundOf, Steadily, Bounces
  <2>3. CASE UpRead(c)
    BY <2>1, <2>3 DEF UpRead, PlacesOf
  <2>4. CASE ReadBefore(c)
    <3>1. pc'[c] # "ok" /\ pc'[c] # "failed"
      OBVIOUS
    <3>2. ~OnlyTo(c, "ok") /\ ~OnlyTo(c, "failed")
      BY <3>1 DEF OnlyTo, Goto, TypeInv, CallType
    <3>3. bounced' = [bounced EXCEPT ![c] = 0]
      BY <2>4, <3>2 DEF ReadBefore
    <3> QED BY <3>3 DEF BounceInv
  <2>5. CASE Works(c)
    <3>1. PICK P \in SUBSET Procs : AddMissing(c, P)
      BY <2>5 DEF Works, Bringing
    <3>2. bounced' = bounced
      BY <3>1, AddMissingCounts
    <3>3. pc[c] = "apply"
      BY <2>1, <3>1 DEF AddMissing, Posts, PlacesOf
    <3> QED BY <1>0, <3>2, <3>3 DEF BoundOf
  <2>6. CASE Passes(c)
    BY <2>6 DEF Passes
  <2>7. CASE Polls(c)
    BY <2>7 DEF Polls
  <2> QED BY <1>2, <2>2, <2>3, <2>4, <2>5, <2>6, <2>7 DEF GoesOn
<1> QED BY <1>0, <1>1, <1>2, Brings

LEMMA BoundOwn ==
  ASSUME TypeInv, PlaceInv, EntryInv, LookInv, AheadInv, BounceInv, NEW c \in Clients, Asks(c) \/ Poll(c), TypeInv'
  PROVE  BoundOf(c)'
<1>0. BoundOf(c) /\ SpentOf(c) /\ Steadily(c) /\ bounced[c] \in Nat /\ bounced'[c] \in Nat
  BY BounceMoves DEF BounceInv, Steadily
<1>1. Cardinality(op'[c].names) \in Nat
  <2>1. op'[c] \in Requests \/ op'[c] = NoOp
    BY DEF TypeInv, CallType
  <2>2. op'[c].names \subseteq Procs
    BY <2>1, Facts DEF NoOp
  <2> QED BY <2>2, Facts, FS_Subset, FS_CardinalityType
<1>2. ASSUME bounced'[c] = 0 PROVE BoundOf(c)'
  BY <1>1, <1>2 DEF BoundOf
<1>3. CASE pc[c] = "idle" \/ pc'[c] = "idle"
  <2>1. bounced'[c] = 0
    BY <1>0, <1>3 DEF Steadily, Bounces, BoundOf
  <2> QED BY <1>2, <2>1
<1>4. CASE pc[c] # "idle" /\ pc'[c] # "idle"
  <2>1. op'[c] = op[c]
    <3>1. Rest(c) => pc'[c] = "idle"
      BY DEF Rest, Goto, TypeInv, CallType
    <3> QED BY <1>4, <3>1, OpStep
  <2>2. CASE op[c].verb \notin {"restart", "run", "stop"}
    <3>1. bounced'[c] = 0
      BY <1>0, <2>2 DEF Steadily, Bounces, BoundOf
    <3> QED BY <1>2, <3>1
  <2>3. CASE op[c].verb = "stop"
    <3>1. bounced'[c] <= Cardinality(op'[c].names)
      BY <1>0, <1>1, <2>1, <2>3 DEF Steadily, Bounces, BoundOf, Ends
    <3>2. ASSUME pc'[c] \notin Ends \cup {"stop_check"} PROVE bounced'[c] = 0
      <4>1. StopWork(c)
        <5>1. Stops(c)'
          BY <1>4, <2>1, <2>3 DEF Stops
        <5> QED BY <1>4, <5>1, StopSteps DEF Begin
      <4>2. pc[c] \notin Ends \cup {"stop", "stop_check"}
        BY <3>2, <4>1, StopsHere
      <4> QED BY <1>0, <2>3, <4>2 DEF Steadily, Bounces, BoundOf
    <3> QED BY <1>4, <2>1, <2>3, <3>1, <3>2 DEF BoundOf
  <2>4. CASE op[c].verb \in {"restart", "run"}
    <3>1. bounced'[c] <= 1
      <4>1. CASE pc[c] = "restart" /\ Counted(c, Hand(c))
        <5>1. ~Startable(proc[Hand(c)]) /\ Hand(c) \notin touched[c]
          BY <4>1 DEF Counted, Live, Startable, AtRest, Terminal
        <5>2. bounced[c] # 1
          BY <1>0, <4>1, <5>1 DEF SpentOf, Bringing
        <5> QED BY <1>0, <2>4, <5>2 DEF Steadily, Bounces, BoundOf
      <4>2. CASE ~(pc[c] = "restart" /\ Counted(c, Hand(c)))
        BY <1>0, <2>4, <4>2 DEF Steadily, Bounces, BoundOf
      <4> QED BY <4>1, <4>2
    <3>2. pc'[c] \in {"lock", "load", "baseline", "apply", "activate"} => bounced'[c] = 0
      BY <2>1, <2>4, BoundMoves
    <3> QED BY <1>4, <2>1, <2>4, <3>1, <3>2 DEF BoundOf
  <2> QED BY <2>2, <2>3, <2>4
<1> QED BY <1>3, <1>4

(* A process that the update has ended is disabled, or the supervisor's to     *)
(* launch again.                                                              *)
LEMMA UpdateSpends ==
  ASSUME TypeInv, PlaceInv, EntryInv, LookInv, AheadInv, BounceInv, NEW c \in Clients, NEW posted \in BOOLEAN,
         UpdateProcess(c, posted), op[c].verb \in {"restart", "run"}, AtIt(c), bounced'[c] # bounced[c]
  PROVE  /\ posted /\ pc'[c] = "confirm"
         /\ ProcessRelaunched(seen[c][Hand(c)], proc'[Hand(c)]) \/ Startable(proc'[Hand(c)])
<1> DEFINE p == Hand(c)
           s == seen[c][Hand(c)]
           n == proc'[Hand(c)]
<1>1. pc[c] = "apply" /\ todo[c] # <<>> /\ p \in Procs /\ p \in ToSet(todo[c])
  <2>1. pc[c] = "apply"
    BY AtWork DEF UpdateProcess, Posts, PlacesOf
  <2> QED BY <2>1, AtHand DEF PlaceInv, PlaceOf, Handing
<1>2. Counted(c, p) /\ serving /\ Now(c).ver # ver[c] /\ posted
  BY UpdateCounts
<1>3. n = Replaced(ver[c], Now(c).dis, Who(c))
  BY <1>2, UpdateAsks
<1>4. pc'[c] = "confirm"
  BY <1>2 DEF UpdateProcess, Sent, Goto, TypeInv, CallType
<1>5. /\ Live(proc[p]) /\ p \notin touched[c] /\ s # None
      /\ s.st \notin {"pending", "restarting"} /\ s.due = "no"
  BY <1>2 DEF Counted, AboutToRun
<1>6. s \in Entries /\ Read(p, s)
  <2>1. s \in Entries
    BY <1>1, <1>5 DEF TypeInv, SeenType
  <2> QED BY <1>1, <1>5, <2>1 DEF LookInv, LookOf
<1>7. ~AtRest(s)
  <2>1. p \in Ahead(c) \ touched[c]
    BY <1>1, <1>5 DEF Ahead, Early
  <2>2. Startable(s) => Startable(proc[p])
    BY <1>5, <2>1 DEF AheadInv, AheadOf
  <2> QED BY <1>5, <2>2 DEF Live, Startable, AtRest, Terminal
<1> HIDE DEF p, s
<1>8. s.st = "absent" \/ (Live(s) /\ s.pid # 0)
  BY <1>5, <1>6, <1>7 DEF Entries, AtRest, Terminal, Live, Read, Alive
<1>9. CASE Now(c).dis
  <2>1. n.st = "disabled" /\ n.due = "no"
    BY <1>3, <1>9 DEF Replaced, Pending
  <2> QED BY <1>2, <1>4, <2>1 DEF Startable, AtRest, p
<1>10. CASE ~Now(c).dis
  <2>1. n.st = "pending" /\ n.pid = 0
    BY <1>3, <1>10 DEF Replaced, Pending
  <2> QED BY <1>2, <1>4, <1>8, <2>1 DEF ProcessRelaunched, Terminal, Live, p, s
<1> QED BY <1>9, <1>10

LEMMA SpentOwn ==
  ASSUME TypeInv, PlaceInv, EntryInv, LookInv, AheadInv, BounceInv, NEW c \in Clients, Asks(c) \/ Poll(c), TypeInv'
  PROVE  SpentOf(c)'
<1> SUFFICES ASSUME pc'[c] \in Bringing PROVE SpentOf(c)'
  BY DEF SpentOf
<1>0. BoundOf(c) /\ SpentOf(c) /\ BoundOf(c)'
  BY BoundOwn DEF BounceInv
<1>1. AtIt(c)'
  <2>1. op'[c] \in Requests /\ pc'[c] \in PlacesOf(op'[c].verb)
    BY PlacedOwn DEF Placed, Bringing, Ends
  <2>2. op'[c].verb \in Verbs
    BY <2>1, Facts
  <2> QED BY <2>1, <2>2 DEF AtIt, Bringing, PlacesOf, Verbs, Ends
<1>2. AtIt(c) /\ op'[c] = op[c] /\ touched'[c] = touched[c] /\ Works(c)
  <2>1. ~Begins(c) /\ ~Readies(c) /\ ~Passes(c) /\ ~Polls(c)
    BY DEF Begins, Readies, Passes, Polls, Bringing, Early
  <2>2. ~UpRead(c) /\ ~ReadBefore(c)
    BY DEF UpRead, ReadBefore, OnlyTo, Goto, Bringing, TypeInv, CallType
  <2> QED BY <1>1, <2>1, <2>2, Brings DEF GoesOn
<1> DEFINE p == Hand(c)
<1>3. todo[c] # <<>> /\ todo'[c] = todo[c] /\ seen'[c] = seen[c] /\ Hand(c)' = p /\ p \in Procs
  BY <1>2, AtHand DEF Works, Hand
<1>4. ASSUME NEW P \in SUBSET Procs, AddMissing(c, P) PROVE SpentOf(c)'
  <2> DEFINE new == [q \in P \cup {Hand(c)} |->
                       IF q \in P THEN Replaced(proc[q].ver, proc[q].dis, "asked") ELSE Replaced(0, TRUE, "no")]
  <2>1. Changes(c, new) /\ p \notin P /\ pc'[c] = "activate"
    BY <1>4 DEF AddMissing, Now, Goto, TypeInv, CallType
  <2>2. DOMAIN new \subseteq Procs /\ p \in DOMAIN new /\ new[p] = Replaced(0, TRUE, "no")
    BY <1>3, <2>1
  <2> HIDE DEF new
  <2>3. proc'[p] = Replaced(0, TRUE, "no")
    BY <1>3, <2>1, <2>2, ChangesAt
  <2>4. Startable(proc'[p])
    BY ONLY <2>3 DEF Replaced, Pending, Startable, AtRest
  <2> QED BY <1>3, <2>1, <2>4 DEF SpentOf
<1>5. CASE pc'[c] # "activate" /\ bounced'[c] # 1
  BY <1>5 DEF SpentOf
<1>6. CASE pc'[c] # "activate" /\ bounced'[c] = 1 /\ Passing(c)
  <2>1. op[c].verb \in {"restart", "run"} /\ pc[c] \in {"apply", "activate", "confirm"}
    <3>1. op[c].verb \in {"restart", "run"}
      BY <1>0, <1>2, <1>6 DEF BoundOf, AtIt
    <3>2. pc[c] \in PlacesOf(op[c].verb)
      BY <1>2 DEF AtIt, PlaceInv, PlaceOf
    <3> QED BY <1>2, <3>1, <3>2 DEF Works, PlacesOf
  <2>2. ASSUME NEW b \in BOOLEAN, UpdateProcess(c, b) PROVE SpentOf(c)'
    <3>1. bounced[c] = 0
      BY <1>0, <2>1, <2>2 DEF BoundOf, UpdateProcess, Posts
    <3>2. /\ pc'[c] = "confirm"
          /\ ProcessRelaunched(seen[c][p], proc'[p]) \/ Startable(proc'[p])
      BY <1>2, <1>6, <2>1, <2>2, <3>1, UpdateSpends
    <3> HIDE DEF p
    <3>3. pc'[c] # "activate" /\ pc'[c] # "restart" /\ seen'[c][p] = seen[c][p]
      BY <1>3, <3>2
    <3> QED BY ONLY <1>3, <3>2, <3>3 DEF SpentOf
  <2>3. CASE Activate(c)
    <3>1. bounced' = bounced
      BY <2>3, ActivateCounts
    <3>2. pc[c] = "activate"
      BY <2>3 DEF Activate
    <3> QED BY <1>0, <1>6, <2>1, <3>1, <3>2 DEF BoundOf
  <2>4. CASE Confirm(c)
    <3>1. pc'[c] \notin {"failed", "up", "before", "poll"}
      BY DEF Bringing
    <3>2. ~OnlyTo(c, "failed") /\ ~Advance(c, Applied(c))
      BY <3>1 DEF OnlyTo, Advance, Applied, Goto, TypeInv, CallType
    <3>3. /\ pc[c] = "confirm" /\ proc' = proc /\ bounced' = bounced /\ pc'[c] = "restart"
          /\ ~ProcessRelaunched(seen[c][p], proc[p])
      BY <2>1, <2>4, <3>2 DEF Confirm, Now, sup, ghost, Goto, TypeInv, CallType
    <3> QED BY <1>0, <1>2, <1>3, <1>6, <3>3 DEF SpentOf, Bringing
  <2> QED BY <1>6, <2>1, <2>2, <2>3, <2>4 DEF Passing, UpLeaves, StartProcess, RestartProcess
<1> QED BY <1>2, <1>4, <1>5, <1>6 DEF Works

LEMMA SpentStays ==
  ASSUME TypeInv, PlaceInv, EntryInv, RestartInv, BounceInv, NEW d \in Clients, Foreign(d), bounced'[d] = bounced[d]
  PROVE  SpentOf(d)'
<1> DEFINE p == Hand(d)
           s == seen[d][Hand(d)]
<1> SUFFICES ASSUME pc'[d] \in Bringing, Hand(d)' \notin touched'[d] PROVE SpentOf(d)'
  BY DEF SpentOf
<1>1. /\ pc'[d] = pc[d] /\ op'[d] = op[d] /\ Hand(d)' = p /\ seen'[d] = seen[d]
      /\ touched[d] \subseteq touched'[d] /\ pc[d] # "idle"
  BY DEF Foreign, Same, Bringing, Hand
<1>2. todo[d] # <<>> /\ p \in Procs
  <2>1. pc[d] \in Handing
    BY <1>1 DEF Bringing, Handing
  <2> QED BY <2>1, AtHand DEF PlaceInv, PlaceOf
<1>3. Kept(p) \/ Itself(p)
  BY <1>1, <1>2, Stays
<1>4. SpentOf(d) /\ BoundOf(d) /\ p \notin touched[d]
  BY <1>1 DEF BounceInv
<1>5. Startable(proc[p]) => Startable(proc'[p])
  BY <1>2, <1>3, StartableStays
<1>6. ASSUME pc[d] = "confirm", bounced[d] = 1, ProcessRelaunched(s, proc[p])
      PROVE  ProcessRelaunched(s, proc'[p]) \/ Startable(proc'[p])
  <2>1. op[d].verb \in {"restart", "run"}
    BY <1>4, <1>6, AtWork DEF BoundOf, PlacesOf, Verbs
  <2>2. s.pid \in Nat /\ s.pid <= runs[p] /\ runs[p] \in Nat
    <3>1. s # None /\ s.pid <= runs[p]
      BY <1>6, <2>1 DEF RestartInv, RestartOf, Renews
    <3> QED BY <1>2, <3>1 DEF TypeInv, SeenType, SupType, Entries
  <2> HIDE DEF p, s
  <2> QED BY <1>3, <1>6, <2>2 DEF Kept, Itself, ProcessRelaunched, Startable, AtRest, Terminal, Live
<1> QED BY <1>1, <1>4, <1>5, <1>6 DEF SpentOf

LEMMA BounceStep ==
  ASSUME TypeInv, PlaceInv, EntryInv, RestartInv, LookInv, AheadInv, BounceInv, [Next]_vars, TypeInv'
  PROVE  BounceInv'
<1>1. bounced' \in [Clients -> Nat]
  BY WorldCounts, BounceMoves DEF Steadily, BounceInv
<1>2. ASSUME NEW d \in Clients PROVE BoundOf(d)' /\ SpentOf(d)'
  <2>1. CASE Asks(d) \/ Poll(d)
    BY <2>1, BoundOwn, SpentOwn
  <2>2. CASE ~(Asks(d) \/ Poll(d))
    <3>1. Foreign(d)
      BY <2>2, EveryStep DEF AnyStep, World
    <3>2. bounced'[d] = bounced[d]
      BY <2>2, WorldCounts, BounceMoves DEF Steadily
    <3>3. BoundOf(d)'
      BY <3>1, <3>2 DEF Foreign, Same, BoundOf, BounceInv
    <3> QED BY <3>1, <3>2, <3>3, SpentStays
  <2> QED BY <2>1, <2>2
<1> QED BY <1>1, <1>2 DEF BounceInv

-----------------------------------------------------------------------------
(* What an up asks for comes after what it waits for.                         *)

LEMMA OrderClosed ==
  ASSUME NEW roots, NEW local \in SUBSET Procs
  PROVE  /\ \A i, j \in 1..Len(UpOrder(roots, local)) :
              UpOrder(roots, local)[i] \in DependsOn[UpOrder(roots, local)[j]] => i < j
         /\ \A p \in ToSet(UpOrder(roots, local)) : \A d \in DependsOn[p] \cap local : d \in ToSet(UpOrder(roots, local))
         /\ ToSet(UpOrder(roots, local)) \subseteq local
<1> DEFINE needed(p) == \A S \in SUBSET local : roots \subseteq S /\ Closed(S, local) => p \in S
           P == {p \in local : needed(p)}
           s == UpOrder(roots, local)
<1>1. P \in SUBSET Procs
  OBVIOUS
<1>2. s \in Orders(P)
  BY <1>1, Facts DEF UpOrder
<1>3. ASSUME NEW p \in P, NEW d \in DependsOn[p] \cap local PROVE d \in P
  <2> SUFFICES ASSUME NEW S \in SUBSET local, roots \subseteq S, Closed(S, local) PROVE d \in S
    OBVIOUS
  <2>1. p \in S
    OBVIOUS
  <2> QED BY <2>1 DEF Closed
<1>4. P \subseteq local
  OBVIOUS
<1> HIDE DEF P, s
<1>5. s \in SetToSeqs(P) /\ \A i, j \in DOMAIN s : s[i] \in DependsOn[s[j]] => i < j
  BY <1>2 DEF Orders
<1>6. IsFiniteSet(P) /\ Cardinality(P) \in Nat
  BY <1>1, Facts, FS_Subset, FS_CardinalityType
<1> DEFINE D == 1..Cardinality(P)
<1>7. s \in Injection(D, P)
  BY <1>5 DEF SetToSeqs, Injection, IsInjective
<1>8. s \in Surjection(D, P)
  <2>1. Cardinality(D) = Cardinality(P) /\ IsFiniteSet(D)
    BY <1>6, FS_Interval
  <2> QED BY <1>6, <1>7, <2>1, FS_Injection
<1>9. s \in [D -> P] /\ \A x \in P : \E i \in D : s[i] = x
  BY <1>8 DEF Surjection
<1>10. s \in Seq(P) /\ DOMAIN s = D
  BY <1>6, <1>9, SeqDef
<1>11. ToSet(s) = P /\ DOMAIN s = 1..Len(s)
  <2>1. DOMAIN s = 1..Len(s)
    BY <1>10, LenProperties
  <2> QED BY <1>9, <1>10, <2>1 DEF ToSet
<1>12. \A i, j \in 1..Len(s) : s[i] \in DependsOn[s[j]] => i < j
  BY <1>5, <1>11
<1>13. \A p \in ToSet(s) : \A d \in DependsOn[p] \cap local : d \in ToSet(s)
  BY <1>3, <1>11
<1> QED BY <1>4, <1>11, <1>12, <1>13 DEF s

(* Which request of an up makes a launch due for it.                          *)
AtHandOnly(c, p) == /\ p = Hand(c) /\ OnlyHand(c) /\ touched'[c] = touched[c] /\ todo[c] # <<>>
                    /\ pc[c] \in {"up", "activate", "start"}

LEMMA UpMakes ==
  ASSUME TypeInv, PlaceInv, EntryInv, NEW c \in Clients, Asks(c) \/ Poll(c), op[c].verb = "up",
         NEW p \in Procs, proc[p].due # "up", proc'[p].due = "up"
  PROVE  UpDaemon(c) \/ AtHandOnly(c, p)
<1>1. ASSUME NEW r \in Requests, Begin(c, r)
      PROVE  UpDaemon(c) \/ AtHandOnly(c, p)
  <2>1. proc' = proc
    BY <1>1 DEF Begin, OnlyTo, sup
  <2> QED BY <2>1
<1>2. CASE Rest(c)
  <2>1. proc' = proc
    BY <1>2 DEF Rest, OnlyTo, sup
  <2> QED BY <2>1
<1>3. CASE Prepare(c)
  <2>1. proc' = proc
    BY <1>3 DEF Prepare, OnlyTo, sup
  <2> QED BY <2>1
<1>4. CASE PrepareRun(c)
  <2>1. proc' = proc
    BY <1>4 DEF PrepareRun, OnlyTo, sup
  <2> QED BY <2>1
<1>5. CASE LoadStack(c)
  <2>1. proc' = proc
    BY <1>5 DEF LoadStack, OnlyTo, sup
  <2> QED BY <2>1
<1>6. CASE Probe(c)
  <2>1. proc' = proc
    BY <1>6 DEF Probe, OnlyTo, sup
  <2> QED BY <2>1
<1>7. CASE UpDaemon(c)
  BY <1>7
<1>8. CASE AwaitSupervisor(c)
  <2>1. proc' = proc
    BY <1>8 DEF AwaitSupervisor, OnlyTo, sup
  <2> QED BY <2>1
<1>9. CASE ReadFile(c)
  <2>1. proc' = proc
    BY <1>9 DEF ReadFile, OnlyTo, sup
  <2> QED BY <2>1
<1>10. CASE UpRead(c)
  <2>1. proc' = proc
    BY <1>10 DEF UpRead, OnlyTo, sup
  <2> QED BY <2>1
<1>11. CASE UpLeaves(c)
  <2>1. proc' = proc
    BY <1>11 DEF UpLeaves, OnlyTo, sup
  <2> QED BY <2>1
<1>12. CASE ReadBaseline(c)
  <2>1. proc' = proc
    BY <1>12 DEF ReadBaseline, OnlyTo, sup
  <2> QED BY <2>1
<1>13. CASE ReadBefore(c)
  <2>1. proc' = proc
    BY <1>13 DEF ReadBefore, OnlyTo, sup
  <2> QED BY <2>1
<1>14. ASSUME NEW posted \in BOOLEAN, UpdateProcess(c, posted)
      PROVE  UpDaemon(c) \/ AtHandOnly(c, p)
  <2>1. todo[c] # <<>> /\ pc[c] \in {"apply", "up", "activate", "start"}
    BY <1>14 DEF UpdateProcess, Posts, PlaceInv, PlaceOf, Handing
  <2>2. pc[c] # "apply" /\ Hand(c) \in Procs
    BY <2>1, AtWork, AtHand DEF PlacesOf
  <2>3. (\E n : ChangesOne(c, Hand(c), n)) \/ proc' = proc
    BY <1>14 DEF UpdateProcess, OnlyTo, sup
  <2>4. OnlyHand(c) /\ touched'[c] = touched[c]
    BY <2>2, <2>3, OneAlone DEF OnlyHand
  <2> QED BY <2>1, <2>2, <2>4 DEF AtHandOnly, OnlyHand
<1>15. ASSUME NEW P \in SUBSET Procs, AddMissing(c, P)
      PROVE  UpDaemon(c) \/ AtHandOnly(c, p)
  <2> DEFINE new == [q \in P \cup {Hand(c)} |->
                       IF q \in P THEN Replaced(proc[q].ver, proc[q].dis, "asked") ELSE Replaced(0, TRUE, "no")]
  <2>1. Changes(c, new) /\ Posts(c)
    BY <1>15 DEF AddMissing
  <2>2. Hand(c) \in Procs
    BY <2>1, AtHand DEF Posts, PlaceInv, PlaceOf, Handing
  <2>3. DOMAIN new = P \cup {Hand(c)} /\ \A q \in DOMAIN new : new[q].due # "up"
    BY DEF Replaced, Pending
  <2> HIDE DEF new
  <2>4. proc'[p] = IF p \in DOMAIN new THEN new[p] ELSE proc[p]
    BY <2>1, <2>2, <2>3, ChangesAt
  <2> QED BY <2>3, <2>4
<1>16. CASE Activate(c)
  <2>1. todo[c] # <<>> /\ pc[c] \in {"apply", "up", "activate", "start"}
    BY <1>16 DEF Activate, Posts, PlaceInv, PlaceOf, Handing
  <2>2. pc[c] # "apply" /\ Hand(c) \in Procs
    BY <2>1, AtWork, AtHand DEF PlacesOf
  <2>3. (\E n : ChangesOne(c, Hand(c), n)) \/ proc' = proc
    BY <1>16 DEF Activate, OnlyTo, sup
  <2>4. OnlyHand(c) /\ touched'[c] = touched[c]
    BY <2>2, <2>3, OneAlone DEF OnlyHand
  <2> QED BY <2>1, <2>2, <2>4 DEF AtHandOnly, OnlyHand
<1>17. CASE Confirm(c)
  <2>1. proc' = proc
    BY <1>17 DEF Confirm, OnlyTo, sup
  <2> QED BY <2>1
<1>18. ASSUME NEW reuse \in BOOLEAN, StartProcess(c, reuse)
      PROVE  UpDaemon(c) \/ AtHandOnly(c, p)
  <2>1. todo[c] # <<>> /\ pc[c] \in {"apply", "up", "activate", "start"}
    BY <1>18 DEF StartProcess, Posts, PlaceInv, PlaceOf, Handing
  <2>2. pc[c] # "apply" /\ Hand(c) \in Procs
    BY <2>1, AtWork, AtHand DEF PlacesOf
  <2>3. (\E n : ChangesOne(c, Hand(c), n)) \/ proc' = proc
    BY <1>18 DEF StartProcess, OnlyTo, sup
  <2>4. OnlyHand(c) /\ touched'[c] = touched[c]
    BY <2>2, <2>3, OneAlone DEF OnlyHand
  <2> QED BY <2>1, <2>2, <2>4 DEF AtHandOnly, OnlyHand
<1>19. ASSUME NEW reuse \in BOOLEAN, RestartProcess(c, reuse)
      PROVE  UpDaemon(c) \/ AtHandOnly(c, p)
  <2>1. op[c].verb # "up"
    BY <1>19, AtWork DEF RestartProcess, PlacesOf, Verbs
  <2> QED BY <2>1
<1>20. ASSUME NEW reuse \in BOOLEAN, StartNamed(c, reuse)
      PROVE  UpDaemon(c) \/ AtHandOnly(c, p)
  <2>1. op[c].verb # "up"
    BY <1>20, AtWork DEF StartNamed, PlacesOf, Verbs
  <2> QED BY <2>1
<1>21. CASE StopRead(c)
  <2>1. proc' = proc
    BY <1>21 DEF StopRead, OnlyTo, sup
  <2> QED BY <2>1
<1>22. CASE ProcessStop(c)
  <2>1. op[c].verb # "up"
    BY <1>22, AtWork DEF ProcessStop, PlacesOf, Verbs
  <2> QED BY <2>1
<1>23. CASE StopCheck(c)
  <2>1. proc' = proc
    BY <1>23 DEF StopCheck, OnlyTo, sup
  <2> QED BY <2>1
<1>24. CASE StackDown(c)
  <2>1. op[c].verb # "up"
    BY <1>24, AtWork DEF StackDown, PlacesOf, Verbs
  <2> QED BY <2>1
<1>25. CASE Kill(c)
  <2>1. proc' = proc
    BY <1>25 DEF Kill, OnlyTo, sup
  <2> QED BY <2>1
<1>26. CASE Poll(c)
  <2>1. proc' = proc
    BY <1>26 DEF Poll, OnlyTo, sup
  <2> QED BY <2>1
<1> QED BY <1>1, <1>2, <1>3, <1>4, <1>5, <1>6, <1>7, <1>8, <1>9, <1>10, <1>11, <1>12, <1>13, <1>14, <1>15,
          <1>16, <1>17, <1>18, <1>19, <1>20, <1>21, <1>22, <1>23, <1>24, <1>25, <1>26 DEF Asks

LEMMA VersionStays ==
  ASSUME NEW c \in Clients, Passing(c) \/ \E P \in SUBSET Procs : AddMissing(c, P)
  PROVE  ver' = ver
<1>1. UpLeaves(c) \/ Activate(c) \/ Confirm(c) => ver' = ver
  BY DEF UpLeaves, Activate, Confirm, OnlyTo, Keeps, Sent, Advance
<1>2. ASSUME NEW b \in BOOLEAN, UpdateProcess(c, b) PROVE ver' = ver
  BY <1>2 DEF UpdateProcess, OnlyTo, Keeps, Sent, Advance
<1>3. ASSUME NEW b \in BOOLEAN, StartProcess(c, b) \/ RestartProcess(c, b) PROVE ver' = ver
  BY <1>3 DEF StartProcess, RestartProcess, OnlyTo, Keeps, Advance
<1>4. ASSUME NEW P \in SUBSET Procs, AddMissing(c, P) PROVE ver' = ver
  BY <1>4 DEF AddMissing, Keeps
<1> QED BY <1>1, <1>2, <1>3, <1>4 DEF Passing

(* An up leaves no job disabled behind it.                                    *)
LEMMA LeavesReady ==
  ASSUME TypeInv, PlaceInv, EntryInv, LookInv, UpInv, NEW c \in Clients, Passing(c), op[c].verb = "up", AtIt(c),
         todo[c] # <<>>, pc'[c] = "up", todo'[c] = Tail(todo[c]), Hand(c) \in Jobs, Hand(c) \notin touched[c]
  PROVE  Ready(proc'[Hand(c)])
<1> DEFINE p == Hand(c)
           s == seen[c][Hand(c)]
<1>0. p \in Procs /\ p \in ToSet(todo[c]) /\ LookOf(c)
  BY AtHand DEF LookInv
<1>1. pc[c] \in {"up", "activate", "confirm", "start"} => s # None /\ s.st # "restarting"
  BY <1>0, AtHand DEF LookOf, Read
<1>2. ~OnlyTo(c, "failed") /\ ~OnlyTo(c, "ok")
  BY DEF OnlyTo, Goto, TypeInv, CallType
<1>3. CASE UpLeaves(c)
  <2>1. pc[c] = "up" /\ ~UpUpdates(c) /\ proc' = proc
    BY <1>2, <1>3 DEF UpLeaves, sup
  <2>2. s.st # "disabled" /\ s # None
    BY <1>1, <2>1 DEF UpUpdates, UpStarts
  <2>3. Ready(proc[p])
    BY <1>0, <2>1, <2>2 DEF UpInv, UpOf, Ups, Bringing
  <2> QED BY <2>1, <2>3
<1>4. ASSUME Sent(c, TRUE) \/ Sent(c, FALSE), pc[c] \in {"up", "activate"} PROVE FALSE
  <2>1. s.st # "restarting"
    BY <1>1, <1>4
  <2> QED BY <1>4, <2>1 DEF Sent, Goto, TypeInv, CallType
<1>5. CASE Activate(c)
  BY <1>2, <1>4, <1>5 DEF Activate
<1>6. ASSUME NEW b \in BOOLEAN, UpdateProcess(c, b) PROVE FALSE
  <2>1. Sent(c, b) /\ Posts(c)
    BY <1>2, <1>6 DEF UpdateProcess
  <2>2. pc[c] = "up"
    BY <2>1, AtWork DEF Posts, PlacesOf
  <2> QED BY <1>4, <2>1, <2>2
<1>7. CASE Confirm(c)
  <2>1. /\ proc' = proc
        /\ \/ ProcessRelaunched(s, proc[p])
           \/ ~UpStarts(proc[p], TRUE)
    BY <1>2, <1>7 DEF Confirm, Goto, Now, sup, TypeInv, CallType
  <2> QED BY <2>1 DEF ProcessRelaunched, UpStarts, Ready
<1>8. ASSUME NEW b \in BOOLEAN, StartProcess(c, b) PROVE Ready(proc'[p])
  <2>1. ChangesOne(c, p, Again(Now(c), Who(c), b)) /\ Startable(Now(c))
    BY <1>2, <1>8 DEF StartProcess
  <2>2. proc'[p] = Again(Now(c), Who(c), b)
    <3> DEFINE new == [q \in {p} |-> Again(Now(c), Who(c), b)]
    <3>1. Changes(c, new) /\ DOMAIN new = {p} /\ new[p] = Again(Now(c), Who(c), b)
      BY <2>1 DEF ChangesOne
    <3> HIDE DEF new
    <3> QED BY <1>0, <3>1, ChangesAt
  <2>3. Now(c) \in Entries /\ EntryOk(Now(c)) /\ Now(c).st # "absent"
    BY <1>0, <2>1, NowTyped DEF Now, Startable, AtRest, Terminal
  <2>4. Again(Now(c), Who(c), b).due = Who(c)
    BY <2>3, WhoTyped, AgainChange
  <2> QED BY <2>2, <2>4, WhoTyped DEF Ready, Dues
<1>9. ASSUME NEW b \in BOOLEAN, RestartProcess(c, b) PROVE FALSE
  BY <1>9, AtWork DEF RestartProcess, PlacesOf
<1> QED BY <1>3, <1>5, <1>6, <1>7, <1>8, <1>9 DEF Passing

LEMMA UpOwn ==
  ASSUME TypeInv, PlaceInv, EntryInv, LookInv, AheadInv, UpInv, NEW c \in Clients, Asks(c) \/ Poll(c), TypeInv'
  PROVE  UpOf(c)'
<1> SUFFICES ASSUME Ups(c)' PROVE UpOf(c)'
  BY DEF UpOf
<1>0. /\ AtIt(c) /\ op'[c] = op[c] /\ touched'[c] = touched[c] /\ op[c].verb = "up"
      /\ pc'[c] \in {"read", "up", "activate", "confirm", "start"}
      /\ Readies(c) \/ UpRead(c) \/ Works(c) \/ Passes(c)
  <2>1. AtIt(c)' /\ pc'[c] \in {"read", "up", "activate", "confirm", "start"} /\ op'[c].verb = "up"
    BY DEF AtIt, Ups, Ends
  <2>2. GoesOn(c)
    BY <2>1, Brings DEF Begins
  <2>3. pc[c] \in PlacesOf("up")
    BY <2>1, <2>2 DEF GoesOn, AtIt, PlaceInv, PlaceOf
  <2>4. ~ReadBefore(c) /\ ~Polls(c)
    BY <2>3 DEF ReadBefore, Polls, PlacesOf
  <2> QED BY <2>1, <2>2, <2>4 DEF GoesOn
<1>1. LookOf(c) /\ UpOf(c) /\ AheadOf(c)
  BY DEF LookInv, UpInv, AheadInv
<1>2. ToSet(todo[c]) \subseteq Procs /\ \A p \in Procs : DependsOn[p] \subseteq Procs
  BY Facts, LenProperties, ElementOfSeq DEF ToSet, TypeInv, TodoType
<1>3. CASE Readies(c)
  <2>1. pc'[c] = "read" /\ ReadFile(c) /\ seen'[c] = seen[c] /\ pc[c] \in Early
    BY <1>0, <1>3 DEF Readies, Early
  <2>2. \A p \in Procs : seen[c][p] = None
    BY <1>0, <1>1, <2>1 DEF LookOf, Early
  <2>3. PICK roots : /\ file # 0 /\ ver'[c] = file /\ todo'[c] = UpOrder(roots, Local[file])
    <3>1. ~OnlyTo(c, "failed")
      BY <2>1 DEF OnlyTo, Goto, TypeInv, CallType
    <3> QED BY <2>1, <3>1 DEF ReadFile, TypeInv, CallType, TodoType
  <2>4. file \in Versions /\ Local[file] \in SUBSET Procs
    BY <2>3, Facts DEF TypeInv, EnvType, Versions
  <2> DEFINE s == UpOrder(roots, Local[file])
  <2>5. /\ \A i, j \in 1..Len(s) : s[i] \in DependsOn[s[j]] => i < j
        /\ \A p \in ToSet(s) : \A d \in DependsOn[p] \cap Local[file] : d \in ToSet(s)
    BY <2>4, OrderClosed
  <2> HIDE DEF s
  <2>6. todo'[c] = s
    BY <2>3 DEF s
  <2> QED BY <2>1, <2>2, <2>3, <2>4, <2>5, <2>6 DEF UpOf
<1>4. CASE UpRead(c)
  <2>1. /\ pc[c] = "read" /\ pc'[c] \in {"read", "up"} /\ ver' = ver /\ todo' = todo /\ proc' = proc
    BY <1>0, <1>4 DEF UpRead, OnlyTo, Keeps, Goto, sup, TypeInv, CallType
  <2>2. Ups(c)
    BY <1>0, <2>1 DEF Ups
  <2>3. ASSUME NEW p \in Procs, seen'[c][p] # None
        PROVE  seen'[c][p] = seen[c][p] \/ seen'[c][p] = proc[p]
    <3>1. seen' = seen \/ \E x : seen' = [seen EXCEPT ![c][x] = proc[x]]
      BY <1>4 DEF UpRead, OnlyTo, Keeps
    <3>2. seen \in [Clients -> [Procs -> Entries \cup {None}]]
      BY DEF TypeInv, SeenType
    <3>3. CASE seen' = seen
      BY <3>3
    <3>4. ASSUME NEW x, seen' = [seen EXCEPT ![c][x] = proc[x]] PROVE seen'[c][p] = seen[c][p] \/ seen'[c][p] = proc[p]
      <4>1. seen'[c] = [seen[c] EXCEPT ![x] = proc[x]]
        BY <3>2, <3>4
      <4>2. DOMAIN seen[c] = Procs
        BY <3>2
      <4> QED BY ONLY <4>1, <4>2, <2>3
    <3> QED BY <3>1, <3>3, <3>4
  <2>4. \A p \in Procs \ touched[c] : seen'[c][p] # None /\ seen'[c][p].st # "disabled" => Ready(proc[p])
    BY <1>1, <2>1, <2>2, <2>3 DEF UpOf, Ready, Bringing
  <2> QED BY <1>0, <1>1, <2>1, <2>2, <2>4 DEF UpOf
<1>5. CASE Works(c)
  <2>1. /\ pc'[c] \in Bringing /\ todo[c] # <<>> /\ todo'[c] = todo[c] /\ seen'[c] = seen[c]
        /\ pc[c] \in {"apply", "up", "activate", "confirm"}
        /\ (OnlyHand(c) /\ Passing(c)) \/ \E P \in SUBSET Procs : AddMissing(c, P)
    BY <1>5 DEF Works
  <2>2. ver' = ver
    BY <2>1, VersionStays
  <2>3. Ups(c) /\ Hand(c) \in ToSet(todo[c]) /\ Hand(c) \in Procs /\ pc[c] # "apply"
    <3>1. pc[c] \in PlacesOf("up")
      BY <1>0 DEF AtIt, PlaceInv, PlaceOf
    <3> QED BY <1>0, <2>1, <3>1, AtHand DEF Ups, PlacesOf
  <2>4. Hand(c)' = Hand(c)
    BY <2>1 DEF Hand
  <2>5. CASE OnlyHand(c)
    <3>1. ASSUME NEW p \in ToSet(todo[c]), NEW d \in (DependsOn[p] \cap Local[ver[c]]) \ touched[c]
          PROVE  d \in ToSet(todo[c]) \/ Ready(proc'[d])
      <4>1. d \in Procs
        BY <1>2, <3>1
      <4>2. d \in ToSet(todo[c]) \/ Ready(proc[d])
        BY <1>1, <2>3, <3>1 DEF UpOf
      <4> QED BY <2>3, <2>5, <4>1, <4>2 DEF OnlyHand
    <3>2. ASSUME NEW p \in Procs \ touched[c], seen[c][p] # None, seen[c][p].st # "disabled", p # Hand(c)
          PROVE  Ready(proc'[p])
      <4>1. Ready(proc[p])
        BY <1>1, <2>3, <3>2 DEF UpOf
      <4> QED BY <2>5, <3>2, <4>1 DEF OnlyHand
    <3> QED BY <1>0, <1>1, <2>1, <2>2, <2>3, <2>4, <3>1, <3>2 DEF UpOf
  <2>6. ASSUME NEW P \in SUBSET Procs, AddMissing(c, P) PROVE UpOf(c)'
    <3>1. proc[Hand(c)].st = "absent" /\ pc[c] = "up"
      BY <2>3, <2>6 DEF AddMissing, Posts, Now
    <3>2. seen[c][Hand(c)] # None /\ seen[c][Hand(c)].st # "absent"
      BY <1>0, <1>1, <2>3, <3>1 DEF LookOf
    <3>3. Procs \subseteq touched[c]
      BY <1>0, <1>1, <2>3, <3>1, <3>2 DEF LookOf
    <3>4. \A p \in ToSet(todo[c]) : (DependsOn[p] \cap Local[ver[c]]) \ touched[c] = {}
      BY <1>2, <3>3
    <3> QED BY <1>0, <1>1, <2>1, <2>2, <2>3, <3>3, <3>4 DEF UpOf
  <2> QED BY <2>1, <2>5, <2>6
<1>6. CASE Passes(c)
  <2>1. /\ Passing(c) /\ pc'[c] = "up" /\ todo[c] # <<>> /\ todo'[c] = Tail(todo[c])
        /\ seen'[c] = [seen[c] EXCEPT ![Hand(c)] = None] /\ OnlyHand(c)
        /\ pc[c] \in {"apply", "up"} \cup Bringing
    BY <1>0, <1>6 DEF Passes
  <2>2. ver' = ver
    BY <2>1, VersionStays
  <2>3. Ups(c) /\ Hand(c) \in ToSet(todo[c]) /\ Hand(c) \in Procs
    <3>1. pc[c] \in PlacesOf("up")
      BY <1>0 DEF AtIt, PlaceInv, PlaceOf
    <3> QED BY <1>0, <2>1, <3>1, AtHand DEF Ups, PlacesOf, Bringing
  <2> DEFINE t == Tail(todo[c])
  <2>4. /\ Distinct(todo[c]) /\ Hand(c) \notin ToSet(t) /\ ToSet(t) \subseteq ToSet(todo[c])
        /\ \A x \in ToSet(todo[c]) : x = Hand(c) \/ x \in ToSet(t)
        /\ \A i \in 1..Len(t) : i + 1 \in 1..Len(todo[c]) /\ t[i] = todo[c][i + 1]
    BY <1>0, <1>1, <2>1, PopsOnce, AtHand DEF AheadOf
  <2> HIDE DEF t
  <2>5. todo'[c] = t
    BY <2>1 DEF t
  <2>6. ASSUME NEW i \in 1..Len(t), NEW j \in 1..Len(t), t[i] \in DependsOn[t[j]] PROVE i < j
    <3>1. i + 1 \in 1..Len(todo[c]) /\ j + 1 \in 1..Len(todo[c]) /\ todo[c][i + 1] \in DependsOn[todo[c][j + 1]]
      BY <2>4, <2>6
    <3>2. i + 1 < j + 1
      BY <1>1, <2>3, <3>1 DEF UpOf
    <3> QED BY <3>2
  <2>7. ASSUME NEW p \in ToSet(t), NEW d \in (DependsOn[p] \cap Local[ver[c]]) \ touched[c]
        PROVE  d \in ToSet(t) \/ Ready(proc'[d])
    <3>1. d \in Procs /\ d \in Jobs
      BY <1>2, <2>4, <2>7, Facts
    <3>2. d \in ToSet(todo[c]) \/ Ready(proc[d])
      BY <1>1, <2>3, <2>4, <2>7 DEF UpOf
    <3>3. CASE d = Hand(c)
      BY <1>0, <2>1, <2>3, <2>7, <3>1, <3>3, LeavesReady
    <3>4. CASE d # Hand(c)
      BY <2>1, <2>4, <3>1, <3>2, <3>4 DEF OnlyHand
    <3> QED BY <3>3, <3>4
  <2>8. ASSUME NEW p \in Procs \ touched[c], seen'[c][p] # None, seen'[c][p].st # "disabled" PROVE Ready(proc'[p])
    <3>1. p # Hand(c) /\ seen'[c][p] = seen[c][p]
      BY <2>1, <2>3, <2>8 DEF TypeInv, SeenType
    <3>2. Ready(proc[p])
      BY <1>1, <2>3, <2>8, <3>1 DEF UpOf
    <3> QED BY <2>1, <2>8, <3>1, <3>2 DEF OnlyHand
  <2> QED BY <1>0, <1>1, <2>2, <2>3, <2>5, <2>6, <2>7, <2>8 DEF UpOf
<1> QED BY <1>0, <1>3, <1>4, <1>5, <1>6

LEMMA ReadyStays ==
  ASSUME NEW p \in Procs, Kept(p) \/ Itself(p), Ready(proc[p]) PROVE Ready(proc'[p])
  BY DEF Kept, Itself, Ready

LEMMA UpStep ==
  ASSUME TypeInv, PlaceInv, EntryInv, LookInv, AheadInv, UpInv, [Next]_vars, TypeInv'
  PROVE  UpInv'
<1>1. ASSUME NEW d \in Clients, Foreign(d) PROVE UpOf(d)'
  <2> SUFFICES ASSUME Ups(d)' PROVE UpOf(d)'
    BY DEF UpOf
  <2>1. /\ pc'[d] = pc[d] /\ op'[d] = op[d] /\ ver'[d] = ver[d] /\ todo'[d] = todo[d] /\ seen'[d] = seen[d]
        /\ touched[d] \subseteq touched'[d] /\ Hand(d)' = Hand(d)
    BY <1>1 DEF Foreign, Same, Hand
  <2>2. Ups(d) /\ UpOf(d) /\ pc[d] # "idle"
    BY <2>1 DEF Ups, UpInv
  <2>3. ASSUME NEW p \in Procs, p \notin touched'[d], Ready(proc[p]) PROVE Ready(proc'[p])
    BY <1>1, <2>2, <2>3, Stays, ReadyStays
  <2>4. ASSUME NEW p \in ToSet(todo[d]), NEW e \in (DependsOn[p] \cap Local[ver[d]]) \ touched'[d]
        PROVE  e \in ToSet(todo[d]) \/ Ready(proc'[e])
    <3>1. ToSet(todo[d]) \subseteq Procs
      BY LenProperties, ElementOfSeq DEF ToSet, TypeInv, TodoType
    <3>2. e \in Procs /\ e \in (DependsOn[p] \cap Local[ver[d]]) \ touched[d]
      BY <2>1, <2>4, <3>1, Facts
    <3>3. e \in ToSet(todo[d]) \/ Ready(proc[e])
      BY <2>2, <3>2 DEF UpOf
    <3> QED BY <2>3, <2>4, <3>2, <3>3
  <2>5. ASSUME NEW p \in Procs \ touched'[d], seen[d][p] # None, seen[d][p].st # "disabled",
               ~(pc[d] \in Bringing /\ p = Hand(d))
        PROVE  Ready(proc'[p])
    <3>1. Ready(proc[p])
      BY <2>1, <2>2, <2>5 DEF UpOf
    <3> QED BY <2>3, <2>5, <3>1
  <2> QED BY <2>1, <2>2, <2>4, <2>5 DEF UpOf
<1> QED BY <1>1, UpOwn, EveryStep DEF AnyStep, World, UpInv

-----------------------------------------------------------------------------
(* The beginning, and always.                                                 *)

LEMMA WasEntry ==
  ASSUME NEW v \in Versions, NEW st \in {"running", "restarting", "completed", "error"}
  PROVE  /\ Was(v, st) \in Entries /\ EntryOk(Was(v, st)) /\ Was(v, st).pid = 1
         /\ Was(v, st).st = st /\ (Live(Was(v, st)) => Was(v, st).end = 0) /\ Was(v, st).end \in {0, 1}
<1> DEFINE n == Was(v, st)
<1>1. n = [st |-> st, pid |-> 1, end |-> IF st = "running" THEN 0 ELSE 1, ver |-> v, dis |-> FALSE, due |-> "no"]
  <2> DEFINE r == Replaced(v, FALSE, "no")
             m == Over(r, st)
  <2>0. r = [st |-> "pending", pid |-> 0, end |-> 0, ver |-> v, dis |-> FALSE, due |-> "no"]
    BY DEF Replaced, Pending
  <2> HIDE DEF r
  <2>1. m = [st |-> st, pid |-> 0, end |-> 0, ver |-> v, dis |-> FALSE, due |-> "no"]
    <3>1. m = [r EXCEPT !.st = st, !.end = IF r.end = 0 THEN r.pid ELSE r.end]
      BY DEF Over
    <3>2. r.end = 0 /\ r.pid = 0
      BY <2>0
    <3>3. m = [r EXCEPT !.st = st, !.end = 0]
      BY <3>1, <3>2
    <3> QED BY <2>0, <3>3
  <2>2. n = [m EXCEPT !.pid = 1, !.end = IF st = "running" THEN 0 ELSE 1]
    BY DEF Was, r
  <2> HIDE DEF m, n
  <2> QED BY <2>1, <2>2
<1> HIDE DEF n
<1>2. v \in 0..Len(Local)
  BY Facts
<1>3. n \in Entries
  BY <1>1, <1>2 DEF Entries
<1> QED BY <1>1, <1>3 DEF n, EntryOk, Live, Absent

LEMMA FirstEntry ==
  ASSUME Init, NEW p \in Procs
  PROVE  /\ proc[p] \in Entries /\ EntryOk(proc[p]) /\ proc[p].pid \in {0, 1} /\ proc[p].end \in {0, 1}
         /\ Live(proc[p]) => proc[p].pid = 1 /\ proc[p].end = 0
         /\ Terminal(proc[p]) => proc[p].pid = 1
<1>1. PICK v \in 1..man :
        proc \in [Procs -> {Absent, Replaced(v, TRUE, "no"), Replaced(v, FALSE, "asked")} \cup
                           {Was(v, st) : st \in {"running", "restarting", "completed", "error"}}]
  BY DEF Init
<1>2. v \in Versions
  <2>1. man \in 1..Len(Local) /\ Len(Local) \in Nat
    BY Facts DEF Init, Versions
  <2> QED BY <2>1 DEF Versions
<1>3. v \in 0..Len(Local) /\ "asked" \in Dues
  BY <1>2, Facts DEF Dues
<1>4. CASE proc[p] = Absent
  BY <1>4, Facts DEF Absent, EntryOk, Live, Terminal
<1>5. CASE proc[p] = Replaced(v, TRUE, "no")
  <2>1. proc[p] = [st |-> "disabled", pid |-> 0, end |-> 0, ver |-> v, dis |-> TRUE, due |-> "no"]
    BY <1>5 DEF Replaced, Pending
  <2>2. proc[p] \in Entries
    BY <1>3, <2>1 DEF Entries
  <2> QED BY <2>1, <2>2 DEF EntryOk, Live, Terminal
<1>6. CASE proc[p] = Replaced(v, FALSE, "asked")
  BY <1>3, <1>6 DEF Replaced, Pending, Entries, EntryOk, Live, Terminal
<1>7. ASSUME NEW st \in {"running", "restarting", "completed", "error"}, proc[p] = Was(v, st)
      PROVE  /\ proc[p] \in Entries /\ EntryOk(proc[p]) /\ proc[p].pid \in {0, 1} /\ proc[p].end \in {0, 1}
             /\ Live(proc[p]) => proc[p].pid = 1 /\ proc[p].end = 0
             /\ Terminal(proc[p]) => proc[p].pid = 1
  BY <1>2, <1>7, WasEntry DEF Live
<1> QED BY <1>1, <1>4, <1>5, <1>6, <1>7

LEMMA Initially == Init => IInv
<1> SUFFICES ASSUME Init PROVE IInv
  OBVIOUS
<1>1. EnvType
  BY Facts DEF Init, EnvType, Versions
<1>2. SupType
  <2>1. proc \in [Procs -> Entries]
    <3>1. DOMAIN proc = Procs /\ proc = [p \in DOMAIN proc |-> proc[p]]
      BY DEF Init
    <3> QED BY <3>1, FirstEntry
  <2>2. runs \in [Procs -> Nat]
    BY DEF Init
  <2>3. \A j \in Jobs : proc[j].end \in Nat
    BY FirstEntry, Facts
  <2> QED BY <2>1, <2>2, <2>3 DEF Init, SupType
<1>3. CallType
  <2>1. pc \in [Clients -> {"idle"} \cup Ends \cup Steps] /\ op \in [Clients -> Requests \cup {NoOp}]
        /\ ver \in [Clients -> 0..Len(Local)]
    BY Facts DEF Init
  <2>2. /\ saw \in [Clients -> BOOLEAN] /\ since \in [Clients -> Nat]
        /\ base \in [Clients -> [pid : Nat, end : Nat]]
        /\ touched \in [Clients -> SUBSET Procs]
    BY DEF Init
  <2> QED BY <2>1, <2>2 DEF CallType
<1>4. TodoType /\ SeenType
  BY DEF Init, TodoType, SeenType, NoSeen
<1>5. PlaceInv
  <2> SUFFICES ASSUME NEW c \in Clients PROVE PlaceOf(c)
    BY DEF PlaceInv
  <2>1. pc[c] = "idle" /\ op[c] = NoOp /\ todo[c] = <<>> /\ seen[c] = NoSeen
    BY DEF Init
  <2> QED BY <2>1 DEF PlaceOf, NoOp, Handing
<1>6. EntryInv
  <2>1. \A p \in Procs : EntryOk(proc[p]) /\ proc[p].pid <= runs[p]
    <3>1. \A p \in Procs : runs[p] = 1
      BY DEF Init
    <3> QED BY <3>1, FirstEntry
  <2>2. ~serving => \A p \in Procs : proc[p] = Absent
    BY DEF Init
  <2>3. \A j \in Jobs : /\ ended[j] <= runs[j] /\ proc[j].st # "restarting"
                        /\ Live(proc[j]) => ended[j] < proc[j].pid
    <3> SUFFICES ASSUME NEW j \in Jobs
                 PROVE  /\ ended[j] <= runs[j] /\ proc[j].st # "restarting"
                        /\ Live(proc[j]) => ended[j] < proc[j].pid
      OBVIOUS
    <3>1. ended[j] = proc[j].end /\ runs[j] = 1 /\ proc[j].st # "restarting"
      BY Facts DEF Init
    <3> QED BY <3>1, FirstEntry, Facts
  <2> QED BY <2>1, <2>2, <2>3 DEF EntryInv
<1>7. StopInv /\ HeldInv
  BY DEF Init, StopInv, StopOf, HeldInv, Stops
<1>8. RestartInv /\ AnswerInv
  BY DEF Init, RestartInv, RestartOf, Renews, AnswerInv, AnswerOf, Waits
<1>9. LiveInv
  <2>1. \A j \in Jobs : Told(proc[j])
    <3> SUFFICES ASSUME NEW j \in Jobs, Terminal(proc[j]), proc[j].st # "skipped" PROVE proc[j].pid # 0
      BY DEF Told
    <3> QED BY FirstEntry, Facts DEF Terminal
  <2> QED BY <2>1, FirstEntry DEF LiveInv, Alive
<1>10. SeesInv
  BY DEF Init, SeesInv, SeesOf
<1>11. LookInv /\ AheadInv
  BY DEF Init, LookInv, LookOf, AheadInv, AheadOf, AtIt
<1>12. UpInv
  BY DEF Init, UpInv, UpOf, Ups
<1>13. BounceInv
  <2> SUFFICES ASSUME NEW c \in Clients PROVE BoundOf(c) /\ SpentOf(c)
    BY DEF Init, BounceInv
  <2>1. pc[c] = "idle" /\ op[c].verb = "none" /\ bounced[c] = 0
    BY DEF Init, NoOp
  <2> QED BY <2>1 DEF BoundOf, SpentOf, Bringing
<1> QED BY <1>1, <1>2, <1>3, <1>4, <1>5, <1>6, <1>7, <1>8, <1>9, <1>10, <1>11, <1>12, <1>13
       DEF IInv, TypeInv

LEMMA Inductive == IInv /\ [Next]_vars => IInv'
  BY TypeStep, PlaceStep, EntryStep, StopStep, HeldStep, RestartStep, AnswerStep, LiveStep, SeesStep,
     LookStep, AheadStep, BounceStep, UpStep DEF IInv

LEMMA Always == Spec => []IInv
  BY Initially, Inductive, PTL DEF Spec

(* Of every variable the run bounds, its type; without a supervisor there are *)
(* no processes; who prepares or polls a run holds the root lock              *)
(* (backend.go, runtime.go).                                                  *)
THEOREM SupervisorTyping == Spec => []TypeOK
<1>1. IInv => TypeOK
  <2> SUFFICES ASSUME IInv PROVE TypeOK
    OBVIOUS
  <2>1. \A c \in Clients :
       /\ op[c] \in Requests \cup {NoOp} /\ ver[c] \in 0..Len(Local) /\ todo[c] \in Seq(Procs)
       /\ seen[c] \in [Procs -> Entries \cup {None}] /\ touched[c] \subseteq Procs
    BY DEF IInv, TypeInv, CallType, TodoType, SeenType
  <2>2. ASSUME NEW c \in Clients, pc[c] \in {"baseline", "poll"} PROVE root = c
    <3>1. op[c].verb = "run"
      BY <2>2, AtWork DEF IInv, PlacesOf, Verbs
    <3> QED BY <2>2, <3>1 DEF IInv, PlaceInv, PlaceOf
  <2> QED BY <2>1, <2>2 DEF TypeOK, IInv, TypeInv, EnvType, SupType, CallType, EntryInv
<1> QED BY <1>1, Always, PTL

(* A service that a stop reported down stays down until somebody asks for it,  *)
(* whatever stops, ups, restarts and crashes go on beside it, but for one that *)
(* others changed during the stop or that the stop read as it last ended       *)
(* while its launch was due (Backend.Stop, alreadyStopped).                    *)
THEOREM StoppedForGood == Spec => []StoppedStaysDown
<1>1. IInv => StoppedStaysDown
  BY DEF IInv, HeldInv, Down, AboutToRun, StoppedStaysDown
<1> QED BY <1>1, Always, PTL

(* RunJob takes no result of a run that had ended before it was called,        *)
(* whichever of its three signs it takes it for (freshSample).                *)
THEOREM AnswersOfItsOwn == Spec => AnswersAfresh
<1> DEFINE Held == \A c \in Clients : pc[c] = "poll" /\ pc'[c] = "answered" =>
                     proc[Job(c)].st = "skipped" \/ proc[Job(c)].pid > since[c]
<1>1. IInv /\ [Next]_vars => [Held]_vars
  <2> SUFFICES ASSUME IInv, [Next]_vars, NEW c \in Clients, pc[c] = "poll", pc'[c] = "answered"
               PROVE  proc[Job(c)].st = "skipped" \/ proc[Job(c)].pid > since[c]
    OBVIOUS
  <2>0. TypeInv /\ PlaceInv /\ EntryInv /\ AnswerInv
    BY DEF IInv
  <2>1. Asks(c) \/ Poll(c)
    BY <2>0, EveryStep DEF AnyStep, World, Foreign, Same
  <2>2. op[c].verb = "run"
    BY <2>0, AtWork DEF PlacesOf, Verbs
  <2>3. Poll(c)
    BY <2>1, <2>2, AnswersPolled, <2>0
  <2>4. Job(c) \in Jobs /\ Job(c) \in Procs
    BY <2>0, <2>2, TheJob DEF Ends
  <2>5. Tells(proc[Job(c)], ended[Job(c)], since[c], base[c], saw[c])
    BY <2>0, <2>2, AnswerIs DEF AnswerInv, Waits
  <2>6. Terminal(proc[Job(c)]) /\ FreshSample(c, proc[Job(c)])
    BY <2>3 DEF Poll
  <2>7. proc[Job(c)].end <= proc[Job(c)].pid /\ proc[Job(c)].end \in Nat /\ proc[Job(c)].pid \in Nat /\ since[c] \in Nat
    BY <2>0, <2>4, NowTyped DEF EntryOk, TypeInv, SupType, CallType, Entries
  <2> QED BY <2>5, <2>6, <2>7 DEF Tells, FreshSample
<1> HIDE DEF Held
<1>2. Spec => [][Held]_vars
  BY <1>1, Always, PTL DEF Spec
<1> QED BY <1>2 DEF Held, AnswersAfresh

(* Once its job has run again and ended, a run's next poll takes the end: it   *)
(* is never left waiting for one of its three signs (RunJob, freshSample).    *)
THEOREM RunsAreAnswered == Spec => []RunJobSeesTheEnd
<1>1. IInv => RunJobSeesTheEnd
  <2> SUFFICES ASSUME IInv, NEW c \in Clients, pc[c] = "poll", Terminal(proc[Job(c)]),
                      proc[Job(c)].st # "skipped", proc[Job(c)].due = "no"
               PROVE  FreshSample(c, proc[Job(c)])
    BY DEF RunJobSeesTheEnd
  <2>0. TypeInv /\ PlaceInv /\ EntryInv /\ LiveInv /\ SeesInv
    BY DEF IInv
  <2>1. op[c].verb = "run"
    BY <2>0, AtWork DEF PlacesOf, Verbs
  <2>2. Job(c) \in Jobs
    BY <2>0, <2>1, TheJob DEF Ends
  <2>3. Awaited(proc[Job(c)], base[c].pid) /\ Told(proc[Job(c)])
    BY <2>0, <2>1, <2>2 DEF SeesInv, SeesOf, LiveInv
  <2> QED BY <2>3 DEF Awaited, Told, Terminal, FreshSample
<1> QED BY <1>1, Always, PTL

(* A restart, and a run, ends a live process once at most: when its update has *)
(* relaunched it already, it does not restart it on top. An up ends none that *)
(* it found up, and a stop no more than what it names (applyProcess,           *)
(* updateProcess).                                                            *)
THEOREM EndsAreNeeded == Spec => []EndsNoMoreThanNeeded
<1>1. IInv => EndsNoMoreThanNeeded
  BY DEF IInv, BounceInv, BoundOf, EndsNoMoreThanNeeded
<1> QED BY <1>1, Always, PTL

(* When up asks for a process, none of the jobs this one waits for is left      *)
(* disabled, where the supervisor would not wait for it, unless somebody else   *)
(* changed it since up began (upThroughSupervisor, the order of its plan).    *)
THEOREM AsksInOrder == Spec => UpAsksInOrder
<1> DEFINE Held == \A c \in Clients, p \in Procs :
       /\ op[c].verb = "up" /\ <<pc[c], todo[c]>>' # <<pc[c], todo[c]>>
       /\ proc[p].due # "up" /\ proc'[p].due = "up"
       => \A d \in (DependsOn[p] \cap Local[ver[c]]) \ touched'[c] :
            proc'[d].st # "disabled" \/ proc'[d].due # "no"
<1>1. IInv /\ [Next]_vars => [Held]_vars
  <2> SUFFICES ASSUME IInv, [Next]_vars, NEW c \in Clients, NEW p \in Procs,
                      op[c].verb = "up", <<pc[c], todo[c]>>' # <<pc[c], todo[c]>>,
                      proc[p].due # "up", proc'[p].due = "up",
                      NEW d \in (DependsOn[p] \cap Local[ver[c]]) \ touched'[c]
               PROVE  Ready(proc'[d])
    BY DEF Ready
  <2>0. TypeInv /\ PlaceInv /\ EntryInv /\ UpInv /\ d \in Procs
    BY Facts DEF IInv
  <2>1. Asks(c) \/ Poll(c)
    BY <2>0, EveryStep DEF AnyStep, World, Foreign, Same
  <2>2. CASE AtHandOnly(c, p)
    <3>1. /\ p = Hand(c) /\ todo[c] # <<>> /\ touched'[c] = touched[c] /\ Ups(c) /\ p \in ToSet(todo[c])
          /\ Len(todo[c]) \in Nat /\ 1 \in 1..Len(todo[c]) /\ p = todo[c][1]
      BY <2>0, <2>2, AtHand, SeqPops DEF AtHandOnly, Ups, Hand, TypeInv, TodoType
    <3>2. d \notin ToSet(todo[c])
      <4> SUFFICES ASSUME d \in ToSet(todo[c]) PROVE FALSE
        OBVIOUS
      <4>1. PICK i \in 1..Len(todo[c]) : d = todo[c][i]
        BY <2>0, LenProperties DEF ToSet, TypeInv, TodoType
      <4>2. todo[c][i] \in DependsOn[todo[c][1]]
        BY <3>1, <4>1
      <4>3. i < 1
        BY <2>0, <3>1, <4>2 DEF UpInv, UpOf
      <4> QED BY <4>1, <4>3
    <3>3. Ready(proc[d])
      BY <2>0, <3>1, <3>2 DEF UpInv, UpOf
    <3>4. d # Hand(c)
      BY <3>1, <3>2
    <3> QED BY <2>0, <2>2, <3>3, <3>4 DEF AtHandOnly, OnlyHand
  <2>3. CASE UpDaemon(c)
    <3> DEFINE roots == IF op[c].names = {} THEN Local[file] ELSE op[c].names
               order == UpOrder(roots, Local[file])
               up == Range(order)
    <3>1. proc' # proc
      OBVIOUS
    <3>2. /\ file # 0
          /\ proc' = [q \in Procs |-> IF q \in Local[file] THEN Replaced(file, q \notin up, "up") ELSE Absent]
      BY <2>3, <3>1 DEF UpDaemon, OnlyTo, sup
    <3>3. file \in Versions /\ Local[file] \in SUBSET Procs
      BY <2>0, <3>2, Facts DEF TypeInv, EnvType, Versions
    <3>4. \A q \in ToSet(order) : \A e \in DependsOn[q] \cap Local[file] : e \in ToSet(order)
      BY <3>3, OrderClosed
    <3>5. up = ToSet(order)
      BY DEF Range, ToSet
    <3> HIDE DEF roots, order, up
    <3>6. \A q \in Procs : proc'[q] = IF q \in Local[file] THEN Replaced(file, q \notin up, "up") ELSE Absent
      BY <3>2
    <3>7. p \in Local[file] /\ p \in up
      <4>1. Absent.due = "no" /\ Replaced(file, TRUE, "up").due = "no"
        BY DEF Absent, Replaced, Pending
      <4>2. p \notin up => (p \notin up) = TRUE
        OBVIOUS
      <4> QED BY <3>6, <4>1, <4>2
    <3>8. CASE d \in Local[file]
      <4>1. d \in up
        BY <3>4, <3>5, <3>7, <3>8
      <4>2. (d \notin up) = FALSE
        BY <4>1
      <4>3. proc'[d] = Replaced(file, FALSE, "up")
        BY <2>0, <3>6, <3>8, <4>2
      <4>4. Replaced(file, FALSE, "up").due = "up"
        BY DEF Replaced, Pending
      <4> QED BY <4>3, <4>4 DEF Ready
    <3>9. CASE d \notin Local[file]
      BY <2>0, <3>6, <3>9 DEF Ready, Absent
    <3> QED BY <3>8, <3>9
  <2> QED BY <2>0, <2>1, <2>2, <2>3, UpMakes
<1> HIDE DEF Held
<1>2. Spec => [][Held]_vars
  BY <1>1, Always, PTL DEF Spec
<1> QED BY <1>2 DEF Held, UpAsksInOrder

(* A process that a restart reports restarted is of what was compiled, and due *)
(* or of a newer run than the one it was read at, if nobody else changed it    *)
(* (applyProcess, processRelaunched).                                         *)
THEOREM RestartsForReal == Spec => RestartTakesEffect
<1> DEFINE Held == \A c \in Clients :
       LET p == Hand(c)  e == proc'[Hand(c)] IN
       /\ op[c].verb \in {"restart", "run"} /\ pc[c] \in {"confirm", "restart"}
       /\ pc'[c] = Applied(c) /\ p \notin touched'[c]
       => /\ e.ver = ver[c]
          /\ e.due # "no" \/ e.st = "skipped" \/ (e.pid # 0 /\ e.pid # seen[c][p].pid)
<1>1. IInv /\ [Next]_vars => [Held]_vars
  <2> SUFFICES ASSUME IInv, [Next]_vars, NEW c \in Clients,
                      op[c].verb \in {"restart", "run"}, pc[c] \in {"confirm", "restart"},
                      pc'[c] = Applied(c), Hand(c) \notin touched'[c]
               PROVE  /\ proc'[Hand(c)].ver = ver[c]
                      /\ \/ proc'[Hand(c)].due # "no" \/ proc'[Hand(c)].st = "skipped"
                         \/ (proc'[Hand(c)].pid # 0 /\ proc'[Hand(c)].pid # seen[c][Hand(c)].pid)
    OBVIOUS
  <2>0. TypeInv /\ PlaceInv /\ EntryInv /\ RestartInv
    BY DEF IInv
  <2>1. pc'[c] \in {"before", "poll"}
    BY DEF Applied
  <2>2. Asks(c) \/ Poll(c)
    BY <2>0, <2>1, EveryStep DEF AnyStep, World, Foreign, Same
  <2>3. /\ ver[c] # 0
        /\ Hand(c) \notin touched[c] =>
             /\ pc[c] \in {"apply", "confirm"} => Since(seen[c][Hand(c)], proc[Hand(c)])
             /\ pc[c] \in {"confirm", "restart"} => proc[Hand(c)].ver = ver[c]
    BY <2>0 DEF RestartInv, RestartOf, Renews
  <2>4. CASE Confirm(c)
    <3>1. /\ pc[c] = "confirm" /\ proc' = proc /\ touched' = touched
          /\ ProcessRelaunched(seen[c][Hand(c)], proc[Hand(c)])
      BY <2>0, <2>1, <2>4 DEF Confirm, OnlyTo, Goto, Advance, Now, sup, ghost, TypeInv, CallType
    <3>2. proc[Hand(c)].ver = ver[c] /\ Since(seen[c][Hand(c)], proc[Hand(c)])
      BY <2>3, <3>1
    <3> QED BY <3>1, <3>2 DEF Since, ProcessRelaunched, Absent
  <2>5. ASSUME NEW reuse \in BOOLEAN, RestartProcess(c, reuse)
        PROVE  /\ proc'[Hand(c)].ver = ver[c] /\ proc'[Hand(c)].due # "no"
    <3>1. pc[c] = "restart"
      BY <2>5 DEF RestartProcess
    <3>2. /\ proc'[Hand(c)].due # "no" /\ proc'[Hand(c)].ver = Now(c).ver /\ touched'[c] = touched[c]
      BY <2>0, <2>1, <2>5, RestartAsks
    <3> QED BY <2>3, <3>1, <3>2 DEF Now
  <2> QED BY <2>0, <2>1, <2>2, <2>4, <2>5, RenewalsEnd
<1> HIDE DEF Held
<1>2. Spec => [][Held]_vars
  BY <1>1, Always, PTL DEF Spec
<1> QED BY <1>2 DEF Held, RestartTakesEffect

=============================================================================
