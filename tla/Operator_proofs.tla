-------------------------- MODULE Operator_proofs --------------------------
(***************************************************************************)
(* What the operator tells its clients of, receipts of job runs and events. *)
(* For any number of processes, readers and operations, the root lock       *)
(* excludes runs from each other and from recovery, a live run's receipt    *)
(* stays its own, finished receipts stay, no two readers are told different *)
(* outcomes, and JobOperations is implemented.  For any number of           *)
(* subscribers, snapshots and changes and any buffer, no channel of the     *)
(* event hub is closed twice or sent on after it was closed.                *)
(***************************************************************************)
EXTENDS JobReceipts, EventHub, SequenceTheorems, TLAPS

-----------------------------------------------------------------------------
(* Receipts of job runs.                                                     *)


\* The holder of the root lock is where the code that took it is.
LockInv ==
  /\ \A p \in Procs : pc[p] \in {"preparing"} \cup Executing => root = p
  /\ \A r \in Readers : rpc[r] = "recovering" => root = r

\* Requests under way know their operation.
IdInv ==
  /\ \A p \in Procs : Live(p) => id[p] \in Ids
  /\ \A r \in Readers : rpc[r] # "idle" => rid[r] \in Ids

\* What the executor of a run knows of the receipt on disk.
DiskInv ==
  \A p \in Procs :
    /\ pc[p] \in {"executing", "retrying"} => disk[id[p]] \in Open
    /\ pc[p] = "retrying" => result[p] = Failed
    /\ pc[p] = "publishing" =>
         /\ result[p] \in Terminal
         /\ disk[id[p]] = result[p] \/ (disk[id[p]] \in Open /\ result[p] = Failed)

\* An outcome somebody holds, in memory or as an answer, is the only one.
Vouched(i, status) ==
  /\ status = Succeeded => disk[i] = Succeeded
  /\ status = Failed =>
       /\ disk[i] \notin {Absent, Succeeded}
       /\ \A p \in Procs : pc[p] = "executing" => id[p] # i

OutcomeInv ==
  /\ \A p \in Procs, i \in Ids : Vouched(i, mem[p][i])
  /\ \A i \in Ids : \A status \in told[i] : Vouched(i, status)

IInv == TypeOK /\ LockInv /\ IdInv /\ DiskInv /\ OutcomeInv
-----------------------------------------------------------------------------
USE DEF Pending, Running, Succeeded, Failed, Absent, Terminal, Open, Statuses,
        Executing, Live

\* Append and Tail, as Remember uses them, stay within the operations' ids.
LEMMA RememberTypes ==
  ASSUME NEW i \in Ids, NEW s \in Seq(Ids)
  PROVE  /\ Append(s, i) \in Seq(Ids)
         /\ Tail(Append(s, i)) \in Seq(Ids)
<1>1. Append(s, i) \in Seq(Ids) /\ Append(s, i) # << >>
  BY AppendProperties
<1>2. Tail(Append(s, i)) \in Seq(Ids)
  BY <1>1, HeadTailProperties
<1> QED
  BY <1>1, <1>2

\* Readers are only told outcomes.
LEMMA TellTypes ==
  ASSUME NEW i, NEW status, told \in [Ids -> SUBSET Terminal], Tell(i, status)
  PROVE  told' \in [Ids -> SUBSET Terminal]
<1>1. CASE status \in Terminal
  <2>1. told' = [told EXCEPT ![i] = told[i] \cup {status}]
    BY <1>1 DEF Tell
  <2>2. i \in Ids => told[i] \cup {status} \subseteq Terminal
    BY <1>1
  <2> QED
    BY <2>1, <2>2
<1>2. CASE status \notin Terminal
  BY <1>2 DEF Tell
<1> QED
  BY <1>1, <1>2

\* Every variable keeps its type (the type invariant of the runs).
LEMMA TypeStep == TypeOK /\ [Next]_vars => TypeOK'
<1> SUFFICES ASSUME TypeOK, [Next]_vars PROVE TypeOK'
  OBVIOUS
<1> USE DEF TypeOK
<1>1. ASSUME NEW p \in Procs, NEW k \in {"job", "stack"}, BeginMutation(p, k)
      PROVE  TypeOK'
  BY <1>1 DEF BeginMutation, memory, reading
<1>2. ASSUME NEW p \in Procs, Mutate(p)
      PROVE  TypeOK'
  <2>1. CASE GiveUp(p)
    BY <2>1 DEF GiveUp, EndMutation, memory, reading
  <2>2. CASE TakeRoot(p)
    BY <2>2 DEF TakeRoot, memory, reading
  <2>3. CASE PrepareFails(p)
    BY <2>3 DEF PrepareFails, ReleaseAll, EndMutation, memory, reading
  <2>4. CASE StackPrepared(p)
    BY <2>4 DEF StackPrepared, memory, reading
  <2>5. CASE StackDone(p)
    BY <2>5 DEF StackDone, EndMutation, memory, reading
  <2>6. ASSUME NEW i \in Ids, Register(p, i)
        PROVE  TypeOK'
    <3> DEFINE longer == Append(order[p], i)
    <3>1. longer \in Seq(Ids) /\ Tail(longer) \in Seq(Ids)
      BY RememberTypes
    <3>2. order' \in [Procs -> Seq(Ids)]
      BY <2>6, <3>1 DEF Register, Remember
    <3>3. mem' \in [Procs -> [Ids -> Statuses \cup {Absent}]]
      <4> DEFINE row == [mem[p] EXCEPT ![i] = Pending]
                 evicted == [mem[p] EXCEPT ![i] = Pending, ![Head(longer)] = Absent]
      <4>1. row \in [Ids -> Statuses \cup {Absent}]
        OBVIOUS
      <4>2. evicted \in [Ids -> Statuses \cup {Absent}]
        OBVIOUS
      <4>3. mem' = [mem EXCEPT ![p] = row] \/ mem' = [mem EXCEPT ![p] = evicted]
        BY <2>6 DEF Register, Remember
      <4> DEFINE Rows == [Ids -> Statuses \cup {Absent}]
      <4>4. mem \in [Procs -> Rows] /\ row \in Rows /\ evicted \in Rows
        BY <4>1, <4>2
      <4> HIDE DEF row, evicted, Rows
      <4>5. mem' \in [Procs -> Rows]
        BY <4>3, <4>4
      <4> QED
        BY <4>5 DEF Rows
    <3> QED
      BY <2>6, <3>2, <3>3 DEF Register, shared, reading
  <2>7. CASE RegisterFails(p)
    BY <2>7 DEF RegisterFails, ReleaseAll, EndMutation, memory, reading
  <2> QED
    BY <1>2, <2>1, <2>2, <2>3, <2>4, <2>5, <2>6, <2>7 DEF Mutate
<1>3. ASSUME NEW p \in Procs, Execute(p)
      PROVE  TypeOK'
  <2>1. ASSUME NEW saved \in BOOLEAN, Progress(p, saved)
        PROVE  TypeOK'
    BY <2>1 DEF Progress, shared, runs, reading
  <2>2. ASSUME NEW saved \in BOOLEAN, Retry(p, saved)
        PROVE  TypeOK'
    BY <2>2 DEF Retry, shared, memory, reading
  <2>3. ASSUME NEW o \in Terminal, Finish(p, o)
        PROVE  TypeOK'
    BY <2>3 DEF Finish, shared, memory, reading
  <2>4. CASE FinishUnsaved(p)
    BY <2>4 DEF FinishUnsaved, shared, memory, reading
  <2>5. CASE Publish(p)
    BY <2>5 DEF Publish, ReleaseAll, EndMutation, reading
  <2> QED
    BY <1>3, <2>1, <2>2, <2>3, <2>4, <2>5 DEF Execute
<1>4. ASSUME NEW p \in Procs, Crash(p)
      PROVE  TypeOK'
  <2>1. << >> \in Seq(Ids)
    OBVIOUS
  <2> QED
    BY <1>4, <2>1 DEF Crash, EndMutation
<1>5. ASSUME NEW r \in Readers, NEW i \in Ids, Lookup(r, i)
      PROVE  TypeOK'
  <2>1. told' \in [Ids -> SUBSET Terminal]
    BY <1>5, TellTypes DEF Lookup
  <2>2. CASE Await(r, "reading") /\ rid' = [rid EXCEPT ![r] = i]
    BY <1>5, <2>1, <2>2 DEF Lookup, Await, shared, runs, memory
  <2>3. CASE Answer(r)
    BY <1>5, <2>1, <2>3 DEF Lookup, Answer, shared, runs, memory
  <2> QED
    BY <1>5, <2>2, <2>3 DEF Lookup
<1>6. ASSUME NEW r \in Readers, Read(r)
      PROVE  TypeOK'
  <2>1. CASE ReadFile(r)
    <3>1. told' \in [Ids -> SUBSET Terminal]
      BY <2>1, TellTypes DEF ReadFile
    <3>2. CASE Await(r, "locking") /\ UNCHANGED rid
      BY <2>1, <3>1, <3>2 DEF ReadFile, Await, shared, runs, memory
    <3>3. CASE Answer(r)
      BY <2>1, <3>1, <3>3 DEF ReadFile, Answer, shared, runs, memory
    <3> QED
      BY <2>1, <3>2, <3>3 DEF ReadFile
  <2>2. CASE LockBusy(r)
    BY <2>2 DEF LockBusy, Answer, shared, runs, memory
  <2>3. CASE LockForRecovery(r)
    BY <2>3 DEF LockForRecovery, Await, runs, memory
  <2>4. ASSUME NEW saved \in BOOLEAN, RecoverReceipt(r, saved)
        PROVE  TypeOK'
    <3>1. told' \in [Ids -> SUBSET Terminal]
      <4>1. told' = [told EXCEPT ![rid[r]] = @ \cup {Failed}] \/ told' = told \/ Tell(rid[r], disk[rid[r]])
        BY <2>4 DEF RecoverReceipt
      <4>2. Tell(rid[r], Failed) <=> told' = [told EXCEPT ![rid[r]] = @ \cup {Failed}]
        BY DEF Tell
      <4> QED
        BY <4>1, <4>2, TellTypes
    <3>2. disk' = disk \/ disk' = [disk EXCEPT ![rid[r]] = Failed]
      BY <2>4 DEF RecoverReceipt
    <3> QED
      BY <2>4, <3>1, <3>2 DEF RecoverReceipt, Answer, runs, memory
  <2> QED
    BY <1>6, <2>1, <2>2, <2>3, <2>4 DEF Read
<1>7. CASE UNCHANGED vars
  BY <1>7 DEF vars, shared, runs, memory, reading
<1> QED
  BY <1>1, <1>2, <1>3, <1>4, <1>5, <1>6, <1>7 DEF Next
-----------------------------------------------------------------------------
USE DEF vars, shared, runs, memory, reading, EndMutation, ReleaseAll, Await, Answer

\* The root lock is where the holders are: only the actions that take and
\* release it, and a process's death, matter.
LEMMA LockStep == TypeOK /\ LockInv /\ [Next]_vars => LockInv'
<1> SUFFICES ASSUME TypeOK, LockInv, [Next]_vars PROVE LockInv'
  OBVIOUS
<1>0. /\ pc \in [Procs -> {"idle", "waiting", "preparing", "acting"} \cup Executing]
      /\ rpc \in [Readers -> {"idle", "reading", "locking", "recovering"}]
      /\ Procs \cap Readers = {} /\ None \notin Procs \cup Readers
  BY JobReceiptsAssumption DEF TypeOK
<1> USE <1>0 DEF LockInv
<1>1. ASSUME NEW p \in Procs, NEW k \in {"job", "stack"}, BeginMutation(p, k)
      PROVE  LockInv'
  BY <1>1 DEF BeginMutation
<1>2. ASSUME NEW p \in Procs, Mutate(p)
      PROVE  LockInv'
  <2>1. CASE GiveUp(p)
    BY <2>1 DEF GiveUp
  <2>2. CASE TakeRoot(p)
    BY <2>2 DEF TakeRoot
  <2>3. CASE PrepareFails(p)
    BY <2>3 DEF PrepareFails
  <2>4. CASE StackPrepared(p)
    BY <2>4 DEF StackPrepared
  <2>5. CASE StackDone(p)
    BY <2>5 DEF StackDone
  <2>6. ASSUME NEW i \in Ids, Register(p, i)
        PROVE  LockInv'
    BY <2>6 DEF Register
  <2>7. CASE RegisterFails(p)
    BY <2>7 DEF RegisterFails
  <2> QED
    BY <1>2, <2>1, <2>2, <2>3, <2>4, <2>5, <2>6, <2>7 DEF Mutate
<1>3. ASSUME NEW p \in Procs, Execute(p)
      PROVE  LockInv'
  <2>1. ASSUME NEW saved \in BOOLEAN, Progress(p, saved) \/ Retry(p, saved)
        PROVE  LockInv'
    BY <2>1 DEF Progress, Retry
  <2>2. ASSUME NEW o \in Terminal, Finish(p, o)
        PROVE  LockInv'
    BY <2>2 DEF Finish
  <2>3. CASE FinishUnsaved(p)
    BY <2>3 DEF FinishUnsaved
  <2>4. CASE Publish(p)
    BY <2>4 DEF Publish
  <2> QED
    BY <1>3, <2>1, <2>2, <2>3, <2>4 DEF Execute
<1>4. ASSUME NEW p \in Procs, Crash(p)
      PROVE  LockInv'
  BY <1>4 DEF Crash, HeldIn
<1>5. ASSUME NEW r \in Readers, NEW i \in Ids, Lookup(r, i)
      PROVE  LockInv'
  BY <1>5 DEF Lookup
<1>6. ASSUME NEW r \in Readers, Read(r)
      PROVE  LockInv'
  <2>1. CASE ReadFile(r) \/ LockBusy(r)
    BY <2>1 DEF ReadFile, LockBusy
  <2>2. CASE LockForRecovery(r)
    BY <2>2 DEF LockForRecovery
  <2>3. ASSUME NEW saved \in BOOLEAN, RecoverReceipt(r, saved)
        PROVE  LockInv'
    BY <2>3 DEF RecoverReceipt
  <2> QED
    BY <1>6, <2>1, <2>2, <2>3 DEF Read
<1>7. CASE UNCHANGED vars
  BY <1>7
<1> QED
  BY <1>1, <1>2, <1>3, <1>4, <1>5, <1>6, <1>7 DEF Next

\* Whoever acts on an operation knows which one it is.
LEMMA IdStep == TypeOK /\ IdInv /\ [Next]_vars => IdInv'
<1> SUFFICES ASSUME TypeOK, IdInv, [Next]_vars PROVE IdInv'
  OBVIOUS
<1>0. /\ pc \in [Procs -> {"idle", "waiting", "preparing", "acting"} \cup Executing]
      /\ id \in [Procs -> Ids \cup {None}]
      /\ rpc \in [Readers -> {"idle", "reading", "locking", "recovering"}]
      /\ rid \in [Readers -> Ids \cup {None}]
  BY DEF TypeOK
<1> USE <1>0 DEF IdInv
<1>1. ASSUME NEW p \in Procs, NEW k \in {"job", "stack"}, BeginMutation(p, k)
      PROVE  IdInv'
  BY <1>1 DEF BeginMutation
<1>2. ASSUME NEW p \in Procs, Mutate(p)
      PROVE  IdInv'
  <2>1. CASE GiveUp(p) \/ StackDone(p)
    BY <2>1 DEF GiveUp, StackDone
  <2>2. CASE TakeRoot(p) \/ StackPrepared(p)
    BY <2>2 DEF TakeRoot, StackPrepared
  <2>3. ASSUME NEW i \in Ids, Register(p, i)
        PROVE  IdInv'
    BY <2>3 DEF Register
  <2>4. CASE PrepareFails(p) \/ RegisterFails(p)
    BY <2>4 DEF PrepareFails, RegisterFails
  <2> QED
    BY <1>2, <2>1, <2>2, <2>3, <2>4 DEF Mutate
<1>3. ASSUME NEW p \in Procs, Execute(p)
      PROVE  IdInv'
  <2>1. CASE Publish(p)
    BY <2>1 DEF Publish
  <2>2. ASSUME ~Publish(p)
        PROVE  UNCHANGED <<id, rpc, rid>> /\ Live(p) /\ \A q \in Procs \ {p} : pc'[q] = pc[q]
    BY <1>3, <2>2 DEF Execute, Progress, Retry, Finish, FinishUnsaved
  <2> QED
    BY <2>1, <2>2
<1>4. ASSUME NEW p \in Procs, Crash(p)
      PROVE  IdInv'
  BY <1>4 DEF Crash
<1>5. ASSUME NEW r \in Readers, NEW i \in Ids, Lookup(r, i)
      PROVE  IdInv'
  <2>1. UNCHANGED <<pc, id>>
    BY <1>5 DEF Lookup
  <2>2. CASE rpc' = [rpc EXCEPT ![r] = "reading"] /\ rid' = [rid EXCEPT ![r] = i]
    BY <2>1, <2>2
  <2>3. CASE Answer(r)
    BY <2>1, <2>3
  <2> QED
    BY <1>5, <2>2, <2>3 DEF Lookup
<1>6. ASSUME NEW r \in Readers, Read(r)
      PROVE  IdInv'
  <2>1. UNCHANGED <<pc, id>>
    BY <1>6 DEF Read, ReadFile, LockBusy, LockForRecovery, RecoverReceipt
  <2>2. \/ Answer(r)
        \/ rpc[r] # "idle" /\ UNCHANGED rid /\ \A q \in Readers \ {r} : rpc'[q] = rpc[q]
    BY <1>6 DEF Read, ReadFile, LockBusy, LockForRecovery, RecoverReceipt
  <2> QED
    BY <2>1, <2>2
<1>7. CASE UNCHANGED vars
  BY <1>7
<1> QED
  BY <1>1, <1>2, <1>3, <1>4, <1>5, <1>6, <1>7 DEF Next

(***************************************************************************)
(* What the executor of a run knows of its receipt on disk.  Whoever else  *)
(* writes a receipt, a run that starts or a reader that recovers, holds    *)
(* the root lock, so no run is live then.                                  *)
(***************************************************************************)
LEMMA DiskStep ==
  TypeOK /\ LockInv /\ IdInv /\ DiskInv /\ [Next]_vars => DiskInv'
<1> SUFFICES ASSUME TypeOK, LockInv, IdInv, DiskInv, [Next]_vars PROVE DiskInv'
  OBVIOUS
<1>0. /\ pc \in [Procs -> {"idle", "waiting", "preparing", "acting"} \cup Executing]
      /\ id \in [Procs -> Ids \cup {None}]
      /\ disk \in [Ids -> Statuses \cup {Absent}]
      /\ result \in [Procs -> Terminal \cup {Absent}]
      /\ Procs \cap Readers = {}
  BY JobReceiptsAssumption DEF TypeOK
\* A step that leaves the disk and the live runs alone.
<1>a. ASSUME UNCHANGED disk,
             \A p \in Procs : pc'[p] \in Executing =>
               pc'[p] = pc[p] /\ id'[p] = id[p] /\ result'[p] = result[p]
      PROVE  DiskInv'
  BY <1>a DEF DiskInv
\* A step of the only live run.
<1>b. ASSUME NEW p \in Procs, root = p
      PROVE  \A q \in Procs \ {p} : pc[q] \notin Executing
  BY <1>b DEF LockInv
<1>1. ASSUME NEW p \in Procs, NEW k \in {"job", "stack"}, BeginMutation(p, k)
      PROVE  DiskInv'
  BY <1>0, <1>1, <1>a DEF BeginMutation
<1>2. ASSUME NEW p \in Procs, Mutate(p)
      PROVE  DiskInv'
  <2>1. CASE GiveUp(p) \/ StackDone(p)
    BY <1>0, <1>a, <2>1 DEF GiveUp, StackDone
  <2>2. CASE TakeRoot(p) \/ StackPrepared(p)
    BY <1>0, <1>a, <2>2 DEF TakeRoot, StackPrepared
  <2>3. CASE PrepareFails(p) \/ RegisterFails(p)
    BY <1>0, <1>a, <2>3 DEF PrepareFails, RegisterFails
  <2>4. ASSUME NEW i \in Ids, Register(p, i)
        PROVE  DiskInv'
    <3>1. root = p
      BY <2>4 DEF Register, LockInv
    <3>2. \A q \in Procs \ {p} : pc'[q] \notin Executing
      BY <1>0, <1>b, <2>4, <3>1 DEF Register
    <3>3. pc'[p] = "executing" /\ id'[p] = i /\ disk'[i] = Pending
      BY <1>0, <2>4 DEF Register
    <3> QED
      BY <3>2, <3>3 DEF DiskInv
  <2> QED
    BY <1>2, <2>1, <2>2, <2>3, <2>4 DEF Mutate
<1>3. ASSUME NEW p \in Procs, Execute(p)
      PROVE  DiskInv'
  <2>1. root = p /\ pc[p] \in Executing /\ id[p] \in Ids
    BY <1>3 DEF Execute, Progress, Retry, Finish, FinishUnsaved, Publish, LockInv, IdInv
  <2>2. \A q \in Procs \ {p} : pc'[q] \notin Executing
    <3>1. \A q \in Procs \ {p} : pc'[q] = pc[q]
      BY <1>0, <1>3 DEF Execute, Progress, Retry, Finish, FinishUnsaved, Publish
    <3> QED
      BY <1>b, <2>1, <3>1
  <2>3. ASSUME NEW saved \in BOOLEAN, Progress(p, saved)
        PROVE  DiskInv'
    BY <1>0, <2>1, <2>2, <2>3 DEF Progress, DiskInv
  <2>4. ASSUME NEW saved \in BOOLEAN, Retry(p, saved)
        PROVE  DiskInv'
    BY <1>0, <2>1, <2>2, <2>4 DEF Retry, DiskInv
  <2>5. ASSUME NEW o \in Terminal, Finish(p, o)
        PROVE  DiskInv'
    BY <1>0, <2>1, <2>2, <2>5 DEF Finish, DiskInv
  <2>6. CASE FinishUnsaved(p)
    BY <1>0, <2>1, <2>2, <2>6 DEF FinishUnsaved, DiskInv
  <2>7. CASE Publish(p)
    <3>1. pc'[p] = "idle"
      BY <1>0, <2>7 DEF Publish
    <3> QED
      BY <2>2, <3>1 DEF DiskInv
  <2> QED
    BY <1>3, <2>3, <2>4, <2>5, <2>6, <2>7 DEF Execute
<1>4. ASSUME NEW p \in Procs, Crash(p)
      PROVE  DiskInv'
  BY <1>0, <1>4, <1>a DEF Crash
<1>5. ASSUME NEW r \in Readers, NEW i \in Ids, Lookup(r, i)
      PROVE  DiskInv'
  BY <1>5, <1>a DEF Lookup
<1>6. ASSUME NEW r \in Readers, Read(r)
      PROVE  DiskInv'
  <2>1. CASE ReadFile(r) \/ LockBusy(r) \/ LockForRecovery(r)
    BY <1>a, <2>1 DEF ReadFile, LockBusy, LockForRecovery
  <2>2. ASSUME NEW saved \in BOOLEAN, RecoverReceipt(r, saved)
        PROVE  DiskInv'
    <3>1. root = r /\ UNCHANGED pc
      BY <2>2 DEF RecoverReceipt, LockInv
    <3>2. \A p \in Procs : pc'[p] \notin Executing
      BY <1>0, <3>1 DEF LockInv
    <3> QED
      BY <3>2 DEF DiskInv
  <2> QED
    BY <1>6, <2>1, <2>2 DEF Read
<1>7. CASE UNCHANGED vars
  BY <1>7, <1>a
<1> QED
  BY <1>1, <1>2, <1>3, <1>4, <1>5, <1>6, <1>7 DEF Next

-----------------------------------------------------------------------------
(***************************************************************************)
(* How a step changes what is on disk: not at all, or at the operation of  *)
(* the only live run, at one that recovery finds open while nothing runs,  *)
(* or at a fresh one.                                                      *)
(***************************************************************************)
DiskUntouched ==
  /\ disk' = disk
  /\ \A p \in Procs : pc'[p] = "executing" => pc[p] = "executing" /\ id'[p] = id[p]

RunWrites(p) ==
  /\ pc[p] \in {"executing", "retrying"}
  /\ id'[p] = id[p]
  /\ \A i \in Ids \ {id[p]} : disk'[i] = disk[i]
  /\ \/ disk'[id[p]] \in Open /\ pc[p] = "executing"
     \/ /\ pc'[p] = "publishing"
        /\ disk'[id[p]] = Failed \/ (disk'[id[p]] = Succeeded /\ pc[p] = "executing")
     \/ disk'[id[p]] = disk[id[p]] /\ (pc'[p] = "executing" => pc[p] = "executing")
  /\ \A q \in Procs \ {p} : pc'[q] \notin Executing

RecoveryWrites(i) ==
  /\ disk[i] \in Open /\ disk'[i] = Failed
  /\ \A j \in Ids \ {i} : disk'[j] = disk[j]
  /\ \A p \in Procs : pc'[p] \notin Executing

StartWrites(p, i) ==
  /\ disk[i] = Absent /\ disk'[i] = Pending
  /\ \A j \in Ids \ {i} : disk'[j] = disk[j]
  /\ id'[p] = i
  /\ \A q \in Procs \ {p} : pc'[q] \notin Executing

LEMMA DiskChanges ==
  ASSUME TypeOK, LockInv, IdInv, [Next]_vars
  PROVE  \/ DiskUntouched
         \/ \E p \in Procs : RunWrites(p)
         \/ \E i \in Ids : RecoveryWrites(i)
         \/ \E p \in Procs, i \in Ids : StartWrites(p, i)
<1>0. /\ pc \in [Procs -> {"idle", "waiting", "preparing", "acting"} \cup Executing]
      /\ id \in [Procs -> Ids \cup {None}]
      /\ disk \in [Ids -> Statuses \cup {Absent}]
      /\ Procs \cap Readers = {}
  BY JobReceiptsAssumption DEF TypeOK
<1>a. ASSUME NEW p \in Procs, root = p
      PROVE  \A q \in Procs \ {p} : pc[q] \notin Executing
  BY <1>a DEF LockInv
<1>1. ASSUME NEW p \in Procs, NEW k \in {"job", "stack"}, BeginMutation(p, k)
      PROVE  DiskUntouched
  BY <1>0, <1>1 DEF BeginMutation, DiskUntouched
<1>2. ASSUME NEW p \in Procs, Mutate(p)
      PROVE  DiskUntouched \/ \E i \in Ids : StartWrites(p, i)
  <2>1. CASE GiveUp(p) \/ StackDone(p)
    BY <1>0, <2>1 DEF GiveUp, StackDone, DiskUntouched
  <2>2. CASE TakeRoot(p) \/ StackPrepared(p)
    BY <1>0, <2>2 DEF TakeRoot, StackPrepared, DiskUntouched
  <2>3. CASE PrepareFails(p) \/ RegisterFails(p)
    BY <1>0, <2>3 DEF PrepareFails, RegisterFails, DiskUntouched
  <2>4. ASSUME NEW i \in Ids, Register(p, i)
        PROVE  StartWrites(p, i)
    <3>1. root = p
      BY <2>4 DEF Register, LockInv
    <3>2. \A q \in Procs \ {p} : pc'[q] \notin Executing
      BY <1>0, <1>a, <2>4, <3>1 DEF Register
    <3> QED
      BY <1>0, <2>4, <3>2 DEF Register, StartWrites
  <2> QED
    BY <1>2, <2>1, <2>2, <2>3, <2>4 DEF Mutate
<1>3. ASSUME NEW p \in Procs, Execute(p)
      PROVE  DiskUntouched \/ RunWrites(p)
  <2>1. root = p /\ pc[p] \in Executing /\ id[p] \in Ids
    BY <1>3 DEF Execute, Progress, Retry, Finish, FinishUnsaved, Publish, LockInv, IdInv
  <2>2. \A q \in Procs \ {p} : pc'[q] \notin Executing
    <3>1. \A q \in Procs \ {p} : pc'[q] = pc[q]
      BY <1>0, <1>3 DEF Execute, Progress, Retry, Finish, FinishUnsaved, Publish
    <3> QED
      BY <1>a, <2>1, <3>1
  <2>3. ASSUME NEW saved \in BOOLEAN, Progress(p, saved)
        PROVE  RunWrites(p)
    BY <1>0, <2>1, <2>2, <2>3 DEF Progress, RunWrites
  <2>4. ASSUME NEW saved \in BOOLEAN, Retry(p, saved)
        PROVE  RunWrites(p)
    BY <1>0, <2>1, <2>2, <2>4 DEF Retry, RunWrites
  <2>5. ASSUME NEW o \in Terminal, Finish(p, o)
        PROVE  RunWrites(p)
    BY <1>0, <2>1, <2>2, <2>5 DEF Finish, RunWrites
  <2>6. CASE FinishUnsaved(p)
    BY <1>0, <2>1, <2>2, <2>6 DEF FinishUnsaved, RunWrites
  <2>7. CASE Publish(p)
    BY <1>0, <2>7 DEF Publish, DiskUntouched
  <2> QED
    BY <1>3, <2>3, <2>4, <2>5, <2>6, <2>7 DEF Execute
<1>4. ASSUME NEW p \in Procs, Crash(p)
      PROVE  DiskUntouched
  BY <1>0, <1>4 DEF Crash, DiskUntouched
<1>5. ASSUME NEW r \in Readers, NEW i \in Ids, Lookup(r, i)
      PROVE  DiskUntouched
  BY <1>5 DEF Lookup, DiskUntouched
<1>6. ASSUME NEW r \in Readers, Read(r)
      PROVE  DiskUntouched \/ RecoveryWrites(rid[r])
  <2>1. CASE ReadFile(r) \/ LockBusy(r) \/ LockForRecovery(r)
    BY <2>1 DEF ReadFile, LockBusy, LockForRecovery, DiskUntouched
  <2>2. ASSUME NEW saved \in BOOLEAN, RecoverReceipt(r, saved)
        PROVE  DiskUntouched \/ RecoveryWrites(rid[r])
    <3>1. root = r /\ UNCHANGED <<pc, id>> /\ rid[r] \in Ids
      BY <2>2 DEF RecoverReceipt, LockInv, IdInv
    <3>2. \A p \in Procs : pc'[p] \notin Executing
      BY <1>0, <3>1 DEF LockInv
    <3>3. CASE disk' = disk
      BY <3>1, <3>3 DEF DiskUntouched
    <3>4. CASE disk[rid[r]] \in Open /\ disk' = [disk EXCEPT ![rid[r]] = Failed]
      BY <1>0, <3>1, <3>2, <3>4 DEF RecoveryWrites
    <3> QED
      BY <2>2, <3>3, <3>4 DEF RecoverReceipt
  <2> QED
    BY <1>6, <2>1, <2>2 DEF Read
<1>7. CASE UNCHANGED vars
  BY <1>7 DEF DiskUntouched
<1> QED
  BY <1>1, <1>2, <1>3, <1>4, <1>5, <1>6, <1>7 DEF Next, IdInv, Read, ReadFile,
     LockBusy, LockForRecovery, RecoverReceipt

\* A finished receipt is left as it is, and what is vouched for stays so.
LEMMA VouchedStays ==
  ASSUME TypeOK, LockInv, IdInv, DiskInv, [Next]_vars, NEW i \in Ids
  PROVE  /\ disk[i] \in Terminal => disk'[i] = disk[i]
         /\ Vouched(i, Succeeded) => Vouched(i, Succeeded)'
         /\ Vouched(i, Failed) => Vouched(i, Failed)'
<1>1. CASE DiskUntouched
  BY <1>1 DEF DiskUntouched, Vouched
<1>2. ASSUME NEW p \in Procs, RunWrites(p)
      PROVE  /\ disk[i] \in Terminal => disk'[i] = disk[i]
             /\ Vouched(i, Succeeded) => Vouched(i, Succeeded)'
             /\ Vouched(i, Failed) => Vouched(i, Failed)'
  <2>1. disk[id[p]] \in Open
    BY <1>2 DEF RunWrites, DiskInv
  <2> QED
    BY <1>2, <2>1 DEF RunWrites, Vouched
<1>3. ASSUME NEW j \in Ids, RecoveryWrites(j)
      PROVE  /\ disk[i] \in Terminal => disk'[i] = disk[i]
             /\ Vouched(i, Succeeded) => Vouched(i, Succeeded)'
             /\ Vouched(i, Failed) => Vouched(i, Failed)'
  BY <1>3 DEF RecoveryWrites, Vouched
<1>4. ASSUME NEW p \in Procs, NEW j \in Ids, StartWrites(p, j)
      PROVE  /\ disk[i] \in Terminal => disk'[i] = disk[i]
             /\ Vouched(i, Succeeded) => Vouched(i, Succeeded)'
             /\ Vouched(i, Failed) => Vouched(i, Failed)'
  BY <1>4 DEF StartWrites, Vouched
<1> QED
  BY <1>1, <1>2, <1>3, <1>4, DiskChanges

\* A terminal receipt on disk vouches for its outcome: no live run owns it.
LEMMA DiskVouches ==
  ASSUME DiskInv, NEW i \in Ids, NEW s \in Terminal, disk[i] = s
  PROVE  Vouched(i, s)
BY DEF DiskInv, Vouched

(***************************************************************************)
(* Whoever learns an outcome learns it from a receipt that vouches for it: *)
(* a run that publishes, from what it persisted; a reader, from its        *)
(* process's memory, from disk, or from the recovery it has just written.  *)
(***************************************************************************)
LEMMA OutcomeStep == IInv /\ [Next]_vars => OutcomeInv'
<1> SUFFICES ASSUME IInv, [Next]_vars PROVE OutcomeInv'
  OBVIOUS
<1>i. TypeOK /\ LockInv /\ IdInv /\ DiskInv /\ OutcomeInv
  BY DEF IInv
<1>0. /\ pc \in [Procs -> {"idle", "waiting", "preparing", "acting"} \cup Executing]
      /\ mem \in [Procs -> [Ids -> Statuses \cup {Absent}]]
      /\ disk \in [Ids -> Statuses \cup {Absent}]
      /\ told \in [Ids -> SUBSET Terminal]
      /\ Home \in [Readers -> Procs]
  BY <1>i, JobReceiptsAssumption DEF TypeOK
<1>a. ASSUME \A p \in Procs, i \in Ids, s \in Terminal :
               mem'[p][i] = s => mem[p][i] = s \/ Vouched(i, s)',
             \A i \in Ids, s \in Terminal :
               s \in told'[i] => s \in told[i] \/ Vouched(i, s)'
      PROVE  OutcomeInv'
  <2>1. ASSUME NEW i \in Ids, NEW s \in Terminal, Vouched(i, s)
        PROVE  Vouched(i, s)'
    BY <1>i, <2>1, VouchedStays
  <2>2. \A p \in Procs, i \in Ids, s \in Terminal : mem'[p][i] = s => Vouched(i, s)'
    BY <1>a, <1>i, <2>1 DEF OutcomeInv
  <2>3. \A i \in Ids, s \in Terminal : s \in told'[i] => Vouched(i, s)'
    BY <1>a, <1>i, <2>1 DEF OutcomeInv
  <2> QED
    BY <2>2, <2>3 DEF OutcomeInv, Vouched
\* A reader that is told what a receipt vouches for.
<1>b. ASSUME NEW i \in Ids, NEW status, Tell(i, status), UNCHANGED mem,
             \A s \in Terminal : status = s => Vouched(i, s)
      PROVE  OutcomeInv'
  <2>1. \A s \in Terminal : status = s => Vouched(i, s)'
    BY <1>b, <1>i, VouchedStays
  <2>2. \A j \in Ids, s \in Terminal : s \in told'[j] => s \in told[j] \/ (j = i /\ s = status)
    BY <1>0, <1>b DEF Tell
  <2>3. \A j \in Ids, s \in Terminal : s \in told'[j] => s \in told[j] \/ Vouched(j, s)'
    BY <2>1, <2>2
  <2>4. \A p \in Procs, j \in Ids, s \in Terminal : mem'[p][j] = s => mem[p][j] = s
    BY <1>b
  <2> QED
    BY <1>a, <2>3, <2>4
<1>c. ASSUME UNCHANGED told, UNCHANGED mem
      PROVE  OutcomeInv'
  BY <1>a, <1>c
<1>1. ASSUME NEW p \in Procs, NEW k \in {"job", "stack"}, BeginMutation(p, k)
      PROVE  OutcomeInv'
  BY <1>1, <1>c DEF BeginMutation
<1>2. ASSUME NEW p \in Procs, Mutate(p)
      PROVE  OutcomeInv'
  <2>1. ASSUME \A i \in Ids : ~Register(p, i)
        PROVE  UNCHANGED <<mem, told>>
    BY <1>2, <2>1 DEF Mutate, GiveUp, TakeRoot, PrepareFails, StackPrepared, StackDone, RegisterFails
  <2>2. ASSUME NEW i \in Ids, Register(p, i)
        PROVE  OutcomeInv'
    <3>1. \/ mem' = [mem EXCEPT ![p][i] = Pending]
          \/ mem' = [mem EXCEPT ![p] =
               [@ EXCEPT ![i] = Pending, ![Head(Append(order[p], i))] = Absent]]
      BY <2>2 DEF Register, Remember
    <3>2. \A q \in Procs, j \in Ids, s \in Terminal : mem'[q][j] = s => mem[q][j] = s
      BY <1>0, <3>1
    <3>3. UNCHANGED told
      BY <2>2 DEF Register
    <3> QED
      BY <1>a, <3>2, <3>3
  <2> QED
    BY <1>c, <2>1, <2>2
<1>3. ASSUME NEW p \in Procs, Execute(p)
      PROVE  OutcomeInv'
  <2>1. ASSUME NEW saved \in BOOLEAN, Progress(p, saved)
        PROVE  OutcomeInv'
    <3>1. mem' = [mem EXCEPT ![p][id[p]] = Running] /\ UNCHANGED told
      BY <2>1 DEF Progress
    <3>2. \A q \in Procs, j \in Ids, s \in Terminal : mem'[q][j] = s => mem[q][j] = s
      BY <1>0, <3>1
    <3> QED
      BY <1>a, <3>1, <3>2
  <2>2. CASE Publish(p)
    <3>1. mem' = [mem EXCEPT ![p][id[p]] = result[p]] /\ UNCHANGED <<told, disk>>
      BY <2>2 DEF Publish
    <3>2. pc[p] = "publishing" /\ id[p] \in Ids /\ root = p
      BY <1>i, <2>2 DEF Publish, IdInv, LockInv
    <3>3. \A q \in Procs : pc'[q] # "executing"
      BY <1>0, <1>i, <2>2, <3>2 DEF Publish, LockInv
    <3>4. ASSUME NEW i \in Ids, NEW s \in Terminal, i = id[p], s = result[p]
          PROVE  Vouched(i, s)'
      <4>1. disk'[i] = s \/ (disk'[i] \in Open /\ s = Failed)
        BY <1>i, <3>1, <3>2, <3>4 DEF DiskInv
      <4> QED
        BY <3>3, <4>1 DEF Vouched
    <3>5. \A q \in Procs, j \in Ids, s \in Terminal :
            mem'[q][j] = s => mem[q][j] = s \/ (q = p /\ j = id[p] /\ s = result[p])
      BY <1>0, <3>1
    <3> QED
      BY <1>a, <3>1, <3>4, <3>5
  <2>3. ASSUME NEW saved \in BOOLEAN, Retry(p, saved)
        PROVE  OutcomeInv'
    BY <1>c, <2>3 DEF Retry
  <2>4. ASSUME NEW o \in Terminal, Finish(p, o)
        PROVE  OutcomeInv'
    BY <1>c, <2>4 DEF Finish
  <2>5. CASE FinishUnsaved(p)
    BY <1>c, <2>5 DEF FinishUnsaved
  <2> QED
    BY <1>3, <2>1, <2>2, <2>3, <2>4, <2>5 DEF Execute
<1>4. ASSUME NEW p \in Procs, Crash(p)
      PROVE  OutcomeInv'
  <2>1. mem' = [mem EXCEPT ![p] = [i \in Ids |-> Absent]] /\ UNCHANGED told
    BY <1>4 DEF Crash
  <2>2. \A q \in Procs, j \in Ids, s \in Terminal : mem'[q][j] = s => mem[q][j] = s
    BY <1>0, <2>1
  <2> QED
    BY <1>a, <2>1, <2>2
<1>5. ASSUME NEW r \in Readers, NEW i \in Ids, Lookup(r, i)
      PROVE  OutcomeInv'
  <2>1. Tell(i, mem[Home[r]][i]) /\ UNCHANGED mem /\ Home[r] \in Procs
    BY <1>0, <1>5 DEF Lookup
  <2>2. \A s \in Terminal : mem[Home[r]][i] = s => Vouched(i, s)
    BY <1>i, <2>1 DEF OutcomeInv
  <2> QED
    BY <1>b, <2>1, <2>2
<1>6. ASSUME NEW r \in Readers, Read(r)
      PROVE  OutcomeInv'
  <2>1. CASE LockBusy(r) \/ LockForRecovery(r)
    BY <1>c, <2>1 DEF LockBusy, LockForRecovery
  <2>2. ASSUME rid[r] \in Ids, Tell(rid[r], disk[rid[r]]), UNCHANGED mem
        PROVE  OutcomeInv'
    <3>1. \A s \in Terminal : disk[rid[r]] = s => Vouched(rid[r], s)
      BY <1>i, <2>2, DiskVouches
    <3> QED
      BY <1>b, <2>2, <3>1
  <2>3. CASE ReadFile(r)
    BY <1>i, <2>2, <2>3 DEF ReadFile, IdInv
  <2>4. ASSUME NEW saved \in BOOLEAN, RecoverReceipt(r, saved)
        PROVE  OutcomeInv'
    <3>1. rid[r] \in Ids /\ root = r /\ UNCHANGED <<mem, pc>>
      BY <1>i, <2>4 DEF RecoverReceipt, IdInv, LockInv
    <3>2. CASE disk[rid[r]] \notin Open
      BY <2>2, <2>4, <3>1, <3>2 DEF RecoverReceipt
    <3>3. CASE disk[rid[r]] \in Open /\ ~saved
      BY <1>c, <2>4, <3>1, <3>3 DEF RecoverReceipt
    <3>4. CASE disk[rid[r]] \in Open /\ saved
      <4>1. /\ disk' = [disk EXCEPT ![rid[r]] = Failed]
            /\ told' = [told EXCEPT ![rid[r]] = @ \cup {Failed}]
        BY <2>4, <3>4 DEF RecoverReceipt
      <4>2. \A p \in Procs : pc'[p] # "executing"
        BY <1>i, <3>1, JobReceiptsAssumption DEF LockInv
      <4>3. ASSUME NEW i \in Ids, i = rid[r]
            PROVE  Vouched(i, Failed)'
        BY <1>0, <4>1, <4>2, <4>3 DEF Vouched
      <4>4. \A i \in Ids, s \in Terminal :
              s \in told'[i] => s \in told[i] \/ (i = rid[r] /\ s = Failed)
        BY <1>0, <4>1
      <4> QED
        BY <1>a, <3>1, <4>3, <4>4
    <3> QED
      BY <3>2, <3>3, <3>4
  <2> QED
    BY <1>6, <2>1, <2>3, <2>4 DEF Read
<1>7. CASE UNCHANGED vars
  BY <1>7, <1>c
<1> QED
  BY <1>1, <1>2, <1>3, <1>4, <1>5, <1>6, <1>7 DEF Next

-----------------------------------------------------------------------------
\* The invariant holds initially and is preserved.
LEMMA InitInv == Init => IInv
BY JobReceiptsAssumption DEF Init, IInv, TypeOK, LockInv, IdInv, DiskInv, OutcomeInv, Vouched

LEMMA StepInv == IInv /\ [Next]_vars => IInv'
BY TypeStep, LockStep, IdStep, DiskStep, OutcomeStep DEF IInv

LEMMA Invariant == Spec => []IInv
<1> QED
  BY InitInv, StepInv, PTL DEF Spec

\* Every variable keeps its type, for any processes, readers and operations.
THEOREM Typing == Spec => []TypeOK
<1>1. IInv => TypeOK
  BY DEF IInv
<1> QED
  BY <1>1, Invariant, PTL

(***************************************************************************)
(* The root lock keeps runs apart: no two execute at once in any number of *)
(* processes, none executes while a mutation prepares the root or a reader *)
(* marks an interrupted run.                                               *)
(***************************************************************************)
THEOREM RunsExclude == Spec => []OneRunAtATime
<1>1. IInv => OneRunAtATime
  BY JobReceiptsAssumption DEF IInv, LockInv, OneRunAtATime
<1> QED
  BY <1>1, Invariant, PTL

\* Nobody finishes the receipt of a run that still executes but the run itself.
THEOREM LiveReceiptsAreOwned == Spec => []LiveReceiptIsOpen
<1>1. IInv => LiveReceiptIsOpen
  BY DEF IInv, DiskInv, LiveReceiptIsOpen
<1> QED
  BY <1>1, Invariant, PTL

(***************************************************************************)
(* Readers agree: no two are ever told different outcomes of an operation, *)
(* and a success that was told is durable.                                 *)
(***************************************************************************)
THEOREM ReadersAgreeForEver == Spec => []OneOutcome
<1>1. IInv => OneOutcome
  BY DEF IInv, OutcomeInv, Vouched, OneOutcome
<1> QED
  BY <1>1, Invariant, PTL

\* No step, of a run or of a recovering reader, rewrites a finished receipt.
THEOREM ReceiptsAreFinal == Spec => FinishedReceiptsStay
<1>1. IInv /\ [Next]_vars => [\A i \in Ids : disk[i] \in Terminal => disk'[i] = disk[i]]_vars
  BY VouchedStays DEF IInv
<1> QED
  BY <1>1, Invariant, PTL DEF Spec, FinishedReceiptsStay
-----------------------------------------------------------------------------
\* What the outcome of an operation is read from.
LEMMA OutcomeMeaning ==
  ASSUME IInv, NEW i \in Ids
  PROVE  /\ disk[i] = Absent => OutcomeOf(i) = "none"
         /\ disk[i] \in Open => OutcomeOf(i) = IF Failed \in told[i] THEN "failed" ELSE "open"
         /\ disk[i] = Succeeded => OutcomeOf(i) = "succeeded"
         /\ disk[i] = Failed => OutcomeOf(i) = "failed"
<1>1. told[i] \subseteq Terminal
  BY DEF IInv, TypeOK
<1>2. /\ Succeeded \in told[i] => disk[i] = Succeeded
      /\ Failed \in told[i] => disk[i] \notin {Absent, Succeeded}
  BY DEF IInv, OutcomeInv, Vouched
<1> QED
  BY <1>1, <1>2 DEF OutcomeOf

\* The steps of JobOperations, in terms of what JobReceipts has.
LEMMA MappedSteps ==
  ASSUME NEW i \in Ids,
         \A j \in Ids \ {i} : OutcomeOf(j)' = OutcomeOf(j)
  PROVE  /\ LiveIds' = LiveIds /\ OutcomeOf(i)' = OutcomeOf(i) => UNCHANGED Operations!vars
         /\ (LiveIds = {} /\ LiveIds' = {i} /\ OutcomeOf(i) = "none" /\ OutcomeOf(i)' = "open")
              => Operations!Next
         /\ (i \in LiveIds /\ LiveIds' = LiveIds /\ OutcomeOf(i) = "open" /\ OutcomeOf(i)' = "succeeded")
              => Operations!Next
         /\ (LiveIds' = LiveIds /\ OutcomeOf(i) = "open" /\ OutcomeOf(i)' = "failed")
              => Operations!Next
         /\ (LiveIds = {i} /\ LiveIds' = {} /\ OutcomeOf(i)' = OutcomeOf(i)) => Operations!Next
<1>1. \A s : OutcomeOf(i)' = s => Outcomes' = [Outcomes EXCEPT ![i] = s]
  BY DEF Outcomes
<1>2. OutcomeOf(i)' = OutcomeOf(i) => Outcomes' = Outcomes
  BY DEF Outcomes
<1>3. Outcomes[i] = OutcomeOf(i)
  BY DEF Outcomes
<1>4. LiveIds' = LiveIds /\ OutcomeOf(i)' = OutcomeOf(i) => UNCHANGED Operations!vars
  BY <1>2 DEF Operations!vars
<1>5. ASSUME LiveIds = {}, LiveIds' = {i}, OutcomeOf(i) = "none", OutcomeOf(i)' = "open"
      PROVE  Operations!Start(i)
  <2>1. Outcomes' = [Outcomes EXCEPT ![i] = "open"]
    BY <1>1, <1>2, <1>5
  <2> QED
    BY <1>3, <1>5, <2>1 DEF Operations!Start
<1>6. ASSUME i \in LiveIds, LiveIds' = LiveIds, OutcomeOf(i) = "open", OutcomeOf(i)' = "succeeded"
      PROVE  Operations!Succeed(i)
  <2>1. Outcomes' = [Outcomes EXCEPT ![i] = "succeeded"]
    BY <1>1, <1>2, <1>6
  <2> QED
    BY <1>3, <1>6, <2>1 DEF Operations!Succeed
<1>7. ASSUME LiveIds' = LiveIds, OutcomeOf(i) = "open", OutcomeOf(i)' = "failed"
      PROVE  Operations!Fail(i)
  <2>1. Outcomes' = [Outcomes EXCEPT ![i] = "failed"]
    BY <1>1, <1>2, <1>7
  <2> QED
    BY <1>3, <1>7, <2>1 DEF Operations!Fail
<1>8. ASSUME LiveIds = {i}, LiveIds' = {}, OutcomeOf(i)' = OutcomeOf(i)
      PROVE  Operations!Stop(i)
  <2>1. Outcomes' = Outcomes
    BY <1>1, <1>2, <1>8
  <2> QED
    BY <1>3, <1>8, <2>1 DEF Operations!Stop
<1> QED
  BY <1>4, <1>5, <1>6, <1>7, <1>8 DEF Operations!Next

\* Every step of the receipts is a step of the operations, or none.
LEMMA Simulation ==
  ASSUME IInv, IInv', [Next]_vars
  PROVE  [Operations!Next]_(Operations!vars)
<1>0. /\ pc \in [Procs -> {"idle", "waiting", "preparing", "acting"} \cup Executing]
      /\ id \in [Procs -> Ids \cup {None}]
      /\ mem \in [Procs -> [Ids -> Statuses \cup {Absent}]]
      /\ disk \in [Ids -> Statuses \cup {Absent}]
      /\ told \in [Ids -> SUBSET Terminal]
      /\ Home \in [Readers -> Procs] /\ Procs \cap Readers = {}
  BY JobReceiptsAssumption DEF IInv, TypeOK
<1>i. LockInv /\ IdInv /\ DiskInv /\ OutcomeInv
  BY DEF IInv
\* Only the holder of the root lock is live.
<1>a. ASSUME NEW p \in Procs, root = p
      PROVE  LiveIds = IF pc[p] \in Executing THEN {id[p]} ELSE {}
  BY <1>a, <1>i DEF LockInv, LiveIds
<1>s. ASSUME LiveIds' = LiveIds, UNCHANGED <<disk, told>>
      PROVE  UNCHANGED Operations!vars
  <2>1. UNCHANGED Outcomes
    BY <1>s DEF Outcomes, OutcomeOf
  <2> QED
    BY <1>s, <2>1 DEF Operations!vars
\* A mutation that is not a live run ends.
<1>o. ASSUME NEW p \in Procs, pc[p] \notin Executing,
             pc' = [pc EXCEPT ![p] = "idle"], id' = [id EXCEPT ![p] = None]
      PROVE  LiveIds' = LiveIds
  <2>1. \A q \in Procs : Live(q)' <=> Live(q)
    BY <1>0, <1>o
  <2>2. \A q \in Procs : Live(q) => id'[q] = id[q]
    BY <1>0, <1>o
  <2> HIDE DEF Live
  <2> QED
    BY <2>1, <2>2 DEF LiveIds
\* A step that fails an operation, if it has not failed before.
<1>f. ASSUME NEW i \in Ids, LiveIds' = LiveIds,
             \A j \in Ids \ {i} : disk'[j] = disk[j] /\ told'[j] = told[j],
             disk[i] \in Open, disk'[i] = Failed \/ (disk'[i] \in Open /\ Failed \in told'[i])
      PROVE  [Operations!Next]_(Operations!vars)
  <2>1. \A j \in Ids \ {i} : OutcomeOf(j)' = OutcomeOf(j)
    BY <1>f DEF OutcomeOf
  <2>2. OutcomeOf(i) \in {"open", "failed"}
    BY <1>f, OutcomeMeaning
  <2>3. OutcomeOf(i)' = "failed"
    BY <1>f DEF OutcomeOf
  <2> QED
    BY <1>f, <2>1, <2>2, <2>3, MappedSteps
<1>1. ASSUME NEW p \in Procs, NEW k \in {"job", "stack"}, BeginMutation(p, k)
      PROVE  UNCHANGED Operations!vars
  <2>1. LiveIds' = LiveIds
    BY <1>0, <1>1 DEF BeginMutation, LiveIds
  <2> QED
    BY <1>1, <1>s, <2>1 DEF BeginMutation
<1>2. ASSUME NEW p \in Procs, Mutate(p)
      PROVE  [Operations!Next]_(Operations!vars)
  <2>1. CASE GiveUp(p) \/ StackDone(p)
    <3>1. /\ pc' = [pc EXCEPT ![p] = "idle"] /\ id' = [id EXCEPT ![p] = None]
          /\ pc[p] \notin Executing /\ UNCHANGED <<disk, told>>
      BY <2>1 DEF GiveUp, StackDone
    <3> QED
      BY <1>s, <1>o, <3>1
  <2>2. CASE TakeRoot(p) \/ StackPrepared(p)
    <3>1. LiveIds' = LiveIds /\ UNCHANGED <<disk, told>>
      BY <1>0, <2>2 DEF TakeRoot, StackPrepared, LiveIds
    <3> QED
      BY <1>s, <3>1
  <2>3. CASE PrepareFails(p) \/ RegisterFails(p)
    <3>1. /\ pc' = [pc EXCEPT ![p] = "idle"] /\ id' = [id EXCEPT ![p] = None]
          /\ pc[p] \notin Executing /\ UNCHANGED <<disk, told>>
      BY <2>3 DEF PrepareFails, RegisterFails
    <3> QED
      BY <1>s, <1>o, <3>1
  <2>4. ASSUME NEW i \in Ids, Register(p, i)
        PROVE  Operations!Next
    <3>1. root = p /\ pc[p] = "preparing" /\ root' = p
      BY <1>i, <2>4 DEF Register, LockInv
    <3>2. LiveIds = {}
      BY <1>a, <3>1
    <3>3. /\ pc' = [pc EXCEPT ![p] = "executing"]
          /\ id' = [id EXCEPT ![p] = i]
          /\ disk' = [disk EXCEPT ![i] = Pending]
          /\ UNCHANGED told /\ disk[i] = Absent
      BY <2>4 DEF Register
    <3>4. LiveIds' = {i}
      <4>1. \A q \in Procs : Live(q)' <=> q = p
        BY <1>0, <1>i, <3>1, <3>3 DEF LockInv
      <4>2. id'[p] = i
        BY <1>0, <3>3
      <4> HIDE DEF Live
      <4> QED
        BY <4>1, <4>2 DEF LiveIds
    <3>5. OutcomeOf(i) = "none" /\ told[i] = {}
      BY <1>0, <1>i, <3>3, OutcomeMeaning DEF OutcomeInv, Vouched
    <3>6. OutcomeOf(i)' = "open" /\ \A j \in Ids \ {i} : OutcomeOf(j)' = OutcomeOf(j)
      BY <1>0, <3>3, <3>5 DEF OutcomeOf
    <3> QED
      BY <3>2, <3>4, <3>5, <3>6, MappedSteps
  <2> QED
    BY <1>2, <2>1, <2>2, <2>3, <2>4 DEF Mutate
<1>3. ASSUME NEW p \in Procs, Execute(p)
      PROVE  [Operations!Next]_(Operations!vars)
  <2>0. root = p /\ pc[p] \in Executing /\ id[p] \in Ids /\ LiveIds = {id[p]}
    <3>1. pc[p] \in Executing
      BY <1>3 DEF Execute, Progress, Retry, Finish, FinishUnsaved, Publish
    <3>2. root = p /\ id[p] \in Ids
      BY <1>i, <3>1 DEF LockInv, IdInv
    <3> QED
      BY <1>a, <3>1, <3>2
  <2>1. ASSUME NEW saved \in BOOLEAN, Progress(p, saved)
        PROVE  UNCHANGED Operations!vars
    <3>1. LiveIds' = LiveIds /\ UNCHANGED told
      BY <2>1 DEF Progress, LiveIds
    <3>2. disk[id[p]] \in Open /\ disk'[id[p]] \in Open
      BY <1>0, <1>i, <2>0, <2>1 DEF Progress, DiskInv
    <3>3. \A j \in Ids \ {id[p]} : disk'[j] = disk[j]
      BY <1>0, <2>1 DEF Progress
    <3>4. \A j \in Ids : OutcomeOf(j)' = OutcomeOf(j)
      BY <3>1, <3>2, <3>3 DEF OutcomeOf
    <3> QED
      BY <2>0, <3>1, <3>4, MappedSteps
  <2>2. ASSUME NEW saved \in BOOLEAN, Retry(p, saved)
        PROVE  [Operations!Next]_(Operations!vars)
    <3>1. LiveIds' = LiveIds /\ UNCHANGED told
      BY <1>0, <2>2 DEF Retry, LiveIds
    <3>2. CASE disk' = disk
      BY <1>s, <3>1, <3>2
    <3>3. CASE disk' = [disk EXCEPT ![id[p]] = Failed]
      <4>1. disk[id[p]] \in Open
        BY <1>i, <2>2 DEF Retry, DiskInv
      <4> QED
        BY <1>0, <1>f, <2>0, <3>1, <3>3, <4>1
    <3> QED
      BY <2>2, <3>2, <3>3 DEF Retry
  <2>3. ASSUME NEW o \in Terminal, Finish(p, o)
        PROVE  [Operations!Next]_(Operations!vars)
    <3>1. LiveIds' = LiveIds /\ UNCHANGED told
      BY <1>0, <2>3 DEF Finish, LiveIds
    <3>2. disk[id[p]] \in Open /\ disk' = [disk EXCEPT ![id[p]] = o]
      BY <1>i, <2>3 DEF Finish, DiskInv
    <3>3. CASE o = Failed
      BY <1>0, <1>f, <2>0, <3>1, <3>2, <3>3
    <3>4. CASE o = Succeeded
      <4>1. told[id[p]] = {}
        <5>1. pc[p] = "executing"
          BY <2>3 DEF Finish
        <5>2. \A s \in told[id[p]] : s \in Terminal /\ Vouched(id[p], s)
          BY <1>0, <1>i, <2>0 DEF OutcomeInv
        <5> QED
          BY <2>0, <3>2, <5>1, <5>2 DEF Vouched
      <4>2. \A j \in Ids \ {id[p]} : OutcomeOf(j)' = OutcomeOf(j)
        BY <1>0, <3>1, <3>2 DEF OutcomeOf
      <4>3. ASSUME NEW i \in Ids, i = id[p]
            PROVE  OutcomeOf(i) = "open" /\ OutcomeOf(i)' = "succeeded"
        BY <1>0, <3>1, <3>2, <3>4, <4>1, <4>3 DEF OutcomeOf
      <4> QED
        BY <2>0, <3>1, <4>2, <4>3, MappedSteps
    <3> QED
      BY <3>3, <3>4
  <2>4. CASE FinishUnsaved(p)
    <3>1. LiveIds' = LiveIds /\ UNCHANGED <<disk, told>>
      BY <1>0, <2>4 DEF FinishUnsaved, LiveIds
    <3> QED
      BY <1>s, <3>1
  <2>5. CASE Publish(p)
    <3>1. /\ pc' = [pc EXCEPT ![p] = "idle"] /\ id' = [id EXCEPT ![p] = None]
          /\ UNCHANGED <<disk, told>>
      BY <2>5 DEF Publish
    <3>2. LiveIds' = {}
      BY <1>0, <1>i, <2>0, <3>1 DEF LiveIds, LockInv
    <3>3. \A j \in Ids : OutcomeOf(j)' = OutcomeOf(j)
      BY <3>1 DEF OutcomeOf
    <3> QED
      BY <2>0, <3>2, <3>3, MappedSteps
  <2> QED
    BY <1>3, <2>1, <2>2, <2>3, <2>4, <2>5 DEF Execute
<1>4. ASSUME NEW p \in Procs, Crash(p)
      PROVE  [Operations!Next]_(Operations!vars)
  <2>1. /\ pc' = [pc EXCEPT ![p] = "idle"] /\ id' = [id EXCEPT ![p] = None]
        /\ UNCHANGED <<disk, told>>
    BY <1>4 DEF Crash
  <2>2. CASE Live(p)
    <3>1. root = p /\ id[p] \in Ids /\ LiveIds = {id[p]}
      BY <1>a, <1>i, <2>2 DEF LockInv, IdInv
    <3>2. LiveIds' = {}
      BY <1>0, <1>i, <2>1, <3>1 DEF LiveIds, LockInv
    <3>3. \A j \in Ids : OutcomeOf(j)' = OutcomeOf(j)
      BY <2>1 DEF OutcomeOf
    <3> QED
      BY <3>1, <3>2, <3>3, MappedSteps
  <2>3. CASE ~Live(p)
    <3>1. LiveIds' = LiveIds
      BY <1>0, <2>1, <2>3 DEF LiveIds
    <3> QED
      BY <1>s, <2>1, <3>1
  <2> QED
    BY <2>2, <2>3
\* A reader is told an outcome that memory or the disk vouches for.
<1>t. ASSUME NEW i \in Ids, NEW status, Tell(i, status), UNCHANGED <<pc, id, disk>>,
             status \in Terminal => Vouched(i, status)
      PROVE  [Operations!Next]_(Operations!vars)
  <2>1. LiveIds' = LiveIds
    BY <1>t DEF LiveIds
  <2>2. CASE UNCHANGED told
    BY <1>s, <1>t, <2>1, <2>2
  <2>3. CASE status \in Terminal /\ disk[i] \in Open
    BY <1>0, <1>f, <1>t, <2>1, <2>3 DEF Tell, Vouched
  <2>4. CASE status \in Terminal /\ disk[i] \notin Open
    <3>1. disk[i] \in Terminal
      BY <1>0, <1>t, <2>4 DEF Vouched
    <3>2. \A j \in Ids \ {i} : told'[j] = told[j]
      BY <1>0, <1>t DEF Tell
    <3>3. \A j \in Ids : OutcomeOf(j)' = OutcomeOf(j)
      BY <1>t, <3>1, <3>2 DEF OutcomeOf
    <3> QED
      BY <2>1, <3>3, MappedSteps
  <2> QED
    BY <1>t, <2>2, <2>3, <2>4 DEF Tell
<1>5. ASSUME NEW r \in Readers, NEW i \in Ids, Lookup(r, i)
      PROVE  [Operations!Next]_(Operations!vars)
  <2>1. /\ Tell(i, mem[Home[r]][i]) /\ Home[r] \in Procs
        /\ UNCHANGED <<pc, id, disk>>
    BY <1>0, <1>5 DEF Lookup
  <2>2. Vouched(i, mem[Home[r]][i])
    BY <1>i, <2>1 DEF OutcomeInv
  <2> QED
    BY <1>t, <2>1, <2>2
<1>6. ASSUME NEW r \in Readers, Read(r)
      PROVE  [Operations!Next]_(Operations!vars)
  <2>1. CASE LockBusy(r) \/ LockForRecovery(r)
    <3>1. LiveIds' = LiveIds /\ UNCHANGED <<disk, told>>
      BY <2>1 DEF LockBusy, LockForRecovery, LiveIds
    <3> QED
      BY <1>s, <3>1
  <2>2. ASSUME rid[r] \in Ids, Tell(rid[r], disk[rid[r]]), UNCHANGED <<pc, id, disk>>
        PROVE  [Operations!Next]_(Operations!vars)
    <3>1. disk[rid[r]] \in Terminal => Vouched(rid[r], disk[rid[r]])
      BY <1>i, <2>2, DiskVouches
    <3> QED
      BY <1>t, <2>2, <3>1
  <2>3. CASE ReadFile(r)
    BY <1>i, <2>2, <2>3 DEF ReadFile, IdInv
  <2>4. ASSUME NEW saved \in BOOLEAN, RecoverReceipt(r, saved)
        PROVE  [Operations!Next]_(Operations!vars)
    <3>1. rid[r] \in Ids /\ UNCHANGED <<pc, id>> /\ LiveIds' = LiveIds
      BY <1>i, <2>4 DEF RecoverReceipt, IdInv, LiveIds
    <3>2. CASE disk[rid[r]] \notin Open
      BY <2>2, <2>4, <3>1, <3>2 DEF RecoverReceipt
    <3>3. CASE disk[rid[r]] \in Open /\ ~saved
      BY <1>s, <2>4, <3>1, <3>3 DEF RecoverReceipt
    <3>4. CASE disk[rid[r]] \in Open /\ saved
      <4>1. /\ disk' = [disk EXCEPT ![rid[r]] = Failed]
            /\ told' = [told EXCEPT ![rid[r]] = @ \cup {Failed}]
        BY <2>4, <3>4 DEF RecoverReceipt
      <4> QED
        BY <1>0, <1>f, <3>1, <3>4, <4>1
    <3> QED
      BY <3>2, <3>3, <3>4
  <2> QED
    BY <1>6, <2>1, <2>3, <2>4 DEF Read
<1>7. CASE UNCHANGED vars
  <2>1. LiveIds' = LiveIds
    BY <1>7 DEF LiveIds
  <2> QED
    BY <1>7, <1>s, <2>1
<1> QED
  BY <1>1, <1>2, <1>3, <1>4, <1>5, <1>6, <1>7 DEF Next

(***************************************************************************)
(* However many processes serve a root and however they die, it keeps the  *)
(* promises of JobOperations: one operation at a time, one outcome each,   *)
(* and a success only of an operation that was running.                    *)
(***************************************************************************)
THEOREM ReceiptsImplementOperations == Spec => ImplementsOperations
<1>1. Init => Operations!Init
  <2> SUFFICES ASSUME Init PROVE LiveIds = {} /\ Outcomes = [i \in Ids |-> "none"]
    BY DEF Operations!Init
  <2> QED
    BY DEF Init, LiveIds, Outcomes, OutcomeOf
<1>2. IInv /\ IInv' /\ [Next]_vars => [Operations!Next]_(Operations!vars)
  BY Simulation
<1> QED
  BY <1>1, <1>2, Invariant, PTL DEF Spec, ImplementsOperations, Operations!Spec

-----------------------------------------------------------------------------
(* The event hub.                                                            *)


(* What a poller compares, it has read.                                        *)
ReadInv == poller = "comparing" => polled \in Snapshots

(* Whoever may still close a channel is the only one: a registration is       *)
(* either the broker's, or Close's to finish, or gone; its channel is open    *)
(* until then, and so is that of a subscriber that has yet to register.       *)
ChannelInv ==
  /\ broker.subs \cap broker.toClose = {}
  /\ \A s \in broker.subs \cup broker.toClose : sub[s] = "subscribed" /\ ~ch[s].closed
  /\ \A s \in Subscribers : sub[s] \in {"idle", "registering"} => ~ch[s].closed

HubInv == HubTypeOK /\ ReadInv /\ ChannelInv /\ NoFault

LEMMA HubInitially == HubInit => HubInv
<1> SUFFICES ASSUME HubInit PROVE HubInv
  OBVIOUS
<1> USE HubAssumption DEF HubInit
<1>1. HubTypeOK
  <2>1. world \in Snapshots
    BY HubAssumption DEF HubInit
  <2>2. /\ ch \in [Subscribers -> [buf : Seq(Snapshots), closed : BOOLEAN,
                                   sent : {"never", "sent", "dropped"}]]
        /\ \A s \in Subscribers : Len(ch[s].buf) <= subscriberBuffer
    <3>1. << >> \in Seq(Snapshots) /\ Len(<< >>) = 0 /\ 0 <= subscriberBuffer
      BY HubAssumption
    <3> QED BY <3>1
  <2>3. broker \in [subs : SUBSET Subscribers, closed : BOOLEAN, toClose : SUBSET Subscribers]
    OBVIOUS
  <2>4. changes \in 0..MaxChanges
    OBVIOUS
  <2>5. /\ sub \in [Subscribers -> {"idle", "registering", "subscribed", "refused"}]
        /\ ctx \in [Subscribers -> {"live", "done"}]
        /\ watcher \in [Subscribers -> {"none", "waiting", "done"}]
        /\ view \in [Subscribers -> Snapshots \cup {Nothing}]
    OBVIOUS
  <2>6. {polled, last} \subseteq Snapshots \cup {Nothing}
    OBVIOUS
  <2>7. /\ fault \in BOOLEAN /\ lazy \in BOOLEAN
        /\ hub \in {"new", "started", "stopping", "stopped"}
        /\ poller \in {"off", "waiting", "reading", "comparing", "exited"}
    OBVIOUS
  <2> QED BY <2>1, <2>2, <2>3, <2>4, <2>5, <2>6, <2>7 DEF HubTypeOK
<1>2. ReadInv
  BY DEF ReadInv
<1>3. ChannelInv
  BY DEF ChannelInv
<1>4. NoFault
  BY DEF NoFault
<1> QED BY <1>1, <1>2, <1>3, <1>4 DEF HubInv

(* A channel that was open is closed without a fault, and no other changes.    *)
LEMMA Closing ==
  ASSUME HubTypeOK, NoFault, NEW s \in Subscribers, ~ch[s].closed, CloseChannel(s)
  PROVE  /\ fault' = FALSE
         /\ ch' \in [Subscribers -> [buf : Seq(Snapshots), closed : BOOLEAN,
                                     sent : {"never", "sent", "dropped"}]]
         /\ \A t \in Subscribers : Len(ch'[t].buf) <= subscriberBuffer
         /\ \A t \in Subscribers \ {s} : ch'[t] = ch[t]
<1>1. /\ ch \in [Subscribers -> [buf : Seq(Snapshots), closed : BOOLEAN,
                                 sent : {"never", "sent", "dropped"}]]
      /\ \A t \in Subscribers : Len(ch[t].buf) <= subscriberBuffer
  BY DEF HubTypeOK
<1>2. ch' = [ch EXCEPT ![s].closed = TRUE]
  BY DEF CloseChannel
<1>3. fault' = FALSE
  BY DEF CloseChannel, NoFault
<1>4. \A t \in Subscribers : ch'[t].buf = ch[t].buf
  BY <1>1, <1>2
<1>5. \A t \in Subscribers : Len(ch'[t].buf) <= subscriberBuffer
  BY <1>1, <1>4
<1> QED BY <1>1, <1>2, <1>3, <1>5

(* The two maps of a broker are sets of subscribers.                           *)
LEMMA Registered ==
  HubTypeOK => /\ broker.subs \subseteq Subscribers /\ broker.toClose \subseteq Subscribers
            /\ broker \in [subs : SUBSET Subscribers, closed : BOOLEAN,
                           toClose : SUBSET Subscribers]
            /\ sub \in [Subscribers -> {"idle", "registering", "subscribed", "refused"}]
  BY DEF HubTypeOK

LEMMA WorldChangesKeeps == HubInv /\ WorldChanges => HubInv'
  BY HubAssumption DEF HubInv, HubTypeOK, ReadInv, ChannelInv, NoFault, WorldChanges, pollVars, subVars

LEMMA StartKeeps == HubInv /\ Start => HubInv'
  BY HubAssumption DEF HubInv, HubTypeOK, ReadInv, ChannelInv, NoFault, Start, subVars

LEMMA ReceiveKeeps == ASSUME HubInv, NEW s \in Subscribers, Receive(s) PROVE HubInv'
<1> USE DEF HubInv, Receive, pollVars
<1>1. HubTypeOK'
  <2>1. ch[s].buf \in Seq(Snapshots) /\ ch[s].buf # <<>>
    BY DEF HubTypeOK
  <2>2. /\ Head(ch[s].buf) \in Snapshots /\ Tail(ch[s].buf) \in Seq(Snapshots)
        /\ Len(Tail(ch[s].buf)) <= Len(ch[s].buf)
    BY <2>1
  <2>3. view' \in [Subscribers -> Snapshots \cup {Nothing}]
    BY <2>2 DEF HubTypeOK
  <2>4. ch' \in [Subscribers -> [buf : Seq(Snapshots), closed : BOOLEAN,
                                 sent : {"never", "sent", "dropped"}]]
    BY <2>2 DEF HubTypeOK
  <2>5. \A t \in Subscribers : Len(ch'[t].buf) <= subscriberBuffer
    <3> SUFFICES ASSUME NEW t \in Subscribers PROVE Len(ch'[t].buf) <= subscriberBuffer
      OBVIOUS
    <3>1. CASE t = s
      <4>1. Len(ch[s].buf) <= subscriberBuffer /\ Len(ch[s].buf) \in Nat
        BY <2>1 DEF HubTypeOK
      <4>2. Len(Tail(ch[s].buf)) \in Nat
        BY <2>2
      <4>3. ch'[s].buf = Tail(ch[s].buf)
        BY DEF HubTypeOK
      <4> QED BY <3>1, <4>1, <4>2, <4>3, <2>2, HubAssumption
    <3>2. CASE t # s
      BY <3>2 DEF HubTypeOK
    <3> QED BY <3>1, <3>2
  <2> QED BY <2>3, <2>4, <2>5 DEF HubTypeOK
<1>2. \A t \in Subscribers : ch'[t].closed = ch[t].closed
  BY DEF HubTypeOK
<1>3. ReadInv' /\ NoFault'
  BY DEF ReadInv, NoFault
<1>4. ChannelInv'
  BY <1>2 DEF ChannelInv, HubTypeOK
<1> QED BY <1>1, <1>3, <1>4

LEMMA CancelKeeps == ASSUME HubInv, NEW s \in Subscribers, Cancel(s) PROVE HubInv'
  BY DEF HubInv, HubTypeOK, ReadInv, ChannelInv, NoFault, Cancel, pollVars

LEMMA SubscribeKeeps == ASSUME HubInv, NEW s \in Subscribers, Subscribe(s) PROVE HubInv'
<1> USE DEF HubInv, Subscribe
<1>1. s \notin broker.subs \cup broker.toClose
  BY DEF ChannelInv
<1>2. ReadInv' /\ NoFault'
  BY DEF ReadInv, NoFault
<1>3. CASE lazy /\ hub # "started"
  <2>1. /\ ch' = [ch EXCEPT ![s].closed = TRUE] /\ sub' = [sub EXCEPT ![s] = "refused"]
        /\ poller' = poller /\ broker' = broker
    BY <1>3
  <2>2. \A t \in Subscribers : ch'[t].buf = ch[t].buf
    BY <2>1 DEF HubTypeOK
  <2>3. HubTypeOK'
    BY <2>1, <2>2 DEF HubTypeOK
  <2>4. /\ \A t \in Subscribers \ {s} : ch'[t] = ch[t] /\ sub'[t] = sub[t]
        /\ sub'[s] = "refused"
    BY <2>1 DEF HubTypeOK
  <2>5. ChannelInv'
    BY <1>1, <2>1, <2>4, Registered DEF ChannelInv
  <2> QED BY <1>2, <2>3, <2>5
<1>4. CASE ~(lazy /\ hub # "started")
  <2>1. /\ sub' = [sub EXCEPT ![s] = "registering"] /\ ch' = ch /\ broker' = broker
        /\ poller' = IF poller = "off" THEN "waiting" ELSE poller
    BY <1>4
  <2>2. HubTypeOK'
    BY <2>1 DEF HubTypeOK
  <2>3. ~ch[s].closed /\ \A t \in Subscribers \ {s} : sub'[t] = sub[t]
    BY <2>1 DEF HubTypeOK, ChannelInv
  <2>4. ChannelInv'
    BY <1>1, <2>1, <2>3, Registered DEF ChannelInv
  <2> QED BY <1>2, <2>2, <2>4
<1> QED BY <1>3, <1>4

LEMMA StopBeginsKeeps == HubInv /\ StopBegins => HubInv'
  BY DEF HubInv, HubTypeOK, ReadInv, ChannelInv, NoFault, StopBegins, pollVars, subVars

(* The registrations become Close's: none is left to the broker.               *)
LEMMA CloseKeeps == HubInv /\ Close => HubInv'
<1> SUFFICES ASSUME HubInv, Close PROVE HubInv'
  OBVIOUS
<1> USE DEF HubInv, Close, pollVars, subVars
<1>1. HubTypeOK'
  BY DEF HubTypeOK
<1>2. ReadInv' /\ NoFault'
  BY DEF ReadInv, NoFault
<1>3. ChannelInv'
  BY DEF ChannelInv, HubTypeOK
<1> QED BY <1>1, <1>2, <1>3

LEMMA CloseNextKeeps == ASSUME HubInv, NEW s \in Subscribers, CloseNext(s) PROVE HubInv'
<1> USE DEF HubInv, CloseNext, pollVars, subVars
<1>1. ~ch[s].closed /\ CloseChannel(s) /\ sub[s] = "subscribed" /\ s \notin broker.subs
  BY DEF ChannelInv
<1>2. /\ broker'.subs = broker.subs /\ broker'.toClose = broker.toClose \ {s}
      /\ broker' \in [subs : SUBSET Subscribers, closed : BOOLEAN, toClose : SUBSET Subscribers]
  BY DEF HubTypeOK
<1>3. /\ fault' = FALSE /\ ch' \in [Subscribers -> [buf : Seq(Snapshots), closed : BOOLEAN,
                                             sent : {"never", "sent", "dropped"}]]
      /\ \A t \in Subscribers : Len(ch'[t].buf) <= subscriberBuffer
      /\ \A t \in Subscribers \ {s} : ch'[t] = ch[t]
  BY <1>1, Closing
<1>4. HubTypeOK'
  BY <1>2, <1>3 DEF HubTypeOK
<1>5. ReadInv' /\ NoFault'
  BY <1>3 DEF ReadInv, NoFault
<1>6. ChannelInv'
  BY <1>1, <1>2, <1>3, Registered DEF ChannelInv
<1> QED BY <1>4, <1>5, <1>6

LEMMA StopReturnsKeeps == HubInv /\ StopReturns => HubInv'
  BY DEF HubInv, HubTypeOK, ReadInv, ChannelInv, NoFault, StopReturns, pollVars, subVars

LEMMA BrokerSubscribeKeeps == ASSUME HubInv, NEW s \in Subscribers, BrokerSubscribe(s) PROVE HubInv'
<1> USE DEF HubInv, BrokerSubscribe, pollVars
<1>1. ~ch[s].closed /\ sub[s] = "registering" /\ s \notin broker.subs \cup broker.toClose
  BY DEF ChannelInv
<1>2. CASE broker.closed
  <2>1. CloseChannel(s) /\ broker' = broker /\ sub' = [sub EXCEPT ![s] = "refused"]
    BY <1>2
  <2>2. /\ fault' = FALSE /\ ch' \in [Subscribers -> [buf : Seq(Snapshots), closed : BOOLEAN,
                                               sent : {"never", "sent", "dropped"}]]
        /\ \A t \in Subscribers : Len(ch'[t].buf) <= subscriberBuffer
        /\ \A t \in Subscribers \ {s} : ch'[t] = ch[t]
    BY <1>1, <2>1, Closing
  <2>3. HubTypeOK'
    BY <1>2, <2>1, <2>2 DEF HubTypeOK
  <2>4. /\ \A t \in Subscribers \ {s} : sub'[t] = sub[t]
        /\ sub'[s] = "refused"
    BY <2>1, Registered
  <2>5. ChannelInv'
    BY <1>1, <2>1, <2>2, <2>4, Registered DEF ChannelInv
  <2> QED BY <2>2, <2>3, <2>5 DEF ReadInv, NoFault
<1>3. CASE ~broker.closed
  <2>1. HubTypeOK'
    <3>1. /\ sub' = [sub EXCEPT ![s] = "subscribed"]
          /\ watcher' = [watcher EXCEPT ![s] = "waiting"]
          /\ broker' = [broker EXCEPT !.subs = @ \cup {s}]
          /\ ch' = ch /\ fault' = fault
      BY <1>3
    <3>2. broker' \in [subs : SUBSET Subscribers, closed : BOOLEAN,
                       toClose : SUBSET Subscribers]
      BY <3>1, Registered
    <3> QED BY <3>1, <3>2 DEF HubTypeOK
  <2>2. ReadInv' /\ NoFault'
    BY <1>3 DEF ReadInv, NoFault
  <2>3. /\ broker'.subs = broker.subs \cup {s} /\ broker'.toClose = broker.toClose
        /\ sub' = [sub EXCEPT ![s] = "subscribed"] /\ ch' = ch
    BY <1>3, Registered
  <2>4. /\ \A t \in Subscribers \ {s} : sub'[t] = sub[t]
        /\ sub'[s] = "subscribed"
    BY <2>3, Registered
  <2>5. ChannelInv'
    BY <1>1, <2>3, <2>4, Registered DEF ChannelInv
  <2> QED BY <2>1, <2>2, <2>5
<1> QED BY <1>2, <1>3

(* The goroutine closes the channel of a registration the broker still has.   *)
LEMMA WakesKeeps == ASSUME HubInv, NEW s \in Subscribers, Wakes(s) PROVE HubInv'
<1> USE DEF HubInv, Wakes, pollVars
<1>1. CASE s \in broker.subs
  <2>1. ~ch[s].closed /\ s \notin broker.toClose /\ sub[s] = "subscribed"
    BY <1>1 DEF ChannelInv
  <2>2. CloseChannel(s) /\ broker' = [broker EXCEPT !.subs = @ \ {s}]
    BY <1>1
  <2>3. /\ broker'.subs = broker.subs \ {s} /\ broker'.toClose = broker.toClose
        /\ broker' \in [subs : SUBSET Subscribers, closed : BOOLEAN, toClose : SUBSET Subscribers]
    BY <2>2, Registered
  <2>4. /\ fault' = FALSE /\ ch' \in [Subscribers -> [buf : Seq(Snapshots), closed : BOOLEAN,
                                               sent : {"never", "sent", "dropped"}]]
        /\ \A t \in Subscribers : Len(ch'[t].buf) <= subscriberBuffer
        /\ \A t \in Subscribers \ {s} : ch'[t] = ch[t]
    BY <2>1, <2>2, Closing
  <2>5. HubTypeOK'
    BY <2>3, <2>4 DEF HubTypeOK
  <2>6. ChannelInv'
    BY <2>1, <2>3, <2>4, Registered DEF ChannelInv
  <2> QED BY <2>4, <2>5, <2>6 DEF ReadInv, NoFault
<1>2. CASE s \notin broker.subs
  <2>1. broker' = broker /\ ch' = ch /\ fault' = fault /\ sub' = sub
    BY <1>2
  <2>2. HubTypeOK'
    BY <2>1 DEF HubTypeOK
  <2> QED BY <2>1, <2>2 DEF ReadInv, ChannelInv, NoFault
<1> QED BY <1>1, <1>2

LEMMA PollSkipsKeep == HubInv /\ (PollerEnds \/ Tick \/ PollFails \/ PollReads \/ PollUnchanged) => HubInv'
<1>1. HubInv /\ PollerEnds => HubInv'
  BY DEF HubInv, HubTypeOK, ReadInv, ChannelInv, NoFault, PollerEnds, subVars
<1>2. HubInv /\ Tick => HubInv'
  BY DEF HubInv, HubTypeOK, ReadInv, ChannelInv, NoFault, Tick, subVars
<1>3. HubInv /\ PollFails => HubInv'
  BY DEF HubInv, HubTypeOK, ReadInv, ChannelInv, NoFault, PollFails, subVars
<1>4. HubInv /\ PollReads => HubInv'
  BY DEF HubInv, HubTypeOK, ReadInv, ChannelInv, NoFault, PollReads, subVars
<1>5. HubInv /\ PollUnchanged => HubInv'
  BY DEF HubInv, HubTypeOK, ReadInv, ChannelInv, NoFault, PollUnchanged, subVars
<1> QED BY <1>1, <1>2, <1>3, <1>4, <1>5

(* A publish sends only to what the broker has, whose channels are open.       *)
LEMMA BrokerPublishKeeps == HubInv /\ BrokerPublish => HubInv'
<1> SUFFICES ASSUME HubInv, BrokerPublish PROVE HubInv'
  OBVIOUS
<1> USE DEF HubInv, BrokerPublish, subVars
<1>1. polled \in Snapshots /\ subscriberBuffer \in Nat
  BY HubAssumption DEF ReadInv
<1>2. ASSUME NEW s \in Subscribers
      PROVE  /\ ch'[s] \in [buf : Seq(Snapshots), closed : BOOLEAN,
                            sent : {"never", "sent", "dropped"}]
             /\ Len(ch'[s].buf) <= subscriberBuffer
             /\ ch'[s].closed = ch[s].closed
  <2>1. /\ ch[s] \in [buf : Seq(Snapshots), closed : BOOLEAN, sent : {"never", "sent", "dropped"}]
        /\ ch[s].buf \in Seq(Snapshots) /\ Len(ch[s].buf) <= subscriberBuffer
    BY DEF HubTypeOK
  <2>2. CASE s \notin broker.subs
    BY <2>1, <2>2
  <2>3. CASE s \in broker.subs /\ Len(ch[s].buf) < subscriberBuffer
    <3>1. ch'[s] = [ch[s] EXCEPT !.buf = Append(@, polled), !.sent = "sent"]
      BY <2>3 DEF Send
    <3>2. /\ Append(ch[s].buf, polled) \in Seq(Snapshots)
          /\ Len(Append(ch[s].buf, polled)) = Len(ch[s].buf) + 1
          /\ Len(ch[s].buf) \in Nat
      BY <1>1, <2>1
    <3>3. /\ ch'[s].buf = Append(ch[s].buf, polled) /\ ch'[s].closed = ch[s].closed
          /\ ch'[s] \in [buf : Seq(Snapshots), closed : BOOLEAN,
                         sent : {"never", "sent", "dropped"}]
      BY <2>1, <3>1, <3>2
    <3>4. Len(ch[s].buf) + 1 <= subscriberBuffer
      BY <1>1, <2>3, <3>2
    <3> QED BY <3>2, <3>3, <3>4
  <2>4. CASE s \in broker.subs /\ ~(Len(ch[s].buf) < subscriberBuffer)
    <3>1. ch'[s] = [ch[s] EXCEPT !.sent = "dropped"]
      BY <2>4 DEF Send
    <3> QED BY <2>1, <3>1
  <2> QED BY <2>2, <2>3, <2>4
<1>3. ch' \in [Subscribers -> [buf : Seq(Snapshots), closed : BOOLEAN,
                               sent : {"never", "sent", "dropped"}]]
  <2> DEFINE E(s) == IF s \in broker.subs THEN Send(s, polled) ELSE ch[s]
  <2>1. ch' = [s \in Subscribers |-> E(s)]
    OBVIOUS
  <2>2. \A s \in Subscribers : ch'[s] = E(s)
    BY <2>1
  <2>3. \A s \in Subscribers : E(s) \in [buf : Seq(Snapshots), closed : BOOLEAN,
                                          sent : {"never", "sent", "dropped"}]
    BY <1>2, <2>2
  <2> HIDE DEF E
  <2> QED BY <2>1, <2>3
<1>4. ~fault'
  BY DEF ChannelInv, NoFault
<1>5. HubTypeOK'
  BY <1>1, <1>2, <1>3, <1>4 DEF HubTypeOK
<1>6. ChannelInv'
  BY <1>2 DEF ChannelInv, HubTypeOK
<1> QED BY <1>4, <1>5, <1>6 DEF ReadInv, NoFault

LEMMA HubInductive == HubInv /\ [HubNext]_hubVars => HubInv'
<1> SUFFICES ASSUME HubInv, [HubNext]_hubVars PROVE HubInv'
  OBVIOUS
<1>1. CASE WorldChanges \/ Start
  BY <1>1, WorldChangesKeeps, StartKeeps
<1>2. CASE Polls
  BY <1>2, PollSkipsKeep, BrokerPublishKeeps DEF Polls
<1>3. CASE Stops
  <2>1. ASSUME NEW s \in Subscribers, CloseNext(s) PROVE HubInv'
    BY <2>1, CloseNextKeeps
  <2> QED BY <1>3, <2>1, StopBeginsKeeps, CloseKeeps, StopReturnsKeeps DEF Stops
<1>4. CASE Subscribes
  <2>1. ASSUME NEW s \in Subscribers, Subscribe(s) \/ BrokerSubscribe(s) \/ Wakes(s) PROVE HubInv'
    BY <2>1, SubscribeKeeps, BrokerSubscribeKeeps, WakesKeeps
  <2> QED BY <1>4, <2>1 DEF Subscribes
<1>5. CASE Clients
  <2>1. ASSUME NEW s \in Subscribers, Receive(s) \/ Cancel(s) PROVE HubInv'
    BY <2>1, ReceiveKeeps, CancelKeeps
  <2> QED BY <1>5, <2>1 DEF Clients
<1>6. CASE UNCHANGED hubVars
  BY <1>6 DEF HubInv, HubTypeOK, ReadInv, ChannelInv, NoFault, hubVars, pollVars, subVars
<1> QED BY <1>1, <1>2, <1>3, <1>4, <1>5, <1>6 DEF HubNext

(* The invariant holds throughout: the hub's state keeps its types, buffers    *)
(* their bound included.                                                      *)
THEOREM HubTyping == HubSpec => []HubTypeOK
<1>1. HubSpec => []HubInv
  BY HubInitially, HubInductive, PTL DEF HubSpec
<1>2. HubInv => HubTypeOK
  BY DEF HubInv
<1> QED BY <1>1, <1>2, PTL

(* However a cancel, a publish and Stop fall together, no channel is closed    *)
(* twice or sent on after it was closed: neither panics the operator.         *)
THEOREM ChannelsCloseOnce == HubSpec => []NoFault
<1>1. HubSpec => []HubInv
  BY HubInitially, HubInductive, PTL DEF HubSpec
<1>2. HubInv => NoFault
  BY DEF HubInv
<1> QED BY <1>1, <1>2, PTL
=============================================================================
