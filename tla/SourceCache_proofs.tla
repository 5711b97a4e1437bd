-------------------------- MODULE SourceCache_proofs --------------------------
(***************************************************************************)
(* What a cache that several stacks share keeps, for any stacks, remotes,    *)
(* declarations, failures, kills and changes by people.                      *)
(***************************************************************************)
EXTENDS SourceCache, TLAPS

-----------------------------------------------------------------------------
(* The invariant, in parts.                                                  *)

Decls == UNION {MayDeclare[q] : q \in Procs}
Verbs == {"none", "bring-up", "fetch", "push"}

PcType == pc \in [Procs -> Places]
OpType ==
  /\ op \in [Procs -> [verb : Verbs, decl : Decls \cup {None}, on : {"cache", "stage", "place"}]]
  /\ \A p \in Procs : pc[p] # "idle" => op[p].decl \in MayDeclare[p]
TodoType ==
  /\ todo \in [Procs -> SUBSET Remotes]
  /\ \A p \in Procs : pc[p] \in {"url", "block"} => todo[p] \subseteq Declared(D(p))
CloneType == conf \in Clones /\ stage \in [Procs -> Clones]
PathType == at \in {"absent", "empty", "foreign", "repo"}
MarkType ==
  /\ raw \in Procs \cup {None} /\ lock \in Procs \cup {None} /\ killed \subseteq Procs
  /\ last \in Decls \cup Procs \cup {None}

(* Who is at work on the cache holds its lock, and so is the only one.        *)
LockInv == \A p \in Procs : pc[p] \notin {"idle", "lock"} <=> lock = p

(* A process works on the cache but for the clone it makes, and pushes are    *)
(* only looked at under `remotes:`.                                           *)
PlaceInv == \A p \in Procs :
  /\ Staged(p) => pc[p] \in {"url", "block", "rename", "cloned"}
  /\ InPlace(p) => pc[p] \in {"url", "block", "cloned"}
  /\ pc[p] = "rename" => Staged(p)
  /\ pc[p] = "block" => D(p).form = "remotes"
  /\ pc[p] \in {"rename", "fetch"} => todo[p] = {}

(* Only the clone being made is staged, and only a clone in place being       *)
(* configured is raw; killed processes leave theirs.                          *)
StageInv == \A p \in Procs \ killed : stage[p] # NoClone => Staged(p) /\ pc[p] # "cloned"
RawInv == raw \notin killed \cup {None} => InPlace(raw) /\ pc[raw] \in {"url", "block"}

(* The remotes d declares, but for those in R, are in c as declared.          *)
FitsRemote(c, d, r) ==
  c.url[r] = d.url[r] /\ (d.form = "remotes" => (c.push[r] = "blocked" <=> r = d.canonical))
FitsBut(c, d, R) == \A r \in Declared(d) \ R : FitsRemote(c, d, r)

(* What a process has written so far is as declared: all remotes but those    *)
(* it has still to go through, the URL of the one it is at, at last the push  *)
(* default; a clone tracks what it was made from.                             *)
Reconciled(p) ==
  /\ FitsBut(Checkout(p), D(p), todo[p])
  /\ pc[p] = "block" => \A r \in Remotes :
       IsFirst(r, todo[p]) => Checkout(p).url[r] = D(p).url[r]
  /\ pc[p] \in {"rename", "fetch"} /\ D(p).push # None => Checkout(p).pushDefault = D(p).push
  /\ Fresh(p) => Checkout(p).tracks = D(p).clone

StagedInv == \A p \in Procs :
  Staged(p) /\ pc[p] \in {"url", "block", "rename"} => Reconciled(p)

(* Who writes the cache's own configuration is marked as its writer, and what *)
(* it has written stands unless people have changed something since.          *)
WriterInv == \A p \in Procs :
  ~Staged(p) /\ Writes(p) /\ pc[p] \in {"url", "block", "fetch"} =>
    last \in {p, None} /\ (last # None => at = "repo" /\ Reconciled(p))

(* Between writers, the configuration is the declaration last written whole.  *)
LastInv == last \notin Procs \cup {None} => at = "repo" /\ Fits(conf, last)

TypeInv == PcType /\ OpType /\ TodoType /\ CloneType /\ PathType /\ MarkType
IInv == TypeInv /\ LockInv /\ PlaceInv /\ StageInv /\ RawInv /\ StagedInv /\ WriterInv /\ LastInv

-----------------------------------------------------------------------------
(* What the assumption says of a declaration, and what its clone is.          *)

LEMMA DeclFacts ==
  ASSUME NEW p \in Procs, NEW d \in MayDeclare[p]
  PROVE  /\ d.form \in {"remotes", "repo"} /\ Declared(d) \subseteq Remotes
         /\ \A r \in Declared(d) : d.url[r] \in Urls
         /\ d.clone \in Remotes /\ d.push \in Remotes \cup {None}
         /\ d.canonical # None => d.form = "remotes" /\ d.canonical \in Declared(d)
         /\ d.push # None => d.push \in Declared(d)
         /\ d.canonical \in Remotes \cup {None}
         /\ d \in Decls
<1>1. d \in Declarations
  BY SourceAssumption
<1>2. PICK R \in SUBSET Remotes : d.url \in [R -> Urls]
  BY <1>1 DEF Declarations
<1> QED BY <1>1, <1>2 DEF Declarations, Declared, Decls

LEMMA CloneFacts ==
  /\ NoClone \in Clones
  /\ \A p \in Procs : \A d \in MayDeclare[p] : Cloned(d) \in Clones /\ Cloned(d).tracks = d.clone
<1>1. NoClone \in Clones
  BY DEF NoClone, Clones
<1>2. ASSUME NEW p \in Procs, NEW d \in MayDeclare[p]
      PROVE  Cloned(d) \in Clones /\ Cloned(d).tracks = d.clone
  BY DeclFacts DEF Cloned, NoClone, Clones, Declared
<1> QED BY <1>1, <1>2

(* There is at most one next name.                                            *)
LEMMA FirstIsOne ==
  ASSUME NEW R \in SUBSET Remotes, NEW r, IsFirst(r, R), NEW t, IsFirst(t, R)
  PROVE  r = t
<1>1. PICK i \in DOMAIN RemoteOrder, j \in DOMAIN RemoteOrder : RemoteOrder[i] = r /\ RemoteOrder[j] = t
  BY DEF IsFirst, Remotes, ToSet
<1>2. i <= j /\ j <= i
  BY <1>1 DEF IsFirst
<1>3. i \in Nat /\ j \in Nat
  BY SourceAssumption
<1> QED BY <1>1, <1>2, <1>3

-----------------------------------------------------------------------------
(* Each part is preserved.                                                    *)

LEMMA PcStep ==
  ASSUME PcType, [Next]_vars
  PROVE  PcType'
<1> USE PcType, SourceAssumption DEF PcType, Places, Cloning
<1>1. ASSUME NEW p \in Procs, NEW verb \in {"bring-up", "fetch", "push"}, NEW d \in MayDeclare[p],
             Begin(p, verb, d)
      PROVE  PcType'
  BY <1>1 DEF Begin, Goto
<1>2. ASSUME NEW p \in Procs, TakeLock(p) PROVE PcType'
  BY <1>2 DEF TakeLock, Goto
<1>3. ASSUME NEW p \in Procs, LockFails(p) PROVE PcType'
  BY <1>3 DEF LockFails, Returns, Goto
<1>4. ASSUME NEW p \in Procs, Look(p) PROVE PcType'
  <2>1. (at = "repo") \/ (at \in {"absent", "empty"}) \/ (at = "foreign")
    BY <1>4 DEF Look
  <2>2. CASE at = "repo"
    BY <1>4, <2>2 DEF Look, Goto, Returns, Adopts
  <2>3. CASE at \in {"absent", "empty"}
    BY <1>4, <2>3 DEF Look, Goto, Returns, Adopts
  <2>4. CASE at = "foreign"
    BY <1>4, <2>4 DEF Look, Goto, Returns, Adopts
  <2> QED BY <2>1, <2>2, <2>3, <2>4
<1>5. ASSUME NEW p \in Procs, CloneInPlace(p) PROVE PcType'
  BY <1>5 DEF CloneInPlace, Goto
<1>6. ASSUME NEW p \in Procs, CloneBeside(p) PROVE PcType'
  BY <1>6 DEF CloneBeside, Goto
<1>7. ASSUME NEW p \in Procs, SyncURL(p) PROVE PcType'
  BY <1>7 DEF SyncURL, Goto, Put
<1>8. ASSUME NEW p \in Procs, SyncBlock(p) PROVE PcType'
  BY <1>8 DEF SyncBlock, Goto, Put
<1>9. ASSUME NEW p \in Procs, SyncDefault(p) PROVE PcType'
  BY <1>9 DEF SyncDefault, Goto, Put, Written, Staged, InPlace, Fresh
<1>10. ASSUME NEW p \in Procs, MoveClone(p) PROVE PcType'
  BY <1>10 DEF MoveClone, Goto
<1>11. ASSUME NEW p \in Procs, Fetch(p) PROVE PcType'
  BY <1>11 DEF Fetch, Goto, Returns, Adopts, Written
<1>12. ASSUME NEW p \in Procs, Finish(p) PROVE PcType'
  BY <1>12 DEF Finish, Returns, Goto
<1>13. ASSUME NEW p \in Procs, Fails(p) PROVE PcType'
  BY <1>13 DEF Fails, Returns, Goto, Cloning, InPlace
<1>14. ASSUME NEW p \in Procs, Kill(p) PROVE PcType'
  BY <1>14 DEF Kill, Returns, Goto, Fresh, Staged, InPlace
<1>15. CASE People
  BY <1>15 DEF People, Configure, Replace, Change, going
<1>16. CASE UNCHANGED vars
  BY <1>16 DEF vars, going
<1> QED BY <1>1, <1>2, <1>3, <1>4, <1>5, <1>6, <1>7, <1>8, <1>9, <1>10, <1>11, <1>12, <1>13, <1>14, <1>15, <1>16 DEF Next, Step

(* A call that returns leaves no trace of itself.                              *)
LEMMA ReturnsKeeps ==
  ASSUME PcType, OpType, TodoType, NEW p \in Procs, Returns(p)
  PROVE  OpType' /\ TodoType'
<1>1. OpType'
  <2>1. NoOp \in [verb : Verbs, decl : Decls \cup {None}, on : {"cache", "stage", "place"}]
    BY DEF NoOp, Verbs
  <2>2. op' = [op EXCEPT ![p] = NoOp] /\ pc' = [pc EXCEPT ![p] = "idle"]
    BY DEF Returns, Goto
  <2> QED BY <2>1, <2>2 DEF PcType, OpType
<1>2. TodoType'
  BY DEF Returns, Goto, PcType, OpType, TodoType, D
<1> QED BY <1>1, <1>2


LEMMA OpStep ==
  ASSUME PcType, OpType, TodoType, [Next]_vars
  PROVE  OpType'
<1> USE PcType, OpType, TodoType, SourceAssumption, DeclFacts DEF PcType, OpType, Verbs, NoOp, Places
<1>1. ASSUME NEW p \in Procs, NEW verb \in {"bring-up", "fetch", "push"}, NEW d \in MayDeclare[p],
             Begin(p, verb, d)
      PROVE  OpType'
  BY <1>1 DEF Begin, Goto
<1>2. ASSUME NEW p \in Procs, TakeLock(p) PROVE OpType'
  BY <1>2 DEF TakeLock, Goto
<1>3. ASSUME NEW p \in Procs, LockFails(p) PROVE OpType'
  BY <1>3 DEF LockFails, Returns, Goto
<1>4. ASSUME NEW p \in Procs, Look(p) PROVE OpType'
  <2>1. (at = "repo") \/ (at \in {"absent", "empty"}) \/ (at = "foreign")
    BY <1>4 DEF Look
  <2>2. CASE at = "repo"
    BY <1>4, <2>2 DEF Look, Goto, Returns, Adopts
  <2>3. CASE at \in {"absent", "empty"}
    BY <1>4, <2>3 DEF Look, Goto, Returns, Adopts
  <2>4. CASE at = "foreign"
    BY <1>4, <2>4, ReturnsKeeps DEF Look, Adopts
  <2> QED BY <2>1, <2>2, <2>3, <2>4
<1>5. ASSUME NEW p \in Procs, CloneInPlace(p) PROVE OpType'
  BY <1>5 DEF CloneInPlace, Goto
<1>6. ASSUME NEW p \in Procs, CloneBeside(p) PROVE OpType'
  BY <1>6 DEF CloneBeside, Goto
<1>7. ASSUME NEW p \in Procs, SyncURL(p) PROVE OpType'
  BY <1>7 DEF SyncURL, Goto, Put
<1>8. ASSUME NEW p \in Procs, SyncBlock(p) PROVE OpType'
  BY <1>8 DEF SyncBlock, Goto, Put
<1>9. ASSUME NEW p \in Procs, SyncDefault(p) PROVE OpType'
  BY <1>9 DEF SyncDefault, Goto, Put, Written, Staged, InPlace, Fresh
<1>10. ASSUME NEW p \in Procs, MoveClone(p) PROVE OpType'
  BY <1>10 DEF MoveClone, Goto
<1>11. ASSUME NEW p \in Procs, Fetch(p) PROVE OpType'
  <2>1. (Adopts(p)) \/ (~Adopts(p))
    BY <1>11 DEF Fetch
  <2>2. CASE Adopts(p)
    BY <1>11, <2>2 DEF Fetch, Goto, Returns, Adopts, Written
  <2>3. CASE ~Adopts(p)
    BY <1>11, <2>3, ReturnsKeeps DEF Fetch, Adopts
  <2> QED BY <2>1, <2>2, <2>3
<1>12. ASSUME NEW p \in Procs, Finish(p) PROVE OpType'
  BY <1>12 DEF Finish, Returns, Goto
<1>13. ASSUME NEW p \in Procs, Fails(p) PROVE OpType'
  BY <1>13 DEF Fails, Returns, Goto, Cloning, InPlace
<1>14. ASSUME NEW p \in Procs, Kill(p) PROVE OpType'
  BY <1>14 DEF Kill, Returns, Goto, Fresh, Staged, InPlace
<1>15. CASE People
  BY <1>15 DEF People, Configure, Replace, Change, going
<1>16. CASE UNCHANGED vars
  BY <1>16 DEF vars, going
<1> QED BY <1>1, <1>2, <1>3, <1>4, <1>5, <1>6, <1>7, <1>8, <1>9, <1>10, <1>11, <1>12, <1>13, <1>14, <1>15, <1>16 DEF Next, Step


LEMMA TodoStep ==
  ASSUME PcType, OpType, TodoType, [Next]_vars
  PROVE  TodoType'
<1> USE PcType, OpType, TodoType, SourceAssumption, DeclFacts DEF PcType, OpType, TodoType, D, Declared, Places, Cloning
<1>1. ASSUME NEW p \in Procs, NEW verb \in {"bring-up", "fetch", "push"}, NEW d \in MayDeclare[p],
             Begin(p, verb, d)
      PROVE  TodoType'
  BY <1>1 DEF Begin, Goto
<1>2. ASSUME NEW p \in Procs, TakeLock(p) PROVE TodoType'
  BY <1>2 DEF TakeLock, Goto
<1>3. ASSUME NEW p \in Procs, LockFails(p) PROVE TodoType'
  BY <1>3 DEF LockFails, Returns, Goto
<1>4. ASSUME NEW p \in Procs, Look(p) PROVE TodoType'
  <2>1. (at = "repo") \/ (at \in {"absent", "empty"}) \/ (at = "foreign")
    BY <1>4 DEF Look
  <2>2. CASE at = "repo"
    <3>1. todo' = [todo EXCEPT ![p] = Declared(D(p))] /\ pc' = [pc EXCEPT ![p] = "url"] /\ op' = op
      BY <1>4, <2>2 DEF Look, Goto
    <3>2. D(p) \in MayDeclare[p]
      BY <1>4 DEF Look
    <3>3. Declared(D(p)) \subseteq Remotes
      BY <3>2, DeclFacts
    <3> QED BY <3>1, <3>3
  <2>3. CASE at \in {"absent", "empty"}
    BY <1>4, <2>3 DEF Look, Goto, Returns, Adopts
  <2>4. CASE at = "foreign"
    BY <1>4, <2>4, ReturnsKeeps DEF Look, Adopts
  <2> QED BY <2>1, <2>2, <2>3, <2>4
<1>5. ASSUME NEW p \in Procs, CloneInPlace(p) PROVE TodoType'
  BY <1>5 DEF CloneInPlace, Goto
<1>6. ASSUME NEW p \in Procs, CloneBeside(p) PROVE TodoType'
  BY <1>6 DEF CloneBeside, Goto
<1>7. ASSUME NEW p \in Procs, SyncURL(p) PROVE TodoType'
  <2>1. (D(p).form = "remotes") \/ (D(p).form = "repo")
    BY <1>7 DEF SyncURL
  <2>2. CASE D(p).form = "remotes"
    BY <1>7, <2>2 DEF SyncURL, Goto, Put
  <2>3. CASE D(p).form = "repo"
    BY <1>7, <2>3 DEF SyncURL, Goto, Put
  <2> QED BY <2>1, <2>2, <2>3
<1>8. ASSUME NEW p \in Procs, SyncBlock(p) PROVE TodoType'
  BY <1>8 DEF SyncBlock, Goto, Put
<1>9. ASSUME NEW p \in Procs, SyncDefault(p) PROVE TodoType'
  BY <1>9 DEF SyncDefault, Goto, Put, Written, Staged, InPlace, Fresh
<1>10. ASSUME NEW p \in Procs, MoveClone(p) PROVE TodoType'
  BY <1>10 DEF MoveClone, Goto
<1>11. ASSUME NEW p \in Procs, Fetch(p) PROVE TodoType'
  <2>1. (Adopts(p)) \/ (~Adopts(p))
    BY <1>11 DEF Fetch
  <2>2. CASE Adopts(p)
    BY <1>11, <2>2 DEF Fetch, Goto, Returns, Adopts, Written
  <2>3. CASE ~Adopts(p)
    BY <1>11, <2>3, ReturnsKeeps DEF Fetch, Adopts
  <2> QED BY <2>1, <2>2, <2>3
<1>12. ASSUME NEW p \in Procs, Finish(p) PROVE TodoType'
  BY <1>12 DEF Finish, Returns, Goto
<1>13. ASSUME NEW p \in Procs, Fails(p) PROVE TodoType'
  BY <1>13 DEF Fails, Returns, Goto, Cloning, InPlace
<1>14. ASSUME NEW p \in Procs, Kill(p) PROVE TodoType'
  BY <1>14 DEF Kill, Returns, Goto, Fresh, Staged, InPlace
<1>15. CASE People
  BY <1>15 DEF People, Configure, Replace, Change, going
<1>16. CASE UNCHANGED vars
  BY <1>16 DEF vars, going
<1> QED BY <1>1, <1>2, <1>3, <1>4, <1>5, <1>6, <1>7, <1>8, <1>9, <1>10, <1>11, <1>12, <1>13, <1>14, <1>15, <1>16 DEF Next, Step

(* What syncing writes is a configuration again.                              *)
LEMMA CheckoutTyped == ASSUME CloneType, NEW p \in Procs PROVE Checkout(p) \in Clones
  BY DEF CloneType, Checkout
LEMMA PutTyped ==
  ASSUME CloneType, NEW p \in Procs, NEW c \in Clones, Put(p, c) PROVE CloneType'
  BY DEF CloneType, Put
LEMMA EditTyped ==
  ASSUME NEW c \in Clones, NEW r \in Remotes
  PROVE  /\ \A u \in Urls \cup {None} : [c EXCEPT !.url[r] = u] \in Clones
         /\ \A b \in {None, "blocked", "mine"} : [c EXCEPT !.push[r] = b] \in Clones
         /\ \A d \in Remotes \cup {None} : [c EXCEPT !.pushDefault = d] \in Clones
         /\ \A d \in Remotes \cup {None} : [c EXCEPT !.tracks = d] \in Clones
  BY DEF Clones


LEMMA CloneTypesStep ==
  ASSUME PcType, OpType, TodoType, CloneType, [Next]_vars
  PROVE  CloneType'
<1> USE PcType, OpType, TodoType, CloneType, SourceAssumption, CloneFacts, DeclFacts DEF PcType, OpType, TodoType, CloneType, D
<1>1. ASSUME NEW p \in Procs, NEW verb \in {"bring-up", "fetch", "push"}, NEW d \in MayDeclare[p],
             Begin(p, verb, d)
      PROVE  CloneType'
  BY <1>1 DEF Begin, Goto
<1>2. ASSUME NEW p \in Procs, TakeLock(p) PROVE CloneType'
  BY <1>2 DEF TakeLock, Goto
<1>3. ASSUME NEW p \in Procs, LockFails(p) PROVE CloneType'
  BY <1>3 DEF LockFails, Returns, Goto
<1>4. ASSUME NEW p \in Procs, Look(p) PROVE CloneType'
  BY <1>4 DEF Look, Goto, Returns, Adopts
<1>5. ASSUME NEW p \in Procs, CloneInPlace(p) PROVE CloneType'
  BY <1>5 DEF CloneInPlace, Goto
<1>6. ASSUME NEW p \in Procs, CloneBeside(p) PROVE CloneType'
  BY <1>6 DEF CloneBeside, Goto
<1>7. ASSUME NEW p \in Procs, SyncURL(p) PROVE CloneType'
  <2>1. PICK r \in todo[p] :
          Put(p, IF Writes(p) THEN [Checkout(p) EXCEPT !.url[r] = D(p).url[r]] ELSE Checkout(p))
    BY <1>7 DEF SyncURL
  <2>2. r \in Remotes /\ D(p).url[r] \in Urls
    BY <1>7 DEF SyncURL
  <2> QED BY <2>1, <2>2, PutTyped, EditTyped, CheckoutTyped
<1>8. ASSUME NEW p \in Procs, SyncBlock(p) PROVE CloneType'
  <2>1. PICK r \in todo[p], c \in Clones : Put(p, c)
    <3>1. PICK r \in todo[p] :
            Put(p, IF Writes(p) /\ (r = D(p).canonical) # (Checkout(p).push[r] = "blocked")
                   THEN [Checkout(p) EXCEPT !.push[r] =
                           IF Checkout(p).push[r] = "blocked" THEN None ELSE "blocked"]
                   ELSE Checkout(p))
      BY <1>8 DEF SyncBlock
    <3> QED BY <3>1, EditTyped, CheckoutTyped
  <2> QED BY <2>1, PutTyped
<1>9. ASSUME NEW p \in Procs, SyncDefault(p) PROVE CloneType'
  <2>1. PICK c \in Clones : Put(p, c)
    <3>1. D(p).push \in Remotes \cup {None}
      BY <1>9 DEF SyncDefault
    <3>2. Put(p, IF Writes(p) /\ D(p).push # None
                 THEN [Checkout(p) EXCEPT !.pushDefault = D(p).push] ELSE Checkout(p))
      BY <1>9 DEF SyncDefault
    <3>3. \A d \in Remotes \cup {None} : [Checkout(p) EXCEPT !.pushDefault = d] \in Clones
      <4>1. Checkout(p) \in Clones
        BY CheckoutTyped
      <4> HIDE DEF Checkout, CloneType
      <4> QED BY <4>1 DEF Clones
    <3> QED BY <3>1, <3>2, <3>3, CheckoutTyped
  <2> QED BY <2>1, PutTyped
<1>10. ASSUME NEW p \in Procs, MoveClone(p) PROVE CloneType'
  BY <1>10 DEF MoveClone, Goto
<1>11. ASSUME NEW p \in Procs, Fetch(p) PROVE CloneType'
  <2>1. CASE conf' = conf
    BY <1>11, <2>1 DEF Fetch
  <2>2. CASE conf' = [conf EXCEPT !.tracks = D(p).clone]
    <3>1. D(p).clone \in Remotes
      BY <1>11 DEF Fetch
    <3> QED BY <1>11, <2>2, <3>1, EditTyped DEF Fetch
  <2> QED BY <1>11, <2>1, <2>2 DEF Fetch
<1>12. ASSUME NEW p \in Procs, Finish(p) PROVE CloneType'
  BY <1>12 DEF Finish, Returns, Goto
<1>13. ASSUME NEW p \in Procs, Fails(p) PROVE CloneType'
  BY <1>13 DEF Fails, Returns, Goto, Cloning, InPlace
<1>14. ASSUME NEW p \in Procs, Kill(p) PROVE CloneType'
  BY <1>14 DEF Kill, Returns, Goto, Fresh, Staged, InPlace
<1>15. CASE People
  <2>1. ASSUME NEW r \in Remotes, Configure(r) PROVE CloneType'
    <3>1. PICK c \in Clones : conf' = c
      BY <2>1, EditTyped DEF Configure
    <3> QED BY <3>1, <2>1 DEF Configure, going
  <2>2. ASSUME NEW what, Replace(what) PROVE CloneType'
    BY <2>2 DEF Replace, going
  <2>3. ASSUME NEW r \in Remotes, Configure(r) PROVE UNCHANGED stage
    BY <2>3 DEF Configure, going
  <2> QED BY <1>15, <2>1, <2>2 DEF People
<1>16. CASE UNCHANGED vars
  BY <1>16 DEF vars, going
<1> QED BY <1>1, <1>2, <1>3, <1>4, <1>5, <1>6, <1>7, <1>8, <1>9, <1>10, <1>11, <1>12, <1>13, <1>14, <1>15, <1>16 DEF Next, Step


LEMMA PathStep ==
  ASSUME PathType, [Next]_vars
  PROVE  PathType'
<1> USE PathType, SourceAssumption DEF PathType
<1>1. ASSUME NEW p \in Procs, NEW verb \in {"bring-up", "fetch", "push"}, NEW d \in MayDeclare[p],
             Begin(p, verb, d)
      PROVE  PathType'
  BY <1>1 DEF Begin, Goto
<1>2. ASSUME NEW p \in Procs, TakeLock(p) PROVE PathType'
  BY <1>2 DEF TakeLock, Goto
<1>3. ASSUME NEW p \in Procs, LockFails(p) PROVE PathType'
  BY <1>3 DEF LockFails, Returns, Goto
<1>4. ASSUME NEW p \in Procs, Look(p) PROVE PathType'
  BY <1>4 DEF Look, Goto, Returns, Adopts
<1>5. ASSUME NEW p \in Procs, CloneInPlace(p) PROVE PathType'
  BY <1>5 DEF CloneInPlace, Goto
<1>6. ASSUME NEW p \in Procs, CloneBeside(p) PROVE PathType'
  BY <1>6 DEF CloneBeside, Goto
<1>7. ASSUME NEW p \in Procs, SyncURL(p) PROVE PathType'
  BY <1>7 DEF SyncURL, Goto, Put
<1>8. ASSUME NEW p \in Procs, SyncBlock(p) PROVE PathType'
  BY <1>8 DEF SyncBlock, Goto, Put
<1>9. ASSUME NEW p \in Procs, SyncDefault(p) PROVE PathType'
  BY <1>9 DEF SyncDefault, Goto, Put, Written, Staged, InPlace, Fresh
<1>10. ASSUME NEW p \in Procs, MoveClone(p) PROVE PathType'
  BY <1>10 DEF MoveClone, Goto
<1>11. ASSUME NEW p \in Procs, Fetch(p) PROVE PathType'
  BY <1>11 DEF Fetch, Goto, Returns, Adopts, Written
<1>12. ASSUME NEW p \in Procs, Finish(p) PROVE PathType'
  BY <1>12 DEF Finish, Returns, Goto
<1>13. ASSUME NEW p \in Procs, Fails(p) PROVE PathType'
  BY <1>13 DEF Fails, Returns, Goto, Cloning, InPlace
<1>14. ASSUME NEW p \in Procs, Kill(p) PROVE PathType'
  BY <1>14 DEF Kill, Returns, Goto, Fresh, Staged, InPlace
<1>15. CASE People
  BY <1>15 DEF People, Configure, Replace, Change, going
<1>16. CASE UNCHANGED vars
  BY <1>16 DEF vars, going
<1> QED BY <1>1, <1>2, <1>3, <1>4, <1>5, <1>6, <1>7, <1>8, <1>9, <1>10, <1>11, <1>12, <1>13, <1>14, <1>15, <1>16 DEF Next, Step


LEMMA MarkStep ==
  ASSUME PcType, OpType, MarkType, [Next]_vars
  PROVE  MarkType'
<1> USE PcType, OpType, MarkType, SourceAssumption, DeclFacts DEF PcType, OpType, MarkType, D
<1>1. ASSUME NEW p \in Procs, NEW verb \in {"bring-up", "fetch", "push"}, NEW d \in MayDeclare[p],
             Begin(p, verb, d)
      PROVE  MarkType'
  BY <1>1 DEF Begin, Goto
<1>2. ASSUME NEW p \in Procs, TakeLock(p) PROVE MarkType'
  BY <1>2 DEF TakeLock, Goto
<1>3. ASSUME NEW p \in Procs, LockFails(p) PROVE MarkType'
  BY <1>3 DEF LockFails, Returns, Goto
<1>4. ASSUME NEW p \in Procs, Look(p) PROVE MarkType'
  BY <1>4 DEF Look, Goto, Returns, Adopts
<1>5. ASSUME NEW p \in Procs, CloneInPlace(p) PROVE MarkType'
  BY <1>5 DEF CloneInPlace, Goto
<1>6. ASSUME NEW p \in Procs, CloneBeside(p) PROVE MarkType'
  BY <1>6 DEF CloneBeside, Goto
<1>7. ASSUME NEW p \in Procs, SyncURL(p) PROVE MarkType'
  BY <1>7 DEF SyncURL, Goto, Put
<1>8. ASSUME NEW p \in Procs, SyncBlock(p) PROVE MarkType'
  BY <1>8 DEF SyncBlock, Goto, Put
<1>9. ASSUME NEW p \in Procs, SyncDefault(p) PROVE MarkType'
  BY <1>9 DEF SyncDefault, Goto, Put, Written, Staged, InPlace, Fresh
<1>10. ASSUME NEW p \in Procs, MoveClone(p) PROVE MarkType'
  BY <1>10 DEF MoveClone, Goto
<1>11. ASSUME NEW p \in Procs, Fetch(p) PROVE MarkType'
  BY <1>11 DEF Fetch, Goto, Returns, Adopts, Written
<1>12. ASSUME NEW p \in Procs, Finish(p) PROVE MarkType'
  BY <1>12 DEF Finish, Returns, Goto
<1>13. ASSUME NEW p \in Procs, Fails(p) PROVE MarkType'
  BY <1>13 DEF Fails, Returns, Goto, Cloning, InPlace
<1>14. ASSUME NEW p \in Procs, Kill(p) PROVE MarkType'
  BY <1>14 DEF Kill, Returns, Goto, Fresh, Staged, InPlace
<1>15. CASE People
  BY <1>15 DEF People, Configure, Replace, Change, going
<1>16. CASE UNCHANGED vars
  BY <1>16 DEF vars, going
<1> QED BY <1>1, <1>2, <1>3, <1>4, <1>5, <1>6, <1>7, <1>8, <1>9, <1>10, <1>11, <1>12, <1>13, <1>14, <1>15, <1>16 DEF Next, Step


LEMMA LockStep ==
  ASSUME PcType, MarkType, LockInv, [Next]_vars
  PROVE  LockInv'
<1> USE PcType, MarkType, LockInv, SourceAssumption DEF PcType, MarkType, LockInv
<1>1. ASSUME NEW p \in Procs, NEW verb \in {"bring-up", "fetch", "push"}, NEW d \in MayDeclare[p],
             Begin(p, verb, d)
      PROVE  LockInv'
  BY <1>1 DEF Begin, Goto
<1>2. ASSUME NEW p \in Procs, TakeLock(p) PROVE LockInv'
  BY <1>2 DEF TakeLock, Goto
<1>3. ASSUME NEW p \in Procs, LockFails(p) PROVE LockInv'
  BY <1>3 DEF LockFails, Returns, Goto
<1>4. ASSUME NEW p \in Procs, Look(p) PROVE LockInv'
  BY <1>4 DEF Look, Goto, Returns, Adopts
<1>5. ASSUME NEW p \in Procs, CloneInPlace(p) PROVE LockInv'
  BY <1>5 DEF CloneInPlace, Goto
<1>6. ASSUME NEW p \in Procs, CloneBeside(p) PROVE LockInv'
  BY <1>6 DEF CloneBeside, Goto
<1>7. ASSUME NEW p \in Procs, SyncURL(p) PROVE LockInv'
  BY <1>7 DEF SyncURL, Goto, Put
<1>8. ASSUME NEW p \in Procs, SyncBlock(p) PROVE LockInv'
  BY <1>8 DEF SyncBlock, Goto, Put
<1>9. ASSUME NEW p \in Procs, SyncDefault(p) PROVE LockInv'
  BY <1>9 DEF SyncDefault, Goto, Put, Written, Staged, InPlace, Fresh
<1>10. ASSUME NEW p \in Procs, MoveClone(p) PROVE LockInv'
  BY <1>10 DEF MoveClone, Goto
<1>11. ASSUME NEW p \in Procs, Fetch(p) PROVE LockInv'
  BY <1>11 DEF Fetch, Goto, Returns, Adopts, Written
<1>12. ASSUME NEW p \in Procs, Finish(p) PROVE LockInv'
  BY <1>12 DEF Finish, Returns, Goto
<1>13. ASSUME NEW p \in Procs, Fails(p) PROVE LockInv'
  BY <1>13 DEF Fails, Returns, Goto, Cloning, InPlace
<1>14. ASSUME NEW p \in Procs, Kill(p) PROVE LockInv'
  BY <1>14 DEF Kill, Returns, Goto, Fresh, Staged, InPlace
<1>15. CASE People
  BY <1>15 DEF People, Configure, Replace, Change, going
<1>16. CASE UNCHANGED vars
  BY <1>16 DEF vars, going
<1> QED BY <1>1, <1>2, <1>3, <1>4, <1>5, <1>6, <1>7, <1>8, <1>9, <1>10, <1>11, <1>12, <1>13, <1>14, <1>15, <1>16 DEF Next, Step


LEMMA PlaceStep ==
  ASSUME PcType, OpType, TodoType, PlaceInv, [Next]_vars
  PROVE  PlaceInv'
<1> USE PcType, OpType, TodoType, PlaceInv, SourceAssumption, DeclFacts DEF PcType, OpType, TodoType, PlaceInv, Staged, InPlace, D, NoOp
<1>1. ASSUME NEW p \in Procs, NEW verb \in {"bring-up", "fetch", "push"}, NEW d \in MayDeclare[p],
             Begin(p, verb, d)
      PROVE  PlaceInv'
  BY <1>1 DEF Begin, Goto
<1>2. ASSUME NEW p \in Procs, TakeLock(p) PROVE PlaceInv'
  BY <1>2 DEF TakeLock, Goto
<1>3. ASSUME NEW p \in Procs, LockFails(p) PROVE PlaceInv'
  BY <1>3 DEF LockFails, Returns, Goto
<1>4. ASSUME NEW p \in Procs, Look(p) PROVE PlaceInv'
  BY <1>4 DEF Look, Goto, Returns, Adopts
<1>5. ASSUME NEW p \in Procs, CloneInPlace(p) PROVE PlaceInv'
  BY <1>5 DEF CloneInPlace, Goto
<1>6. ASSUME NEW p \in Procs, CloneBeside(p) PROVE PlaceInv'
  BY <1>6 DEF CloneBeside, Goto
<1>7. ASSUME NEW p \in Procs, SyncURL(p) PROVE PlaceInv'
  BY <1>7 DEF SyncURL, Goto, Put
<1>8. ASSUME NEW p \in Procs, SyncBlock(p) PROVE PlaceInv'
  BY <1>8 DEF SyncBlock, Goto, Put
<1>9. ASSUME NEW p \in Procs, SyncDefault(p) PROVE PlaceInv'
  BY <1>9 DEF SyncDefault, Goto, Put, Written, Staged, InPlace, Fresh
<1>10. ASSUME NEW p \in Procs, MoveClone(p) PROVE PlaceInv'
  BY <1>10 DEF MoveClone, Goto
<1>11. ASSUME NEW p \in Procs, Fetch(p) PROVE PlaceInv'
  BY <1>11 DEF Fetch, Goto, Returns, Adopts, Written
<1>12. ASSUME NEW p \in Procs, Finish(p) PROVE PlaceInv'
  BY <1>12 DEF Finish, Returns, Goto
<1>13. ASSUME NEW p \in Procs, Fails(p) PROVE PlaceInv'
  BY <1>13 DEF Fails, Returns, Goto, Cloning, InPlace
<1>14. ASSUME NEW p \in Procs, Kill(p) PROVE PlaceInv'
  BY <1>14 DEF Kill, Returns, Goto, Fresh, Staged, InPlace
<1>15. CASE People
  BY <1>15 DEF People, Configure, Replace, Change, going
<1>16. CASE UNCHANGED vars
  BY <1>16 DEF vars, going
<1> QED BY <1>1, <1>2, <1>3, <1>4, <1>5, <1>6, <1>7, <1>8, <1>9, <1>10, <1>11, <1>12, <1>13, <1>14, <1>15, <1>16 DEF Next, Step


LEMMA StageStep ==
  ASSUME PcType, OpType, CloneType, LockInv, PlaceInv, StageInv, [Next]_vars
  PROVE  StageInv'
<1> USE PcType, OpType, CloneType, LockInv, PlaceInv, StageInv, SourceAssumption DEF PcType, OpType, CloneType, LockInv, PlaceInv, StageInv, Staged, NoOp
<1>1. ASSUME NEW p \in Procs, NEW verb \in {"bring-up", "fetch", "push"}, NEW d \in MayDeclare[p],
             Begin(p, verb, d)
      PROVE  StageInv'
  BY <1>1 DEF Begin, Goto
<1>2. ASSUME NEW p \in Procs, TakeLock(p) PROVE StageInv'
  BY <1>2 DEF TakeLock, Goto
<1>3. ASSUME NEW p \in Procs, LockFails(p) PROVE StageInv'
  BY <1>3 DEF LockFails, Returns, Goto
<1>4. ASSUME NEW p \in Procs, Look(p) PROVE StageInv'
  BY <1>4 DEF Look, Goto, Returns, Adopts
<1>5. ASSUME NEW p \in Procs, CloneInPlace(p) PROVE StageInv'
  BY <1>5 DEF CloneInPlace, Goto
<1>6. ASSUME NEW p \in Procs, CloneBeside(p) PROVE StageInv'
  BY <1>6 DEF CloneBeside, Goto
<1>7. ASSUME NEW p \in Procs, SyncURL(p) PROVE StageInv'
  BY <1>7 DEF SyncURL, Goto, Put
<1>8. ASSUME NEW p \in Procs, SyncBlock(p) PROVE StageInv'
  BY <1>8 DEF SyncBlock, Goto, Put
<1>9. ASSUME NEW p \in Procs, SyncDefault(p) PROVE StageInv'
  BY <1>9 DEF SyncDefault, Goto, Put, Written, Staged, InPlace, Fresh
<1>10. ASSUME NEW p \in Procs, MoveClone(p) PROVE StageInv'
  BY <1>10 DEF MoveClone, Goto
<1>11. ASSUME NEW p \in Procs, Fetch(p) PROVE StageInv'
  BY <1>11 DEF Fetch, Goto, Returns, Adopts, Written
<1>12. ASSUME NEW p \in Procs, Finish(p) PROVE StageInv'
  BY <1>12 DEF Finish, Returns, Goto
<1>13. ASSUME NEW p \in Procs, Fails(p) PROVE StageInv'
  BY <1>13 DEF Fails, Returns, Goto, Cloning, InPlace
<1>14. ASSUME NEW p \in Procs, Kill(p) PROVE StageInv'
  BY <1>14 DEF Kill, Returns, Goto, Fresh, Staged, InPlace
<1>15. CASE People
  BY <1>15 DEF People, Configure, Replace, Change, going
<1>16. CASE UNCHANGED vars
  BY <1>16 DEF vars, going
<1> QED BY <1>1, <1>2, <1>3, <1>4, <1>5, <1>6, <1>7, <1>8, <1>9, <1>10, <1>11, <1>12, <1>13, <1>14, <1>15, <1>16 DEF Next, Step


LEMMA RawStep ==
  ASSUME PcType, OpType, MarkType, LockInv, PlaceInv, RawInv, [Next]_vars
  PROVE  RawInv'
<1> USE PcType, OpType, MarkType, LockInv, PlaceInv, RawInv, SourceAssumption DEF PcType, OpType, MarkType, LockInv, PlaceInv, RawInv, InPlace, NoOp
<1>1. ASSUME NEW p \in Procs, NEW verb \in {"bring-up", "fetch", "push"}, NEW d \in MayDeclare[p],
             Begin(p, verb, d)
      PROVE  RawInv'
  BY <1>1 DEF Begin, Goto
<1>2. ASSUME NEW p \in Procs, TakeLock(p) PROVE RawInv'
  BY <1>2 DEF TakeLock, Goto
<1>3. ASSUME NEW p \in Procs, LockFails(p) PROVE RawInv'
  BY <1>3 DEF LockFails, Returns, Goto
<1>4. ASSUME NEW p \in Procs, Look(p) PROVE RawInv'
  BY <1>4 DEF Look, Goto, Returns, Adopts
<1>5. ASSUME NEW p \in Procs, CloneInPlace(p) PROVE RawInv'
  BY <1>5 DEF CloneInPlace, Goto
<1>6. ASSUME NEW p \in Procs, CloneBeside(p) PROVE RawInv'
  BY <1>6 DEF CloneBeside, Goto
<1>7. ASSUME NEW p \in Procs, SyncURL(p) PROVE RawInv'
  BY <1>7 DEF SyncURL, Goto, Put
<1>8. ASSUME NEW p \in Procs, SyncBlock(p) PROVE RawInv'
  BY <1>8 DEF SyncBlock, Goto, Put
<1>9. ASSUME NEW p \in Procs, SyncDefault(p) PROVE RawInv'
  BY <1>9 DEF SyncDefault, Goto, Put, Written, Staged, InPlace, Fresh
<1>10. ASSUME NEW p \in Procs, MoveClone(p) PROVE RawInv'
  BY <1>10 DEF MoveClone, Goto
<1>11. ASSUME NEW p \in Procs, Fetch(p) PROVE RawInv'
  BY <1>11 DEF Fetch, Goto, Returns, Adopts, Written
<1>12. ASSUME NEW p \in Procs, Finish(p) PROVE RawInv'
  BY <1>12 DEF Finish, Returns, Goto
<1>13. ASSUME NEW p \in Procs, Fails(p) PROVE RawInv'
  BY <1>13 DEF Fails, Returns, Goto, Cloning, InPlace
<1>14. ASSUME NEW p \in Procs, Kill(p) PROVE RawInv'
  BY <1>14 DEF Kill, Returns, Goto, Fresh, Staged, InPlace
<1>15. CASE People
  BY <1>15 DEF People, Configure, Replace, Change, going
<1>16. CASE UNCHANGED vars
  BY <1>16 DEF vars, going
<1> QED BY <1>1, <1>2, <1>3, <1>4, <1>5, <1>6, <1>7, <1>8, <1>9, <1>10, <1>11, <1>12, <1>13, <1>14, <1>15, <1>16 DEF Next, Step

-----------------------------------------------------------------------------
(* While one process is at work on the cache, no other changes anything that  *)
(* it relies on.                                                              *)

LEMMA WorkerAlone ==
  ASSUME PcType, OpType, MarkType, LockInv, SourceAssumption, NEW p \in Procs, NEW q \in Procs, p # q,
         pc[q] \notin {"idle", "lock"}, Step(p)
  PROVE  /\ op'[q] = op[q] /\ pc'[q] = pc[q] /\ todo'[q] = todo[q]
         /\ UNCHANGED <<stage, conf, at, raw, last>>
<1>1. pc[p] \in {"idle", "lock"} /\ lock = q
  BY DEF LockInv
<1>2. lock # None
  BY <1>1, SourceAssumption
<1> USE <1>1, <1>2
<1>3. ASSUME NEW verb, NEW d, Begin(p, verb, d) PROVE op'[q] = op[q] /\ pc'[q] = pc[q] /\ UNCHANGED <<todo, stage, conf, at, raw, last>>
  BY <1>3 DEF Begin, Goto, PcType, OpType
<1>4. ASSUME LockFails(p) \/ Kill(p)
      PROVE  Returns(p) /\ UNCHANGED <<stage, conf, at, raw, last>>
  BY <1>4 DEF LockFails, Kill
<1>5. ASSUME Returns(p) PROVE op'[q] = op[q] /\ pc'[q] = pc[q] /\ todo'[q] = todo[q]
  BY <1>5 DEF Returns, Goto, PcType, OpType
<1>6. ~TakeLock(p) /\ ~Look(p) /\ ~CloneInPlace(p) /\ ~CloneBeside(p) /\ ~SyncURL(p) /\ ~SyncBlock(p)
  BY DEF TakeLock, Look, CloneInPlace, CloneBeside, SyncURL, SyncBlock
<1>7. ~SyncDefault(p) /\ ~MoveClone(p) /\ ~Fetch(p) /\ ~Finish(p) /\ ~Fails(p)
  BY DEF SyncDefault, MoveClone, Fetch, Finish, Fails, Cloning
<1> QED BY <1>3, <1>4, <1>5, <1>6, <1>7 DEF Step

LEMMA OthersFrame ==
  ASSUME PcType, OpType, TodoType, NEW p \in Procs, NEW q \in Procs, p # q, Step(p)
  PROVE  op'[q] = op[q] /\ pc'[q] = pc[q] /\ todo'[q] = todo[q]
<1>1. ASSUME Returns(p) PROVE op'[q] = op[q] /\ pc'[q] = pc[q] /\ todo'[q] = todo[q]
  BY <1>1 DEF Returns, Goto, PcType, OpType, TodoType
<1>2. LockFails(p) \/ Finish(p) \/ Fails(p) \/ Kill(p) => Returns(p)
  BY DEF LockFails, Finish, Fails, Kill
<1>3. ASSUME NEW verb, NEW d, Begin(p, verb, d) PROVE op'[q] = op[q] /\ pc'[q] = pc[q] /\ todo'[q] = todo[q]
  BY <1>3 DEF Begin, Goto, PcType, OpType
<1>4. ASSUME TakeLock(p) \/ CloneInPlace(p) \/ CloneBeside(p) \/ MoveClone(p)
      PROVE  op'[q] = op[q] /\ pc'[q] = pc[q] /\ todo'[q] = todo[q]
  BY <1>4 DEF TakeLock, CloneInPlace, CloneBeside, MoveClone, Goto, PcType, OpType, TodoType
<1>5. ASSUME SyncURL(p) \/ SyncBlock(p) \/ SyncDefault(p)
      PROVE  op'[q] = op[q] /\ pc'[q] = pc[q] /\ todo'[q] = todo[q]
  BY <1>5 DEF SyncURL, SyncBlock, SyncDefault, Goto, PcType, OpType, TodoType
<1>6. ASSUME Look(p) PROVE op'[q] = op[q] /\ pc'[q] = pc[q] /\ todo'[q] = todo[q]
  BY <1>1, <1>6 DEF Look, Goto, PcType, OpType, TodoType
<1>7. ASSUME Fetch(p) PROVE op'[q] = op[q] /\ pc'[q] = pc[q] /\ todo'[q] = todo[q]
  BY <1>1, <1>7 DEF Fetch, Goto, PcType, OpType, TodoType
<1> QED BY <1>1, <1>2, <1>3, <1>4, <1>5, <1>6, <1>7 DEF Step

LEMMA ReconciledFrame ==
  ASSUME NEW q \in Procs, op'[q] = op[q], pc'[q] = pc[q], todo'[q] = todo[q],
         stage'[q] = stage[q], conf' = conf, Reconciled(q)
  PROVE  Reconciled(q)'
  BY DEF Reconciled, Checkout, FitsBut, FitsRemote, Fresh, Staged, InPlace, D, IsFirst

(* One git config call after the other brings the checkout nearer to what is  *)
(* declared.                                                                  *)
LEMMA UrlFits ==
  ASSUME NEW c \in Clones, NEW d, Declared(d) \subseteq Remotes, NEW R, NEW r \in Remotes, FitsBut(c, d, R)
  PROVE  LET w == [c EXCEPT !.url[r] = d.url[r]] IN
         /\ w.url[r] = d.url[r] /\ w.tracks = c.tracks
         /\ FitsBut(w, d, R) /\ (d.form = "repo" => FitsBut(w, d, R \ {r}))
  BY DEF Clones, FitsBut, FitsRemote

LEMMA BlockFits ==
  ASSUME NEW c \in Clones, NEW d, Declared(d) \subseteq Remotes, NEW R, NEW r \in Remotes, FitsBut(c, d, R),
         c.url[r] = d.url[r],
         NEW w, w.url = c.url, \A t \in Remotes \ {r} : w.push[t] = c.push[t],
         w.push[r] = "blocked" <=> r = d.canonical
  PROVE  FitsBut(w, d, R \ {r})
<1>1. \A t \in Declared(d) \ (R \ {r}) : t # r => t \in Declared(d) \ R
  OBVIOUS
<1> QED BY <1>1 DEF FitsBut, FitsRemote

LEMMA PutCheckout ==
  ASSUME CloneType, OpType, NEW p \in Procs, NEW c, Put(p, c), op' = op
  PROVE  Checkout(p)' = c /\ D(p)' = D(p) /\ (Fresh(p)' <=> Fresh(p))
  BY DEF CloneType, OpType, Put, Checkout, Staged, InPlace, Fresh, D

LEMMA SyncReconciles ==
  ASSUME TypeInv, PlaceInv, NEW p \in Procs, Writes(p), Reconciled(p), SourceAssumption,
         SyncURL(p) \/ SyncBlock(p) \/ SyncDefault(p)
  PROVE  /\ Reconciled(p)'
         /\ SyncDefault(p) => /\ FitsBut(Checkout(p)', D(p), {})
                              /\ D(p).push # None => Checkout(p)'.pushDefault = D(p).push
<1> DEFINE c == Checkout(p)
           d == D(p)
           R == todo[p]
<1>1. c \in Clones
  BY CheckoutTyped DEF TypeInv
<1>2. d \in MayDeclare[p] /\ Declared(d) \subseteq Remotes /\ d.push \in Remotes \cup {None}
      /\ d.form \in {"remotes", "repo"}
  <2>1. pc[p] # "idle"
    BY DEF SyncURL, SyncBlock, SyncDefault
  <2> QED BY <2>1, DeclFacts DEF TypeInv, OpType, D
<1>3. R \subseteq Remotes
  BY DEF TypeInv, TodoType
<1>4. /\ FitsBut(c, d, R) /\ (Fresh(p) => c.tracks = d.clone)
      /\ pc[p] = "block" => \A r \in Remotes : IsFirst(r, R) => c.url[r] = d.url[r]
  BY DEF Reconciled
<1>5. ASSUME NEW w, Put(p, w), op' = op
      PROVE  Checkout(p)' = w /\ D(p)' = d /\ (Fresh(p)' <=> Fresh(p))
  BY <1>5, PutCheckout DEF TypeInv
<1> HIDE DEF c, d, R
<1>6. CASE SyncURL(p)
  <2>1. PICK r \in R : /\ IsFirst(r, R) /\ Put(p, [c EXCEPT !.url[r] = d.url[r]]) /\ op' = op
                       /\ \/ d.form = "remotes" /\ pc'[p] = "block" /\ todo'[p] = R
                          \/ d.form = "repo" /\ pc'[p] = "url" /\ todo'[p] = R \ {r}
    BY <1>6 DEF SyncURL, c, d, R, Goto, TypeInv, PcType, TodoType
  <2> DEFINE w == [c EXCEPT !.url[r] = d.url[r]]
  <2>2. Checkout(p)' = w /\ D(p)' = d /\ (Fresh(p)' <=> Fresh(p))
    BY <2>1, <1>5
  <2>3. /\ w.url[r] = d.url[r] /\ w.tracks = c.tracks
        /\ FitsBut(w, d, R) /\ (d.form = "repo" => FitsBut(w, d, R \ {r}))
    BY <1>1, <1>2, <1>3, <1>4, <2>1, UrlFits
  <2> HIDE DEF w
  <2>4. FitsBut(w, d, todo'[p])
    BY <2>1, <2>3
  <2>5. ASSUME pc'[p] = "block", NEW t \in Remotes, IsFirst(t, todo'[p]) PROVE w.url[t] = d.url[t]
    <3>1. todo'[p] = R
      BY <2>1, <2>5
    <3>2. t = r
      BY <2>1, <2>5, <3>1, <1>3, FirstIsOne
    <3> QED BY <3>2, <2>3
  <2>6. FitsBut(Checkout(p), D(p), todo[p])'
    BY <2>2, <2>4 DEF FitsBut, FitsRemote, Declared
  <2>7. (pc[p] = "block" => \A t \in Remotes : IsFirst(t, todo[p]) => Checkout(p).url[t] = D(p).url[t])'
    BY <2>2, <2>5 DEF IsFirst
  <2>8. ~SyncDefault(p) /\ pc'[p] \notin {"rename", "fetch"}
    BY <1>6, <2>1 DEF SyncURL, SyncDefault
  <2> QED BY <1>4, <2>2, <2>3, <2>6, <2>7, <2>8 DEF Reconciled
<1>7. CASE SyncBlock(p)
  <2>1. PICK r \in R : /\ IsFirst(r, R) /\ op' = op /\ pc'[p] = "url" /\ todo'[p] = R \ {r}
                       /\ Put(p, IF (r = d.canonical) # (c.push[r] = "blocked")
                                 THEN [c EXCEPT !.push[r] = IF c.push[r] = "blocked" THEN None ELSE "blocked"]
                                 ELSE c)
    BY <1>7 DEF SyncBlock, c, d, R, Goto, TypeInv, PcType, TodoType
  <2> DEFINE w == IF (r = d.canonical) # (c.push[r] = "blocked")
                  THEN [c EXCEPT !.push[r] = IF c.push[r] = "blocked" THEN None ELSE "blocked"]
                  ELSE c
  <2>2. Checkout(p)' = w /\ D(p)' = d /\ (Fresh(p)' <=> Fresh(p))
    BY <2>1, <1>5
  <2>3. c.url[r] = d.url[r]
    BY <1>3, <1>4, <1>7, <2>1 DEF SyncBlock
  <2>4. FitsBut(w, d, R \ {r}) /\ w.tracks = c.tracks
    <3>1. r \in Remotes
      BY <1>3
    <3>2. w.url = c.url /\ w.tracks = c.tracks /\ \A t \in Remotes \ {r} : w.push[t] = c.push[t]
      BY <1>1 DEF Clones
    <3>3. w.push[r] = "blocked" <=> r = d.canonical
      BY <1>1, <3>1, SourceAssumption DEF Clones
    <3> HIDE DEF w
    <3> QED BY <1>1, <1>2, <1>4, <2>3, <3>1, <3>2, <3>3, BlockFits
  <2> HIDE DEF w
  <2>5. FitsBut(Checkout(p), D(p), todo[p])'
    BY <2>1, <2>2, <2>4 DEF FitsBut, FitsRemote, Declared
  <2>6. ~SyncDefault(p)
    BY <1>7 DEF SyncBlock, SyncDefault
  <2> QED BY <1>4, <2>1, <2>2, <2>4, <2>5, <2>6 DEF Reconciled
<1>8. CASE SyncDefault(p)
  <2>1. /\ R = {} /\ op' = op /\ todo'[p] = R /\ pc'[p] \in {"rename", "cloned", "fetch"}
        /\ Put(p, IF d.push # None THEN [c EXCEPT !.pushDefault = d.push] ELSE c)
    BY <1>8 DEF SyncDefault, c, d, R, Goto, TypeInv, PcType, TodoType
  <2> DEFINE w == IF d.push # None THEN [c EXCEPT !.pushDefault = d.push] ELSE c
  <2>2. Checkout(p)' = w /\ D(p)' = d /\ (Fresh(p)' <=> Fresh(p))
    BY <2>1, <1>5
  <2>3. w.url = c.url /\ w.push = c.push /\ w.tracks = c.tracks /\ (d.push # None => w.pushDefault = d.push)
    BY <1>1 DEF Clones
  <2> HIDE DEF w
  <2>4. FitsBut(w, d, {}) /\ FitsBut(Checkout(p), D(p), todo[p])'
    BY <1>4, <2>1, <2>2, <2>3 DEF FitsBut, FitsRemote, Declared
  <2> QED BY <1>4, <2>1, <2>2, <2>3, <2>4 DEF Reconciled, d
<1> QED BY <1>6, <1>7, <1>8

(* What a clone starts with is right so far: nothing is declared done.        *)
LEMMA NothingYet ==
  ASSUME NEW p \in Procs, pc'[p] = "url", todo'[p] = Declared(D(p)'),
         Fresh(p)' => Checkout(p)'.tracks = D(p)'.clone
  PROVE  Reconciled(p)'
  BY DEF Reconciled, FitsBut

LEMMA StagedStep ==
  ASSUME TypeInv, LockInv, PlaceInv, StagedInv, [Next]_vars, SourceAssumption
  PROVE  StagedInv'
<1> SUFFICES ASSUME NEW q \in Procs, (Staged(q) /\ pc[q] \in {"url", "block", "rename"})'
             PROVE  Reconciled(q)'
  BY DEF StagedInv
<1>1. CASE UNCHANGED <<op, pc, todo, stage>>
  BY <1>1 DEF StagedInv, Reconciled, Checkout, FitsBut, FitsRemote, Fresh, Staged, InPlace, D, IsFirst
<1>2. ASSUME NEW p \in Procs, Step(p), p # q PROVE Reconciled(q)'
  <2>1. op'[q] = op[q] /\ pc'[q] = pc[q] /\ todo'[q] = todo[q]
    BY <1>2, OthersFrame DEF TypeInv
  <2>2. Staged(q) /\ pc[q] \in {"url", "block", "rename"}
    BY <2>1 DEF Staged
  <2>3. UNCHANGED <<stage, conf>>
    BY <1>2, <2>2, WorkerAlone DEF TypeInv
  <2>4. Reconciled(q)
    BY <2>2 DEF StagedInv
  <2> QED BY <2>1, <2>3, <2>4, ReconciledFrame
<1>3. ASSUME Step(q) PROVE Reconciled(q)'
  <2>1. CASE SyncURL(q) \/ SyncBlock(q) \/ SyncDefault(q)
    <3>1. op' = op /\ pc[q] \in {"url", "block"}
      BY <2>1 DEF SyncURL, SyncBlock, SyncDefault
    <3>2. Staged(q) /\ Writes(q)
      BY <3>1 DEF Staged, Writes, Fresh
    <3> QED BY <2>1, <3>1, <3>2, SyncReconciles DEF StagedInv
  <2>2. CASE CloneBeside(q)
    <3>1. D(q) \in MayDeclare[q]
      BY <2>2 DEF CloneBeside, TypeInv, OpType, D
    <3>2. pc'[q] = "url" /\ todo'[q] = Declared(D(q)) /\ D(q)' = D(q)
      BY <2>2 DEF CloneBeside, Goto, TypeInv, PcType, OpType, TodoType, D
    <3>3. Checkout(q)' = Cloned(D(q))
      BY <2>2 DEF CloneBeside, Checkout
    <3> QED BY <3>1, <3>2, <3>3, NothingYet, CloneFacts
  <2>3. ASSUME Look(q) PROVE FALSE
    <3>1. op'[q] = op[q] \/ Returns(q)
      BY <2>3 DEF Look
    <3> QED BY <2>3, <3>1 DEF Look, PlaceInv, Staged, Returns, Goto, TypeInv, PcType, OpType
  <2>4. ASSUME CloneInPlace(q) PROVE FALSE
    BY <2>4 DEF CloneInPlace, Staged, TypeInv, OpType
  <2>5. ASSUME NEW verb, NEW d, Begin(q, verb, d) PROVE FALSE
    BY <2>5 DEF Begin, Goto, TypeInv, PcType
  <2>6. ASSUME Returns(q) PROVE FALSE
    BY <2>6 DEF Returns, Goto, TypeInv, PcType
  <2>7. ASSUME TakeLock(q) \/ MoveClone(q) PROVE FALSE
    BY <2>7 DEF TakeLock, MoveClone, Goto, TypeInv, PcType
  <2>8. ASSUME Fetch(q) PROVE FALSE
    BY <2>6, <2>8 DEF Fetch, Goto, TypeInv, PcType
  <2>9. LockFails(q) \/ Finish(q) \/ Fails(q) \/ Kill(q) => Returns(q)
    BY DEF LockFails, Finish, Fails, Kill
  <2> QED BY <1>3, <2>1, <2>2, <2>3, <2>4, <2>5, <2>6, <2>7, <2>8, <2>9 DEF Step
<1>4. People => UNCHANGED <<op, pc, todo, stage>>
  BY DEF People, Configure, Replace, going
<1>5. UNCHANGED vars => UNCHANGED <<op, pc, todo, stage>>
  BY DEF vars, going
<1> QED BY <1>1, <1>2, <1>3, <1>4, <1>5 DEF Next

LEMMA WriterStep ==
  ASSUME TypeInv, LockInv, PlaceInv, WriterInv, [Next]_vars, SourceAssumption
  PROVE  WriterInv'
<1> SUFFICES ASSUME NEW q \in Procs, (~Staged(q) /\ Writes(q) /\ pc[q] \in {"url", "block", "fetch"})'
             PROVE  last' \in {q, None} /\ (last' # None => at' = "repo" /\ Reconciled(q)')
  BY DEF WriterInv
<1>1. CASE UNCHANGED vars
  BY <1>1 DEF WriterInv, Reconciled, Checkout, FitsBut, FitsRemote, Writes, Adopts, Fresh, Staged, InPlace, D, IsFirst,
     vars, going
<1>2. ASSUME NEW p \in Procs, Step(p), p # q
      PROVE  last' \in {q, None} /\ (last' # None => at' = "repo" /\ Reconciled(q)')
  <2>1. op'[q] = op[q] /\ pc'[q] = pc[q] /\ todo'[q] = todo[q]
    BY <1>2, OthersFrame DEF TypeInv
  <2>2. ~Staged(q) /\ Writes(q) /\ pc[q] \in {"url", "block", "fetch"}
    BY <2>1 DEF Staged, Writes, Fresh, InPlace, Adopts
  <2>3. UNCHANGED <<stage, conf, at, last>>
    BY <1>2, <2>2, WorkerAlone DEF TypeInv
  <2>4. last \in {q, None} /\ (last # None => at = "repo" /\ Reconciled(q))
    BY <2>2 DEF WriterInv
  <2> QED BY <2>1, <2>3, <2>4, ReconciledFrame
<1>3. ASSUME Step(q)
      PROVE  last' \in {q, None} /\ (last' # None => at' = "repo" /\ Reconciled(q)')
  <2>1. CASE SyncURL(q) \/ SyncBlock(q) \/ SyncDefault(q)
    <3>1. op' = op /\ pc[q] \in {"url", "block"} /\ at' = at
      BY <2>1 DEF SyncURL, SyncBlock, SyncDefault
    <3>2. ~Staged(q) /\ Writes(q)
      BY <3>1 DEF Staged, Writes, Fresh, InPlace, Adopts
    <3>3. last \in {q, None} /\ (last # None => at = "repo" /\ Reconciled(q))
      BY <3>1, <3>2 DEF WriterInv
    <3>4. last' = last
      <4>1. SyncURL(q) \/ SyncBlock(q) => last' = last
        BY DEF SyncURL, SyncBlock
      <4>2. SyncDefault(q) => pc'[q] = "cloned" \/ last' = last
        BY DEF SyncDefault, Goto, TypeInv, PcType
      <4> QED BY <2>1, <4>1, <4>2
    <3> QED BY <2>1, <3>1, <3>2, <3>3, <3>4, SyncReconciles
  <2>2. CASE CloneInPlace(q)
    <3>1. D(q) \in MayDeclare[q]
      BY <2>2 DEF CloneInPlace, TypeInv, OpType, D
    <3>2. pc'[q] = "url" /\ todo'[q] = Declared(D(q)) /\ D(q)' = D(q)
      BY <2>2 DEF CloneInPlace, Goto, TypeInv, PcType, OpType, TodoType, D
    <3>3. Checkout(q)' = Cloned(D(q))
      BY <2>2 DEF CloneInPlace, Checkout
    <3>4. last' = q /\ at' = "repo"
      BY <2>2 DEF CloneInPlace
    <3> QED BY <3>1, <3>2, <3>3, <3>4, NothingYet, CloneFacts
  <2>3. CASE Look(q)
    <3>1. /\ pc'[q] = "url" /\ todo'[q] = Declared(D(q)) /\ op' = op /\ at = "repo" /\ at' = at
          /\ last' = IF Adopts(q) THEN q ELSE last
      <4>1. Returns(q) => FALSE
        BY DEF Returns, Goto, TypeInv, PcType
      <4> QED BY <2>3, <4>1 DEF Look, Goto, TypeInv, PcType, TodoType
    <3>2. ~Fresh(q)' /\ ~Fresh(q)
      BY <2>3, <3>1 DEF Look, PlaceInv, Fresh, Staged, InPlace
    <3>3. Adopts(q)
      BY <3>1, <3>2 DEF Writes, Adopts
    <3> QED BY <3>1, <3>2, <3>3, NothingYet DEF D
  <2>4. ASSUME CloneBeside(q) PROVE FALSE
    BY <2>4 DEF CloneBeside, Staged, TypeInv, OpType
  <2>5. ASSUME NEW verb, NEW d, Begin(q, verb, d) PROVE FALSE
    BY <2>5 DEF Begin, Goto, TypeInv, PcType
  <2>6. ASSUME Returns(q) PROVE FALSE
    BY <2>6 DEF Returns, Goto, TypeInv, PcType
  <2>7. ASSUME TakeLock(q) \/ MoveClone(q) PROVE FALSE
    BY <2>7 DEF TakeLock, MoveClone, Goto, TypeInv, PcType
  <2>8. ASSUME Fetch(q) PROVE FALSE
    BY <2>6, <2>8 DEF Fetch, Goto, TypeInv, PcType
  <2>9. LockFails(q) \/ Finish(q) \/ Fails(q) \/ Kill(q) => Returns(q)
    BY DEF LockFails, Finish, Fails, Kill
  <2> QED BY <1>3, <2>1, <2>2, <2>3, <2>4, <2>5, <2>6, <2>7, <2>8, <2>9 DEF Step
<1>4. ASSUME People PROVE last' = None
  BY <1>4 DEF People, Configure, Replace, Change
<1> QED BY <1>1, <1>2, <1>3, <1>4 DEF Next

(* The configuration is written whole when the last git call has succeeded.   *)
LEMMA LastStep ==
  ASSUME TypeInv, LockInv, PlaceInv, StagedInv, WriterInv, LastInv, [Next]_vars, SourceAssumption
  PROVE  LastInv'
<1> SUFFICES ASSUME last' \notin Procs \cup {None} PROVE at' = "repo" /\ Fits(conf, last)'
  BY DEF LastInv
<1>1. CASE UNCHANGED <<at, conf, last>>
  BY <1>1 DEF LastInv, Fits
<1>2. ASSUME NEW p \in Procs, SyncURL(p) \/ SyncBlock(p) \/ SyncDefault(p)
      PROVE  at' = "repo" /\ Fits(conf, last)'
  <2>1. op' = op /\ pc[p] \in {"url", "block"} /\ at' = at
    BY <1>2 DEF SyncURL, SyncBlock, SyncDefault
  <2>2. CASE Staged(p)
    <3>1. conf' = conf
      BY <1>2, <2>2 DEF SyncURL, SyncBlock, SyncDefault, Put
    <3>2. last' = last
      BY <1>2, <2>2 DEF SyncURL, SyncBlock, SyncDefault, Staged, InPlace
    <3> QED BY <1>1, <2>1, <3>1, <3>2
  <2>3. CASE ~Staged(p) /\ ~Writes(p)
    <3>1. conf' = conf
      BY <1>2, <2>3 DEF SyncURL, SyncBlock, SyncDefault, Put, Checkout
    <3>2. last' = last
      BY <1>2, <2>3 DEF SyncURL, SyncBlock, SyncDefault, Writes, Fresh
    <3> QED BY <1>1, <2>1, <3>1, <3>2
  <2>4. CASE ~Staged(p) /\ Writes(p)
    <3>1. last \in {p, None} /\ (last # None => at = "repo" /\ Reconciled(p))
      BY <2>1, <2>4 DEF WriterInv
    <3>2. /\ SyncDefault(p) /\ InPlace(p)
          /\ last # None /\ last' = D(p)
      BY <1>2, <3>1 DEF SyncURL, SyncBlock, SyncDefault, Written
    <3>3. /\ FitsBut(Checkout(p)', D(p), {}) /\ Reconciled(p)'
          /\ D(p).push # None => Checkout(p)'.pushDefault = D(p).push
      BY <1>2, <2>4, <3>1, <3>2, SyncReconciles
    <3>4. Checkout(p)' = conf' /\ Checkout(p)'.tracks = D(p).clone
      BY <2>1, <2>4, <3>2, <3>3 DEF Checkout, Staged, InPlace, Fresh, Reconciled, D
    <3> QED BY <2>1, <3>1, <3>2, <3>3, <3>4 DEF Fits, FitsBut, FitsRemote, Declared
  <2> QED BY <2>2, <2>3, <2>4
<1>3. ASSUME NEW p \in Procs, MoveClone(p) PROVE at' = "repo" /\ Fits(conf, last)'
  <2>1. Staged(p) /\ Reconciled(p) /\ todo[p] = {} /\ pc[p] = "rename"
    BY <1>3 DEF MoveClone, PlaceInv, StagedInv
  <2>2. at' = "repo" /\ conf' = Checkout(p) /\ last' = D(p)
    BY <1>3, <2>1 DEF MoveClone, Checkout
  <2> QED BY <2>1, <2>2 DEF Reconciled, Fits, FitsBut, FitsRemote, Declared, Fresh
<1>4. ASSUME NEW p \in Procs, Fetch(p) PROVE at' = "repo" /\ Fits(conf, last)'
  <2>1. CASE ~Adopts(p)
    BY <1>1, <1>4, <2>1 DEF Fetch
  <2>2. CASE Adopts(p)
    <3>1. last' # None /\ at' = at
      BY <1>4 DEF Fetch
    <3>2. /\ conf' = IF D(p).form = "remotes" THEN [conf EXCEPT !.tracks = D(p).clone] ELSE conf
          /\ Written(p)
      BY <1>4, <2>2, <3>1 DEF Fetch
    <3>3. ~Staged(p) /\ Writes(p) /\ pc[p] = "fetch" /\ todo[p] = {}
      BY <1>4, <2>2 DEF Fetch, Writes, PlaceInv
    <3>4. at = "repo" /\ Reconciled(p) /\ last' = D(p)
      BY <3>1, <3>2, <3>3 DEF WriterInv, Written
    <3>5. FitsBut(conf, D(p), {}) /\ (D(p).push # None => conf.pushDefault = D(p).push)
      BY <3>3, <3>4 DEF Reconciled, Checkout
    <3>6. /\ conf'.url = conf.url /\ conf'.push = conf.push /\ conf'.pushDefault = conf.pushDefault
          /\ D(p).form = "remotes" => conf'.tracks = D(p).clone
      BY <3>2 DEF TypeInv, CloneType, Clones
    <3> QED BY <3>1, <3>4, <3>5, <3>6 DEF Fits, FitsBut, FitsRemote, Declared
  <2> QED BY <2>1, <2>2
<1>5. ASSUME NEW p \in Procs, Look(p) PROVE at' = "repo" /\ Fits(conf, last)'
  <2>1. UNCHANGED <<at, conf, last>>
    BY <1>5 DEF Look
  <2> QED BY <1>1, <2>1
<1>6. ASSUME NEW p \in Procs, CloneInPlace(p) PROVE FALSE
  BY <1>6 DEF CloneInPlace
<1>7. ASSUME NEW p \in Procs, Fails(p) PROVE at' = "repo" /\ Fits(conf, last)'
  <2>1. UNCHANGED <<at, conf, last>>
    BY <1>7 DEF Fails
  <2> QED BY <1>1, <2>1
<1>8. ASSUME NEW p \in Procs,
             \/ \E verb \in {"bring-up", "fetch", "push"}, d \in MayDeclare[p] : Begin(p, verb, d)
             \/ TakeLock(p) \/ LockFails(p) \/ CloneBeside(p) \/ Finish(p) \/ Kill(p)
      PROVE  UNCHANGED <<at, conf, last>>
  BY <1>8 DEF Begin, TakeLock, LockFails, CloneBeside, Finish, Kill
<1>9. ASSUME People PROVE FALSE
  BY <1>9 DEF People, Configure, Replace, Change
<1>10. UNCHANGED vars => UNCHANGED <<at, conf, last>>
  BY DEF vars
<1> QED BY <1>1, <1>2, <1>3, <1>4, <1>5, <1>6, <1>7, <1>8, <1>9, <1>10 DEF Next, Step

-----------------------------------------------------------------------------
(* The results.                                                               *)

LEMMA InvInit == ASSUME Init, SourceAssumption PROVE IInv
<1> USE DEF Init
<1>1. NoClone \in Clones
  BY DEF NoClone, Clones
<1>2. TypeInv
  BY <1>1 DEF TypeInv, PcType, OpType, TodoType, CloneType, PathType, MarkType, Places, NoOp, Verbs
<1>3. LockInv /\ PlaceInv /\ StageInv /\ RawInv /\ LastInv
  BY DEF LockInv, PlaceInv, StageInv, RawInv, LastInv, Staged, InPlace, NoOp
<1>4. StagedInv /\ WriterInv
  BY DEF StagedInv, WriterInv
<1> QED BY <1>2, <1>3, <1>4 DEF IInv

LEMMA InvNext == ASSUME IInv, [Next]_vars, SourceAssumption PROVE IInv'
<1> USE DEF IInv
<1>1. TypeInv'
  BY PcStep, OpStep, TodoStep, CloneTypesStep, PathStep, MarkStep DEF TypeInv
<1>2. LockInv' /\ PlaceInv' /\ StageInv' /\ RawInv'
  BY LockStep, PlaceStep, StageStep, RawStep DEF TypeInv
<1>3. StagedInv' /\ WriterInv' /\ LastInv'
  BY StagedStep, WriterStep, LastStep
<1> QED BY <1>1, <1>2, <1>3

LEMMA Invariance == Spec => []IInv
<1>1. Init => IInv
  BY InvInit, SourceAssumption
<1>2. IInv /\ [Next]_vars => IInv'
  BY InvNext, SourceAssumption
<1> QED BY <1>1, <1>2, PTL DEF Spec

(* Every variable keeps its type, and the lock is held by exactly who works.  *)
THEOREM CacheTyping == Spec => []TypeOK
<1>1. IInv => TypeOK
  BY DEF IInv, TypeInv, PcType, CloneType, PathType, MarkType, LockInv, TypeOK
<1> QED BY <1>1, Invariance, PTL

(* While nobody writes, the cache's remotes are those of the one declaration  *)
(* last written whole, whatever other stacks declare, fail at or are killed   *)
(* in.                                                                        *)
THEOREM OneDeclarationHolds == Spec => []LastAdoptedHolds
<1>1. IInv => LastAdoptedHolds
  BY DEF IInv, LastInv, LastAdoptedHolds
<1> QED BY <1>1, Invariance, PTL

(* A clone that failed, and was not killed, has left neither its stage nor an *)
(* unconfigured checkout.                                                     *)
THEOREM FailedClonesLeaveNothing == Spec => []FailedCloneLeavesNothing
<1>1. IInv => FailedCloneLeavesNothing
  BY DEF IInv, StageInv, RawInv, FailedCloneLeavesNothing
<1> QED BY <1>1, Invariance, PTL

(* A cache appears with its canonical remote blocked, and a block goes only   *)
(* by a fetch or pull under `remotes:` that declare the remote and not as     *)
(* canonical, or with a clone in place that failed.                           *)
THEOREM BlocksAlwaysHold == Spec => BlocksHold
<1> DEFINE Appears(r) == at # "repo" /\ at' = "repo" =>
             \A p \in Procs : pc'[p] = "cloned" /\ pc[p] # "cloned" /\ D(p).canonical = r
                               => conf'.push[r] = "blocked"
           Lifted(r) == at = "repo" /\ conf.push[r] = "blocked" /\ conf'.push[r] # "blocked" =>
             \E p \in Procs : \/ /\ pc[p] = "block" /\ IsFirst(r, todo[p])
                                 /\ D(p).form = "remotes" /\ D(p).canonical # r /\ Writes(p)
                              \/ InPlace(p) /\ pc'[p] = "idle"
<1>1. ASSUME IInv, SourceAssumption, NEW r \in Remotes, NEW p \in Procs, Step(p)
      PROVE  Appears(r) /\ Lifted(r)
  <2> USE <1>1 DEF IInv
  <2>1. ASSUME NEW q \in Procs, q # p PROVE pc'[q] = pc[q]
    BY <1>1, <2>1, OthersFrame DEF TypeInv
  <2>2. CASE MoveClone(p)
    <3>1. at # "repo" /\ Staged(p) /\ Reconciled(p) /\ pc[p] = "rename" /\ todo[p] = {}
      BY <2>2 DEF MoveClone, PlaceInv, StagedInv
    <3>2. conf' = Checkout(p)
      BY <2>2, <3>1 DEF MoveClone, Checkout
    <3>3. D(p) \in MayDeclare[p]
      BY <3>1 DEF TypeInv, OpType, D
    <3>4. D(p).canonical = r => r \in Declared(D(p)) /\ D(p).form = "remotes"
      BY <3>3, DeclFacts, SourceAssumption
    <3>5. D(p).canonical = r => conf'.push[r] = "blocked"
      BY <3>1, <3>2, <3>4 DEF Reconciled, FitsBut, FitsRemote
    <3> QED BY <2>1, <3>1, <3>5
  <2>3. CASE SyncBlock(p)
    <3>1. at' = at /\ op' = op /\ pc[p] = "block"
      BY <2>3 DEF SyncBlock
    <3>2. CASE Staged(p) \/ ~Writes(p)
      BY <2>3, <3>1, <3>2 DEF SyncBlock, Put, Checkout
    <3>3. CASE ~Staged(p) /\ Writes(p)
      <4>1. PICK t \in todo[p] :
              /\ IsFirst(t, todo[p])
              /\ conf' = IF (t = D(p).canonical) # (conf.push[t] = "blocked")
                        THEN [conf EXCEPT !.push[t] = IF conf.push[t] = "blocked" THEN None ELSE "blocked"]
                        ELSE conf
        BY <2>3, <3>3 DEF SyncBlock, Put, Checkout
      <4>2. conf \in Clones /\ t \in Remotes
        BY <4>1 DEF TypeInv, CloneType, TodoType
      <4>3. conf.push[r] = "blocked" /\ conf'.push[r] # "blocked" => t = r /\ D(p).canonical # r
        BY <4>1, <4>2 DEF Clones
      <4>4. D(p).form = "remotes"
        BY <3>1 DEF PlaceInv
      <4> QED BY <3>1, <3>3, <4>1, <4>3, <4>4
    <3> QED BY <3>2, <3>3
  <2>4. CASE Fails(p)
    <3>1. CASE InPlace(p)
      BY <2>4, <3>1 DEF Fails, Returns, Goto, TypeInv, PcType
    <3>2. CASE ~InPlace(p)
      BY <2>4, <3>2 DEF Fails
    <3> QED BY <3>1, <3>2
  <2>5. CASE CloneInPlace(p)
    <3>1. at # "repo" /\ pc'[p] = "url"
      BY <2>5 DEF CloneInPlace, Goto, TypeInv, PcType
    <3> QED BY <2>1, <3>1
  <2>6. CASE SyncURL(p) \/ SyncDefault(p) \/ Fetch(p)
    <3>1. at' = at
      BY <2>6 DEF SyncURL, SyncDefault, Fetch
    <3>2. conf'.push = conf.push
      <4> DEFINE c == Checkout(p)
      <4>1. c \in Clones /\ conf \in Clones
        BY CheckoutTyped DEF TypeInv, CloneType
      <4>2. \A t, u : [c EXCEPT !.url[t] = u].push = c.push /\ [c EXCEPT !.pushDefault = u].push = c.push
                     /\ [conf EXCEPT !.tracks = u].push = conf.push
        BY <4>1 DEF Clones
      <4>3. Staged(p) \/ c = conf
        BY DEF Checkout
      <4> HIDE DEF c
      <4>4. CASE SyncURL(p)
        <5>1. \E w : Put(p, w) /\ w.push = c.push
          <6>1. PICK r1 \in todo[p] : Put(p, IF Writes(p) THEN [c EXCEPT !.url[r1] = D(p).url[r1]] ELSE c)
            BY <4>4 DEF SyncURL, c
          <6>2. [c EXCEPT !.url[r1] = D(p).url[r1]].push = c.push
            BY <4>1 DEF Clones
          <6> QED BY <6>1, <6>2
        <5> QED BY <5>1, <4>3 DEF Put
      <4>5. CASE SyncDefault(p)
        BY <4>5, <4>1, <4>2, <4>3 DEF SyncDefault, Put, c
      <4>6. CASE Fetch(p)
        BY <4>6, <4>2 DEF Fetch
      <4> QED BY <2>6, <4>4, <4>5, <4>6
    <3> QED BY <3>1, <3>2
  <2>7. CASE \/ \E verb \in {"bring-up", "fetch", "push"}, d \in MayDeclare[p] : Begin(p, verb, d)
             \/ TakeLock(p) \/ LockFails(p) \/ Look(p) \/ CloneBeside(p) \/ Finish(p) \/ Kill(p)
    <3>1. UNCHANGED <<at, conf>>
      BY <2>7 DEF Begin, TakeLock, LockFails, Look, CloneBeside, Finish, Kill
    <3> QED BY <3>1
  <2> QED BY <1>1, <2>2, <2>3, <2>4, <2>5, <2>6, <2>7 DEF Step
<1>2. People => going' = going
  BY DEF People, Configure, Replace
<1> DEFINE Held == going' # going =>
      \A r \in Remotes :
        /\ at # "repo" /\ at' = "repo" =>
             \A p \in Procs : pc'[p] = "cloned" /\ pc[p] # "cloned" /\ D(p).canonical = r
                               => conf'.push[r] = "blocked"
        /\ at = "repo" /\ conf.push[r] = "blocked" /\ conf'.push[r] # "blocked" =>
             \E p \in Procs : \/ /\ pc[p] = "block" /\ IsFirst(r, todo[p])
                                 /\ D(p).form = "remotes" /\ D(p).canonical # r /\ Writes(p)
                              \/ InPlace(p) /\ pc'[p] = "idle"
<1>3. ASSUME IInv, Next PROVE Held
  <2>1. ASSUME going' # going, NEW r \in Remotes PROVE Appears(r) /\ Lifted(r)
    <3> HIDE DEF Appears, Lifted
    <3> QED BY <1>1, <1>2, <1>3, <2>1, SourceAssumption DEF Next
  <2> QED BY <2>1
<1>4. IInv /\ [Next]_vars => [Held]_vars
  <2> HIDE DEF Held
  <2> QED BY <1>3
<1> QED BY <1>4, Invariance, PTL DEF Spec, BlocksHold

=============================================================================
