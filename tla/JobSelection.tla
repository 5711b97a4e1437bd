---------------------------- MODULE JobSelection ----------------------------
(***************************************************************************)
(* jobRunNodes and jobOperationStack (internal/service/jobs.go) as the     *)
(* loops the code runs.  Both range over Go maps, whose order is not       *)
(* specified, and add to the set they test while they range: one visit is  *)
(* one action, any unvisited name may come next, and the properties        *)
(* compare what comes out with the order-free definitions of StackGraph.   *)
(***************************************************************************)
EXTENDS StackGraph

CONSTANTS Requests          \* the requests to select for

\* ValidateExtended: what a stack depends on and holds is declared in it, and
\* nothing depends on itself, however far.
ASSUME RequestsAssumption ==
  \A r \in Requests :
    /\ r.chained \in BOOLEAN
    /\ IsFiniteSet(Names(r.stack)) /\ r.stack.jobs \cap r.stack.services = {}
    /\ r.stack.deps \in [Names(r.stack) -> SUBSET Names(r.stack)]
    /\ r.stack.holds \in [r.stack.jobs -> SUBSET r.stack.services]
    /\ Acyclic(r.stack)

VARIABLES
  req,       \* the request
  phase,     \* the loop the code is in
  seen,      \* names selected so far
  held,      \* the union of the selected jobs' holds
  changed,   \* the pass under way has selected a name
  unvisited, \* names the pass has not visited yet
  included,  \* jobOperationStack: names the projected stack keeps
  queue      \* jobOperationStack: names whose needs are still to be added

selectionVars == <<req, phase, seen, held, changed, unvisited, included, queue>>

Phases == {"dependents", "holds", "recovery", "check",
           "project", "selected", "rejected"}

SelectionInit ==
  /\ req \in Requests
  /\ phase = IF req.root \notin req.stack.jobs THEN "rejected"
             ELSE IF req.chained THEN "dependents" ELSE "holds"
  /\ seen = {req.root}
  /\ held = {}
  /\ changed = FALSE
  /\ unvisited = IF phase = "dependents" THEN Names(req.stack) ELSE {}
  /\ included = {}
  /\ queue = {}

(***************************************************************************)
(* One pass visits the jobs, then the services; a name joins when one of   *)
(* its dependencies has.                                                   *)
(***************************************************************************)
Visit(n) ==
  /\ phase \in {"dependents", "recovery"}
  /\ n \in unvisited
  /\ n \in req.stack.services => unvisited \cap req.stack.jobs = {}
  /\ unvisited' = unvisited \ {n}
  /\ LET joins == n \notin seen /\ Dependencies(req.stack, n) \cap seen # {}
     IN  /\ seen' = IF joins THEN seen \cup {n} ELSE seen
         /\ changed' = (changed \/ joins)
  /\ UNCHANGED <<req, phase, held, included, queue>>

\* Mutant: one pass only, as if the map were ranged over in dependency order.
EndVisitsOnce ==
  /\ phase \in {"dependents", "recovery"}
  /\ unvisited = {}
  /\ phase' = IF phase = "dependents" THEN "holds" ELSE "check"
  /\ changed' = FALSE
  /\ UNCHANGED <<req, seen, held, unvisited, included, queue>>

\* A pass that selected a name is followed by another one.
EndVisits ==
  /\ phase \in {"dependents", "recovery"}
  /\ unvisited = {}
  /\ IF changed
     THEN /\ unvisited' = IF phase = "dependents" THEN Names(req.stack)
                          ELSE req.stack.services
          /\ UNCHANGED phase
     ELSE /\ phase' = IF phase = "dependents" THEN "holds" ELSE "check"
          /\ UNCHANGED unvisited
  /\ changed' = FALSE
  /\ UNCHANGED <<req, seen, held, included, queue>>

AddHolds ==
  /\ phase = "holds"
  /\ held' = HeldBy(req.stack, seen)
  /\ seen' = seen \cup held'
  /\ IF req.chained /\ held' # {}
     THEN phase' = "recovery" /\ unvisited' = req.stack.services
     ELSE phase' = "check" /\ UNCHANGED unvisited
  /\ UNCHANGED <<req, changed, included, queue>>

\* The recursive check: does a selected job reach a selected service?
RequiresRecovery(set) ==
  \E j \in set \cap req.stack.jobs :
    Prerequisites(req.stack, j) \cap set \cap req.stack.services # {}

\* Mutant: a job that needs a held service is not refused.
CheckNothing ==
  /\ phase = "check"
  /\ phase' = "project" /\ included' = seen /\ queue' = seen
  /\ UNCHANGED <<req, seen, held, changed, unvisited>>

Check ==
  /\ phase = "check"
  /\ IF held # {} /\ RequiresRecovery(seen)
     THEN phase' = "rejected" /\ UNCHANGED <<included, queue>>
     ELSE phase' = "project" /\ included' = seen /\ queue' = seen
  /\ UNCHANGED <<req, seen, held, changed, unvisited>>

\* Mutant: the projection leaves out the services its jobs hold.
IncludeDependencies(n) ==
  /\ phase = "project"
  /\ n \in queue
  /\ LET added == (Dependencies(req.stack, n) \ included) \cap Names(req.stack)
     IN  /\ included' = included \cup added
         /\ queue' = (queue \ {n}) \cup added
  /\ UNCHANGED <<req, phase, seen, held, changed, unvisited>>

\* jobOperationStack: a queued name brings its dependencies and holds in.
Include(n) ==
  /\ phase = "project"
  /\ n \in queue
  /\ LET needs == Dependencies(req.stack, n)
                    \cup (IF n \in req.stack.jobs THEN req.stack.holds[n] ELSE {})
         added == (needs \ included) \cap Names(req.stack)
     IN  /\ included' = included \cup added
         /\ queue' = (queue \ {n}) \cup added
  /\ UNCHANGED <<req, phase, seen, held, changed, unvisited>>

Project ==
  /\ phase = "project"
  /\ queue = {}
  /\ phase' = "selected"
  /\ UNCHANGED <<req, seen, held, changed, unvisited, included, queue>>

Stop == phase \in {"selected", "rejected"} /\ UNCHANGED selectionVars

SelectionNext ==
  \/ \E n \in Names(req.stack) : Visit(n) \/ Include(n)
  \/ EndVisits \/ AddHolds \/ Check \/ Project
  \/ Stop

SelectionSpec == SelectionInit /\ [][SelectionNext]_selectionVars
-----------------------------------------------------------------------------
SelectionTypeOK ==
  /\ req \in Requests
  /\ phase \in Phases
  /\ seen \subseteq Names(req.stack) \cup {req.root}
  /\ held \subseteq req.stack.services
  /\ changed \in BOOLEAN
  /\ unvisited \subseteq Names(req.stack)
  /\ included \subseteq Names(req.stack)
  /\ queue \subseteq included

(***************************************************************************)
(* Whatever order the maps are ranged over in, the receipt's nodes are the *)
(* closure StackGraph defines, the request is accepted exactly when that   *)
(* closure is (jobRunNodes), and the compiled view is the projection       *)
(* StackGraph defines (jobOperationStack).                                 *)
(***************************************************************************)
SelectionIsTheClosure ==
  /\ phase \in {"project", "selected"} => seen = Selected(req) /\ Accepted(req)
  /\ phase = "rejected" => ~Accepted(req)
  /\ phase = "selected" => included = Projection(req)

(***************************************************************************)
(* The compiled view of the run is self-contained: everything a selected   *)
(* node depends on, however far, and every service a kept job holds is in  *)
(* it (jobOperationStack).                                                 *)
(***************************************************************************)
ProjectionIsSelfContained ==
  phase = "selected" =>
    /\ seen \subseteq included
    /\ \A n \in included : req.stack.deps[n] \subseteq included
    /\ \A j \in included \cap req.stack.jobs : req.stack.holds[j] \subseteq included

(***************************************************************************)
(* An accepted held run has an order to run in: some selected node is      *)
(* always next, with every job before every service and every dependency   *)
(* in the run before its dependent.  A set of finished nodes that is       *)
(* closed under both rules and not the whole selection has a successor.    *)
(***************************************************************************)
AcceptedRunsToTheEnd ==
  phase = "selected" =>
    \A finished \in SUBSET seen :
      finished # seen =>
        \E n \in seen \ finished :
          /\ req.stack.deps[n] \cap seen \subseteq finished
          /\ held # {} /\ n \in req.stack.services
               => seen \cap req.stack.jobs \subseteq finished

=============================================================================
