------------------------------ MODULE EventHub ------------------------------
(***************************************************************************)
(* The GraphQL event hub (operator/gql/events.go) and its brokers            *)
(* (operator/gql/broker.go): pollers that publish a snapshot when its hash   *)
(* changes, subscribers with a bounded buffer that come and go, and a Stop   *)
(* that races both.  The brokers share nothing but Start and Stop, so one of  *)
(* them is modelled: the topology's (and the snapshot's), whose poller runs   *)
(* from Start, or a workspace's, started by its first subscriber.             *)
(***************************************************************************)
EXTENDS Naturals, Sequences, FiniteSets

CONSTANTS Subscribers, Snapshots,
          subscriberBuffer,   \* events.go has 4
          MaxChanges          \* bound on changes of the polled state

ASSUME HubAssumption == /\ IsFiniteSet(Subscribers) /\ Snapshots # {}
                        /\ subscriberBuffer \in Nat \ {0} /\ MaxChanges \in Nat

VARIABLES
  world,     \* what a poll would read now
  changes,   \* how often it changed
  hub,       \* "new", "started", "stopping", "stopped": how far Stop is
  lazy,      \* the broker is a workspace's
  broker,    \* its registered subscribers, closed, and those Close has yet to close
  poller,    \* where its poller is
  polled,    \* the snapshot the poller has in hand
  last,      \* the last hash it published
  sub,       \* per subscriber: where its Subscribe is
  ctx,       \* per subscriber: its context
  watcher,   \* per subscriber: the goroutine of broker.Subscribe
  ch,        \* per subscriber: its channel, and what became of the last snapshot for it
  view,      \* per subscriber: the last snapshot it received
  fault      \* a channel was closed twice, or sent on when closed

pollVars == <<lazy, poller, polled, last>>
subVars == <<sub, ctx, watcher, view>>
hubVars == <<world, changes, hub, broker, pollVars, subVars, ch, fault>>

Nothing == "nothing"

HubInit ==
  /\ world = (CHOOSE v \in Snapshots : TRUE) /\ changes = 0 /\ hub = "new" /\ fault = FALSE
  /\ lazy \in BOOLEAN /\ poller = "off" /\ polled = Nothing /\ last = Nothing
  /\ broker = [subs |-> {}, closed |-> FALSE, toClose |-> {}]
  /\ sub = [s \in Subscribers |-> "idle"]
  /\ ctx = [s \in Subscribers |-> "live"] /\ watcher = [s \in Subscribers |-> "none"]
  /\ ch = [s \in Subscribers |-> [buf |-> <<>>, closed |-> FALSE, sent |-> "never"]]
  /\ view = [s \in Subscribers |-> Nothing]

-----------------------------------------------------------------------------
(* Outside the hub.                                                           *)

WorldChanges ==
  /\ changes < MaxChanges /\ changes' = changes + 1
  /\ world' \in Snapshots \ {world}
  /\ UNCHANGED <<hub, broker, pollVars, subVars, ch, fault>>

Receive(s) ==
  /\ sub[s] = "subscribed" /\ ctx[s] = "live" /\ ch[s].buf # <<>>
  /\ view' = [view EXCEPT ![s] = Head(ch[s].buf)]
  /\ ch' = [ch EXCEPT ![s].buf = Tail(@)]
  /\ UNCHANGED <<world, changes, hub, broker, pollVars, sub, ctx, watcher, fault>>

Cancel(s) ==
  /\ ctx[s] = "live" /\ sub[s] # "idle"
  /\ ctx' = [ctx EXCEPT ![s] = "done"]
  /\ UNCHANGED <<world, changes, hub, broker, pollVars, sub, watcher, view, ch, fault>>

-----------------------------------------------------------------------------
(* EventHub.                                                                  *)

Start ==
  /\ hub = "new" /\ hub' = "started"
  /\ poller' = IF lazy THEN poller ELSE "waiting"
  /\ UNCHANGED <<world, changes, broker, lazy, polled, last, subVars, ch, fault>>

(* SubscribeTopology, SubscribeSnapshot and SubscribeWorkspaceStatus up to     *)
(* the broker's Subscribe: under h.mu, the first subscriber of a workspace     *)
(* starts its poller; after Stop a closed channel is returned.                 *)
Subscribe(s) ==
  /\ sub[s] = "idle" /\ hub # "new"
  /\ IF lazy /\ hub # "started"
     THEN /\ ch' = [ch EXCEPT ![s].closed = TRUE] /\ sub' = [sub EXCEPT ![s] = "refused"]
          /\ UNCHANGED poller
     ELSE /\ sub' = [sub EXCEPT ![s] = "registering"] /\ UNCHANGED ch
          /\ poller' = IF poller = "off" THEN "waiting" ELSE poller
  /\ UNCHANGED <<world, changes, hub, broker, lazy, polled, last, ctx, watcher, view, fault>>

(* Stop cancels the pollers, waits for them, then closes the brokers. *)
StopBegins ==
  /\ hub = "started" /\ hub' = "stopping"
  /\ UNCHANGED <<world, changes, broker, pollVars, subVars, ch, fault>>

PollersDone == poller \in {"off", "exited"}

\* Mutant: the registrations stay in the map.
CloseKeeping ==
  /\ hub = "stopping" /\ PollersDone /\ ~broker.closed
  /\ broker' = [broker EXCEPT !.closed = TRUE, !.toClose = broker.subs]
  /\ UNCHANGED <<world, changes, hub, pollVars, subVars, ch, fault>>

(* Close takes the map away under b.mu; the channels are closed after it.     *)
Close ==
  /\ hub = "stopping" /\ PollersDone /\ ~broker.closed
  /\ broker' = [subs |-> {}, closed |-> TRUE, toClose |-> broker.subs]
  /\ UNCHANGED <<world, changes, hub, pollVars, subVars, ch, fault>>

CloseChannel(s) ==
  /\ ch' = [ch EXCEPT ![s].closed = TRUE]
  /\ fault' = (fault \/ ch[s].closed)

CloseNext(s) ==
  /\ s \in broker.toClose
  /\ broker' = [broker EXCEPT !.toClose = @ \ {s}]
  /\ CloseChannel(s)
  /\ UNCHANGED <<world, changes, hub, pollVars, subVars>>

StopReturns ==
  /\ hub = "stopping" /\ hub' = "stopped"
  /\ broker.closed /\ broker.toClose = {}
  /\ UNCHANGED <<world, changes, broker, pollVars, subVars, ch, fault>>

-----------------------------------------------------------------------------
(* broker.Subscribe and the goroutine it leaves behind.                       *)

\* Mutant: the channel of a refused subscriber is left open.
BrokerSubscribeUnclosed(s) ==
  /\ sub[s] = "registering"
  /\ IF broker.closed
     THEN sub' = [sub EXCEPT ![s] = "refused"] /\ UNCHANGED <<broker, watcher>>
     ELSE /\ sub' = [sub EXCEPT ![s] = "subscribed"] /\ watcher' = [watcher EXCEPT ![s] = "waiting"]
          /\ broker' = [broker EXCEPT !.subs = @ \cup {s}]
  /\ UNCHANGED <<world, changes, hub, pollVars, ctx, view, ch, fault>>

BrokerSubscribe(s) ==
  /\ sub[s] = "registering"
  /\ IF broker.closed
     THEN CloseChannel(s) /\ sub' = [sub EXCEPT ![s] = "refused"] /\ UNCHANGED <<broker, watcher>>
     ELSE /\ sub' = [sub EXCEPT ![s] = "subscribed"] /\ watcher' = [watcher EXCEPT ![s] = "waiting"]
          /\ broker' = [broker EXCEPT !.subs = @ \cup {s}] /\ UNCHANGED <<ch, fault>>
  /\ UNCHANGED <<world, changes, hub, pollVars, ctx, view>>

(* Woken by its context or the broker's end, it closes the channel of a       *)
(* registration that is still there.                                          *)
Wakes(s) ==
  /\ watcher[s] = "waiting" /\ (ctx[s] = "done" \/ broker.closed)
  /\ watcher' = [watcher EXCEPT ![s] = "done"]
  /\ IF s \in broker.subs
     THEN broker' = [broker EXCEPT !.subs = @ \ {s}] /\ CloseChannel(s)
     ELSE UNCHANGED <<broker, ch, fault>>
  /\ UNCHANGED <<world, changes, hub, pollVars, sub, ctx, view>>

-----------------------------------------------------------------------------
(* pollTopology, pollSnapshot and pollWorkspaceStatus.                        *)

PollerEnds ==
  /\ poller = "waiting" /\ hub \in {"stopping", "stopped"}
  /\ poller' = "exited"
  /\ UNCHANGED <<world, changes, hub, broker, lazy, polled, last, subVars, ch, fault>>

(* A tick: nothing is read while no one is subscribed. *)
Tick ==
  /\ poller = "waiting" /\ broker.subs # {}
  /\ poller' = "reading"
  /\ UNCHANGED <<world, changes, hub, broker, lazy, polled, last, subVars, ch, fault>>

PollFails ==
  /\ poller = "reading"
  /\ poller' = "waiting"
  /\ UNCHANGED <<world, changes, hub, broker, lazy, polled, last, subVars, ch, fault>>

PollReads ==
  /\ poller = "reading"
  /\ polled' = world
  /\ poller' = "comparing"
  /\ UNCHANGED <<world, changes, hub, broker, lazy, last, subVars, ch, fault>>

PollUnchanged ==
  /\ poller = "comparing" /\ polled = last
  /\ poller' = "waiting" /\ polled' = Nothing
  /\ UNCHANGED <<world, changes, hub, broker, lazy, last, subVars, ch, fault>>

(* The hash is remembered, then the snapshot goes to every subscriber with    *)
(* room in its buffer; the others are not told of it again.                   *)
Send(s, snapshot) ==
  IF Len(ch[s].buf) < subscriberBuffer
  THEN [ch[s] EXCEPT !.buf = Append(@, snapshot), !.sent = "sent"]
  ELSE [ch[s] EXCEPT !.sent = "dropped"]

\* Mutant: only the first publish remembers its hash.
BrokerPublishForgetting ==
  /\ poller = "comparing" /\ polled # last
  /\ last' = IF last = Nothing THEN polled ELSE last
  /\ poller' = "waiting" /\ polled' = Nothing
  /\ ch' = [s \in Subscribers |-> IF s \in broker.subs THEN Send(s, polled) ELSE ch[s]]
  /\ UNCHANGED <<world, changes, hub, broker, lazy, subVars, fault>>

BrokerPublish ==
  /\ poller = "comparing" /\ polled # last
  /\ last' = polled
  /\ poller' = "waiting" /\ polled' = Nothing
  /\ ch' = [s \in Subscribers |-> IF s \in broker.subs THEN Send(s, polled) ELSE ch[s]]
  /\ fault' = (fault \/ \E s \in broker.subs : ch[s].closed)
  /\ UNCHANGED <<world, changes, hub, broker, lazy, subVars>>

-----------------------------------------------------------------------------
Polls == PollerEnds \/ Tick \/ PollFails \/ PollReads \/ PollUnchanged \/ BrokerPublish
Stops == StopBegins \/ Close \/ StopReturns \/ \E s \in Subscribers : CloseNext(s)
Subscribes == \E s \in Subscribers : Subscribe(s) \/ BrokerSubscribe(s) \/ Wakes(s)
Clients == \E s \in Subscribers : Receive(s) \/ Cancel(s)

HubNext == WorldChanges \/ Start \/ Polls \/ Stops \/ Subscribes \/ Clients

(* Goroutines run; select picks among the ready at random, so a cancelled      *)
(* poller does not take the tick for ever; not every read of the platform     *)
(* fails; a subscriber reads what it is sent.                                 *)
HubFairness ==
  /\ SF_hubVars(PollerEnds) /\ WF_hubVars(Tick) /\ SF_hubVars(PollReads)
  /\ WF_hubVars(PollUnchanged \/ BrokerPublish)
  /\ WF_hubVars(Close \/ (\E s \in Subscribers : CloseNext(s)) \/ StopReturns)
  /\ \A s \in Subscribers : WF_hubVars(BrokerSubscribe(s)) /\ WF_hubVars(Wakes(s)) /\ WF_hubVars(Receive(s))

HubSpec == HubInit /\ [][HubNext]_hubVars /\ HubFairness

-----------------------------------------------------------------------------
HubTypeOK ==
  /\ world \in Snapshots /\ changes \in 0..MaxChanges /\ fault \in BOOLEAN
  /\ hub \in {"new", "started", "stopping", "stopped"}
  /\ broker \in [subs : SUBSET Subscribers, closed : BOOLEAN, toClose : SUBSET Subscribers]
  /\ lazy \in BOOLEAN /\ poller \in {"off", "waiting", "reading", "comparing", "exited"}
  /\ {polled, last} \subseteq Snapshots \cup {Nothing}
  /\ sub \in [Subscribers -> {"idle", "registering", "subscribed", "refused"}]
  /\ ctx \in [Subscribers -> {"live", "done"}]
  /\ watcher \in [Subscribers -> {"none", "waiting", "done"}]
  /\ ch \in [Subscribers -> [buf : Seq(Snapshots), closed : BOOLEAN,
                             sent : {"never", "sent", "dropped"}]]
  /\ \A s \in Subscribers : Len(ch[s].buf) <= subscriberBuffer
  /\ view \in [Subscribers -> Snapshots \cup {Nothing}]

(* No channel is closed twice, or sent on after it was closed (either panics   *)
(* the operator), however a cancel, a publish and Stop fall together.          *)
NoFault == ~fault

(* No channel is left open and no request hangs on the hub.  Once Stop has     *)
(* begun it returns, and every subscriber, refused or not, early or late, sees *)
(* its channel closed; one that goes away is closed too, and no publish counts *)
(* it any more.                                                                *)
ChannelsAreReleased ==
  \A s \in Subscribers :
    /\ hub \in {"stopping", "stopped"} /\ sub[s] # "idle" ~> hub = "stopped" /\ ch[s].closed
    /\ sub[s] # "idle" /\ ctx[s] = "done" ~> ch[s].closed /\ s \notin broker.subs

(* "Latest known": a subscriber that was told a snapshot, and whose last one    *)
(* found room in its buffer, ends with the snapshot that stands, although      *)
(* polls skip, fail and compare only hashes.                                  *)
LatestKnown ==
  \A s \in Subscribers :
    <>[](hub = "started" /\ sub[s] = "subscribed" /\ ctx[s] = "live" /\ ch[s].sent = "sent")
      => <>[](view[s] = world)

=============================================================================
