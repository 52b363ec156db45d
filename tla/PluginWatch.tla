---------------------------- MODULE PluginWatch ----------------------------
(***************************************************************************)
(* Adapter.SubscribePlugin and Subscribe (openclaw/discovery.go): one      *)
(* Gateway connection per subscription and one goroutine.  That of         *)
(* SubscribePlugin announces the directory, reads the two lists of pending *)
(* approvals, replays them, and then turns every Gateway event into a      *)
(* plugin event on a bounded channel read by the Hub; that of Subscribe    *)
(* enters the event loop at once and keeps to the messages and runs of one *)
(* session.                                                                *)
(*                                                                         *)
(* The connection is a GatewayConnection.  The Gateway, the Hub and the    *)
(* network are the environment; the Hub may stop reading, cancel, and      *)
(* subscribe again after the channel was closed.                           *)
(***************************************************************************)
EXTENDS Detail, GatewayConnection, FiniteSets

CONSTANTS
  Sessions,
  Approvals,         \* approval request ids
  KindOf,            \* KindOf[a] \in {"exec", "plugin"}
  SessionOf,         \* SessionOf[a]: its session key, or None
  Phases,            \* data.phase of agent events, "" when it is missing
  OutCapacity,       \* the channel to the Hub (128, or 32 for one session)
  MaxEvents,         \* bound: events the Gateway broadcasts
  MaxSubscriptions   \* bound: times the Hub subscribes

ASSUME SessionsAssumption == None \notin Sessions /\ None \notin Approvals
ASSUME KindAssumption == KindOf \in [Approvals -> {"exec", "plugin"}]
ASSUME SessionOfAssumption == SessionOf \in [Approvals -> Sessions \cup {None}]
ASSUME ApprovalsAssumption == IsFiniteSet(Approvals)
ASSUME LimitsAssumption ==
  /\ Capacity \in Nat \ {0}
  /\ OutCapacity \in Nat \ {0}
  /\ MaxEvents \in Nat
  /\ MaxSubscriptions \in Nat

VARIABLES
  approval,        \* Gateway: "unborn", "pending" or "resolved"
  broadcasts,      \* Gateway: events broadcast so far
  watch,           \* where the subscription goroutine is
  todo,            \* pending approvals listed and not yet replayed
  event,           \* the plugin event being built or sent, or None
  after,           \* where the goroutine goes once it is sent
  cancelled,       \* whether the subscription's context is cancelled
  out,             \* the channel to the Hub
  scope,           \* the session the Hub subscribed to, None for all of them
  shown,           \* Hub: "never", "open" or "closed", by approval
  detail,          \* Hub: the last snapshot it got of a session, or None
  last,            \* Hub: type of the last event received
  subscriptions,   \* history: times the Hub subscribed
  resolvedBefore,  \* history: approvals resolved before this subscription
  listFailed       \* history: an approval list failed in this subscription

gatewayVars == <<approval, broadcasts>>
watchVars == <<watch, todo, event, after>>
hubVars == <<scope, shown, detail, last, subscriptions, resolvedBefore>>
vars == <<gatewayVars, connectionVars, watchVars, cancelled, out, hubVars, listFailed>>

\* A Gateway event.
GatewayEvent ==
  [event : {"sessions.changed", "session.message"}, session : Sessions \cup {None}]
    \cup [event : {"agent"}, session : Sessions \cup {None}, phase : Phases]
    \cup [event : {"approval.requested", "approval.resolved"}, approval : Approvals]

\* A plugin event; a field that a type does not use, or whose value no
\* property tells apart, is None.
Plugin(type, session, a, status, snap) ==
  [type |-> type, session |-> session, approval |-> a, status |-> status, snapshot |-> snap]

Init ==
  /\ approval = [a \in Approvals |-> "unborn"]
  /\ broadcasts = 0
  /\ NoConnection
  /\ watch = "off"
  /\ todo = <<>>
  /\ event = None
  /\ after = "off"
  /\ cancelled = FALSE
  /\ out = <<>>
  /\ scope = None
  /\ shown = [a \in Approvals |-> "never"]
  /\ detail = [s \in Sessions |-> None]
  /\ last = "nothing"
  /\ subscriptions = 0
  /\ resolvedBefore = {}
  /\ listFailed = FALSE
-----------------------------------------------------------------------------
(* The Gateway and the network, external.                                  *)

\* The Gateway sends e to its subscriber, if it has one.
Broadcast(e) ==
  /\ broadcasts < MaxEvents
  /\ broadcasts' = broadcasts + 1
  /\ Receive(e)
  /\ UNCHANGED <<watchVars, cancelled, out, hubVars, listFailed>>

RequestApproval(a) ==
  /\ approval[a] = "unborn"
  /\ approval' = [approval EXCEPT ![a] = "pending"]
  /\ Broadcast([event |-> "approval.requested", approval |-> a])

ResolveApproval(a) ==
  /\ approval[a] = "pending"
  /\ approval' = [approval EXCEPT ![a] = "resolved"]
  /\ Broadcast([event |-> "approval.resolved", approval |-> a])

SessionEvent(e) ==
  /\ e.event \in {"sessions.changed", "session.message", "agent"}
  /\ Broadcast(e)
  /\ UNCHANGED approval

ConnectionLost ==
  /\ Lose
  /\ UNCHANGED <<gatewayVars, watchVars, cancelled, out, hubVars, listFailed>>
-----------------------------------------------------------------------------
(* The Hub, external: it subscribes, reads the channel and may cancel.     *)

\* The dial and the subscribing request succeed.
Open(session) ==
  /\ watch \in {"off", "closed"}
  /\ out = <<>>
  /\ subscriptions < MaxSubscriptions
  /\ subscriptions' = subscriptions + 1
  /\ Dial
  /\ scope' = session
  /\ todo' = <<>>
  /\ cancelled' = FALSE
  /\ listFailed' = FALSE
  /\ resolvedBefore' = {a \in Approvals : approval[a] = "resolved"}
  /\ UNCHANGED <<gatewayVars, out, shown, detail, last>>

SubscribePlugin ==
  /\ Open(None)
  /\ watch' = "sending"
  /\ event' = Plugin("directory.reconciled", None, None, None, None)
  /\ after' = "listingExec"

\* Neither an announcement nor a replay.
Subscribe(s) ==
  /\ Open(s)
  /\ watch' = "waiting"
  /\ event' = None
  /\ after' = "waiting"

Cancel ==
  /\ watch \notin {"off", "closed"}
  /\ ~cancelled
  /\ cancelled' = TRUE
  /\ UNCHANGED <<gatewayVars, connectionVars, watchVars, out, hubVars, listFailed>>

HubReceives ==
  /\ out # <<>>
  /\ out' = Tail(out)
  /\ LET e == Head(out) IN
       /\ last' = e.type
       /\ shown' = IF e.type = "approval.required" THEN [shown EXCEPT ![e.approval] = "open"]
                   ELSE IF e.type = "approval.resolve" THEN [shown EXCEPT ![e.approval] = "closed"]
                   ELSE shown
       /\ detail' = IF e.snapshot = None THEN detail
                    ELSE [detail EXCEPT ![e.session] = e.snapshot]
  /\ UNCHANGED <<gatewayVars, connectionVars, watchVars, cancelled, scope, subscriptions,
                 resolvedBefore, listFailed>>
-----------------------------------------------------------------------------
(* The subscription goroutine.                                             *)

\* It returns: the deferred calls close the client and the channel.
Return ==
  /\ watch' = "closed"
  /\ connection' = "none"

SendPluginEventBlocking ==
  /\ watch = "sending"
  /\ Len(out) < OutCapacity
  /\ out' = Append(out, event)
  /\ IF after = "closed" THEN Return ELSE watch' = after /\ UNCHANGED connection
  /\ event' = None
  /\ UNCHANGED <<gatewayVars, queue, streamVars, todo, after, cancelled, hubVars, listFailed>>

SendPluginEventUnbounded ==
  /\ watch = "sending"
  /\ out' = Append(out, event)
  /\ IF after = "closed" THEN Return ELSE watch' = after /\ UNCHANGED connection
  /\ event' = None
  /\ UNCHANGED <<gatewayVars, queue, streamVars, todo, after, cancelled, hubVars, listFailed>>

\* sendPluginEvent: of a channel with room and a cancelled context Go picks
\* either.
SendPluginEvent ==
  /\ watch = "sending"
  /\ \/ /\ Len(out) < OutCapacity
        /\ out' = Append(out, event)
        /\ IF after = "closed" THEN Return ELSE watch' = after /\ UNCHANGED connection
     \/ /\ cancelled
        /\ Return
        /\ UNCHANGED out
  /\ event' = None
  /\ UNCHANGED <<gatewayVars, queue, streamVars, todo, after, cancelled, hubVars, listFailed>>

PendingOf(kind) == {a \in Approvals : approval[a] = "pending" /\ KindOf[a] = kind}

\* The sequences that list each member of S once.
Listings(S) ==
  {q \in [1 .. Cardinality(S) -> S] : \A i, j \in DOMAIN q : q[i] = q[j] => i = j}

\* pendingApprovalRecords reads one list; a failed request is skipped.
ListApprovals(kind, next) ==
  /\ \/ /\ connection = "up"
        /\ \E q \in Listings(PendingOf(kind)) : todo' = todo \o q
        /\ UNCHANGED listFailed
     \/ /\ listFailed' = TRUE
        /\ UNCHANGED todo
  /\ watch' = next
  /\ UNCHANGED <<gatewayVars, connectionVars, event, after, cancelled, out, hubVars>>

ListExecApprovals == watch = "listingExec" /\ ListApprovals("exec", "listingPlugin")

ListPluginApprovals == watch = "listingPlugin" /\ ListApprovals("plugin", "replaying")

\* Starts on a plugin event, with the detail snapshot to build for it or not.
Emit(e) == event' = e /\ watch' = "sending"
EmitWithDetail(e) == event' = e /\ watch' = "describing"

approvalRequiredEvent(a) ==
  Plugin("approval.required", SessionOf[a], a, "waiting_approval", Snapshot(WaitingRun, a))

approvalResolvedEvent(a) ==
  Plugin("approval.resolve", SessionOf[a], a, "completed", None)

ReplayApproval ==
  /\ watch = "replaying"
  /\ todo # <<>>
  /\ todo' = Tail(todo)
  /\ \/ /\ SessionOf[Head(todo)] # None
        /\ EmitWithDetail(approvalRequiredEvent(Head(todo)))
        /\ after' = "replaying"
     \/ /\ SessionOf[Head(todo)] = None
        /\ UNCHANGED <<watch, event, after>>
  /\ UNCHANGED <<gatewayVars, connectionVars, cancelled, out, hubVars, listFailed>>

EnterLoopEarly ==
  /\ watch = "replaying"
  /\ watch' = "waiting"
  /\ UNCHANGED <<gatewayVars, connectionVars, todo, event, after, cancelled, out, hubVars,
                 listFailed>>

EnterLoop ==
  /\ watch = "replaying"
  /\ todo = <<>>
  /\ watch' = "waiting"
  /\ UNCHANGED <<gatewayVars, connectionVars, todo, event, after, cancelled, out, hubVars,
                 listFailed>>

\* A change that names no session asks for the whole directory.
sessionIndexEvent(e) ==
  Plugin(IF e.session = None THEN "directory.reconciled" ELSE "index.changed",
         e.session, None, None, None)

convertSessionMessageEvent(e) == Plugin("message", e.session, None, None, None)

runEvent(e) ==
  Plugin("run", e.session, None, convertAgentLifecycleEvent(e.phase),
         Snapshot(runFromAgentEvent(e.phase), None))

\* The switch of the event loop of SubscribePlugin.  An event that converts
\* to nothing leaves the goroutine waiting for the next one.
ConvertAny(e) ==
  \/ /\ e.event = "sessions.changed"
     /\ Emit(sessionIndexEvent(e))
  \/ /\ e.event = "session.message"
     /\ e.session # None
     /\ Emit(convertSessionMessageEvent(e))
  \/ /\ e.event = "agent"
     /\ e.session # None
     /\ e.phase # ""
     /\ EmitWithDetail(runEvent(e))
  \/ /\ e.event = "approval.requested"
     /\ SessionOf[e.approval] # None
     /\ EmitWithDetail(approvalRequiredEvent(e.approval))
  \/ /\ e.event = "approval.resolved"
     /\ SessionOf[e.approval] # None
     /\ Emit(approvalResolvedEvent(e.approval))
  \/ /\ \/ e.event = "session.message" /\ e.session = None
        \/ e.event = "agent" /\ (e.session = None \/ e.phase = "")
        \/ /\ e.event \in {"approval.requested", "approval.resolved"}
           /\ SessionOf[e.approval] = None
     /\ UNCHANGED <<watch, event>>

\* convertGatewayEvent with a session key: an event that names no session is
\* taken for one of the session.
Concerns(e) == e.event \in {"session.message", "agent"} /\ e.session \in {scope, None}

AsOfScope(e) == [e EXCEPT !.session = IF @ = None THEN scope ELSE @]

\* The event loop of Subscribe.
ConvertOwn(e) ==
  \/ /\ e.event = "session.message"
     /\ Concerns(e)
     /\ Emit(convertSessionMessageEvent(AsOfScope(e)))
  \/ /\ e.event = "agent"
     /\ Concerns(e)
     /\ e.phase # ""
     /\ EmitWithDetail(runEvent(AsOfScope(e)))
  \/ /\ ~Concerns(e) \/ (e.event = "agent" /\ e.phase = "")
     /\ UNCHANGED <<watch, event>>

Convert(e) == (scope = None /\ ConvertAny(e)) \/ (scope # None /\ ConvertOwn(e))

NextEventDuringReplay ==
  /\ watch \in {"waiting", "replaying"}
  /\ TakeEvent
  /\ Convert(NextInLine)
  /\ after' = watch
  /\ UNCHANGED <<gatewayVars, todo, cancelled, out, hubVars, listFailed>>

NextEvent ==
  /\ watch = "waiting"
  /\ TakeEvent
  /\ Convert(NextInLine)
  /\ after' = "waiting"
  /\ UNCHANGED <<gatewayVars, todo, cancelled, out, hubVars, listFailed>>

EventStreamEndsSilently(why) ==
  /\ watch = "waiting"
  /\ End(why)
  /\ Return
  /\ UNCHANGED <<gatewayVars, queue, todo, event, after, cancelled, out, hubVars, listFailed>>

\* NextEventWithTimeout fails: silently when the context is cancelled, with a
\* subscription.error otherwise.
EventStreamEnds(why) ==
  /\ watch = "waiting"
  /\ End(why)
  /\ \/ /\ cancelled
        /\ Return
        /\ UNCHANGED <<event, after>>
     \/ /\ ~cancelled
        /\ Emit(Plugin("subscription.error", None, None, "failed", None))
        /\ after' = "closed"
        /\ UNCHANGED connection
  /\ UNCHANGED <<gatewayVars, queue, todo, cancelled, out, hubVars, listFailed>>

ConnectionEnds == Failed /\ EventStreamEnds(connection)

ContextEnds == cancelled /\ EventStreamEnds("gaveUp")

\* Fifteen minutes without an event.
IdleTimeout == EventStreamEnds("gaveUp")
-----------------------------------------------------------------------------
(* buildDetailSnapshotWithRun on behalf of an event: four requests, each of *)
(* which may fail without failing the snapshot.                            *)

DetailRequestOrDrop(from, to) ==
  /\ watch = from
  /\ watch' \in {to, after}
  /\ UNCHANGED <<gatewayVars, connectionVars, todo, event, after, cancelled, out, hubVars,
                 listFailed>>

\* A request whose answer fills fields that are abstracted.
DetailRequest(from, to) ==
  /\ watch = from
  /\ watch' = to
  /\ UNCHANGED <<gatewayVars, connectionVars, todo, event, after, cancelled, out, hubVars,
                 listFailed>>

\* sessions.describe, and models.list at once after it.
DescribeSession == DetailRequest("describing", "checkingExec")

\* firstPendingApprovalForSession: the first pending approval of the session
\* in the exec list, else in the plugin list; a failed list counts as empty.
BlockOn(a) ==
  event' = [event EXCEPT !.snapshot =
              buildDetailSnapshotWithRun(@.run, @.blockedOn, a)]

CheckApprovalsHanging(kind, next) ==
  LET mine == {a \in PendingOf(kind) : SessionOf[a] = event.session} IN
  /\ connection = "up"
  /\ \/ /\ \E a \in mine : BlockOn(a)
        /\ watch' = "sending"
     \/ /\ mine = {}
        /\ watch' = next
        /\ UNCHANGED event
  /\ UNCHANGED <<gatewayVars, connectionVars, todo, after, cancelled, out, hubVars, listFailed>>

CheckApprovals(kind, next) ==
  LET mine == {a \in PendingOf(kind) : SessionOf[a] = event.session} IN
  /\ \/ /\ connection = "up"
        /\ \E a \in mine : BlockOn(a)
        /\ watch' = "sending"
        /\ UNCHANGED listFailed
     \/ /\ connection = "up"
        /\ mine = {}
        /\ watch' = next
        /\ UNCHANGED <<event, listFailed>>
     \/ /\ watch' = next
        /\ listFailed' = TRUE
        /\ UNCHANGED event
  /\ UNCHANGED <<gatewayVars, connectionVars, todo, after, cancelled, out, hubVars>>

CheckExecApprovals == watch = "checkingExec" /\ CheckApprovals("exec", "checkingPlugin")

CheckPluginApprovals == watch = "checkingPlugin" /\ CheckApprovals("plugin", "sending")
-----------------------------------------------------------------------------
GatewayStep ==
  \/ \E a \in Approvals : RequestApproval(a) \/ ResolveApproval(a)
  \/ \E e \in GatewayEvent : SessionEvent(e)
  \/ ConnectionLost

\* What the goroutine does by itself; requests always return, because each
\* has a timeout.
WatchStep ==
  \/ SendPluginEvent
  \/ ListExecApprovals
  \/ ListPluginApprovals
  \/ ReplayApproval
  \/ EnterLoop
  \/ NextEvent
  \/ ConnectionEnds
  \/ ContextEnds
  \/ DescribeSession
  \/ CheckExecApprovals
  \/ CheckPluginApprovals

Next ==
  \/ GatewayStep
  \/ SubscribePlugin
  \/ \E s \in Sessions : Subscribe(s)
  \/ Cancel
  \/ HubReceives
  \/ WatchStep
  \/ IdleTimeout

Spec == Init /\ [][Next]_vars

\* The goroutine runs when it can; of a select with a cancelled context it
\* does not pick the other case forever.
FairSpec == Spec /\ WF_vars(WatchStep)

\* The Hub keeps reading the channel, which FairSpec does not promise.
HubKeepsReading == WF_vars(HubReceives)
-----------------------------------------------------------------------------
Snapshots ==
  [run : {idleRun, WaitingRun} \cup {runFromAgentEvent(p) : p \in Phases},
   blockedOn : Approvals \cup {None}, locked : BOOLEAN]

ASSUME NoneAssumption == None \notin Snapshots

PluginEvent ==
  [type : {"directory.reconciled", "index.changed", "message", "run", "approval.required",
           "approval.resolve", "subscription.error"},
   session : Sessions \cup {None},
   approval : Approvals \cup {None},
   status : {"running", "completed", "failed", "waiting_approval", None},
   snapshot : Snapshots \cup {None}]

TypeOK ==
  /\ approval \in [Approvals -> {"unborn", "pending", "resolved"}]
  /\ broadcasts \in 0 .. MaxEvents
  /\ ConnectionTypeOK
  /\ queue \in Seq(GatewayEvent)
  /\ watch \in {"off", "listingExec", "listingPlugin", "replaying", "waiting", "describing",
                "checkingExec", "checkingPlugin", "sending", "closed"}
  /\ todo \in Seq(Approvals)
  /\ event \in PluginEvent \cup {None}
  /\ after \in {"off", "listingExec", "replaying", "waiting", "closed"}
  /\ cancelled \in BOOLEAN
  /\ out \in Seq(PluginEvent)
  /\ Len(out) <= OutCapacity
  /\ scope \in Sessions \cup {None}
  /\ shown \in [Approvals -> {"never", "open", "closed"}]
  /\ detail \in [Sessions -> Snapshots \cup {None}]
  /\ subscriptions \in 0 .. MaxSubscriptions
  /\ resolvedBefore \subseteq Approvals
  /\ listFailed \in BOOLEAN
-----------------------------------------------------------------------------
\* Everything sent so far to a plugin-wide subscription has been read,
\* converted and received.
CaughtUp ==
  /\ scope = None
  /\ watch = "waiting"
  /\ Drained
  /\ out = <<>>

Routable(a) == SessionOf[a] # None

\* However requests, resolutions, the lists, the replay and reconnections
\* interleave, a caught-up Hub shows exactly the pending approvals as open:
\* none is missing, unless a list request failed, and none is left open that
\* was resolved during this subscription.
HubConverges ==
  CaughtUp =>
    /\ ~listFailed => \A a \in Approvals :
         approval[a] = "pending" /\ Routable(a) => shown[a] = "open"
    /\ \A a \in Approvals :
         shown[a] = "open" => approval[a] = "pending" \/ a \in resolvedBefore

\* A caught-up Hub shows the controls of a session with a pending approval as
\* locked and its run as waiting for an approval, unless a list failed.
BlockedSessionsAreLocked ==
  CaughtUp /\ ~listFailed =>
    \A a \in Approvals :
      approval[a] = "pending" /\ Routable(a) =>
        /\ detail[SessionOf[a]] # None
        /\ detail[SessionOf[a]].run = WaitingRun
        /\ detail[SessionOf[a]].locked

Inbox == INSTANCE ApprovalInbox WITH settled <- resolvedBefore

\* Whatever the lists, the replay, the event loop, the snapshots built between
\* them and reconnections do, the Hub's picture of approvals and of the
\* sessions they block only moves as ApprovalInbox allows.
ImplementsApprovalInbox == Inbox!InboxSpec

\* A subscription whose context lives never ends silently.
EndIsAnnounced ==
  watch = "closed" /\ ~cancelled /\ out = <<>> => last = "subscription.error"

\* Cancelling ends the goroutine wherever it is, a Hub that stopped reading
\* included.
CancelEndsWatch == cancelled ~> watch = "closed"

\* A lost connection ends the subscription of a Hub that keeps reading.
LostConnectionEndsWatch == HubKeepsReading => (Failed ~> watch = "closed")

Buffered(e) == \E i \in DOMAIN queue : queue[i] = e

\* An approval event in the buffer reaches a Hub that keeps reading, unless
\* the subscription ends first.
ApprovalReachesHub ==
  HubKeepsReading =>
    \A a \in {b \in Approvals : Routable(b)} :
      scope = None /\ Buffered([event |-> "approval.requested", approval |-> a])
        ~> shown[a] # "never" \/ watch = "closed"

\* The snapshot of an agent event that is not blocked by an approval shows
\* the run in the status the event itself reports.
SnapshotTellsRunStatus ==
  \A i \in DOMAIN out :
    out[i].type = "run" /\ out[i].snapshot.blockedOn = None =>
      out[i].snapshot.run.status = out[i].status

\* Every approval pending when the lists are read is replayed.
PendingIsReplayed ==
  CaughtUp => \A a \in Approvals :
    approval[a] = "pending" /\ Routable(a) => shown[a] = "open"
=============================================================================
