------------------------- MODULE PluginWatchProofs -------------------------
(***************************************************************************)
(* Theorems about PluginWatch for every set of sessions and approvals,     *)
(* every size of the buffer and of the channel, and any number of events   *)
(* and subscriptions.                                                      *)
(***************************************************************************)
EXTENDS PluginWatch, FiniteSetTheorems, SequenceTheorems, TLAPS

Statuses == {"running", "completed", "failed", "waiting_approval", None}

OfApproval(type, a) ==
  [type : {type}, session : Sessions \cup {None}, approval : {a}, status : Statuses,
   snapshot : Snapshots \cup {None}]

\* What becomes of approval a on its way to the Hub: in the buffer, and then
\* as a plugin event.
Requested(a) == [event |-> "approval.requested", approval |-> a]
Resolved(a) == [event |-> "approval.resolved", approval |-> a]
Openings(a) == OfApproval("approval.required", a)
Closings(a) == OfApproval("approval.resolve", a)

Lacks(q, S) == \A i \in DOMAIN q : q[i] \notin S

\* No element of S comes after one of T.
NoneAfter(q, S, T) ==
  \A i, j \in DOMAIN q : i < j /\ q[i] \in T => q[j] \notin S

Building == {"describing", "checkingExec", "checkingPlugin"}
Listing == {"listingExec", "listingPlugin", "replaying"}

\* The goroutine holds an event of S.
Holds(S) == watch \in Building \cup {"sending"} /\ event \in S

\* What the goroutine holds at each of its places.
PlacesFit ==
  /\ watch \in Listing => after \in {"listingExec", "replaying"}
  /\ watch = "waiting" \/ after \in {"waiting", "closed"} => todo = <<>>
  /\ watch \in Building => /\ event \in PluginEvent
                           /\ event.snapshot \in Snapshots
                           /\ after \in {"replaying", "waiting"}
  /\ watch = "sending" => event \in PluginEvent
  /\ watch = "sending" /\ after = "closed" => event.type = "subscription.error"
  /\ Holds(PluginEvent) /\ event.type = "approval.resolve" => todo = <<>>

\* An approval that is not resolved is nowhere said to be, and wherever a
\* resolution has got to, no request of that approval is left behind it.
Sealed(a) == shown[a] = "closed" \/ ~Lacks(out, Closings(a))

OrderKept(a) ==
  /\ approval[a] # "resolved" =>
       /\ Lacks(queue, {Resolved(a)})
       /\ ~Holds(Closings(a))
       /\ ~Sealed(a)
  /\ NoneAfter(queue, {Requested(a)}, {Resolved(a)})
  /\ Holds(Closings(a)) => Lacks(queue, {Requested(a)})
  /\ NoneAfter(out, Openings(a), Closings(a))
  /\ Sealed(a) => /\ ~Holds(Openings(a))
                  /\ Lacks(todo, {a})
                  /\ Lacks(queue, {Requested(a)})
  /\ shown[a] = "closed" => Lacks(out, Openings(a))

\* The Hub is told of approvals that were raised and have a session.
ToldOfReal(a) ==
  /\ shown[a] = "open" \/ ~Lacks(out, Openings(a)) \/ Holds(Openings(a)) =>
       Routable(a) /\ approval[a] # "unborn"
  /\ ~Lacks(todo, {a}) \/ ~Lacks(queue, {Requested(a)}) => approval[a] # "unborn"

\* A connection that is up has been since the subscription began.
Attached == scope = None /\ connection = "up"

ToList(a) ==
  \/ watch = "sending" /\ after = "listingExec"
  \/ watch = "listingExec"
  \/ watch = "listingPlugin" /\ KindOf[a] = "plugin"

OpeningComes(a) ==
  \/ shown[a] = "open"
  \/ ~Lacks(out, Openings(a))
  \/ Holds(Openings(a))
  \/ ~Lacks(todo, {a})
  \/ ~Lacks(queue, {Requested(a)})
  \/ ToList(a)

ClosingComes(a) ==
  \/ Sealed(a)
  \/ Holds(Closings(a))
  \/ ~Lacks(queue, {Resolved(a)})

\* The state of every approval has reached the Hub or is on its way.
NothingMissed(a) ==
  Attached /\ Routable(a) =>
    /\ approval[a] = "pending" /\ ~listFailed => OpeningComes(a)
    /\ approval[a] = "resolved" /\ a \notin resolvedBefore => ClosingComes(a)

\* The last thing sent by a subscription that ended by itself says so.
Announced ==
  watch = "closed" /\ ~cancelled =>
    \/ out = <<>> /\ last = "subscription.error"
    \/ out # <<>> /\ out[Len(out)].type = "subscription.error"

Tracked(a) == OrderKept(a) /\ ToldOfReal(a) /\ NothingMissed(a)
ApprovalInv == \A a \in Approvals : Tracked(a)

IInv == TypeOK /\ PlacesFit /\ ApprovalInv /\ Announced
-----------------------------------------------------------------------------
USE SessionsAssumption, KindAssumption, SessionOfAssumption, ApprovalsAssumption, LimitsAssumption

\* When elements of T are lacking from a sequence with one more at its end.
LEMMA LacksAppend ==
  ASSUME NEW S, NEW q \in Seq(S), NEW e \in S, NEW T
  PROVE  Lacks(Append(q, e), T) <=> Lacks(q, T) /\ e \notin T
<1>1. DOMAIN Append(q, e) = DOMAIN q \cup {Len(q) + 1}
  OBVIOUS
<1>2. Append(q, e)[Len(q) + 1] = e /\ \A i \in DOMAIN q : Append(q, e)[i] = q[i]
  OBVIOUS
<1> QED
  BY <1>1, <1>2 DEF Lacks

\* The same when the first element is taken off.
LEMMA LacksTail ==
  ASSUME NEW S, NEW q \in Seq(S), q # <<>>, NEW T
  PROVE  Lacks(q, T) <=> Head(q) \notin T /\ Lacks(Tail(q), T)
<1>1. ASSUME NEW i \in DOMAIN q
      PROVE i = 1 \/ (i - 1 \in DOMAIN Tail(q) /\ Tail(q)[i - 1] = q[i])
  BY <1>1
<1>2. ASSUME NEW i \in DOMAIN Tail(q) PROVE i + 1 \in DOMAIN q /\ Tail(q)[i] = q[i + 1]
  BY <1>2
<1>3. 1 \in DOMAIN q /\ Head(q) = q[1]
  OBVIOUS
<1> QED
  BY <1>1, <1>2, <1>3 DEF Lacks

\* The same when a sequence is added at the end.
LEMMA LacksConcat ==
  ASSUME NEW S, NEW p \in Seq(S), NEW q \in Seq(S), NEW T
  PROVE  Lacks(p \o q, T) <=> Lacks(p, T) /\ Lacks(q, T)
<1>1. ASSUME NEW i \in DOMAIN p PROVE i \in DOMAIN (p \o q) /\ (p \o q)[i] = p[i]
  BY <1>1
<1>2. ASSUME NEW i \in DOMAIN q
      PROVE i + Len(p) \in DOMAIN (p \o q) /\ (p \o q)[i + Len(p)] = q[i]
  BY <1>2
<1>3. ASSUME NEW i \in DOMAIN (p \o q)
      PROVE  \/ i \in DOMAIN p /\ (p \o q)[i] = p[i]
             \/ i - Len(p) \in DOMAIN q /\ (p \o q)[i] = q[i - Len(p)]
  BY <1>3
<1> QED
  BY <1>1, <1>2, <1>3 DEF Lacks

\* Nothing is in the empty sequence.
LEMMA EmptyLacks ==
  ASSUME NEW T, NEW U
  PROVE  Lacks(<<>>, T) /\ NoneAfter(<<>>, T, U)
BY DEF Lacks, NoneAfter

\* Taking the first element off a longer sequence leaves its last one.
LEMMA TailLast ==
  ASSUME NEW S, NEW q \in Seq(S), q # <<>>
  PROVE  \/ Tail(q) = <<>> /\ Head(q) = q[Len(q)]
         \/ Tail(q) # <<>> /\ Tail(q)[Len(Tail(q))] = q[Len(q)]
<1> SUFFICES ASSUME NEW t, t = Tail(q)
             PROVE  \/ t = <<>> /\ Head(q) = q[Len(q)]
                    \/ t # <<>> /\ t[Len(t)] = q[Len(q)]
  OBVIOUS
<1>1. Len(q) \in Nat \ {0} /\ t \in Seq(S) /\ Len(t) = Len(q) - 1 /\ Head(q) = q[1]
  BY HeadTailProperties, EmptySeq
<1>2. \A i \in 1 .. Len(t) : t[i] = q[i + 1]
  BY HeadTailProperties
<1>3. t = <<>> <=> Len(t) = 0
  BY <1>1, EmptySeq
<1> QED
  BY <1>1, <1>2, <1>3

\* What keeps the order of T and U when an element comes in at the end.
LEMMA NoneAfterAppend ==
  ASSUME NEW S, NEW q \in Seq(S), NEW e \in S, NEW T, NEW U
  PROVE  NoneAfter(q, T, U) /\ (e \in T => Lacks(q, U)) => NoneAfter(Append(q, e), T, U)
BY DEF Lacks, NoneAfter

\* Taking the first element off keeps the order, and none of T follows one of U.
LEMMA NoneAfterTail ==
  ASSUME NEW S, NEW q \in Seq(S), q # <<>>, NEW T, NEW U, NoneAfter(q, T, U)
  PROVE  NoneAfter(Tail(q), T, U) /\ (Head(q) \in U => Lacks(Tail(q), T))
<1>1. ASSUME NEW i \in DOMAIN Tail(q)
      PROVE i + 1 \in DOMAIN q /\ Tail(q)[i] = q[i + 1] /\ i \in Nat \ {0}
  BY <1>1
<1>2. 1 \in DOMAIN q /\ Head(q) = q[1]
  OBVIOUS
<1> QED
  BY <1>1, <1>2 DEF Lacks, NoneAfter
-----------------------------------------------------------------------------
\* The connection and its events.
LEMMA ReceiveTypes ==
  ASSUME ConnectionTypeOK, queue \in Seq(GatewayEvent), NEW e \in GatewayEvent, Receive(e)
  PROVE  /\ ConnectionTypeOK' /\ queue' \in Seq(GatewayEvent)
         /\ \/ queue' = Append(queue, e) /\ connection' = connection
            \/ queue' = queue /\ connection' # "up"
<1> USE DEF ConnectionTypeOK
<1>1. Len(queue) \in Nat
  OBVIOUS
<1>2. CASE connection = "up" /\ Accept /\ queue' = Append(queue, e) /\ UNCHANGED connection
  BY <1>1, <1>2 DEF Accept
<1>3. CASE connection' = "overflow" /\ UNCHANGED <<queue, streamVars>>
  BY <1>3 DEF streamVars
<1>4. CASE connection # "up" /\ UNCHANGED connectionVars
  BY <1>4 DEF connectionVars, streamVars
<1> QED
  BY <1>2, <1>3, <1>4 DEF Receive

\* Taking an event off the buffer leaves the rest of it.
LEMMA TakeTypes ==
  ASSUME ConnectionTypeOK, queue \in Seq(GatewayEvent), TakeEvent
  PROVE  /\ ConnectionTypeOK' /\ queue' \in Seq(GatewayEvent)
         /\ queue # <<>> /\ queue' = Tail(queue) /\ connection' = connection
         /\ NextInLine \in GatewayEvent
<1>1. Len(queue) \in Nat
  OBVIOUS
<1>2. queue # <<>>
  BY <1>1 DEF ConnectionTypeOK, TakeEvent, Take
<1>3. Tail(queue) \in Seq(GatewayEvent) /\ Len(Tail(queue)) = Len(queue) - 1 /\ Head(queue) \in GatewayEvent
  BY <1>2
<1> QED
  BY <1>1, <1>2, <1>3 DEF ConnectionTypeOK, TakeEvent, Take, NextInLine

\* A connection that ends stays well typed.
LEMMA EndTypes ==
  ASSUME ConnectionTypeOK, NEW why \in Endings, End(why), UNCHANGED queue,
         connection' \in {connection, "none"}
  PROVE  ConnectionTypeOK'
BY DEF ConnectionTypeOK, End

\* A new connection has an empty buffer.
LEMMA DialTypes ==
  ASSUME Dial
  PROVE  ConnectionTypeOK' /\ queue' = <<>> /\ queue' \in Seq(GatewayEvent)
BY DEF ConnectionTypeOK, Dial

Runs == {idleRun, WaitingRun} \cup {runFromAgentEvent(p) : p \in Phases}

\* A snapshot of any run, blocked by any approval or none, is one.
LEMMA SnapshotTypes ==
  ASSUME NEW r \in Runs, NEW a \in Approvals \cup {None}
  PROVE  Snapshot(r, a) \in Snapshots
BY DEF Snapshot, Snapshots, Runs, isControlsLocked

\* What an event of the Gateway turns into.
Turns(e) ==
  /\ \/ UNCHANGED <<watch, event>>
     \/ watch' = "sending" /\ event' \in PluginEvent
     \/ watch' = "describing" /\ event' \in PluginEvent /\ event'.snapshot \in Snapshots
  /\ watch' # watch =>
       /\ event'.type = "approval.required" => e = Requested(event'.approval)
       /\ event'.type = "approval.resolve" => e = Resolved(event'.approval)
       /\ event'.type \in {"approval.required", "approval.resolve"} => Routable(event'.approval)
  /\ \A a \in Approvals : scope = None /\ Routable(a) =>
       /\ e = Requested(a) => watch' = "describing" /\ event' \in Openings(a)
       /\ e = Resolved(a) => watch' = "sending" /\ event' \in Closings(a)

\* The plugin events made of an approval announce it and its resolution.
LEMMA ApprovalEventTypes ==
  ASSUME NEW a \in Approvals
  PROVE  /\ approvalRequiredEvent(a) \in PluginEvent
         /\ approvalRequiredEvent(a).snapshot \in Snapshots
         /\ approvalRequiredEvent(a) \in Openings(a)
         /\ approvalResolvedEvent(a) \in PluginEvent
         /\ approvalResolvedEvent(a) \in Closings(a)
<1>1. Snapshot(WaitingRun, a) \in Snapshots
  BY SnapshotTypes DEF Runs
<1> QED
  BY <1>1
     DEF approvalRequiredEvent, approvalResolvedEvent, Plugin, PluginEvent, Openings, Closings,
              OfApproval, Statuses

\* The plugin event made of a phase of an agent's run.
LEMMA RunEventTypes ==
  ASSUME NEW s \in Sessions, NEW e, e.session = s, e.phase \in Phases
  PROVE  runEvent(e) \in PluginEvent /\ runEvent(e).snapshot \in Snapshots /\ runEvent(e).type = "run"
<1>1. Snapshot(runFromAgentEvent(e.phase), None) \in Snapshots
  BY SnapshotTypes DEF Runs
<1>2. convertAgentLifecycleEvent(e.phase) \in {"running", "completed", "failed"}
  BY DEF convertAgentLifecycleEvent
<1> QED
  BY <1>1, <1>2 DEF runEvent, Plugin, PluginEvent

\* What an event of the Gateway turns into is one of those.
LEMMA ConvertTurns ==
  ASSUME scope \in Sessions \cup {None}, watch = "waiting", NEW e \in GatewayEvent, Convert(e)
  PROVE  Turns(e)
<1>1. CASE e \in [event : {"sessions.changed", "session.message"}, session : Sessions \cup {None}]
  <2>1. \/ UNCHANGED <<watch, event>>
        \/ Emit(sessionIndexEvent(e))
        \/ Emit(convertSessionMessageEvent(e))
        \/ Emit(convertSessionMessageEvent(AsOfScope(e))) /\ e.session \in {scope, None}
    BY <1>1 DEF Convert, ConvertAny, ConvertOwn, Concerns
  <2>2. AsOfScope(e).session \in Sessions \cup {None} /\ e.session \in Sessions \cup {None}
    BY <1>1 DEF AsOfScope
  <2>3. \/ UNCHANGED <<watch, event>>
        \/ /\ watch' = "sending" /\ event' \in PluginEvent
           /\ event'.type \in {"directory.reconciled", "index.changed", "message"}
    BY <2>1, <2>2 DEF Emit, sessionIndexEvent, convertSessionMessageEvent, Plugin, PluginEvent
  <2>4. \A a : e # Requested(a) /\ e # Resolved(a)
    BY <1>1 DEF Requested, Resolved
  <2> QED
    BY <2>3, <2>4 DEF Turns
<1>2. CASE e \in [event : {"agent"}, session : Sessions \cup {None}, phase : Phases]
  <2>1. \/ UNCHANGED <<watch, event>>
        \/ EmitWithDetail(runEvent(e)) /\ e.session # None
        \/ EmitWithDetail(runEvent(AsOfScope(e))) /\ scope # None /\ Concerns(e)
    BY <1>2 DEF Convert, ConvertAny, ConvertOwn
  <2>2. \/ UNCHANGED <<watch, event>>
        \/ /\ watch' = "describing" /\ event' \in PluginEvent /\ event'.snapshot \in Snapshots
           /\ event'.type = "run"
    BY <1>2, <2>1, RunEventTypes DEF EmitWithDetail, AsOfScope, Concerns
  <2> QED
    BY <1>2, <2>2 DEF Turns, Requested, Resolved
<1>3. CASE e \in [event : {"approval.requested", "approval.resolved"}, approval : Approvals]
  <2> DEFINE a == e.approval
  <2>0. /\ a \in Approvals
        /\ e.event = "approval.requested" => e = Requested(a)
        /\ e.event = "approval.resolved" => e = Resolved(a)
    BY <1>3 DEF Requested, Resolved
  <2>1. \/ UNCHANGED <<watch, event>> /\ (scope # None \/ ~Routable(a))
        \/ e = Requested(a) /\ Routable(a) /\ EmitWithDetail(approvalRequiredEvent(a))
        \/ e = Resolved(a) /\ Routable(a) /\ Emit(approvalResolvedEvent(a))
    BY <1>3, <2>0 DEF Convert, ConvertAny, ConvertOwn, Concerns, Routable
  <2>2. \A b \in Approvals : e \in {Requested(b), Resolved(b)} => b = a
    BY <1>3 DEF Requested, Resolved
  <2>3. Requested(a) # Resolved(a)
    BY DEF Requested, Resolved
  <2>4. CASE UNCHANGED <<watch, event>> /\ (scope # None \/ ~Routable(a))
    BY <2>2, <2>4 DEF Turns
  <2>5. CASE e = Requested(a) /\ Routable(a) /\ EmitWithDetail(approvalRequiredEvent(a))
    BY <2>0, <2>2, <2>3, <2>5, ApprovalEventTypes
       DEF Turns, EmitWithDetail, approvalRequiredEvent, Plugin
  <2>6. CASE e = Resolved(a) /\ Routable(a) /\ Emit(approvalResolvedEvent(a))
    BY <2>0, <2>2, <2>3, <2>6, ApprovalEventTypes
       DEF Turns, Emit, approvalResolvedEvent, Plugin
  <2> QED
    BY <2>1, <2>4, <2>5, <2>6
<1> QED
  BY <1>1, <1>2, <1>3 DEF GatewayEvent
-----------------------------------------------------------------------------
\* The events that announce a subscription's beginning and its end.
LEMMA NoticeTypes ==
  ASSUME NEW type \in {"directory.reconciled", "subscription.error"}, NEW status \in {"failed", None}
  PROVE  /\ Plugin(type, None, None, status, None) \in PluginEvent
         /\ Plugin(type, None, None, status, None).type = type
BY DEF Plugin, PluginEvent

\* A list of pending approvals names all of them.
LEMMA ListingsName ==
  ASSUME NEW S \in SUBSET Approvals, NEW q \in Listings(S)
  PROVE  /\ q \in Seq(Approvals)
         /\ \A i \in DOMAIN q : q[i] \in S
         /\ \A a \in S : \E i \in DOMAIN q : q[i] = a
<1>1. IsFiniteSet(S)
  BY FS_Subset
<1> DEFINE n == Cardinality(S)
<1>2. n \in Nat
  BY <1>1, FS_CardinalityType
<1>3. q \in [1 .. n -> S] /\ \A i, j \in DOMAIN q : q[i] = q[j] => i = j
  BY DEF Listings
<1>4. IsFiniteSet(1 .. n) /\ Cardinality(1 .. n) = n
  BY <1>2, FS_Interval
<1>5. q \in Injection(1 .. n, S)
  BY <1>3 DEF Injection, IsInjective
<1>6. q \in Surjection(1 .. n, S)
  BY <1>1, <1>4, <1>5, FS_Injection
<1>7. \A a \in S : \E i \in 1 .. n : q[i] = a
  BY <1>6 DEF Surjection
<1>8. q \in Seq(Approvals)
  BY <1>2, <1>3
<1> QED
  BY <1>3, <1>7, <1>8

\* What becomes of the event while its snapshot is built.
LEMMA BlockKeeps ==
  ASSUME event \in PluginEvent, event.snapshot \in Snapshots, NEW a \in Approvals, BlockOn(a)
  PROVE  /\ event' \in PluginEvent /\ event'.snapshot \in Snapshots
         /\ event'.type = event.type /\ event'.approval = event.approval
         /\ event'.session = event.session
<1> DEFINE snap == buildDetailSnapshotWithRun(event.snapshot.run, event.snapshot.blockedOn, a)
<1>1. event.snapshot.run \in Runs /\ event.snapshot.blockedOn \in Approvals \cup {None}
  BY DEF Snapshots, Runs
<1>2. snap \in Snapshots
  BY <1>1, SnapshotTypes DEF buildDetailSnapshotWithRun, Runs
<1>3. event' = [event EXCEPT !.snapshot = snap]
  BY DEF BlockOn
<1> QED
  BY <1>2, <1>3 DEF PluginEvent

\* A broadcast of the Gateway keeps types and places.
LEMMA BroadcastTypes ==
  ASSUME TypeOK, PlacesFit, NEW e \in GatewayEvent, Broadcast(e),
         approval' \in [Approvals -> {"unborn", "pending", "resolved"}]
  PROVE  TypeOK' /\ PlacesFit'
<1>1. ConnectionTypeOK' /\ queue' \in Seq(GatewayEvent)
  BY ReceiveTypes DEF TypeOK, Broadcast
<1>2. broadcasts' \in 0 .. MaxEvents
  BY DEF TypeOK, Broadcast
<1> QED
  BY <1>1, <1>2 DEF TypeOK, PlacesFit, Holds, Broadcast, watchVars, hubVars

\* So does every step of the Gateway and of the network.
LEMMA GatewayTypes ==
  ASSUME TypeOK, PlacesFit, GatewayStep
  PROVE  TypeOK' /\ PlacesFit'
<1>1. ASSUME NEW a \in Approvals, RequestApproval(a) PROVE TypeOK' /\ PlacesFit'
  BY <1>1, BroadcastTypes DEF RequestApproval, TypeOK, GatewayEvent
<1>2. ASSUME NEW a \in Approvals, ResolveApproval(a) PROVE TypeOK' /\ PlacesFit'
  BY <1>2, BroadcastTypes DEF ResolveApproval, TypeOK, GatewayEvent
<1>3. ASSUME NEW e \in GatewayEvent, SessionEvent(e) PROVE TypeOK' /\ PlacesFit'
  BY <1>3, BroadcastTypes DEF SessionEvent, TypeOK
<1>4. CASE ConnectionLost
  BY <1>4 DEF ConnectionLost, Lose, TypeOK, PlacesFit, Holds, gatewayVars, watchVars, hubVars,
              ConnectionTypeOK, streamVars
<1> QED
  BY <1>1, <1>2, <1>3, <1>4 DEF GatewayStep

\* What a subscription starts with, of either kind.
LEMMA OpenTypes ==
  ASSUME TypeOK, NEW s \in Sessions \cup {None}, Open(s)
  PROVE  /\ ConnectionTypeOK' /\ queue' = <<>> /\ queue' \in Seq(GatewayEvent)
         /\ subscriptions' \in 0 .. MaxSubscriptions
         /\ resolvedBefore' \subseteq Approvals
         /\ scope' \in Sessions \cup {None}
         /\ todo' = <<>> /\ todo' \in Seq(Approvals) /\ cancelled' = FALSE /\ listFailed' = FALSE
         /\ UNCHANGED <<approval, broadcasts, out, shown, detail, last>>
<1>1. subscriptions' \in 0 .. MaxSubscriptions
  BY DEF Open, TypeOK
<1> QED
  BY <1>1, DialTypes DEF Open, gatewayVars

\* Every step of the Hub keeps types and places.
LEMMA HubTypes ==
  ASSUME TypeOK, PlacesFit,
         SubscribePlugin \/ (\E s \in Sessions : Subscribe(s)) \/ Cancel \/ HubReceives
  PROVE  TypeOK' /\ PlacesFit'
<1> USE DEF PlacesFit, Holds, Building, Listing
<1>1. CASE SubscribePlugin
  <2>1. event' \in PluginEvent /\ event'.type = "directory.reconciled"
    BY <1>1, NoticeTypes DEF SubscribePlugin
  <2>2. watch' = "sending" /\ after' = "listingExec" /\ Open(None)
    BY <1>1 DEF SubscribePlugin
  <2>3. /\ ConnectionTypeOK' /\ queue' \in Seq(GatewayEvent)
        /\ subscriptions' \in 0 .. MaxSubscriptions
        /\ resolvedBefore' \subseteq Approvals
        /\ scope' \in Sessions \cup {None}
        /\ todo' = <<>> /\ todo' \in Seq(Approvals) /\ cancelled' = FALSE /\ listFailed' = FALSE
        /\ UNCHANGED <<approval, broadcasts, out, shown, detail, last>>
    BY <2>2, OpenTypes
  <2>4. TypeOK'
    BY <2>1, <2>2, <2>3 DEF TypeOK
  <2> QED
    BY <2>1, <2>2, <2>3, <2>4
<1>2. ASSUME NEW s \in Sessions, Subscribe(s) PROVE TypeOK' /\ PlacesFit'
  <2>1. watch' = "waiting" /\ after' = "waiting" /\ event' = None /\ Open(s)
    BY <1>2 DEF Subscribe
  <2>3. /\ ConnectionTypeOK' /\ queue' \in Seq(GatewayEvent)
        /\ subscriptions' \in 0 .. MaxSubscriptions
        /\ resolvedBefore' \subseteq Approvals
        /\ scope' \in Sessions \cup {None}
        /\ todo' = <<>> /\ todo' \in Seq(Approvals) /\ cancelled' = FALSE /\ listFailed' = FALSE
        /\ UNCHANGED <<approval, broadcasts, out, shown, detail, last>>
    BY <2>1, OpenTypes
  <2>4. TypeOK'
    BY <2>1, <2>3 DEF TypeOK
  <2> QED
    BY <2>1, <2>3, <2>4
<1>3. CASE Cancel
  BY <1>3 DEF Cancel, TypeOK, gatewayVars, connectionVars, streamVars, watchVars, hubVars,
              ConnectionTypeOK
<1>4. CASE HubReceives
  <2>1. Head(out) \in PluginEvent /\ out' \in Seq(PluginEvent) /\ Len(out') <= OutCapacity
    BY <1>4 DEF HubReceives, TypeOK
  <2>2. shown' \in [Approvals -> {"never", "open", "closed"}]
    BY <1>4 DEF HubReceives, TypeOK
  <2>3. detail' \in [Sessions -> Snapshots \cup {None}]
    BY <1>4, <2>1 DEF HubReceives, TypeOK, PluginEvent
  <2> QED
    BY <1>4, <2>1, <2>2, <2>3
       DEF HubReceives, TypeOK, gatewayVars, connectionVars, streamVars, watchVars,
           ConnectionTypeOK
<1> QED
  BY <1>1, <1>2, <1>3, <1>4

\* Every step of the subscription goroutine keeps types and places.
LEMMA WatchTypes ==
  ASSUME TypeOK, PlacesFit, WatchStep \/ IdleTimeout
  PROVE  TypeOK' /\ PlacesFit'
<1> USE DEF PlacesFit, Holds, Building, Listing
<1>1. CASE SendPluginEvent
  <2>0. out \in Seq(PluginEvent) /\ Len(out) <= OutCapacity /\ event \in PluginEvent
    BY <1>1 DEF SendPluginEvent, TypeOK
  <2>1. out' \in Seq(PluginEvent) /\ Len(out') <= OutCapacity
    <3>1. CASE out' = out
      BY <2>0, <3>1
    <3>2. CASE Len(out) < OutCapacity /\ out' = Append(out, event)
      <4>1. Append(out, event) \in Seq(PluginEvent) /\ Len(Append(out, event)) = Len(out) + 1
        BY <2>0
      <4>2. Len(out) \in Nat
        BY <2>0
      <4> QED
        BY <3>2, <4>1, <4>2
    <3> QED
      BY <1>1, <3>1, <3>2 DEF SendPluginEvent
  <2>2. ConnectionTypeOK'
    BY <1>1 DEF SendPluginEvent, TypeOK, Return, ConnectionTypeOK, streamVars
  <2> QED
    BY <1>1, <2>1, <2>2 DEF SendPluginEvent, TypeOK, Return, gatewayVars, hubVars
<1>2. ASSUME NEW kind, NEW next \in {"listingPlugin", "replaying"}, ListApprovals(kind, next),
             watch \in {"listingExec", "listingPlugin"}
      PROVE  TypeOK' /\ PlacesFit'
  <2>1. PendingOf(kind) \in SUBSET Approvals
    BY DEF PendingOf
  <2>2. todo' \in Seq(Approvals)
    <3>1. todo \in Seq(Approvals)
      BY DEF TypeOK
    <3>2. ASSUME NEW q \in Listings(PendingOf(kind)), todo' = todo \o q
          PROVE  todo' \in Seq(Approvals)
      <4>1. q \in Seq(Approvals)
        BY <2>1, ListingsName
      <4> QED
        BY <3>1, <3>2, <4>1
    <3> QED
      BY <1>2, <3>1, <3>2 DEF ListApprovals
  <2> QED
    BY <1>2, <2>2 DEF ListApprovals, TypeOK, gatewayVars, connectionVars, streamVars, hubVars,
                      ConnectionTypeOK
<1>3. CASE ReplayApproval
  <2>1. Head(todo) \in Approvals /\ todo' \in Seq(Approvals)
    BY <1>3 DEF ReplayApproval, TypeOK
  <2>2. \/ UNCHANGED <<watch, event, after>>
        \/ /\ watch' = "describing" /\ after' = "replaying" /\ event' \in PluginEvent
           /\ event'.snapshot \in Snapshots /\ event'.type = "approval.required"
    BY <1>3, <2>1, ApprovalEventTypes
       DEF ReplayApproval, EmitWithDetail, approvalRequiredEvent, Plugin
  <2> QED
    BY <1>3, <2>1, <2>2
       DEF ReplayApproval, TypeOK, gatewayVars, connectionVars, streamVars, hubVars,
                            ConnectionTypeOK
<1>4. CASE EnterLoop
  BY <1>4
     DEF EnterLoop, TypeOK, gatewayVars, connectionVars, streamVars, hubVars, ConnectionTypeOK
<1>5. CASE NextEvent
  <2>1. ConnectionTypeOK' /\ queue' \in Seq(GatewayEvent) /\ NextInLine \in GatewayEvent
    BY <1>5, TakeTypes DEF NextEvent, TypeOK
  <2>2. Turns(NextInLine)
    BY <1>5, <2>1, ConvertTurns DEF NextEvent, TypeOK
  <2> QED
    BY <1>5, <2>1, <2>2 DEF NextEvent, TypeOK, gatewayVars, hubVars, Turns
<1>6. ASSUME NEW why \in ConnectionFailures \cup {"gaveUp"}, EventStreamEnds(why)
      PROVE  TypeOK' /\ PlacesFit'
  <2>1. ConnectionTypeOK'
    BY <1>6, EndTypes DEF EventStreamEnds, Return, TypeOK, Endings
  <2>2. \/ watch' = "closed" /\ UNCHANGED <<event, after>>
        \/ /\ watch' = "sending" /\ after' = "closed" /\ event' \in PluginEvent
           /\ event'.type = "subscription.error"
    BY <1>6, NoticeTypes DEF EventStreamEnds, Return, Emit
  <2> QED
    BY <1>6, <2>1, <2>2 DEF EventStreamEnds, TypeOK, gatewayVars, hubVars
<1>7. CASE DescribeSession
  BY <1>7
     DEF DescribeSession, DetailRequest, TypeOK, gatewayVars, connectionVars, streamVars,
         hubVars,
              ConnectionTypeOK
<1>8. ASSUME NEW kind, NEW next \in {"checkingPlugin", "sending"}, CheckApprovals(kind, next),
             watch \in {"checkingExec", "checkingPlugin"}
      PROVE  TypeOK' /\ PlacesFit'
  <2>1. /\ event' \in PluginEvent /\ event'.snapshot \in Snapshots
        /\ event'.type = event.type
    BY <1>8, BlockKeeps DEF CheckApprovals, PendingOf
  <2> QED
    BY <1>8, <2>1 DEF CheckApprovals, TypeOK, gatewayVars, connectionVars, streamVars, hubVars,
                      ConnectionTypeOK
<1> QED
  BY <1>1, <1>2, <1>3, <1>4, <1>5, <1>6, <1>7, <1>8
     DEF WatchStep, ListExecApprovals, ListPluginApprovals, ConnectionEnds, ContextEnds,
         IdleTimeout,
      CheckExecApprovals, CheckPluginApprovals, Failed
-----------------------------------------------------------------------------
\* A plugin event announces an approval, or its end, by its type and its name.
LEMMA KindsOfEvents ==
  ASSUME NEW e \in PluginEvent, NEW a \in Approvals
  PROVE  /\ e \in Openings(a) <=> e.type = "approval.required" /\ e.approval = a
         /\ e \in Closings(a) <=> e.type = "approval.resolve" /\ e.approval = a
BY DEF Openings, Closings, OfApproval, PluginEvent, Statuses

\* Requests and resolutions of approvals are told apart in the buffer.
LEMMA KindsOfBroadcasts ==
  ASSUME NEW a, NEW b
  PROVE  /\ Requested(a) # Resolved(b)
         /\ Requested(a) = Requested(b) => a = b
         /\ Resolved(a) = Resolved(b) => a = b
BY DEF Requested, Resolved

\* A broadcast about approval a moves it on; another one does not.
Moves(a, e) ==
  \/ approval'[a] = approval[a] /\ e \notin {Requested(a), Resolved(a)}
  \/ approval[a] = "unborn" /\ approval'[a] = "pending" /\ e = Requested(a)
  \/ approval[a] = "pending" /\ approval'[a] = "resolved" /\ e = Resolved(a)

\* A broadcast that goes with the step of its approval is behind nothing that it
\* must not follow.
LEMMA BroadcastTracks ==
  ASSUME TypeOK, NEW a \in Approvals, Tracked(a), NEW e \in GatewayEvent, Broadcast(e), Moves(a, e)
  PROVE  Tracked(a)'
<1>1. /\ UNCHANGED <<watch, todo, event, after, out, scope, shown, resolvedBefore, listFailed>>
      /\ Receive(e)
  BY DEF Broadcast, watchVars, hubVars
<1>2. \/ queue' = Append(queue, e) /\ connection' = connection
      \/ queue' = queue /\ connection' # "up"
  BY <1>1, ReceiveTypes DEF TypeOK
<1>3. \A T : Lacks(queue', T) <=> Lacks(queue, T) /\ (queue' = queue \/ e \notin T)
  <2>1. \A T : Lacks(Append(queue, e), T) <=> Lacks(queue, T) /\ e \notin T
    BY LacksAppend DEF TypeOK
  <2>2. Append(queue, e) # queue
    BY DEF TypeOK
  <2> QED
    BY <1>2, <2>1, <2>2
<1>4. NoneAfter(queue, {Requested(a)}, {Resolved(a)}) /\ (e = Requested(a) => Lacks(queue, {Resolved(a)}))
        => NoneAfter(queue', {Requested(a)}, {Resolved(a)})
  <2>1. queue \in Seq(GatewayEvent)
    BY DEF TypeOK
  <2>2. NoneAfter(queue, {Requested(a)}, {Resolved(a)}) /\ (e \in {Requested(a)} => Lacks(queue, {Resolved(a)}))
          => NoneAfter(Append(queue, e), {Requested(a)}, {Resolved(a)})
    BY <2>1, NoneAfterAppend
  <2> QED
    BY <1>2, <2>2
<1>5. approval[a] = "resolved" => approval'[a] = "resolved"
  BY DEF Moves
<1>6. Requested(a) # Resolved(a)
  BY KindsOfBroadcasts
<1>7. OrderKept(a)'
  BY <1>1, <1>3, <1>4, <1>6 DEF Tracked, OrderKept, Sealed, Holds, Moves
<1>8. ToldOfReal(a)'
  BY <1>1, <1>3, <1>6 DEF Tracked, ToldOfReal, Holds, Moves, Routable
<1>9. NothingMissed(a)'
  BY <1>1, <1>2, <1>3
     DEF Tracked, NothingMissed, OpeningComes, ClosingComes, Sealed, ToList, Holds,
                          Attached, Moves, Routable
<1> QED
  BY <1>7, <1>8, <1>9 DEF Tracked

\* The approvals raised and resolved at the Gateway are tracked.
LEMMA GatewayTracks ==
  ASSUME TypeOK, NEW a \in Approvals, Tracked(a), GatewayStep
  PROVE  Tracked(a)'
<1>1. ASSUME NEW b \in Approvals, RequestApproval(b) PROVE Tracked(a)'
  <2>1. Moves(a, Requested(b)) /\ Broadcast(Requested(b))
    BY <1>1, KindsOfBroadcasts DEF RequestApproval, Moves, Requested, TypeOK
  <2> QED
    BY <2>1, BroadcastTracks DEF Requested, GatewayEvent
<1>2. ASSUME NEW b \in Approvals, ResolveApproval(b) PROVE Tracked(a)'
  <2>1. Moves(a, Resolved(b)) /\ Broadcast(Resolved(b))
    BY <1>2, KindsOfBroadcasts DEF ResolveApproval, Moves, Resolved, TypeOK
  <2> QED
    BY <2>1, BroadcastTracks DEF Resolved, GatewayEvent
<1>3. ASSUME NEW e \in GatewayEvent, SessionEvent(e) PROVE Tracked(a)'
  <2>1. e # Requested(a) /\ e # Resolved(a)
    BY <1>3 DEF SessionEvent, Requested, Resolved
  <2> QED
    BY <1>3, <2>1, BroadcastTracks DEF SessionEvent, Moves
<1>4. CASE ConnectionLost
  BY <1>4
     DEF ConnectionLost, Lose, Tracked, OrderKept, Sealed, ToldOfReal, NothingMissed, Attached,
              Holds, gatewayVars, watchVars, hubVars, Routable
<1> QED
  BY <1>1, <1>2, <1>3, <1>4 DEF GatewayStep

\* A new subscription begins with everything pending still to list.
LEMMA OpenTracks ==
  ASSUME TypeOK, NEW a \in Approvals, Tracked(a), NEW s \in Sessions \cup {None}, Open(s),
         s = None => watch' = "sending" /\ after' = "listingExec",
         watch' = "sending" => event' \in PluginEvent /\ event'.type = "directory.reconciled",
         watch' \in {"sending", "waiting"}
  PROVE  Tracked(a)'
<1>1. /\ queue' = <<>> /\ todo' = <<>> /\ out = <<>> /\ out' = out
      /\ UNCHANGED <<approval, shown>>
      /\ scope' = s /\ resolvedBefore' = {b \in Approvals : approval[b] = "resolved"}
  BY DEF Open, Dial, gatewayVars
<1>2. ~Holds(Openings(a))' /\ ~Holds(Closings(a))'
  BY DEF Holds, Openings, Closings, OfApproval, Building
<1>3. OrderKept(a)'
  BY <1>1, <1>2, EmptyLacks DEF Tracked, OrderKept, Sealed
<1>4. ToldOfReal(a)'
  BY <1>1, <1>2, EmptyLacks DEF Tracked, ToldOfReal, Routable
<1>5. NothingMissed(a)'
  BY <1>1 DEF NothingMissed, OpeningComes, ToList, Attached
<1> QED
  BY <1>3, <1>4, <1>5 DEF Tracked

\* What the Hub reads moves from the channel to what it shows.
LEMMA ReadTracks ==
  ASSUME TypeOK, NEW a \in Approvals, Tracked(a), HubReceives
  PROVE  Tracked(a)'
<1> DEFINE e == Head(out)
<1>1. /\ e \in PluginEvent /\ out # <<>> /\ out' = Tail(out) /\ out \in Seq(PluginEvent)
      /\ UNCHANGED <<approval, queue, connection, watch, todo, event, after, scope, resolvedBefore,
                     listFailed>>
  BY DEF HubReceives, TypeOK, gatewayVars, connectionVars, watchVars
<1>2. \A T : Lacks(out, T) <=> e \notin T /\ Lacks(out', T)
  BY <1>1, LacksTail
<1>3. /\ NoneAfter(out, Openings(a), Closings(a)) => NoneAfter(out', Openings(a), Closings(a))
      /\ NoneAfter(out, Openings(a), Closings(a)) /\ e \in Closings(a) => Lacks(out', Openings(a))
  BY <1>1, NoneAfterTail
<1>4. /\ e \in Openings(a) => shown'[a] = "open"
      /\ e \in Closings(a) => shown'[a] = "closed"
      /\ e \notin Openings(a) \cup Closings(a) => shown'[a] = shown[a]
  <2>1. /\ e \in Openings(a) <=> e.type = "approval.required" /\ e.approval = a
        /\ e \in Closings(a) <=> e.type = "approval.resolve" /\ e.approval = a
    BY <1>1, KindsOfEvents
  <2> QED
    BY <2>1 DEF HubReceives, TypeOK
<1>5. e \in Openings(a) => e \notin Closings(a)
  BY DEF Openings, Closings, OfApproval
<1>6. OrderKept(a)'
  BY <1>1, <1>2, <1>3, <1>4, <1>5 DEF Tracked, OrderKept, Sealed, Holds
<1>7. ToldOfReal(a)'
  BY <1>1, <1>2, <1>4, <1>5 DEF Tracked, ToldOfReal, Holds, Routable
<1>8. NothingMissed(a)'
  BY <1>1, <1>2, <1>4, <1>5
     DEF Tracked, OrderKept, NothingMissed, OpeningComes, ClosingComes, Sealed, ToList,
                                Holds, Attached, Routable
<1> QED
  BY <1>6, <1>7, <1>8 DEF Tracked

\* What is sent moves from the goroutine's hand to the channel.
LEMMA SendTracks ==
  ASSUME TypeOK, PlacesFit, NEW a \in Approvals, Tracked(a), SendPluginEvent
  PROVE  Tracked(a)'
<1>1. /\ event \in PluginEvent /\ out \in Seq(PluginEvent) /\ watch = "sending"
      /\ UNCHANGED <<approval, queue, todo, after, scope, shown, resolvedBefore, listFailed>>
  BY DEF SendPluginEvent, TypeOK, PlacesFit, gatewayVars, hubVars
<1>2. \/ watch' = "closed" /\ connection' = "none"
      \/ watch' = after /\ connection' = connection
  BY DEF SendPluginEvent, Return
<1>3. ~Holds(Openings(a))' /\ ~Holds(Closings(a))'
  BY <1>1, <1>2 DEF Holds, Building, TypeOK
<1>4. \/ out' = out /\ watch' = "closed" /\ connection' = "none"
      \/ out' = Append(out, event)
  BY DEF SendPluginEvent, Return
<1>5. /\ \A T : Lacks(Append(out, event), T) <=> Lacks(out, T) /\ event \notin T
      /\ NoneAfter(out, Openings(a), Closings(a)) /\ (event \in Openings(a) => Lacks(out, Closings(a)))
           => NoneAfter(Append(out, event), Openings(a), Closings(a))
  BY <1>1, LacksAppend, NoneAfterAppend
<1>6. /\ Holds(Openings(a)) <=> event \in Openings(a)
      /\ Holds(Closings(a)) <=> event \in Closings(a)
      /\ event \in Closings(a) => todo = <<>> /\ event \notin Openings(a)
  <2>1. event \in Closings(a) => event.type = "approval.resolve" /\ event \notin Openings(a)
    BY <1>1, KindsOfEvents
  <2> QED
    BY <1>1, <2>1 DEF Holds, PlacesFit
<1>7. OrderKept(a)'
  BY <1>1, <1>3, <1>4, <1>5, <1>6, EmptyLacks DEF Tracked, OrderKept, Sealed
<1>8. ToldOfReal(a)'
  BY <1>1, <1>3, <1>4, <1>5, <1>6 DEF Tracked, ToldOfReal, Routable
<1>9. NothingMissed(a)'
  BY <1>1, <1>2, <1>4, <1>5, <1>6
     DEF Tracked, NothingMissed, OpeningComes, ClosingComes, Sealed, ToList,
                                       Attached, Routable
<1> QED
  BY <1>7, <1>8, <1>9 DEF Tracked

\* An approval that is still to list is in the list, unless the request failed.
LEMMA ListTracks ==
  ASSUME TypeOK, PlacesFit, NEW a \in Approvals, Tracked(a),
         ListExecApprovals \/ ListPluginApprovals
  PROVE  Tracked(a)'
<1>1. PICK kind \in {"exec", "plugin"}, next \in {"listingPlugin", "replaying"} :
        /\ ListApprovals(kind, next)
        /\ watch \in {"listingExec", "listingPlugin"}
        /\ watch = "listingExec" => kind = "exec" /\ next = "listingPlugin"
        /\ watch = "listingPlugin" => kind = "plugin"
  BY DEF ListExecApprovals, ListPluginApprovals
<1>2. /\ UNCHANGED <<approval, queue, connection, out, scope, shown, resolvedBefore>>
      /\ ~Holds(Openings(a)) /\ ~Holds(Openings(a))' /\ ~Holds(Closings(a)) /\ ~Holds(Closings(a))'
      /\ todo \in Seq(Approvals) /\ watch' = next
  BY <1>1 DEF ListApprovals, gatewayVars, connectionVars, hubVars, Holds, Building, TypeOK
<1>3. \/ todo' = todo /\ listFailed'
      \/ /\ ~Lacks(todo', {a}) <=> ~Lacks(todo, {a}) \/ a \in PendingOf(kind)
         /\ listFailed' = listFailed
  <2>1. ASSUME NEW q \in Listings(PendingOf(kind)), todo' = todo \o q
        PROVE  ~Lacks(todo', {a}) <=> ~Lacks(todo, {a}) \/ a \in PendingOf(kind)
    <3>1. PendingOf(kind) \in SUBSET Approvals
      BY DEF PendingOf
    <3>2. /\ q \in Seq(Approvals)
          /\ \A i \in DOMAIN q : q[i] \in PendingOf(kind)
          /\ \A b \in PendingOf(kind) : \E i \in DOMAIN q : q[i] = b
      BY <3>1, ListingsName
    <3>3. ~Lacks(q, {a}) <=> a \in PendingOf(kind)
      BY <3>2 DEF Lacks
    <3> QED
      BY <1>2, <2>1, <3>2, <3>3, LacksConcat
  <2> QED
    BY <1>1, <2>1 DEF ListApprovals
<1>4. /\ a \in PendingOf(kind) => approval[a] = "pending"
      /\ approval[a] = "pending" /\ KindOf[a] = kind => a \in PendingOf(kind)
      /\ KindOf[a] \in {"exec", "plugin"}
  BY DEF PendingOf
<1>5. OrderKept(a)'
  BY <1>2, <1>3, <1>4 DEF Tracked, OrderKept, Sealed
<1>6. ToldOfReal(a)'
  BY <1>2, <1>3, <1>4 DEF Tracked, ToldOfReal, Routable
<1>7. NothingMissed(a)'
  BY <1>1, <1>2, <1>3, <1>4
     DEF Tracked, NothingMissed, OpeningComes, ClosingComes, Sealed, ToList,
                                Attached, Routable
<1> QED
  BY <1>5, <1>6, <1>7 DEF Tracked

\* A listed approval moves to the goroutine's hand, in the order of the list.
LEMMA ReplayTracks ==
  ASSUME TypeOK, NEW a \in Approvals, Tracked(a), ReplayApproval
  PROVE  Tracked(a)'
<1>1. /\ UNCHANGED <<approval, queue, connection, out, scope, shown, resolvedBefore, listFailed>>
      /\ ~Holds(Openings(a)) /\ ~Holds(Closings(a)) /\ watch = "replaying"
      /\ Head(todo) \in Approvals
  BY DEF ReplayApproval, gatewayVars, connectionVars, hubVars, Holds, Building, TypeOK
<1>2. Lacks(todo, {a}) <=> Head(todo) # a /\ Lacks(todo', {a})
  BY LacksTail DEF ReplayApproval, TypeOK
<1>3. /\ Holds(Openings(a))' <=> Head(todo) = a /\ Routable(a)
      /\ ~Holds(Closings(a))'
  <2>1. /\ approvalRequiredEvent(Head(todo)) \in Openings(a) <=> Head(todo) = a
        /\ approvalRequiredEvent(Head(todo)) \notin Closings(a)
    BY <1>1, ApprovalEventTypes, KindsOfEvents DEF approvalRequiredEvent, Plugin
  <2> QED
    BY <1>1, <2>1 DEF ReplayApproval, EmitWithDetail, Holds, Building, Routable
<1>4. OrderKept(a)'
  BY <1>1, <1>2, <1>3 DEF Tracked, OrderKept, Sealed
<1>5. ToldOfReal(a)'
  BY <1>1, <1>2, <1>3 DEF Tracked, ToldOfReal, Routable
<1>6. NothingMissed(a)'
  BY <1>1, <1>2, <1>3 DEF Tracked, NothingMissed, OpeningComes, ClosingComes, Sealed, ToList,
                          Attached, Routable
<1> QED
  BY <1>4, <1>5, <1>6 DEF Tracked

\* An event of the buffer moves to the goroutine's hand or is dropped.
LEMMA TakeTracks ==
  ASSUME TypeOK, PlacesFit, NEW a \in Approvals, Tracked(a), NextEvent
  PROVE  Tracked(a)'
<1> DEFINE e == NextInLine
<1>1. /\ UNCHANGED <<approval, todo, out, scope, shown, resolvedBefore, listFailed>>
      /\ watch = "waiting" /\ todo = <<>>
      /\ ~Holds(Openings(a)) /\ ~Holds(Closings(a))
  BY DEF NextEvent, gatewayVars, hubVars, Holds, Building, PlacesFit
<1>2. e \in GatewayEvent /\ queue # <<>> /\ queue' = Tail(queue) /\ connection' = connection
  BY TakeTypes DEF NextEvent, TypeOK
<1>3. /\ \A T : Lacks(queue, T) <=> e \notin T /\ Lacks(queue', T)
      /\ NoneAfter(queue, {Requested(a)}, {Resolved(a)}) =>
           /\ NoneAfter(queue', {Requested(a)}, {Resolved(a)})
           /\ e = Resolved(a) => Lacks(queue', {Requested(a)})
  BY <1>2, LacksTail, NoneAfterTail DEF TypeOK, NextInLine
<1>4. Turns(e)
  BY <1>1, <1>2, ConvertTurns DEF NextEvent, TypeOK
<1>5. /\ Holds(Openings(a))' => e = Requested(a) /\ Routable(a)
      /\ Holds(Closings(a))' => e = Resolved(a) /\ Routable(a)
      /\ scope = None /\ Routable(a) /\ e = Requested(a) => Holds(Openings(a))'
      /\ scope = None /\ Routable(a) /\ e = Resolved(a) => Holds(Closings(a))'
  <2>1. Holds(Openings(a))' \/ Holds(Closings(a))' => watch' # watch /\ event' \in PluginEvent
    BY <1>1, <1>4 DEF Turns, Holds, Building
  <2>2. event' \in PluginEvent =>
          /\ event' \in Openings(a) <=> event'.type = "approval.required" /\ event'.approval = a
          /\ event' \in Closings(a) <=> event'.type = "approval.resolve" /\ event'.approval = a
    BY KindsOfEvents
  <2>3. Holds(Openings(a))' => e = Requested(a) /\ Routable(a)
    BY <1>4, <2>1, <2>2 DEF Turns, Holds
  <2>4. Holds(Closings(a))' => e = Resolved(a) /\ Routable(a)
    BY <1>4, <2>1, <2>2 DEF Turns, Holds
  <2> QED
    BY <1>4, <2>3, <2>4 DEF Turns, Holds, Building
<1>6. Requested(a) # Resolved(a)
  BY KindsOfBroadcasts
<1>7. OrderKept(a)'
  BY <1>1, <1>3, <1>5, <1>6, EmptyLacks DEF Tracked, OrderKept, Sealed
<1>8. ToldOfReal(a)'
  BY <1>1, <1>3, <1>5 DEF Tracked, ToldOfReal, Routable
<1>9. NothingMissed(a)'
  BY <1>1, <1>2, <1>3, <1>5
     DEF Tracked, NothingMissed, OpeningComes, ClosingComes, Sealed, ToList,
                                Attached, Routable
<1> QED
  BY <1>7, <1>8, <1>9 DEF Tracked

\* A step that leaves the pipeline as it is, but for the snapshot of the event.
LEMMA SamePipelineTracks ==
  ASSUME NEW a \in Approvals, Tracked(a),
         UNCHANGED <<approval, queue, todo, out, scope, shown, resolvedBefore>>,
         connection' \in {connection, "none"},
         listFailed' \in {listFailed, TRUE},
         Holds(Openings(a))' <=> Holds(Openings(a)),
         Holds(Closings(a))' <=> Holds(Closings(a)),
         connection' = connection => ~ToList(a)
  PROVE  Tracked(a)'
<1>1. OrderKept(a)'
  BY DEF Tracked, OrderKept, Sealed
<1>2. ToldOfReal(a)'
  BY DEF Tracked, ToldOfReal, Routable
<1>3. NothingMissed(a)'
  BY DEF Tracked, NothingMissed, OpeningComes, ClosingComes, Sealed, Attached, Routable
<1> QED
  BY <1>1, <1>2, <1>3 DEF Tracked

\* Every step of the subscription goroutine tracks approvals.
LEMMA WatchTracks ==
  ASSUME TypeOK, PlacesFit, NEW a \in Approvals, Tracked(a), WatchStep \/ IdleTimeout
  PROVE  Tracked(a)'
<1>1. CASE EnterLoop
  BY <1>1, SamePipelineTracks
     DEF EnterLoop, gatewayVars, connectionVars, hubVars, Holds, Building, ToList
<1>2. ASSUME NEW why, EventStreamEnds(why) PROVE Tracked(a)'
  <2>1. ~Holds(Openings(a)) /\ ~Holds(Closings(a)) /\ ~ToList(a)
    BY <1>2 DEF EventStreamEnds, Holds, Building, ToList
  <2>2. ~Holds(Openings(a))' /\ ~Holds(Closings(a))'
    <3>1. watch' = "closed" \/ event' = Plugin("subscription.error", None, None, "failed", None)
      BY <1>2 DEF EventStreamEnds, Return, Emit
    <3>2. /\ Plugin("subscription.error", None, None, "failed", None) \notin Openings(a)
          /\ Plugin("subscription.error", None, None, "failed", None) \notin Closings(a)
      BY NoticeTypes, KindsOfEvents
    <3> QED
      BY <3>1, <3>2 DEF Holds, Building
  <2>3. /\ UNCHANGED <<approval, queue, todo, out, scope, shown, resolvedBefore, listFailed>>
        /\ connection' \in {connection, "none"}
    BY <1>2 DEF EventStreamEnds, Return, gatewayVars, hubVars
  <2> QED
    BY <2>1, <2>2, <2>3, SamePipelineTracks
<1>3. CASE DescribeSession
  BY <1>3, SamePipelineTracks
     DEF DescribeSession, DetailRequest, gatewayVars, connectionVars, hubVars, Holds,
         Building, ToList
<1>4. ASSUME NEW kind, NEW next \in {"checkingPlugin", "sending"}, CheckApprovals(kind, next),
             watch \in {"checkingExec", "checkingPlugin"}
      PROVE  Tracked(a)'
  <2>1. /\ UNCHANGED <<approval, queue, connection, todo, out, scope, shown, resolvedBefore>>
        /\ listFailed' \in {listFailed, TRUE}
        /\ watch' \in {"checkingPlugin", "sending"}
        /\ event' = event \/ (\E b \in Approvals : BlockOn(b))
    BY <1>4 DEF CheckApprovals, PendingOf, gatewayVars, connectionVars, hubVars
  <2>2. event \in PluginEvent /\ event.snapshot \in Snapshots
    BY <1>4 DEF PlacesFit, Building
  <2>3. /\ event' \in PluginEvent /\ event'.type = event.type /\ event'.approval = event.approval
    BY <2>1, <2>2, BlockKeeps
  <2>4. /\ event' \in Openings(a) <=> event \in Openings(a)
        /\ event' \in Closings(a) <=> event \in Closings(a)
    BY <2>2, <2>3, KindsOfEvents
  <2>5. /\ Holds(Openings(a))' <=> Holds(Openings(a))
        /\ Holds(Closings(a))' <=> Holds(Closings(a))
    BY <1>4, <2>1, <2>4 DEF Holds, Building
  <2>6. ~ToList(a)
    BY <1>4 DEF ToList
  <2> QED
    BY <2>1, <2>5, <2>6, SamePipelineTracks
<1> QED
  BY <1>1, <1>2, <1>3, <1>4, SendTracks, ListTracks, ReplayTracks, TakeTracks
     DEF WatchStep, ConnectionEnds, ContextEnds, IdleTimeout, CheckExecApprovals,
         CheckPluginApprovals

\* The invariant about approvals over every step.
LEMMA ApprovalInvKept ==
  ASSUME TypeOK, PlacesFit, ApprovalInv, [Next]_vars
  PROVE  ApprovalInv'
<1> SUFFICES ASSUME NEW a \in Approvals, Tracked(a)
             PROVE  Tracked(a)'
  BY DEF ApprovalInv
<1>1. CASE UNCHANGED vars
  BY <1>1 DEF vars, gatewayVars, connectionVars, watchVars, hubVars, Tracked, OrderKept, Sealed,
              ToldOfReal, NothingMissed, Attached, OpeningComes, ClosingComes, ToList, Holds,
              Routable
<1>2. CASE SubscribePlugin
  <2>1. /\ Open(None) /\ watch' = "sending" /\ after' = "listingExec"
        /\ event' \in PluginEvent /\ event'.type = "directory.reconciled"
    BY <1>2, NoticeTypes DEF SubscribePlugin
  <2> QED
    BY <2>1, OpenTracks
<1>3. ASSUME NEW s \in Sessions, Subscribe(s) PROVE Tracked(a)'
  BY <1>3, OpenTracks DEF Subscribe
<1>4. CASE Cancel
  BY <1>4
     DEF Cancel, gatewayVars, connectionVars, watchVars, hubVars, Tracked, OrderKept, Sealed,
              ToldOfReal, NothingMissed, Attached, OpeningComes, ClosingComes, ToList, Holds,
              Routable
<1> QED
  BY <1>1, <1>2, <1>3, <1>4, GatewayTracks, ReadTracks, WatchTracks DEF Next

\* The end of a subscription and its announcement, over every step.
LEMMA AnnouncedKept ==
  ASSUME TypeOK, PlacesFit, Announced, [Next]_vars
  PROVE  Announced'
<1> USE DEF Announced
<1>1. CASE UNCHANGED <<watch, cancelled, out, last>>
  BY <1>1
<1>2. CASE watch' # "closed" \/ cancelled'
  BY <1>2
<1>3. CASE HubReceives
  <2>1. /\ UNCHANGED <<watch, cancelled>> /\ out # <<>> /\ out \in Seq(PluginEvent)
        /\ out' = Tail(out) /\ last' = Head(out).type
    BY <1>3 DEF HubReceives, watchVars, TypeOK
  <2>2. \/ Tail(out) = <<>> /\ Head(out) = out[Len(out)]
        \/ Tail(out) # <<>> /\ Tail(out)[Len(Tail(out))] = out[Len(out)]
    BY <2>1, TailLast
  <2> QED
    BY <2>1, <2>2
<1>4. CASE SendPluginEvent
  <2>1. CASE watch' = "closed" /\ ~cancelled'
    <3>1. after = "closed" /\ out' = Append(out, event) /\ out \in Seq(PluginEvent)
      BY <1>4, <2>1 DEF SendPluginEvent, Return, TypeOK
    <3>2. event.type = "subscription.error" /\ event \in PluginEvent
      BY <1>4, <3>1 DEF SendPluginEvent, PlacesFit
    <3>3. Append(out, event) # <<>> /\ Append(out, event)[Len(Append(out, event))] = event
      BY <3>1, <3>2
    <3> QED
      BY <3>1, <3>2, <3>3
  <2> QED
    BY <1>2, <2>1
<1>5. ASSUME NEW why, EventStreamEnds(why) PROVE Announced'
  BY <1>5, <1>2 DEF EventStreamEnds, Return, Emit
<1>6. CASE GatewayStep
  BY <1>1, <1>6
     DEF GatewayStep, RequestApproval, ResolveApproval, SessionEvent, Broadcast, ConnectionLost,
                    watchVars, hubVars
<1>7. CASE SubscribePlugin \/ (\E s \in Sessions : Subscribe(s)) \/ Cancel
  BY <1>2, <1>7 DEF SubscribePlugin, Subscribe, Cancel
<1>8. CASE \/ ListExecApprovals \/ ListPluginApprovals \/ ReplayApproval \/ EnterLoop \/ NextEvent
           \/ DescribeSession \/ CheckExecApprovals \/ CheckPluginApprovals
  <2>1. watch' # "closed"
    <3>1. CASE NextEvent
      <4>1. NextInLine \in GatewayEvent /\ watch = "waiting"
        BY <3>1, TakeTypes DEF NextEvent, TypeOK
      <4>2. Turns(NextInLine)
        BY <3>1, <4>1, ConvertTurns DEF NextEvent, TypeOK
      <4> QED
        BY <4>1, <4>2 DEF Turns
    <3> QED
      BY <1>8, <3>1
         DEF ListExecApprovals, ListPluginApprovals, ListApprovals, ReplayApproval,
             EmitWithDetail, EnterLoop,
          DescribeSession, DetailRequest, CheckExecApprovals, CheckPluginApprovals,
          CheckApprovals
  <2> QED
    BY <1>2, <2>1
<1> QED
  BY <1>1, <1>3, <1>4, <1>5, <1>6, <1>7, <1>8
     DEF Next, WatchStep, ConnectionEnds, ContextEnds, IdleTimeout, vars, watchVars, hubVars

\* The invariant at the start.
LEMMA Initially == Init => IInv
<1> SUFFICES ASSUME Init PROVE IInv
  OBVIOUS
<1>1. TypeOK
  <2>1. /\ <<>> \in Seq(GatewayEvent) /\ <<>> \in Seq(Approvals) /\ <<>> \in Seq(PluginEvent)
        /\ Len(<<>>) = 0
    OBVIOUS
  <2>2. ConnectionTypeOK
    BY <2>1 DEF Init, NoConnection, StreamInit, ConnectionTypeOK
  <2>3. /\ approval \in [Approvals -> {"unborn", "pending", "resolved"}]
        /\ shown \in [Approvals -> {"never", "open", "closed"}]
        /\ detail \in [Sessions -> Snapshots \cup {None}]
    BY DEF Init
  <2>4. queue = <<>> /\ todo = <<>> /\ out = <<>> /\ event = None
    BY DEF Init, NoConnection
  <2>5. /\ broadcasts \in 0 .. MaxEvents /\ subscriptions \in 0 .. MaxSubscriptions
        /\ Len(out) <= OutCapacity
    BY <2>1, <2>4 DEF Init
  <2> QED
    BY <2>1, <2>2, <2>3, <2>4, <2>5 DEF Init, TypeOK
<1>2. PlacesFit /\ Announced
  BY DEF Init, PlacesFit, Announced, Holds, Building, Listing
<1>3. ASSUME NEW a \in Approvals PROVE Tracked(a)
  <2>1. Lacks(queue, {Requested(a)}) /\ Lacks(queue, {Resolved(a)}) /\ Lacks(todo, {a})
        /\ Lacks(out, Openings(a)) /\ Lacks(out, Closings(a))
        /\ NoneAfter(queue, {Requested(a)}, {Resolved(a)}) /\ NoneAfter(out, Openings(a), Closings(a))
    BY EmptyLacks DEF Init, NoConnection
  <2>2. ~Holds(Openings(a)) /\ ~Holds(Closings(a)) /\ shown[a] = "never" /\ connection = "none"
    BY DEF Init, NoConnection, Holds, Building
  <2> QED
    BY <2>1, <2>2 DEF Tracked, OrderKept, Sealed, ToldOfReal, NothingMissed, Attached
<1> QED
  BY <1>1, <1>2, <1>3 DEF IInv, ApprovalInv

\* The invariant over every step.
LEMMA InvKept ==
  ASSUME IInv, [Next]_vars
  PROVE  IInv'
<1>1. TypeOK' /\ PlacesFit'
  <2>1. CASE UNCHANGED vars
    BY <2>1
       DEF IInv, TypeOK, PlacesFit, Holds, ConnectionTypeOK, vars, gatewayVars,
           connectionVars, streamVars,
                watchVars, hubVars
  <2> QED
    BY <2>1, GatewayTypes, HubTypes, WatchTypes DEF IInv, Next
<1> QED
  BY <1>1, ApprovalInvKept, AnnouncedKept DEF IInv

\* SubscribePlugin and Subscribe (discovery.go): on its way from the Gateway
\* to the Hub no request of an approval is behind its resolution, and while a
\* connection lives none of either is lost.
THEOREM InductiveInvariant == Spec => []IInv
<1>1. IInv /\ [Next]_vars => IInv'
  BY InvKept
<1> QED
  BY <1>1, Initially, PTL DEF Spec

\* The channels stay within their capacities and everything in them is an
\* event of the protocol.
THEOREM TypeCorrect == Spec => []TypeOK
<1>1. IInv => TypeOK
  BY DEF IInv
<1> QED
  BY <1>1, InductiveInvariant, PTL

\* sendPluginEvent, SubscribePlugin (discovery.go): whatever interleaves, a
\* caught-up Hub shows the pending approvals as open and no resolved one that
\* was resolved during its subscription.
THEOREM HubShowsPending == Spec => []HubConverges
<1>1. IInv => HubConverges
  <2> SUFFICES ASSUME IInv, CaughtUp, NEW a \in Approvals
               PROVE  /\ ~listFailed /\ approval[a] = "pending" /\ Routable(a) => shown[a] = "open"
                      /\ shown[a] = "open" => approval[a] = "pending" \/ a \in resolvedBefore
    BY DEF HubConverges
  <2>1. Attached /\ out = <<>> /\ todo = <<>> /\ watch = "waiting"
    BY DEF IInv, CaughtUp, Drained, Attached, PlacesFit
  <2>2. queue = <<>>
    <3>1. queue \in Seq(GatewayEvent) /\ accepted = taken + Len(queue) /\ taken = accepted /\ taken \in Nat
      BY DEF IInv, TypeOK, ConnectionTypeOK, CaughtUp, Drained
    <3> QED
      BY <3>1
  <2>3. /\ Lacks(queue, {Requested(a)}) /\ Lacks(queue, {Resolved(a)}) /\ Lacks(todo, {a})
        /\ Lacks(out, Openings(a)) /\ Lacks(out, Closings(a))
        /\ ~Holds(Openings(a)) /\ ~Holds(Closings(a)) /\ ~ToList(a)
    BY <2>1, <2>2, EmptyLacks DEF Holds, Building, ToList
  <2>4. Tracked(a) /\ approval[a] \in {"unborn", "pending", "resolved"}
    BY DEF IInv, ApprovalInv, TypeOK
  <2> QED
    BY <2>1, <2>3, <2>4
       DEF Tracked, NothingMissed, OpeningComes, ClosingComes, Sealed, ToldOfReal
<1> QED
  BY <1>1, InductiveInvariant, PTL

\* The Hub never sees an approval come back after it was resolved, although
\* the replay and the event loop may both report it.
NoResurrection ==
  [][\A a \in Approvals : shown[a] = "closed" => shown'[a] = "closed"]_vars

\* An approval that the Hub was told is resolved never comes back, whichever
\* of the lists, the replay and the event loop reports it, over any number of
\* subscriptions.
THEOREM NoneComesBack == Spec => NoResurrection
<1>1. IInv /\ [Next]_vars => [\A a \in Approvals : shown[a] = "closed" => shown'[a] = "closed"]_vars
  <2> SUFFICES ASSUME IInv, Next, NEW a \in Approvals, shown[a] = "closed"
               PROVE  shown'[a] = "closed"
    OBVIOUS
  <2>1. CASE HubReceives
    <3>1. Head(out) \in PluginEvent /\ out # <<>> /\ out \in Seq(PluginEvent)
      BY <2>1 DEF HubReceives, IInv, TypeOK
    <3>2. Head(out) \notin Openings(a)
      BY <3>1, LacksTail DEF IInv, ApprovalInv, Tracked, OrderKept
    <3>3. ~(Head(out).type = "approval.required" /\ Head(out).approval = a)
      BY <3>1, <3>2, KindsOfEvents
    <3> QED
      BY <2>1, <3>3 DEF HubReceives, IInv, TypeOK
  <2>2. CASE ~HubReceives
    <3>1. shown' = shown
      BY <2>2
         DEF Next, GatewayStep, RequestApproval, ResolveApproval, SessionEvent, Broadcast,
             ConnectionLost,
          SubscribePlugin, Subscribe, Open, Cancel, WatchStep, SendPluginEvent,
          ListExecApprovals,
          ListPluginApprovals, ListApprovals, ReplayApproval, EnterLoop, NextEvent,
          ConnectionEnds,
          ContextEnds, IdleTimeout, EventStreamEnds, DescribeSession, DetailRequest,
          CheckExecApprovals,
          CheckPluginApprovals, CheckApprovals, hubVars
    <3> QED
      BY <3>1
  <2> QED
    BY <2>1, <2>2
<1> QED
  BY <1>1, InductiveInvariant, PTL DEF Spec, NoResurrection

\* A subscription that ends by itself tells the Hub so.
THEOREM EndAnnounced == Spec => []EndIsAnnounced
<1>1. IInv => EndIsAnnounced
  BY DEF IInv, Announced, EndIsAnnounced
<1> QED
  BY <1>1, InductiveInvariant, PTL
-----------------------------------------------------------------------------
(* A session with a pending approval is shown as blocked.                  *)

IsBlocked(snap) == snap.run = WaitingRun /\ snap.locked

\* Event e brings the Hub a snapshot of session s.
Tells(e, s) == e.session = s /\ e.snapshot # None

\* With detail d of session s and events q under way, the Hub will end up with
\* a snapshot that shows s as blocked.
EndsBlocked(q, s, d) ==
  \/ \E i \in DOMAIN q :
       /\ Tells(q[i], s) /\ IsBlocked(q[i].snapshot)
       /\ \A j \in DOMAIN q : j > i => ~Tells(q[j], s)
  \/ (\A i \in DOMAIN q : ~Tells(q[i], s)) /\ d # None /\ IsBlocked(d)

\* The request of approval a has still to be seen.
Unseen(a) == ~Lacks(todo, {a}) \/ ~Lacks(queue, {Requested(a)}) \/ ToList(a)

InHand(s) == watch \in Building \cup {"sending"} /\ Tells(event, s)

\* Of a seen approval: a snapshot of its session that is being built will find
\* it, and one that was built has.
BlockShows(a) ==
  LET s == SessionOf[a] IN
  IF InHand(s)
    THEN /\ watch = "checkingPlugin" => KindOf[a] = "plugin"
         /\ watch = "sending" => IsBlocked(event.snapshot)
    ELSE EndsBlocked(out, s, detail[s])

LocksFollow(a) ==
  Attached /\ Routable(a) /\ ~listFailed /\ approval[a] = "pending" => Unseen(a) \/ BlockShows(a)

LInv == IInv /\ \A a \in Approvals : LocksFollow(a)
-----------------------------------------------------------------------------
USE NoneAssumption, SessionsAssumption, KindAssumption, SessionOfAssumption

\* An event at the end of the channel decides, if it is about s.
LEMMA EndsAppend ==
  ASSUME NEW S, NEW q \in Seq(S), NEW e \in S, NEW s, NEW d,
         IF Tells(e, s) THEN IsBlocked(e.snapshot) ELSE EndsBlocked(q, s, d)
  PROVE  EndsBlocked(Append(q, e), s, d)
<1>1. DOMAIN Append(q, e) = DOMAIN q \cup {Len(q) + 1}
  OBVIOUS
<1>2. Append(q, e)[Len(q) + 1] = e /\ \A i \in DOMAIN q : Append(q, e)[i] = q[i]
  OBVIOUS
<1>3. \A i \in DOMAIN q : i \in Nat /\ i < Len(q) + 1
  OBVIOUS
<1>4. CASE Tells(e, s)
  BY <1>1, <1>2, <1>3, <1>4 DEF EndsBlocked
<1>5. CASE ~Tells(e, s)
  BY <1>1, <1>2, <1>3, <1>5 DEF EndsBlocked
<1> QED
  BY <1>4, <1>5

\* One that is read becomes the detail, if it is about s.
LEMMA EndsTail ==
  ASSUME NEW S, NEW q \in Seq(S), q # <<>>, NEW s, NEW d, EndsBlocked(q, s, d)
  PROVE  EndsBlocked(Tail(q), s, IF Tells(Head(q), s) THEN Head(q).snapshot ELSE d)
<1>1. ASSUME NEW i \in DOMAIN q, i # 1
      PROVE  i - 1 \in DOMAIN Tail(q) /\ Tail(q)[i - 1] = q[i] /\ i \in Nat
  BY <1>1
<1>2. ASSUME NEW i \in DOMAIN Tail(q)
      PROVE  i + 1 \in DOMAIN q /\ Tail(q)[i] = q[i + 1] /\ i \in Nat /\ i > 0
  BY <1>2
<1>3. 1 \in DOMAIN q /\ Head(q) = q[1] /\ \A i \in DOMAIN q : i \in Nat
  OBVIOUS
<1>4. CASE \A i \in DOMAIN q : ~Tells(q[i], s)
  BY <1>2, <1>3, <1>4 DEF EndsBlocked
<1>5. ASSUME NEW i \in DOMAIN q, Tells(q[i], s), IsBlocked(q[i].snapshot),
             \A j \in DOMAIN q : j > i => ~Tells(q[j], s)
      PROVE  EndsBlocked(Tail(q), s, IF Tells(Head(q), s) THEN Head(q).snapshot ELSE d)
  <2>1. CASE i = 1
    <3>1. \A k \in DOMAIN Tail(q) : ~Tells(Tail(q)[k], s)
      BY <1>2, <1>3, <1>5, <2>1
    <3> QED
      BY <1>3, <1>5, <2>1, <3>1 DEF EndsBlocked, Tells
  <2>2. CASE i # 1
    <3>1. i - 1 \in DOMAIN Tail(q) /\ Tail(q)[i - 1] = q[i]
      BY <1>1, <2>2
    <3>2. \A k \in DOMAIN Tail(q) : k > i - 1 => ~Tells(Tail(q)[k], s)
      BY <1>2, <1>3, <1>5
    <3> QED
      BY <1>5, <3>1, <3>2 DEF EndsBlocked
  <2> QED
    BY <2>1, <2>2
<1> QED
  BY <1>4, <1>5 DEF EndsBlocked
-----------------------------------------------------------------------------
\* A step that leaves what is under way to the Hub as it is.
LEMMA SameLocks ==
  ASSUME NEW a \in Approvals, LocksFollow(a),
         UNCHANGED <<approval, out, detail, event, watch, scope>>,
         connection' = connection, listFailed' = listFailed,
         Unseen(a) => Unseen(a)'
  PROVE  LocksFollow(a)'
BY DEF LocksFollow, BlockShows, InHand, Attached, Routable

\* A broadcast leaves an approval unseen, or as it was.
LEMMA BroadcastLocks ==
  ASSUME TypeOK, NEW a \in Approvals, LocksFollow(a), NEW e \in GatewayEvent, Broadcast(e),
         Moves(a, e)
  PROVE  LocksFollow(a)'
<1>1. /\ UNCHANGED <<watch, todo, event, after, out, scope, detail, listFailed>>
      /\ Receive(e)
  BY DEF Broadcast, watchVars, hubVars
<1>2. \/ queue' = Append(queue, e) /\ connection' = connection
      \/ queue' = queue /\ connection' # "up"
  BY <1>1, ReceiveTypes DEF TypeOK
<1>3. connection' = "up" => \A T : ~Lacks(queue', T) <=> ~Lacks(queue, T) \/ e \in T
  <2>1. \A T : Lacks(Append(queue, e), T) <=> Lacks(queue, T) /\ e \notin T
    BY LacksAppend DEF TypeOK
  <2> QED
    BY <1>2, <2>1
<1> QED
  BY <1>1, <1>2, <1>3
     DEF LocksFollow, BlockShows, InHand, Attached, Routable, Unseen, ToList, Moves

\* An approval that is raised is unseen, whatever else the Gateway does.
LEMMA GatewayLocks ==
  ASSUME TypeOK, NEW a \in Approvals, LocksFollow(a), GatewayStep
  PROVE  LocksFollow(a)'
<1>1. ASSUME NEW b \in Approvals, RequestApproval(b) PROVE LocksFollow(a)'
  <2>1. Moves(a, Requested(b)) /\ Broadcast(Requested(b))
    BY <1>1, KindsOfBroadcasts DEF RequestApproval, Moves, Requested, TypeOK
  <2> QED
    BY <2>1, BroadcastLocks DEF Requested, GatewayEvent
<1>2. ASSUME NEW b \in Approvals, ResolveApproval(b) PROVE LocksFollow(a)'
  <2>1. Moves(a, Resolved(b)) /\ Broadcast(Resolved(b))
    BY <1>2, KindsOfBroadcasts DEF ResolveApproval, Moves, Resolved, TypeOK
  <2> QED
    BY <2>1, BroadcastLocks DEF Resolved, GatewayEvent
<1>3. ASSUME NEW e \in GatewayEvent, SessionEvent(e) PROVE LocksFollow(a)'
  <2>1. e # Requested(a) /\ e # Resolved(a)
    BY <1>3 DEF SessionEvent, Requested, Resolved
  <2> QED
    BY <1>3, <2>1, BroadcastLocks DEF SessionEvent, Moves
<1>4. CASE ConnectionLost
  BY <1>4 DEF ConnectionLost, Lose, LocksFollow, Attached
<1> QED
  BY <1>1, <1>2, <1>3, <1>4 DEF GatewayStep

\* What the Hub reads is the detail it then has.
LEMMA ReadLocks ==
  ASSUME TypeOK, NEW a \in Approvals, LocksFollow(a), HubReceives
  PROVE  LocksFollow(a)'
<1> DEFINE e == Head(out)
           s == SessionOf[a]
<1>1. /\ out # <<>> /\ out' = Tail(out) /\ out \in Seq(PluginEvent)
      /\ UNCHANGED <<approval, queue, connection, watch, todo, event, after, scope, listFailed>>
  BY DEF HubReceives, TypeOK, gatewayVars, connectionVars, watchVars
<1>2. s \in Sessions => detail'[s] = IF Tells(e, s) THEN e.snapshot ELSE detail[s]
  BY DEF HubReceives, TypeOK, Tells
<1>3. s \in Sessions /\ EndsBlocked(out, s, detail[s]) => EndsBlocked(out', s, detail'[s])
  BY <1>1, <1>2, EndsTail
<1>4. Routable(a) => s \in Sessions
  BY DEF Routable
<1> QED
  BY <1>1, <1>3, <1>4 DEF LocksFollow, BlockShows, InHand, Attached, Routable, Unseen, ToList

\* A snapshot that is sent is the last word about its session.
LEMMA SendLocks ==
  ASSUME TypeOK, PlacesFit, NEW a \in Approvals, LocksFollow(a), SendPluginEvent
  PROVE  LocksFollow(a)'
<1> DEFINE s == SessionOf[a]
<1>1. /\ event \in PluginEvent /\ out \in Seq(PluginEvent) /\ watch = "sending"
      /\ UNCHANGED <<approval, queue, todo, after, scope, detail, listFailed>>
  BY DEF SendPluginEvent, TypeOK, PlacesFit, gatewayVars, hubVars
<1>2. \/ connection' = "none"
      \/ out' = Append(out, event) /\ watch' = after /\ connection' = connection
  BY DEF SendPluginEvent, Return
<1>3. ASSUME out' = Append(out, event), watch' = after, connection' = connection
      PROVE  LocksFollow(a)'
  <2>1. ~InHand(s)'
    BY <1>3 DEF InHand, Building, TypeOK
  <2>2. BlockShows(a) => EndsBlocked(out', s, detail'[s])
    BY <1>1, <1>3, EndsAppend DEF BlockShows, InHand
  <2>3. Unseen(a) => Unseen(a)'
    BY <1>1, <1>3 DEF Unseen, ToList
  <2> QED
    BY <1>1, <1>3, <2>1, <2>2, <2>3 DEF LocksFollow, BlockShows, Attached, Routable
<1> QED
  BY <1>2, <1>3 DEF LocksFollow, Attached

\* An approval leaves the lists for the replay.
LEMMA ListLocks ==
  ASSUME TypeOK, PlacesFit, NEW a \in Approvals, LocksFollow(a),
         ListExecApprovals \/ ListPluginApprovals
  PROVE  LocksFollow(a)'
<1>1. PICK kind \in {"exec", "plugin"}, next \in {"listingPlugin", "replaying"} :
        /\ ListApprovals(kind, next)
        /\ watch \in {"listingExec", "listingPlugin"}
        /\ watch = "listingExec" => kind = "exec" /\ next = "listingPlugin"
        /\ watch = "listingPlugin" => kind = "plugin"
  BY DEF ListExecApprovals, ListPluginApprovals
<1>2. /\ UNCHANGED <<approval, queue, connection, out, scope, detail, event>>
      /\ todo \in Seq(Approvals) /\ watch' = next
      /\ \A s : ~InHand(s) /\ ~InHand(s)'
  BY <1>1 DEF ListApprovals, gatewayVars, connectionVars, hubVars, InHand, Building, TypeOK
<1>3. \/ listFailed'
      \/ /\ listFailed' = listFailed
         /\ ~Lacks(todo', {a}) <=> ~Lacks(todo, {a}) \/ a \in PendingOf(kind)
  <2>1. ASSUME NEW q \in Listings(PendingOf(kind)), todo' = todo \o q
        PROVE  ~Lacks(todo', {a}) <=> ~Lacks(todo, {a}) \/ a \in PendingOf(kind)
    <3>1. PendingOf(kind) \in SUBSET Approvals
      BY DEF PendingOf
    <3>2. /\ q \in Seq(Approvals)
          /\ \A i \in DOMAIN q : q[i] \in PendingOf(kind)
          /\ \A b \in PendingOf(kind) : \E i \in DOMAIN q : q[i] = b
      BY <3>1, ListingsName
    <3>3. ~Lacks(q, {a}) <=> a \in PendingOf(kind)
      BY <3>2 DEF Lacks
    <3> QED
      BY <1>2, <2>1, <3>2, <3>3, LacksConcat
  <2> QED
    BY <1>1, <2>1 DEF ListApprovals
<1>4. approval[a] = "pending" /\ Unseen(a) /\ ~listFailed' => Unseen(a)'
  BY <1>1, <1>2, <1>3 DEF Unseen, ToList, PendingOf
<1> QED
  BY <1>2, <1>3, <1>4 DEF LocksFollow, BlockShows, Attached, Routable

\* A replayed approval has its snapshot built.
LEMMA ReplayLocks ==
  ASSUME TypeOK, NEW a \in Approvals, LocksFollow(a), ReplayApproval
  PROVE  LocksFollow(a)'
<1> DEFINE b == Head(todo)
<1>1. /\ UNCHANGED <<approval, queue, connection, out, scope, detail, listFailed>>
      /\ watch = "replaying" /\ b \in Approvals
      /\ \A s : ~InHand(s)
  BY DEF ReplayApproval, gatewayVars, connectionVars, hubVars, InHand, Building, TypeOK
<1>2. Lacks(todo, {a}) <=> b # a /\ Lacks(todo', {a})
  BY LacksTail DEF ReplayApproval, TypeOK
<1>3. \/ Routable(b) /\ watch' = "describing" /\ event' = approvalRequiredEvent(b)
      \/ ~Routable(b) /\ watch' = watch /\ event' = event
  BY DEF ReplayApproval, EmitWithDetail, Routable
<1>4. approvalRequiredEvent(b).session = SessionOf[b] /\ approvalRequiredEvent(b).snapshot # None
  BY <1>1, ApprovalEventTypes DEF approvalRequiredEvent, Plugin
<1>5. CASE Routable(b) /\ watch' = "describing" /\ event' = approvalRequiredEvent(b)
  <2>1. /\ Routable(a) /\ b = a => InHand(SessionOf[a])'
        /\ InHand(SessionOf[a])' => BlockShows(a)'
    BY <1>4, <1>5 DEF InHand, Tells, Building, BlockShows
  <2>2. ~InHand(SessionOf[a])' /\ BlockShows(a) => BlockShows(a)'
    BY <1>1 DEF BlockShows
  <2>3. Unseen(a) /\ b # a => Unseen(a)'
    BY <1>1, <1>2 DEF Unseen, ToList
  <2> QED
    BY <1>1, <2>1, <2>2, <2>3 DEF LocksFollow, Attached, Routable
<1>6. CASE ~Routable(b) /\ watch' = watch /\ event' = event
  BY <1>1, <1>2, <1>6 DEF LocksFollow, Attached, Routable, BlockShows, InHand, Unseen, ToList
<1> QED
  BY <1>3, <1>5, <1>6

\* So has one whose event is taken from the buffer.
LEMMA TakeLocks ==
  ASSUME TypeOK, PlacesFit, NEW a \in Approvals, LocksFollow(a), NextEvent
  PROVE  LocksFollow(a)'
<1> DEFINE e == NextInLine
           s == SessionOf[a]
<1>1. /\ UNCHANGED <<approval, todo, out, scope, detail, listFailed>>
      /\ watch = "waiting" /\ ~InHand(s) /\ ~ToList(a)
  BY DEF NextEvent, gatewayVars, hubVars, InHand, Building, ToList
<1>2. e \in GatewayEvent /\ queue # <<>> /\ queue' = Tail(queue) /\ connection' = connection
  BY TakeTypes DEF NextEvent, TypeOK
<1>3. Lacks(queue, {Requested(a)}) <=> e # Requested(a) /\ Lacks(queue', {Requested(a)})
  BY <1>2, LacksTail DEF TypeOK, NextInLine
<1>4. Turns(e)
  BY <1>1, <1>2, ConvertTurns DEF NextEvent, TypeOK
<1>5. watch' = "sending" => event'.snapshot = None
  BY <1>1
     DEF NextEvent, Convert, ConvertAny, ConvertOwn, Emit, EmitWithDetail, sessionIndexEvent,
              convertSessionMessageEvent, approvalResolvedEvent, Plugin
<1>6. InHand(s)' => watch' = "describing"
  BY <1>1, <1>4, <1>5 DEF Turns, InHand, Tells, Building
<1>7. scope = None /\ Routable(a) /\ e = Requested(a) => InHand(s)'
  <2>1. ASSUME event' \in Openings(a), watch' = "describing", event'.snapshot \in Snapshots,
               e = Requested(a), scope = None, Routable(a)
        PROVE  InHand(s)'
    <3>1. EmitWithDetail(approvalRequiredEvent(a))
      BY <1>1, <2>1 DEF NextEvent, Convert, ConvertAny, Requested, Routable
    <3> QED
      BY <2>1, <3>1 DEF EmitWithDetail, approvalRequiredEvent, Plugin, InHand, Tells, Building
  <2> QED
    BY <1>1, <1>4, <2>1 DEF Turns
<1>8. BlockShows(a) \/ InHand(s)' => BlockShows(a)'
  BY <1>1, <1>6 DEF BlockShows
<1>9. Unseen(a) /\ e # Requested(a) => Unseen(a)'
  BY <1>1, <1>3 DEF Unseen, ToList
<1> QED
  BY <1>1, <1>2, <1>7, <1>8, <1>9 DEF LocksFollow, Attached, Routable

\* A list that is read finds a seen approval of its kind.
LEMMA CheckLocks ==
  ASSUME TypeOK, PlacesFit, NEW a \in Approvals, LocksFollow(a),
         CheckExecApprovals \/ CheckPluginApprovals
  PROVE  LocksFollow(a)'
<1> DEFINE s == SessionOf[a]
<1>1. PICK kind \in {"exec", "plugin"}, next \in {"checkingPlugin", "sending"} :
        /\ CheckApprovals(kind, next)
        /\ \/ watch = "checkingExec" /\ kind = "exec" /\ next = "checkingPlugin"
           \/ watch = "checkingPlugin" /\ kind = "plugin" /\ next = "sending"
  BY DEF CheckExecApprovals, CheckPluginApprovals
<1>2. /\ UNCHANGED <<approval, queue, connection, todo, after, out, scope, detail>>
      /\ event \in PluginEvent /\ event.snapshot \in Snapshots
  BY <1>1 DEF CheckApprovals, gatewayVars, connectionVars, hubVars, PlacesFit, Building
<1>3. Unseen(a) => Unseen(a)'
  BY <1>1, <1>2 DEF Unseen, ToList
<1>4. CASE listFailed'
  BY <1>4 DEF LocksFollow
<1>5. ASSUME NEW b \in Approvals, BlockOn(b), watch' = "sending", UNCHANGED listFailed
      PROVE  LocksFollow(a)'
  <2>1. event'.session = event.session /\ event'.snapshot \in Snapshots
    BY <1>2, <1>5, BlockKeeps
  <2>2. IsBlocked(event'.snapshot)
    <3>1. b # None
      BY <1>5
    <3>2. event'.snapshot = Snapshot(WaitingRun, b)
      BY <1>2, <1>5, <3>1 DEF BlockOn, buildDetailSnapshotWithRun, PluginEvent
    <3>3. isControlsLocked(WaitingRun) = TRUE
      BY DEF isControlsLocked, WaitingRun, Run
    <3>4. event'.snapshot.run = WaitingRun /\ event'.snapshot.locked = TRUE
      BY <3>2, <3>3 DEF Snapshot
    <3> QED
      BY <3>4 DEF IsBlocked
  <2>3. InHand(s)' <=> InHand(s)
    BY <1>1, <1>2, <1>5, <2>1 DEF InHand, Tells, Building
  <2>4. BlockShows(a) => BlockShows(a)'
    BY <1>2, <1>5, <2>2, <2>3 DEF BlockShows
  <2> QED
    BY <1>2, <1>3, <1>5, <2>4 DEF LocksFollow, Attached, Routable
<1>6. ASSUME {b \in PendingOf(kind) : SessionOf[b] = event.session} = {}, watch' = next,
             UNCHANGED <<event, listFailed>>
      PROVE  LocksFollow(a)'
  <2>1. InHand(s)' <=> InHand(s)
    BY <1>1, <1>6 DEF InHand, Building
  <2>2. InHand(s) /\ approval[a] = "pending" => KindOf[a] # kind
    BY <1>6 DEF InHand, Tells, PendingOf
  <2>3. approval[a] = "pending" /\ BlockShows(a) => BlockShows(a)'
    BY <1>1, <1>2, <1>6, <2>1, <2>2 DEF BlockShows
  <2> QED
    BY <1>2, <1>3, <1>6, <2>3 DEF LocksFollow, Attached, Routable
<1> QED
  BY <1>1, <1>4, <1>5, <1>6 DEF CheckApprovals, PendingOf

\* The invariant over every step.
LEMMA LocksKept ==
  ASSUME LInv, [Next]_vars
  PROVE  LInv'
<1>1. IInv'
  BY InvKept DEF LInv
<1> SUFFICES ASSUME NEW a \in Approvals, LocksFollow(a), TypeOK, PlacesFit
             PROVE  LocksFollow(a)'
  BY <1>1 DEF LInv, IInv
<1>2. CASE UNCHANGED vars \/ Cancel \/ EnterLoop
  <2>1. UNCHANGED <<approval, out, detail, event, scope, connection, listFailed, todo, queue, after>>
    BY <1>2 DEF vars, Cancel, EnterLoop, gatewayVars, connectionVars, watchVars, hubVars
  <2>2. watch' = watch \/ (watch = "replaying" /\ watch' = "waiting")
    BY <1>2 DEF vars, Cancel, EnterLoop, watchVars
  <2>3. /\ Unseen(a) => Unseen(a)'
        /\ InHand(SessionOf[a])' <=> InHand(SessionOf[a])
    BY <2>1, <2>2 DEF Unseen, ToList, InHand, Building
  <2>4. BlockShows(a) => BlockShows(a)'
    BY <2>1, <2>2, <2>3 DEF BlockShows
  <2> QED
    BY <2>1, <2>3, <2>4 DEF LocksFollow, Attached, Routable
<1>3. CASE SubscribePlugin \/ \E s \in Sessions : Subscribe(s)
  <2>1. \/ scope' = None /\ watch' = "sending" /\ after' = "listingExec"
        \/ scope' # None
    BY <1>3 DEF SubscribePlugin, Subscribe, Open
  <2> QED
    BY <2>1 DEF LocksFollow, Attached, Unseen, ToList
<1>4. CASE DescribeSession
  <2>1. /\ UNCHANGED <<approval, out, detail, event, scope, connection, listFailed, todo, queue, after>>
        /\ watch = "describing" /\ watch' = "checkingExec"
    BY <1>4 DEF DescribeSession, DetailRequest, gatewayVars, connectionVars, hubVars
  <2>2. /\ Unseen(a) => Unseen(a)'
        /\ InHand(SessionOf[a])' <=> InHand(SessionOf[a])
    BY <2>1 DEF Unseen, ToList, InHand, Building
  <2> QED
    BY <2>1, <2>2 DEF LocksFollow, Attached, Routable, BlockShows
<1>5. ASSUME NEW why, EventStreamEnds(why) PROVE LocksFollow(a)'
  <2>1. /\ UNCHANGED <<approval, out, detail, scope, listFailed, todo, queue>>
        /\ watch = "waiting"
        /\ \/ connection' = "none"
           \/ /\ connection' = connection /\ watch' = "sending"
              /\ event' = Plugin("subscription.error", None, None, "failed", None)
    BY <1>5 DEF EventStreamEnds, Return, Emit, gatewayVars, hubVars
  <2>2. CASE connection' = "none"
    BY <2>2 DEF LocksFollow, Attached
  <2>3. CASE event' = Plugin("subscription.error", None, None, "failed", None) /\ connection' = connection
    <3>1. ~InHand(SessionOf[a]) /\ ~InHand(SessionOf[a])' /\ ~ToList(a)
      BY <2>1, <2>3 DEF InHand, Building, Tells, Plugin, ToList
    <3> QED
      BY <2>1, <2>3, <3>1 DEF LocksFollow, Attached, Routable, BlockShows, Unseen
  <2> QED
    BY <2>1, <2>2, <2>3
<1> QED
  BY <1>2, <1>3, <1>4, <1>5, GatewayLocks, ReadLocks, SendLocks, ListLocks, ReplayLocks,
     TakeLocks, CheckLocks
     DEF Next, WatchStep, ConnectionEnds, ContextEnds, IdleTimeout

\* What is known of blocked sessions: whoever has seen the request of a
\* pending approval has a snapshot under way, or shown, that is blocked.
THEOREM BlocksUnderWay == Spec => []LInv
<1>1. Init => LInv
  <2>1. Init => \A a \in Approvals : LocksFollow(a)
    BY DEF Init, NoConnection, LocksFollow, Attached
  <2> QED
    BY <2>1, Initially DEF LInv
<1>2. LInv /\ [Next]_vars => LInv'
  BY LocksKept
<1> QED
  BY <1>1, <1>2, PTL DEF Spec

\* buildDetailSnapshotWithRun (detail.go): a caught-up Hub shows a session
\* with a pending approval as waiting for it, with locked controls, however the
\* requests behind its snapshots interleave with approvals and agent events.
THEOREM BlockedLocked == Spec => []BlockedSessionsAreLocked
<1>1. LInv => BlockedSessionsAreLocked
  <2> SUFFICES ASSUME LInv, CaughtUp, ~listFailed, NEW a \in Approvals,
                      approval[a] = "pending", Routable(a)
               PROVE  /\ detail[SessionOf[a]] # None
                      /\ detail[SessionOf[a]].run = WaitingRun
                      /\ detail[SessionOf[a]].locked
    BY DEF BlockedSessionsAreLocked
  <2>1. Attached /\ out = <<>> /\ todo = <<>> /\ watch = "waiting"
    BY DEF LInv, IInv, CaughtUp, Drained, Attached, PlacesFit
  <2>2. queue = <<>>
    <3>1. /\ queue \in Seq(GatewayEvent) /\ accepted = taken + Len(queue) /\ taken = accepted
          /\ taken \in Nat
      BY DEF LInv, IInv, TypeOK, ConnectionTypeOK, CaughtUp, Drained
    <3> QED
      BY <3>1
  <2>3. ~Unseen(a) /\ ~InHand(SessionOf[a])
    BY <2>1, <2>2, EmptyLacks DEF Unseen, ToList, InHand, Building
  <2>4. EndsBlocked(out, SessionOf[a], detail[SessionOf[a]])
    BY <2>1, <2>3 DEF LInv, LocksFollow, BlockShows
  <2> QED
    BY <2>1, <2>4 DEF EndsBlocked, IsBlocked
<1> QED
  BY <1>1, BlocksUnderWay, PTL
-----------------------------------------------------------------------------
(* The approval inbox.                                                     *)

Current == {a \in Approvals : Inbox!Current(a)}

\* The Gateway's events that say of an approval what is so.
Reported ==
  {e \in GatewayEvent :
     /\ e.event \in {"approval.requested", "approval.resolved"} => e.approval \in Current
     /\ e.event = "approval.resolved" => approval[e.approval] = "resolved"}

\* The plugin events that the Hub may be told, with the picture they carry.
Tellable ==
  {e \in PluginEvent :
     /\ e.type = "approval.required" =>
          /\ e.approval \in Current
          /\ e.session = SessionOf[e.approval]
          /\ e.snapshot # None
          /\ e.snapshot.run = WaitingRun
     /\ e.type = "approval.resolve" =>
          /\ e.approval \in Current
          /\ approval[e.approval] = "resolved"
          /\ e.snapshot = None
     /\ e.snapshot # None => e.session \in Sessions /\ Inbox!Honest(e.session, e.snapshot)}

\* All that is under way to the Hub may be told.
UnderWay ==
  /\ queue \in Seq(Reported)
  /\ todo \in Seq(Current)
  /\ watch \in Building \cup {"sending"} => event \in Tellable
  /\ out \in Seq(Tellable)

SettledBefore == \A a \in resolvedBefore : approval[a] = "resolved"

MInv == IInv /\ UnderWay /\ SettledBefore
-----------------------------------------------------------------------------
\* What goes on in a sequence of members of a set.
LEMMA SeqOfMembers ==
  ASSUME NEW S, NEW T, S \subseteq T, NEW q \in Seq(S)
  PROVE  /\ q \in Seq(T)
         /\ \A e \in T : Append(q, e) \in Seq(T)
         /\ \A p \in Seq(T) : q \o p \in Seq(T)
         /\ q # <<>> => Head(q) \in S /\ Tail(q) \in Seq(T)
<1>1. q \in Seq(T)
  OBVIOUS
<1> QED
  BY <1>1

\* Approvals move on and never back.
LEMMA ApprovalsMoveOn ==
  ASSUME TypeOK, [Next]_vars
  PROVE  \A a \in Approvals : /\ approval[a] # "unborn" => approval'[a] # "unborn"
                              /\ approval[a] = "resolved" => approval'[a] = "resolved"
<1>1. ASSUME NEW b \in Approvals, RequestApproval(b) \/ ResolveApproval(b)
      PROVE  \A a \in Approvals : /\ approval[a] # "unborn" => approval'[a] # "unborn"
                                  /\ approval[a] = "resolved" => approval'[a] = "resolved"
  BY <1>1 DEF RequestApproval, ResolveApproval, TypeOK
<1>2. CASE ~\E b \in Approvals : RequestApproval(b) \/ ResolveApproval(b)
  <2>1. approval' = approval
    BY <1>2
       DEF Next, GatewayStep, SessionEvent, ConnectionLost, SubscribePlugin, Subscribe, Open,
           Cancel, HubReceives, WatchStep, SendPluginEvent, ListExecApprovals,
           ListPluginApprovals, ListApprovals, ReplayApproval, EnterLoop, NextEvent,
           ConnectionEnds, ContextEnds, IdleTimeout, EventStreamEnds, DescribeSession,
           DetailRequest, CheckExecApprovals, CheckPluginApprovals, CheckApprovals,
           gatewayVars, vars
  <2> QED
    BY <2>1
<1> QED
  BY <1>1, <1>2

\* Within a subscription, what may be told stays so.
LEMMA TellableStays ==
  ASSUME TypeOK, [Next]_vars, UNCHANGED resolvedBefore
  PROVE  Current \subseteq Current' /\ Reported \subseteq Reported' /\ Tellable \subseteq Tellable'
<1>1. \A a \in Approvals : /\ approval[a] # "unborn" => approval'[a] # "unborn"
                           /\ approval[a] = "resolved" => approval'[a] = "resolved"
  BY ApprovalsMoveOn
<1>2. Current \subseteq Current'
  BY <1>1 DEF Current, Inbox!Current
<1>3. Reported \subseteq Reported'
  BY <1>1, <1>2 DEF Reported, Current
<1>4. ASSUME NEW s, NEW snap, Inbox!Honest(s, snap)
      PROVE  Inbox!Honest(s, snap)'
  BY <1>1, <1>4 DEF Inbox!Honest, Inbox!Current
<1>5. ASSUME NEW e \in Tellable PROVE e \in Tellable'
  BY <1>1, <1>2, <1>4 DEF Tellable, Current
<1> QED
  BY <1>2, <1>3, <1>5

\* A pending approval may be told of.
LEMMA PendingCurrent ==
  ASSUME SettledBefore, NEW a \in Approvals, approval[a] = "pending"
  PROVE  a \in Current
BY DEF SettledBefore, Current, Inbox!Current

\* The picture of a session that waits for an approval of its own is honest,
\* and so is one of the run of an agent.
LEMMA HonestPictures ==
  ASSUME NEW s \in Sessions
  PROVE  /\ \A a \in Current : SessionOf[a] = s =>
              /\ Inbox!Honest(s, Snapshot(WaitingRun, a))
              /\ Snapshot(WaitingRun, a).run = WaitingRun
         /\ \A p : Inbox!Honest(s, Snapshot(runFromAgentEvent(p), None))
<1>1. \A r, a : /\ Snapshot(r, a).run = r /\ Snapshot(r, a).blockedOn = a
                /\ Snapshot(r, a).locked = isControlsLocked(r)
  BY DEF Snapshot
<1>2. isControlsLocked(WaitingRun) = TRUE
  BY DEF isControlsLocked, WaitingRun, Run
<1>5. Inbox!WaitingRun = WaitingRun
  BY DEF Inbox!WaitingRun, Inbox!Run, WaitingRun, Run
<1>3. ASSUME NEW a \in Current, SessionOf[a] = s
      PROVE  Inbox!Honest(s, Snapshot(WaitingRun, a)) /\ Snapshot(WaitingRun, a).run = WaitingRun
  <2>1. a # None /\ Inbox!Current(a)
    BY DEF Current
  <2> QED
    BY <1>1, <1>2, <1>3, <1>5, <2>1 DEF Inbox!Honest
<1>4. ASSUME NEW p PROVE Inbox!Honest(s, Snapshot(runFromAgentEvent(p), None))
  <2>1. runFromAgentEvent(p).status # "waiting_approval"
    BY DEF runFromAgentEvent, idleRun, Run
  <2>2. runFromAgentEvent(p) # WaitingRun
    BY <2>1 DEF WaitingRun, Run
  <2> QED
    BY <1>1, <1>5, <2>2 DEF Inbox!Honest
<1> QED
  BY <1>3, <1>4

\* The event of an approval that may be told of.
LEMMA RequiredTellable ==
  ASSUME NEW a \in Current, SessionOf[a] # None
  PROVE  approvalRequiredEvent(a) \in Tellable
<1> SUFFICES ASSUME NEW e, e = approvalRequiredEvent(a)
             PROVE  e \in Tellable
  OBVIOUS
<1> DEFINE s == SessionOf[a]
<1>1. a \in Approvals /\ s \in Sessions
  BY DEF Current
<1>2. /\ e \in PluginEvent /\ e.snapshot \in Snapshots
      /\ e.type = "approval.required" /\ e.approval = a /\ e.session = s
      /\ e.snapshot = Snapshot(WaitingRun, a)
  BY <1>1, ApprovalEventTypes DEF approvalRequiredEvent, Plugin
<1>3. Inbox!Honest(s, e.snapshot) /\ e.snapshot.run = WaitingRun
  BY <1>1, <1>2, HonestPictures
<1> QED
  BY <1>1, <1>2, <1>3 DEF Tellable

\* So may what the Gateway's reports are converted to.
LEMMA ConvertTellable ==
  ASSUME scope \in Sessions \cup {None}, watch = "waiting", NEW e \in Reported, Convert(e),
         watch' # "waiting"
  PROVE  event' \in Tellable
<1>0. e \in GatewayEvent
  BY DEF Reported
<1>1. CASE e \in [event : {"sessions.changed", "session.message"}, session : Sessions \cup {None}]
  <2>1. \/ event' = sessionIndexEvent(e)
        \/ event' = convertSessionMessageEvent(e)
        \/ event' = convertSessionMessageEvent(AsOfScope(e)) /\ e.session \in {scope, None}
    BY <1>1 DEF Convert, ConvertAny, ConvertOwn, Concerns, Emit
  <2>2. AsOfScope(e).session \in Sessions \cup {None} /\ e.session \in Sessions \cup {None}
    BY <1>1 DEF AsOfScope
  <2>3. /\ event' \in PluginEvent /\ event'.snapshot = None
        /\ event'.type \in {"directory.reconciled", "index.changed", "message"}
    BY <2>1, <2>2 DEF sessionIndexEvent, convertSessionMessageEvent, Plugin, PluginEvent
  <2> QED
    BY <2>3 DEF Tellable
<1>2. CASE e \in [event : {"agent"}, session : Sessions \cup {None}, phase : Phases]
  <2>1. PICK f : /\ event' = runEvent(f) /\ f.session \in Sessions /\ f.phase \in Phases
    <3>1. \/ event' = runEvent(e) /\ e.session # None
          \/ event' = runEvent(AsOfScope(e)) /\ scope # None /\ Concerns(e)
      BY <1>2 DEF Convert, ConvertAny, ConvertOwn, EmitWithDetail
    <3>2. scope # None /\ Concerns(e) =>
            AsOfScope(e).session \in Sessions /\ AsOfScope(e).phase = e.phase
      BY <1>2 DEF AsOfScope, Concerns
    <3> QED
      BY <1>2, <3>1, <3>2
  <2>2. /\ event' \in PluginEvent /\ event'.type = "run" /\ event'.session = f.session
        /\ event'.snapshot = Snapshot(runFromAgentEvent(f.phase), None)
    BY <2>1, RunEventTypes DEF runEvent, Plugin
  <2>3. Inbox!Honest(f.session, event'.snapshot)
    BY <2>1, <2>2, HonestPictures
  <2> QED
    BY <2>1, <2>2, <2>3 DEF Tellable
<1>3. CASE e \in [event : {"approval.requested", "approval.resolved"}, approval : Approvals]
  <2> DEFINE a == e.approval
  <2>1. a \in Current /\ a \in Approvals /\ SessionOf[a] # None
    BY <1>3 DEF Reported, Convert, ConvertAny, ConvertOwn, Concerns
  <2>2. \/ event' = approvalRequiredEvent(a)
        \/ event' = approvalResolvedEvent(a) /\ e.event = "approval.resolved"
    BY <1>3 DEF Convert, ConvertAny, ConvertOwn, Concerns, Emit, EmitWithDetail
  <2>3. ASSUME e.event = "approval.resolved" PROVE approvalResolvedEvent(a) \in Tellable
    <3>1. approval[a] = "resolved"
      BY <2>3 DEF Reported
    <3>2. /\ approvalResolvedEvent(a) \in PluginEvent
          /\ approvalResolvedEvent(a).type = "approval.resolve"
          /\ approvalResolvedEvent(a).approval = a /\ approvalResolvedEvent(a).snapshot = None
      BY <2>1, ApprovalEventTypes DEF approvalResolvedEvent, Plugin
    <3> QED
      BY <2>1, <3>1, <3>2 DEF Tellable
  <2> QED
    BY <2>1, <2>2, <2>3, RequiredTellable
<1> QED
  BY <1>0, <1>1, <1>2, <1>3 DEF GatewayEvent

-----------------------------------------------------------------------------
\* A step that adds nothing to what is under way.
LEMMA SameUnderWay ==
  ASSUME TypeOK, UnderWay, [Next]_vars, UNCHANGED <<queue, resolvedBefore>>,
         todo' \in {todo, <<>>},
         watch' \in Building \cup {"sending"} =>
           \/ watch \in Building \cup {"sending"} /\ event' = event
           \/ event' \in Tellable',
         out' = out
  PROVE  UnderWay'
<1>1. Current \subseteq Current' /\ Reported \subseteq Reported' /\ Tellable \subseteq Tellable'
  BY TellableStays
<1>2. <<>> \in Seq(Current')
  OBVIOUS
<1> QED
  BY <1>1, <1>2, SeqOfMembers DEF UnderWay

\* The Gateway reports what it does.
LEMMA GatewayUnderWay ==
  ASSUME TypeOK, UnderWay, SettledBefore, GatewayStep
  PROVE  UnderWay'
<1>1. /\ UNCHANGED <<watch, event, todo, out, resolvedBefore>>
      /\ \/ queue' = queue
         \/ \E e \in Reported' : queue' = Append(queue, e)
  <2>1. ASSUME NEW e \in GatewayEvent, Broadcast(e), e \in Reported'
        PROVE  /\ UNCHANGED <<watch, event, todo, out, resolvedBefore>>
               /\ queue' = queue \/ \E f \in Reported' : queue' = Append(queue, f)
    BY <2>1, ReceiveTypes DEF Broadcast, watchVars, hubVars, TypeOK
  <2>2. ASSUME NEW b \in Approvals, RequestApproval(b)
        PROVE  Requested(b) \in GatewayEvent \cap Reported' /\ Broadcast(Requested(b))
    <3>1. /\ approval'[b] = "pending" /\ b \notin resolvedBefore
          /\ resolvedBefore' = resolvedBefore
          /\ Requested(b) \in GatewayEvent /\ Broadcast(Requested(b))
      BY <2>2
         DEF RequestApproval, TypeOK, SettledBefore, Broadcast, hubVars, Requested, GatewayEvent
    <3>2. b \in Current'
      BY <3>1 DEF Current, Inbox!Current
    <3> QED
      BY <3>1, <3>2 DEF Reported, Requested
  <2>3. ASSUME NEW b \in Approvals, ResolveApproval(b)
        PROVE  Resolved(b) \in GatewayEvent \cap Reported' /\ Broadcast(Resolved(b))
    <3>1. /\ approval'[b] = "resolved" /\ b \notin resolvedBefore
          /\ resolvedBefore' = resolvedBefore
          /\ Resolved(b) \in GatewayEvent /\ Broadcast(Resolved(b))
      BY <2>3
         DEF ResolveApproval, TypeOK, SettledBefore, Broadcast, hubVars, Resolved, GatewayEvent
    <3>2. b \in Current'
      BY <3>1 DEF Current, Inbox!Current
    <3> QED
      BY <3>1, <3>2 DEF Reported, Resolved
  <2>4. ASSUME NEW e \in GatewayEvent, SessionEvent(e) PROVE e \in Reported' /\ Broadcast(e)
    BY <2>4 DEF SessionEvent, Reported
  <2>5. CASE ConnectionLost
    BY <2>5 DEF ConnectionLost, Lose, watchVars, hubVars
  <2> QED
    BY <2>1, <2>2, <2>3, <2>4, <2>5 DEF GatewayStep
<1>2. Current \subseteq Current' /\ Reported \subseteq Reported' /\ Tellable \subseteq Tellable'
  BY <1>1, TellableStays DEF Next
<1> QED
  BY <1>1, <1>2, SeqOfMembers DEF UnderWay

\* A subscription begins with a notice that is about no approval.
LEMMA OpenUnderWay ==
  ASSUME TypeOK, SubscribePlugin \/ \E s \in Sessions : Subscribe(s)
  PROVE  UnderWay' /\ SettledBefore'
<1>1. /\ queue' = <<>> /\ todo' = <<>> /\ out' = <<>> /\ UNCHANGED approval
      /\ resolvedBefore' = {a \in Approvals : approval[a] = "resolved"}
  BY DEF SubscribePlugin, Subscribe, Open, Dial, gatewayVars
<1>2. watch' \in Building \cup {"sending"} => event' \in Tellable'
  <2>1. Plugin("directory.reconciled", None, None, None, None) \in PluginEvent
    BY NoticeTypes
  <2>2. Plugin("directory.reconciled", None, None, None, None) \in Tellable'
    BY <2>1 DEF Tellable, Plugin
  <2> QED
    BY <2>2 DEF SubscribePlugin, Subscribe, Building
<1>3. \A S : <<>> \in Seq(S)
  OBVIOUS
<1> QED
  BY <1>1, <1>2, <1>3 DEF UnderWay, SettledBefore

\* What is sent and what is read may be told.
LEMMA ChannelUnderWay ==
  ASSUME TypeOK, UnderWay, SendPluginEvent \/ HubReceives
  PROVE  UnderWay'
<1>1. UNCHANGED <<queue, todo, resolvedBefore>>
  BY DEF SendPluginEvent, HubReceives, connectionVars, watchVars, hubVars
<1>2. Current \subseteq Current' /\ Reported \subseteq Reported' /\ Tellable \subseteq Tellable'
  BY <1>1, TellableStays DEF Next, WatchStep
<1>3. CASE SendPluginEvent
  <2>1. watch' \notin Building \cup {"sending"}
    BY <1>3 DEF SendPluginEvent, Return, Building, TypeOK
  <2>2. out' = out \/ (out' = Append(out, event) /\ event \in Tellable)
    BY <1>3 DEF SendPluginEvent, UnderWay
  <2> QED
    BY <1>1, <1>2, <2>1, <2>2, SeqOfMembers DEF UnderWay
<1>4. CASE HubReceives
  <2>1. UNCHANGED <<watch, event>> /\ out # <<>> /\ out' = Tail(out)
    BY <1>4 DEF HubReceives, watchVars
  <2> QED
    BY <1>1, <1>2, <2>1, SeqOfMembers DEF UnderWay
<1> QED
  BY <1>3, <1>4

\* Lists hold pending approvals.
LEMMA ListUnderWay ==
  ASSUME TypeOK, UnderWay, SettledBefore, ListExecApprovals \/ ListPluginApprovals
  PROVE  UnderWay'
<1>1. PICK kind \in {"exec", "plugin"}, next \in {"listingPlugin", "replaying"} :
        ListApprovals(kind, next)
  BY DEF ListExecApprovals, ListPluginApprovals
<1>2. /\ UNCHANGED <<queue, out, event, resolvedBefore>>
      /\ watch' \notin Building \cup {"sending"}
  BY <1>1 DEF ListApprovals, connectionVars, hubVars, Building
<1>3. Current \subseteq Current' /\ Reported \subseteq Reported' /\ Tellable \subseteq Tellable'
  BY <1>2, TellableStays DEF Next, WatchStep
<1>4. todo' \in Seq(Current')
  <2>1. ASSUME NEW q \in Listings(PendingOf(kind)) PROVE q \in Seq(Current')
    <3>1. PendingOf(kind) \in SUBSET Approvals /\ PendingOf(kind) \subseteq Current'
      BY <1>3, PendingCurrent DEF PendingOf
    <3>2. q \in Seq(Approvals) /\ \A i \in DOMAIN q : q[i] \in PendingOf(kind)
      BY <3>1, ListingsName
    <3> QED
      BY <3>1, <3>2
  <2>2. todo' = todo \/ \E q \in Listings(PendingOf(kind)) : todo' = todo \o q
    BY <1>1 DEF ListApprovals
  <2> QED
    BY <1>3, <2>1, <2>2, SeqOfMembers DEF UnderWay
<1> QED
  BY <1>2, <1>3, <1>4, SeqOfMembers DEF UnderWay

\* A listed approval is told of.
LEMMA ReplayUnderWay ==
  ASSUME TypeOK, UnderWay, ReplayApproval
  PROVE  UnderWay'
<1> DEFINE a == Head(todo)
<1>1. UNCHANGED <<approval, queue, out, resolvedBefore>> /\ todo # <<>> /\ todo' = Tail(todo)
  BY DEF ReplayApproval, gatewayVars, connectionVars, hubVars
<1>2. Current \subseteq Current' /\ Reported \subseteq Reported' /\ Tellable \subseteq Tellable'
  BY <1>1, TellableStays DEF Next, WatchStep
<1>3. a \in Current /\ todo' \in Seq(Current')
  BY <1>1, <1>2, SeqOfMembers DEF UnderWay
<1>4. SessionOf[a] # None => approvalRequiredEvent(a) \in Tellable
  BY <1>3, RequiredTellable
<1>5. watch' \in Building \cup {"sending"} => event' \in Tellable
  BY <1>4 DEF ReplayApproval, EmitWithDetail, Building
<1> QED
  BY <1>1, <1>2, <1>3, <1>5, SeqOfMembers DEF UnderWay

\* What the Gateway reports may be told.
LEMMA TakeUnderWay ==
  ASSUME TypeOK, UnderWay, NextEvent
  PROVE  UnderWay'
<1> DEFINE e == NextInLine
<1>1. /\ UNCHANGED <<approval, todo, out, scope, resolvedBefore>> /\ watch = "waiting"
      /\ Convert(e)
  BY DEF NextEvent, gatewayVars, hubVars
<1>2. /\ e \in GatewayEvent /\ queue # <<>> /\ queue' = Tail(queue) /\ e = Head(queue)
  BY TakeTypes DEF NextEvent, TypeOK, NextInLine
<1>3. Current \subseteq Current' /\ Reported \subseteq Reported' /\ Tellable \subseteq Tellable'
  BY <1>1, TellableStays DEF Next, WatchStep
<1>4. e \in Reported /\ queue' \in Seq(Reported')
  BY <1>2, <1>3, SeqOfMembers DEF UnderWay
<1>5. watch' \in Building \cup {"sending"} => event' \in Tellable
  BY <1>1, <1>4, ConvertTellable DEF Building, TypeOK
<1> QED
  BY <1>1, <1>3, <1>4, <1>5, SeqOfMembers DEF UnderWay

\* A picture blocked on an approval of the session in the lists may be told.
LEMMA CheckUnderWay ==
  ASSUME TypeOK, PlacesFit, UnderWay, SettledBefore, CheckExecApprovals \/ CheckPluginApprovals
  PROVE  UnderWay'
<1>1. PICK kind \in {"exec", "plugin"}, next \in {"checkingPlugin", "sending"} :
        CheckApprovals(kind, next) /\ watch \in {"checkingExec", "checkingPlugin"}
  BY DEF CheckExecApprovals, CheckPluginApprovals
<1>2. /\ UNCHANGED <<queue, out, todo, resolvedBefore>>
      /\ event \in Tellable /\ event \in PluginEvent /\ event.snapshot \in Snapshots
  BY <1>1 DEF CheckApprovals, connectionVars, hubVars, PlacesFit, Building, UnderWay
<1>3. ASSUME NEW a \in PendingOf(kind), SessionOf[a] = event.session, BlockOn(a)
      PROVE  event' \in Tellable
  <2>1. a \in Approvals /\ a \in Current /\ a # None
    BY PendingCurrent DEF PendingOf
  <2>2. event.session \in Sessions /\ event.type # "approval.resolve"
    BY <1>2 DEF Tellable
  <2>3. /\ event' \in PluginEvent /\ event'.type = event.type /\ event'.approval = event.approval
        /\ event'.session = event.session
    BY <1>2, <1>3, <2>1, BlockKeeps
  <2>4. event'.snapshot = Snapshot(WaitingRun, a)
    BY <1>2, <1>3, <2>1 DEF BlockOn, buildDetailSnapshotWithRun, PluginEvent
  <2>5. Inbox!Honest(event.session, event'.snapshot) /\ event'.snapshot.run = WaitingRun
    BY <1>3, <2>1, <2>2, <2>4, HonestPictures
  <2>6. event'.snapshot # None
    BY <1>2, <1>3, <2>1, BlockKeeps
  <2> QED
    BY <1>2, <2>2, <2>3, <2>5, <2>6 DEF Tellable
<1>4. event' = event \/ event' \in Tellable
  BY <1>1, <1>3 DEF CheckApprovals
<1>5. Tellable \subseteq Tellable'
  BY <1>2, TellableStays DEF Next, WatchStep
<1> QED
  BY <1>2, <1>4, <1>5, SameUnderWay DEF Next, WatchStep
-----------------------------------------------------------------------------
\* All that is under way may be told, over every step.
LEMMA InboxKept ==
  ASSUME MInv, [Next]_vars
  PROVE  MInv'
<1>1. IInv' /\ TypeOK /\ PlacesFit /\ UnderWay /\ SettledBefore
  BY InvKept DEF MInv, IInv
<1>2. CASE SubscribePlugin \/ \E s \in Sessions : Subscribe(s)
  BY <1>1, <1>2, OpenUnderWay DEF MInv
<1>3. CASE ~(SubscribePlugin \/ \E s \in Sessions : Subscribe(s))
  <2>1. resolvedBefore' = resolvedBefore
    BY <1>3
       DEF Next, GatewayStep, RequestApproval, ResolveApproval, SessionEvent, Broadcast,
           ConnectionLost, Cancel, HubReceives, WatchStep, SendPluginEvent, ListExecApprovals,
           ListPluginApprovals, ListApprovals, ReplayApproval, EnterLoop, NextEvent,
           ConnectionEnds, ContextEnds, IdleTimeout, EventStreamEnds, DescribeSession,
           DetailRequest, CheckExecApprovals, CheckPluginApprovals, CheckApprovals,
           hubVars, vars
  <2>2. resolvedBefore \subseteq Approvals
    BY <1>1 DEF TypeOK
  <2>3. SettledBefore'
    BY <1>1, <2>1, <2>2, ApprovalsMoveOn DEF SettledBefore
  <2>4. ASSUME UNCHANGED vars \/ Cancel \/ EnterLoop \/ DescribeSession PROVE UnderWay'
    <3>1. /\ UNCHANGED <<queue, todo, event, out>>
          /\ watch' \in Building \cup {"sending"} => watch \in Building \cup {"sending"}
      BY <2>4
         DEF Cancel, EnterLoop, DescribeSession, DetailRequest, connectionVars, watchVars, vars,
             Building
    <3> QED
      BY <1>1, <2>1, <3>1, SameUnderWay
  <2>5. ASSUME NEW why, EventStreamEnds(why) PROVE UnderWay'
    <3>1. Plugin("subscription.error", None, None, "failed", None) \in Tellable'
      BY NoticeTypes DEF Tellable, Plugin
    <3>2. /\ UNCHANGED <<queue, todo, out>>
          /\ watch' \in Building \cup {"sending"} => event' \in Tellable'
      BY <2>5, <3>1 DEF EventStreamEnds, Return, Emit, Building
    <3> QED
      BY <1>1, <2>1, <3>2, SameUnderWay
  <2>6. UnderWay'
    BY <1>1, <1>3, <2>4, <2>5, GatewayUnderWay, ChannelUnderWay, ListUnderWay, ReplayUnderWay,
       TakeUnderWay, CheckUnderWay
       DEF Next, WatchStep, ConnectionEnds, ContextEnds, IdleTimeout
  <2> QED
    BY <1>1, <2>3, <2>6 DEF MInv
<1> QED
  BY <1>2, <1>3

\* What the Hub reads is a step of its inbox.
LEMMA ReadingSteps ==
  ASSUME MInv, HubReceives
  PROVE  Inbox!InboxNext \/ UNCHANGED Inbox!inboxVars
<1> DEFINE e == Head(out)
<1>1. /\ out # <<>> /\ UNCHANGED <<approval, resolvedBefore>> /\ e \in Tellable /\ e \in PluginEvent
      /\ TypeOK /\ out \in Seq(PluginEvent)
  BY SeqOfMembers DEF HubReceives, MInv, IInv, UnderWay, TypeOK, gatewayVars, Tellable
<1>2. ASSUME e.snapshot # None
      PROVE  /\ e.session \in Sessions /\ Inbox!Pictures(e.session)
             /\ detail'[e.session] = e.snapshot
  <2>1. e.session \in Sessions /\ Inbox!Honest(e.session, e.snapshot)
    BY <1>1, <1>2 DEF Tellable
  <2>2. detail' = [detail EXCEPT ![e.session] = e.snapshot] /\ detail'[e.session] = e.snapshot
    BY <1>1, <1>2, <2>1 DEF HubReceives, TypeOK
  <2> QED
    BY <1>2, <2>1, <2>2 DEF Inbox!Pictures
<1>3. CASE e.type = "approval.required"
  <2> DEFINE a == e.approval
  <2>1. /\ a \in Current /\ e.session = SessionOf[a] /\ e.snapshot # None
        /\ e.snapshot.run = WaitingRun
    BY <1>1, <1>3 DEF Tellable
  <2>2. a \in Approvals /\ Inbox!Current(a)
    BY <2>1 DEF Current
  <2>3. shown[a] # "closed"
    <3>1. shown[a] = "closed" => Lacks(out, Openings(a))
      BY <2>2 DEF MInv, IInv, ApprovalInv, Tracked, OrderKept
    <3>2. e \in Openings(a)
      BY <1>1, <1>3, <2>2, KindsOfEvents
    <3> QED
      BY <1>1, <3>1, <3>2, LacksTail
  <2>4. shown' = [shown EXCEPT ![a] = "open"]
    BY <1>3 DEF HubReceives
  <2>5. Inbox!WaitingRun = WaitingRun
    BY DEF Inbox!WaitingRun, Inbox!Run, WaitingRun, Run
  <2>6. Inbox!OpenApproval(a)
    BY <1>1, <1>2, <2>1, <2>2, <2>3, <2>4, <2>5 DEF Inbox!OpenApproval
  <2> QED
    BY <2>2, <2>6 DEF Inbox!InboxNext
<1>4. CASE e.type = "approval.resolve"
  <2> DEFINE a == e.approval
  <2>1. a \in Current /\ approval[a] = "resolved" /\ e.snapshot = None
    BY <1>1, <1>4 DEF Tellable
  <2>2. a \in Approvals /\ Inbox!Current(a)
    BY <2>1 DEF Current
  <2>3. shown' = [shown EXCEPT ![a] = "closed"] /\ detail' = detail
    BY <1>4, <2>1 DEF HubReceives
  <2>4. Inbox!CloseApproval(a)
    BY <1>1, <2>1, <2>2, <2>3 DEF Inbox!CloseApproval
  <2> QED
    BY <2>2, <2>4 DEF Inbox!InboxNext
<1>5. CASE e.type \notin {"approval.required", "approval.resolve"}
  <2>1. shown' = shown
    BY <1>5 DEF HubReceives
  <2>2. CASE e.snapshot = None
    <3>1. detail' = detail
      BY <2>2 DEF HubReceives
    <3> QED
      BY <1>1, <2>1, <3>1 DEF Inbox!inboxVars
  <2>3. CASE e.snapshot # None
    <3>1. e.session \in Sessions /\ Inbox!ShowDetail(e.session)
      BY <1>1, <1>2, <2>1, <2>3 DEF Inbox!ShowDetail
    <3> QED
      BY <3>1 DEF Inbox!InboxNext
  <2> QED
    BY <2>2, <2>3
<1> QED
  BY <1>3, <1>4, <1>5

\* Every step is one of the inbox or leaves it alone.
LEMMA InboxSteps ==
  ASSUME MInv, [Next]_vars
  PROVE  Inbox!InboxNext \/ UNCHANGED Inbox!inboxVars
<1>1. ASSUME NEW a \in Approvals, RequestApproval(a) \/ ResolveApproval(a)
      PROVE  Inbox!InboxNext
  <2>1. UNCHANGED <<shown, detail, resolvedBefore>>
    BY <1>1 DEF RequestApproval, ResolveApproval, Broadcast, hubVars
  <2>2. Inbox!Raise(a) \/ Inbox!Resolve(a)
    BY <1>1, <2>1 DEF RequestApproval, ResolveApproval, Inbox!Raise, Inbox!Resolve
  <2> QED
    BY <2>2 DEF Inbox!InboxNext
<1>2. CASE SubscribePlugin \/ \E s \in Sessions : Subscribe(s)
  <2>1. /\ UNCHANGED <<approval, shown, detail>>
        /\ resolvedBefore' = {a \in Approvals : approval[a] = "resolved"}
    BY <1>2 DEF SubscribePlugin, Subscribe, Open, gatewayVars
  <2> QED
    BY <2>1 DEF Inbox!HubSubscribes, Inbox!InboxNext
<1>3. CASE /\ ~\E a \in Approvals : RequestApproval(a) \/ ResolveApproval(a)
           /\ ~(SubscribePlugin \/ \E s \in Sessions : Subscribe(s))
           /\ ~HubReceives
  <2>1. UNCHANGED <<approval, resolvedBefore, shown, detail>>
    BY <1>3
       DEF Next, GatewayStep, SessionEvent, Broadcast, ConnectionLost, Cancel, WatchStep,
           SendPluginEvent, ListExecApprovals, ListPluginApprovals, ListApprovals,
           ReplayApproval, EnterLoop, NextEvent, ConnectionEnds, ContextEnds, IdleTimeout,
           EventStreamEnds, DescribeSession, DetailRequest, CheckExecApprovals,
           CheckPluginApprovals, CheckApprovals, gatewayVars, hubVars, vars
  <2> QED
    BY <2>1 DEF Inbox!inboxVars
<1> QED
  BY <1>1, <1>2, <1>3, ReadingSteps

\* Whatever is under way to the Hub, it may be told when it gets there.
THEOREM InboxInvariant == Spec => []MInv
<1>1. Init => MInv
  <2> SUFFICES ASSUME Init PROVE UnderWay /\ SettledBefore
    BY Initially DEF MInv
  <2>1. \A S : <<>> \in Seq(S)
    OBVIOUS
  <2> QED
    BY <2>1 DEF Init, NoConnection, UnderWay, SettledBefore, Building
<1>2. MInv /\ [Next]_vars => MInv'
  BY InboxKept
<1> QED
  BY <1>1, <1>2, PTL DEF Spec

\* SubscribePlugin, approvalRequiredEvent and buildDetailSnapshotWithRun: the
\* Hub is told of an approval only when it was raised and only up to its
\* resolution, with a picture of its session that waits for an approval of
\* that session, whatever lists, replays and subscriptions interleave.
THEOREM InboxImplemented == Spec => ImplementsApprovalInbox
<1>1. Init => Inbox!InboxInit
  BY DEF Init, Inbox!InboxInit
<1>2. MInv /\ [Next]_vars => [Inbox!InboxNext]_Inbox!inboxVars
  BY InboxSteps
<1> QED
  BY <1>1, <1>2, InboxInvariant, PTL DEF Spec, ImplementsApprovalInbox, Inbox!InboxSpec
=============================================================================
