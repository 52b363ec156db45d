# Verification of the OpenClaw plugin

TLA+ models of `prism-plugin-openclaw`, the adapter that connects a Prism Hub to
an OpenClaw Gateway. `tlc` checks the models on small instances and `tlapm`
checks the proofs. `PROJECT.json` maps every definition to the lines of source
it stands for and lists runs, mutants, theorems, findings and hazards.

## The system

The adapter is one Go process driven by the Hub through the plugin SDK. It keeps
no state of its own between calls: every operation opens a WebSocket to the
Gateway, does its requests, and closes it. Three operations leave a goroutine
behind that owns its connection and writes to a channel the Hub reads: the
plugin-wide subscription, the per-session subscription and the history stream.

| Part | State | Operations | Interacts with | Hard about it |
| --- | --- | --- | --- | --- |
| RPC client (`gateway_client.go`) | pending map, event buffer, wakeup slot, done channel, read error, socket | Request, NextEvent, Close, read loop, dial and handshake | every other part; Gateway | concurrent callers, one socket, timeouts, late answers, full buffer, racing shutdowns |
| Plugin-wide subscription (`discovery.go`, SubscribePlugin) | listed approvals, event being sent, channel of 128 | subscribe, list, replay, convert, describe, send | client; Gateway broadcasts; Hub | approvals around lists and replay, failing requests, a Hub that stops reading |
| Per-session subscription (Subscribe) | event being sent, channel of 32 | subscribe, convert, describe, send | client; Gateway; Hub | as above, without approvals |
| Detail snapshot (`detail.go`) | none; several requests per snapshot | build, ReadDetail | subscriptions, control, waiting | parts read at different times, partial failure |
| History stream (`history_stream.go`) | signatures and revisions by turn id, channel of 32 | load page, reload, group, diff, send | client; Gateway; Hub | hand-over from page to live, sliding page and window |
| Session directory (ListSessions) | rows and offset of one listing | page, fall back, de-duplicate | Gateway | the directory changes between pages |
| First message and send | none; create, send, verify in sequence | StartSessionWithMessage, Send, VerifyVisibility | Gateway | retries of a half-done start |
| Run status | none | WaitForRun, ReadStatus, Interrupt | Gateway, detail | the run ends meanwhile; several status vocabularies; three timers |
| Session control (`control.go`) | none; read-then-patch | pin, archive, rename, model, reasoning, compact, delete | Gateway, detail | other controllers in between, retries |
| Approval resolution | none | ResolveApproval, action id decoding | Gateway | the id must survive a round trip through the Hub |
| Discovery and probe | files, environment, health request | Discover, Probe | operating system | none that a model checker reaches |
| Entry point, scripts | none | start, build, release | SDK | none |

What makes each part correct:

* **RPC client**: an answer reaches the request it belongs to and no other; the
  pending map does not leak; events arrive in order, none lost or twice, and a
  connection error is reported after what was buffered; nobody sleeps or blocks
  forever; the reported reason is the real one.
* **Subscriptions**: what the Gateway holds and what a caught-up Hub shows agree;
  no state goes backwards; an end is announced; cancellation always works.
* **Detail**: a session blocked on an approval is shown as such and locked; the
  snapshot and the event it rides on agree.
* **History stream**: the Hub can apply every event it gets and ends up with the
  latest page; memory stays bounded.
* **Session directory**: the listing ends, lists nothing twice, and misses
  nothing when the directory only grows.
* **First message, control, status, approvals**: a retry does not repeat an
  effect; what is confirmed happened; values survive their conversions.

## Modules

| Module | Models | Used by |
| --- | --- | --- |
| `EventStream` | what a connection promises its consumer of events (abstract) | refined by `GatewayClient`, extended by `GatewayConnection` |
| `GatewayClient` | the RPC client, one step per critical section or channel operation | `MCGatewayClient`, `GatewayClientProofs` |
| `GatewayClientProofs` | theorems about `GatewayClient` | |
| `Handshake` | `newGatewayClient`: socket, challenge, connect request, read deadlines | extended by `SessionDirectory` |
| `SessionDirectoryProofs` | theorems about the dial and the listing of `SessionDirectory` | |
| `GatewayConnection` | one connection as its owner sees it: `EventStream` with event contents | `PluginWatch`, `HistoryStream` |
| `Detail` | runs, phases, statuses, controls lock, approval override | `PluginWatch`, `AdapterCalls` |
| `PluginWatch` | SubscribePlugin and Subscribe with Gateway, network and Hub around them | `MCPluginWatch`, `PluginWatchProofs` |
| `ApprovalInbox` | what a subscription promises about approvals and blocked sessions (abstract) | refined by `PluginWatch` |
| `PluginWatchProofs` | theorems about approvals on their way to the Hub, blocked sessions, and the end of a subscription | |
| `HistoryTurns` | grouping of messages into turns, with a set-based reference | `HistoryStream` |
| `HistoryStream` | ReadHistoryStream, runHistoryStream | `MCHistoryStream`, `HistoryStreamProofs` |
| `TurnFeed` | what a history stream promises of each turn (abstract) | refined by `HistoryStream` |
| `HistoryStreamProofs` | theorems about pages of turns and the stream to the Hub | |
| `FoldProofs` | lemmas about folds over sequences and about sets of numbers listed in order | `SessionDirectoryProofs`, `HistoryStreamProofs` |
| `SessionDirectory` | ListSessions over a changing directory | `MCSessionDirectory`, `SessionDirectoryProofs` |
| `GatewaySession` | the Gateway as the calls about a session use it (external) | extended by `AdapterCalls` |
| `AdapterCalls` | what all calls share: dial, requests that are given up, the snapshot at the end | the four modules below |
| `SessionControl` | ControlSession, controlDescribe, ReadDetail | `SessionCalls` |
| `RunStatus` | WaitForRun, ReadStatus, Interrupt | `SessionCalls` |
| `ApprovalActions` | ResolveApproval and the action ids | `SessionCalls` |
| `MessageDelivery` | StartSessionWithMessage, Send, VerifyVisibility | `SessionCalls` |
| `DeliveryPromise` | what a Hub that retries may rely on (abstract) | refined by `MessageDelivery` |
| `SessionCalls` | all these calls side by side, over one Gateway | `MCSessionCalls`, `SessionProofs` |
| `SessionProofs` | theorems about requests that outlive their calls, approvals and deliveries | `RunStatusProofs`, `ControlProofs` |
| `RunStatusProofs` | theorems about what the Hub is told of runs | |
| `ControlProofs` | theorems about control calls and the details at the end of a call | |

The layers meet in `EventStream`: `GatewayClient` implements it (checked with its
liveness, proved for its safety part), and the goroutines above are modelled over
it instead of over the client's mutexes and channels. The calls about a session use
no events; for them a client is a socket that is dialed and requests that are
answered, fail, are given up, or hang. `GatewayClient` shows that a request that is
written returns with its own answer or an error; it assumes nothing of a write to an
open connection, which has no deadline. `AdapterCalls` keeps that possibility
(`Hang`). The subscriptions, the history stream and the listing leave it out: that the
short frames they send get written is an assumption of their models. The calls meet the subscriptions only at the Gateway and in the Hub.

### GatewayClient

`caller[r]` is the program counter of the goroutine of request `r` inside
`RequestAnyWithTimeout` (`Register`, `LockWrite`, `WriteFrame` or `WriteError`,
one of `ReceiveResponse`, `GiveUp`, `SeeDone`, then the deferred `Unregister`).
`reader` is that of `readLoop` (`ReadFrame`, `FindWaiter`, `DeliverResponse`,
`PushEvent`, `SignalConsumer`, `ReaderShutsDown`, ...), `closeOnce` is the
progress of the body of `shutdown`, `consumer` is that of
`NextEventWithTimeout`, called in a loop by the one goroutine that owns the
event side. `wire`, `inbox`, `replies` and `conn` are the Gateway and the
network. Time is abstracted: a timer or a context may fire whenever the code
listens to it. An event is its sequence number and a response its request id and
ok flag; `accepted`, `taken` and `handed` are history variables for the
refinement. A caller returning with its answer, its timeout or the connection
error while several of them are ready is a free choice, as in Go's `select`.

### GatewayConnection, Detail and PluginWatch

`watch` is the place of the subscription goroutine: `sending` the event it holds
(`event`, then on to `after`), `listingExec`, `listingPlugin`, `replaying`,
`waiting` for an event, or building a snapshot (`describing`, which stands for
sessions.describe and models.list, `checkingExec`, `checkingPlugin`). Every
request may fail at any time, and on a dead connection it does. `scope` is the
session of a subscription to one session, which neither announces nor replays,
drops approvals and directory changes, and takes an event that names no session
for one of its own (`ConvertOwn`); it is None for a plugin-wide one
(`ConvertAny`). `out` is the channel, `shown` and `detail` what the Hub last heard
of each approval and session. A Hub has one subscription at a time and may change
its kind with each. The Gateway may raise and resolve
approvals and broadcast session events at any moment; sessions, approvals and
phases are elements of small sets, and fields no property tells apart are
dropped. `Detail` keeps what decides a snapshot's status: the run, the approval
that blocks it, and whether controls are locked. Its statuses come from
agent phases here and from agent.wait in `AdapterCalls`.

`ApprovalInbox` keeps the Gateway's approvals, those settled before the Hub
subscribed (`resolvedBefore`), and the two things the Hub shows. It opens an
approval only if it was raised and is not settled, closes it for good and only once
it is resolved, and lets a picture of a session wait only for such an approval of
that very session. It knows nothing of lists, replay, buffer and snapshot requests,
which between them could break any of it. That a closed approval never comes
back (`NoResurrection`) is part of it; it is proved by itself as well.

### HistoryTurns and HistoryStream

A message is its id, role and content version; `gatewayHistoryTurns` is the fold
of the source and `Groups` says of positions what it should compute. `stream` is
the place of the goroutine, `page` and `position` its loop over the turns loaded
last, `revisions` and `signatures` its two maps (0 and the empty sequence when
absent), `view` what the Hub has under each turn id. The Gateway records a message
before it sends its event, and may leave the session unnamed in it. Histories
grow and messages change; compaction and deletion are not modelled.

`TurnFeed` has two of these variables, the history and what the Hub shows. Its one
step for the Hub moves the picture of one turn to its next revision, which shows a
beginning of the turn, in order and without a gap, that continues the picture
before: no message is taken back, none goes back to an earlier version. It says
nothing of pages, windows, events and maps.

### Handshake and SessionDirectory

`dial` is the place of `newGatewayClient`. The read deadline belongs to the socket
and outlives the call that set it, so it is a variable of its own, counted in
ticks like what is left of the context's deadline (`contextLeft`). Time passes
only while a read deadline is set, because everything else that times out is a
request, which here just may fail. `quiet` is the Gateway's: it sends no more
frames but the challenge. A cancelled context is not looked at while the
challenge is waited for, and so is not there.

`SessionDirectory` dials in the same way and then pages. The directory is a
sequence, the session used last first, and changes between page requests.
`steady` are the sessions that kept their place since the listing began. The
repeated-offset check of the source cannot fire behind the check that offsets
grow, and is left out.

### The calls about a session

Each call of the Hub runs in a goroutine of its own with a client of its own.
`call[c]` is its record: `op` what the Hub asked for, `at` where it is, and what
it keeps from its answers (`row`, `models`, `status`, `mutated`) until it returns
with `answer`. The places are the requests: `dialing`, then for example
`describing`, `patching` and the snapshot's `detailRow`, `detailExec` and
`detailPlugin`. `served`, `since`, `earlier`, `blocking`, `listFailed` and the
variable `offers` are history variables that the properties need; the code has
no such state.

A request that changes something is either answered, and then performed in the
same step, or given up: its timer, its context or the connection ended it, or
its answer came too late. A given-up request goes to `late`, from where the
Gateway performs it at any later time or never. A call that ends in the middle,
the crash of the adapter included, is a call whose request was given up. Reads may
fail, and answer from the state of the moment.

A call may also hang for ever (`Hang`, place `hanging`), in one of two ways. While
it dials, every frame that is not the challenge renews the read deadline
(`waitConnectChallenge`), and the context is not looked at unless it has a deadline.
And `WriteJSON` has neither a deadline nor an ear for the context; the timer of a
request starts behind it. Nothing else in these calls waits without a timer.

A level is checked against two reads, first the row and then the catalogue, and
requested in a third request. `LevelsOf` gives the levels that a row with a certain
model lists. `TargetWasOffered` follows a level through this: it was one of the
session's model at some moment of the call, and that model reasoned by the catalogue
of a later moment, unless `models.list` failed and the code took the row's word alone;
the row shown with a confirmed level has that level unless the model was switched on
the way. It does not promise that the offer still stands when the patch arrives.
The code cannot know that, and the Gateway has to refuse.

The actions of `SessionControl`,
`RunStatus`, `ApprovalActions` and `MessageDelivery` follow the code request by
request; the modules differ in what happens between them.

The Gateway is external and modelled from how the code uses it. Assumed of it: a
session takes each idempotency key once; a patch sets one field of a row and is
rejected when the session is deleted, or sets a level for a model that does not
reason; an approval takes one decision, from the resolver of its kind;
sessions.create keeps the key it is asked for. Peers switch the model, change
the catalogue, resolve approvals and start runs within `Budgets`.

`KeyOf` maps a message id to the session key of its first message; distinct ids
are assumed to have distinct keys. `DeliveryPromise` has two variables, the
deliveries of each message and the sessions the Hub was told it is in, and
`MessageDelivery` maps to them what the Gateway took in and the answers of the
calls.

## Runs

Bounds are constants of the configuration. Each is the smallest at which the
behaviour the run is about can happen more than once, or overlap with itself.

| Run | Checks | Bounds and why |
| --- | --- | --- |
| `client_requests` | `PendingIsExact`, `AnswersAreOwn`, `ShutdownReleasesEveryone` | two requests with one reply each: a late reply to one while the other waits, or one holds `writeMu` while the other waits for it |
| `client_stream` | `TypeOK`, `NoLostWakeup`, `FailureReasonIsTrue`, `ImplementsEventStream`, `ReplyReachesCaller` | buffer of two, three events: fills, overflows or is drained, wakes twice; one request and one unknown frame beside them |
| `watch_subscriptions` | `TypeOK`, `EndIsAnnounced`, `HubConverges`, `BlockedSessionsAreLocked`, `CancelEndsWatch`, `LostConnectionEndsWatch`, `ApprovalReachesHub`, `ImplementsApprovalInbox` | an exec and a plugin approval of one session, one of none; agent events with and without a phase; three events, two subscriptions of either kind in a row, buffer and channel of one |
| `history_safety` | `TypeOK`, `PageIsGrouped`, `OperationsFitView`, `CaughtUpShowsLatest`, `TrackingIsBounded`, `ImplementsTurnFeed` | four messages of three roles, one edit, pages of two turns, window of three: pages and windows slide and cut turns; events do not name the session, which the code takes like events that do |
| `history_live` | `EndIsAnnounced`, `HubEventuallyCurrent` | two messages, one edit, one event of another kind or session; events that name the session and events that do not |
| `directory_pages` | `TypeOK`, `GrowthLosesNothing`, `ListingEnds`, `DialEnds`, `IdleConnectionLives` | dial timeout of two ticks, so that a frame may come after the first and put the deadline off; contexts with and without a deadline; four sessions, pages of two, three changes, wrong offsets, every set of methods |
| `session_together` | `TypeOK`, `ConfirmationIsTrue`, `TargetWasOffered`, `ExplicitPinsConverge`, `DetailsBlockOnPending`, `EndsAreReal`, `StatusNeverReverts`, `InterruptHitsNamedRun`, `DecisionsArriveAsChosen`, `ImplementsDeliveryPromise`, `CallsReturn` | two calls in 94 pairings of operations, each with the peers' steps that matter to it (`MCScenarios`), two models with different levels, two catalogues |

In `session_together` two calls are enough for a call and its retry, for two
controllers, and for a call before or beside another one; the given-up request of
the first is still under way during the second. The pairings leave out what
shares nothing at the Gateway: an interrupt beside a rename, say.

A second reply to one request is beyond `client_requests`, which would take too
long with it. The proofs hold for every number of replies.

The other runs expect a violation; see *Findings*. `CHECK_DEADLOCK FALSE` is set
everywhere: connections close, bounds are used up, and the Hub may stop, so every
model has final states; what must not get stuck is stated as liveness.

Symmetry is used only in `directory_shrink`, over session keys, which nothing orders. `Capacity` stands for 4096, `OutCapacity` for 128 or 32,
`PageLimit` for 200, `Window` for at least 50 messages and `Limit` for at most
20 turns; the code compares them and does nothing else with them.

## Fairness

* A goroutine that can take a step takes one: weak fairness of `ReaderStep`,
  `ShutdownStep`, the caller steps that do not depend on a timer, `ConsumerStep`
  (in `StreamingSpec`), `WatchStep`, `StreamStep`, `ListStep`, `Dialing`, and
  `Proceed(c)` for each call. Nothing is assumed
  of the Gateway, of Close, of cancellation or of a write to an open connection.
* Time passes while a read deadline is set (`Ticking`). Without it a Gateway that
  sends frames faster than any clock could hold up a dial; with it `DialEnds` still
  has to exempt a context without a deadline and a Gateway that goes on sending,
  since every frame sets the deadline anew.
* A request that has been written returns because it has a timeout; the models
  above the client therefore let a request fail as well as succeed. `Proceed(c)` is
  fair, `Hang(c)` is neither fair nor excluded: a call may hang instead of going on,
  and then has nothing left to be fair about, so `CallsReturn` promises only that a call
  returns or hangs in its dial or in a write, where the code sets no limit. The
  subscriptions, the history stream and the listing assume that their writes return.
* The Hub reading its channel is assumed only where the property is about a Hub
  that reads: it is the hypothesis `HubKeepsReading` of two properties of
  `PluginWatch` and part of `ServedSpec` in `HistoryStream`. `CancelEndsWatch` does
  without it.
* In `CancelEndsWatch` the number of events is bounded; in the code a cancelled
  context competes in every `select` with events and room in the channel, and Go
  picks among ready cases at random, so it is not passed over forever.

## Proofs

Every theorem holds for all values of the constants that satisfy the named
assumptions of the modules; TLC evaluates those on the instances.

| Theorem | Says |
| --- | --- |
| **GatewayClientProofs** | *any number of requests, events and replies* |
| `InductiveInvariant` | the strengthening below holds in every reachable state |
| `TypeCorrect` | `TypeOK` |
| `PendingExact` | `PendingIsExact` |
| `WakeupKept` | `NoLostWakeup` |
| `AnswersOwn` | `AnswersAreOwn` |
| `ReasonsTrue` | `FailureReasonIsTrue` |
| `ImplementsStreamSafety` | every behaviour is one of `EventStream`'s `StreamSafety` |
| **SessionDirectoryProofs** | *any timeout, context and directory, any page size, offsets and changes* |
| `NoDeadlineLeft` | no read deadline outside the wait for the challenge |
| `IdleLives` | `IdleConnectionLives` |
| `ListingInvariant` | the strengthening below |
| `ListingTyped` | `TypeOK`: what is published has no session twice |
| `NothingLost` | `GrowthLosesNothing` |
| **SessionProofs** | *any number of calls, operations, runs, approvals and messages* |
| `InductiveInvariant` | the strengthening below |
| `InterruptsHit` | `InterruptHitsNamedRun` |
| `DecisionsArrive` | `DecisionsArriveAsChosen` |
| `DeliveryKept` | `ImplementsDeliveryPromise`, assuming `OneSessionPerMessage` |
| **RunStatusProofs** | *any number of calls and runs* |
| `KnownRuns` | the strengthening below |
| `EndsReal` | `EndsAreReal` |
| `StatusAgrees` | `StatusNeverReverts` |
| **ControlProofs** | *any number of calls, models, levels, catalogues and approvals* |
| `ControlInvariant` | the strengthening below |
| `TypeCorrect` | `TypeOK` of the calls |
| `ConfirmationTrue` | `ConfirmationIsTrue` |
| `TargetOffered` | `TargetWasOffered` |
| `PinsConverge` | `ExplicitPinsConverge` |
| `DetailsBlock` | `DetailsBlockOnPending` |
| **PluginWatchProofs** | *any number of sessions, approvals, events and subscriptions, any capacities* |
| `InductiveInvariant` | the strengthening below |
| `TypeCorrect` | `TypeOK` |
| `HubShowsPending` | `HubConverges` |
| `NoneComesBack` | `NoResurrection` |
| `EndAnnounced` | `EndIsAnnounced` |
| `BlocksUnderWay` | the strengthening below |
| `BlockedLocked` | `BlockedSessionsAreLocked` |
| `InboxInvariant` | the strengthening below |
| `InboxImplemented` | `ImplementsApprovalInbox` |
| **HistoryStreamProofs** | *any history, limit, window, capacities, and any number of edits and events* |
| `PageLists` | which turns a page lists |
| `HistoryInvariant` | the strengthening below |
| `TypeCorrect` | `TypeOK` |
| `OperationsFit` | `OperationsFitView` |
| `CaughtUpCurrent` | `CaughtUpShowsLatest` |
| `TrackingBounded` | `TrackingIsBounded` |
| `PagesGrouped` | `PageIsGrouped` |
| `FeedImplemented` | `ImplementsTurnFeed` |
| `EndAnnounced` | `EndIsAnnounced` |

**The client.** None of its invariants is inductive alone. The inductive invariant
adds: what the read loop holds in each of its places (a response while routing, a
waiter that is the response's own request while delivering); that every answer on
the wire, in the reader's hands, in a channel or in an outcome carries the id of a
request the Gateway received; that the buffer is the interval of event numbers
between `taken` and `accepted` and the wire continues it, which makes a pop hand
over the next event; and that whoever entered `shutdown` had its cause: a socket
that is not open, a full buffer, or Close.

**The handshake.** `DialInv` says where a deadline may be set. The code clears it in
line once the challenge was read (`ReadChallenge`); every other exit of the wait
closes the socket, so one step per exit has to be looked at.

**The directory.** The rows of several pages are joined and then listed once each;
`HintsOfRows` shows that the fold of the source keeps every key and none twice.
`GrowthLosesNothing` is about the end of a listing and so needs `PagingFits` for the
middle of it: while the directory only grows or is used, a session that kept its
place is in the rows read so far or still at or behind the offset. Creating or using
a session pushes the others back, never forward, and the next page begins where the
last one ended (`PutInFront`, `TakeOut`, `PageKeeps`); a deletion would pull them
forward, which is what `directory_shrink` shows.

**The calls.** What is hard is the set `late`: a request performed long after its
call returned must still be one that some call was asked for. `CallsPlaced` ties
each place of a call to its operation, `LateAsked` each request under way to a
call; `Effects` then says of every step, whichever of the four modules it is from,
that it changes the Gateway by a request that was asked for or not at all, and
`OpsKept` that what was asked for never changes. The theorems about interrupts and
decisions look only at those two cases. For deliveries, `SentHome` says that what
the Gateway took in went to the session its message is for, under the
message's id, and `ToldTrue` that a success was only told of such a delivery; the
refinement follows. It needs `OneSessionPerMessage`, which is for the Hub to keep:
a first message has an id that makes a key, and is never sent again as a message of
an existing session. `MCSessionCalls` assumes it of its own instance.

**Run status.** Neither property is inductive, because a status is read in one
request and told after others. `KnownTrue` extends `EndsAreReal` to statuses a call
holds; it stays true because an ended run does not move (`EndsAreKept`).
`LaterAgrees` says of a call that began after another one had returned an end
that it holds, or told, the same one.

**Control and details.** What a call returns was read request by request while peers
and given-up requests went on changing the session, so the invariant `CInv` has to
say what the call knows in between. `Progress`: from its change to its answer a call
sees its own change, in the row as it is and in the row it has read, unless the row
was changed again, which its version tells. `Checked`: the rows that
a call reads and the catalogue a target is checked against were in force at some
moments since the call began, the row no later than the catalogue, and a level that
was set was one of a model of such a moment; the recorded `offers` only grow, so this
stays true (`SinceThen`) until the target is requested and the details are shown.
`PinsHeld`: while all pin requests name one state, neither the row after the first
of them nor any pin still under way holds the other; that is why answers may be lost
and requests performed late. `Seen`: of the approvals pending when the call began,
those that the first list did not show were resolved or are of the other kind, so the
second list shows what is left. `RowKept` says of every step that it leaves the row
alone or makes it one version newer. A call that hangs keeps what it has (`HangFits`).

**The subscriptions.** The invariant follows each approval down the pipeline: the
Gateway's buffer, the list still to replay, the event in the goroutine's hand, the
channel, and what the Hub shows. `OrderKept` says that no request of an approval is
left behind a resolution of it in any of these places or between them, which is
what makes `NoResurrection` hold across replays and reconnections. `NothingMissed`
says that while the connection of a plugin-wide subscription is up, a pending
approval is somewhere in the pipeline or on a list still to be fetched, and a
resolution as well; when the pipeline is empty, that is `HubConverges`.
`Announced` keeps the last event of a subscription that ended by itself at the end
of the channel.

For blocked sessions the same pipeline is followed for snapshots. `LocksFollow`: once
the request of a pending approval was seen, the snapshot in hand, if it is of that
session, is blocked or still has the list of that approval's kind ahead of it, and
otherwise the last snapshot under way to the Hub is blocked. It is what fails when a
snapshot is built without looking for approvals.

The inbox needs less than where each approval is: `UnderWay` says of the buffer, the
list, the hand and the channel that all in them is of the set of what may be told at
the moment. Within a subscription this set only grows (`TellableStays`), so what was
rightly put under way is right on arrival; a new subscription empties it, and finds
the pipeline empty. That a closed approval is not opened again is `OrderKept`.

**The history stream.** Three arguments meet. The first is about pages. `FoldLeft` is
defined by a CHOOSE of a function that satisfies an equation; `FoldExists` (in
`FoldProofs`) and `FoldSteps` show that it goes through the messages one after the
other, by an induction that looks for the smallest counterexample (`EveryNumber`,
from the library's theorem that finite sets are well founded under inclusion).
`Placed` is what holds after each message: the turns so far are those of the heads so
far, in order, each with the positions up to here that belong to it, in order.
At the end of the window this gives `PagesGrouped`; the cardinalities and CHOOSEs of
`Groups` are the places of an ordered list (`EnumeratedPlace`, `EnumeratedChoice`).
Said of ids (`WindowGroups`), it gives `PageLists`: a page lists exactly the turns
that started in the window and do not have `Limit` user messages after them. Both ways to leave a
page (`Gone`) are for ever, because messages keep their roles and the window only
moves on (`HistoryStays`).

The second is about the Hub. `Leads(u, q, v)` says that the events of q can be applied
to view u one after the other, each of them fitting, and give v. `HubFits` keeps a v
to which the channel and the event being sent lead, and which `Promises` relates to
the maps: a turn that is remembered is in v as remembered, and a turn in v that is not
is gone, so that forgetting it can never make the stream append it twice. `Fresh` says
that a page which is out of date has an event in the buffer that will reload it, which
for an empty buffer is `CaughtUpShowsLatest`.

The third is about the turn feed. A loaded turn is everything said from its id on, as
it is at that moment (`PageComplete`), so it continues whatever was ever shown of it
(`CompleteContinues`), and what was shown rightly stays so while the history moves on
(`HadStays`). But between the load and the Hub lie the rest of the page, the event
being sent and the channel; `NewsFits` orders them all: each event continues the
Hub's picture and every event of its turn ahead of it, and each turn of the page
still to be handled continues all of these. `FeedSteps` then maps the receipt of a
turn to the one step of `TurnFeed`, the Gateway's steps to changes of the history,
and every other step to a stutter.

The proofs assume what the modules name: finitely many approvals and sessions of a
directory, `None` apart from sessions, approvals and snapshots, capacities of at least one, and,
of the calls, `TargetAssumption`: no target is not one of the two states of a pin, and
`LevelsAssumption`: the levels of every model are levels.

Only model-checked:

* everything about time, because the provers do not handle fairness and ENABLED:
  `ImplementsEventStream` beyond its safety part, `ShutdownReleasesEveryone`,
  `ReplyReachesCaller`, `CancelEndsWatch`, `LostConnectionEndsWatch`,
  `ApprovalReachesHub`, `HubEventuallyCurrent`, `ListingEnds`, `DialEnds` and
  `CallsReturn`.

Every invariant and every other property of a passing run has a theorem.

## Findings

Five places where the code and what the repository says of it part; each has a
run whose counterexample shows it.

* `watch_status`: an agent event with phase `end` is converted to a completed run
  and carries a snapshot that says idle; `start` is converted to running and
  carries idle, unlocked controls. Comment and test want the two to agree.
* `watch_replay`: a pending-approval list that fails is skipped, so its approvals
  are never replayed; the schema document promises the replay.
* `history_handoff`: more than `limit` turns between two loads push older ones out
  of the page unseen; the comment says the hand-over cannot lose a turn.
* `directory_shrink`: a deletion between two pages hides another session from a
  listing that is published as complete.
* `session_timeout`: WaitForRun publishes every status but failed as run.completed,
  that of a wait whose timeout passed included, and attaches an inactive run; the
  comment calls it a terminal snapshot, and the schema document says that timeout
  means the run goes on. `EndsAreReal` holds nevertheless: the status that goes with
  the event is `timeout` and not `completed`.

Without a run: the comment above `gatewayHistoryTurns` says that orphan assistant
rows are not exposed, while the comment inside it and its test want them exposed,
as `PageIsGrouped` does.

## Plan

Done: the client with its abstract stream and proofs; the handshake; both
subscriptions with the approval inbox they implement, and the history stream with
the turn feed it implements, with proofs of their safety; the session directory
with proofs; the calls about a session with delivery as an abstract specification,
and the proofs of their safety. Next:

1. **Message ids** derived from positions in the window, and the top-level approval
   of a snapshot beside the one its run names.

## Not modelled

* Discovery of endpoint, token and binary, and the probe: files, environment and
  one health request, with no state and nothing concurrent.
* Reading a page of history without a stream, the summary of the latest assistant
  message, attachment encoding, titles, previews, option labels and other text:
  pure conversions whose result no later step depends on. Attaching a file is in
  `MessageDelivery` as the step that may fail before a send.
* AttachSession, which returns what it is given.
* The SDK and its process protocol, the entry point that wires it, the build and
  release scripts.

They hold no protocol state, or none that depends on the order of events. Within
the modelled parts, compaction and deletion of messages while a history streams,
and message ids made from positions, are left out.

## Running

    tlc -workers 2 -config MCGatewayClient_stream.cfg MCGatewayClient
    tlapm GatewayClientProofs.tla
    tlapm SessionProofs.tla
    tlapm RunStatusProofs.tla
    tlapm ControlProofs.tla
    tlapm SessionDirectoryProofs.tla
    tlapm PluginWatchProofs.tla
    tlapm FoldProofs.tla
    tlapm HistoryStreamProofs.tla
