--------------------------- MODULE GatewayClient ---------------------------
(***************************************************************************)
(* The RPC client of openclaw/gateway_client.go: one WebSocket, one read   *)
(* loop that routes responses to the callers by request id and events into *)
(* a bounded buffer, any number of concurrent requests, one consumer of    *)
(* events and a shutdown that may be entered by the read loop or by Close. *)
(*                                                                         *)
(* Every critical section, channel operation and socket operation is one   *)
(* step.  Time is abstracted: a timer or a context may fire at any moment  *)
(* the code listens to it.  Requests is the set of request ids, each used  *)
(* once (uuid.NewString).  An event is its sequence number (frame.Seq).    *)
(***************************************************************************)
EXTENDS Naturals, Sequences

CONSTANTS
  Requests,    \* request ids
  None,        \* no request, no channel content, no lock holder
  Capacity,    \* maxBufferedEvents
  MaxEvents,   \* bound: events the Gateway emits
  MaxReplies,  \* bound: replies the Gateway sends to one request
  MaxNoise     \* bound: frames that are neither a response nor an event

ASSUME NoneAssumption == None \notin Requests
ASSUME BoundsAssumption ==
  /\ Capacity \in Nat \ {0}
  /\ MaxEvents \in Nat
  /\ MaxReplies \in Nat
  /\ MaxNoise \in Nat

VARIABLES
  wire,         \* frames the Gateway sent and the read loop has not read
  emitted,      \* number of events the Gateway has sent
  replies,      \* replies[r]: how many times the Gateway answered r
  noise,        \* number of other frames sent
  inbox,        \* requests that reached the Gateway
  conn,         \* the socket: "open", "lost" (peer or network), "closed"
  pending,      \* ids with a registered response channel
  response,     \* response[r]: content of r's channel (capacity 1), or None
  writeMu,      \* the request holding writeMu, or None
  caller,       \* where the goroutine of request r is
  outcome,      \* what RequestAny returned for r
  reader,       \* where readLoop is
  frame,        \* the frame readLoop is handling, or None
  waiter,       \* the channel readLoop found for it, or None
  events,       \* the event buffer
  eventSignal,  \* the one-slot wakeup channel
  done,         \* whether the done channel is closed
  readErr,      \* "none" is nil
  closeOnce,    \* progress of the one execution of shutdown's body
  owner,        \* the goroutine that calls Close
  consumer,     \* where NextEventWithTimeout is
  ending,       \* the error NextEventWithTimeout returned, "none" before
  accepted,     \* history: events pushed
  taken,        \* history: events popped
  handed        \* history: the event popped last

gatewayVars == <<wire, emitted, replies, noise, inbox>>
callerVars == <<pending, writeMu, caller, outcome>>
readerVars == <<reader, frame, waiter>>
shutdownVars == <<done, readErr, closeOnce>>
endVars == <<shutdownVars, owner>>
consumerVars == <<consumer, ending, taken, handed>>
bufferVars == <<events, eventSignal, accepted>>
streamVars == <<bufferVars, consumerVars>>
loopVars == <<readerVars, streamVars, endVars>>   \* what no caller changes
clientVars == <<conn, callerVars, response>>
vars == <<gatewayVars, clientVars, loopVars>>

ResponseFrame == [type : {"res"}, id : Requests, ok : BOOLEAN]
EventFrame == [type : {"event"}, seq : 1 .. MaxEvents]
OtherFrame == [type : {"other"}]
Frame == ResponseFrame \cup EventFrame \cup OtherFrame

\* Why a request failed without an answer: its write failed, its context or
\* its timer fired, or the connection ended.
Failure == [error : {"write", "gaveUp", "read", "overflow", "closed"}]
Pending == [error |-> "none"]

\* connectionError: the reason shutdown recorded, or a plain Close.
ConnectionError == IF readErr = "none" THEN "closed" ELSE readErr

Init ==
  /\ wire = <<>>
  /\ emitted = 0
  /\ replies = [r \in Requests |-> 0]
  /\ noise = 0
  /\ inbox = {}
  /\ conn = "open"
  /\ pending = {}
  /\ response = [r \in Requests |-> None]
  /\ writeMu = None
  /\ caller = [r \in Requests |-> "idle"]
  /\ outcome = [r \in Requests |-> Pending]
  /\ reader = "reading"
  /\ frame = None
  /\ waiter = None
  /\ events = <<>>
  /\ eventSignal = FALSE
  /\ done = FALSE
  /\ readErr = "none"
  /\ closeOnce = "unused"
  /\ owner = "using"
  /\ consumer = "idle"
  /\ ending = "none"
  /\ accepted = 0
  /\ taken = 0
  /\ handed = 0
-----------------------------------------------------------------------------
(* The Gateway and the network, external.  Responses come in any order,    *)
(* late, repeated or never; the network may fail at any moment.            *)

GatewayReply(r, ok) ==
  /\ conn = "open"
  /\ r \in inbox
  /\ replies[r] < MaxReplies
  /\ replies' = [replies EXCEPT ![r] = @ + 1]
  /\ wire' = Append(wire, [type |-> "res", id |-> r, ok |-> ok])
  /\ UNCHANGED <<emitted, noise, inbox, clientVars, loopVars>>

GatewayEmit ==
  /\ conn = "open"
  /\ emitted < MaxEvents
  /\ emitted' = emitted + 1
  /\ wire' = Append(wire, [type |-> "event", seq |-> emitted + 1])
  /\ UNCHANGED <<replies, noise, inbox, clientVars, loopVars>>

GatewayNoise ==
  /\ conn = "open"
  /\ noise < MaxNoise
  /\ noise' = noise + 1
  /\ wire' = Append(wire, [type |-> "other"])
  /\ UNCHANGED <<emitted, replies, inbox, clientVars, loopVars>>

ConnectionLost ==
  /\ conn = "open"
  /\ conn' = "lost"
  /\ UNCHANGED <<gatewayVars, callerVars, response, loopVars>>
-----------------------------------------------------------------------------
(* A caller of RequestAnyWithTimeout.                                      *)

\* Puts the caller of r where it goes next.
CallerTo(r, place) == caller' = [caller EXCEPT ![r] = place]

\* Ends the wait of r with what it returns; the deferred delete is left.
Return(r, result) ==
  /\ CallerTo(r, "returning")
  /\ outcome' = [outcome EXCEPT ![r] = result]

Register(r) ==
  /\ caller[r] = "idle"
  /\ CallerTo(r, "registered")
  /\ pending' = pending \cup {r}
  /\ UNCHANGED <<gatewayVars, conn, response, writeMu, outcome, loopVars>>

LockWrite(r) ==
  /\ caller[r] = "registered"
  /\ writeMu = None
  /\ writeMu' = r
  /\ CallerTo(r, "writing")
  /\ UNCHANGED <<gatewayVars, conn, pending, response, outcome, loopVars>>

\* A write on a lost connection may still succeed locally; the frame is gone.
WriteFrame(r) ==
  /\ caller[r] = "writing"
  /\ conn # "closed"
  /\ inbox' = IF conn = "open" THEN inbox \cup {r} ELSE inbox
  /\ writeMu' = None
  /\ CallerTo(r, "waiting")
  /\ UNCHANGED <<wire, emitted, replies, noise, conn, pending, response,
                 outcome, loopVars>>

WriteError(r) ==
  /\ caller[r] = "writing"
  /\ conn # "open"
  /\ writeMu' = None
  /\ Return(r, [error |-> "write"])
  /\ UNCHANGED <<gatewayVars, conn, pending, response, loopVars>>

\* The select: of the ready cases Go picks any.
ReceiveResponse(r) ==
  /\ caller[r] = "waiting"
  /\ response[r] # None
  /\ Return(r, response[r])
  /\ response' = [response EXCEPT ![r] = None]
  /\ UNCHANGED <<gatewayVars, conn, pending, writeMu, loopVars>>

GiveUp(r) ==
  /\ caller[r] = "waiting"
  /\ Return(r, [error |-> "gaveUp"])
  /\ UNCHANGED <<gatewayVars, conn, pending, writeMu, response, loopVars>>

SeeDone(r) ==
  /\ caller[r] = "waiting"
  /\ done
  /\ Return(r, [error |-> ConnectionError])
  /\ UNCHANGED <<gatewayVars, conn, pending, writeMu, response, loopVars>>

UnregisterLeaking(r) ==
  /\ caller[r] = "returning"
  /\ CallerTo(r, "returned")
  /\ UNCHANGED <<gatewayVars, conn, pending, response, writeMu, outcome,
                 loopVars>>

Unregister(r) ==
  /\ caller[r] = "returning"
  /\ CallerTo(r, "returned")
  /\ pending' = pending \ {r}
  /\ UNCHANGED <<gatewayVars, conn, response, writeMu, outcome, loopVars>>
-----------------------------------------------------------------------------
(* shutdown: entered by the read loop with an error or by Close with nil;  *)
(* sync.Once runs the body once and makes a second entrant wait for it.    *)

\* Entering closeOnce.Do: the first entrant records its error.
EnterOnceForgettingError(err) ==
  /\ closeOnce' = IF closeOnce = "unused" THEN "errSet" ELSE closeOnce
  /\ UNCHANGED readErr

EnterOnce(err) ==
  /\ closeOnce' = IF closeOnce = "unused" THEN "errSet" ELSE closeOnce
  /\ readErr' = IF closeOnce = "unused" THEN err ELSE readErr

CloseDone ==
  /\ closeOnce = "errSet"
  /\ closeOnce' = "doneClosed"
  /\ done' = TRUE
  /\ UNCHANGED <<gatewayVars, clientVars, readerVars, streamVars, readErr,
                 owner>>

CloseConnForgotten ==
  /\ closeOnce = "doneClosed"
  /\ closeOnce' = "finished"
  /\ UNCHANGED <<gatewayVars, clientVars, readerVars, streamVars, done,
                 readErr, owner>>

CloseConn ==
  /\ closeOnce = "doneClosed"
  /\ closeOnce' = "finished"
  /\ conn' = "closed"
  /\ UNCHANGED <<gatewayVars, callerVars, response, readerVars, streamVars,
                 done, readErr, owner>>

Close ==
  /\ owner = "using"
  /\ owner' = "closing"
  /\ EnterOnce("none")
  /\ UNCHANGED <<gatewayVars, clientVars, readerVars, streamVars, done>>

CloseReturns ==
  /\ owner = "closing"
  /\ closeOnce = "finished"
  /\ owner' = "closed"
  /\ UNCHANGED <<gatewayVars, clientVars, readerVars, streamVars,
                 shutdownVars>>
-----------------------------------------------------------------------------
(* readLoop                                                                *)

ReadFrame ==
  /\ reader = "reading"
  /\ wire # <<>>
  /\ wire' = Tail(wire)
  /\ LET next == Head(wire) IN
       \/ /\ next.type = "res"
          /\ reader' = "routing"
          /\ frame' = next
       \/ /\ next.type = "event"
          /\ reader' = "pushing"
          /\ frame' = next
       \/ /\ next.type = "other"
          /\ UNCHANGED <<reader, frame>>
  /\ UNCHANGED <<emitted, replies, noise, inbox, clientVars, waiter,
                 streamVars, endVars>>

\* Frames already received may be lost with the connection, or still be read.
ReadError ==
  /\ reader = "reading"
  /\ conn # "open"
  /\ reader' = "readFailed"
  /\ UNCHANGED <<gatewayVars, clientVars, frame, waiter, streamVars, endVars>>

\* The channel of a response: the one registered under its id.
WaiterOfAnyPending(id) == IF pending = {} THEN None ELSE CHOOSE r \in pending : TRUE

WaiterOf(id) == IF id \in pending THEN id ELSE None

FindWaiter ==
  /\ reader = "routing"
  /\ waiter' = WaiterOf(frame.id)
  /\ reader' = IF waiter' = None THEN "reading" ELSE "delivering"
  /\ frame' = IF waiter' = None THEN None ELSE frame
  /\ UNCHANGED <<gatewayVars, clientVars, streamVars, endVars>>

\* The non-blocking send: a second response to a full channel is dropped.
DeliverResponse ==
  /\ reader = "delivering"
  /\ response' = [response EXCEPT ![waiter] = IF @ = None THEN frame ELSE @]
  /\ reader' = "reading"
  /\ frame' = None
  /\ waiter' = None
  /\ UNCHANGED <<gatewayVars, conn, callerVars, streamVars, endVars>>

\* pushEvent up to its unlock.
PushEventUnchecked ==
  /\ reader = "pushing"
  /\ events' = Append(events, frame.seq)
  /\ accepted' = accepted + 1
  /\ reader' = "signalling"
  /\ frame' = None
  /\ UNCHANGED <<gatewayVars, clientVars, waiter, eventSignal, endVars,
                 consumerVars>>

PushEventWaitingForRoom ==
  /\ Len(events) < Capacity
  /\ PushEventUnchecked

PushEvent ==
  /\ reader = "pushing"
  /\ \/ /\ Len(events) >= Capacity
        /\ reader' = "overflowed"
        /\ UNCHANGED <<events, accepted>>
     \/ /\ Len(events) < Capacity
        /\ events' = Append(events, frame.seq)
        /\ accepted' = accepted + 1
        /\ reader' = "signalling"
  /\ frame' = None
  /\ UNCHANGED <<gatewayVars, clientVars, waiter, eventSignal, endVars,
                 consumerVars>>

\* pushEvent's non-blocking send on eventSignal, after the unlock.
SignalOmitted ==
  /\ reader = "signalling"
  /\ reader' = "reading"
  /\ UNCHANGED <<gatewayVars, clientVars, frame, waiter, streamVars, endVars>>

SignalConsumer ==
  /\ reader = "signalling"
  /\ reader' = "reading"
  /\ eventSignal' = TRUE
  /\ UNCHANGED <<gatewayVars, clientVars, frame, waiter, events, endVars,
                 consumerVars, accepted>>

ReaderShutsDown ==
  /\ \/ reader = "readFailed" /\ EnterOnce("read")
     \/ reader = "overflowed" /\ EnterOnce("overflow")
  /\ reader' = "closing"
  /\ UNCHANGED <<gatewayVars, clientVars, frame, waiter, streamVars, done,
                 owner>>

ReaderExits ==
  /\ reader = "closing"
  /\ closeOnce = "finished"
  /\ reader' = "exited"
  /\ UNCHANGED <<gatewayVars, clientVars, frame, waiter, streamVars, endVars>>
-----------------------------------------------------------------------------
(* NextEventWithTimeout, called in a loop by the one subscription goroutine *)
(* that owns the event side; it does not call again after an error.        *)

\* popEvent succeeding: the head goes to the consumer, and a buffer that is
\* still not empty is signalled again.
PopEvent ==
  /\ events # <<>>
  /\ handed' = Head(events)
  /\ taken' = taken + 1
  /\ events' = Tail(events)
  /\ eventSignal' = IF Len(events) > 1 THEN TRUE ELSE eventSignal
  /\ consumer' = "idle"
  /\ UNCHANGED ending

StreamEnds(why) ==
  /\ consumer' = "ended"
  /\ ending' = why
  /\ UNCHANGED <<taken, handed, events, eventSignal>>

NextEvent ==
  /\ consumer = "idle"
  /\ consumer' = "polling"
  /\ UNCHANGED <<gatewayVars, clientVars, readerVars, bufferVars, endVars,
                 ending, taken, handed>>

Poll ==
  /\ consumer = "polling"
  /\ \/ PopEvent
     \/ /\ events = <<>>
        /\ consumer' = "selecting"
        /\ UNCHANGED <<ending, taken, handed, events, eventSignal>>
  /\ UNCHANGED <<gatewayVars, clientVars, readerVars, endVars, accepted>>

WakeOnSignal ==
  /\ consumer = "selecting"
  /\ eventSignal
  /\ eventSignal' = FALSE
  /\ consumer' = "polling"
  /\ UNCHANGED <<gatewayVars, clientVars, readerVars, events, endVars, ending,
                 taken, handed, accepted>>

ConsumerGivesUp ==
  /\ consumer = "selecting"
  /\ StreamEnds("gaveUp")
  /\ UNCHANGED <<gatewayVars, clientVars, readerVars, endVars, accepted>>

WakeOnDone ==
  /\ consumer = "selecting"
  /\ done
  /\ consumer' = "draining"
  /\ UNCHANGED <<gatewayVars, clientVars, readerVars, bufferVars, endVars,
                 ending, taken, handed>>

\* Under done, what is still buffered goes first.
DrainSkipped ==
  /\ consumer = "draining"
  /\ StreamEnds(ConnectionError)
  /\ UNCHANGED <<gatewayVars, clientVars, readerVars, endVars, accepted>>

Drain ==
  /\ consumer = "draining"
  /\ \/ PopEvent
     \/ events = <<>> /\ StreamEnds(ConnectionError)
  /\ UNCHANGED <<gatewayVars, clientVars, readerVars, endVars, accepted>>
-----------------------------------------------------------------------------
GatewayStep ==
  \/ \E r \in Requests, ok \in BOOLEAN : GatewayReply(r, ok)
  \/ GatewayEmit
  \/ GatewayNoise
  \/ ConnectionLost

CallerStep(r) ==
  \/ Register(r)
  \/ LockWrite(r)
  \/ WriteFrame(r)
  \/ WriteError(r)
  \/ ReceiveResponse(r)
  \/ GiveUp(r)
  \/ SeeDone(r)
  \/ Unregister(r)

ReaderStep ==
  \/ ReadFrame
  \/ ReadError
  \/ FindWaiter
  \/ DeliverResponse
  \/ PushEvent
  \/ SignalConsumer
  \/ ReaderShutsDown
  \/ ReaderExits

ShutdownStep ==
  \/ CloseDone
  \/ CloseConn
  \/ CloseReturns

ConsumerStep ==
  \/ NextEvent
  \/ Poll
  \/ WakeOnSignal
  \/ WakeOnDone
  \/ Drain

Next ==
  \/ GatewayStep
  \/ \E r \in Requests : CallerStep(r)
  \/ ReaderStep
  \/ ShutdownStep
  \/ Close
  \/ ConsumerStep
  \/ ConsumerGivesUp

Spec == Init /\ [][Next]_vars

\* A runnable goroutine runs.  Nothing is assumed of the Gateway, of timers,
\* contexts or Close, nor that a write to an open connection completes.
Fairness ==
  /\ WF_vars(ReaderStep)
  /\ WF_vars(ShutdownStep)
  /\ \A r \in Requests :
       /\ WF_vars(LockWrite(r))
       /\ WF_vars(WriteError(r))
       /\ WF_vars(ReceiveResponse(r) \/ SeeDone(r))
       /\ WF_vars(Unregister(r))

FairSpec == Spec /\ Fairness

\* The subscription goroutine comes back for the next event.
StreamingSpec == FairSpec /\ WF_vars(ConsumerStep)
-----------------------------------------------------------------------------
TypeOK ==
  /\ wire \in Seq(Frame)
  /\ emitted \in 0 .. MaxEvents
  /\ replies \in [Requests -> 0 .. MaxReplies]
  /\ noise \in 0 .. MaxNoise
  /\ inbox \subseteq Requests
  /\ conn \in {"open", "lost", "closed"}
  /\ pending \subseteq Requests
  /\ response \in [Requests -> ResponseFrame \cup {None}]
  /\ writeMu \in Requests \cup {None}
  /\ caller \in [Requests -> {"idle", "registered", "writing", "waiting",
                              "returning", "returned"}]
  /\ outcome \in [Requests -> ResponseFrame \cup Failure \cup {Pending}]
  /\ reader \in {"reading", "routing", "delivering", "pushing", "signalling",
                 "readFailed", "overflowed", "closing", "exited"}
  /\ frame \in Frame \cup {None}
  /\ waiter \in Requests \cup {None}
  /\ events \in Seq(1 .. MaxEvents)
  /\ Len(events) <= Capacity
  /\ eventSignal \in BOOLEAN
  /\ done \in BOOLEAN
  /\ readErr \in {"none", "read", "overflow"}
  /\ closeOnce \in {"unused", "errSet", "doneClosed", "finished"}
  /\ owner \in {"using", "closing", "closed"}
  /\ consumer \in {"idle", "polling", "selecting", "draining", "ended"}
  /\ ending \in {"none", "gaveUp", "read", "overflow", "closed"}
  /\ accepted \in Nat
  /\ taken \in Nat
  /\ handed \in 0 .. MaxEvents
-----------------------------------------------------------------------------
\* A response channel is registered exactly while its request runs: no return
\* path of RequestAnyWithTimeout leaks an entry, and none is removed early.
PendingIsExact ==
  pending = {r \in Requests : caller[r] \notin {"idle", "returned"}}

\* Whatever times out, arrives late or arrives twice, a request only ever
\* returns a response carrying its own id, to a request the Gateway received.
AnswersAreOwn ==
  \A r \in Requests :
    outcome[r] \in ResponseFrame => outcome[r].id = r /\ r \in inbox

\* The consumer never sleeps on a non-empty buffer: its wakeup is in the slot
\* or the read loop is about to put it there.
NoLostWakeup ==
  consumer = "selecting" /\ events # <<>> =>
    eventSignal \/ reader = "signalling"

\* connectionError tells the truth: "client closed" only after Close, a read
\* error only when the socket is gone, "buffer exceeded" only to a consumer
\* that first received a full buffer of events.
FailureReasonIsTrue ==
  /\ \A r \in Requests :
       /\ outcome[r] = [error |-> "closed"] => owner # "using"
       /\ outcome[r] = [error |-> "read"] => conn # "open"
       /\ outcome[r] = [error |-> "overflow"] => accepted >= Capacity
  /\ ending = "closed" => owner # "using"
  /\ ending = "read" => conn # "open" /\ events = <<>>
  /\ ending = "overflow" => taken >= Capacity /\ events = <<>>

\* The event side implements the abstract stream: arrival order, no loss, no
\* duplicate, bounded, drained before a connection error is reported.
Stream == INSTANCE EventStream
ImplementsEventStream == Stream!StreamSpec

\* A reply on the wire releases its caller although nobody consumes events
\* and no timer fires: the read loop never blocks on the event buffer or on a
\* caller.
ReplyReachesCaller ==
  \A r \in Requests :
    (\E i \in DOMAIN wire : wire[i].type = "res" /\ wire[i].id = r) /\ caller[r] = "waiting"
      ~> caller[r] = "returned"

\* A shutdown releases every goroutine: each running request returns, one
\* stuck in WriteJSON or behind writeMu included, Close returns and the read
\* loop exits, without any timer firing.
ShutdownReleasesEveryone ==
  /\ \A r \in Requests :
       closeOnce # "unused" /\ caller[r] # "idle" ~> caller[r] = "returned"
  /\ closeOnce # "unused" ~> reader = "exited"
  /\ owner = "closing" ~> owner = "closed"
=============================================================================
