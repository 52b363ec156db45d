------------------------ MODULE GatewayClientProofs ------------------------
(***************************************************************************)
(* Theorems about GatewayClient for every set of request ids, buffer       *)
(* capacity and number of events and replies: type correctness, the safety *)
(* invariants and that the event side implements EventStream.              *)
(***************************************************************************)
EXTENDS GatewayClient, SequenceTheorems, TLAPS

\* What readLoop holds in each of its places.
ReaderHolds ==
  /\ reader \in {"routing", "delivering"} => frame \in ResponseFrame
  /\ reader = "pushing" => frame \in EventFrame
  /\ reader = "delivering" => waiter = frame.id

\* Responses on their way are to requests the Gateway received, and the
\* channel of a request only ever holds responses to that request.
ResponsesRouted ==
  /\ \A i \in 1 .. Len(wire) : wire[i].type = "res" => wire[i].id \in inbox
  /\ reader \in {"routing", "delivering"} => frame.id \in inbox
  /\ \A r \in Requests :
       response[r] # None => response[r].id = r /\ r \in inbox

\* While readLoop still reads, the events on the wire are those after the
\* ones it has read, each once and in increasing order.
Reading == reader \in {"reading", "routing", "delivering", "pushing", "signalling"}

LastRead == IF reader = "pushing" THEN accepted + 1 ELSE accepted

IsEvent(i) == wire[i].type = "event"

WireInOrder ==
  Reading =>
    /\ LastRead <= emitted
    /\ \A i \in 1 .. Len(wire) :
         IsEvent(i) => LastRead < wire[i].seq /\ wire[i].seq <= emitted
    /\ \A i, j \in 1 .. Len(wire) :
         IsEvent(i) /\ IsEvent(j) /\ i < j => wire[i].seq < wire[j].seq
    /\ \A n \in 1 .. MaxEvents :
         LastRead < n /\ n <= emitted =>
           \E i \in 1 .. Len(wire) : IsEvent(i) /\ wire[i].seq = n

\* The buffer holds exactly the accepted events not yet taken, in order.
BufferInOrder ==
  /\ taken + Len(events) = accepted
  /\ \A i \in 1 .. Len(events) : events[i] = taken + i
  /\ handed = taken
  /\ reader = "pushing" => frame.seq = accepted + 1

\* How far a shutdown has come and who caused it.
ShutdownCause ==
  /\ done => closeOnce \in {"doneClosed", "finished"}
  /\ closeOnce = "unused" => readErr = "none"
  /\ closeOnce # "unused" /\ readErr = "none" => owner # "using"
  /\ readErr # "none" => reader \in {"closing", "exited"}
  /\ reader = "readFailed" \/ readErr = "read" => conn # "open"
  /\ reader = "overflowed" \/ readErr = "overflow" => accepted >= Capacity
  /\ consumer = "draining" => done
  /\ ending = "none" <=> consumer # "ended"
  /\ ending \in {"read", "overflow"} => readErr = ending

IInv ==
  /\ TypeOK
  /\ ReaderHolds
  /\ ResponsesRouted
  /\ WireInOrder
  /\ BufferInOrder
  /\ ShutdownCause
-----------------------------------------------------------------------------
USE NoneAssumption, BoundsAssumption

\* What the read loop may find on the wire is a frame, and the rest of the
\* wire is a wire.
LEMMA WireTail ==
  ASSUME TypeOK, wire # <<>>
  PROVE  /\ Head(wire) \in Frame
         /\ Tail(wire) \in Seq(Frame)
         /\ Len(wire) \in Nat \ {0}
         /\ Len(Tail(wire)) = Len(wire) - 1
         /\ Head(wire) = wire[1]
         /\ \A i \in 1 .. Len(Tail(wire)) : Tail(wire)[i] = wire[i + 1]
<1>1. wire \in Seq(Frame)
  BY DEF TypeOK
<1> QED
  BY <1>1

\* Popping keeps the buffer a bounded sequence of event numbers.
LEMMA BufferTail ==
  ASSUME TypeOK, events # <<>>
  PROVE  /\ Head(events) \in 1 .. MaxEvents
         /\ Tail(events) \in Seq(1 .. MaxEvents)
         /\ Len(events) \in Nat \ {0}
         /\ Len(Tail(events)) = Len(events) - 1
         /\ Head(events) = events[1]
         /\ \A i \in 1 .. Len(Tail(events)) : Tail(events)[i] = events[i + 1]
<1>1. events \in Seq(1 .. MaxEvents)
  BY DEF TypeOK
<1> QED
  BY <1>1

\* The three kinds of frame are told apart by their type.
LEMMA FrameKinds ==
  /\ \A f \in Frame : f.type = "res" => f \in ResponseFrame
  /\ \A f \in Frame : f.type = "event" => f \in EventFrame
  /\ None \notin Requests
  /\ \A f \in ResponseFrame : f.type = "res" /\ f.id \in Requests
  /\ \A f \in EventFrame : f.type = "event" /\ f.seq \in 1 .. MaxEvents
BY DEF Frame, ResponseFrame, EventFrame, OtherFrame

\* A successful popEvent keeps the types of what it changes.
LEMMA PopTypes ==
  ASSUME TypeOK, PopEvent
  PROVE  /\ handed' \in 0 .. MaxEvents
         /\ taken' \in Nat
         /\ events' \in Seq(1 .. MaxEvents)
         /\ Len(events') <= Capacity
         /\ eventSignal' \in BOOLEAN
         /\ consumer' = "idle"
         /\ ending' = ending
<1>1. events # <<>>
  BY DEF PopEvent
<1>2. events' = Tail(events) /\ handed' = Head(events) /\ taken' = taken + 1
  BY DEF PopEvent
<1>3. eventSignal' = TRUE \/ eventSignal' = eventSignal
  BY DEF PopEvent
<1>4. Len(events) <= Capacity
  BY DEF TypeOK
<1>5. handed' \in 0 .. MaxEvents /\ events' \in Seq(1 .. MaxEvents)
  BY <1>1, <1>2, BufferTail
<1>6. Len(events') <= Capacity
  BY <1>1, <1>2, <1>4, BufferTail
<1>7. taken' \in Nat
  BY <1>2 DEF TypeOK
<1>8. eventSignal' \in BOOLEAN
  BY <1>3, Zenon DEF TypeOK
<1>9. consumer' = "idle" /\ ending' = ending
  BY DEF PopEvent
<1> QED
  BY <1>5, <1>6, <1>7, <1>8, <1>9

\* Every step keeps the types, given what the read loop holds.
LEMMA TypeStep ==
  ASSUME TypeOK, ReaderHolds, [Next]_vars
  PROVE  TypeOK'
<1> USE DEF TypeOK, Frame, ResponseFrame, EventFrame, OtherFrame, Failure,
            Pending, gatewayVars, callerVars, readerVars, shutdownVars,
            consumerVars, endVars, bufferVars, streamVars, loopVars, clientVars
<1>1. CASE GatewayStep
  <2>1. ASSUME NEW r \in Requests, NEW ok \in BOOLEAN, GatewayReply(r, ok)
        PROVE  TypeOK'
    BY <2>1 DEF GatewayReply
  <2>2. CASE GatewayEmit
    BY <2>2 DEF GatewayEmit
  <2>3. CASE GatewayNoise
    BY <2>3 DEF GatewayNoise
  <2>4. CASE ConnectionLost
    BY <2>4 DEF ConnectionLost
  <2> HIDE DEF TypeOK
  <2> QED
    BY <1>1, <2>1, <2>2, <2>3, <2>4 DEF GatewayStep
<1>2. ASSUME NEW r \in Requests, CallerStep(r)
      PROVE  TypeOK'
  <2>1. CASE Register(r)
    BY <2>1 DEF Register, CallerTo
  <2>2. CASE LockWrite(r)
    BY <2>2 DEF LockWrite, CallerTo
  <2>3. CASE WriteFrame(r)
    BY <2>3 DEF WriteFrame, CallerTo
  <2>4. CASE WriteError(r)
    BY <2>4 DEF WriteError, CallerTo, Return
  <2>5. CASE ReceiveResponse(r)
    BY <2>5 DEF ReceiveResponse, CallerTo, Return
  <2>6. CASE GiveUp(r)
    BY <2>6 DEF GiveUp, CallerTo, Return
  <2>7. CASE SeeDone(r)
    BY <2>7 DEF SeeDone, CallerTo, Return, ConnectionError
  <2>8. CASE Unregister(r)
    BY <2>8 DEF Unregister, CallerTo
  <2> QED
    BY <1>2, <2>1, <2>2, <2>3, <2>4, <2>5, <2>6, <2>7, <2>8 DEF CallerStep
<1>3. CASE ReaderStep
  <2>1. CASE ReadFrame
    <3>1. wire' \in Seq(Frame) /\ Head(wire) \in Frame
      BY <2>1, WireTail, Zenon DEF ReadFrame
    <3>2. frame' \in Frame \cup {None} /\ reader' \in {"reading", "routing", "pushing"}
      BY <2>1, <3>1 DEF ReadFrame
    <3>3. UNCHANGED <<emitted, replies, noise, inbox, conn, callerVars, response,
                      waiter, events, eventSignal, shutdownVars, owner,
                      consumerVars, accepted>>
      BY <2>1, Zenon DEF ReadFrame
    <3> QED
      BY <3>1, <3>2, <3>3
  <2>2. CASE ReadError
    BY <2>2 DEF ReadError
  <2>3. CASE FindWaiter
    BY <2>3 DEF FindWaiter, WaiterOf
  <2>4. CASE DeliverResponse
    <3>1. frame \in ResponseFrame /\ waiter = frame.id
      BY <2>4, FrameKinds DEF DeliverResponse, ReaderHolds
    <3>2. waiter \in Requests
      BY <3>1, FrameKinds
    <3>3. response' \in [Requests -> ResponseFrame \cup {None}]
      BY <2>4, <3>1, <3>2 DEF DeliverResponse
    <3> QED
      BY <2>4, <3>3 DEF DeliverResponse
  <2>5. CASE PushEvent
    <3>1. frame \in EventFrame
      BY <2>5 DEF PushEvent, ReaderHolds
    <3>2. frame.seq \in 1 .. MaxEvents
      BY <3>1, FrameKinds
    <3>3. CASE Len(events) >= Capacity
      BY <2>5, <3>3 DEF PushEvent
    <3>4. CASE Len(events) < Capacity
      <4>1. events' = Append(events, frame.seq)
        BY <2>5, <3>4 DEF PushEvent
      <4>2. events' \in Seq(1 .. MaxEvents) /\ Len(events') = Len(events) + 1
        BY <3>2, <4>1
      <4>3. Len(events') <= Capacity
        BY <3>4, <4>2
      <4>4. accepted' \in Nat /\ reader' = "signalling" /\ frame' = None
        BY <2>5, <3>4 DEF PushEvent
      <4>5. UNCHANGED <<gatewayVars, conn, callerVars, response, waiter, eventSignal,
                        shutdownVars, owner, consumerVars>>
        BY <2>5 DEF PushEvent
      <4> QED
        BY <4>2, <4>3, <4>4, <4>5
    <3> QED
      BY <2>5, <3>3, <3>4 DEF PushEvent
  <2>6. CASE SignalConsumer
    BY <2>6 DEF SignalConsumer
  <2>7. CASE ReaderShutsDown
    BY <2>7 DEF ReaderShutsDown, EnterOnce
  <2>8. CASE ReaderExits
    BY <2>8 DEF ReaderExits
  <2> QED
    BY <1>3, <2>1, <2>2, <2>3, <2>4, <2>5, <2>6, <2>7, <2>8 DEF ReaderStep
<1>4. CASE ShutdownStep
  <2>1. CASE CloseDone
    BY <2>1 DEF CloseDone
  <2>2. CASE CloseConn
    BY <2>2 DEF CloseConn
  <2>3. CASE CloseReturns
    BY <2>3 DEF CloseReturns
  <2> QED
    BY <1>4, <2>1, <2>2, <2>3 DEF ShutdownStep
<1>5. CASE ConsumerStep
  <2>1. CASE NextEvent
    BY <2>1 DEF NextEvent
  <2>2. CASE Poll
    <3>1. CASE PopEvent
      BY <2>2, <3>1, PopTypes DEF Poll
    <3>2. CASE events = <<>>
      BY <2>2, <3>2 DEF Poll, PopEvent
    <3> QED
      BY <2>2, <3>1, <3>2 DEF Poll
  <2>3. CASE WakeOnSignal
    <3>1. eventSignal' \in BOOLEAN
      BY <2>3, Zenon DEF WakeOnSignal
    <3> QED
      BY <2>3, <3>1 DEF WakeOnSignal
  <2>4. CASE WakeOnDone
    BY <2>4 DEF WakeOnDone
  <2>5. CASE Drain
    <3>1. CASE PopEvent
      <4>1. UNCHANGED <<gatewayVars, conn, callerVars, response, readerVars,
                        shutdownVars, owner, accepted>>
        BY <2>5 DEF Drain
      <4> QED
        BY <3>1, <4>1, PopTypes, SMTT(20)
    <3>2. CASE events = <<>> /\ StreamEnds(ConnectionError)
      BY <2>5, <3>2 DEF Drain, StreamEnds, ConnectionError
    <3> QED
      BY <2>5, <3>1, <3>2 DEF Drain
  <2> QED
    BY <1>5, <2>1, <2>2, <2>3, <2>4, <2>5 DEF ConsumerStep
<1>6. CASE Close
  BY <1>6 DEF Close, EnterOnce
<1>7. CASE ConsumerGivesUp
  BY <1>7 DEF ConsumerGivesUp, StreamEnds
<1>8. CASE UNCHANGED vars
  BY <1>8 DEF vars
<1> QED
  BY <1>1, <1>2, <1>3, <1>4, <1>5, <1>6, <1>7, <1>8 DEF Next

\* What the read loop holds in each place is set when it enters the place.
LEMMA ReaderStepHolds ==
  ASSUME TypeOK, ReaderHolds, [Next]_vars
  PROVE  ReaderHolds'
<1> USE DEF ReaderHolds, gatewayVars, callerVars, readerVars, shutdownVars,
            consumerVars, endVars, bufferVars, streamVars, loopVars, clientVars
<1>1. CASE GatewayStep
  <2>1. ASSUME NEW r \in Requests, NEW ok \in BOOLEAN, GatewayReply(r, ok)
        PROVE  ReaderHolds'
    BY <2>1 DEF GatewayReply
  <2>2. CASE GatewayEmit
    BY <2>2 DEF GatewayEmit
  <2>3. CASE GatewayNoise
    BY <2>3 DEF GatewayNoise
  <2>4. CASE ConnectionLost
    BY <2>4 DEF ConnectionLost
  <2> QED
    BY <1>1, <2>1, <2>2, <2>3, <2>4 DEF GatewayStep
<1>2. ASSUME NEW r \in Requests, CallerStep(r)
      PROVE  ReaderHolds'
  <2>1. CASE Register(r)
    BY <2>1 DEF Register, CallerTo
  <2>2. CASE LockWrite(r)
    BY <2>2 DEF LockWrite, CallerTo
  <2>3. CASE WriteFrame(r)
    BY <2>3 DEF WriteFrame, CallerTo
  <2>4. CASE WriteError(r)
    BY <2>4 DEF WriteError, CallerTo, Return
  <2>5. CASE ReceiveResponse(r)
    BY <2>5 DEF ReceiveResponse, CallerTo, Return
  <2>6. CASE GiveUp(r)
    BY <2>6 DEF GiveUp, CallerTo, Return
  <2>7. CASE SeeDone(r)
    BY <2>7 DEF SeeDone, CallerTo, Return, ConnectionError
  <2>8. CASE Unregister(r)
    BY <2>8 DEF Unregister, CallerTo
  <2> QED
    BY <1>2, <2>1, <2>2, <2>3, <2>4, <2>5, <2>6, <2>7, <2>8 DEF CallerStep
<1>3. CASE ReaderStep
  <2>1. CASE ReadFrame
    <3>1. Head(wire) \in Frame
      BY <2>1, WireTail DEF ReadFrame
    <3> QED
      BY <2>1, <3>1, FrameKinds DEF ReadFrame
  <2>2. CASE ReadError
    BY <2>2 DEF ReadError
  <2>3. CASE FindWaiter
    BY <2>3 DEF FindWaiter, WaiterOf
  <2>4. CASE DeliverResponse
    BY <2>4 DEF DeliverResponse
  <2>5. CASE PushEvent
    BY <2>5 DEF PushEvent
  <2>6. CASE SignalConsumer
    BY <2>6 DEF SignalConsumer
  <2>7. CASE ReaderShutsDown
    BY <2>7 DEF ReaderShutsDown, EnterOnce
  <2>8. CASE ReaderExits
    BY <2>8 DEF ReaderExits
  <2> QED
    BY <1>3, <2>1, <2>2, <2>3, <2>4, <2>5, <2>6, <2>7, <2>8 DEF ReaderStep
<1>4. CASE ShutdownStep
  <2>1. CASE CloseDone
    BY <2>1 DEF CloseDone
  <2>2. CASE CloseConn
    BY <2>2 DEF CloseConn
  <2>3. CASE CloseReturns
    BY <2>3 DEF CloseReturns
  <2> QED
    BY <1>4, <2>1, <2>2, <2>3 DEF ShutdownStep
<1>5. CASE ConsumerStep
  <2>1. CASE NextEvent
    BY <2>1 DEF NextEvent
  <2>2. CASE Poll
    BY <2>2 DEF Poll, PopEvent
  <2>3. CASE WakeOnSignal
    BY <2>3 DEF WakeOnSignal
  <2>4. CASE WakeOnDone
    BY <2>4 DEF WakeOnDone
  <2>5. CASE Drain
    BY <2>5 DEF Drain, PopEvent, StreamEnds, ConnectionError
  <2> QED
    BY <1>5, <2>1, <2>2, <2>3, <2>4, <2>5 DEF ConsumerStep
<1>6. CASE Close
  BY <1>6 DEF Close, EnterOnce
<1>7. CASE ConsumerGivesUp
  BY <1>7 DEF ConsumerGivesUp, StreamEnds
<1>8. CASE UNCHANGED vars
  BY <1>8 DEF vars
<1> QED
  BY <1>1, <1>2, <1>3, <1>4, <1>5, <1>6, <1>7, <1>8 DEF Next

\* Register adds the id and only its own Unregister removes it.
LEMMA PendingStep ==
  ASSUME TypeOK, PendingIsExact, [Next]_vars
  PROVE  PendingIsExact'
<1> USE DEF TypeOK, PendingIsExact, gatewayVars, callerVars, readerVars, shutdownVars,
            consumerVars, endVars, bufferVars, streamVars, loopVars, clientVars
<1>1. CASE GatewayStep
  <2>1. ASSUME NEW r \in Requests, NEW ok \in BOOLEAN, GatewayReply(r, ok)
        PROVE  PendingIsExact'
    BY <2>1 DEF GatewayReply
  <2>2. CASE GatewayEmit
    BY <2>2 DEF GatewayEmit
  <2>3. CASE GatewayNoise
    BY <2>3 DEF GatewayNoise
  <2>4. CASE ConnectionLost
    BY <2>4 DEF ConnectionLost
  <2> QED
    BY <1>1, <2>1, <2>2, <2>3, <2>4 DEF GatewayStep
<1>2. ASSUME NEW r \in Requests, CallerStep(r)
      PROVE  PendingIsExact'
  <2>1. CASE Register(r)
    BY <2>1 DEF Register, CallerTo
  <2>2. CASE LockWrite(r)
    BY <2>2 DEF LockWrite, CallerTo
  <2>3. CASE WriteFrame(r)
    BY <2>3 DEF WriteFrame, CallerTo
  <2>4. CASE WriteError(r)
    BY <2>4 DEF WriteError, CallerTo, Return
  <2>5. CASE ReceiveResponse(r)
    BY <2>5 DEF ReceiveResponse, CallerTo, Return
  <2>6. CASE GiveUp(r)
    BY <2>6 DEF GiveUp, CallerTo, Return
  <2>7. CASE SeeDone(r)
    BY <2>7 DEF SeeDone, CallerTo, Return, ConnectionError
  <2>8. CASE Unregister(r)
    BY <2>8 DEF Unregister, CallerTo
  <2> QED
    BY <1>2, <2>1, <2>2, <2>3, <2>4, <2>5, <2>6, <2>7, <2>8 DEF CallerStep
<1>3. CASE ReaderStep
  <2>1. CASE ReadFrame
    BY <2>1 DEF ReadFrame
  <2>2. CASE ReadError
    BY <2>2 DEF ReadError
  <2>3. CASE FindWaiter
    BY <2>3 DEF FindWaiter, WaiterOf
  <2>4. CASE DeliverResponse
    BY <2>4 DEF DeliverResponse
  <2>5. CASE PushEvent
    BY <2>5 DEF PushEvent
  <2>6. CASE SignalConsumer
    BY <2>6 DEF SignalConsumer
  <2>7. CASE ReaderShutsDown
    BY <2>7 DEF ReaderShutsDown, EnterOnce
  <2>8. CASE ReaderExits
    BY <2>8 DEF ReaderExits
  <2> QED
    BY <1>3, <2>1, <2>2, <2>3, <2>4, <2>5, <2>6, <2>7, <2>8 DEF ReaderStep
<1>4. CASE ShutdownStep
  <2>1. CASE CloseDone
    BY <2>1 DEF CloseDone
  <2>2. CASE CloseConn
    BY <2>2 DEF CloseConn
  <2>3. CASE CloseReturns
    BY <2>3 DEF CloseReturns
  <2> QED
    BY <1>4, <2>1, <2>2, <2>3 DEF ShutdownStep
<1>5. CASE ConsumerStep
  <2>1. CASE NextEvent
    BY <2>1 DEF NextEvent
  <2>2. CASE Poll
    BY <2>2 DEF Poll, PopEvent
  <2>3. CASE WakeOnSignal
    BY <2>3 DEF WakeOnSignal
  <2>4. CASE WakeOnDone
    BY <2>4 DEF WakeOnDone
  <2>5. CASE Drain
    BY <2>5 DEF Drain, PopEvent, StreamEnds, ConnectionError
  <2> QED
    BY <1>5, <2>1, <2>2, <2>3, <2>4, <2>5 DEF ConsumerStep
<1>6. CASE Close
  BY <1>6 DEF Close, EnterOnce
<1>7. CASE ConsumerGivesUp
  BY <1>7 DEF ConsumerGivesUp, StreamEnds
<1>8. CASE UNCHANGED vars
  BY <1>8 DEF vars
<1> QED
  BY <1>1, <1>2, <1>3, <1>4, <1>5, <1>6, <1>7, <1>8 DEF Next

\* Every step that puts the consumer to sleep or events in the buffer keeps
\* the wakeup.
LEMMA WakeupStep ==
  ASSUME TypeOK, NoLostWakeup, [Next]_vars
  PROVE  NoLostWakeup'
<1> USE DEF NoLostWakeup, gatewayVars, callerVars, readerVars, shutdownVars,
            consumerVars, endVars, bufferVars, streamVars, loopVars, clientVars
<1>1. CASE GatewayStep
  <2>1. ASSUME NEW r \in Requests, NEW ok \in BOOLEAN, GatewayReply(r, ok)
        PROVE  NoLostWakeup'
    BY <2>1 DEF GatewayReply
  <2>2. CASE GatewayEmit
    BY <2>2 DEF GatewayEmit
  <2>3. CASE GatewayNoise
    BY <2>3 DEF GatewayNoise
  <2>4. CASE ConnectionLost
    BY <2>4 DEF ConnectionLost
  <2> QED
    BY <1>1, <2>1, <2>2, <2>3, <2>4 DEF GatewayStep
<1>2. ASSUME NEW r \in Requests, CallerStep(r)
      PROVE  NoLostWakeup'
  <2>1. CASE Register(r)
    BY <2>1 DEF Register, CallerTo
  <2>2. CASE LockWrite(r)
    BY <2>2 DEF LockWrite, CallerTo
  <2>3. CASE WriteFrame(r)
    BY <2>3 DEF WriteFrame, CallerTo
  <2>4. CASE WriteError(r)
    BY <2>4 DEF WriteError, CallerTo, Return
  <2>5. CASE ReceiveResponse(r)
    BY <2>5 DEF ReceiveResponse, CallerTo, Return
  <2>6. CASE GiveUp(r)
    BY <2>6 DEF GiveUp, CallerTo, Return
  <2>7. CASE SeeDone(r)
    BY <2>7 DEF SeeDone, CallerTo, Return, ConnectionError
  <2>8. CASE Unregister(r)
    BY <2>8 DEF Unregister, CallerTo
  <2> QED
    BY <1>2, <2>1, <2>2, <2>3, <2>4, <2>5, <2>6, <2>7, <2>8 DEF CallerStep
<1>3. CASE ReaderStep
  <2>1. CASE ReadFrame
    BY <2>1 DEF ReadFrame
  <2>2. CASE ReadError
    BY <2>2 DEF ReadError
  <2>3. CASE FindWaiter
    BY <2>3 DEF FindWaiter, WaiterOf
  <2>4. CASE DeliverResponse
    BY <2>4 DEF DeliverResponse
  <2>5. CASE PushEvent
    BY <2>5 DEF PushEvent
  <2>6. CASE SignalConsumer
    BY <2>6 DEF SignalConsumer
  <2>7. CASE ReaderShutsDown
    BY <2>7 DEF ReaderShutsDown, EnterOnce
  <2>8. CASE ReaderExits
    BY <2>8 DEF ReaderExits
  <2> QED
    BY <1>3, <2>1, <2>2, <2>3, <2>4, <2>5, <2>6, <2>7, <2>8 DEF ReaderStep
<1>4. CASE ShutdownStep
  <2>1. CASE CloseDone
    BY <2>1 DEF CloseDone
  <2>2. CASE CloseConn
    BY <2>2 DEF CloseConn
  <2>3. CASE CloseReturns
    BY <2>3 DEF CloseReturns
  <2> QED
    BY <1>4, <2>1, <2>2, <2>3 DEF ShutdownStep
<1>5. CASE ConsumerStep
  <2>1. CASE NextEvent
    BY <2>1 DEF NextEvent
  <2>2. CASE Poll
    BY <2>2 DEF Poll, PopEvent
  <2>3. CASE WakeOnSignal
    BY <2>3 DEF WakeOnSignal
  <2>4. CASE WakeOnDone
    BY <2>4 DEF WakeOnDone
  <2>5. CASE Drain
    BY <2>5 DEF Drain, PopEvent, StreamEnds, ConnectionError
  <2> QED
    BY <1>5, <2>1, <2>2, <2>3, <2>4, <2>5 DEF ConsumerStep
<1>6. CASE Close
  BY <1>6 DEF Close, EnterOnce
<1>7. CASE ConsumerGivesUp
  BY <1>7 DEF ConsumerGivesUp, StreamEnds
<1>8. CASE UNCHANGED vars
  BY <1>8 DEF vars
<1> QED
  BY <1>1, <1>2, <1>3, <1>4, <1>5, <1>6, <1>7, <1>8 DEF Next

\* A response only travels to the channel of its own id.
LEMMA RoutedStep ==
  ASSUME TypeOK, ReaderHolds, ResponsesRouted, [Next]_vars
  PROVE  ResponsesRouted'
<1> USE DEF ResponsesRouted, gatewayVars, callerVars, readerVars, shutdownVars,
            consumerVars, endVars, bufferVars, streamVars, loopVars, clientVars
<1>1. CASE GatewayStep
  <2>1. ASSUME NEW r \in Requests, NEW ok \in BOOLEAN, GatewayReply(r, ok)
        PROVE  ResponsesRouted'
    BY <2>1 DEF GatewayReply
  <2>2. CASE GatewayEmit
    BY <2>2 DEF GatewayEmit
  <2>3. CASE GatewayNoise
    BY <2>3 DEF GatewayNoise
  <2>4. CASE ConnectionLost
    BY <2>4 DEF ConnectionLost
  <2> QED
    BY <1>1, <2>1, <2>2, <2>3, <2>4 DEF GatewayStep
<1>2. ASSUME NEW r \in Requests, CallerStep(r)
      PROVE  ResponsesRouted'
  <2>1. CASE Register(r)
    BY <2>1 DEF Register, CallerTo
  <2>2. CASE LockWrite(r)
    BY <2>2 DEF LockWrite, CallerTo
  <2>3. CASE WriteFrame(r)
    BY <2>3 DEF WriteFrame, CallerTo
  <2>4. CASE WriteError(r)
    BY <2>4 DEF WriteError, CallerTo, Return
  <2>5. CASE ReceiveResponse(r)
    BY <2>5 DEF ReceiveResponse, CallerTo, Return
  <2>6. CASE GiveUp(r)
    BY <2>6 DEF GiveUp, CallerTo, Return
  <2>7. CASE SeeDone(r)
    BY <2>7 DEF SeeDone, CallerTo, Return, ConnectionError
  <2>8. CASE Unregister(r)
    BY <2>8 DEF Unregister, CallerTo
  <2> QED
    BY <1>2, <2>1, <2>2, <2>3, <2>4, <2>5, <2>6, <2>7, <2>8 DEF CallerStep
<1>3. CASE ReaderStep
  <2>1. CASE ReadFrame
    BY <2>1 DEF ReadFrame
  <2>2. CASE ReadError
    BY <2>2 DEF ReadError
  <2>3. CASE FindWaiter
    BY <2>3 DEF FindWaiter, WaiterOf
  <2>4. CASE DeliverResponse
    <3>1. frame \in ResponseFrame /\ waiter = frame.id /\ frame.id \in inbox
      BY <2>4, FrameKinds DEF DeliverResponse, ReaderHolds
    <3>2. \A r \in Requests : \/ response'[r] = response[r]
                              \/ r = frame.id /\ response'[r] = frame
      <4>1. response' = [response EXCEPT ![frame.id] = IF @ = None THEN frame ELSE @]
        BY <2>4, <3>1 DEF DeliverResponse
      <4>2. response \in [Requests -> ResponseFrame \cup {None}]
        BY DEF TypeOK
      <4> QED
        BY <4>1, <4>2
    <3> QED
      BY <2>4, <3>1, <3>2 DEF DeliverResponse
  <2>5. CASE PushEvent
    BY <2>5 DEF PushEvent
  <2>6. CASE SignalConsumer
    BY <2>6 DEF SignalConsumer
  <2>7. CASE ReaderShutsDown
    BY <2>7 DEF ReaderShutsDown, EnterOnce
  <2>8. CASE ReaderExits
    BY <2>8 DEF ReaderExits
  <2> QED
    BY <1>3, <2>1, <2>2, <2>3, <2>4, <2>5, <2>6, <2>7, <2>8 DEF ReaderStep
<1>4. CASE ShutdownStep
  <2>1. CASE CloseDone
    BY <2>1 DEF CloseDone
  <2>2. CASE CloseConn
    BY <2>2 DEF CloseConn
  <2>3. CASE CloseReturns
    BY <2>3 DEF CloseReturns
  <2> QED
    BY <1>4, <2>1, <2>2, <2>3 DEF ShutdownStep
<1>5. CASE ConsumerStep
  <2>1. CASE NextEvent
    BY <2>1 DEF NextEvent
  <2>2. CASE Poll
    BY <2>2 DEF Poll, PopEvent
  <2>3. CASE WakeOnSignal
    BY <2>3 DEF WakeOnSignal
  <2>4. CASE WakeOnDone
    BY <2>4 DEF WakeOnDone
  <2>5. CASE Drain
    BY <2>5 DEF Drain, PopEvent, StreamEnds, ConnectionError
  <2> QED
    BY <1>5, <2>1, <2>2, <2>3, <2>4, <2>5 DEF ConsumerStep
<1>6. CASE Close
  BY <1>6 DEF Close, EnterOnce
<1>7. CASE ConsumerGivesUp
  BY <1>7 DEF ConsumerGivesUp, StreamEnds
<1>8. CASE UNCHANGED vars
  BY <1>8 DEF vars
<1> QED
  BY <1>1, <1>2, <1>3, <1>4, <1>5, <1>6, <1>7, <1>8 DEF Next

\* While the read loop reads, an event at the head of the wire is the one
\* after the last accepted.
LEMMA FirstEventIsNext ==
  ASSUME TypeOK, WireInOrder, reader = "reading", wire # <<>>, IsEvent(1)
  PROVE  /\ wire[1].seq = accepted + 1
         /\ wire[1].seq \in 1 .. MaxEvents
         /\ wire[1].seq <= emitted
<1> USE DEF IsEvent, LastRead
<1>1. wire[1] \in EventFrame /\ Len(wire) \in Nat \ {0} /\ 1 \in 1 .. Len(wire)
  BY WireTail, FrameKinds
<1>2. accepted \in Nat /\ emitted \in 0 .. MaxEvents
  BY DEF TypeOK
<1>3. wire[1].seq \in 1 .. MaxEvents
  BY <1>1, FrameKinds
<1>4. accepted < wire[1].seq /\ wire[1].seq <= emitted
  BY <1>1 DEF WireInOrder, Reading
<1>5. accepted + 1 \in 1 .. MaxEvents /\ accepted + 1 <= emitted
  BY <1>2, <1>3, <1>4
<1>6. PICK i \in 1 .. Len(wire) : IsEvent(i) /\ wire[i].seq = accepted + 1
  BY <1>2, <1>5 DEF WireInOrder, Reading
<1>7. i = 1 \/ wire[1].seq < wire[i].seq
  BY <1>1, <1>6 DEF WireInOrder, Reading
<1> QED
  BY <1>2, <1>3, <1>4, <1>6, <1>7

\* popEvent hands over the event after the last one handed over.
LEMMA PopTakesNext ==
  ASSUME TypeOK, BufferInOrder, PopEvent
  PROVE  /\ handed' = taken + 1
         /\ taken' = taken + 1
         /\ taken < accepted
         /\ Len(events') = Len(events) - 1
         /\ taken' + Len(events') = accepted
         /\ \A i \in 1 .. Len(events') : events'[i] = taken' + i
<1>1. events # <<>> /\ events' = Tail(events) /\ handed' = Head(events)
      /\ taken' = taken + 1
  BY DEF PopEvent
<1>2. taken \in Nat /\ accepted \in Nat /\ Len(events) \in Nat \ {0}
  BY <1>1, BufferTail DEF TypeOK
<1>3. Head(events) = events[1] /\ events[1] = taken + 1
  BY <1>1, <1>2, BufferTail DEF BufferInOrder
<1>4. /\ Len(events') = Len(events) - 1
      /\ \A i \in 1 .. Len(events') : events'[i] = events[i + 1]
  BY <1>1, BufferTail
<1>5. \A i \in 1 .. Len(events') : i + 1 \in 1 .. Len(events)
  BY <1>2, <1>4
<1>6. \A i \in 1 .. Len(events') : events'[i] = taken' + i
  BY <1>1, <1>2, <1>4, <1>5 DEF BufferInOrder
<1>7. taken + Len(events) = accepted
  BY DEF BufferInOrder
<1> QED
  BY <1>1, <1>2, <1>3, <1>4, <1>6, <1>7

\* The buffer stays the interval of events between taken and accepted.
LEMMA BufferStep ==
  ASSUME TypeOK, ReaderHolds, WireInOrder, BufferInOrder, [Next]_vars
  PROVE  BufferInOrder'
<1> USE DEF BufferInOrder, gatewayVars, callerVars, readerVars, shutdownVars,
            consumerVars, endVars, bufferVars, streamVars, loopVars, clientVars
<1>1. CASE GatewayStep
  <2>1. ASSUME NEW r \in Requests, NEW ok \in BOOLEAN, GatewayReply(r, ok)
        PROVE  BufferInOrder'
    BY <2>1 DEF GatewayReply
  <2>2. CASE GatewayEmit
    BY <2>2 DEF GatewayEmit
  <2>3. CASE GatewayNoise
    BY <2>3 DEF GatewayNoise
  <2>4. CASE ConnectionLost
    BY <2>4 DEF ConnectionLost
  <2> QED
    BY <1>1, <2>1, <2>2, <2>3, <2>4 DEF GatewayStep
<1>2. ASSUME NEW r \in Requests, CallerStep(r)
      PROVE  BufferInOrder'
  <2>1. CASE Register(r)
    BY <2>1 DEF Register, CallerTo
  <2>2. CASE LockWrite(r)
    BY <2>2 DEF LockWrite, CallerTo
  <2>3. CASE WriteFrame(r)
    BY <2>3 DEF WriteFrame, CallerTo
  <2>4. CASE WriteError(r)
    BY <2>4 DEF WriteError, CallerTo, Return
  <2>5. CASE ReceiveResponse(r)
    BY <2>5 DEF ReceiveResponse, CallerTo, Return
  <2>6. CASE GiveUp(r)
    BY <2>6 DEF GiveUp, CallerTo, Return
  <2>7. CASE SeeDone(r)
    BY <2>7 DEF SeeDone, CallerTo, Return, ConnectionError
  <2>8. CASE Unregister(r)
    BY <2>8 DEF Unregister, CallerTo
  <2> QED
    BY <1>2, <2>1, <2>2, <2>3, <2>4, <2>5, <2>6, <2>7, <2>8 DEF CallerStep
<1>3. CASE ReaderStep
  <2>1. CASE ReadFrame
    <3>1. Head(wire) \in Frame /\ Head(wire) = wire[1] /\ Len(wire) \in Nat \ {0}
      BY <2>1, WireTail DEF ReadFrame
    <3>2. CASE Head(wire).type = "event"
      <4>1. wire[1].seq = accepted + 1
        BY <2>1, <3>1, <3>2, FirstEventIsNext DEF ReadFrame, IsEvent
      <4> QED
        BY <2>1, <3>1, <3>2, <4>1 DEF ReadFrame
    <3> QED
      BY <2>1, <3>2 DEF ReadFrame
  <2>2. CASE ReadError
    BY <2>2 DEF ReadError
  <2>3. CASE FindWaiter
    BY <2>3 DEF FindWaiter, WaiterOf
  <2>4. CASE DeliverResponse
    BY <2>4 DEF DeliverResponse
  <2>5. CASE PushEvent
    <3>1. CASE Len(events) >= Capacity
      BY <2>5, <3>1 DEF PushEvent
    <3>2. CASE Len(events) < Capacity
      <4>1. frame.seq = accepted + 1 /\ frame.seq \in 1 .. MaxEvents
        BY <2>5, FrameKinds DEF PushEvent, ReaderHolds
      <4>2. events' = Append(events, frame.seq) /\ accepted' = accepted + 1
        BY <2>5, <3>2 DEF PushEvent
      <4>3. events \in Seq(1 .. MaxEvents) /\ Len(events) \in Nat
        BY DEF TypeOK
      <4>4. /\ Len(events') = Len(events) + 1
            /\ \A i \in 1 .. Len(events') :
                 events'[i] = IF i <= Len(events) THEN events[i] ELSE frame.seq
        BY <4>1, <4>2, <4>3
      <4>5. taken \in Nat /\ accepted \in Nat
        BY DEF TypeOK
      <4>6. \A i \in 1 .. Len(events') : events'[i] = taken + i
        <5> SUFFICES ASSUME NEW i \in 1 .. Len(events')
                     PROVE  events'[i] = taken + i
          OBVIOUS
        <5>1. CASE i <= Len(events)
          <6>1. i \in 1 .. Len(events) /\ events'[i] = events[i]
            BY <4>3, <4>4, <5>1
          <6> QED
            BY <6>1
        <5>2. CASE ~(i <= Len(events))
          <6>1. i = Len(events) + 1 /\ events'[i] = frame.seq
            BY <4>3, <4>4, <5>2
          <6>2. taken + Len(events) = accepted
            OBVIOUS
          <6>3. accepted + 1 = taken + (Len(events) + 1)
            BY <4>3, <4>5, <6>2
          <6> QED
            BY <4>1, <6>1, <6>3, Zenon
        <5> QED
          BY <5>1, <5>2
      <4>7. taken' = taken /\ handed' = handed /\ reader' = "signalling"
        BY <2>5, <3>2 DEF PushEvent
      <4>8. taken' + Len(events') = accepted'
        <5>1. taken + Len(events) = accepted
          OBVIOUS
        <5>2. taken' = taken /\ accepted' = accepted + 1 /\ Len(events') = Len(events) + 1
          BY <4>2, <4>4, <4>7
        <5>3. taken + (Len(events) + 1) = accepted + 1
          BY <4>3, <4>5, <5>1
        <5> QED
          BY <5>2, <5>3, Zenon
      <4> QED
        BY <4>6, <4>7, <4>8
    <3> QED
      BY <2>5, <3>1, <3>2 DEF PushEvent
  <2>6. CASE SignalConsumer
    BY <2>6 DEF SignalConsumer
  <2>7. CASE ReaderShutsDown
    BY <2>7 DEF ReaderShutsDown, EnterOnce
  <2>8. CASE ReaderExits
    BY <2>8 DEF ReaderExits
  <2> QED
    BY <1>3, <2>1, <2>2, <2>3, <2>4, <2>5, <2>6, <2>7, <2>8 DEF ReaderStep
<1>4. CASE ShutdownStep
  <2>1. CASE CloseDone
    BY <2>1 DEF CloseDone
  <2>2. CASE CloseConn
    BY <2>2 DEF CloseConn
  <2>3. CASE CloseReturns
    BY <2>3 DEF CloseReturns
  <2> QED
    BY <1>4, <2>1, <2>2, <2>3 DEF ShutdownStep
<1>5. CASE ConsumerStep
  <2>1. CASE NextEvent
    BY <2>1 DEF NextEvent
  <2>2. CASE Poll
    <3>1. CASE PopEvent
      BY <2>2, <3>1, PopTakesNext DEF Poll
    <3>2. CASE events = <<>>
      BY <2>2, <3>2 DEF Poll, PopEvent
    <3> QED
      BY <2>2, <3>1, <3>2 DEF Poll
  <2>3. CASE WakeOnSignal
    BY <2>3 DEF WakeOnSignal
  <2>4. CASE WakeOnDone
    BY <2>4 DEF WakeOnDone
  <2>5. CASE Drain
    <3>1. CASE PopEvent
      BY <2>5, <3>1, PopTakesNext DEF Drain
    <3>2. CASE events = <<>> /\ StreamEnds(ConnectionError)
      BY <2>5, <3>2 DEF Drain, StreamEnds
    <3> QED
      BY <2>5, <3>1, <3>2 DEF Drain
  <2> QED
    BY <1>5, <2>1, <2>2, <2>3, <2>4, <2>5 DEF ConsumerStep
<1>6. CASE Close
  BY <1>6 DEF Close, EnterOnce
<1>7. CASE ConsumerGivesUp
  BY <1>7 DEF ConsumerGivesUp, StreamEnds
<1>8. CASE UNCHANGED vars
  BY <1>8 DEF vars
<1> QED
  BY <1>1, <1>2, <1>3, <1>4, <1>5, <1>6, <1>7, <1>8 DEF Next

\* The events on the wire stay those after the last one read.
LEMMA WireStep ==
  ASSUME TypeOK, ReaderHolds, WireInOrder, BufferInOrder, [Next]_vars
  PROVE  WireInOrder'
<1> USE DEF WireInOrder, Reading, LastRead, IsEvent, gatewayVars, callerVars, readerVars, shutdownVars,
            consumerVars, endVars, bufferVars, streamVars, loopVars, clientVars
<1>1. CASE GatewayStep
  <2>1. ASSUME NEW r \in Requests, NEW ok \in BOOLEAN, GatewayReply(r, ok)
        PROVE  WireInOrder'
    BY <2>1 DEF GatewayReply
  <2>2. CASE GatewayEmit
    <3>1. CASE Reading
      <4> DEFINE new == [type |-> "event", seq |-> emitted + 1]
      <4>1. wire \in Seq(Frame) /\ Len(wire) \in Nat
        BY DEF TypeOK
      <4>2. new \in Frame
        BY <2>2 DEF GatewayEmit, TypeOK, Frame, EventFrame
      <4>3. /\ Len(wire') = Len(wire) + 1
            /\ \A i \in 1 .. Len(wire) : wire'[i] = wire[i]
            /\ wire'[Len(wire) + 1] = new
        BY <2>2, <4>1, <4>2 DEF GatewayEmit
      <4>4. emitted' = emitted + 1 /\ reader' = reader /\ accepted' = accepted
        BY <2>2 DEF GatewayEmit
      <4>5. emitted \in Nat /\ accepted \in Nat /\ emitted + 1 \in 1 .. MaxEvents
        BY <2>2 DEF TypeOK, GatewayEmit
      <4>6. LastRead' = LastRead /\ LastRead \in Nat
        BY <4>4, <4>5
      <4>7. LastRead <= emitted
        BY <3>1
      <4>8. new.type = "event" /\ new.seq = emitted + 1
        OBVIOUS
      <4> HIDE DEF new, LastRead
      <4>9. \A i \in 1 .. Len(wire') : i \in 1 .. Len(wire) \/ i = Len(wire) + 1
        BY <4>1, <4>3
      <4>10. \A i \in 1 .. Len(wire) :
               wire[i].type = "event" => wire[i].seq \in Nat
        BY <4>1, FrameKinds
      <4>11. \A i \in 1 .. Len(wire') :
               wire'[i].type = "event" =>
                 LastRead < wire'[i].seq /\ wire'[i].seq <= emitted + 1
        BY <3>1, <4>3, <4>5, <4>6, <4>7, <4>8, <4>9, <4>10
      <4>12. \A i, j \in 1 .. Len(wire') :
               /\ wire'[i].type = "event" /\ wire'[j].type = "event"
               /\ i < j
               => wire'[i].seq < wire'[j].seq
        BY <3>1, <4>1, <4>3, <4>5, <4>8, <4>9, <4>10
      <4>13. \A n \in 1 .. MaxEvents :
               LastRead < n /\ n <= emitted + 1 =>
                 \E i \in 1 .. Len(wire') : wire'[i].type = "event" /\ wire'[i].seq = n
        <5> SUFFICES ASSUME NEW n \in 1 .. MaxEvents, LastRead < n, n <= emitted + 1
                     PROVE  \E i \in 1 .. Len(wire') :
                              wire'[i].type = "event" /\ wire'[i].seq = n
          OBVIOUS
        <5>1. CASE n <= emitted
          <6>1. PICK i \in 1 .. Len(wire) : wire[i].type = "event" /\ wire[i].seq = n
            BY <3>1, <5>1
          <6> QED
            BY <4>1, <4>3, <6>1
        <5>2. CASE n = emitted + 1
          BY <4>1, <4>3, <4>8, <5>2
        <5> QED
          BY <4>5, <5>1, <5>2
      <4> QED
        BY <4>4, <4>5, <4>6, <4>7, <4>11, <4>12, <4>13
    <3>2. CASE ~Reading
      BY <2>2, <3>2 DEF GatewayEmit
    <3> QED
      BY <3>1, <3>2
  <2>3. CASE GatewayNoise
    BY <2>3 DEF GatewayNoise
  <2>4. CASE ConnectionLost
    BY <2>4 DEF ConnectionLost
  <2> QED
    BY <1>1, <2>1, <2>2, <2>3, <2>4 DEF GatewayStep
<1>2. ASSUME NEW r \in Requests, CallerStep(r)
      PROVE  WireInOrder'
  <2>1. CASE Register(r)
    BY <2>1 DEF Register, CallerTo
  <2>2. CASE LockWrite(r)
    BY <2>2 DEF LockWrite, CallerTo
  <2>3. CASE WriteFrame(r)
    BY <2>3 DEF WriteFrame, CallerTo
  <2>4. CASE WriteError(r)
    BY <2>4 DEF WriteError, CallerTo, Return
  <2>5. CASE ReceiveResponse(r)
    BY <2>5 DEF ReceiveResponse, CallerTo, Return
  <2>6. CASE GiveUp(r)
    BY <2>6 DEF GiveUp, CallerTo, Return
  <2>7. CASE SeeDone(r)
    BY <2>7 DEF SeeDone, CallerTo, Return, ConnectionError
  <2>8. CASE Unregister(r)
    BY <2>8 DEF Unregister, CallerTo
  <2> QED
    BY <1>2, <2>1, <2>2, <2>3, <2>4, <2>5, <2>6, <2>7, <2>8 DEF CallerStep
<1>3. CASE ReaderStep
  <2>1. CASE ReadFrame
    <3>1. /\ Head(wire) \in Frame /\ Head(wire) = wire[1]
          /\ wire' = Tail(wire) /\ Len(wire) \in Nat \ {0}
          /\ Len(wire') = Len(wire) - 1
          /\ \A i \in 1 .. Len(wire') : wire'[i] = wire[i + 1]
          /\ reader = "reading" /\ wire # <<>>
          /\ emitted' = emitted /\ accepted' = accepted
      BY <2>1, WireTail DEF ReadFrame
    <3>2. \A i \in 1 .. Len(wire') : i + 1 \in 1 .. Len(wire)
      BY <3>1
    <3>3. \A i \in 1 .. Len(wire) : i = 1 \/ i - 1 \in 1 .. Len(wire')
      BY <3>1
    <3>4. \A i \in 1 .. Len(wire) : wire[i].type = "event" => wire[i].seq \in Nat
      BY FrameKinds DEF TypeOK
    <3>5. accepted \in Nat /\ Reading /\ LastRead = accepted
      BY <3>1 DEF TypeOK
    <3>6. CASE wire[1].type = "event"
      <4>1. wire[1].seq = accepted + 1 /\ reader' = "pushing"
        BY <2>1, <3>1, <3>6, FirstEventIsNext DEF ReadFrame
      <4>2. LastRead' = accepted + 1
        BY <3>1, <4>1
      <4> HIDE DEF LastRead, Reading
      <4>3. \A i \in 1 .. Len(wire') :
              wire'[i].type = "event" =>
                LastRead' < wire'[i].seq /\ wire'[i].seq <= emitted
        BY <3>1, <3>2, <3>4, <3>5, <3>6, <4>1, <4>2
      <4>4. \A i, j \in 1 .. Len(wire') :
              /\ wire'[i].type = "event" /\ wire'[j].type = "event"
              /\ i < j
              => wire'[i].seq < wire'[j].seq
        BY <3>1, <3>2, <3>5
      <4>5. \A n \in 1 .. MaxEvents :
              LastRead' < n /\ n <= emitted =>
                \E i \in 1 .. Len(wire') : wire'[i].type = "event" /\ wire'[i].seq = n
        <5> SUFFICES ASSUME NEW n \in 1 .. MaxEvents, LastRead' < n, n <= emitted
                     PROVE  \E i \in 1 .. Len(wire') :
                              wire'[i].type = "event" /\ wire'[i].seq = n
          OBVIOUS
        <5>1. PICK i \in 1 .. Len(wire) : wire[i].type = "event" /\ wire[i].seq = n
          BY <3>5, <4>2
        <5>2. i # 1
          BY <4>1, <4>2, <5>1
        <5>3. i - 1 \in 1 .. Len(wire') /\ wire'[i - 1] = wire[i]
          BY <3>1, <3>3, <5>2
        <5> QED
          BY <5>1, <5>3
      <4>6. LastRead' <= emitted
        BY <3>1, <3>6, <4>1, <4>2, FirstEventIsNext
      <4> QED
        BY <3>1, <4>3, <4>4, <4>5, <4>6
    <3>7. CASE wire[1].type # "event"
      <4>1. reader' # "pushing" /\ Reading'
        BY <2>1, <3>1, <3>7 DEF ReadFrame
      <4>2. LastRead' = accepted
        BY <3>1, <4>1
      <4> HIDE DEF LastRead, Reading
      <4>3. \A i \in 1 .. Len(wire') :
              wire'[i].type = "event" =>
                accepted < wire'[i].seq /\ wire'[i].seq <= emitted
        BY <3>1, <3>2, <3>5
      <4>4. \A i, j \in 1 .. Len(wire') :
              /\ wire'[i].type = "event" /\ wire'[j].type = "event"
              /\ i < j
              => wire'[i].seq < wire'[j].seq
        BY <3>1, <3>2, <3>5
      <4>5. \A n \in 1 .. MaxEvents :
              accepted < n /\ n <= emitted =>
                \E i \in 1 .. Len(wire') : wire'[i].type = "event" /\ wire'[i].seq = n
        <5> SUFFICES ASSUME NEW n \in 1 .. MaxEvents, accepted < n, n <= emitted
                     PROVE  \E i \in 1 .. Len(wire') :
                              wire'[i].type = "event" /\ wire'[i].seq = n
          OBVIOUS
        <5>1. PICK i \in 1 .. Len(wire) : wire[i].type = "event" /\ wire[i].seq = n
          BY <3>5
        <5>2. i - 1 \in 1 .. Len(wire') /\ wire'[i - 1] = wire[i]
          BY <3>1, <3>3, <3>7, <5>1
        <5> QED
          BY <5>1, <5>2
      <4> QED
        BY <3>1, <3>5, <4>2, <4>3, <4>4, <4>5
    <3> QED
      BY <3>6, <3>7
  <2>2. CASE ReadError
    BY <2>2 DEF ReadError
  <2>3. CASE FindWaiter
    BY <2>3 DEF FindWaiter, WaiterOf
  <2>4. CASE DeliverResponse
    BY <2>4 DEF DeliverResponse
  <2>5. CASE PushEvent
    BY <2>5 DEF PushEvent
  <2>6. CASE SignalConsumer
    BY <2>6 DEF SignalConsumer
  <2>7. CASE ReaderShutsDown
    BY <2>7 DEF ReaderShutsDown, EnterOnce
  <2>8. CASE ReaderExits
    BY <2>8 DEF ReaderExits
  <2> QED
    BY <1>3, <2>1, <2>2, <2>3, <2>4, <2>5, <2>6, <2>7, <2>8 DEF ReaderStep
<1>4. CASE ShutdownStep
  <2>1. CASE CloseDone
    BY <2>1 DEF CloseDone
  <2>2. CASE CloseConn
    BY <2>2 DEF CloseConn
  <2>3. CASE CloseReturns
    BY <2>3 DEF CloseReturns
  <2> QED
    BY <1>4, <2>1, <2>2, <2>3 DEF ShutdownStep
<1>5. CASE ConsumerStep
  <2>1. CASE NextEvent
    BY <2>1 DEF NextEvent
  <2>2. CASE Poll
    BY <2>2 DEF Poll, PopEvent
  <2>3. CASE WakeOnSignal
    BY <2>3 DEF WakeOnSignal
  <2>4. CASE WakeOnDone
    BY <2>4 DEF WakeOnDone
  <2>5. CASE Drain
    BY <2>5 DEF Drain, PopEvent, StreamEnds, ConnectionError
  <2> QED
    BY <1>5, <2>1, <2>2, <2>3, <2>4, <2>5 DEF ConsumerStep
<1>6. CASE Close
  BY <1>6 DEF Close, EnterOnce
<1>7. CASE ConsumerGivesUp
  BY <1>7 DEF ConsumerGivesUp, StreamEnds
<1>8. CASE UNCHANGED vars
  BY <1>8 DEF vars
<1> QED
  BY <1>1, <1>2, <1>3, <1>4, <1>5, <1>6, <1>7, <1>8 DEF Next

\* A recorded shutdown reason keeps its cause.
LEMMA ShutdownStepCause ==
  ASSUME TypeOK, ReaderHolds, BufferInOrder, ShutdownCause, [Next]_vars
  PROVE  ShutdownCause'
<1> USE DEF ShutdownCause, TypeOK, gatewayVars, callerVars, readerVars, shutdownVars,
            consumerVars, endVars, bufferVars, streamVars, loopVars, clientVars
<1>1. CASE GatewayStep
  <2>1. ASSUME NEW r \in Requests, NEW ok \in BOOLEAN, GatewayReply(r, ok)
        PROVE  ShutdownCause'
    BY <2>1 DEF GatewayReply
  <2>2. CASE GatewayEmit
    BY <2>2 DEF GatewayEmit
  <2>3. CASE GatewayNoise
    BY <2>3 DEF GatewayNoise
  <2>4. CASE ConnectionLost
    BY <2>4 DEF ConnectionLost
  <2> QED
    BY <1>1, <2>1, <2>2, <2>3, <2>4 DEF GatewayStep
<1>2. ASSUME NEW r \in Requests, CallerStep(r)
      PROVE  ShutdownCause'
  <2>1. CASE Register(r)
    BY <2>1 DEF Register, CallerTo
  <2>2. CASE LockWrite(r)
    BY <2>2 DEF LockWrite, CallerTo
  <2>3. CASE WriteFrame(r)
    BY <2>3 DEF WriteFrame, CallerTo
  <2>4. CASE WriteError(r)
    BY <2>4 DEF WriteError, CallerTo, Return
  <2>5. CASE ReceiveResponse(r)
    BY <2>5 DEF ReceiveResponse, CallerTo, Return
  <2>6. CASE GiveUp(r)
    BY <2>6 DEF GiveUp, CallerTo, Return
  <2>7. CASE SeeDone(r)
    BY <2>7 DEF SeeDone, CallerTo, Return, ConnectionError
  <2>8. CASE Unregister(r)
    BY <2>8 DEF Unregister, CallerTo
  <2> QED
    BY <1>2, <2>1, <2>2, <2>3, <2>4, <2>5, <2>6, <2>7, <2>8 DEF CallerStep
<1>3. CASE ReaderStep
  <2>1. CASE ReadFrame
    BY <2>1 DEF ReadFrame
  <2>2. CASE ReadError
    BY <2>2 DEF ReadError
  <2>3. CASE FindWaiter
    BY <2>3 DEF FindWaiter, WaiterOf
  <2>4. CASE DeliverResponse
    BY <2>4 DEF DeliverResponse
  <2>5. CASE PushEvent
    <3>1. accepted' >= accepted /\ accepted \in Nat
      BY <2>5 DEF PushEvent
    <3>2. reader' = "overflowed" => accepted' >= Capacity
      BY <2>5 DEF PushEvent, BufferInOrder
    <3> QED
      BY <2>5, <3>1, <3>2 DEF PushEvent
  <2>6. CASE SignalConsumer
    BY <2>6 DEF SignalConsumer
  <2>7. CASE ReaderShutsDown
    BY <2>7 DEF ReaderShutsDown, EnterOnce
  <2>8. CASE ReaderExits
    BY <2>8 DEF ReaderExits
  <2> QED
    BY <1>3, <2>1, <2>2, <2>3, <2>4, <2>5, <2>6, <2>7, <2>8 DEF ReaderStep
<1>4. CASE ShutdownStep
  <2>1. CASE CloseDone
    BY <2>1 DEF CloseDone
  <2>2. CASE CloseConn
    BY <2>2 DEF CloseConn
  <2>3. CASE CloseReturns
    BY <2>3 DEF CloseReturns
  <2> QED
    BY <1>4, <2>1, <2>2, <2>3 DEF ShutdownStep
<1>5. CASE ConsumerStep
  <2>1. CASE NextEvent
    BY <2>1 DEF NextEvent
  <2>2. CASE Poll
    BY <2>2 DEF Poll, PopEvent
  <2>3. CASE WakeOnSignal
    BY <2>3 DEF WakeOnSignal
  <2>4. CASE WakeOnDone
    BY <2>4 DEF WakeOnDone
  <2>5. CASE Drain
    BY <2>5 DEF Drain, PopEvent, StreamEnds, ConnectionError
  <2> QED
    BY <1>5, <2>1, <2>2, <2>3, <2>4, <2>5 DEF ConsumerStep
<1>6. CASE Close
  BY <1>6 DEF Close, EnterOnce
<1>7. CASE ConsumerGivesUp
  BY <1>7 DEF ConsumerGivesUp, StreamEnds
<1>8. CASE UNCHANGED vars
  BY <1>8 DEF vars
<1> QED
  BY <1>1, <1>2, <1>3, <1>4, <1>5, <1>6, <1>7, <1>8 DEF Next

\* The result of a failed request is not a response.
LEMMA FailuresAreNoResponses ==
  \A e : [error |-> e] \notin ResponseFrame
BY DEF ResponseFrame

\* What a request returns it found in its own channel.
LEMMA AnswerStep ==
  ASSUME TypeOK, ResponsesRouted, AnswersAreOwn, [Next]_vars
  PROVE  AnswersAreOwn'
<1> USE DEF AnswersAreOwn, gatewayVars, callerVars, readerVars, shutdownVars,
            consumerVars, endVars, bufferVars, streamVars, loopVars, clientVars
<1>1. CASE GatewayStep
  <2>1. ASSUME NEW r \in Requests, NEW ok \in BOOLEAN, GatewayReply(r, ok)
        PROVE  AnswersAreOwn'
    BY <2>1 DEF GatewayReply
  <2>2. CASE GatewayEmit
    BY <2>2 DEF GatewayEmit
  <2>3. CASE GatewayNoise
    BY <2>3 DEF GatewayNoise
  <2>4. CASE ConnectionLost
    BY <2>4 DEF ConnectionLost
  <2> QED
    BY <1>1, <2>1, <2>2, <2>3, <2>4 DEF GatewayStep
<1>2. ASSUME NEW r \in Requests, CallerStep(r)
      PROVE  AnswersAreOwn'
  <2>1. CASE Register(r)
    BY <2>1 DEF Register, CallerTo
  <2>2. CASE LockWrite(r)
    BY <2>2 DEF LockWrite, CallerTo
  <2>3. CASE WriteFrame(r)
    BY <2>3 DEF WriteFrame, CallerTo
  <2>4. CASE WriteError(r)
    BY <2>4, FailuresAreNoResponses DEF WriteError, CallerTo, Return
  <2>5. CASE ReceiveResponse(r)
    BY <2>5 DEF ReceiveResponse, CallerTo, Return, TypeOK, ResponsesRouted
  <2>6. CASE GiveUp(r)
    BY <2>6, FailuresAreNoResponses DEF GiveUp, CallerTo, Return
  <2>7. CASE SeeDone(r)
    BY <2>7, FailuresAreNoResponses DEF SeeDone, CallerTo, Return,
        ConnectionError
  <2>8. CASE Unregister(r)
    BY <2>8 DEF Unregister, CallerTo
  <2> QED
    BY <1>2, <2>1, <2>2, <2>3, <2>4, <2>5, <2>6, <2>7, <2>8 DEF CallerStep
<1>3. CASE ReaderStep
  <2>1. CASE ReadFrame
    BY <2>1 DEF ReadFrame
  <2>2. CASE ReadError
    BY <2>2 DEF ReadError
  <2>3. CASE FindWaiter
    BY <2>3 DEF FindWaiter, WaiterOf
  <2>4. CASE DeliverResponse
    BY <2>4 DEF DeliverResponse
  <2>5. CASE PushEvent
    BY <2>5 DEF PushEvent
  <2>6. CASE SignalConsumer
    BY <2>6 DEF SignalConsumer
  <2>7. CASE ReaderShutsDown
    BY <2>7 DEF ReaderShutsDown, EnterOnce
  <2>8. CASE ReaderExits
    BY <2>8 DEF ReaderExits
  <2> QED
    BY <1>3, <2>1, <2>2, <2>3, <2>4, <2>5, <2>6, <2>7, <2>8 DEF ReaderStep
<1>4. CASE ShutdownStep
  <2>1. CASE CloseDone
    BY <2>1 DEF CloseDone
  <2>2. CASE CloseConn
    BY <2>2 DEF CloseConn
  <2>3. CASE CloseReturns
    BY <2>3 DEF CloseReturns
  <2> QED
    BY <1>4, <2>1, <2>2, <2>3 DEF ShutdownStep
<1>5. CASE ConsumerStep
  <2>1. CASE NextEvent
    BY <2>1 DEF NextEvent
  <2>2. CASE Poll
    BY <2>2 DEF Poll, PopEvent
  <2>3. CASE WakeOnSignal
    BY <2>3 DEF WakeOnSignal
  <2>4. CASE WakeOnDone
    BY <2>4 DEF WakeOnDone
  <2>5. CASE Drain
    BY <2>5 DEF Drain, PopEvent, StreamEnds, ConnectionError
  <2> QED
    BY <1>5, <2>1, <2>2, <2>3, <2>4, <2>5 DEF ConsumerStep
<1>6. CASE Close
  BY <1>6 DEF Close, EnterOnce
<1>7. CASE ConsumerGivesUp
  BY <1>7 DEF ConsumerGivesUp, StreamEnds
<1>8. CASE UNCHANGED vars
  BY <1>8 DEF vars
<1> QED
  BY <1>1, <1>2, <1>3, <1>4, <1>5, <1>6, <1>7, <1>8 DEF Next

\* An error is reported only while its cause lasts.
LEMMA ReasonStep ==
  ASSUME TypeOK, ReaderHolds, BufferInOrder, ShutdownCause, FailureReasonIsTrue, [Next]_vars
  PROVE  FailureReasonIsTrue'
<1> USE DEF FailureReasonIsTrue, Pending, gatewayVars, callerVars, readerVars, shutdownVars,
            consumerVars, endVars, bufferVars, streamVars, loopVars, clientVars
<1>1. CASE GatewayStep
  <2>1. ASSUME NEW r \in Requests, NEW ok \in BOOLEAN, GatewayReply(r, ok)
        PROVE  FailureReasonIsTrue'
    BY <2>1 DEF GatewayReply
  <2>2. CASE GatewayEmit
    BY <2>2 DEF GatewayEmit
  <2>3. CASE GatewayNoise
    BY <2>3 DEF GatewayNoise
  <2>4. CASE ConnectionLost
    BY <2>4 DEF ConnectionLost
  <2> QED
    BY <1>1, <2>1, <2>2, <2>3, <2>4 DEF GatewayStep
<1>2. ASSUME NEW r \in Requests, CallerStep(r)
      PROVE  FailureReasonIsTrue'
  <2>1. CASE Register(r)
    BY <2>1 DEF Register, CallerTo
  <2>2. CASE LockWrite(r)
    BY <2>2 DEF LockWrite, CallerTo
  <2>3. CASE WriteFrame(r)
    BY <2>3 DEF WriteFrame, CallerTo
  <2>4. CASE WriteError(r)
    BY <2>4 DEF WriteError, CallerTo, Return
  <2>5. CASE ReceiveResponse(r)
    <3>1. response[r] \in ResponseFrame
      BY <2>5 DEF ReceiveResponse, TypeOK
    <3>2. \A q \in Requests : outcome'[q] = outcome[q] \/ outcome'[q] \in ResponseFrame
      BY <2>5, <3>1 DEF ReceiveResponse, Return, TypeOK
    <3> QED
      BY <2>5, <3>2, FailuresAreNoResponses DEF ReceiveResponse, CallerTo, Return
  <2>6. CASE GiveUp(r)
    BY <2>6 DEF GiveUp, CallerTo, Return
  <2>7. CASE SeeDone(r)
    <3>1. \A q \in Requests :
            outcome'[q] = outcome[q] \/ outcome'[q] = [error |-> ConnectionError]
      BY <2>7 DEF SeeDone, Return, TypeOK
    <3>2. done /\ closeOnce # "unused"
      BY <2>7 DEF SeeDone, ShutdownCause
    <3>3. /\ ConnectionError = "closed" => owner # "using"
          /\ ConnectionError = "read" => conn # "open"
          /\ ConnectionError = "overflow" => accepted >= Capacity
      BY <3>2 DEF ConnectionError, ShutdownCause, TypeOK
    <3>4. \A e, f : [error |-> e] = [error |-> f] => e = f
      OBVIOUS
    <3> QED
      BY <2>7, <3>1, <3>3, <3>4 DEF SeeDone
  <2>8. CASE Unregister(r)
    BY <2>8 DEF Unregister, CallerTo
  <2> QED
    BY <1>2, <2>1, <2>2, <2>3, <2>4, <2>5, <2>6, <2>7, <2>8 DEF CallerStep
<1>3. CASE ReaderStep
  <2>1. CASE ReadFrame
    BY <2>1 DEF ReadFrame
  <2>2. CASE ReadError
    BY <2>2 DEF ReadError
  <2>3. CASE FindWaiter
    BY <2>3 DEF FindWaiter, WaiterOf
  <2>4. CASE DeliverResponse
    BY <2>4 DEF DeliverResponse
  <2>5. CASE PushEvent
    <3>1. accepted \in Nat /\ Capacity \in Nat /\ accepted' >= accepted
      BY <2>5 DEF PushEvent, TypeOK
    <3>2. ending \notin {"read", "overflow"}
      BY <2>5 DEF PushEvent, ShutdownCause
    <3> QED
      BY <2>5, <3>1, <3>2 DEF PushEvent
  <2>6. CASE SignalConsumer
    BY <2>6 DEF SignalConsumer
  <2>7. CASE ReaderShutsDown
    BY <2>7 DEF ReaderShutsDown, EnterOnce
  <2>8. CASE ReaderExits
    BY <2>8 DEF ReaderExits
  <2> QED
    BY <1>3, <2>1, <2>2, <2>3, <2>4, <2>5, <2>6, <2>7, <2>8 DEF ReaderStep
<1>4. CASE ShutdownStep
  <2>1. CASE CloseDone
    BY <2>1 DEF CloseDone
  <2>2. CASE CloseConn
    BY <2>2 DEF CloseConn
  <2>3. CASE CloseReturns
    BY <2>3 DEF CloseReturns
  <2> QED
    BY <1>4, <2>1, <2>2, <2>3 DEF ShutdownStep
<1>5. CASE ConsumerStep
  <2>1. CASE NextEvent
    BY <2>1 DEF NextEvent
  <2>2. CASE Poll
    <3>1. CASE PopEvent
      BY <2>2, <3>1 DEF Poll, PopEvent
    <3>2. CASE events = <<>>
      BY <2>2, <3>2 DEF Poll, PopEvent
    <3> QED
      BY <2>2, <3>1, <3>2 DEF Poll
  <2>3. CASE WakeOnSignal
    BY <2>3 DEF WakeOnSignal
  <2>4. CASE WakeOnDone
    BY <2>4 DEF WakeOnDone
  <2>5. CASE Drain
    <3>1. CASE PopEvent
      BY <2>5, <3>1 DEF Drain, PopEvent
    <3>2. CASE events = <<>> /\ StreamEnds(ConnectionError)
      <4>1. done /\ closeOnce # "unused"
        BY <2>5 DEF Drain, ShutdownCause
      <4>2. taken = accepted
        BY <3>2 DEF BufferInOrder, TypeOK
      <4>3. /\ ConnectionError = "closed" => owner # "using"
            /\ ConnectionError = "read" => conn # "open"
            /\ ConnectionError = "overflow" => taken >= Capacity
        BY <4>1, <4>2 DEF ConnectionError, ShutdownCause, TypeOK
      <4> QED
        BY <2>5, <3>2, <4>3 DEF Drain, StreamEnds
    <3> QED
      BY <2>5, <3>1, <3>2 DEF Drain
  <2> QED
    BY <1>5, <2>1, <2>2, <2>3, <2>4, <2>5 DEF ConsumerStep
<1>6. CASE Close
  BY <1>6 DEF Close, EnterOnce
<1>7. CASE ConsumerGivesUp
  BY <1>7 DEF ConsumerGivesUp, StreamEnds
<1>8. CASE UNCHANGED vars
  BY <1>8 DEF vars
<1> QED
  BY <1>1, <1>2, <1>3, <1>4, <1>5, <1>6, <1>7, <1>8 DEF Next

-----------------------------------------------------------------------------
\* The initial state satisfies every part of the invariant.
LEMMA Initially ==
  ASSUME Init
  PROVE  IInv /\ PendingIsExact /\ NoLostWakeup /\ AnswersAreOwn
         /\ FailureReasonIsTrue
<1>1. TypeOK
  <2> USE DEF Init
  <2>1. wire \in Seq(Frame) /\ events \in Seq(1 .. MaxEvents) /\ Len(events) = 0
    OBVIOUS
  <2>2. eventSignal \in BOOLEAN /\ done \in BOOLEAN
    BY Zenon
  <2>3. /\ outcome \in [Requests -> ResponseFrame \cup Failure \cup {Pending}]
        /\ response \in [Requests -> ResponseFrame \cup {None}]
    OBVIOUS
  <2> QED
    BY <2>1, <2>2, <2>3 DEF TypeOK
<1>2. ReaderHolds /\ ResponsesRouted /\ BufferInOrder /\ ShutdownCause
  BY DEF Init, ReaderHolds, ResponsesRouted, BufferInOrder, ShutdownCause
<1>3. WireInOrder
  BY DEF Init, WireInOrder, Reading, LastRead, IsEvent
<1>4. PendingIsExact /\ NoLostWakeup /\ AnswersAreOwn /\ FailureReasonIsTrue
  <2>1. AnswersAreOwn
    BY FailuresAreNoResponses DEF Init, AnswersAreOwn, Pending
  <2>2. PendingIsExact /\ NoLostWakeup
    BY DEF Init, PendingIsExact, NoLostWakeup
  <2>3. FailureReasonIsTrue
    BY DEF Init, FailureReasonIsTrue, Pending
  <2> QED
    BY <2>1, <2>2, <2>3
<1> QED
  BY <1>1, <1>2, <1>3, <1>4 DEF IInv

\* The inductive invariant holds in every reachable state.
THEOREM InductiveInvariant == Spec => []IInv
<1>1. Init => IInv
  BY Initially
<1>2. IInv /\ [Next]_vars => IInv'
  BY TypeStep, ReaderStepHolds, RoutedStep, WireStep, BufferStep,
     ShutdownStepCause DEF IInv
<1> QED
  BY <1>1, <1>2, PTL DEF Spec

\* Every variable of the client keeps its type; the event buffer never holds
\* more than maxBufferedEvents (pushEvent).
THEOREM TypeCorrect == Spec => []TypeOK
<1>1. IInv => TypeOK
  BY DEF IInv
<1> QED
  BY <1>1, InductiveInvariant, PTL

\* RequestAnyWithTimeout registers its id exactly while it runs.
THEOREM PendingExact == Spec => []PendingIsExact
<1>1. Init => PendingIsExact
  BY Initially
<1>2. TypeOK /\ PendingIsExact /\ [Next]_vars => PendingIsExact'
  BY PendingStep
<1> QED
  BY <1>1, <1>2, TypeCorrect, PTL DEF Spec

\* NextEventWithTimeout never sleeps on a non-empty buffer without a wakeup.
THEOREM WakeupKept == Spec => []NoLostWakeup
<1>1. Init => NoLostWakeup
  BY Initially
<1>2. TypeOK /\ NoLostWakeup /\ [Next]_vars => NoLostWakeup'
  BY WakeupStep
<1> QED
  BY <1>1, <1>2, TypeCorrect, PTL DEF Spec

\* A request returns only a response with its own id.
THEOREM AnswersOwn == Spec => []AnswersAreOwn
<1>1. Init => AnswersAreOwn
  BY Initially
<1>2. IInv /\ AnswersAreOwn /\ [Next]_vars => AnswersAreOwn'
  BY AnswerStep DEF IInv
<1> QED
  BY <1>1, <1>2, InductiveInvariant, PTL DEF Spec

\* The error a request or the event consumer is given has happened.
THEOREM ReasonsTrue == Spec => []FailureReasonIsTrue
<1>1. Init => FailureReasonIsTrue
  BY Initially
<1>2. IInv /\ FailureReasonIsTrue /\ [Next]_vars => FailureReasonIsTrue'
  BY ReasonStep DEF IInv
<1> QED
  BY <1>1, <1>2, InductiveInvariant, PTL DEF Spec

\* The event side of the client (pushEvent, popEvent, NextEventWithTimeout)
\* implements the safety part of EventStream: in every step it accepts one
\* event into a buffer with room, hands over the next one, ends the stream
\* having drained it when the connection failed, or stutters.
THEOREM ImplementsStreamSafety == Spec => Stream!StreamSafety
<1> USE DEF Stream!streamVars, Stream!StreamNext, Stream!Accept, Stream!Take,
            Stream!End, Stream!Endings, Stream!ConnectionFailures
<1>1. Init => Stream!StreamInit
  BY DEF Init, Stream!StreamInit
<1>2. IInv /\ [Next]_vars => [Stream!StreamNext]_(Stream!streamVars)
  <2> SUFFICES ASSUME IInv, [Next]_vars
               PROVE  [Stream!StreamNext]_(Stream!streamVars)
    OBVIOUS
  <2> USE DEF gatewayVars, callerVars, readerVars, shutdownVars, consumerVars,
              endVars, bufferVars, streamVars, loopVars, clientVars
  <2>1. CASE UNCHANGED <<accepted, taken, handed, ending>>
    BY <2>1
  <2>2. CASE PushEvent
    BY <2>2 DEF PushEvent, IInv, TypeOK, BufferInOrder
  <2>3. CASE Poll
    <3>1. CASE PopEvent
      <4>1. /\ handed' = taken + 1 /\ taken' = taken + 1 /\ taken < accepted
            /\ ending = "none" /\ ending' = ending /\ accepted' = accepted
        BY <2>3, <3>1, PopTakesNext DEF Poll, PopEvent, IInv, ShutdownCause
      <4> QED
        BY <4>1
    <3> QED
      BY <2>1, <2>3, <3>1 DEF Poll
  <2>4. CASE Drain
    <3>1. CASE PopEvent
      <4>1. /\ handed' = taken + 1 /\ taken' = taken + 1 /\ taken < accepted
            /\ ending = "none" /\ ending' = ending /\ accepted' = accepted
        BY <2>4, <3>1, PopTakesNext DEF Drain, PopEvent, IInv, ShutdownCause
      <4> QED
        BY <4>1
    <3>2. CASE events = <<>> /\ StreamEnds(ConnectionError)
      <4>1. ending = "none" /\ ending' \in Stream!Endings
        BY <2>4, <3>2 DEF Drain, StreamEnds, ConnectionError, IInv,
                          ShutdownCause, TypeOK
      <4>2. taken = accepted
        BY <3>2 DEF IInv, BufferInOrder, TypeOK
      <4> QED
        BY <2>4, <3>2, <4>1, <4>2 DEF Drain, StreamEnds
    <3> QED
      BY <2>4, <3>1, <3>2 DEF Drain
  <2>5. CASE ConsumerGivesUp
    BY <2>5 DEF ConsumerGivesUp, StreamEnds, IInv, ShutdownCause
  <2>6. CASE UNCHANGED vars
    BY <2>1, <2>6 DEF vars
  <2>7. CASE GatewayStep \/ ShutdownStep \/ Close
    BY <2>1, <2>7 DEF GatewayStep, GatewayReply, GatewayEmit, GatewayNoise,
         ConnectionLost, ShutdownStep, CloseDone, CloseConn, CloseReturns, Close
  <2>8. CASE \E r \in Requests : CallerStep(r)
    BY <2>1, <2>8 DEF CallerStep, Register, LockWrite, WriteFrame, WriteError,
         ReceiveResponse, GiveUp, SeeDone, Unregister
  <2>9. CASE ReaderStep
    BY <2>1, <2>2, <2>9 DEF ReaderStep, ReadFrame, ReadError, FindWaiter,
         DeliverResponse, SignalConsumer, ReaderShutsDown, ReaderExits
  <2>10. CASE ConsumerStep
    BY <2>1, <2>3, <2>4, <2>10 DEF ConsumerStep, NextEvent, WakeOnSignal,
         WakeOnDone
  <2> QED
    BY <2>5, <2>6, <2>7, <2>8, <2>9, <2>10 DEF Next
<1> QED
  BY <1>1, <1>2, InductiveInvariant, PTL DEF Spec, Stream!StreamSafety

=============================================================================
