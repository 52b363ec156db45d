------------------------- MODULE GatewayConnection -------------------------
(***************************************************************************)
(* One connection to the Gateway as its owner, a subscription goroutine,   *)
(* sees it: the event stream that EventStream specifies and GatewayClient  *)
(* implements, with the content of the events that wait in its buffer.     *)
(***************************************************************************)
EXTENDS EventStream, Sequences

VARIABLES
  connection,   \* "none", "up", "read" (lost) or "overflow"
  queue         \* the events accepted and not yet handed over

connectionVars == <<connection, queue, streamVars>>

NoConnection ==
  /\ connection = "none"
  /\ queue = <<>>
  /\ StreamInit

\* dialClient and the subscribing request succeed.
Dial ==
  /\ connection' = "up"
  /\ queue' = <<>>
  /\ accepted' = 0
  /\ taken' = 0
  /\ handed' = 0
  /\ ending' = "none"

\* The Gateway sends e: it is buffered, or ends a connection whose buffer is
\* full, or does not arrive at all.
Receive(e) ==
  \/ /\ connection = "up"
     /\ Accept
     /\ queue' = Append(queue, e)
     /\ UNCHANGED connection
  \/ /\ connection = "up"
     /\ accepted - taken >= Capacity
     /\ connection' = "overflow"
     /\ UNCHANGED <<queue, streamVars>>
  \/ /\ connection # "up"
     /\ UNCHANGED connectionVars

Lose ==
  /\ connection = "up"
  /\ connection' = "read"
  /\ UNCHANGED <<queue, streamVars>>

\* NextEventWithTimeout returns the next event, or an error.
TakeEvent ==
  /\ Take
  /\ queue' = Tail(queue)
  /\ UNCHANGED connection

NextInLine == Head(queue)

Failed == connection \in ConnectionFailures

ConnectionTypeOK ==
  /\ connection \in {"none", "up", "read", "overflow"}
  /\ taken \in Nat
  /\ accepted = taken + Len(queue)
  /\ accepted - taken <= Capacity
  /\ handed = taken
  /\ ending \in Endings \cup {"none"}

\* Nothing received is left to handle.
Drained == connection = "up" /\ taken = accepted
=============================================================================
