---------------------------- MODULE EventStream ----------------------------
(***************************************************************************)
(* What one Gateway connection promises to the goroutine that consumes its *)
(* events (rpcClient.NextEventWithTimeout): the events accepted from the   *)
(* socket are handed over in arrival order, none lost and none twice, at   *)
(* most Capacity of them waiting, and a stream that ends because of the    *)
(* connection ends only after everything accepted has been handed over.    *)
(* An event is the number the Gateway gave it (frame.Seq): 1, 2, 3, ...    *)
(***************************************************************************)
EXTENDS Naturals

CONSTANT Capacity

VARIABLES
  accepted,   \* number of events buffered for the consumer so far
  taken,      \* number of events handed to the consumer so far
  handed,     \* the event handed over last, 0 before the first one
  ending      \* "none", or why the stream ended for the consumer

streamVars == <<accepted, taken, handed, ending>>

\* The connection died under the consumer, as opposed to the consumer giving
\* up (its context or its timer) or the owner closing the client.
ConnectionFailures == {"read", "overflow"}

Endings == ConnectionFailures \cup {"gaveUp", "closed"}

StreamInit ==
  /\ accepted = 0
  /\ taken = 0
  /\ handed = 0
  /\ ending = "none"

Accept ==
  /\ accepted - taken < Capacity
  /\ accepted' = accepted + 1
  /\ UNCHANGED <<taken, handed, ending>>

Take ==
  /\ ending = "none"
  /\ taken < accepted
  /\ taken' = taken + 1
  /\ handed' = taken + 1
  /\ UNCHANGED <<accepted, ending>>

End(why) ==
  /\ ending = "none"
  /\ why \in ConnectionFailures => taken = accepted
  /\ ending' = why
  /\ UNCHANGED <<accepted, taken, handed>>

StreamNext ==
  \/ Accept
  \/ Take
  \/ \E why \in Endings : End(why)

StreamSafety == StreamInit /\ [][StreamNext]_streamVars

\* With a consumer that keeps asking, an accepted event is handed over unless
\* the stream ends first.
StreamSpec == StreamSafety /\ WF_streamVars(Take)
=============================================================================
