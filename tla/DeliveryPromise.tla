-------------------------- MODULE DeliveryPromise --------------------------
(***************************************************************************)
(* What the Hub may rely on when it sends a message that has a Prism       *)
(* message id, as often as it likes: the message is taken in once, by one  *)
(* session, and no answer names a session that does not have it.           *)
(***************************************************************************)
CONSTANTS
  Messages,
  Deliveries   \* <<session, key>>: what one delivery may be

VARIABLES
  delivered,   \* by message: the deliveries of it, with its session
  told         \* by message: the sessions the Hub was told it is in

promiseVars == <<delivered, told>>

PromiseInit ==
  /\ delivered = [m \in Messages |-> {}]
  /\ told = [m \in Messages |-> {}]

Deliver(m) ==
  /\ delivered[m] = {}
  /\ \E d \in Deliveries : delivered' = [delivered EXCEPT ![m] = {d}]

\* The Hub is told of a session that has the message, perhaps in the very
\* step that delivers it there.
Tell(m) == \E d \in delivered'[m] : told' = [told EXCEPT ![m] = @ \cup {d[1]}]

PromiseNext ==
  \E m \in Messages :
    /\ Deliver(m) \/ UNCHANGED delivered
    /\ Tell(m) \/ UNCHANGED told

PromiseSpec == PromiseInit /\ [][PromiseNext]_promiseVars
=============================================================================
