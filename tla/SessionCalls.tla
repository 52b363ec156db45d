---------------------------- MODULE SessionCalls ----------------------------
(***************************************************************************)
(* All calls the Hub makes about a session, side by side: control, waiting *)
(* for a run, reading its status, interrupting it, resolving an approval,  *)
(* sending a message and starting a session with one.                      *)
(***************************************************************************)
EXTENDS SessionControl, RunStatus, ApprovalActions, MessageDelivery

Init == GatewayInit /\ CallInit

\* What call c does by itself.
CallStep(c) ==
  \/ DialFails(c)
  \/ ControlStep(c)
  \/ RunStep(c)
  \/ ResolveStep(c)
  \/ DeliveryStep(c)
  \/ Refresh(c)

RecordOffer ==
  LET offer == <<row'.model, catalogue'>>
      n == Cardinality(DOMAIN offers) IN
  offers' = IF offers[n] = offer THEN offers
            ELSE [i \in 1 .. n + 1 |-> IF i <= n THEN offers[i] ELSE offer]

Proceed(c) == CallStep(c) /\ RecordOffer

Next ==
  \/ \E c \in Calls : ((Begin(c) \/ Hang(c)) /\ RecordOffer) \/ Proceed(c)
  \/ GatewayStep /\ UNCHANGED call /\ RecordOffer

Spec == Init /\ [][Next]_vars

\* A request that is written has a timer, and so has the connecting of a
\* socket: a call that does not hang goes on.
FairSpec == Spec /\ \A c \in Calls : WF_vars(Proceed(c))
-----------------------------------------------------------------------------
Offer == Models \X Catalogues

Points == {"off", "dialing", "describing", "listing", "patching", "waiting", "asking", "statusRow",
           "aborting", "resolving", "creating", "sendDialing", "attaching", "sending",
           "verifying", "detailRow", "detailExec", "detailPlugin", "hanging", "done"}

TypeOK ==
  /\ row.model \in Models /\ row.level \in Levels /\ row.version \in Nat
  /\ catalogue \in Catalogues
  /\ approval \in [Approvals -> {"unborn", "pending", "byPeer"} \cup Decisions]
  /\ run \in [Runs -> {"unborn", "running", "ok", "error", "aborted"}]
  /\ \A q \in late : q.by \in Calls /\ Returned(q.by)
  /\ budget \in [Kinds -> Nat]
  /\ \A c \in Calls : call[c].op \in Operations /\ call[c].at \in Points
  /\ \A i \in DOMAIN offers : offers[i] \in Offer
  /\ offers[Cardinality(DOMAIN offers)] = <<row.model, catalogue>>

\* A call of the Hub returns unless it hangs in a dial or in the write of a
\* request: although runs may never end, requests never be answered, messages
\* never show in the history, and other calls hang.
CallsReturn == \A c \in Calls : At(c, "dialing") ~> Returned(c) \/ At(c, "hanging")
=============================================================================
