--------------------------- MODULE ApprovalInbox ---------------------------
(***************************************************************************)
(* What a subscription promises the Hub about approvals.  The Hub is told  *)
(* of an approval only once the Gateway has raised it and only if it was   *)
(* not resolved before the Hub subscribed; it hears of the resolution only *)
(* after the approval was resolved, and that is its last word.  The        *)
(* picture of a session agrees: one that waits for an approval names an    *)
(* approval of that very session of which the Hub may be told, and the     *)
(* picture that comes with a request waits.                                *)
(*                                                                         *)
(* Nothing is said of lists, replays, buffers and connections.             *)
(***************************************************************************)
EXTENDS Detail

CONSTANTS
  Sessions,
  Approvals,
  SessionOf    \* SessionOf[a]: the session of approval a, or None

VARIABLES
  approval,    \* Gateway: "unborn", "pending" or "resolved"
  settled,     \* the approvals resolved when the Hub subscribed last
  shown,       \* Hub: "never", "open" or "closed", by approval
  detail       \* Hub: the picture it has of a session, or None

inboxVars == <<approval, settled, shown, detail>>

InboxInit ==
  /\ approval = [a \in Approvals |-> "unborn"]
  /\ settled = {}
  /\ shown = [a \in Approvals |-> "never"]
  /\ detail = [s \in Sessions |-> None]

Raise(a) ==
  /\ approval[a] = "unborn"
  /\ approval' = [approval EXCEPT ![a] = "pending"]
  /\ UNCHANGED <<settled, shown, detail>>

Resolve(a) ==
  /\ approval[a] = "pending"
  /\ approval' = [approval EXCEPT ![a] = "resolved"]
  /\ UNCHANGED <<settled, shown, detail>>

HubSubscribes ==
  /\ settled' = {a \in Approvals : approval[a] = "resolved"}
  /\ UNCHANGED <<approval, shown, detail>>

\* What the Hub may be told of.
Current(a) == a \in Approvals /\ approval[a] # "unborn" /\ a \notin settled

\* A picture of session s that waits for an approval has one to wait for.
Honest(s, snap) ==
  /\ snap.run = WaitingRun <=> snap.blockedOn # None
  /\ snap.blockedOn # None =>
       Current(snap.blockedOn) /\ SessionOf[snap.blockedOn] = s /\ snap.locked

\* The Hub has a new picture of session s.
Pictures(s) ==
  /\ detail'[s] # None
  /\ detail' = [detail EXCEPT ![s] = detail'[s]]
  /\ Honest(s, detail'[s])

ShowDetail(s) ==
  /\ Pictures(s)
  /\ UNCHANGED <<approval, settled, shown>>

OpenApproval(a) ==
  /\ Current(a)
  /\ shown[a] # "closed"
  /\ shown' = [shown EXCEPT ![a] = "open"]
  /\ SessionOf[a] \in Sessions
  /\ Pictures(SessionOf[a])
  /\ detail'[SessionOf[a]].run = WaitingRun
  /\ UNCHANGED <<approval, settled>>

CloseApproval(a) ==
  /\ Current(a)
  /\ approval[a] = "resolved"
  /\ shown' = [shown EXCEPT ![a] = "closed"]
  /\ UNCHANGED <<approval, settled, detail>>

InboxNext ==
  \/ HubSubscribes
  \/ \E a \in Approvals : Raise(a) \/ Resolve(a) \/ OpenApproval(a) \/ CloseApproval(a)
  \/ \E s \in Sessions : ShowDetail(s)

InboxSpec == InboxInit /\ [][InboxNext]_inboxVars
=============================================================================
