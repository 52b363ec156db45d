-------------------------- MODULE ApprovalActions --------------------------
(***************************************************************************)
(* Adapter.ResolveApproval (openclaw/control.go) and the action ids that   *)
(* approvalSnapshot (detail.go) offers for it.  An operation is [kind,     *)
(* approval, choice]; an action id is "gateway:<kind>:<decision>" or a     *)
(* bare decision, in any case of letters.                                  *)
(***************************************************************************)
EXTENDS AdapterCalls

CONSTANT AllowedDecisions   \* a request's allowedDecisions, known or not

GatewayAction(kind, d) == [form |-> "gateway", kind |-> kind, decision |-> d]
BareAction(d) == [form |-> "bare", kind |-> None, decision |-> d]

\* The actions of approvalSnapshot for approval a.
approvalSnapshot(a) == {GatewayAction(KindOf[a], d) : d \in AllowedDecisions \cap Decisions}

Undecoded == [decision |-> None, kind |-> None]

DecodeAsExec(action) ==
  IF action.decision \in Decisions THEN [decision |-> action.decision, kind |-> "exec"]
  ELSE Undecoded

\* The kind is the id's own; a bare decision is taken to be about an exec
\* approval.  The last of both forms fails on anything else.
decodeApprovalActionID(action) ==
  IF action.form = "gateway" /\ action.kind \in {"exec", "plugin"} /\ action.decision \in Decisions
    THEN [decision |-> action.decision, kind |-> action.kind]
  ELSE IF action.form = "bare" /\ action.decision \in Decisions
    THEN [decision |-> action.decision, kind |-> "exec"]
  ELSE Undecoded

Decoded(c) == decodeApprovalActionID(call[c].op.choice)

\* The client is connected, and the action id decoded.
ResolveDialed(c) ==
  /\ At(c, "dialing")
  /\ call[c].op.kind = "resolve"
  /\ \/ Decoded(c) = Undecoded /\ Fails(c)
     \/ Decoded(c) # Undecoded /\ Goto(c, "resolving")
  /\ UNCHANGED gatewayVars

ResolveRequest(c) ==
  Resolve(c, call[c].op.approval, Decoded(c).kind, Decoded(c).decision)

ResolveApproval(c) ==
  /\ At(c, "resolving")
  /\ Request(c, ResolveRequest(c), Done(call[c], [NoAnswer EXCEPT !.ok = TRUE]))

ResolveStep(c) == ResolveDialed(c) \/ ResolveApproval(c)
-----------------------------------------------------------------------------
IsResolve(c) == call[c].op.kind = "resolve"

\* Every decision at the Gateway is one that a call or a peer chose for that
\* very approval, and an action the snapshot of a pending approval offered is
\* accepted by the resolver it is sent to, whichever kind the approval has
\* and whatever other calls decide meanwhile.
DecisionsArriveAsChosen ==
  /\ \A a \in Approvals : approval[a] \in Decisions =>
       \E c \in Calls :
         IsResolve(c) /\ call[c].op.approval = a /\ call[c].op.choice.decision = approval[a]
  /\ \A c \in Calls :
       /\ IsResolve(c) /\ At(c, "resolving")
       /\ call[c].op.choice \in approvalSnapshot(call[c].op.approval)
       /\ approval[call[c].op.approval] = "pending"
       => Accepts(ResolveRequest(c))
=============================================================================
