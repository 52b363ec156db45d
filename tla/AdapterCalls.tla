---------------------------- MODULE AdapterCalls ----------------------------
(***************************************************************************)
(* Calls of the Hub to the adapter (openclaw/discovery.go, control.go).    *)
(* Each runs in a goroutine of its own, dials a client of its own and      *)
(* makes its requests to the Gateway one after the other; the calls share  *)
(* nothing but the Gateway.  A call record says where the call is and what *)
(* it keeps from the answers it got.                                       *)
(***************************************************************************)
EXTENDS GatewaySession

INSTANCE Detail

CONSTANTS
  Operations,   \* what the Hub may ask for
  Scenarios     \* what each call is for, beside what others do meanwhile

ASSUME ScenariosAssumption == Scenarios \subseteq [plan : [Calls -> Operations], budget : Budgets]

\* Operations are told apart by their kind; MessageDelivery, RunStatus,
\* ApprovalActions and SessionControl say what fields theirs have.
ASSUME OperationsAssumption ==
  \A op \in Operations :
    \/ op.kind = "control"
    \/ op.kind \in {"wait", "status", "interrupt"} /\ op.run \in Runs \cup {None}
    \/ op.kind = "resolve" /\ op.approval \in Approvals
    \/ op.kind \in {"start", "send"} /\ op.message \in Messages \cup {None}

VARIABLES
  call,     \* by call: its record, "off" before the Hub makes it
  offers    \* history: the <<model, catalogue>> that were in force, in order

callVars == <<call, offers>>
vars == <<gatewayVars, callVars>>

NoAnswer ==
  [ok |-> FALSE, confirmed |-> FALSE, status |-> None, type |-> None, details |-> None,
   session |-> None]

\* `served`, `since`, `earlier` and `blocking` are history: the version that
\* the call's change made, and, when it began, the offer in force, the calls
\* that had returned and the pending approvals.
Unmade(op) ==
  [op |-> op, at |-> "off", row |-> None, models |-> None, status |-> None, mutated |-> FALSE,
   listFailed |-> FALSE, answer |-> NoAnswer, served |-> 0, since |-> 0, earlier |-> {},
   blocking |-> {}]

CallInit ==
  /\ \E scenario \in Scenarios :
       /\ call = [c \in Calls |-> Unmade(scenario.plan[c])]
       /\ budget = scenario.budget
  /\ offers = <<<<row.model, catalogue>>>>

PendingNow == {a \in Approvals : approval[a] = "pending"}

At(c, point) == call[c].at = point
Returned(c) == At(c, "done")

Becomes(c, r) == call' = [call EXCEPT ![c] = r]
Goto(c, point) == Becomes(c, [call[c] EXCEPT !.at = point])

\* The Hub makes the call.
Begin(c) ==
  /\ At(c, "off")
  /\ Becomes(c, [call[c] EXCEPT !.at = "dialing", !.since = Cardinality(DOMAIN offers),
                                !.earlier = {d \in Calls : Returned(d)},
                                !.blocking = PendingNow])
  /\ UNCHANGED gatewayVars

\* The call returns; what it kept is gone.
Done(r, answer) ==
  [r EXCEPT !.at = "done", !.answer = answer, !.row = None, !.models = None]
Fails(c) == Becomes(c, Done(call[c], NoAnswer))

\* A request is answered, or its caller gives up on it: an error, a timeout,
\* a lost connection, an ended context.
Answered(q) == Accepts(q) /\ Perform(q) /\ UNCHANGED <<catalogue, late, budget>>
GivenUp(q) ==
  /\ late' = late \cup {q}
  /\ UNCHANGED <<row, catalogue, approval, run, created, sent, budget>>

RequestIgnoringError(c, q, r) == (Answered(q) \/ GivenUp(q)) /\ Becomes(c, r)

\* A request that changes something, after which the call becomes r.
Request(c, q, r) ==
  \/ Answered(q) /\ Becomes(c, r)
  \/ GivenUp(q) /\ Fails(c)

\* A dial without a deadline goes on as long as the Gateway sends other frames
\* than the challenge, and the write of a request has no deadline and is over
\* before its timer and its context are listened to: here a call may hang.
MayHang(c) == call[c].at \notin {"off", "attaching", "done", "hanging"}

Hang(c) == MayHang(c) /\ Goto(c, "hanging") /\ UNCHANGED gatewayVars

\* dialClient and newGatewayClient.
DialFails(c) == At(c, "dialing") /\ Fails(c) /\ UNCHANGED gatewayVars

\* sessions.describe: None stands for no row, whether the session is gone or
\* the request failed.
Described == IF row.exists THEN row ELSE None
-----------------------------------------------------------------------------
(* The option catalogues.                                                  *)

modelsToOptions(models) == {m \in Models : models[m].available}

reasoningOptionsFromRow(r) == IF r = None THEN {} ELSE LevelsOf[r.model]

\* The row's levels, unless the catalogue says its model does not reason.
reasoningOptionsForModel(r, models) ==
  IF r # None /\ ~models[r.model].reasoning THEN {} ELSE reasoningOptionsFromRow(r)

\* What is offered given a row and a catalogue, either of which may be missing.
ModelOptions(models) == IF models = None THEN {} ELSE modelsToOptions(models)
ReasoningOptions(r, models) ==
  IF models = None THEN reasoningOptionsFromRow(r) ELSE reasoningOptionsForModel(r, models)
-----------------------------------------------------------------------------
(* buildDetailSnapshotWithRun at the end of a call: requests none of which *)
(* fails it.                                                               *)

KeepFirstRow(r) == [r EXCEPT !.at = IF r.row = None THEN "detailRow" ELSE "detailExec"]

EnterRefresh(r) == [r EXCEPT !.at = "detailRow", !.row = None, !.models = None]

\* The row, and the model catalogue, whose options fill fields that are
\* abstracted.
RefreshRow(c) ==
  /\ At(c, "detailRow")
  /\ \E r \in {Described, None} :
       Becomes(c, [call[c] EXCEPT !.row = r, !.at = "detailExec"])
  /\ UNCHANGED gatewayVars

\* The run the caller knows of: the end of the run it waited for, or none.
RunOverride(r) == IF r.status = None THEN idleRun ELSE runFromWaitStatus(r.status)

eventType(status) == IF status = "failed" THEN "run.failed" ELSE "run.completed"

DetailsWith(r, pending) ==
  [row |-> r.row, view |-> buildDetailSnapshotWithRun(RunOverride(r), None, pending)]

\* The result of a control call, or the event of a wait.  `blocking` keeps
\* the approvals that were pending from the first moment of the call to now.
Complete(r, pending) ==
  Done([r EXCEPT !.blocking = @ \cap PendingNow],
       [NoAnswer EXCEPT !.ok = TRUE, !.confirmed = r.mutated, !.status = r.status,
                        !.type = IF r.status = None THEN None ELSE eventType(r.status),
                        !.details = DetailsWith(r, pending)])

FindExecApproval(c, kind) ==
  \/ \E a \in Pending(kind) : Becomes(c, Complete(call[c], a))
  \/ \E failed \in {TRUE} \cup (IF Pending(kind) = {} THEN {FALSE} ELSE {}) :
       Becomes(c, Complete([call[c] EXCEPT !.listFailed = @ \/ failed], None))

\* firstPendingApprovalForSession, one list: the first pending approval ends
\* the search; a failed list counts as empty.
FindApproval(c, kind) ==
  \/ \E a \in Pending(kind) : Becomes(c, Complete(call[c], a))
  \/ \E failed \in {TRUE} \cup (IF Pending(kind) = {} THEN {FALSE} ELSE {}) :
       LET r == [call[c] EXCEPT !.listFailed = @ \/ failed] IN
       Becomes(c, IF kind = "exec" THEN [r EXCEPT !.at = "detailPlugin"] ELSE Complete(r, None))

RefreshApprovals(c) ==
  /\ \/ At(c, "detailExec") /\ FindApproval(c, "exec")
     \/ At(c, "detailPlugin") /\ FindApproval(c, "plugin")
  /\ UNCHANGED gatewayVars

Refresh(c) == RefreshRow(c) \/ RefreshApprovals(c)
=============================================================================
