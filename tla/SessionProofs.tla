--------------------------- MODULE SessionProofs ---------------------------
(***************************************************************************)
(* Theorems about SessionCalls for every set of calls, operations, runs,   *)
(* approvals and messages, and however the Gateway performs the requests   *)
(* whose callers gave up.                                                  *)
(***************************************************************************)
EXTENDS SessionCalls, TLAPS

Fields ==
  {"op", "at", "row", "models", "status", "mutated", "listFailed", "answer", "served", "since",
   "earlier", "blocking"}

Changes ==
  {"model.switch", "reasoning.switch", "rename", "pin", "archive", "context.compact", "delete"}

\* A call is only ever at places of its own operation.
Placed(r) ==
  /\ DOMAIN r = Fields
  /\ r.op \in Operations
  /\ r.at \in {"describing", "listing", "patching"} => r.op.kind = "control"
  /\ r.at \in {"describing", "listing", "patching"} => r.op.action \in Changes
  /\ r.at = "waiting" => r.op.kind = "wait"
  /\ r.at \in {"asking", "statusRow"} => r.op.kind = "status"
  /\ r.at = "aborting" => r.op.kind = "interrupt"
  /\ r.at = "resolving" =>
       r.op.kind = "resolve" /\ decodeApprovalActionID(r.op.choice) # Undecoded
  /\ r.at \in {"creating", "sendDialing", "verifying"} => r.op.kind = "start"
  /\ r.at \in {"attaching", "sending"} => r.op.kind \in {"start", "send"}
  /\ r.at \in {"detailRow", "detailExec", "detailPlugin"} => r.op.kind \in {"control", "wait"}

CallsPlaced ==
  /\ call = [c \in Calls |-> call[c]]
  /\ \A c \in Calls : Placed(call[c])

\* The requests that the operation of call c may lead to.
MayAsk(c, q) ==
  \/ call[c].op.kind = "control" /\ q.method = "sessions.patch"
  \/ call[c].op.kind = "interrupt" /\ q = AbortRequest(c)
  \/ call[c].op.kind = "resolve" /\ Decoded(c) # Undecoded /\ q = ResolveRequest(c)
  \/ call[c].op.kind = "start" /\ q = CreateRequest(c)
  \/ call[c].op.kind \in {"start", "send"} /\ q = SendRequest(c)

Asked(q) == \E c \in Calls : MayAsk(c, q)

\* A request outlives its call unchanged.
LateAsked == \A q \in late : Asked(q)

GatewayTypes ==
  /\ run \in [Runs -> {"unborn", "running", "ok", "error", "aborted"}]
  /\ approval \in [Approvals -> {"unborn", "pending", "byPeer"} \cup Decisions]

Inv == CallsPlaced /\ LateAsked /\ GatewayTypes
-----------------------------------------------------------------------------
USE NoneAssumption, OperationsAssumption, IdsAssumption

OpsKept == \A d \in Calls : call'[d].op = call[d].op

\* One call moves to a place of its own; the others stay where they are.
Moves(c, r) == Becomes(c, r) /\ Placed(r) /\ r.op = call[c].op

\* The call that moves is placed, and no other is disturbed.
LEMMA MoveKeepsCalls ==
  ASSUME CallsPlaced, NEW c \in Calls, NEW r, Moves(c, r)
  PROVE  /\ CallsPlaced'
         /\ OpsKept
         /\ call'[c] = r
         /\ \A d \in Calls \ {c} : call'[d] = call[d]
BY DEF CallsPlaced, Moves, Becomes, OpsKept, Placed

\* What a call may ask for depends on its operation alone.
LEMMA AskedKept ==
  ASSUME OpsKept, NEW q
  PROVE  Asked(q) <=> Asked(q)'
BY DEF OpsKept, Asked, MayAsk, AbortRequest, RunOf, Abort, Decoded, ResolveRequest, Resolve,
       CreateRequest, Create, SessionKey, SendRequest, ChatSend, TargetSession, IdempotencyKey

\* What a step of call c may do beside moving it to r.  In a calm step no
\* delivery succeeds.
Calm(r) ==
  r.op.kind \in {"start", "send"} => r.at # "verifying" /\ (r.at = "done" => ~r.answer.ok)

Requested(c) == \E q : MayAsk(c, q) /\ (Answered(q) \/ GivenUp(q))

Outcome(c, r) ==
  \/ Calm(r) /\ (UNCHANGED gatewayVars \/ Requested(c))
  \/ /\ At(c, "verifying")
     /\ r.at = "done"
     /\ r.answer.session = TargetSession(c)
     /\ UNCHANGED gatewayVars
  \/ /\ At(c, "sending")
     /\ r.at = "done" => r.answer.session = TargetSession(c)
     /\ Answered(SendRequest(c))

StepOf(c) == \E r : Moves(c, r) /\ Outcome(c, r)

\* A call that fails is placed anywhere.
LEMMA FailsMoves ==
  ASSUME CallsPlaced, NEW c \in Calls, Fails(c)
  PROVE  \E r : Moves(c, r) /\ Calm(r)
<1> DEFINE r == Done(call[c], NoAnswer)
<1>1. Placed(call[c])
  BY DEF CallsPlaced
<1>2. DOMAIN r = Fields /\ r.op = call[c].op /\ r.at = "done" /\ r.answer = NoAnswer
  BY <1>1 DEF Done, Placed, Fields
<1>3. Placed(r) /\ ~r.answer.ok
  BY <1>1, <1>2 DEF Placed, NoAnswer
<1> QED
  BY <1>2, <1>3 DEF Fails, Moves, Calm

\* Going on to another place keeps the operation, so it is placed if any record there is.
LEMMA GotoMoves ==
  ASSUME CallsPlaced, NEW c \in Calls, NEW p, Goto(c, p), p \notin {"verifying", "done"},
         \A r : /\ r.op = call[c].op /\ r.at = p /\ DOMAIN r = Fields
                => Placed(r)
  PROVE  \E r : Moves(c, r) /\ Calm(r)
<1> DEFINE r == [call[c] EXCEPT !.at = p]
<1>1. DOMAIN call[c] = Fields
  BY DEF CallsPlaced, Placed
<1>2. DOMAIN r = Fields /\ r.op = call[c].op /\ r.at = p
  BY <1>1 DEF Fields
<1>3. Placed(r)
  BY <1>2
<1> QED
  BY <1>2, <1>3 DEF Goto, Moves, Calm

\* The details are built at the end of control calls and waits only.
LEMMA EnterRefreshMoves ==
  ASSUME NEW q, Placed(q), q.op.kind \in {"control", "wait"}
  PROVE  LET r == EnterRefresh(q) IN Placed(r) /\ r.op = q.op /\ Calm(r)
<1> DEFINE r == EnterRefresh(q)
<1>1. DOMAIN q = Fields
  BY DEF Placed
<1>2. DOMAIN r = Fields /\ r.op = q.op /\ r.at = "detailRow"
  BY <1>1 DEF EnterRefresh, Fields
<1> QED
  BY <1>2 DEF Placed, Calm

\* A request that is answered or given up is one the operation may lead to.
LEMMA RequestMoves ==
  ASSUME CallsPlaced, NEW c \in Calls, NEW q, NEW r, MayAsk(c, q), Request(c, q, r),
         Placed(r), r.op = call[c].op, Calm(r)
  PROVE  StepOf(c)
<1>1. CASE Answered(q) /\ Becomes(c, r)
  BY <1>1 DEF StepOf, Moves, Outcome, Requested
<1>2. CASE GivenUp(q) /\ Fails(c)
  BY <1>2, FailsMoves DEF StepOf, Outcome, Requested
<1> QED
  BY <1>1, <1>2 DEF Request

\* Every step of a control call.
LEMMA ControlMoves ==
  ASSUME CallsPlaced, NEW c \in Calls, ControlStep(c)
  PROVE  StepOf(c)
<1>0. Placed(call[c]) /\ DOMAIN call[c] = Fields
  BY DEF CallsPlaced, Placed
<1>1. CASE ControlDialed(c)
  <2>1. call[c].op.kind = "control" /\ UNCHANGED gatewayVars
    BY <1>1 DEF ControlDialed
  <2>2. CASE Becomes(c, EnterRefresh(call[c]))
    BY <1>0, <2>1, <2>2, EnterRefreshMoves DEF StepOf, Moves, Outcome
  <2>3. CASE Fails(c)
    BY <2>1, <2>3, FailsMoves DEF StepOf, Outcome
  <2>4. ASSUME NEW p \in {"listing", "describing", "patching"}, Goto(c, p),
               call[c].op.action \in Changes
        PROVE  StepOf(c)
    <3>1. \A r : r.op = call[c].op /\ r.at = p /\ DOMAIN r = Fields => Placed(r)
      BY <1>0, <2>1, <2>4 DEF Placed
    <3> QED
      BY <2>1, <2>4, <3>1, GotoMoves DEF StepOf, Outcome
  <2> QED
    BY <1>1, <2>2, <2>3, <2>4 DEF ControlDialed, NeedsTarget, Changes
<1>2. CASE ReadRow(c)
  <2>1. CASE Fails(c)
    BY <1>2, <2>1, FailsMoves DEF ReadRow, StepOf, Outcome
  <2>2. CASE \E p \in {"listing", "patching"} :
               Becomes(c, [call[c] EXCEPT !.row = Described, !.at = p])
    <3>1. PICK p \in {"listing", "patching"} :
            Becomes(c, [call[c] EXCEPT !.row = Described, !.at = p])
      BY <2>2
    <3> DEFINE r == [call[c] EXCEPT !.row = Described, !.at = p]
    <3>2. DOMAIN r = Fields /\ r.op = call[c].op /\ r.at = p
      BY <1>0 DEF Fields
    <3>3. Placed(r) /\ Calm(r)
      BY <1>0, <1>2, <3>2 DEF Placed, Calm, ReadRow, At
    <3> QED
      BY <1>2, <3>1, <3>2, <3>3 DEF ReadRow, StepOf, Moves, Outcome
  <2> QED
    BY <1>2, <2>1, <2>2 DEF ReadRow
<1>3. CASE CheckTarget(c)
  <2>1. CASE Fails(c)
    BY <1>3, <2>1, FailsMoves DEF CheckTarget, StepOf, Outcome
  <2>2. ASSUME NEW m, Becomes(c, [call[c] EXCEPT !.models = m, !.at = "patching"])
        PROVE  StepOf(c)
    <3> DEFINE r == [call[c] EXCEPT !.models = m, !.at = "patching"]
    <3>1. DOMAIN r = Fields /\ r.op = call[c].op /\ r.at = "patching"
      BY <1>0 DEF Fields
    <3>2. Placed(r) /\ Calm(r)
      BY <1>0, <1>3, <3>1 DEF Placed, Calm, CheckTarget, At
    <3> QED
      BY <1>3, <2>2, <3>1, <3>2 DEF CheckTarget, StepOf, Moves, Outcome
  <2> QED
    BY <1>3, <2>1, <2>2 DEF CheckTarget
<1>4. CASE ChangeSession(c)
  <2>1. call[c].op.kind = "control" /\ call[c].op.action \in Changes
    BY <1>0, <1>4 DEF ChangeSession, At, Placed
  <2>2. MayAsk(c, ChangeRequest(c))
    BY <2>1 DEF MayAsk, ChangeRequest, Patch, Compact, DeleteSession, Changes
  <2> DEFINE q == [call[c] EXCEPT !.mutated = TRUE, !.served = row.version + 1]
  <2>3. DOMAIN q = Fields /\ q.op = call[c].op /\ q.at = "patching"
    BY <1>0, <1>4 DEF Fields, ChangeSession, At
  <2>4. Placed(q)
    BY <1>0, <2>3, <2>1 DEF Placed
  <2> DEFINE answer == [NoAnswer EXCEPT !.ok = TRUE, !.confirmed = TRUE]
  <2> DEFINE r == AfterChange(c)
  <2>5. CASE IsControl(c, "delete")
    <3>1. r = Done(q, answer)
      BY <2>5 DEF AfterChange
    <3>2. DOMAIN r = Fields /\ r.op = q.op /\ r.at = "done"
      BY <2>3, <3>1 DEF Done, Fields
    <3>3. Placed(r) /\ Calm(r)
      BY <2>1, <2>3, <2>4, <3>2 DEF Placed, Calm
    <3> QED
      BY <1>4, <2>2, <2>3, <3>2, <3>3, RequestMoves DEF ChangeSession
  <2>6. CASE ~IsControl(c, "delete")
    <3>1. r = EnterRefresh(q)
      BY <2>6 DEF AfterChange
    <3>2. Placed(r) /\ Calm(r) /\ r.op = call[c].op
      BY <2>1, <2>3, <2>4, <3>1, EnterRefreshMoves
    <3> QED
      BY <1>4, <2>2, <3>2, RequestMoves DEF ChangeSession
  <2> QED
    BY <2>5, <2>6
<1> QED
  BY <1>1, <1>2, <1>3, <1>4 DEF ControlStep

\* A call that returns an answer, other than that of a delivery.
LEMMA DoneMoves ==
  ASSUME NEW q, NEW a, Placed(q), q.op.kind \notin {"start", "send"}
  PROVE  LET r == Done(q, a) IN Placed(r) /\ r.op = q.op /\ Calm(r)
<1> DEFINE r == Done(q, a)
<1>1. DOMAIN q = Fields
  BY DEF Placed
<1>2. DOMAIN r = Fields /\ r.op = q.op /\ r.at = "done"
  BY <1>1 DEF Done, Fields
<1> QED
  BY <1>2 DEF Placed, Calm

\* Every step of a call about a run.
LEMMA RunMoves ==
  ASSUME CallsPlaced, NEW c \in Calls, RunStep(c)
  PROVE  StepOf(c)
<1>0. Placed(call[c]) /\ DOMAIN call[c] = Fields
  BY DEF CallsPlaced, Placed
<1>1. CASE RunDialed(c)
  <2>1. CASE Fails(c)
    BY <1>1, <2>1, FailsMoves DEF RunDialed, StepOf, Outcome
  <2>2. ASSUME NEW k \in {"wait", "status", "interrupt"}, NEW p, Goto(c, p), IsRunCall(c, k),
               \/ k = "wait" /\ p = "waiting"
               \/ k = "status" /\ p \in {"asking", "statusRow"}
               \/ k = "interrupt" /\ p = "aborting"
        PROVE  StepOf(c)
    <3>1. \A r : r.op = call[c].op /\ r.at = p /\ DOMAIN r = Fields => Placed(r)
      BY <1>0, <2>2 DEF Placed, IsRunCall
    <3> QED
      BY <1>1, <2>2, <3>1, GotoMoves DEF RunDialed, StepOf, Outcome
  <2> QED
    BY <1>1, <2>1, <2>2 DEF RunDialed
<1>2. CASE WaitForRun(c)
  <2>1. CASE Fails(c)
    BY <1>2, <2>1, FailsMoves DEF WaitForRun, StepOf, Outcome
  <2>2. ASSUME NEW s, Becomes(c, EnterRefresh([call[c] EXCEPT !.status = s]))
        PROVE  StepOf(c)
    <3> DEFINE q == [call[c] EXCEPT !.status = s]
    <3>1. DOMAIN q = Fields /\ q.op = call[c].op /\ q.at = "waiting"
      BY <1>0, <1>2 DEF Fields, WaitForRun, At
    <3>2. Placed(q) /\ q.op.kind = "wait"
      BY <1>0, <1>2, <3>1 DEF Placed, WaitForRun, At
    <3> QED
      BY <1>2, <2>2, <3>1, <3>2, EnterRefreshMoves DEF WaitForRun, StepOf, Moves, Outcome
  <2> QED
    BY <1>2, <2>1, <2>2 DEF WaitForRun
<1>3. CASE AskRun(c)
  <2>1. CASE Fails(c)
    BY <1>3, <2>1, FailsMoves DEF AskRun, StepOf, Outcome
  <2>2. ASSUME NEW s, Becomes(c, [call[c] EXCEPT !.status = s, !.at = "statusRow"])
        PROVE  StepOf(c)
    <3> DEFINE r == [call[c] EXCEPT !.status = s, !.at = "statusRow"]
    <3>1. DOMAIN r = Fields /\ r.op = call[c].op /\ r.at = "statusRow"
      BY <1>0 DEF Fields
    <3>2. Placed(r) /\ Calm(r)
      BY <1>0, <1>3, <3>1 DEF Placed, Calm, AskRun, At
    <3> QED
      BY <1>3, <2>2, <3>1, <3>2 DEF AskRun, StepOf, Moves, Outcome
  <2> QED
    BY <1>3, <2>1, <2>2 DEF AskRun
<1>4. CASE StatusRow(c)
  <2>1. call[c].op.kind = "status"
    BY <1>0, <1>4 DEF StatusRow, At, Placed
  <2>2. PICK a : Becomes(c, Done(call[c], a))
    BY <1>4 DEF StatusRow
  <2> QED
    BY <1>0, <1>4, <2>1, <2>2, DoneMoves DEF StatusRow, StepOf, Moves, Outcome
<1>5. CASE Interrupt(c)
  <2>1. call[c].op.kind = "interrupt"
    BY <1>0, <1>5 DEF Interrupt, At, Placed
  <2> QED
    BY <1>0, <1>5, <2>1, DoneMoves, RequestMoves DEF Interrupt, MayAsk
<1> QED
  BY <1>1, <1>2, <1>3, <1>4, <1>5 DEF RunStep

\* Every step of a call that resolves an approval.
LEMMA ResolveMoves ==
  ASSUME CallsPlaced, NEW c \in Calls, ResolveStep(c)
  PROVE  StepOf(c)
<1>0. Placed(call[c]) /\ DOMAIN call[c] = Fields
  BY DEF CallsPlaced, Placed
<1>1. CASE ResolveDialed(c) /\ Fails(c)
  BY <1>1, FailsMoves DEF ResolveDialed, StepOf, Outcome
<1>2. CASE ResolveDialed(c) /\ Decoded(c) # Undecoded /\ Goto(c, "resolving")
  <2>1. \A r : r.op = call[c].op /\ r.at = "resolving" /\ DOMAIN r = Fields => Placed(r)
    BY <1>0, <1>2 DEF Placed, ResolveDialed, Decoded
  <2> QED
    BY <1>2, <2>1, GotoMoves DEF ResolveDialed, StepOf, Outcome
<1>3. CASE ResolveApproval(c)
  <2>1. call[c].op.kind = "resolve" /\ Decoded(c) # Undecoded
    BY <1>0, <1>3 DEF ResolveApproval, At, Placed, Decoded
  <2> QED
    BY <1>0, <1>3, <2>1, DoneMoves, RequestMoves DEF ResolveApproval, MayAsk
<1> QED
  BY <1>1, <1>2, <1>3 DEF ResolveStep, ResolveDialed

\* Every step of the snapshot at the end of a call.
LEMMA RefreshMoves ==
  ASSUME CallsPlaced, NEW c \in Calls, Refresh(c)
  PROVE  StepOf(c)
<1>0. Placed(call[c]) /\ DOMAIN call[c] = Fields
  BY DEF CallsPlaced, Placed
<1>1. call[c].op.kind \in {"control", "wait"} /\ UNCHANGED gatewayVars
  BY <1>0 DEF Refresh, RefreshRow, RefreshApprovals, At, Placed
<1>2. ASSUME NEW x, Becomes(c, [call[c] EXCEPT !.row = x, !.at = "detailExec"])
      PROVE  StepOf(c)
  <2> DEFINE r == [call[c] EXCEPT !.row = x, !.at = "detailExec"]
  <2>1. DOMAIN r = Fields /\ r.op = call[c].op /\ r.at = "detailExec"
    BY <1>0 DEF Fields
  <2>2. Placed(r) /\ Calm(r)
    BY <1>0, <1>1, <2>1 DEF Placed, Calm
  <2> QED
    BY <1>1, <1>2, <2>1, <2>2 DEF StepOf, Moves, Outcome
<1>3. ASSUME NEW q, NEW a, Placed(q), q.op = call[c].op, Becomes(c, Complete(q, a))
      PROVE  StepOf(c)
  <2> DEFINE p == [q EXCEPT !.blocking = @ \cap PendingNow]
  <2>1. DOMAIN p = Fields /\ p.op = q.op /\ p.at = q.at
    BY <1>3 DEF Placed, Fields
  <2>2. Placed(p) /\ p.op.kind \notin {"start", "send"}
    BY <1>1, <1>3, <2>1 DEF Placed
  <2>3. PICK b : Complete(q, a) = Done(p, b)
    BY DEF Complete
  <2> DEFINE r == Complete(q, a)
  <2>4. Placed(r) /\ r.op = call[c].op /\ Calm(r)
    <3> HIDE DEF p
    <3>1. Placed(Done(p, b)) /\ Done(p, b).op = p.op /\ Calm(Done(p, b))
      BY <2>2, DoneMoves
    <3> QED
      BY <1>3, <2>1, <2>3, <3>1
  <2> QED
    BY <1>1, <1>3, <2>4 DEF StepOf, Moves, Outcome
<1>4. ASSUME NEW f, Becomes(c, [[call[c] EXCEPT !.listFailed = f] EXCEPT !.at = "detailPlugin"])
      PROVE  StepOf(c)
  <2> DEFINE r == [[call[c] EXCEPT !.listFailed = f] EXCEPT !.at = "detailPlugin"]
  <2>1. DOMAIN r = Fields /\ r.op = call[c].op /\ r.at = "detailPlugin"
    BY <1>0 DEF Fields
  <2>2. Placed(r) /\ Calm(r)
    BY <1>0, <1>1, <2>1 DEF Placed, Calm
  <2> QED
    BY <1>1, <1>4, <2>1, <2>2 DEF StepOf, Moves, Outcome
<1>5. \A f : LET q == [call[c] EXCEPT !.listFailed = f] IN Placed(q) /\ q.op = call[c].op
  <2> TAKE f
  <2> DEFINE q == [call[c] EXCEPT !.listFailed = f]
  <2>1. DOMAIN q = Fields /\ q.op = call[c].op /\ q.at = call[c].at
    BY <1>0 DEF Fields
  <2> QED
    BY <1>0, <2>1 DEF Placed
<1>6. ASSUME NEW kind, FindApproval(c, kind)
      PROVE  StepOf(c)
  <2>1. CASE \E a \in Pending(kind) : Becomes(c, Complete(call[c], a))
    BY <1>0, <1>3, <2>1
  <2>2. CASE \E f : Becomes(c, LET r == [call[c] EXCEPT !.listFailed = f] IN
                              IF kind = "exec" THEN [r EXCEPT !.at = "detailPlugin"]
                              ELSE Complete(r, None))
    BY <1>3, <1>4, <1>5, <2>2
  <2> QED
    BY <1>6, <2>1, <2>2 DEF FindApproval
<1> QED
  BY <1>2, <1>6 DEF Refresh, RefreshRow, RefreshApprovals

\* Every step of a call that delivers a message.
LEMMA DeliveryMoves ==
  ASSUME CallsPlaced, NEW c \in Calls, DeliveryStep(c)
  PROVE  StepOf(c)
<1>0. Placed(call[c]) /\ DOMAIN call[c] = Fields
  BY DEF CallsPlaced, Placed
<1> DEFINE answer == [NoAnswer EXCEPT !.ok = TRUE, !.session = TargetSession(c)]
<1>a. answer.session = TargetSession(c) /\ "session" \in DOMAIN answer
  BY DEF NoAnswer
<1>b. LET r == Delivered(c) IN
        /\ DOMAIN r = Fields /\ r.op = call[c].op /\ r.at = "done"
        /\ r.answer = answer /\ Placed(r)
  <2> DEFINE r == Delivered(c)
  <2>1. DOMAIN r = Fields /\ r.op = call[c].op /\ r.at = "done" /\ r.answer = answer
    BY <1>0 DEF Delivered, Done, Fields
  <2> QED
    BY <1>0, <2>1 DEF Placed
<1>1. CASE DeliveryDialed(c)
  <2>1. ASSUME NEW p, Goto(c, p),
               \/ call[c].op.kind = "start" /\ p = "creating"
               \/ call[c].op.kind = "send" /\ p = "attaching"
        PROVE  StepOf(c)
    <3>1. \A r : r.op = call[c].op /\ r.at = p /\ DOMAIN r = Fields => Placed(r)
      BY <1>0, <2>1 DEF Placed
    <3> QED
      BY <1>1, <2>1, <3>1, GotoMoves DEF DeliveryDialed, StepOf, Outcome
  <2> QED
    BY <1>1, <2>1 DEF DeliveryDialed
<1>2. CASE CreateSession(c)
  <2> DEFINE r == [call[c] EXCEPT !.at = "sendDialing"]
  <2>1. call[c].op.kind = "start"
    BY <1>0, <1>2 DEF CreateSession, At, Placed
  <2>2. DOMAIN r = Fields /\ r.op = call[c].op /\ r.at = "sendDialing"
    BY <1>0 DEF Fields
  <2>3. Placed(r) /\ Calm(r)
    BY <1>0, <2>1, <2>2 DEF Placed, Calm
  <2> QED
    BY <1>2, <2>1, <2>2, <2>3, RequestMoves DEF CreateSession, MayAsk
<1>3. CASE SendDialed(c)
  <2>1. \A r : r.op = call[c].op /\ r.at = "attaching" /\ DOMAIN r = Fields => Placed(r)
    BY <1>0, <1>3 DEF Placed, SendDialed, At
  <2> QED
    BY <1>3, <2>1, FailsMoves, GotoMoves DEF SendDialed, StepOf, Outcome
<1>4. CASE ReadAttachments(c)
  <2>1. \A r : r.op = call[c].op /\ r.at = "sending" /\ DOMAIN r = Fields => Placed(r)
    BY <1>0, <1>4 DEF Placed, ReadAttachments, At
  <2> QED
    BY <1>4, <2>1, FailsMoves, GotoMoves DEF ReadAttachments, StepOf, Outcome
<1>5. CASE SendMessage(c)
  <2>1. call[c].op.kind \in {"start", "send"}
    BY <1>0, <1>5 DEF SendMessage, At, Placed
  <2>2. MayAsk(c, SendRequest(c))
    BY <2>1 DEF MayAsk
  <2>3. CASE GivenUp(SendRequest(c)) /\ Fails(c)
    BY <2>2, <2>3, FailsMoves DEF StepOf, Outcome, Requested
  <2>4. CASE call[c].op.kind = "start" /\ Answered(SendRequest(c))
             /\ Becomes(c, [call[c] EXCEPT !.at = "verifying"])
    <3> DEFINE r == [call[c] EXCEPT !.at = "verifying"]
    <3>1. DOMAIN r = Fields /\ r.op = call[c].op /\ r.at = "verifying"
      BY <1>0 DEF Fields
    <3>2. Placed(r)
      BY <1>0, <2>4, <3>1 DEF Placed
    <3> QED
      BY <1>5, <2>4, <3>1, <3>2 DEF SendMessage, StepOf, Moves, Outcome
  <2>5. CASE Answered(SendRequest(c)) /\ Becomes(c, Delivered(c))
    BY <1>5, <1>a, <1>b, <2>5 DEF SendMessage, StepOf, Moves, Outcome
  <2> QED
    BY <1>5, <2>3, <2>4, <2>5 DEF SendMessage, Request
<1>6. CASE VerifyVisibility(c)
  <2>1. CASE Fails(c)
    BY <1>6, <2>1, FailsMoves DEF VerifyVisibility, StepOf, Outcome
  <2>2. CASE Becomes(c, Delivered(c))
    BY <1>6, <1>a, <1>b, <2>2 DEF VerifyVisibility, StepOf, Moves, Outcome
  <2>3. CASE Becomes(c, [Delivered(c) EXCEPT !.answer.confirmed = TRUE])
    <3> DEFINE r == [Delivered(c) EXCEPT !.answer.confirmed = TRUE]
    <3>1. DOMAIN r = Fields /\ r.op = call[c].op /\ r.at = "done"
          /\ r.answer.session = TargetSession(c)
      BY <1>a, <1>b DEF Fields
    <3>2. Placed(r)
      BY <1>0, <3>1 DEF Placed
    <3> QED
      BY <1>6, <2>3, <3>1, <3>2 DEF VerifyVisibility, StepOf, Moves, Outcome
  <2> QED
    BY <1>6, <2>1, <2>2, <2>3 DEF VerifyVisibility
<1> QED
  BY <1>1, <1>2, <1>3, <1>4, <1>5, <1>6 DEF DeliveryStep

\* Every step of a call that has begun.
LEMMA CallMoves ==
  ASSUME CallsPlaced, NEW c \in Calls, CallStep(c)
  PROVE  StepOf(c)
BY FailsMoves, ControlMoves, RunMoves, ResolveMoves, DeliveryMoves, RefreshMoves
   DEF CallStep, DialFails, StepOf, Outcome

\* The first step of a call.
LEMMA BeginMoves ==
  ASSUME CallsPlaced, NEW c \in Calls, Begin(c)
  PROVE  StepOf(c)
<1> DEFINE r == [call[c] EXCEPT !.at = "dialing", !.since = Cardinality(DOMAIN offers),
                                !.earlier = {d \in Calls : Returned(d)},
                                !.blocking = PendingNow]
<1>1. Placed(call[c]) /\ DOMAIN call[c] = Fields
  BY DEF CallsPlaced, Placed
<1>2. DOMAIN r = Fields /\ r.op = call[c].op /\ r.at = "dialing"
  BY <1>1 DEF Fields
<1>3. Placed(r) /\ Calm(r)
  BY <1>1, <1>2 DEF Placed, Calm
<1> QED
  BY <1>2, <1>3 DEF Begin, StepOf, Moves, Outcome

\* A call that hangs stays where the operation put it, as far as anyone can tell.
LEMMA HangMoves ==
  ASSUME CallsPlaced, NEW c \in Calls, Hang(c)
  PROVE  StepOf(c)
<1>1. \A r : r.op = call[c].op /\ r.at = "hanging" /\ DOMAIN r = Fields => Placed(r)
  BY DEF CallsPlaced, Placed
<1>2. \E r : Moves(c, r) /\ Calm(r)
  BY <1>1, GotoMoves DEF Hang
<1> QED
  BY <1>2 DEF Hang, StepOf, Outcome
-----------------------------------------------------------------------------
\* What a step does at the Gateway: nothing, perform a request that a call may
\* make, leave one to be performed later, drop one, or something of its own,
\* which aborts no run and decides no approval as a call does.
ByItself ==
  /\ UNCHANGED <<sent, late>>
  /\ GatewayTypes'
  /\ \A r \in Runs : run'[r] = "aborted" => run[r] = "aborted"
  /\ \A a \in Approvals : approval'[a] \in Decisions => approval'[a] = approval[a]

GatewayEffect ==
  \/ ByItself
  \/ \E q : Asked(q) /\ Perform(q) /\ late' \subseteq late
  \/ /\ UNCHANGED <<sent, run, approval>>
     /\ \A q \in late' : q \in late \/ Asked(q)

\* What a step of a call does at the Gateway.
LEMMA StepEffect ==
  ASSUME Inv, NEW c \in Calls, StepOf(c)
  PROVE  OpsKept /\ CallsPlaced' /\ GatewayEffect
<1>1. PICK r : Moves(c, r) /\ Outcome(c, r)
  BY DEF StepOf
<1>2. OpsKept /\ CallsPlaced'
  BY <1>1, MoveKeepsCalls DEF Inv
<1>3. CASE UNCHANGED gatewayVars
  BY <1>2, <1>3 DEF gatewayVars, GatewayEffect
<1>4. ASSUME NEW q, MayAsk(c, q), Answered(q) \/ GivenUp(q)
      PROVE  GatewayEffect
  <2>1. Asked(q)
    BY <1>4 DEF Asked
  <2> QED
    BY <1>4, <2>1 DEF Answered, GivenUp, GatewayEffect
<1>5. CASE At(c, "sending") /\ Answered(SendRequest(c))
  <2>1. MayAsk(c, SendRequest(c))
    BY <1>5 DEF Inv, CallsPlaced, Placed, At, MayAsk
  <2> QED
    BY <1>2, <1>4, <1>5, <2>1
<1> QED
  BY <1>1, <1>2, <1>3, <1>4, <1>5 DEF Outcome, Requested

\* What the Gateway, its late requests and the peers do, while every call stays.
LEMMA GatewayStepEffect ==
  ASSUME Inv, GatewayStep
  PROVE  GatewayEffect
<1> USE DEF Inv, GatewayTypes, ByItself, GatewayEffect
<1>1. CASE \E m \in Models : PeerSwitchesModel(m)
  BY <1>1 DEF PeerSwitchesModel
<1>2. CASE CatalogueChanges
  BY <1>2 DEF CatalogueChanges
<1>3. ASSUME NEW a \in Approvals, RequestApproval(a) \/ PeerResolves(a)
      PROVE  GatewayEffect
  BY <1>3 DEF RequestApproval, PeerResolves, Decisions
<1>4. ASSUME NEW r \in PeerRuns, PeerStartsRun(r)
      PROVE  GatewayEffect
  BY <1>4 DEF PeerStartsRun, Runs
<1>5. ASSUME NEW r \in Runs, RunEnds(r)
      PROVE  GatewayEffect
  BY <1>5 DEF RunEnds
<1>6. CASE PerformLate
  <2>1. PICK q \in late :
          /\ late' = late \ {q}
          /\ Perform(q) \/ UNCHANGED <<row, approval, run, created, sent>>
    BY <1>6 DEF PerformLate
  <2> QED
    BY <2>1 DEF LateAsked
<1> QED
  BY <1>1, <1>2, <1>3, <1>4, <1>5, <1>6 DEF GatewayStep

\* Every step is one of these two, or stutters.
LEMMA Effects ==
  ASSUME Inv, [Next]_vars
  PROVE  OpsKept /\ CallsPlaced' /\ GatewayEffect
<1>1. CASE UNCHANGED vars
  BY <1>1 DEF vars, callVars, gatewayVars, OpsKept, CallsPlaced, GatewayEffect, Inv
<1>2. ASSUME NEW c \in Calls, Begin(c) \/ Hang(c) \/ CallStep(c)
      PROVE  OpsKept /\ CallsPlaced' /\ GatewayEffect
  BY <1>2, BeginMoves, HangMoves, CallMoves, StepEffect DEF Inv
<1>3. CASE GatewayStep /\ UNCHANGED call
  BY <1>3, GatewayStepEffect DEF OpsKept, CallsPlaced, Inv
<1> QED
  BY <1>1, <1>2, <1>3 DEF Next, Proceed
-----------------------------------------------------------------------------
\* A decoded action is one of the three decisions, as it was chosen.
LEMMA DecodedIsChosen ==
  ASSUME NEW c, Decoded(c) # Undecoded
  PROVE  /\ Decoded(c).decision = call[c].op.choice.decision
         /\ Decoded(c).decision \in Decisions
BY DEF Decoded, decodeApprovalActionID, Undecoded

\* A request that changes approvals is one that a call was asked for.
LEMMA AskedResolutions ==
  ASSUME NEW q, Asked(q), q.method = "approval.resolve"
  PROVE  /\ q.decision \in Decisions
         /\ \E c \in Calls : /\ IsResolve(c) /\ call[c].op.approval = q.approval
                             /\ call[c].op.choice.decision = q.decision
BY DecodedIsChosen
   DEF Asked, MayAsk, AbortRequest, Abort, ResolveRequest, Resolve, CreateRequest, Create,
       SendRequest, ChatSend, IsResolve

\* A request that aborts runs is one that an interrupt was asked for.
LEMMA AskedAborts ==
  ASSUME NEW q, Asked(q), q.method = "chat.abort"
  PROVE  \E c \in Calls : IsRunCall(c, "interrupt") /\ RunOf(c) = q.run
BY DEF Asked, MayAsk, AbortRequest, Abort, ResolveRequest, Resolve, CreateRequest, Create,
       SendRequest, ChatSend, IsRunCall

\* A performed request leaves runs and approvals in states of theirs.
LEMMA PerformTypes ==
  ASSUME GatewayTypes, NEW q, Asked(q), Perform(q)
  PROVE  GatewayTypes'
BY AskedResolutions DEF GatewayTypes, Perform

\* Decisions at the Gateway and aborted runs were asked for by calls.
DecisionsAsked ==
  \A a \in Approvals : approval[a] \in Decisions =>
    \E c \in Calls :
      IsResolve(c) /\ call[c].op.approval = a /\ call[c].op.choice.decision = approval[a]

IInv == Inv /\ DecisionsAsked /\ InterruptHitsNamedRun

\* The invariant at the start.
LEMMA Initially == Init => IInv
<1> SUFFICES ASSUME Init PROVE IInv
  OBVIOUS
<1> USE DEF Init, GatewayInit, CallInit
<1>1. PICK scenario \in Scenarios : call = [c \in Calls |-> Unmade(scenario.plan[c])]
  OBVIOUS
<1>2. \A c \in Calls : scenario.plan[c] \in Operations
  BY ScenariosAssumption
<1>3. CallsPlaced
  <2> SUFFICES ASSUME NEW c \in Calls PROVE Placed(call[c])
    BY <1>1 DEF CallsPlaced
  <2>1. DOMAIN call[c] = Fields /\ call[c].op = scenario.plan[c] /\ call[c].at = "off"
    BY <1>1 DEF Unmade, Fields
  <2> QED
    BY <1>2, <2>1 DEF Placed
<1>4. LateAsked /\ GatewayTypes
  BY DEF LateAsked, GatewayTypes
<1>5. DecisionsAsked /\ InterruptHitsNamedRun
  BY DEF DecisionsAsked, InterruptHitsNamedRun, Decisions
<1> QED
  BY <1>3, <1>4, <1>5 DEF IInv, Inv

\* The invariant over every step.
LEMMA InvKept ==
  ASSUME IInv, [Next]_vars
  PROVE  IInv'
<1>1. OpsKept /\ CallsPlaced' /\ GatewayEffect
  BY Effects DEF IInv
<1>2. \A q : Asked(q) <=> Asked(q)'
  BY <1>1, AskedKept
<1>3. LateAsked'
  BY <1>1, <1>2 DEF IInv, Inv, LateAsked, GatewayEffect, ByItself
<1>4. GatewayTypes'
  <2>1. CASE UNCHANGED <<run, approval>>
    BY <2>1 DEF IInv, Inv, GatewayTypes
  <2> QED
    BY <1>1, <2>1, PerformTypes DEF IInv, Inv, GatewayEffect, ByItself
<1>5. DecisionsAsked'
  <2> SUFFICES ASSUME NEW a \in Approvals, approval'[a] \in Decisions
               PROVE  \E c \in Calls : /\ IsResolve(c) /\ call[c].op.approval = a
                                       /\ call[c].op.choice.decision = approval'[a]
    BY <1>1 DEF DecisionsAsked, IsResolve, OpsKept
  <2>1. CASE approval'[a] = approval[a]
    BY <2>1 DEF IInv, DecisionsAsked
  <2>2. CASE \E q : Asked(q) /\ Perform(q) /\ late' \subseteq late
    <3>1. PICK q : Asked(q) /\ Perform(q)
      BY <2>2
    <3>2. CASE q.method = "approval.resolve" /\ q.approval = a /\ approval'[a] = q.decision
      BY <3>1, <3>2, AskedResolutions
    <3> QED
      BY <2>1, <3>1, <3>2 DEF Perform, IInv, Inv, GatewayTypes
  <2> QED
    BY <1>1, <2>1, <2>2 DEF GatewayEffect, ByItself
<1>6. InterruptHitsNamedRun'
  <2> SUFFICES ASSUME NEW r \in Runs, run'[r] = "aborted"
               PROVE  \E c \in Calls : IsRunCall(c, "interrupt") /\ RunOf(c) \in {r, None}
    BY <1>1 DEF InterruptHitsNamedRun, IsRunCall, RunOf, OpsKept
  <2>1. CASE run[r] = "aborted"
    BY <2>1 DEF IInv, InterruptHitsNamedRun
  <2>2. CASE \E q : Asked(q) /\ Perform(q) /\ late' \subseteq late
    <3>1. PICK q : Asked(q) /\ Perform(q)
      BY <2>2
    <3>2. CASE q.method = "chat.abort" /\ q.run \in {r, None}
      BY <3>1, <3>2, AskedAborts
    <3> QED
      BY <2>1, <3>1, <3>2 DEF Perform, IInv, Inv, GatewayTypes
  <2> QED
    BY <1>1, <2>1, <2>2 DEF GatewayEffect, ByItself
<1> QED
  BY <1>1, <1>3, <1>4, <1>5, <1>6 DEF IInv, Inv

\* The strengthening that the invariants below rest on holds in every
\* reachable state: calls are at places of their own operations, and requests
\* still under way were asked for by a call.
THEOREM InductiveInvariant == Spec => []IInv
<1>1. IInv /\ [Next]_vars => IInv'
  BY InvKept
<1> QED
  BY <1>1, Initially, PTL DEF Spec

\* Interrupt (discovery.go): an interrupt that names a run aborts no other.
THEOREM InterruptsHit == Spec => []InterruptHitsNamedRun
<1>1. IInv => InterruptHitsNamedRun
  BY DEF IInv
<1> QED
  BY <1>1, InductiveInvariant, PTL

\* ResolveApproval and approvalSnapshot (control.go, detail.go): decisions are
\* those that were chosen, and offered actions reach a resolver that accepts
\* them.
THEOREM DecisionsArrive == Spec => []DecisionsArriveAsChosen
<1>1. IInv => DecisionsArriveAsChosen
  <2> SUFFICES ASSUME IInv PROVE DecisionsArriveAsChosen
    OBVIOUS
  <2>1. ASSUME NEW c \in Calls, IsResolve(c), At(c, "resolving"),
               call[c].op.choice \in approvalSnapshot(call[c].op.approval),
               approval[call[c].op.approval] = "pending"
        PROVE  Accepts(ResolveRequest(c))
    <3> DEFINE a == call[c].op.approval
    <3>1. a \in Approvals /\ KindOf[a] \in {"exec", "plugin"}
      BY <2>1, ApprovalAssumption DEF IInv, Inv, CallsPlaced, Placed, IsResolve
    <3>2. Decoded(c).kind = KindOf[a]
      BY <2>1, <3>1 DEF Decoded, decodeApprovalActionID, approvalSnapshot, GatewayAction
    <3> QED
      BY <2>1, <3>2 DEF Accepts, ResolveRequest, Resolve
  <2> QED
    BY <2>1 DEF IInv, DecisionsAsked, DecisionsArriveAsChosen
<1> QED
  BY <1>1, InductiveInvariant, PTL
-----------------------------------------------------------------------------
(* Deliveries                                                              *)

\* The session that message m belongs to.
Home(m) ==
  IF \E op \in Operations : op.kind = "start" /\ op.message = m THEN KeyOf[m] ELSE "main"

HasIt(m) == <<Home(m), m, m>> \in sent

ToldAny(m) ==
  \E c \in Calls : IsDelivery(c) /\ Returned(c) /\ call[c].op.message = m /\ call[c].answer.ok

\* A message with an id is only ever taken in by its own session, under its
\* id, and no other message uses that id.
SentHome ==
  \A s \in sent :
    /\ s = <<s[1], s[2], s[3]>>
    /\ s[3] \in Messages => s[1] = Home(s[3]) /\ s[2] = s[3]
    /\ s[3] \notin Messages => s[2] \notin Messages

\* A call that looks for its message, or has returned a success, is about a
\* message that its session has.
ToldTrue ==
  \A c \in Calls :
    IsDelivery(c) /\ call[c].op.message \in Messages =>
      /\ At(c, "verifying") => HasIt(call[c].op.message)
      /\ Returned(c) /\ call[c].answer.ok =>
           HasIt(call[c].op.message) /\ call[c].answer.session = Home(call[c].op.message)

\* A delivery goes to the one session its message is for.
LEMMA TargetIsHome ==
  ASSUME OneSessionPerMessage, CallsPlaced, NEW c \in Calls, IsDelivery(c)
  PROVE  /\ call[c].op.message \in Messages =>
              /\ TargetSession(c) = Home(call[c].op.message)
              /\ IdempotencyKey(c) = call[c].op.message
         /\ call[c].op.message \notin Messages => IdempotencyKey(c) \notin Messages
<1>1. call[c].op \in Operations /\ call[c].op.kind \in {"start", "send"}
  BY DEF CallsPlaced, Placed, IsDelivery
<1>2. call[c].op.message \in Messages \cup {None}
  BY <1>1
<1> QED
  BY <1>1, <1>2 DEF OneSessionPerMessage, TargetSession, SessionKey, IdempotencyKey, Home

\* Performing what call c may ask for delivers at most its own message, home.
LEMMA PerformDelivers ==
  ASSUME OneSessionPerMessage, CallsPlaced, SentHome,
         NEW c \in Calls, NEW q, MayAsk(c, q), Perform(q)
  PROVE  /\ SentHome'
         /\ sent \subseteq sent'
         /\ \A m \in Messages :
              HasIt(m)' /\ ~HasIt(m) => IsDelivery(c) /\ call[c].op.message = m
         /\ \A m \in Messages :
              q = SendRequest(c) /\ call[c].op.message = m => HasIt(m)'
<1>0. \A m : Home(m)' = Home(m)
  BY DEF Home
<1>1. CASE q.method # "chat.send"
  <2>1. sent' = sent
    BY <1>1 DEF Perform
  <2> QED
    BY <1>0, <1>1, <2>1 DEF SentHome, HasIt, SendRequest, ChatSend
<1>2. CASE q.method = "chat.send"
  <2> DEFINE m == call[c].op.message
             t == <<TargetSession(c), IdempotencyKey(c), m>>
  <2>1. q = SendRequest(c) /\ IsDelivery(c)
    BY <1>2 DEF MayAsk, AbortRequest, Abort, ResolveRequest, Resolve, CreateRequest, Create,
                IsDelivery
  <2>2. q.key = t[1] /\ q.id = t[2] /\ q.text = t[3]
    BY <2>1 DEF SendRequest, ChatSend
  <2>3. sent' = IF \E s \in sent : s[1] = t[1] /\ s[2] = t[2] THEN sent ELSE sent \cup {t}
    BY <1>2, <2>2 DEF Perform
  <2>4. /\ m \in Messages => t = <<Home(m), m, m>>
        /\ m \notin Messages => t[2] \notin Messages
    BY <2>1, TargetIsHome
  <2>5. SentHome' /\ sent \subseteq sent'
    BY <1>0, <2>3, <2>4 DEF SentHome
  <2>6. \A n \in Messages : m = n => HasIt(n)'
    <3> SUFFICES ASSUME NEW n \in Messages, m = n PROVE <<Home(n), n, n>> \in sent'
      BY <1>0 DEF HasIt
    <3>1. CASE \E s \in sent : s[1] = t[1] /\ s[2] = t[2]
      <4>1. PICK s \in sent : s[1] = Home(n) /\ s[2] = n
        BY <2>4, <3>1
      <4>2. s[3] = n
        BY <4>1 DEF SentHome
      <4> QED
        BY <2>5, <4>1, <4>2 DEF SentHome
    <3> QED
      BY <2>3, <2>4, <3>1
  <2>7. ASSUME NEW n \in Messages, HasIt(n)', ~HasIt(n)
        PROVE  m = n
    <3>1. <<Home(n), n, n>> = t
      BY <1>0, <2>3, <2>7 DEF HasIt
    <3> QED
      BY <3>1
  <2> QED
    BY <2>1, <2>5, <2>6, <2>7
<1> QED
  BY <1>1, <1>2

\* A call that has returned does not go on.
LEMMA ReturnedStays ==
  ASSUME NEW c \in Calls, Begin(c) \/ Hang(c) \/ CallStep(c)
  PROVE  ~Returned(c)
BY DEF Begin, Hang, MayHang, CallStep, DialFails, ControlStep, RunStep, ResolveStep, DeliveryStep,
       Refresh, ControlDialed, ReadRow, CheckTarget, ChangeSession, RunDialed, WaitForRun, AskRun,
       StatusRow, Interrupt, ResolveDialed, ResolveApproval, DeliveryDialed, CreateSession,
       SendDialed, ReadAttachments, SendMessage, VerifyVisibility, RefreshRow,
       RefreshApprovals, At, Returned

DInv == IInv /\ SentHome /\ ToldTrue

\* Only the message of one call is taken in or told of in a step, and neither
\* is ever taken back.
OnlyAbout(c) ==
  \A m \in Messages :
    ~(IsDelivery(c) /\ call[c].op.message = m) =>
      (HasIt(m)' <=> HasIt(m)) /\ (ToldAny(m)' <=> ToldAny(m))

NothingLost ==
  \A m \in Messages : (HasIt(m) => HasIt(m)') /\ (ToldAny(m) => ToldAny(m)')

\* A step of a call delivers to, and tells of, its own message alone.
LEMMA CallDelivers ==
  ASSUME OneSessionPerMessage, DInv, NEW c \in Calls, Begin(c) \/ Hang(c) \/ CallStep(c)
  PROVE  SentHome' /\ ToldTrue' /\ OnlyAbout(c) /\ NothingLost
<1>1. PICK r : Moves(c, r) /\ Outcome(c, r)
  BY BeginMoves, HangMoves, CallMoves DEF StepOf, DInv, IInv, Inv
<1>2. /\ call'[c] = r /\ r.op = call[c].op
      /\ \A d \in Calls \ {c} : call'[d] = call[d]
      /\ OpsKept
  BY <1>1, MoveKeepsCalls DEF DInv, IInv, Inv, Moves
<1>3. ~Returned(c)
  BY ReturnedStays
<1>0. \A m : Home(m)' = Home(m)
  BY DEF Home
<1>4. /\ SentHome' /\ sent \subseteq sent'
      /\ \A m \in Messages :
           HasIt(m)' /\ ~HasIt(m) => IsDelivery(c) /\ call[c].op.message = m
  <2>1. CASE sent' = sent
    BY <1>0, <2>1 DEF DInv, SentHome, HasIt
  <2>2. CASE \E q : MayAsk(c, q) /\ Perform(q)
    BY <2>2, PerformDelivers DEF DInv, IInv, Inv
  <2>3. CASE Answered(SendRequest(c)) /\ At(c, "sending")
    <3>1. MayAsk(c, SendRequest(c)) /\ Perform(SendRequest(c))
      BY <2>3 DEF DInv, IInv, Inv, CallsPlaced, Placed, At, MayAsk, Answered
    <3> QED
      BY <2>2, <3>1
  <2> QED
    BY <1>1, <2>1, <2>2, <2>3 DEF Outcome, Requested, Answered, GivenUp, gatewayVars
<1>5. \A m \in Messages : HasIt(m) => HasIt(m)'
  BY <1>0, <1>4 DEF HasIt
<1>6. ASSUME NEW m \in Messages, IsDelivery(c), call[c].op.message = m
      PROVE  /\ r.at = "verifying" => HasIt(m)'
             /\ r.at = "done" /\ r.answer.ok => HasIt(m)' /\ r.answer.session = Home(m)
  <2>1. TargetSession(c) = Home(m)
    BY <1>6, TargetIsHome DEF DInv, IInv, Inv
  <2>2. CASE Calm(r)
    BY <1>2, <1>6, <2>2 DEF Calm, IsDelivery
  <2>3. CASE At(c, "verifying") /\ r.at = "done" /\ r.answer.session = TargetSession(c)
    BY <1>5, <1>6, <2>1, <2>3 DEF DInv, ToldTrue
  <2>4. CASE /\ At(c, "sending") /\ Answered(SendRequest(c))
             /\ r.at = "done" => r.answer.session = TargetSession(c)
    <3>1. MayAsk(c, SendRequest(c)) /\ Perform(SendRequest(c))
      BY <2>4 DEF DInv, IInv, Inv, CallsPlaced, Placed, At, MayAsk, Answered
    <3>2. HasIt(m)'
      BY <1>6, <3>1, PerformDelivers DEF DInv, IInv, Inv
    <3> QED
      BY <2>1, <2>4, <3>2
  <2> QED
    BY <1>1, <2>2, <2>3, <2>4 DEF Outcome
<1>7. ToldTrue'
  <2> SUFFICES ASSUME NEW d \in Calls, IsDelivery(d)', call'[d].op.message \in Messages
               PROVE  /\ At(d, "verifying")' => HasIt(call[d].op.message)'
                      /\ Returned(d)' /\ call'[d].answer.ok =>
                           /\ HasIt(call[d].op.message)'
                           /\ call'[d].answer.session = Home(call'[d].op.message)
    BY <1>0 DEF ToldTrue
  <2> DEFINE m == call[d].op.message
  <2>1. call'[d].op = call[d].op /\ m \in Messages /\ IsDelivery(d)
    BY <1>2 DEF OpsKept, IsDelivery
  <2>2. PICK n \in Messages : n = m
    BY <2>1
  <2>3. CASE d = c
    BY <1>2, <1>6, <2>1, <2>2, <2>3 DEF At, Returned, HasIt
  <2>4. CASE d # c
    BY <1>2, <1>5, <2>1, <2>2, <2>4 DEF At, Returned, DInv, ToldTrue, HasIt
  <2> QED
    BY <2>3, <2>4
<1>8. \A m \in Messages : ToldAny(m) => ToldAny(m)'
  BY <1>2, <1>3 DEF ToldAny, IsDelivery, Returned, At
<1>9. \A m \in Messages :
        ToldAny(m)' /\ ~ToldAny(m) => IsDelivery(c) /\ call[c].op.message = m
  BY <1>2, <1>3 DEF ToldAny, IsDelivery, Returned, At
<1> QED
  BY <1>4, <1>5, <1>7, <1>8, <1>9 DEF OnlyAbout, NothingLost

\* A late request delivers one message home, and tells the Hub nothing.
LEMMA GatewayDelivers ==
  ASSUME OneSessionPerMessage, DInv, GatewayStep, UNCHANGED call
  PROVE  /\ SentHome' /\ ToldTrue' /\ NothingLost
         /\ \/ \E c \in Calls : OnlyAbout(c)
            \/ \A m \in Messages : (HasIt(m)' <=> HasIt(m)) /\ (ToldAny(m)' <=> ToldAny(m))
<1>0. \A m : Home(m)' = Home(m)
  BY DEF Home
<1>1. \A m : ToldAny(m)' <=> ToldAny(m)
  BY DEF ToldAny, IsDelivery, Returned, At
<1>2. ASSUME \A m \in Messages : HasIt(m) => HasIt(m)'
      PROVE  ToldTrue'
  BY <1>0, <1>2 DEF DInv, ToldTrue, IsDelivery, Returned, At, HasIt
<1>3. CASE sent' = sent
  BY <1>0, <1>1, <1>2, <1>3 DEF DInv, SentHome, HasIt, NothingLost
<1>4. CASE \E q : Asked(q) /\ Perform(q)
  <2>0. PICK q : Asked(q) /\ Perform(q)
    BY <1>4
  <2>1. PICK c \in Calls : MayAsk(c, q) /\ Perform(q)
    BY <2>0 DEF Asked
  <2>2. /\ SentHome' /\ sent \subseteq sent'
        /\ \A m \in Messages :
             HasIt(m)' /\ ~HasIt(m) => IsDelivery(c) /\ call[c].op.message = m
    BY <2>1, PerformDelivers DEF DInv, IInv, Inv
  <2>3. \A m \in Messages : HasIt(m) => HasIt(m)'
    BY <1>0, <2>2 DEF HasIt
  <2> QED
    BY <1>1, <1>2, <2>2, <2>3 DEF NothingLost, OnlyAbout
<1>5. GatewayEffect
  BY GatewayStepEffect DEF DInv, IInv
<1> QED
  BY <1>3, <1>4, <1>5 DEF GatewayEffect, ByItself

\* The delivery invariant over every step.
LEMMA DInvKept ==
  ASSUME OneSessionPerMessage, DInv, [Next]_vars
  PROVE  /\ DInv'
         /\ NothingLost
         /\ \/ \E c \in Calls : OnlyAbout(c)
            \/ \A m \in Messages : (HasIt(m)' <=> HasIt(m)) /\ (ToldAny(m)' <=> ToldAny(m))
<1>1. IInv'
  BY InvKept DEF DInv
<1>2. CASE \E c \in Calls : Begin(c) \/ Hang(c) \/ CallStep(c)
  BY <1>1, <1>2, CallDelivers DEF DInv
<1>3. CASE GatewayStep /\ UNCHANGED call
  BY <1>1, <1>3, GatewayDelivers DEF DInv
<1>4. CASE UNCHANGED <<call, sent>>
  BY <1>1, <1>4 DEF DInv, SentHome, ToldTrue, HasIt, ToldAny, NothingLost, IsDelivery, At,
                    Returned, Home
<1> QED
  BY <1>2, <1>3, <1>4 DEF Next, Proceed, vars, callVars, gatewayVars

\* What the mapping to DeliveryPromise shows of the messages.
PromiseView ==
  \A m \in Messages :
    /\ DeliveriesOf(m) = IF HasIt(m) THEN {<<Home(m), m>>} ELSE {}
    /\ ToldOf(m) = IF ToldAny(m) THEN {Home(m)} ELSE {}
    /\ ToldAny(m) => HasIt(m)

\* The invariant, in the abstract specification's words.
LEMMA PromiseState == DInv => PromiseView
<1> SUFFICES ASSUME DInv, NEW m \in Messages
             PROVE  /\ DeliveriesOf(m) = IF HasIt(m) THEN {<<Home(m), m>>} ELSE {}
                    /\ ToldOf(m) = IF ToldAny(m) THEN {Home(m)} ELSE {}
                    /\ ToldAny(m) => HasIt(m)
  BY DEF PromiseView
<1> DEFINE Mine == {t \in sent : t[3] = m}
           triple == <<Home(m), m, m>>
<1>1. ASSUME NEW s \in sent, s[3] = m
      PROVE  s = triple
  BY <1>1 DEF DInv, SentHome
<1>2. DeliveriesOf(m) = IF HasIt(m) THEN {<<Home(m), m>>} ELSE {}
  <2>1. DeliveriesOf(m) = {<<s[1], s[2]>> : s \in Mine}
    BY DEF DeliveriesOf
  <2>2. CASE HasIt(m)
    <3>1. Mine = {triple}
      BY <1>1, <2>2 DEF HasIt
    <3>2. <<triple[1], triple[2]>> = <<Home(m), m>>
      OBVIOUS
    <3> HIDE DEF Mine, triple
    <3>3. {<<s[1], s[2]>> : s \in Mine} = {<<triple[1], triple[2]>>}
      BY <3>1
    <3> QED
      BY <2>1, <2>2, <3>2, <3>3
  <2>3. CASE ~HasIt(m)
    <3>1. Mine = {}
      BY <1>1, <2>3 DEF HasIt
    <3> QED
      BY <2>1, <2>3, <3>1
  <2> QED
    BY <2>2, <2>3
<1>3. \A c \in Calls :
        IsDelivery(c) /\ Returned(c) /\ call[c].op.message = m /\ call[c].answer.ok =>
          HasIt(m) /\ call[c].answer.session = Home(m)
  BY DEF DInv, ToldTrue
<1> QED
  BY <1>2, <1>3 DEF ToldOf, ToldAny

\* Every step maps to one of the abstract specification, or to a stutter.
LEMMA PromiseStep ==
  ASSUME OneSessionPerMessage, DInv, [Next]_vars
  PROVE  [Promise!PromiseNext]_(Promise!promiseVars)
<1> DEFINE D == [m \in Messages |-> DeliveriesOf(m)]
           T == [m \in Messages |-> ToldOf(m)]
<1>0. \A m : Home(m)' = Home(m)
  BY DEF Home
<1>1. DInv' /\ NothingLost
  BY DInvKept
<1>2. \A m \in Messages :
        /\ D[m] = IF HasIt(m) THEN {<<Home(m), m>>} ELSE {}
        /\ T[m] = IF ToldAny(m) THEN {Home(m)} ELSE {}
        /\ ToldAny(m) => HasIt(m)
  BY PromiseState DEF PromiseView
<1>3. \A m \in Messages :
        /\ D'[m] = IF HasIt(m)' THEN {<<Home(m), m>>} ELSE {}
        /\ T'[m] = IF ToldAny(m)' THEN {Home(m)} ELSE {}
        /\ ToldAny(m)' => HasIt(m)'
  <2>1. (DInv => PromiseView)'
    BY PromiseState, PTL
  <2> QED
    BY <1>0, <1>1, <2>1 DEF PromiseView
<1>4. CASE \A m \in Messages : (HasIt(m)' <=> HasIt(m)) /\ (ToldAny(m)' <=> ToldAny(m))
  <2>1. \A m \in Messages : D'[m] = D[m] /\ T'[m] = T[m]
    BY <1>2, <1>3, <1>4
  <2>2. D' = D /\ T' = T
    BY <2>1
  <2> QED
    BY <2>2 DEF Promise!promiseVars
<1>5. ASSUME NEW n \in Messages,
             \A m \in Messages \ {n} :
               (HasIt(m)' <=> HasIt(m)) /\ (ToldAny(m)' <=> ToldAny(m))
      PROVE  Promise!PromiseNext
  <2>1. \A m \in Messages \ {n} : D'[m] = D[m] /\ T'[m] = T[m]
    BY <1>2, <1>3, <1>5
  <2>2. <<Home(n), n>> \in
          ({KeyOf[m] : m \in Messages} \cup Calls \cup {"main"}) \X (Messages \cup Calls)
    BY DEF Home
  <2>3. Promise!Deliver(n) \/ D' = D
    <3>1. CASE HasIt(n)' <=> HasIt(n)
      <4>1. D'[n] = D[n]
        BY <1>2, <1>3, <3>1
      <4> QED
        BY <2>1, <4>1
    <3>2. CASE HasIt(n)' /\ ~HasIt(n)
      <4>1. D[n] = {} /\ D'[n] = {<<Home(n), n>>}
        BY <1>2, <1>3, <3>2
      <4>2. D' = [D EXCEPT ![n] = {<<Home(n), n>>}]
        BY <2>1, <4>1
      <4> QED
        BY <2>2, <4>1, <4>2 DEF Promise!Deliver
    <3> QED
      BY <1>1, <3>1, <3>2 DEF NothingLost
  <2>4. Promise!Tell(n) \/ T' = T
    <3>1. CASE ToldAny(n)' <=> ToldAny(n)
      <4>1. T'[n] = T[n]
        BY <1>2, <1>3, <3>1
      <4> QED
        BY <2>1, <4>1
    <3>2. CASE ToldAny(n)' /\ ~ToldAny(n)
      <4>1. T[n] = {} /\ T'[n] = {Home(n)} /\ <<Home(n), n>> \in D'[n]
        BY <1>2, <1>3, <3>2
      <4>2. T' = [T EXCEPT ![n] = @ \cup {Home(n)}]
        BY <2>1, <4>1
      <4> QED
        BY <4>1, <4>2 DEF Promise!Tell
    <3> QED
      BY <1>1, <3>1, <3>2 DEF NothingLost
  <2> QED
    BY <2>3, <2>4 DEF Promise!PromiseNext
<1>6. ASSUME NEW c \in Calls, OnlyAbout(c)
      PROVE  [Promise!PromiseNext]_(Promise!promiseVars)
  <2>1. CASE IsDelivery(c) /\ call[c].op.message \in Messages
    <3>1. PICK n \in Messages : call[c].op.message = n
      BY <2>1
    <3>2. \A m \in Messages \ {n} :
            (HasIt(m)' <=> HasIt(m)) /\ (ToldAny(m)' <=> ToldAny(m))
      BY <1>6, <3>1 DEF OnlyAbout
    <3> QED
      BY <1>5, <3>2
  <2>2. CASE ~(IsDelivery(c) /\ call[c].op.message \in Messages)
    BY <1>4, <1>6, <2>2 DEF OnlyAbout
  <2> QED
    BY <2>1, <2>2
<1> QED
  BY <1>4, <1>6, DInvKept

\* StartSessionWithMessage and Send (discovery.go): whatever fails, is retried,
\* overlaps or is performed late, a message with an id is taken in once, by
\* one session, and every success names that session, for a Hub that sends
\* each message either as the first of a session or to an existing one.
THEOREM DeliveryKept ==
  ASSUME OneSessionPerMessage
  PROVE  Spec => ImplementsDeliveryPromise
<1>1. Init => DInv
  <2> SUFFICES ASSUME Init PROVE DInv
    OBVIOUS
  <2>1. sent = {} /\ \A c \in Calls : call[c].at = "off"
    BY DEF Init, GatewayInit, CallInit, Unmade
  <2> QED
    BY <2>1, Initially DEF DInv, SentHome, ToldTrue, At, Returned
<1>2. Init => Promise!PromiseInit
  BY DEF Init, GatewayInit, CallInit, Promise!PromiseInit, DeliveriesOf, ToldOf, Unmade,
         Returned, At
<1>3. DInv /\ [Next]_vars => DInv'
  BY DInvKept
<1>4. DInv /\ [Next]_vars => [Promise!PromiseNext]_(Promise!promiseVars)
  BY PromiseStep
<1> QED
  BY <1>1, <1>2, <1>3, <1>4, PTL DEF Spec, ImplementsDeliveryPromise, Promise!PromiseSpec
=============================================================================
