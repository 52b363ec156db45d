--------------------------- MODULE ControlProofs ---------------------------
(***************************************************************************)
(* Theorems about the types of SessionCalls and about what control calls   *)
(* and the details at the end of a call tell the Hub, for every set of     *)
(* calls, operations, models and approvals.                                *)
(***************************************************************************)
EXTENDS SessionProofs, FiniteSetTheorems

RowFields ==
  {"model", "level", "pinned", "label", "archived", "compacted", "exists", "version"}

\* The field that an operation changes and, but for a pin that inverts, what
\* it becomes.
FieldOf(op) ==
  CASE op.action = "model.switch" -> "model"
    [] op.action = "reasoning.switch" -> "level"
    [] op.action = "rename" -> "label"
    [] op.action = "pin" -> "pinned"
    [] op.action = "archive" -> "archived"
    [] op.action = "context.compact" -> "compacted"
    [] op.action = "delete" -> "exists"

ValueOf(op) ==
  IF op.action \in {"model.switch", "reasoning.switch", "rename", "pin"} THEN op.target
  ELSE op.action # "delete"

Inverts(op) == op.action = "pin" /\ op.target = None

\* What call c does to the Gateway when it goes on to record r: nothing, or a
\* request that is answered, or one that ends the call.
Asks(c, r, q) == q.by = c /\ (Answered(q) \/ (GivenUp(q) /\ r.at = "done"))

\* Record r is l but for some fields.
Same(l, r, changed) == \A f \in Fields \ changed : r[f] = l[f]

Stops(l, r) == Same(l, r, {"at", "answer", "row", "models"}) /\ r.at = "done" /\ r.answer = NoAnswer
Goes(l, r, p) == Same(l, r, {"at"}) /\ r.at = p

\* Before the details: of calls that are no control calls.
OtherMove(c, r) ==
  /\ Same(call[c], r, {"at", "answer", "row", "models", "status"})
  /\ r.at \in Points \ {"off", "describing", "listing", "patching", "detailExec", "detailPlugin"}
  /\ r.answer # call[c].answer => r.at = "done" /\ r.answer.details = None
  /\ \/ UNCHANGED gatewayVars
     \/ \E q : Asks(c, r, q) /\ q.method # "sessions.patch"

\* Up to the change: of control calls.
PrepareMove(c, r) ==
  LET l == call[c] IN
  /\ UNCHANGED gatewayVars
  /\ \/ Stops(l, r)
     \/ /\ l.at = "dialing"
        /\ Same(l, r, {"at", "row", "models"}) /\ r.at = "detailRow" /\ r.row = None
     \/ /\ l.at = "dialing"
        /\ \/ Goes(l, r, "listing") /\ l.op.action = "model.switch"
           \/ Goes(l, r, "describing") /\ l.op.action \in {"pin", "reasoning.switch"}
           \/ /\ Goes(l, r, "patching")
              /\ l.op.action \in Changes \ {"model.switch", "reasoning.switch"}
     \/ /\ l.at = "describing"
        /\ Same(l, r, {"at", "row"}) /\ r.row = Described
        /\ r.at = IF l.op.action = "pin" THEN "patching" ELSE "listing"
     \/ /\ l.at = "listing"
        /\ Same(l, r, {"at", "models"}) /\ r.at = "patching"
        /\ r.models \in {catalogue, None}
        /\ l.op.target \in Offered(c, r.models)

\* The change itself.
ChangeMove(c, r) ==
  LET l == call[c] IN
  /\ l.at = "patching"
  /\ \/ GivenUp(ChangeRequest(c)) /\ Stops(l, r)
     \/ /\ Answered(ChangeRequest(c))
        /\ Same(l, r, {"at", "answer", "row", "models", "mutated", "served"})
        /\ r.mutated = TRUE /\ r.served = row.version + 1
        /\ \/ r.at = "detailRow" /\ r.row = None /\ r.answer = l.answer
           \/ r.at = "done" /\ r.answer.details = None

\* The details.
RowMove(c, r) ==
  LET l == call[c] IN
  /\ l.at = "detailRow"
  /\ UNCHANGED gatewayVars
  /\ Same(l, r, {"at", "row"}) /\ r.at = "detailExec" /\ r.row \in {Described, None}

\* The details are complete, with pending approval a or none.
Completes(l, r, a) ==
  /\ Same(l, r, {"at", "answer", "row", "models", "blocking", "listFailed"})
  /\ r.at = "done"
  /\ r.blocking = l.blocking \cap PendingNow
  /\ r.answer.confirmed = l.mutated
  /\ r.answer.details.row = l.row
  /\ a # None => r.answer.details.view.run = WaitingRun

ApprovalMove(c, r) ==
  LET l == call[c] IN
  /\ l.at \in {"detailExec", "detailPlugin"}
  /\ UNCHANGED gatewayVars
  /\ \/ \E a \in Approvals : Completes(l, r, a)
     \/ /\ l.at = "detailExec"
        /\ Same(l, r, {"at", "listFailed"}) /\ r.at = "detailPlugin"
        /\ ~r.listFailed => Pending("exec") = {}
     \/ /\ l.at = "detailPlugin"
        /\ Completes(l, r, None)
        /\ ~r.listFailed => ~l.listFailed /\ Pending("plugin") = {}

Move(c, r) ==
  /\ Becomes(c, r)
  /\ \/ call[c].op.kind # "control" /\ OtherMove(c, r)
     \/ call[c].op.kind = "control" /\ (PrepareMove(c, r) \/ ChangeMove(c, r))
     \/ call[c].op.kind \in {"control", "wait"} /\ (RowMove(c, r) \/ ApprovalMove(c, r))
-----------------------------------------------------------------------------
\* A call that fails.
LEMMA FailStops ==
  ASSUME CallsPlaced, NEW c \in Calls, Fails(c)
  PROVE  \E r : Becomes(c, r) /\ Stops(call[c], r)
<1> DEFINE r == Done(call[c], NoAnswer)
<1>1. DOMAIN call[c] = Fields
  BY DEF CallsPlaced, Placed
<1>2. Stops(call[c], r)
  BY <1>1 DEF Stops, Same, Done, Fields
<1> QED
  BY <1>2 DEF Fails

\* One that goes on to another place.
LEMMA GotoGoes ==
  ASSUME CallsPlaced, NEW c \in Calls, NEW p, Goto(c, p)
  PROVE  \E r : Becomes(c, r) /\ Goes(call[c], r, p)
<1> DEFINE r == [call[c] EXCEPT !.at = p]
<1>1. DOMAIN call[c] = Fields
  BY DEF CallsPlaced, Placed
<1>2. Goes(call[c], r, p)
  BY <1>1 DEF Goes, Same, Fields
<1> QED
  BY <1>2 DEF Goto

\* A control call up to its change.
LEMMA PrepareMoves ==
  ASSUME CallsPlaced, NEW c \in Calls,
         DialFails(c) \/ ControlDialed(c) \/ ReadRow(c) \/ CheckTarget(c),
         call[c].op.kind = "control"
  PROVE  \E r : Move(c, r)
<1>0. Placed(call[c]) /\ DOMAIN call[c] = Fields
  BY DEF CallsPlaced, Placed
<1> SUFFICES \E r : Becomes(c, r) /\ PrepareMove(c, r)
  BY DEF Move
<1>1. UNCHANGED gatewayVars
  BY DEF DialFails, ControlDialed, ReadRow, CheckTarget
<1>2. CASE Fails(c)
  BY <1>1, <1>2, FailStops DEF PrepareMove
<1>3. CASE ControlDialed(c) /\ ~Fails(c)
  <2>1. CASE Becomes(c, EnterRefresh(call[c]))
    <3> DEFINE r == EnterRefresh(call[c])
    <3>1. Same(call[c], r, {"at", "row", "models"}) /\ r.at = "detailRow" /\ r.row = None
      BY <1>0 DEF EnterRefresh, Same, Fields
    <3> QED
      BY <1>1, <1>3, <2>1, <3>1 DEF PrepareMove, ControlDialed, At
  <2>2. ASSUME NEW p, Goto(c, p),
               \/ p = "listing" /\ call[c].op.action = "model.switch"
               \/ p = "describing" /\ call[c].op.action \in {"pin", "reasoning.switch"}
               \/ /\ p = "patching"
                  /\ call[c].op.action \in Changes \ {"model.switch", "reasoning.switch"}
        PROVE  \E r : Becomes(c, r) /\ PrepareMove(c, r)
    BY <1>1, <1>3, <2>2, GotoGoes DEF PrepareMove, ControlDialed, At
  <2> QED
    BY <1>3, <2>1, <2>2 DEF ControlDialed, Changes
<1>4. CASE ReadRow(c) /\ ~Fails(c)
  <2> DEFINE p == IF IsControl(c, "pin") THEN "patching" ELSE "listing"
             r == [call[c] EXCEPT !.row = Described, !.at = p]
  <2>1. Becomes(c, r) /\ call[c].at = "describing"
    BY <1>4 DEF ReadRow, At
  <2>2. Same(call[c], r, {"at", "row"}) /\ r.row = Described /\ r.at = p
    BY <1>0 DEF Same, Fields
  <2>3. p = IF call[c].op.action = "pin" THEN "patching" ELSE "listing"
    BY DEF IsControl
  <2> HIDE DEF p, r
  <2> QED
    BY <1>1, <2>1, <2>2, <2>3 DEF PrepareMove
<1>5. CASE CheckTarget(c) /\ ~Fails(c)
  <2>1. PICK models \in {catalogue, None} :
          /\ call[c].op.target \in Offered(c, models)
          /\ Becomes(c, [call[c] EXCEPT !.models = models, !.at = "patching"])
    BY <1>5 DEF CheckTarget
  <2> DEFINE r == [call[c] EXCEPT !.models = models, !.at = "patching"]
  <2>2. Same(call[c], r, {"at", "models"}) /\ r.at = "patching" /\ r.models = models
    BY <1>0 DEF Same, Fields
  <2>3. call[c].at = "listing"
    BY <1>5 DEF CheckTarget, At
  <2> HIDE DEF r
  <2> QED
    BY <1>1, <2>1, <2>2, <2>3 DEF PrepareMove, r
<1> QED
  BY <1>2, <1>3, <1>4, <1>5 DEF DialFails

\* What a control call asks of the Gateway.
LEMMA ChangeRequested ==
  ASSUME NEW c \in Calls, call[c].op.action \in Changes
  PROVE  /\ ChangeRequest(c).method = "sessions.patch"
         /\ ChangeRequest(c).by = c
         /\ ChangeRequest(c).field = FieldOf(call[c].op)
         /\ ~Inverts(call[c].op) => ChangeRequest(c).value = ValueOf(call[c].op)
BY DEF ChangeRequest, Changes, FieldOf, ValueOf, Inverts, Patch, Compact, DeleteSession, PinTarget,
       IsExplicit

\* The change, answered or given up.
LEMMA ChangeMoves ==
  ASSUME CallsPlaced, NEW c \in Calls, ChangeSession(c)
  PROVE  \E r : Move(c, r)
<1>0. Placed(call[c]) /\ DOMAIN call[c] = Fields
  BY DEF CallsPlaced, Placed
<1>1. call[c].at = "patching" /\ call[c].op.kind = "control"
  BY <1>0 DEF ChangeSession, At, Placed
<1> SUFFICES \E r : Becomes(c, r) /\ ChangeMove(c, r)
  BY <1>1 DEF Move
<1>2. CASE GivenUp(ChangeRequest(c)) /\ Fails(c)
  BY <1>1, <1>2, FailStops DEF ChangeMove
<1>3. CASE Answered(ChangeRequest(c)) /\ Becomes(c, AfterChange(c))
  <2> DEFINE l == call[c]
             q == [l EXCEPT !.mutated = TRUE, !.served = row.version + 1]
             answer == [NoAnswer EXCEPT !.ok = TRUE, !.confirmed = TRUE]
  <2>1. /\ DOMAIN q = Fields /\ Same(l, q, {"mutated", "served"})
        /\ q.mutated = TRUE /\ q.served = row.version + 1
    BY <1>0 DEF Same, Fields
  <2>2. answer.details = None
    BY DEF NoAnswer
  <2>3. AfterChange(c) = IF IsControl(c, "delete") THEN Done(q, answer) ELSE EnterRefresh(q)
    BY DEF AfterChange
  <2> DEFINE a == Done(q, answer)
             b == EnterRefresh(q)
  <2> HIDE DEF q, answer
  <2>4. /\ Same(l, a, {"at", "answer", "row", "models", "mutated", "served"})
        /\ a.at = "done" /\ a.answer = answer /\ a.mutated = TRUE /\ a.served = row.version + 1
    BY <2>1 DEF Same, Done, Fields
  <2>5. /\ Same(l, b, {"at", "answer", "row", "models", "mutated", "served"})
        /\ b.at = "detailRow" /\ b.row = None /\ b.answer = l.answer /\ b.mutated = TRUE
        /\ b.served = row.version + 1
    BY <2>1 DEF Same, EnterRefresh, Fields
  <2> HIDE DEF a, b
  <2>6. AfterChange(c) = a \/ AfterChange(c) = b
    BY <2>3 DEF a, b
  <2> QED
    BY <1>1, <1>3, <2>2, <2>4, <2>5, <2>6 DEF ChangeMove
<1> QED
  BY <1>2, <1>3 DEF ChangeSession, Request

\* The answer built by Complete.
LEMMA CompleteCompletes ==
  ASSUME NEW l, NEW q, DOMAIN q = Fields, Same(l, q, {"listFailed"}),
         NEW a \in Approvals \cup {None}
  PROVE  Completes(l, Complete(q, a), a) /\ Complete(q, a).listFailed = q.listFailed
<1> DEFINE p == [q EXCEPT !.blocking = @ \cap PendingNow]
           b == [NoAnswer EXCEPT !.ok = TRUE, !.confirmed = q.mutated, !.status = q.status,
                                 !.type = IF q.status = None THEN None ELSE eventType(q.status),
                                 !.details = DetailsWith(q, a)]
           r == Done(p, b)
<1>1. Complete(q, a) = r
  BY DEF Complete
<1>2. /\ DOMAIN p = Fields /\ Same(q, p, {"blocking"})
      /\ p.blocking = q.blocking \cap PendingNow
  BY DEF Same, Fields
<1>3. b.confirmed = q.mutated /\ b.details = DetailsWith(q, a)
  BY DEF NoAnswer
<1>4. DetailsWith(q, a).row = q.row
  BY DEF DetailsWith
<1>5. a # None => DetailsWith(q, a).view.run = WaitingRun
  BY DEF DetailsWith, buildDetailSnapshotWithRun, Snapshot
<1> HIDE DEF p, b
<1>6. /\ Same(p, r, {"at", "answer", "row", "models"}) /\ r.at = "done" /\ r.answer = b
  BY <1>2 DEF Same, Done, Fields
<1> HIDE DEF r
<1>7. q.mutated = l.mutated /\ q.row = l.row /\ q.blocking = l.blocking
  BY DEF Same, Fields
<1>8. /\ Same(l, r, {"at", "answer", "row", "models", "blocking", "listFailed"})
      /\ r.blocking = p.blocking /\ r.listFailed = q.listFailed
  BY <1>2, <1>6 DEF Same, Fields
<1> QED
  BY <1>1, <1>2, <1>3, <1>4, <1>5, <1>6, <1>7, <1>8 DEF Completes

\* The details at the end of a call.
LEMMA DetailMoves ==
  ASSUME CallsPlaced, NEW c \in Calls, Refresh(c)
  PROVE  \E r : Move(c, r)
<1> DEFINE l == call[c]
<1>0. Placed(l) /\ DOMAIN l = Fields
  BY DEF CallsPlaced, Placed
<1>1. /\ l.op.kind \in {"control", "wait"} /\ UNCHANGED gatewayVars
      /\ l.at \in {"detailRow", "detailExec", "detailPlugin"}
  BY <1>0 DEF Refresh, RefreshRow, RefreshApprovals, At, Placed
<1> SUFFICES \E r : Becomes(c, r) /\ (RowMove(c, r) \/ ApprovalMove(c, r))
  BY <1>1 DEF Move
<1>2. CASE RefreshRow(c)
  <2>1. PICK x \in {Described, None} : Becomes(c, [l EXCEPT !.row = x, !.at = "detailExec"])
    BY <1>2 DEF RefreshRow
  <2> DEFINE r == [l EXCEPT !.row = x, !.at = "detailExec"]
  <2>2. Same(l, r, {"at", "row"}) /\ r.at = "detailExec" /\ r.row = x
    BY <1>0 DEF Same, Fields
  <2>3. l.at = "detailRow"
    BY <1>2 DEF RefreshRow, At
  <2> QED
    BY <1>1, <2>1, <2>2, <2>3 DEF RowMove
<1>3. ASSUME NEW kind \in {"exec", "plugin"}, FindApproval(c, kind),
             l.at = IF kind = "exec" THEN "detailExec" ELSE "detailPlugin"
      PROVE  \E r : Becomes(c, r) /\ ApprovalMove(c, r)
  <2>1. CASE \E a \in Pending(kind) : Becomes(c, Complete(l, a))
    <3>1. PICK a \in Pending(kind) : Becomes(c, Complete(l, a))
      BY <2>1
    <3>2. a \in Approvals /\ Same(l, l, {"listFailed"})
      BY DEF Pending, Same
    <3>3. Completes(l, Complete(l, a), a)
      BY <1>0, <3>2, CompleteCompletes
    <3> QED
      BY <1>1, <1>3, <3>1, <3>2, <3>3 DEF ApprovalMove
  <2>2. CASE \E failed \in {TRUE} \cup (IF Pending(kind) = {} THEN {FALSE} ELSE {}) :
               LET r == [l EXCEPT !.listFailed = @ \/ failed] IN
               Becomes(c, IF kind = "exec" THEN [r EXCEPT !.at = "detailPlugin"]
                          ELSE Complete(r, None))
    <3>1. PICK failed \in {TRUE} \cup (IF Pending(kind) = {} THEN {FALSE} ELSE {}) :
            LET r == [l EXCEPT !.listFailed = @ \/ failed] IN
            Becomes(c, IF kind = "exec" THEN [r EXCEPT !.at = "detailPlugin"]
                       ELSE Complete(r, None))
      BY <2>2
    <3> DEFINE q == [l EXCEPT !.listFailed = @ \/ failed]
    <3>2. /\ DOMAIN q = Fields /\ Same(l, q, {"listFailed"})
          /\ ~q.listFailed => ~l.listFailed /\ Pending(kind) = {}
      BY <1>0, <3>1 DEF Same, Fields
    <3>3. Becomes(c, IF kind = "exec" THEN [q EXCEPT !.at = "detailPlugin"] ELSE Complete(q, None))
      BY <3>1
    <3> HIDE DEF q
    <3>4. CASE kind = "exec"
      <4> DEFINE r == [q EXCEPT !.at = "detailPlugin"]
      <4>1. /\ Same(l, r, {"at", "listFailed"}) /\ r.at = "detailPlugin"
            /\ r.listFailed = q.listFailed
        BY <3>2 DEF Same, Fields
      <4> QED
        BY <1>1, <1>3, <3>2, <3>3, <3>4, <4>1 DEF ApprovalMove
    <3>5. CASE kind = "plugin"
      <4>1. Completes(l, Complete(q, None), None) /\ Complete(q, None).listFailed = q.listFailed
        BY <3>2, CompleteCompletes
      <4> QED
        BY <1>1, <1>3, <3>2, <3>3, <3>5, <4>1 DEF ApprovalMove
    <3> QED
      BY <3>4, <3>5
  <2> QED
    BY <1>3, <2>1, <2>2 DEF FindApproval
<1> QED
  BY <1>2, <1>3 DEF Refresh, RefreshApprovals, At

\* A call that returns an answer without details.
LEMMA DoneOther ==
  ASSUME CallsPlaced, NEW c \in Calls, NEW a, a.details = None
  PROVE  LET r == Done(call[c], a) IN
           /\ Same(call[c], r, {"at", "answer", "row", "models", "status"})
           /\ r.at = "done" /\ r.answer = a
BY DEF CallsPlaced, Placed, Same, Done, Fields

\* A call that stops, or goes on, without asking for anything.
LEMMA QuietMoves ==
  ASSUME CallsPlaced, NEW c \in Calls, call[c].op.kind # "control", UNCHANGED gatewayVars,
         \/ Fails(c)
         \/ \E p \in Points \ {"off", "done", "describing", "listing", "patching", "detailExec",
                               "detailPlugin"} : Goto(c, p)
         \/ \E a : a.details = None /\ Becomes(c, Done(call[c], a))
  PROVE  \E r : Move(c, r)
<1>0. NoAnswer.details = None
  BY DEF NoAnswer
<1>1. CASE Fails(c)
  BY <1>0, <1>1, FailStops DEF Move, OtherMove, Stops, Same, Points
<1>2. CASE \E p \in Points \ {"off", "done", "describing", "listing", "patching", "detailExec",
                              "detailPlugin"} : Goto(c, p)
  <2>1. PICK p \in Points \ {"off", "done", "describing", "listing", "patching", "detailExec",
                             "detailPlugin"} : Goto(c, p)
    BY <1>2
  <2>2. PICK r : Becomes(c, r) /\ Goes(call[c], r, p)
    BY <2>1, GotoGoes
  <2>3. Same(call[c], r, {"at", "answer", "row", "models", "status"}) /\ r.answer = call[c].answer
    BY <2>2 DEF Goes, Same, Fields
  <2>4. OtherMove(c, r)
    BY <2>1, <2>2, <2>3 DEF OtherMove, Goes
  <2> QED
    BY <2>2, <2>4 DEF Move
<1>3. CASE \E a : a.details = None /\ Becomes(c, Done(call[c], a))
  BY <1>3, DoneOther DEF Move, OtherMove, Points
<1> QED
  BY <1>1, <1>2, <1>3

\* A call that makes a request, to go on or return with its answer.
LEMMA RequestingMoves ==
  ASSUME CallsPlaced, NEW c \in Calls, call[c].op.kind # "control",
         NEW q, q.by = c, q.method # "sessions.patch",
         NEW r, Request(c, q, r),
         \/ \E p \in {"sendDialing", "verifying"} : r = [call[c] EXCEPT !.at = p]
         \/ \E a : a.details = None /\ r = Done(call[c], a)
  PROVE  \E t : Move(c, t)
<1>1. CASE GivenUp(q) /\ Fails(c)
  <2>1. PICK t : Becomes(c, t) /\ Stops(call[c], t)
    BY <1>1, FailStops
  <2>2. t.answer.details = None
    BY <2>1 DEF Stops, NoAnswer
  <2> QED
    BY <1>1, <2>1, <2>2 DEF Move, OtherMove, Stops, Same, Points, Asks
<1>2. CASE Answered(q) /\ Becomes(c, r)
  <2>1. CASE \E p \in {"sendDialing", "verifying"} : r = [call[c] EXCEPT !.at = p]
    <3>1. PICK p \in {"sendDialing", "verifying"} : r = [call[c] EXCEPT !.at = p]
      BY <2>1
    <3>2. /\ Same(call[c], r, {"at", "answer", "row", "models", "status"})
          /\ r.answer = call[c].answer /\ r.at = p
      BY <3>1 DEF CallsPlaced, Placed, Same, Fields
    <3>3. Asks(c, r, q)
      BY <1>2 DEF Asks
    <3>4. OtherMove(c, r)
      BY <3>2, <3>3 DEF OtherMove, Points
    <3> QED
      BY <1>2, <3>4 DEF Move
  <2>2. CASE \E a : a.details = None /\ r = Done(call[c], a)
    BY <1>2, <2>2, DoneOther DEF Move, OtherMove, Points, Asks
  <2> QED
    BY <2>1, <2>2
<1> QED
  BY <1>1, <1>2 DEF Request

\* A wait or a status read that got its status.
LEMMA StatusMoves ==
  ASSUME CallsPlaced, NEW c \in Calls, call[c].op.kind # "control", UNCHANGED gatewayVars, NEW s,
         \/ Becomes(c, EnterRefresh([call[c] EXCEPT !.status = s]))
         \/ Becomes(c, [call[c] EXCEPT !.status = s, !.at = "statusRow"])
  PROVE  \E r : Move(c, r)
<1>0. DOMAIN call[c] = Fields
  BY DEF CallsPlaced, Placed
<1> DEFINE q == [call[c] EXCEPT !.status = s]
           b == EnterRefresh(q)
           d == [call[c] EXCEPT !.status = s, !.at = "statusRow"]
<1>1. DOMAIN q = Fields /\ Same(call[c], q, {"status"})
  BY <1>0 DEF Same, Fields
<1> HIDE DEF q
<1>2. /\ Same(call[c], b, {"at", "answer", "row", "models", "status"})
      /\ b.at = "detailRow" /\ b.answer = call[c].answer
  BY <1>1 DEF Same, EnterRefresh, Fields
<1>3. /\ Same(call[c], d, {"at", "answer", "row", "models", "status"})
      /\ d.at = "statusRow" /\ d.answer = call[c].answer
  BY <1>0 DEF Same, Fields
<1> HIDE DEF b, d
<1>4. Becomes(c, b) \/ Becomes(c, d)
  BY DEF b, d, q
<1>5. OtherMove(c, b) /\ OtherMove(c, d)
  BY <1>2, <1>3 DEF OtherMove, Points
<1> QED
  BY <1>4, <1>5 DEF Move

\* Every step of a call of another kind, but for the details.
LEMMA OtherMoves ==
  ASSUME CallsPlaced, NEW c \in Calls, call[c].op.kind # "control",
         DialFails(c) \/ RunStep(c) \/ ResolveStep(c) \/ DeliveryStep(c)
  PROVE  \E r : Move(c, r)
<1>0. /\ \A s : [NoAnswer EXCEPT !.ok = TRUE, !.status = s].details = None
      /\ [NoAnswer EXCEPT !.ok = TRUE].details = None
      /\ \A k : [NoAnswer EXCEPT !.ok = TRUE, !.session = k].details = None
  BY DEF NoAnswer
<1>1. CASE DialFails(c) \/ RunDialed(c) \/ ResolveDialed(c) \/ DeliveryDialed(c) \/ SendDialed(c)
           \/ ReadAttachments(c)
  BY <1>1, QuietMoves
     DEF DialFails, RunDialed, ResolveDialed, DeliveryDialed, SendDialed, ReadAttachments, Points
<1>2. CASE WaitForRun(c)
  BY <1>2, QuietMoves, StatusMoves DEF WaitForRun
<1>3. CASE AskRun(c)
  BY <1>3, QuietMoves, StatusMoves DEF AskRun
<1>4. CASE StatusRow(c)
  BY <1>0, <1>4, QuietMoves DEF StatusRow
<1>5. CASE Interrupt(c)
  BY <1>0, <1>5, RequestingMoves DEF Interrupt, AbortRequest, Abort
<1>6. CASE ResolveApproval(c)
  BY <1>0, <1>6, RequestingMoves DEF ResolveApproval, ResolveRequest, Resolve
<1>7. CASE CreateSession(c)
  BY <1>7, RequestingMoves DEF CreateSession, CreateRequest, Create
<1>8. CASE SendMessage(c)
  <2>1. SendRequest(c).by = c /\ SendRequest(c).method # "sessions.patch"
    BY DEF SendRequest, ChatSend
  <2>2. \E a : a.details = None /\ Delivered(c) = Done(call[c], a)
    BY <1>0 DEF Delivered
  <2> QED
    BY <1>8, <2>1, <2>2, RequestingMoves DEF SendMessage
<1>9. CASE VerifyVisibility(c)
  <2>1. UNCHANGED gatewayVars
    BY <1>9 DEF VerifyVisibility
  <2>2. \E a : a.details = None /\ Delivered(c) = Done(call[c], a)
    BY <1>0 DEF Delivered
  <2>3. CASE Fails(c) \/ Becomes(c, Delivered(c))
    BY <2>1, <2>2, <2>3, QuietMoves
  <2>4. CASE Becomes(c, [Delivered(c) EXCEPT !.answer.confirmed = TRUE])
    <3> DEFINE a == [NoAnswer EXCEPT !.ok = TRUE, !.session = TargetSession(c)]
               d == Done(call[c], a)
               r == [d EXCEPT !.answer.confirmed = TRUE]
    <3>1. a.details = None /\ DOMAIN a = DOMAIN NoAnswer
      BY DEF NoAnswer
    <3>0. DOMAIN call[c] = Fields
      BY DEF CallsPlaced, Placed
    <3>2. /\ Same(call[c], d, {"at", "answer", "row", "models", "status"})
          /\ d.at = "done" /\ d.answer = a
      BY <3>1, DoneOther
    <3>6. DOMAIN d = Fields
      BY <3>0 DEF Done
    <3> HIDE DEF d
    <3>3. /\ Same(call[c], r, {"at", "answer", "row", "models", "status"})
          /\ r.at = "done" /\ r.answer = [a EXCEPT !.confirmed = TRUE]
      BY <3>2, <3>6 DEF Same, Fields
    <3>4. r.answer.details = None
      <4> HIDE DEF a
      <4>1. "details" \in DOMAIN a
        BY <3>1 DEF NoAnswer
      <4> QED
        BY <3>1, <3>3, <4>1
    <3>5. Becomes(c, r)
      BY <2>4 DEF Delivered, d
    <3> QED
      BY <2>1, <3>3, <3>4, <3>5 DEF Move, OtherMove, Points
  <2> QED
    BY <1>9, <2>3, <2>4 DEF VerifyVisibility
<1> QED
  BY <1>1, <1>2, <1>3, <1>4, <1>5, <1>6, <1>7, <1>8, <1>9 DEF RunStep, ResolveStep, DeliveryStep

\* Every step of a call that has begun.
LEMMA CallTakes ==
  ASSUME CallsPlaced, NEW c \in Calls, CallStep(c)
  PROVE  \E r : Move(c, r)
<1>0. Placed(call[c])
  BY DEF CallsPlaced
<1>1. CASE call[c].op.kind = "control"
  <2>1. ~RunStep(c) /\ ~ResolveStep(c) /\ ~DeliveryStep(c)
    BY <1>0, <1>1 DEF RunStep, RunDialed, WaitForRun, AskRun, StatusRow, Interrupt, ResolveStep,
         ResolveDialed, ResolveApproval, DeliveryStep, DeliveryDialed, CreateSession, SendDialed,
         ReadAttachments, SendMessage, VerifyVisibility, At, Placed, IsRunCall
  <2> QED
    BY <1>1, <2>1, PrepareMoves, ChangeMoves, DetailMoves DEF CallStep, ControlStep
<1>2. CASE call[c].op.kind # "control"
  <2>1. ~ControlStep(c)
    BY <1>0, <1>2 DEF ControlStep, ControlDialed, ReadRow, CheckTarget, ChangeSession, At, Placed
  <2> QED
    BY <1>2, <2>1, OtherMoves, DetailMoves DEF CallStep
<1> QED
  BY <1>1, <1>2
-----------------------------------------------------------------------------
(* The invariant                                                           *)

RowFits ==
  /\ DOMAIN row = RowFields
  /\ row.model \in Models /\ row.level \in Levels /\ row.version \in Nat
  /\ catalogue \in Catalogues

PatchFits(q) ==
  /\ q.field \in RowFields \ {"version"}
  /\ q.field = "model" => q.value \in Models
  /\ q.field = "level" => q.value \in Levels

\* A request under way is that of a call which returned.
LateFits ==
  \A q \in late :
    /\ q.by \in Calls /\ Returned(q.by)
    /\ q.method = "sessions.patch" => PatchFits(q)

NOffers == Cardinality(DOMAIN offers)

OffersFit ==
  /\ NOffers \in Nat \ {0}
  /\ DOMAIN offers = 1 .. NOffers
  /\ \A i \in 1 .. NOffers : offers[i] \in Offer
  /\ offers[NOffers] = <<row.model, catalogue>>

\* Row x, if there is one, shows the change that made version `served`.
Shows(x, op, served) ==
  x # None =>
    /\ x.version >= served
    /\ x.version = served /\ ~Inverts(op) => x[FieldOf(op)] = ValueOf(op)

\* Between its change and its answer a control call sees its own change, in
\* the row as it is and in the row it read.
Progress(l) ==
  l.op.kind = "control" =>
    /\ l.served \in Nat /\ l.served <= row.version
    /\ l.mutated => l.served > 0 /\ l.op.action \in Changes /\ Shows(row, l.op, l.served)
    /\ l.at \in {"off", "dialing", "describing", "listing", "patching"} => ~l.mutated
    /\ l.at \in {"detailExec", "detailPlugin"} /\ l.mutated => Shows(l.row, l.op, l.served)
    /\ l.answer.confirmed =>
         /\ l.mutated
         /\ l.answer.details # None => Shows(l.answer.details.row, l.op, l.served)

\* A target that is to be requested was offered since the call began.
Targeted(l) ==
  /\ l.op.action = "model.switch" =>
       /\ l.op.target \in Models
       /\ \E i \in l.since .. NOffers : l.op.target \in modelsToOptions(offers[i][2])
  /\ l.op.action = "reasoning.switch" =>
       /\ l.op.target \in Levels
       /\ \E i, j \in l.since .. NOffers :
            /\ i <= j
            /\ l.op.target \in LevelsOf[offers[i][1]]
            /\ l.models = None \/ offers[j][2][offers[i][1]].reasoning

\* Since call l began the session has had model m; it has had a model with the
\* level that l is to set.
HadModel(l, m) == \E i \in l.since .. NOffers : offers[i][1] = m
HadLevel(l) == \E i \in l.since .. NOffers : l.op.target \in LevelsOf[offers[i][1]]

\* The rows that a control call reads show a model that the session had.
Checked(l) ==
  l.op.kind = "control" =>
    /\ l.at # "off" => l.since \in 1 .. NOffers
    /\ l.at = "describing" => l.op.action \in {"pin", "reasoning.switch"}
    /\ l.at = "listing" =>
         /\ l.op.action \in {"model.switch", "reasoning.switch"}
         /\ l.op.action = "reasoning.switch" /\ l.row # None => HadModel(l, l.row.model)
    /\ l.at = "patching" => Targeted(l)
    /\ l.mutated /\ l.op.action = "reasoning.switch" => HadLevel(l)
    /\ l.at \in {"detailExec", "detailPlugin"} /\ l.row # None => HadModel(l, l.row.model)
    /\ l.answer.details # None /\ l.answer.details.row # None =>
         HadModel(l, l.answer.details.row.model)

Settled(a) == approval[a] \notin {"unborn", "pending"}

\* Of the approvals that were pending when the call began, those that a list
\* did not show were resolved or are of the other kind.
Seen(l) ==
  /\ l.answer.details # None => l.at = "done" /\ l.op.kind \in {"control", "wait"}
  /\ l.at # "off" => \A a \in l.blocking : a \in Approvals /\ approval[a] # "unborn"
  /\ l.at = "detailPlugin" /\ ~l.listFailed =>
       \A a \in l.blocking : Settled(a) \/ KindOf[a] = "plugin"
  /\ l.answer.details # None /\ l.blocking # {} /\ ~l.listFailed =>
       l.answer.details.view.run = WaitingRun

CallFits(l) == l.at \in Points /\ Progress(l) /\ Checked(l) /\ Seen(l)

\* While all pin requests name v, none under way or confirmed does otherwise.
PinsHeld(v) ==
  (\A c \in PinCalls : call[c].op.target = v) =>
    /\ \A q \in late : q.method = "sessions.patch" /\ q.field = "pinned" => q.value = v
    /\ (\E c \in PinCalls : call[c].mutated) => row.pinned = v

CInv ==
  /\ IInv /\ RowFits /\ LateFits /\ OffersFit /\ budget \in [Kinds -> Nat]
  /\ \A c \in Calls : CallFits(call[c])
  /\ \A v \in BOOLEAN : PinsHeld(v)
-----------------------------------------------------------------------------
Patched(q) == row' = [row EXCEPT ![q.field] = q.value, !.version = @ + 1]

\* What a patch makes of the row.
LEMMA PatchedRow ==
  ASSUME RowFits, NEW q, PatchFits(q), Patched(q), catalogue' \in Catalogues
  PROVE  /\ RowFits'
         /\ row'.version = row.version + 1
         /\ row'[q.field] = q.value
         /\ \A f \in RowFields \ {"version", q.field} : row'[f] = row[f]
<1> DEFINE x == [row EXCEPT ![q.field] = q.value]
<1>1. /\ DOMAIN x = RowFields
      /\ x[q.field] = q.value
      /\ \A f \in RowFields \ {q.field} : x[f] = row[f]
  BY DEF RowFits, PatchFits
<1>2. row' = [x EXCEPT !.version = row.version + 1]
  BY <1>1 DEF Patched, PatchFits, RowFields
<1> HIDE DEF x
<1>3. /\ DOMAIN row' = RowFields
      /\ row'.version = row.version + 1
      /\ \A f \in RowFields \ {"version"} : row'[f] = x[f]
  BY <1>1, <1>2 DEF PatchFits, RowFields
<1>4. row'.model \in Models /\ row'.level \in Levels
  BY <1>1, <1>3 DEF RowFits, PatchFits, RowFields
<1> QED
  BY <1>1, <1>3, <1>4 DEF RowFits, PatchFits, RowFields

\* The request of a call that is about to change the session.
LEMMA ChangeFits ==
  ASSUME CInv, NEW c \in Calls, At(c, "patching")
  PROVE  /\ call[c].op.kind = "control" /\ call[c].op.action \in Changes
         /\ PatchFits(ChangeRequest(c))
<1>1. call[c].op.kind = "control" /\ call[c].op.action \in Changes
  BY DEF CInv, IInv, Inv, CallsPlaced, Placed, At
<1>2. Targeted(call[c])
  BY <1>1 DEF CInv, CallFits, Checked, At
<1> QED
  BY <1>1, <1>2, ChangeRequested
     DEF PatchFits, Targeted, Changes, FieldOf, ValueOf, Inverts, RowFields

\* A step of a call that moves it to record r.
CallMove(c, r) ==
  \/ CallStep(c) /\ Move(c, r)
  \/ /\ UNCHANGED gatewayVars
     /\ Becomes(c, r)
     /\ At(c, "off")
     /\ Same(call[c], r, {"at", "since", "earlier", "blocking"})
     /\ r.at = "dialing" /\ r.since = NOffers /\ r.blocking = PendingNow
  \/ /\ UNCHANGED gatewayVars
     /\ Becomes(c, r)
     /\ MayHang(c)
     /\ Goes(call[c], r, "hanging")

\* Every step of a call.
LEMMA CallMovesOn ==
  ASSUME CallsPlaced, NEW c \in Calls, Begin(c) \/ Hang(c) \/ CallStep(c)
  PROVE  \E r : CallMove(c, r) /\ Becomes(c, r)
<1>1. CASE Begin(c)
  <2> DEFINE r == [call[c] EXCEPT !.at = "dialing", !.since = Cardinality(DOMAIN offers),
                                  !.earlier = {d \in Calls : Returned(d)},
                                  !.blocking = PendingNow]
  <2>1. DOMAIN call[c] = Fields
    BY DEF CallsPlaced, Placed
  <2>2. /\ Same(call[c], r, {"at", "since", "earlier", "blocking"})
        /\ r.at = "dialing" /\ r.since = NOffers /\ r.blocking = PendingNow
    BY <2>1 DEF Same, Fields, NOffers
  <2> HIDE DEF r
  <2>3. Becomes(c, r) /\ At(c, "off") /\ UNCHANGED gatewayVars
    BY <1>1 DEF Begin, r
  <2> QED
    BY <2>2, <2>3 DEF CallMove
<1>2. CASE CallStep(c)
  BY <1>2, CallTakes DEF CallMove, Move
<1>3. CASE Hang(c)
  BY <1>3, GotoGoes DEF CallMove, Hang
<1> QED
  BY <1>1, <1>2, <1>3

\* The row as the step of a call leaves it.
LEMMA CallRow ==
  ASSUME CInv, NEW c \in Calls, NEW r, CallMove(c, r)
  PROVE  /\ \/ row' = row
            \/ At(c, "patching") /\ ChangeMove(c, r) /\ Patched(ChangeRequest(c))
         /\ UNCHANGED <<catalogue, budget>>
<1>1. CASE UNCHANGED gatewayVars
  BY <1>1 DEF gatewayVars
<1>2. ASSUME NEW q, q.method # "sessions.patch", Asks(c, r, q)
      PROVE  row' = row /\ UNCHANGED <<catalogue, budget>>
  BY <1>2 DEF Asks, Answered, GivenUp, Perform
<1>3. CASE ChangeMove(c, r)
  <2>1. At(c, "patching") /\ ChangeRequest(c).method = "sessions.patch"
    BY <1>3, ChangeFits, ChangeRequested DEF ChangeMove, At
  <2> QED
    BY <1>3, <2>1 DEF ChangeMove, Answered, GivenUp, Perform, Patched
<1> QED
  BY <1>1, <1>2, <1>3 DEF CallMove, Move, OtherMove, PrepareMove, RowMove, ApprovalMove

\* The row after any step: as it was, or a version newer.
LEMMA RowKept ==
  ASSUME CInv, [Next]_vars
  PROVE  /\ RowFits'
         /\ budget' \in [Kinds -> Nat]
         /\ row' = row \/ row'.version = row.version + 1
<1>0. budget \in [Kinds -> Nat]
  BY DEF CInv
<1>1. CASE row' = row /\ catalogue' = catalogue /\ budget' = budget
  BY <1>1 DEF CInv, RowFits
<1>2. ASSUME NEW c \in Calls, Begin(c) \/ Hang(c) \/ CallStep(c)
      PROVE  /\ RowFits' /\ budget' \in [Kinds -> Nat]
             /\ row' = row \/ row'.version = row.version + 1
  <2>1. PICK r : CallMove(c, r)
    BY <1>2, CallMovesOn DEF CInv, IInv, Inv
  <2>2. \/ row' = row
        \/ At(c, "patching") /\ Patched(ChangeRequest(c))
    BY <2>1, CallRow
  <2>3. UNCHANGED <<catalogue, budget>>
    BY <2>1, CallRow
  <2> QED
    BY <1>1, <2>2, <2>3, ChangeFits, PatchedRow DEF CInv, RowFits
<1>3. CASE GatewayStep
  <2>1. ASSUME NEW m \in Models, PeerSwitchesModel(m)
        PROVE  RowFits' /\ row'.version = row.version + 1 /\ budget' \in [Kinds -> Nat]
    <3>1. RowFits' /\ row'.version = row.version + 1
      BY <2>1 DEF PeerSwitchesModel, CInv, RowFits, RowFields
    <3>2. budget' \in [Kinds -> Nat]
      BY <1>0, <2>1 DEF PeerSwitchesModel, Spontaneous, Kinds
    <3> QED
      BY <3>1, <3>2
  <2>2. CASE PerformLate
    <3>1. PICK q \in late : Perform(q) \/ row' = row
      BY <2>2 DEF PerformLate
    <3>2. catalogue' = catalogue /\ budget' = budget
      BY <2>2 DEF PerformLate
    <3>3. CASE q.method = "sessions.patch" /\ Patched(q)
      BY <3>2, <3>3, PatchedRow DEF CInv, LateFits, RowFits
    <3> QED
      BY <1>1, <3>1, <3>2, <3>3 DEF Perform, Patched
  <2>3. CASE row' = row /\ catalogue' \in Catalogues /\ budget' \in [Kinds -> Nat]
    BY <2>3 DEF CInv, RowFits
  <2>4. CASE CatalogueChanges
    <3>1. row' = row /\ catalogue' \in Catalogues
      BY <2>4 DEF CatalogueChanges
    <3>2. budget' \in [Kinds -> Nat]
      BY <1>0, <2>4 DEF CatalogueChanges, Spontaneous, Kinds
    <3> QED
      BY <2>3, <3>1, <3>2
  <2>5. ASSUME NEW a \in Approvals, RequestApproval(a) \/ PeerResolves(a)
        PROVE  row' = row /\ catalogue' \in Catalogues /\ budget' \in [Kinds -> Nat]
    BY <2>5 DEF RequestApproval, PeerResolves, Spontaneous, CInv, RowFits
  <2>6. ASSUME NEW x \in Runs, PeerStartsRun(x) \/ RunEnds(x)
        PROVE  row' = row /\ catalogue' \in Catalogues /\ budget' \in [Kinds -> Nat]
    BY <2>6 DEF PeerStartsRun, RunEnds, Spontaneous, CInv, RowFits
  <2> QED
    BY <1>3, <2>1, <2>2, <2>3, <2>4, <2>5, <2>6 DEF GatewayStep, Runs
<1> QED
  BY <1>1, <1>2, <1>3 DEF Next, Proceed, vars, gatewayVars

\* The offers so far stay, and the one in force is the last.
LEMMA OffersGrow ==
  ASSUME CInv, [Next]_vars
  PROVE  /\ OffersFit'
         /\ NOffers' >= NOffers
         /\ \A i \in 1 .. NOffers : offers'[i] = offers[i]
<1>0. /\ OffersFit /\ RowFits'
      /\ NOffers \in Nat \ {0} /\ DOMAIN offers = 1 .. NOffers
  BY RowKept DEF CInv, OffersFit
<1> DEFINE offer == <<row'.model, catalogue'>>
           n == NOffers
           longer == [i \in 1 .. n + 1 |-> IF i <= n THEN offers[i] ELSE offer]
<1>1. CASE offers' = offers /\ offers[n] = offer
  <2>1. NOffers' = NOffers
    BY <1>1 DEF NOffers
  <2> QED
    BY <1>0, <1>1, <2>1 DEF OffersFit
<1>2. CASE offers' = longer
  <2>1. DOMAIN longer = 1 .. n + 1
    OBVIOUS
  <2>2. Cardinality(1 .. n + 1) = n + 1
    <3>1. 1 \in Int /\ n + 1 \in Int /\ ~(1 > n + 1) /\ (n + 1) - 1 + 1 = n + 1
      BY <1>0
    <3> QED
      BY <3>1, FS_Interval
  <2>3. NOffers' = n + 1
    BY <1>2, <2>1, <2>2 DEF NOffers
  <2>4. offer \in Offer
    BY <1>0 DEF RowFits, Offer
  <2>5. \A i \in 1 .. n + 1 : offers'[i] = IF i <= n THEN offers[i] ELSE offer
    BY <1>2
  <2>6. \A i \in 1 .. n + 1 : offers'[i] \in Offer
    BY <1>0, <2>4, <2>5 DEF OffersFit
  <2>7. offers'[n + 1] = offer
    BY <1>0, <2>5
  <2>8. DOMAIN offers' = 1 .. n + 1
    BY <1>2, <2>1
  <2> HIDE DEF longer, offer
  <2>9. OffersFit'
    BY <1>0, <2>3, <2>6, <2>7, <2>8 DEF OffersFit, offer
  <2> QED
    BY <1>0, <2>3, <2>5, <2>9
<1>3. CASE RecordOffer
  BY <1>1, <1>2, <1>3 DEF RecordOffer, NOffers
<1>4. CASE UNCHANGED vars
  BY <1>0, <1>1, <1>4 DEF vars, gatewayVars, callVars, OffersFit
<1> QED
  BY <1>3, <1>4 DEF Next, Proceed

\* A resolved approval stays resolved, and a raised one is not raised again.
ApprovalsGoOn ==
  \A a \in Approvals :
    /\ approval[a] # "unborn" => approval'[a] # "unborn"
    /\ Settled(a) => Settled(a)'

\* No request un-resolves an approval.
LEMMA PerformSettles ==
  ASSUME GatewayTypes, NEW q, Asked(q), Perform(q)
  PROVE  ApprovalsGoOn
<1>1. CASE approval' = approval
  BY <1>1 DEF ApprovalsGoOn, Settled
<1>2. CASE q.method = "approval.resolve" /\ approval' = [approval EXCEPT ![q.approval] = q.decision]
  <2>1. q.decision \notin {"unborn", "pending"}
    BY <1>2, AskedResolutions DEF Decisions
  <2> QED
    BY <1>2, <2>1 DEF ApprovalsGoOn, Settled, GatewayTypes
<1> QED
  BY <1>1, <1>2 DEF Perform

\* No step does.
LEMMA ApprovalsSettle ==
  ASSUME CInv, [Next]_vars
  PROVE  ApprovalsGoOn
<1>0. Inv /\ GatewayTypes /\ CallsPlaced /\ LateAsked
  BY DEF CInv, IInv, Inv
<1>1. CASE approval' = approval
  BY <1>1 DEF ApprovalsGoOn, Settled
<1>2. CASE \E q : Asked(q) /\ Perform(q)
  BY <1>0, <1>2, PerformSettles
<1>3. ASSUME NEW c \in Calls, Begin(c) \/ Hang(c) \/ CallStep(c)
      PROVE  ApprovalsGoOn
  <2>1. PICK r : Outcome(c, r)
    BY <1>0, <1>3, BeginMoves, HangMoves, CallMoves DEF StepOf
  <2>2. MayAsk(c, SendRequest(c)) \/ ~At(c, "sending")
    BY <1>0 DEF CallsPlaced, Placed, At, MayAsk
  <2> QED
    BY <1>1, <1>2, <2>1, <2>2 DEF Outcome, Requested, Asked, Answered, GivenUp, gatewayVars
<1>4. CASE GatewayStep
  <2>1. ASSUME NEW a \in Approvals, RequestApproval(a) \/ PeerResolves(a)
        PROVE  ApprovalsGoOn
    BY <1>0, <2>1 DEF RequestApproval, PeerResolves, ApprovalsGoOn, Settled, GatewayTypes
  <2> QED
    BY <1>0, <1>1, <1>2, <1>4, <2>1
       DEF GatewayStep, PeerSwitchesModel, CatalogueChanges, PeerStartsRun, RunEnds, PerformLate,
           LateAsked
<1> QED
  BY <1>1, <1>3, <1>4 DEF Next, Proceed, vars, gatewayVars

\* What a control call has lived through stays so, and what is in force is part
\* of it.
LEMMA SinceThen ==
  ASSUME CInv, [Next]_vars, NEW c \in Calls, call[c].op.kind = "control", call[c].at # "off"
  PROVE  LET l == call[c] IN
         /\ l.since \in 1 .. NOffers' /\ NOffers \in l.since .. NOffers'
         /\ \A i \in l.since .. NOffers : i \in l.since .. NOffers' /\ offers'[i] = offers[i]
         /\ offers[NOffers] = <<row.model, catalogue>> /\ offers'[NOffers] = offers[NOffers]
         /\ \A r : r.since = l.since /\ r.op = l.op =>
              /\ \A m : HadModel(l, m) => HadModel(r, m)'
              /\ \E i \in r.since .. NOffers' : offers'[i][1] = row.model
              /\ HadLevel(l) => HadLevel(r)'
<1> DEFINE l == call[c]
<1>1. /\ l.since \in 1 .. NOffers /\ NOffers \in Nat \ {0}
      /\ NOffers' \in Nat /\ NOffers' >= NOffers
      /\ \A i \in 1 .. NOffers : offers'[i] = offers[i]
      /\ offers[NOffers] = <<row.model, catalogue>>
  BY OffersGrow DEF CInv, CallFits, Checked, OffersFit
<1>2. /\ l.since \in 1 .. NOffers' /\ NOffers \in l.since .. NOffers'
      /\ \A i \in l.since .. NOffers : i \in l.since .. NOffers' /\ offers'[i] = offers[i]
      /\ offers'[NOffers] = offers[NOffers]
  BY <1>1
<1>3. ASSUME NEW r, r.since = l.since, r.op = l.op
      PROVE  /\ \A m : HadModel(l, m) => HadModel(r, m)'
             /\ HadLevel(l) => HadLevel(r)'
  BY <1>2, <1>3 DEF HadModel, HadLevel
<1>4. ASSUME NEW r, r.since = l.since
      PROVE  \E i \in r.since .. NOffers' : offers'[i][1] = row.model
  BY <1>1, <1>2, <1>4
<1> QED
  BY <1>1, <1>2, <1>3, <1>4

\* What is known of a call that takes no step stays true around it.
LEMMA StillFits ==
  ASSUME CInv, [Next]_vars, NEW d \in Calls, call'[d] = call[d]
  PROVE  CallFits(call[d])'
<1> DEFINE l == call[d]
<1>0. CallFits(l) /\ RowFits /\ RowFits' /\ NOffers \in Nat
  BY RowKept DEF CInv, OffersFit
<1>1. Progress(l)'
  <2> SUFFICES ASSUME l.op.kind = "control"
               PROVE  /\ l.served <= row'.version
                      /\ l.mutated => Shows(row', l.op, l.served)
    BY <1>0 DEF CallFits, Progress, Shows
  <2>1. l.served \in Nat /\ l.served <= row.version /\ (l.mutated => Shows(row, l.op, l.served))
    BY <1>0 DEF CallFits, Progress
  <2>2. CASE row' = row
    BY <2>1, <2>2
  <2>3. CASE row'.version = row.version + 1
    BY <1>0, <2>1, <2>3 DEF Shows, RowFits
  <2> QED
    BY <2>2, <2>3, RowKept
<1>2. Checked(l)'
  <2> SUFFICES ASSUME l.op.kind = "control"
               PROVE  Checked(l)'
    BY DEF Checked
  <2>1. CASE l.at = "off"
    BY <1>0, <2>1 DEF CallFits, Checked, Progress, Seen
  <2>2. CASE l.at # "off"
    <3>1. /\ l.since \in 1 .. NOffers'
          /\ \A i \in l.since .. NOffers : i \in l.since .. NOffers' /\ offers'[i] = offers[i]
          /\ \A m : HadModel(l, m) => HadModel(l, m)'
          /\ HadLevel(l) => HadLevel(l)'
      BY <2>2, SinceThen
    <3>2. l.at = "patching" => Targeted(l)'
      BY <1>0, <3>1 DEF CallFits, Checked, Targeted
    <3> QED
      BY <1>0, <3>1, <3>2 DEF CallFits, Checked
  <2> QED
    BY <2>1, <2>2
<1>3. Seen(l)'
  BY <1>0, ApprovalsSettle DEF CallFits, Seen, ApprovalsGoOn
<1> QED
  BY <1>0, <1>1, <1>2, <1>3 DEF CallFits

\* A call that goes on has begun and not returned.
LEMMA StepsAreBegun ==
  ASSUME NEW c \in Calls, CallStep(c)
  PROVE  call[c].at # "off" /\ call[c].at # "done"
BY DEF CallStep, DialFails, ControlStep, RunStep, ResolveStep, DeliveryStep, Refresh,
       ControlDialed, ReadRow, CheckTarget, ChangeSession, RunDialed, WaitForRun, AskRun,
       StatusRow, Interrupt, ResolveDialed, ResolveApproval, DeliveryDialed, CreateSession,
       SendDialed, ReadAttachments, SendMessage, VerifyVisibility, RefreshRow,
       RefreshApprovals, At

\* The first step of a call.
LEMMA BeginFits ==
  ASSUME CInv, [Next]_vars, NEW c \in Calls, NEW r, UNCHANGED gatewayVars,
         At(c, "off"),
         Same(call[c], r, {"at", "since", "earlier", "blocking"}),
         r.at = "dialing", r.since = NOffers, r.blocking = PendingNow
  PROVE  CallFits(r)'
<1> DEFINE l == call[c]
<1>1. CallFits(l) /\ l.at = "off"
  BY DEF CInv, At
<1>2. /\ r.op = l.op /\ r.served = l.served /\ r.mutated = l.mutated /\ r.answer = l.answer
      /\ r.row = l.row /\ r.models = l.models
  BY DEF Same, Fields
<1>3. Progress(r)'
  BY <1>1, <1>2 DEF CallFits, Progress, gatewayVars
<1>4. NOffers \in Nat \ {0} /\ NOffers' \in Nat /\ NOffers' >= NOffers
  BY OffersGrow DEF CInv, OffersFit
<1>5. Checked(r)'
  BY <1>1, <1>2, <1>4 DEF Checked, CallFits, Progress, Seen
<1>6. Seen(r)'
  <2>1. l.answer.details = None
    BY <1>1 DEF CallFits, Seen
  <2>2. \A a \in PendingNow : a \in Approvals /\ approval'[a] # "unborn"
    BY DEF PendingNow, gatewayVars
  <2> QED
    BY <1>2, <2>1, <2>2 DEF Seen
<1> QED
  BY <1>3, <1>5, <1>6 DEF CallFits, Points

\* A step of a call that is no control call.
LEMMA OtherFits ==
  ASSUME CInv, [Next]_vars, NEW c \in Calls, NEW r, OtherMove(c, r), call[c].op.kind # "control",
         CallStep(c)
  PROVE  CallFits(r)'
<1> DEFINE l == call[c]
<1>1. CallFits(l) /\ r.op = l.op
  BY DEF CInv, OtherMove, Same, Fields
<1>2. l.at # "off" /\ l.at # "done"
  BY StepsAreBegun
<1>3. r.blocking = l.blocking /\ r.listFailed = l.listFailed
  BY DEF OtherMove, Same, Fields
<1>4. r.answer.details = None /\ r.at \in Points \ {"off", "detailExec", "detailPlugin"}
  BY <1>1, <1>2 DEF OtherMove, CallFits, Seen
<1>5. Seen(r)'
  BY <1>1, <1>2, <1>3, <1>4, ApprovalsSettle DEF CallFits, Seen, ApprovalsGoOn
<1> QED
  BY <1>1, <1>4, <1>5 DEF CallFits, Progress, Checked

\* A control call up to its change.
LEMMA PrepareFits ==
  ASSUME CInv, [Next]_vars, NEW c \in Calls, NEW r, PrepareMove(c, r),
         call[c].op.kind = "control", CallStep(c)
  PROVE  CallFits(r)'
<1> DEFINE l == call[c]
<1>1. CallFits(l) /\ UNCHANGED <<row, approval, catalogue>>
  BY DEF CInv, PrepareMove, gatewayVars
<1>2. Same(l, r, {"at", "answer", "row", "models"})
  BY DEF PrepareMove, Stops, Goes, Same
<1>3. /\ r.op = l.op /\ r.served = l.served /\ r.mutated = l.mutated /\ r.since = l.since
      /\ r.blocking = l.blocking /\ r.listFailed = l.listFailed
  BY <1>2 DEF Same, Fields
<1>4. NoAnswer.details = None /\ NoAnswer.confirmed = FALSE
  BY DEF NoAnswer
<1>5. \/ r.at = "done" /\ r.answer = NoAnswer
      \/ /\ r.at \in {"detailRow", "listing", "describing", "patching"} /\ r.answer = l.answer
         /\ l.at \in {"dialing", "describing", "listing"}
  BY <1>2 DEF PrepareMove, Stops, Goes, Same, Fields
<1>6. l.at # "off"
  BY StepsAreBegun
<1>7. Progress(r)'
  BY <1>1, <1>3, <1>4, <1>5 DEF CallFits, Progress
<1>8. Seen(r)'
  BY <1>1, <1>3, <1>4, <1>5, <1>6 DEF CallFits, Seen, Settled
<1>9. r.answer.details = None
  BY <1>1, <1>4, <1>5 DEF CallFits, Seen
<1>10. /\ l.since \in 1 .. NOffers' /\ NOffers \in l.since .. NOffers'
       /\ \A i \in l.since .. NOffers : i \in l.since .. NOffers' /\ offers'[i] = offers[i]
       /\ offers'[NOffers] = <<row.model, catalogue>>
       /\ \E i \in l.since .. NOffers' : offers'[i][1] = row.model
       /\ \A m : HadModel(l, m) => HadModel(r, m)'
       /\ HadLevel(l) => HadLevel(r)'
       /\ NOffers \in Nat /\ l.since \in Nat
  BY <1>3, <1>6, SinceThen DEF CInv, OffersFit, CallFits, Checked
<1>11. Checked(r)'
  <2>0. r.mutated /\ l.op.action = "reasoning.switch" => HadLevel(r)'
    BY <1>1, <1>3, <1>10 DEF CallFits, Checked
  <2>1. CASE r.at \notin {"describing", "listing", "patching"}
    BY <1>3, <1>5, <1>9, <1>10, <2>0, <2>1 DEF Checked
  <2>2. CASE l.at = "dialing" /\ r.at \in {"describing", "listing", "patching"}
    BY <1>3, <1>9, <1>10, <2>0, <2>2 DEF Checked, Targeted, PrepareMove, Stops, Goes
  <2>3. CASE l.at = "describing" /\ r.at \in {"listing", "patching"}
    <3>1. r.row = Described /\ r.at = IF l.op.action = "pin" THEN "patching" ELSE "listing"
      BY <2>3 DEF PrepareMove, Stops, Goes
    <3>2. l.op.action \in {"pin", "reasoning.switch"}
      BY <1>1, <2>3 DEF CallFits, Checked
    <3>3. r.row = None \/ r.row = row
      BY <3>1 DEF Described
    <3>4. r.row # None => HadModel(r, r.row.model)'
      BY <1>3, <1>10, <3>3 DEF HadModel
    <3>5. l.op.action = "pin" => Targeted(r)'
      BY <1>3 DEF Targeted
    <3> QED
      BY <1>3, <1>9, <1>10, <2>0, <2>3, <3>1, <3>2, <3>4, <3>5 DEF Checked
  <2>4. CASE l.at = "listing" /\ r.at = "patching"
    <3>1. /\ r.models \in {catalogue, None} /\ l.op.target \in Offered(c, r.models)
          /\ r.row = l.row
      BY <2>4 DEF PrepareMove, Stops, Goes, Same, Fields
    <3>2. CASE l.op.action = "model.switch"
      <4>1. r.models = catalogue /\ l.op.target \in modelsToOptions(catalogue)
        BY <3>1, <3>2 DEF Offered, IsControl, ModelOptions
      <4> QED
        <5>1. l.op.target \in Models
          BY <4>1 DEF modelsToOptions
        <5>2. l.op.target \in modelsToOptions(offers'[NOffers][2])
          BY <1>10, <4>1
        <5>3. \E i \in l.since .. NOffers' : l.op.target \in modelsToOptions(offers'[i][2])
          BY <1>10, <5>2
        <5>4. Targeted(r)'
          BY <1>3, <3>2, <5>1, <5>3 DEF Targeted
        <5> QED
          BY <1>3, <1>9, <1>10, <2>0, <2>4, <5>4 DEF Checked
    <3>3. CASE l.op.action = "reasoning.switch"
      <4>1. l.op.target \in ReasoningOptions(l.row, r.models)
        BY <3>1, <3>3 DEF Offered, IsControl
      <4>2. /\ l.row # None /\ l.op.target \in LevelsOf[l.row.model]
            /\ r.models = None \/ catalogue[l.row.model].reasoning
        BY <3>1, <4>1 DEF ReasoningOptions, reasoningOptionsFromRow, reasoningOptionsForModel
      <4>3. PICK i \in l.since .. NOffers : offers[i][1] = l.row.model
        BY <1>1, <2>4, <3>3, <4>2 DEF CallFits, Checked, HadModel
      <4>4. offers[i][1] \in Models
        BY <1>10, <4>3 DEF CInv, OffersFit, Offer
      <4>5. l.op.target \in Levels
        BY <4>2, <4>3, <4>4, LevelsAssumption
      <4>6. /\ i \in l.since .. NOffers' /\ i <= NOffers
            /\ offers'[i][1] = l.row.model /\ offers'[NOffers][2] = catalogue
        BY <1>10, <4>3
      <4>7. \E k, j \in l.since .. NOffers' :
              /\ k <= j
              /\ l.op.target \in LevelsOf[offers'[k][1]]
              /\ r.models = None \/ offers'[j][2][offers'[k][1]].reasoning
        BY <1>10, <4>2, <4>6
      <4>8. Targeted(r)'
        BY <1>3, <3>3, <4>5, <4>7 DEF Targeted
      <4> QED
        BY <1>3, <1>9, <1>10, <2>0, <2>4, <4>8 DEF Checked
    <3> QED
      BY <1>1, <2>4, <3>2, <3>3 DEF CallFits, Checked
  <2> QED
    BY <2>1, <2>2, <2>3, <2>4 DEF PrepareMove, Stops, Goes
<1> QED
  BY <1>5, <1>7, <1>8, <1>11 DEF CallFits, Points

\* The change, answered or given up.
LEMMA ChangedFits ==
  ASSUME CInv, [Next]_vars, NEW c \in Calls, NEW r, ChangeMove(c, r), call[c].op.kind = "control"
  PROVE  CallFits(r)'
<1> DEFINE l == call[c]
<1>1. CallFits(l) /\ l.at = "patching" /\ At(c, "patching") /\ RowFits /\ RowFits'
  BY RowKept DEF CInv, ChangeMove, At
<1>2. Same(l, r, {"at", "answer", "row", "models", "mutated", "served"})
  BY DEF ChangeMove, Stops, Same
<1>3. /\ r.op = l.op /\ r.since = l.since
      /\ r.blocking = l.blocking /\ r.listFailed = l.listFailed
  BY <1>2 DEF Same, Fields
<1>4. NoAnswer.details = None /\ NoAnswer.confirmed = FALSE
  BY DEF NoAnswer
<1>5. r.at \in {"detailRow", "done"} /\ r.answer.details = None
  BY <1>1, <1>4 DEF ChangeMove, Stops, CallFits, Seen
<1>6. Seen(r)'
  BY <1>1, <1>3, <1>5, ApprovalsSettle DEF CallFits, Seen, ApprovalsGoOn
<1>7. Checked(r)'
  <2>1. l.since \in 1 .. NOffers' /\ (HadLevel(l) => HadLevel(r)')
    BY <1>1, <1>3, SinceThen
  <2>2. l.op.action = "reasoning.switch" => HadLevel(l)
    BY <1>1 DEF CallFits, Checked, Targeted, HadLevel
  <2> QED
    BY <1>3, <1>5, <2>1, <2>2 DEF Checked
<1>8. Progress(r)'
  <2>1. CASE GivenUp(ChangeRequest(c)) /\ Stops(l, r)
    <3>1. r.served = l.served /\ r.mutated = l.mutated /\ ~l.mutated /\ row' = row
      BY <1>1, <2>1, ChangeFits DEF Stops, Same, Fields, CallFits, Progress, GivenUp
    <3> QED
      BY <1>1, <1>3, <1>4, <1>5, <2>1, <3>1 DEF CallFits, Progress, Stops
  <2>2. CASE Answered(ChangeRequest(c)) /\ r.mutated = TRUE /\ r.served = row.version + 1
    <3>1. l.op.action \in Changes /\ PatchFits(ChangeRequest(c))
      BY <1>1, ChangeFits
    <3>2. Patched(ChangeRequest(c))
      BY <2>2, <3>1, ChangeRequested DEF Answered, Perform, Patched
    <3>3. /\ row'.version = row.version + 1
          /\ row'[ChangeRequest(c).field] = ChangeRequest(c).value
      BY <1>1, <3>1, <3>2, PatchedRow DEF RowFits
    <3>4. Shows(row', l.op, row.version + 1)
      BY <1>1, <3>1, <3>3, ChangeRequested DEF Shows, RowFits
    <3>5. r.served \in Nat /\ r.served > 0 /\ r.served <= row'.version
      BY <1>1, <2>2, <3>3 DEF RowFits
    <3> QED
      BY <1>3, <1>5, <2>2, <3>1, <3>4, <3>5 DEF Progress
  <2> QED
    BY <2>1, <2>2 DEF ChangeMove
<1> QED
  BY <1>5, <1>6, <1>7, <1>8 DEF CallFits, Points

\* The row is read for the details.
LEMMA DetailRowFits ==
  ASSUME CInv, [Next]_vars, NEW c \in Calls, NEW r, RowMove(c, r)
  PROVE  CallFits(r)'
<1> DEFINE l == call[c]
<1>1. CallFits(l) /\ l.at = "detailRow" /\ RowFits /\ UNCHANGED <<row, approval>>
  BY DEF CInv, RowMove, gatewayVars
<1>2. Same(l, r, {"at", "row"}) /\ r.at = "detailExec" /\ (r.row = row \/ r.row = None)
  BY DEF RowMove, Described
<1>3. /\ r.op = l.op /\ r.served = l.served /\ r.mutated = l.mutated /\ r.since = l.since
      /\ r.blocking = l.blocking /\ r.listFailed = l.listFailed /\ r.answer = l.answer
  BY <1>2 DEF Same, Fields
<1>4. Progress(r)'
  BY <1>1, <1>2, <1>3 DEF CallFits, Progress, Shows
<1>5. Seen(r)'
  BY <1>1, <1>2, <1>3 DEF CallFits, Seen
<1>6. Checked(r)'
  <2> SUFFICES ASSUME l.op.kind = "control"
               PROVE  Checked(r)'
    BY <1>3 DEF Checked
  <2>1. /\ l.since \in 1 .. NOffers' /\ (HadLevel(l) => HadLevel(r)')
        /\ \E i \in r.since .. NOffers' : offers'[i][1] = row.model
    BY <1>1, <1>3, SinceThen
  <2>2. l.mutated /\ l.op.action = "reasoning.switch" => HadLevel(r)'
    BY <1>1, <2>1 DEF CallFits, Checked
  <2>3. r.row # None => HadModel(r, r.row.model)'
    BY <1>2, <2>1 DEF HadModel
  <2>4. r.answer.details = None
    BY <1>1, <1>3 DEF CallFits, Seen
  <2> QED
    BY <1>2, <1>3, <2>1, <2>2, <2>3, <2>4 DEF Checked
<1> QED
  BY <1>2, <1>4, <1>5, <1>6 DEF CallFits, Points

\* The approvals are looked for, and the details are complete.
LEMMA DetailFits ==
  ASSUME CInv, [Next]_vars, NEW c \in Calls, NEW r, ApprovalMove(c, r),
         call[c].op.kind \in {"control", "wait"}
  PROVE  CallFits(r)'
<1> DEFINE l == call[c]
<1>1. /\ CallFits(l) /\ l.at \in {"detailExec", "detailPlugin"}
      /\ UNCHANGED <<row, approval>>
  BY DEF CInv, ApprovalMove, gatewayVars
<1>2. /\ Same(l, r, {"at", "answer", "row", "models", "blocking", "listFailed"})
      /\ r.at \in {"detailPlugin", "done"}
  BY DEF ApprovalMove, Completes, Same
<1>3. r.op = l.op /\ r.served = l.served /\ r.mutated = l.mutated /\ r.since = l.since
  BY <1>2 DEF Same, Fields
<1>4. l.answer.details = None
  BY <1>1 DEF CallFits, Seen
<1>5. Checked(r)'
  <2> SUFFICES ASSUME l.op.kind = "control"
               PROVE  Checked(r)'
    BY <1>3 DEF Checked
  <2>1. /\ l.since \in 1 .. NOffers' /\ (HadLevel(l) => HadLevel(r)')
        /\ \A m : HadModel(l, m) => HadModel(r, m)'
    BY <1>1, <1>3, SinceThen
  <2>2. l.mutated /\ l.op.action = "reasoning.switch" => HadLevel(r)'
    BY <1>1, <2>1 DEF CallFits, Checked
  <2>3. l.row # None => \E i \in r.since .. NOffers' : offers'[i][1] = l.row.model
    BY <1>1, <2>1 DEF CallFits, Checked, HadModel
  <2>4. \/ r.at = "done" /\ r.answer.details.row = l.row
        \/ r.at = "detailPlugin" /\ r.row = l.row /\ r.answer.details = None
    BY <1>4 DEF ApprovalMove, Completes, Same, Fields
  <2> QED
    BY <1>2, <1>3, <2>1, <2>2, <2>3, <2>4 DEF Checked, HadModel
<1>6. CASE \E a \in Approvals \cup {None} : Completes(l, r, a)
  <2>1. PICK a \in Approvals \cup {None} : Completes(l, r, a)
    BY <1>6
  <2>2. /\ r.at = "done" /\ r.blocking = l.blocking \cap PendingNow
        /\ r.answer.confirmed = l.mutated
        /\ r.answer.details.row = l.row
    BY <2>1 DEF Completes
  <2>3. Progress(r)'
    BY <1>1, <1>3, <2>2 DEF CallFits, Progress
  <2>4. r.blocking # {} /\ ~r.listFailed => r.answer.details.view.run = WaitingRun
    <3>1. CASE \E b \in Approvals : Completes(l, r, b)
      BY <3>1, NoneAssumption DEF Completes
    <3>2. CASE /\ l.at = "detailPlugin"
               /\ ~r.listFailed => ~l.listFailed /\ Pending("plugin") = {}
      <4> SUFFICES ASSUME ~r.listFailed, NEW b \in l.blocking \cap PendingNow
                   PROVE  FALSE
        BY <2>2
      <4>1. approval[b] = "pending" /\ b \in Approvals
        BY DEF PendingNow
      <4>2. KindOf[b] = "plugin"
        BY <1>1, <3>2, <4>1 DEF CallFits, Seen, Settled
      <4> QED
        BY <3>2, <4>1, <4>2 DEF Pending
    <3> QED
      BY <2>2, <3>1, <3>2 DEF ApprovalMove
  <2>5. Seen(r)'
    <3>1. \A b \in r.blocking : b \in Approvals /\ approval'[b] # "unborn"
      BY <1>1, <2>2 DEF PendingNow
    <3> QED
      BY <1>3, <2>2, <2>4, <3>1 DEF Seen
  <2> QED
    BY <1>5, <2>2, <2>3, <2>5 DEF CallFits, Points
<1>7. CASE /\ l.at = "detailExec"
           /\ Same(l, r, {"at", "listFailed"}) /\ r.at = "detailPlugin"
           /\ ~r.listFailed => Pending("exec") = {}
  <2>1. r.blocking = l.blocking /\ r.answer = l.answer /\ r.row = l.row
    BY <1>7 DEF Same, Fields
  <2>2. Progress(r)'
    BY <1>1, <1>3, <1>7, <2>1 DEF CallFits, Progress
  <2>3. \A a \in l.blocking : a \in Approvals /\ approval[a] # "unborn"
    BY <1>1 DEF CallFits, Seen
  <2>4. ~r.listFailed => \A a \in l.blocking : Settled(a) \/ KindOf[a] = "plugin"
    BY <1>7, <2>3, ApprovalAssumption DEF Settled, Pending
  <2>5. Seen(r)'
    BY <1>1, <1>4, <1>7, <2>1, <2>3, <2>4 DEF Seen, Settled
  <2> QED
    BY <1>5, <1>7, <2>2, <2>5 DEF CallFits, Points
<1> QED
  BY <1>6, <1>7 DEF ApprovalMove

\* A call that hangs keeps what it has.
LEMMA HangFits ==
  ASSUME CInv, [Next]_vars, NEW c \in Calls, NEW r, UNCHANGED gatewayVars,
         MayHang(c), Goes(call[c], r, "hanging")
  PROVE  CallFits(r)'
<1> DEFINE l == call[c]
<1>1. /\ CallFits(l) /\ l.at # "off" /\ l.at # "done" /\ UNCHANGED <<row, approval>>
  BY DEF CInv, MayHang, gatewayVars
<1>2. /\ r.op = l.op /\ r.served = l.served /\ r.mutated = l.mutated /\ r.since = l.since
      /\ r.blocking = l.blocking /\ r.listFailed = l.listFailed /\ r.answer = l.answer
      /\ r.at = "hanging"
  BY DEF Goes, Same, Fields
<1>3. r.answer.details = None
  BY <1>1, <1>2 DEF CallFits, Seen
<1>4. Progress(r)'
  BY <1>1, <1>2 DEF CallFits, Progress
<1>5. Seen(r)'
  BY <1>1, <1>2, <1>3 DEF CallFits, Seen
<1>6. l.op.kind = "control" => l.since \in 1 .. NOffers' /\ (HadLevel(l) => HadLevel(r)')
  BY <1>1, <1>2, SinceThen
<1>7. Checked(r)'
  BY <1>1, <1>2, <1>3, <1>6 DEF CallFits, Checked
<1> QED
  BY <1>2, <1>4, <1>5, <1>7 DEF CallFits, Points

\* What is known of every call, after any step.
LEMMA CallsFitOn ==
  ASSUME CInv, [Next]_vars
  PROVE  \A c \in Calls : CallFits(call[c])'
<1>0. CallsPlaced
  BY DEF CInv, IInv, Inv
<1>1. ASSUME NEW c \in Calls, Begin(c) \/ Hang(c) \/ CallStep(c)
      PROVE  \A d \in Calls : CallFits(call[d])'
  <2>1. PICK r : CallMove(c, r) /\ Becomes(c, r)
    BY <1>0, <1>1, CallMovesOn
  <2>2. call'[c] = r /\ \A d \in Calls \ {c} : call'[d] = call[d]
    BY <1>0, <2>1 DEF Becomes, CallsPlaced
  <2>3. CallFits(r)'
    <3>1. CASE CallStep(c) /\ Move(c, r)
      BY <3>1, OtherFits, PrepareFits, ChangedFits, DetailRowFits, DetailFits DEF Move
    <3> QED
      BY <2>1, <3>1, BeginFits, HangFits DEF CallMove
  <2>4. \A d \in Calls \ {c} : CallFits(call[d])'
    BY <2>2, StillFits
  <2> QED
    BY <2>2, <2>3, <2>4
<1>2. CASE UNCHANGED call
  BY <1>2, StillFits
<1> QED
  BY <1>1, <1>2 DEF Next, Proceed, vars, callVars

\* The step of a call adds to the requests under way at most its own, as it
\* returns.
LEMMA CallLate ==
  ASSUME CInv, NEW c \in Calls, NEW r, CallMove(c, r)
  PROVE  \A q \in late' :
           \/ q \in late
           \/ /\ q.by = c /\ r.at = "done"
              /\ \/ q.method # "sessions.patch"
                 \/ /\ q = ChangeRequest(c) /\ At(c, "patching")
                    /\ Same(call[c], r, {"at", "answer", "row", "models"})
<1>1. CASE UNCHANGED gatewayVars
  BY <1>1 DEF gatewayVars
<1>2. ASSUME NEW q, q.method # "sessions.patch", Asks(c, r, q)
      PROVE  \A p \in late' :
               p \in late \/ (p.by = c /\ r.at = "done" /\ p.method # "sessions.patch")
  BY <1>2 DEF Asks, Answered, GivenUp
<1>3. CASE ChangeMove(c, r)
  <2>1. At(c, "patching") /\ ChangeRequest(c).by = c
    BY <1>3, ChangeFits, ChangeRequested DEF ChangeMove, At
  <2> QED
    BY <1>3, <2>1 DEF ChangeMove, Answered, GivenUp, Stops
<1> QED
  BY <1>1, <1>2, <1>3 DEF CallMove, Move, OtherMove, PrepareMove, RowMove, ApprovalMove

\* What happens without the adapter puts no request under way.
LEMMA GatewayLate ==
  ASSUME GatewayStep
  PROVE  late' \subseteq late
<1>1. ASSUME NEW m \in Models, PeerSwitchesModel(m) PROVE late' = late
  BY <1>1 DEF PeerSwitchesModel
<1>2. CatalogueChanges => late' = late
  BY DEF CatalogueChanges
<1>3. ASSUME NEW a \in Approvals, RequestApproval(a) \/ PeerResolves(a) PROVE late' = late
  BY <1>3 DEF RequestApproval, PeerResolves
<1>4. ASSUME NEW x \in Runs, PeerStartsRun(x) \/ RunEnds(x) PROVE late' = late
  BY <1>4 DEF PeerStartsRun, RunEnds
<1>5. PerformLate => late' \subseteq late
  BY DEF PerformLate
<1> QED
  BY <1>1, <1>2, <1>3, <1>4, <1>5 DEF GatewayStep, Runs

\* Requests under way, after any step.
LEMMA LateFitsOn ==
  ASSUME CInv, [Next]_vars
  PROVE  LateFits'
<1>0. CallsPlaced /\ LateFits
  BY DEF CInv, IInv, Inv
<1>1. ASSUME NEW c \in Calls, Begin(c) \/ Hang(c) \/ CallStep(c)
      PROVE  LateFits'
  <2>1. PICK r : CallMove(c, r) /\ Becomes(c, r)
    BY <1>0, <1>1, CallMovesOn
  <2>2. call'[c] = r /\ \A d \in Calls \ {c} : call'[d] = call[d]
    BY <1>0, <2>1 DEF Becomes, CallsPlaced
  <2>3. call[c].at # "done"
    BY <1>1, StepsAreBegun DEF Begin, Hang, MayHang, At
  <2> SUFFICES ASSUME NEW q \in late'
               PROVE  /\ q.by \in Calls /\ call'[q.by].at = "done"
                      /\ q.method = "sessions.patch" => PatchFits(q)
    BY DEF LateFits, Returned, At, PatchFits
  <2>4. CASE q \in late
    BY <1>0, <2>2, <2>3, <2>4 DEF LateFits, Returned, At
  <2> QED
    BY <2>1, <2>2, <2>4, CallLate, ChangeFits
<1>2. CASE UNCHANGED call /\ late' \subseteq late
  BY <1>0, <1>2 DEF LateFits, Returned, At, PatchFits
<1>3. CASE GatewayStep /\ UNCHANGED call
  BY <1>2, <1>3, GatewayLate
<1> QED
  BY <1>1, <1>2, <1>3 DEF Next, Proceed, vars, callVars, gatewayVars

\* A pin request that names v leaves v.
LEMMA PinChange ==
  ASSUME CInv, NEW c \in Calls, At(c, "patching"), NEW v \in BOOLEAN,
         \A d \in PinCalls : call[d].op.target = v,
         ChangeRequest(c).field = "pinned"
  PROVE  ChangeRequest(c).value = v
<1>1. call[c].op.kind = "control" /\ call[c].op.action \in Changes
  BY ChangeFits
<1>2. call[c].op.action = "pin"
  BY <1>1, ChangeRequested DEF FieldOf, Changes
<1>3. call[c].op.target = v
  BY <1>1, <1>2 DEF PinCalls, IsCall, IsControl
<1> QED
  BY <1>1, <1>2, <1>3, ChangeRequested, TargetAssumption DEF Inverts, ValueOf

\* A call marks its change made only with the answer to it.
LEMMA MarkedByChange ==
  ASSUME NEW c \in Calls, NEW r, CallMove(c, r)
  PROVE  \/ r.mutated = call[c].mutated
         \/ ChangeMove(c, r) /\ Answered(ChangeRequest(c))
<1>1. ASSUME Same(call[c], r, {"at", "answer", "row", "models", "status", "blocking", "listFailed",
                               "since", "earlier"})
      PROVE  r.mutated = call[c].mutated
  BY <1>1 DEF Same, Fields
<1>2. CASE OtherMove(c, r)
  BY <1>1, <1>2 DEF OtherMove, Same
<1>3. CASE PrepareMove(c, r)
  BY <1>1, <1>3 DEF PrepareMove, Stops, Goes, Same
<1>4. CASE ChangeMove(c, r)
  BY <1>1, <1>4 DEF ChangeMove, Stops, Same
<1>5. CASE RowMove(c, r) \/ ApprovalMove(c, r)
  BY <1>1, <1>5 DEF RowMove, ApprovalMove, Completes, Same
<1>6. CASE Same(call[c], r, {"at", "since", "earlier", "blocking"})
  BY <1>1, <1>6 DEF Same
<1>7. CASE Goes(call[c], r, "hanging")
  BY <1>1, <1>7 DEF Goes, Same
<1> QED
  BY <1>2, <1>3, <1>4, <1>5, <1>6, <1>7 DEF CallMove, Move

\* Pins, after any step.
LEMMA PinsHeldOn ==
  ASSUME CInv, [Next]_vars, NEW v \in BOOLEAN
  PROVE  PinsHeld(v)'
<1>0. CallsPlaced /\ OpsKept /\ PinsHeld(v) /\ RowFits
  BY Effects DEF CInv, IInv, Inv
<1>1. PinCalls' = PinCalls /\ \A d \in Calls : call'[d].op = call[d].op
  BY <1>0 DEF OpsKept, PinCalls, IsCall, IsControl
<1> SUFFICES ASSUME \A d \in PinCalls : call[d].op.target = v
             PROVE  /\ \A q \in late' :
                         q.method = "sessions.patch" /\ q.field = "pinned" => q.value = v
                    /\ (\E d \in PinCalls : call'[d].mutated) => row'.pinned = v
  BY <1>1 DEF PinsHeld, PinCalls
<1>2. /\ \A q \in late : q.method = "sessions.patch" /\ q.field = "pinned" => q.value = v
      /\ (\E d \in PinCalls : call[d].mutated) => row.pinned = v
  BY <1>0 DEF PinsHeld
<1>3. ASSUME NEW c \in Calls, Begin(c) \/ Hang(c) \/ CallStep(c)
      PROVE  /\ \A q \in late' : q.method = "sessions.patch" /\ q.field = "pinned" => q.value = v
             /\ (\E d \in PinCalls : call'[d].mutated) => row'.pinned = v
  <2>1. PICK r : CallMove(c, r) /\ Becomes(c, r)
    BY <1>0, <1>3, CallMovesOn
  <2>2. call'[c] = r /\ \A d \in Calls \ {c} : call'[d] = call[d]
    BY <1>0, <2>1 DEF Becomes, CallsPlaced
  <2>3. \A q \in late' : q.method = "sessions.patch" /\ q.field = "pinned" => q.value = v
    BY <1>2, <2>1, CallLate, PinChange
  <2>4. CASE row' = row /\ (c \in PinCalls => r.mutated = call[c].mutated)
    <3>1. \A d \in PinCalls : call'[d].mutated = call[d].mutated
      BY <2>2, <2>4 DEF PinCalls
    <3> QED
      BY <1>2, <2>3, <2>4, <3>1
  <2>5. CASE At(c, "patching") /\ Patched(ChangeRequest(c))
    <3>1. PatchFits(ChangeRequest(c)) /\ catalogue' \in Catalogues
      BY <2>5, ChangeFits, RowKept DEF RowFits
    <3>2. /\ row'[ChangeRequest(c).field] = ChangeRequest(c).value
          /\ \A f \in RowFields \ {"version", ChangeRequest(c).field} : row'[f] = row[f]
      BY <1>0, <2>5, <3>1, PatchedRow
    <3>3. CASE ChangeRequest(c).field = "pinned"
      BY <2>3, <2>5, <3>2, <3>3, PinChange
    <3>4. CASE ChangeRequest(c).field # "pinned"
      <4>1. row'.pinned = row.pinned
        BY <3>2, <3>4 DEF RowFields
      <4>2. c \notin PinCalls
        BY <2>5, <3>4, ChangeFits, ChangeRequested DEF PinCalls, IsControl, FieldOf
      <4>3. \A d \in PinCalls : call'[d] = call[d]
        BY <2>2, <4>2 DEF PinCalls
      <4> QED
        BY <1>2, <2>3, <4>1, <4>3
    <3> QED
      BY <3>3, <3>4
  <2>6. CASE ChangeMove(c, r) /\ Answered(ChangeRequest(c))
    <3>1. At(c, "patching")
      BY <2>6 DEF ChangeMove, At
    <3>2. ChangeRequest(c).method = "sessions.patch"
      BY <3>1, ChangeFits, ChangeRequested
    <3> QED
      BY <2>5, <2>6, <3>1, <3>2 DEF Answered, Perform, Patched
  <2> QED
    BY <2>1, <2>4, <2>5, <2>6, CallRow, MarkedByChange
<1>4. CASE GatewayStep /\ UNCHANGED call
  <2>1. \A q \in late' : q.method = "sessions.patch" /\ q.field = "pinned" => q.value = v
    BY <1>2, <1>4, GatewayLate
  <2>2. CASE row'.pinned = row.pinned
    BY <1>2, <1>4, <2>1, <2>2
  <2>3. ASSUME NEW m \in Models, PeerSwitchesModel(m)
        PROVE  row'.pinned = row.pinned
    BY <1>0, <2>3 DEF PeerSwitchesModel, RowFits, RowFields
  <2>4. CASE PerformLate
    <3>1. PICK q \in late : Perform(q) \/ row' = row
      BY <2>4 DEF PerformLate
    <3>2. CASE q.method = "sessions.patch" /\ Patched(q)
      <4>1. PatchFits(q) /\ catalogue' \in Catalogues
        BY <2>4, <3>2 DEF CInv, LateFits, RowFits, PerformLate
      <4>2. /\ row'[q.field] = q.value
            /\ \A f \in RowFields \ {"version", q.field} : row'[f] = row[f]
        BY <1>0, <3>2, <4>1, PatchedRow
      <4>3. CASE q.field = "pinned"
        BY <1>2, <2>1, <3>1, <3>2, <4>2, <4>3
      <4>4. CASE q.field # "pinned"
        BY <2>2, <4>2, <4>4 DEF RowFields
      <4> QED
        BY <4>3, <4>4
    <3> QED
      BY <2>2, <3>1, <3>2 DEF Perform, Patched
  <2>5. CASE row' = row
    BY <2>2, <2>5
  <2> QED
    BY <1>4, <2>2, <2>3, <2>4, <2>5
       DEF GatewayStep, CatalogueChanges, RequestApproval, PeerResolves, PeerStartsRun, RunEnds
<1> QED
  BY <1>2, <1>3, <1>4 DEF Next, Proceed, vars, callVars, gatewayVars
-----------------------------------------------------------------------------
\* No call has begun, and the first offer is the one in force.
LEMMA ControlInitially == Init => CInv
<1> SUFFICES ASSUME Init PROVE CInv
  OBVIOUS
<1>1. IInv
  BY Initially
<1>2. /\ DOMAIN row = RowFields /\ row.version = 0 /\ row.model = InitialModel
      /\ row.level = InitialLevel /\ catalogue \in Catalogues /\ late = {} /\ budget \in Budgets
  BY DEF Init, GatewayInit, RowFields
<1>3. RowFits /\ LateFits
  BY <1>2, CatalogueAssumption, LevelsAssumption DEF RowFits, LateFits
<1>4. budget \in [Kinds -> Nat]
  BY <1>2, BudgetsAssumption
<1>5. OffersFit
  <2>1. offers = <<<<row.model, catalogue>>>>
    BY DEF Init, CallInit
  <2>2. DOMAIN offers = 1 .. 1 /\ offers[1] = <<row.model, catalogue>>
    BY <2>1
  <2>3. Cardinality(1 .. 1) = 1
    <3>1. 1 \in Int /\ ~(1 > 1) /\ 1 - 1 + 1 = 1
      OBVIOUS
    <3> QED
      BY <3>1, FS_Interval
  <2>4. <<row.model, catalogue>> \in Offer
    BY <1>2, CatalogueAssumption DEF Offer
  <2> QED
    BY <2>2, <2>3, <2>4 DEF OffersFit, NOffers
<1>6. \A c \in Calls :
        /\ call[c].at = "off" /\ call[c].answer = NoAnswer /\ call[c].mutated = FALSE
        /\ call[c].served = 0 /\ call[c].blocking = {}
  BY DEF Init, CallInit, Unmade
<1>7. NoAnswer.details = None /\ NoAnswer.confirmed = FALSE
  BY DEF NoAnswer
<1>8. ASSUME NEW c \in Calls PROVE CallFits(call[c])
  BY <1>2, <1>6, <1>7 DEF CallFits, Points, Progress, Checked, Seen
<1>9. ASSUME NEW v \in BOOLEAN PROVE PinsHeld(v)
  BY <1>2, <1>6 DEF PinsHeld, PinCalls
<1> QED
  BY <1>1, <1>3, <1>4, <1>5, <1>8, <1>9 DEF CInv

\* Every step keeps the invariant.
LEMMA CInvKept ==
  ASSUME CInv, [Next]_vars
  PROVE  CInv'
<1>1. IInv'
  BY InvKept DEF CInv
<1>2. \A c \in Calls : CallFits(call[c])'
  BY CallsFitOn
<1>3. \A v \in BOOLEAN : PinsHeld(v)'
  BY PinsHeldOn
<1> QED
  BY <1>1, <1>2, <1>3, RowKept, LateFitsOn, OffersGrow DEF CInv

\* The calls of control.go and discovery.go and the Gateway they change stay in
\* the states that CInv describes.
THEOREM ControlInvariant == Spec => []CInv
<1>1. CInv /\ [Next]_vars => CInv'
  BY CInvKept
<1> QED
  BY <1>1, ControlInitially, PTL DEF Spec

\* The session's row, the approvals, the runs and the calls have their types,
\* and a request that outlives its call is that of a call which returned
\* (gateway_client.go, Request).
THEOREM TypeCorrect == Spec => []TypeOK
<1>1. CInv => TypeOK
  BY DEF CInv, IInv, Inv, GatewayTypes, CallsPlaced, Placed, RowFits, LateFits, OffersFit, NOffers,
         CallFits, TypeOK
<1> QED
  BY <1>1, ControlInvariant, PTL

\* ControlSession (control.go): a confirmed change was made, and the details
\* show it or a later one.
THEOREM ConfirmationTrue == Spec => []ConfirmationIsTrue
<1>1. CInv => ConfirmationIsTrue
  <2> SUFFICES ASSUME CInv, NEW c \in Calls, IsCall(c, "control"), call[c].answer.confirmed
               PROVE  /\ call[c].served > 0
                      /\ call[c].answer.details # None => ShowsChange(call[c].answer.details.row, c)
    BY DEF ConfirmationIsTrue
  <2>1. Progress(call[c]) /\ call[c].op.kind = "control"
    BY DEF CInv, CallFits, IsCall
  <2>2. call[c].served > 0 /\ call[c].op.action \in Changes
    BY <2>1 DEF Progress
  <2>3. call[c].answer.details # None =>
          Shows(call[c].answer.details.row, call[c].op, call[c].served)
    BY <2>1 DEF Progress
  <2>4. IsToggle(c) <=> Inverts(call[c].op)
    BY <2>1 DEF IsToggle, IsControl, Inverts
  <2>5. ASSUME NEW x, Shows(x, call[c].op, call[c].served)
        PROVE  ShowsChange(x, c)
    BY <2>2, <2>4, <2>5, ChangeRequested DEF Shows, ShowsChange
  <2> QED
    BY <2>2, <2>3, <2>5
<1> QED
  BY <1>1, ControlInvariant, PTL

\* ControlSession (control.go), its checks before model.switch and
\* reasoning.switch: a model that is requested was in a catalogue, and a level
\* was one of a model the session had, a model that reasoned by a later
\* catalogue if one was read; all since the call began, for the Gateway may
\* withdraw what it offered.  The details of a confirmed level show a model
\* that has it, unless the model was switched meanwhile.
THEOREM TargetOffered == Spec => []TargetWasOffered
<1>1. ASSUME CInv, NEW c \in Calls, IsCall(c, "control"), IsControl(c, "model.switch"),
             At(c, "patching")
      PROVE  \E i \in During(c) : call[c].op.target \in modelsToOptions(CatalogueAt(i))
  BY <1>1 DEF CInv, CallFits, Checked, Targeted, IsCall, IsControl, At, During, CatalogueAt, NOffers
<1>2. ASSUME CInv, NEW c \in Calls, SwitchesLevel(c), At(c, "patching")
      PROVE  \E i, j \in During(c) :
               /\ i <= j
               /\ call[c].op.target \in LevelsOf[ModelAt(i)]
               /\ call[c].models = None \/ CatalogueAt(j)[ModelAt(i)].reasoning
  <2>1. Targeted(call[c]) /\ call[c].op.action = "reasoning.switch"
    BY <1>2 DEF CInv, CallFits, Checked, SwitchesLevel, IsCall, IsControl, At
  <2> QED
    BY <2>1 DEF Targeted, During, ModelAt, CatalogueAt, NOffers
<1>3. ASSUME CInv, NEW c \in Calls, SwitchesLevel(c), ShowsRow(c), call[c].answer.confirmed,
             \A i, j \in During(c) : ModelAt(i) = ModelAt(j)
      PROVE  call[c].op.target \in LevelsOf[call[c].answer.details.row.model]
  <2>1. HadLevel(call[c]) /\ HadModel(call[c], call[c].answer.details.row.model)
    BY <1>3 DEF CInv, CallFits, Checked, Progress, SwitchesLevel, ShowsRow, IsCall, IsControl
  <2> QED
    BY <1>3, <2>1 DEF HadLevel, HadModel, During, ModelAt, NOffers
<1>4. CInv => TargetWasOffered
  BY <1>1, <1>2, <1>3 DEF TargetWasOffered
<1> QED
  BY <1>4, ControlInvariant, PTL

\* The pin case of ControlSession (control.go): requests that name the state
\* they want can be repeated, whatever became of their answers.
THEOREM PinsConverge == Spec => []ExplicitPinsConverge
<1>1. CInv => ExplicitPinsConverge
  <2> SUFFICES ASSUME CInv, NEW v \in BOOLEAN, \A c \in PinCalls : call[c].op.target = v,
                      NEW d \in PinCalls, call[d].answer.confirmed
               PROVE  row.pinned = v
    BY DEF ExplicitPinsConverge
  <2>1. call[d].mutated
    BY DEF CInv, CallFits, Progress, PinCalls, IsCall
  <2> QED
    BY <2>1 DEF CInv, PinsHeld
<1> QED
  BY <1>1, ControlInvariant, PTL

\* firstPendingApprovalForSession (discovery.go) and the snapshot built from it
\* (detail.go): an approval pending throughout the call shows the session
\* blocked.
THEOREM DetailsBlock == Spec => []DetailsBlockOnPending
<1>1. CInv => DetailsBlockOnPending
  BY DEF CInv, CallFits, Seen, DetailsBlockOnPending
<1> QED
  BY <1>1, ControlInvariant, PTL
=============================================================================
