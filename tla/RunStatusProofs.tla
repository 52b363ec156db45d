-------------------------- MODULE RunStatusProofs --------------------------
(***************************************************************************)
(* Theorems about what the Hub is told of runs, by waits and status reads  *)
(* of any number of calls.                                                 *)
(***************************************************************************)
EXTENDS SessionProofs

\* Calls that tell the Hub of a run, and where they know its status.
AboutRun(c) == (IsRunCall(c, "wait") \/ IsRunCall(c, "status")) /\ RunOf(c) # None

Knowing == {"detailRow", "detailExec", "detailPlugin", "statusRow"}

\* The status that an answer of agent.wait about run r turns into: of its end
\* if it has ended, of a run that goes on if not.
ReportOf(r, s) ==
  IF Ended(r) THEN s = normalizeWaitStatus(run[r]) ELSE s \in {"timeout", "running"}

\* Where the step of a call about a run leads it to.
RunOutcome(c, q) ==
  \/ q.at \notin Knowing \cup {"done"}
  \/ q.at = "done" /\ ~q.answer.ok
  \/ q.at \in Knowing /\ ReportOf(RunOf(c), q.status)
  \/ /\ call[c].at \in Knowing
     /\ q.at \in Knowing
     /\ q.status = call[c].status
  \/ /\ call[c].at \in Knowing
     /\ q.at = "done"
     /\ q.answer.status = call[c].status
     /\ \/ q.answer.details = None
        \/ q.answer.details.view.run.status \in {call[c].status, "idle", "waiting_approval"}

RunMove(c) ==
  \E q : /\ Becomes(c, q) /\ q.op = call[c].op /\ q.earlier = call[c].earlier
         /\ RunOutcome(c, q)
-----------------------------------------------------------------------------
\* A failing call about a run tells of no status.
LEMMA RunFails ==
  ASSUME CallsPlaced, NEW c \in Calls, Fails(c)
  PROVE  RunMove(c)
<1> DEFINE q == Done(call[c], NoAnswer)
<1>1. DOMAIN call[c] = Fields
  BY DEF CallsPlaced, Placed
<1>2. /\ q.op = call[c].op /\ q.earlier = call[c].earlier /\ q.at = "done"
      /\ q.answer = NoAnswer
  BY <1>1 DEF Done, Fields
<1>3. ~q.answer.ok
  BY <1>2 DEF NoAnswer
<1> QED
  BY <1>2, <1>3 DEF Fails, RunMove, RunOutcome

\* A call may go on to a place where it knows no status yet.
LEMMA RunGoes ==
  ASSUME CallsPlaced, NEW c \in Calls, NEW p, Goto(c, p), p \notin Knowing \cup {"done"}
  PROVE  RunMove(c)
<1> DEFINE q == [call[c] EXCEPT !.at = p]
<1>1. DOMAIN call[c] = Fields
  BY DEF CallsPlaced, Placed
<1>2. q.op = call[c].op /\ q.earlier = call[c].earlier /\ q.at = p
  BY <1>1 DEF Fields
<1> QED
  BY <1>2 DEF Goto, RunMove, RunOutcome

\* agent.wait reports the end of the run when it has ended, and only then.
LEMMA NativeReports ==
  ASSUME NEW r, NEW native \in IF Ended(r) THEN {run[r]} ELSE {"timeout"}
  PROVE  ReportOf(r, normalizeWaitStatus(native)) /\ ReportOf(r, ReadStatusOf(native))
BY DEF ReportOf, Ended, normalizeWaitStatus, ReadStatusOf

\* The answer built by Complete.
LEMMA CompleteAnswers ==
  ASSUME NEW q, DOMAIN q = Fields, NEW a
  PROVE  LET r == Complete(q, a) IN
           /\ r.at = "done" /\ r.op = q.op /\ r.earlier = q.earlier
           /\ r.answer.status = q.status
           /\ r.answer.details.view.run.status \in {q.status, "idle", "waiting_approval"}
<1> DEFINE p == [q EXCEPT !.blocking = @ \cap PendingNow]
           b == [NoAnswer EXCEPT !.ok = TRUE, !.confirmed = q.mutated, !.status = q.status,
                                 !.type = IF q.status = None THEN None ELSE eventType(q.status),
                                 !.details = DetailsWith(q, a)]
<1>1. Complete(q, a) = Done(p, b)
  BY DEF Complete
<1>2. DOMAIN p = Fields /\ p.op = q.op /\ p.earlier = q.earlier
  BY DEF Fields
<1>3. b.status = q.status /\ b.details = DetailsWith(q, a)
  BY DEF NoAnswer
<1>4. DetailsWith(q, a).view.run.status \in {q.status, "idle", "waiting_approval"}
  BY DEF DetailsWith, buildDetailSnapshotWithRun, Snapshot, RunOverride, runFromWaitStatus,
         idleRun, WaitingRun, Run
<1> HIDE DEF p, b
<1>5. LET r == Done(p, b) IN
        r.at = "done" /\ r.op = p.op /\ r.earlier = p.earlier /\ r.answer = b
  BY <1>2 DEF Done, Fields
<1> QED
  BY <1>1, <1>2, <1>3, <1>4, <1>5

\* The details at the end of a wait leave its status as it was.
LEMMA RunRefreshes ==
  ASSUME CallsPlaced, NEW c \in Calls, Refresh(c)
  PROVE  RunMove(c)
<1>0. DOMAIN call[c] = Fields /\ call[c].at \in Knowing
  BY DEF CallsPlaced, Placed, Refresh, RefreshRow, RefreshApprovals, At, Knowing
<1>1. ASSUME NEW x, Becomes(c, [call[c] EXCEPT !.row = x, !.at = "detailExec"])
      PROVE  RunMove(c)
  <2> DEFINE q == [call[c] EXCEPT !.row = x, !.at = "detailExec"]
  <2>1. /\ q.op = call[c].op /\ q.earlier = call[c].earlier /\ q.status = call[c].status
        /\ q.at \in Knowing
    BY <1>0 DEF Fields, Knowing
  <2> QED
    BY <1>0, <1>1, <2>1 DEF RunMove, RunOutcome
<1>2. ASSUME NEW q, NEW a, DOMAIN q = Fields, q.op = call[c].op,
             q.earlier = call[c].earlier, q.status = call[c].status,
             Becomes(c, Complete(q, a))
      PROVE  RunMove(c)
  <2> DEFINE r == Complete(q, a)
  <2>1. /\ r.at = "done" /\ r.op = call[c].op /\ r.earlier = call[c].earlier
        /\ r.answer.status = call[c].status
        /\ r.answer.details.view.run.status \in {call[c].status, "idle", "waiting_approval"}
    BY <1>2, CompleteAnswers
  <2> QED
    BY <1>0, <1>2, <2>1 DEF RunMove, RunOutcome
<1>3. \A f : LET q == [call[c] EXCEPT !.listFailed = f] IN
               /\ DOMAIN q = Fields /\ q.op = call[c].op /\ q.earlier = call[c].earlier
               /\ q.status = call[c].status
  BY <1>0 DEF Fields
<1>4. ASSUME NEW f, Becomes(c, [[call[c] EXCEPT !.listFailed = f] EXCEPT !.at = "detailPlugin"])
      PROVE  RunMove(c)
  <2> DEFINE q == [[call[c] EXCEPT !.listFailed = f] EXCEPT !.at = "detailPlugin"]
  <2>1. /\ q.op = call[c].op /\ q.earlier = call[c].earlier /\ q.status = call[c].status
        /\ q.at \in Knowing
    BY <1>0 DEF Fields, Knowing
  <2> QED
    BY <1>0, <1>4, <2>1 DEF RunMove, RunOutcome
<1>5. ASSUME NEW kind, FindApproval(c, kind)
      PROVE  RunMove(c)
  <2>1. CASE \E a \in Pending(kind) : Becomes(c, Complete(call[c], a))
    BY <1>0, <1>2, <2>1
  <2>2. CASE \E f : Becomes(c, LET r == [call[c] EXCEPT !.listFailed = f] IN
                              IF kind = "exec" THEN [r EXCEPT !.at = "detailPlugin"]
                              ELSE Complete(r, None))
    BY <1>2, <1>3, <1>4, <2>2
  <2> QED
    BY <1>5, <2>1, <2>2 DEF FindApproval
<1> QED
  BY <1>1, <1>5 DEF Refresh, RefreshRow, RefreshApprovals

\* Every step of a call about a run.
LEMMA RunCallMoves ==
  ASSUME CallsPlaced, NEW c \in Calls, AboutRun(c), CallStep(c)
  PROVE  RunMove(c)
<1>0. Placed(call[c]) /\ DOMAIN call[c] = Fields
  BY DEF CallsPlaced, Placed
<1>1. CASE DialFails(c) \/ RunDialed(c)
  BY <1>1, RunFails, RunGoes DEF DialFails, RunDialed, AboutRun, Knowing
<1>2. CASE WaitForRun(c)
  <2>1. ASSUME NEW s, ReportOf(RunOf(c), s),
               Becomes(c, EnterRefresh([call[c] EXCEPT !.status = s]))
        PROVE  RunMove(c)
    <3> DEFINE q == [call[c] EXCEPT !.status = s]
               r == EnterRefresh(q)
    <3>1. DOMAIN q = Fields /\ q.op = call[c].op /\ q.earlier = call[c].earlier /\ q.status = s
      BY <1>0 DEF Fields
    <3>2. /\ r.op = call[c].op /\ r.earlier = call[c].earlier /\ r.status = s
          /\ r.at \in Knowing
      BY <3>1 DEF EnterRefresh, Fields, Knowing
    <3> QED
      BY <2>1, <3>2 DEF RunMove, RunOutcome
  <2> QED
    BY <1>2, <2>1, RunFails, NativeReports DEF WaitForRun
<1>3. CASE AskRun(c)
  <2>1. ASSUME NEW s, ReportOf(RunOf(c), s),
               Becomes(c, [call[c] EXCEPT !.status = s, !.at = "statusRow"])
        PROVE  RunMove(c)
    <3> DEFINE q == [call[c] EXCEPT !.status = s, !.at = "statusRow"]
    <3>1. /\ q.op = call[c].op /\ q.earlier = call[c].earlier /\ q.status = s
          /\ q.at \in Knowing
      BY <1>0 DEF Fields, Knowing
    <3> QED
      BY <2>1, <3>1 DEF RunMove, RunOutcome
  <2> QED
    BY <1>3, <2>1, RunFails, NativeReports DEF AskRun
<1>4. CASE StatusRow(c)
  <2> DEFINE a == [NoAnswer EXCEPT !.ok = TRUE, !.status = call[c].status]
             q == Done(call[c], a)
  <2>1. Becomes(c, q) /\ call[c].at \in Knowing
    BY <1>4 DEF StatusRow, AboutRun, At, Knowing
  <2>2. a.status = call[c].status /\ a.details = None
    BY DEF NoAnswer
  <2>3. q.op = call[c].op /\ q.earlier = call[c].earlier /\ q.at = "done" /\ q.answer = a
    BY <1>0 DEF Done, Fields
  <2> QED
    BY <2>1, <2>2, <2>3 DEF RunMove, RunOutcome
<1>5. CASE Refresh(c)
  BY <1>5, RunRefreshes
<1>6. ~ControlStep(c) /\ ~ResolveStep(c) /\ ~DeliveryStep(c) /\ ~Interrupt(c)
  BY <1>0 DEF ControlStep, ControlDialed, ReadRow, CheckTarget, ChangeSession, ResolveStep,
              ResolveDialed, ResolveApproval, DeliveryStep, DeliveryDialed, CreateSession,
              SendDialed, ReadAttachments, SendMessage, VerifyVisibility, Interrupt, At,
              Placed, AboutRun, IsRunCall
<1> QED
  BY <1>1, <1>2, <1>3, <1>4, <1>5, <1>6 DEF CallStep, RunStep
-----------------------------------------------------------------------------
\* An ended run stays as it ended.
EndsStay == \A r \in Runs : Ended(r) => run'[r] = run[r]

\* No request moves a run that has ended.
LEMMA PerformKeepsEnds ==
  ASSUME GatewayTypes, NEW q, Perform(q)
  PROVE  EndsStay
BY DEF GatewayTypes, Perform, EndsStay, Ended, Active

\* No step moves a run that has ended.
LEMMA EndsAreKept ==
  ASSUME Inv, [Next]_vars
  PROVE  EndsStay
<1> USE DEF EndsStay
<1>1. CASE run' = run
  BY <1>1
<1>2. CASE \E q : Perform(q)
  BY <1>2, PerformKeepsEnds DEF Inv
<1>3. ASSUME NEW c \in Calls, Begin(c) \/ Hang(c) \/ CallStep(c)
      PROVE  EndsStay
  <2>1. PICK r : Outcome(c, r)
    BY <1>3, BeginMoves, HangMoves, CallMoves DEF StepOf, Inv
  <2> QED
    BY <1>1, <1>2, <2>1 DEF Outcome, Requested, Answered, GivenUp, gatewayVars
<1>4. CASE GatewayStep
  <2>1. ASSUME NEW r \in PeerRuns, PeerStartsRun(r)
        PROVE  EndsStay
    BY <2>1 DEF PeerStartsRun, Ended, Inv, GatewayTypes
  <2>2. ASSUME NEW r \in Runs, RunEnds(r)
        PROVE  EndsStay
    BY <2>2 DEF RunEnds, Ended, Inv, GatewayTypes
  <2> QED
    BY <1>1, <1>2, <1>4, <2>1, <2>2
       DEF GatewayStep, PeerSwitchesModel, CatalogueChanges, RequestApproval, PeerResolves,
           PerformLate
<1> QED
  BY <1>1, <1>3, <1>4 DEF Next, Proceed, vars, gatewayVars

\* Status s is no lie about run r, with `runs` as they are.
RealStatus(runs, s, r) ==
  /\ s = "completed" => runs[r] = "ok"
  /\ s = "failed" => runs[r] \in {"error", "aborted"}

\* What calls know and tell of their runs is so.
KnownTrue ==
  \A c \in Calls : AboutRun(c) =>
    /\ call[c].at \in Knowing => RealStatus(run, call[c].status, RunOf(c))
    /\ Returned(c) /\ call[c].answer.ok =>
         /\ RealStatus(run, call[c].answer.status, RunOf(c))
         /\ call[c].answer.details # None =>
              RealStatus(run, call[c].answer.details.view.run.status, RunOf(c))

ToldEnd(d) ==
  /\ AboutRun(d) /\ Returned(d) /\ call[d].answer.ok
  /\ call[d].answer.status \in {"completed", "failed"}

\* A call made after another one told of the end of its run knows that end.
LaterAgrees ==
  \A c \in Calls : AboutRun(c) =>
    \A d \in call[c].earlier :
      /\ d \in Calls /\ Returned(d)
      /\ ToldEnd(d) /\ RunOf(d) = RunOf(c) =>
           /\ call[c].at \in Knowing => call[c].status = call[d].answer.status
           /\ Returned(c) /\ call[c].answer.ok =>
                call[c].answer.status = call[d].answer.status

RInv == IInv /\ KnownTrue /\ LaterAgrees
-----------------------------------------------------------------------------
\* Reports are real, and a report of a run that was said to have ended says
\* the same.
LEMMA ReportsAreReal ==
  ASSUME GatewayTypes, NEW r \in Runs, NEW s, ReportOf(r, s)
  PROVE  /\ RealStatus(run, s, r)
         /\ \A t \in {"completed", "failed"} : RealStatus(run, t, r) => s = t
BY DEF GatewayTypes, ReportOf, RealStatus, Ended, normalizeWaitStatus

\* What a run was rightly said to have become stays right.
LEMMA RealStays ==
  ASSUME EndsStay, NEW r \in Runs, NEW s, RealStatus(run, s, r)
  PROVE  RealStatus(run', s, r)
BY DEF EndsStay, RealStatus, Ended

\* A wait or a status read that is under way names a run.
LEMMA AboutRuns ==
  ASSUME CallsPlaced, NEW c \in Calls, AboutRun(c)
  PROVE  RunOf(c) \in Runs
<1>1. call[c].op \in Operations /\ call[c].op.kind \in {"wait", "status"}
  BY DEF CallsPlaced, Placed, AboutRun, IsRunCall
<1> QED
  BY <1>1, OperationsAssumption DEF AboutRun, RunOf

\* A step of call c keeps what is known about the calls.
LEMMA StepKeepsKnown ==
  ASSUME RInv, [Next]_vars, NEW c \in Calls, Begin(c) \/ Hang(c) \/ CallStep(c)
  PROVE  KnownTrue' /\ LaterAgrees'
<1>1. PICK q : /\ Becomes(c, q) /\ q.op = call[c].op
               /\ AboutRun(c) =>
                    \/ q.earlier = call[c].earlier /\ RunOutcome(c, q)
                    \/ /\ q.at = "dialing"
                       /\ q.earlier = {d \in Calls : Returned(d)}
  <2>1. DOMAIN call[c] = Fields
    BY DEF RInv, IInv, Inv, CallsPlaced, Placed
  <2>2. CASE Begin(c)
    <3> DEFINE q == [call[c] EXCEPT !.at = "dialing", !.since = Cardinality(DOMAIN offers),
                                    !.earlier = {d \in Calls : Returned(d)},
                                    !.blocking = PendingNow]
    <3>1. q.op = call[c].op /\ q.at = "dialing" /\ q.earlier = {d \in Calls : Returned(d)}
      BY <2>1 DEF Fields
    <3> QED
      BY <2>2, <3>1 DEF Begin
  <2>3. CASE CallStep(c) /\ AboutRun(c)
    BY <2>3, RunCallMoves DEF RInv, IInv, Inv, RunMove
  <2>4. CASE CallStep(c) /\ ~AboutRun(c)
    BY <2>4, CallMoves DEF RInv, IInv, Inv, StepOf, Moves
  <2>5. CASE Hang(c)
    <3> DEFINE q == [call[c] EXCEPT !.at = "hanging"]
    <3>1. q.op = call[c].op /\ q.earlier = call[c].earlier /\ q.at = "hanging"
      BY <2>1 DEF Fields
    <3> QED
      BY <2>5, <3>1 DEF Hang, Goto, RunOutcome, Knowing
  <2> QED
    BY <2>2, <2>3, <2>4, <2>5
<1>2. /\ call'[c] = q
      /\ \A d \in Calls \ {c} : call'[d] = call[d]
  BY <1>1 DEF Becomes, RInv, IInv, Inv, CallsPlaced
<1>3. EndsStay /\ GatewayTypes /\ CallsPlaced
  BY EndsAreKept DEF RInv, IInv, Inv
<1>4. ~Returned(c)
  BY ReturnedStays
<1>5. \A d \in Calls : RunOf(d)' = RunOf(d) /\ (AboutRun(d)' <=> AboutRun(d))
  BY <1>1, <1>2 DEF RunOf, AboutRun, IsRunCall
<1>6. KnownTrue'
  <2> SUFFICES ASSUME NEW d \in Calls, AboutRun(d)
               PROVE  /\ call'[d].at \in Knowing =>
                           RealStatus(run', call'[d].status, RunOf(d))
                      /\ call'[d].at = "done" /\ call'[d].answer.ok =>
                           /\ RealStatus(run', call'[d].answer.status, RunOf(d))
                           /\ call'[d].answer.details # None =>
                                RealStatus(run', call'[d].answer.details.view.run.status,
                                           RunOf(d))
    BY <1>5 DEF KnownTrue, Returned, At
  <2>0. PICK r \in Runs : r = RunOf(d)
    BY <1>3, AboutRuns
  <2>1. \A s : RealStatus(run, s, r) => RealStatus(run', s, r)
    BY <1>3, RealStays
  <2>2. CASE d # c
    BY <1>2, <2>0, <2>1, <2>2 DEF RInv, KnownTrue, Returned, At
  <2>3. CASE d = c
    <3>1. CASE q.at = "dialing" \/ q.at \notin Knowing \cup {"done"}
      BY <1>2, <2>3, <3>1 DEF Knowing
    <3>2. CASE q.at = "done" /\ ~q.answer.ok
      BY <1>2, <2>3, <3>2 DEF Knowing
    <3>3. CASE q.at \in Knowing /\ ReportOf(RunOf(c), q.status)
      BY <1>2, <1>3, <2>0, <2>1, <2>3, <3>3, ReportsAreReal DEF Knowing
    <3>4. ASSUME call[c].at \in Knowing
          PROVE  RealStatus(run', call[c].status, r)
      BY <2>0, <2>1, <2>3, <3>4 DEF RInv, KnownTrue
    <3>5. CASE call[c].at \in Knowing /\ q.at \in Knowing /\ q.status = call[c].status
      BY <1>2, <2>0, <2>3, <3>4, <3>5 DEF Knowing
    <3>6. CASE /\ call[c].at \in Knowing /\ q.at = "done"
               /\ q.answer.status = call[c].status
               /\ \/ q.answer.details = None
                  \/ q.answer.details.view.run.status \in
                       {call[c].status, "idle", "waiting_approval"}
      <4>1. RealStatus(run', "idle", r) /\ RealStatus(run', "waiting_approval", r)
        BY DEF RealStatus
      <4> QED
        BY <1>2, <2>0, <2>3, <3>4, <3>6, <4>1 DEF Knowing
    <3> QED
      BY <1>1, <2>3, <3>1, <3>2, <3>3, <3>5, <3>6 DEF RunOutcome
  <2> QED
    BY <2>2, <2>3
<1>7. LaterAgrees'
  <2> SUFFICES ASSUME NEW b \in Calls, AboutRun(b), NEW d \in call'[b].earlier
               PROVE  /\ d \in Calls /\ call'[d].at = "done"
                      /\ ToldEnd(d)' /\ RunOf(d)' = RunOf(b) =>
                           /\ call'[b].at \in Knowing =>
                                call'[b].status = call'[d].answer.status
                           /\ call'[b].at = "done" /\ call'[b].answer.ok =>
                                call'[b].answer.status = call'[d].answer.status
    BY <1>5 DEF LaterAgrees, Returned, At
  <2>1. CASE b # c
    <3>1. d \in Calls /\ Returned(d) /\ d # c
      BY <1>2, <1>4, <2>1 DEF RInv, LaterAgrees
    <3> QED
      BY <1>2, <1>5, <2>1, <3>1 DEF RInv, LaterAgrees, Returned, At, ToldEnd
  <2>2. CASE b = c
    <3>1. CASE q.at = "dialing" /\ q.earlier = {e \in Calls : Returned(e)}
      BY <1>2, <1>4, <2>2, <3>1 DEF Knowing, Returned, At
    <3>2. CASE q.earlier = call[c].earlier /\ RunOutcome(c, q)
      <4>1. d \in Calls /\ Returned(d) /\ d # c
        BY <1>2, <1>4, <2>2, <3>2 DEF RInv, LaterAgrees
      <4>2. SUFFICES ASSUME ToldEnd(d), RunOf(d) = RunOf(c)
                     PROVE  /\ q.at \in Knowing => q.status = call[d].answer.status
                            /\ q.at = "done" /\ q.answer.ok =>
                                 q.answer.status = call[d].answer.status
        BY <1>2, <1>5, <2>2, <4>1 DEF ToldEnd, Returned, At
      <4>3. PICK r \in Runs : r = RunOf(c)
        BY <1>3, <2>2, AboutRuns
      <4>4. RealStatus(run, call[d].answer.status, r)
        BY <4>1, <4>2, <4>3 DEF ToldEnd, RInv, KnownTrue
      <4>5. CASE q.at \in Knowing /\ ReportOf(RunOf(c), q.status)
        <5>1. \A t \in {"completed", "failed"} : RealStatus(run, t, r) => q.status = t
          BY <1>3, <4>3, <4>5, ReportsAreReal
        <5> QED
          BY <4>2, <4>4, <4>5, <5>1 DEF ToldEnd, Knowing
      <4>6. call[c].at \in Knowing => call[c].status = call[d].answer.status
        BY <1>2, <2>2, <3>2, <4>1, <4>2 DEF RInv, LaterAgrees
      <4> QED
        BY <3>2, <4>5, <4>6 DEF RunOutcome, Knowing
    <3> QED
      BY <1>1, <2>2, <3>1, <3>2
  <2> QED
    BY <2>1, <2>2
<1> QED
  BY <1>6, <1>7

\* The invariant over every step.
LEMMA RInvKept ==
  ASSUME RInv, [Next]_vars
  PROVE  RInv'
<1>1. IInv'
  BY InvKept DEF RInv
<1>2. CASE \E c \in Calls : Begin(c) \/ Hang(c) \/ CallStep(c)
  BY <1>1, <1>2, StepKeepsKnown DEF RInv
<1>3. CASE UNCHANGED call
  <2>1. EndsStay /\ GatewayTypes /\ CallsPlaced
    BY EndsAreKept DEF RInv, IInv, Inv
  <2>2. \A d \in Calls : RunOf(d)' = RunOf(d) /\ (AboutRun(d)' <=> AboutRun(d))
    BY <1>3 DEF RunOf, AboutRun, IsRunCall
  <2>3. \A c \in Calls : AboutRun(c) =>
          \A s : RealStatus(run, s, RunOf(c)) => RealStatus(run', s, RunOf(c))
    <3> SUFFICES ASSUME NEW c \in Calls, AboutRun(c), NEW s, RealStatus(run, s, RunOf(c))
                 PROVE  RealStatus(run', s, RunOf(c))
      OBVIOUS
    <3>1. PICK r \in Runs : r = RunOf(c)
      BY <2>1, AboutRuns
    <3> QED
      BY <2>1, <3>1, RealStays
  <2>4. KnownTrue'
    BY <1>3, <2>2, <2>3 DEF RInv, KnownTrue, Returned, At
  <2>5. LaterAgrees'
    BY <1>3, <2>2 DEF RInv, LaterAgrees, Returned, At, ToldEnd
  <2> QED
    BY <1>1, <2>4, <2>5 DEF RInv
<1> QED
  BY <1>2, <1>3 DEF Next, Proceed, vars, callVars

\* What waits and status reads keep of runs is so, for any number of calls.
THEOREM KnownRuns == Spec => []RInv
<1>1. Init => RInv
  <2> SUFFICES ASSUME Init PROVE RInv
    OBVIOUS
  <2>1. \A c \in Calls : call[c].at = "off" /\ call[c].earlier = {}
    BY DEF Init, CallInit, Unmade
  <2> QED
    BY <2>1, Initially DEF RInv, KnownTrue, LaterAgrees, Returned, At, Knowing
<1>2. RInv /\ [Next]_vars => RInv'
  BY RInvKept
<1> QED
  BY <1>1, <1>2, PTL DEF Spec

\* WaitForRun and ReadStatus (discovery.go): no run is told to have completed
\* or failed that did not end that way.
THEOREM EndsReal == Spec => []EndsAreReal
<1>1. RInv => EndsAreReal
  <2> SUFFICES ASSUME RInv, NEW c \in Calls, TellsRun(c)
               PROVE  /\ "completed" \in Told(c) => run[RunOf(c)] = "ok"
                      /\ "failed" \in Told(c) => run[RunOf(c)] \in {"error", "aborted"}
    BY DEF EndsAreReal
  <2>1. AboutRun(c) /\ Returned(c) /\ call[c].answer.ok
    BY DEF TellsRun, AboutRun
  <2> QED
    BY <2>1 DEF RInv, KnownTrue, Told, RealStatus
<1> QED
  BY <1>1, KnownRuns, PTL

\* WaitForRun and ReadStatus (discovery.go): statuses told one call after the
\* other agree once one of them was an end.
THEOREM StatusAgrees == Spec => []StatusNeverReverts
<1>1. RInv => StatusNeverReverts
  <2> SUFFICES ASSUME RInv, NEW c \in Calls, NEW d \in Calls,
                      TellsRun(c), TellsRun(d), RunOf(c) = RunOf(d), d \in call[c].earlier,
                      call[d].answer.status \in {"completed", "failed"}
               PROVE  call[c].answer.status = call[d].answer.status
    BY DEF StatusNeverReverts
  <2>1. AboutRun(c) /\ Returned(c) /\ call[c].answer.ok /\ ToldEnd(d)
    BY DEF TellsRun, AboutRun, ToldEnd
  <2> QED
    BY <2>1 DEF RInv, LaterAgrees
<1> QED
  BY <1>1, KnownRuns, PTL
=============================================================================
