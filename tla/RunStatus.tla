----------------------------- MODULE RunStatus -----------------------------
(***************************************************************************)
(* Adapter.WaitForRun, ReadStatus and Interrupt (openclaw/discovery.go).   *)
(* An operation is [kind, run]; the run is None when the Hub names none.   *)
(***************************************************************************)
EXTENDS AdapterCalls

RunOf(c) == call[c].op.run
IsRunCall(c, kind) == call[c].op.kind = kind
Ended(r) == run[r] \in {"ok", "error", "aborted"}

\* The client is connected.  WaitForRun without a run id has failed before.
RunDialed(c) ==
  /\ At(c, "dialing")
  /\ \/ IsRunCall(c, "wait") /\ RunOf(c) = None /\ Fails(c)
     \/ IsRunCall(c, "wait") /\ RunOf(c) # None /\ Goto(c, "waiting")
     \/ IsRunCall(c, "status") /\ RunOf(c) = None /\ Goto(c, "statusRow")
     \/ IsRunCall(c, "status") /\ RunOf(c) # None /\ Goto(c, "asking")
     \/ IsRunCall(c, "interrupt") /\ Goto(c, "aborting")
  /\ UNCHANGED gatewayVars

WaitUntilEnded(c) ==
  /\ At(c, "waiting")
  /\ Ended(RunOf(c))
  /\ Becomes(c, EnterRefresh([call[c] EXCEPT !.status = normalizeWaitStatus(run[RunOf(c)])]))
  /\ UNCHANGED gatewayVars

\* agent.wait answers with the end of the run, or with "timeout" once its
\* timeoutMs have passed; WaitForRun then reads the detail snapshot.  It fails
\* when the client's own timer, the context or the connection ends it first.
WaitForRun(c) ==
  /\ At(c, "waiting")
  /\ \/ \E native \in IF Ended(RunOf(c)) THEN {run[RunOf(c)]} ELSE {"timeout"} :
          Becomes(c, EnterRefresh([call[c] EXCEPT !.status = normalizeWaitStatus(native)]))
     \/ Fails(c)
  /\ UNCHANGED gatewayVars

TimeoutIsFailure(native) ==
  IF native = "timeout" THEN "failed" ELSE normalizeWaitStatus(native)

\* agent.wait with timeoutMs 0 answers at once; "timeout" then means that the
\* run goes on.  Without an answer ReadStatus fails.
ReadStatusOf(native) ==
  IF native = "timeout" THEN "running" ELSE normalizeWaitStatus(native)

AskRun(c) ==
  /\ At(c, "asking")
  /\ \/ \E native \in IF Ended(RunOf(c)) THEN {run[RunOf(c)]} ELSE {"timeout"} :
          Becomes(c, [call[c] EXCEPT !.status = ReadStatusOf(native), !.at = "statusRow"])
     \/ Fails(c)
  /\ UNCHANGED gatewayVars

\* sessionDescribe tells whether the session is active when no run was named;
\* a failure leaves the status "idle".
StatusRow(c) ==
  /\ At(c, "statusRow")
  /\ \E r \in {Described, None} :
       LET active == RunOf(c) = None /\ r # None /\ Active # {}
           status == IF RunOf(c) # None THEN call[c].status
                     ELSE IF active THEN "running" ELSE "idle" IN
       Becomes(c, Done(call[c], [NoAnswer EXCEPT !.ok = TRUE, !.status = status]))
  /\ UNCHANGED gatewayVars

AbortCurrent(c) == Abort(c, None)
AbortRequest(c) == Abort(c, RunOf(c))

Interrupt(c) ==
  /\ At(c, "aborting")
  /\ Request(c, AbortRequest(c), Done(call[c], [NoAnswer EXCEPT !.ok = TRUE]))

RunStep(c) ==
  \/ RunDialed(c)
  \/ WaitForRun(c)
  \/ AskRun(c)
  \/ StatusRow(c)
  \/ Interrupt(c)
-----------------------------------------------------------------------------
TellsRun(c) ==
  /\ IsRunCall(c, "wait") \/ IsRunCall(c, "status")
  /\ Returned(c)
  /\ call[c].answer.ok
  /\ RunOf(c) # None

\* What a returned call says of its run: its status, and that of the run in
\* the snapshot that comes with it.
Told(c) ==
  {call[c].answer.status} \cup
    (IF call[c].answer.details = None THEN {} ELSE {call[c].answer.details.view.run.status})

\* A wait or a status read never tells the Hub that a run completed or failed
\* when it did not end that way: a run that is merely still going on when the
\* wait's timeout passes is neither, and an aborted one has not completed.
EndsAreReal ==
  \A c \in Calls : TellsRun(c) =>
    /\ "completed" \in Told(c) => run[RunOf(c)] = "ok"
    /\ "failed" \in Told(c) => run[RunOf(c)] \in {"error", "aborted"}

\* Once a call has told the Hub that a run ended, no call made after it says
\* that the run goes on or that it ended in another way.
StatusNeverReverts ==
  \A c, d \in Calls :
    /\ TellsRun(c) /\ TellsRun(d)
    /\ RunOf(c) = RunOf(d)
    /\ d \in call[c].earlier
    /\ call[d].answer.status \in {"completed", "failed"}
    => call[c].answer.status = call[d].answer.status

\* An interrupt that names a run aborts no other run, although it may be
\* performed when that run is over and another one has begun.
InterruptHitsNamedRun ==
  \A r \in Runs : run[r] = "aborted" =>
    \E c \in Calls : IsRunCall(c, "interrupt") /\ RunOf(c) \in {r, None}

\* A run.completed event of a wait means that the run has ended.
CompletionMeansEnd ==
  \A c \in Calls : TellsRun(c) /\ call[c].answer.type = "run.completed" => Ended(RunOf(c))
=============================================================================
