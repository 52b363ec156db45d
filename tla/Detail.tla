------------------------------- MODULE Detail -------------------------------
(***************************************************************************)
(* How openclaw/detail.go turns what is known of a run into the run object *)
(* of a detail snapshot, and how discovery.go turns the same agent event   *)
(* into a plugin event.  A phase is the lower-case string of data.phase;   *)
(* text, previews and option labels are abstracted.                        *)
(***************************************************************************)

CONSTANT None   \* no approval, no snapshot, no session

Run(status, interruptible, primary) ==
  [status |-> status, interruptible |-> interruptible, primary |-> primary]

idleRun == Run("idle", FALSE, "send")

\* The run object of a session blocked on an approval.
WaitingRun == Run("waiting_approval", TRUE, "interrupt")

runFromAgentEvent(phase) ==
  IF phase \in {"started", "running"} THEN Run("running", TRUE, "interrupt")
  ELSE IF phase \in {"ended", "completed", "complete", "success"}
    THEN Run("completed", FALSE, "send")
  ELSE IF phase \in {"failed", "error", "aborted", "cancelled", "canceled"}
    THEN Run("failed", FALSE, "send")
  ELSE idleRun

\* The status of the plugin event of an agent event; a phase the switch does
\* not list is a run in progress.
convertAgentLifecycleEvent(phase) ==
  IF phase \in {"end", "ended", "completed", "complete", "success"} THEN "completed"
  ELSE IF phase \in {"failed", "error", "aborted", "cancelled", "canceled"} THEN "failed"
  ELSE "running"

normalizeWithoutAborts(native) ==
  IF native \in {"failed", "failure", "error", "errored"} THEN "failed"
  ELSE IF native = "timeout" THEN native
  ELSE "completed"

\* The end agent.wait reports: a status it does not know is kept as it is.
normalizeWaitStatus(native) ==
  IF native \in {"ok", "success", "completed", "complete", "done", ""} THEN "completed"
  ELSE IF native \in {"failed", "failure", "error", "errored", "aborted", "cancelled", "canceled"}
    THEN "failed"
  ELSE native

runFromWaitStatus(status) == Run(status, FALSE, "send")

isControlsLocked(run) == run.status \in {"running", "waiting", "waiting_approval"}

\* buildDetailSnapshotWithRun: a pending approval of the session found in the
\* lists takes the place of the run the caller supplied.  The approval the
\* run names, if any, is `blockedOn`; model and reasoning switches are
\* offered as available unless `locked`.
Snapshot(run, blockedOn) ==
  [run |-> run, blockedOn |-> blockedOn, locked |-> isControlsLocked(run)]

OverrideWins(override, overrideApproval, pending) ==
  IF override # idleRun THEN Snapshot(override, overrideApproval)
  ELSE Snapshot(WaitingRun, pending)

buildDetailSnapshotWithRun(override, overrideApproval, pending) ==
  IF pending = None THEN Snapshot(override, overrideApproval)
  ELSE Snapshot(WaitingRun, pending)
=============================================================================
