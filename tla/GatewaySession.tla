--------------------------- MODULE GatewaySession ---------------------------
(***************************************************************************)
(* The OpenClaw Gateway as the calls of the adapter use it, external to    *)
(* src/: one session's row, the model catalogue, the approvals and runs,   *)
(* and the sessions that first messages create.                            *)
(*                                                                         *)
(* A request that changes something is a record.  It is performed when it  *)
(* is answered, or, when its caller gave up on it, at any later time or    *)
(* never: `late` holds the requests whose callers are gone.                *)
(***************************************************************************)
EXTENDS Naturals, FiniteSets

CONSTANTS
  None,         \* no target, no run id, no message id
  Calls,        \* calls of the Hub to the adapter
  Models,
  InitialModel,
  Levels,       \* reasoning levels
  InitialLevel,
  LevelsOf,     \* LevelsOf[m]: the thinkingLevels of a row whose model is m
  Catalogues,   \* the answers models.list may give
  Approvals,
  KindOf,       \* KindOf[a] \in {"exec", "plugin"}
  Messages,     \* Prism message ids; they name the runs of their messages
  PeerRuns,     \* runs that other clients start in the session
  KeyOf,        \* KeyOf[m]: the session key a first message's id turns into
  Budgets       \* bound: how many steps of each kind happen without the adapter

Entry == [available : BOOLEAN, reasoning : BOOLEAN]

ASSUME CatalogueAssumption == Catalogues \subseteq [Models -> Entry] /\ InitialModel \in Models
ASSUME LevelsAssumption == LevelsOf \in [Models -> SUBSET Levels] /\ InitialLevel \in Levels
ASSUME ApprovalAssumption == KindOf \in [Approvals -> {"exec", "plugin"}]
ASSUME NoneAssumption ==
  None \notin Models \cup Levels \cup Approvals \cup Messages \cup PeerRuns \cup Calls
Kinds == {"model", "catalogue", "approval", "run"}

ASSUME BudgetsAssumption == Budgets \subseteq [Kinds -> Nat]

\* An idempotency key that a call makes up is no message id.
ASSUME IdsAssumption == Messages \cap Calls = {}

\* Distinct message ids turn into distinct session keys.
ASSUME KeyAssumption == \A m, n \in Messages : KeyOf[m] = KeyOf[n] => m = n

Decisions == {"allow-once", "allow-always", "deny"}

VARIABLES
  row,         \* the session's row; `version` counts its changes
  catalogue,
  approval,    \* "unborn", "pending" or the decision, by approval
  run,         \* "unborn", "running", "ok", "error" or "aborted", by run
  created,     \* session keys that sessions.create made
  sent,        \* <<session key, idempotency key, text>> of the messages taken in
  late,        \* requests given up by their callers and not performed yet
  budget       \* steps that others may still take, by kind

gatewayVars == <<row, catalogue, approval, run, created, sent, late, budget>>

Runs == Messages \cup PeerRuns

GatewayInit ==
  /\ row \in [model : {InitialModel}, level : {InitialLevel}, pinned : {FALSE}, label : {"old"},
              archived : {FALSE}, compacted : {FALSE}, exists : {TRUE}, version : {0}]
  /\ catalogue \in Catalogues
  /\ approval = [a \in Approvals |-> "unborn"]
  /\ run = [r \in Runs |-> "unborn"]
  /\ created = {}
  /\ sent = {}
  /\ late = {}
  /\ budget \in Budgets

Active == {r \in Runs : run[r] = "running"}
Pending(kind) == {a \in Approvals : approval[a] = "pending" /\ KindOf[a] = kind}

\* Requests; `by` is the call that makes it.
Patch(c, field, value) ==
  [method |-> "sessions.patch", by |-> c, field |-> field, value |-> value]
DeleteSession(c) == Patch(c, "exists", FALSE)
Compact(c) == Patch(c, "compacted", TRUE)
Abort(c, r) == [method |-> "chat.abort", by |-> c, run |-> r]
Resolve(c, a, kind, d) ==
  [method |-> "approval.resolve", by |-> c, approval |-> a, kind |-> kind, decision |-> d]
Create(c, key) == [method |-> "sessions.create", by |-> c, key |-> key]
ChatSend(c, key, id, text) ==
  [method |-> "chat.send", by |-> c, key |-> key, id |-> id, text |-> text]

\* A model that does not reason takes no level, a deleted session no patch,
\* and an approval one decision, by its own resolver.
Accepts(q) ==
  CASE q.method = "sessions.patch" ->
         row.exists /\ (q.field = "level" => catalogue[row.model].reasoning)
    [] q.method = "approval.resolve" ->
         approval[q.approval] = "pending" /\ KindOf[q.approval] = q.kind
    [] q.method = "chat.send" -> q.key \in created \cup {"main"}
    [] OTHER -> TRUE

\* What performing q does.  A message whose idempotency key the session has
\* seen is not taken in again.
Perform(q) ==
  \/ /\ q.method = "sessions.patch"
     /\ row' = [row EXCEPT ![q.field] = q.value, !.version = @ + 1]
     /\ UNCHANGED <<approval, run, created, sent>>
  \/ /\ q.method = "chat.abort"
     /\ run' = [r \in Runs |->
                  IF r \in Active /\ q.run \in {r, None} THEN "aborted" ELSE run[r]]
     /\ UNCHANGED <<row, approval, created, sent>>
  \/ /\ q.method = "approval.resolve"
     /\ approval' = [approval EXCEPT ![q.approval] = q.decision]
     /\ UNCHANGED <<row, run, created, sent>>
  \/ /\ q.method = "sessions.create"
     /\ created' = created \cup {q.key}
     /\ UNCHANGED <<row, approval, run, sent>>
  \/ /\ q.method = "chat.send"
     /\ sent' = IF \E s \in sent : s[1] = q.key /\ s[2] = q.id THEN sent
                ELSE sent \cup {<<q.key, q.id, q.text>>}
     /\ run' = IF q.id \in Runs /\ run[q.id] = "unborn"
               THEN [run EXCEPT ![q.id] = "running"] ELSE run
     /\ UNCHANGED <<row, approval, created>>

\* A request whose caller is gone reaches the Gateway after all.
PerformLate ==
  \E q \in late :
    /\ late' = late \ {q}
    /\ \/ Accepts(q) /\ Perform(q)
       \/ ~Accepts(q) /\ UNCHANGED <<row, approval, run, created, sent>>
    /\ UNCHANGED <<catalogue, budget>>
-----------------------------------------------------------------------------
(* What happens without the adapter.                                       *)

Spontaneous(kind) ==
  /\ budget[kind] > 0
  /\ budget' = [budget EXCEPT ![kind] = @ - 1]

\* Another client of the Gateway switches the model.
PeerSwitchesModel(m) ==
  /\ Spontaneous("model")
  /\ row.exists
  /\ row' = [row EXCEPT !.model = m, !.version = @ + 1]
  /\ UNCHANGED <<catalogue, approval, run, created, sent, late>>

CatalogueChanges ==
  /\ Spontaneous("catalogue")
  /\ catalogue' \in Catalogues \ {catalogue}
  /\ UNCHANGED <<row, approval, run, created, sent, late>>

RequestApproval(a) ==
  /\ Spontaneous("approval")
  /\ approval[a] = "unborn"
  /\ approval' = [approval EXCEPT ![a] = "pending"]
  /\ UNCHANGED <<row, catalogue, run, created, sent, late>>

PeerResolves(a) ==
  /\ Spontaneous("approval")
  /\ approval[a] = "pending"
  /\ approval' = [approval EXCEPT ![a] = "byPeer"]
  /\ UNCHANGED <<row, catalogue, run, created, sent, late>>

\* A run started by another client.
PeerStartsRun(r) ==
  /\ Spontaneous("run")
  /\ run[r] = "unborn"
  /\ run' = [run EXCEPT ![r] = "running"]
  /\ UNCHANGED <<row, catalogue, approval, created, sent, late>>

RunEnds(r) ==
  /\ Spontaneous("run")
  /\ run[r] = "running"
  /\ \E how \in {"ok", "error"} : run' = [run EXCEPT ![r] = how]
  /\ UNCHANGED <<row, catalogue, approval, created, sent, late>>

GatewayStep ==
  \/ \E m \in Models : PeerSwitchesModel(m)
  \/ CatalogueChanges
  \/ \E a \in Approvals : RequestApproval(a) \/ PeerResolves(a)
  \/ \E r \in PeerRuns : PeerStartsRun(r)
  \/ \E r \in Runs : RunEnds(r)
  \/ PerformLate
=============================================================================
