--------------------------- MODULE SessionControl ---------------------------
(***************************************************************************)
(* Adapter.ControlSession (openclaw/control.go): check the target against  *)
(* what the Gateway offers, change the session, read the detail snapshot   *)
(* back.  An operation is [kind, action, target].                          *)
(***************************************************************************)
EXTENDS AdapterCalls

\* "No target" is not a state that a pin request may name.
ASSUME TargetAssumption == None \notin BOOLEAN

IsControl(c, action) == call[c].op.kind = "control" /\ call[c].op.action = action

ControlActions ==
  {"conversation.select", "controls.describe", "model.switch", "reasoning.switch", "rename",
   "pin", "archive", "context.compact", "delete"}

NeedsTarget == {"model.switch", "reasoning.switch", "rename"}

\* What normalizeOptionTarget and boolTarget find in the target, which comes
\* as a string, a number, a boolean or an object: None is nothing.
HasOption(op) == op.target # None
IsExplicit(op) == op.target # None

\* The client is connected: where the switch over the action begins.
ControlDialed(c) ==
  /\ At(c, "dialing")
  /\ call[c].op.kind = "control"
  /\ LET op == call[c].op IN
     \/ /\ op.action \in {"conversation.select", "controls.describe"}
        /\ Becomes(c, EnterRefresh(call[c]))
     \/ op.action \in NeedsTarget /\ ~HasOption(op) /\ Fails(c)
     \/ op.action = "model.switch" /\ HasOption(op) /\ Goto(c, "listing")
     \/ op.action = "reasoning.switch" /\ HasOption(op) /\ Goto(c, "describing")
     \/ op.action = "pin" /\ ~IsExplicit(op) /\ Goto(c, "describing")
     \/ op.action = "pin" /\ IsExplicit(op) /\ Goto(c, "patching")
     \/ op.action = "rename" /\ HasOption(op) /\ Goto(c, "patching")
     \/ op.action \in {"context.compact", "archive", "delete"} /\ Goto(c, "patching")
     \/ op.action \notin ControlActions /\ Fails(c)
  /\ UNCHANGED gatewayVars

\* sessionDescribe before the change; a failure ends the call.
ReadRow(c) ==
  /\ At(c, "describing")
  /\ \/ Becomes(c, [call[c] EXCEPT !.row = Described,
                                   !.at = IF IsControl(c, "pin") THEN "patching" ELSE "listing"])
     \/ Fails(c)
  /\ UNCHANGED gatewayVars

\* As `Offered` below, but no level is refused when there is no catalogue.
OfferedUnread(c, models) ==
  IF IsControl(c, "model.switch") THEN ModelOptions(models)
  ELSE IF models = None THEN Levels
  ELSE ReasoningOptions(call[c].row, models)

\* What a target is checked against.  Without a catalogue no model is offered,
\* and the row's own levels are.
Offered(c, models) ==
  IF IsControl(c, "model.switch") THEN ModelOptions(models)
  ELSE ReasoningOptions(call[c].row, models)

\* modelsList, which may fail, and the check of the target.
CheckTarget(c) ==
  /\ At(c, "listing")
  /\ \E models \in {catalogue, None} :
       \/ /\ call[c].op.target \in Offered(c, models)
          /\ Becomes(c, [call[c] EXCEPT !.models = models, !.at = "patching"])
       \/ /\ call[c].op.target \notin Offered(c, models)
          /\ Fails(c)
  /\ UNCHANGED gatewayVars

PinInverted(r) == ~(r.row # None /\ r.row.pinned)

\* A pin without a target inverts what the row said; no row says unpinned.
PinTarget(r) ==
  IF IsExplicit(r.op) THEN r.op.target ELSE ~(r.row # None /\ r.row.pinned)

ChangeRequest(c) ==
  LET op == call[c].op IN
  CASE op.action = "model.switch" -> Patch(c, "model", op.target)
    [] op.action = "reasoning.switch" -> Patch(c, "level", op.target)
    [] op.action = "rename" -> Patch(c, "label", op.target)
    [] op.action = "pin" -> Patch(c, "pinned", PinTarget(call[c]))
    [] op.action = "archive" -> Patch(c, "archived", TRUE)
    [] op.action = "context.compact" -> Compact(c)
    [] op.action = "delete" -> DeleteSession(c)

\* The change is made; a deleted session has no details to refresh.
AfterChange(c) ==
  LET r == [call[c] EXCEPT !.mutated = TRUE, !.served = row.version + 1] IN
  IF IsControl(c, "delete")
    THEN Done(r, [NoAnswer EXCEPT !.ok = TRUE, !.confirmed = TRUE])
    ELSE EnterRefresh(r)

ChangeSession(c) ==
  /\ At(c, "patching")
  /\ Request(c, ChangeRequest(c), AfterChange(c))

ControlStep(c) ==
  \/ ControlDialed(c)
  \/ ReadRow(c)
  \/ CheckTarget(c)
  \/ ChangeSession(c)
-----------------------------------------------------------------------------
IsToggle(c) == IsControl(c, "pin") /\ call[c].op.target = None

IsCall(c, kind) == call[c].op.kind = kind

\* Row r, if there is one, shows the change that c made.
ShowsChange(r, c) ==
  r # None =>
    /\ r.version >= call[c].served
    /\ (r.version = call[c].served /\ ~IsToggle(c)) =>
         r[ChangeRequest(c).field] = ChangeRequest(c).value

\* A control call that reports a confirmed change has had it made by the
\* Gateway, and the row in its details was read afterwards: it shows the
\* change, unless the row has been changed again.  A row read for the check
\* of the target, and requests that fail half-way, never pass for it.
ConfirmationIsTrue ==
  \A c \in Calls :
    (IsCall(c, "control") /\ Returned(c) /\ call[c].answer.confirmed) =>
      /\ call[c].served > 0
      /\ (call[c].answer.details # None) => ShowsChange(call[c].answer.details.row, c)

\* The moments of the history since call c began, and what was in force at each.
During(c) == call[c].since .. Cardinality(DOMAIN offers)
ModelAt(i) == offers[i][1]
CatalogueAt(i) == offers[i][2]

SwitchesLevel(c) == IsCall(c, "control") /\ IsControl(c, "reasoning.switch")
ShowsRow(c) ==
  Returned(c) /\ call[c].answer.details # None /\ call[c].answer.details.row # None

\* Other clients switch the model and change the catalogue while a call checks
\* its target.  A model that is requested was in a catalogue at a moment of the
\* call.  A level that is requested was, at a moment of the call, among the
\* levels of the session's model then, and that model reasoned by a catalogue
\* at the same moment or later, unless the catalogue could not be read.  So a
\* confirmed level is one of the model shown in the details, unless the model
\* was switched during the call.
TargetWasOffered ==
  /\ \A c \in Calls : IsCall(c, "control") /\ IsControl(c, "model.switch") /\ At(c, "patching") =>
       \E i \in During(c) : call[c].op.target \in modelsToOptions(CatalogueAt(i))
  /\ \A c \in Calls : SwitchesLevel(c) /\ At(c, "patching") =>
       \E i, j \in During(c) :
         /\ i <= j
         /\ call[c].op.target \in LevelsOf[ModelAt(i)]
         /\ call[c].models = None \/ CatalogueAt(j)[ModelAt(i)].reasoning
  /\ \A c \in Calls :
       /\ SwitchesLevel(c) /\ ShowsRow(c) /\ call[c].answer.confirmed
       /\ \A i, j \in During(c) : ModelAt(i) = ModelAt(j)
       => call[c].op.target \in LevelsOf[call[c].answer.details.row.model]

PinCalls == {c \in Calls : IsCall(c, "control") /\ IsControl(c, "pin")}

\* Pin requests that name the same state can be repeated: once one of them is
\* confirmed the session stays in that state, whatever became of the others,
\* answers lost and requests performed late included.
ExplicitPinsConverge ==
  \A v \in BOOLEAN :
    (/\ \A c \in PinCalls : call[c].op.target = v
     /\ \E c \in PinCalls : Returned(c) /\ call[c].answer.confirmed)
    => row.pinned = v

\* The details of a call show a session blocked when an approval was pending
\* from the beginning of the call to its end and no list request failed,
\* whatever was resolved or requested in between.
DetailsBlockOnPending ==
  \A c \in Calls :
    /\ Returned(c)
    /\ call[c].answer.details # None
    /\ call[c].blocking # {} /\ ~call[c].listFailed
    => call[c].answer.details.view.run = WaitingRun
=============================================================================
