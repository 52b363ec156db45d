--------------------------- MODULE MCSessionCalls ---------------------------
(***************************************************************************)
(* A small instance of SessionCalls for TLC: two models, the second with   *)
(* one level less, and two catalogues, in one of which the second model is *)
(* withdrawn and in the other neither model reasons; an exec and a plugin  *)
(* approval, two message ids and one run of another client.                *)
(***************************************************************************)
EXTENDS SessionCalls

CONSTANTS c1, c2, m1, m2, low, high, exec1, plugin1, id1, id2, peer1, title

Reasoning == [available |-> TRUE, reasoning |-> TRUE]
Plain == [available |-> TRUE, reasoning |-> FALSE]
Withdrawn == [available |-> FALSE, reasoning |-> TRUE]

MCCatalogues ==
  {[m \in {m1, m2} |-> IF m = m1 THEN Reasoning ELSE Withdrawn], [m \in {m1, m2} |-> Plain]}
MCLevelsOf == [m \in {m1, m2} |-> IF m = m1 THEN {low, high} ELSE {low}]
MCKindOf == [a \in {exec1, plugin1} |-> IF a = exec1 THEN "exec" ELSE "plugin"]
MCKeyOf == [m \in {id1, id2} |-> IF m = id1 THEN "key1" ELSE "key2"]
MCAllowed == {"allow-once", "deny", "later"}

Control(action, target) == [kind |-> "control", action |-> action, target |-> target]
OnRun(kind, r) == [kind |-> kind, run |-> r]
Answer(a, choice) == [kind |-> "resolve", approval |-> a, choice |-> choice]
Message(kind, m) == [kind |-> kind, message |-> m]

\* What the two calls are for, and what the others do meanwhile.
Pair(op1, op2) == [c \in {c1, c2} |-> IF c = c1 THEN op1 ELSE op2]
Budget(model, list, answers, runs) ==
  [k \in Kinds |-> CASE k = "model" -> model [] k = "catalogue" -> list
                     [] k = "approval" -> answers [] k = "run" -> runs]

Pins == {Control("pin", t) : t \in {None, TRUE, FALSE}}
Switches == {Control("model.switch", m2), Control("reasoning.switch", high)}
Others == {Control(a, None) : a \in {"conversation.select", "controls.describe", "archive",
                                     "context.compact", "delete", "model.switch", "fork"}}
            \cup {Control("rename", title)}
Answers == {Answer(exec1, GatewayAction("exec", "deny")),
            Answer(plugin1, GatewayAction("plugin", "allow-once")),
            Answer(plugin1, BareAction("deny")), Answer(exec1, BareAction("later"))}
OnRuns == {OnRun("wait", peer1), OnRun("status", peer1), OnRun("interrupt", peer1),
           OnRun("interrupt", None), OnRun("wait", None), OnRun("status", None)}
Deliveries == {Message("start", id1), Message("send", id2), Message("send", None)}

MCOperations ==
  Pins \cup Switches \cup Others \cup Answers \cup OnRuns \cup Deliveries
    \cup {OnRun("wait", id1), OnRun("interrupt", id1)}

InScenarios(plans, b) == {[plan |-> p, budget |-> b] : p \in plans}

MCScenarios ==
  InScenarios({Pair(p, q) : p \in Pins, q \in Pins \cup Switches}, Budget(0, 0, 0, 0))
    \cup InScenarios({Pair(p, q) : p \in Switches, q \in Switches}, Budget(1, 1, 0, 0))
    \cup InScenarios({Pair(p, Control("pin", None)) : p \in Others}, Budget(0, 0, 0, 0))
    \cup InScenarios({Pair(p, Control("pin", TRUE)) : p \in Answers}, Budget(0, 0, 2, 0))
    \cup InScenarios({Pair(OnRun("wait", peer1), p) : p \in Answers}, Budget(0, 0, 1, 1))
    \cup InScenarios({Pair(p, q) : p, q \in Answers}, Budget(0, 0, 2, 0))
    \cup InScenarios({Pair(p, q) : p, q \in OnRuns}, Budget(0, 0, 0, 2))
    \cup InScenarios({Pair(Message("start", id1), q) :
                        q \in Deliveries \cup {OnRun("wait", id1), OnRun("interrupt", id1)}},
                     Budget(0, 0, 0, 1))
    \cup InScenarios({Pair(Message("send", id2), q) :
                        q \in {Message("send", id2), OnRun("interrupt", id1)}},
                     Budget(0, 0, 0, 1))

MCBudgets == {s.budget : s \in MCScenarios}

\* The instance keeps to what the theorem about deliveries assumes of the Hub.
ASSUME HubAssumption == OneSessionPerMessage
=============================================================================
