--------------------------- MODULE MCPluginWatch ---------------------------
(***************************************************************************)
(* Small instances of PluginWatch for TLC: an exec and a plugin approval   *)
(* of the same session, and one of no session.                             *)
(***************************************************************************)
EXTENDS PluginWatch

CONSTANTS s1, exec1, plugin1, stray

MCApprovals == {exec1, plugin1}
MCKindOf == [a \in MCApprovals |-> IF a = exec1 THEN "exec" ELSE "plugin"]
SameSession == [a \in MCApprovals |-> s1]

WithStray == MCApprovals \cup {stray}
StrayKind == [a \in WithStray |-> IF a = plugin1 THEN "plugin" ELSE "exec"]
StraySession == [a \in WithStray |-> IF a = stray THEN None ELSE s1]
=============================================================================
