------------------------- MODULE MCSessionDirectory -------------------------
(***************************************************************************)
(* Small instances of SessionDirectory for TLC.                            *)
(***************************************************************************)
EXTENDS SessionDirectory

CONSTANTS k1, k2, k3, k4

\* Nothing depends on which key is which.
KeySymmetry == Permutations(Keys)
=============================================================================
