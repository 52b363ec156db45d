-------------------------- MODULE MCHistoryStream --------------------------
(***************************************************************************)
(* Small instances of HistoryStream for TLC.                               *)
(***************************************************************************)
EXTENDS HistoryStream
=============================================================================
