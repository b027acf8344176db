----------------------------- MODULE MCHandoff -----------------------------
(***************************************************************************)
(* Instances of Handoff for TLC.                                           *)
(***************************************************************************)
EXTENDS Handoff

\* Each browser has an extension id of its own.
OwnId == [b \in Browser |-> b]
============================================================================
