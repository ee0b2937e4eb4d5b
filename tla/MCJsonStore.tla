---------------------------- MODULE MCJsonStore -----------------------------
(***************************************************************************)
(* Instances of JsonStore for TLC.                                         *)
(***************************************************************************)
EXTENDS JsonStore

\* A round finishes, is reopened once, and finishes again.
Again == {3, 5, 6}
=============================================================================
