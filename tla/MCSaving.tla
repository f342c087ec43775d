------------------------------ MODULE MCSaving ------------------------------
(* An instance of Saving for TLC. *)
EXTENDS Saving
=============================================================================
