------------------------------ MODULE MCMatch ------------------------------
(***************************************************************************)
(* Instances of Match for TLC: the values of MATCH_CONFIG, scaled down.    *)
(***************************************************************************)
EXTENDS Match

MCPlayerNum == [m \in Modes |-> 2]
MCMaxExpand == [m \in Modes |-> 1]
=============================================================================
