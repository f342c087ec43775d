---------------------------- MODULE MCMysqlProxy ----------------------------
(* An instance of MysqlProxy for TLC. *)
EXTENDS MysqlProxy
=============================================================================
