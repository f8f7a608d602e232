---------------------------- MODULE MCTcpSession ----------------------------
(***************************************************************************)
(* Instances of TcpSession for TLC.                                         *)
(***************************************************************************)
EXTENDS TcpSession
=============================================================================
