----------------------------- MODULE MCTcpManager -----------------------------
(***************************************************************************)
(* Small instances of TcpManager for TLC.                                  *)
(***************************************************************************)
EXTENDS TcpManager, TLC

=============================================================================
