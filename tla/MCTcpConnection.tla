-------------------------- MODULE MCTcpConnection --------------------------
(***************************************************************************)
(* The TLC instance of TcpConnection: every client and operation.  The     *)
(* connections of net.Dialer honor deadlines, a custom dialer's may not.   *)
(***************************************************************************)
EXTENDS TcpConnection

MCSetups == {s \in Setup : s.custom \/ s.deadlines}
=============================================================================
