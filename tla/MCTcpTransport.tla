--------------------------- MODULE MCTcpTransport ---------------------------
(***************************************************************************)
(* TcpTransport with one calling thread, two hosts and one disconnect().   *)
(***************************************************************************)
EXTENDS TcpTransport

CONSTANTS caller, host1, host2
=============================================================================
