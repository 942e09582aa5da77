------------------------ MODULE MCWebSocketTransport ------------------------
(***************************************************************************)
(* WebSocketTransport with one calling thread, two URLs and one            *)
(* disconnect().                                                           *)
(***************************************************************************)
EXTENDS WebSocketTransport

CONSTANTS caller, url1, url2
=============================================================================
