---------------------------- MODULE MCSPSCQueue ----------------------------
(***************************************************************************)
(* SPSCQueue on a ring of four slots (three usable), for five pushes: the  *)
(* ring fills up, refuses, and both positions wrap around.                 *)
(***************************************************************************)
EXTENDS SPSCQueue

CONSTANTS a, b

MCValues == {a, b}
=============================================================================
