----------------------- MODULE MCSupervisedThreadPool -----------------------
(***************************************************************************)
(* Small pools for TLC.                                                    *)
(***************************************************************************)
EXTENDS SupervisedThreadPool, TLC

CONSTANTS s1, s2

(* submit() does not depend on which thread calls it. *)
SubmitterSymmetry == Permutations(Submitters)
=============================================================================
