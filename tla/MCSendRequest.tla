--------------------------- MODULE MCSendRequest ---------------------------
(***************************************************************************)
(* Instances of SendRequest for TLC.  The model values of Calls are        *)
(* interchangeable in the runs that check no liveness.                     *)
(***************************************************************************)
EXTENDS SendRequest, TLC

Symmetry == Permutations(Calls)
=============================================================================
