----------------------------- MODULE MCHttpWin ------------------------------
(***************************************************************************)
(* Instances of HttpWin for TLC.                                           *)
(***************************************************************************)
EXTENDS HttpWin, TLC

\* one given as "https://a", one as "b" or "http://b"
TwoHosts == {[name |-> "a", secure |-> TRUE], [name |-> "b", secure |-> FALSE]}
SomePorts == {-1, 9091}

Symmetry == Permutations(Threads) \cup Permutations(Handles)
=============================================================================
