----------------------------- MODULE MCHttpCurl -----------------------------
(***************************************************************************)
(* Instances of HttpCurl for TLC.                                          *)
(***************************************************************************)
EXTENDS HttpCurl, TLC

SomeCodes == {"TOO_MANY_REDIRECTS", "RECV_ERROR"}

\* no port, and one
SomePorts == {-1, 9091}

Symmetry ==
  Permutations(Threads) \cup Permutations(Handles) \cup Permutations(Lists)
    \cup Permutations(Values)
=============================================================================
