----------------------------- MODULE MCTorrents -----------------------------
(***************************************************************************)
(* Instances of Torrents for TLC.                                          *)
(***************************************************************************)
EXTENDS Torrents, TLC

\* Two Torrents, or one twice.
Pairs == {<<g, h>> : g \in Handles, h \in Handles}

Symmetry == Permutations(Ops) \cup Permutations(Handles)
=============================================================================
