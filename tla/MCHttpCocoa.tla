---------------------------- MODULE MCHttpCocoa -----------------------------
(***************************************************************************)
(* Instances of HttpCocoa for TLC.                                         *)
(***************************************************************************)
EXTENDS HttpCocoa

\* an error reported, and one the table of errors does not list
SomeCodes == {"TimedOut", "NotListed"}
=============================================================================
