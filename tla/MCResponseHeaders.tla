------------------------- MODULE MCResponseHeaders --------------------------
(***************************************************************************)
(* Instances of ResponseHeaders for TLC.                                   *)
(***************************************************************************)
EXTENDS ResponseHeaders

H(name, gap, value) == [name |-> <<name>>, gap |-> gap, value |-> value]
Space == <<" ">>

\* names that differ in case, values of different lengths, with a colon, empty,
\* mentioning HTTP/, and without a space before them
SomeHeaders ==
  {H("a", Space, <<"v">>), H("A", Space, <<"v", "w">>), H("A", Space, <<"w">>),
   H("b", Space, <<"v", ":">>), H("b", Space, <<"HTTP/">>), H("b", Space, <<>>),
   H("b", <<>>, <<"v">>), H("a", <<>>, <<>>)}

\* nothing, a space, and a reason of one or two characters
SomeReasons == {<<>>, <<" ">>, <<" ", "O">>, <<" ", "O", "K">>}

\* an error that is listed, and one that is not
SomeErrors == {"CANNOT_CONNECT", "TIMEOUT"}
=============================================================================
