----------------------------- MODULE HttpStatus ------------------------------
(***************************************************************************)
(* http::Status: the number a back-end found becomes one of the codes of   *)
(* HTTP, or Unknown.                                                       *)
(***************************************************************************)
EXTENDS Integers

Unknown == 999

\* The cases of the constructor's switch.
StatusCodes ==
  (200 .. 206) \cup {226} \cup (300 .. 308) \cup (400 .. 417)
    \cup {421, 426, 428, 429, 431, 451} \cup (500 .. 506) \cup {510, 511}

\* The constructor: 0, the number of no response, is Unknown like any other
\* the switch does not list.
Status(code) == IF code \in StatusCodes THEN code ELSE Unknown
=============================================================================
