---------------------------- MODULE RpcContract ----------------------------
(***************************************************************************)
(* What a caller of the library may rely on for one JSON-RPC call, with    *)
(* no retries, session ids or network in sight: the method is carried out  *)
(* by the server at most once, and the outcome handed back to the caller   *)
(* says as much as possible about whether it was.                          *)
(*                                                                         *)
(*   answered    carried out, exactly once, before the call returned       *)
(*   refused     the server said no: never carried out, not even later     *)
(*   unanswered  no server ever accepted the request: never carried out    *)
(*   unknown     the transport failed: carried out before the call         *)
(*               returned, later (a request may linger on its way), or     *)
(*               never, but no more than once                              *)
(***************************************************************************)
EXTENDS Naturals

CONSTANT Calls      \* the calls made during the life of the session

VARIABLES
  phase,            \* how far the call is, as its caller sees it
  outcome,          \* what the call returned, "none" before it does
  applied           \* how many times the server carried the method out

vars == <<phase, outcome, applied>>

Phases   == {"idle", "running", "returned"}
Outcomes == {"none", "answered", "refused", "unanswered", "unknown"}

Init ==
  /\ phase   = [c \in Calls |-> "idle"]
  /\ outcome = [c \in Calls |-> "none"]
  /\ applied = [c \in Calls |-> 0]

Start(c) ==
  /\ phase[c] = "idle"
  /\ phase' = [phase EXCEPT ![c] = "running"]
  /\ UNCHANGED <<outcome, applied>>

\* The server carries the method out: only a call that is under way, or one
\* whose caller gave up without hearing from the server.
Apply(c) ==
  /\ \/ phase[c] = "running"
     \/ outcome[c] = "unknown"
  /\ applied[c] = 0
  /\ applied' = [applied EXCEPT ![c] = 1]
  /\ UNCHANGED <<phase, outcome>>

Return(c, o) ==
  /\ phase[c] = "running"
  /\ o = "answered" => applied[c] = 1
  /\ o \in {"refused", "unanswered"} => applied[c] = 0
  /\ phase'   = [phase   EXCEPT ![c] = "returned"]
  /\ outcome' = [outcome EXCEPT ![c] = o]
  /\ UNCHANGED applied

Next == \E c \in Calls :
          \/ Start(c)
          \/ Apply(c)
          \/ \E o \in Outcomes \ {"none"} : Return(c, o)

Spec == Init /\ [][Next]_vars
=============================================================================
