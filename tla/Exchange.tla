------------------------------ MODULE Exchange ------------------------------
(***************************************************************************)
(* What the request loop relies on of Request::send(), whatever the        *)
(* back-end: what a sending returns without an error is the whole answer   *)
(* the server gave to it, not a part of it nor the answer to an earlier    *)
(* sending of the same request.                                            *)
(***************************************************************************)
CONSTANTS
  Senders,    \* the threads that send requests
  Answers,    \* what a server may answer
  Nothing,    \* no answer, or no result
  Failure     \* the result of a sending that reports an error

VARIABLES
  sending,    \* is the thread in send()?
  answer,     \* what the server has answered to its sending
  result      \* what its last sending returned

Init ==
  /\ sending = [s \in Senders |-> FALSE]
  /\ answer = [s \in Senders |-> Nothing]
  /\ result = [s \in Senders |-> Nothing]

Begin(s) ==
  /\ ~sending[s]
  /\ sending' = [sending EXCEPT ![s] = TRUE]
  /\ result' = [result EXCEPT ![s] = Nothing]
  /\ UNCHANGED answer

Answer(s) ==
  /\ sending[s]
  /\ answer[s] = Nothing
  /\ \E a \in Answers : answer' = [answer EXCEPT ![s] = a]
  /\ UNCHANGED <<sending, result>>

\* A sending may fail although the server answered it.
End(s) ==
  /\ sending[s]
  /\ sending' = [sending EXCEPT ![s] = FALSE]
  /\ \E r \in {Failure} \cup ({answer[s]} \ {Nothing}) : result' = [result EXCEPT ![s] = r]
  /\ answer' = [answer EXCEPT ![s] = Nothing]

\* A sending may fail at once.
Refuse(s) ==
  /\ ~sending[s]
  /\ result' = [result EXCEPT ![s] = Failure]
  /\ UNCHANGED <<sending, answer>>

\* The request is destroyed.
Forget(s) ==
  /\ ~sending[s]
  /\ result' = [result EXCEPT ![s] = Nothing]
  /\ UNCHANGED <<sending, answer>>

Next == \E s \in Senders : Begin(s) \/ Answer(s) \/ End(s) \/ Refuse(s) \/ Forget(s)

Spec == Init /\ [][Next]_<<sending, answer, result>>
=============================================================================
