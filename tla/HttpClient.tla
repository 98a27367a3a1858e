----------------------------- MODULE HttpClient -----------------------------
(***************************************************************************)
(* What the library promises of its HTTP clients: settings are stored, and *)
(* copied into each request when it is created, so that requests of        *)
(* different threads run with the settings of their creation whatever is   *)
(* set meanwhile.  Nothing is said of which settings make a connection     *)
(* possible: a request may always be created without one.                  *)
(***************************************************************************)
CONSTANTS
  Calls,      \* the requests that may exist at a time
  Settings,   \* host, port, credentials: all that decides where a request goes
  None,       \* no request
  Broken      \* a request that reaches no server

VARIABLES
  settings,   \* the ones stored
  request     \* for each call, the settings of its request

Init == settings \in Settings /\ request = [c \in Calls |-> None]

Set == settings' \in Settings /\ UNCHANGED request

Create(c) ==
  /\ request[c] = None
  /\ request' \in {[request EXCEPT ![c] = s] : s \in {settings, Broken}}
  /\ UNCHANGED settings

Finish(c) ==
  /\ request[c] # None
  /\ request' = [request EXCEPT ![c] = None]
  /\ UNCHANGED settings

Next == Set \/ \E c \in Calls : Create(c) \/ Finish(c)

Spec == Init /\ [][Next]_<<settings, request>>
=============================================================================
