---------------------------- MODULE SendRequest ----------------------------
(***************************************************************************)
(* SessionPrivate::sendRequest, the one function every remote operation of *)
(* libGearBox goes through, run by several threads on one Session.         *)
(*                                                                         *)
(* A call copies the session's configuration into a request, then sends it *)
(* up to RetryCount times.  Each attempt carries the session id kept in    *)
(* SessionPrivate::sessionId_, a std::string all threads read and write    *)
(* with no lock.  An HTTP 409 answer holds the id the server wants; the    *)
(* call stores it in sessionId_ and tries again.  Any other answer, or a   *)
(* transport error, ends the call.                                         *)
(*                                                                         *)
(* Each call runs on a thread of its own; calls made one after another by  *)
(* the same thread are the behaviours in which they do not overlap.  The   *)
(* accesses to sessionId_ take time: a read that overlaps a write, or two  *)
(* writes that overlap, is a data race, whose outcome may be a mix of the  *)
(* two strings (Torn).                                                     *)
(*                                                                         *)
(* The servers, and the transport, are the environment: a request that was *)
(* given up by its caller may still reach the server, or never do.         *)
(***************************************************************************)
EXTENDS Integers

CONSTANTS
  Calls,            \* the calls of sendRequest
  Hosts,            \* the servers, each with session ids of its own
  Paths,            \* the values of HttpRequestHandler::path
  RetryCount,       \* RETRY_COUNT
  MaxIssued,        \* bound: how many session ids a server ever issues
  BareConflicts,    \* may a 409 come without the session id header?
  Overlap,          \* may two accesses of sessionId_ overlap in time?
  PathByReference   \* does a request keep a reference to the session's path
                    \* (WinHttp::Request) instead of a copy (CUrlHttp, Cocoa)?

ASSUME ConstantsAssumption ==
  /\ RetryCount \in Nat \ {0}
  /\ MaxIssued \in Nat \ {0}
  /\ BareConflicts \in BOOLEAN
  /\ Overlap \in BOOLEAN
  /\ PathByReference \in BOOLEAN

VARIABLES
  config,           \* the configuration in the session's HttpRequestHandler
  sessionId,        \* SessionPrivate::sessionId_
  raced,            \* the accesses to sessionId_ that overlapped a write
  pc,               \* where each call is
  attempt,          \* how many times the call sent its request
  target,           \* the configuration copied by createRequest
  answer,           \* what the server answered to the last attempt
  error,            \* response.error
  value,            \* what the response holds: the server's reply or nothing
  wire,             \* requests on their way to a server
  issued,           \* how many ids each server issued; the last one is valid
  applied,          \* history: how often a server carried the call out
  disturbed         \* history: see Disturb

sessionVars == <<config, sessionId, raced>>
callVars    == <<pc, attempt, target, error, value>>
serverVars  == <<issued, applied>>
vars == <<sessionVars, callVars, answer, wire, serverVars, disturbed>>

-----------------------------------------------------------------------------
(***************************************************************************)
(* Session ids.  The n-th id issued by host h is <<h, n>>; the numbers     *)
(* start at 1, so no server accepts any of the three others.               *)
(***************************************************************************)
Dummy   == <<"dummy", 0>>       \* the initial sessionId_
NoId    == <<"empty", 0>>       \* headers[...] of a 409 without the header
Torn    == <<"torn", 0>>        \* what a data race may leave behind

Current(h) == <<h, issued[h]>>
Ids == {Dummy, NoId, Torn} \cup (Hosts \X (1 .. MaxIssued))

Configs  == [host : Hosts, path : Paths]
Requests == [call : Calls, attempt : 1 .. RetryCount, id : Ids, target : Configs]

NoAnswer == [kind |-> "none", id |-> NoId]
Conflict(id) == [kind |-> "conflict", id |-> id]
\* "success" also stands for a reply whose result is the empty string.
Final(kind) == [kind |-> kind, id |-> NoId]
Answers == [kind : {"none", "conflict", "success", "failure", "status"}, id : Ids]

Places == {"idle", "read", "reading", "wait", "writing", "returned"}
Errors == {"Ok", "UnknownError", "Http", "Transport"}

Readers == {c \in Calls : pc[c] = "reading"}
Writers == {c \in Calls : pc[c] = "writing"}

-----------------------------------------------------------------------------
Init ==
  /\ config \in Configs
  /\ sessionId = Dummy
  /\ raced = {}
  /\ pc = [c \in Calls |-> "idle"]
  /\ attempt = [c \in Calls |-> 0]
  /\ target = [c \in Calls |-> config]
  /\ answer = [c \in Calls |-> NoAnswer]
  /\ error = [c \in Calls |-> "Ok"]
  /\ value = [c \in Calls |-> "default"]
  /\ wire = {}
  /\ issued = [h \in Hosts |-> 1]
  /\ applied = [c \in Calls |-> 0]
  /\ disturbed = [c \in Calls |-> FALSE]

(***************************************************************************)
(* The setters.  They are called at any time but during createRequest: the *)
(* documentation of Session excludes them from the thread-safe methods.    *)
(***************************************************************************)
SetHost(h) ==
  /\ config' = [config EXCEPT !.host = h]
  /\ UNCHANGED <<sessionId, raced, callVars, answer, wire, serverVars, disturbed>>

SetPath(p) ==
  /\ config' = [config EXCEPT !.path = p]
  /\ UNCHANGED <<sessionId, raced, callVars, answer, wire, serverVars, disturbed>>

(***************************************************************************)
(* The call.                                                               *)
(***************************************************************************)
CreateRequest(c) ==
  /\ pc[c] = "idle"
  /\ target' = [target EXCEPT ![c] = config]
  /\ pc' = [pc EXCEPT ![c] = "read"]
  /\ UNCHANGED <<sessionVars, attempt, error, value, answer, wire, serverVars,
                 disturbed>>

\* The loop is entered with fewer than RetryCount attempts made: it starts to
\* copy sessionId_ into the request's header.
BeginRead(c) ==
  /\ pc[c] = "read"
  /\ Overlap \/ Writers = {}
  /\ pc' = [pc EXCEPT ![c] = "reading"]
  /\ raced' = IF Writers = {} THEN raced ELSE raced \cup {c}
  /\ UNCHANGED <<config, sessionId, attempt, target, error, value, answer, wire,
                 serverVars, disturbed>>

\* Where the request of call c goes when it is sent now.
Destination(c) ==
  IF PathByReference THEN [target[c] EXCEPT !.path = config.path] ELSE target[c]

\* The copy is complete, and the request leaves with it.
Send(c) ==
  /\ pc[c] = "reading"
  /\ \E id \in {sessionId} \cup (IF c \in raced THEN {Torn} ELSE {}) :
       wire' = wire \cup {[call |-> c, attempt |-> attempt[c] + 1, id |-> id,
                           target |-> Destination(c)]}
  /\ attempt' = [attempt EXCEPT ![c] = @ + 1]
  /\ answer' = [answer EXCEPT ![c] = NoAnswer]
  /\ raced' = raced \ {c}
  /\ pc' = [pc EXCEPT ![c] = "wait"]
  /\ UNCHANGED <<config, sessionId, target, error, value, serverVars, disturbed>>

\* History: something other than the call itself happened, since the server
\* last told it the session id, that can make its next attempt fail too: the
\* server issued another id, or another call was writing sessionId_.
Disturb(S) == disturbed' = [c \in Calls |-> disturbed[c] \/ c \in S]

\* Mutant of BeginWrite: an attempt that got no answer is retried as well.
BeginWriteOnTimeout(c) ==
  /\ pc[c] = "wait"
  /\ answer[c].kind \in {"conflict", "none"}
  /\ Overlap \/ Readers \cup Writers = {}
  /\ pc' = [pc EXCEPT ![c] = "writing"]
  /\ raced' = raced \cup Readers \cup Writers
                    \cup (IF Writers = {} THEN {} ELSE {c})
  /\ Disturb(Calls \ {c})
  /\ UNCHANGED <<config, sessionId, attempt, target, error, value, answer, wire,
                 serverVars>>

BeginWrite(c) ==
  /\ pc[c] = "wait"
  /\ answer[c].kind = "conflict"
  /\ Overlap \/ Readers \cup Writers = {}
  /\ pc' = [pc EXCEPT ![c] = "writing"]
  /\ raced' = raced \cup Readers \cup Writers
                    \cup (IF Writers = {} THEN {} ELSE {c})
  /\ Disturb(Calls \ {c})
  /\ UNCHANGED <<config, sessionId, attempt, target, error, value, answer, wire,
                 serverVars>>

\* Mutants of EndWrite: one attempt too many; the id of the 409 is not stored; the
\* attempts are counted from the last id stored.
EndWriteOffByOne(c) ==
  /\ pc[c] = "writing"
  /\ sessionId' \in {answer[c].id} \cup (IF c \in raced THEN {Torn} ELSE {})
  /\ raced' = raced \ {c}
  /\ pc' = [pc EXCEPT ![c] = IF attempt[c] <= RetryCount THEN "read"
                                                         ELSE "returned"]
  /\ Disturb(Calls \ {c})
  /\ UNCHANGED <<config, attempt, target, error, value, answer, wire, serverVars>>

EndWriteNotStored(c) ==
  /\ pc[c] = "writing"
  /\ raced' = raced \ {c}
  /\ pc' = [pc EXCEPT ![c] = IF attempt[c] < RetryCount THEN "read"
                                                        ELSE "returned"]
  /\ Disturb(Calls \ {c})
  /\ UNCHANGED <<config, sessionId, attempt, target, error, value, answer, wire,
                 serverVars>>

EndWriteRestarts(c) ==
  /\ pc[c] = "writing"
  /\ sessionId' \in {answer[c].id} \cup (IF c \in raced THEN {Torn} ELSE {})
  /\ raced' = raced \ {c}
  /\ pc' = [pc EXCEPT ![c] = "read"]
  /\ attempt' = [attempt EXCEPT ![c] = 0]
  /\ Disturb(Calls \ {c})
  /\ UNCHANGED <<config, target, error, value, answer, wire, serverVars>>

\* The last round of the loop was a conflict: sendRequest returns the response
\* it declared, with neither an error nor a reply in it.
EndWrite(c) ==
  /\ pc[c] = "writing"
  /\ sessionId' \in {answer[c].id} \cup (IF c \in raced THEN {Torn} ELSE {})
  /\ raced' = raced \ {c}
  /\ pc' = [pc EXCEPT ![c] = IF attempt[c] < RetryCount THEN "read"
                                                        ELSE "returned"]
  /\ Disturb(Calls \ {c})
  /\ UNCHANGED <<config, attempt, target, error, value, answer, wire, serverVars>>

Return(c, err, val) ==
  /\ pc[c] = "wait"
  /\ pc' = [pc EXCEPT ![c] = "returned"]
  /\ error' = [error EXCEPT ![c] = err]
  /\ value' = [value EXCEPT ![c] = val]
  /\ UNCHANGED <<sessionVars, attempt, target, answer, wire, serverVars, disturbed>>

\* HTTP 200 with result "success" or no result.
ReturnSuccess(c) == answer[c].kind = "success" /\ Return(c, "Ok", "reply")

\* Mutant of ReturnFailure: the result string is not looked at.
ReturnFailureAsSuccess(c) == answer[c].kind = "failure" /\ Return(c, "Ok", "reply")

\* HTTP 200 with any other result: the reply is kept beside the error.
ReturnFailure(c) == answer[c].kind = "failure" /\ Return(c, "UnknownError", "reply")

\* Mutant of ReturnStatus: a request that got no answer is taken for one that
\* got an unknown status.
ReturnStatusWithoutAnswer(c) ==
  answer[c].kind \in {"status", "none"} /\ Return(c, "Http", "default")

\* Neither 200 nor 409.
ReturnStatus(c) == answer[c].kind = "status" /\ Return(c, "Http", "default")

\* Mutant of ReturnTransportError: the error is not carried over.
ReturnTransportErrorDropped(c) == Return(c, "Ok", "default")

\* send reports an error: the connection failed or the timeout expired, before
\* or after the server saw the request.
ReturnTransportError(c) == Return(c, "Transport", "default")

(***************************************************************************)
(* The servers.  An answer reaches its call if the call still waits for    *)
(* that attempt.                                                           *)
(***************************************************************************)
Deliver(m, a) ==
  /\ wire' = wire \ {m}
  /\ answer' = IF pc[m.call] = "wait" /\ attempt[m.call] = m.attempt
               THEN [answer EXCEPT ![m.call] = a]
               ELSE answer

\* The id is not the valid one: 409.  A server in between may answer 409 of its
\* own, without the header.
ServerConflict(m) ==
  /\ m.id # Current(m.target.host)
  /\ \E id \in {Current(m.target.host)} \cup (IF BareConflicts THEN {NoId} ELSE {}) :
       /\ Deliver(m, Conflict(id))
       /\ disturbed' = [disturbed EXCEPT
                          ![m.call] = id = NoId \/ Writers \ {m.call} # {}]
  /\ UNCHANGED <<sessionVars, callVars, serverVars>>

ServerExecute(m) ==
  /\ m.id = Current(m.target.host)
  /\ Deliver(m, Final("success"))
  /\ applied' = [applied EXCEPT ![m.call] = @ + 1]
  /\ UNCHANGED <<sessionVars, callVars, issued, disturbed>>

\* Unknown method or torrent, bad arguments (failure); missing credentials,
\* wrong path, a failing proxy (status).
ServerRefuse(m) ==
  /\ \/ m.id = Current(m.target.host) /\ Deliver(m, Final("failure"))
     \/ Deliver(m, Final("status"))
  /\ UNCHANGED <<sessionVars, callVars, serverVars, disturbed>>

\* The server expires the session id.
Expire(h) ==
  /\ issued[h] < MaxIssued
  /\ issued' = [issued EXCEPT ![h] = @ + 1]
  /\ Disturb({c \in Calls : target[c].host = h})
  /\ UNCHANGED <<sessionVars, callVars, answer, wire, applied>>

-----------------------------------------------------------------------------
CallStep(c) ==
  \/ BeginRead(c)  \/ Send(c)
  \/ BeginWrite(c) \/ EndWrite(c)
  \/ ReturnSuccess(c) \/ ReturnFailure(c) \/ ReturnStatus(c)
  \/ ReturnTransportError(c)

ServerStep(m) == ServerConflict(m) \/ ServerExecute(m) \/ ServerRefuse(m)

Next ==
  \/ \E h \in Hosts : SetHost(h)
  \/ \E p \in Paths : SetPath(p)
  \/ \E c \in Calls : CreateRequest(c) \/ CallStep(c)
  \/ \E m \in wire  : ServerStep(m)
  \/ \E h \in Hosts : Expire(h)

Spec == Init /\ [][Next]_vars

\* The threads of the program are scheduled, and send always completes, if only
\* with an error: the session's timeout is not zero (DEFAULT_TIMEOUT).  Nothing
\* is asked of the servers, nor that a call is ever made.
Fairness == \A c \in Calls : WF_vars(CallStep(c))

FairSpec == Spec /\ Fairness

-----------------------------------------------------------------------------
(***************************************************************************)
(* Properties.                                                             *)
(***************************************************************************)

\* The values the variables take.
TypeOK ==
  /\ config \in Configs
  /\ sessionId \in Ids
  /\ raced \subseteq Calls
  /\ pc \in [Calls -> Places]
  /\ attempt \in [Calls -> 0 .. RetryCount]
  /\ target \in [Calls -> Configs]
  /\ answer \in [Calls -> Answers]
  /\ error \in [Calls -> Errors]
  /\ value \in [Calls -> {"default", "reply"}]
  /\ wire \subseteq Requests
  /\ issued \in [Hosts -> 1 .. MaxIssued]
  /\ applied \in [Calls -> Nat]
  /\ disturbed \in [Calls -> BOOLEAN]

\* A call never has two copies of its request under way, though it sends up to
\* RetryCount of them and gives up on the transport's word: what is on the wire
\* is always the last attempt, sent again only once the server turned it down.
OneRequestAtATime ==
  \A m, n \in wire :
    /\ m.attempt = attempt[m.call]
    /\ m.call = n.call => m = n

\* The method of a call (torrent-start, torrent-remove, ...) is carried out at
\* most once, and what the call returns tells its caller whether it was: an Ok
\* with a reply means once; an error of the server, or the empty Ok of a call
\* that used up its attempts, means not at all.
OutcomeIsTruthful ==
  \A c \in Calls :
    /\ applied[c] <= 1
    /\ pc[c] = "returned" =>
         /\ error[c] = "Ok" /\ value[c] = "reply" => applied[c] = 1
         /\ error[c] = "Ok" /\ value[c] = "default" =>
              applied[c] = 0 /\ attempt[c] = RetryCount
         /\ error[c] \in {"UnknownError", "Http"} => applied[c] = 0

\* Only a call that returned a transport error leaves a request behind that a
\* server can still carry out, after the caller was told the call is over.
OnlyTransportErrorsLinger ==
  \A m \in wire : pc[m.call] = "returned" => error[m.call] = "Transport"

\* The answer to a 409 works: the request sent again carries the valid id,
\* unless the server expired it meanwhile or another call was writing sessionId_
\* (with the id of another server, or a stale one, or at the same time).
UndisturbedRetryIsAccepted ==
  \A m \in wire :
    m.attempt > 1 /\ ~disturbed[m.call] => m.id = Current(m.target.host)

\* What a caller is promised (RpcContract).
Outcome(c) ==
  CASE pc[c] # "returned"                          -> "none"
    [] pc[c] = "returned" /\ error[c] = "Transport" -> "unknown"
    [] pc[c] = "returned" /\ error[c] \in {"UnknownError", "Http"} -> "refused"
    [] OTHER -> IF value[c] = "reply" THEN "answered" ELSE "unanswered"

Phase(c) == IF pc[c] \in {"idle", "returned"} THEN pc[c] ELSE "running"

Contract == INSTANCE RpcContract
  WITH phase <- [c \in Calls |-> Phase(c)], outcome <- [c \in Calls |-> Outcome(c)]

\* Every behaviour of sendRequest is one the contract allows.
ContractHolds == Contract!Spec

\* A call that was made returns, whatever the servers and the other calls do.
EveryCallReturns == \A c \in Calls : pc[c] = "read" ~> pc[c] = "returned"

-----------------------------------------------------------------------------
(***************************************************************************)
(* What the documentation says and the code does not do.                   *)
(***************************************************************************)

\* Ok, "No error occured" (libgearbox_error.cpp), is returned for a request the
\* server answered with success.
OkMeansAnswered ==
  \A c \in Calls : pc[c] = "returned" /\ error[c] = "Ok" => value[c] = "reply"

\* "the information is copied internally for each request" (libgearbox_session.cpp), so
\* that setters prepare the next request while others are ongoing: each attempt of a
\* call goes where the settings said when its request was created.
OngoingRequestKeepsTarget ==
  \A m \in wire : m.target = target[m.call]

\* "This method is thread-safe" (statistics, torrents, recentlyRemoved, ...): no
\* thread accesses sessionId_ while another writes it.
NoDataRace ==
  \A c \in Writers : Readers \cup Writers = {c}
=============================================================================
