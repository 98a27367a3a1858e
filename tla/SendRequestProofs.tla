------------------------- MODULE SendRequestProofs -------------------------
(***************************************************************************)
(* Proofs about SendRequest, for any number of calls, hosts, paths,        *)
(* attempts and ids, with and without overlapping accesses.                *)
(***************************************************************************)
EXTENDS SendRequest, TLAPS

USE DEF Configs, Places, Errors

-----------------------------------------------------------------------------
(***************************************************************************)
(* The inductive invariant.                                                *)
(***************************************************************************)

\* How far a call is, against its attempts and the response it prepares.
LifeCycle ==
  \A c \in Calls :
    /\ pc[c] = "idle" => attempt[c] = 0
    /\ pc[c] \in {"read", "reading"} => attempt[c] < RetryCount
    /\ pc[c] \in {"wait", "writing"} => attempt[c] > 0
    /\ pc[c] = "writing" => answer[c].kind = "conflict"
    /\ pc[c] # "returned" => error[c] = "Ok" /\ value[c] = "default"
    /\ pc[c] = "returned" /\ error[c] = "Ok" /\ value[c] = "default" =>
         attempt[c] = RetryCount

\* Where a call can be once a server has carried it out.
Execution ==
  \A c \in Calls :
    /\ applied[c] \in {0, 1}
    /\ applied[c] = 1 =>
         \/ pc[c] = "wait" /\ answer[c].kind = "success"
         \/ pc[c] = "returned" /\ error[c] = "Transport"
         \/ pc[c] = "returned" /\ error[c] = "Ok" /\ value[c] = "reply"
    /\ pc[c] = "wait" /\ answer[c].kind = "success" => applied[c] = 1
    /\ pc[c] = "returned" /\ error[c] = "Ok" /\ value[c] = "reply" => applied[c] = 1

\* Where a call can be while its request is on the wire.
InFlight ==
  \A m \in wire :
    /\ m.attempt = attempt[m.call]
    /\ m.target.host = target[m.call].host
    /\ applied[m.call] = 0
    /\ \/ pc[m.call] = "wait" /\ answer[m.call].kind = "none"
       \/ pc[m.call] = "returned" /\ error[m.call] = "Transport"

NoCopies == \A m, n \in wire : m.call = n.call => m = n

CallInv == LifeCycle /\ Execution /\ InFlight /\ NoCopies

(***************************************************************************)
(* The inductive invariant for UndisturbedRetryIsAccepted.                 *)
(***************************************************************************)

\* An access is marked as raced only while it lasts.
RacedInv == raced \subseteq Readers \cup Writers

\* What an undisturbed call knows after a conflict: the id it was told, then
\* stored, then read back, is the valid one, and nobody else is writing it.
KnowsId(c) ==
  LET id == Current(target[c].host) IN
  /\ Writers \subseteq {c}
  /\ pc[c] \in {"read", "reading"} => sessionId = id
  /\ pc[c] = "wait" /\ answer[c].kind = "conflict" => answer[c].id = id
  /\ pc[c] = "writing" => answer[c].id = id

Informed(c) ==
  /\ attempt[c] > 0
  /\ \/ pc[c] \in {"read", "reading", "writing"}
     \/ pc[c] = "wait" /\ answer[c].kind = "conflict"

RetryInv ==
  /\ RacedInv
  /\ \A c \in Calls : Informed(c) /\ ~disturbed[c] => KnowsId(c) /\ c \notin raced
  /\ UndisturbedRetryIsAccepted

-----------------------------------------------------------------------------
(***************************************************************************)
(* Every value the code stores is one of those declared.                   *)
(***************************************************************************)

\* An id in use is one of Ids, and so is the one the server would answer.
LEMMA CurrentType ==
  ASSUME TypeOK, NEW h \in Hosts
  PROVE  Current(h) \in Ids
  BY ConstantsAssumption DEF TypeOK, Current, Ids

\* The message a call sends is a request.
LEMMA DestinationType ==
  ASSUME TypeOK, NEW c \in Calls
  PROVE  /\ Destination(c) \in Configs
         /\ Destination(c).host = target[c].host
  BY DEF TypeOK, Destination

\* A delivered answer keeps the types.
LEMMA DeliverType ==
  ASSUME TypeOK, NEW m \in wire, NEW a \in Answers, Deliver(m, a)
  PROVE  wire' \subseteq Requests /\ answer' \in [Calls -> Answers]
  BY DEF TypeOK, Deliver, Requests

\* The history variable keeps its type.
LEMMA DisturbType ==
  ASSUME TypeOK, NEW S, Disturb(S)
  PROVE  disturbed' \in [Calls -> BOOLEAN]
  BY DEF TypeOK, Disturb

\* The types hold at the start.
LEMMA InitType == Init => TypeOK
  BY ConstantsAssumption DEF Init, TypeOK, NoAnswer, Answers, Ids, Dummy, NoId

\* The invariant part of a return.
LEMMA ReturnType ==
  ASSUME TypeOK, NEW c \in Calls, NEW err \in Errors,
         NEW val \in {"default", "reply"}, Return(c, err, val)
  PROVE  TypeOK'
  BY DEF TypeOK, Return, sessionVars, serverVars, Requests

\* Every step keeps the types; LifeCycle bounds the attempts.
LEMMA NextType == TypeOK /\ LifeCycle /\ [Next]_vars => TypeOK'
<1> SUFFICES ASSUME TypeOK, LifeCycle, [Next]_vars PROVE TypeOK'
  OBVIOUS
<1>1. ASSUME NEW h \in Hosts, SetHost(h) PROVE TypeOK'
  BY <1>1 DEF SetHost, TypeOK, callVars, serverVars
<1>2. ASSUME NEW p \in Paths, SetPath(p) PROVE TypeOK'
  BY <1>2 DEF SetPath, TypeOK, callVars, serverVars
<1>3. ASSUME NEW c \in Calls, CreateRequest(c) PROVE TypeOK'
  BY <1>3 DEF CreateRequest, TypeOK, sessionVars, serverVars
<1>4. ASSUME NEW c \in Calls, CallStep(c) PROVE TypeOK'
  <2>1. CASE BeginRead(c)
    BY <2>1 DEF BeginRead, TypeOK, serverVars
  <2>2. CASE Send(c)
    <3>1. attempt[c] + 1 \in 1 .. RetryCount
      BY <2>2, ConstantsAssumption DEF Send, TypeOK, LifeCycle
    <3>2. wire' \subseteq Requests
      BY <2>2, <3>1, DestinationType DEF Send, TypeOK, Requests, Ids
    <3>3. NoAnswer \in Answers
      BY DEF NoAnswer, Answers, Ids
    <3> QED
      BY <2>2, <3>1, <3>2, <3>3 DEF Send, TypeOK, serverVars
  <2>3. CASE BeginWrite(c)
    BY <2>3, DisturbType DEF BeginWrite, TypeOK, serverVars, Readers, Writers
  <2>4. CASE EndWrite(c)
    <3>1. sessionId' \in Ids
      BY <2>4 DEF EndWrite, TypeOK, Answers, Ids
    <3> QED
      BY <2>4, <3>1, DisturbType DEF EndWrite, TypeOK, serverVars
  <2>5. CASE ReturnSuccess(c) \/ ReturnFailure(c) \/ ReturnStatus(c)
             \/ ReturnTransportError(c)
    BY <2>5, ReturnType
    DEF ReturnSuccess, ReturnFailure, ReturnStatus, ReturnTransportError
  <2> QED
    BY <1>4, <2>1, <2>2, <2>3, <2>4, <2>5 DEF CallStep
<1>5. ASSUME NEW m \in wire, ServerStep(m) PROVE TypeOK'
  <2>1. m.call \in Calls /\ m.target.host \in Hosts
    BY DEF TypeOK, Requests
  <2>2. CASE ServerConflict(m)
    <3>1. PICK id \in {Current(m.target.host)} \cup (IF BareConflicts THEN {NoId} ELSE {}) :
            /\ Deliver(m, Conflict(id))
            /\ disturbed' = [disturbed EXCEPT
                               ![m.call] = id = NoId \/ Writers \ {m.call} # {}]
      BY <2>2 DEF ServerConflict
    <3>2. Conflict(id) \in Answers
      BY <2>1, <3>1, CurrentType DEF Conflict, Answers, Ids
    <3>3. disturbed' \in [Calls -> BOOLEAN]
      BY <3>1 DEF TypeOK
    <3> QED
      BY <2>2, <3>1, <3>2, <3>3, DeliverType
      DEF ServerConflict, TypeOK, sessionVars, callVars, serverVars
  <2>3. CASE ServerExecute(m)
    <3>1. Final("success") \in Answers
      BY DEF Final, Answers, Ids
    <3> QED
      BY <2>1, <2>3, <3>1, DeliverType
      DEF ServerExecute, TypeOK, sessionVars, callVars
  <2>4. CASE ServerRefuse(m)
    <3>1. Final("failure") \in Answers /\ Final("status") \in Answers
      BY DEF Final, Answers, Ids
    <3> QED
      BY <2>4, <3>1, DeliverType
      DEF ServerRefuse, TypeOK, sessionVars, callVars, serverVars
  <2> QED
    BY <1>5, <2>2, <2>3, <2>4 DEF ServerStep
<1>6. ASSUME NEW h \in Hosts, Expire(h) PROVE TypeOK'
  <2>1. issued' \in [Hosts -> 1 .. MaxIssued]
    BY <1>6, ConstantsAssumption DEF Expire, TypeOK
  <2> QED
    BY <1>6, <2>1, DisturbType DEF Expire, TypeOK, sessionVars, callVars
<1>7. CASE UNCHANGED vars
  BY <1>7 DEF vars, TypeOK, sessionVars, callVars, serverVars
<1> QED
  BY <1>1, <1>2, <1>3, <1>4, <1>5, <1>6, <1>7 DEF Next

-----------------------------------------------------------------------------
(***************************************************************************)
(* A call, its request on the wire, and what the server did with it.       *)
(***************************************************************************)

\* Steps that leave the calls and the wire alone keep the invariant.
LEMMA CallInvFrame ==
  ASSUME CallInv, UNCHANGED <<callVars, answer, wire, applied>>
  PROVE  CallInv'
  BY DEF CallInv, LifeCycle, Execution, InFlight, NoCopies, callVars

\* A call that returns does so with what the server told it, or with a
\* transport error.
LEMMA ReturnCall ==
  ASSUME TypeOK, CallInv, NEW c \in Calls, NEW err \in Errors,
         NEW val \in {"default", "reply"}, Return(c, err, val),
         \/ err = "Transport"
         \/ err = "Ok" /\ val = "reply" /\ answer[c].kind = "success"
         \/ err \in {"UnknownError", "Http"} /\ answer[c].kind \in {"failure", "status"}
  PROVE  CallInv'
<1>1. LifeCycle'
  BY DEF Return, TypeOK, CallInv, LifeCycle
<1>2. Execution'
  BY DEF Return, TypeOK, CallInv, Execution, serverVars
<1>3. InFlight'
  BY DEF Return, TypeOK, CallInv, InFlight, serverVars, Requests
<1>4. NoCopies'
  BY DEF Return, CallInv, NoCopies
<1> QED
  BY <1>1, <1>2, <1>3, <1>4 DEF CallInv

\* An answer that tells of no execution keeps the invariant.
LEMMA DeliverCall ==
  ASSUME TypeOK, CallInv, NEW m \in wire, NEW a \in Answers, a.kind # "success",
         Deliver(m, a), UNCHANGED <<callVars, applied>>
  PROVE  CallInv'
<1>1. m.call \in Calls
  BY DEF TypeOK, Requests
<1>2. pc[m.call] # "writing"
  BY DEF CallInv, InFlight
<1>3. LifeCycle'
  BY <1>1, <1>2 DEF Deliver, TypeOK, CallInv, LifeCycle, callVars
<1>4. Execution'
  BY <1>1 DEF Deliver, TypeOK, CallInv, Execution, InFlight, callVars
<1>5. InFlight'
  BY DEF Deliver, TypeOK, CallInv, InFlight, NoCopies, callVars, Requests
<1>6. NoCopies'
  BY DEF Deliver, CallInv, NoCopies
<1> QED
  BY <1>3, <1>4, <1>5, <1>6 DEF CallInv

\* Every step keeps the invariant about calls.
LEMMA NextCall == TypeOK /\ CallInv /\ [Next]_vars => CallInv'
<1> SUFFICES ASSUME TypeOK, CallInv, [Next]_vars PROVE CallInv'
  OBVIOUS
<1>1. ASSUME NEW h \in Hosts, SetHost(h) PROVE CallInv'
  BY <1>1, CallInvFrame DEF SetHost, serverVars
<1>2. ASSUME NEW p \in Paths, SetPath(p) PROVE CallInv'
  BY <1>2, CallInvFrame DEF SetPath, serverVars
<1>3. ASSUME NEW c \in Calls, CreateRequest(c) PROVE CallInv'
  <2>1. \A m \in wire : m.call # c
    BY <1>3 DEF CreateRequest, CallInv, InFlight
  <2>2. attempt[c] = 0
    BY <1>3 DEF CreateRequest, CallInv, LifeCycle
  <2>3. LifeCycle'
    BY <1>3, <2>2, ConstantsAssumption DEF CreateRequest, TypeOK, CallInv, LifeCycle
  <2>4. Execution'
    BY <1>3 DEF CreateRequest, TypeOK, CallInv, Execution, serverVars
  <2>5. InFlight' /\ NoCopies'
    BY <1>3, <2>1
    DEF CreateRequest, TypeOK, CallInv, InFlight, NoCopies, serverVars, Requests
  <2> QED
    BY <2>3, <2>4, <2>5 DEF CallInv
<1>4. ASSUME NEW c \in Calls, CallStep(c) PROVE CallInv'
  <2>1. CASE BeginRead(c)
    BY <2>1 DEF BeginRead, TypeOK, CallInv, LifeCycle, Execution, InFlight,
                NoCopies, serverVars, Requests
  <2>2. CASE Send(c)
    <3>1. PICK id \in {sessionId} \cup (IF c \in raced THEN {Torn} ELSE {}) :
            wire' = wire \cup {[call |-> c, attempt |-> attempt[c] + 1, id |-> id,
                                target |-> Destination(c)]}
      BY <2>2 DEF Send
    <3>2. \A m \in wire : m.call # c
      BY <2>2 DEF Send, CallInv, InFlight
    <3>3. LifeCycle'
      BY <2>2 DEF Send, TypeOK, CallInv, LifeCycle
    <3>4. Execution'
      BY <2>2 DEF Send, TypeOK, CallInv, Execution, serverVars, NoAnswer
    <3>5. InFlight'
      <4>1. applied[c] = 0
        BY <2>2 DEF Send, CallInv, Execution
      <4> SUFFICES ASSUME NEW m \in wire' PROVE InFlight!(m)'
        BY DEF InFlight
      <4>2. CASE m \in wire
        BY <2>2, <3>2, <4>2 DEF Send, TypeOK, CallInv, InFlight, serverVars, Requests
      <4>3. CASE m.call = c /\ m.attempt = attempt[c] + 1 /\ m.target = Destination(c)
        BY <2>2, <4>1, <4>3, DestinationType
        DEF Send, TypeOK, serverVars, NoAnswer
      <4> QED
        BY <3>1, <4>2, <4>3
    <3>6. NoCopies'
      BY <3>1, <3>2 DEF CallInv, NoCopies
    <3> QED
      BY <3>3, <3>4, <3>5, <3>6 DEF CallInv
  <2>3. CASE BeginWrite(c)
    <3>1. \A m \in wire : m.call # c
      BY <2>3 DEF BeginWrite, CallInv, InFlight
    <3> QED
      BY <2>3, <3>1 DEF BeginWrite, TypeOK, CallInv, LifeCycle, Execution, InFlight,
                        NoCopies, serverVars, Requests
  <2>4. CASE EndWrite(c)
    <3>1. \A m \in wire : m.call # c
      BY <2>4 DEF EndWrite, CallInv, InFlight
    <3>2. LifeCycle'
      BY <2>4, ConstantsAssumption DEF EndWrite, TypeOK, CallInv, LifeCycle
    <3>3. Execution'
      BY <2>4 DEF EndWrite, TypeOK, CallInv, LifeCycle, Execution, serverVars
    <3>4. InFlight' /\ NoCopies'
      BY <2>4, <3>1 DEF EndWrite, TypeOK, CallInv, InFlight, NoCopies, serverVars, Requests
    <3> QED
      BY <3>2, <3>3, <3>4 DEF CallInv
  <2>5. CASE ReturnSuccess(c) \/ ReturnFailure(c) \/ ReturnStatus(c)
             \/ ReturnTransportError(c)
    BY <2>5, ReturnCall
    DEF ReturnSuccess, ReturnFailure, ReturnStatus, ReturnTransportError
  <2> QED
    BY <1>4, <2>1, <2>2, <2>3, <2>4, <2>5 DEF CallStep
<1>5. ASSUME NEW m \in wire, ServerStep(m) PROVE CallInv'
  <2>1. m.call \in Calls /\ m.target.host \in Hosts
    BY DEF TypeOK, Requests
  <2>2. CASE ServerConflict(m)
    <3>1. PICK id \in {Current(m.target.host)} \cup (IF BareConflicts THEN {NoId} ELSE {}) :
            Deliver(m, Conflict(id))
      BY <2>2 DEF ServerConflict
    <3>2. Conflict(id) \in Answers /\ Conflict(id).kind # "success"
      BY <2>1, <3>1, CurrentType DEF Conflict, Answers, Ids
    <3> QED
      BY <2>2, <3>1, <3>2, DeliverCall DEF ServerConflict, serverVars
  <2>3. CASE ServerExecute(m)
    <3>1. pc[m.call] # "writing" /\ applied[m.call] = 0
      BY DEF CallInv, InFlight
    <3>2. LifeCycle'
      BY <2>1, <2>3, <3>1
      DEF ServerExecute, Deliver, TypeOK, CallInv, LifeCycle, callVars
    <3>3. Execution'
      <4>1. attempt[m.call] = m.attempt
        BY DEF CallInv, InFlight
      <4>2. \/ /\ pc[m.call] = "wait"
               /\ answer' = [answer EXCEPT ![m.call] = Final("success")]
            \/ /\ pc[m.call] = "returned" /\ error[m.call] = "Transport"
               /\ answer' = answer
        BY <2>3, <4>1 DEF ServerExecute, Deliver, CallInv, InFlight
      <4> QED
        BY <2>1, <2>3, <3>1, <4>2
        DEF ServerExecute, TypeOK, CallInv, Execution, callVars, Final
    <3>4. InFlight'
      BY <2>1, <2>3
      DEF ServerExecute, Deliver, TypeOK, CallInv, InFlight, NoCopies, callVars, Requests
    <3>5. NoCopies'
      BY <2>3 DEF ServerExecute, Deliver, CallInv, NoCopies
    <3> QED
      BY <3>2, <3>3, <3>4, <3>5 DEF CallInv
  <2>4. CASE ServerRefuse(m)
    <3>1. \A k \in {"failure", "status"} : Final(k) \in Answers /\ Final(k).kind # "success"
      BY DEF Final, Answers, Ids
    <3> QED
      BY <2>4, <3>1, DeliverCall DEF ServerRefuse, serverVars
  <2> QED
    BY <1>5, <2>2, <2>3, <2>4 DEF ServerStep
<1>6. ASSUME NEW h \in Hosts, Expire(h) PROVE CallInv'
  BY <1>6, CallInvFrame DEF Expire
<1>7. CASE UNCHANGED vars
  BY <1>7, CallInvFrame DEF vars, serverVars
<1> QED
  BY <1>1, <1>2, <1>3, <1>4, <1>5, <1>6, <1>7 DEF Next

\* The invariant about calls holds at the start.
LEMMA InitCall == Init => CallInv
  BY ConstantsAssumption DEF Init, CallInv, LifeCycle, Execution, InFlight, NoCopies

-----------------------------------------------------------------------------
(***************************************************************************)
(* The theorems about calls.                                               *)
(***************************************************************************)

\* The types and the invariant about calls always hold.
THEOREM CallsInvariant == Spec => [](TypeOK /\ CallInv)
<1>1. Init => TypeOK /\ CallInv
  BY InitType, InitCall
<1>2. TypeOK /\ CallInv /\ [Next]_vars => (TypeOK /\ CallInv)'
  BY NextType, NextCall DEF CallInv
<1> QED
  BY <1>1, <1>2, PTL DEF Spec

\* The variables keep their types: sessionId_ only ever holds the initial value,
\* an issued id, or what a bare 409 or a race left.
THEOREM TypeCorrect == Spec => []TypeOK
  BY CallsInvariant, PTL

\* The retry loop of sendRequest never has two requests of a call under way.
THEOREM RequestsGoOneByOne == Spec => []OneRequestAtATime
<1>1. CallInv => OneRequestAtATime
  BY DEF CallInv, InFlight, NoCopies, OneRequestAtATime
<1> QED
  BY <1>1, CallsInvariant, PTL

\* The server carries a call out at most once, and the outcome says whether.
THEOREM OutcomesAreTruthful == Spec => []OutcomeIsTruthful
<1>1. ASSUME TypeOK, CallInv PROVE OutcomeIsTruthful
  <2>1. ASSUME NEW c \in Calls PROVE applied[c] <= 1
    <3>1. applied[c] = 0 \/ applied[c] = 1
      BY <1>1 DEF CallInv, Execution
    <3> QED
      BY <3>1
  <2>2. ASSUME NEW c \in Calls, pc[c] = "returned"
        PROVE  /\ error[c] = "Ok" /\ value[c] = "reply" => applied[c] = 1
               /\ error[c] \in {"UnknownError", "Http"} => applied[c] = 0
               /\ error[c] = "Ok" /\ value[c] = "default" => applied[c] = 0
    BY <1>1, <2>2 DEF CallInv, Execution
  <2>3. ASSUME NEW c \in Calls, pc[c] = "returned", error[c] = "Ok", value[c] = "default"
        PROVE  attempt[c] = RetryCount
    BY <1>1, <2>3 DEF CallInv, LifeCycle
  <2> QED
    BY <2>1, <2>2, <2>3 DEF OutcomeIsTruthful
<1> QED
  BY <1>1, CallsInvariant, PTL

\* A request outlives its call only if the call returned a transport error.
THEOREM SettledCallsAreOver == Spec => []OnlyTransportErrorsLinger
<1>1. CallInv => OnlyTransportErrorsLinger
  BY DEF CallInv, InFlight, OnlyTransportErrorsLinger
<1> QED
  BY <1>1, CallsInvariant, PTL

-----------------------------------------------------------------------------
(***************************************************************************)
(* The retry loop ends: what fairness rests on.  The steps a call has left *)
(* are a number that nobody can raise.                                     *)
(***************************************************************************)

\* Four steps an attempt: read, reading, wait and writing.
StepsLeft(c) ==
  CASE pc[c] = "idle"     -> 4 * RetryCount + 1
    [] pc[c] = "read"     -> 4 * (RetryCount - attempt[c])
    [] pc[c] = "reading"  -> 4 * (RetryCount - attempt[c]) - 1
    [] pc[c] = "wait"     -> 4 * (RetryCount - attempt[c]) + 2
    [] pc[c] = "writing"  -> 4 * (RetryCount - attempt[c]) + 1
    [] pc[c] = "returned" -> 0

StepsAreLeft ==
  \A c \in Calls : /\ StepsLeft(c) \in 0 .. 4 * RetryCount + 1
                  /\ StepsLeft(c) = 0 <=> pc[c] = "returned"

CountsDown(c) ==
  /\ StepsLeft(c)' <= StepsLeft(c)
  /\ CreateRequest(c) \/ CallStep(c) => StepsLeft(c)' < StepsLeft(c)

StepsCountDown == \A c \in Calls : CountsDown(c)

\* What is left of one call is a number, 0 only if it has returned.
LEMMA StepsAreCounted ==
  ASSUME TypeOK, LifeCycle, NEW c \in Calls
  PROVE  /\ StepsLeft(c) \in 0 .. 4 * RetryCount + 1
         /\ StepsLeft(c) = 0 <=> pc[c] = "returned"
<1> DEFINE r == RetryCount
           a == attempt[c]
<1>1. /\ pc[c] \in Places /\ r \in Nat /\ a \in 0 .. r
      /\ pc[c] \in {"read", "reading"} => a < r
      /\ pc[c] \in {"wait", "writing"} => a > 0
  BY ConstantsAssumption DEF TypeOK, LifeCycle
<1>2. r > 0
  BY ConstantsAssumption
<1> HIDE DEF r, a
<1>3. CASE pc[c] = "idle"
  BY <1>1, <1>2, <1>3 DEF StepsLeft, r
<1>4. CASE pc[c] = "read"
  BY <1>1, <1>2, <1>4 DEF StepsLeft, r, a
<1>5. CASE pc[c] = "reading"
  BY <1>1, <1>2, <1>5 DEF StepsLeft, r, a
<1>6. CASE pc[c] = "wait"
  BY <1>1, <1>2, <1>6 DEF StepsLeft, r, a
<1>7. CASE pc[c] = "writing"
  BY <1>1, <1>2, <1>7 DEF StepsLeft, r, a
<1>8. CASE pc[c] = "returned"
  BY <1>1, <1>2, <1>8 DEF StepsLeft, r
<1> QED
  BY <1>1, <1>3, <1>4, <1>5, <1>6, <1>7, <1>8

\* A step of a call leaves it less to do, and the other calls as much as before.
LEMMA StepsOfACall ==
  ASSUME TypeOK, LifeCycle, NEW c \in Calls, CreateRequest(c) \/ CallStep(c)
  PROVE  /\ StepsLeft(c)' < StepsLeft(c) /\ StepsLeft(c)' <= StepsLeft(c)
         /\ \A d \in Calls \ {c} : pc'[d] = pc[d] /\ attempt'[d] = attempt[d]
<1> DEFINE r == RetryCount
           a == attempt[c]
<1>1. /\ r \in Nat /\ a \in 0 .. r /\ 0 < r
      /\ pc \in [Calls -> Places] /\ attempt \in [Calls -> 0 .. r]
      /\ pc[c] \in {"read", "reading"} => a < r
  BY ConstantsAssumption DEF TypeOK, LifeCycle
<1>2. CASE CreateRequest(c)
  <2>1. /\ pc[c] = "idle" /\ pc'[c] = "read" /\ attempt' = attempt
        /\ \A d \in Calls \ {c} : pc'[d] = pc[d]
    BY <1>1, <1>2 DEF CreateRequest
  <2>2. a = 0
    BY <2>1 DEF LifeCycle
  <2>3. StepsLeft(c) = 4 * r + 1 /\ StepsLeft(c)' = 4 * (r - a)
    BY <2>1 DEF StepsLeft
  <2> HIDE DEF r, a
  <2> QED
    BY <1>1, <2>1, <2>2, <2>3
<1>3. CASE BeginRead(c)
  <2>1. /\ pc[c] = "read" /\ pc'[c] = "reading" /\ attempt' = attempt
        /\ \A d \in Calls \ {c} : pc'[d] = pc[d]
    BY <1>1, <1>3 DEF BeginRead
  <2>2. StepsLeft(c) = 4 * (r - a) /\ StepsLeft(c)' = 4 * (r - a) - 1
    BY <2>1 DEF StepsLeft
  <2> HIDE DEF r, a
  <2> QED
    BY <1>1, <2>1, <2>2
<1>4. CASE Send(c)
  <2>1. /\ pc[c] = "reading" /\ pc'[c] = "wait" /\ attempt'[c] = a + 1
        /\ \A d \in Calls \ {c} : pc'[d] = pc[d] /\ attempt'[d] = attempt[d]
    BY <1>1, <1>4 DEF Send
  <2>2. StepsLeft(c) = 4 * (r - a) - 1 /\ StepsLeft(c)' = 4 * (r - (a + 1)) + 2
    BY <2>1 DEF StepsLeft
  <2> HIDE DEF r, a
  <2> QED
    BY <1>1, <2>1, <2>2
<1>5. CASE BeginWrite(c)
  <2>1. /\ pc[c] = "wait" /\ pc'[c] = "writing" /\ attempt' = attempt
        /\ \A d \in Calls \ {c} : pc'[d] = pc[d]
    BY <1>1, <1>5 DEF BeginWrite
  <2>2. StepsLeft(c) = 4 * (r - a) + 2 /\ StepsLeft(c)' = 4 * (r - a) + 1
    BY <2>1 DEF StepsLeft
  <2> HIDE DEF r, a
  <2> QED
    BY <1>1, <2>1, <2>2
<1>6. CASE EndWrite(c)
  <2>1. /\ pc[c] = "writing" /\ pc'[c] \in {"read", "returned"} /\ attempt' = attempt
        /\ \A d \in Calls \ {c} : pc'[d] = pc[d]
    BY <1>1, <1>6 DEF EndWrite
  <2>2. StepsLeft(c) = 4 * (r - a) + 1 /\ StepsLeft(c)' \in {4 * (r - a), 0}
    BY <2>1 DEF StepsLeft
  <2> HIDE DEF r, a
  <2> QED
    BY <1>1, <2>1, <2>2
<1>7. ASSUME NEW err, NEW val, Return(c, err, val)
      PROVE  /\ StepsLeft(c)' < StepsLeft(c) /\ StepsLeft(c)' <= StepsLeft(c)
             /\ \A d \in Calls \ {c} : pc'[d] = pc[d] /\ attempt'[d] = attempt[d]
  <2>1. /\ pc[c] = "wait" /\ pc'[c] = "returned" /\ attempt' = attempt
        /\ \A d \in Calls \ {c} : pc'[d] = pc[d]
    BY <1>1, <1>7 DEF Return
  <2>2. StepsLeft(c) = 4 * (r - a) + 2 /\ StepsLeft(c)' = 0
    BY <2>1 DEF StepsLeft
  <2> HIDE DEF r, a
  <2> QED
    BY <1>1, <2>1, <2>2
<1> QED
  BY <1>2, <1>3, <1>4, <1>5, <1>6, <1>7
  DEF CallStep, ReturnSuccess, ReturnFailure, ReturnStatus, ReturnTransportError

\* A call takes at most 4 * RetryCount + 1 steps, whatever the servers and the other
\* calls do: each of its steps leaves it less to do, no step of anybody leaves it more,
\* and it has nothing left just when it has returned.
THEOREM CallsCountDown == Spec => []StepsAreLeft /\ [][StepsCountDown]_vars
<1>1. TypeOK /\ CallInv => StepsAreLeft
  BY StepsAreCounted DEF CallInv, StepsAreLeft
<1>2. TypeOK /\ CallInv /\ [Next]_vars => [StepsCountDown]_vars
  <2>1. SUFFICES ASSUME TypeOK, LifeCycle, Next, NEW c \in Calls PROVE CountsDown(c)
    BY DEF CallInv, StepsCountDown
  <2>2. CASE CreateRequest(c) \/ CallStep(c)
    BY <2>1, <2>2, StepsOfACall DEF CountsDown
  <2>3. CASE ~ (CreateRequest(c) \/ CallStep(c))
    <3>1. pc'[c] = pc[c] /\ attempt'[c] = attempt[c]
      <4>1. ASSUME NEW d \in Calls, CreateRequest(d) \/ CallStep(d)
            PROVE  pc'[c] = pc[c] /\ attempt'[c] = attempt[c]
        BY <2>1, <2>3, <4>1, StepsOfACall
      <4>2. ASSUME \/ \E h \in Hosts : SetHost(h) \/ Expire(h)
                   \/ \E p \in Paths : SetPath(p)
                   \/ \E m \in wire : ServerStep(m)
            PROVE  pc'[c] = pc[c] /\ attempt'[c] = attempt[c]
        BY <4>2
        DEF SetHost, Expire, SetPath, ServerStep, ServerConflict, ServerExecute, ServerRefuse,
            callVars
      <4> QED
        BY <2>1, <4>1, <4>2 DEF Next
    <3>2. StepsLeft(c)' = StepsLeft(c)
      BY <3>1 DEF StepsLeft
    <3>3. StepsLeft(c) \in Int
      BY <2>1, StepsAreCounted, ConstantsAssumption
    <3> QED
      BY <2>3, <3>2, <3>3 DEF CountsDown
  <2> QED
    BY <2>2, <2>3
<1> QED
  BY <1>1, <1>2, CallsInvariant, PTL DEF Spec

-----------------------------------------------------------------------------
(***************************************************************************)
(* The answer to a conflict works.                                         *)
(***************************************************************************)

\* The knowledge of an undisturbed call, as one named formula.
Knowledge ==
  \A c \in Calls : Informed(c) /\ ~disturbed[c] => KnowsId(c) /\ c \notin raced

\* An answer to one call does not change what the other calls know.
LEMMA DeliverOthers ==
  ASSUME TypeOK, CallInv, RetryInv, NEW m \in wire, NEW a \in Answers, Deliver(m, a),
         UNCHANGED <<sessionVars, callVars, issued>>,
         NEW c \in Calls, c # m.call, disturbed'[c] = disturbed[c]
  PROVE  Informed(c)' /\ ~disturbed'[c] => KnowsId(c)' /\ c \notin raced'
<1>1. answer'[c] = answer[c]
  BY DEF Deliver, TypeOK
<1> QED
  BY <1>1 DEF RetryInv, Informed, KnowsId, Current, Writers, sessionVars, callVars

\* An answer other than a conflict leaves its call uninformed.
LEMMA DeliverFinal ==
  ASSUME TypeOK, CallInv, RetryInv, NEW m \in wire, NEW a \in Answers,
         a.kind \notin {"none", "conflict"}, Deliver(m, a),
         UNCHANGED <<sessionVars, callVars, issued, disturbed>>
  PROVE  RetryInv'
<1>1. m.call \in Calls
  BY DEF TypeOK, Requests
<1>2. RacedInv'
  BY DEF RetryInv, RacedInv, Readers, Writers, sessionVars, callVars
<1>3. ~Informed(m.call)'
  BY <1>1 DEF Deliver, TypeOK, CallInv, InFlight, Informed, callVars
<1>4. Knowledge'
  BY <1>3, DeliverOthers DEF Knowledge
<1>5. UndisturbedRetryIsAccepted'
  BY DEF Deliver, RetryInv, UndisturbedRetryIsAccepted, Current
<1> QED
  BY <1>2, <1>4, <1>5 DEF RetryInv, Knowledge

\* A call that returns knows nothing any more, and tells the others nothing.
LEMMA ReturnRetry ==
  ASSUME TypeOK, RetryInv, NEW c \in Calls, NEW err, NEW val, Return(c, err, val)
  PROVE  RetryInv'
<1>1. Readers' = Readers /\ Writers' = Writers
  BY DEF Return, TypeOK, Readers, Writers
<1>2. RacedInv'
  BY <1>1 DEF Return, RetryInv, RacedInv, sessionVars
<1>3. ASSUME NEW d \in Calls, Informed(d)', ~disturbed'[d]
      PROVE  KnowsId(d)' /\ d \notin raced'
  <2>1. d # c
    BY <1>3 DEF Return, TypeOK, Informed
  <2>2. Informed(d) /\ ~disturbed[d]
    BY <1>3, <2>1 DEF Return, TypeOK, Informed
  <2>3. KnowsId(d) /\ d \notin raced
    BY <2>2 DEF RetryInv
  <2> QED
    BY <1>1, <2>1, <2>3
    DEF Return, TypeOK, KnowsId, Current, sessionVars, serverVars
<1>4. UndisturbedRetryIsAccepted'
  BY DEF Return, RetryInv, UndisturbedRetryIsAccepted, Current, serverVars
<1> QED
  BY <1>2, <1>3, <1>4 DEF RetryInv

\* Nothing is known at the start.
LEMMA InitRetry == Init => RetryInv
  BY DEF Init, RetryInv, RacedInv, Informed, UndisturbedRetryIsAccepted

\* Every step keeps what undisturbed calls know.
LEMMA NextRetry == TypeOK /\ CallInv /\ RetryInv /\ [Next]_vars => RetryInv'
<1> SUFFICES ASSUME TypeOK, CallInv, RetryInv, [Next]_vars PROVE RetryInv'
  OBVIOUS
<1>1. ASSUME UNCHANGED <<sessionId, raced, callVars, answer, wire, serverVars,
                         disturbed>>
      PROVE  RetryInv'
  BY <1>1
  DEF RetryInv, RacedInv, Readers, Writers, Informed, KnowsId, Current,
      UndisturbedRetryIsAccepted, callVars, serverVars
<1>2. CASE \/ \E h \in Hosts : SetHost(h)
           \/ \E p \in Paths : SetPath(p)
           \/ UNCHANGED vars
  BY <1>1, <1>2 DEF SetHost, SetPath, vars, sessionVars
<1>3. ASSUME NEW c \in Calls, CreateRequest(c) PROVE RetryInv'
  <2>1. Readers' = Readers /\ Writers' = Writers
    BY <1>3 DEF CreateRequest, TypeOK, Readers, Writers
  <2>2. ~Informed(c)'
    BY <1>3 DEF CreateRequest, CallInv, LifeCycle, TypeOK, Informed
  <2>3. Knowledge'
    <3> SUFFICES ASSUME NEW d \in Calls, Informed(d)', ~disturbed'[d]
                 PROVE  KnowsId(d)' /\ d \notin raced'
      BY DEF Knowledge
    <3>1. d # c
      BY <2>2
    <3>2. Informed(d) /\ ~disturbed[d]
      BY <1>3, <3>1 DEF CreateRequest, TypeOK, Informed
    <3> QED
      BY <1>3, <2>1, <3>1, <3>2
      DEF CreateRequest, TypeOK, RetryInv, KnowsId, Current, sessionVars, serverVars
  <2>4. RacedInv' /\ UndisturbedRetryIsAccepted'
    BY <1>3, <2>1
    DEF CreateRequest, RetryInv, RacedInv, UndisturbedRetryIsAccepted, Current,
        sessionVars, serverVars
  <2> QED
    BY <2>3, <2>4 DEF RetryInv, Knowledge
<1>4. ASSUME NEW c \in Calls, CallStep(c) PROVE RetryInv'
  <2>1. CASE BeginRead(c)
    <3>1. Writers' = Writers /\ Readers' = Readers \cup {c}
      BY <2>1 DEF BeginRead, TypeOK, Readers, Writers
    <3>2. RacedInv'
      BY <2>1, <3>1 DEF BeginRead, RetryInv, RacedInv
    <3>3. ASSUME NEW d \in Calls, Informed(d)', ~disturbed'[d]
          PROVE  KnowsId(d)' /\ d \notin raced'
      <4>1. Informed(d) /\ ~disturbed[d]
        BY <2>1, <3>3 DEF BeginRead, TypeOK, Informed
      <4>2. KnowsId(d) /\ d \notin raced
        BY <4>1 DEF RetryInv
      <4>3. d \notin raced'
        BY <2>1, <4>2 DEF BeginRead, KnowsId, Writers
      <4> QED
        BY <2>1, <3>1, <4>2, <4>3 DEF BeginRead, TypeOK, KnowsId, Current, serverVars
    <3>4. UndisturbedRetryIsAccepted'
      BY <2>1 DEF BeginRead, RetryInv, UndisturbedRetryIsAccepted, Current, serverVars
    <3> QED
      BY <3>2, <3>3, <3>4 DEF RetryInv
  <2>2. CASE Send(c)
    <3>1. PICK id \in {sessionId} \cup (IF c \in raced THEN {Torn} ELSE {}) :
            wire' = wire \cup {[call |-> c, attempt |-> attempt[c] + 1, id |-> id,
                                target |-> Destination(c)]}
      BY <2>2 DEF Send
    <3>2. Writers' = Writers /\ Readers' = Readers \ {c}
      BY <2>2 DEF Send, TypeOK, Readers, Writers
    <3>3. RacedInv'
      BY <2>2, <3>2 DEF Send, RetryInv, RacedInv, Writers
    <3>4. ASSUME NEW d \in Calls, Informed(d)', ~disturbed'[d]
          PROVE  KnowsId(d)' /\ d \notin raced'
      <4>1. d # c
        BY <2>2, <3>4 DEF Send, TypeOK, Informed, NoAnswer
      <4>2. Informed(d) /\ ~disturbed[d]
        BY <2>2, <3>4, <4>1 DEF Send, TypeOK, Informed
      <4> QED
        BY <2>2, <3>2, <4>1, <4>2
        DEF Send, TypeOK, RetryInv, KnowsId, Current, serverVars
    <3>5. attempt[c] > 0 /\ ~disturbed[c] => id = Current(Destination(c).host)
      BY <2>2, <3>1, DestinationType DEF Send, RetryInv, Informed, KnowsId
    <3>6. UndisturbedRetryIsAccepted'
      <4> SUFFICES ASSUME NEW m \in wire', m.attempt > 1, ~disturbed'[m.call]
                   PROVE  m.id = Current(m.target.host)'
        BY DEF UndisturbedRetryIsAccepted
      <4>1. CASE m \in wire
        BY <2>2, <4>1 DEF Send, RetryInv, UndisturbedRetryIsAccepted, Current, serverVars
      <4>2. CASE m = [call |-> c, attempt |-> attempt[c] + 1, id |-> id,
                      target |-> Destination(c)]
        <5>1. attempt[c] > 0
          BY <4>2 DEF TypeOK
        <5> QED
          BY <2>2, <3>5, <4>2, <5>1 DEF Send, Current, serverVars
      <4> QED
        BY <3>1, <4>1, <4>2
    <3> QED
      BY <3>3, <3>4, <3>6 DEF RetryInv
  <2>3. CASE BeginWrite(c)
    <3>1. Writers' = Writers \cup {c} /\ Readers' = Readers
      BY <2>3 DEF BeginWrite, TypeOK, Readers, Writers
    <3>2. RacedInv'
      BY <2>3, <3>1 DEF BeginWrite, RetryInv, RacedInv
    <3>3. ASSUME NEW d \in Calls, Informed(d)', ~disturbed'[d]
          PROVE  KnowsId(d)' /\ d \notin raced'
      <4>1. d = c /\ ~disturbed[c]
        BY <2>3, <3>3 DEF BeginWrite, Disturb, TypeOK
      <4>2. KnowsId(c) /\ c \notin raced /\ c \notin Readers /\ c \notin Writers
        BY <2>3, <4>1
        DEF BeginWrite, CallInv, LifeCycle, RetryInv, Informed, Readers, Writers
      <4>3. Writers = {}
        BY <4>2 DEF KnowsId
      <4> QED
        BY <2>3, <3>1, <4>1, <4>2, <4>3
        DEF BeginWrite, TypeOK, KnowsId, Current, serverVars
    <3>4. UndisturbedRetryIsAccepted'
      BY <2>3
      DEF BeginWrite, Disturb, TypeOK, Requests, RetryInv, UndisturbedRetryIsAccepted,
          Current, serverVars
    <3> QED
      BY <3>2, <3>3, <3>4 DEF RetryInv
  <2>4. CASE EndWrite(c)
    <3>1. Writers' = Writers \ {c} /\ Readers' = Readers
      BY <2>4 DEF EndWrite, TypeOK, Readers, Writers
    <3>2. RacedInv'
      BY <2>4, <3>1 DEF EndWrite, RetryInv, RacedInv, Readers
    <3>3. ASSUME NEW d \in Calls, Informed(d)', ~disturbed'[d]
          PROVE  KnowsId(d)' /\ d \notin raced'
      <4>1. d = c /\ ~disturbed[c]
        BY <2>4, <3>3 DEF EndWrite, Disturb, TypeOK
      <4>2. KnowsId(c) /\ c \notin raced
        BY <2>4, <4>1 DEF EndWrite, CallInv, LifeCycle, RetryInv, Informed
      <4>3. sessionId' = Current(target[c].host) /\ Writers' \subseteq {c}
        BY <2>4, <3>1, <4>2 DEF EndWrite, KnowsId
      <4>4. pc'[c] \in {"read", "returned"}
        BY <2>4 DEF EndWrite, TypeOK
      <4> QED
        BY <2>4, <4>1, <4>2, <4>3, <4>4 DEF EndWrite, KnowsId, Current, serverVars
    <3>4. UndisturbedRetryIsAccepted'
      BY <2>4
      DEF EndWrite, Disturb, TypeOK, Requests, RetryInv, UndisturbedRetryIsAccepted,
          Current, serverVars
    <3> QED
      BY <3>2, <3>3, <3>4 DEF RetryInv
  <2>5. CASE ReturnSuccess(c) \/ ReturnFailure(c) \/ ReturnStatus(c)
             \/ ReturnTransportError(c)
    BY <2>5, ReturnRetry
    DEF ReturnSuccess, ReturnFailure, ReturnStatus, ReturnTransportError
  <2> QED
    BY <1>4, <2>1, <2>2, <2>3, <2>4, <2>5 DEF CallStep
<1>5. ASSUME NEW m \in wire, ServerStep(m) PROVE RetryInv'
  <2>1. m.call \in Calls /\ m.target.host \in Hosts
    BY DEF TypeOK, Requests
  <2>2. CASE ServerConflict(m)
    <3>1. PICK id \in {Current(m.target.host)} \cup (IF BareConflicts THEN {NoId} ELSE {}) :
            /\ Deliver(m, Conflict(id))
            /\ disturbed' = [disturbed EXCEPT
                               ![m.call] = id = NoId \/ Writers \ {m.call} # {}]
      BY <2>2 DEF ServerConflict
    <3>2. Conflict(id) \in Answers
      BY <2>1, <3>1, CurrentType DEF Conflict, Answers, Ids
    <3>3. RacedInv'
      BY <2>2 DEF ServerConflict, RetryInv, RacedInv, Readers, Writers, sessionVars, callVars
    <3>4. ASSUME NEW c \in Calls, Informed(c)', ~disturbed'[c]
          PROVE  KnowsId(c)' /\ c \notin raced'
      <4>1. CASE c # m.call
        <5>1. disturbed'[c] = disturbed[c]
          BY <3>1, <4>1 DEF TypeOK
        <5> QED
          BY <2>2, <3>1, <3>2, <3>4, <4>1, <5>1, DeliverOthers
          DEF ServerConflict, serverVars
      <4>2. CASE c = m.call
        <5>1. pc[c] = "wait" /\ attempt[c] = m.attempt /\ target[c].host = m.target.host
          BY <2>2, <3>4, <4>2 DEF ServerConflict, CallInv, InFlight, Informed, callVars
        <5>2. answer'[c] = Conflict(id)
          BY <2>1, <3>1, <4>2, <5>1 DEF Deliver, TypeOK
        <5>3. id # NoId /\ Writers \ {c} = {}
          BY <2>1, <3>1, <3>4, <4>2 DEF TypeOK
        <5>4. id = Current(target[c].host)
          BY <3>1, <5>1, <5>3
        <5>5. c \notin raced
          BY <5>1 DEF RetryInv, RacedInv, Readers, Writers
        <5> QED
          BY <2>2, <5>1, <5>2, <5>3, <5>4, <5>5
          DEF ServerConflict, KnowsId, Conflict, Current, Writers, sessionVars,
              callVars, serverVars
      <4> QED
        BY <4>1, <4>2
    <3>5. UndisturbedRetryIsAccepted'
      <4>1. \A n \in wire' : n \in wire /\ n.call # m.call
        BY <3>1 DEF Deliver, CallInv, NoCopies
      <4> QED
        BY <2>2, <3>1, <4>1
        DEF ServerConflict, TypeOK, Requests, RetryInv, UndisturbedRetryIsAccepted,
            Current, serverVars
    <3> QED
      BY <3>3, <3>4, <3>5 DEF RetryInv
  <2>3. CASE ServerExecute(m) \/ ServerRefuse(m)
    <3>1. \A k \in {"success", "failure", "status"} :
            Final(k) \in Answers /\ Final(k).kind \notin {"none", "conflict"}
      BY DEF Final, Answers, Ids
    <3> QED
      BY <2>3, <3>1, DeliverFinal DEF ServerExecute, ServerRefuse, serverVars
  <2> QED
    BY <1>5, <2>2, <2>3 DEF ServerStep
<1>6. ASSUME NEW h \in Hosts, Expire(h) PROVE RetryInv'
  <2>1. RacedInv'
    BY <1>6 DEF Expire, RetryInv, RacedInv, Readers, Writers, sessionVars, callVars
  <2>2. \A g \in Hosts : g # h => Current(g)' = Current(g)
    BY <1>6 DEF Expire, TypeOK, Current
  <2>3. \A c \in Calls : ~disturbed'[c] => ~disturbed[c] /\ target[c].host # h
    BY <1>6 DEF Expire, Disturb, TypeOK
  <2>4. Knowledge'
    BY <1>6, <2>2, <2>3
    DEF Expire, TypeOK, RetryInv, Knowledge, Informed, KnowsId, Writers, sessionVars,
        callVars
  <2>5. UndisturbedRetryIsAccepted'
    BY <1>6, <2>2, <2>3
    DEF Expire, TypeOK, Requests, CallInv, InFlight, RetryInv, UndisturbedRetryIsAccepted
  <2> QED
    BY <2>1, <2>4, <2>5 DEF RetryInv, Knowledge
<1> QED
  BY <1>2, <1>3, <1>4, <1>5, <1>6 DEF Next

\* The retry after a 409 carries the valid session id, unless the server expired
\* it meanwhile or another thread was writing sessionId_.
THEOREM RetriesWork == Spec => []UndisturbedRetryIsAccepted
<1>1. Init => RetryInv
  BY InitRetry
<1>2. TypeOK /\ CallInv /\ RetryInv /\ [Next]_vars => RetryInv'
  BY NextRetry
<1>3. RetryInv => UndisturbedRetryIsAccepted
  BY DEF RetryInv
<1> QED
  BY <1>1, <1>2, <1>3, CallsInvariant, PTL DEF Spec

-----------------------------------------------------------------------------
(***************************************************************************)
(* sendRequest implements RpcContract.                                     *)
(***************************************************************************)

\* The contract's variables change only with what they are computed from.
LEMMA ContractFrame ==
  ASSUME UNCHANGED <<pc, error, value, applied>>
  PROVE  UNCHANGED Contract!vars
  BY DEF Contract!vars, Phase, Outcome

\* A step inside a call that the contract does not see.
LEMMA InnerStep ==
  ASSUME TypeOK, NEW c \in Calls, NEW to \in Places,
         pc[c] \notin {"idle", "returned"}, to \notin {"idle", "returned"},
         pc' = [pc EXCEPT ![c] = to], UNCHANGED <<error, value, applied>>
  PROVE  UNCHANGED Contract!vars
<1>1. \A d \in Calls : Phase(d)' = Phase(d) /\ Outcome(d)' = Outcome(d)
  BY DEF TypeOK, Phase, Outcome
<1> QED
  BY <1>1 DEF Contract!vars

\* The end of a call is a Return of the contract.
LEMMA ReturnStep ==
  ASSUME TypeOK, CallInv, NEW c \in Calls, pc[c] \in {"wait", "writing"},
         pc' = [pc EXCEPT ![c] = "returned"],
         \A d \in Calls \ {c} : error'[d] = error[d] /\ value'[d] = value[d],
         UNCHANGED applied,
         Outcome(c)' \in {"answered", "refused", "unanswered", "unknown"},
         Outcome(c)' = "answered" => applied[c] = 1,
         Outcome(c)' \in {"refused", "unanswered"} => applied[c] = 0
  PROVE  Contract!Next
<1>1. \A d \in Calls \ {c} : Phase(d)' = Phase(d) /\ Outcome(d)' = Outcome(d)
  BY DEF TypeOK, Phase, Outcome
<1>2. Phase(c) = "running" /\ Phase(c)' = "returned"
  BY DEF TypeOK, Phase
<1>3. Contract!Return(c, Outcome(c)')
  BY <1>1, <1>2 DEF Contract!Return
<1> QED
  BY <1>3 DEF Contract!Next, Contract!Outcomes

\* Every step of sendRequest is a step of the contract, or none.
LEMMA NextContract == TypeOK /\ CallInv /\ [Next]_vars => [Contract!Next]_(Contract!vars)
<1> SUFFICES ASSUME TypeOK, CallInv, [Next]_vars
             PROVE  Contract!Next \/ UNCHANGED Contract!vars
  OBVIOUS
<1>1. CASE \/ \E h \in Hosts : SetHost(h) \/ Expire(h)
           \/ \E p \in Paths : SetPath(p)
           \/ UNCHANGED vars
  BY <1>1, ContractFrame DEF SetHost, SetPath, Expire, vars, callVars, serverVars
<1>2. ASSUME NEW c \in Calls, CreateRequest(c) PROVE Contract!Next
  <2>1. \A d \in Calls : Outcome(d)' = Outcome(d)
    BY <1>2 DEF CreateRequest, TypeOK, Outcome
  <2>2. /\ Phase(c) = "idle" /\ Phase(c)' = "running"
        /\ \A d \in Calls \ {c} : Phase(d)' = Phase(d)
    BY <1>2 DEF CreateRequest, TypeOK, Phase
  <2>3. Contract!Start(c)
    BY <1>2, <2>1, <2>2 DEF CreateRequest, Contract!Start, serverVars
  <2> QED
    BY <2>3 DEF Contract!Next
<1>3. ASSUME NEW c \in Calls, CallStep(c) PROVE Contract!Next \/ UNCHANGED Contract!vars
  <2>1. CASE BeginRead(c) \/ Send(c) \/ BeginWrite(c)
    BY <2>1, InnerStep DEF BeginRead, Send, BeginWrite, serverVars
  <2>2. CASE EndWrite(c) /\ attempt[c] < RetryCount
    BY <2>2, InnerStep DEF EndWrite, serverVars
  <2>3. CASE EndWrite(c) /\ ~(attempt[c] < RetryCount)
    <3>1. error[c] = "Ok" /\ value[c] = "default" /\ applied[c] = 0
      BY <2>3 DEF EndWrite, CallInv, LifeCycle, Execution
    <3>2. pc' = [pc EXCEPT ![c] = "returned"] /\ UNCHANGED <<error, value, applied>>
      BY <2>3 DEF EndWrite, serverVars
    <3>3. Outcome(c)' = "unanswered"
      BY <3>1, <3>2 DEF TypeOK, Outcome
    <3> QED
      BY <2>3, <3>1, <3>2, <3>3, ReturnStep DEF EndWrite
  <2>4. ASSUME NEW err \in Errors, NEW val \in {"default", "reply"},
               Return(c, err, val),
               \/ err = "Transport"
               \/ err = "Ok" /\ val = "reply" /\ answer[c].kind = "success"
               \/ err \in {"UnknownError", "Http"} /\ answer[c].kind \in {"failure", "status"}
        PROVE  Contract!Next
    <3>1. /\ pc[c] = "wait" /\ pc' = [pc EXCEPT ![c] = "returned"]
          /\ error'[c] = err /\ value'[c] = val
          /\ \A d \in Calls \ {c} : error'[d] = error[d] /\ value'[d] = value[d]
          /\ UNCHANGED applied
      BY <2>4 DEF Return, TypeOK, serverVars
    <3>2. CASE err = "Transport"
      <4>1. Outcome(c)' = "unknown"
        BY <3>1, <3>2 DEF TypeOK, Outcome
      <4> QED
        BY <3>1, <4>1, ReturnStep
    <3>3. CASE err = "Ok" /\ val = "reply" /\ answer[c].kind = "success"
      <4>1. Outcome(c)' = "answered"
        BY <3>1, <3>3 DEF TypeOK, Outcome
      <4>2. applied[c] = 1
        BY <3>1, <3>3 DEF CallInv, Execution
      <4> QED
        BY <3>1, <4>1, <4>2, ReturnStep
    <3>4. CASE err \in {"UnknownError", "Http"} /\ answer[c].kind \in {"failure", "status"}
      <4>1. Outcome(c)' = "refused"
        BY <3>1, <3>4 DEF TypeOK, Outcome
      <4>2. applied[c] = 0
        BY <3>1, <3>4 DEF CallInv, Execution
      <4> QED
        BY <3>1, <4>1, <4>2, ReturnStep
    <3> QED
      BY <2>4, <3>2, <3>3, <3>4
  <2> QED
    BY <1>3, <2>1, <2>2, <2>3, <2>4
    DEF CallStep, ReturnSuccess, ReturnFailure, ReturnStatus, ReturnTransportError
<1>4. ASSUME NEW m \in wire, ServerStep(m) PROVE Contract!Next \/ UNCHANGED Contract!vars
  <2>1. CASE ServerConflict(m) \/ ServerRefuse(m)
    BY <2>1, ContractFrame DEF ServerConflict, ServerRefuse, callVars, serverVars
  <2>2. CASE ServerExecute(m)
    <3>1. m.call \in Calls /\ applied[m.call] = 0
      BY DEF TypeOK, Requests, CallInv, InFlight
    <3>2. applied' = [applied EXCEPT ![m.call] = 1] /\ UNCHANGED callVars
      BY <2>2, <3>1 DEF ServerExecute, TypeOK
    <3>3. Phase(m.call) = "running" \/ Outcome(m.call) = "unknown"
      BY <3>1 DEF CallInv, InFlight, Phase, Outcome
    <3>4. \A c \in Calls : Phase(c)' = Phase(c) /\ Outcome(c)' = Outcome(c)
      BY <3>2 DEF Phase, Outcome, callVars
    <3>5. Contract!Apply(m.call)
      BY <3>1, <3>2, <3>3, <3>4 DEF Contract!Apply
    <3> QED
      BY <3>1, <3>5 DEF Contract!Next
  <2> QED
    BY <1>4, <2>1, <2>2 DEF ServerStep
<1> QED
  BY <1>1, <1>2, <1>3, <1>4 DEF Next

\* What sendRequest does, as its callers and the servers see it, is what the
\* contract allows.
THEOREM SendRequestIsRpc == Spec => ContractHolds
<1>1. Init => Contract!Init
  BY DEF Init, Contract!Init, Phase, Outcome
<1>2. TypeOK /\ CallInv /\ [Next]_vars => [Contract!Next]_(Contract!vars)
  BY NextContract
<1> QED
  BY <1>1, <1>2, CallsInvariant, PTL DEF Spec, ContractHolds, Contract!Spec
=============================================================================
