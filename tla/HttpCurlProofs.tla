--------------------------- MODULE HttpCurlProofs ---------------------------
(***************************************************************************)
(* Theorems about HttpCurl, for any number of threads, handles, lists and  *)
(* settings, and bodies of any length.                                     *)
(*                                                                         *)
(* The inductive invariant IInv says who owns the handles and the lists    *)
(* (Life, HandlesOwned, ListsOwned), that the options of the client's own  *)
(* handle are the ones its fields say (Mirror), and how much of an answer  *)
(* has been appended (Received).                                           *)
(***************************************************************************)
EXTENDS HttpCurl, TLAPS

\* A request exists until it is destroyed, and is sent only with a handle.
Life ==
  \A t \in Threads :
    /\ request[t].created <=> pc[t] # "idle"
    /\ pc[t] = "performing" => request[t].handle_ # Null

\* A handle is alive as long as a request has it, and only one does.
HandlesOwned ==
  /\ \A h \in Handles :
       handle[h].alive <=> \E t \in Threads : request[t].created /\ request[t].handle_ = h
  /\ \A t, u \in WithHandle : request[t].handle_ = request[u].handle_ => t = u

\* A list is alive as long as a sending has it, and only one does.
ListsOwned ==
  /\ \A l \in Lists : list[l].alive <=> \E t \in Sending : ListOf(t) = l
  /\ \A t, u \in Sending : ListOf(t) = ListOf(u) => t = u
  /\ \A t \in Sending : ListOf(t) \in Lists /\ list[ListOf(t)].headers = request[t].headers_

\* What is set on the client's handle is what its fields say.
FieldOptions == [verify |-> client.sslErrorHandlingEnabled_, timeout |-> client.timeout_]
Mirror == handle_ = FieldOptions

\* What has not been appended of an answer is still to come.
Received ==
  \A t \in Threads :
    /\ answer[t] = NoAnswer => text[t] = 0
    /\ answer[t] # NoAnswer => pc[t] = "performing" /\ text[t] + answer[t].left = Chunks

\* The inductive invariant.
IInv == TypeOK /\ Life /\ HandlesOwned /\ ListsOwned /\ Mirror /\ Received

\* What a step of one thread leaves alone: the settings of the others' requests.
Untouched(t) == \A u \in Threads \ {t} : SettingsOf(u)' = SettingsOf(u)

-----------------------------------------------------------------------------
\* Records are told apart by the fields that say whether they are one.
LEMMA RecordFacts ==
  /\ ~Freed.alive /\ ~NoRequest.created
  /\ \A h \in LiveHandles : h.alive /\ h # Freed /\ h.to \in RequestSet
                            /\ h.httpHeader \in Lists \cup {Null}
  /\ \A l \in LiveLists : l.alive /\ l # Freed /\ l.headers \in Headers
  /\ \A r \in Requests : /\ r.created /\ r # NoRequest
                         /\ r.handle_ \in Handles \cup {Null} /\ r.headers_ \in Headers
  /\ \A a \in Answers : a # NoAnswer /\ a.status \in Statuses /\ a.left \in 0 .. Chunks
  /\ \A r \in Results : r # NoResult
<1>1. ~Freed.alive /\ ~NoRequest.created
  BY DEF Freed, NoRequest
<1>2. \A h \in LiveHandles : h.alive /\ h # Freed /\ h.to \in RequestSet
                             /\ h.httpHeader \in Lists \cup {Null}
  <2>1. \A h \in LiveHandles : h.alive = TRUE /\ h.to \in RequestSet
                               /\ h.httpHeader \in Lists \cup {Null}
    BY DEF LiveHandles
  <2>2. QED
    BY <1>1, <2>1
<1>3. \A l \in LiveLists : l.alive /\ l # Freed /\ l.headers \in Headers
  <2>1. \A l \in LiveLists : l.alive = TRUE /\ l.headers \in Headers
    BY DEF LiveLists
  <2>2. QED
    BY <1>1, <2>1
<1>4. \A r \in Requests : /\ r.created /\ r # NoRequest
                          /\ r.handle_ \in Handles \cup {Null} /\ r.headers_ \in Headers
  <2>1. \A r \in Requests : /\ r.created = TRUE
                            /\ r.handle_ \in Handles \cup {Null} /\ r.headers_ \in Headers
    BY DEF Requests
  <2>2. QED
    BY <1>1, <2>1
<1>5. \A a \in Answers : a # NoAnswer /\ a.status \in Statuses /\ a.left \in 0 .. Chunks
  <2>1. NoAnswer.answered = FALSE
    BY DEF NoAnswer
  <2>2. \A a \in Answers : a.answered = TRUE /\ a.status \in Statuses /\ a.left \in 0 .. Chunks
    BY DEF Answers
  <2>3. QED
    BY <2>1, <2>2
<1>6. \A r \in Results : r # NoResult
  <2>1. NoResult.returned = FALSE
    BY DEF NoResult
  <2>2. \A r \in Results : r.returned = TRUE
    BY DEF Results
  <2>3. QED
    BY <2>1, <2>2
<1>7. QED
  BY <1>1, <1>2, <1>3, <1>4, <1>5, <1>6

\* What createRequest takes from the settings has its type.
LEMMA SettingTypes ==
  ASSUME TypeOK
  PROVE  CurrentSettings \in RequestSet /\ RequestOf(client, handle_) \in RequestSet
<1>1. client \in Clients /\ handle_ \in Options /\ client.port_ \in Ports /\ Ports \subseteq Int
  BY HttpCurlAssumption DEF TypeOK, Clients
<1>2. CurrentSettings.port \in {p \in Ports : p > 0} \cup {NoPort}
  <2>1. client.port_ \in Int
    BY <1>1
  <2>2. client.port_ <= 0 \/ client.port_ > 0
    BY <2>1
  <2>3. CurrentSettings.port = IF client.port_ <= 0 THEN NoPort ELSE client.port_
    BY DEF CurrentSettings
  <2>4. QED
    BY <1>1, <2>2, <2>3
<1>3. CurrentSettings \in RequestSet
  BY <1>1, <1>2 DEF Clients, CurrentSettings, RequestSet
<1>4. RequestOf(client, handle_) \in RequestSet
  BY <1>1 DEF Clients, Options, RequestOf, RequestSet
<1>5. QED
  BY <1>3, <1>4

\* The same after a step.
LEMMA SettingTypesAfter ==
  ASSUME TypeOK'
  PROVE  CurrentSettings' \in RequestSet
<1>1. client' \in Clients /\ client'.port_ \in Ports /\ Ports \subseteq Int
  BY HttpCurlAssumption DEF TypeOK, Clients
<1>2. CurrentSettings'.port \in {p \in Ports : p > 0} \cup {NoPort}
  <2>1. client'.port_ \in Int
    BY <1>1
  <2>2. client'.port_ <= 0 \/ client'.port_ > 0
    BY <2>1
  <2>3. CurrentSettings'.port = IF client'.port_ <= 0 THEN NoPort ELSE client'.port_
    BY DEF CurrentSettings
  <2>4. QED
    BY <1>1, <2>2, <2>3
<1>3. QED
  BY <1>1, <1>2 DEF Clients, CurrentSettings, RequestSet

LEMMA InitInv == Init => IInv
<1> SUFFICES ASSUME Init PROVE IInv
  OBVIOUS
<1> USE DEF Init
<1>1. TypeOK
  BY HttpCurlAssumption DEF TypeOK, Clients, Options
<1>2. Life
  BY RecordFacts DEF Life
<1>3. HandlesOwned
  BY RecordFacts DEF HandlesOwned, WithHandle
<1>4. ListsOwned
  BY RecordFacts DEF ListsOwned, Sending
<1>5. Mirror
  BY DEF Mirror, FieldOptions
<1>6. Received
  BY DEF Received
<1>7. QED
  BY <1>1, <1>2, <1>3, <1>4, <1>5, <1>6 DEF IInv

\* Setters change nothing of the requests.
LEMMA SetterInv ==
  ASSUME IInv, Setter
  PROVE  IInv' /\ UNCHANGED <<handle, pc, request, sendVars>>
<1>1. UNCHANGED <<handle, pc, request, sendVars>>
  BY DEF Setter, setHost, setPort, setPath, setAuthentication, setCredentials,
     setSSLErrorHandling, setTimeout
<1>2. client \in Clients /\ handle_ \in Options /\ handle_ = FieldOptions
  BY DEF IInv, TypeOK, Mirror
<1>3. client' \in Clients /\ handle_' \in Options /\ Mirror'
  <2> USE <1>2 DEF Clients, Options, Mirror, FieldOptions
  <2>1. ASSUME NEW host \in Hosts, setHost(host)
        PROVE  client' \in Clients /\ handle_' \in Options /\ Mirror'
    BY <2>1 DEF setHost
  <2>2. ASSUME NEW port \in Ports, setPort(port)
        PROVE  client' \in Clients /\ handle_' \in Options /\ Mirror'
    BY <2>2 DEF setPort
  <2>3. ASSUME NEW path \in Paths, setPath(path)
        PROVE  client' \in Clients /\ handle_' \in Options /\ Mirror'
    BY <2>3 DEF setPath
  <2>4. ASSUME NEW enabled \in BOOLEAN, setAuthentication(enabled)
        PROVE  client' \in Clients /\ handle_' \in Options /\ Mirror'
    BY <2>4 DEF setAuthentication
  <2>5. ASSUME NEW user \in Users, setCredentials(user)
        PROVE  client' \in Clients /\ handle_' \in Options /\ Mirror'
    BY <2>5 DEF setCredentials
  <2>6. ASSUME NEW acknowledge \in BOOLEAN, setSSLErrorHandling(acknowledge)
        PROVE  client' \in Clients /\ handle_' \in Options /\ Mirror'
    BY <2>6 DEF setSSLErrorHandling
  <2>7. ASSUME NEW ms \in Timeouts, setTimeout(ms)
        PROVE  client' \in Clients /\ handle_' \in Options /\ Mirror'
    BY <2>7 DEF setTimeout
  <2>8. QED
    BY <2>1, <2>2, <2>3, <2>4, <2>5, <2>6, <2>7 DEF Setter
<1>4. TypeOK'
  BY <1>1, <1>3 DEF IInv, TypeOK, sendVars
<1>5. Life' /\ HandlesOwned' /\ ListsOwned' /\ Received'
  BY <1>1 DEF IInv, Life, HandlesOwned, ListsOwned, Received, WithHandle, Sending, ListOf,
     HandleOf, sendVars
<1>6. QED
  BY <1>1, <1>3, <1>4, <1>5 DEF IInv

\* createRequest takes a handle nobody has, or none.
LEMMA CreateRequestInv ==
  ASSUME IInv, NEW t \in Threads, createRequest(t)
  PROVE  /\ IInv' /\ Untouched(t)
         /\ SettingsOf(t) = NoRequest /\ SettingsOf(t)' \in {CurrentSettings, Unreachable}
<1> USE DEF createRequest
<1>1. PICK h \in {g \in Handles : handle[g] = Freed} \cup {Null} :
        /\ request' = [request EXCEPT ![t] =
                         [created |-> TRUE, handle_ |-> h, headers_ |-> NoHeaders]]
        /\ handle' = [g \in Handles |->
                        IF g = h THEN [alive |-> TRUE, to |-> RequestOf(client, handle_),
                                       body |-> Null, httpHeader |-> Null]
                        ELSE handle[g]]
  OBVIOUS
<1> DEFINE new == [alive |-> TRUE, to |-> RequestOf(client, handle_),
                   body |-> Null, httpHeader |-> Null]
<1>2. TypeOK /\ pc[t] = "idle" /\ ~request[t].created
  BY DEF IInv, Life
<1>3. /\ pc' = [pc EXCEPT ![t] = "ready"] /\ UNCHANGED <<client, handle_, sendVars>>
      /\ pc \in [Threads -> {"idle", "ready", "performing"}]
      /\ request \in [Threads -> {NoRequest} \cup Requests]
      /\ handle \in [Handles -> {Freed} \cup LiveHandles]
  BY <1>2 DEF TypeOK, settingVars
<1>4. new \in LiveHandles
  BY <1>2, SettingTypes DEF LiveHandles
<1>5. [created |-> TRUE, handle_ |-> h, headers_ |-> NoHeaders] \in Requests
  BY DEF Requests, NoHeaders, Headers
<1>6. /\ handle' \in [Handles -> {Freed} \cup LiveHandles]
      /\ request' \in [Threads -> {NoRequest} \cup Requests]
  BY <1>1, <1>3, <1>4, <1>5
<1>7. TypeOK'
  BY <1>2, <1>3, <1>6 DEF TypeOK, sendVars
<1>8. /\ request'[t].created /\ request'[t].handle_ = h
      /\ \A u \in Threads \ {t} : request'[u] = request[u] /\ pc'[u] = pc[u]
      /\ pc'[t] = "ready"
  BY <1>1, <1>3
<1>9. \A u \in Threads \ {t} : request[u].created => request[u].handle_ # h \/ h = Null
  BY <1>1, RecordFacts DEF IInv, HandlesOwned
<1>10. /\ \A g \in Handles \ {h} : handle'[g] = handle[g]
       /\ h # Null => h \in Handles /\ handle'[h] = new
  BY <1>1
<1>11. Life'
  BY <1>8 DEF IInv, Life
<1>12. HandlesOwned'
  <2>1. \A g \in Handles :
          handle'[g].alive <=> \E u \in Threads : request'[u].created /\ request'[u].handle_ = g
    <3> SUFFICES ASSUME NEW g \in Handles
        PROVE handle'[g].alive <=> \E u \in Threads : request'[u].created /\ request'[u].handle_ = g
      OBVIOUS
    <3>1. CASE g = h
      BY <3>1, <1>8, <1>10, <1>4, RecordFacts
    <3>2. CASE g # h
      BY <3>2, <1>2, <1>8, <1>10 DEF IInv, HandlesOwned
    <3>3. QED
      BY <3>1, <3>2
  <2>2. \A u, v \in WithHandle' : request'[u].handle_ = request'[v].handle_ => u = v
    BY <1>8, <1>9 DEF IInv, HandlesOwned, WithHandle
  <2>3. QED
    BY <2>1, <2>2 DEF HandlesOwned
<1>13. \A u \in Sending : u # t /\ HandleOf(u)' = HandleOf(u) /\ request'[u] = request[u]
  <2> SUFFICES ASSUME NEW u \in Sending
      PROVE u # t /\ HandleOf(u)' = HandleOf(u) /\ request'[u] = request[u]
    OBVIOUS
  <2>1. u \in Threads \ {t} /\ request[u].created /\ request[u].handle_ # Null
    BY <1>2 DEF IInv, Life, Sending
  <2>2. request[u].handle_ \in Handles /\ request[u].handle_ # h
    BY <2>1, <1>3, <1>9, RecordFacts
  <2>3. QED
    BY <2>1, <2>2, <1>8, <1>10 DEF HandleOf
<1>14. Sending' = Sending
  BY <1>2, <1>3, <1>8 DEF Sending
<1>15. ListsOwned'
  BY <1>3, <1>13, <1>14 DEF IInv, ListsOwned, ListOf, sendVars
<1>16. Mirror' /\ Received'
  <2>1. Mirror'
    BY <1>3 DEF IInv, Mirror, FieldOptions
  <2>2. Received'
    BY <1>2, <1>3, <1>8 DEF IInv, Received, sendVars
  <2>3. QED
    BY <2>1, <2>2
<1>17. Untouched(t)
  <2> SUFFICES ASSUME NEW u \in Threads \ {t} PROVE SettingsOf(u)' = SettingsOf(u)
    BY DEF Untouched
  <2>1. CASE ~request[u].created \/ request[u].handle_ = Null
    BY <2>1, <1>8 DEF SettingsOf
  <2>2. CASE request[u].created /\ request[u].handle_ # Null
    <3>1. request[u].handle_ \in Handles /\ request[u].handle_ # h
      BY <2>2, <1>3, <1>9, RecordFacts
    <3>2. QED
      BY <3>1, <2>2, <1>8, <1>10 DEF SettingsOf, HandleOf
  <2>3. QED
    BY <2>1, <2>2
<1>18. SettingsOf(t) = NoRequest
  BY <1>2 DEF SettingsOf
<1>19. SettingsOf(t)' \in {CurrentSettings, Unreachable}
  <2>1. RequestOf(client, handle_) = CurrentSettings
    <3>1. client.port_ \in Int
      BY HttpCurlAssumption DEF IInv, TypeOK, Clients
    <3>2. handle_.verify = client.sslErrorHandlingEnabled_ /\ handle_.timeout = client.timeout_
      BY DEF IInv, Mirror, FieldOptions
    <3>3. (client.port_ > 0) <=> ~(client.port_ <= 0)
      BY <3>1
    <3>4. (IF client.port_ > 0 THEN client.port_ ELSE NoPort)
            = (IF client.port_ <= 0 THEN NoPort ELSE client.port_)
      BY <3>3
    <3>5. QED
      BY <3>2, <3>4 DEF RequestOf, CurrentSettings
  <2>2. CASE h = Null
    BY <2>2, <1>8 DEF SettingsOf
  <2>3. CASE h # Null
    BY <2>1, <2>3, <1>8, <1>10 DEF SettingsOf, HandleOf
  <2>4. QED
    BY <2>2, <2>3
<1>20. QED
  BY <1>7, <1>11, <1>12, <1>15, <1>16, <1>17, <1>18, <1>19 DEF IInv

\* ~Request frees the handle, which nobody else has.
LEMMA DestroyRequestInv ==
  ASSUME IInv, NEW t \in Threads, DestroyRequest(t)
  PROVE  /\ IInv' /\ Untouched(t)
         /\ request[t].created /\ SettingsOf(t)' = NoRequest
<1> USE DEF DestroyRequest
<1>1. /\ TypeOK /\ pc[t] = "ready" /\ request[t].created
      /\ pc \in [Threads -> {"idle", "ready", "performing"}]
      /\ request \in [Threads -> {NoRequest} \cup Requests]
      /\ handle \in [Handles -> {Freed} \cup LiveHandles]
      /\ result \in [Threads -> {NoResult} \cup Results]
  BY DEF IInv, Life, TypeOK
<1> DEFINE h == request[t].handle_
<1>2. /\ pc' = [pc EXCEPT ![t] = "idle"]
      /\ UNCHANGED <<client, handle_, list, answer, text>>
      /\ request' = [request EXCEPT ![t] = NoRequest]
      /\ handle' = [g \in Handles |-> IF g = h THEN Freed ELSE handle[g]]
      /\ result' = [result EXCEPT ![t] = NoResult]
  BY DEF settingVars
<1>3. TypeOK'
  <2>1. /\ pc' \in [Threads -> {"idle", "ready", "performing"}]
        /\ request' \in [Threads -> {NoRequest} \cup Requests]
        /\ handle' \in [Handles -> {Freed} \cup LiveHandles]
        /\ result' \in [Threads -> {NoResult} \cup Results]
    BY <1>1, <1>2
  <2>2. QED
    BY <1>1, <1>2, <2>1 DEF TypeOK
<1>4. /\ ~request'[t].created /\ pc'[t] = "idle"
      /\ \A u \in Threads \ {t} : request'[u] = request[u] /\ pc'[u] = pc[u]
  BY <1>1, <1>2, RecordFacts
<1>5. \A u \in Threads \ {t} : request[u].created => request[u].handle_ # h \/ h = Null
  BY <1>1 DEF IInv, HandlesOwned, WithHandle
<1>6. /\ \A g \in Handles \ {h} : handle'[g] = handle[g]
      /\ h \in Handles => handle'[h] = Freed
  BY <1>2
<1>7. Life'
  BY <1>4 DEF IInv, Life
<1>8. HandlesOwned'
  <2>1. \A g \in Handles :
          handle'[g].alive <=> \E u \in Threads : request'[u].created /\ request'[u].handle_ = g
    <3> SUFFICES ASSUME NEW g \in Handles
        PROVE handle'[g].alive <=> \E u \in Threads : request'[u].created /\ request'[u].handle_ = g
      OBVIOUS
    <3>1. CASE g = h
      <4>1. h # Null
        BY <3>1, HttpCurlAssumption
      <4>2. QED
        BY <3>1, <4>1, <1>4, <1>5, <1>6, RecordFacts
    <3>2. CASE g # h
      BY <3>2, <1>4, <1>6 DEF IInv, HandlesOwned
    <3>3. QED
      BY <3>1, <3>2
  <2>2. \A u, v \in WithHandle' : request'[u].handle_ = request'[v].handle_ => u = v
    BY <1>4 DEF IInv, HandlesOwned, WithHandle
  <2>3. QED
    BY <2>1, <2>2 DEF HandlesOwned
<1>9. \A u \in Sending : u # t /\ HandleOf(u)' = HandleOf(u) /\ request'[u] = request[u]
  <2> SUFFICES ASSUME NEW u \in Sending
      PROVE u # t /\ HandleOf(u)' = HandleOf(u) /\ request'[u] = request[u]
    OBVIOUS
  <2>1. u \in Threads \ {t} /\ request[u].created /\ request[u].handle_ # Null
    BY <1>1 DEF IInv, Life, Sending
  <2>2. request[u].handle_ \in Handles /\ request[u].handle_ # h
    BY <2>1, <1>1, <1>5, RecordFacts
  <2>3. QED
    BY <2>1, <2>2, <1>4, <1>6 DEF HandleOf
<1>10. Sending' = Sending
  BY <1>1, <1>4 DEF Sending
<1>11. ListsOwned'
  BY <1>2, <1>9, <1>10 DEF IInv, ListsOwned, ListOf
<1>12. Mirror' /\ Received'
  <2>1. Mirror'
    BY <1>2 DEF IInv, Mirror, FieldOptions
  <2>2. Received'
    BY <1>1, <1>2, <1>4 DEF IInv, Received
  <2>3. QED
    BY <2>1, <2>2
<1>13. Untouched(t)
  <2> SUFFICES ASSUME NEW u \in Threads \ {t} PROVE SettingsOf(u)' = SettingsOf(u)
    BY DEF Untouched
  <2>1. CASE ~request[u].created \/ request[u].handle_ = Null
    BY <2>1, <1>4 DEF SettingsOf
  <2>2. CASE request[u].created /\ request[u].handle_ # Null
    <3>1. request[u].handle_ \in Handles /\ request[u].handle_ # h
      BY <2>2, <1>1, <1>5, RecordFacts
    <3>2. QED
      BY <3>1, <2>2, <1>4, <1>6 DEF SettingsOf, HandleOf
  <2>3. QED
    BY <2>1, <2>2
<1>14. SettingsOf(t)' = NoRequest
  BY <1>4 DEF SettingsOf
<1>15. QED
  BY <1>1, <1>3, <1>7, <1>8, <1>11, <1>12, <1>13, <1>14 DEF IInv

\* The body is the handle's, and the headers the request's: nothing else changes.
LEMMA SetContentInv ==
  ASSUME IInv, NEW t \in Threads,
         \/ \E body \in Bodies : setBody(t, body)
         \/ \E name \in Names, value \in Values : setHeader(t, name, value)
  PROVE  IInv' /\ UNCHANGED <<settingVars, pc, sendVars>>
         /\ \A u \in Threads : SettingsOf(u)' = SettingsOf(u)
<1>1. /\ TypeOK /\ pc[t] = "ready" /\ request[t].created
      /\ request \in [Threads -> {NoRequest} \cup Requests]
      /\ handle \in [Handles -> {Freed} \cup LiveHandles]
  BY DEF IInv, Life, TypeOK, setBody, setHeader
<1>2. request[t] \in Requests
  BY <1>1, RecordFacts
<1>3. UNCHANGED <<settingVars, pc, sendVars>>
  BY DEF setBody, setHeader
<1>4. /\ handle' \in [Handles -> {Freed} \cup LiveHandles]
      /\ request' \in [Threads -> {NoRequest} \cup Requests]
      /\ \A h \in Handles : /\ handle'[h].alive = handle[h].alive
                            /\ handle[h].alive => /\ handle'[h].to = handle[h].to
                                                  /\ handle'[h].httpHeader = handle[h].httpHeader
      /\ \A u \in Threads : /\ request'[u].created = request[u].created
                            /\ request[u].created => request'[u].handle_ = request[u].handle_
                            /\ pc[u] = "performing" => request'[u] = request[u]
                            /\ ~request[u].created => request'[u] = request[u]
  <2>1. ASSUME NEW body \in Bodies, setBody(t, body) PROVE <1>4!:
    <3>1. handle[request[t].handle_] \in LiveHandles /\ request[t].handle_ \in Handles
      BY <1>1, <1>2, <2>1, RecordFacts DEF setBody, IInv, HandlesOwned
    <3>2. [handle[request[t].handle_] EXCEPT !.body = body] \in LiveHandles
      BY <3>1 DEF LiveHandles
    <3>3. handle' = [handle EXCEPT ![request[t].handle_] =
                       [handle[request[t].handle_] EXCEPT !.body = body]]
          /\ request' = request
      BY <2>1, <3>1 DEF setBody
    <3>4. LET k == handle[request[t].handle_]
              n == [k EXCEPT !.body = body]
          IN  n.alive = k.alive /\ n.to = k.to /\ n.httpHeader = k.httpHeader
      BY <3>1 DEF LiveHandles
    <3>5. QED
      BY <1>1, <3>1, <3>2, <3>3, <3>4
  <2>2. ASSUME NEW name \in Names, NEW value \in Values, setHeader(t, name, value) PROVE <1>4!:
    <3> DEFINE headers == [request[t].headers_ EXCEPT ![name] = value]
    <3>1. headers \in Headers
      BY <1>2, RecordFacts DEF Headers
    <3>2. [request[t] EXCEPT !.headers_ = headers] \in Requests
      BY <1>2, <3>1 DEF Requests
    <3>3. request' = [request EXCEPT ![t] = [request[t] EXCEPT !.headers_ = headers]]
          /\ handle' = handle
      BY <2>2, <1>1 DEF setHeader
    <3>4. LET n == [request[t] EXCEPT !.headers_ = headers]
          IN  n.created = request[t].created /\ n.handle_ = request[t].handle_
      BY <1>2 DEF Requests
    <3>5. QED
      BY <1>1, <3>2, <3>3, <3>4
  <2>3. QED
    BY <2>1, <2>2
<1>5. TypeOK'
  BY <1>1, <1>3, <1>4 DEF TypeOK, settingVars, sendVars
<1>6. Life'
  BY <1>3, <1>4 DEF IInv, Life
<1>7. HandlesOwned'
  BY <1>4 DEF IInv, HandlesOwned, WithHandle
<1>8. \A u \in Sending :
        /\ request[u].created /\ request[u].handle_ \in Handles
        /\ handle[request[u].handle_].alive
        /\ ListOf(u)' = ListOf(u) /\ request'[u] = request[u]
  <2> SUFFICES ASSUME NEW u \in Sending
      PROVE /\ request[u].created /\ request[u].handle_ \in Handles
            /\ handle[request[u].handle_].alive
            /\ ListOf(u)' = ListOf(u) /\ request'[u] = request[u]
    OBVIOUS
  <2>1. u \in Threads /\ pc[u] = "performing" /\ request[u].created /\ request[u].handle_ # Null
    BY DEF IInv, Life, Sending
  <2>2. request[u].handle_ \in Handles
    BY <2>1, <1>1, RecordFacts
  <2>3. handle[request[u].handle_].alive
    BY <2>1, <2>2 DEF IInv, HandlesOwned
  <2>4. QED
    BY <2>1, <2>2, <2>3, <1>4 DEF ListOf, HandleOf
<1>9. ListsOwned'
  <2>1. Sending' = Sending /\ list' = list
    BY <1>3 DEF Sending, sendVars
  <2>2. QED
    BY <1>8, <2>1 DEF IInv, ListsOwned
<1>10. Mirror' /\ Received'
  BY <1>3 DEF IInv, Mirror, FieldOptions, Received, settingVars, sendVars
<1>11. \A u \in Threads : SettingsOf(u)' = SettingsOf(u)
  <2> SUFFICES ASSUME NEW u \in Threads PROVE SettingsOf(u)' = SettingsOf(u)
    OBVIOUS
  <2>1. CASE ~request[u].created \/ request[u].handle_ = Null
    BY <2>1, <1>4 DEF SettingsOf
  <2>2. CASE request[u].created /\ request[u].handle_ # Null
    <3>1. request[u].handle_ \in Handles /\ handle[request[u].handle_].alive
      BY <2>2, <1>1, RecordFacts DEF IInv, HandlesOwned
    <3>2. QED
      BY <2>2, <3>1, <1>4 DEF SettingsOf, HandleOf
  <2>3. QED
    BY <2>1, <2>2
<1>12. QED
  BY <1>3, <1>5, <1>6, <1>7, <1>9, <1>10, <1>11 DEF IInv

\* The steps that leave handles, requests and lists alone.
LEMMA QuietInv ==
  ASSUME IInv, TypeOK', Received', UNCHANGED <<settingVars, handle, pc, request, list>>
  PROVE  IInv' /\ \A u \in Threads : SettingsOf(u)' = SettingsOf(u)
<1>1. Life' /\ HandlesOwned' /\ ListsOwned' /\ Mirror'
  BY DEF IInv, Life, HandlesOwned, WithHandle, ListsOwned, Sending, ListOf, HandleOf, Mirror,
     FieldOptions, settingVars
<1>2. \A u \in Threads : SettingsOf(u)' = SettingsOf(u)
  BY DEF SettingsOf, HandleOf
<1>3. QED
  BY <1>1, <1>2 DEF IInv

\* A request without a handle is not sent.
LEMMA SendBrokenInv ==
  ASSUME IInv, NEW t \in Threads, SendBroken(t)
  PROVE  IInv' /\ \A u \in Threads : SettingsOf(u)' = SettingsOf(u)
<1> USE DEF SendBroken
<1>1. [returned |-> TRUE, status |-> Unknown, text |-> 0, error |-> "InternalError"] \in Results
  BY HttpCurlAssumption DEF Results
<1>2. TypeOK'
  BY <1>1 DEF IInv, TypeOK, settingVars
<1>3. Received'
  BY DEF IInv, Received
<1>4. QED
  BY <1>2, <1>3, QuietInv

\* The head of an answer arrives.
LEMMA AnswerInv ==
  ASSUME IInv, NEW t \in Threads, Answer(t)
  PROVE  IInv' /\ \A u \in Threads : SettingsOf(u)' = SettingsOf(u)
<1> USE DEF Answer
<1>1. PICK s \in Statuses :
        answer' = [answer EXCEPT ![t] = [answered |-> TRUE, status |-> s, left |-> Chunks]]
  OBVIOUS
<1>2. [answered |-> TRUE, status |-> s, left |-> Chunks] \in Answers
  BY HttpCurlAssumption DEF Answers
<1>3. TypeOK'
  BY <1>1, <1>2 DEF IInv, TypeOK, settingVars
<1>4. Received'
  BY <1>1, <1>2, RecordFacts, HttpCurlAssumption DEF IInv, TypeOK, Received
<1>5. QED
  BY <1>3, <1>4, QuietInv

\* A chunk is appended.
LEMMA WriteCallbackInv ==
  ASSUME IInv, NEW t \in Threads, writeCallback(t)
  PROVE  /\ IInv' /\ \A u \in Threads : SettingsOf(u)' = SettingsOf(u)
         /\ \A u \in Threads : Promised(answer'[u]) = Promised(answer[u])
<1>1. answer[t] \in Answers /\ text[t] \in 0 .. Chunks /\ text[t] + answer[t].left = Chunks
  BY DEF IInv, TypeOK, Received, writeCallback
<1>2. answer[t].left \in 0 .. Chunks /\ answer[t].left > 0 /\ Chunks \in Nat
  BY <1>1, RecordFacts, HttpCurlAssumption DEF writeCallback
<1> DEFINE new == [answer[t] EXCEPT !.left = answer[t].left - 1]
<1>3. answer[t].left - 1 \in 0 .. Chunks /\ text[t] + 1 \in 0 .. Chunks
      /\ text[t] + 1 + (answer[t].left - 1) = Chunks
  BY <1>1, <1>2
<1>4. new \in Answers /\ new.left = answer[t].left - 1 /\ new.status = answer[t].status
  BY <1>1, <1>3 DEF Answers
<1>5. answer' = [answer EXCEPT ![t] = new] /\ text' = [text EXCEPT ![t] = text[t] + 1]
      /\ UNCHANGED <<settingVars, handle, pc, request, list, result>>
  BY DEF writeCallback
<1>6. TypeOK'
  BY <1>3, <1>4, <1>5 DEF IInv, TypeOK, settingVars
<1>7. Received'
  <2> SUFFICES ASSUME NEW u \in Threads
      PROVE /\ answer'[u] = NoAnswer => text'[u] = 0
            /\ answer'[u] # NoAnswer =>
                 pc'[u] = "performing" /\ text'[u] + answer'[u].left = Chunks
    BY DEF Received
  <2>1. CASE u = t
    <3>1. answer'[t] = new /\ text'[t] = text[t] + 1
      BY <1>5 DEF IInv, TypeOK
    <3>2. new # NoAnswer /\ answer[t] # NoAnswer
      BY <1>1, <1>4, RecordFacts
    <3>3. pc'[t] = "performing"
      BY <1>5, <3>2 DEF IInv, Received
    <3>4. text'[t] + answer'[t].left = Chunks
      BY <1>3, <1>4, <3>1
    <3>5. QED
      BY <2>1, <3>1, <3>2, <3>3, <3>4
  <2>2. CASE u # t
    BY <2>2, <1>5 DEF IInv, TypeOK, Received
  <2>3. QED
    BY <2>1, <2>2
<1>8. \A u \in Threads : Promised(answer'[u]) = Promised(answer[u])
  BY <1>1, <1>4, <1>5, RecordFacts DEF IInv, TypeOK, Promised
<1>9. QED
  BY <1>5, <1>6, <1>7, <1>8, QuietInv

\* Only the handle of the sending gets a pointer, to a list nobody has.
LEMMA BeginSendInv ==
  ASSUME IInv, NEW t \in Threads, BeginSend(t)
  PROVE  IInv' /\ \A u \in Threads : SettingsOf(u)' = SettingsOf(u)
<1>1. /\ pc[t] = "ready" /\ request[t].created /\ request[t].handle_ # Null
      /\ pc \in [Threads -> {"idle", "ready", "performing"}]
      /\ request \in [Threads -> {NoRequest} \cup Requests]
      /\ handle \in [Handles -> {Freed} \cup LiveHandles]
      /\ list \in [Lists -> {Freed} \cup LiveLists]
      /\ result \in [Threads -> {NoResult} \cup Results]
  BY DEF IInv, TypeOK, Life, BeginSend
<1>2. request[t] \in Requests /\ request[t].handle_ \in Handles
      /\ request[t].headers_ \in Headers
  BY <1>1, RecordFacts
<1> DEFINE h == request[t].handle_
<1>3. handle[h] \in LiveHandles
  BY <1>1, <1>2, RecordFacts DEF IInv, HandlesOwned
<1>4. PICK l \in Lists :
        /\ list[l] = Freed
        /\ list' = [list EXCEPT ![l] = [alive |-> TRUE, headers |-> request[t].headers_]]
        /\ handle' = [handle EXCEPT ![request[t].handle_].httpHeader = l]
  BY DEF BeginSend
<1> DEFINE new == [handle[h] EXCEPT !.httpHeader = l]
           newList == [alive |-> TRUE, headers |-> request[t].headers_]
<1>5. new \in LiveHandles /\ new.alive /\ new.to = handle[h].to /\ new.httpHeader = l
  BY <1>3, <1>4 DEF LiveHandles
<1>6. newList \in LiveLists /\ newList.alive /\ newList.headers = request[t].headers_
  BY <1>2 DEF LiveLists
<1>7. /\ handle' = [handle EXCEPT ![h] = new] /\ list' = [list EXCEPT ![l] = newList]
      /\ pc' = [pc EXCEPT ![t] = "performing"] /\ result' = [result EXCEPT ![t] = NoResult]
      /\ UNCHANGED <<client, handle_, request, answer, text>>
  BY <1>4 DEF BeginSend, settingVars
<1>8. /\ handle' \in [Handles -> {Freed} \cup LiveHandles]
      /\ list' \in [Lists -> {Freed} \cup LiveLists]
      /\ pc' \in [Threads -> {"idle", "ready", "performing"}]
      /\ result' \in [Threads -> {NoResult} \cup Results]
  BY <1>1, <1>5, <1>6, <1>7
<1>9. TypeOK'
  BY <1>7, <1>8 DEF IInv, TypeOK
<1>10. /\ handle'[h] = new /\ \A g \in Handles \ {h} : handle'[g] = handle[g]
       /\ list'[l] = newList /\ \A m \in Lists \ {l} : list'[m] = list[m]
       /\ pc'[t] = "performing" /\ \A u \in Threads \ {t} : pc'[u] = pc[u]
  BY <1>1, <1>2, <1>4, <1>7
<1>11. Life'
  BY <1>1, <1>7, <1>10 DEF IInv, Life
<1>12. HandlesOwned'
  <2>1. \A g \in Handles : handle'[g].alive <=> handle[g].alive
    BY <1>3, <1>5, <1>10, RecordFacts
  <2>2. QED
    BY <1>7, <2>1 DEF IInv, HandlesOwned, WithHandle
<1>13. \A u \in Sending : /\ u \in Threads \ {t} /\ ListOf(u) \in Lists \ {l}
                          /\ ListOf(u)' = ListOf(u)
  <2> SUFFICES ASSUME NEW u \in Sending
      PROVE u \in Threads \ {t} /\ ListOf(u) \in Lists \ {l} /\ ListOf(u)' = ListOf(u)
    OBVIOUS
  <2>1. u \in Threads \ {t} /\ request[u].created /\ request[u].handle_ # Null
    BY <1>1 DEF IInv, Life, Sending
  <2>2. request[u].handle_ \in Handles /\ request[u].handle_ # h
    BY <2>1, <1>1, RecordFacts DEF IInv, HandlesOwned, WithHandle
  <2>3. ListOf(u) \in Lists /\ list[ListOf(u)].alive
    BY DEF IInv, ListsOwned
  <2>4. ListOf(u) # l
    BY <2>3, <1>4, RecordFacts
  <2>5. QED
    BY <2>1, <2>2, <2>3, <2>4, <1>7, <1>10 DEF ListOf, HandleOf
<1>14. Sending' = Sending \cup {t} /\ ListOf(t)' = l
  <2>1. Sending' = Sending \cup {t}
    BY <1>1, <1>10 DEF Sending
  <2>2. ListOf(t)' = l
    BY <1>5, <1>7, <1>10 DEF ListOf, HandleOf
  <2>3. QED
    BY <2>1, <2>2
<1>15. ListsOwned'
  <2>1. \A m \in Lists : list'[m].alive <=> \E u \in Sending' : ListOf(u)' = m
    <3> SUFFICES ASSUME NEW m \in Lists
        PROVE list'[m].alive <=> \E u \in Sending' : ListOf(u)' = m
      OBVIOUS
    <3>1. CASE m = l
      BY <3>1, <1>6, <1>10, <1>14
    <3>2. CASE m # l
      BY <3>2, <1>10, <1>13, <1>14 DEF IInv, ListsOwned
    <3>3. QED
      BY <3>1, <3>2
  <2>2. \A u, v \in Sending' : ListOf(u)' = ListOf(v)' => u = v
    BY <1>13, <1>14 DEF IInv, ListsOwned
  <2>3. \A u \in Sending' : ListOf(u)' \in Lists /\ list'[ListOf(u)'].headers = request'[u].headers_
    BY <1>6, <1>7, <1>10, <1>13, <1>14 DEF IInv, ListsOwned
  <2>4. QED
    BY <2>1, <2>2, <2>3 DEF ListsOwned
<1>16. Mirror'
  BY <1>7 DEF IInv, Mirror, FieldOptions
<1>17. Received'
  BY <1>1, <1>7, <1>10 DEF IInv, Received
<1>18. \A u \in Threads : SettingsOf(u)' = SettingsOf(u)
  <2> SUFFICES ASSUME NEW u \in Threads PROVE SettingsOf(u)' = SettingsOf(u)
    OBVIOUS
  <2>1. CASE ~request[u].created \/ request[u].handle_ = Null
    BY <2>1, <1>7 DEF SettingsOf
  <2>2. CASE request[u].created /\ request[u].handle_ # Null
    <3>1. request[u].handle_ \in Handles
      BY <2>2, <1>1, RecordFacts
    <3>2. QED
      BY <2>2, <3>1, <1>5, <1>7, <1>10 DEF SettingsOf, HandleOf
  <2>3. QED
    BY <2>1, <2>2
<1>19. QED
  BY <1>9, <1>11, <1>12, <1>15, <1>16, <1>17, <1>18 DEF IInv

-----------------------------------------------------------------------------
\* Only OK, and too many redirections, are reported as no error.
LEMMA NoErrors ==
  ASSUME NEW c PROVE fromCUrlError(c) = "NoError" => c \in {"OK", "TOO_MANY_REDIRECTS"}
BY DEF fromCUrlError

\* What Status makes of the numbers libcurl gives: only Redirect becomes Redirect.
LEMMA StatusFacts ==
  /\ Status(0) = Unknown /\ Status(Redirect) = Redirect
  /\ \A s \in Statuses : Status(s) # Redirect
<1>1. 0 \notin StatusCodes /\ Redirect \in StatusCodes /\ Unknown # Redirect
  BY DEF StatusCodes, Redirect, Unknown
<1>2. \A s \in Statuses : s # Redirect
  BY HttpCurlAssumption
<1>3. QED
  BY <1>1, <1>2 DEF Status

\* What a sending returns: its type, and what it says of the answer.
LEMMA EndingFacts ==
  ASSUME IInv, NEW t \in Threads, pc[t] = "performing", NEW ending \in Endings(t)
  PROVE  LET r == [returned |-> TRUE, status |-> Status(ending.status), text |-> text[t],
                   error |-> fromCUrlError(ending.code)]
         IN  r \in Results /\ Outcome(r) \in {Failed, Promised(answer[t])} \ {Unanswered}
<1> DEFINE r == [returned |-> TRUE, status |-> Status(ending.status), text |-> text[t],
                 error |-> fromCUrlError(ending.code)]
<1>1. /\ text[t] \in 0 .. Chunks
      /\ answer[t] # NoAnswer => /\ answer[t].status \in Statuses /\ answer[t].left \in 0 .. Chunks
                                 /\ text[t] + answer[t].left = Chunks
  BY RecordFacts DEF IInv, TypeOK, Received
<1>2. Failed # Unanswered /\ \A s : [status |-> s, whole |-> TRUE] # Unanswered
  BY DEF Failed, Unanswered
<1>3. ASSUME ending.status \in Statuses \cup {0, Redirect}, ending.code \in Codes \cup {"OK"}
      PROVE  r \in Results /\ r # NoResult
  <2>1. Status(ending.status) \in {Status(s) : s \in Statuses} \cup {Redirect, Unknown}
    BY <1>3, StatusFacts
  <2>2. r \in Results
    BY <1>1, <1>3, <2>1 DEF Results
  <2>3. QED
    BY <2>2, RecordFacts
<1>4. CASE /\ ending.code \in Codes \ {"TOO_MANY_REDIRECTS"}
           /\ ending.status = IF answer[t] = NoAnswer THEN 0 ELSE answer[t].status
  <2>1. r.error # "NoError"
    BY <1>4, NoErrors, HttpCurlAssumption
  <2>2. r \in Results /\ r # NoResult
    BY <1>1, <1>3, <1>4
  <2>3. QED
    BY <2>1, <2>2, <1>2 DEF Outcome
<1>5. CASE ending.code \in Codes /\ ending.status = Redirect
  <2>1. r \in Results /\ r # NoResult
    BY <1>3, <1>5
  <2>2. r.status = Redirect
    BY <1>5, StatusFacts
  <2>3. QED
    BY <2>1, <2>2, <1>2 DEF Outcome
<1>6. CASE /\ ending.code = "OK" /\ answer[t] # NoAnswer /\ answer[t].left = 0
           /\ ending.status = answer[t].status
  <2>1. r \in Results /\ r # NoResult
    BY <1>1, <1>3, <1>6
  <2>2. text[t] = Chunks
    BY <1>1, <1>6, HttpCurlAssumption
  <2>3. r.status = Status(answer[t].status) /\ r.text = Chunks /\ r.status # Redirect
    BY <2>2, <1>1, <1>6, StatusFacts
  <2>4. Outcome(r) \in {Failed, Promised(answer[t])}
    BY <2>1, <2>3, <1>6 DEF Outcome, Promised
  <2>5. Outcome(r) # Unanswered
    BY <2>1, <2>3, <1>2 DEF Outcome
  <2>6. QED
    BY <2>1, <2>4, <2>5
<1>7. \/ /\ ending.code \in Codes \ {"TOO_MANY_REDIRECTS"}
         /\ ending.status = IF answer[t] = NoAnswer THEN 0 ELSE answer[t].status
      \/ ending.code \in Codes /\ ending.status = Redirect
      \/ /\ ending.code = "OK" /\ answer[t] # NoAnswer /\ answer[t].left = 0
         /\ ending.status = answer[t].status
  BY DEF Endings
<1>8. QED
  BY <1>4, <1>5, <1>6, <1>7

\* The list of the sending is freed, though its handle still points to it.
LEMMA EndSendInv ==
  ASSUME IInv, NEW t \in Threads, EndSend(t)
  PROVE  IInv' /\ \A u \in Threads : SettingsOf(u)' = SettingsOf(u)
<1>1. PICK ending \in Endings(t) :
        result' = [result EXCEPT ![t] =
          [returned |-> TRUE, status |-> Status(ending.status), text |-> text[t],
           error |-> fromCUrlError(ending.code)]]
  BY DEF EndSend
<1> DEFINE r == [returned |-> TRUE, status |-> Status(ending.status), text |-> text[t],
                 error |-> fromCUrlError(ending.code)]
           l == ListOf(t)
<1>2. /\ pc[t] = "performing" /\ t \in Sending
      /\ pc' = [pc EXCEPT ![t] = "ready"] /\ list' = [list EXCEPT ![l] = Freed]
      /\ answer' = [answer EXCEPT ![t] = NoAnswer] /\ text' = [text EXCEPT ![t] = 0]
      /\ UNCHANGED <<client, handle_, handle, request>>
  BY DEF EndSend, Sending, ListOf, HandleOf, settingVars
<1>3. r \in Results
  BY <1>2, EndingFacts
<1>4. /\ pc \in [Threads -> {"idle", "ready", "performing"}]
      /\ list \in [Lists -> {Freed} \cup LiveLists]
      /\ answer \in [Threads -> {NoAnswer} \cup Answers]
      /\ text \in [Threads -> 0 .. Chunks]
      /\ result \in [Threads -> {NoResult} \cup Results]
      /\ Chunks \in Nat
  BY HttpCurlAssumption DEF IInv, TypeOK
<1>5. /\ pc' \in [Threads -> {"idle", "ready", "performing"}]
      /\ list' \in [Lists -> {Freed} \cup LiveLists]
      /\ answer' \in [Threads -> {NoAnswer} \cup Answers]
      /\ text' \in [Threads -> 0 .. Chunks]
      /\ result' \in [Threads -> {NoResult} \cup Results]
  <2>1. /\ pc' \in [Threads -> {"idle", "ready", "performing"}]
        /\ list' \in [Lists -> {Freed} \cup LiveLists]
        /\ answer' \in [Threads -> {NoAnswer} \cup Answers]
    BY <1>2, <1>4
  <2>2. text' \in [Threads -> 0 .. Chunks]
    BY <1>2, <1>4
  <2>3. result' \in [Threads -> {NoResult} \cup Results]
    <3> HIDE DEF r
    <3>1. result' = [result EXCEPT ![t] = r]
      BY <1>1 DEF r
    <3>2. QED
      BY <1>3, <1>4, <3>1
  <2>4. QED
    BY <2>1, <2>2, <2>3
<1>6. TypeOK'
  BY <1>2, <1>5 DEF IInv, TypeOK
<1>7. /\ l \in Lists /\ list'[l] = Freed /\ \A m \in Lists \ {l} : list'[m] = list[m]
      /\ pc'[t] = "ready" /\ \A u \in Threads \ {t} : pc'[u] = pc[u]
      /\ answer'[t] = NoAnswer /\ text'[t] = 0
      /\ \A u \in Threads \ {t} : answer'[u] = answer[u] /\ text'[u] = text[u]
  BY <1>2, <1>4 DEF IInv, ListsOwned
<1>8. Life' /\ HandlesOwned'
  BY <1>2, <1>7 DEF IInv, Life, HandlesOwned, WithHandle
<1>9. Sending' = Sending \ {t} /\ \A u \in Threads : ListOf(u)' = ListOf(u)
  BY <1>2, <1>7 DEF Sending, ListOf, HandleOf
<1>10. ListsOwned'
  <2>1. \A m \in Lists : list'[m].alive <=> \E u \in Sending' : ListOf(u)' = m
    <3> SUFFICES ASSUME NEW m \in Lists
        PROVE list'[m].alive <=> \E u \in Sending' : ListOf(u)' = m
      OBVIOUS
    <3>1. CASE m = l
      <4>1. \A u \in Sending' : ListOf(u)' # l
        BY <1>2, <1>9 DEF IInv, ListsOwned, Sending
      <4>2. QED
        BY <3>1, <4>1, <1>7, RecordFacts
    <3>2. CASE m # l
      BY <3>2, <1>7, <1>9 DEF IInv, ListsOwned, Sending
    <3>3. QED
      BY <3>1, <3>2
  <2>2. \A u, v \in Sending' : ListOf(u)' = ListOf(v)' => u = v
    BY <1>9 DEF IInv, ListsOwned, Sending
  <2>3. \A u \in Sending' : ListOf(u)' \in Lists /\ list'[ListOf(u)'].headers = request'[u].headers_
    BY <1>2, <1>7, <1>9 DEF IInv, ListsOwned, Sending
  <2>4. QED
    BY <2>1, <2>2, <2>3 DEF ListsOwned
<1>11. Mirror' /\ Received'
  BY <1>2, <1>7 DEF IInv, Mirror, FieldOptions, Received
<1>12. \A u \in Threads : SettingsOf(u)' = SettingsOf(u)
  BY <1>2 DEF SettingsOf, HandleOf
<1>13. QED
  BY <1>6, <1>8, <1>10, <1>11, <1>12 DEF IInv

-----------------------------------------------------------------------------
\* What a thread's step does, in the contract's terms.
LEMMA TransferInv ==
  ASSUME IInv, NEW t \in Threads, Transfer(t)
  PROVE  IInv' /\ \A u \in Threads : SettingsOf(u)' = SettingsOf(u)
<1>1. CASE BeginSend(t)
  BY <1>1, BeginSendInv
<1>2. CASE Answer(t)
  BY <1>2, AnswerInv
<1>3. CASE writeCallback(t)
  BY <1>3, WriteCallbackInv
<1>4. CASE EndSend(t)
  BY <1>4, EndSendInv
<1>5. CASE SendBroken(t)
  BY <1>5, SendBrokenInv
<1>6. QED
  BY <1>1, <1>2, <1>3, <1>4, <1>5 DEF Transfer

\* Nothing changes in a stuttering step.
LEMMA StutterInv ==
  ASSUME IInv, UNCHANGED vars
  PROVE  IInv' /\ \A u \in Threads : SettingsOf(u)' = SettingsOf(u)
<1>1. TypeOK' /\ Received'
  BY DEF IInv, TypeOK, Received, vars, settingVars, sendVars
<1>2. QED
  BY <1>1, QuietInv DEF vars, sendVars

\* The invariant holds in every state.
THEOREM Invariant == Spec => []IInv
<1>1. ASSUME IInv, [Next]_vars PROVE IInv'
  <2>1. CASE Setter
    BY <1>1, <2>1, SetterInv
  <2>2. ASSUME NEW t \in Threads, createRequest(t) PROVE IInv'
    BY <1>1, <2>2, CreateRequestInv
  <2>3. ASSUME NEW t \in Threads, DestroyRequest(t) PROVE IInv'
    BY <1>1, <2>3, DestroyRequestInv
  <2>4. ASSUME NEW t \in Threads,
               \/ \E body \in Bodies : setBody(t, body)
               \/ \E name \in Names, value \in Values : setHeader(t, name, value)
        PROVE  IInv'
    BY <1>1, <2>4, SetContentInv
  <2>5. ASSUME NEW t \in Threads, Transfer(t) PROVE IInv'
    BY <1>1, <2>5, TransferInv
  <2>6. CASE UNCHANGED vars
    BY <1>1, <2>6, StutterInv
  <2>7. QED
    BY <1>1, <2>1, <2>2, <2>3, <2>4, <2>5, <2>6 DEF Next
<1>2. QED
  BY <1>1, InitInv, PTL DEF Spec

\* Every variable keeps its type.
THEOREM TypeCorrect == Spec => []TypeOK
<1>1. IInv => TypeOK
  BY DEF IInv
<1>2. QED
  BY <1>1, Invariant, PTL

\* Handles and lists live exactly as long as the requests and sendings that use them,
\* one each, however often a handle is sent again.
THEOREM TransfersOwn == Spec => []TransfersOwnWhatTheyUse
<1>1. ASSUME IInv PROVE TransfersOwnWhatTheyUse
  <2>1. {h \in Handles : handle[h].alive} = {request[t].handle_ : t \in WithHandle}
    <3>1. \A t \in WithHandle : request[t].handle_ \in Handles
      BY <1>1, RecordFacts DEF IInv, TypeOK, WithHandle
    <3>2. \A h \in Handles : handle[h].alive <=> \E t \in WithHandle : request[t].handle_ = h
      BY <1>1, HttpCurlAssumption DEF IInv, HandlesOwned, WithHandle
    <3>3. QED
      BY <3>1, <3>2
  <2>2. {l \in Lists : list[l].alive} = {ListOf(t) : t \in Sending}
    BY <1>1 DEF IInv, ListsOwned
  <2>3. QED
    BY <1>1, <2>1, <2>2 DEF IInv, HandlesOwned, ListsOwned, TransfersOwnWhatTheyUse
<1>2. QED
  BY <1>1, Invariant, PTL

-----------------------------------------------------------------------------
\* What a request is in HttpClient says whether there is one.
LEMMA AbstractRequests ==
  /\ NoRequest # Unreachable
  /\ \A s \in RequestSet : s # NoRequest
<1>1. DOMAIN NoRequest = {"created"}
  BY DEF NoRequest
<1>2. DOMAIN Unreachable = {"made"}
  BY DEF Unreachable
<1>3. \A s \in RequestSet : "host" \in DOMAIN s
  BY DEF RequestSet
<1>4. QED
  BY <1>1, <1>2, <1>3

\* Where a request's settings stay, it stays where it is in HttpClient.
LEMMA StepIsAClients ==
  ASSUME IInv, [Next]_vars
  PROVE  [Client!Next]_<<CurrentSettings, RequestSettings>>
<1>1. ASSUME Setter PROVE Client!Set
  <2>1. CurrentSettings' \in RequestSet
    BY <1>1, SetterInv, SettingTypesAfter DEF IInv
  <2>2. UNCHANGED <<handle, request>>
    BY <1>1, SetterInv
  <2>3. RequestSettings' = RequestSettings
    BY <2>2 DEF RequestSettings, SettingsOf, HandleOf
  <2>4. QED
    BY <2>1, <2>3 DEF Client!Set
<1>2. ASSUME NEW t \in Threads, createRequest(t) PROVE Client!Create(t)
  <2>1. /\ Untouched(t) /\ SettingsOf(t) = NoRequest
        /\ SettingsOf(t)' \in {CurrentSettings, Unreachable}
    BY <1>2, CreateRequestInv
  <2>2. CurrentSettings' = CurrentSettings
    BY <1>2 DEF createRequest, settingVars, CurrentSettings
  <2>3. RequestSettings' = [RequestSettings EXCEPT ![t] = SettingsOf(t)']
    BY <2>1 DEF Untouched, RequestSettings
  <2>4. RequestSettings[t] = NoRequest
    BY <2>1 DEF RequestSettings
  <2>5. QED
    BY <2>1, <2>2, <2>3, <2>4 DEF Client!Create
<1>3. ASSUME NEW t \in Threads, DestroyRequest(t) PROVE Client!Finish(t)
  <2>1. Untouched(t) /\ request[t].created /\ SettingsOf(t)' = NoRequest
    BY <1>3, DestroyRequestInv
  <2>2. CurrentSettings' = CurrentSettings
    BY <1>3 DEF DestroyRequest, settingVars, CurrentSettings
  <2>3. RequestSettings' = [RequestSettings EXCEPT ![t] = NoRequest]
    BY <2>1 DEF Untouched, RequestSettings
  <2>4. SettingsOf(t) # NoRequest
    <3>1. CASE request[t].handle_ = Null
      BY <3>1, <2>1, AbstractRequests DEF SettingsOf
    <3>2. CASE request[t].handle_ # Null
      <4>1. request[t].handle_ \in Handles /\ handle[request[t].handle_].alive
        BY <2>1, <3>2, RecordFacts DEF IInv, TypeOK, HandlesOwned
      <4>2. handle[request[t].handle_].to \in RequestSet
        BY <4>1, RecordFacts DEF IInv, TypeOK
      <4>3. QED
        BY <2>1, <3>2, <4>2, AbstractRequests DEF SettingsOf, HandleOf
    <3>3. QED
      BY <3>1, <3>2
  <2>5. RequestSettings[t] # NoRequest
    BY <2>4 DEF RequestSettings
  <2>6. QED
    BY <2>2, <2>3, <2>5 DEF Client!Finish
<1>4. ASSUME UNCHANGED settingVars, \A u \in Threads : SettingsOf(u)' = SettingsOf(u)
      PROVE  UNCHANGED <<CurrentSettings, RequestSettings>>
  BY <1>4 DEF settingVars, CurrentSettings, RequestSettings
<1>5. ASSUME NEW t \in Threads,
             \/ \E body \in Bodies : setBody(t, body)
             \/ \E name \in Names, value \in Values : setHeader(t, name, value)
      PROVE  UNCHANGED <<CurrentSettings, RequestSettings>>
  BY <1>4, <1>5, SetContentInv
<1>6. ASSUME NEW t \in Threads, Transfer(t)
      PROVE  UNCHANGED <<CurrentSettings, RequestSettings>>
  <2>1. UNCHANGED settingVars
    BY <1>6 DEF Transfer, BeginSend, Answer, writeCallback, EndSend, SendBroken
  <2>2. QED
    BY <1>4, <1>6, <2>1, TransferInv
<1>7. ASSUME UNCHANGED vars PROVE UNCHANGED <<CurrentSettings, RequestSettings>>
  BY <1>4, <1>7, StutterInv DEF vars
<1>8. QED
  BY <1>1, <1>2, <1>3, <1>5, <1>6, <1>7 DEF Next, Client!Next

\* Requests run with the settings of their creation, whatever other threads set
\* meanwhile, though two of the settings are copied from the client's own handle.
THEOREM HttpCurlIsAClient == Spec => RequestsCopyTheSettings
<1>1. ASSUME Init PROVE Client!Init
  <2>1. CurrentSettings \in RequestSet
    BY <1>1, InitInv, SettingTypes DEF IInv
  <2>2. \A t \in Threads : SettingsOf(t) = NoRequest
    BY <1>1, RecordFacts DEF Init, SettingsOf
  <2>3. QED
    BY <2>1, <2>2 DEF Client!Init, RequestSettings
<1>2. IInv /\ [Next]_vars => [Client!Next]_<<CurrentSettings, RequestSettings>>
  BY StepIsAClients
<1>3. QED
  BY <1>1, <1>2, Invariant, PTL DEF Spec, RequestsCopyTheSettings, Client!Spec

-----------------------------------------------------------------------------
\* Every step is one of Exchange, or changes none of its variables.
LEMMA StepIsAnExchange ==
  ASSUME IInv, [Next]_vars
  PROVE  [Exchanges!Next]_<<AllSendings, AllPromised, AllOutcomes>>
<1> DEFINE Quiet == UNCHANGED <<AllSendings, AllPromised, AllOutcomes>>
<1>1. /\ pc \in [Threads -> {"idle", "ready", "performing"}]
      /\ answer \in [Threads -> {NoAnswer} \cup Answers]
      /\ result \in [Threads -> {NoResult} \cup Results]
  BY DEF IInv, TypeOK
<1>2. ASSUME UNCHANGED <<pc, answer, result>> PROVE Quiet
  BY <1>2 DEF AllSendings, AllPromised, AllOutcomes
<1>3. ASSUME Setter PROVE Quiet
  BY <1>2, <1>3, SetterInv DEF sendVars
<1>4. ASSUME NEW t \in Threads, createRequest(t) PROVE Quiet
  <2>1. AllSendings' = AllSendings
    BY <1>1, <1>4 DEF createRequest, AllSendings
  <2>2. QED
    BY <1>4, <2>1 DEF createRequest, sendVars, AllPromised, AllOutcomes
<1>5. ASSUME NEW t \in Threads, DestroyRequest(t) PROVE Exchanges!Forget(t)
  <2>1. /\ pc[t] = "ready" /\ pc' = [pc EXCEPT ![t] = "idle"]
        /\ result' = [result EXCEPT ![t] = NoResult] /\ answer' = answer
    BY <1>5 DEF DestroyRequest
  <2>2. AllSendings' = AllSendings /\ ~AllSendings[t] /\ AllPromised' = AllPromised
    BY <1>1, <2>1 DEF AllSendings, AllPromised
  <2>3. AllOutcomes' = [AllOutcomes EXCEPT ![t] = Unanswered]
    BY <1>1, <2>1 DEF AllOutcomes, Outcome
  <2>4. QED
    BY <2>2, <2>3 DEF Exchanges!Forget
<1>6. ASSUME NEW t \in Threads,
             \/ \E body \in Bodies : setBody(t, body)
             \/ \E name \in Names, value \in Values : setHeader(t, name, value)
      PROVE  Quiet
  BY <1>2, <1>6, SetContentInv DEF sendVars
<1>7. ASSUME NEW t \in Threads, SendBroken(t) PROVE Exchanges!Refuse(t)
  <2> DEFINE r == [returned |-> TRUE, status |-> Unknown, text |-> 0, error |-> "InternalError"]
  <2>1. pc[t] = "ready" /\ result' = [result EXCEPT ![t] = r] /\ UNCHANGED <<pc, answer>>
    BY <1>7 DEF SendBroken
  <2>2. Outcome(r) = Failed
    BY RecordFacts DEF Outcome, NoResult
  <2>3. AllOutcomes' = [AllOutcomes EXCEPT ![t] = Failed]
    BY <1>1, <2>1, <2>2 DEF AllOutcomes
  <2>4. ~AllSendings[t] /\ UNCHANGED <<AllSendings, AllPromised>>
    BY <2>1 DEF AllSendings, AllPromised
  <2>5. QED
    BY <2>3, <2>4 DEF Exchanges!Refuse
<1>8. ASSUME NEW t \in Threads, BeginSend(t) PROVE Exchanges!Begin(t)
  <2>1. /\ pc[t] = "ready" /\ pc' = [pc EXCEPT ![t] = "performing"]
        /\ result' = [result EXCEPT ![t] = NoResult] /\ answer' = answer
    BY <1>8 DEF BeginSend
  <2>2. /\ ~AllSendings[t] /\ AllPromised' = AllPromised
        /\ AllSendings' = [AllSendings EXCEPT ![t] = TRUE]
    BY <1>1, <2>1 DEF AllSendings, AllPromised
  <2>3. AllOutcomes' = [AllOutcomes EXCEPT ![t] = Unanswered]
    BY <1>1, <2>1 DEF AllOutcomes, Outcome
  <2>4. QED
    BY <2>2, <2>3 DEF Exchanges!Begin
<1>9. ASSUME NEW t \in Threads, Answer(t) PROVE Exchanges!Answer(t)
  <2>1. PICK s \in Statuses :
          answer' = [answer EXCEPT ![t] = [answered |-> TRUE, status |-> s, left |-> Chunks]]
    BY <1>9 DEF Answer
  <2>2. pc[t] = "performing" /\ answer[t] = NoAnswer /\ UNCHANGED <<pc, result>>
    BY <1>9 DEF Answer
  <2>3. [answered |-> TRUE, status |-> s, left |-> Chunks] \in Answers
    BY HttpCurlAssumption DEF Answers
  <2>4. Promised(answer'[t]) = [status |-> Status(s), whole |-> TRUE]
    BY <1>1, <2>1, <2>3, RecordFacts DEF Promised
  <2>5. AllPromised' = [AllPromised EXCEPT ![t] = [status |-> Status(s), whole |-> TRUE]]
    BY <1>1, <2>1, <2>4 DEF AllPromised
  <2>6. AllSendings[t] /\ AllPromised[t] = Unanswered /\ UNCHANGED <<AllSendings, AllOutcomes>>
    BY <2>2 DEF AllSendings, AllPromised, AllOutcomes, Promised
  <2>7. QED
    BY <2>5, <2>6 DEF Exchanges!Answer
<1>10. ASSUME NEW t \in Threads, writeCallback(t) PROVE Quiet
  <2>1. UNCHANGED <<pc, result>>
    BY <1>10 DEF writeCallback
  <2>2. QED
    BY <1>10, <2>1, WriteCallbackInv DEF AllSendings, AllPromised, AllOutcomes
<1>11. ASSUME NEW t \in Threads, EndSend(t) PROVE Exchanges!End(t)
  <2>1. PICK ending \in Endings(t) :
          result' = [result EXCEPT ![t] =
            [returned |-> TRUE, status |-> Status(ending.status), text |-> text[t],
             error |-> fromCUrlError(ending.code)]]
    BY <1>11 DEF EndSend
  <2> DEFINE r == [returned |-> TRUE, status |-> Status(ending.status), text |-> text[t],
                   error |-> fromCUrlError(ending.code)]
  <2>2. /\ pc[t] = "performing" /\ pc' = [pc EXCEPT ![t] = "ready"]
        /\ answer' = [answer EXCEPT ![t] = NoAnswer]
    BY <1>11 DEF EndSend
  <2>3. Outcome(r) \in {Failed, Promised(answer[t])} \ {Unanswered}
    BY <2>2, EndingFacts
  <2>4. AllOutcomes' = [AllOutcomes EXCEPT ![t] = Outcome(r)]
    BY <1>1, <2>1 DEF AllOutcomes
  <2>5. /\ AllSendings[t] /\ AllSendings' = [AllSendings EXCEPT ![t] = FALSE]
        /\ AllPromised' = [AllPromised EXCEPT ![t] = Unanswered]
    BY <1>1, <2>2 DEF AllSendings, AllPromised, Promised
  <2>6. Outcome(r) \in {Failed} \cup ({AllPromised[t]} \ {Unanswered})
    BY <2>3 DEF AllPromised
  <2>7. QED
    BY <2>4, <2>5, <2>6 DEF Exchanges!End
<1>12. ASSUME UNCHANGED vars PROVE Quiet
  BY <1>2, <1>12 DEF vars, sendVars
<1>13. QED
  BY <1>3, <1>4, <1>5, <1>6, <1>7, <1>8, <1>9, <1>10, <1>11, <1>12
  DEF Next, Transfer, Exchanges!Next

\* A sending that reports no error returns the whole answer to it, wherever the
\* transfer ends and however many sendings of the handle came before.
THEOREM HttpCurlExchanges == Spec => SendIsAnExchange
<1>1. ASSUME Init PROVE Exchanges!Init
  BY <1>1 DEF Init, Exchanges!Init, AllSendings, AllPromised, AllOutcomes, Promised, Outcome
<1>2. IInv /\ [Next]_vars => [Exchanges!Next]_<<AllSendings, AllPromised, AllOutcomes>>
  BY StepIsAnExchange
<1>3. QED
  BY <1>1, <1>2, Invariant, PTL DEF Spec, SendIsAnExchange, Exchanges!Spec
=============================================================================
