-------------------------- MODULE HttpCocoaProofs ---------------------------
(***************************************************************************)
(* Theorems about HttpCocoa, for any number of threads, any settings and   *)
(* any codes of errors.                                                    *)
(*                                                                         *)
(* The inductive invariant IInv says that the two copies of the settings   *)
(* agree (Mirror), which policy for certificates the requests that exist   *)
(* were asked to have (Policies), and what of a completion the variables   *)
(* shared with the polling thread hold (Task).                             *)
(***************************************************************************)
EXTENDS HttpCocoa, TLAPS

\* What the getters return is what requests are made from.
Mirror ==
  /\ impl.hostname_ = wrapper.hostname_
  /\ impl.port_ = wrapper.port_
  /\ impl.path_ = wrapper.path_
  /\ impl.authenticationEnabled_ = wrapper.authenticationEnabled_
  /\ impl.authentication_ = wrapper.authentication_
  /\ impl.timeout_ = wrapper.timeout_
  /\ impl.handleSSLErrors_ <=> sslAsked = "Aknowledge"

\* A request exists until it is destroyed.
Life == \A t \in Threads : request[t].created <=> pc[t] # "idle"

\* The policy of a request no other one overruled is its own client's.
Policies ==
  \A t \in Threads \ overruled :
    request[t].created =>
      (allowsAny[request[t].to.host] <=> request[t].asked # "Aknowledge")

\* What has been stored of a completion, and nothing else, is in the block.
Handed(c, done, shared) ==
  /\ shared.resp = IF "resp" \in done THEN c.resp ELSE Nil
  /\ shared.err = IF "err" \in done THEN c.err ELSE Nil
  /\ shared.data = IF "data" \in done THEN c.data ELSE Nil
  /\ shared.reqProcessed <=> "reqProcessed" \in done

\* A task runs while its request is polled; the flag is stored last.
Task(t) ==
  /\ pc[t] # "polling" => completion[t] = NoTask
  /\ pc[t] = "polling" => completion[t] # NoTask
  /\ completion[t] \in {NoTask, Running} => stored[t] = {} /\ block[t] = Empty
  /\ completion[t] \in Completions => Handed(completion[t], stored[t], block[t])
  /\ StoresInOrder => /\ "err" \in stored[t] => "resp" \in stored[t]
                      /\ "data" \in stored[t] => "err" \in stored[t]
                      /\ "reqProcessed" \in stored[t] => Fields \subseteq stored[t]

Tasks == \A t \in Threads : Task(t)

\* The inductive invariant.
IInv == TypeOK /\ Mirror /\ Life /\ Policies /\ Tasks

-----------------------------------------------------------------------------
\* Records are told apart by their fields.
LEMMA RecordFacts ==
  /\ ~NoRequest.created
  /\ \A r \in Requests : r.created /\ r # NoRequest /\ r.to \in RequestSet /\ r.asked \in Handlings
  /\ \A s \in RequestSet : s # NoRequest /\ s.host \in Hosts
  /\ \A s \in SettingSet : s # NoRequest
  /\ NoRequest # Unreachable
  /\ \A r \in Results : r # NoResult
<1>1. ~NoRequest.created
  BY DEF NoRequest
<1>2. DOMAIN NoRequest = {"created"} /\ DOMAIN Unreachable = {"made"}
  BY DEF NoRequest, Unreachable
<1>3. \A s \in RequestSet : s # NoRequest /\ s.host \in Hosts
  <2>1. \A s \in RequestSet : "host" \in DOMAIN s /\ s.host \in Hosts
    BY DEF RequestSet
  <2>2. QED
    BY <1>2, <2>1
<1>4. \A r \in Requests : r.created /\ r # NoRequest /\ r.to \in RequestSet /\ r.asked \in Handlings
  <2>1. \A r \in Requests : r.created = TRUE /\ r.to \in RequestSet /\ r.asked \in Handlings
    BY DEF Requests
  <2>2. QED
    BY <1>1, <2>1
<1>5. \A r \in Results : r # NoResult
  <2>1. NoResult.returned = FALSE
    BY DEF NoResult
  <2>2. \A r \in Results : r.returned = TRUE
    BY DEF Results
  <2>3. QED
    BY <2>1, <2>2
<1>6. NoRequest # Unreachable
  BY <1>2
<1>7. \A s \in SettingSet : s # NoRequest
  <2>1. \A s \in SettingSet : "host" \in DOMAIN s
    BY DEF SettingSet
  <2>2. QED
    BY <1>2, <2>1
<1>8. QED
  BY <1>1, <1>3, <1>4, <1>5, <1>6, <1>7

\* The four things a task can be.
LEMMA TaskFacts ==
  /\ NoTask # Running /\ NoTask \notin Completions /\ Running \notin Completions
  /\ \A c \in Answered : c \in Completions /\ c.resp \in Statuses /\ c.err = Nil /\ c.data = Whole
  /\ \A c \in Broken : c \in Completions /\ c.resp \in Statuses \cup {Nil} /\ c.err \in Codes
                       /\ c.data = Nil /\ c \notin Answered
  /\ \A c \in Completions : c \in Answered \/ c \in Broken
<1>1. DOMAIN NoTask = {"running"} /\ DOMAIN Running = {"running"} /\ ~NoTask.running /\ Running.running
  BY DEF NoTask, Running
<1>2. \A c \in Answered : c.resp \in Statuses /\ c.err = Nil /\ c.data = Whole /\ "resp" \in DOMAIN c
  BY DEF Answered
<1>3. \A c \in Broken : c.resp \in Statuses \cup {Nil} /\ c.err \in Codes /\ c.data = Nil
                        /\ "resp" \in DOMAIN c
  BY DEF Broken
<1>4. \A c \in Broken : c \notin Answered
  BY <1>2, <1>3, HttpCocoaAssumption
<1>5. QED
  BY <1>1, <1>2, <1>3, <1>4 DEF Completions

\* What createRequest takes from the settings has its type.
LEMMA SettingTypes ==
  ASSUME TypeOK
  PROVE  RequestOf(impl) \in RequestSet /\ RequestOf(impl).host = impl.hostname_
BY DEF TypeOK, Impls, RequestOf, RequestSet

\* The same after a step.
LEMMA SettingTypesAfter ==
  ASSUME TypeOK'
  PROVE  CurrentSettings' \in SettingSet
BY DEF TypeOK, Wrappers, CurrentSettings, SettingSet

\* Where a request goes that is made with these settings.
Going(to) == [host |-> to.host, port |-> to.port, path |-> to.path, user |-> to.user]

\* Requests are made with the settings the getters return.
LEMMA RequestOfMirror ==
  ASSUME TypeOK, Mirror
  PROVE  CurrentSettings = Going(RequestOf(impl)) /\ CurrentSettings \in SettingSet
<1>1. wrapper \in Wrappers /\ impl \in Impls /\ wrapper.port_ \in Int
  BY HttpCocoaAssumption DEF TypeOK, Wrappers
<1>2. CurrentSettings \in SettingSet
  BY <1>1 DEF Wrappers, CurrentSettings, SettingSet
<1>3. (impl.port_ > -1) <=> ~(wrapper.port_ < 0)
  BY <1>1 DEF Mirror
<1>4. RequestOf(impl).port = CurrentSettings.port
  BY <1>3 DEF Mirror, RequestOf, CurrentSettings
<1>5. /\ RequestOf(impl).host = CurrentSettings.host
      /\ RequestOf(impl).path = CurrentSettings.path
      /\ RequestOf(impl).user = CurrentSettings.user
  BY DEF Mirror, RequestOf, CurrentSettings
<1>6. QED
  BY <1>2, <1>4, <1>5 DEF Going, CurrentSettings

\* A new client has no requests, and equal copies of its settings.
LEMMA InitInv == Init => IInv
<1> SUFFICES ASSUME Init PROVE IInv
  OBVIOUS
<1> USE DEF Init
<1>1. TypeOK
  <2>1. wrapper \in Wrappers /\ impl \in Impls
    BY DEF Wrappers, Impls
  <2>2. Empty \in Blocks
    BY DEF Empty, Blocks
  <2>3. sslAsked \in Handlings
    BY DEF Handlings
  <2>4. QED
    BY <2>1, <2>2, <2>3 DEF TypeOK
<1>2. Mirror
  <2>1. PICK host \in Hosts, port \in Ports, path \in Paths, user \in Users, ms \in Timeouts,
             required \in BOOLEAN :
          /\ wrapper = [hostname_ |-> host, port_ |-> port, path_ |-> path,
                        authenticationEnabled_ |-> required, authentication_ |-> user,
                        timeout_ |-> ms, sslErrorHandlingEnabled_ |-> TRUE]
          /\ impl = [hostname_ |-> host, port_ |-> port, path_ |-> path,
                     authenticationEnabled_ |-> required, authentication_ |-> user,
                     timeout_ |-> ms, handleSSLErrors_ |-> FALSE]
    OBVIOUS
  <2>2. sslAsked = "nothing"
    OBVIOUS
  <2> HIDE DEF Init
  <2>3. QED
    BY <2>1, <2>2 DEF Mirror
<1>3. Life /\ Policies
  BY RecordFacts DEF Life, Policies
<1>4. Tasks
  BY TaskFacts DEF Tasks, Task
<1>5. QED
  BY <1>1, <1>2, <1>3, <1>4 DEF IInv

\* Setters keep the two copies equal, and change nothing of the requests.
LEMMA SetterInv ==
  ASSUME IInv, Setter
  PROVE  IInv' /\ UNCHANGED <<policyVars, pc, request, sendVars>>
<1>1. UNCHANGED <<policyVars, pc, request, sendVars>>
  BY DEF Setter, setHost, setPort, setPath, setAuthentication, setCredentials,
     setSSLErrorHandling, setTimeout
<1>2. wrapper \in Wrappers /\ impl \in Impls /\ sslAsked \in Handlings /\ Mirror
  BY DEF IInv, TypeOK
<1> DEFINE Kept == wrapper' \in Wrappers /\ impl' \in Impls /\ sslAsked' \in Handlings /\ Mirror'
<1>3. Kept
  <2> USE <1>2 DEF Wrappers, Impls, Mirror
  <2>1. ASSUME NEW host \in Hosts, setHost(host) PROVE Kept
    BY <2>1 DEF setHost
  <2>2. ASSUME NEW port \in Ports, setPort(port) PROVE Kept
    BY <2>2 DEF setPort
  <2>3. ASSUME NEW path \in Paths, setPath(path) PROVE Kept
    BY <2>3 DEF setPath
  <2>4. ASSUME NEW enabled \in BOOLEAN, setAuthentication(enabled) PROVE Kept
    BY <2>4 DEF setAuthentication
  <2>5. ASSUME NEW user \in Users, setCredentials(user) PROVE Kept
    BY <2>5 DEF setCredentials
  <2>6. ASSUME NEW acknowledge \in BOOLEAN, setSSLErrorHandling(acknowledge) PROVE Kept
    BY <2>6 DEF setSSLErrorHandling, Handlings
  <2>7. ASSUME NEW ms \in Timeouts, setTimeout(ms) PROVE Kept
    BY <2>7 DEF setTimeout
  <2>8. QED
    BY <2>1, <2>2, <2>3, <2>4, <2>5, <2>6, <2>7 DEF Setter
<1>4. TypeOK'
  BY <1>1, <1>3 DEF IInv, TypeOK, policyVars, sendVars
<1>5. Life' /\ Policies' /\ Tasks'
  BY <1>1 DEF IInv, Life, Policies, Tasks, Task, policyVars, sendVars
<1>6. QED
  BY <1>1, <1>3, <1>4, <1>5 DEF IInv

\* A request is created with the settings of now, and its policy becomes the one of
\* all requests to its host; the ones that were asked another are overruled.
LEMMA CreateRequestInv ==
  ASSUME IInv, NEW t \in Threads, createRequest(t)
  PROVE  /\ IInv' /\ UNCHANGED <<settingVars, sendVars>>
         /\ ~request[t].created /\ request'[t].created /\ request'[t].to = RequestOf(impl)
         /\ \A u \in Threads \ {t} : request'[u] = request[u]
<1> USE DEF createRequest
<1>1. /\ TypeOK /\ pc[t] = "idle" /\ ~request[t].created
      /\ pc \in [Threads -> {"idle", "ready", "polling"}]
      /\ request \in [Threads -> {NoRequest} \cup Requests]
      /\ allowsAny \in [Hosts -> BOOLEAN] /\ overruled \in SUBSET Threads
      /\ impl.hostname_ \in Hosts /\ (impl.handleSSLErrors_ <=> sslAsked = "Aknowledge")
      /\ impl.handleSSLErrors_ \in BOOLEAN /\ sslAsked \in Handlings
  BY DEF IInv, Life, TypeOK, Impls, Mirror
<1> DEFINE new == [created |-> TRUE, to |-> RequestOf(impl), asked |-> sslAsked]
           host == impl.hostname_
<1>2. new \in Requests /\ new.created /\ new.to = RequestOf(impl) /\ new.to.host = host
      /\ new.asked = sslAsked
  BY <1>1, SettingTypes DEF Requests
<1>3. /\ pc' = [pc EXCEPT ![t] = "ready"] /\ request' = [request EXCEPT ![t] = new]
      /\ allowsAny' = [allowsAny EXCEPT ![host] = ~impl.handleSSLErrors_]
      /\ overruled' = (overruled \ {t})
                        \cup {u \in OthersTo(host, t) : request[u].asked # sslAsked}
      /\ UNCHANGED <<settingVars, sendVars>>
  BY <1>1
<1>4. /\ request'[t] = new /\ \A u \in Threads \ {t} : request'[u] = request[u]
      /\ pc'[t] = "ready" /\ \A u \in Threads \ {t} : pc'[u] = pc[u]
  BY <1>1, <1>3
<1>5. TypeOK'
  <2>1. /\ pc' \in [Threads -> {"idle", "ready", "polling"}]
        /\ request' \in [Threads -> {NoRequest} \cup Requests]
    BY <1>1, <1>2, <1>3
  <2>2. allowsAny' \in [Hosts -> BOOLEAN] /\ overruled' \in SUBSET Threads
    BY <1>1, <1>3 DEF OthersTo
  <2>3. QED
    BY <1>1, <1>3, <2>1, <2>2 DEF TypeOK, settingVars, sendVars
<1>6. Mirror' /\ Life'
  BY <1>2, <1>3, <1>4 DEF IInv, Mirror, Life, settingVars
<1>7. allowsAny'[host] <=> sslAsked # "Aknowledge"
  <2>1. allowsAny'[host] = ~impl.handleSSLErrors_
    BY <1>1, <1>3
  <2>2. QED
    BY <2>1, <1>1, Zenon
<1>8. Policies'
  <2> SUFFICES ASSUME NEW u \in Threads \ overruled', request'[u].created
      PROVE allowsAny'[request'[u].to.host] <=> request'[u].asked # "Aknowledge"
    BY DEF Policies
  <2>1. CASE u = t
    <3>1. request'[u].to.host = host /\ request'[u].asked = sslAsked
      BY <2>1, <1>2, <1>4
    <3>2. QED
      BY <3>1, <1>7, Zenon
  <2>2. CASE u # t
    <3>1. request'[u] = request[u] /\ u \notin overruled /\ request[u] \in Requests
      BY <2>2, <1>1, <1>3, <1>4, RecordFacts
    <3>2. CASE request[u].to.host = host
      <4>1. request[u].asked = sslAsked
        BY <2>2, <3>1, <3>2, <1>3 DEF OthersTo
      <4>2. QED
        BY <3>1, <3>2, <4>1, <1>7, Zenon
    <3>3. CASE request[u].to.host # host
      <4>1. request[u].to.host \in Hosts
        BY <3>1, RecordFacts
      <4>2. allowsAny'[request[u].to.host] = allowsAny[request[u].to.host]
        BY <3>3, <4>1, <1>1, <1>3
      <4>3. QED
        BY <3>1, <4>2 DEF IInv, Policies
    <3>4. QED
      BY <3>2, <3>3
  <2>3. QED
    BY <2>1, <2>2
<1>9. Tasks'
  BY <1>1, <1>3, <1>4 DEF IInv, Tasks, Task, sendVars
<1>10. QED
  BY <1>1, <1>2, <1>3, <1>4, <1>5, <1>6, <1>8, <1>9 DEF IInv

\* Another client's policy overrules every request to its host.
LEMMA ElsewhereInv ==
  ASSUME IInv, NEW host \in Hosts, NEW handle \in BOOLEAN, createRequestElsewhere(host, handle)
  PROVE  IInv' /\ UNCHANGED <<settingVars, pc, request, sendVars>>
<1> USE DEF createRequestElsewhere
<1>1. /\ allowsAny \in [Hosts -> BOOLEAN] /\ overruled \in SUBSET Threads
      /\ request \in [Threads -> {NoRequest} \cup Requests]
  BY DEF IInv, TypeOK
<1>2. TypeOK'
  BY <1>1 DEF IInv, TypeOK, settingVars, sendVars
<1>3. Policies'
  <2> SUFFICES ASSUME NEW u \in Threads \ overruled', request[u].created
      PROVE allowsAny'[request[u].to.host] <=> request[u].asked # "Aknowledge"
    BY DEF Policies
  <2>1. u \notin overruled /\ request[u].to.host # host
    OBVIOUS
  <2>2. request[u].to.host \in Hosts
    BY <1>1, RecordFacts
  <2>3. QED
    BY <1>1, <2>1, <2>2 DEF IInv, Policies
<1>4. Mirror' /\ Life' /\ Tasks'
  BY DEF IInv, Mirror, Life, Tasks, Task, settingVars, sendVars
<1>5. QED
  BY <1>2, <1>3, <1>4 DEF IInv

-----------------------------------------------------------------------------
\* The steps that leave the settings, the policies and the set of requests alone.
LEMMA QuietInv ==
  ASSUME IInv, TypeOK', Tasks', UNCHANGED <<settingVars, policyVars, request>>,
         \A t \in Threads : pc'[t] # "idle" <=> pc[t] # "idle"
  PROVE  IInv'
<1>1. Mirror' /\ Life' /\ Policies'
  BY DEF IInv, Mirror, Life, Policies, settingVars, policyVars
<1>2. QED
  BY <1>1 DEF IInv

\* What another thread's step leaves of a task.
Alone(u) ==
  /\ pc'[u] = pc[u] /\ completion'[u] = completion[u]
  /\ stored'[u] = stored[u] /\ block'[u] = block[u]

\* The task of one thread is nobody else's.
LEMMA OneTask ==
  ASSUME IInv, NEW t \in Threads, Task(t)', \A u \in Threads \ {t} : Alone(u)
  PROVE  Tasks'
BY DEF IInv, Tasks, Task, Alone

\* The types of what tasks are made of.
LEMMA TaskTypes ==
  ASSUME IInv
  PROVE  /\ pc \in [Threads -> {"idle", "ready", "polling"}]
         /\ completion \in [Threads -> {NoTask, Running} \cup Completions]
         /\ stored \in [Threads -> SUBSET (Fields \cup {"reqProcessed"})]
         /\ block \in [Threads -> Blocks]
         /\ result \in [Threads -> {NoResult} \cup Results]
         /\ \A t \in Threads : Task(t)
BY DEF IInv, TypeOK, Tasks

\* ~Request leaves the other requests' policies as they are.
LEMMA DestroyRequestInv ==
  ASSUME IInv, NEW t \in Threads, DestroyRequest(t)
  PROVE  /\ IInv' /\ UNCHANGED <<settingVars, completion>>
         /\ request[t].created /\ ~request'[t].created
         /\ \A u \in Threads \ {t} : request'[u] = request[u]
<1> USE DEF DestroyRequest
<1>1. /\ pc[t] = "ready" /\ request[t].created
      /\ request \in [Threads -> {NoRequest} \cup Requests] /\ overruled \in SUBSET Threads
  BY DEF IInv, TypeOK, Life
<1>2. /\ request'[t] = NoRequest /\ \A u \in Threads \ {t} : request'[u] = request[u]
      /\ pc'[t] = "idle" /\ \A u \in Threads \ {t} : pc'[u] = pc[u]
  BY <1>1, TaskTypes
<1>3. TypeOK'
  BY <1>1 DEF IInv, TypeOK, settingVars
<1>4. Mirror' /\ Life'
  BY <1>2, RecordFacts DEF IInv, Mirror, Life, settingVars
<1>5. Policies'
  BY <1>2, RecordFacts DEF IInv, Policies
<1>6. Task(t)'
  BY <1>1, <1>2, TaskTypes DEF Task
<1>7. \A u \in Threads \ {t} : Alone(u)
  BY <1>2 DEF Alone
<1>8. Tasks'
  BY <1>6, <1>7, OneTask
<1>9. QED
  BY <1>1, <1>2, <1>3, <1>4, <1>5, <1>8, RecordFacts DEF IInv

\* A task starts with nothing stored.
LEMMA BeginSendInv ==
  ASSUME IInv, NEW t \in Threads, BeginSend(t)
  PROVE  IInv' /\ UNCHANGED <<settingVars, request>>
<1> USE DEF BeginSend
<1>1. /\ pc[t] = "ready" /\ pc'[t] = "polling" /\ completion'[t] = Running
      /\ \A u \in Threads \ {t} : pc'[u] = pc[u] /\ completion'[u] = completion[u]
      /\ UNCHANGED <<settingVars, policyVars, request, stored, block>>
  BY TaskTypes
<1>2. TypeOK'
  BY DEF IInv, TypeOK, settingVars, policyVars
<1>3. Task(t)'
  BY <1>1, TaskTypes, TaskFacts DEF Task
<1>4. \A u \in Threads \ {t} : Alone(u)
  BY <1>1 DEF Alone
<1>5. Tasks'
  BY <1>3, <1>4, OneTask
<1>6. \A u \in Threads : pc'[u] # "idle" <=> pc[u] # "idle"
  BY <1>1
<1>7. QED
  BY <1>1, <1>2, <1>5, <1>6, QuietInv

\* A task that ends has something to store.
LEMMA CompleteTaskInv ==
  ASSUME IInv, NEW t \in Threads, CompleteTask(t)
  PROVE  IInv' /\ UNCHANGED <<settingVars, request>>
<1> USE DEF CompleteTask
<1>1. PICK c \in Completions : completion' = [completion EXCEPT ![t] = c]
  OBVIOUS
<1>2. /\ completion[t] = Running /\ completion'[t] = c
      /\ \A u \in Threads \ {t} : completion'[u] = completion[u]
      /\ UNCHANGED <<settingVars, policyVars, pc, request, stored, block, result>>
  BY <1>1, TaskTypes
<1>3. TypeOK'
  BY <1>1 DEF IInv, TypeOK, settingVars, policyVars
<1>4. pc[t] = "polling" /\ stored[t] = {} /\ block[t] = Empty
  BY <1>2, TaskTypes, TaskFacts DEF Task
<1>5. Handed(c, {}, Empty)
  <2>1. /\ Empty.resp = Nil /\ Empty.err = Nil /\ Empty.data = Nil
        /\ Empty.reqProcessed = FALSE
    BY DEF Empty
  <2>2. QED
    BY <2>1 DEF Handed
<1>6. Task(t)'
  BY <1>2, <1>4, <1>5, TaskFacts DEF Task
<1>7. Tasks'
  BY <1>2, <1>6, OneTask DEF Alone
<1>8. QED
  BY <1>2, <1>3, <1>7, QuietInv

\* A store puts one more thing of the completion into the block.
LEMMA StoreInv ==
  ASSUME IInv, NEW t \in Threads, NEW n \in Blocks, NEW f \in Fields \cup {"reqProcessed"},
         completion[t] \in Completions,
         block' = [block EXCEPT ![t] = n],
         stored' = [stored EXCEPT ![t] = stored[t] \cup {f}],
         Handed(completion[t], stored[t] \cup {f}, n),
         StoresInOrder => /\ f = "err" => "resp" \in stored[t]
                          /\ f = "data" => {"resp", "err"} \subseteq stored[t]
                          /\ f = "reqProcessed" => Fields \subseteq stored[t],
         UNCHANGED <<settingVars, policyVars, pc, request, completion, result>>
  PROVE  IInv'
<1> DEFINE d == stored[t]
<1>1. /\ block'[t] = n /\ stored'[t] = d \cup {f}
      /\ \A u \in Threads \ {t} : block'[u] = block[u] /\ stored'[u] = stored[u]
  BY TaskTypes
<1>2. TypeOK'
  <2>1. block' \in [Threads -> Blocks]
        /\ stored' \in [Threads -> SUBSET (Fields \cup {"reqProcessed"})]
    BY TaskTypes
  <2>2. QED
    BY <2>1 DEF IInv, TypeOK, settingVars, policyVars
<1>3. StoresInOrder => /\ "err" \in d \cup {f} => "resp" \in d \cup {f}
                       /\ "data" \in d \cup {f} => "err" \in d \cup {f}
                       /\ "reqProcessed" \in d \cup {f} => Fields \subseteq d \cup {f}
  BY TaskTypes DEF Task
<1>4. Task(t)'
  BY <1>1, <1>3, TaskTypes, TaskFacts DEF Task
<1>5. Tasks'
  BY <1>1, <1>4, OneTask DEF Alone
<1>6. QED
  BY <1>2, <1>5, QuietInv

\* The four stores of the handler.
LEMMA HandlerInv ==
  ASSUME IInv, NEW t \in Threads, Handler(t)
  PROVE  IInv' /\ UNCHANGED <<settingVars, pc, request, completion, result>>
<1> DEFINE c == completion[t]
           b == block[t]
           d == stored[t]
<1>1. /\ c \in Completions /\ b \in Blocks /\ d \in SUBSET (Fields \cup {"reqProcessed"})
      /\ Handed(c, d, b)
      /\ UNCHANGED <<settingVars, policyVars, pc, request, completion, result>>
  BY TaskTypes, TaskFacts DEF Handler, StoreResponse, StoreError, StoreData, StoreFlag, Store, Task
<1>2. /\ c.resp \in Statuses \cup {Nil} /\ c.err \in Codes \cup {Nil} /\ c.data \in {Whole, Nil}
  BY <1>1, TaskFacts
<1>3. CASE StoreResponse(t)
  <2> DEFINE n == [b EXCEPT !.resp = c.resp]
  <2>1. n \in Blocks /\ Handed(c, d \cup {"resp"}, n)
    BY <1>1, <1>2 DEF Blocks, Handed
  <2>2. block' = [block EXCEPT ![t] = n] /\ stored' = [stored EXCEPT ![t] = d \cup {"resp"}]
    BY <1>3, TaskTypes DEF StoreResponse, Store
  <2>3. QED
    BY <1>1, <2>1, <2>2, StoreInv DEF Fields
<1>4. CASE StoreError(t)
  <2> DEFINE n == [b EXCEPT !.err = c.err]
  <2>1. n \in Blocks /\ Handed(c, d \cup {"err"}, n)
    BY <1>1, <1>2 DEF Blocks, Handed
  <2>2. /\ block' = [block EXCEPT ![t] = n] /\ stored' = [stored EXCEPT ![t] = d \cup {"err"}]
        /\ StoresInOrder => "resp" \in d
    BY <1>4, TaskTypes DEF StoreError, Store
  <2>3. QED
    BY <1>1, <2>1, <2>2, StoreInv DEF Fields
<1>5. CASE StoreData(t)
  <2> DEFINE n == [b EXCEPT !.data = c.data]
  <2>1. n \in Blocks /\ Handed(c, d \cup {"data"}, n)
    BY <1>1, <1>2 DEF Blocks, Handed
  <2>2. /\ block' = [block EXCEPT ![t] = n] /\ stored' = [stored EXCEPT ![t] = d \cup {"data"}]
        /\ StoresInOrder => {"resp", "err"} \subseteq d
    BY <1>5, TaskTypes DEF StoreData, Store
  <2>3. QED
    BY <1>1, <2>1, <2>2, StoreInv DEF Fields
<1>6. CASE StoreFlag(t)
  <2> DEFINE n == [b EXCEPT !.reqProcessed = TRUE]
  <2>1. n \in Blocks /\ Handed(c, d \cup {"reqProcessed"}, n)
    BY <1>1, <1>2 DEF Blocks, Handed
  <2>2. /\ block' = [block EXCEPT ![t] = n]
        /\ stored' = [stored EXCEPT ![t] = d \cup {"reqProcessed"}]
        /\ StoresInOrder => Fields \subseteq d
    BY <1>6, TaskTypes DEF StoreFlag, Store
  <2>3. QED
    BY <1>1, <2>1, <2>2, StoreInv
<1>7. QED
  BY <1>1, <1>3, <1>4, <1>5, <1>6 DEF Handler

\* What Status makes of no response.
LEMMA NoStatus == Status(0) = Unknown
<1>1. 0 \notin StatusCodes
  BY DEF StatusCodes
<1>2. QED
  BY <1>1 DEF Status

\* What send() makes of a block, and what that says of the completion.
LEMMA ResultFacts ==
  ASSUME IInv, NEW t \in Threads
  PROVE  /\ ResultOf(block[t]) \in Results
         /\ StoresInOrder /\ pc[t] = "polling" /\ block[t].reqProcessed =>
              Outcome(ResultOf(block[t])) \in {Failed, Promised(completion[t])} \ {Unanswered}
<1> DEFINE b == block[t]
           c == completion[t]
           r == ResultOf(b)
<1>1. b.resp \in Statuses \cup {Nil} /\ b.err \in Codes \cup {Nil} /\ b.data \in {Whole, Nil}
  BY TaskTypes DEF Blocks
<1>2. /\ r.status = Status(IF b.resp = Nil THEN 0 ELSE b.resp)
      /\ r.text = b.data /\ r.error = fromNSURLError(b.err)
      /\ r.unlisted = (b.err # Nil /\ Listed(b.err) = "NoError")
  BY DEF ResultOf
<1>3. r \in Results /\ r # NoResult
  <2>1. r \in Results
    <3>1. r.status \in {Status(s) : s \in Statuses} \cup {Unknown}
      BY <1>1, <1>2, NoStatus
    <3>2. QED
      BY <1>1, <3>1 DEF ResultOf, Results
  <2>2. QED
    BY <2>1, RecordFacts
<1>4. Failed # Unanswered /\ \A s : [status |-> s, whole |-> TRUE] # Unanswered
  BY DEF Failed, Unanswered
<1>5. ASSUME StoresInOrder, pc[t] = "polling", b.reqProcessed
      PROVE  Outcome(r) \in {Failed, Promised(c)} \ {Unanswered}
  <2>1. c \in Completions
    <3>1. Task(t) /\ c \in {NoTask, Running} \cup Completions
      BY TaskTypes
    <3>2. c # Running
      BY <1>5, <3>1 DEF Task, Empty
    <3>3. QED
      BY <1>5, <3>1, <3>2 DEF Task
  <2>2. b.resp = c.resp /\ b.err = c.err /\ b.data = c.data
    <3>1. Handed(c, stored[t], b) /\ Fields \subseteq stored[t]
      BY <1>5, <2>1, TaskTypes DEF Task, Handed
    <3>2. QED
      BY <3>1 DEF Handed, Fields
  <2>3. CASE c \in Answered
    <3>1. r.error = "NoError" /\ ~r.unlisted
      BY <1>2, <2>2, <2>3, TaskFacts DEF fromNSURLError
    <3>2. r.status = Status(c.resp) /\ r.text = Whole
      BY <1>2, <2>2, <2>3, TaskFacts, HttpCocoaAssumption
    <3>3. Outcome(r) = Promised(c) /\ Outcome(r) # Unanswered
      BY <1>3, <1>4, <2>3, <3>1, <3>2 DEF Outcome, Promised
    <3>4. QED
      BY <3>3
  <2>4. CASE c \in Broken
    <3>1. b.err # Nil
      BY <2>2, <2>4, TaskFacts, HttpCocoaAssumption
    <3>2. r.error # "NoError" \/ r.unlisted
      BY <1>2, <3>1 DEF fromNSURLError
    <3>3. QED
      BY <1>3, <1>4, <3>2 DEF Outcome
  <2>5. QED
    BY <2>1, <2>3, <2>4, TaskFacts
<1>6. QED
  BY <1>3, <1>5

\* The block is gone when send() returns.
LEMMA EndSendInv ==
  ASSUME IInv, NEW t \in Threads, EndSend(t)
  PROVE  IInv' /\ UNCHANGED <<settingVars, request>>
<1> USE DEF EndSend
<1>1. /\ pc[t] = "polling" /\ pc'[t] = "ready" /\ completion'[t] = NoTask
      /\ stored'[t] = {} /\ block'[t] = Empty
      /\ \A u \in Threads \ {t} : Alone(u)
      /\ UNCHANGED <<settingVars, policyVars, request>>
  BY TaskTypes DEF Alone
<1>2. TypeOK'
  <2>1. Empty \in Blocks
    BY DEF Empty, Blocks
  <2>2. result' \in [Threads -> {NoResult} \cup Results]
    BY TaskTypes, ResultFacts
  <2>3. /\ pc' \in [Threads -> {"idle", "ready", "polling"}]
        /\ completion' \in [Threads -> {NoTask, Running} \cup Completions]
        /\ stored' \in [Threads -> SUBSET (Fields \cup {"reqProcessed"})]
        /\ block' \in [Threads -> Blocks]
    BY <2>1, TaskTypes
  <2>4. QED
    BY <1>1, <2>2, <2>3 DEF IInv, TypeOK, settingVars, policyVars
<1>3. Task(t)'
  BY <1>1, TaskFacts DEF Task
<1>4. Tasks'
  BY <1>1, <1>3, OneTask
<1>5. \A u \in Threads : pc'[u] # "idle" <=> pc[u] # "idle"
  BY <1>1 DEF Alone
<1>6. QED
  BY <1>1, <1>2, <1>4, <1>5, QuietInv

-----------------------------------------------------------------------------
\* Nothing changes in a stuttering step.
LEMMA StutterInv == ASSUME IInv, UNCHANGED vars PROVE IInv'
<1>1. TypeOK' /\ Tasks'
  BY DEF IInv, TypeOK, Tasks, Task, vars, settingVars, policyVars, sendVars
<1>2. QED
  BY <1>1, QuietInv DEF vars

\* The invariant holds in every state.
THEOREM Invariant == Spec => []IInv
<1>1. ASSUME IInv, [Next]_vars PROVE IInv'
  <2>1. CASE Setter
    BY <1>1, <2>1, SetterInv
  <2>2. ASSUME NEW host \in Hosts, NEW handle \in BOOLEAN, createRequestElsewhere(host, handle)
        PROVE  IInv'
    BY <1>1, <2>2, ElsewhereInv
  <2>3. ASSUME NEW t \in Threads, createRequest(t) PROVE IInv'
    BY <1>1, <2>3, CreateRequestInv
  <2>4. ASSUME NEW t \in Threads, DestroyRequest(t) PROVE IInv'
    BY <1>1, <2>4, DestroyRequestInv
  <2>5. ASSUME NEW t \in Threads, BeginSend(t) PROVE IInv'
    BY <1>1, <2>5, BeginSendInv
  <2>6. ASSUME NEW t \in Threads, EndSend(t) PROVE IInv'
    BY <1>1, <2>6, EndSendInv
  <2>7. ASSUME NEW t \in Threads, CompleteTask(t) PROVE IInv'
    BY <1>1, <2>7, CompleteTaskInv
  <2>8. ASSUME NEW t \in Threads, Handler(t) PROVE IInv'
    BY <1>1, <2>8, HandlerInv
  <2>9. CASE UNCHANGED vars
    BY <1>1, <2>9, StutterInv
  <2>10. QED
    BY <1>1, <2>1, <2>2, <2>3, <2>4, <2>5, <2>6, <2>7, <2>8, <2>9 DEF Next
<1>2. QED
  BY <1>1, InitInv, PTL DEF Spec

\* Every variable keeps its type: the status a send() returns is what Status makes of
\* a response's, or Unknown, and the text is a response's, or none.
THEOREM TypeCorrect == Spec => []TypeOK
<1>1. IInv => TypeOK
  BY DEF IInv
<1>2. QED
  BY <1>1, Invariant, PTL

\* A request no other one overruled is sent with the policy for certificates its
\* client had last been told when it was created, if it had been told one.
THEOREM CertificatesAreHandled == Spec => []CertificatesAreHandledAsAsked
<1>1. IInv => CertificatesAreHandledAsAsked
  <2>1. SUFFICES ASSUME IInv, NEW t \in Threads \ overruled, request[t].created,
                        request[t].asked # "nothing"
                 PROVE  allowsAny[request[t].to.host] = (request[t].asked = "Ignore")
    BY DEF CertificatesAreHandledAsAsked
  <2>2. allowsAny[request[t].to.host] <=> request[t].asked # "Aknowledge"
    BY <2>1 DEF IInv, Policies
  <2>3. request[t] \in Requests
    BY <2>1, RecordFacts DEF IInv, TypeOK
  <2>4. request[t].to.host \in Hosts /\ request[t].asked \in Handlings
    BY <2>3, RecordFacts
  <2>5. allowsAny[request[t].to.host] \in BOOLEAN
    BY <2>1, <2>4 DEF IInv, TypeOK
  <2>6. request[t].asked # "Aknowledge" <=> request[t].asked = "Ignore"
    BY <2>1, <2>4 DEF Handlings
  <2>7. QED
    BY <2>2, <2>5, <2>6
<1>2. QED
  BY <1>1, Invariant, PTL

-----------------------------------------------------------------------------
\* Every step is one of HttpClient, or changes none of its variables.
LEMMA StepIsAClients ==
  ASSUME IInv, [Next]_vars
  PROVE  [Client!Next]_<<CurrentSettings, RequestSettings>>
<1>1. ASSUME UNCHANGED <<settingVars, request>>
      PROVE  UNCHANGED <<CurrentSettings, RequestSettings>>
  BY <1>1 DEF settingVars, CurrentSettings, RequestSettings, SettingsOf
<1>2. ASSUME Setter PROVE Client!Set
  <2>1. CurrentSettings' \in SettingSet
    BY <1>2, SetterInv, SettingTypesAfter DEF IInv
  <2>2. RequestSettings' = RequestSettings
    BY <1>2, SetterInv DEF RequestSettings, SettingsOf
  <2>3. QED
    BY <2>1, <2>2 DEF Client!Set
<1>3. ASSUME NEW t \in Threads, createRequest(t) PROVE Client!Create(t)
  <2>1. /\ UNCHANGED settingVars
        /\ ~request[t].created /\ request'[t].created /\ request'[t].to = RequestOf(impl)
        /\ \A u \in Threads \ {t} : request'[u] = request[u]
    BY <1>3, CreateRequestInv
  <2>2. CurrentSettings' = CurrentSettings
    BY <2>1 DEF settingVars, CurrentSettings
  <2>3. RequestSettings' = [RequestSettings EXCEPT ![t] = CurrentSettings]
    <3>1. SettingsOf(t)' = CurrentSettings
      BY <2>1, RequestOfMirror DEF SettingsOf, Going, IInv
    <3>2. \A u \in Threads \ {t} : SettingsOf(u)' = SettingsOf(u)
      BY <2>1 DEF SettingsOf
    <3>3. QED
      BY <3>1, <3>2, Zenon DEF RequestSettings
  <2>4. RequestSettings[t] = NoRequest
    BY <2>1 DEF RequestSettings, SettingsOf
  <2>5. QED
    BY <2>2, <2>3, <2>4 DEF Client!Create
<1>4. ASSUME NEW t \in Threads, DestroyRequest(t) PROVE Client!Finish(t)
  <2>1. /\ UNCHANGED settingVars /\ request[t].created /\ ~request'[t].created
        /\ \A u \in Threads \ {t} : request'[u] = request[u]
    BY <1>4, DestroyRequestInv
  <2>2. CurrentSettings' = CurrentSettings
    BY <2>1 DEF settingVars, CurrentSettings
  <2>3. RequestSettings' = [RequestSettings EXCEPT ![t] = NoRequest]
    <3>1. SettingsOf(t)' = NoRequest
      BY <2>1 DEF SettingsOf
    <3>2. \A u \in Threads \ {t} : SettingsOf(u)' = SettingsOf(u)
      BY <2>1 DEF SettingsOf
    <3>3. QED
      BY <3>1, <3>2, Zenon DEF RequestSettings
  <2>4. request[t] \in Requests
    BY <2>1, RecordFacts DEF IInv, TypeOK
  <2>5. RequestSettings[t] # NoRequest
    <3>1. SettingsOf(t) \in SettingSet
      BY <2>1, <2>4, RecordFacts DEF SettingsOf, SettingSet, RequestSet
    <3>2. QED
      BY <3>1, RecordFacts DEF RequestSettings
  <2>6. QED
    BY <2>2, <2>3, <2>5 DEF Client!Finish
<1>5. ASSUME NEW t \in Threads, BeginSend(t) \/ EndSend(t) \/ CompleteTask(t) \/ Handler(t)
      PROVE  UNCHANGED <<settingVars, request>>
  BY <1>5, BeginSendInv, EndSendInv, CompleteTaskInv, HandlerInv
<1>6. ASSUME NEW host \in Hosts, NEW handle \in BOOLEAN, createRequestElsewhere(host, handle)
      PROVE  UNCHANGED <<settingVars, request>>
  BY <1>6, ElsewhereInv
<1>7. ASSUME UNCHANGED vars PROVE UNCHANGED <<settingVars, request>>
  BY <1>7 DEF vars
<1>8. QED
  BY <1>1, <1>2, <1>3, <1>4, <1>5, <1>6, <1>7 DEF Next, Client!Next

\* Requests run with the settings the getters returned at their creation, though
\* they are made from another object's copies, and whatever is set meanwhile.
THEOREM HttpCocoaIsAClient == Spec => RequestsCopyTheSettings
<1>1. ASSUME Init PROVE Client!Init
  <2>1. CurrentSettings \in SettingSet
    BY <1>1, InitInv, RequestOfMirror DEF IInv
  <2>2. \A t \in Threads : SettingsOf(t) = NoRequest
    BY <1>1, RecordFacts DEF Init, SettingsOf
  <2>3. QED
    BY <2>1, <2>2 DEF Client!Init, RequestSettings
<1>2. IInv /\ [Next]_vars => [Client!Next]_<<CurrentSettings, RequestSettings>>
  BY StepIsAClients
<1>3. QED
  BY <1>1, <1>2, Invariant, PTL DEF Spec, RequestsCopyTheSettings, Client!Spec

-----------------------------------------------------------------------------
\* If stores are seen in their order, every step is one of Exchange, or changes none
\* of its variables.
LEMMA StepIsAnExchange ==
  ASSUME IInv, StoresInOrder, [Next]_vars
  PROVE  [Exchanges!Next]_<<AllSendings, AllPromised, AllOutcomes>>
<1> DEFINE Quiet == UNCHANGED <<AllSendings, AllPromised, AllOutcomes>>
<1>1. ASSUME UNCHANGED <<pc, completion, result>> PROVE Quiet
  BY <1>1 DEF AllSendings, AllPromised, AllOutcomes
<1>2. ASSUME Setter PROVE Quiet
  BY <1>1, <1>2, SetterInv DEF sendVars
<1>3. ASSUME NEW host \in Hosts, NEW handle \in BOOLEAN, createRequestElsewhere(host, handle)
      PROVE  Quiet
  BY <1>1, <1>3, ElsewhereInv DEF sendVars
<1>4. ASSUME NEW t \in Threads, createRequest(t) PROVE Quiet
  <2>1. AllSendings' = AllSendings
    BY <1>4, TaskTypes DEF createRequest, AllSendings
  <2>2. QED
    BY <1>4, <2>1 DEF createRequest, sendVars, AllPromised, AllOutcomes
<1>5. ASSUME NEW t \in Threads, DestroyRequest(t) PROVE Exchanges!Forget(t)
  <2>1. /\ pc[t] = "ready" /\ pc' = [pc EXCEPT ![t] = "idle"]
        /\ result' = [result EXCEPT ![t] = NoResult] /\ completion' = completion
    BY <1>5 DEF DestroyRequest
  <2>2. AllSendings' = AllSendings /\ ~AllSendings[t] /\ AllPromised' = AllPromised
    BY <2>1, TaskTypes DEF AllSendings, AllPromised
  <2>3. AllOutcomes' = [AllOutcomes EXCEPT ![t] = Unanswered]
    BY <2>1, TaskTypes DEF AllOutcomes, Outcome
  <2>4. QED
    BY <2>2, <2>3 DEF Exchanges!Forget
<1>6. \A c : c \notin Answered => Promised(c) = Unanswered
  BY DEF Promised
<1>7. NoTask \notin Answered /\ Running \notin Answered
  BY TaskFacts
<1>8. ASSUME NEW t \in Threads, BeginSend(t) PROVE Exchanges!Begin(t)
  <2>1. /\ pc[t] = "ready" /\ pc' = [pc EXCEPT ![t] = "polling"]
        /\ result' = [result EXCEPT ![t] = NoResult]
        /\ completion' = [completion EXCEPT ![t] = Running]
    BY <1>8 DEF BeginSend
  <2>2. completion[t] = NoTask
    BY <2>1, TaskTypes DEF Task
  <2>3. \A u \in Threads : Promised(completion'[u]) = Promised(completion[u])
    BY <1>6, <1>7, <2>1, <2>2, TaskTypes
  <2>4. /\ ~AllSendings[t] /\ AllPromised' = AllPromised
        /\ AllSendings' = [AllSendings EXCEPT ![t] = TRUE]
    BY <2>1, <2>3, TaskTypes DEF AllSendings, AllPromised
  <2>5. AllOutcomes' = [AllOutcomes EXCEPT ![t] = Unanswered]
    BY <2>1, TaskTypes DEF AllOutcomes, Outcome
  <2>6. QED
    BY <2>4, <2>5 DEF Exchanges!Begin
<1>9. ASSUME NEW t \in Threads, CompleteTask(t) PROVE Exchanges!Answer(t) \/ Quiet
  <2>1. PICK c \in Completions : completion' = [completion EXCEPT ![t] = c]
    BY <1>9 DEF CompleteTask
  <2>2. completion[t] = Running /\ UNCHANGED <<pc, result>>
    BY <1>9 DEF CompleteTask
  <2>3. pc[t] = "polling" /\ Promised(completion[t]) = Unanswered
    BY <1>6, <1>7, <2>2, TaskTypes, TaskFacts DEF Task
  <2>4. /\ AllPromised' = [AllPromised EXCEPT ![t] = Promised(c)]
        /\ AllPromised[t] = Unanswered /\ AllSendings[t]
        /\ UNCHANGED <<AllSendings, AllOutcomes>>
    BY <2>1, <2>2, <2>3, TaskTypes DEF AllPromised, AllSendings, AllOutcomes
  <2>5. CASE c \in Answered
    <3>1. Promised(c) \in [status : {Status(s) : s \in Statuses}, whole : {TRUE}]
      BY <2>5, TaskFacts DEF Promised
    <3>2. QED
      BY <2>4, <3>1 DEF Exchanges!Answer
  <2>6. CASE c \notin Answered
    <3>1. AllPromised' = AllPromised
      BY <1>6, <2>4, <2>6 DEF AllPromised
    <3>2. QED
      BY <2>4, <3>1
  <2>7. QED
    BY <2>5, <2>6
<1>10. ASSUME NEW t \in Threads, Handler(t) PROVE Quiet
  BY <1>1, <1>10, HandlerInv
<1>11. ASSUME NEW t \in Threads, EndSend(t) PROVE Exchanges!End(t)
  <2> DEFINE r == ResultOf(block[t])
  <2>1. /\ pc[t] = "polling" /\ pc' = [pc EXCEPT ![t] = "ready"] /\ block[t].reqProcessed
        /\ completion' = [completion EXCEPT ![t] = NoTask]
        /\ result' = [result EXCEPT ![t] = r]
    BY <1>11 DEF EndSend
  <2>2. Outcome(r) \in {Failed, Promised(completion[t])} \ {Unanswered}
    BY <2>1, ResultFacts
  <2>3. AllOutcomes' = [AllOutcomes EXCEPT ![t] = Outcome(r)]
    BY <2>1, TaskTypes DEF AllOutcomes
  <2>4. /\ AllSendings[t] /\ AllSendings' = [AllSendings EXCEPT ![t] = FALSE]
        /\ AllPromised' = [AllPromised EXCEPT ![t] = Unanswered]
    BY <1>6, <1>7, <2>1, TaskTypes DEF AllSendings, AllPromised
  <2>5. Outcome(r) \in {Failed} \cup ({AllPromised[t]} \ {Unanswered})
    BY <2>2 DEF AllPromised
  <2>6. QED
    BY <2>3, <2>4, <2>5 DEF Exchanges!End
<1>12. ASSUME UNCHANGED vars PROVE Quiet
  BY <1>1, <1>12 DEF vars, sendVars
<1>13. QED
  BY <1>2, <1>3, <1>4, <1>5, <1>8, <1>9, <1>10, <1>11, <1>12 DEF Next, Exchanges!Next

\* Where the handler's stores are seen in their order, a send() without an error
\* returns the whole answer to it, however handler and polling interleave.
THEOREM HttpCocoaExchanges == ASSUME StoresInOrder PROVE Spec => SendIsAnExchange
<1>1. ASSUME Init PROVE Exchanges!Init
  <2>1. Promised(NoTask) = Unanswered /\ Outcome(NoResult) = Unanswered
    BY TaskFacts DEF Promised, Outcome
  <2>2. QED
    BY <1>1, <2>1 DEF Init, Exchanges!Init, AllSendings, AllPromised, AllOutcomes
<1>2. IInv /\ [Next]_vars => [Exchanges!Next]_<<AllSendings, AllPromised, AllOutcomes>>
  BY StepIsAnExchange
<1>3. QED
  BY <1>1, <1>2, Invariant, PTL DEF Spec, SendIsAnExchange, Exchanges!Spec

-----------------------------------------------------------------------------
(***************************************************************************)
(* A send ends: what the fairness of EverySendEnds rests on.               *)
(***************************************************************************)
Missing(t, field) == IF field \in stored[t] THEN 0 ELSE 1

\* The end of the task, four stores, and the flag being seen.
StepsLeft(t) ==
  IF completion[t] = Running THEN 6
  ELSE 1 + Missing(t, "resp") + Missing(t, "err") + Missing(t, "data") + Missing(t, "reqProcessed")

\* The task runs, the flag can be seen, or the handler has a store it may make.
GoesOn(t) ==
  \/ completion[t] = Running
  \/ block[t].reqProcessed
  \/ /\ completion[t] \in Completions
     /\ \/ "resp" \notin stored[t]
        \/ "err" \notin stored[t] /\ "resp" \in stored[t]
        \/ "data" \notin stored[t] /\ {"resp", "err"} \subseteq stored[t]
        \/ "reqProcessed" \notin stored[t] /\ Fields \subseteq stored[t]

SendsGoOn ==
  \A t \in Threads : pc[t] = "polling" => StepsLeft(t) \in 1 .. 6 /\ GoesOn(t)

CountsDown(t) ==
  pc[t] = "polling" =>
    /\ pc'[t] = "polling" => StepsLeft(t)' <= StepsLeft(t)
    /\ CompleteTask(t) \/ Handler(t) => pc'[t] = "polling" /\ StepsLeft(t)' < StepsLeft(t)
    /\ EndSend(t) => pc'[t] = "ready"

SendsCountDown == \A t \in Threads : CountsDown(t)

LEMMA StepsAre ==
  ASSUME NEW t \in Threads
  PROVE  StepsLeft(t) \in 1 .. 6 /\ (completion[t] # Running => StepsLeft(t) \in 1 .. 5)
<1>1. \A field : Missing(t, field) \in {0, 1}
  BY DEF Missing
<1> DEFINE a == Missing(t, "resp")
           b == Missing(t, "err")
           c == Missing(t, "data")
           d == Missing(t, "reqProcessed")
<1>2. a \in {0, 1} /\ b \in {0, 1} /\ c \in {0, 1} /\ d \in {0, 1}
  BY <1>1
<1>3. StepsLeft(t) = IF completion[t] = Running THEN 6 ELSE 1 + a + b + c + d
  BY DEF StepsLeft
<1> HIDE DEF a, b, c, d
<1>4. QED
  BY <1>2, <1>3

LEMMA SendGoesOn ==
  ASSUME IInv
  PROVE  SendsGoOn
<1>1. SUFFICES ASSUME NEW t \in Threads, pc[t] = "polling"
               PROVE  StepsLeft(t) \in 1 .. 6 /\ GoesOn(t)
  BY DEF SendsGoOn
<1>2. /\ completion[t] = Running \/ completion[t] \in Completions
      /\ completion[t] \in Completions => Handed(completion[t], stored[t], block[t])
      /\ stored[t] \subseteq Fields \cup {"reqProcessed"}
  BY <1>1, TaskTypes DEF Task
<1>3. GoesOn(t)
  BY <1>2 DEF GoesOn, Handed, Fields
<1>4. QED
  BY <1>3, StepsAre

\* A store made is one less.
LEMMA StoreCounts ==
  ASSUME IInv, NEW t \in Threads, NEW field \in Fields \cup {"reqProcessed"}, NEW before,
         Store(t, field, before)
  PROVE  StepsLeft(t)' < StepsLeft(t) /\ StepsLeft(t)' <= StepsLeft(t)
<1>1. /\ completion[t] # Running /\ completion' = completion
      /\ field \notin stored[t] /\ stored'[t] = stored[t] \cup {field}
  BY TaskTypes, TaskFacts DEF Store
<1>2. Missing(t, field) = 1 /\ Missing(t, field)' = 0
  BY <1>1 DEF Missing
<1>3. \A other : other # field => Missing(t, other)' = Missing(t, other)
  BY <1>1 DEF Missing
<1> DEFINE a == Missing(t, "resp")
           b == Missing(t, "err")
           c == Missing(t, "data")
           d == Missing(t, "reqProcessed")
<1>4. a \in {0, 1} /\ b \in {0, 1} /\ c \in {0, 1} /\ d \in {0, 1}
  BY DEF Missing
<1>5. StepsLeft(t) = 1 + a + b + c + d /\ StepsLeft(t)' = 1 + a' + b' + c' + d'
  BY <1>1 DEF StepsLeft
<1>6. \/ a = 1 /\ a' = 0 /\ b' = b /\ c' = c /\ d' = d
      \/ a' = a /\ b = 1 /\ b' = 0 /\ c' = c /\ d' = d
      \/ a' = a /\ b' = b /\ c = 1 /\ c' = 0 /\ d' = d
      \/ a' = a /\ b' = b /\ c' = c /\ d = 1 /\ d' = 0
  BY <1>2, <1>3 DEF Fields
<1> HIDE DEF a, b, c, d
<1>7. QED
  BY <1>4, <1>5, <1>6

\* A send takes at most six steps: each of the task, of its handler and of the
\* polling leaves it less to do, nobody else's leaves it more, and one of them has
\* always something to do, in whatever order the stores are made.
THEOREM SendsEnd == Spec => []SendsGoOn /\ [][SendsCountDown]_vars
<1>1. IInv => SendsGoOn
  BY SendGoesOn
<1>2. IInv /\ [Next]_vars => [SendsCountDown]_vars
  <2>1. SUFFICES ASSUME IInv, Next, NEW t \in Threads, pc[t] = "polling" PROVE CountsDown(t)
    BY DEF SendsCountDown, CountsDown
  <2>2. StepsLeft(t) \in 1 .. 6
    BY StepsAre
  <2>3. ASSUME pc'[t] = "polling", completion'[t] = completion[t], stored'[t] = stored[t]
        PROVE  StepsLeft(t)' = StepsLeft(t)
    BY <2>3 DEF StepsLeft, Missing
  <2>4. CASE CompleteTask(t)
    <3>1. /\ pc'[t] = "polling" /\ completion[t] = Running /\ completion'[t] # Running
          /\ stored' = stored /\ stored[t] = {}
      BY <2>1, <2>4, TaskTypes, TaskFacts DEF CompleteTask, Task
    <3>2. StepsLeft(t) = 6
      BY <3>1 DEF StepsLeft
    <3>3. StepsLeft(t)' = 5
      BY <3>1 DEF StepsLeft, Missing
    <3>4. ~ EndSend(t)
      BY <2>1, <3>1, TaskTypes DEF EndSend, Task, Empty
    <3>5. QED
      BY <3>1, <3>2, <3>3, <3>4 DEF CountsDown
  <2>5. CASE Handler(t)
    <3>1. pc' = pc
      BY <2>5 DEF Handler, StoreResponse, StoreError, StoreData, StoreFlag, Store
    <3>2. StepsLeft(t)' < StepsLeft(t) /\ StepsLeft(t)' <= StepsLeft(t)
      BY <2>1, <2>5, StoreCounts
      DEF Handler, StoreResponse, StoreError, StoreData, StoreFlag, Fields
    <3>3. ~ EndSend(t)
      BY <2>1, <3>1, TaskTypes DEF EndSend
    <3>4. QED
      BY <2>1, <3>1, <3>2, <3>3 DEF CountsDown
  <2>6. CASE EndSend(t)
    <3>1. pc'[t] = "ready"
      BY <2>6, TaskTypes, <2>1 DEF EndSend
    <3>2. ~ CompleteTask(t) /\ ~ Handler(t)
      BY <2>1, <3>1
      DEF CompleteTask, Handler, StoreResponse, StoreError, StoreData, StoreFlag, Store
    <3>3. QED
      BY <3>1, <3>2 DEF CountsDown
  <2>7. CASE ~ (CompleteTask(t) \/ Handler(t) \/ EndSend(t))
    <3>1. pc'[t] = pc[t] /\ completion'[t] = completion[t] /\ stored'[t] = stored[t]
      <4>1. CASE Setter \/ \E host \in Hosts, handle \in BOOLEAN : createRequestElsewhere(host, handle)
        BY <4>1
        DEF Setter, setHost, setPort, setPath, setAuthentication, setCredentials,
            setSSLErrorHandling, setTimeout, createRequestElsewhere, sendVars
      <4>2. ASSUME NEW u \in Threads,
                   createRequest(u) \/ DestroyRequest(u) \/ BeginSend(u)
            PROVE  pc'[t] = pc[t] /\ completion'[t] = completion[t] /\ stored'[t] = stored[t]
        <5>1. u # t
          BY <2>1, <4>2 DEF createRequest, DestroyRequest, BeginSend
        <5>2. QED
          BY <2>1, <4>2, <5>1, TaskTypes DEF createRequest, DestroyRequest, BeginSend, sendVars
      <4>3. ASSUME NEW u \in Threads, u # t, CompleteTask(u) \/ EndSend(u)
            PROVE  pc'[t] = pc[t] /\ completion'[t] = completion[t] /\ stored'[t] = stored[t]
        BY <2>1, <4>3, TaskTypes DEF CompleteTask, EndSend
      <4>4. ASSUME NEW u \in Threads, u # t, Handler(u)
            PROVE  pc'[t] = pc[t] /\ completion'[t] = completion[t] /\ stored'[t] = stored[t]
        BY <2>1, <4>4, TaskTypes
        DEF Handler, StoreResponse, StoreError, StoreData, StoreFlag, Store
      <4>5. QED
        BY <2>1, <2>7, <4>1, <4>2, <4>3, <4>4 DEF Next
    <3>2. StepsLeft(t)' <= StepsLeft(t)
      BY <2>1, <2>2, <2>3, <3>1
    <3>3. QED
      BY <2>7, <3>2 DEF CountsDown
  <2>8. QED
    BY <2>4, <2>5, <2>6, <2>7
<1>3. QED
  BY <1>1, <1>2, Invariant, PTL DEF Spec
=============================================================================
