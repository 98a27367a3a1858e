--------------------------- MODULE HttpWinProofs ----------------------------
(***************************************************************************)
(* Theorems about HttpWin, for any number of threads, handles, hosts and   *)
(* settings.                                                               *)
(*                                                                         *)
(* The inductive invariant IInv says who owns the handles that are open    *)
(* (Places, Live, Unshared), what they are connected to (the cached one    *)
(* and the ones about to be cached: to what the settings of now say), and  *)
(* how the settings relate to what was asked for (AskedFor).  A setter     *)
(* runs only while no request is created, so that a handle connected but   *)
(* not cached yet never meets a change of the settings.                    *)
(***************************************************************************)
EXTENDS HttpWin, TLAPS

\* The handle h is in the cache, in a request, or on its way to the cache.
Owned(h) ==
  \/ h = session_
  \/ \E t \in Threads : request[t].created /\ request[t].session = h
  \/ \E t \in Threads : mine[t] = h

\* A request exists from the end of createRequest on; a handle connected is the
\* thread's own until it is assigned.
Places ==
  \A t \in Threads :
    /\ request[t].created <=> pc[t] = "created"
    /\ mine[t] # Null => pc[t] = "assign"

\* A handle is open as long as somebody has it, and no longer.
Live == \A h \in Handles : conn[h].open <=> Owned(h)

\* A handle on its way to the cache is of no other use, and connected with the
\* settings of now.
Unshared ==
  \A t \in Threads : mine[t] # Null =>
    /\ mine[t] # session_
    /\ \A u \in Threads :
         /\ request[u].created => request[u].session # mine[t]
         /\ u # t => mine[u] # mine[t]
    /\ conn[mine[t]].to = ConnectionParameters

\* The settings respect what was asked for last, and the timeout of the cached
\* session, once set, is the one its requests were created with.
AskedFor ==
  /\ asked.host.secure => connectionFlags_ = "secure"
  /\ asked.port # -1 => port_ = asked.port

CachedTimeout ==
  \A t \in Connected : request[t].session = session_ => request[t].timeout = timeout_

\* What a step leaves alone: the address that the session of a request is
\* connected to, if the request is still the same.
Untouched ==
  \A t \in Connected : request'[t] = request[t] => SessionOf(t)'.to = SessionOf(t).to

\* The inductive invariant.
IInv ==
  /\ TypeOK
  /\ Places /\ Live /\ Unshared
  /\ CachedSessionIsCurrent
  /\ AskedFor
  /\ SecureHostsAreAskedSecurely /\ ExplicitPortsAreUsed
  /\ CachedTimeout /\ TimeoutsUnlessOverlapped

-----------------------------------------------------------------------------
\* A port is not narrowed to another one.
LEMMA PortsStay ==
  ASSUME NEW p \in Int, 0 <= p, p <= MaxPort
  PROVE  WirePort(p) = p
BY DEF WirePort, MaxPort

\* Narrowing to 16 bits leaves every port as it is but the unset one.
LEMMA Narrowing ==
  ASSUME NEW p \in -1 .. MaxPort
  PROVE  WirePort(p) \in 0 .. MaxPort /\ (p # -1 => WirePort(p) = p)
<1>1. p \in Int /\ -1 <= p /\ p <= MaxPort
  BY DEF MaxPort
<1>2. WirePort(p) \in 0 .. MaxPort
  BY <1>1 DEF WirePort, MaxPort
<1>3. p # -1 => 0 <= p
  BY <1>1
<1>4. p # -1 => WirePort(p) = p
  BY <1>1, <1>3, PortsStay
<1>5. QED
  BY <1>2, <1>4

\* A handle is open, or a request made, if it has the fields of one.
LEMMA RecordFacts ==
  /\ ~Closed.open /\ ~NoRequest.created
  /\ \A s \in OpenSessions : s.open /\ s.to \in ConnectionSet
  /\ \A r \in Requests :
       r.created /\ r.session \in Handles \cup {Null} /\ r.timeout \in Timeouts
<1>1. ~Closed.open /\ ~NoRequest.created
  BY DEF Closed, NoRequest
<1>2. \A s \in OpenSessions : s.open /\ s.to \in ConnectionSet
  BY DEF OpenSessions
<1>3. \A r \in Requests :
        r.created /\ r.session \in Handles \cup {Null} /\ r.timeout \in Timeouts
  BY DEF Requests
<1>4. QED
  BY <1>1, <1>2, <1>3

\* What createRequest takes from the settings has its type.
LEMMA SettingTypes ==
  ASSUME TypeOK
  PROVE  ConnectionParameters \in ConnectionSet /\ RequestFlags \in Flags
<1>1. /\ hostname_ \in {h.name : h \in Hosts}
      /\ port_ \in -1 .. MaxPort
      /\ authenticationEnabled_ \in BOOLEAN
      /\ authentication_ \in Users
  BY DEF TypeOK
<1>2. WirePort(port_) \in 0 .. MaxPort
  BY <1>1, Narrowing
<1>3. (IF authenticationEnabled_ THEN authentication_ ELSE NoUser) \in Users \cup {NoUser}
  BY <1>1
<1>4. ConnectionParameters \in ConnectionSet
  BY <1>1, <1>2, <1>3 DEF ConnectionParameters, ConnectionSet
<1>5. RequestFlags \in Flags
  BY DEF TypeOK, RequestFlags, Flags
<1>6. QED
  BY <1>4, <1>5

\* The same after a step.
LEMMA SettingTypesAfter ==
  ASSUME TypeOK'
  PROVE  ConnectionParameters' \in ConnectionSet /\ RequestFlags' \in Flags
<1>1. /\ hostname_' \in {h.name : h \in Hosts}
      /\ port_' \in -1 .. MaxPort
      /\ authenticationEnabled_' \in BOOLEAN
      /\ authentication_' \in Users
  BY DEF TypeOK
<1>2. WirePort(port_') \in 0 .. MaxPort
  BY <1>1, Narrowing
<1>3. (IF authenticationEnabled_' THEN authentication_' ELSE NoUser) \in Users \cup {NoUser}
  BY <1>1
<1>4. ConnectionParameters' \in ConnectionSet
  BY <1>1, <1>2, <1>3 DEF ConnectionParameters, ConnectionSet
<1>5. RequestFlags' \in Flags
  BY DEF TypeOK, RequestFlags, Flags
<1>6. QED
  BY <1>4, <1>5

\* A setter that drops the session from the cache leaves the ones of requests as
\* they are, and no other open.
LEMMA Dropping ==
  ASSUME IInv, Quiet, closeSession, UNCHANGED threadVars
  PROVE  /\ conn' \in [Handles -> {Closed} \cup OpenSessions]
         /\ \A t \in Connected : conn'[request[t].session] = conn[request[t].session]
         /\ Places' /\ Live' /\ Unshared' /\ CachedSessionIsCurrent'
         /\ SecureHostsAreAskedSecurely' /\ ExplicitPortsAreUsed'
         /\ CachedTimeout' /\ TimeoutsUnlessOverlapped'
<1> USE DEF IInv, closeSession, threadVars
<1>1. \A t \in Threads : mine[t] = Null
  BY DEF Quiet, Connecting, Places
<1>2. \A h \in Handles : conn'[h] = IF h \in HeldBy(Null, request) THEN conn[h] ELSE Closed
  BY DEF KeepOpen
<1>3. \A h \in Handles :
        h \in HeldBy(Null, request)
          <=> \E t \in Threads : request[t].created /\ request[t].session = h
  BY HttpWinAssumption DEF HeldBy
<1>4. conn' \in [Handles -> {Closed} \cup OpenSessions]
  BY DEF KeepOpen, TypeOK
<1>5. \A t \in Connected : request[t].session \in Handles
  BY RecordFacts DEF Connected, TypeOK
<1>6. \A t \in Connected : conn'[request[t].session] = conn[request[t].session]
  BY <1>2, <1>3, <1>5 DEF Connected
<1>7. Connected' = Connected
  BY DEF Connected
<1>8. Places'
  BY DEF Places
<1>9. Live'
  <2> SUFFICES ASSUME NEW h \in Handles PROVE (conn[h].open <=> Owned(h))'
    BY DEF Live
  <2>1. Owned(h)' <=> \E t \in Threads : request[t].created /\ request[t].session = h
    BY <1>1, HttpWinAssumption DEF Owned
  <2>2. CASE h \in HeldBy(Null, request)
    BY <2>1, <2>2, <1>2, <1>3 DEF Live, Owned
  <2>3. CASE h \notin HeldBy(Null, request)
    BY <2>1, <2>3, <1>2, <1>3 DEF Closed
  <2>4. QED
    BY <2>2, <2>3
<1>10. Unshared'
  BY <1>1 DEF Unshared
<1>11. CachedSessionIsCurrent'
  BY DEF CachedSessionIsCurrent
<1>12. SecureHostsAreAskedSecurely'
  BY DEF SecureHostsAreAskedSecurely
<1>13. ExplicitPortsAreUsed'
  BY <1>6, <1>7 DEF ExplicitPortsAreUsed, SessionOf
<1>14. CachedTimeout'
  BY <1>5, <1>7, HttpWinAssumption DEF CachedTimeout
<1>15. TimeoutsUnlessOverlapped'
  BY <1>6, <1>7 DEF TimeoutsUnlessOverlapped, SessionOf
<1>16. QED
  BY <1>4, <1>6, <1>8, <1>9, <1>10, <1>11, <1>12, <1>13, <1>14, <1>15

-----------------------------------------------------------------------------
\* A WinHttp as it is constructed has no session and no request.
LEMMA InitInv == ASSUME Init PROVE IInv
<1> USE DEF Init
<1>1. PICK host \in Hosts, p \in Ports :
        /\ asked = [host |-> host, port |-> p]
        /\ hostname_ = host.name
        /\ connectionFlags_ = FlagsFor(host, "none")
        /\ port_ = p
  OBVIOUS
<1>2. host.secure \in BOOLEAN
  BY HttpWinAssumption
<1>3. TypeOK
  <2>1. asked \in [host : Hosts, port : Ports]
    BY <1>1
  <2>2. port_ \in -1 .. MaxPort /\ hostname_ \in {h.name : h \in Hosts}
    BY <1>1, HttpWinAssumption
  <2>3. connectionFlags_ \in {"plain", "secure"}
    BY <1>1, <1>2 DEF FlagsFor
  <2>4. QED
    BY <2>1, <2>2, <2>3 DEF TypeOK
<1>4. \A t \in Threads : request[t] = NoRequest /\ pc[t] = "idle" /\ mine[t] = Null
  OBVIOUS
<1>5. \A t \in Threads : ~request[t].created
  BY <1>4, RecordFacts
<1>6. Connected = {}
  BY <1>5 DEF Connected
<1>7. Places
  BY <1>4, <1>5 DEF Places
<1>8. Live
  BY <1>4, <1>5, RecordFacts, HttpWinAssumption DEF Live, Owned
<1>9. Unshared /\ CachedSessionIsCurrent
  BY <1>4 DEF Unshared, CachedSessionIsCurrent
<1>10. AskedFor
  BY <1>1, <1>2 DEF AskedFor, FlagsFor
<1>11. SecureHostsAreAskedSecurely
  BY <1>5 DEF SecureHostsAreAskedSecurely
<1>12. ExplicitPortsAreUsed /\ CachedTimeout /\ TimeoutsUnlessOverlapped
  BY <1>6 DEF ExplicitPortsAreUsed, CachedTimeout, TimeoutsUnlessOverlapped
<1>13. QED
  BY <1>3, <1>7, <1>8, <1>9, <1>10, <1>11, <1>12 DEF IInv

-----------------------------------------------------------------------------
(***************************************************************************)
(* The setters.                                                            *)
(***************************************************************************)
\* setHost: the flags and the port follow the host, and the session is dropped.
LEMMA SetHostInv == ASSUME IInv, NEW host \in Hosts, setHost(host) PROVE IInv' /\ Untouched
<1> USE DEF setHost
<1>1. host.secure \in BOOLEAN
  BY HttpWinAssumption
<1>2. TypeOK
  BY DEF IInv
<1>3. PortFor(host, connectionFlags_, port_) \in -1 .. MaxPort
  <2>1. 80 \in -1 .. MaxPort /\ 443 \in -1 .. MaxPort
    BY DEF MaxPort
  <2>2. port_ \in -1 .. MaxPort
    BY <1>2 DEF TypeOK
  <2>3. QED
    BY <1>1, <2>1, <2>2, Zenon DEF PortFor
<1>4. asked' \in [host : Hosts, port : Ports] /\ asked' = [asked EXCEPT !.host = host]
  BY <1>2 DEF TypeOK
<1>5. FlagsFor(host, connectionFlags_) \in {"plain", "secure"}
  BY <1>1, <1>2 DEF TypeOK, FlagsFor
<1>6. TypeOK'
  <2>1. conn' \in [Handles -> {Closed} \cup OpenSessions] /\ session_' = Null
    BY Dropping DEF threadVars, closeSession
  <2>2. port_' \in -1 .. MaxPort /\ connectionFlags_' \in {"plain", "secure"}
    BY <1>3, <1>5
  <2>3. hostname_' \in {h.name : h \in Hosts}
    OBVIOUS
  <2>4. QED
    BY <1>2, <1>4, <2>1, <2>2, <2>3 DEF TypeOK, threadVars
<1>7. AskedFor'
  <2>1. asked'.host = host /\ asked'.port = asked.port
    BY <1>2, <1>4 DEF TypeOK
  <2>2. asked'.host.secure => connectionFlags_' = "secure"
    BY <2>1 DEF FlagsFor
  <2>3. asked'.port # -1 => port_' = asked'.port
    BY <2>1 DEF IInv, AskedFor, PortFor
  <2>4. QED
    BY <2>2, <2>3 DEF AskedFor
<1>8. Untouched
  BY Dropping DEF Untouched, SessionOf, threadVars, closeSession
<1>9. QED
  BY <1>6, <1>7, <1>8, Dropping DEF IInv

\* setPort drops the session.
LEMMA SetPortInv == ASSUME IInv, NEW p \in Ports, setPort(p) PROVE IInv' /\ Untouched
<1> USE DEF setPort
<1>1. TypeOK
  BY DEF IInv
<1>2. asked' \in [host : Hosts, port : Ports] /\ asked'.host = asked.host /\ asked'.port = p
  BY <1>1 DEF TypeOK
<1>3. TypeOK'
  BY <1>1, <1>2, Dropping, HttpWinAssumption DEF TypeOK, threadVars, closeSession
<1>4. AskedFor'
  BY <1>2 DEF IInv, AskedFor
<1>5. Untouched
  BY Dropping DEF Untouched, SessionOf, threadVars, closeSession
<1>6. QED
  BY <1>3, <1>4, <1>5, Dropping DEF IInv

\* enableAuthentication and disableAuthentication drop the session.
LEMMA SetAuthenticationInv ==
  ASSUME IInv, NEW enabled \in BOOLEAN, setAuthentication(enabled) PROVE IInv' /\ Untouched
<1> USE DEF setAuthentication
<1>1. TypeOK'
  BY Dropping DEF IInv, TypeOK, threadVars, closeSession
<1>2. AskedFor'
  BY DEF IInv, AskedFor
<1>3. Untouched
  BY Dropping DEF Untouched, SessionOf, threadVars, closeSession
<1>4. QED
  BY <1>1, <1>2, <1>3, Dropping DEF IInv

\* setUsername and setPassword drop the session.
LEMMA SetCredentialsInv == ASSUME IInv, NEW u \in Users, setCredentials(u) PROVE IInv' /\ Untouched
<1> USE DEF setCredentials
<1>1. TypeOK'
  BY Dropping DEF IInv, TypeOK, threadVars, closeSession
<1>2. AskedFor'
  BY DEF IInv, AskedFor
<1>3. Untouched
  BY Dropping DEF Untouched, SessionOf, threadVars, closeSession
<1>4. QED
  BY <1>1, <1>2, <1>3, Dropping DEF IInv

\* setTimeout drops the session, so that none has another timeout.
LEMMA SetTimeoutInv == ASSUME IInv, NEW ms \in Timeouts, setTimeout(ms) PROVE IInv' /\ Untouched
<1> USE DEF setTimeout
<1>1. TypeOK'
  BY Dropping DEF IInv, TypeOK, threadVars, closeSession
<1>2. AskedFor'
  BY DEF IInv, AskedFor
<1>3. Untouched
  BY Dropping DEF Untouched, SessionOf, threadVars, closeSession
<1>4. QED
  BY <1>1, <1>2, <1>3, Dropping DEF IInv

\* setSSLErrorHandling keeps the session, of which it changes nothing.
LEMMA SetSSLErrorHandlingInv ==
  ASSUME IInv, NEW acknowledge \in BOOLEAN, setSSLErrorHandling(acknowledge) PROVE IInv' /\ Untouched
<1> USE DEF setSSLErrorHandling, IInv, threadVars
<1>1. ConnectionParameters' = ConnectionParameters /\ Connected' = Connected
  BY DEF ConnectionParameters, Connected
<1>2. TypeOK'
  BY DEF TypeOK
<1>3. Places' /\ Unshared'
  BY <1>1 DEF Places, Unshared
<1>4. Live'
  BY DEF Live, Owned
<1>5. CachedSessionIsCurrent'
  BY <1>1 DEF CachedSessionIsCurrent
<1>6. AskedFor' /\ SecureHostsAreAskedSecurely'
  BY DEF AskedFor, SecureHostsAreAskedSecurely
<1>7. ExplicitPortsAreUsed' /\ CachedTimeout' /\ TimeoutsUnlessOverlapped'
  BY <1>1 DEF ExplicitPortsAreUsed, CachedTimeout, TimeoutsUnlessOverlapped, SessionOf
<1>8. Untouched
  BY DEF Untouched, SessionOf
<1>9. QED
  BY <1>8, <1>2, <1>3, <1>4, <1>5, <1>6, <1>7

\* So every setter preserves the invariant and the sessions of requests.
LEMMA SetterInv == ASSUME IInv, Setter PROVE IInv' /\ Untouched
BY SetHostInv, SetPortInv, SetAuthenticationInv, SetCredentialsInv, SetTimeoutInv,
   SetSSLErrorHandlingInv DEF Setter

-----------------------------------------------------------------------------
(***************************************************************************)
(* createRequest, and the end of a request.                                *)
(***************************************************************************)
\* The sessions of the cache and of requests are open.
LEMMA SessionsOpen ==
  ASSUME IInv
  PROVE  /\ session_ # Null => session_ \in Handles /\ conn[session_] \in OpenSessions
         /\ \A t \in Connected :
              request[t].session \in Handles /\ conn[request[t].session] \in OpenSessions
<1>1. \A h \in Handles : Owned(h) => conn[h] \in OpenSessions
  BY RecordFacts DEF IInv, TypeOK, Live
<1>2. \A t \in Connected : request[t].session \in Handles
  BY RecordFacts DEF Connected, IInv, TypeOK
<1>3. session_ # Null => session_ \in Handles
  BY DEF IInv, TypeOK
<1>4. QED
  BY <1>1, <1>2, <1>3 DEF Owned, Connected

\* What a request has, and what is said of it, is the same as long as its session
\* and the history of the settings are.
LEMMA RequestsUnchanged ==
  ASSUME IInv, UNCHANGED <<settingVars, request>>,
         \A t \in Connected : SessionOf(t)' = SessionOf(t)
  PROVE  /\ AskedFor' /\ SecureHostsAreAskedSecurely' /\ ExplicitPortsAreUsed'
         /\ TimeoutsUnlessOverlapped'
         /\ ConnectionParameters' = ConnectionParameters /\ Connected' = Connected
<1> USE DEF IInv, settingVars
<1>1. Connected' = Connected
  BY DEF Connected
<1>2. AskedFor' /\ SecureHostsAreAskedSecurely'
  BY DEF AskedFor, SecureHostsAreAskedSecurely
<1>3. ExplicitPortsAreUsed' /\ TimeoutsUnlessOverlapped'
  BY <1>1 DEF ExplicitPortsAreUsed, TimeoutsUnlessOverlapped
<1>4. ConnectionParameters' = ConnectionParameters
  BY DEF ConnectionParameters
<1>5. QED
  BY <1>1, <1>2, <1>3, <1>4

\* createRequest looks whether there is a session.
LEMMA BeginCreateInv == ASSUME IInv, NEW t \in Threads, BeginCreate(t) PROVE IInv' /\ Untouched
<1> USE DEF BeginCreate
<1>1. \A u \in Connected : SessionOf(u)' = SessionOf(u)
  BY DEF SessionOf
<1>2. pc'[t] \in {"connect", "create"} /\ \A u \in Threads \ {t} : pc'[u] = pc[u]
  BY DEF IInv, TypeOK
<1>3. TypeOK'
  <2>1. pc' \in [Threads -> {"idle", "created"} \cup Connecting]
    BY DEF IInv, TypeOK, Connecting
  <2>2. QED
    BY <2>1 DEF IInv, TypeOK, settingVars
<1>4. Places'
  BY <1>2 DEF IInv, Places
<1>5. Live'
  BY DEF IInv, Live, Owned
<1>6. Unshared' /\ CachedSessionIsCurrent' /\ CachedTimeout'
  BY <1>1, <1>2, RequestsUnchanged
  DEF IInv, Unshared, CachedSessionIsCurrent, CachedTimeout, settingVars
<1>7. Untouched
  BY <1>1 DEF Untouched
<1>8. QED
  BY <1>7, <1>1, <1>3, <1>4, <1>5, <1>6, RequestsUnchanged DEF IInv

\* The handle connected was closed, and is nobody else's.
LEMMA ConnectInv == ASSUME IInv, NEW t \in Threads, Connect(t) PROVE IInv' /\ Untouched
<1> USE DEF Connect
<1>1. /\ pc'[t] = "assign" /\ mine[t] = Null /\ ~request[t].created
      /\ \A u \in Threads \ {t} : pc'[u] = pc[u] /\ mine'[u] = mine[u]
  BY DEF IInv, TypeOK, Places
<1>2. pc' \in [Threads -> {"idle", "created"} \cup Connecting]
  BY DEF IInv, TypeOK, Connecting
<1>3. CASE mine' = [mine EXCEPT ![t] = Null] /\ UNCHANGED conn
  <2>1. mine' = mine
    BY <1>1, <1>3 DEF IInv, TypeOK
  <2>2. \A u \in Connected : SessionOf(u)' = SessionOf(u)
    BY <1>3 DEF SessionOf
  <2>3. TypeOK'
    BY <1>2, <1>3, <2>1 DEF IInv, TypeOK, settingVars
  <2>4. Places'
    BY <1>1, <2>1 DEF IInv, Places
  <2>5. Live'
    BY <1>3, <2>1 DEF IInv, Live, Owned
  <2>6. Unshared' /\ CachedSessionIsCurrent' /\ CachedTimeout'
    BY <1>1, <1>3, <2>1, <2>2, RequestsUnchanged
    DEF IInv, Unshared, CachedSessionIsCurrent, CachedTimeout, settingVars
  <2>7. QED
    BY <2>2, <2>3, <2>4, <2>5, <2>6, RequestsUnchanged DEF IInv, Untouched
<1>4. ASSUME NEW h \in Handles,
             conn[h] = Closed,
             mine' = [mine EXCEPT ![t] = h],
             conn' = [conn EXCEPT ![h] = [open |-> TRUE, to |-> ConnectionParameters,
                                          timeout |-> NoTimeout]]
      PROVE  IInv' /\ Untouched
  <2>1. ~Owned(h)
    BY <1>4, RecordFacts DEF IInv, Live
  <2>2. mine'[t] = h /\ h # Null
    BY <1>4, HttpWinAssumption DEF IInv, TypeOK
  <2>3. /\ conn'[h] \in OpenSessions
        /\ conn'[h].open /\ conn'[h].to = ConnectionParameters
        /\ \A g \in Handles \ {h} : conn'[g] = conn[g]
    BY <1>4, SettingTypes DEF IInv, TypeOK, OpenSessions
  <2>4. \A u \in Connected : SessionOf(u)' = SessionOf(u)
    BY <2>1, <2>3, SessionsOpen DEF Owned, Connected, SessionOf
  <2>5. ConnectionParameters' = ConnectionParameters /\ Connected' = Connected
    BY <2>4, RequestsUnchanged
  <2>6. TypeOK'
    <3>1. conn' \in [Handles -> {Closed} \cup OpenSessions]
      BY <1>4, <2>3 DEF IInv, TypeOK
    <3>2. QED
      BY <1>2, <1>4, <3>1 DEF IInv, TypeOK, settingVars
  <2>7. Places'
    BY <1>1 DEF IInv, Places
  <2>8. Live'
    BY <1>1, <2>2, <2>3, HttpWinAssumption DEF IInv, Live, Owned
  <2>9. Unshared'
    <3>1. \A u \in Threads \ {t} : mine[u] # Null => mine[u] \in Handles /\ mine[u] # h
      BY <2>1 DEF IInv, TypeOK, Owned
    <3>2. ASSUME NEW u \in Threads, u # t, mine'[u] # Null
          PROVE  conn'[mine'[u]].to = ConnectionParameters
      BY <1>1, <2>3, <3>1, <3>2 DEF IInv, Unshared
    <3>3. QED
      BY <1>1, <2>1, <2>2, <2>3, <2>5, <3>1, <3>2 DEF IInv, Unshared, Owned
  <2>10. CachedSessionIsCurrent'
    BY <1>1, <2>1, <2>3, <2>5, SessionsOpen
    DEF IInv, CachedSessionIsCurrent, Owned, settingVars
  <2>11. CachedTimeout'
    BY <2>5 DEF IInv, CachedTimeout, settingVars
  <2>12. QED
    BY <2>4, <2>6, <2>7, <2>8, <2>9, <2>10, <2>11, RequestsUnchanged DEF IInv, Untouched
<1>5. QED
  BY <1>3, <1>4

\* What KeepOpen leaves open, when it is what will be owned.
LEMMA Keeping ==
  ASSUME IInv, NEW S, KeepOpen(S),
         \A h \in Handles : Owned(h)' <=> h \in S,
         \A h \in S : h \in Handles => Owned(h)
  PROVE  /\ conn' \in [Handles -> {Closed} \cup OpenSessions]
         /\ Live'
         /\ \A h \in Handles : Owned(h)' => conn'[h] = conn[h]
<1> USE DEF IInv
<1>1. \A h \in Handles : conn'[h] = IF h \in S THEN conn[h] ELSE Closed
  BY DEF KeepOpen
<1>2. conn' \in [Handles -> {Closed} \cup OpenSessions]
  BY DEF KeepOpen, TypeOK
<1>3. Live'
  BY <1>1, RecordFacts DEF Live
<1>4. QED
  BY <1>1, <1>2, <1>3

\* The handle connected becomes the cached one; the one before it is closed unless a
\* request has it.
LEMMA AssignInv == ASSUME IInv, NEW t \in Threads, Assign(t) PROVE IInv' /\ Untouched
<1> DEFINE S == HeldBy(mine[t], request) \cup Unassigned(Threads \ {t})
<1> USE DEF Assign
<1>1. /\ pc'[t] = "options" /\ mine'[t] = Null /\ ~request[t].created
      /\ \A u \in Threads \ {t} : pc'[u] = pc[u] /\ mine'[u] = mine[u]
  BY DEF IInv, TypeOK, Places
<1>2. \A h \in Handles : Owned(h)' <=> h \in S
  <2>1. SUFFICES ASSUME NEW h \in Handles PROVE Owned(h)' <=> h \in S
    OBVIOUS
  <2>2. h \in Unassigned(Threads \ {t}) <=> \E u \in Threads \ {t} : mine[u] = h
    BY HttpWinAssumption DEF IInv, Places, Unassigned
  <2>3. h \in HeldBy(mine[t], request)
          <=> h = mine[t] \/ \E u \in Threads : request[u].created /\ request[u].session = h
    BY DEF HeldBy
  <2>4. Owned(h)' <=> \/ h = mine[t]
                      \/ \E u \in Threads : request[u].created /\ request[u].session = h
                      \/ \E u \in Threads \ {t} : mine[u] = h
    BY <1>1, HttpWinAssumption DEF Owned
  <2>5. QED
    BY <2>2, <2>3, <2>4
<1>3. \A h \in S : h \in Handles => Owned(h)
  BY DEF HeldBy, Unassigned, Owned
<1>4. KeepOpen(S)
  OBVIOUS
<1> HIDE DEF S
<1>5. /\ conn' \in [Handles -> {Closed} \cup OpenSessions]
      /\ Live'
      /\ \A h \in Handles : Owned(h)' => conn'[h] = conn[h]
  BY <1>2, <1>3, <1>4, Keeping
<1>6. \A u \in Connected : SessionOf(u)' = SessionOf(u)
  BY <1>5, SessionsOpen DEF Owned, Connected, SessionOf
<1>7. ConnectionParameters' = ConnectionParameters /\ Connected' = Connected
  BY <1>6, RequestsUnchanged
<1>8. TypeOK'
  <2>1. pc' \in [Threads -> {"idle", "created"} \cup Connecting]
    BY DEF IInv, TypeOK, Connecting
  <2>2. QED
    BY <1>5, <2>1 DEF IInv, TypeOK, settingVars
<1>9. Places'
  BY <1>1 DEF IInv, Places
<1>10. Unshared'
  <2>1. SUFFICES ASSUME NEW u \in Threads, mine'[u] # Null
        PROVE  /\ mine'[u] # session_'
               /\ \A v \in Threads :
                    /\ request'[v].created => request'[v].session # mine'[u]
                    /\ v # u => mine'[v] # mine'[u]
               /\ conn'[mine'[u]].to = ConnectionParameters'
    BY DEF Unshared
  <2>2. u # t /\ mine'[u] = mine[u] /\ mine[u] \in Handles
    BY <1>1, <2>1 DEF IInv, TypeOK
  <2>3. conn'[mine[u]] = conn[mine[u]]
    BY <1>5, <2>2 DEF Owned
  <2>4. QED
    BY <1>1, <1>7, <2>1, <2>2, <2>3 DEF IInv, Unshared
<1>11. CachedSessionIsCurrent'
  <2>1. SUFFICES ASSUME mine[t] # Null
        PROVE  conn'[mine[t]].open /\ conn'[mine[t]].to = ConnectionParameters
    BY <1>1, <1>7 DEF CachedSessionIsCurrent
  <2>2. mine[t] \in Handles
    BY <2>1 DEF IInv, TypeOK
  <2>3. conn'[mine[t]] = conn[mine[t]]
    BY <1>5, <2>2 DEF Owned
  <2>4. conn[mine[t]].open
    BY <2>2 DEF IInv, Live, Owned
  <2>5. QED
    BY <2>1, <2>3, <2>4 DEF IInv, Unshared
<1>12. CachedTimeout'
  BY <1>7 DEF IInv, CachedTimeout, Unshared, Connected, settingVars
<1>13. Untouched
  BY <1>6 DEF Untouched
<1>14. QED
  BY <1>13, <1>5, <1>6, <1>8, <1>9, <1>10, <1>11, <1>12, RequestsUnchanged DEF IInv

\* The cached session, whichever it is now, gets the timeouts.
LEMMA SetOptionsInv == ASSUME IInv, NEW t \in Threads, SetOptions(t) PROVE IInv' /\ Untouched
<1> USE DEF SetOptions
<1>1. pc'[t] = "create" /\ \A u \in Threads \ {t} : pc'[u] = pc[u]
  BY DEF IInv, TypeOK
<1>2. /\ conn' \in [Handles -> {Closed} \cup OpenSessions]
      /\ \A h \in Handles : conn'[h].open = conn[h].open /\ conn'[h].to = conn[h].to
      /\ \A h \in Handles \ {session_} : conn'[h] = conn[h]
      /\ session_ # Null => conn'[session_].timeout = timeout_
  <2>1. CASE session_ = Null
    BY <2>1 DEF IInv, TypeOK
  <2>2. CASE session_ # Null
    <3>1. session_ \in Handles /\ conn[session_] \in OpenSessions
      BY <2>2, SessionsOpen
    <3>2. /\ [conn[session_] EXCEPT !.timeout = timeout_] \in OpenSessions
          /\ [conn[session_] EXCEPT !.timeout = timeout_].open = conn[session_].open
          /\ [conn[session_] EXCEPT !.timeout = timeout_].to = conn[session_].to
          /\ [conn[session_] EXCEPT !.timeout = timeout_].timeout = timeout_
      BY <3>1 DEF OpenSessions, IInv, TypeOK
    <3>3. conn' = [conn EXCEPT ![session_] = [conn[session_] EXCEPT !.timeout = timeout_]]
      BY <2>2
    <3>4. QED
      BY <3>1, <3>2, <3>3 DEF IInv, TypeOK
  <2>3. QED
    BY <2>1, <2>2
<1>3. ConnectionParameters' = ConnectionParameters /\ Connected' = Connected
  BY DEF ConnectionParameters, Connected, settingVars
<1>4. TypeOK'
  <2>1. pc' \in [Threads -> {"idle", "created"} \cup Connecting]
    BY DEF IInv, TypeOK, Connecting
  <2>2. QED
    BY <1>2, <2>1 DEF IInv, TypeOK, settingVars
<1>5. Places'
  BY <1>1 DEF IInv, Places
<1>6. Live'
  BY <1>2 DEF IInv, Live, Owned
<1>7. Unshared'
  BY <1>2, <1>3 DEF IInv, Unshared, TypeOK
<1>8. CachedSessionIsCurrent'
  BY <1>2, <1>3, SessionsOpen DEF IInv, CachedSessionIsCurrent, settingVars
<1>9. AskedFor' /\ SecureHostsAreAskedSecurely' /\ CachedTimeout'
  BY <1>3 DEF IInv, AskedFor, SecureHostsAreAskedSecurely, CachedTimeout, settingVars
<1>10. ExplicitPortsAreUsed'
  BY <1>2, <1>3, SessionsOpen DEF IInv, ExplicitPortsAreUsed, SessionOf
<1>11. TimeoutsUnlessOverlapped'
  BY <1>2, <1>3, SessionsOpen
  DEF IInv, TimeoutsUnlessOverlapped, CachedTimeout, SessionOf, Connected
<1>12. Untouched
  BY <1>2, SessionsOpen DEF Untouched, SessionOf
<1>13. QED
  BY <1>12, <1>4, <1>5, <1>6, <1>7, <1>8, <1>9, <1>10, <1>11 DEF IInv

\* The request shares the cached session, which is current.
LEMMA CreateRequestInv == ASSUME IInv, NEW t \in Threads, CreateRequest(t) PROVE IInv' /\ Untouched
<1> DEFINE r == request'[t]
<1> USE DEF CreateRequest
<1>1. /\ pc'[t] = "created" /\ ~request[t].created
      /\ \A u \in Threads \ {t} : pc'[u] = pc[u] /\ request'[u] = request[u]
  BY DEF IInv, TypeOK, Places
<1>2. r = [created |-> TRUE, session |-> session_, flags |-> RequestFlags,
           asked |-> asked, timeout |-> timeout_,
           overlapped |-> \E u \in Threads \ {t} : pc[u] \in Connecting]
  BY DEF IInv, TypeOK
<1>3. /\ r.created /\ r.session = session_ /\ r.flags = RequestFlags
      /\ r.asked = asked /\ r.timeout = timeout_
      /\ r.overlapped <=> \E u \in Threads \ {t} : pc[u] \in Connecting
  BY <1>2
<1>4. r \in Requests
  BY <1>2, SettingTypes DEF IInv, TypeOK, Requests
<1> HIDE DEF r
<1>5. ConnectionParameters' = ConnectionParameters
  BY DEF ConnectionParameters, settingVars
<1>6. TypeOK'
  <2>1. pc' \in [Threads -> {"idle", "created"} \cup Connecting]
    BY DEF IInv, TypeOK, Connecting
  <2>2. request' \in [Threads -> {NoRequest} \cup Requests]
    BY <1>1, <1>4 DEF IInv, TypeOK, r
  <2>3. QED
    BY <2>1, <2>2 DEF IInv, TypeOK, settingVars
<1>7. Places'
  BY <1>1, <1>3 DEF IInv, Places, r
<1>8. Live'
  BY <1>1, <1>3 DEF IInv, Live, Owned, r
<1>9. Unshared'
  BY <1>1, <1>3, <1>5 DEF IInv, Unshared, r
<1>10. CachedSessionIsCurrent'
  BY <1>1, <1>5 DEF IInv, CachedSessionIsCurrent, settingVars
<1>11. AskedFor'
  BY DEF IInv, AskedFor, settingVars
<1>12. SecureHostsAreAskedSecurely'
  BY <1>1, <1>3 DEF IInv, SecureHostsAreAskedSecurely, AskedFor, RequestFlags, r
<1>13. Connected' = Connected \cup (IF session_ # Null THEN {t} ELSE {})
  BY <1>1, <1>3 DEF Connected, r
<1>14. ExplicitPortsAreUsed'
  <2>1. ASSUME session_ # Null, asked.port # -1
        PROVE  conn[session_].to.port = asked.port
    <3>1. conn[session_].to.port = WirePort(port_)
      BY <2>1 DEF IInv, CachedSessionIsCurrent, ConnectionParameters
    <3>2. port_ = asked.port
      BY <2>1 DEF IInv, AskedFor
    <3>3. QED
      BY <2>1, <3>1, <3>2, Narrowing DEF IInv, TypeOK
  <2>2. QED
    BY <1>1, <1>3, <1>13, <2>1 DEF IInv, ExplicitPortsAreUsed, SessionOf, Connected, r
<1>15. CachedTimeout'
  BY <1>1, <1>3, <1>13 DEF IInv, CachedTimeout, Connected, settingVars, r
<1>16. TimeoutsUnlessOverlapped'
  <2>1. ASSUME session_ # Null, ~r.overlapped PROVE conn[session_].timeout = timeout_
    BY <1>3, <2>1 DEF IInv, CachedSessionIsCurrent, Connecting
  <2>2. QED
    BY <1>1, <1>3, <1>13, <2>1 DEF IInv, TimeoutsUnlessOverlapped, SessionOf, Connected, r
<1>17. Untouched
  BY DEF Untouched, SessionOf, Connected
<1>18. QED
  BY <1>17, <1>6, <1>7, <1>8, <1>9, <1>10, <1>11, <1>12, <1>14, <1>15, <1>16 DEF IInv

\* The session of the request is closed unless the cache or another request has it.
LEMMA DestroyRequestInv == ASSUME IInv, NEW t \in Threads, DestroyRequest(t) PROVE IInv' /\ Untouched
<1> DEFINE S == HeldBy(session_, request') \cup Unassigned(Threads)
<1> USE DEF DestroyRequest
<1>1. /\ pc'[t] = "idle" /\ ~request'[t].created
      /\ \A u \in Threads \ {t} : pc'[u] = pc[u] /\ request'[u] = request[u]
  BY RecordFacts DEF IInv, TypeOK
<1>2. \A h \in Handles : Owned(h)' <=> h \in S
  <2>1. SUFFICES ASSUME NEW h \in Handles PROVE Owned(h)' <=> h \in S
    OBVIOUS
  <2>2. h \in Unassigned(Threads) <=> \E u \in Threads : mine[u] = h
    BY HttpWinAssumption DEF IInv, Places, Unassigned
  <2>3. h \in HeldBy(session_, request')
          <=> h = session_ \/ \E u \in Threads : request'[u].created /\ request'[u].session = h
    BY DEF HeldBy
  <2>4. QED
    BY <2>2, <2>3 DEF Owned
<1>3. \A h \in S : h \in Handles => Owned(h)
  <2>1. ASSUME NEW u \in Threads, request'[u].created
        PROVE  request[u].created /\ request'[u].session = request[u].session
    BY <1>1, <2>1
  <2>2. QED
    BY <2>1 DEF HeldBy, Unassigned, Owned
<1>4. KeepOpen(S)
  OBVIOUS
<1> HIDE DEF S
<1>5. /\ conn' \in [Handles -> {Closed} \cup OpenSessions]
      /\ Live'
      /\ \A h \in Handles : Owned(h)' => conn'[h] = conn[h]
  BY <1>2, <1>3, <1>4, Keeping
<1>6. ConnectionParameters' = ConnectionParameters /\ Connected' = Connected \ {t}
  BY <1>1 DEF ConnectionParameters, Connected, settingVars
<1>7. \A u \in Connected' : SessionOf(u)' = SessionOf(u) /\ request'[u] = request[u]
  <2>1. SUFFICES ASSUME NEW u \in Connected'
        PROVE  SessionOf(u)' = SessionOf(u) /\ request'[u] = request[u]
    OBVIOUS
  <2>2. u \in Connected /\ u \in Threads /\ request'[u] = request[u] /\ request'[u].created
    BY <1>1, <1>6 DEF Connected
  <2>3. request[u].session \in Handles /\ Owned(request[u].session)'
    BY <2>2, SessionsOpen DEF Owned
  <2>4. QED
    BY <1>5, <2>2, <2>3 DEF SessionOf
<1>8. TypeOK'
  <2>1. pc' \in [Threads -> {"idle", "created"} \cup Connecting]
    BY DEF IInv, TypeOK, Connecting
  <2>2. request' \in [Threads -> {NoRequest} \cup Requests]
    BY DEF IInv, TypeOK
  <2>3. QED
    BY <1>5, <2>1, <2>2 DEF IInv, TypeOK, settingVars
<1>9. Places'
  BY <1>1 DEF IInv, Places
<1>10. Unshared'
  <2>1. \A u \in Threads : mine[u] # Null => conn'[mine[u]] = conn[mine[u]]
    BY <1>5 DEF Owned, IInv, TypeOK
  <2>2. QED
    BY <1>1, <1>6, <2>1 DEF IInv, Unshared
<1>11. CachedSessionIsCurrent'
  <2>1. session_ # Null => conn'[session_] = conn[session_]
    BY <1>5, SessionsOpen DEF Owned
  <2>2. QED
    BY <1>1, <1>6, <2>1 DEF IInv, CachedSessionIsCurrent, settingVars
<1>12. AskedFor' /\ SecureHostsAreAskedSecurely'
  BY <1>1 DEF IInv, AskedFor, SecureHostsAreAskedSecurely, settingVars
<1>13. ExplicitPortsAreUsed' /\ CachedTimeout' /\ TimeoutsUnlessOverlapped'
  BY <1>6, <1>7 DEF IInv, ExplicitPortsAreUsed, CachedTimeout, TimeoutsUnlessOverlapped, settingVars
<1>14. Untouched
  BY <1>1, <1>6, <1>7 DEF Untouched, Connected
<1>15. QED
  BY <1>14, <1>5, <1>8, <1>9, <1>10, <1>11, <1>12, <1>13 DEF IInv

-----------------------------------------------------------------------------
\* Every step preserves the invariant.
LEMMA NextInv == ASSUME IInv, [Next]_vars PROVE IInv'
<1>1. ASSUME UNCHANGED vars PROVE IInv'
  <2> USE <1>1 DEF vars, settingVars, threadVars
  <2>1. ConnectionParameters' = ConnectionParameters /\ Connected' = Connected
    BY DEF ConnectionParameters, Connected
  <2>2. TypeOK' /\ Places' /\ Live'
    BY DEF IInv, TypeOK, Places, Live, Owned
  <2>3. Unshared' /\ CachedSessionIsCurrent'
    BY <2>1 DEF IInv, Unshared, CachedSessionIsCurrent
  <2>4. AskedFor' /\ SecureHostsAreAskedSecurely' /\ CachedTimeout'
    BY <2>1 DEF IInv, AskedFor, SecureHostsAreAskedSecurely, CachedTimeout
  <2>5. ExplicitPortsAreUsed' /\ TimeoutsUnlessOverlapped'
    BY <2>1 DEF IInv, ExplicitPortsAreUsed, TimeoutsUnlessOverlapped, SessionOf
  <2>6. QED
    BY <2>2, <2>3, <2>4, <2>5 DEF IInv
<1>2. ASSUME Next PROVE IInv'
  BY <1>2, SetterInv, BeginCreateInv, ConnectInv, AssignInv, SetOptionsInv,
     CreateRequestInv, DestroyRequestInv DEF Next, createRequest
<1>3. QED
  BY <1>1, <1>2

\* IInv is an invariant: of the ownership of handles, of the settings, and of what
\* the sessions of requests are connected to.
THEOREM HandlesInvariant == Spec => []IInv
<1>1. Init => IInv
  BY InitInv
<1>2. IInv /\ [Next]_vars => IInv'
  BY NextInv
<1>3. QED
  BY <1>1, <1>2, PTL DEF Spec

\* The variables of the back-end keep their types.
THEOREM TypeCorrect == Spec => []TypeOK
<1>1. IInv => TypeOK
  BY DEF IInv
<1>2. QED
  BY <1>1, HandlesInvariant, PTL

\* A request is never made on a session of other settings: the one in the cache is
\* connected with the settings of now, and every setter that changes them drops it.
THEOREM CachedSessionsAreCurrent == Spec => []CachedSessionIsCurrent
<1>1. IInv => CachedSessionIsCurrent
  BY DEF IInv
<1>2. QED
  BY <1>1, HandlesInvariant, PTL

\* A session handle is open exactly as long as something owns it: none leaks, and
\* none is closed under a request, in whatever order threads replace the cached one.
THEOREM SessionsAreOwned == Spec => []SessionsLiveWhileOwned
<1>1. ASSUME IInv PROVE SessionsLiveWhileOwned
  <2>1. \A h \in Handles :
          Owned(h) <=> h \in (HeldBy(session_, request) \cup Unassigned(Threads)) \ {Null}
    <3> SUFFICES ASSUME NEW h \in Handles
        PROVE  Owned(h) <=> h \in HeldBy(session_, request) \cup Unassigned(Threads)
      BY HttpWinAssumption
    <3>1. h \in Unassigned(Threads) <=> \E u \in Threads : mine[u] = h
      BY <1>1, HttpWinAssumption DEF IInv, Places, Unassigned
    <3>2. h \in HeldBy(session_, request)
            <=> h = session_ \/ \E u \in Threads : request[u].created /\ request[u].session = h
      BY DEF HeldBy
    <3>3. QED
      BY <3>1, <3>2 DEF Owned
  <2>2. (HeldBy(session_, request) \cup Unassigned(Threads)) \ {Null} \subseteq Handles
    <3>1. session_ \in Handles \cup {Null} /\ \A u \in Threads : mine[u] \in Handles \cup {Null}
      BY <1>1 DEF IInv, TypeOK
    <3>2. \A u \in Threads : request[u].created => request[u].session \in Handles \cup {Null}
      BY <1>1, RecordFacts DEF IInv, TypeOK
    <3>3. QED
      BY <3>1, <3>2 DEF HeldBy, Unassigned
  <2>3. \A h \in Handles : conn[h].open <=> Owned(h)
    BY <1>1 DEF IInv, Live
  <2>4. QED
    BY <2>1, <2>2, <2>3 DEF SessionsLiveWhileOwned
<1>2. QED
  BY <1>1, HandlesInvariant, PTL

\* A request to a host given as "https://..." is made over TLS, and a port that was
\* given is the one connected to.
THEOREM RequestsAreRight == Spec => []RequestsGoWhereAsked
<1>1. IInv => RequestsGoWhereAsked
  BY DEF IInv, RequestsGoWhereAsked
<1>2. QED
  BY <1>1, HandlesInvariant, PTL

\* A request has its timeout, unless another one was created at the same time.
THEOREM TimeoutsAreSet == Spec => []TimeoutsUnlessOverlapped
<1>1. IInv => TimeoutsUnlessOverlapped
  BY DEF IInv
<1>2. QED
  BY <1>1, HandlesInvariant, PTL

-----------------------------------------------------------------------------
(***************************************************************************)
(* HttpWin implements HttpClient.                                          *)
(***************************************************************************)
\* A request is not the absence of one.
LEMMA AbstractRequests ==
  ASSUME NEW to, NEW flags
  PROVE  NoRequest # Disconnected /\ NoRequest # [to |-> to, flags |-> flags]
<1>1. DOMAIN NoRequest = {"created"}
  BY DEF NoRequest
<1>2. DOMAIN Disconnected = {"session"}
  BY DEF Disconnected
<1>3. DOMAIN [to |-> to, flags |-> flags] = {"to", "flags"}
  OBVIOUS
<1>4. QED
  BY <1>1, <1>2, <1>3

\* Where nothing happens to a request, it stays where it is in HttpClient.
LEMMA AbstractStays ==
  ASSUME IInv, Untouched, NEW t \in Threads, request'[t] = request[t]
  PROVE  Abstract(t)' = Abstract(t)
BY DEF Untouched, Abstract, Connected

\* Every step of HttpWin is one of HttpClient, or changes none of its variables.
LEMMA StepImplements ==
  ASSUME IInv, [Next]_vars
  PROVE  [Client!Next]_<<AbstractSettings, AbstractRequest>>
<1>1. ASSUME Setter PROVE Client!Set
  <2>1. AbstractSettings' \in [to : ConnectionSet, flags : Flags]
    BY <1>1, SetterInv, SettingTypesAfter DEF IInv, AbstractSettings
  <2>2. Untouched /\ request' = request
    BY <1>1, SetterInv DEF Setter, setHost, setPort, setAuthentication, setCredentials,
       setTimeout, setSSLErrorHandling, threadVars
  <2>3. AbstractRequest' = AbstractRequest
    BY <2>2, AbstractStays DEF AbstractRequest
  <2>4. QED
    BY <2>1, <2>3 DEF Client!Set
<1>2. ASSUME NEW t \in Threads,
             BeginCreate(t) \/ Connect(t) \/ Assign(t) \/ SetOptions(t)
      PROVE  UNCHANGED <<AbstractSettings, AbstractRequest>>
  <2>1. Untouched
    BY <1>2, BeginCreateInv, ConnectInv, AssignInv, SetOptionsInv
  <2>2. request' = request /\ UNCHANGED settingVars
    BY <1>2 DEF BeginCreate, Connect, Assign, SetOptions
  <2>3. AbstractRequest' = AbstractRequest
    BY <2>1, <2>2, AbstractStays DEF AbstractRequest
  <2>4. AbstractSettings' = AbstractSettings
    BY <2>2 DEF AbstractSettings, ConnectionParameters, RequestFlags, settingVars
  <2>5. QED
    BY <2>3, <2>4
<1>3. ASSUME NEW t \in Threads, CreateRequest(t) PROVE Client!Create(t)
  <2> USE <1>3 DEF CreateRequest
  <2>1. Untouched
    BY CreateRequestInv
  <2>2. ~request[t].created /\ \A u \in Threads \ {t} : request'[u] = request[u]
    BY DEF IInv, TypeOK, Places
  <2>3. /\ request'[t].created /\ request'[t].session = session_
        /\ request'[t].flags = RequestFlags
    BY DEF IInv, TypeOK
  <2>4. AbstractSettings' = AbstractSettings
    BY DEF AbstractSettings, ConnectionParameters, RequestFlags, settingVars
  <2>5. Abstract(t) = NoRequest
    BY <2>2 DEF Abstract
  <2>6. Abstract(t)' \in {AbstractSettings, Disconnected}
    <3>1. session_ # Null => conn[session_].to = ConnectionParameters
      BY DEF IInv, CachedSessionIsCurrent
    <3>2. QED
      BY <2>3, <3>1 DEF Abstract, AbstractSettings, SessionOf
  <2>7. \A u \in Threads \ {t} : Abstract(u)' = Abstract(u)
    BY <2>1, <2>2, AbstractStays
  <2>8. AbstractRequest' = [AbstractRequest EXCEPT ![t] = Abstract(t)']
    BY <2>7 DEF AbstractRequest
  <2>9. AbstractRequest[t] = NoRequest
    BY <2>5 DEF AbstractRequest
  <2>10. QED
    BY <2>4, <2>6, <2>8, <2>9 DEF Client!Create
<1>4. ASSUME NEW t \in Threads, DestroyRequest(t) PROVE Client!Finish(t)
  <2> USE <1>4 DEF DestroyRequest
  <2>1. Untouched
    BY DestroyRequestInv
  <2>2. request[t].created /\ \A u \in Threads \ {t} : request'[u] = request[u]
    BY DEF IInv, TypeOK, Places
  <2>3. Abstract(t)' = NoRequest
    BY RecordFacts DEF IInv, TypeOK, Abstract
  <2>4. Abstract(t) # NoRequest
    <3>1. /\ NoRequest # Disconnected
          /\ NoRequest # [to |-> SessionOf(t).to, flags |-> request[t].flags]
      BY AbstractRequests, Zenon
    <3>2. QED
      BY <2>2, <3>1 DEF Abstract
  <2>5. \A u \in Threads \ {t} : Abstract(u)' = Abstract(u)
    BY <2>1, <2>2, AbstractStays
  <2>6. AbstractRequest' = [AbstractRequest EXCEPT ![t] = NoRequest]
    BY <2>3, <2>5 DEF AbstractRequest
  <2>7. AbstractRequest[t] # NoRequest
    BY <2>4 DEF AbstractRequest
  <2>8. AbstractSettings' = AbstractSettings
    BY DEF AbstractSettings, ConnectionParameters, RequestFlags, settingVars
  <2>9. QED
    BY <2>6, <2>7, <2>8 DEF Client!Finish
<1>5. ASSUME UNCHANGED vars PROVE UNCHANGED <<AbstractSettings, AbstractRequest>>
  <2> USE <1>5 DEF vars, settingVars, threadVars
  <2>1. \A t \in Threads : Abstract(t)' = Abstract(t)
    BY DEF Abstract, SessionOf
  <2>2. QED
    BY <2>1 DEF AbstractRequest, AbstractSettings, ConnectionParameters, RequestFlags
<1>6. QED
  BY <1>1, <1>2, <1>3, <1>4, <1>5 DEF Next, createRequest, Client!Next

\* The requests of the back-end run with the settings of their creation, whatever
\* other threads set, connect or drop meanwhile: it implements HttpClient.
THEOREM HttpWinIsAClient == Spec => RequestsCopyTheSettings
<1>1. ASSUME Init PROVE Client!Init
  <2>1. AbstractSettings \in [to : ConnectionSet, flags : Flags]
    BY <1>1, InitInv, SettingTypes DEF IInv, AbstractSettings
  <2>2. \A t \in Threads : Abstract(t) = NoRequest
    BY <1>1, RecordFacts DEF Init, Abstract
  <2>3. QED
    BY <2>1, <2>2 DEF Client!Init, AbstractRequest
<1>2. IInv /\ [Next]_vars => [Client!Next]_<<AbstractSettings, AbstractRequest>>
  BY StepImplements
<1>3. QED
  BY <1>1, <1>2, HandlesInvariant, PTL DEF Spec, RequestsCopyTheSettings, Client!Spec
=============================================================================
