------------------------------ MODULE HttpWin -------------------------------
(***************************************************************************)
(* The WinINet back-end: the settings of the HTTP client and the session   *)
(* handle it caches between requests.                                      *)
(*                                                                         *)
(* createRequest connects when there is no cached session, from whatever   *)
(* thread makes a request, and hands the cached session to the request;    *)
(* the functions that change what a session was connected with drop it.    *)
(* Session allows requests of several threads at once, but no setter       *)
(* during one of them to be created: a setter runs between the creations,  *)
(* also while the requests created are sent.  The fields are those of      *)
(* WinHttp.  The path of a request is SendRequest's subject.               *)
(***************************************************************************)
EXTENDS Integers

CONSTANTS
  Threads,    \* the threads that make requests
  Handles,    \* WinINet's session handles
  Null,       \* no handle
  Hosts,      \* the hosts set: a name, and whether "https://" is before it
  Ports,      \* the ports set; -1 is PORT_AUTODETECT
  Users,      \* the credentials set
  Timeouts    \* the timeouts set

MaxPort == 65535   \* of an INTERNET_PORT

ASSUME HttpWinAssumption ==
  /\ Null \notin Handles
  /\ Hosts \subseteq [name : STRING, secure : BOOLEAN]
  /\ Ports \subseteq -1 .. MaxPort

VARIABLES
  hostname_, port_, authenticationEnabled_, authentication_, timeout_,
  sslErrorHandlingEnabled_,
  connectionFlags_,   \* "plain" or "secure": CONNECTION_FLAGS(_SSL)
  session_,           \* the cached session
  conn,               \* what each session handle is connected to, if it is open
  pc, mine,           \* createRequest of a thread, and the handle it connected
  request,            \* the Request a thread has
  asked               \* history: the host and the port last asked for

settingVars == <<hostname_, port_, authenticationEnabled_, authentication_, timeout_,
                 sslErrorHandlingEnabled_, connectionFlags_, asked>>
threadVars  == <<pc, mine, request>>
vars        == <<settingVars, session_, conn, threadVars>>

Closed    == [open |-> FALSE]
NoRequest == [created |-> FALSE]
Disconnected == [session |-> Null]   \* a request without a session
NoTimeout == "unset"      \* WinINet's own timeouts
NoUser    == "nobody"     \* a null user name

Connecting == {"connect", "assign", "options", "create"}
-----------------------------------------------------------------------------
\* mutant: no narrowing
WirePortAsIs(p) == p

\* static_cast<INTERNET_PORT>
WirePort(p) == p % (MaxPort + 1)

\* what createRequest passes to InternetConnectA
ConnectionParameters ==
  [host |-> hostname_, port |-> WirePort(port_),
   user |-> IF authenticationEnabled_ THEN authentication_ ELSE NoUser]

\* mutant: the prefix decides the port although one is set
PortForAlways(host, flags, port) == IF host.secure THEN 443 ELSE port

\* setHost: the prefix decides the flags, and the port unless one is set.  Once a
\* host is set the flags are never "none" again, so that a host without the
\* prefix keeps the flags and the port.
FlagsFor(host, flags) ==
  IF host.secure THEN "secure" ELSE IF flags = "none" THEN "plain" ELSE flags
PortFor(host, flags, port) ==
  IF port # -1 THEN port
  ELSE IF host.secure THEN 443 ELSE IF flags = "none" THEN 80 ELSE port

\* the flags of a request
RequestFlags == [connection |-> connectionFlags_, ignoreCertificate |-> sslErrorHandlingEnabled_]

\* the sessions some shared_ptr owns
HeldBy(cached, requests) ==
  {cached} \cup {requests[t].session : t \in {u \in Threads : requests[u].created}}

\* the sessions connected that no shared_ptr owns yet
Unassigned(threads) == {mine[t] : t \in {u \in threads : pc[u] = "assign"}}

\* Sessions that lost their last owner are closed.
KeepOpen(owned) == conn' = [h \in Handles |-> IF h \in owned THEN conn[h] ELSE Closed]

closeSession == session_' = Null /\ KeepOpen(HeldBy(Null, request))

-----------------------------------------------------------------------------
\* A WinHttp as SessionPrivate constructs it, setHost then setPort first.
Init ==
  /\ \E host \in Hosts, p \in Ports :
       /\ asked = [host |-> host, port |-> p]
       /\ hostname_ = host.name
       /\ connectionFlags_ = FlagsFor(host, "none")
       /\ port_ = p
  /\ authenticationEnabled_ \in BOOLEAN
  /\ authentication_ \in Users
  /\ timeout_ \in Timeouts
  /\ sslErrorHandlingEnabled_ = TRUE
  /\ session_ = Null
  /\ conn = [h \in Handles |-> Closed]
  /\ pc = [t \in Threads |-> "idle"]
  /\ mine = [t \in Threads |-> Null]
  /\ request = [t \in Threads |-> NoRequest]

\* No createRequest runs.
Quiet == \A t \in Threads : pc[t] \notin Connecting

setHost(host) ==
  /\ Quiet
  /\ closeSession
  /\ connectionFlags_' = FlagsFor(host, connectionFlags_)
  /\ port_' = PortFor(host, connectionFlags_, port_)
  /\ hostname_' = host.name
  /\ asked' = [asked EXCEPT !.host = host]
  /\ UNCHANGED <<authenticationEnabled_, authentication_, timeout_,
                 sslErrorHandlingEnabled_, threadVars>>

\* mutant: the cached session stays
setPortKeepsSession(p) ==
  /\ Quiet
  /\ port_' = p
  /\ asked' = [asked EXCEPT !.port = p]
  /\ UNCHANGED <<hostname_, authenticationEnabled_, authentication_, timeout_,
                 sslErrorHandlingEnabled_, connectionFlags_, session_, conn, threadVars>>

setPort(p) ==
  /\ Quiet
  /\ closeSession
  /\ port_' = p
  /\ asked' = [asked EXCEPT !.port = p]
  /\ UNCHANGED <<hostname_, authenticationEnabled_, authentication_, timeout_,
                 sslErrorHandlingEnabled_, connectionFlags_, threadVars>>

\* mutant: the cached session stays
setAuthenticationKeepsSession(enabled) ==
  /\ Quiet
  /\ authenticationEnabled_' = enabled
  /\ UNCHANGED <<hostname_, port_, authentication_, timeout_,
                 sslErrorHandlingEnabled_, connectionFlags_, asked,
                 session_, conn, threadVars>>

\* enableAuthentication and disableAuthentication
setAuthentication(enabled) ==
  /\ Quiet
  /\ closeSession
  /\ authenticationEnabled_' = enabled
  /\ UNCHANGED <<hostname_, port_, authentication_, timeout_,
                 sslErrorHandlingEnabled_, connectionFlags_, asked,
                 threadVars>>

\* setUsername and setPassword
setCredentials(u) ==
  /\ Quiet
  /\ closeSession
  /\ authenticationEnabled_' = TRUE
  /\ authentication_' = u
  /\ UNCHANGED <<hostname_, port_, timeout_, sslErrorHandlingEnabled_, connectionFlags_,
                 asked, threadVars>>

\* mutant: the cached session stays
setTimeoutKeepsSession(ms) ==
  /\ Quiet
  /\ timeout_' = ms
  /\ UNCHANGED <<hostname_, port_, authenticationEnabled_, authentication_,
                 sslErrorHandlingEnabled_, connectionFlags_, asked, session_, conn, threadVars>>

setTimeout(ms) ==
  /\ Quiet
  /\ closeSession
  /\ timeout_' = ms
  /\ UNCHANGED <<hostname_, port_, authenticationEnabled_, authentication_,
                 sslErrorHandlingEnabled_, connectionFlags_, asked, threadVars>>

\* The flags are the request's, so that the session stays.
setSSLErrorHandling(acknowledge) ==
  /\ Quiet
  /\ sslErrorHandlingEnabled_' = acknowledge
  /\ UNCHANGED <<hostname_, port_, authenticationEnabled_, authentication_, timeout_,
                 connectionFlags_, asked, session_, conn, threadVars>>

-----------------------------------------------------------------------------
\* createRequest reads session_.
BeginCreate(t) ==
  /\ pc[t] = "idle"
  /\ pc' = [pc EXCEPT ![t] = IF session_ = Null THEN "connect" ELSE "create"]
  /\ UNCHANGED <<settingVars, session_, conn, mine, request>>

\* InternetConnectA opens a session, or fails.
Connect(t) ==
  /\ pc[t] = "connect"
  /\ pc' = [pc EXCEPT ![t] = "assign"]
  /\ \/ \E h \in Handles :
          /\ conn[h] = Closed
          /\ mine' = [mine EXCEPT ![t] = h]
          /\ conn' = [conn EXCEPT ![h] = [open |-> TRUE, to |-> ConnectionParameters,
                                          timeout |-> NoTimeout]]
     \/ mine' = [mine EXCEPT ![t] = Null] /\ UNCHANGED conn
  /\ UNCHANGED <<settingVars, session_, request>>

\* mutant: the session cached before is not closed
AssignLeaks(t) ==
  /\ pc[t] = "assign"
  /\ session_' = mine[t]
  /\ mine' = [mine EXCEPT ![t] = Null]
  /\ pc' = [pc EXCEPT ![t] = "options"]
  /\ UNCHANGED <<settingVars, conn, request>>

\* session_.reset(...): the session cached before, if another thread was faster,
\* loses an owner.
Assign(t) ==
  /\ pc[t] = "assign"
  /\ session_' = mine[t]
  /\ mine' = [mine EXCEPT ![t] = Null]
  /\ pc' = [pc EXCEPT ![t] = "options"]
  /\ KeepOpen(HeldBy(mine[t], request) \cup Unassigned(Threads \ {t}))
  /\ UNCHANGED <<settingVars, request>>

\* The timeouts are set on the session cached now, if there is one.
SetOptions(t) ==
  /\ pc[t] = "options"
  /\ pc' = [pc EXCEPT ![t] = "create"]
  /\ conn' = IF session_ = Null THEN conn
             ELSE [conn EXCEPT ![session_].timeout = timeout_]
  /\ UNCHANGED <<settingVars, session_, mine, request>>

\* The Request shares the session cached now.  Its last three fields are history:
\* what was asked for, and whether another thread was creating one too.
CreateRequest(t) ==
  /\ pc[t] = "create"
  /\ pc' = [pc EXCEPT ![t] = "created"]
  /\ request' = [request EXCEPT ![t] =
       [created |-> TRUE, session |-> session_, flags |-> RequestFlags,
        asked |-> asked, timeout |-> timeout_,
        overlapped |-> \E u \in Threads \ {t} : pc[u] \in Connecting]]
  /\ UNCHANGED <<settingVars, session_, conn, mine>>

\* The request is sent, as often as SendRequest says, and destroyed.
DestroyRequest(t) ==
  /\ pc[t] = "created"
  /\ pc' = [pc EXCEPT ![t] = "idle"]
  /\ request' = [request EXCEPT ![t] = NoRequest]
  /\ KeepOpen(HeldBy(session_, request') \cup Unassigned(Threads))
  /\ UNCHANGED <<settingVars, session_, mine>>

Setter ==
  \/ \E host \in Hosts : setHost(host)
  \/ \E p \in Ports : setPort(p)
  \/ \E enabled \in BOOLEAN : setAuthentication(enabled)
  \/ \E u \in Users : setCredentials(u)
  \/ \E ms \in Timeouts : setTimeout(ms)
  \/ \E acknowledge \in BOOLEAN : setSSLErrorHandling(acknowledge)

createRequest(t) ==
  BeginCreate(t) \/ Connect(t) \/ Assign(t) \/ SetOptions(t) \/ CreateRequest(t)

Next == Setter \/ \E t \in Threads : createRequest(t) \/ DestroyRequest(t)

Spec == Init /\ [][Next]_vars

-----------------------------------------------------------------------------
ConnectionSet ==
  [host : {h.name : h \in Hosts}, port : 0 .. MaxPort, user : Users \cup {NoUser}]

Flags == [connection : {"plain", "secure"}, ignoreCertificate : BOOLEAN]

OpenSessions ==
  [open : {TRUE}, to : ConnectionSet, timeout : Timeouts \cup {NoTimeout}]

Requests ==
  [created : {TRUE}, session : Handles \cup {Null}, flags : Flags,
   asked : [host : Hosts, port : Ports], timeout : Timeouts, overlapped : BOOLEAN]

TypeOK ==
  /\ hostname_ \in {h.name : h \in Hosts}
  /\ port_ \in -1 .. MaxPort
  /\ authenticationEnabled_ \in BOOLEAN
  /\ authentication_ \in Users
  /\ timeout_ \in Timeouts
  /\ sslErrorHandlingEnabled_ \in BOOLEAN
  /\ connectionFlags_ \in {"plain", "secure"}
  /\ asked \in [host : Hosts, port : Ports]
  /\ session_ \in Handles \cup {Null}
  /\ conn \in [Handles -> {Closed} \cup OpenSessions]
  /\ pc \in [Threads -> {"idle", "created"} \cup Connecting]
  /\ mine \in [Threads -> Handles \cup {Null}]
  /\ request \in [Threads -> {NoRequest} \cup Requests]

\* The requests that have a session to be sent on.
Connected == {t \in Threads : request[t].created /\ request[t].session # Null}
SessionOf(t) == conn[request[t].session]

\* The cached session is open, connected with the settings of now (every setter
\* that changes one of them drops it), and has the timeout unless the thread that
\* connected it is just about to set it.
CachedSessionIsCurrent ==
  session_ # Null =>
    /\ conn[session_].open
    /\ conn[session_].to = ConnectionParameters
    /\ \/ conn[session_].timeout = timeout_
       \/ \E t \in Threads : pc[t] = "options"

\* A session stays open exactly as long as the cache, a request or the thread that
\* connects it has it, whoever else replaced it in the cache or dropped it there.
SessionsLiveWhileOwned ==
  {h \in Handles : conn[h].open}
    = (HeldBy(session_, request) \cup Unassigned(Threads)) \ {Null}

\* While the last host asked for was given as "https://...", requests are made over
\* TLS, whatever was set before (setHost).
SecureHostsAreAskedSecurely ==
  \A t \in Threads :
    request[t].created /\ request[t].asked.host.secure => request[t].flags.connection = "secure"

\* A port that was given is the one connected to, in whatever order it and the host
\* were set (setHost sets a port only where none is).
ExplicitPortsAreUsed ==
  \A t \in Connected :
    request[t].asked.port # -1 => SessionOf(t).to.port = request[t].asked.port

\* A request goes where it was asked to: over TLS to a host given as https, and to
\* the port given, whatever was set before and in whatever order.
RequestsGoWhereAsked == SecureHostsAreAskedSecurely /\ ExplicitPortsAreUsed

\* A request is sent with the timeout set when it was created, unless another
\* thread was creating one at the same time: the session is cached before its
\* timeouts are set, and a thread that finds it there does not wait for them.
TimeoutsUnlessOverlapped ==
  \A t \in Connected :
    ~request[t].overlapped => SessionOf(t).timeout = request[t].timeout

\* The settings of HttpClient, and its requests.
AbstractSettings == [to |-> ConnectionParameters, flags |-> RequestFlags]

Abstract(t) ==
  IF ~request[t].created THEN NoRequest
  ELSE IF request[t].session = Null THEN Disconnected
  ELSE [to |-> SessionOf(t).to, flags |-> request[t].flags]

AbstractRequest == [t \in Threads |-> Abstract(t)]

Client == INSTANCE HttpClient WITH
  Calls <- Threads,
  Settings <- [to : ConnectionSet, flags : Flags],
  None <- NoRequest,
  Broken <- Disconnected,
  settings <- AbstractSettings,
  request <- AbstractRequest

\* A request goes where the settings of its creation say, whatever is set, cached,
\* dropped or connected by other threads while it exists: HttpClient's promise.
RequestsCopyTheSettings == Client!Spec
=============================================================================
