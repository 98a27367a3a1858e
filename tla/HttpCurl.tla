------------------------------ MODULE HttpCurl ------------------------------
(***************************************************************************)
(* The libcurl back-end: its settings, its requests, and send().           *)
(*                                                                         *)
(* CUrlHttp keeps most settings in fields, and sets the timeout and the    *)
(* verification of certificates on its own easy handle.  createRequest     *)
(* copies that handle, options and all, and sets the URL and the           *)
(* credentials on the copy, which the Request owns.  Each send() builds a  *)
(* list of the headers, which the handle is given a pointer to and send()  *)
(* frees: after a 409 the same handle is sent again, with another list.    *)
(*                                                                         *)
(* The headers of a response are ResponseHeaders' subject.                 *)
(***************************************************************************)
EXTENDS Integers, HttpStatus

CONSTANTS
  Threads,        \* the threads that make requests
  Handles,        \* the easy handles of requests
  Lists,          \* the lists of headers
  Null,           \* no handle, no list, no value
  Hosts, Ports, Paths, Users, Timeouts,   \* the values of the settings
  Names, Values, Bodies,                  \* headers and bodies of requests
  Statuses,       \* the HTTP status codes servers answer
  Codes,          \* the CURLcodes of failures
  Chunks          \* the number of chunks a response's body arrives in

Redirect == 302   \* the status of one redirection too many

ASSUME HttpCurlAssumption ==
  /\ Null \notin Handles
  /\ Null \notin Lists
  /\ Null \notin Values
  /\ Null \notin Bodies
  /\ Ports \subseteq Int
  /\ Statuses \subseteq Int \ {Redirect}
  /\ Chunks \in Nat \ {0}
  /\ Codes \subseteq STRING \ {"OK"}

VARIABLES
  client,    \* the fields of CUrlHttp
  handle_,   \* the options set on its own handle
  handle,    \* the handles of requests: their options
  list,      \* the lists of headers
  pc,        \* where each thread is
  request,   \* its Request
  answer,    \* what the server has answered to its sending
  text,      \* the number of chunks writeCallback has appended
  result     \* what send() returned

settingVars == <<client, handle_>>
sendVars    == <<list, answer, text, result>>
vars == <<settingVars, handle, pc, request, sendVars>>

Freed     == [alive |-> FALSE]
NoRequest == [created |-> FALSE]
NoUser    == "nobody"     \* no CURLOPT_USERPWD
NoPort    == -1           \* no port in the URL
NoResult  == [returned |-> FALSE]
NoAnswer  == [answered |-> FALSE]

-----------------------------------------------------------------------------
\* mutant: the case of a failed reception is in the wrong group
fromCUrlErrorLenient(code) ==
  CASE code \in {"OK", "TOO_MANY_REDIRECTS", "RECV_ERROR"} -> "NoError"
    [] OTHER -> "UnknownError"

\* Only OK, and too many redirections, are no error.
fromCUrlError(code) ==
  CASE code \in {"OK", "TOO_MANY_REDIRECTS"} -> "NoError"
    [] code = "UNSUPPORTED_PROTOCOL" -> "UnsupportedProtocol"
    [] code = "URL_MALFORMAT" -> "InvalidURL"
    [] code = "COULDNT_RESOLVE_PROXY" -> "ProxyResolutionFailure"
    [] code = "COULDNT_RESOLVE_HOST" -> "HostResolutionFailure"
    [] code = "COULDNT_CONNECT" -> "ConnectionFailure"
    [] code = "OPERATION_TIMEDOUT" -> "OperationTimedOut"
    [] code = "SSL_CONNECT_ERROR" -> "SSLConnectError"
    [] code = "PEER_FAILED_VERIFICATION" -> "SSLRemoteCertificateError"
    [] code = "GOT_NOTHING" -> "ResponseInvalid"
    [] code \in {"SSL_ENGINE_NOTFOUND", "SSL_ENGINE_SETFAILED", "SSL_CIPHER",
                 "USE_SSL_FAILED", "SSL_ENGINE_INITFAILED", "SSL_SHUTDOWN_FAILED"}
         -> "GenericSSLError"
    [] code = "SEND_ERROR" -> "NetworkSendFailure"
    [] code = "RECV_ERROR" -> "NetworkReceiveError"
    [] code = "SSL_CERTPROBLEM" -> "SSLLocalCertificateError"
    [] code \in {"SSL_CACERT", "SSL_CACERT_BADFILE", "SSL_CRL_BADFILE", "SSL_ISSUER_ERROR"}
         -> "SSLCacertError"
    [] OTHER -> "UnknownError"

\* mutant: credentials that were set are sent though authentication was disabled
RequestOfAuthorized(settings, options) ==
  [host |-> settings.hostname_,
   port |-> IF settings.port_ > 0 THEN settings.port_ ELSE NoPort,
   path |-> settings.path_,
   user |-> settings.authentication_,
   verify |-> options.verify,
   timeout |-> options.timeout]

\* where a request goes, with the settings of a client
RequestOf(settings, options) ==
  [host |-> settings.hostname_,
   port |-> IF settings.port_ > 0 THEN settings.port_ ELSE NoPort,
   path |-> settings.path_,
   user |-> IF settings.authenticationEnabled_ THEN settings.authentication_ ELSE NoUser,
   verify |-> options.verify,
   timeout |-> options.timeout]

NoHeaders == [n \in Names |-> Null]

\* A CUrlHttp as SessionPrivate constructs it: libcurl verifies certificates.
Init ==
  /\ \E host \in Hosts, port \in Ports, path \in Paths, user \in Users, ms \in Timeouts,
        required \in BOOLEAN :
       /\ client = [hostname_ |-> host, port_ |-> port, path_ |-> path,
                    authenticationEnabled_ |-> required, authentication_ |-> user,
                    sslErrorHandlingEnabled_ |-> TRUE, timeout_ |-> ms]
       /\ handle_ = [verify |-> TRUE, timeout |-> ms]
  /\ handle = [h \in Handles |-> Freed]
  /\ list = [l \in Lists |-> Freed]
  /\ pc = [t \in Threads |-> "idle"]
  /\ request = [t \in Threads |-> NoRequest]
  /\ answer = [t \in Threads |-> NoAnswer]
  /\ text = [t \in Threads |-> 0]
  /\ result = [t \in Threads |-> NoResult]

setHost(host) ==
  /\ client' = [client EXCEPT !.hostname_ = host]
  /\ UNCHANGED <<handle_, handle, pc, request, sendVars>>

setPort(port) ==
  /\ client' = [client EXCEPT !.port_ = port]
  /\ UNCHANGED <<handle_, handle, pc, request, sendVars>>

setPath(path) ==
  /\ client' = [client EXCEPT !.path_ = path]
  /\ UNCHANGED <<handle_, handle, pc, request, sendVars>>

\* enableAuthentication and disableAuthentication
setAuthentication(enabled) ==
  /\ client' = [client EXCEPT !.authenticationEnabled_ = enabled]
  /\ UNCHANGED <<handle_, handle, pc, request, sendVars>>

\* setUsername and setPassword
setCredentials(user) ==
  /\ client' = [client EXCEPT !.authenticationEnabled_ = TRUE, !.authentication_ = user]
  /\ UNCHANGED <<handle_, handle, pc, request, sendVars>>

\* mutant: turned off on the handle, but never on again
setSSLErrorHandlingOnce(acknowledge) ==
  /\ client' = [client EXCEPT !.sslErrorHandlingEnabled_ = acknowledge]
  /\ handle_' = [handle_ EXCEPT !.verify = @ /\ acknowledge]
  /\ UNCHANGED <<handle, pc, request, sendVars>>

\* VERIFYPEER and VERIFYHOST are always set together: verify is both.
setSSLErrorHandling(acknowledge) ==
  /\ client' = [client EXCEPT !.sslErrorHandlingEnabled_ = acknowledge]
  /\ handle_' = [handle_ EXCEPT !.verify = acknowledge]
  /\ UNCHANGED <<handle, pc, request, sendVars>>

setTimeout(ms) ==
  /\ client' = [client EXCEPT !.timeout_ = ms]
  /\ handle_' = [handle_ EXCEPT !.timeout = ms]
  /\ UNCHANGED <<handle, pc, request, sendVars>>

-----------------------------------------------------------------------------
\* curl_easy_duphandle gives a copy or nothing; nothing can be set on nothing.
createRequest(t) ==
  /\ pc[t] = "idle"
  /\ pc' = [pc EXCEPT ![t] = "ready"]
  /\ \E h \in {g \in Handles : handle[g] = Freed} \cup {Null} :
       /\ request' = [request EXCEPT ![t] =
                        [created |-> TRUE, handle_ |-> h, headers_ |-> NoHeaders]]
       /\ handle' = [g \in Handles |->
                       IF g = h THEN [alive |-> TRUE, to |-> RequestOf(client, handle_),
                                      body |-> Null, httpHeader |-> Null]
                       ELSE handle[g]]
  /\ UNCHANGED <<settingVars, sendVars>>

\* ~Request
DestroyRequest(t) ==
  /\ pc[t] = "ready"
  /\ pc' = [pc EXCEPT ![t] = "idle"]
  /\ request' = [request EXCEPT ![t] = NoRequest]
  /\ handle' = [g \in Handles |-> IF g = request[t].handle_ THEN Freed ELSE handle[g]]
  /\ result' = [result EXCEPT ![t] = NoResult]
  /\ UNCHANGED <<settingVars, list, answer, text>>

\* The handle copies the body.
setBody(t, body) ==
  /\ pc[t] = "ready"
  /\ request[t].handle_ # Null
  /\ handle' = [handle EXCEPT ![request[t].handle_].body = body]
  /\ UNCHANGED <<settingVars, pc, request, sendVars>>

\* setHeader, and setHeaders for each of several
setHeader(t, name, value) ==
  /\ pc[t] = "ready"
  /\ request' = [request EXCEPT ![t].headers_ = [@ EXCEPT ![name] = value]]
  /\ UNCHANGED <<settingVars, handle, pc, sendVars>>

-----------------------------------------------------------------------------
\* send() of a request whose handle could not be copied
SendBroken(t) ==
  /\ pc[t] = "ready"
  /\ request[t].handle_ = Null
  /\ result' = [result EXCEPT ![t] =
       [returned |-> TRUE, status |-> Unknown, text |-> 0, error |-> "InternalError"]]
  /\ UNCHANGED <<settingVars, handle, pc, request, list, answer, text>>

\* send() lists the headers, and gives the handle the list and where to append the
\* text, which is empty; then curl_easy_perform begins.  Without headers the list is
\* a null pointer: here a list of nothing.
BeginSend(t) ==
  /\ pc[t] = "ready"
  /\ request[t].handle_ # Null
  /\ pc' = [pc EXCEPT ![t] = "performing"]
  /\ \E l \in Lists :
       /\ list[l] = Freed
       /\ list' = [list EXCEPT ![l] = [alive |-> TRUE, headers |-> request[t].headers_]]
       /\ handle' = [handle EXCEPT ![request[t].handle_].httpHeader = l]
  /\ result' = [result EXCEPT ![t] = NoResult]
  /\ UNCHANGED <<settingVars, request, answer, text>>

\* The head of the server's answer arrives.
Answer(t) ==
  /\ pc[t] = "performing"
  /\ answer[t] = NoAnswer
  /\ \E s \in Statuses :
       answer' = [answer EXCEPT ![t] = [answered |-> TRUE, status |-> s, left |-> Chunks]]
  /\ UNCHANGED <<settingVars, handle, pc, request, list, text, result>>

\* mutant: a chunk is appended twice
writeCallbackTwice(t) ==
  /\ answer[t] # NoAnswer
  /\ answer[t].left > 0
  /\ answer' = [answer EXCEPT ![t].left = @ - 1]
  /\ text' = [text EXCEPT ![t] = @ + 2]
  /\ UNCHANGED <<settingVars, handle, pc, request, list, result>>

\* A chunk of its body arrives.
writeCallback(t) ==
  /\ answer[t] # NoAnswer
  /\ answer[t].left > 0
  /\ answer' = [answer EXCEPT ![t].left = @ - 1]
  /\ text' = [text EXCEPT ![t] = @ + 1]
  /\ UNCHANGED <<settingVars, handle, pc, request, list, result>>

\* How curl_easy_perform may end, and the status it then knows, 0 for none: with OK
\* after the whole body, with a redirection too many (none of its body is written) or with a
\* failure at any time.
Endings(t) ==
  {[code |-> c, status |-> IF answer[t] = NoAnswer THEN 0 ELSE answer[t].status] :
     c \in Codes \ {"TOO_MANY_REDIRECTS"}}
  \cup {[code |-> c, status |-> Redirect] :
          c \in {d \in Codes : d = "TOO_MANY_REDIRECTS" /\ answer[t] = NoAnswer}}
  \cup {[code |-> c, status |-> answer[t].status] :
          c \in {d \in {"OK"} : answer[t] # NoAnswer /\ answer[t].left = 0}}

\* mutant: the list is not freed
EndSendLeaks(t) ==
  /\ pc[t] = "performing"
  /\ pc' = [pc EXCEPT ![t] = "ready"]
  /\ \E ending \in Endings(t) :
       result' = [result EXCEPT ![t] =
         [returned |-> TRUE, status |-> Status(ending.status), text |-> text[t],
          error |-> fromCUrlError(ending.code)]]
  /\ answer' = [answer EXCEPT ![t] = NoAnswer]
  /\ UNCHANGED <<settingVars, handle, request, list, text>>

\* The rest of send(): a newline at the end of the text is cut, and the list freed;
\* the handle still points to it.
EndSend(t) ==
  /\ pc[t] = "performing"
  /\ pc' = [pc EXCEPT ![t] = "ready"]
  /\ \E ending \in Endings(t) :
       result' = [result EXCEPT ![t] =
         [returned |-> TRUE, status |-> Status(ending.status), text |-> text[t],
          error |-> fromCUrlError(ending.code)]]
  /\ list' = [list EXCEPT ![handle[request[t].handle_].httpHeader] = Freed]
  /\ answer' = [answer EXCEPT ![t] = NoAnswer]
  /\ text' = [text EXCEPT ![t] = 0]
  /\ UNCHANGED <<settingVars, handle, request>>

-----------------------------------------------------------------------------
Setter ==
  \/ \E host \in Hosts : setHost(host)
  \/ \E port \in Ports : setPort(port)
  \/ \E path \in Paths : setPath(path)
  \/ \E enabled \in BOOLEAN : setAuthentication(enabled)
  \/ \E user \in Users : setCredentials(user)
  \/ \E acknowledge \in BOOLEAN : setSSLErrorHandling(acknowledge)
  \/ \E ms \in Timeouts : setTimeout(ms)

Transfer(t) ==
  BeginSend(t) \/ Answer(t) \/ writeCallback(t) \/ EndSend(t) \/ SendBroken(t)

Next ==
  \/ Setter
  \/ \E t \in Threads :
       \/ createRequest(t) \/ DestroyRequest(t)
       \/ \E body \in Bodies : setBody(t, body)
       \/ \E name \in Names, value \in Values : setHeader(t, name, value)
       \/ Transfer(t)

Spec == Init /\ [][Next]_vars

-----------------------------------------------------------------------------
Clients ==
  [hostname_ : Hosts, port_ : Ports, path_ : Paths, authenticationEnabled_ : BOOLEAN,
   authentication_ : Users, sslErrorHandlingEnabled_ : BOOLEAN, timeout_ : Timeouts]

Options == [verify : BOOLEAN, timeout : Timeouts]

RequestSet ==
  [host : Hosts, port : {p \in Ports : p > 0} \cup {NoPort}, path : Paths,
   user : Users \cup {NoUser}, verify : BOOLEAN, timeout : Timeouts]

Headers == [Names -> Values \cup {Null}]

LiveHandles ==
  [alive : {TRUE}, to : RequestSet, body : Bodies \cup {Null}, httpHeader : Lists \cup {Null}]

LiveLists == [alive : {TRUE}, headers : Headers]

Requests == [created : {TRUE}, handle_ : Handles \cup {Null}, headers_ : Headers]

Answers == [answered : {TRUE}, status : Statuses, left : 0 .. Chunks]

Results ==
  [returned : {TRUE}, status : {Status(s) : s \in Statuses} \cup {Redirect, Unknown}, text : 0 .. Chunks,
   error : {fromCUrlError(c) : c \in Codes \cup {"OK"}} \cup {"InternalError"}]

TypeOK ==
  /\ client \in Clients
  /\ handle_ \in Options
  /\ handle \in [Handles -> {Freed} \cup LiveHandles]
  /\ list \in [Lists -> {Freed} \cup LiveLists]
  /\ pc \in [Threads -> {"idle", "ready", "performing"}]
  /\ request \in [Threads -> {NoRequest} \cup Requests]
  /\ answer \in [Threads -> {NoAnswer} \cup Answers]
  /\ text \in [Threads -> 0 .. Chunks]
  /\ result \in [Threads -> {NoResult} \cup Results]

\* the requests with a handle, and the threads that send one of them
WithHandle == {t \in Threads : request[t].created /\ request[t].handle_ # Null}
Sending    == {t \in Threads : pc[t] = "performing"}
HandleOf(t) == handle[request[t].handle_]
ListOf(t)   == HandleOf(t).httpHeader

\* Handles and lists live exactly as long as they are used, by one request and one
\* sending each, and what is sent is the list made of the headers set last: the
\* pointer an earlier sending left in the handle is never followed.
TransfersOwnWhatTheyUse ==
  /\ {h \in Handles : handle[h].alive} = {request[t].handle_ : t \in WithHandle}
  /\ \A t, u \in WithHandle : request[t].handle_ = request[u].handle_ => t = u
  /\ {l \in Lists : list[l].alive} = {ListOf(t) : t \in Sending}
  /\ \A t, u \in Sending : ListOf(t) = ListOf(u) => t = u
  /\ \A t \in Sending : list[ListOf(t)].headers = request[t].headers_

\* A request is made with the settings the getters return, though two of them are
\* copied from another handle, and keeps them whatever is set meanwhile:
\* HttpClient's promise.
Unreachable == [made |-> FALSE]
SettingsOf(t) ==
  IF ~request[t].created THEN NoRequest
  ELSE IF request[t].handle_ = Null THEN Unreachable ELSE HandleOf(t).to

\* What the getters return; credentials are for requests with authentication.
CurrentSettings ==
  [host |-> client.hostname_,
   port |-> IF client.port_ <= 0 THEN NoPort ELSE client.port_,
   path |-> client.path_,
   user |-> IF client.authenticationEnabled_ THEN client.authentication_ ELSE NoUser,
   verify |-> client.sslErrorHandlingEnabled_,
   timeout |-> client.timeout_]

RequestSettings == [t \in Threads |-> SettingsOf(t)]

Client == INSTANCE HttpClient WITH
  Calls <- Threads, Settings <- RequestSet, None <- NoRequest, Broken <- Unreachable,
  settings <- CurrentSettings, request <- RequestSettings

RequestsCopyTheSettings == Client!Spec

\* A result in Exchange's terms: what the server answered, maybe not all of it, or a
\* failure.  A redirection too many is reported by its status only.
Failed     == [status |-> -1, whole |-> FALSE]
Unanswered == [status |-> -2, whole |-> FALSE]
Outcome(r) ==
  IF r = NoResult THEN Unanswered
  ELSE IF r.error # "NoError" \/ r.status = Redirect THEN Failed
  ELSE [status |-> r.status, whole |-> r.text = Chunks]

Promised(a) == IF a = NoAnswer THEN Unanswered ELSE [status |-> Status(a.status), whole |-> TRUE]

AllSendings == [t \in Threads |-> pc[t] = "performing"]
AllPromised == [t \in Threads |-> Promised(answer[t])]
AllOutcomes == [t \in Threads |-> Outcome(result[t])]

Exchanges == INSTANCE Exchange WITH
  Senders <- Threads, Answers <- [status : {Status(s) : s \in Statuses}, whole : {TRUE}],
  Nothing <- Unanswered, Failure <- Failed,
  sending <- AllSendings, answer <- AllPromised, result <- AllOutcomes

\* What send() returns is the whole answer to this sending, or an error, whenever
\* the connection is lost and however often the handle was sent before.
SendIsAnExchange == Exchanges!Spec
=============================================================================
