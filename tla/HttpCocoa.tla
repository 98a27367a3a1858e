----------------------------- MODULE HttpCocoa ------------------------------
(***************************************************************************)
(* The Cocoa back-end: its settings, its requests, and send().             *)
(*                                                                         *)
(* CocoaHttp keeps every setting twice: in its own fields, which the       *)
(* getters return, and in an Objective-C object (impl_) that makes the     *)
(* requests.  Whether the certificate of a host is verified is kept a      *)
(* third time, for the whole process, by NSURLRequest.                     *)
(*                                                                         *)
(* send() starts a task of the request's NSURLSession and polls a flag.    *)
(* The task's completion handler runs on a thread of the NSURLSession: it  *)
(* stores the response, the error, the data and then the flag, in          *)
(* variables the polling thread reads with no lock or barrier.             *)
(***************************************************************************)
EXTENDS Integers, HttpStatus

CONSTANTS
  Threads,        \* the threads that make requests
  Hosts, Ports, Paths, Users, Timeouts,   \* the values of the settings
  Statuses,       \* the HTTP status codes servers answer
  Codes,          \* the codes of NSErrors
  Nil,            \* no response, no data or no error
  StoresInOrder   \* do the handler's stores become visible in their order?

ASSUME HttpCocoaAssumption ==
  /\ Ports \subseteq Int
  /\ Timeouts \subseteq Nat
  /\ Statuses \subseteq Int
  /\ Nil \notin Statuses
  /\ Nil \notin Codes
  /\ StoresInOrder \in BOOLEAN

VARIABLES
  wrapper,        \* the fields of CocoaHttp
  impl,           \* the ones of librtCocoaHttpPrivate
  sslAsked,       \* history: the SSLErrorHandling last asked for, if any was
  allowsAny,      \* NSURLRequest's allowsAnyHTTPSCertificate of each host
  overruled,      \* history: requests whose handling another one overruled
  pc,             \* where each thread is
  request,        \* its Request
  completion,     \* what NSURLSession passes to the completion handler
  stored,         \* which of the variables shared the handler has stored to
  block,          \* the variables shared: resp, err, data and reqProcessed
  result          \* what send() returned

settingVars == <<wrapper, impl, sslAsked>>
policyVars  == <<allowsAny, overruled>>
sendVars    == <<completion, stored, block, result>>
vars == <<settingVars, policyVars, pc, request, sendVars>>

NoRequest == [created |-> FALSE]
NoUser    == "nobody"     \* no Authorization header
NoPort    == -1           \* no port in the URL
NoResult  == [returned |-> FALSE]
Handlings == {"Aknowledge", "Ignore", "nothing"}
Fields    == {"resp", "err", "data"}
Empty     == [resp |-> Nil, err |-> Nil, data |-> Nil, reqProcessed |-> FALSE]
Whole     == "whole"      \* the data of a response, all of it

-----------------------------------------------------------------------------
\* The error of a failed task.  There is no default: a code that is not listed
\* leaves NoError.
Listed(code) ==
  CASE code \in {"FileDoesNotExist", "FileIsDirectory", "NoPermissionsToReadFile",
                 "CannotCreateFile", "CannotOpenFile", "CannotCloseFile",
                 "CannotWriteToFile", "CannotRemoveFile", "CannotMoveFile",
                 "DownloadDecodingFailedMidStream", "DownloadDecodingFailedToComplete",
                 "AppTransportSecurityRequiresSecureConnection",
                 "BackgroundSessionInUseByAnotherProcess",
                 "BackgroundSessionRequiresSharedContainer",
                 "BackgroundSessionWasDisconnected", "Unknown"} -> "UnknownError"
    [] code \in {"Cancelled", "DataLengthExceedsMaximum"} -> "NetworkSendFailure"
    [] code \in {"BadURL", "ResourceUnavailable"} -> "InvalidURL"
    [] code = "TimedOut" -> "OperationTimedOut"
    [] code = "UnsupportedURL" -> "UnsupportedProtocol"
    [] code \in {"CannotFindHost", "DNSLookupFailed"} -> "HostResolutionFailure"
    [] code \in {"CannotConnectToHost", "NotConnectedToInternet",
                 "RedirectToNonExistentLocation", "InternationalRoamingOff",
                 "CallIsActive", "DataNotAllowed", "CannotLoadFromNetwork"}
         -> "ConnectionFailure"
    [] code = "NetworkConnectionLost" -> "ConnectionClosed"
    [] code \in {"HTTPTooManyRedirects", "UserCancelledAuthentication",
                 "UserAuthenticationRequired", "RequestBodyStreamExhausted"}
         -> "InternalError"
    [] code \in {"BadServerResponse", "ZeroByteResource", "CannotDecodeRawData",
                 "CannotDecodeContentData", "CannotParseResponse"} -> "ResponseInvalid"
    [] code = "SecureConnectionFailed" -> "SSLConnectError"
    [] code \in {"ServerCertificateHasBadDate", "ServerCertificateUntrusted",
                 "ServerCertificateHasUnknownRoot", "ServerCertificateNotYetValid",
                 "ClientCertificateRejected"} -> "SSLRemoteCertificateError"
    [] code = "ClientCertificateRequired" -> "SSLLocalCertificateError"
    [] OTHER -> "NoError"

fromNSURLError(err) == IF err = Nil THEN "NoError" ELSE Listed(err)

\* A task ends with a response and all its data, or with an error, maybe after the
\* head of a response.
Answered == [resp : Statuses, err : {Nil}, data : {Whole}]
Broken   == [resp : Statuses \cup {Nil}, err : Codes, data : {Nil}]
Running  == [running |-> TRUE]
NoTask   == [running |-> FALSE]
Completions == Answered \cup Broken

-----------------------------------------------------------------------------
\* A CocoaHttp as SessionPrivate constructs it: impl_'s fields are zero until they
\* are set, and nothing sets handleSSLErrors_.
Init ==
  /\ \E host \in Hosts, port \in Ports, path \in Paths, user \in Users, ms \in Timeouts,
        required \in BOOLEAN :
       /\ wrapper = [hostname_ |-> host, port_ |-> port, path_ |-> path,
                     authenticationEnabled_ |-> required, authentication_ |-> user,
                     timeout_ |-> ms, sslErrorHandlingEnabled_ |-> TRUE]
       /\ impl = [hostname_ |-> host, port_ |-> port, path_ |-> path,
                  authenticationEnabled_ |-> required, authentication_ |-> user,
                  timeout_ |-> ms, handleSSLErrors_ |-> FALSE]
  /\ sslAsked = "nothing"
  /\ allowsAny = [h \in Hosts |-> FALSE]
  /\ overruled = {}
  /\ pc = [t \in Threads |-> "idle"]
  /\ request = [t \in Threads |-> NoRequest]
  /\ completion = [t \in Threads |-> NoTask]
  /\ stored = [t \in Threads |-> {}]
  /\ block = [t \in Threads |-> Empty]
  /\ result = [t \in Threads |-> NoResult]

setHost(host) ==
  /\ wrapper' = [wrapper EXCEPT !.hostname_ = host]
  /\ impl' = [impl EXCEPT !.hostname_ = host]
  /\ UNCHANGED <<sslAsked, policyVars, pc, request, sendVars>>

setPort(port) ==
  /\ wrapper' = [wrapper EXCEPT !.port_ = port]
  /\ impl' = [impl EXCEPT !.port_ = port]
  /\ UNCHANGED <<sslAsked, policyVars, pc, request, sendVars>>

setPath(path) ==
  /\ wrapper' = [wrapper EXCEPT !.path_ = path]
  /\ impl' = [impl EXCEPT !.path_ = path]
  /\ UNCHANGED <<sslAsked, policyVars, pc, request, sendVars>>

\* enableAuthentication and disableAuthentication
setAuthentication(enabled) ==
  /\ wrapper' = [wrapper EXCEPT !.authenticationEnabled_ = enabled]
  /\ impl' = [impl EXCEPT !.authenticationEnabled_ = enabled]
  /\ UNCHANGED <<sslAsked, policyVars, pc, request, sendVars>>

\* mutant: impl_ is told the credentials only
setCredentialsOnly(user) ==
  /\ wrapper' = [wrapper EXCEPT !.authenticationEnabled_ = TRUE, !.authentication_ = user]
  /\ impl' = [impl EXCEPT !.authentication_ = user]
  /\ UNCHANGED <<sslAsked, policyVars, pc, request, sendVars>>

\* setUsername and setPassword
setCredentials(user) ==
  /\ wrapper' = [wrapper EXCEPT !.authenticationEnabled_ = TRUE, !.authentication_ = user]
  /\ impl' = [impl EXCEPT !.authenticationEnabled_ = TRUE, !.authentication_ = user]
  /\ UNCHANGED <<sslAsked, policyVars, pc, request, sendVars>>

setSSLErrorHandling(acknowledge) ==
  /\ wrapper' = [wrapper EXCEPT !.sslErrorHandlingEnabled_ = acknowledge]
  /\ impl' = [impl EXCEPT !.handleSSLErrors_ = acknowledge]
  /\ sslAsked' = IF acknowledge THEN "Aknowledge" ELSE "Ignore"
  /\ UNCHANGED <<policyVars, pc, request, sendVars>>

setTimeout(ms) ==
  /\ wrapper' = [wrapper EXCEPT !.timeout_ = ms]
  /\ impl' = [impl EXCEPT !.timeout_ = ms]
  /\ UNCHANGED <<sslAsked, policyVars, pc, request, sendVars>>

-----------------------------------------------------------------------------
\* Where and how a request is made.  The URL has no port unless one is set; the
\* number of milliseconds is passed as a number of seconds; timeoutInterval is in
\* milliseconds.
RequestOf(settings) ==
  [host |-> settings.hostname_,
   port |-> IF settings.port_ > -1 THEN settings.port_ ELSE NoPort,
   path |-> settings.path_,
   user |-> IF settings.authenticationEnabled_ THEN settings.authentication_ ELSE NoUser,
   timeoutInterval |-> 1000 * settings.timeout_]

\* the other requests to a host
OthersTo(host, t) == {u \in Threads \ {t} : request[u].created /\ request[u].to.host = host}

\* mutant: the handling is set when it is off, and left when it is on
createRequestLeaves(t) ==
  /\ pc[t] = "idle"
  /\ pc' = [pc EXCEPT ![t] = "ready"]
  /\ request' = [request EXCEPT ![t] =
                   [created |-> TRUE, to |-> RequestOf(impl), asked |-> sslAsked]]
  /\ allowsAny' = [allowsAny EXCEPT ![impl.hostname_] = @ \/ ~impl.handleSSLErrors_]
  /\ overruled' = (overruled \ {t})
                    \cup {u \in OthersTo(impl.hostname_, t) : request[u].asked # sslAsked}
  /\ UNCHANGED <<settingVars, sendVars>>

\* createRequest, and the constructor of Request
createRequest(t) ==
  /\ pc[t] = "idle"
  /\ pc' = [pc EXCEPT ![t] = "ready"]
  /\ request' = [request EXCEPT ![t] =
                   [created |-> TRUE, to |-> RequestOf(impl), asked |-> sslAsked]]
  /\ allowsAny' = [allowsAny EXCEPT ![impl.hostname_] = ~impl.handleSSLErrors_]
  /\ overruled' = (overruled \ {t})
                    \cup {u \in OthersTo(impl.hostname_, t) : request[u].asked # sslAsked}
  /\ UNCHANGED <<settingVars, sendVars>>

\* createRequest of another CocoaHttp in the process
createRequestElsewhere(host, handleSSLErrors) ==
  /\ allowsAny' = [allowsAny EXCEPT ![host] = ~handleSSLErrors]
  /\ overruled' = overruled \cup {t \in Threads : request[t].created /\ request[t].to.host = host}
  /\ UNCHANGED <<settingVars, pc, request, sendVars>>

\* ~Request
DestroyRequest(t) ==
  /\ pc[t] = "ready"
  /\ pc' = [pc EXCEPT ![t] = "idle"]
  /\ request' = [request EXCEPT ![t] = NoRequest]
  /\ overruled' = overruled \ {t}
  /\ result' = [result EXCEPT ![t] = NoResult]
  /\ UNCHANGED <<settingVars, allowsAny, completion, stored, block>>

\* send() declares the variables it shares with the handler and starts the task.
BeginSend(t) ==
  /\ pc[t] = "ready"
  /\ pc' = [pc EXCEPT ![t] = "polling"]
  /\ completion' = [completion EXCEPT ![t] = Running]
  /\ result' = [result EXCEPT ![t] = NoResult]
  /\ UNCHANGED <<settingVars, policyVars, request, stored, block>>

\* NSURLSession: the task ends, and its completion handler is called.
CompleteTask(t) ==
  /\ completion[t] = Running
  /\ \E c \in Completions : completion' = [completion EXCEPT ![t] = c]
  /\ UNCHANGED <<settingVars, policyVars, pc, request, stored, block, result>>

\* The handler stores one of its arguments.
Store(t, field, before) ==
  /\ completion[t] \in Completions
  /\ field \notin stored[t]
  /\ StoresInOrder => before \subseteq stored[t]
  /\ stored' = [stored EXCEPT ![t] = @ \cup {field}]
  /\ UNCHANGED <<settingVars, policyVars, pc, request, completion, result>>

StoreResponse(t) ==
  /\ Store(t, "resp", {})
  /\ block' = [block EXCEPT ![t].resp = completion[t].resp]

StoreError(t) ==
  /\ Store(t, "err", {"resp"})
  /\ block' = [block EXCEPT ![t].err = completion[t].err]

\* mutant: the data are not waited for
StoreFlagEarly(t) ==
  /\ Store(t, "reqProcessed", {"resp", "err"})
  /\ block' = [block EXCEPT ![t].reqProcessed = TRUE]

StoreData(t) ==
  /\ Store(t, "data", {"resp", "err"})
  /\ block' = [block EXCEPT ![t].data = completion[t].data]

StoreFlag(t) ==
  /\ Store(t, "reqProcessed", Fields)
  /\ block' = [block EXCEPT ![t].reqProcessed = TRUE]

\* mutant: the number of no response is returned as it is
ResultOfRaw(shared) ==
  [returned |-> TRUE,
   status |-> IF shared.resp = Nil THEN 0 ELSE Status(shared.resp),
   text |-> shared.data,
   error |-> fromNSURLError(shared.err),
   unlisted |-> shared.err # Nil /\ Listed(shared.err) = "NoError"]

\* What send() makes of the variables it shared with the handler; the number of no
\* response is 0.  The last field is history: was there an error the table misses?
ResultOf(shared) ==
  [returned |-> TRUE,
   status |-> Status(IF shared.resp = Nil THEN 0 ELSE shared.resp),
   text |-> shared.data,
   error |-> fromNSURLError(shared.err),
   unlisted |-> shared.err # Nil /\ Listed(shared.err) = "NoError"]

\* mutant: only a response is waited for
EndSendResponse(t) ==
  /\ pc[t] = "polling"
  /\ block[t].reqProcessed
  /\ block[t].resp # Nil
  /\ pc' = [pc EXCEPT ![t] = "ready"]
  /\ result' = [result EXCEPT ![t] = ResultOf(block[t])]
  /\ completion' = [completion EXCEPT ![t] = NoTask]
  /\ stored' = [stored EXCEPT ![t] = {}]
  /\ block' = [block EXCEPT ![t] = Empty]
  /\ UNCHANGED <<settingVars, policyVars, request>>

\* The flag is seen, and send() returns: the variables it shared are gone, or the
\* handler's only.
EndSend(t) ==
  /\ pc[t] = "polling"
  /\ block[t].reqProcessed
  /\ pc' = [pc EXCEPT ![t] = "ready"]
  /\ result' = [result EXCEPT ![t] = ResultOf(block[t])]
  /\ completion' = [completion EXCEPT ![t] = NoTask]
  /\ stored' = [stored EXCEPT ![t] = {}]
  /\ block' = [block EXCEPT ![t] = Empty]
  /\ UNCHANGED <<settingVars, policyVars, request>>

-----------------------------------------------------------------------------
Setter ==
  \/ \E host \in Hosts : setHost(host)
  \/ \E port \in Ports : setPort(port)
  \/ \E path \in Paths : setPath(path)
  \/ \E enabled \in BOOLEAN : setAuthentication(enabled)
  \/ \E user \in Users : setCredentials(user)
  \/ \E acknowledge \in BOOLEAN : setSSLErrorHandling(acknowledge)
  \/ \E ms \in Timeouts : setTimeout(ms)

Handler(t) == StoreResponse(t) \/ StoreError(t) \/ StoreData(t) \/ StoreFlag(t)

Next ==
  \/ Setter
  \/ \E host \in Hosts, handle \in BOOLEAN : createRequestElsewhere(host, handle)
  \/ \E t \in Threads :
       \/ createRequest(t) \/ DestroyRequest(t)
       \/ BeginSend(t) \/ EndSend(t)
       \/ CompleteTask(t) \/ Handler(t)

Spec == Init /\ [][Next]_vars

\* A task ends, if only by its timeout; NSURLSession then calls the handler, its
\* thread and the one that polls are scheduled.
Fairness == \A t \in Threads : WF_vars(CompleteTask(t) \/ Handler(t) \/ EndSend(t))

FairSpec == Spec /\ Fairness

-----------------------------------------------------------------------------
Wrappers ==
  [hostname_ : Hosts, port_ : Ports, path_ : Paths, authenticationEnabled_ : BOOLEAN,
   authentication_ : Users, timeout_ : Timeouts, sslErrorHandlingEnabled_ : BOOLEAN]

Impls ==
  [hostname_ : Hosts, port_ : Ports, path_ : Paths, authenticationEnabled_ : BOOLEAN,
   authentication_ : Users, timeout_ : Timeouts, handleSSLErrors_ : BOOLEAN]

RequestSet ==
  [host : Hosts, port : Ports \cup {NoPort}, path : Paths, user : Users \cup {NoUser},
   timeoutInterval : {1000 * ms : ms \in Timeouts}]

Requests == [created : {TRUE}, to : RequestSet, asked : Handlings]

Blocks ==
  [resp : Statuses \cup {Nil}, err : Codes \cup {Nil}, data : {Whole, Nil},
   reqProcessed : BOOLEAN]

Results ==
  [returned : {TRUE}, status : {Status(s) : s \in Statuses} \cup {Unknown}, text : {Whole, Nil},
   error : {fromNSURLError(c) : c \in Codes \cup {Nil}}, unlisted : BOOLEAN]

TypeOK ==
  /\ wrapper \in Wrappers
  /\ impl \in Impls
  /\ sslAsked \in Handlings
  /\ allowsAny \in [Hosts -> BOOLEAN]
  /\ overruled \in SUBSET Threads
  /\ pc \in [Threads -> {"idle", "ready", "polling"}]
  /\ request \in [Threads -> {NoRequest} \cup Requests]
  /\ completion \in [Threads -> {NoTask, Running} \cup Completions]
  /\ stored \in [Threads -> SUBSET (Fields \cup {"reqProcessed"})]
  /\ block \in [Threads -> Blocks]
  /\ result \in [Threads -> {NoResult} \cup Results]

\* The handling of certificates a request is sent with is the one its client was
\* last told, unless a request of a client that was told another one, or nothing, was
\* created for the same host meanwhile: the setting is the process's.
CertificatesAreHandledAsAsked ==
  \A t \in Threads \ overruled :
    request[t].created /\ request[t].asked # "nothing" =>
      allowsAny[request[t].to.host] = (request[t].asked = "Ignore")

\* A request is made with the host, port, path and credentials the getters return,
\* though it is made from copies of them, and keeps them whatever is set meanwhile:
\* HttpClient's promise.  It does not hold of the timeout: the getter returns
\* milliseconds, and the request is made with a thousand times as many.
Unreachable == [made |-> FALSE]
SettingsOf(t) ==
  IF ~request[t].created THEN NoRequest
  ELSE [host |-> request[t].to.host, port |-> request[t].to.port,
        path |-> request[t].to.path, user |-> request[t].to.user]

\* What the getters return; a negative port stands for none, and credentials are for
\* requests with authentication.
CurrentSettings ==
  [host |-> wrapper.hostname_,
   port |-> IF wrapper.port_ < 0 THEN NoPort ELSE wrapper.port_,
   path |-> wrapper.path_,
   user |-> IF wrapper.authenticationEnabled_ THEN wrapper.authentication_ ELSE NoUser]

RequestSettings == [t \in Threads |-> SettingsOf(t)]
SettingSet ==
  [host : Hosts, port : Ports \cup {NoPort}, path : Paths, user : Users \cup {NoUser}]

Client == INSTANCE HttpClient WITH
  Calls <- Threads, Settings <- SettingSet, None <- NoRequest, Broken <- Unreachable,
  settings <- CurrentSettings, request <- RequestSettings

RequestsCopyTheSettings == Client!Spec

\* A result in Exchange's terms: what the server answered, maybe not all of it, or a
\* failure.  The exception is an error the table does not list: it is returned as
\* NoError, with the status of the response, Unknown without one, and no text.
Failed     == [status |-> -1, whole |-> FALSE]
Unanswered == [status |-> -2, whole |-> FALSE]
Outcome(r) ==
  IF r = NoResult THEN Unanswered
  ELSE IF r.error # "NoError" \/ r.unlisted THEN Failed
  ELSE [status |-> r.status, whole |-> r.text = Whole]

Promised(c) ==
  IF c \in Answered THEN [status |-> Status(c.resp), whole |-> TRUE] ELSE Unanswered

AllSendings == [t \in Threads |-> pc[t] = "polling"]
AllPromised == [t \in Threads |-> Promised(completion[t])]
AllOutcomes == [t \in Threads |-> Outcome(result[t])]

Exchanges == INSTANCE Exchange WITH
  Senders <- Threads, Answers <- [status : {Status(s) : s \in Statuses}, whole : {TRUE}],
  Nothing <- Unanswered, Failure <- Failed,
  sending <- AllSendings, answer <- AllPromised, result <- AllOutcomes

\* What send() returns is the whole answer to this sending or an error, however the
\* handler's stores and the polling interleave, if they are seen in their order.
SendIsAnExchange == Exchanges!Spec

\* send() returns: the flag it polls is set after every task.
EverySendEnds == \A t \in Threads : pc[t] = "polling" ~> pc[t] = "ready"

-----------------------------------------------------------------------------
(***************************************************************************)
(* What the documentation says and the code does not do.                   *)
(***************************************************************************)

\* A client that was told nothing acknowledges the errors of certificates, as its
\* documentation (and its field sslErrorHandlingEnabled_) says.  The code allows any
\* certificate: nothing sets handleSSLErrors_ before setSSLErrorHandling does.
ErrorsAreAcknowledgedByDefault ==
  \A t \in Threads \ overruled :
    request[t].created /\ request[t].asked = "nothing" => ~allowsAny[request[t].to.host]
=============================================================================
