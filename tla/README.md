# libGearBox in TLA+

libGearBox is a C++ client library for Transmission: a `Session` holds the address and the
settings of a server, makes JSON-RPC requests over HTTP, and hands out `Torrent` objects that make
more requests through the session. All operations are synchronous; what makes them hard is that
most are documented as thread-safe and that they share a session id, a connection, a weak pointer
and the data of the torrents.

The modules here model that code, TLC checks them on small instances, and TLAPS proves what
matters most for every instance. Line numbers are those of the files under `src/`;
`PROJECT.json` has the lines of every definition (`map`), the hazards and the findings.

    tlc -workers 2 -config SendRequestSafety.cfg MCSendRequest
    tlapm SendRequestProofs.tla

## 1. Inventory

### Request loop: `SessionPrivate::sendRequest` (libgearbox_session.cpp 140-217)

- State: `sessionId_`, a string shared by all threads without a lock; per call, the request made
  by `createRequest`, the number of attempts, the response.
- Operations: copy the settings into a request; up to `RETRY_COUNT` times copy `sessionId_` into
  its header and send it; on 409 store the id the server wants and go round again; on anything
  else return an error and maybe a reply.
- Interactions: called by every remote operation of `Session` and `Torrent`; calls the HTTP
  back-end; the server decides about the id.
- Hard: overlapping accesses to the id, ids of several servers in one variable, a last attempt
  that is a conflict, a timeout while the server goes on, 409 answers without the header.
- Correct if: a call is carried out at most once, what it returns says whether it was, a retry is
  only sent when the server turned the last attempt down, a retry carries an id that works, and
  every call returns.

### Session and Torrent (libgearbox_session.cpp, libgearbox_torrent.cpp)

- State: a `Session` owns the `SessionPrivate`; a `Torrent` owns `priv_`, the data last received
  for it, with a weak pointer to the `SessionPrivate`. `priv_` may be null.
- Operations: `torrents`, `recentlyRemoved`, `statistics`, `updateTorrentStats`, setters, and the
  destructor of `Session`; 15 or so commands of `Torrent`, `remove`, `update`, `content`, `files`.
- Interactions: an operation of a `Torrent` holds the `SessionPrivate` while its request runs;
  `updateTorrentStats` writes the `priv_` of many Torrents.
- Hard: `priv_` replaced or removed between its check and its use; replies applied in another
  order than the server made them; the Session destroyed meanwhile; the same torrent listed twice.
- Correct if: a Torrent stays the torrent it is, its data do not go back in time, the errors
  `SessionInvalid` and `TorrentInvalid` are true, and no null pointer is dereferenced.

### HTTP back-ends (libgearbox_http_{linux,win,macos,uwp}.cpp)

- State: host, port, path, credentials, timeout, SSL error handling. libcurl has a handle of its own
  with options, a copy of it per request, and a list of headers per sending. WinINet caches a session
  handle, shared by the requests and dropped by setters. Cocoa keeps every setting twice, in the C++
  object and in the Objective-C object that makes the requests, and the policy for certificates a
  third time, in the process, where all clients share it.
- Operations: the setters, `createRequest`, `Request::send`, the table of errors of each back-end,
  and the parsing of status and headers.
- Interactions: `createRequest` and `send` run on the callers' threads; libcurl calls back for each
  header line and each chunk of a body; on Cocoa a completion handler runs on a thread of the
  NSURLSession while `send` polls a flag; the requests on WinINet refer to the path of the session.
- Hard: which settings a request has when they change meanwhile; two threads that connect at once;
  who closes a handle and frees a list the handle still points to; stores another thread reads
  without a lock; bodies that break off; index arithmetic over a buffer of C strings; headers of
  redirects.
- Correct if: a request goes where the settings of its creation say, handles and lists live exactly
  as long as they are owned, what `send` returns without an error is the whole answer to this
  sending, and the headers found are those of the response.

### Folder, File (libgearbox_folder.cpp, libgearbox_file.cpp, `Torrent::content`)

- State: a tree built once from the list of files of the server's reply.
- Operations: `addPath` per file, with `rsplit`, `find` and `insert`; getters; MIME types.
- Hard: unsigned loops that count down, paths without a folder, equal paths, lists of different
  lengths, exceptions half way.
- Correct if: each file is found at its path under its own index, and the loops end.

### The rest

Errors and return types, the helpers, the logger, the table of MIME types, tests with a server in
Python, build files, and the JSON and formatting submodules. They are listed under `components`
with what is used of them, or why nothing is.

## 2. Modules

| module | models | state and actions against the code |
|---|---|---|
| `RpcContract` | what a caller may rely on for one call | abstract: `Start`, `Apply` (the server carries the method out), `Return` |
| `SendRequest` | the request loop, on several threads | an action per step of the loop; `BeginRead`/`Send` and `BeginWrite`/`EndWrite` are the two ends of an access to `sessionId_`; `Return*` are its four ways out; `Server*` and `Expire` are the server |
| `Torrents` | Session and Torrents | `Begin*` (check of `priv_`, building of the request), `LockSession`, `SessionGone`, `LockCrashes` (the weak pointer), `Returned`, `Apply*` (use of the reply; the loop of `updateTorrentStats` goes over the list place by place, because a place may find its entry moved out by an earlier one), `DestroySession`; `sendRequest` itself is an instance of `RpcContract` |
| `HttpClient` | what the back-ends promise | abstract: settings are stored, and copied into a request when it is created |
| `Exchange` | what `send` promises | abstract: `Begin`, `Answer` (the server answers), `End` (the whole answer, or a failure), `Refuse`, `Forget` |
| `HttpCurl` | settings, requests and `send` of libcurl | one action per setter; `createRequest` copies the handle, `setBody`, `setHeaders`, `DestroyRequest`; `BeginSend` builds the list, `Answer` is the server, `writeCallback` takes a chunk, `EndSend` frees the list and translates the code; handles and lists are objects that are alive or freed |
| `HttpCocoa` | settings, requests and `send` of Cocoa | one action per setter, with both copies; `createRequest`, and that of other clients in the process; `BeginSend`, `CompleteTask` (NSURLSession), a step for each of the handler's four stores, `EndSend` when the flag is seen |
| `HttpStatus` | the constructor of `http::Status`, for `HttpCurl` and `HttpCocoa` | `Status(code)`: a code its switch lists, or `Unknown` (999), also for 0 |
| `HttpWin` | settings and cached session of WinINet | one action per setter; `createRequest` in five steps (read of `session_`, `InternetConnectA`, `reset`, the options, the Request); `DestroyRequest` |
| `FolderTree` | `Torrent::content` | a step per iteration of a loop; `rsplit` is a function |
| `ResponseHeaders` | `headerCallback`; `send` and `parseHeaders` of WinINet | a step per line, or per iteration with the code's index arithmetic; `HttpOpenRequest`, `Proceed`, `Fail`, `ReadFile`, `EndOfBody`, `ReadFails` are the calls of WinINet's `send` |
| `SendRequestProofs`, `TorrentsProofs`, `HttpWinProofs`, `HttpCurlProofs`, `HttpCocoaProofs`, `FolderTreeProofs`, `ResponseHeadersProofs` | | theorems about the modules they are named after |
| `Induction` | | induction over numbers, and functions defined by recursion, as theorems to cite |
| `MC*` | | instances for TLC |

How they compose: `Torrents` contains an instance of `RpcContract` for the calls its operations
make, instead of the whole loop; that this is enough is what `SendRequest`'s property
`ContractHolds` says, checked by a run and proved. `HttpWin`, `HttpCurl` and `HttpCocoa` all
implement `HttpClient` (`RequestsCopyTheSettings`); `SendRequest` relies on it where `CreateRequest`
copies the whole configuration. There are two exceptions. On WinINet requests refer to the path
(`PathByReference`, which `send_safety` has FALSE and `send_win_path` TRUE). On Cocoa the timeout is
not the one that was set; what `HttpCocoa` promises is the host, the port, the path and the
credentials, and its policy for certificates is a property of its own.

`HttpCurl` and `HttpCocoa` implement `Exchange` too (`SendIsAnExchange`), which is what `SendRequest`
takes `send` for: an answer the server gave to this sending, or an error.
WinINet's `send` does not: a body that breaks off is returned without an error (`WinReadsTheBody`
states what it does promise). `ResponseHeaders` and the server's part of `SendRequest` meet at the
header with the session id: what a back-end does not find is a 409 without it (`BareConflicts`).

Definitions preceded by a comment that begins with "mutant" are altered forms of the definition
that follows. No run uses them; each shows, put in its place, that a property can fail.

### Abstractions

- Session ids are pairs of a server and a number; `Torn` is what a data race on the string leaves.
  A race is otherwise taken to have no effect, though in C++ it has no defined one.
- A status of HTTP is `success`, `failure` (200 with a result other than "success"), `conflict`
  or `status`; errors are classes of codes.
- The data of a torrent are its id, a version that counts the server's changes, and whether its
  strings are still there. All commands of a `Torrent` are one action: they differ in the method
  and the arguments. A command may reach the server and change something or nothing.
- In `HttpWin` a session is closed when nothing owns its `shared_ptr` any more. Setters run while
  requests exist but not while one is created: the documentation of `Session` (lines 47-54)
  excludes setters from what may be called from several threads.
- A body is a number of chunks in `HttpCurl`, whole or absent in `HttpCocoa`, whose handler gets it at
  once, and a sequence of characters in `ResponseHeaders`, because WinINet's ends at a NUL.
- The status of a result is `Status` of the number the back-end found: `Unknown` when there is no
  response (0) or the code is none of those listed; 302 on libcurl after a redirection too many, and
  `Unknown` for a request without a handle. Codes of errors are members of the back-ends' own
  tables, all of which are written out.
- libcurl's VERIFYPEER and VERIFYHOST are one flag, since the code sets both together. What a
  version of libcurl makes of VERIFYHOST 1 (some refuse it) is external.
- `SendRequest` takes a status other than 200 and 409 to mean that the server turned the call down.
  A proxy's 502 or 504 need not mean that; proxies are not modelled.
- In `HttpCocoa` a store of the handler is a step. With `StoresInOrder` (x86) the polling thread sees
  them in the order of the code; without it, as on processors that reorder stores, in any order.
- History variables are marked as such where they are declared: `sslAsked` (the policy last asked for,
  or that none was), `overruled` and `unlisted` in `HttpCocoa`, `body` and `ending` in
  `ResponseHeaders`, and a few more. No guard reads them, but for the bound on the length of `body`.
- In `FolderTree` and `ResponseHeaders` text is a sequence of characters from a small alphabet,
  because where a separator is decides everything there.

## 3. Runs

`V` marks the runs that show the code to differ from what a document or comment says of it.

| run | question | bounds |
|---|---|---|
| `send_safety` | are outcomes true, requests single, retries useful, whatever the threads and servers do? does the loop implement `RpcContract`, and does every call return? | 2 calls, 2 servers, 3 attempts, 2 ids per server |
| `send_ping_pong` V | does Ok mean answered? | 2 calls, 2 servers, 5 attempts, nothing expires |
| `send_race` V | is `sessionId_` free of races? | 2 calls |
| `send_win_path` V | does a request go where the session pointed when it was created? | 2 calls, 1 server, 2 paths, 5 attempts |
| `torrents_safety` | do Torrents stay what they are, and errors true? | 3 operations, 2 Torrents, lists of two of them, maybe one twice, 2 ids, 1 change of each |
| `torrents_shared` V | may two operations share a Torrent? | 3 operations, 2 Torrents, 1 id |
| `win_settings` | is the cached session current, owned and closed; do requests go where they were asked to, with the settings of their creation? | 2 threads, 3 handles, 2 hosts (https or not), 2 ports, 2 timeouts |
| `folder_tree` | is each file found where it is listed, and do the loops end? | lists of up to 3 of 11 paths |
| `response_headers` | are the headers and the status found, the body read, and the request closed whatever fails? | up to 3 of 8 headers, 4 reasons, a redirect or none; bodies of up to 3 characters, 2 at a time |
| `curl` | are handles and lists alive as long as they are used, settings copied, results whole? | 2 threads, 2 handles, 2 lists, a port or none, 2 values of a header, 2 chunks, 2 codes |
| `cocoa` | is each request sent with the policy for certificates it was asked to have, from copies that agree; is what the handler stored whole when it is read; does every send end? | 2 threads, 1 host, an error of the table and one it lacks |
| `cocoa_default` V | does a client that was told nothing acknowledge errors of certificates? | 1 thread, 1 host |

Why the bounds are enough:

- Two calls make every overlap of accesses to `sessionId_`, since an access overlaps another one or
  does not; three attempts have a first, a middle and a last one; two ids per server let an id
  expire under a call. Where the number of attempts is the question (`send_ping_pong`) it is the
  code's own 5. The proofs then drop all these bounds.
- Three operations on two Torrents: one that is disturbed, one that disturbs it, and one that fills
  the Torrents first. `updateTorrentStats` takes two Torrents, maybe the same twice. One change per
  torrent is enough for older data to be told from newer ones.
- Three handles serve two threads: the cache and each thread (or its request) have one.
- Three headers allow a repeated name and one after it; the alphabet of `ResponseHeaders` has every
  character the parsers look for, the values have the lengths at which they behave differently
  (none, one, more). The code of a status has three digits.
- Two threads of libcurl use at most two handles and two lists at a time; a request without a
  handle, because it could not be copied, is always possible too. Two values of a header tell a list
  from the one before it on the same handle. Two chunks break a body before, between and after them.
- Two threads of Cocoa to one host are all that can overrule each other, and other clients take part
  without a request of their own. The settings with one value (in `curl` host, path and
  timeout, in `cocoa` the port too) are copied by the same code as those with two (credentials on or
  off, certificates verified or not, and the port in `curl`); the proofs are about any number of values.
- A buffer of three is filled with two bytes and a NUL, so that a body of three takes two reads.
- Three files of eleven paths give all ways for two paths to share folders, be equal, have empty
  names, or have no folder.

Deadlock is not checked where the model ends: calls, operations and loops are finite. `HttpWin` and
`HttpCurl` go on for ever and are checked for it. In `HttpCocoa` a setter can always be called, so
that a check would show nothing; `EverySendEnds` says what it would be for.

### What the violations show

1. `send_ping_pong`: five conflicts in a row end `sendRequest` with the response it declared:
   no error, and no reply. Two calls to different servers bring each other there, because the
   session id is one variable for both, against the documentation that requests may be made in
   parallel with different settings. `updateTorrentStats` then takes the empty answer for the
   news that all torrents are gone.
2. `send_race`: methods documented as thread-safe read and assign one string without a lock.
3. `torrents_shared`: `updateTorrentStats` makes `priv_` null while `update`, or any other
   operation, is about to dereference it; both are documented as thread-safe.
4. `send_win_path`: on WinINet a request refers to the session's path, so that `setPath` between the
   creation of a request and one of its attempts changes where that attempt goes
   (http_win_p.h 111, http_win.cpp 571-574), against session.cpp 42-45, which says that it is copied.
5. `cocoa_default`: nothing sets `handleSSLErrors_` before `setSSLErrorHandling` does, and until then
   the certificates of the host are not verified (http_macos.cpp 390), although session.cpp 690-696
   documents `Acknowledge` as the default.

Others were met without a run of their own:

- The default timeout is documented as 0 ms and is 5000 ms (session.cpp 100).
- A port that is not given becomes 65535 on WinINet, against session.cpp 321-323: `SessionPrivate`
  sets the host, which detects the port, and then the port, -1 (117), which http_win.cpp 657 narrows.
  In `HttpWin` this is `WirePort(-1)`; `RequestsGoWhereAsked` is about ports that were given.
- `content()` throws for a torrent of a single file (folder.cpp 170), though torrent.cpp 899 promises
  the root folder: one of the two causes `EndsWellUnless` names.
- `updateTorrentStats` gives a torrent's strings to the first place of the list that asks for it only;
  a later one (a Torrent listed twice, or two of one id) is left without, although the call returns
  Ok. `HollowOnlyBehindAnEqual` says that this is the only way to lose them.
- WinINet: a host set without "https" keeps the TLS flags of the one before; the sense of
  `setSSLErrorHandling` is the one its test expects, which ignores errors when handling is on; its
  own timeout, 12002, is not in the table of errors and becomes `UnknownError`; the loop that fetches
  an extended error reads a length nobody has set (http_win.cpp 132-141).
- Cocoa: the timeout in milliseconds is passed as seconds (http_macos.cpp 386), against session.cpp
  680-681; `RequestOf` has it a thousand times as long, and `RequestsCopyTheSettings` is not claimed
  of it. A code of NSError the table lacks is returned as no error (243), with the status of the
  response or `Unknown`.
- libcurl: `CURLINFO_RESPONSE_CODE` stores a `long` in 32 bits (http_linux.cpp 361).

## 4. Fairness

- `SendRequest`: weak fairness of the steps of each call that was made. Threads are scheduled, and
  `send` ends by itself because the timeout is not 0 (`DEFAULT_TIMEOUT` is 5 s); with
  `setTimeout(0)` it would not, and `EveryCallReturns` says nothing then. Nothing is asked of the
  servers, nor that a call is made.
- `HttpCocoa`: weak fairness, for each thread, of the task's end, the handler's stores and the polling
  together. A task ends, by its timeout if by nothing else; NSURLSession then calls the handler; and
  both threads are scheduled. Nothing is asked of setters and requests.
- `FolderTree`: weak fairness of the one thread that builds the tree.
- All other specifications are about safety and have no fairness.

## 5. Proofs

`tlapm SendRequestProofs.tla`, and likewise with `TorrentsProofs`, `HttpWinProofs`, `HttpCurlProofs`,
`HttpCocoaProofs`, `FolderTreeProofs`, `ResponseHeadersProofs` and `Induction`, checks every proof,
each in a few minutes at most. The theorems hold for all values of the constants that satisfy the
assumption of the module, which TLC evaluates in the runs. Each module proves an inductive invariant
action by action; TLC checked it on the instances of the runs first. Every invariant and every
action property of the passing runs is stated by a theorem; `HttpCocoaExchanges` has one more
assumption, without which its property is false.

**SendRequestProofs** (from `ConstantsAssumption`: at least one attempt, at least one id per server).

| Theorem | Says | Rests on |
|---|---|---|
| `CallsInvariant`, `TypeCorrect` | `CallInv` and `TypeOK` hold | induction |
| `RequestsGoOneByOne` | `OneRequestAtATime` | `CallInv` |
| `OutcomesAreTruthful` | `OutcomeIsTruthful` | `CallInv` |
| `SettledCallsAreOver` | `OnlyTransportErrorsLinger` | `CallInv` |
| `RetriesWork` | `UndisturbedRetryIsAccepted` | `RetryInv`, inductive given `CallInv` |
| `SendRequestIsRpc` | `ContractHolds`: it implements `RpcContract` | `CallInv` |
| `CallsCountDown` | a call takes at most 4 `RetryCount` + 1 steps, whatever the others do | `LifeCycle` |

`OutcomeIsTruthful` is about what a call returned, but whether it is true was settled when the
server took the request. `CallInv` is what links the two: at which attempt the call is
(`LifeCycle`), what the server did with it (`Execution`), and that at most one request of it is
under way, which only outlives the call after a transport error (`InFlight`, `NoCopies`). `RetryInv`
follows the session id of a retry from the 409 to the second request, as long as neither the server
nor another thread interferes.

**TorrentsProofs** (from `TorrentsAssumption`: ids and versions are numbers, so that the -1 of a
Torrent without data is no torrent's id, and the lists `updateTorrentStats` is given, of any length,
are sequences of Torrents).

| Theorem | Says | Rests on |
|---|---|---|
| `OperationsInvariant`, `TypeCorrect` | `IInv` and `TypeOK` hold | induction |
| `GoneSessionsAreGone` | `SessionInvalidIsTruthful` | `Owners`, `Life` |
| `RemovedTorrentsAreGone` | `RemovedIsGone` | `Life`, `Carried` |
| `UpdatesKeepTorrents` | `UpdatesKeepTheTorrent` | `Targets`, `Fresh` |
| `UpdatesTellTheTruth` | `UpdatesAreTruthful` | `Carried`, `Replies` |
| `HollowTorrentsAreBehindAnEqual` | `HollowOnlyBehindAnEqual` | `Settled`, `Replies` |
| `OnlySharedTorrentsCrash` | `OnlySharingCrashes` | `Checked` |
| `DeadSessionsStayDead` | `SessionStaysDead` | `Owners`, `Life` |

The properties compare a Torrent when its operation ends with what it was when the operation began,
and other operations run meanwhile. The strengthening says what they may have done: two operations
that use one Torrent are both marked (`Sharing`), so that a Torrent of an unmarked operation is what
it was (`Checked`, `Fresh`), and even a shared one never becomes another torrent's (`Targets`, which
is why `updateTorrentStats` with overlapping lists is safe in this respect). `Replies` and `Carried`
follow the reply from the server's step to its use. The properties of steps are then proved for each
way an operation can end (`EndsBy`).

**HttpWinProofs** (from `HttpWinAssumption`: a port is -1, which stands for none, or in 0..65535; a
host has a name and is https or not; a null handle is no handle).

| Theorem | Says | Rests on |
|---|---|---|
| `HandlesInvariant`, `TypeCorrect` | `IInv` and `TypeOK` hold | induction |
| `CachedSessionsAreCurrent` | `CachedSessionIsCurrent` | `Unshared` |
| `SessionsAreOwned` | `SessionsLiveWhileOwned` | `Places`, `Live` |
| `RequestsAreRight` | `RequestsGoWhereAsked`: over TLS to an https host, to the port that was set | `AskedFor` |
| `TimeoutsAreSet` | `TimeoutsUnlessOverlapped` | `CachedTimeout` |
| `HttpWinIsAClient` | `RequestsCopyTheSettings`: it implements `HttpClient` | `IInv`, `Untouched` |

A session a thread has connected but not yet put into the cache is the hard case: several threads can
have one at once, and the last assignment wins. `Unshared` says that it is connected with the
settings of now and nobody else's, since setters run only while no request is created; `Live` that a
handle is open exactly while somebody has it. For the refinement every step must also leave alone
what a request of another thread was connected to (`Untouched`, proved together with the invariant).

**HttpCurlProofs** (from `HttpCurlAssumption`: a null handle, list, value or body is none; statuses and
ports are numbers, and no status is that of a redirection too many; a body has at least one chunk).

| Theorem | Says | Rests on |
|---|---|---|
| `Invariant`, `TypeCorrect` | `IInv` and `TypeOK` hold | induction |
| `TransfersOwn` | `TransfersOwnWhatTheyUse` | `HandlesOwned`, `ListsOwned` |
| `HttpCurlIsAClient` | `RequestsCopyTheSettings`: it implements `HttpClient` | `Mirror`, `Untouched` |
| `HttpCurlExchanges` | `SendIsAnExchange`: it implements `Exchange` | `Received`, `Life` |

A handle keeps a pointer to the list of its last sending, which has been freed; `ListsOwned` is about
the list of a sending under way only, and says that each one has its own. `Received` relates what
has been appended to what the server has left to send: the body is whole when nothing is left, which
`EndSend` requires of a transfer without an error.

**HttpCocoaProofs** (from `HttpCocoaAssumption`: no response and no error are told apart from any;
statuses, ports and timeouts are numbers).

| Theorem | Says | Rests on |
|---|---|---|
| `Invariant`, `TypeCorrect` | `IInv` and `TypeOK` hold | induction |
| `CertificatesAreHandled` | `CertificatesAreHandledAsAsked`, for clients that were told a policy | `Policies`, `Mirror` |
| `HttpCocoaIsAClient` | `RequestsCopyTheSettings`: it implements `HttpClient`, but for the timeout | `Mirror`, `Life` |
| `HttpCocoaExchanges` | `SendIsAnExchange`, if `StoresInOrder` | `Tasks` |
| `SendsEnd` | while `send` polls, somebody has something to do, at most six times, in any order of the stores | `Tasks` |

`Mirror` says that the two copies of the settings agree, except for the handling of certificates:
the copy acknowledges errors only if that was the last thing asked for, so that a client that was
told nothing ignores them. `Policies` says the same of the requests nobody overruled. `Tasks` says that the variables shared hold what
has been stored of this completion and nothing else, and which stores come before which: from the
flag follow the other three, if they are seen in order, and that is all `send` looks at. Nothing in
the code makes them so (there is no barrier), hence the assumption.

**Induction.** `rsplit`, `PathOf` and `Concat` are defined by recursive functions, and what they compute
takes an induction. The library's induction theorems are about an operator, `P(_)`, which no
installed prover can instantiate; `Induction` states the same about a set of numbers, which is an
ordinary value: `LeastOf` (from the library's well-foundedness of `<`) gives `Induct` and
`StrongInduct`, and `Recursion` says that a function given by a first value and a step exists. A
recursive definition is a CHOOSE of such a function; with `Recursion` it satisfies its equation. These
are facts about numbers and functions, for the modules below to cite; they say nothing of the code by
themselves.

**FolderTreeProofs** (from `FolderTreeAssumption`: the separator is no character of a name, a path is a
text, the length of a list is a number). Nothing bounds the paths, their depth or the list.

| Theorem | Says | Rests on |
|---|---|---|
| `RsplitJoined` | the names `rsplit` finds, joined again, are the path below the torrent's folder | `Induction` |
| `SameNames` | equal paths there have equal names | `Induction` |
| `Invariant`, `TypeCorrect` | `IInv` and `TypeOK` hold | induction |
| `FilesAdded` | `FilesAreWhereListed` | `EntriesAreListed`, `RsplitJoined` |
| `FoldersAdded` | `FoldersAreOnTheWay` | itself, with `NodeIsOnThePath` |
| `EndsForCause` | `EndsWellUnless` | itself, with `EntriesAreListed`, `RsplitJoined`, `SameNames` |
| `ContentCountsDown` | every step leaves fewer files, or less to do for this one | `TypeOK` |

`FilesAreWhereListed` is about the tree when a file has been added, while `addPath` goes down a folder
at a time, on an unsigned index from the end of the names. `NodeIsOnThePath` says how far it has
come: the node is made of the names above the index, so that at 0 it is the whole folder of the file.
`EntriesAreListed` says that files are added in the order of the list and no two with the same names.
For the crash on a second file the two lemmas are needed in both directions: `insert` compares names,
the property paths.

**ResponseHeadersProofs** (from `ResponseHeadersAssumption`: names, values and reasons are texts without
a NUL, names without a colon, and one space or none follows a colon; bounds are numbers).

| Theorem | Says | Rests on |
|---|---|---|
| `Invariant`, `TypeCorrect` | `IInv` and `TypeOK` hold | induction |
| `LastResponseKept` | `CurlKeepsTheLastResponse` | `CurlReads` |
| `HeadRead` | `WinReadsTheHead` | `WinStatus`, `WinHeaders` |
| `BodyRead` | `WinReadsTheBody` | `WinSends`, `SendTypes` |
| `LoopsEnd` | inside a loop over lines or the buffer the index grows, below a bound that stays | `LoopTypes`, `FoundIsText` |

The lemma `ConcatAt` says where each line is in the text of all lines, by `Induction`.
On libcurl `Latest(found, headers, k)` is what `headerCallback` must have found after k headers, and
`CurlReads` that it has, once the lines of the last response have begun; whatever it found before is
dropped at the status line. On WinINet the loops write NULs into the buffer they read, and skip by
the length of a value they have stored, not of the one they stand at. `WinStatus` says what the first
loop can have found and written, from any head: the code is at its place, or there is nothing behind
it. `WinHeaders` follows the second loop from header to header (`InHeader`): it stands in the name of
one, the buffer is untouched behind its first character, and the headers before it have been found.
That holds of the heads `WinReadsTheHead` is about (`Regular`); of others it need not, because there
the parser loses its place; `WinNames`, `WinBuffers` and `LoopTypes` hold of all. `Kept` says that the text is
no longer than the body, and is the body if that has no NUL.

A character is a string of TLA+. The proofs use the set `Char`, which is `STRING` and the characters
the code looks for, since the provers do not know that a literal is in `STRING`; it is the same set.

## 6. Model-checked only

- Liveness (`EveryCallReturns`, `ContentEnds`, `EverySendEnds`): fairness is defined by ENABLED, about
  which the prover cannot reason. `CallsCountDown`, `ContentCountsDown` and `SendsEnd` prove what is
  left without it: a number, or a pair of numbers, that every step of the one concerned lowers and
  nobody else's raises. That such a step is taken is the fairness of section 4.
- The violations of section 3: a counterexample is a run, not a theorem.
- That the values the runs give the constants satisfy the assumptions: TLC evaluates them.

## 7. Not modelled

- What a data race does beyond `Torn`, and torn shared pointers (`session_` of WinINet).
- A reply that is no JSON makes the parser throw: serialisation is external.
- libcurl sending a request again by itself on a reused connection; a connection is made per
  request here.
- The body and the headers of a Request on WinINet and Cocoa: one thread fills them, and each
  sending takes them as they are. (`HttpCurl` has them, because there they are objects to free.)
- Two threads that copy libcurl's handle at the same moment, a handle that cannot be made when the
  client is, and a list that cannot be lengthened. `text.back()` of an empty text has no defined
  result; in the library's strings it reads a byte next to them, and the text stays empty whatever it
  is. A last newline that is cut from a text is part of the JSON's layout and abstracted.
- WinINet's `HttpQueryInfoA` that succeeds with an empty head (the false branch at http_win.cpp 609):
  no error, the status `Unknown`, and no text.
- What NSURLRequest makes of a timeout of 0.
- Cocoa's stores in another order: `StoresInOrder` can be FALSE, and `SendIsAnExchange` is then
  false, but which processors and compilers reorder them is not in the code.
- Objects that were moved from, whose raw handles the move constructors leave in both; a Torrent
  given to another Session's `updateTorrentStats` (`Torrents` has one Session).
- The UWP stub (every function is empty), `File` and the MIME types (getters and a generated table),
  wording of errors, logging, build files.
- After the Session is destroyed, operations of a Torrent still succeed while another operation
  keeps the `SessionPrivate`; `SessionStaysDead` states what does hold.

## 8. Plan

Done, in this order: `RpcContract` and `SendRequest`, `Torrents`, `HttpClient` and `HttpWin`, each
with its proofs; `FolderTree`; `ResponseHeaders`; `Exchange` with `HttpCurl` and `HttpCocoa` and their
proofs; WinINet's `send` in `ResponseHeaders`; `Induction`, and the proofs of `FolderTree` and of
`ResponseHeaders`; `HttpStatus` in `HttpCurl` and `HttpCocoa`; lists of any length in
`updateTorrentStats`; WinINet's path by reference and Cocoa's default policy as runs.

Next, with the most important first:

1. Two Sessions in `Torrents`, so that a Torrent may be given to the wrong one (session.cpp 507).
2. `SendRequest` with `Exchange` as its `send`, in place of the steps that stand for it now.
3. The rest of `Session`: objects that were moved from.
