------------------------------ MODULE Torrents ------------------------------
(***************************************************************************)
(* The Session and the Torrent objects it hands out.                       *)
(*                                                                         *)
(* A Torrent owns the data last received for it (priv_) and a weak pointer *)
(* to the SessionPrivate; Session owns the latter, and so does every       *)
(* operation of a Torrent while its request runs.  Threads call operations *)
(* on the same Session and Torrents; each operation is modelled with the   *)
(* points at which it reads or writes what it shares: the check of priv_   *)
(* with the construction of the request, the lock of the weak pointer,     *)
(* sendRequest, and what is done with the reply, one Torrent at a time.    *)
(*                                                                         *)
(* What sendRequest does is RpcContract, which SendRequest implements: its *)
(* actions are the ones of this module's calls.                            *)
(***************************************************************************)
EXTENDS Integers, Sequences, Functions

CONSTANTS
  Ops,          \* the operations called during the life of the session
  Handles,      \* the client's Torrent objects
  Lists,        \* the lists of Torrents given to updateTorrentStats
  Ids,          \* the torrents of the server
  MaxVersion    \* bound: how often a torrent's data changes on the server

ASSUME TorrentsAssumption ==
  /\ Lists \subseteq Seq(Handles)
  /\ Ids \subseteq Nat
  /\ MaxVersion \in Nat

VARIABLES
  owner,        \* does the Session object exist?
  handle,       \* priv_ of each Torrent
  kind,         \* which operation it is
  used,         \* the Torrents it is called on
  pc,           \* where it is
  asked,        \* the ids in its request, those of its Torrents in their order
  reply,        \* the torrents in the server's reply
  next,         \* the place in its list updateTorrentStats has come to
  result,       \* the error it returned
  phase, outcome, applied,   \* its call of sendRequest: see RpcContract
  present,      \* the torrents the server has
  version,      \* how often each of them changed
  known,        \* history: the versions of what it asks for when it began
  mixed         \* history: another operation used one of its Torrents meanwhile

Rpc == INSTANCE RpcContract WITH Calls <- Ops

locals     == <<used, next, reply, known, mixed>>
opVars     == <<kind, asked>>
rpcVars    == <<phase, outcome, applied>>
serverVars == <<present, version>>
vars == <<owner, handle, locals, opVars, pc, result, rpcVars, serverVars>>

-----------------------------------------------------------------------------
\* The attributes of a torrent; full is FALSE once the strings among them have
\* been moved out.  NoData stands for a null priv_, whose Torrent has id -1.
Data   == [id : Ids, version : 0 .. MaxVersion, full : BOOLEAN]
NoData == [id |-> -1, version |-> 0, full |-> FALSE]

valid(h) == handle[h] # NoData

\* What the server says of the torrents in S.
Snapshot(S) ==
  {[id |-> i, version |-> version[i], full |-> TRUE] : i \in S \cap present}

\* An operation that only asks the server for something is a command; content and
\* files, whose reply goes to FolderTree, are commands that leave the server as it is.
TorrentKinds == {"command", "remove", "update"}
\* list: torrents    stats: updateTorrentStats    query: what hands out no Torrent
SessionKinds == {"list", "stats", "query"}
Running      == {"checked", "calling", "applying"}

Uses(o, h) == pc[o] \in Running /\ h \in Range(used[o])

\* Something holds a shared_ptr to the SessionPrivate: the Session, or the
\* variable session of a Torrent's operation.
Alive ==
  owner \/ \E o \in Ops : kind[o] \in TorrentKinds /\ pc[o] \in {"calling", "applying"}

Init ==
  /\ owner = TRUE
  /\ handle = [h \in Handles |-> NoData]
  /\ kind = [o \in Ops |-> "none"]
  /\ used = [o \in Ops |-> <<>>]
  /\ pc = [o \in Ops |-> "idle"]
  /\ asked = [o \in Ops |-> <<>>]
  /\ next = [o \in Ops |-> 1]
  /\ reply = [o \in Ops |-> {}]
  /\ result = [o \in Ops |-> "none"]
  /\ Rpc!Init
  /\ present = Ids
  /\ version = [i \in Ids |-> 0]
  /\ known = [o \in Ops |-> [i \in Ids |-> 0]]
  /\ mixed = [o \in Ops |-> FALSE]

-----------------------------------------------------------------------------
(***************************************************************************)
(* The operations up to the call of sendRequest.                           *)
(***************************************************************************)
Begin(o, k, hs, is) ==
  LET users == {q \in Ops : \E h \in Range(hs) : Uses(q, h)} IN
  /\ pc[o] = "idle"
  /\ kind' = [kind EXCEPT ![o] = k]
  /\ used' = [used EXCEPT ![o] = hs]
  /\ asked' = [asked EXCEPT ![o] = is]
  /\ known' = [known EXCEPT ![o] =
                 [i \in Ids |-> IF k \in {"update", "stats"} /\ i \in Range(is)
                               THEN version[i] ELSE 0]]
  /\ mixed' = [q \in Ops |-> mixed[q] \/ (users # {} /\ q \in users \cup {o})]
  /\ UNCHANGED <<owner, handle, next, reply, serverVars>>

\* Mutants of BeginTorrent: priv_ is not checked; the request names another torrent.
BeginTorrentUnchecked(o, k, h) ==
  /\ Begin(o, k, <<h>>, <<handle[h].id>>)
  /\ pc' = [pc EXCEPT ![o] = "checked"]
  /\ UNCHANGED <<result, rpcVars>>

BeginTorrentOther(o, k, h) ==
  /\ valid(h)
  /\ \E i \in Ids : Begin(o, k, <<h>>, <<i>>)
  /\ pc' = [pc EXCEPT ![o] = "checked"]
  /\ UNCHANGED <<result, rpcVars>>

\* valid() holds, and the request is built.
BeginTorrent(o, k, h) ==
  /\ valid(h)
  /\ Begin(o, k, <<h>>, <<handle[h].id>>)
  /\ pc' = [pc EXCEPT ![o] = "checked"]
  /\ UNCHANGED <<result, rpcVars>>

\* The end of an operation, and of what it alone could see.
Finish(o, err) ==
  /\ pc' = [pc EXCEPT ![o] = "done"]
  /\ result' = [result EXCEPT ![o] = err]
  /\ used' = [used EXCEPT ![o] = <<>>]
  /\ next' = [next EXCEPT ![o] = 1]
  /\ reply' = [reply EXCEPT ![o] = {}]
  /\ known' = [known EXCEPT ![o] = [i \in Ids |-> 0]]
  /\ mixed' = [mixed EXCEPT ![o] = FALSE]

TorrentInvalid(o, k, h) ==
  /\ pc[o] = "idle"
  /\ ~valid(h)
  /\ kind' = [kind EXCEPT ![o] = k]
  /\ Finish(o, "TorrentInvalid")
  /\ UNCHANGED <<owner, handle, asked, rpcVars, serverVars>>

\* Mutants of LockSession and SessionGone: the state of the weak pointer is not
\* looked at.
LockSessionUnchecked(o) ==
  /\ pc[o] = "checked"
  /\ valid(used[o][1])
  /\ Rpc!Start(o)
  /\ pc' = [pc EXCEPT ![o] = "calling"]
  /\ UNCHANGED <<owner, handle, locals, opVars, result, serverVars>>

SessionGoneUnchecked(o) ==
  /\ pc[o] = "checked"
  /\ valid(used[o][1])
  /\ Finish(o, "SessionInvalid")
  /\ UNCHANGED <<owner, handle, opVars, rpcVars, serverVars>>

\* priv_->session_.lock() returns the SessionPrivate...
LockSession(o) ==
  /\ pc[o] = "checked"
  /\ valid(used[o][1])
  /\ Alive
  /\ Rpc!Start(o)
  /\ pc' = [pc EXCEPT ![o] = "calling"]
  /\ UNCHANGED <<owner, handle, locals, opVars, result, serverVars>>

\* ... or nothing ...
SessionGone(o) ==
  /\ pc[o] = "checked"
  /\ valid(used[o][1])
  /\ ~Alive
  /\ Finish(o, "SessionInvalid")
  /\ UNCHANGED <<owner, handle, opVars, rpcVars, serverVars>>

\* ... unless priv_ has become null since it was checked.
LockCrashes(o) ==
  /\ pc[o] = "checked"
  /\ ~valid(used[o][1])
  /\ Finish(o, "crash")
  /\ UNCHANGED <<owner, handle, opVars, rpcVars, serverVars>>

\* The operations of Session use priv_ as it is: the client may not destroy the
\* Session while one of them runs.
BeginSession(o, k, hs, is) ==
  /\ owner
  /\ Begin(o, k, hs, is)
  /\ Rpc!Start(o)
  /\ pc' = [pc EXCEPT ![o] = "calling"]
  /\ UNCHANGED result

torrents(o) == BeginSession(o, "list", <<>>, <<>>)

updateTorrentStats(o, hs) ==
  BeginSession(o, "stats", hs, [k \in DOMAIN hs |-> handle[hs[k]].id])

\* These two hand out numbers.
statistics(o)      == BeginSession(o, "query", <<>>, <<>>)
recentlyRemoved(o) == BeginSession(o, "query", <<>>, <<>>)

\* The operations of Torrent.  start stands for startNow, stop and verify as well,
\* which differ from it in the name of the method; queueMove for the four moves, and
\* setFiles for setWantedFiles and setSkippedFiles.
Operation(o, k, h) == BeginTorrent(o, k, h) \/ TorrentInvalid(o, k, h)

start(o, h)            == Operation(o, "command", h)
askForMorePeers(o, h)  == Operation(o, "command", h)
remove(o, h)           == Operation(o, "remove", h)
queueMove(o, h)        == Operation(o, "command", h)
update(o, h)           == Operation(o, "update", h)
setFiles(o, h)         == Operation(o, "command", h)
setQueuePosition(o, h) == Operation(o, "command", h)
setDownloadDir(o, h)   == Operation(o, "command", h)

-----------------------------------------------------------------------------
(***************************************************************************)
(* The server: carries a call out, or does something of its own.           *)
(***************************************************************************)
\* The torrents a request is about; torrents names none and gets all.
Wanted(o) == IF kind[o] = "list" THEN Ids ELSE Range(asked[o])

Execute(o) ==
  /\ Rpc!Apply(o)
  /\ \/ kind[o] = "command"
        /\ \E S \in SUBSET (Wanted(o) \cap present) :
             /\ \A i \in S : version[i] < MaxVersion
             /\ version' = [i \in Ids |-> version[i] + (IF i \in S THEN 1 ELSE 0)]
        /\ UNCHANGED <<present, reply>>
     \/ kind[o] = "remove"
        /\ present' = present \ Wanted(o)
        /\ UNCHANGED <<version, reply>>
     \/ kind[o] \in {"update", "stats", "list"}
        /\ reply' = [reply EXCEPT ![o] = IF pc[o] = "calling" THEN Snapshot(Wanted(o))
                                                              ELSE {}]
        /\ UNCHANGED serverVars
     \/ kind[o] = "query"
        /\ UNCHANGED <<reply, serverVars>>
  /\ UNCHANGED <<owner, handle, used, next, known, mixed, opVars, pc, result>>

Change(i) ==
  /\ i \in present
  /\ \/ version[i] < MaxVersion
        /\ version' = [version EXCEPT ![i] = @ + 1]
        /\ UNCHANGED present
     \/ present' = present \ {i}
        /\ UNCHANGED version
  /\ UNCHANGED <<owner, handle, locals, opVars, pc, result, rpcVars>>

-----------------------------------------------------------------------------
(***************************************************************************)
(* sendRequest returns, and the reply is used.                             *)
(***************************************************************************)
\* Mutant of ErrorOf: the result of the server is not looked at.
ErrorOfIgnored(out) == IF out = "unknown" THEN "Transport" ELSE "Ok"

ErrorOf(out) ==
  CASE out \in {"answered", "unanswered"} -> "Ok"
    [] out = "refused"                    -> "Server"
    [] out = "unknown"                    -> "Transport"

\* Mutant of UsesReply: the error is not looked at.
UsesReplyOnError(o, err) == kind[o] \in {"update", "stats", "list"}

\* The error decides whether the data of the response are used.
UsesReply(o, err) == err = "Ok" /\ kind[o] \in {"update", "stats", "list"}

Returned(o, out) ==
  /\ pc[o] = "calling"
  /\ Rpc!Return(o, out)
  /\ IF UsesReply(o, ErrorOf(out))
     THEN pc' = [pc EXCEPT ![o] = "applying"] /\ UNCHANGED <<locals, result>>
     ELSE Finish(o, ErrorOf(out))
  /\ UNCHANGED <<owner, handle, opVars, serverVars>>

\* An Ok without a reply holds no torrents.
Received(o) == IF outcome[o] = "answered" THEN reply[o] ELSE {}

\* update: each torrent of the reply replaces priv_, after a look at its session.
ApplyUpdate(o) ==
  /\ pc[o] = "applying" /\ kind[o] = "update"
  /\ LET h == used[o][1] IN
       \/ /\ Received(o) = {}
          /\ Finish(o, "Ok") /\ UNCHANGED handle
       \/ \E d \in Received(o) :
            /\ valid(h)
            /\ handle' = [handle EXCEPT ![h] = d]
            /\ Finish(o, "Ok")
       \/ /\ Received(o) # {} /\ ~valid(h)
          /\ Finish(o, "crash") /\ UNCHANGED handle
  /\ UNCHANGED <<owner, opVars, rpcVars, serverVars>>

\* What a torrent of the reply is when its data have been moved out.
Hollow(d) == [d EXCEPT !.full = FALSE]

\* Mutants of Moved: what is left has lost its id as well; the search moves every
\* torrent it looks at.
MovedWithId(r, d)    == (r \ {d}) \cup {[Hollow(d) EXCEPT !.id = -1]}
MovedByLooking(r, d) == {Hollow(e) : e \in r}

\* The reply once the data of d have been moved out.
Moved(r, d) == (r \ {d}) \cup {Hollow(d)}

\* updateTorrentStats, for the next Torrent of its list: it takes the data with its
\* id out of the reply, or is left without data if there are none.
ApplyStats(o) ==
  /\ pc[o] = "applying" /\ kind[o] = "stats"
  /\ next[o] \in DOMAIN used[o]
  /\ LET h     == used[o][next[o]]
         found == {d \in Received(o) : d.id = handle[h].id}
     IN  \/ /\ found = {}
            /\ handle' = [handle EXCEPT ![h] = NoData]
            /\ UNCHANGED reply
         \/ \E d \in found :
              /\ handle' = [handle EXCEPT ![h] = d]
              /\ reply' = [reply EXCEPT ![o] = Moved(@, d)]
  /\ next' = [next EXCEPT ![o] = @ + 1]
  /\ UNCHANGED <<owner, used, known, mixed, opVars, pc, result, rpcVars, serverVars>>

\* It has been through its list.
EndStats(o) ==
  /\ pc[o] = "applying" /\ kind[o] = "stats"
  /\ next[o] \notin DOMAIN used[o]
  /\ Finish(o, "Ok")
  /\ UNCHANGED <<owner, handle, opVars, rpcVars, serverVars>>

-----------------------------------------------------------------------------
(***************************************************************************)
(* The client.                                                             *)
(***************************************************************************)
\* torrents returns a Torrent for each one of the reply; the client keeps some.
ApplyList(o) ==
  /\ pc[o] = "applying" /\ kind[o] = "list"
  /\ \E S \in SUBSET {h \in Handles : \A q \in Ops : ~Uses(q, h)} : \E f \in [S -> Received(o)] :
       /\ \A g, h \in S : f[g] = f[h] => g = h
       /\ handle' = [h \in Handles |-> IF h \in S THEN f[h] ELSE handle[h]]
  /\ Finish(o, "Ok")
  /\ UNCHANGED <<owner, opVars, rpcVars, serverVars>>

DestroySession ==
  /\ owner
  /\ \A o \in Ops : kind[o] \in SessionKinds => pc[o] \notin Running
  /\ owner' = FALSE
  /\ UNCHANGED <<handle, locals, opVars, pc, result, rpcVars, serverVars>>

-----------------------------------------------------------------------------
Next ==
  \/ \E o \in Ops :
       \/ \E h \in Handles :
            \/ start(o, h) \/ askForMorePeers(o, h) \/ remove(o, h) \/ queueMove(o, h)
            \/ update(o, h) \/ setFiles(o, h)
            \/ setQueuePosition(o, h) \/ setDownloadDir(o, h)
       \/ LockSession(o) \/ SessionGone(o) \/ LockCrashes(o)
       \/ torrents(o) \/ statistics(o) \/ recentlyRemoved(o)
       \/ \E hs \in Lists : updateTorrentStats(o, hs)
       \/ Execute(o)
       \/ \E out \in Rpc!Outcomes \ {"none"} : Returned(o, out)
       \/ ApplyUpdate(o) \/ ApplyStats(o) \/ EndStats(o) \/ ApplyList(o)
  \/ DestroySession
  \/ \E i \in Ids : Change(i)

Spec == Init /\ [][Next]_vars

-----------------------------------------------------------------------------
(***************************************************************************)
(* Properties.                                                             *)
(***************************************************************************)

\* The values the variables take.
TypeOK ==
  /\ owner \in BOOLEAN
  /\ handle \in [Handles -> Data \cup {NoData}]
  /\ kind \in [Ops -> {"none"} \cup TorrentKinds \cup SessionKinds]
  /\ used \in [Ops -> Seq(Handles)]
  /\ pc \in [Ops -> {"idle", "done"} \cup Running]
  /\ asked \in [Ops -> Seq(Ids \cup {-1})]
  /\ next \in [Ops -> Nat \ {0}]
  /\ reply \in [Ops -> SUBSET Data]
  /\ result \in [Ops -> {"none", "Ok", "Server", "Transport", "SessionInvalid",
                         "TorrentInvalid", "crash"}]
  /\ phase \in [Ops -> Rpc!Phases]
  /\ outcome \in [Ops -> Rpc!Outcomes]
  /\ applied \in [Ops -> {0, 1}]
  /\ present \subseteq Ids
  /\ version \in [Ids -> 0 .. MaxVersion]
  /\ known \in [Ops -> [Ids -> 0 .. MaxVersion]]
  /\ mixed \in [Ops -> BOOLEAN]

Ends(o) == pc[o] \in Running /\ pc'[o] = "done"

\* While an operation uses a Torrent, nothing turns it into another torrent, nor, if
\* no other operation uses it meanwhile, its data into older data.
UpdatesKeepTheTorrent ==
  [][\A o \in Ops : \A h \in Handles :
       Uses(o, h) /\ valid(h) /\ handle'[h] # NoData =>
         /\ handle'[h].id = handle[h].id
         /\ ~mixed[o] => handle'[h].version >= handle[h].version]_vars

\* After an Ok of update or updateTorrentStats each of its Torrents has data, of the
\* torrent it stood for and as recent as the call, unless the server has no such
\* torrent any more, sendRequest returned its empty Ok, or another operation used
\* the Torrent meanwhile.
UpdatesAreTruthful ==
  [][\A o \in Ops : Ends(o) /\ result'[o] = "Ok" /\ kind[o] \in {"update", "stats"}
                    /\ outcome[o] # "unanswered" /\ ~mixed[o] =>
       \A k \in DOMAIN used[o] : asked[o][k] \in present =>
         LET d == handle'[used[o][k]] IN
         d # NoData /\ d.id = asked[o][k] /\ d.version >= known[o][d.id]]_vars

\* After an Ok of updateTorrentStats a Torrent nobody else used is without the strings
\* of its data only if its id was asked for at an earlier place of the list: of the
\* Torrents that share an id the first one has them.
HollowOnlyBehindAnEqual ==
  [][\A o \in Ops : Ends(o) /\ result'[o] = "Ok" /\ kind[o] = "stats" /\ ~mixed[o] =>
       \A h \in Range(used[o]) : handle'[h] # NoData /\ ~handle'[h].full =>
         \E j, k \in DOMAIN used[o] :
           j < k /\ used[o][k] = h /\ asked[o][j] = asked[o][k]]_vars

\* Once the Session is destroyed and the last operation of a Torrent that kept
\* the SessionPrivate has ended, no operation makes a request any more, however
\* many Torrents are left.
SessionStaysDead ==
  [][~Alive => ~Alive' /\ \A o \in Ops : phase'[o] = phase[o]]_vars

\* GearboxSessionInvalid is only returned when the Session is destroyed, and the
\* operation that returns it has never reached the server.
SessionInvalidIsTruthful ==
  \A o \in Ops : result[o] = "SessionInvalid" => ~owner /\ applied[o] = 0

\* remove returns Ok with a reply only once the torrent is gone.
RemovedIsGone ==
  \A o \in Ops :
    kind[o] = "remove" /\ result[o] = "Ok" /\ outcome[o] # "unanswered" =>
      Wanted(o) \cap present = {}

\* No operation dereferences a null priv_ unless another one used the Torrent at
\* the same time.
OnlySharingCrashes ==
  [][\A o \in Ops : Ends(o) /\ result'[o] = "crash" => mixed[o]]_vars

-----------------------------------------------------------------------------
(***************************************************************************)
(* What the documentation says and the code does not do.                   *)
(***************************************************************************)

\* "This method is thread-safe" (libgearbox_torrent.cpp, all operations; and
\* updateTorrentStats in libgearbox_session.cpp): however they overlap, none
\* dereferences a null priv_.
NoCrash == \A o \in Ops : result[o] # "crash"
=============================================================================
