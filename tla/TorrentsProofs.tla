--------------------------- MODULE TorrentsProofs ---------------------------
(***************************************************************************)
(* Theorems about Torrents, for any number of operations, Torrents and     *)
(* torrents.                                                               *)
(*                                                                         *)
(* The inductive invariant IInv follows an operation from its check of     *)
(* priv_ to the use of the reply (Life), and says what the others may have *)
(* done meanwhile to the Torrents it is called on: two operations that use *)
(* one Torrent know it (Sharing), a Torrent nobody shares keeps its data   *)
(* (Checked, Fresh), no Torrent in use becomes another one (Targets), and  *)
(* what updateTorrentStats has been through is settled (Settled).          *)
(***************************************************************************)
EXTENDS Torrents, TLAPS

\* The operations that use the torrents of the reply.
Reading == {"update", "stats", "list"}

\* Where an operation is says how far its request is and what came of it.
Life(o) ==
  /\ pc[o] = "idle" => kind[o] = "none" /\ result[o] = "none"
  /\ pc[o] \in Running => kind[o] \in TorrentKinds \cup SessionKinds /\ result[o] = "none"
  /\ pc[o] \in {"idle", "checked"} => phase[o] = "idle"
  /\ pc[o] = "checked" => kind[o] \in TorrentKinds
  /\ pc[o] = "calling" => phase[o] = "running"
  /\ pc[o] = "applying" =>
       phase[o] = "returned" /\ kind[o] \in Reading /\ outcome[o] \in {"answered", "unanswered"}
  /\ phase[o] = "idle" => applied[o] = 0
  /\ phase[o] # "returned" => outcome[o] = "none"
  /\ outcome[o] = "answered" => applied[o] = 1
  /\ result[o] = "Ok" => outcome[o] \in {"answered", "unanswered"}

\* The operation has the Torrents its kind takes, and asks for theirs.
Arguments(o) ==
  /\ pc[o] \in Running /\ kind[o] \in TorrentKinds =>
       /\ used[o] = <<used[o][1]>> /\ used[o][1] \in Handles
       /\ \E i \in Ids : asked[o] = <<i>>
  /\ pc[o] \in Running /\ kind[o] = "stats" => DOMAIN asked[o] = DOMAIN used[o]
  /\ pc[o] \in Running /\ kind[o] \in {"list", "query"} => used[o] = <<>>
  /\ pc[o] # "applying" \/ kind[o] # "stats" => next[o] = 1

\* The Session is there as long as its operations run, and gone for one that said so.
Owners(o) ==
  /\ pc[o] \in Running /\ kind[o] \in SessionKinds => owner
  /\ result[o] = "SessionInvalid" => ~owner /\ phase[o] = "idle"

\* Two operations that use one Torrent are both marked.
Sharing ==
  \A o, q \in Ops : \A h \in Handles :
    o # q /\ Uses(o, h) /\ Uses(q, h) => mixed[o]

\* A Torrent nobody else used still has the data whose presence was checked.
Checked(o) ==
  pc[o] \in Running /\ kind[o] \in TorrentKinds /\ ~mixed[o] => valid(used[o][1])

\* A Torrent in use that has data stands for the torrent its operation asked for.
Targets(o) ==
  \A k \in DOMAIN used[o] :
    pc[o] \in Running /\ valid(used[o][k]) => handle[used[o][k]].id = asked[o][k]

\* Nobody has data the server did not have.
Known ==
  /\ \A h \in Handles : valid(h) => handle[h].version <= version[handle[h].id]
  /\ \A o \in Ops : \A i \in Ids : known[o][i] <= version[i]

\* A reply holds torrents that were asked for, no older than the request, and with all
\* their data unless they went to a Torrent that updateTorrentStats has been through.
Replies(o) ==
  /\ pc[o] \notin {"calling", "applying"} => reply[o] = {}
  /\ \A d \in reply[o] :
       /\ d.id \in Wanted(o) /\ known[o][d.id] <= d.version /\ d.version <= version[d.id]
       /\ ~d.full => \E j \in DOMAIN used[o] : j < next[o] /\ asked[o][j] = d.id
  /\ \A d, e \in reply[o] : d.id = e.id => d.version = e.version

\* A reply is no older than what a Torrent nobody else used has.
Fresh(o) ==
  \A h \in Handles : \A d \in reply[o] :
    Uses(o, h) /\ valid(h) /\ ~mixed[o] /\ d.id = handle[h].id => handle[h].version <= d.version

\* What the server carried out shows.
Carried(o) ==
  /\ applied[o] = 1 /\ pc[o] \in {"calling", "applying"} /\ kind[o] \in Reading =>
       \A i \in Wanted(o) \cap present : \E d \in reply[o] : d.id = i
  /\ applied[o] = 1 /\ kind[o] = "remove" => Wanted(o) \cap present = {}

\* updateTorrentStats leaves the k-th Torrent, if nobody else used it, as it should be:
\* it has data as long as the server has its torrent, and once the loop has come past
\* it these are recent, and without strings only behind an equal.
SettledAt(o, k) ==
  LET h == used[o][k] IN
  /\ asked[o][k] \in present /\ outcome[o] # "unanswered" => valid(h)
  /\ k < next[o] /\ valid(h) =>
       /\ known[o][asked[o][k]] <= handle[h].version
       /\ ~handle[h].full =>
            \E i, j \in DOMAIN used[o] :
              i < j /\ used[o][j] = h /\ asked[o][i] = asked[o][j]

Settled(o) ==
  pc[o] \in Running /\ kind[o] = "stats" /\ ~mixed[o] =>
    \A k \in DOMAIN used[o] : SettledAt(o, k)

\* The inductive invariant.
IInv ==
  /\ TypeOK
  /\ \A o \in Ops : Life(o) /\ Arguments(o) /\ Owners(o)
  /\ Sharing /\ Known
  /\ \A o \in Ops : Checked(o) /\ Targets(o)
  /\ \A o \in Ops : Replies(o) /\ Fresh(o) /\ Carried(o)
  /\ \A o \in Ops : Settled(o)

-----------------------------------------------------------------------------
\* The id of a Torrent without data is no torrent's.
LEMMA DataFacts ==
  /\ NoData \notin Data /\ NoData.id = -1
  /\ \A d \in Data : /\ d.id \in Ids /\ d.id \in Nat /\ d.id # -1
                     /\ d.version \in 0 .. MaxVersion /\ d.version \in Nat
                     /\ d.full \in BOOLEAN
<1>1. NoData.id = -1
  BY DEF NoData
<1>2. \A d \in Data : d.id \in Ids /\ d.version \in 0 .. MaxVersion /\ d.full \in BOOLEAN
  BY DEF Data
<1>3. \A d \in Data : d.id \in Nat /\ d.id # -1 /\ d.version \in Nat
  <2>1. Ids \subseteq Nat /\ MaxVersion \in Nat
    BY TorrentsAssumption
  <2>2. \A i \in Nat : i # -1
    OBVIOUS
  <2>3. \A v \in 0 .. MaxVersion : v \in Nat
    BY <2>1
  <2>4. QED
    BY <1>2, <2>1, <2>2, <2>3
<1>4. NoData \notin Data
  BY <1>1, <1>3
<1>5. QED
  BY <1>1, <1>2, <1>3, <1>4

\* The elements of an empty sequence and of one with a single element.
LEMMA RangeFacts ==
  /\ Range(<<>>) = {} /\ DOMAIN <<>> = {}
  /\ \A x : Range(<<x>>) = {x} /\ DOMAIN <<x>> = {1} /\ <<x>>[1] = x
BY DEF Range

\* An operation of a Torrent uses that one only.
LEMMA UsesOne ==
  ASSUME NEW o \in Ops, Arguments(o), kind[o] \in TorrentKinds, NEW h \in Handles
  PROVE  Uses(o, h) <=> pc[o] \in Running /\ h = used[o][1]
<1>1. ASSUME pc[o] \in Running PROVE Range(used[o]) = {used[o][1]}
  BY <1>1, RangeFacts DEF Arguments
<1>2. QED
  BY <1>1 DEF Uses

\* A running operation uses every Torrent of its list.
LEMMA UsesEach ==
  ASSUME TypeOK, NEW o \in Ops, pc[o] \in Running, NEW k \in DOMAIN used[o]
  PROVE  used[o][k] \in Handles /\ Uses(o, used[o][k])
BY DEF TypeOK, Uses, Range

\* The invariant holds when the session has just been made.
LEMMA InitInv == ASSUME Init PROVE IInv
<1> USE DEF Init, Rpc!Init
<1>1. TypeOK
  <2>1. <<>> \in Seq(Handles)
    OBVIOUS
  <2>2. 0 \in 0 .. MaxVersion
    BY TorrentsAssumption
  <2>3. version \in [Ids -> 0 .. MaxVersion]
    BY <2>2
  <2>4. known \in [Ops -> [Ids -> 0 .. MaxVersion]]
    BY <2>2
  <2>5. QED
    BY <2>1, <2>3, <2>4 DEF TypeOK, Rpc!Phases, Rpc!Outcomes
<1>2. \A o \in Ops : pc[o] \notin Running /\ pc[o] # "applying"
  BY DEF Running
<1>3. \A o \in Ops : Life(o) /\ Arguments(o) /\ Owners(o)
  BY <1>2 DEF Life, Arguments, Owners
<1>4. Sharing
  BY <1>2 DEF Sharing, Uses
<1>5. Known
  BY <1>1, TorrentsAssumption DEF Known, valid
<1>6. \A o \in Ops : Checked(o) /\ Targets(o)
  BY <1>2 DEF Checked, Targets, Uses
<1>7. \A o \in Ops : Replies(o) /\ Fresh(o) /\ Carried(o)
  BY <1>2 DEF Replies, Fresh, Carried
<1>8. \A o \in Ops : Settled(o)
  BY <1>2 DEF Settled
<1>9. QED
  BY <1>1, <1>3, <1>4, <1>5, <1>6, <1>7, <1>8 DEF IInv

-----------------------------------------------------------------------------
(***************************************************************************)
(* The beginning of an operation.                                          *)
(***************************************************************************)
\* Whichever operation begins: those that use one of its Torrents already know.
LEMMA BeginInv ==
  ASSUME IInv, NEW o \in Ops, NEW k \in TorrentKinds \cup SessionKinds,
         NEW hs \in Seq(Handles), NEW is \in Seq(Ids \cup {-1}),
         NEW p \in {"checked", "calling"},
         Begin(o, k, hs, is), pc' = [pc EXCEPT ![o] = p], UNCHANGED result,
         \/ p = "checked" /\ k \in TorrentKinds /\ UNCHANGED rpcVars
         \/ p = "calling" /\ k \in SessionKinds /\ owner /\ Rpc!Start(o),
         k \in TorrentKinds =>
           hs = <<hs[1]>> /\ hs[1] \in Handles /\ valid(hs[1]) /\ is = <<handle[hs[1]].id>>,
         k = "stats" => DOMAIN is = DOMAIN hs,
         k \in {"list", "query"} => hs = <<>>,
         \A j \in DOMAIN hs : handle[hs[j]].id = is[j]
  PROVE  IInv'
<1> DEFINE users == {q \in Ops : \E h \in Range(hs) : Uses(q, h)}
<1> USE DEF Begin
<1>1. /\ pc[o] = "idle" /\ pc'[o] = p /\ kind'[o] = k /\ used'[o] = hs /\ asked'[o] = is
      /\ \A q \in Ops \ {o} : /\ pc'[q] = pc[q] /\ kind'[q] = kind[q]
                              /\ used'[q] = used[q] /\ asked'[q] = asked[q]
                              /\ known'[q] = known[q]
  BY DEF IInv, TypeOK
<1>2. /\ mixed' \in [Ops -> BOOLEAN]
      /\ \A q \in Ops : mixed'[q] = (mixed[q] \/ (users # {} /\ q \in users \cup {o}))
  BY DEF IInv, TypeOK
<1> HIDE DEF users
<1>3. UNCHANGED <<owner, handle, next, reply, present, version, result>>
  BY DEF serverVars
<1>4. p \in Running /\ k # "none"
  BY DEF Running, TorrentKinds, SessionKinds
<1>5. /\ phase' \in [Ops -> Rpc!Phases] /\ outcome' = outcome /\ applied' = applied
      /\ phase'[o] = IF p = "checked" THEN "idle" ELSE "running"
      /\ \A q \in Ops \ {o} : phase'[q] = phase[q]
      /\ phase[o] = "idle"
  <2>1. phase[o] = "idle" /\ phase \in [Ops -> Rpc!Phases]
    BY <1>1 DEF IInv, TypeOK, Life
  <2>2. CASE p = "checked" /\ UNCHANGED rpcVars
    BY <2>1, <2>2 DEF rpcVars
  <2>3. CASE p = "calling" /\ Rpc!Start(o)
    BY <2>1, <2>3 DEF Rpc!Start, Rpc!Phases
  <2>4. QED
    BY <2>2, <2>3
<1>6. TypeOK'
  <2>1. known' \in [Ops -> [Ids -> 0 .. MaxVersion]]
    <3>1. 0 \in 0 .. MaxVersion
      BY TorrentsAssumption
    <3>2. [i \in Ids |-> IF k \in {"update", "stats"} /\ i \in Range(is)
                        THEN version[i] ELSE 0] \in [Ids -> 0 .. MaxVersion]
      BY <3>1 DEF IInv, TypeOK
    <3>3. QED
      BY <3>2 DEF IInv, TypeOK
  <2>2. pc' \in [Ops -> {"idle", "done"} \cup Running]
    BY <1>4 DEF IInv, TypeOK
  <2>3. kind' \in [Ops -> {"none"} \cup TorrentKinds \cup SessionKinds]
    BY DEF IInv, TypeOK
  <2>4. used' \in [Ops -> Seq(Handles)] /\ asked' \in [Ops -> Seq(Ids \cup {-1})]
    BY DEF IInv, TypeOK
  <2>5. QED
    BY <1>2, <1>3, <1>5, <2>1, <2>2, <2>3, <2>4 DEF IInv, TypeOK
<1>7. \A q \in Ops \ {o} : \A h : Uses(q, h)' <=> Uses(q, h)
  BY <1>1 DEF Uses
<1>8. \A h : Uses(o, h)' <=> h \in Range(hs)
  BY <1>1, <1>4 DEF Uses
<1>9. ASSUME NEW q \in Ops PROVE Life(q)' /\ Arguments(q)' /\ Owners(q)'
  <2>1. CASE q = o
    <3>1. Life(o)'
      BY <1>1, <1>3, <1>4, <1>5 DEF IInv, Life, Running
    <3>2. valid(hs[1]) /\ k \in TorrentKinds => handle[hs[1]].id \in Ids
      BY DataFacts DEF IInv, TypeOK, valid
    <3>3. Arguments(o)'
      <4>1. p # "applying" /\ next[o] = 1
        BY <1>1 DEF IInv, Arguments
      <4>2. QED
        BY <1>1, <1>3, <3>2, <4>1 DEF Arguments, TorrentKinds, SessionKinds
    <3>4. Owners(o)'
      BY <1>1, <1>3 DEF IInv, Life, Owners, TorrentKinds, SessionKinds
    <3>5. QED
      BY <2>1, <3>1, <3>3, <3>4
  <2>2. CASE q # o
    BY <2>2, <1>1, <1>3, <1>5 DEF IInv, Life, Arguments, Owners
  <2>3. QED
    BY <2>1, <2>2
<1>10. Sharing'
  <2>1. SUFFICES ASSUME NEW q \in Ops, NEW r \in Ops, NEW h \in Handles,
                        q # r, Uses(q, h)', Uses(r, h)'
                 PROVE  mixed'[q]
    BY DEF Sharing
  <2>2. CASE q # o /\ r # o
    BY <2>1, <2>2, <1>2, <1>7 DEF IInv, Sharing
  <2>3. CASE q = o
    BY <2>1, <2>3, <1>2, <1>7, <1>8 DEF users
  <2>4. CASE r = o
    BY <2>1, <2>4, <1>2, <1>7, <1>8 DEF users
  <2>5. QED
    BY <2>2, <2>3, <2>4
<1>11. Known'
  <2>1. ASSUME NEW i \in Ids PROVE known'[o][i] <= version[i]
    <3>1. version[i] \in Nat
      BY DEF IInv, TypeOK
    <3>2. known'[o][i] = version[i] \/ known'[o][i] = 0
      BY DEF IInv, TypeOK
    <3>3. QED
      BY <3>1, <3>2
  <2>2. QED
    BY <1>1, <1>3, <2>1 DEF IInv, Known, valid
<1>12. ASSUME NEW q \in Ops PROVE Checked(q)' /\ Targets(q)'
  <2>1. CASE q = o
    BY <2>1, <1>1, <1>3 DEF Checked, Targets, valid
  <2>2. CASE q # o
    <3>1. ~mixed'[q] => ~mixed[q]
      BY <1>2
    <3>2. Checked(q) /\ Targets(q)
      BY DEF IInv
    <3>3. Checked(q)'
      BY <2>2, <3>1, <3>2, <1>1, <1>3 DEF Checked, valid
    <3>4. Targets(q)'
      BY <2>2, <3>2, <1>1, <1>3 DEF Targets, valid
    <3>5. QED
      BY <3>3, <3>4
  <2>3. QED
    BY <2>1, <2>2
<1>13. ASSUME NEW q \in Ops PROVE Replies(q)' /\ Fresh(q)' /\ Carried(q)'
  <2>1. CASE q = o
    <3>1. reply'[o] = {} /\ applied'[o] = 0
      BY <1>1, <1>3, <1>5 DEF IInv, Replies, Life
    <3>2. QED
      BY <2>1, <3>1 DEF Replies, Fresh, Carried
  <2>2. CASE q # o
    <3>1. Replies(q)'
      BY <2>2, <1>1, <1>3 DEF IInv, Replies, Wanted
    <3>2. Fresh(q)'
      BY <2>2, <1>2, <1>3, <1>7 DEF IInv, Fresh, valid
    <3>3. Carried(q)'
      BY <2>2, <1>1, <1>3, <1>5 DEF IInv, Carried, Wanted
    <3>4. QED
      BY <3>1, <3>2, <3>3
  <2>3. QED
    BY <2>1, <2>2
<1>14. ASSUME NEW q \in Ops PROVE Settled(q)'
  <2>1. CASE q = o
    <3>1. SUFFICES ASSUME k = "stats", NEW j \in DOMAIN hs PROVE SettledAt(o, j)'
      BY <2>1, <1>1 DEF Settled
    <3>2. next[o] = 1 /\ p # "applying"
      BY <1>1 DEF IInv, Arguments
    <3>3. ~(j < 1)
      <4>1. j \in Nat \ {0}
        BY <3>1
      <4>2. QED
        BY <4>1
    <3>4. is[j] \in present => valid(hs[j])
      <4>1. handle[hs[j]].id = is[j] /\ present \subseteq Ids
        BY <3>1 DEF IInv, TypeOK
      <4>2. handle[hs[j]] = NoData => is[j] = -1
        BY <4>1, DataFacts
      <4>3. -1 \notin Ids
        <5>1. Ids \subseteq Nat /\ -1 \notin Nat
          BY TorrentsAssumption
        <5>2. QED
          BY <5>1
      <4>4. QED
        BY <4>1, <4>2, <4>3 DEF valid
    <3>5. QED
      BY <1>1, <1>3, <3>2, <3>3, <3>4 DEF SettledAt, valid
  <2>2. CASE q # o
    <3>1. SUFFICES ASSUME pc[q] \in Running, kind[q] = "stats", ~mixed'[q],
                          NEW j \in DOMAIN used[q]
                   PROVE  SettledAt(q, j)'
      BY <2>2, <1>1 DEF Settled
    <3>2. ~mixed[q]
      BY <3>1, <1>2
    <3>3. SettledAt(q, j)
      BY <3>1, <3>2 DEF IInv, Settled
    <3>4. QED
      BY <2>2, <3>3, <1>1, <1>3, <1>5 DEF SettledAt, valid
  <2>3. QED
    BY <2>1, <2>2
<1>15. QED
  BY <1>6, <1>9, <1>10, <1>11, <1>12, <1>13, <1>14 DEF IInv

\* An operation of a Torrent passes its check of priv_.
LEMMA BeginTorrentInv ==
  ASSUME IInv, NEW o \in Ops, NEW k \in TorrentKinds, NEW h \in Handles, BeginTorrent(o, k, h)
  PROVE  IInv'
<1> USE DEF BeginTorrent
<1>1. <<h>> \in Seq(Handles) /\ DOMAIN <<h>> = {1} /\ <<h>>[1] = h
  BY RangeFacts
<1>2. k \notin {"stats", "list", "query"}
  BY DEF TorrentKinds
<1>3. handle[h].id \in Ids \cup {-1}
  BY DataFacts DEF IInv, TypeOK
<1>4. <<handle[h].id>> \in Seq(Ids \cup {-1}) /\ <<handle[h].id>>[1] = handle[h].id
  BY <1>3
<1>5. QED
  BY <1>1, <1>2, <1>4, BeginInv

\* The operations of Session that are called on no Torrent.
LEMMA ListingInv ==
  ASSUME IInv, NEW o \in Ops, torrents(o) \/ statistics(o) \/ recentlyRemoved(o)
  PROVE  IInv'
<1> USE DEF torrents, statistics, recentlyRemoved, BeginSession
<1>1. <<>> \in Seq(Handles) /\ DOMAIN <<>> = {} /\ <<>> \in Seq(Ids \cup {-1})
  BY RangeFacts
<1>2. ASSUME NEW k \in {"list", "query"}, BeginSession(o, k, <<>>, <<>>) PROVE IInv'
  <2>1. k \in SessionKinds /\ k \notin TorrentKinds /\ k # "stats"
    BY DEF SessionKinds, TorrentKinds
  <2>2. QED
    BY <1>1, <1>2, <2>1, BeginInv
<1>3. QED
  BY <1>2

\* updateTorrentStats is called on a list of Torrents, some of them perhaps without data.
LEMMA updateTorrentStatsInv ==
  ASSUME IInv, NEW o \in Ops, NEW hs \in Lists, updateTorrentStats(o, hs)
  PROVE  IInv'
<1> DEFINE is == [j \in DOMAIN hs |-> handle[hs[j]].id]
<1> USE DEF updateTorrentStats, BeginSession
<1>1. hs \in Seq(Handles)
  BY TorrentsAssumption
<1>2. "stats" \in SessionKinds /\ "stats" \notin TorrentKinds
  BY DEF SessionKinds, TorrentKinds
<1>3. is \in Seq(Ids \cup {-1})
  <2>1. \A f \in Handles : handle[f].id \in Ids \cup {-1}
    BY DataFacts DEF IInv, TypeOK
  <2>2. DOMAIN hs = 1 .. Len(hs) /\ Len(hs) \in Nat /\ \A j \in 1 .. Len(hs) : hs[j] \in Handles
    BY <1>1
  <2>3. is \in [1 .. Len(hs) -> Ids \cup {-1}]
    BY <2>1, <2>2
  <2>4. QED
    BY <2>2, <2>3
<1>4. /\ Begin(o, "stats", hs, is)
      /\ Rpc!Start(o) /\ owner /\ pc' = [pc EXCEPT ![o] = "calling"] /\ UNCHANGED result
  OBVIOUS
<1>5. DOMAIN is = DOMAIN hs /\ \A j \in DOMAIN hs : handle[hs[j]].id = is[j]
  OBVIOUS
<1> HIDE DEF is
<1>6. QED
  BY ONLY <1>1, <1>2, <1>3, <1>4, <1>5, BeginInv, IInv, o \in Ops

-----------------------------------------------------------------------------
(***************************************************************************)
(* The end of an operation.                                                *)
(***************************************************************************)
\* However an operation ends: it only changed Torrents it uses, or nobody does, and
\* with data of the torrent they stand for.
LEMMA EndInv ==
  ASSUME IInv, NEW o \in Ops,
         NEW err \in {"Ok", "Server", "Transport", "SessionInvalid", "TorrentInvalid", "crash"},
         Finish(o, err),
         kind' \in [Ops -> {"none"} \cup TorrentKinds \cup SessionKinds],
         \A q \in Ops \ {o} : kind'[q] = kind[q],
         kind'[o] = kind[o] \/ applied[o] = 0,
         phase' \in [Ops -> Rpc!Phases], outcome' \in [Ops -> Rpc!Outcomes],
         \A q \in Ops \ {o} : phase'[q] = phase[q] /\ outcome'[q] = outcome[q],
         UNCHANGED <<owner, asked, applied, present, version>>,
         handle' \in [Handles -> Data \cup {NoData}],
         \A h \in Handles : handle'[h] # handle[h] =>
           /\ Uses(o, h) \/ \A q \in Ops : ~Uses(q, h)
           /\ handle'[h] # NoData =>
                /\ Uses(o, h) => valid(h) /\ handle'[h].id = handle[h].id
                /\ handle'[h].version <= version[handle'[h].id],
         Life(o)', Owners(o)'
  PROVE  IInv'
<1> USE DEF Finish
<1>1. /\ pc'[o] = "done" /\ reply'[o] = {} /\ next'[o] = 1
      /\ \A q \in Ops \ {o} :
           /\ pc'[q] = pc[q] /\ result'[q] = result[q] /\ used'[q] = used[q] /\ next'[q] = next[q]
           /\ reply'[q] = reply[q] /\ known'[q] = known[q] /\ mixed'[q] = mixed[q]
  BY DEF IInv, TypeOK
<1>2. "done" \notin Running /\ "done" # "applying"
  BY DEF Running
<1>3. \A h : ~Uses(o, h)'
  BY <1>1, <1>2 DEF Uses
<1>4. \A q \in Ops \ {o} : \A h : Uses(q, h)' <=> Uses(q, h)
  BY <1>1 DEF Uses
<1>5. TypeOK'
  <2>1. [i \in Ids |-> 0] \in [Ids -> 0 .. MaxVersion]
    BY TorrentsAssumption
  <2>2. known' \in [Ops -> [Ids -> 0 .. MaxVersion]]
    BY <2>1 DEF IInv, TypeOK
  <2>3. used' \in [Ops -> Seq(Handles)] /\ next' \in [Ops -> Nat \ {0}]
    <3>1. <<>> \in Seq(Handles) /\ 1 \in Nat \ {0}
      OBVIOUS
    <3>2. QED
      BY <3>1 DEF IInv, TypeOK
  <2>4. pc' \in [Ops -> {"idle", "done"} \cup Running]
    BY DEF IInv, TypeOK
  <2>5. reply' \in [Ops -> SUBSET Data] /\ mixed' \in [Ops -> BOOLEAN]
    BY DEF IInv, TypeOK
  <2>6. result' \in [Ops -> {"none", "Ok", "Server", "Transport", "SessionInvalid",
                             "TorrentInvalid", "crash"}]
    BY DEF IInv, TypeOK
  <2>7. QED
    BY <2>2, <2>3, <2>4, <2>5, <2>6 DEF IInv, TypeOK
<1>6. ASSUME NEW q \in Ops PROVE Life(q)' /\ Arguments(q)' /\ Owners(q)'
  <2>1. CASE q = o
    BY <2>1, <1>1, <1>2 DEF Arguments
  <2>2. CASE q # o
    BY <2>2, <1>1 DEF IInv, Life, Arguments, Owners
  <2>3. QED
    BY <2>1, <2>2
<1>7. Sharing'
  BY <1>1, <1>3, <1>4 DEF IInv, Sharing
<1>8. Known'
  <2>1. \A q \in Ops : \A i \in Ids : known'[q][i] <= version[i]
    <3>1. \A i \in Ids : known'[o][i] = 0 /\ 0 <= version[i]
      BY DEF IInv, TypeOK
    <3>2. QED
      BY <1>1, <3>1 DEF IInv, Known
  <2>2. \A h \in Handles : handle'[h] # NoData => handle'[h].version <= version[handle'[h].id]
    BY DEF IInv, Known, valid
  <2>3. QED
    BY <2>1, <2>2 DEF Known, valid
<1>9. ASSUME NEW q \in Ops, q # o, NEW h \in Handles, Uses(q, h), ~mixed[q]
      PROVE  handle'[h] = handle[h]
  BY <1>9 DEF IInv, Sharing
<1>10. ASSUME NEW q \in Ops PROVE Checked(q)' /\ Targets(q)'
  <2>1. CASE q = o
    BY <2>1, <1>1, <1>2, <1>3 DEF Checked, Targets
  <2>2. CASE q # o
    <3>1. Checked(q)'
      <4>1. SUFFICES ASSUME pc[q] \in Running, kind[q] \in TorrentKinds, ~mixed[q]
            PROVE  handle'[used[q][1]] # NoData
        BY <2>2, <1>1 DEF Checked, valid
      <4>2. used[q][1] \in Handles /\ Uses(q, used[q][1])
        BY <4>1, UsesOne DEF IInv, Arguments
      <4>3. QED
        BY <2>2, <4>1, <4>2, <1>9 DEF IInv, Checked, valid
    <3>2. Targets(q)'
      <4>1. SUFFICES ASSUME NEW k \in DOMAIN used[q], pc[q] \in Running,
                            handle'[used[q][k]] # NoData
            PROVE  handle'[used[q][k]].id = asked[q][k]
        BY <2>2, <1>1 DEF Targets, valid
      <4>2. used[q][k] \in Handles /\ Uses(q, used[q][k])
        BY <4>1, UsesEach DEF IInv
      <4>3. valid(used[q][k]) /\ handle'[used[q][k]].id = handle[used[q][k]].id
        BY <2>2, <4>1, <4>2 DEF valid
      <4>4. QED
        BY <4>1, <4>3 DEF IInv, Targets
    <3>3. QED
      BY <3>1, <3>2
  <2>3. QED
    BY <2>1, <2>2
<1>11. ASSUME NEW q \in Ops PROVE Replies(q)' /\ Fresh(q)' /\ Carried(q)'
  <2>1. CASE q = o
    <3>1. Replies(o)' /\ Fresh(o)'
      BY <1>1 DEF Replies, Fresh
    <3>2. Carried(o)'
      BY <1>1 DEF IInv, Carried, Wanted
    <3>3. QED
      BY <2>1, <3>1, <3>2
  <2>2. CASE q # o
    <3>1. Replies(q)'
      BY <2>2, <1>1 DEF IInv, Replies, Wanted
    <3>2. Fresh(q)'
      BY <2>2, <1>1, <1>4, <1>9 DEF IInv, Fresh, valid
    <3>3. Carried(q)'
      BY <2>2, <1>1 DEF IInv, Carried, Wanted
    <3>4. QED
      BY <3>1, <3>2, <3>3
  <2>3. QED
    BY <2>1, <2>2
<1>12. ASSUME NEW q \in Ops PROVE Settled(q)'
  <2>1. CASE q = o
    BY <2>1, <1>1, <1>2 DEF Settled
  <2>2. CASE q # o
    <3>1. SUFFICES ASSUME pc[q] \in Running, kind[q] = "stats", ~mixed[q],
                          NEW k \in DOMAIN used[q]
                   PROVE  SettledAt(q, k)'
      BY <2>2, <1>1 DEF Settled
    <3>2. handle'[used[q][k]] = handle[used[q][k]]
      BY <2>2, <3>1, <1>9, UsesEach DEF IInv
    <3>3. SettledAt(q, k)
      BY <3>1 DEF IInv, Settled
    <3>4. QED
      BY <2>2, <3>2, <3>3, <1>1 DEF SettledAt, valid
  <2>3. QED
    BY <2>1, <2>2
<1>13. QED
  BY <1>5, <1>6, <1>7, <1>8, <1>10, <1>11, <1>12 DEF IInv

\* The data of the Torrents have their types, and are the server's.
LEMMA HandleFacts ==
  ASSUME IInv, NEW h \in Handles
  PROVE  handle[h] \in Data \cup {NoData} /\ (valid(h) <=> handle[h] \in Data)
BY DataFacts DEF IInv, TypeOK, valid

\* An operation of a Torrent wants the torrent its Torrent stands for.
LEMMA OneTarget ==
  ASSUME IInv, NEW o \in Ops, pc[o] \in Running, kind[o] \in TorrentKinds, valid(used[o][1])
  PROVE  Wanted(o) = {handle[used[o][1]].id}
<1>1. PICK i \in Ids : asked[o] = <<i>>
  BY DEF IInv, Arguments
<1>2. 1 \in DOMAIN used[o]
  <2>1. used[o] = <<used[o][1]>>
    BY DEF IInv, Arguments
  <2>2. QED
    BY <2>1, RangeFacts
<1>3. handle[used[o][1]].id = asked[o][1]
  BY <1>2 DEF IInv, Targets
<1>4. Wanted(o) = Range(asked[o]) /\ Range(asked[o]) = {i} /\ asked[o][1] = i
  BY <1>1, RangeFacts DEF Wanted, TorrentKinds
<1>5. QED
  BY <1>3, <1>4

\* An operation returns before anything is sent, since priv_ is null.
LEMMA TorrentInvalidInv ==
  ASSUME IInv, NEW o \in Ops, NEW k \in TorrentKinds, NEW h \in Handles, TorrentInvalid(o, k, h)
  PROVE  IInv'
<1> USE DEF TorrentInvalid
<1>1. /\ kind' \in [Ops -> {"none"} \cup TorrentKinds \cup SessionKinds]
      /\ \A q \in Ops \ {o} : kind'[q] = kind[q]
      /\ applied[o] = 0 /\ phase[o] = "idle" /\ outcome[o] = "none"
  BY DEF IInv, TypeOK, Life
<1>2. pc'[o] = "done" /\ result'[o] = "TorrentInvalid" /\ "done" \notin Running
  BY DEF IInv, TypeOK, Finish, Running
<1>3. Life(o)' /\ Owners(o)'
  BY <1>1, <1>2 DEF Life, Owners, rpcVars
<1>4. QED
  BY <1>1, <1>3, EndInv DEF IInv, TypeOK, rpcVars, serverVars

\* An operation returns before anything is sent, since the Session is destroyed.
LEMMA SessionGoneInv == ASSUME IInv, NEW o \in Ops, SessionGone(o) PROVE IInv'
<1> USE DEF SessionGone
<1>1. phase[o] = "idle" /\ applied[o] = 0 /\ outcome[o] = "none" /\ ~owner
  BY DEF IInv, Life, Alive
<1>2. pc'[o] = "done" /\ result'[o] = "SessionInvalid" /\ "done" \notin Running
  BY DEF IInv, TypeOK, Finish, Running
<1>3. Life(o)' /\ Owners(o)'
  BY <1>1, <1>2 DEF Life, Owners, rpcVars
<1>4. QED
  BY <1>3, EndInv DEF IInv, TypeOK, opVars, rpcVars, serverVars

\* An operation dereferences a priv_ that became null after its check.
LEMMA LockCrashesInv == ASSUME IInv, NEW o \in Ops, LockCrashes(o) PROVE IInv'
<1> USE DEF LockCrashes
<1>1. phase[o] = "idle" /\ applied[o] = 0 /\ outcome[o] = "none"
  BY DEF IInv, Life
<1>2. pc'[o] = "done" /\ result'[o] = "crash" /\ "done" \notin Running
  BY DEF IInv, TypeOK, Finish, Running
<1>3. Life(o)' /\ Owners(o)'
  BY <1>1, <1>2 DEF Life, Owners, rpcVars
<1>4. QED
  BY <1>3, EndInv DEF IInv, TypeOK, opVars, rpcVars, serverVars

\* update stores data of the torrent the Torrent stands for.
LEMMA ApplyUpdateInv == ASSUME IInv, NEW o \in Ops, ApplyUpdate(o) PROVE IInv'
<1> USE DEF ApplyUpdate
<1>1. /\ phase[o] = "returned" /\ outcome[o] \in {"answered", "unanswered"}
      /\ outcome[o] = "answered" => applied[o] = 1
      /\ UNCHANGED <<owner, kind, asked, phase, outcome, applied, present, version>>
  BY DEF IInv, Life, opVars, rpcVars, serverVars
<1>2. ASSUME NEW err \in {"Ok", "crash"}, Finish(o, err) PROVE Life(o)' /\ Owners(o)'
  <2>1. pc'[o] = "done" /\ result'[o] = err /\ "done" \notin Running
    BY <1>2 DEF IInv, TypeOK, Finish, Running
  <2>2. QED
    BY <1>1, <2>1 DEF Life, Owners
<1>3. ASSUME NEW err \in {"Ok", "crash"}, Finish(o, err), UNCHANGED handle PROVE IInv'
  BY <1>1, <1>2, <1>3, EndInv DEF IInv, TypeOK
<1>4. ASSUME NEW d \in Received(o),
             valid(used[o][1]),
             handle' = [handle EXCEPT ![used[o][1]] = d],
             Finish(o, "Ok")
      PROVE  IInv'
  <2> DEFINE h == used[o][1]
  <2>1. h \in Handles /\ Uses(o, h)
    BY UsesOne DEF IInv, Arguments, TorrentKinds, Running
  <2>2. d \in reply[o] /\ d \in Data
    BY DEF Received, IInv, TypeOK
  <2>3. d.id = handle[h].id
    <3>1. d.id \in Wanted(o)
      BY <2>2 DEF IInv, Replies
    <3>2. QED
      BY <1>4, <3>1, OneTarget DEF TorrentKinds, Running
  <2>4. d.version <= version[d.id]
    BY <2>2 DEF IInv, Replies
  <2>5. handle' \in [Handles -> Data \cup {NoData}]
    BY <1>4, <2>2 DEF IInv, TypeOK
  <2>6. handle'[h] = d /\ \A g \in Handles \ {h} : handle'[g] = handle[g]
    BY <1>4, <2>1 DEF IInv, TypeOK
  <2>7. \A g \in Handles : handle'[g] # handle[g] =>
          /\ Uses(o, g) \/ \A q \in Ops : ~Uses(q, g)
          /\ handle'[g] # NoData =>
               /\ Uses(o, g) => valid(g) /\ handle'[g].id = handle[g].id
               /\ handle'[g].version <= version[handle'[g].id]
    BY <1>4, <2>1, <2>3, <2>4, <2>6
  <2>8. Life(o)' /\ Owners(o)'
    BY <1>2, <1>4
  <2>9. QED
    BY <1>1, <1>4, <2>5, <2>7, <2>8, EndInv DEF IInv, TypeOK
<1>5. QED
  BY <1>3, <1>4

\* What is left of a torrent whose data were moved out of the reply.
LEMMA MovedFacts ==
  ASSUME NEW r \in SUBSET Data, NEW d \in r
  PROVE  /\ Moved(r, d) \in SUBSET Data
         /\ \A e \in Moved(r, d) :
              e \in r \/ (e.id = d.id /\ e.version = d.version /\ ~e.full)
         /\ \A e \in r : \E f \in Moved(r, d) : f.id = e.id
<1>1. Hollow(d) \in Data /\ Hollow(d).id = d.id /\ Hollow(d).version = d.version /\ ~Hollow(d).full
  BY DEF Hollow, Data
<1>2. Moved(r, d) \in SUBSET Data
  BY <1>1 DEF Moved
<1>3. \A e \in Moved(r, d) : e \in r \/ (e.id = d.id /\ e.version = d.version /\ ~e.full)
  BY <1>1 DEF Moved
<1>4. ASSUME NEW e \in r PROVE \E f \in Moved(r, d) : f.id = e.id
  <2>1. CASE e = d
    BY <1>1, <2>1 DEF Moved
  <2>2. CASE e # d
    BY <2>2 DEF Moved
  <2>3. QED
    BY <2>1, <2>2
<1>5. QED
  BY <1>2, <1>3, <1>4

\* What a step of updateTorrentStats does: it replaces the data of a Torrent by those
\* of its torrent in the reply, or removes them if the reply has none.
StatsStep(o, h) ==
  \/ /\ \A d \in Received(o) : d.id # handle[h].id
     /\ handle' = [handle EXCEPT ![h] = NoData]
     /\ UNCHANGED reply
  \/ \E d \in Received(o) :
       /\ d.id = handle[h].id
       /\ handle' = [handle EXCEPT ![h] = d]
       /\ reply' = [reply EXCEPT ![o] = Moved(@, d)]

LEMMA StatsStepFacts ==
  ASSUME IInv, NEW o \in Ops, ApplyStats(o)
  PROVE  /\ pc[o] \in Running /\ kind[o] = "stats" /\ next[o] \in DOMAIN used[o]
         /\ used[o][next[o]] \in Handles /\ Uses(o, used[o][next[o]])
         /\ StatsStep(o, used[o][next[o]])
         /\ next' = [next EXCEPT ![o] = @ + 1]
         /\ UNCHANGED <<owner, used, known, mixed, kind, asked, pc, result, phase, outcome,
                        applied, present, version>>
<1> DEFINE h == used[o][next[o]]
           found == {d \in Received(o) : d.id = handle[h].id}
<1> USE DEF ApplyStats
<1>1. pc[o] \in Running
  BY DEF Running
<1>2. h \in Handles /\ Uses(o, h)
  BY <1>1, UsesEach DEF IInv
<1>3. StatsStep(o, h)
  <2>1. CASE found = {} /\ handle' = [handle EXCEPT ![h] = NoData] /\ UNCHANGED reply
    BY <2>1 DEF StatsStep
  <2>2. CASE \E d \in found : /\ handle' = [handle EXCEPT ![h] = d]
                              /\ reply' = [reply EXCEPT ![o] = Moved(@, d)]
    BY <2>2 DEF StatsStep
  <2>3. QED
    BY <2>1, <2>2
<1>4. QED
  BY <1>1, <1>2, <1>3 DEF opVars, rpcVars, serverVars

\* updateTorrentStats goes through its list.
LEMMA ApplyStatsInv == ASSUME IInv, NEW o \in Ops, ApplyStats(o) PROVE IInv'
<1> DEFINE h == used[o][next[o]]
           ReplyChanges ==
             /\ reply' \in [Ops -> SUBSET Data]
             /\ \A q \in Ops \ {o} : reply'[q] = reply[q]
             /\ \A e \in reply[o] : \E f \in reply'[o] : f.id = e.id
             /\ \A e \in reply'[o] :
                  \E d \in reply[o] :
                    /\ e.id = d.id /\ e.version = d.version
                    /\ e = d \/ d.id = handle[h].id
           HandleChanges ==
             /\ \A g \in Handles \ {h} : handle'[g] = handle[g]
             /\ handle' \in [Handles -> Data \cup {NoData}]
             /\ \/ handle'[h] = NoData /\ \A d \in Received(o) : d.id # handle[h].id
                \/ handle'[h] \in Received(o) /\ handle'[h].id = handle[h].id /\ valid(h)
<1>1. /\ pc[o] \in Running /\ kind[o] = "stats" /\ next[o] \in DOMAIN used[o]
      /\ h \in Handles /\ Uses(o, h) /\ StatsStep(o, h)
      /\ next' = [next EXCEPT ![o] = @ + 1]
      /\ UNCHANGED <<owner, used, known, mixed, kind, asked, pc, result, phase, outcome,
                     applied, present, version>>
  BY StatsStepFacts
<1>2. /\ pc[o] = "applying" /\ phase[o] = "returned"
      /\ outcome[o] = "unanswered" \/ (outcome[o] = "answered" /\ applied[o] = 1)
  <2>1. pc[o] = "applying"
    BY DEF ApplyStats
  <2>2. QED
    BY <2>1 DEF IInv, Life
<1>3. valid(h) => handle[h].id = asked[o][next[o]]
  BY <1>1 DEF IInv, Targets
<1>4. /\ next' \in [Ops -> Nat \ {0}] /\ next[o] \in Nat /\ next'[o] = next[o] + 1
      /\ \A q \in Ops \ {o} : next'[q] = next[q]
  BY <1>1 DEF IInv, TypeOK
<1>5. ReplyChanges
  <2>1. reply \in [Ops -> SUBSET Data] /\ Received(o) \subseteq reply[o]
    BY DEF Received, IInv, TypeOK
  <2>2. CASE UNCHANGED reply
    BY <2>1, <2>2
  <2>3. ASSUME NEW d \in Received(o), d.id = handle[h].id,
               reply' = [reply EXCEPT ![o] = Moved(@, d)]
        PROVE  ReplyChanges
    <3>1. d \in reply[o] /\ reply[o] \in SUBSET Data
      BY <2>1
    <3>2. reply'[o] = Moved(reply[o], d) /\ \A q \in Ops \ {o} : reply'[q] = reply[q]
      BY <2>1, <2>3
    <3>3. reply' \in [Ops -> SUBSET Data]
      BY <2>1, <2>3, <3>1, MovedFacts
    <3>4. QED
      BY <2>3, <3>1, <3>2, <3>3, MovedFacts
  <2>4. QED
    BY <1>1, <2>2, <2>3 DEF StatsStep
<1>6. HandleChanges
  <2>1. handle \in [Handles -> Data \cup {NoData}] /\ Received(o) \subseteq Data
    BY DEF Received, IInv, TypeOK
  <2>2. CASE handle' = [handle EXCEPT ![h] = NoData] /\ \A d \in Received(o) : d.id # handle[h].id
    BY <1>1, <2>1, <2>2
  <2>3. ASSUME NEW d \in Received(o), d.id = handle[h].id, handle' = [handle EXCEPT ![h] = d]
        PROVE  HandleChanges
    <3>1. valid(h)
      BY <2>1, <2>3, DataFacts DEF valid
    <3>2. QED
      BY <1>1, <2>1, <2>3, <3>1
  <2>4. QED
    BY <1>1, <2>2, <2>3 DEF StatsStep
<1> HIDE DEF h
<1>7. \A d \in Received(o) :
        /\ d \in reply[o] /\ d \in Data /\ d # NoData
        /\ known[o][d.id] <= d.version /\ d.version <= version[d.id]
        /\ ~d.full => \E j \in DOMAIN used[o] : j < next[o] /\ asked[o][j] = d.id
  BY DataFacts DEF Received, IInv, TypeOK, Replies
<1>8. \A g \in Handles : handle'[g] # NoData => valid(g) /\ handle'[g].id = handle[g].id
  BY <1>6 DEF valid
<1>9. \A q \in Ops : \A g : Uses(q, g)' <=> Uses(q, g)
  BY <1>1 DEF Uses
<1>10. TypeOK'
  BY <1>1, <1>4, <1>5, <1>6 DEF IInv, TypeOK
<1>11. ASSUME NEW q \in Ops PROVE Life(q)' /\ Arguments(q)' /\ Owners(q)'
  <2>1. Life(q)' /\ Owners(q)'
    BY <1>1 DEF IInv, Life, Owners
  <2>2. Arguments(q)'
    BY <1>1, <1>2, <1>4 DEF IInv, Arguments
  <2>3. QED
    BY <2>1, <2>2
<1>12. Sharing' /\ Known'
  <2>1. Sharing'
    BY <1>1, <1>9 DEF IInv, Sharing
  <2>2. ASSUME NEW g \in Handles, handle'[g] # NoData
        PROVE  handle'[g].version <= version[handle'[g].id]
    BY <1>6, <1>7, <1>8, <2>2 DEF IInv, Known
  <2>3. QED
    BY <1>1, <2>1, <2>2 DEF IInv, Known, valid
<1>13. ASSUME NEW q \in Ops, q # o, NEW g \in Handles, Uses(q, g), ~mixed[q]
       PROVE  handle'[g] = handle[g]
  BY <1>1, <1>6, <1>13 DEF IInv, Sharing
<1>14. ASSUME NEW q \in Ops PROVE Checked(q)' /\ Targets(q)'
  <2>1. Checked(q)'
    <3>1. SUFFICES ASSUME pc[q] \in Running, kind[q] \in TorrentKinds, ~mixed[q]
                   PROVE  handle'[used[q][1]] # NoData
      BY <1>1 DEF Checked, valid
    <3>2. q # o
      BY <1>1, <3>1 DEF TorrentKinds
    <3>3. used[q][1] \in Handles /\ Uses(q, used[q][1])
      BY <3>1, UsesOne DEF IInv, Arguments
    <3>4. QED
      BY <3>1, <3>2, <3>3, <1>13 DEF IInv, Checked, valid
  <2>2. Targets(q)'
    <3>1. SUFFICES ASSUME NEW k \in DOMAIN used[q], pc[q] \in Running,
                          handle'[used[q][k]] # NoData
                   PROVE  handle'[used[q][k]].id = asked[q][k]
      BY <1>1 DEF Targets, valid
    <3>2. used[q][k] \in Handles
      BY <3>1, UsesEach DEF IInv
    <3>3. QED
      BY <1>8, <3>1, <3>2 DEF IInv, Targets
  <2>3. QED
    BY <2>1, <2>2
<1>15. ASSUME NEW q \in Ops PROVE Replies(q)' /\ Fresh(q)' /\ Carried(q)'
  <2>1. CASE q = o
    <3>1. Replies(o)'
      <4>1. ASSUME NEW e \in reply'[o]
            PROVE  /\ e.id \in Wanted(o) /\ known[o][e.id] <= e.version
                   /\ e.version <= version[e.id]
                   /\ ~e.full => \E j \in DOMAIN used[o] : j < next[o] + 1 /\ asked[o][j] = e.id
        <5>1. PICK d \in reply[o] :
                e.id = d.id /\ e.version = d.version /\ (e = d \/ d.id = handle[h].id)
          BY <1>5
        <5>2. /\ d.id \in Wanted(o) /\ known[o][d.id] <= d.version /\ d.version <= version[d.id]
              /\ ~d.full => \E j \in DOMAIN used[o] : j < next[o] /\ asked[o][j] = d.id
          BY DEF IInv, Replies
        <5>3. DOMAIN used[o] \subseteq Nat
          BY DEF IInv, TypeOK
        <5>4. CASE e = d
          BY <1>4, <5>2, <5>3, <5>4
        <5>5. CASE d.id = handle[h].id
          <6>1. valid(h)
            BY <5>5, DataFacts DEF valid, IInv, TypeOK
          <6>2. next[o] \in DOMAIN used[o] /\ next[o] < next[o] + 1 /\ asked[o][next[o]] = e.id
            BY <1>1, <1>3, <1>4, <5>1, <5>5, <6>1
          <6>3. QED
            BY <5>1, <5>2, <6>2
        <5>6. QED
          BY <5>1, <5>4, <5>5
      <4>2. \A d, e \in reply'[o] : d.id = e.id => d.version = e.version
        BY <1>5 DEF IInv, Replies
      <4>3. QED
        BY <1>1, <1>2, <1>4, <4>1, <4>2 DEF Replies, Wanted
    <3>2. Fresh(o)'
      <4>1. SUFFICES ASSUME NEW g \in Handles, NEW e \in reply'[o],
                            Uses(o, g), handle'[g] # NoData, ~mixed[o], e.id = handle'[g].id
                     PROVE  handle'[g].version <= e.version
        BY <1>1, <1>9 DEF Fresh, valid
      <4>2. PICK d \in reply[o] : e.id = d.id /\ e.version = d.version
        BY <1>5
      <4>3. CASE g = h
        <5>1. handle'[g] \in reply[o] /\ handle'[g].id = d.id
          BY <1>6, <1>7, <4>1, <4>2, <4>3
        <5>2. handle'[g].version = d.version /\ d.version \in Nat
          BY <5>1, DataFacts DEF IInv, Replies, TypeOK
        <5>3. QED
          BY <4>2, <5>2
      <4>4. CASE g # h
        BY <1>6, <4>1, <4>2, <4>4 DEF IInv, Fresh, valid
      <4>5. QED
        BY <4>3, <4>4
    <3>3. Carried(o)'
      <4>1. Wanted(o)' = Wanted(o)
        BY <1>1 DEF Wanted
      <4>2. \A i \in Wanted(o) \cap present :
              (\E d \in reply[o] : d.id = i) => \E d \in reply'[o] : d.id = i
        BY <1>5
      <4>3. QED
        BY <1>1, <4>1, <4>2 DEF IInv, Carried
    <3>4. QED
      BY <2>1, <3>1, <3>2, <3>3
  <2>2. CASE q # o
    <3>1. Replies(q)'
      BY <2>2, <1>1, <1>4, <1>5 DEF IInv, Replies, Wanted
    <3>2. Fresh(q)'
      BY <2>2, <1>1, <1>5, <1>9, <1>13 DEF IInv, Fresh, valid
    <3>3. Carried(q)'
      BY <2>2, <1>1, <1>5 DEF IInv, Carried, Wanted
    <3>4. QED
      BY <3>1, <3>2, <3>3
  <2>3. QED
    BY <2>1, <2>2
<1>16. ASSUME NEW q \in Ops PROVE Settled(q)'
  <2>1. SUFFICES ASSUME pc[q] \in Running, kind[q] = "stats", ~mixed[q], NEW k \in DOMAIN used[q]
                 PROVE  SettledAt(q, k)'
    BY <1>1 DEF Settled
  <2>2. SettledAt(q, k) /\ used[q][k] \in Handles /\ Uses(q, used[q][k])
    BY <2>1, UsesEach DEF IInv, Settled
  <2>3. CASE q # o
    <3>1. handle'[used[q][k]] = handle[used[q][k]]
      BY <2>1, <2>2, <2>3, <1>13
    <3>2. QED
      BY <2>2, <2>3, <3>1, <1>1, <1>4 DEF SettledAt, valid
  <2>4. CASE q = o /\ used[o][k] # h
    <3>1. handle'[used[o][k]] = handle[used[o][k]] /\ k # next[o]
      BY <2>2, <2>4, <1>6 DEF h
    <3>2. k \in Nat /\ (k < next[o] + 1 => k < next[o])
      BY <2>1, <2>4, <3>1, <1>4 DEF IInv, TypeOK
    <3>3. QED
      BY <2>2, <2>4, <3>1, <3>2, <1>1, <1>4 DEF SettledAt, valid
  <2>5. CASE q = o /\ used[o][k] = h
    <3>1. valid(h) => handle[h].id = asked[o][k]
      BY <2>1, <2>5 DEF IInv, Targets
    <3>2. ASSUME asked[o][k] \in present, outcome[o] # "unanswered"
          PROVE  handle'[h] # NoData
      <4>1. valid(h)
        BY <2>2, <2>5, <3>2 DEF SettledAt
      <4>2. asked[o][k] \in Wanted(o)
        BY <2>1, <2>5 DEF Wanted, Range, IInv, Arguments
      <4>3. PICK d \in reply[o] : d.id = asked[o][k]
        BY <1>1, <1>2, <3>2, <4>2 DEF IInv, Carried, Reading
      <4>4. d \in Received(o)
        BY <1>2, <3>2 DEF Received
      <4>5. QED
        BY <3>1, <4>1, <4>3, <4>4, <1>6, <1>7
    <3>3. ASSUME handle'[h] # NoData
          PROVE  /\ known[o][asked[o][k]] <= handle'[h].version
                 /\ ~handle'[h].full =>
                      \E i, j \in DOMAIN used[o] :
                        i < j /\ used[o][j] = h /\ asked[o][i] = asked[o][j]
      <4>1. handle'[h] \in Received(o) /\ handle'[h].id = asked[o][k]
            /\ handle'[h].id = asked[o][next[o]]
        BY <3>1, <3>3, <1>3, <1>6
      <4>2. known[o][asked[o][k]] <= handle'[h].version
        BY <4>1, <1>7
      <4>3. ASSUME ~handle'[h].full
            PROVE  \E i \in DOMAIN used[o] : i < next[o] /\ asked[o][i] = asked[o][next[o]]
        BY <4>1, <4>3, <1>7
      <4>4. QED
        BY <4>2, <4>3, <1>1 DEF h
    <3>4. QED
      BY <2>5, <3>2, <3>3, <1>1 DEF SettledAt, valid
  <2>6. QED
    BY <2>3, <2>4, <2>5
<1>17. QED
  BY <1>10, <1>11, <1>12, <1>14, <1>15, <1>16 DEF IInv

\* updateTorrentStats returns.
LEMMA EndStatsInv == ASSUME IInv, NEW o \in Ops, EndStats(o) PROVE IInv'
<1> USE DEF EndStats
<1>1. /\ phase[o] = "returned" /\ outcome[o] \in {"answered", "unanswered"}
      /\ outcome[o] = "answered" => applied[o] = 1
      /\ UNCHANGED <<owner, handle, kind, asked, phase, outcome, applied, present, version>>
  BY DEF IInv, Life, opVars, rpcVars, serverVars
<1>2. pc'[o] = "done" /\ result'[o] = "Ok" /\ "done" \notin Running
  BY DEF IInv, TypeOK, Finish, Running
<1>3. Life(o)' /\ Owners(o)'
  BY <1>1, <1>2 DEF Life, Owners
<1>4. Finish(o, "Ok")
  OBVIOUS
<1>5. QED
  BY <1>1, <1>3, <1>4, EndInv DEF IInv, TypeOK

\* torrents stores what the server sent in Torrents that nobody uses.
LEMMA ApplyListInv == ASSUME IInv, NEW o \in Ops, ApplyList(o) PROVE IInv'
<1> USE DEF ApplyList
<1>1. /\ phase[o] = "returned" /\ outcome[o] \in {"answered", "unanswered"}
      /\ outcome[o] = "answered" => applied[o] = 1
      /\ UNCHANGED <<owner, kind, asked, phase, outcome, applied, present, version>>
  BY DEF IInv, Life, opVars, rpcVars, serverVars
<1>2. pc'[o] = "done" /\ result'[o] = "Ok" /\ "done" \notin Running
  BY DEF IInv, TypeOK, Finish, Running
<1>3. Life(o)' /\ Owners(o)'
  BY <1>1, <1>2 DEF Life, Owners
<1>4. PICK S \in SUBSET {h \in Handles : \A q \in Ops : ~Uses(q, h)} :
        \E f \in [S -> Received(o)] :
          handle' = [h \in Handles |-> IF h \in S THEN f[h] ELSE handle[h]]
  OBVIOUS
<1>5. PICK f \in [S -> Received(o)] :
        handle' = [h \in Handles |-> IF h \in S THEN f[h] ELSE handle[h]]
  BY <1>4
<1>6. \A d \in Received(o) : d \in Data /\ d.version <= version[d.id]
  BY DEF Received, IInv, TypeOK, Replies
<1>7. handle' \in [Handles -> Data \cup {NoData}]
  BY <1>5, <1>6, HandleFacts
<1>8. \A h \in Handles : handle'[h] # handle[h] =>
        (\A q \in Ops : ~Uses(q, h)) /\ handle'[h].version <= version[handle'[h].id]
  BY <1>5, <1>6
<1>9. Finish(o, "Ok")
  OBVIOUS
<1>10. QED
  BY <1>1, <1>3, <1>7, <1>8, <1>9, EndInv DEF IInv, TypeOK

\* sendRequest returns, and the operation ends or uses the reply.
LEMMA ReturnedInv ==
  ASSUME IInv, NEW o \in Ops, NEW out \in Rpc!Outcomes \ {"none"}, Returned(o, out)
  PROVE  IInv'
<1> USE DEF Returned
<1>1. /\ pc[o] = "calling" /\ phase[o] = "running" /\ applied' = applied
      /\ phase' \in [Ops -> Rpc!Phases] /\ outcome' \in [Ops -> Rpc!Outcomes]
      /\ phase'[o] = "returned" /\ outcome'[o] = out
      /\ \A q \in Ops \ {o} : phase'[q] = phase[q] /\ outcome'[q] = outcome[q]
      /\ out = "answered" => applied[o] = 1
      /\ UNCHANGED <<owner, handle, kind, asked, present, version>>
  BY DEF IInv, Life, TypeOK, Rpc!Return, Rpc!Phases, opVars, serverVars
<1>2. ErrorOf(out) \in {"Ok", "Server", "Transport"}
      /\ (ErrorOf(out) = "Ok" => out \in {"answered", "unanswered"})
  BY DEF ErrorOf, Rpc!Outcomes
<1>3. CASE ~UsesReply(o, ErrorOf(out))
  <2>1. Finish(o, ErrorOf(out))
    BY <1>3
  <2>2. pc'[o] = "done" /\ result'[o] = ErrorOf(out) /\ "done" \notin Running
    BY <2>1 DEF IInv, TypeOK, Finish, Running
  <2>3. Life(o)' /\ Owners(o)'
    BY <1>1, <1>2, <2>2 DEF Life, Owners
  <2>4. QED
    BY <1>1, <1>2, <2>1, <2>3, EndInv DEF IInv, TypeOK
<1>4. CASE UsesReply(o, ErrorOf(out))
  <2>1. /\ pc' = [pc EXCEPT ![o] = "applying"]
        /\ UNCHANGED <<used, next, reply, known, mixed, result>>
    BY <1>4 DEF locals
  <2>2. /\ pc'[o] = "applying" /\ \A q \in Ops \ {o} : pc'[q] = pc[q]
        /\ pc' \in [Ops -> {"idle", "done"} \cup Running]
    BY <2>1 DEF IInv, TypeOK, Running
  <2>3. \A q \in Ops : pc'[q] \in Running <=> pc[q] \in Running
    BY <1>1, <2>2 DEF Running
  <2>4. \A q \in Ops : \A h : Uses(q, h)' <=> Uses(q, h)
    BY <2>1, <2>3 DEF Uses
  <2>5. TypeOK'
    BY <1>1, <2>1, <2>2 DEF IInv, TypeOK
  <2>6. ASSUME NEW q \in Ops PROVE Life(q)' /\ Arguments(q)' /\ Owners(q)'
    <3>1. CASE q = o
      <4>1. Life(o)'
        BY <1>1, <1>2, <1>4, <2>1, <2>2, <2>3 DEF IInv, Life, UsesReply, Reading, Running
      <4>2. Arguments(o)' /\ Owners(o)'
        BY <1>1, <2>1, <2>2, <2>3 DEF IInv, Arguments, Owners, Life, Running
      <4>3. QED
        BY <3>1, <4>1, <4>2
    <3>2. CASE q # o
      BY <3>2, <1>1, <2>1, <2>2 DEF IInv, Life, Arguments, Owners
    <3>3. QED
      BY <3>1, <3>2
  <2>7. Sharing' /\ Known'
    BY <1>1, <2>1, <2>4 DEF IInv, Sharing, Known, valid
  <2>8. ASSUME NEW q \in Ops PROVE Checked(q)' /\ Targets(q)'
    BY <1>1, <2>1, <2>3, <2>4 DEF IInv, Checked, Targets, valid
  <2>9. ASSUME NEW q \in Ops PROVE Replies(q)' /\ Fresh(q)' /\ Carried(q)'
    <3>1. Replies(q)'
      BY <1>1, <2>1, <2>2 DEF IInv, Replies, Wanted
    <3>2. Fresh(q)'
      BY <1>1, <2>1, <2>4 DEF IInv, Fresh, valid
    <3>3. Carried(q)'
      BY <1>1, <2>1, <2>2 DEF IInv, Carried, Wanted
    <3>4. QED
      BY <3>1, <3>2, <3>3
  <2>10. ASSUME NEW q \in Ops PROVE Settled(q)'
    <3>1. CASE q = o
      <4>1. outcome[o] = "none" /\ next[o] = 1
        BY <1>1 DEF IInv, Life, Arguments
      <4>2. SUFFICES ASSUME pc[o] \in Running, kind[o] = "stats", ~mixed[o],
                            NEW k \in DOMAIN used[o]
                     PROVE  SettledAt(o, k)'
        BY <1>1, <2>1, <2>3, <3>1 DEF Settled
      <4>3. SettledAt(o, k) /\ ~(k < 1)
        BY <4>2 DEF IInv, Settled, TypeOK
      <4>4. QED
        BY <1>1, <2>1, <4>1, <4>3 DEF SettledAt, valid
    <3>2. CASE q # o
      BY <3>2, <1>1, <2>1, <2>3 DEF IInv, Settled, SettledAt, valid
    <3>3. QED
      BY <3>1, <3>2
  <2>11. QED
    BY <2>5, <2>6, <2>7, <2>8, <2>9, <2>10 DEF IInv
<1>5. QED
  BY <1>3, <1>4

-----------------------------------------------------------------------------
(***************************************************************************)
(* The steps in between.                                                   *)
(***************************************************************************)
\* An operation takes its share of the SessionPrivate and calls sendRequest.
LEMMA LockSessionInv == ASSUME IInv, NEW o \in Ops, LockSession(o) PROVE IInv'
<1> USE DEF LockSession
<1>1. /\ pc[o] = "checked" /\ phase[o] = "idle" /\ kind[o] \in TorrentKinds
      /\ phase' \in [Ops -> Rpc!Phases] /\ phase'[o] = "running"
      /\ \A q \in Ops \ {o} : phase'[q] = phase[q]
      /\ UNCHANGED <<owner, handle, used, next, reply, known, mixed, kind, asked, result,
                     outcome, applied, present, version>>
  BY DEF IInv, Life, TypeOK, Rpc!Start, Rpc!Phases, locals, opVars, serverVars
<1>2. /\ pc'[o] = "calling" /\ \A q \in Ops \ {o} : pc'[q] = pc[q]
      /\ pc' \in [Ops -> {"idle", "done"} \cup Running]
  BY DEF IInv, TypeOK, Running
<1>3. \A q \in Ops : pc'[q] \in Running <=> pc[q] \in Running
  BY <1>1, <1>2 DEF Running
<1>4. \A q \in Ops : \A h : Uses(q, h)' <=> Uses(q, h)
  BY <1>1, <1>3 DEF Uses
<1>5. TypeOK'
  BY <1>1, <1>2 DEF IInv, TypeOK
<1>6. ASSUME NEW q \in Ops PROVE Life(q)' /\ Arguments(q)' /\ Owners(q)'
  <2>1. CASE q = o
    <3>1. Life(o)'
      BY <1>1, <1>2, <1>3 DEF IInv, Life, Running
    <3>2. Arguments(o)' /\ Owners(o)'
      BY <1>1, <1>2, <1>3 DEF IInv, Arguments, Owners, TorrentKinds, SessionKinds, Life, Running
    <3>3. QED
      BY <2>1, <3>1, <3>2
  <2>2. CASE q # o
    BY <2>2, <1>1, <1>2 DEF IInv, Life, Arguments, Owners
  <2>3. QED
    BY <2>1, <2>2
<1>7. Sharing' /\ Known'
  BY <1>1, <1>4 DEF IInv, Sharing, Known, valid
<1>8. ASSUME NEW q \in Ops PROVE Checked(q)' /\ Targets(q)'
  BY <1>1, <1>3, <1>4 DEF IInv, Checked, Targets, valid
<1>9. ASSUME NEW q \in Ops PROVE Replies(q)' /\ Fresh(q)' /\ Carried(q)'
  <2>1. Replies(q)'
    BY <1>1, <1>2 DEF IInv, Replies, Wanted
  <2>2. Fresh(q)'
    BY <1>1, <1>4 DEF IInv, Fresh, valid
  <2>3. Carried(q)'
    <3>1. applied[o] = 0
      BY <1>1 DEF IInv, Life
    <3>2. QED
      BY <1>1, <1>2, <3>1 DEF IInv, Carried, Wanted
  <2>4. QED
    BY <2>1, <2>2, <2>3
<1>10. ASSUME NEW q \in Ops PROVE Settled(q)'
  BY <1>1, <1>3 DEF IInv, Settled, SettledAt, valid
<1>11. QED
  BY <1>5, <1>6, <1>7, <1>8, <1>9, <1>10 DEF IInv

\* The Torrents, the server and the replies change only as the server allows: its
\* versions grow, its torrents go.
LEMMA ServerInv ==
  ASSUME IInv, NEW o \in Ops,
         UNCHANGED <<owner, handle, used, next, known, mixed, kind, asked, pc, result, phase,
                     outcome>>,
         applied' \in [Ops -> {0, 1}],
         reply' \in [Ops -> SUBSET Data],
         \A q \in Ops \ {o} : applied'[q] = applied[q] /\ reply'[q] = reply[q],
         present' \subseteq present,
         version' \in [Ids -> 0 .. MaxVersion], \A i \in Ids : version[i] <= version'[i],
         Life(o)', Replies(o)', Fresh(o)', Carried(o)'
  PROVE  IInv'
<1>1. TypeOK'
  BY DEF IInv, TypeOK
<1>2. ASSUME NEW q \in Ops PROVE Life(q)' /\ Arguments(q)' /\ Owners(q)'
  <2>1. Life(q)'
    BY DEF IInv, Life
  <2>2. QED
    BY <2>1 DEF IInv, Arguments, Owners
<1>3. \A q \in Ops : \A h : Uses(q, h)' <=> Uses(q, h)
  BY DEF Uses
<1>4. Sharing'
  BY <1>3 DEF IInv, Sharing
<1>5. Known'
  <2>1. ASSUME NEW h \in Handles, valid(h)
        PROVE  handle[h].version <= version'[handle[h].id]
    <3>1. /\ handle[h].id \in Ids /\ handle[h].version \in Nat
          /\ handle[h].version <= version[handle[h].id]
      BY <2>1, HandleFacts, DataFacts DEF IInv, Known
    <3>2. version[handle[h].id] \in Nat /\ version'[handle[h].id] \in Nat
      BY <3>1 DEF IInv, TypeOK
    <3>3. QED
      BY <3>1, <3>2
  <2>2. ASSUME NEW q \in Ops, NEW i \in Ids PROVE known[q][i] <= version'[i]
    <3>1. known[q][i] \in Nat /\ version[i] \in Nat /\ version'[i] \in Nat
      BY DEF IInv, TypeOK
    <3>2. QED
      BY <3>1 DEF IInv, Known
  <2>3. QED
    BY <2>1, <2>2 DEF Known, valid
<1>6. ASSUME NEW q \in Ops PROVE Checked(q)' /\ Targets(q)'
  BY <1>3 DEF IInv, Checked, Targets, valid
<1>7. ASSUME NEW q \in Ops, q # o PROVE Replies(q)' /\ Fresh(q)' /\ Carried(q)'
  <2>1. Replies(q)'
    <3>1. ASSUME NEW d \in reply[q] PROVE d.version <= version'[d.id]
      <4>1. d.id \in Ids /\ d.version \in Nat /\ d.version <= version[d.id]
        BY DataFacts DEF IInv, TypeOK, Replies
      <4>2. version[d.id] \in Nat /\ version'[d.id] \in Nat
        BY <4>1 DEF IInv, TypeOK
      <4>3. QED
        BY <4>1, <4>2
    <3>2. QED
      BY <1>7, <3>1 DEF IInv, Replies, Wanted
  <2>2. Fresh(q)'
    BY <1>3, <1>7 DEF IInv, Fresh, valid
  <2>3. Carried(q)'
    BY <1>7 DEF IInv, Carried, Wanted
  <2>4. QED
    BY <2>1, <2>2, <2>3
<1>8. ASSUME NEW q \in Ops PROVE Settled(q)'
  BY DEF IInv, Settled, SettledAt, valid
<1>9. QED
  BY <1>1, <1>2, <1>4, <1>5, <1>6, <1>7, <1>8 DEF IInv

\* The server carries a call out, and answers with what it has then.
LEMMA ExecuteInv == ASSUME IInv, NEW o \in Ops, Execute(o) PROVE IInv'
<1> USE DEF Execute
<1>1. /\ applied[o] = 0 /\ applied'[o] = 1 /\ applied' \in [Ops -> {0, 1}]
      /\ \A q \in Ops \ {o} : applied'[q] = applied[q]
      /\ phase' = phase /\ outcome' = outcome
      /\ phase[o] = "running" \/ outcome[o] = "unknown"
      /\ UNCHANGED <<owner, handle, used, next, known, mixed, kind, asked, pc, result, phase,
                     outcome>>
      /\ Wanted(o)' = Wanted(o)
  BY DEF Rpc!Apply, IInv, TypeOK, opVars, Wanted
<1>2. pc[o] \in {"calling", "done"}
  BY <1>1 DEF IInv, TypeOK, Life, Running
<1>3. Life(o)'
  <2>1. phase[o] # "idle"
    BY <1>1 DEF IInv, Life
  <2>2. QED
    BY <1>1, <2>1 DEF IInv, Life
<1>4. CASE kind[o] = "command" /\ UNCHANGED <<present, reply>>
  <2>1. PICK S \in SUBSET (Wanted(o) \cap present) :
          /\ \A i \in S : version[i] < MaxVersion
          /\ version' = [i \in Ids |-> version[i] + (IF i \in S THEN 1 ELSE 0)]
    BY <1>4
  <2>2. ASSUME NEW i \in Ids
        PROVE  version'[i] \in 0 .. MaxVersion /\ version[i] <= version'[i]
    <3>1. version[i] \in 0 .. MaxVersion /\ MaxVersion \in Nat
      BY TorrentsAssumption DEF IInv, TypeOK
    <3>2. CASE i \in S
      BY <2>1, <3>1, <3>2
    <3>3. CASE i \notin S
      BY <2>1, <3>1, <3>3
    <3>4. QED
      BY <3>2, <3>3
  <2>3. version' \in [Ids -> 0 .. MaxVersion]
    BY <2>1, <2>2
  <2>4. Replies(o)'
    <3>1. ASSUME NEW d \in reply[o] PROVE d.version <= version'[d.id]
      <4>1. d.id \in Ids /\ d.version \in Nat /\ d.version <= version[d.id]
        BY DataFacts DEF IInv, TypeOK, Replies
      <4>2. version[d.id] \in Nat /\ version'[d.id] \in Nat
        BY <2>3, <4>1 DEF IInv, TypeOK
      <4>3. QED
        BY <2>2, <4>1, <4>2
    <3>2. QED
      BY <1>1, <1>4, <3>1 DEF IInv, Replies
  <2>5. Fresh(o)'
    BY <1>1, <1>4 DEF IInv, Fresh, Uses, valid
  <2>6. Carried(o)'
    BY <1>1, <1>4 DEF Carried, Reading
  <2>7. QED
    BY <1>1, <1>3, <1>4, <2>2, <2>3, <2>4, <2>5, <2>6, ServerInv DEF IInv, TypeOK
<1>5. CASE kind[o] = "remove" /\ present' = present \ Wanted(o) /\ UNCHANGED <<version, reply>>
  <2>1. Replies(o)' /\ Fresh(o)'
    BY <1>1, <1>5 DEF IInv, Replies, Fresh, Uses, valid
  <2>2. Carried(o)'
    BY <1>1, <1>5 DEF Carried, Reading
  <2>3. version' \in [Ids -> 0 .. MaxVersion] /\ \A i \in Ids : version[i] <= version'[i]
    BY <1>5 DEF IInv, TypeOK
  <2>4. QED
    BY <1>1, <1>3, <1>5, <2>1, <2>2, <2>3, ServerInv DEF IInv, TypeOK
<1>6. CASE /\ kind[o] \in Reading
           /\ reply' = [reply EXCEPT ![o] = IF pc[o] = "calling" THEN Snapshot(Wanted(o)) ELSE {}]
           /\ UNCHANGED <<present, version>>
  <2>1. \A d \in Snapshot(Wanted(o)) :
          /\ d \in Data /\ d.id \in Ids /\ d.id \in Wanted(o) \cap present /\ d.full
          /\ d.version = version[d.id]
    <3>1. SUFFICES ASSUME NEW i \in Wanted(o) \cap present,
                          NEW d, d = [id |-> i, version |-> version[i], full |-> TRUE]
          PROVE  /\ d \in Data /\ d.id \in Ids /\ d.id \in Wanted(o) \cap present /\ d.full
                 /\ d.version = version[d.id]
      BY DEF Snapshot
    <3>2. i \in Ids /\ version[i] \in 0 .. MaxVersion
      BY DEF IInv, TypeOK
    <3>3. QED
      BY <3>1, <3>2 DEF Data
  <2>2. \A i \in Wanted(o) \cap present : \E d \in Snapshot(Wanted(o)) : d.id = i
    <3>1. SUFFICES ASSUME NEW i \in Wanted(o) \cap present
          PROVE  \E d \in Snapshot(Wanted(o)) : d.id = i
      OBVIOUS
    <3>2. [id |-> i, version |-> version[i], full |-> TRUE] \in Snapshot(Wanted(o))
      BY DEF Snapshot
    <3>3. QED
      BY <3>2
  <2>3. /\ reply'[o] = IF pc[o] = "calling" THEN Snapshot(Wanted(o)) ELSE {}
        /\ \A q \in Ops \ {o} : reply'[q] = reply[q]
        /\ reply' \in [Ops -> SUBSET Data]
    BY <1>6, <2>1 DEF IInv, TypeOK
  <2>4. Replies(o)'
    <3>1. \A i \in Ids : known[o][i] <= version[i] /\ version[i] <= version[i]
      BY DEF IInv, Known, TypeOK
    <3>2. QED
      BY <1>1, <1>6, <2>1, <2>3, <3>1 DEF Replies
  <2>5. Fresh(o)'
    BY <1>1, <1>6, <2>1, <2>3 DEF IInv, Fresh, Known, Uses, valid
  <2>6. Carried(o)'
    BY <1>1, <1>2, <1>6, <2>2, <2>3 DEF Carried, Reading
  <2>7. version' \in [Ids -> 0 .. MaxVersion] /\ \A i \in Ids : version[i] <= version'[i]
    BY <1>6 DEF IInv, TypeOK
  <2>8. QED
    BY <1>1, <1>3, <1>6, <2>3, <2>4, <2>5, <2>6, <2>7, ServerInv
<1>7. CASE kind[o] = "query" /\ UNCHANGED <<reply, present, version>>
  <2>1. Replies(o)' /\ Fresh(o)'
    BY <1>1, <1>7 DEF IInv, Replies, Fresh, Uses, valid
  <2>2. Carried(o)'
    BY <1>1, <1>7 DEF Carried, Reading
  <2>3. version' \in [Ids -> 0 .. MaxVersion] /\ \A i \in Ids : version[i] <= version'[i]
    BY <1>7 DEF IInv, TypeOK
  <2>4. QED
    BY <1>1, <1>3, <1>7, <2>1, <2>2, <2>3, ServerInv DEF IInv, TypeOK
<1>8. QED
  BY <1>4, <1>5, <1>6, <1>7 DEF Reading, serverVars

\* A torrent changes on the server, or goes.
LEMMA ChangeInv == ASSUME IInv, NEW i \in Ids, Change(i) PROVE IInv'
<1> USE DEF Change
<1>1. UNCHANGED <<owner, handle, used, next, reply, known, mixed, kind, asked, pc, result,
                  phase, outcome, applied>>
  BY DEF locals, opVars, rpcVars
<1>2. present' \subseteq present
  OBVIOUS
<1>3. version' \in [Ids -> 0 .. MaxVersion] /\ \A j \in Ids : version[j] <= version'[j]
  <2>1. \A j \in Ids : version[j] \in 0 .. MaxVersion
    BY DEF IInv, TypeOK
  <2>2. MaxVersion \in Nat
    BY TorrentsAssumption
  <2>3. CASE version[i] < MaxVersion /\ version' = [version EXCEPT ![i] = @ + 1]
    <3>1. version[i] + 1 \in 0 .. MaxVersion /\ version[i] <= version[i] + 1
      BY <2>1, <2>2, <2>3
    <3>2. QED
      BY <2>1, <2>3, <3>1 DEF IInv, TypeOK
  <2>4. CASE UNCHANGED version
    BY <2>1, <2>4 DEF IInv, TypeOK
  <2>5. QED
    BY <2>3, <2>4
<1>4. TypeOK'
  BY <1>1, <1>2, <1>3 DEF IInv, TypeOK
<1>5. CASE Ops = {}
  <2>1. Known'
    <3>1. ASSUME NEW h \in Handles, valid(h)
          PROVE  handle[h].version <= version'[handle[h].id]
      <4>1. /\ handle[h].id \in Ids /\ handle[h].version \in Nat
            /\ handle[h].version <= version[handle[h].id]
        BY <3>1, HandleFacts, DataFacts DEF IInv, Known
      <4>2. version[handle[h].id] \in Nat /\ version'[handle[h].id] \in Nat
        BY <1>3, <4>1 DEF IInv, TypeOK
      <4>3. QED
        BY <1>3, <4>1, <4>2
    <3>2. QED
      BY <1>1, <1>5, <3>1 DEF Known, valid
  <2>2. QED
    BY <1>4, <1>5, <2>1 DEF IInv, Sharing
<1>6. ASSUME NEW o \in Ops PROVE IInv'
  <2>1. Life(o)' /\ Fresh(o)' /\ Carried(o)'
    BY <1>1, <1>2 DEF IInv, Life, Fresh, Carried, Wanted, Uses, valid
  <2>2. Replies(o)'
    <3>1. ASSUME NEW d \in reply[o] PROVE d.version <= version'[d.id]
      <4>1. d.id \in Ids /\ d.version \in Nat /\ d.version <= version[d.id]
        BY DataFacts DEF IInv, TypeOK, Replies
      <4>2. version[d.id] \in Nat /\ version'[d.id] \in Nat
        BY <1>3, <4>1 DEF IInv, TypeOK
      <4>3. QED
        BY <1>3, <4>1, <4>2
    <3>2. QED
      BY <1>1, <3>1 DEF IInv, Replies, Wanted
  <2>3. QED
    BY <1>1, <1>2, <1>3, <2>1, <2>2, ServerInv DEF IInv, TypeOK
<1>7. QED
  BY <1>5, <1>6

\* The Session is destroyed while none of its own operations runs.
LEMMA DestroySessionInv == ASSUME IInv, DestroySession PROVE IInv'
<1> USE DEF DestroySession
<1>1. UNCHANGED <<handle, used, next, reply, known, mixed, kind, asked, pc, result,
                  phase, outcome, applied, present, version>>
  BY DEF locals, opVars, rpcVars, serverVars
<1>2. TypeOK'
  BY <1>1 DEF IInv, TypeOK
<1>3. ASSUME NEW o \in Ops PROVE Life(o)' /\ Arguments(o)' /\ Owners(o)'
  BY <1>1 DEF IInv, Life, Arguments, Owners
<1>4. Sharing' /\ Known'
  BY <1>1 DEF IInv, Sharing, Known, Uses, valid
<1>5. ASSUME NEW o \in Ops PROVE Checked(o)' /\ Targets(o)'
  BY <1>1 DEF IInv, Checked, Targets, Uses, valid
<1>6. ASSUME NEW o \in Ops PROVE Replies(o)' /\ Fresh(o)' /\ Carried(o)'
  BY <1>1 DEF IInv, Replies, Fresh, Carried, Wanted, Uses, valid
<1>7. ASSUME NEW o \in Ops PROVE Settled(o)'
  BY <1>1 DEF IInv, Settled, SettledAt, valid
<1>8. QED
  BY <1>2, <1>3, <1>4, <1>5, <1>6, <1>7 DEF IInv

\* An operation of Torrent, whichever it is, begins or returns GearboxTorrentInvalid.
TorrentOperation(o, h) ==
  \/ start(o, h) \/ askForMorePeers(o, h) \/ remove(o, h) \/ queueMove(o, h)
  \/ update(o, h) \/ setFiles(o, h) \/ setQueuePosition(o, h) \/ setDownloadDir(o, h)

LEMMA TorrentOperationFacts ==
  ASSUME NEW o, NEW h, TorrentOperation(o, h)
  PROVE  \E k \in TorrentKinds : BeginTorrent(o, k, h) \/ TorrentInvalid(o, k, h)
BY DEF TorrentOperation, Operation, TorrentKinds, start, askForMorePeers, remove, queueMove,
       update, setFiles, setQueuePosition, setDownloadDir

\* IInv is inductive.
LEMMA NextInv == ASSUME IInv, [Next]_vars PROVE IInv'
<1>1. ASSUME NEW o \in Ops, NEW h \in Handles, TorrentOperation(o, h) PROVE IInv'
  BY <1>1, TorrentOperationFacts, BeginTorrentInv, TorrentInvalidInv
<1>2. ASSUME NEW o \in Ops, LockSession(o) \/ SessionGone(o) \/ LockCrashes(o)
      PROVE  IInv'
  BY <1>2, LockSessionInv, SessionGoneInv, LockCrashesInv
<1>3. ASSUME NEW o \in Ops,
             \/ torrents(o) \/ statistics(o) \/ recentlyRemoved(o)
             \/ \E hs \in Lists : updateTorrentStats(o, hs)
      PROVE  IInv'
  BY <1>3, ListingInv, updateTorrentStatsInv
<1>4. ASSUME NEW o \in Ops, Execute(o) PROVE IInv'
  BY <1>4, ExecuteInv
<1>5. ASSUME NEW o \in Ops, NEW out \in Rpc!Outcomes \ {"none"}, Returned(o, out) PROVE IInv'
  BY <1>5, ReturnedInv
<1>6. ASSUME NEW o \in Ops, ApplyUpdate(o) \/ ApplyStats(o) \/ EndStats(o) \/ ApplyList(o)
      PROVE  IInv'
  BY <1>6, ApplyUpdateInv, ApplyStatsInv, EndStatsInv, ApplyListInv
<1>7. ASSUME DestroySession \/ \E i \in Ids : Change(i) PROVE IInv'
  BY <1>7, DestroySessionInv, ChangeInv
<1>8. CASE UNCHANGED vars
  <2>1. UNCHANGED <<owner, handle, used, next, reply, known, mixed, kind, asked, pc, result,
                    phase, outcome, applied, present, version>>
    BY <1>8 DEF vars, locals, opVars, rpcVars, serverVars
  <2>2. TypeOK' /\ Sharing' /\ Known'
    BY <2>1 DEF IInv, TypeOK, Sharing, Known, Uses, valid
  <2>3. ASSUME NEW o \in Ops PROVE Life(o)' /\ Arguments(o)' /\ Owners(o)'
    BY <2>1 DEF IInv, Life, Arguments, Owners
  <2>4. ASSUME NEW o \in Ops PROVE Checked(o)' /\ Targets(o)'
    BY <2>1 DEF IInv, Checked, Targets, Uses, valid
  <2>5. ASSUME NEW o \in Ops PROVE Replies(o)' /\ Fresh(o)' /\ Carried(o)'
    BY <2>1 DEF IInv, Replies, Fresh, Carried, Wanted, Uses, valid
  <2>6. ASSUME NEW o \in Ops PROVE Settled(o)'
    BY <2>1 DEF IInv, Settled, SettledAt, valid
  <2>7. QED
    BY <2>2, <2>3, <2>4, <2>5, <2>6 DEF IInv
<1>9. QED
  BY <1>1, <1>2, <1>3, <1>4, <1>5, <1>6, <1>7, <1>8 DEF Next, TorrentOperation

-----------------------------------------------------------------------------
(***************************************************************************)
(* The theorems.                                                           *)
(***************************************************************************)

\* IInv holds in every reachable state.
THEOREM OperationsInvariant == Spec => []IInv
<1>1. Init => IInv
  BY InitInv
<1>2. IInv /\ [Next]_vars => IInv'
  BY NextInv
<1>3. QED
  BY <1>1, <1>2, PTL DEF Spec

\* The variables keep their types; no call of sendRequest is carried out twice.
THEOREM TypeCorrect == Spec => []TypeOK
<1>1. IInv => TypeOK
  BY DEF IInv
<1>2. QED
  BY <1>1, OperationsInvariant, PTL

\* GearboxSessionInvalid is only returned when the Session is destroyed, by an
\* operation that has never reached the server.
THEOREM GoneSessionsAreGone == Spec => []SessionInvalidIsTruthful
<1>1. IInv => SessionInvalidIsTruthful
  BY DEF IInv, Owners, Life, SessionInvalidIsTruthful
<1>2. QED
  BY <1>1, OperationsInvariant, PTL

\* remove returns Ok with a reply only once the torrent is gone.
THEOREM RemovedTorrentsAreGone == Spec => []RemovedIsGone
<1>1. IInv => RemovedIsGone
  <2>1. ASSUME IInv, NEW o \in Ops, kind[o] = "remove", result[o] = "Ok",
               outcome[o] # "unanswered"
        PROVE  Wanted(o) \cap present = {}
    BY <2>1 DEF IInv, Life, Carried
  <2>2. QED
    BY <2>1 DEF RemovedIsGone
<1>2. QED
  BY <1>1, OperationsInvariant, PTL

-----------------------------------------------------------------------------
\* How a running operation can end.
LEMMA EndsBy ==
  ASSUME IInv, [Next]_vars, NEW o \in Ops, Ends(o)
  PROVE  \/ SessionGone(o) \/ LockCrashes(o)
         \/ \E out \in Rpc!Outcomes \ {"none"} : Returned(o, out)
         \/ ApplyUpdate(o) \/ EndStats(o) \/ ApplyList(o)
<1> USE DEF Ends, Running
<1>1. ASSUME NEW q \in Ops, q # o, NEW v, pc' = [pc EXCEPT ![q] = v] PROVE FALSE
  BY <1>1 DEF IInv, TypeOK
<1>2. ASSUME NEW v \in {"checked", "calling"}, NEW q \in Ops, pc' = [pc EXCEPT ![q] = v]
      PROVE  FALSE
  BY <1>2 DEF IInv, TypeOK
<1>3. pc' # pc /\ ~UNCHANGED vars
  BY DEF vars
<1>4. ASSUME NEW q \in Ops, NEW h \in Handles, TorrentOperation(q, h) PROVE FALSE
  <2>1. PICK k \in TorrentKinds : BeginTorrent(q, k, h) \/ TorrentInvalid(q, k, h)
    BY <1>4, TorrentOperationFacts
  <2>2. CASE BeginTorrent(q, k, h)
    BY <1>2, <2>2 DEF BeginTorrent
  <2>3. CASE TorrentInvalid(q, k, h)
    <3>1. pc[q] = "idle" /\ pc' = [pc EXCEPT ![q] = "done"]
      BY <2>3 DEF TorrentInvalid, Finish
    <3>2. q # o
      BY <3>1
    <3>3. QED
      BY <1>1, <3>1, <3>2
  <2>4. QED
    BY <2>1, <2>2, <2>3
<1>5. ASSUME NEW q \in Ops,
             \/ LockSession(q) \/ torrents(q) \/ statistics(q) \/ recentlyRemoved(q)
             \/ \E hs \in Lists : updateTorrentStats(q, hs)
      PROVE  FALSE
  BY <1>2, <1>5
  DEF LockSession, torrents, statistics, recentlyRemoved, updateTorrentStats, BeginSession
<1>6. ASSUME \/ \E q \in Ops : Execute(q) \/ ApplyStats(q)
             \/ DestroySession \/ \E i \in Ids : Change(i)
      PROVE  FALSE
  BY <1>3, <1>6 DEF Execute, ApplyStats, DestroySession, Change
<1>7. ASSUME NEW q \in Ops,
             \/ SessionGone(q) \/ LockCrashes(q)
             \/ ApplyUpdate(q) \/ EndStats(q) \/ ApplyList(q)
      PROVE  q = o
  BY <1>1, <1>7 DEF SessionGone, LockCrashes, ApplyUpdate, EndStats, ApplyList, Finish
<1>8. ASSUME NEW q \in Ops, NEW out \in Rpc!Outcomes \ {"none"}, Returned(q, out)
      PROVE  q = o
  BY <1>1, <1>8 DEF Returned, Finish
<1>9. QED
  BY <1>3, <1>4, <1>5, <1>6, <1>7, <1>8 DEF Next, TorrentOperation

\* An operation whose call of sendRequest is all it did ends without a look at the
\* reply, and leaves the Torrents as they are.
LEMMA ReturnedEnds ==
  ASSUME IInv, NEW o \in Ops, NEW out \in Rpc!Outcomes \ {"none"}, Returned(o, out), Ends(o)
  PROVE  /\ UNCHANGED handle
         /\ result'[o] \in {"Ok", "Server", "Transport"}
         /\ result'[o] = "Ok" => kind[o] \notin Reading
<1>1. pc'[o] = "done"
  BY DEF Ends
<1>2. ~UsesReply(o, ErrorOf(out)) /\ Finish(o, ErrorOf(out)) /\ UNCHANGED handle
  BY <1>1 DEF Returned, IInv, TypeOK
<1>3. result'[o] = ErrorOf(out)
  BY <1>2 DEF Finish, IInv, TypeOK
<1>4. ErrorOf(out) \in {"Ok", "Server", "Transport"}
  BY DEF ErrorOf, Rpc!Outcomes
<1>5. QED
  BY <1>2, <1>3, <1>4 DEF UsesReply, Reading

\* What update leaves in its Torrent.
LEMMA UpdateFacts ==
  ASSUME IInv, NEW o \in Ops, ApplyUpdate(o)
  PROVE  /\ used[o][1] \in Handles /\ Range(used[o]) = {used[o][1]} /\ Uses(o, used[o][1])
         /\ result'[o] \in {"Ok", "crash"}
         /\ result'[o] = "crash" => mixed[o]
         /\ \/ UNCHANGED handle /\ (result'[o] = "Ok" => Received(o) = {})
            \/ \E d \in Received(o) :
                 valid(used[o][1]) /\ handle' = [handle EXCEPT ![used[o][1]] = d]
<1> USE DEF ApplyUpdate
<1>1. pc[o] \in Running /\ kind[o] \in TorrentKinds
  BY DEF Running, TorrentKinds
<1>2. used[o][1] \in Handles /\ used[o] = <<used[o][1]>>
  BY <1>1 DEF IInv, Arguments
<1>3. Range(used[o]) = {used[o][1]}
  BY <1>2, RangeFacts
<1>4. \A err : Finish(o, err) => result'[o] = err
  BY DEF Finish, IInv, TypeOK
<1>5. ~valid(used[o][1]) => mixed[o]
  BY <1>1 DEF IInv, Checked
<1>6. CASE Received(o) = {} /\ Finish(o, "Ok") /\ UNCHANGED handle
  BY <1>1, <1>2, <1>3, <1>4, <1>6 DEF Uses
<1>7. CASE \E d \in Received(o) :
             valid(used[o][1]) /\ handle' = [handle EXCEPT ![used[o][1]] = d] /\ Finish(o, "Ok")
  BY <1>1, <1>2, <1>3, <1>4, <1>7 DEF Uses
<1>8. CASE Received(o) # {} /\ ~valid(used[o][1]) /\ Finish(o, "crash") /\ UNCHANGED handle
  BY <1>1, <1>2, <1>3, <1>4, <1>5, <1>8 DEF Uses
<1>9. QED
  BY <1>6, <1>7, <1>8

\* A torrent of the reply is one that was asked for, and no older than the request.
LEMMA ReceivedFacts ==
  ASSUME IInv, NEW o \in Ops, NEW d \in Received(o)
  PROVE  /\ d \in Data /\ d \in reply[o] /\ d.id \in Wanted(o)
         /\ known[o][d.id] <= d.version
BY DEF Received, IInv, TypeOK, Replies

\* update replaces the data of its Torrent by data of the same torrent.
LEMMA UpdatedFacts ==
  ASSUME IInv, NEW o \in Ops, ApplyUpdate(o), NEW d \in Received(o), valid(used[o][1])
  PROVE  d.id = handle[used[o][1]].id
<1>1. pc[o] \in Running /\ kind[o] \in TorrentKinds
  BY DEF ApplyUpdate, TorrentKinds, Running
<1>2. QED
  BY <1>1, OneTarget, ReceivedFacts

\* When updateTorrentStats returns it has been through its list.
LEMMA EndStatsFacts ==
  ASSUME IInv, NEW o \in Ops, EndStats(o)
  PROVE  /\ result'[o] = "Ok" /\ kind[o] = "stats" /\ UNCHANGED handle
         /\ \A k \in DOMAIN used[o] :
              used[o][k] \in Handles /\ k < next[o] /\ (~mixed[o] => SettledAt(o, k))
<1> USE DEF EndStats
<1>1. pc[o] \in Running
  BY DEF Running
<1>2. result'[o] = "Ok"
  BY DEF Finish, IInv, TypeOK
<1>3. ASSUME NEW k \in DOMAIN used[o] PROVE k < next[o]
  <2>1. PICK n \in Nat : DOMAIN used[o] = 1 .. n
    BY DEF IInv, TypeOK
  <2>2. next[o] \in Nat \ {0} /\ next[o] \notin 1 .. n
    BY <2>1 DEF IInv, TypeOK
  <2>3. k \in 1 .. n
    BY <2>1
  <2>4. QED
    BY <2>1, <2>2, <2>3
<1>4. ASSUME NEW k \in DOMAIN used[o]
      PROVE  used[o][k] \in Handles /\ (~mixed[o] => SettledAt(o, k))
  BY <1>1, UsesEach DEF IInv, Settled
<1>5. QED
  BY <1>2, <1>3, <1>4

\* The data of a Torrent in use are only ever replaced by what one of the operations
\* that use it was sent about the same torrent.
LEMMA ReplacedBy ==
  ASSUME IInv, [Next]_vars, NEW o \in Ops, NEW h \in Handles, Uses(o, h), valid(h),
         handle'[h] # handle[h], handle'[h] # NoData
  PROVE  \E q \in Ops : \E d \in Received(q) :
           Uses(q, h) /\ d.id = handle[h].id /\ handle'[h] = d
<1>1. handle' # handle /\ ~UNCHANGED vars
  BY DEF vars
<1>2. ASSUME NEW q \in Ops, ApplyUpdate(q)
      PROVE  \E d \in Received(q) : Uses(q, h) /\ d.id = handle[h].id /\ handle'[h] = d
  <2>1. PICK d \in Received(q) :
          valid(used[q][1]) /\ handle' = [handle EXCEPT ![used[q][1]] = d]
    BY <1>1, <1>2, UpdateFacts
  <2>2. h = used[q][1] /\ handle'[h] = d
    BY <1>2, <2>1, UpdateFacts DEF IInv, TypeOK
  <2>3. QED
    BY <1>2, <2>1, <2>2, UpdateFacts, UpdatedFacts
<1>3. ASSUME NEW q \in Ops, ApplyStats(q)
      PROVE  \E d \in Received(q) : Uses(q, h) /\ d.id = handle[h].id /\ handle'[h] = d
  <2>1. /\ used[q][next[q]] \in Handles /\ Uses(q, used[q][next[q]])
        /\ StatsStep(q, used[q][next[q]])
    BY <1>3, StatsStepFacts
  <2>2. h = used[q][next[q]]
    BY <2>1 DEF StatsStep, IInv, TypeOK
  <2>3. QED
    BY <2>1, <2>2 DEF StatsStep, IInv, TypeOK
<1>4. ASSUME NEW q \in Ops, ApplyList(q) PROVE FALSE
  BY <1>4 DEF ApplyList
<1>5. ASSUME NEW q \in Ops, NEW g \in Handles, TorrentOperation(q, g) PROVE FALSE
  BY <1>1, <1>5, TorrentOperationFacts DEF BeginTorrent, TorrentInvalid, Begin
<1>6. ASSUME NEW q \in Ops,
             \/ LockSession(q) \/ SessionGone(q) \/ LockCrashes(q)
             \/ torrents(q) \/ statistics(q) \/ recentlyRemoved(q)
             \/ \E hs \in Lists : updateTorrentStats(q, hs)
             \/ Execute(q) \/ EndStats(q)
             \/ \E out \in Rpc!Outcomes \ {"none"} : Returned(q, out)
      PROVE  FALSE
  BY <1>1, <1>6
  DEF LockSession, SessionGone, LockCrashes, torrents, statistics, recentlyRemoved,
      updateTorrentStats, BeginSession, Begin, Execute, EndStats, Returned
<1>7. ASSUME DestroySession \/ \E i \in Ids : Change(i) PROVE FALSE
  BY <1>1, <1>7 DEF DestroySession, Change
<1>8. QED
  BY <1>1, <1>2, <1>3, <1>4, <1>5, <1>6, <1>7 DEF Next, TorrentOperation

\* While an operation uses a Torrent nothing turns it into another torrent, nor its data
\* into older data unless another operation uses it meanwhile.
THEOREM UpdatesKeepTorrents == Spec => UpdatesKeepTheTorrent
<1> DEFINE Kept ==
      \A o \in Ops : \A h \in Handles :
        Uses(o, h) /\ valid(h) /\ handle'[h] # NoData =>
          /\ handle'[h].id = handle[h].id
          /\ ~mixed[o] => handle'[h].version >= handle[h].version
<1>1. IInv /\ [Next]_vars => Kept
  <2> SUFFICES ASSUME IInv, [Next]_vars, NEW o \in Ops, NEW h \in Handles,
                      Uses(o, h), valid(h), handle'[h] # NoData
               PROVE  /\ handle'[h].id = handle[h].id
                      /\ ~mixed[o] => handle'[h].version >= handle[h].version
    OBVIOUS
  <2>1. handle[h] \in Data /\ handle[h].version \in Nat
    BY HandleFacts, DataFacts
  <2>2. CASE handle'[h] = handle[h]
    BY <2>1, <2>2
  <2>3. CASE handle'[h] # handle[h]
    <3>1. PICK q \in Ops : \E d \in Received(q) :
            Uses(q, h) /\ d.id = handle[h].id /\ handle'[h] = d
      BY <2>3, ReplacedBy
    <3>2. PICK d \in Received(q) : Uses(q, h) /\ d.id = handle[h].id /\ handle'[h] = d
      BY <3>1
    <3>3. d \in reply[q] /\ d.version \in Nat
      BY ReceivedFacts, DataFacts
    <3>4. CASE q = o
      <4>1. ~mixed[o] => handle[h].version <= d.version
        BY <3>2, <3>3, <3>4 DEF IInv, Fresh
      <4>2. QED
        BY <2>1, <3>2, <3>3, <4>1
    <3>5. CASE q # o
      BY <3>2, <3>5 DEF IInv, Sharing
    <3>6. QED
      BY <3>4, <3>5
  <2>4. QED
    BY <2>2, <2>3
<1>2. QED
  BY <1>1, OperationsInvariant, PTL DEF Spec, UpdatesKeepTheTorrent

\* An Ok of update or updateTorrentStats is given by the step that has used the reply.
LEMMA OkEnds ==
  ASSUME IInv, [Next]_vars, NEW o \in Ops, Ends(o), result'[o] = "Ok",
         kind[o] \in {"update", "stats"}
  PROVE  \/ kind[o] = "update" /\ ApplyUpdate(o)
         \/ kind[o] = "stats" /\ EndStats(o)
<1>1. ASSUME SessionGone(o) \/ LockCrashes(o) PROVE FALSE
  BY <1>1 DEF SessionGone, LockCrashes, Finish, IInv, TypeOK
<1>2. ASSUME NEW out \in Rpc!Outcomes \ {"none"}, Returned(o, out) PROVE FALSE
  BY <1>2, ReturnedEnds DEF Reading
<1>3. ApplyUpdate(o) \/ EndStats(o) \/ ApplyList(o)
  BY <1>1, <1>2, EndsBy
<1>4. CASE ApplyUpdate(o)
  BY <1>4 DEF ApplyUpdate
<1>5. CASE EndStats(o)
  BY <1>5 DEF EndStats
<1>6. CASE ApplyList(o)
  BY <1>6 DEF ApplyList
<1>7. QED
  BY <1>3, <1>4, <1>5, <1>6

\* After an Ok of update or updateTorrentStats each of its Torrents has data, of the
\* torrent it stood for and as recent as the call, but for the exceptions that
\* UpdatesAreTruthful names.
THEOREM UpdatesTellTheTruth == Spec => UpdatesAreTruthful
<1> DEFINE Truthful ==
      \A o \in Ops : Ends(o) /\ result'[o] = "Ok" /\ kind[o] \in {"update", "stats"}
                     /\ outcome[o] # "unanswered" /\ ~mixed[o] =>
        \A k \in DOMAIN used[o] : asked[o][k] \in present =>
          LET d == handle'[used[o][k]] IN
          d # NoData /\ d.id = asked[o][k] /\ d.version >= known[o][d.id]
<1>1. IInv /\ [Next]_vars => Truthful
  <2> SUFFICES ASSUME IInv, [Next]_vars, NEW o \in Ops, Ends(o), result'[o] = "Ok",
                      kind[o] \in {"update", "stats"},
                      outcome[o] # "unanswered", ~mixed[o],
                      NEW k \in DOMAIN used[o], asked[o][k] \in present
               PROVE  LET d == handle'[used[o][k]] IN
                      d # NoData /\ d.id = asked[o][k] /\ d.version >= known[o][d.id]
    OBVIOUS
  <2> DEFINE h == used[o][k]
  <2>1. pc[o] \in Running /\ h \in Handles /\ Uses(o, h)
    BY UsesEach DEF Ends, IInv
  <2>2. asked[o][k] \in Ids /\ known[o][asked[o][k]] \in Nat
    BY DEF IInv, TypeOK
  <2>3. ASSUME handle'[h] \in Data, handle'[h].id = asked[o][k],
               known[o][asked[o][k]] <= handle'[h].version
        PROVE  LET d == handle'[used[o][k]] IN
               d # NoData /\ d.id = asked[o][k] /\ d.version >= known[o][d.id]
    <3>1. handle'[h] # NoData /\ handle'[h].version \in Nat
      BY <2>3, DataFacts
    <3>2. handle'[h].version >= known[o][asked[o][k]]
      BY <2>2, <2>3, <3>1
    <3>3. QED
      BY <2>3, <3>1, <3>2
  <2>4. CASE kind[o] = "update" /\ ApplyUpdate(o)
    <3>1. /\ k = 1 /\ valid(h)
          /\ pc[o] = "applying" /\ outcome[o] = "answered" /\ applied[o] = 1
      <4>1. kind[o] \in TorrentKinds
        BY <2>4 DEF TorrentKinds
      <4>2. used[o] = <<used[o][1]>>
        BY <2>1, <4>1 DEF IInv, Arguments
      <4>3. k = 1
        BY <4>2, RangeFacts
      <4>4. valid(h)
        BY <2>1, <4>1, <4>3 DEF IInv, Checked
      <4>5. QED
        BY <2>4, <4>3, <4>4 DEF ApplyUpdate, IInv, Life
    <3>2. handle[h].id = asked[o][k]
      BY <2>1, <3>1 DEF IInv, Targets
    <3>3. asked[o][k] \in Wanted(o)
      BY <2>1, <2>4, <3>1, <3>2, OneTarget DEF TorrentKinds
    <3>4. PICK d \in reply[o] : d.id = asked[o][k]
      BY <2>4, <3>1, <3>3 DEF IInv, Carried, Reading
    <3>5. d \in Received(o)
      BY <3>1 DEF Received
    <3>6. PICK e \in Received(o) : handle' = [handle EXCEPT ![h] = e]
      BY <2>4, <3>1, <3>5, UpdateFacts
    <3>7. handle'[h] = e
      BY <2>1, <3>6 DEF IInv, TypeOK
    <3>8. e.id = asked[o][k] /\ e \in Data /\ known[o][e.id] <= e.version
      BY <2>4, <3>1, <3>2, UpdatedFacts, ReceivedFacts
    <3>9. QED
      BY <2>3, <3>7, <3>8
  <2>5. CASE kind[o] = "stats" /\ EndStats(o)
    <3>1. handle'[h] = handle[h] /\ k < next[o] /\ SettledAt(o, k)
      BY <2>5, EndStatsFacts
    <3>2. valid(h) /\ known[o][asked[o][k]] <= handle[h].version
      BY <3>1 DEF SettledAt
    <3>3. handle[h] \in Data /\ handle[h].id = asked[o][k]
      BY <2>1, <3>2, HandleFacts DEF IInv, Targets
    <3>4. QED
      BY <2>3, <3>1, <3>2, <3>3
  <2>6. QED
    BY <2>4, <2>5, OkEnds
<1>2. QED
  BY <1>1, OperationsInvariant, PTL DEF Spec, UpdatesAreTruthful

\* After an Ok of updateTorrentStats a Torrent nobody else used is without the strings
\* of its data only if its id was asked for at an earlier place of the list.
THEOREM HollowTorrentsAreBehindAnEqual == Spec => HollowOnlyBehindAnEqual
<1> DEFINE Behind ==
      \A o \in Ops : Ends(o) /\ result'[o] = "Ok" /\ kind[o] = "stats" /\ ~mixed[o] =>
        \A h \in Range(used[o]) : handle'[h] # NoData /\ ~handle'[h].full =>
          \E j, k \in DOMAIN used[o] :
            j < k /\ used[o][k] = h /\ asked[o][j] = asked[o][k]
<1>1. IInv /\ [Next]_vars => Behind
  <2> SUFFICES ASSUME IInv, [Next]_vars, NEW o \in Ops, Ends(o), result'[o] = "Ok",
                      kind[o] = "stats", ~mixed[o],
                      NEW h \in Range(used[o]), handle'[h] # NoData, ~handle'[h].full
               PROVE  \E j, k \in DOMAIN used[o] :
                        j < k /\ used[o][k] = h /\ asked[o][j] = asked[o][k]
    OBVIOUS
  <2>1. EndStats(o)
    BY OkEnds
  <2>2. PICK k \in DOMAIN used[o] : used[o][k] = h
    BY DEF Range
  <2>3. handle' = handle /\ k < next[o] /\ SettledAt(o, k)
    BY <2>1, EndStatsFacts
  <2>4. QED
    BY <2>2, <2>3 DEF SettledAt, valid
<1>2. QED
  BY <1>1, OperationsInvariant, PTL DEF Spec, HollowOnlyBehindAnEqual

\* No operation dereferences a null priv_ unless another one used its Torrent too.
THEOREM OnlySharedTorrentsCrash == Spec => OnlySharingCrashes
<1> DEFINE Shared == \A o \in Ops : Ends(o) /\ result'[o] = "crash" => mixed[o]
<1>1. IInv /\ [Next]_vars => Shared
  <2> SUFFICES ASSUME IInv, [Next]_vars, NEW o \in Ops, Ends(o), result'[o] = "crash"
               PROVE  mixed[o]
    OBVIOUS
  <2>1. \A err : Finish(o, err) => result'[o] = err
    BY DEF Finish, IInv, TypeOK
  <2>2. CASE LockCrashes(o)
    BY <2>2 DEF LockCrashes, IInv, Life, Checked, Running
  <2>3. CASE ApplyUpdate(o)
    BY <2>3, UpdateFacts
  <2>4. CASE \E out \in Rpc!Outcomes \ {"none"} : Returned(o, out)
    BY <2>4, ReturnedEnds
  <2>5. CASE SessionGone(o) \/ EndStats(o) \/ ApplyList(o)
    BY <2>1, <2>5 DEF SessionGone, EndStats, ApplyList
  <2>6. QED
    BY <2>2, <2>3, <2>4, <2>5, EndsBy
<1>2. QED
  BY <1>1, OperationsInvariant, PTL DEF Spec, OnlySharingCrashes

\* Once the SessionPrivate is gone, no operation makes a request any more.
THEOREM DeadSessionsStayDead == Spec => SessionStaysDead
<1> DEFINE Dead == ~Alive => ~Alive' /\ \A o \in Ops : phase'[o] = phase[o]
<1>1. IInv /\ [Next]_vars => Dead
  <2> SUFFICES ASSUME IInv, [Next]_vars, ~Alive
               PROVE  ~Alive' /\ \A o \in Ops : phase'[o] = phase[o]
    OBVIOUS
  <2>1. ~owner /\ \A o \in Ops : kind[o] \in TorrentKinds => pc[o] \notin {"calling", "applying"}
    BY DEF Alive
  <2>2. \A o \in Ops : pc[o] \notin {"calling", "applying"}
    <3>1. \A o \in Ops :
            pc[o] \in {"calling", "applying"} => kind[o] \in TorrentKinds \cup SessionKinds
      BY DEF IInv, Life, Running
    <3>2. \A o \in Ops : pc[o] \in {"calling", "applying"} => kind[o] \notin SessionKinds
      BY <2>1 DEF IInv, Owners, Running
    <3>3. QED
      BY <2>1, <3>1, <3>2
  <2>3. ASSUME owner' = owner, phase' = phase,
               \A o \in Ops : pc'[o] \notin {"calling", "applying"}
        PROVE  ~Alive' /\ \A o \in Ops : phase'[o] = phase[o]
    BY <2>1, <2>3 DEF Alive
  <2>4. ASSUME NEW o \in Ops, NEW p \in {"checked", "done"}, pc' = [pc EXCEPT ![o] = p]
        PROVE  \A q \in Ops : pc'[q] \notin {"calling", "applying"}
    BY <2>2, <2>4 DEF IInv, TypeOK
  <2>5. ASSUME NEW o \in Ops, NEW k \in TorrentKinds, NEW h \in Handles, BeginTorrent(o, k, h)
        PROVE  ~Alive' /\ \A q \in Ops : phase'[q] = phase[q]
    BY <2>3, <2>4, <2>5 DEF BeginTorrent, Begin, rpcVars
  <2>6. ASSUME NEW o \in Ops, NEW k \in TorrentKinds, NEW h \in Handles, TorrentInvalid(o, k, h)
        PROVE  ~Alive' /\ \A q \in Ops : phase'[q] = phase[q]
    BY <2>3, <2>4, <2>6 DEF TorrentInvalid, Finish, rpcVars
  <2>7. ASSUME NEW o \in Ops, SessionGone(o) \/ LockCrashes(o)
        PROVE  ~Alive' /\ \A q \in Ops : phase'[q] = phase[q]
    BY <2>3, <2>4, <2>7 DEF SessionGone, LockCrashes, Finish, rpcVars
  <2>8. ASSUME NEW o \in Ops,
               \/ LockSession(o) \/ torrents(o) \/ statistics(o) \/ recentlyRemoved(o)
               \/ \E hs \in Lists : updateTorrentStats(o, hs)
               \/ \E out \in Rpc!Outcomes \ {"none"} : Returned(o, out)
               \/ ApplyUpdate(o) \/ ApplyStats(o) \/ EndStats(o) \/ ApplyList(o)
        PROVE  FALSE
    BY <2>1, <2>2, <2>8
    DEF LockSession, torrents, statistics, recentlyRemoved, updateTorrentStats, BeginSession,
        Returned, ApplyUpdate, ApplyStats, EndStats, ApplyList
  <2>9. ASSUME NEW o \in Ops, Execute(o)
        PROVE  ~Alive' /\ \A q \in Ops : phase'[q] = phase[q]
    BY <2>2, <2>3, <2>9 DEF Execute, Rpc!Apply
  <2>10. ASSUME NEW i \in Ids, Change(i)
         PROVE  ~Alive' /\ \A q \in Ops : phase'[q] = phase[q]
    BY <2>2, <2>3, <2>10 DEF Change, rpcVars
  <2>11. ASSUME DestroySession PROVE FALSE
    BY <2>1, <2>11 DEF DestroySession
  <2>12. CASE UNCHANGED vars
    BY <2>2, <2>3, <2>12 DEF vars, rpcVars
  <2>13. ASSUME NEW o \in Ops, NEW h \in Handles, TorrentOperation(o, h)
         PROVE  ~Alive' /\ \A q \in Ops : phase'[q] = phase[q]
    BY <2>5, <2>6, <2>13, TorrentOperationFacts
  <2>14. QED
    BY <2>7, <2>8, <2>9, <2>10, <2>11, <2>12, <2>13 DEF Next, TorrentOperation
<1>2. QED
  BY <1>1, OperationsInvariant, PTL DEF Spec, SessionStaysDead
=============================================================================
