------------------------------- MODULE Backend -------------------------------
(***************************************************************************)
(* One proxied memcached: its poller thread (runBackend, checkAndConnect,  *)
(* getStat, getHealth of statsproxy.c) and the threads of its clients in   *)
(* statsCallback and clntError.  They share the state of the backend and   *)
(* the cached lists under its read-write lock, and last_error without it.  *)
(*                                                                         *)
(* The lists are indexed by the position of the uri in bep->uris.  A       *)
(* section that only assigns bep->state under the write lock is one step;  *)
(* replacing a list is two steps under the lock, and a client prints one   *)
(* entry per step, as fprintf may block on its connection.                 *)
(***************************************************************************)
EXTENDS StatsMc

CONSTANTS
    UriList,    \* bep->uris
    Retries,    \* retries of checkAndConnect: 5
    Client      \* threads that serve a connection to the front end

ASSUME BackendAssumption ==
    /\ UriList \in Seq(Uri) /\ UriList # <<>>
    /\ \A i, j \in 1 .. Len(UriList) :
          UriList[i] = Health /\ UriList[j] = Health => i = j
    /\ Retries \in Nat

VARIABLES
    state,      \* bep->state
    readers,    \* clients that hold bep->rwlock for reading
    writer,     \* the poller holds it for writing
    stats,      \* uri_entry->stats, by position
    ppc,        \* the poller: where it is,
    idx,        \*   the uri it is at,
    tries,      \*   i of checkAndConnect
    cpc,        \* a client: where it is,
    ctype,      \*   clnt->type,
    cpos,       \*   the uri it asked for,
    page,       \*   the entries printed so far,
    told        \*   how it was answered: a page, ERROR, or ERROR and an errno

Pos == 1 .. Len(UriList)

link     == <<sock, last_error, stored>>
session  == <<buf, done, new_stats>>
shared   == <<state, readers, writer, stats>>
poller   == <<ppc, idx, tries>>
clients  == <<cpc, ctype, cpos, page, told>>
vars     == <<link, session, shared, poller, clients>>

BackendState == {"HALTED", "CONNECTING", "POLLING"}
PollerPc     == {"start", "visit", "connect", "polling", "send", "read", "probe",
                 "parse", "lock", "remove", "add", "next"}
ClientPc     == {"idle", "asked", "check", "explain", "print", "done", "wrong", "name"}
ClientType   == {"MEMCACHE", "HTTP"}
Told         == Errno \cup {"nothing", "page", "ERROR"}

Init ==
    /\ StatsMcInit
    /\ state = "HALTED" /\ readers = {} /\ writer = FALSE
    /\ stats = [p \in Pos |-> <<>>]
    /\ ppc = "start" /\ idx = 1 /\ tries = 0
    /\ cpc = [c \in Client |-> "idle"]
    /\ ctype = [c \in Client |-> "MEMCACHE"]
    /\ cpos = [c \in Client |-> 1]
    /\ page = [c \in Client |-> <<>>]
    /\ told = [c \in Client |-> "nothing"]

-----------------------------------------------------------------------------
(* The poller *)

\* mutant: the lock admits a writer beside readers
LockFreeOfWriters == ~writer

\* pthread_rwlock_wrlock returns when nobody holds the lock
LockFree == ~writer /\ readers = {}

\* mutant: the state is assigned without the lock
SetStateUnlocked(s) == state' = s /\ UNCHANGED <<writer, stats>>

\* wrlock, bep->state = s, unlock
SetState(s) == LockFree /\ state' = s /\ UNCHANGED <<writer, stats>>

PollerAt(from, to) == ppc = from /\ ppc' = to

\* the first lines of runBackend
Start ==
    /\ PollerAt("start", "visit")
    /\ SetState("HALTED")
    /\ UNCHANGED <<link, session, idx, tries>>

\* the head of checkAndConnect, entered for each uri, connected or not
BeginVisit ==
    /\ PollerAt("visit", "connect")
    /\ SetState("CONNECTING")
    /\ tries' = 0
    /\ UNCHANGED <<link, session, idx>>

IsConnected ==
    /\ PollerAt("connect", "polling")
    /\ sock.open
    /\ UNCHANGED <<link, session, state, writer, stats, idx, tries>>

ConnectDone ==
    /\ PollerAt("connect", "polling")
    /\ ~sock.open
    /\ Connect("OK")
    /\ UNCHANGED <<stored, session, state, writer, stats, idx, tries>>

\* wait CONN_RETRY_WAIT seconds and try again
ConnectRetry(err) ==
    /\ PollerAt("connect", "connect")
    /\ ~sock.open
    /\ err # "OK" /\ Connect(err)
    /\ tries < Retries
    /\ tries' = tries + 1
    /\ UNCHANGED <<stored, session, state, writer, stats, idx>>

\* mutant: the retries start again, and not the round
ConnectRetryForEver(err) ==
    /\ PollerAt("connect", "connect")
    /\ ~sock.open
    /\ err # "OK" /\ Connect(err)
    /\ tries = Retries
    /\ tries' = 0
    /\ UNCHANGED <<stored, session, state, writer, stats, idx>>

\* goto restart: the round starts again at the first uri
ConnectGiveUp(err) ==
    /\ PollerAt("connect", "visit")
    /\ ~sock.open
    /\ err # "OK" /\ Connect(err)
    /\ tries = Retries
    /\ idx' = 1
    /\ UNCHANGED <<stored, session, state, writer, stats, tries>>

EnterPolling ==
    /\ PollerAt("polling", "send")
    /\ SetState("POLLING")
    /\ UNCHANGED <<link, session, idx, tries>>

\* getStat: the command, an empty list, an empty buffer
SendStats ==
    /\ PollerAt("send", "read")
    /\ UriList[idx] # Health
    /\ Write(UriList[idx], "OK")
    /\ buf' = <<>> /\ done' = FALSE /\ new_stats' = <<>>
    /\ UNCHANGED <<state, writer, stats, idx, tries>>

\* getStat returns without touching the list
SendStatsFails(err) ==
    /\ PollerAt("send", "next")
    /\ UriList[idx] # Health
    /\ err # "OK" /\ Write(UriList[idx], err)
    /\ buf' = <<>> /\ done' = FALSE /\ new_stats' = <<>>
    /\ UNCHANGED <<state, writer, stats, idx, tries>>

\* getHealth
SendProbe ==
    /\ PollerAt("send", "probe")
    /\ UriList[idx] = Health
    /\ Write(Health, "OK")
    /\ UNCHANGED <<session, state, writer, stats, idx, tries>>

SendProbeFails(err) ==
    /\ PollerAt("send", "lock")
    /\ UriList[idx] = Health
    /\ err # "OK" /\ Write(Health, err)
    /\ new_stats' = HealthStats(FALSE)
    /\ UNCHANGED <<buf, done, state, writer, stats, idx, tries>>

ProbeRead(alive) ==
    /\ PollerAt("probe", "lock")
    /\ ReadProbe(alive)
    /\ new_stats' = HealthStats(alive)
    /\ UNCHANGED <<state, writer, stats, idx, tries>>

\* sp_memcache_read_replies
ReplyRead ==
    /\ ppc = "read"
    /\ \/ ppc' = "read"  /\ \E k \in 1 .. Len(sock.inbox) : ReadMore(k)
       \/ ppc' = "parse" /\ \E k \in 1 .. Len(sock.inbox) : ReadBuffer(k)
       \/ ppc' = "parse" /\ ReadEof
       \/ ppc' = "lock"  /\ \E k \in 1 .. Len(sock.inbox) : ReadErrorReply(k)
       \/ ppc' = "lock"  /\ \E err \in Errno : ReadFails(err)
    /\ UNCHANGED <<state, writer, stats, idx, tries>>

ReplyParsed ==
    /\ ppc = "parse"
    /\ \/ ppc' = "parse" /\ ParseLine
       \/ ppc' = "read"  /\ ParseMore
       \/ ppc' = "lock"  /\ ParseEnd
    /\ UNCHANGED <<state, writer, stats, idx, tries>>

\* wrlock, after the reply whatever came of it
LockForUpdate ==
    /\ PollerAt("lock", "remove")
    /\ LockFree
    /\ writer' = TRUE
    /\ UNCHANGED <<link, session, state, stats, idx, tries>>

RemoveOldStats ==
    /\ PollerAt("remove", "add")
    /\ stats' = [stats EXCEPT ![idx] = <<>>]
    /\ UNCHANGED <<link, session, state, writer, idx, tries>>

\* mutant: the lock is kept
AddNewStatsLocked ==
    /\ PollerAt("add", "next")
    /\ stats' = [stats EXCEPT ![idx] = @ \o new_stats]
    /\ UNCHANGED <<link, session, state, writer, idx, tries>>

\* addNewStats, or the four insertions of getHealth, and unlock
AddNewStats ==
    /\ PollerAt("add", "next")
    /\ stats' = [stats EXCEPT ![idx] = @ \o new_stats]
    /\ writer' = FALSE
    /\ UNCHANGED <<link, session, state, idx, tries>>

NextUri ==
    /\ PollerAt("next", "visit")
    /\ idx < Len(UriList)
    /\ idx' = idx + 1
    /\ UNCHANGED <<link, session, state, writer, stats, tries>>

\* mutants: the connection outlives the round; the round does not end
EndRoundConnected ==
    /\ PollerAt("next", "visit")
    /\ idx = Len(UriList)
    /\ idx' = 1
    /\ UNCHANGED <<link, session, state, writer, stats, tries>>

EndRoundPastEnd ==
    /\ PollerAt("next", "visit")
    /\ idx = Len(UriList)
    /\ idx' = idx + 1
    /\ Disconnect
    /\ UNCHANGED <<last_error, stored, session, state, writer, stats, tries>>

\* disconnect, sleep until the next round
EndRound ==
    /\ PollerAt("next", "visit")
    /\ idx = Len(UriList)
    /\ idx' = 1
    /\ Disconnect
    /\ UNCHANGED <<last_error, stored, session, state, writer, stats, tries>>

Poller ==
    /\ \/ Start \/ BeginVisit \/ IsConnected \/ ConnectDone
       \/ \E err \in Errno : ConnectRetry(err) \/ ConnectGiveUp(err)
       \/ EnterPolling
       \/ SendStats \/ SendProbe
       \/ \E err \in Errno : SendStatsFails(err) \/ SendProbeFails(err)
       \/ ReplyRead \/ ReplyParsed \/ \E alive \in BOOLEAN : ProbeRead(alive)
       \/ LockForUpdate \/ RemoveOldStats \/ AddNewStats
       \/ NextUri \/ EndRound
    /\ UNCHANGED <<clients, readers>>

-----------------------------------------------------------------------------
(* A client *)

ClientAt(c, from, to) == cpc[c] = from /\ cpc' = [cpc EXCEPT ![c] = to]

\* unlock and return from statsCallback
Leave(c) == readers' = readers \ {c}

\* "stats <uri>" or "GET /<uri>" names a uri of the backend; the search takes
\* the first that matches
Request(c) ==
    /\ cpc[c] \in {"idle", "done"}
    /\ cpc' = [cpc EXCEPT ![c] = "asked"]
    /\ \E t \in ClientType : ctype' = [ctype EXCEPT ![c] = t]
    /\ \E p \in Pos :
          /\ \A q \in 1 .. p - 1 : UriList[q] # UriList[p]
          /\ cpos' = [cpos EXCEPT ![c] = p]
    /\ page' = [page EXCEPT ![c] = <<>>]
    /\ told' = [told EXCEPT ![c] = "nothing"]
    /\ UNCHANGED readers

\* a method, a uri or a reporter's page there is none of
RequestOther(c) ==
    /\ cpc[c] \in {"idle", "done"}
    /\ cpc' = [cpc EXCEPT ![c] = "wrong"]
    /\ \E t \in ClientType : ctype' = [ctype EXCEPT ![c] = t]
    /\ page' = [page EXCEPT ![c] = <<>>]
    /\ told' = [told EXCEPT ![c] = "nothing"]
    /\ UNCHANGED <<readers, cpos>>

\* clntError called without the lock: an HTTP client gets a 404 or a 400, a memcache
\* client the error of the backend, if one is set ...
RefuseOther(c) ==
    /\ ClientAt(c, "wrong", "done")
    /\ ctype[c] = "HTTP" \/ last_error = "OK"
    /\ told' = [told EXCEPT ![c] = "ERROR"]
    /\ UNCHANGED <<readers, ctype, cpos, page>>

RefuseOtherNamed(c) ==
    /\ ClientAt(c, "wrong", "name")
    /\ ctype[c] = "MEMCACHE" /\ last_error # "OK"
    /\ UNCHANGED <<readers, ctype, cpos, page, told>>

\* ... by the name it has at a second read, which the poller may have cleared
NameError(c) ==
    /\ ClientAt(c, "name", "done")
    /\ told' = [told EXCEPT ![c] = last_error]
    /\ UNCHANGED <<readers, ctype, cpos, page>>

\* mutant: the lock admits a reader beside the writer
RdLockAnyTime(c) ==
    /\ ClientAt(c, "asked", "check")
    /\ readers' = readers \cup {c}
    /\ UNCHANGED <<ctype, cpos, page, told>>

\* glibc's lock prefers readers: only a writer that holds it keeps them out
RdLock(c) ==
    /\ ClientAt(c, "asked", "check")
    /\ ~writer
    /\ readers' = readers \cup {c}
    /\ UNCHANGED <<ctype, cpos, page, told>>

Serve(c) ==
    /\ ClientAt(c, "check", "print")
    /\ state = "POLLING"
    /\ UNCHANGED <<readers, ctype, cpos, page, told>>

\* clntError under the lock: for a memcache client it reads last_error to choose the
\* message ...
RefusePlain(c) ==
    /\ ClientAt(c, "check", "done")
    /\ state # "POLLING" /\ ctype[c] = "MEMCACHE" /\ last_error = "OK"
    /\ told' = [told EXCEPT ![c] = "ERROR"]
    /\ Leave(c)
    /\ UNCHANGED <<ctype, cpos, page>>

RefuseNamed(c) ==
    /\ ClientAt(c, "check", "explain")
    /\ state # "POLLING" /\ ctype[c] = "MEMCACHE" /\ last_error # "OK"
    /\ UNCHANGED <<readers, ctype, cpos, page, told>>

\* ... and again to name the error; for an HTTP client it reads it once
Explain(c) ==
    /\ \/ ClientAt(c, "explain", "done")
       \/ /\ ClientAt(c, "check", "done")
          /\ state # "POLLING" /\ ctype[c] = "HTTP"
    /\ told' = [told EXCEPT ![c] = last_error]
    /\ Leave(c)
    /\ UNCHANGED <<ctype, cpos, page>>

\* one turn of rawPrintStats or htmlPrintStats
PrintEntry(c) ==
    /\ ClientAt(c, "print", "print")
    /\ Len(page[c]) < Len(stats[cpos[c]])
    /\ page' = [page EXCEPT ![c] = Append(@, stats[cpos[c]][Len(@) + 1])]
    /\ UNCHANGED <<readers, ctype, cpos, told>>

PrintEnd(c) ==
    /\ ClientAt(c, "print", "done")
    /\ Len(page[c]) >= Len(stats[cpos[c]])
    /\ told' = [told EXCEPT ![c] = "page"]
    /\ Leave(c)
    /\ UNCHANGED <<ctype, cpos, page>>

Answering(c) == Serve(c) \/ RefusePlain(c) \/ RefuseNamed(c) \/ Explain(c)
                \/ PrintEntry(c) \/ PrintEnd(c)
                \/ RefuseOther(c) \/ RefuseOtherNamed(c) \/ NameError(c)

ClientStep(c) ==
    /\ Request(c) \/ RequestOther(c) \/ RdLock(c) \/ Answering(c)
    /\ UNCHANGED <<link, session, state, writer, stats, poller>>

Next == Poller \/ \E c \in Client : ClientStep(c)

Spec == Init /\ [][Next]_vars
-----------------------------------------------------------------------------
(* Fairness *)

\* The poller and the clients run whenever they can.  A client may stay idle, and
\* its wait for the lock ends if the lock is free of writers again and again.
FairSpec ==
    /\ Spec
    /\ WF_vars(Poller)
    /\ \A c \in Client : SF_vars(ClientStep(c) /\ cpc[c] = "asked")
                         /\ WF_vars(ClientStep(c) /\ Answering(c))

\* The poller gets the lock, too, if it is free again and again.
LockFairSpec == FairSpec /\ SF_vars(Poller)

-----------------------------------------------------------------------------
(* Properties *)

SharedTypeOK ==
    /\ state \in BackendState /\ readers \subseteq Client /\ writer \in BOOLEAN
    /\ stats \in [Pos -> Seq(Entry)]

PollerTypeOK == ppc \in PollerPc /\ idx \in Pos /\ tries \in 0 .. Retries

ClientTypeOK ==
    /\ cpc \in [Client -> ClientPc] /\ ctype \in [Client -> ClientType]
    /\ cpos \in [Client -> Pos] /\ page \in [Client -> Seq(Entry)]
    /\ told \in [Client -> Told]

\* Every variable has its type; the poller is always at a uri of the list.
TypeOK == LinkTypeOK /\ SessionTypeOK /\ SharedTypeOK /\ PollerTypeOK /\ ClientTypeOK

IsPrefixOf(s, t) == Len(s) <= Len(t) /\ \A i \in 1 .. Len(s) : s[i] = t[i]

\* What rawPrintStats and htmlPrintStats have printed is the head of the list they
\* walk: the poller neither frees nor extends it before the walk ends.
PageIntact ==
    \A c \in Client : cpc[c] = "print" => IsPrefixOf(page[c], stats[cpos[c]])

\* statsCallback looks at bep->state once: its answer, the page or the refusal, is
\* right until it releases the lock.
ServingWhilePolling ==
    \A c \in Client : /\ cpc[c] = "print" => state = "POLLING"
                      /\ cpc[c] = "explain" => state # "POLLING"

\* statsCallback refuses a memcache client under the read lock (538), and there the
\* poller, which writes last_error without one, leaves the error between clntError's
\* two reads of it: the second never comes out as "Success".  Of the other refusals
\* (532, 673, 686, 723, 749), which hold no lock, this is not so.
ErrorNamed == \A c \in Client : cpc[c] = "explain" => last_error # "OK"

\* l is made of one reply to u, from one snapshot of the counters.  Of a reply that
\* fits the buffer it has every line in its place and without a gap, up to where the reply
\* or the list ends, in mid value at most.  A longer one may lose a line, or have a part
\* of it or garbage in its stead, where a full buffer cuts it; its lines stay in order,
\* none is there twice, and none of another reply is among them.
OfReply(l, u) ==
    \E v \in Version :
        /\ \A i \in 1 .. Len(l) :
              \/ l[i].kind = "FRAG"
              \/ l[i] \in {Line(k, u, v, n) : k \in {"STAT", "CUT"}, n \in 1 .. NStats[v]}
        /\ \A i, j \in 1 .. Len(l) :
              i < j /\ l[i].kind # "FRAG" /\ l[j].kind # "FRAG" => l[i].no < l[j].no
        /\ Fits(v) => \A i \in 1 .. Len(l) :
              l[i].no = i /\ (l[i].kind = "STAT" \/ (l[i].kind = "CUT" /\ i = Len(l)))

SnapshotAt(p) == UriList[p] # Health /\ ~writer => OfReply(stats[p], UriList[p])

\* The first list of a round is read from a fresh connection: whatever went wrong
\* with the commands of the round before, it holds nothing but its own reply.
FirstListTrue == SnapshotAt(1)

\* "liveness 1" is put in the list only if memcached stored the probe it answers.
HealthHonest ==
    ppc \in {"lock", "remove", "add"} =>
        \A i \in 1 .. Len(new_stats) : new_stats[i].kind = "LIVE" => stored

\* getStat caches under each uri the reply to the command for that uri.
ListsTrue == \A p \in Pos : SnapshotAt(p)

\* A client that asked is answered.
Answered == \A c \in Client : cpc[c] \in {"asked", "wrong"} ~> cpc[c] = "done"

\* The poller begins round after round, provided clients leave it the lock in the end.
RoundBegins     == ppc = "visit" /\ idx = 1
PollsWhenUnread == <>[](readers = {}) => []<>RoundBegins

-----------------------------------------------------------------------------
(* What comments and README.txt say, and the code does not do *)

\* statsproxy.c:861, "update stats with new ones - (or nuke old ones on error)":
\* when the command cannot be sent, getStat leaves no old list behind.
NukedOnError ==
    [][(\E err \in Errno : SendStatsFails(err)) => stats'[idx] = <<>>]_vars

\* statsmc.c:74, "If the connection fails, return a relevant error code to the
\* caller": when sp_memcache_connect returns 0 there is a connection.
ConnectedOnSuccess == [][ConnectDone => sock'.open]_vars

\* README.txt:108-109, "will poll the memcache service for stats on this interval":
\* rounds go on whatever the clients do.
PollsForEver == []<>RoundBegins

-----------------------------------------------------------------------------
(* The backend implements the buffered view *)

Published == [p \in Pos |-> IF ppc = "add" /\ p = idx THEN new_stats ELSE stats[p]]

AnswerTo(c) ==
    CASE cpc[c] = "idle"                      -> [kind |-> "none"]
      [] cpc[c] = "done" /\ told[c] = "page"  -> [kind |-> "given", list |-> page[c]]
      [] cpc[c] = "done" /\ told[c] # "page"  -> [kind |-> "refused"]
      [] cpc[c] \in {"wrong", "name"}          -> [kind |-> "unlisted"]
      [] OTHER                                -> [kind |-> "waiting", pos |-> cpos[c]]

Buffered == INSTANCE BufferedStats WITH
    List <- Seq(Entry), Empty <- <<>>,
    serving <- state = "POLLING", cache <- Published,
    answer <- [c \in Client |-> AnswerTo(c)]

\* A client sees each list whole, as published, and only from a backend that serves.
BufferedView == Buffered!Spec

-----------------------------------------------------------------------------
(* The inductive invariant *)

Reading(c) == cpc[c] \in {"check", "explain", "print"}

\* Who holds the lock is told by where the threads are, and a writer is alone.
LockInv ==
    /\ readers = {c \in Client : Reading(c)}
    /\ writer <=> ppc \in {"remove", "add"}
    /\ writer => readers = {}

\* From the command on, the backend is POLLING; the list is empty before the new
\* entries are added.
UpdateInv ==
    /\ ppc \notin {"start", "visit", "connect", "polling"} => state = "POLLING"
    /\ ppc = "add" => stats[idx] = <<>>

\* Nothing is printed before bep->state is looked at.
UnprintedInv ==
    \A c \in Client : cpc[c] \in {"asked", "check"} => page[c] = <<>>

Inv == TypeOK /\ LockInv /\ UpdateInv /\ UnprintedInv /\ PageIntact /\ ServingWhilePolling
=============================================================================
