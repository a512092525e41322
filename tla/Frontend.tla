------------------------------- MODULE Frontend -------------------------------
(***************************************************************************)
(* The front end (runFrontend, handleFrontendRequest and the callbacks of  *)
(* statsproxy.c), one thread per connection, together with what those      *)
(* threads share with each other, with the pollers and with the queries to *)
(* memcache reporter (mcr_web.c): the table of descriptors of the process. *)
(* A thread knows its connection only by a number in that table.           *)
(*                                                                         *)
(* Whether the backend is POLLING is an input here; Backend models it.     *)
(***************************************************************************)
EXTENDS Integers, Sequences

CONSTANTS
    Conn,       \* connections to the front end, and the threads that serve them
    Backends,   \* pollers of the process
    MaxFd,      \* size of the descriptor table
    Uris,       \* bep->uris
    Requests,   \* the lines clients may send
    MaxAsk,     \* how many of them on one connection (bound)
    Fault       \* what may go wrong

ASSUME FrontendAssumption ==
    /\ MaxFd \in Nat /\ MaxAsk \in Nat
    /\ \A r \in Requests : DOMAIN r = {"method", "uri", "params"}

VARIABLES
    fd,         \* the descriptor table: what each number stands for
    backlog,    \* connections not accepted yet
    gone,       \* the client closed its side
    asked,      \* how many requests it sent
    inbox,      \* requests the server has not read
    outbox,     \* answers the client received
    pollfd,     \* bep->fd of each poller
    tpc, tfd,   \* a thread: where it is, clnt->fd,
    ttype,      \*   clnt->type,
    treq,       \*   the request at hand,
    tans,       \*   the answer to it,
    qfd         \*   fd of its query to memcache reporter

table   == <<fd, backlog>>
clients == <<gone, asked, inbox, outbox>>
threads == <<tpc, tfd, ttype, treq, tans, qfd>>
vars    == <<table, clients, pollfd, threads>>

Number == 0 .. MaxFd - 1

Free         == <<"free", "free">>
Client(c)    == <<"client", c>>
Memcached(b) == <<"memcached", b>>
Query(c)     == <<"query", c>>
Unused(c)    == <<"unused", c>>      \* the first socket of mcr_updateInstances

Object == {Free} \cup {Client(c) : c \in Conn} \cup {Memcached(b) : b \in Backends}
          \cup {Query(c) : c \in Conn} \cup {Unused(c) : c \in Conn}

Methods == {"stats", "GET", "POST"}
Form    == {"MEMCACHE", "HTTP"}
What    == {"stats", "image", "report", "redirect", "sorry",
            "unavailable", "notfound", "badrequest"}
Asking  == [from : Conn, n : 1 .. MaxAsk, req : Requests]
Answer  == [to : Asking, what : What, form : Form]
None    == [what |-> "none"]

Serving  == {"dispatch", "address", "socket1", "socket", "connect", "exchange",
             "fclose", "close_fd", "flush", "last", "crashed"}
ThreadPc == Serving \cup {"none", "fdopen", "read", "close"}

Init ==
    /\ fd = [n \in Number |-> Free] /\ backlog = <<>>
    /\ gone = [c \in Conn |-> FALSE] /\ asked = [c \in Conn |-> 0]
    /\ inbox = [c \in Conn |-> <<>>] /\ outbox = [c \in Conn |-> <<>>]
    /\ pollfd = [b \in Backends |-> -1]
    /\ tpc = [c \in Conn |-> "none"] /\ tfd = [c \in Conn |-> -1]
    /\ ttype = [c \in Conn |-> "MEMCACHE"]
    /\ treq = [c \in Conn |-> None] /\ tans = [c \in Conn |-> None]
    /\ qfd = [c \in Conn |-> -1]

-----------------------------------------------------------------------------
(* The descriptor table, and those outside the front end *)

\* the kernel gives out the lowest number that is free
Lowest(n) == n \in Number /\ fd[n] = Free /\ \A m \in Number : m < n => fd[m] # Free

Opened(n, o) == Lowest(n) /\ fd' = [fd EXCEPT ![n] = o]

\* close() of a number that is not open has no effect
Closed(n) == fd' = [fd EXCEPT ![n] = Free]

Full == \A n \in Number : fd[n] # Free

Queued(c) == \E i \in 1 .. Len(backlog) : backlog[i] = c
Open(c)   == \E n \in Number : fd[n] = Client(c)

\* connect() by a client, which returns before the proxy accepts
Dial(c) ==
    /\ ~Queued(c) /\ ~Open(c) /\ tpc[c] = "none"
    /\ backlog' = Append(backlog, c)
    /\ gone' = [gone EXCEPT ![c] = FALSE]
    /\ asked' = [asked EXCEPT ![c] = 0]
    /\ inbox' = [inbox EXCEPT ![c] = <<>>]
    /\ outbox' = [outbox EXCEPT ![c] = <<>>]
    /\ UNCHANGED <<fd, pollfd, threads>>

Ask(c) ==
    /\ Queued(c) \/ Open(c)
    /\ ~gone[c] /\ asked[c] < MaxAsk
    /\ \E r \in Requests :
          inbox' = [inbox EXCEPT ![c] = Append(@, [from |-> c, n |-> asked[c] + 1, req |-> r])]
    /\ asked' = [asked EXCEPT ![c] = @ + 1]
    /\ UNCHANGED <<table, gone, outbox, pollfd, threads>>

HangUp(c) ==
    /\ (Queued(c) \/ Open(c)) /\ ~gone[c]
    /\ gone' = [gone EXCEPT ![c] = TRUE]
    /\ UNCHANGED <<table, asked, inbox, outbox, pollfd, threads>>

\* socket() of sp_memcache_connect
PollerSocket(b) ==
    /\ pollfd[b] = -1
    /\ \E n \in Number : Opened(n, Memcached(b)) /\ pollfd' = [pollfd EXCEPT ![b] = n]
    /\ UNCHANGED <<backlog, clients, threads>>

\* sp_memcache_disconnect
PollerClose(b) ==
    /\ pollfd[b] # -1
    /\ Closed(pollfd[b])
    /\ pollfd' = [pollfd EXCEPT ![b] = -1]
    /\ UNCHANGED <<backlog, clients, threads>>

-----------------------------------------------------------------------------
(* The accept loop and the requests of a connection *)

Goto(t, pc) == tpc' = [tpc EXCEPT ![t] = pc]

\* mutant: the connection that came last is served first
AcceptNewest ==
    /\ backlog # <<>>
    /\ \E n \in Number : LET c == backlog[Len(backlog)] IN
          /\ Opened(n, Client(c))
          /\ tfd' = [tfd EXCEPT ![c] = n]
          /\ ttype' = [ttype EXCEPT ![c] = "MEMCACHE"]
          /\ Goto(c, "fdopen")
    /\ backlog' = SubSeq(backlog, 1, Len(backlog) - 1)
    /\ UNCHANGED <<clients, pollfd, treq, tans, qfd>>

\* one turn of the loop of runFrontend
Accept ==
    /\ backlog # <<>>
    /\ \E n \in Number : LET c == Head(backlog) IN
          /\ Opened(n, Client(c))
          /\ tfd' = [tfd EXCEPT ![c] = n]
          /\ ttype' = [ttype EXCEPT ![c] = "MEMCACHE"]
          /\ Goto(c, "fdopen")
    /\ backlog' = Tail(backlog)
    /\ UNCHANGED <<clients, pollfd, treq, tans, qfd>>

\* with a full table accept() fails, the loop sleeps and tries again, and the
\* connection stays queued
AcceptFails == backlog # <<>> /\ Full /\ UNCHANGED vars

Fdopen(t) ==
    /\ tpc[t] = "fdopen"
    /\ Goto(t, "read")
    /\ UNCHANGED <<table, clients, pollfd, tfd, ttype, treq, tans, qfd>>

\* mutant: the thread goes on after it closed the socket
FdopenFailsGoesOn(t) ==
    /\ tpc[t] = "fdopen" /\ "fdopen" \in Fault
    /\ Closed(tfd[t])
    /\ Goto(t, "read")
    /\ UNCHANGED <<backlog, clients, pollfd, tfd, ttype, treq, tans, qfd>>

\* the socket is closed and the thread returns (clnt is not freed)
FdopenFails(t) ==
    /\ tpc[t] = "fdopen" /\ "fdopen" \in Fault
    /\ Closed(tfd[t])
    /\ Goto(t, "none")
    /\ tfd' = [tfd EXCEPT ![t] = -1]
    /\ UNCHANGED <<backlog, clients, pollfd, ttype, treq, tans, qfd>>

\* mutant: the method itself is kept
ClientTypeRaw(method) == IF method = "stats" THEN "MEMCACHE" ELSE method

\* mutant: only GET is HTTP
ClientTypeGet(method) == IF method = "GET" THEN "HTTP" ELSE "MEMCACHE"

ClientType(method) == IF method = "stats" THEN "MEMCACHE" ELSE "HTTP"

BadMethod(method) == method \notin Methods

\* fgets fills the buffer of the FILE with what has arrived and returns its first
\* line; printing the answer throws the rest of the buffer away
ReadRequest(t) ==
    /\ tpc[t] = "read"
    /\ \E d \in Conn :
          /\ fd[tfd[t]] = Client(d) /\ inbox[d] # <<>>
          /\ \E k \in 1 .. Len(inbox[d]) :
                inbox' = [inbox EXCEPT ![d] = SubSeq(@, k + 1, Len(@))]
          /\ treq' = [treq EXCEPT ![t] = Head(inbox[d])]
          /\ LET method == Head(inbox[d]).req.method IN
                ttype' = [ttype EXCEPT ![t] =
                             IF BadMethod(method) THEN @ ELSE ClientType(method)]
    /\ Goto(t, "dispatch")
    /\ UNCHANGED <<table, gone, asked, outbox, pollfd, tfd, tans, qfd>>

\* fgets returns NULL: the client is gone, or the number is not open
ReadEof(t) ==
    /\ tpc[t] = "read"
    /\ \/ fd[tfd[t]] = Free
       \/ \E d \in Conn : fd[tfd[t]] = Client(d) /\ gone[d] /\ inbox[d] = <<>>
    /\ Goto(t, "close")
    /\ UNCHANGED <<table, clients, pollfd, tfd, ttype, treq, tans, qfd>>

\* what is printed stays in the FILE until it is flushed
Say(t, what) ==
    tans' = [tans EXCEPT ![t] = [to |-> treq[t], what |-> what, form |-> ttype[t]]]

\* the answer after which the session is closed
Finish(t, what) == Say(t, what) /\ Goto(t, "last")

SystemUris ==
    [u \in {"reporter", "top-keys", "top-keys-gets", "top-keys-sets", "top-keys-all",
            "top-keys-select", "top-clients-key", "top-clients-ops", "mcr-config",
            "mcr-enable", "mcr-disable"} |-> "reporterCallback"]

FindCallback(uri) ==
    IF uri \in DOMAIN SystemUris THEN SystemUris[uri]
    ELSE IF uri = "logo.png" THEN "imageCallback"
    ELSE IF uri \in Uris THEN "statsCallback"
    ELSE "none"

Uri(t) == treq[t].req.uri
Params(t) == treq[t].req.params

\* the thread is about to call this callback
Calls(t, cb) ==
    /\ tpc[t] = "dispatch"
    /\ ~BadMethod(treq[t].req.method)
    /\ FindCallback(Uri(t)) = cb

quiet == <<table, clients, pollfd, tfd, ttype, treq, qfd>>

RefuseMethod(t) ==
    /\ tpc[t] = "dispatch" /\ BadMethod(treq[t].req.method)
    /\ Finish(t, "badrequest") /\ UNCHANGED quiet

RefuseUri(t) == Calls(t, "none") /\ Finish(t, "notfound") /\ UNCHANGED quiet

\* mutant: the session is kept whatever the answer
StatsCallbackKeeps(t) ==
    /\ Calls(t, "statsCallback")
    /\ \E what \in IF Params(t) # {} THEN {"notfound"} ELSE {"stats", "unavailable"} :
          Say(t, what)
    /\ Goto(t, "flush")
    /\ UNCHANGED quiet

\* the callback compares the whole uri, parameters included; whether the backend
\* is POLLING is Backend's affair
StatsCallback(t) ==
    /\ Calls(t, "statsCallback")
    /\ IF Params(t) # {} THEN Finish(t, "notfound")
       ELSE \/ Finish(t, "unavailable")
            \/ ttype[t] = "MEMCACHE" /\ Say(t, "stats") /\ Goto(t, "flush")
            \/ ttype[t] = "HTTP" /\ Finish(t, "stats")
    /\ UNCHANGED quiet

ImageCallback(t) ==
    /\ Calls(t, "imageCallback")
    /\ Finish(t, IF Params(t) = {} THEN "image" ELSE "notfound")
    /\ UNCHANGED quiet

\* mutant: nothing is written
FlushNothing(t) ==
    /\ tpc[t] \in {"flush", "last"}
    /\ Goto(t, IF tpc[t] = "last" THEN "close" ELSE "read")
    /\ treq' = [treq EXCEPT ![t] = None] /\ tans' = [tans EXCEPT ![t] = None]
    /\ UNCHANGED <<table, clients, pollfd, tfd, ttype, qfd>>

\* fflush: to whatever the number stands for now
Flush(t) ==
    /\ tpc[t] \in {"flush", "last"}
    /\ outbox' = [d \in Conn |-> IF fd[tfd[t]] = Client(d)
                                 THEN Append(outbox[d], tans[t]) ELSE outbox[d]]
    /\ Goto(t, IF tpc[t] = "last" THEN "close" ELSE "read")
    /\ treq' = [treq EXCEPT ![t] = None] /\ tans' = [tans EXCEPT ![t] = None]
    /\ UNCHANGED <<table, gone, asked, inbox, pollfd, tfd, ttype, qfd>>

\* mutant: the thread ends and leaves the socket
EndLeavesSocket(t) ==
    /\ tpc[t] = "close"
    /\ Goto(t, "none")
    /\ tfd' = [tfd EXCEPT ![t] = -1]
    /\ UNCHANGED <<table, clients, pollfd, ttype, treq, tans, qfd>>

\* fclose(serv), free(clnt), and the thread is gone
End(t) ==
    /\ tpc[t] = "close"
    /\ Closed(tfd[t])
    /\ Goto(t, "none")
    /\ tfd' = [tfd EXCEPT ![t] = -1]
    /\ UNCHANGED <<backlog, clients, pollfd, ttype, treq, tans, qfd>>

-----------------------------------------------------------------------------
(* Queries to memcache reporter *)

\* the parameters a reporter page asks for; a page not listed is not handled
Needs ==
    [u \in {"mcr-config", "top-keys-gets", "top-keys-sets", "top-keys-all",
            "top-keys-select", "mcr-enable", "mcr-disable",
            "top-clients-ops", "top-clients-keys"} |->
        IF u = "mcr-config" THEN {}
        ELSE IF u \in {"top-clients-ops", "top-clients-keys"} THEN {"addr", "port", "key"}
        ELSE {"addr", "port"}]

ReporterCallback(t) ==
    /\ Calls(t, "reporterCallback")
    /\ IF Uri(t) \notin DOMAIN Needs THEN Finish(t, "notfound")
       ELSE IF ~(Needs[Uri(t)] \subseteq Params(t)) THEN Finish(t, "sorry")
       ELSE Goto(t, "address") /\ UNCHANGED tans
    /\ UNCHANGED quiet

\* mcr_getAddr; the list of instances opens a socket before it connects
GetAddr(t) ==
    /\ tpc[t] = "address"
    /\ \/ /\ Goto(t, IF Uri(t) = "mcr-config" THEN "socket1" ELSE "socket")
          /\ UNCHANGED tans
       \/ "noname" \in Fault /\ Finish(t, "sorry")
    /\ UNCHANGED quiet

\* the first socket of mcr_updateInstances
FirstSocket(t) ==
    /\ tpc[t] = "socket1"
    /\ \/ /\ \E n \in Number : Opened(n, Unused(t)) /\ qfd' = [qfd EXCEPT ![t] = n]
          /\ Goto(t, "socket") /\ UNCHANGED tans
       \/ Full /\ Finish(t, "sorry") /\ UNCHANGED <<fd, qfd>>
    /\ UNCHANGED <<backlog, clients, pollfd, tfd, ttype, treq>>

\* socket() of mcr_connectRemote, into the same variable
Socket(t) ==
    /\ tpc[t] = "socket"
    /\ \/ /\ \E n \in Number : Opened(n, Query(t)) /\ qfd' = [qfd EXCEPT ![t] = n]
          /\ Goto(t, "connect") /\ UNCHANGED tans
       \/ /\ Full /\ Finish(t, "sorry")
          /\ qfd' = [qfd EXCEPT ![t] = -1] /\ UNCHANGED fd
    /\ UNCHANGED <<backlog, clients, pollfd, tfd, ttype, treq>>

\* mutant: nothing is closed when connect fails
ConnectLeaks(t) ==
    /\ tpc[t] = "connect"
    /\ \/ Goto(t, "exchange") /\ UNCHANGED tans
       \/ "noreporter" \in Fault /\ Finish(t, "sorry")
    /\ UNCHANGED quiet

\* connect() and fdopen() of mcr_connectRemote; when connect fails fp is NULL and fd is
\* closed once, but when fdopen fails err is 0 by then, and printing the query to the FILE
\* that is NULL ends the process
Connect(t) ==
    /\ tpc[t] = "connect"
    /\ \/ Goto(t, "exchange") /\ UNCHANGED tans
       \/ "noreporter" \in Fault /\ Say(t, "sorry") /\ Goto(t, "close_fd")
       \/ "nofile" \in Fault /\ Goto(t, "crashed") /\ UNCHANGED tans
    /\ UNCHANGED quiet

\* the query and the reply; the list of instances takes ERROR for an empty list
Exchange(t) ==
    /\ tpc[t] = "exchange"
    /\ \/ Say(t, IF Uri(t) \in {"mcr-enable", "mcr-disable"} THEN "redirect" ELSE "report")
       \/ "error" \in Fault /\ Uri(t) # "mcr-config" /\ Say(t, "sorry")
    /\ Goto(t, "fclose")
    /\ UNCHANGED quiet

\* fclose(fp) closes the number
FcloseQuery(t) ==
    /\ tpc[t] = "fclose"
    /\ Closed(qfd[t])
    /\ Goto(t, "close_fd")
    /\ UNCHANGED <<backlog, clients, pollfd, tfd, ttype, treq, tans, qfd>>

\* close(fd) closes it again, or what others opened under it in the meantime
CloseQuery(t) ==
    /\ tpc[t] = "close_fd"
    /\ Closed(qfd[t])
    /\ Goto(t, "last")
    /\ qfd' = [qfd EXCEPT ![t] = -1]
    /\ UNCHANGED <<backlog, clients, pollfd, tfd, ttype, treq, tans>>

-----------------------------------------------------------------------------
Thread(t) ==
    \/ Fdopen(t) \/ FdopenFails(t) \/ ReadRequest(t) \/ ReadEof(t)
    \/ RefuseMethod(t) \/ RefuseUri(t)
    \/ StatsCallback(t) \/ ImageCallback(t) \/ ReporterCallback(t)
    \/ GetAddr(t) \/ FirstSocket(t) \/ Socket(t) \/ Connect(t) \/ Exchange(t)
    \/ FcloseQuery(t) \/ CloseQuery(t)
    \/ Flush(t) \/ End(t)

\* the process is there; the kernel closes what a crash leaves open, and the model ends
Up == \A t \in Conn : tpc[t] # "crashed"
Crashed == ~Up /\ UNCHANGED vars

Next ==
    \/ /\ Up
       /\ \/ \E c \in Conn : Dial(c) \/ Ask(c) \/ HangUp(c) \/ Thread(c)
          \/ Accept \/ AcceptFails
          \/ \E b \in Backends : PollerSocket(b) \/ PollerClose(b)
    \/ Crashed

Spec == Init /\ [][Next]_vars

\* threads are scheduled; nothing makes a client ask, but none stays for ever
FairSpec ==
    /\ Spec
    /\ WF_vars(Up /\ Accept)
    /\ \A c \in Conn : WF_vars(Up /\ Thread(c)) /\ WF_vars(Up /\ HangUp(c))

-----------------------------------------------------------------------------
(* Properties *)

FrontTypeOK ==
    /\ fd \in [Number -> Object]
    /\ backlog \in Seq(Conn)
    /\ gone \in [Conn -> BOOLEAN] /\ asked \in [Conn -> 0 .. MaxAsk]
    /\ inbox \in [Conn -> Seq(Asking)] /\ outbox \in [Conn -> Seq(Answer)]
    /\ pollfd \in [Backends -> Number \cup {-1}]
    /\ tpc \in [Conn -> ThreadPc] /\ tfd \in [Conn -> Number \cup {-1}]
    /\ ttype \in [Conn -> Form]
    /\ treq \in [Conn -> Asking \cup {None}] /\ tans \in [Conn -> Answer \cup {None}]
    /\ qfd \in [Conn -> Number \cup {-1}]

\* A number that a thread or a poller takes for its own stands for its own socket:
\* the numbers runFrontend, mcr_connectRemote and sp_memcache_connect got from the
\* kernel are not given away or closed behind their back.
Owned ==
    /\ \A t \in Conn : tpc[t] # "none" => fd[tfd[t]] = Client(t)
    /\ \A t \in Conn : tpc[t] \in {"connect", "exchange", "fclose"} => fd[qfd[t]] = Query(t)
    /\ \A b \in Backends : pollfd[b] # -1 => fd[pollfd[b]] = Memcached(b)

\* No socket is left behind, but for the first one of mcr_updateInstances: one that is
\* open belongs to a thread that will close it, whatever failed on the way, or that
\* ended the process with it.
Accounted ==
    \A n \in Number, t \in Conn :
        /\ fd[n] = Client(t) => tpc[t] # "none" /\ tfd[t] = n
        /\ fd[n] = Query(t) =>
              /\ tpc[t] \in {"connect", "exchange", "fclose", "close_fd", "crashed"}
              /\ qfd[t] = n

\* "close the socket and exit this thread" (handleFrontendRequest): a connection is
\* closed by the thread that serves it, as that thread's last act, a query by the thread that
\* made it, and the connection to memcached by its poller.
ClosedByOwner ==
    [][\A n \in Number : fd'[n] # fd[n] =>
          /\ \A t \in Conn : fd[n] = Client(t) =>
                tpc[t] \in {"fdopen", "close"} /\ tpc'[t] = "none"
          /\ \A t \in Conn : fd[n] = Query(t) => tpc[t] \in {"fclose", "close_fd"} /\ tpc'[t] # tpc[t]
          /\ \A b \in Backends : fd[n] = Memcached(b) => pollfd'[b] = -1]_vars

\* what a connection is to its client; a request is unanswered until the answer is flushed
Phase == [c \in Conn |-> IF Queued(c) THEN "queued" ELSE IF Open(c) THEN "open" ELSE "idle"]
Pending(c) == IF tpc[c] \in Serving THEN <<treq[c]>> ELSE <<>>
Inbox == [c \in Conn |-> Pending(c) \o inbox[c]]

S == INSTANCE Sessions WITH
    phase <- Phase, inbox <- Inbox, MayFail <- "fdopen" \in Fault

\* Connections do not mix although threads, numbers and the table are shared and used
\* again: each is a conversation of its own, answered in order, in the sender's format,
\* and closed after the answer that ends it.
SessionsView == S!Spec

\* A request that finds its thread waiting is answered, even if the client leaves.
Served ==
    \A c \in Conn, k \in 0 .. MaxAsk - 1 :
        (tpc[c] = "read" /\ inbox[c] # <<>> /\ Len(outbox[c]) = k) ~> (Len(outbox[c]) > k)

\* The descriptor of a client that left comes back.
Reclaimed == \A c \in Conn : gone[c] ~> (~gone[c] \/ (~Open(c) /\ ~Queued(c)))

\* A full table delays a connection and does not lose it, if the pollers come to rest.
Admitted ==
    (<>[][FALSE]_pollfd) => \A c \in Conn : Queued(c) ~> ~Queued(c)
=============================================================================
