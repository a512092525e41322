------------------------------- MODULE Startup -------------------------------
(***************************************************************************)
(* The life of the process before it serves: main reads the configuration  *)
(* (Settings), startProxies creates two threads for each proxy, and each   *)
(* thread of runFrontend looks up its host, binds its socket and listens.  *)
(* These threads run at the same time, share the static result of          *)
(* gethostbyname, and any of them may end the process.                     *)
(***************************************************************************)
EXTENDS Settings, FiniteSets

CONSTANTS
    DotQuad,        \* the hosts that are dotted addresses, not names
    LocalAddress,   \* the addresses of this machine
    Fault           \* what may go wrong: "nosocket", "nothread"

ASSUME StartupAssumption ==
    /\ DotQuad \subseteq Host
    /\ \A h \in DotQuad : "none" \notin Address[h]

VARIABLES
    started,    \* proxies that startProxies has gone through
    fpc,        \* the thread of runFrontend: where it is
    saddr,      \* serv_addr.sin_addr
    hostent,    \* the static result of gethostbyname
    heard       \* whose lookups ended from its own to its copy of the result (history)

threads == <<started, fpc, saddr, hostent, heard>>
vars    == <<config, threads>>

Proxy == 1 .. MaxProxies
FrontPc == {"none", "socket", "lookup", "copy", "bind", "listen", "accept", "deaf"}

Init ==
    /\ ConfigInit
    /\ started = 0
    /\ fpc = [p \in Proxy |-> "none"]
    /\ saddr = [p \in Proxy |-> "none"]
    /\ hostent = "none"
    /\ heard = [p \in Proxy |-> {}]

-----------------------------------------------------------------------------
(* main *)

ReadConfig == Parse /\ UNCHANGED threads

\* one turn of the loop of startProxies; the poller's thread does not meet the others
\* here, and no result of pthread_create is looked at
StartProxy(p) ==
    /\ at = "end" /\ p <= Len(proxies) /\ started = p - 1
    /\ started' = p
    /\ \/ fpc' = [fpc EXCEPT ![p] = "socket"]
       \/ "nothread" \in Fault /\ UNCHANGED fpc
    /\ UNCHANGED <<config, saddr, hostent, heard>>

\* SIGHUP: _exit(EXIT_RECONFIGURE)
Hup == at # "exit" /\ Exit /\ UNCHANGED <<local, uris, proxies, wrote, lines, threads>>

-----------------------------------------------------------------------------
(* runFrontend, up to its loop *)

FrontAt(p, from, to) == at = "end" /\ fpc[p] = from /\ fpc' = [fpc EXCEPT ![p] = to]

\* exit(1) in a thread of runFrontend
FrontExit(p, from) ==
    /\ at = "end" /\ fpc[p] = from
    /\ Exit
    /\ UNCHANGED <<local, uris, proxies, wrote, lines, threads>>

FrontHost(p) == proxies[p].front[1]
FrontPort(p) == proxies[p].front[2]

Socket(p) ==
    \/ FrontAt(p, "socket", "lookup") /\ UNCHANGED <<config, started, saddr, hostent, heard>>
    \/ "nosocket" \in Fault /\ FrontExit(p, "socket")

\* gethostbyname(): the static result is its answer to p, for all who have not copied it
Answer(p, a) ==
    /\ hostent' = a
    /\ heard' = [q \in Proxy |-> IF q = p THEN {p}
                                ELSE IF fpc[q] = "copy" THEN heard[q] \cup {p}
                                ELSE heard[q]]

\* mutant: a result that is there is taken
LookupOnce(p) ==
    fpc[p] = "lookup" /\ \E a \in Address[FrontHost(p)] :
       /\ FrontAt(p, "lookup", "copy")
       /\ IF hostent = "none" THEN Answer(p, a)
          ELSE UNCHANGED hostent /\ heard' = [heard EXCEPT ![p] = {p}]
       /\ UNCHANGED <<config, started, saddr>>

\* host2addr: inet_addr, or gethostbyname into its static result; this is not the lookup
\* of addProxy, and its answer may be another
Lookup(p) ==
    fpc[p] = "lookup" /\ \E a \in Address[FrontHost(p)] :
       \/ /\ FrontAt(p, "lookup", "bind")
          /\ FrontHost(p) \in DotQuad
          /\ saddr' = [saddr EXCEPT ![p] = a]
          /\ heard' = [heard EXCEPT ![p] = {p}]
          /\ UNCHANGED <<config, started, hostent>>
       \/ /\ FrontAt(p, "lookup", "copy")
          /\ FrontHost(p) \notin DotQuad /\ a # "none"
          /\ Answer(p, a)
          /\ UNCHANGED <<config, started, saddr>>
       \/ a = "none" /\ FrontExit(p, "lookup")

\* myEnt->h_addr: whatever was looked up last
CopyAddress(p) ==
    /\ FrontAt(p, "copy", "bind")
    /\ saddr' = [saddr EXCEPT ![p] = hostent]
    /\ UNCHANGED <<config, started, hostent, heard>>

\* the kernel: another socket listens there
Taken(p) ==
    \E q \in Proxy \ {p} :
        fpc[q] = "accept" /\ saddr[q] = saddr[p] /\ FrontPort(q) = FrontPort(p)

CanBind(p) == saddr[p] \in LocalAddress /\ ~Taken(p)

\* mutant: the thread gives up alone
BindEndsThread(p) ==
    /\ FrontAt(p, "bind", IF CanBind(p) THEN "listen" ELSE "none")
    /\ UNCHANGED <<config, started, saddr, hostent, heard>>

\* bind() with SO_REUSEADDR fails only if another socket already listens there
Bind(p) ==
    \/ /\ FrontAt(p, "bind", "listen")
       /\ CanBind(p)
       /\ UNCHANGED <<config, started, saddr, hostent, heard>>
    \/ FrontExit(p, "bind") /\ ~CanBind(p)

\* listen(), whose result is not looked at: with a socket that does not listen,
\* accept() fails for ever
Listen(p) ==
    /\ FrontAt(p, "listen", IF Taken(p) THEN "deaf" ELSE "accept")
    /\ UNCHANGED <<config, started, saddr, hostent, heard>>

FrontThread(p) == Socket(p) \/ Lookup(p) \/ CopyAddress(p) \/ Bind(p) \/ Listen(p)

-----------------------------------------------------------------------------
Next ==
    \/ ReadConfig \/ Hup
    \/ \E p \in Proxy : StartProxy(p) \/ FrontThread(p)

Spec == Init /\ [][Next]_vars

\* the file ends, and threads are scheduled; nobody sends the signal
FairSpec ==
    /\ Spec
    /\ \A p \in Proxy : WF_vars(StartProxy(p)) /\ WF_vars(FrontThread(p))

-----------------------------------------------------------------------------
(* Properties *)

\* Every variable has its type.
StartupTypeOK ==
    /\ at \in ParserAt /\ failed \in BOOLEAN /\ local \in Local
    /\ uris \in Seq(Uris) /\ Len(proxies) <= MaxProxies
    /\ wrote \in [Times -> Int] /\ lines \in 0 .. MaxLines
    /\ started \in 0 .. MaxProxies
    /\ fpc \in [Proxy -> FrontPc]
    /\ heard \in [Proxy -> SUBSET Proxy]
    /\ \A p \in Proxy : fpc[p] # "none" => p <= Len(proxies)

\* A front end binds to an address that some lookup had for an answer: its own (318), or
\* one that another front end's thread made after it and before it copied the result that
\* gethostbyname keeps for both (121); never one from before, and never none.
BoundAsLookedUp ==
    \A p \in Proxy :
        fpc[p] \in {"bind", "listen", "accept", "deaf"} =>
            \E q \in heard[p] : saddr[p] \in Address[FrontHost(q)] \ {"none"}

\* "can't bind socket" ends the process (runFrontend): once startProxies has made its
\* thread, a front end accepts, or the process exits for all; it stays, and serves nobody,
\* only where it lost the end to another front end between its bind() and its listen().
Settled ==
    \A p \in Proxy :
        fpc[p] = "socket" ~> fpc[p] = "accept" \/ (fpc[p] = "deaf" /\ Taken(p)) \/ at = "exit"
=============================================================================
