---------------------------- MODULE FrontendProofs ----------------------------
(***************************************************************************)
(* Proofs about Frontend, for every number of connections and pollers,     *)
(* every size of the descriptor table, and every set of requests and       *)
(* faults.                                                                 *)
(***************************************************************************)
EXTENDS Frontend, SequenceTheorems, TLAPS

-----------------------------------------------------------------------------
(* Types *)

\* A thread that serves has its request, and one that is past the callback its answer.
ThreadInv ==
    /\ \A t \in Conn : tpc[t] \in Serving => treq[t] \in Asking
    /\ \A t \in Conn : tpc[t] \in {"fclose", "close_fd", "flush", "last"} => tans[t] \in Answer

TypeInv == FrontTypeOK /\ ThreadInv

LEMMA NumberType == \A n \in Number : n \in Int
BY FrontendAssumption DEF Number

LEMMA InitTypes == Init => TypeInv
<1> SUFFICES ASSUME Init PROVE TypeInv
  OBVIOUS
<1>1. <<>> \in Seq(Conn) /\ <<>> \in Seq(Asking) /\ <<>> \in Seq(Answer)
  BY EmptySeq
<1>2. 0 \in 0 .. MaxAsk
  BY FrontendAssumption
<1> QED BY <1>1, <1>2 DEF Init, TypeInv, FrontTypeOK, ThreadInv, Object, Serving, ThreadPc, Form

\* Saying something gives the thread an answer.
LEMMA SayType ==
    ASSUME TypeInv, NEW t \in Conn, NEW w \in What, Say(t, w), tpc[t] \in Serving
    PROVE  /\ tans' \in [Conn -> Answer \cup {None}]
           /\ tans'[t] \in Answer
           /\ \A u \in Conn \ {t} : tans'[u] = tans[u]
<1>1. treq[t] \in Asking /\ ttype[t] \in Form /\ tans \in [Conn -> Answer \cup {None}]
  BY DEF TypeInv, FrontTypeOK, ThreadInv
<1>2. [to |-> treq[t], what |-> w, form |-> ttype[t]] \in Answer
  BY <1>1 DEF Answer
<1> QED BY <1>1, <1>2 DEF Say

\* A thread that goes on to a step that needs no answer, or to one that does with an
\* answer, keeps the invariant, if it keeps its request.
LEMMA GotoTypes ==
    ASSUME TypeInv, NEW t \in Conn, NEW pc \in ThreadPc, Goto(t, pc),
           treq' \in [Conn -> Asking \cup {None}], tans' \in [Conn -> Answer \cup {None}],
           \A u \in Conn \ {t} : treq'[u] = treq[u] /\ tans'[u] = tans[u],
           pc \in Serving => treq'[t] \in Asking,
           pc \in {"fclose", "close_fd", "flush", "last"} => tans'[t] \in Answer
    PROVE  ThreadInv' /\ tpc' \in [Conn -> ThreadPc]
<1>1. tpc \in [Conn -> ThreadPc]
  BY DEF TypeInv, FrontTypeOK
<1>2. tpc' \in [Conn -> ThreadPc] /\ tpc'[t] = pc /\ \A u \in Conn \ {t} : tpc'[u] = tpc[u]
  BY <1>1 DEF Goto
<1> QED BY <1>2 DEF TypeInv, ThreadInv

\* What a step of a callback does: only tans and tpc change.
LEMMA QuietTypes ==
    ASSUME TypeInv, NEW t \in Conn, NEW pc \in ThreadPc, Goto(t, pc), UNCHANGED quiet,
           tpc[t] \in Serving,
           \/ \E w \in What : Say(t, w)
           \/ UNCHANGED tans /\ pc \notin {"fclose", "close_fd", "flush", "last"}
    PROVE  TypeInv'
<1>1. /\ tans' \in [Conn -> Answer \cup {None}]
      /\ pc \in {"fclose", "close_fd", "flush", "last"} => tans'[t] \in Answer
      /\ \A u \in Conn \ {t} : tans'[u] = tans[u]
  <2>1. CASE \E w \in What : Say(t, w)
    BY <2>1, SayType
  <2>2. CASE UNCHANGED tans /\ pc \notin {"fclose", "close_fd", "flush", "last"}
    BY <2>2 DEF TypeInv, FrontTypeOK
  <2> QED BY <2>1, <2>2
<1>2. treq' = treq /\ treq \in [Conn -> Asking \cup {None}] /\ treq[t] \in Asking
  BY DEF quiet, TypeInv, FrontTypeOK, ThreadInv
<1>3. ThreadInv' /\ tpc' \in [Conn -> ThreadPc]
  BY <1>1, <1>2, GotoTypes
<1>4. FrontTypeOK'
  BY <1>1, <1>3 DEF TypeInv, FrontTypeOK, quiet, table, clients
<1> QED BY <1>3, <1>4 DEF TypeInv

LEMMA CallbackTypes ==
    ASSUME TypeInv, NEW t \in Conn,
           \/ RefuseMethod(t) \/ RefuseUri(t) \/ StatsCallback(t) \/ ImageCallback(t)
           \/ ReporterCallback(t) \/ GetAddr(t) \/ Connect(t) \/ Exchange(t)
    PROVE  TypeInv'
<1> USE DEF Finish, Calls, Serving, ThreadPc, What
<1>1. CASE RefuseMethod(t)
  BY <1>1, QuietTypes DEF RefuseMethod
<1>2. CASE RefuseUri(t)
  BY <1>2, QuietTypes DEF RefuseUri
<1>3. CASE StatsCallback(t)
  <2>1. /\ tpc[t] = "dispatch" /\ UNCHANGED quiet
        /\ \E w \in What : Say(t, w) /\ (Goto(t, "last") \/ Goto(t, "flush"))
    BY <1>3 DEF StatsCallback
  <2> QED BY <2>1, QuietTypes
<1>4. CASE ImageCallback(t)
  <2>1. tpc[t] = "dispatch" /\ UNCHANGED quiet /\ \E w \in What : Say(t, w) /\ Goto(t, "last")
    BY <1>4 DEF ImageCallback
  <2> QED BY <2>1, QuietTypes
<1>5. CASE ReporterCallback(t)
  <2>1. /\ tpc[t] = "dispatch" /\ UNCHANGED quiet
        /\ \/ \E w \in What : Say(t, w) /\ Goto(t, "last")
           \/ Goto(t, "address") /\ UNCHANGED tans
    BY <1>5 DEF ReporterCallback
  <2> QED BY <2>1, QuietTypes
<1>6. CASE GetAddr(t)
  <2>1. /\ tpc[t] = "address" /\ UNCHANGED quiet
        /\ \/ \E w \in What : Say(t, w) /\ Goto(t, "last")
           \/ Goto(t, "socket1") /\ UNCHANGED tans
           \/ Goto(t, "socket") /\ UNCHANGED tans
    BY <1>6 DEF GetAddr
  <2> QED BY <2>1, QuietTypes
<1>7. CASE Connect(t)
  <2>1. /\ tpc[t] = "connect" /\ UNCHANGED quiet
        /\ \/ \E w \in What : Say(t, w) /\ Goto(t, "close_fd")
           \/ \E pc \in {"exchange", "crashed"} : Goto(t, pc) /\ UNCHANGED tans
    BY <1>7 DEF Connect
  <2> QED BY <2>1, QuietTypes
<1>8. CASE Exchange(t)
  <2>1. /\ tpc[t] = "exchange" /\ UNCHANGED quiet
        /\ \E w \in What : Say(t, w) /\ Goto(t, "fclose")
    BY <1>8 DEF Exchange
  <2> QED BY <2>1, QuietTypes
<1> QED BY <1>1, <1>2, <1>3, <1>4, <1>5, <1>6, <1>7, <1>8

LEMMA OpenedType ==
    ASSUME TypeInv, NEW o \in Object, NEW n, Opened(n, o)
    PROVE  fd' \in [Number -> Object] /\ n \in Number
BY DEF TypeInv, FrontTypeOK, Opened, Lowest

LEMMA ClosedType ==
    ASSUME TypeInv, NEW n, Closed(n)
    PROVE  fd' \in [Number -> Object]
BY DEF TypeInv, FrontTypeOK, Closed, Object

\* The sockets of a query.
LEMMA QueryTypes ==
    ASSUME TypeInv, NEW t \in Conn,
           FirstSocket(t) \/ Socket(t) \/ FcloseQuery(t) \/ CloseQuery(t)
    PROVE  TypeInv'
<1> USE DEF Finish, Serving, ThreadPc, What
<1>0. /\ treq \in [Conn -> Asking \cup {None}] /\ tans \in [Conn -> Answer \cup {None}]
      /\ qfd \in [Conn -> Number \cup {-1}] /\ fd \in [Number -> Object]
  BY DEF TypeInv, FrontTypeOK
<1>a. Query(t) \in Object /\ Unused(t) \in Object
  BY DEF Object
<1>b. /\ tpc[t] \in Serving /\ treq[t] \in Asking /\ treq' = treq
      /\ tpc[t] \in {"fclose", "close_fd"} => tans[t] \in Answer
  BY DEF TypeInv, ThreadInv, FirstSocket, Socket, FcloseQuery, CloseQuery
<1>1. fd' \in [Number -> Object] /\ qfd' \in [Conn -> Number \cup {-1}]
  <2>1. CASE FirstSocket(t)
    BY <2>1, <1>0, <1>a, OpenedType DEF FirstSocket
  <2>2. CASE Socket(t)
    BY <2>2, <1>0, <1>a, OpenedType DEF Socket
  <2>3. CASE FcloseQuery(t)
    BY <2>3, <1>0, ClosedType DEF FcloseQuery
  <2>4. CASE CloseQuery(t)
    BY <2>4, <1>0, ClosedType DEF CloseQuery
  <2> QED BY <2>1, <2>2, <2>3, <2>4
<1>2. ThreadInv' /\ tpc' \in [Conn -> ThreadPc] /\ tans' \in [Conn -> Answer \cup {None}]
  <2>1. CASE UNCHANGED tans
    <3>1. \/ Goto(t, "socket") \/ Goto(t, "connect")
          \/ Goto(t, "close_fd") /\ tans[t] \in Answer
          \/ Goto(t, "last") /\ (tans[t] \in Answer \/ \E w \in What : Say(t, w))
      BY <1>b DEF FirstSocket, Socket, FcloseQuery, CloseQuery
    <3>2. PICK pc \in ThreadPc :
             /\ Goto(t, pc)
             /\ pc \in {"fclose", "close_fd", "flush", "last"} => tans'[t] \in Answer
      BY <2>1, <3>1, <1>b, SayType
    <3> QED BY <2>1, <3>2, <1>0, <1>b, GotoTypes
  <2>2. CASE ~UNCHANGED tans
    <3>1. Goto(t, "last") /\ \E w \in What : Say(t, w)
      BY <2>2 DEF FirstSocket, Socket, FcloseQuery, CloseQuery
    <3>2. /\ tans' \in [Conn -> Answer \cup {None}] /\ tans'[t] \in Answer
          /\ \A u \in Conn \ {t} : tans'[u] = tans[u]
      BY <3>1, <1>b, SayType
    <3> QED BY <3>1, <3>2, <1>0, <1>b, GotoTypes
  <2> QED BY <2>1, <2>2
<1>3. UNCHANGED <<backlog, clients, pollfd, tfd, ttype, treq>>
  BY DEF FirstSocket, Socket, FcloseQuery, CloseQuery
<1>4. FrontTypeOK'
  BY <1>1, <1>2, <1>3 DEF TypeInv, FrontTypeOK, clients
<1> QED BY <1>2, <1>4 DEF TypeInv

\* Beginning and end of a thread.
LEMMA SessionTypes ==
    ASSUME TypeInv, NEW t \in Conn,
           Fdopen(t) \/ FdopenFails(t) \/ ReadEof(t) \/ End(t)
    PROVE  TypeInv'
<1> USE DEF Serving, ThreadPc
<1>0. /\ treq \in [Conn -> Asking \cup {None}] /\ tans \in [Conn -> Answer \cup {None}]
      /\ tfd \in [Conn -> Number \cup {-1}] /\ fd \in [Number -> Object]
  BY DEF TypeInv, FrontTypeOK
<1>1. UNCHANGED <<backlog, clients, pollfd, ttype, treq, tans, qfd>>
  BY DEF Fdopen, FdopenFails, ReadEof, End, table
<1>2. Goto(t, "read") \/ Goto(t, "none") \/ Goto(t, "close")
  BY DEF Fdopen, FdopenFails, ReadEof, End
<1>3. ThreadInv' /\ tpc' \in [Conn -> ThreadPc]
  BY <1>0, <1>1, <1>2, GotoTypes
<1>4. fd' \in [Number -> Object] /\ tfd' \in [Conn -> Number \cup {-1}]
  BY <1>0, ClosedType DEF Fdopen, FdopenFails, ReadEof, End, table
<1>5. FrontTypeOK'
  BY <1>1, <1>3, <1>4 DEF TypeInv, FrontTypeOK, clients
<1> QED BY <1>3, <1>5 DEF TypeInv

LEMMA ReadRequestTypes ==
    ASSUME TypeInv, NEW t \in Conn, ReadRequest(t)
    PROVE  TypeInv'
<1>1. PICK d \in Conn :
         /\ inbox[d] # <<>>
         /\ \E k \in 1 .. Len(inbox[d]) :
               inbox' = [inbox EXCEPT ![d] = SubSeq(@, k + 1, Len(@))]
         /\ treq' = [treq EXCEPT ![t] = Head(inbox[d])]
         /\ LET method == Head(inbox[d]).req.method IN
               ttype' = [ttype EXCEPT ![t] =
                            IF BadMethod(method) THEN @ ELSE ClientType(method)]
  BY DEF ReadRequest
<1>2. PICK k \in 1 .. Len(inbox[d]) : inbox' = [inbox EXCEPT ![d] = SubSeq(@, k + 1, Len(@))]
  BY <1>1
<1>3. inbox \in [Conn -> Seq(Asking)] /\ inbox[d] \in Seq(Asking) /\ Len(inbox[d]) \in Nat
  BY LenProperties DEF TypeInv, FrontTypeOK
<1>4. Head(inbox[d]) \in Asking
  BY <1>1, <1>3, HeadTailProperties
<1>5. SubSeq(inbox[d], k + 1, Len(inbox[d])) \in Seq(Asking)
  BY <1>3, SubSeqProperties
<1>6. inbox' \in [Conn -> Seq(Asking)]
  BY <1>2, <1>3, <1>5
<1>7. /\ treq' \in [Conn -> Asking \cup {None}] /\ treq'[t] \in Asking
      /\ \A u \in Conn \ {t} : treq'[u] = treq[u]
  BY <1>1, <1>4 DEF TypeInv, FrontTypeOK
<1>8. ttype' \in [Conn -> Form]
  BY <1>1 DEF TypeInv, FrontTypeOK, ClientType, Form
<1>9. UNCHANGED <<table, gone, asked, outbox, pollfd, tfd, tans, qfd>> /\ Goto(t, "dispatch")
  BY DEF ReadRequest
<1>10. ThreadInv' /\ tpc' \in [Conn -> ThreadPc]
  BY <1>7, <1>9, GotoTypes DEF TypeInv, FrontTypeOK, ThreadPc, Serving
<1>11. FrontTypeOK'
  BY <1>6, <1>7, <1>8, <1>9, <1>10 DEF TypeInv, FrontTypeOK, table
<1> QED BY <1>10, <1>11 DEF TypeInv

LEMMA FlushTypes ==
    ASSUME TypeInv, NEW t \in Conn, Flush(t)
    PROVE  TypeInv'
<1>1. tans[t] \in Answer
  BY DEF TypeInv, ThreadInv, Flush
<1>2. outbox' \in [Conn -> Seq(Answer)]
  <2>1. outbox' = [d \in Conn |-> IF fd[tfd[t]] = Client(d)
                                  THEN Append(outbox[d], tans[t]) ELSE outbox[d]]
    BY DEF Flush
  <2>2. \A d \in Conn : outbox[d] \in Seq(Answer) /\ Append(outbox[d], tans[t]) \in Seq(Answer)
    BY <1>1, AppendProperties DEF TypeInv, FrontTypeOK
  <2> QED BY <2>1, <2>2
<1>3. /\ treq' \in [Conn -> Asking \cup {None}] /\ tans' \in [Conn -> Answer \cup {None}]
      /\ \A u \in Conn \ {t} : treq'[u] = treq[u] /\ tans'[u] = tans[u]
  BY DEF Flush, TypeInv, FrontTypeOK
<1>4. ThreadInv' /\ tpc' \in [Conn -> ThreadPc]
  <2>1. Goto(t, "close") \/ Goto(t, "read")
    BY DEF Flush
  <2> QED BY <2>1, <1>3, GotoTypes DEF ThreadPc, Serving
<1>5. UNCHANGED <<table, gone, asked, inbox, pollfd, tfd, ttype, qfd>>
  BY DEF Flush
<1>6. FrontTypeOK'
  BY <1>2, <1>3, <1>4, <1>5 DEF TypeInv, FrontTypeOK, table
<1> QED BY <1>4, <1>6 DEF TypeInv

LEMMA AcceptTypes ==
    ASSUME TypeInv, Accept
    PROVE  TypeInv'
<1> DEFINE c == Head(backlog)
<1>1. c \in Conn /\ backlog' \in Seq(Conn)
  BY HeadTailProperties DEF Accept, TypeInv, FrontTypeOK
<1>2. PICK n \in Number : /\ Opened(n, Client(c))
                          /\ tfd' = [tfd EXCEPT ![c] = n]
                          /\ ttype' = [ttype EXCEPT ![c] = "MEMCACHE"]
                          /\ Goto(c, "fdopen")
  BY DEF Accept
<1>3. UNCHANGED <<clients, pollfd, treq, tans, qfd>>
  BY DEF Accept
<1>4. fd' \in [Number -> Object]
  BY <1>1, <1>2, OpenedType DEF Object
<1>5. ThreadInv' /\ tpc' \in [Conn -> ThreadPc]
  BY <1>1, <1>2, <1>3, GotoTypes DEF TypeInv, FrontTypeOK, ThreadPc, Serving
<1>6. tfd' \in [Conn -> Number \cup {-1}] /\ ttype' \in [Conn -> Form]
  BY <1>1, <1>2 DEF TypeInv, FrontTypeOK, Form
<1>7. FrontTypeOK'
  BY <1>1, <1>3, <1>4, <1>5, <1>6 DEF TypeInv, FrontTypeOK, clients
<1> QED BY <1>5, <1>7 DEF TypeInv

LEMMA PollerTypes ==
    ASSUME TypeInv, NEW b \in Backends, PollerSocket(b) \/ PollerClose(b)
    PROVE  TypeInv'
<1>1. Memcached(b) \in Object
  BY DEF Object
<1>2. fd' \in [Number -> Object] /\ pollfd' \in [Backends -> Number \cup {-1}]
  BY <1>1, OpenedType, ClosedType DEF TypeInv, FrontTypeOK, PollerSocket, PollerClose
<1>3. UNCHANGED <<backlog, clients, threads>>
  BY DEF PollerSocket, PollerClose
<1> QED BY <1>2, <1>3 DEF TypeInv, FrontTypeOK, ThreadInv, clients, threads

LEMMA PeerTypes ==
    ASSUME TypeInv, NEW c \in Conn, Dial(c) \/ Ask(c) \/ HangUp(c)
    PROVE  TypeInv'
<1>1. CASE Dial(c)
  <2>1. backlog' \in Seq(Conn)
    BY <1>1, AppendProperties DEF Dial, TypeInv, FrontTypeOK
  <2>2. /\ gone' \in [Conn -> BOOLEAN] /\ asked' \in [Conn -> 0 .. MaxAsk]
        /\ inbox' \in [Conn -> Seq(Asking)] /\ outbox' \in [Conn -> Seq(Answer)]
    <3>1. <<>> \in Seq(Asking) /\ <<>> \in Seq(Answer) /\ 0 \in 0 .. MaxAsk
      BY EmptySeq, FrontendAssumption
    <3> QED BY <1>1, <3>1 DEF Dial, TypeInv, FrontTypeOK
  <2> QED BY <1>1, <2>1, <2>2 DEF Dial, TypeInv, FrontTypeOK, ThreadInv, threads
<1>2. CASE Ask(c)
  <2>1. PICK r \in Requests :
           inbox' = [inbox EXCEPT ![c] = Append(@, [from |-> c, n |-> asked[c] + 1, req |-> r])]
    BY <1>2 DEF Ask
  <2>2. asked[c] + 1 \in 1 .. MaxAsk
    BY <1>2, FrontendAssumption DEF Ask, TypeInv, FrontTypeOK
  <2>3. [from |-> c, n |-> asked[c] + 1, req |-> r] \in Asking
    BY <2>2 DEF Asking
  <2>4. Append(inbox[c], [from |-> c, n |-> asked[c] + 1, req |-> r]) \in Seq(Asking)
    BY <2>3, AppendProperties DEF TypeInv, FrontTypeOK
  <2>5. inbox' \in [Conn -> Seq(Asking)] /\ asked' \in [Conn -> 0 .. MaxAsk]
    BY <1>2, <2>1, <2>2, <2>4, FrontendAssumption DEF Ask, TypeInv, FrontTypeOK
  <2> QED BY <1>2, <2>5 DEF Ask, TypeInv, FrontTypeOK, ThreadInv, table, threads
<1>3. CASE HangUp(c)
  BY <1>3 DEF HangUp, TypeInv, FrontTypeOK, ThreadInv, table, threads
<1> QED BY <1>1, <1>2, <1>3

LEMMA NextTypes == TypeInv /\ [Next]_vars => TypeInv'
<1> SUFFICES ASSUME TypeInv, [Next]_vars PROVE TypeInv'
  OBVIOUS
<1>1. CASE UNCHANGED vars
  BY <1>1 DEF vars, table, clients, threads, TypeInv, FrontTypeOK, ThreadInv
<1>2. ASSUME NEW c \in Conn, Thread(c) PROVE TypeInv'
  BY <1>2, CallbackTypes, QueryTypes, SessionTypes, ReadRequestTypes, FlushTypes DEF Thread
<1>3. ASSUME NEW c \in Conn, Dial(c) \/ Ask(c) \/ HangUp(c) PROVE TypeInv'
  BY <1>3, PeerTypes
<1>4. ASSUME NEW b \in Backends, PollerSocket(b) \/ PollerClose(b) PROVE TypeInv'
  BY <1>4, PollerTypes
<1>5. CASE AcceptFails \/ Crashed
  BY <1>5, <1>1 DEF AcceptFails, Crashed
<1> QED BY <1>1, <1>2, <1>3, <1>4, <1>5, AcceptTypes DEF Next

\* Every variable keeps its type, whatever clients ask and whatever fails.
THEOREM FrontTypeCorrect == Spec => []FrontTypeOK
<1>1. TypeInv => FrontTypeOK
  BY DEF TypeInv
<1> QED BY <1>1, InitTypes, NextTypes, PTL DEF Spec

\* The parts of the type invariant hold of every accept, request and close.
THEOREM TypeInvHolds == Spec => []TypeInv
BY InitTypes, NextTypes, PTL DEF Spec

-----------------------------------------------------------------------------
(* What the table and the backlog hold, whatever threads ask memcache reporter *)

LEMMA Kinds ==
    /\ \A c, d \in Conn : Client(c) = Client(d) => c = d
    /\ \A b, e \in Backends : Memcached(b) = Memcached(e) => b = e
    /\ \A c \in Conn, b \in Backends : Client(c) # Memcached(b)
    /\ \A c \in Conn : Client(c) # Free /\ \A d \in Conn : Client(c) # Query(d)
    /\ \A b \in Backends : Memcached(b) # Free /\ \A d \in Conn : Memcached(b) # Query(d)
BY DEF Client, Memcached, Query, Free

LEMMA QueryKinds ==
    ASSUME NEW c \in Conn
    PROVE  /\ Query(c) # Free /\ Unused(c) # Free
           /\ \A d \in Conn : /\ Query(c) = Query(d) => c = d
                              /\ Unused(c) # Client(d) /\ Unused(c) # Query(d)
BY DEF Client, Query, Unused, Free

\* Where a socket was opened the number was free.
LEMMA OpenedFree ==
    ASSUME TypeInv, NEW o \in Object, NEW n, Opened(n, o)
    PROVE  n \in Number /\ fd[n] = Free /\ fd'[n] = o /\ \A m \in Number \ {n} : fd'[m] = fd[m]
BY DEF Opened, Lowest, TypeInv, FrontTypeOK

\* A connection is queued once, and has no thread while it is.
Lined ==
    /\ \A i \in 1 .. Len(backlog) : tpc[backlog[i]] = "none"
    /\ \A i, j \in 1 .. Len(backlog) : backlog[i] = backlog[j] => i = j

\* A thread is somewhere, and goes somewhere.
LEMMA ThreadGoes ==
    ASSUME TypeInv, NEW t \in Conn, Thread(t)
    PROVE  /\ tpc[t] # "none" /\ backlog' = backlog
           /\ \A u \in Conn \ {t} : tpc'[u] = tpc[u]
<1>1. /\ tpc[t] # "none" /\ backlog' = backlog
      /\ \E pc : Goto(t, pc)
  <2>1. CASE Fdopen(t) \/ FdopenFails(t) \/ ReadRequest(t) \/ ReadEof(t) \/ Flush(t) \/ End(t)
    BY <2>1 DEF Fdopen, FdopenFails, ReadRequest, ReadEof, Flush, End, table
  <2>2. CASE RefuseMethod(t) \/ RefuseUri(t) \/ StatsCallback(t) \/ ImageCallback(t)
             \/ ReporterCallback(t)
    BY <2>2 DEF RefuseMethod, RefuseUri, StatsCallback, ImageCallback, ReporterCallback, Calls,
                Finish, quiet, table
  <2>3. CASE GetAddr(t) \/ FirstSocket(t) \/ Socket(t) \/ Connect(t) \/ Exchange(t)
             \/ FcloseQuery(t) \/ CloseQuery(t)
    BY <2>3 DEF GetAddr, FirstSocket, Socket, Connect, Exchange, FcloseQuery, CloseQuery,
                Finish, quiet, table
  <2> QED BY <2>1, <2>2, <2>3 DEF Thread
<1> QED BY <1>1 DEF Goto, TypeInv, FrontTypeOK

LEMMA LinedByThread ==
    ASSUME TypeInv, Lined, NEW t \in Conn, Thread(t)
    PROVE  Lined'
<1>1. \A i \in 1 .. Len(backlog) : backlog[i] \in Conn
  BY ElementOfSeq DEF TypeInv, FrontTypeOK
<1> QED BY <1>1, ThreadGoes DEF Lined

LEMMA LinedByAccept ==
    ASSUME TypeInv, Lined, Accept
    PROVE  /\ Lined'
           /\ Head(backlog) \in Conn /\ tpc[Head(backlog)] = "none"
<1> DEFINE c == Head(backlog)
<1>0. backlog \in Seq(Conn) /\ Len(backlog) \in Nat /\ backlog # <<>> /\ backlog' = Tail(backlog)
  BY LenProperties DEF Accept, TypeInv, FrontTypeOK
<1>1. /\ c \in Conn /\ 1 \in 1 .. Len(backlog) /\ c = backlog[1]
      /\ Tail(backlog) \in Seq(Conn) /\ Len(Tail(backlog)) = Len(backlog) - 1
      /\ \A i \in 1 .. Len(Tail(backlog)) : Tail(backlog)[i] = backlog[i + 1]
                                           /\ i + 1 \in 1 .. Len(backlog)
  BY <1>0, HeadTailProperties
<1>2. \A u \in Conn \ {c} : tpc'[u] = tpc[u]
  BY DEF Accept, Goto, TypeInv, FrontTypeOK
<1>3. \A i \in 1 .. Len(backlog') : backlog'[i] \in Conn /\ backlog'[i] # c
  BY <1>0, <1>1, ElementOfSeq DEF Lined
<1>4. \A i \in 1 .. Len(backlog') : tpc'[backlog'[i]] = "none"
  BY <1>0, <1>1, <1>2, <1>3 DEF Lined
<1>5. \A i, j \in 1 .. Len(backlog') : backlog'[i] = backlog'[j] => i = j
  BY <1>0, <1>1 DEF Lined
<1>6. tpc[c] = "none"
  BY <1>1 DEF Lined
<1> QED BY <1>1, <1>4, <1>5, <1>6 DEF Lined

LEMMA LinedByPeer ==
    ASSUME TypeInv, Lined, NEW c \in Conn, Dial(c) \/ Ask(c) \/ HangUp(c)
    PROVE  Lined' /\ UNCHANGED <<fd, threads, pollfd>>
<1>1. UNCHANGED <<fd, threads, pollfd>>
  BY DEF Dial, Ask, HangUp, table
<1>2. CASE Dial(c)
  <2>1. backlog' = Append(backlog, c) /\ tpc[c] = "none" /\ ~Queued(c)
    BY <1>2 DEF Dial
  <2>2. /\ Len(backlog) \in Nat /\ Len(backlog') = Len(backlog) + 1
        /\ \A i \in 1 .. Len(backlog) : backlog'[i] = backlog[i]
        /\ backlog'[Len(backlog) + 1] = c
    BY <2>1, AppendProperties, LenProperties DEF TypeInv, FrontTypeOK
  <2> QED BY <1>1, <2>1, <2>2 DEF Lined, Queued, threads
<1>3. CASE Ask(c) \/ HangUp(c)
  BY <1>1, <1>3 DEF Lined, Ask, HangUp, table, threads
<1> QED BY <1>2, <1>3

-----------------------------------------------------------------------------
(* No socket is left behind *)

\* Other threads keep their numbers and their place; what a thread opens is its own.
LEMMA OthersKeep ==
    ASSUME TypeInv, NEW t \in Conn, Thread(t), NEW u \in Conn, u # t
    PROVE  /\ tpc'[u] = tpc[u] /\ tfd'[u] = tfd[u] /\ qfd'[u] = qfd[u]
           /\ \A n \in Number : fd'[n] \in {Client(u), Query(u)} => fd'[n] = fd[n]
<1> USE DEF TypeInv, FrontTypeOK
<1>1. tpc'[u] = tpc[u]
  BY ThreadGoes
<1>2. CASE FdopenFails(t) \/ End(t) \/ FcloseQuery(t) \/ CloseQuery(t)
  BY <1>1, <1>2, Kinds, QueryKinds DEF FdopenFails, End, FcloseQuery, CloseQuery, Closed
<1>3. CASE FirstSocket(t) \/ Socket(t)
  <2>1. tfd' = tfd /\ qfd'[u] = qfd[u]
    BY <1>3 DEF FirstSocket, Socket
  <2>2. \/ fd' = fd
        \/ \E m \in Number : Opened(m, Unused(t)) \/ Opened(m, Query(t))
    BY <1>3 DEF FirstSocket, Socket
  <2>3. ASSUME NEW m \in Number, NEW o \in {Unused(t), Query(t)}, Opened(m, o),
               NEW n \in Number, fd'[n] \in {Client(u), Query(u)}
        PROVE  fd'[n] = fd[n]
    <3>1. o \in Object
      BY DEF Object
    <3>2. fd'[m] = o /\ \A k \in Number \ {m} : fd'[k] = fd[k]
      BY <2>3, <3>1, OpenedFree
    <3>3. o \notin {Client(u), Query(u)}
      BY Kinds, QueryKinds
    <3> QED BY <2>3, <3>2, <3>3
  <2> QED BY <1>1, <2>1, <2>2, <2>3
<1>4. CASE Thread(t) /\ ~(\/ FdopenFails(t) \/ End(t) \/ FcloseQuery(t) \/ CloseQuery(t)
                          \/ FirstSocket(t) \/ Socket(t))
  <2>1. UNCHANGED <<fd, tfd, qfd>>
    BY <1>4 DEF Thread, Fdopen, ReadRequest, ReadEof, RefuseMethod, RefuseUri, StatsCallback,
                ImageCallback, ReporterCallback, GetAddr, Connect, Exchange, Flush, quiet, table
  <2> QED BY <1>1, <2>1
<1> QED BY <1>2, <1>3, <1>4

Asks == {"connect", "exchange", "fclose", "close_fd", "crashed"}

LEMMA AccountedByThread ==
    ASSUME TypeInv, Accounted, NEW t \in Conn, Thread(t)
    PROVE  Accounted'
<1> DEFINE Own == /\ \A n \in Number : fd'[n] = Client(t) => tpc'[t] # "none" /\ tfd'[t] = n
                  /\ \A n \in Number : fd'[n] = Query(t) => tpc'[t] \in Asks /\ qfd'[t] = n
<1> USE DEF TypeInv, FrontTypeOK
<1>1. ASSUME Own PROVE Accounted'
  <2> SUFFICES ASSUME NEW n \in Number, NEW u \in Conn
               PROVE  /\ fd'[n] = Client(u) => tpc'[u] # "none" /\ tfd'[u] = n
                      /\ fd'[n] = Query(u) => tpc'[u] \in Asks /\ qfd'[u] = n
    BY DEF Accounted, Asks
  <2>1. CASE u = t
    BY <1>1, <2>1
  <2>2. CASE u # t
    <3>1. tpc'[u] = tpc[u] /\ tfd'[u] = tfd[u] /\ qfd'[u] = qfd[u]
      BY <2>2, OthersKeep
    <3>2. fd'[n] \in {Client(u), Query(u)} => fd'[n] = fd[n]
      BY <2>2, OthersKeep
    <3> QED BY <3>1, <3>2 DEF Accounted, Asks
  <2> QED BY <2>1, <2>2
<1>2. CASE FdopenFails(t) \/ End(t)
  <2>1. fd' = [fd EXCEPT ![tfd[t]] = Free] /\ tpc[t] \notin Asks
    BY <1>2 DEF FdopenFails, End, Closed, Asks
  <2>2. \A n \in Number : fd'[n] # Client(t) /\ fd'[n] # Query(t)
    BY <2>1, Kinds, QueryKinds DEF Accounted, Asks
  <2> QED BY <1>1, <2>2
<1>3. CASE FcloseQuery(t) \/ CloseQuery(t)
  <2>1. /\ fd' = [fd EXCEPT ![qfd[t]] = Free] /\ tfd' = tfd
        /\ tpc'[t] # "none"
    BY <1>3 DEF FcloseQuery, CloseQuery, Closed, Goto
  <2>2. \A n \in Number : fd'[n] # Query(t)
    BY <2>1, QueryKinds DEF Accounted
  <2>3. \A n \in Number : fd'[n] = Client(t) => fd[n] = Client(t)
    BY <2>1, Kinds
  <2> QED BY <1>1, <2>1, <2>2, <2>3 DEF Accounted
<1>4. CASE FirstSocket(t)
  <2>1. /\ tpc[t] = "socket1" /\ tpc'[t] # "none" /\ tfd' = tfd
        /\ fd' = fd \/ \E m \in Number : Opened(m, Unused(t))
    BY <1>4 DEF FirstSocket, Goto, Finish
  <2>2. \A n \in Number : fd'[n] \in {Client(t), Query(t)} => fd'[n] = fd[n]
    <3>1. Unused(t) \in Object /\ Unused(t) \notin {Client(t), Query(t)}
      BY QueryKinds DEF Object
    <3> QED BY <2>1, <3>1, OpenedFree
  <2> QED BY <1>1, <2>1, <2>2 DEF Accounted, Asks
<1>5. CASE Socket(t)
  <2>1. tpc[t] = "socket" /\ tpc'[t] # "none" /\ tfd' = tfd
    BY <1>5 DEF Socket, Goto, Finish
  <2>2. \A n \in Number : fd[n] # Query(t)
    BY <2>1 DEF Accounted
  <2>3. CASE fd' = fd
    BY <1>1, <2>1, <2>2, <2>3 DEF Accounted
  <2>4. ASSUME NEW m \in Number, Opened(m, Query(t)), qfd' = [qfd EXCEPT ![t] = m],
               Goto(t, "connect")
        PROVE  Accounted'
    <3>1. fd'[m] = Query(t) /\ \A n \in Number \ {m} : fd'[n] = fd[n]
      BY <2>4, OpenedFree DEF Object
    <3>2. tpc'[t] \in Asks /\ qfd'[t] = m
      BY <2>4 DEF Goto, Asks
    <3>3. \A n \in Number : fd'[n] = Client(t) => fd[n] = Client(t)
      BY <3>1, Kinds
    <3> QED BY <1>1, <2>1, <2>2, <3>1, <3>2, <3>3 DEF Accounted
  <2> QED BY <1>5, <2>3, <2>4 DEF Socket
<1>6. CASE Connect(t) \/ Exchange(t)
  <2>1. UNCHANGED <<fd, tfd, qfd>> /\ tpc'[t] \in Asks
    BY <1>6 DEF Connect, Exchange, quiet, table, Goto, Asks
  <2> QED BY <1>1, <2>1 DEF Accounted, Asks
<1>7. CASE \/ Fdopen(t) \/ ReadRequest(t) \/ ReadEof(t) \/ RefuseMethod(t) \/ RefuseUri(t)
           \/ StatsCallback(t) \/ ImageCallback(t) \/ ReporterCallback(t) \/ GetAddr(t) \/ Flush(t)
  <2>1. UNCHANGED <<fd, tfd, qfd>> /\ tpc[t] \notin Asks
    BY <1>7 DEF Fdopen, ReadRequest, ReadEof, RefuseMethod, RefuseUri, StatsCallback,
                ImageCallback, ReporterCallback, GetAddr, Flush, Calls, quiet, table, Asks
  <2>2. tpc'[t] # "none"
    BY <1>7 DEF Fdopen, ReadRequest, ReadEof, RefuseMethod, RefuseUri, StatsCallback,
                ImageCallback, ReporterCallback, GetAddr, Flush, Finish, Goto
  <2> QED BY <1>1, <2>1, <2>2 DEF Accounted, Asks
<1> HIDE DEF Own
<1> QED BY <1>2, <1>3, <1>4, <1>5, <1>6, <1>7 DEF Thread

LEMMA AccountedByOthers ==
    ASSUME TypeInv, Accounted, Lined,
           \/ Accept
           \/ \E b \in Backends : PollerSocket(b) \/ PollerClose(b)
    PROVE  Accounted'
<1> USE DEF TypeInv, FrontTypeOK
<1>1. CASE Accept
  <2> DEFINE c == Head(backlog)
  <2>1. c \in Conn /\ tpc[c] = "none"
    BY <1>1, LinedByAccept
  <2>2. PICK n \in Number : Opened(n, Client(c)) /\ tfd' = [tfd EXCEPT ![c] = n]
                            /\ Goto(c, "fdopen")
    BY <1>1 DEF Accept
  <2>3. fd'[n] = Client(c) /\ \A m \in Number \ {n} : fd'[m] = fd[m]
    BY <2>1, <2>2, OpenedFree DEF Object
  <2>4. /\ tpc'[c] = "fdopen" /\ tfd'[c] = n /\ qfd' = qfd
        /\ \A u \in Conn \ {c} : tpc'[u] = tpc[u] /\ tfd'[u] = tfd[u]
    BY <1>1, <2>1, <2>2 DEF Goto, Accept
  <2>5. \A m \in Number : fd[m] # Client(c)
    BY <2>1 DEF Accounted
  <2>6. ASSUME NEW m \in Number, NEW u \in Conn
        PROVE  fd'[m] = Client(u) => tpc'[u] # "none" /\ tfd'[u] = m
    <3>1. CASE m = n
      BY <2>1, <2>3, <2>4, <3>1, Kinds
    <3>2. CASE m # n
      BY <2>3, <2>4, <2>5, <3>2 DEF Accounted
    <3> QED BY <3>1, <3>2
  <2>7. ASSUME NEW m \in Number, NEW u \in Conn
        PROVE  fd'[m] = Query(u) => tpc'[u] \in Asks /\ qfd'[u] = m
    <3>1. fd'[m] = Query(u) => fd[m] = Query(u)
      BY <2>1, <2>3, Kinds
    <3>2. fd[m] = Query(u) => u # c
      BY <2>1 DEF Accounted
    <3> QED BY <2>4, <3>1, <3>2 DEF Accounted, Asks
  <2> QED BY <2>6, <2>7 DEF Accounted, Asks
<1>2. ASSUME NEW b \in Backends, PollerSocket(b) \/ PollerClose(b)
      PROVE  Accounted'
  <2>1. UNCHANGED threads
    BY <1>2 DEF PollerSocket, PollerClose
  <2>2. \A n \in Number : \/ fd'[n] = fd[n] \/ fd'[n] = Free \/ fd'[n] = Memcached(b)
    BY <1>2, OpenedFree DEF PollerSocket, PollerClose, Closed, Object
  <2> QED BY <2>1, <2>2, Kinds, QueryKinds DEF Accounted, threads
<1> QED BY <1>1, <1>2

\* Whatever fails on the way, and although numbers are closed twice, every socket of a
\* client or of a query belongs to a thread that will close it.
THEOREM SocketsAccounted == Spec => []Accounted
<1>1. Init => TypeInv /\ Accounted /\ Lined
  BY InitTypes, Kinds, QueryKinds, EmptySeq DEF Init, Accounted, Lined
<1>2. TypeInv /\ Accounted /\ Lined /\ [Next]_vars => TypeInv' /\ Accounted' /\ Lined'
  <2> SUFFICES ASSUME TypeInv, Accounted, Lined, [Next]_vars
               PROVE  Accounted' /\ Lined'
    BY NextTypes
  <2>1. CASE UNCHANGED vars
    BY <2>1 DEF vars, table, threads, Accounted, Lined
  <2>2. ASSUME NEW c \in Conn, Thread(c)
        PROVE  Accounted' /\ Lined'
    BY <2>2, AccountedByThread, LinedByThread
  <2>3. ASSUME NEW c \in Conn, Dial(c) \/ Ask(c) \/ HangUp(c)
        PROVE  Accounted' /\ Lined'
    BY <2>3, LinedByPeer DEF Accounted, threads
  <2>4. CASE Accept
    BY <2>4, AccountedByOthers, LinedByAccept
  <2>5. ASSUME NEW b \in Backends, PollerSocket(b) \/ PollerClose(b)
        PROVE  Accounted' /\ Lined'
    <3>1. UNCHANGED <<backlog, threads>>
      BY <2>5 DEF PollerSocket, PollerClose
    <3> QED BY <2>5, <3>1, AccountedByOthers DEF Lined, threads
  <2>6. CASE AcceptFails \/ Crashed
    BY <2>1, <2>6 DEF AcceptFails, Crashed
  <2> QED BY <2>1, <2>2, <2>3, <2>4, <2>5, <2>6 DEF Next
<1> QED BY <1>1, <1>2, PTL DEF Spec

-----------------------------------------------------------------------------
(* Descriptors, when no number is given away between the two closes of a query *)

\* A number is given away after the first close of a query and before the second: what
\* happens then is the matter of a run of its own, double_close.
Reused ==
    \E t \in Conn : tpc[t] = "close_fd" /\ fd[qfd[t]] = Free /\ fd'[qfd[t]] # Free

CalmSpec == Init /\ [][Next /\ ~Reused]_vars

\* A number stands for the socket of the thread or poller that holds it, and nobody
\* holds the socket of another; once a query is closed its number is free.
Held ==
    /\ \A t \in Conn : tpc[t] # "none" => tfd[t] \in Number /\ fd[tfd[t]] = Client(t)
    /\ \A t \in Conn : tpc[t] \in {"connect", "exchange", "fclose"} =>
          qfd[t] \in Number /\ fd[qfd[t]] = Query(t)
    /\ \A t \in Conn : tpc[t] = "close_fd" =>
          qfd[t] \in Number /\ fd[qfd[t]] \in {Query(t), Free}
    /\ \A b \in Backends : pollfd[b] # -1 => pollfd[b] \in Number /\ fd[pollfd[b]] = Memcached(b)
    /\ \A n \in Number, t \in Conn : fd[n] = Client(t) => tpc[t] # "none" /\ tfd[t] = n

LEMMA InitHeld == Init => Held
BY Kinds DEF Init, Held

\* What a thread does when it does not call the reporter.
QuietThread(t) ==
    \/ Fdopen(t) \/ FdopenFails(t) \/ ReadRequest(t) \/ ReadEof(t)
    \/ RefuseMethod(t) \/ RefuseUri(t) \/ StatsCallback(t) \/ ImageCallback(t)
    \/ Flush(t) \/ End(t)

QueryThread(t) ==
    \/ ReporterCallback(t) \/ GetAddr(t) \/ FirstSocket(t) \/ Socket(t) \/ Connect(t)
    \/ Exchange(t) \/ FcloseQuery(t) \/ CloseQuery(t)

LEMMA QuietOrQuery ==
    ASSUME NEW t \in Conn, Thread(t)
    PROVE  QuietThread(t) \/ QueryThread(t)
BY DEF Thread, QuietThread, QueryThread

LEMMA GotoOnly ==
    ASSUME TypeInv, NEW t \in Conn, NEW pc, Goto(t, pc)
    PROVE  tpc'[t] = pc /\ \A u \in Conn \ {t} : tpc'[u] = tpc[u]
BY DEF Goto, TypeInv, FrontTypeOK

\* A step that leaves the table and the numbers alone.
LEMMA HeldByGoto ==
    ASSUME TypeInv, Held, NEW t \in Conn, NEW pc, Goto(t, pc), pc # "none",
           pc \in {"connect", "fclose"} => tpc[t] \in {"connect", "exchange"},
           pc \in {"exchange", "close_fd"} => tpc[t] = "connect",
           tpc[t] # "none", UNCHANGED <<fd, tfd, qfd, pollfd>>
    PROVE  Held'
<1>1. tpc'[t] = pc /\ \A u \in Conn \ {t} : tpc'[u] = tpc[u]
  BY GotoOnly
<1> QED BY <1>1 DEF Held

LEMMA HeldByEnd ==
    ASSUME TypeInv, Held, NEW t \in Conn, tpc[t] # "none", Closed(tfd[t]), Goto(t, "none"),
           tfd' = [tfd EXCEPT ![t] = -1], UNCHANGED <<pollfd, qfd>>
    PROVE  Held'
<1>1. tpc'[t] = "none" /\ \A u \in Conn \ {t} : tpc'[u] = tpc[u] /\ tfd'[u] = tfd[u]
  BY GotoOnly DEF TypeInv, FrontTypeOK
<1>2. tfd[t] \in Number /\ fd[tfd[t]] = Client(t)
  BY DEF Held
<1>3. fd'[tfd[t]] = Free /\ \A n \in Number \ {tfd[t]} : fd'[n] = fd[n]
  BY <1>2 DEF Closed, TypeInv, FrontTypeOK
<1>5. \A u \in Conn : tpc'[u] # "none" => tfd'[u] \in Number /\ fd'[tfd'[u]] = Client(u)
  BY <1>1, <1>2, <1>3, Kinds DEF Held
<1>6. \A u \in Conn : tpc'[u] \in {"connect", "exchange", "fclose"} =>
         qfd'[u] \in Number /\ fd'[qfd'[u]] = Query(u)
  BY <1>1, <1>2, <1>3, Kinds DEF Held
<1>7. \A u \in Conn : tpc'[u] = "close_fd" =>
         qfd'[u] \in Number /\ fd'[qfd'[u]] \in {Query(u), Free}
  BY <1>1, <1>2, <1>3, Kinds DEF Held
<1>8. \A b \in Backends : pollfd'[b] # -1 => pollfd'[b] \in Number /\ fd'[pollfd'[b]] = Memcached(b)
  BY <1>2, <1>3, Kinds DEF Held
<1>9. \A n \in Number, u \in Conn : fd'[n] = Client(u) => tpc'[u] # "none" /\ tfd'[u] = n
  BY <1>1, <1>2, <1>3, Kinds DEF Held
<1> QED BY <1>5, <1>6, <1>7, <1>8, <1>9 DEF Held

LEMMA HeldByThread ==
    ASSUME TypeInv, Held, NEW t \in Conn, QuietThread(t)
    PROVE  Held'
<1>1. CASE FdopenFails(t) \/ End(t)
  BY <1>1, HeldByEnd DEF FdopenFails, End
<1>2. CASE ~(FdopenFails(t) \/ End(t))
  <2>1. UNCHANGED <<fd, tfd, qfd, pollfd>> /\ tpc[t] # "none"
    BY <1>2 DEF QuietThread, Fdopen, ReadRequest, ReadEof, RefuseMethod, RefuseUri,
                StatsCallback, ImageCallback, Flush, Calls, quiet, table
  <2>2. Goto(t, "read") \/ Goto(t, "dispatch") \/ Goto(t, "flush") \/ Goto(t, "last")
        \/ Goto(t, "close")
    BY <1>2 DEF QuietThread, Fdopen, ReadRequest, ReadEof, RefuseMethod, RefuseUri,
                StatsCallback, ImageCallback, Flush, Finish
  <2> QED BY <2>1, <2>2, HeldByGoto
<1> QED BY <1>1, <1>2

\* A number that was free stands for something now: those that are to close theirs again do
\* not have that one.
LEMMA OpenedElsewhere ==
    ASSUME TypeInv, Held, ~Reused, NEW n \in Number, NEW o \in Object \ {Free}, Opened(n, o)
    PROVE  /\ fd[n] = Free /\ fd'[n] = o /\ \A m \in Number \ {n} : fd'[m] = fd[m]
           /\ \A u \in Conn : tpc[u] = "close_fd" =>
                 qfd[u] \in Number /\ qfd[u] # n /\ fd[qfd[u]] \in {Query(u), Free}
<1>1. fd[n] = Free /\ fd'[n] = o /\ \A m \in Number \ {n} : fd'[m] = fd[m]
  BY OpenedFree
<1> QED BY <1>1, QueryKinds DEF Held, Reused

LEMMA HeldBySocket ==
    ASSUME TypeInv, Held, ~Reused, NEW t \in Conn, NEW n \in Number,
           NEW o, NEW pc,
           \/ o = Unused(t) /\ pc = "socket" /\ tpc[t] = "socket1"
           \/ o = Query(t) /\ pc = "connect" /\ tpc[t] = "socket",
           Opened(n, o), qfd' = [qfd EXCEPT ![t] = n], Goto(t, pc), UNCHANGED <<tfd, pollfd>>
    PROVE  Held'
<1>1. /\ fd[n] = Free /\ fd'[n] = o /\ \A m \in Number \ {n} : fd'[m] = fd[m]
      /\ \A u \in Conn : tpc[u] = "close_fd" =>
            qfd[u] \in Number /\ qfd[u] # n /\ fd[qfd[u]] \in {Query(u), Free}
  <2>1. o \in Object \ {Free}
    BY QueryKinds DEF Object
  <2> QED BY <2>1, OpenedElsewhere
<1>2. tpc'[t] = pc /\ qfd'[t] = n /\ \A u \in Conn \ {t} : tpc'[u] = tpc[u] /\ qfd'[u] = qfd[u]
  BY GotoOnly DEF TypeInv, FrontTypeOK
<1>3. \A c \in Conn : o # Client(c)
  BY Kinds, QueryKinds
<1>4. \A u \in Conn : tpc'[u] # "none" => tfd'[u] \in Number /\ fd'[tfd'[u]] = Client(u)
  BY <1>1, <1>2, Kinds DEF Held
<1>5. \A m \in Number, u \in Conn : fd'[m] = Client(u) => tpc'[u] # "none" /\ tfd'[u] = m
  BY <1>1, <1>2, <1>3 DEF Held
<1>6. \A u \in Conn : tpc'[u] \in {"connect", "exchange", "fclose"} =>
         qfd'[u] \in Number /\ fd'[qfd'[u]] = Query(u)
  BY <1>1, <1>2, QueryKinds DEF Held
<1>7. \A u \in Conn : tpc'[u] = "close_fd" =>
         qfd'[u] \in Number /\ fd'[qfd'[u]] \in {Query(u), Free}
  BY <1>1, <1>2
<1>8. \A b \in Backends : pollfd'[b] # -1 => pollfd'[b] \in Number /\ fd'[pollfd'[b]] = Memcached(b)
  BY <1>1, Kinds DEF Held
<1> QED BY <1>4, <1>5, <1>6, <1>7, <1>8 DEF Held

\* The number of a query is closed, for the first time or again.
LEMMA HeldByClose ==
    ASSUME TypeInv, Held, NEW t \in Conn, FcloseQuery(t) \/ CloseQuery(t)
    PROVE  Held'
<1>1. /\ tpc'[t] \in {"close_fd", "last"} /\ \A u \in Conn \ {t} : tpc'[u] = tpc[u]
      /\ tpc'[t] = "close_fd" => qfd' = qfd
      /\ tpc[t] # "none"
      /\ \A u \in Conn \ {t} : qfd'[u] = qfd[u]
      /\ UNCHANGED <<tfd, pollfd>>
  BY GotoOnly DEF FcloseQuery, CloseQuery, TypeInv, FrontTypeOK
<1>2. qfd[t] \in Number /\ fd[qfd[t]] \in {Query(t), Free}
  BY DEF Held, FcloseQuery, CloseQuery
<1>3. fd'[qfd[t]] = Free /\ \A n \in Number \ {qfd[t]} : fd'[n] = fd[n]
  BY <1>2 DEF FcloseQuery, CloseQuery, Closed, TypeInv, FrontTypeOK
<1>4. \A n \in Number, u \in Conn : fd'[n] = Client(u) <=> fd[n] = Client(u)
  BY <1>2, <1>3, Kinds
<1>5. \A u \in Conn : tpc'[u] # "none" => tfd'[u] \in Number /\ fd'[tfd'[u]] = Client(u)
  BY <1>1, <1>4 DEF Held
<1>6. \A n \in Number, u \in Conn : fd'[n] = Client(u) => tpc'[u] # "none" /\ tfd'[u] = n
  BY <1>1, <1>4 DEF Held
<1>7. \A u \in Conn : tpc'[u] \in {"connect", "exchange", "fclose"} =>
         qfd'[u] \in Number /\ fd'[qfd'[u]] = Query(u)
  BY <1>1, <1>2, <1>3, QueryKinds DEF Held
<1>8. \A u \in Conn : tpc'[u] = "close_fd" =>
         qfd'[u] \in Number /\ fd'[qfd'[u]] \in {Query(u), Free}
  BY <1>1, <1>2, <1>3 DEF Held
<1>9. \A b \in Backends : pollfd'[b] # -1 => pollfd'[b] \in Number /\ fd'[pollfd'[b]] = Memcached(b)
  BY <1>1, <1>2, <1>3, Kinds DEF Held
<1> QED BY <1>5, <1>6, <1>7, <1>8, <1>9 DEF Held

LEMMA HeldByQuery ==
    ASSUME TypeInv, Held, ~Reused, NEW t \in Conn, QueryThread(t)
    PROVE  Held'
<1>1. CASE ReporterCallback(t) \/ GetAddr(t)
  <2>1. UNCHANGED <<fd, tfd, qfd, pollfd>> /\ tpc[t] # "none"
    BY <1>1 DEF ReporterCallback, GetAddr, Calls, quiet, table
  <2>2. \E pc \in {"address", "socket1", "socket", "last"} : Goto(t, pc)
    BY <1>1 DEF ReporterCallback, GetAddr, Finish
  <2> QED BY <2>1, <2>2, HeldByGoto
<1>2. CASE Connect(t) \/ Exchange(t)
  <2>1. UNCHANGED <<fd, tfd, qfd, pollfd>>
    BY <1>2 DEF Connect, Exchange, quiet, table
  <2>2. \/ tpc[t] = "connect" /\ (Goto(t, "exchange") \/ Goto(t, "close_fd") \/ Goto(t, "crashed"))
        \/ tpc[t] = "exchange" /\ Goto(t, "fclose")
    BY <1>2 DEF Connect, Exchange
  <2> QED BY <2>1, <2>2, HeldByGoto
<1>3. CASE FirstSocket(t) \/ Socket(t)
  <2>1. UNCHANGED <<tfd, pollfd>> /\ tpc[t] \in {"socket1", "socket"}
    BY <1>3 DEF FirstSocket, Socket
  <2>2. CASE \E n \in Number : \/ /\ Opened(n, Unused(t)) /\ tpc[t] = "socket1"
                                  /\ qfd' = [qfd EXCEPT ![t] = n] /\ Goto(t, "socket")
                               \/ /\ Opened(n, Query(t)) /\ tpc[t] = "socket"
                                  /\ qfd' = [qfd EXCEPT ![t] = n] /\ Goto(t, "connect")
    BY <2>1, <2>2, HeldBySocket
  <2>3. CASE fd' = fd /\ Goto(t, "last")
    <3>1. /\ tpc'[t] = "last" /\ \A u \in Conn \ {t} : tpc'[u] = tpc[u] /\ qfd'[u] = qfd[u]
      BY <1>3, <2>3, GotoOnly DEF FirstSocket, Socket, TypeInv, FrontTypeOK
    <3> QED BY <2>1, <2>3, <3>1 DEF Held
  <2> QED BY <1>3, <2>2, <2>3 DEF FirstSocket, Socket, Finish
<1>4. CASE FcloseQuery(t) \/ CloseQuery(t)
  BY <1>4, HeldByClose
<1> QED BY <1>1, <1>2, <1>3, <1>4 DEF QueryThread

LEMMA HeldByAccept ==
    ASSUME TypeInv, Held, Lined, ~Reused, Accept
    PROVE  Held'
<1> DEFINE c == Head(backlog)
<1>1. c \in Conn /\ tpc[c] = "none" /\ UNCHANGED <<pollfd, qfd>>
  BY LinedByAccept DEF Accept
<1>2. PICK n \in Number : /\ Opened(n, Client(c))
                          /\ tfd' = [tfd EXCEPT ![c] = n]
                          /\ Goto(c, "fdopen")
  BY DEF Accept
<1>3. /\ fd[n] = Free /\ fd'[n] = Client(c) /\ \A m \in Number \ {n} : fd'[m] = fd[m]
      /\ \A u \in Conn : tpc[u] = "close_fd" =>
            qfd[u] \in Number /\ qfd[u] # n /\ fd[qfd[u]] \in {Query(u), Free}
  <2>1. Client(c) \in Object \ {Free}
    BY <1>1, Kinds DEF Object
  <2> QED BY <1>2, <2>1, OpenedElsewhere
<1>4. /\ tpc'[c] = "fdopen" /\ tfd'[c] = n
      /\ \A u \in Conn \ {c} : tpc'[u] = tpc[u] /\ tfd'[u] = tfd[u]
  BY <1>1, <1>2 DEF Goto, TypeInv, FrontTypeOK
<1>5. \A u \in Conn : tpc'[u] # "none" => tfd'[u] \in Number /\ fd'[tfd'[u]] = Client(u)
  BY <1>1, <1>3, <1>4, Kinds DEF Held
<1>6. \A b \in Backends : pollfd'[b] # -1 => pollfd'[b] \in Number /\ fd'[pollfd'[b]] = Memcached(b)
  BY <1>1, <1>3, Kinds DEF Held
<1>7. \A m \in Number, u \in Conn : fd'[m] = Client(u) => tpc'[u] # "none" /\ tfd'[u] = m
  BY <1>1, <1>3, <1>4, Kinds DEF Held
<1>8. \A u \in Conn : tpc'[u] \in {"connect", "exchange", "fclose"} =>
         qfd'[u] \in Number /\ fd'[qfd'[u]] = Query(u)
  BY <1>1, <1>3, <1>4, QueryKinds DEF Held
<1>9. \A u \in Conn : tpc'[u] = "close_fd" =>
         qfd'[u] \in Number /\ fd'[qfd'[u]] \in {Query(u), Free}
  BY <1>1, <1>3, <1>4
<1> QED BY <1>5, <1>6, <1>7, <1>8, <1>9 DEF Held

LEMMA HeldByPoller ==
    ASSUME TypeInv, Held, ~Reused, NEW b \in Backends, PollerSocket(b) \/ PollerClose(b)
    PROVE  Held'
<1>0. UNCHANGED <<tpc, tfd, qfd>>
  BY DEF PollerSocket, PollerClose, threads
<1>1. CASE PollerSocket(b)
  <2>1. PICK n \in Number : Opened(n, Memcached(b)) /\ pollfd' = [pollfd EXCEPT ![b] = n]
    BY <1>1 DEF PollerSocket
  <2>2. /\ fd[n] = Free /\ fd'[n] = Memcached(b) /\ \A m \in Number \ {n} : fd'[m] = fd[m]
        /\ \A u \in Conn : tpc[u] = "close_fd" =>
              qfd[u] \in Number /\ qfd[u] # n /\ fd[qfd[u]] \in {Query(u), Free}
    <3>1. Memcached(b) \in Object \ {Free}
      BY Kinds DEF Object
    <3> QED BY <2>1, <3>1, OpenedElsewhere
  <2>3. pollfd'[b] = n /\ \A e \in Backends \ {b} : pollfd'[e] = pollfd[e]
    BY <2>1 DEF TypeInv, FrontTypeOK
  <2> QED BY <1>0, <2>2, <2>3, Kinds, QueryKinds DEF Held
<1>2. CASE PollerClose(b)
  <2>1. pollfd[b] \in Number /\ fd[pollfd[b]] = Memcached(b)
    BY <1>2 DEF PollerClose, Held
  <2>2. fd'[pollfd[b]] = Free /\ \A m \in Number \ {pollfd[b]} : fd'[m] = fd[m]
    BY <1>2, <2>1 DEF PollerClose, Closed, TypeInv, FrontTypeOK
  <2>3. pollfd'[b] = -1 /\ \A e \in Backends \ {b} : pollfd'[e] = pollfd[e]
    BY <1>2 DEF PollerClose, TypeInv, FrontTypeOK
  <2> QED BY <1>0, <2>1, <2>2, <2>3, Kinds, QueryKinds DEF Held
<1> QED BY <1>1, <1>2

HeldInv == TypeInv /\ Held /\ Lined

LEMMA NextHeld == HeldInv /\ [Next /\ ~Reused]_vars => HeldInv'
<1> SUFFICES ASSUME HeldInv, [Next /\ ~Reused]_vars PROVE HeldInv'
  OBVIOUS
<1>0. TypeInv' /\ TypeInv /\ Held /\ Lined
  BY NextTypes DEF HeldInv
<1>1. CASE UNCHANGED vars
  BY <1>0, <1>1 DEF vars, table, threads, Held, Lined, HeldInv
<1> SUFFICES ASSUME ~Reused PROVE HeldInv'
  BY <1>1
<1>2. ASSUME NEW c \in Conn, Thread(c) PROVE HeldInv'
  BY <1>0, <1>2, QuietOrQuery, HeldByThread, HeldByQuery, LinedByThread DEF HeldInv
<1>3. ASSUME NEW c \in Conn, Dial(c) \/ Ask(c) \/ HangUp(c) PROVE HeldInv'
  BY <1>0, <1>3, LinedByPeer DEF HeldInv, Held, threads
<1>4. ASSUME NEW b \in Backends, PollerSocket(b) \/ PollerClose(b) PROVE HeldInv'
  <2>1. Lined'
    BY <1>0, <1>4 DEF PollerSocket, PollerClose, threads, Lined
  <2> QED BY <1>0, <1>4, <2>1, HeldByPoller DEF HeldInv
<1>5. CASE Accept
  BY <1>0, <1>5, HeldByAccept, LinedByAccept DEF HeldInv
<1>6. CASE AcceptFails \/ Crashed
  BY <1>1, <1>6 DEF AcceptFails, Crashed
<1> QED BY <1>1, <1>2, <1>3, <1>4, <1>5, <1>6 DEF Next

LEMMA InitHeldInv == Init => HeldInv
BY InitTypes, InitHeld, LenProperties, EmptySeq DEF HeldInv, Init, Lined

\* As long as no number is given away between two closes, each thread's number is its own.
THEOREM HeldInvHolds == CalmSpec => []HeldInv
<1>1. HeldInv /\ [Next /\ ~Reused]_vars => HeldInv'
  BY NextHeld
<1> QED BY <1>1, InitHeldInv, PTL DEF CalmSpec

\* A number always stands for the socket of whoever holds it, for any number of connections,
\* queries and pollers that share the table, as long as no number is given away between the
\* two closes of a query.
THEOREM DescriptorsOwned == CalmSpec => []Owned
<1>1. HeldInv => Owned
  BY DEF HeldInv, Held, Owned
<1>2. CalmSpec => []HeldInv
  BY HeldInvHolds
<1> QED BY <1>1, <1>2, PTL

LEMMA StepClosesOwn ==
    ASSUME HeldInv, [Next]_vars, NEW n \in Number, fd'[n] # fd[n]
    PROVE  /\ \A t \in Conn : fd[n] = Client(t) => tpc[t] \in {"fdopen", "close"} /\ tpc'[t] = "none"
           /\ \A t \in Conn : fd[n] = Query(t) => tpc[t] \in {"fclose", "close_fd"} /\ tpc'[t] # tpc[t]
           /\ \A b \in Backends : fd[n] = Memcached(b) => pollfd'[b] = -1
<1>0. TypeInv /\ Held
  BY DEF HeldInv
<1>1. CASE fd[n] = Free
  BY <1>1, Kinds, QueryKinds
<1>2. ASSUME NEW t \in Conn, FdopenFails(t) \/ End(t), fd[n] # Free
      PROVE fd[n] = Client(t) /\ tpc[t] \in {"fdopen", "close"} /\ tpc'[t] = "none"
  BY <1>0, <1>2 DEF FdopenFails, End, Closed, Goto, Held, TypeInv, FrontTypeOK
<1>3. ASSUME NEW b \in Backends, PollerClose(b), fd[n] # Free
      PROVE fd[n] = Memcached(b) /\ pollfd'[b] = -1
  BY <1>0, <1>3 DEF PollerClose, Closed, Held, TypeInv, FrontTypeOK
<1>4. ASSUME NEW b \in Backends, PollerSocket(b) PROVE fd[n] = Free
  BY <1>0, <1>4, OpenedFree DEF PollerSocket, Object
<1>5. ASSUME Accept PROVE fd[n] = Free
  <2>1. Head(backlog) \in Conn
    BY <1>0, <1>5, HeadTailProperties DEF Accept, TypeInv, FrontTypeOK
  <2> QED BY <1>0, <1>5, <2>1, OpenedFree DEF Accept, Object
<1>6. ASSUME NEW t \in Conn, FirstSocket(t) \/ Socket(t) PROVE fd[n] = Free
  BY <1>0, <1>6, OpenedFree DEF FirstSocket, Socket, Object
<1>7. ASSUME NEW t \in Conn, FcloseQuery(t) \/ CloseQuery(t), fd[n] # Free
      PROVE fd[n] = Query(t) /\ tpc[t] \in {"fclose", "close_fd"} /\ tpc'[t] # tpc[t]
  <2>1. n = qfd[t] /\ fd[n] = Query(t)
    BY <1>0, <1>7 DEF FcloseQuery, CloseQuery, Closed, Held, TypeInv, FrontTypeOK
  <2> QED BY <1>0, <1>7, <2>1, GotoOnly DEF FcloseQuery, CloseQuery
<1>8. \/ \E t \in Conn : \/ FdopenFails(t) \/ End(t) \/ FirstSocket(t) \/ Socket(t)
                         \/ FcloseQuery(t) \/ CloseQuery(t)
      \/ \E b \in Backends : PollerClose(b) \/ PollerSocket(b)
      \/ Accept
  <2>1. ASSUME NEW t \in Conn, Thread(t)
        PROVE  \/ FdopenFails(t) \/ End(t) \/ FirstSocket(t) \/ Socket(t)
               \/ FcloseQuery(t) \/ CloseQuery(t)
    BY <2>1 DEF Thread, Fdopen, ReadRequest, ReadEof, RefuseMethod, RefuseUri, StatsCallback,
                ImageCallback, ReporterCallback, GetAddr, Connect, Exchange, Flush, quiet, table
  <2>2. ~(\E c \in Conn : Dial(c) \/ Ask(c) \/ HangUp(c)) /\ ~AcceptFails /\ ~Crashed /\ ~UNCHANGED vars
    BY DEF Dial, Ask, HangUp, AcceptFails, Crashed, vars, table
  <2> QED BY <2>1, <2>2 DEF Next
<1> QED BY <1>1, <1>2, <1>3, <1>4, <1>5, <1>6, <1>7, <1>8, Kinds, QueryKinds

\* As long as that is so, only the thread of a connection closes it, at its end, only the
\* thread that made a query closes that, and only its poller the connection to memcached.
THEOREM OwnersClose == CalmSpec => ClosedByOwner
<1>1. HeldInv /\ [Next /\ ~Reused]_vars =>
         [\A n \in Number : fd'[n] # fd[n] =>
            /\ \A t \in Conn : fd[n] = Client(t) =>
                  tpc[t] \in {"fdopen", "close"} /\ tpc'[t] = "none"
            /\ \A t \in Conn : fd[n] = Query(t) => tpc[t] \in {"fclose", "close_fd"} /\ tpc'[t] # tpc[t]
            /\ \A b \in Backends : fd[n] = Memcached(b) => pollfd'[b] = -1]_vars
  BY StepClosesOwn
<1>2. CalmSpec => []HeldInv
  BY HeldInvHolds
<1> QED BY <1>1, <1>2, PTL DEF CalmSpec, ClosedByOwner

-----------------------------------------------------------------------------
(* Frontend implements Sessions *)

\* Before the answer is known, and after.
Before == {"dispatch", "address", "socket1", "socket", "connect", "exchange", "crashed"}
Said   == {"fclose", "close_fd", "flush", "last"}

\* What was said on a connection and will be, by the position of its thread.
Talk ==
    /\ \A t \in Conn : tpc[t] = "fdopen" \/ Queued(t) => outbox[t] = <<>>
    /\ \A t \in Conn : tpc[t] = "read" \/ tpc[t] \in Before \cup Said => ~S!Over(t)
    /\ \A t \in Conn : tpc[t] = "close" => S!Over(t) \/ (gone[t] /\ inbox[t] = <<>>)
    /\ \A t \in Conn : tpc[t] \in Before =>
          (S!Understood(treq[t].req) => ttype[t] = S!Form(treq[t].req))
    /\ \A t \in Conn : tpc[t] \in Said =>
          /\ tans[t].to = treq[t]
          /\ S!Understood(treq[t].req) => tans[t].form = S!Form(treq[t].req)
          /\ tpc[t] = "flush" <=> S!GoesOn(tans[t])

LEMMA InitTalk == Init => Talk
BY LenProperties, EmptySeq DEF Init, Talk, Queued, Before, Said

\* The answer is put together, and whether the session goes on after it is settled.
LEMMA TalkBySay ==
    ASSUME TypeInv, Talk, NEW t \in Conn, NEW w \in What, NEW pc \in Said,
           tpc[t] \in Before, Say(t, w), Goto(t, pc),
           pc = "flush" <=> (w = "stats" /\ ttype[t] = "MEMCACHE"),
           UNCHANGED <<backlog, outbox, gone, inbox, treq, ttype>>
    PROVE  Talk'
<1>1. /\ tans'[t] = [to |-> treq[t], what |-> w, form |-> ttype[t]]
      /\ \A u \in Conn \ {t} : tans'[u] = tans[u]
  BY DEF Say, TypeInv, FrontTypeOK
<1>2. tpc'[t] = pc /\ \A u \in Conn \ {t} : tpc'[u] = tpc[u]
  BY GotoOnly
<1>3. S!GoesOn(tans'[t]) <=> pc = "flush"
  BY <1>1 DEF S!GoesOn
<1> QED BY <1>1, <1>2, <1>3 DEF Talk, Queued, S!Over, S!GoesOn, Before, Said

\* The thread gets on with a query and the answer stays what it was.
LEMMA TalkByMove ==
    ASSUME TypeInv, Talk, NEW t \in Conn, NEW pc, Goto(t, pc),
           \/ tpc[t] \in Before /\ pc \in Before
           \/ tpc[t] \in {"fclose", "close_fd"} /\ pc \in {"close_fd", "last"},
           UNCHANGED <<backlog, outbox, gone, inbox, treq, ttype, tans>>
    PROVE  Talk'
<1>1. tpc'[t] = pc /\ \A u \in Conn \ {t} : tpc'[u] = tpc[u]
  BY GotoOnly
<1> QED BY <1>1 DEF Talk, Queued, S!Over, S!GoesOn, Before, Said

LEMMA TalkByCallback ==
    ASSUME TypeInv, Talk, NEW t \in Conn,
           RefuseMethod(t) \/ RefuseUri(t) \/ StatsCallback(t) \/ ImageCallback(t)
    PROVE  Talk'
<1>1. UNCHANGED <<backlog, outbox, gone, inbox, treq, ttype>> /\ tpc[t] = "dispatch"
  BY DEF RefuseMethod, RefuseUri, StatsCallback, ImageCallback, Calls, quiet, table, clients
<1>2. PICK pc \in {"flush", "last"}, w \in What :
         /\ Goto(t, pc) /\ Say(t, w)
         /\ pc = "flush" <=> (w = "stats" /\ ttype[t] = "MEMCACHE")
  <2>1. CASE StatsCallback(t)
    BY <2>1 DEF StatsCallback, Finish, What, TypeInv, FrontTypeOK, Form
  <2>2. CASE RefuseMethod(t) \/ RefuseUri(t) \/ ImageCallback(t)
    BY <2>2 DEF RefuseMethod, RefuseUri, ImageCallback, Finish, What
  <2> QED BY <2>1, <2>2
<1> QED BY <1>1, <1>2, TalkBySay DEF Before, Said

LEMMA QueryRests ==
    ASSUME NEW t \in Conn, QueryThread(t)
    PROVE  UNCHANGED <<backlog, clients, treq, ttype, outbox, gone, inbox>>
BY DEF QueryThread, ReporterCallback, GetAddr, FirstSocket, Socket, Connect, Exchange,
       FcloseQuery, CloseQuery, Calls, quiet, table, clients

\* Whatever becomes of a query, its thread will answer the request it made it for.
LEMMA TalkByQuery ==
    ASSUME TypeInv, Talk, NEW t \in Conn, QueryThread(t)
    PROVE  Talk' /\ tpc[t] \in Serving /\ tpc'[t] \in Serving
                 /\ \A u \in Conn \ {t} : tpc'[u] = tpc[u]
<1>1. UNCHANGED <<backlog, outbox, gone, inbox, treq, ttype>>
  BY QueryRests
<1>2. \/ /\ tpc[t] \in Before
         /\ \E w \in What \ {"stats"}, pc \in Said \ {"flush"} : Say(t, w) /\ Goto(t, pc)
      \/ tpc[t] \in Before /\ UNCHANGED tans /\ \E pc \in Before : Goto(t, pc)
      \/ /\ tpc[t] \in {"fclose", "close_fd"} /\ UNCHANGED tans
         /\ \E pc \in {"close_fd", "last"} : Goto(t, pc)
  <2>1. CASE ReporterCallback(t) \/ GetAddr(t)
    BY <2>1 DEF ReporterCallback, GetAddr, Calls, Finish, Before, Said, What
  <2>2. CASE FirstSocket(t) \/ Socket(t)
    BY <2>2 DEF FirstSocket, Socket, Finish, Before, Said, What
  <2>3. CASE Connect(t)
    BY <2>3 DEF Connect, Before, Said, What
  <2>4. CASE Exchange(t)
    BY <2>4 DEF Exchange, Before, Said, What
  <2>5. CASE FcloseQuery(t) \/ CloseQuery(t)
    BY <2>5 DEF FcloseQuery, CloseQuery
  <2> QED BY <2>1, <2>2, <2>3, <2>4, <2>5 DEF QueryThread
<1>3. Talk'
  BY <1>1, <1>2, TalkBySay, TalkByMove DEF Said
<1>4. tpc[t] \in Serving /\ \E pc \in Serving : Goto(t, pc)
  BY <1>2 DEF Before, Said, Serving
<1> QED BY <1>3, <1>4, GotoOnly

\* A thread reads its own connection.
LEMMA OwnInput ==
    ASSUME Held, NEW t \in Conn, tpc[t] = "read", NEW d \in Conn, fd[tfd[t]] = Client(d)
    PROVE  d = t
BY Kinds DEF Held

LEMMA TalkByRead ==
    ASSUME TypeInv, Held, Talk, NEW t \in Conn, ReadRequest(t)
    PROVE  Talk'
<1>1. /\ treq' = [treq EXCEPT ![t] = Head(inbox[t])]
      /\ LET method == Head(inbox[t]).req.method IN
            ttype' = [ttype EXCEPT ![t] =
                         IF BadMethod(method) THEN @ ELSE ClientType(method)]
      /\ \E k \in 1 .. Len(inbox[t]) : inbox' = [inbox EXCEPT ![t] = SubSeq(@, k + 1, Len(@))]
  BY OwnInput DEF ReadRequest
<1>2. /\ UNCHANGED <<backlog, outbox, gone, tans>> /\ tpc[t] = "read"
      /\ tpc'[t] = "dispatch" /\ \A u \in Conn \ {t} : tpc'[u] = tpc[u]
  BY GotoOnly DEF ReadRequest, table
<1>3. \A u \in Conn \ {t} : treq'[u] = treq[u] /\ ttype'[u] = ttype[u] /\ inbox'[u] = inbox[u]
  BY <1>1 DEF TypeInv, FrontTypeOK
<1>4. S!Understood(treq'[t].req) => ttype'[t] = S!Form(treq'[t].req)
  BY <1>1 DEF TypeInv, FrontTypeOK, S!Understood, S!Form, BadMethod, Methods, ClientType
<1> QED BY <1>2, <1>3, <1>4 DEF Talk, Queued, S!Over, Before, Said

LEMMA TalkByFlush ==
    ASSUME TypeInv, Held, Lined, Talk, NEW t \in Conn, Flush(t)
    PROVE  /\ Talk'
           /\ outbox' = [outbox EXCEPT ![t] = Append(@, tans[t])]
<1>1. outbox' = [outbox EXCEPT ![t] = Append(@, tans[t])]
  <2>1. \A d \in Conn : fd[tfd[t]] = Client(d) <=> d = t
    BY Kinds DEF Held, Flush
  <2>2. outbox' = [d \in Conn |-> IF fd[tfd[t]] = Client(d)
                                  THEN Append(outbox[d], tans[t]) ELSE outbox[d]]
    BY DEF Flush
  <2> QED BY <2>1, <2>2 DEF TypeInv, FrontTypeOK
<1>2. /\ UNCHANGED <<backlog, gone, inbox, ttype>> /\ tpc[t] \in {"flush", "last"}
      /\ tpc'[t] = (IF tpc[t] = "last" THEN "close" ELSE "read")
      /\ \A u \in Conn \ {t} : tpc'[u] = tpc[u]
  BY GotoOnly DEF Flush, table
<1>3. \A u \in Conn \ {t} : treq'[u] = treq[u] /\ tans'[u] = tans[u] /\ outbox'[u] = outbox[u]
  BY <1>1 DEF Flush, TypeInv, FrontTypeOK
<1>4. /\ outbox[t] \in Seq(Answer) /\ tans[t] \in Answer
      /\ outbox'[t] = Append(outbox[t], tans[t])
  BY <1>1, <1>2 DEF TypeInv, FrontTypeOK, ThreadInv
<1>5. outbox'[t] # <<>> /\ outbox'[t][Len(outbox'[t])] = tans[t]
  BY <1>4, AppendProperties, LenProperties, EmptySeq
<1>6. S!Over(t)' <=> ~S!GoesOn(tans[t])
  BY <1>5 DEF S!Over, S!GoesOn
<1>7. S!Over(t)' <=> tpc[t] = "last"
  BY <1>2, <1>6 DEF Talk, Said
<1>8. \A u \in Conn \ {t} : S!Over(u)' <=> S!Over(u)
  BY <1>3 DEF S!Over, S!GoesOn
<1>9. ~Queued(t)' /\ \A u \in Conn : Queued(u)' <=> Queued(u)
  BY <1>2 DEF Queued, Lined
<1>10. \A u \in Conn \ {t} :
          /\ tpc'[u] = tpc[u] /\ treq'[u] = treq[u] /\ tans'[u] = tans[u] /\ outbox'[u] = outbox[u]
          /\ gone'[u] = gone[u] /\ inbox'[u] = inbox[u] /\ ttype'[u] = ttype[u]
  BY <1>2, <1>3
<1>11. /\ \A u \in Conn : tpc'[u] = "fdopen" \/ Queued(u)' => outbox'[u] = <<>>
       /\ \A u \in Conn : tpc'[u] = "read" \/ tpc'[u] \in Before \cup Said => ~S!Over(u)'
  BY <1>2, <1>7, <1>8, <1>9, <1>10 DEF Talk, Before, Said
<1>12. \A u \in Conn : tpc'[u] = "close" => S!Over(u)' \/ (gone'[u] /\ inbox'[u] = <<>>)
  BY <1>2, <1>7, <1>8, <1>10 DEF Talk
<1>13. /\ \A u \in Conn : tpc'[u] \in Before =>
             (S!Understood(treq'[u].req) => ttype'[u] = S!Form(treq'[u].req))
       /\ \A u \in Conn : tpc'[u] \in Said =>
             /\ tans'[u].to = treq'[u]
             /\ S!Understood(treq'[u].req) => tans'[u].form = S!Form(treq'[u].req)
             /\ tpc'[u] = "flush" <=> S!GoesOn(tans'[u])
  BY <1>2, <1>10 DEF Talk, Before, Said
<1> QED BY <1>1, <1>11, <1>12, <1>13 DEF Talk

LEMMA TalkBySession ==
    ASSUME TypeInv, Held, Lined, Talk, NEW t \in Conn,
           Fdopen(t) \/ FdopenFails(t) \/ ReadEof(t) \/ End(t)
    PROVE  Talk'
<1>1. /\ UNCHANGED <<backlog, outbox, gone, inbox, treq, ttype, tans>>
      /\ tpc[t] \in {"fdopen", "read", "close"}
  BY DEF Fdopen, FdopenFails, ReadEof, End, table, clients
<1>2. /\ tpc'[t] \in {"none", "read", "close"} /\ \A u \in Conn \ {t} : tpc'[u] = tpc[u]
      /\ tpc'[t] = "read" => tpc[t] = "fdopen"
      /\ tpc'[t] = "close" => gone[t] /\ inbox[t] = <<>>
  <2>1. CASE ReadEof(t)
    <3>1. fd[tfd[t]] # Free
      BY <2>1, Kinds DEF ReadEof, Held
    <3>2. gone[t] /\ inbox[t] = <<>>
      BY <2>1, <3>1, OwnInput DEF ReadEof
    <3> QED BY <2>1, <3>2, GotoOnly DEF ReadEof
  <2>2. CASE Fdopen(t) \/ FdopenFails(t) \/ End(t)
    BY <2>2, GotoOnly DEF Fdopen, FdopenFails, End
  <2> QED BY <2>1, <2>2
<1>3. \A u \in Conn : (Queued(u)' <=> Queued(u)) /\ (S!Over(u)' <=> S!Over(u))
  BY <1>1 DEF Queued, S!Over, S!GoesOn
<1>4. tpc'[t] = "read" => ~S!Over(t)
  BY <1>1, <1>2 DEF Talk, S!Over
<1> QED BY <1>1, <1>2, <1>3, <1>4 DEF Talk, Before, Said

LEMMA TalkByAccept ==
    ASSUME TypeInv, Held, Lined, Talk, Accept
    PROVE  Talk'
<1> DEFINE c == Head(backlog)
<1>0. /\ backlog \in Seq(Conn) /\ Len(backlog) \in Nat /\ backlog # <<>> /\ backlog' = Tail(backlog)
      /\ UNCHANGED <<gone, inbox, outbox, treq, tans>>
  BY LenProperties DEF Accept, TypeInv, FrontTypeOK, clients
<1>1. /\ c \in Conn /\ 1 \in 1 .. Len(backlog) /\ c = backlog[1]
      /\ Len(Tail(backlog)) = Len(backlog) - 1
      /\ \A i \in 1 .. Len(Tail(backlog)) : Tail(backlog)[i] = backlog[i + 1]
                                           /\ i + 1 \in 1 .. Len(backlog)
  BY <1>0, HeadTailProperties
<1>2. /\ tpc'[c] = "fdopen" /\ \A u \in Conn \ {c} : tpc'[u] = tpc[u]
      /\ \A u \in Conn \ {c} : ttype'[u] = ttype[u]
  BY <1>1, GotoOnly DEF Accept, TypeInv, FrontTypeOK
<1>3. outbox[c] = <<>>
  BY <1>1 DEF Talk, Queued
<1>4. \A u \in Conn : Queued(u)' => Queued(u)
  BY <1>0, <1>1 DEF Queued
<1>5. \A u \in Conn : S!Over(u)' <=> S!Over(u)
  BY <1>0 DEF S!Over, S!GoesOn
<1> QED BY <1>0, <1>2, <1>3, <1>4, <1>5 DEF Talk, Before, Said

LEMMA TalkByPeer ==
    ASSUME TypeInv, Held, Lined, Talk, NEW c \in Conn, Dial(c) \/ Ask(c) \/ HangUp(c)
    PROVE  Talk'
<1>1. UNCHANGED threads
  BY DEF Dial, Ask, HangUp
<1>2. CASE Dial(c)
  <2>1. /\ tpc[c] = "none" /\ outbox'[c] = <<>>
        /\ \A u \in Conn \ {c} : outbox'[u] = outbox[u] /\ gone'[u] = gone[u] /\ inbox'[u] = inbox[u]
    BY <1>2 DEF Dial, TypeInv, FrontTypeOK
  <2>2. \A u \in Conn \ {c} : Queued(u)' => Queued(u)
    <3>1. /\ Len(backlog) \in Nat /\ Len(backlog') = Len(backlog) + 1
          /\ \A i \in 1 .. Len(backlog) : backlog'[i] = backlog[i]
          /\ backlog'[Len(backlog) + 1] = c
      BY <1>2, AppendProperties, LenProperties DEF Dial, TypeInv, FrontTypeOK
    <3> QED BY <3>1 DEF Queued
  <2>3. \A u \in Conn \ {c} : S!Over(u)' <=> S!Over(u)
    BY <2>1 DEF S!Over, S!GoesOn
  <2> QED BY <1>1, <2>1, <2>2, <2>3 DEF Talk, threads, Before, Said
<1>3. CASE Ask(c) \/ HangUp(c)
  <2>1. UNCHANGED <<backlog, outbox>>
    BY <1>3 DEF Ask, HangUp, table
  <2>2. \A u \in Conn : (Queued(u)' <=> Queued(u)) /\ (S!Over(u)' <=> S!Over(u))
    BY <2>1 DEF Queued, S!Over, S!GoesOn
  <2>3. \A u \in Conn : gone[u] /\ inbox[u] = <<>> => gone'[u] /\ inbox'[u] = <<>>
    BY <1>3 DEF Ask, HangUp, TypeInv, FrontTypeOK
  <2> QED BY <1>1, <2>1, <2>2, <2>3 DEF Talk, threads
<1> QED BY <1>2, <1>3

LEMMA TalkStays ==
    ASSUME Talk, UNCHANGED <<backlog, clients, threads>>
    PROVE  Talk'
BY DEF Talk, Queued, S!Over, S!GoesOn, clients, threads

TalkInv == HeldInv /\ Talk

LEMMA NextTalk == TalkInv /\ [Next /\ ~Reused]_vars => TalkInv'
<1> SUFFICES ASSUME TalkInv, [Next /\ ~Reused]_vars PROVE TalkInv'
  OBVIOUS
<1>0. HeldInv' /\ TypeInv /\ Held /\ Lined /\ Talk
  BY NextHeld DEF TalkInv, HeldInv
<1>1. CASE UNCHANGED vars
  BY <1>0, <1>1, TalkStays DEF vars, table, TalkInv
<1>2. ASSUME NEW c \in Conn, Thread(c) PROVE Talk'
  <2>1. CASE QuietThread(c)
    BY <1>0, <2>1, TalkByCallback, TalkByRead, TalkByFlush, TalkBySession DEF QuietThread
  <2>2. CASE QueryThread(c)
    BY <1>0, <2>2, TalkByQuery
  <2> QED BY <1>0, <1>2, <2>1, <2>2, QuietOrQuery
<1>3. ASSUME NEW c \in Conn, Dial(c) \/ Ask(c) \/ HangUp(c) PROVE Talk'
  BY <1>0, <1>3, TalkByPeer
<1>4. ASSUME NEW b \in Backends, PollerSocket(b) \/ PollerClose(b) PROVE Talk'
  BY <1>0, <1>4, TalkStays DEF PollerSocket, PollerClose
<1>5. CASE Accept
  BY <1>0, <1>5, TalkByAccept DEF TalkInv
<1>6. CASE AcceptFails \/ Crashed
  BY <1>1, <1>6 DEF AcceptFails, Crashed
<1> QED BY <1>0, <1>1, <1>2, <1>3, <1>4, <1>5, <1>6 DEF Next, TalkInv

\* A connection is open exactly as long as its thread lives.
LEMMA PhaseIs ==
    ASSUME Held, Lined, NEW c \in Conn
    PROVE  /\ Phase[c] = IF Queued(c) THEN "queued"
                         ELSE IF tpc[c] # "none" THEN "open" ELSE "idle"
           /\ Queued(c) => tpc[c] = "none"
BY DEF Phase, Open, Held, Lined, Queued

\* What clients see of a step of the poller, of fdopen, or of a callback is nothing.
LEMMA HiddenStep ==
    ASSUME TypeInv, Held, Lined, Held', Lined', UNCHANGED <<backlog, clients, treq>>,
           \A c \in Conn : /\ (tpc'[c] = "none") <=> (tpc[c] = "none")
                           /\ (tpc'[c] \in Serving) <=> (tpc[c] \in Serving)
    PROVE  UNCHANGED S!vars
<1>1. UNCHANGED Phase
  <2>1. \A c \in Conn : Queued(c)' <=> Queued(c)
    BY DEF Queued
  <2>2. \A c \in Conn : Open(c)' <=> Open(c)
    BY DEF Open, Held
  <2> QED BY <2>1, <2>2 DEF Phase
<1>2. UNCHANGED Inbox
  BY DEF Inbox, Pending, clients
<1> QED BY <1>1, <1>2 DEF S!vars, clients

LEMMA PutBefore ==
    ASSUME NEW T, NEW r \in T, NEW q \in Seq(T)
    PROVE  /\ <<r>> \o q \in Seq(T) /\ <<r>> \o q # <<>>
           /\ Head(<<r>> \o q) = r /\ Tail(<<r>> \o q) = q
<1>1. <<r>> \in Seq(T) /\ Len(<<r>>) = 1 /\ <<r>>[1] = r
  BY IsASeq
<1>2. /\ <<r>> \o q \in Seq(T) /\ Len(<<r>> \o q) = 1 + Len(q) /\ Len(q) \in Nat
      /\ \A i \in 1 .. 1 + Len(q) : (<<r>> \o q)[i] = IF i <= 1 THEN <<r>>[i] ELSE q[i - 1]
  BY <1>1, ConcatProperties, LenProperties
<1>3. <<r>> \o q # <<>>
  BY <1>2, EmptySeq
<1>4. /\ Head(<<r>> \o q) = (<<r>> \o q)[1] /\ Tail(<<r>> \o q) \in Seq(T)
      /\ Len(Tail(<<r>> \o q)) = Len(<<r>> \o q) - 1
      /\ \A i \in 1 .. Len(Tail(<<r>> \o q)) : Tail(<<r>> \o q)[i] = (<<r>> \o q)[i + 1]
  BY <1>2, <1>3, HeadTailProperties
<1>5. Tail(<<r>> \o q) = q
  BY <1>2, <1>4, SeqEqual
<1> QED BY <1>1, <1>2, <1>3, <1>4, <1>5

LEMMA PutBehind ==
    ASSUME NEW T, NEW p \in Seq(T), NEW q \in Seq(T), NEW x \in T
    PROVE  p \o Append(q, x) = Append(p \o q, x)
<1>1. /\ Append(q, x) \in Seq(T) /\ Len(Append(q, x)) = Len(q) + 1 /\ Len(q) \in Nat /\ Len(p) \in Nat
      /\ \A i \in 1 .. Len(q) : Append(q, x)[i] = q[i]
      /\ Append(q, x)[Len(q) + 1] = x
  BY AppendProperties, LenProperties
<1>2. /\ p \o q \in Seq(T) /\ Len(p \o q) = Len(p) + Len(q)
      /\ \A i \in 1 .. Len(p) + Len(q) : (p \o q)[i] = IF i <= Len(p) THEN p[i] ELSE q[i - Len(p)]
  BY ConcatProperties
<1>3. /\ p \o Append(q, x) \in Seq(T) /\ Len(p \o Append(q, x)) = Len(p) + Len(q) + 1
      /\ \A i \in 1 .. Len(p) + Len(q) + 1 :
            (p \o Append(q, x))[i] = IF i <= Len(p) THEN p[i] ELSE Append(q, x)[i - Len(p)]
  BY <1>1, ConcatProperties
<1>4. /\ Append(p \o q, x) \in Seq(T) /\ Len(Append(p \o q, x)) = Len(p) + Len(q) + 1
      /\ \A i \in 1 .. Len(p) + Len(q) : Append(p \o q, x)[i] = (p \o q)[i]
      /\ Append(p \o q, x)[Len(p) + Len(q) + 1] = x
  BY <1>1, <1>2, AppendProperties
<1>5. \A i \in 1 .. Len(p) + Len(q) + 1 : (p \o Append(q, x))[i] = Append(p \o q, x)[i]
  <2> SUFFICES ASSUME NEW i \in 1 .. Len(p) + Len(q) + 1
               PROVE (p \o Append(q, x))[i] = Append(p \o q, x)[i]
    OBVIOUS
  <2>1. CASE i <= Len(p)
    BY <2>1, <1>1, <1>2, <1>3, <1>4
  <2>2. CASE i > Len(p) /\ i <= Len(p) + Len(q)
    BY <2>2, <1>1, <1>2, <1>3, <1>4
  <2>3. CASE i = Len(p) + Len(q) + 1
    BY <2>3, <1>1, <1>3, <1>4
  <2> QED BY <2>1, <2>2, <2>3, <1>1
<1> QED BY <1>3, <1>4, <1>5, SeqEqual

LEMMA NothingBefore ==
    ASSUME NEW T, NEW q \in Seq(T)
    PROVE  <<>> \o q = q
BY ConcatProperties, EmptySeq, LenProperties, SeqEqual

LEMMA InboxIs ==
    ASSUME TypeInv, NEW c \in Conn
    PROVE  /\ Inbox[c] = Pending(c) \o inbox[c]
           /\ Pending(c) \in Seq(Asking) /\ inbox[c] \in Seq(Asking)
           /\ tpc[c] \in Serving => Inbox[c] = <<treq[c]>> \o inbox[c] /\ treq[c] \in Asking
           /\ tpc[c] \notin Serving => Inbox[c] = inbox[c]
<1>1. Inbox[c] = Pending(c) \o inbox[c] /\ inbox[c] \in Seq(Asking)
  BY DEF Inbox, TypeInv, FrontTypeOK
<1>2. CASE tpc[c] \in Serving
  <2>1. treq[c] \in Asking /\ Pending(c) = <<treq[c]>>
    BY <1>2 DEF TypeInv, ThreadInv, Pending
  <2> QED BY <1>1, <1>2, <2>1, IsASeq
<1>3. CASE tpc[c] \notin Serving
  BY <1>1, <1>3, NothingBefore, EmptySeq DEF Pending
<1> QED BY <1>1, <1>2, <1>3

LEMMA DialView ==
    ASSUME TypeInv, Held, Lined, Held', Lined', NEW c \in Conn, Dial(c)
    PROVE  S!Dial(c)
<1>0. /\ ~Queued(c) /\ ~Open(c) /\ tpc[c] = "none" /\ UNCHANGED <<tpc, treq, fd>>
      /\ backlog' = Append(backlog, c)
      /\ inbox' = [inbox EXCEPT ![c] = <<>>]
  BY DEF Dial, threads
<1>1. Phase[c] = "idle"
  BY <1>0 DEF Phase
<1>2. Phase' = [Phase EXCEPT ![c] = "queued"]
  <2>1. /\ Len(backlog) \in Nat /\ Len(backlog') = Len(backlog) + 1
        /\ \A i \in 1 .. Len(backlog) : backlog'[i] = backlog[i]
        /\ backlog'[Len(backlog) + 1] = c
    BY <1>0, AppendProperties, LenProperties DEF TypeInv, FrontTypeOK
  <2>2. Queued(c)' /\ \A u \in Conn \ {c} : Queued(u)' <=> Queued(u)
    BY <2>1 DEF Queued
  <2>3. \A u \in Conn : Open(u)' <=> Open(u)
    BY <1>0 DEF Open
  <2> QED BY <2>2, <2>3 DEF Phase
<1>3. Inbox' = [Inbox EXCEPT ![c] = <<>>]
  <2>1. Pending(c) = <<>> /\ \A u \in Conn : Pending(u)' = Pending(u)
    BY <1>0 DEF Pending, Serving
  <2>2. inbox'[c] = <<>> /\ \A u \in Conn \ {c} : inbox'[u] = inbox[u]
    BY <1>0 DEF TypeInv, FrontTypeOK
  <2>3. <<>> \o <<>> = <<>>
    BY NothingBefore, EmptySeq
  <2> QED BY <2>1, <2>2, <2>3 DEF Inbox
<1> QED BY <1>1, <1>2, <1>3 DEF S!Dial, Dial

LEMMA AskView ==
    ASSUME TypeInv, Held, Lined, NEW c \in Conn, Ask(c)
    PROVE  S!Ask(c)
<1>1. Phase[c] # "idle" /\ Phase' = Phase
  BY DEF Phase, Ask, Queued, Open, table
<1>2. PICK r \in Requests :
         inbox' = [inbox EXCEPT ![c] = Append(@, [from |-> c, n |-> asked[c] + 1, req |-> r])]
  BY DEF Ask
<1> DEFINE x == [from |-> c, n |-> asked[c] + 1, req |-> r]
<1>3. x \in Asking
  <2>1. asked[c] + 1 \in 1 .. MaxAsk
    BY FrontendAssumption DEF Ask, TypeInv, FrontTypeOK
  <2> QED BY <2>1 DEF Asking
<1>4. /\ inbox'[c] = Append(inbox[c], x) /\ \A u \in Conn \ {c} : inbox'[u] = inbox[u]
      /\ \A u \in Conn : Pending(u)' = Pending(u)
  BY <1>2 DEF TypeInv, FrontTypeOK, Pending, Ask, threads
<1>5. Pending(c) \o Append(inbox[c], x) = Append(Pending(c) \o inbox[c], x)
  BY <1>3, InboxIs, PutBehind
<1>6. Inbox' = [Inbox EXCEPT ![c] = Append(@, x)]
  BY <1>4, <1>5 DEF Inbox
<1> QED BY <1>1, <1>6 DEF S!Ask, Ask

LEMMA HangUpView ==
    ASSUME NEW c \in Conn, HangUp(c)
    PROVE  S!HangUp(c)
<1>1. Phase[c] # "idle" /\ Phase' = Phase
  BY DEF Phase, HangUp, Queued, Open, table
<1>2. Inbox' = Inbox
  BY DEF HangUp, Inbox, Pending, threads
<1> QED BY <1>1, <1>2 DEF S!HangUp, HangUp

LEMMA AcceptView ==
    ASSUME TypeInv, Held, Lined, Held', Lined', Accept
    PROVE  \E c \in Conn : S!Accept(c)
<1>c. PICK c : c = Head(backlog)
  OBVIOUS
<1>0. /\ backlog \in Seq(Conn) /\ Len(backlog) \in Nat /\ backlog # <<>> /\ backlog' = Tail(backlog)
      /\ UNCHANGED <<clients, treq>>
  BY LenProperties DEF Accept, TypeInv, FrontTypeOK
<1>1. /\ c \in Conn /\ 1 \in 1 .. Len(backlog) /\ c = backlog[1]
      /\ Len(Tail(backlog)) = Len(backlog) - 1
      /\ \A i \in 1 .. Len(Tail(backlog)) : Tail(backlog)[i] = backlog[i + 1]
                                           /\ i + 1 \in 1 .. Len(backlog)
  BY <1>0, <1>c, HeadTailProperties
<1>2. tpc'[c] = "fdopen" /\ tpc[c] = "none" /\ \A u \in Conn \ {c} : tpc'[u] = tpc[u]
  BY <1>1, <1>c, GotoOnly DEF Accept, Lined
<1>3. Queued(c) /\ ~Queued(c)'
  <2>1. \A i \in 1 .. Len(backlog') : tpc'[backlog'[i]] = "none"
    BY DEF Lined
  <2>2. tpc'[c] # "none"
    BY <1>2
  <2>3. ~(\E i \in 1 .. Len(backlog') : backlog'[i] = c)
    BY <2>1, <2>2
  <2>4. \E i \in 1 .. Len(backlog) : backlog[i] = c
    BY <1>1
  <2> QED BY <2>3, <2>4 DEF Queued
<1>4. \A u \in Conn \ {c} : Queued(u)' <=> Queued(u)
  <2> SUFFICES ASSUME NEW u \in Conn \ {c}, Queued(u) PROVE Queued(u)'
    BY <1>0, <1>1 DEF Queued
  <2>1. PICK i \in 1 .. Len(backlog) : backlog[i] = u
    BY DEF Queued
  <2>2. i - 1 \in 1 .. Len(Tail(backlog)) /\ Tail(backlog)[i - 1] = u
    BY <2>1, <1>0, <1>1
  <2> QED BY <2>2, <1>0 DEF Queued
<1>5. Phase[c] = "queued" /\ Phase' = [Phase EXCEPT ![c] = "open"]
  <2>1. \A u \in Conn : Open(u)' <=> tpc'[u] # "none"
    BY DEF Held, Open
  <2>2. \A u \in Conn : Open(u) <=> tpc[u] # "none"
    BY DEF Held, Open
  <2>3. Open(c)' /\ \A u \in Conn \ {c} : Open(u)' <=> Open(u)
    BY <1>1, <1>2, <2>1, <2>2
  <2> QED BY <1>1, <1>3, <1>4, <2>3 DEF Phase
<1>6. Inbox' = Inbox
  BY <1>0, <1>1, <1>2 DEF Inbox, Pending, Serving, clients
<1> QED BY <1>0, <1>1, <1>5, <1>6 DEF S!Accept, clients

\* The end of a thread is the end of its connection and of no other.
LEMMA CloseView ==
    ASSUME TypeInv, Held, Lined, Talk, Held', Lined', NEW t \in Conn, FdopenFails(t) \/ End(t)
    PROVE  S!Close(t)
<1>1. /\ tpc[t] \in {"fdopen", "close"} /\ tpc'[t] = "none" /\ \A u \in Conn \ {t} : tpc'[u] = tpc[u]
      /\ UNCHANGED <<backlog, gone, asked, inbox, outbox, treq>>
  BY GotoOnly DEF FdopenFails, End, clients
<1>2. \A u \in Conn : Queued(u)' <=> Queued(u)
  BY <1>1 DEF Queued
<1>3. Phase[t] = "open" /\ Phase' = [Phase EXCEPT ![t] = "idle"]
  <2>1. ~Queued(t) /\ \A u \in Conn : (Open(u)' <=> tpc'[u] # "none") /\ (Open(u) <=> tpc[u] # "none")
    BY <1>1 DEF Held, Open, Lined, Queued
  <2>2. Open(t) /\ ~Open(t)' /\ \A u \in Conn \ {t} : Open(u)' <=> Open(u)
    BY <1>1, <2>1
  <2> QED BY <1>2, <2>1, <2>2 DEF Phase
<1>4. Inbox' = Inbox /\ Inbox[t] = inbox[t]
  <2>1. Inbox' = Inbox
    BY <1>1 DEF Inbox, Pending, Serving
  <2> QED BY <1>1, <2>1, InboxIs DEF Serving
<1>5. \/ S!Over(t)
      \/ gone[t] /\ Inbox[t] = <<>>
      \/ "fdopen" \in Fault /\ outbox[t] = <<>>
  BY <1>1, <1>4 DEF Talk, FdopenFails, End
<1> QED BY <1>1, <1>3, <1>4, <1>5 DEF S!Close

LEMMA ReadView ==
    ASSUME TypeInv, Held, Lined, Held', Lined', NEW t \in Conn, ReadRequest(t)
    PROVE  S!Lose(t)
<1>1. /\ tpc[t] = "read" /\ tpc'[t] = "dispatch" /\ \A u \in Conn \ {t} : tpc'[u] = tpc[u]
      /\ UNCHANGED <<backlog, fd, gone, asked, outbox>>
  BY GotoOnly DEF ReadRequest, table
<1>2. PICK k \in 1 .. Len(inbox[t]) :
         /\ inbox' = [inbox EXCEPT ![t] = SubSeq(@, k + 1, Len(@))]
         /\ treq' = [treq EXCEPT ![t] = Head(inbox[t])]
  BY OwnInput DEF ReadRequest
<1>3. /\ inbox'[t] = SubSeq(inbox[t], k + 1, Len(inbox[t])) /\ treq'[t] = Head(inbox[t])
      /\ \A u \in Conn \ {t} : inbox'[u] = inbox[u] /\ treq'[u] = treq[u]
  BY <1>2 DEF TypeInv, FrontTypeOK
<1>4. Phase[t] = "open" /\ Phase' = Phase
  BY <1>1, PhaseIs DEF Phase, Queued, Open
<1>5. Inbox[t] = inbox[t]
  BY <1>1, InboxIs DEF Serving
<1>6. Pending(t)' = <<Head(inbox[t])>> /\ \A u \in Conn \ {t} : Pending(u)' = Pending(u)
  BY <1>1, <1>3 DEF Pending, Serving
<1>7. Inbox' = [Inbox EXCEPT ![t] = <<Head(@)>> \o SubSeq(@, k + 1, Len(@))]
  BY <1>3, <1>5, <1>6 DEF Inbox
<1>8. k \in 1 .. Len(Inbox[t])
  BY <1>5
<1> QED BY <1>1, <1>4, <1>7, <1>8 DEF S!Lose

LEMMA FlushView ==
    ASSUME TypeInv, Held, Lined, Talk, Held', Lined', NEW t \in Conn, Flush(t)
    PROVE  S!Reply(t)
<1>1. /\ tpc[t] \in {"flush", "last"} /\ tpc'[t] \in {"close", "read"}
      /\ \A u \in Conn \ {t} : tpc'[u] = tpc[u]
      /\ UNCHANGED <<backlog, fd, gone, asked, inbox>>
      /\ \A u \in Conn \ {t} : treq'[u] = treq[u]
  BY GotoOnly DEF Flush, table, TypeInv, FrontTypeOK
<1>2. Phase[t] = "open" /\ Phase' = Phase
  BY <1>1, PhaseIs DEF Phase, Queued, Open
<1>3. /\ Inbox[t] = <<treq[t]>> \o inbox[t] /\ treq[t] \in Asking /\ inbox[t] \in Seq(Asking)
      /\ Inbox[t] # <<>> /\ Head(Inbox[t]) = treq[t] /\ Tail(Inbox[t]) = inbox[t]
  <2>1. tpc[t] \in Serving
    BY <1>1 DEF Serving
  <2>2. Inbox[t] = <<treq[t]>> \o inbox[t] /\ treq[t] \in Asking /\ inbox[t] \in Seq(Asking)
    BY <2>1, InboxIs
  <2> QED BY <2>2, PutBefore
<1>4. Inbox' = [Inbox EXCEPT ![t] = Tail(@)]
  <2>1. Pending(t)' = <<>> /\ \A u \in Conn \ {t} : Pending(u)' = Pending(u)
    BY <1>1 DEF Pending, Serving
  <2>2. <<>> \o inbox[t] = inbox[t]
    BY <1>3, NothingBefore
  <2> QED BY <1>1, <1>3, <2>1, <2>2 DEF Inbox
<1>5. outbox' = [outbox EXCEPT ![t] = Append(@, tans[t])]
  BY TalkByFlush
<1>6. /\ tans[t] \in Answer /\ tans[t].to = Head(Inbox[t])
      /\ S!Understood(Head(Inbox[t]).req) => tans[t].form = S!Form(Head(Inbox[t]).req)
      /\ ~S!Over(t)
  BY <1>1, <1>3 DEF Talk, Said, TypeInv, ThreadInv
<1>7. \E w \in What, f \in {"MEMCACHE", "HTTP"} :
         /\ S!Understood(Head(Inbox[t]).req) => f = S!Form(Head(Inbox[t]).req)
         /\ outbox' = [outbox EXCEPT ![t] =
               Append(@, [to |-> Head(Inbox[t]), what |-> w, form |-> f])]
  <2>1. /\ tans[t].what \in What /\ tans[t].form \in {"MEMCACHE", "HTTP"}
        /\ tans[t] = [to |-> Head(Inbox[t]), what |-> tans[t].what, form |-> tans[t].form]
    BY <1>6 DEF Answer, Form
  <2> QED BY <1>5, <1>6, <2>1
<1> QED BY <1>1, <1>2, <1>3, <1>4, <1>6, <1>7 DEF S!Reply

LEMMA InitView == Init => S!Init
<1> SUFFICES ASSUME Init PROVE S!Init
  OBVIOUS
<1>1. \A c \in Conn : ~Queued(c) /\ ~Open(c)
  <2>1. Len(backlog) = 0
    BY EmptySeq, LenProperties DEF Init
  <2>2. ASSUME NEW c \in Conn PROVE ~Queued(c)
    BY <2>1 DEF Queued
  <2>3. ASSUME NEW c \in Conn, NEW n \in Number PROVE fd[n] # Client(c)
    <3>1. fd[n] = Free
      BY DEF Init
    <3> QED BY <3>1, Kinds
  <2> QED BY <2>2, <2>3 DEF Open
<1>2. Inbox = [c \in Conn |-> <<>>]
  <2>1. <<>> \o <<>> = <<>>
    BY NothingBefore, EmptySeq
  <2> QED BY <2>1 DEF Inbox, Pending, Init, Serving
<1> QED BY <1>1, <1>2 DEF Phase, S!Init, Init

LEMMA StepView == TalkInv /\ [Next /\ ~Reused]_vars => [S!Next]_S!vars
<1> SUFFICES ASSUME TalkInv, [Next /\ ~Reused]_vars PROVE [S!Next]_S!vars
  OBVIOUS
<1>0. TypeInv /\ Held /\ Lined /\ Talk /\ Held' /\ Lined'
  BY NextHeld DEF TalkInv, HeldInv
<1>1. CASE UNCHANGED vars
  BY <1>0, <1>1, HiddenStep DEF vars, table, threads
<1>2. ASSUME NEW t \in Conn, Thread(t) PROVE [S!Next]_S!vars
  <2>1. CASE FdopenFails(t) \/ End(t)
    BY <1>0, <2>1, CloseView DEF S!Next
  <2>2. CASE ReadRequest(t)
    BY <1>0, <2>2, ReadView DEF S!Next
  <2>3. CASE Flush(t)
    BY <1>0, <2>3, FlushView DEF S!Next
  <2>4. CASE Fdopen(t) \/ ReadEof(t)
    <3>1. UNCHANGED <<backlog, clients, treq>> /\ tpc[t] \in {"fdopen", "read"}
      BY <2>4 DEF Fdopen, ReadEof, table
    <3>2. tpc'[t] \in {"read", "close"} /\ \A u \in Conn \ {t} : tpc'[u] = tpc[u]
      BY <1>0, <2>4, GotoOnly DEF Fdopen, ReadEof
    <3> QED BY <1>0, <3>1, <3>2, HiddenStep DEF Serving
  <2>5. CASE RefuseMethod(t) \/ RefuseUri(t) \/ StatsCallback(t) \/ ImageCallback(t)
    <3>1. UNCHANGED <<backlog, clients, treq>> /\ tpc[t] = "dispatch"
      BY <2>5 DEF RefuseMethod, RefuseUri, StatsCallback, ImageCallback, Calls, quiet, table
    <3>2. Goto(t, "flush") \/ Goto(t, "last")
      BY <2>5 DEF RefuseMethod, RefuseUri, StatsCallback, ImageCallback, Finish
    <3>3. tpc'[t] \in {"flush", "last"} /\ \A u \in Conn \ {t} : tpc'[u] = tpc[u]
      BY <1>0, <3>2, GotoOnly
    <3> QED BY <1>0, <3>1, <3>3, HiddenStep DEF Serving
  <2>6. CASE QueryThread(t)
    <3>1. UNCHANGED <<backlog, clients, treq>>
      BY <2>6, QueryRests
    <3>2. /\ tpc[t] \in Serving /\ tpc'[t] \in Serving
          /\ \A u \in Conn \ {t} : tpc'[u] = tpc[u]
      BY <1>0, <2>6, TalkByQuery
    <3> QED BY <1>0, <3>1, <3>2, HiddenStep DEF Serving
  <2>7. QuietThread(t) \/ QueryThread(t)
    BY <1>0, <1>2, QuietOrQuery
  <2> QED BY <2>1, <2>2, <2>3, <2>4, <2>5, <2>6, <2>7 DEF QuietThread
<1>3. ASSUME NEW c \in Conn, Dial(c) \/ Ask(c) \/ HangUp(c) PROVE [S!Next]_S!vars
  BY <1>0, <1>3, DialView, AskView, HangUpView DEF S!Next
<1>4. ASSUME NEW b \in Backends, PollerSocket(b) \/ PollerClose(b) PROVE [S!Next]_S!vars
  BY <1>0, <1>4, HiddenStep DEF PollerSocket, PollerClose, threads
<1>5. CASE Accept
  BY <1>0, <1>5, AcceptView DEF S!Next
<1>6. CASE AcceptFails \/ Crashed
  BY <1>1, <1>6 DEF AcceptFails, Crashed
<1> QED BY <1>1, <1>2, <1>3, <1>4, <1>5, <1>6 DEF Next

\* As long as no number is given away between the two closes of a query, every connection is a
\* conversation of its own, and a request that needs memcache reporter is answered like any
\* other: the front end implements Sessions.
THEOREM ImplementsSessions == CalmSpec => SessionsView
<1>1. Init => TalkInv
  BY InitHeldInv, InitTalk DEF TalkInv
<1>2. TalkInv /\ [Next /\ ~Reused]_vars => TalkInv'
  BY NextTalk
<1>3. TalkInv /\ [Next /\ ~Reused]_vars => [S!Next]_S!vars
  BY StepView
<1> QED BY <1>1, <1>2, <1>3, InitView, PTL DEF CalmSpec, SessionsView, S!Spec

-----------------------------------------------------------------------------
(* Where no number can be given away between the two closes *)

NoReports == \A r \in Requests : FindCallback(r.uri) # "reporterCallback"
Single    == Backends = {} /\ \A t, u \in Conn : t = u

\* Nobody asks memcache reporter, or there is nobody else to be given a number.
Undisturbed == NoReports \/ Single

QuietPc == {"none", "fdopen", "read", "dispatch", "flush", "last", "close"}

QuietInv == HeldInv /\ (NoReports => \A t \in Conn : tpc[t] \in QuietPc)

LEMMA StaysQuiet ==
    ASSUME NoReports, TypeInv, Lined, \A t \in Conn : tpc[t] \in QuietPc, [Next]_vars
    PROVE  \A t \in Conn : tpc'[t] \in QuietPc
<1>1. CASE UNCHANGED tpc
  BY <1>1
<1>2. ASSUME NEW t \in Conn, QuietThread(t) PROVE \A u \in Conn : tpc'[u] \in QuietPc
  <2>1. \E pc \in QuietPc : Goto(t, pc)
    BY <1>2 DEF QuietThread, Fdopen, FdopenFails, ReadRequest, ReadEof, RefuseMethod, RefuseUri,
                StatsCallback, ImageCallback, Flush, End, Finish, QuietPc
  <2> QED BY <2>1, GotoOnly
<1>3. ASSUME NEW t \in Conn, QueryThread(t) PROVE FALSE
  <2>1. ReporterCallback(t)
    BY <1>3 DEF QueryThread, QuietPc, GetAddr, FirstSocket, Socket, Connect, Exchange,
                FcloseQuery, CloseQuery
  <2>2. tpc[t] = "dispatch" /\ FindCallback(Uri(t)) = "reporterCallback"
    BY <2>1 DEF ReporterCallback, Calls
  <2>3. treq[t] \in Asking
    BY <2>2 DEF TypeInv, ThreadInv, Serving
  <2> QED BY <2>2, <2>3 DEF NoReports, Uri, Asking
<1>4. CASE Accept
  <2>1. Head(backlog) \in Conn /\ Goto(Head(backlog), "fdopen")
    BY <1>4, LinedByAccept DEF Accept
  <2> QED BY <2>1, GotoOnly DEF QuietPc
<1>5. \/ UNCHANGED tpc \/ Accept \/ \E t \in Conn : QuietThread(t) \/ QueryThread(t)
  BY QuietOrQuery DEF Next, Crashed, vars, threads, Dial, Ask, HangUp, AcceptFails, PollerSocket,
     PollerClose
<1> QED BY <1>1, <1>2, <1>3, <1>4, <1>5

\* A thread that is alone is not given the number it is about to close again.
LEMMA NobodyElse ==
    ASSUME Undisturbed, QuietInv, [Next]_vars
    PROVE  ~Reused
<1> SUFFICES ASSUME NEW t \in Conn, tpc[t] = "close_fd", fd[qfd[t]] = Free, fd'[qfd[t]] # Free
             PROVE  FALSE
  BY DEF Reused
<1>1. Single
  BY DEF Undisturbed, QuietInv, QuietPc
<1>2. ~Accept
  <2>1. ASSUME Accept PROVE Head(backlog) \in Conn /\ tpc[Head(backlog)] = "none"
    BY <2>1, LinedByAccept DEF QuietInv, HeldInv
  <2> QED BY <1>1, <2>1 DEF Single
<1>3. ~Thread(t)
  <2>1. ASSUME Thread(t) PROVE CloseQuery(t)
    BY <2>1 DEF Thread, Fdopen, FdopenFails, ReadRequest, ReadEof, RefuseMethod, RefuseUri,
                StatsCallback, ImageCallback, ReporterCallback, GetAddr, FirstSocket, Socket,
                Connect, Exchange, FcloseQuery, Flush, End, Calls
  <2>2. qfd[t] \in Number /\ fd \in [Number -> Object]
    BY DEF QuietInv, HeldInv, Held, TypeInv, FrontTypeOK
  <2> QED BY <2>1, <2>2 DEF CloseQuery, Closed
<1>4. fd' = fd
  <2>1. \A u \in Conn : ~Thread(u)
    BY <1>1, <1>3 DEF Single
  <2> QED BY <1>1, <1>2, <2>1 DEF Next, Crashed, Single, vars, table, Dial, Ask, HangUp,
     AcceptFails
<1> QED BY <1>4

\* Without queries to memcache reporter, or with a single connection and no poller, no number
\* is given away between two closes: these are the instances the other runs check.
THEOREM NeverReused == Undisturbed => (Spec => CalmSpec)
<1> SUFFICES ASSUME Undisturbed PROVE Spec => CalmSpec
  OBVIOUS
<1>1. Init => QuietInv
  BY InitHeldInv DEF QuietInv, Init, QuietPc
<1>2. QuietInv /\ [Next]_vars => QuietInv'
  <2> SUFFICES ASSUME QuietInv, [Next]_vars PROVE QuietInv'
    OBVIOUS
  <2>1. HeldInv'
    BY NobodyElse, NextHeld DEF QuietInv
  <2>2. NoReports => \A t \in Conn : tpc'[t] \in QuietPc
    BY StaysQuiet DEF QuietInv, HeldInv
  <2> QED BY <2>1, <2>2 DEF QuietInv
<1>3. QuietInv /\ [Next]_vars => [Next /\ ~Reused]_vars
  BY NobodyElse
<1> QED BY <1>1, <1>2, <1>3, PTL DEF CalmSpec, Spec

\* There, whatever is asked and whatever fails, numbers are owned, closed by their owner, and
\* the front end implements Sessions.
THEOREM UndisturbedHolds == Undisturbed => (Spec => []Owned /\ ClosedByOwner /\ SessionsView)
<1> SUFFICES ASSUME Undisturbed PROVE Spec => []Owned /\ ClosedByOwner /\ SessionsView
  OBVIOUS
<1>1. Spec => CalmSpec
  BY NeverReused
<1> QED BY <1>1, DescriptorsOwned, OwnersClose, ImplementsSessions, PTL
=============================================================================
