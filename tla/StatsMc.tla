------------------------------- MODULE StatsMc -------------------------------
(***************************************************************************)
(* The memcached connection of one backend: statsmc.c.                     *)
(*                                                                         *)
(* The connection belongs to one thread, the backend's poller.  An action  *)
(* is one system call of sp_memcache_connect, sp_memcache_write or         *)
(* sp_memcache_read with the branch the code takes on its result, or one   *)
(* turn of the line loop of sp_memcache_stats_add_stats.  The caller says  *)
(* which comes next, and sets what it keeps of the result.                 *)
(*                                                                         *)
(* Time is abstracted: a poll() that runs into its timeout is a choice.    *)
(* What memcached answers is chosen when the command reaches it; a read    *)
(* takes any prefix of what has been answered, or times out before any of  *)
(* it arrives, which gives every delay and every packet boundary.          *)
(*                                                                         *)
(* The buffer holds lines.  One that is full ends anywhere in its last     *)
(* line, and the pieces of that line are what the code makes of them; a    *)
(* line cut by a packet boundary alone is whole again in the buffer.       *)
(***************************************************************************)
EXTENDS Naturals, Sequences

CONSTANTS
    Uri,        \* the stats names a configuration may list
    Health,     \* the name answered by the liveness probe, "health"
    Version,    \* values memcached may report: one per snapshot of its counters
    NStats,     \* STAT lines in the reply of each snapshot
    BufLines,   \* lines that fill the read buffer (MAXSTATSZ, 32 KB)
    Fault       \* what may go wrong: a subset of FaultKind

FaultKind == {"refuse",    \* connect() is refused or times out
              "nosocket",  \* socket() or fcntl() fails
              "block",     \* the send buffer is full when write() is called
              "broken",    \* write() or read() fails: EPIPE, ECONNRESET
              "slow",      \* no reply within the read timeout
              "eof",       \* memcached closes, perhaps in mid reply
              "error",     \* memcached answers ERROR
              "long"}      \* memcached answers the probe with SERVER_ERROR ...

ASSUME StatsMcAssumption ==
    /\ Health \in Uri
    /\ Version # {}
    /\ NStats \in [Version -> Nat \ {0}]
    /\ BufLines \in Nat /\ BufLines > 2
    /\ Fault \subseteq FaultKind

VARIABLES
    sock,       \* bep->fd: the socket, what it holds unread, whether the peer closed
    last_error, \* bep->last_error
    buf,        \* the buffer of sp_memcache_read_replies
    done,       \* its flag done
    new_stats,  \* the list being built for the current uri
    stored      \* memcached acknowledged the last liveness probe (its own state)

-----------------------------------------------------------------------------
(* Lines on the wire, and the entries made from them *)

\* CUT: a line with a value that is not the one sent; FRAG: any other piece of a line
WireKind  == {"STAT", "END", "STORED", "ERROR", "SERVER_ERROR", "CUT", "FRAG"}
EntryKind == {"STAT", "CUT", "FRAG", "AGE", "LIVE", "DEAD"}
Errno     == {"OK", "ECONNREFUSED", "EAGAIN", "EPIPE", "ECONNRESET", "EBADF",
              "ECANCELED"}

Wire  == [kind : WireKind, uri : Uri, ver : Version, no : Nat]
Entry == [kind : EntryKind, uri : Uri, ver : Version, no : Nat]

\* the n-th line of an answer to u, or the entry made of it
Line(k, u, v, n) == [kind |-> k, uri |-> u, ver |-> v, no |-> n]

Piece(line, k) == [line EXCEPT !.kind = k]

AnyVersion == CHOOSE v \in Version : TRUE

\* a piece that is no value of any line
Scrap == Line("FRAG", Health, AnyVersion, 0)

\* memcached's complete reply to the command the poller sends for u
Reply(u, v) ==
    IF u = Health
    THEN <<Line("STORED", u, v, 1)>>
    ELSE [i \in 1 .. NStats[v] + 1 |->
             Line(IF i <= NStats[v] THEN "STAT" ELSE "END", u, v, i)]

\* the reply leaves room in the buffer, whose last byte must stay 0
Fits(v) == NStats[v] + 1 < BufLines

Answer(s, e) == [lines |-> s, eof |-> e]

EndCut(s) == [s EXCEPT ![Len(s)] = Piece(s[Len(s)], "CUT")]

\* the replies of which the last lines are missing, and perhaps a part of a value
CutReplies(u) ==
    LET starts == UNION { {SubSeq(Reply(u, v), 1, k) : k \in 0 .. Len(Reply(u, v)) - 1} :
                          v \in Version }
    IN  starts \cup {EndCut(s) : s \in starts \ {<<>>}}

\* what memcached may do with the command for u: answer it, perhaps with an
\* error, or close the connection in mid reply
Answers(u) ==
    {Answer(Reply(u, v), FALSE) : v \in Version}
    \cup { Answer(s, TRUE) : s \in {t \in CutReplies(u) : "eof" \in Fault} }
    \cup { Answer(<<Line(k, u, AnyVersion, 1)>>, FALSE) :
              k \in {"ERROR" : f \in Fault \cap {"error"}}
                  \cup {"SERVER_ERROR" : f \in Fault \cap {"long"}} }

Has(s, K)   == \E i \in 1 .. Len(s) : s[i].kind \in K
HasEnd(s)   == Has(s, {"END"})                      \* strstr(data, "END\r\n")
HasError(s) == Has(s, {"ERROR", "SERVER_ERROR"})    \* strstr(data, "ERROR")

NoSock  == [open |-> FALSE, eof |-> FALSE, inbox |-> <<>>]    \* fd == -1
NewSock == [open |-> TRUE,  eof |-> FALSE, inbox |-> <<>>]

\* mutant: the socket stays open after an error
BailOpen(err) == last_error' = err /\ UNCHANGED sock

\* the label bail of statsmc.c: close the socket, remember the error
Bail(err) == sock' = NoSock /\ last_error' = err

StatsMcInit ==
    /\ sock = NoSock
    /\ last_error = "OK"
    /\ buf = <<>>
    /\ done = FALSE
    /\ new_stats = <<>>
    /\ stored = FALSE

LinkTypeOK ==
    /\ sock \in [open : BOOLEAN, eof : BOOLEAN, inbox : Seq(Wire)]
    /\ last_error \in Errno
    /\ stored \in BOOLEAN

SessionTypeOK == buf \in Seq(Wire) /\ done \in BOOLEAN /\ new_stats \in Seq(Entry)

-----------------------------------------------------------------------------
(* sp_memcache_connect, sp_memcache_disconnect *)

\* Success leaves last_error as it was.  A refusal or a timeout (one error for all of
\* them) is returned and remembered; a failure of socket() or fcntl() bails with err
\* still 0.
Connect(err) ==
    \/ /\ err = "OK"
       /\ sock' = NewSock
       /\ UNCHANGED last_error
    \/ /\ "refuse" \in Fault
       /\ err = "ECONNREFUSED"
       /\ Bail(err)
    \/ /\ "nosocket" \in Fault
       /\ err = "OK"
       /\ Bail(err)

Disconnect == sock' = NoSock

-----------------------------------------------------------------------------
(* sp_memcache_write: the command for u *)

\* The whole command is written.  The EWOULDBLOCK of an earlier write() stays
\* in err, and is returned although the command went out.
Sent(u, err) ==
    /\ sock.open
    /\ err \in {"OK"} \cup {"EAGAIN" : f \in Fault \cap {"block"}}
    /\ IF sock.eof
       THEN /\ stored' = (stored /\ u # Health)
            /\ UNCHANGED sock
       ELSE \E a \in Answers(u) :
                /\ sock' = [sock EXCEPT !.inbox = @ \o a.lines, !.eof = a.eof]
                /\ stored' = IF u = Health THEN Has(a.lines, {"STORED"}) ELSE stored
    /\ UNCHANGED last_error

\* write() fails, or time runs out before the last byte: after an EWOULDBLOCK
\* that is an error, after short writes only it is not (err is 0)
NotSent(u, err) ==
    /\ \/ ~sock.open /\ err = "EBADF"
       \/ sock.open /\ "broken" \in Fault /\ err = "EPIPE"
       \/ sock.open /\ "block" \in Fault /\ err \in {"EAGAIN", "OK"}
    /\ Bail(err)
    /\ stored' = (stored /\ u # Health)

Write(u, err) == Sent(u, err) \/ NotSent(u, err)

-----------------------------------------------------------------------------
(* sp_memcache_read, called by sp_memcache_read_replies *)

\* mutant: each read() starts at the head of the buffer
ReceivedOver(got) == got

\* read() adds to what is in the buffer
Received(got) == buf \o got

\* one read() returns the first k unread lines
Take(k) ==
    /\ sock.open
    /\ Len(buf) + k <= BufLines
    /\ buf' = Received(SubSeq(sock.inbox, 1, k))
    /\ UNCHANGED <<new_stats, stored>>

Consume(k) ==
    /\ sock' = [sock EXCEPT !.inbox = SubSeq(@, k + 1, Len(@))]
    /\ UNCHANGED last_error

\* no END yet and room left: read() again
ReadMore(k) ==
    /\ Take(k) /\ Consume(k)
    /\ ~HasError(buf') /\ ~HasEnd(buf') /\ Len(buf') < BufLines
    /\ UNCHANGED done

\* A line in two halves.  A value may be whole or not in the first one, and all of the
\* line is as good as in the second, if the cut falls in its prefix; what has ERROR in
\* it may keep it; no half of END is END.
Torn(line) ==
    CASE line.kind \in {"STAT", "CUT"} ->
             {<<line, Scrap>>, <<Piece(line, "CUT"), Scrap>>, <<Scrap, line>>, <<Scrap, Scrap>>}
      [] line.kind = "SERVER_ERROR" ->
             {<<Scrap, line>>, <<Scrap, Piece(line, "ERROR")>>, <<Scrap, Scrap>>}
      [] OTHER -> {<<Scrap, Scrap>>}

\* the first k unread lines, the last of them whole or torn, and what is left unread
Arrivals(k) ==
    LET head == SubSeq(sock.inbox, 1, k - 1)
        rest == SubSeq(sock.inbox, k + 1, Len(sock.inbox))
    IN  {[got |-> SubSeq(sock.inbox, 1, k), rest |-> rest]}
        \cup {[got |-> Append(head, t[1]), rest |-> <<t[2]>> \o rest] : t \in Torn(sock.inbox[k])}

\* END is in the buffer, or the buffer is full.  No 0 ends a full buffer: the parser
\* finds what follows it in memory, and may make another entry of it.
ReadBuffer(k) ==
    /\ sock.open
    /\ \E a \in Arrivals(k) :
          LET data == Received(a.got)
              full == Len(data) = BufLines
          IN  /\ full \/ (HasEnd(data) /\ Len(data) < BufLines)
              /\ ~HasError(data)
              /\ buf' = IF full THEN Append(data, Scrap) ELSE data
              /\ done' = HasEnd(data)
              /\ sock' = [sock EXCEPT !.inbox = a.rest]
    /\ UNCHANGED <<last_error, new_stats, stored>>

\* ERROR is in the buffer: ECANCELED, which sp_memcache_read_replies turns to 0
ReadErrorReply(k) ==
    /\ Take(k)
    /\ HasError(buf')
    /\ Bail("OK")
    /\ UNCHANGED done

\* read() returns 0: taken for the end of the stats
ReadEof ==
    /\ sock.open /\ sock.eof /\ sock.inbox = <<>>
    /\ done' = TRUE
    /\ UNCHANGED <<sock, last_error, buf, new_stats, stored>>

ReadError(err) ==
    \/ ~sock.open /\ err = "EBADF"
    \/ sock.open /\ "broken" \in Fault /\ err = "ECONNRESET"
    \/ /\ sock.open /\ err = "EAGAIN"
       /\ "slow" \in Fault \/ (sock.inbox = <<>> /\ ~sock.eof)

\* read() fails, or the time limit is reached; what is buffered is not parsed
ReadFails(err) ==
    /\ ReadError(err)
    /\ Bail(err)
    /\ UNCHANGED <<buf, done, new_stats, stored>>

-----------------------------------------------------------------------------
(* sp_memcache_stats_add_stats, and the loop of sp_memcache_read_replies *)

\* A line with a name and a value becomes an entry, whatever it starts with.  A piece
\* of one may or may not have two words.
ParseLine ==
    /\ buf # <<>>
    /\ buf' = Tail(buf)
    /\ \/ /\ Head(buf).kind \in {"STAT", "CUT", "FRAG"}
          /\ new_stats' = Append(new_stats, Head(buf))
       \/ /\ Head(buf).kind \notin {"STAT", "CUT"}
          /\ UNCHANGED new_stats
    /\ UNCHANGED <<sock, last_error, done, stored>>

\* no END, and some valid stats so far: read the next buffer
ParseMore ==
    /\ buf = <<>> /\ ~done /\ new_stats # <<>>
    /\ UNCHANGED <<sock, last_error, buf, done, new_stats, stored>>

ParseEnd ==
    /\ buf = <<>> /\ (done \/ new_stats = <<>>)
    /\ last_error' = "OK"
    /\ UNCHANGED <<sock, buf, done, new_stats, stored>>

-----------------------------------------------------------------------------
(* sp_memcache_read, called by getHealth with room for "STORED\r\n" only *)

\* what is left of a line whose first bytes are gone
Bitten(s) == IF s = <<>> THEN s ELSE [s EXCEPT ![1] = Scrap]

\* the first n lines are shorter than the probe's buffer
Short(s, n) == \A i \in 1 .. n : s[i].kind \in {"END", "FRAG"}

\* what the probe leaves unread
Leftovers(s) ==
    {Bitten(s)}
    \cup UNION { {SubSeq(s, n + 1, Len(s)), Bitten(SubSeq(s, n + 1, Len(s)))} :
                 n \in {m \in 1 .. Len(s) : Short(s, m)} }

ReadStored ==
    /\ sock.open /\ sock.inbox # <<>> /\ Head(sock.inbox).kind = "STORED"
    /\ Consume(1)

\* "ERROR\r\n" fits, perhaps behind the rest of a line, and bails
ReadProbeError ==
    /\ sock.open
    /\ \E i \in 1 .. Len(sock.inbox) :
          /\ sock.inbox[i].kind = "ERROR"
          /\ \A j \in 1 .. i - 1 : sock.inbox[j].kind = "FRAG"
    /\ Bail("ECANCELED")

\* anything else, end of file included, is not STORED; the socket stays open
ReadOther ==
    /\ sock.open
    /\ IF sock.inbox = <<>> THEN sock.eof
       ELSE Head(sock.inbox).kind \notin {"STORED", "ERROR"}
    /\ \E rest \in Leftovers(sock.inbox) : sock' = [sock EXCEPT !.inbox = rest]
    /\ UNCHANGED last_error

ReadProbeFails == \E err \in Errno : ReadError(err) /\ Bail(err)

\* mutant: any answer will do
ReadProbeLax(alive) ==
    /\ \/ alive /\ (ReadStored \/ ReadOther)
       \/ ~alive /\ (ReadProbeError \/ ReadProbeFails)
    /\ UNCHANGED <<buf, done, stored>>

\* strcmp(healthCmd, LIVENESS_OK) and the error paths of getHealth
ReadProbe(alive) ==
    /\ \/ alive /\ ReadStored
       \/ ~alive /\ (ReadProbeError \/ ReadOther \/ ReadProbeFails)
    /\ UNCHANGED <<buf, done, stored>>

HealthStats(alive) ==
    << Line("AGE", Health, AnyVersion, 0),
       Line(IF alive THEN "LIVE" ELSE "DEAD", Health, AnyVersion, 0) >>
=============================================================================
