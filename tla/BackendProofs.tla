---------------------------- MODULE BackendProofs ----------------------------
(***************************************************************************)
(* Proofs about Backend, for every list of uris, every number of clients,  *)
(* every reply and buffer size and every set of faults.                    *)
(***************************************************************************)
EXTENDS Backend, SequenceTheorems, TLAPS

USE DEF Pos

-----------------------------------------------------------------------------
(* What the operators of StatsMc return *)

LEMMA LineType ==
    ASSUME NEW k \in WireKind, NEW u \in Uri, NEW v \in Version, NEW n \in Nat
    PROVE  Line(k, u, v, n) \in Wire
BY DEF Line, Wire

LEMMA PieceType ==
    ASSUME NEW line \in Wire, NEW k \in WireKind
    PROVE  Piece(line, k) \in Wire
BY DEF Piece, Wire

LEMMA AnyVersionType == AnyVersion \in Version
BY StatsMcAssumption DEF AnyVersion

LEMMA ScrapType == Scrap \in Wire /\ Scrap.kind = "FRAG"
BY LineType, AnyVersionType, StatsMcAssumption DEF Scrap, Line, WireKind

LEMMA ReplyType ==
    ASSUME NEW u \in Uri, NEW v \in Version
    PROVE  Reply(u, v) \in Seq(Wire)
<1>1. CASE u = Health
  <2>1. Line("STORED", u, v, 1) \in Wire
    BY LineType DEF WireKind
  <2> QED BY <1>1, <2>1 DEF Reply
<1>2. CASE u # Health
  <2> DEFINE line(i) == Line(IF i <= NStats[v] THEN "STAT" ELSE "END", u, v, i)
  <2>1. Reply(u, v) = [i \in 1 .. NStats[v] + 1 |-> line(i)]
    BY <1>2 DEF Reply
  <2>2. \A i \in 1 .. NStats[v] + 1 : line(i) \in Wire
    BY LineType DEF WireKind
  <2>3. NStats[v] + 1 \in Nat
    BY StatsMcAssumption
  <2> HIDE DEF line
  <2> QED BY <2>1, <2>2, <2>3, IsASeq
<1> QED BY <1>1, <1>2

LEMMA EndCutType ==
    ASSUME NEW s \in Seq(Wire), s # <<>>
    PROVE  /\ EndCut(s) \in Seq(Wire) /\ Len(EndCut(s)) = Len(s)
           /\ \A i \in 1 .. Len(s) :
                 EndCut(s)[i] = IF i = Len(s) THEN Piece(s[i], "CUT") ELSE s[i]
<1>1. Len(s) \in 1 .. Len(s) /\ s[Len(s)] \in Wire
  BY LenProperties, EmptySeq, ElementOfSeq
<1>2. Piece(s[Len(s)], "CUT") \in Wire
  BY <1>1, PieceType DEF WireKind
<1>3. EndCut(s) = [s EXCEPT ![Len(s)] = Piece(s[Len(s)], "CUT")]
  BY DEF EndCut
<1> QED BY <1>1, <1>2, <1>3, ExceptSeq

\* What memcached sends before it closes is the first lines of a reply, the last of them
\* whole or cut.
LEMMA CutReplyStarts ==
    ASSUME NEW u \in Uri, NEW s \in CutReplies(u)
    PROVE  \E v \in Version : \E k \in 0 .. Len(Reply(u, v)) - 1 :
              \/ s = SubSeq(Reply(u, v), 1, k)
              \/ /\ SubSeq(Reply(u, v), 1, k) # <<>>
                 /\ s = EndCut(SubSeq(Reply(u, v), 1, k))
BY DEF CutReplies

\* What memcached sends is a sequence of lines, and it closes or does not.
LEMMA AnswersType ==
    ASSUME NEW u \in Uri, NEW a \in Answers(u)
    PROVE  a.lines \in Seq(Wire) /\ a.eof \in BOOLEAN
<1>1. CASE \E v \in Version : a = Answer(Reply(u, v), FALSE)
  BY <1>1, ReplyType DEF Answer
<1>2. CASE \E s \in CutReplies(u) : a = Answer(s, TRUE)
  <2>1. PICK s \in CutReplies(u) : a = Answer(s, TRUE)
    BY <1>2
  <2>0. PICK v \in Version : \E k \in 0 .. Len(Reply(u, v)) - 1 :
           \/ s = SubSeq(Reply(u, v), 1, k)
           \/ /\ SubSeq(Reply(u, v), 1, k) # <<>>
              /\ s = EndCut(SubSeq(Reply(u, v), 1, k))
    BY CutReplyStarts
  <2>2. PICK k \in 0 .. Len(Reply(u, v)) - 1 :
           \/ s = SubSeq(Reply(u, v), 1, k)
           \/ /\ SubSeq(Reply(u, v), 1, k) # <<>>
              /\ s = EndCut(SubSeq(Reply(u, v), 1, k))
    BY <2>0
  <2>3. Reply(u, v) \in Seq(Wire) /\ Len(Reply(u, v)) \in Nat
    BY ReplyType, LenProperties
  <2>4. SubSeq(Reply(u, v), 1, k) \in Seq(Wire)
    BY <2>3, SubSeqProperties
  <2>5. s \in Seq(Wire)
    BY <2>2, <2>4, EndCutType
  <2> QED BY <2>1, <2>5 DEF Answer
<1>3. CASE \E k \in {"ERROR", "SERVER_ERROR"} :
              a = Answer(<<Line(k, u, AnyVersion, 1)>>, FALSE)
  <2>1. PICK k \in WireKind : a = Answer(<<Line(k, u, AnyVersion, 1)>>, FALSE)
    BY <1>3 DEF WireKind
  <2>2. Line(k, u, AnyVersion, 1) \in Wire
    BY LineType, AnyVersionType
  <2> QED BY <2>1, <2>2 DEF Answer
<1> QED BY <1>1, <1>2, <1>3 DEF Answers

\* The two entries of the health list.
LEMMA HealthStatsType ==
    ASSUME NEW alive \in BOOLEAN
    PROVE  HealthStats(alive) \in Seq(Entry)
<1>1. \A k \in EntryKind : Line(k, Health, AnyVersion, 0) \in Entry
  BY AnyVersionType, StatsMcAssumption DEF Entry, Line
<1>2. "AGE" \in EntryKind /\ (IF alive THEN "LIVE" ELSE "DEAD") \in EntryKind
  BY DEF EntryKind
<1> QED BY <1>1, <1>2 DEF HealthStats

-----------------------------------------------------------------------------
(* Each step of the connection keeps its types *)

USE DEF LinkTypeOK, SessionTypeOK

LEMMA BailType ==
    ASSUME NEW err \in Errno, Bail(err)
    PROVE  /\ sock' \in [open : BOOLEAN, eof : BOOLEAN, inbox : Seq(Wire)]
           /\ last_error' \in Errno
BY DEF Bail, NoSock

LEMMA ConnectType ==
    ASSUME LinkTypeOK, NEW err \in Errno, Connect(err), UNCHANGED stored
    PROVE  LinkTypeOK'
<1>1. NewSock \in [open : BOOLEAN, eof : BOOLEAN, inbox : Seq(Wire)]
  BY EmptySeq DEF NewSock
<1> QED BY <1>1, BailType DEF Connect

LEMMA WriteType ==
    ASSUME LinkTypeOK, NEW u \in Uri, NEW err \in Errno, Write(u, err)
    PROVE  LinkTypeOK'
<1>1. CASE Sent(u, err)
  <2>1. CASE sock.eof
    BY <1>1, <2>1 DEF Sent
  <2>2. CASE ~sock.eof
    <3>1. PICK a \in Answers(u) :
             /\ sock' = [sock EXCEPT !.inbox = @ \o a.lines, !.eof = a.eof]
             /\ stored' = IF u = Health THEN Has(a.lines, {"STORED"}) ELSE stored
      BY <1>1, <2>2 DEF Sent
    <3>2. a.lines \in Seq(Wire) /\ a.eof \in BOOLEAN
      BY AnswersType
    <3>3. sock.inbox \o a.lines \in Seq(Wire)
      BY <3>2, ConcatProperties
    <3>4. stored' \in BOOLEAN
      BY <3>1 DEF Has
    <3> QED BY <1>1, <3>1, <3>2, <3>3, <3>4 DEF Sent
  <2> QED BY <2>1, <2>2
<1>2. CASE NotSent(u, err)
  BY <1>2, BailType DEF NotSent
<1> QED BY <1>1, <1>2 DEF Write

LEMMA TakeType ==
    ASSUME LinkTypeOK, SessionTypeOK, NEW k \in 1 .. Len(sock.inbox), Take(k)
    PROVE  buf' \in Seq(Wire) /\ new_stats' \in Seq(Entry) /\ stored' \in BOOLEAN
<1>1. sock.inbox \in Seq(Wire) /\ Len(sock.inbox) \in Nat
  BY LenProperties
<1>2. SubSeq(sock.inbox, 1, k) \in Seq(Wire)
  BY <1>1, SubSeqProperties
<1> QED BY <1>2, ConcatProperties DEF Take, Received

LEMMA ConsumeType ==
    ASSUME LinkTypeOK, NEW k \in 1 .. Len(sock.inbox), Consume(k)
    PROVE  /\ sock' \in [open : BOOLEAN, eof : BOOLEAN, inbox : Seq(Wire)]
           /\ last_error' \in Errno
<1>1. sock.inbox \in Seq(Wire) /\ Len(sock.inbox) \in Nat
  BY LenProperties
<1>2. SubSeq(sock.inbox, k + 1, Len(sock.inbox)) \in Seq(Wire)
  BY <1>1, SubSeqProperties
<1> QED BY <1>2 DEF Consume

LEMMA TornType ==
    ASSUME NEW line \in Wire, NEW t \in Torn(line)
    PROVE  t[1] \in Wire /\ t[2] \in Wire
<1>1. Piece(line, "CUT") \in Wire /\ Piece(line, "ERROR") \in Wire
  BY PieceType DEF WireKind
<1>2. CASE line.kind \in {"STAT", "CUT"}
  BY <1>1, <1>2, ScrapType DEF Torn
<1>3. CASE line.kind = "SERVER_ERROR"
  BY <1>1, <1>3, ScrapType DEF Torn
<1>4. CASE line.kind \notin {"STAT", "CUT", "SERVER_ERROR"}
  BY <1>4, ScrapType DEF Torn
<1> QED BY <1>2, <1>3, <1>4

\* The first k elements of a sequence and the rest.
LEMMA Split ==
    ASSUME NEW S, NEW s \in Seq(S), NEW k \in 0 .. Len(s)
    PROVE  /\ SubSeq(s, 1, k) \in Seq(S) /\ Len(SubSeq(s, 1, k)) = k
           /\ \A i \in 1 .. k : SubSeq(s, 1, k)[i] = s[i]
           /\ SubSeq(s, k + 1, Len(s)) \in Seq(S)
           /\ Len(SubSeq(s, k + 1, Len(s))) = Len(s) - k
           /\ \A i \in 1 .. Len(s) - k : SubSeq(s, k + 1, Len(s))[i] = s[k + i]
<1>1. Len(s) \in Nat /\ \A i \in 1 .. Len(s) : s[i] \in S
  BY LenProperties, ElementOfSeq
<1>2. /\ SubSeq(s, 1, k) \in Seq(S) /\ Len(SubSeq(s, 1, k)) = IF 1 <= k THEN k - 1 + 1 ELSE 0
      /\ \A i \in 1 .. k - 1 + 1 : SubSeq(s, 1, k)[i] = s[1 + i - 1]
  BY <1>1, SubSeqProperties
<1>3. /\ SubSeq(s, k + 1, Len(s)) \in Seq(S)
      /\ Len(SubSeq(s, k + 1, Len(s)))
            = IF k + 1 <= Len(s) THEN Len(s) - (k + 1) + 1 ELSE 0
      /\ \A i \in 1 .. Len(s) - (k + 1) + 1 :
            SubSeq(s, k + 1, Len(s))[i] = s[(k + 1) + i - 1]
  BY <1>1, SubSeqProperties
<1> QED BY <1>1, <1>2, <1>3

\* x, then s
LEMMA Prepend ==
    ASSUME NEW S, NEW s \in Seq(S), NEW x \in S
    PROVE  /\ <<x>> \o s \in Seq(S) /\ Len(<<x>> \o s) = Len(s) + 1
           /\ (<<x>> \o s)[1] = x
           /\ \A i \in 1 .. Len(s) : (<<x>> \o s)[i + 1] = s[i]
<1>1. <<x>> \in Seq(S) /\ Len(<<x>>) = 1 /\ <<x>>[1] = x /\ Len(s) \in Nat
  BY LenProperties
<1> DEFINE one == <<x>>
<1> HIDE DEF one
<1>2. /\ one \o s \in Seq(S) /\ Len(one \o s) = 1 + Len(s)
      /\ \A i \in 1 .. 1 + Len(s) : (one \o s)[i] = IF i <= 1 THEN one[i] ELSE s[i - 1]
  BY <1>1, ConcatProperties DEF one
<1>3. one[1] = x
  BY <1>1 DEF one
<1>4. (one \o s)[1] = x
  BY <1>1, <1>2, <1>3
<1>5. ASSUME NEW i \in 1 .. Len(s)
      PROVE  (one \o s)[i + 1] = s[i]
  <2>1. PICK j \in 1 .. 1 + Len(s) : j = i + 1
    BY <1>1
  <2>2. (one \o s)[j] = s[j - 1] /\ j - 1 = i
    BY <1>1, <1>2, <2>1
  <2> QED BY <2>1, <2>2
<1> QED BY <1>1, <1>2, <1>4, <1>5 DEF one

\* A read() divides what is unread in two, between two lines or within the last it takes.
LEMMA ArrivalLines ==
    ASSUME NEW S, sock.inbox \in Seq(S), NEW k \in 1 .. Len(sock.inbox),
           \A t \in Torn(sock.inbox[k]) : t[1] \in S /\ t[2] \in S,
           NEW a \in Arrivals(k)
    PROVE  /\ a.got \in Seq(S) /\ a.rest \in Seq(S)
           /\ Len(a.got) = k
           /\ \A i \in 1 .. k - 1 : a.got[i] = sock.inbox[i]
           /\ \/ /\ a.got[k] = sock.inbox[k]
                 /\ Len(a.rest) = Len(sock.inbox) - k
                 /\ \A i \in 1 .. Len(a.rest) : a.rest[i] = sock.inbox[k + i]
              \/ /\ \E t \in Torn(sock.inbox[k]) : a.got[k] = t[1] /\ a.rest[1] = t[2]
                 /\ Len(a.rest) = Len(sock.inbox) - k + 1
                 /\ \A i \in 1 .. Len(sock.inbox) - k : a.rest[i + 1] = sock.inbox[k + i]
<1> DEFINE s    == sock.inbox
           head == SubSeq(s, 1, k - 1)
           rest == SubSeq(s, k + 1, Len(s))
<1>1. Len(s) \in Nat /\ k \in 0 .. Len(s) /\ k - 1 \in 0 .. Len(s) /\ k \in Nat
  BY LenProperties
<1>2. /\ head \in Seq(S) /\ Len(head) = k - 1
      /\ \A i \in 1 .. k - 1 : head[i] = s[i]
  BY <1>1, Split
<1>3. /\ rest \in Seq(S) /\ Len(rest) = Len(s) - k
      /\ \A i \in 1 .. Len(s) - k : rest[i] = s[k + i]
  BY <1>1, Split
<1>4. /\ SubSeq(s, 1, k) \in Seq(S) /\ Len(SubSeq(s, 1, k)) = k
      /\ \A i \in 1 .. k : SubSeq(s, 1, k)[i] = s[i]
  BY <1>1, Split
<1>5. \/ a = [got |-> SubSeq(s, 1, k), rest |-> rest]
      \/ \E t \in Torn(s[k]) : a = [got |-> Append(head, t[1]), rest |-> <<t[2]>> \o rest]
  BY DEF Arrivals
<1>6. CASE a = [got |-> SubSeq(s, 1, k), rest |-> rest]
  <2>1. a.got = SubSeq(s, 1, k) /\ a.rest = rest
    BY <1>6
  <2> HIDE DEF rest
  <2> QED BY <1>1, <1>3, <1>4, <2>1
<1>7. ASSUME NEW t \in Torn(s[k]), a = [got |-> Append(head, t[1]), rest |-> <<t[2]>> \o rest]
      PROVE  /\ a.got \in Seq(S) /\ a.rest \in Seq(S)
             /\ Len(a.got) = k
             /\ \A i \in 1 .. k - 1 : a.got[i] = s[i]
             /\ a.got[k] = t[1] /\ a.rest[1] = t[2]
             /\ Len(a.rest) = Len(s) - k + 1
             /\ \A i \in 1 .. Len(s) - k : a.rest[i + 1] = s[k + i]
  <2> HIDE DEF head, rest
  <2>1. t[1] \in S /\ t[2] \in S
    BY <1>7
  <2>2. a.got = Append(head, t[1]) /\ a.rest = <<t[2]>> \o rest
    BY <1>7
  <2>3. /\ Append(head, t[1]) \in Seq(S) /\ Len(Append(head, t[1])) = (k - 1) + 1
        /\ \A i \in 1 .. k - 1 : Append(head, t[1])[i] = head[i]
        /\ Append(head, t[1])[(k - 1) + 1] = t[1]
    BY <1>2, <2>1, AppendProperties
  <2>4. (k - 1) + 1 = k
    BY <1>1
  <2>5. /\ <<t[2]>> \o rest \in Seq(S) /\ Len(<<t[2]>> \o rest) = Len(rest) + 1
        /\ (<<t[2]>> \o rest)[1] = t[2]
        /\ \A i \in 1 .. Len(rest) : (<<t[2]>> \o rest)[i + 1] = rest[i]
    BY <1>3, <2>1, Prepend
  <2>6. a.got \in Seq(S) /\ Len(a.got) = k /\ a.got[k] = t[1]
    BY <2>2, <2>3, <2>4
  <2>7. \A i \in 1 .. k - 1 : a.got[i] = s[i]
    BY <1>2, <2>2, <2>3
  <2>8. a.rest \in Seq(S) /\ Len(a.rest) = Len(s) - k + 1 /\ a.rest[1] = t[2]
    BY <1>3, <2>2, <2>5
  <2>9. \A i \in 1 .. Len(s) - k : a.rest[i + 1] = s[k + i]
    BY <1>3, <2>2, <2>5
  <2> QED BY <2>6, <2>7, <2>8, <2>9
<1> HIDE DEF head, rest
<1> QED BY <1>5, <1>6, <1>7

LEMMA ArrivalsType ==
    ASSUME LinkTypeOK, NEW k \in 1 .. Len(sock.inbox), NEW a \in Arrivals(k)
    PROVE  a.got \in Seq(Wire) /\ a.rest \in Seq(Wire)
<1>1. sock.inbox \in Seq(Wire) /\ sock.inbox[k] \in Wire
  BY ElementOfSeq
<1>2. \A t \in Torn(sock.inbox[k]) : t[1] \in Wire /\ t[2] \in Wire
  BY <1>1, TornType
<1> QED BY <1>1, <1>2, ArrivalLines

LEMMA ReadBufferType ==
    ASSUME LinkTypeOK, SessionTypeOK, NEW k \in 1 .. Len(sock.inbox), ReadBuffer(k)
    PROVE  LinkTypeOK' /\ SessionTypeOK'
<1>1. PICK a \in Arrivals(k) :
         /\ buf' \in {Received(a.got), Append(Received(a.got), Scrap)}
         /\ done' = HasEnd(Received(a.got))
         /\ sock' = [sock EXCEPT !.inbox = a.rest]
  BY DEF ReadBuffer
<1>2. a.got \in Seq(Wire) /\ a.rest \in Seq(Wire)
  BY ArrivalsType
<1>3. Received(a.got) \in Seq(Wire)
  BY <1>2, ConcatProperties DEF Received
<1>4. \A data \in Seq(Wire) : Append(data, Scrap) \in Seq(Wire)
  BY ScrapType, AppendProperties
<1>5. buf' \in Seq(Wire)
  BY <1>1, <1>3, <1>4
<1>6. done' \in BOOLEAN
  BY <1>1 DEF HasEnd, Has
<1> QED BY <1>1, <1>2, <1>5, <1>6 DEF ReadBuffer

LEMMA ReadChunkType ==
    ASSUME LinkTypeOK, SessionTypeOK, NEW k \in 1 .. Len(sock.inbox),
           ReadMore(k) \/ ReadErrorReply(k)
    PROVE  LinkTypeOK' /\ SessionTypeOK'
<1>1. Take(k) /\ (Consume(k) \/ Bail("OK")) /\ done' \in BOOLEAN
  BY DEF ReadMore, ReadErrorReply
<1>2. "OK" \in Errno
  BY DEF Errno
<1> QED BY <1>1, <1>2, TakeType, ConsumeType, BailType

LEMMA ReadEndType ==
    ASSUME LinkTypeOK, SessionTypeOK, ReadEof \/ \E err \in Errno : ReadFails(err)
    PROVE  LinkTypeOK' /\ SessionTypeOK'
BY BailType DEF ReadEof, ReadFails

LEMMA ParseType ==
    ASSUME LinkTypeOK, SessionTypeOK, ParseLine \/ ParseMore \/ ParseEnd
    PROVE  LinkTypeOK' /\ SessionTypeOK'
<1>1. CASE ParseLine
  <2>1. Head(buf) \in Wire /\ Tail(buf) \in Seq(Wire)
    BY <1>1, HeadTailProperties DEF ParseLine
  <2>2. ASSUME Head(buf).kind \in {"STAT", "CUT", "FRAG"}
        PROVE  Append(new_stats, Head(buf)) \in Seq(Entry)
    <3>1. Head(buf) \in Entry
      BY <2>1, <2>2 DEF Entry, EntryKind, Wire
    <3> QED BY <3>1, AppendProperties
  <2> QED BY <1>1, <2>1, <2>2 DEF ParseLine
<1>2. CASE ParseMore
  BY <1>2 DEF ParseMore
<1>3. CASE ParseEnd
  BY <1>3 DEF ParseEnd, Errno
<1> QED BY <1>1, <1>2, <1>3

LEMMA BittenType ==
    ASSUME NEW s \in Seq(Wire)
    PROVE  /\ Bitten(s) \in Seq(Wire) /\ Len(Bitten(s)) = Len(s)
           /\ \A i \in 1 .. Len(s) : Bitten(s)[i] = IF i = 1 THEN Scrap ELSE s[i]
<1>1. CASE s = <<>>
  BY <1>1, EmptySeq DEF Bitten
<1>2. CASE s # <<>>
  <2>1. 1 \in 1 .. Len(s)
    BY <1>2, LenProperties, EmptySeq
  <2> QED BY <1>2, <2>1, ScrapType, ExceptSeq DEF Bitten
<1> QED BY <1>1, <1>2

\* The probe leaves the end of what was unread, the first line of it whole or bitten.
LEMMA LeftoversEnd ==
    ASSUME NEW s \in Seq(Wire), NEW rest \in Leftovers(s)
    PROVE  \E n \in 0 .. Len(s) :
              LET t == SubSeq(s, n + 1, Len(s))
              IN  t \in Seq(Wire) /\ Short(s, n) /\ (rest = Bitten(t) \/ (n > 0 /\ rest = t))
<1>1. Len(s) \in Nat
  BY LenProperties
<1>2. \A n \in 0 .. Len(s) : SubSeq(s, n + 1, Len(s)) \in Seq(Wire)
  BY <1>1, SubSeqProperties
<1>3. CASE rest = Bitten(s)
  <2>1. 0 \in 0 .. Len(s) /\ SubSeq(s, 0 + 1, Len(s)) = s
    BY <1>1, SubSeqFull
  <2>2. Short(s, 0)
    BY DEF Short
  <2> QED BY <1>2, <1>3, <2>1, <2>2
<1>4. ASSUME NEW n \in 1 .. Len(s), Short(s, n),
             rest \in {SubSeq(s, n + 1, Len(s)), Bitten(SubSeq(s, n + 1, Len(s)))}
      PROVE  \E m \in 0 .. Len(s) :
                LET t == SubSeq(s, m + 1, Len(s))
                IN  t \in Seq(Wire) /\ Short(s, m) /\ (rest = Bitten(t) \/ (m > 0 /\ rest = t))
  <2>1. n \in 0 .. Len(s) /\ n > 0
    BY <1>1
  <2> QED BY <1>2, <1>4, <2>1
<1> QED BY <1>3, <1>4 DEF Leftovers

LEMMA ProbeType ==
    ASSUME LinkTypeOK, SessionTypeOK, NEW alive \in BOOLEAN, ReadProbe(alive)
    PROVE  LinkTypeOK' /\ buf' \in Seq(Wire) /\ done' \in BOOLEAN
<1>1. CASE ReadStored
  <2>1. 1 \in 1 .. Len(sock.inbox)
    BY <1>1, LenProperties, EmptySeq DEF ReadStored
  <2> QED BY <1>1, <2>1, ConsumeType DEF ReadStored, ReadProbe
<1>2. CASE ReadOther
  <2>1. PICK rest \in Leftovers(sock.inbox) : sock' = [sock EXCEPT !.inbox = rest]
    BY <1>2 DEF ReadOther
  <2>2. rest \in Seq(Wire)
    BY <2>1, LeftoversEnd, BittenType
  <2> QED BY <1>2, <2>1, <2>2 DEF ReadOther, ReadProbe
<1>3. CASE ReadProbeError \/ ReadProbeFails
  BY <1>3, BailType DEF ReadProbeError, ReadProbeFails, ReadProbe, Errno
<1> QED BY <1>1, <1>2, <1>3 DEF ReadProbe

-----------------------------------------------------------------------------
(* Type correctness *)

USE DEF SharedTypeOK, PollerTypeOK, ClientTypeOK

LEMMA InitType == Init => TypeOK
<1> SUFFICES ASSUME Init PROVE TypeOK
  OBVIOUS
<1>1. LinkTypeOK /\ SessionTypeOK
  <2>1. NoSock \in [open : BOOLEAN, eof : BOOLEAN, inbox : Seq(Wire)]
    BY EmptySeq DEF NoSock
  <2>2. <<>> \in Seq(Wire) /\ <<>> \in Seq(Entry)
    BY EmptySeq
  <2> QED BY <2>1, <2>2 DEF Init, StatsMcInit, Errno
<1>2. SharedTypeOK
  <2>1. <<>> \in Seq(Entry)
    BY EmptySeq
  <2> QED BY <2>1 DEF Init, BackendState
<1>3. PollerTypeOK
  <2>1. Len(UriList) \in Nat \ {0}
    BY BackendAssumption, LenProperties, EmptySeq
  <2> QED BY <2>1, BackendAssumption DEF Init, PollerPc
<1>4. ClientTypeOK
  BY <1>3 DEF Init, ClientPc, ClientType, Told
<1> QED BY <1>1, <1>2, <1>3, <1>4 DEF TypeOK

\* One step of the poller, action by action.
LEMMA PollerStepType ==
    ASSUME TypeOK, Poller
    PROVE  TypeOK'
<1> USE BackendAssumption, StatsMcAssumption DEF TypeOK, link, session, PollerAt, PollerPc
<1>1. ClientTypeOK' /\ readers' \subseteq Client
  BY DEF Poller, clients
<1>2. Len(UriList) \in Nat /\ UriList[idx] \in Uri /\ Retries \in Nat
  BY LenProperties, ElementOfSeq
<1>3. CASE Start \/ BeginVisit \/ EnterPolling
  BY <1>1, <1>3 DEF Start, BeginVisit, EnterPolling, SetState, BackendState
<1>4. CASE IsConnected \/ ConnectDone
  BY <1>1, <1>4, ConnectType DEF IsConnected, ConnectDone, Errno
<1>5. ASSUME NEW err \in Errno, ConnectRetry(err) \/ ConnectGiveUp(err)
      PROVE  TypeOK'
  BY <1>1, <1>2, <1>5, ConnectType DEF ConnectRetry, ConnectGiveUp
<1>6. CASE SendStats \/ SendProbe
  <2>1. LinkTypeOK'
    BY <1>2, <1>6, WriteType DEF SendStats, SendProbe, Errno
  <2>2. SessionTypeOK'
    BY <1>6, EmptySeq DEF SendStats, SendProbe
  <2> QED BY <1>1, <1>6, <2>1, <2>2 DEF SendStats, SendProbe
<1>7. ASSUME NEW err \in Errno, SendStatsFails(err) \/ SendProbeFails(err)
      PROVE  TypeOK'
  <2>1. LinkTypeOK'
    BY <1>2, <1>7, WriteType DEF SendStatsFails, SendProbeFails
  <2>2. SessionTypeOK'
    BY <1>7, EmptySeq, HealthStatsType DEF SendStatsFails, SendProbeFails
  <2> QED BY <1>1, <1>7, <2>1, <2>2 DEF SendStatsFails, SendProbeFails
<1>8. CASE ReplyRead
  BY <1>1, <1>8, ReadChunkType, ReadBufferType, ReadEndType DEF ReplyRead
<1>9. CASE ReplyParsed
  BY <1>1, <1>9, ParseType DEF ReplyParsed
<1>10. ASSUME NEW alive \in BOOLEAN, ProbeRead(alive)
       PROVE  TypeOK'
  BY <1>1, <1>10, ProbeType, HealthStatsType DEF ProbeRead
<1>11. CASE LockForUpdate
  BY <1>1, <1>11 DEF LockForUpdate
<1>12. CASE RemoveOldStats
  <2>1. stats' \in [Pos -> Seq(Entry)]
    BY <1>12, EmptySeq DEF RemoveOldStats
  <2> QED BY <1>1, <1>12, <2>1 DEF RemoveOldStats
<1>13. CASE AddNewStats
  <2>1. stats[idx] \o new_stats \in Seq(Entry)
    BY ConcatProperties
  <2>2. stats' \in [Pos -> Seq(Entry)]
    BY <1>13, <2>1 DEF AddNewStats
  <2> QED BY <1>1, <1>13, <2>2 DEF AddNewStats
<1>14. CASE NextUri
  BY <1>1, <1>2, <1>14 DEF NextUri
<1>15. CASE EndRound
  <2>1. LinkTypeOK'
    BY <1>15, EmptySeq DEF EndRound, Disconnect, NoSock
  <2> QED BY <1>1, <1>15, <2>1 DEF EndRound
<1> QED BY <1>3, <1>4, <1>5, <1>6, <1>7, <1>8, <1>9, <1>10, <1>11, <1>12, <1>13,
           <1>14, <1>15 DEF Poller

\* One step of a client.
LEMMA ClientStepType ==
    ASSUME TypeOK, NEW c \in Client, ClientStep(c)
    PROVE  TypeOK'
<1> USE DEF TypeOK, ClientAt, ClientPc, Told, Leave
<1>1. LinkTypeOK' /\ SessionTypeOK' /\ PollerTypeOK'
  BY DEF ClientStep, link, session, poller
<1>2. state' \in BackendState /\ writer' \in BOOLEAN /\ stats' \in [Pos -> Seq(Entry)]
  BY DEF ClientStep
<1>3. CASE Request(c)
  <2>1. <<>> \in Seq(Entry)
    BY EmptySeq
  <2>2. cpc' \in [Client -> ClientPc] /\ told' \in [Client -> Told]
    BY <1>3 DEF Request
  <2>3. ctype' \in [Client -> ClientType] /\ cpos' \in [Client -> Pos]
    BY <1>3 DEF Request
  <2>4. page' \in [Client -> Seq(Entry)] /\ readers' \subseteq Client
    BY <1>3, <2>1 DEF Request
  <2> QED BY <1>1, <1>2, <2>2, <2>3, <2>4
<1>8. CASE RequestOther(c)
  <2>1. <<>> \in Seq(Entry)
    BY EmptySeq
  <2>2. cpc' \in [Client -> ClientPc] /\ told' \in [Client -> Told]
    BY <1>8 DEF RequestOther
  <2>3. ctype' \in [Client -> ClientType] /\ cpos' \in [Client -> Pos]
    BY <1>8 DEF RequestOther
  <2>4. page' \in [Client -> Seq(Entry)] /\ readers' \subseteq Client
    BY <1>8, <2>1 DEF RequestOther
  <2> QED BY <1>1, <1>2, <2>2, <2>3, <2>4
<1>9. CASE RefuseOther(c) \/ RefuseOtherNamed(c) \/ NameError(c)
  BY <1>1, <1>2, <1>9 DEF RefuseOther, RefuseOtherNamed, NameError
<1>4. CASE RdLock(c) \/ Serve(c)
  BY <1>1, <1>2, <1>4 DEF RdLock, Serve
<1>5. CASE RefusePlain(c) \/ RefuseNamed(c) \/ Explain(c)
  <2>1. cpc' \in [Client -> ClientPc]
    BY <1>5 DEF RefusePlain, RefuseNamed, Explain
  <2>2. told' \in [Client -> Told]
    BY <1>5 DEF RefusePlain, RefuseNamed, Explain
  <2>3. UNCHANGED <<ctype, cpos, page>> /\ readers' \subseteq Client
    BY <1>5 DEF RefusePlain, RefuseNamed, Explain
  <2> QED BY <1>1, <1>2, <2>1, <2>2, <2>3
<1>6. CASE PrintEntry(c)
  <2>1. stats[cpos[c]][Len(page[c]) + 1] \in Entry
    BY <1>6, LenProperties, ElementOfSeq DEF PrintEntry
  <2>2. Append(page[c], stats[cpos[c]][Len(page[c]) + 1]) \in Seq(Entry)
    BY <2>1, AppendProperties
  <2> QED BY <1>1, <1>2, <1>6, <2>2 DEF PrintEntry
<1>7. CASE PrintEnd(c)
  BY <1>1, <1>2, <1>7 DEF PrintEnd
<1> QED BY <1>3, <1>4, <1>5, <1>6, <1>7, <1>8, <1>9 DEF ClientStep, Answering

LEMMA NextType == TypeOK /\ [Next]_vars => TypeOK'
<1> SUFFICES ASSUME TypeOK, [Next]_vars PROVE TypeOK'
  OBVIOUS
<1>1. CASE UNCHANGED vars
  BY <1>1 DEF TypeOK, vars, link, session, shared, poller, clients
<1>2. CASE Next
  BY <1>2, PollerStepType, ClientStepType DEF Next
<1> QED BY <1>1, <1>2

\* Whatever memcached answers and clients ask, every variable keeps its type.
THEOREM TypeCorrect == Spec => []TypeOK
BY InitType, NextType, PTL DEF Spec

-----------------------------------------------------------------------------
(* The lock, and what it protects *)

\* A poller step leaves the clients and who reads; only its own sections under the
\* write lock assign the state or a list, and then nobody reads.
LEMMA PollerAlone ==
    ASSUME TypeOK, LockInv, Poller
    PROVE  /\ UNCHANGED <<clients, readers>>
           /\ state' # state \/ stats' # stats => readers = {}
<1> USE DEF PollerAt
<1>1. UNCHANGED <<clients, readers>>
  BY DEF Poller
<1>2. state' # state => readers = {}
  BY DEF Poller, Start, BeginVisit, EnterPolling, SetState, LockFree, IsConnected,
         ConnectDone, ConnectRetry, ConnectGiveUp, SendStats, SendProbe, SendStatsFails,
         SendProbeFails, ReplyRead, ReplyParsed, ProbeRead, LockForUpdate,
         RemoveOldStats, AddNewStats, NextUri, EndRound
<1>3. stats' # stats => ppc \in {"remove", "add"}
  BY DEF Poller, Start, BeginVisit, EnterPolling, SetState, IsConnected,
         ConnectDone, ConnectRetry, ConnectGiveUp, SendStats, SendProbe, SendStatsFails,
         SendProbeFails, ReplyRead, ReplyParsed, ProbeRead, LockForUpdate,
         RemoveOldStats, AddNewStats, NextUri, EndRound
<1> QED BY <1>1, <1>2, <1>3 DEF LockInv

LEMMA PollerLock ==
    ASSUME TypeOK, LockInv, UpdateInv, Poller
    PROVE  LockInv' /\ UpdateInv'
<1> USE DEF LockInv, UpdateInv, PollerAt, Reading
<1>1. UNCHANGED <<cpc, readers>>
  BY DEF Poller, clients
<1>2. CASE Start \/ BeginVisit \/ EnterPolling
  BY <1>1, <1>2 DEF Start, BeginVisit, EnterPolling, SetState
<1>3. CASE IsConnected \/ ConnectDone
  BY <1>1, <1>3 DEF IsConnected, ConnectDone
<1>4. ASSUME NEW err \in Errno, ConnectRetry(err) \/ ConnectGiveUp(err)
      PROVE  LockInv' /\ UpdateInv'
  BY <1>1, <1>4 DEF ConnectRetry, ConnectGiveUp
<1>5. CASE SendStats \/ SendProbe
  BY <1>1, <1>5 DEF SendStats, SendProbe
<1>6. ASSUME NEW err \in Errno, SendStatsFails(err) \/ SendProbeFails(err)
      PROVE  LockInv' /\ UpdateInv'
  <2>1. ppc = "send" /\ ppc' \in {"next", "lock"} /\ UNCHANGED <<state, writer, stats>>
    BY <1>6 DEF SendStatsFails, SendProbeFails
  <2> QED BY <1>1, <2>1
<1>7. CASE ReplyRead \/ ReplyParsed
  BY <1>1, <1>7 DEF ReplyRead, ReplyParsed
<1>8. ASSUME NEW alive \in BOOLEAN, ProbeRead(alive)
      PROVE  LockInv' /\ UpdateInv'
  BY <1>1, <1>8 DEF ProbeRead
<1>9. CASE LockForUpdate
  BY <1>1, <1>9 DEF LockForUpdate, LockFree
<1>10. CASE RemoveOldStats
  BY <1>1, <1>10 DEF RemoveOldStats, TypeOK
<1>11. CASE AddNewStats
  BY <1>1, <1>11 DEF AddNewStats
<1>12. CASE NextUri \/ EndRound
  BY <1>1, <1>12 DEF NextUri, EndRound
<1> QED BY <1>2, <1>3, <1>4, <1>5, <1>6, <1>7, <1>8, <1>9, <1>10, <1>11, <1>12 DEF Poller

LEMMA ClientLock ==
    ASSUME TypeOK, LockInv, UpdateInv, NEW c \in Client, ClientStep(c)
    PROVE  LockInv' /\ UpdateInv'
<1> USE DEF TypeOK, Reading, ClientAt, Leave
<1>1. UNCHANGED <<state, writer, stats, ppc, idx>>
  BY DEF ClientStep, poller
<1>2. \A d \in Client \ {c} : cpc'[d] = cpc[d]
  BY DEF ClientStep, Answering, Request, RdLock, Serve, RefusePlain, RefuseNamed, Explain,
         PrintEntry, PrintEnd, RequestOther, RefuseOther, RefuseOtherNamed, NameError
<1>3. readers' = IF Reading(c)' THEN readers \cup {c} ELSE readers \ {c}
  <2>1. CASE Request(c) \/ RequestOther(c)
    BY <2>1 DEF Request, RequestOther, LockInv
  <2>2. CASE RdLock(c)
    BY <2>2 DEF RdLock
  <2>3. CASE Serve(c) \/ RefuseNamed(c) \/ PrintEntry(c)
    BY <2>3 DEF Serve, RefuseNamed, PrintEntry, LockInv
  <2>4. CASE RefusePlain(c) \/ Explain(c) \/ PrintEnd(c)
    BY <2>4 DEF RefusePlain, Explain, PrintEnd
  <2>5. CASE RefuseOther(c) \/ RefuseOtherNamed(c) \/ NameError(c)
    BY <2>5 DEF RefuseOther, RefuseOtherNamed, NameError, LockInv
  <2> QED BY <2>1, <2>2, <2>3, <2>4, <2>5 DEF ClientStep, Answering
<1>4. readers' = {d \in Client : Reading(d)'}
  BY <1>2, <1>3 DEF LockInv
<1>5. writer => readers' = {}
  <2>1. writer => ~RdLock(c)
    BY DEF RdLock
  <2>2. ~RdLock(c) => readers' \subseteq readers
    BY DEF ClientStep, Answering, Request, Serve, RefusePlain, RefuseNamed, Explain,
           PrintEntry, PrintEnd, RequestOther, RefuseOther, RefuseOtherNamed, NameError
  <2> QED BY <2>1, <2>2 DEF LockInv
<1> QED BY <1>1, <1>4, <1>5 DEF LockInv, UpdateInv

\* Nobody writes the lists or the state while somebody reads.
LEMMA PollerKeepsPages ==
    ASSUME Inv, Poller
    PROVE  PageIntact' /\ ServingWhilePolling'
<1> SUFFICES ASSUME NEW c \in Client
             PROVE  /\ cpc'[c] = "print" =>
                          IsPrefixOf(page'[c], stats'[cpos'[c]]) /\ state' = "POLLING"
                    /\ cpc'[c] = "explain" => state' # "POLLING"
  BY DEF PageIntact, ServingWhilePolling, IsPrefixOf
<1>1. /\ UNCHANGED <<cpc, page, cpos, readers>>
      /\ state' # state \/ stats' # stats => readers = {}
  BY PollerAlone DEF Inv, clients
<1>2. CASE readers = {}
  BY <1>1, <1>2 DEF Inv, LockInv, Reading
<1>3. CASE readers # {}
  BY <1>1, <1>3 DEF Inv, PageIntact, ServingWhilePolling
<1> QED BY <1>2, <1>3

LEMMA ClientKeepsPages ==
    ASSUME Inv, NEW c \in Client, ClientStep(c)
    PROVE  PageIntact' /\ ServingWhilePolling'
<1> USE DEF TypeOK, ClientAt
<1>0. TypeOK
  BY DEF Inv
<1>1. UNCHANGED <<state, stats>>
  BY DEF ClientStep
<1>2. ASSUME NEW d \in Client \ {c}
      PROVE  cpc'[d] = cpc[d] /\ cpos'[d] = cpos[d] /\ page'[d] = page[d]
  BY <1>0 DEF ClientStep, Answering, Request, RdLock, Serve, RefusePlain, RefuseNamed,
         Explain, PrintEntry, PrintEnd, RequestOther, RefuseOther, RefuseOtherNamed,
         NameError
<1>3. /\ cpc'[c] = "print" => state = "POLLING"
      /\ cpc'[c] = "explain" => state # "POLLING"
  BY <1>0 DEF Inv, ServingWhilePolling, ClientStep, Answering, Request, RdLock, Serve,
         RefusePlain, RefuseNamed, Explain, PrintEntry, PrintEnd, RequestOther,
         RefuseOther, RefuseOtherNamed, NameError
<1>4. cpc'[c] = "print" => IsPrefixOf(page'[c], stats[cpos'[c]])
  <2>1. CASE Serve(c)
    <3>1. page'[c] = <<>>
      BY <1>0, <2>1 DEF Inv, UnprintedInv, Serve
    <3>2. cpos'[c] \in Pos /\ stats[cpos'[c]] \in Seq(Entry)
      BY <1>0, <2>1 DEF Serve
    <3> QED BY <3>1, <3>2, EmptySeq, LenProperties DEF IsPrefixOf
  <2>2. CASE PrintEntry(c)
    <3> DEFINE n == Len(page[c])
               l == stats[cpos[c]]
    <3>1. /\ page[c] \in Seq(Entry) /\ n \in Nat
          /\ l \in Seq(Entry) /\ Len(l) \in Nat /\ n + 1 <= Len(l)
      BY <1>0, <2>2, LenProperties DEF PrintEntry
    <3>2. IsPrefixOf(page[c], l)
      BY <2>2 DEF Inv, PageIntact, PrintEntry
    <3>3. page'[c] = Append(page[c], l[n + 1]) /\ cpos'[c] = cpos[c]
      BY <1>0, <2>2 DEF PrintEntry
    <3>4. l[n + 1] \in Entry
      BY <3>1, ElementOfSeq
    <3>5. /\ Len(page'[c]) = n + 1
          /\ \A i \in 1 .. n : page'[c][i] = page[c][i]
          /\ page'[c][n + 1] = l[n + 1]
      BY <3>1, <3>3, <3>4, AppendProperties
    <3> QED BY <3>1, <3>2, <3>3, <3>5 DEF IsPrefixOf
  <2>3. CASE ~Serve(c) /\ ~PrintEntry(c)
    BY <1>0, <2>3 DEF ClientStep, Answering, Request, RdLock, RefusePlain, RefuseNamed,
         Explain, PrintEnd, RequestOther, RefuseOther, RefuseOtherNamed, NameError
  <2> QED BY <2>1, <2>2, <2>3
<1>5. ASSUME NEW d \in Client
      PROVE  /\ cpc'[d] = "print" => IsPrefixOf(page'[d], stats'[cpos'[d]])
             /\ cpc'[d] = "print" => state' = "POLLING"
             /\ cpc'[d] = "explain" => state' # "POLLING"
  <2>1. CASE d = c
    BY <1>1, <1>3, <1>4, <2>1
  <2>2. CASE d # c
    BY <1>1, <1>2, <2>2 DEF Inv, PageIntact, ServingWhilePolling
  <2> QED BY <2>1, <2>2
<1> QED BY <1>5 DEF PageIntact, ServingWhilePolling, IsPrefixOf

LEMMA Unprinted == Inv /\ [Next]_vars => UnprintedInv'
<1> SUFFICES ASSUME Inv, [Next]_vars, NEW d \in Client, cpc'[d] \in {"asked", "check"}
             PROVE  page'[d] = <<>>
  BY DEF UnprintedInv
<1> USE DEF Inv, UnprintedInv, ClientAt, TypeOK
<1>1. CASE UNCHANGED clients
  BY <1>1 DEF clients
<1>2. ASSUME NEW c \in Client, ClientStep(c)
      PROVE  page'[d] = <<>>
  BY <1>2 DEF ClientStep, Answering, Request, RdLock, Serve, RefusePlain, RefuseNamed,
       Explain, PrintEntry, PrintEnd, RequestOther, RefuseOther, RefuseOtherNamed, NameError
<1> QED BY <1>1, <1>2 DEF Next, Poller, vars

LEMMA InitInv == Init => Inv
<1> SUFFICES ASSUME Init PROVE Inv
  OBVIOUS
<1>1. TypeOK
  BY InitType
<1>2. LockInv /\ UpdateInv
  BY DEF Init, LockInv, UpdateInv, Reading
<1>3. UnprintedInv /\ PageIntact /\ ServingWhilePolling
  BY DEF Init, UnprintedInv, PageIntact, ServingWhilePolling
<1> QED BY <1>1, <1>2, <1>3 DEF Inv

LEMMA NextInv == Inv /\ [Next]_vars => Inv'
<1> SUFFICES ASSUME Inv, [Next]_vars PROVE Inv'
  OBVIOUS
<1>1. TypeOK' /\ UnprintedInv'
  BY NextType, Unprinted DEF Inv
<1>2. CASE UNCHANGED vars
  BY <1>1, <1>2 DEF Inv, LockInv, UpdateInv, Reading, PageIntact, ServingWhilePolling,
       IsPrefixOf, vars, link, session, shared, poller, clients
<1>3. CASE Poller
  BY <1>1, <1>3, PollerLock, PollerKeepsPages DEF Inv
<1>4. ASSUME NEW c \in Client, ClientStep(c)
      PROVE  Inv'
  BY <1>1, <1>4, ClientLock, ClientKeepsPages DEF Inv
<1> QED BY <1>2, <1>3, <1>4 DEF Next

\* The inductive invariant of the poller, its clients and the lock between them.
THEOREM InvHolds == Spec => []Inv
BY InitInv, NextInv, PTL DEF Spec

\* A page in the making is a head of the list under its uri: no thread ever walks a
\* list that the poller is freeing or extending.
THEOREM PagesIntact == Spec => []PageIntact
<1>1. Inv => PageIntact
  BY DEF Inv
<1> QED BY <1>1, InvHolds, PTL

\* The one look at bep->state in statsCallback stays right until the answer is given.
THEOREM StateHeld == Spec => []ServingWhilePolling
<1>1. Inv => ServingWhilePolling
  BY DEF Inv
<1> QED BY <1>1, InvHolds, PTL

-----------------------------------------------------------------------------
(* The error a memcache client is told *)

\* The poller clears last_error only while the state is POLLING, or by taking a
\* socket() that failed for a connection.
LEMMA PollerKeepsError ==
    ASSUME Inv, Poller, "nosocket" \notin Fault, state # "POLLING", last_error # "OK"
    PROVE  last_error' # "OK"
<1> USE DEF PollerAt, link
<1>1. ppc \in {"start", "visit", "connect", "polling"}
  BY DEF Inv, UpdateInv, TypeOK
<1>2. CASE Start \/ BeginVisit \/ EnterPolling \/ IsConnected
  BY <1>2 DEF Start, BeginVisit, EnterPolling, IsConnected
<1>3. CASE ConnectDone
  BY <1>3 DEF ConnectDone, Connect
<1>4. ASSUME NEW err \in Errno, ConnectRetry(err) \/ ConnectGiveUp(err)
      PROVE  last_error' # "OK"
  BY <1>4 DEF ConnectRetry, ConnectGiveUp, Connect, Bail
<1>5. \/ Start \/ BeginVisit \/ EnterPolling \/ IsConnected \/ ConnectDone
      \/ \E err \in Errno : ConnectRetry(err) \/ ConnectGiveUp(err)
  BY <1>1 DEF Poller, SendStats, SendProbe, SendStatsFails, SendProbeFails, ReplyRead,
              ReplyParsed, ProbeRead, LockForUpdate, RemoveOldStats, AddNewStats,
              NextUri, EndRound
<1> QED BY <1>2, <1>3, <1>4, <1>5

LEMMA ErrorStep ==
    ASSUME Inv, ErrorNamed, [Next]_vars, "nosocket" \notin Fault
    PROVE  ErrorNamed'
<1> SUFFICES ASSUME NEW d \in Client, cpc'[d] = "explain"
             PROVE  last_error' # "OK"
  BY DEF ErrorNamed
<1>1. CASE UNCHANGED vars
  BY <1>1 DEF vars, link, clients, ErrorNamed
<1>2. CASE Poller
  <2>1. cpc[d] = "explain"
    BY <1>2 DEF Poller, clients
  <2>2. state # "POLLING" /\ last_error # "OK"
    BY <2>1 DEF Inv, ServingWhilePolling, ErrorNamed
  <2> QED BY <1>2, <2>2, PollerKeepsError
<1>3. ASSUME NEW c \in Client, ClientStep(c)
      PROVE  last_error' # "OK"
  <2> USE DEF Inv, TypeOK, ClientAt
  <2>1. last_error' = last_error
    BY <1>3 DEF ClientStep, link
  <2>2. cpc[d] = "explain" \/ last_error # "OK"
    BY <1>3 DEF ClientStep, Answering, Request, RdLock, Serve, RefusePlain, RefuseNamed,
         Explain, PrintEntry, PrintEnd, RequestOther, RefuseOther, RefuseOtherNamed,
         NameError
  <2> QED BY <2>1, <2>2 DEF ErrorNamed
<1> QED BY <1>1, <1>2, <1>3 DEF Next

\* Between clntError's two reads of last_error under the read lock the poller does not
\* clear it, though it writes it without the lock, if socket() and fcntl() do not fail:
\* a memcache client refused there is told of a real error.
THEOREM ErrorsNamed ==
    ASSUME "nosocket" \notin Fault
    PROVE  Spec => []ErrorNamed
<1>1. Init => ErrorNamed
  BY DEF Init, ErrorNamed
<1>2. Inv /\ ErrorNamed /\ [Next]_vars => ErrorNamed'
  BY ErrorStep
<1> QED BY <1>1, <1>2, InvHolds, PTL DEF Spec

-----------------------------------------------------------------------------
(* The backend implements the buffered view *)

LEMMA InitBuffered == Init => Buffered!Init
BY DEF Init, Buffered!Init, Buffered!None, Published, AnswerTo

\* A poller step switches the service, publishes one list, or is not seen.
LEMMA PollerBuffered ==
    ASSUME Inv, Poller
    PROVE  [Buffered!Next]_(Buffered!vars)
<1> USE DEF PollerAt, Buffered!vars, Buffered!Next
<1>1. Published \in [Pos -> Seq(Entry)] /\ TypeOK' /\ idx \in Pos
  BY PollerStepType DEF Inv, TypeOK, Published
<1>2. \A c \in Client : AnswerTo(c)' = AnswerTo(c)
  BY DEF Poller, clients, AnswerTo
<1>3. CASE Start \/ BeginVisit \/ EnterPolling
  <2>1. Published' = Published
    BY <1>3 DEF Start, BeginVisit, EnterPolling, SetState, session, Published
  <2>2. (state = "POLLING")' \in BOOLEAN
    OBVIOUS
  <2> QED BY <1>2, <2>1, <2>2 DEF Buffered!Switch
<1>4. CASE RemoveOldStats
  <2>1. state = "POLLING" /\ state' = state
    BY <1>4 DEF Inv, UpdateInv, RemoveOldStats
  <2>2. Published' \in [Pos -> Seq(Entry)]
    BY <1>1 DEF Published, TypeOK
  <2>3. \A q \in Pos \ {idx} : Published'[q] = Published[q]
    BY <1>1, <1>4 DEF Published, RemoveOldStats, Inv, TypeOK
  <2>4. Buffered!Publish(idx)
    BY <1>2, <2>1, <2>2, <2>3 DEF Buffered!Publish
  <2> QED BY <1>1, <2>4
<1>5. CASE AddNewStats
  <2>1. stats[idx] = <<>> /\ new_stats \in Seq(Entry) /\ stats \in [Pos -> Seq(Entry)]
    BY <1>5 DEF Inv, UpdateInv, AddNewStats, TypeOK
  <2>2. stats' = [stats EXCEPT ![idx] = new_stats]
    BY <1>5, <2>1, ConcatEmptySeq DEF AddNewStats
  <2>3. Published' = Published
    BY <1>1, <1>5, <2>1, <2>2 DEF Published, AddNewStats
  <2> QED BY <1>2, <1>5, <2>3 DEF AddNewStats
<1>6. CASE UNCHANGED <<state, stats>> /\ ppc # "add" /\ ppc' # "add"
  <2>1. Published' = Published
    BY <1>6 DEF Published
  <2> QED BY <1>2, <1>6, <2>1
<1>7. \/ Start \/ BeginVisit \/ EnterPolling \/ RemoveOldStats \/ AddNewStats
      \/ UNCHANGED <<state, stats>> /\ ppc # "add" /\ ppc' # "add"
  BY DEF Poller, IsConnected, ConnectDone, ConnectRetry, ConnectGiveUp, SendStats,
         SendProbe, SendStatsFails, SendProbeFails, ReplyRead, ReplyParsed, ProbeRead,
         LockForUpdate, NextUri, EndRound
<1> QED BY <1>3, <1>4, <1>5, <1>6, <1>7

\* A client asks, is given its list or is refused, or is not seen.
LEMMA ClientBuffered ==
    ASSUME Inv, NEW c \in Client, ClientStep(c)
    PROVE  [Buffered!Next]_(Buffered!vars)
<1> DEFINE answer == [d \in Client |-> AnswerTo(d)]
<1> USE DEF ClientAt, Buffered!vars, Buffered!Next
<1>1. TypeOK
  BY DEF Inv
<1>2. UNCHANGED <<state, Published>>
  BY DEF ClientStep, session, poller, Published
<1>3. \A d \in Client \ {c} : AnswerTo(d)' = AnswerTo(d)
  BY <1>1 DEF ClientStep, Answering, Request, RdLock, Serve, RefusePlain, RefuseNamed,
       Explain, PrintEntry, PrintEnd, RequestOther, RefuseOther, RefuseOtherNamed,
       NameError, TypeOK, AnswerTo
<1>4. answer' = [answer EXCEPT ![c] = AnswerTo(c)']
  BY <1>3
<1>5. CASE Request(c)
  <2>1. PICK p \in Pos : AnswerTo(c)' = Buffered!Waiting(p)
    BY <1>1, <1>5 DEF Request, AnswerTo, Buffered!Waiting, TypeOK
  <2>2. AnswerTo(c).kind \notin {"waiting", "unlisted"}
    BY <1>1, <1>5 DEF Request, AnswerTo, TypeOK
  <2> QED BY <1>2, <1>4, <2>1, <2>2 DEF Buffered!Ask, Buffered!Reply
<1>9. CASE RequestOther(c)
  <2>1. AnswerTo(c)' = Buffered!Unlisted
    BY <1>1, <1>9 DEF RequestOther, AnswerTo, Buffered!Unlisted, TypeOK
  <2>2. AnswerTo(c).kind \notin {"waiting", "unlisted"}
    BY <1>1, <1>9 DEF RequestOther, AnswerTo, TypeOK
  <2> QED BY <1>2, <1>4, <2>1, <2>2 DEF Buffered!Ask, Buffered!Reply
<1>10. CASE RefuseOther(c) \/ NameError(c)
  <2>1. AnswerTo(c).kind = "unlisted"
    BY <1>10 DEF RefuseOther, NameError, AnswerTo
  <2>2. AnswerTo(c)' = Buffered!Refused
    BY <1>1, <1>10 DEF RefuseOther, NameError, AnswerTo, Buffered!Refused, TypeOK, Errno
  <2> QED BY <1>2, <1>4, <2>1, <2>2 DEF Buffered!Refuse, Buffered!Reply
<1>6. CASE RdLock(c) \/ Serve(c) \/ RefuseNamed(c) \/ PrintEntry(c) \/ RefuseOtherNamed(c)
  <2>1. AnswerTo(c)' = AnswerTo(c)
    BY <1>1, <1>6 DEF RdLock, Serve, RefuseNamed, PrintEntry, RefuseOtherNamed, AnswerTo,
         TypeOK
  <2> QED BY <1>2, <1>3, <2>1
<1>7. CASE RefusePlain(c) \/ Explain(c)
  <2>1. state # "POLLING"
    BY <1>7 DEF RefusePlain, Explain, Inv, ServingWhilePolling
  <2>2. AnswerTo(c).kind = "waiting"
    BY <1>7 DEF RefusePlain, Explain, AnswerTo
  <2>3. AnswerTo(c)' = Buffered!Refused
    BY <1>1, <1>7 DEF RefusePlain, Explain, AnswerTo, Buffered!Refused, TypeOK, Errno
  <2> QED BY <1>2, <1>4, <2>1, <2>2, <2>3 DEF Buffered!Refuse, Buffered!Reply
<1>8. CASE PrintEnd(c)
  <2>1. /\ cpc[c] = "print" /\ cpc'[c] = "done" /\ told'[c] = "page" /\ page' = page
        /\ Len(page[c]) >= Len(stats[cpos[c]])
    BY <1>1, <1>8 DEF PrintEnd, TypeOK
  <2>2. state = "POLLING" /\ IsPrefixOf(page[c], stats[cpos[c]])
    BY <2>1 DEF Inv, ServingWhilePolling, PageIntact
  <2>3. ppc # "add"
    BY <2>1 DEF Inv, LockInv, Reading
  <2>4. page[c] \in Seq(Entry) /\ stats[cpos[c]] \in Seq(Entry) /\ cpos[c] \in Pos
    BY <1>1 DEF TypeOK
  <2>5. page[c] = stats[cpos[c]]
    <3>1. Len(page[c]) = Len(stats[cpos[c]])
      BY <2>1, <2>2, <2>4, LenProperties DEF IsPrefixOf
    <3> QED BY <2>2, <2>4, <3>1, SeqEqual DEF IsPrefixOf
  <2>6. AnswerTo(c) = Buffered!Waiting(cpos[c])
    BY <2>1 DEF AnswerTo, Buffered!Waiting
  <2>7. AnswerTo(c)' = Buffered!Given(Published[cpos[c]])
    BY <2>1, <2>3, <2>4, <2>5 DEF AnswerTo, Buffered!Given, Published
  <2>8. answer[c].kind = "waiting" /\ answer[c].pos = cpos[c]
    BY <2>6 DEF Buffered!Waiting
  <2>9. Buffered!Reply(c, Buffered!Given(Published[cpos[c]]))
    BY <1>2, <1>4, <2>7 DEF Buffered!Reply
  <2>10. Buffered!Deliver(c)
    BY <2>2, <2>8, <2>9 DEF Buffered!Deliver
  <2> QED BY <2>10
<1> QED BY <1>5, <1>6, <1>7, <1>8, <1>9, <1>10 DEF ClientStep, Answering

\* statsproxy keeps the promise of its README, "a buffered view": a client that gets
\* a list gets, whole, the list as published, from a backend that serves.
THEOREM ImplementsBuffered == Spec => BufferedView
<1>1. Inv /\ [Next]_vars => [Buffered!Next]_(Buffered!vars)
  <2> SUFFICES ASSUME Inv, [Next]_vars PROVE [Buffered!Next]_(Buffered!vars)
    OBVIOUS
  <2>1. CASE UNCHANGED vars
    BY <2>1 DEF vars, session, shared, poller, clients, Buffered!vars, Published, AnswerTo
  <2> QED BY <2>1, PollerBuffered, ClientBuffered DEF Next
<1> QED BY <1>1, InitBuffered, InvHolds, PTL DEF Spec, BufferedView, Buffered!Spec
=============================================================================
