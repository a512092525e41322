----------------------------- MODULE WireProofs -----------------------------
(***************************************************************************)
(* Proofs about the stream of commands and replies of a backend: which     *)
(* lists hold what memcached answered for their uri, for every list of     *)
(* uris, every size of replies and of the buffer, and every set of faults. *)
(***************************************************************************)
EXTENDS Drift, BackendProofs

-----------------------------------------------------------------------------
(* What is parsed, l, what is in the buffer, b, and what is unread, s *)

Real(w) == w.kind \in {"STAT", "CUT"}

LinesOf(u, v) == {Line(k, u, v, n) : k \in {"STAT", "CUT"}, n \in 1 .. NStats[v]}

\* only lines of one reply to u, and pieces of them
Sound(s, u, v) == \A i \in 1 .. Len(s) : s[i].kind \in {"FRAG", "END"} \/ s[i] \in LinesOf(u, v)

\* the lines of s are in order, and those of s before those of t
InOrder(s) ==
    \A i, j \in 1 .. Len(s) : i < j /\ Real(s[i]) /\ Real(s[j]) => s[i].no < s[j].no

Before(s, t) ==
    \A i \in 1 .. Len(s), j \in 1 .. Len(t) : Real(s[i]) /\ Real(t[j]) => s[i].no < t[j].no

EndLast(s) == \A i \in 1 .. Len(s) : s[i].kind = "END" => i = Len(s)

\* the first line is one of a stat, if there is more than one
Begins(b, s) ==
    Len(b) + Len(s) > 1 => (IF b # <<>> THEN b[1] ELSE s[1]).kind = "STAT"

Stream(l, b, s, u, v) ==
    /\ Sound(l, u, v) /\ ~HasEnd(l) /\ Sound(b, u, v) /\ Sound(s, u, v)
    /\ InOrder(l) /\ InOrder(b) /\ InOrder(s)
    /\ Before(l, b) /\ Before(l, s) /\ Before(b, s)
    /\ EndLast(s)

-----------------------------------------------------------------------------
(* A reply that fits the buffer, line by line *)

ReplyLine(u, v, i) == Line(IF i <= NStats[v] THEN "STAT" ELSE "END", u, v, i)

\* t is the reply, or as much of it as memcached sent
Said(t, u, v) ==
    /\ t \in Seq(Wire) /\ Len(t) <= NStats[v] + 1
    /\ \A i \in 1 .. Len(t) :
          \/ t[i] = ReplyLine(u, v, i)
          \/ i = Len(t) /\ i <= NStats[v] /\ t[i] = Line("CUT", u, v, i)

\* s is what follows the first n lines of t, or a part of it
Follows(s, n, t) ==
    n + Len(s) <= Len(t) /\ \A i \in 1 .. Len(s) : s[i] = t[n + i]

Whole(l, b, s, u, v) ==
    \E t \in Seq(Wire) :
        /\ Said(t, u, v)
        /\ Follows(l, 0, t) /\ Follows(b, Len(l), t) /\ Follows(s, Len(l) + Len(b), t)

\* an answer of one line that is no reply
Single(s, K) == Len(s) = 1 /\ s[1].kind \in K

-----------------------------------------------------------------------------
(* The inductive invariants *)

\* What is parsed, what is in the buffer and what is unread are one reply to u.
InStep(u) ==
    \E v \in Version :
        /\ Stream(new_stats, buf, sock.inbox, u, v)
        /\ Fits(v) => Whole(new_stats, buf, sock.inbox, u, v)

Refused ==
    buf = <<>> /\ new_stats = <<>> /\ Single(sock.inbox, {"ERROR", "SERVER_ERROR"})

\* Between two commands nothing is unread; during one, only its own answer is.  The first
\* buffer holds a stat, so there is a second one until END has come.
LinesInStep ==
    /\ ppc \notin {"probe", "read", "parse"} => sock.inbox = <<>>
    /\ ppc = "probe" =>
          /\ UriList[idx] = Health
          /\ sock.inbox = <<>> \/ Single(sock.inbox, {"STORED", "ERROR", "SERVER_ERROR"})
    /\ ppc = "read" =>
          \/ Refused
          \/ /\ InStep(UriList[idx])
             /\ ~HasEnd(buf)
             /\ new_stats = <<>> => Begins(buf, sock.inbox)
    /\ ppc = "parse" =>
          /\ InStep(UriList[idx])
          /\ HasEnd(buf) => done
          /\ done => sock.inbox = <<>>
          /\ done \/ new_stats # <<>> \/ (buf # <<>> /\ Head(buf).kind = "STAT")
    /\ ppc \in {"lock", "remove", "add"} /\ UriList[idx] # Health =>
          OfReply(new_stats, UriList[idx])

DriftInv == ~drift => LinesInStep

\* At the first uri of a round the connection is new, until the visit is over.
FirstInv ==
    UriList[1] # Health =>
        /\ idx = 1 /\ ppc # "next" => LinesInStep
        /\ OfReply(stats[1], UriList[1])

\* A probe's answer is on the way only after the one probe of the connection.
StoredInv ==
    Has(sock.inbox, {"STORED"}) =>
        /\ stored
        /\ \A i \in Pos : UriList[i] = Health =>
              \/ i < idx
              \/ i = idx /\ ppc \notin {"start", "visit", "connect", "polling", "send"}

\* No line of a reply becomes "liveness 1".
BuildingInv == ppc \in {"read", "parse"} => ~Has(new_stats, {"LIVE"})

ProbeInv == StoredInv /\ BuildingInv /\ HealthHonest
-----------------------------------------------------------------------------
(* Lemmas on lines *)

LEMMA LinesOfKinds ==
    ASSUME NEW u, NEW v \in Version, NEW w \in LinesOf(u, v)
    PROVE  Real(w) /\ w.no \in 1 .. NStats[v] /\ Piece(w, "CUT") \in LinesOf(u, v)
<1>1. PICK k \in {"STAT", "CUT"} : \E n \in 1 .. NStats[v] : w = Line(k, u, v, n)
  BY DEF LinesOf
<1>2. PICK n \in 1 .. NStats[v] : w = Line(k, u, v, n)
  BY <1>1
<1>3. Piece(w, "CUT") = Line("CUT", u, v, n)
  BY <1>2 DEF Piece, Line
<1>4. Line("CUT", u, v, n) \in LinesOf(u, v)
  BY DEF LinesOf
<1> QED BY <1>2, <1>3, <1>4 DEF Real, Line

\* A line of a sound stream is no error and no answer to the probe.
LEMMA SoundKinds ==
    ASSUME NEW u, NEW v \in Version, NEW s, Sound(s, u, v), NEW i \in 1 .. Len(s)
    PROVE  s[i].kind \in {"FRAG", "END", "STAT", "CUT"}
BY LinesOfKinds DEF Sound, Real

\* s, then t
LEMMA JoinedLines ==
    ASSUME NEW u, NEW v, NEW s \in Seq(Wire), NEW t \in Seq(Wire)
    PROVE  /\ s \o t \in Seq(Wire) /\ Len(s \o t) = Len(s) + Len(t)
           /\ Sound(s, u, v) /\ Sound(t, u, v) => Sound(s \o t, u, v)
           /\ InOrder(s) /\ InOrder(t) /\ Before(s, t) => InOrder(s \o t)
           /\ \A l : Before(l, s) /\ Before(l, t) => Before(l, s \o t)
           /\ \A l : Before(s, l) /\ Before(t, l) => Before(s \o t, l)
<1> DEFINE j == s \o t
<1>1. Len(s) \in Nat /\ Len(t) \in Nat
  BY LenProperties
<1>2. j \in Seq(Wire) /\ Len(j) = Len(s) + Len(t)
  BY ConcatProperties
<1>3. \A i \in 1 .. Len(s) + Len(t) : j[i] = IF i <= Len(s) THEN s[i] ELSE t[i - Len(s)]
  BY ConcatProperties
<1> HIDE DEF j
<1>4. \A i \in 1 .. Len(j) :
         \/ i \in 1 .. Len(s) /\ j[i] = s[i]
         \/ i > Len(s) /\ \E n \in 1 .. Len(t) : n = i - Len(s) /\ j[i] = t[n]
  <2> SUFFICES ASSUME NEW i \in 1 .. Len(j), i > Len(s)
               PROVE  \E n \in 1 .. Len(t) : n = i - Len(s) /\ j[i] = t[n]
    BY <1>1, <1>2, <1>3
  <2>1. i - Len(s) \in 1 .. Len(t)
    BY <1>1, <1>2
  <2>2. j[i] = t[i - Len(s)]
    BY <1>1, <1>2, <1>3
  <2> QED BY <2>1, <2>2
<1>5. Sound(s, u, v) /\ Sound(t, u, v) => Sound(j, u, v)
  BY <1>4 DEF Sound
<1>6. ASSUME InOrder(s), InOrder(t), Before(s, t)
      PROVE  InOrder(j)
  <2> SUFFICES ASSUME NEW i \in 1 .. Len(j), NEW k \in 1 .. Len(j), i < k,
                      Real(j[i]), Real(j[k])
               PROVE  j[i].no < j[k].no
    BY DEF InOrder
  <2>1. CASE k <= Len(s)
    <3>1. i \in 1 .. Len(s) /\ k \in 1 .. Len(s) /\ j[i] = s[i] /\ j[k] = s[k]
      BY <1>1, <1>2, <1>4, <2>1
    <3> QED BY <1>6, <3>1 DEF InOrder
  <2>2. CASE i <= Len(s) /\ k > Len(s)
    <3>1. i \in 1 .. Len(s) /\ j[i] = s[i]
      BY <1>1, <1>2, <1>4, <2>2
    <3>2. k > Len(s)
      BY <2>2
    <3>3. ~(k \in 1 .. Len(s))
      BY <1>1, <3>2
    <3>4. PICK n \in 1 .. Len(t) : j[k] = t[n]
      BY <1>4, <3>3
    <3> QED BY <1>6, <3>1, <3>4 DEF Before
  <2>3. CASE i > Len(s)
    <3>1. PICK m \in 1 .. Len(t) : m = i - Len(s) /\ j[i] = t[m]
      BY <1>1, <1>2, <1>4, <2>3
    <3>2. k > Len(s)
      BY <1>1, <1>2, <2>3
    <3>3. PICK n \in 1 .. Len(t) : n = k - Len(s) /\ j[k] = t[n]
      BY <1>1, <1>2, <1>4, <3>2
    <3>4. m < n
      BY <1>1, <1>2, <3>1, <3>3
    <3> QED BY <1>6, <3>1, <3>3, <3>4 DEF InOrder
  <2> QED BY <1>1, <1>2, <2>1, <2>2, <2>3
<1>7. \A l : Before(l, s) /\ Before(l, t) => Before(l, j)
  BY <1>4 DEF Before
<1>8. \A l : Before(s, l) /\ Before(t, l) => Before(j, l)
  BY <1>4 DEF Before
<1> QED BY <1>2, <1>5, <1>6, <1>7, <1>8 DEF j

\* A scrap at the end.
LEMMA ScrapLast ==
    ASSUME NEW u, NEW v, NEW s \in Seq(Wire)
    PROVE  LET t == Append(s, Scrap)
           IN  /\ t \in Seq(Wire) /\ Len(t) = Len(s) + 1
               /\ \A i \in 1 .. Len(s) : t[i] = s[i]
               /\ Sound(s, u, v) => Sound(t, u, v)
               /\ InOrder(s) => InOrder(t)
               /\ \A l : Before(l, s) => Before(l, t)
               /\ \A l : Before(s, l) => Before(t, l)
               /\ HasEnd(t) => HasEnd(s)
<1> DEFINE t == Append(s, Scrap)
<1>1. /\ t \in Seq(Wire) /\ Len(t) = Len(s) + 1 /\ Len(s) \in Nat
      /\ \A i \in 1 .. Len(s) : t[i] = s[i]
      /\ t[Len(s) + 1] = Scrap
  BY ScrapType, AppendProperties, LenProperties
<1> HIDE DEF t
<1>2. \A i \in 1 .. Len(t) : \/ i \in 1 .. Len(s) /\ t[i] = s[i]
                             \/ t[i].kind = "FRAG"
  BY <1>1, ScrapType
<1>3. \A i \in 1 .. Len(t) : Real(t[i]) => i \in 1 .. Len(s) /\ t[i] = s[i]
  BY <1>2 DEF Real
<1>4. Sound(s, u, v) => Sound(t, u, v)
  BY <1>2 DEF Sound
<1>5. InOrder(s) => InOrder(t)
  BY <1>3 DEF InOrder
<1>6. /\ \A l : Before(l, s) => Before(l, t)
      /\ \A l : Before(s, l) => Before(t, l)
  BY <1>3 DEF Before
<1>7. HasEnd(t) => HasEnd(s)
  BY <1>2 DEF HasEnd, Has
<1> QED BY <1>1, <1>4, <1>5, <1>6, <1>7 DEF t

\* The first of b, put behind l.
LEMMA HeadMoves ==
    ASSUME NEW u, NEW v, NEW l \in Seq(Entry), NEW b \in Seq(Wire), b # <<>>,
           NEW x \in Entry, x = b[1]
    PROVE  LET m == Append(l, x)
               c == Tail(b)
           IN  /\ Sound(l, u, v) /\ Sound(b, u, v) => Sound(m, u, v)
               /\ InOrder(l) /\ Before(l, b) => InOrder(m)
               /\ Before(l, b) /\ InOrder(b) => Before(m, c)
               /\ \A s : Before(l, s) /\ Before(b, s) => Before(m, s)
<1> DEFINE m == Append(l, x)
           c == Tail(b)
<1>1. /\ Len(m) = Len(l) + 1 /\ Len(l) \in Nat
      /\ \A i \in 1 .. Len(l) : m[i] = l[i]
      /\ m[Len(l) + 1] = x
  BY AppendProperties, LenProperties
<1>2. /\ Len(c) = Len(b) - 1 /\ Len(b) \in Nat \ {0}
      /\ \A i \in 1 .. Len(c) : c[i] = b[i + 1]
  BY HeadTailProperties, EmptySeq, LenProperties
<1> HIDE DEF m, c
<1>3. \A i \in 1 .. Len(m) : (i \in 1 .. Len(l) /\ m[i] = l[i]) \/ (i = Len(l) + 1 /\ m[i] = b[1])
  BY <1>1
<1>4. \A i \in 1 .. Len(c) : \E j \in 1 .. Len(b) : 1 < j /\ c[i] = b[j]
  <2> SUFFICES ASSUME NEW i \in 1 .. Len(c)
               PROVE  \E j \in 1 .. Len(b) : 1 < j /\ c[i] = b[j]
    OBVIOUS
  <2>1. PICK j \in 1 .. Len(b) : j = i + 1
    BY <1>2
  <2> QED BY <1>2, <2>1
<1>5. 1 \in 1 .. Len(b)
  BY <1>2
<1>6. Sound(l, u, v) /\ Sound(b, u, v) => Sound(m, u, v)
  BY <1>3, <1>5 DEF Sound
<1>7. InOrder(l) /\ Before(l, b) => InOrder(m)
  <2> SUFFICES ASSUME InOrder(l), Before(l, b), NEW i \in 1 .. Len(m), NEW j \in 1 .. Len(m),
                      i < j, Real(m[i]), Real(m[j])
               PROVE  m[i].no < m[j].no
    BY DEF InOrder
  <2>1. i \in 1 .. Len(l) /\ m[i] = l[i]
    BY <1>1, <1>3
  <2>2. CASE j \in 1 .. Len(l) /\ m[j] = l[j]
    BY <2>1, <2>2 DEF InOrder
  <2>3. CASE m[j] = b[1]
    BY <1>5, <2>1, <2>3 DEF Before
  <2> QED BY <1>3, <2>2, <2>3
<1>8. Before(l, b) /\ InOrder(b) => Before(m, c)
  <2> SUFFICES ASSUME Before(l, b), InOrder(b), NEW i \in 1 .. Len(m), NEW n \in 1 .. Len(c),
                      Real(m[i]), Real(c[n])
               PROVE  m[i].no < c[n].no
    BY DEF Before
  <2>1. PICK j \in 1 .. Len(b) : 1 < j /\ c[n] = b[j]
    BY <1>4
  <2>2. CASE i \in 1 .. Len(l) /\ m[i] = l[i]
    BY <2>1, <2>2 DEF Before
  <2>3. CASE m[i] = b[1]
    BY <1>5, <2>1, <2>3 DEF InOrder
  <2> QED BY <1>3, <2>2, <2>3
<1>9. \A s : Before(l, s) /\ Before(b, s) => Before(m, s)
  BY <1>3, <1>5 DEF Before
<1> QED BY <1>6, <1>7, <1>8, <1>9 DEF m, c

\* What is left of b.
LEMMA TailLines ==
    ASSUME NEW u, NEW v, NEW b \in Seq(Wire), b # <<>>
    PROVE  LET c == Tail(b)
           IN  /\ c \in Seq(Wire) /\ Len(c) = Len(b) - 1 /\ Head(b) = b[1] /\ b[1] \in Wire
               /\ Sound(b, u, v) => Sound(c, u, v)
               /\ InOrder(b) => InOrder(c)
               /\ \A l : Before(l, b) => Before(l, c)
               /\ \A l : Before(b, l) => Before(c, l)
               /\ HasEnd(c) => HasEnd(b)
<1> DEFINE c == Tail(b)
<1>1. /\ c \in Seq(Wire) /\ Len(c) = Len(b) - 1 /\ Len(b) \in Nat \ {0}
      /\ Head(b) = b[1] /\ b[1] \in Wire
      /\ \A i \in 1 .. Len(c) : c[i] = b[i + 1]
  BY HeadTailProperties, EmptySeq, LenProperties, ElementOfSeq
<1> HIDE DEF c
<1>2. \A i \in 1 .. Len(c) : \E j \in 1 .. Len(b) : j = i + 1 /\ c[i] = b[j]
  <2> SUFFICES ASSUME NEW i \in 1 .. Len(c)
               PROVE  \E j \in 1 .. Len(b) : j = i + 1 /\ c[i] = b[j]
    OBVIOUS
  <2>1. PICK j \in 1 .. Len(b) : j = i + 1
    BY <1>1
  <2> QED BY <1>1, <2>1
<1>3. Sound(b, u, v) => Sound(c, u, v)
  BY <1>2 DEF Sound
<1>4. InOrder(b) => InOrder(c)
  <2> SUFFICES ASSUME InOrder(b), NEW i \in 1 .. Len(c), NEW n \in 1 .. Len(c), i < n,
                      Real(c[i]), Real(c[n])
               PROVE  c[i].no < c[n].no
    BY DEF InOrder
  <2>1. PICK j \in 1 .. Len(b) : j = i + 1 /\ c[i] = b[j]
    BY <1>2
  <2>2. PICK m \in 1 .. Len(b) : m = n + 1 /\ c[n] = b[m]
    BY <1>2
  <2>3. j < m
    BY <2>1, <2>2
  <2> QED BY <2>1, <2>2, <2>3 DEF InOrder
<1>5. /\ \A l : Before(l, b) => Before(l, c)
      /\ \A l : Before(b, l) => Before(c, l)
  BY <1>2 DEF Before
<1>6. HasEnd(c) => HasEnd(b)
  BY <1>2 DEF HasEnd, Has
<1> QED BY <1>1, <1>3, <1>4, <1>5, <1>6 DEF c

USE DEF LinkTypeOK, SessionTypeOK

\* one piece of w at most is a line, and then it is w, with the same value or another
Pieces(t, w, u, v) ==
    /\ \A x \in {t[1], t[2]} :
          x.kind = "FRAG" \/ (x \in LinesOf(u, v) /\ Real(w) /\ x.no = w.no)
    /\ t[1].kind = "FRAG" \/ t[2].kind = "FRAG"

LEMMA TornLine ==
    ASSUME NEW u, NEW v \in Version, NEW w \in Wire,
           w.kind \in {"FRAG", "END"} \/ w \in LinesOf(u, v), NEW t \in Torn(w)
    PROVE  Pieces(t, w, u, v)
<1> USE DEF Pieces
<1>1. CASE w.kind \in {"FRAG", "END"}
  <2>1. t = <<Scrap, Scrap>>
    BY <1>1 DEF Torn
  <2> QED BY <2>1, ScrapType
<1>2. CASE w \in LinesOf(u, v)
  <2>1. Real(w) /\ Piece(w, "CUT") \in LinesOf(u, v)
    BY <1>2, LinesOfKinds
  <2>2. Piece(w, "CUT").no = w.no
    BY DEF Piece, Wire
  <2>3. t \in {<<w, Scrap>>, <<Piece(w, "CUT"), Scrap>>, <<Scrap, w>>, <<Scrap, Scrap>>}
    BY <2>1 DEF Torn, Real
  <2> QED BY <1>2, <2>1, <2>2, <2>3, ScrapType
<1> QED BY <1>1, <1>2

\* g and r are the parts of s before and after its k-th line; d is 1 if that is torn.
Parts(g, r, s, k, d) ==
    /\ Len(g) = k
    /\ \A i \in 1 .. k : Real(g[i]) => Real(s[i]) /\ g[i].no = s[i].no
    /\ \A i \in 1 .. Len(r) : \E j \in 1 .. Len(s) :
          j = k + i - d /\ (Real(r[i]) => Real(s[j]) /\ r[i].no = s[j].no)
    /\ d = 1 => ~(Real(g[k]) /\ Real(r[1]))

\* The parts are in order as the whole is.
LEMMA Divided ==
    ASSUME NEW s \in Seq(Wire), NEW g, NEW r, NEW k \in 1 .. Len(s), NEW d \in {0, 1},
           Len(r) \in Nat, Parts(g, r, s, k, d), InOrder(s)
    PROVE  /\ InOrder(g) /\ InOrder(r) /\ Before(g, r)
           /\ \A l : Before(l, s) => Before(l, g) /\ Before(l, r)
<1>1. Len(s) \in Nat /\ k \in Nat
  BY LenProperties
<1> USE DEF Parts
<1>2. InOrder(g)
  <2>1. \A i \in 1 .. Len(g) : i \in 1 .. Len(s) /\ i \in 1 .. k
    BY <1>1
  <2> QED BY <2>1 DEF InOrder
<1>3. InOrder(r)
  <2> SUFFICES ASSUME NEW i \in 1 .. Len(r), NEW n \in 1 .. Len(r), i < n,
                      Real(r[i]), Real(r[n])
               PROVE  r[i].no < r[n].no
    BY DEF InOrder
  <2>1. PICK j \in 1 .. Len(s) : j = k + i - d /\ Real(s[j]) /\ r[i].no = s[j].no
    OBVIOUS
  <2>2. PICK m \in 1 .. Len(s) : m = k + n - d /\ Real(s[m]) /\ r[n].no = s[m].no
    OBVIOUS
  <2>3. j < m
    BY <1>1, <2>1, <2>2
  <2> QED BY <2>1, <2>2, <2>3 DEF InOrder
<1>4. Before(g, r)
  <2> SUFFICES ASSUME NEW i \in 1 .. Len(g), NEW n \in 1 .. Len(r), Real(g[i]), Real(r[n])
               PROVE  g[i].no < r[n].no
    BY DEF Before
  <2>1. i \in 1 .. k /\ i \in 1 .. Len(s) /\ Real(s[i]) /\ g[i].no = s[i].no
    BY <1>1
  <2>2. PICK m \in 1 .. Len(s) : m = k + n - d /\ Real(s[m]) /\ r[n].no = s[m].no
    OBVIOUS
  <2>3. ~(d = 1 /\ i = k /\ n = 1)
    OBVIOUS
  <2>4. i < m
    BY <1>1, <2>1, <2>2, <2>3
  <2> QED BY <2>1, <2>2, <2>4 DEF InOrder
<1>5. ASSUME NEW l, Before(l, s)
      PROVE  Before(l, g) /\ Before(l, r)
  <2>1. \A i \in 1 .. Len(g) : i \in 1 .. Len(s) /\ i \in 1 .. k
    BY <1>1
  <2>2. Before(l, g)
    BY <1>5, <2>1 DEF Before
  <2>3. \A i \in 1 .. Len(r) : Real(r[i]) =>
           \E j \in 1 .. Len(s) : Real(s[j]) /\ r[i].no = s[j].no
    OBVIOUS
  <2>4. Before(l, r)
    BY <1>5, <2>3 DEF Before
  <2> QED BY <2>2, <2>4
<1> QED BY <1>2, <1>3, <1>4, <1>5

\* What a read() takes of a stream in step, and what it leaves.
LEMMA ArrivalsInStep ==
    ASSUME LinkTypeOK, NEW u, NEW v \in Version, Sound(sock.inbox, u, v),
           InOrder(sock.inbox), EndLast(sock.inbox),
           NEW k \in 1 .. Len(sock.inbox), NEW a \in Arrivals(k)
    PROVE  /\ a.got \in Seq(Wire) /\ a.rest \in Seq(Wire) /\ Len(a.got) = k
           /\ \A i \in 1 .. k - 1 : a.got[i] = sock.inbox[i]
           /\ Sound(a.got, u, v) /\ Sound(a.rest, u, v)
           /\ InOrder(a.got) /\ InOrder(a.rest) /\ Before(a.got, a.rest)
           /\ \A l : Before(l, sock.inbox) => Before(l, a.got) /\ Before(l, a.rest)
           /\ EndLast(a.rest)
           /\ HasEnd(a.got) => /\ k = Len(sock.inbox) /\ a.rest = <<>>
                               /\ \A i \in 1 .. k : a.got[i] = sock.inbox[i]
<1> DEFINE s == sock.inbox
           g == a.got
           r == a.rest
           Whole0 == /\ g[k] = s[k]
                     /\ Len(r) = Len(s) - k
                     /\ \A i \in 1 .. Len(r) : r[i] = s[k + i]
           Torn1(t) == /\ g[k] = t[1] /\ r[1] = t[2]
                       /\ Len(r) = Len(s) - k + 1
                       /\ \A i \in 1 .. Len(s) - k : r[i + 1] = s[k + i]
<1>1. s \in Seq(Wire) /\ Len(s) \in Nat /\ k \in Nat /\ s[k] \in Wire
  BY LenProperties, ElementOfSeq
<1>2. \A t \in Torn(s[k]) : t[1] \in Wire /\ t[2] \in Wire
  BY <1>1, TornType
<1>3. /\ g \in Seq(Wire) /\ r \in Seq(Wire) /\ Len(g) = k
      /\ \A i \in 1 .. k - 1 : g[i] = s[i]
      /\ Whole0 \/ \E t \in Torn(s[k]) : Torn1(t)
  BY <1>1, <1>2, ArrivalLines
<1>4. Len(r) \in Nat
  BY <1>3, LenProperties
<1> HIDE DEF g, r
<1>5. CASE Whole0
  <2>1. \A i \in 1 .. k : g[i] = s[i]
    BY <1>1, <1>3, <1>5
  <2>2. \A i \in 1 .. Len(r) : \E j \in 1 .. Len(s) : j = k + i - 0 /\ r[i] = s[j]
    <3> SUFFICES ASSUME NEW i \in 1 .. Len(r)
                 PROVE  \E j \in 1 .. Len(s) : j = k + i - 0 /\ r[i] = s[j]
      OBVIOUS
    <3>1. PICK j \in 1 .. Len(s) : j = k + i
      BY <1>1, <1>5
    <3>2. r[i] = s[k + i] /\ j = k + i - 0
      BY <1>1, <1>5, <3>1
    <3> QED BY <3>1, <3>2
  <2>3. /\ InOrder(g) /\ InOrder(r) /\ Before(g, r)
        /\ \A l : Before(l, s) => Before(l, g) /\ Before(l, r)
    <3>1. 0 \in {0, 1}
      OBVIOUS
    <3>2. Parts(g, r, s, k, 0)
      BY <1>3, <2>1, <2>2 DEF Parts
    <3> QED BY <1>1, <1>4, <3>1, <3>2, Divided
  <2>4. Sound(g, u, v)
    <3>1. \A i \in 1 .. Len(g) : i \in 1 .. Len(s) /\ g[i] = s[i]
      BY <1>1, <1>3, <2>1
    <3> QED BY <3>1 DEF Sound
  <2>5. Sound(r, u, v)
    BY <2>2 DEF Sound
  <2>6. EndLast(r)
    BY <1>1, <1>4, <1>5, <2>2 DEF EndLast
  <2>7. ASSUME HasEnd(g)
        PROVE  k = Len(s) /\ r = <<>>
    <3>1. PICK i \in 1 .. k : s[i].kind = "END"
      BY <1>3, <2>1, <2>7 DEF HasEnd, Has
    <3>2. i \in 1 .. Len(s)
      BY <1>1
    <3>3. i = Len(s)
      BY <3>1, <3>2 DEF EndLast
    <3>4. k = Len(s) /\ Len(r) = 0
      BY <1>1, <1>4, <1>5, <3>3
    <3> QED BY <1>3, <3>4, EmptySeq
  <2> QED BY <1>3, <2>1, <2>3, <2>4, <2>5, <2>6, <2>7 DEF g, r
<1>6. ASSUME NEW t \in Torn(s[k]), Torn1(t)
      PROVE  /\ Sound(g, u, v) /\ Sound(r, u, v)
             /\ InOrder(g) /\ InOrder(r) /\ Before(g, r)
             /\ \A l : Before(l, s) => Before(l, g) /\ Before(l, r)
             /\ EndLast(r) /\ ~HasEnd(g)
  <2>0. s[k].kind \in {"FRAG", "END"} \/ s[k] \in LinesOf(u, v)
    BY DEF Sound
  <2> DEFINE w == s[k]
  <2>a. w \in Wire /\ t \in Torn(w)
    BY <1>1
  <2> HIDE DEF w
  <2>b. w.kind \in {"FRAG", "END"} \/ w \in LinesOf(u, v)
    BY <2>0 DEF w
  <2>c. Pieces(t, w, u, v)
    BY <2>a, <2>b, TornLine
  <2>1. \A x \in {t[1], t[2]} :
           x.kind = "FRAG" \/ (x \in LinesOf(u, v) /\ Real(s[k]) /\ x.no = s[k].no)
    BY <2>c DEF w, Pieces
  <2>2. t[1].kind = "FRAG" \/ t[2].kind = "FRAG"
    BY <2>c DEF Pieces
  <2>3. g[k] = t[1] /\ r[1] = t[2]
    BY <1>6
  <2>4. \A x \in {g[k], r[1]} :
           /\ x.kind = "FRAG" \/ x \in LinesOf(u, v)
           /\ Real(x) => Real(s[k]) /\ x.no = s[k].no
           /\ x.kind # "END"
    BY <2>1, <2>3, LinesOfKinds DEF Real
  <2>5. \A i \in 1 .. k : (i < k /\ g[i] = s[i]) \/ i = k
    BY <1>1, <1>3
  <2>6. \A i \in 1 .. k : Real(g[i]) => Real(s[i]) /\ g[i].no = s[i].no
    BY <2>4, <2>5
  <2>7. \A i \in 1 .. Len(r) : \E j \in 1 .. Len(s) : j = k + i - 1 /\ (i = 1 \/ r[i] = s[j])
    <3> SUFFICES ASSUME NEW i \in 1 .. Len(r)
                 PROVE  \E j \in 1 .. Len(s) : j = k + i - 1 /\ (i = 1 \/ r[i] = s[j])
      OBVIOUS
    <3>1. PICK j \in 1 .. Len(s) : j = k + i - 1
      BY <1>1, <1>6
    <3>2. CASE i = 1
      BY <3>1, <3>2
    <3>3. CASE i # 1
      <4>1. PICK n \in 1 .. Len(s) - k : n = i - 1
        BY <1>1, <1>6, <3>3
      <4>2. n + 1 = i /\ k + n = j
        BY <1>1, <3>1, <4>1
      <4>3. r[n + 1] = s[k + n]
        BY <1>6
      <4> QED BY <3>1, <4>2, <4>3
    <3> QED BY <3>2, <3>3
  <2>8. \A i \in 1 .. Len(r) : \E j \in 1 .. Len(s) :
           j = k + i - 1 /\ (Real(r[i]) => Real(s[j]) /\ r[i].no = s[j].no)
    <3> SUFFICES ASSUME NEW i \in 1 .. Len(r)
                 PROVE  \E j \in 1 .. Len(s) :
                           j = k + i - 1 /\ (Real(r[i]) => Real(s[j]) /\ r[i].no = s[j].no)
      OBVIOUS
    <3>1. PICK j \in 1 .. Len(s) : j = k + i - 1 /\ (i = 1 \/ r[i] = s[j])
      BY <2>7
    <3>2. i = 1 => j = k
      BY <1>1, <3>1
    <3> QED BY <2>4, <3>1, <3>2
  <2>9. ~(Real(g[k]) /\ Real(r[1]))
    BY <2>2, <2>3 DEF Real
  <2>10. /\ InOrder(g) /\ InOrder(r) /\ Before(g, r)
         /\ \A l : Before(l, s) => Before(l, g) /\ Before(l, r)
    <3>1. 1 \in {0, 1}
      OBVIOUS
    <3>2. Parts(g, r, s, k, 1)
      BY <1>3, <2>6, <2>8, <2>9 DEF Parts
    <3> QED BY <1>1, <1>4, <3>1, <3>2, Divided
  <2>11. Sound(g, u, v)
    <3>1. \A i \in 1 .. Len(g) : i \in 1 .. Len(s) /\ (g[i] = s[i] \/ i = k)
      BY <1>1, <1>3, <2>5
    <3> QED BY <2>4, <3>1 DEF Sound
  <2>12. Sound(r, u, v)
    BY <2>4, <2>7 DEF Sound
  <2>13. EndLast(r)
    <3> SUFFICES ASSUME NEW i \in 1 .. Len(r), r[i].kind = "END" PROVE i = Len(r)
      BY DEF EndLast
    <3>1. i # 1
      BY <2>4
    <3>2. PICK j \in 1 .. Len(s) : j = k + i - 1 /\ r[i] = s[j]
      BY <2>7, <3>1
    <3>3. j = Len(s)
      BY <3>2 DEF EndLast
    <3>4. Len(r) = Len(s) - k + 1
      BY <1>6
    <3> QED BY <1>1, <1>4, <3>2, <3>3, <3>4
  <2>14. ~HasEnd(g)
    <3> SUFFICES ASSUME NEW i \in 1 .. k, g[i].kind = "END" PROVE FALSE
      BY <1>3 DEF HasEnd, Has
    <3>1. i < k /\ s[i].kind = "END"
      BY <2>4, <2>5
    <3>2. i \in 1 .. Len(s)
      BY <1>1
    <3>3. i = Len(s)
      BY <3>1, <3>2 DEF EndLast
    <3> QED BY <1>1, <3>1, <3>3
  <2> QED BY <2>10, <2>11, <2>12, <2>13, <2>14
<1> QED BY <1>3, <1>5, <1>6 DEF g, r
-----------------------------------------------------------------------------
(* Lemmas on replies that fit *)

\* The lines of a reply.
LEMMA SaidLines ==
    ASSUME NEW u \in Uri, NEW v \in Version, NEW t, Said(t, u, v), NEW i \in 1 .. Len(t)
    PROVE  /\ t[i].no = i
           /\ \/ t[i] \in LinesOf(u, v) /\ t[i].kind = "STAT" /\ i <= NStats[v]
              \/ t[i] \in LinesOf(u, v) /\ t[i].kind = "CUT" /\ i = Len(t) /\ i <= NStats[v]
              \/ t[i].kind = "END" /\ i = NStats[v] + 1 /\ i = Len(t)
<1>1. Len(t) \in Nat /\ NStats[v] \in Nat /\ Len(t) <= NStats[v] + 1 /\ i \in Nat
  BY LenProperties, StatsMcAssumption DEF Said
<1>2. CASE i <= NStats[v] /\ t[i] = ReplyLine(u, v, i)
  <2>1. t[i] = Line("STAT", u, v, i) /\ i \in 1 .. NStats[v]
    BY <1>1, <1>2 DEF ReplyLine
  <2>2. t[i] \in LinesOf(u, v)
    BY <2>1 DEF LinesOf
  <2> QED BY <1>2, <2>1, <2>2 DEF Line
<1>3. CASE i > NStats[v] /\ t[i] = ReplyLine(u, v, i)
  BY <1>1, <1>3 DEF ReplyLine, Line
<1>4. CASE i = Len(t) /\ i <= NStats[v] /\ t[i] = Line("CUT", u, v, i)
  <2>1. t[i] \in LinesOf(u, v)
    BY <1>1, <1>4 DEF LinesOf
  <2> QED BY <1>4, <2>1 DEF Line
<1> QED BY <1>1, <1>2, <1>3, <1>4 DEF Said

\* Nothing of a reply has arrived yet.
LEMMA SaidInStep ==
    ASSUME NEW u \in Uri, NEW v \in Version, NEW t, Said(t, u, v)
    PROVE  /\ Stream(<<>>, <<>>, t, u, v) /\ Whole(<<>>, <<>>, t, u, v)
           /\ Begins(<<>>, t)
<1>1. t \in Seq(Wire) /\ Len(t) \in Nat /\ NStats[v] \in Nat \ {0}
  BY LenProperties, StatsMcAssumption DEF Said
<1> DEFINE e == <<>>
<1>2. Len(e) = 0 /\ e \in Seq(Wire) /\ (\A i \in 1 .. Len(e) : FALSE) /\ e = <<>>
  BY EmptySeq
<1> HIDE DEF e
<1>3. /\ Sound(e, u, v) /\ ~HasEnd(e) /\ InOrder(e) /\ EndLast(e)
      /\ \A l : Before(l, e) /\ Before(e, l)
  BY <1>2 DEF Sound, HasEnd, Has, InOrder, EndLast, Before
<1>4. Sound(t, u, v) /\ EndLast(t)
  BY SaidLines DEF Sound, EndLast
<1>5. InOrder(t)
  BY SaidLines DEF InOrder
<1>6. Whole(e, e, t, u, v)
  <2>1. Follows(e, 0, t) /\ Follows(e, Len(e), t)
    BY <1>1, <1>2 DEF Follows
  <2>2. Follows(t, Len(e) + Len(e), t)
    BY <1>1, <1>2 DEF Follows
  <2> QED BY <1>1, <2>1, <2>2 DEF Whole
<1>7. ASSUME Len(t) > 1
      PROVE  t[1].kind = "STAT"
  <2> DEFINE n == Len(t)
  <2>0. n \in Nat /\ n > 1
    BY <1>1, <1>7
  <2> HIDE DEF n
  <2>1. PICK i \in 1 .. n : i = 1 /\ i # n
    BY <2>0
  <2>2. i # Len(t) /\ i \in 1 .. Len(t)
    BY <2>1 DEF n
  <2>3. t[i].kind # "END"
    BY <2>2, SaidLines
  <2>4. t[i].kind = "STAT"
    BY <2>2, <2>3, SaidLines
  <2> QED BY <2>1, <2>4
<1>8. Begins(e, t)
  BY <1>1, <1>2, <1>7 DEF Begins
<1> QED BY <1>3, <1>4, <1>5, <1>6, <1>8 DEF Stream, e

LEMMA FollowsJoin ==
    ASSUME NEW s \in Seq(Wire), NEW g \in Seq(Wire), NEW n \in Nat, NEW t,
           Follows(s, n, t), Follows(g, n + Len(s), t)
    PROVE  Follows(s \o g, n, t)
<1>1. Len(s) \in Nat /\ Len(g) \in Nat
  BY LenProperties
<1>2. /\ Len(s \o g) = Len(s) + Len(g)
      /\ \A i \in 1 .. Len(s) + Len(g) :
            (s \o g)[i] = IF i <= Len(s) THEN s[i] ELSE g[i - Len(s)]
  BY ConcatProperties
<1>3. ASSUME NEW i \in 1 .. Len(s) + Len(g)
      PROVE  (s \o g)[i] = t[n + i]
  <2>1. CASE i <= Len(s)
    BY <1>1, <1>2, <2>1 DEF Follows
  <2>2. CASE i > Len(s)
    <3>1. i - Len(s) \in 1 .. Len(g) /\ (n + Len(s)) + (i - Len(s)) = n + i
      BY <1>1, <2>2
    <3>2. g[i - Len(s)] = t[(n + Len(s)) + (i - Len(s))]
      BY <3>1 DEF Follows
    <3> QED BY <1>1, <1>2, <2>2, <3>1, <3>2
  <2> QED BY <1>1, <2>1, <2>2
<1>4. n + Len(s \o g) <= Len(t)
  BY <1>1, <1>2 DEF Follows
<1> QED BY <1>2, <1>3, <1>4 DEF Follows

\* The next k lines of a reply go to the buffer.
LEMMA WholeRead ==
    ASSUME NEW u, NEW v, NEW l \in Seq(Entry), NEW b \in Seq(Wire), NEW s \in Seq(Wire),
           Whole(l, b, s, u, v), NEW k \in 0 .. Len(s),
           NEW g \in Seq(Wire), NEW r \in Seq(Wire),
           Len(g) = k, \A i \in 1 .. k : g[i] = s[i],
           Len(r) = Len(s) - k, \A i \in 1 .. Len(s) - k : r[i] = s[k + i]
    PROVE  Whole(l, b \o g, r, u, v)
<1>0. Len(s) \in Nat /\ k \in Nat /\ k <= Len(s)
  BY LenProperties
<1>1. Len(l) \in Nat /\ Len(b) \in Nat /\ Len(b \o g) = Len(b) + k
  BY LenProperties, ConcatProperties
<1>2. PICK t \in Seq(Wire) :
         /\ Said(t, u, v)
         /\ Follows(l, 0, t) /\ Follows(b, Len(l), t) /\ Follows(s, Len(l) + Len(b), t)
  BY DEF Whole
<1>3. Len(t) \in Nat
  BY LenProperties
<1>4. Follows(g, Len(l) + Len(b), t)
  <2>1. \A i \in 1 .. Len(g) : i \in 1 .. Len(s) /\ g[i] = s[i]
    BY <1>0
  <2>2. \A i \in 1 .. Len(g) : g[i] = t[(Len(l) + Len(b)) + i]
    BY <1>2, <2>1 DEF Follows
  <2>3. (Len(l) + Len(b)) + Len(s) <= Len(t)
    BY <1>2 DEF Follows
  <2>4. (Len(l) + Len(b)) + Len(g) <= Len(t)
    BY <1>0, <1>1, <1>3, <2>3
  <2> QED BY <2>2, <2>4 DEF Follows
<1>5. Follows(b \o g, Len(l), t)
  BY <1>1, <1>2, <1>4, FollowsJoin
<1>6. Follows(r, Len(l) + Len(b \o g), t)
  <2>1. ASSUME NEW i \in 1 .. Len(s) - k
        PROVE  r[i] = t[(Len(l) + (Len(b) + k)) + i]
    <3>1. PICK j \in 1 .. Len(s) : j = k + i
      BY <1>0
    <3>2. r[i] = s[j]
      BY <3>1
    <3>3. s[j] = t[(Len(l) + Len(b)) + j]
      BY <1>2 DEF Follows
    <3>4. (Len(l) + Len(b)) + j = (Len(l) + (Len(b) + k)) + i
      BY <1>0, <1>1, <3>1
    <3> QED BY <3>2, <3>3, <3>4
  <2>2. (Len(l) + (Len(b) + k)) + Len(r) <= Len(t)
    BY <1>0, <1>1, <1>2, <1>3 DEF Follows
  <2> QED BY <1>1, <2>1, <2>2 DEF Follows
<1> QED BY <1>2, <1>5, <1>6 DEF Whole

\* The first line of the buffer is parsed.
LEMMA WholeParsed ==
    ASSUME NEW u \in Uri, NEW v \in Version, NEW l \in Seq(Entry), NEW b \in Seq(Wire),
           NEW s \in Seq(Wire), b # <<>>, Whole(l, b, s, u, v)
    PROVE  /\ b[1].kind \in {"STAT", "CUT"} =>
                 \A x \in Entry : x = b[1] => Whole(Append(l, x), Tail(b), s, u, v)
           /\ b[1].kind \notin {"STAT", "CUT"} =>
                 b[1].kind = "END" /\ Whole(l, Tail(b), s, u, v)
<1>1. /\ Len(l) \in Nat /\ Len(b) \in Nat \ {0} /\ Len(s) \in Nat /\ NStats[v] \in Nat
      /\ Len(Tail(b)) = Len(b) - 1 /\ \A i \in 1 .. Len(Tail(b)) : Tail(b)[i] = b[i + 1]
  BY LenProperties, EmptySeq, HeadTailProperties, StatsMcAssumption
<1>2. PICK t \in Seq(Wire) :
         /\ Said(t, u, v)
         /\ Follows(l, 0, t) /\ Follows(b, Len(l), t) /\ Follows(s, Len(l) + Len(b), t)
  BY DEF Whole
<1>3. Len(t) \in Nat
  BY LenProperties
<1>4. /\ Len(l) + 1 \in 1 .. Len(t) /\ b[1] = t[Len(l) + 1]
      /\ (Len(l) + Len(b)) + Len(s) <= Len(t)
  BY <1>1, <1>2, <1>3 DEF Follows
<1>5. ASSUME NEW x \in Entry, x = b[1]
      PROVE  Whole(Append(l, x), Tail(b), s, u, v)
  <2> DEFINE m == Append(l, x)
  <2>1. /\ Len(m) = Len(l) + 1
        /\ \A i \in 1 .. Len(l) : m[i] = l[i]
        /\ m[Len(l) + 1] = x
    BY AppendProperties
  <2> HIDE DEF m
  <2>2. Follows(m, 0, t)
    <3>1. ASSUME NEW i \in 1 .. Len(l) + 1
          PROVE  m[i] = t[0 + i]
      <4>1. 0 + i = i
        BY <1>1
      <4>2. CASE i \in 1 .. Len(l)
        BY <1>2, <2>1, <4>2 DEF Follows
      <4>3. CASE i = Len(l) + 1
        BY <1>4, <1>5, <2>1, <4>1, <4>3
      <4> QED BY <1>1, <4>2, <4>3
    <3>2. 0 + Len(m) <= Len(t)
      BY <1>1, <1>3, <1>4, <2>1
    <3> QED BY <2>1, <3>1, <3>2 DEF Follows
  <2>3. Follows(Tail(b), Len(m), t)
    <3>1. ASSUME NEW i \in 1 .. Len(Tail(b))
          PROVE  Tail(b)[i] = t[(Len(l) + 1) + i]
      <4>1. PICK j \in 1 .. Len(b) : j = i + 1
        BY <1>1
      <4>2. Tail(b)[i] = b[j] /\ b[j] = t[Len(l) + j] /\ Len(l) + j = (Len(l) + 1) + i
        BY <1>1, <1>2, <4>1 DEF Follows
      <4> QED BY <4>2
    <3>2. Len(m) + Len(Tail(b)) <= Len(t)
      BY <1>1, <1>3, <1>4, <2>1
    <3> QED BY <2>1, <3>1, <3>2 DEF Follows
  <2>4. Len(m) + Len(Tail(b)) = Len(l) + Len(b)
    BY <1>1, <2>1
  <2>5. Follows(s, Len(m) + Len(Tail(b)), t)
    BY <1>2, <2>4
  <2> QED BY <1>2, <2>2, <2>3, <2>5 DEF Whole, m
<1>6. ASSUME b[1].kind \notin {"STAT", "CUT"}
      PROVE  b[1].kind = "END" /\ Whole(l, Tail(b), s, u, v)
  <2>1. b[1].kind = "END" /\ Len(l) + 1 = Len(t)
    BY <1>2, <1>4, <1>6, SaidLines
  <2>2. Len(b) = 1 /\ Len(s) = 0 /\ Len(Tail(b)) = 0
    BY <1>1, <1>3, <1>4, <2>1
  <2>3. 1 .. Len(Tail(b)) = {} /\ 1 .. Len(s) = {}
    <3>1. 1 .. 0 = {}
      OBVIOUS
    <3> QED BY <2>2, <3>1, Zenon
  <2>4. Len(l) + Len(Tail(b)) <= Len(t) /\ (Len(l) + Len(Tail(b))) + Len(s) <= Len(t)
    <3>1. Len(l) + 0 <= Len(t) /\ (Len(l) + 0) + 0 <= Len(t)
      BY <1>1, <1>3, <1>4
    <3> QED BY <2>2, <3>1
  <2>5. Follows(Tail(b), Len(l), t)
    BY <2>3, <2>4 DEF Follows
  <2>6. Follows(s, Len(l) + Len(Tail(b)), t)
    BY <2>3, <2>4 DEF Follows
  <2> QED BY <1>2, <2>1, <2>5, <2>6 DEF Whole
<1> QED BY <1>5, <1>6

\* A buffer that holds a whole reply is not full.
LEMMA WholeFits ==
    ASSUME NEW u, NEW v \in Version, NEW l \in Seq(Entry), NEW b \in Seq(Wire), NEW s \in Seq(Wire),
           Whole(l, b, s, u, v), Fits(v)
    PROVE  Len(b) + Len(s) < BufLines
<1>1. /\ Len(l) \in Nat /\ Len(b) \in Nat /\ Len(s) \in Nat /\ NStats[v] \in Nat
      /\ BufLines \in Nat
  BY LenProperties, StatsMcAssumption
<1>2. PICK t \in Seq(Wire) : Said(t, u, v) /\ Follows(s, Len(l) + Len(b), t)
  BY DEF Whole
<1>3. Len(t) \in Nat /\ Len(t) <= NStats[v] + 1
  BY <1>2, LenProperties DEF Said
<1> QED BY <1>1, <1>2, <1>3 DEF Follows, Fits

\* A list in step is of the reply.
LEMMA InStepOfReply ==
    ASSUME SessionTypeOK, NEW u \in Uri, InStep(u)
    PROVE  OfReply(new_stats, u)
<1>1. PICK v \in Version :
         /\ Stream(new_stats, buf, sock.inbox, u, v)
         /\ Fits(v) => Whole(new_stats, buf, sock.inbox, u, v)
  BY DEF InStep
<1> DEFINE l == new_stats
<1>2. Sound(l, u, v) /\ ~HasEnd(l) /\ InOrder(l)
  BY <1>1 DEF Stream
<1>3. Len(l) \in Nat
  BY LenProperties
<1> HIDE DEF l
<1>4. \A i \in 1 .. Len(l) :
         \/ l[i].kind = "FRAG"
         \/ l[i] \in {Line(k, u, v, n) : k \in {"STAT", "CUT"}, n \in 1 .. NStats[v]}
  BY <1>2 DEF Sound, HasEnd, Has, LinesOf
<1>5. \A i, j \in 1 .. Len(l) :
         i < j /\ l[i].kind # "FRAG" /\ l[j].kind # "FRAG" => l[i].no < l[j].no
  <2>1. \A i \in 1 .. Len(l) : l[i].kind # "FRAG" => Real(l[i])
    BY <1>2, LinesOfKinds DEF Sound, HasEnd, Has
  <2> QED BY <1>2, <2>1 DEF InOrder
<1>6. ASSUME Fits(v), NEW i \in 1 .. Len(l)
      PROVE  l[i].no = i /\ (l[i].kind = "STAT" \/ (l[i].kind = "CUT" /\ i = Len(l)))
  <2>1. PICK t \in Seq(Wire) : Said(t, u, v) /\ Follows(l, 0, t)
    BY <1>1, <1>6 DEF Whole, l
  <2>2. Len(t) \in Nat /\ Len(l) <= Len(t)
    BY <1>3, <2>1, LenProperties DEF Follows
  <2>3. i \in 1 .. Len(t) /\ 0 + i = i
    BY <1>3, <2>2
  <2>4. l[i] = t[i]
    BY <2>1, <2>3 DEF Follows
  <2>5. l[i].kind # "END"
    BY <1>2 DEF HasEnd, Has
  <2>6. t[i].no = i /\ (t[i].kind = "STAT" \/ (t[i].kind = "CUT" /\ i = Len(t)))
    BY <2>1, <2>3, <2>4, <2>5, SaidLines
  <2> QED BY <1>3, <2>2, <2>4, <2>6
<1>7. OfReply(l, u)
  BY <1>4, <1>5, <1>6 DEF OfReply
<1> QED BY <1>7 DEF l

LEMMA NothingOfReply ==
    ASSUME NEW u
    PROVE  OfReply(<<>>, u)
<1>1. PICK v \in Version : TRUE
  BY StatsMcAssumption
<1>2. \A i \in 1 .. Len(<<>>) : FALSE
  BY EmptySeq
<1> QED BY <1>2 DEF OfReply
-----------------------------------------------------------------------------
(* Lemmas on answers *)

\* A complete reply to a stats command.
LEMMA ReplyLines ==
    ASSUME NEW u \in Uri, u # Health, NEW v \in Version
    PROVE  /\ Reply(u, v) \in Seq(Wire) /\ Len(Reply(u, v)) = NStats[v] + 1
           /\ \A i \in 1 .. NStats[v] + 1 : Reply(u, v)[i] = ReplyLine(u, v, i)
<1>1. Reply(u, v) = [i \in 1 .. NStats[v] + 1 |-> ReplyLine(u, v, i)]
  BY DEF Reply, ReplyLine
<1>2. Reply(u, v) \in Seq(Wire)
  BY ReplyType
<1>3. NStats[v] + 1 \in Nat /\ DOMAIN Reply(u, v) = 1 .. NStats[v] + 1
  BY <1>1, StatsMcAssumption
<1>4. Len(Reply(u, v)) = NStats[v] + 1
  BY <1>2, <1>3, LenProperties
<1> QED BY <1>1, <1>2, <1>4

\* The first lines of a reply, the last of them whole or cut.
LEMMA StartSaid ==
    ASSUME NEW u \in Uri, u # Health, NEW v \in Version, NEW k \in 0 .. NStats[v],
           NEW s, s = SubSeq(Reply(u, v), 1, k)
    PROVE  Said(s, u, v) /\ (s # <<>> => Said(EndCut(s), u, v))
<1>1. NStats[v] \in Nat /\ k \in Nat /\ k <= NStats[v]
  BY StatsMcAssumption
<1>2. k \in 0 .. Len(Reply(u, v)) /\ Reply(u, v) \in Seq(Wire)
  BY <1>1, ReplyLines
<1>3. s \in Seq(Wire) /\ Len(s) = k /\ \A i \in 1 .. k : s[i] = Reply(u, v)[i]
  BY <1>2, Split
<1>4. \A i \in 1 .. k : s[i] = ReplyLine(u, v, i) /\ i <= NStats[v]
  <2>1. \A i \in 1 .. k : i \in 1 .. NStats[v] + 1 /\ i <= NStats[v]
    BY <1>1
  <2> QED BY <1>3, <2>1, ReplyLines
<1>5. Said(s, u, v)
  BY <1>1, <1>3, <1>4 DEF Said
<1>6. ASSUME s # <<>>
      PROVE  Said(EndCut(s), u, v)
  <2> DEFINE c == EndCut(s)
  <2>1. /\ c \in Seq(Wire) /\ Len(c) = k
        /\ \A i \in 1 .. k : c[i] = IF i = k THEN Piece(s[i], "CUT") ELSE s[i]
    <3>1. /\ EndCut(s) \in Seq(Wire) /\ Len(EndCut(s)) = Len(s)
          /\ \A i \in 1 .. Len(s) :
                EndCut(s)[i] = IF i = Len(s) THEN Piece(s[i], "CUT") ELSE s[i]
      BY <1>3, <1>6, EndCutType
    <3> QED BY <1>3, <3>1
  <2> HIDE DEF c
  <2>2. \A i \in 1 .. k : s[i] = Line("STAT", u, v, i)
    BY <1>4 DEF ReplyLine
  <2>3. \A i \in 1 .. k : Piece(s[i], "CUT") = Line("CUT", u, v, i)
    <3>1. \A i \in 1 .. k : Piece(Line("STAT", u, v, i), "CUT") = Line("CUT", u, v, i)
      BY DEF Piece, Line
    <3> QED BY <2>2, <3>1
  <2>4. \A i \in 1 .. k : c[i] = ReplyLine(u, v, i)
                          \/ (i = k /\ i <= NStats[v] /\ c[i] = Line("CUT", u, v, i))
    BY <1>4, <2>1, <2>3
  <2>5. Said(c, u, v)
    BY <1>1, <2>1, <2>4 DEF Said
  <2> QED BY <2>5 DEF c
<1> QED BY <1>5, <1>6

\* A stats command is answered by the first lines of its reply, or by a single error.
LEMMA StatsAnswer ==
    ASSUME NEW u \in Uri, u # Health, NEW a \in Answers(u)
    PROVE  \/ \E v \in Version : Said(a.lines, u, v)
           \/ Single(a.lines, {"ERROR", "SERVER_ERROR"})
<1>1. CASE \E v \in Version : a = Answer(Reply(u, v), FALSE)
  <2>1. PICK v \in Version : a = Answer(Reply(u, v), FALSE)
    BY <1>1
  <2>2. NStats[v] + 1 \in Nat /\ NStats[v] + 1 <= NStats[v] + 1
    BY StatsMcAssumption
  <2>3. Said(Reply(u, v), u, v)
    BY <2>2, ReplyLines DEF Said
  <2> QED BY <2>1, <2>3 DEF Answer
<1>2. CASE \E s \in CutReplies(u) : a = Answer(s, TRUE)
  <2>1. PICK s \in CutReplies(u) : a = Answer(s, TRUE)
    BY <1>2
  <2>2. PICK v \in Version : \E k \in 0 .. Len(Reply(u, v)) - 1 :
           \/ s = SubSeq(Reply(u, v), 1, k)
           \/ /\ SubSeq(Reply(u, v), 1, k) # <<>>
              /\ s = EndCut(SubSeq(Reply(u, v), 1, k))
    BY CutReplyStarts
  <2>3. PICK k \in 0 .. Len(Reply(u, v)) - 1 :
           \/ s = SubSeq(Reply(u, v), 1, k)
           \/ /\ SubSeq(Reply(u, v), 1, k) # <<>>
              /\ s = EndCut(SubSeq(Reply(u, v), 1, k))
    BY <2>2
  <2>4. k \in 0 .. NStats[v]
    <3>1. Len(Reply(u, v)) = NStats[v] + 1 /\ NStats[v] \in Nat
      BY ReplyLines, StatsMcAssumption
    <3> QED BY <3>1
  <2>5. Said(s, u, v)
    BY <2>3, <2>4, StartSaid
  <2> QED BY <2>1, <2>5 DEF Answer
<1>3. CASE \E k \in {"ERROR", "SERVER_ERROR"} : a = Answer(<<Line(k, u, AnyVersion, 1)>>, FALSE)
  BY <1>3 DEF Answer, Single, Line
<1> QED BY <1>1, <1>2, <1>3 DEF Answers

\* A probe is answered by one line, or by nothing.
LEMMA ProbeAnswer ==
    ASSUME NEW a \in Answers(Health)
    PROVE  a.lines = <<>> \/ Single(a.lines, {"STORED", "ERROR", "SERVER_ERROR"})
<1>0. \A v \in Version : Reply(Health, v) = <<Line("STORED", Health, v, 1)>>
  BY DEF Reply
<1>1. CASE \E v \in Version : a = Answer(Reply(Health, v), FALSE)
  BY <1>0, <1>1 DEF Answer, Single, Line
<1>2. CASE \E s \in CutReplies(Health) : a = Answer(s, TRUE)
  <2>0. Health \in Uri
    BY StatsMcAssumption
  <2>1. PICK s \in CutReplies(Health) : a = Answer(s, TRUE)
    BY <1>2
  <2>2. PICK v \in Version : \E k \in 0 .. Len(Reply(Health, v)) - 1 :
           \/ s = SubSeq(Reply(Health, v), 1, k)
           \/ SubSeq(Reply(Health, v), 1, k) # <<>>
    BY <2>0, CutReplyStarts
  <2>3. PICK k \in 0 .. Len(Reply(Health, v)) - 1 :
           \/ s = SubSeq(Reply(Health, v), 1, k)
           \/ SubSeq(Reply(Health, v), 1, k) # <<>>
    BY <2>2
  <2>4. k = 0
    <3>1. Len(Reply(Health, v)) = 1
      BY <1>0
    <3> QED BY <3>1
  <2>5. SubSeq(Reply(Health, v), 1, k) = <<>>
    BY <2>4, SubSeqEmpty
  <2> QED BY <2>1, <2>3, <2>5 DEF Answer
<1>3. CASE \E k \in {"ERROR", "SERVER_ERROR"} :
              a = Answer(<<Line(k, Health, AnyVersion, 1)>>, FALSE)
  BY <1>3 DEF Answer, Single, Line
<1> QED BY <1>1, <1>2, <1>3 DEF Answers

-----------------------------------------------------------------------------
(* Each step of the connection keeps the lines in step *)

\* A stats command on a connection with nothing unread.
LEMMA SentInStep ==
    ASSUME LinkTypeOK, sock.inbox = <<>>, NEW u \in Uri, u # Health, Write(u, "OK"),
           buf' = <<>>, new_stats' = <<>>
    PROVE  Refused' \/ (InStep(u)' /\ ~HasEnd(buf') /\ Begins(buf', sock'.inbox))
<1>0. ~HasEnd(<<>>)
  BY EmptySeq DEF HasEnd, Has
<1>1. ASSUME NEW v \in Version, Said(sock'.inbox, u, v)
      PROVE  InStep(u)' /\ ~HasEnd(buf') /\ Begins(buf', sock'.inbox)
  <2>1. /\ Stream(<<>>, <<>>, sock'.inbox, u, v) /\ Whole(<<>>, <<>>, sock'.inbox, u, v)
        /\ Begins(<<>>, sock'.inbox)
    BY <1>1, SaidInStep
  <2> QED BY <1>0, <2>1 DEF InStep
<1>2. CASE sock'.inbox = <<>>
  <2>1. PICK v \in Version : TRUE
    BY StatsMcAssumption
  <2>2. Said(<<>>, u, v)
    <3>1. Len(<<>>) = 0 /\ <<>> \in Seq(Wire) /\ 0 <= NStats[v] + 1
      BY EmptySeq, StatsMcAssumption
    <3>2. \A i \in 1 .. Len(<<>>) : FALSE
      BY <3>1
    <3> QED BY <3>1, <3>2 DEF Said
  <2> QED BY <1>1, <1>2, <2>2
<1>3. CASE \E a \in Answers(u) : sock'.inbox = a.lines
  <2>1. PICK a \in Answers(u) : sock'.inbox = a.lines
    BY <1>3
  <2>2. CASE Single(a.lines, {"ERROR", "SERVER_ERROR"})
    BY <2>1, <2>2 DEF Refused
  <2>3. CASE \E v \in Version : Said(a.lines, u, v)
    BY <1>1, <2>1, <2>3
  <2> QED BY <2>2, <2>3, StatsAnswer
<1>4. sock'.inbox = <<>> \/ \E a \in Answers(u) : sock'.inbox = a.lines
  <2>1. CASE NotSent(u, "OK")
    BY <2>1 DEF NotSent, Bail, NoSock
  <2>2. CASE Sent(u, "OK") /\ sock.eof
    BY <2>2 DEF Sent
  <2>3. CASE Sent(u, "OK") /\ ~sock.eof
    <3>1. PICK a \in Answers(u) : sock' = [sock EXCEPT !.inbox = @ \o a.lines, !.eof = a.eof]
      BY <2>3 DEF Sent
    <3>2. sock'.inbox = sock.inbox \o a.lines
      BY <3>1
    <3>3. a.lines \in Seq(Wire)
      BY AnswersType
    <3> QED BY <3>2, <3>3, ConcatEmptySeq
  <2> QED BY <2>1, <2>2, <2>3 DEF Write
<1> QED BY <1>2, <1>3, <1>4

\* The probe's command on such a connection.
LEMMA ProbeSentInStep ==
    ASSUME LinkTypeOK, sock.inbox = <<>>, Write(Health, "OK")
    PROVE  sock'.inbox = <<>> \/ Single(sock'.inbox, {"STORED", "ERROR", "SERVER_ERROR"})
<1>0. Health \in Uri
  BY StatsMcAssumption
<1>1. CASE NotSent(Health, "OK")
  BY <1>1 DEF NotSent, Bail, NoSock
<1>2. CASE Sent(Health, "OK") /\ sock.eof
  BY <1>2 DEF Sent
<1>3. CASE Sent(Health, "OK") /\ ~sock.eof
  <2>1. PICK a \in Answers(Health) :
           sock' = [sock EXCEPT !.inbox = @ \o a.lines, !.eof = a.eof]
    BY <1>3 DEF Sent
  <2>2. sock'.inbox = sock.inbox \o a.lines
    BY <2>1
  <2>3. a.lines \in Seq(Wire)
    BY <1>0, AnswersType
  <2> QED BY <2>2, <2>3, ConcatEmptySeq, ProbeAnswer
<1> QED BY <1>1, <1>2, <1>3 DEF Write

\* A command that was given up after it went out drifts; else the socket is closed.
LEMMA GivenUp ==
    ASSUME LinkTypeOK, NEW u \in Uri, NEW err \in Errno, Write(u, err), ~sock'.open
    PROVE  sock'.inbox = <<>>
<1>1. CASE NotSent(u, err)
  BY <1>1 DEF NotSent, Bail, NoSock
<1>2. CASE Sent(u, err)
  <2>1. CASE sock' = sock
    BY <1>2, <2>1 DEF Sent
  <2>2. ASSUME NEW a \in Answers(u), sock' = [sock EXCEPT !.inbox = @ \o a.lines, !.eof = a.eof]
        PROVE  sock'.open
    <3>1. sock.open
      BY <1>2 DEF Sent
    <3> QED BY <2>2, <3>1
  <2> QED BY <1>2, <2>1, <2>2 DEF Sent
<1> QED BY <1>1, <1>2 DEF Write

\* What read() adds to the buffer.
LEMMA ArrivesInStep ==
    ASSUME LinkTypeOK, SessionTypeOK, NEW u, NEW v \in Version,
           Stream(new_stats, buf, sock.inbox, u, v), ~HasEnd(buf),
           NEW k \in 1 .. Len(sock.inbox), NEW a \in Arrivals(k)
    PROVE  /\ buf \o a.got \in Seq(Wire) /\ Len(buf \o a.got) = Len(buf) + k
           /\ Stream(new_stats, buf \o a.got, a.rest, u, v)
           /\ HasEnd(buf \o a.got) =>
                 /\ a.rest = <<>>
                 /\ Whole(new_stats, buf, sock.inbox, u, v) =>
                       Whole(new_stats, buf \o a.got, a.rest, u, v)
<1> DEFINE l == new_stats
           b == buf
           s == sock.inbox
           g == a.got
           r == a.rest
<1>1. /\ Sound(l, u, v) /\ ~HasEnd(l) /\ Sound(b, u, v) /\ Sound(s, u, v)
      /\ InOrder(l) /\ InOrder(b) /\ InOrder(s)
      /\ Before(l, b) /\ Before(l, s) /\ Before(b, s)
      /\ EndLast(s)
  BY DEF Stream
<1>2. /\ g \in Seq(Wire) /\ r \in Seq(Wire) /\ Len(g) = k
      /\ Sound(g, u, v) /\ Sound(r, u, v)
      /\ InOrder(g) /\ InOrder(r) /\ Before(g, r)
      /\ \A m : Before(m, s) => Before(m, g) /\ Before(m, r)
      /\ EndLast(r)
      /\ HasEnd(g) => /\ k = Len(s) /\ r = <<>>
                      /\ \A i \in 1 .. k : g[i] = s[i]
  BY <1>1, ArrivalsInStep
<1>3. l \in Seq(Entry) /\ b \in Seq(Wire) /\ s \in Seq(Wire) /\ k \in 1 .. Len(s)
  OBVIOUS
<1> HIDE DEF l, b, s, g, r
<1>4. /\ b \o g \in Seq(Wire) /\ Len(b \o g) = Len(b) + Len(g)
      /\ Sound(b, u, v) /\ Sound(g, u, v) => Sound(b \o g, u, v)
      /\ InOrder(b) /\ InOrder(g) /\ Before(b, g) => InOrder(b \o g)
      /\ \A m : Before(m, b) /\ Before(m, g) => Before(m, b \o g)
      /\ \A m : Before(b, m) /\ Before(g, m) => Before(b \o g, m)
  BY <1>2, <1>3, JoinedLines
<1>5. Stream(l, b \o g, r, u, v)
  BY <1>1, <1>2, <1>4 DEF Stream
<1>6. ASSUME HasEnd(b \o g)
      PROVE  HasEnd(g)
  <2>1. Len(b) \in Nat /\ Len(g) \in Nat
    BY <1>2, <1>3, LenProperties
  <2>2. PICK i \in 1 .. Len(b) + Len(g) : (b \o g)[i].kind = "END"
    BY <1>4, <1>6 DEF HasEnd, Has
  <2>3. (b \o g)[i] = IF i <= Len(b) THEN b[i] ELSE g[i - Len(b)]
    BY <1>2, <1>3, ConcatProperties
  <2>4. ~(i <= Len(b))
    <3>1. ~HasEnd(b)
      BY DEF b
    <3> QED BY <2>1, <2>2, <2>3, <3>1 DEF HasEnd, Has
  <2>5. i - Len(b) \in 1 .. Len(g)
    BY <2>1, <2>4
  <2> QED BY <2>2, <2>3, <2>4, <2>5 DEF HasEnd, Has
<1>7. ASSUME HasEnd(b \o g)
      PROVE  r = <<>> /\ (Whole(l, b, s, u, v) => Whole(l, b \o g, r, u, v))
  <2>1. /\ k = Len(s) /\ r = <<>>
        /\ \A i \in 1 .. k : g[i] = s[i]
    BY <1>2, <1>6, <1>7
  <2>2. Len(s) \in Nat /\ k \in 0 .. Len(s)
    BY <1>3, LenProperties
  <2>3. Len(r) = Len(s) - k /\ \A i \in 1 .. Len(s) - k : r[i] = s[k + i]
    <3>1. Len(r) = 0
      BY <2>1, EmptySeq
    <3> QED BY <2>1, <2>2, <3>1
  <2>4. Whole(l, b, s, u, v) => Whole(l, b \o g, r, u, v)
    BY <1>2, <1>3, <2>1, <2>2, <2>3, WholeRead
  <2> QED BY <2>1, <2>4
<1> QED BY <1>2, <1>4, <1>5, <1>7 DEF l, b, s, g, r

LEMMA ReadMoreInStep ==
    ASSUME LinkTypeOK, SessionTypeOK, NEW u, InStep(u), ~HasEnd(buf),
           new_stats = <<>> => Begins(buf, sock.inbox),
           NEW k \in 1 .. Len(sock.inbox), ReadMore(k)
    PROVE  /\ InStep(u)' /\ ~HasEnd(buf')
           /\ new_stats' = <<>> => Begins(buf', sock'.inbox)
<1> DEFINE s == sock.inbox
           g == SubSeq(s, 1, k)
           r == SubSeq(s, k + 1, Len(s))
           a == [got |-> g, rest |-> r]
<1>1. /\ buf' = buf \o a.got /\ sock'.inbox = a.rest /\ UNCHANGED new_stats /\ ~HasEnd(buf')
  BY DEF ReadMore, Take, Consume, Received
<1>2. a \in Arrivals(k)
  BY DEF Arrivals
<1>3. PICK v \in Version :
         /\ Stream(new_stats, buf, s, u, v)
         /\ Fits(v) => Whole(new_stats, buf, s, u, v)
  BY DEF InStep
<1>4. Stream(new_stats, buf \o a.got, a.rest, u, v) /\ Len(buf \o a.got) = Len(buf) + k
  BY <1>2, <1>3, ArrivesInStep
<1>5. s \in Seq(Wire) /\ buf \in Seq(Wire) /\ Len(s) \in Nat /\ Len(buf) \in Nat /\ k \in 0 .. Len(s)
  BY LenProperties
<1>6. /\ g \in Seq(Wire) /\ Len(g) = k /\ (\A i \in 1 .. k : g[i] = s[i])
      /\ r \in Seq(Wire) /\ Len(r) = Len(s) - k /\ \A i \in 1 .. Len(s) - k : r[i] = s[k + i]
  BY <1>5, Split
<1>7. buf' = buf \o g /\ sock'.inbox = r
  BY <1>1
<1>8. Stream(new_stats, buf \o g, r, u, v) /\ Len(buf \o g) = Len(buf) + k
  BY <1>4
<1> HIDE DEF s, g, r
<1>9. Whole(new_stats, buf, s, u, v) => Whole(new_stats, buf \o g, r, u, v)
  BY <1>5, <1>6, WholeRead
<1>10. InStep(u)'
  BY <1>1, <1>3, <1>7, <1>8, <1>9 DEF InStep
<1>11. ASSUME new_stats = <<>>
       PROVE  Begins(buf', sock'.inbox)
  <2>1. Begins(buf, s)
    BY <1>11 DEF s
  <2>2. ASSUME Len(buf \o g) + Len(r) > 1
        PROVE  (buf \o g)[1].kind = "STAT" /\ buf \o g # <<>>
    <3>1. Len(buf) + Len(s) > 1
      BY <1>5, <1>6, <1>8, <2>2
    <3>2. (IF buf # <<>> THEN buf[1] ELSE s[1]).kind = "STAT"
      BY <2>1, <3>1 DEF Begins
    <3>3. Len(buf \o g) > 0
      BY <1>5, <1>8
    <3>4. buf \o g # <<>>
      BY <3>3, EmptySeq
    <3>5. (buf \o g)[1] = IF buf # <<>> THEN buf[1] ELSE s[1]
      <4>1. \A i \in 1 .. Len(buf) + Len(g) :
               (buf \o g)[i] = IF i <= Len(buf) THEN buf[i] ELSE g[i - Len(buf)]
        BY <1>5, <1>6, ConcatProperties
      <4>2. CASE buf = <<>>
        <5>1. buf \o g = g
          BY <1>6, <4>2, ConcatEmptySeq
        <5>2. 1 \in 1 .. k
          BY <1>5
        <5> QED BY <1>6, <4>2, <5>1, <5>2
      <4>3. CASE buf # <<>>
        <5>1. Len(buf) # 0
          BY <1>5, <4>3, EmptySeq
        <5>2. PICK i \in 1 .. Len(buf) + Len(g) : i = 1 /\ i <= Len(buf)
          BY <1>5, <1>6, <5>1
        <5> QED BY <4>1, <4>3, <5>2
      <4> QED BY <4>2, <4>3
    <3> QED BY <3>2, <3>4, <3>5
  <2> QED BY <1>7, <2>2 DEF Begins
<1> QED BY <1>1, <1>10, <1>11
LEMMA ReadBufferInStep ==
    ASSUME LinkTypeOK, SessionTypeOK, NEW u, InStep(u), ~HasEnd(buf),
           new_stats = <<>> => Begins(buf, sock.inbox),
           NEW k \in 1 .. Len(sock.inbox), ReadBuffer(k)
    PROVE  /\ InStep(u)'
           /\ HasEnd(buf') => done'
           /\ done' => sock'.inbox = <<>>
           /\ done' \/ new_stats' # <<>> \/ (buf' # <<>> /\ Head(buf').kind = "STAT")
<1>1. PICK a \in Arrivals(k) :
         LET data == Received(a.got)
             full == Len(data) = BufLines
         IN  /\ full \/ (HasEnd(data) /\ Len(data) < BufLines)
             /\ buf' = IF full THEN Append(data, Scrap) ELSE data
             /\ done' = HasEnd(data)
             /\ sock' = [sock EXCEPT !.inbox = a.rest]
  BY DEF ReadBuffer
<1> DEFINE s    == sock.inbox
           l    == new_stats
           r    == a.rest
           data == buf \o a.got
           full == Len(data) = BufLines
<1>2. /\ full \/ HasEnd(data)
      /\ buf' = IF full THEN Append(data, Scrap) ELSE data
      /\ done' = HasEnd(data)
      /\ sock'.inbox = r
      /\ new_stats' = l
  BY <1>1 DEF ReadBuffer, Received
<1>3. PICK v \in Version :
         /\ Stream(l, buf, s, u, v)
         /\ Fits(v) => Whole(l, buf, s, u, v)
  BY DEF InStep
<1>4. /\ data \in Seq(Wire) /\ Len(data) = Len(buf) + k
      /\ Stream(l, data, r, u, v)
      /\ HasEnd(data) => r = <<>> /\ (Whole(l, buf, s, u, v) => Whole(l, data, r, u, v))
  BY <1>3, ArrivesInStep
<1>5. /\ a.got \in Seq(Wire) /\ Len(a.got) = k /\ \A i \in 1 .. k - 1 : a.got[i] = s[i]
  BY <1>3, ArrivalsInStep DEF Stream
<1>6. /\ l \in Seq(Entry) /\ buf \in Seq(Wire) /\ s \in Seq(Wire)
      /\ Len(buf) \in Nat /\ Len(s) \in Nat /\ BufLines \in Nat /\ BufLines > 2
      /\ k \in Nat /\ k <= Len(s) /\ k > 0
  BY LenProperties, StatsMcAssumption
<1>7. \A i \in 1 .. Len(buf) + k :
         data[i] = IF i <= Len(buf) THEN buf[i] ELSE a.got[i - Len(buf)]
  BY <1>5, <1>6, ConcatProperties
<1> HIDE DEF s, l, r, data, full
<1>8. \A b : b = Append(data, Scrap) =>
         /\ b \in Seq(Wire) /\ Len(b) = Len(data) + 1 /\ \A i \in 1 .. Len(data) : b[i] = data[i]
         /\ Stream(l, b, r, u, v) /\ (HasEnd(b) => HasEnd(data))
  <2> DEFINE b == Append(data, Scrap)
  <2>1. /\ b \in Seq(Wire) /\ Len(b) = Len(data) + 1
        /\ \A i \in 1 .. Len(data) : b[i] = data[i]
        /\ Sound(data, u, v) => Sound(b, u, v)
        /\ InOrder(data) => InOrder(b)
        /\ \A m : Before(m, data) => Before(m, b)
        /\ \A m : Before(data, m) => Before(b, m)
        /\ HasEnd(b) => HasEnd(data)
    BY <1>4, ScrapLast
  <2> HIDE DEF b
  <2>2. Stream(l, b, r, u, v)
    BY <1>4, <2>1 DEF Stream
  <2> QED BY <2>1, <2>2 DEF b
<1>9. Stream(l, buf', r, u, v)
  BY <1>2, <1>4, <1>8
<1>10. Fits(v) => Whole(l, buf', r, u, v)
  <2> SUFFICES ASSUME Fits(v) PROVE Whole(l, buf', r, u, v)
    OBVIOUS
  <2>1. Whole(l, buf, s, u, v)
    BY <1>3
  <2>2. Len(buf) + Len(s) < BufLines
    BY <1>6, <2>1, WholeFits
  <2>3. Len(data) < BufLines
    BY <1>4, <1>6, <2>2
  <2>4. ~full
    BY <1>6, <2>3 DEF full
  <2> QED BY <1>2, <1>4, <2>1, <2>4
<1>11. InStep(u)'
  BY <1>2, <1>9, <1>10 DEF InStep, l
<1>12. HasEnd(buf') => done'
  BY <1>2, <1>8
<1>13. done' => sock'.inbox = <<>>
  BY <1>2, <1>4
<1>14. ASSUME ~done', new_stats' = <<>>
       PROVE  buf' # <<>> /\ Head(buf').kind = "STAT"
  <2>1. Len(data) = BufLines /\ buf' = Append(data, Scrap)
    BY <1>2, <1>14 DEF full
  <2>2. Begins(buf, s)
    BY <1>2, <1>14 DEF l, s
  <2>3. Len(buf) + k > 2
    BY <1>4, <1>6, <2>1
  <2>4. (IF buf # <<>> THEN buf[1] ELSE s[1]).kind = "STAT"
    BY <1>6, <2>2, <2>3 DEF Begins
  <2>5. data[1] = IF buf # <<>> THEN buf[1] ELSE s[1]
    <3>1. CASE buf = <<>>
      <4>1. Len(buf) = 0
        BY <3>1, EmptySeq
      <4>2. 1 \in 1 .. k - 1 /\ 1 \in 1 .. Len(buf) + k /\ ~(1 <= Len(buf)) /\ 1 - Len(buf) = 1
        BY <1>6, <2>3, <4>1
      <4>3. data[1] = a.got[1 - Len(buf)] /\ a.got[1] = s[1]
        BY <1>5, <1>7, <4>2
      <4> QED BY <3>1, <4>2, <4>3
    <3>2. CASE buf # <<>>
      <4>1. Len(buf) # 0
        BY <1>6, <3>2, EmptySeq
      <4>2. 1 \in 1 .. Len(buf) + k /\ 1 <= Len(buf)
        BY <1>6, <4>1
      <4> QED BY <1>7, <3>2, <4>2
    <3> QED BY <3>1, <3>2
  <2>6. 1 \in 1 .. Len(data)
    BY <1>6, <2>1
  <2>7. buf' \in Seq(Wire) /\ buf'[1] = data[1] /\ Len(buf') = Len(data) + 1
    BY <1>8, <2>1, <2>6
  <2>8. buf' # <<>>
    BY <1>6, <2>1, <2>7, EmptySeq
  <2>9. Head(buf') = buf'[1]
    BY <2>7, <2>8, HeadTailProperties
  <2> QED BY <2>4, <2>5, <2>7, <2>8, <2>9
<1> QED BY <1>11, <1>12, <1>13, <1>14

\* An error is not taken for a part of the stats.
LEMMA RefusedUnread ==
    ASSUME LinkTypeOK, Refused, NEW k \in 1 .. Len(sock.inbox)
    PROVE  ~ReadMore(k) /\ ~ReadBuffer(k)
<1>1. /\ k = 1 /\ Len(sock.inbox) = 1 /\ buf = <<>> /\ sock.inbox \in Seq(Wire)
      /\ sock.inbox[1] \in Wire /\ sock.inbox[1].kind \in {"ERROR", "SERVER_ERROR"}
  <2>1. Len(sock.inbox) = 1 /\ sock.inbox[1].kind \in {"ERROR", "SERVER_ERROR"}
    BY DEF Refused, Single
  <2>2. k = 1 /\ 1 \in 1 .. Len(sock.inbox)
    BY <2>1
  <2> QED BY <2>1, <2>2, ElementOfSeq DEF Refused
<1>2. ASSUME ReadMore(k)
      PROVE  FALSE
  <2> DEFINE g == SubSeq(sock.inbox, 1, k)
  <2>1. buf' = buf \o g /\ ~HasError(buf')
    BY <1>2 DEF ReadMore, Take, Received
  <2>2. k \in 0 .. Len(sock.inbox)
    BY <1>1
  <2>3. g \in Seq(Wire) /\ Len(g) = 1 /\ g[1] = sock.inbox[1]
    BY <1>1, <2>2, Split
  <2> HIDE DEF g
  <2>4. buf' = g
    BY <1>1, <2>1, <2>3, ConcatEmptySeq
  <2> QED BY <1>1, <2>1, <2>3, <2>4 DEF HasError, Has
<1>3. ASSUME ReadBuffer(k)
      PROVE  FALSE
  <2>1. PICK a \in Arrivals(k) :
           LET data == Received(a.got)
           IN  Len(data) = BufLines \/ HasEnd(data)
    BY <1>3 DEF ReadBuffer
  <2>2. \A t \in Torn(sock.inbox[k]) : t[1] \in Wire /\ t[2] \in Wire
    BY <1>1, TornType
  <2>3. /\ a.got \in Seq(Wire) /\ Len(a.got) = k
        /\ a.got[k] = sock.inbox[k] \/ \E t \in Torn(sock.inbox[k]) : a.got[k] = t[1]
    BY <1>1, <2>2, ArrivalLines
  <2>4. a.got[1].kind # "END"
    <3>1. \A t \in Torn(sock.inbox[1]) : t[1] = Scrap
      BY <1>1 DEF Torn
    <3> QED BY <1>1, <2>3, <3>1, ScrapType
  <2>5. Received(a.got) = a.got
    BY <1>1, <2>3, ConcatEmptySeq DEF Received
  <2>6. Len(a.got) = 1 /\ ~HasEnd(a.got)
    BY <1>1, <2>3, <2>4 DEF HasEnd, Has
  <2>7. Len(a.got) # BufLines
    BY <2>6, StatsMcAssumption
  <2> QED BY <2>1, <2>5, <2>6, <2>7
<1> QED BY <1>2, <1>3

\* A line that is parsed becomes an entry, or goes.
LEMMA ParseInStep ==
    ASSUME LinkTypeOK, SessionTypeOK, NEW u \in Uri, InStep(u), ParseLine
    PROVE  /\ InStep(u)'
           /\ HasEnd(buf') => HasEnd(buf)
           /\ new_stats # <<>> \/ Head(buf).kind = "STAT" => new_stats' # <<>>
<1> DEFINE l == new_stats
           b == buf
           s == sock.inbox
           c == Tail(b)
<1>1. /\ b # <<>> /\ b \in Seq(Wire) /\ l \in Seq(Entry) /\ s \in Seq(Wire)
      /\ buf' = c /\ sock'.inbox = s
      /\ \/ /\ Head(b).kind \in {"STAT", "CUT", "FRAG"}
            /\ new_stats' = Append(l, Head(b))
         \/ /\ Head(b).kind \notin {"STAT", "CUT"}
            /\ new_stats' = l
  BY DEF ParseLine
<1>2. PICK v \in Version :
         /\ Stream(l, b, s, u, v)
         /\ Fits(v) => Whole(l, b, s, u, v)
  BY DEF InStep
<1> HIDE DEF l, b, s
<1>3. /\ Sound(l, u, v) /\ ~HasEnd(l) /\ Sound(b, u, v) /\ Sound(s, u, v)
      /\ InOrder(l) /\ InOrder(b) /\ InOrder(s)
      /\ Before(l, b) /\ Before(l, s) /\ Before(b, s)
      /\ EndLast(s)
  BY <1>2 DEF Stream
<1>4. /\ c \in Seq(Wire) /\ Head(b) = b[1] /\ b[1] \in Wire
      /\ Sound(b, u, v) => Sound(c, u, v)
      /\ InOrder(b) => InOrder(c)
      /\ \A m : Before(m, b) => Before(m, c)
      /\ \A m : Before(b, m) => Before(c, m)
      /\ HasEnd(c) => HasEnd(b)
  BY <1>1, TailLines
<1> HIDE DEF c
<1>5. CASE Head(b).kind \in {"STAT", "CUT", "FRAG"} /\ new_stats' = Append(l, Head(b))
  <2> DEFINE x == b[1]
             m == Append(l, x)
  <2>1. x \in Entry /\ x = b[1] /\ x.kind # "END"
    BY <1>4, <1>5 DEF Entry, EntryKind, Wire
  <2> HIDE DEF x
  <2>2. /\ Sound(l, u, v) /\ Sound(b, u, v) => Sound(m, u, v)
        /\ InOrder(l) /\ Before(l, b) => InOrder(m)
        /\ Before(l, b) /\ InOrder(b) => Before(m, c)
        /\ \A t : Before(l, t) /\ Before(b, t) => Before(m, t)
    BY <1>1, <2>1, HeadMoves DEF c
  <2>3. Len(m) = Len(l) + 1 /\ Len(l) \in Nat /\ m[Len(l) + 1] = x
        /\ \A i \in 1 .. Len(l) : m[i] = l[i]
    BY <1>1, <2>1, AppendProperties, LenProperties
  <2> HIDE DEF m
  <2>4. ~HasEnd(m)
    BY <1>3, <2>1, <2>3 DEF HasEnd, Has
  <2>5. Stream(m, c, s, u, v)
    BY <1>3, <1>4, <2>2, <2>4 DEF Stream
  <2>6. Fits(v) => Whole(m, c, s, u, v)
    <3> SUFFICES ASSUME Fits(v) PROVE Whole(m, c, s, u, v)
      OBVIOUS
    <3>1. Whole(l, b, s, u, v)
      BY <1>2
    <3>2. CASE b[1].kind \in {"STAT", "CUT"}
      BY <1>1, <2>1, <3>1, <3>2, WholeParsed DEF m, c
    <3>3. CASE b[1].kind \notin {"STAT", "CUT"}
      <4>1. b[1].kind = "END"
        BY <1>1, <3>1, <3>3, WholeParsed
      <4> QED BY <2>1, <4>1
    <3> QED BY <3>2, <3>3
  <2>7. new_stats' = m
    BY <1>4, <1>5 DEF m, x
  <2>8. InStep(u)'
    BY <1>1, <2>5, <2>6, <2>7 DEF InStep
  <2>9. m # <<>>
    BY <2>3, EmptySeq
  <2> QED BY <1>1, <1>4, <2>7, <2>8, <2>9 DEF b
<1>6. CASE Head(b).kind \notin {"STAT", "CUT"} /\ new_stats' = l
  <2>1. Stream(l, c, s, u, v)
    BY <1>3, <1>4 DEF Stream
  <2>2. Fits(v) => Whole(l, c, s, u, v)
    BY <1>1, <1>2, <1>4, <1>6, WholeParsed DEF c
  <2>3. InStep(u)'
    BY <1>1, <1>6, <2>1, <2>2 DEF InStep
  <2> QED BY <1>1, <1>4, <1>6, <2>3 DEF b, l
<1> QED BY <1>1, <1>5, <1>6

\* What the probe leaves unread, if it does not drift.
LEMMA ProbeReadInStep ==
    ASSUME LinkTypeOK, NEW alive \in BOOLEAN, ReadProbe(alive),
           sock.inbox = <<>> \/ Single(sock.inbox, {"STORED", "ERROR", "SERVER_ERROR"}),
           sock'.open => sock'.inbox \in {sock.inbox, <<>>}
    PROVE  sock'.inbox = <<>>
<1>1. CASE ReadStored
  <2>1. sock'.inbox = SubSeq(sock.inbox, 1 + 1, Len(sock.inbox)) /\ sock.inbox # <<>>
    BY <1>1 DEF ReadStored, Consume
  <2>2. Len(sock.inbox) = 1
    BY <2>1 DEF Single
  <2> QED BY <2>1, <2>2, SubSeqEmpty
<1>2. CASE ReadOther
  <2>1. PICK rest \in Leftovers(sock.inbox) : sock' = [sock EXCEPT !.inbox = rest]
    BY <1>2 DEF ReadOther
  <2>2. sock'.inbox = rest /\ (sock'.open <=> sock.open) /\ sock.open
    BY <1>2, <2>1 DEF ReadOther
  <2>3. PICK n \in 0 .. Len(sock.inbox) :
           LET t == SubSeq(sock.inbox, n + 1, Len(sock.inbox))
           IN  /\ t \in Seq(Wire) /\ Short(sock.inbox, n)
               /\ rest = Bitten(t) \/ (n > 0 /\ rest = t)
    BY <2>1, LeftoversEnd
  <2>4. CASE sock.inbox = <<>>
    BY <2>2, <2>4
  <2>5. CASE sock.inbox # <<>>
    <3>1. Len(sock.inbox) = 1 /\ sock.inbox[1].kind \in {"STORED", "ERROR", "SERVER_ERROR"}
      BY <2>5 DEF Single
    <3>2. n = 0
      <4>1. n = 0 \/ n = 1
        BY <3>1
      <4>2. n # 1
        BY <2>3, <3>1 DEF Short
      <4> QED BY <4>1, <4>2
    <3>3. SubSeq(sock.inbox, 0 + 1, Len(sock.inbox)) = sock.inbox
      BY SubSeqFull
    <3>4. rest = Bitten(sock.inbox)
      <4>1. rest = Bitten(SubSeq(sock.inbox, n + 1, Len(sock.inbox))) \/ n > 0
        BY <2>3
      <4>2. rest = Bitten(SubSeq(sock.inbox, 0 + 1, Len(sock.inbox)))
        BY <3>2, <4>1
      <4> QED BY <3>3, <4>2
    <3>5. rest[1] = Scrap
      BY <3>1, <3>4, BittenType
    <3>6. rest # sock.inbox
      BY <3>1, <3>5, ScrapType
    <3> QED BY <2>2, <3>6
  <2> QED BY <2>4, <2>5
<1>3. CASE ReadProbeError \/ ReadProbeFails
  BY <1>3 DEF ReadProbeError, ReadProbeFails, Bail, NoSock
<1> QED BY <1>1, <1>2, <1>3 DEF ReadProbe
\* While nothing drifts, a step of the poller keeps its lines in step.
LEMMA PollerInStep ==
    ASSUME TypeOK, LinesInStep, Poller, ~Drifts
    PROVE  LinesInStep'
<1> USE DEF PollerAt, link, session
<1>0. /\ LinkTypeOK /\ SessionTypeOK /\ UriList[idx] \in Uri /\ Health \in Uri
      /\ ppc \in PollerPc
  <2>1. idx \in 1 .. Len(UriList)
    BY DEF TypeOK, PollerTypeOK, Pos
  <2> QED BY <2>1, BackendAssumption, StatsMcAssumption, ElementOfSeq DEF TypeOK, PollerTypeOK
<1>1. CASE Start \/ BeginVisit \/ IsConnected \/ EnterPolling
  BY <1>1 DEF Start, BeginVisit, IsConnected, EnterPolling, LinesInStep
<1>2. CASE ConnectDone
  BY <1>2 DEF ConnectDone, Connect, Bail, NewSock, NoSock, LinesInStep
<1>3. ASSUME NEW err \in Errno, ConnectRetry(err) \/ ConnectGiveUp(err)
      PROVE  LinesInStep'
  BY <1>3 DEF ConnectRetry, ConnectGiveUp, Connect, Bail, NoSock, LinesInStep
<1>4. CASE SendStats
  <2>1. ppc = "send" /\ ppc' = "read" /\ UNCHANGED idx /\ UriList[idx] # Health
    BY <1>4 DEF SendStats
  <2>2. Refused' \/ (InStep(UriList[idx])' /\ ~HasEnd(buf') /\ Begins(buf', sock'.inbox))
    BY <1>0, <1>4, <2>1, SentInStep DEF SendStats, LinesInStep
  <2> QED BY <2>1, <2>2 DEF LinesInStep, InStep
<1>5. ASSUME NEW err \in Errno, SendStatsFails(err) \/ SendProbeFails(err)
      PROVE  LinesInStep'
  <2>1. /\ ppc = "send" /\ ppc' \in {"next", "lock"} /\ UNCHANGED idx
        /\ Write(UriList[idx], err)
        /\ ppc' = "lock" => UriList[idx] = Health
    BY <1>5 DEF SendStatsFails, SendProbeFails
  <2>2. ~sock'.open
    BY <2>1 DEF Drifts
  <2>3. sock'.inbox = <<>>
    BY <1>0, <2>1, <2>2, GivenUp
  <2> QED BY <2>1, <2>3 DEF LinesInStep
<1>6. CASE SendProbe
  <2>1. ppc = "send" /\ ppc' = "probe" /\ UNCHANGED idx /\ UriList[idx] = Health
    BY <1>6 DEF SendProbe
  <2>2. sock'.inbox = <<>> \/ Single(sock'.inbox, {"STORED", "ERROR", "SERVER_ERROR"})
    BY <1>0, <1>6, <2>1, ProbeSentInStep DEF SendProbe, LinesInStep
  <2> QED BY <2>1, <2>2 DEF LinesInStep
<1>7. ASSUME NEW alive \in BOOLEAN, ProbeRead(alive)
      PROVE  LinesInStep'
  <2>1. ppc = "probe" /\ ppc' = "lock" /\ UNCHANGED idx /\ ReadProbe(alive)
    BY <1>7 DEF ProbeRead
  <2>2. sock'.inbox = <<>>
    BY <1>0, <2>1, ProbeReadInStep DEF Drifts, LinesInStep
  <2> QED BY <2>1, <2>2 DEF LinesInStep
<1>8. CASE ReplyRead
  <2> DEFINE u == UriList[idx]
  <2>1. /\ ppc = "read" /\ UNCHANGED idx
        /\ \/ Refused
           \/ /\ InStep(u) /\ ~HasEnd(buf)
              /\ new_stats = <<>> => Begins(buf, sock.inbox)
    BY <1>8 DEF ReplyRead, LinesInStep
  <2>2. OfReply(new_stats, u)
    BY <1>0, <2>1, NothingOfReply, InStepOfReply DEF Refused
  <2>3. ASSUME ppc' = "read", NEW k \in 1 .. Len(sock.inbox), ReadMore(k)
        PROVE  LinesInStep'
    <3>1. ~Refused
      BY <1>0, <2>3, RefusedUnread
    <3>2. /\ InStep(u)' /\ ~HasEnd(buf')
          /\ new_stats' = <<>> => Begins(buf', sock'.inbox)
      BY <1>0, <2>1, <2>3, <3>1, ReadMoreInStep
    <3> QED BY <2>1, <2>3, <3>2 DEF LinesInStep, InStep
  <2>4. ASSUME ppc' = "parse", NEW k \in 1 .. Len(sock.inbox), ReadBuffer(k)
        PROVE  LinesInStep'
    <3>1. ~Refused
      BY <1>0, <2>4, RefusedUnread
    <3>2. /\ InStep(u)' /\ (HasEnd(buf') => done') /\ (done' => sock'.inbox = <<>>)
          /\ done' \/ new_stats' # <<>> \/ (buf' # <<>> /\ Head(buf').kind = "STAT")
      BY <1>0, <2>1, <2>4, <3>1, ReadBufferInStep
    <3> QED BY <2>1, <2>4, <3>2 DEF LinesInStep, InStep
  <2>5. ASSUME ppc' = "parse", ReadEof
        PROVE  LinesInStep'
    <3>1. /\ sock.inbox = <<>> /\ done' = TRUE
          /\ UNCHANGED <<sock, buf, new_stats>>
      BY <2>5 DEF ReadEof
    <3>2. InStep(u)
      BY <2>1, <3>1, EmptySeq DEF Refused, Single
    <3>3. InStep(u)'
      BY <2>1, <3>1, <3>2 DEF InStep
    <3> QED BY <2>1, <2>5, <3>1, <3>3 DEF LinesInStep, InStep
  <2>6. ASSUME ppc' = "lock", sock' = NoSock, UNCHANGED new_stats
        PROVE  LinesInStep'
    BY <2>1, <2>2, <2>6 DEF LinesInStep, NoSock
  <2> QED BY <1>8, <2>3, <2>4, <2>5, <2>6 DEF ReplyRead, ReadErrorReply, ReadFails, Take, Bail
<1>9. CASE ReplyParsed
  <2> DEFINE u == UriList[idx]
  <2>1. /\ ppc = "parse" /\ UNCHANGED idx /\ InStep(u)
        /\ HasEnd(buf) => done
        /\ done => sock.inbox = <<>>
        /\ done \/ new_stats # <<>> \/ (buf # <<>> /\ Head(buf).kind = "STAT")
    BY <1>9 DEF ReplyParsed, LinesInStep
  <2>2. CASE ppc' = "parse" /\ ParseLine
    <3>1. /\ InStep(u)' /\ (HasEnd(buf') => HasEnd(buf))
          /\ new_stats # <<>> \/ Head(buf).kind = "STAT" => new_stats' # <<>>
      BY <1>0, <2>1, <2>2, ParseInStep
    <3>2. UNCHANGED <<sock, done>>
      BY <2>2 DEF ParseLine
    <3> QED BY <2>1, <2>2, <3>1, <3>2 DEF LinesInStep, InStep
  <2>3. CASE ppc' = "read" /\ ParseMore
    <3>1. UNCHANGED <<sock, buf, new_stats>> /\ buf = <<>> /\ new_stats # <<>>
      BY <2>3 DEF ParseMore
    <3>2. InStep(u)' /\ ~HasEnd(buf')
      BY <2>1, <3>1, EmptySeq DEF InStep, HasEnd, Has
    <3> QED BY <2>1, <2>3, <3>1, <3>2 DEF LinesInStep, InStep
  <2>4. CASE ppc' = "lock" /\ ParseEnd
    <3>1. UNCHANGED <<sock, new_stats>> /\ buf = <<>> /\ (done \/ new_stats = <<>>)
      BY <2>4 DEF ParseEnd
    <3>2. sock'.inbox = <<>>
      BY <2>1, <3>1
    <3>3. OfReply(new_stats', u)
      BY <1>0, <2>1, <3>1, InStepOfReply
    <3> QED BY <2>1, <2>4, <3>2, <3>3 DEF LinesInStep
  <2> QED BY <1>9, <2>2, <2>3, <2>4 DEF ReplyParsed
<1>10. CASE LockForUpdate \/ RemoveOldStats \/ AddNewStats \/ NextUri
  BY <1>10 DEF LockForUpdate, RemoveOldStats, AddNewStats, NextUri, LinesInStep
<1>11. CASE EndRound
  BY <1>11 DEF EndRound, Disconnect, NoSock, LinesInStep
<1> QED BY <1>1, <1>2, <1>3, <1>4, <1>5, <1>6, <1>7, <1>8, <1>9, <1>10, <1>11 DEF Poller

\* A step of a client leaves the connection and the poller.
LEMMA ClientInStep ==
    ASSUME LinesInStep, NEW c \in Client, ClientStep(c)
    PROVE  LinesInStep'
BY DEF ClientStep, link, session, poller, LinesInStep, InStep, Refused

-----------------------------------------------------------------------------
(* Lists in step on a connection that has not drifted *)

\* Only checkAndConnect opens a socket, and a new one holds nothing.
LEMMA Opens ==
    ASSUME TypeOK, Poller, ~sock.open, sock'.open
    PROVE  ppc' = "polling" /\ sock'.inbox = <<>>
<1> USE DEF PollerAt, link, session, TypeOK
<1>1. CASE ConnectDone
  BY <1>1 DEF ConnectDone, Connect, Bail, NewSock, NoSock
<1>2. ASSUME NEW err \in Errno,
             \/ ConnectRetry(err) \/ ConnectGiveUp(err)
             \/ SendStatsFails(err) \/ SendProbeFails(err)
      PROVE  FALSE
  <2>1. Connect(err) \/ Write(UriList[idx], err) \/ Write(Health, err)
    BY <1>2 DEF ConnectRetry, ConnectGiveUp, SendStatsFails, SendProbeFails
  <2>2. CASE Connect(err)
    <3>1. err # "OK"
      BY <1>2, <2>2 DEF ConnectRetry, ConnectGiveUp, SendStatsFails, SendProbeFails
    <3> QED BY <2>2, <3>1 DEF Connect, Bail, NoSock
  <2>3. ASSUME NEW u, Write(u, err)
        PROVE  FALSE
    <3>1. CASE Sent(u, err)
      BY <3>1 DEF Sent
    <3>2. CASE NotSent(u, err)
      BY <3>2 DEF NotSent, Bail, NoSock
    <3> QED BY <2>3, <3>1, <3>2 DEF Write
  <2> QED BY <2>1, <2>2, <2>3
<1>3. CASE SendStats \/ SendProbe
  BY <1>3 DEF SendStats, SendProbe, Write, Sent, NotSent, Bail, NoSock
<1>4. CASE ReplyRead \/ ReplyParsed
  BY <1>4 DEF ReplyRead, ReadMore, ReadBuffer, ReadErrorReply, ReadEof, ReadFails, Take, Bail,
              NoSock, ReplyParsed, ParseLine, ParseMore, ParseEnd
<1>5. ASSUME NEW alive \in BOOLEAN, ProbeRead(alive)
      PROVE  FALSE
  BY <1>5 DEF ProbeRead, ReadProbe, ReadStored, ReadOther, ReadProbeError, ReadProbeFails,
              Bail, NoSock
<1>6. CASE \/ Start \/ BeginVisit \/ IsConnected \/ EnterPolling
           \/ LockForUpdate \/ RemoveOldStats \/ AddNewStats \/ NextUri \/ EndRound
  BY <1>6 DEF Start, BeginVisit, IsConnected, EnterPolling, LockForUpdate, RemoveOldStats,
              AddNewStats, NextUri, EndRound, Disconnect, NoSock
<1> QED BY <1>1, <1>2, <1>3, <1>4, <1>5, <1>6 DEF Poller

LEMMA DriftStep ==
    ASSUME TypeOK, DriftInv, [DriftNext]_<<vars, drift>>
    PROVE  DriftInv'
<1>1. CASE UNCHANGED <<vars, drift>>
  BY <1>1 DEF vars, link, session, poller, DriftInv, LinesInStep, InStep, Refused
<1>2. CASE DriftNext /\ Poller
  <2> SUFFICES ASSUME ~drift' PROVE LinesInStep'
    BY DEF DriftInv
  <2>1. CASE sock'.open /\ ~sock.open
    BY <1>2, <2>1, Opens DEF LinesInStep
  <2>2. CASE ~(sock'.open /\ ~sock.open)
    <3>1. ~drift /\ ~Drifts
      BY <1>2, <2>2 DEF DriftNext
    <3> QED BY <1>2, <3>1, PollerInStep DEF DriftInv
  <2> QED BY <2>1, <2>2
<1>3. ASSUME NEW c \in Client, ClientStep(c), DriftNext
      PROVE  DriftInv'
  <2>1. UNCHANGED sock
    BY <1>3 DEF ClientStep, link
  <2>2. ~drift' => ~drift
    BY <1>3, <2>1 DEF DriftNext
  <2> QED BY <1>3, <2>2, ClientInStep DEF DriftInv
<1> QED BY <1>1, <1>2, <1>3 DEF DriftNext, Next

\* getStat publishes the reply to its own command as long as no command was given up after
\* it went out and no probe was answered with more than it reads.
THEOREM ListsStayInStep == DriftSpec => []ListsInStep
<1>1. DriftInit => TypeOK /\ DriftInv
  BY InitType DEF DriftInit, Init, StatsMcInit, NoSock, DriftInv, LinesInStep
<1>2. TypeOK /\ DriftInv /\ [DriftNext]_<<vars, drift>> => TypeOK' /\ DriftInv'
  <2>1. [DriftNext]_<<vars, drift>> => [Next]_vars
    BY DEF DriftNext
  <2> QED BY <2>1, NextType, DriftStep
<1>3. DriftInv => ListsInStep
  BY DEF DriftInv, LinesInStep, ListsInStep
<1> QED BY <1>1, <1>2, <1>3, PTL DEF DriftSpec

-----------------------------------------------------------------------------
(* The first list of a round *)

\* What happens at the first uri, and what leads to it.
LEMMA FirstVisit ==
    ASSUME TypeOK, FirstInv, Poller, UriList[1] # Health, idx' = 1, ppc' # "next"
    PROVE  LinesInStep'
<1> USE DEF PollerAt
<1>0. idx \in Pos /\ Len(UriList) \in Nat
  BY BackendAssumption, LenProperties DEF TypeOK, PollerTypeOK
<1>1. CASE EndRound \/ \E err \in Errno : ConnectGiveUp(err)
  BY <1>1 DEF EndRound, Disconnect, ConnectGiveUp, Connect, Bail, NoSock, LinesInStep
<1>2. CASE ~EndRound /\ ~\E err \in Errno : ConnectGiveUp(err)
  <2>1. ~NextUri
    BY <1>0 DEF NextUri, Pos
  <2>2. idx = 1 /\ ppc # "next"
    BY <1>2, <2>1 DEF Poller, Start, BeginVisit, EnterPolling, IsConnected, ConnectDone,
         ConnectRetry, SendStats, SendProbe, SendStatsFails, SendProbeFails, ReplyRead,
         ReplyParsed, ProbeRead, LockForUpdate, RemoveOldStats, AddNewStats
  <2>3. LinesInStep
    BY <2>2 DEF FirstInv
  <2>4. ~Drifts
    <3>1. ppc # "probe"
      BY <2>2, <2>3 DEF LinesInStep
    <3>2. ~(ppc = "send" /\ ppc' = "lock")
      BY <2>2 DEF Poller, Start, BeginVisit, EnterPolling, IsConnected, ConnectDone,
           ConnectRetry, ConnectGiveUp, SendStats, SendProbe, SendStatsFails, SendProbeFails,
           ReplyRead, ReplyParsed, ProbeRead, LockForUpdate, RemoveOldStats, AddNewStats,
           NextUri, EndRound
    <3> QED BY <3>1, <3>2 DEF Drifts
  <2> QED BY <2>3, <2>4, PollerInStep
<1> QED BY <1>1, <1>2

LEMMA FirstStep ==
    ASSUME Inv, FirstInv, [Next]_vars
    PROVE  FirstInv'
<1> SUFFICES ASSUME UriList[1] # Health
             PROVE  /\ idx' = 1 /\ ppc' # "next" => LinesInStep'
                    /\ OfReply(stats'[1], UriList[1])
  BY DEF FirstInv
<1>0. OfReply(stats[1], UriList[1])
  BY DEF FirstInv
<1>1. CASE UNCHANGED vars
  BY <1>1, <1>0 DEF vars, link, session, poller, shared, FirstInv, LinesInStep, InStep, Refused
<1>2. CASE Poller
  <2>1. stats \in [Pos -> Seq(Entry)] /\ new_stats \in Seq(Entry) /\ 1 \in Pos
    <3>1. Len(UriList) \in Nat \ {0}
      BY BackendAssumption, EmptySeq
    <3> QED BY <3>1 DEF Inv, TypeOK, SharedTypeOK, SessionTypeOK, Pos
  <2>2. CASE RemoveOldStats
    <3>1. stats'[1] = stats[1] \/ stats'[1] = <<>>
      BY <2>1, <2>2 DEF RemoveOldStats
    <3>2. OfReply(stats'[1], UriList[1])
      BY <1>0, <3>1, NothingOfReply
    <3> QED BY <1>2, <3>2, FirstVisit DEF Inv
  <2>3. CASE AddNewStats
    <3>1. CASE idx = 1
      <4>1. stats'[1] = stats[1] \o new_stats /\ ppc = "add"
        BY <2>1, <2>3, <3>1 DEF AddNewStats, PollerAt
      <4>2. stats[1] = <<>>
        BY <3>1, <4>1 DEF Inv, UpdateInv
      <4>3. stats'[1] = new_stats
        BY <2>1, <4>1, <4>2, ConcatEmptySeq
      <4>4. OfReply(new_stats, UriList[1])
        BY <3>1, <4>1 DEF FirstInv, LinesInStep
      <4> QED BY <1>2, <4>3, <4>4, FirstVisit DEF Inv
    <3>2. CASE idx # 1
      <4>1. stats'[1] = stats[1]
        BY <2>1, <2>3, <3>2 DEF AddNewStats
      <4> QED BY <1>0, <1>2, <4>1, FirstVisit DEF Inv
    <3> QED BY <3>1, <3>2
  <2>4. CASE ~RemoveOldStats /\ ~AddNewStats
    <3>1. stats' = stats
      BY <1>2, <2>4 DEF Poller, Start, BeginVisit, EnterPolling, SetState, IsConnected,
           ConnectDone, ConnectRetry, ConnectGiveUp, SendStats, SendProbe, SendStatsFails,
           SendProbeFails, ReplyRead, ReplyParsed, ProbeRead, LockForUpdate, NextUri, EndRound
    <3> QED BY <1>0, <1>2, <3>1, FirstVisit DEF Inv
  <2> QED BY <2>2, <2>3, <2>4
<1>3. ASSUME NEW c \in Client, ClientStep(c)
      PROVE  /\ idx' = 1 /\ ppc' # "next" => LinesInStep'
             /\ OfReply(stats'[1], UriList[1])
  <2>1. UNCHANGED <<stats, ppc, idx>>
    BY <1>3 DEF ClientStep, poller
  <2> QED BY <1>0, <1>3, <2>1, ClientInStep DEF FirstInv
<1> QED BY <1>1, <1>2, <1>3 DEF Next

\* Whatever went wrong in the round before, the list of the first uri is what memcached
\* answered to its command, from one snapshot of its counters.
THEOREM FirstListIsTrue == Spec => []FirstListTrue
<1>1. Init => FirstInv
  <2> SUFFICES ASSUME Init PROVE FirstInv
    OBVIOUS
  <2>1. sock.inbox = <<>> /\ ppc = "start"
    BY DEF Init, StatsMcInit, NoSock
  <2>2. stats[1] = <<>>
    <3>1. Len(UriList) \in Nat \ {0}
      BY BackendAssumption, EmptySeq
    <3> QED BY <3>1 DEF Init, Pos
  <2> QED BY <2>1, <2>2, NothingOfReply DEF FirstInv, LinesInStep
<1>2. Inv /\ FirstInv /\ [Next]_vars => FirstInv'
  BY FirstStep
<1>3. FirstInv => FirstListTrue
  BY DEF FirstInv, FirstListTrue, SnapshotAt
<1> QED BY <1>1, <1>2, <1>3, InvHolds, PTL DEF Spec

-----------------------------------------------------------------------------
(* Honest probes *)

\* Lines that are taken from what is unread, and lines of a stats command, bring no STORED.
LEMMA NoNewStored ==
    ASSUME LinkTypeOK, NEW k \in 1 .. Len(sock.inbox), NEW a \in Arrivals(k),
           Has(a.rest, {"STORED"})
    PROVE  Has(sock.inbox, {"STORED"})
<1> DEFINE s == sock.inbox
           r == a.rest
<1>1. s \in Seq(Wire) /\ Len(s) \in Nat /\ k \in Nat /\ s[k] \in Wire
  BY LenProperties, ElementOfSeq
<1>2. \A t \in Torn(s[k]) : t[1] \in Wire /\ t[2] \in Wire /\ t[2].kind # "STORED"
  <2>1. \A t \in Torn(s[k]) :
           t[2] = Scrap \/ (t[2] = s[k] /\ s[k].kind # "STORED") \/ t[2] = Piece(s[k], "ERROR")
    BY DEF Torn
  <2>2. Piece(s[k], "ERROR").kind = "ERROR"
    BY <1>1 DEF Piece, Wire
  <2> QED BY <1>1, <2>1, <2>2, ScrapType, TornType
<1>3. /\ r \in Seq(Wire)
      /\ \/ /\ Len(r) = Len(s) - k
            /\ \A i \in 1 .. Len(r) : r[i] = s[k + i]
         \/ /\ \E t \in Torn(s[k]) : r[1] = t[2]
            /\ Len(r) = Len(s) - k + 1
            /\ \A i \in 1 .. Len(s) - k : r[i + 1] = s[k + i]
  BY <1>1, <1>2, ArrivalLines
<1>4. PICK i \in 1 .. Len(r) : r[i].kind = "STORED"
  BY DEF Has
<1>5. Len(r) \in Nat
  BY <1>3, LenProperties
<1> HIDE DEF s, r
<1>6. CASE Len(r) = Len(s) - k /\ \A n \in 1 .. Len(r) : r[n] = s[k + n]
  <2>1. k + i \in 1 .. Len(s)
    BY <1>1, <1>5, <1>6
  <2> QED BY <1>4, <1>6, <2>1 DEF Has, s
<1>7. CASE /\ \E t \in Torn(s[k]) : r[1] = t[2]
           /\ Len(r) = Len(s) - k + 1
           /\ \A n \in 1 .. Len(s) - k : r[n + 1] = s[k + n]
  <2>1. i # 1
    BY <1>2, <1>4, <1>7
  <2>2. PICK n \in 1 .. Len(s) - k : n + 1 = i
    BY <1>1, <1>5, <1>7, <2>1
  <2>3. r[n + 1] = s[k + n] /\ k + n \in 1 .. Len(s)
    BY <1>1, <1>7
  <2> QED BY <1>4, <2>2, <2>3 DEF Has, s
<1> QED BY <1>3, <1>6, <1>7

LEMMA StatsBringNoStored ==
    ASSUME LinkTypeOK, NEW u \in Uri, u # Health, NEW err \in Errno, Write(u, err)
    PROVE  /\ Has(sock'.inbox, {"STORED"}) => Has(sock.inbox, {"STORED"})
           /\ stored' = stored
<1>1. CASE NotSent(u, err)
  BY <1>1, EmptySeq DEF NotSent, Bail, NoSock, Has
<1>2. CASE Sent(u, err) /\ sock.eof
  BY <1>2 DEF Sent
<1>3. CASE Sent(u, err) /\ ~sock.eof
  <2>1. PICK a \in Answers(u) :
           /\ sock' = [sock EXCEPT !.inbox = @ \o a.lines, !.eof = a.eof]
           /\ stored' = IF u = Health THEN Has(a.lines, {"STORED"}) ELSE stored
    BY <1>3 DEF Sent
  <2>2. a.lines \in Seq(Wire) /\ sock.inbox \in Seq(Wire)
    BY AnswersType
  <2>3. sock'.inbox = sock.inbox \o a.lines
    BY <2>1
  <2>4. ~Has(a.lines, {"STORED"})
    <3>1. CASE \E v \in Version : Said(a.lines, u, v)
      BY <3>1, SaidLines, LinesOfKinds DEF Has, Real
    <3>2. CASE Single(a.lines, {"ERROR", "SERVER_ERROR"})
      BY <3>2 DEF Single, Has
    <3> QED BY <3>1, <3>2, StatsAnswer
  <2>5. Has(sock'.inbox, {"STORED"}) => Has(sock.inbox, {"STORED"})
    <3> SUFFICES ASSUME NEW i \in 1 .. Len(sock'.inbox), sock'.inbox[i].kind = "STORED"
                 PROVE  Has(sock.inbox, {"STORED"})
      BY DEF Has
    <3>1. /\ Len(sock.inbox) \in Nat /\ Len(a.lines) \in Nat
          /\ i \in 1 .. Len(sock.inbox) + Len(a.lines)
          /\ sock'.inbox[i] = IF i <= Len(sock.inbox) THEN sock.inbox[i]
                                ELSE a.lines[i - Len(sock.inbox)]
      BY <2>2, <2>3, ConcatProperties, LenProperties
    <3>2. CASE i <= Len(sock.inbox)
      BY <3>1, <3>2 DEF Has
    <3>3. CASE i > Len(sock.inbox)
      <4>1. i - Len(sock.inbox) \in 1 .. Len(a.lines)
        BY <3>1, <3>3
      <4> QED BY <2>4, <3>1, <3>3, <4>1 DEF Has
    <3> QED BY <3>1, <3>2, <3>3
  <2> QED BY <2>1, <2>5
<1> QED BY <1>1, <1>2, <1>3 DEF Write

\* The one probe of a connection decides what is stored.
LEMMA ProbeStores ==
    ASSUME LinkTypeOK, ~Has(sock.inbox, {"STORED"}), NEW err \in Errno, Write(Health, err),
           Has(sock'.inbox, {"STORED"})
    PROVE  stored'
<1>0. Health \in Uri
  BY StatsMcAssumption
<1>1. CASE NotSent(Health, err)
  BY <1>1, EmptySeq DEF NotSent, Bail, NoSock, Has
<1>2. CASE Sent(Health, err) /\ sock.eof
  BY <1>2 DEF Sent
<1>3. CASE Sent(Health, err) /\ ~sock.eof
  <2>1. PICK a \in Answers(Health) :
           /\ sock' = [sock EXCEPT !.inbox = @ \o a.lines, !.eof = a.eof]
           /\ stored' = Has(a.lines, {"STORED"})
    BY <1>3 DEF Sent
  <2>2. a.lines \in Seq(Wire) /\ sock.inbox \in Seq(Wire)
    BY <1>0, AnswersType
  <2>3. sock'.inbox = sock.inbox \o a.lines
    BY <2>1
  <2>4. PICK i \in 1 .. Len(sock'.inbox) : sock'.inbox[i].kind = "STORED"
    BY DEF Has
  <2>5. /\ Len(sock.inbox) \in Nat /\ Len(a.lines) \in Nat
        /\ i \in 1 .. Len(sock.inbox) + Len(a.lines)
        /\ sock'.inbox[i] = IF i <= Len(sock.inbox) THEN sock.inbox[i]
                              ELSE a.lines[i - Len(sock.inbox)]
    BY <2>2, <2>3, <2>4, ConcatProperties, LenProperties
  <2>6. i > Len(sock.inbox)
    BY <2>4, <2>5 DEF Has
  <2>7. i - Len(sock.inbox) \in 1 .. Len(a.lines)
    BY <2>5, <2>6
  <2> QED BY <2>1, <2>4, <2>5, <2>6, <2>7 DEF Has
<1> QED BY <1>1, <1>2, <1>3 DEF Write

LEMMA BittenKinds ==
    ASSUME NEW s \in Seq(Wire), Has(Bitten(s), {"STORED"})
    PROVE  Has(s, {"STORED"})
BY BittenType, ScrapType DEF Has

\* The probe reads away STORED, or a part of something else.
LEMMA ProbeTakes ==
    ASSUME LinkTypeOK, NEW alive \in BOOLEAN, ReadProbe(alive)
    PROVE  /\ Has(sock'.inbox, {"STORED"}) => Has(sock.inbox, {"STORED"})
           /\ alive => Has(sock.inbox, {"STORED"})
           /\ UNCHANGED stored
<1>1. CASE ReadStored
  <2>1. sock.inbox # <<>> /\ Head(sock.inbox).kind = "STORED" /\ Consume(1)
    BY <1>1 DEF ReadStored
  <2>2. 1 \in 1 .. Len(sock.inbox) /\ Head(sock.inbox) = sock.inbox[1]
    BY <2>1, EmptySeq
  <2>3. Has(sock.inbox, {"STORED"})
    BY <2>1, <2>2 DEF Has
  <2> QED BY <2>3 DEF ReadProbe
<1>2. CASE ~alive /\ ReadOther
  <2>1. PICK rest \in Leftovers(sock.inbox) : sock' = [sock EXCEPT !.inbox = rest]
    BY <1>2 DEF ReadOther
  <2>2. sock'.inbox = rest
    BY <2>1
  <2>3. PICK n \in 0 .. Len(sock.inbox) :
           LET t == SubSeq(sock.inbox, n + 1, Len(sock.inbox))
           IN  t \in Seq(Wire) /\ (rest = Bitten(t) \/ rest = t)
    BY <2>1, LeftoversEnd
  <2> DEFINE t == SubSeq(sock.inbox, n + 1, Len(sock.inbox))
  <2>4. Has(rest, {"STORED"}) => Has(sock.inbox, {"STORED"})
    <3>1. /\ Len(sock.inbox) \in Nat /\ Len(t) = Len(sock.inbox) - n
          /\ \A i \in 1 .. Len(sock.inbox) - n : t[i] = sock.inbox[n + i]
      BY Split, LenProperties
    <3>2. t \in Seq(Wire) /\ (rest = Bitten(t) \/ rest = t)
      BY <2>3
    <3> HIDE DEF t
    <3>3. Has(rest, {"STORED"}) => Has(t, {"STORED"})
      BY <3>2, BittenKinds
    <3>4. Has(t, {"STORED"}) => Has(sock.inbox, {"STORED"})
      <4> SUFFICES ASSUME NEW i \in 1 .. Len(t), t[i].kind = "STORED"
                   PROVE  Has(sock.inbox, {"STORED"})
        BY DEF Has
      <4>1. n + i \in 1 .. Len(sock.inbox) /\ i \in 1 .. Len(sock.inbox) - n
        BY <3>1
      <4> QED BY <3>1, <4>1 DEF Has
    <3> QED BY <3>3, <3>4
  <2> QED BY <1>2, <2>2, <2>4 DEF ReadProbe
<1>3. CASE ~alive /\ (ReadProbeError \/ ReadProbeFails)
  <2>1. sock'.inbox = <<>>
    BY <1>3 DEF ReadProbeError, ReadProbeFails, Bail, NoSock
  <2>2. ~Has(sock'.inbox, {"STORED"})
    BY <2>1, EmptySeq DEF Has
  <2> QED BY <1>3, <2>2 DEF ReadProbe
<1> QED BY <1>1, <1>2, <1>3 DEF ReadProbe

LEMMA StoredStep ==
    ASSUME TypeOK, StoredInv, Poller
    PROVE  StoredInv'
<1> USE DEF PollerAt, link, session, TypeOK, PollerTypeOK
<1>0. idx \in Nat /\ UriList[idx] \in Uri
  BY BackendAssumption, ElementOfSeq DEF Pos
<1>1. CASE Start \/ BeginVisit \/ IsConnected \/ EnterPolling
  BY <1>1 DEF Start, BeginVisit, IsConnected, EnterPolling, SetState, StoredInv
<1>2. CASE ConnectDone \/ EndRound \/ \E err \in Errno : ConnectRetry(err) \/ ConnectGiveUp(err)
  <2>1. sock'.inbox = <<>>
    BY <1>2 DEF ConnectDone, EndRound, ConnectRetry, ConnectGiveUp, Connect, Disconnect,
                Bail, NoSock, NewSock
  <2> QED BY <2>1, EmptySeq DEF StoredInv, Has
<1>3. CASE NextUri
  <2>1. UNCHANGED <<sock, stored>> /\ idx' = idx + 1 /\ ppc = "next"
    BY <1>3 DEF NextUri
  <2> QED BY <1>0, <2>1 DEF StoredInv, Pos
<1>4. CASE SendStats \/ \E err \in Errno : SendStatsFails(err)
  <2>1. PICK err \in Errno : Write(UriList[idx], err)
    BY <1>4 DEF SendStats, SendStatsFails, Errno
  <2>2. UriList[idx] # Health /\ idx' = idx /\ ppc = "send" /\ ppc' \in {"read", "next"}
    BY <1>4 DEF SendStats, SendStatsFails
  <2>3. Has(sock'.inbox, {"STORED"}) => Has(sock.inbox, {"STORED"})
    BY <1>0, <2>1, <2>2, StatsBringNoStored
  <2>4. stored' = stored
    BY <1>0, <2>1, <2>2, StatsBringNoStored
  <2> QED BY <2>2, <2>3, <2>4 DEF StoredInv
<1>5. CASE SendProbe \/ \E err \in Errno : SendProbeFails(err)
  <2>1. PICK err \in Errno : Write(Health, err)
    BY <1>5 DEF SendProbe, SendProbeFails, Errno
  <2>2. UriList[idx] = Health /\ idx' = idx /\ ppc = "send" /\ ppc' \in {"probe", "lock"}
    BY <1>5 DEF SendProbe, SendProbeFails
  <2>3. ~Has(sock.inbox, {"STORED"})
    BY <1>0, <2>2 DEF StoredInv
  <2>4. Has(sock'.inbox, {"STORED"}) => stored'
    BY <2>1, <2>3, ProbeStores
  <2>5. \A i \in Pos : UriList[i] = Health => i = idx'
    BY <2>2, BackendAssumption DEF Pos
  <2> QED BY <2>2, <2>4, <2>5 DEF StoredInv
<1>6. ASSUME NEW alive \in BOOLEAN, ProbeRead(alive)
      PROVE  StoredInv'
  <2>1. ReadProbe(alive) /\ idx' = idx /\ ppc = "probe" /\ ppc' = "lock"
    BY <1>6 DEF ProbeRead
  <2>2. (Has(sock'.inbox, {"STORED"}) => Has(sock.inbox, {"STORED"})) /\ UNCHANGED stored
    BY <2>1, ProbeTakes
  <2> QED BY <2>1, <2>2 DEF StoredInv
<1>7. CASE ReplyRead
  <2>1. /\ UNCHANGED <<idx, stored>> /\ ppc = "read" /\ ppc' \in {"read", "parse", "lock"}
    BY <1>7 DEF ReplyRead, ReadMore, ReadBuffer, ReadErrorReply, ReadEof, ReadFails, Take
  <2>2. \/ \E k \in 1 .. Len(sock.inbox) : \E a \in Arrivals(k) : sock'.inbox = a.rest
        \/ sock' \in {sock, NoSock}
    <3>1. ASSUME NEW k \in 1 .. Len(sock.inbox), ReadMore(k)
          PROVE  \E a \in Arrivals(k) : sock'.inbox = a.rest
      <4> DEFINE a == [got  |-> SubSeq(sock.inbox, 1, k),
                       rest |-> SubSeq(sock.inbox, k + 1, Len(sock.inbox))]
      <4>1. a \in Arrivals(k)
        BY DEF Arrivals
      <4>2. sock'.inbox = a.rest
        BY <3>1 DEF ReadMore, Consume
      <4> QED BY <4>1, <4>2
    <3>2. ASSUME NEW k \in 1 .. Len(sock.inbox), ReadBuffer(k)
          PROVE  \E a \in Arrivals(k) : sock'.inbox = a.rest
      <4>1. PICK a \in Arrivals(k) : sock' = [sock EXCEPT !.inbox = a.rest]
        BY <3>2 DEF ReadBuffer
      <4> QED BY <4>1
    <3> QED BY <1>7, <3>1, <3>2 DEF ReplyRead, ReadErrorReply, ReadEof, ReadFails, Bail
  <2>3. Has(sock'.inbox, {"STORED"}) => Has(sock.inbox, {"STORED"})
    BY <2>2, NoNewStored, EmptySeq DEF NoSock, Has
  <2> QED BY <2>1, <2>3 DEF StoredInv
<1>8. CASE ReplyParsed \/ LockForUpdate \/ RemoveOldStats \/ AddNewStats
  BY <1>8 DEF ReplyParsed, ParseLine, ParseMore, ParseEnd, LockForUpdate, RemoveOldStats,
              AddNewStats, StoredInv
<1> QED BY <1>1, <1>2, <1>3, <1>4, <1>5, <1>6, <1>7, <1>8 DEF Poller

\* The entries of getHealth.
LEMMA HealthStatsKinds ==
    ASSUME NEW alive \in BOOLEAN
    PROVE  Has(HealthStats(alive), {"LIVE"}) => alive
<1>1. HealthStats(FALSE)[1].kind = "AGE" /\ HealthStats(FALSE)[2].kind = "DEAD"
  BY DEF HealthStats, Line
<1>2. Len(HealthStats(FALSE)) = 2
  BY DEF HealthStats
<1>3. \A i \in 1 .. 2 : HealthStats(FALSE)[i].kind # "LIVE"
  <2>1. \A i \in 1 .. 2 : i = 1 \/ i = 2
    OBVIOUS
  <2> QED BY <1>1, <2>1
<1>4. ~Has(HealthStats(FALSE), {"LIVE"})
  BY <1>2, <1>3 DEF Has
<1>5. alive = TRUE \/ alive = FALSE
  OBVIOUS
<1> QED BY <1>4, <1>5

\* A line becomes a stat or a fragment of one.
LEMMA ParsedKinds ==
    ASSUME SessionTypeOK, ParseLine, ~Has(new_stats, {"LIVE"})
    PROVE  ~Has(new_stats', {"LIVE"})
<1>1. CASE new_stats' = new_stats
  BY <1>1
<1>2. CASE Head(buf).kind \in {"STAT", "CUT", "FRAG"} /\ new_stats' = Append(new_stats, Head(buf))
  <2>1. Head(buf) \in Entry
    <3>1. Head(buf) \in Wire
      BY HeadTailProperties DEF ParseLine
    <3> QED BY <1>2, <3>1 DEF Entry, EntryKind, Wire
  <2>2. /\ Len(new_stats) \in Nat /\ Len(new_stats') = Len(new_stats) + 1
        /\ \A i \in 1 .. Len(new_stats) : new_stats'[i] = new_stats[i]
        /\ new_stats'[Len(new_stats) + 1] = Head(buf)
    BY <1>2, <2>1, AppendProperties, LenProperties
  <2>3. \A i \in 1 .. Len(new_stats) : new_stats[i].kind # "LIVE"
    BY DEF Has
  <2> QED BY <1>2, <2>2, <2>3 DEF Has
<1> QED BY <1>1, <1>2 DEF ParseLine

LEMMA HonestStep ==
    ASSUME TypeOK, ProbeInv, Poller
    PROVE  BuildingInv' /\ HealthHonest'
<1> USE DEF PollerAt, link, session, TypeOK
<1> DEFINE Filling == {"read", "parse"}
           Filled == {"lock", "remove", "add"}
<1>1. ASSUME ppc' \notin Filling \cup Filled
      PROVE  BuildingInv' /\ HealthHonest'
  BY <1>1 DEF BuildingInv, HealthHonest
<1>2. ASSUME ppc' \in Filling \cup Filled, ~Has(new_stats', {"LIVE"})
      PROVE  BuildingInv' /\ HealthHonest'
  BY <1>2 DEF BuildingInv, HealthHonest, Has
<1>3. CASE SendStats
  BY <1>2, <1>3, EmptySeq DEF SendStats, Has
<1>4. ASSUME NEW err \in Errno, SendProbeFails(err)
      PROVE  BuildingInv' /\ HealthHonest'
  <2>1. ppc' = "lock" /\ new_stats' = HealthStats(FALSE)
    BY <1>4 DEF SendProbeFails
  <2> QED BY <1>2, <2>1, HealthStatsKinds
<1>5. ASSUME NEW alive \in BOOLEAN, ProbeRead(alive)
      PROVE  BuildingInv' /\ HealthHonest'
  <2>1. ppc' = "lock" /\ new_stats' = HealthStats(alive) /\ ReadProbe(alive)
    BY <1>5 DEF ProbeRead
  <2>2. CASE alive
    <3>1. Has(sock.inbox, {"STORED"})
      BY <2>1, <2>2, ProbeTakes
    <3>2. stored /\ UNCHANGED stored
      BY <2>1, <3>1, ProbeTakes DEF ProbeInv, StoredInv
    <3> QED BY <2>1, <3>2 DEF BuildingInv, HealthHonest
  <2>3. CASE ~alive
    BY <1>2, <2>1, <2>3, HealthStatsKinds
  <2> QED BY <2>2, <2>3
<1>6. CASE ReplyRead
  <2>1. UNCHANGED new_stats /\ ppc = "read" /\ ppc' \in {"read", "parse", "lock"}
    BY <1>6 DEF ReplyRead, ReadMore, ReadBuffer, ReadErrorReply, ReadEof, ReadFails, Take
  <2> QED BY <1>2, <2>1 DEF ProbeInv, BuildingInv
<1>7. CASE ReplyParsed
  <2>1. ppc = "parse" /\ ppc' \in {"parse", "read", "lock"}
    BY <1>7 DEF ReplyParsed
  <2>2. ~Has(new_stats, {"LIVE"})
    BY <2>1 DEF ProbeInv, BuildingInv
  <2>3. ~Has(new_stats', {"LIVE"})
    BY <1>7, <2>2, ParsedKinds DEF ReplyParsed, ParseMore, ParseEnd
  <2> QED BY <1>2, <2>1, <2>3
<1>8. CASE LockForUpdate \/ RemoveOldStats
  BY <1>8 DEF LockForUpdate, RemoveOldStats, ProbeInv, BuildingInv, HealthHonest
<1>9. CASE \/ Start \/ BeginVisit \/ IsConnected \/ ConnectDone \/ EnterPolling \/ SendProbe
           \/ AddNewStats \/ NextUri \/ EndRound
           \/ \E err \in Errno : \/ ConnectRetry(err) \/ ConnectGiveUp(err)
                                \/ SendStatsFails(err)
  BY <1>1, <1>9 DEF Start, BeginVisit, IsConnected, ConnectDone, EnterPolling, SendProbe,
     AddNewStats, NextUri, EndRound, ConnectRetry, ConnectGiveUp, SendStatsFails
<1> QED BY <1>3, <1>4, <1>5, <1>6, <1>7, <1>8, <1>9 DEF Poller

LEMMA ProbeStep ==
    ASSUME TypeOK, ProbeInv, [Next]_vars
    PROVE  ProbeInv'
<1>1. CASE UNCHANGED vars
  BY <1>1 DEF vars, link, session, poller, ProbeInv, StoredInv, BuildingInv, HealthHonest
<1>2. CASE Poller
  BY <1>2, StoredStep, HonestStep DEF ProbeInv
<1>3. ASSUME NEW c \in Client, ClientStep(c)
      PROVE  ProbeInv'
  BY <1>3 DEF ClientStep, link, session, poller, ProbeInv, StoredInv, BuildingInv, HealthHonest
<1> QED BY <1>1, <1>2, <1>3 DEF Next

\* "liveness 1" is only ever put in the list of a memcached that stored the probe, for
\* every list of uris and every fault: a STORED that is read is the one to this probe.
THEOREM ProbesHonest == Spec => []HealthHonest
<1>1. Init => ProbeInv
  BY EmptySeq DEF Init, StatsMcInit, NoSock, ProbeInv, StoredInv, BuildingInv, HealthHonest, Has
<1>2. TypeOK /\ ProbeInv /\ [Next]_vars => ProbeInv'
  BY ProbeStep
<1>3. ProbeInv => HealthHonest
  BY DEF ProbeInv
<1> QED BY <1>1, <1>2, <1>3, TypeCorrect, PTL DEF Spec
=============================================================================
