----------------------------- MODULE CodecProofs -----------------------------
(***************************************************************************)
(* Proofs about UriCodec, for texts of any length and any characters: the  *)
(* recursive functions satisfy the equations they are defined by, decoding *)
(* undoes encoding, and the links of the pages are read as they were made. *)
(*                                                                         *)
(* The equations first say that such a function exists, which is an        *)
(* induction along the text.                                               *)
(***************************************************************************)
EXTENDS UriCodec, Induction, SequenceTheorems, TLAPS

-----------------------------------------------------------------------------
(* FlattenSeq *)

\* The first k of the sequences, put together.
Joined(f, k, seqs) ==
    f = [i \in 1 .. k |-> IF i = 1 THEN seqs[i] ELSE f[i - 1] \o seqs[i]]

LEMMA JoinedExists ==
    ASSUME NEW n \in Nat, NEW seqs
    PROVE  \E f : Joined(f, n, seqs)
<1> DEFINE T == {k \in 0 .. n : \E f : Joined(f, k, seqs)}
<1>1. 0 \in T
  <2>1. Joined([i \in 1 .. 0 |-> <<>>], 0, seqs)
    BY DEF Joined
  <2> QED BY <2>1
<1>2. ASSUME NEW k \in 0 .. n - 1, k \in T PROVE k + 1 \in T
  <2>1. PICK f : Joined(f, k, seqs)
    BY <1>2
  <2> DEFINE g == [i \in 1 .. k + 1 |->
                      IF i = k + 1 THEN IF k = 0 THEN seqs[1] ELSE f[k] \o seqs[k + 1] ELSE f[i]]
  <2>2. \A i \in 1 .. k : g[i] = f[i] /\ f[i] = IF i = 1 THEN seqs[i] ELSE f[i - 1] \o seqs[i]
    <3> TAKE i \in 1 .. k
    <3>1. i \in 1 .. k + 1 /\ i # k + 1
      OBVIOUS
    <3>2. g[i] = f[i]
      BY <3>1
    <3> HIDE DEF g
    <3> QED BY <2>1, <3>2 DEF Joined
  <2>3. ASSUME NEW i \in 1 .. k + 1
        PROVE  g[i] = IF i = 1 THEN seqs[i] ELSE g[i - 1] \o seqs[i]
    <3>1. CASE i = k + 1 /\ k # 0
      <4>1. k \in 1 .. k /\ i - 1 = k /\ i # 1
        BY <3>1
      <4>2. g[i] = f[k] \o seqs[i] /\ g[i - 1] = f[k]
        BY <2>2, <3>1, <4>1
      <4> QED BY <4>1, <4>2
    <3>2. CASE i \in 1 .. k
      <4>1. i # 1 => i - 1 \in 1 .. k
        BY <3>2
      <4> HIDE DEF g
      <4> QED BY <2>2, <3>2, <4>1
    <3>3. CASE i = k + 1 /\ k = 0
      BY <3>3
    <3> QED BY <3>1, <3>2, <3>3
  <2> HIDE DEF g
  <2>4. g = [i \in 1 .. k + 1 |-> g[i]]
    BY DEF g
  <2>5. Joined(g, k + 1, seqs)
    BY <2>3, <2>4 DEF Joined
  <2> QED BY <2>5
<1> HIDE DEF T
<1>3. n \in T
  BY <1>1, <1>2, Along
<1> QED BY <1>3 DEF T

\* FlattenSeq puts one after the other: after each there are the prefix before it and itself.
LEMMA FlattenSteps ==
    ASSUME NEW S, NEW seqs \in Seq(Seq(S))
    PROVE  \E flat \in [0 .. Len(seqs) -> Seq(S)] :
              /\ flat[0] = <<>> /\ flat[Len(seqs)] = FlattenSeq(seqs)
              /\ \A i \in 1 .. Len(seqs) : flat[i] = flat[i - 1] \o seqs[i]
<1> DEFINE n == Len(seqs)
           f == CHOOSE g : Joined(g, n, seqs)
           flat == [i \in 0 .. n |-> IF i = 0 THEN <<>> ELSE f[i]]
<1>1. n \in Nat /\ (\A i \in 1 .. n : seqs[i] \in Seq(S)) /\ <<>> \in Seq(S)
  BY LenProperties, ElementOfSeq, EmptySeq
<1>2. Joined(f, n, seqs)
  BY <1>1, JoinedExists
<1>3. flat[n] = FlattenSeq(seqs)
  <2>1. CASE n = 0
    <3>1. seqs = <<>> /\ FlattenSeq(seqs) = seqs
      BY <2>1, EmptySeq DEF FlattenSeq
    <3> QED BY <2>1, <3>1
  <2>2. CASE n # 0
    <3>1. FlattenSeq(seqs) = f[n]
      BY <2>2 DEF FlattenSeq, Joined
    <3> QED BY <1>1, <2>2, <3>1
  <2> QED BY <2>1, <2>2
<1> HIDE DEF f, n
<1>4. \A i \in 1 .. n : f[i] = IF i = 1 THEN seqs[i] ELSE f[i - 1] \o seqs[i]
  BY <1>2 DEF Joined
<1>5. \A i \in 1 .. n : flat[i] = flat[i - 1] \o seqs[i]
  <2> TAKE i \in 1 .. n
  <2>1. CASE i = 1
    <3>1. <<>> \o seqs[i] = seqs[i]
      BY <1>1, ConcatEmptySeq
    <3> QED BY <1>1, <1>4, <2>1, <3>1
  <2>2. CASE i # 1
    <3>1. i - 1 \in 0 .. n /\ i - 1 # 0 /\ i \in 0 .. n /\ i # 0
      BY <1>1, <2>2
    <3> QED BY <1>4, <2>2, <3>1
  <2> QED BY <2>1, <2>2
<1>6. flat = [i \in 0 .. n |-> flat[i]]
  OBVIOUS
<1>9. flat[0] = <<>>
  BY <1>1
<1> HIDE DEF flat
<1>7. \A i \in 0 .. n : flat[i] \in Seq(S)
  <2> DEFINE T == {i \in 0 .. n : flat[i] \in Seq(S)}
  <2>1. 0 \in T
    <3>1. flat[0] \in Seq(S)
      BY <1>1, <1>9
    <3>2. 0 \in 0 .. n
      BY <1>1
    <3> QED BY <3>1, <3>2
  <2>2. ASSUME NEW i \in 0 .. n - 1, i \in T PROVE i + 1 \in T
    <3>1. PICK j \in 1 .. n : j = i + 1 /\ j \in 0 .. n /\ j - 1 = i
      BY <1>1
    <3>2. flat[j] = flat[j - 1] \o seqs[j]
      BY <1>5
    <3>3. flat[j - 1] \in Seq(S) /\ seqs[j] \in Seq(S)
      BY <1>1, <2>2, <3>1
    <3>4. flat[j] \in Seq(S)
      BY <3>2, <3>3, ConcatProperties
    <3> QED BY <3>1, <3>4
  <2> HIDE DEF T
  <2>3. \A i \in 0 .. n : i \in T
    BY <1>1, <2>1, <2>2, Along
  <2> QED BY <2>3 DEF T
<1>8. flat \in [0 .. n -> Seq(S)]
  BY <1>6, <1>7
<1> QED BY <1>3, <1>5, <1>8, <1>9 DEF n

-----------------------------------------------------------------------------
(* uri_decode *)

\* What the loop of uri_decode makes of s from place i on.
Turn(f, i, s) ==
    IF i > Len(s) THEN <<>>
    ELSE IF s[i] = "%"
         THEN IF i + 2 > Len(s) THEN f[i + 1]
              ELSE <<Escaped(s[i + 1], s[i + 2])>> \o f[i + 3]
         ELSE <<IF s[i] = "+" THEN " " ELSE s[i]>> \o f[i + 1]

\* f is that function, for the places from a on.
Decoded(f, a, s) == f = [i \in a .. Len(s) + 1 |-> Turn(f, i, s)]

LEMMA TurnSame ==
    ASSUME NEW s, NEW n \in Nat, Len(s) = n, NEW i \in 1 .. n + 1, NEW f, NEW g,
           \A j \in i + 1 .. n + 1 : g[j] = f[j]
    PROVE  Turn(f, i, s) = Turn(g, i, s)
<1>1. CASE i > n
  BY <1>1 DEF Turn
<1>2. CASE i <= n
  <2>1. i + 1 \in i + 1 .. n + 1 /\ ~(i > n)
    BY <1>2
  <2>2. g[i + 1] = f[i + 1]
    BY <2>1
  <2>3. CASE i + 2 > n
    BY <2>1, <2>2, <2>3 DEF Turn
  <2>4. CASE ~(i + 2 > n)
    <3>1. i + 3 \in i + 1 .. n + 1
      BY <2>4
    <3>2. g[i + 3] = f[i + 3]
      BY <3>1
    <3> QED BY <2>1, <2>2, <2>4, <3>2 DEF Turn
  <2> QED BY <2>3, <2>4
<1> QED BY <1>1, <1>2

LEMMA DecodedStep ==
    ASSUME NEW s, NEW n \in Nat, Len(s) = n, NEW a \in 1 .. n, NEW f, Decoded(f, a + 1, s)
    PROVE  \E g : Decoded(g, a, s)
<1> DEFINE g == [i \in a .. n + 1 |-> IF i = a THEN Turn(f, a, s) ELSE f[i]]
<1>1. g[a] = Turn(f, a, s)
  <2>1. a \in a .. n + 1
    OBVIOUS
  <2> QED BY <2>1
<1>2. \A i \in a + 1 .. n + 1 : g[i] = f[i]
  <2> TAKE i \in a + 1 .. n + 1
  <2>1. i \in a .. n + 1 /\ i # a
    OBVIOUS
  <2> QED BY <2>1
<1>3. g = [i \in a .. n + 1 |-> g[i]]
  OBVIOUS
<1> HIDE DEF g
<1>4. ASSUME NEW i \in a .. n + 1 PROVE g[i] = Turn(g, i, s)
  <2>1. i \in 1 .. n + 1 /\ \A j \in i + 1 .. n + 1 : j \in a + 1 .. n + 1
    OBVIOUS
  <2>2. \A j \in i + 1 .. n + 1 : g[j] = f[j]
    BY <1>2, <2>1
  <2>3. Turn(f, i, s) = Turn(g, i, s)
    BY <2>1, <2>2, TurnSame
  <2>4. CASE i = a
    BY <1>1, <2>3, <2>4
  <2>5. CASE i # a
    <3>1. i \in a + 1 .. n + 1
      BY <2>5
    <3>2. f[i] = Turn(f, i, s)
      BY <3>1 DEF Decoded
    <3> QED BY <1>2, <2>3, <3>1, <3>2
  <2> QED BY <2>4, <2>5
<1>5. Decoded(g, a, s)
  BY <1>3, <1>4 DEF Decoded
<1> QED BY <1>5

LEMMA DecodedExists ==
    ASSUME NEW s, NEW n \in Nat, Len(s) = n
    PROVE  \E f : Decoded(f, 1, s)
<1> DEFINE T == {i \in 0 .. n : \E f : Decoded(f, i + 1, s)}
<1>1. n \in T
  <2> DEFINE f == [i \in n + 1 .. n + 1 |-> <<>>]
  <2>1. Decoded(f, n + 1, s)
    <3>1. \A i \in n + 1 .. n + 1 : Turn(f, i, s) = <<>>
      BY DEF Turn
    <3> QED BY <3>1 DEF Decoded
  <2> QED BY <2>1
<1>2. ASSUME NEW i \in 0 .. n - 1, i + 1 \in T PROVE i \in T
  <2>1. PICK a \in 1 .. n : a = i + 1 /\ i \in 0 .. n
    OBVIOUS
  <2>2. PICK f : Decoded(f, a + 1, s)
    BY <1>2, <2>1
  <2>3. \E g : Decoded(g, a, s)
    BY <2>2, DecodedStep
  <2> QED BY <2>1, <2>3
<1> HIDE DEF T
<1>3. 0 \in T
  <2>1. \A i \in 0 .. n : i \in T
    BY <1>1, <1>2, Back
  <2> QED BY <2>1
<1>4. 0 + 1 = 1
  OBVIOUS
<1> QED BY <1>3, <1>4 DEF T

\* One turn of the loop of uri_decode, by the character it finds.
LEMMA DecodeSteps ==
    ASSUME NEW s, Len(s) \in Nat
    PROVE  \E from :
              /\ uri_decode(s) = from[1] /\ from[Len(s) + 1] = <<>>
              /\ \A i \in 1 .. Len(s) :
                    /\ s[i] = "%" /\ i + 2 > Len(s) => from[i] = from[i + 1]
                    /\ s[i] = "%" /\ i + 2 <= Len(s) =>
                          from[i] = <<Escaped(s[i + 1], s[i + 2])>> \o from[i + 3]
                    /\ s[i] = "+" => from[i] = <<" ">> \o from[i + 1]
                    /\ s[i] \notin {"%", "+"} => from[i] = <<s[i]>> \o from[i + 1]
<1> DEFINE from == CHOOSE f : Decoded(f, 1, s)
<1>1. Decoded(from, 1, s)
  BY DecodedExists
<1>2. Len(s) + 1 \in 1 .. Len(s) + 1 /\ Len(s) + 1 > Len(s)
  OBVIOUS
<1>3. uri_decode(s) = from[1]
  BY DEF uri_decode, Decoded, Turn
<1> HIDE DEF from
<1>4. \A i \in 1 .. Len(s) + 1 : from[i] = Turn(from, i, s)
  BY <1>1 DEF Decoded
<1>5. from[Len(s) + 1] = <<>>
  BY <1>2, <1>4 DEF Turn
<1>6. ASSUME NEW i \in 1 .. Len(s)
      PROVE  /\ s[i] = "%" /\ i + 2 > Len(s) => from[i] = from[i + 1]
             /\ s[i] = "%" /\ i + 2 <= Len(s) =>
                   from[i] = <<Escaped(s[i + 1], s[i + 2])>> \o from[i + 3]
             /\ s[i] = "+" => from[i] = <<" ">> \o from[i + 1]
             /\ s[i] \notin {"%", "+"} => from[i] = <<s[i]>> \o from[i + 1]
  <2>1. i \in 1 .. Len(s) + 1 /\ ~(i > Len(s)) /\ (i + 2 <= Len(s) <=> ~(i + 2 > Len(s)))
    OBVIOUS
  <2>2. from[i] = IF s[i] = "%"
                  THEN IF i + 2 > Len(s) THEN from[i + 1]
                       ELSE <<Escaped(s[i + 1], s[i + 2])>> \o from[i + 3]
                  ELSE <<IF s[i] = "+" THEN " " ELSE s[i]>> \o from[i + 1]
    BY <1>4, <2>1 DEF Turn
  <2> QED BY <2>1, <2>2
<1> QED BY <1>3, <1>5, <1>6

-----------------------------------------------------------------------------
(* Decoding undoes encoding *)

\* from_hex is the inverse of to_hex.
LEMMA HexInverse ==
    ASSUME NEW n \in 0 .. 15
    PROVE  to_hex(n) \in Range(HexDigits) /\ from_hex(to_hex(n)) = n
<1>1. \A i, j \in 1 .. 16 : HexDigits[i] = HexDigits[j] => i = j
  BY DEF HexDigits
<1>2. n + 1 \in 1 .. 16 /\ DOMAIN HexDigits = 1 .. 16
  BY DEF HexDigits
<1> DEFINE place == CHOOSE i \in 1 .. 16 : HexDigits[i] = HexDigits[n + 1]
<1>3. place = n + 1
  BY <1>1, <1>2
<1>4. HexDigits[n + 1] \in Range(HexDigits)
  BY <1>2 DEF Range
<1>5. from_hex(to_hex(n)) = n + 1 - 1
  <2>1. from_hex(to_hex(n)) = place - 1
    BY Zenon DEF to_hex, from_hex
  <2> HIDE DEF place
  <2> QED BY <1>3, <2>1
<1> QED BY <1>4, <1>5 DEF to_hex

\* The codes of the characters that are escaped differ, and have two digits.
LEMMA Codes ==
    ASSUME NEW c \in Reserved
    PROVE  /\ Code(c) \in 0 .. 255
           /\ \A d \in Reserved : Code(d) = Code(c) => d = c
BY DEF Reserved, Code

\* An escape stands for the character it was made for.
LEMMA EscapedBack ==
    ASSUME NEW c \in Reserved
    PROVE  Escaped(to_hex(Code(c) \div 16), to_hex(Code(c) % 16)) = c
<1> DEFINE h == Code(c) \div 16
           l == Code(c) % 16
<1>1. h \in 0 .. 15 /\ l \in 0 .. 15 /\ 16 * h + l = Code(c)
  BY Codes
<1> HIDE DEF h, l
<1>2. /\ {to_hex(h), to_hex(l)} \subseteq Range(HexDigits)
      /\ from_hex(to_hex(h)) = h /\ from_hex(to_hex(l)) = l
  BY <1>1, HexInverse
<1>3. Char(Code(c)) = c
  <2>1. (CHOOSE d \in Reserved : Code(d) = Code(c)) = c
    BY Codes
  <2> QED BY <2>1 DEF Char
<1>4. Escaped(to_hex(h), to_hex(l)) = Char(16 * h + l)
  BY <1>2 DEF Escaped
<1> QED BY <1>1, <1>3, <1>4 DEF h, l

\* What may stand in a text and its code.
Alphabet(S) == S \cup Reserved \cup Range(HexDigits) \cup {" ", "other"}

LEMMA EncodeCharType ==
    ASSUME NEW S, NEW c \in S
    PROVE  EncodeChar(c) \in Seq(Alphabet(S))
<1>1. CASE c \in Reserved
  <2>1. Code(c) \div 16 \in 0 .. 15 /\ Code(c) % 16 \in 0 .. 15
    BY <1>1, Codes
  <2>2. {to_hex(Code(c) \div 16), to_hex(Code(c) % 16)} \subseteq Alphabet(S)
    BY <2>1, HexInverse DEF Alphabet
  <2>3. "%" \in Alphabet(S)
    BY DEF Alphabet, Reserved
  <2>4. <<"%", to_hex(Code(c) \div 16), to_hex(Code(c) % 16)>> \in Seq(Alphabet(S))
    BY <2>2, <2>3
  <2> QED BY <1>1, <2>4 DEF EncodeChar
<1>2. CASE c \notin Reserved
  <2>1. <<"+">> \in Seq(Alphabet(S)) /\ <<c>> \in Seq(Alphabet(S))
    <3>1. "+" \in Alphabet(S) /\ c \in Alphabet(S)
      BY DEF Alphabet, Reserved
    <3> QED BY <3>1
  <2> QED BY <1>2, <2>1 DEF EncodeChar
<1> QED BY <1>1, <1>2

\* uri_encode goes along the text and adds the code of each character.
LEMMA EncodeSteps ==
    ASSUME NEW S, NEW s \in Seq(S)
    PROVE  \E code \in [0 .. Len(s) -> Seq(Alphabet(S))] :
              /\ code[0] = <<>> /\ code[Len(s)] = uri_encode(s)
              /\ \A i \in 1 .. Len(s) : code[i] = code[i - 1] \o EncodeChar(s[i])
<1> DEFINE seqs == [i \in 1 .. Len(s) |-> EncodeChar(s[i])]
<1>1. Len(s) \in Nat /\ \A i \in 1 .. Len(s) : s[i] \in S
  BY LenProperties, ElementOfSeq
<1>2. \A i \in 1 .. Len(s) : EncodeChar(s[i]) \in Seq(Alphabet(S))
  BY <1>1, EncodeCharType
<1>4. seqs \in Seq(Seq(Alphabet(S))) /\ Len(seqs) = Len(s)
  BY <1>1, <1>2, SeqDef
<1>5. uri_encode(s) = FlattenSeq(seqs)
  BY DEF uri_encode
<1>6. \A i \in 1 .. Len(s) : seqs[i] = EncodeChar(s[i])
  OBVIOUS
<1> HIDE DEF seqs
<1>7. PICK code \in [0 .. Len(seqs) -> Seq(Alphabet(S))] :
         /\ code[0] = <<>> /\ code[Len(seqs)] = FlattenSeq(seqs)
         /\ \A i \in 1 .. Len(seqs) : code[i] = code[i - 1] \o seqs[i]
  BY <1>4, FlattenSteps
<1> QED BY <1>4, <1>5, <1>6, <1>7

\* code[i] is what the first i of the sequences w make together.
IsCode(code, w, n, A) ==
    /\ code \in [0 .. n -> Seq(A)]
    /\ \A i \in 1 .. n : w[i] \in Seq(A) /\ code[i] = code[i - 1] \o w[i]

Starts(p, q) == Len(p) <= Len(q) /\ \A j \in 1 .. Len(p) : q[j] = p[j]

LEMMA Follows ==
    ASSUME NEW A, NEW p \in Seq(A), NEW q \in Seq(A)
    PROVE  /\ Starts(p, p \o q) /\ Len(p \o q) = Len(p) + Len(q)
           /\ \A j \in 1 .. Len(q) : (p \o q)[Len(p) + j] = q[j]
<1> DEFINE r == p \o q
           n == Len(p)
           m == Len(q)
<1>1. n \in Nat /\ m \in Nat
  BY LenProperties
<1>2. Len(r) = n + m /\ \A j \in 1 .. n + m : r[j] = IF j <= n THEN p[j] ELSE q[j - n]
  BY ConcatProperties
<1> HIDE DEF r, n, m
<1>3. \A j \in 1 .. n : r[j] = p[j]
  BY <1>1, <1>2
<1>4. \A j \in 1 .. m : r[n + j] = q[j]
  <2> TAKE j \in 1 .. m
  <2>1. PICK i \in 1 .. n + m : i = n + j /\ ~(i <= n) /\ i - n = j
    BY <1>1
  <2>2. r[i] = q[i - n]
    BY <1>2, <2>1
  <2> QED BY <2>1, <2>2
<1> QED BY <1>1, <1>2, <1>3, <1>4 DEF Starts, r, n, m

\* What is encoded first is not changed by what follows.
LEMMA CodeStarts ==
    ASSUME NEW A, NEW n \in Nat, NEW code, NEW w, IsCode(code, w, n, A), NEW k \in 0 .. n
    PROVE  Starts(code[k], code[n])
<1> USE DEF IsCode
<1> DEFINE T == {m \in 0 .. n : k <= m => Starts(code[k], code[m])}
<1>1. \A m \in 0 .. n : code[m] \in Seq(A) /\ Len(code[m]) \in Nat
  BY LenProperties
<1>2. 0 \in T
  <2>1. k <= 0 => k = 0
    OBVIOUS
  <2> QED BY <1>1, <2>1 DEF Starts
<1>3. ASSUME NEW i \in 0 .. n - 1, i \in T PROVE i + 1 \in T
  <2>1. PICK m \in 1 .. n : m = i + 1 /\ m - 1 = i /\ m \in 0 .. n
    OBVIOUS
  <2>2. w[m] \in Seq(A) /\ code[m] = code[m - 1] \o w[m]
    OBVIOUS
  <2>3. Starts(code[i], code[m])
    <3>1. code[m] = code[i] \o w[m] /\ code[i] \in Seq(A)
      BY <1>1, <2>1, <2>2
    <3> QED BY <2>2, <3>1, Follows
  <2>4. CASE k = m
    BY <1>1, <2>1, <2>4 DEF Starts
  <2>5. CASE k <= i
    <3>1. Starts(code[k], code[i])
      BY <1>3, <2>5
    <3>2. Starts(code[k], code[m])
      BY <1>1, <2>1, <2>3, <3>1 DEF Starts
    <3> QED BY <2>1, <3>2
  <2>6. k <= m => k = m \/ k <= i
    BY <2>1
  <2> QED BY <2>1, <2>4, <2>5, <2>6
<1> HIDE DEF T
<1>4. \A i \in 0 .. n : i \in T
  BY <1>2, <1>3, Along
<1> QED BY <1>4 DEF T

\* Where the code of a character stands in what uri_encode returns.
Placed(code, w, n, k) ==
    /\ Len(code[k - 1]) \in Nat /\ Len(w[k]) \in Nat /\ Len(code[n]) \in Nat
    /\ Len(code[k]) = Len(code[k - 1]) + Len(w[k])
    /\ Len(code[k]) <= Len(code[n])
    /\ \A j \in 1 .. Len(w[k]) : code[n][Len(code[k - 1]) + j] = w[k][j]

LEMMA CodePlace ==
    ASSUME NEW A, NEW n \in Nat, NEW code, NEW w, IsCode(code, w, n, A), NEW k \in 1 .. n
    PROVE  Placed(code, w, n, k)
<1>1. PICK i \in 0 .. n : i = k - 1 /\ k \in 0 .. n /\ n \in 0 .. n
  OBVIOUS
<1>2. code[i] \in Seq(A) /\ code[k] \in Seq(A) /\ code[n] \in Seq(A)
  BY <1>1 DEF IsCode
<1>3. w[k] \in Seq(A) /\ code[k] = code[k - 1] \o w[k]
  BY DEF IsCode
<1>4. code[k] = code[i] \o w[k]
  BY <1>1, <1>3
<1>5. Len(code[i]) \in Nat /\ Len(w[k]) \in Nat /\ Len(code[n]) \in Nat
  BY <1>2, <1>3, LenProperties
<1>6. /\ Len(code[k]) = Len(code[i]) + Len(w[k])
      /\ \A j \in 1 .. Len(w[k]) : code[k][Len(code[i]) + j] = w[k][j]
  <2> DEFINE p == code[i]
             q == w[k]
  <2>1. p \in Seq(A) /\ q \in Seq(A)
    BY <1>2, <1>3
  <2> HIDE DEF p, q
  <2>2. Len(p \o q) = Len(p) + Len(q) /\ \A j \in 1 .. Len(q) : (p \o q)[Len(p) + j] = q[j]
    BY <2>1, Follows
  <2> QED BY <1>4, <2>2 DEF p, q
<1>7. Starts(code[k], code[n])
  BY <1>1, CodeStarts
<1>8. ASSUME NEW j \in 1 .. Len(w[k]) PROVE code[n][Len(code[i]) + j] = w[k][j]
  <2> DEFINE a == Len(code[i])
             m == Len(w[k])
             l == Len(code[k])
  <2>4. a \in Nat /\ m \in Nat /\ l = a + m /\ j \in 1 .. m
    BY <1>5, <1>6
  <2> HIDE DEF a, m, l
  <2>1. PICK x \in 1 .. l : x = a + j
    BY <2>4
  <2>2. code[k][x] = w[k][j]
    BY <1>6, <2>1 DEF a
  <2>3. code[n][x] = code[k][x]
    BY <1>7, <2>1 DEF Starts, l
  <2> QED BY <2>1, <2>2, <2>3 DEF a
<1> QED BY <1>1, <1>5, <1>6, <1>7, <1>8 DEF Starts, Placed

\* Each text comes back.
THEOREM RoundTrip ==
    ASSUME NEW S, NEW s \in Seq(S)
    PROVE  uri_decode(uri_encode(s)) = s
<1> DEFINE n == Len(s)
           A == Alphabet(S)
           e == uri_encode(s)
           w == [i \in 1 .. n |-> EncodeChar(s[i])]
<1>1. n \in Nat /\ \A i \in 1 .. n : s[i] \in S
  BY LenProperties, ElementOfSeq
<1>2. PICK code \in [0 .. n -> Seq(A)] :
         /\ code[0] = <<>> /\ code[n] = e
         /\ \A i \in 1 .. n : code[i] = code[i - 1] \o EncodeChar(s[i])
  BY EncodeSteps
<1>3. \A i \in 1 .. n : w[i] = EncodeChar(s[i]) /\ w[i] \in Seq(A)
  BY <1>1, EncodeCharType
<1> HIDE DEF w, A, n, e
<1>4. IsCode(code, w, n, A)
  BY <1>2, <1>3 DEF IsCode
<1>5. Len(e) \in Nat
  BY <1>1, <1>2, LenProperties
<1>6. PICK from :
         /\ uri_decode(e) = from[1] /\ from[Len(e) + 1] = <<>>
         /\ \A i \in 1 .. Len(e) :
               /\ e[i] = "%" /\ i + 2 > Len(e) => from[i] = from[i + 1]
               /\ e[i] = "%" /\ i + 2 <= Len(e) =>
                     from[i] = <<Escaped(e[i + 1], e[i + 2])>> \o from[i + 3]
               /\ e[i] = "+" => from[i] = <<" ">> \o from[i + 1]
               /\ e[i] \notin {"%", "+"} => from[i] = <<e[i]>> \o from[i + 1]
  BY <1>5, DecodeSteps
<1> DEFINE T == {k \in 0 .. n : from[Len(code[k]) + 1] = SubSeq(s, k + 1, n)}
<1>7. n \in T
  <2>1. SubSeq(s, n + 1, n) = <<>>
    BY <1>1, SubSeqEmpty
  <2>2. from[Len(code[n]) + 1] = SubSeq(s, n + 1, n)
    BY <1>2, <1>6, <2>1
  <2>3. n \in 0 .. n
    BY <1>1
  <2> QED BY <2>2, <2>3
<1>8. ASSUME NEW i \in 0 .. n - 1, i + 1 \in T PROVE i \in T
  <2>1. PICK k \in 1 .. n : k = i + 1 /\ i = k - 1 /\ i \in 0 .. n
    BY <1>1
  <2> DEFINE a == Len(code[i])
             c == s[k]
             m == Len(w[k])
             rest == SubSeq(s, k + 1, n)
  <2>2. from[Len(code[k]) + 1] = rest
    BY <1>8, <2>1
  <2>3. SubSeq(s, k, n) = <<c>> \o rest
    BY <1>1, SubSeqRecursiveFirst DEF n
  <2>4. /\ a \in Nat /\ m \in Nat /\ Len(code[k]) = a + m /\ a + m <= Len(e)
        /\ \A j \in 1 .. m : e[a + j] = w[k][j]
    <3>1. Placed(code, w, n, k)
      BY <1>1, <1>4, <2>1, CodePlace
    <3> QED BY <1>2, <2>1, <3>1 DEF Placed
  <2>5. w[k] = EncodeChar(c)
    BY <1>3
  <2> HIDE DEF a, c, m, rest
  <2>6. from[a + m + 1] = rest
    BY <2>2, <2>4
  <2>7. from[a + 1] = <<c>> \o rest
    <3>1. CASE c \in Reserved
      <4> DEFINE h == to_hex(Code(c) \div 16)
                 l == to_hex(Code(c) % 16)
      <4>1. w[k] = <<"%", h, l>>
        BY <2>5, <3>1 DEF EncodeChar
      <4>2. Escaped(h, l) = c
        BY <3>1, EscapedBack
      <4> HIDE DEF h, l
      <4>3. m = 3 /\ w[k][1] = "%" /\ w[k][2] = h /\ w[k][3] = l
        BY <4>1 DEF m
      <4>4. e[a + 1] = "%" /\ e[a + 2] = h /\ e[a + 3] = l
        BY <2>4, <4>3
      <4>5. PICK p \in 1 .. Len(e) : /\ p = a + 1 /\ p + 1 = a + 2 /\ p + 2 = a + 3
                                    /\ p + 3 = a + m + 1 /\ p + 2 <= Len(e)
        BY <1>5, <2>4, <4>3
      <4>6. from[p] = <<Escaped(e[p + 1], e[p + 2])>> \o from[p + 3]
        BY <1>6, <4>4, <4>5
      <4> QED BY <2>6, <4>2, <4>4, <4>5, <4>6
    <3>2. CASE c = " "
      <4>1. w[k] = <<"+">>
        BY <2>5, <3>2 DEF EncodeChar, Reserved
      <4>2. m = 1 /\ w[k][1] = "+"
        BY <4>1 DEF m
      <4>3. PICK p \in 1 .. Len(e) : p = a + 1 /\ p + 1 = a + m + 1
        BY <1>5, <2>4, <4>2
      <4>4. e[p] = "+"
        BY <2>4, <4>2, <4>3
      <4>5. from[p] = <<" ">> \o from[p + 1]
        BY <1>6, <4>4
      <4> QED BY <2>6, <3>2, <4>3, <4>5
    <3>3. CASE c \notin Reserved /\ c # " "
      <4>1. w[k] = <<c>>
        BY <2>5, <3>3 DEF EncodeChar
      <4>2. m = 1 /\ w[k][1] = c
        BY <4>1 DEF m
      <4>3. PICK p \in 1 .. Len(e) : p = a + 1 /\ p + 1 = a + m + 1
        BY <1>5, <2>4, <4>2
      <4>4. e[p] = c /\ c \notin {"%", "+"}
        <5>1. c # "%" /\ c # "+"
          BY <3>3 DEF Reserved
        <5>2. e[a + 1] = c
          BY <2>4, <4>2
        <5> QED BY <4>3, <5>1, <5>2
      <4>5. from[p] = <<e[p]>> \o from[p + 1]
        BY <1>6, <4>4
      <4> QED BY <2>6, <4>3, <4>4, <4>5
    <3> QED BY <3>1, <3>2, <3>3
  <2>8. i + 1 = k
    BY <2>1
  <2> QED BY <2>1, <2>3, <2>7, <2>8 DEF a, c, rest
<1> HIDE DEF T
<1>9. 0 \in T
  <2>1. \A i \in 0 .. n : i \in T
    BY <1>1, <1>7, <1>8, Back
  <2> QED BY <1>1, <2>1
<1>10. from[1] = SubSeq(s, 1, n)
  <2>1. Len(code[0]) + 1 = 1 /\ 0 + 1 = 1
    BY <1>2
  <2> QED BY <1>9, <2>1 DEF T
<1>11. SubSeq(s, 1, n) = s
  BY SubSeqFull DEF n
<1> QED BY <1>6, <1>10, <1>11 DEF e

-----------------------------------------------------------------------------
(* Decoding what was not encoded *)

LEMMA EscapedType == \A h, l : Escaped(h, l) \in Reserved \cup Range(HexDigits) \cup {" ", "other"}
<1>1. ASSUME NEW n PROVE Char(n) \in Reserved \cup Range(HexDigits) \cup {" ", "other"}
  <2>1. CASE \E c \in Reserved : Code(c) = n
    BY <2>1 DEF Char
  <2>2. CASE ~(\E c \in Reserved : Code(c) = n) /\ n \in 48 .. 57
    <3>1. n - 48 \in 0 .. 15
      BY <2>2
    <3> QED BY <2>2, <3>1, HexInverse DEF Char
  <2>3. CASE ~(\E c \in Reserved : Code(c) = n) /\ n \notin 48 .. 57 /\ n \in 97 .. 102
    <3>1. n - 87 \in 0 .. 15
      BY <2>3
    <3> QED BY <2>3, <3>1, HexInverse DEF Char
  <2>4. CASE ~(\E c \in Reserved : Code(c) = n) /\ n \notin 48 .. 57 /\ n \notin 97 .. 102
    BY <2>4 DEF Char
  <2> QED BY <2>1, <2>2, <2>3, <2>4
<1> QED BY <1>1 DEF Escaped

\* Up to m there is neither a percent sign nor a plus, and it comes out as it is; what
\* follows comes out as characters it has, or escapes stand for.
LEMMA DecodeTail ==
    ASSUME NEW S, NEW s \in Seq(S), NEW m \in 0 .. Len(s), NEW T,
           \A i \in 1 .. m : s[i] \notin {"%", "+"},
           \A i \in m + 1 .. Len(s) : s[i] \in T
    PROVE  \E r \in Seq(Alphabet(T)) :
              uri_decode(s) = SubSeq(s, 1, m) \o r /\ (m = Len(s) => r = <<>>)
<1> DEFINE n == Len(s)
           A == Alphabet(T)
<1>1. n \in Nat /\ \A i \in 1 .. n : s[i] \in S
  BY LenProperties, ElementOfSeq
<1>2. PICK from :
         /\ uri_decode(s) = from[1] /\ from[n + 1] = <<>>
         /\ \A i \in 1 .. n :
               /\ s[i] = "%" /\ i + 2 > n => from[i] = from[i + 1]
               /\ s[i] = "%" /\ i + 2 <= n =>
                     from[i] = <<Escaped(s[i + 1], s[i + 2])>> \o from[i + 3]
               /\ s[i] = "+" => from[i] = <<" ">> \o from[i + 1]
               /\ s[i] \notin {"%", "+"} => from[i] = <<s[i]>> \o from[i + 1]
  BY <1>1, DecodeSteps
<1>3. \A x \in A : <<x>> \in Seq(A)
  OBVIOUS
<1> HIDE DEF n
<1>4. /\ \A h, l : Escaped(h, l) \in A
      /\ \A i \in m + 1 .. n : s[i] \in A
      /\ " " \in A
  BY EscapedType DEF Alphabet, n
<1>5. m \in 0 .. n /\ \A i \in 1 .. m : s[i] \notin {"%", "+"}
  BY DEF n
<1> HIDE DEF A
<1>6. from[m + 1] \in Seq(A)
  <2> DEFINE D == {k \in 0 .. n : k >= m => \A i \in k + 1 .. n + 1 : from[i] \in Seq(A)}
  <2>1. n \in D
    <3>1. ASSUME NEW i \in n + 1 .. n + 1 PROVE from[i] \in Seq(A)
      <4>1. i = n + 1
        BY <1>1
      <4> QED BY <1>2, <4>1, EmptySeq
    <3>2. n \in 0 .. n
      BY <1>1
    <3> QED BY <3>1, <3>2
  <2>2. ASSUME NEW j \in 0 .. n - 1, j + 1 \in D PROVE j \in D
    <3> SUFFICES ASSUME j >= m PROVE \A i \in j + 1 .. n + 1 : from[i] \in Seq(A)
      BY <1>1
    <3>1. PICK k \in 1 .. n : k = j + 1 /\ k \in m + 1 .. n
      BY <1>1, <1>5
    <3>2. \A i \in k + 1 .. n + 1 : from[i] \in Seq(A)
      BY <1>1, <1>5, <2>2, <3>1
    <3> HIDE DEF D
    <3>3. from[k + 1] \in Seq(A)
      <4>1. PICK i \in k + 1 .. n + 1 : i = k + 1
        BY <1>1, <3>1
      <4> QED BY <3>2, <4>1
    <3>4. from[k] \in Seq(A)
      <4>1. CASE s[k] = "%" /\ k + 2 > n
        BY <1>2, <3>3, <4>1
      <4>2. CASE s[k] = "%" /\ k + 2 <= n
        <5>1. PICK i \in k + 1 .. n + 1 : i = k + 3
          BY <1>1, <3>1, <4>2
        <5>2. from[k + 3] \in Seq(A)
          BY <3>2, <5>1
        <5>3. from[k] = <<Escaped(s[k + 1], s[k + 2])>> \o from[k + 3]
          BY <1>2, <4>2
        <5>4. <<Escaped(s[k + 1], s[k + 2])>> \in Seq(A)
          BY <1>4, <1>3
        <5> QED BY <5>2, <5>3, <5>4, ConcatProperties
      <4>3. CASE s[k] = "+"
        <5>1. from[k] = <<" ">> \o from[k + 1] /\ <<" ">> \in Seq(A)
          BY <1>2, <1>4, <1>3, <4>3
        <5> QED BY <3>3, <5>1, ConcatProperties
      <4>4. CASE s[k] \notin {"%", "+"}
        <5>1. from[k] = <<s[k]>> \o from[k + 1] /\ <<s[k]>> \in Seq(A)
          BY <1>2, <1>4, <1>3, <3>1, <4>4
        <5> QED BY <3>3, <5>1, ConcatProperties
      <4>5. k + 2 > n \/ k + 2 <= n
        BY <1>1, <3>1
      <4> QED BY <4>1, <4>2, <4>3, <4>4, <4>5
    <3>5. \A i \in j + 1 .. n + 1 : i = k \/ i \in k + 1 .. n + 1
      BY <1>1, <3>1
    <3> QED BY <3>2, <3>4, <3>5
  <2> HIDE DEF D
  <2>3. \A i \in 0 .. n : i \in D
    BY <1>1, <2>1, <2>2, Back
  <2>4. m \in D /\ m >= m /\ m + 1 \in m + 1 .. n + 1
    BY <1>1, <1>5, <2>3
  <2> QED BY <2>4 DEF D
<1> DEFINE r == from[m + 1]
<1>7. from[1] = SubSeq(s, 1, m) \o r
  <2> DEFINE D == {k \in 0 .. m : from[k + 1] = SubSeq(s, k + 1, m) \o r}
  <2>1. m \in D
    <3>1. SubSeq(s, m + 1, m) = <<>>
      BY <1>1, <1>5, SubSeqEmpty
    <3>2. <<>> \o r = r
      BY <1>6, ConcatEmptySeq
    <3>3. m \in 0 .. m
      BY <1>1, <1>5
    <3> QED BY <3>1, <3>2, <3>3
  <2>2. ASSUME NEW j \in 0 .. m - 1, j + 1 \in D PROVE j \in D
    <3>1. PICK k \in 1 .. m : k = j + 1 /\ k \in 1 .. n /\ m \in k .. n /\ j \in 0 .. m
      BY <1>1, <1>5
    <3> DEFINE u == SubSeq(s, k + 1, m)
    <3>2. from[k + 1] = u \o r
      BY <2>2, <3>1
    <3> HIDE DEF D
    <3>3. from[k] = <<s[k]>> \o from[k + 1]
      BY <1>2, <1>5, <3>1
    <3>4. SubSeq(s, k, m) = <<s[k]>> \o u
      BY <3>1, SubSeqRecursiveFirst DEF n
    <3>5. u \in Seq(S)
      <4>1. k + 1 \in Int /\ m \in Int /\ \A i \in k + 1 .. m : s[i] \in S
        BY <1>1, <3>1
      <4> QED BY <4>1, SubSeqProperties
    <3> HIDE DEF u, r
    <3>6. (<<s[k]>> \o u) \o r = <<s[k]>> \o (u \o r)
      <4> DEFINE B == S \cup A
      <4>1. u \in Seq(B)
        BY <3>5, SeqMonotonic
      <4>2. r \in Seq(B)
        BY <1>6, SeqMonotonic DEF r
      <4>3. <<s[k]>> \in Seq(B)
        BY <1>1, <3>1
      <4> HIDE DEF B
      <4> QED BY <4>1, <4>2, <4>3, ConcatAssociative
    <3>7. from[k] = SubSeq(s, k, m) \o r
      BY <3>2, <3>3, <3>4, <3>6
    <3> QED BY <3>1, <3>7 DEF D
  <2> HIDE DEF D
  <2>3. \A i \in 0 .. m : i \in D
    BY <1>5, <2>1, <2>2, Back
  <2>4. 0 \in D /\ 0 + 1 = 1
    BY <1>5, <2>3
  <2> QED BY <2>4 DEF D
<1>8. m = n => r = <<>>
  BY <1>2
<1> QED BY <1>2, <1>6, <1>7, <1>8 DEF A, n

\* A text without a percent sign and without a plus is its own decoding.
LEMMA DecodePlain ==
    ASSUME NEW S, NEW s \in Seq(S), \A i \in 1 .. Len(s) : s[i] \notin {"%", "+"}
    PROVE  uri_decode(s) = s
<1>1. Len(s) \in 0 .. Len(s) /\ \A i \in Len(s) + 1 .. Len(s) : s[i] \in {}
  BY LenProperties
<1>2. uri_decode(s) = SubSeq(s, 1, Len(s)) \o <<>>
  BY <1>1, DecodeTail
<1> QED BY <1>2, SubSeqFull, ConcatEmptySeq

-----------------------------------------------------------------------------
(* What is read from a link *)

LEMMA MinIs ==
    ASSUME NEW T \in SUBSET Int, NEW m \in T, \A x \in T : m <= x
    PROVE  Min(T) = m
<1>1. \A x \in T : (\A y \in T : x <= y) => x = m
  <2> TAKE x \in T
  <2> HAVE \A y \in T : x <= y
  <2>1. x <= m /\ m <= x /\ x \in Int /\ m \in Int
    OBVIOUS
  <2> QED BY <2>1
<1> QED BY <1>1 DEF Min

LEMMA MaxOne ==
    ASSUME NEW m \in Int
    PROVE  Max({m}) = m
BY DEF Max

\* A text is read up to the next "?" or "&".
LEMMA StringUpTo ==
    ASSUME NEW u, Len(u) \in Nat, NEW i \in 1 .. Len(u) + 1, NEW e \in Ends(u), i <= e,
           \A x \in i .. e - 1 : x \notin Ends(u)
    PROVE  StringAt(u, i) = SubSeq(u, i, e - 1)
<1> DEFINE T == {x \in Ends(u) : x >= i}
<1>1. T \in SUBSET Int /\ e \in T
  BY DEF Ends
<1>2. \A x \in T : e <= x
  <2> TAKE x \in T
  <2>1. x \in Int /\ x >= i /\ x \in Ends(u) /\ e \in Int
    BY <1>1
  <2> HIDE DEF T
  <2>2. x < e => x \in i .. e - 1
    BY <2>1
  <2> QED BY <2>1, <2>2
<1> HIDE DEF T
<1>3. Min(T) = e
  BY <1>1, <1>2, MinIs
<1> QED BY <1>3 DEF StringAt, T

LEMMA OnePlace ==
    ASSUME NEW S, NEW s \in Seq(S), NEW i \in 1 .. Len(s)
    PROVE  SubSeq(s, i, i) = <<s[i]>>
<1>1. i \in Int /\ i + 1 \in Int /\ i < i + 1 /\ i \in i .. Len(s) /\ s[i] \in S
  BY LenProperties, ElementOfSeq
<1>2. SubSeq(s, i, i) = <<s[i]>> \o SubSeq(s, i + 1, i)
  BY <1>1, SubSeqRecursiveFirst
<1>3. SubSeq(s, i + 1, i) = <<>>
  BY <1>1, SubSeqEmpty
<1>4. <<s[i]>> \in Seq(S)
  BY <1>1
<1> QED BY <1>2, <1>3, <1>4, ConcatEmptySeq

\* What starts a parameter, or ends one.
Marks == {"?", "&", "=", "addr", "port", "key"}

LEMMA DecimalPlain == Decimal \cap (Marks \cup Reserved) = {}
<1>1. \A i \in 1 .. 10 : HexDigits[i] \notin Marks \cup Reserved
  BY DEF HexDigits, Marks, Reserved
<1> QED BY <1>1 DEF Decimal

\* The digits of a port are all its characters.
LEMMA DigitsAll ==
    ASSUME NEW port \in Seq(Decimal)
    PROVE  Digits(port) = port
<1>1. Len(port) \in Nat /\ \A i \in 1 .. Len(port) : port[i] \in Decimal
  BY LenProperties, ElementOfSeq
<1> DEFINE T == {i \in 1 .. Len(port) : port[i] \notin Decimal} \cup {Len(port) + 1}
<1>2. T = {Len(port) + 1}
  BY <1>1
<1> HIDE DEF T
<1>3. Min(T) = Len(port) + 1
  <2>1. T \in SUBSET Int /\ Len(port) + 1 \in T /\ \A x \in T : Len(port) + 1 <= x
    BY <1>1, <1>2
  <2> QED BY <2>1, MinIs
<1>4. Min(T) - 1 = Len(port)
  BY <1>1, <1>3
<1> QED BY <1>4, SubSeqFull DEF Digits, T

\* Whatever the uri, a port is read as digits.
LEMMA DigitsType ==
    ASSUME NEW S, NEW s \in Seq(S)
    PROVE  Digits(s) \in Seq(Decimal)
<1>1. Len(s) \in Nat
  BY LenProperties
<1> DEFINE T == {i \in 1 .. Len(s) : s[i] \notin Decimal} \cup {Len(s) + 1}
<1>2. T \in SUBSET Nat /\ T # {}
  BY <1>1
<1>3. \A i \in 1 .. Len(s) : s[i] \notin Decimal => i \in T
  OBVIOUS
<1>4. \A i \in T : i <= Len(s) + 1
  BY <1>1
<1> HIDE DEF T
<1>5. PICK m \in T : \A x \in T : m <= x
  BY <1>2, LeastOf
<1>6. Min(T) = m
  BY <1>2, <1>5, MinIs
<1>7. \A i \in 1 .. m - 1 : s[i] \in Decimal
  <2> TAKE i \in 1 .. m - 1
  <2>1. m \in Nat /\ m <= Len(s) + 1
    BY <1>2, <1>4, <1>5
  <2>2. i \in 1 .. Len(s) /\ ~(m <= i)
    BY <1>1, <2>1
  <2> QED BY <1>3, <1>5, <2>2
<1>8. SubSeq(s, 1, m - 1) \in Seq(Decimal)
  <2>1. 1 \in Int /\ m - 1 \in Int
    BY <1>2, <1>5
  <2> QED BY <1>7, <2>1, SubSeqProperties
<1> QED BY <1>6, <1>8 DEF Digits, T

\* u begins as a link to page with this address and port does.
LinkTo(u, page, addr, port) ==
    /\ Len(u) \in Nat /\ 8 + Len(port) <= Len(u)
    /\ u[1] = page /\ u[2] = "?" /\ u[3] = "addr" /\ u[4] = "=" /\ u[5] = addr
    /\ u[6] = "&" /\ u[7] = "port" /\ u[8] = "="
    /\ \A j \in 1 .. Len(port) : u[8 + j] = port[j]

\* A name that is in no parameter's way.
Unmarked(c) == c \notin Marks \cup Reserved

\* The places where a parameter's name may be found in a link.
LEMMA FoundIn ==
    ASSUME NEW u, NEW page, NEW addr, NEW port \in Seq(Decimal), LinkTo(u, page, addr, port),
           Unmarked(page), Unmarked(addr), NEW w \in {"addr", "port", "key"}
    PROVE  /\ \A i \in Found(u, w) : i \in 9 + Len(port) .. Len(u) - 1 \/ (i \in {3, 7} /\ u[i] = w)
           /\ w = "addr" => 3 \in Found(u, w)
           /\ w = "port" => 7 \in Found(u, w)
<1> DEFINE p == Len(port)
<1>1. p \in Nat /\ (\A j \in 1 .. p : port[j] \in Decimal) /\ Len(u) \in Nat /\ 8 + p <= Len(u)
  BY LenProperties, ElementOfSeq DEF LinkTo
<1>2. \A i \in 9 .. 8 + p : u[i] \in Decimal
  <2> TAKE i \in 9 .. 8 + p
  <2>1. PICK j \in 1 .. p : i = 8 + j
    <3>1. i - 8 \in 1 .. p /\ i = 8 + (i - 8)
      BY <1>1
    <3> QED BY <3>1
  <2>2. u[8 + j] = port[j]
    BY DEF LinkTo
  <2> QED BY <1>1, <2>1, <2>2
<1>3. ASSUME NEW i \in Found(u, w), i \notin 9 + p .. Len(u) - 1
      PROVE  i \in {3, 7} /\ u[i] = w
  <2>1. i \in 1 .. Len(u) - 1 /\ u[i] = w
    BY <1>3 DEF Found
  <2>2. i \notin 9 .. 8 + p
    BY <1>2, <2>1, DecimalPlain DEF Marks
  <2> HIDE DEF p
  <2>3. i \in 1 .. 8
    BY <1>1, <1>3, <2>1, <2>2
  <2>4. i \notin {1, 2, 4, 5, 6, 8}
    BY <2>1 DEF LinkTo, Unmarked, Marks
  <2> QED BY <2>1, <2>3, <2>4
<1>4. 3 \in 1 .. Len(u) - 1 /\ 3 + 1 = 4 /\ 7 \in 1 .. Len(u) - 1 /\ 7 + 1 = 8
  BY <1>1
<1>5. w = "addr" => 3 \in Found(u, w)
  BY <1>4 DEF Found, LinkTo
<1>6. w = "port" => 7 \in Found(u, w)
  BY <1>4 DEF Found, LinkTo
<1>7. \A i \in Found(u, w) : i \in 9 + p .. Len(u) - 1 \/ (i \in {3, 7} /\ u[i] = w)
  BY <1>3
<1> QED BY <1>5, <1>6, <1>7

\* After the port nothing says w again.
NoMore(u, port, w) == \A i \in 9 + Len(port) .. Len(u) - 1 : ~(u[i] = w /\ u[i + 1] = "=")

LEMMA FoundOnce ==
    ASSUME NEW u, NEW page, NEW addr, NEW port \in Seq(Decimal), LinkTo(u, page, addr, port),
           Unmarked(page), Unmarked(addr), NEW w \in {"addr", "port", "key"}, NoMore(u, port, w)
    PROVE  Found(u, w) = IF w = "addr" THEN {3} ELSE IF w = "port" THEN {7} ELSE {}
<1>1. \A i \in Found(u, w) : i \notin 9 + Len(port) .. Len(u) - 1
  BY DEF Found, NoMore
<1>2. \A i \in Found(u, w) : i \in {3, 7} /\ u[i] = w
  BY <1>1, FoundIn
<1>3. u[3] = "addr" /\ u[7] = "port"
  BY DEF LinkTo
<1>4. (w = "addr" => 3 \in Found(u, w)) /\ (w = "port" => 7 \in Found(u, w))
  BY FoundIn
<1>5. CASE w = "addr"
  BY <1>2, <1>3, <1>4, <1>5
<1>6. CASE w = "port"
  BY <1>2, <1>3, <1>4, <1>6
<1>7. CASE w = "key"
  BY <1>2, <1>3, <1>7
<1> QED BY <1>5, <1>6, <1>7

\* The address is found where it is, if what follows the port gives none.
LEMMA AddrRead ==
    ASSUME NEW S, NEW u \in Seq(S), NEW page, NEW addr, NEW port \in Seq(Decimal),
           LinkTo(u, page, addr, port), Unmarked(page), Unmarked(addr), NoMore(u, port, "addr")
    PROVE  Param(u, "addr") = <<addr>>
<1>1. Len(port) \in Nat /\ Len(u) \in Nat /\ 8 + Len(port) <= Len(u)
  BY LenProperties DEF LinkTo
<1>2. Found(u, "addr") = {3}
  BY FoundOnce
<1>3. Max({3}) + 2 = 5
  BY MaxOne
<1>4. StringAt(u, 5) = SubSeq(u, 5, 5)
  <2>1. 6 \in Ends(u) /\ 5 \notin Ends(u)
    BY <1>1 DEF Ends, LinkTo, Unmarked, Marks
  <2>2. Len(u) \in Nat /\ 5 \in 1 .. Len(u) + 1 /\ 5 <= 6
    BY <1>1
  <2>3. \A x \in 5 .. 6 - 1 : x \notin Ends(u)
    <3>1. \A x \in 5 .. 6 - 1 : x = 5
      OBVIOUS
    <3> QED BY <2>1, <3>1
  <2>4. StringAt(u, 5) = SubSeq(u, 5, 6 - 1)
    BY <2>1, <2>2, <2>3, StringUpTo
  <2> QED BY <2>4
<1>5. SubSeq(u, 5, 5) = <<addr>>
  <2>1. 5 \in 1 .. Len(u) /\ u[5] = addr
    BY <1>1 DEF LinkTo
  <2> QED BY <2>1, OnePlace
<1> QED BY <1>2, <1>3, <1>4, <1>5 DEF Param

\* So is the port, if it ends where the uri does or at a "&".
LEMMA PortRead ==
    ASSUME NEW S, NEW u \in Seq(S), NEW page, NEW addr, NEW port \in Seq(Decimal),
           LinkTo(u, page, addr, port), Unmarked(page), Unmarked(addr), NoMore(u, port, "port"),
           Len(u) = 8 + Len(port) \/ (Len(u) > 8 + Len(port) /\ u[9 + Len(port)] = "&")
    PROVE  Port(u) = port
<1> DEFINE p == Len(port)
<1>1. p \in Nat /\ (\A j \in 1 .. p : port[j] \in Decimal) /\ Len(u) \in Nat /\ 8 + p <= Len(u)
  BY LenProperties, ElementOfSeq DEF LinkTo
<1>2. Found(u, "port") = {7}
  BY FoundOnce
<1>3. Max({7}) + 2 = 9
  BY MaxOne
<1>4. SubSeq(u, 9, 8 + p) = port
  <2> DEFINE v == SubSeq(u, 9, 8 + p)
  <2>1. 9 \in Int /\ 8 + p \in Int /\ \A i \in 9 .. 8 + p : u[i] \in S
    BY <1>1, ElementOfSeq
  <2>2. /\ v \in Seq(S) /\ Len(v) = IF 9 <= 8 + p THEN 8 + p - 9 + 1 ELSE 0
        /\ \A i \in 1 .. 8 + p - 9 + 1 : v[i] = u[9 + i - 1]
    BY <2>1, SubSeqProperties
  <2>3. Len(v) = p
    BY <1>1, <2>2
  <2> HIDE DEF v
  <2>4. \A i \in 1 .. p : v[i] = port[i]
    <3> TAKE i \in 1 .. p
    <3>1. i \in 1 .. 8 + p - 9 + 1 /\ 9 + i - 1 = 8 + i
      BY <1>1
    <3>2. v[i] = u[9 + i - 1] /\ u[8 + i] = port[i]
      BY <2>2, <3>1 DEF LinkTo
    <3> QED BY <3>1, <3>2
  <2>5. v \in Seq(S \cup Decimal) /\ port \in Seq(S \cup Decimal)
    BY <2>2, SeqMonotonic
  <2>6. v = port
    BY <2>3, <2>4, <2>5, SeqEqual
  <2> QED BY <2>6 DEF v
<1>5. StringAt(u, 9) = SubSeq(u, 9, 8 + p)
  <2>1. 9 + p \in Ends(u)
    BY <1>1 DEF Ends
  <2>2. \A x \in 9 .. 9 + p - 1 : x \notin Ends(u)
    <3> TAKE x \in 9 .. 9 + p - 1
    <3>1. PICK j \in 1 .. p : x = 8 + j
      <4>1. x - 8 \in 1 .. p /\ x = 8 + (x - 8)
        BY <1>1
      <4> QED BY <4>1
    <3>2. u[x] \in Decimal /\ x # Len(u) + 1
      <4>1. u[8 + j] = port[j]
        BY DEF LinkTo
      <4>2. x # Len(u) + 1
        BY <1>1
      <4> QED BY <1>1, <3>1, <4>1, <4>2
    <3>3. u[x] \notin {"?", "&"}
      BY <3>2, DecimalPlain DEF Marks
    <3> QED BY <3>2, <3>3 DEF Ends
  <2>3. PICK e \in Ends(u) : e = 9 + p /\ e - 1 = 8 + p /\ 9 <= e /\ 9 \in 1 .. Len(u) + 1
    BY <1>1, <2>1
  <2> HIDE DEF p
  <2>4. \A x \in 9 .. e - 1 : x \notin Ends(u)
    BY <1>1, <2>2, <2>3
  <2>5. StringAt(u, 9) = SubSeq(u, 9, e - 1)
    BY <1>1, <2>3, <2>4, StringUpTo
  <2> QED BY <2>3, <2>5
<1>6. Digits(StringAt(u, 9)) = port /\ 7 + 2 = 9
  <2>1. StringAt(u, 9) = port
    BY <1>4, <1>5
  <2>2. Digits(port) = port
    BY DigitsAll
  <2> QED BY <2>1, <2>2
<1> DEFINE numbers == {i \in Found(u, "port") : Digits(StringAt(u, i + 2)) # <<>>}
<1>7. numbers = IF port = <<>> THEN {} ELSE {7}
  BY <1>2, <1>6
<1>8. Port(u) = IF numbers = {} THEN <<>> ELSE Digits(StringAt(u, Max(numbers) + 2))
  BY DEF Port
<1> HIDE DEF numbers
<1> QED BY <1>3, <1>6, <1>7, <1>8

\* Whatever the uri, what is read of its port are digits.
LEMMA PortType ==
    ASSUME NEW S, NEW u \in Seq(S)
    PROVE  Port(u) \in Seq(Decimal)
<1>1. Len(u) \in Nat /\ \A i \in 1 .. Len(u) : u[i] \in S
  BY LenProperties, ElementOfSeq
<1>2. ASSUME NEW i \in 1 .. Len(u) + 1 PROVE StringAt(u, i) \in Seq(S)
  <2> DEFINE T == {e \in Ends(u) : e >= i}
  <2>1. T \in SUBSET Nat /\ Len(u) + 1 \in T /\ \A e \in T : e <= Len(u) + 1
    BY <1>1 DEF Ends
  <2> HIDE DEF T
  <2>2. PICK m \in T : \A x \in T : m <= x
    BY <2>1, LeastOf
  <2>3. Min(T) = m
    BY <2>1, <2>2, MinIs
  <2>4. SubSeq(u, i, m - 1) \in Seq(S)
    <3>1. m \in Nat /\ m <= Len(u) + 1
      BY <2>1, <2>2
    <3>2. i \in Int /\ m - 1 \in Int /\ \A j \in i .. m - 1 : u[j] \in S
      BY <1>1, <3>1
    <3> QED BY <3>2, SubSeqProperties
  <2> QED BY <2>3, <2>4 DEF StringAt, T
<1> DEFINE numbers == {i \in Found(u, "port") : Digits(StringAt(u, i + 2)) # <<>>}
<1>3. Port(u) = IF numbers = {} THEN <<>> ELSE Digits(StringAt(u, Max(numbers) + 2))
  BY DEF Port
<1>4. numbers \in SUBSET (1 .. Len(u))
  BY <1>1 DEF Found
<1>5. \A i \in numbers : i + 2 \in 1 .. Len(u) + 1
  BY <1>1 DEF Found
<1> HIDE DEF numbers
<1>6. CASE numbers = {}
  BY <1>3, <1>6, EmptySeq
<1>7. CASE numbers # {}
  <2>1. Max(numbers) \in numbers
    BY <1>1, <1>4, <1>7, GreatestOf
  <2>2. PICK i \in 1 .. Len(u) + 1 : i = Max(numbers) + 2
    BY <1>5, <2>1
  <2>3. StringAt(u, Max(numbers) + 2) \in Seq(S)
    BY <1>2, <2>2
  <2> QED BY <1>3, <1>7, <2>3, DigitsType
<1> QED BY <1>6, <1>7

-----------------------------------------------------------------------------
(* The links of the pages *)

\* what a link to an instance is made of, but for a key
LinkWords(page, addr) == Marks \cup Decimal \cup {page, addr}

\* The parameters of an instance, place by place.
LEMMA Parameters ==
    ASSUME NEW B, NEW addr \in B, NEW port \in Seq(B), {"addr", "=", "&", "port"} \subseteq B
    PROVE  /\ AddrPort(addr, port) \in Seq(B) /\ Len(AddrPort(addr, port)) = 6 + Len(port)
           /\ AddrPort(addr, port)[1] = "addr" /\ AddrPort(addr, port)[2] = "="
           /\ AddrPort(addr, port)[3] = addr /\ AddrPort(addr, port)[4] = "&"
           /\ AddrPort(addr, port)[5] = "port" /\ AddrPort(addr, port)[6] = "="
           /\ \A j \in 1 .. Len(port) : AddrPort(addr, port)[6 + j] = port[j]
<1> DEFINE h == <<"addr", "=", addr, "&", "port", "=">>
<1>1. h \in Seq(B) /\ Len(h) = 6
  OBVIOUS
<1>2. /\ h[1] = "addr" /\ h[2] = "=" /\ h[3] = addr /\ h[4] = "&" /\ h[5] = "port"
      /\ h[6] = "="
  OBVIOUS
<1>3. AddrPort(addr, port) = h \o port
  BY DEF AddrPort
<1> HIDE DEF h
<1>4. /\ Starts(h, h \o port) /\ Len(h \o port) = Len(h) + Len(port)
      /\ \A j \in 1 .. Len(port) : (h \o port)[Len(h) + j] = port[j]
  <2>1. h \in Seq(B) /\ port \in Seq(B)
    BY <1>1
  <2> QED BY <2>1, Follows
<1>5. \A j \in 1 .. 6 : (h \o port)[j] = h[j]
  BY <1>1, <1>4 DEF Starts
<1>6. h \o port \in Seq(B)
  BY <1>1, ConcatProperties
<1> QED BY <1>1, <1>2, <1>3, <1>4, <1>5, <1>6

\* A link to page with the parameters params, place by place.
LEMMA LinkPlaces ==
    ASSUME NEW B, NEW page \in B, "?" \in B, NEW params \in Seq(B)
    PROVE  /\ Link(page, params) \in Seq(B) /\ Len(Link(page, params)) = 2 + Len(params)
           /\ Link(page, params)[1] = page /\ Link(page, params)[2] = "?"
           /\ \A j \in 1 .. Len(params) : Link(page, params)[2 + j] = params[j]
<1> DEFINE h == <<page, "?">>
<1>1. h \in Seq(B) /\ Len(h) = 2 /\ h[1] = page /\ h[2] = "?"
  OBVIOUS
<1>2. Link(page, params) = h \o params
  BY DEF Link
<1> HIDE DEF h
<1>3. /\ Starts(h, h \o params) /\ Len(h \o params) = Len(h) + Len(params)
      /\ \A j \in 1 .. Len(params) : (h \o params)[Len(h) + j] = params[j]
  <2>1. h \in Seq(B) /\ params \in Seq(B)
    BY <1>1
  <2> QED BY <2>1, Follows
<1>4. \A j \in 1 .. 2 : (h \o params)[j] = h[j]
  BY <1>1, <1>3 DEF Starts
<1>5. h \o params \in Seq(B)
  BY <1>1, ConcatProperties
<1> QED BY <1>1, <1>2, <1>3, <1>4, <1>5

\* A link whose parameters begin with those of an instance.
LEMMA LinksTo ==
    ASSUME NEW B, NEW page \in B, NEW addr \in B, NEW port \in Seq(B), Marks \subseteq B,
           NEW params \in Seq(B), Starts(AddrPort(addr, port), params)
    PROVE  LinkTo(Link(page, params), page, addr, port)
<1> DEFINE a == AddrPort(addr, port)
           u == Link(page, params)
<1>1. {"addr", "=", "&", "port"} \subseteq B /\ "?" \in B
  BY DEF Marks
<1>2. /\ a \in Seq(B) /\ Len(a) = 6 + Len(port)
      /\ a[1] = "addr" /\ a[2] = "=" /\ a[3] = addr /\ a[4] = "&" /\ a[5] = "port" /\ a[6] = "="
      /\ \A j \in 1 .. Len(port) : a[6 + j] = port[j]
  BY <1>1, Parameters
<1>3. /\ Len(u) = 2 + Len(params) /\ u[1] = page /\ u[2] = "?"
      /\ \A j \in 1 .. Len(params) : u[2 + j] = params[j]
  BY <1>1, LinkPlaces
<1>4. Len(a) <= Len(params) /\ \A j \in 1 .. Len(a) : params[j] = a[j]
  BY DEF Starts
<1>5. Len(params) \in Nat /\ Len(port) \in Nat
  BY LenProperties
<1> HIDE DEF a, u
<1>6. \A j \in 1 .. 6 + Len(port) : u[2 + j] = a[j]
  BY <1>2, <1>3, <1>4, <1>5
<1>7. /\ u[2 + 1] = a[1] /\ u[2 + 2] = a[2] /\ u[2 + 3] = a[3] /\ u[2 + 4] = a[4]
      /\ u[2 + 5] = a[5] /\ u[2 + 6] = a[6]
  <2>1. \A j \in 1 .. 6 : j \in 1 .. 6 + Len(port)
    BY <1>5
  <2> QED BY <1>6, <2>1
<1>8. ASSUME NEW j \in 1 .. Len(port) PROVE u[8 + j] = port[j]
  <2>1. PICK x \in 1 .. 6 + Len(port) : x = 6 + j /\ 2 + x = 8 + j
    BY <1>5
  <2>2. u[2 + x] = a[x] /\ a[6 + j] = port[j]
    BY <1>2, <1>6
  <2> QED BY <2>1, <2>2
<1> QED BY <1>2, <1>3, <1>4, <1>5, <1>7, <1>8 DEF LinkTo, u

\* A link to the page of an instance.
LEMMA InstanceLink ==
    ASSUME NEW page, NEW addr, NEW port \in Seq(Decimal), NEW u,
           u = Link(page, AddrPort(addr, port))
    PROVE  /\ u \in Seq(LinkWords(page, addr)) /\ Len(u) = 8 + Len(port)
           /\ LinkTo(u, page, addr, port)
<1> DEFINE B == LinkWords(page, addr)
           a == AddrPort(addr, port)
<1>1. Marks \subseteq B /\ Decimal \subseteq B /\ page \in B /\ addr \in B
  BY DEF LinkWords
<1>2. {"addr", "=", "&", "port"} \subseteq B /\ "?" \in B
  BY <1>1 DEF Marks
<1> HIDE DEF B
<1>3. port \in Seq(B) /\ Len(port) \in Nat
  BY <1>1, SeqMonotonic, LenProperties
<1>4. a \in Seq(B) /\ Len(a) = 6 + Len(port)
  BY <1>1, <1>2, <1>3, Parameters
<1> HIDE DEF a
<1>5. Link(page, a) \in Seq(B) /\ Len(Link(page, a)) = 2 + Len(a)
  BY <1>1, <1>2, <1>4, LinkPlaces
<1>6. Starts(a, a)
  BY <1>3, <1>4 DEF Starts
<1>7. LinkTo(Link(page, a), page, addr, port)
  BY <1>1, <1>3, <1>4, <1>6, LinksTo DEF a
<1> QED BY <1>3, <1>4, <1>5, <1>7 DEF a, B

\* A link to what a key of an instance is about.
KeyLinkTo(u, page, addr, port, key) ==
    /\ LinkTo(u, page, addr, port) /\ Len(u) = 11 + Len(port) + Len(key)
    /\ u[9 + Len(port)] = "&" /\ u[10 + Len(port)] = "key" /\ u[11 + Len(port)] = "="
    /\ \A j \in 1 .. Len(key) : u[11 + Len(port) + j] = key[j]

LEMMA KeyLink ==
    ASSUME NEW page, NEW addr, NEW port \in Seq(Decimal), NEW K, NEW key \in Seq(K), NEW u,
           u = key_href(page, addr, port, key)
    PROVE  u \in Seq(LinkWords(page, addr) \cup K) /\ KeyLinkTo(u, page, addr, port, key)
<1> DEFINE B == LinkWords(page, addr) \cup K
           a == AddrPort(addr, port)
           g == <<"&", "key", "=">>
           p == Len(port)
           q == Len(key)
<1>1. Marks \subseteq B /\ Decimal \subseteq B /\ K \subseteq B /\ page \in B /\ addr \in B
  BY DEF LinkWords
<1>2. {"addr", "=", "&", "port", "key"} \subseteq B /\ "?" \in B
  BY <1>1 DEF Marks
<1> HIDE DEF B
<1>3. port \in Seq(B) /\ key \in Seq(B) /\ p \in Nat /\ q \in Nat
  BY <1>1, SeqMonotonic, LenProperties
<1>4. a \in Seq(B) /\ Len(a) = 6 + p
  BY <1>1, <1>2, <1>3, Parameters
<1>5. g \in Seq(B) /\ Len(g) = 3 /\ g[1] = "&" /\ g[2] = "key" /\ g[3] = "="
  BY <1>2
<1>6. u = Link(page, (a \o g) \o key)
  BY DEF key_href
<1> DEFINE x == a \o g
           y == x \o key
<1> HIDE DEF a, g, p, q
<1>7. /\ x \in Seq(B) /\ Starts(a, x) /\ Len(x) = Len(a) + Len(g)
      /\ \A j \in 1 .. Len(g) : x[Len(a) + j] = g[j]
  <2>1. a \in Seq(B) /\ g \in Seq(B)
    BY <1>4, <1>5
  <2>2. a \o g \in Seq(B)
    BY <2>1, ConcatProperties
  <2>3. /\ Starts(a, a \o g) /\ Len(a \o g) = Len(a) + Len(g)
        /\ \A j \in 1 .. Len(g) : (a \o g)[Len(a) + j] = g[j]
    BY <2>1, Follows
  <2> QED BY <2>2, <2>3
<1> HIDE DEF x
<1>8. /\ y \in Seq(B) /\ Starts(x, y) /\ Len(y) = Len(x) + Len(key)
      /\ \A j \in 1 .. Len(key) : y[Len(x) + j] = key[j]
  <2>1. x \in Seq(B) /\ key \in Seq(B)
    BY <1>3, <1>7
  <2>2. x \o key \in Seq(B)
    BY <2>1, ConcatProperties
  <2>3. /\ Starts(x, x \o key) /\ Len(x \o key) = Len(x) + Len(key)
        /\ \A j \in 1 .. Len(key) : (x \o key)[Len(x) + j] = key[j]
    BY <2>1, Follows
  <2> QED BY <2>2, <2>3
<1> HIDE DEF y
<1>9. Len(x) = 9 + p /\ Len(y) = 9 + p + q
  BY <1>3, <1>4, <1>5, <1>7, <1>8 DEF q
<1>10. y[7 + p] = "&" /\ y[8 + p] = "key" /\ y[9 + p] = "="
  <2>1. \A j \in 1 .. 3 : x[6 + p + j] = g[j] /\ 6 + p + j \in 1 .. 9 + p
    BY <1>3, <1>4, <1>5, <1>7
  <2>2. \A j \in 1 .. 9 + p : y[j] = x[j]
    BY <1>8, <1>9 DEF Starts
  <2>3. \A j \in 1 .. 3 : y[6 + p + j] = g[j]
    BY <2>1, <2>2
  <2>4. y[6 + p + 1] = "&" /\ y[6 + p + 2] = "key" /\ y[6 + p + 3] = "="
    BY <1>5, <2>3
  <2>5. 6 + p + 1 = 7 + p /\ 6 + p + 2 = 8 + p /\ 6 + p + 3 = 9 + p
    BY <1>3
  <2> QED BY <2>4, <2>5
<1>11. Starts(a, y)
  <2>1. \A j \in 1 .. 6 + p : j \in 1 .. 9 + p
    BY <1>3
  <2> QED BY <1>3, <1>4, <1>7, <1>8, <1>9, <2>1 DEF Starts
<1>12. LinkTo(Link(page, y), page, addr, port)
  BY <1>1, <1>3, <1>8, <1>11, LinksTo DEF a
<1>13. /\ Link(page, y) \in Seq(B) /\ Len(Link(page, y)) = 2 + Len(y)
       /\ \A j \in 1 .. Len(y) : Link(page, y)[2 + j] = y[j]
  <2>1. page \in B /\ "?" \in B /\ y \in Seq(B)
    BY <1>1, <1>2, <1>8
  <2> QED BY <2>1, LinkPlaces
<1>14. u = Link(page, y)
  BY <1>6 DEF y, x
<1>15. Len(u) = 11 + p + q /\ \A j \in 1 .. 9 + p + q : u[2 + j] = y[j]
  BY <1>3, <1>9, <1>13, <1>14
<1>16. u[9 + p] = "&" /\ u[10 + p] = "key" /\ u[11 + p] = "="
  <2>1. /\ 7 + p \in 1 .. 9 + p + q /\ 8 + p \in 1 .. 9 + p + q /\ 9 + p \in 1 .. 9 + p + q
        /\ 2 + (7 + p) = 9 + p /\ 2 + (8 + p) = 10 + p /\ 2 + (9 + p) = 11 + p
    BY <1>3
  <2>2. u[2 + (7 + p)] = y[7 + p] /\ u[2 + (8 + p)] = y[8 + p] /\ u[2 + (9 + p)] = y[9 + p]
    BY <1>15, <2>1
  <2> QED BY <1>10, <2>1, <2>2
<1>17. ASSUME NEW j \in 1 .. q PROVE u[11 + p + j] = key[j]
  <2>1. PICK i \in 1 .. 9 + p + q : i = 9 + p + j /\ 2 + i = 11 + p + j
    BY <1>3
  <2>2. u[2 + i] = y[i] /\ y[9 + p + j] = key[j]
    BY <1>8, <1>9, <1>15 DEF q
  <2> QED BY <2>1, <2>2
<1> QED BY <1>12, <1>13, <1>14, <1>15, <1>16, <1>17 DEF KeyLinkTo, p, q, B

\* Of these words none is decoded to something else.
LEMMA LinkWordsPlain ==
    ASSUME NEW page, NEW addr, Unmarked(page), Unmarked(addr)
    PROVE  LinkWords(page, addr) \cap {"%", "+"} = {}
<1>1. Marks \cap {"%", "+"} = {}
  BY DEF Marks
<1>2. Decimal \cap {"%", "+"} = {}
  BY DecimalPlain DEF Reserved
<1>3. page \notin {"%", "+"} /\ addr \notin {"%", "+"}
  BY DEF Unmarked, Reserved
<1> QED BY <1>1, <1>2, <1>3 DEF LinkWords

\* A link to an instance's page is read as it was made.
THEOREM InstanceLinkRead ==
    ASSUME NEW page, NEW addr, NEW port \in Seq(Decimal), Unmarked(page), Unmarked(addr)
    PROVE  Parsed(uri_decode(Link(page, AddrPort(addr, port)))) =
              [page |-> page, addr |-> <<addr>>, port |-> port, key |-> <<>>]
<1> DEFINE S == LinkWords(page, addr)
<1>1. PICK u : u = Link(page, AddrPort(addr, port))
  OBVIOUS
<1>2. u \in Seq(S) /\ Len(u) = 8 + Len(port) /\ LinkTo(u, page, addr, port)
  BY <1>1, InstanceLink
<1>3. Len(port) \in Nat /\ Len(u) \in Nat /\ \A i \in 1 .. Len(u) : u[i] \in S
  BY <1>2, LenProperties, ElementOfSeq
<1>4. uri_decode(u) = u
  <2>1. \A i \in 1 .. Len(u) : u[i] \notin {"%", "+"}
    BY <1>3, LinkWordsPlain
  <2> HIDE DEF S
  <2> QED BY <1>2, <2>1, DecodePlain
<1> HIDE DEF S
<1>5. \A w : NoMore(u, port, w)
  BY <1>2, <1>3 DEF NoMore
<1>6. Param(u, "addr") = <<addr>>
  BY <1>2, <1>5, AddrRead
<1>7. Port(u) = port
  BY <1>2, <1>5, PortRead
<1>8. Param(u, "key") = <<>>
  <2>1. Found(u, "key") = {}
    BY <1>2, <1>5, FoundOnce
  <2> QED BY <2>1 DEF Param
<1>9. Head(u) = page
  BY <1>2, <1>3 DEF LinkTo
<1> QED BY <1>1, <1>4, <1>6, <1>7, <1>8, <1>9 DEF Parsed

\* A parameter that a link with a key gives after the port is the key, or stands in the key.
LEMMA KeyNamed ==
    ASSUME NEW u, NEW page, NEW addr, NEW port \in Seq(Decimal), NEW K, NEW key \in Seq(K),
           KeyLinkTo(u, page, addr, port, key), NEW w \in {"addr", "port", "key"},
           NEW i \in 9 + Len(port) .. Len(u) - 1, u[i] = w, u[i + 1] = "="
    PROVE  \/ w = "key" /\ i = 10 + Len(port)
           \/ Found(key, w) # {}
<1> DEFINE p == Len(port)
           q == Len(key)
<1>1. p \in Nat /\ q \in Nat
  BY LenProperties
<1>2. /\ Len(u) = 11 + p + q
      /\ u[9 + p] = "&" /\ u[10 + p] = "key" /\ u[11 + p] = "="
      /\ \A j \in 1 .. q : u[11 + p + j] = key[j]
  BY DEF KeyLinkTo
<1>3. i \in 9 + p .. Len(u) - 1
  OBVIOUS
<1> HIDE DEF p, q
<1>4. CASE i \in 12 + p .. Len(u) - 1
  <2>1. PICK j \in 1 .. q - 1 : i = 11 + p + j /\ i + 1 = 11 + p + (j + 1)
    <3>1. i - (11 + p) \in 1 .. q - 1 /\ i = 11 + p + (i - (11 + p))
      BY <1>1, <1>2, <1>4
    <3> QED BY <1>1, <3>1
  <2>2. u[11 + p + j] = key[j] /\ u[11 + p + (j + 1)] = key[j + 1]
    <3>1. j \in 1 .. q /\ j + 1 \in 1 .. q
      BY <1>1
    <3> QED BY <1>2, <3>1
  <2>3. j \in Found(key, w)
    BY <2>1, <2>2 DEF Found, q
  <2> QED BY <2>3
<1>5. CASE i = 9 + p
  BY <1>2, <1>5
<1>6. CASE i = 11 + p
  BY <1>2, <1>6
<1>7. CASE i = 10 + p
  BY <1>2, <1>7 DEF p
<1>8. i \in 12 + p .. Len(u) - 1 \/ i \in {9 + p, 10 + p, 11 + p}
  BY <1>1, <1>2, <1>3
<1> QED BY <1>4, <1>5, <1>6, <1>7, <1>8

\* A link to a key's page is read as it was made, if the key is plain.
THEOREM KeyLinkRead ==
    ASSUME NEW page, NEW addr, NEW port \in Seq(Decimal), Unmarked(page), Unmarked(addr),
           NEW K, NEW key \in Seq(K), Plain(key)
    PROVE  Parsed(uri_decode(key_href(page, addr, port, key))) =
              [page |-> page, addr |-> <<addr>>, port |-> port, key |-> key]
<1> DEFINE S == LinkWords(page, addr) \cup Range(key)
           p == Len(port)
           q == Len(key)
<1>1. PICK u : u = key_href(page, addr, port, key)
  OBVIOUS
<1>2. key \in Seq(Range(key)) /\ p \in Nat /\ q \in Nat
  BY SeqOfRange, LenProperties
<1>3. u \in Seq(S) /\ KeyLinkTo(u, page, addr, port, key)
  BY <1>1, <1>2, KeyLink
<1>4. /\ LinkTo(u, page, addr, port) /\ Len(u) = 11 + p + q
      /\ u[9 + p] = "&" /\ u[10 + p] = "key" /\ u[11 + p] = "="
      /\ \A j \in 1 .. q : u[11 + p + j] = key[j]
  BY <1>3 DEF KeyLinkTo
<1>5. Len(u) \in Nat /\ \A i \in 1 .. Len(u) : u[i] \in S
  BY <1>3, LenProperties, ElementOfSeq
<1>6. Range(key) \cap {"%", "+", "&", "?"} = {} /\ \A w \in {"addr", "port", "key"} : Found(key, w) = {}
  BY DEF Plain
<1>7. uri_decode(u) = u
  <2>1. \A i \in 1 .. Len(u) : u[i] \notin {"%", "+"}
    BY <1>5, <1>6, LinkWordsPlain
  <2> HIDE DEF S
  <2> QED BY <1>3, <2>1, DecodePlain
<1> HIDE DEF S
<1>8. NoMore(u, port, "addr") /\ NoMore(u, port, "port")
  BY <1>3, <1>6, KeyNamed DEF NoMore
<1>9. Param(u, "addr") = <<addr>>
  BY <1>3, <1>4, <1>8, AddrRead
<1>10. Port(u) = port
  <2>1. Len(u) > 8 + Len(port)
    BY <1>2, <1>4
  <2> QED BY <1>3, <1>4, <1>8, <2>1, PortRead
<1>11. Found(u, "key") = {10 + p}
  <2>1. 10 + p \in Found(u, "key")
    <3>1. 10 + p \in 1 .. Len(u) - 1 /\ 10 + p + 1 = 11 + p
      BY <1>2, <1>4
    <3> QED BY <1>4, <3>1 DEF Found
  <2>2. ASSUME NEW i \in Found(u, "key") PROVE i = 10 + p
    <3>1. i \in 9 + p .. Len(u) - 1 \/ (i \in {3, 7} /\ u[i] = "key")
      BY <1>4, FoundIn
    <3>2. u[3] = "addr" /\ u[7] = "port"
      BY <1>4 DEF LinkTo
    <3>3. i \in 9 + p .. Len(u) - 1 /\ u[i] = "key" /\ u[i + 1] = "="
      BY <2>2, <3>1, <3>2 DEF Found
    <3> QED BY <1>3, <1>6, <3>3, KeyNamed
  <2> QED BY <2>1, <2>2
<1>12. Param(u, "key") = StringAt(u, 12 + p)
  <2>1. Max({10 + p}) = 10 + p
    BY <1>2, MaxOne
  <2>2. 10 + p + 2 = 12 + p
    BY <1>2
  <2> QED BY <1>11, <2>1, <2>2 DEF Param
<1>13. \A j \in 1 .. q : key[j] \notin {"?", "&"}
  <2>1. \A j \in 1 .. q : key[j] \in Range(key)
    BY <1>2, LenProperties DEF Range
  <2> QED BY <1>6, <2>1
<1>14. StringAt(u, 12 + p) = SubSeq(u, 12 + p, Len(u))
  <2>1. PICK e \in Ends(u) : e = Len(u) + 1 /\ e - 1 = Len(u) /\ 12 + p <= e
    BY <1>2, <1>4, <1>5 DEF Ends
  <2>2. \A x \in 12 + p .. e - 1 : x \notin Ends(u)
    <3> TAKE x \in 12 + p .. e - 1
    <3>1. x \in 12 + p .. Len(u) /\ x # Len(u) + 1
      BY <1>2, <1>5, <2>1
    <3>2. PICK j \in 1 .. q : x = 11 + p + j
      <4>1. x - (11 + p) \in 1 .. q /\ x = 11 + p + (x - (11 + p))
        BY <1>2, <1>4, <3>1
      <4> QED BY <4>1
    <3>3. u[x] \notin {"?", "&"}
      BY <1>4, <1>13, <3>2
    <3> QED BY <3>1, <3>3 DEF Ends
  <2>3. 12 + p \in 1 .. Len(u) + 1
    BY <1>2, <1>4
  <2>4. StringAt(u, 12 + p) = SubSeq(u, 12 + p, e - 1)
    BY <1>5, <2>1, <2>2, <2>3, StringUpTo
  <2> QED BY <2>1, <2>4
<1>15. SubSeq(u, 12 + p, Len(u)) = key
  <2> DEFINE v == SubSeq(u, 12 + p, Len(u))
             C == S \cup K
  <2>1. PICK m \in Int, n \in Int : m = 12 + p /\ n = Len(u)
    BY <1>2, <1>5
  <2>2. \A i \in m .. n : u[i] \in S
    BY <1>2, <1>5, <2>1
  <2>3. /\ SubSeq(u, m, n) \in Seq(S) /\ Len(SubSeq(u, m, n)) = IF m <= n THEN n - m + 1 ELSE 0
        /\ \A i \in 1 .. n - m + 1 : SubSeq(u, m, n)[i] = u[m + i - 1]
    BY <2>2, SubSeqProperties
  <2>4. n - m + 1 = q /\ (m <= n <=> q # 0)
    BY <1>2, <1>4, <2>1
  <2>5. Len(v) = q
    BY <1>2, <2>1, <2>3, <2>4
  <2>6. ASSUME NEW j \in 1 .. q PROVE v[j] = key[j]
    <3>1. m + j - 1 = 11 + p + j
      BY <1>2, <2>1
    <3>2. SubSeq(u, m, n)[j] = u[m + j - 1]
      BY <2>3, <2>4
    <3> QED BY <1>4, <2>1, <3>1, <3>2
  <2>7. v \in Seq(C) /\ key \in Seq(C)
    BY <2>1, <2>3, SeqMonotonic
  <2> HIDE DEF v, C
  <2>8. v = key
    BY <2>5, <2>6, <2>7, SeqEqual
  <2> QED BY <2>8 DEF v
<1>16. Head(u) = page
  BY <1>2, <1>4, <1>5 DEF LinkTo
<1> QED BY <1>1, <1>7, <1>9, <1>10, <1>12, <1>14, <1>15, <1>16 DEF Parsed

LEMMA NoDigit == "addr" \notin Range(HexDigits)
<1>1. Range(HexDigits) = {HexDigits[k] : k \in 1 .. 16}
  BY DEF HexDigits, Range
<1>2. ASSUME NEW k \in 1 .. 16 PROVE HexDigits[k] # "addr"
  <2>1. k \in {1, 2, 3, 4, 5, 6, 7, 8, 9, 10, 11, 12, 13, 14, 15, 16}
    OBVIOUS
  <2> QED BY <2>1 DEF HexDigits
<1> QED BY <1>1, <1>2

\* Whatever else a key says, it does not change the page and the address of its link if it
\* gives no address, and what is read of the port are digits.
LEMMA AnyKeyLink ==
    ASSUME NEW page, NEW addr, NEW port \in Seq(Decimal), Unmarked(page), Unmarked(addr),
           NEW K, NEW key \in Seq(K), "addr" \notin Range(key), NEW v,
           v = uri_decode(key_href(page, addr, port, key))
    PROVE  /\ Parsed(v).page = page /\ Parsed(v).addr = <<addr>>
           /\ Parsed(v).port \in Seq(Decimal)
<1> DEFINE T == Range(key)
           S == LinkWords(page, addr) \cup T
           B == S \cup Alphabet(T)
           p == Len(port)
           q == Len(key)
<1>1. PICK u : u = key_href(page, addr, port, key)
  OBVIOUS
<1>2. key \in Seq(T) /\ p \in Nat /\ q \in Nat
  BY SeqOfRange, LenProperties
<1>3. u \in Seq(S) /\ KeyLinkTo(u, page, addr, port, key)
  BY <1>1, <1>2, KeyLink
<1>4. /\ LinkTo(u, page, addr, port) /\ Len(u) = 11 + p + q
      /\ u[9 + p] = "&" /\ u[10 + p] = "key" /\ u[11 + p] = "="
      /\ \A j \in 1 .. q : u[11 + p + j] = key[j]
  BY <1>3 DEF KeyLinkTo
<1>5. PICK m \in 0 .. Len(u) : m = 11 + p
  BY <1>2, <1>4
<1>6. /\ u[1] = page /\ u[2] = "?" /\ u[3] = "addr" /\ u[4] = "=" /\ u[5] = addr
      /\ u[6] = "&" /\ u[7] = "port" /\ u[8] = "="
      /\ \A j \in 1 .. p : u[8 + j] = port[j]
  BY <1>4 DEF LinkTo
<1>7. ASSUME NEW i \in 1 .. m PROVE u[i] \notin {"%", "+"}
  <2>1. CASE i \in 9 .. 8 + p
    <3>1. PICK j \in 1 .. p : i = 8 + j
      <4>1. i - 8 \in 1 .. p /\ i = 8 + (i - 8)
        BY <1>2, <2>1
      <4> QED BY <4>1
    <3>2. u[i] = port[j] /\ port[j] \in Decimal
      BY <1>6, <3>1, ElementOfSeq
    <3> QED BY <3>2, DecimalPlain DEF Reserved
  <2>2. CASE i \in 1 .. 8
    <3>1. page \notin {"%", "+"} /\ addr \notin {"%", "+"}
      BY DEF Unmarked, Reserved
    <3>2. i \in {1, 2, 3, 4, 5, 6, 7, 8}
      BY <2>2
    <3> QED BY <1>6, <3>1, <3>2
  <2>3. CASE i \in 9 + p .. 11 + p
    <3>1. i \in {9 + p, 10 + p, 11 + p}
      BY <1>2, <2>3
    <3> QED BY <1>4, <3>1
  <2> QED BY <1>2, <1>5, <2>1, <2>2, <2>3
<1>8. ASSUME NEW i \in m + 1 .. Len(u) PROVE u[i] \in T
  <2>1. PICK j \in 1 .. q : i = 11 + p + j
    <3>1. i - (11 + p) \in 1 .. q /\ i = 11 + p + (i - (11 + p))
      BY <1>2, <1>4, <1>5
    <3> QED BY <3>1
  <2> QED BY <1>2, <1>4, <2>1, LenProperties DEF Range
<1>9. PICK r \in Seq(Alphabet(T)) : uri_decode(u) = SubSeq(u, 1, m) \o r
  <2> HIDE DEF T, S
  <2> QED BY <1>3, <1>7, <1>8, DecodeTail
<1> DEFINE x == SubSeq(u, 1, m)
<1>10. x \in Seq(S) /\ Len(x) = m /\ \A i \in 1 .. m : x[i] = u[i]
  <2>1. Len(u) \in Nat /\ \A i \in 1 .. m : u[i] \in S
    BY <1>3, LenProperties, ElementOfSeq
  <2> HIDE DEF S
  <2> QED BY <1>5, <2>1, SubSeqProperties
<1>11. v = x \o r
  BY <1>1, <1>9
<1> HIDE DEF x
<1>12. x \in Seq(B) /\ r \in Seq(B) /\ Len(r) \in Nat
  <2> HIDE DEF S
  <2>1. S \subseteq B /\ Alphabet(T) \subseteq B
    OBVIOUS
  <2> HIDE DEF B
  <2> QED BY <1>10, <2>1, SeqMonotonic, LenProperties
<1> HIDE DEF B
<1>13. v \in Seq(B)
  BY <1>11, <1>12, ConcatProperties
<1>14. /\ Starts(x, v) /\ Len(v) = m + Len(r)
       /\ \A j \in 1 .. Len(r) : v[m + j] = r[j]
  <2>1. /\ Starts(x, x \o r) /\ Len(x \o r) = Len(x) + Len(r)
        /\ \A j \in 1 .. Len(r) : (x \o r)[Len(x) + j] = r[j]
    BY <1>12, Follows
  <2> QED BY <1>10, <1>11, <2>1
<1>15. \A i \in 1 .. m : v[i] = u[i]
  BY <1>10, <1>14 DEF Starts
<1>16. LinkTo(v, page, addr, port)
  <2>1. \A i \in 1 .. 8 : i \in 1 .. m
    BY <1>2, <1>5
  <2>2. /\ v[1] = page /\ v[2] = "?" /\ v[3] = "addr" /\ v[4] = "=" /\ v[5] = addr
        /\ v[6] = "&" /\ v[7] = "port" /\ v[8] = "="
    BY <1>6, <1>15, <2>1
  <2>3. \A j \in 1 .. p : 8 + j \in 1 .. m
    BY <1>2, <1>5
  <2>4. \A j \in 1 .. p : v[8 + j] = port[j]
    BY <1>6, <1>15, <2>3
  <2>5. Len(v) >= 8 + p
    BY <1>2, <1>5, <1>12, <1>14
  <2> QED BY <1>2, <2>2, <2>4, <2>5 DEF LinkTo
<1>17. ASSUME NEW i \in 9 + p .. Len(v) - 1 PROVE v[i] # "addr"
  <2>1. CASE i \in 9 + p .. 11 + p
    <3>1. i \in {9 + p, 10 + p, 11 + p} /\ i \in 1 .. m
      BY <1>2, <1>5, <2>1
    <3> QED BY <1>4, <1>15, <3>1
  <2>2. CASE i \in m + 1 .. Len(v)
    <3>1. PICK j \in 1 .. Len(r) : i = m + j
      <4>1. i - m \in 1 .. Len(r) /\ i = m + (i - m)
        BY <1>12, <1>14, <2>2
      <4> QED BY <4>1
    <3>2. v[i] = r[j] /\ r[j] \in Alphabet(T)
      BY <1>9, <1>14, <3>1, ElementOfSeq
    <3>3. "addr" \notin Alphabet(T)
      <4>1. "addr" \notin T
        OBVIOUS
      <4> HIDE DEF T
      <4> QED BY <4>1, NoDigit DEF Alphabet, Reserved
    <3> QED BY <3>2, <3>3
  <2> QED BY <1>2, <1>5, <1>12, <1>14, <2>1, <2>2
<1>18. Param(v, "addr") = <<addr>>
  <2>1. NoMore(v, port, "addr")
    BY <1>17 DEF NoMore
  <2> QED BY <1>13, <1>16, <2>1, AddrRead
<1>19. Port(v) \in Seq(Decimal)
  BY <1>13, PortType
<1>20. Head(v) = page
  BY <1>2, <1>13, <1>16, LenProperties DEF LinkTo
<1> QED BY <1>18, <1>19, <1>20 DEF Parsed
=============================================================================
