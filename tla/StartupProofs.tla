---------------------------- MODULE StartupProofs ----------------------------
(***************************************************************************)
(* Proofs about Settings and Startup, for every file with any number of    *)
(* mappings, all hosts and numbers, all widths of the integers, and every  *)
(* order in which the threads of the front ends run.                       *)
(***************************************************************************)
EXTENDS Startup, Induction, SequenceTheorems, TLAPS

-----------------------------------------------------------------------------
(* What the file's numbers and ends become *)

\* What is kept of a number is an int.
LEMMA ToIntType ==
    ASSUME NEW n \in Nat
    PROVE  ToInt(n) \in Int
<1>1. n % IntSpan \in Int
  BY SettingsAssumption
<1> QED BY <1>1, SettingsAssumption DEF ToInt

\* What FoldLeft folds with: the value of the digits s to base b at the places of a set, which
\* is said by the set without its greatest place.
Follows(f, P, s, b) ==
    f = [p \in P |-> IF p = {} THEN 0 ELSE f[p \ {Max(p)}] * b + Digit[s[Max(p)]]]

LEMMA ValueExists ==
    ASSUME NEW n \in Nat, NEW s, NEW b
    PROVE  \E f : Follows(f, SUBSET (1 .. n), s, b)
<1> DEFINE T == {k \in 0 .. n : \E f : Follows(f, SUBSET (1 .. k), s, b)}
<1>1. 0 \in T
  <2>1. SUBSET (1 .. 0) = {{}}
    OBVIOUS
  <2>2. Follows([p \in SUBSET (1 .. 0) |-> 0], SUBSET (1 .. 0), s, b)
    BY <2>1 DEF Follows
  <2> QED BY <2>2
<1>2. ASSUME NEW k \in 0 .. n - 1, k \in T PROVE k + 1 \in T
  <2>1. PICK f : Follows(f, SUBSET (1 .. k), s, b)
    BY <1>2
  <2> DEFINE g == [p \in SUBSET (1 .. k + 1) |->
                      IF k + 1 \in p THEN f[p \ {k + 1}] * b + Digit[s[k + 1]] ELSE f[p]]
  <2>2. \A p \in SUBSET (1 .. k) :
           /\ g[p] = f[p]
           /\ f[p] = IF p = {} THEN 0 ELSE f[p \ {Max(p)}] * b + Digit[s[Max(p)]]
    <3> TAKE p \in SUBSET (1 .. k)
    <3>1. p \in SUBSET (1 .. k + 1) /\ k + 1 \notin p
      OBVIOUS
    <3>2. g[p] = f[p]
      BY <3>1
    <3> HIDE DEF g
    <3>3. f[p] = IF p = {} THEN 0 ELSE f[p \ {Max(p)}] * b + Digit[s[Max(p)]]
      BY <2>1 DEF Follows
    <3> QED BY <3>2, <3>3
  <2>3. ASSUME NEW p \in SUBSET (1 .. k + 1)
        PROVE  g[p] = IF p = {} THEN 0 ELSE g[p \ {Max(p)}] * b + Digit[s[Max(p)]]
    <3>1. CASE k + 1 \in p
      <4>1. k + 1 \in Nat /\ p # {}
        BY <3>1
      <4>2. Max(p) = k + 1
        <5>1. Max(p) \in p /\ \A i \in p : i <= Max(p)
          BY <4>1, GreatestOf
        <5>2. Max(p) \in 1 .. k + 1 /\ k + 1 <= Max(p)
          BY <3>1, <5>1
        <5> QED BY <5>2
      <4>3. p \ {k + 1} \in SUBSET (1 .. k)
        OBVIOUS
      <4>4. g[p \ {k + 1}] = f[p \ {k + 1}]
        BY <2>2, <4>3
      <4> QED BY <3>1, <4>2, <4>4
    <3>2. CASE k + 1 \notin p
      <4>1. p \in SUBSET (1 .. k)
        BY <3>2
      <4>2. g[p \ {Max(p)}] = f[p \ {Max(p)}]
        BY <2>2, <4>1
      <4> QED BY <2>2, <4>1, <4>2
    <3> QED BY <3>1, <3>2
  <2> HIDE DEF g
  <2>4. g = [p \in SUBSET (1 .. k + 1) |-> g[p]]
    BY DEF g
  <2>5. Follows(g, SUBSET (1 .. k + 1), s, b)
    BY <2>3, <2>4 DEF Follows
  <2> QED BY <2>5
<1> HIDE DEF T
<1>3. n \in T
  BY <1>1, <1>2, Along
<1> QED BY <1>3 DEF T

\* The characters the lexer takes for a number have a value that is a natural number.
LEMMA ValueType ==
    ASSUME NEW text \in Numbers, IsInteger(text)
    PROVE  IntegerValue(text) \in Nat
<1> DEFINE s == Numeral(text)
           b == Base(text)
           n == Len(s)
           iter == CHOOSE f : Follows(f, SUBSET (1 .. n), s, b)
<1>1. n \in Nat /\ DOMAIN s = 1 .. n
  <2>1. text \in Seq(STRING)
    BY SettingsAssumption
  <2>2. Len(text) \in Nat /\ \A i \in 3 .. Len(text) : text[i] \in STRING
    BY <2>1, LenProperties
  <2>3. SubSeq(text, 3, Len(text)) \in Seq(STRING)
    BY <2>2, SubSeqProperties
  <2>4. s \in Seq(STRING)
    BY <2>1, <2>3 DEF Numeral
  <2> QED BY <2>4, LenProperties
<1>2. b \in {8, 10, 16}
  BY DEF Base
<1>3. \A i \in 1 .. n : Digit[s[i]] \in Nat
  BY DEF IsInteger, Allowed, Digit
<1>4. IntegerValue(text) = iter[1 .. n]
  BY <1>1 DEF IntegerValue, FoldLeft, MapThenFoldSet, Follows
<1> HIDE DEF s, b, n
<1>5. Follows(iter, SUBSET (1 .. n), s, b)
  BY <1>1, ValueExists
<1> HIDE DEF iter
<1> DEFINE T == {k \in 0 .. n : iter[1 .. k] \in Nat}
<1>6. 0 \in T
  BY <1>1, <1>5 DEF Follows
<1>7. ASSUME NEW k \in 0 .. n - 1, k \in T PROVE k + 1 \in T
  <2>1. /\ k \in Nat /\ k + 1 \in Nat /\ k + 1 \in 1 .. k + 1
        /\ 1 .. k + 1 \in SUBSET (1 .. n) /\ 1 .. k + 1 # {}
    <3>1. k \in Nat /\ k + 1 \in Nat /\ k + 1 <= n
      BY <1>1
    <3> QED BY <1>1, <3>1
  <2>2. Max(1 .. k + 1) = k + 1
    <3>1. Max(1 .. k + 1) \in 1 .. k + 1 /\ \A i \in 1 .. k + 1 : i <= Max(1 .. k + 1)
      BY <2>1, GreatestOf
    <3>2. k + 1 <= Max(1 .. k + 1)
      BY <2>1, <3>1
    <3> QED BY <2>1, <3>1, <3>2
  <2>3. (1 .. k + 1) \ {k + 1} = 1 .. k
    BY <2>1
  <2>4. iter[1 .. k + 1] = iter[1 .. k] * b + Digit[s[k + 1]]
    BY <1>5, <2>1, <2>2, <2>3 DEF Follows
  <2>5. iter[1 .. k] \in Nat /\ k + 1 \in 1 .. n /\ k + 1 \in 0 .. n
    BY <1>1, <1>7
  <2>6. iter[1 .. k] * b + Digit[s[k + 1]] \in Nat
    BY <1>2, <1>3, <2>5
  <2> QED BY <2>4, <2>5, <2>6
<1> HIDE DEF T
<1>8. n \in T
  BY <1>1, <1>6, <1>7, Along
<1> QED BY <1>4, <1>8 DEF T

\* The end a statement names: a host of the file and a port that fits.
End == Host \X (0 .. PortSpan - 1)

LEMMA EndType ==
    ASSUME NEW e \in FrontEnds \cup BackEnds
    PROVE  <<e[1], ToPort(e[2])>> \in End
<1>1. e[1] \in Host /\ e[2] \in Nat
  BY SettingsAssumption
<1>2. e[2] % PortSpan \in 0 .. PortSpan - 1
  BY <1>1, SettingsAssumption
<1> QED BY <1>1, <1>2 DEF End, ToPort

-----------------------------------------------------------------------------
(* The inductive invariant *)

\* what a lookup may return
Addresses == (UNION {Address[h] : h \in Host}) \cup {"none"}

\* what addProxy makes of a mapping
Mapping ==
    [front : End, back : End, backaddr : Addresses,
     times : [Times -> Int], uris : Seq(Uris), reporter : Words \cup {"off"},
     wrote : [Times -> Int]]

\* settings->local
Record ==
    [front : End \cup {Nowhere}, back : End \cup {Nowhere},
     reporter : Words \cup {"none"}, times : [Times -> Int]]

Given(times, own) ==
    \A t \in Times : times[t] > 0 /\ times[t] = IF own[t] = 0 THEN Default[t] ELSE own[t]

TypeInv ==
    /\ at \in ParserAt /\ failed \in BOOLEAN
    /\ local \in Record
    /\ uris \in Seq(Uris) /\ proxies \in Seq(Mapping) /\ Len(proxies) <= MaxProxies
    /\ wrote \in [Times -> Int] /\ lines \in 0 .. MaxLines
    /\ started \in 0 .. MaxProxies
    /\ fpc \in [Proxy -> FrontPc] /\ saddr \in [Proxy -> Addresses] /\ hostent \in Addresses
    /\ heard \in [Proxy -> SUBSET Proxy]
    /\ \A p \in Proxy : fpc[p] # "none" => p <= Len(proxies)

Sound(m) ==
    /\ Given(m.times, m.wrote)
    /\ m.front[2] # 0 /\ m.back[2] # 0

\* In a mapping the times are those it gave, or the defaults; what addProxy takes of it is
\* usable.
MappingInv ==
    /\ at = "mapping" => Given(local.times, wrote) /\ Len(proxies) < MaxProxies
    /\ \A i \in 1 .. Len(proxies) : Sound(proxies[i])

\* an answer to a lookup that ended since p's own began
Heard(p, a) == \E q \in heard[p] : a \in Address[FrontHost(q)] \ {"none"}

Bound == {"bind", "listen", "accept", "deaf"}

\* No thread runs while the file is read.  Whatever gethostbyname keeps while a thread has
\* not copied it is an answer to a lookup of that time, and so is what it has copied.
ThreadInv ==
    /\ at \in {"top", "mapping"} => \A p \in Proxy : fpc[p] = "none"
    /\ \A p \in Proxy :
          /\ fpc[p] = "copy" => Heard(p, hostent)
          /\ fpc[p] \in Bound => Heard(p, saddr[p])

StartupInv == TypeInv /\ MappingInv /\ ThreadInv
-----------------------------------------------------------------------------
(* The parser *)

\* A mapping that is complete becomes a proxy as addProxy makes it.
LEMMA NewProxyIs ==
    ASSUME TypeInv, MappingInv, at = "mapping",
           ~Missing(local.front), ~Missing(local.back), NEW a \in Addresses
    PROVE  NewProxy(a) \in Mapping /\ Sound(NewProxy(a))
<1>1. local.front \in End /\ local.back \in End
  BY DEF TypeInv, Record, Missing, Nowhere
<1>2. local.front[1] \in Host /\ local.back[1] \in Host
  BY <1>1 DEF End
<1>3. local.times \in [Times -> Int] /\ local.reporter \in Words \cup {"none"}
  BY DEF TypeInv, Record
<1>4. NewProxy(a) \in Mapping
  BY <1>1, <1>2, <1>3 DEF NewProxy, Mapping, TypeInv
<1>5. Given(NewProxy(a).times, NewProxy(a).wrote)
  BY DEF NewProxy, MappingInv
<1> QED BY <1>4, <1>5 DEF NewProxy, Missing, Sound

LEMMA InitStartup == Init => StartupInv
<1> SUFFICES ASSUME Init PROVE StartupInv
  OBVIOUS
<1>1. TypeInv
  <2>1. local \in Record /\ wrote \in [Times -> Int]
    BY DEF Init, ConfigInit, Record
  <2>2. Len(proxies) = 0 /\ proxies \in Seq(Mapping) /\ uris \in Seq(Uris)
    BY DEF Init, ConfigInit
  <2>3. at \in ParserAt /\ failed \in BOOLEAN
    BY DEF Init, ConfigInit, ParserAt
  <2>4. /\ lines \in 0 .. MaxLines /\ started \in 0 .. MaxProxies
        /\ fpc \in [Proxy -> FrontPc] /\ saddr \in [Proxy -> Addresses] /\ hostent \in Addresses
        /\ heard \in [Proxy -> SUBSET Proxy]
        /\ \A p \in Proxy : fpc[p] = "none"
    <3>1. 0 \in 0 .. MaxLines /\ 0 \in 0 .. MaxProxies
      BY SettingsAssumption
    <3>2. "none" \in Addresses
      BY DEF Addresses
    <3> QED BY <3>1, <3>2 DEF Init, ConfigInit, FrontPc
  <2> QED BY <2>1, <2>2, <2>3, <2>4, SettingsAssumption DEF TypeInv
<1>2. MappingInv
  BY DEF Init, ConfigInit, MappingInv
<1>3. ThreadInv
  BY DEF Init, ConfigInit, ThreadInv, Bound
<1> QED BY <1>1, <1>2, <1>3 DEF StartupInv

\* The list of proxies grows by a proxy as addProxy makes it, or stays.
LEMMA Grows ==
    ASSUME TypeInv, MappingInv, at = "mapping", NEW a \in Addresses,
           proxies' = Append(proxies, NewProxy(a)),
           ~Missing(local.front), ~Missing(local.back)
    PROVE  /\ proxies' \in Seq(Mapping) /\ Len(proxies') = Len(proxies) + 1
           /\ Len(proxies') <= MaxProxies
           /\ \A i \in 1 .. Len(proxies') : Sound(proxies'[i])
<1>1. proxies \in Seq(Mapping) /\ NewProxy(a) \in Mapping
  BY NewProxyIs DEF TypeInv
<1>2. /\ proxies' \in Seq(Mapping) /\ Len(proxies') = Len(proxies) + 1
      /\ \A i \in 1 .. Len(proxies) : proxies'[i] = proxies[i]
      /\ proxies'[Len(proxies) + 1] = NewProxy(a)
  BY <1>1, AppendProperties
<1>3. Len(proxies) \in Nat /\ Len(proxies) < MaxProxies /\ MaxProxies \in Nat
  BY <1>1, LenProperties, SettingsAssumption DEF MappingInv
<1>4. ASSUME NEW i \in 1 .. Len(proxies')
      PROVE  Sound(proxies'[i])
  <2>1. CASE i \in 1 .. Len(proxies)
    BY <1>2, <2>1 DEF MappingInv
  <2>2. CASE i = Len(proxies) + 1
    BY <1>2, <2>2, NewProxyIs
  <2> QED BY <1>2, <1>3, <2>1, <2>2
<1> QED BY <1>2, <1>3, <1>4

\* What a statement of a mapping does to the record.
LEMMA StatementTypes ==
    ASSUME TypeInv, MappingInv,
           \/ \E e \in FrontEnds : FrontEnd(e)
           \/ \E e \in BackEnds : BackEnd(e)
           \/ \E t \in Times, n \in Numbers : TimeStatement(t, n)
           \/ \E w \in Words : ReporterStatement(w)
    PROVE  /\ at = "mapping" /\ at' \in {"mapping", "end"}
           /\ failed' \in BOOLEAN
           /\ local' \in Record /\ wrote' \in [Times -> Int]
           /\ lines' \in 0 .. MaxLines
           /\ UNCHANGED <<uris, proxies>>
           /\ at' = "mapping" => Given(local'.times, wrote')
<1> USE DEF Line, GoOn, GiveUp
<1>1. /\ failed \in BOOLEAN /\ local \in Record /\ wrote \in [Times -> Int]
      /\ lines \in 0 .. MaxLines /\ (at = "mapping" => Given(local.times, wrote))
  BY DEF TypeInv, MappingInv
<1>6. MaxLines \in Nat
  BY SettingsAssumption
<1>2. CASE \E e \in FrontEnds : FrontEnd(e)
  <2>1. PICK e \in FrontEnds : FrontEnd(e)
    BY <1>2
  <2>2. local' \in Record /\ local'.times = local.times
    BY <1>1, <2>1, EndType DEF FrontEnd, Record
  <2> QED BY <1>1, <1>6, <2>1, <2>2 DEF FrontEnd
<1>3. CASE \E e \in BackEnds : BackEnd(e)
  <2>1. PICK e \in BackEnds : BackEnd(e)
    BY <1>3
  <2>2. local' \in Record /\ local'.times = local.times
    BY <1>1, <2>1, EndType DEF BackEnd, Record
  <2> QED BY <1>1, <1>6, <2>1, <2>2 DEF BackEnd
<1>4. CASE \E t \in Times, n \in Numbers : TimeStatement(t, n)
  <2>1. PICK t \in Times, n \in Numbers : TimeStatement(t, n)
    BY <1>4
  <2> DEFINE ms == ToInt(IntegerValue(n) * MsPerSec)
  <2>2. ms \in Int
    <3>1. IntegerValue(n) \in Nat
      BY <2>1, ValueType DEF TimeStatement
    <3>2. IntegerValue(n) * MsPerSec \in Nat
      BY <3>1, SettingsAssumption
    <3> QED BY <3>2, ToIntType
  <2>3. /\ Line
        /\ local' = [local EXCEPT !.times[t] = ms] /\ wrote' = [wrote EXCEPT ![t] = ms]
        /\ IF ms > 0 THEN GoOn ELSE GiveUp
        /\ UNCHANGED <<uris, proxies>>
    BY <2>1 DEF TimeStatement
  <2> HIDE DEF ms
  <2>4. local' \in Record /\ local'.times = [local.times EXCEPT ![t] = ms]
    BY <1>1, <2>2, <2>3 DEF Record
  <2>5. local.times \in [Times -> Int] /\ wrote' \in [Times -> Int]
    BY <1>1, <2>2, <2>3 DEF Record
  <2>6. ms > 0 => Given(local'.times, wrote')
    BY <1>1, <2>2, <2>3, <2>4, <2>5 DEF Given
  <2>7. at = "mapping" /\ at' \in {"mapping", "end"} /\ (at' = "mapping" => ms > 0)
    BY <2>3
  <2>8. failed' \in BOOLEAN
    BY <1>1, <2>3
  <2>9. lines' \in 0 .. MaxLines
    BY <1>1, <2>3, SettingsAssumption
  <2> QED BY <2>3, <2>4, <2>5, <2>6, <2>7, <2>8, <2>9
<1>5. CASE \E w \in Words : ReporterStatement(w)
  <2>1. PICK w \in Words : ReporterStatement(w)
    BY <1>5
  <2>2. local' \in Record /\ local'.times = local.times
    BY <1>1, <2>1 DEF ReporterStatement, Record
  <2>3. at = "mapping" /\ at' \in {"mapping", "end"} /\ UNCHANGED <<uris, proxies, wrote>>
    BY <2>1 DEF ReporterStatement
  <2>4. failed' \in BOOLEAN
    BY <1>1, <2>1 DEF ReporterStatement
  <2>5. lines' \in 0 .. MaxLines
    BY <1>1, <2>1, SettingsAssumption DEF ReporterStatement
  <2> QED BY <1>1, <2>2, <2>3, <2>4, <2>5
<1> QED BY <1>2, <1>3, <1>4, <1>5

\* A step of the parser: it stays in the file or ends it, keeps what it has read, and adds
\* a proxy only as addProxy makes it.
LEMMA ParseKeeps ==
    ASSUME TypeInv, MappingInv, Parse
    PROVE  /\ at \in {"top", "mapping"} /\ at' \in ParserAt /\ failed' \in BOOLEAN
           /\ local' \in Record /\ wrote' \in [Times -> Int] /\ lines' \in 0 .. MaxLines
           /\ uris' \in Seq(Uris)
           /\ proxies' \in Seq(Mapping) /\ Len(proxies') <= MaxProxies
           /\ Len(proxies) <= Len(proxies')
           /\ MappingInv'
<1>0. /\ at \in ParserAt /\ failed \in BOOLEAN /\ local \in Record
      /\ wrote \in [Times -> Int] /\ lines \in 0 .. MaxLines
      /\ uris \in Seq(Uris) /\ proxies \in Seq(Mapping) /\ Len(proxies) <= MaxProxies
      /\ Len(proxies) \in Nat
  BY LenProperties DEF TypeInv
<1>a. ASSUME UNCHANGED proxies, at' # "mapping"
      PROVE  MappingInv'
  BY <1>a DEF MappingInv
<1>1. CASE \E u \in Uris : UriStatement(u)
  <2>1. PICK u \in Uris : UriStatement(u)
    BY <1>1
  <2>2. uris' \in Seq(Uris)
    BY <1>0, <2>1, AppendProperties DEF UriStatement
  <2>3. at = "top" /\ UNCHANGED <<at, failed, local, proxies, wrote, lines>>
    BY <2>1 DEF UriStatement, GoOn
  <2> QED BY <1>0, <1>a, <2>2, <2>3
<1>2. CASE OpenMapping
  <2>1. at = "top" /\ at' = "mapping" /\ UNCHANGED <<failed, uris, proxies, lines>>
        /\ Len(proxies) < MaxProxies
    BY <1>2 DEF OpenMapping
  <2>2. local' \in Record /\ local'.times = Default /\ wrote' = [t \in Times |-> 0]
    <3>1. Default \in [Times -> Int]
      BY SettingsAssumption
    <3>2. local' = [local EXCEPT !.times = Default] /\ wrote' = [t \in Times |-> 0]
      BY <1>2 DEF OpenMapping
    <3> QED BY <1>0, <3>1, <3>2 DEF Record
  <2>3. Given(local'.times, wrote')
    BY <2>2, SettingsAssumption DEF Given
  <2>4. MappingInv'
    BY <2>1, <2>3 DEF MappingInv
  <2>5. wrote' \in [Times -> Int]
    BY <2>2
  <2> QED BY <1>0, <2>1, <2>2, <2>4, <2>5 DEF ParserAt
<1>3. CASE CloseMapping
  <2>1. at = "mapping" /\ UNCHANGED <<local, uris, wrote, lines>>
    BY <1>3 DEF CloseMapping
  <2>2. at' \in {"top", "end", "exit"}
    BY <1>3 DEF CloseMapping, AddProxy, GiveUp, Exit
  <2>3. failed' \in BOOLEAN
    BY <1>0, <1>3 DEF CloseMapping, AddProxy, GiveUp, Exit
  <2>4. CASE UNCHANGED proxies
    BY <1>0, <1>a, <2>1, <2>2, <2>3, <2>4 DEF ParserAt
  <2>5. CASE ~UNCHANGED proxies
    <3>1. ~Missing(local.front) /\ ~Missing(local.back)
      BY <1>3, <2>5 DEF CloseMapping
    <3>4. PICK f \in Address[local.front[1]], a \in Address[local.back[1]] : AddProxy(f, a)
      BY <1>3, <3>1 DEF CloseMapping
    <3>5. local.back[1] \in Host
      BY <1>0, <3>1 DEF Record, End, Missing, Nowhere
    <3>6. a \in Addresses
      BY <3>4, <3>5 DEF Addresses
    <3>7. proxies' = Append(proxies, NewProxy(a))
      BY <2>5, <3>4 DEF AddProxy
    <3>2. /\ proxies' \in Seq(Mapping) /\ Len(proxies') = Len(proxies) + 1
          /\ Len(proxies') <= MaxProxies
          /\ \A i \in 1 .. Len(proxies') : Sound(proxies'[i])
      BY <2>1, <3>1, <3>6, <3>7, Grows
    <3>3. MappingInv'
      BY <2>2, <3>2 DEF MappingInv
    <3> QED BY <1>0, <2>1, <2>2, <2>3, <3>2, <3>3 DEF ParserAt
  <2> QED BY <2>4, <2>5
<1>4. CASE EndOfFile \/ BadEnd \/ SyntaxError
  <2>1. /\ at \in {"top", "mapping"} /\ at' \in {"end", "exit"}
        /\ UNCHANGED <<local, uris, proxies, wrote, lines>>
    BY <1>4 DEF EndOfFile, BadEnd, SyntaxError, GiveUp, Exit
  <2>2. failed' \in BOOLEAN
    BY <1>0, <1>4 DEF EndOfFile, BadEnd, SyntaxError, GiveUp, Exit
  <2> QED BY <1>0, <1>a, <2>1, <2>2 DEF ParserAt
<1>5. CASE \/ \E e \in FrontEnds : FrontEnd(e)
           \/ \E e \in BackEnds : BackEnd(e)
           \/ \E t \in Times, n \in Numbers : TimeStatement(t, n)
           \/ \E w \in Words : ReporterStatement(w)
  <2>1. /\ at = "mapping" /\ at' \in {"mapping", "end"}
        /\ failed' \in BOOLEAN
        /\ local' \in Record /\ wrote' \in [Times -> Int]
        /\ lines' \in 0 .. MaxLines
        /\ UNCHANGED <<uris, proxies>>
        /\ at' = "mapping" => Given(local'.times, wrote')
    BY <1>5, StatementTypes
  <2>2. MappingInv'
    BY <2>1 DEF MappingInv
  <2> QED BY <1>0, <2>1, <2>2 DEF ParserAt
<1> QED BY <1>1, <1>2, <1>3, <1>4, <1>5 DEF Parse

-----------------------------------------------------------------------------
(* The threads *)

LEMMA StepTypes ==
    ASSUME StartupInv, [Next]_vars
    PROVE  TypeInv' /\ MappingInv'
<1> USE DEF StartupInv, Exit
<1>1. CASE ReadConfig
  <2>1. Parse /\ UNCHANGED <<started, fpc, saddr, hostent, heard>>
    BY <1>1 DEF ReadConfig, threads
  <2>2. MappingInv' /\ Len(proxies) <= Len(proxies')
    BY <2>1, ParseKeeps
  <2>3. \A p \in Proxy : fpc'[p] # "none" => p <= Len(proxies')
    <3>1. Len(proxies) \in Nat /\ Len(proxies') \in Nat
      BY <2>1, ParseKeeps, LenProperties DEF TypeInv
    <3>2. \A p \in Proxy : fpc[p] # "none" => p <= Len(proxies)
      BY DEF TypeInv
    <3>3. \A p \in Proxy : p \in Int
      BY SettingsAssumption DEF Proxy
    <3>4. fpc' = fpc /\ Len(proxies) <= Len(proxies')
      BY <2>1, <2>2
    <3> HIDE DEF StartupInv
    <3> QED BY <3>1, <3>2, <3>3, <3>4
  <2>4. TypeInv'
    BY <2>1, <2>3, ParseKeeps DEF TypeInv
  <2> QED BY <2>2, <2>4
<1>2. CASE Hup
  <2>1. UNCHANGED <<failed, local, uris, proxies, wrote, lines, started, fpc, saddr, hostent, heard>>
        /\ at' = "exit"
    BY <1>2 DEF Hup, threads
  <2> QED BY <2>1 DEF TypeInv, MappingInv, ParserAt
<1>3. ASSUME NEW p \in Proxy, StartProxy(p)
      PROVE  TypeInv' /\ MappingInv'
  <2>1. /\ UNCHANGED <<at, failed, local, uris, proxies, wrote, lines, saddr, hostent, heard>>
        /\ started' = p /\ p <= Len(proxies)
    BY <1>3 DEF StartProxy, config
  <2>2. fpc' = fpc \/ fpc' = [fpc EXCEPT ![p] = "socket"]
    BY <1>3 DEF StartProxy
  <2>3. /\ fpc' \in [Proxy -> FrontPc]
        /\ \A q \in Proxy : fpc'[q] # "none" => q <= Len(proxies)
    BY <2>1, <2>2 DEF TypeInv, FrontPc
  <2>4. started' \in 0 .. MaxProxies
    BY <2>1, SettingsAssumption DEF Proxy
  <2>5. TypeInv'
    BY <2>1, <2>3, <2>4 DEF TypeInv
  <2> QED BY <2>1, <2>5 DEF MappingInv
<1>4. ASSUME NEW p \in Proxy, FrontThread(p)
      PROVE  TypeInv' /\ MappingInv'
  <2>1. /\ UNCHANGED <<failed, local, uris, proxies, wrote, lines, started>>
        /\ at = "end" /\ at' \in {"end", "exit"} /\ fpc[p] # "none"
        /\ fpc' \in [Proxy -> FrontPc]
        /\ \A q \in Proxy : fpc'[q] # "none" => fpc[q] # "none"
    BY <1>4 DEF FrontThread, Socket, Lookup, CopyAddress, Bind, Listen, FrontAt, FrontExit,
                config, threads, TypeInv, FrontPc
  <2>2. p \in 1 .. Len(proxies) /\ FrontHost(p) \in Host
    <3>1. p <= Len(proxies) /\ proxies \in Seq(Mapping) /\ p \in Nat /\ p >= 1
      BY <2>1, SettingsAssumption DEF TypeInv, Proxy
    <3>2. p \in 1 .. Len(proxies)
      BY <3>1, LenProperties
    <3>3. proxies[p] \in Mapping
      BY <3>1, <3>2, ElementOfSeq
    <3> QED BY <3>2, <3>3 DEF FrontHost, Mapping, End
  <2>7. Address[FrontHost(p)] \subseteq Addresses
    BY <2>2 DEF Addresses
  <2>3. hostent' = hostent \/ hostent' \in Address[FrontHost(p)]
    BY <1>4 DEF FrontThread, Socket, Lookup, Answer, CopyAddress, Bind, Listen, FrontExit, threads
  <2>4. \/ saddr' = saddr
        \/ \E a \in Address[FrontHost(p)] \cup {hostent} : saddr' = [saddr EXCEPT ![p] = a]
    BY <1>4 DEF FrontThread, Socket, Lookup, Answer, CopyAddress, Bind, Listen, FrontExit, threads
  <2>8. heard' = heard \/ heard' = [heard EXCEPT ![p] = {p}] \/ \E a : Answer(p, a)
    BY <1>4 DEF FrontThread, Socket, Lookup, CopyAddress, Bind, Listen, FrontExit, threads
  <2>9. heard' \in [Proxy -> SUBSET Proxy]
    BY <2>8 DEF Answer, TypeInv
  <2>5. hostent' \in Addresses /\ saddr' \in [Proxy -> Addresses]
    BY <2>3, <2>4, <2>7 DEF TypeInv
  <2>6. TypeInv'
    BY <2>1, <2>5, <2>9 DEF TypeInv, ParserAt
  <2> QED BY <2>1, <2>6 DEF MappingInv
<1>5. CASE UNCHANGED vars
  BY <1>5 DEF vars, config, threads, TypeInv, MappingInv
<1> QED BY <1>1, <1>2, <1>3, <1>4, <1>5 DEF Next

\* A thread that goes on leaves to the others what they have, and what they have heard.
LEMMA OthersKeep ==
    ASSUME StartupInv, NEW p \in Proxy, at' = "end",
           UNCHANGED <<proxies, hostent, heard>>,
           \A q \in Proxy \ {p} : fpc'[q] = fpc[q] /\ saddr'[q] = saddr[q],
           fpc'[p] = "copy" => Heard(p, hostent),
           fpc'[p] \in Bound => Heard(p, saddr'[p])
    PROVE  ThreadInv'
<1>1. \A q \in Proxy : fpc'[q] = "copy" => Heard(q, hostent)
  BY DEF StartupInv, ThreadInv
<1>2. \A q \in Proxy : fpc'[q] \in Bound => Heard(q, saddr'[q])
  BY DEF StartupInv, ThreadInv
<1> QED BY <1>1, <1>2 DEF ThreadInv, Heard, FrontHost

LEMMA LookupKeeps ==
    ASSUME StartupInv, NEW p \in Proxy, Lookup(p)
    PROVE  ThreadInv'
<1> USE DEF StartupInv
<1>0. fpc \in [Proxy -> FrontPc] /\ saddr \in [Proxy -> Addresses] /\ heard \in [Proxy -> SUBSET Proxy]
  BY DEF TypeInv
<1>1. PICK a \in Address[FrontHost(p)] :
         \/ /\ FrontAt(p, "lookup", "bind")
            /\ FrontHost(p) \in DotQuad
            /\ saddr' = [saddr EXCEPT ![p] = a]
            /\ heard' = [heard EXCEPT ![p] = {p}]
            /\ UNCHANGED <<config, started, hostent>>
         \/ /\ FrontAt(p, "lookup", "copy")
            /\ FrontHost(p) \notin DotQuad /\ a # "none"
            /\ Answer(p, a)
            /\ UNCHANGED <<config, started, saddr>>
         \/ a = "none" /\ FrontExit(p, "lookup")
  BY DEF Lookup
<1>2. CASE FrontExit(p, "lookup")
  BY <1>2 DEF FrontExit, Exit, threads, ThreadInv, Heard, FrontHost, Bound
<1>3. CASE /\ FrontAt(p, "lookup", "bind")
           /\ FrontHost(p) \in DotQuad
           /\ saddr' = [saddr EXCEPT ![p] = a]
           /\ heard' = [heard EXCEPT ![p] = {p}]
           /\ UNCHANGED <<config, started, hostent>>
  <2>1. at' = "end" /\ UNCHANGED <<proxies, hostent>>
    BY <1>3 DEF FrontAt, config
  <2>2. /\ \A q \in Proxy \ {p} :
              fpc'[q] = fpc[q] /\ saddr'[q] = saddr[q] /\ heard'[q] = heard[q]
        /\ fpc'[p] = "bind" /\ saddr'[p] = a /\ heard'[p] = {p}
    BY <1>0, <1>3 DEF FrontAt
  <2>3. a # "none"
    BY <1>1, <1>3, StartupAssumption
  <2>4. Heard(p, saddr[p])'
    BY <1>1, <2>1, <2>2, <2>3 DEF Heard, FrontHost
  <2> QED BY <2>1, <2>2, <2>4 DEF ThreadInv, Heard, FrontHost
<1>4. CASE /\ FrontAt(p, "lookup", "copy")
           /\ FrontHost(p) \notin DotQuad /\ a # "none"
           /\ Answer(p, a)
           /\ UNCHANGED <<config, started, saddr>>
  <2>1. at' = "end" /\ UNCHANGED <<proxies, saddr>> /\ hostent' = a
    BY <1>4 DEF FrontAt, config, Answer
  <2>2. \A q \in Proxy \ {p} : fpc'[q] = fpc[q]
    BY <1>0, <1>4 DEF FrontAt
  <2>3. fpc'[p] = "copy"
    BY <1>0, <1>4 DEF FrontAt
  <2>4. \A q \in Proxy : fpc'[q] = "copy" => p \in heard'[q]
    BY <2>2, <1>4 DEF Answer
  <2>5. \A q \in Proxy : fpc'[q] = "copy" => Heard(q, hostent)'
    BY <1>1, <1>4, <2>1, <2>4 DEF Heard, FrontHost
  <2>6. \A q \in Proxy : fpc'[q] \in Bound => fpc[q] = fpc'[q] /\ heard'[q] = heard[q]
    BY <2>2, <2>3, <1>4 DEF Answer, Bound
  <2>7. \A q \in Proxy : fpc'[q] \in Bound => Heard(q, saddr[q])'
    BY <2>1, <2>6 DEF Heard, FrontHost, ThreadInv
  <2> QED BY <2>1, <2>5, <2>7 DEF ThreadInv
<1> QED BY <1>1, <1>2, <1>3, <1>4

LEMMA StepThreads ==
    ASSUME StartupInv, [Next]_vars
    PROVE  ThreadInv'
<1> USE DEF StartupInv, Exit
<1>0. fpc \in [Proxy -> FrontPc] /\ saddr \in [Proxy -> Addresses]
  BY DEF TypeInv
<1>a. ASSUME UNCHANGED <<proxies, fpc, saddr, hostent, heard>>, at' \notin {"top", "mapping"}
      PROVE  ThreadInv'
  BY <1>a DEF ThreadInv, Heard, FrontHost
<1>1. CASE ReadConfig
  <2>1. Parse /\ UNCHANGED <<started, fpc, saddr, hostent, heard>>
    BY <1>1 DEF ReadConfig, threads
  <2>2. at \in {"top", "mapping"}
    BY <2>1, ParseKeeps
  <2>3. \A p \in Proxy : fpc'[p] = "none"
    BY <2>1, <2>2 DEF ThreadInv
  <2> QED BY <2>3 DEF ThreadInv, Bound
<1>2. CASE Hup
  BY <1>2, <1>a DEF Hup, threads
<1>3. ASSUME NEW p \in Proxy, StartProxy(p)
      PROVE  ThreadInv'
  <2>1. UNCHANGED <<at, proxies, saddr, hostent, heard>> /\ at = "end"
    BY <1>3 DEF StartProxy, config
  <2>2. fpc' = fpc \/ fpc' = [fpc EXCEPT ![p] = "socket"]
    BY <1>3 DEF StartProxy
  <2>3. \A q \in Proxy \ {p} : fpc'[q] = fpc[q] /\ saddr'[q] = saddr[q]
    BY <1>0, <2>1, <2>2
  <2>4. fpc'[p] = fpc[p] \/ fpc'[p] = "socket"
    BY <1>0, <2>2
  <2> QED BY <2>1, <2>3, <2>4, OthersKeep DEF ThreadInv, Bound
<1>4. ASSUME NEW p \in Proxy, Socket(p) \/ Bind(p) \/ Listen(p)
      PROVE  ThreadInv'
  <2>1. CASE \E from \in FrontPc : FrontExit(p, from)
    BY <2>1, <1>a DEF FrontExit, threads
  <2>2. CASE ~\E from \in FrontPc : FrontExit(p, from)
    <3>1. at' = "end" /\ UNCHANGED <<proxies, saddr, hostent, heard>>
      BY <1>4, <2>2 DEF Socket, Bind, Listen, FrontAt, FrontPc, config
    <3>2. /\ \A q \in Proxy \ {p} : fpc'[q] = fpc[q]
          /\ fpc'[p] \in Bound => fpc[p] \in Bound
          /\ fpc'[p] # "copy"
      BY <1>0, <1>4, <2>2 DEF Socket, Bind, Listen, FrontAt, FrontPc, Bound
    <3> QED BY <3>1, <3>2, OthersKeep DEF ThreadInv
  <2> QED BY <2>1, <2>2
<1>5. ASSUME NEW p \in Proxy, Lookup(p)
      PROVE  ThreadInv'
  BY <1>5, LookupKeeps
<1>6. ASSUME NEW p \in Proxy, CopyAddress(p)
      PROVE  ThreadInv'
  <2>1. at' = "end" /\ UNCHANGED <<proxies, hostent, heard>>
    BY <1>6 DEF CopyAddress, FrontAt, config
  <2>2. /\ \A q \in Proxy \ {p} : fpc'[q] = fpc[q] /\ saddr'[q] = saddr[q]
        /\ fpc[p] = "copy" /\ fpc'[p] = "bind" /\ saddr'[p] = hostent
    BY <1>0, <1>6 DEF CopyAddress, FrontAt
  <2>3. Heard(p, saddr'[p])
    BY <2>2 DEF ThreadInv
  <2> QED BY <2>1, <2>2, <2>3, OthersKeep
<1>9. CASE UNCHANGED vars
  BY <1>9 DEF vars, config, threads, ThreadInv, Heard, FrontHost
<1> QED BY <1>1, <1>2, <1>3, <1>4, <1>5, <1>6, <1>9 DEF Next, FrontThread

LEMMA StartupInvHolds == Spec => []StartupInv
<1>1. StartupInv /\ [Next]_vars => StartupInv'
  BY StepTypes, StepThreads DEF StartupInv
<1> QED BY InitStartup, <1>1, PTL DEF Spec

-----------------------------------------------------------------------------
(* Theorems *)

\* Every variable has its type: what is kept of a time is an int and of a port 16 bits,
\* and a thread of runFrontend exists only for a proxy that was read.
THEOREM StartupTypeCorrect == Spec => []StartupTypeOK
<1>1. ASSUME StartupInv PROVE StartupTypeOK
  <2>1. Record \subseteq Local
    <3>1. End \cup {Nowhere} \subseteq (Host \cup {"none"}) \X (0 .. PortSpan - 1)
      BY SettingsAssumption DEF End, Nowhere
    <3> QED BY <3>1 DEF Record, Local
  <2> QED BY <1>1, <2>1 DEF StartupInv, TypeInv, StartupTypeOK
<1> QED BY StartupInvHolds, <1>1, PTL

\* Whatever yyparse makes of the file, where it gives up included, the proxies that main
\* starts have times above zero and ports.
THEOREM ProxiesUsable == Spec => []Usable
<1>1. StartupInv => Usable
  BY DEF StartupInv, MappingInv, Sound, Given, Usable
<1> QED BY StartupInvHolds, <1>1, PTL

\* The times of a proxy are its own mapping's or the defaults, although all mappings are
\* read into one record.
THEOREM TimesAreOwn == Spec => []OwnTimes
<1>1. StartupInv => OwnTimes
  BY DEF StartupInv, MappingInv, Sound, Given, OwnTimes
<1> QED BY StartupInvHolds, <1>1, PTL

\* However the threads of the front ends interleave at gethostbyname, each binds to an
\* answer to a lookup that was going on with its own, or to its own.
THEOREM BindsAsLookedUp == Spec => []BoundAsLookedUp
<1>1. StartupInv => BoundAsLookedUp
  BY DEF StartupInv, ThreadInv, Heard, Bound, BoundAsLookedUp
<1> QED BY StartupInvHolds, <1>1, PTL
=============================================================================
