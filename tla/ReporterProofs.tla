--------------------------- MODULE ReporterProofs ---------------------------
(***************************************************************************)
(* Proofs about Reporter: what the threads get out of the buffers they     *)
(* share, and what their pages say, for every number of threads, back      *)
(* ends, instances and keys.                                               *)
(*                                                                         *)
(* A link may hold any key, so in most of it nothing is known of the       *)
(* address and the port that are read from it, and lists are sequences of  *)
(* whatever they hold; the last two sections are about what a link says.   *)
(***************************************************************************)
EXTENDS Reporter, CodecProofs, FiniteSetTheorems, SequenceTheorems, TLAPS

IsList(s) == s \in Seq(Range(s))

\* what of an entry or a row the reporter knows
Pair(e) == [addr |-> e.addr, port |-> e.port]

-----------------------------------------------------------------------------
(* The inductive invariants *)

\* Every local is there for every thread, and the lists are lists.
Domains ==
    /\ DOMAIN pc = Thread /\ DOMAIN own = Thread /\ DOMAIN req = Thread
    /\ DOMAIN dest = Thread /\ DOMAIN todo = Thread /\ DOMAIN rows = Thread
    /\ DOMAIN stage = Thread /\ DOMAIN answer = Thread /\ DOMAIN shown = Thread
    /\ DOMAIN did = Thread /\ DOMAIN crossed = Thread

Shape ==
    /\ Domains
    /\ \A t \in Thread : /\ IsList(todo[t]) /\ IsList(rows[t])
                         /\ pc[t] \in {"trim", "dup"} => todo[t] # <<>>
    /\ IsFiniteSet(reporting) /\ \A x \in reporting : x = Pair(x)

\* A thread nobody crossed finds in mcr what it put there, and keeps its copy.
GetAddrInv(t) ==
    ~crossed[t] =>
        /\ pc[t] = "test"   => mcr = {}
        /\ pc[t] = "family" => mcr = {"addr"}
        /\ pc[t] = "port"   => mcr = {"addr", "family"}
        /\ pc[t] = "copy"   => mcr = Fields
        /\ pc[t] \in {"list", "trim", "dup", "connect", "exchange"} => dest[t] = Fields

HostOf(a) == IF Name[a] = "none" THEN a ELSE Name[a]

\* A thread nobody crossed finds in the buffers the name it is looking for.
NameInv(t) ==
    /\ pc[t] \in {"idle", "answered"} => rows[t] = <<>>
    /\ ~crossed[t] =>
          /\ pc[t] = "trim" => hostent = HostOf(Head(todo[t]).addr)
          /\ pc[t] = "dup"  => hostname = HostOf(Head(todo[t]).addr)
          /\ \A i \in 1 .. Len(rows[t]) : rows[t][i].host = HostOf(rows[t][i].addr)

\* The reporter's list goes into the rows that are on, whole and alone.
ReplyInv(t) ==
    /\ \A i \in 1 .. Len(rows[t]) : rows[t][i].on => Pair(rows[t][i]) \in shown[t].list
    /\ stage[t] = "reply" =>
          /\ \A i \in 1 .. Len(rows[t]) : rows[t][i].on
          /\ \A j \in 1 .. Len(todo[t]) : Pair(todo[t][j]) \in shown[t].list
    /\ shown[t].what = "all" =>
          \A x \in shown[t].list :
              \/ \E i \in 1 .. Len(rows[t]) : rows[t][i].on /\ Pair(rows[t][i]) = x
              \/ stage[t] = "reply" /\ \E j \in 1 .. Len(todo[t]) : Pair(todo[t][j]) = x

\* Then each address of a back end that is in no row gets one that is off.
ProxiesInv(t) ==
    stage[t] = "proxies" =>
        /\ \A p \in 1 .. Len(Proxies) :
              \/ \E i \in 1 .. Len(rows[t]) : rows[t][i].addr = Proxies[p].addr
              \/ \E j \in 1 .. Len(todo[t]) : todo[t][j].addr = Proxies[p].addr
        /\ \A i, j \in 1 .. Len(rows[t]) :
              ~rows[t][i].on /\ rows[t][i].addr = rows[t][j].addr => i = j
        /\ pc[t] \in {"trim", "dup"} => ~Listed(t)

\* What PageTrue says of one thread.
PageTrueAt(t) ==
    answer[t].what = "report" /\ req[t].page = "mcr-config" =>
        LET on  == {Pair(r[2]) : r \in OnOf(t)}
            off == answer[t].rows \ OnOf(t)
            all == {i \in shown[t].list : i.addr = own[t]}
        IN /\ on \subseteq all
           /\ shown[t].what = "all" => on = all
           /\ Cardinality(off) = IF on = {} THEN 1 ELSE 0

PageInv(t) ==
    /\ PageTrueAt(t)
    /\ own[t] \in {Proxies[p].addr : p \in 1 .. Len(Proxies)}
    /\ pc[t] # "answered" => answer[t] = None
    /\ pc[t] \notin {"list", "trim", "dup"} => stage[t] = "title"
    /\ req[t].page = "mcr-config" /\ pc[t] \in {"list", "trim", "dup"} =>
          /\ stage[t] # "title"
          /\ ReplyInv(t) /\ ProxiesInv(t)

-----------------------------------------------------------------------------
(* Lemmas on lists *)

LEMMA ListEmpty == IsList(<<>>) /\ Len(<<>>) = 0
BY EmptySeq DEF IsList

LEMMA TypedIsList ==
    ASSUME NEW S, NEW s \in Seq(S)
    PROVE  IsList(s)
BY LenProperties, ElementOfSeq DEF IsList, Range

LEMMA ListAppend ==
    ASSUME NEW s, IsList(s), NEW x
    PROVE  /\ IsList(Append(s, x)) /\ Len(s) \in Nat /\ Len(Append(s, x)) = Len(s) + 1
           /\ \A i \in 1 .. Len(s) : Append(s, x)[i] = s[i]
           /\ Append(s, x)[Len(s) + 1] = x
<1> DEFINE S == Range(s) \cup {x}
<1>1. s \in Seq(S) /\ x \in S
  BY SeqMonotonic DEF IsList
<1>2. /\ Append(s, x) \in Seq(S) /\ Len(s) \in Nat /\ Len(Append(s, x)) = Len(s) + 1
      /\ DOMAIN Append(s, x) = 1 .. Len(s) + 1 /\ DOMAIN s = 1 .. Len(s)
      /\ \A i \in 1 .. Len(s) : Append(s, x)[i] = s[i]
      /\ Append(s, x)[Len(s) + 1] = x
  BY <1>1, AppendProperties, LenProperties
<1>3. IsList(Append(s, x))
  BY <1>2, SeqDef DEF IsList, Range
<1> QED BY <1>2, <1>3

LEMMA ListTail ==
    ASSUME NEW s, IsList(s), s # <<>>
    PROVE  /\ IsList(Tail(s)) /\ Len(s) \in Nat \ {0} /\ Len(Tail(s)) = Len(s) - 1
           /\ \A i \in 1 .. Len(s) - 1 : Tail(s)[i] = s[i + 1]
           /\ Head(s) = s[1]
<1>1. s \in Seq(Range(s))
  BY DEF IsList
<1>2. /\ Tail(s) \in Seq(Range(s)) /\ Len(s) \in Nat \ {0} /\ Len(Tail(s)) = Len(s) - 1
      /\ \A i \in 1 .. Len(Tail(s)) : Tail(s)[i] = s[i + 1]
      /\ Head(s) = s[1]
  BY <1>1, HeadTailProperties, EmptySeq, LenProperties
<1>3. IsList(Tail(s))
  BY <1>2, TypedIsList
<1> QED BY <1>2, <1>3

-----------------------------------------------------------------------------
(* What a step leaves alone *)

\* A click on a link to any of the pages.
Asking(t) ==
    /\ MayAsk(t)
    /\ \E want, link : \E p \in 1 .. Len(Proxies) : Ask(t, want, link, Proxies[p])

Step(t) == Asking(t) \/ Client(t)

LEMMA FirstProxy == 1 \in 1 .. Len(Proxies) /\ \A p \in 1 .. Len(Proxies) : Proxies[p] \in Endpoint
BY ReporterAssumption, EmptySeq, ElementOfSeq

LEMMA NextSteps ==
    ASSUME Next
    PROVE  \E t \in Thread : Step(t)
<1> PICK t \in Thread : AskConfig(t) \/ AskAbout(t) \/ AskClients(t) \/ Client(t)
  BY DEF Next
<1>1. AskConfig(t) \/ AskAbout(t) \/ AskClients(t) => Asking(t)
  BY FirstProxy DEF AskConfig, AskAbout, AskClients, Asking
<1> QED BY <1>1 DEF Step

\* The locals of u are as they were, and what crossed it did.
SameAt(u) ==
    /\ pc'[u] = pc[u] /\ own'[u] = own[u] /\ req'[u] = req[u] /\ dest'[u] = dest[u]
    /\ todo'[u] = todo[u] /\ rows'[u] = rows[u] /\ stage'[u] = stage[u]
    /\ answer'[u] = answer[u] /\ shown'[u] = shown[u] /\ did'[u] = did[u]
    /\ crossed[u] => crossed'[u]

LEMMA OthersSame ==
    ASSUME Domains, NEW t \in Thread, Step(t)
    PROVE  Domains' /\ \A u \in Thread \ {t} : SameAt(u)
<1> USE DEF Domains, SameAt, Goto, static, request, page, locals, history
<1>1. CASE Asking(t)
  BY <1>1 DEF Asking, Ask
<1>2. CASE ReporterCallback(t)
  BY <1>2 DEF ReporterCallback, Answer
<1>3. CASE ClearMcr(t) \/ TestMcr(t) \/ FamilyOfMcr(t) \/ PortOfMcr(t)
  BY <1>3 DEF ClearMcr, TestMcr, FamilyOfMcr, PortOfMcr, SetMcr, Crosses
<1>4. CASE CopyMcr(t)
  BY <1>4 DEF CopyMcr
<1>5. CASE LookUp(t)
  BY <1>5 DEF LookUp, Named, Crosses
<1>6. CASE TrimName(t)
  BY <1>6 DEF TrimName, Crosses
<1>7. CASE DupName(t)
  BY <1>7 DEF DupName, Named
<1>8. CASE PassOver(t)
  BY <1>8 DEF PassOver
<1>9. CASE Connect(t)
  BY <1>9 DEF Connect, Answer
<1>10. CASE ShowInstances(t)
  BY <1>10 DEF ShowInstances, Sent
<1>11. CASE ShowTop(t)
  BY <1>11 DEF ShowTop, Sent, Answer
<1>12. CASE InstanceOp(t)
  BY <1>12 DEF InstanceOp, Operate, Refuse, Answer
<1>13. CASE AfterTitle(t) \/ AfterReply(t) \/ PrintPage(t)
  BY <1>13 DEF AfterTitle, AfterReply, PrintPage, Answer
<1> QED BY <1>1, <1>2, <1>3, <1>4, <1>5, <1>6, <1>7, <1>8, <1>9, <1>10, <1>11, <1>12, <1>13
        DEF Step, Client, GetAddr, Addr2Host, Query

-----------------------------------------------------------------------------
(* Lists are lists *)

LEMMA ListOne == ASSUME NEW x PROVE IsList(<<x>>) /\ Len(<<x>>) = 1 /\ <<x>>[1] = x
<1>1. <<x>> \in Seq({x})
  OBVIOUS
<1> QED BY <1>1, TypedIsList

\* SetToSeq enumerates a finite set.
LEMMA Enumerated ==
    ASSUME NEW S, IsFiniteSet(S)
    PROVE  /\ SetToSeq(S) \in Seq(S) /\ Len(SetToSeq(S)) \in Nat
           /\ \A i \in 1 .. Len(SetToSeq(S)) : SetToSeq(S)[i] \in S
           /\ \A x \in S : \E i \in 1 .. Len(SetToSeq(S)) : SetToSeq(S)[i] = x
<1> DEFINE n == Cardinality(S)  f == SetToSeq(S)
<1>1. n \in Nat /\ \E g \in [1 .. n -> S] : IsInjective(g)
  BY FS_CardinalityType DEF ExistsBijection, Bijection, Injection
<1>2. f \in [1 .. n -> S] /\ IsInjective(f)
  BY <1>1 DEF SetToSeq
<1>3. f \in Seq(S) /\ Len(f) = n
  BY <1>1, <1>2, SeqDef, LenProperties
<1>4. f \in Surjection(1 .. n, S)
  <2>1. f \in Injection(1 .. n, S)
    BY <1>2 DEF Injection
  <2>2. Cardinality(1 .. n) = n
    BY <1>1, FS_Interval
  <2> QED BY <2>1, <2>2, FS_Injection
<1>5. \A x \in S : \E i \in 1 .. n : f[i] = x
  BY <1>4 DEF Surjection
<1> HIDE DEF f, n
<1> QED BY <1>1, <1>2, <1>3, <1>5 DEF f

LEMMA InitShape == Init => Shape
<1>1. \A S \in SUBSET Instances : IsFiniteSet(S) /\ \A x \in S : x = Pair(x)
  <2>1. \A x \in Endpoint : x = Pair(x)
    BY DEF Endpoint, Pair
  <2> QED BY <2>1, FS_Subset, ReporterAssumption
<1> QED BY <1>1, ListEmpty DEF Init, Shape, Domains

\* What mcr_updateInstances reads of the reporter's list, and what follows.
LEMMA Cut ==
    ASSUME NEW S, IsFiniteSet(S), NEW n \in 0 .. Len(SetToSeq(S)) - 1
    PROVE  /\ IsList(SubSeq(SetToSeq(S), 1, n))
           /\ \A i \in 1 .. Len(SubSeq(SetToSeq(S), 1, n)) : SubSeq(SetToSeq(S), 1, n)[i] \in S
<1>1. SubSeq(SetToSeq(S), 1, n) \in Seq(S)
  BY Enumerated, SubSeqProperties
<1> QED BY <1>1, TypedIsList, ElementOfSeq

LEMMA ReportingStep ==
    ASSUME Shape, NEW t \in Thread, Step(t)
    PROVE  IsFiniteSet(reporting') /\ \A x \in reporting' : x = Pair(x)
<1>1. CASE reporting' = reporting
  BY <1>1 DEF Shape
<1>2. CASE Operate(t)
  <2>1. Target(t) = Pair(Target(t))
    BY DEF Target, Pair
  <2> QED BY <1>2, <2>1, FS_AddElement, FS_RemoveElement DEF Operate, Shape
<1>3. reporting' = reporting \/ Operate(t)
  BY DEF Step, Asking, Ask, Client, ReporterCallback, GetAddr, ClearMcr, TestMcr, FamilyOfMcr,
         PortOfMcr, SetMcr, CopyMcr, Addr2Host, LookUp, TrimName, DupName, PassOver, Query, Connect,
         ShowInstances, ShowTop, Sent, InstanceOp, Refuse, AfterTitle, AfterReply, PrintPage
<1> QED BY <1>1, <1>2, <1>3

\* The lists of the thread that takes the step.
LEMMA ListStep ==
    ASSUME Shape, NEW t \in Thread, Step(t)
    PROVE  /\ IsList(todo'[t]) /\ IsList(rows'[t])
           /\ pc'[t] \in {"trim", "dup"} => todo'[t] # <<>>
<1> DEFINE Goal == /\ IsList(todo'[t]) /\ IsList(rows'[t])
                   /\ pc'[t] \in {"trim", "dup"} => todo'[t] # <<>>
<1> SUFFICES Goal
  OBVIOUS
<1> USE DEF Domains, Goto, static, request, page, locals, history
<1>0. Domains /\ IsList(todo[t]) /\ IsList(rows[t]) /\ (pc[t] \in {"trim", "dup"} => todo[t] # <<>>)
  BY DEF Shape
<1>1. ASSUME NEW a, Answer(t, a) PROVE Goal
  BY <1>0, <1>1, ListEmpty DEF Answer
<1>2. ASSUME UNCHANGED <<todo, rows>>, pc'[t] \in {"trim", "dup"} => todo[t] # <<>>
      PROVE Goal
  BY <1>0, <1>2
<1>3. CASE Asking(t) \/ ReporterCallback(t)
  <2>1. CASE Asking(t)
    BY <1>0, <1>2, <2>1 DEF Asking, Ask
  <2>2. CASE ReporterCallback(t)
    BY <1>0, <1>1, <1>2, <2>2 DEF ReporterCallback
  <2> QED BY <1>3, <2>1, <2>2
<1>4. CASE ClearMcr(t) \/ TestMcr(t) \/ FamilyOfMcr(t) \/ PortOfMcr(t)
  BY <1>0, <1>2, <1>4 DEF ClearMcr, TestMcr, FamilyOfMcr, PortOfMcr, SetMcr
<1>5. CASE CopyMcr(t)
  <2>1. rows' = rows /\ pc'[t] \notin {"trim", "dup"}
    BY <1>0, <1>5 DEF CopyMcr
  <2>2. todo' = todo \/ todo'[t] = <<[addr |-> req[t].addr[1], port |-> req[t].port]>>
    BY <1>0, <1>5 DEF CopyMcr
  <2> QED BY <1>0, <2>1, <2>2, ListOne
<1>6. ASSUME NEW name, Named(t, name), todo[t] # <<>> PROVE Goal
  <2>1. todo'[t] = Tail(todo[t]) /\ pc'[t] = "list"
    BY <1>0, <1>6 DEF Named
  <2>2. \E r : rows'[t] = Append(rows[t], r)
    BY <1>0, <1>6 DEF Named
  <2> QED BY <1>0, <1>6, <2>1, <2>2, ListAppend, ListTail
<1>7. CASE LookUp(t)
  <2>1. todo[t] # <<>>
    BY <1>7 DEF LookUp, AtList
  <2>2. Named(t, Entry(t).addr) \/ (Goto(t, "trim") /\ UNCHANGED <<todo, rows>>)
    BY <1>7 DEF LookUp
  <2> QED BY <1>2, <1>6, <2>1, <2>2
<1>8. CASE TrimName(t)
  BY <1>0, <1>2, <1>8 DEF TrimName
<1>9. CASE DupName(t)
  BY <1>0, <1>6, <1>9 DEF DupName
<1>10. CASE PassOver(t)
  BY <1>0, <1>10, ListTail DEF PassOver, AtList
<1>11. CASE Connect(t)
  BY <1>0, <1>1, <1>2, <1>11 DEF Connect
<1>12. ASSUME NEW what, NEW list, NEW read, IsList(read), Sent(t, what, list, read) PROVE Goal
  BY <1>0, <1>12, ListEmpty DEF Sent
<1>13. CASE ShowInstances(t)
  <2>1. IsFiniteSet(reporting)
    BY DEF Shape
  <2>2. \A n \in 0 .. Len(SetToSeq(reporting)) - 1 : IsList(SubSeq(SetToSeq(reporting), 1, n))
    BY <2>1, Cut
  <2>3. IsList(SetToSeq(reporting))
    BY <2>1, Enumerated, TypedIsList
  <2>4. \E what, list, read : IsList(read) /\ Sent(t, what, list, read)
    BY <1>13, <2>2, <2>3, ListEmpty DEF ShowInstances
  <2> QED BY <1>12, <2>4
<1>14. CASE ShowTop(t)
  <2> DEFINE c == SetToSeq(Clients)
             names == [i \in 1 .. Len(c) |-> [addr |-> c[i], port |-> <<"1">>]]
             all == IF req[t].page = "top-keys-all" THEN <<>> ELSE names
  <2>1. Len(c) \in Nat
    BY Enumerated, ReporterAssumption
  <2>2. names \in Seq({names[i] : i \in 1 .. Len(c)})
    <3>1. names \in [1 .. Len(c) -> {names[i] : i \in 1 .. Len(c)}]
      OBVIOUS
    <3> HIDE DEF names, c
    <3> QED BY <2>1, <3>1, SeqDef
  <2>3. IsList(names)
    <3> HIDE DEF names
    <3> QED BY <2>2, TypedIsList
  <2>4. IsList(all)
    <3> HIDE DEF names
    <3> QED BY <2>3, ListEmpty
  <2>5. \A n \in 0 .. Len(all) - 1 : IsList(SubSeq(all, 1, n))
    <3> HIDE DEF all
    <3>1. all \in Seq(Range(all)) /\ Len(all) \in Nat
      BY <2>4, LenProperties DEF IsList
    <3>2. \A n \in 0 .. Len(all) - 1 : SubSeq(all, 1, n) \in Seq(Range(all))
      BY <3>1, SubSeqProperties
    <3> QED BY <3>2, TypedIsList
  <2>6. \/ \E what, read : IsList(read) /\ Sent(t, what, {}, read)
        \/ Answer(t, Sorry)
    <3>1. \/ Sent(t, "all", {}, IF Connected(t) THEN all ELSE <<>>) \/ Answer(t, Sorry)
          \/ \E n \in 0 .. Len(all) - 1 : Sent(t, "part", {}, SubSeq(all, 1, n))
      BY <1>14 DEF ShowTop
    <3> HIDE DEF all, names
    <3> QED BY <2>4, <2>5, <3>1, ListEmpty
  <2> HIDE DEF all, names
  <2> QED BY <1>1, <1>12, <2>6
<1>15. CASE InstanceOp(t)
  BY <1>1, <1>15 DEF InstanceOp
<1>16. CASE AfterTitle(t)
  BY <1>0, <1>2, <1>16 DEF AfterTitle
<1>17. CASE AfterReply(t)
  <2>1. IsList(Proxies)
    BY ReporterAssumption, TypedIsList
  <2> QED BY <1>0, <1>17, <2>1 DEF AfterReply, AtEnd
<1>18. CASE PrintPage(t)
  BY <1>1, <1>18 DEF PrintPage
<1> HIDE DEF Goal
<1> QED
  BY <1>3, <1>4, <1>5, <1>7, <1>8, <1>9, <1>10, <1>11, <1>13, <1>14, <1>15, <1>16, <1>17, <1>18
     DEF Step, Client, GetAddr, Addr2Host, Query

LEMMA ShapeStep ==
    ASSUME Shape, [Next]_vars
    PROVE  Shape'
<1>1. CASE UNCHANGED vars
  BY <1>1 DEF vars, static, request, page, history, Shape, Domains
<1>2. ASSUME NEW t \in Thread, Step(t) PROVE Shape'
  <2>1. Domains' /\ \A u \in Thread \ {t} : SameAt(u)
    BY <1>2, OthersSame DEF Shape
  <2>2. \A u \in Thread : /\ IsList(todo'[u]) /\ IsList(rows'[u])
                          /\ pc'[u] \in {"trim", "dup"} => todo'[u] # <<>>
    BY <1>2, <2>1, ListStep DEF Shape, SameAt
  <2> QED BY <1>2, <2>1, <2>2, ReportingStep DEF Shape, IsList
<1> QED BY <1>1, <1>2, NextSteps

\* The lists of a thread stay lists, and one that looks a name up has an entry for it.
THEOREM ShapeHolds == Spec => []Shape
BY InitShape, ShapeStep, PTL DEF Spec

-----------------------------------------------------------------------------
(* What a redirection means *)

LEMMA RedirectStep ==
    ASSUME Shape, RedirectHonest, [Next]_vars
    PROVE  RedirectHonest'
<1>1. CASE UNCHANGED vars
  BY <1>1 DEF vars, history, RedirectHonest
<1>2. ASSUME NEW t \in Thread, Step(t) PROVE RedirectHonest'
  <2>1. Domains /\ \A u \in Thread \ {t} : SameAt(u)
    BY <1>2, OthersSame DEF Shape
  <2>2. answer'[t].what = "redirect" => did'[t]
    <3> USE DEF Domains, Goto, history, locals
    <3>1. CASE Asking(t)
      BY <2>1, <3>1 DEF Asking, Ask, None
    <3>2. CASE InstanceOp(t)
      <4>1. CASE Operate(t)
        BY <2>1, <4>1 DEF Operate
      <4>2. CASE Answer(t, Sorry)
        BY <2>1, <4>2 DEF Answer, Sorry
      <4> QED BY <3>2, <4>1, <4>2 DEF InstanceOp
    <3>3. CASE PrintPage(t)
      BY <2>1, <3>3 DEF PrintPage, Answer
    <3>4. CASE ReporterCallback(t) \/ Connect(t) \/ ShowTop(t)
      <4>1. did' = did /\ (answer' = answer \/ Answer(t, Sorry))
        BY <3>4 DEF ReporterCallback, Connect, ShowTop, Sent
      <4> QED BY <2>1, <4>1 DEF RedirectHonest, Answer, Sorry
    <3>5. CASE \/ GetAddr(t) \/ Addr2Host(t) \/ PassOver(t) \/ ShowInstances(t)
               \/ AfterTitle(t) \/ AfterReply(t)
      <4>1. UNCHANGED <<answer, did>>
        BY <3>5 DEF GetAddr, ClearMcr, TestMcr, FamilyOfMcr, PortOfMcr, SetMcr, CopyMcr,
           Addr2Host, LookUp, TrimName, DupName, PassOver, ShowInstances, Sent, AfterTitle,
           AfterReply
      <4> QED BY <4>1 DEF RedirectHonest
    <3> QED BY <1>2, <3>1, <3>2, <3>3, <3>4, <3>5 DEF Step, Client, Query
  <2> QED BY <2>1, <2>2 DEF RedirectHonest, SameAt
<1> QED BY <1>1, <1>2, NextSteps

\* A redirection after enable or disable is only ever sent when the reporter did it, whatever
\* the other threads do to the address meanwhile.
THEOREM RedirectsHonest == Spec => []RedirectHonest
<1>1. Init => RedirectHonest
  <2>1. Init => \A t \in Thread : answer[t] = None
    BY DEF Init
  <2>2. None.what # "redirect"
    BY DEF None
  <2> QED BY <2>1, <2>2 DEF RedirectHonest
<1> QED BY <1>1, RedirectStep, ShapeHolds, PTL DEF Spec

-----------------------------------------------------------------------------
(* Whole addresses *)

LEMMA GetAddrStep ==
    ASSUME Shape, NEW t \in Thread, Step(t), GetAddrInv(t)
    PROVE  GetAddrInv(t)'
<1> USE DEF Domains, Goto, static, request, page, locals, history, GetAddrInv
<1>0. Domains
  BY DEF Shape
<1>1. CASE Asking(t)
  BY <1>0, <1>1 DEF Asking, Ask
<1>2. ASSUME NEW a, Answer(t, a) PROVE GetAddrInv(t)'
  BY <1>0, <1>2 DEF Answer
<1>3. CASE ReporterCallback(t)
  BY <1>0, <1>2, <1>3 DEF ReporterCallback
<1>4. CASE ClearMcr(t) \/ TestMcr(t) \/ FamilyOfMcr(t) \/ PortOfMcr(t)
  <2>1. crossed'[t] = crossed[t] \/ crossed'[t] = (crossed[t] \/ FALSE)
    BY <1>0, <1>4 DEF ClearMcr, TestMcr, FamilyOfMcr, PortOfMcr, SetMcr, Crosses
  <2>2. /\ ClearMcr(t) => mcr' = {} /\ pc'[t] = "test"
        /\ TestMcr(t) => pc[t] = "test" /\ \/ mcr' = {"addr"} /\ pc'[t] = "family"
                                           \/ "port" \in mcr
        /\ FamilyOfMcr(t) => pc[t] = "family" /\ mcr' = mcr \cup {"family"} /\ pc'[t] = "port"
        /\ PortOfMcr(t) => pc[t] = "port" /\ mcr' = mcr \cup {"port"} /\ pc'[t] = "copy"
    BY <1>0, <1>4 DEF ClearMcr, TestMcr, FamilyOfMcr, PortOfMcr, SetMcr
  <2>3. crossed'[t] <=> crossed[t]
    BY <2>1
  <2> QED BY <1>4, <2>2, <2>3 DEF Fields
<1>5. CASE CopyMcr(t)
  BY <1>0, <1>5 DEF CopyMcr
<1>6. CASE Addr2Host(t) \/ PassOver(t) \/ AfterTitle(t) \/ AfterReply(t)
  <2>1. UNCHANGED dest /\ pc[t] \in {"list", "trim", "dup"} /\ pc'[t] \in {"list", "trim", "dup", "connect"}
    BY <1>0, <1>6 DEF Addr2Host, LookUp, TrimName, DupName, Named, PassOver, AfterTitle, AfterReply,
                      AtEnd, AtList
  <2>2. crossed[t] => crossed'[t]
    BY <1>0, <1>6 DEF Addr2Host, LookUp, TrimName, DupName, PassOver, AfterTitle, AfterReply, Crosses
  <2> QED BY <2>1, <2>2
<1>7. CASE Connect(t)
  BY <1>0, <1>2, <1>7 DEF Connect
<1>8. CASE ShowInstances(t) \/ ShowTop(t) \/ InstanceOp(t)
  <2>1. \/ \E a : Answer(t, a)
        \/ \E what, list, read : Sent(t, what, list, read)
    BY <1>8 DEF ShowInstances, ShowTop, InstanceOp
  <2>2. ASSUME NEW what, NEW list, NEW read, Sent(t, what, list, read) PROVE GetAddrInv(t)'
    BY <1>0, <1>8, <2>2 DEF Sent, ShowInstances, ShowTop, InstanceOp
  <2> QED BY <1>2, <2>1, <2>2
<1>9. CASE PrintPage(t)
  BY <1>2, <1>9 DEF PrintPage
<1> QED BY <1>1, <1>3, <1>4, <1>5, <1>6, <1>7, <1>8, <1>9 DEF Step, Client, GetAddr, Query

LEMMA GetAddrOther ==
    ASSUME Shape, NEW t \in Thread, Step(t), NEW u \in Thread, u # t, GetAddrInv(u)
    PROVE  GetAddrInv(u)'
<1>1. SameAt(u) /\ Domains
  BY OthersSame DEF Shape
<1>2. CASE mcr' = mcr
  BY <1>1, <1>2 DEF SameAt, GetAddrInv
<1>3. CASE ClearMcr(t) \/ TestMcr(t) \/ FamilyOfMcr(t) \/ PortOfMcr(t)
  <2>1. pc[u] \in InGetAddr => crossed'[u]
    BY <1>1, <1>3 DEF ClearMcr, TestMcr, FamilyOfMcr, PortOfMcr, SetMcr, Crosses
  <2> QED BY <1>1, <2>1 DEF SameAt, GetAddrInv, InGetAddr
<1>4. mcr' = mcr \/ ClearMcr(t) \/ TestMcr(t) \/ FamilyOfMcr(t) \/ PortOfMcr(t)
  BY DEF Step, Asking, Ask, Client, ReporterCallback, GetAddr, CopyMcr, Addr2Host, LookUp, TrimName,
         DupName, PassOver, Query, Connect, ShowInstances, ShowTop, Sent, InstanceOp, AfterTitle,
         AfterReply, PrintPage, static
<1> QED BY <1>2, <1>3, <1>4

\* A thread that no other crosses in mcr_getAddr connects to a whole address, whatever was
\* in the static one before.
THEOREM AddressesWhole == Spec => []AddressWhole
<1> DEFINE AllInv == \A t \in Thread : GetAddrInv(t)
<1>1. Init => AllInv
  BY DEF Init, GetAddrInv
<1>2. Shape /\ AllInv /\ [Next]_vars => AllInv'
  <2>1. CASE UNCHANGED vars
    BY <2>1 DEF vars, static, history, GetAddrInv
  <2>2. ASSUME Shape, AllInv, NEW t \in Thread, Step(t) PROVE AllInv'
    BY <2>2, GetAddrStep, GetAddrOther
  <2> QED BY <2>1, <2>2, NextSteps
<1>3. AllInv => AddressWhole
  BY DEF GetAddrInv, AddressWhole
<1> HIDE DEF AllInv
<1> QED BY <1>1, <1>2, <1>3, ShapeHolds, PTL DEF Spec

-----------------------------------------------------------------------------
(* Right names *)

\* The entry at hand goes into the rows with the name that was found.
LEMMA NamedRow ==
    ASSUME Shape, NEW t \in Thread, todo[t] # <<>>, NEW name, Named(t, name)
    PROVE  /\ Len(rows[t]) \in Nat /\ Len(rows'[t]) = Len(rows[t]) + 1
           /\ \A i \in 1 .. Len(rows[t]) : rows'[t][i] = rows[t][i]
           /\ rows'[t][Len(rows[t]) + 1]
                 = [addr |-> todo[t][1].addr, port |-> todo[t][1].port, host |-> name,
                    on |-> stage[t] = "reply"]
           /\ todo'[t] = Tail(todo[t]) /\ pc'[t] = "list"
<1>1. Domains /\ IsList(rows[t]) /\ IsList(todo[t])
  BY DEF Shape
<1>2. Head(todo[t]) = todo[t][1]
  BY <1>1, ListTail
<1> DEFINE r == [addr |-> todo[t][1].addr, port |-> todo[t][1].port, host |-> name,
                 on |-> stage[t] = "reply"]
<1>3. rows'[t] = Append(rows[t], r) /\ todo'[t] = Tail(todo[t]) /\ pc'[t] = "list"
  BY <1>1, <1>2 DEF Named, Entry, Domains, Goto
<1> HIDE DEF r
<1>4. /\ Len(rows[t]) \in Nat /\ Len(rows'[t]) = Len(rows[t]) + 1
      /\ \A i \in 1 .. Len(rows[t]) : rows'[t][i] = rows[t][i]
      /\ rows'[t][Len(rows[t]) + 1] = r
  BY <1>1, <1>3, ListAppend
<1> QED BY <1>3, <1>4 DEF r

LEMMA NameStep ==
    ASSUME Shape, NEW t \in Thread, Step(t), NameInv(t)
    PROVE  NameInv(t)'
<1> USE DEF Domains, Goto, static, request, page, locals, history
<1>0. Domains /\ IsList(rows[t]) /\ IsList(todo[t]) /\ (pc[t] \in {"trim", "dup"} => todo[t] # <<>>)
  BY DEF Shape
<1>1. ASSUME pc'[t] \notin {"trim", "dup", "idle", "answered"}, rows'[t] = rows[t],
             crossed[t] => crossed'[t]
      PROVE  NameInv(t)'
  BY <1>1 DEF NameInv
<1>2. ASSUME pc'[t] \notin {"trim", "dup"}, rows'[t] = <<>>
      PROVE  NameInv(t)'
  BY <1>2, ListEmpty DEF NameInv
<1>3. ASSUME NEW a, Answer(t, a) PROVE NameInv(t)'
  BY <1>0, <1>2, <1>3 DEF Answer
<1>4. ASSUME NEW name, Named(t, name), todo[t] # <<>>, crossed[t] => crossed'[t],
             ~crossed[t] => name = HostOf(Head(todo[t]).addr)
      PROVE  NameInv(t)'
  <2>1. /\ Len(rows[t]) \in Nat /\ Len(rows'[t]) = Len(rows[t]) + 1
        /\ \A i \in 1 .. Len(rows[t]) : rows'[t][i] = rows[t][i]
        /\ pc'[t] = "list"
    BY <1>4, NamedRow
  <2>2. rows'[t][Len(rows[t]) + 1]
           = [addr |-> todo[t][1].addr, port |-> todo[t][1].port, host |-> name,
              on |-> stage[t] = "reply"]
    BY <1>4, NamedRow
  <2>3. /\ rows'[t][Len(rows[t]) + 1].host = name
        /\ rows'[t][Len(rows[t]) + 1].addr = Head(todo[t]).addr
    BY <1>0, <1>4, <2>2, ListTail
  <2> QED BY <1>4, <2>1, <2>3 DEF NameInv
<1>5. CASE Asking(t)
  <2>1. pc'[t] = "asked" /\ rows' = rows /\ pc[t] \in {"idle", "answered"}
    BY <1>0, <1>5 DEF Asking, Ask, MayAsk
  <2> QED BY <1>2, <2>1 DEF NameInv
<1>6. CASE ReporterCallback(t)
  BY <1>0, <1>1, <1>3, <1>6 DEF ReporterCallback
<1>7. CASE ClearMcr(t) \/ TestMcr(t) \/ FamilyOfMcr(t) \/ PortOfMcr(t)
  BY <1>0, <1>1, <1>7 DEF ClearMcr, TestMcr, FamilyOfMcr, PortOfMcr, SetMcr, Crosses
<1>8. CASE CopyMcr(t)
  BY <1>0, <1>1, <1>8 DEF CopyMcr
<1>9. CASE LookUp(t)
  <2>1. todo[t] # <<>> /\ (crossed[t] => crossed'[t])
    BY <1>0, <1>9 DEF LookUp, AtList, Crosses
  <2>2. CASE Name[Entry(t).addr] = "none"
    <3>1. Named(t, Entry(t).addr)
      BY <1>9, <2>2 DEF LookUp
    <3>2. Entry(t).addr = HostOf(Head(todo[t]).addr)
      BY <2>2 DEF HostOf, Entry
    <3> QED BY <1>4, <2>1, <3>1, <3>2
  <2>3. CASE Name[Entry(t).addr] # "none"
    <3>1. /\ hostent' = HostOf(Head(todo[t]).addr) /\ pc'[t] = "trim"
          /\ UNCHANGED <<todo, rows>>
      BY <1>0, <1>9, <2>3 DEF LookUp, HostOf, Entry
    <3> QED BY <2>1, <3>1 DEF NameInv
  <2> QED BY <2>2, <2>3
<1>10. CASE TrimName(t)
  <2>1. /\ hostname' = hostent /\ pc[t] = "trim" /\ pc'[t] = "dup" /\ UNCHANGED <<todo, rows>>
        /\ crossed[t] => crossed'[t]
    BY <1>0, <1>10 DEF TrimName, Crosses
  <2> QED BY <2>1 DEF NameInv
<1>11. CASE DupName(t)
  <2>1. pc[t] = "dup" /\ Named(t, hostname) /\ crossed' = crossed
    BY <1>11 DEF DupName
  <2> QED BY <1>0, <1>4, <2>1 DEF NameInv
<1>12. CASE PassOver(t) \/ AfterTitle(t) \/ AfterReply(t)
  BY <1>0, <1>1, <1>12 DEF PassOver, AfterTitle, AfterReply, AtList, AtEnd
<1>13. CASE Connect(t)
  BY <1>0, <1>1, <1>3, <1>13 DEF Connect
<1>14. CASE ShowInstances(t) \/ ShowTop(t) \/ InstanceOp(t) \/ PrintPage(t)
  <2>1. \/ \E a : Answer(t, a)
        \/ \E what, list, read : Sent(t, what, list, read)
    BY <1>14 DEF ShowInstances, ShowTop, InstanceOp, PrintPage
  <2>2. ASSUME NEW what, NEW list, NEW read, Sent(t, what, list, read) PROVE NameInv(t)'
    BY <1>0, <1>2, <2>2 DEF Sent
  <2> QED BY <1>3, <2>1, <2>2
<1> QED BY <1>5, <1>6, <1>7, <1>8, <1>9, <1>10, <1>11, <1>12, <1>13, <1>14
        DEF Step, Client, GetAddr, Addr2Host, Query

LEMMA NameOther ==
    ASSUME Shape, NEW t \in Thread, Step(t), NEW u \in Thread, u # t, NameInv(u)
    PROVE  NameInv(u)'
<1>1. SameAt(u) /\ Domains
  BY OthersSame DEF Shape
<1>2. CASE UNCHANGED <<hostent, hostname>>
  BY <1>1, <1>2 DEF SameAt, NameInv
<1>3. CASE LookUp(t)
  <2>1. hostname' = hostname /\ (hostent' = hostent \/ (pc[u] = "trim" => crossed'[u]))
    BY <1>1, <1>3 DEF LookUp, Crosses, Domains
  <2> QED BY <1>1, <2>1 DEF SameAt, NameInv
<1>4. CASE TrimName(t)
  <2>1. hostent' = hostent /\ (pc[u] = "dup" => crossed'[u])
    BY <1>1, <1>4 DEF TrimName, Crosses, Domains
  <2> QED BY <1>1, <2>1 DEF SameAt, NameInv
<1>5. UNCHANGED <<hostent, hostname>> \/ LookUp(t) \/ TrimName(t)
  BY DEF Step, Asking, Ask, Client, ReporterCallback, GetAddr, ClearMcr, TestMcr, FamilyOfMcr,
         PortOfMcr, SetMcr, CopyMcr, Addr2Host, DupName, PassOver, Query, Connect, ShowInstances,
         ShowTop, Sent, InstanceOp, AfterTitle, AfterReply, PrintPage, static
<1> QED BY <1>2, <1>3, <1>4, <1>5

\* The names on a page are those of their addresses, unless another thread looked a name up
\* between a thread's lookup and its copies.
THEOREM NamesAreRight == Spec => []NamesRight
<1> DEFINE AllInv == \A t \in Thread : NameInv(t)
<1>1. Init => AllInv
  <2>1. Init => \A t \in Thread : pc[t] = "idle" /\ rows[t] = <<>>
    BY DEF Init
  <2> QED BY <2>1, ListEmpty DEF NameInv
<1>2. Shape /\ AllInv /\ [Next]_vars => AllInv'
  <2>1. CASE UNCHANGED vars
    BY <2>1 DEF vars, static, page, history, NameInv
  <2>2. ASSUME Shape, AllInv, NEW t \in Thread, Step(t) PROVE AllInv'
    BY <2>2, NameStep, NameOther
  <2> QED BY <2>1, <2>2, NextSteps
<1>3. AllInv => NamesRight
  BY DEF NameInv, NamesRight, HostOf
<1> HIDE DEF AllInv
<1> QED BY <1>1, <1>2, <1>3, ShapeHolds, PTL DEF Spec

-----------------------------------------------------------------------------
(* True pages *)

\* One more row for the first entry keeps what is known of the lists of the configuration page.
LEMMA NamedPage ==
    ASSUME Shape, NEW t \in Thread, todo[t] # <<>>, NEW name, Named(t, name),
           stage[t] = "proxies" => ~Listed(t), ReplyInv(t), ProxiesInv(t),
           UNCHANGED <<stage, shown>>
    PROVE  ReplyInv(t)' /\ ProxiesInv(t)'
<1> DEFINE n == Len(rows[t])  m == Len(todo[t])
<1>1. /\ n \in Nat /\ Len(rows'[t]) = n + 1
      /\ \A i \in 1 .. n : rows'[t][i] = rows[t][i]
      /\ rows'[t][n + 1] = [addr |-> todo[t][1].addr, port |-> todo[t][1].port, host |-> name,
                            on |-> stage[t] = "reply"]
      /\ todo'[t] = Tail(todo[t]) /\ pc'[t] = "list"
  BY NamedRow
<1>2. /\ m \in Nat \ {0} /\ Len(todo'[t]) = m - 1
      /\ \A j \in 1 .. m - 1 : todo'[t][j] = todo[t][j + 1]
      /\ Entry(t) = todo[t][1]
  BY <1>1, ListTail DEF Shape, Entry
<1>3. /\ rows'[t][n + 1].addr = todo[t][1].addr
      /\ rows'[t][n + 1].port = todo[t][1].port
      /\ Pair(rows'[t][n + 1]) = Pair(todo[t][1])
  BY <1>1 DEF Pair
<1>4. rows'[t][n + 1].on <=> stage[t] = "reply"
  <2> DEFINE row(on) == [addr |-> todo[t][1].addr, port |-> todo[t][1].port, host |-> name, on |-> on]
  <2>1. CASE stage[t] = "reply"
    <3>1. (stage[t] = "reply") = TRUE
      BY <2>1
    <3>2. rows'[t][n + 1] = row(TRUE)
      BY <1>1, <3>1, Zenon
    <3>3. row(TRUE).on
      OBVIOUS
    <3> QED BY <2>1, <3>2, <3>3
  <2>2. CASE stage[t] # "reply"
    <3>1. (stage[t] = "reply") = FALSE
      BY <2>2
    <3>2. rows'[t][n + 1] = row(FALSE)
      BY <1>1, <3>1, Zenon
    <3>3. ~row(FALSE).on
      OBVIOUS
    <3> QED BY <2>2, <3>2, <3>3
  <2> QED BY <2>1, <2>2
<1>5. \A i \in 1 .. n : Pair(rows'[t][i]) = Pair(rows[t][i])
  BY <1>1
<1>6. \A i \in 1 .. n + 1 : i \in 1 .. n \/ i = n + 1
  BY <1>1
<1>7. \A j \in 1 .. m : j = 1 \/ (j - 1 \in 1 .. m - 1 /\ todo'[t][j - 1] = todo[t][j])
  BY <1>2
<1>8. 1 \in 1 .. m /\ n + 1 \in 1 .. n + 1 /\ 1 .. n \subseteq 1 .. n + 1
  BY <1>1, <1>2
<1>9. \A j \in 1 .. m - 1 : j + 1 \in 1 .. m
  BY <1>2
<1> HIDE DEF n, m
<1>10. Len(rows[t]) = n /\ Len(todo[t]) = m
  BY DEF n, m
<1>11. ReplyInv(t)'
  <2>1. \A i \in 1 .. n + 1 : rows'[t][i].on => Pair(rows'[t][i]) \in shown[t].list
    BY <1>1, <1>3, <1>4, <1>5, <1>6, <1>8, <1>10 DEF ReplyInv
  <2>2. stage[t] = "reply" => \A i \in 1 .. n + 1 : rows'[t][i].on
    BY <1>1, <1>4, <1>6, <1>10 DEF ReplyInv
  <2>3. stage[t] = "reply" => \A j \in 1 .. m - 1 : Pair(todo'[t][j]) \in shown[t].list
    BY <1>2, <1>9, <1>10 DEF ReplyInv
  <2>4. ASSUME shown[t].what = "all", NEW x \in shown[t].list
        PROVE  \/ \E i \in 1 .. n + 1 : rows'[t][i].on /\ Pair(rows'[t][i]) = x
               \/ stage[t] = "reply" /\ \E j \in 1 .. m - 1 : Pair(todo'[t][j]) = x
    <3>1. CASE \E i \in 1 .. n : rows[t][i].on /\ Pair(rows[t][i]) = x
      BY <1>1, <1>5, <1>8, <3>1
    <3>2. CASE stage[t] = "reply" /\ \E j \in 1 .. m : Pair(todo[t][j]) = x
      BY <1>3, <1>4, <1>7, <1>8, <3>2
    <3> QED BY <1>10, <2>4, <3>1, <3>2 DEF ReplyInv
  <2> QED BY <1>1, <1>2, <1>10, <2>1, <2>2, <2>3, <2>4 DEF ReplyInv
<1>12. ProxiesInv(t)'
  <2> SUFFICES ASSUME stage[t] = "proxies"
               PROVE  /\ \A p \in 1 .. Len(Proxies) :
                            \/ \E i \in 1 .. n + 1 : rows'[t][i].addr = Proxies[p].addr
                            \/ \E j \in 1 .. m - 1 : todo'[t][j].addr = Proxies[p].addr
                      /\ \A i, j \in 1 .. n + 1 :
                            ~rows'[t][i].on /\ rows'[t][i].addr = rows'[t][j].addr => i = j
    BY <1>1, <1>2 DEF ProxiesInv
  <2>1. ASSUME NEW p \in 1 .. Len(Proxies)
        PROVE  \/ \E i \in 1 .. n + 1 : rows'[t][i].addr = Proxies[p].addr
               \/ \E j \in 1 .. m - 1 : todo'[t][j].addr = Proxies[p].addr
    <3>1. CASE \E i \in 1 .. n : rows[t][i].addr = Proxies[p].addr
      BY <1>1, <1>8, <3>1
    <3>2. CASE \E j \in 1 .. m : todo[t][j].addr = Proxies[p].addr
      BY <1>3, <1>7, <1>8, <3>2
    <3> QED BY <1>10, <3>1, <3>2 DEF ProxiesInv
  <2>2. \A i \in 1 .. n : rows'[t][i].addr # rows'[t][n + 1].addr
    BY <1>1, <1>2, <1>3, <1>10 DEF Listed
  <2>3. \A i, j \in 1 .. n : ~rows'[t][i].on /\ rows'[t][i].addr = rows'[t][j].addr => i = j
    BY <1>1, <1>10 DEF ProxiesInv
  <2> QED BY <1>6, <2>1, <2>2, <2>3
<1> QED BY <1>11, <1>12

\* An entry of an address that has a row already is passed over.
LEMMA PassedPage ==
    ASSUME Shape, NEW t \in Thread, PassOver(t), ReplyInv(t), ProxiesInv(t)
    PROVE  ReplyInv(t)' /\ ProxiesInv(t)'
<1> DEFINE m == Len(todo[t])
<1>1. /\ todo[t] # <<>> /\ stage[t] = "proxies" /\ Listed(t) /\ todo'[t] = Tail(todo[t])
      /\ UNCHANGED <<rows, stage, shown, pc>> /\ pc[t] = "list"
  BY DEF PassOver, AtList, Passed, Shape, Domains, history
<1>2. /\ m \in Nat \ {0} /\ Len(todo'[t]) = m - 1
      /\ \A j \in 1 .. m - 1 : todo'[t][j] = todo[t][j + 1]
      /\ Entry(t) = todo[t][1]
  BY <1>1, ListTail DEF Shape, Entry
<1>3. \A j \in 1 .. m : j = 1 \/ (j - 1 \in 1 .. m - 1 /\ todo'[t][j - 1] = todo[t][j])
  BY <1>2
<1>4. ReplyInv(t)'
  BY <1>1 DEF ReplyInv
<1>5. ASSUME NEW p \in 1 .. Len(Proxies)
      PROVE  \/ \E i \in 1 .. Len(rows[t]) : rows[t][i].addr = Proxies[p].addr
             \/ \E j \in 1 .. m - 1 : todo'[t][j].addr = Proxies[p].addr
  <2>1. CASE \E i \in 1 .. Len(rows[t]) : rows[t][i].addr = Proxies[p].addr
    BY <2>1
  <2>2. CASE \E j \in 1 .. m : todo[t][j].addr = Proxies[p].addr
    <3>1. PICK j \in 1 .. m : todo[t][j].addr = Proxies[p].addr
      BY <2>2
    <3>2. \E i \in 1 .. Len(rows[t]) : rows[t][i].addr = todo[t][1].addr
      BY <1>1, <1>2 DEF Listed
    <3> QED BY <1>3, <3>1, <3>2
  <2> QED BY <1>1, <2>1, <2>2 DEF ProxiesInv
<1> QED BY <1>1, <1>2, <1>4, <1>5 DEF ProxiesInv

\* When all are through, the page is what PageTrue says.
LEMMA PrintedTrue ==
    ASSUME Shape, NEW t \in Thread, req[t].page = "mcr-config", PrintPage(t), PageInv(t)
    PROVE  PageTrueAt(t)'
<1> DEFINE R == rows[t]
           N == 1 .. Len(rows[t])
           mine == {j \in N : R[j].addr = own[t]}
           printed == {<<i, R[i]>> : i \in mine}
           lit == {r \in printed : r[2].on}
           on == {Pair(r[2]) : r \in lit}
           all == {i \in shown[t].list : i.addr = own[t]}
<1>1. /\ stage[t] = "proxies" /\ todo[t] = <<>> /\ pc[t] = "list"
      /\ UNCHANGED <<req, own, shown>>
      /\ answer' = [answer EXCEPT ![t] = [what |-> "report", rows |-> Printed(t)]]
  BY DEF PrintPage, AtEnd, Answer, request, history
<1>2. Printed(t) = printed
  BY DEF Printed
<1>3. answer'[t] = [what |-> "report", rows |-> printed]
  BY <1>1, <1>2 DEF Shape, Domains
<1>4. answer'[t].rows = printed
  BY <1>3
<1>5. OnOf(t)' = lit
  BY <1>4 DEF OnOf
<1>6. ReplyInv(t) /\ ProxiesInv(t)
  BY <1>1 DEF PageInv
<1>7. PICK i0 \in N : R[i0].addr = own[t]
  <2>1. PICK p \in 1 .. Len(Proxies) : own[t] = Proxies[p].addr
    BY DEF PageInv
  <2> QED BY <1>1, <1>6, <2>1, ListEmpty DEF ProxiesInv
<1>8. \A i, j \in N : ~R[i].on /\ R[i].addr = R[j].addr => i = j
  BY <1>1, <1>6 DEF ProxiesInv
<1>9. /\ \A i \in mine : R[i].on => Pair(R[i]) \in on
      /\ \A x \in on : \E i \in mine : R[i].on /\ x = Pair(R[i])
  <2>1. \A i \in mine : R[i].on => <<i, R[i]>> \in lit
    OBVIOUS
  <2>2. \A r \in lit : \E i \in mine : R[i].on /\ r = <<i, R[i]>>
    OBVIOUS
  <2>3. \A i : <<i, R[i]>>[2] = R[i]
    OBVIOUS
  <2>4. on = {Pair(r[2]) : r \in lit}
    OBVIOUS
  <2> HIDE DEF lit, on
  <2>5. ASSUME NEW i \in mine, R[i].on PROVE Pair(R[i]) \in on
    BY <2>1, <2>3, <2>4, <2>5
  <2>6. ASSUME NEW x \in on PROVE \E i \in mine : R[i].on /\ x = Pair(R[i])
    <3>1. PICK r \in lit : x = Pair(r[2])
      BY <2>4
    <3> QED BY <2>2, <2>3, <3>1
  <2> QED BY <2>5, <2>6
<1>10. on \subseteq all
  <2>1. ASSUME NEW i \in mine, R[i].on PROVE Pair(R[i]) \in all
    <3>1. Pair(R[i]).addr = own[t]
      BY <2>1 DEF Pair
    <3> QED BY <1>6, <2>1, <3>1 DEF ReplyInv
  <2> QED BY <1>9, <2>1
<1>11. ASSUME shown[t].what = "all" PROVE on = all
  <2>1. ASSUME NEW x \in all PROVE x \in on
    <3>1. PICK i \in N : R[i].on /\ Pair(R[i]) = x
      BY <1>1, <1>6, <1>11, <2>1 DEF ReplyInv
    <3>2. R[i].addr = own[t]
      BY <2>1, <3>1 DEF Pair
    <3> QED BY <1>9, <3>1, <3>2
  <2> QED BY <1>10, <2>1
<1>12. Cardinality(printed \ lit) = IF on = {} THEN 1 ELSE 0
  <2>1. CASE on = {}
    <3>1. \A i \in mine : ~R[i].on
      BY <1>9, <2>1
    <3>2. \A i \in mine : i = i0
      BY <1>7, <1>8, <3>1
    <3>3. printed \ lit = {<<i0, R[i0]>>}
      BY <1>7, <3>1, <3>2
    <3> QED BY <2>1, <3>3, FS_Singleton
  <2>2. CASE on # {}
    <3>1. PICK i1 \in mine : R[i1].on
      BY <1>9, <2>2
    <3>2. \A i \in mine : R[i].on
      BY <1>8, <3>1
    <3>3. printed \ lit = {}
      BY <3>2
    <3> QED BY <2>2, <3>3, FS_EmptySet
  <2> QED BY <2>1, <2>2
<1> HIDE DEF printed, lit, on, all
<1>13. /\ {Pair(r[2]) : r \in OnOf(t)'} = on
       /\ {i \in shown'[t].list : i.addr = own'[t]} = all
       /\ shown'[t] = shown[t]
  BY <1>1, <1>5 DEF on, all
<1> QED BY <1>4, <1>5, <1>10, <1>11, <1>12, <1>13 DEF PageTrueAt

\* What the reporter sent is on its way to the rows, whole or cut.
LEMMA SentPage ==
    ASSUME Shape, NEW t \in Thread, ShowInstances(t)
    PROVE  ReplyInv(t)' /\ ProxiesInv(t)' /\ stage'[t] = "reply"
<1> DEFINE all == SetToSeq(reporting)
<1>1. IsFiniteSet(reporting) /\ \A x \in reporting : x = Pair(x)
  BY DEF Shape
<1>2. ASSUME NEW what, NEW list, NEW read, Sent(t, what, list, read),
             \A j \in 1 .. Len(read) : Pair(read[j]) \in list,
             what = "all" => \A x \in list : \E j \in 1 .. Len(read) : Pair(read[j]) = x
      PROVE  ReplyInv(t)' /\ ProxiesInv(t)' /\ stage'[t] = "reply"
  <2>1. /\ shown'[t] = [what |-> what, list |-> list] /\ todo'[t] = read
        /\ stage'[t] = "reply" /\ rows'[t] = <<>>
    BY <1>2 DEF Sent, Shape, Domains
  <2>2. shown'[t].what = what /\ shown'[t].list = list
    BY <2>1
  <2>3. ReplyInv(t)'
    BY <1>2, <2>1, <2>2, ListEmpty DEF ReplyInv
  <2> QED BY <2>1, <2>3 DEF ProxiesInv
<1>3. /\ \A j \in 1 .. Len(all) : Pair(all[j]) \in reporting
      /\ \A x \in reporting : \E j \in 1 .. Len(all) : Pair(all[j]) = x
  BY <1>1, Enumerated
<1>4. \A n \in 0 .. Len(all) - 1 :
         \A j \in 1 .. Len(SubSeq(all, 1, n)) : Pair(SubSeq(all, 1, n)[j]) \in reporting
  BY <1>1, Cut
<1>5. \/ Sent(t, "nothing", {}, <<>>) \/ Sent(t, "error", {}, <<>>)
      \/ Sent(t, "all", reporting, all)
      \/ \E n \in 0 .. Len(all) - 1 : Sent(t, "part", reporting, SubSeq(all, 1, n))
  BY DEF ShowInstances
<1> HIDE DEF all
<1>6. CASE Sent(t, "nothing", {}, <<>>) \/ Sent(t, "error", {}, <<>>)
  BY <1>2, <1>6, ListEmpty
<1>7. CASE Sent(t, "all", reporting, all)
  BY <1>2, <1>3, <1>7
<1>8. CASE \E n \in 0 .. Len(all) - 1 : Sent(t, "part", reporting, SubSeq(all, 1, n))
  <2>1. PICK n \in 0 .. Len(all) - 1 : Sent(t, "part", reporting, SubSeq(all, 1, n))
    BY <1>8
  <2>2. \A j \in 1 .. Len(SubSeq(all, 1, n)) : Pair(SubSeq(all, 1, n)[j]) \in reporting
    BY <1>4
  <2> DEFINE read == SubSeq(all, 1, n)
  <2> HIDE DEF read
  <2>3. Sent(t, "part", reporting, read) /\ \A j \in 1 .. Len(read) : Pair(read[j]) \in reporting
    BY <2>1, <2>2 DEF read
  <2> QED BY <1>2, <2>3
<1> QED BY <1>5, <1>6, <1>7, <1>8

\* With the reporter's list done, each back end is still on the list.
LEMMA ProxiesPage ==
    ASSUME Shape, NEW t \in Thread, AfterReply(t), ReplyInv(t)
    PROVE  ReplyInv(t)' /\ ProxiesInv(t)' /\ stage'[t] = "proxies"
<1>1. /\ stage[t] = "reply" /\ todo[t] = <<>> /\ pc[t] = "list"
      /\ stage'[t] = "proxies" /\ todo'[t] = Proxies /\ UNCHANGED <<rows, shown, pc>>
  BY DEF AfterReply, AtEnd, Shape, Domains, history
<1>2. ReplyInv(t)'
  BY <1>1, ListEmpty DEF ReplyInv
<1>3. ProxiesInv(t)'
  BY <1>1 DEF ReplyInv, ProxiesInv
<1> QED BY <1>1, <1>2, <1>3

LEMMA PageStep ==
    ASSUME Shape, NEW t \in Thread, Step(t), PageInv(t)
    PROVE  PageInv(t)'
<1> DEFINE OnPage == {"list", "trim", "dup"}
           Lists == stage[t] # "title" /\ ReplyInv(t) /\ ProxiesInv(t)
<1> USE DEF Domains, Goto, static, request, page, locals, history
<1>0. Domains
  BY DEF Shape
<1>1. ASSUME own'[t] = own[t], answer'[t] = None, pc'[t] \notin OnPage => stage'[t] = "title",
             req'[t].page = "mcr-config" /\ pc'[t] \in OnPage => Lists'
      PROVE  PageInv(t)'
  BY <1>1 DEF PageInv, PageTrueAt, None
<1>2. ASSUME NEW a, Answer(t, a), own' = own, PageTrueAt(t)' PROVE PageInv(t)'
  BY <1>0, <1>2 DEF Answer, PageInv
<1>3. ASSUME Answer(t, Sorry), own' = own PROVE PageInv(t)'
  <2>1. answer'[t].what = "sorry"
    BY <1>0, <1>3 DEF Answer, Sorry
  <2> QED BY <1>2, <1>3, <2>1 DEF PageTrueAt
<1>4. /\ pc[t] # "answered" => answer[t] = None
      /\ pc[t] \notin OnPage => stage[t] = "title"
      /\ req[t].page = "mcr-config" /\ pc[t] \in OnPage => Lists
  BY DEF PageInv
<1> HIDE DEF Lists
<1>5. CASE Asking(t)
  <2>1. PICK p \in 1 .. Len(Proxies) : own'[t] = Proxies[p].addr
    BY <1>0, <1>5 DEF Asking, Ask
  <2>2. answer'[t] = None /\ pc'[t] = "asked" /\ stage'[t] = "title"
    BY <1>0, <1>4, <1>5 DEF Asking, Ask, MayAsk
  <2> QED BY <2>1, <2>2 DEF PageInv, PageTrueAt, None
<1>6. CASE ReporterCallback(t)
  <2>1. own' = own /\ pc[t] = "asked"
    BY <1>6 DEF ReporterCallback
  <2>2. CASE Answer(t, Sorry)
    BY <1>3, <2>1, <2>2
  <2>3. CASE Goto(t, "clear") /\ UNCHANGED <<answer, locals>>
    BY <1>0, <1>1, <1>4, <2>1, <2>3
  <2> QED BY <1>6, <2>2, <2>3 DEF ReporterCallback
<1>7. CASE ClearMcr(t) \/ TestMcr(t) \/ FamilyOfMcr(t) \/ PortOfMcr(t)
  <2>1. /\ pc[t] \in {"clear", "test", "family", "port"} /\ pc'[t] \in InGetAddr
        /\ UNCHANGED <<own, answer, stage>>
    BY <1>0, <1>7 DEF ClearMcr, TestMcr, FamilyOfMcr, PortOfMcr, SetMcr, InGetAddr
  <2> QED BY <1>1, <1>4, <2>1 DEF InGetAddr
<1>8. CASE CopyMcr(t)
  <2>1. /\ pc[t] = "copy" /\ UNCHANGED <<own, answer, stage, req>>
        /\ pc'[t] = "connect" \/ (pc'[t] = "list" /\ req[t].page # "mcr-config")
    BY <1>0, <1>8 DEF CopyMcr
  <2> QED BY <1>1, <1>4, <2>1
<1>9. ASSUME NEW name, Named(t, name), todo[t] # <<>>, pc[t] \in OnPage,
             stage[t] = "proxies" => ~Listed(t), UNCHANGED <<own, req, answer, stage, shown>>
      PROVE  PageInv(t)'
  <2>1. pc'[t] = "list"
    BY <1>0, <1>9 DEF Named
  <2>2. req[t].page = "mcr-config" => Lists'
    BY <1>4, <1>9, NamedPage DEF Lists
  <2> QED BY <1>1, <1>4, <1>9, <2>1, <2>2
<1>10. ASSUME pc[t] \in OnPage, pc'[t] \in OnPage, UNCHANGED <<own, req, answer, stage, shown, todo, rows>>,
              req[t].page = "mcr-config" /\ stage[t] = "proxies" /\ pc'[t] \in {"trim", "dup"}
                  => ~Listed(t)
       PROVE  PageInv(t)'
  <2>1. Listed(t)' <=> Listed(t)
    BY <1>10 DEF Listed, Entry
  <2>2. req[t].page = "mcr-config" => Lists'
    BY <1>4, <1>10, <2>1 DEF Lists, ReplyInv, ProxiesInv
  <2> QED BY <1>1, <1>4, <1>10, <2>2
<1>11. CASE LookUp(t)
  <2>1. /\ todo[t] # <<>> /\ pc[t] = "list" /\ (stage[t] = "proxies" => ~Listed(t))
        /\ UNCHANGED <<own, req, answer, stage, shown>>
    BY <1>11 DEF LookUp, AtList, Passed
  <2>2. CASE Named(t, Entry(t).addr)
    BY <1>9, <2>1, <2>2
  <2>3. CASE Goto(t, "trim") /\ UNCHANGED <<todo, rows>>
    BY <1>0, <1>10, <2>1, <2>3
  <2> QED BY <1>11, <2>2, <2>3 DEF LookUp
<1>12. CASE TrimName(t)
  <2>1. /\ pc[t] = "trim" /\ pc'[t] = "dup"
        /\ UNCHANGED <<own, req, answer, stage, shown, todo, rows>>
    BY <1>0, <1>12 DEF TrimName
  <2> QED BY <1>4, <1>10, <2>1 DEF Lists, ProxiesInv
<1>13. CASE DupName(t)
  <2>1. /\ pc[t] = "dup" /\ Named(t, hostname) /\ todo[t] # <<>> /\ UNCHANGED <<own, req, answer, stage, shown>>
    BY <1>13 DEF DupName, Shape
  <2>2. CASE req[t].page = "mcr-config"
    BY <1>4, <1>9, <2>1, <2>2 DEF Lists, ProxiesInv
  <2>3. CASE req[t].page # "mcr-config"
    <3>1. pc'[t] = "list"
      BY <1>0, <2>1 DEF Named
    <3> QED BY <1>1, <1>4, <2>1, <2>3, <3>1
  <2> QED BY <2>2, <2>3
<1>14. CASE PassOver(t)
  <2>1. pc[t] = "list" /\ UNCHANGED <<own, req, answer, stage, pc>>
    BY <1>14 DEF PassOver, AtList
  <2>2. req[t].page = "mcr-config" => Lists'
    BY <1>4, <1>14, <2>1, PassedPage DEF Lists
  <2> QED BY <1>1, <1>4, <2>1, <2>2
<1>15. CASE Connect(t)
  <2>1. own' = own /\ pc[t] = "connect"
    BY <1>15 DEF Connect
  <2>2. CASE Answer(t, Sorry)
    BY <1>3, <2>1, <2>2
  <2>3. CASE Goto(t, "exchange") /\ UNCHANGED <<answer, locals>>
    BY <1>0, <1>1, <1>4, <2>1, <2>3
  <2> QED BY <1>15, <2>2, <2>3 DEF Connect
<1>16. CASE ShowInstances(t)
  <2>1. \E what, list, read : Sent(t, what, list, read)
    BY <1>16 DEF ShowInstances
  <2>2. pc[t] = "exchange" /\ pc'[t] = "list" /\ UNCHANGED <<own, answer>>
    BY <1>0, <1>16, <2>1 DEF ShowInstances, Sent
  <2>3. Lists'
    BY <1>16, SentPage DEF Lists
  <2> QED BY <1>1, <1>4, <2>2, <2>3
<1>17. CASE ShowTop(t)
  <2>1. \/ Answer(t, Sorry) /\ own' = own
        \/ \E what, list, read : Sent(t, what, list, read)
    BY <1>17 DEF ShowTop
  <2>2. ASSUME NEW what, NEW list, NEW read, Sent(t, what, list, read) PROVE PageInv(t)'
    <3>1. /\ pc[t] = "exchange" /\ pc'[t] = "list" /\ req[t].page # "mcr-config"
          /\ UNCHANGED <<own, req, answer>>
      BY <1>0, <1>17, <2>2 DEF ShowTop, Sent
    <3> QED BY <1>1, <1>4, <3>1
  <2> QED BY <1>3, <2>1, <2>2
<1>18. CASE InstanceOp(t)
  <2>1. own' = own /\ (Answer(t, Sorry) \/ Answer(t, [what |-> "redirect"]))
    BY <1>18 DEF InstanceOp
  <2>2. CASE Answer(t, [what |-> "redirect"])
    <3>1. answer'[t].what = "redirect"
      BY <1>0, <2>2 DEF Answer
    <3> QED BY <1>2, <2>1, <2>2, <3>1 DEF PageTrueAt
  <2> QED BY <1>3, <2>1, <2>2
<1>19. CASE AfterTitle(t)
  <2>1. /\ pc[t] = "list" /\ stage[t] = "title" /\ pc'[t] = "connect"
        /\ UNCHANGED <<own, answer, stage>>
    BY <1>0, <1>19 DEF AfterTitle, AtEnd
  <2> QED BY <1>1, <1>4, <2>1
<1>20. CASE AfterReply(t)
  <2>1. pc[t] = "list" /\ req[t].page = "mcr-config" /\ UNCHANGED <<own, req, answer, pc>>
    BY <1>20 DEF AfterReply, AtEnd
  <2>2. Lists'
    BY <1>4, <1>20, <2>1, ProxiesPage DEF Lists
  <2> QED BY <1>1, <1>4, <2>1, <2>2
<1>21. CASE PrintPage(t)
  <2>1. own' = own /\ req' = req /\ Answer(t, [what |-> "report", rows |-> Printed(t)])
    BY <1>21 DEF PrintPage
  <2>2. CASE req[t].page = "mcr-config"
    BY <1>2, <1>21, <2>1, <2>2, PrintedTrue
  <2>3. CASE req[t].page # "mcr-config"
    BY <1>2, <2>1, <2>3 DEF PageTrueAt
  <2> QED BY <2>2, <2>3
<1> QED
  BY <1>5, <1>6, <1>7, <1>8, <1>11, <1>12, <1>13, <1>14, <1>15, <1>16, <1>17, <1>18, <1>19, <1>20, <1>21
     DEF Step, Client, GetAddr, Addr2Host, Query

LEMMA PageSame ==
    ASSUME NEW u \in Thread, SameAt(u), PageInv(u)
    PROVE  PageInv(u)'
<1>1. (Listed(u)' <=> Listed(u)) /\ OnOf(u)' = OnOf(u)
  BY DEF SameAt, Listed, Entry, OnOf
<1>2. PageTrueAt(u)'
  BY <1>1 DEF SameAt, PageInv, PageTrueAt
<1>3. ReplyInv(u) => ReplyInv(u)'
  <2>1. rows'[u] = rows[u] /\ todo'[u] = todo[u] /\ shown'[u] = shown[u] /\ stage'[u] = stage[u]
    BY DEF SameAt
  <2> QED BY <2>1 DEF ReplyInv
<1>4. ProxiesInv(u) => ProxiesInv(u)'
  <2>1. rows'[u] = rows[u] /\ todo'[u] = todo[u] /\ pc'[u] = pc[u] /\ stage'[u] = stage[u]
    BY DEF SameAt
  <2> QED BY <1>1, <2>1 DEF ProxiesInv
<1> QED BY <1>2, <1>3, <1>4 DEF SameAt, PageInv

\* A configuration page tells the truth: on is what the reporter listed of this back end's
\* address, and its off row stands if and only if nothing of it is on.
THEOREM PagesTrue == Spec => []PageTrue
<1> DEFINE AllInv == \A t \in Thread : PageInv(t)
<1>1. Init => AllInv
  <2>1. ASSUME Init, NEW t \in Thread
        PROVE  pc[t] = "idle" /\ own[t] = Proxies[1].addr /\ stage[t] = "title" /\ answer[t] = None
    BY <2>1 DEF Init
  <2> QED BY <2>1, FirstProxy DEF PageInv, PageTrueAt, None
<1>2. Shape /\ AllInv /\ [Next]_vars => AllInv'
  <2>1. CASE UNCHANGED vars
    <3>1. \A u \in Thread : SameAt(u)
      BY <2>1 DEF vars, static, request, page, history, SameAt
    <3> QED BY <3>1, PageSame
  <2>2. ASSUME Shape, AllInv, NEW t \in Thread, Step(t) PROVE AllInv'
    <3>1. \A u \in Thread \ {t} : SameAt(u)
      BY <2>2, OthersSame DEF Shape
    <3> QED BY <2>2, <3>1, PageStep, PageSame
  <2> QED BY <2>1, <2>2, NextSteps
<1>3. AllInv => PageTrue
  BY DEF PageInv, PageTrueAt, PageTrue, Pair
<1> HIDE DEF AllInv
<1> QED BY <1>1, <1>2, <1>3, ShapeHolds, PTL DEF Spec

-----------------------------------------------------------------------------
(* What a link is read as *)

\* The names of the pages and the addresses are in no parameter's way.
LEMMA NamesUnmarked ==
    /\ \A name \in {"mcr-config", "mcr-enable", "mcr-disable", "top-keys-all", "top-clients-ops"} :
          Unmarked(name)
    /\ \A a \in Addr : Unmarked(a)
<1>1. \A c : c \in Marks \cup Reserved => c \in Reserved \cup {"addr", "port", "key"}
  BY DEF Marks, Reserved
<1>2. \A a \in Addr : Unmarked(a)
  BY <1>1, ReporterAssumption DEF Unmarked
<1> QED BY <1>2 DEF Unmarked, Marks, Reserved

\* The page of a thread, or of a uri, is one of these, about an instance or an address.
Sensible(r) ==
    \/ r.page = "mcr-config"
    \/ /\ r.page \in {"mcr-enable", "mcr-disable", "top-keys-all"}
       /\ \E i \in Instances : r.addr = <<i.addr>> /\ r.port = i.port
    \/ /\ r.page = "top-clients-ops" /\ r.port \in Seq(Decimal)
       /\ \E a \in Addr : r.addr = <<a>>

\* What a thread that asks has: the key is a text, a plain key is read as it was meant, and
\* if no key gives an address the uri makes sense.
LinkRead(want, u) ==
    /\ want.key \in Seq(STRING)
    /\ Plain(want.key) => Parsed(u) = want
    /\ (\A key \in Keys : "addr" \notin Range(key)) => Sensible(Parsed(u))

LinkInv ==
    /\ DOMAIN pc = Thread /\ DOMAIN uri = Thread /\ DOMAIN meant = Thread
    /\ \A t \in Thread : pc[t] = "asked" => LinkRead(meant[t], uri[t])

LEMMA ConfigRead ==
    LinkRead(Want("mcr-config", <<>>, <<>>, <<>>), uri_decode(<<"mcr-config">>))
<1> DEFINE u == <<"mcr-config">>
<1>1. u \in Seq({"mcr-config"}) /\ Len(u) = 1 /\ u[1] = "mcr-config" /\ Head(u) = "mcr-config"
  OBVIOUS
<1> HIDE DEF u
<1>2. uri_decode(u) = u
  <2>1. \A i \in 1 .. Len(u) : u[i] \notin {"%", "+"}
    BY <1>1
  <2> QED BY <1>1, <2>1, DecodePlain
<1>3. \A w : Found(u, w) = {}
  BY <1>1 DEF Found
<1>4. Param(u, "addr") = <<>> /\ Port(u) = <<>> /\ Param(u, "key") = <<>>
  BY <1>3 DEF Param, Port
<1>5. Parsed(u) = Want("mcr-config", <<>>, <<>>, <<>>)
  BY <1>1, <1>4 DEF Parsed, Want
<1>6. Want("mcr-config", <<>>, <<>>, <<>>).key \in Seq(STRING) /\ Sensible(Parsed(u))
  BY <1>5 DEF Want, Sensible
<1> QED BY <1>2, <1>5, <1>6 DEF LinkRead, u

LEMMA AboutRead ==
    ASSUME NEW i \in Instances, NEW name \in {"mcr-enable", "mcr-disable", "top-keys-all"}
    PROVE  LinkRead(Want(name, <<i.addr>>, i.port, <<>>),
                    uri_decode(Link(name, AddrPort(i.addr, i.port))))
<1> DEFINE r == Want(name, <<i.addr>>, i.port, <<>>)
           u == uri_decode(Link(name, AddrPort(i.addr, i.port)))
<1>1. i.addr \in Addr /\ i.port \in Seq(Decimal)
  BY ReporterAssumption DEF Endpoint
<1>2. Unmarked(name) /\ Unmarked(i.addr)
  BY <1>1, NamesUnmarked
<1>3. Parsed(u) = r
  BY <1>1, <1>2, InstanceLinkRead DEF Want
<1>4. r.key \in Seq(STRING) /\ Sensible(r)
  BY DEF Want, Sensible
<1> HIDE DEF r, u
<1>5. LinkRead(r, u)
  BY <1>3, <1>4 DEF LinkRead
<1> QED BY <1>5 DEF r, u

LEMMA ClientsRead ==
    ASSUME NEW i \in Instances, NEW key \in Keys
    PROVE  LinkRead(Want("top-clients-ops", <<i.addr>>, i.port, key),
                    uri_decode(key_href("top-clients-ops", i.addr, i.port, key)))
<1> DEFINE r == Want("top-clients-ops", <<i.addr>>, i.port, key)
           u == uri_decode(key_href("top-clients-ops", i.addr, i.port, key))
<1>1. i.addr \in Addr /\ i.port \in Seq(Decimal) /\ key \in Seq(STRING)
  BY ReporterAssumption DEF Endpoint
<1>2. Unmarked("top-clients-ops") /\ Unmarked(i.addr)
  BY <1>1, NamesUnmarked
<1>3. r.key = key
  BY DEF Want
<1>4. Plain(key) => Parsed(u) = r
  BY <1>1, <1>2, KeyLinkRead DEF Want
<1>5. ASSUME \A k \in Keys : "addr" \notin Range(k) PROVE Sensible(Parsed(u))
  <2>1. "addr" \notin Range(key)
    BY <1>5
  <2>2. /\ Parsed(u).page = "top-clients-ops" /\ Parsed(u).addr = <<i.addr>>
        /\ Parsed(u).port \in Seq(Decimal)
    BY <1>1, <1>2, <2>1, AnyKeyLink
  <2> HIDE DEF u
  <2> QED BY <1>1, <2>2 DEF Sensible
<1> HIDE DEF r, u
<1>6. LinkRead(r, u)
  BY <1>1, <1>3, <1>4, <1>5 DEF LinkRead
<1> QED BY <1>6 DEF r, u

LEMMA AskRead ==
    ASSUME LinkInv, NEW t \in Thread, NEW want, NEW link, NEW proxy, Ask(t, want, link, proxy),
           LinkRead(want, uri_decode(link))
    PROVE  LinkInv'
<1>1. /\ pc' = [pc EXCEPT ![t] = "asked"] /\ meant' = [meant EXCEPT ![t] = want]
      /\ uri' = [uri EXCEPT ![t] = uri_decode(link)]
  BY DEF Ask, Goto
<1> QED BY <1>1 DEF LinkInv

\* Only a click makes a thread ask.
LEMMA ClientRead ==
    ASSUME LinkInv, NEW t \in Thread, Client(t)
    PROVE  LinkInv'
<1>0. DOMAIN pc = Thread
  BY DEF LinkInv
<1>1. ASSUME pc' = pc \/ (\E where : where # "asked" /\ pc' = [pc EXCEPT ![t] = where]),
             UNCHANGED <<uri, meant>>
      PROVE  LinkInv'
  BY <1>1 DEF LinkInv
<1>2. ASSUME NEW a, Answer(t, a), UNCHANGED <<uri, meant>> PROVE LinkInv'
  BY <1>1, <1>2 DEF Answer, Goto
<1> USE DEF Goto, static, request, page, locals, history
<1>3. CASE ReporterCallback(t)
  <2>1. /\ pc' = [pc EXCEPT ![t] = "answered"] \/ pc' = [pc EXCEPT ![t] = "clear"]
        /\ uri' = [uri EXCEPT ![t] = <<>>] /\ meant' = [meant EXCEPT ![t] = NoReq]
    BY <1>3 DEF ReporterCallback, Answer
  <2> QED BY <2>1 DEF LinkInv
<1>4. CASE ClearMcr(t) \/ TestMcr(t) \/ FamilyOfMcr(t) \/ PortOfMcr(t)
  BY <1>1, <1>4 DEF ClearMcr, TestMcr, FamilyOfMcr, PortOfMcr, SetMcr
<1>5. CASE CopyMcr(t)
  BY <1>1, <1>5 DEF CopyMcr
<1>6. CASE LookUp(t) \/ TrimName(t) \/ DupName(t)
  BY <1>1, <1>6 DEF LookUp, TrimName, DupName, Named
<1>7. CASE PassOver(t) \/ AfterTitle(t) \/ AfterReply(t)
  BY <1>1, <1>7 DEF PassOver, AfterTitle, AfterReply
<1>8. CASE Connect(t)
  BY <1>1, <1>2, <1>8 DEF Connect
<1>9. CASE ShowInstances(t)
  BY <1>1, <1>9 DEF ShowInstances, Sent
<1>10. CASE ShowTop(t)
  <2>1. UNCHANGED <<uri, meant>> /\ (pc' = [pc EXCEPT ![t] = "list"] \/ Answer(t, Sorry))
    BY <1>10 DEF ShowTop, Sent
  <2> QED BY <1>1, <1>2, <2>1
<1>11. CASE InstanceOp(t) \/ PrintPage(t)
  <2>1. UNCHANGED <<uri, meant>> /\ \E a : Answer(t, a)
    BY <1>11 DEF InstanceOp, PrintPage
  <2> QED BY <1>2, <2>1
<1> QED BY <1>3, <1>4, <1>5, <1>6, <1>7, <1>8, <1>9, <1>10, <1>11
        DEF Client, GetAddr, Addr2Host, Query

\* What reporterCallback is about to read of a uri is what the clicked link was made of.
THEOREM LinkInvHolds == Spec => []LinkInv
<1>1. Init => LinkInv
  BY DEF Init, LinkInv
<1>2. LinkInv /\ [Next]_vars => LinkInv'
  <2> SUFFICES ASSUME LinkInv, [Next]_vars PROVE LinkInv'
    OBVIOUS
  <2>1. CASE UNCHANGED vars
    BY <2>1 DEF vars, request, LinkInv
  <2>2. ASSUME NEW t \in Thread, AskConfig(t) PROVE LinkInv'
    <3>1. PICK p \in 1 .. Len(Proxies) :
             Ask(t, Want("mcr-config", <<>>, <<>>, <<>>), <<"mcr-config">>, Proxies[p])
      BY <2>2 DEF AskConfig
    <3> QED BY <3>1, ConfigRead, AskRead
  <2>3. ASSUME NEW t \in Thread, AskAbout(t) PROVE LinkInv'
    <3>1. PICK i \in Instances, name \in {"mcr-enable", "mcr-disable", "top-keys-all"} :
             Ask(t, Want(name, <<i.addr>>, i.port, <<>>), Link(name, AddrPort(i.addr, i.port)),
                 Proxies[1])
      BY <2>3 DEF AskAbout
    <3> QED BY <3>1, AboutRead, AskRead
  <2>4. ASSUME NEW t \in Thread, AskClients(t) PROVE LinkInv'
    <3>1. PICK i \in Instances, key \in Keys :
             Ask(t, Want("top-clients-ops", <<i.addr>>, i.port, key),
                 key_href("top-clients-ops", i.addr, i.port, key), Proxies[1])
      BY <2>4 DEF AskClients
    <3> QED BY <3>1, ClientsRead, AskRead
  <2> QED BY <2>1, <2>2, <2>3, <2>4, ClientRead DEF Next
<1> QED BY <1>1, <1>2, PTL DEF Spec

\* A link of the pages leads to what it stands for, if its key is plain.
THEOREM LinksFollowed == Spec => []LinkFollowed
<1>1. LinkInv => LinkFollowed
  BY DEF LinkInv, LinkRead, LinkFollowed
<1> QED BY <1>1, LinkInvHolds, PTL

\* Every key a thread asks about comes back from uri_encode and uri_decode, whatever
\* characters it has.
THEOREM KeysComeBack == Spec => []CodecInverse
<1>1. LinkInv => CodecInverse
  <2> SUFFICES ASSUME LinkInv, NEW t \in Thread, pc[t] = "asked"
               PROVE  uri_decode(uri_encode(meant[t].key)) = meant[t].key
    BY DEF CodecInverse
  <2>1. meant[t].key \in Seq(STRING)
    BY DEF LinkInv, LinkRead
  <2> QED BY <2>1, RoundTrip
<1> QED BY <1>1, LinkInvHolds, PTL

-----------------------------------------------------------------------------
(* Types *)

SharedTypes ==
    /\ mcr \subseteq Fields /\ reporting \subseteq Instances /\ asked \in 0 .. MaxAsk
    /\ {hostent, hostname} \subseteq Range(Name) \cup {""}

\* A list holds addresses and ports, and what a thread works on makes sense.
LocalTypes(t) ==
    /\ dest[t] \subseteq Fields /\ own[t] \in Addr
    /\ todo[t] \in Seq(Endpoint) /\ rows[t] \in Seq(Row)
    /\ stage[t] \in {"title", "reply", "proxies"}
    /\ pc[t] \notin {"idle", "asked", "answered"} => Sensible(req[t])

\* The first entry of a list has an address, and a name is looked up for it.
LEMMA EntryType ==
    ASSUME NEW t \in Thread, LocalTypes(t), todo[t] # <<>>
    PROVE  /\ Entry(t) \in Endpoint /\ Entry(t).addr \in Addr /\ Entry(t).port \in Seq(Decimal)
           /\ Name[Entry(t).addr] \in Range(Name)
           /\ Tail(todo[t]) \in Seq(Endpoint)
<1>1. Entry(t) \in Endpoint /\ Tail(todo[t]) \in Seq(Endpoint)
  BY HeadTailProperties DEF LocalTypes, Entry
<1>2. Entry(t).addr \in Addr /\ Entry(t).port \in Seq(Decimal)
  BY <1>1 DEF Endpoint
<1>3. Name[Entry(t).addr] \in Range(Name)
  BY <1>2 DEF Addr, Range
<1> QED BY <1>1, <1>2, <1>3

\* The instance the reporter is told of is one it may report on.
LEMMA TargetType ==
    ASSUME NEW t \in Thread, req[t].page \in {"mcr-enable", "mcr-disable"}, Sensible(req[t])
    PROVE  Target(t) \in Instances
<1>1. PICK i \in Instances : req[t].addr = <<i.addr>> /\ req[t].port = i.port
  BY DEF Sensible
<1>2. i \in Endpoint
  BY ReporterAssumption
<1>3. i = [addr |-> i.addr, port |-> i.port]
  BY <1>2 DEF Endpoint
<1>4. Target(t) = [addr |-> i.addr, port |-> i.port]
  BY <1>1 DEF Target
<1> QED BY <1>3, <1>4

LEMMA SharedStep ==
    ASSUME Shape, SharedTypes, NEW t \in Thread, LocalTypes(t), Step(t)
    PROVE  SharedTypes'
<1> USE DEF static, request, page, locals, history
<1>1. ASSUME UNCHANGED <<static, reporting, asked>> PROVE SharedTypes'
  BY <1>1 DEF SharedTypes
<1>2. CASE Asking(t)
  <2>1. asked' = asked + 1 /\ asked < MaxAsk /\ UNCHANGED <<static, reporting>>
    BY <1>2 DEF Asking, Ask, MayAsk
  <2>2. asked' \in 0 .. MaxAsk
    <3>1. MaxAsk \in Nat
      BY ReporterAssumption
    <3>2. asked \in 0 .. MaxAsk
      BY DEF SharedTypes
    <3>3. asked' = asked + 1 /\ asked < MaxAsk
      BY <2>1
    <3> QED BY <3>1, <3>2, <3>3
  <2> QED BY <2>1, <2>2 DEF SharedTypes
<1>3. CASE ClearMcr(t) \/ TestMcr(t) \/ FamilyOfMcr(t) \/ PortOfMcr(t)
  <2>1. UNCHANGED <<hostent, hostname, reporting, asked>>
    BY <1>3 DEF ClearMcr, TestMcr, FamilyOfMcr, PortOfMcr, SetMcr
  <2>2. mcr' \in {{}, {"addr"}, mcr, mcr \cup {"family"}, mcr \cup {"port"}}
    BY <1>3 DEF ClearMcr, TestMcr, FamilyOfMcr, PortOfMcr, SetMcr
  <2> QED BY <2>1, <2>2 DEF SharedTypes, Fields
<1>4. CASE LookUp(t)
  <2>1. UNCHANGED <<mcr, hostname, reporting, asked>> /\ todo[t] # <<>>
    BY <1>4 DEF LookUp, AtList
  <2>2. hostent' = hostent \/ hostent' = Name[Entry(t).addr]
    BY <1>4 DEF LookUp
  <2> QED BY <2>1, <2>2, EntryType DEF SharedTypes
<1>5. CASE TrimName(t)
  BY <1>5 DEF TrimName, SharedTypes
<1>6. CASE InstanceOp(t)
  <2>1. UNCHANGED <<static, asked>> /\ (Operate(t) \/ Refuse)
    BY <1>6 DEF InstanceOp
  <2>2. Target(t) \in Instances
    <3>1. req[t].page \in {"mcr-enable", "mcr-disable"} /\ Sensible(req[t])
      BY <1>6 DEF InstanceOp, LocalTypes
    <3> QED BY <3>1, TargetType
  <2>3. reporting' \in {reporting, reporting \cup {Target(t)}, reporting \ {Target(t)}}
    BY <2>1 DEF Operate, Refuse
  <2> QED BY <2>1, <2>2, <2>3 DEF SharedTypes
<1>7. CASE \/ ReporterCallback(t) \/ CopyMcr(t) \/ DupName(t) \/ PassOver(t) \/ Connect(t)
           \/ AfterTitle(t) \/ AfterReply(t) \/ PrintPage(t)
  BY <1>1, <1>7 DEF ReporterCallback, CopyMcr, DupName, PassOver, Connect, AfterTitle, AfterReply,
     PrintPage
<1>8. CASE ShowInstances(t) \/ ShowTop(t)
  BY <1>1, <1>8 DEF ShowInstances, ShowTop, Sent
<1> QED BY <1>2, <1>3, <1>4, <1>5, <1>6, <1>7, <1>8 DEF Step, Client, GetAddr, Addr2Host, Query

LEMMA LocalStep ==
    ASSUME Shape, SharedTypes, LinkInv, \A key \in Keys : "addr" \notin Range(key),
           NEW t \in Thread, LocalTypes(t), Step(t)
    PROVE  LocalTypes(t)'
<1> USE DEF Domains, Goto, static, request, page, locals, history
<1>0. Domains /\ (pc[t] \in {"trim", "dup"} => todo[t] # <<>>)
  BY DEF Shape
<1>1. ASSUME NEW a, Answer(t, a), own' = own PROVE LocalTypes(t)'
  <2>1. /\ pc'[t] = "answered" /\ dest'[t] = {} /\ todo'[t] = <<>> /\ rows'[t] = <<>>
        /\ stage'[t] = "title"
    BY <1>0, <1>1 DEF Answer
  <2> QED BY <1>1, <2>1 DEF LocalTypes
<1>2. ASSUME UNCHANGED <<own, req>>, dest'[t] \subseteq Fields, todo'[t] \in Seq(Endpoint),
             rows'[t] \in Seq(Row), stage'[t] \in {"title", "reply", "proxies"},
             pc[t] \notin {"idle", "asked", "answered"}
      PROVE  LocalTypes(t)'
  BY <1>2 DEF LocalTypes
<1>3. /\ dest[t] \subseteq Fields /\ todo[t] \in Seq(Endpoint) /\ rows[t] \in Seq(Row)
      /\ stage[t] \in {"title", "reply", "proxies"}
  BY DEF LocalTypes
<1>4. CASE Asking(t)
  <2>1. PICK p \in 1 .. Len(Proxies) : own'[t] = Proxies[p].addr
    BY <1>0, <1>4 DEF Asking, Ask
  <2>2. own'[t] \in Addr
    BY <2>1, FirstProxy DEF Endpoint
  <2>3. pc'[t] = "asked" /\ UNCHANGED locals
    BY <1>0, <1>4 DEF Asking, Ask
  <2> QED BY <2>2, <2>3 DEF LocalTypes
<1>5. CASE ReporterCallback(t)
  <2>1. own' = own /\ pc[t] = "asked"
    BY <1>5 DEF ReporterCallback
  <2>2. Sensible(req'[t])
    <3>1. Sensible(Parsed(uri[t]))
      BY <2>1 DEF LinkInv, LinkRead
    <3>2. /\ req'[t].page = Parsed(uri[t]).page /\ req'[t].addr = Parsed(uri[t]).addr
          /\ req'[t].port = Parsed(uri[t]).port
      BY <1>0, <1>5 DEF ReporterCallback
    <3> QED BY <3>1, <3>2 DEF Sensible
  <2>3. CASE Answer(t, Sorry)
    BY <1>1, <2>1, <2>3
  <2>4. CASE UNCHANGED locals
    BY <2>1, <2>2, <2>4 DEF LocalTypes
  <2> QED BY <1>5, <2>3, <2>4 DEF ReporterCallback
<1>6. CASE ClearMcr(t) \/ TestMcr(t) \/ FamilyOfMcr(t) \/ PortOfMcr(t)
  <2>1. UNCHANGED <<own, req, dest, page>> /\ pc[t] \in {"clear", "test", "family", "port"}
    BY <1>6 DEF ClearMcr, TestMcr, FamilyOfMcr, PortOfMcr, SetMcr
  <2> QED BY <1>2, <1>3, <2>1
<1>7. CASE CopyMcr(t)
  <2>1. dest'[t] = mcr /\ UNCHANGED <<own, req, rows, stage>> /\ pc[t] = "copy"
    BY <1>0, <1>7 DEF CopyMcr
  <2>2. CASE req[t].page \in {"top-keys-all", "top-clients-ops"}
    <3>1. todo'[t] = <<[addr |-> req[t].addr[1], port |-> req[t].port]>>
      BY <1>0, <1>7, <2>2 DEF CopyMcr
    <3>2. \E a \in Addr : req[t].addr = <<a>> /\ req[t].port \in Seq(Decimal)
      <4>1. Sensible(req[t])
        BY <2>1 DEF LocalTypes
      <4>2. \A i \in Instances : i.addr \in Addr /\ i.port \in Seq(Decimal)
        BY ReporterAssumption DEF Endpoint
      <4> QED BY <2>2, <4>1, <4>2 DEF Sensible
    <3>3. [addr |-> req[t].addr[1], port |-> req[t].port] \in Endpoint
      BY <3>2 DEF Endpoint
    <3>4. todo'[t] \in Seq(Endpoint)
      BY <3>1, <3>3
    <3>5. rows'[t] = rows[t] /\ stage'[t] = stage[t] /\ mcr \subseteq Fields
      BY <2>1 DEF SharedTypes
    <3> QED BY <1>2, <1>3, <2>1, <3>4, <3>5
  <2>3. CASE req[t].page \notin {"top-keys-all", "top-clients-ops"}
    <3>1. todo' = todo
      BY <1>7, <2>3 DEF CopyMcr
    <3> QED BY <1>2, <1>3, <2>1, <3>1 DEF SharedTypes
  <2> QED BY <2>2, <2>3
<1>8. ASSUME NEW name \in Addr \cup Range(Name) \cup {""}, Named(t, name), todo[t] # <<>>,
             UNCHANGED <<own, req, dest, stage>>, pc[t] \notin {"idle", "asked", "answered"}
      PROVE  LocalTypes(t)'
  <2> DEFINE r == [addr |-> Entry(t).addr, port |-> Entry(t).port, host |-> name,
                   on |-> stage[t] = "reply"]
  <2>1. rows'[t] = Append(rows[t], r) /\ todo'[t] = Tail(todo[t])
    BY <1>0, <1>8 DEF Named
  <2>2. r \in Row
    BY <1>8, EntryType DEF Row
  <2>3. todo'[t] \in Seq(Endpoint)
    BY <1>8, <2>1, EntryType
  <2> HIDE DEF r
  <2>4. rows'[t] \in Seq(Row)
    <3>1. Append(rows[t], r) \in Seq(Row)
      BY <1>3, <2>2, AppendProperties
    <3> QED BY <2>1, <3>1
  <2> QED BY <1>2, <1>3, <1>8, <2>3, <2>4
<1>9. CASE LookUp(t)
  <2>1. pc[t] = "list" /\ todo[t] # <<>> /\ UNCHANGED <<own, req, dest, stage>>
    BY <1>9 DEF LookUp, AtList
  <2>2. CASE Named(t, Entry(t).addr)
    BY <1>8, <2>1, <2>2, EntryType
  <2>3. CASE UNCHANGED <<todo, rows>>
    BY <1>2, <1>3, <2>1, <2>3
  <2> QED BY <1>9, <2>2, <2>3 DEF LookUp
<1>10. CASE TrimName(t)
  BY <1>2, <1>3, <1>10 DEF TrimName
<1>11. CASE DupName(t)
  <2>1. pc[t] = "dup" /\ Named(t, hostname) /\ UNCHANGED <<own, req, dest, stage>>
    BY <1>11 DEF DupName
  <2>2. hostname \in Addr \cup Range(Name) \cup {""}
    BY DEF SharedTypes
  <2> QED BY <1>0, <1>8, <2>1, <2>2
<1>12. CASE PassOver(t)
  <2>1. /\ pc[t] = "list" /\ todo[t] # <<>> /\ UNCHANGED <<own, req, dest, rows, stage>>
        /\ todo'[t] = Tail(todo[t])
    BY <1>0, <1>12 DEF PassOver, AtList
  <2> QED BY <1>2, <1>3, <2>1, EntryType
<1>13. CASE Connect(t)
  <2>1. own' = own /\ req' = req /\ pc[t] = "connect"
    BY <1>13 DEF Connect
  <2>2. Answer(t, Sorry) \/ UNCHANGED locals
    BY <1>13 DEF Connect
  <2> QED BY <1>1, <1>2, <1>3, <2>1, <2>2
<1>14. ASSUME NEW what, NEW list, NEW read \in Seq(Endpoint), Sent(t, what, list, read),
              pc[t] = "exchange"
       PROVE  LocalTypes(t)'
  <2>1. /\ UNCHANGED <<own, req, dest>> /\ todo'[t] = read /\ rows'[t] = <<>>
        /\ stage'[t] = "reply"
    BY <1>0, <1>14 DEF Sent
  <2> QED BY <1>2, <1>3, <1>14, <2>1
<1>15. CASE ShowInstances(t)
  <2>1. IsFiniteSet(reporting) /\ reporting \subseteq Endpoint
    BY ReporterAssumption DEF Shape, SharedTypes
  <2>2. SetToSeq(reporting) \in Seq(reporting)
    BY <2>1, Enumerated
  <2>3. \A n \in 0 .. Len(SetToSeq(reporting)) - 1 :
           SubSeq(SetToSeq(reporting), 1, n) \in Seq(reporting)
    BY <2>1, <2>2, Enumerated, SubSeqProperties
  <2>4. Seq(reporting) \subseteq Seq(Endpoint) /\ <<>> \in Seq(Endpoint)
    BY <2>1, SeqMonotonic
  <2>5. \E what, list : \E read \in Seq(Endpoint) : Sent(t, what, list, read)
    BY <1>15, <2>2, <2>3, <2>4 DEF ShowInstances
  <2> QED BY <1>14, <1>15, <2>5 DEF ShowInstances
<1>16. CASE ShowTop(t)
  <2> DEFINE c == SetToSeq(Clients)
             names == [i \in 1 .. Len(c) |-> [addr |-> c[i], port |-> <<"1">>]]
             all == IF req[t].page = "top-keys-all" THEN <<>> ELSE names
  <2>1. Len(c) \in Nat /\ \A i \in 1 .. Len(c) : c[i] \in Addr
    BY Enumerated, ReporterAssumption
  <2>2. <<"1">> \in Seq(Decimal)
    <3>1. HexDigits[2] = "1" /\ 2 \in 1 .. 10
      BY DEF HexDigits
    <3>2. "1" \in Decimal
      BY <3>1 DEF Decimal
    <3> QED BY <3>2
  <2>3. names \in Seq(Endpoint)
    <3>1. \A i \in 1 .. Len(c) : [addr |-> c[i], port |-> <<"1">>] \in Endpoint
      BY <2>1, <2>2 DEF Endpoint
    <3> HIDE DEF c
    <3> QED BY <2>1, <3>1, SeqDef
  <2>4. all \in Seq(Endpoint) /\ <<>> \in Seq(Endpoint)
    <3> HIDE DEF names
    <3> QED BY <2>3
  <2>5. \A n \in 0 .. Len(all) - 1 : SubSeq(all, 1, n) \in Seq(Endpoint)
    <3> HIDE DEF all
    <3> QED BY <2>4, LenProperties, SubSeqProperties
  <2>7. \/ \E what : \E read \in Seq(Endpoint) : Sent(t, what, {}, read)
        \/ Answer(t, Sorry) /\ own' = own
    <3>1. \/ Sent(t, "all", {}, IF Connected(t) THEN all ELSE <<>>)
          \/ \E n \in 0 .. Len(all) - 1 : Sent(t, "part", {}, SubSeq(all, 1, n))
          \/ Answer(t, Sorry) /\ own' = own
      BY <1>16 DEF ShowTop
    <3> HIDE DEF all, names
    <3> QED BY <2>4, <2>5, <3>1
  <2>6. pc[t] = "exchange"
    BY <1>16 DEF ShowTop
  <2> HIDE DEF all, names
  <2> QED BY <1>1, <1>14, <2>6, <2>7
<1>17. CASE InstanceOp(t)
  BY <1>1, <1>17 DEF InstanceOp
<1>18. CASE AfterTitle(t)
  BY <1>2, <1>3, <1>18 DEF AfterTitle, AtEnd
<1>19. CASE AfterReply(t)
  <2>1. /\ UNCHANGED <<own, req, dest, rows>> /\ pc[t] = "list"
        /\ stage'[t] = "proxies" /\ todo'[t] = Proxies
    BY <1>0, <1>19 DEF AfterReply, AtEnd
  <2> QED BY <1>2, <1>3, <2>1, ReporterAssumption
<1>20. CASE PrintPage(t)
  BY <1>1, <1>20 DEF PrintPage
<1> QED
  BY <1>4, <1>5, <1>6, <1>7, <1>9, <1>10, <1>11, <1>12, <1>13, <1>15, <1>16, <1>17, <1>18, <1>19, <1>20
     DEF Step, Client, GetAddr, Addr2Host, Query

\* Every variable keeps its type, if no key gives an address: the name on a page of keys or
\* clients is looked up for whatever address the uri gives last, and a key with "addr=" in
\* it gives one (LinkFollowed says which keys are safe).
THEOREM TypesHold ==
    ASSUME \A key \in Keys : "addr" \notin Range(key)
    PROVE  Spec => []ReporterTypeOK
<1> DEFINE Types == SharedTypes /\ \A t \in Thread : LocalTypes(t)
<1>1. Init => Types
  <2> SUFFICES ASSUME Init PROVE Types
    OBVIOUS
  <2>1. SharedTypes
    <3>1. 0 \in 0 .. MaxAsk
      BY ReporterAssumption
    <3> QED BY <3>1 DEF Init, SharedTypes
  <2>2. ASSUME NEW t \in Thread PROVE LocalTypes(t)
    <3>1. /\ pc[t] = "idle" /\ own[t] = Proxies[1].addr /\ dest[t] = {} /\ todo[t] = <<>>
          /\ rows[t] = <<>> /\ stage[t] = "title"
      BY DEF Init
    <3> QED BY <3>1, FirstProxy DEF LocalTypes, Endpoint
  <2> QED BY <2>1, <2>2
<1>2. Shape /\ LinkInv /\ Types /\ [Next]_vars => Types'
  <2> SUFFICES ASSUME Shape, LinkInv, Types, [Next]_vars PROVE Types'
    OBVIOUS
  <2>1. ASSUME NEW u \in Thread, SameAt(u), LocalTypes(u) PROVE LocalTypes(u)'
    BY <2>1 DEF SameAt, LocalTypes
  <2>2. CASE UNCHANGED vars
    <3>1. \A u \in Thread : SameAt(u)
      BY <2>2 DEF vars, static, request, page, history, SameAt
    <3>2. SharedTypes'
      BY <2>2 DEF vars, static, SharedTypes
    <3> QED BY <2>1, <3>1, <3>2
  <2>3. ASSUME NEW t \in Thread, Step(t) PROVE Types'
    <3>1. \A u \in Thread \ {t} : SameAt(u)
      BY <2>3, OthersSame DEF Shape
    <3>2. SharedTypes' /\ LocalTypes(t)'
      BY <2>3, SharedStep, LocalStep
    <3> QED BY <2>1, <3>1, <3>2
  <2> QED BY <2>2, <2>3, NextSteps
<1>3. Shape /\ Types => ReporterTypeOK
  BY DEF Shape, SharedTypes, LocalTypes, ReporterTypeOK
<1> HIDE DEF Types
<1> QED BY <1>1, <1>2, <1>3, ShapeHolds, LinkInvHolds, PTL DEF Spec
=============================================================================
