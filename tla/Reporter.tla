------------------------------- MODULE Reporter -------------------------------
(***************************************************************************)
(* The pages of memcache reporter: reporterCallback of statsproxy.c and    *)
(* the queries of mcr_web.c, one thread per client.  The threads share two *)
(* static buffers without a lock: the address that mcr_getAddr clears and  *)
(* fills, and the name in addr2host, "single threaded!" by its comment,    *)
(* with the result of gethostbyaddr behind it.  The reporter is another    *)
(* process, and what it reports on is changed by these pages too.          *)
(*                                                                         *)
(* Sockets and descriptors are in Frontend.  A copy of a name is one step, *)
(* and an end of file falls between two lines of the reporter's list.      *)
(***************************************************************************)
EXTENDS UriCodec

CONSTANTS
    Thread,
    Proxies,    \* config->proxies: the addresses and ports of the back ends
    Instances,  \* what the reporter may report on
    Clients,    \* addresses it has seen as clients of memcached
    Name,       \* names of addresses; "none" if gethostbyaddr finds none
    Keys,       \* keys it has seen
    MaxAsk,     \* requests (bound)
    Fault       \* what may go wrong: "noreporter", "error", "eof"

Addr     == DOMAIN Name
Endpoint == [addr : Addr, port : Seq(Decimal)]

ASSUME ReporterAssumption ==
    /\ Proxies \in Seq(Endpoint) /\ Proxies # <<>>
    /\ Instances \subseteq Endpoint /\ IsFiniteSet(Instances)
    /\ Clients \subseteq Addr /\ IsFiniteSet(Clients) /\ MaxAsk \in Nat
    /\ Keys \subseteq Seq(STRING)
    \* inet_ntoa makes digits and dots
    /\ Addr \cap (Reserved \cup {"addr", "port", "key"}) = {}

VARIABLES
    mcr,        \* the static address: which of its fields are set
    hostent,    \* the result of gethostbyaddr
    hostname,   \* the static name
    reporting,  \* the instances the reporter reports on
    asked,      \* requests so far
    pc, own,    \* a thread: where it is, its back end's address,
    uri, req,   \*   its uri, decoded, and what reporterCallback makes of it,
    dest,       \*   its copy of mcr,
    todo, rows, \*   the list it goes through and the list it makes,
    stage,      \*   what the first one is,
    answer,     \*   the answer;
    meant,      \* (history) what the link stands for
    shown,      \* (history) what the reporter sent it
    did,        \* (history) the reporter did what it asked
    crossed     \* (history) another thread wrote to a buffer while it used it

static  == <<mcr, hostent, hostname>>
request == <<uri, req, own, meant>>
page    == <<todo, rows, stage>>
locals  == <<dest, page>>
history == <<shown, did, crossed>>
vars    == <<static, reporting, asked, pc, request, dest, page, answer, history>>

Fields == {"addr", "family", "port"}
None   == [what |-> "none"]
NoReq  == [page |-> "none"]
Nothing == [what |-> "nothing", list |-> {}]

Init ==
    /\ mcr = {} /\ hostent = "" /\ hostname = ""
    /\ reporting \in SUBSET Instances /\ asked = 0
    /\ pc = [t \in Thread |-> "idle"] /\ own = [t \in Thread |-> Proxies[1].addr]
    /\ uri = [t \in Thread |-> <<>>]
    /\ req = [t \in Thread |-> NoReq] /\ meant = [t \in Thread |-> NoReq]
    /\ dest = [t \in Thread |-> {}]
    /\ todo = [t \in Thread |-> <<>>] /\ rows = [t \in Thread |-> <<>>]
    /\ stage = [t \in Thread |-> "title"] /\ answer = [t \in Thread |-> None]
    /\ shown = [t \in Thread |-> Nothing]
    /\ did = [t \in Thread |-> FALSE] /\ crossed = [t \in Thread |-> FALSE]

Goto(t, where) == pc' = [pc EXCEPT ![t] = where]

\* a write to a buffer that the threads at these places are using
Crosses(t, places) ==
    crossed' = [u \in Thread |-> crossed[u] \/ (u # t /\ pc[u] \in places)]

-----------------------------------------------------------------------------
(* Requests *)

Want(name, addr, port, key) == [page |-> name, addr |-> addr, port |-> port, key |-> key]

MayAsk(t) == pc[t] \in {"idle", "answered"} /\ asked < MaxAsk

\* a click on a link of one of these pages, on a connection to a proxy; only the
\* configuration page looks at which
Ask(t, want, link, proxy) ==
    /\ asked' = asked + 1
    /\ meant' = [meant EXCEPT ![t] = want]
    /\ uri' = [uri EXCEPT ![t] = uri_decode(link)]
    /\ own' = [own EXCEPT ![t] = proxy.addr]
    /\ Goto(t, "asked")
    /\ req' = [req EXCEPT ![t] = NoReq] /\ answer' = [answer EXCEPT ![t] = None]
    /\ shown' = [shown EXCEPT ![t] = Nothing]
    /\ did' = [did EXCEPT ![t] = FALSE] /\ crossed' = [crossed EXCEPT ![t] = FALSE]
    /\ UNCHANGED <<static, reporting, locals>>

AskConfig(t) ==
    /\ MayAsk(t)
    /\ \E p \in 1 .. Len(Proxies) :
           Ask(t, Want("mcr-config", <<>>, <<>>, <<>>), <<"mcr-config">>, Proxies[p])

AskAbout(t) ==
    /\ MayAsk(t)
    /\ \E i \in Instances, name \in {"mcr-enable", "mcr-disable", "top-keys-all"} :
           Ask(t, Want(name, <<i.addr>>, i.port, <<>>), Link(name, AddrPort(i.addr, i.port)), Proxies[1])

AskClients(t) ==
    /\ MayAsk(t)
    /\ \E i \in Instances, key \in Keys :
           Ask(t, Want("top-clients-ops", <<i.addr>>, i.port, key),
               key_href("top-clients-ops", i.addr, i.port, key), Proxies[1])

\* the thread is done with its locals
Answer(t, a) ==
    /\ answer' = [answer EXCEPT ![t] = a] /\ Goto(t, "answered")
    /\ dest' = [dest EXCEPT ![t] = {}]
    /\ todo' = [todo EXCEPT ![t] = <<>>] /\ rows' = [rows EXCEPT ![t] = <<>>]
    /\ stage' = [stage EXCEPT ![t] = "title"]
Sorry == [what |-> "sorry"]

\* the parameters are read wherever they stand; what is asked about a key is not modelled
ReporterCallback(t) ==
    /\ pc[t] = "asked"
    /\ LET r == Parsed(uri[t]) IN
          /\ req' = [req EXCEPT ![t] = [page |-> r.page, addr |-> r.addr, port |-> r.port]]
          /\ IF r.page # "mcr-config" /\ (r.addr = <<>> \/ r.port = <<>>)
             THEN Answer(t, Sorry) ELSE Goto(t, "clear") /\ UNCHANGED <<answer, locals>>
    /\ uri' = [uri EXCEPT ![t] = <<>>] /\ meant' = [meant EXCEPT ![t] = NoReq]
    /\ UNCHANGED <<static, reporting, asked, own, history>>

-----------------------------------------------------------------------------
(* mcr_getAddr *)

InGetAddr == {"test", "family", "port", "copy"}

SetMcr(t, from, fields, to) ==
    /\ pc[t] = from
    /\ mcr' = fields
    /\ Crosses(t, InGetAddr)
    /\ Goto(t, to)
    /\ UNCHANGED <<hostent, hostname, reporting, asked, request, dest, page, answer, shown, did>>

ClearMcr(t) == SetMcr(t, "clear", {}, "test")

\* mutant: only the time is looked at
TestMcrTime(t) ==
    \/ SetMcr(t, "test", {"addr"}, "family")
    \/ SetMcr(t, "test", mcr, "copy")

\* too old (the clock decides), or without a port: cleared again, then the address by
\* host2addr, which for "127.0.0.1" is a conversion
TestMcr(t) ==
    \/ SetMcr(t, "test", {"addr"}, "family")
    \/ "port" \in mcr /\ SetMcr(t, "test", mcr, "copy")

FamilyOfMcr(t) == SetMcr(t, "family", mcr \cup {"family"}, "port")
PortOfMcr(t)   == SetMcr(t, "port", mcr \cup {"port"}, "copy")

\* *mcrAddr = mcr; the pages of one instance begin with its name
CopyMcr(t) ==
    /\ pc[t] = "copy"
    /\ dest' = [dest EXCEPT ![t] = mcr]
    /\ IF req[t].page \in {"top-keys-all", "top-clients-ops"}
       THEN /\ todo' = [todo EXCEPT ![t] = <<[addr |-> req[t].addr[1], port |-> req[t].port]>>]
            /\ Goto(t, "list")
       ELSE Goto(t, "connect") /\ UNCHANGED todo
    /\ UNCHANGED <<static, reporting, asked, request, rows, stage, answer, history>>

GetAddr(t) == ClearMcr(t) \/ TestMcr(t) \/ FamilyOfMcr(t) \/ PortOfMcr(t) \/ CopyMcr(t)

-----------------------------------------------------------------------------
(* addr2host, for the first entry of the list at hand *)

AtList(t) == pc[t] = "list" /\ todo[t] # <<>>
Entry(t) == Head(todo[t])

\* mutant: an address counts as listed only with the same port
ListedByPort(t) ==
    \E i \in 1 .. Len(rows[t]) :
        rows[t][i].addr = Entry(t).addr /\ rows[t][i].port = Entry(t).port

\* isInList, which looks at the address alone
Listed(t) ==
    \E i \in 1 .. Len(rows[t]) : rows[t][i].addr = Entry(t).addr

\* "don't add dupes"
Passed(t) == stage[t] = "proxies" /\ Listed(t)

\* strdup of the name, and the new entry of the list
Named(t, name) ==
    /\ rows' = [rows EXCEPT ![t] = Append(@,
          [addr |-> Entry(t).addr, port |-> Entry(t).port, host |-> name,
           on |-> stage[t] = "reply"])]
    /\ todo' = [todo EXCEPT ![t] = Tail(@)]
    /\ Goto(t, "list")

\* mutant: the buffer is returned in any case
LookUpReturnsBuffer(t) ==
    /\ AtList(t) /\ ~Passed(t)
    /\ IF Name[Entry(t).addr] = "none"
       THEN Named(t, hostname) /\ UNCHANGED <<hostent, crossed>>
       ELSE /\ hostent' = Name[Entry(t).addr] /\ Crosses(t, {"trim"})
            /\ Goto(t, "trim") /\ UNCHANGED <<todo, rows>>
    /\ UNCHANGED <<mcr, hostname, reporting, asked, request, dest, stage, answer, shown, did>>

\* gethostbyaddr; without a name it is inet_ntoa, whose buffer is the thread's own
LookUp(t) ==
    /\ AtList(t) /\ ~Passed(t)
    /\ IF Name[Entry(t).addr] = "none"
       THEN Named(t, Entry(t).addr) /\ UNCHANGED <<hostent, crossed>>
       ELSE /\ hostent' = Name[Entry(t).addr] /\ Crosses(t, {"trim"})
            /\ Goto(t, "trim") /\ UNCHANGED <<todo, rows>>
    /\ UNCHANGED <<mcr, hostname, reporting, asked, request, dest, stage, answer, shown, did>>

\* strncpy into the static name
TrimName(t) ==
    /\ pc[t] = "trim"
    /\ hostname' = hostent
    /\ Crosses(t, {"dup"}) /\ Goto(t, "dup")
    /\ UNCHANGED <<mcr, hostent, reporting, asked, request, dest, page, answer, shown, did>>

DupName(t) ==
    /\ pc[t] = "dup"
    /\ Named(t, hostname)
    /\ UNCHANGED <<static, reporting, asked, request, dest, stage, answer, history>>

PassOver(t) ==
    /\ AtList(t) /\ Passed(t)
    /\ todo' = [todo EXCEPT ![t] = Tail(@)]
    /\ UNCHANGED <<static, reporting, asked, pc, request, dest, rows, stage, answer, history>>

Addr2Host(t) == LookUp(t) \/ TrimName(t) \/ DupName(t)

-----------------------------------------------------------------------------
(* The query *)

\* connect() to what was copied: any address there is this machine, port 0 is refused, and
\* without a family nothing is connected and no error returned
Connect(t) ==
    /\ pc[t] = "connect"
    /\ IF "family" \in dest[t] /\ "port" \notin dest[t] THEN Answer(t, Sorry)
       ELSE \/ Goto(t, "exchange") /\ UNCHANGED <<answer, locals>>
            \/ "noreporter" \in Fault /\ "family" \in dest[t] /\ Answer(t, Sorry)
    /\ UNCHANGED <<static, reporting, asked, request, history>>

Connected(t) == "family" \in dest[t]

\* the reporter sends list, and the thread reads this much of it as entries
Sent(t, what, list, read) ==
    /\ shown' = [shown EXCEPT ![t] = [what |-> what, list |-> list]]
    /\ todo' = [todo EXCEPT ![t] = read]
    /\ stage' = [stage EXCEPT ![t] = "reply"] /\ rows' = [rows EXCEPT ![t] = <<>>]
    /\ Goto(t, "list")
    /\ UNCHANGED <<static, reporting, asked, request, dest, answer, did, crossed>>

\* mcr_updateInstances: ERROR and an end of file end the list like END
ShowInstances(t) ==
    /\ pc[t] = "exchange" /\ req[t].page = "mcr-config"
    /\ LET all == SetToSeq(reporting) IN
       IF ~Connected(t) THEN Sent(t, "nothing", {}, <<>>)
       ELSE \/ Sent(t, "all", reporting, all)
            \/ "error" \in Fault /\ Sent(t, "error", {}, <<>>)
            \/ "eof" \in Fault /\ \E n \in 0 .. Len(all) - 1 :
                  Sent(t, "part", reporting, SubSeq(all, 1, n))

\* mcr_updateTopKeys and mcr_updateTopClients: ERROR is an error, an end of file ends the list
ShowTop(t) ==
    /\ pc[t] = "exchange" /\ req[t].page \in {"top-keys-all", "top-clients-ops"}
    /\ LET all == IF req[t].page = "top-keys-all" THEN <<>>
                  ELSE LET c == SetToSeq(Clients) IN
                       [i \in 1 .. Len(c) |-> [addr |-> c[i], port |-> <<"1">>]]
       IN \/ Sent(t, "all", {}, IF Connected(t) THEN all ELSE <<>>)
          \/ "eof" \in Fault /\ Connected(t) /\ \E n \in 0 .. Len(all) - 1 :
                Sent(t, "part", {}, SubSeq(all, 1, n))
          \/ /\ "error" \in Fault /\ Connected(t) /\ Answer(t, Sorry)
             /\ UNCHANGED <<static, reporting, asked, request, history>>

Target(t) == [addr |-> req[t].addr[1], port |-> req[t].port]

\* the reporter adds or deletes an instance
Operate(t) ==
    /\ reporting' = IF req[t].page = "mcr-enable" THEN reporting \cup {Target(t)}
                    ELSE reporting \ {Target(t)}
    /\ did' = [did EXCEPT ![t] = TRUE]

Refuse == UNCHANGED <<reporting, did>>

\* mutant: only an answer that is not END is an error
InstanceOpEndOfFile(t) ==
    /\ pc[t] = "exchange" /\ req[t].page \in {"mcr-enable", "mcr-disable"}
    /\ \/ Connected(t) /\ Operate(t) /\ Answer(t, [what |-> "redirect"])
       \/ Connected(t) /\ "error" \in Fault /\ Refuse /\ Answer(t, Sorry)
       \/ ~Connected(t) /\ Refuse /\ Answer(t, [what |-> "redirect"])
    /\ UNCHANGED <<static, asked, request, shown, crossed>>

\* mcr_instanceOp: END, another answer, or none, and then it may have been done or not
InstanceOp(t) ==
    /\ pc[t] = "exchange" /\ req[t].page \in {"mcr-enable", "mcr-disable"}
    /\ \/ Connected(t) /\ Operate(t) /\ Answer(t, [what |-> "redirect"])
       \/ Connected(t) /\ "error" \in Fault /\ Refuse /\ Answer(t, Sorry)
       \/ Connected(t) /\ "eof" \in Fault /\ (Operate(t) \/ Refuse) /\ Answer(t, Sorry)
       \/ ~Connected(t) /\ Refuse /\ Answer(t, Sorry)
    /\ UNCHANGED <<static, asked, request, shown, crossed>>

Query(t) == Connect(t) \/ ShowInstances(t) \/ ShowTop(t) \/ InstanceOp(t)

-----------------------------------------------------------------------------
(* The end of a list *)

AtEnd(t) == pc[t] = "list" /\ todo[t] = <<>>

\* the name of the instance is made, and the query follows
AfterTitle(t) ==
    /\ AtEnd(t) /\ stage[t] = "title" /\ Goto(t, "connect")
    /\ UNCHANGED <<static, reporting, asked, request, dest, page, answer, history>>

\* mcr_updateConfigedInstances
AfterReply(t) ==
    /\ AtEnd(t) /\ stage[t] = "reply" /\ req[t].page = "mcr-config"
    /\ stage' = [stage EXCEPT ![t] = "proxies"] /\ todo' = [todo EXCEPT ![t] = Proxies]
    /\ UNCHANGED <<static, reporting, asked, pc, request, dest, rows, answer, history>>

\* the rows by their place; of the instances only those at the back end's address are printed
Printed(t) ==
    {<<i, rows[t][i]>> : i \in {j \in 1 .. Len(rows[t]) :
                                    req[t].page = "mcr-config" => rows[t][j].addr = own[t]}}

PrintPage(t) ==
    /\ AtEnd(t) /\ stage[t] = IF req[t].page = "mcr-config" THEN "proxies" ELSE "reply"
    /\ Answer(t, [what |-> "report", rows |-> Printed(t)])
    /\ UNCHANGED <<static, reporting, asked, request, history>>

Client(t) ==
    \/ ReporterCallback(t) \/ GetAddr(t) \/ Addr2Host(t) \/ PassOver(t) \/ Query(t)
    \/ AfterTitle(t) \/ AfterReply(t) \/ PrintPage(t)

Next == \E t \in Thread : AskConfig(t) \/ AskAbout(t) \/ AskClients(t) \/ Client(t)

Spec == Init /\ [][Next]_vars

-----------------------------------------------------------------------------
(* Properties *)

Row == [addr : Addr, port : Seq(Decimal), host : Addr \cup Range(Name) \cup {""}, on : BOOLEAN]

\* Every variable has its type; an entry is on the way for a name only while its list is.
ReporterTypeOK ==
    /\ mcr \subseteq Fields /\ reporting \subseteq Instances /\ asked \in 0 .. MaxAsk
    /\ {hostent, hostname} \subseteq Range(Name) \cup {""}
    /\ \A t \in Thread :
          /\ dest[t] \subseteq Fields /\ own[t] \in Addr
          /\ rows[t] \in Seq(Row) /\ stage[t] \in {"title", "reply", "proxies"}
          /\ pc[t] \in {"trim", "dup"} => todo[t] # <<>>

\* A thread that nobody crosses in mcr_getAddr leaves it with a whole address, although
\* the function clears the cached one before it looks whether it may be used.
AddressWhole ==
    \A t \in Thread : pc[t] \in {"connect", "exchange"} /\ ~crossed[t] => dest[t] = Fields

\* A name belongs to its address, unless another thread looked a name up at the same
\* time (addr2host, "single threaded!").
NamesRight ==
    \A t \in Thread : ~crossed[t] => \A i \in 1 .. Len(rows[t]) :
        LET r == rows[t][i] IN r.host = IF Name[r.addr] = "none" THEN r.addr ELSE Name[r.addr]

\* "Found", the redirection after a click on enable or disable, means the reporter did it.
RedirectHonest ==
    \A t \in Thread : answer[t].what = "redirect" => did[t]

\* The configuration page shows as reporting exactly what the reporter listed of the back
\* end's address, if its whole list came, and never anything else; the back end shows as
\* off, once, if nothing of its address is on.
OnOf(t) == {r \in answer[t].rows : r[2].on}
PageTrue ==
    \A t \in Thread :
        answer[t].what = "report" /\ req[t].page = "mcr-config" =>
            LET on  == {[addr |-> r[2].addr, port |-> r[2].port] : r \in OnOf(t)}
                off == answer[t].rows \ OnOf(t)
                all == {i \in shown[t].list : i.addr = own[t]}
            IN /\ on \subseteq all
               /\ shown[t].what = "all" => on = all
               /\ Cardinality(off) = IF on = {} THEN 1 ELSE 0

\* A link on the page of keys leads to the clients of that very key of that instance, if
\* the key has no character that means something in a uri; so do the others.
LinkFollowed ==
    \A t \in Thread :
        pc[t] = "asked" /\ Plain(meant[t].key) => Parsed(uri[t]) = meant[t]

\* Every key survives uri_encode and uri_decode, which is what key_href and
\* handleFrontendRequest have them for.
CodecInverse ==
    \A t \in Thread : pc[t] = "asked" => uri_decode(uri_encode(meant[t].key)) = meant[t].key
=============================================================================
