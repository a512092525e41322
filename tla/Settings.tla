------------------------------- MODULE Settings -------------------------------
(***************************************************************************)
(* The configuration: the actions of the grammar in settings_parser.y, and *)
(* addProxy and backend_new of statsproxy.c, which they call.  One action  *)
(* is one statement of the file, in the order they stand there; what the   *)
(* file says is a choice.                                                  *)
(*                                                                         *)
(* settings->local is one record for all proxy-mappings.  A parse ends in  *)
(* three ways: the end of the file; YYABORT or YYERROR, after which        *)
(* yyparse returns 1 and main goes on; and exit(1), by yyerror or          *)
(* addProxy.                                                               *)
(***************************************************************************)
EXTENDS Integers, Sequences, SequencesExt

CONSTANTS
    Uris,       \* names a uri statement may have
    FrontEnds,  \* values of front-end: a host and the number after the colon
    BackEnds,   \* values of back-end
    Numbers,    \* values of the times, as sequences of characters
    Words,      \* values of memcache-reporter
    Host,       \* the hosts of the ends
    Address,    \* what host2addr may make of each, "none" if it may fail: a lookup is
                \* answered anew each time
    PortSpan,   \* values of a uint16_t: 2^16
    IntSpan,    \* values of an int: 2^32
    MsPerSec,   \* 1000
    Default,    \* DEFAULT_TIMEOUT_MS, DEFAULT_POLL_FREQ_MS, ...
    MaxUris,    \* uri statements in a file (bound)
    MaxLines,   \* statements in its proxy-mappings (bound)
    MaxProxies  \* proxy-mappings in a file (bound)

Times == {"timeout", "poll-interval", "webpage-refresh-interval"}

ASSUME SettingsAssumption ==
    /\ FrontEnds \subseteq Host \X Nat /\ BackEnds \subseteq Host \X Nat
    /\ Numbers \subseteq Seq(STRING)
    /\ DOMAIN Address = Host /\ \A h \in Host : Address[h] # {}
    /\ PortSpan \in Nat \ {0} /\ IntSpan \in Nat \ {0} /\ MsPerSec \in Nat \ {0}
    /\ Default \in [Times -> Nat \ {0}]
    /\ \A t \in Times : 2 * Default[t] < IntSpan
    /\ MaxUris \in Nat /\ MaxLines \in Nat /\ MaxProxies \in Nat

VARIABLES
    at,         \* where the parser is, or how it ended
    failed,     \* yyparse returned 1
    local,      \* settings->local
    uris,       \* settings->global.uris
    proxies,    \* settings->proxies
    wrote,      \* the times this mapping has given, 0 if it has not
    lines       \* the statements of mappings so far (for the bound)

config == <<at, failed, local, uris, proxies, wrote, lines>>

ParserAt == {"top", "mapping", "end", "exit"}

Nowhere == <<"none", 0>>

ConfigInit ==
    /\ at = "top" /\ failed = FALSE
    /\ local = [front |-> Nowhere, back |-> Nowhere, reporter |-> "none",
                times |-> [t \in Times |-> 0]]
    /\ uris = <<>> /\ proxies = <<>>
    /\ wrote = [t \in Times |-> 0] /\ lines = 0

-----------------------------------------------------------------------------
(* Numbers *)

Digit == [c \in {"0", "1", "2", "3", "4", "5", "6", "7", "8", "9"} |->
             CASE c = "0" -> 0 [] c = "1" -> 1 [] c = "2" -> 2 [] c = "3" -> 3
               [] c = "4" -> 4 [] c = "5" -> 5 [] c = "6" -> 6 [] c = "7" -> 7
               [] c = "8" -> 8 [] c = "9" -> 9]

\* the lexer takes 0x for hexadecimal and any other leading 0 for octal
Base(text) ==
    IF Head(text) # "0" THEN 10
    ELSE IF Len(text) > 1 /\ text[2] \in {"x", "X"} THEN 16 ELSE 8

Numeral(text) == IF Base(text) = 16 THEN SubSeq(text, 3, Len(text)) ELSE text

\* what may stand in a number; a hexadecimal one has no letters, nor a nine; another
\* character ends it, or makes it a FLOAT, which no statement takes
Allowed(base) ==
    {c \in DOMAIN Digit : Digit[c] < (CASE base = 8 -> 8 [] base = 10 -> 10 [] base = 16 -> 9)}

IsInteger(text) == \A i \in 1 .. Len(Numeral(text)) : Numeral(text)[i] \in Allowed(Base(text))

IntegerValue(text) == FoldLeft(LAMBDA n, c : n * Base(text) + Digit[c], 0, Numeral(text))

\* $3 * 1000 is a size_t; what is kept of it is an int
ToInt(n) ==
    LET low == n % IntSpan IN IF 2 * low < IntSpan THEN low ELSE low - IntSpan

\* mutant: a port is what strtoul returns
ToPortWhole(n) == n

\* strtoul into a uint16_t
ToPort(n) == n % PortSpan

-----------------------------------------------------------------------------
(* Statements *)

\* YYABORT and YYERROR
GiveUp == at' = "end" /\ failed' = TRUE

\* yyerror, and the exit(1) of addProxy
Exit == at' = "exit" /\ UNCHANGED failed

\* a statement of the mapping
Line == at = "mapping" /\ lines < MaxLines /\ lines' = lines + 1

GoOn == UNCHANGED <<at, failed>>

\* uri "..." ;
UriStatement(u) ==
    /\ at = "top" /\ Len(uris) < MaxUris
    /\ uris' = Append(uris, u)
    /\ GoOn /\ UNCHANGED <<local, proxies, wrote, lines>>

\* mutant: the times are left as they are
OpenMappingKeepsTimes ==
    /\ at = "top" /\ Len(proxies) < MaxProxies
    /\ at' = "mapping"
    /\ local' = [local EXCEPT !.times = [t \in Times |-> IF @[t] = 0 THEN Default[t] ELSE @[t]]]
    /\ wrote' = [t \in Times |-> 0]
    /\ UNCHANGED <<failed, uris, proxies, lines>>

\* proxy-mapping { : the times get their defaults, the rest stays
OpenMapping ==
    /\ at = "top" /\ Len(proxies) < MaxProxies
    /\ at' = "mapping"
    /\ local' = [local EXCEPT !.times = Default]
    /\ wrote' = [t \in Times |-> 0]
    /\ UNCHANGED <<failed, uris, proxies, lines>>

FrontEnd(end) ==
    /\ Line
    /\ local' = [local EXCEPT !.front = <<end[1], ToPort(end[2])>>]
    /\ GoOn /\ UNCHANGED <<uris, proxies, wrote>>

BackEnd(end) ==
    /\ Line
    /\ local' = [local EXCEPT !.back = <<end[1], ToPort(end[2])>>]
    /\ GoOn /\ UNCHANGED <<uris, proxies, wrote>>

\* an end without a colon
BadEnd == at = "mapping" /\ GiveUp /\ UNCHANGED <<local, uris, proxies, wrote, lines>>

\* mutant: the number is checked as it was read
TimeStatementUnwrapped(t, text) ==
    /\ Line /\ IsInteger(text)
    /\ local' = [local EXCEPT !.times[t] = ToInt(IntegerValue(text) * MsPerSec)]
    /\ wrote' = [wrote EXCEPT ![t] = ToInt(IntegerValue(text) * MsPerSec)]
    /\ IF IntegerValue(text) > 0 THEN GoOn ELSE GiveUp
    /\ UNCHANGED <<uris, proxies>>

\* timeout, poll-interval, webpage-refresh-interval
TimeStatement(t, text) ==
    /\ Line /\ IsInteger(text)
    /\ LET ms == ToInt(IntegerValue(text) * MsPerSec) IN
          /\ local' = [local EXCEPT !.times[t] = ms]
          /\ wrote' = [wrote EXCEPT ![t] = ms]
          /\ IF ms > 0 THEN GoOn ELSE GiveUp
    /\ UNCHANGED <<uris, proxies>>

ReporterStatement(w) ==
    /\ Line
    /\ local' = [local EXCEPT !.reporter = w]
    /\ IF w \in {"off", "view", "modify"} THEN GoOn ELSE GiveUp
    /\ UNCHANGED <<uris, proxies, wrote>>

\* backend_new; a time of the mapping is never 0, so the global one is never taken, and
\* nothing ever reads the front end's address
NewProxy(backaddr) ==
    [front |-> local.front, back |-> local.back, backaddr |-> backaddr,
     times |-> local.times, uris |-> uris,
     reporter |-> IF local.reporter = "none" THEN "off" ELSE local.reporter,
     wrote |-> wrote]

Missing(end) == end[2] = 0

\* mutant: an end is missing if nothing was written
MissingNowhere(end) == end = Nowhere

\* addProxy: the lookups of backend_new, either of which may fail
AddProxy(frontaddr, backaddr) ==
    IF "none" \in {frontaddr, backaddr}
    THEN Exit /\ UNCHANGED proxies
    ELSE /\ at' = "top" /\ UNCHANGED failed
         /\ proxies' = Append(proxies, NewProxy(backaddr))

\* the end of a mapping: "Missing front-end", "Missing back-end", or addProxy
CloseMapping ==
    /\ at = "mapping"
    /\ IF Missing(local.front) \/ Missing(local.back)
       THEN GiveUp /\ UNCHANGED proxies
       ELSE \E f \in Address[local.front[1]], b \in Address[local.back[1]] : AddProxy(f, b)
    /\ UNCHANGED <<local, uris, wrote, lines>>

EndOfFile ==
    /\ at = "top" /\ at' = "end"
    /\ UNCHANGED <<failed, local, uris, proxies, wrote, lines>>

\* what the grammar does not accept, a number the lexer does not take included
SyntaxError ==
    /\ at \in {"top", "mapping"} /\ Exit
    /\ UNCHANGED <<local, uris, proxies, wrote, lines>>

Parse ==
    \/ \E u \in Uris : UriStatement(u)
    \/ OpenMapping \/ CloseMapping \/ EndOfFile \/ BadEnd \/ SyntaxError
    \/ \E e \in FrontEnds : FrontEnd(e)
    \/ \E e \in BackEnds : BackEnd(e)
    \/ \E t \in Times, n \in Numbers : TimeStatement(t, n)
    \/ \E w \in Words : ReporterStatement(w)

-----------------------------------------------------------------------------
(* Properties *)

Local ==
    [front : (Host \cup {"none"}) \X (0 .. PortSpan - 1),
     back  : (Host \cup {"none"}) \X (0 .. PortSpan - 1),
     reporter : Words \cup {"none"},
     times : [Times -> Int]]

\* Whatever the file says, a mapping that is started has times above zero and ports: no
\* poll() for ever because of a time that became negative, no port that became 0.
Usable ==
    \A i \in 1 .. Len(proxies) :
        /\ \A t \in Times : proxies[i].times[t] > 0
        /\ proxies[i].front[2] # 0 /\ proxies[i].back[2] # 0

\* A mapping's times are those it gives, else the defaults: never another mapping's,
\* though all are read into one record.
OwnTimes ==
    \A i \in 1 .. Len(proxies), t \in Times :
        proxies[i].times[t] = IF proxies[i].wrote[t] = 0 THEN Default[t] ELSE proxies[i].wrote[t]
=============================================================================
