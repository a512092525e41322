------------------------------- MODULE UriCodec -------------------------------
(***************************************************************************)
(* uri_encode and uri_decode of uristrings.c, the link key_href makes of a *)
(* key (mcr_web.c), and what reporterCallback (statsproxy.c) reads from    *)
(* the uri when the link is followed.                                      *)
(*                                                                         *)
(* A text is a sequence of characters; a word none of these functions      *)
(* looks into is one character.                                            *)
(***************************************************************************)
EXTENDS Integers, Sequences, SequencesExt, FiniteSetsExt

HexDigits == <<"0", "1", "2", "3", "4", "5", "6", "7", "8", "9", "a", "b", "c", "d", "e", "f">>
Decimal   == {HexDigits[i] : i \in 1 .. 10}

\* what is not alphanumeric or one of "-_.~", but for the space
Reserved == {"%", "&", "+", "=", "?"}

Code(c) ==
    CASE c = "%" -> 37 [] c = "&" -> 38 [] c = "+" -> 43 [] c = "=" -> 61 [] c = "?" -> 63

to_hex(n) == HexDigits[n + 1]
from_hex(c) == (CHOOSE i \in 1 .. 16 : HexDigits[i] = c) - 1

\* mutant: a percent sign is left as it is
EncodeCharNotPercent(c) ==
    IF c \in Reserved \ {"%"} THEN <<"%", to_hex(Code(c) \div 16), to_hex(Code(c) % 16)>>
    ELSE IF c = " " THEN <<"+">> ELSE <<c>>

EncodeChar(c) ==
    IF c \in Reserved THEN <<"%", to_hex(Code(c) \div 16), to_hex(Code(c) % 16)>>
    ELSE IF c = " " THEN <<"+">> ELSE <<c>>

uri_encode(s) == FlattenSeq([i \in 1 .. Len(s) |-> EncodeChar(s[i])])

\* the character with this code; of the others it only matters that they are none of these
Char(n) ==
    IF \E c \in Reserved : Code(c) = n THEN CHOOSE c \in Reserved : Code(c) = n
    ELSE IF n \in 48 .. 57 THEN to_hex(n - 48)
    ELSE IF n \in 97 .. 102 THEN to_hex(n - 87)
    ELSE IF n = 32 THEN " " ELSE "other"

\* digits that are none give some other character
Escaped(h, l) ==
    IF {h, l} \subseteq Range(HexDigits) THEN Char(16 * from_hex(h) + from_hex(l)) ELSE "other"

\* a percent sign with less than two characters after it is dropped
uri_decode(s) ==
    LET from[i \in 1 .. Len(s) + 1] ==
        IF i > Len(s) THEN <<>>
        ELSE IF s[i] = "%"
             THEN IF i + 2 > Len(s) THEN from[i + 1]
                  ELSE <<Escaped(s[i + 1], s[i + 2])>> \o from[i + 3]
             ELSE <<IF s[i] = "+" THEN " " ELSE s[i]>> \o from[i + 1]
    IN from[1]

-----------------------------------------------------------------------------
(* Links and parameters *)

\* a link to base with these parameters; what a parameter is called starts it
Link(base, params) == <<base, "?">> \o params

AddrPort(addr, port) == <<"addr", "=", addr, "&", "port", "=">> \o port

\* key_href: the encoded key is made and thrown away, the key itself is printed
key_href(base, addr, port, key) == Link(base, AddrPort(addr, port) \o <<"&", "key", "=">> \o key)

\* "?" and "&" become the ends of strings
Ends(u) == {i \in 1 .. Len(u) : u[i] \in {"?", "&"}} \cup {Len(u) + 1}
StringAt(u, i) == SubSeq(u, i, Min({e \in Ends(u) : e >= i}) - 1)

\* where a parameter is found: anywhere, and the last one counts
Found(u, name) == {i \in 1 .. Len(u) - 1 : u[i] = name /\ u[i + 1] = "="}

Param(u, name) ==
    IF Found(u, name) = {} THEN <<>> ELSE StringAt(u, Max(Found(u, name)) + 2)

\* sscanf of a number
Digits(s) ==
    SubSeq(s, 1, Min({i \in 1 .. Len(s) : s[i] \notin Decimal} \cup {Len(s) + 1}) - 1)

\* a port parameter without a number changes nothing
Port(u) ==
    LET numbers == {i \in Found(u, "port") : Digits(StringAt(u, i + 2)) # <<>>} IN
    IF numbers = {} THEN <<>> ELSE Digits(StringAt(u, Max(numbers) + 2))

\* mutant: a port ends with the uri
ParsedWithoutEnds(u) ==
    [page |-> Head(u), addr |-> Param(u, "addr"),
     port |-> IF Found(u, "port") = {} THEN <<>>
              ELSE SubSeq(u, Max(Found(u, "port")) + 2, Len(u)),
     key |-> Param(u, "key")]

\* what reporterCallback makes of a decoded uri
Parsed(u) ==
    [page |-> Head(u), addr |-> Param(u, "addr"), port |-> Port(u), key |-> Param(u, "key")]

\* keys that a link to a page brings back, once it is sent as key_href made it (a browser
\* cuts it at a # or a quote)
Plain(key) ==
    /\ Range(key) \cap {"%", "+", "&", "?"} = {}
    /\ \A w \in {"addr", "port", "key"} : Found(key, w) = {}
=============================================================================
