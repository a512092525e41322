----------------------------- MODULE MCReporter -----------------------------
(***************************************************************************)
(* An instance of Reporter for TLC: two back ends at one address and a     *)
(* third at another, and a client whose address has no name.                 *)
(***************************************************************************)
EXTENDS Reporter

Backs == <<[addr |-> "addr1", port |-> <<"1">>], [addr |-> "addr1", port |-> <<"2">>],
           [addr |-> "addr2", port |-> <<"1">>]>>

Reported == {[addr |-> "addr1", port |-> <<"2">>], [addr |-> "addr2", port |-> <<"1">>]}

Names == [a \in {"addr1", "addr2", "addr3"} |->
    CASE a = "addr1" -> "name1" [] a = "addr2" -> "name2" [] a = "addr3" -> "none"]

\* all keys up to two of these characters, and three more: one that is an escape, the word
\* "ops" and one that looks like a port
Characters == {"k", "%", "&", "+"}

Texts ==
    {<<c>> : c \in Characters} \cup {<<c, d>> : c \in Characters, d \in Characters} \cup
    {<<"%", "2", "6">>, <<"ops">>, <<"port", "=", "2">>}
=============================================================================
