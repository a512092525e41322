------------------------------- MODULE Sessions -------------------------------
(***************************************************************************)
(* What the front end of statsproxy promises: every connection is a        *)
(* conversation of its own.  Requests are answered on the connection they  *)
(* came from, in their order and in the format of their sender; any        *)
(* answer but a page of stats in memcache format is the last one.  No      *)
(* descriptor, thread or table appears here.                               *)
(***************************************************************************)
EXTENDS Integers, Sequences

CONSTANTS
    Conn,       \* connections
    Requests,   \* what clients ask
    What,       \* what can be answered
    MayFail     \* a connection may be dropped before it is served

VARIABLES phase, gone, asked, inbox, outbox

vars == <<phase, gone, asked, inbox, outbox>>

Form(r) == IF r.method = "stats" THEN "MEMCACHE" ELSE "HTTP"
Understood(r) == r.method \in {"stats", "GET", "POST"}

GoesOn(a) == a.what = "stats" /\ a.form = "MEMCACHE"
Over(c) == outbox[c] # <<>> /\ ~GoesOn(outbox[c][Len(outbox[c])])

Init ==
    /\ phase = [c \in Conn |-> "idle"]
    /\ gone = [c \in Conn |-> FALSE]
    /\ asked = [c \in Conn |-> 0]
    /\ inbox = [c \in Conn |-> <<>>]
    /\ outbox = [c \in Conn |-> <<>>]

Dial(c) ==
    /\ phase[c] = "idle"
    /\ phase' = [phase EXCEPT ![c] = "queued"]
    /\ gone' = [gone EXCEPT ![c] = FALSE]
    /\ asked' = [asked EXCEPT ![c] = 0]
    /\ inbox' = [inbox EXCEPT ![c] = <<>>]
    /\ outbox' = [outbox EXCEPT ![c] = <<>>]

Ask(c) ==
    /\ phase[c] # "idle" /\ ~gone[c]
    /\ \E r \in Requests :
          inbox' = [inbox EXCEPT ![c] = Append(@, [from |-> c, n |-> asked[c] + 1, req |-> r])]
    /\ asked' = [asked EXCEPT ![c] = @ + 1]
    /\ UNCHANGED <<phase, gone, outbox>>

HangUp(c) ==
    /\ phase[c] # "idle"
    /\ gone' = [gone EXCEPT ![c] = TRUE]
    /\ UNCHANGED <<phase, asked, inbox, outbox>>

Accept(c) ==
    /\ phase[c] = "queued"
    /\ phase' = [phase EXCEPT ![c] = "open"]
    /\ UNCHANGED <<gone, asked, inbox, outbox>>

\* requests sent ahead of an answer may be lost, the one being served may not
Lose(c) ==
    /\ phase[c] = "open"
    /\ \E k \in 1 .. Len(inbox[c]) :
          inbox' = [inbox EXCEPT ![c] = <<Head(@)>> \o SubSeq(@, k + 1, Len(@))]
    /\ UNCHANGED <<phase, gone, asked, outbox>>

Reply(c) ==
    /\ phase[c] = "open" /\ inbox[c] # <<>> /\ ~Over(c)
    /\ \E w \in What, f \in {"MEMCACHE", "HTTP"} :
          /\ Understood(Head(inbox[c]).req) => f = Form(Head(inbox[c]).req)
          /\ outbox' = [outbox EXCEPT ![c] =
                Append(@, [to |-> Head(inbox[c]), what |-> w, form |-> f])]
    /\ inbox' = [inbox EXCEPT ![c] = Tail(@)]
    /\ UNCHANGED <<phase, gone, asked>>

Close(c) ==
    /\ phase[c] = "open"
    /\ \/ Over(c)
       \/ gone[c] /\ inbox[c] = <<>>
       \/ MayFail /\ outbox[c] = <<>>
    /\ phase' = [phase EXCEPT ![c] = "idle"]
    /\ UNCHANGED <<gone, asked, inbox, outbox>>

Next == \E c \in Conn :
    Dial(c) \/ Ask(c) \/ HangUp(c) \/ Accept(c) \/ Lose(c) \/ Reply(c) \/ Close(c)

Spec == Init /\ [][Next]_vars
=============================================================================
