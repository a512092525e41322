---------------------------- MODULE BufferedStats ----------------------------
(***************************************************************************)
(* What a backend of statsproxy promises its clients: the "buffered view"  *)
(* of README.txt.  A list is published whole; a client that asks for one   *)
(* gets, in one instant, the list as published, if the backend is serving, *)
(* and is refused if it is not.  Lists change only while it serves.  One   *)
(* that asks for something else is refused in any case.                    *)
(***************************************************************************)
CONSTANTS
    Client,     \* those who ask
    Pos,        \* what they ask for
    List,       \* what can be published, and
    Empty       \* what is there before anything is

VARIABLES serving, cache, answer

vars == <<serving, cache, answer>>

None       == [kind |-> "none"]
Waiting(p) == [kind |-> "waiting", pos |-> p]
Unlisted   == [kind |-> "unlisted"]
Given(l)   == [kind |-> "given", list |-> l]
Refused    == [kind |-> "refused"]

Init ==
    /\ serving = FALSE
    /\ cache = [p \in Pos |-> Empty]
    /\ answer = [c \in Client |-> None]

Switch ==
    /\ serving' \in BOOLEAN
    /\ UNCHANGED <<cache, answer>>

Publish(p) ==
    /\ serving
    /\ cache' \in [Pos -> List]
    /\ \A q \in Pos \ {p} : cache'[q] = cache[q]
    /\ UNCHANGED <<serving, answer>>

Reply(c, a) ==
    /\ answer' = [answer EXCEPT ![c] = a]
    /\ UNCHANGED <<serving, cache>>

Ask(c) ==
    /\ answer[c].kind \notin {"waiting", "unlisted"}
    /\ \/ \E p \in Pos : Reply(c, Waiting(p))
       \/ Reply(c, Unlisted)

Deliver(c) ==
    answer[c].kind = "waiting" /\ serving /\ Reply(c, Given(cache[answer[c].pos]))

Refuse(c) ==
    /\ \/ answer[c].kind = "waiting" /\ ~serving
       \/ answer[c].kind = "unlisted"
    /\ Reply(c, Refused)

Next ==
    \/ Switch
    \/ \E p \in Pos : Publish(p)
    \/ \E c \in Client : Ask(c) \/ Deliver(c) \/ Refuse(c)

Spec == Init /\ [][Next]_vars
=============================================================================
