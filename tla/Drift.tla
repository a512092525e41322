-------------------------------- MODULE Drift --------------------------------
(***************************************************************************)
(* Backend, and a history of what may bring commands and replies out of    *)
(* step on its connection.                                                 *)
(***************************************************************************)
EXTENDS Backend

VARIABLE drift

\* a command that went out was given up, or the probe read a part of an answer; a new
\* connection starts afresh
Drifts ==
    /\ sock'.open
    /\ \/ ppc = "send" /\ ppc' \in {"next", "lock"}
       \/ ppc = "probe" /\ sock'.inbox \notin {sock.inbox, <<>>}

DriftInit == Init /\ drift = FALSE

DriftNext ==
    /\ Next
    /\ drift' = IF sock'.open /\ ~sock.open THEN FALSE ELSE drift \/ Drifts

DriftSpec == DriftInit /\ [][DriftNext]_<<vars, drift>>

\* getStat publishes the reply to its own command on every connection on which no
\* command was given up after it went out (statsmc.c:233) and no probe was answered with
\* more than it reads (statsproxy.c:918).
ListsInStep ==
    ppc = "add" /\ UriList[idx] # Health /\ ~drift => OfReply(new_stats, UriList[idx])

\* A reply longer than the buffer is read in several, and each full buffer costs the list
\* no more than the line it cuts (statsmc.c:249-317, 417-439): on such a connection
\* a line of the list is the first of its reply, or the one before it or the one before
\* that is in the list.
LostAtCuts ==
    ppc = "add" /\ UriList[idx] # Health /\ ~drift =>
        \A i \in 1 .. Len(new_stats) :
            new_stats[i].kind # "FRAG" /\ new_stats[i].no > 1 =>
                \E j \in 1 .. i - 1 :
                    /\ new_stats[j].kind # "FRAG"
                    /\ new_stats[j].no \in {new_stats[i].no - 2, new_stats[i].no - 1}
=============================================================================
