------------------------------ MODULE MCFrontend ------------------------------
(***************************************************************************)
(* Instances of Frontend for TLC: what clients ask in each run.            *)
(***************************************************************************)
EXTENDS Frontend, TLC

CONSTANTS c1, c2, b1

Line(m, u, p) == [method |-> m, uri |-> u, params |-> p]

\* a session that goes on and one that does not
PlainRequests == {Line("stats", "items", {}), Line("GET", "items", {})}

\* the other ways out of handleFrontendRequest
OtherRequests ==
    {Line("GET", "logo.png", {}), Line("HEAD", "items", {}), Line("stats", "nowhere", {})}

\* what is looked up without its parameters and compared with them
OddRequests ==
    {Line("stats", "items", {"other"}), Line("POST", "logo.png", {"other"})}

EnableRequest == {Line("GET", "mcr-enable", {"addr", "port"})}

\* pages of the reporter, one without a handler and one without its parameters, beside
\* all that a session may ask otherwise
AllRequests ==
    PlainRequests \cup OtherRequests \cup OddRequests \cup EnableRequest \cup
    {Line("GET", "mcr-config", {}), Line("stats", "top-keys-all", {"addr", "port"}),
     Line("GET", "top-clients-ops", {"addr", "port", "key"}),
     Line("GET", "top-clients-ops", {"addr", "port"}), Line("GET", "reporter", {})}
=============================================================================
