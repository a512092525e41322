------------------------------ MODULE MCStartup ------------------------------
(***************************************************************************)
(* Instances of Startup for TLC.  The spans of the integers are scaled     *)
(* down: a second is 10 ms, an int has 64 values, a port 8.                *)
(***************************************************************************)
EXTENDS Startup

\* two names of this machine, of which one may fail and the other has two addresses; a
\* dotted address, and an unknown name
Addresses ==
    [h \in Host |-> CASE h = "name1" -> {"addr1", "none"} [] h = "name2" -> {"addr1", "addr2"}
                      [] h = "quad1" -> {"addr1"} [] OTHER -> {"none"}]

Fronts == {<<"name1", 3>>, <<"name2", 3>>, <<"quad1", 3>>, <<"name1", 8>>}
Backs  == {<<"quad1", 1>>, <<"unknown", 1>>}

\* 10, which is octal and 8 s, and wraps to 1.6 s; one that becomes negative; one that is
\* no integer
Texts == {<<"0", "1", "0">>, <<"5">>, <<"0", "8">>}

Defaults == [t \in Times |-> IF t = "timeout" THEN 10 ELSE IF t = "poll-interval" THEN 5 ELSE 15]
=============================================================================
