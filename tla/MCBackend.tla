------------------------------ MODULE MCBackend ------------------------------
(***************************************************************************)
(* Instances of Backend for TLC: uris, and the faults each run admits.     *)
(***************************************************************************)
EXTENDS Backend, TLC

CONSTANTS u1, u2, h, c1, c2

\* the probe between two stats commands
UrisAround == <<u1, h, u2>>

\* a stats command before and after another
UrisPlain == <<u1, u2>>

UriOne == <<u1>>
UriOneAndHealth == <<u1, h>>

\* STAT lines of the snapshots: two short ones; one that fits the buffer of 4 lines, one
\* whose END fills it, and one of which it cuts two lines
One     == <<1>>
Two     == <<2>>
TwoTwo  == <<2, 2>>
ShortAndLong == <<2, 3, 7>>
=============================================================================
