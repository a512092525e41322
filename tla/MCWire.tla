-------------------------------- MODULE MCWire --------------------------------
(***************************************************************************)
(* The instance of Drift for TLC: no clients, the uris of MCBackend.       *)
(***************************************************************************)
EXTENDS Drift, MCBackend

\* What the poller reads back, and what the properties say of the rest: the lists, of
\* which no client makes use, and last_error are left out.
PollerView == <<sock, stored, session, poller, drift, OfReply(stats[1], UriList[1])>>
=============================================================================
