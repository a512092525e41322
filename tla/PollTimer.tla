------------------------------ MODULE PollTimer ------------------------------
(***************************************************************************)
(* The clocks of a poller: the rounds of runBackend and their pauses, the  *)
(* retries of checkAndConnect, and the budget that sp_memcache_write and   *)
(* sp_memcache_read give a session (struct sp_memcache_socket_state).      *)
(*                                                                         *)
(* The code measures with gettimeofday and waits with poll, sleep and      *)
(* usleep, which the wall clock does not govern: an administrator or ntpd  *)
(* may set it while the poller waits.  Every measurement is kept twice, as *)
(* the code sees it and as time really passed.  Computing takes no time.   *)
(***************************************************************************)
EXTENDS Integers

CONSTANTS
    Timeout,    \* settings.connect_ms, read_ms and write_ms, which are always equal
    PollFreq,   \* settings.pollfreq_ms
    Nap,        \* the pause after a round that took too long: 500
    RetryWait,  \* CONN_RETRY_WAIT
    Retries,    \* retries of checkAndConnect
    UsecSpan,   \* milliseconds that useconds_t can count: some 2^32 / 1000
    Uris,       \* number of bep->uris
    Probe,      \* which of them is "health"
    Parts,      \* pieces of a command, and of a reply between two ticks (bound)
    Jump,       \* how far the clock may be set, ahead or back
    MaxJumps    \* how often in a round (bound)

ASSUME PollTimerAssumption ==
    /\ Timeout \in Nat \ {0} /\ PollFreq \in Nat \ {0}
    /\ Nap \in Nat /\ RetryWait \in Nat /\ Retries \in Nat
    /\ UsecSpan \in Nat \ {0}
    /\ Uris \in Nat \ {0} /\ Probe \in Nat
    /\ Parts \in Nat \ {0} /\ MaxJumps \in Nat
    /\ Jump \subseteq Int

VARIABLES
    pc,         \* where the poller is
    uri,        \* the uri it is at
    tries,      \* i of checkAndConnect
    open,       \* bep->fd >= 0
    left,       \* what remains of the call it is blocked in
    todo,       \* parts of the command still to go, of the reply that may still come now
    held,       \* err of sp_memcache_write: an EWOULDBLOCK was met
    remaining,  \* sk_state->time_remaining
    start,      \* the wall clock less sk_state->start_time
    waited,     \* time since sp_memcache_write or sp_memcache_read was called
    then,       \* the wall clock less `then' of runBackend
    round,      \* time since the round began
    drift,      \* how far the clock was set in the session,
    jumps       \*   and how often in the round

place    == <<pc, uri, tries, open>>
session  == <<todo, held, remaining>>
clocks   == <<start, waited, then, round>>
settings == <<drift, jumps>>
vars     == <<place, left, session, clocks, settings>>

Blocked == {"connecting", "retrying", "writing", "reading", "sleeping"}
Place   == Blocked \cup {"round", "visit", "connect", "write", "writable", "read",
                        "readable", "flooded", "next"}

Magnitude(n) == IF n < 0 THEN -n ELSE n      \* labs

Init ==
    /\ pc = "round" /\ uri = 1 /\ tries = 0 /\ open = FALSE
    /\ left = 0 /\ todo = 0 /\ held = FALSE /\ remaining = Timeout
    /\ start = 0 /\ waited = 0 /\ then = 0 /\ round = 0
    /\ drift = 0 /\ jumps = 0

-----------------------------------------------------------------------------
(* Time *)

InSession == pc \in {"writing", "reading"}

\* time passes while the poller is blocked, and no longer than it asked for
Tick ==
    /\ pc \in Blocked /\ left > 0
    /\ left' = left - 1
    /\ then' = then + 1 /\ round' = round + 1
    /\ IF InSession THEN start' = start + 1 /\ waited' = waited + 1
                    ELSE UNCHANGED <<start, waited>>
    /\ todo' = IF pc = "reading" THEN Parts ELSE todo
    /\ UNCHANGED <<place, held, remaining, settings>>

\* the wall clock is set
SetClock(d) ==
    /\ pc \in Blocked /\ jumps < MaxJumps
    /\ then' = then + d
    /\ jumps' = jumps + 1
    /\ IF InSession THEN start' = start + d /\ drift' = drift + Magnitude(d)
                    ELSE UNCHANGED <<start, drift>>
    /\ UNCHANGED <<place, left, session, waited, round>>

-----------------------------------------------------------------------------
(* Rounds *)

At(from, to) == pc = from /\ pc' = to

\* poll(), sleep() or usleep() for n
BlockFor(n) == left' = n

\* then = timestamp(), and the first uri
BeginRound ==
    /\ At("round", "visit")
    /\ uri' = 1
    /\ then' = 0 /\ round' = 0 /\ drift' = 0 /\ jumps' = 0
    /\ UNCHANGED <<tries, open, left, session, start, waited>>

\* checkAndConnect when there is no connection
BeginConnect ==
    /\ At("visit", "connect") /\ ~open
    /\ tries' = 0
    /\ UNCHANGED <<uri, open, left, session, clocks, settings>>

\* lastpoll = time(0), and the next uri
NextUri ==
    /\ At("next", "visit")
    /\ uri < Uris
    /\ uri' = uri + 1
    /\ UNCHANGED <<tries, open, left, session, clocks, settings>>

\* mutant: a clock set back makes delta negative
PauseUnclamped(delta) == IF PollFreq - delta < 0 THEN Nap ELSE PollFreq - delta

\* delta is what the round took, zero if time went backwards
Pause(delta) ==
    LET took == IF delta < 0 THEN 0 ELSE delta
    IN  IF PollFreq - took < 0 THEN Nap ELSE PollFreq - took

\* usleep(sleep_time * 1000): its argument is an unsigned int
EndRound ==
    /\ At("next", "sleeping")
    /\ uri = Uris
    /\ open' = FALSE
    /\ BlockFor(Pause(then) % UsecSpan)
    /\ UNCHANGED <<uri, tries, session, clocks, settings>>

WakeUp ==
    /\ At("sleeping", "round")
    /\ left = 0
    /\ UNCHANGED <<uri, tries, open, left, session, clocks, settings>>

-----------------------------------------------------------------------------
(* checkAndConnect and the waits of sp_memcache_connect *)

Connected ==
    /\ At("connect", "visit")
    /\ open' = TRUE
    /\ UNCHANGED <<uri, tries, left, session, clocks, settings>>

\* EINPROGRESS
ConnectWaits ==
    /\ At("connect", "connecting")
    /\ BlockFor(Timeout)
    /\ UNCHANGED <<uri, tries, open, session, clocks, settings>>

ConnectWakes ==
    /\ At("connecting", "visit")
    /\ open' = TRUE /\ left' = 0
    /\ UNCHANGED <<uri, tries, session, clocks, settings>>

\* mutant: try again at once, uncounted
ConnectFailsAtOnce ==
    /\ pc \in {"connect", "connecting"} /\ pc' = "connect"
    /\ BlockFor(0)
    /\ UNCHANGED <<uri, tries, open, session, clocks, settings>>

\* refused, at once or while poll() waits, or timed out: sleep(CONN_RETRY_WAIT)
ConnectFails ==
    /\ pc \in {"connect", "connecting"} /\ pc' = "retrying"
    /\ BlockFor(RetryWait)
    /\ UNCHANGED <<uri, tries, open, session, clocks, settings>>

Retry ==
    /\ At("retrying", "connect")
    /\ left = 0 /\ tries < Retries
    /\ tries' = tries + 1
    /\ UNCHANGED <<uri, open, left, session, clocks, settings>>

\* mutant: restart goes below then = timestamp()
GiveUpKeepsThen ==
    /\ At("retrying", "visit")
    /\ left = 0 /\ tries = Retries
    /\ uri' = 1 /\ round' = 0
    /\ UNCHANGED <<tries, open, left, session, start, waited, then, settings>>

\* goto restart
GiveUp ==
    /\ At("retrying", "round")
    /\ left = 0 /\ tries = Retries
    /\ UNCHANGED <<uri, tries, open, left, session, clocks, settings>>

-----------------------------------------------------------------------------
(* The sessions *)

\* sp_memcache_stats_update_time_remaining
TimeRemaining == Timeout - Magnitude(start)

\* start_time = now, time_remaining = timeout
NewSession ==
    /\ remaining' = Timeout
    /\ start' = 0 /\ waited' = 0 /\ drift' = 0

\* the function returns, and its session is gone
EndSession == todo' = 0 /\ held' = FALSE /\ NewSession

\* getHealth starts its session here, before the write, and sp_memcache_write its own
BeginWrite ==
    /\ At("visit", "write") /\ open
    /\ todo' = Parts /\ held' = FALSE
    /\ NewSession
    /\ UNCHANGED <<uri, tries, open, left, then, round, jumps>>

Writing == pc \in {"write", "writable"}

\* the last bytes are taken, whatever the time, and no EWOULDBLOCK was met: the reply
\* is read, by getStat in a new session, by getHealth in that from before the write
Written ==
    /\ Writing /\ ~held
    /\ pc' = "read"
    /\ todo' = Parts
    /\ IF uri = Probe
       THEN remaining' = Timeout /\ waited' = 0 /\ UNCHANGED <<start, drift>>
       ELSE NewSession
    /\ UNCHANGED <<uri, tries, open, left, held, then, round, jumps>>

\* the last bytes are taken after an EWOULDBLOCK, which is an error to the caller
WrittenLate ==
    /\ Writing /\ held
    /\ pc' = "next"
    /\ EndSession
    /\ UNCHANGED <<uri, tries, open, left, then, round, jumps>>

\* some are taken, and time is not up
WriteSome ==
    /\ Writing /\ pc' = "write"
    /\ todo > 1 /\ TimeRemaining >= 0
    /\ todo' = todo - 1
    /\ remaining' = TimeRemaining
    /\ UNCHANGED <<uri, tries, open, left, held, clocks, settings>>

\* mutant: the time that remains is not looked at
WriteWaitsAnyway ==
    /\ At("write", "writing")
    /\ held' = TRUE
    /\ BlockFor(Timeout)
    /\ UNCHANGED <<uri, tries, open, todo, remaining, clocks, settings>>

\* EWOULDBLOCK: poll() for the whole timeout, whatever remains of it
WriteWaits ==
    /\ At("write", "writing")
    /\ remaining > 0
    /\ held' = TRUE
    /\ BlockFor(Timeout)
    /\ UNCHANGED <<uri, tries, open, todo, remaining, clocks, settings>>

\* the socket takes bytes again, or poll() timed out, and time is not up
WriteWakes ==
    /\ pc = "writing" /\ pc' = IF left > 0 THEN "writable" ELSE "write"
    /\ TimeRemaining >= 0
    /\ left' = 0
    /\ remaining' = TimeRemaining
    /\ UNCHANGED <<uri, tries, open, todo, held, clocks, settings>>

\* time is up after poll() or a short write; EWOULDBLOCK when nothing remains; or the
\* connection breaks
WriteFails ==
    /\ pc \in {"write", "writable", "writing"} /\ pc' = "next"
    /\ EndSession
    /\ open' = FALSE /\ left' = 0
    /\ UNCHANGED <<uri, tries, then, round, jumps>>

\* a part of the reply is there; whether time is up is not asked (without end: ReadFlood)
ReadSome ==
    /\ pc \in {"read", "readable"} /\ pc' = "read"
    /\ todo > 1
    /\ todo' = todo - 1
    /\ remaining' = TimeRemaining
    /\ UNCHANGED <<uri, tries, open, left, held, clocks, settings>>

\* more is there at every read(), and never END: the loop goes on, and reads ReadSome
\* as often as it goes; no time passes meanwhile, but nothing makes memcached pause
ReadFlood ==
    /\ pc \in {"read", "readable"} /\ pc' = "flooded"
    /\ UNCHANGED <<uri, tries, open, left, session, clocks, settings>>

FloodEnds ==
    /\ At("flooded", "read")
    /\ remaining' = TimeRemaining
    /\ UNCHANGED <<uri, tries, open, left, todo, held, clocks, settings>>

\* END, the end of the file, or the eight bytes of the probe; ERROR, a broken
\* connection, or EAGAIN when nothing remains close the socket
ReadEnds ==
    /\ pc \in {"read", "readable"} /\ pc' = "next"
    /\ EndSession
    /\ open' \in {open, FALSE}
    /\ UNCHANGED <<uri, tries, left, then, round, jumps>>

\* mutant: poll() waits as it does in sp_memcache_write
ReadWaitsWhole ==
    /\ At("read", "reading")
    /\ remaining > 0
    /\ BlockFor(Timeout)
    /\ UNCHANGED <<uri, tries, open, session, clocks, settings>>

\* mutant: poll() even when nothing remains
ReadWaitsUnchecked ==
    /\ At("read", "reading")
    /\ BlockFor(remaining)
    /\ UNCHANGED <<uri, tries, open, session, clocks, settings>>

\* EAGAIN: poll() for what remains
ReadWaits ==
    /\ At("read", "reading")
    /\ remaining > 0
    /\ BlockFor(remaining)
    /\ UNCHANGED <<uri, tries, open, session, clocks, settings>>

ReadWakes ==
    /\ pc = "reading" /\ pc' = IF left > 0 THEN "readable" ELSE "read"
    /\ left' = 0
    /\ remaining' = TimeRemaining
    /\ UNCHANGED <<uri, tries, open, todo, held, clocks, settings>>

-----------------------------------------------------------------------------
Poller ==
    \/ BeginRound \/ NextUri \/ EndRound \/ WakeUp
    \/ BeginConnect \/ Connected \/ ConnectWaits \/ ConnectWakes \/ ConnectFails
    \/ Retry \/ GiveUp
    \/ BeginWrite \/ Written \/ WrittenLate \/ WriteSome \/ WriteWaits \/ WriteWakes
    \/ WriteFails
    \/ ReadSome \/ ReadEnds \/ ReadWaits \/ ReadWakes

Next == Poller \/ ReadFlood \/ FloodEnds \/ Tick \/ \E d \in Jump : SetClock(d)

Spec == Init /\ [][Next]_vars

\* The poller's thread runs, and time passes.  Calls that block end at their limit:
\* early when the other side acts, which nothing makes it do, nor end a flood.
FairSpec ==
    /\ Spec
    /\ WF_vars(Tick)
    /\ WF_vars(Poller /\ (pc \in Blocked => left = 0))

-----------------------------------------------------------------------------
(* Properties *)

\* Every variable has its type; nobody blocks for a negative time, which poll() would
\* take for ever.
TimerTypeOK ==
    /\ pc \in Place /\ uri \in 1 .. Uris /\ tries \in 0 .. Retries /\ open \in BOOLEAN
    /\ left \in Nat /\ todo \in 0 .. Parts /\ held \in BOOLEAN /\ remaining \in Int
    /\ start \in Int /\ waited \in Nat /\ then \in Int /\ round \in Nat
    /\ drift \in Nat /\ jumps \in 0 .. MaxJumps

\* README.txt:112, "statsproxy will wait this many seconds to get a stats or set
\* response": sp_memcache_read waits no longer, but for what the clock was set meanwhile.
ReadBudget == pc = "reading" => waited + left <= Timeout + drift

\* sp_memcache_write, which polls for the whole timeout each time, waits less than twice
\* the timeout, but for what the clock was set meanwhile.
WriteBudget == pc = "writing" => waited + left < 2 * Timeout + drift

\* "take care of time going backwards" (runBackend): however the clock is set, the poller
\* does not sleep longer than the poll interval, or than the nap after a long round.
SleepBounded == pc = "sleeping" => left <= (IF PollFreq < Nap THEN Nap ELSE PollFreq)

\* README.txt:108, "Defines the polling interval in seconds for the memcached server": if
\* nobody sets the clock, and the interval is one that the argument of usleep can hold
\* (PollFreq < UsecSpan), a round begins no earlier than that after the one before, or
\* after the last time the connection was given up.
IntervalKept == pc = "sleeping" /\ jumps = 0 => round + left >= PollFreq

\* However the clock is set, and whatever memcached does but to send for ever without END
\* and without a pause, the poller goes round: sp_memcache_read looks at the time only when
\* read() would block.
RoundsGoOn == <>[](pc # "flooded") => []<>(pc = "round")
=============================================================================
