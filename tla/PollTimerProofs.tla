--------------------------- MODULE PollTimerProofs ---------------------------
(***************************************************************************)
(* Proofs about PollTimer, for all timeouts, intervals and numbers of      *)
(* uris, and for every way of setting the clock.                           *)
(***************************************************************************)
EXTENDS PollTimer, TLAPS

-----------------------------------------------------------------------------
(* Arithmetic *)

LEMMA MagnitudeIs ==
    ASSUME NEW n \in Int
    PROVE  Magnitude(n) \in Nat /\ n <= Magnitude(n) /\ -n <= Magnitude(n)
BY DEF Magnitude

\* What usleep is given is the pause itself if that fits, and never more than it.
LEMMA Wrapped ==
    ASSUME NEW n \in Nat, NEW span \in Nat \ {0}
    PROVE  n % span \in Nat /\ n % span <= n /\ (n < span => n % span = n)
OBVIOUS

\* The pause is neither negative nor longer than the interval or the nap, and with what
\* the round took it makes an interval.
LEMMA PauseIs ==
    ASSUME NEW delta \in Int
    PROVE  /\ Pause(delta) \in Nat
           /\ Pause(delta) <= IF PollFreq < Nap THEN Nap ELSE PollFreq
           /\ delta >= 0 => delta + Pause(delta) >= PollFreq
BY PollTimerAssumption DEF Pause

-----------------------------------------------------------------------------
(* The invariant *)

\* The wall clock of a session tells the time that was waited, but for what it was set;
\* and what is thought to remain is no more than what does.  There is nothing to tell
\* when no session is open.
SessionInv ==
    /\ start >= waited - drift
    /\ pc \notin {"write", "writable", "writing", "read", "readable", "reading",
               "flooded"} => start = 0 /\ waited = 0
    /\ pc \in {"write", "writable", "read", "readable", "flooded"} => waited + remaining <= Timeout + drift

\* As long as nobody sets the clock, it tells how long the round is.
RoundInv == jumps = 0 => then = round

TimerInv == TimerTypeOK /\ SessionInv /\ RoundInv /\ ReadBudget /\ WriteBudget /\ SleepBounded

LEMMA InitTimer == Init => TimerInv
<1> SUFFICES ASSUME Init PROVE TimerInv
  OBVIOUS
<1>1. open \in BOOLEAN /\ held \in BOOLEAN
  BY DEF Init
<1>2. TimerTypeOK
  BY <1>1, PollTimerAssumption DEF Init, TimerTypeOK, Place, Blocked
<1>3. SessionInv /\ RoundInv
  BY DEF Init, SessionInv, RoundInv
<1>4. ReadBudget /\ WriteBudget /\ SleepBounded
  BY DEF Init, ReadBudget, WriteBudget, SleepBounded
<1> QED BY <1>2, <1>3, <1>4 DEF TimerInv

\* What the clock says remains is at most what does.
LEMMA RemainingIs ==
    ASSUME TimerTypeOK, SessionInv
    PROVE  TimeRemaining \in Int /\ waited + TimeRemaining <= Timeout + drift
<1>1. start \in Int /\ waited \in Nat /\ drift \in Nat /\ start >= waited - drift
  BY DEF TimerTypeOK, SessionInv
<1>2. Magnitude(start) \in Nat /\ start <= Magnitude(start)
  BY <1>1, MagnitudeIs
<1> QED BY <1>1, <1>2, PollTimerAssumption DEF TimeRemaining

\* Types.
LEMMA StepTypes ==
    ASSUME TimerInv, [Next]_vars
    PROVE  TimerTypeOK'
<1> USE PollTimerAssumption DEF TimerInv, TimerTypeOK, Place, Blocked
<1>1. CASE BeginRound
  BY <1>1 DEF BeginRound, At, place, session, clocks, settings
<1>2. CASE NextUri
  BY <1>2 DEF NextUri, At, place, session, clocks, settings
<1>3. CASE EndRound
  BY <1>3, PauseIs, Wrapped DEF EndRound, At, BlockFor, place, session, clocks, settings
<1>4. CASE WakeUp
  BY <1>4 DEF WakeUp, At, place, session, clocks, settings
<1>5. CASE BeginConnect
  BY <1>5 DEF BeginConnect, At, place, session, clocks, settings
<1>6. CASE Connected
  BY <1>6 DEF Connected, At, place, session, clocks, settings
<1>7. CASE ConnectWaits
  BY <1>7 DEF ConnectWaits, At, BlockFor, place, session, clocks, settings
<1>8. CASE ConnectWakes
  BY <1>8 DEF ConnectWakes, At, place, session, clocks, settings
<1>9. CASE ConnectFails
  BY <1>9 DEF ConnectFails, BlockFor, place, session, clocks, settings
<1>10. CASE Retry
  BY <1>10 DEF Retry, At, place, session, clocks, settings
<1>11. CASE GiveUp
  BY <1>11 DEF GiveUp, At, place, session, clocks, settings
<1>12. CASE BeginWrite
  <2>1. open' \in BOOLEAN /\ held' \in BOOLEAN
    BY <1>12 DEF BeginWrite
  <2> QED BY <2>1, <1>12 DEF BeginWrite, At, NewSession, place, session, clocks, settings
<1>13. CASE Written
  BY <1>13 DEF Written, Writing, NewSession, place, session, clocks, settings
<1>14. CASE WrittenLate
  <2>1. open' \in BOOLEAN /\ held' \in BOOLEAN
    BY <1>14 DEF WrittenLate, EndSession
  <2> QED BY <2>1, <1>14 DEF WrittenLate, Writing, EndSession, NewSession, place, session, clocks, settings
<1>15. CASE WriteSome
  BY <1>15, RemainingIs DEF WriteSome, Writing, TimeRemaining, place, session, clocks, settings
<1>16. CASE WriteWaits
  BY <1>16 DEF WriteWaits, At, BlockFor, place, session, clocks, settings
<1>17. CASE WriteWakes
  BY <1>17, RemainingIs DEF WriteWakes, TimeRemaining, place, session, clocks, settings
<1>18. CASE WriteFails
  <2>1. open' \in BOOLEAN /\ held' \in BOOLEAN
    BY <1>18 DEF WriteFails, EndSession
  <2> QED BY <2>1, <1>18 DEF WriteFails, EndSession, NewSession, place, session, clocks, settings
<1>19. CASE ReadSome
  BY <1>19, RemainingIs DEF ReadSome, TimeRemaining, place, session, clocks, settings
<1>20. CASE ReadEnds
  <2>1. open' \in BOOLEAN /\ held' \in BOOLEAN
    BY <1>20 DEF ReadEnds, EndSession
  <2> QED BY <2>1, <1>20 DEF ReadEnds, EndSession, NewSession, place, session, clocks, settings
<1>21. CASE ReadWaits
  BY <1>21 DEF ReadWaits, At, BlockFor, place, session, clocks, settings
<1>22. CASE ReadWakes
  BY <1>22, RemainingIs DEF ReadWakes, TimeRemaining, place, session, clocks, settings
<1>23. CASE Tick
  BY <1>23 DEF Tick, InSession, place, session, clocks, settings
<1>24. CASE \E d \in Jump : SetClock(d)
  BY <1>24, MagnitudeIs DEF SetClock, InSession, place, session, clocks, settings
<1>25. CASE UNCHANGED vars
  BY <1>25 DEF vars, place, session, clocks, settings
<1>26. CASE ReadFlood
  BY <1>26 DEF ReadFlood, place, session, clocks, settings
<1>27. CASE FloodEnds
  BY <1>27, RemainingIs DEF FloodEnds, At, TimeRemaining, place, session, clocks, settings
<1> QED BY <1>1, <1>2, <1>3, <1>4, <1>5, <1>6, <1>7, <1>8, <1>9, <1>10, <1>11, <1>12,
       <1>13, <1>14, <1>15, <1>16, <1>17, <1>18, <1>19, <1>20, <1>21, <1>22, <1>23,
       <1>24, <1>25, <1>26, <1>27 DEF Next, Poller

\* The session's clock.
LEMMA StepSession ==
    ASSUME TimerInv, [Next]_vars
    PROVE  SessionInv'
<1> USE PollTimerAssumption DEF TimerInv, TimerTypeOK, SessionInv, Place, Blocked
<1>1. CASE BeginRound
  BY <1>1 DEF BeginRound, At, place, session, clocks, settings
<1>2. CASE NextUri
  BY <1>2 DEF NextUri, At, place, session, clocks, settings
<1>3. CASE EndRound
  BY <1>3 DEF EndRound, At, BlockFor, place, session, clocks, settings
<1>4. CASE WakeUp
  BY <1>4 DEF WakeUp, At, place, session, clocks, settings
<1>5. CASE BeginConnect
  BY <1>5 DEF BeginConnect, At, place, session, clocks, settings
<1>6. CASE Connected
  BY <1>6 DEF Connected, At, place, session, clocks, settings
<1>7. CASE ConnectWaits
  BY <1>7 DEF ConnectWaits, At, BlockFor, place, session, clocks, settings
<1>8. CASE ConnectWakes
  BY <1>8 DEF ConnectWakes, At, place, session, clocks, settings
<1>9. CASE ConnectFails
  BY <1>9 DEF ConnectFails, BlockFor, place, session, clocks, settings
<1>10. CASE Retry
  BY <1>10 DEF Retry, At, place, session, clocks, settings
<1>11. CASE GiveUp
  BY <1>11 DEF GiveUp, At, place, session, clocks, settings
<1>12. CASE BeginWrite
  BY <1>12 DEF BeginWrite, At, NewSession, place, session, clocks, settings
<1>13. CASE Written
  BY <1>13 DEF Written, Writing, NewSession, place, session, clocks, settings
<1>14. CASE WrittenLate
  BY <1>14 DEF WrittenLate, Writing, EndSession, NewSession, place, session, clocks, settings
<1>15. CASE WriteSome
  BY <1>15, RemainingIs DEF WriteSome, Writing, TimeRemaining, place, session, clocks, settings
<1>16. CASE WriteWaits
  BY <1>16 DEF WriteWaits, At, BlockFor, place, session, clocks, settings
<1>17. CASE WriteWakes
  BY <1>17, RemainingIs DEF WriteWakes, TimeRemaining, place, session, clocks, settings
<1>18. CASE WriteFails
  BY <1>18 DEF WriteFails, EndSession, NewSession, place, session, clocks, settings
<1>19. CASE ReadSome
  BY <1>19, RemainingIs DEF ReadSome, TimeRemaining, place, session, clocks, settings
<1>20. CASE ReadEnds
  BY <1>20 DEF ReadEnds, EndSession, NewSession, place, session, clocks, settings
<1>21. CASE ReadWaits
  BY <1>21 DEF ReadWaits, At, BlockFor, place, session, clocks, settings
<1>22. CASE ReadWakes
  BY <1>22, RemainingIs DEF ReadWakes, TimeRemaining, place, session, clocks, settings
<1>23. CASE Tick
  BY <1>23 DEF Tick, InSession, place, session, clocks, settings
<1>24. CASE \E d \in Jump : SetClock(d)
  BY <1>24, MagnitudeIs DEF SetClock, InSession, place, session, clocks, settings
<1>25. CASE UNCHANGED vars
  BY <1>25 DEF vars, place, session, clocks, settings
<1>26. CASE ReadFlood
  BY <1>26 DEF ReadFlood, place, session, clocks, settings
<1>27. CASE FloodEnds
  BY <1>27, RemainingIs DEF FloodEnds, At, TimeRemaining, place, session, clocks, settings
<1> QED BY <1>1, <1>2, <1>3, <1>4, <1>5, <1>6, <1>7, <1>8, <1>9, <1>10, <1>11, <1>12,
       <1>13, <1>14, <1>15, <1>16, <1>17, <1>18, <1>19, <1>20, <1>21, <1>22, <1>23,
       <1>24, <1>25, <1>26, <1>27 DEF Next, Poller

\* The round's clock.
LEMMA StepRound ==
    ASSUME TimerInv, [Next]_vars
    PROVE  RoundInv'
<1> USE PollTimerAssumption DEF TimerInv, TimerTypeOK, RoundInv, Blocked
<1>1. CASE BeginRound
  BY <1>1 DEF BeginRound, At, place, session, clocks, settings
<1>2. CASE NextUri
  BY <1>2 DEF NextUri, At, place, session, clocks, settings
<1>3. CASE EndRound
  BY <1>3 DEF EndRound, At, BlockFor, place, session, clocks, settings
<1>4. CASE WakeUp
  BY <1>4 DEF WakeUp, At, place, session, clocks, settings
<1>5. CASE BeginConnect
  BY <1>5 DEF BeginConnect, At, place, session, clocks, settings
<1>6. CASE Connected
  BY <1>6 DEF Connected, At, place, session, clocks, settings
<1>7. CASE ConnectWaits
  BY <1>7 DEF ConnectWaits, At, BlockFor, place, session, clocks, settings
<1>8. CASE ConnectWakes
  BY <1>8 DEF ConnectWakes, At, place, session, clocks, settings
<1>9. CASE ConnectFails
  BY <1>9 DEF ConnectFails, BlockFor, place, session, clocks, settings
<1>10. CASE Retry
  BY <1>10 DEF Retry, At, place, session, clocks, settings
<1>11. CASE GiveUp
  BY <1>11 DEF GiveUp, At, place, session, clocks, settings
<1>12. CASE BeginWrite
  BY <1>12 DEF BeginWrite, At, NewSession, place, session, clocks, settings
<1>13. CASE Written
  BY <1>13 DEF Written, Writing, NewSession, place, session, clocks, settings
<1>14. CASE WrittenLate
  BY <1>14 DEF WrittenLate, Writing, EndSession, NewSession, place, session, clocks, settings
<1>15. CASE WriteSome
  BY <1>15 DEF WriteSome, Writing, TimeRemaining, place, session, clocks, settings
<1>16. CASE WriteWaits
  BY <1>16 DEF WriteWaits, At, BlockFor, place, session, clocks, settings
<1>17. CASE WriteWakes
  BY <1>17 DEF WriteWakes, TimeRemaining, place, session, clocks, settings
<1>18. CASE WriteFails
  BY <1>18 DEF WriteFails, EndSession, NewSession, place, session, clocks, settings
<1>19. CASE ReadSome
  BY <1>19 DEF ReadSome, TimeRemaining, place, session, clocks, settings
<1>20. CASE ReadEnds
  BY <1>20 DEF ReadEnds, EndSession, NewSession, place, session, clocks, settings
<1>21. CASE ReadWaits
  BY <1>21 DEF ReadWaits, At, BlockFor, place, session, clocks, settings
<1>22. CASE ReadWakes
  BY <1>22 DEF ReadWakes, TimeRemaining, place, session, clocks, settings
<1>23. CASE Tick
  BY <1>23 DEF Tick, InSession, place, session, clocks, settings
<1>24. CASE \E d \in Jump : SetClock(d)
  BY <1>24, MagnitudeIs DEF SetClock, InSession, place, session, clocks, settings
<1>25. CASE UNCHANGED vars
  BY <1>25 DEF vars, place, session, clocks, settings
<1>26. CASE ReadFlood
  BY <1>26 DEF ReadFlood, place, session, clocks, settings
<1>27. CASE FloodEnds
  BY <1>27, RemainingIs DEF FloodEnds, At, TimeRemaining, place, session, clocks, settings
<1> QED BY <1>1, <1>2, <1>3, <1>4, <1>5, <1>6, <1>7, <1>8, <1>9, <1>10, <1>11, <1>12,
       <1>13, <1>14, <1>15, <1>16, <1>17, <1>18, <1>19, <1>20, <1>21, <1>22, <1>23,
       <1>24, <1>25, <1>26, <1>27 DEF Next, Poller

\* The budgets of read and write, and the pause.
LEMMA StepBudgets ==
    ASSUME TimerInv, [Next]_vars
    PROVE  ReadBudget' /\ WriteBudget' /\ SleepBounded'
<1> USE PollTimerAssumption DEF TimerInv, TimerTypeOK, SessionInv, ReadBudget, WriteBudget, SleepBounded, Blocked
<1>1. CASE BeginRound
  BY <1>1 DEF BeginRound, At, place, session, clocks, settings
<1>2. CASE NextUri
  BY <1>2 DEF NextUri, At, place, session, clocks, settings
<1>3. CASE EndRound
  BY <1>3, PauseIs, Wrapped DEF EndRound, At, BlockFor, place, session, clocks, settings
<1>4. CASE WakeUp
  BY <1>4 DEF WakeUp, At, place, session, clocks, settings
<1>5. CASE BeginConnect
  BY <1>5 DEF BeginConnect, At, place, session, clocks, settings
<1>6. CASE Connected
  BY <1>6 DEF Connected, At, place, session, clocks, settings
<1>7. CASE ConnectWaits
  BY <1>7 DEF ConnectWaits, At, BlockFor, place, session, clocks, settings
<1>8. CASE ConnectWakes
  BY <1>8 DEF ConnectWakes, At, place, session, clocks, settings
<1>9. CASE ConnectFails
  BY <1>9 DEF ConnectFails, BlockFor, place, session, clocks, settings
<1>10. CASE Retry
  BY <1>10 DEF Retry, At, place, session, clocks, settings
<1>11. CASE GiveUp
  BY <1>11 DEF GiveUp, At, place, session, clocks, settings
<1>12. CASE BeginWrite
  BY <1>12 DEF BeginWrite, At, NewSession, place, session, clocks, settings
<1>13. CASE Written
  BY <1>13 DEF Written, Writing, NewSession, place, session, clocks, settings
<1>14. CASE WrittenLate
  BY <1>14 DEF WrittenLate, Writing, EndSession, NewSession, place, session, clocks, settings
<1>15. CASE WriteSome
  BY <1>15 DEF WriteSome, Writing, TimeRemaining, place, session, clocks, settings
<1>16. CASE WriteWaits
  BY <1>16 DEF WriteWaits, At, BlockFor, place, session, clocks, settings
<1>17. CASE WriteWakes
  BY <1>17 DEF WriteWakes, TimeRemaining, place, session, clocks, settings
<1>18. CASE WriteFails
  BY <1>18 DEF WriteFails, EndSession, NewSession, place, session, clocks, settings
<1>19. CASE ReadSome
  BY <1>19 DEF ReadSome, TimeRemaining, place, session, clocks, settings
<1>20. CASE ReadEnds
  BY <1>20 DEF ReadEnds, EndSession, NewSession, place, session, clocks, settings
<1>21. CASE ReadWaits
  BY <1>21 DEF ReadWaits, At, BlockFor, place, session, clocks, settings
<1>22. CASE ReadWakes
  BY <1>22 DEF ReadWakes, TimeRemaining, place, session, clocks, settings
<1>23. CASE Tick
  BY <1>23 DEF Tick, InSession, place, session, clocks, settings
<1>24. CASE \E d \in Jump : SetClock(d)
  BY <1>24, MagnitudeIs DEF SetClock, InSession, place, session, clocks, settings
<1>25. CASE UNCHANGED vars
  BY <1>25 DEF vars, place, session, clocks, settings
<1>26. CASE ReadFlood
  BY <1>26 DEF ReadFlood, place, session, clocks, settings
<1>27. CASE FloodEnds
  BY <1>27, RemainingIs DEF FloodEnds, At, TimeRemaining, place, session, clocks, settings
<1> QED BY <1>1, <1>2, <1>3, <1>4, <1>5, <1>6, <1>7, <1>8, <1>9, <1>10, <1>11, <1>12,
       <1>13, <1>14, <1>15, <1>16, <1>17, <1>18, <1>19, <1>20, <1>21, <1>22, <1>23,
       <1>24, <1>25, <1>26, <1>27 DEF Next, Poller

LEMMA TimerInvHolds == Spec => []TimerInv
<1>1. TimerInv /\ [Next]_vars => TimerInv'
  BY StepTypes, StepSession, StepRound, StepBudgets DEF TimerInv
<1> QED BY InitTimer, <1>1, PTL DEF Spec

-----------------------------------------------------------------------------
(* Theorems *)

\* Every variable has its type: no call of poll(), sleep() or usleep() by connect, write,
\* read or the poller is for a negative time.
THEOREM TimerTypeCorrect == Spec => []TimerTypeOK
<1>1. TimerInv => TimerTypeOK
  BY DEF TimerInv
<1> QED BY TimerInvHolds, <1>1, PTL

\* sp_memcache_read keeps its budget, whatever arrives when.
THEOREM ReadsInTime == Spec => []ReadBudget
<1>1. TimerInv => ReadBudget
  BY DEF TimerInv
<1> QED BY TimerInvHolds, <1>1, PTL

\* sp_memcache_write waits less than twice its budget.
THEOREM WritesInTime == Spec => []WriteBudget
<1>1. TimerInv => WriteBudget
  BY DEF TimerInv
<1> QED BY TimerInvHolds, <1>1, PTL

\* The pause of runBackend is bounded, however the clock is set.
THEOREM PauseBounded == Spec => []SleepBounded
<1>1. TimerInv => SleepBounded
  BY DEF TimerInv
<1> QED BY TimerInvHolds, <1>1, PTL

\* The poll interval is kept if useconds_t can count it and nobody sets the clock.
THEOREM IntervalIsKept ==
    ASSUME PollFreq < UsecSpan
    PROVE  Spec => []IntervalKept
<1>1. Init => IntervalKept
  BY DEF Init, IntervalKept
<1>2. TimerInv /\ IntervalKept /\ [Next]_vars => IntervalKept'
  <2> SUFFICES ASSUME TimerInv, IntervalKept, [Next]_vars
               PROVE  IntervalKept'
    OBVIOUS
  <2> USE PollTimerAssumption DEF TimerInv, TimerTypeOK, RoundInv, IntervalKept, Blocked
  <2>1. CASE BeginRound
    BY <2>1 DEF BeginRound, At, place, session, clocks, settings
  <2>2. CASE NextUri
    BY <2>2 DEF NextUri, At, place, session, clocks, settings
  <2>3. CASE EndRound
    <3> SUFFICES ASSUME jumps = 0 PROVE round + left' >= PollFreq
      BY <2>3 DEF EndRound, clocks, settings
    <3>1. then = round /\ then \in Nat /\ left' = Pause(then) % UsecSpan /\ round' = round
      BY <2>3 DEF EndRound, BlockFor, clocks
    <3>2. Pause(then) \in Nat /\ left' \in Nat
      BY <3>1, PauseIs, Wrapped
    <3>3. CASE then > PollFreq
      BY <3>1, <3>2, <3>3
    <3>4. CASE then <= PollFreq
      <4>1. Pause(then) = PollFreq - then
        BY <3>1, <3>4 DEF Pause
      <4>2. left' = Pause(then)
        BY <3>1, <3>2, <4>1, Wrapped
      <4> QED BY <3>1, <4>1, <4>2
    <3> QED BY <3>1, <3>3, <3>4
  <2>4. CASE WakeUp
    BY <2>4 DEF WakeUp, At, place, session, clocks, settings
  <2>5. CASE BeginConnect
    BY <2>5 DEF BeginConnect, At, place, session, clocks, settings
  <2>6. CASE Connected
    BY <2>6 DEF Connected, At, place, session, clocks, settings
  <2>7. CASE ConnectWaits
    BY <2>7 DEF ConnectWaits, At, BlockFor, place, session, clocks, settings
  <2>8. CASE ConnectWakes
    BY <2>8 DEF ConnectWakes, At, place, session, clocks, settings
  <2>9. CASE ConnectFails
    BY <2>9 DEF ConnectFails, BlockFor, place, session, clocks, settings
  <2>10. CASE Retry
    BY <2>10 DEF Retry, At, place, session, clocks, settings
  <2>11. CASE GiveUp
    BY <2>11 DEF GiveUp, At, place, session, clocks, settings
  <2>12. CASE BeginWrite
    BY <2>12 DEF BeginWrite, At, NewSession, place, session, clocks, settings
  <2>13. CASE Written
    BY <2>13 DEF Written, Writing, NewSession, place, session, clocks, settings
  <2>14. CASE WrittenLate
    BY <2>14 DEF WrittenLate, Writing, EndSession, NewSession, place, session, clocks, settings
  <2>15. CASE WriteSome
    BY <2>15 DEF WriteSome, Writing, TimeRemaining, place, session, clocks, settings
  <2>16. CASE WriteWaits
    BY <2>16 DEF WriteWaits, At, BlockFor, place, session, clocks, settings
  <2>17. CASE WriteWakes
    BY <2>17 DEF WriteWakes, TimeRemaining, place, session, clocks, settings
  <2>18. CASE WriteFails
    BY <2>18 DEF WriteFails, EndSession, NewSession, place, session, clocks, settings
  <2>19. CASE ReadSome
    BY <2>19 DEF ReadSome, TimeRemaining, place, session, clocks, settings
  <2>20. CASE ReadEnds
    BY <2>20 DEF ReadEnds, EndSession, NewSession, place, session, clocks, settings
  <2>21. CASE ReadWaits
    BY <2>21 DEF ReadWaits, At, BlockFor, place, session, clocks, settings
  <2>22. CASE ReadWakes
    BY <2>22 DEF ReadWakes, TimeRemaining, place, session, clocks, settings
  <2>23. CASE Tick
    BY <2>23 DEF Tick, InSession, place, session, clocks, settings
  <2>24. CASE \E d \in Jump : SetClock(d)
    BY <2>24 DEF SetClock, InSession, place, session, clocks, settings
  <2>25. CASE UNCHANGED vars
    BY <2>25 DEF vars, place, session, clocks, settings
  <2>26. CASE ReadFlood
    BY <2>26 DEF ReadFlood, place, session, clocks, settings
  <2>27. CASE FloodEnds
    BY <2>27 DEF FloodEnds, At, TimeRemaining, place, session, clocks, settings
  <2> QED BY <2>1, <2>2, <2>3, <2>4, <2>5, <2>6, <2>7, <2>8, <2>9, <2>10, <2>11, <2>12,
         <2>13, <2>14, <2>15, <2>16, <2>17, <2>18, <2>19, <2>20, <2>21, <2>22, <2>23,
         <2>24, <2>25, <2>26, <2>27 DEF Next, Poller
<1> QED BY TimerInvHolds, <1>1, <1>2, PTL DEF Spec
=============================================================================
