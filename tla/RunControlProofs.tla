--------------------------- MODULE RunControlProofs ---------------------------
(***************************************************************************)
(* Proofs about the run control of bus_processor, for every number of      *)
(* lcores, every --time, timer period and delay of the auxiliary thread.   *)
(*                                                                         *)
(* m_statDisplaySec is not a clock: DisplayStatistic adds one period per   *)
(* timer read, however often the timer expired.  ClockInv says how far it  *)
(* can be from the time since the start: it is ahead when an expiration    *)
(* before the start is read after it, and behind only when two expirations *)
(* are read as one.                                                        *)
(***************************************************************************)
EXTENDS RunControl, NumberFacts

\* The types the arithmetic needs.
ClockType ==
  /\ runTimeSec \in Nat
  /\ now \in Nat
  /\ dueAt \in Nat
  /\ statSec \in Nat
  /\ startedAt \in Nat
  /\ expiredAt \in Nat

\* When the timer expired last.
LastDue == now - (now % TIMER_PERIOD_SEC)

\* The auxiliary thread is started after the application is built.  The run is
\* marked as started once; before that nothing is counted and the limit cannot
\* end it.
StartInv ==
  /\ mpc = "construct" => apc = "off"
  /\ mpc \in {"construct", "launch", "link"} => ~runStarted
  /\ ~runStarted => statSec = 0 /\ expiredAt = 0
  /\ startedAt <= now

\* An expiration waits to be read, at most MaxAuxDelay seconds.  Between the
\* read and the count of its seconds no other one waits.
DueInv ==
  /\ apc = "port" => dueAt = 0 /\ now <= LastDue + MaxAuxDelay
  /\ apc = "handle" /\ "timer" \in revents => dueAt # 0
  /\ dueAt # 0 => /\ dueAt % TIMER_PERIOD_SEC = 0
                  /\ dueAt <= now
                  /\ now <= dueAt + MaxAuxDelay

\* The seconds counted are at most those since the start, a period and a delay.
NotAhead ==
  runStarted =>
    /\ dueAt = 0 => statSec + startedAt <= LastDue + MaxAuxDelay + TIMER_PERIOD_SEC
    /\ dueAt # 0 => statSec + startedAt <= dueAt + MaxAuxDelay
    /\ apc = "port" => statSec + startedAt <= LastDue + MaxAuxDelay

ClockInv == ClockType /\ StartInv /\ DueInv /\ NotAhead

\* When the timer is read before it expires again, no second is missed.
NotBehind ==
  runStarted =>
    /\ dueAt = 0 /\ apc # "port" => LastDue <= statSec + startedAt
    /\ apc = "port" => LastDue <= statSec + startedAt + TIMER_PERIOD_SEC
    /\ dueAt # 0 => dueAt <= statSec + startedAt + TIMER_PERIOD_SEC

\* The limit is looked at after every change of the seconds counted.
Limited ==
  doWork /\ runTimeSec > 0 /\ apc \in {"off", "loop", "handle"} => statSec < runTimeSec

\* The two halves of TimeLimitKept.
NotTooShort ==
  expiredAt # 0 => expiredAt - startedAt + TIMER_PERIOD_SEC + MaxAuxDelay >= runTimeSec
NotTooLong ==
  doWork /\ runStarted /\ runTimeSec > 0 =>
    now - startedAt <= runTimeSec + TIMER_PERIOD_SEC + MaxAuxDelay

-----------------------------------------------------------------------------
(* What the steps do to the clock, the timer and the counted seconds.      *)

\* The period is positive, delay and start are numbers.
LEMMA Periods ==
  /\ TIMER_PERIOD_SEC \in Nat \ {0} /\ MaxAuxDelay \in Nat
  /\ MaxTime \in Nat /\ RunTimes \subseteq Nat
BY RunAssumption

\* The latest expiration is less than a period ago; a tick moves it on by a
\* period, or not at all.
LEMMA LastDueTick ==
  ASSUME now \in Nat
  PROVE  /\ LastDue \in Int /\ LastDue <= now /\ now < LastDue + TIMER_PERIOD_SEC
         /\ now' = now + 1 /\ now' % TIMER_PERIOD_SEC = 0 =>
              LastDue' = now' /\ now' = LastDue + TIMER_PERIOD_SEC
         /\ now' = now + 1 /\ now' % TIMER_PERIOD_SEC # 0 => LastDue' = LastDue
<1> DEFINE m == now % TIMER_PERIOD_SEC
           p == TIMER_PERIOD_SEC
<1>1. /\ p \in Nat \ {0} /\ m \in Nat /\ m < p
      /\ (now + 1) % p = IF m + 1 = p THEN 0 ELSE m + 1
  BY Periods, NextMod
<1>2. LastDue = now - m
  BY DEF LastDue
<1>3. LastDue' = now' - (now' % p)
  BY DEF LastDue
<1> HIDE DEF m, p
<1>4. LastDue \in Int /\ LastDue <= now /\ now < LastDue + p
  BY <1>1, <1>2
<1>5. ASSUME now' = now + 1, now' % p = 0
      PROVE  LastDue' = now' /\ now' = LastDue + p
  <2>1. m + 1 = p
    BY <1>1, <1>5
  <2>2. QED
    BY <1>1, <1>2, <1>3, <1>5, <2>1
<1>6. ASSUME now' = now + 1, now' % p # 0
      PROVE  LastDue' = LastDue
  <2>1. now' % p = m + 1
    BY <1>1, <1>6
  <2>2. QED
    BY <1>1, <1>2, <1>3, <1>6, <2>1
<1>7. QED
  BY <1>4, <1>5, <1>6 DEF p

\* The expiration that is waiting is not later than the latest one; it is that
\* one when less than a period has passed since.
LEMMA WaitingDue ==
  ASSUME ClockType, DueInv, dueAt # 0
  PROVE  dueAt <= LastDue /\ (now < dueAt + TIMER_PERIOD_SEC => dueAt = LastDue)
<1>1. now \in Nat /\ dueAt \in Nat /\ dueAt % TIMER_PERIOD_SEC = 0 /\ dueAt <= now
  BY DEF ClockType, DueInv
<1>2. QED
  BY <1>1, Periods, LastMultiple DEF LastDue

\* The invariant holds when the process starts.
LEMMA InitClock == Init => ClockInv /\ NotBehind /\ Limited /\ NotTooShort /\ NotTooLong
<1> SUFFICES ASSUME Init
             PROVE  ClockInv /\ NotBehind /\ Limited /\ NotTooShort /\ NotTooLong
  OBVIOUS
<1>1. ClockType
  BY Periods DEF Init, ClockType
<1>2. StartInv /\ DueInv /\ NotAhead
  BY DEF Init, StartInv, DueInv, NotAhead
<1>3. NotBehind /\ Limited /\ NotTooShort /\ NotTooLong
  BY <1>1 DEF Init, NotBehind, Limited, NotTooShort, NotTooLong, ClockType
<1>4. QED
  BY <1>1, <1>2, <1>3 DEF ClockInv

\* What the invariants are about, but the control points.
counted == <<runTimeSec, now, dueAt, statSec, startedAt, expiredAt, runStarted>>

\* A step that neither starts the run nor moves the clock or the timer, and
\* starts nothing that was stopped.
Quiet ==
  /\ UNCHANGED counted
  /\ doWork' => doWork
  /\ mpc' \in {"construct", "launch", "link"} => mpc \in {"construct", "launch", "link"}
  /\ mpc' = "construct" => apc' = "off"
  /\ apc' = "port" <=> apc = "port"
  /\ apc' = "handle" /\ "timer" \in revents' => dueAt # 0
  /\ apc' \in {"off", "loop", "handle"} =>
       \/ apc \in {"off", "loop", "handle"}
       \/ doWork' => ~IsTimeExpired

\* A quiet step keeps the invariants.
LEMMA QuietClock ==
  ASSUME ClockInv, Quiet
  PROVE  /\ ClockInv'
         /\ NotBehind => NotBehind'
         /\ Limited => Limited'
         /\ NotTooShort => NotTooShort'
         /\ NotTooLong => NotTooLong'
<1>1. ClockType'
  BY DEF ClockInv, ClockType, Quiet, counted
<1>2. StartInv'
  BY DEF ClockInv, StartInv, Quiet, counted
<1>3. DueInv'
  BY DEF ClockInv, DueInv, Quiet, counted, LastDue
<1>4. NotAhead' /\ (NotBehind => NotBehind')
  BY DEF ClockInv, NotAhead, NotBehind, Quiet, counted, LastDue
<1>5. Limited => Limited'
  BY DEF ClockInv, ClockType, Limited, Quiet, counted, IsTimeExpired
<1>6. (NotTooShort => NotTooShort') /\ (NotTooLong => NotTooLong')
  BY DEF NotTooShort, NotTooLong, Quiet, counted
<1>7. QED
  BY <1>1, <1>2, <1>3, <1>4, <1>5, <1>6 DEF ClockInv

\* Most steps are quiet.
LEMMA QuietSteps ==
  ASSUME ClockInv,
         \/ Signal \/ Construct \/ Catch \/ Launch \/ Launched \/ Register \/ LoopEnd
         \/ PrintRows \/ FinalPortStat \/ WaitLcores \/ DisplayResults \/ Join
         \/ \E w \in Lcore : WorkerEnd(w)
         \/ AuxPoll \/ AuxSignal \/ AuxSample \/ UNCHANGED vars
  PROVE  Quiet
<1> USE DEF Quiet, counted, clockVars, mainVars, auxVars
<1>1. /\ mpc = "construct" => apc = "off"
      /\ apc = "handle" /\ "timer" \in revents => dueAt # 0
  BY DEF ClockInv, StartInv, DueInv
<1>2. CASE Signal
  BY <1>1, <1>2 DEF Signal
<1>3. CASE Construct
  BY <1>1, <1>3 DEF Construct, Goto
<1>4. CASE Catch \/ LoopEnd \/ FinalPortStat \/ WaitLcores \/ DisplayResults \/ Join \/ PrintRows
  BY <1>1, <1>4 DEF Catch, LoopEnd, FinalPortStat, WaitLcores, DisplayResults, Join, PrintRows, Goto
<1>5. CASE Launch \/ Launched
  BY <1>1, <1>5 DEF Launch, Launched, Goto, Throw
<1>6. CASE Register
  BY <1>1, <1>6 DEF Register, Goto
<1>7. CASE \E w \in Lcore : WorkerEnd(w)
  BY <1>1, <1>7 DEF WorkerEnd
<1>8. CASE AuxPoll
  BY <1>1, <1>8 DEF AuxPoll
<1>9. CASE AuxSignal
  BY <1>1, <1>9 DEF AuxSignal
<1>10. CASE AuxSample
  BY <1>1, <1>10 DEF AuxSample
<1>11. CASE UNCHANGED vars
  BY <1>1, <1>11 DEF vars
<1>12. QED
  BY <1>2, <1>3, <1>4, <1>5, <1>6, <1>7, <1>8, <1>9, <1>10, <1>11

\* A second passes.
LEMMA TickClock ==
  ASSUME ClockInv, Tick
  PROVE  /\ ClockInv'
         /\ NotBehind => NotBehind'
         /\ Limited => Limited'
         /\ NotTooShort => NotTooShort'
         /\ NotBehind /\ Limited => NotTooLong'
<1> DEFINE p == TIMER_PERIOD_SEC
<1>1. /\ ClockType /\ StartInv /\ DueInv /\ NotAhead
      /\ apc = "loop" /\ now' = now + 1 /\ (dueAt # 0 => now < dueAt + MaxAuxDelay)
      /\ dueAt' = (IF dueAt = 0 /\ now' % p = 0 THEN now' ELSE dueAt)
      /\ UNCHANGED <<runTimeSec, statSec, startedAt, expiredAt, runStarted, doWork, mpc, apc, revents>>
  BY DEF ClockInv, Tick, mainVars, auxVars
<1>2. /\ now \in Nat /\ dueAt \in Nat /\ statSec \in Nat /\ startedAt \in Nat
      /\ p \in Nat \ {0} /\ MaxAuxDelay \in Nat /\ runTimeSec \in Nat /\ expiredAt \in Nat
  BY <1>1, Periods DEF ClockType
<1>3. /\ LastDue \in Int /\ LastDue <= now /\ now < LastDue + p
      /\ now' % p = 0 => LastDue' = now' /\ now' = LastDue + p
      /\ now' % p # 0 => LastDue' = LastDue
  BY <1>1, <1>2, LastDueTick
<1> HIDE DEF p
<1>4. ClockType'
  BY <1>1, <1>2 DEF ClockType
<1>5. StartInv'
  BY <1>1, <1>2 DEF StartInv
<1>6. DueInv'
  <2>1. CASE dueAt = 0 /\ now' % p = 0
    BY <1>1, <1>2, <2>1 DEF DueInv, p
  <2>2. CASE ~(dueAt = 0 /\ now' % p = 0)
    BY <1>1, <1>2, <2>2 DEF DueInv
  <2>3. QED
    BY <2>1, <2>2
<1>7. NotAhead'
  <2>1. CASE dueAt # 0
    BY <1>1, <1>2, <2>1 DEF NotAhead
  <2>2. CASE dueAt = 0 /\ now' % p = 0
    BY <1>1, <1>2, <1>3, <2>2 DEF NotAhead, p
  <2>3. CASE dueAt = 0 /\ now' % p # 0
    BY <1>1, <1>2, <1>3, <2>3 DEF NotAhead
  <2>4. QED
    BY <2>1, <2>2, <2>3
<1>8. ASSUME NotBehind PROVE NotBehind'
  <2>1. CASE dueAt # 0
    BY <1>1, <1>2, <1>8, <2>1 DEF NotBehind
  <2>2. CASE dueAt = 0 /\ now' % p = 0
    BY <1>1, <1>2, <1>3, <1>8, <2>2 DEF NotBehind, p
  <2>3. CASE dueAt = 0 /\ now' % p # 0
    BY <1>1, <1>2, <1>3, <1>8, <2>3 DEF NotBehind
  <2>4. QED
    BY <2>1, <2>2, <2>3
<1>9. Limited => Limited'
  BY <1>1 DEF Limited
<1>10. NotTooShort => NotTooShort'
  BY <1>1 DEF NotTooShort
<1>11. ASSUME NotBehind, Limited PROVE NotTooLong'
  <2> SUFFICES ASSUME doWork, runStarted, runTimeSec > 0
               PROVE  now' - startedAt <= runTimeSec + p + MaxAuxDelay
    BY <1>1 DEF NotTooLong, p
  <2>1. statSec < runTimeSec
    BY <1>1, <1>11 DEF Limited
  <2>2. CASE dueAt # 0
    BY <1>1, <1>2, <1>11, <2>1, <2>2 DEF NotBehind, p
  <2>3. CASE dueAt = 0
    BY <1>1, <1>2, <1>3, <1>11, <2>1, <2>3 DEF NotBehind
  <2>4. QED
    BY <2>2, <2>3
<1>12. QED
  BY <1>4, <1>5, <1>6, <1>7, <1>8, <1>9, <1>10, <1>11 DEF ClockInv

\* The link is up and the run starts, or the wait ends with an exception.
LEMMA WaitLinkClock ==
  ASSUME ClockInv, WaitLink
  PROVE  /\ ClockInv'
         /\ NotBehind'
         /\ Limited => Limited'
         /\ NotTooShort => NotTooShort'
         /\ NotTooLong'
<1>1. /\ ClockType /\ StartInv /\ DueInv /\ mpc = "link" /\ ~runStarted
      /\ statSec = 0 /\ expiredAt = 0
      /\ UNCHANGED <<runTimeSec, now, dueAt, statSec, expiredAt, apc, revents>>
  BY DEF ClockInv, StartInv, WaitLink, clockVars, auxVars
<1>2. /\ now \in Nat /\ dueAt \in Nat /\ startedAt \in Nat /\ runTimeSec \in Nat
      /\ TIMER_PERIOD_SEC \in Nat \ {0} /\ MaxAuxDelay \in Nat
      /\ LastDue \in Int /\ LastDue <= now /\ now < LastDue + TIMER_PERIOD_SEC
      /\ LastDue' = LastDue
  BY <1>1, Periods, LastDueTick DEF ClockType, LastDue
<1>3. CASE runStarted' = TRUE /\ startedAt' = now /\ doWork' = doWork /\ mpc' = "register"
  <2>1. ClockType' /\ StartInv' /\ DueInv'
    BY <1>1, <1>2, <1>3 DEF ClockType, StartInv, DueInv
  <2>2. NotAhead' /\ NotBehind'
    BY <1>1, <1>2, <1>3 DEF DueInv, NotAhead, NotBehind
  <2>3. (Limited => Limited') /\ NotTooShort' /\ NotTooLong'
    BY <1>1, <1>2, <1>3 DEF Limited, NotTooShort, NotTooLong
  <2>4. QED
    BY <2>1, <2>2, <2>3 DEF ClockInv
<1>4. CASE /\ runStarted' = runStarted /\ startedAt' = startedAt
           /\ (doWork' => doWork) /\ mpc' = "catch"
  <2>1. ClockType' /\ StartInv' /\ DueInv'
    BY <1>1, <1>2, <1>4 DEF ClockType, StartInv, DueInv
  <2>2. NotAhead' /\ NotBehind'
    BY <1>1, <1>4 DEF NotAhead, NotBehind
  <2>3. (Limited => Limited') /\ (NotTooShort => NotTooShort') /\ NotTooLong'
    BY <1>1, <1>4 DEF Limited, NotTooShort, NotTooLong
  <2>4. QED
    BY <2>1, <2>2, <2>3 DEF ClockInv
<1>5. doWork' \in {FALSE, doWork} => (doWork' => doWork)
  BY Zenon
<1>6. \/ runStarted' = TRUE /\ startedAt' = now /\ doWork' = doWork /\ mpc' = "register"
      \/ /\ runStarted' = runStarted /\ startedAt' = startedAt
         /\ doWork' \in {FALSE, doWork} /\ mpc' = "catch"
  BY Zenon DEF WaitLink, Goto, Throw
<1>7. QED
  BY <1>3, <1>4, <1>5, <1>6, Zenon

\* The timer is read: when the thread is never a period late, the latest
\* expiration is.
LEMMA AuxTimerClock ==
  ASSUME ClockInv, AuxTimer
  PROVE  /\ ClockInv'
         /\ MaxAuxDelay < TIMER_PERIOD_SEC /\ NotBehind => NotBehind'
         /\ Limited'
         /\ NotTooShort => NotTooShort'
         /\ NotTooLong => NotTooLong'
<1>1. /\ ClockType /\ StartInv /\ DueInv /\ NotAhead /\ dueAt # 0
      /\ apc = "handle" /\ apc' = "port" /\ dueAt' = 0
      /\ UNCHANGED <<runTimeSec, now, statSec, startedAt, expiredAt, runStarted, doWork, mpc, revents>>
  BY DEF ClockInv, DueInv, AuxTimer, clockVars, mainVars
<1>2. /\ now \in Nat /\ dueAt \in Nat /\ startedAt \in Nat /\ runTimeSec \in Nat
      /\ statSec \in Nat /\ expiredAt \in Nat
      /\ TIMER_PERIOD_SEC \in Nat \ {0} /\ MaxAuxDelay \in Nat
      /\ LastDue \in Int /\ LastDue' = LastDue
  BY <1>1, Periods, LastDueTick DEF ClockType, LastDue
<1>3. /\ dueAt <= LastDue
      /\ now < dueAt + TIMER_PERIOD_SEC => dueAt = LastDue
      /\ now <= dueAt + MaxAuxDelay
  BY <1>1, WaitingDue DEF DueInv
<1>4. ClockType' /\ StartInv' /\ DueInv'
  BY <1>1, <1>2, <1>3 DEF ClockType, StartInv, DueInv
<1>5. NotAhead'
  BY <1>1, <1>2, <1>3 DEF NotAhead
<1>6. MaxAuxDelay < TIMER_PERIOD_SEC /\ NotBehind => NotBehind'
  BY <1>1, <1>2, <1>3 DEF NotBehind
<1>7. Limited' /\ (NotTooShort => NotTooShort') /\ (NotTooLong => NotTooLong')
  BY <1>1 DEF Limited, NotTooShort, NotTooLong
<1>8. QED
  BY <1>4, <1>5, <1>6, <1>7 DEF ClockInv

\* Its seconds are counted, if the run has started by now.
LEMMA AuxPortClock ==
  ASSUME ClockInv, AuxPort
  PROVE  /\ ClockInv'
         /\ NotBehind => NotBehind'
         /\ Limited'
         /\ NotTooShort => NotTooShort'
         /\ NotTooLong => NotTooLong'
<1>1. /\ ClockType /\ StartInv /\ DueInv /\ NotAhead
      /\ apc = "port" /\ apc' = "sample" /\ dueAt = 0
      /\ statSec' = statSec + (IF runStarted THEN TIMER_PERIOD_SEC ELSE 0)
      /\ UNCHANGED <<runTimeSec, now, dueAt, startedAt, expiredAt, runStarted, doWork, mpc, revents>>
  BY DEF ClockInv, DueInv, AuxPort, Counted, clockVars, mainVars
<1>2. /\ now \in Nat /\ dueAt \in Nat /\ startedAt \in Nat /\ runTimeSec \in Nat
      /\ statSec \in Nat /\ expiredAt \in Nat
      /\ TIMER_PERIOD_SEC \in Nat \ {0} /\ MaxAuxDelay \in Nat
      /\ LastDue \in Int /\ LastDue' = LastDue
  BY <1>1, Periods, LastDueTick DEF ClockType, LastDue
<1>3. ClockType' /\ StartInv' /\ DueInv'
  BY <1>1, <1>2 DEF ClockType, StartInv, DueInv
<1>4. NotAhead'
  BY <1>1, <1>2 DEF NotAhead
<1>5. NotBehind => NotBehind'
  BY <1>1, <1>2 DEF NotBehind
<1>6. Limited' /\ (NotTooShort => NotTooShort') /\ (NotTooLong => NotTooLong')
  BY <1>1 DEF Limited, NotTooShort, NotTooLong
<1>7. QED
  BY <1>3, <1>4, <1>5, <1>6 DEF ClockInv

\* The limit is looked at; when it ends the run, the run has lasted long enough.
LEMMA AuxLimitClock ==
  ASSUME ClockInv, AuxLimit
  PROVE  /\ ClockInv'
         /\ NotBehind => NotBehind'
         /\ Limited'
         /\ NotTooShort => NotTooShort'
         /\ NotTooLong => NotTooLong'
<1>1. /\ ClockType /\ StartInv /\ DueInv /\ NotAhead
      /\ apc' = "loop" /\ (doWork' => doWork /\ ~IsTimeExpired)
      /\ expiredAt' = (IF IsTimeExpired /\ doWork THEN now ELSE expiredAt)
      /\ UNCHANGED <<runTimeSec, now, dueAt, statSec, startedAt, runStarted, mpc, revents>>
      /\ apc = "limit"
  BY DEF ClockInv, AuxLimit, clockVars, mainVars
<1>2. /\ now \in Nat /\ dueAt \in Nat /\ startedAt \in Nat /\ runTimeSec \in Nat
      /\ statSec \in Nat /\ expiredAt \in Nat
      /\ TIMER_PERIOD_SEC \in Nat \ {0} /\ MaxAuxDelay \in Nat
      /\ LastDue \in Int /\ LastDue <= now /\ LastDue' = LastDue
  BY <1>1, Periods, LastDueTick DEF ClockType, LastDue
<1>3. IsTimeExpired => runStarted /\ statSec >= runTimeSec
  BY <1>1, <1>2 DEF IsTimeExpired, StartInv
<1>4. ClockType' /\ StartInv' /\ DueInv'
  BY <1>1, <1>2, <1>3 DEF ClockType, StartInv, DueInv
<1>5. NotAhead' /\ (NotBehind => NotBehind')
  BY <1>1, <1>2 DEF NotAhead, NotBehind
<1>6. Limited'
  BY <1>1, <1>2 DEF Limited, IsTimeExpired
<1>7. NotTooShort => NotTooShort'
  <2>1. CASE IsTimeExpired /\ doWork
    <3>1. statSec + startedAt <= now + MaxAuxDelay + TIMER_PERIOD_SEC
      BY <1>1, <1>2, <1>3, <2>1 DEF NotAhead, DueInv
    <3>2. QED
      BY <1>1, <1>2, <1>3, <2>1, <3>1 DEF NotTooShort
  <2>2. CASE ~(IsTimeExpired /\ doWork)
    BY <1>1, <2>2 DEF NotTooShort
  <2>3. QED
    BY <2>1, <2>2
<1>8. NotTooLong => NotTooLong'
  BY <1>1 DEF NotTooLong
<1>9. QED
  BY <1>4, <1>5, <1>6, <1>7, <1>8 DEF ClockInv

-----------------------------------------------------------------------------
(* The theorems.                                                           *)

\* Every step keeps the invariants; that no second is missed needs an auxiliary
\* thread that is never a period late.
LEMMA ClockStep ==
  ASSUME ClockInv, [Next]_vars
  PROVE  /\ ClockInv'
         /\ NotTooShort => NotTooShort'
         /\ MaxAuxDelay < TIMER_PERIOD_SEC /\ NotBehind => NotBehind'
         /\ Limited => Limited'
         /\ NotBehind /\ Limited /\ NotTooLong => NotTooLong'
<1>1. CASE Tick
  BY <1>1, TickClock
<1>2. CASE WaitLink
  BY <1>2, WaitLinkClock
<1>3. CASE AuxTimer
  BY <1>3, AuxTimerClock
<1>4. CASE AuxLimit
  BY <1>4, AuxLimitClock
<1>5. CASE AuxPort
  BY <1>5, AuxPortClock
<1>6. CASE Quiet
  BY <1>6, QuietClock
<1>7. QED
  BY <1>1, <1>2, <1>3, <1>4, <1>5, <1>6, QuietSteps DEF Next, Main, Aux, Ended

\* The clock facts hold throughout every run.
LEMMA ClockHolds == Spec => [](ClockInv /\ NotTooShort)
<1>1. Init => ClockInv /\ NotTooShort
  BY InitClock
<1>2. (ClockInv /\ NotTooShort) /\ [Next]_vars => (ClockInv /\ NotTooShort)'
  BY ClockStep
<1>3. QED
  BY <1>1, <1>2, PTL DEF Spec

\* A run that --time ended was not cut short: however late the auxiliary thread
\* reads the timer and however long the link took, the run lasted as long as
\* asked, less at most one period and one delay (IsTimeExpired).
THEOREM NotCutShort == Spec => []NotTooShort
BY ClockHolds, PTL

\* --time is kept in both directions as long as the auxiliary thread reads the
\* timer before it expires again.  Without that the seconds shown fall behind:
\* DisplayStatistic counts a read, not the expirations it is told of.
THEOREM LimitIsKept ==
  ASSUME MaxAuxDelay < TIMER_PERIOD_SEC
  PROVE  Spec => []TimeLimitKept
<1> DEFINE Inv == ClockInv /\ NotTooShort /\ NotBehind /\ Limited /\ NotTooLong
<1>1. Init => Inv
  BY InitClock
<1>2. Inv /\ [Next]_vars => Inv'
  BY ClockStep
<1>3. Inv => TimeLimitKept
  BY DEF NotTooShort, NotTooLong, TimeLimitKept
<1>4. QED
  BY <1>1, <1>2, <1>3, PTL DEF Spec

\* Main is past its loop and on its way to the summary.
Ending == mpc \in {"print", "stats", "wait", "results"}

\* Of the actors that reach the summary only the auxiliary thread clears
\* g_doWork, and then it goes back to the head of its loop and ends, unless the
\* signal came together with the timer.  Afterwards m_lastPortStat is main's.
PortInv ==
  /\ mpc = "construct" => doWork /\ apc = "off"
  /\ Ending => ~doWork
  /\ ~doWork /\ ~oneLeft /\ mpc \notin {"catch", "join", "exit"} => apc \in {"loop", "done"}
  /\ mpc \in {"wait", "results"} /\ ~oneLeft => portStat = {"main"}

\* A step of main keeps PortInv.
LEMMA MainPort == PortInv /\ Main => PortInv'
<1> SUFFICES ASSUME PortInv, Main
             PROVE  PortInv'
  OBVIOUS
<1> USE DEF PortInv, Ending, Goto, Throw, clockVars, auxVars
<1>1. CASE Construct
  BY <1>1 DEF Construct
<1>2. CASE Catch \/ Launch \/ Launched
  BY <1>2 DEF Catch, Launch, Launched
<1>3. CASE WaitLink
  <2>1. UNCHANGED <<apc, oneLeft, portStat>>
    BY <1>3 DEF WaitLink
  <2>2. mpc = "link" /\ ((mpc' = "register" /\ doWork' = doWork) \/ mpc' = "catch")
    BY <1>3, Zenon DEF WaitLink
  <2>3. QED
    BY <2>1, <2>2
<1>4. CASE Register \/ LoopEnd \/ PrintRows
  BY <1>4 DEF Register, LoopEnd, PrintRows
<1>5. CASE FinalPortStat
  <2>1. /\ mpc = "stats" /\ mpc' = "wait" /\ UNCHANGED <<doWork, apc, oneLeft>>
        /\ apc # "port" => portStat' = {"main"}
    BY <1>5 DEF FinalPortStat
  <2>2. QED
    BY <2>1
<1>6. CASE WaitLcores \/ DisplayResults \/ Join
  BY <1>6 DEF WaitLcores, DisplayResults, Join
<1>7. QED
  BY <1>1, <1>2, <1>3, <1>4, <1>5, <1>6 DEF Main

\* So does a step of the auxiliary thread.
LEMMA AuxPortStep == PortInv /\ Aux => PortInv'
<1> SUFFICES ASSUME PortInv, Aux
             PROVE  PortInv'
  OBVIOUS
<1> USE DEF PortInv, Ending, clockVars, mainVars
<1>1. CASE AuxPoll
  BY <1>1 DEF AuxPoll
<1>2. CASE AuxSignal
  <2>1. /\ apc = "handle" /\ ~doWork' /\ UNCHANGED <<mpc, portStat>>
        /\ ~oneLeft' => ~oneLeft /\ apc' = "loop"
    BY <1>2 DEF AuxSignal
  <2>2. QED
    BY <2>1
<1>3. CASE AuxTimer \/ AuxPort \/ AuxSample
  <2>1. /\ apc \in {"handle", "port", "sample"}
        /\ UNCHANGED <<mpc, doWork, oneLeft>>
    BY <1>3 DEF AuxTimer, AuxPort, AuxSample
  <2>2. QED
    BY <2>1
<1>4. CASE AuxLimit
  <2>1. /\ apc = "limit" /\ apc' = "loop" /\ UNCHANGED <<mpc, oneLeft, portStat>>
        /\ doWork' = (doWork /\ ~IsTimeExpired)
    BY <1>4 DEF AuxLimit
  <2>2. ~doWork => ~doWork'
    BY <2>1, Zenon
  <2>3. QED
    BY <2>1, <2>2 DEF IsTimeExpired
<1>5. QED
  BY <1>1, <1>2, <1>3, <1>4 DEF Aux

\* When DisplayResults shows the NIC's counters they are the ones main read after
\* the loop, and no display is writing them, for any number of lcores, any
\* period and delay of the timer: the only exception is a signal the auxiliary
\* thread's poll reported together with the timer.
THEOREM SummaryHolds == Spec => []SummaryIsFinal
<1>1. Init => PortInv
  BY DEF Init, PortInv, Ending
<1>2. PortInv /\ [Next]_vars => PortInv'
  <2> SUFFICES ASSUME PortInv, [Next]_vars
               PROVE  PortInv'
    OBVIOUS
  <2> DEFINE shared == <<mpc, doWork, apc, oneLeft, portStat>>
  <2>1. CASE UNCHANGED shared
    BY <2>1 DEF PortInv, Ending
  <2>2. Tick \/ Signal \/ (\E w \in Lcore : WorkerEnd(w)) \/ Ended \/ UNCHANGED vars
          => UNCHANGED shared
    BY DEF Tick, Signal, WorkerEnd, Ended, vars, mainVars, auxVars
  <2>3. QED
    BY <2>1, <2>2, MainPort, AuxPortStep DEF Next
<1>3. PortInv => SummaryIsFinal
  BY DEF PortInv, Ending, SummaryIsFinal
<1>4. QED
  BY <1>1, <1>2, <1>3, PTL DEF Spec
=============================================================================
