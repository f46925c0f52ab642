------------------------------ MODULE RunControl ------------------------------
(***************************************************************************)
(* Start, supervision and shutdown of bus_processor.  The main thread      *)
(* builds the application, starts the auxiliary thread, and runs one of    *)
(* the two loop functions; the multi-core one launches a worker per lcore. *)
(* The auxiliary thread waits for signals and for a periodic timer; the    *)
(* timer shows the statistics and enforces --time.  Whoever wants the run  *)
(* to end clears g_doWork, and everyone polls it.                          *)
(*                                                                         *)
(* The load statistics of the loops are objects of the loop function: one  *)
(* on its stack, the workers' in its vector of LCoreProcessor.  They exist *)
(* until that function returns or throws; RX_Application keeps pointers.   *)
(* The NIC's counters are kept in m_lastPortStat, which both threads fill  *)
(* without a lock: rte_eth_stats_get clears it and writes it word by word. *)
(* Frames are not modelled here: SoftwareRSS has the loops.                *)
(***************************************************************************)
EXTENDS Naturals, Sequences

CONSTANTS
  LcoreCounts,       \* values of rte_lcore_count() considered
  RunTimes,          \* --time values considered, 0 for none
  TIMER_PERIOD_SEC,  \* period of the statistics timer
  LinkWaitSec,       \* longest wait for the link
  MaxAuxDelay,       \* seconds the auxiliary thread may leave a timer unread
  MaxTime            \* bound: seconds a behaviour lasts

ASSUME RunAssumption ==
  /\ LcoreCounts \subseteq Nat \ {0}
  /\ RunTimes \subseteq Nat
  /\ TIMER_PERIOD_SEC \in Nat \ {0}
  /\ LinkWaitSec \in Nat
  /\ MaxAuxDelay \in Nat
  /\ MaxTime \in Nat

Lcore == UNION {1 .. c - 1 : c \in LcoreCounts}

\* Owners of a load statistic: the main loop is 0.
Owner == {0} \cup Lcore

VARIABLES
  lcores,      \* rte_lcore_count()
  runTimeSec,  \* m_runTimeSec
  now,         \* seconds since the auxiliary thread was started
  doWork,      \* g_doWork
  signalled,   \* a signal waits in the signal descriptor
  dueAt,       \* when the oldest unread timer expiration happened, 0 for none
  mpc,         \* control point of the main thread
  row,         \* the lcore main launches, registers or prints next
  wpc,         \* control point of each worker lcore
  alive,       \* statistics that exist
  finished,    \* statistics whose MarkFinishCycling has run
  cycleStats,  \* m_cycleStats
  runStarted,  \* m_runStarted
  statSec,     \* m_statDisplaySec
  apc,         \* control point of the auxiliary thread
  revents,     \* what its latest poll reported
  sample,      \* position in cycleStats it samples next
  portStat,    \* m_lastPortStat: the threads whose sample its words come from
  startedAt,   \* history: when the run was marked as started
  expiredAt,   \* history: when the time limit ended the run, 0 for never
  oneLeft      \* history: the poll that saw the signal saw the timer too

clockVars == <<lcores, runTimeSec, now>>
mainVars == <<mpc, row, alive, cycleStats, runStarted, startedAt>>
auxVars == <<apc, revents, sample, statSec, expiredAt, oneLeft>>
vars == <<clockVars, doWork, signalled, dueAt, mainVars, wpc, finished, auxVars, portStat>>

WorkerNum == lcores - 1

Init ==
  /\ lcores \in LcoreCounts
  /\ runTimeSec \in RunTimes
  /\ now = 0
  /\ doWork = TRUE
  /\ signalled = FALSE
  /\ dueAt = 0
  /\ mpc = "construct"
  /\ row = 1
  /\ wpc = [w \in Lcore |-> "off"]
  /\ alive = {}
  /\ finished = {}
  /\ cycleStats = << >>
  /\ runStarted = FALSE
  /\ statSec = 0
  /\ apc = "off"
  /\ revents = {}
  /\ sample = 1
  /\ portStat = {}
  /\ startedAt = 0
  /\ expiredAt = 0
  /\ oneLeft = FALSE

-----------------------------------------------------------------------------
(* The environment.                                                        *)

\* The timer runs since the auxiliary thread was started.  The thread reads it
\* within MaxAuxDelay seconds and is back at its poll in the same second; the
\* wait for the link ends in time.
Tick ==
  /\ apc = "loop"
  /\ now < MaxTime
  /\ dueAt # 0 => now < dueAt + MaxAuxDelay
  /\ mpc = "link" => now < LinkWaitSec
  /\ now' = now + 1
  /\ dueAt' = IF dueAt = 0 /\ now' % TIMER_PERIOD_SEC = 0 THEN now' ELSE dueAt
  /\ UNCHANGED <<lcores, runTimeSec, doWork, signalled, mainVars, wpc, finished, auxVars,
                 portStat>>

\* SIGINT or SIGTERM.
Signal ==
  /\ ~signalled
  /\ apc \notin {"off", "done"}
  /\ signalled' = TRUE
  /\ UNCHANGED <<clockVars, doWork, dueAt, mainVars, wpc, finished, auxVars, portStat>>

-----------------------------------------------------------------------------
(* The main thread.                                                        *)

Goto(pc) == mpc' = pc /\ row' = 1

\* The constructor of RX_Application parses the options and may throw; the
\* auxiliary thread is started after it.
Construct ==
  /\ mpc = "construct"
  /\ \/ /\ apc' = "loop"
        /\ Goto(IF lcores = 1 THEN "link" ELSE "launch")
        /\ UNCHANGED doWork
     \/ /\ Goto("join")
        /\ doWork' = FALSE
        /\ apc' = "done"
  /\ UNCHANGED <<clockVars, signalled, dueAt, wpc, alive, finished, cycleStats,
                 runStarted, startedAt, revents, sample, statSec,
                 expiredAt, oneLeft, portStat>>

\* An exception unwinds the loop function; main() catches it.
Throw == Goto("catch") /\ alive' = {}

Catch ==
  /\ mpc = "catch"
  /\ Goto("join")
  /\ doWork' = FALSE
  /\ UNCHANGED <<clockVars, signalled, dueAt, wpc, alive, finished, cycleStats,
                 runStarted, startedAt, auxVars, portStat>>

\* A ring and a worker for the next lcore.  The ring may fail.  Two lcores are
\* refused before any worker is launched.
Launch ==
  /\ mpc = "launch"
  /\ row <= WorkerNum
  /\ \/ /\ Throw
        /\ UNCHANGED wpc
     \/ /\ lcores # 2
        /\ wpc' = [wpc EXCEPT ![row] = "loop"]
        /\ alive' = alive \cup {row}
        /\ row' = row + 1
        /\ UNCHANGED mpc
  /\ UNCHANGED <<clockVars, doWork, signalled, dueAt, finished, cycleStats,
                 runStarted, startedAt, auxVars, portStat>>

PowerOfTwo(n) == \E k \in 0 .. n : n = 2 ^ k

\* All workers are launched: is their number a power of two?
Launched ==
  /\ mpc = "launch"
  /\ row > WorkerNum
  /\ IF PowerOfTwo(WorkerNum)
       THEN Goto("link") /\ UNCHANGED alive
       ELSE Throw
  /\ UNCHANGED <<clockVars, doWork, signalled, dueAt, wpc, finished, cycleStats,
                 runStarted, startedAt, auxVars, portStat>>

\* WaitLink does not look at g_doWork.  A link that stays down clears it and
\* throws; an error reading the link state only throws.
WaitLink ==
  /\ mpc = "link"
  /\ \/ /\ Goto("register")
        /\ runStarted' = TRUE
        /\ startedAt' = now
        /\ alive' = alive \cup {0}
        /\ UNCHANGED doWork
     \/ /\ Throw
        /\ doWork' \in {FALSE, doWork}
        /\ UNCHANGED <<runStarted, startedAt>>
  /\ UNCHANGED <<clockVars, signalled, dueAt, wpc, finished, cycleStats,
                 auxVars, portStat>>

\* RegisterCycleStat, the main loop first.
Register ==
  /\ mpc = "register"
  /\ cycleStats' = Append(cycleStats, row - 1)
  /\ IF row = lcores THEN Goto("loop") ELSE row' = row + 1 /\ UNCHANGED mpc
  /\ UNCHANGED <<clockVars, doWork, signalled, dueAt, wpc, alive, finished,
                 runStarted, startedAt, auxVars, portStat>>

\* The main loop sees g_doWork and marks its statistic as finished.
LoopEnd ==
  /\ mpc = "loop"
  /\ ~doWork
  /\ finished' = finished \cup {0}
  /\ Goto("print")
  /\ UNCHANGED <<clockVars, doWork, signalled, dueAt, wpc, alive, cycleStats,
                 runStarted, startedAt, auxVars, portStat>>

\* The table of load statistics, a row per loop; then the loop function
\* returns and its objects are gone.
PrintRows ==
  /\ mpc = "print"
  /\ IF row = lcores
       THEN Goto("stats") /\ alive' = {}
       ELSE row' = row + 1 /\ UNCHANGED <<mpc, alive>>
  /\ UNCHANGED <<clockVars, doWork, signalled, dueAt, wpc, finished, cycleStats,
                 runStarted, startedAt, auxVars, portStat>>

\* Faulty variant: the summary shows the sample of the latest display.
FinalPortStatNot ==
  /\ mpc = "stats"
  /\ Goto("wait")
  /\ UNCHANGED <<clockVars, doWork, signalled, dueAt, wpc, alive, finished,
                 cycleStats, runStarted, startedAt, auxVars, portStat>>

\* The counters are read once more and the port is stopped.  Words a display
\* writes at the same time may be left in between.
FinalPortStat ==
  /\ mpc = "stats"
  /\ Goto("wait")
  /\ portStat' \in {{"main"}} \cup (IF apc = "port" THEN {{"main", "aux"}} ELSE {})
  /\ UNCHANGED <<clockVars, doWork, signalled, dueAt, wpc, alive, finished,
                 cycleStats, runStarted, startedAt, auxVars>>

\* rte_eal_mp_wait_lcore.
WaitLcores ==
  /\ mpc = "wait"
  /\ \A w \in Lcore : wpc[w] # "loop"
  /\ Goto("results")
  /\ UNCHANGED <<clockVars, doWork, signalled, dueAt, wpc, alive, finished,
                 cycleStats, runStarted, startedAt, auxVars, portStat>>

DisplayResults ==
  /\ mpc = "results"
  /\ Goto("join")
  /\ UNCHANGED <<clockVars, doWork, signalled, dueAt, wpc, alive, finished,
                 cycleStats, runStarted, startedAt, auxVars, portStat>>

\* main() joins the auxiliary thread and ends the process.
Join ==
  /\ mpc = "join"
  /\ apc = "done"
  /\ Goto("exit")
  /\ UNCHANGED <<clockVars, doWork, signalled, dueAt, wpc, alive, finished,
                 cycleStats, runStarted, startedAt, auxVars, portStat>>

Main == \/ Construct \/ Catch \/ Launch \/ Launched \/ WaitLink \/ Register
        \/ LoopEnd \/ PrintRows \/ FinalPortStat \/ WaitLcores
        \/ DisplayResults \/ Join

\* A worker sees g_doWork, marks its statistic as finished and returns.
WorkerEnd(w) ==
  /\ wpc[w] = "loop"
  /\ ~doWork
  /\ mpc # "exit"
  /\ wpc' = [wpc EXCEPT ![w] = "done"]
  /\ finished' = finished \cup {w}
  /\ UNCHANGED <<clockVars, doWork, signalled, dueAt, mainVars, auxVars, portStat>>

-----------------------------------------------------------------------------
(* The auxiliary thread.                                                   *)

\* Faulty variant: the loop of the thread does not look at g_doWork.
AuxPollForever ==
  /\ apc = "loop"
  /\ dueAt # 0 \/ signalled
  /\ apc' = "handle"
  /\ revents' = (IF signalled THEN {"signal"} ELSE {})
                \cup (IF dueAt # 0 THEN {"timer"} ELSE {})
  /\ UNCHANGED <<clockVars, doWork, signalled, dueAt, mainVars, wpc, finished,
                 sample, statSec, expiredAt, oneLeft, portStat>>

\* The head of its loop and poll; a poll that times out changes nothing.
AuxPoll ==
  /\ apc = "loop"
  /\ LET seen == (IF signalled THEN {"signal"} ELSE {})
                 \cup (IF dueAt # 0 THEN {"timer"} ELSE {})
     IN  \/ /\ ~doWork
            /\ apc' = "done"
            /\ UNCHANGED revents
         \/ /\ doWork
            /\ seen # {}
            /\ apc' = "handle"
            /\ revents' = seen
  /\ UNCHANGED <<clockVars, doWork, signalled, dueAt, mainVars, wpc, finished,
                 sample, statSec, expiredAt, oneLeft, portStat>>

AuxSignal ==
  /\ apc = "handle"
  /\ "signal" \in revents
  /\ signalled' = FALSE
  /\ doWork' = FALSE
  /\ revents' = revents \ {"signal"}
  /\ apc' = IF "timer" \in revents THEN "handle" ELSE "loop"
  /\ oneLeft' = (oneLeft \/ "timer" \in revents)
  /\ UNCHANGED <<clockVars, dueAt, mainVars, wpc, finished, sample, statSec, expiredAt,
                 portStat>>

\* Faulty variant: the wait for the link is counted.
CountedAlways == TIMER_PERIOD_SEC

\* Seconds a display adds to the time shown.
Counted == IF runStarted THEN TIMER_PERIOD_SEC ELSE 0

\* The timer is read, however often it expired, and DisplayStatistic begins
\* to fill m_lastPortStat.
AuxTimer ==
  /\ apc = "handle"
  /\ revents = {"timer"}
  /\ dueAt' = 0
  /\ apc' = "port"
  /\ UNCHANGED <<clockVars, doWork, signalled, mainVars, wpc, finished, revents,
                 sample, statSec, expiredAt, oneLeft, portStat>>

\* It is filled; main may have filled it meanwhile, and words of both are left.
\* The time shown moves on.
AuxPort ==
  /\ apc = "port"
  /\ portStat' \in {{"aux"}} \cup (IF "main" \in portStat THEN {{"main", "aux"}} ELSE {})
  /\ statSec' = statSec + Counted
  /\ sample' = 1
  /\ apc' = "sample"
  /\ UNCHANGED <<clockVars, doWork, signalled, dueAt, mainVars, wpc, finished, revents,
                 expiredAt, oneLeft>>

\* The rows of the statistics that are registered.
AuxSample ==
  /\ apc = "sample"
  /\ IF sample <= Len(cycleStats)
       THEN sample' = sample + 1 /\ UNCHANGED apc
       ELSE apc' = "limit" /\ UNCHANGED sample
  /\ UNCHANGED <<clockVars, doWork, signalled, dueAt, mainVars, wpc, finished,
                 revents, statSec, expiredAt, oneLeft, portStat>>

IsTimeExpired == runTimeSec > 0 /\ statSec >= runTimeSec

AuxLimit ==
  /\ apc = "limit"
  /\ doWork' = (doWork /\ ~IsTimeExpired)
  /\ expiredAt' = IF IsTimeExpired /\ doWork THEN now ELSE expiredAt
  /\ apc' = "loop"
  /\ UNCHANGED <<clockVars, signalled, dueAt, mainVars, wpc, finished, revents,
                 sample, statSec, oneLeft, portStat>>

Aux == AuxPoll \/ AuxSignal \/ AuxTimer \/ AuxPort \/ AuxSample \/ AuxLimit

\* The process is gone, or the bound of the clock is reached.
Ended ==
  /\ mpc = "exit" \/ now = MaxTime
  /\ UNCHANGED vars

Next == \/ Tick \/ Signal
        \/ Main
        \/ \E w \in Lcore : WorkerEnd(w)
        \/ Aux
        \/ Ended

Spec == Init /\ [][Next]_vars

\* Threads run, and the wait for the link ends.
FairSpec == /\ Spec
            /\ WF_vars(Main) /\ WF_vars(Aux)
            /\ \A w \in Lcore : WF_vars(WorkerEnd(w))

-----------------------------------------------------------------------------
(* Properties.                                                             *)

\* A run that --time ended has lasted about as long as asked: the link wait
\* costs it at most one timer period and the auxiliary thread's delay, and
\* while it lasts it is never longer than that.
TimeLimitKept ==
  /\ expiredAt # 0 => expiredAt - startedAt + TIMER_PERIOD_SEC + MaxAuxDelay >= runTimeSec
  /\ doWork /\ runStarted /\ runTimeSec > 0 =>
       now - startedAt <= runTimeSec + TIMER_PERIOD_SEC + MaxAuxDelay

\* DisplayResults shows the NIC's counters as main read them after the loop,
\* although DisplayStatistic fills the same structure from another thread and
\* without a lock: once g_doWork is cleared, by --time or by a signal, no
\* display is under way or begins any more.  The one exception is named: a poll
\* that reports the timer together with the signal still handles the timer.
SummaryIsFinal ==
  mpc = "results" /\ ~oneLeft => portStat = {"main"} /\ apc # "port"

\* A signal, the time limit and an exception all end the process, wherever the
\* threads are: in the wait for the link, in the middle of a display, or
\* between the launches of two workers.
StopRequested == ~doWork \/ signalled
Shutdown == StopRequested ~> mpc = "exit"

\* "Owned by the loop functions, alive for the whole run": a registered
\* statistic exists as long as its worker runs, and when the auxiliary thread
\* is about to sample it.
AliveForTheRun ==
  \A k \in DOMAIN cycleStats :
    \/ cycleStats[k] \in alive
    \/ /\ apc = "sample" => sample # k
       /\ cycleStats[k] # 0 => wpc[cycleStats[k]] # "loop"
=============================================================================
