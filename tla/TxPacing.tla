------------------------------ MODULE TxPacing ------------------------------
(***************************************************************************)
(* When the TX workers of bus_generator send.  The workers meet at a       *)
(* barrier twice; between the two meetings one of them reads the clock for *)
(* all.  Steady mode (tx_packets_cycle, tx_r_worker_cycle) then sends unit *)
(* after unit and waits for the offset of the next one within the second;  *)
(* burst mode (tx_burst_worker_cycle) prepares a burst, waits for the next *)
(* second and sends it.                                                    *)
(*                                                                         *)
(* The clock ticks between any two steps: sending and staging take as long *)
(* as they take.  Only a worker that waits for a tick sees it at most      *)
(* MaxOvershoot ticks late.  What is sent is modelled in TxBurst and       *)
(* TxSteady.                                                               *)
(***************************************************************************)
EXTENDS Naturals

CONSTANTS
  WorkerNum,     \* TX workers
  TicksPerSec,   \* ticks of the clock in a second
  UnitNum,       \* TX units in a second (steady mode)
  Modes,         \* values of --burst considered
  Prompt,        \* everything but waiting takes no noticeable time
  MaxOvershoot,  \* ticks a waiting worker may be late
  MaxTime        \* bound: ticks a behaviour lasts

ASSUME PacingAssumption ==
  /\ WorkerNum \in Nat \ {0}
  /\ TicksPerSec \in Nat \ {0}
  /\ UnitNum \in Nat \ {0}
  /\ Modes \subseteq BOOLEAN
  /\ Prompt \in BOOLEAN
  /\ MaxOvershoot \in Nat
  /\ MaxTime \in Nat \ {0}

Worker == 0 .. WorkerNum - 1

VARIABLES
  burst,      \* m_burst
  now,        \* the clock
  doWork,     \* g_doWork
  arrived,    \* workers waiting at the barrier
  meetings,   \* times the barrier has released them
  serial,     \* the worker that PTHREAD_BARRIER_SERIAL_THREAD was returned to
  startTick,  \* RTxControl::startTick
  wpc,        \* control point of each worker
  secStart,   \* secStartTick of each worker
  unit,       \* txUnitIdx of each worker
  target,     \* the tick a worker waits for
  txLateCnt,  \* statistic of burst mode
  pulses,     \* history: second boundaries a worker has waited for
  pulseTick   \* history: when it saw the latest one

barrierVars == <<arrived, meetings, serial, startTick>>
loopVars == <<secStart, unit, target, txLateCnt, pulses, pulseTick>>
vars == <<burst, now, doWork, barrierVars, wpc, loopVars>>

\* The clock has been running for a while.
Init ==
  /\ burst \in Modes
  /\ now = 1
  /\ doWork = TRUE
  /\ arrived = 0
  /\ meetings = 0
  /\ serial = 0
  /\ startTick = 0
  /\ wpc = [w \in Worker |-> "launch"]
  /\ secStart = [w \in Worker |-> 0]
  /\ unit = [w \in Worker |-> 0]
  /\ target = [w \in Worker |-> 0]
  /\ txLateCnt = [w \in Worker |-> 0]
  /\ pulses = [w \in Worker |-> 0]
  /\ pulseTick = [w \in Worker |-> 0]

Goto(w, pc) == wpc' = [wpc EXCEPT ![w] = pc]

Waiting(w) == wpc[w] = "delay"

\* The worker waits for a tick, for the others or for its launch, or is done.
Resting(w) == \/ wpc[w] \in {"launch", "delay", "done"}
              \/ wpc[w] = "first" /\ meetings = 0
              \/ wpc[w] = "second" /\ meetings = 1

Tick ==
  /\ now < MaxTime
  /\ Prompt => \A w \in Worker : Resting(w)
  /\ \A w \in Worker : Waiting(w) => now < target[w] + MaxOvershoot
  /\ now' = now + 1
  /\ UNCHANGED <<burst, doWork, barrierVars, wpc, loopVars>>

\* Signal, time limit or an exception elsewhere.
Stop ==
  /\ doWork
  /\ doWork' = FALSE
  /\ UNCHANGED <<burst, now, barrierVars, wpc, loopVars>>

-----------------------------------------------------------------------------
(* The start: pthread_barrier_wait, twice.                                 *)

\* Faulty variant: the launching thread is counted on top of the workers.
PartiesAndMain == WorkerNum + 1

\* pthread_barrier_init's count.
Parties == WorkerNum

\* A worker arrives; the last one releases them all.
Arrive(w) ==
  /\ \/ wpc[w] = "launch" /\ Goto(w, "first")
     \/ wpc[w] = "met" /\ Goto(w, "second")
  /\ IF arrived + 1 = Parties
       THEN /\ arrived' = 0
            /\ meetings' = meetings + 1
            /\ serial' \in Worker
       ELSE /\ arrived' = arrived + 1
            /\ UNCHANGED <<meetings, serial>>
  /\ UNCHANGED <<burst, now, doWork, startTick, loopVars>>

\* Faulty variant: the others do not wait for the tick to be read.
AfterFirstUnsynchronised(w) ==
  /\ Goto(w, "top")
  /\ startTick' = IF serial = w THEN now ELSE startTick
  /\ secStart' = [secStart EXCEPT ![w] = startTick']

\* The serial thread reads the clock.
AfterFirst(w) ==
  /\ Goto(w, "met")
  /\ startTick' = IF serial = w THEN now ELSE startTick
  /\ UNCHANGED secStart

LeaveFirst(w) ==
  /\ wpc[w] = "first"
  /\ meetings >= 1
  /\ AfterFirst(w)
  /\ UNCHANGED <<burst, now, doWork, arrived, meetings, serial, unit, target, txLateCnt,
                 pulses, pulseTick>>

LeaveSecond(w) ==
  /\ wpc[w] = "second"
  /\ meetings >= 2
  /\ Goto(w, "top")
  /\ secStart' = [secStart EXCEPT ![w] = startTick]
  /\ UNCHANGED <<burst, now, doWork, barrierVars, unit, target, txLateCnt, pulses, pulseTick>>

-----------------------------------------------------------------------------
(* The loops.                                                              *)

\* The head of the loop: send a unit or stage a burst, or leave.
CycleCheck(w) ==
  /\ wpc[w] = "top"
  /\ Goto(w, IF doWork THEN "work" ELSE "done")
  /\ UNCHANGED <<burst, now, doWork, barrierVars, loopVars>>

\* A unit starts this many ticks after its second.
Offset(u) == (TicksPerSec \div UnitNum) * u

\* Steady mode: the unit is sent; wait for the next one, or for the next second.
UnitSent(w) ==
  /\ ~burst
  /\ wpc[w] = "work"
  /\ LET next == (unit[w] + 1) % UnitNum
     IN  /\ unit' = [unit EXCEPT ![w] = next]
         /\ target' = [target EXCEPT ![w] =
                         secStart[w] + (IF next = 0 THEN TicksPerSec ELSE Offset(next))]
  /\ Goto(w, "delay")
  /\ UNCHANGED <<burst, now, doWork, barrierVars, secStart, txLateCnt, pulses, pulseTick>>

\* Faulty variant: the second is counted from when it was due.
RebaseDue(w) == target[w]

\* delay_until_ticks returns the tick it saw, and the second starts there.
Rebase(w) == now

UnitDue(w) ==
  /\ ~burst
  /\ Waiting(w)
  /\ now >= target[w]
  /\ Goto(w, "top")
  /\ IF unit[w] = 0
       THEN /\ secStart' = [secStart EXCEPT ![w] = Rebase(w)]
            /\ pulses' = [pulses EXCEPT ![w] = @ + 1]
            /\ pulseTick' = [pulseTick EXCEPT ![w] = now]
       ELSE UNCHANGED <<secStart, pulses, pulseTick>>
  /\ UNCHANGED <<burst, now, doWork, barrierVars, unit, target, txLateCnt>>

\* Faulty variants: a burst that is late is sent at once, its second kept; the
\* second is moved, but not counted.
ResyncNever(due, w) ==
  /\ target' = [target EXCEPT ![w] = due]
  /\ txLateCnt' = [txLateCnt EXCEPT ![w] = IF now > due THEN @ + 1 ELSE @]
ResyncSilently(due, w) ==
  /\ target' = [target EXCEPT ![w] = IF now > due THEN now ELSE due]
  /\ UNCHANGED txLateCnt

\* Staging outran its own second: resynchronise and count.
Resync(due, w) ==
  /\ target' = [target EXCEPT ![w] = IF now > due THEN now ELSE due]
  /\ txLateCnt' = [txLateCnt EXCEPT ![w] = IF now > due THEN @ + 1 ELSE @]

\* Burst mode: the burst is staged; the run may have been stopped meanwhile.
BurstStaged(w) ==
  /\ burst
  /\ wpc[w] = "work"
  /\ IF doWork
       THEN /\ Resync(secStart[w] + TicksPerSec, w)
            /\ secStart' = [secStart EXCEPT ![w] = target'[w]]
            /\ Goto(w, "delay")
       ELSE /\ Goto(w, "done")
            /\ UNCHANGED <<secStart, target, txLateCnt>>
  /\ UNCHANGED <<burst, now, doWork, barrierVars, unit, pulses, pulseTick>>

BurstDue(w) ==
  /\ burst
  /\ Waiting(w)
  /\ now >= target[w]
  /\ Goto(w, "fire")
  /\ pulses' = [pulses EXCEPT ![w] = @ + 1]
  /\ pulseTick' = [pulseTick EXCEPT ![w] = now]
  /\ UNCHANGED <<burst, now, doWork, barrierVars, secStart, unit, target, txLateCnt>>

BurstSent(w) ==
  /\ wpc[w] = "fire"
  /\ Goto(w, "top")
  /\ UNCHANGED <<burst, now, doWork, barrierVars, loopVars>>

WorkerStep(w) == \/ Arrive(w) \/ LeaveFirst(w) \/ LeaveSecond(w)
                 \/ CycleCheck(w)
                 \/ UnitSent(w) \/ UnitDue(w)
                 \/ BurstStaged(w) \/ BurstDue(w) \/ BurstSent(w)

\* The run has ended, or the bound of the clock is reached.
Ended ==
  /\ \/ \A w \in Worker : wpc[w] = "done"
     \/ now = MaxTime
  /\ UNCHANGED vars

Next == Tick \/ Stop \/ (\E w \in Worker : WorkerStep(w)) \/ Ended

Spec == Init /\ [][Next]_vars

\* Every worker runs on its own core.
FairSpec == Spec /\ \A w \in Worker : WF_vars(WorkerStep(w))

-----------------------------------------------------------------------------
(* Properties.                                                             *)

InLoop(w) == wpc[w] \in {"top", "work", "delay", "fire", "done"}

\* "One shared start tick for every TX worker": whatever the order in which
\* they are launched and leave the barrier, all workers begin with the tick
\* the serial thread read.
SharedStart ==
  \A w \in Worker : InLoop(w) /\ pulses[w] = 0 /\ ~Waiting(w) =>
    secStart[w] = startTick /\ startTick > 0

\* "resynchronise rather than free-run": however late the workers get, two
\* second boundaries of one worker are a second apart, up to the overshoot of
\* one wait; lost time is never made up by sending faster.
PulseSpacing ==
  [][\A w \in Worker : pulses[w] > 0 /\ pulses'[w] # pulses[w] =>
       pulseTick'[w] + MaxOvershoot >= pulseTick[w] + TicksPerSec]_vars

\* Burst mode: until tx_late counts a late burst, every burst belongs to the
\* second grid of the shared start tick, so the workers burst together.
OnGrid ==
  \A w \in Worker : burst /\ InLoop(w) /\ txLateCnt[w] = 0 =>
    secStart[w] = startTick + TicksPerSec * (pulses[w] + (IF Waiting(w) THEN 1 ELSE 0))

\* "without this each queue would pace off its own clock read and the
\* per-second pulses would drift apart": with the shared start tick, the same
\* second of two workers starts within one overshoot.
PulsesTogether ==
  \A v, w \in Worker : InLoop(v) /\ InLoop(w) /\ pulses[v] = pulses[w] =>
    secStart[v] <= secStart[w] + MaxOvershoot

\* No worker is left behind at the barrier, also when the run is stopped
\* before it starts.
AllStart == \A w \in Worker : <>InLoop(w)
=============================================================================
