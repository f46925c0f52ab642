---------------------------- MODULE TxPacingProofs ----------------------------
(***************************************************************************)
(* Proofs about the pacing of the TX workers, for every number of workers, *)
(* every clock rate, number of units and overshoot, in both modes.         *)
(*                                                                         *)
(* The properties are not inductive.  That no worker enters its loop with  *)
(* a start tick that was not read yet rests on the barrier: its counter is *)
(* the number of workers that have arrived, so a meeting has all of them   *)
(* (BarrierInv).  That pulses keep their distance rests on what a worker   *)
(* that waits knows of its target (PaceInv).                               *)
(***************************************************************************)
EXTENDS TxPacing, FiniteSetTheorems, TLAPS

Control == {"launch", "first", "met", "second", "top", "work", "delay", "fire", "done"}

\* The types of the variables the invariants are about.
PacingType ==
  /\ burst \in BOOLEAN
  /\ now \in Nat \ {0}
  /\ doWork \in BOOLEAN
  /\ arrived \in Nat
  /\ meetings \in 0 .. 2
  /\ serial \in Worker
  /\ startTick \in Nat
  /\ wpc \in [Worker -> Control]
  /\ secStart \in [Worker -> Nat]
  /\ unit \in [Worker -> Nat]
  /\ target \in [Worker -> Nat]
  /\ txLateCnt \in [Worker -> Nat]
  /\ pulses \in [Worker -> Nat]
  /\ pulseTick \in [Worker -> Nat]

At(pc) == {w \in Worker : wpc[w] = pc}

\* Before a meeting its counter tells how many workers are there already, and
\* some worker is missing; the tick has been read once the serial thread has
\* left the first meeting, and so by all at the second.
BarrierInv ==
  /\ meetings = 0 => /\ \A w \in Worker : wpc[w] \in {"launch", "first"}
                     /\ arrived = Cardinality(At("first"))
                     /\ arrived < WorkerNum
  /\ meetings = 1 => /\ \A w \in Worker : wpc[w] \in {"first", "met", "second"}
                     /\ arrived = Cardinality(At("second"))
                     /\ arrived < WorkerNum
                     /\ wpc[serial] # "first" => startTick > 0
  /\ meetings = 2 => /\ \A w \in Worker : wpc[w] = "second" \/ InLoop(w)
                     /\ startTick > 0

\* The second a worker is in, against its start, its target and its pulses.
Begun(w) ==
  /\ ~InLoop(w) => pulses[w] = 0
  /\ wpc[w] = "fire" => pulses[w] > 0
  /\ InLoop(w) /\ pulses[w] = 0 /\ ~Waiting(w) => secStart[w] = startTick
  /\ ~burst /\ InLoop(w) /\ pulses[w] = 0 => secStart[w] = startTick

SteadyPace(w) ==
  /\ pulses[w] > 0 => pulseTick[w] = secStart[w]
  /\ Waiting(w) /\ unit[w] = 0 => target[w] = secStart[w] + TicksPerSec

BurstPace(w) ==
  /\ Waiting(w) => target[w] = secStart[w] /\ now <= target[w] + MaxOvershoot
  /\ pulses[w] > 0 /\ ~Waiting(w) => pulseTick[w] <= secStart[w] + MaxOvershoot
  /\ pulses[w] > 0 /\ Waiting(w) =>
       pulseTick[w] + TicksPerSec <= secStart[w] + MaxOvershoot

Grid(w) ==
  InLoop(w) /\ txLateCnt[w] = 0 =>
    secStart[w] = startTick + TicksPerSec * (pulses[w] + (IF Waiting(w) THEN 1 ELSE 0))

Pace(w) ==
  /\ Begun(w)
  /\ ~burst => SteadyPace(w)
  /\ burst => BurstPace(w) /\ Grid(w)

PaceInv == \A w \in Worker : Pace(w)

PacingInv == PacingType /\ BarrierInv /\ PaceInv

-----------------------------------------------------------------------------
(* Facts about the constants and about steps that leave a worker alone.    *)

\* There are WorkerNum workers, and worker 0 exists.
LEMMA WorkersFinite ==
  /\ IsFiniteSet(Worker) /\ Cardinality(Worker) = WorkerNum
  /\ WorkerNum \in Nat \ {0} /\ 0 \in Worker
<1>1. WorkerNum \in Nat \ {0}
  BY PacingAssumption
<1>2. IsFiniteSet(0 .. WorkerNum - 1) /\ Cardinality(0 .. WorkerNum - 1) = WorkerNum
  <2>1. 0 \in Int /\ WorkerNum - 1 \in Int
    BY <1>1
  <2>2. /\ IsFiniteSet(0 .. WorkerNum - 1)
        /\ Cardinality(0 .. WorkerNum - 1)
             = IF 0 > WorkerNum - 1 THEN 0 ELSE WorkerNum - 1 - 0 + 1
    BY <2>1, FS_Interval
  <2>3. QED
    BY <1>1, <2>2
<1>3. QED
  BY <1>1, <1>2 DEF Worker

\* A set of workers that lacks one does not have WorkerNum members; one that
\* has as many is all of them.
LEMMA Missing ==
  ASSUME NEW S \in SUBSET Worker
  PROVE  /\ IsFiniteSet(S) /\ Cardinality(S) \in Nat
         /\ Cardinality(S) <= WorkerNum
         /\ Cardinality(S) = WorkerNum => S = Worker
<1>1. /\ IsFiniteSet(S) /\ Cardinality(S) <= Cardinality(Worker)
      /\ Cardinality(Worker) = Cardinality(S) => Worker = S
  BY WorkersFinite, FS_Subset
<1>2. Cardinality(S) \in Nat
  BY <1>1, FS_CardinalityType
<1>3. QED
  BY <1>1, <1>2, WorkersFinite

\* What a step does not touch keeps its pace.
LEMMA PaceKept ==
  ASSUME NEW v \in Worker, Pace(v),
         burst' = burst, now' = now, startTick' = startTick,
         wpc'[v] = wpc[v], secStart'[v] = secStart[v], unit'[v] = unit[v],
         target'[v] = target[v], txLateCnt'[v] = txLateCnt[v],
         pulses'[v] = pulses[v], pulseTick'[v] = pulseTick[v]
  PROVE  Pace(v)'
BY DEF Pace, Begun, SteadyPace, BurstPace, Grid, InLoop, Waiting

\* A worker in its loop has met the others twice; it cannot disturb the barrier
\* any more.
LEMMA LoopStep ==
  ASSUME PacingType, BarrierInv, NEW w \in Worker, InLoop(w),
         NEW pc \in {"top", "work", "delay", "fire", "done"}, Goto(w, pc),
         UNCHANGED barrierVars
  PROVE  /\ BarrierInv'
         /\ wpc' \in [Worker -> Control] /\ wpc'[w] = pc
         /\ \A v \in Worker : v # w => wpc'[v] = wpc[v]
<1>1. meetings = 2
  BY DEF PacingType, BarrierInv, InLoop
<1>2. /\ wpc' \in [Worker -> Control] /\ wpc'[w] = pc
      /\ \A v \in Worker : v # w => wpc'[v] = wpc[v]
  BY DEF PacingType, Goto, Control
<1>3. QED
  BY <1>1, <1>2 DEF BarrierInv, barrierVars, InLoop

-----------------------------------------------------------------------------
(* Every step keeps the invariant.                                         *)

\* The invariant holds before the workers are launched.
LEMMA InitPacing == Init => PacingInv
<1> SUFFICES ASSUME Init PROVE PacingInv
  OBVIOUS
<1>1. PacingType
  BY PacingAssumption, WorkersFinite DEF Init, PacingType, Control
<1>2. BarrierInv
  <2>1. At("first") = {}
    BY DEF Init, At
  <2>2. QED
    BY <2>1, FS_EmptySet, WorkersFinite DEF Init, BarrierInv
<1>3. PaceInv
  BY DEF Init, PaceInv, Pace, Begun, SteadyPace, BurstPace, Grid, InLoop, Waiting
<1>4. QED
  BY <1>1, <1>2, <1>3 DEF PacingInv

\* The clock: no worker in burst mode is passed by more than the overshoot.
LEMMA TickPacing == ASSUME PacingInv, Tick PROVE PacingInv'
<1>1. PacingType'
  BY DEF PacingInv, PacingType, Tick, barrierVars, loopVars
<1>2. BarrierInv'
  BY DEF PacingInv, BarrierInv, Tick, barrierVars, InLoop, At
<1>3. ASSUME NEW w \in Worker PROVE Pace(w)'
  <2>1. Pace(w) /\ (Waiting(w) => now < target[w] + MaxOvershoot)
    BY DEF PacingInv, PaceInv, Tick
  <2>2. now' = now + 1 /\ UNCHANGED <<burst, wpc, startTick, loopVars>>
    BY DEF Tick, barrierVars
  <2>3. /\ now \in Nat /\ MaxOvershoot \in Nat /\ target[w] \in Nat
    BY PacingAssumption DEF PacingInv, PacingType
  <2>4. QED
    BY <2>1, <2>2, <2>3
       DEF Pace, Begun, SteadyPace, BurstPace, Grid, InLoop, Waiting, loopVars
<1>4. QED
  BY <1>1, <1>2, <1>3 DEF PacingInv, PaceInv

\* Stopping touches nothing but the flag.
LEMMA StopPacing == ASSUME PacingInv, Stop PROVE PacingInv'
<1>1. PacingType'
  BY DEF PacingInv, PacingType, Stop, barrierVars, loopVars
<1>2. BarrierInv'
  BY DEF PacingInv, BarrierInv, Stop, barrierVars, InLoop, At
<1>3. ASSUME NEW w \in Worker PROVE Pace(w)'
  BY PaceKept DEF PacingInv, PaceInv, Stop, barrierVars, loopVars
<1>4. QED
  BY <1>1, <1>2, <1>3 DEF PacingInv, PaceInv

\* An arrival before the first meeting: the last one makes it, and nobody is
\* left outside.
LEMMA ArriveFirst ==
  ASSUME PacingInv, NEW w \in Worker, Arrive(w), wpc[w] = "launch"
  PROVE  BarrierInv'
<1>1. /\ PacingType /\ BarrierInv /\ meetings = 0
  BY DEF PacingInv, PacingType, BarrierInv, InLoop
<1>2. wpc' = [wpc EXCEPT ![w] = "first"]
  BY DEF Arrive, Goto
<1>3. /\ At("first")' = At("first") \cup {w} /\ w \notin At("first")
      /\ \A v \in Worker : v # w => wpc'[v] = wpc[v]
      /\ wpc'[w] = "first"
  BY <1>1, <1>2 DEF At, PacingType
<1>4. Cardinality(At("first")') = arrived + 1
  <2>1. At("first") \in SUBSET Worker
    BY DEF At
  <2>2. IsFiniteSet(At("first"))
    BY <2>1, Missing
  <2>3. Cardinality(At("first") \cup {w})
          = IF w \in At("first") THEN Cardinality(At("first")) ELSE Cardinality(At("first")) + 1
    BY <2>2, FS_AddElement
  <2>4. QED
    BY <1>1, <1>3, <2>3 DEF BarrierInv
<1>5. Cardinality(At("first")') <= WorkerNum
      /\ (Cardinality(At("first")') = WorkerNum => At("first")' = Worker)
  <2>1. At("first")' \in SUBSET Worker
    BY DEF At
  <2>2. QED
    BY <2>1, Missing
<1>6. CASE arrived + 1 = WorkerNum
  <2>1. At("first")' = Worker
    BY <1>4, <1>5, <1>6
  <2>2. \A v \in Worker : wpc'[v] = "first"
    BY <2>1 DEF At
  <2>3. At("second")' = {}
    BY <2>2 DEF At
  <2>4. arrived' = 0 /\ meetings' = 1 /\ serial' \in Worker
    BY <1>1, <1>6 DEF Arrive, Parties
  <2>5. Cardinality(At("second")') = 0
    BY <2>3, FS_EmptySet
  <2>6. QED
    BY <2>2, <2>4, <2>5, WorkersFinite DEF BarrierInv
<1>7. CASE arrived + 1 # WorkerNum
  <2>1. arrived' = arrived + 1 /\ meetings' = 0
    BY <1>1, <1>7 DEF Arrive, Parties
  <2>2. arrived + 1 < WorkerNum
    BY <1>1, <1>4, <1>5, <1>7, WorkersFinite DEF PacingType
  <2>3. \A v \in Worker : wpc'[v] \in {"launch", "first"}
    BY <1>1, <1>3 DEF BarrierInv
  <2>4. QED
    BY <1>4, <2>1, <2>2, <2>3 DEF BarrierInv
<1>8. QED
  BY <1>6, <1>7

\* An arrival at the second meeting: the last worker comes when the serial
\* thread is there already or is that worker, so the tick has been read.
LEMMA ArriveSecond ==
  ASSUME PacingInv, NEW w \in Worker, Arrive(w), wpc[w] = "met"
  PROVE  BarrierInv'
<1>1. /\ PacingType /\ BarrierInv /\ meetings = 1
  BY DEF PacingInv, PacingType, BarrierInv, InLoop
<1>2. wpc' = [wpc EXCEPT ![w] = "second"] /\ startTick' = startTick
  BY DEF Arrive, Goto
<1>3. /\ At("second")' = At("second") \cup {w} /\ w \notin At("second")
      /\ \A v \in Worker : v # w => wpc'[v] = wpc[v]
      /\ wpc'[w] = "second"
  BY <1>1, <1>2 DEF At, PacingType
<1>4. Cardinality(At("second")') = arrived + 1
  <2>1. At("second") \in SUBSET Worker
    BY DEF At
  <2>2. IsFiniteSet(At("second"))
    BY <2>1, Missing
  <2>3. Cardinality(At("second") \cup {w})
          = IF w \in At("second") THEN Cardinality(At("second"))
            ELSE Cardinality(At("second")) + 1
    BY <2>2, FS_AddElement
  <2>4. QED
    BY <1>1, <1>3, <2>3 DEF BarrierInv
<1>5. Cardinality(At("second")') <= WorkerNum
      /\ (Cardinality(At("second")') = WorkerNum => At("second")' = Worker)
  <2>1. At("second")' \in SUBSET Worker
    BY DEF At
  <2>2. QED
    BY <2>1, Missing
<1>6. CASE arrived + 1 = WorkerNum
  <2>1. At("second")' = Worker
    BY <1>4, <1>5, <1>6
  <2>2. \A v \in Worker : wpc'[v] = "second"
    BY <2>1 DEF At
  <2>3. meetings' = 2
    BY <1>1, <1>6 DEF Arrive, Parties
  <2>4. wpc[serial] # "first"
    <3>1. serial \in Worker
      BY <1>1 DEF PacingType
    <3>2. QED
      BY <1>3, <2>2, <3>1
  <2>5. startTick > 0
    BY <1>1, <2>4 DEF BarrierInv
  <2>6. QED
    BY <1>2, <2>2, <2>3, <2>5 DEF BarrierInv
<1>7. CASE arrived + 1 # WorkerNum
  <2>1. arrived' = arrived + 1 /\ meetings' = 1 /\ serial' = serial
    BY <1>1, <1>7 DEF Arrive, Parties
  <2>2. arrived + 1 < WorkerNum
    BY <1>1, <1>4, <1>5, <1>7, WorkersFinite DEF PacingType
  <2>3. \A v \in Worker : wpc'[v] \in {"first", "met", "second"}
    BY <1>1, <1>3 DEF BarrierInv
  <2>4. wpc'[serial] # "first" => startTick > 0
    BY <1>1, <1>3 DEF BarrierInv, PacingType
  <2>5. QED
    BY <1>2, <1>4, <2>1, <2>2, <2>3, <2>4 DEF BarrierInv
<1>8. QED
  BY <1>6, <1>7

\* A worker at the barrier has not begun: only its control point moves.
LEMMA OutsidePace ==
  ASSUME PacingInv, NEW w \in Worker, ~InLoop(w), NEW pc \in {"first", "met", "second"},
         Goto(w, pc), UNCHANGED <<burst, now, loopVars>>,
         startTick' = startTick \/ \A v \in Worker : ~InLoop(v)
  PROVE  PaceInv'
<1> SUFFICES ASSUME NEW v \in Worker PROVE Pace(v)'
  BY DEF PaceInv
<1>1. Pace(v) /\ wpc \in [Worker -> Control]
  BY DEF PacingInv, PaceInv, PacingType
<1>2. wpc'[v] = IF v = w THEN pc ELSE wpc[v]
  BY <1>1 DEF Goto
<1>3. CASE InLoop(v)
  <2>1. v # w /\ startTick' = startTick
    BY <1>3
  <2>2. QED
    BY <1>1, <1>2, <2>1, PaceKept DEF loopVars
<1>4. CASE ~InLoop(v)
  <2>1. ~InLoop(v)' /\ ~Waiting(v)' /\ wpc'[v] # "fire" /\ pulses'[v] = 0
    BY <1>1, <1>2, <1>4 DEF InLoop, Waiting, Pace, Begun, loopVars
  <2>2. QED
    BY <1>1, <2>1 DEF Pace, Begun, SteadyPace, BurstPace, Grid
<1>5. QED
  BY <1>3, <1>4

\* Arriving at the barrier.
LEMMA ArrivePacing ==
  ASSUME PacingInv, NEW w \in Worker, Arrive(w) PROVE PacingInv'
<1>1. PICK pc \in {"first", "second"} :
        Goto(w, pc) /\ (wpc[w] = "launch" \/ wpc[w] = "met")
  BY DEF Arrive
<1>2. PacingType'
  <2>1. wpc' \in [Worker -> Control]
    BY <1>1 DEF PacingInv, PacingType, Goto, Control
  <2>2. meetings \in 0 .. 1
    BY <1>1 DEF PacingInv, PacingType, BarrierInv, InLoop
  <2>3. arrived' \in Nat /\ meetings' \in 0 .. 2 /\ serial' \in Worker
    BY <2>2 DEF Arrive, PacingInv, PacingType
  <2>4. QED
    BY <2>1, <2>3 DEF Arrive, PacingInv, PacingType, loopVars
<1>3. BarrierInv'
  BY <1>1, ArriveFirst, ArriveSecond
<1>4. PaceInv'
  BY <1>1, OutsidePace DEF Arrive, InLoop
<1>5. QED
  BY <1>2, <1>3, <1>4 DEF PacingInv

\* Leaving the first meeting; the serial thread reads the clock.
LEMMA LeaveFirstPacing ==
  ASSUME PacingInv, NEW w \in Worker, LeaveFirst(w) PROVE PacingInv'
<1>1. /\ PacingType /\ BarrierInv /\ meetings = 1
  BY DEF PacingInv, PacingType, BarrierInv, LeaveFirst, InLoop
<1>2. /\ Goto(w, "met") /\ wpc[w] = "first"
      /\ startTick' = IF serial = w THEN now ELSE startTick
      /\ UNCHANGED <<burst, now, doWork, arrived, meetings, serial, loopVars>>
  BY DEF LeaveFirst, AfterFirst, loopVars
<1>3. /\ wpc' \in [Worker -> Control] /\ wpc'[w] = "met"
      /\ \A v \in Worker : v # w => wpc'[v] = wpc[v]
  BY <1>1, <1>2 DEF PacingType, Goto, Control
<1>4. PacingType'
  BY <1>1, <1>2, <1>3 DEF PacingType, loopVars
<1>5. BarrierInv'
  <2>1. At("second")' = At("second")
    BY <1>2, <1>3 DEF At
  <2>2. wpc'[serial] # "first" => startTick' > 0
    <3>1. now > 0 /\ serial \in Worker
      BY <1>1 DEF PacingType
    <3>2. QED
      BY <1>1, <1>2, <1>3, <3>1 DEF BarrierInv
  <2>3. \A v \in Worker : wpc'[v] \in {"first", "met", "second"}
    BY <1>1, <1>3 DEF BarrierInv
  <2>4. arrived = Cardinality(At("second")) /\ arrived < WorkerNum
    BY <1>1 DEF BarrierInv
  <2>5. QED
    BY <1>1, <1>2, <2>1, <2>2, <2>3, <2>4 DEF BarrierInv
<1>6. PaceInv'
  <2>1. \A v \in Worker : ~InLoop(v)
    BY <1>1 DEF BarrierInv, InLoop
  <2>2. QED
    BY <1>2, <2>1, OutsidePace
<1>7. QED
  BY <1>4, <1>5, <1>6 DEF PacingInv

\* Leaving the second meeting: the worker takes the shared tick as its start.
LEMMA LeaveSecondPacing ==
  ASSUME PacingInv, NEW w \in Worker, LeaveSecond(w) PROVE PacingInv'
<1>1. /\ PacingType /\ BarrierInv /\ meetings = 2 /\ wpc[w] = "second"
  BY DEF PacingInv, PacingType, LeaveSecond
<1>2. /\ wpc' \in [Worker -> Control] /\ wpc'[w] = "top"
      /\ \A v \in Worker : v # w => wpc'[v] = wpc[v]
  BY <1>1 DEF PacingType, LeaveSecond, Goto, Control
<1>3. /\ secStart' \in [Worker -> Nat] /\ secStart'[w] = startTick
      /\ \A v \in Worker : v # w => secStart'[v] = secStart[v]
  BY <1>1 DEF PacingType, LeaveSecond
<1>4. PacingType'
  BY <1>1, <1>2, <1>3 DEF PacingType, LeaveSecond, barrierVars
<1>5. BarrierInv'
  BY <1>1, <1>2 DEF BarrierInv, LeaveSecond, barrierVars, InLoop
<1>6. ASSUME NEW v \in Worker PROVE Pace(v)'
  <2>1. Pace(v)
    BY DEF PacingInv, PaceInv
  <2>2. CASE v # w
    BY <1>2, <1>3, <2>1, <2>2, PaceKept DEF LeaveSecond, barrierVars
  <2>3. CASE v = w
    <3>1. pulses'[w] = 0 /\ startTick' = startTick
      BY <1>1, <2>1, <2>3 DEF Pace, Begun, InLoop, LeaveSecond, barrierVars
    <3>2. startTick + TicksPerSec * (0 + 0) = startTick
      BY <1>1, PacingAssumption DEF PacingType
    <3>3. QED
      BY <1>2, <1>3, <2>3, <3>1, <3>2
         DEF Pace, Begun, SteadyPace, BurstPace, Grid, InLoop, Waiting
  <2>4. QED
    BY <2>2, <2>3
<1>7. QED
  BY <1>4, <1>5, <1>6 DEF PacingInv, PaceInv

\* The head of the loop.
LEMMA CycleCheckPacing ==
  ASSUME PacingInv, NEW w \in Worker, CycleCheck(w) PROVE PacingInv'
<1>1. /\ PacingType /\ BarrierInv /\ InLoop(w) /\ wpc[w] = "top"
      /\ UNCHANGED <<burst, now, doWork, barrierVars, loopVars>>
  BY DEF PacingInv, CycleCheck, InLoop
<1>2. PICK pc \in {"work", "done"} : Goto(w, pc)
  BY DEF CycleCheck
<1>3. /\ BarrierInv' /\ wpc' \in [Worker -> Control] /\ wpc'[w] = pc
      /\ \A v \in Worker : v # w => wpc'[v] = wpc[v]
  BY <1>1, <1>2, LoopStep
<1>4. PacingType'
  BY <1>1, <1>3 DEF PacingType, barrierVars, loopVars
<1>5. ASSUME NEW v \in Worker PROVE Pace(v)'
  <2>1. Pace(v)
    BY DEF PacingInv, PaceInv
  <2>2. CASE v # w
    BY <1>1, <1>3, <2>1, <2>2, PaceKept DEF barrierVars, loopVars
  <2>3. CASE v = w
    BY <1>1, <1>3, <2>1, <2>3
       DEF Pace, Begun, SteadyPace, BurstPace, Grid, InLoop, Waiting, barrierVars, loopVars
  <2>4. QED
    BY <2>2, <2>3
<1>6. QED
  BY <1>3, <1>4, <1>5 DEF PacingInv, PaceInv

\* The start of a unit is a number of ticks.
LEMMA OffsetType == \A u \in Nat : Offset(u) \in Nat
<1>1. TicksPerSec \in Nat /\ UnitNum \in Nat \ {0}
  BY PacingAssumption
<1>2. TicksPerSec \div UnitNum \in Nat
  BY <1>1
<1>3. \A a, u \in Nat : a * u \in Nat
  OBVIOUS
<1>4. QED
  BY <1>2, <1>3 DEF Offset

\* A unit was sent: the last one of a second waits for the whole second.
LEMMA UnitSentPacing ==
  ASSUME PacingInv, NEW w \in Worker, UnitSent(w) PROVE PacingInv'
<1> DEFINE next == (unit[w] + 1) % UnitNum
           due == secStart[w] + (IF next = 0 THEN TicksPerSec ELSE Offset(next))
<1>1. /\ PacingType /\ BarrierInv /\ InLoop(w) /\ wpc[w] = "work" /\ ~burst
      /\ UNCHANGED <<burst, now, doWork, barrierVars, secStart, txLateCnt, pulses, pulseTick>>
  BY DEF PacingInv, UnitSent, InLoop
<1>2. Goto(w, "delay") /\ unit' = [unit EXCEPT ![w] = next]
      /\ target' = [target EXCEPT ![w] = due]
  BY DEF UnitSent
<1>3. /\ BarrierInv' /\ wpc' \in [Worker -> Control] /\ wpc'[w] = "delay"
      /\ \A v \in Worker : v # w => wpc'[v] = wpc[v]
  BY <1>1, <1>2, LoopStep
<1>4. next \in Nat
  BY <1>1, PacingAssumption DEF PacingType
<1>5. due \in Nat
  BY <1>1, <1>4, OffsetType, PacingAssumption DEF PacingType
<1> HIDE DEF due, next
<1>6. /\ unit' \in [Worker -> Nat] /\ unit'[w] = next
      /\ target' \in [Worker -> Nat] /\ target'[w] = due
      /\ \A v \in Worker : v # w => unit'[v] = unit[v] /\ target'[v] = target[v]
  BY <1>1, <1>2, <1>4, <1>5 DEF PacingType
<1>7. PacingType'
  BY <1>1, <1>3, <1>6 DEF PacingType, barrierVars
<1>8. ASSUME NEW v \in Worker PROVE Pace(v)'
  <2>1. Pace(v)
    BY DEF PacingInv, PaceInv
  <2>2. CASE v # w
    BY <1>1, <1>3, <1>6, <2>1, <2>2, PaceKept DEF barrierVars
  <2>3. CASE v = w
    <3>1. Begun(w)'
      BY <1>1, <1>3, <2>1, <2>3 DEF Pace, Begun, InLoop, Waiting, barrierVars
    <3>2. SteadyPace(w)'
      BY <1>1, <1>3, <1>6, <2>1, <2>3 DEF Pace, SteadyPace, Waiting, due
    <3>3. QED
      BY <1>1, <2>3, <3>1, <3>2 DEF Pace
  <2>4. QED
    BY <2>2, <2>3
<1>9. QED
  BY <1>3, <1>7, <1>8 DEF PacingInv, PaceInv

\* The wait for a unit ends: after the last one the next second starts now.
LEMMA UnitDuePacing ==
  ASSUME PacingInv, NEW w \in Worker, UnitDue(w) PROVE PacingInv'
<1>1. /\ PacingType /\ BarrierInv /\ InLoop(w) /\ wpc[w] = "delay" /\ ~burst
      /\ Goto(w, "top")
      /\ UNCHANGED <<burst, now, doWork, barrierVars, unit, target, txLateCnt>>
  BY DEF PacingInv, UnitDue, Waiting, InLoop
<1>2. /\ BarrierInv' /\ wpc' \in [Worker -> Control] /\ wpc'[w] = "top"
      /\ \A v \in Worker : v # w => wpc'[v] = wpc[v]
  BY <1>1, LoopStep
<1>3. /\ secStart' \in [Worker -> Nat] /\ pulses' \in [Worker -> Nat]
      /\ pulseTick' \in [Worker -> Nat]
      /\ \A v \in Worker : v # w => /\ secStart'[v] = secStart[v]
                                   /\ pulses'[v] = pulses[v]
                                   /\ pulseTick'[v] = pulseTick[v]
      /\ \/ /\ secStart'[w] = now /\ pulses'[w] = pulses[w] + 1
            /\ pulseTick'[w] = now
         \/ /\ secStart'[w] = secStart[w] /\ pulses'[w] = pulses[w]
            /\ pulseTick'[w] = pulseTick[w]
  <2>1. CASE unit[w] = 0
    BY <1>1, <2>1 DEF UnitDue, Rebase, PacingType
  <2>2. CASE unit[w] # 0
    BY <1>1, <2>2 DEF UnitDue, PacingType
  <2>3. QED
    BY <2>1, <2>2
<1>4. PacingType'
  BY <1>1, <1>2, <1>3 DEF PacingType, barrierVars
<1>5. ASSUME NEW v \in Worker PROVE Pace(v)'
  <2>1. Pace(v) /\ pulses[v] \in Nat
    BY DEF PacingInv, PaceInv, PacingType
  <2>2. CASE v # w
    BY <1>1, <1>2, <1>3, <2>1, <2>2, PaceKept DEF barrierVars
  <2>3. CASE v = w
    <3>1. pulses[w] + 1 > 0 /\ pulses[w] + 1 # 0
      BY <2>1, <2>3
    <3>2. Begun(w)'
      BY <1>1, <1>2, <1>3, <2>1, <2>3, <3>1 DEF Pace, Begun, InLoop, Waiting, barrierVars
    <3>3. SteadyPace(w)'
      BY <1>1, <1>2, <1>3, <2>1, <2>3, <3>1 DEF Pace, SteadyPace, Waiting
    <3>4. QED
      BY <1>1, <2>3, <3>2, <3>3 DEF Pace
  <2>4. QED
    BY <2>2, <2>3
<1>6. QED
  BY <1>2, <1>4, <1>5 DEF PacingInv, PaceInv

\* The grid one second on.
LEMMA NextOnGrid ==
  ASSUME NEW p \in Nat
  PROVE  /\ TicksPerSec * (p + 1) = TicksPerSec * p + TicksPerSec
         /\ TicksPerSec * (p + 0) = TicksPerSec * p
         /\ TicksPerSec * ((p + 1) + 0) = TicksPerSec * (p + 1)
         /\ TicksPerSec * p \in Nat
<1>1. TicksPerSec \in Nat
  BY PacingAssumption
<1>2. QED
  BY <1>1

\* A burst is staged: the worker waits for the next second of its grid, or,
\* when that has passed, moves its grid and counts.
LEMMA BurstStagedPacing ==
  ASSUME PacingInv, NEW w \in Worker, BurstStaged(w) PROVE PacingInv'
<1> DEFINE due == secStart[w] + TicksPerSec
           to == IF now > due THEN now ELSE due
<1>1. /\ PacingType /\ BarrierInv /\ InLoop(w) /\ wpc[w] = "work" /\ burst
      /\ UNCHANGED <<burst, now, doWork, barrierVars, unit, pulses, pulseTick>>
  BY DEF PacingInv, BurstStaged, InLoop
<1>2. /\ now \in Nat /\ secStart[w] \in Nat /\ TicksPerSec \in Nat /\ MaxOvershoot \in Nat
      /\ txLateCnt[w] \in Nat /\ pulses[w] \in Nat /\ pulseTick[w] \in Nat
      /\ startTick \in Nat /\ due \in Nat /\ to \in Nat /\ now <= to /\ due <= to
  BY <1>1, PacingAssumption DEF PacingType
<1>3. CASE doWork
  <2>1. /\ target' = [target EXCEPT ![w] = to]
        /\ txLateCnt' = [txLateCnt EXCEPT ![w] = IF now > due THEN @ + 1 ELSE @]
        /\ secStart' = [secStart EXCEPT ![w] = target'[w]]
        /\ Goto(w, "delay")
    BY <1>3 DEF BurstStaged, Resync
  <2>2. /\ BarrierInv' /\ wpc' \in [Worker -> Control] /\ wpc'[w] = "delay"
        /\ \A v \in Worker : v # w => wpc'[v] = wpc[v]
    BY <1>1, <2>1, LoopStep
  <2>3. /\ target' \in [Worker -> Nat] /\ target'[w] = to
        /\ \A v \in Worker : v # w => target'[v] = target[v]
    BY <1>1, <1>2, <2>1 DEF PacingType
  <2>4. /\ secStart' \in [Worker -> Nat] /\ secStart'[w] = to
        /\ \A v \in Worker : v # w => secStart'[v] = secStart[v]
    BY <1>1, <1>2, <2>1, <2>3 DEF PacingType
  <2>5. /\ txLateCnt' \in [Worker -> Nat]
        /\ txLateCnt'[w] = IF now > due THEN txLateCnt[w] + 1 ELSE txLateCnt[w]
        /\ \A v \in Worker : v # w => txLateCnt'[v] = txLateCnt[v]
    BY <1>1, <1>2, <2>1 DEF PacingType
  <2>6. PacingType'
    BY <1>1, <2>2, <2>3, <2>4, <2>5 DEF PacingType, barrierVars
  <2>7. ASSUME NEW v \in Worker PROVE Pace(v)'
    <3>1. Pace(v)
      BY DEF PacingInv, PaceInv
    <3>2. CASE v # w
      BY <1>1, <2>2, <2>3, <2>4, <2>5, <3>1, <3>2, PaceKept DEF barrierVars
    <3>3. CASE v = w
      <4>1. Begun(w)'
        BY <1>1, <2>2, <3>1, <3>3 DEF Pace, Begun, InLoop, Waiting
      <4>2. BurstPace(w)'
        BY <1>1, <1>2, <2>2, <2>3, <2>4, <3>1, <3>3 DEF Pace, BurstPace, Waiting
      <4>3. Grid(w)'
        <5>1. ASSUME txLateCnt'[w] = 0
              PROVE  secStart'[w] = startTick + TicksPerSec * (pulses[w] + 1)
          <6>1. to = due /\ txLateCnt[w] = 0
            BY <1>2, <2>5, <5>1
          <6>2. secStart[w] = startTick + TicksPerSec * (pulses[w] + 0)
            BY <1>1, <3>1, <3>3, <6>1 DEF Pace, Grid, InLoop, Waiting
          <6>3. QED
            BY <1>2, <2>4, <6>1, <6>2, NextOnGrid
        <5>2. QED
          BY <1>1, <2>2, <5>1 DEF Grid, InLoop, Waiting, barrierVars
      <4>4. QED
        BY <1>1, <3>3, <4>1, <4>2, <4>3 DEF Pace
    <3>4. QED
      BY <3>2, <3>3
  <2>8. QED
    BY <2>2, <2>6, <2>7 DEF PacingInv, PaceInv
<1>4. CASE ~doWork
  <2>1. Goto(w, "done") /\ UNCHANGED <<secStart, target, txLateCnt>>
    BY <1>4 DEF BurstStaged
  <2>2. /\ BarrierInv' /\ wpc' \in [Worker -> Control] /\ wpc'[w] = "done"
        /\ \A v \in Worker : v # w => wpc'[v] = wpc[v]
    BY <1>1, <2>1, LoopStep
  <2>3. PacingType'
    BY <1>1, <2>1, <2>2 DEF PacingType, barrierVars
  <2>4. ASSUME NEW v \in Worker PROVE Pace(v)'
    <3>1. Pace(v)
      BY DEF PacingInv, PaceInv
    <3>2. CASE v # w
      BY <1>1, <2>1, <2>2, <3>1, <3>2, PaceKept DEF barrierVars
    <3>3. CASE v = w
      BY <1>1, <2>1, <2>2, <3>1, <3>3
         DEF Pace, Begun, BurstPace, Grid, InLoop, Waiting, barrierVars
    <3>4. QED
      BY <3>2, <3>3
  <2>5. QED
    BY <2>2, <2>3, <2>4 DEF PacingInv, PaceInv
<1>5. QED
  BY <1>3, <1>4

\* The second of a staged burst begins.
LEMMA BurstDuePacing ==
  ASSUME PacingInv, NEW w \in Worker, BurstDue(w) PROVE PacingInv'
<1>1. /\ PacingType /\ BarrierInv /\ InLoop(w) /\ wpc[w] = "delay" /\ burst
      /\ Goto(w, "fire")
      /\ UNCHANGED <<burst, now, doWork, barrierVars, secStart, unit, target, txLateCnt>>
  BY DEF PacingInv, BurstDue, Waiting, InLoop
<1>2. /\ BarrierInv' /\ wpc' \in [Worker -> Control] /\ wpc'[w] = "fire"
      /\ \A v \in Worker : v # w => wpc'[v] = wpc[v]
  BY <1>1, LoopStep
<1>3. /\ pulses' \in [Worker -> Nat] /\ pulseTick' \in [Worker -> Nat]
      /\ \A v \in Worker : v # w => /\ pulses'[v] = pulses[v]
                                   /\ pulseTick'[v] = pulseTick[v]
      /\ pulses'[w] = pulses[w] + 1 /\ pulseTick'[w] = now
  BY <1>1 DEF BurstDue, PacingType
<1>4. PacingType'
  BY <1>1, <1>2, <1>3 DEF PacingType, barrierVars
<1>5. ASSUME NEW v \in Worker PROVE Pace(v)'
  <2>1. Pace(v) /\ pulses[v] \in Nat
    BY DEF PacingInv, PaceInv, PacingType
  <2>2. CASE v # w
    BY <1>1, <1>2, <1>3, <2>1, <2>2, PaceKept DEF barrierVars
  <2>3. CASE v = w
    <3>1. pulses[w] + 1 > 0 /\ pulses[w] + 1 # 0
      BY <2>1, <2>3
    <3>2. Begun(w)'
      BY <1>1, <1>2, <1>3, <2>3, <3>1 DEF Begun, InLoop
    <3>3. BurstPace(w)'
      BY <1>1, <1>2, <1>3, <2>1, <2>3 DEF Pace, BurstPace, Waiting
    <3>4. Grid(w)'
      BY <1>1, <1>2, <1>3, <2>1, <2>3, NextOnGrid DEF Pace, Grid, InLoop, Waiting, barrierVars
    <3>5. QED
      BY <1>1, <2>3, <3>2, <3>3, <3>4 DEF Pace
  <2>4. QED
    BY <2>2, <2>3
<1>6. QED
  BY <1>2, <1>4, <1>5 DEF PacingInv, PaceInv

\* The burst has been sent.
LEMMA BurstSentPacing ==
  ASSUME PacingInv, NEW w \in Worker, BurstSent(w) PROVE PacingInv'
<1>1. /\ PacingType /\ BarrierInv /\ InLoop(w) /\ wpc[w] = "fire" /\ Goto(w, "top")
      /\ UNCHANGED <<burst, now, doWork, barrierVars, loopVars>>
  BY DEF PacingInv, BurstSent, InLoop
<1>2. /\ BarrierInv' /\ wpc' \in [Worker -> Control] /\ wpc'[w] = "top"
      /\ \A v \in Worker : v # w => wpc'[v] = wpc[v]
  BY <1>1, LoopStep
<1>3. PacingType'
  BY <1>1, <1>2 DEF PacingType, barrierVars, loopVars
<1>4. ASSUME NEW v \in Worker PROVE Pace(v)'
  <2>1. Pace(v)
    BY DEF PacingInv, PaceInv
  <2>2. CASE v # w
    BY <1>1, <1>2, <2>1, <2>2, PaceKept DEF barrierVars, loopVars
  <2>3. CASE v = w
    BY <1>1, <1>2, <2>1, <2>3
       DEF Pace, Begun, SteadyPace, BurstPace, Grid, InLoop, Waiting, barrierVars, loopVars
  <2>4. QED
    BY <2>2, <2>3
<1>5. QED
  BY <1>2, <1>3, <1>4 DEF PacingInv, PaceInv

-----------------------------------------------------------------------------
(* The theorems.                                                           *)

\* Every step keeps the invariant.
LEMMA PacingStep == PacingInv /\ [Next]_vars => PacingInv'
<1> SUFFICES ASSUME PacingInv, [Next]_vars PROVE PacingInv'
  OBVIOUS
<1>1. CASE Tick
  BY <1>1, TickPacing
<1>2. CASE Stop
  BY <1>2, StopPacing
<1>3. ASSUME NEW w \in Worker, WorkerStep(w) PROVE PacingInv'
  BY <1>3, ArrivePacing, LeaveFirstPacing, LeaveSecondPacing, CycleCheckPacing,
     UnitSentPacing, UnitDuePacing, BurstStagedPacing, BurstDuePacing, BurstSentPacing
     DEF WorkerStep
<1>4. CASE UNCHANGED vars
  BY <1>4 DEF vars, barrierVars, loopVars, PacingInv, PacingType, BarrierInv, At, PaceInv,
     Pace, Begun, SteadyPace, BurstPace, Grid, InLoop, Waiting
<1>5. QED
  BY <1>1, <1>2, <1>3, <1>4 DEF Next, Ended

\* The invariant holds throughout every run.
LEMMA Paced == Spec => []PacingInv
BY InitPacing, PacingStep, PTL DEF Spec

\* The barrier does its work for any number of workers, however they are
\* launched and scheduled: a worker begins its first second with the tick that
\* the serial thread read (pthread_barrier_wait, twice, around the read).
THEOREM StartIsShared == Spec => []SharedStart
<1>1. PacingInv => SharedStart
  <2> SUFFICES ASSUME PacingInv, NEW w \in Worker, InLoop(w), pulses[w] = 0, ~Waiting(w)
               PROVE  secStart[w] = startTick /\ startTick > 0
    BY DEF SharedStart
  <2>1. secStart[w] = startTick
    BY DEF PacingInv, PaceInv, Pace, Begun
  <2>2. meetings = 2
    BY DEF PacingInv, PacingType, BarrierInv, InLoop
  <2>3. QED
    BY <2>1, <2>2 DEF PacingInv, BarrierInv
<1>2. QED
  BY <1>1, Paced, PTL

\* Burst mode: a worker whose tx_late is zero is on the second grid of the shared
\* start tick, after any number of seconds.
THEOREM BurstsOnGrid == Spec => []OnGrid
<1>1. PacingInv => OnGrid
  BY DEF PacingInv, PaceInv, Pace, Grid, OnGrid
<1>2. QED
  BY <1>1, Paced, PTL

\* One step of the invariant keeps the distance of the pulses.
LEMMA PulseStep ==
  ASSUME PacingInv, Next, NEW w \in Worker, pulses[w] > 0, pulses'[w] # pulses[w]
  PROVE  pulseTick'[w] + MaxOvershoot >= pulseTick[w] + TicksPerSec
<1>1. PacingType /\ Pace(w)
  BY DEF PacingInv, PaceInv
<1>2. /\ now \in Nat /\ secStart[w] \in Nat /\ target[w] \in Nat /\ pulseTick[w] \in Nat
      /\ TicksPerSec \in Nat /\ MaxOvershoot \in Nat
  BY <1>1, PacingAssumption DEF PacingType
<1>3. UnitDue(w) \/ BurstDue(w)
  <2>1. PICK v \in Worker : WorkerStep(v)
    BY DEF Next, Tick, Stop, Ended, vars, loopVars
  <2>2. UnitDue(v) \/ BurstDue(v)
    BY <2>1 DEF WorkerStep, Arrive, LeaveFirst, LeaveSecond, CycleCheck, UnitSent,
       BurstStaged, BurstSent, loopVars
  <2>3. v = w
    BY <1>1, <2>2 DEF UnitDue, BurstDue, PacingType
  <2>4. QED
    BY <2>2, <2>3
<1>4. CASE UnitDue(w)
  <2>1. unit[w] = 0 /\ ~burst /\ Waiting(w) /\ now >= target[w]
    BY <1>4 DEF UnitDue
  <2>2. pulseTick'[w] = now
    BY <1>1, <1>4, <2>1 DEF UnitDue, PacingType
  <2>3. target[w] = pulseTick[w] + TicksPerSec
    BY <1>1, <2>1 DEF Pace, SteadyPace
  <2>4. QED
    BY <1>2, <2>1, <2>2, <2>3
<1>5. CASE BurstDue(w)
  <2>1. burst /\ Waiting(w) /\ now >= target[w] /\ pulseTick'[w] = now
    BY <1>1, <1>5 DEF BurstDue, PacingType
  <2>2. /\ target[w] = secStart[w]
        /\ pulseTick[w] + TicksPerSec <= secStart[w] + MaxOvershoot
    BY <1>1, <2>1 DEF Pace, BurstPace
  <2>3. QED
    BY <1>2, <2>1, <2>2
<1>6. QED
  BY <1>3, <1>4, <1>5

\* Neither loop makes lost time up by sending faster: between two pulses of a
\* worker lies a second, up to the overshoot of one wait, whatever the delays
\* before (the resynchronisation of the burst loop, the rebase of the steady one).
THEOREM PulsesKeepDistance == Spec => PulseSpacing
<1>1. PacingInv /\ [Next]_vars =>
        [\A w \in Worker : pulses[w] > 0 /\ pulses'[w] # pulses[w] =>
            pulseTick'[w] + MaxOvershoot >= pulseTick[w] + TicksPerSec]_vars
  BY PulseStep
<1>2. QED
  BY <1>1, Paced, PTL DEF Spec, PulseSpacing
=============================================================================
