------------------------------- MODULE TxSteady -------------------------------
(***************************************************************************)
(* Steady mode of bus_generator: tx_packets_cycle (L2, one worker) and     *)
(* tx_r_worker_cycle (routable, a worker per lcore), which is the same     *)
(* loop.  The second is divided into TX units; a unit sends one frame of   *)
(* every stream of the worker, block by block.  A chunk is allocated,      *)
(* amended, handed to the queue, and what the queue does not take is freed *)
(* and counted: the numbers of those frames are used up, so the generator  *)
(* itself makes a gap.                                                     *)
(*                                                                         *)
(* Waiting for the time of the next unit is left to TxPacing.              *)
(***************************************************************************)
EXTENDS TxWorkers

CONSTANTS
  BUNCH_SIZE,  \* streams per block
  MaxUnits     \* bound: units a worker begins

ASSUME SteadyAssumption ==
  /\ BUNCH_SIZE \in Nat \ {0}
  /\ MaxUnits \in Nat

VARIABLES
  doWork,      \* g_doWork
  pool,        \* free mbufs in the common part of the mempool
  cache,       \* free mbufs in each lcore's cache
  wpc,         \* control point of each worker
  units,       \* history: units begun
  blk,         \* block of the unit the worker is in
  sendNum,     \* frames of the block already dealt with
  granted,     \* mbufs allocated and still to be amended
  mbufs,       \* frames amended and not yet handed over
  ied,         \* newest number given to each stream, by its worker
  txq,         \* frames in the TX ring, still to be sent
  txDone,      \* frames sent whose mbufs are not reclaimed yet
  txPktCnt,    \* statistic: frames the queue has taken
  errSendCnt,  \* statistic: frames the queue has not taken
  wire,        \* number of the newest frame of each stream on the wire
  skipped      \* history: numbers of each stream that were never sent

workerVars == <<wpc, units, blk, sendNum, granted, mbufs, ied, txPktCnt, errSendCnt>>
wireVars == <<txq, txDone, wire, skipped>>
vars == <<doWork, pool, cache, workerVars, wireVars>>

\* Faulty variant: the last, smaller block is missing.
BlocksWhole(w) ==
  [b \in 1 .. IedNum(w) \div BUNCH_SIZE |->
     [i \in 1 .. BUNCH_SIZE |-> BaseIdx(w) + (b - 1) * BUNCH_SIZE + i - 1]]

\* The blocks of a unit: full ones and one for the remaining streams.
Blocks(w) ==
  LET full == IedNum(w) \div BUNCH_SIZE
      last == IedNum(w) % BUNCH_SIZE
      num  == full + (IF last > 0 THEN 1 ELSE 0)
      size(b) == IF b <= full THEN BUNCH_SIZE ELSE last
  IN  [b \in 1 .. num |->
         [i \in 1 .. size(b) |-> BaseIdx(w) + (b - 1) * BUNCH_SIZE + i - 1]]

\* A run whose rings do not fit the pool is refused with an exception before
\* the workers start.
Init ==
  /\ doWork = QueuesFit
  /\ pool = MBUF_NUM - RX_DESC_NUM
  /\ cache = [w \in Worker |-> 0]
  /\ wpc = [w \in Worker |-> IF doWork THEN "top" ELSE "done"]
  /\ units = [w \in Worker |-> 0]
  /\ blk = [w \in Worker |-> 1]
  /\ sendNum = [w \in Worker |-> 0]
  /\ granted = [w \in Worker |-> 0]
  /\ mbufs = [w \in Worker |-> << >>]
  /\ ied = [s \in Stream |-> 0]
  /\ txq = [w \in Worker |-> << >>]
  /\ txDone = [w \in Worker |-> 0]
  /\ txPktCnt = [w \in Worker |-> 0]
  /\ errSendCnt = [w \in Worker |-> 0]
  /\ wire = [s \in Stream |-> 0]
  /\ skipped = [s \in Stream |-> 0]

\* Signal, time limit or an exception elsewhere.
Stop ==
  /\ doWork
  /\ doWork' = FALSE
  /\ UNCHANGED <<pool, cache, workerVars, wireVars>>

\* Worker w gives num mbufs back.
Free(w, num) ==
  LET kept == FreeToCache(cache[w], num)
  IN  /\ cache' = [cache EXCEPT ![w] = @ + kept]
      /\ pool' = pool + (num - kept)

\* The NIC sends; numbers between two frames on the wire were skipped.
Transmit(w) ==
  /\ txq[w] # << >>
  /\ LET f == Head(txq[w])
     IN  /\ wire' = [wire EXCEPT ![f.s] = f.n]
         /\ skipped' = [skipped EXCEPT ![f.s] = @ + (f.n - wire[f.s] - 1)]
  /\ txq' = [txq EXCEPT ![w] = Tail(@)]
  /\ txDone' = [txDone EXCEPT ![w] = @ + 1]
  /\ UNCHANGED <<doWork, pool, cache, workerVars>>

-----------------------------------------------------------------------------
(* A worker.                                                               *)

\* The head of the main loop: begin a unit, or leave.
CycleCheck(w) ==
  /\ wpc[w] = "top"
  /\ IF doWork
       THEN /\ units[w] < MaxUnits
            /\ units' = [units EXCEPT ![w] = @ + 1]
            /\ wpc' = [wpc EXCEPT ![w] = "unit"]
       ELSE /\ wpc' = [wpc EXCEPT ![w] = "done"]
            /\ UNCHANGED units
  /\ blk' = [blk EXCEPT ![w] = 1]
  /\ sendNum' = [sendNum EXCEPT ![w] = 0]
  /\ UNCHANGED <<doWork, pool, cache, granted, mbufs, ied, txPktCnt, errSendCnt,
                 wireVars>>

Idle(w) == wpc[w] = "unit" /\ granted[w] = 0 /\ mbufs[w] = << >>
InBlock(w) == Idle(w) /\ blk[w] <= Len(Blocks(w)) /\ sendNum[w] < Len(Blocks(w)[blk[w]])

\* Faulty variant: the failed allocation is only tried again.
CleanupNothing(w) == UNCHANGED <<cache, pool, txDone>>

\* rte_eth_tx_done_cleanup when the allocation failed.
Cleanup(w) ==
  /\ Free(w, txDone[w])
  /\ txDone' = [txDone EXCEPT ![w] = 0]

\* rte_pktmbuf_alloc_bulk for the next chunk.  When it fails the queue is
\* cleaned up and the chunk tried again, or, when stopping, the block is left.
Alloc(w) ==
  /\ InBlock(w)
  /\ LET num == Chunk(Len(Blocks(w)[blk[w]]), sendNum[w])
         own == AllocFromCache(cache[w], num)
     IN  IF CanAlloc(cache[w], pool, num)
           THEN /\ cache' = [cache EXCEPT ![w] = @ - own]
                /\ pool' = pool - (num - own)
                /\ granted' = [granted EXCEPT ![w] = num]
                /\ UNCHANGED <<blk, sendNum, txDone>>
           ELSE /\ Cleanup(w)
                /\ blk' = [blk EXCEPT ![w] = IF doWork THEN @ ELSE @ + 1]
                /\ sendNum' = [sendNum EXCEPT ![w] = IF doWork THEN @ ELSE 0]
                /\ UNCHANGED granted
  /\ UNCHANGED <<doWork, wpc, units, mbufs, ied, txPktCnt, errSendCnt, txq, wire,
                 skipped>>

\* AmendPacket on one mbuf of the chunk: its stream's number goes up.
Amend(w) ==
  /\ granted[w] > 0
  /\ LET s == Blocks(w)[blk[w]][sendNum[w] + Len(mbufs[w]) + 1]
     IN  /\ ied' = [ied EXCEPT ![s] = @ + 1]
         /\ mbufs' = [mbufs EXCEPT ![w] = Append(@, [s |-> s, n |-> ied[s] + 1])]
  /\ granted' = [granted EXCEPT ![w] = @ - 1]
  /\ UNCHANGED <<doWork, pool, cache, wpc, units, blk, sendNum, txPktCnt, errSendCnt,
                 wireVars>>

\* Faulty variants: what was not taken is not counted; it is not freed.
LostSilently(num, nb) == 0
TailForgotten(num, nb) == 0

\* What a tx_burst that took nb of num frames adds to tx_packets and to
\* err_send, and how many mbufs are freed.
Accepted(num, nb) == nb
Lost(num, nb) == num - nb
TailFreed(num, nb) == num - nb

\* rte_eth_tx_burst: the driver reclaims what was sent and takes as many
\* frames as descriptors are free; the rest is freed and counted.
Send(w) ==
  /\ granted[w] = 0
  /\ mbufs[w] # << >>
  /\ LET num == Len(mbufs[w])
         nb  == Least(num, TX_DESC_NUM - Len(txq[w]))
     IN  /\ txq' = [txq EXCEPT ![w] = @ \o Prefix(mbufs[w], nb)]
         /\ txPktCnt' = [txPktCnt EXCEPT ![w] = @ + Accepted(num, nb)]
         /\ errSendCnt' = [errSendCnt EXCEPT ![w] = @ + Lost(num, nb)]
         /\ Free(w, txDone[w] + TailFreed(num, nb))
         /\ sendNum' = [sendNum EXCEPT ![w] = @ + num]
  /\ txDone' = [txDone EXCEPT ![w] = 0]
  /\ mbufs' = [mbufs EXCEPT ![w] = << >>]
  /\ UNCHANGED <<doWork, wpc, units, blk, granted, ied, wire, skipped>>

\* The block is through.
NextBlock(w) ==
  /\ Idle(w)
  /\ blk[w] <= Len(Blocks(w))
  /\ sendNum[w] = Len(Blocks(w)[blk[w]])
  /\ blk' = [blk EXCEPT ![w] = @ + 1]
  /\ sendNum' = [sendNum EXCEPT ![w] = 0]
  /\ UNCHANGED <<doWork, pool, cache, wpc, units, granted, mbufs, ied, txPktCnt,
                 errSendCnt, wireVars>>

\* All blocks of the unit are through: on to the next unit.
NextUnit(w) ==
  /\ Idle(w)
  /\ blk[w] > Len(Blocks(w))
  /\ wpc' = [wpc EXCEPT ![w] = "top"]
  /\ UNCHANGED <<doWork, pool, cache, units, blk, sendNum, granted, mbufs, ied,
                 txPktCnt, errSendCnt, wireVars>>

WorkerStep(w) == \/ CycleCheck(w)
                 \/ Alloc(w)
                 \/ Amend(w)
                 \/ Send(w)
                 \/ NextBlock(w)
                 \/ NextUnit(w)

\* rte_eal_mp_wait_lcore has returned and the wire is idle.
Exited ==
  /\ \A w \in Worker : wpc[w] = "done" /\ txq[w] = << >>
  /\ UNCHANGED vars

Next == \/ Stop
        \/ \E w \in Worker : WorkerStep(w) \/ Transmit(w)
        \/ Exited

Spec == Init /\ [][Next]_vars

\* Every lcore polls on its own core; the NIC sends what it was given.
FairSpec == Spec /\ \A w \in Worker : WF_vars(WorkerStep(w)) /\ WF_vars(Transmit(w))

-----------------------------------------------------------------------------
(* Properties.                                                             *)

\* The type invariant; the mbufs array, the TX ring and the packets of a
\* block are never overrun.
TypeOK ==
  /\ doWork \in BOOLEAN
  /\ pool \in 0 .. MBUF_NUM
  /\ cache \in [Worker -> 0 .. CACHE_NUM]
  /\ wpc \in [Worker -> {"top", "unit", "done"}]
  /\ units \in [Worker -> 0 .. MaxUnits]
  /\ blk \in [Worker -> Nat \ {0}]
  /\ sendNum \in [Worker -> Nat]
  /\ granted \in [Worker -> 0 .. BURST_SIZE]
  /\ mbufs \in [Worker -> Seq(Frame)]
  /\ ied \in [Stream -> Nat]
  /\ txq \in [Worker -> Seq(Frame)]
  /\ txDone \in [Worker -> Nat]
  /\ \A w \in Worker : /\ Len(txq[w]) + txDone[w] <= TX_DESC_NUM
                       /\ granted[w] + Len(mbufs[w]) <= BURST_SIZE
                       /\ blk[w] <= Len(Blocks(w)) =>
                            sendNum[w] + granted[w] + Len(mbufs[w])
                              <= Len(Blocks(w)[blk[w]])
  /\ txPktCnt \in [Worker -> Nat]
  /\ errSendCnt \in [Worker -> Nat]
  /\ wire \in [Stream -> Nat]
  /\ skipped \in [Stream -> Nat]

\* Every mbuf is in the pool, in a cache, on the RX ring or held by one
\* worker, also after a partly accepted chunk and a block left while stopping.
Held(w) == cache[w] + granted[w] + Len(mbufs[w]) + Len(txq[w]) + txDone[w]
MbufsConserved ==
  pool + SumBelow([w \in Worker |-> Held(w)], WorkerNum) + RX_DESC_NUM = MBUF_NUM

\* err_send tells the gaps the generator makes itself: with tx_packets it
\* accounts for every number given out, and no more numbers are skipped on the
\* wire, so that err_send = 0 means that the generator made no gap.
GapsAreCounted ==
  \A w \in Worker :
    LET Over(f) == SumBelow([i \in 0 .. IedNum(w) - 1 |-> f[BaseIdx(w) + i]], IedNum(w)) IN
    /\ Over(skipped) <= errSendCnt[w]
    /\ Over(ied) = txPktCnt[w] + errSendCnt[w] + Len(mbufs[w])

\* Every stream of the command line keeps the cadence: at the head of the loop
\* each has been given one number per unit, until the run is stopped.
EvenCadence ==
  doWork => \A n \in 0 .. MaxUnits :
    (\A w \in Worker : wpc[w] = "top" /\ units[w] = n) => \A s \in Stream : ied[s] = n

\* A worker that waits for mbufs gets them, or the run has been stopped: every
\* unit that is begun ends.
UnitEnds == \A w \in Worker : wpc[w] = "unit" ~> wpc[w] # "unit"
=============================================================================
