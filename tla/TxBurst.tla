------------------------------- MODULE TxBurst -------------------------------
(***************************************************************************)
(* Burst mode of bus_generator (--burst).  Every TX worker stages the      *)
(* whole second (an mbuf per frame, each amended with the next number of   *)
(* its stream), waits for the second boundary and then hands the staged    *)
(* frames to its queue until the queue has taken all of them.              *)
(*                                                                         *)
(* The workers share the mempool and the g_doWork flag, nothing else.  The *)
(* NIC sends in the background; a sent frame keeps its mbuf until the      *)
(* driver reclaims the descriptor.  Time is left out here: TxPacing models *)
(* the start barrier and the second boundaries.                            *)
(***************************************************************************)
EXTENDS TxWorkers

CONSTANTS
  Freqs,      \* repetitions per second a command line may ask for
  MaxBursts   \* bound: bursts per worker

ASSUME BurstAssumption ==
  /\ Freqs \subseteq Nat \ {0}
  /\ MaxBursts \in Nat

VARIABLES
  freq,      \* repetitions of every stream in one burst
  doWork,    \* g_doWork
  pool,      \* free mbufs in the common part of the mempool
  cache,     \* free mbufs in each lcore's cache
  wpc,       \* control point of each worker
  granted,   \* mbufs allocated and still to be amended
  staged,    \* frames amended and not yet taken by the queue
  ied,       \* newest number given to each stream, by its worker
  txq,       \* frames in the TX ring, still to be sent
  txDone,    \* frames sent whose mbufs are not reclaimed yet
  txPktCnt,  \* statistic: frames the queue has taken
  bursts,    \* history: bursts begun
  wire       \* number of the newest frame of each stream on the wire

workerVars == <<wpc, granted, staged, ied, txPktCnt, bursts>>
vars == <<freq, doWork, pool, cache, workerVars, txq, txDone, wire>>

Total(w) == IedNum(w) * freq

\* Repetition after repetition, every stream of the worker once.
MakeBurstPlan(streams, reps) == [k \in 1 .. streams * reps |-> (k - 1) % streams]

\* Faulty variant: the plan of one worker is checked, not all of them.
BurstFitsOnePlan(reps) ==
  IedNum(0) * reps + WorkerNum * TX_DESC_NUM + WorkerNum * CACHE_NUM < MBUF_NUM

\* The staged burst, a TX ring and a cache per worker must fit the pool.
BurstFits(reps) ==
  StreamNum * reps + WorkerNum * TX_DESC_NUM + WorkerNum * CACHE_NUM < MBUF_NUM

\* A run that does not fit is refused with an exception before the workers
\* start.
Init ==
  /\ freq \in Freqs
  /\ doWork = (QueuesFit /\ BurstFits(freq))
  /\ pool = MBUF_NUM - RX_DESC_NUM
  /\ cache = [w \in Worker |-> 0]
  /\ wpc = [w \in Worker |-> IF doWork THEN "top" ELSE "done"]
  /\ granted = [w \in Worker |-> 0]
  /\ staged = [w \in Worker |-> << >>]
  /\ ied = [s \in Stream |-> 0]
  /\ txq = [w \in Worker |-> << >>]
  /\ txDone = [w \in Worker |-> 0]
  /\ txPktCnt = [w \in Worker |-> 0]
  /\ bursts = [w \in Worker |-> 0]
  /\ wire = [s \in Stream |-> 0]

\* Signal, time limit or an exception elsewhere.
Stop ==
  /\ doWork
  /\ doWork' = FALSE
  /\ UNCHANGED <<freq, pool, cache, workerVars, txq, txDone, wire>>

\* Worker w gives num mbufs back.
Free(w, num) ==
  LET kept == FreeToCache(cache[w], num)
  IN  /\ cache' = [cache EXCEPT ![w] = @ + kept]
      /\ pool' = pool + (num - kept)

-----------------------------------------------------------------------------
(* The NIC.                                                                *)

Transmit(w) ==
  /\ txq[w] # << >>
  /\ LET f == Head(txq[w]) IN wire' = [wire EXCEPT ![f.s] = f.n]
  /\ txq' = [txq EXCEPT ![w] = Tail(@)]
  /\ txDone' = [txDone EXCEPT ![w] = @ + 1]
  /\ UNCHANGED <<freq, doWork, pool, cache, workerVars>>

-----------------------------------------------------------------------------
(* A worker: tx_burst_worker_cycle.                                        *)

CycleCheck(w) ==
  /\ wpc[w] = "top"
  /\ IF doWork
       THEN /\ bursts[w] < MaxBursts
            /\ wpc' = [wpc EXCEPT ![w] = "stage"]
            /\ bursts' = [bursts EXCEPT ![w] = @ + 1]
       ELSE /\ wpc' = [wpc EXCEPT ![w] = "done"]
            /\ UNCHANGED bursts
  /\ UNCHANGED <<freq, doWork, pool, cache, granted, staged, ied, txPktCnt,
                 txq, txDone, wire>>

Staging(w) == wpc[w] = "stage" /\ granted[w] = 0

\* rte_eth_tx_done_cleanup when the allocation failed.
Cleanup(w) ==
  /\ Free(w, txDone[w])
  /\ txDone' = [txDone EXCEPT ![w] = 0]

\* rte_pktmbuf_alloc_bulk for the next chunk.
StageAlloc(w) ==
  /\ Staging(w)
  /\ Len(staged[w]) < Total(w)
  /\ doWork
  /\ LET num == Chunk(Total(w), Len(staged[w]))
         own == AllocFromCache(cache[w], num)
     IN  IF CanAlloc(cache[w], pool, num)
           THEN /\ cache' = [cache EXCEPT ![w] = @ - own]
                /\ pool' = pool - (num - own)
                /\ granted' = [granted EXCEPT ![w] = num]
                /\ UNCHANGED txDone
           ELSE /\ Cleanup(w)
                /\ UNCHANGED granted
  /\ UNCHANGED <<freq, doWork, wpc, staged, ied, txPktCnt, bursts, txq, wire>>

\* AmendPacket: the next descriptor of the plan; its stream's number goes up.
Amend(w) ==
  /\ wpc[w] = "stage"
  /\ granted[w] > 0
  /\ LET plan == MakeBurstPlan(IedNum(w), freq)
         s    == BaseIdx(w) + plan[Len(staged[w]) + 1]
     IN  /\ ied' = [ied EXCEPT ![s] = @ + 1]
         /\ staged' = [staged EXCEPT ![w] = Append(@, [s |-> s, n |-> ied[s] + 1])]
  /\ granted' = [granted EXCEPT ![w] = @ - 1]
  /\ UNCHANGED <<freq, doWork, pool, cache, wpc, txPktCnt, bursts, txq, txDone, wire>>

\* Everything is staged, or the run is stopping.
StageEnd(w) ==
  /\ Staging(w)
  /\ IF doWork
       THEN /\ Len(staged[w]) = Total(w)
            /\ wpc' = [wpc EXCEPT ![w] = "fire"]
            /\ UNCHANGED <<pool, cache, staged>>
       ELSE /\ Free(w, Len(staged[w]))
            /\ staged' = [staged EXCEPT ![w] = << >>]
            /\ wpc' = [wpc EXCEPT ![w] = "done"]
  /\ UNCHANGED <<freq, doWork, granted, ied, txPktCnt, bursts, txq, txDone, wire>>

\* Faulty variant: the loop moves on by what it offered.
AdvanceOffered(num, nb) == num

\* How far a tx_burst that took nb of num frames moves the loop on.
Advance(num, nb) == nb

\* rte_eth_tx_burst: the driver reclaims what was sent and takes as many
\* frames as descriptors are free.  The tail is offered again.
Fire(w) ==
  /\ wpc[w] = "fire"
  /\ staged[w] # << >>
  /\ doWork
  /\ LET num == Chunk(Len(staged[w]), 0)
         nb  == Least(num, TX_DESC_NUM - Len(txq[w]))
     IN  /\ txq' = [txq EXCEPT ![w] = @ \o Prefix(staged[w], nb)]
         /\ staged' = [staged EXCEPT ![w] = Rest(@, Advance(num, nb))]
  /\ Free(w, txDone[w])
  /\ txDone' = [txDone EXCEPT ![w] = 0]
  /\ UNCHANGED <<freq, doWork, wpc, granted, ied, txPktCnt, bursts, wire>>

\* Faulty variants: the frames freed at a stop are counted as sent; they are
\* not freed.
SentWhole(w) == Total(w)
RemainderForgotten(w) == 0

\* Frames of the burst the queue has taken, and the others.
Sent(w) == Total(w) - Len(staged[w])
Remainder(w) == Len(staged[w])

\* All taken, or stopped in the middle of the burst: the remainder is freed.
FireEnd(w) ==
  /\ wpc[w] = "fire"
  /\ staged[w] = << >> \/ ~doWork
  /\ txPktCnt' = [txPktCnt EXCEPT ![w] = @ + Sent(w)]
  /\ Free(w, Remainder(w))
  /\ staged' = [staged EXCEPT ![w] = << >>]
  /\ wpc' = [wpc EXCEPT ![w] = "top"]
  /\ UNCHANGED <<freq, doWork, granted, ied, bursts, txq, txDone, wire>>

WorkerStep(w) == \/ CycleCheck(w)
                 \/ StageAlloc(w)
                 \/ Amend(w)
                 \/ StageEnd(w)
                 \/ Fire(w)
                 \/ FireEnd(w)

\* rte_eal_mp_wait_lcore has returned and the wire is idle.
Exited ==
  /\ \A w \in Worker : wpc[w] = "done" /\ txq[w] = << >>
  /\ UNCHANGED vars

Next == \/ Stop
        \/ \E w \in Worker : WorkerStep(w) \/ Transmit(w)
        \/ Exited

Spec == Init /\ [][Next]_vars

\* Every lcore polls on its own core; the NIC sends what it was given.
FairSpec == Spec /\ \A w \in Worker : WF_vars(WorkerStep(w)) /\ WF_vars(Transmit(w))

-----------------------------------------------------------------------------
(* Properties.                                                             *)

\* The type invariant; a queue never has more frames than descriptors, and a
\* worker never has more mbufs than its burst has frames.
TypeOK ==
  /\ freq \in Freqs
  /\ doWork \in BOOLEAN
  /\ pool \in 0 .. MBUF_NUM
  /\ cache \in [Worker -> 0 .. CACHE_NUM]
  /\ wpc \in [Worker -> {"top", "stage", "fire", "done"}]
  /\ granted \in [Worker -> 0 .. BURST_SIZE]
  /\ staged \in [Worker -> Seq(Frame)]
  /\ ied \in [Stream -> Nat]
  /\ txq \in [Worker -> Seq(Frame)]
  /\ txDone \in [Worker -> Nat]
  /\ \A w \in Worker : /\ Len(txq[w]) + txDone[w] <= TX_DESC_NUM
                       /\ granted[w] + Len(staged[w]) <= Total(w)
  /\ txPktCnt \in [Worker -> Nat]
  /\ bursts \in [Worker -> 0 .. MaxBursts]
  /\ wire \in [Stream -> Nat]

\* "The unaccepted tail of a tx_burst is re-offered, never freed": the
\* generator itself never makes a gap, not even while it is being stopped.
Publication == INSTANCE StreamPublication
PublicationSpec == Publication!Spec

\* Every mbuf is in the pool, in a cache, on the RX ring or held by one
\* worker: no path of the loop, the two stopping ones included, leaks or
\* frees twice.
Held(w) == cache[w] + granted[w] + Len(staged[w]) + Len(txq[w]) + txDone[w]
MbufsConserved ==
  pool + SumBelow([w \in Worker |-> Held(w)], WorkerNum) + RX_DESC_NUM = MBUF_NUM

\* Numbers of stream s that the queues have taken.
Taken(s) == wire[s] + Cardinality({p \in Worker \X (1 .. TX_DESC_NUM) :
                                     /\ p[2] <= Len(txq[p[1]])
                                     /\ txq[p[1]][p[2]].s = s})

\* The whole second leaves: between two bursts every stream of the command
\* line has had exactly freq frames taken per burst.
WholeSecond ==
  doWork => \A b \in 0 .. MaxBursts :
    (\A w \in Worker : wpc[w] = "top" /\ bursts[w] = b)
      => \A s \in Stream : Taken(s) = b * freq

\* tx_packets reports what the queue took, also when the run was stopped in
\* the middle of a burst.
CountedIsTaken ==
  \A w \in Worker : wpc[w] \in {"top", "done"} =>
    txPktCnt[w] = SumBelow([i \in 0 .. IedNum(w) - 1 |-> Taken(BaseIdx(w) + i)], IedNum(w))

\* A burst that CheckBurstFits admits is always staged and sent: a worker that
\* waits for mbufs gets them.
BurstGoesOut ==
  \A w \in Worker : wpc[w] = "stage" ~> wpc[w] \in {"top", "done"}
=============================================================================
