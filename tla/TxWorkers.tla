------------------------------ MODULE TxWorkers ------------------------------
(***************************************************************************)
(* What the two transmit loops of bus_generator share: how the streams of  *)
(* a run are divided over the TX workers, how many mbufs the pool must     *)
(* have, and the mempool the workers allocate from.                        *)
(*                                                                         *)
(* Routable traffic has a worker per lcore, L2 traffic always one.         *)
(***************************************************************************)
EXTENDS Naturals, Sequences, FiniteSets, Slices, Sums

CONSTANTS
  IsR,          \* routable (R-GOOSE, R-SV) and not L2 traffic
  StreamNum,    \* --goose, --sv80, ...: publishers (IEDs) to simulate
  LcoreNum,     \* rte_lcore_count()
  BURST_SIZE,   \* most frames in one allocation or tx_burst
  TX_DESC_NUM,  \* transmit descriptors per queue
  RX_DESC_NUM,  \* receive descriptors of the port: they take mbufs too
  CACHE_NUM,    \* mbufs the mempool caches for one lcore
  MBUF_NUM      \* mbufs in the pool

ASSUME TxAssumption ==
  /\ IsR \in BOOLEAN
  /\ StreamNum \in Nat \ {0}
  /\ LcoreNum \in Nat \ {0}
  /\ BURST_SIZE \in Nat \ {0}
  /\ TX_DESC_NUM \in Nat \ {0}
  /\ RX_DESC_NUM \in Nat
  /\ CACHE_NUM \in Nat
  /\ MBUF_NUM \in Nat
  /\ RX_DESC_NUM <= MBUF_NUM

Prefix(s, k) == SubSeq(s, 1, k)
Rest(s, k) == SubSeq(s, k + 1, Len(s))

\* m_workerNum: a worker per lcore, but none without a stream.
WorkerNum == IF IsR THEN Least(LcoreNum, StreamNum) ELSE 1
Worker == 0 .. WorkerNum - 1

Stream == 0 .. StreamNum - 1

BaseIdx(w) == IedSlice(StreamNum, WorkerNum, w).lo
IedNum(w) == IedSlice(StreamNum, WorkerNum, w).hi - BaseIdx(w)

\* Run(): one TX ring per worker and a burst must fit the pool; an L2 run is
\* not checked.
QueuesFit == IsR => WorkerNum * TX_DESC_NUM + WorkerNum * CACHE_NUM + BURST_SIZE < MBUF_NUM

\* Faulty variant: the last chunk is not cut to what is left.
ChunkWhole(total, done) == BURST_SIZE

\* Frames in the next chunk: what is left, but at most BURST_SIZE.
Chunk(total, done) == Least(BURST_SIZE, total - done)

-----------------------------------------------------------------------------
(* The mempool: a common part and a cache per lcore.  An lcore allocates   *)
(* from its own cache and the common part, all or nothing, and frees into  *)
(* its own cache until that is full.                                       *)

CanAlloc(cached, common, num) == num <= cached + common
AllocFromCache(cached, num) == Least(cached, num)
FreeToCache(cached, num) == Least(num, CACHE_NUM - cached)

\* A frame is the stream it belongs to and the number Amend gave it.
Frame == [s : Stream, n : Nat \ {0}]
=============================================================================
