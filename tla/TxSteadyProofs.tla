---------------------------- MODULE TxSteadyProofs ----------------------------
(***************************************************************************)
(* Proofs about steady mode, for every number of streams, lcores and       *)
(* descriptors, every pool and every block size.                           *)
(*                                                                         *)
(* The inductive invariant says of every worker w: what it may hold        *)
(* (RoomOf, PhaseOf), how far it is in its unit (CadenceOf), and of its    *)
(* pending frames, the ring and then the chunk (OrderOf), that they are of *)
(* its own slice, that the numbers of a stream rise from what is on the    *)
(* wire and that they leave room below the newest number given out for the *)
(* frames behind.  The two sums of LedgerOf then tie the statistics to the *)
(* numbers.                                                                *)
(***************************************************************************)
EXTENDS TxSteady, NumberFacts, SequenceTheorems

\* Stream s is in the slice of worker w.
Mine(w, s) == BaseIdx(w) <= s /\ s < BaseIdx(w) + IedNum(w)

SteadyType ==
  /\ pool \in Nat
  /\ cache \in [Worker -> 0 .. CACHE_NUM]
  /\ wpc \in [Worker -> {"top", "unit", "done"}]
  /\ units \in [Worker -> 0 .. MaxUnits]
  /\ blk \in [Worker -> Nat \ {0}]
  /\ sendNum \in [Worker -> Nat]
  /\ granted \in [Worker -> 0 .. BURST_SIZE]
  /\ mbufs \in [Worker -> Seq(Frame)]
  /\ ied \in [Stream -> Nat]
  /\ txq \in [Worker -> Seq(Frame)]
  /\ txDone \in [Worker -> Nat]
  /\ txPktCnt \in [Worker -> Nat]
  /\ errSendCnt \in [Worker -> Nat]
  /\ wire \in [Stream -> Nat]
  /\ skipped \in [Stream -> Int]

NumBlocks(w) == Len(Blocks(w))
BlockLen(w, b) == Len(Blocks(w)[b])

RoomOf(w) ==
  /\ Len(txq[w]) + txDone[w] <= TX_DESC_NUM
  /\ granted[w] + Len(mbufs[w]) <= BURST_SIZE
  /\ blk[w] <= NumBlocks(w) =>
       sendNum[w] + granted[w] + Len(mbufs[w]) <= BlockLen(w, blk[w])

PhaseOf(w) ==
  /\ wpc[w] # "unit" => granted[w] = 0 /\ mbufs[w] = << >>
  /\ granted[w] > 0 \/ mbufs[w] # << >> => blk[w] <= NumBlocks(w)
  /\ wpc[w] = "unit" => units[w] >= 1

\* The ring and then the chunk: what may still be sent, in order.
Pending(w) == txq[w] \o mbufs[w]

\* The first k frames of q are frames of streams of w.
Own(q, k, w) == \A i \in 1 .. k : q[i].s \in Stream /\ q[i].n \in Nat /\ Mine(w, q[i].s)

\* The numbers of a stream rise in q, from above b.
Rising(q, k, b) ==
  \A i \in 1 .. k :
    /\ b[q[i].s] < q[i].n
    /\ \A j \in 1 .. k : i < j /\ q[i].s = q[j].s => q[i].n < q[j].n

\* Behind the i-th frame there is a number up to t for every later one.
Bounded(q, k, t) ==
  \A i \in 1 .. k : q[i].n + Count(q, k, q[i].s) <= t[q[i].s] + Count(q, i, q[i].s)

\* Between b and t there is a number for every frame.
Below(q, k, w, b, t) == \A s \in Stream : Mine(w, s) => b[s] + Count(q, k, s) <= t[s]

Ordered(q, k, w, b, t) == Own(q, k, w) /\ Rising(q, k, b) /\ Bounded(q, k, t) /\ Below(q, k, w, b, t)

OrderOf(w) == Ordered(Pending(w), Len(Pending(w)), w, wire, ied)

\* Streams of the worker that the unit has dealt with.
Place(w) ==
  IF blk[w] <= NumBlocks(w) THEN (blk[w] - 1) * BUNCH_SIZE + sendNum[w] + Len(mbufs[w])
                            ELSE IedNum(w)

\* The first p streams of w have been given one number more than r.
Marked(i, w, r, p) ==
  \A j \in 0 .. IedNum(w) - 1 : i[BaseIdx(w) + j] = r + (IF j < p THEN 1 ELSE 0)

CadenceOf(w) ==
  doWork => IF wpc[w] = "unit" THEN Marked(ied, w, units[w] - 1, Place(w))
                               ELSE Marked(ied, w, units[w], 0)

Over(w, f) == SumBelow([i \in 0 .. IedNum(w) - 1 |-> f[BaseIdx(w) + i]], IedNum(w))

LedgerOf(w) ==
  /\ Over(w, ied) = txPktCnt[w] + errSendCnt[w] + Len(mbufs[w])
  /\ Over(w, wire) - Over(w, skipped) = txPktCnt[w] - Len(txq[w])

Base == SteadyType /\ \A w \in Worker : RoomOf(w) /\ PhaseOf(w)
Order == \A w \in Worker : OrderOf(w)
Cadence == \A w \in Worker : CadenceOf(w)
Ledger == \A w \in Worker : LedgerOf(w)

-----------------------------------------------------------------------------
(* The workers, their slices and their blocks.                             *)

\* The streams are divided over the workers.
LEMMA Workers ==
  /\ WorkerNum \in Nat \ {0}
  /\ StreamNum \in Nat
  /\ \A w \in Worker : /\ BaseIdx(w) \in Nat /\ IedNum(w) \in Nat \ {0}
                       /\ BaseIdx(w) + IedNum(w) <= StreamNum
                       /\ \A s \in Nat : Mine(w, s) => s \in Stream
                       /\ \A v \in Worker, s \in Stream : Mine(w, s) /\ Mine(v, s) => v = w
  /\ \A s \in Stream : \E w \in Worker : Mine(w, s)
<1>1. WorkerNum \in Nat \ {0} /\ WorkerNum <= StreamNum /\ StreamNum \in Nat
  BY TxAssumption DEF WorkerNum, Least
<1>2. Worker = 0 .. WorkerNum - 1 /\ Stream = 0 .. StreamNum - 1
  BY DEF Worker, Stream
<1>3. ASSUME NEW w \in Worker
      PROVE  /\ BaseIdx(w) \in Nat /\ IedNum(w) \in Nat \ {0}
             /\ BaseIdx(w) + IedNum(w) <= StreamNum
             /\ \A s \in Nat : Mine(w, s) => s \in Stream
             /\ \A s \in Nat : Mine(w, s) <=> InSlice(StreamNum, WorkerNum, w, s)
  <2> DEFINE lo == IedSlice(StreamNum, WorkerNum, w).lo
             hi == IedSlice(StreamNum, WorkerNum, w).hi
  <2>1. lo \in Nat /\ hi \in Nat /\ lo < hi /\ hi <= StreamNum
    BY <1>1, <1>2, SlicesDivide
  <2>2. BaseIdx(w) = lo /\ IedNum(w) = hi - lo
    BY DEF BaseIdx, IedNum
  <2>3. \A s \in Nat : InSlice(StreamNum, WorkerNum, w, s) <=> lo <= s /\ s < hi
    BY DEF InSlice
  <2> HIDE DEF lo, hi
  <2>4. QED
    BY <1>1, <1>2, <2>1, <2>2, <2>3 DEF Mine
<1>4. \A s \in Stream : s \in Nat /\ s \in 0 .. StreamNum - 1
  BY <1>1, <1>2
<1>5. ASSUME NEW w \in Worker, NEW v \in Worker, NEW s \in Stream, Mine(w, s), Mine(v, s)
      PROVE  v = w
  <2>1. InSlice(StreamNum, WorkerNum, w, s) /\ InSlice(StreamNum, WorkerNum, v, s)
    BY <1>3, <1>4, <1>5
  <2>2. QED
    BY <1>1, <1>2, <1>4, <2>1, SlicesDivide
<1>6. ASSUME NEW s \in Stream PROVE \E w \in Worker : Mine(w, s)
  <2>1. PICK w \in Worker : InSlice(StreamNum, WorkerNum, w, s)
    BY <1>1, <1>2, <1>4, SlicesDivide
  <2>2. QED
    BY <1>3, <1>4, <2>1
<1>7. QED
  BY <1>1, <1>3, <1>5, <1>6

\* The sizes of the run.
LEMMA Sizes ==
  /\ BURST_SIZE \in Nat \ {0} /\ TX_DESC_NUM \in Nat \ {0} /\ RX_DESC_NUM \in Nat
  /\ CACHE_NUM \in Nat /\ MBUF_NUM \in Nat /\ RX_DESC_NUM <= MBUF_NUM
  /\ BUNCH_SIZE \in Nat \ {0} /\ MaxUnits \in Nat
BY TxAssumption, SteadyAssumption

\* The j-th stream of a worker.
LEMMA Jth ==
  ASSUME NEW w \in Worker, NEW j \in 0 .. IedNum(w) - 1
  PROVE  BaseIdx(w) + j \in Stream /\ Mine(w, BaseIdx(w) + j)
<1>1. BaseIdx(w) \in Nat /\ IedNum(w) \in Nat
  BY Workers
<1>2. Mine(w, BaseIdx(w) + j) /\ BaseIdx(w) + j \in Nat
  BY <1>1 DEF Mine
<1>3. QED
  BY <1>2, Workers

\* Freeing into the cache does not overfill it.
LEMMA Freed ==
  ASSUME NEW c \in 0 .. CACHE_NUM, NEW num \in Nat
  PROVE  /\ FreeToCache(c, num) \in Nat /\ FreeToCache(c, num) <= num
         /\ c + FreeToCache(c, num) \in 0 .. CACHE_NUM
BY Sizes DEF FreeToCache, Least

\* The blocks of a unit cover the streams of the worker in order.
LEMMA BlockFacts ==
  ASSUME NEW w \in Worker
  PROVE  /\ NumBlocks(w) \in Nat \ {0}
         /\ \A b \in 1 .. NumBlocks(w) :
              /\ BlockLen(w, b) \in Nat \ {0} /\ BlockLen(w, b) <= BUNCH_SIZE
              /\ b < NumBlocks(w) => BlockLen(w, b) = BUNCH_SIZE
              /\ (b - 1) * BUNCH_SIZE \in Nat
              /\ (b - 1) * BUNCH_SIZE + BlockLen(w, b) <= IedNum(w)
              /\ b = NumBlocks(w) => (b - 1) * BUNCH_SIZE + BlockLen(w, b) = IedNum(w)
              /\ \A i \in 1 .. BlockLen(w, b) :
                   Blocks(w)[b][i] = BaseIdx(w) + (b - 1) * BUNCH_SIZE + i - 1
<1> DEFINE n == IedNum(w)
           B == BUNCH_SIZE
           full == n \div B
           last == n % B
           num == full + (IF last > 0 THEN 1 ELSE 0)
           size(b) == IF b <= full THEN B ELSE last
           row(b) == [i \in 1 .. size(b) |-> BaseIdx(w) + (b - 1) * B + i - 1]
           rows == [b \in 1 .. num |-> row(b)]
<1>1. n \in Nat \ {0} /\ B \in Nat \ {0} /\ BaseIdx(w) \in Nat
  BY Workers, Sizes
<1>2. Blocks(w) = rows
  BY Zenon DEF Blocks
<1>3. full \in Nat /\ last \in Nat /\ last < B /\ n = B * full + last
  BY <1>1, DivMod
<1> HIDE DEF n, B, full, last
<1>4. num \in Nat \ {0}
  <2>1. full = 0 => last > 0
    BY <1>1, <1>3
  <2>2. QED
    BY <1>3, <2>1
<1>5. \A b \in 1 .. num : size(b) \in Nat \ {0} /\ size(b) <= B
  BY <1>1, <1>3
<1>6. ASSUME NEW b \in 1 .. num
      PROVE  /\ row(b) \in Seq(Nat) /\ Len(row(b)) = size(b)
             /\ \A i \in 1 .. size(b) : row(b)[i] = BaseIdx(w) + (b - 1) * B + i - 1
             /\ (b - 1) * B \in Nat
  <2> DEFINE z == size(b)
             c == (b - 1) * B
             a == BaseIdx(w)
             r == [i \in 1 .. z |-> a + c + i - 1]
  <2>1. z \in Nat
    BY <1>5
  <2>2. c \in Nat
    <3>1. b - 1 \in Nat
      BY <1>4
    <3>2. QED
      BY <1>1, <3>1
  <2>3. row(b) = r
    OBVIOUS
  <2>4. a \in Nat
    BY <1>1
  <2> HIDE DEF z, c, a
  <2>5. r \in [1 .. z -> Nat]
    BY <2>1, <2>2, <2>4
  <2>6. \A i \in 1 .. z : r[i] = a + c + i - 1
    OBVIOUS
  <2> HIDE DEF r
  <2>7. r \in Seq(Nat) /\ Len(r) = z
    BY <2>1, <2>5, SeqDef, LenProperties
  <2>8. QED
    BY <2>2, <2>3, <2>6, <2>7 DEF z, c, a
<1> HIDE DEF size
<1>7. rows \in Seq(Seq(Nat)) /\ Len(rows) = num /\ \A b \in 1 .. num : rows[b] = row(b)
  <2>1. rows \in [1 .. num -> Seq(Nat)] /\ \A b \in 1 .. num : rows[b] = row(b)
    BY <1>6
  <2> HIDE DEF rows, num
  <2>2. QED
    BY <1>4, <2>1, SeqDef, LenProperties
<1>8. NumBlocks(w) = num
  BY <1>2, <1>7 DEF NumBlocks
<1>9. ASSUME NEW b \in 1 .. num
      PROVE  BlockLen(w, b) = size(b) /\ Blocks(w)[b] = row(b)
  <2>1. Blocks(w)[b] = row(b)
    BY <1>2, <1>7, <1>9
  <2>2. QED
    BY <1>6, <1>9, <2>1 DEF BlockLen
<1>10. ASSUME NEW b \in 1 .. num
       PROVE  /\ b < num => size(b) = B
              /\ (b - 1) * B + size(b) <= n
              /\ b = num => (b - 1) * B + size(b) = n
  <2>1. b \in Nat /\ b >= 1 /\ (b - 1) * B \in Nat /\ (b - 1) * B = B * (b - 1)
    BY <1>1, <1>4, <1>6
  <2>2. CASE b <= full
    <3>1. size(b) = B
      BY <2>2 DEF size
    <3>2. B * (b - 1) + B <= B * full
      BY <1>1, <1>3, <2>1, <2>2, Monotonic
    <3>3. b = num => full = b /\ last = 0
      BY <1>3, <2>1, <2>2
    <3>4. b = full => B * (b - 1) + B = B * full
      BY <1>1, <2>1
    <3>5. B * full \in Nat
      BY <1>1, <1>3
    <3>6. QED
      BY <1>1, <1>3, <2>1, <3>1, <3>2, <3>3, <3>4, <3>5
  <2>3. CASE b > full
    <3>1. b = num /\ b - 1 = full /\ size(b) = last
      BY <1>3, <2>1, <2>3 DEF size
    <3>2. B * (b - 1) = B * full
      BY <3>1
    <3>3. QED
      BY <1>3, <2>1, <3>1, <3>2
  <2>4. QED
    BY <1>3, <2>1, <2>2, <2>3
<1> HIDE DEF num, row
<1>11. ASSUME NEW b \in 1 .. num
       PROVE  /\ BlockLen(w, b) \in Nat \ {0} /\ BlockLen(w, b) <= B
              /\ b < num => BlockLen(w, b) = B
              /\ (b - 1) * B \in Nat
              /\ (b - 1) * B + BlockLen(w, b) <= n
              /\ b = num => (b - 1) * B + BlockLen(w, b) = n
              /\ \A i \in 1 .. BlockLen(w, b) : Blocks(w)[b][i] = BaseIdx(w) + (b - 1) * B + i - 1
  <2>1. BlockLen(w, b) = size(b) /\ Blocks(w)[b] = row(b)
    BY <1>9
  <2>2. size(b) \in Nat \ {0} /\ size(b) <= B
    BY <1>5
  <2>3. /\ \A i \in 1 .. size(b) : row(b)[i] = BaseIdx(w) + (b - 1) * B + i - 1
        /\ (b - 1) * B \in Nat
    BY <1>6
  <2>4. /\ b < num => size(b) = B
        /\ (b - 1) * B + size(b) <= n
        /\ b = num => (b - 1) * B + size(b) = n
    BY <1>10
  <2>5. QED
    BY <2>1, <2>2, <2>3, <2>4, Zenon
<1>12. QED
  BY <1>4, <1>8, <1>11, Zenon DEF n, B

-----------------------------------------------------------------------------
(* Types, room and phases.                                                 *)

\* The lengths are numbers.
LEMMA Lengths ==
  ASSUME SteadyType, NEW w \in Worker
  PROVE  /\ cache[w] \in 0 .. CACHE_NUM /\ cache[w] \in Nat
         /\ granted[w] \in 0 .. BURST_SIZE /\ granted[w] \in Nat
         /\ txq[w] \in Seq(Frame) /\ mbufs[w] \in Seq(Frame)
         /\ Len(txq[w]) \in Nat /\ Len(mbufs[w]) \in Nat
         /\ txDone[w] \in Nat /\ pool \in Nat /\ blk[w] \in Nat \ {0} /\ sendNum[w] \in Nat
         /\ units[w] \in 0 .. MaxUnits /\ units[w] \in Nat
         /\ txPktCnt[w] \in Nat /\ errSendCnt[w] \in Nat
<1>1. txq[w] \in Seq(Frame) /\ mbufs[w] \in Seq(Frame)
  BY DEF SteadyType
<1>2. Len(txq[w]) \in Nat /\ Len(mbufs[w]) \in Nat
  BY <1>1, LenProperties
<1>3. cache[w] \in 0 .. CACHE_NUM /\ granted[w] \in 0 .. BURST_SIZE /\ units[w] \in 0 .. MaxUnits
  BY DEF SteadyType
<1>4. txDone[w] \in Nat /\ pool \in Nat /\ blk[w] \in Nat \ {0} /\ sendNum[w] \in Nat
  BY DEF SteadyType
<1>5. txPktCnt[w] \in Nat /\ errSendCnt[w] \in Nat
  BY DEF SteadyType
<1>6. QED
  BY <1>1, <1>2, <1>3, <1>4, <1>5, Sizes

\* Another worker's steps leave a worker's room and phase alone.
LEMMA BaseOther ==
  ASSUME NEW v \in Worker, RoomOf(v), PhaseOf(v),
         txq'[v] = txq[v], txDone'[v] = txDone[v], granted'[v] = granted[v], mbufs'[v] = mbufs[v],
         blk'[v] = blk[v], sendNum'[v] = sendNum[v], wpc'[v] = wpc[v], units'[v] = units[v]
  PROVE  RoomOf(v)' /\ PhaseOf(v)'
<1>1. NumBlocks(v)' = NumBlocks(v) /\ BlockLen(v, blk[v])' = BlockLen(v, blk'[v])
  BY DEF NumBlocks, BlockLen, Blocks, IedNum, BaseIdx, WorkerNum
<1>2. QED
  BY <1>1 DEF RoomOf, PhaseOf

\* The start.
LEMMA BaseInit == Init => Base
<1> SUFFICES ASSUME Init PROVE Base
  OBVIOUS
<1>1. << >> \in Seq(Frame) /\ Len(<< >>) = 0
  BY EmptySeq
<1>2. SteadyType
  <2>1. wpc \in [Worker -> {"top", "unit", "done"}]
    BY DEF Init
  <2>2. QED
    BY <1>1, <2>1, Sizes DEF Init, SteadyType
<1>3. ASSUME NEW w \in Worker PROVE RoomOf(w) /\ PhaseOf(w)
  <2>1. /\ txq[w] = << >> /\ mbufs[w] = << >> /\ granted[w] = 0 /\ txDone[w] = 0
        /\ blk[w] = 1 /\ sendNum[w] = 0
        /\ (wpc[w] = "top" \/ wpc[w] = "done")
    BY DEF Init
  <2>2. NumBlocks(w) \in Nat \ {0} /\ 1 \in 1 .. NumBlocks(w)
    BY BlockFacts
  <2>3. BlockLen(w, 1) \in Nat
    BY <2>2, BlockFacts
  <2>4. QED
    BY <1>1, <2>1, <2>2, <2>3, Sizes DEF RoomOf, PhaseOf
<1>4. QED
  BY <1>2, <1>3 DEF Base

\* Transmit and the invariant.
LEMMA BaseTransmit ==
  ASSUME Base, NEW w \in Worker, Transmit(w)
  PROVE  Base'
<1> DEFINE q == txq[w]
<1>1. q \in Seq(Frame) /\ q # << >>
  BY DEF Base, SteadyType, Transmit
<1>2. /\ Head(q) \in Frame /\ Tail(q) \in Seq(Frame) /\ Len(Tail(q)) = Len(q) - 1
      /\ Len(q) \in Nat \ {0}
  BY <1>1, HeadTailProperties, EmptySeq
<1>3. Head(q).s \in Stream /\ Head(q).n \in Nat
  BY <1>2 DEF Frame
<1>4. /\ wire' = [wire EXCEPT ![Head(q).s] = Head(q).n]
      /\ skipped' = [skipped EXCEPT ![Head(q).s] = @ + (Head(q).n - wire[Head(q).s] - 1)]
      /\ txq' = [txq EXCEPT ![w] = Tail(q)]
      /\ txDone' = [txDone EXCEPT ![w] = txDone[w] + 1]
      /\ UNCHANGED <<pool, cache, wpc, units, blk, sendNum, granted, mbufs, ied, txPktCnt, errSendCnt>>
  BY DEF Transmit, workerVars
<1> HIDE DEF q
<1>5. SteadyType'
  <2> DEFINE s == Head(q).s
             n == Head(q).n
  <2>1. wire \in [Stream -> Nat] /\ skipped \in [Stream -> Int]
    BY DEF Base, SteadyType
  <2>2. wire' \in [Stream -> Nat]
    BY <1>3, <1>4, <2>1
  <2>3. skipped' \in [Stream -> Int]
    <3>1. s \in Stream /\ n \in Nat /\ skipped' = [skipped EXCEPT ![s] = @ + (n - wire[s] - 1)]
      BY <1>3, <1>4
    <3> HIDE DEF s, n
    <3>2. wire[s] \in Nat /\ skipped[s] \in Int
      BY <2>1, <3>1
    <3>3. skipped[s] + (n - wire[s] - 1) \in Int
      BY <3>1, <3>2
    <3>4. QED
      BY <2>1, <3>1, <3>3
  <2>4. txq' \in [Worker -> Seq(Frame)] /\ txDone' \in [Worker -> Nat]
    BY <1>2, <1>4 DEF Base, SteadyType
  <2>5. QED
    BY <1>4, <2>2, <2>3, <2>4 DEF Base, SteadyType
<1>6. ASSUME NEW v \in Worker PROVE RoomOf(v)' /\ PhaseOf(v)'
  <2>0. RoomOf(v) /\ PhaseOf(v) /\ RoomOf(w)
    BY DEF Base
  <2>1. CASE v = w
    <3>1. txq'[w] = Tail(q) /\ txDone'[w] = txDone[w] + 1 /\ txDone[w] \in Nat
      BY <1>4 DEF Base, SteadyType
    <3>2. Len(q) + txDone[w] <= TX_DESC_NUM
      BY <2>0 DEF RoomOf, q
    <3>3. Len(txq'[w]) + txDone'[w] <= TX_DESC_NUM
      BY <1>2, <3>1, <3>2, Sizes
    <3>4. NumBlocks(w)' = NumBlocks(w) /\ BlockLen(w, blk[w])' = BlockLen(w, blk[w])
      BY <1>4 DEF NumBlocks, BlockLen, Blocks, IedNum, BaseIdx, WorkerNum
    <3>5. QED
      BY <1>4, <2>0, <2>1, <3>3, <3>4 DEF RoomOf, PhaseOf
  <2>2. CASE v # w
    <3>1. txq'[v] = txq[v] /\ txDone'[v] = txDone[v]
      BY <1>4, <2>2 DEF Base, SteadyType
    <3>2. QED
      BY <1>4, <2>0, <3>1, BaseOther
  <2>3. QED
    BY <2>1, <2>2
<1>7. QED
  BY <1>5, <1>6 DEF Base

\* The other workers are as they were.
OthersKept(w) ==
  \A v \in Worker : v # w =>
    /\ txq'[v] = txq[v] /\ txDone'[v] = txDone[v] /\ granted'[v] = granted[v]
    /\ mbufs'[v] = mbufs[v] /\ blk'[v] = blk[v] /\ sendNum'[v] = sendNum[v]
    /\ wpc'[v] = wpc[v] /\ units'[v] = units[v]
    /\ txPktCnt'[v] = txPktCnt[v] /\ errSendCnt'[v] = errSendCnt[v]

\* What a worker's step needs for the invariant.
LEMMA BaseWorker ==
  ASSUME Base, NEW w \in Worker, SteadyType', OthersKept(w), RoomOf(w)', PhaseOf(w)'
  PROVE  Base'
<1>1. ASSUME NEW v \in Worker, v # w PROVE RoomOf(v)' /\ PhaseOf(v)'
  BY <1>1, BaseOther DEF Base, OthersKept
<1>2. QED
  BY <1>1 DEF Base

\* The blocks do not change.
LEMMA SameBlocks ==
  ASSUME NEW w \in Worker
  PROVE  NumBlocks(w)' = NumBlocks(w) /\ BlockLen(w, blk[w])' = BlockLen(w, blk'[w])
BY DEF NumBlocks, BlockLen, Blocks, IedNum, BaseIdx, WorkerNum

\* Where the worker is in its block.
LEMMA BlockRoom ==
  ASSUME Base, NEW w \in Worker
  PROVE  /\ NumBlocks(w) \in Nat \ {0}
         /\ blk[w] <= NumBlocks(w) => /\ blk[w] \in 1 .. NumBlocks(w)
                                      /\ BlockLen(w, blk[w]) \in Nat \ {0}
<1>1. blk[w] \in Nat \ {0}
  BY Lengths DEF Base
<1>2. NumBlocks(w) \in Nat \ {0}
  BY BlockFacts
<1>3. blk[w] <= NumBlocks(w) => blk[w] \in 1 .. NumBlocks(w)
  BY <1>1, <1>2
<1>4. QED
  BY <1>2, <1>3, BlockFacts

\* CycleCheck and the invariant.
LEMMA BaseCycleCheck ==
  ASSUME Base, NEW w \in Worker, CycleCheck(w)
  PROVE  Base' /\ OthersKept(w)
<1>1. /\ wpc[w] = "top" /\ mbufs[w] = << >> /\ granted[w] = 0
      /\ UNCHANGED <<pool, cache, granted, mbufs, ied, txPktCnt, errSendCnt, txq, txDone, wire, skipped>>
      /\ blk' = [blk EXCEPT ![w] = 1] /\ sendNum' = [sendNum EXCEPT ![w] = 0]
      /\ \/ /\ units[w] < MaxUnits
            /\ wpc' = [wpc EXCEPT ![w] = "unit"]
            /\ units' = [units EXCEPT ![w] = units[w] + 1]
         \/ wpc' = [wpc EXCEPT ![w] = "done"] /\ units' = units
  BY DEF Base, PhaseOf, CycleCheck, wireVars
<1>2. units[w] \in 0 .. MaxUnits /\ units[w] \in Nat /\ MaxUnits \in Nat
  BY Lengths, Sizes DEF Base
<1>3. SteadyType'
  <2>1. units' \in [Worker -> 0 .. MaxUnits]
    <3>1. units[w] < MaxUnits => units[w] + 1 \in 0 .. MaxUnits
      BY <1>2
    <3>2. units \in [Worker -> 0 .. MaxUnits]
      BY DEF Base, SteadyType
    <3>3. units' = units \/ (units[w] < MaxUnits /\ units' = [units EXCEPT ![w] = units[w] + 1])
      BY <1>1
    <3>4. QED
      BY <3>1, <3>2, <3>3
  <2>2. wpc' \in [Worker -> {"top", "unit", "done"}]
    BY <1>1 DEF Base, SteadyType
  <2>3. blk' \in [Worker -> Nat \ {0}] /\ sendNum' \in [Worker -> Nat]
    BY <1>1 DEF Base, SteadyType
  <2>4. QED
    BY <1>1, <2>1, <2>2, <2>3 DEF Base, SteadyType
<1>4. OthersKept(w)
  BY <1>1 DEF OthersKept, Base, SteadyType
<1>5. blk'[w] = 1 /\ sendNum'[w] = 0 /\ (wpc'[w] = "unit" => units'[w] = units[w] + 1)
  BY <1>1 DEF Base, SteadyType
<1>6. PhaseOf(w)'
  BY <1>1, <1>2, <1>5 DEF PhaseOf
<1>7. RoomOf(w)'
  <2>1. NumBlocks(w) \in Nat \ {0} /\ 1 \in 1 .. NumBlocks(w)
    BY BlockFacts
  <2>2. BlockLen(w, 1) \in Nat \ {0}
    BY <2>1, BlockFacts
  <2>3. BlockLen(w, blk[w])' = BlockLen(w, 1)
    BY <1>5, SameBlocks
  <2>4. Len(mbufs'[w]) = 0
    BY <1>1, EmptySeq
  <2>5. 0 <= BlockLen(w, blk[w])'
    BY <2>2, <2>3
  <2>6. sendNum'[w] + granted'[w] + Len(mbufs'[w]) = 0
    BY <1>1, <1>5, <2>4
  <2>7. Len(txq'[w]) + txDone'[w] <= TX_DESC_NUM /\ granted'[w] + Len(mbufs'[w]) <= BURST_SIZE
    BY <1>1 DEF Base, RoomOf
  <2>8. QED
    BY <2>5, <2>6, <2>7 DEF RoomOf
<1>8. QED
  BY <1>3, <1>4, <1>6, <1>7, BaseWorker

\* NextBlock, NextUnit and the invariant.
LEMMA BaseNext ==
  ASSUME Base, NEW w \in Worker, NextBlock(w) \/ NextUnit(w)
  PROVE  Base' /\ OthersKept(w)
<1>1. /\ wpc[w] = "unit" /\ mbufs[w] = << >> /\ granted[w] = 0
      /\ UNCHANGED <<pool, cache, units, granted, mbufs, ied, txPktCnt, errSendCnt, txq, txDone, wire, skipped>>
      /\ \/ /\ blk' = [blk EXCEPT ![w] = blk[w] + 1]
            /\ sendNum' = [sendNum EXCEPT ![w] = 0]
            /\ wpc' = wpc
         \/ wpc' = [wpc EXCEPT ![w] = "top"] /\ blk' = blk /\ sendNum' = sendNum
  BY DEF NextBlock, NextUnit, Idle, wireVars
<1>2. SteadyType'
  <2>1. wpc' \in [Worker -> {"top", "unit", "done"}]
    BY <1>1 DEF Base, SteadyType
  <2>2. blk' \in [Worker -> Nat \ {0}] /\ sendNum' \in [Worker -> Nat]
    <3>1. blk[w] \in Nat \ {0} /\ blk \in [Worker -> Nat \ {0}] /\ sendNum \in [Worker -> Nat]
      BY Lengths DEF Base, SteadyType
    <3>2. blk[w] + 1 \in Nat \ {0}
      BY <3>1
    <3>3. blk' = blk \/ blk' = [blk EXCEPT ![w] = blk[w] + 1]
      BY <1>1
    <3>4. sendNum' = sendNum \/ sendNum' = [sendNum EXCEPT ![w] = 0]
      BY <1>1
    <3>5. blk' \in [Worker -> Nat \ {0}]
      BY <3>1, <3>2, <3>3
    <3>6. sendNum' \in [Worker -> Nat]
      BY <3>1, <3>4
    <3>7. QED
      BY <3>5, <3>6
  <2>3. QED
    BY <1>1, <2>1, <2>2 DEF Base, SteadyType
<1>3. OthersKept(w)
  BY <1>1 DEF OthersKept, Base, SteadyType
<1>4. PhaseOf(w) /\ RoomOf(w)
  BY DEF Base
<1>5. PhaseOf(w)'
  BY <1>1, <1>4 DEF PhaseOf
<1>6. Len(mbufs[w]) = 0 /\ Len(mbufs'[w]) = 0
  BY <1>1, EmptySeq
<1>7. RoomOf(w)'
  <2>1. Len(txq'[w]) + txDone'[w] <= TX_DESC_NUM /\ granted'[w] + Len(mbufs'[w]) <= BURST_SIZE
    BY <1>1, <1>4 DEF RoomOf
  <2>2. CASE blk' = blk /\ sendNum' = sendNum
    <3>1. NumBlocks(w)' = NumBlocks(w) /\ BlockLen(w, blk[w])' = BlockLen(w, blk[w])
      BY <2>2, SameBlocks
    <3>2. QED
      BY <1>1, <1>4, <2>1, <2>2, <3>1 DEF RoomOf
  <2>3. CASE blk' = [blk EXCEPT ![w] = blk[w] + 1] /\ sendNum' = [sendNum EXCEPT ![w] = 0]
    <3>1. blk'[w] = blk[w] + 1 /\ sendNum'[w] = 0
      BY <2>3 DEF Base, SteadyType
    <3>2. NumBlocks(w)' = NumBlocks(w) /\ BlockLen(w, blk[w])' = BlockLen(w, blk[w] + 1)
      BY <3>1, SameBlocks
    <3>3. blk[w] + 1 <= NumBlocks(w) => BlockLen(w, blk[w] + 1) \in Nat
      <4>1. blk[w] + 1 <= NumBlocks(w) => blk[w] + 1 \in 1 .. NumBlocks(w)
        BY Lengths, BlockFacts DEF Base
      <4>2. QED
        BY <4>1, BlockFacts
    <3>4. sendNum'[w] + granted'[w] + Len(mbufs'[w]) = 0
      BY <1>1, <1>6, <3>1
    <3>5. blk'[w] <= NumBlocks(w)' => 0 <= BlockLen(w, blk[w])'
      BY <3>1, <3>2, <3>3
    <3>6. QED
      BY <2>1, <3>4, <3>5 DEF RoomOf
  <2>4. QED
    BY <1>1, <2>2, <2>3
<1>8. QED
  BY <1>2, <1>3, <1>5, <1>7, BaseWorker

\* A chunk fits the array and what is left.
LEMMA ChunkSize ==
  ASSUME NEW total \in Nat, NEW done \in Nat, done < total
  PROVE  Chunk(total, done) \in 0 .. BURST_SIZE /\ done + Chunk(total, done) <= total
BY Sizes DEF Chunk, Least

\* Alloc and the invariant.
LEMMA BaseAlloc ==
  ASSUME Base, NEW w \in Worker, Alloc(w)
  PROVE  Base' /\ OthersKept(w)
<1> DEFINE num == Chunk(BlockLen(w, blk[w]), sendNum[w])
           own == AllocFromCache(cache[w], num)
           kept == FreeToCache(cache[w], txDone[w])
           room == BlockLen(w, blk[w])
           Got == /\ num <= cache[w] + pool
                  /\ cache' = [cache EXCEPT ![w] = cache[w] - own]
                  /\ pool' = pool - (num - own)
                  /\ granted' = [granted EXCEPT ![w] = num]
                  /\ blk' = blk /\ sendNum' = sendNum /\ txDone' = txDone
           Not == /\ cache' = [cache EXCEPT ![w] = cache[w] + kept]
                  /\ pool' = pool + (txDone[w] - kept)
                  /\ txDone' = [txDone EXCEPT ![w] = 0]
                  /\ granted' = granted
                  /\ \/ blk' = [blk EXCEPT ![w] = blk[w]] /\ sendNum' = [sendNum EXCEPT ![w] = sendNum[w]]
                     \/ blk' = [blk EXCEPT ![w] = blk[w] + 1] /\ sendNum' = [sendNum EXCEPT ![w] = 0]
<1>1. /\ wpc[w] = "unit" /\ granted[w] = 0 /\ mbufs[w] = << >>
      /\ blk[w] <= NumBlocks(w) /\ sendNum[w] < room
      /\ UNCHANGED <<wpc, units, mbufs, ied, txPktCnt, errSendCnt, txq, wire, skipped>>
      /\ (Got \/ Not)
  BY DEF Alloc, InBlock, Idle, Cleanup, Free, CanAlloc, NumBlocks, BlockLen
<1>2. /\ cache[w] \in 0 .. CACHE_NUM /\ pool \in Nat /\ txDone[w] \in Nat /\ sendNum[w] \in Nat
      /\ blk[w] \in Nat \ {0} /\ Len(txq[w]) \in Nat
  BY Lengths DEF Base
<1>3. Len(mbufs[w]) = 0 /\ Len(txq[w]) + txDone[w] <= TX_DESC_NUM
  BY <1>1, EmptySeq DEF Base, RoomOf
<1>4. room \in Nat
  BY <1>1, BlockRoom
<1>5. kept \in Nat /\ kept <= txDone[w] /\ cache[w] + kept \in 0 .. CACHE_NUM
  BY <1>2, Freed
<1> HIDE DEF kept, room
<1>6. num \in 0 .. BURST_SIZE /\ sendNum[w] + num <= room
  <2>1. num = Chunk(room, sendNum[w])
    BY DEF room
  <2>2. sendNum[w] < room /\ sendNum[w] \in Nat
    BY <1>1, <1>2
  <2> HIDE DEF num
  <2>3. QED
    BY <1>4, <2>1, <2>2, ChunkSize
<1> HIDE DEF num
<1>7. own \in Nat /\ own <= cache[w] /\ own <= num /\ (num <= cache[w] + pool => num - own <= pool)
  BY <1>2, <1>6, Sizes DEF AllocFromCache, Least
<1> HIDE DEF own
<1>8. /\ cache \in [Worker -> 0 .. CACHE_NUM] /\ granted \in [Worker -> 0 .. BURST_SIZE]
      /\ blk \in [Worker -> Nat \ {0}] /\ sendNum \in [Worker -> Nat] /\ txDone \in [Worker -> Nat]
  BY DEF Base, SteadyType
<1>9. CASE Got
  <2>1. pool' \in Nat /\ cache[w] - own \in 0 .. CACHE_NUM
    <3>1. num - own <= pool /\ num - own \in Nat
      BY <1>6, <1>7, <1>9
    <3>2. pool' \in Nat
      BY <1>2, <1>9, <3>1
    <3>3. cache[w] - own \in 0 .. CACHE_NUM
      BY <1>2, <1>7, Sizes
    <3>4. QED
      BY <3>2, <3>3
  <2>2. cache' \in [Worker -> 0 .. CACHE_NUM] /\ granted' \in [Worker -> 0 .. BURST_SIZE]
    BY <1>6, <1>8, <1>9, <2>1
  <2>3. SteadyType'
    BY <1>1, <1>9, <2>1, <2>2 DEF Base, SteadyType
  <2>4. OthersKept(w)
    BY <1>1, <1>8, <1>9 DEF OthersKept
  <2>5. granted'[w] = num
    BY <1>8, <1>9
  <2>6. PhaseOf(w)'
    <3>1. NumBlocks(w)' = NumBlocks(w)
      BY SameBlocks
    <3>2. PhaseOf(w)
      BY DEF Base
    <3>3. QED
      BY <1>1, <1>9, <3>1, <3>2 DEF PhaseOf
  <2>7. RoomOf(w)'
    <3>1. BlockLen(w, blk[w])' = room
      BY <1>9, SameBlocks DEF room
    <3>2. Len(txq'[w]) + txDone'[w] <= TX_DESC_NUM
      BY <1>1, <1>3, <1>9
    <3>3. Len(mbufs'[w]) = 0 /\ sendNum'[w] = sendNum[w]
      BY <1>1, <1>3, <1>9
    <3>4. granted'[w] + Len(mbufs'[w]) <= BURST_SIZE
      BY <1>6, <2>5, <3>3, Sizes
    <3>5. sendNum'[w] + granted'[w] + Len(mbufs'[w]) <= BlockLen(w, blk[w])'
      BY <1>2, <1>6, <2>5, <3>1, <3>3
    <3>6. QED
      BY <3>2, <3>4, <3>5 DEF RoomOf
  <2>8. QED
    BY <2>3, <2>4, <2>6, <2>7, BaseWorker
<1>10. CASE Not
  <2>1. pool' \in Nat
    BY <1>2, <1>5, <1>10
  <2>2. cache' \in [Worker -> 0 .. CACHE_NUM] /\ txDone' \in [Worker -> Nat]
    BY <1>5, <1>8, <1>10
  <2>3. /\ blk' \in [Worker -> Nat \ {0}] /\ sendNum' \in [Worker -> Nat]
        /\ \/ blk'[w] = blk[w] /\ sendNum'[w] = sendNum[w]
           \/ blk'[w] = blk[w] + 1 /\ sendNum'[w] = 0
    <3>1. blk[w] + 1 \in Nat \ {0}
      BY <1>2
    <3>2. CASE blk' = [blk EXCEPT ![w] = blk[w]] /\ sendNum' = [sendNum EXCEPT ![w] = sendNum[w]]
      BY <1>8, <3>2
    <3>3. CASE blk' = [blk EXCEPT ![w] = blk[w] + 1] /\ sendNum' = [sendNum EXCEPT ![w] = 0]
      BY <1>8, <3>1, <3>3
    <3>4. QED
      BY <1>10, <3>2, <3>3
  <2>4. SteadyType'
    BY <1>1, <1>10, <2>1, <2>2, <2>3 DEF Base, SteadyType
  <2>5. OthersKept(w)
    BY <1>1, <1>8, <1>10 DEF OthersKept
  <2>6. granted'[w] = 0 /\ mbufs'[w] = << >> /\ txDone'[w] = 0
    BY <1>1, <1>8, <1>10
  <2>7. PhaseOf(w)'
    <3>1. PhaseOf(w)
      BY DEF Base
    <3>2. QED
      BY <1>1, <2>6, <3>1 DEF PhaseOf
  <2>8. RoomOf(w)'
    <3>1. Len(txq'[w]) + txDone'[w] <= TX_DESC_NUM
      BY <1>1, <1>2, <1>3, <2>6, Sizes
    <3>2. Len(mbufs'[w]) = 0
      BY <1>1, <1>3
    <3>3. granted'[w] + Len(mbufs'[w]) <= BURST_SIZE
      BY <2>6, <3>2, Sizes
    <3>4. NumBlocks(w)' = NumBlocks(w) /\ BlockLen(w, blk[w])' = BlockLen(w, blk'[w])
      BY SameBlocks
    <3>5. CASE blk'[w] = blk[w] /\ sendNum'[w] = sendNum[w]
      <4>1. BlockLen(w, blk[w])' = room
        BY <3>4, <3>5 DEF room
      <4>2. sendNum'[w] + granted'[w] + Len(mbufs'[w]) <= BlockLen(w, blk[w])'
        BY <1>1, <1>2, <1>4, <2>6, <3>2, <3>5, <4>1
      <4>3. QED
        BY <3>1, <3>3, <4>2 DEF RoomOf
    <3>6. CASE blk'[w] = blk[w] + 1 /\ sendNum'[w] = 0
      <4>1. blk[w] + 1 <= NumBlocks(w) => BlockLen(w, blk[w] + 1) \in Nat
        <5>1. blk[w] + 1 <= NumBlocks(w) => blk[w] + 1 \in 1 .. NumBlocks(w)
          BY <1>2, BlockFacts
        <5>2. QED
          BY <5>1, BlockFacts
      <4>2. blk'[w] <= NumBlocks(w)' => 0 <= BlockLen(w, blk[w])'
        BY <3>4, <3>6, <4>1
      <4>3. sendNum'[w] + granted'[w] + Len(mbufs'[w]) = 0
        BY <2>6, <3>2, <3>6
      <4>4. QED
        BY <3>1, <3>3, <4>2, <4>3 DEF RoomOf
    <3>7. QED
      BY <2>3, <3>5, <3>6
  <2>9. QED
    BY <2>4, <2>5, <2>7, <2>8, BaseWorker
<1>11. QED
  BY <1>1, <1>9, <1>10

\* Which stream Amend numbers: the next one of the unit.
LEMMA AmendPlace ==
  ASSUME Base, NEW w \in Worker, granted[w] > 0
  PROVE  /\ blk[w] \in 1 .. NumBlocks(w)
         /\ Place(w) = (blk[w] - 1) * BUNCH_SIZE + sendNum[w] + Len(mbufs[w])
         /\ Place(w) \in 0 .. IedNum(w) - 1
         /\ Blocks(w)[blk[w]][sendNum[w] + Len(mbufs[w]) + 1] = BaseIdx(w) + Place(w)
         /\ BaseIdx(w) + Place(w) \in Stream /\ Mine(w, BaseIdx(w) + Place(w))
<1> DEFINE a == (blk[w] - 1) * BUNCH_SIZE
           m == Len(mbufs[w])
           i == sendNum[w] + m + 1
           room == BlockLen(w, blk[w])
<1>1. /\ granted[w] \in Nat /\ m \in Nat /\ sendNum[w] \in Nat /\ blk[w] \in Nat \ {0}
      /\ IedNum(w) \in Nat /\ BaseIdx(w) \in Nat
  BY Lengths, Workers DEF Base
<1>2. blk[w] <= NumBlocks(w)
  BY DEF Base, PhaseOf
<1>3. blk[w] \in 1 .. NumBlocks(w) /\ room \in Nat
  BY <1>2, BlockRoom
<1>4. sendNum[w] + granted[w] + m <= room
  BY <1>2 DEF Base, RoomOf
<1>5. a \in Nat /\ a + room <= IedNum(w)
  BY <1>3, BlockFacts
<1>6. \A x \in 1 .. room : Blocks(w)[blk[w]][x] = BaseIdx(w) + a + x - 1
  BY <1>3, BlockFacts
<1>7. Place(w) = a + sendNum[w] + m
  BY <1>2 DEF Place
<1> HIDE DEF a, m, room
<1>8. i \in 1 .. room
  BY <1>1, <1>3, <1>4
<1>9. Place(w) \in 0 .. IedNum(w) - 1
  BY <1>1, <1>3, <1>4, <1>5, <1>7
<1>10. Blocks(w)[blk[w]][i] = BaseIdx(w) + Place(w)
  <2>1. Blocks(w)[blk[w]][i] = BaseIdx(w) + a + i - 1
    BY <1>6, <1>8
  <2>2. QED
    BY <1>1, <1>5, <1>7, <2>1
<1>11. QED
  BY <1>3, <1>7, <1>9, <1>10, Jth DEF a, m

\* What Amend does.
LEMMA AmendIs ==
  ASSUME Base, NEW w \in Worker, Amend(w)
  PROVE  \E s \in Stream, f \in Frame :
           /\ s = BaseIdx(w) + Place(w) /\ Mine(w, s) /\ f.s = s /\ f.n = ied[s] + 1
           /\ ied' = [ied EXCEPT ![s] = ied[s] + 1]
           /\ mbufs' = [mbufs EXCEPT ![w] = Append(mbufs[w], f)]
           /\ Append(mbufs[w], f) \in Seq(Frame)
           /\ Len(Append(mbufs[w], f)) = Len(mbufs[w]) + 1
<1> DEFINE s == BaseIdx(w) + Place(w)
           f == [s |-> s, n |-> ied[s] + 1]
<1>1. granted[w] > 0
  BY DEF Amend
<1>2. s \in Stream /\ Mine(w, s) /\ Blocks(w)[blk[w]][sendNum[w] + Len(mbufs[w]) + 1] = s
  BY <1>1, AmendPlace
<1>3. /\ ied' = [ied EXCEPT ![s] = ied[s] + 1]
      /\ mbufs' = [mbufs EXCEPT ![w] = Append(mbufs[w], f)]
  BY <1>2 DEF Amend
<1> HIDE DEF s
<1>4. ied[s] \in Nat
  BY <1>2 DEF Base, SteadyType
<1>5. f \in Frame /\ f.s = s /\ f.n = ied[s] + 1
  BY <1>2, <1>4 DEF Frame
<1> HIDE DEF f
<1>6. mbufs[w] \in Seq(Frame)
  BY DEF Base, SteadyType
<1>7. Append(mbufs[w], f) \in Seq(Frame) /\ Len(Append(mbufs[w], f)) = Len(mbufs[w]) + 1
  BY <1>5, <1>6, AppendProperties
<1>8. QED
  BY <1>2, <1>3, <1>5, <1>7 DEF s

\* Amend and the invariant.
LEMMA BaseAmend ==
  ASSUME Base, NEW w \in Worker, Amend(w)
  PROVE  Base' /\ OthersKept(w)
<1>1. PICK s \in Stream, f \in Frame :
           /\ ied' = [ied EXCEPT ![s] = ied[s] + 1]
           /\ mbufs' = [mbufs EXCEPT ![w] = Append(mbufs[w], f)]
           /\ Append(mbufs[w], f) \in Seq(Frame)
           /\ Len(Append(mbufs[w], f)) = Len(mbufs[w]) + 1
  BY AmendIs
<1>2. /\ granted[w] > 0 /\ granted' = [granted EXCEPT ![w] = granted[w] - 1]
      /\ UNCHANGED <<pool, cache, wpc, units, blk, sendNum, txPktCnt, errSendCnt, txq, txDone, wire, skipped>>
  BY DEF Amend, wireVars
<1>3. /\ granted[w] \in 0 .. BURST_SIZE /\ Len(mbufs[w]) \in Nat /\ sendNum[w] \in Nat
      /\ granted \in [Worker -> 0 .. BURST_SIZE] /\ mbufs \in [Worker -> Seq(Frame)]
      /\ ied \in [Stream -> Nat]
  BY Lengths DEF Base, SteadyType
<1>4. granted' \in [Worker -> 0 .. BURST_SIZE]
  <2>1. granted[w] - 1 \in 0 .. BURST_SIZE
    BY <1>2, <1>3, Sizes
  <2>2. QED
    BY <1>2, <1>3, <2>1
<1>5. ied' \in [Stream -> Nat]
  <2>1. ied[s] + 1 \in Nat
    BY <1>3
  <2>2. QED
    BY <1>1, <1>3, <2>1
<1>6. mbufs' \in [Worker -> Seq(Frame)]
  BY <1>1, <1>3
<1>7. SteadyType'
  BY <1>2, <1>4, <1>5, <1>6 DEF Base, SteadyType
<1>8. OthersKept(w)
  BY <1>1, <1>2, <1>3 DEF OthersKept
<1>9. /\ blk[w] \in 1 .. NumBlocks(w) /\ blk[w] <= NumBlocks(w) /\ BlockLen(w, blk[w]) \in Nat
  BY <1>2, AmendPlace, BlockFacts
<1>10. granted'[w] = granted[w] - 1 /\ Len(mbufs'[w]) = Len(mbufs[w]) + 1
  BY <1>1, <1>2, <1>3
<1>11. NumBlocks(w)' = NumBlocks(w) /\ BlockLen(w, blk[w])' = BlockLen(w, blk[w])
  BY <1>2, SameBlocks
<1>12. RoomOf(w) /\ PhaseOf(w)
  BY DEF Base
<1>13. PhaseOf(w)'
  <2>1. wpc[w] = "unit"
    BY <1>2, <1>12 DEF PhaseOf
  <2>2. QED
    BY <1>2, <1>9, <1>11, <1>12, <2>1 DEF PhaseOf
<1>14. RoomOf(w)'
  <2> DEFINE m == Len(mbufs[w])
             r == BlockLen(w, blk[w])
  <2>1. m \in Nat /\ r \in Nat /\ granted[w] + m <= BURST_SIZE /\ sendNum[w] + granted[w] + m <= r
    BY <1>3, <1>9, <1>12 DEF RoomOf
  <2>2. Len(mbufs'[w]) = m + 1 /\ BlockLen(w, blk[w])' = r /\ sendNum'[w] = sendNum[w]
    BY <1>2, <1>10, <1>11
  <2> HIDE DEF m, r
  <2>3. granted'[w] + Len(mbufs'[w]) <= BURST_SIZE
    BY <1>2, <1>3, <1>10, <2>1, <2>2, Sizes
  <2>4. sendNum'[w] + granted'[w] + Len(mbufs'[w]) <= BlockLen(w, blk[w])'
    BY <1>3, <1>10, <2>1, <2>2
  <2>5. Len(txq'[w]) + txDone'[w] <= TX_DESC_NUM
    BY <1>2, <1>12 DEF RoomOf
  <2>6. QED
    BY <2>3, <2>4, <2>5 DEF RoomOf
<1>15. QED
  BY <1>7, <1>8, <1>13, <1>14, BaseWorker

\* What Send does: the queue takes nb frames of the chunk.
Sends(w, nb) ==
  /\ nb <= Len(mbufs[w]) /\ nb + Len(txq[w]) <= TX_DESC_NUM
  /\ txq' = [txq EXCEPT ![w] = txq[w] \o Prefix(mbufs[w], nb)]
  /\ Prefix(mbufs[w], nb) \in Seq(Frame) /\ Len(Prefix(mbufs[w], nb)) = nb
  /\ \A i \in 1 .. nb : Prefix(mbufs[w], nb)[i] = mbufs[w][i]
  /\ txq[w] \o Prefix(mbufs[w], nb) \in Seq(Frame)
  /\ Len(txq[w] \o Prefix(mbufs[w], nb)) = Len(txq[w]) + nb
  /\ txPktCnt' = [txPktCnt EXCEPT ![w] = txPktCnt[w] + nb]
  /\ errSendCnt' = [errSendCnt EXCEPT ![w] = errSendCnt[w] + (Len(mbufs[w]) - nb)]
  /\ Free(w, txDone[w] + (Len(mbufs[w]) - nb))
  /\ sendNum' = [sendNum EXCEPT ![w] = sendNum[w] + Len(mbufs[w])]
  /\ txDone' = [txDone EXCEPT ![w] = 0]
  /\ mbufs' = [mbufs EXCEPT ![w] = << >>]
  /\ UNCHANGED <<doWork, wpc, units, blk, granted, ied, wire, skipped>>

\* That it does.
LEMMA SendIs ==
  ASSUME Base, NEW w \in Worker, Send(w)
  PROVE  \E nb \in Nat : Sends(w, nb)
<1> DEFINE num == Len(mbufs[w])
           nb == Least(num, TX_DESC_NUM - Len(txq[w]))
<1>1. txq[w] \in Seq(Frame) /\ mbufs[w] \in Seq(Frame)
  BY DEF Base, SteadyType
<1>2. Len(txq[w]) \in Nat /\ num \in Nat /\ Len(txq[w]) <= TX_DESC_NUM
  <2>1. txDone[w] \in Nat /\ Len(txq[w]) \in Nat /\ num \in Nat
    BY Lengths DEF Base
  <2>2. Len(txq[w]) + txDone[w] <= TX_DESC_NUM
    BY DEF Base, RoomOf
  <2> HIDE DEF num
  <2>3. QED
    BY <2>1, <2>2, Sizes
<1>3. /\ txq' = [txq EXCEPT ![w] = txq[w] \o Prefix(mbufs[w], nb)]
      /\ txPktCnt' = [txPktCnt EXCEPT ![w] = txPktCnt[w] + nb]
      /\ errSendCnt' = [errSendCnt EXCEPT ![w] = errSendCnt[w] + (num - nb)]
      /\ Free(w, txDone[w] + (num - nb))
      /\ sendNum' = [sendNum EXCEPT ![w] = sendNum[w] + num]
      /\ txDone' = [txDone EXCEPT ![w] = 0]
      /\ mbufs' = [mbufs EXCEPT ![w] = << >>]
      /\ UNCHANGED <<doWork, wpc, units, blk, granted, ied, wire, skipped>>
  BY DEF Send, Accepted, Lost, TailFreed
<1>4. nb \in Nat /\ nb <= num /\ nb + Len(txq[w]) <= TX_DESC_NUM
  <2> HIDE DEF num
  <2>1. TX_DESC_NUM - Len(txq[w]) \in Nat
    BY <1>2, Sizes
  <2>2. nb \in Nat /\ nb <= num /\ nb <= TX_DESC_NUM - Len(txq[w])
    BY <1>2, <2>1 DEF Least
  <2> HIDE DEF nb
  <2>3. QED
    BY <1>2, <2>2, Sizes
<1> HIDE DEF nb
<1> DEFINE p == Prefix(mbufs[w], nb)
<1>5. p \in Seq(Frame) /\ Len(p) = nb /\ \A i \in 1 .. nb : p[i] = mbufs[w][i]
  <2>1. 1 \in 1 .. num + 1 /\ nb \in 0 .. num
    BY <1>2, <1>4
  <2>2. SubSeq(mbufs[w], 1, nb) \in Seq(Frame) /\ Len(SubSeq(mbufs[w], 1, nb)) = nb
    BY <1>1, <2>1, SubSeqProperties
  <2>3. \A i \in 1 .. nb : SubSeq(mbufs[w], 1, nb)[i] = mbufs[w][i]
    BY <1>1, <2>1, SubSeqProperties
  <2>4. QED
    BY <2>2, <2>3 DEF Prefix
<1> HIDE DEF p
<1>6. txq[w] \o p \in Seq(Frame) /\ Len(txq[w] \o p) = Len(txq[w]) + nb
  BY <1>1, <1>5, ConcatProperties
<1>7. Sends(w, nb)
  BY <1>3, <1>4, <1>5, <1>6 DEF Sends, p
<1>8. QED
  BY <1>4, <1>7

\* Send and the invariant.
LEMMA BaseSend ==
  ASSUME Base, NEW w \in Worker, Send(w)
  PROVE  Base' /\ OthersKept(w)
<1>1. PICK nb \in Nat : Sends(w, nb)
  BY SendIs
<1> DEFINE num == Len(mbufs[w])
           fr == txDone[w] + (num - nb)
           kept == FreeToCache(cache[w], fr)
           q == txq[w] \o Prefix(mbufs[w], nb)
<1>2. /\ txq' = [txq EXCEPT ![w] = q] /\ q \in Seq(Frame)
      /\ nb <= num /\ Len(q) = Len(txq[w]) + nb /\ nb + Len(txq[w]) <= TX_DESC_NUM
  BY <1>1 DEF Sends
<1>3. /\ txPktCnt' = [txPktCnt EXCEPT ![w] = txPktCnt[w] + nb]
      /\ errSendCnt' = [errSendCnt EXCEPT ![w] = errSendCnt[w] + (num - nb)]
      /\ cache' = [cache EXCEPT ![w] = cache[w] + kept] /\ pool' = pool + (fr - kept)
      /\ sendNum' = [sendNum EXCEPT ![w] = sendNum[w] + num]
      /\ txDone' = [txDone EXCEPT ![w] = 0]
      /\ mbufs' = [mbufs EXCEPT ![w] = << >>]
      /\ UNCHANGED <<wpc, units, blk, granted, ied, wire, skipped>>
  BY <1>1 DEF Sends, Free
<1>4. /\ cache[w] \in 0 .. CACHE_NUM /\ pool \in Nat /\ txDone[w] \in Nat /\ sendNum[w] \in Nat
      /\ num \in Nat /\ Len(txq[w]) \in Nat /\ txPktCnt[w] \in Nat /\ errSendCnt[w] \in Nat
  BY Lengths DEF Base
<1>5. << >> \in Seq(Frame) /\ Len(<< >>) = 0
  BY EmptySeq
<1> HIDE DEF num, q
<1>6. fr \in Nat /\ num - nb \in Nat
  BY <1>2, <1>4
<1>7. kept \in Nat /\ kept <= fr /\ cache[w] + kept \in 0 .. CACHE_NUM
  <2> HIDE DEF fr
  <2>1. QED
    BY <1>4, <1>6, Freed
<1> HIDE DEF fr, kept
<1>8. /\ cache \in [Worker -> 0 .. CACHE_NUM] /\ granted \in [Worker -> 0 .. BURST_SIZE]
      /\ txq \in [Worker -> Seq(Frame)] /\ mbufs \in [Worker -> Seq(Frame)]
      /\ sendNum \in [Worker -> Nat] /\ txDone \in [Worker -> Nat]
      /\ txPktCnt \in [Worker -> Nat] /\ errSendCnt \in [Worker -> Nat]
  BY DEF Base, SteadyType
<1>9. cache' \in [Worker -> 0 .. CACHE_NUM] /\ pool' \in Nat
  <2>1. cache' = [cache EXCEPT ![w] = cache[w] + kept] /\ pool' = pool + (fr - kept)
    BY <1>3
  <2>2. pool' \in Nat
    BY <1>4, <1>6, <1>7, <2>1
  <2>3. cache' \in [Worker -> 0 .. CACHE_NUM]
    BY <1>7, <1>8, <2>1
  <2>4. QED
    BY <2>2, <2>3
<1>10. txq' \in [Worker -> Seq(Frame)] /\ mbufs' \in [Worker -> Seq(Frame)] /\ txDone' \in [Worker -> Nat]
  BY <1>2, <1>3, <1>5, <1>8
<1>11. /\ sendNum' \in [Worker -> Nat] /\ txPktCnt' \in [Worker -> Nat]
       /\ errSendCnt' \in [Worker -> Nat]
  <2>1. sendNum[w] + num \in Nat
    BY <1>4
  <2>2. txPktCnt[w] + nb \in Nat
    BY <1>4
  <2>3. errSendCnt[w] + (num - nb) \in Nat
    BY <1>4, <1>6
  <2>4. QED
    BY <1>3, <1>8, <2>1, <2>2, <2>3
<1>12. SteadyType'
  BY <1>3, <1>9, <1>10, <1>11 DEF Base, SteadyType
<1>13. OthersKept(w)
  BY <1>2, <1>3, <1>8 DEF OthersKept
<1>14. /\ txq'[w] = q /\ mbufs'[w] = << >> /\ txDone'[w] = 0 /\ sendNum'[w] = sendNum[w] + num
       /\ granted'[w] = granted[w]
  BY <1>2, <1>3, <1>8
<1>15. granted[w] = 0 /\ RoomOf(w) /\ PhaseOf(w)
  BY DEF Send, Base
<1>16. PhaseOf(w)'
  BY <1>3, <1>14, <1>15 DEF PhaseOf
<1>17. RoomOf(w)'
  <2>1. Len(txq'[w]) + txDone'[w] <= TX_DESC_NUM
    BY <1>2, <1>4, <1>14, Sizes
  <2>2. Len(mbufs'[w]) = 0 /\ granted'[w] = 0
    BY <1>5, <1>14, <1>15
  <2>3. granted'[w] + Len(mbufs'[w]) <= BURST_SIZE
    BY <2>2, Sizes
  <2>4. NumBlocks(w)' = NumBlocks(w) /\ BlockLen(w, blk[w])' = BlockLen(w, blk[w]) /\ blk'[w] = blk[w]
    BY <1>3, SameBlocks
  <2>5. blk[w] <= NumBlocks(w) => sendNum[w] + granted[w] + num <= BlockLen(w, blk[w])
    BY <1>15 DEF RoomOf, num
  <2>6. blk[w] <= NumBlocks(w) => BlockLen(w, blk[w]) \in Nat
    BY BlockRoom
  <2>7. blk'[w] <= NumBlocks(w)' => sendNum'[w] + granted'[w] + Len(mbufs'[w]) <= BlockLen(w, blk[w])'
    BY <1>4, <1>14, <1>15, <2>2, <2>4, <2>5, <2>6
  <2>8. QED
    BY <2>1, <2>3, <2>7 DEF RoomOf
<1>18. QED
  BY <1>12, <1>13, <1>16, <1>17, BaseWorker

\* A worker's step keeps the invariant and leaves the others alone.
LEMMA BaseWorkerStep ==
  ASSUME Base, NEW w \in Worker, WorkerStep(w)
  PROVE  Base' /\ OthersKept(w)
BY BaseCycleCheck, BaseAlloc, BaseAmend, BaseSend, BaseNext DEF WorkerStep

\* Every step keeps the base invariant.
LEMMA BaseStep == Base /\ [Next]_vars => Base'
<1> SUFFICES ASSUME Base, [Next]_vars PROVE Base'
  OBVIOUS
<1>1. ASSUME UNCHANGED <<pool, cache, workerVars, wireVars>> PROVE Base'
  <2>1. UNCHANGED <<pool, cache, wpc, units, blk, sendNum, granted, mbufs, ied, txPktCnt, errSendCnt,
                    txq, txDone, wire, skipped>>
    BY <1>1 DEF workerVars, wireVars
  <2>2. SteadyType'
    BY <2>1 DEF Base, SteadyType
  <2>3. ASSUME NEW v \in Worker PROVE RoomOf(v)' /\ PhaseOf(v)'
    BY <2>1, BaseOther DEF Base
  <2>4. QED
    BY <2>2, <2>3 DEF Base
<1>2. CASE Stop
  BY <1>1, <1>2 DEF Stop
<1>3. ASSUME NEW w \in Worker, WorkerStep(w) PROVE Base'
  BY <1>3, BaseWorkerStep
<1>4. ASSUME NEW w \in Worker, Transmit(w) PROVE Base'
  BY <1>4, BaseTransmit
<1>5. CASE UNCHANGED vars
  BY <1>1, <1>5 DEF vars
<1>6. QED
  BY <1>2, <1>3, <1>4, <1>5 DEF Next, Exited

-----------------------------------------------------------------------------
(* Every stream once in a unit.                                            *)

\* One stream more of the unit.
LEMMA MarkedNext ==
  ASSUME NEW i \in [Stream -> Nat], NEW w \in Worker, NEW r \in Nat, NEW p \in 0 .. IedNum(w) - 1,
         NEW m, m = p + 1, Marked(i, w, r, p), NEW k, k = [i EXCEPT ![BaseIdx(w) + p] = @ + 1]
  PROVE  Marked(k, w, r, m)
<1> DEFINE n == IedNum(w)
           b == BaseIdx(w)
<1>1. n \in Nat /\ b \in Nat /\ b + p \in Stream
  BY Workers, Jth
<1>2. ASSUME NEW j \in 0 .. n - 1 PROVE k[b + j] = r + (IF j < m THEN 1 ELSE 0)
  <2>1. b + j \in Stream
    BY <1>2, Jth
  <2>2. i[b + j] = r + (IF j < p THEN 1 ELSE 0)
    BY <1>2 DEF Marked
  <2>3. k = [i EXCEPT ![b + p] = @ + 1] /\ p \in 0 .. n - 1
    OBVIOUS
  <2> HIDE DEF n, b
  <2>4. j = p => k[b + j] = i[b + j] + 1
    BY <1>1, <2>1, <2>3
  <2>5. j # p => k[b + j] = i[b + j]
    BY <1>1, <1>2, <2>1, <2>3
  <2>6. QED
    BY <1>1, <1>2, <2>2, <2>3, <2>4, <2>5
<1>3. QED
  BY <1>2 DEF Marked

\* The whole unit.
LEMMA MarkedAll ==
  ASSUME NEW i, NEW w \in Worker, NEW r \in Nat, NEW m, m = r + 1, Marked(i, w, r, IedNum(w))
  PROVE  Marked(i, w, m, 0)
<1>1. IedNum(w) \in Nat
  BY Workers
<1>2. QED
  BY <1>1 DEF Marked

\* A worker none of whose streams gets a number.
LEMMA MarkedSame ==
  ASSUME NEW i, NEW k, NEW v \in Worker, NEW r, NEW p, Marked(i, v, r, p),
         \A s \in Stream : Mine(v, s) => k[s] = i[s]
  PROVE  Marked(k, v, r, p)
BY Jth DEF Marked

\* The cadence from its parts.
LEMMA CadenceFrom ==
  ASSUME NEW v, NEW r, NEW p, Marked(ied', v, r, p),
         wpc'[v] = "unit" => units'[v] - 1 = r /\ Place(v)' = p,
         wpc'[v] # "unit" => units'[v] = r /\ p = 0
  PROVE  CadenceOf(v)'
<1>1. CASE wpc'[v] = "unit"
  <2>1. Marked(ied', v, units'[v] - 1, Place(v)')
    BY <1>1, Zenon
  <2>2. QED
    BY <1>1, <2>1, Zenon DEF CadenceOf, Marked
<1>2. CASE wpc'[v] # "unit"
  <2>1. Marked(ied', v, units'[v], 0)
    BY <1>2, Zenon
  <2>2. QED
    BY <1>2, <2>1, Zenon DEF CadenceOf, Marked
<1>3. QED
  BY <1>1, <1>2

\* A worker whose place in the unit is left alone keeps the cadence.
LEMMA CadenceKept ==
  ASSUME NEW v \in Worker, CadenceOf(v), doWork' => doWork,
         \A s \in Stream : Mine(v, s) => ied'[s] = ied[s],
         units'[v] = units[v], wpc'[v] = wpc[v],
         wpc[v] = "unit" /\ doWork' => Place(v)' = Place(v)
  PROVE  CadenceOf(v)'
<1> SUFFICES ASSUME doWork' PROVE CadenceOf(v)'
  BY DEF CadenceOf
<1>1. CASE wpc[v] = "unit"
  <2> DEFINE r == units[v] - 1
             p == Place(v)
  <2>1. Marked(ied, v, r, p)
    BY <1>1 DEF CadenceOf
  <2>2. units'[v] - 1 = r /\ Place(v)' = p
    BY <1>1
  <2> HIDE DEF r, p
  <2>3. Marked(ied', v, r, p)
    BY <2>1, MarkedSame
  <2>4. QED
    BY <1>1, <2>2, <2>3, CadenceFrom
<1>2. CASE wpc[v] # "unit"
  <2>1. Marked(ied, v, units[v], 0)
    BY <1>2 DEF CadenceOf
  <2>2. Marked(ied', v, units[v], 0)
    BY <2>1, MarkedSame
  <2>3. QED
    BY <1>2, <2>2, CadenceFrom
<1>3. QED
  BY <1>1, <1>2

\* The place of a worker, given what it is made of.
LEMMA PlaceIs ==
  ASSUME NEW v \in Worker, NEW b, NEW s, NEW m, blk'[v] = b, sendNum'[v] = s, Len(mbufs'[v]) = m
  PROVE  /\ b <= NumBlocks(v) => Place(v)' = (b - 1) * BUNCH_SIZE + s + m
         /\ ~(b <= NumBlocks(v)) => Place(v)' = IedNum(v)
<1>1. NumBlocks(v)' = NumBlocks(v) /\ IedNum(v)' = IedNum(v)
  BY SameBlocks DEF IedNum, BaseIdx, WorkerNum
<1>2. b <= NumBlocks(v) => Place(v)' = (b - 1) * BUNCH_SIZE + s + m
  BY <1>1, Zenon DEF Place
<1>3. ~(b <= NumBlocks(v)) => Place(v)' = IedNum(v)
  BY <1>1, Zenon DEF Place
<1>4. QED
  BY <1>2, <1>3

\* A worker whose block, count and chunk are left alone keeps its place.
LEMMA PlaceKept ==
  ASSUME NEW v \in Worker, blk'[v] = blk[v], sendNum'[v] = sendNum[v], mbufs'[v] = mbufs[v]
  PROVE  Place(v)' = Place(v)
<1>1. Len(mbufs'[v]) = Len(mbufs[v])
  OBVIOUS
<1>2. QED
  BY <1>1, PlaceIs, Zenon DEF Place

\* The start.
LEMMA CadenceInit == Init => Cadence
<1> SUFFICES ASSUME Init, NEW w \in Worker PROVE CadenceOf(w)
  BY DEF Cadence
<1>1. wpc[w] # "unit" /\ units[w] = 0 /\ ied = [s \in Stream |-> 0]
  BY DEF Init
<1>2. \A j \in 0 .. IedNum(w) - 1 : ied[BaseIdx(w) + j] = 0
  BY <1>1, Jth
<1>3. Marked(ied, w, 0, 0)
  BY <1>2 DEF Marked
<1>4. QED
  BY <1>1, <1>3 DEF CadenceOf

\* A worker's step keeps its own cadence.
LEMMA CadenceOwn ==
  ASSUME Base, NEW w \in Worker, CadenceOf(w), WorkerStep(w)
  PROVE  CadenceOf(w)'
<1>1. /\ wpc \in [Worker -> {"top", "unit", "done"}] /\ units \in [Worker -> 0 .. MaxUnits]
      /\ blk \in [Worker -> Nat \ {0}] /\ sendNum \in [Worker -> Nat]
      /\ mbufs \in [Worker -> Seq(Frame)] /\ ied \in [Stream -> Nat]
  BY DEF Base, SteadyType
<1>2. /\ units[w] \in Nat /\ blk[w] \in Nat \ {0} /\ sendNum[w] \in Nat /\ Len(mbufs[w]) \in Nat
      /\ NumBlocks(w) \in Nat \ {0} /\ BUNCH_SIZE \in Nat \ {0} /\ IedNum(w) \in Nat
  BY Lengths, BlockFacts, Sizes, Workers DEF Base
<1>3. Len(<< >>) = 0 /\ (wpc[w] = "unit" => units[w] >= 1)
  BY EmptySeq DEF Base, PhaseOf
<1>4. CASE ~doWork
  <2>1. ~doWork'
    BY <1>4 DEF WorkerStep, CycleCheck, Alloc, Amend, Send, NextBlock, NextUnit
  <2>2. QED
    BY <2>1 DEF CadenceOf
<1>5. CASE doWork /\ CycleCheck(w)
  <2>1. /\ wpc[w] = "top" /\ wpc' = [wpc EXCEPT ![w] = "unit"]
        /\ units' = [units EXCEPT ![w] = units[w] + 1]
        /\ blk' = [blk EXCEPT ![w] = 1] /\ sendNum' = [sendNum EXCEPT ![w] = 0]
        /\ UNCHANGED <<ied, mbufs>>
    BY <1>5 DEF CycleCheck
  <2>2. Marked(ied, w, units[w], 0)
    BY <1>5, <2>1 DEF CadenceOf
  <2>3. wpc'[w] = "unit" /\ units'[w] - 1 = units[w] /\ blk'[w] = 1 /\ sendNum'[w] = 0
    BY <1>1, <1>2, <2>1
  <2>4. Len(mbufs'[w]) = 0
    BY <1>3, <2>1 DEF Base, PhaseOf
  <2>5. 1 <= NumBlocks(w)
    BY <1>2
  <2>6. Place(w)' = (1 - 1) * BUNCH_SIZE + 0 + 0
    BY <2>3, <2>4, <2>5, PlaceIs
  <2>7. Place(w)' = 0
    BY <1>2, <2>6
  <2>8. Marked(ied', w, units[w], 0)
    BY <2>1, <2>2
  <2>9. QED
    BY <2>3, <2>7, <2>8, CadenceFrom
<1>6. CASE doWork /\ Alloc(w)
  <2>1. UNCHANGED <<doWork, wpc, units, mbufs, ied>>
    BY <1>6 DEF Alloc
  <2>2. blk'[w] = blk[w] /\ sendNum'[w] = sendNum[w]
    BY <1>1, <1>6 DEF Alloc
  <2>3. Place(w)' = Place(w)
    BY <2>1, <2>2, PlaceKept
  <2>4. QED
    BY <2>1, <2>3, CadenceKept
<1>7. CASE doWork /\ Amend(w)
  <2>1. wpc[w] = "unit" /\ granted[w] > 0 /\ UNCHANGED <<wpc, units, blk, sendNum>>
    BY <1>7 DEF Amend, Base, PhaseOf
  <2> DEFINE r == units[w] - 1
             p == Place(w)
             a == (blk[w] - 1) * BUNCH_SIZE
  <2>2. /\ blk[w] \in 1 .. NumBlocks(w) /\ p \in 0 .. IedNum(w) - 1
        /\ p = a + sendNum[w] + Len(mbufs[w])
    BY <2>1, AmendPlace
  <2>3. /\ ied' = [ied EXCEPT ![BaseIdx(w) + p] = @ + 1]
        /\ Len(mbufs'[w]) = Len(mbufs[w]) + 1
    <3>1. PICK s \in Stream, f \in Frame :
             /\ s = BaseIdx(w) + Place(w)
             /\ ied' = [ied EXCEPT ![s] = ied[s] + 1]
             /\ mbufs' = [mbufs EXCEPT ![w] = Append(mbufs[w], f)]
             /\ Len(Append(mbufs[w], f)) = Len(mbufs[w]) + 1
      BY <1>7, AmendIs
    <3>2. QED
      BY <1>1, <3>1
  <2>4. Marked(ied, w, r, p)
    BY <1>7, <2>1 DEF CadenceOf
  <2>5. blk'[w] = blk[w] /\ sendNum'[w] = sendNum[w] /\ blk[w] <= NumBlocks(w)
    BY <1>2, <2>1, <2>2
  <2>6. Place(w)' = a + sendNum[w] + (Len(mbufs[w]) + 1)
    BY <2>3, <2>5, PlaceIs
  <2>7. a \in Nat
    <3>1. blk[w] - 1 \in Nat
      BY <1>2
    <3>2. QED
      BY <1>2, <3>1
  <2> DEFINE m == Len(mbufs[w])
  <2>8. Place(w)' = p + 1
    <3>1. m \in Nat /\ sendNum[w] \in Nat /\ p = a + sendNum[w] + m
      BY <1>2, <2>2
    <3>2. Place(w)' = a + sendNum[w] + (m + 1)
      BY <2>6
    <3> HIDE DEF a, p, m
    <3>3. QED
      BY <2>7, <3>1, <3>2
  <2>9. r \in Nat
    BY <1>2, <1>3, <2>1
  <2> HIDE DEF r, p
  <2>10. Marked(ied', w, r, p + 1)
    BY <1>1, <2>2, <2>3, <2>4, <2>9, MarkedNext
  <2>11. wpc'[w] = "unit" /\ units'[w] - 1 = r
    BY <2>1 DEF r
  <2>12. QED
    BY <2>8, <2>10, <2>11, CadenceFrom
<1>8. CASE doWork /\ Send(w)
  <2>1. PICK nb \in Nat : Sends(w, nb)
    BY <1>8, SendIs
  <2>2. /\ UNCHANGED <<doWork, wpc, units, blk, ied>>
        /\ sendNum' = [sendNum EXCEPT ![w] = sendNum[w] + Len(mbufs[w])]
        /\ mbufs' = [mbufs EXCEPT ![w] = << >>]
    BY <2>1 DEF Sends
  <2>3. blk'[w] = blk[w] /\ sendNum'[w] = sendNum[w] + Len(mbufs[w]) /\ Len(mbufs'[w]) = 0
    BY <1>1, <1>3, <2>2
  <2> DEFINE a == (blk[w] - 1) * BUNCH_SIZE
             m == Len(mbufs[w])
  <2>4. /\ blk[w] <= NumBlocks(w) => Place(w)' = a + (sendNum[w] + m) + 0
        /\ ~(blk[w] <= NumBlocks(w)) => Place(w)' = IedNum(w)
    BY <2>3, PlaceIs
  <2>5. /\ blk[w] <= NumBlocks(w) => Place(w) = a + sendNum[w] + m
        /\ ~(blk[w] <= NumBlocks(w)) => Place(w) = IedNum(w)
    BY DEF Place
  <2>6. a \in Nat /\ m \in Nat /\ sendNum[w] \in Nat
    <3>1. blk[w] - 1 \in Nat
      BY <1>2
    <3>2. QED
      BY <1>2, <3>1
  <2> HIDE DEF a, m
  <2>7. Place(w)' = Place(w)
    BY <2>4, <2>5, <2>6
  <2>8. QED
    BY <2>2, <2>7, CadenceKept
<1>9. CASE doWork /\ NextBlock(w)
  <2>1. /\ mbufs[w] = << >> /\ blk[w] <= NumBlocks(w) /\ sendNum[w] = BlockLen(w, blk[w])
        /\ blk' = [blk EXCEPT ![w] = blk[w] + 1] /\ sendNum' = [sendNum EXCEPT ![w] = 0]
        /\ UNCHANGED <<doWork, wpc, units, mbufs, ied>>
    BY <1>9 DEF NextBlock, Idle, NumBlocks, BlockLen
  <2>2. Len(mbufs[w]) = 0 /\ Len(mbufs'[w]) = 0 /\ blk'[w] = blk[w] + 1 /\ sendNum'[w] = 0
    BY <1>1, <1>3, <2>1
  <2> DEFINE a == (blk[w] - 1) * BUNCH_SIZE
             l == BlockLen(w, blk[w])
  <2>3. /\ l \in Nat /\ a \in Nat
        /\ blk[w] < NumBlocks(w) => l = BUNCH_SIZE
        /\ blk[w] = NumBlocks(w) => a + l = IedNum(w)
    <3>1. blk[w] \in 1 .. NumBlocks(w)
      BY <1>2, <2>1
    <3>2. QED
      BY <3>1, BlockFacts
  <2>4. Place(w) = a + l + 0
    BY <2>1, <2>2 DEF Place
  <2>5. /\ blk[w] + 1 <= NumBlocks(w) => Place(w)' = ((blk[w] + 1) - 1) * BUNCH_SIZE + 0 + 0
        /\ ~(blk[w] + 1 <= NumBlocks(w)) => Place(w)' = IedNum(w)
    BY <2>2, PlaceIs
  <2>6. ((blk[w] + 1) - 1) * BUNCH_SIZE = a + BUNCH_SIZE
    BY <1>2
  <2> HIDE DEF a, l
  <2>7. Place(w)' = Place(w)
    BY <1>2, <2>1, <2>3, <2>4, <2>5, <2>6
  <2>8. QED
    BY <2>1, <2>7, CadenceKept
<1>10. CASE doWork /\ NextUnit(w)
  <2>1. /\ wpc[w] = "unit" /\ ~(blk[w] <= NumBlocks(w)) /\ wpc' = [wpc EXCEPT ![w] = "top"]
        /\ UNCHANGED <<units, ied>>
    BY <1>2, <1>10 DEF NextUnit, Idle, NumBlocks
  <2>2. Place(w) = IedNum(w)
    BY <2>1 DEF Place
  <2>3. Marked(ied, w, units[w] - 1, IedNum(w))
    BY <1>10, <2>1, <2>2 DEF CadenceOf
  <2>4. units[w] - 1 \in Nat /\ units[w] = (units[w] - 1) + 1
    BY <1>2, <1>3, <2>1
  <2>5. Marked(ied, w, units[w], 0)
    BY <2>3, <2>4, MarkedAll
  <2>6. Marked(ied', w, units[w], 0) /\ wpc'[w] # "unit" /\ units'[w] = units[w]
    BY <1>1, <2>1, <2>5
  <2>7. QED
    BY <2>6, CadenceFrom
<1>11. QED
  BY <1>4, <1>5, <1>6, <1>7, <1>8, <1>9, <1>10 DEF WorkerStep

\* A worker gives numbers to its own streams only.
LEMMA IedKept ==
  ASSUME Base, NEW w \in Worker, WorkerStep(w), NEW v \in Worker, v # w
  PROVE  \A s \in Stream : Mine(v, s) => ied'[s] = ied[s]
<1>1. CASE Amend(w)
  <2>1. PICK t \in Stream : Mine(w, t) /\ ied' = [ied EXCEPT ![t] = ied[t] + 1]
    BY <1>1, AmendIs
  <2>2. ied \in [Stream -> Nat]
    BY DEF Base, SteadyType
  <2>3. QED
    BY <2>1, <2>2, Workers
<1>2. CASE ~Amend(w)
  <2>1. ied' = ied
    BY <1>2 DEF WorkerStep, CycleCheck, Alloc, Send, NextBlock, NextUnit
  <2>2. QED
    BY <2>1
<1>3. QED
  BY <1>1, <1>2

\* And that of every other worker.
LEMMA CadenceOthers ==
  ASSUME Base, NEW w \in Worker, WorkerStep(w), NEW v \in Worker, v # w, CadenceOf(v)
  PROVE  CadenceOf(v)'
<1>1. OthersKept(w)
  BY BaseWorkerStep
<1>2. /\ blk'[v] = blk[v] /\ sendNum'[v] = sendNum[v] /\ mbufs'[v] = mbufs[v]
      /\ wpc'[v] = wpc[v] /\ units'[v] = units[v]
  BY <1>1 DEF OthersKept
<1>3. doWork' = doWork
  BY DEF WorkerStep, CycleCheck, Alloc, Amend, Send, NextBlock, NextUnit
<1>4. Place(v)' = Place(v)
  BY <1>2, PlaceKept
<1>5. QED
  BY <1>2, <1>3, <1>4, IedKept, CadenceKept

\* Every step keeps the cadence.
LEMMA CadenceStep ==
  ASSUME Base, Cadence, [Next]_vars
  PROVE  Cadence'
<1> SUFFICES ASSUME NEW v \in Worker PROVE CadenceOf(v)'
  BY DEF Cadence, Worker, WorkerNum
<1>1. CadenceOf(v)
  BY DEF Cadence
<1>2. CASE \E w \in Worker : WorkerStep(w)
  BY <1>1, <1>2, CadenceOwn, CadenceOthers
<1>3. CASE Stop
  BY <1>3 DEF Stop, CadenceOf
<1>4. ASSUME UNCHANGED <<doWork, wpc, units, blk, sendNum, mbufs, ied>> PROVE CadenceOf(v)'
  <2>1. Place(v)' = Place(v)
    BY <1>4, PlaceKept
  <2>2. QED
    BY <1>1, <1>4, <2>1, CadenceKept
<1>5. CASE \E w \in Worker : Transmit(w)
  BY <1>4, <1>5 DEF Transmit, workerVars
<1>6. CASE UNCHANGED vars
  BY <1>4, <1>6 DEF vars, workerVars
<1>7. QED
  BY <1>2, <1>3, <1>5, <1>6 DEF Next, Exited

\* The base and the cadence are invariant.
LEMMA CadenceInvariant == Spec => [](Base /\ Cadence)
<1>1. Init => Base /\ Cadence
  BY BaseInit, CadenceInit
<1>2. Base /\ Cadence /\ [Next]_vars => Base' /\ Cadence'
  BY BaseStep, CadenceStep
<1>3. QED
  BY <1>1, <1>2, PTL DEF Spec

\* EvenCadence: when the workers of a run that is not stopping are at the head
\* of their loops after n units, every stream of the command line has been
\* given exactly n numbers, however the streams fall into workers and blocks
\* and however often an allocation failed.
THEOREM SteadyIsEven == Spec => []EvenCadence
<1>1. Base /\ Cadence => EvenCadence
  <2> SUFFICES ASSUME Base, Cadence, doWork, NEW n \in 0 .. MaxUnits,
                      \A w \in Worker : wpc[w] = "top" /\ units[w] = n, NEW s \in Stream
               PROVE  ied[s] = n
    BY DEF EvenCadence
  <2>1. PICK w \in Worker : Mine(w, s)
    BY Workers
  <2> DEFINE j == s - BaseIdx(w)
  <2>2. BaseIdx(w) \in Nat /\ IedNum(w) \in Nat \ {0} /\ s \in Nat
    BY Workers DEF Stream
  <2>3. j \in 0 .. IedNum(w) - 1 /\ BaseIdx(w) + j = s
    BY <2>1, <2>2 DEF Mine
  <2>4. Marked(ied, w, n, 0)
    BY DEF Cadence, CadenceOf
  <2> HIDE DEF j
  <2>5. ied[s] = n + (IF j < 0 THEN 1 ELSE 0)
    BY <2>3, <2>4 DEF Marked
  <2>6. QED
    BY <2>2, <2>3, <2>5, Sizes
<1>2. QED
  BY <1>1, CadenceInvariant, PTL

-----------------------------------------------------------------------------
(* No mbuf is lost.                                                        *)

\* What a worker holds is a number.
LEMMA HeldNat ==
  ASSUME SteadyType, NEW w \in Worker
  PROVE  /\ cache[w] \in Nat /\ granted[w] \in Nat /\ Len(mbufs[w]) \in Nat
         /\ Len(txq[w]) \in Nat /\ txDone[w] \in Nat /\ pool \in Nat
         /\ Held(w) \in Nat
<1>1. cache[w] \in Nat /\ granted[w] \in Nat /\ txDone[w] \in Nat /\ pool \in Nat
  BY Lengths
<1>2. Len(mbufs[w]) \in Nat /\ Len(txq[w]) \in Nat
  BY Lengths
<1>3. Held(w) = cache[w] + granted[w] + Len(mbufs[w]) + Len(txq[w]) + txDone[w]
  BY Zenon DEF Held
<1> DEFINE a == Len(mbufs[w])
           b == Len(txq[w])
<1>4. a \in Nat /\ b \in Nat /\ Held(w) = cache[w] + granted[w] + a + b + txDone[w]
  BY <1>2, <1>3
<1> HIDE DEF a, b
<1>5. Held(w) \in Nat
  BY <1>1, <1>4
<1>6. QED
  BY <1>1, <1>2, <1>5

\* The next state.
LEMMA HeldNatNext ==
  ASSUME SteadyType', NEW w \in Worker
  PROVE  Held(w)' \in Nat
<1>1. cache'[w] \in Nat /\ granted'[w] \in Nat /\ txDone'[w] \in Nat
  BY Sizes DEF SteadyType
<1>2. Len(mbufs'[w]) \in Nat /\ Len(txq'[w]) \in Nat
  <2>1. mbufs'[w] \in Seq(Frame) /\ txq'[w] \in Seq(Frame)
    BY DEF SteadyType
  <2>2. QED
    BY <2>1, LenProperties
<1> DEFINE a == Len(mbufs'[w])
           b == Len(txq'[w])
<1>3. Held(w)' = cache'[w] + granted'[w] + a + b + txDone'[w]
  BY Zenon DEF Held
<1>4. a \in Nat /\ b \in Nat
  BY <1>2
<1> HIDE DEF a, b
<1>5. QED
  BY <1>1, <1>3, <1>4

\* What one worker takes from the pool it holds.
LEMMA MbufsMoved ==
  ASSUME Base, Base', MbufsConserved, NEW w \in Worker,
         pool' + Held(w)' = pool + Held(w),
         \A v \in Worker : v # w => Held(v)' = Held(v)
  PROVE  MbufsConserved'
<1> DEFINE f == [v \in Worker |-> Held(v)]
           g == [v \in Worker |-> Held(v)']
           n == WorkerNum
<1>1. \A v \in Worker : Held(v) \in Nat
  BY HeldNat DEF Base
<1>2. \A v \in Worker : Held(v)' \in Nat
  BY HeldNatNext DEF Base
<1>3. pool \in Nat /\ pool' \in Nat
  BY DEF Base, SteadyType
<1>4. n \in Nat /\ w \in 0 .. n - 1 /\ Worker = 0 .. n - 1
  BY Workers DEF Worker
<1>5. \A i \in 0 .. n - 1 : f[i] \in Int /\ g[i] \in Int
  BY <1>1, <1>2, <1>4
<1>6. \A i \in 0 .. n - 1 : i # w => g[i] = f[i]
  BY <1>4
<1>7. f[w] = Held(w) /\ g[w] = Held(w)' /\ f[w] \in Int /\ g[w] \in Int
  BY <1>1, <1>2
<1>8. MbufsConserved <=> pool + SumBelow(f, n) + RX_DESC_NUM = MBUF_NUM
  BY DEF MbufsConserved
<1>9. MbufsConserved' <=> pool' + SumBelow(g, n) + RX_DESC_NUM = MBUF_NUM
  BY DEF MbufsConserved
<1> HIDE DEF f, g, n
<1>10. SumBelow(g, n) = SumBelow(f, n) + (g[w] - f[w])
  BY <1>4, <1>5, <1>6, SumUpdate
<1>11. SumBelow(f, n) \in Int
  <2>1. \A i \in 0 .. n - 1 : f[i] \in Int /\ f[i] <= f[i]
    BY <1>5
  <2>2. QED
    BY <1>4, <2>1, SumCompare
<1>12. pool' + g[w] = pool + f[w]
  BY <1>7
<1>13. QED
  BY <1>3, <1>7, <1>8, <1>9, <1>10, <1>11, <1>12, Sizes

\* Nothing changes hands.
LEMMA MbufsKept ==
  ASSUME Base, Base', MbufsConserved, pool' = pool, \A v \in Worker : Held(v)' = Held(v)
  PROVE  MbufsConserved'
<1>1. [v \in Worker |-> Held(v)'] = [v \in Worker |-> Held(v)]
  OBVIOUS
<1>2. QED
  BY <1>1 DEF MbufsConserved

\* The start.
LEMMA MbufsInit == Init => MbufsConserved
<1> SUFFICES ASSUME Init PROVE MbufsConserved
  OBVIOUS
<1> DEFINE f == [v \in Worker |-> Held(v)]
<1>1. WorkerNum \in Nat /\ Worker = 0 .. WorkerNum - 1
  BY Workers DEF Worker
<1>2. \A v \in Worker : f[v] = 0
  <2> TAKE v \in Worker
  <2>1. cache[v] = 0 /\ granted[v] = 0 /\ mbufs[v] = << >> /\ txq[v] = << >> /\ txDone[v] = 0
    BY DEF Init
  <2>2. Len(<< >>) = 0
    BY EmptySeq
  <2>3. QED
    BY <2>1, <2>2 DEF Held
<1>3. MbufsConserved <=> pool + SumBelow(f, WorkerNum) + RX_DESC_NUM = MBUF_NUM
  BY DEF MbufsConserved
<1> HIDE DEF f
<1>4. SumBelow(f, WorkerNum) = 0
  BY <1>1, <1>2, SumOfZeros
<1>5. pool = MBUF_NUM - RX_DESC_NUM
  BY DEF Init
<1>6. QED
  BY <1>3, <1>4, <1>5, Sizes

\* Every step keeps the mbufs together.
LEMMA MbufsStep ==
  ASSUME Base, Base', MbufsConserved, [Next]_vars
  PROVE  MbufsConserved'
<1>1. ASSUME UNCHANGED <<pool, cache, granted, mbufs, txq, txDone>> PROVE MbufsConserved'
  <2>1. \A v \in Worker : Held(v)' = Held(v)
    BY <1>1 DEF Held
  <2>2. QED
    BY <1>1, <2>1, MbufsKept
<1>2. ASSUME NEW w \in Worker, WorkerStep(w) \/ Transmit(w) PROVE MbufsConserved'
  <2>1. /\ cache \in [Worker -> 0 .. CACHE_NUM] /\ granted \in [Worker -> 0 .. BURST_SIZE]
        /\ mbufs \in [Worker -> Seq(Frame)] /\ txq \in [Worker -> Seq(Frame)]
        /\ txDone \in [Worker -> Nat]
    BY DEF Base, SteadyType
  <2>2. /\ cache[w] \in Nat /\ granted[w] \in Nat /\ Len(mbufs[w]) \in Nat
        /\ Len(txq[w]) \in Nat /\ txDone[w] \in Nat /\ pool \in Nat /\ cache[w] \in 0 .. CACHE_NUM
    BY <2>1, HeldNat DEF Base
  <2> DEFINE a == Len(mbufs[w])
             b == Len(txq[w])
  <2>20. Held(w) = cache[w] + granted[w] + a + b + txDone[w]
    BY Zenon DEF Held
  <2>21. a \in Nat /\ b \in Nat
    BY <2>2
  <2> HIDE DEF a, b
  <2>22. /\ cache[w] \in Nat /\ granted[w] \in Nat /\ txDone[w] \in Nat /\ pool \in Nat
    BY <2>2
  <2> DEFINE Same(v) == /\ cache'[v] = cache[v] /\ granted'[v] = granted[v]
                        /\ mbufs'[v] = mbufs[v] /\ txq'[v] = txq[v] /\ txDone'[v] = txDone[v]
  <2>3. ASSUME \A v \in Worker : v # w => Same(v),
               pool' + Held(w)' = pool + Held(w)
        PROVE  MbufsConserved'
    <3>1. \A v \in Worker : v # w => Held(v)' = Held(v)
      BY <2>3 DEF Held
    <3>2. QED
      BY <2>3, <3>1, MbufsMoved
  <2>4. Len(<< >>) = 0
    BY EmptySeq
  <2>5. CASE Transmit(w)
    <3>1. /\ txq' = [txq EXCEPT ![w] = Tail(txq[w])] /\ txq[w] # << >>
          /\ txDone' = [txDone EXCEPT ![w] = txDone[w] + 1]
          /\ UNCHANGED <<pool, cache, granted, mbufs>>
      BY <2>5 DEF Transmit, workerVars
    <3>2. Len(Tail(txq[w])) = Len(txq[w]) - 1
      BY <2>1, <3>1, HeadTailProperties
    <3>3. /\ Len(txq'[w]) = b - 1 /\ txDone'[w] = txDone[w] + 1 /\ Len(mbufs'[w]) = a
          /\ cache'[w] = cache[w] /\ granted'[w] = granted[w]
      BY <2>1, <3>1, <3>2 DEF a, b
    <3>30. Held(w)' = cache[w] + granted[w] + a + (b - 1) + (txDone[w] + 1)
      BY <3>3, Zenon DEF Held
    <3>31. pool' = pool
      BY <3>1
    <3>32. Held(w)' = Held(w)
      BY <2>20, <2>21, <2>22, <3>30
    <3>4. pool' + Held(w)' = pool + Held(w)
      BY <3>31, <3>32
    <3>5. \A v \in Worker : v # w => Same(v)
      BY <2>1, <3>1
    <3>6. QED
      BY <2>3, <3>4, <3>5
  <2>6. CASE CycleCheck(w)
    BY <1>1, <2>6 DEF CycleCheck, wireVars
  <2>7. CASE Alloc(w)
    <3> DEFINE num == Chunk(BlockLen(w, blk[w]), sendNum[w])
               own == AllocFromCache(cache[w], num)
               kept == FreeToCache(cache[w], txDone[w])
    <3>1. /\ granted[w] = 0 /\ UNCHANGED <<mbufs, txq>>
          /\ \/ /\ cache' = [cache EXCEPT ![w] = cache[w] - own]
                /\ pool' = pool - (num - own)
                /\ granted' = [granted EXCEPT ![w] = num]
                /\ txDone' = txDone
             \/ /\ cache' = [cache EXCEPT ![w] = cache[w] + kept]
                /\ pool' = pool + (txDone[w] - kept)
                /\ txDone' = [txDone EXCEPT ![w] = 0]
                /\ granted' = granted
      BY <2>7 DEF Alloc, InBlock, Idle, Cleanup, Free, BlockLen
    <3>2. num \in Int /\ own \in Int /\ kept \in Int
      <4>1. BlockLen(w, blk[w]) \in Nat /\ sendNum[w] \in Nat
        <5>1. blk[w] <= NumBlocks(w)
          BY <2>7 DEF Alloc, InBlock, NumBlocks
        <5>2. QED
          BY <5>1, BlockRoom, Lengths DEF Base
      <4>2. num \in Int
        <5> DEFINE l == BlockLen(w, blk[w])
        <5> HIDE DEF l
        <5>1. l \in Nat /\ num = Chunk(l, sendNum[w])
          BY <4>1 DEF l
        <5>2. QED
          BY <4>1, <5>1, Sizes DEF Chunk, Least
      <4>3. kept \in Int
        BY <2>2, Sizes DEF FreeToCache, Least
      <4> HIDE DEF num, kept
      <4>4. own \in Int
        BY <2>2, <4>2 DEF AllocFromCache, Least
      <4>5. QED
        BY <4>2, <4>3, <4>4
    <3> HIDE DEF num, own, kept
    <3>3. \A v \in Worker : v # w => Same(v)
      BY <2>1, <3>1
    <3>4. /\ Len(mbufs'[w]) = a /\ Len(txq'[w]) = b
          /\ \/ /\ cache'[w] = cache[w] - own /\ pool' = pool - (num - own)
                /\ granted'[w] = num /\ txDone'[w] = txDone[w]
             \/ /\ cache'[w] = cache[w] + kept /\ pool' = pool + (txDone[w] - kept)
                /\ txDone'[w] = 0 /\ granted'[w] = 0
      BY <2>1, <3>1 DEF a, b
    <3>40. \/ Held(w)' = (cache[w] - own) + num + a + b + txDone[w] /\ pool' = pool - (num - own)
           \/ Held(w)' = (cache[w] + kept) + 0 + a + b + 0 /\ pool' = pool + (txDone[w] - kept)
      BY <3>4, Zenon DEF Held
    <3>41. granted[w] = 0
      BY <3>1
    <3>5. pool' + Held(w)' = pool + Held(w)
      BY <2>20, <2>21, <2>22, <3>2, <3>40, <3>41
    <3>6. QED
      BY <2>3, <3>3, <3>5
  <2>8. CASE Amend(w)
    <3>1. PICK f : mbufs' = [mbufs EXCEPT ![w] = Append(mbufs[w], f)]
      BY <2>8 DEF Amend
    <3>2. granted' = [granted EXCEPT ![w] = granted[w] - 1] /\ UNCHANGED <<pool, cache, txq, txDone>>
      BY <2>8 DEF Amend, wireVars
    <3>3. Len(Append(mbufs[w], f)) = Len(mbufs[w]) + 1
      BY <2>1
    <3>4. /\ Len(mbufs'[w]) = a + 1 /\ granted'[w] = granted[w] - 1
          /\ cache'[w] = cache[w] /\ Len(txq'[w]) = b /\ txDone'[w] = txDone[w]
      BY <2>1, <3>1, <3>2, <3>3 DEF a, b
    <3>40. Held(w)' = cache[w] + (granted[w] - 1) + (a + 1) + b + txDone[w]
      BY <3>4, Zenon DEF Held
    <3>41. pool' = pool
      BY <3>2
    <3>5. pool' + Held(w)' = pool + Held(w)
      BY <2>20, <2>21, <2>22, <3>40, <3>41
    <3>6. \A v \in Worker : v # w => Same(v)
      BY <2>1, <3>1, <3>2
    <3>7. QED
      BY <2>3, <3>5, <3>6
  <2>9. CASE Send(w)
    <3>0. PICK nb \in Nat : Sends(w, nb)
      BY <2>9, SendIs
    <3> DEFINE num == Len(mbufs[w])
               fr == txDone[w] + (num - nb)
               kept == FreeToCache(cache[w], fr)
               q == txq[w] \o Prefix(mbufs[w], nb)
    <3>1. /\ txq' = [txq EXCEPT ![w] = q] /\ Len(q) = Len(txq[w]) + nb
          /\ cache' = [cache EXCEPT ![w] = cache[w] + kept]
          /\ pool' = pool + (fr - kept)
          /\ txDone' = [txDone EXCEPT ![w] = 0]
          /\ mbufs' = [mbufs EXCEPT ![w] = << >>]
          /\ granted' = granted /\ nb <= num
      BY <3>0 DEF Sends, Free
    <3>2. num = a
      BY DEF a
    <3> HIDE DEF num, q
    <3>3. fr \in Nat
      BY <2>21, <2>22, <3>1, <3>2
    <3>4. fr = txDone[w] + (a - nb)
      BY <3>2
    <3> HIDE DEF fr
    <3>5. kept \in Int
      BY <2>2, <3>3, Freed
    <3> HIDE DEF kept
    <3>6. /\ Len(txq'[w]) = b + nb /\ Len(mbufs'[w]) = 0
          /\ cache'[w] = cache[w] + kept /\ txDone'[w] = 0 /\ granted'[w] = granted[w]
      BY <2>1, <2>4, <3>1 DEF b
    <3>7. Held(w)' = (cache[w] + kept) + granted[w] + 0 + (b + nb) + 0
      BY <3>6, Zenon DEF Held
    <3>8. pool' = pool + (fr - kept)
      BY <3>1
    <3>9. pool' + Held(w)' = pool + Held(w)
      BY <2>20, <2>21, <2>22, <3>4, <3>5, <3>7, <3>8
    <3>10. \A v \in Worker : v # w => Same(v)
      BY <2>1, <3>1
    <3>11. QED
      BY <2>3, <3>9, <3>10
  <2>10. CASE NextBlock(w) \/ NextUnit(w)
    BY <1>1, <2>10 DEF NextBlock, NextUnit, wireVars
  <2>11. QED
    BY <1>2, <2>5, <2>6, <2>7, <2>8, <2>9, <2>10 DEF WorkerStep
<1>3. CASE Stop
  BY <1>1, <1>3 DEF Stop, workerVars, wireVars
<1>4. CASE UNCHANGED vars
  BY <1>1, <1>4 DEF vars, workerVars, wireVars
<1>5. QED
  BY <1>2, <1>3, <1>4 DEF Next, Exited

\* The base and the mbufs are invariant.
LEMMA MbufsInvariant == Spec => [](Base /\ MbufsConserved)
<1>1. Init => Base /\ MbufsConserved
  BY BaseInit, MbufsInit
<1>2. Base /\ MbufsConserved /\ [Next]_vars => Base' /\ MbufsConserved'
  BY BaseStep, MbufsStep
<1>3. QED
  BY <1>1, <1>2, PTL DEF Spec

\* MbufsConserved: in steady mode every mbuf is in the pool, in a cache, on
\* the RX ring or held by one worker, also after a partly accepted chunk and a
\* block left while stopping.
THEOREM SteadyKeepsMbufs == Spec => []MbufsConserved
BY MbufsInvariant, PTL

-----------------------------------------------------------------------------
(* The numbers of a stream rise, with room for what is behind.             *)

\* The first k frames of r are those of q; those of q after its first one.
Same(r, q, k) == \A i \in 1 .. k : r[i] = q[i]
Moved(r, q, k) == \A i \in 1 .. k : r[i] = q[i + 1]

\* c is b after number n of stream s, the first frame of q.
Newest(c, b, q, s, n) == q[1].s = s /\ q[1].n = n /\ c = [b EXCEPT ![s] = n]

\* Only the numbers of the worker's own streams matter.
LEMMA OrderedKept ==
  ASSUME NEW q, NEW k, NEW v, NEW b, NEW t, NEW c, NEW u, Ordered(q, k, v, b, t),
         \A s \in Stream : Mine(v, s) => c[s] = b[s] /\ u[s] = t[s]
  PROVE  Ordered(q, k, v, c, u)
<1>1. Own(q, k, v) /\ Rising(q, k, b) /\ Bounded(q, k, t) /\ Below(q, k, v, b, t)
  BY DEF Ordered
<1>2. \A i \in 1 .. k : c[q[i].s] = b[q[i].s] /\ u[q[i].s] = t[q[i].s]
  BY <1>1 DEF Own
<1>3. Rising(q, k, c)
  BY <1>1, <1>2 DEF Rising
<1>4. Bounded(q, k, u)
  BY <1>1, <1>2 DEF Bounded
<1>5. Below(q, k, v, c, u)
  BY <1>1 DEF Below
<1>6. QED
  BY <1>1, <1>3, <1>4, <1>5 DEF Ordered

\* A part from the front is in order too.
LEMMA OrderedFront ==
  ASSUME NEW q, NEW r, NEW b \in [Stream -> Nat], NEW t \in [Stream -> Nat], NEW w,
         NEW k \in Nat, NEW m \in Nat, m <= k, Same(r, q, m), Ordered(q, k, w, b, t)
  PROVE  Ordered(r, m, w, b, t)
<1>1. Own(q, k, w) /\ Rising(q, k, b) /\ Bounded(q, k, t) /\ Below(q, k, w, b, t)
  BY DEF Ordered
<1>2. \A i \in 1 .. m : i \in 1 .. k /\ i \in Nat /\ r[i] = q[i]
  BY DEF Same
<1>3. Own(r, m, w)
  BY <1>1, <1>2 DEF Own
<1>4. Rising(r, m, b)
  BY <1>1, <1>2 DEF Rising
<1>5. ASSUME NEW s, NEW i \in Nat, i <= m
      PROVE  Count(r, i, s) = Count(q, i, s) /\ Count(q, i, s) \in Nat
  <2>1. Alike(r, q, i)
    BY <1>2, <1>5 DEF Alike
  <2>2. QED
    BY <2>1, CountSame, CountNat
<1>6. ASSUME NEW s PROVE /\ Count(r, m, s) <= Count(q, k, s)
                         /\ Count(r, m, s) \in Nat /\ Count(q, k, s) \in Nat
  <2>1. Count(r, m, s) = Count(q, m, s) /\ Count(q, m, s) \in Nat
    BY <1>5
  <2>2. Count(q, m, s) <= Count(q, k, s) /\ Count(q, k, s) \in Nat
    BY CountGrows, CountNat
  <2>3. QED
    BY <2>1, <2>2
<1>7. ASSUME NEW i \in 1 .. m
      PROVE  r[i].n + Count(r, m, r[i].s) <= t[r[i].s] + Count(r, i, r[i].s)
  <2> DEFINE s == q[i].s
             n == q[i].n
  <2>1. r[i] = q[i] /\ i \in 1 .. k /\ i \in Nat /\ i <= m
    BY <1>2, <1>7
  <2>2. s \in Stream /\ n \in Nat /\ t[s] \in Nat
    BY <1>1, <2>1 DEF Own
  <2>3. n + Count(q, k, s) <= t[s] + Count(q, i, s)
    BY <1>1, <2>1 DEF Bounded
  <2> HIDE DEF s, n
  <2>4. Count(r, i, s) = Count(q, i, s) /\ Count(q, i, s) \in Nat
    BY <1>5, <2>1
  <2>5. /\ Count(r, m, s) <= Count(q, k, s)
        /\ Count(r, m, s) \in Nat /\ Count(q, k, s) \in Nat
    BY <1>6
  <2>6. n + Count(r, m, s) <= t[s] + Count(r, i, s)
    BY <2>2, <2>3, <2>4, <2>5
  <2>7. QED
    BY <2>1, <2>6 DEF s, n
<1>8. Bounded(r, m, t)
  BY <1>7 DEF Bounded
<1>9. ASSUME NEW s \in Stream, Mine(w, s) PROVE b[s] + Count(r, m, s) <= t[s]
  <2>1. b[s] + Count(q, k, s) <= t[s] /\ b[s] \in Nat /\ t[s] \in Nat
    BY <1>1, <1>9 DEF Below
  <2>2. QED
    BY <1>6, <2>1
<1>10. Below(r, m, w, b, t)
  BY <1>9 DEF Below
<1>11. QED
  BY <1>3, <1>4, <1>8, <1>10 DEF Ordered

\* The next number of a stream goes to the end.
LEMMA OrderedAppend ==
  ASSUME NEW q, NEW r, NEW b \in [Stream -> Nat], NEW t \in [Stream -> Nat], NEW w,
         NEW k \in Nat, NEW m, m = k + 1, Same(r, q, k), Ordered(q, k, w, b, t),
         NEW s \in Stream, Mine(w, s), r[m].s = s, r[m].n = t[s] + 1,
         NEW u, u = [t EXCEPT ![s] = t[s] + 1]
  PROVE  Ordered(r, m, w, b, u)
<1>1. Own(q, k, w) /\ Rising(q, k, b) /\ Bounded(q, k, t) /\ Below(q, k, w, b, t)
  BY DEF Ordered
<1>2. \A i \in 1 .. m : i \in Nat /\ (i # m => i \in 1 .. k /\ r[i] = q[i])
  BY DEF Same
<1>3. t[s] \in Nat /\ b[s] \in Nat /\ u[s] = t[s] + 1 /\ \A x \in Stream : x # s => u[x] = t[x]
  OBVIOUS
<1>4. Own(r, m, w)
  BY <1>1, <1>2, <1>3 DEF Own
<1>5. ASSUME NEW x, NEW i \in Nat, i <= k
      PROVE  Count(r, i, x) = Count(q, i, x) /\ Count(q, i, x) \in Nat
  <2>1. Alike(r, q, i)
    BY <1>5 DEF Alike, Same
  <2>2. QED
    BY <2>1, CountSame, CountNat
<1>6. ASSUME NEW x
      PROVE  /\ Count(q, k, x) \in Nat
             /\ x = s => Count(r, m, x) = Count(q, k, x) + 1
             /\ x # s => Count(r, m, x) = Count(q, k, x)
  <2>1. Count(r, k, x) = Count(q, k, x) /\ Count(q, k, x) \in Nat
    BY <1>5
  <2>2. x = s => Count(r, m, x) = Count(r, k, x) + 1
    BY CountHit
  <2>3. x # s => Count(r, m, x) = Count(r, k, x)
    BY CountMiss
  <2>4. QED
    BY <2>1, <2>2, <2>3
<1>7. ASSUME NEW i \in 1 .. k, q[i].s = s PROVE q[i].n < t[s] + 1
  <2>1. q[i].n + Count(q, k, s) <= t[s] + Count(q, i, s) /\ q[i].n \in Nat
    BY <1>1, <1>7 DEF Bounded, Own
  <2>2. i \in Nat /\ i <= k
    OBVIOUS
  <2>3. Count(q, i, s) <= Count(q, k, s) /\ Count(q, i, s) \in Nat /\ Count(q, k, s) \in Nat
    BY <2>2, CountGrows, CountNat
  <2>4. QED
    BY <1>3, <2>1, <2>3
<1>8. b[s] < t[s] + 1
  <2>1. b[s] + Count(q, k, s) <= t[s] /\ Count(q, k, s) \in Nat
    BY <1>1, <1>6 DEF Below
  <2>2. QED
    BY <1>3, <2>1
<1>9. Rising(r, m, b)
  <2>1. ASSUME NEW i \in 1 .. m PROVE b[r[i].s] < r[i].n
    <3>1. CASE i = m
      BY <1>8, <3>1
    <3>2. CASE i # m
      BY <1>1, <1>2, <2>1, <3>2 DEF Rising
    <3>3. QED
      BY <3>1, <3>2
  <2>2. ASSUME NEW i \in 1 .. m, NEW j \in 1 .. m, i < j, r[i].s = r[j].s PROVE r[i].n < r[j].n
    <3>1. i \in 1 .. k /\ r[i] = q[i]
      BY <1>2, <2>2
    <3>2. CASE j = m
      BY <1>7, <2>2, <3>1, <3>2
    <3>3. CASE j # m
      <4>1. j \in 1 .. k /\ r[j] = q[j]
        BY <1>2, <3>3
      <4>2. QED
        BY <1>1, <2>2, <3>1, <4>1 DEF Rising
    <3>4. QED
      BY <3>2, <3>3
  <2>3. QED
    BY <2>1, <2>2 DEF Rising
<1>10. ASSUME NEW i \in 1 .. m
       PROVE  r[i].n + Count(r, m, r[i].s) <= u[r[i].s] + Count(r, i, r[i].s)
  <2>1. CASE i = m
    <3>1. Count(r, m, s) \in Nat
      BY <1>6
    <3>2. QED
      BY <1>3, <2>1, <3>1
  <2>2. CASE i # m
    <3> DEFINE x == q[i].s
               n == q[i].n
    <3>1. r[i] = q[i] /\ i \in 1 .. k /\ i \in Nat /\ i <= k
      BY <1>2, <1>10, <2>2
    <3>2. x \in Stream /\ n \in Nat /\ t[x] \in Nat
      BY <1>1, <3>1 DEF Own
    <3>3. n + Count(q, k, x) <= t[x] + Count(q, i, x)
      BY <1>1, <3>1 DEF Bounded
    <3> HIDE DEF x, n
    <3>4. Count(r, i, x) = Count(q, i, x) /\ Count(q, i, x) \in Nat
      BY <1>5, <3>1
    <3>5. n + Count(r, m, x) <= u[x] + Count(r, i, x)
      <4>1. CASE x = s
        <5>1. Count(r, m, x) = Count(q, k, x) + 1 /\ Count(q, k, x) \in Nat /\ u[x] = t[x] + 1
          BY <1>3, <1>6, <4>1
        <5>2. QED
          BY <3>2, <3>3, <3>4, <5>1
      <4>2. CASE x # s
        <5>1. Count(r, m, x) = Count(q, k, x) /\ Count(q, k, x) \in Nat /\ u[x] = t[x]
          BY <1>3, <1>6, <3>2, <4>2
        <5>2. QED
          BY <3>2, <3>3, <3>4, <5>1
      <4>3. QED
        BY <4>1, <4>2
    <3>6. QED
      BY <3>1, <3>5 DEF x, n
  <2>3. QED
    BY <2>1, <2>2
<1>11. Bounded(r, m, u)
  BY <1>10 DEF Bounded
<1>12. ASSUME NEW x \in Stream, Mine(w, x) PROVE b[x] + Count(r, m, x) <= u[x]
  <2>1. b[x] + Count(q, k, x) <= t[x] /\ b[x] \in Nat /\ t[x] \in Nat /\ Count(q, k, x) \in Nat
    BY <1>1, <1>6, <1>12 DEF Below
  <2>2. CASE x = s
    <3>1. Count(r, m, x) = Count(q, k, x) + 1 /\ u[x] = t[x] + 1
      BY <1>3, <1>6, <2>2
    <3>2. QED
      BY <2>1, <3>1
  <2>3. CASE x # s
    <3>1. Count(r, m, x) = Count(q, k, x) /\ u[x] = t[x]
      BY <1>3, <1>6, <2>3
    <3>2. QED
      BY <2>1, <3>1
  <2>4. QED
    BY <2>2, <2>3
<1>13. Below(r, m, w, b, u)
  BY <1>12 DEF Below
<1>14. QED
  BY <1>4, <1>9, <1>11, <1>13 DEF Ordered

\* One frame of the stream counts as one.
LEMMA CountOne ==
  ASSUME NEW q, NEW s, q[1].s = s
  PROVE  Count(q, 1, s) = 1
<1>1. 1 = 0 + 1 /\ 0 \in Nat
  OBVIOUS
<1>2. Count(q, 0, s) = 0 /\ Count(q, 1, s) = Count(q, 0, s) + 1
  BY <1>1, CountHit, CountNat
<1>3. QED
  BY <1>2

\* The first frame is newer than what is on the wire, and the others are in
\* order behind it.
LEMMA OrderedTail ==
  ASSUME NEW q, NEW r, NEW b \in [Stream -> Nat], NEW t \in [Stream -> Nat], NEW w,
         NEW k \in Nat, NEW m, m = k + 1, Moved(r, q, k), Ordered(q, m, w, b, t),
         NEW s, NEW n, NEW c, Newest(c, b, q, s, n)
  PROVE  Ordered(r, k, w, c, t) /\ s \in Stream /\ Mine(w, s) /\ n \in Nat /\ b[s] < n
<1>0. q[1].s = s /\ q[1].n = n /\ c = [b EXCEPT ![s] = n]
  BY DEF Newest
<1>1. Own(q, m, w) /\ Rising(q, m, b) /\ Bounded(q, m, t) /\ Below(q, m, w, b, t)
  BY DEF Ordered
<1>2. \A i \in 1 .. k : i + 1 \in 1 .. m /\ i + 1 > 1 /\ i \in Nat /\ i + 1 \in Nat /\ r[i] = q[i + 1]
  BY DEF Moved
<1>3. 1 \in 1 .. m
  OBVIOUS
<1>4. s \in Stream /\ Mine(w, s) /\ n \in Nat /\ b[s] < n /\ b[s] \in Nat
  BY <1>0, <1>1, <1>3 DEF Own, Rising
<1>5. c[s] = n /\ \A x \in Stream : x # s => c[x] = b[x]
  BY <1>0, <1>4
<1>6. Own(r, k, w)
  BY <1>1, <1>2 DEF Own
<1>7. Rising(r, k, c)
  <2>1. ASSUME NEW i \in 1 .. k PROVE c[r[i].s] < r[i].n
    <3> DEFINE x == q[i + 1].s
    <3>1. i + 1 \in 1 .. m /\ 1 < i + 1 /\ r[i] = q[i + 1] /\ x \in Stream
      BY <1>1, <1>2, <2>1 DEF Own
    <3>2. b[x] < q[i + 1].n /\ (q[1].s = x => q[1].n < q[i + 1].n)
      BY <1>1, <1>3, <3>1 DEF Rising
    <3>3. QED
      BY <1>0, <1>5, <3>1, <3>2
  <2>2. ASSUME NEW i \in 1 .. k, NEW j \in 1 .. k, i < j, r[i].s = r[j].s PROVE r[i].n < r[j].n
    <3>1. /\ i + 1 \in 1 .. m /\ j + 1 \in 1 .. m /\ i + 1 < j + 1
          /\ r[i] = q[i + 1] /\ r[j] = q[j + 1]
      BY <1>2, <2>2
    <3>2. QED
      BY <1>1, <2>2, <3>1 DEF Rising
  <2>3. QED
    BY <2>1, <2>2 DEF Rising
<1>8. ASSUME NEW i \in Nat, NEW x, i <= k
      PROVE  /\ Count(r, i, x) \in Nat
             /\ x = s => Count(q, i + 1, x) = Count(r, i, x) + 1
             /\ x # s => Count(q, i + 1, x) = Count(r, i, x)
  <2>1. Shifted(r, q, i)
    BY <1>2, <1>8 DEF Shifted
  <2>2. i + 1 = i + 1
    OBVIOUS
  <2>3. Count(r, i, x) \in Nat
    BY CountNat
  <2>4. /\ q[1].s = x => Count(q, i + 1, x) = Count(r, i, x) + 1
        /\ q[1].s # x => Count(q, i + 1, x) = Count(r, i, x)
    BY <2>1, <2>2, CountFirst
  <2>5. QED
    BY <1>0, <2>3, <2>4
<1>9. ASSUME NEW i \in 1 .. k
      PROVE  r[i].n + Count(r, k, r[i].s) <= t[r[i].s] + Count(r, i, r[i].s)
  <2> DEFINE x == q[i + 1].s
             l == q[i + 1].n
  <2>1. r[i] = q[i + 1] /\ i + 1 \in 1 .. m /\ i \in Nat /\ i <= k
    BY <1>2, <1>9
  <2>2. x \in Stream /\ l \in Nat /\ t[x] \in Nat
    BY <1>1, <2>1 DEF Own
  <2>3. l + Count(q, m, x) <= t[x] + Count(q, i + 1, x)
    BY <1>1, <2>1 DEF Bounded
  <2> HIDE DEF x, l
  <2>4. /\ Count(r, i, x) \in Nat
        /\ x = s => Count(q, i + 1, x) = Count(r, i, x) + 1
        /\ x # s => Count(q, i + 1, x) = Count(r, i, x)
    BY <1>8, <2>1
  <2>5. /\ Count(r, k, x) \in Nat
        /\ x = s => Count(q, m, x) = Count(r, k, x) + 1
        /\ x # s => Count(q, m, x) = Count(r, k, x)
    BY <1>8
  <2>6. l + Count(r, k, x) <= t[x] + Count(r, i, x)
    BY <2>2, <2>3, <2>4, <2>5
  <2>7. QED
    BY <2>1, <2>6 DEF x, l
<1>10. Bounded(r, k, t)
  BY <1>9 DEF Bounded
<1>11. ASSUME NEW x \in Stream, Mine(w, x) PROVE c[x] + Count(r, k, x) <= t[x]
  <2>1. b[x] + Count(q, m, x) <= t[x] /\ b[x] \in Nat /\ t[x] \in Nat
    BY <1>1, <1>11 DEF Below
  <2>2. /\ Count(r, k, x) \in Nat
        /\ x = s => Count(q, m, x) = Count(r, k, x) + 1
        /\ x # s => Count(q, m, x) = Count(r, k, x)
    BY <1>8
  <2>3. CASE x = s
    <3>1. n + Count(q, m, s) <= t[s] + Count(q, 1, s)
      BY <1>0, <1>1, <1>3 DEF Bounded
    <3>2. Count(q, 1, s) = 1
      BY <1>0, CountOne
    <3>3. QED
      BY <1>4, <1>5, <2>1, <2>2, <2>3, <3>1, <3>2
  <2>4. CASE x # s
    BY <1>5, <2>1, <2>2, <2>4
  <2>5. QED
    BY <2>3, <2>4
<1>12. Below(r, k, w, c, t)
  BY <1>11 DEF Below
<1>13. QED
  BY <1>4, <1>6, <1>7, <1>10, <1>12 DEF Ordered

\* Two sequences of frames, one behind the other.
LEMMA Joined ==
  ASSUME NEW q \in Seq(Frame), NEW r \in Seq(Frame)
  PROVE  /\ q \o r \in Seq(Frame)
         /\ Len(q) \in Nat /\ Len(r) \in Nat /\ Len(q \o r) \in Nat
         /\ Len(q \o r) = Len(q) + Len(r)
         /\ \A i \in 1 .. Len(q) : (q \o r)[i] = q[i]
         /\ \A i \in 1 .. Len(r) : (q \o r)[Len(q) + i] = r[i]
<1>1. /\ q \o r \in Seq(Frame) /\ Len(q \o r) = Len(q) + Len(r) /\ Len(q) \in Nat /\ Len(r) \in Nat
      /\ \A i \in 1 .. Len(q) + Len(r) : (q \o r)[i] = IF i <= Len(q) THEN q[i] ELSE r[i - Len(q)]
  BY ConcatProperties
<1> DEFINE p == q \o r
<1>4. \A i \in 1 .. Len(q) : p[i] = q[i]
  BY <1>1
<1>5. \A i \in 1 .. Len(r) : p[Len(q) + i] = r[i]
  <2> TAKE i \in 1 .. Len(r)
  <2>1. Len(q) + i \in 1 .. Len(q) + Len(r) /\ ~(Len(q) + i <= Len(q)) /\ Len(q) + i - Len(q) = i
    BY <1>1
  <2>2. QED
    BY <1>1, <2>1
<1>6. p \in Seq(Frame) /\ Len(p) = Len(q) + Len(r)
  BY <1>1
<1> HIDE DEF p
<1>7. Len(p) \in Nat
  BY <1>1, <1>6
<1>8. QED
  BY <1>1, <1>4, <1>5, <1>6, <1>7 DEF p

\* What Pending is.
LEMMA PendingIs ==
  ASSUME SteadyType, NEW w \in Worker
  PROVE  /\ Pending(w) \in Seq(Frame)
         /\ Len(txq[w]) \in Nat /\ Len(mbufs[w]) \in Nat /\ Len(Pending(w)) \in Nat
         /\ Len(Pending(w)) = Len(txq[w]) + Len(mbufs[w])
         /\ \A i \in 1 .. Len(txq[w]) : Pending(w)[i] = txq[w][i]
         /\ \A i \in 1 .. Len(mbufs[w]) : Pending(w)[Len(txq[w]) + i] = mbufs[w][i]
<1> DEFINE q == txq[w]
           r == mbufs[w]
<1>1. q \in Seq(Frame) /\ r \in Seq(Frame)
  BY DEF SteadyType
<1> HIDE DEF q, r
<1>2. /\ q \o r \in Seq(Frame)
      /\ Len(q) \in Nat /\ Len(r) \in Nat /\ Len(q \o r) \in Nat
      /\ Len(q \o r) = Len(q) + Len(r)
      /\ \A i \in 1 .. Len(q) : (q \o r)[i] = q[i]
      /\ \A i \in 1 .. Len(r) : (q \o r)[Len(q) + i] = r[i]
  BY <1>1, Joined, Zenon
<1>3. QED
  BY <1>2, Zenon DEF q, r, Pending

\* The NIC sends a newer frame, and the others are in order behind it.
LEMMA OrderTransmit ==
  ASSUME Base, NEW w \in Worker, OrderOf(w), Transmit(w)
  PROVE  /\ OrderOf(w)'
         /\ \E s \in Stream, n \in Nat :
              /\ Mine(w, s) /\ wire[s] < n
              /\ wire' = [wire EXCEPT ![s] = n]
              /\ skipped' = [skipped EXCEPT ![s] = skipped[s] + (n - wire[s] - 1)]
<1> DEFINE q == Pending(w)
           k == Len(Pending(w)')
           r == Pending(w)'
           s == Head(txq[w]).s
           n == Head(txq[w]).n
<1>1. /\ txq[w] # << >> /\ wire' = [wire EXCEPT ![s] = n]
      /\ skipped' = [skipped EXCEPT ![s] = skipped[s] + (n - wire[s] - 1)]
      /\ txq' = [txq EXCEPT ![w] = Tail(txq[w])]
      /\ UNCHANGED <<mbufs, ied>>
  BY DEF Transmit, workerVars
<1>2. /\ SteadyType /\ txq[w] \in Seq(Frame) /\ mbufs[w] \in Seq(Frame)
      /\ wire \in [Stream -> Nat] /\ ied \in [Stream -> Nat]
  BY DEF Base, SteadyType
<1>3. /\ k \in Nat /\ Len(q) = k + 1 /\ q[1].s = s /\ q[1].n = n
      /\ \A i \in 1 .. k : r[i] = q[i + 1]
  <2> DEFINE x == txq[w]
             y == Tail(x)
             z == mbufs[w]
  <2>1. /\ y \in Seq(Frame) /\ Len(y) = Len(x) - 1 /\ Len(x) \in Nat \ {0}
        /\ Len(y) \in Nat /\ \A i \in 1 .. Len(y) : y[i] = x[i + 1]
        /\ Head(x) = x[1]
    <3> HIDE DEF x
    <3>1. x \in Seq(Frame) /\ x # << >>
      BY <1>1, <1>2 DEF x
    <3>2. QED
      BY <3>1, HeadTailProperties, EmptySeq
  <2>2. r = y \o z
    BY <1>1 DEF Pending, Base, SteadyType
  <2>3. q = x \o z
    BY DEF Pending
  <2>4. z \in Seq(Frame) /\ x \in Seq(Frame)
    BY <1>2
  <2>5. s = x[1].s /\ n = x[1].n
    BY <2>1
  <2> HIDE DEF x, y, z, q, r, s, n
  <2>6. /\ Len(z) \in Nat /\ Len(x \o z) = Len(x) + Len(z)
        /\ \A i \in 1 .. Len(x) : (x \o z)[i] = x[i]
        /\ \A i \in 1 .. Len(z) : (x \o z)[Len(x) + i] = z[i]
    BY <2>4, Joined
  <2>7. /\ Len(y \o z) = Len(y) + Len(z)
        /\ \A i \in 1 .. Len(y) : (y \o z)[i] = y[i]
        /\ \A i \in 1 .. Len(z) : (y \o z)[Len(y) + i] = z[i]
    BY <2>1, <2>4, Joined
  <2>8. k = Len(y) + Len(z)
    BY <2>2, <2>7 DEF r
  <2>9. Len(q) = Len(x) + Len(z)
    BY <2>3, <2>6
  <2>10. q[1] = x[1]
    <3>1. 1 \in 1 .. Len(x)
      BY <2>1
    <3>2. QED
      BY <2>3, <2>6, <3>1, Zenon
  <2>11. ASSUME NEW i \in 1 .. k PROVE r[i] = q[i + 1]
    <3>1. CASE i <= Len(y)
      <4>1. i \in 1 .. Len(y) /\ i + 1 \in 1 .. Len(x)
        BY <2>1, <2>6, <2>8, <3>1
      <4>2. r[i] = y[i] /\ q[i + 1] = x[i + 1] /\ y[i] = x[i + 1]
        BY <2>1, <2>2, <2>3, <2>6, <2>7, <4>1, Zenon
      <4>3. QED
        BY <4>2
    <3>2. CASE ~(i <= Len(y))
      <4> DEFINE j == i - Len(y)
      <4>1. j \in 1 .. Len(z) /\ i = Len(y) + j /\ i + 1 = Len(x) + j
        BY <2>1, <2>6, <2>8, <3>2
      <4> HIDE DEF j
      <4>2. r[Len(y) + j] = z[j] /\ q[Len(x) + j] = z[j]
        BY <2>2, <2>3, <2>6, <2>7, <4>1, Zenon
      <4>3. QED
        BY <4>1, <4>2, Zenon
    <3>3. QED
      BY <3>1, <3>2
  <2>12. k \in Nat /\ Len(q) = k + 1
    BY <2>1, <2>6, <2>8, <2>9
  <2>13. QED
    BY <2>5, <2>10, <2>11, <2>12, Zenon
<1>4. Ordered(q, Len(q), w, wire, ied)
  BY DEF OrderOf
<1> HIDE DEF q, r, s, n, k
<1>5. k \in Nat /\ Moved(r, q, k) /\ Ordered(q, k + 1, w, wire, ied)
  BY <1>3, <1>4 DEF Moved
<1>6. Ordered(r, k, w, wire', ied) /\ s \in Stream /\ Mine(w, s) /\ n \in Nat /\ wire[s] < n
  <2> DEFINE m == k + 1
             c == wire'
  <2>1. m = k + 1 /\ Ordered(q, m, w, wire, ied) /\ k \in Nat /\ Moved(r, q, k)
    BY <1>5
  <2>2. Newest(c, wire, q, s, n)
    BY <1>1, <1>3 DEF Newest
  <2>3. wire \in [Stream -> Nat] /\ ied \in [Stream -> Nat]
    BY <1>2
  <2> HIDE DEF m, c
  <2>4. Ordered(r, k, w, c, ied) /\ s \in Stream /\ Mine(w, s) /\ n \in Nat /\ wire[s] < n
    BY <2>1, <2>2, <2>3, OrderedTail
  <2>5. QED
    BY <2>4 DEF c
<1>7. Ordered(r, k, w, wire', ied')
  BY <1>1, <1>6
<1>8. OrderOf(w)'
  BY <1>7, Zenon DEF OrderOf, r, k, Ordered, Own, Rising, Bounded, Below, Mine
<1>9. QED
  BY <1>1, <1>6, <1>8

\* Amend appends the next number of a stream.
LEMMA OrderAmend ==
  ASSUME Base, NEW w \in Worker, OrderOf(w), Amend(w)
  PROVE  OrderOf(w)'
<1> DEFINE q == Pending(w)
           k == Len(q)
           r == Pending(w)'
<1>1. PICK s \in Stream, f \in Frame :
           /\ Mine(w, s) /\ f.s = s /\ f.n = ied[s] + 1
           /\ ied' = [ied EXCEPT ![s] = ied[s] + 1]
           /\ mbufs' = [mbufs EXCEPT ![w] = Append(mbufs[w], f)]
  BY AmendIs
<1>2. f \in Frame /\ txq' = txq /\ wire' = wire
  BY DEF Amend, wireVars
<1>3. /\ txq[w] \in Seq(Frame) /\ mbufs[w] \in Seq(Frame)
      /\ wire \in [Stream -> Nat] /\ ied \in [Stream -> Nat]
  BY DEF Base, SteadyType
<1>4. /\ k \in Nat /\ Len(r) = k + 1 /\ r[k + 1] = f
      /\ \A i \in 1 .. k : r[i] = q[i]
  <2> DEFINE x == txq[w]
             y == mbufs[w]
             z == Append(y, f)
  <2>1. x \in Seq(Frame) /\ y \in Seq(Frame)
    BY <1>3
  <2>2. r = x \o z
    BY <1>1, <1>2 DEF Pending, Base, SteadyType
  <2>3. q = x \o y
    BY DEF Pending
  <2> HIDE DEF x, y, q, r
  <2>4. /\ z \in Seq(Frame) /\ Len(z) = Len(y) + 1 /\ z[Len(y) + 1] = f
        /\ \A i \in 1 .. Len(y) : z[i] = y[i]
    BY <1>2, <2>1, AppendProperties
  <2> HIDE DEF z
  <2>5. /\ Len(x) \in Nat /\ Len(y) \in Nat /\ Len(x \o y) = Len(x) + Len(y)
        /\ \A i \in 1 .. Len(x) : (x \o y)[i] = x[i]
        /\ \A i \in 1 .. Len(y) : (x \o y)[Len(x) + i] = y[i]
    BY <2>1, Joined
  <2>6. /\ Len(x \o z) = Len(x) + Len(z)
        /\ \A i \in 1 .. Len(x) : (x \o z)[i] = x[i]
        /\ \A i \in 1 .. Len(z) : (x \o z)[Len(x) + i] = z[i]
    BY <2>1, <2>4, Joined
  <2>7. k = Len(x) + Len(y) /\ Len(r) = Len(x) + Len(z)
    BY <2>2, <2>3, <2>5, <2>6
  <2>8. k \in Nat /\ Len(r) = k + 1 /\ Len(x) + (Len(y) + 1) = k + 1
    BY <2>4, <2>5, <2>7
  <2>9. r[k + 1] = f
    <3>1. Len(y) + 1 \in 1 .. Len(z)
      BY <2>4, <2>5
    <3>2. r[Len(x) + (Len(y) + 1)] = z[Len(y) + 1]
      BY <2>2, <2>6, <3>1, Zenon
    <3>3. QED
      BY <2>4, <2>8, <3>2, Zenon
  <2>10. ASSUME NEW i \in 1 .. k PROVE r[i] = q[i]
    <3>1. CASE i <= Len(x)
      <4>1. i \in 1 .. Len(x)
        BY <2>5, <2>7, <3>1
      <4>2. QED
        BY <2>2, <2>3, <2>5, <2>6, <4>1, Zenon
    <3>2. CASE ~(i <= Len(x))
      <4> DEFINE j == i - Len(x)
      <4>1. j \in 1 .. Len(y) /\ j \in 1 .. Len(z) /\ i = Len(x) + j
        BY <2>4, <2>5, <2>7, <3>2
      <4> HIDE DEF j
      <4>2. r[Len(x) + j] = z[j] /\ q[Len(x) + j] = y[j] /\ z[j] = y[j]
        BY <2>2, <2>3, <2>4, <2>5, <2>6, <4>1, Zenon
      <4>3. QED
        BY <4>1, <4>2, Zenon
    <3>3. QED
      BY <3>1, <3>2
  <2>11. QED
    BY <2>8, <2>9, <2>10
<1>5. Ordered(q, k, w, wire, ied)
  BY DEF OrderOf
<1> HIDE DEF q, r, k
<1>6. k \in Nat /\ Same(r, q, k) /\ r[k + 1].s = s /\ r[k + 1].n = ied[s] + 1
  BY <1>1, <1>4 DEF Same
<1>7. Ordered(r, k + 1, w, wire, ied')
  BY <1>1, <1>3, <1>5, <1>6, OrderedAppend
<1>8. Ordered(r, Len(r), w, wire', ied')
  BY <1>2, <1>4, <1>7
<1>9. QED
  BY <1>8, Zenon DEF OrderOf, r, Ordered, Own, Rising, Bounded, Below, Mine

\* Send keeps the ring and what was taken of the chunk.
LEMMA OrderSend ==
  ASSUME Base, NEW w \in Worker, OrderOf(w), Send(w)
  PROVE  OrderOf(w)'
<1>1. PICK nb \in Nat : Sends(w, nb)
  BY SendIs
<1> DEFINE x == txq[w]
           y == mbufs[w]
           a == Prefix(y, nb)
           e == << >>
           b == x \o a
           q == Pending(w)
           k == Len(q)
           r == Pending(w)'
           m == Len(r)
<1>2. /\ x \in Seq(Frame) /\ y \in Seq(Frame) /\ txq \in [Worker -> Seq(Frame)]
      /\ mbufs \in [Worker -> Seq(Frame)] /\ wire \in [Stream -> Nat] /\ ied \in [Stream -> Nat]
  BY DEF Base, SteadyType
<1>3. /\ nb <= Len(y) /\ a \in Seq(Frame) /\ Len(a) = nb /\ \A i \in 1 .. nb : a[i] = y[i]
      /\ txq' = [txq EXCEPT ![w] = b] /\ mbufs' = [mbufs EXCEPT ![w] = e]
      /\ ied' = ied /\ wire' = wire
  BY <1>1 DEF Sends
<1>4. r = b \o e /\ q = x \o y
  BY <1>2, <1>3 DEF Pending
<1>5. e \in Seq(Frame) /\ Len(e) = 0
  BY EmptySeq
<1> HIDE DEF x, y, a, e
<1>6. /\ Len(x) \in Nat /\ Len(y) \in Nat /\ Len(x \o y) = Len(x) + Len(y)
      /\ \A i \in 1 .. Len(x) : (x \o y)[i] = x[i]
      /\ \A i \in 1 .. Len(y) : (x \o y)[Len(x) + i] = y[i]
  BY <1>2, Joined
<1>7. /\ Len(b) = Len(x) + nb /\ b \in Seq(Frame)
      /\ \A i \in 1 .. Len(x) : b[i] = x[i]
      /\ \A i \in 1 .. nb : b[Len(x) + i] = a[i]
  BY <1>2, <1>3, Joined
<1> HIDE DEF b
<1>8. Len(b \o e) = Len(b) + Len(e) /\ \A i \in 1 .. Len(b) : (b \o e)[i] = b[i]
  BY <1>5, <1>7, Joined
<1>9. Ordered(q, k, w, wire, ied)
  BY DEF OrderOf
<1> HIDE DEF q, r
<1>10. Len(r) = Len(b) + Len(e) /\ Len(q) = Len(x) + Len(y)
  BY <1>4, <1>6, <1>8
<1>11. m \in Nat /\ k \in Nat /\ m <= k /\ m = Len(x) + nb
  BY <1>3, <1>5, <1>6, <1>7, <1>10
<1> HIDE DEF m, k
<1>12. ASSUME NEW i \in 1 .. m PROVE r[i] = q[i]
  <2>1. i \in 1 .. Len(b)
    BY <1>7, <1>11
  <2>2. r[i] = b[i]
    BY <1>4, <1>8, <2>1, Zenon
  <2>3. CASE i <= Len(x)
    <3>1. i \in 1 .. Len(x)
      BY <1>6, <1>11, <2>3
    <3>2. q[i] = x[i] /\ b[i] = x[i]
      BY <1>4, <1>6, <1>7, <3>1, Zenon
    <3>3. QED
      BY <2>2, <3>2
  <2>4. CASE Len(x) < i
    <3> DEFINE j == i - Len(x)
    <3>1. i = Len(x) + j /\ j \in 1 .. nb /\ j \in 1 .. Len(y)
      BY <1>3, <1>6, <1>11, <2>4
    <3> HIDE DEF j
    <3>2. q[Len(x) + j] = y[j] /\ b[Len(x) + j] = a[j] /\ a[j] = y[j]
      BY <1>3, <1>4, <1>6, <1>7, <3>1, Zenon
    <3>3. QED
      BY <2>2, <3>1, <3>2, Zenon
  <2>5. QED
    BY <1>6, <1>11, <2>3, <2>4
<1>13. Same(r, q, m)
  BY <1>12 DEF Same
<1>14. Ordered(r, m, w, wire, ied)
  BY <1>2, <1>9, <1>11, <1>13, OrderedFront
<1>15. Ordered(r, m, w, wire', ied')
  BY <1>3, <1>14
<1>16. QED
  BY <1>15, Zenon DEF OrderOf, r, m, Ordered, Own, Rising, Bounded, Below, Mine

\* A worker whose pending frames and numbers are left alone.
LEMMA OrderKept ==
  ASSUME NEW v \in Worker, OrderOf(v), txq'[v] = txq[v], mbufs'[v] = mbufs[v],
         \A s \in Stream : Mine(v, s) => wire'[s] = wire[s] /\ ied'[s] = ied[s]
  PROVE  OrderOf(v)'
<1> DEFINE q == Pending(v)
           k == Len(q)
<1>1. Pending(v)' = q
  BY DEF Pending
<1>2. Ordered(q, k, v, wire, ied)
  BY DEF OrderOf
<1>3. Len(Pending(v)') = k
  BY <1>1
<1> HIDE DEF q, k
<1>4. Ordered(q, k, v, wire', ied')
  BY <1>2, OrderedKept
<1>5. Ordered(Pending(v)', Len(Pending(v)'), v, wire', ied')
  BY <1>1, <1>3, <1>4, Zenon
<1>6. QED
  BY <1>5, Zenon DEF OrderOf, Ordered, Own, Rising, Bounded, Below, Mine

\* The start.
LEMMA OrderInit == Init => Order
<1> SUFFICES ASSUME Init, NEW w \in Worker PROVE OrderOf(w)
  BY DEF Order
<1> DEFINE e == << >>
           q == Pending(w)
<1>1. e \in Seq(Frame) /\ Len(e) = 0
  BY EmptySeq
<1>2. q = e \o e
  BY DEF Init, Pending
<1> HIDE DEF e, q
<1>3. Len(e \o e) = Len(e) + Len(e)
  BY <1>1, Joined
<1>4. Len(q) = 0
  BY <1>1, <1>2, <1>3
<1>5. Own(q, 0, w) /\ Rising(q, 0, wire) /\ Bounded(q, 0, ied)
  BY DEF Own, Rising, Bounded
<1>6. ASSUME NEW s \in Stream PROVE wire[s] + Count(q, 0, s) <= ied[s]
  <2>1. ied[s] = 0 /\ wire[s] = 0 /\ 0 \in Nat
    BY DEF Init
  <2>2. Count(q, 0, s) = 0
    BY <2>1, CountNat
  <2>3. QED
    BY <2>1, <2>2
<1>7. Ordered(q, 0, w, wire, ied)
  BY <1>5, <1>6 DEF Ordered, Below
<1>8. QED
  BY <1>4, <1>7 DEF OrderOf, q

\* Every step keeps the order.
LEMMA OrderStep ==
  ASSUME Base, Order, [Next]_vars
  PROVE  Order'
<1> SUFFICES ASSUME NEW v \in Worker PROVE OrderOf(v)'
  BY DEF Order, Worker, WorkerNum
<1>1. OrderOf(v)
  BY DEF Order
<1>2. ASSUME UNCHANGED <<txq, mbufs, wire, ied>> PROVE OrderOf(v)'
  BY <1>1, <1>2, OrderKept
<1>3. ASSUME NEW w \in Worker, WorkerStep(w) PROVE OrderOf(v)'
  <2>1. CASE v = w
    <3>1. CASE Amend(w)
      BY <1>1, <2>1, <3>1, OrderAmend
    <3>2. CASE Send(w)
      BY <1>1, <2>1, <3>2, OrderSend
    <3>3. CASE ~Amend(w) /\ ~Send(w)
      BY <1>2, <1>3, <3>3 DEF WorkerStep, CycleCheck, Alloc, NextBlock, NextUnit, wireVars
    <3>4. QED
      BY <3>1, <3>2, <3>3
  <2>2. CASE v # w
    <3>1. txq'[v] = txq[v] /\ mbufs'[v] = mbufs[v]
      BY <1>3, <2>2, BaseWorkerStep DEF OthersKept
    <3>2. wire' = wire
      BY <1>3 DEF WorkerStep, CycleCheck, Alloc, Amend, Send, NextBlock, NextUnit, wireVars
    <3>3. \A s \in Stream : Mine(v, s) => ied'[s] = ied[s]
      BY <1>3, <2>2, IedKept
    <3>4. QED
      BY <1>1, <3>1, <3>2, <3>3, OrderKept
  <2>3. QED
    BY <2>1, <2>2
<1>4. ASSUME NEW w \in Worker, Transmit(w) PROVE OrderOf(v)'
  <2>1. CASE v = w
    BY <1>1, <1>4, <2>1, OrderTransmit
  <2>2. CASE v # w
    <3>1. PICK s \in Stream, n \in Nat : Mine(w, s) /\ wire' = [wire EXCEPT ![s] = n]
      BY <1>4, OrderTransmit DEF Order
    <3>2. /\ wire \in [Stream -> Nat] /\ txq \in [Worker -> Seq(Frame)]
          /\ txq' = [txq EXCEPT ![w] = Tail(@)] /\ UNCHANGED <<mbufs, ied>>
      BY <1>4 DEF Transmit, workerVars, Base, SteadyType
    <3>3. \A x \in Stream : Mine(v, x) => wire'[x] = wire[x]
      BY <2>2, <3>1, <3>2, Workers
    <3>4. QED
      BY <1>1, <2>2, <3>2, <3>3, OrderKept
  <2>3. QED
    BY <2>1, <2>2
<1>5. CASE Stop
  BY <1>2, <1>5 DEF Stop, workerVars, wireVars
<1>6. CASE UNCHANGED vars
  BY <1>2, <1>6 DEF vars, workerVars, wireVars
<1>7. QED
  BY <1>3, <1>4, <1>5, <1>6 DEF Next, Exited

\* No number is sent twice: what is skipped is never negative.
LEMMA SkippedStep ==
  ASSUME Base, Order, skipped \in [Stream -> Nat], [Next]_vars
  PROVE  skipped' \in [Stream -> Nat]
<1>1. CASE \E w \in Worker : Transmit(w)
  <2>1. PICK w \in Worker : Transmit(w)
    BY <1>1
  <2>2. PICK s \in Stream, n \in Nat :
           /\ wire[s] < n
           /\ skipped' = [skipped EXCEPT ![s] = skipped[s] + (n - wire[s] - 1)]
    BY <2>1, OrderTransmit DEF Order
  <2>3. wire[s] \in Nat /\ skipped[s] \in Nat
    BY DEF Base, SteadyType
  <2>4. n - wire[s] - 1 \in Nat
    BY <2>2, <2>3
  <2>5. skipped[s] + (n - wire[s] - 1) \in Nat
    BY <2>3, <2>4
  <2>6. QED
    BY <2>2, <2>5
<1>2. CASE ~(\E w \in Worker : Transmit(w))
  <2>1. skipped' = skipped
    BY <1>2 DEF Next, Stop, Exited, WorkerStep, CycleCheck, Alloc, Amend, Send, NextBlock, NextUnit,
       vars, wireVars
  <2>2. QED
    BY <2>1, Zenon
<1>3. QED
  BY <1>1, <1>2

\* The base, the order and the skipped numbers are invariant.
LEMMA OrderInvariant == Spec => [](Base /\ Order /\ skipped \in [Stream -> Nat])
<1>1. Init => Base /\ Order /\ skipped \in [Stream -> Nat]
  <2>1. Init => skipped \in [Stream -> Nat]
    BY DEF Init
  <2>2. QED
    BY <2>1, BaseInit, OrderInit
<1>2. Base /\ Order /\ skipped \in [Stream -> Nat] /\ [Next]_vars
        => Base' /\ Order' /\ (skipped \in [Stream -> Nat])'
  BY BaseStep, OrderStep, SkippedStep
<1>3. QED
  BY <1>1, <1>2, PTL DEF Spec

\* TypeOK: the types, and with them that the mbufs array, the TX ring, the
\* caches, the pool and the packets of a block are never overrun, and that the
\* NIC never sends a number it has sent before (no stream skips a negative
\* number).
THEOREM SteadyTypes == Spec => []TypeOK
<1>1. Base /\ MbufsConserved => pool <= MBUF_NUM
  <2> SUFFICES ASSUME Base, MbufsConserved PROVE pool <= MBUF_NUM
    OBVIOUS
  <2> DEFINE f == [v \in Worker |-> Held(v)]
             z == [v \in Worker |-> 0]
             n == WorkerNum
  <2>1. n \in Nat /\ Worker = 0 .. n - 1
    BY Workers DEF Worker
  <2>2. \A i \in 0 .. n - 1 : z[i] \in Int /\ f[i] \in Int /\ z[i] <= f[i] /\ z[i] = 0
    <3>1. \A v \in Worker : Held(v) \in Nat
      BY HeldNat DEF Base
    <3>2. QED
      BY <2>1, <3>1
  <2>3. pool + SumBelow(f, n) + RX_DESC_NUM = MBUF_NUM
    BY DEF MbufsConserved
  <2> HIDE DEF f, z, n
  <2>4. SumBelow(z, n) <= SumBelow(f, n) /\ SumBelow(f, n) \in Int
    BY <2>1, <2>2, SumCompare
  <2>5. SumBelow(z, n) = 0
    BY <2>1, <2>2, SumOfZeros
  <2>6. pool \in Nat
    BY DEF Base, SteadyType
  <2>7. QED
    BY <2>3, <2>4, <2>5, <2>6, Sizes
<1>2. (doWork \in BOOLEAN) /\ [Next]_vars => (doWork \in BOOLEAN)'
  <2>1. [Next]_vars => doWork' = FALSE \/ doWork' = doWork
    BY DEF Next, vars, Stop, WorkerStep, CycleCheck, Alloc, Amend, Send, NextBlock, NextUnit,
       Transmit, Exited
  <2>2. QED
    BY <2>1, ZenonT(40)
<1>3. Init => doWork \in BOOLEAN
  BY Zenon DEF Init, QueuesFit
<1>4. Base /\ skipped \in [Stream -> Nat] /\ doWork \in BOOLEAN /\ pool <= MBUF_NUM => TypeOK
  <2> SUFFICES ASSUME Base, skipped \in [Stream -> Nat], doWork \in BOOLEAN, pool <= MBUF_NUM
               PROVE  TypeOK
    OBVIOUS
  <2>1. pool \in 0 .. MBUF_NUM
    BY Sizes DEF Base, SteadyType
  <2>2. \A w \in Worker : /\ Len(txq[w]) + txDone[w] <= TX_DESC_NUM
                          /\ granted[w] + Len(mbufs[w]) <= BURST_SIZE
                          /\ blk[w] <= Len(Blocks(w)) =>
                               sendNum[w] + granted[w] + Len(mbufs[w])
                                 <= Len(Blocks(w)[blk[w]])
    BY Zenon DEF Base, RoomOf, NumBlocks, BlockLen
  <2>3. SteadyType
    BY DEF Base
  <2>4. QED
    BY <2>1, <2>2, <2>3, Zenon DEF SteadyType, TypeOK
<1>5. QED
  BY <1>1, <1>2, <1>3, <1>4, MbufsInvariant, OrderInvariant, PTL DEF Spec

-----------------------------------------------------------------------------
(* The ledger.                                                             *)

\* g is f with n for stream s.
Put(g, f, s, n) == g = [f EXCEPT ![s] = n]

\* A sum over the streams of a worker follows what is put into one of them.
LEMMA OverPut ==
  ASSUME NEW w \in Worker, NEW f \in [Stream -> Int], NEW s \in Stream, NEW n \in Int,
         NEW g, Put(g, f, s, n)
  PROVE  /\ Over(w, f) \in Int
         /\ Mine(w, s) => Over(w, g) = Over(w, f) + (n - f[s])
         /\ ~Mine(w, s) => Over(w, g) = Over(w, f)
<1> DEFINE m == IedNum(w)
           b == BaseIdx(w)
           x == [i \in 0 .. m - 1 |-> f[b + i]]
           y == [i \in 0 .. m - 1 |-> g[b + i]]
<1>1. m \in Nat /\ b \in Nat /\ s \in Nat
  BY Workers DEF Stream
<1>2. \A i \in 0 .. m - 1 : b + i \in Stream /\ Mine(w, b + i)
  BY Jth
<1>3. Over(w, f) = SumBelow(x, m) /\ Over(w, g) = SumBelow(y, m)
  BY DEF Over
<1>4. \A i \in 0 .. m - 1 : x[i] = f[b + i] /\ y[i] = g[b + i]
  OBVIOUS
<1>5. Mine(w, s) <=> b <= s /\ s < b + m
  BY DEF Mine
<1> HIDE DEF m, b, x, y
<1>6. \A i \in 0 .. m - 1 : x[i] \in Int /\ y[i] \in Int /\ (b + i # s => y[i] = x[i])
  BY <1>2, <1>4 DEF Put
<1>7. Over(w, f) \in Int
  <2>1. \A i \in 0 .. m - 1 : x[i] \in Int /\ x[i] <= x[i]
    BY <1>6
  <2>2. QED
    BY <1>1, <1>3, <2>1, SumCompare
<1>8. ASSUME ~Mine(w, s) PROVE Over(w, g) = Over(w, f)
  <2>1. \A i \in 0 .. m - 1 : x[i] \in Int /\ y[i] = x[i]
    BY <1>2, <1>6, <1>8
  <2>2. QED
    BY <1>1, <1>3, <2>1, SumSame
<1>9. ASSUME Mine(w, s) PROVE Over(w, g) = Over(w, f) + (n - f[s])
  <2> DEFINE j == s - b
  <2>1. j \in 0 .. m - 1 /\ b + j = s
    BY <1>1, <1>5, <1>9
  <2> HIDE DEF j
  <2>2. \A i \in 0 .. m - 1 : x[i] \in Int /\ y[i] \in Int
    BY <1>6
  <2>3. \A i \in 0 .. m - 1 : i # j => y[i] = x[i]
    BY <1>1, <1>6, <2>1
  <2>4. SumBelow(y, m) = SumBelow(x, m) + (y[j] - x[j])
    BY <1>1, <2>1, <2>2, <2>3, SumUpdate
  <2>5. y[j] = n /\ x[j] = f[s]
    BY <1>4, <2>1 DEF Put
  <2>6. QED
    BY <1>3, <2>4, <2>5
<1>10. QED
  BY <1>7, <1>8, <1>9

\* The ledger from its parts.
LEMMA LedgerFrom ==
  ASSUME NEW v \in Worker,
         Over(v, ied') = txPktCnt'[v] + errSendCnt'[v] + Len(mbufs'[v]),
         Over(v, wire') - Over(v, skipped') = txPktCnt'[v] - Len(txq'[v])
  PROVE  LedgerOf(v)'
BY Zenon DEF LedgerOf, Over

\* What the ledger is made of.
LEMMA LedgerIs ==
  ASSUME Base, NEW v \in Worker
  PROVE  /\ Over(v, ied) \in Int /\ Over(v, wire) \in Int /\ Over(v, skipped) \in Int
         /\ txPktCnt[v] \in Nat /\ errSendCnt[v] \in Nat
         /\ Len(mbufs[v]) \in Nat /\ Len(txq[v]) \in Nat
<1>1. /\ ied \in [Stream -> Int] /\ wire \in [Stream -> Int] /\ skipped \in [Stream -> Int]
  BY DEF Base, SteadyType
<1>2. ASSUME NEW f \in [Stream -> Int] PROVE Over(v, f) \in Int
  <2> DEFINE s == BaseIdx(v) + 0
             n == f[s]
             g == [f EXCEPT ![s] = n]
  <2>1. IedNum(v) \in Nat \ {0}
    BY Workers
  <2>2. 0 \in 0 .. IedNum(v) - 1
    BY <2>1
  <2>3. s \in Stream
    BY <2>2, Jth
  <2>4. n \in Int
    BY <2>3
  <2>5. Put(g, f, s, n)
    BY DEF Put
  <2> HIDE DEF s, n, g
  <2>6. QED
    BY <2>3, <2>4, <2>5, OverPut
<1>3. QED
  BY <1>1, <1>2, Lengths DEF Base

\* A worker whose numbers, queue and statistics are left alone.
LEMMA LedgerKept ==
  ASSUME NEW v \in Worker, LedgerOf(v), Over(v, ied') = Over(v, ied), Over(v, wire') = Over(v, wire),
         Over(v, skipped') = Over(v, skipped), txPktCnt'[v] = txPktCnt[v],
         errSendCnt'[v] = errSendCnt[v], Len(mbufs'[v]) = Len(mbufs[v]), Len(txq'[v]) = Len(txq[v])
  PROVE  LedgerOf(v)'
<1>1. /\ Over(v, ied) = txPktCnt[v] + errSendCnt[v] + Len(mbufs[v])
      /\ Over(v, wire) - Over(v, skipped) = txPktCnt[v] - Len(txq[v])
  BY DEF LedgerOf
<1>2. /\ Over(v, ied') = txPktCnt'[v] + errSendCnt'[v] + Len(mbufs'[v])
      /\ Over(v, wire') - Over(v, skipped') = txPktCnt'[v] - Len(txq'[v])
  BY <1>1, Zenon
<1>3. QED
  BY <1>2, LedgerFrom

\* The start.
LEMMA LedgerInit == Init => Ledger
<1> SUFFICES ASSUME Init, NEW w \in Worker PROVE LedgerOf(w)
  BY DEF Ledger
<1>1. ASSUME NEW f, f = [s \in Stream |-> 0] PROVE Over(w, f) = 0
  <2> DEFINE n == IedNum(w)
             g == [i \in 0 .. n - 1 |-> f[BaseIdx(w) + i]]
  <2>1. n \in Nat
    BY Workers
  <2>2. \A i \in 0 .. n - 1 : g[i] = 0
    BY <1>1, Jth
  <2>3. Over(w, f) = SumBelow(g, n)
    BY DEF Over
  <2> HIDE DEF n, g
  <2>4. QED
    BY <2>1, <2>2, <2>3, SumOfZeros
<1>2. Over(w, ied) = 0 /\ Over(w, wire) = 0 /\ Over(w, skipped) = 0
  BY <1>1 DEF Init
<1>3. Len(txq[w]) = 0 /\ Len(mbufs[w]) = 0 /\ txPktCnt[w] = 0 /\ errSendCnt[w] = 0
  BY EmptySeq DEF Init
<1>4. QED
  BY <1>2, <1>3 DEF LedgerOf

\* A worker's step keeps its own ledger.
LEMMA LedgerOwn ==
  ASSUME Base, NEW w \in Worker, LedgerOf(w), WorkerStep(w)
  PROVE  LedgerOf(w)'
<1> DEFINE i == Over(w, ied)
           x == Over(w, wire)
           y == Over(w, skipped)
           p == txPktCnt[w]
           e == errSendCnt[w]
           m == Len(mbufs[w])
           q == Len(txq[w])
<1>1. i \in Int /\ x \in Int /\ y \in Int /\ p \in Nat /\ e \in Nat /\ m \in Nat /\ q \in Nat
  BY LedgerIs
<1>2. i = p + e + m /\ x - y = p - q
  BY DEF LedgerOf
<1>3. wire' = wire /\ skipped' = skipped
  BY DEF WorkerStep, CycleCheck, Alloc, Amend, Send, NextBlock, NextUnit, wireVars
<1>4. Over(w, wire') = x /\ Over(w, skipped') = y
  BY <1>3
<1>5. /\ txPktCnt \in [Worker -> Nat] /\ errSendCnt \in [Worker -> Nat]
      /\ mbufs \in [Worker -> Seq(Frame)] /\ txq \in [Worker -> Seq(Frame)]
      /\ ied \in [Stream -> Nat]
  BY DEF Base, SteadyType
<1>6. CASE Amend(w)
  <2>1. PICK s \in Stream, f \in Frame :
           /\ Mine(w, s)
           /\ ied' = [ied EXCEPT ![s] = ied[s] + 1]
           /\ mbufs' = [mbufs EXCEPT ![w] = Append(mbufs[w], f)]
           /\ Len(Append(mbufs[w], f)) = m + 1
    BY <1>6, AmendIs
  <2>2. Len(mbufs'[w]) = m + 1
    BY <1>5, <2>1
  <2>3. txPktCnt'[w] = p /\ errSendCnt'[w] = e /\ Len(txq'[w]) = q
    BY <1>6 DEF Amend, wireVars
  <2>4. Over(w, ied') = i + 1
    <3> DEFINE n == ied[s] + 1
               g == ied'
    <3>1. ied[s] \in Nat /\ n \in Int /\ n - ied[s] = 1 /\ ied \in [Stream -> Int]
      BY <1>5
    <3>2. Put(g, ied, s, n)
      BY <2>1 DEF Put
    <3> HIDE DEF n, g
    <3>3. Over(w, g) = Over(w, ied) + (n - ied[s])
      BY <2>1, <3>1, <3>2, OverPut
    <3>4. QED
      BY <3>1, <3>3 DEF g
  <2> HIDE DEF i, x, y, p, e, m, q
  <2>5. i + 1 = p + e + (m + 1)
    BY <1>1, <1>2
  <2>6. /\ Over(w, ied') = txPktCnt'[w] + errSendCnt'[w] + Len(mbufs'[w])
        /\ Over(w, wire') - Over(w, skipped') = txPktCnt'[w] - Len(txq'[w])
    BY <1>2, <1>4, <2>2, <2>3, <2>4, <2>5, Zenon
  <2>7. QED
    BY <2>6, LedgerFrom
<1>7. CASE Send(w)
  <2>1. PICK nb \in Nat : Sends(w, nb)
    BY <1>7, SendIs
  <2> DEFINE r == txq[w] \o Prefix(mbufs[w], nb)
  <2>2. /\ txq' = [txq EXCEPT ![w] = r] /\ Len(r) = q + nb
        /\ txPktCnt' = [txPktCnt EXCEPT ![w] = p + nb]
        /\ errSendCnt' = [errSendCnt EXCEPT ![w] = e + (m - nb)]
        /\ mbufs' = [mbufs EXCEPT ![w] = << >>] /\ ied' = ied
    BY <2>1 DEF Sends
  <2> HIDE DEF r
  <2>3. Len(<< >>) = 0
    BY EmptySeq
  <2>4. Len(txq'[w]) = q + nb /\ Len(mbufs'[w]) = 0
    BY <1>5, <2>2, <2>3
  <2>5. txPktCnt'[w] = p + nb /\ errSendCnt'[w] = e + (m - nb) /\ Over(w, ied') = i
    BY <1>5, <2>2
  <2> HIDE DEF i, x, y, p, e, m, q
  <2>6. i = (p + nb) + (e + (m - nb)) + 0
    BY <1>1, <1>2
  <2>7. x - y = (p + nb) - (q + nb)
    BY <1>1, <1>2
  <2>8. /\ Over(w, ied') = txPktCnt'[w] + errSendCnt'[w] + Len(mbufs'[w])
        /\ Over(w, wire') - Over(w, skipped') = txPktCnt'[w] - Len(txq'[w])
    BY <1>4, <2>4, <2>5, <2>6, <2>7, Zenon
  <2>9. QED
    BY <2>8, LedgerFrom
<1>8. CASE ~Amend(w) /\ ~Send(w)
  <2>1. UNCHANGED <<ied, txPktCnt, errSendCnt, mbufs, txq>>
    BY <1>8 DEF WorkerStep, CycleCheck, Alloc, NextBlock, NextUnit, wireVars
  <2>2. QED
    BY <1>3, <2>1, LedgerKept
<1>9. QED
  BY <1>6, <1>7, <1>8

\* So does sending a frame.
LEMMA LedgerTransmit ==
  ASSUME Base, Order, NEW w \in Worker, Transmit(w), NEW v \in Worker, LedgerOf(v)
  PROVE  LedgerOf(v)'
<1>1. /\ txq \in [Worker -> Seq(Frame)] /\ txq[w] # << >> /\ txq' = [txq EXCEPT ![w] = Tail(txq[w])]
      /\ UNCHANGED <<ied, mbufs, txPktCnt, errSendCnt>>
      /\ wire \in [Stream -> Nat] /\ skipped \in [Stream -> Int]
  BY DEF Transmit, workerVars, Base, SteadyType
<1>2. PICK s \in Stream, n \in Nat :
           /\ Mine(w, s)
           /\ wire' = [wire EXCEPT ![s] = n]
           /\ skipped' = [skipped EXCEPT ![s] = skipped[s] + (n - wire[s] - 1)]
  BY OrderTransmit DEF Order
<1> DEFINE x == Over(v, wire)
           y == Over(v, skipped)
           l == n - wire[s] - 1
           z == skipped[s] + l
           g == wire'
           h == skipped'
<1>3. /\ wire[s] \in Nat /\ skipped[s] \in Int /\ n \in Int /\ z \in Int /\ l \in Int
      /\ z - skipped[s] = l /\ n - wire[s] = l + 1 /\ wire \in [Stream -> Int]
  BY <1>1
<1>4. Put(g, wire, s, n) /\ Put(h, skipped, s, z)
  BY <1>2 DEF Put
<1> HIDE DEF x, y, z, g, h, l
<1>5. /\ Mine(v, s) => Over(v, g) = Over(v, wire) + (n - wire[s])
      /\ ~Mine(v, s) => Over(v, g) = Over(v, wire)
  BY <1>3, <1>4, OverPut
<1>6. /\ Mine(v, s) => Over(v, h) = Over(v, skipped) + (z - skipped[s])
      /\ ~Mine(v, s) => Over(v, h) = Over(v, skipped)
  <2>1. skipped \in [Stream -> Int] /\ z \in Int /\ Put(h, skipped, s, z)
    BY <1>1, <1>3, <1>4
  <2>2. QED
    BY <2>1, OverPut
<1>7. CASE v # w
  <2>1. ~Mine(v, s)
    BY <1>2, <1>7, Workers
  <2>2. Over(v, wire') = Over(v, wire) /\ Over(v, skipped') = Over(v, skipped)
    BY <1>5, <1>6, <2>1 DEF g, h
  <2>3. txq'[v] = txq[v]
    BY <1>1, <1>7
  <2>4. QED
    BY <1>1, <2>2, <2>3, LedgerKept
<1>8. CASE v = w
  <2> DEFINE i == Over(v, ied)
             p == txPktCnt[v]
             e == errSendCnt[v]
             m == Len(mbufs[v])
             q == Len(txq[v])
  <2>1. x \in Int /\ y \in Int /\ p \in Nat /\ q \in Nat
    BY LedgerIs DEF x, y
  <2>2. i = p + e + m /\ x - y = p - q
    BY DEF LedgerOf, x, y
  <2>3. Over(v, wire') = x + (l + 1) /\ Over(v, skipped') = y + l
    BY <1>2, <1>3, <1>5, <1>6, <1>8 DEF g, h, x, y
  <2>4. Len(txq'[v]) = q - 1
    <3>1. Len(Tail(txq[w])) = Len(txq[w]) - 1
      BY <1>1, HeadTailProperties
    <3>2. QED
      BY <1>1, <1>8, <3>1
  <2>5. Over(v, ied') = i /\ txPktCnt'[v] = p /\ errSendCnt'[v] = e /\ Len(mbufs'[v]) = m
    BY <1>1
  <2> HIDE DEF i, p, e, m, q
  <2>6. (x + (l + 1)) - (y + l) = p - (q - 1)
    BY <1>3, <2>1, <2>2
  <2>7. /\ Over(v, ied') = txPktCnt'[v] + errSendCnt'[v] + Len(mbufs'[v])
        /\ Over(v, wire') - Over(v, skipped') = txPktCnt'[v] - Len(txq'[v])
    BY <2>2, <2>3, <2>4, <2>5, <2>6, Zenon
  <2>8. QED
    BY <2>7, LedgerFrom
<1>9. QED
  BY <1>7, <1>8

\* Only a worker's own streams matter for its sums.
LEMMA OverSame ==
  ASSUME NEW v \in Worker, NEW f \in [Stream -> Int], NEW g,
         \A s \in Stream : Mine(v, s) => g[s] = f[s]
  PROVE  Over(v, g) = Over(v, f)
<1>1. [i \in 0 .. IedNum(v) - 1 |-> g[BaseIdx(v) + i]]
        = [i \in 0 .. IedNum(v) - 1 |-> f[BaseIdx(v) + i]]
  BY Jth
<1>2. QED
  BY <1>1 DEF Over

\* Every step keeps the ledgers.
LEMMA LedgerStep ==
  ASSUME Base, Order, Ledger, [Next]_vars
  PROVE  Ledger'
<1> SUFFICES ASSUME NEW v \in Worker PROVE LedgerOf(v)'
  BY DEF Ledger, Worker, WorkerNum
<1>1. LedgerOf(v)
  BY DEF Ledger
<1>2. ASSUME UNCHANGED <<ied, wire, skipped, txPktCnt, errSendCnt, mbufs, txq>> PROVE LedgerOf(v)'
  BY <1>1, <1>2, LedgerKept
<1>3. ASSUME NEW w \in Worker, WorkerStep(w) PROVE LedgerOf(v)'
  <2>1. CASE v = w
    BY <1>1, <1>3, <2>1, LedgerOwn
  <2>2. CASE v # w
    <3>1. /\ txq'[v] = txq[v] /\ mbufs'[v] = mbufs[v]
          /\ txPktCnt'[v] = txPktCnt[v] /\ errSendCnt'[v] = errSendCnt[v]
      BY <1>3, <2>2, BaseWorkerStep DEF OthersKept
    <3>2. wire' = wire /\ skipped' = skipped
      BY <1>3 DEF WorkerStep, CycleCheck, Alloc, Amend, Send, NextBlock, NextUnit, wireVars
    <3>3. Over(v, ied') = Over(v, ied)
      <4>1. \A s \in Stream : Mine(v, s) => ied'[s] = ied[s]
        BY <1>3, <2>2, IedKept
      <4>2. ied \in [Stream -> Int]
        BY DEF Base, SteadyType
      <4>3. QED
        BY <4>1, <4>2, OverSame
    <3>4. QED
      BY <1>1, <3>1, <3>2, <3>3, LedgerKept
  <2>3. QED
    BY <2>1, <2>2
<1>4. CASE \E w \in Worker : Transmit(w)
  BY <1>1, <1>4, LedgerTransmit
<1>5. CASE Stop
  BY <1>2, <1>5 DEF Stop, workerVars, wireVars
<1>6. CASE UNCHANGED vars
  BY <1>2, <1>6 DEF vars, workerVars, wireVars
<1>7. QED
  BY <1>3, <1>4, <1>5, <1>6 DEF Next, Exited

\* There are numbers for all pending frames.
LEMMA RoomForPending ==
  ASSUME Base, NEW w \in Worker, OrderOf(w)
  PROVE  Over(w, wire) + (Len(txq[w]) + Len(mbufs[w])) <= Over(w, ied)
<1> DEFINE n == IedNum(w)
           b == BaseIdx(w)
           q == Pending(w)
           k == Len(q)
           f == [i \in 0 .. n - 1 |-> wire[b + i]]
           g == [i \in 0 .. n - 1 |-> Count(q, k, b + i)]
           h == [i \in 0 .. n - 1 |-> ied[b + i]]
           t == [i \in 0 .. n - 1 |-> wire[b + i] + Count(q, k, b + i)]
<1>1. n \in Nat /\ b \in Nat /\ wire \in [Stream -> Nat] /\ ied \in [Stream -> Nat]
  BY Workers DEF Base, SteadyType
<1>2. k \in Nat /\ k = Len(txq[w]) + Len(mbufs[w])
  BY PendingIs DEF Base
<1>3. \A i \in 0 .. n - 1 : b + i \in Stream /\ Mine(w, b + i)
  BY Jth
<1>4. Own(q, k, w) /\ Below(q, k, w, wire, ied)
  BY DEF OrderOf, Ordered
<1>5. \A s \in Stream : Mine(w, s) => s \in b .. b + n - 1
  BY <1>1, Workers DEF Mine, Stream
<1>6. Over(w, wire) = SumBelow(f, n) /\ Over(w, ied) = SumBelow(h, n)
  BY DEF Over
<1> HIDE DEF q, k, n, b
<1>7. Within(q, k, b, n)
  BY <1>4, <1>5 DEF Within, Own
<1>8. CountsOf(g, q, k, b, n)
  BY Zenon DEF CountsOf
<1>9. ASSUME NEW i \in 0 .. n - 1
      PROVE  /\ f[i] \in Int /\ g[i] \in Int /\ t[i] = f[i] + g[i]
             /\ t[i] \in Int /\ h[i] \in Int /\ t[i] <= h[i]
  <2>1. Count(q, k, b + i) \in Nat
    BY <1>2, CountNat
  <2>2. wire[b + i] \in Nat /\ ied[b + i] \in Nat /\ wire[b + i] + Count(q, k, b + i) <= ied[b + i]
    BY <1>1, <1>3, <1>4, <1>9 DEF Below
  <2>3. QED
    BY <2>1, <2>2
<1> HIDE DEF f, g, h, t
<1>10. SumBelow(g, n) = k
  BY <1>1, <1>2, <1>7, <1>8, SumOfCounts
<1>11. SumBelow(t, n) = SumBelow(f, n) + SumBelow(g, n)
  BY <1>1, <1>9, SumPlus
<1>12. SumBelow(t, n) <= SumBelow(h, n)
  BY <1>1, <1>9, SumCompare
<1>13. QED
  BY <1>2, <1>6, <1>10, <1>11, <1>12

\* GapsAreCounted: the numbers given out are those the queue took, those it did
\* not take and those of the chunk at hand, and no more numbers are skipped on
\* the wire than err_send tells, so that err_send = 0 means that the generator
\* made no gap, whatever the queues, the pool and a stop did.
THEOREM SteadyCountsGaps == Spec => []GapsAreCounted
<1>1. Init => Base /\ Order /\ Ledger
  BY BaseInit, OrderInit, LedgerInit
<1>2. Base /\ Order /\ Ledger /\ [Next]_vars => Base' /\ Order' /\ Ledger'
  BY BaseStep, OrderStep, LedgerStep
<1>3. Base /\ Order /\ Ledger => GapsAreCounted
  <2> SUFFICES ASSUME Base, Order, Ledger, NEW w \in Worker
               PROVE  /\ Over(w, skipped) <= errSendCnt[w]
                      /\ Over(w, ied) = txPktCnt[w] + errSendCnt[w] + Len(mbufs[w])
    BY Zenon DEF GapsAreCounted, Over
  <2> DEFINE i == Over(w, ied)
             x == Over(w, wire)
             y == Over(w, skipped)
             p == txPktCnt[w]
             e == errSendCnt[w]
             m == Len(mbufs[w])
             q == Len(txq[w])
  <2>1. i \in Int /\ x \in Int /\ y \in Int /\ p \in Nat /\ e \in Nat /\ m \in Nat /\ q \in Nat
    BY LedgerIs
  <2>2. i = p + e + m /\ x - y = p - q
    BY DEF Ledger, LedgerOf
  <2>3. x + (q + m) <= i
    BY RoomForPending DEF Order
  <2> HIDE DEF i, x, y, p, e, m, q
  <2>4. y <= e
    BY <2>1, <2>2, <2>3
  <2>5. QED
    BY <2>2, <2>4 DEF i, y, p, e, m
<1>4. QED
  BY <1>1, <1>2, <1>3, PTL DEF Spec
=============================================================================
