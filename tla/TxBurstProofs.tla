---------------------------- MODULE TxBurstProofs ----------------------------
(***************************************************************************)
(* Proofs about burst mode, for every number of streams, lcores and        *)
(* descriptors, every pool and every frequency.                            *)
(*                                                                         *)
(* The inductive invariant says of every worker w: what it may hold        *)
(* (RoomOf, PhaseOf), that its frames are of its own slice (OwnOf), that   *)
(* the ring followed by the staged frames numbers every stream without a   *)
(* gap from what is on the wire (ChainOf) up to what was given out         *)
(* (GivenOf), how far the plan is (CadenceOf) and what was counted         *)
(* (CountOf); and that no mbuf is lost (MbufsConserved).                   *)
(***************************************************************************)
EXTENDS TxBurst, NumberFacts, SequenceTheorems

\* Stream s is in the slice of worker w.
Mine(w, s) == BaseIdx(w) <= s /\ s < BaseIdx(w) + IedNum(w)

BurstType ==
  /\ freq \in Freqs
  /\ pool \in Nat
  /\ cache \in [Worker -> 0 .. CACHE_NUM]
  /\ wpc \in [Worker -> {"top", "stage", "fire", "done"}]
  /\ granted \in [Worker -> 0 .. BURST_SIZE]
  /\ staged \in [Worker -> Seq(Frame)]
  /\ ied \in [Stream -> Nat]
  /\ txq \in [Worker -> Seq(Frame)]
  /\ txDone \in [Worker -> Nat]
  /\ txPktCnt \in [Worker -> Nat]
  /\ bursts \in [Worker -> 0 .. MaxBursts]
  /\ wire \in [Stream -> Nat]

RoomOf(w) ==
  /\ Len(txq[w]) + txDone[w] <= TX_DESC_NUM
  /\ granted[w] + Len(staged[w]) <= Total(w)

PhaseOf(w) ==
  /\ wpc[w] # "stage" => granted[w] = 0
  /\ wpc[w] \in {"top", "done"} => staged[w] = << >>
  /\ wpc[w] = "stage" => bursts[w] >= 1

\* The ring and then the staged frames: what is still to be sent, in order.
Pending(w) == txq[w] \o staged[w]

OwnOf(w) == \A i \in 1 .. Len(Pending(w)) : Mine(w, Pending(w)[i].s)

\* The i-th frame of q has the number that follows, in its stream, on those of
\* the frames before it; the first ones follow on b.
Ranked(q, k, b) == \A i \in 1 .. k : q[i].n = b[q[i].s] + Count(q, i, q[i].s)

ChainOf(w) == Ranked(Pending(w), Len(Pending(w)), wire)

\* Until the worker drops staged frames, everything given out is on the wire or
\* pending.
GivenOf(w) ==
  doWork \/ wpc[w] = "stage" =>
    \A s \in Stream : Mine(w, s) => ied[s] = wire[s] + Count(Pending(w), Len(Pending(w)), s)

\* The streams of w have been given r frames and the first l of a plan.
Spread(i, w, r, l) ==
  \A j \in 0 .. IedNum(w) - 1 : i[BaseIdx(w) + j] = r + Reps(l, IedNum(w), j)

CadenceOf(w) ==
  doWork => IF wpc[w] = "stage"
              THEN Spread(ied, w, (bursts[w] - 1) * freq, Len(staged[w]))
              ELSE Spread(ied, w, bursts[w] * freq, 0)

OnWire(w) == SumBelow([i \in 0 .. IedNum(w) - 1 |-> wire[BaseIdx(w) + i]], IedNum(w))

CountOf(w) ==
  OnWire(w) + Len(txq[w])
    = txPktCnt[w] + (IF wpc[w] = "fire" THEN Total(w) - Len(staged[w]) ELSE 0)

Base == BurstType /\ \A w \in Worker : RoomOf(w) /\ PhaseOf(w)
Chain == \A w \in Worker : OwnOf(w) /\ ChainOf(w) /\ GivenOf(w)
Cadence == \A w \in Worker : CadenceOf(w)
Counted == \A w \in Worker : CountOf(w)

-----------------------------------------------------------------------------
(* The workers and their slices.                                           *)

\* The streams are divided over the workers.
LEMMA Workers ==
  /\ WorkerNum \in Nat \ {0}
  /\ StreamNum \in Nat
  /\ \A w \in Worker : /\ BaseIdx(w) \in Nat /\ IedNum(w) \in Nat \ {0}
                       /\ BaseIdx(w) + IedNum(w) <= StreamNum
                       /\ \A s \in Nat : Mine(w, s) => s \in Stream
                       /\ \A v \in Worker, s \in Stream : Mine(w, s) /\ Mine(v, s) => v = w
  /\ \A s \in Stream : \E w \in Worker : Mine(w, s)
<1>1. WorkerNum \in Nat \ {0} /\ WorkerNum <= StreamNum /\ StreamNum \in Nat
  BY TxAssumption DEF WorkerNum, Least
<1>2. Worker = 0 .. WorkerNum - 1 /\ Stream = 0 .. StreamNum - 1
  BY DEF Worker, Stream
<1>3. ASSUME NEW w \in Worker
      PROVE  /\ BaseIdx(w) \in Nat /\ IedNum(w) \in Nat \ {0}
             /\ BaseIdx(w) + IedNum(w) <= StreamNum
             /\ \A s \in Nat : Mine(w, s) => s \in Stream
             /\ \A s \in Nat : Mine(w, s) <=> InSlice(StreamNum, WorkerNum, w, s)
  <2> DEFINE lo == IedSlice(StreamNum, WorkerNum, w).lo
             hi == IedSlice(StreamNum, WorkerNum, w).hi
  <2>1. lo \in Nat /\ hi \in Nat /\ lo < hi /\ hi <= StreamNum
    BY <1>1, <1>2, SlicesDivide
  <2>2. BaseIdx(w) = lo /\ IedNum(w) = hi - lo
    BY DEF BaseIdx, IedNum
  <2>3. \A s \in Nat : InSlice(StreamNum, WorkerNum, w, s) <=> lo <= s /\ s < hi
    BY DEF InSlice
  <2> HIDE DEF lo, hi
  <2>4. QED
    BY <1>1, <1>2, <2>1, <2>2, <2>3 DEF Mine
<1>4. \A s \in Stream : s \in Nat /\ s \in 0 .. StreamNum - 1
  BY <1>1, <1>2
<1>5. ASSUME NEW w \in Worker, NEW v \in Worker, NEW s \in Stream, Mine(w, s), Mine(v, s)
      PROVE  v = w
  <2>1. InSlice(StreamNum, WorkerNum, w, s) /\ InSlice(StreamNum, WorkerNum, v, s)
    BY <1>3, <1>4, <1>5
  <2>2. QED
    BY <1>1, <1>2, <1>4, <2>1, SlicesDivide
<1>6. ASSUME NEW s \in Stream PROVE \E w \in Worker : Mine(w, s)
  <2>1. PICK w \in Worker : InSlice(StreamNum, WorkerNum, w, s)
    BY <1>1, <1>2, <1>4, SlicesDivide
  <2>2. QED
    BY <1>3, <1>4, <2>1
<1>7. QED
  BY <1>1, <1>3, <1>5, <1>6

\* The sizes of the run.
LEMMA Sizes ==
  /\ BURST_SIZE \in Nat \ {0} /\ TX_DESC_NUM \in Nat \ {0} /\ RX_DESC_NUM \in Nat
  /\ CACHE_NUM \in Nat /\ MBUF_NUM \in Nat /\ RX_DESC_NUM <= MBUF_NUM
  /\ \A f \in Freqs : f \in Nat \ {0}
  /\ MaxBursts \in Nat
BY TxAssumption, BurstAssumption

-----------------------------------------------------------------------------
(* Sequences of frames.                                                    *)

\* A part from the front is ranked too.
LEMMA RankedFront ==
  ASSUME NEW q, NEW r, NEW b, NEW k \in Nat, NEW m \in Nat,
         m <= k, \A i \in 1 .. m : r[i] = q[i], Ranked(q, k, b)
  PROVE  Ranked(r, m, b)
<1> SUFFICES ASSUME NEW i \in 1 .. m PROVE r[i].n = b[r[i].s] + Count(r, i, r[i].s)
  BY DEF Ranked
<1>1. i \in Nat /\ i \in 1 .. k /\ r[i] = q[i]
  OBVIOUS
<1>2. Alike(r, q, i)
  BY <1>1 DEF Alike
<1>3. Count(r, i, r[i].s) = Count(q, i, r[i].s)
  BY <1>1, <1>2, CountSame
<1>4. q[i].n = b[q[i].s] + Count(q, i, q[i].s)
  BY <1>1 DEF Ranked
<1>5. QED
  BY <1>1, <1>3, <1>4

\* A frame that follows on its stream can be appended.
LEMMA RankedAppend ==
  ASSUME NEW q, NEW r, NEW b, NEW k \in Nat, NEW s, NEW n, b[s] \in Nat,
         \A i \in 1 .. k : r[i] = q[i], r[k + 1].s = s, r[k + 1].n = n,
         Ranked(q, k, b), n = b[s] + Count(q, k, s) + 1
  PROVE  Ranked(r, k + 1, b)
<1> SUFFICES ASSUME NEW i \in 1 .. k + 1 PROVE r[i].n = b[r[i].s] + Count(r, i, r[i].s)
  BY DEF Ranked
<1>1. CASE i <= k
  <2>1. i \in Nat /\ i \in 1 .. k /\ r[i] = q[i] /\ Alike(r, q, i)
    BY <1>1 DEF Alike
  <2>2. Count(r, i, r[i].s) = Count(q, i, r[i].s)
    BY <2>1, CountSame
  <2>3. q[i].n = b[q[i].s] + Count(q, i, q[i].s)
    BY <2>1 DEF Ranked
  <2>4. QED
    BY <2>1, <2>2, <2>3
<1>2. CASE i = k + 1
  <2>1. Alike(r, q, k)
    BY DEF Alike
  <2>2. Count(r, k, s) = Count(q, k, s)
    BY <2>1, CountSame
  <2>3. Count(r, k + 1, s) = Count(r, k, s) + 1 /\ Count(r, k, s) \in Nat
    BY CountHit, CountNat
  <2>4. n = b[s] + Count(r, k + 1, s)
    BY <2>2, <2>3
  <2>5. QED
    BY <1>2, <2>4
<1>3. QED
  BY <1>1, <1>2

\* r is what is left of the k + 1 frames of q without the first, number n of s.
Popped(r, q, k, s, n) ==
  /\ q[1].s = s /\ q[1].n = n
  /\ \A i \in 1 .. k + 1 : q[i].s \in Stream
  /\ \A i \in 1 .. k : r[i] = q[i + 1]

\* That frame followed on b, the others follow on it, and no number is left out.
FollowedBy(r, c, q, b, k, s, n) ==
  /\ n = b[s] + 1
  /\ Ranked(r, k, c)
  /\ \A x \in Stream : b[x] + Count(q, k + 1, x) = c[x] + Count(r, k, x)

\* The first frame has the number that follows on b; without it the others
\* follow on it.
LEMMA RankedTail ==
  ASSUME NEW q, NEW r, NEW b, NEW c, NEW k \in Nat, NEW s, NEW n,
         b \in [Stream -> Nat], c = [b EXCEPT ![s] = n],
         Popped(r, q, k, s, n), Ranked(q, k + 1, b)
  PROVE  FollowedBy(r, c, q, b, k, s, n)
<1> USE DEF Popped
<1>1. s \in Stream /\ b[s] \in Nat /\ 1 \in 1 .. k + 1
  OBVIOUS
<1>2. n = b[s] + 1
  <2>1. n = b[s] + Count(q, 1, s)
    BY <1>1 DEF Ranked
  <2>2. q[1].s = s /\ 1 = 0 + 1 /\ 0 \in Nat
    OBVIOUS
  <2>3. Count(q, 0, s) = 0 /\ Count(q, 1, s) = Count(q, 0, s) + 1
    BY <2>2, CountHit, CountNat
  <2>4. Count(q, 1, s) = 1
    BY <2>3
  <2>5. QED
    BY <2>1, <2>4
<1>3. ASSUME NEW i \in 1 .. k PROVE r[i].n = c[r[i].s] + Count(r, i, r[i].s)
  <2> DEFINE x == r[i].s
  <2>1. i \in Nat /\ i + 1 \in 1 .. k + 1 /\ r[i] = q[i + 1] /\ x = q[i + 1].s
    OBVIOUS
  <2>2. x \in Stream /\ b[x] \in Nat
    BY <2>1
  <2>3. r[i].n = b[x] + Count(q, i + 1, x)
    BY <2>1 DEF Ranked
  <2>4. Shifted(r, q, i)
    BY <2>1 DEF Shifted
  <2> HIDE DEF x
  <2>5. /\ q[1].s = x => Count(q, i + 1, x) = Count(r, i, x) + 1
        /\ q[1].s # x => Count(q, i + 1, x) = Count(r, i, x)
    BY <2>1, <2>4, CountFirst
  <2>6. Count(r, i, x) \in Nat
    BY <2>1, CountNat
  <2>7. (x = s => c[x] = b[x] + 1) /\ (x # s => c[x] = b[x])
    BY <1>1, <1>2, <2>2
  <2>8. r[i].n = c[x] + Count(r, i, x)
    BY <2>2, <2>3, <2>5, <2>6, <2>7
  <2>9. QED
    BY <2>8 DEF x
<1>4. Ranked(r, k, c)
  BY <1>3 DEF Ranked
<1>5. ASSUME NEW x \in Stream PROVE b[x] + Count(q, k + 1, x) = c[x] + Count(r, k, x)
  <2>1. Shifted(r, q, k)
    BY DEF Shifted
  <2>2. /\ q[1].s = x => Count(q, k + 1, x) = Count(r, k, x) + 1
        /\ q[1].s # x => Count(q, k + 1, x) = Count(r, k, x)
    BY <2>1, CountFirst
  <2>3. Count(r, k, x) \in Nat /\ b[x] \in Nat
    BY CountNat
  <2>4. (x = s => c[x] = b[x] + 1) /\ (x # s => c[x] = b[x])
    BY <1>1, <1>2
  <2>5. QED
    BY <2>2, <2>3, <2>4
<1>6. QED
  BY <1>2, <1>4, <1>5 DEF FollowedBy

\* What Prefix and Rest are.
LEMMA PrefixRest ==
  ASSUME NEW S, NEW q \in Seq(S), NEW k \in Nat, k <= Len(q)
  PROVE  /\ Prefix(q, k) \in Seq(S) /\ Len(Prefix(q, k)) = k
         /\ \A i \in 1 .. k : Prefix(q, k)[i] = q[i]
         /\ Rest(q, k) \in Seq(S) /\ Len(Rest(q, k)) = Len(q) - k
         /\ \A i \in 1 .. Len(q) - k : Rest(q, k)[i] = q[k + i]
<1>1. 1 \in 1 .. Len(q) + 1 /\ k \in 0 .. Len(q) /\ k + 1 \in 1 .. Len(q) + 1
  OBVIOUS
<1>2. SubSeq(q, 1, k) \in Seq(S) /\ Len(SubSeq(q, 1, k)) = k
  BY <1>1, SubSeqProperties
<1>3. \A i \in 1 .. k : SubSeq(q, 1, k)[i] = q[i]
  BY <1>1, SubSeqProperties
<1>4. SubSeq(q, k + 1, Len(q)) \in Seq(S) /\ Len(SubSeq(q, k + 1, Len(q))) = Len(q) - k
  BY <1>1, SubSeqProperties
<1>5. \A i \in 1 .. Len(q) - k : SubSeq(q, k + 1, Len(q))[i] = q[k + i]
  BY <1>1, <1>4
<1>6. QED
  BY <1>2, <1>3, <1>4, <1>5 DEF Prefix, Rest

-----------------------------------------------------------------------------
(* Types, room and phases.                                                 *)

\* Freeing into the cache does not overfill it.
LEMMA Freed ==
  ASSUME NEW c \in 0 .. CACHE_NUM, NEW num \in Nat
  PROVE  /\ FreeToCache(c, num) \in Nat /\ FreeToCache(c, num) <= num
         /\ c + FreeToCache(c, num) \in 0 .. CACHE_NUM
BY Sizes DEF FreeToCache, Least

\* The parts of a burst.
LEMMA BurstSize ==
  ASSUME BurstType, NEW w \in Worker
  PROVE  /\ freq \in Nat \ {0} /\ Total(w) \in Nat /\ Total(w) = IedNum(w) * freq
         /\ Len(txq[w]) \in Nat /\ Len(staged[w]) \in Nat
<1>1. freq \in Nat \ {0} /\ IedNum(w) \in Nat
  BY Sizes, Workers DEF BurstType
<1>2. txq[w] \in Seq(Frame) /\ staged[w] \in Seq(Frame)
  BY DEF BurstType
<1>3. QED
  BY <1>1, <1>2 DEF Total

\* Which frame Amend makes: the next of the plan.
LEMMA Planned ==
  ASSUME Base, NEW w \in Worker, granted[w] > 0
  PROVE  /\ MakeBurstPlan(IedNum(w), freq)[Len(staged[w]) + 1] = Len(staged[w]) % IedNum(w)
         /\ Len(staged[w]) % IedNum(w) \in 0 .. IedNum(w) - 1
         /\ BaseIdx(w) + (Len(staged[w]) % IedNum(w)) \in Stream
         /\ Mine(w, BaseIdx(w) + (Len(staged[w]) % IedNum(w)))
<1> DEFINE k == IedNum(w)
           n == Len(staged[w])
<1>1. /\ k \in Nat \ {0} /\ BaseIdx(w) \in Nat /\ BaseIdx(w) + k <= StreamNum /\ StreamNum \in Nat
      /\ n \in Nat /\ freq \in Nat /\ k * freq \in Nat
  BY Workers, BurstSize DEF Base
<1>2. n + 1 <= k * freq
  <2>1. granted[w] \in Nat /\ granted[w] + n <= k * freq
    BY Sizes DEF Base, BurstType, RoomOf, Total
  <2>2. QED
    BY <1>1, <2>1
<1>3. n % k \in 0 .. k - 1
  <2> HIDE DEF k, n
  <2>1. n % k \in Nat /\ n % k < k
    BY <1>1, DivMod
  <2>2. QED
    BY <1>1, <2>1
<1>4. n + 1 \in 1 .. k * freq
  BY <1>1, <1>2
<1>5. MakeBurstPlan(k, freq)[n + 1] = (n + 1 - 1) % k
  BY <1>4 DEF MakeBurstPlan
<1>6. n + 1 - 1 = n
  BY <1>1
<1> HIDE DEF k, n
<1>7. MakeBurstPlan(k, freq)[n + 1] = n % k
  BY <1>5, <1>6
<1>8. BaseIdx(w) + (n % k) \in Stream /\ Mine(w, BaseIdx(w) + (n % k))
  <2> DEFINE m == n % k
  <2>1. m \in 0 .. k - 1
    BY <1>3
  <2> HIDE DEF m
  <2>2. BaseIdx(w) + m \in Stream /\ Mine(w, BaseIdx(w) + m)
    BY <1>1, <2>1 DEF Stream, Mine, k
  <2>3. QED
    BY <2>2 DEF m
<1>9. QED
  BY <1>3, <1>7, <1>8 DEF k, n

\* The invariant holds at the start.
LEMMA BaseInit == Init => Base
<1> SUFFICES ASSUME Init PROVE Base
  OBVIOUS
<1>1. << >> \in Seq(Frame) /\ Len(<< >>) = 0
  BY EmptySeq
<1>2. BurstType
  <2>1. wpc \in [Worker -> {"top", "stage", "fire", "done"}]
    BY DEF Init
  <2>2. QED
    BY <1>1, <2>1, Sizes DEF Init, BurstType
<1>3. ASSUME NEW w \in Worker PROVE RoomOf(w) /\ PhaseOf(w)
  <2>1. /\ txq[w] = << >> /\ staged[w] = << >> /\ granted[w] = 0 /\ txDone[w] = 0
        /\ (wpc[w] = "top" \/ wpc[w] = "done")
    BY DEF Init
  <2>2. Total(w) \in Nat
    BY <1>2, BurstSize
  <2>3. QED
    BY <1>1, <2>1, <2>2, Sizes DEF RoomOf, PhaseOf
<1>4. QED
  BY <1>2, <1>3 DEF Base

\* Another worker's steps leave a worker's room and phase alone.
LEMMA BaseOther ==
  ASSUME NEW v \in Worker, RoomOf(v) /\ PhaseOf(v), freq' = freq,
         txq'[v] = txq[v], txDone'[v] = txDone[v], granted'[v] = granted[v],
         staged'[v] = staged[v], wpc'[v] = wpc[v], bursts'[v] = bursts[v]
  PROVE  RoomOf(v)' /\ PhaseOf(v)'
BY DEF RoomOf, PhaseOf, Total

\* Transmit and the invariant.
LEMMA BaseTransmit ==
  ASSUME Base, NEW w \in Worker, Transmit(w)
  PROVE  Base'
<1> DEFINE q == txq[w]
<1>1. q \in Seq(Frame) /\ q # << >>
  BY DEF Base, BurstType, Transmit
<1>2. /\ Head(q) \in Frame /\ Tail(q) \in Seq(Frame) /\ Len(Tail(q)) = Len(q) - 1
      /\ Len(q) \in Nat \ {0}
  BY <1>1, HeadTailProperties, EmptySeq
<1>3. Head(q).s \in Stream /\ Head(q).n \in Nat
  BY <1>2 DEF Frame
<1>4. /\ wire' = [wire EXCEPT ![Head(q).s] = Head(q).n]
      /\ txq' = [txq EXCEPT ![w] = Tail(q)]
      /\ txDone' = [txDone EXCEPT ![w] = txDone[w] + 1]
      /\ UNCHANGED <<freq, doWork, pool, cache, wpc, granted, staged, ied, txPktCnt, bursts>>
  BY DEF Transmit, workerVars
<1> HIDE DEF q
<1>5. BurstType'
  <2>1. wire' \in [Stream -> Nat]
    BY <1>3, <1>4 DEF Base, BurstType
  <2>2. txq' \in [Worker -> Seq(Frame)] /\ txDone' \in [Worker -> Nat]
    BY <1>2, <1>4 DEF Base, BurstType
  <2>3. QED
    BY <1>4, <2>1, <2>2 DEF Base, BurstType
<1>6. ASSUME NEW v \in Worker PROVE RoomOf(v)' /\ PhaseOf(v)'
  <2>1. CASE v = w
    <3>1. txq'[w] = Tail(q) /\ txDone'[w] = txDone[w] + 1 /\ txDone[w] \in Nat
      BY <1>4 DEF Base, BurstType
    <3>2. Len(q) + txDone[w] <= TX_DESC_NUM
      BY DEF Base, RoomOf, q
    <3>3. Len(txq'[w]) + txDone'[w] <= TX_DESC_NUM
      BY <1>2, <3>1, <3>2, Sizes
    <3>4. granted'[w] + Len(staged'[w]) <= Total(w)'
      BY <1>4 DEF Base, RoomOf, Total
    <3>5. QED
      BY <1>4, <2>1, <3>3, <3>4 DEF Base, RoomOf, PhaseOf
  <2>2. CASE v # w
    BY <1>4, <2>2, BaseOther DEF Base, BurstType
  <2>3. QED
    BY <2>1, <2>2
<1>7. QED
  BY <1>5, <1>6 DEF Base

\* CycleCheck and the invariant.
LEMMA BaseCycleCheck ==
  ASSUME Base, NEW w \in Worker, CycleCheck(w)
  PROVE  Base'
<1>1. /\ wpc[w] = "top" /\ staged[w] = << >> /\ granted[w] = 0
      /\ UNCHANGED <<freq, doWork, pool, cache, granted, staged, ied, txPktCnt, txq, txDone, wire>>
      /\ \/ /\ bursts[w] < MaxBursts
            /\ wpc' = [wpc EXCEPT ![w] = "stage"]
            /\ bursts' = [bursts EXCEPT ![w] = bursts[w] + 1]
         \/ wpc' = [wpc EXCEPT ![w] = "done"] /\ bursts' = bursts
  BY DEF Base, PhaseOf, CycleCheck
<1>2. BurstType'
  <2>1. bursts' \in [Worker -> 0 .. MaxBursts]
    <3>1. bursts \in [Worker -> 0 .. MaxBursts] /\ MaxBursts \in Nat
      BY Sizes DEF Base, BurstType
    <3>2. bursts[w] < MaxBursts => bursts[w] + 1 \in 0 .. MaxBursts
      BY <3>1
    <3>3. QED
      BY <1>1, <3>1, <3>2
  <2>2. wpc' \in [Worker -> {"top", "stage", "fire", "done"}]
    BY <1>1 DEF Base, BurstType
  <2>3. QED
    BY <1>1, <2>1, <2>2 DEF Base, BurstType
<1>3. ASSUME NEW v \in Worker PROVE RoomOf(v)' /\ PhaseOf(v)'
  <2>1. CASE v = w
    <3>1. bursts[w] \in Nat
      BY DEF Base, BurstType
    <3>2. (wpc'[w] = "stage" /\ bursts'[w] = bursts[w] + 1) \/ wpc'[w] = "done"
      BY <1>1 DEF Base, BurstType
    <3>3. PhaseOf(w)'
      BY <1>1, <3>1, <3>2 DEF PhaseOf
    <3>4. RoomOf(w)'
      BY <1>1 DEF Base, RoomOf, Total
    <3>5. QED
      BY <2>1, <3>3, <3>4
  <2>2. CASE v # w
    BY <1>1, <2>2, BaseOther DEF Base, BurstType
  <2>3. QED
    BY <2>1, <2>2
<1>4. QED
  BY <1>2, <1>3 DEF Base

\* StageAlloc and the invariant.
LEMMA BaseStageAlloc ==
  ASSUME Base, NEW w \in Worker, StageAlloc(w)
  PROVE  Base'
<1> DEFINE num == Chunk(Total(w), Len(staged[w]))
           own == AllocFromCache(cache[w], num)
           kept == FreeToCache(cache[w], txDone[w])
<1>1. /\ wpc[w] = "stage" /\ granted[w] = 0 /\ Len(staged[w]) < Total(w)
      /\ UNCHANGED <<freq, doWork, wpc, staged, ied, txPktCnt, bursts, txq, wire>>
      /\ \/ /\ num <= cache[w] + pool
            /\ cache' = [cache EXCEPT ![w] = cache[w] - own]
            /\ pool' = pool - (num - own)
            /\ granted' = [granted EXCEPT ![w] = num]
            /\ txDone' = txDone
         \/ /\ cache' = [cache EXCEPT ![w] = cache[w] + kept]
            /\ pool' = pool + (txDone[w] - kept)
            /\ txDone' = [txDone EXCEPT ![w] = 0]
            /\ granted' = granted
  BY DEF StageAlloc, Staging, Cleanup, Free, CanAlloc
<1>2. /\ cache[w] \in 0 .. CACHE_NUM /\ pool \in Nat /\ txDone[w] \in Nat
      /\ Len(staged[w]) \in Nat /\ Total(w) \in Nat /\ Len(txq[w]) \in Nat
      /\ Len(txq[w]) + txDone[w] <= TX_DESC_NUM
  BY BurstSize DEF Base, BurstType, RoomOf
<1>3. num \in 0 .. BURST_SIZE /\ num + Len(staged[w]) <= Total(w)
  BY <1>1, <1>2, Sizes DEF Chunk, Least
<1>4. kept \in Nat /\ kept <= txDone[w] /\ cache[w] + kept \in 0 .. CACHE_NUM
  BY <1>2, Freed
<1> HIDE DEF num, kept
<1>5. own \in Nat /\ own <= cache[w] /\ own <= num /\ (num <= cache[w] + pool => num - own <= pool)
  BY <1>2, <1>3, Sizes DEF AllocFromCache, Least
<1> HIDE DEF own
<1>6. BurstType'
  <2>1. CASE num <= cache[w] + pool /\ cache' = [cache EXCEPT ![w] = cache[w] - own]
             /\ pool' = pool - (num - own) /\ granted' = [granted EXCEPT ![w] = num] /\ txDone' = txDone
    <3>1. pool' \in Nat /\ cache[w] - own \in 0 .. CACHE_NUM
      <4>1. num - own <= pool /\ num - own \in Nat
        BY <1>3, <1>5, <2>1
      <4>2. pool' \in Nat
        BY <1>2, <2>1, <4>1
      <4>3. cache[w] - own \in 0 .. CACHE_NUM
        BY <1>2, <1>5, Sizes
      <4>4. QED
        BY <4>2, <4>3
    <3>2. cache' \in [Worker -> 0 .. CACHE_NUM] /\ granted' \in [Worker -> 0 .. BURST_SIZE]
      BY <1>3, <2>1, <3>1 DEF Base, BurstType
    <3>3. QED
      BY <1>1, <2>1, <3>1, <3>2 DEF Base, BurstType
  <2>2. CASE cache' = [cache EXCEPT ![w] = cache[w] + kept] /\ pool' = pool + (txDone[w] - kept)
             /\ txDone' = [txDone EXCEPT ![w] = 0] /\ granted' = granted
    <3>1. pool' \in Nat
      BY <1>2, <1>4, <2>2
    <3>2. cache' \in [Worker -> 0 .. CACHE_NUM] /\ txDone' \in [Worker -> Nat]
      BY <1>4, <2>2 DEF Base, BurstType
    <3>3. QED
      BY <1>1, <2>2, <3>1, <3>2 DEF Base, BurstType
  <2>3. QED
    BY <1>1, <2>1, <2>2
<1>7. ASSUME NEW v \in Worker PROVE RoomOf(v)' /\ PhaseOf(v)'
  <2>1. CASE v = w
    <3>1. /\ (granted'[w] = num \/ granted'[w] = granted[w])
          /\ (txDone'[w] = 0 \/ txDone'[w] = txDone[w])
      BY <1>1 DEF Base, BurstType
    <3>2. Len(txq'[w]) + txDone'[w] <= TX_DESC_NUM
      BY <1>1, <1>2, <3>1, Sizes
    <3>3. granted'[w] + Len(staged'[w]) <= Total(w)'
      BY <1>1, <1>2, <1>3, <3>1 DEF Total
    <3>4. QED
      BY <1>1, <2>1, <3>2, <3>3 DEF Base, RoomOf, PhaseOf
  <2>2. CASE v # w
    <3>1. granted'[v] = granted[v] /\ txDone'[v] = txDone[v]
      BY <1>1, <2>2 DEF Base, BurstType
    <3>2. QED
      BY <1>1, <3>1, BaseOther DEF Base
  <2>3. QED
    BY <2>1, <2>2
<1>8. QED
  BY <1>6, <1>7 DEF Base

\* Amend and the invariant.
LEMMA BaseAmend ==
  ASSUME Base, NEW w \in Worker, Amend(w)
  PROVE  Base'
<1> DEFINE s == BaseIdx(w) + (Len(staged[w]) % IedNum(w))
           f == [s |-> s, n |-> ied[s] + 1]
<1>1. granted[w] > 0 /\ wpc[w] = "stage"
  BY DEF Amend
<1>2. s \in Stream /\ MakeBurstPlan(IedNum(w), freq)[Len(staged[w]) + 1] = Len(staged[w]) % IedNum(w)
  BY <1>1, Planned
<1>3. /\ ied' = [ied EXCEPT ![s] = ied[s] + 1]
      /\ staged' = [staged EXCEPT ![w] = Append(staged[w], f)]
      /\ granted' = [granted EXCEPT ![w] = granted[w] - 1]
      /\ UNCHANGED <<freq, doWork, pool, cache, wpc, txPktCnt, bursts, txq, txDone, wire>>
  BY <1>2 DEF Amend
<1> HIDE DEF s
<1>4. ied[s] \in Nat /\ f \in Frame
  BY <1>2 DEF Base, BurstType, Frame
<1> HIDE DEF f
<1>5. staged[w] \in Seq(Frame)
  BY DEF Base, BurstType
<1>6. Append(staged[w], f) \in Seq(Frame) /\ Len(Append(staged[w], f)) = Len(staged[w]) + 1
  BY <1>4, <1>5, AppendProperties
<1>7. granted[w] - 1 \in 0 .. BURST_SIZE
  BY <1>1, Sizes DEF Base, BurstType
<1>8. BurstType'
  <2>1. ied' \in [Stream -> Nat]
    <3>1. ied \in [Stream -> Nat] /\ ied[s] + 1 \in Nat
      BY <1>4 DEF Base, BurstType
    <3>2. QED
      BY <1>3, <3>1
  <2>2. staged' \in [Worker -> Seq(Frame)]
    BY <1>3, <1>6 DEF Base, BurstType
  <2>3. granted' \in [Worker -> 0 .. BURST_SIZE]
    BY <1>3, <1>7 DEF Base, BurstType
  <2>4. QED
    BY <1>3, <2>1, <2>2, <2>3 DEF Base, BurstType
<1>9. ASSUME NEW v \in Worker PROVE RoomOf(v)' /\ PhaseOf(v)'
  <2>1. CASE v = w
    <3>1. granted'[w] = granted[w] - 1 /\ Len(staged'[w]) = Len(staged[w]) + 1 /\ Total(w)' = Total(w)
      BY <1>3, <1>6 DEF Base, BurstType, Total
    <3>2. granted[w] \in Nat /\ Len(staged[w]) \in Nat /\ Total(w) \in Nat
      <4>1. granted[w] \in Nat
        BY Sizes DEF Base, BurstType
      <4>2. QED
        BY <4>1, BurstSize DEF Base
    <3>3. granted[w] + Len(staged[w]) <= Total(w)
      BY DEF Base, RoomOf
    <3>4. granted'[w] + Len(staged'[w]) <= Total(w)'
      BY <3>1, <3>2, <3>3
    <3>5. QED
      BY <1>1, <1>3, <2>1, <3>4 DEF Base, RoomOf, PhaseOf
  <2>2. CASE v # w
    <3>1. granted'[v] = granted[v] /\ staged'[v] = staged[v]
      BY <1>3, <2>2 DEF Base, BurstType
    <3>2. QED
      BY <1>3, <3>1, BaseOther DEF Base
  <2>3. QED
    BY <2>1, <2>2
<1>10. QED
  BY <1>8, <1>9 DEF Base

\* StageEnd and the invariant.
LEMMA BaseStageEnd ==
  ASSUME Base, NEW w \in Worker, StageEnd(w)
  PROVE  Base'
<1> DEFINE kept == FreeToCache(cache[w], Len(staged[w]))
<1>1. /\ wpc[w] = "stage" /\ granted[w] = 0
      /\ UNCHANGED <<freq, doWork, granted, ied, txPktCnt, bursts, txq, txDone, wire>>
      /\ \/ wpc' = [wpc EXCEPT ![w] = "fire"] /\ pool' = pool /\ cache' = cache /\ staged' = staged
         \/ /\ cache' = [cache EXCEPT ![w] = cache[w] + kept]
            /\ pool' = pool + (Len(staged[w]) - kept)
            /\ staged' = [staged EXCEPT ![w] = << >>]
            /\ wpc' = [wpc EXCEPT ![w] = "done"]
  BY DEF StageEnd, Staging, Free
<1>2. cache[w] \in 0 .. CACHE_NUM /\ pool \in Nat /\ Len(staged[w]) \in Nat /\ Total(w) \in Nat
  BY BurstSize DEF Base, BurstType
<1>3. kept \in Nat /\ kept <= Len(staged[w]) /\ cache[w] + kept \in 0 .. CACHE_NUM
  BY <1>2, Freed
<1> HIDE DEF kept
<1>4. << >> \in Seq(Frame) /\ Len(<< >>) = 0
  BY EmptySeq
<1>5. BurstType'
  <2>1. pool' \in Nat
    BY <1>1, <1>2, <1>3
  <2>2. cache' \in [Worker -> 0 .. CACHE_NUM]
    <3>1. cache \in [Worker -> 0 .. CACHE_NUM]
      BY DEF Base, BurstType
    <3>2. QED
      BY <1>1, <1>3, <3>1
  <2>3. staged' \in [Worker -> Seq(Frame)]
    <3>1. staged \in [Worker -> Seq(Frame)]
      BY DEF Base, BurstType
    <3>2. QED
      BY <1>1, <1>4, <3>1
  <2>4. wpc' \in [Worker -> {"top", "stage", "fire", "done"}]
    BY <1>1 DEF Base, BurstType
  <2>5. QED
    BY <1>1, <2>1, <2>2, <2>3, <2>4 DEF Base, BurstType
<1>6. ASSUME NEW v \in Worker PROVE RoomOf(v)' /\ PhaseOf(v)'
  <2>1. CASE v = w
    <3>1. \/ wpc'[w] = "fire" /\ staged'[w] = staged[w]
          \/ wpc'[w] = "done" /\ staged'[w] = << >>
      BY <1>1 DEF Base, BurstType
    <3>2. Len(staged'[w]) <= Len(staged[w]) /\ Len(staged'[w]) \in Nat
      BY <1>2, <1>4, <3>1
    <3>3. granted'[w] + Len(staged'[w]) <= Total(w)'
      <4>1. granted'[w] = 0 /\ granted[w] + Len(staged[w]) <= Total(w) /\ Total(w)' = Total(w)
        BY <1>1 DEF Base, RoomOf, Total
      <4>2. QED
        BY <1>1, <1>2, <3>2, <4>1
    <3>4. Len(txq'[w]) + txDone'[w] <= TX_DESC_NUM
      BY <1>1 DEF Base, RoomOf
    <3>5. QED
      BY <1>1, <2>1, <3>1, <3>3, <3>4 DEF Base, RoomOf, PhaseOf
  <2>2. CASE v # w
    <3>1. wpc'[v] = wpc[v] /\ staged'[v] = staged[v]
      BY <1>1, <2>2 DEF Base, BurstType
    <3>2. QED
      BY <1>1, <3>1, BaseOther DEF Base
  <2>3. QED
    BY <2>1, <2>2
<1>7. QED
  BY <1>5, <1>6 DEF Base

\* What Fire does: nb frames move from the staged ones to the ring.
LEMMA FireMoves ==
  ASSUME Base, NEW w \in Worker, Fire(w)
  PROVE  \E nb \in Nat :
           /\ nb <= Len(staged[w]) /\ nb + Len(txq[w]) <= TX_DESC_NUM
           /\ txq' = [txq EXCEPT ![w] = txq[w] \o Prefix(staged[w], nb)]
           /\ staged' = [staged EXCEPT ![w] = Rest(staged[w], nb)]
           /\ txq[w] \o Prefix(staged[w], nb) \in Seq(Frame)
           /\ Len(txq[w] \o Prefix(staged[w], nb)) = Len(txq[w]) + nb
           /\ Rest(staged[w], nb) \in Seq(Frame)
           /\ Len(Rest(staged[w], nb)) = Len(staged[w]) - nb
<1> DEFINE num == Chunk(Len(staged[w]), 0)
           nb == Least(num, TX_DESC_NUM - Len(txq[w]))
<1>1. txq[w] \in Seq(Frame) /\ staged[w] \in Seq(Frame)
  BY DEF Base, BurstType
<1>2. Len(txq[w]) \in Nat /\ Len(staged[w]) \in Nat /\ Len(txq[w]) <= TX_DESC_NUM
  <2>1. txDone[w] \in Nat /\ Len(txq[w]) + txDone[w] <= TX_DESC_NUM
    BY DEF Base, BurstType, RoomOf
  <2>2. QED
    BY <1>1, <2>1, Sizes
<1>3. num \in Nat /\ num <= Len(staged[w])
  BY <1>2, Sizes DEF Chunk, Least
<1>4. /\ txq' = [txq EXCEPT ![w] = txq[w] \o Prefix(staged[w], nb)]
      /\ staged' = [staged EXCEPT ![w] = Rest(staged[w], nb)]
  BY DEF Fire, Advance
<1> HIDE DEF num
<1>5. nb \in Nat /\ nb <= Len(staged[w]) /\ nb + Len(txq[w]) <= TX_DESC_NUM
  <2>1. TX_DESC_NUM - Len(txq[w]) \in Nat
    BY <1>2, Sizes
  <2>2. nb \in Nat /\ nb <= num /\ nb <= TX_DESC_NUM - Len(txq[w])
    BY <1>3, <2>1 DEF Least
  <2> HIDE DEF nb
  <2>3. QED
    BY <1>2, <1>3, <2>2, Sizes
<1> HIDE DEF nb
<1>6. /\ Prefix(staged[w], nb) \in Seq(Frame) /\ Len(Prefix(staged[w], nb)) = nb
      /\ Rest(staged[w], nb) \in Seq(Frame) /\ Len(Rest(staged[w], nb)) = Len(staged[w]) - nb
  <2>1. nb \in 0 .. Len(staged[w])
    BY <1>2, <1>5
  <2>2. QED
    BY <1>1, <2>1, PrefixRest
<1>7. /\ txq[w] \o Prefix(staged[w], nb) \in Seq(Frame)
      /\ Len(txq[w] \o Prefix(staged[w], nb)) = Len(txq[w]) + nb
  <2> DEFINE p == Prefix(staged[w], nb)
  <2>1. p \in Seq(Frame) /\ Len(p) = nb
    BY <1>6
  <2> HIDE DEF p
  <2>2. txq[w] \o p \in Seq(Frame) /\ Len(txq[w] \o p) = Len(txq[w]) + Len(p)
    BY <1>1, <2>1, ConcatProperties
  <2>3. QED
    BY <2>1, <2>2 DEF p
<1>8. QED
  BY <1>4, <1>5, <1>6, <1>7

\* Fire and the invariant.
LEMMA BaseFire ==
  ASSUME Base, NEW w \in Worker, Fire(w)
  PROVE  Base'
<1> DEFINE kept == FreeToCache(cache[w], txDone[w])
<1>1. PICK nb \in Nat :
           /\ nb <= Len(staged[w]) /\ nb + Len(txq[w]) <= TX_DESC_NUM
           /\ txq' = [txq EXCEPT ![w] = txq[w] \o Prefix(staged[w], nb)]
           /\ staged' = [staged EXCEPT ![w] = Rest(staged[w], nb)]
           /\ txq[w] \o Prefix(staged[w], nb) \in Seq(Frame)
           /\ Len(txq[w] \o Prefix(staged[w], nb)) = Len(txq[w]) + nb
           /\ Rest(staged[w], nb) \in Seq(Frame)
           /\ Len(Rest(staged[w], nb)) = Len(staged[w]) - nb
  BY FireMoves
<1>2. /\ wpc[w] = "fire"
      /\ cache' = [cache EXCEPT ![w] = cache[w] + kept]
      /\ pool' = pool + (txDone[w] - kept)
      /\ txDone' = [txDone EXCEPT ![w] = 0]
      /\ UNCHANGED <<freq, doWork, wpc, granted, ied, txPktCnt, bursts, wire>>
  BY DEF Fire, Free
<1>3. /\ cache[w] \in 0 .. CACHE_NUM /\ pool \in Nat /\ txDone[w] \in Nat
      /\ Len(staged[w]) \in Nat /\ Len(txq[w]) \in Nat /\ Total(w) \in Nat
  BY BurstSize DEF Base, BurstType
<1>4. kept \in Nat /\ kept <= txDone[w] /\ cache[w] + kept \in 0 .. CACHE_NUM
  BY <1>3, Freed
<1> HIDE DEF kept
<1>5. BurstType'
  <2>1. pool' \in Nat
    BY <1>2, <1>3, <1>4
  <2>2. cache' \in [Worker -> 0 .. CACHE_NUM] /\ txDone' \in [Worker -> Nat]
    BY <1>2, <1>4 DEF Base, BurstType
  <2>3. staged' \in [Worker -> Seq(Frame)] /\ txq' \in [Worker -> Seq(Frame)]
    BY <1>1 DEF Base, BurstType
  <2>4. QED
    BY <1>2, <2>1, <2>2, <2>3 DEF Base, BurstType
<1>6. ASSUME NEW v \in Worker PROVE RoomOf(v)' /\ PhaseOf(v)'
  <2>1. CASE v = w
    <3>1. /\ txDone'[w] = 0 /\ Len(txq'[w]) = Len(txq[w]) + nb
          /\ Len(staged'[w]) = Len(staged[w]) - nb
      BY <1>1, <1>2 DEF Base, BurstType
    <3>2. Len(txq'[w]) + txDone'[w] <= TX_DESC_NUM
      BY <1>1, <1>3, <3>1
    <3>3. granted'[w] + Len(staged'[w]) <= Total(w)'
      <4>1. /\ granted'[w] = granted[w] /\ granted[w] \in Nat /\ Total(w)' = Total(w)
            /\ granted[w] + Len(staged[w]) <= Total(w)
        BY <1>2, Sizes DEF Base, BurstType, RoomOf, Total
      <4>2. Len(staged'[w]) <= Len(staged[w]) /\ Len(staged'[w]) \in Nat
        BY <1>1, <1>3, <3>1
      <4>3. Total(w) \in Nat /\ Len(staged[w]) \in Nat
        BY <1>3
      <4>4. QED
        BY <4>1, <4>2, <4>3
    <3>4. QED
      BY <1>2, <2>1, <3>2, <3>3 DEF Base, RoomOf, PhaseOf
  <2>2. CASE v # w
    <3>1. txq'[v] = txq[v] /\ staged'[v] = staged[v] /\ txDone'[v] = txDone[v]
      BY <1>1, <1>2, <2>2 DEF Base, BurstType
    <3>2. QED
      BY <1>2, <3>1, BaseOther DEF Base
  <2>3. QED
    BY <2>1, <2>2
<1>7. QED
  BY <1>5, <1>6 DEF Base

\* FireEnd and the invariant.
LEMMA BaseFireEnd ==
  ASSUME Base, NEW w \in Worker, FireEnd(w)
  PROVE  Base'
<1> DEFINE kept == FreeToCache(cache[w], Len(staged[w]))
<1>1. /\ wpc[w] = "fire" /\ granted[w] = 0
      /\ txPktCnt' = [txPktCnt EXCEPT ![w] = txPktCnt[w] + (Total(w) - Len(staged[w]))]
      /\ cache' = [cache EXCEPT ![w] = cache[w] + kept]
      /\ pool' = pool + (Len(staged[w]) - kept)
      /\ staged' = [staged EXCEPT ![w] = << >>]
      /\ wpc' = [wpc EXCEPT ![w] = "top"]
      /\ UNCHANGED <<freq, doWork, granted, ied, bursts, txq, txDone, wire>>
  BY DEF FireEnd, Free, Sent, Remainder, Base, PhaseOf
<1>2. /\ cache[w] \in 0 .. CACHE_NUM /\ pool \in Nat /\ Len(staged[w]) \in Nat
      /\ Total(w) \in Nat /\ txPktCnt[w] \in Nat
  BY BurstSize DEF Base, BurstType
<1>3. Len(staged[w]) <= Total(w)
  <2>1. granted[w] + Len(staged[w]) <= Total(w)
    BY DEF Base, RoomOf
  <2>2. QED
    BY <1>1, <1>2, <2>1
<1>4. kept \in Nat /\ kept <= Len(staged[w]) /\ cache[w] + kept \in 0 .. CACHE_NUM
  BY <1>2, Freed
<1> HIDE DEF kept
<1>5. << >> \in Seq(Frame) /\ Len(<< >>) = 0
  BY EmptySeq
<1>6. BurstType'
  <2>1. pool' \in Nat /\ txPktCnt[w] + (Total(w) - Len(staged[w])) \in Nat
    BY <1>1, <1>2, <1>3, <1>4
  <2>2. cache' \in [Worker -> 0 .. CACHE_NUM] /\ txPktCnt' \in [Worker -> Nat]
    BY <1>1, <1>4, <2>1 DEF Base, BurstType
  <2>3. staged' \in [Worker -> Seq(Frame)]
    BY <1>1, <1>5 DEF Base, BurstType
  <2>4. wpc' \in [Worker -> {"top", "stage", "fire", "done"}]
    BY <1>1 DEF Base, BurstType
  <2>5. QED
    BY <1>1, <2>1, <2>2, <2>3, <2>4 DEF Base, BurstType
<1>7. ASSUME NEW v \in Worker PROVE RoomOf(v)' /\ PhaseOf(v)'
  <2>1. CASE v = w
    <3>1. wpc'[w] = "top" /\ staged'[w] = << >> /\ granted'[w] = 0 /\ Total(w)' = Total(w)
      BY <1>1 DEF Base, BurstType, Total
    <3>2. RoomOf(w)'
      BY <1>1, <1>2, <1>5, <3>1 DEF Base, RoomOf
    <3>3. QED
      BY <2>1, <3>1, <3>2 DEF PhaseOf
  <2>2. CASE v # w
    <3>1. wpc'[v] = wpc[v] /\ staged'[v] = staged[v]
      BY <1>1, <2>2 DEF Base, BurstType
    <3>2. QED
      BY <1>1, <3>1, BaseOther DEF Base
  <2>3. QED
    BY <2>1, <2>2
<1>8. QED
  BY <1>6, <1>7 DEF Base

\* Every step keeps the types, the room and the phases.
LEMMA BaseStep == Base /\ [Next]_vars => Base'
<1> SUFFICES ASSUME Base, [Next]_vars PROVE Base'
  OBVIOUS
<1>1. CASE Stop
  BY <1>1 DEF Base, BurstType, RoomOf, PhaseOf, Total, Stop, workerVars
<1>2. ASSUME NEW w \in Worker, WorkerStep(w) PROVE Base'
  BY <1>2, BaseCycleCheck, BaseStageAlloc, BaseAmend, BaseStageEnd, BaseFire, BaseFireEnd
  DEF WorkerStep
<1>3. ASSUME NEW w \in Worker, Transmit(w) PROVE Base'
  BY <1>3, BaseTransmit
<1>4. CASE UNCHANGED vars
  BY <1>4 DEF Base, BurstType, RoomOf, PhaseOf, Total, vars, workerVars
<1>5. QED
  BY <1>1, <1>2, <1>3, <1>4 DEF Next, Exited

-----------------------------------------------------------------------------
(* The numbers of a stream follow on each other.                           *)

\* Two sequences of frames, one behind the other.
LEMMA Joined ==
  ASSUME NEW q \in Seq(Frame), NEW r \in Seq(Frame)
  PROVE  /\ q \o r \in Seq(Frame)
         /\ Len(q) \in Nat /\ Len(r) \in Nat /\ Len(q \o r) \in Nat
         /\ Len(q \o r) = Len(q) + Len(r)
         /\ \A i \in 1 .. Len(q) : (q \o r)[i] = q[i]
         /\ \A i \in 1 .. Len(r) : (q \o r)[Len(q) + i] = r[i]
         /\ \A i \in 1 .. Len(q \o r) : (q \o r)[i].s \in Stream
<1>1. /\ q \o r \in Seq(Frame) /\ Len(q \o r) = Len(q) + Len(r) /\ Len(q) \in Nat /\ Len(r) \in Nat
      /\ \A i \in 1 .. Len(q) + Len(r) : (q \o r)[i] = IF i <= Len(q) THEN q[i] ELSE r[i - Len(q)]
  BY ConcatProperties
<1> DEFINE p == q \o r
<1>2. \A i \in 1 .. Len(p) : p[i] \in Frame
  BY <1>1, ElementOfSeq
<1>3. \A i \in 1 .. Len(p) : p[i].s \in Stream
  BY <1>2 DEF Frame
<1>4. \A i \in 1 .. Len(q) : p[i] = q[i]
  BY <1>1
<1>5. \A i \in 1 .. Len(r) : p[Len(q) + i] = r[i]
  <2> TAKE i \in 1 .. Len(r)
  <2>1. Len(q) + i \in 1 .. Len(q) + Len(r) /\ ~(Len(q) + i <= Len(q)) /\ Len(q) + i - Len(q) = i
    BY <1>1
  <2>2. QED
    BY <1>1, <2>1
<1>6. p \in Seq(Frame) /\ Len(p) = Len(q) + Len(r)
  BY <1>1
<1> HIDE DEF p
<1>7. Len(p) \in Nat
  BY <1>1, <1>6
<1>8. QED
  BY <1>1, <1>3, <1>4, <1>5, <1>6, <1>7 DEF p

\* What Pending is.
LEMMA PendingIs ==
  ASSUME BurstType, NEW w \in Worker
  PROVE  /\ Pending(w) \in Seq(Frame)
         /\ Len(txq[w]) \in Nat /\ Len(staged[w]) \in Nat /\ Len(Pending(w)) \in Nat
         /\ Len(Pending(w)) = Len(txq[w]) + Len(staged[w])
         /\ \A i \in 1 .. Len(txq[w]) : Pending(w)[i] = txq[w][i]
         /\ \A i \in 1 .. Len(staged[w]) : Pending(w)[Len(txq[w]) + i] = staged[w][i]
         /\ \A i \in 1 .. Len(Pending(w)) : Pending(w)[i].s \in Stream
<1> DEFINE q == txq[w]
           r == staged[w]
<1>1. q \in Seq(Frame) /\ r \in Seq(Frame)
  BY DEF BurstType
<1> HIDE DEF q, r
<1>2. /\ q \o r \in Seq(Frame)
      /\ Len(q) \in Nat /\ Len(r) \in Nat /\ Len(q \o r) \in Nat
      /\ Len(q \o r) = Len(q) + Len(r)
      /\ \A i \in 1 .. Len(q) : (q \o r)[i] = q[i]
      /\ \A i \in 1 .. Len(r) : (q \o r)[Len(q) + i] = r[i]
      /\ \A i \in 1 .. Len(q \o r) : (q \o r)[i].s \in Stream
  BY <1>1, Joined, Zenon
<1>3. QED
  BY <1>2, Zenon DEF q, r, Pending

\* A worker whose pending frames, numbers and streams on the wire are left
\* alone keeps the chain.
LEMMA ChainKept ==
  ASSUME BurstType, NEW v \in Worker, OwnOf(v), ChainOf(v), GivenOf(v),
         Pending(v)' = Pending(v),
         \A s \in Stream : Mine(v, s) => wire'[s] = wire[s] /\ ied'[s] = ied[s],
         doWork' \/ wpc'[v] = "stage" => doWork \/ wpc[v] = "stage"
  PROVE  OwnOf(v)' /\ ChainOf(v)' /\ GivenOf(v)'
<1> DEFINE q == Pending(v)
           k == Len(q)
<1>1. Pending(v)' = q
  OBVIOUS
<1>2. /\ \A i \in 1 .. k : q[i].s \in Stream
      /\ \A i \in 1 .. k : Mine(v, q[i].s)
      /\ Ranked(q, k, wire)
      /\ doWork \/ wpc[v] = "stage" =>
           \A s \in Stream : Mine(v, s) => ied[s] = wire[s] + Count(q, k, s)
  BY PendingIs DEF OwnOf, ChainOf, GivenOf
<1> HIDE DEF k, q
<1>3. Ranked(q, k, wire')
  BY <1>2 DEF Ranked
<1>4. doWork' \/ wpc'[v] = "stage" =>
           \A s \in Stream : Mine(v, s) => ied'[s] = wire'[s] + Count(q, k, s)
  BY <1>2
<1>5. OwnOf(v)'
  BY <1>1, <1>2 DEF OwnOf, k, Mine
<1>6. QED
  BY <1>1, <1>3, <1>4, <1>5 DEF ChainOf, GivenOf, k

\* A worker that drops the staged frames keeps the chain up to the ring.
LEMMA ChainDropped ==
  ASSUME BurstType, NEW w \in Worker, OwnOf(w), ChainOf(w),
         txq'[w] = txq[w], staged'[w] = << >>, wire' = wire, ~doWork', wpc'[w] # "stage"
  PROVE  OwnOf(w)' /\ ChainOf(w)' /\ GivenOf(w)'
<1> DEFINE q == Pending(w)
           k == Len(q)
           r == Pending(w)'
           m == Len(r)
<1>1. /\ k \in Nat /\ m \in Nat /\ m <= k
      /\ \A i \in 1 .. m : r[i] = q[i]
  <2> DEFINE x == txq[w]
             e == << >>
  <2>1. x \in Seq(Frame) /\ e \in Seq(Frame) /\ Len(e) = 0
    BY EmptySeq DEF BurstType
  <2>2. r = x \o e
    BY DEF Pending
  <2> HIDE DEF x, e
  <2>3. Len(x \o e) = Len(x) + Len(e) /\ Len(x) \in Nat /\ \A i \in 1 .. Len(x) : (x \o e)[i] = x[i]
    BY <2>1, Joined
  <2>4. Len(x \o e) = Len(x)
    BY <2>1, <2>3
  <2>5. m = Len(x) /\ \A i \in 1 .. Len(x) : r[i] = x[i]
    BY <2>2, <2>3, <2>4, Zenon
  <2>6. k \in Nat /\ Len(x) <= k /\ \A i \in 1 .. Len(x) : q[i] = x[i]
    <3>1. /\ k \in Nat /\ Len(staged[w]) \in Nat /\ k = Len(x) + Len(staged[w])
          /\ \A i \in 1 .. Len(x) : q[i] = x[i]
      BY PendingIs, Zenon DEF x
    <3> HIDE DEF q, k
    <3>2. QED
      BY <2>3, <3>1
  <2> HIDE DEF q, r, m, k
  <2>7. QED
    BY <2>3, <2>5, <2>6
<1>2. \A i \in 1 .. k : Mine(w, q[i].s)
  BY DEF OwnOf
<1>3. Ranked(q, k, wire)
  BY DEF ChainOf
<1> HIDE DEF q, r, k, m
<1>4. Ranked(r, m, wire)
  BY <1>1, <1>3, RankedFront
<1>5. \A i \in 1 .. m : Mine(w, r[i].s)
  BY <1>1, <1>2
<1>6. OwnOf(w)'
  BY <1>5 DEF OwnOf, r, m, Mine
<1>7. ChainOf(w)'
  BY <1>4 DEF ChainOf, r, m
<1>8. GivenOf(w)'
  BY DEF GivenOf
<1>9. QED
  BY <1>6, <1>7, <1>8

\* The NIC sends the frame that follows, and the others follow on it.
LEMMA ChainTransmit ==
  ASSUME Base, NEW w \in Worker, OwnOf(w), ChainOf(w), GivenOf(w), Transmit(w)
  PROVE  /\ OwnOf(w)' /\ ChainOf(w)' /\ GivenOf(w)'
         /\ \E s \in Stream : Mine(w, s) /\ wire' = [wire EXCEPT ![s] = wire[s] + 1]
<1> DEFINE q == Pending(w)
           k == Len(Pending(w)')
           r == Pending(w)'
           s == Head(txq[w]).s
           n == Head(txq[w]).n
<1>1. /\ txq[w] # << >> /\ wire' = [wire EXCEPT ![s] = n]
      /\ txq' = [txq EXCEPT ![w] = Tail(txq[w])]
      /\ UNCHANGED <<freq, doWork, pool, cache, wpc, granted, staged, ied, txPktCnt, bursts>>
  BY DEF Transmit, workerVars
<1>2. BurstType /\ txq[w] \in Seq(Frame) /\ staged[w] \in Seq(Frame) /\ wire \in [Stream -> Nat]
  BY DEF Base, BurstType
<1>3. /\ k \in Nat /\ Len(q) = k + 1 /\ q[1].s = s /\ q[1].n = n
      /\ \A i \in 1 .. k : r[i] = q[i + 1]
  <2> DEFINE x == txq[w]
             y == Tail(x)
             z == staged[w]
  <2>1. /\ y \in Seq(Frame) /\ Len(y) = Len(x) - 1 /\ Len(x) \in Nat \ {0}
        /\ Len(y) \in Nat /\ \A i \in 1 .. Len(y) : y[i] = x[i + 1]
        /\ Head(x) = x[1]
    <3> HIDE DEF x
    <3>1. x \in Seq(Frame) /\ x # << >>
      BY <1>1, <1>2 DEF x
    <3>2. QED
      BY <3>1, HeadTailProperties, EmptySeq
  <2>2. r = y \o z
    BY <1>1 DEF Pending, Base, BurstType
  <2>3. q = x \o z
    BY DEF Pending
  <2>4. z \in Seq(Frame) /\ x \in Seq(Frame)
    BY <1>2
  <2>5. s = x[1].s /\ n = x[1].n
    BY <2>1
  <2> HIDE DEF x, y, z, q, r, s, n
  <2>6. /\ Len(z) \in Nat /\ Len(x \o z) = Len(x) + Len(z)
        /\ \A i \in 1 .. Len(x) : (x \o z)[i] = x[i]
        /\ \A i \in 1 .. Len(z) : (x \o z)[Len(x) + i] = z[i]
    BY <2>4, Joined
  <2>7. /\ Len(y \o z) = Len(y) + Len(z)
        /\ \A i \in 1 .. Len(y) : (y \o z)[i] = y[i]
        /\ \A i \in 1 .. Len(z) : (y \o z)[Len(y) + i] = z[i]
    BY <2>1, <2>4, Joined
  <2>8. k = Len(y) + Len(z)
    BY <2>2, <2>7 DEF r
  <2>9. Len(q) = Len(x) + Len(z)
    BY <2>3, <2>6
  <2>10. q[1] = x[1]
    <3>1. 1 \in 1 .. Len(x)
      BY <2>1
    <3>2. QED
      BY <2>3, <2>6, <3>1, Zenon
  <2>11. ASSUME NEW i \in 1 .. k PROVE r[i] = q[i + 1]
    <3>1. CASE i <= Len(y)
      <4>1. i \in 1 .. Len(y) /\ i + 1 \in 1 .. Len(x)
        BY <2>1, <2>6, <2>8, <3>1
      <4>2. r[i] = y[i] /\ q[i + 1] = x[i + 1] /\ y[i] = x[i + 1]
        BY <2>1, <2>2, <2>3, <2>6, <2>7, <4>1, Zenon
      <4>3. QED
        BY <4>2
    <3>2. CASE ~(i <= Len(y))
      <4> DEFINE j == i - Len(y)
      <4>1. j \in 1 .. Len(z) /\ i = Len(y) + j /\ i + 1 = Len(x) + j
        BY <2>1, <2>6, <2>8, <3>2
      <4> HIDE DEF j
      <4>2. r[Len(y) + j] = z[j] /\ q[Len(x) + j] = z[j]
        BY <2>2, <2>3, <2>6, <2>7, <4>1, Zenon
      <4>3. QED
        BY <4>1, <4>2, Zenon
    <3>3. QED
      BY <3>1, <3>2
  <2>12. k \in Nat /\ Len(q) = k + 1
    BY <2>1, <2>6, <2>8, <2>9
  <2>13. QED
    BY <2>5, <2>10, <2>11, <2>12, Zenon
<1>4. /\ \A i \in 1 .. Len(q) : q[i].s \in Stream
      /\ \A i \in 1 .. Len(q) : Mine(w, q[i].s)
      /\ Ranked(q, Len(q), wire)
      /\ doWork \/ wpc[w] = "stage" =>
           \A x \in Stream : Mine(w, x) => ied[x] = wire[x] + Count(q, Len(q), x)
  BY <1>2, PendingIs DEF OwnOf, ChainOf, GivenOf
<1> HIDE DEF q, r, s, n, k
<1>5. /\ \A i \in 1 .. k + 1 : q[i].s \in Stream
      /\ \A i \in 1 .. k + 1 : Mine(w, q[i].s)
      /\ Ranked(q, k + 1, wire)
      /\ doWork \/ wpc[w] = "stage" =>
           \A x \in Stream : Mine(w, x) => ied[x] = wire[x] + Count(q, k + 1, x)
  BY <1>3, <1>4, Zenon
<1>6. /\ n = wire[s] + 1 /\ Ranked(r, k, wire')
      /\ \A x \in Stream : wire[x] + Count(q, k + 1, x) = wire'[x] + Count(r, k, x)
  <2>1. Popped(r, q, k, s, n)
    BY <1>3, <1>5 DEF Popped
  <2>2. k \in Nat
    BY <1>3
  <2>3. wire \in [Stream -> Nat] /\ wire' = [wire EXCEPT ![s] = n] /\ Ranked(q, k + 1, wire)
    BY <1>1, <1>2, <1>5
  <2>4. FollowedBy(r, wire', q, wire, k, s, n)
    BY <2>1, <2>2, <2>3, RankedTail
  <2>5. QED
    BY <2>4 DEF FollowedBy
<1>7. s \in Stream /\ Mine(w, s)
  <2>1. 1 \in 1 .. k + 1
    BY <1>3
  <2>2. QED
    BY <1>3, <1>5, <2>1
<1>8. OwnOf(w)'
  <2>1. \A i \in 1 .. k : Mine(w, r[i].s)
    <3> TAKE i \in 1 .. k
    <3>1. i + 1 \in 1 .. k + 1
      BY <1>3
    <3>2. QED
      BY <1>3, <1>5, <3>1
  <2>2. QED
    BY <2>1 DEF OwnOf, r, k, Mine
<1>9. ChainOf(w)'
  BY <1>1, <1>6 DEF ChainOf, r, k
<1>10. ASSUME doWork' \/ wpc'[w] = "stage", NEW x \in Stream, Mine(w, x)
       PROVE  ied'[x] = wire'[x] + Count(r, k, x)
  <2>1. ied[x] = wire[x] + Count(q, k + 1, x)
    BY <1>1, <1>5, <1>10
  <2>2. wire[x] + Count(q, k + 1, x) = wire'[x] + Count(r, k, x)
    BY <1>6
  <2>3. ied'[x] = ied[x]
    BY <1>1
  <2>4. QED
    BY <2>1, <2>2, <2>3
<1>11. GivenOf(w)'
  BY <1>10 DEF GivenOf, r, k, Mine
<1>12. QED
  BY <1>1, <1>6, <1>7, <1>8, <1>9, <1>11

\* Amend continues the chain of the stream.
LEMMA ChainAmend ==
  ASSUME Base, NEW w \in Worker, OwnOf(w), ChainOf(w), GivenOf(w), Amend(w)
  PROVE  /\ OwnOf(w)' /\ ChainOf(w)' /\ GivenOf(w)'
         /\ ied' = [ied EXCEPT ![BaseIdx(w) + (Len(staged[w]) % IedNum(w))] = @ + 1]
<1> DEFINE q == Pending(w)
           k == Len(q)
           r == Pending(w)'
           s == BaseIdx(w) + (Len(staged[w]) % IedNum(w))
           f == [s |-> s, n |-> ied[s] + 1]
<1>1. granted[w] > 0 /\ wpc[w] = "stage"
  BY DEF Amend
<1>2. /\ s \in Stream /\ Mine(w, s)
      /\ MakeBurstPlan(IedNum(w), freq)[Len(staged[w]) + 1] = Len(staged[w]) % IedNum(w)
  BY <1>1, Planned
<1>3. /\ ied' = [ied EXCEPT ![s] = ied[s] + 1]
      /\ staged' = [staged EXCEPT ![w] = Append(staged[w], f)]
      /\ UNCHANGED <<doWork, wpc, txq, wire>>
  BY <1>2 DEF Amend
<1>4. BurstType /\ txq[w] \in Seq(Frame) /\ staged[w] \in Seq(Frame)
      /\ wire \in [Stream -> Nat] /\ ied \in [Stream -> Nat]
  BY DEF Base, BurstType
<1> HIDE DEF s
<1>5. f \in Frame /\ f.s = s /\ f.n = ied[s] + 1
  BY <1>2, <1>4 DEF Frame
<1> HIDE DEF f
<1>6. /\ k \in Nat /\ Len(r) = k + 1 /\ r[k + 1] = f
      /\ \A i \in 1 .. k : r[i] = q[i]
  <2> DEFINE x == txq[w]
             y == staged[w]
             z == Append(y, f)
  <2>1. x \in Seq(Frame) /\ y \in Seq(Frame)
    BY <1>4
  <2>2. r = x \o z
    BY <1>3 DEF Pending, Base, BurstType
  <2>3. q = x \o y
    BY DEF Pending
  <2> HIDE DEF x, y, q, r
  <2>4. /\ z \in Seq(Frame) /\ Len(z) = Len(y) + 1 /\ z[Len(y) + 1] = f
        /\ \A i \in 1 .. Len(y) : z[i] = y[i]
    BY <1>5, <2>1, AppendProperties
  <2> HIDE DEF z
  <2>5. /\ Len(x) \in Nat /\ Len(y) \in Nat /\ Len(x \o y) = Len(x) + Len(y)
        /\ \A i \in 1 .. Len(x) : (x \o y)[i] = x[i]
        /\ \A i \in 1 .. Len(y) : (x \o y)[Len(x) + i] = y[i]
    BY <2>1, Joined
  <2>6. /\ Len(x \o z) = Len(x) + Len(z)
        /\ \A i \in 1 .. Len(x) : (x \o z)[i] = x[i]
        /\ \A i \in 1 .. Len(z) : (x \o z)[Len(x) + i] = z[i]
    BY <2>1, <2>4, Joined
  <2>7. k = Len(x) + Len(y) /\ Len(r) = Len(x) + Len(z)
    BY <2>2, <2>3, <2>5, <2>6
  <2>8. k \in Nat /\ Len(r) = k + 1 /\ Len(x) + (Len(y) + 1) = k + 1
    BY <2>4, <2>5, <2>7
  <2>9. r[k + 1] = f
    <3>1. Len(y) + 1 \in 1 .. Len(z)
      BY <2>4, <2>5
    <3>2. r[Len(x) + (Len(y) + 1)] = z[Len(y) + 1]
      BY <2>2, <2>6, <3>1, Zenon
    <3>3. QED
      BY <2>4, <2>8, <3>2, Zenon
  <2>10. ASSUME NEW i \in 1 .. k PROVE r[i] = q[i]
    <3>1. CASE i <= Len(x)
      <4>1. i \in 1 .. Len(x)
        BY <2>5, <2>7, <3>1
      <4>2. QED
        BY <2>2, <2>3, <2>5, <2>6, <4>1, Zenon
    <3>2. CASE ~(i <= Len(x))
      <4> DEFINE j == i - Len(x)
      <4>1. j \in 1 .. Len(y) /\ j \in 1 .. Len(z) /\ i = Len(x) + j
        BY <2>4, <2>5, <2>7, <3>2
      <4> HIDE DEF j
      <4>2. r[Len(x) + j] = z[j] /\ q[Len(x) + j] = y[j] /\ z[j] = y[j]
        BY <2>2, <2>3, <2>4, <2>5, <2>6, <4>1, Zenon
      <4>3. QED
        BY <4>1, <4>2, Zenon
    <3>3. QED
      BY <3>1, <3>2
  <2>11. QED
    BY <2>8, <2>9, <2>10
<1>7. /\ \A i \in 1 .. k : Mine(w, q[i].s)
      /\ Ranked(q, k, wire)
      /\ \A x \in Stream : Mine(w, x) => ied[x] = wire[x] + Count(q, k, x)
  BY <1>1 DEF OwnOf, ChainOf, GivenOf
<1> HIDE DEF q, r, k
<1>8. r[k + 1].s = s /\ r[k + 1].n = ied[s] + 1
  BY <1>5, <1>6
<1>9. wire[s] \in Nat /\ Count(q, k, s) \in Nat
  BY <1>2, <1>4, <1>6, CountNat
<1>10. ied[s] + 1 = wire[s] + Count(q, k, s) + 1
  BY <1>2, <1>7, <1>9
<1>11. Ranked(r, k + 1, wire)
  <2>1. k \in Nat /\ \A i \in 1 .. k : r[i] = q[i]
    BY <1>6
  <2> DEFINE n == ied[s] + 1
  <2>2. r[k + 1].n = n /\ n = wire[s] + Count(q, k, s) + 1
    BY <1>8, <1>10
  <2> HIDE DEF n
  <2>3. QED
    BY <1>7, <1>8, <1>9, <2>1, <2>2, RankedAppend
<1>12. OwnOf(w)'
  <2>1. \A i \in 1 .. k + 1 : Mine(w, r[i].s)
    <3> TAKE i \in 1 .. k + 1
    <3>1. i \in 1 .. k \/ i = k + 1
      BY <1>6
    <3>2. QED
      BY <1>2, <1>6, <1>7, <1>8, <3>1
  <2>2. QED
    BY <1>6, <2>1 DEF OwnOf, r, Mine
<1>13. ChainOf(w)'
  BY <1>3, <1>6, <1>11 DEF ChainOf, r
<1>14. ASSUME NEW x \in Stream, Mine(w, x) PROVE ied'[x] = wire'[x] + Count(r, k + 1, x)
  <2>1. Alike(r, q, k)
    BY <1>6 DEF Alike
  <2>2. Count(r, k, x) = Count(q, k, x) /\ Count(q, k, x) \in Nat /\ k \in Nat
    BY <1>6, <2>1, CountSame, CountNat
  <2>3. ied[x] = wire[x] + Count(q, k, x) /\ ied[x] \in Nat /\ wire[x] \in Nat
    BY <1>4, <1>7, <1>14
  <2>4. CASE x = s
    <3>1. Count(r, k + 1, x) = Count(r, k, x) + 1
      BY <1>8, <2>2, <2>4, CountHit
    <3>2. ied'[x] = ied[x] + 1 /\ wire'[x] = wire[x]
      BY <1>3, <1>4, <2>4
    <3>3. QED
      BY <2>2, <2>3, <3>1, <3>2
  <2>5. CASE x # s
    <3>1. Count(r, k + 1, x) = Count(r, k, x)
      BY <1>8, <2>2, <2>5, CountMiss
    <3>2. ied'[x] = ied[x] /\ wire'[x] = wire[x]
      BY <1>3, <1>4, <2>5
    <3>3. QED
      BY <2>2, <2>3, <3>1, <3>2
  <2>6. QED
    BY <2>4, <2>5
<1>15. GivenOf(w)'
  BY <1>6, <1>14 DEF GivenOf, r, Mine
<1>16. QED
  BY <1>3, <1>12, <1>13, <1>15 DEF s

\* Fire leaves the pending frames as they are: it only moves the border between
\* the ring and the staged ones.
LEMMA FirePending ==
  ASSUME Base, NEW w \in Worker, Fire(w)
  PROVE  Pending(w)' = Pending(w)
<1>1. PICK nb \in Nat :
           /\ nb <= Len(staged[w])
           /\ txq' = [txq EXCEPT ![w] = txq[w] \o Prefix(staged[w], nb)]
           /\ staged' = [staged EXCEPT ![w] = Rest(staged[w], nb)]
  BY FireMoves
<1> DEFINE x == txq[w]
           y == staged[w]
           a == Prefix(y, nb)
           z == Rest(y, nb)
<1>2. x \in Seq(Frame) /\ y \in Seq(Frame)
  BY DEF Base, BurstType
<1>3. Pending(w)' = (x \o a) \o z /\ Pending(w) = x \o y
  BY <1>1 DEF Pending, Base, BurstType
<1>4. nb <= Len(y)
  BY <1>1
<1> HIDE DEF x, y
<1>5. /\ a \in Seq(Frame) /\ z \in Seq(Frame) /\ Len(a) = nb /\ Len(z) = Len(y) - nb
      /\ \A i \in 1 .. nb : a[i] = y[i]
      /\ \A i \in 1 .. Len(y) - nb : z[i] = y[nb + i]
  BY <1>2, <1>4, PrefixRest
<1> HIDE DEF a, z
<1>6. /\ Len(x) \in Nat /\ Len(y) \in Nat /\ Len(x \o y) = Len(x) + Len(y)
      /\ \A i \in 1 .. Len(x) : (x \o y)[i] = x[i]
      /\ \A i \in 1 .. Len(y) : (x \o y)[Len(x) + i] = y[i]
      /\ x \o y \in Seq(Frame)
  BY <1>2, Joined
<1> DEFINE b == x \o a
<1>7. /\ Len(b) = Len(x) + nb /\ b \in Seq(Frame)
      /\ \A i \in 1 .. Len(x) : b[i] = x[i]
      /\ \A i \in 1 .. nb : b[Len(x) + i] = a[i]
  BY <1>2, <1>5, Joined
<1> HIDE DEF b
<1>8. /\ Len(b \o z) = Len(b) + Len(z)
      /\ \A i \in 1 .. Len(b) : (b \o z)[i] = b[i]
      /\ \A i \in 1 .. Len(z) : (b \o z)[Len(b) + i] = z[i]
      /\ b \o z \in Seq(Frame)
  BY <1>5, <1>7, Joined
<1> DEFINE p == b \o z
           q == x \o y
<1>9. p \in Seq(Frame) /\ q \in Seq(Frame)
  BY <1>6, <1>8
<1>10. Len(p) = Len(x) + Len(y) /\ Len(q) = Len(x) + Len(y)
  <2>1. Len(p) = Len(b) + Len(z) /\ Len(q) = Len(x) + Len(y)
    BY <1>6, <1>8
  <2> HIDE DEF p, q
  <2>2. QED
    BY <1>4, <1>5, <1>6, <1>7, <2>1
<1> HIDE DEF p, q
<1>11. ASSUME NEW i \in 1 .. Len(q) PROVE p[i] = q[i]
  <2>1. CASE i <= Len(x)
    <3>1. i \in 1 .. Len(x) /\ i \in 1 .. Len(b)
      BY <1>6, <1>7, <1>10, <2>1
    <3>2. QED
      BY <1>6, <1>7, <1>8, <3>1, Zenon DEF p, q
  <2>2. CASE Len(x) < i /\ i <= Len(x) + nb
    <3> DEFINE j == i - Len(x)
    <3>1. i = Len(x) + j /\ j \in 1 .. nb /\ j \in 1 .. Len(y) /\ Len(x) + j \in 1 .. Len(b)
      BY <1>4, <1>6, <1>7, <2>2
    <3> HIDE DEF j
    <3>2. q[Len(x) + j] = y[j] /\ p[Len(x) + j] = b[Len(x) + j] /\ b[Len(x) + j] = a[j] /\ a[j] = y[j]
      BY <1>5, <1>6, <1>7, <1>8, <3>1, Zenon DEF p, q
    <3>3. QED
      BY <3>1, <3>2, Zenon
  <2>3. CASE Len(x) + nb < i
    <3> DEFINE j == i - Len(b)
    <3>1. /\ i = Len(b) + j /\ i = Len(x) + (nb + j) /\ j \in 1 .. Len(y) - nb
          /\ nb + j \in 1 .. Len(y)
      BY <1>4, <1>6, <1>7, <1>10, <2>3
    <3>2. j \in 1 .. Len(z)
      BY <1>5, <3>1
    <3> HIDE DEF j
    <3>3. q[Len(x) + (nb + j)] = y[nb + j] /\ p[Len(b) + j] = z[j] /\ z[j] = y[nb + j]
      BY <1>5, <1>6, <1>8, <3>1, <3>2, Zenon DEF p, q
    <3>4. QED
      BY <3>1, <3>3, Zenon
  <2>4. QED
    BY <1>6, <1>10, <2>1, <2>2, <2>3
<1>12. p = q
  BY <1>9, <1>10, <1>11, SeqEqual
<1>13. QED
  BY <1>3, <1>12, Zenon DEF p, q, b

\* The chain at the start.
LEMMA ChainInit == Init => Chain
<1> SUFFICES ASSUME Init, NEW w \in Worker PROVE OwnOf(w) /\ ChainOf(w) /\ GivenOf(w)
  BY DEF Chain
<1> DEFINE e == << >>
<1>1. e \in Seq(Frame) /\ Len(e) = 0
  BY EmptySeq
<1>2. txq[w] = e /\ staged[w] = e /\ Pending(w) = e \o e
  BY DEF Init, Pending
<1> HIDE DEF e
<1>3. Len(e \o e) = Len(e) + Len(e)
  BY <1>1, Joined
<1>4. Len(Pending(w)) = 0
  BY <1>1, <1>2, <1>3
<1>5. OwnOf(w) /\ ChainOf(w)
  BY <1>4 DEF OwnOf, ChainOf, Ranked
<1>6. ASSUME NEW s \in Stream PROVE ied[s] = wire[s] + Count(Pending(w), 0, s)
  <2>1. ied[s] = 0 /\ wire[s] = 0
    BY DEF Init
  <2>2. 0 \in Nat
    OBVIOUS
  <2>3. Count(Pending(w), 0, s) = 0
    BY <2>2, CountNat
  <2>4. QED
    BY <2>1, <2>3
<1>7. GivenOf(w)
  BY <1>4, <1>6 DEF GivenOf
<1>8. QED
  BY <1>5, <1>7

\* A step of worker w and the chain of every worker.
LEMMA ChainWorker ==
  ASSUME Base, Chain, NEW w \in Worker, WorkerStep(w), NEW v \in Worker
  PROVE  OwnOf(v)' /\ ChainOf(v)' /\ GivenOf(v)'
<1>1. BurstType /\ OwnOf(v) /\ ChainOf(v) /\ GivenOf(v) /\ OwnOf(w) /\ ChainOf(w) /\ GivenOf(w)
  BY DEF Base, Chain
<1>2. /\ staged \in [Worker -> Seq(Frame)] /\ txq \in [Worker -> Seq(Frame)]
      /\ wpc \in [Worker -> {"top", "stage", "fire", "done"}] /\ ied \in [Stream -> Nat]
  BY DEF Base, BurstType
<1>3. ASSUME txq' = txq, staged' = staged, wire' = wire, ied' = ied,
             doWork' \/ wpc'[v] = "stage" => doWork \/ wpc[v] = "stage"
      PROVE  OwnOf(v)' /\ ChainOf(v)' /\ GivenOf(v)'
  <2>1. Pending(v)' = Pending(v)
    BY <1>3 DEF Pending
  <2>2. QED
    BY <1>1, <1>3, <2>1, ChainKept
<1>4. CASE CycleCheck(w)
  <2>1. /\ UNCHANGED <<doWork, staged, ied, txq, wire>>
        /\ (doWork \/ wpc' = [wpc EXCEPT ![w] = "done"])
    BY <1>4 DEF CycleCheck
  <2>2. doWork' \/ wpc'[v] = "stage" => doWork \/ wpc[v] = "stage"
    <3>1. wpc' = [wpc EXCEPT ![w] = "done"] /\ wpc'[v] = "stage" => wpc[v] = "stage"
      BY <1>2
    <3>2. QED
      BY <2>1, <3>1, Zenon
  <2>3. QED
    BY <1>3, <2>1, <2>2
<1>5. CASE StageAlloc(w)
  BY <1>3, <1>5 DEF StageAlloc
<1>6. CASE Amend(w)
  <2> DEFINE s == BaseIdx(w) + (Len(staged[w]) % IedNum(w))
  <2>1. /\ OwnOf(w)' /\ ChainOf(w)' /\ GivenOf(w)' /\ ied' = [ied EXCEPT ![s] = @ + 1]
    BY <1>1, <1>6, ChainAmend
  <2>2. s \in Stream /\ Mine(w, s)
    BY <1>6, Planned DEF Amend
  <2> HIDE DEF s
  <2>3. CASE v = w
    BY <2>1, <2>3
  <2>4. CASE v # w
    <3>1. staged'[v] = staged[v] /\ UNCHANGED <<doWork, wpc, txq, wire>>
      BY <1>2, <1>6, <2>4 DEF Amend
    <3>2. Pending(v)' = Pending(v)
      BY <3>1 DEF Pending
    <3>3. \A x \in Stream : Mine(v, x) => wire'[x] = wire[x] /\ ied'[x] = ied[x]
      <4> TAKE x \in Stream
      <4>1. Mine(v, x) => x # s
        BY <2>2, <2>4, Workers
      <4>2. QED
        BY <1>2, <2>1, <3>1, <4>1
    <3>4. QED
      BY <1>1, <3>1, <3>2, <3>3, ChainKept
  <2>5. QED
    BY <2>3, <2>4
<1>7. CASE StageEnd(w)
  <2>1. UNCHANGED <<doWork, ied, txq, wire>>
    BY <1>7 DEF StageEnd
  <2>2. CASE doWork
    BY <1>3, <1>7, <2>1, <2>2 DEF StageEnd
  <2>3. CASE ~doWork
    <3>1. staged' = [staged EXCEPT ![w] = << >>] /\ wpc' = [wpc EXCEPT ![w] = "done"]
      BY <1>7, <2>3 DEF StageEnd
    <3>2. CASE v = w
      <4>1. txq'[w] = txq[w] /\ staged'[w] = << >> /\ wire' = wire /\ wpc'[w] # "stage"
        BY <1>2, <2>1, <3>1
      <4>2. ~doWork'
        BY <2>1, <2>3, Zenon
      <4>3. QED
        BY <1>1, <3>2, <4>1, <4>2, ChainDropped
    <3>3. CASE v # w
      <4>1. staged'[v] = staged[v] /\ wpc'[v] = wpc[v]
        BY <1>2, <3>1, <3>3
      <4>2. Pending(v)' = Pending(v)
        BY <2>1, <4>1 DEF Pending
      <4>3. doWork' \/ wpc'[v] = "stage" => doWork \/ wpc[v] = "stage"
        BY <2>1, <4>1, Zenon
      <4>4. QED
        BY <1>1, <2>1, <4>2, <4>3, ChainKept
    <3>4. QED
      BY <3>2, <3>3
  <2>4. QED
    BY <2>2, <2>3
<1>8. CASE Fire(w)
  <2>1. UNCHANGED <<doWork, wpc, ied, wire>>
    BY <1>8 DEF Fire
  <2>2. Pending(v)' = Pending(v)
    <3>1. CASE v = w
      BY <1>8, <3>1, FirePending
    <3>2. CASE v # w
      <4>1. txq'[v] = txq[v] /\ staged'[v] = staged[v]
        BY <1>2, <1>8, <3>2 DEF Fire
      <4>2. QED
        BY <4>1 DEF Pending
    <3>3. QED
      BY <3>1, <3>2
  <2>3. doWork' \/ wpc'[v] = "stage" => doWork \/ wpc[v] = "stage"
    BY <2>1, Zenon
  <2>4. QED
    BY <1>1, <2>1, <2>2, <2>3, ChainKept
<1>9. CASE FireEnd(w)
  <2>1. /\ UNCHANGED <<doWork, ied, txq, wire>>
        /\ staged' = [staged EXCEPT ![w] = << >>] /\ wpc' = [wpc EXCEPT ![w] = "top"]
        /\ (staged[w] = << >> \/ ~doWork)
    BY <1>9 DEF FireEnd
  <2>2. CASE v = w /\ ~doWork
    <3>1. txq'[w] = txq[w] /\ staged'[w] = << >> /\ wire' = wire /\ wpc'[w] # "stage"
      BY <1>2, <2>1
    <3>2. ~doWork'
      BY <2>1, <2>2, Zenon
    <3>3. QED
      BY <1>1, <2>2, <3>1, <3>2, ChainDropped
  <2>3. CASE ~(v = w /\ ~doWork)
    <3>1. staged'[v] = staged[v] /\ (wpc'[v] = "top" \/ wpc'[v] = wpc[v])
      BY <1>2, <2>1, <2>3
    <3>2. Pending(v)' = Pending(v)
      BY <2>1, <3>1 DEF Pending
    <3>3. doWork' \/ wpc'[v] = "stage" => doWork \/ wpc[v] = "stage"
      <4>1. wpc'[v] = "stage" => wpc[v] = "stage"
        BY <3>1
      <4>2. QED
        BY <2>1, <4>1, Zenon
    <3>4. QED
      BY <1>1, <2>1, <3>2, <3>3, ChainKept
  <2>4. QED
    BY <2>2, <2>3
<1>10. QED
  BY <1>4, <1>5, <1>6, <1>7, <1>8, <1>9 DEF WorkerStep

\* Every step keeps the chains; only a Transmit changes what is on the wire,
\* by the number that follows.
LEMMA ChainStep ==
  ASSUME Base, Chain, [Next]_vars
  PROVE  /\ Chain'
         /\ \/ wire' = wire
            \/ \E s \in Stream : wire' = [wire EXCEPT ![s] = wire[s] + 1]
<1>1. CASE Stop
  <2>1. doWork /\ UNCHANGED <<staged, txq, ied, wire, wpc>>
    BY <1>1 DEF Stop, workerVars
  <2>2. ASSUME NEW v \in Worker PROVE OwnOf(v)' /\ ChainOf(v)' /\ GivenOf(v)'
    <3>1. Pending(v)' = Pending(v)
      BY <2>1 DEF Pending
    <3>2. QED
      BY <2>1, <3>1, ChainKept DEF Base, Chain
  <2>3. QED
    BY <2>1, <2>2 DEF Chain
<1>2. ASSUME NEW w \in Worker, WorkerStep(w) PROVE Chain' /\ wire' = wire
  <2>1. wire' = wire
    BY <1>2 DEF WorkerStep, CycleCheck, StageAlloc, Amend, StageEnd, Fire, FireEnd
  <2>2. QED
    BY <1>2, <2>1, ChainWorker DEF Chain
<1>3. ASSUME NEW w \in Worker, Transmit(w)
      PROVE  Chain' /\ \E s \in Stream : wire' = [wire EXCEPT ![s] = wire[s] + 1]
  <2>1. BurstType /\ OwnOf(w) /\ ChainOf(w) /\ GivenOf(w)
    BY DEF Base, Chain
  <2>2. OwnOf(w)' /\ ChainOf(w)' /\ GivenOf(w)'
    BY <1>3, <2>1, ChainTransmit
  <2>3. PICK s \in Stream : Mine(w, s) /\ wire' = [wire EXCEPT ![s] = wire[s] + 1]
    BY <1>3, <2>1, ChainTransmit
  <2>4. ASSUME NEW v \in Worker, v # w PROVE OwnOf(v)' /\ ChainOf(v)' /\ GivenOf(v)'
    <3>1. txq'[v] = txq[v] /\ UNCHANGED <<doWork, wpc, staged, ied>>
      BY <1>3, <2>4 DEF Transmit, workerVars, Base, BurstType
    <3>2. Pending(v)' = Pending(v)
      BY <3>1 DEF Pending
    <3>3. \A x \in Stream : Mine(v, x) => wire'[x] = wire[x] /\ ied'[x] = ied[x]
      <4> TAKE x \in Stream
      <4>1. Mine(v, x) => x # s
        BY <2>3, <2>4, Workers
      <4>2. wire \in [Stream -> Nat]
        BY DEF Base, BurstType
      <4>3. QED
        BY <2>3, <3>1, <4>1, <4>2
    <3>4. doWork' \/ wpc'[v] = "stage" => doWork \/ wpc[v] = "stage"
      BY <3>1, Zenon
    <3>5. QED
      BY <3>2, <3>3, <3>4, ChainKept DEF Base, Chain
  <2>5. QED
    BY <2>2, <2>3, <2>4 DEF Chain
<1>4. CASE UNCHANGED vars
  <2>1. UNCHANGED <<doWork, staged, txq, ied, wire, wpc>>
    BY <1>4 DEF vars, workerVars
  <2>2. ASSUME NEW v \in Worker PROVE OwnOf(v)' /\ ChainOf(v)' /\ GivenOf(v)'
    <3>1. Pending(v)' = Pending(v)
      BY <2>1 DEF Pending
    <3>2. doWork' \/ wpc'[v] = "stage" => doWork \/ wpc[v] = "stage"
      BY <2>1, Zenon
    <3>3. QED
      BY <2>1, <3>1, <3>2, ChainKept DEF Base, Chain
  <2>3. QED
    BY <2>1, <2>2 DEF Chain
<1>5. QED
  BY <1>1, <1>2, <1>3, <1>4 DEF Next, Exited, Stop

\* The base and the chains are invariant.
LEMMA ChainInvariant == Spec => [](Base /\ Chain)
<1>1. Init => Base /\ Chain
  BY BaseInit, ChainInit
<1>2. Base /\ Chain /\ [Next]_vars => Base' /\ Chain'
  BY BaseStep, ChainStep
<1>3. QED
  BY <1>1, <1>2, PTL DEF Spec

\* PublicationSpec: burst mode implements the publisher the receiver's gap
\* counters assume.  The frames of every stream reach the wire with
\* consecutive numbers, whatever the queues take, how often the pool runs dry
\* and wherever the run is stopped.
THEOREM NoGapOnTheWire == Spec => PublicationSpec
<1>1. Init => Publication!Init
  BY DEF Init, Publication!Init
<1>2. Base /\ Chain /\ [Next]_vars => [Publication!Next]_wire
  <2> SUFFICES ASSUME Base, Chain, [Next]_vars PROVE [Publication!Next]_wire
    OBVIOUS
  <2>1. CASE wire' = wire
    BY <2>1
  <2>2. CASE \E s \in Stream : wire' = [wire EXCEPT ![s] = wire[s] + 1]
    BY <2>2 DEF Publication!Next, Publication!Publish
  <2>3. QED
    BY <2>1, <2>2, ChainStep
<1>3. QED
  BY <1>1, <1>2, ChainInvariant, PTL DEF Spec, PublicationSpec, Publication!Spec

-----------------------------------------------------------------------------
(* No mbuf is lost.                                                        *)

\* What a worker holds is a number.
LEMMA HeldNat ==
  ASSUME BurstType, NEW w \in Worker
  PROVE  /\ cache[w] \in Nat /\ granted[w] \in Nat /\ Len(staged[w]) \in Nat
         /\ Len(txq[w]) \in Nat /\ txDone[w] \in Nat /\ pool \in Nat
         /\ Held(w) \in Nat
<1>1. cache[w] \in Nat /\ granted[w] \in Nat /\ txDone[w] \in Nat /\ pool \in Nat
  BY Sizes DEF BurstType
<1>2. Len(staged[w]) \in Nat /\ Len(txq[w]) \in Nat
  BY BurstSize
<1>3. Held(w) = cache[w] + granted[w] + Len(staged[w]) + Len(txq[w]) + txDone[w]
  BY Zenon DEF Held
<1> DEFINE a == Len(staged[w])
           b == Len(txq[w])
<1>4. a \in Nat /\ b \in Nat /\ Held(w) = cache[w] + granted[w] + a + b + txDone[w]
  BY <1>2, <1>3
<1> HIDE DEF a, b
<1>5. Held(w) \in Nat
  BY <1>1, <1>4
<1>6. QED
  BY <1>1, <1>2, <1>5

\* The next state.
LEMMA HeldNatNext ==
  ASSUME BurstType', NEW w \in Worker
  PROVE  Held(w)' \in Nat
<1>1. cache'[w] \in Nat /\ granted'[w] \in Nat /\ txDone'[w] \in Nat
  BY Sizes DEF BurstType
<1>2. Len(staged'[w]) \in Nat /\ Len(txq'[w]) \in Nat
  <2>1. staged'[w] \in Seq(Frame) /\ txq'[w] \in Seq(Frame)
    BY DEF BurstType
  <2>2. QED
    BY <2>1, LenProperties
<1> DEFINE a == Len(staged'[w])
           b == Len(txq'[w])
<1>3. Held(w)' = cache'[w] + granted'[w] + a + b + txDone'[w]
  BY Zenon DEF Held
<1>4. a \in Nat /\ b \in Nat
  BY <1>2
<1> HIDE DEF a, b
<1>5. QED
  BY <1>1, <1>3, <1>4

\* What one worker takes from the pool it holds.
LEMMA MbufsMoved ==
  ASSUME Base, Base', MbufsConserved, NEW w \in Worker,
         pool' + Held(w)' = pool + Held(w),
         \A v \in Worker : v # w => Held(v)' = Held(v)
  PROVE  MbufsConserved'
<1> DEFINE f == [v \in Worker |-> Held(v)]
           g == [v \in Worker |-> Held(v)']
           n == WorkerNum
<1>1. \A v \in Worker : Held(v) \in Nat
  BY HeldNat DEF Base
<1>2. \A v \in Worker : Held(v)' \in Nat
  BY HeldNatNext DEF Base
<1>3. pool \in Nat /\ pool' \in Nat
  BY DEF Base, BurstType
<1>4. n \in Nat /\ w \in 0 .. n - 1 /\ Worker = 0 .. n - 1
  BY Workers DEF Worker
<1>5. \A i \in 0 .. n - 1 : f[i] \in Int /\ g[i] \in Int
  BY <1>1, <1>2, <1>4
<1>6. \A i \in 0 .. n - 1 : i # w => g[i] = f[i]
  BY <1>4
<1>7. f[w] = Held(w) /\ g[w] = Held(w)' /\ f[w] \in Int /\ g[w] \in Int
  BY <1>1, <1>2
<1>8. MbufsConserved <=> pool + SumBelow(f, n) + RX_DESC_NUM = MBUF_NUM
  BY DEF MbufsConserved
<1>9. MbufsConserved' <=> pool' + SumBelow(g, n) + RX_DESC_NUM = MBUF_NUM
  BY DEF MbufsConserved
<1> HIDE DEF f, g, n
<1>10. SumBelow(g, n) = SumBelow(f, n) + (g[w] - f[w])
  BY <1>4, <1>5, <1>6, SumUpdate
<1>11. SumBelow(f, n) \in Int
  <2>1. \A i \in 0 .. n - 1 : f[i] \in Int /\ f[i] <= f[i]
    BY <1>5
  <2>2. QED
    BY <1>4, <2>1, SumCompare
<1>12. pool' + g[w] = pool + f[w]
  BY <1>7
<1>13. QED
  BY <1>3, <1>7, <1>8, <1>9, <1>10, <1>11, <1>12, Sizes

\* Nothing changes hands.
LEMMA MbufsKept ==
  ASSUME Base, Base', MbufsConserved, pool' = pool, \A v \in Worker : Held(v)' = Held(v)
  PROVE  MbufsConserved'
<1>1. [v \in Worker |-> Held(v)'] = [v \in Worker |-> Held(v)]
  OBVIOUS
<1>2. QED
  BY <1>1 DEF MbufsConserved

\* The start.
LEMMA MbufsInit == Init => MbufsConserved
<1> SUFFICES ASSUME Init PROVE MbufsConserved
  OBVIOUS
<1> DEFINE f == [v \in Worker |-> Held(v)]
<1>1. WorkerNum \in Nat /\ Worker = 0 .. WorkerNum - 1
  BY Workers DEF Worker
<1>2. \A v \in Worker : f[v] = 0
  <2> TAKE v \in Worker
  <2>1. cache[v] = 0 /\ granted[v] = 0 /\ staged[v] = << >> /\ txq[v] = << >> /\ txDone[v] = 0
    BY DEF Init
  <2>2. Len(<< >>) = 0
    BY EmptySeq
  <2>3. QED
    BY <2>1, <2>2 DEF Held
<1>3. MbufsConserved <=> pool + SumBelow(f, WorkerNum) + RX_DESC_NUM = MBUF_NUM
  BY DEF MbufsConserved
<1> HIDE DEF f
<1>4. SumBelow(f, WorkerNum) = 0
  BY <1>1, <1>2, SumOfZeros
<1>5. pool = MBUF_NUM - RX_DESC_NUM
  BY DEF Init
<1>6. QED
  BY <1>3, <1>4, <1>5, Sizes

\* Every step keeps the mbufs together.
LEMMA MbufsStep ==
  ASSUME Base, Base', MbufsConserved, [Next]_vars
  PROVE  MbufsConserved'
<1>1. ASSUME UNCHANGED <<pool, cache, granted, staged, txq, txDone>> PROVE MbufsConserved'
  <2>1. \A v \in Worker : Held(v)' = Held(v)
    BY <1>1 DEF Held
  <2>2. QED
    BY <1>1, <2>1, MbufsKept
<1>2. ASSUME NEW w \in Worker, WorkerStep(w) \/ Transmit(w) PROVE MbufsConserved'
  <2>1. /\ cache \in [Worker -> 0 .. CACHE_NUM] /\ granted \in [Worker -> 0 .. BURST_SIZE]
        /\ staged \in [Worker -> Seq(Frame)] /\ txq \in [Worker -> Seq(Frame)]
        /\ txDone \in [Worker -> Nat]
    BY DEF Base, BurstType
  <2>2. /\ cache[w] \in Nat /\ granted[w] \in Nat /\ Len(staged[w]) \in Nat
        /\ Len(txq[w]) \in Nat /\ txDone[w] \in Nat /\ pool \in Nat /\ cache[w] \in 0 .. CACHE_NUM
    BY <2>1, HeldNat DEF Base
  <2> DEFINE a == Len(staged[w])
             b == Len(txq[w])
  <2>20. Held(w) = cache[w] + granted[w] + a + b + txDone[w]
    BY Zenon DEF Held
  <2>21. a \in Nat /\ b \in Nat
    BY <2>2
  <2> HIDE DEF a, b
  <2>22. /\ cache[w] \in Nat /\ granted[w] \in Nat /\ txDone[w] \in Nat /\ pool \in Nat
    BY <2>2
  <2> DEFINE Same(v) == /\ cache'[v] = cache[v] /\ granted'[v] = granted[v]
                        /\ staged'[v] = staged[v] /\ txq'[v] = txq[v] /\ txDone'[v] = txDone[v]
  <2>3. ASSUME \A v \in Worker : v # w => Same(v),
               pool' + Held(w)' = pool + Held(w)
        PROVE  MbufsConserved'
    <3>1. \A v \in Worker : v # w => Held(v)' = Held(v)
      BY <2>3 DEF Held
    <3>2. QED
      BY <2>3, <3>1, MbufsMoved
  <2>4. Len(<< >>) = 0
    BY EmptySeq
  <2>5. CASE Transmit(w)
    <3>1. /\ txq' = [txq EXCEPT ![w] = Tail(txq[w])] /\ txq[w] # << >>
          /\ txDone' = [txDone EXCEPT ![w] = txDone[w] + 1]
          /\ UNCHANGED <<pool, cache, granted, staged>>
      BY <2>5 DEF Transmit, workerVars
    <3>2. Len(Tail(txq[w])) = Len(txq[w]) - 1
      BY <2>1, <3>1, HeadTailProperties
    <3>3. /\ Len(txq'[w]) = b - 1 /\ txDone'[w] = txDone[w] + 1 /\ Len(staged'[w]) = a
          /\ cache'[w] = cache[w] /\ granted'[w] = granted[w]
      BY <2>1, <3>1, <3>2 DEF a, b
    <3>30. Held(w)' = cache[w] + granted[w] + a + (b - 1) + (txDone[w] + 1)
      BY <3>3, Zenon DEF Held
    <3>31. pool' = pool
      BY <3>1
    <3>32. Held(w)' = Held(w)
      BY <2>20, <2>21, <2>22, <3>30
    <3>4. pool' + Held(w)' = pool + Held(w)
      BY <3>31, <3>32
    <3>5. \A v \in Worker : v # w => Same(v)
      BY <2>1, <3>1
    <3>6. QED
      BY <2>3, <3>4, <3>5
  <2>6. CASE CycleCheck(w)
    BY <1>1, <2>6 DEF CycleCheck
  <2>7. CASE StageAlloc(w)
    <3> DEFINE num == Chunk(Total(w), Len(staged[w]))
               own == AllocFromCache(cache[w], num)
               kept == FreeToCache(cache[w], txDone[w])
    <3>1. /\ granted[w] = 0 /\ UNCHANGED <<staged, txq>>
          /\ \/ /\ cache' = [cache EXCEPT ![w] = cache[w] - own]
                /\ pool' = pool - (num - own)
                /\ granted' = [granted EXCEPT ![w] = num]
                /\ txDone' = txDone
             \/ /\ cache' = [cache EXCEPT ![w] = cache[w] + kept]
                /\ pool' = pool + (txDone[w] - kept)
                /\ txDone' = [txDone EXCEPT ![w] = 0]
                /\ granted' = granted
      BY <2>7 DEF StageAlloc, Staging, Cleanup, Free
    <3>2. num \in Int /\ own \in Int /\ kept \in Int
      <4>1. Total(w) \in Nat
        BY BurstSize DEF Base
      <4>2. num \in Int
        BY <2>2, <4>1, Sizes DEF Chunk, Least
      <4>3. kept \in Int
        BY <2>2, Sizes DEF FreeToCache, Least
      <4> HIDE DEF num, kept
      <4>4. own \in Int
        BY <2>2, <4>2 DEF AllocFromCache, Least
      <4>5. QED
        BY <4>2, <4>3, <4>4
    <3> HIDE DEF num, own, kept
    <3>3. \A v \in Worker : v # w => Same(v)
      BY <2>1, <3>1
    <3>4. /\ Len(staged'[w]) = a /\ Len(txq'[w]) = b
          /\ \/ /\ cache'[w] = cache[w] - own /\ pool' = pool - (num - own)
                /\ granted'[w] = num /\ txDone'[w] = txDone[w]
             \/ /\ cache'[w] = cache[w] + kept /\ pool' = pool + (txDone[w] - kept)
                /\ txDone'[w] = 0 /\ granted'[w] = 0
      BY <2>1, <3>1 DEF a, b
    <3>40. \/ Held(w)' = (cache[w] - own) + num + a + b + txDone[w] /\ pool' = pool - (num - own)
           \/ Held(w)' = (cache[w] + kept) + 0 + a + b + 0 /\ pool' = pool + (txDone[w] - kept)
      BY <3>4, Zenon DEF Held
    <3>41. granted[w] = 0
      BY <3>1
    <3>5. pool' + Held(w)' = pool + Held(w)
      BY <2>20, <2>21, <2>22, <3>2, <3>40, <3>41
    <3>6. QED
      BY <2>3, <3>3, <3>5
  <2>8. CASE Amend(w)
    <3>1. PICK f : staged' = [staged EXCEPT ![w] = Append(staged[w], f)]
      BY <2>8 DEF Amend
    <3>2. granted' = [granted EXCEPT ![w] = granted[w] - 1] /\ UNCHANGED <<pool, cache, txq, txDone>>
      BY <2>8 DEF Amend
    <3>3. Len(Append(staged[w], f)) = Len(staged[w]) + 1
      BY <2>1
    <3>4. /\ Len(staged'[w]) = a + 1 /\ granted'[w] = granted[w] - 1
          /\ cache'[w] = cache[w] /\ Len(txq'[w]) = b /\ txDone'[w] = txDone[w]
      BY <2>1, <3>1, <3>2, <3>3 DEF a, b
    <3>40. Held(w)' = cache[w] + (granted[w] - 1) + (a + 1) + b + txDone[w]
      BY <3>4, Zenon DEF Held
    <3>41. pool' = pool
      BY <3>2
    <3>5. pool' + Held(w)' = pool + Held(w)
      BY <2>20, <2>21, <2>22, <3>40, <3>41
    <3>6. \A v \in Worker : v # w => Same(v)
      BY <2>1, <3>1, <3>2
    <3>7. QED
      BY <2>3, <3>5, <3>6
  <2>9. CASE StageEnd(w)
    <3> DEFINE kept == FreeToCache(cache[w], Len(staged[w]))
    <3>1. CASE doWork
      BY <1>1, <2>9, <3>1 DEF StageEnd
    <3>2. CASE ~doWork
      <4>1. /\ cache' = [cache EXCEPT ![w] = cache[w] + kept]
            /\ pool' = pool + (Len(staged[w]) - kept)
            /\ staged' = [staged EXCEPT ![w] = << >>]
            /\ UNCHANGED <<granted, txq, txDone>>
        BY <2>9, <3>2 DEF StageEnd, Free
      <4>2. kept \in Int
        BY <2>2, Sizes DEF FreeToCache, Least
      <4> HIDE DEF kept
      <4>3. /\ cache'[w] = cache[w] + kept /\ Len(staged'[w]) = 0
            /\ granted'[w] = granted[w] /\ Len(txq'[w]) = b /\ txDone'[w] = txDone[w]
        BY <2>1, <2>4, <4>1 DEF b
      <4>30. Held(w)' = (cache[w] + kept) + granted[w] + 0 + b + txDone[w]
        BY <4>3, Zenon DEF Held
      <4>31. pool' = pool + (a - kept)
        BY <4>1 DEF a
      <4>4. pool' + Held(w)' = pool + Held(w)
        BY <2>20, <2>21, <2>22, <4>2, <4>30, <4>31
      <4>5. \A v \in Worker : v # w => Same(v)
        BY <2>1, <4>1
      <4>6. QED
        BY <2>3, <4>4, <4>5
    <3>3. QED
      BY <3>1, <3>2
  <2>10. CASE Fire(w)
    <3> DEFINE kept == FreeToCache(cache[w], txDone[w])
    <3>1. PICK nb \in Nat :
           /\ txq' = [txq EXCEPT ![w] = txq[w] \o Prefix(staged[w], nb)]
           /\ staged' = [staged EXCEPT ![w] = Rest(staged[w], nb)]
           /\ Len(txq[w] \o Prefix(staged[w], nb)) = Len(txq[w]) + nb
           /\ Len(Rest(staged[w], nb)) = Len(staged[w]) - nb
      BY <2>10, FireMoves
    <3>2. /\ cache' = [cache EXCEPT ![w] = cache[w] + kept]
          /\ pool' = pool + (txDone[w] - kept)
          /\ txDone' = [txDone EXCEPT ![w] = 0]
          /\ granted' = granted
      BY <2>10 DEF Fire, Free
    <3>3. kept \in Int
      BY <2>2, Sizes DEF FreeToCache, Least
    <3> HIDE DEF kept
    <3>4. /\ Len(txq'[w]) = b + nb /\ Len(staged'[w]) = a - nb
          /\ cache'[w] = cache[w] + kept /\ txDone'[w] = 0 /\ granted'[w] = granted[w]
      BY <2>1, <3>1, <3>2 DEF a, b
    <3>40. Held(w)' = (cache[w] + kept) + granted[w] + (a - nb) + (b + nb) + 0
      BY <3>4, Zenon DEF Held
    <3>41. pool' = pool + (txDone[w] - kept)
      BY <3>2
    <3>5. pool' + Held(w)' = pool + Held(w)
      BY <2>20, <2>21, <2>22, <3>3, <3>40, <3>41
    <3>6. \A v \in Worker : v # w => Same(v)
      BY <2>1, <3>1, <3>2
    <3>7. QED
      BY <2>3, <3>5, <3>6
  <2>11. CASE FireEnd(w)
    <3> DEFINE kept == FreeToCache(cache[w], Len(staged[w]))
    <3>1. /\ cache' = [cache EXCEPT ![w] = cache[w] + kept]
          /\ pool' = pool + (Len(staged[w]) - kept)
          /\ staged' = [staged EXCEPT ![w] = << >>]
          /\ UNCHANGED <<granted, txq, txDone>>
      BY <2>11 DEF FireEnd, Free, Remainder
    <3>2. kept \in Int
      BY <2>2, Sizes DEF FreeToCache, Least
    <3> HIDE DEF kept
    <3>3. /\ cache'[w] = cache[w] + kept /\ Len(staged'[w]) = 0
          /\ granted'[w] = granted[w] /\ Len(txq'[w]) = b /\ txDone'[w] = txDone[w]
      BY <2>1, <2>4, <3>1 DEF b
    <3>30. Held(w)' = (cache[w] + kept) + granted[w] + 0 + b + txDone[w]
      BY <3>3, Zenon DEF Held
    <3>31. pool' = pool + (a - kept)
      BY <3>1 DEF a
    <3>4. pool' + Held(w)' = pool + Held(w)
      BY <2>20, <2>21, <2>22, <3>2, <3>30, <3>31
    <3>5. \A v \in Worker : v # w => Same(v)
      BY <2>1, <3>1
    <3>6. QED
      BY <2>3, <3>4, <3>5
  <2>12. QED
    BY <1>2, <2>5, <2>6, <2>7, <2>8, <2>9, <2>10, <2>11 DEF WorkerStep
<1>3. CASE Stop
  BY <1>1, <1>3 DEF Stop, workerVars
<1>4. CASE UNCHANGED vars
  BY <1>1, <1>4 DEF vars, workerVars
<1>5. QED
  BY <1>2, <1>3, <1>4 DEF Next, Exited

\* The base and the mbufs are invariant.
LEMMA MbufsInvariant == Spec => [](Base /\ MbufsConserved)
<1>1. Init => Base /\ MbufsConserved
  BY BaseInit, MbufsInit
<1>2. Base /\ MbufsConserved /\ [Next]_vars => Base' /\ MbufsConserved'
  BY BaseStep, MbufsStep
<1>3. QED
  BY <1>1, <1>2, PTL DEF Spec

\* MbufsConserved: in burst mode every mbuf is in the pool, in a cache, on the
\* RX ring or held by one worker, also on the two ways a stopped run leaves the
\* loop.
THEOREM BurstKeepsMbufs == Spec => []MbufsConserved
BY MbufsInvariant, PTL

\* TypeOK: the types, and with them that no queue has more frames than
\* descriptors, no cache and not the pool is overfilled and no worker has more
\* mbufs than its burst has frames.
THEOREM BurstTypes == Spec => []TypeOK
<1>1. Base /\ MbufsConserved => pool <= MBUF_NUM
  <2> SUFFICES ASSUME Base, MbufsConserved PROVE pool <= MBUF_NUM
    OBVIOUS
  <2> DEFINE f == [v \in Worker |-> Held(v)]
             z == [v \in Worker |-> 0]
             n == WorkerNum
  <2>1. n \in Nat /\ Worker = 0 .. n - 1
    BY Workers DEF Worker
  <2>2. \A i \in 0 .. n - 1 : z[i] \in Int /\ f[i] \in Int /\ z[i] <= f[i] /\ z[i] = 0
    <3>1. \A v \in Worker : Held(v) \in Nat
      BY HeldNat DEF Base
    <3>2. QED
      BY <2>1, <3>1
  <2>3. pool + SumBelow(f, n) + RX_DESC_NUM = MBUF_NUM
    BY DEF MbufsConserved
  <2> HIDE DEF f, z, n
  <2>4. SumBelow(z, n) <= SumBelow(f, n) /\ SumBelow(f, n) \in Int
    BY <2>1, <2>2, SumCompare
  <2>5. SumBelow(z, n) = 0
    BY <2>1, <2>2, SumOfZeros
  <2>6. pool \in Nat
    BY DEF Base, BurstType
  <2>7. QED
    BY <2>3, <2>4, <2>5, <2>6, Sizes
<1>2. (doWork \in BOOLEAN) /\ [Next]_vars => (doWork \in BOOLEAN)'
  <2>1. [Next]_vars => doWork' = FALSE \/ doWork' = doWork
    BY DEF Next, vars, Stop, WorkerStep, CycleCheck, StageAlloc, Amend, StageEnd, Fire, FireEnd,
       Transmit, Exited
  <2>2. QED
    BY <2>1, Zenon
<1>3. Init => doWork \in BOOLEAN
  BY Zenon DEF Init
<1>4. Base /\ doWork \in BOOLEAN /\ pool <= MBUF_NUM => TypeOK
  BY Sizes DEF Base, BurstType, RoomOf, TypeOK
<1>5. QED
  BY <1>1, <1>2, <1>3, <1>4, MbufsInvariant, PTL DEF Spec

-----------------------------------------------------------------------------
(* The whole second.                                                       *)

\* The j-th stream of a worker.
LEMMA Jth ==
  ASSUME NEW w \in Worker, NEW j \in 0 .. IedNum(w) - 1
  PROVE  BaseIdx(w) + j \in Stream /\ Mine(w, BaseIdx(w) + j)
<1>1. BaseIdx(w) \in Nat /\ IedNum(w) \in Nat
  BY Workers
<1>2. Mine(w, BaseIdx(w) + j) /\ BaseIdx(w) + j \in Nat
  BY <1>1 DEF Mine
<1>3. QED
  BY <1>2, Workers

\* One frame more of the plan.
LEMMA SpreadNext ==
  ASSUME NEW i \in [Stream -> Nat], NEW w \in Worker, NEW r \in Nat, NEW l \in Nat,
         NEW m, m = l + 1, Spread(i, w, r, l),
         NEW k, k = [i EXCEPT ![BaseIdx(w) + (l % IedNum(w))] = @ + 1]
  PROVE  Spread(k, w, r, m)
<1> DEFINE n == IedNum(w)
           b == BaseIdx(w)
<1>1. n \in Nat \ {0} /\ b \in Nat
  BY Workers
<1>2. ASSUME NEW j \in 0 .. n - 1 PROVE k[b + j] = r + Reps(m, n, j)
  <2>1. b + j \in Stream
    BY <1>2, Jth
  <2>2. i[b + j] = r + Reps(l, n, j) /\ i[b + j] \in Nat
    BY <1>2, <2>1 DEF Spread
  <2>3. /\ Reps(l, n, j) \in Nat
        /\ j = l % n => Reps(m, n, j) = Reps(l, n, j) + 1
        /\ j # l % n => Reps(m, n, j) = Reps(l, n, j)
    BY <1>1, <1>2, RepsNext
  <2> DEFINE e == l % n
  <2>4. e \in Nat /\ e < n
    BY <1>1, NextMod
  <2>5. k = [i EXCEPT ![b + e] = @ + 1] /\ e \in 0 .. n - 1
    BY <2>4, <1>1
  <2>6. b + e \in Stream
    BY <2>5, Jth
  <2> HIDE DEF e, n, b
  <2>7. j = e => k[b + j] = i[b + j] + 1
    BY <2>5, <2>6
  <2>8. j # e => k[b + j] = i[b + j]
    BY <1>1, <1>2, <2>1, <2>4, <2>5, <2>6
  <2> DEFINE x == Reps(l, n, j)
             y == Reps(m, n, j)
             u == i[b + j]
             z == k[b + j]
  <2>9. u = r + x /\ x \in Nat /\ (j = e => y = x + 1 /\ z = u + 1) /\ (j # e => y = x /\ z = u)
    BY <2>2, <2>3, <2>7, <2>8 DEF e
  <2> HIDE DEF x, y, u, z
  <2>10. z = r + y
    BY <2>9
  <2>11. QED
    BY <2>10 DEF z, y
<1>3. QED
  BY <1>2 DEF Spread

\* A whole burst.
LEMMA SpreadWhole ==
  ASSUME NEW i, NEW w \in Worker, NEW f \in Nat, NEW b \in Nat \ {0}, NEW l \in Nat,
         l = IedNum(w) * f, Spread(i, w, (b - 1) * f, l)
  PROVE  Spread(i, w, b * f, 0)
<1> DEFINE n == IedNum(w)
<1>1. n \in Nat \ {0}
  BY Workers
<1>2. (b - 1) * f + f = b * f /\ b * f \in Int
  OBVIOUS
<1>3. ASSUME NEW j \in 0 .. n - 1 PROVE i[BaseIdx(w) + j] = b * f + Reps(0, n, j)
  <2>1. Reps(l, n, j) = f
    BY <1>1, <1>3, RepsWhole
  <2>2. Reps(0, n, j) = 0
    BY <1>1, <1>3, RepsNext
  <2>3. i[BaseIdx(w) + j] = (b - 1) * f + Reps(l, n, j)
    BY <1>3 DEF Spread
  <2>4. QED
    BY <1>2, <2>1, <2>2, <2>3
<1>4. QED
  BY <1>3 DEF Spread

\* A worker none of whose streams gets a number.
LEMMA SpreadSame ==
  ASSUME NEW i, NEW k, NEW v \in Worker, NEW r, NEW l, Spread(i, v, r, l),
         \A s \in Stream : Mine(v, s) => k[s] = i[s]
  PROVE  Spread(k, v, r, l)
BY Jth DEF Spread

\* A worker whose plan is left alone keeps the cadence.
LEMMA CadenceKept ==
  ASSUME NEW v \in Worker, CadenceOf(v), freq' = freq, doWork' => doWork,
         \A s \in Stream : Mine(v, s) => ied'[s] = ied[s],
         bursts'[v] = bursts[v], wpc[v] = "stage" <=> wpc'[v] = "stage",
         wpc[v] = "stage" => Len(staged'[v]) = Len(staged[v])
  PROVE  CadenceOf(v)'
<1> SUFFICES ASSUME doWork' PROVE CadenceOf(v)'
  BY DEF CadenceOf
<1>1. CASE wpc[v] = "stage"
  <2> DEFINE r == (bursts[v] - 1) * freq
             l == Len(staged[v])
  <2>1. Spread(ied, v, r, l)
    BY <1>1 DEF CadenceOf
  <2> HIDE DEF r, l
  <2>2. Spread(ied', v, r, l)
    BY <2>1, SpreadSame
  <2>3. (bursts'[v] - 1) * freq' = r /\ Len(staged'[v]) = l
    BY <1>1 DEF r, l
  <2>4. Spread(ied', v, (bursts'[v] - 1) * freq', Len(staged'[v]))
    BY <2>2, <2>3, Zenon
  <2>5. QED
    BY <1>1, <2>4, Zenon DEF CadenceOf, Spread
<1>2. CASE wpc[v] # "stage"
  <2> DEFINE r == bursts[v] * freq
  <2>1. Spread(ied, v, r, 0)
    BY <1>2 DEF CadenceOf
  <2> HIDE DEF r
  <2>2. Spread(ied', v, r, 0)
    BY <2>1, SpreadSame
  <2>3. bursts'[v] * freq' = r
    BY DEF r
  <2>4. Spread(ied', v, bursts'[v] * freq', 0)
    BY <2>2, <2>3, Zenon
  <2>5. QED
    BY <1>2, <2>4, Zenon DEF CadenceOf, Spread
<1>3. QED
  BY <1>1, <1>2

\* The start.
LEMMA CadenceInit == Init => Cadence
<1> SUFFICES ASSUME Init, NEW w \in Worker PROVE CadenceOf(w)
  BY DEF Cadence
<1>1. wpc[w] # "stage" /\ bursts[w] = 0 /\ ied = [s \in Stream |-> 0] /\ freq \in Nat
  BY Sizes DEF Init
<1>2. ASSUME NEW j \in 0 .. IedNum(w) - 1
      PROVE  ied[BaseIdx(w) + j] = 0 /\ Reps(0, IedNum(w), j) = 0
  <2>1. IedNum(w) \in Nat \ {0}
    BY Workers
  <2>2. QED
    BY <1>1, <1>2, <2>1, Jth, RepsNext
<1>3. bursts[w] * freq = 0
  BY <1>1
<1>4. Spread(ied, w, 0, 0)
  BY <1>2 DEF Spread
<1>5. Spread(ied, w, bursts[w] * freq, 0)
  BY <1>3, <1>4, Zenon
<1>6. QED
  BY <1>1, <1>5, Zenon DEF CadenceOf

\* A worker's step keeps its own cadence.
LEMMA CadenceOwn ==
  ASSUME Base, Chain, NEW w \in Worker, CadenceOf(w), WorkerStep(w)
  PROVE  CadenceOf(w)'
<1>1. /\ wpc \in [Worker -> {"top", "stage", "fire", "done"}]
      /\ bursts[w] \in Nat /\ bursts \in [Worker -> 0 .. MaxBursts] /\ freq \in Nat
      /\ staged \in [Worker -> Seq(Frame)] /\ ied \in [Stream -> Nat] /\ Len(staged[w]) \in Nat
  <2>1. /\ wpc \in [Worker -> {"top", "stage", "fire", "done"}]
        /\ bursts \in [Worker -> 0 .. MaxBursts] /\ freq \in Freqs
        /\ staged \in [Worker -> Seq(Frame)] /\ ied \in [Stream -> Nat]
    BY DEF Base, BurstType
  <2>2. bursts[w] \in 0 .. MaxBursts /\ staged[w] \in Seq(Frame)
    BY <2>1
  <2>3. Len(staged[w]) \in Nat
    BY <2>2
  <2>4. bursts[w] \in Nat /\ freq \in Nat
    BY <2>1, <2>2, Sizes
  <2>5. QED
    BY <2>1, <2>3, <2>4
<1>2. Len(<< >>) = 0
  BY EmptySeq
<1>3. CASE CycleCheck(w) /\ doWork
  <2>1. /\ wpc[w] = "top" /\ wpc' = [wpc EXCEPT ![w] = "stage"]
        /\ bursts' = [bursts EXCEPT ![w] = bursts[w] + 1]
        /\ UNCHANGED <<freq, ied, staged>>
    BY <1>3 DEF CycleCheck
  <2>2. Spread(ied, w, bursts[w] * freq, 0)
    BY <1>3, <2>1 DEF CadenceOf
  <2>3. Len(staged'[w]) = 0 /\ wpc'[w] = "stage"
    BY <1>1, <1>2, <2>1 DEF Base, PhaseOf
  <2>4. (bursts'[w] - 1) * freq' = bursts[w] * freq
    BY <1>1, <2>1
  <2>5. Spread(ied', w, (bursts'[w] - 1) * freq', Len(staged'[w]))
    BY <2>1, <2>2, <2>3, <2>4
  <2>6. QED
    BY <2>3, <2>5, Zenon DEF CadenceOf, Spread
<1>4. CASE CycleCheck(w) /\ ~doWork
  BY <1>4 DEF CycleCheck, CadenceOf
<1>5. CASE StageAlloc(w)
  <2>1. UNCHANGED <<freq, doWork, wpc, staged, ied, bursts>>
    BY <1>5 DEF StageAlloc
  <2>2. QED
    BY <2>1, CadenceKept
<1>6. CASE Amend(w)
  <2> DEFINE l == Len(staged[w])
             r == (bursts[w] - 1) * freq
  <2>1. wpc[w] = "stage" /\ UNCHANGED <<freq, doWork, wpc, bursts>>
    BY <1>6 DEF Amend
  <2>2. ied' = [ied EXCEPT ![BaseIdx(w) + (l % IedNum(w))] = @ + 1]
    BY <1>6, ChainAmend DEF Chain
  <2>3. Len(staged'[w]) = l + 1
    <3>1. PICK f : staged' = [staged EXCEPT ![w] = Append(staged[w], f)]
      BY <1>6 DEF Amend
    <3>2. QED
      BY <1>1, <3>1
  <2>4. r \in Nat
    <3>1. bursts[w] >= 1
      BY <2>1 DEF Base, PhaseOf
    <3>2. QED
      BY <1>1, <3>1
  <2>5. CASE doWork
    <3>1. Spread(ied, w, r, l)
      BY <2>1, <2>5 DEF CadenceOf
    <3>2. (bursts'[w] - 1) * freq' = r
      BY <2>1
    <3>3. l \in Nat
      BY <1>1
    <3> HIDE DEF r, l
    <3>4. Spread(ied', w, r, Len(staged'[w]))
      BY <1>1, <2>2, <2>3, <2>4, <3>1, <3>3, SpreadNext
    <3>5. Spread(ied', w, (bursts'[w] - 1) * freq', Len(staged'[w]))
      BY <3>2, <3>4, Zenon
    <3>6. wpc'[w] = "stage"
      BY <2>1
    <3>7. QED
      BY <3>5, <3>6, Zenon DEF CadenceOf, Spread
  <2>6. CASE ~doWork
    BY <2>1, <2>6 DEF CadenceOf
  <2>7. QED
    BY <2>5, <2>6
<1>7. CASE StageEnd(w) /\ doWork
  <2>1. /\ wpc[w] = "stage" /\ Len(staged[w]) = Total(w) /\ wpc' = [wpc EXCEPT ![w] = "fire"]
        /\ UNCHANGED <<freq, bursts, ied>>
    BY <1>7 DEF StageEnd, Staging
  <2>2. Spread(ied, w, (bursts[w] - 1) * freq, Len(staged[w]))
    BY <1>7, <2>1 DEF CadenceOf
  <2>3. bursts[w] \in Nat \ {0} /\ Len(staged[w]) = IedNum(w) * freq
    BY <1>1, <2>1, BurstSize DEF Base, PhaseOf
  <2>4. Spread(ied, w, bursts[w] * freq, 0)
    BY <1>1, <2>2, <2>3, SpreadWhole
  <2>5. Spread(ied', w, bursts'[w] * freq', 0) /\ wpc'[w] # "stage"
    BY <1>1, <2>1, <2>4
  <2>6. QED
    BY <2>5, Zenon DEF CadenceOf, Spread
<1>8. CASE StageEnd(w) /\ ~doWork
  BY <1>8 DEF StageEnd, CadenceOf
<1>9. CASE Fire(w)
  <2>1. wpc[w] = "fire" /\ UNCHANGED <<freq, doWork, wpc, ied, bursts>>
    BY <1>9 DEF Fire
  <2>2. QED
    BY <2>1, CadenceKept
<1>10. CASE FireEnd(w)
  <2>1. wpc[w] = "fire" /\ wpc' = [wpc EXCEPT ![w] = "top"] /\ UNCHANGED <<freq, doWork, ied, bursts>>
    BY <1>10 DEF FireEnd
  <2>2. wpc'[w] # "stage" /\ wpc[w] # "stage"
    BY <1>1, <2>1
  <2>3. QED
    BY <2>1, <2>2, CadenceKept
<1>11. QED
  BY <1>3, <1>4, <1>5, <1>6, <1>7, <1>8, <1>9, <1>10 DEF WorkerStep

\* And that of every other worker.
LEMMA CadenceOthers ==
  ASSUME Base, Chain, NEW w \in Worker, WorkerStep(w), NEW v \in Worker, v # w, CadenceOf(v)
  PROVE  CadenceOf(v)'
<1>1. /\ wpc \in [Worker -> {"top", "stage", "fire", "done"}]
      /\ bursts \in [Worker -> 0 .. MaxBursts]
      /\ staged \in [Worker -> Seq(Frame)] /\ ied \in [Stream -> Nat]
  BY DEF Base, BurstType
<1>2. freq' = freq /\ doWork' = doWork
  BY DEF WorkerStep, CycleCheck, StageAlloc, Amend, StageEnd, Fire, FireEnd
<1>3. wpc'[v] = wpc[v]
  BY <1>1 DEF WorkerStep, CycleCheck, StageAlloc, Amend, StageEnd, Fire, FireEnd
<1>4. bursts'[v] = bursts[v]
  BY <1>1 DEF WorkerStep, CycleCheck, StageAlloc, Amend, StageEnd, Fire, FireEnd
<1>5. staged'[v] = staged[v]
  BY <1>1 DEF WorkerStep, CycleCheck, StageAlloc, Amend, StageEnd, Fire, FireEnd
<1>6. \A s \in Stream : Mine(v, s) => ied'[s] = ied[s]
  <2>1. CASE Amend(w)
    <3> DEFINE t == BaseIdx(w) + (Len(staged[w]) % IedNum(w))
    <3>1. ied' = [ied EXCEPT ![t] = @ + 1]
      BY <2>1, ChainAmend DEF Chain
    <3>2. Mine(w, t) /\ t \in Stream
      BY <2>1, Planned DEF Amend
    <3> HIDE DEF t
    <3>3. QED
      BY <1>1, <3>1, <3>2, Workers
  <2>2. CASE ~Amend(w)
    <3>1. ied' = ied
      BY <2>2 DEF WorkerStep, CycleCheck, StageAlloc, StageEnd, Fire, FireEnd
    <3>2. QED
      BY <3>1
  <2>3. QED
    BY <2>1, <2>2
<1>7. QED
  BY <1>2, <1>3, <1>4, <1>5, <1>6, CadenceKept

\* Every step keeps the cadence.
LEMMA CadenceStep ==
  ASSUME Base, Chain, Cadence, [Next]_vars
  PROVE  Cadence'
<1> SUFFICES ASSUME NEW v \in Worker PROVE CadenceOf(v)'
  BY DEF Cadence, Worker, WorkerNum
<1>1. CadenceOf(v)
  BY DEF Cadence
<1>2. CASE \E w \in Worker : WorkerStep(w)
  BY <1>1, <1>2, CadenceOwn, CadenceOthers
<1>3. CASE Stop
  BY <1>3 DEF Stop, CadenceOf
<1>4. ASSUME UNCHANGED <<freq, doWork, wpc, staged, ied, bursts>> PROVE CadenceOf(v)'
  BY <1>1, <1>4, CadenceKept
<1>5. CASE \E w \in Worker : Transmit(w)
  BY <1>4, <1>5 DEF Transmit, workerVars
<1>6. CASE UNCHANGED vars
  BY <1>4, <1>6 DEF vars, workerVars
<1>7. QED
  BY <1>2, <1>3, <1>5, <1>6 DEF Next, Exited

\* What the queues have taken of a stream of w.
LEMMA TakenIs ==
  ASSUME Base, Chain, NEW w \in Worker, NEW s \in Stream, Mine(w, s)
  PROVE  Taken(s) = wire[s] + Count(txq[w], Len(txq[w]), s)
<1> DEFINE len == [v \in Worker |-> Len(txq[v])]
           P == {p \in Worker \X (1 .. TX_DESC_NUM) : p[2] <= len[p[1]] /\ txq[p[1]][p[2]].s = s}
<1>1. \A v \in Worker : len[v] \in Nat /\ len[v] <= TX_DESC_NUM
  <2>1. \A v \in Worker : Len(txq[v]) \in Nat /\ txDone[v] \in Nat
    BY HeldNat DEF Base
  <2>2. \A v \in Worker : Len(txq[v]) + txDone[v] <= TX_DESC_NUM
    BY DEF Base, RoomOf
  <2>3. QED
    BY <2>1, <2>2, Sizes
<1>2. \A v \in Worker, i \in 1 .. TX_DESC_NUM : v # w /\ i <= len[v] => txq[v][i].s # s
  <2> SUFFICES ASSUME NEW v \in Worker, NEW i \in 1 .. TX_DESC_NUM, v # w, i <= len[v]
               PROVE  txq[v][i].s # s
    OBVIOUS
  <2> DEFINE q == Pending(v)
             k == Len(q)
             n == Len(txq[v])
             m == Len(staged[v])
  <2>1. /\ n \in Nat /\ m \in Nat /\ k = n + m
        /\ \A x \in 1 .. n : q[x] = txq[v][x]
        /\ \A x \in 1 .. k : q[x].s \in Stream
    BY PendingIs DEF Base
  <2>2. \A x \in 1 .. k : Mine(v, q[x].s)
    BY DEF Chain, OwnOf
  <2>3. i <= n
    OBVIOUS
  <2> HIDE DEF q, k, n, m, len
  <2>4. i \in 1 .. n /\ i \in 1 .. k
    BY <2>1, <2>3, Sizes
  <2>5. txq[v][i] = q[i] /\ Mine(v, q[i].s) /\ q[i].s \in Stream
    BY <2>1, <2>2, <2>4
  <2>6. QED
    BY <2>5, Workers
<1>3. Taken(s) = wire[s] + Cardinality(P)
  <2>1. P = {p \in Worker \X (1 .. TX_DESC_NUM) :
               /\ p[2] <= Len(txq[p[1]])
               /\ txq[p[1]][p[2]].s = s}
    OBVIOUS
  <2>2. QED
    BY <2>1, Zenon DEF Taken
<1>4. len[w] = Len(txq[w])
  OBVIOUS
<1> HIDE DEF len
<1>5. Cardinality(P) = Count(txq[w], len[w], s)
  BY <1>1, <1>2, Sizes, CountOfPairs
<1>6. QED
  BY <1>3, <1>4, <1>5

\* The base, the chain and the cadence are invariant.
LEMMA CadenceInvariant == Spec => [](Base /\ Chain /\ Cadence)
<1>1. Init => Base /\ Chain /\ Cadence
  BY BaseInit, ChainInit, CadenceInit
<1>2. Base /\ Chain /\ Cadence /\ [Next]_vars => Base' /\ Chain' /\ Cadence'
  BY BaseStep, ChainStep, CadenceStep
<1>3. QED
  BY <1>1, <1>2, PTL DEF Spec

\* WholeSecond: between two bursts of a run that is not stopping, every stream
\* of the command line has had exactly freq frames per burst taken by its
\* queue, however the queues cut the bursts and however the mbufs came.
THEOREM BurstIsWhole == Spec => []WholeSecond
<1>1. Base /\ Chain /\ Cadence => WholeSecond
  <2> SUFFICES ASSUME Base, Chain, Cadence, doWork, NEW b \in 0 .. MaxBursts,
                      \A w \in Worker : wpc[w] = "top" /\ bursts[w] = b, NEW s \in Stream
               PROVE  Taken(s) = b * freq
    BY DEF WholeSecond
  <2>1. PICK w \in Worker : Mine(w, s)
    BY Workers
  <2> DEFINE q == Pending(w)
             k == Len(q)
             r == txq[w]
             n == Len(r)
  <2>2. staged[w] = << >> /\ wpc[w] = "top" /\ bursts[w] = b
    BY DEF Base, PhaseOf
  <2>3. n \in Nat /\ k = n /\ \A x \in 1 .. n : q[x] = r[x]
    <3>1. Len(staged[w]) = 0
      BY <2>2, EmptySeq
    <3>2. k = n + Len(staged[w]) /\ n \in Nat /\ \A x \in 1 .. n : q[x] = r[x]
      BY PendingIs DEF Base
    <3>3. QED
      BY <3>1, <3>2
  <2>4. ied[s] = wire[s] + Count(q, k, s)
    BY <2>1 DEF Chain, GivenOf
  <2>5. Taken(s) = wire[s] + Count(r, n, s)
    BY <2>1, TakenIs
  <2> HIDE DEF q, k, r, n
  <2>6. Count(q, n, s) = Count(r, n, s)
    BY <2>3, CountSame DEF Alike
  <2>7. Taken(s) = ied[s]
    BY <2>3, <2>4, <2>5, <2>6
  <2>8. ied[s] = b * freq
    <3> DEFINE j == s - BaseIdx(w)
    <3>1. BaseIdx(w) \in Nat /\ IedNum(w) \in Nat \ {0} /\ s \in Nat
      BY Workers DEF Stream
    <3>2. j \in 0 .. IedNum(w) - 1 /\ BaseIdx(w) + j = s
      BY <2>1, <3>1 DEF Mine
    <3>3. Spread(ied, w, b * freq, 0)
      BY <2>2 DEF Cadence, CadenceOf
    <3> HIDE DEF j
    <3>4. ied[s] = b * freq + Reps(0, IedNum(w), j)
      BY <3>2, <3>3 DEF Spread
    <3>5. Reps(0, IedNum(w), j) = 0
      BY <3>1, <3>2, RepsNext
    <3>6. b * freq \in Nat
      <4>1. b \in Nat /\ freq \in Nat
        BY Sizes DEF Base, BurstType
      <4>2. QED
        BY <4>1
    <3>7. QED
      BY <3>4, <3>5, <3>6
  <2>9. QED
    BY <2>7, <2>8
<1>2. QED
  BY <1>1, CadenceInvariant, PTL

-----------------------------------------------------------------------------
(* The statistics.                                                         *)

\* The frames of a worker's streams on the wire are a number, and only the
\* wire of its own streams matters.
LEMMA OnWireIs ==
  ASSUME Base, NEW w \in Worker
  PROVE  /\ OnWire(w) \in Int
         /\ wire' = wire => OnWire(w)' = OnWire(w)
         /\ \A s \in Stream : wire' = [wire EXCEPT ![s] = wire[s] + 1] =>
              /\ Mine(w, s) => OnWire(w)' = OnWire(w) + 1
              /\ ~Mine(w, s) => OnWire(w)' = OnWire(w)
<1> DEFINE n == IedNum(w)
           b == BaseIdx(w)
           f == [i \in 0 .. n - 1 |-> wire[b + i]]
           g == [i \in 0 .. n - 1 |-> wire'[b + i]]
<1>1. n \in Nat \ {0} /\ b \in Nat /\ wire \in [Stream -> Nat]
  BY Workers DEF Base, BurstType
<1>2. \A i \in 0 .. n - 1 : b + i \in Stream /\ Mine(w, b + i)
  BY Jth
<1>3. OnWire(w) = SumBelow(f, n) /\ OnWire(w)' = SumBelow(g, n)
  BY DEF OnWire
<1>4. \A i \in 0 .. n - 1 : f[i] = wire[b + i] /\ f[i] \in Int /\ g[i] = wire'[b + i]
  BY <1>1, <1>2
<1>5. \A s \in Nat : Mine(w, s) <=> b <= s /\ s < b + n
  BY DEF Mine
<1> HIDE DEF n, b, f, g
<1>6. OnWire(w) \in Int
  <2>1. \A i \in 0 .. n - 1 : f[i] \in Int /\ f[i] <= f[i]
    BY <1>4
  <2>2. QED
    BY <1>1, <1>3, <2>1, SumCompare
<1>7. ASSUME \A i \in 0 .. n - 1 : wire'[b + i] = wire[b + i] PROVE OnWire(w)' = OnWire(w)
  <2>1. \A i \in 0 .. n - 1 : f[i] \in Int /\ g[i] = f[i]
    BY <1>4, <1>7
  <2>2. QED
    BY <1>1, <1>3, <2>1, SumSame
<1>8. ASSUME NEW s \in Stream, wire' = [wire EXCEPT ![s] = wire[s] + 1], ~Mine(w, s)
      PROVE  OnWire(w)' = OnWire(w)
  <2>1. \A i \in 0 .. n - 1 : b + i # s
    BY <1>2, <1>8
  <2>2. QED
    BY <1>1, <1>2, <1>7, <1>8, <2>1
<1>9. ASSUME NEW s \in Stream, wire' = [wire EXCEPT ![s] = wire[s] + 1], Mine(w, s)
      PROVE  OnWire(w)' = OnWire(w) + 1
  <2> DEFINE j == s - b
  <2>1. s \in Nat
    BY Workers DEF Stream
  <2>2. j \in 0 .. n - 1 /\ b + j = s
    BY <1>1, <1>5, <1>9, <2>1
  <2> HIDE DEF j
  <2>3. \A i \in 0 .. n - 1 : i # j => b + i # s
    BY <1>1, <2>2
  <2>4. \A i \in 0 .. n - 1 : i # j => g[i] = f[i]
    BY <1>1, <1>2, <1>4, <1>9, <2>3
  <2>5. f[j] = wire[s] /\ g[j] = wire[s] + 1 /\ f[j] \in Int
    BY <1>1, <1>4, <1>9, <2>2
  <2>6. \A i \in 0 .. n - 1 : f[i] \in Int /\ g[i] \in Int
    <3> TAKE i \in 0 .. n - 1
    <3>1. CASE i = j
      BY <2>5, <3>1
    <3>2. CASE i # j
      BY <1>4, <2>4, <3>2
    <3>3. QED
      BY <3>1, <3>2
  <2>7. SumBelow(g, n) = SumBelow(f, n) + (g[j] - f[j])
    <3>1. n \in Nat /\ j \in 0 .. n - 1
      BY <1>1, <2>2
    <3>2. QED
      BY <3>1, <2>4, <2>6, SumUpdate
  <2>8. g[j] - f[j] = 1
    BY <2>5
  <2>9. QED
    BY <1>3, <2>7, <2>8
<1>10. QED
  BY <1>6, <1>7, <1>8, <1>9

\* A worker whose wire, queue, statistic and burst are left alone.
LEMMA CountKept ==
  ASSUME NEW v \in Worker, CountOf(v), OnWire(v)' = OnWire(v), freq' = freq,
         txq'[v] = txq[v], txPktCnt'[v] = txPktCnt[v], wpc'[v] = wpc[v], staged'[v] = staged[v]
  PROVE  CountOf(v)'
<1>1. Total(v)' = Total(v)
  BY DEF Total
<1>2. QED
  BY <1>1, Zenon DEF CountOf

\* The start.
LEMMA CountInit == Init => Counted
<1> SUFFICES ASSUME Init, NEW w \in Worker PROVE CountOf(w)
  BY DEF Counted
<1> DEFINE n == IedNum(w)
           f == [i \in 0 .. n - 1 |-> wire[BaseIdx(w) + i]]
<1>1. n \in Nat
  BY Workers
<1>2. \A i \in 0 .. n - 1 : f[i] = 0
  BY Jth DEF Init
<1>3. OnWire(w) = SumBelow(f, n)
  BY DEF OnWire
<1> HIDE DEF n, f
<1>4. OnWire(w) = 0
  BY <1>1, <1>2, <1>3, SumOfZeros
<1>5. Len(txq[w]) = 0 /\ txPktCnt[w] = 0 /\ wpc[w] # "fire"
  BY EmptySeq DEF Init
<1>6. QED
  BY <1>4, <1>5 DEF CountOf

\* A worker's step keeps its own statistic right.
LEMMA CountOwn ==
  ASSUME Base, NEW w \in Worker, CountOf(w), WorkerStep(w)
  PROVE  CountOf(w)'
<1> DEFINE a == Len(staged[w])
           b == Len(txq[w])
           t == Total(w)
           x == txPktCnt[w]
           o == OnWire(w)
<1>1. /\ wpc \in [Worker -> {"top", "stage", "fire", "done"}]
      /\ staged \in [Worker -> Seq(Frame)] /\ txq \in [Worker -> Seq(Frame)]
      /\ txPktCnt \in [Worker -> Nat]
  BY DEF Base, BurstType
<1>2. a \in Nat /\ b \in Nat /\ t \in Nat /\ x \in Nat
  BY <1>1, BurstSize DEF Base
<1>3. wire' = wire /\ freq' = freq
  BY DEF WorkerStep, CycleCheck, StageAlloc, Amend, StageEnd, Fire, FireEnd
<1>4. o \in Int /\ OnWire(w)' = o
  BY <1>3, OnWireIs
<1>5. Total(w)' = t
  BY <1>3 DEF Total
<1>6. (wpc[w] = "fire" => o + b = x + (t - a)) /\ (wpc[w] # "fire" => o + b = x + 0)
  BY DEF CountOf
<1>7. ASSUME NEW aa, NEW bb, NEW xx, Len(staged'[w]) = aa, Len(txq'[w]) = bb, txPktCnt'[w] = xx,
             wpc'[w] = "fire" => o + bb = xx + (t - aa), wpc'[w] # "fire" => o + bb = xx + 0
      PROVE  CountOf(w)'
  <2> HIDE DEF a, b, t, x, o
  <2>1. CASE wpc'[w] = "fire"
    BY <1>4, <1>5, <1>7, <2>1, Zenon DEF CountOf
  <2>2. CASE wpc'[w] # "fire"
    BY <1>4, <1>5, <1>7, <2>2, Zenon DEF CountOf
  <2>3. QED
    BY <2>1, <2>2
<1>8. ASSUME wpc[w] # "fire", wpc'[w] # "fire", txq' = txq, txPktCnt' = txPktCnt PROVE CountOf(w)'
  <2>1. Len(txq'[w]) = b /\ txPktCnt'[w] = x
    BY <1>8
  <2>2. o + b = x + 0
    BY <1>6, <1>8
  <2> HIDE DEF a, b, t, x, o
  <2>3. QED
    BY <1>7, <1>8, <2>1, <2>2
<1>9. CASE CycleCheck(w)
  <2>1. wpc[w] # "fire" /\ wpc'[w] # "fire"
    BY <1>1, <1>9 DEF CycleCheck
  <2>2. QED
    BY <1>8, <1>9, <2>1 DEF CycleCheck
<1>10. CASE StageAlloc(w)
  BY <1>8, <1>10 DEF StageAlloc, Staging
<1>11. CASE Amend(w)
  BY <1>8, <1>11 DEF Amend
<1>12. CASE StageEnd(w)
  <2>1. CASE doWork
    <3>1. /\ wpc[w] = "stage" /\ a = t /\ wpc' = [wpc EXCEPT ![w] = "fire"]
          /\ UNCHANGED <<staged, txq, txPktCnt>>
      BY <1>12, <2>1 DEF StageEnd, Staging
    <3>2. wpc'[w] = "fire" /\ Len(staged'[w]) = a /\ Len(txq'[w]) = b /\ txPktCnt'[w] = x
      BY <1>1, <3>1
    <3>3. o + b = x + 0 /\ a = t
      BY <1>6, <3>1
    <3> HIDE DEF a, b, t, x, o
    <3>4. o + b = x + (t - a)
      BY <1>2, <1>4, <3>3
    <3>5. QED
      BY <1>7, <3>2, <3>4
  <2>2. CASE ~doWork
    <3>1. /\ wpc[w] = "stage" /\ wpc' = [wpc EXCEPT ![w] = "done"] /\ UNCHANGED <<txq, txPktCnt>>
      BY <1>12, <2>2 DEF StageEnd, Staging
    <3>2. wpc'[w] # "fire"
      BY <1>1, <3>1
    <3>3. QED
      BY <1>8, <3>1, <3>2
  <2>3. QED
    BY <2>1, <2>2
<1>13. CASE Fire(w)
  <2>1. PICK nb \in Nat :
           /\ txq' = [txq EXCEPT ![w] = txq[w] \o Prefix(staged[w], nb)]
           /\ staged' = [staged EXCEPT ![w] = Rest(staged[w], nb)]
           /\ Len(txq[w] \o Prefix(staged[w], nb)) = b + nb
           /\ Len(Rest(staged[w], nb)) = a - nb
    BY <1>13, FireMoves
  <2>2. wpc[w] = "fire" /\ UNCHANGED <<wpc, txPktCnt>>
    BY <1>13 DEF Fire
  <2>3. wpc'[w] = "fire" /\ Len(staged'[w]) = a - nb /\ Len(txq'[w]) = b + nb /\ txPktCnt'[w] = x
    BY <1>1, <2>1, <2>2
  <2>4. o + b = x + (t - a)
    BY <1>6, <2>2
  <2> HIDE DEF a, b, t, x, o
  <2>5. o + (b + nb) = x + (t - (a - nb))
    BY <1>2, <1>4, <2>4
  <2>6. QED
    BY <1>7, <2>3, <2>5
<1>14. CASE FireEnd(w)
  <2>1. /\ wpc[w] = "fire" /\ wpc' = [wpc EXCEPT ![w] = "top"]
        /\ txPktCnt' = [txPktCnt EXCEPT ![w] = x + (t - a)] /\ txq' = txq
    BY <1>14 DEF FireEnd, Sent
  <2>2. wpc'[w] # "fire" /\ Len(txq'[w]) = b /\ txPktCnt'[w] = x + (t - a)
    BY <1>1, <2>1
  <2>3. o + b = x + (t - a)
    BY <1>6, <2>1
  <2> HIDE DEF a, b, t, x, o
  <2>4. o + b = (x + (t - a)) + 0
    BY <1>2, <1>4, <2>3
  <2>5. QED
    BY <1>7, <2>2, <2>4
<1>15. QED
  BY <1>9, <1>10, <1>11, <1>12, <1>13, <1>14 DEF WorkerStep

\* So does sending a frame.
LEMMA CountTransmit ==
  ASSUME Base, Chain, NEW w \in Worker, Transmit(w), NEW v \in Worker, CountOf(v)
  PROVE  CountOf(v)'
<1>1. /\ txq \in [Worker -> Seq(Frame)] /\ txq[w] # << >> /\ txq' = [txq EXCEPT ![w] = Tail(txq[w])]
      /\ UNCHANGED <<freq, wpc, staged, txPktCnt>>
  BY DEF Transmit, workerVars, Base, BurstType
<1>2. PICK s \in Stream : Mine(w, s) /\ wire' = [wire EXCEPT ![s] = wire[s] + 1]
  BY ChainTransmit DEF Chain
<1>3. CASE v # w
  <2>1. ~Mine(v, s)
    BY <1>2, <1>3, Workers
  <2>2. OnWire(v)' = OnWire(v)
    BY <1>2, <2>1, OnWireIs
  <2>3. txq'[v] = txq[v]
    BY <1>1, <1>3
  <2>4. QED
    BY <1>1, <2>2, <2>3, CountKept
<1>4. CASE v = w
  <2> DEFINE o == OnWire(w)
             b == Len(txq[w])
             c == txPktCnt[w] + (IF wpc[w] = "fire" THEN Total(w) - Len(staged[w]) ELSE 0)
  <2>1. o \in Int /\ OnWire(w)' = o + 1
    BY <1>2, OnWireIs
  <2>2. b \in Nat /\ Len(txq'[w]) = b - 1
    <3>1. Len(Tail(txq[w])) = Len(txq[w]) - 1 /\ Len(txq[w]) \in Nat
      BY <1>1, HeadTailProperties, LenProperties
    <3>2. QED
      BY <1>1, <3>1
  <2>3. o + b = c
    BY <1>4, Zenon DEF CountOf
  <2>4. Total(w)' = Total(w)
    BY <1>1 DEF Total
  <2>5. CountOf(w)' <=> OnWire(w)' + Len(txq'[w]) = c
    <3>1. txPktCnt'[w] = txPktCnt[w] /\ wpc'[w] = wpc[w] /\ staged'[w] = staged[w]
      BY <1>1
    <3>2. QED
      BY <2>4, <3>1, Zenon DEF CountOf
  <2> HIDE DEF o, b, c
  <2>6. (o + 1) + (b - 1) = o + b
    BY <2>1, <2>2
  <2>7. QED
    BY <1>4, <2>1, <2>2, <2>3, <2>5, <2>6
<1>5. QED
  BY <1>3, <1>4

\* Every step keeps the statistics right.
LEMMA CountStep ==
  ASSUME Base, Chain, Counted, [Next]_vars
  PROVE  Counted'
<1> SUFFICES ASSUME NEW v \in Worker PROVE CountOf(v)'
  BY DEF Counted, Worker, WorkerNum
<1>1. CountOf(v)
  BY DEF Counted
<1>2. ASSUME UNCHANGED <<freq, wpc, staged, txq, txPktCnt, wire>> PROVE CountOf(v)'
  BY <1>1, <1>2, OnWireIs, CountKept
<1>3. ASSUME NEW w \in Worker, WorkerStep(w) PROVE CountOf(v)'
  <2>1. CASE v = w
    BY <1>1, <1>3, <2>1, CountOwn
  <2>2. CASE v # w
    <3>1. /\ wpc \in [Worker -> {"top", "stage", "fire", "done"}]
          /\ staged \in [Worker -> Seq(Frame)] /\ txq \in [Worker -> Seq(Frame)]
          /\ txPktCnt \in [Worker -> Nat]
      BY DEF Base, BurstType
    <3>2. wire' = wire /\ freq' = freq
      BY <1>3 DEF WorkerStep, CycleCheck, StageAlloc, Amend, StageEnd, Fire, FireEnd
    <3>3. wpc'[v] = wpc[v]
      BY <1>3, <2>2, <3>1 DEF WorkerStep, CycleCheck, StageAlloc, Amend, StageEnd, Fire, FireEnd
    <3>4. staged'[v] = staged[v]
      BY <1>3, <2>2, <3>1 DEF WorkerStep, CycleCheck, StageAlloc, Amend, StageEnd, Fire, FireEnd
    <3>5. txq'[v] = txq[v]
      BY <1>3, <2>2, <3>1 DEF WorkerStep, CycleCheck, StageAlloc, Amend, StageEnd, Fire, FireEnd
    <3>6. txPktCnt'[v] = txPktCnt[v]
      BY <1>3, <2>2, <3>1 DEF WorkerStep, CycleCheck, StageAlloc, Amend, StageEnd, Fire, FireEnd
    <3>7. OnWire(v)' = OnWire(v)
      BY <3>2, OnWireIs
    <3>8. QED
      BY <1>1, <3>2, <3>3, <3>4, <3>5, <3>6, <3>7, CountKept
  <2>3. QED
    BY <2>1, <2>2
<1>4. CASE \E w \in Worker : Transmit(w)
  BY <1>1, <1>4, CountTransmit
<1>5. CASE Stop
  BY <1>2, <1>5 DEF Stop, workerVars
<1>6. CASE UNCHANGED vars
  BY <1>2, <1>6 DEF vars, workerVars
<1>7. QED
  BY <1>3, <1>4, <1>5, <1>6 DEF Next, Exited

\* What was taken of all streams of a worker.
LEMMA TakenSum ==
  ASSUME Base, Chain, NEW w \in Worker
  PROVE  SumBelow([i \in 0 .. IedNum(w) - 1 |-> Taken(BaseIdx(w) + i)], IedNum(w))
           = OnWire(w) + Len(txq[w])
<1> DEFINE n == IedNum(w)
           b == BaseIdx(w)
           q == txq[w]
           k == Len(q)
           f == [i \in 0 .. n - 1 |-> wire[b + i]]
           g == [i \in 0 .. n - 1 |-> Count(q, k, b + i)]
           h == [i \in 0 .. n - 1 |-> Taken(b + i)]
<1>1. n \in Nat /\ b \in Nat /\ k \in Nat /\ wire \in [Stream -> Nat]
  BY Workers, BurstSize DEF Base, BurstType
<1>2. \A i \in 0 .. n - 1 : b + i \in Stream /\ Mine(w, b + i)
  BY Jth
<1>3. \A i \in 0 .. n - 1 : Taken(b + i) = wire[b + i] + Count(q, k, b + i)
  BY <1>2, TakenIs
<1>4. \A i \in 1 .. k : q[i].s \in b .. b + n - 1
  <2> TAKE i \in 1 .. k
  <2> DEFINE p == Pending(w)
             l == Len(p)
             m == Len(staged[w])
  <2>1. m \in Nat /\ l = k + m /\ \A x \in 1 .. k : p[x] = q[x]
    BY PendingIs DEF Base
  <2>2. \A x \in 1 .. l : p[x].s \in Stream /\ Mine(w, p[x].s)
    BY PendingIs DEF Base, Chain, OwnOf
  <2>3. \A s \in Stream : Mine(w, s) => s \in b .. b + n - 1
    BY <1>1, Workers DEF Mine, Stream
  <2> HIDE DEF p, l, m, q, k, n, b
  <2>4. i \in 1 .. l /\ p[i] = q[i]
    BY <1>1, <2>1
  <2>5. QED
    BY <2>2, <2>3, <2>4
<1>5. OnWire(w) = SumBelow(f, n)
  BY DEF OnWire
<1> HIDE DEF q, k, n, b
<1>6. SumBelow(g, n) = k
  <2>1. n \in Nat /\ b \in Nat /\ k \in Nat
    BY <1>1
  <2>2. Within(q, k, b, n)
    BY <1>4 DEF Within
  <2>3. CountsOf(g, q, k, b, n)
    BY Zenon DEF CountsOf
  <2> HIDE DEF g
  <2>4. QED
    BY <2>1, <2>2, <2>3, SumOfCounts
<1>7. \A i \in 0 .. n - 1 : f[i] \in Int /\ g[i] \in Int /\ h[i] = f[i] + g[i]
  <2> TAKE i \in 0 .. n - 1
  <2>1. Count(q, k, b + i) \in Nat
    BY <1>1, CountNat
  <2>2. wire[b + i] \in Nat
    BY <1>1, <1>2
  <2>3. QED
    BY <1>3, <2>1, <2>2
<1> HIDE DEF f, g, h
<1>8. SumBelow(h, n) = SumBelow(f, n) + SumBelow(g, n)
  BY <1>1, <1>7, SumPlus
<1>9. SumBelow(h, n) = OnWire(w) + k
  BY <1>5, <1>6, <1>8
<1>10. QED
  BY <1>9 DEF h, n, b, q, k

\* CountedIsTaken: whenever a worker is between two bursts or has left, its
\* tx_packets is exactly what its queue took of its streams, also after a burst
\* that was cut short by a stop.
THEOREM BurstCountsTaken == Spec => []CountedIsTaken
<1>1. Init => Base /\ Chain /\ Counted
  BY BaseInit, ChainInit, CountInit
<1>2. Base /\ Chain /\ Counted /\ [Next]_vars => Base' /\ Chain' /\ Counted'
  BY BaseStep, ChainStep, CountStep
<1>3. Base /\ Chain /\ Counted => CountedIsTaken
  <2> SUFFICES ASSUME Base, Chain, Counted, NEW w \in Worker, wpc[w] \in {"top", "done"}
               PROVE  txPktCnt[w] =
                        SumBelow([i \in 0 .. IedNum(w) - 1 |-> Taken(BaseIdx(w) + i)], IedNum(w))
    BY DEF CountedIsTaken
  <2> DEFINE k == Len(txq[w])
  <2>1. OnWire(w) + k = txPktCnt[w] + 0
    BY DEF Counted, CountOf
  <2>2. OnWire(w) \in Int /\ k \in Nat /\ txPktCnt[w] \in Nat
    BY OnWireIs, BurstSize DEF Base, BurstType
  <2>3. SumBelow([i \in 0 .. IedNum(w) - 1 |-> Taken(BaseIdx(w) + i)], IedNum(w)) = OnWire(w) + k
    BY TakenSum
  <2> HIDE DEF k
  <2>4. txPktCnt[w] = OnWire(w) + k
    BY <2>1, <2>2
  <2>5. QED
    BY <2>3, <2>4
<1>4. QED
  BY <1>1, <1>2, <1>3, PTL DEF Spec
=============================================================================
