----------------------------- MODULE SoftwareRSS -----------------------------
(***************************************************************************)
(* The multi-core receive path of bus_processor (software RSS).            *)
(*                                                                         *)
(* The main lcore polls the NIC (multi_core_rss), spreads each burst over  *)
(* one staging array per worker by the RSS key of the frame, and hands     *)
(* every array to that worker's single-producer/single-consumer ring; what *)
(* a full ring does not take is freed and counted.  Every worker           *)
(* (lcore_processor) takes a burst from its ring, runs the pipeline stages *)
(* over it, which update the per-stream trackers and the statistic         *)
(* counters shared by all workers, and frees the burst.  All of them poll  *)
(* the same g_doWork flag.                                                 *)
(*                                                                         *)
(* A worker's tracker updates are plain memory writes, and so are its      *)
(* counter increments: a counter is read in one step and written back in   *)
(* another, with other workers in between.                                 *)
(*                                                                         *)
(* The model starts when the workers run and the link is up; start-up and  *)
(* the auxiliary thread that clears g_doWork are not part of it.           *)
(***************************************************************************)
EXTENDS StreamTracker, Sequences, FiniteSets, Functions

CONSTANTS
  Source,            \* publishers whose frames reach the port
  Proto,             \* protocol of a source, as get_proto_type tells it
  RssKey,            \* APPID, or UDP source port of a routable source
  Verdicts,          \* what parsing and lookup may say of a source's frames
  NumASDU,           \* ASDUs per frame of an SV source
  SmpFreq,           \* samples per second of an SV source
  WorkerNum,         \* worker lcores, a power of two
  WORKER_RING_SIZE,  \* slots of a worker ring
  RX_BURST_SIZE,     \* most frames in one NIC or ring burst
  RX_DESC_NUM,       \* receive descriptors of the port
  MBUF_NUM,          \* mbufs in the pool
  MaxSent            \* bound: frames a source publishes

Worker == 0 .. WorkerNum - 1

BusProto == {"GOOSE", "SV", "R_GOOSE", "R_SV"}
Verdict == {"ok", "unknown", "auth", "parse"}

\* A bus has finitely many publishers.
ASSUME FiniteSources == IsFiniteSet(Source)

ASSUME RSSAssumption ==
  /\ WorkerNum \in Nat \ {0}
  /\ \E k \in 0 .. WorkerNum : WorkerNum = 2 ^ k
  /\ WORKER_RING_SIZE \in Nat \ {0, 1}
  /\ RX_BURST_SIZE \in Nat \ {0}
  /\ RX_DESC_NUM \in Nat \ {0}
  /\ MBUF_NUM \in Nat
  /\ MaxSent \in [Source -> Nat]
  /\ Proto \in [Source -> BusProto \cup {"NON_BUS"}]
  /\ RssKey \in [Source -> Nat]
  /\ Verdicts \in [Source -> SUBSET Verdict]
  /\ NumASDU \in [Source -> Nat]
  /\ SmpFreq \in [Source -> Nat \ {0}]

\* n is the position of the frame in its source's publication order; the
\* numbers the frame carries are computed from it.
Frame == [src : Source, n : Nat \ {0}, verdict : Verdict]

Counter == {"rxGoose", "rxSV", "errGooseParser", "errSVParser",
            "rxUnknownGoose", "rxUnknownSV", "errAuth", "pktToKernel"}

VARIABLES
  doWork,     \* g_doWork
  pool,       \* free mbufs
  nic,        \* frames in the receive descriptor ring
  sent,       \* frames published so far, per source
  missed,     \* frames the port could not take (imissed + rx_nombuf)
  mpc,        \* control point of the main lcore
  bufs,       \* its NIC burst, still to be dispatched
  workerQueue,\* its staging array per worker
  enq,        \* the worker whose staging array is next
  ringFull,   \* m_errRingFullCnt
  ring,       \* worker rings
  wpc,        \* control point of each worker
  batch,      \* the burst a worker has taken
  todo,       \* positions of its batch that no bus stage has handled yet
  reg,        \* counter a worker has read: name, value, amount to add
  cnt,        \* shared statistic counters
  trk,        \* per-stream trackers
  lastN,      \* history: newest frame of a source handed to its tracker
  delivered,  \* history: number of frames handed to its tracker
  tally       \* history: what each counter should say

mainVars == <<mpc, bufs, workerQueue, enq, ringFull>>
workerVars == <<wpc, batch, todo, reg>>
statVars == <<cnt, trk, lastN, delivered, tally>>
vars == <<doWork, pool, nic, sent, missed, mainVars, ring, workerVars, statVars>>

NoReg == [c |-> "pktToKernel", val |-> 0, add |-> 0]

Init ==
  /\ doWork = TRUE
  /\ pool = MBUF_NUM
  /\ nic = << >>
  /\ sent = [s \in Source |-> 0]
  /\ missed = 0
  /\ mpc = "top"
  /\ bufs = << >>
  /\ workerQueue = [w \in Worker |-> << >>]
  /\ enq = 0
  /\ ringFull = 0
  /\ ring = [w \in Worker |-> << >>]
  /\ wpc = [w \in Worker |-> "top"]
  /\ batch = [w \in Worker |-> << >>]
  /\ todo = [w \in Worker |-> {}]
  /\ reg = [w \in Worker |-> NoReg]
  /\ cnt = [c \in Counter |-> 0]
  /\ trk = [s \in Source |-> NewTracker]
  /\ lastN = [s \in Source |-> 0]
  /\ delivered = [s \in Source |-> 0]
  /\ tally = [c \in Counter |-> 0]

Least(a, b) == IF a <= b THEN a ELSE b

\* First k elements of a queue and what stays behind them.
Prefix(s, k) == SubSeq(s, 1, k)
Rest(s, k) == SubSeq(s, k + 1, Len(s))

-----------------------------------------------------------------------------
(* The wire and the port.                                                  *)

\* A frame needs a free descriptor and an mbuf, or the port drops it.
Arrive(s, v) ==
  /\ mpc \notin {"stopped", "exit"}
  /\ sent[s] < MaxSent[s]
  /\ v \in Verdicts[s]
  /\ sent' = [sent EXCEPT ![s] = @ + 1]
  /\ IF Len(nic) < RX_DESC_NUM /\ pool > 0
       THEN /\ nic' = Append(nic, [src |-> s, n |-> sent[s] + 1, verdict |-> v])
            /\ pool' = pool - 1
            /\ UNCHANGED missed
       ELSE /\ missed' = missed + 1
            /\ UNCHANGED <<nic, pool>>
  /\ UNCHANGED <<doWork, mainVars, ring, workerVars, statVars>>

\* Signal, time limit or an exception elsewhere.
Stop ==
  /\ doWork
  /\ doWork' = FALSE
  /\ UNCHANGED <<pool, nic, sent, missed, mainVars, ring, workerVars, statVars>>

-----------------------------------------------------------------------------
(* The main lcore: multi_core_rss.                                         *)

MainCheck ==
  /\ mpc = "top"
  /\ mpc' = IF doWork THEN "rx" ELSE "done"
  /\ UNCHANGED <<doWork, pool, nic, sent, missed, bufs, workerQueue, enq,
                 ringFull, ring, workerVars, statVars>>

RxBurst ==
  /\ mpc = "rx"
  /\ LET k == Least(Len(nic), RX_BURST_SIZE) IN
       /\ bufs' = Prefix(nic, k)
       /\ nic' = Rest(nic, k)
       /\ mpc' = IF k = 0 THEN "top" ELSE "dispatch"
  /\ UNCHANGED <<doWork, pool, sent, missed, workerQueue, enq, ringFull, ring,
                 workerVars, statVars>>

\* appid & (workerNum - 1), for a power of two.
WorkerOf(s) == RssKey[s] % WorkerNum

\* Faulty variant: frames are dealt out in turn instead of by key.
DispatchInTurn ==
  /\ mpc = "dispatch"
  /\ bufs # << >>
  /\ workerQueue' = [workerQueue EXCEPT ![Len(bufs) % WorkerNum] = Append(@, Head(bufs))]
  /\ bufs' = Tail(bufs)
  /\ mpc' = IF Len(bufs) = 1 THEN "enqueue" ELSE "dispatch"
  /\ enq' = 0
  /\ UNCHANGED <<doWork, pool, nic, sent, missed, ringFull, ring, workerVars,
                 statVars>>

Dispatch ==
  /\ mpc = "dispatch"
  /\ bufs # << >>
  /\ LET f == Head(bufs) IN
       workerQueue' = [workerQueue EXCEPT ![WorkerOf(f.src)] = Append(@, f)]
  /\ bufs' = Tail(bufs)
  /\ mpc' = IF Len(bufs) = 1 THEN "enqueue" ELSE "dispatch"
  /\ enq' = 0
  /\ UNCHANGED <<doWork, pool, nic, sent, missed, ringFull, ring, workerVars,
                 statVars>>

\* Faulty variant: every slot of the ring is taken to be usable.
RingFreeAllSlots(w) == WORKER_RING_SIZE - Len(ring[w])

\* A ring of n slots holds n - 1 entries.
RingFree(w) == WORKER_RING_SIZE - 1 - Len(ring[w])

\* The staging array is empty again, on to the next worker.
NextQueue ==
  /\ workerQueue' = [workerQueue EXCEPT ![enq] = << >>]
  /\ mpc' = IF enq + 1 < WorkerNum THEN "enqueue" ELSE "top"
  /\ enq' = IF enq + 1 < WorkerNum THEN enq + 1 ELSE 0
  /\ UNCHANGED <<doWork, nic, sent, missed, bufs, workerVars, statVars>>

\* Faulty variants: the tail the ring did not take is not freed; it is not
\* counted; it is counted with the operands of the subtraction swapped.
EnqueueBurstLeak ==
  /\ mpc = "enqueue"
  /\ LET q      == workerQueue[enq]
         queued == Least(Len(q), RingFree(enq))
     IN  /\ ring' = [ring EXCEPT ![enq] = @ \o Prefix(q, queued)]
         /\ ringFull' = ringFull + (Len(q) - queued)
  /\ NextQueue
  /\ UNCHANGED pool

EnqueueBurstSilent ==
  /\ mpc = "enqueue"
  /\ LET q      == workerQueue[enq]
         queued == Least(Len(q), RingFree(enq))
     IN  /\ ring' = [ring EXCEPT ![enq] = @ \o Prefix(q, queued)]
         /\ pool' = pool + (Len(q) - queued)
  /\ NextQueue
  /\ UNCHANGED ringFull

EnqueueBurstSwapped ==
  /\ mpc = "enqueue"
  /\ LET q      == workerQueue[enq]
         queued == Least(Len(q), RingFree(enq))
     IN  /\ ring' = [ring EXCEPT ![enq] = @ \o Prefix(q, queued)]
         /\ pool' = pool + (Len(q) - queued)
         /\ ringFull' = ringFull + (queued - Len(q))
  /\ NextQueue

EnqueueBurst ==
  /\ mpc = "enqueue"
  /\ LET q      == workerQueue[enq]
         queued == Least(Len(q), RingFree(enq))
         lost   == Len(q) - queued
     IN  /\ ring' = [ring EXCEPT ![enq] = @ \o Prefix(q, queued)]
         /\ pool' = pool + lost
         /\ ringFull' = ringFull + lost
  /\ NextQueue

\* eth.Stop(): the driver gives back what is left in the descriptor ring.
EthStop ==
  /\ mpc = "done"
  /\ mpc' = "stopped"
  /\ pool' = pool + Len(nic)
  /\ nic' = << >>
  /\ UNCHANGED <<doWork, sent, missed, bufs, workerQueue, enq, ringFull, ring,
                 workerVars, statVars>>

\* rte_eal_mp_wait_lcore(), then DisplayResults().
WaitLcores ==
  /\ mpc = "stopped"
  /\ \A w \in Worker : wpc[w] = "done"
  /\ mpc' = "exit"
  /\ UNCHANGED <<doWork, pool, nic, sent, missed, bufs, workerQueue, enq,
                 ringFull, ring, workerVars, statVars>>

-----------------------------------------------------------------------------
(* A worker lcore: lcore_processor and the pipeline stages.                *)

\* Faulty variant: the loop does not look at g_doWork.
WorkerCheckForever(w) ==
  /\ wpc[w] = "top"
  /\ wpc' = [wpc EXCEPT ![w] = "dequeue"]
  /\ UNCHANGED <<doWork, pool, nic, sent, missed, mainVars, ring, batch, todo,
                 reg, statVars>>

WorkerCheck(w) ==
  /\ wpc[w] = "top"
  /\ wpc' = [wpc EXCEPT ![w] = IF doWork THEN "dequeue" ELSE "done"]
  /\ UNCHANGED <<doWork, pool, nic, sent, missed, mainVars, ring, batch, todo,
                 reg, statVars>>

\* RouterStage sorts the burst into the stage frames: what the bus stages
\* have to do is `todo', the rest is for IPStage.
BusPositions(b) == {i \in DOMAIN b : Proto[b[i].src] \in BusProto}

\* Faulty variant: a lone frame is left for the next burst.
DequeueBurstPairs(w) ==
  /\ wpc[w] = "dequeue"
  /\ LET k == IF Len(ring[w]) = 1 THEN 0 ELSE Least(Len(ring[w]), RX_BURST_SIZE) IN
       /\ batch' = [batch EXCEPT ![w] = Prefix(ring[w], k)]
       /\ ring' = [ring EXCEPT ![w] = Rest(ring[w], k)]
       /\ todo' = [todo EXCEPT ![w] = BusPositions(Prefix(ring[w], k))]
       /\ wpc' = [wpc EXCEPT ![w] = IF k = 0 THEN "top" ELSE "stages"]
  /\ UNCHANGED <<doWork, pool, nic, sent, missed, mainVars, reg, statVars>>

DequeueBurst(w) ==
  /\ wpc[w] = "dequeue"
  /\ LET k == Least(Len(ring[w]), RX_BURST_SIZE) IN
       /\ batch' = [batch EXCEPT ![w] = Prefix(ring[w], k)]
       /\ ring' = [ring EXCEPT ![w] = Rest(ring[w], k)]
       /\ todo' = [todo EXCEPT ![w] = BusPositions(Prefix(ring[w], k))]
       /\ wpc' = [wpc EXCEPT ![w] = IF k = 0 THEN "top" ELSE "stages"]
  /\ UNCHANGED <<doWork, pool, nic, sent, missed, mainVars, reg, statVars>>

\* Order of the stages in FramePipeline.
StageRank(p) == CASE p = "GOOSE"   -> 1
                  [] p = "SV"      -> 2
                  [] p = "R_GOOSE" -> 3
                  [] p = "R_SV"    -> 4

\* Faulty variant: a stage walks its frame from the end.
HandledBeforeReversed(b, i, j) ==
  LET ri == StageRank(Proto[b[i].src])
      rj == StageRank(Proto[b[j].src])
  IN  ri < rj \/ (ri = rj /\ i > j)

\* The pipeline runs stage after stage, each over its frames in order.
HandledBefore(b, i, j) ==
  LET ri == StageRank(Proto[b[i].src])
      rj == StageRank(Proto[b[j].src])
  IN  ri < rj \/ (ri = rj /\ i < j)

IsGoose(p) == p \in {"GOOSE", "R_GOOSE"}
IsRoutable(p) == p \in {"R_GOOSE", "R_SV"}

\* The counter a stage bumps for a frame.
CounterOf(p, v) ==
  CASE v = "ok"      -> IF IsGoose(p) THEN "rxGoose" ELSE "rxSV"
    [] v = "unknown" -> IF IsGoose(p) THEN "rxUnknownGoose" ELSE "rxUnknownSV"
    [] v = "auth"    -> "errAuth"
    [] v = "parse"   -> IF IsGoose(p) THEN "errGooseParser" ELSE "errSVParser"

\* What the n-th frame of a source carries, as the generator amends it.
StNum(n) == n % SeqMod
SpduNumber(n) == n % SeqMod
SmpCnt(s, n) == (((n - 1) * NumASDU[s]) % SmpFreq[s]) % SeqMod

\* Bookkeeping of a frame whose stream was found.
Track(t, s, n) ==
  LET session == IF IsRoutable(Proto[s])
                   THEN ProcessSessionState(t, SpduNumber(n)) ELSE t
  IN  IF IsGoose(Proto[s])
        THEN GooseProcessState(session, StNum(n))
        ELSE SVProcessState(session, SmpCnt(s, n), NumASDU[s])

\* One frame in its stage, up to and including the read half of the counter
\* increment.
StageFrame(w, i) ==
  /\ wpc[w] = "stages"
  /\ i \in todo[w]
  /\ \A j \in todo[w] \ {i} : HandledBefore(batch[w], i, j)
  /\ LET f == batch[w][i]
         c == CounterOf(Proto[f.src], f.verdict)
     IN  /\ IF f.verdict = "ok"
              THEN /\ trk' = [trk EXCEPT ![f.src] = Track(@, f.src, f.n)]
                   /\ lastN' = [lastN EXCEPT ![f.src] = f.n]
                   /\ delivered' = [delivered EXCEPT ![f.src] = @ + 1]
              ELSE UNCHANGED <<trk, lastN, delivered>>
         /\ reg' = [reg EXCEPT ![w] = [c |-> c, val |-> cnt[c], add |-> 1]]
         /\ tally' = [tally EXCEPT ![c] = @ + 1]
  /\ todo' = [todo EXCEPT ![w] = @ \ {i}]
  /\ wpc' = [wpc EXCEPT ![w] = "store"]
  /\ UNCHANGED <<doWork, pool, nic, sent, missed, mainVars, ring, batch, cnt>>

\* Faulty variant: the size of the whole burst is added.
IPStageWholeBurst(w) ==
  /\ wpc[w] = "stages"
  /\ todo[w] = {}
  /\ reg' = [reg EXCEPT ![w] = [c |-> "pktToKernel",
                                val |-> cnt["pktToKernel"], add |-> Len(batch[w])]]
  /\ tally' = [tally EXCEPT !["pktToKernel"] =
                 @ + Len(batch[w]) - Cardinality(BusPositions(batch[w]))]
  /\ wpc' = [wpc EXCEPT ![w] = "storeIP"]
  /\ UNCHANGED <<doWork, pool, nic, sent, missed, mainVars, ring, batch, todo,
                 cnt, trk, lastN, delivered>>

\* IPStage adds the size of its frame, be it zero.
IPStage(w) ==
  /\ wpc[w] = "stages"
  /\ todo[w] = {}
  /\ LET num == Len(batch[w]) - Cardinality(BusPositions(batch[w])) IN
       /\ reg' = [reg EXCEPT ![w] = [c |-> "pktToKernel",
                                     val |-> cnt["pktToKernel"], add |-> num]]
       /\ tally' = [tally EXCEPT !["pktToKernel"] = @ + num]
  /\ wpc' = [wpc EXCEPT ![w] = "storeIP"]
  /\ UNCHANGED <<doWork, pool, nic, sent, missed, mainVars, ring, batch, todo,
                 cnt, trk, lastN, delivered>>

\* Faulty variant: the value read is written back.
StoreCounterOld(w) ==
  /\ wpc[w] \in {"store", "storeIP"}
  /\ cnt' = [cnt EXCEPT ![reg[w].c] = reg[w].val]
  /\ reg' = [reg EXCEPT ![w] = NoReg]
  /\ wpc' = [wpc EXCEPT ![w] = IF @ = "store" THEN "stages" ELSE "free"]
  /\ UNCHANGED <<doWork, pool, nic, sent, missed, mainVars, ring, batch, todo,
                 trk, lastN, delivered, tally>>

\* The write half of a counter increment.
StoreCounter(w) ==
  /\ wpc[w] \in {"store", "storeIP"}
  /\ cnt' = [cnt EXCEPT ![reg[w].c] = reg[w].val + reg[w].add]
  /\ reg' = [reg EXCEPT ![w] = NoReg]
  /\ wpc' = [wpc EXCEPT ![w] = IF @ = "store" THEN "stages" ELSE "free"]
  /\ UNCHANGED <<doWork, pool, nic, sent, missed, mainVars, ring, batch, todo,
                 trk, lastN, delivered, tally>>

FreeBulk(w) ==
  /\ wpc[w] = "free"
  /\ pool' = pool + Len(batch[w])
  /\ batch' = [batch EXCEPT ![w] = << >>]
  /\ wpc' = [wpc EXCEPT ![w] = "top"]
  /\ UNCHANGED <<doWork, nic, sent, missed, mainVars, ring, todo, reg, statVars>>

-----------------------------------------------------------------------------
Main == \/ MainCheck \/ RxBurst \/ Dispatch \/ EnqueueBurst
        \/ EthStop \/ WaitLcores

WorkerStep(w) ==
  \/ WorkerCheck(w) \/ DequeueBurst(w) \/ IPStage(w)
  \/ StoreCounter(w) \/ FreeBulk(w)
  \/ \E i \in todo[w] : StageFrame(w, i)

\* The process has ended.
Exited == mpc = "exit" /\ UNCHANGED vars

Next ==
  \/ \E s \in Source, v \in Verdict : Arrive(s, v)
  \/ Stop
  \/ Main
  \/ \E w \in Worker : WorkerStep(w)
  \/ Exited

Spec == Init /\ [][Next]_vars

\* Every lcore is a pinned real-time thread that never blocks in its loop.
Fairness == WF_vars(Main) /\ \A w \in Worker : WF_vars(WorkerStep(w))

FairSpec == Spec /\ Fairness

-----------------------------------------------------------------------------
(* Properties.                                                             *)

MainPc == {"top", "rx", "dispatch", "enqueue", "done", "stopped", "exit"}
WorkerPc == {"top", "dequeue", "stages", "store", "storeIP", "free", "done"}

\* Every variable of the receive path stays in the set its C++ type and use
\* allow (the type invariant).
TypeOK ==
  /\ doWork \in BOOLEAN
  /\ pool \in Nat
  /\ nic \in Seq(Frame)
  /\ sent \in [Source -> Nat]
  /\ missed \in Nat
  /\ mpc \in MainPc
  /\ bufs \in Seq(Frame)
  /\ workerQueue \in [Worker -> Seq(Frame)]
  /\ enq \in Worker
  /\ ringFull \in Nat
  /\ ring \in [Worker -> Seq(Frame)]
  /\ wpc \in [Worker -> WorkerPc]
  /\ batch \in [Worker -> Seq(Frame)]
  /\ todo \in [Worker -> SUBSET Nat]
  /\ reg \in [Worker -> [c : Counter, val : Nat, add : Nat]]
  /\ cnt \in [Counter -> Nat]
  /\ trk \in [Source -> Tracker]
  /\ lastN \in [Source -> Nat]
  /\ delivered \in [Source -> Nat]
  /\ tally \in [Counter -> Nat]

\* Frames waiting on the way to worker w's pipeline, and in it.
Behind(w) == Range(workerQueue[w]) \cup Range(bufs) \cup Range(nic)
HeldFor(w) == Range(workerQueue[w]) \cup Range(ring[w]) \cup Range(batch[w])
Unhandled(w) == {batch[w][i] : i \in todo[w]}

InFlight == Range(nic) \cup Range(bufs) \cup UNION {HeldFor(w) : w \in Worker}

\* Publication order within one queue, and between two sets of frames.
InOrder(q) ==
  \A i, j \in DOMAIN q : i < j /\ q[i].src = q[j].src => q[i].n < q[j].n

Older(S, T) == \A f \in S, g \in T : f.src = g.src => f.n < g.n

\* Software RSS keeps every stream on one worker (the point of the RSS key in
\* get_proto_type), so no other lcore ever touches the stream's tracker.
Affinity == \A w \in Worker : \A f \in HeldFor(w) : WorkerOf(f.src) = w

\* Demultiplexing, partial enqueues and the stage order of the pipeline never
\* reorder a stream: along nic, burst, staging array, ring and batch the
\* frames of a source stand in publication order.
PathOrder ==
  /\ InOrder(nic) /\ InOrder(bufs) /\ Older(Range(bufs), Range(nic))
  /\ \A w \in Worker :
       /\ InOrder(workerQueue[w]) /\ InOrder(ring[w]) /\ InOrder(batch[w])
       /\ Older(Range(workerQueue[w]), Range(bufs) \cup Range(nic))
       /\ Older(Range(ring[w]), Behind(w))
       /\ Older(Range(batch[w]), Range(ring[w]) \cup Behind(w))

\* Whatever a tracker has not seen yet is newer than what it has seen, so a
\* frame is handed to it at most once.
Unseen ==
  /\ \A f \in InFlight : f.n <= sent[f.src]
  /\ \A s \in Source : lastN[s] <= sent[s]
  /\ \A f \in Range(nic) \cup Range(bufs) : lastN[f.src] < f.n
  /\ \A w \in Worker :
       \A f \in Range(workerQueue[w]) \cup Range(ring[w]) \cup Unhandled(w) :
          lastN[f.src] < f.n

\* The control points agree with the data: only a pipeline pass has frames
\* left to handle, only a dispatch has a burst left, and every staging array
\* is empty again, one after the other, before the next burst.
ControlInv ==
  /\ bufs # << >> => mpc = "dispatch"
  /\ mpc \notin {"dispatch", "enqueue"} =>
       \A w \in Worker : workerQueue[w] = << >>
  /\ mpc = "enqueue" => \A w \in 0 .. enq - 1 : workerQueue[w] = << >>
  /\ \A w \in Worker : todo[w] \subseteq BusPositions(batch[w])
  /\ \A w \in Worker : wpc[w] \notin {"stages", "store"} => todo[w] = {}

\* The inductive invariant of the receive path.
StreamInv == Affinity /\ PathOrder /\ Unseen /\ ControlInv

\* Every mbuf is either in the pool or holds exactly one frame on its way:
\* none leaks when a ring is full, none is freed twice.
PoolConservation == pool + Cardinality(InFlight) = MBUF_NUM

\* A burst never overruns the arrays and rings sized for it: a staging array
\* of RX_BURST_SIZE slots has room for all that is left of the burst, a batch
\* fits its array, and a ring holds one entry less than its size.
NoOverrun ==
  \A w \in Worker : /\ Len(workerQueue[w]) + Len(bufs) <= RX_BURST_SIZE
                    /\ Len(batch[w]) <= RX_BURST_SIZE
                    /\ Len(ring[w]) < WORKER_RING_SIZE

\* Every frame put on the wire is in exactly one place of the statistics: a
\* loss counter, a stage counter's tally, or still queued.  After the exit
\* what is left in the rings is in none.
FrameAccounting ==
  mpc \notin {"stopped", "exit"} =>
    SumFunction(sent) =
      missed + ringFull + SumFunction(tally) + Len(nic) + Len(bufs)
      + SumFunction([w \in Worker |-> Len(workerQueue[w]) + Len(ring[w])
           + (IF wpc[w] \in {"storeIP", "free"} THEN 0
              ELSE Cardinality(todo[w]) + Len(batch[w])
                   - Cardinality(BusPositions(batch[w])))])

\* A gap is reported only for frames that really did not reach the tracker:
\* the error counters never exceed the number of frames missing so far.
GapsAreLosses ==
  \A s \in Source : Gaps(trk[s]) <= lastN[s] - delivered[s]

\* A shared counter may lose increments to the race between workers but never
\* claims more than happened.
NeverOverstated == \A c \in Counter : cnt[c] <= tally[c]

\* The pass/fail gates compare the counters with zero.  A counter that is only
\* ever incremented by one is not zero once an increment has completed,
\* whatever the interleaving.
GateIsSound ==
  \A c \in Counter \ {"pktToKernel"} :
     tally[c] > Cardinality({w \in Worker : wpc[w] = "store" /\ reg[w].c = c})
       => cnt[c] > 0

\* The receive path seen from outside: per-stream delivery, in order, without
\* duplicates, with losses.
Delivery == INSTANCE StreamDelivery WITH published <- sent, newest <- lastN
DeliverySpec == Delivery!Spec

\* While the processor runs, everything the port took is eventually handled
\* and its mbufs are back in the pool.
Drained == []<>(~doWork \/ pool = MBUF_NUM)

\* Clearing g_doWork ends every loop, and the process prints its results.
Stops == ~doWork ~> mpc = "exit"
=============================================================================
