-------------------------- MODULE SoftwareRSSProofs --------------------------
(***************************************************************************)
(* Proofs about the multi-core receive path, for every set of sources,     *)
(* number of workers and size of rings, bursts and pool: type correctness, *)
(* the order of the streams (StreamInv) and the refinement of              *)
(* StreamDelivery, the counters shared by the workers (CountInv), the pool *)
(* (PoolInv), the account of the frames (Account) and the gaps the         *)
(* trackers report (SeenInv).                                              *)
(***************************************************************************)
EXTENDS SoftwareRSS, SequenceTheorems, FiniteSetTheorems, TLAPS

\* Induction and remainders.
Numbers == INSTANCE NumberFacts

(* Cutting, joining and extending queues of frames.                        *)

\* The two parts of a queue cut after k elements.
LEMMA CutType ==
  ASSUME NEW q \in Seq(Frame), NEW k \in 0 .. Len(q)
  PROVE  /\ Prefix(q, k) \in Seq(Frame)
         /\ Len(Prefix(q, k)) = k
         /\ \A i \in 1 .. k : Prefix(q, k)[i] = q[i]
         /\ Rest(q, k) \in Seq(Frame)
         /\ Len(Rest(q, k)) = Len(q) - k
         /\ \A i \in 1 .. Len(q) - k : Rest(q, k)[i] = q[i + k]
<1>1. /\ Len(q) \in Nat
      /\ \A i \in 1 .. k : q[i] \in Frame
      /\ \A i \in k + 1 .. Len(q) : q[i] \in Frame
  BY LenProperties, ElementOfSeq
<1>2. /\ SubSeq(q, 1, k) \in Seq(Frame)
      /\ Len(SubSeq(q, 1, k)) = IF 1 <= k THEN k - 1 + 1 ELSE 0
      /\ \A i \in 1 .. k - 1 + 1 : SubSeq(q, 1, k)[i] = q[1 + i - 1]
  BY <1>1, SubSeqProperties
<1>3. /\ SubSeq(q, k + 1, Len(q)) \in Seq(Frame)
      /\ Len(SubSeq(q, k + 1, Len(q)))
           = IF k + 1 <= Len(q) THEN Len(q) - (k + 1) + 1 ELSE 0
      /\ \A i \in 1 .. Len(q) - (k + 1) + 1 :
           SubSeq(q, k + 1, Len(q))[i] = q[(k + 1) + i - 1]
  BY <1>1, SubSeqProperties
<1>4. QED
  BY <1>1, <1>2, <1>3 DEF Prefix, Rest

\* Cutting a queue keeps the order of a stream, in and between the parts.
LEMMA CutOrder ==
  ASSUME NEW q \in Seq(Frame), NEW k \in 0 .. Len(q), InOrder(q)
  PROVE  /\ InOrder(Prefix(q, k)) /\ InOrder(Rest(q, k))
         /\ Range(Prefix(q, k)) \subseteq Range(q)
         /\ Range(Rest(q, k)) \subseteq Range(q)
         /\ Older(Range(Prefix(q, k)), Range(Rest(q, k)))
<1> DEFINE p == Prefix(q, k)
           r == Rest(q, k)
<1>1. /\ p \in Seq(Frame) /\ Len(p) = k /\ \A i \in 1 .. k : p[i] = q[i]
      /\ r \in Seq(Frame) /\ Len(r) = Len(q) - k
      /\ \A i \in 1 .. Len(q) - k : r[i] = q[i + k]
  BY CutType
<1>2. DOMAIN p = 1 .. k /\ DOMAIN r = 1 .. Len(q) - k /\ DOMAIN q = 1 .. Len(q)
  BY <1>1, LenProperties
<1>3. Len(q) \in Nat
  BY LenProperties
<1> HIDE DEF p, r
<1>4. InOrder(p)
  BY <1>1, <1>2, <1>3 DEF InOrder
<1>5. InOrder(r)
  <2> SUFFICES ASSUME NEW i \in 1 .. Len(q) - k, NEW j \in 1 .. Len(q) - k,
                      i < j, r[i].src = r[j].src
               PROVE  r[i].n < r[j].n
    BY <1>2 DEF InOrder
  <2>1. r[i] = q[i + k] /\ r[j] = q[j + k]
    BY <1>1
  <2>2. i + k \in DOMAIN q /\ j + k \in DOMAIN q /\ i + k < j + k
    BY <1>2, <1>3
  <2>3. QED
    BY <2>1, <2>2 DEF InOrder
<1>6. Range(p) \subseteq Range(q) /\ Range(r) \subseteq Range(q)
  <2>1. ASSUME NEW i \in DOMAIN p PROVE p[i] \in Range(q)
    <3>1. i \in DOMAIN q /\ p[i] = q[i]
      BY <1>1, <1>2, <1>3
    <3>2. QED
      BY <3>1 DEF Range
  <2>2. ASSUME NEW i \in DOMAIN r PROVE r[i] \in Range(q)
    <3>1. i + k \in DOMAIN q /\ r[i] = q[i + k]
      BY <1>1, <1>2, <1>3
    <3>2. QED
      BY <3>1 DEF Range
  <2>3. QED
    BY <2>1, <2>2 DEF Range
<1>7. Older(Range(p), Range(r))
  <2> SUFFICES ASSUME NEW i \in DOMAIN p, NEW j \in DOMAIN r, p[i].src = r[j].src
               PROVE  p[i].n < r[j].n
    BY DEF Older, Range
  <2>1. p[i] = q[i] /\ r[j] = q[j + k]
    BY <1>1, <1>2
  <2>2. i \in DOMAIN q /\ j + k \in DOMAIN q /\ i < j + k
    BY <1>2, <1>3
  <2>3. QED
    BY <2>1, <2>2 DEF InOrder
<1>8. QED
  BY <1>4, <1>5, <1>6, <1>7 DEF p, r

\* Joining two queues whose frames already stand in order.
LEMMA JoinOrder ==
  ASSUME NEW p \in Seq(Frame), NEW r \in Seq(Frame),
         InOrder(p), InOrder(r), Older(Range(p), Range(r))
  PROVE  /\ p \o r \in Seq(Frame)
         /\ InOrder(p \o r)
         /\ Range(p \o r) = Range(p) \cup Range(r)
<1> DEFINE c == p \o r
<1>1. /\ c \in Seq(Frame) /\ Len(c) = Len(p) + Len(r)
      /\ \A i \in 1 .. Len(p) + Len(r) :
           c[i] = IF i <= Len(p) THEN p[i] ELSE r[i - Len(p)]
  BY ConcatProperties
<1>2. /\ DOMAIN c = 1 .. Len(c) /\ DOMAIN p = 1 .. Len(p) /\ DOMAIN r = 1 .. Len(r)
      /\ Len(p) \in Nat /\ Len(r) \in Nat
  BY <1>1, LenProperties
<1>3. Range(c) = Range(p) \cup Range(r)
  BY RangeConcatenation
<1> HIDE DEF c
<1>4. ASSUME NEW i \in DOMAIN c, NEW j \in DOMAIN c, i < j, c[i].src = c[j].src
      PROVE  c[i].n < c[j].n
  <2>1. CASE j <= Len(p)
    BY <2>1, <1>1, <1>2, <1>4 DEF InOrder
  <2>2. CASE i <= Len(p) /\ Len(p) < j
    <3>1. c[i] = p[i] /\ i \in DOMAIN p
      BY <2>2, <1>1, <1>2
    <3>2. c[j] = r[j - Len(p)] /\ j - Len(p) \in DOMAIN r
      BY <2>2, <1>1, <1>2
    <3>3. c[i] \in Range(p) /\ c[j] \in Range(r)
      BY <3>1, <3>2 DEF Range
    <3>4. QED
      BY <3>3, <1>4 DEF Older
  <2>3. CASE Len(p) < i
    <3>1. c[i] = r[i - Len(p)] /\ i - Len(p) \in DOMAIN r
      BY <2>3, <1>1, <1>2
    <3>2. c[j] = r[j - Len(p)] /\ j - Len(p) \in DOMAIN r
      BY <2>3, <1>1, <1>2, <1>4
    <3>3. i - Len(p) < j - Len(p)
      BY <1>2, <1>4
    <3>4. QED
      BY <3>1, <3>2, <3>3, <1>4 DEF InOrder
  <2>4. QED
    BY <2>1, <2>2, <2>3, <1>2
<1>5. QED
  BY <1>1, <1>3, <1>4 DEF c, InOrder

\* One more frame at the end of a queue.
LEMMA AppendOrder ==
  ASSUME NEW q \in Seq(Frame), NEW f \in Frame, InOrder(q), Older(Range(q), {f})
  PROVE  /\ Append(q, f) \in Seq(Frame)
         /\ InOrder(Append(q, f))
         /\ Range(Append(q, f)) = Range(q) \cup {f}
<1>1. /\ Append(q, f) \in Seq(Frame) /\ Len(Append(q, f)) = Len(q) + 1
      /\ \A i \in 1 .. Len(q) : Append(q, f)[i] = q[i]
      /\ Append(q, f)[Len(q) + 1] = f
  BY AppendProperties
<1>2. /\ DOMAIN Append(q, f) = 1 .. Len(q) + 1
      /\ DOMAIN q = 1 .. Len(q) /\ Len(q) \in Nat
  BY <1>1, LenProperties
<1>3. InOrder(Append(q, f))
  <2> SUFFICES ASSUME NEW i \in 1 .. Len(q) + 1, NEW j \in 1 .. Len(q) + 1, i < j,
                      Append(q, f)[i].src = Append(q, f)[j].src
               PROVE  Append(q, f)[i].n < Append(q, f)[j].n
    BY <1>2 DEF InOrder
  <2>1. i \in DOMAIN q /\ Append(q, f)[i] = q[i] /\ q[i] \in Range(q)
    BY <1>1, <1>2 DEF Range
  <2>2. CASE j = Len(q) + 1
    BY <2>1, <2>2, <1>1 DEF Older
  <2>3. CASE j \in 1 .. Len(q)
    BY <2>1, <2>3, <1>1, <1>2 DEF InOrder
  <2>4. QED
    BY <2>2, <2>3, <1>2
<1>4. Range(Append(q, f)) = Range(q) \cup {f}
  <2>1. \A x : x \in Range(Append(q, f)) <=> \E i \in 1 .. Len(q) + 1 : x = Append(q, f)[i]
    BY <1>2 DEF Range
  <2>2. \A x : x \in Range(q) <=> \E i \in 1 .. Len(q) : x = q[i]
    BY <1>2 DEF Range
  <2>3. ASSUME NEW x PROVE x \in Range(Append(q, f)) <=> x \in Range(q) \cup {f}
    <3>1. ASSUME NEW i \in 1 .. Len(q) + 1, x = Append(q, f)[i]
          PROVE  x \in Range(q) \cup {f}
      BY <3>1, <2>2, <1>1, <1>2
    <3>2. ASSUME NEW i \in 1 .. Len(q), x = q[i]
          PROVE  x \in Range(Append(q, f))
      <4>1. i \in 1 .. Len(q) + 1 /\ x = Append(q, f)[i]
        BY <3>2, <1>1, <1>2
      <4>2. QED BY <4>1, <2>1
    <3>3. f \in Range(Append(q, f))
      <4>1. Len(q) + 1 \in 1 .. Len(q) + 1
        BY <1>2
      <4>2. QED BY <4>1, <1>1, <2>1
    <3>4. QED
      BY <3>1, <3>2, <3>3, <2>1, <2>2
  <2>4. QED BY <2>3
<1>5. QED
  BY <1>1, <1>3, <1>4

\* Taking the first frame off a queue.
LEMMA TailOrder ==
  ASSUME NEW q \in Seq(Frame), q # << >>, InOrder(q)
  PROVE  /\ Head(q) \in Range(q) /\ Head(q) \in Frame
         /\ Tail(q) \in Seq(Frame) /\ InOrder(Tail(q))
         /\ Range(Tail(q)) \subseteq Range(q)
         /\ Older({Head(q)}, Range(Tail(q)))
         /\ Len(q) = 1 => Tail(q) = << >>
         /\ Len(q) \in Nat \ {0}
<1>1. /\ Head(q) \in Frame /\ Tail(q) \in Seq(Frame) /\ Len(Tail(q)) = Len(q) - 1
      /\ \A i \in 1 .. Len(Tail(q)) : Tail(q)[i] = q[i + 1]
  BY HeadTailProperties
<1>2. /\ DOMAIN Tail(q) = 1 .. Len(q) - 1 /\ DOMAIN q = 1 .. Len(q)
      /\ Len(q) \in Nat \ {0}
  BY <1>1, LenProperties, EmptySeq
<1>3. Head(q) = q[1] /\ 1 \in DOMAIN q
  BY <1>2
<1>4. Head(q) \in Range(q)
  BY <1>3 DEF Range
<1>5. \A i \in DOMAIN Tail(q) : i + 1 \in DOMAIN q /\ 1 < i + 1 /\ Tail(q)[i] = q[i + 1]
  BY <1>1, <1>2
<1>6. InOrder(Tail(q))
  <2> SUFFICES ASSUME NEW i \in DOMAIN Tail(q), NEW j \in DOMAIN Tail(q), i < j,
                      Tail(q)[i].src = Tail(q)[j].src
               PROVE  Tail(q)[i].n < Tail(q)[j].n
    BY DEF InOrder
  <2>1. i + 1 < j + 1
    BY <1>2
  <2>2. QED
    BY <2>1, <1>5 DEF InOrder
<1>7. Range(Tail(q)) \subseteq Range(q)
  BY <1>5 DEF Range
<1>8. Older({Head(q)}, Range(Tail(q)))
  <2> SUFFICES ASSUME NEW i \in DOMAIN Tail(q), Head(q).src = Tail(q)[i].src
               PROVE  Head(q).n < Tail(q)[i].n
    BY DEF Older, Range
  <2>1. QED
    BY <1>3, <1>5 DEF InOrder
<1>9. Len(q) = 1 => Tail(q) = << >>
  <2>1. Len(q) = 1 => Len(Tail(q)) = 0
    BY <1>1
  <2>2. Tail(q) # << >> => Len(Tail(q)) \in Nat \ {0}
    BY <1>1, EmptySeq
  <2>3. QED
    BY <2>1, <2>2
<1>10. QED
  BY <1>1, <1>2, <1>4, <1>6, <1>7, <1>8, <1>9

-----------------------------------------------------------------------------
(* Arithmetic.                                                             *)

\* The unsigned arithmetic of the code stays in its range.
LEMMA ModRange ==
  ASSUME NEW x \in Nat, NEW m \in Nat \ {0}
  PROVE  x % m \in 0 .. m - 1
OBVIOUS

\* The sizes, without the rest of RSSAssumption.
LEMMA Sizes ==
  /\ WorkerNum \in Nat \ {0} /\ WORKER_RING_SIZE \in Nat \ {0, 1}
  /\ RX_BURST_SIZE \in Nat \ {0} /\ 0 \in Worker
BY RSSAssumption DEF Worker

\* How many of a entries fit a ring of m slots that holds b.
LEMMA LeastFits ==
  ASSUME NEW a \in Nat, NEW b \in Nat, NEW m \in Nat, b < m
  PROVE  Least(a, m - 1 - b) \in 0 .. a /\ b + Least(a, m - 1 - b) < m
BY DEF Least

\* A frame's key picks an existing worker.
LEMMA WorkerOfType == \A s \in Source : WorkerOf(s) \in Worker
<1>1. \A s \in Source : RssKey[s] \in Nat
  BY RSSAssumption
<1>2. WorkerNum \in Nat \ {0}
  BY RSSAssumption
<1>3. QED
  BY <1>1, <1>2, ModRange DEF WorkerOf, Worker

\* The numbers a frame carries fit their fields.
LEMMA FieldType ==
  ASSUME NEW s \in Source, NEW n \in Nat \ {0}
  PROVE  StNum(n) \in SeqNum /\ SpduNumber(n) \in SeqNum /\ SmpCnt(s, n) \in SeqNum
<1>1. SeqMod \in Nat \ {0}
  BY SeqModAssumption
<1>2. SmpFreq[s] \in Nat \ {0} /\ NumASDU[s] \in Nat /\ n - 1 \in Nat
  BY RSSAssumption
<1>3. (n - 1) * NumASDU[s] \in Nat
  BY <1>2
<1>4. ((n - 1) * NumASDU[s]) % SmpFreq[s] \in Nat
  <2>1. \A p \in Nat : p % SmpFreq[s] \in Nat
    BY <1>2, ModRange
  <2>2. QED
    BY <1>3, <2>1
<1>5. \A x \in Nat : x % SeqMod \in SeqNum
  BY <1>1, ModRange DEF SeqNum
<1>6. QED
  BY <1>4, <1>5 DEF StNum, SpduNumber, SmpCnt

\* Setting a sequence field and its error counter.
LEMMA SetFields ==
  ASSUME NEW t \in Tracker, NEW e \in Nat, NEW n \in SeqNum
  PROVE  /\ [t EXCEPT !.errSpdu = e, !.spdu = n] \in Tracker
         /\ [t EXCEPT !.errSeq = e, !.seq = n] \in Tracker
BY DEF Tracker

\* The error counters of a tracker.
LEMMA ErrorFields == \A t \in Tracker : t.errSpdu \in Nat /\ t.errSeq \in Nat
BY DEF Tracker

\* Each of the three updates of a tracker yields a tracker.
LEMMA SessionType ==
  ASSUME NEW t \in Tracker, NEW n \in SeqNum
  PROVE  ProcessSessionState(t, n) \in Tracker
<1> DEFINE e == IF t.spdu # 0 /\ n # Plus(t.spdu, 1)
                  THEN t.errSpdu + 1 ELSE t.errSpdu
<1>1. e \in Nat
  BY ErrorFields
<1> HIDE DEF e
<1>2. [t EXCEPT !.errSpdu = e, !.spdu = n] \in Tracker
  BY <1>1, SetFields
<1>3. QED
  BY <1>2 DEF ProcessSessionState, e

\* ProcessState of a GOOSE tracker returns a tracker state.
LEMMA GooseType ==
  ASSUME NEW t \in Tracker, NEW n \in SeqNum
  PROVE  GooseProcessState(t, n) \in Tracker
<1> DEFINE e == IF n # t.seq /\ n # Plus(t.seq, 1)
                  THEN t.errSeq + 1 ELSE t.errSeq
<1>1. e \in Nat
  BY ErrorFields
<1> HIDE DEF e
<1>2. [t EXCEPT !.errSeq = e, !.seq = n] \in Tracker
  BY <1>1, SetFields
<1>3. QED
  BY <1>2 DEF GooseProcessState, e

\* ProcessState of an SV tracker returns a tracker state.
LEMMA SVType ==
  ASSUME NEW t \in Tracker, NEW n \in SeqNum, NEW num
  PROVE  SVProcessState(t, n, num) \in Tracker
<1> DEFINE e == IF n # Plus(t.seq, num) /\ n # 0
                  THEN t.errSeq + 1 ELSE t.errSeq
<1>1. e \in Nat
  BY ErrorFields
<1> HIDE DEF e
<1>2. [t EXCEPT !.errSeq = e, !.seq = n] \in Tracker
  BY <1>1, SetFields
<1>3. QED
  BY <1>2 DEF SVProcessState, e

\* A tracker stays a tracker.
LEMMA TrackType ==
  ASSUME NEW t \in Tracker, NEW s \in Source, NEW n \in Nat \ {0}
  PROVE  Track(t, s, n) \in Tracker
<1>1. StNum(n) \in SeqNum /\ SpduNumber(n) \in SeqNum /\ SmpCnt(s, n) \in SeqNum
  BY FieldType
<1>2. QED
  BY <1>1, SessionType, GooseType, SVType DEF Track

\* The positions of a burst that the bus stages handle.
LEMMA BusPositionsCount ==
  ASSUME NEW b \in Seq(Frame)
  PROVE  /\ BusPositions(b) \subseteq 1 .. Len(b)
         /\ Len(b) - Cardinality(BusPositions(b)) \in Nat
<1>1. Len(b) \in Nat /\ DOMAIN b = 1 .. Len(b)
  BY LenProperties
<1>2. BusPositions(b) \subseteq 1 .. Len(b)
  BY <1>1 DEF BusPositions
<1>3. IsFiniteSet(1 .. Len(b)) /\ Cardinality(1 .. Len(b)) = Len(b)
  BY <1>1, FS_Interval
<1>4. /\ Cardinality(BusPositions(b)) <= Cardinality(1 .. Len(b))
      /\ Cardinality(BusPositions(b)) \in Nat
  BY <1>2, <1>3, FS_Subset, FS_CardinalityType
<1>5. QED
  BY <1>1, <1>2, <1>3, <1>4

-----------------------------------------------------------------------------
(* Type correctness.                                                       *)

\* Type correctness is inductive together with the bounds that keep every cut
\* of a queue within the queue, and with the control invariant.
TypeInv == TypeOK /\ NoOverrun /\ ControlInv

\* The initial state is typed and within bounds.
LEMMA InitType == Init => TypeInv
<1> SUFFICES ASSUME Init PROVE TypeInv
  OBVIOUS
<1>1. << >> \in Seq(Frame) /\ Len(<< >>) = 0
  BY EmptySeq
<1>2. NewTracker \in Tracker
  BY SeqModAssumption DEF NewTracker, Tracker, SeqNum
<1>3. NoReg \in [c : Counter, val : Nat, add : Nat]
  BY DEF NoReg, Counter
<1>4. TypeOK
  BY <1>1, <1>2, <1>3, Sizes, RSSAssumption DEF Init, TypeOK, MainPc, WorkerPc
<1>5. NoOverrun
  BY <1>1, Sizes DEF Init, NoOverrun
<1>6. ControlInv
  BY DEF Init, ControlInv
<1>7. QED
  BY <1>4, <1>5, <1>6 DEF TypeInv

\* What an arrival does, without its guards.
LEMMA ArriveEffect ==
  ASSUME TypeOK, NEW s \in Source, NEW v \in Verdict, Arrive(s, v)
  PROVE  LET f == [src |-> s, n |-> sent[s] + 1, verdict |-> v] IN
         /\ f \in Frame
         /\ sent[s] \in Nat
         /\ sent' = [sent EXCEPT ![s] = @ + 1]
         /\ \/ nic' = Append(nic, f) /\ pool > 0 /\ pool' = pool - 1 /\ missed' = missed
            \/ nic' = nic /\ pool' = pool /\ missed' = missed + 1
         /\ UNCHANGED <<doWork, mainVars, ring, workerVars, statVars>>
<1>1. sent[s] \in Nat
  BY DEF TypeOK
<1>2. [src |-> s, n |-> sent[s] + 1, verdict |-> v] \in Frame
  BY <1>1 DEF Frame
<1>3. QED
  BY <1>1, <1>2 DEF Arrive

\* The port takes or drops a frame.
LEMMA ArriveType ==
  ASSUME TypeInv, NEW s \in Source, NEW v \in Verdict, Arrive(s, v)
  PROVE  TypeInv'
<1> USE DEF TypeInv
<1> DEFINE f == [src |-> s, n |-> sent[s] + 1, verdict |-> v]
<1>1. /\ f \in Frame
      /\ sent[s] \in Nat
      /\ sent' = [sent EXCEPT ![s] = @ + 1]
      /\ \/ nic' = Append(nic, f) /\ pool > 0 /\ pool' = pool - 1 /\ missed' = missed
         \/ nic' = nic /\ pool' = pool /\ missed' = missed + 1
      /\ UNCHANGED <<doWork, mainVars, ring, workerVars, statVars>>
  BY ArriveEffect
<1> HIDE DEF f
<1>2. sent' \in [Source -> Nat]
  <2>1. sent \in [Source -> Nat]
    BY DEF TypeOK
  <2>2. QED
    BY <1>1, <2>1
<1>3. nic' \in Seq(Frame) /\ pool' \in Nat /\ missed' \in Nat
  <2>1. Append(nic, f) \in Seq(Frame)
    BY <1>1, AppendProperties DEF TypeOK
  <2>2. nic \in Seq(Frame) /\ pool \in Nat /\ missed \in Nat
    BY DEF TypeOK
  <2>3. CASE nic' = Append(nic, f) /\ pool > 0 /\ pool' = pool - 1 /\ missed' = missed
    BY <2>1, <2>2, <2>3
  <2>4. CASE nic' = nic /\ pool' = pool /\ missed' = missed + 1
    BY <2>2, <2>4
  <2>5. QED
    BY <1>1, <2>3, <2>4
<1>4. TypeOK'
  BY <1>1, <1>2, <1>3 DEF TypeOK, mainVars, workerVars, statVars
<1>5. NoOverrun'
  BY <1>1 DEF NoOverrun, mainVars, workerVars
<1>6. ControlInv'
  BY <1>1 DEF ControlInv, BusPositions, mainVars, workerVars
<1>7. QED
  BY <1>4, <1>5, <1>6

\* A stop request clears g_doWork.
LEMMA StopType == ASSUME TypeInv, Stop PROVE TypeInv'
<1>1. TypeOK'
  BY DEF TypeInv, TypeOK, Stop, mainVars, workerVars, statVars
<1>2. NoOverrun'
  BY DEF TypeInv, NoOverrun, Stop, mainVars, workerVars
<1>3. ControlInv'
  BY DEF TypeInv, ControlInv, BusPositions, Stop, mainVars, workerVars
<1>4. QED
  BY <1>1, <1>2, <1>3 DEF TypeInv

\* The loop condition of multi_core_rss.
LEMMA MainCheckType == ASSUME TypeInv, MainCheck PROVE TypeInv'
<1>1. TypeOK'
  BY DEF TypeInv, TypeOK, MainCheck, MainPc, workerVars, statVars
<1>2. NoOverrun'
  BY DEF TypeInv, NoOverrun, MainCheck, workerVars
<1>3. ControlInv'
  BY DEF TypeInv, ControlInv, BusPositions, MainCheck, workerVars
<1>4. QED
  BY <1>1, <1>2, <1>3 DEF TypeInv

\* What a burst from the port takes.
LEMMA RxBurstEffect ==
  ASSUME TypeOK, RxBurst
  PROVE  \E k \in 0 .. Len(nic) :
           /\ k <= RX_BURST_SIZE
           /\ bufs' = Prefix(nic, k) /\ nic' = Rest(nic, k)
           /\ mpc' = IF k = 0 THEN "top" ELSE "dispatch"
<1> DEFINE k == Least(Len(nic), RX_BURST_SIZE)
<1>1. Len(nic) \in Nat
  BY LenProperties DEF TypeOK
<1>2. k \in 0 .. Len(nic) /\ k <= RX_BURST_SIZE
  BY <1>1, Sizes DEF Least
<1>3. QED
  BY <1>2 DEF RxBurst

\* A poll returns at most one burst.
LEMMA RxBurstType == ASSUME TypeInv, RxBurst PROVE TypeInv'
<1>1. PICK k \in 0 .. Len(nic) :
           /\ k <= RX_BURST_SIZE
           /\ bufs' = Prefix(nic, k) /\ nic' = Rest(nic, k)
           /\ mpc' = IF k = 0 THEN "top" ELSE "dispatch"
  BY RxBurstEffect DEF TypeInv
<1>2. /\ bufs' \in Seq(Frame) /\ Len(bufs') = k
      /\ nic' \in Seq(Frame)
  BY <1>1, CutType DEF TypeInv, TypeOK
<1>3. k = 0 => bufs' = << >>
  BY <1>2, EmptySeq
<1>4. \A w \in Worker : workerQueue[w] = << >>
  BY DEF TypeInv, ControlInv, RxBurst
<1>5. TypeOK'
  BY <1>1, <1>2 DEF TypeInv, TypeOK, RxBurst, MainPc, workerVars, statVars
<1>6. NoOverrun'
  <2>1. \A w \in Worker : Len(workerQueue'[w]) + Len(bufs') <= RX_BURST_SIZE
    <3>1. \A w \in Worker : Len(workerQueue'[w]) = 0
      BY <1>4, EmptySeq DEF RxBurst
    <3>2. QED
      BY <1>1, <1>2, <3>1
  <2>2. QED
    BY <2>1 DEF TypeInv, NoOverrun, RxBurst, workerVars
<1>7. ControlInv'
  BY <1>1, <1>3, <1>4 DEF TypeInv, ControlInv, BusPositions, RxBurst, workerVars
<1>8. QED
  BY <1>5, <1>6, <1>7 DEF TypeInv

\* Where a dispatched frame goes.
LEMMA DispatchEffect ==
  ASSUME TypeOK, Dispatch
  PROVE  LET f == Head(bufs)
             w == WorkerOf(f.src)
         IN  /\ mpc = "dispatch" /\ bufs # << >> /\ f \in Frame /\ w \in Worker
             /\ workerQueue' \in [Worker -> Seq(Frame)]
             /\ workerQueue'[w] = Append(workerQueue[w], f)
             /\ \A v \in Worker \ {w} : workerQueue'[v] = workerQueue[v]
             /\ bufs' = Tail(bufs) /\ bufs' \in Seq(Frame)
             /\ Len(bufs') = Len(bufs) - 1 /\ Len(bufs) \in Nat
             /\ mpc' = (IF Len(bufs) = 1 THEN "enqueue" ELSE "dispatch")
             /\ Len(bufs) = 1 => bufs' = << >>
             /\ enq' = 0
<1> DEFINE f == Head(bufs)
           w == WorkerOf(f.src)
<1>1. /\ mpc = "dispatch" /\ bufs # << >>
      /\ workerQueue' = [workerQueue EXCEPT ![w] = Append(@, f)]
      /\ bufs' = Tail(bufs)
      /\ mpc' = IF Len(bufs) = 1 THEN "enqueue" ELSE "dispatch"
      /\ enq' = 0
  BY DEF Dispatch
<1>2. /\ f \in Frame /\ bufs' \in Seq(Frame) /\ Len(bufs') = Len(bufs) - 1
      /\ Len(bufs) \in Nat
  BY <1>1, HeadTailProperties, LenProperties DEF TypeOK
<1>3. w \in Worker
  BY <1>2, WorkerOfType DEF Frame
<1> HIDE DEF f, w
<1>4. workerQueue \in [Worker -> Seq(Frame)]
  BY DEF TypeOK
<1>5. Append(workerQueue[w], f) \in Seq(Frame)
  BY <1>2, <1>3, <1>4, AppendProperties
<1>6. /\ workerQueue' \in [Worker -> Seq(Frame)]
      /\ workerQueue'[w] = Append(workerQueue[w], f)
      /\ \A v \in Worker \ {w} : workerQueue'[v] = workerQueue[v]
  BY <1>1, <1>3, <1>4, <1>5
<1>7. Len(bufs) = 1 => bufs' = << >>
  BY <1>2, EmptySeq
<1>8. QED
  BY <1>1, <1>2, <1>3, <1>6, <1>7 DEF f, w

\* Dispatching moves one frame into a staging array that has room for it.
LEMMA DispatchType == ASSUME TypeInv, Dispatch PROVE TypeInv'
<1> DEFINE f == Head(bufs)
           w == WorkerOf(f.src)
<1>1. /\ mpc = "dispatch" /\ bufs # << >> /\ f \in Frame /\ w \in Worker
      /\ workerQueue' \in [Worker -> Seq(Frame)]
      /\ workerQueue'[w] = Append(workerQueue[w], f)
      /\ \A v \in Worker \ {w} : workerQueue'[v] = workerQueue[v]
      /\ bufs' = Tail(bufs) /\ bufs' \in Seq(Frame)
      /\ Len(bufs') = Len(bufs) - 1 /\ Len(bufs) \in Nat
      /\ mpc' = (IF Len(bufs) = 1 THEN "enqueue" ELSE "dispatch")
      /\ Len(bufs) = 1 => bufs' = << >>
      /\ enq' = 0
  BY DispatchEffect DEF TypeInv
<1> HIDE DEF f, w
<1>2. TypeOK'
  BY <1>1, Sizes DEF TypeInv, TypeOK, Dispatch, MainPc, workerVars, statVars
<1>3. NoOverrun'
  <2>1. \A v \in Worker : Len(workerQueue[v]) \in Nat
    BY LenProperties DEF TypeInv, TypeOK
  <2>2. Len(workerQueue'[w]) = Len(workerQueue[w]) + 1
    BY <1>1, AppendProperties DEF TypeInv, TypeOK
  <2>3. \A v \in Worker : Len(workerQueue[v]) + Len(bufs) <= RX_BURST_SIZE
    BY DEF TypeInv, NoOverrun
  <2>4. ASSUME NEW v \in Worker
        PROVE  Len(workerQueue'[v]) + Len(bufs') <= RX_BURST_SIZE
    <3>1. /\ Len(bufs') = Len(bufs) - 1 /\ Len(bufs) \in Nat
          /\ Len(workerQueue[v]) \in Nat
          /\ Len(workerQueue[v]) + Len(bufs) <= RX_BURST_SIZE
      BY <1>1, <2>1, <2>3
    <3>2. Len(workerQueue'[v]) \in {Len(workerQueue[v]), Len(workerQueue[v]) + 1}
      BY <1>1, <2>2
    <3>3. QED
      BY <3>1, <3>2, Sizes
  <2>5. QED
    BY <2>4 DEF TypeInv, NoOverrun, Dispatch, workerVars
<1>4. ControlInv'
  BY <1>1 DEF TypeInv, ControlInv, BusPositions, Dispatch, workerVars
<1>5. QED
  BY <1>2, <1>3, <1>4 DEF TypeInv

\* What one call of rte_ring_sp_enqueue_burst takes and leaves.
LEMMA EnqueueEffect ==
  ASSUME TypeOK, NoOverrun, EnqueueBurst
  PROVE  \E k \in 0 .. Len(workerQueue[enq]) :
           /\ mpc = "enqueue"
           /\ Len(ring[enq]) + k < WORKER_RING_SIZE
           /\ ring' \in [Worker -> Seq(Frame)]
           /\ ring'[enq] = ring[enq] \o Prefix(workerQueue[enq], k)
           /\ Len(ring'[enq]) = Len(ring[enq]) + k
           /\ \A v \in Worker \ {enq} : ring'[v] = ring[v]
           /\ workerQueue' \in [Worker -> Seq(Frame)]
           /\ workerQueue'[enq] = << >>
           /\ \A v \in Worker \ {enq} : workerQueue'[v] = workerQueue[v]
           /\ pool' = pool + (Len(workerQueue[enq]) - k)
           /\ ringFull' = ringFull + (Len(workerQueue[enq]) - k)
           /\ mpc' = (IF enq + 1 < WorkerNum THEN "enqueue" ELSE "top")
           /\ enq' = (IF enq + 1 < WorkerNum THEN enq + 1 ELSE 0)
           /\ UNCHANGED <<doWork, nic, sent, missed, bufs, workerVars, statVars>>
<1> DEFINE q == workerQueue[enq]
           k == Least(Len(q), RingFree(enq))
           c == ring[enq] \o Prefix(q, k)
<1>1. /\ enq \in Worker /\ q \in Seq(Frame) /\ ring[enq] \in Seq(Frame)
      /\ Len(ring[enq]) < WORKER_RING_SIZE
  BY DEF TypeOK, NoOverrun
<1>2. Len(q) \in Nat /\ Len(ring[enq]) \in Nat
  BY <1>1, LenProperties
<1>3. k \in 0 .. Len(q) /\ Len(ring[enq]) + k < WORKER_RING_SIZE
  BY <1>1, <1>2, Sizes, LeastFits DEF RingFree
<1>4. /\ mpc = "enqueue"
      /\ ring' = [ring EXCEPT ![enq] = c]
      /\ pool' = pool + (Len(q) - k)
      /\ ringFull' = ringFull + (Len(q) - k)
      /\ workerQueue' = [workerQueue EXCEPT ![enq] = << >>]
      /\ mpc' = IF enq + 1 < WorkerNum THEN "enqueue" ELSE "top"
      /\ enq' = IF enq + 1 < WorkerNum THEN enq + 1 ELSE 0
      /\ UNCHANGED <<doWork, nic, sent, missed, bufs, workerVars, statVars>>
  BY DEF EnqueueBurst, NextQueue
<1> HIDE DEF k
<1>5. Prefix(q, k) \in Seq(Frame) /\ Len(Prefix(q, k)) = k
  BY <1>1, <1>3, CutType
<1>6. c \in Seq(Frame) /\ Len(c) = Len(ring[enq]) + k
  <2>1. /\ c \in Seq(Frame)
        /\ Len(c) = Len(ring[enq]) + Len(Prefix(q, k))
    <3> HIDE DEF q
    <3>1. QED
      BY <1>1, <1>5, ConcatProperties
  <2>2. QED
    BY <1>5, <2>1
<1>7. /\ ring' \in [Worker -> Seq(Frame)] /\ ring'[enq] = c
      /\ \A v \in Worker \ {enq} : ring'[v] = ring[v]
  <2> HIDE DEF c
  <2>1. ring \in [Worker -> Seq(Frame)]
    BY DEF TypeOK
  <2>2. QED
    BY <1>1, <1>4, <1>6, <2>1
<1>8. /\ workerQueue' \in [Worker -> Seq(Frame)] /\ workerQueue'[enq] = << >>
      /\ \A v \in Worker \ {enq} : workerQueue'[v] = workerQueue[v]
  <2>1. workerQueue \in [Worker -> Seq(Frame)] /\ << >> \in Seq(Frame)
    BY EmptySeq DEF TypeOK
  <2>2. QED
    BY <1>1, <1>4, <2>1
<1>9. QED
  BY <1>3, <1>4, <1>6, <1>7, <1>8

\* Enqueuing empties one staging array; the ring takes what fits.
LEMMA EnqueueBurstType == ASSUME TypeInv, EnqueueBurst PROVE TypeInv'
<1>1. PICK k \in 0 .. Len(workerQueue[enq]) :
        /\ mpc = "enqueue"
        /\ Len(ring[enq]) + k < WORKER_RING_SIZE
        /\ ring' \in [Worker -> Seq(Frame)]
        /\ Len(ring'[enq]) = Len(ring[enq]) + k
        /\ \A v \in Worker \ {enq} : ring'[v] = ring[v]
        /\ workerQueue' \in [Worker -> Seq(Frame)]
        /\ workerQueue'[enq] = << >>
        /\ \A v \in Worker \ {enq} : workerQueue'[v] = workerQueue[v]
        /\ pool' = pool + (Len(workerQueue[enq]) - k)
        /\ ringFull' = ringFull + (Len(workerQueue[enq]) - k)
        /\ mpc' = (IF enq + 1 < WorkerNum THEN "enqueue" ELSE "top")
        /\ enq' = (IF enq + 1 < WorkerNum THEN enq + 1 ELSE 0)
        /\ UNCHANGED <<doWork, nic, sent, missed, bufs, workerVars, statVars>>
  BY EnqueueEffect DEF TypeInv
<1>2. enq \in Worker /\ enq \in 0 .. WorkerNum - 1 /\ Len(workerQueue[enq]) \in Nat
  BY LenProperties DEF TypeInv, TypeOK, Worker
<1>3. pool' \in Nat /\ ringFull' \in Nat
  <2>1. pool \in Nat /\ ringFull \in Nat
    BY DEF TypeInv, TypeOK
  <2>2. QED
    BY <1>1, <1>2, <2>1
<1>4. enq' \in Worker
  <2>1. enq' = IF enq + 1 < WorkerNum THEN enq + 1 ELSE 0
    BY <1>1
  <2>2. QED
    BY <1>2, <2>1, Sizes DEF Worker
<1>5. TypeOK'
  BY <1>1, <1>3, <1>4 DEF TypeInv, TypeOK, MainPc, workerVars, statVars
<1>6. bufs = << >>
  BY <1>1 DEF TypeInv, ControlInv
<1>7. NoOverrun'
  <2>1. ASSUME NEW v \in Worker
        PROVE  /\ Len(workerQueue'[v]) + Len(bufs') <= RX_BURST_SIZE
               /\ Len(ring'[v]) < WORKER_RING_SIZE
    <3>1. CASE v = enq
      BY <3>1, <1>1, <1>6, Sizes, EmptySeq
    <3>2. CASE v # enq
      BY <3>2, <1>1 DEF TypeInv, NoOverrun
    <3>3. QED
      BY <3>1, <3>2
  <2>2. QED
    BY <1>1, <2>1 DEF TypeInv, NoOverrun, workerVars
<1>8. ControlInv'
  <2>1. ASSUME NEW v \in Worker, v <= enq
        PROVE  workerQueue'[v] = << >>
    <3>1. v # enq => v \in 0 .. enq - 1
      BY <2>1, <1>2 DEF Worker
    <3>2. v # enq => workerQueue[v] = << >>
      BY <1>1, <3>1 DEF TypeInv, ControlInv
    <3>3. QED
      BY <1>1, <3>2
  <2>2. mpc' # "enqueue" => \A v \in Worker : workerQueue'[v] = << >>
    <3>1. mpc' # "enqueue" => enq + 1 >= WorkerNum
      BY <1>1, <1>2, Sizes
    <3>2. enq + 1 >= WorkerNum => \A v \in Worker : v <= enq
      BY <1>2, Sizes DEF Worker
    <3>3. QED
      BY <2>1, <3>1, <3>2
  <2>3. mpc' = "enqueue" => \A v \in 0 .. enq' - 1 : workerQueue'[v] = << >>
    <3>1. mpc' = "enqueue" => enq' = enq + 1
      BY <1>1
    <3>2. \A v \in 0 .. enq : v \in Worker /\ v <= enq
      BY <1>2, Sizes DEF Worker
    <3>3. enq' = enq + 1 => 0 .. enq' - 1 = 0 .. enq
      BY <1>2
    <3>4. QED
      BY <2>1, <3>1, <3>2, <3>3
  <2>4. QED
    BY <1>1, <1>6, <2>2, <2>3 DEF TypeInv, ControlInv, BusPositions, workerVars
<1>9. QED
  BY <1>5, <1>7, <1>8 DEF TypeInv

\* Stopping the port after the loop.
LEMMA EthStopType == ASSUME TypeInv, EthStop PROVE TypeInv'
<1>1. Len(nic) \in Nat /\ << >> \in Seq(Frame)
  BY LenProperties, EmptySeq DEF TypeInv, TypeOK
<1>2. pool' \in Nat /\ nic' \in Seq(Frame) /\ mpc' \in MainPc
  <2>1. pool \in Nat /\ pool' = pool + Len(nic) /\ nic' = << >> /\ mpc' = "stopped"
    BY DEF TypeInv, TypeOK, EthStop
  <2>2. QED
    BY <1>1, <2>1 DEF MainPc
<1>3. TypeOK'
  BY <1>2 DEF TypeInv, TypeOK, EthStop, workerVars, statVars
<1>4. NoOverrun'
  BY DEF TypeInv, NoOverrun, EthStop, workerVars
<1>5. ControlInv'
  BY DEF TypeInv, ControlInv, BusPositions, EthStop, workerVars
<1>6. QED
  BY <1>3, <1>4, <1>5 DEF TypeInv

\* Main waits for the workers.
LEMMA WaitLcoresType == ASSUME TypeInv, WaitLcores PROVE TypeInv'
<1>1. TypeOK'
  BY DEF TypeInv, TypeOK, WaitLcores, MainPc, workerVars, statVars
<1>2. NoOverrun'
  BY DEF TypeInv, NoOverrun, WaitLcores, workerVars
<1>3. ControlInv'
  BY DEF TypeInv, ControlInv, BusPositions, WaitLcores, workerVars
<1>4. QED
  BY <1>1, <1>2, <1>3 DEF TypeInv

\* The actions of a worker.
LEMMA WorkerCheckType ==
  ASSUME TypeInv, NEW w \in Worker, WorkerCheck(w) PROVE TypeInv'
<1>1. /\ wpc' \in [Worker -> WorkerPc]
      /\ \A v \in Worker \ {w} : wpc'[v] = wpc[v]
      /\ wpc[w] = "top"
  BY DEF TypeInv, TypeOK, WorkerCheck, WorkerPc
<1>2. TypeOK'
  BY <1>1 DEF TypeInv, TypeOK, WorkerCheck, mainVars, statVars
<1>3. NoOverrun'
  BY DEF TypeInv, NoOverrun, WorkerCheck, mainVars
<1>4. ControlInv'
  BY <1>1 DEF TypeInv, ControlInv, BusPositions, WorkerCheck, mainVars
<1>5. QED
  BY <1>2, <1>3, <1>4 DEF TypeInv

\* What a worker takes from its ring.
LEMMA DequeueEffect ==
  ASSUME TypeOK, NEW w \in Worker, DequeueBurst(w)
  PROVE  \E k \in 0 .. Len(ring[w]) :
           /\ k <= RX_BURST_SIZE
           /\ batch' \in [Worker -> Seq(Frame)] /\ batch'[w] = Prefix(ring[w], k)
           /\ ring' \in [Worker -> Seq(Frame)] /\ ring'[w] = Rest(ring[w], k)
           /\ todo' \in [Worker -> SUBSET Nat] /\ todo'[w] = BusPositions(batch'[w])
           /\ wpc' \in [Worker -> WorkerPc]
           /\ wpc'[w] = (IF k = 0 THEN "top" ELSE "stages")
           /\ \A v \in Worker \ {w} :
                /\ batch'[v] = batch[v] /\ ring'[v] = ring[v]
                /\ todo'[v] = todo[v] /\ wpc'[v] = wpc[v]
<1> DEFINE k == Least(Len(ring[w]), RX_BURST_SIZE)
<1>1. /\ batch \in [Worker -> Seq(Frame)] /\ ring \in [Worker -> Seq(Frame)]
      /\ todo \in [Worker -> SUBSET Nat] /\ wpc \in [Worker -> WorkerPc]
      /\ ring[w] \in Seq(Frame) /\ Len(ring[w]) \in Nat
  BY LenProperties DEF TypeOK
<1>2. k \in 0 .. Len(ring[w]) /\ k <= RX_BURST_SIZE
  BY <1>1, Sizes DEF Least
<1>3. /\ batch' = [batch EXCEPT ![w] = Prefix(ring[w], k)]
      /\ ring' = [ring EXCEPT ![w] = Rest(ring[w], k)]
      /\ todo' = [todo EXCEPT ![w] = BusPositions(Prefix(ring[w], k))]
      /\ wpc' = [wpc EXCEPT ![w] = IF k = 0 THEN "top" ELSE "stages"]
  BY DEF DequeueBurst
<1> HIDE DEF k
<1>4. Prefix(ring[w], k) \in Seq(Frame) /\ Rest(ring[w], k) \in Seq(Frame)
  BY <1>1, <1>2, CutType
<1>5. BusPositions(Prefix(ring[w], k)) \in SUBSET Nat
  BY <1>4, BusPositionsCount, LenProperties
<1>6. "top" \in WorkerPc /\ "stages" \in WorkerPc
  BY DEF WorkerPc
<1>7. QED
  BY <1>1, <1>2, <1>3, <1>4, <1>5, <1>6

\* A worker takes at most one burst off its ring.
LEMMA DequeueBurstType ==
  ASSUME TypeInv, NEW w \in Worker, DequeueBurst(w) PROVE TypeInv'
<1>1. PICK k \in 0 .. Len(ring[w]) :
           /\ k <= RX_BURST_SIZE
           /\ batch' \in [Worker -> Seq(Frame)] /\ batch'[w] = Prefix(ring[w], k)
           /\ ring' \in [Worker -> Seq(Frame)] /\ ring'[w] = Rest(ring[w], k)
           /\ todo' \in [Worker -> SUBSET Nat] /\ todo'[w] = BusPositions(batch'[w])
           /\ wpc' \in [Worker -> WorkerPc]
           /\ wpc'[w] = (IF k = 0 THEN "top" ELSE "stages")
           /\ \A v \in Worker \ {w} :
                /\ batch'[v] = batch[v] /\ ring'[v] = ring[v]
                /\ todo'[v] = todo[v] /\ wpc'[v] = wpc[v]
  BY DequeueEffect DEF TypeInv
<1>2. /\ Len(batch'[w]) = k /\ Len(ring'[w]) = Len(ring[w]) - k
      /\ ring[w] \in Seq(Frame) /\ Len(ring[w]) \in Nat
  <2>1. ring[w] \in Seq(Frame)
    BY DEF TypeInv, TypeOK
  <2>2. Len(ring[w]) \in Nat
    BY <2>1, LenProperties
  <2>3. Len(Prefix(ring[w], k)) = k /\ Len(Rest(ring[w], k)) = Len(ring[w]) - k
    BY <2>1, CutType
  <2>4. QED
    BY <1>1, <2>1, <2>2, <2>3
<1>3. TypeOK'
  BY <1>1 DEF TypeInv, TypeOK, DequeueBurst, mainVars, statVars
<1>4. NoOverrun'
  <2>1. Len(ring'[w]) < WORKER_RING_SIZE /\ Len(batch'[w]) <= RX_BURST_SIZE
    <3>1. Len(ring[w]) < WORKER_RING_SIZE
      BY DEF TypeInv, NoOverrun
    <3>2. QED
      BY <1>1, <1>2, <3>1, Sizes
  <2>2. QED
    BY <1>1, <2>1 DEF TypeInv, NoOverrun, DequeueBurst, mainVars
<1>5. ControlInv'
  <2>1. ASSUME NEW v \in Worker PROVE todo'[v] \subseteq BusPositions(batch'[v])
    BY <1>1 DEF TypeInv, ControlInv
  <2>2. k = 0 => todo'[w] = {}
    <3>1. BusPositions(batch'[w]) \subseteq 1 .. Len(batch'[w])
      BY <1>1, BusPositionsCount
    <3>2. QED
      BY <1>1, <1>2, <3>1
  <2>3. ASSUME NEW v \in Worker, wpc'[v] \notin {"stages", "store"}
        PROVE  todo'[v] = {}
    BY <1>1, <2>2, <2>3 DEF TypeInv, ControlInv
  <2>4. QED
    BY <2>1, <2>3 DEF TypeInv, ControlInv, BusPositions, DequeueBurst, mainVars
<1>6. QED
  BY <1>3, <1>4, <1>5 DEF TypeInv

\* The frame a stage handles and what becomes of its stream's tracker.
LEMMA StageFrameEffect ==
  ASSUME TypeInv, NEW w \in Worker, NEW i \in todo[w], StageFrame(w, i)
  PROVE  LET f == batch[w][i]
             c == CounterOf(Proto[f.src], f.verdict)
         IN  /\ f \in Frame /\ i \in DOMAIN batch[w] /\ f \in Range(batch[w])
             /\ Proto[f.src] \in BusProto
             /\ c \in Counter \ {"pktToKernel"}
             /\ \/ /\ f.verdict = "ok"
                   /\ trk' = [trk EXCEPT ![f.src] = Track(@, f.src, f.n)]
                   /\ lastN' = [lastN EXCEPT ![f.src] = f.n]
                   /\ delivered' = [delivered EXCEPT ![f.src] = @ + 1]
                \/ UNCHANGED <<trk, lastN, delivered>>
             /\ reg' = [reg EXCEPT ![w] = [c |-> c, val |-> cnt[c], add |-> 1]]
             /\ tally' = [tally EXCEPT ![c] = @ + 1]
             /\ todo' = [todo EXCEPT ![w] = @ \ {i}]
             /\ wpc' = [wpc EXCEPT ![w] = "store"]
             /\ wpc[w] = "stages"
<1> DEFINE f == batch[w][i]
           c == CounterOf(Proto[f.src], f.verdict)
<1>1. batch[w] \in Seq(Frame) /\ i \in BusPositions(batch[w])
  BY DEF TypeInv, TypeOK, ControlInv
<1>2. i \in DOMAIN batch[w] /\ Proto[f.src] \in BusProto
  BY <1>1 DEF BusPositions
<1>3. f \in Frame /\ f \in Range(batch[w])
  <2>1. f \in Range(batch[w])
    BY <1>2 DEF Range
  <2>2. Range(batch[w]) \subseteq Frame
    BY <1>1, RangeOfSeq
  <2>3. QED
    BY <2>1, <2>2
<1>4. c \in Counter \ {"pktToKernel"}
  <2>1. f.verdict \in Verdict
    BY <1>3 DEF Frame
  <2> HIDE DEF f
  <2>2. QED
    BY <2>1 DEF CounterOf, Counter, Verdict
<1>5. QED
  BY <1>2, <1>3, <1>4 DEF StageFrame

\* A pipeline stage handles one frame of the batch.
LEMMA StageFrameType ==
  ASSUME TypeInv, NEW w \in Worker, NEW i \in todo[w], StageFrame(w, i)
  PROVE  TypeInv'
<1> DEFINE f == batch[w][i]
           c == CounterOf(Proto[f.src], f.verdict)
<1>1. /\ f \in Frame /\ c \in Counter
      /\ \/ /\ trk' = [trk EXCEPT ![f.src] = Track(@, f.src, f.n)]
            /\ lastN' = [lastN EXCEPT ![f.src] = f.n]
            /\ delivered' = [delivered EXCEPT ![f.src] = @ + 1]
         \/ UNCHANGED <<trk, lastN, delivered>>
      /\ reg' = [reg EXCEPT ![w] = [c |-> c, val |-> cnt[c], add |-> 1]]
      /\ tally' = [tally EXCEPT ![c] = @ + 1]
      /\ todo' = [todo EXCEPT ![w] = @ \ {i}]
      /\ wpc' = [wpc EXCEPT ![w] = "store"]
  BY StageFrameEffect
<1> HIDE DEF f, c
<1>2. f.src \in Source /\ f.n \in Nat \ {0}
  BY <1>1 DEF Frame
<1>3. trk' \in [Source -> Tracker] /\ lastN' \in [Source -> Nat] /\ delivered' \in [Source -> Nat]
  <2>1. trk \in [Source -> Tracker] /\ lastN \in [Source -> Nat] /\ delivered \in [Source -> Nat]
    BY DEF TypeInv, TypeOK
  <2>2. Track(trk[f.src], f.src, f.n) \in Tracker
    BY <1>2, <2>1, TrackType
  <2>3. QED
    BY <1>1, <1>2, <2>1, <2>2
<1>4. reg' \in [Worker -> [c : Counter, val : Nat, add : Nat]] /\ tally' \in [Counter -> Nat]
  <2>1. /\ cnt \in [Counter -> Nat] /\ tally \in [Counter -> Nat]
        /\ reg \in [Worker -> [c : Counter, val : Nat, add : Nat]]
    BY DEF TypeInv, TypeOK
  <2>2. [c |-> c, val |-> cnt[c], add |-> 1] \in [c : Counter, val : Nat, add : Nat]
    BY <1>1, <2>1
  <2>3. QED
    BY <1>1, <2>1, <2>2
<1>5. /\ todo' \in [Worker -> SUBSET Nat] /\ todo'[w] \subseteq todo[w]
      /\ wpc' \in [Worker -> WorkerPc] /\ wpc'[w] = "store"
      /\ \A v \in Worker \ {w} : todo'[v] = todo[v] /\ wpc'[v] = wpc[v]
  BY <1>1 DEF TypeInv, TypeOK, WorkerPc
<1>6. TypeOK'
  BY <1>3, <1>4, <1>5 DEF TypeInv, TypeOK, StageFrame, mainVars
<1>7. NoOverrun'
  BY DEF TypeInv, NoOverrun, StageFrame, mainVars
<1>8. ControlInv'
  BY <1>5 DEF TypeInv, ControlInv, BusPositions, StageFrame, mainVars
<1>9. QED
  BY <1>6, <1>7, <1>8 DEF TypeInv

\* The IP stage handles what the router left over.
LEMMA IPStageType ==
  ASSUME TypeInv, NEW w \in Worker, IPStage(w) PROVE TypeInv'
<1> DEFINE num == Len(batch[w]) - Cardinality(BusPositions(batch[w]))
           r == [c |-> "pktToKernel", val |-> cnt["pktToKernel"], add |-> num]
<1>1. num \in Nat
  BY BusPositionsCount DEF TypeInv, TypeOK
<1>2. /\ reg' = [reg EXCEPT ![w] = r]
      /\ tally' = [tally EXCEPT !["pktToKernel"] = @ + num]
      /\ wpc' = [wpc EXCEPT ![w] = "storeIP"]
      /\ todo[w] = {}
  BY DEF IPStage
<1> HIDE DEF num
<1>3. r \in [c : Counter, val : Nat, add : Nat] /\ "pktToKernel" \in Counter
  BY <1>1 DEF TypeInv, TypeOK, Counter
<1> HIDE DEF r
<1>4. reg' \in [Worker -> [c : Counter, val : Nat, add : Nat]] /\ tally' \in [Counter -> Nat]
  <2>1. /\ tally \in [Counter -> Nat]
        /\ reg \in [Worker -> [c : Counter, val : Nat, add : Nat]]
    BY DEF TypeInv, TypeOK
  <2>2. tally["pktToKernel"] + num \in Nat
    BY <1>1, <1>3, <2>1
  <2>3. QED
    BY <1>2, <1>3, <2>1, <2>2
<1>5. /\ wpc' \in [Worker -> WorkerPc]
      /\ \A v \in Worker \ {w} : wpc'[v] = wpc[v]
  BY <1>2 DEF TypeInv, TypeOK, WorkerPc
<1>6. TypeOK'
  BY <1>4, <1>5 DEF TypeInv, TypeOK, IPStage, mainVars
<1>7. NoOverrun'
  BY DEF TypeInv, NoOverrun, IPStage, mainVars
<1>8. ControlInv'
  BY <1>2, <1>5 DEF TypeInv, ControlInv, BusPositions, IPStage, mainVars
<1>9. QED
  BY <1>6, <1>7, <1>8 DEF TypeInv

\* The write half of a counter increment.
LEMMA StoreCounterType ==
  ASSUME TypeInv, NEW w \in Worker, StoreCounter(w) PROVE TypeInv'
<1>1. /\ wpc[w] \in {"store", "storeIP"}
      /\ cnt' = [cnt EXCEPT ![reg[w].c] = reg[w].val + reg[w].add]
      /\ reg' = [reg EXCEPT ![w] = NoReg]
      /\ wpc' = [wpc EXCEPT ![w] = IF @ = "store" THEN "stages" ELSE "free"]
  BY DEF StoreCounter
<1>2. reg[w].c \in Counter /\ reg[w].val \in Nat /\ reg[w].add \in Nat
  BY DEF TypeInv, TypeOK
<1>3. NoReg \in [c : Counter, val : Nat, add : Nat]
  BY DEF NoReg, Counter
<1>4. cnt' \in [Counter -> Nat] /\ reg' \in [Worker -> [c : Counter, val : Nat, add : Nat]]
  <2>1. /\ cnt \in [Counter -> Nat]
        /\ reg \in [Worker -> [c : Counter, val : Nat, add : Nat]]
    BY DEF TypeInv, TypeOK
  <2>2. reg[w].val + reg[w].add \in Nat
    BY <1>2
  <2>3. QED
    BY <1>1, <1>2, <1>3, <2>1, <2>2
<1>5. /\ wpc' \in [Worker -> WorkerPc]
      /\ wpc'[w] \in {"stages", "store"} <=> wpc[w] = "store"
      /\ \A v \in Worker \ {w} : wpc'[v] = wpc[v]
  BY <1>1 DEF TypeInv, TypeOK, WorkerPc
<1>6. TypeOK'
  BY <1>4, <1>5 DEF TypeInv, TypeOK, StoreCounter, mainVars
<1>7. NoOverrun'
  BY DEF TypeInv, NoOverrun, StoreCounter, mainVars
<1>8. ControlInv'
  BY <1>1, <1>5 DEF TypeInv, ControlInv, BusPositions, StoreCounter, mainVars
<1>9. QED
  BY <1>6, <1>7, <1>8 DEF TypeInv

\* A worker frees its whole batch.
LEMMA FreeBulkType ==
  ASSUME TypeInv, NEW w \in Worker, FreeBulk(w) PROVE TypeInv'
<1>1. /\ wpc[w] = "free"
      /\ pool' = pool + Len(batch[w])
      /\ batch' = [batch EXCEPT ![w] = << >>]
      /\ wpc' = [wpc EXCEPT ![w] = "top"]
  BY DEF FreeBulk
<1>2. << >> \in Seq(Frame) /\ Len(<< >>) = 0 /\ Len(batch[w]) \in Nat
  BY EmptySeq, LenProperties DEF TypeInv, TypeOK
<1>3. pool' \in Nat
  <2>1. pool \in Nat
    BY DEF TypeInv, TypeOK
  <2>2. QED
    BY <1>1, <1>2, <2>1
<1>4. /\ batch' \in [Worker -> Seq(Frame)] /\ batch'[w] = << >>
      /\ wpc' \in [Worker -> WorkerPc] /\ wpc'[w] = "top"
      /\ \A v \in Worker \ {w} : batch'[v] = batch[v] /\ wpc'[v] = wpc[v]
  BY <1>1, <1>2 DEF TypeInv, TypeOK, WorkerPc
<1>5. TypeOK'
  BY <1>3, <1>4 DEF TypeInv, TypeOK, FreeBulk, mainVars, statVars
<1>6. NoOverrun'
  BY <1>2, <1>4, Sizes DEF TypeInv, NoOverrun, FreeBulk, mainVars
<1>7. ControlInv'
  <2>1. todo[w] = {}
    BY <1>1 DEF TypeInv, ControlInv
  <2>2. QED
    BY <1>4, <2>1 DEF TypeInv, ControlInv, BusPositions, FreeBulk, mainVars
<1>8. QED
  BY <1>5, <1>6, <1>7 DEF TypeInv

\* Every step of the receive path keeps the types, the bounds and the control
\* invariant.
LEMMA TypeStep == TypeInv /\ [Next]_vars => TypeInv'
<1> SUFFICES ASSUME TypeInv, [Next]_vars PROVE TypeInv'
  OBVIOUS
<1>1. CASE \E s \in Source, v \in Verdict : Arrive(s, v)
  BY <1>1, ArriveType
<1>2. CASE Stop
  BY <1>2, StopType
<1>3. CASE Main
  BY <1>3, MainCheckType, RxBurstType, DispatchType, EnqueueBurstType,
     EthStopType, WaitLcoresType DEF Main
<1>4. CASE \E w \in Worker : WorkerStep(w)
  BY <1>4, WorkerCheckType, DequeueBurstType, StageFrameType, IPStageType,
     StoreCounterType, FreeBulkType DEF WorkerStep
<1>5. CASE UNCHANGED vars
  <2>1. TypeOK'
    BY <1>5 DEF TypeInv, TypeOK, vars, mainVars, workerVars, statVars
  <2>2. NoOverrun'
    BY <1>5 DEF TypeInv, NoOverrun, vars, mainVars, workerVars
  <2>3. ControlInv'
    BY <1>5 DEF TypeInv, ControlInv, BusPositions, vars, mainVars, workerVars
  <2>4. QED
    BY <2>1, <2>2, <2>3 DEF TypeInv
<1>6. QED
  BY <1>1, <1>2, <1>3, <1>4, <1>5 DEF Next, Exited

\* Type correctness of the receive path, for every configuration: no counter
\* of free buffers goes negative, no sequence number leaves its field, and
\* every queue holds frames only.
THEOREM TypeCorrect == Spec => []TypeOK
<1>1. Spec => []TypeInv
  BY InitType, TypeStep, PTL DEF Spec
<1>2. TypeInv => TypeOK
  BY DEF TypeInv
<1>3. QED
  BY <1>1, <1>2, PTL

\* No staging array, burst array or ring is ever overrun, whatever the burst
\* size, the ring size and the number of workers.
THEOREM NeverOverrun == Spec => []NoOverrun
<1>1. Spec => []TypeInv
  BY InitType, TypeStep, PTL DEF Spec
<1>2. TypeInv => NoOverrun
  BY DEF TypeInv
<1>3. QED
  BY <1>1, <1>2, PTL

-----------------------------------------------------------------------------
(* Streams keep their worker and their order.                              *)

\* What keeps a stream in order from the port to its tracker.
OrderInv == Affinity /\ PathOrder /\ Unseen

\* The empty queue.
LEMMA EmptyOrder == Range(<< >>) = {} /\ InOrder(<< >>)
BY DEF Range, InOrder

\* Initially every queue is empty.
LEMMA InitOrder == Init => OrderInv
<1> SUFFICES ASSUME Init PROVE OrderInv
  OBVIOUS
<1>1. Affinity
  BY EmptyOrder DEF Init, Affinity, HeldFor
<1>2. PathOrder
  BY EmptyOrder DEF Init, PathOrder, Older, Behind
<1>3. Unseen
  BY EmptyOrder DEF Init, Unseen, InFlight, HeldFor, Unhandled
<1>4. QED
  BY <1>1, <1>2, <1>3 DEF OrderInv

\* Everything on its way is a frame.
LEMMA FlightType ==
  ASSUME TypeOK
  PROVE  /\ InFlight \subseteq Frame
         /\ \A f \in InFlight : f.src \in Source /\ f.n \in Nat
<1>1. Range(nic) \subseteq Frame /\ Range(bufs) \subseteq Frame
  BY RangeOfSeq DEF TypeOK
<1>2. ASSUME NEW w \in Worker
      PROVE  HeldFor(w) \subseteq Frame
  BY RangeOfSeq DEF TypeOK, HeldFor
<1>3. InFlight \subseteq Frame
  BY <1>1, <1>2 DEF InFlight
<1>4. QED
  BY <1>3 DEF Frame

\* A new frame is newer than whatever is on its way.
LEMMA ArriveOrder ==
  ASSUME TypeInv, OrderInv, NEW s \in Source, NEW v \in Verdict, Arrive(s, v)
  PROVE  OrderInv'
<1> USE DEF OrderInv
<1> DEFINE f == [src |-> s, n |-> sent[s] + 1, verdict |-> v]
<1>1. /\ f \in Frame
      /\ sent[s] \in Nat
      /\ sent' = [sent EXCEPT ![s] = @ + 1]
      /\ nic' \in {nic, Append(nic, f)}
      /\ UNCHANGED <<mainVars, ring, workerVars, lastN>>
  BY ArriveEffect DEF TypeInv, statVars
<1>2. f.src = s /\ f.n = sent[s] + 1
  OBVIOUS
<1> HIDE DEF f
<1>3. \A g \in InFlight : g.src = s => g.n < f.n
  <2>1. \A g \in InFlight : g.n \in Nat /\ g.n <= sent[g.src]
    BY FlightType DEF TypeInv, Unseen
  <2>2. QED
    BY <1>1, <1>2, <2>1
<1>4. /\ InOrder(nic') /\ Range(nic') \subseteq Range(nic) \cup {f}
  <2>1. Older(Range(nic), {f}) /\ nic \in Seq(Frame) /\ InOrder(nic)
    BY <1>2, <1>3 DEF Older, InFlight, TypeInv, TypeOK, PathOrder
  <2>2. QED
    BY <1>1, <2>1, AppendOrder
<1>5. Affinity'
  BY <1>1 DEF Affinity, HeldFor, mainVars, workerVars
<1>6. PathOrder'
  <2>1. \A g \in Range(bufs) \cup UNION {HeldFor(w) : w \in Worker} :
           g.src = f.src => g.n < f.n
    BY <1>2, <1>3 DEF InFlight
  <2>2. Older(Range(bufs'), Range(nic'))
    BY <1>1, <1>4, <2>1 DEF PathOrder, Older, mainVars
  <2>3. ASSUME NEW w \in Worker
        PROVE  /\ Older(Range(workerQueue'[w]), Range(bufs') \cup Range(nic'))
               /\ Older(Range(ring'[w]), Behind(w)')
               /\ Older(Range(batch'[w]), Range(ring'[w]) \cup Behind(w)')
    BY <1>1, <1>4, <2>1 DEF PathOrder, Older, Behind, HeldFor, mainVars, workerVars
  <2>4. QED
    BY <1>1, <1>4, <2>2, <2>3 DEF PathOrder, mainVars, workerVars
<1>7. Unseen'
  <2>1. \A t \in Source : sent'[t] \in Nat /\ sent[t] \in Nat /\ lastN[t] \in Nat
                          /\ sent[t] <= sent'[t] /\ (t = s => sent'[t] = f.n)
    BY <1>1, <1>2 DEF TypeInv, TypeOK
  <2>2. InFlight' \subseteq InFlight \cup {f}
    BY <1>1, <1>4 DEF InFlight, HeldFor, mainVars, workerVars
  <2>3. ASSUME NEW g \in InFlight' PROVE g.n <= sent'[g.src]
    <3>1. CASE g = f
      BY <3>1, <1>2, <1>1, <2>1
    <3>2. CASE g \in InFlight
      <4>1. g.src \in Source /\ g.n \in Nat /\ g.n <= sent[g.src]
        BY <3>2, FlightType DEF TypeInv, Unseen
      <4>2. QED
        BY <2>1, <4>1
    <3>3. QED
      BY <2>2, <3>1, <3>2
  <2>4. \A t \in Source : lastN'[t] <= sent'[t]
    <3>1. \A t \in Source : lastN[t] <= sent[t]
      BY DEF Unseen
    <3>2. QED
      BY <1>1, <2>1, <3>1
  <2>5. lastN[f.src] < f.n
    <3>1. lastN[s] <= sent[s]
      BY DEF Unseen
    <3>2. QED
      BY <1>1, <1>2, <2>1, <3>1
  <2>6. \A g \in Range(nic') \cup Range(bufs') : lastN'[g.src] < g.n
    BY <1>1, <1>4, <2>5 DEF Unseen, mainVars
  <2>7. QED
    BY <1>1, <2>3, <2>4, <2>6 DEF Unseen, Unhandled, mainVars, workerVars
<1>8. QED
  BY <1>5, <1>6, <1>7

\* A burst leaves the port in order.
LEMMA RxBurstOrder == ASSUME TypeInv, OrderInv, RxBurst PROVE OrderInv'
<1> USE DEF OrderInv
<1>1. PICK k \in 0 .. Len(nic) : bufs' = Prefix(nic, k) /\ nic' = Rest(nic, k)
  BY RxBurstEffect DEF TypeInv
<1>2. UNCHANGED <<sent, lastN, workerQueue, ring, batch, todo>>
  BY DEF RxBurst, workerVars, statVars
<1>3. /\ InOrder(bufs') /\ InOrder(nic')
      /\ Range(bufs') \subseteq Range(nic) /\ Range(nic') \subseteq Range(nic)
      /\ Older(Range(bufs'), Range(nic'))
  BY <1>1, CutOrder DEF TypeInv, TypeOK, PathOrder
<1>4. Affinity'
  BY <1>2 DEF Affinity, HeldFor
<1>5. PathOrder'
  BY <1>2, <1>3 DEF PathOrder, Older, Behind
<1>6. Unseen'
  BY <1>2, <1>3 DEF Unseen, InFlight, HeldFor, Unhandled
<1>7. QED
  BY <1>4, <1>5, <1>6

\* A frame joins the staging array of its worker.
LEMMA DispatchOrder == ASSUME TypeInv, OrderInv, Dispatch PROVE OrderInv'
<1> USE DEF OrderInv
<1> DEFINE f == Head(bufs)
           w == WorkerOf(f.src)
<1>1. /\ bufs # << >> /\ f \in Frame /\ w \in Worker
      /\ workerQueue'[w] = Append(workerQueue[w], f)
      /\ \A v \in Worker \ {w} : workerQueue'[v] = workerQueue[v]
      /\ bufs' = Tail(bufs)
  BY DispatchEffect DEF TypeInv
<1>2. UNCHANGED <<sent, lastN, nic, ring, batch, todo>>
  BY DEF Dispatch, workerVars, statVars
<1>3. /\ f \in Range(bufs) /\ InOrder(bufs') /\ Range(bufs') \subseteq Range(bufs)
      /\ Older({f}, Range(bufs'))
  BY <1>1, TailOrder DEF TypeInv, TypeOK, PathOrder
<1>4. WorkerOf(f.src) = w
  OBVIOUS
<1> HIDE DEF f, w
<1>5. /\ InOrder(workerQueue'[w])
      /\ Range(workerQueue'[w]) = Range(workerQueue[w]) \cup {f}
  <2>1. /\ workerQueue[w] \in Seq(Frame) /\ InOrder(workerQueue[w])
        /\ Older(Range(workerQueue[w]), {f})
    BY <1>1, <1>3 DEF TypeInv, TypeOK, PathOrder, Older
  <2>2. QED
    BY <1>1, <2>1, AppendOrder
<1>6. Affinity'
  BY <1>1, <1>2, <1>4, <1>5 DEF Affinity, HeldFor
<1>7. PathOrder'
  <2>1. InOrder(nic') /\ InOrder(bufs') /\ Older(Range(bufs'), Range(nic'))
    BY <1>2, <1>3 DEF PathOrder, Older
  <2>2. ASSUME NEW v \in Worker
        PROVE  /\ InOrder(workerQueue'[v]) /\ InOrder(ring'[v]) /\ InOrder(batch'[v])
               /\ Range(workerQueue'[v]) \subseteq Range(workerQueue[v]) \cup {f}
    BY <1>1, <1>2, <1>5 DEF PathOrder
  <2>3. ASSUME NEW v \in Worker
        PROVE  Older(Range(workerQueue'[v]), Range(bufs') \cup Range(nic'))
    <3>1. Older({f}, Range(bufs') \cup Range(nic'))
      BY <1>2, <1>3 DEF PathOrder, Older
    <3>2. Older(Range(workerQueue[v]), Range(bufs') \cup Range(nic'))
      BY <1>2, <1>3 DEF PathOrder, Older
    <3>3. QED
      BY <2>2, <3>1, <3>2 DEF Older
  <2>4. ASSUME NEW v \in Worker PROVE Behind(v)' \subseteq Behind(v)
    BY <1>2, <1>3, <2>2 DEF Behind
  <2>5. ASSUME NEW v \in Worker
        PROVE  /\ Older(Range(ring'[v]), Behind(v)')
               /\ Older(Range(batch'[v]), Range(ring'[v]) \cup Behind(v)')
    BY <1>2, <2>4 DEF PathOrder, Older
  <2>6. QED
    BY <2>1, <2>2, <2>3, <2>5 DEF PathOrder
<1>8. Unseen'
  <2>1. ASSUME NEW v \in Worker
        PROVE  Range(workerQueue'[v]) \subseteq Range(workerQueue[v]) \cup Range(bufs)
    BY <1>1, <1>3, <1>5
  <2>2. InFlight' \subseteq InFlight
    BY <1>2, <1>3, <2>1 DEF InFlight, HeldFor
  <2>3. QED
    BY <1>2, <1>3, <2>1, <2>2 DEF Unseen, Unhandled
<1>9. QED
  BY <1>6, <1>7, <1>8

\* What a ring takes of a staging array is a prefix of it; the rest is lost.
LEMMA EnqueueBurstOrder == ASSUME TypeInv, OrderInv, EnqueueBurst PROVE OrderInv'
<1> USE DEF OrderInv
<1>1. PICK k \in 0 .. Len(workerQueue[enq]) :
        /\ ring'[enq] = ring[enq] \o Prefix(workerQueue[enq], k)
        /\ \A v \in Worker \ {enq} : ring'[v] = ring[v]
        /\ workerQueue'[enq] = << >>
        /\ \A v \in Worker \ {enq} : workerQueue'[v] = workerQueue[v]
        /\ UNCHANGED <<doWork, nic, sent, missed, bufs, workerVars, statVars>>
  BY EnqueueEffect DEF TypeInv
<1>2. UNCHANGED <<sent, lastN, nic, bufs, batch, todo>>
  BY <1>1 DEF workerVars, statVars
<1>3. enq \in Worker /\ workerQueue[enq] \in Seq(Frame) /\ ring[enq] \in Seq(Frame)
  BY DEF TypeInv, TypeOK
<1> DEFINE p == Prefix(workerQueue[enq], k)
<1>4. /\ p \in Seq(Frame) /\ InOrder(p) /\ Range(p) \subseteq Range(workerQueue[enq])
  BY <1>3, CutType, CutOrder DEF PathOrder
<1>5. ring'[enq] = ring[enq] \o p
  BY <1>1
<1> HIDE DEF p
<1>6. InOrder(ring'[enq]) /\ Range(ring'[enq]) = Range(ring[enq]) \cup Range(p)
  <2>1. InOrder(ring[enq]) /\ Older(Range(ring[enq]), Range(p))
    BY <1>3, <1>4 DEF PathOrder, Older, Behind
  <2>2. QED
    BY <1>3, <1>4, <1>5, <2>1, JoinOrder
<1>7. ASSUME NEW v \in Worker
      PROVE  /\ InOrder(ring'[v]) /\ InOrder(workerQueue'[v])
             /\ Range(ring'[v]) \subseteq Range(ring[v]) \cup Range(workerQueue[v])
             /\ Range(workerQueue'[v]) \subseteq Range(workerQueue[v])
             /\ v = enq => Range(workerQueue'[v]) = {}
             /\ v # enq => ring'[v] = ring[v]
  <2>1. CASE v = enq
    BY <2>1, <1>1, <1>4, <1>6, EmptyOrder
  <2>2. CASE v # enq
    BY <2>2, <1>1 DEF PathOrder
  <2>3. QED
    BY <2>1, <2>2
<1>8. Affinity'
  BY <1>2, <1>7 DEF Affinity, HeldFor
<1>9. PathOrder'
  <2>1. InOrder(nic') /\ InOrder(bufs') /\ Older(Range(bufs'), Range(nic'))
    BY <1>2 DEF PathOrder
  <2>2. ASSUME NEW v \in Worker
        PROVE  /\ InOrder(batch'[v])
               /\ Older(Range(workerQueue'[v]), Range(bufs') \cup Range(nic'))
    BY <1>2, <1>7 DEF PathOrder, Older
  <2>3. ASSUME NEW v \in Worker PROVE Older(Range(ring'[v]), Behind(v)')
    <3>1. CASE v = enq
      BY <3>1, <1>2, <1>7 DEF PathOrder, Older, Behind
    <3>2. CASE v # enq
      BY <3>2, <1>2, <1>7 DEF PathOrder, Older, Behind
    <3>3. QED
      BY <3>1, <3>2
  <2>4. ASSUME NEW v \in Worker
        PROVE  Older(Range(batch'[v]), Range(ring'[v]) \cup Behind(v)')
    BY <1>2, <1>7 DEF PathOrder, Older, Behind
  <2>5. QED
    BY <1>7, <2>1, <2>2, <2>3, <2>4 DEF PathOrder
<1>10. Unseen'
  <2>1. InFlight' \subseteq InFlight
    BY <1>2, <1>7 DEF InFlight, HeldFor
  <2>2. QED
    BY <1>2, <1>7, <2>1 DEF Unseen, Unhandled
<1>11. QED
  BY <1>8, <1>9, <1>10

\* Stopping the port empties its descriptor ring.
LEMMA EthStopOrder == ASSUME TypeInv, OrderInv, EthStop PROVE OrderInv'
<1>1. nic' = << >> /\ UNCHANGED <<sent, lastN, bufs, workerQueue, ring, batch, todo>>
  BY DEF EthStop, workerVars, statVars
<1>2. Range(nic') = {} /\ InOrder(nic')
  BY <1>1, EmptyOrder
<1>3. Affinity'
  BY <1>1 DEF OrderInv, Affinity, HeldFor
<1>4. PathOrder'
  BY <1>1, <1>2 DEF OrderInv, PathOrder, Older, Behind
<1>5. Unseen'
  BY <1>1, <1>2 DEF OrderInv, Unseen, InFlight, HeldFor, Unhandled
<1>6. QED
  BY <1>3, <1>4, <1>5 DEF OrderInv

\* A worker takes the oldest frames of its ring.
LEMMA DequeueBurstOrder ==
  ASSUME TypeInv, OrderInv, NEW w \in Worker, DequeueBurst(w) PROVE OrderInv'
<1> USE DEF OrderInv
<1>1. PICK k \in 0 .. Len(ring[w]) :
        /\ batch' \in [Worker -> Seq(Frame)] /\ batch'[w] = Prefix(ring[w], k)
        /\ ring'[w] = Rest(ring[w], k)
        /\ todo'[w] = BusPositions(batch'[w])
        /\ \A v \in Worker \ {w} :
             batch'[v] = batch[v] /\ ring'[v] = ring[v] /\ todo'[v] = todo[v]
  BY DequeueEffect DEF TypeInv
<1>2. UNCHANGED <<sent, lastN, nic, bufs, workerQueue>>
  BY DEF DequeueBurst, mainVars, statVars
<1>3. /\ InOrder(batch'[w]) /\ InOrder(ring'[w])
      /\ Range(batch'[w]) \subseteq Range(ring[w])
      /\ Range(ring'[w]) \subseteq Range(ring[w])
      /\ Older(Range(batch'[w]), Range(ring'[w]))
  <2>1. ring[w] \in Seq(Frame) /\ InOrder(ring[w])
    BY DEF TypeInv, TypeOK, PathOrder
  <2>2. /\ InOrder(Prefix(ring[w], k)) /\ InOrder(Rest(ring[w], k))
        /\ Range(Prefix(ring[w], k)) \subseteq Range(ring[w])
        /\ Range(Rest(ring[w], k)) \subseteq Range(ring[w])
        /\ Older(Range(Prefix(ring[w], k)), Range(Rest(ring[w], k)))
    BY <2>1, CutOrder
  <2>3. QED
    BY <1>1, <2>2
<1>4. Unhandled(w)' \subseteq Range(batch'[w])
  BY <1>1 DEF Unhandled, BusPositions, Range
<1>5. Affinity'
  BY <1>1, <1>2, <1>3 DEF Affinity, HeldFor
<1>6. PathOrder'
  <2>1. InOrder(nic') /\ InOrder(bufs') /\ Older(Range(bufs'), Range(nic'))
    BY <1>2 DEF PathOrder
  <2>2. ASSUME NEW v \in Worker
        PROVE  /\ InOrder(workerQueue'[v]) /\ InOrder(ring'[v]) /\ InOrder(batch'[v])
               /\ Older(Range(workerQueue'[v]), Range(bufs') \cup Range(nic'))
               /\ Behind(v)' = Behind(v)
               /\ Range(ring'[v]) \subseteq Range(ring[v])
    BY <1>1, <1>2, <1>3 DEF PathOrder, Behind
  <2>3. ASSUME NEW v \in Worker PROVE Older(Range(ring'[v]), Behind(v)')
    BY <2>2 DEF PathOrder, Older
  <2>4. ASSUME NEW v \in Worker
        PROVE  Older(Range(batch'[v]), Range(ring'[v]) \cup Behind(v)')
    <3>1. CASE v = w
      BY <3>1, <1>3, <2>2 DEF PathOrder, Older
    <3>2. CASE v # w
      BY <3>2, <1>1, <2>2 DEF PathOrder, Older
    <3>3. QED
      BY <3>1, <3>2
  <2>5. QED
    BY <2>1, <2>2, <2>3, <2>4 DEF PathOrder
<1>7. Unseen'
  <2>1. ASSUME NEW v \in Worker PROVE HeldFor(v)' \subseteq HeldFor(v)
    BY <1>1, <1>2, <1>3 DEF HeldFor
  <2>2. InFlight' \subseteq InFlight
    BY <1>2, <2>1 DEF InFlight
  <2>3. ASSUME NEW v \in Worker
        PROVE  \A f \in Range(workerQueue'[v]) \cup Range(ring'[v]) \cup Unhandled(v)' :
                  lastN'[f.src] < f.n
    <3>1. CASE v = w
      BY <3>1, <1>2, <1>3, <1>4 DEF Unseen
    <3>2. CASE v # w
      BY <3>2, <1>1, <1>2 DEF Unseen, Unhandled
    <3>3. QED
      BY <3>1, <3>2
  <2>4. QED
    BY <1>2, <2>2, <2>3 DEF Unseen
<1>8. QED
  BY <1>5, <1>6, <1>7

\* A stage handles the oldest unhandled frame of a stream, and no other worker
\* holds a frame of that stream.
LEMMA StageFrameOrder ==
  ASSUME TypeInv, OrderInv, NEW w \in Worker, NEW i \in todo[w], StageFrame(w, i)
  PROVE  OrderInv'
<1> USE DEF OrderInv
<1> DEFINE f == batch[w][i]
<1>1. /\ f \in Frame /\ i \in DOMAIN batch[w] /\ f \in Range(batch[w])
      /\ Proto[f.src] \in BusProto
      /\ \/ lastN' = [lastN EXCEPT ![f.src] = f.n]
         \/ UNCHANGED lastN
      /\ todo' = [todo EXCEPT ![w] = @ \ {i}]
  BY StageFrameEffect
<1>2. \A j \in todo[w] \ {i} : HandledBefore(batch[w], i, j)
  BY DEF StageFrame
<1>3. UNCHANGED <<sent, nic, bufs, workerQueue, ring, batch>>
  BY DEF StageFrame, mainVars
<1>4. f.src \in Source /\ f.n \in Nat \ {0}
  BY <1>1 DEF Frame
<1>5. /\ todo'[w] = todo[w] \ {i}
      /\ \A v \in Worker \ {w} : todo'[v] = todo[v]
  BY <1>1 DEF TypeInv, TypeOK
<1>6. ASSUME NEW g, g.src # f.src \/ f.n < g.n, g.src \in Source, lastN[g.src] < g.n
      PROVE  lastN'[g.src] < g.n
  <2>1. lastN \in [Source -> Nat]
    BY DEF TypeInv, TypeOK
  <2>2. lastN'[g.src] \in {lastN[g.src], f.n} /\ (g.src # f.src => lastN'[g.src] = lastN[g.src])
    BY <1>1, <1>4, <1>6, <2>1
  <2>3. QED
    BY <1>6, <2>2
<1>7. Affinity'
  BY <1>3 DEF Affinity, HeldFor
<1>8. PathOrder'
  BY <1>3 DEF PathOrder, Behind
<1>9. Unseen'
  <2>1. InFlight' = InFlight
    BY <1>3 DEF InFlight, HeldFor
  <2>2. \A s \in Source : lastN'[s] <= sent'[s]
    <3>1. f \in InFlight
      BY <1>1 DEF InFlight, HeldFor
    <3>2. f.n <= sent[f.src]
      BY <3>1 DEF Unseen
    <3>3. \A s \in Source : lastN[s] <= sent[s]
      BY DEF Unseen
    <3>4. QED
      BY <1>1, <1>3, <1>4, <3>2, <3>3 DEF TypeInv, TypeOK
  <2>3. ASSUME NEW g \in Range(nic) \cup Range(bufs) PROVE lastN'[g.src] < g.n
    <3>1. g.src # f.src \/ f.n < g.n
      BY <1>1 DEF PathOrder, Older, Behind
    <3>2. lastN[g.src] < g.n /\ g.src \in Source
      BY FlightType DEF Unseen, InFlight, TypeInv
    <3>3. QED
      BY <1>6, <3>1, <3>2
  <2>4. ASSUME NEW v \in Worker,
               NEW g \in Range(workerQueue[v]) \cup Range(ring[v])
        PROVE  lastN'[g.src] < g.n
    <3>1. g.src # f.src \/ f.n < g.n
      <4>1. CASE v = w
        BY <4>1, <1>1 DEF PathOrder, Older, Behind
      <4>2. CASE v # w
        BY <4>2, <1>1 DEF Affinity, HeldFor
      <4>3. QED
        BY <4>1, <4>2
    <3>2. lastN[g.src] < g.n /\ g.src \in Source
      BY FlightType DEF Unseen, InFlight, HeldFor, TypeInv
    <3>3. QED
      BY <1>6, <3>1, <3>2
  <2>5. ASSUME NEW v \in Worker, NEW j \in todo'[v]
        PROVE  lastN'[batch[v][j].src] < batch[v][j].n
    <3> DEFINE g == batch[v][j]
    <3>1. j \in todo[v] /\ j \in DOMAIN batch[v] /\ Proto[g.src] \in BusProto
      BY <1>5 DEF TypeInv, ControlInv, BusPositions
    <3>2. g \in Range(batch[v]) /\ g \in Unhandled(v)
      BY <3>1 DEF Range, Unhandled
    <3>3. lastN[g.src] < g.n /\ g.src \in Source
      BY <3>2, FlightType DEF Unseen, InFlight, HeldFor, TypeInv
    <3>4. g.src # f.src \/ f.n < g.n
      <4>1. CASE v = w
        <5>1. j # i /\ HandledBefore(batch[w], i, j)
          BY <4>1, <1>2, <1>5, <3>1
        <5>2. i \in Nat /\ j \in Nat /\ InOrder(batch[w])
          BY <4>1, <3>1 DEF TypeInv, TypeOK, PathOrder
        <5>3. f.src = g.src => i < j
          BY <4>1, <5>1, <5>2, <1>1 DEF HandledBefore, StageRank, BusProto
        <5>4. QED
          BY <4>1, <5>2, <5>3, <1>1, <3>1 DEF InOrder
      <4>2. CASE v # w
        BY <4>2, <1>1, <3>2 DEF Affinity, HeldFor
      <4>3. QED
        BY <4>1, <4>2
    <3>5. QED
      BY <1>6, <3>3, <3>4
  <2>6. QED
    BY <1>3, <2>1, <2>2, <2>3, <2>4, <2>5 DEF Unseen, Unhandled
<1>10. QED
  BY <1>7, <1>8, <1>9

\* A handled burst leaves the worker.
LEMMA FreeBulkOrder ==
  ASSUME TypeInv, OrderInv, NEW w \in Worker, FreeBulk(w) PROVE OrderInv'
<1> USE DEF OrderInv
<1>1. /\ batch'[w] = << >> /\ \A v \in Worker \ {w} : batch'[v] = batch[v]
      /\ UNCHANGED <<sent, lastN, nic, bufs, workerQueue, ring, todo>>
      /\ todo[w] = {}
  BY DEF FreeBulk, TypeInv, TypeOK, ControlInv, mainVars, statVars
<1>2. Range(batch'[w]) = {} /\ InOrder(batch'[w])
  BY <1>1, EmptyOrder
<1>3. ASSUME NEW v \in Worker
      PROVE  /\ Range(batch'[v]) \subseteq Range(batch[v]) /\ InOrder(batch'[v])
             /\ Unhandled(v)' \subseteq Unhandled(v)
  BY <1>1, <1>2 DEF PathOrder, Unhandled
<1>4. Affinity'
  BY <1>1, <1>3 DEF Affinity, HeldFor
<1>5. PathOrder'
  BY <1>1, <1>3 DEF PathOrder, Older, Behind
<1>6. Unseen'
  BY <1>1, <1>3 DEF Unseen, InFlight, HeldFor
<1>7. QED
  BY <1>4, <1>5, <1>6

\* Steps that move no frame and touch no tracker.
LEMMA StillOrder ==
  ASSUME OrderInv,
         UNCHANGED <<sent, lastN, nic, bufs, workerQueue, ring, batch, todo>>
  PROVE  OrderInv'
<1>1. Affinity'
  BY DEF OrderInv, Affinity, HeldFor
<1>2. PathOrder'
  BY DEF OrderInv, PathOrder, Behind
<1>3. Unseen'
  BY DEF OrderInv, Unseen, InFlight, HeldFor, Unhandled
<1>4. QED
  BY <1>1, <1>2, <1>3 DEF OrderInv

\* Every step of the receive path keeps affinity and order.
LEMMA OrderStep == TypeInv /\ OrderInv /\ [Next]_vars => OrderInv'
<1> SUFFICES ASSUME TypeInv, OrderInv, [Next]_vars PROVE OrderInv'
  OBVIOUS
<1>1. CASE \E s \in Source, v \in Verdict : Arrive(s, v)
  BY <1>1, ArriveOrder
<1>2. CASE Stop
  BY <1>2, StillOrder DEF Stop, mainVars, workerVars, statVars
<1>3. CASE Main
  <2>1. CASE MainCheck
    BY <2>1, StillOrder DEF MainCheck, workerVars, statVars
  <2>2. CASE WaitLcores
    BY <2>2, StillOrder DEF WaitLcores, workerVars, statVars
  <2>3. QED
    BY <1>3, <2>1, <2>2, RxBurstOrder, DispatchOrder, EnqueueBurstOrder,
       EthStopOrder DEF Main
<1>4. ASSUME NEW w \in Worker, WorkerStep(w) PROVE OrderInv'
  <2>1. CASE WorkerCheck(w)
    BY <2>1, StillOrder DEF WorkerCheck, mainVars, statVars
  <2>2. CASE IPStage(w)
    BY <2>2, StillOrder DEF IPStage, mainVars
  <2>3. CASE StoreCounter(w)
    BY <2>3, StillOrder DEF StoreCounter, mainVars
  <2>4. QED
    BY <1>4, <2>1, <2>2, <2>3, DequeueBurstOrder, StageFrameOrder, FreeBulkOrder
    DEF WorkerStep
<1>5. CASE UNCHANGED vars
  BY <1>5, StillOrder DEF vars, mainVars, workerVars, statVars
<1>6. QED
  BY <1>1, <1>2, <1>3, <1>4, <1>5 DEF Next, Exited

\* Together, the types, the bounds and the order are inductive.
LEMMA Inductive == Spec => [](TypeInv /\ OrderInv)
<1>1. Init => TypeInv /\ OrderInv
  BY InitType, InitOrder
<1>2. TypeInv /\ OrderInv /\ [Next]_vars => (TypeInv /\ OrderInv)'
  BY TypeStep, OrderStep
<1>3. QED
  BY <1>1, <1>2, PTL DEF Spec

\* Software RSS and the pipeline keep each stream on one worker and in
\* publication order, and hand a tracker nothing twice, for every number of
\* workers, assignment of keys, and size of rings and bursts.
THEOREM StreamsInOrder == Spec => []StreamInv
<1>1. TypeInv /\ OrderInv => StreamInv
  BY DEF TypeInv, OrderInv, StreamInv
<1>2. QED
  BY <1>1, Inductive, PTL

-----------------------------------------------------------------------------
(* The receive path implements StreamDelivery.                             *)

\* Nothing is published or delivered at the start.
LEMMA DeliveryInit == Init => Delivery!Init
BY DEF Init, Delivery!Init

\* Only an arrival publishes and only a stage delivers.
LEMMA DeliveryStep ==
  TypeInv /\ OrderInv /\ [Next]_vars => [Delivery!Next]_<<sent, lastN>>
<1> SUFFICES ASSUME TypeInv, OrderInv, [Next]_vars
             PROVE  Delivery!Next \/ UNCHANGED <<sent, lastN>>
  OBVIOUS
<1>1. ASSUME NEW s \in Source, NEW v \in Verdict, Arrive(s, v)
      PROVE  Delivery!Next
  <2>1. Delivery!Publish(s)
    BY <1>1 DEF Arrive, statVars, Delivery!Publish
  <2>2. QED
    BY <2>1 DEF Delivery!Next
<1>2. ASSUME NEW w \in Worker, NEW i \in todo[w], StageFrame(w, i)
      PROVE  Delivery!Next \/ UNCHANGED <<sent, lastN>>
  <2> DEFINE f == batch[w][i]
  <2>1. /\ f \in Frame /\ f \in Range(batch[w])
        /\ \/ lastN' = [lastN EXCEPT ![f.src] = f.n]
           \/ UNCHANGED lastN
        /\ sent' = sent
    BY <1>2, StageFrameEffect DEF StageFrame
  <2>2. f.src \in Source /\ f.n \in Nat \ {0}
    BY <2>1 DEF Frame
  <2>3. f \in Unhandled(w) /\ f \in InFlight
    BY <2>1 DEF Unhandled, InFlight, HeldFor
  <2>4. lastN[f.src] < f.n /\ f.n <= sent[f.src]
    BY <2>3 DEF OrderInv, Unseen
  <2>5. f.n \in 1 .. sent[f.src]
    <3>1. sent[f.src] \in Nat
      BY <2>2 DEF TypeInv, TypeOK
    <3>2. QED
      BY <2>2, <2>4, <3>1
  <2>6. CASE lastN' = [lastN EXCEPT ![f.src] = f.n]
    <3>1. Delivery!Deliver(f.src, f.n)
      BY <2>1, <2>4, <2>6 DEF Delivery!Deliver
    <3>2. QED
      BY <2>2, <2>5, <3>1, Zenon DEF Delivery!Next
  <2>7. QED
    BY <2>1, <2>6
<1>3. CASE Stop
  BY <1>3 DEF Stop, statVars
<1>4. CASE Main
  BY <1>4 DEF Main, MainCheck, RxBurst, Dispatch, EnqueueBurst, NextQueue,
              EthStop, WaitLcores, statVars
<1>5. ASSUME NEW w \in Worker, WorkerStep(w)
      PROVE  Delivery!Next \/ UNCHANGED <<sent, lastN>>
  BY <1>2, <1>5 DEF WorkerStep, WorkerCheck, DequeueBurst, IPStage, StoreCounter,
                    FreeBulk, statVars
<1>6. CASE UNCHANGED vars
  BY <1>6 DEF vars, statVars
<1>7. QED
  BY <1>1, <1>3, <1>4, <1>5, <1>6 DEF Next, Exited

\* The multi-core receive path implements StreamDelivery: for each source the
\* trackers see a subsequence of what was published, in order and at most
\* once.
THEOREM ImplementsDelivery == Spec => DeliverySpec
<1>1. Spec => Delivery!Init
  BY DeliveryInit DEF Spec
<1>2. Spec => [][Delivery!Next]_<<sent, lastN>>
  BY Inductive, DeliveryStep, PTL DEF Spec
<1>3. QED
  BY <1>1, <1>2, PTL DEF DeliverySpec, Delivery!Spec

-----------------------------------------------------------------------------
(* The counters shared by the workers.                                     *)

\* The workers between the two halves of an increment of c by a bus stage.
Storing(c) == {w \in Worker : wpc[w] = "store" /\ reg[w].c = c}

\* What a worker is about to write back is covered by the tally; a bus stage
\* adds one, and only the IP stage writes pktToKernel from storeIP.
RegInv ==
  \A w \in Worker :
    /\ wpc[w] \in {"store", "storeIP"} => reg[w].val + reg[w].add <= tally[reg[w].c]
    /\ wpc[w] = "store" => reg[w].add = 1
    /\ wpc[w] = "storeIP" => reg[w].c = "pktToKernel"

\* The two properties of the shared counters, with what the workers hold
\* between a read and the write that follows it.
CountInv == RegInv /\ NeverOverstated /\ GateIsSound

\* The workers are finitely many, and so are those storing.
LEMMA StoringFinite ==
  ASSUME NEW c PROVE IsFiniteSet(Storing(c)) /\ Cardinality(Storing(c)) \in Nat
<1>1. IsFiniteSet(Worker)
  <2>1. 0 \in Int /\ WorkerNum - 1 \in Int
    BY Sizes
  <2>2. QED
    BY <2>1, FS_Interval DEF Worker
<1>2. Storing(c) \in SUBSET Worker
  BY DEF Storing
<1>3. QED
  BY <1>1, <1>2, FS_Subset, FS_CardinalityType

\* Nobody stores and nothing was counted at the start.
LEMMA InitCount == Init => CountInv
<1> SUFFICES ASSUME Init PROVE CountInv
  OBVIOUS
<1>1. RegInv /\ NeverOverstated
  BY DEF Init, RegInv, NeverOverstated
<1>2. \A c \in Counter : tally[c] = 0 /\ Cardinality(Storing(c)) \in Nat
  BY StoringFinite DEF Init
<1>3. GateIsSound
  BY <1>2 DEF GateIsSound, Storing
<1>4. QED
  BY <1>1, <1>3 DEF CountInv

\* The read half of an increment of c by n.
Reads(w, c, n, pc) ==
  /\ wpc[w] = "stages"
  /\ c \in Counter /\ n \in Nat
  /\ reg' = [reg EXCEPT ![w] = [c |-> c, val |-> cnt[c], add |-> n]]
  /\ tally' = [tally EXCEPT ![c] = @ + n]
  /\ wpc' = [wpc EXCEPT ![w] = pc]
  /\ cnt' = cnt
  /\ \/ pc = "store" /\ n = 1 /\ c # "pktToKernel"
     \/ pc = "storeIP" /\ c = "pktToKernel"

\* The read half leaves the counter below its tally and the gate closed: the
\* worker that raised the tally is among those storing.
LEMMA ReadsCount ==
  ASSUME TypeInv, CountInv, NEW w \in Worker, NEW c, NEW n, NEW pc, Reads(w, c, n, pc)
  PROVE  CountInv'
<1>1. /\ reg \in [Worker -> [c : Counter, val : Nat, add : Nat]]
      /\ cnt \in [Counter -> Nat] /\ tally \in [Counter -> Nat]
      /\ wpc \in [Worker -> WorkerPc]
  BY DEF TypeInv, TypeOK
<1>2. /\ c \in Counter /\ n \in Nat /\ cnt' = cnt /\ wpc[w] = "stages"
      /\ \/ pc = "store" /\ n = 1 /\ c # "pktToKernel"
         \/ pc = "storeIP" /\ c = "pktToKernel"
  BY DEF Reads
<1>3. /\ reg'[w].c = c /\ reg'[w].val = cnt[c] /\ reg'[w].add = n
      /\ wpc'[w] = pc
      /\ \A v \in Worker \ {w} : reg'[v] = reg[v] /\ wpc'[v] = wpc[v]
  BY <1>1 DEF Reads
<1>4. tally'[c] = tally[c] + n /\ \A d \in Counter \ {c} : tally'[d] = tally[d]
  BY <1>1, <1>2 DEF Reads
<1>5. \A d \in Counter : cnt[d] \in Nat /\ tally[d] \in Nat /\ cnt[d] <= tally[d] /\ tally[d] <= tally'[d]
  BY <1>1, <1>2, <1>4 DEF CountInv, NeverOverstated
<1>6. RegInv'
  <2> SUFFICES ASSUME NEW v \in Worker
               PROVE  /\ wpc'[v] \in {"store", "storeIP"} =>
                           reg'[v].val + reg'[v].add <= tally'[reg'[v].c]
                      /\ wpc'[v] = "store" => reg'[v].add = 1
                      /\ wpc'[v] = "storeIP" => reg'[v].c = "pktToKernel"
    BY DEF RegInv
  <2>1. CASE v = w
    BY <2>1, <1>2, <1>3, <1>4, <1>5
  <2>2. CASE v # w
    <3>1. reg'[v] = reg[v] /\ wpc'[v] = wpc[v]
      BY <2>2, <1>3
    <3>2. reg[v].c \in Counter /\ reg[v].val \in Nat /\ reg[v].add \in Nat
      BY <1>1
    <3>3. /\ wpc[v] \in {"store", "storeIP"} => reg[v].val + reg[v].add <= tally[reg[v].c]
          /\ wpc[v] = "store" => reg[v].add = 1
          /\ wpc[v] = "storeIP" => reg[v].c = "pktToKernel"
      BY DEF CountInv, RegInv
    <3>4. tally[reg[v].c] \in Nat /\ tally'[reg[v].c] \in Nat /\ tally[reg[v].c] <= tally'[reg[v].c]
      BY <3>2, <1>2, <1>4, <1>5
    <3>5. QED
      BY <3>1, <3>2, <3>3, <3>4
  <2>3. QED
    BY <2>1, <2>2
<1>7. NeverOverstated'
  <2> SUFFICES ASSUME NEW d \in Counter PROVE cnt'[d] <= tally'[d]
    BY DEF NeverOverstated
  <2>1. tally'[d] \in Nat
    BY <1>2, <1>4, <1>5
  <2>2. QED
    BY <2>1, <1>2, <1>5
<1>8. GateIsSound'
  <2> SUFFICES ASSUME NEW d \in Counter \ {"pktToKernel"}, tally'[d] > Cardinality(Storing(d)')
               PROVE  cnt[d] > 0
    BY <1>2 DEF GateIsSound, Storing
  <2>1. tally[d] > Cardinality(Storing(d)) => cnt[d] > 0
    BY DEF CountInv, GateIsSound, Storing
  <2>2. CASE d = c
    <3>1. pc = "store" /\ n = 1
      BY <2>2, <1>2
    <3>2. Storing(d)' = Storing(d) \cup {w} /\ ~(w \in Storing(d))
      BY <2>2, <3>1, <1>2, <1>3 DEF Storing
    <3>3. Cardinality(Storing(d)') = Cardinality(Storing(d)) + 1
      BY <3>2, StoringFinite, FS_AddElement
    <3>4. QED
      BY <2>1, <2>2, <3>1, <3>3, <1>4, <1>5, StoringFinite
  <2>3. CASE d # c
    <3>1. Storing(d)' = Storing(d)
      BY <2>3, <1>2, <1>3 DEF Storing
    <3>2. QED
      BY <2>1, <2>3, <3>1, <1>4
  <2>4. QED
    BY <2>2, <2>3
<1>9. QED
  BY <1>6, <1>7, <1>8 DEF CountInv

\* The write half may undo increments of others, but what it writes is
\* covered by the tally and is not zero.
LEMMA StoreCount ==
  ASSUME TypeInv, CountInv, NEW w \in Worker, StoreCounter(w)
  PROVE  CountInv'
<1>1. /\ reg \in [Worker -> [c : Counter, val : Nat, add : Nat]]
      /\ cnt \in [Counter -> Nat] /\ tally \in [Counter -> Nat]
      /\ wpc \in [Worker -> WorkerPc]
  BY DEF TypeInv, TypeOK
<1> DEFINE c == reg[w].c
           n == reg[w].val + reg[w].add
<1>2. /\ cnt' = [cnt EXCEPT ![c] = n] /\ tally' = tally
      /\ wpc[w] \in {"store", "storeIP"} /\ wpc' = [wpc EXCEPT ![w] = IF @ = "store" THEN "stages" ELSE "free"]
      /\ reg' = [reg EXCEPT ![w] = NoReg]
  BY DEF StoreCounter
<1>3. reg[w].val \in Nat /\ reg[w].add \in Nat /\ c \in Counter
  BY <1>1
<1>4. /\ n <= tally[c]
      /\ wpc[w] = "store" => reg[w].add = 1
      /\ wpc[w] = "storeIP" => c = "pktToKernel"
  BY <1>2 DEF CountInv, RegInv
<1>5. n \in Nat /\ (wpc[w] = "store" => n > 0)
  BY <1>3, <1>4
<1> HIDE DEF n
<1>6. /\ wpc'[w] \notin {"store", "storeIP"}
      /\ \A v \in Worker \ {w} : reg'[v] = reg[v] /\ wpc'[v] = wpc[v]
  BY <1>1, <1>2
<1>7. cnt'[c] = n /\ \A d \in Counter \ {c} : cnt'[d] = cnt[d]
  BY <1>1, <1>2, <1>3
<1> HIDE DEF c
<1>8. RegInv'
  BY <1>2, <1>6 DEF CountInv, RegInv
<1>9. NeverOverstated'
  BY <1>2, <1>4, <1>7 DEF CountInv, NeverOverstated
<1>10. GateIsSound'
  <2> SUFFICES ASSUME NEW d \in Counter \ {"pktToKernel"}, tally'[d] > Cardinality(Storing(d)')
               PROVE  cnt'[d] > 0
    BY DEF GateIsSound, Storing
  <2>1. CASE d = c
    BY <2>1, <1>2, <1>4, <1>5, <1>7
  <2>2. CASE d # c
    <3>1. Storing(d)' = Storing(d)
      BY <2>2, <1>6 DEF Storing, c
    <3>2. tally[d] > Cardinality(Storing(d)) => cnt[d] > 0
      BY DEF CountInv, GateIsSound, Storing
    <3>3. QED
      BY <2>2, <3>1, <3>2, <1>2, <1>7
  <2>3. QED
    BY <2>1, <2>2
<1>11. QED
  BY <1>8, <1>9, <1>10 DEF CountInv

\* Steps that touch no counter, and no worker between the halves of an
\* increment.
LEMMA StillCount ==
  ASSUME TypeInv, CountInv, UNCHANGED <<reg, cnt, tally>>,
         \A w \in Worker : wpc'[w] = wpc[w] \/ {wpc[w], wpc'[w]} \cap {"store", "storeIP"} = {}
  PROVE  CountInv'
<1>1. \A w \in Worker : /\ wpc'[w] = "store" <=> wpc[w] = "store"
                        /\ wpc'[w] = "storeIP" <=> wpc[w] = "storeIP"
  OBVIOUS
<1>2. RegInv'
  BY <1>1 DEF CountInv, RegInv
<1>3. NeverOverstated'
  BY DEF CountInv, NeverOverstated
<1>4. \A c \in Counter : Storing(c)' = Storing(c)
  BY <1>1 DEF Storing
<1>5. GateIsSound'
  BY <1>4 DEF CountInv, GateIsSound, Storing
<1>6. QED
  BY <1>2, <1>3, <1>5 DEF CountInv

\* Every step keeps the counters below their tallies and the gates sound.
LEMMA CountStep == TypeInv /\ CountInv /\ [Next]_vars => CountInv'
<1> SUFFICES ASSUME TypeInv, CountInv, [Next]_vars PROVE CountInv'
  OBVIOUS
<1>1. CASE \E s \in Source, v \in Verdict : Arrive(s, v)
  BY <1>1, StillCount DEF Arrive, workerVars, statVars
<1>2. CASE Stop
  BY <1>2, StillCount DEF Stop, workerVars, statVars
<1>3. CASE Main
  <2>1. UNCHANGED <<wpc, reg, cnt, tally>>
    BY <1>3 DEF Main, MainCheck, RxBurst, Dispatch, EnqueueBurst, NextQueue,
                EthStop, WaitLcores, workerVars, statVars
  <2>2. QED
    BY <2>1, StillCount
<1>4. ASSUME NEW w \in Worker, WorkerStep(w) PROVE CountInv'
  <2>0. wpc \in [Worker -> WorkerPc]
    BY DEF TypeInv, TypeOK
  <2>1. CASE WorkerCheck(w)
    BY <2>0, <2>1, StillCount DEF WorkerCheck, statVars
  <2>2. CASE DequeueBurst(w)
    <3>1. /\ UNCHANGED <<reg, cnt, tally>> /\ wpc[w] = "dequeue"
          /\ wpc'[w] \in {"top", "stages"} /\ \A v \in Worker \ {w} : wpc'[v] = wpc[v]
      BY <2>0, <2>2 DEF DequeueBurst, statVars
    <3>2. QED
      BY <3>1, StillCount
  <2>3. CASE IPStage(w)
    <3> DEFINE num == Len(batch[w]) - Cardinality(BusPositions(batch[w]))
    <3>1. num \in Nat
      BY BusPositionsCount DEF TypeInv, TypeOK
    <3>2. Reads(w, "pktToKernel", num, "storeIP")
      BY <2>3, <3>1 DEF IPStage, Reads, Counter
    <3>3. QED
      BY <3>2, ReadsCount
  <2>4. CASE StoreCounter(w)
    BY <2>4, StoreCount
  <2>5. CASE FreeBulk(w)
    BY <2>0, <2>5, StillCount DEF FreeBulk, statVars
  <2>6. ASSUME NEW i \in todo[w], StageFrame(w, i) PROVE CountInv'
    <3> DEFINE c == CounterOf(Proto[batch[w][i].src], batch[w][i].verdict)
    <3>1. /\ c \in Counter \ {"pktToKernel"} /\ wpc[w] = "stages"
          /\ reg' = [reg EXCEPT ![w] = [c |-> c, val |-> cnt[c], add |-> 1]]
          /\ tally' = [tally EXCEPT ![c] = @ + 1]
          /\ wpc' = [wpc EXCEPT ![w] = "store"]
      BY <2>6, StageFrameEffect
    <3>2. cnt' = cnt
      BY <2>6 DEF StageFrame
    <3> HIDE DEF c
    <3>3. Reads(w, c, 1, "store")
      BY <3>1, <3>2 DEF Reads
    <3>4. QED
      BY <3>3, ReadsCount
  <2>7. QED
    BY <1>4, <2>1, <2>2, <2>3, <2>4, <2>5, <2>6 DEF WorkerStep
<1>5. CASE UNCHANGED vars
  BY <1>5, StillCount DEF vars, workerVars, statVars
<1>6. QED
  BY <1>1, <1>2, <1>3, <1>4, <1>5 DEF Next, Exited

\* The counters, with the types, are inductive.
LEMMA CountInductive == Spec => []CountInv
<1>1. TypeInv /\ CountInv /\ [Next]_vars => CountInv'
  BY CountStep
<1>2. QED
  BY <1>1, InitCount, Inductive, PTL DEF Spec

\* Racing increments lose, never invent: no shared counter is ever above the
\* number of events it stands for, for any number of workers and any
\* interleaving of their read and write halves.
THEOREM CountersNeverOverstate == Spec => []NeverOverstated
<1>1. CountInv => NeverOverstated
  BY DEF CountInv
<1>2. QED
  BY <1>1, CountInductive, PTL

\* A counter that a bus stage increments is above zero as soon as one
\* increment has completed, so a verdict that compares it with zero cannot
\* miss it, whatever increments the race loses.
THEOREM GatesAreSound == Spec => []GateIsSound
<1>1. CountInv => GateIsSound
  BY DEF CountInv
<1>2. QED
  BY <1>1, CountInductive, PTL

-----------------------------------------------------------------------------
(* Every mbuf is free or holds one frame.                                  *)

\* A queue in publication order holds no frame twice.
LEMMA RangeCount ==
  ASSUME NEW q \in Seq(Frame), InOrder(q)
  PROVE  IsFiniteSet(Range(q)) /\ Cardinality(Range(q)) = Len(q)
<1>1. Len(q) \in Nat /\ DOMAIN q = 1 .. Len(q) /\ \A i \in 1 .. Len(q) : q[i] \in Frame
  BY LenProperties, ElementOfSeq
<1>2. IsFiniteSet(1 .. Len(q)) /\ Cardinality(1 .. Len(q)) = Len(q)
  <2>1. Len(q) \in Nat
    BY LenProperties
  <2> DEFINE n == Len(q)
  <2> HIDE DEF n
  <2>2. n \in Nat => IsFiniteSet(1 .. n) /\ Cardinality(1 .. n) = n
    BY FS_Interval
  <2>3. QED
    BY <2>1, <2>2, Zenon DEF n
<1>3. \A i, j \in 1 .. Len(q) : q[i] = q[j] => i = j
  <2> SUFFICES ASSUME NEW i \in 1 .. Len(q), NEW j \in 1 .. Len(q), q[i] = q[j], i < j
               PROVE  FALSE
    BY <1>1
  <2>1. q[i].n < q[j].n
    BY <1>1 DEF InOrder
  <2>2. q[i].n \in Nat
    BY <1>1 DEF Frame
  <2>3. QED
    BY <2>1, <2>2
<1>4. q \in Surjection(1 .. Len(q), Range(q))
  <2>1. q \in [1 .. Len(q) -> Range(q)]
    BY <1>1 DEF Range
  <2>2. \A x \in Range(q) : \E i \in 1 .. Len(q) : q[i] = x
    BY <1>1 DEF Range
  <2>3. QED
    BY <2>1, <2>2 DEF Surjection
<1>5. q \in Injection(1 .. Len(q), Range(q))
  BY <1>1, <1>3, <1>4 DEF Injection, IsInjective, Surjection
<1>6. QED
  BY <1>2, <1>4, <1>5, FS_Surjection

\* Freeing the frames of a queue.
LEMMA RemoveQueue ==
  ASSUME NEW S, IsFiniteSet(S), NEW q \in Seq(Frame), InOrder(q), Range(q) \subseteq S
  PROVE  /\ IsFiniteSet(S \ Range(q))
         /\ Cardinality(S \ Range(q)) = Cardinality(S) - Len(q)
<1>1. S \cap Range(q) = Range(q)
  OBVIOUS
<1>2. Cardinality(Range(q)) = Len(q)
  BY RangeCount
<1>3. /\ IsFiniteSet(S \ Range(q))
      /\ Cardinality(S \ Range(q)) = Cardinality(S) - Cardinality(S \cap Range(q))
  BY FS_Difference
<1>4. QED
  BY <1>1, <1>2, <1>3

\* Nothing is lost or made by cutting a queue.
LEMMA CutRange ==
  ASSUME NEW q \in Seq(Frame), NEW k \in 0 .. Len(q)
  PROVE  Range(q) = Range(Prefix(q, k)) \cup Range(Rest(q, k))
<1> DEFINE p == Prefix(q, k)
           r == Rest(q, k)
<1>1. /\ p \in Seq(Frame) /\ Len(p) = k /\ \A i \in 1 .. k : p[i] = q[i]
      /\ r \in Seq(Frame) /\ Len(r) = Len(q) - k
      /\ \A i \in 1 .. Len(q) - k : r[i] = q[i + k]
  BY CutType
<1>2. /\ DOMAIN p = 1 .. k /\ DOMAIN r = 1 .. Len(q) - k /\ DOMAIN q = 1 .. Len(q)
      /\ Len(q) \in Nat
  BY <1>1, LenProperties
<1> HIDE DEF p, r
<1>3. ASSUME NEW i \in DOMAIN q PROVE q[i] \in Range(p) \cup Range(r)
  <2>1. CASE i <= k
    BY <2>1, <1>1, <1>2 DEF Range
  <2>2. CASE i > k
    <3>1. i - k \in DOMAIN r /\ r[i - k] = q[(i - k) + k] /\ (i - k) + k = i
      BY <2>2, <1>1, <1>2
    <3>2. QED
      BY <3>1 DEF Range
  <2>3. QED
    BY <2>1, <2>2, <1>2
<1>4. ASSUME NEW i \in DOMAIN p PROVE p[i] \in Range(q)
  BY <1>1, <1>2 DEF Range
<1>5. ASSUME NEW i \in DOMAIN r PROVE r[i] \in Range(q)
  <2>1. i + k \in DOMAIN q /\ r[i] = q[i + k]
    BY <1>1, <1>2
  <2>2. QED
    BY <2>1 DEF Range
<1>6. Range(q) = Range(p) \cup Range(r)
  BY <1>3, <1>4, <1>5 DEF Range
<1>7. QED
  BY <1>6 DEF p, r

\* A queue is its head and its tail.
LEMMA HeadRange ==
  ASSUME NEW q \in Seq(Frame), q # << >>
  PROVE  Range(q) = {Head(q)} \cup Range(Tail(q))
<1>1. /\ Tail(q) \in Seq(Frame) /\ Len(Tail(q)) = Len(q) - 1
      /\ \A i \in 1 .. Len(Tail(q)) : Tail(q)[i] = q[i + 1]
  BY HeadTailProperties
<1>2. /\ DOMAIN Tail(q) = 1 .. Len(q) - 1 /\ DOMAIN q = 1 .. Len(q)
      /\ Len(q) \in Nat \ {0} /\ Head(q) = q[1]
  BY <1>1, LenProperties, EmptySeq
<1> DEFINE t == Tail(q)
           h == Head(q)
<1> HIDE DEF t, h
<1>3. /\ \A i \in 1 .. Len(q) - 1 : t[i] = q[i + 1]
      /\ DOMAIN t = 1 .. Len(q) - 1 /\ h = q[1]
  BY <1>1, <1>2 DEF t, h
<1>4. ASSUME NEW i \in DOMAIN q PROVE q[i] \in {h} \cup Range(t)
  <2>1. CASE i = 1
    BY <2>1, <1>3
  <2>2. CASE i # 1
    <3>1. i - 1 \in DOMAIN t /\ t[i - 1] = q[(i - 1) + 1] /\ (i - 1) + 1 = i
      BY <2>2, <1>2, <1>3
    <3>2. QED
      BY <3>1 DEF Range
  <2>3. QED
    BY <2>1, <2>2
<1>5. h \in Range(q)
  BY <1>2, <1>3 DEF Range
<1>6. ASSUME NEW i \in DOMAIN t PROVE t[i] \in Range(q)
  <2>1. i + 1 \in DOMAIN q /\ t[i] = q[i + 1]
    BY <1>2, <1>3
  <2>2. QED
    BY <2>1 DEF Range
<1>7. Range(q) = {h} \cup Range(t)
  BY <1>4, <1>5, <1>6 DEF Range
<1>8. QED
  BY <1>7 DEF h, t

\* Frames of which one is older than the other are two frames.
LEMMA OlderApart ==
  ASSUME NEW S \in SUBSET Frame, NEW T, Older(S, T) PROVE S \cap T = {}
<1> SUFFICES ASSUME NEW f \in S, f \in T PROVE FALSE
  OBVIOUS
<1>1. f.n < f.n /\ f.n \in Nat
  BY DEF Older, Frame
<1>2. QED
  BY <1>1

\* Conservation is inductive together with the rule that a worker holds a
\* batch only between taking and freeing it.
PoolInv ==
  /\ IsFiniteSet(InFlight)
  /\ PoolConservation
  /\ \A w \in Worker : wpc[w] \in {"top", "dequeue", "done"} => batch[w] = << >>

\* All mbufs are free at the start.
LEMMA InitPool == Init => PoolInv
<1> SUFFICES ASSUME Init PROVE PoolInv
  OBVIOUS
<1>1. InFlight = {}
  BY EmptyOrder DEF Init, InFlight, HeldFor
<1>2. MBUF_NUM \in Nat
  BY RSSAssumption
<1>3. IsFiniteSet(InFlight) /\ Cardinality(InFlight) = 0
  BY <1>1, FS_EmptySet
<1>4. PoolConservation
  BY <1>2, <1>3 DEF Init, PoolConservation
<1>5. QED
  BY <1>3, <1>4 DEF Init, PoolInv

\* Taking an mbuf for a new frame.
LEMMA ArrivePool ==
  ASSUME TypeInv, OrderInv, PoolInv, NEW s \in Source, NEW v \in Verdict, Arrive(s, v)
  PROVE  PoolInv'
<1> DEFINE f == [src |-> s, n |-> sent[s] + 1, verdict |-> v]
<1>1. /\ f \in Frame
      /\ sent[s] \in Nat
      /\ \/ nic' = Append(nic, f) /\ pool > 0 /\ pool' = pool - 1
         \/ nic' = nic /\ pool' = pool
      /\ UNCHANGED <<doWork, mainVars, ring, workerVars, statVars>>
  BY ArriveEffect DEF TypeInv
<1>2. f.src = s /\ f.n = sent[s] + 1
  OBVIOUS
<1> HIDE DEF f
<1>3. UNCHANGED <<bufs, workerQueue, ring, batch, wpc>>
  BY <1>1 DEF mainVars, workerVars
<1>4. ~(f \in InFlight)
  <2>1. \A g \in InFlight : g.n \in Nat /\ g.n <= sent[g.src]
    BY FlightType DEF TypeInv, OrderInv, Unseen
  <2>2. QED
    BY <1>1, <1>2, <2>1
<1>5. pool \in Nat /\ nic \in Seq(Frame) /\ Cardinality(InFlight) \in Nat
  BY FS_CardinalityType DEF TypeInv, TypeOK, PoolInv
<1>6. IsFiniteSet(InFlight') /\ PoolConservation'
  <2>1. CASE nic' = Append(nic, f) /\ pool > 0 /\ pool' = pool - 1
    <3>1. Range(nic') = Range(nic) \cup {f}
      <4>1. InOrder(nic)
        BY DEF OrderInv, PathOrder
      <4>2. Older(Range(nic), {f})
        <5>1. \A g \in InFlight : g.n \in Nat /\ g.n <= sent[g.src]
          BY FlightType DEF TypeInv, OrderInv, Unseen
        <5>2. Range(nic) \subseteq InFlight
          BY DEF InFlight
        <5>3. QED
          BY <1>1, <1>2, <5>1, <5>2 DEF Older
      <4>3. QED
        BY <2>1, <1>1, <1>5, <4>1, <4>2, AppendOrder
    <3>2. InFlight' = InFlight \cup {f}
      BY <1>3, <3>1 DEF InFlight, HeldFor
    <3>3. IsFiniteSet(InFlight') /\ Cardinality(InFlight') = Cardinality(InFlight) + 1
      BY <1>4, <3>2, FS_AddElement DEF PoolInv
    <3>4. QED
      BY <2>1, <1>5, <3>3 DEF PoolInv, PoolConservation
  <2>2. CASE nic' = nic /\ pool' = pool
    <3>1. InFlight' = InFlight
      BY <2>2, <1>3 DEF InFlight, HeldFor
    <3>2. QED
      BY <2>2, <3>1 DEF PoolInv, PoolConservation
  <2>3. QED
    BY <1>1, <2>1, <2>2
<1>7. QED
  BY <1>3, <1>6 DEF PoolInv

\* Steps that move frames from one queue to another.
LEMMA MovePool ==
  ASSUME PoolInv, InFlight' = InFlight, pool' = pool,
         \A w \in Worker : wpc'[w] \in {"top", "dequeue", "done"} => batch'[w] = << >>
  PROVE  PoolInv'
BY DEF PoolInv, PoolConservation

\* Steps that free the frames of a queue.
LEMMA FreePool ==
  ASSUME TypeInv, PoolInv, NEW q \in Seq(Frame), InOrder(q), Range(q) \subseteq InFlight,
         InFlight' = InFlight \ Range(q), pool' = pool + Len(q),
         \A w \in Worker : wpc'[w] \in {"top", "dequeue", "done"} => batch'[w] = << >>
  PROVE  PoolInv'
<1>1. pool \in Nat /\ Len(q) \in Nat /\ Cardinality(InFlight) \in Nat
  BY LenProperties, FS_CardinalityType DEF TypeInv, TypeOK, PoolInv
<1>2. /\ IsFiniteSet(InFlight')
      /\ Cardinality(InFlight') = Cardinality(InFlight) - Len(q)
  BY RemoveQueue DEF PoolInv
<1>3. PoolConservation'
  BY <1>1, <1>2 DEF PoolInv, PoolConservation
<1>4. QED
  BY <1>2, <1>3 DEF PoolInv

\* A burst moves from the port to the empty burst array.
LEMMA RxBurstPool ==
  ASSUME TypeInv, OrderInv, PoolInv, RxBurst PROVE PoolInv'
<1>1. PICK k \in 0 .. Len(nic) : bufs' = Prefix(nic, k) /\ nic' = Rest(nic, k)
  BY RxBurstEffect DEF TypeInv
<1>2. /\ UNCHANGED <<pool, workerQueue, ring, batch, wpc>> /\ bufs = << >>
  BY DEF RxBurst, workerVars, TypeInv, ControlInv
<1>3. Range(nic) = Range(bufs') \cup Range(nic') /\ Range(bufs) = {}
  BY <1>1, <1>2, CutRange, EmptyOrder DEF TypeInv, TypeOK
<1>4. InFlight' = InFlight
  BY <1>2, <1>3 DEF InFlight, HeldFor
<1>5. QED
  BY <1>2, <1>4, MovePool DEF PoolInv

\* A frame moves from the burst array to a staging array.
LEMMA DispatchPool ==
  ASSUME TypeInv, OrderInv, PoolInv, Dispatch PROVE PoolInv'
<1>0. PICK f \in Frame, w \in Worker : f = Head(bufs) /\ w = WorkerOf(f.src)
  BY DispatchEffect DEF TypeInv
<1>1. /\ bufs # << >> 
      /\ workerQueue'[w] = Append(workerQueue[w], f)
      /\ \A v \in Worker \ {w} : workerQueue'[v] = workerQueue[v]
      /\ bufs' = Tail(bufs)
  BY <1>0, DispatchEffect DEF TypeInv
<1>2. UNCHANGED <<pool, nic, ring, batch, wpc>>
  BY DEF Dispatch, workerVars
<1>3. Range(bufs) = {f} \cup Range(bufs')
  BY <1>0, <1>1, HeadRange DEF TypeInv, TypeOK
<1>4. Range(workerQueue'[w]) = Range(workerQueue[w]) \cup {f}
  <2>1. /\ workerQueue[w] \in Seq(Frame) /\ InOrder(workerQueue[w])
        /\ Older(Range(workerQueue[w]), {f})
    BY <1>1, <1>3 DEF TypeInv, TypeOK, OrderInv, PathOrder, Older
  <2>2. QED
    BY <1>1, <2>1, AppendOrder
<1>5. /\ HeldFor(w)' = HeldFor(w) \cup {f}
      /\ \A v \in Worker \ {w} : HeldFor(v)' = HeldFor(v)
  BY <1>1, <1>2, <1>4 DEF HeldFor
<1>6. UNION {HeldFor(v)' : v \in Worker} = (UNION {HeldFor(v) : v \in Worker}) \cup {f}
  BY <1>5
<1>7. InFlight' = InFlight
  BY <1>2, <1>3, <1>6 DEF InFlight
<1>8. QED
  BY <1>2, <1>7, MovePool DEF PoolInv

\* A ring takes a prefix of a staging array; the rest is freed.
LEMMA EnqueueBurstPool ==
  ASSUME TypeInv, OrderInv, PoolInv, EnqueueBurst PROVE PoolInv'
<1>0. PICK e \in Worker : e = enq
  BY DEF TypeInv, TypeOK
<1> DEFINE q == workerQueue[e]
<1>1. PICK k \in 0 .. Len(q) :
        /\ ring'[e] = ring[e] \o Prefix(q, k)
        /\ \A v \in Worker \ {e} : ring'[v] = ring[v]
        /\ workerQueue'[e] = << >>
        /\ \A v \in Worker \ {e} : workerQueue'[v] = workerQueue[v]
        /\ pool' = pool + (Len(q) - k)
        /\ UNCHANGED <<doWork, nic, sent, missed, bufs, workerVars, statVars>>
  BY <1>0, EnqueueEffect DEF TypeInv
<1>2. UNCHANGED <<nic, bufs, batch, wpc>>
  BY <1>1 DEF workerVars
<1>3. e \in Worker /\ q \in Seq(Frame) /\ ring[e] \in Seq(Frame) /\ InOrder(q)
  BY DEF TypeInv, TypeOK, OrderInv, PathOrder
<1> DEFINE p == Prefix(q, k)
           r == Rest(q, k)
<1>4. /\ p \in Seq(Frame) /\ InOrder(p) /\ r \in Seq(Frame) /\ InOrder(r)
      /\ Len(r) = Len(q) - k
      /\ Older(Range(p), Range(r)) /\ Range(q) = Range(p) \cup Range(r)
  BY <1>3, CutType, CutOrder, CutRange
<1>5. ring'[e] = ring[e] \o p /\ pool' = pool + Len(r)
  BY <1>1, <1>4
<1> HIDE DEF p, r
<1>6. Range(ring'[e]) = Range(ring[e]) \cup Range(p)
  <2>1. InOrder(ring[e]) /\ Older(Range(ring[e]), Range(p))
    BY <1>3, <1>4 DEF OrderInv, PathOrder, Older, Behind
  <2>2. QED
    BY <1>3, <1>4, <1>5, <2>1, JoinOrder
<1>7. /\ HeldFor(e)' = Range(ring[e]) \cup Range(p) \cup Range(batch[e])
      /\ HeldFor(e) = Range(p) \cup Range(r) \cup Range(ring[e]) \cup Range(batch[e])
      /\ \A v \in Worker \ {e} : HeldFor(v)' = HeldFor(v)
  BY <1>1, <1>2, <1>4, <1>6, EmptyOrder DEF HeldFor
<1>8. /\ Range(r) \cap (Range(nic) \cup Range(bufs)) = {}
      /\ Range(r) \cap HeldFor(e)' = {}
  <2>1. Range(r) \subseteq Frame /\ Range(p) \subseteq Frame
    BY <1>4, RangeOfSeq
  <2>2. Range(ring[e]) \subseteq Frame /\ Range(batch[e]) \subseteq Frame
    BY <1>3, RangeOfSeq DEF TypeInv, TypeOK
  <2>3. /\ Older(Range(r), Range(bufs) \cup Range(nic))
        /\ Older(Range(ring[e]), Range(r))
        /\ Older(Range(batch[e]), Range(r))
    BY <1>3, <1>4 DEF OrderInv, PathOrder, Older, Behind
  <2>4. /\ Range(r) \cap (Range(bufs) \cup Range(nic)) = {}
        /\ Range(ring[e]) \cap Range(r) = {}
        /\ Range(batch[e]) \cap Range(r) = {}
        /\ Range(p) \cap Range(r) = {}
    BY <1>4, <2>1, <2>2, <2>3, OlderApart
  <2>5. QED
    BY <1>7, <2>4
<1>9. ASSUME NEW v \in Worker \ {e} PROVE Range(r) \cap HeldFor(v) = {}
  BY <1>3, <1>7 DEF OrderInv, Affinity
<1>10. InFlight' = InFlight \ Range(r)
  <2>1. InFlight' = Range(nic) \cup Range(bufs) \cup UNION {HeldFor(v)' : v \in Worker}
    BY <1>2 DEF InFlight
  <2>2. \A v \in Worker : HeldFor(v)' = HeldFor(v) \ Range(r)
    <3> TAKE v \in Worker
    <3>1. CASE v = e
      BY <3>1, <1>7, <1>8
    <3>2. CASE v # e
      BY <3>2, <1>7, <1>9
    <3>3. QED
      BY <3>1, <3>2
  <2>3. QED
    BY <1>8, <2>1, <2>2 DEF InFlight
<1>11. Range(r) \subseteq InFlight
  BY <1>3, <1>7 DEF InFlight
<1>12. \A w \in Worker : wpc'[w] \in {"top", "dequeue", "done"} => batch'[w] = << >>
  BY <1>2 DEF PoolInv
<1>13. QED
  BY <1>4, <1>5, <1>10, <1>11, <1>12, FreePool

\* The driver frees what is left in the descriptor ring.
LEMMA EthStopPool ==
  ASSUME TypeInv, OrderInv, PoolInv, EthStop PROVE PoolInv'
<1>1. /\ nic' = << >> /\ pool' = pool + Len(nic)
      /\ UNCHANGED <<bufs, workerQueue, ring, batch, wpc>>
  BY DEF EthStop, workerVars
<1>2. nic \in Seq(Frame) /\ InOrder(nic) /\ Range(nic') = {} /\ Range(nic) \subseteq InFlight
  BY <1>1, EmptyOrder DEF TypeInv, TypeOK, OrderInv, PathOrder, InFlight
<1>3. Range(bufs) \cap Range(nic) = {}
  <2>1. Range(bufs) \subseteq Frame
    BY RangeOfSeq DEF TypeInv, TypeOK
  <2>2. QED
    BY <2>1, OlderApart DEF OrderInv, PathOrder
<1>4. ASSUME NEW w \in Worker
      PROVE  HeldFor(w) \cap Range(nic) = {}
  <2>1. HeldFor(w) \subseteq Frame
    BY RangeOfSeq DEF TypeInv, TypeOK, HeldFor
  <2>2. Older(HeldFor(w), Range(nic))
    BY DEF OrderInv, PathOrder, Older, Behind, HeldFor
  <2>3. QED
    BY <2>1, <2>2, OlderApart
<1>5. InFlight' = InFlight \ Range(nic)
  <2>1. InFlight' = Range(bufs) \cup UNION {HeldFor(w) : w \in Worker}
    BY <1>1, <1>2 DEF InFlight, HeldFor
  <2>2. QED
    BY <1>3, <1>4, <2>1 DEF InFlight
<1>6. \A w \in Worker : wpc'[w] \in {"top", "dequeue", "done"} => batch'[w] = << >>
  BY <1>1 DEF PoolInv
<1>7. QED
  BY <1>1, <1>2, <1>5, <1>6, FreePool

\* A burst moves from a ring to the worker's empty batch.
LEMMA DequeueBurstPool ==
  ASSUME TypeInv, OrderInv, PoolInv, NEW w \in Worker, DequeueBurst(w) PROVE PoolInv'
<1>1. PICK k \in 0 .. Len(ring[w]) :
        /\ batch'[w] = Prefix(ring[w], k) /\ batch' \in [Worker -> Seq(Frame)]
        /\ ring'[w] = Rest(ring[w], k)
        /\ wpc'[w] = (IF k = 0 THEN "top" ELSE "stages")
        /\ \A v \in Worker \ {w} :
             batch'[v] = batch[v] /\ ring'[v] = ring[v] /\ wpc'[v] = wpc[v]
  BY DequeueEffect DEF TypeInv
<1>2. UNCHANGED <<pool, nic, bufs, workerQueue>> /\ wpc[w] = "dequeue"
  BY DEF DequeueBurst, mainVars
<1>3. batch[w] = << >> /\ Range(batch[w]) = {}
  BY <1>2, EmptyOrder DEF PoolInv
<1>4. ring[w] \in Seq(Frame)
  BY DEF TypeInv, TypeOK
<1>5. Range(ring[w]) = Range(batch'[w]) \cup Range(ring'[w])
  BY <1>1, <1>4, CutRange
<1>6. \A v \in Worker : HeldFor(v)' = HeldFor(v)
  <2> TAKE v \in Worker
  <2>1. CASE v = w
    BY <2>1, <1>2, <1>3, <1>5 DEF HeldFor
  <2>2. CASE v # w
    BY <2>2, <1>1, <1>2 DEF HeldFor
  <2>3. QED
    BY <2>1, <2>2
<1>7. InFlight' = InFlight
  BY <1>2, <1>6 DEF InFlight
<1>8. k = 0 => batch'[w] = << >>
  <2>1. Len(Prefix(ring[w], k)) = k
    BY <1>4, CutType
  <2>2. QED
    BY <1>1, <2>1, EmptySeq
<1>9. \A v \in Worker : wpc'[v] \in {"top", "dequeue", "done"} => batch'[v] = << >>
  BY <1>1, <1>8 DEF PoolInv
<1>10. QED
  BY <1>2, <1>7, <1>9, MovePool

\* A worker frees its batch.
LEMMA FreeBulkPool ==
  ASSUME TypeInv, OrderInv, PoolInv, NEW w \in Worker, FreeBulk(w) PROVE PoolInv'
<1>1. /\ batch'[w] = << >> /\ \A v \in Worker \ {w} : batch'[v] = batch[v] /\ wpc'[v] = wpc[v]
      /\ pool' = pool + Len(batch[w])
      /\ UNCHANGED <<nic, bufs, workerQueue, ring>>
  BY DEF FreeBulk, TypeInv, TypeOK, mainVars
<1> DEFINE b == batch[w]
<1>2. b \in Seq(Frame) /\ InOrder(b) /\ Range(b) \subseteq InFlight /\ Range(batch'[w]) = {}
  <2>1. b \in Seq(Frame) /\ InOrder(b)
    BY DEF TypeInv, TypeOK, OrderInv, PathOrder
  <2>2. Range(b) \subseteq InFlight
    BY DEF InFlight, HeldFor
  <2>3. QED
    BY <1>1, <2>1, <2>2, EmptyOrder
<1>3. Range(b) \subseteq Frame
  BY <1>2, RangeOfSeq
<1>4. Older(Range(b), Range(ring[w]) \cup Behind(w))
  BY DEF OrderInv, PathOrder
<1>5. Range(b) \cap (Range(ring[w]) \cup Behind(w)) = {}
  BY <1>3, <1>4, OlderApart
<1>6. \A v \in Worker : HeldFor(v)' = HeldFor(v) \ Range(b)
  <2> TAKE v \in Worker
  <2>1. CASE v = w
    BY <2>1, <1>1, <1>2, <1>5 DEF HeldFor, Behind
  <2>2. CASE v # w
    <3>1. HeldFor(v)' = HeldFor(v)
      BY <2>2, <1>1 DEF HeldFor
    <3>2. Range(b) \subseteq HeldFor(w)
      BY DEF HeldFor
    <3>3. Range(b) \cap HeldFor(v) = {}
      BY <2>2, <3>2 DEF OrderInv, Affinity
    <3>4. QED
      BY <3>1, <3>3
  <2>3. QED
    BY <2>1, <2>2
<1>7. InFlight' = InFlight \ Range(b)
  <2>1. InFlight' = Range(nic) \cup Range(bufs) \cup UNION {HeldFor(v)' : v \in Worker}
    BY <1>1 DEF InFlight
  <2>2. Range(b) \cap (Range(nic) \cup Range(bufs)) = {}
    BY <1>5 DEF Behind
  <2>3. QED
    BY <1>6, <2>1, <2>2 DEF InFlight
<1>8. \A v \in Worker : wpc'[v] \in {"top", "dequeue", "done"} => batch'[v] = << >>
  BY <1>1 DEF PoolInv
<1>9. QED
  BY <1>1, <1>2, <1>7, <1>8, FreePool

\* Steps that move no frame.
LEMMA StillPool ==
  ASSUME PoolInv, UNCHANGED <<pool, nic, bufs, workerQueue, ring, batch>>,
         \A w \in Worker : wpc'[w] \in {"top", "dequeue", "done"} =>
                              wpc[w] \in {"top", "dequeue", "done"}
  PROVE  PoolInv'
<1>1. InFlight' = InFlight
  BY DEF InFlight, HeldFor
<1>2. \A w \in Worker : wpc'[w] \in {"top", "dequeue", "done"} => batch'[w] = << >>
  BY DEF PoolInv
<1>3. QED
  BY <1>1, <1>2, MovePool

\* Every step conserves the mbufs.
LEMMA PoolStep == TypeInv /\ OrderInv /\ PoolInv /\ [Next]_vars => PoolInv'
<1> SUFFICES ASSUME TypeInv, OrderInv, PoolInv, [Next]_vars PROVE PoolInv'
  OBVIOUS
<1>1. CASE \E s \in Source, v \in Verdict : Arrive(s, v)
  BY <1>1, ArrivePool
<1>2. CASE Stop
  BY <1>2, StillPool DEF Stop, mainVars, workerVars
<1>3. CASE Main
  <2>1. CASE MainCheck
    BY <2>1, StillPool DEF MainCheck, workerVars
  <2>2. CASE WaitLcores
    BY <2>2, StillPool DEF WaitLcores, workerVars
  <2>3. QED
    BY <1>3, <2>1, <2>2, RxBurstPool, DispatchPool, EnqueueBurstPool, EthStopPool DEF Main
<1>4. ASSUME NEW w \in Worker, WorkerStep(w) PROVE PoolInv'
  <2>0. wpc \in [Worker -> WorkerPc]
    BY DEF TypeInv, TypeOK
  <2>1. CASE WorkerCheck(w)
    BY <2>0, <2>1, StillPool DEF WorkerCheck, mainVars
  <2>2. CASE IPStage(w)
    BY <2>0, <2>2, StillPool DEF IPStage, mainVars
  <2>3. CASE StoreCounter(w)
    BY <2>0, <2>3, StillPool DEF StoreCounter, mainVars
  <2>4. ASSUME NEW i \in todo[w], StageFrame(w, i) PROVE PoolInv'
    <3>1. /\ UNCHANGED <<pool, nic, bufs, workerQueue, ring, batch>>
          /\ wpc' = [wpc EXCEPT ![w] = "store"]
      BY <2>4 DEF StageFrame, mainVars
    <3>2. QED
      BY <2>0, <3>1, StillPool
  <2>5. QED
    BY <1>4, <2>1, <2>2, <2>3, <2>4, DequeueBurstPool, FreeBulkPool DEF WorkerStep
<1>5. CASE UNCHANGED vars
  BY <1>5, StillPool DEF vars, mainVars, workerVars
<1>6. QED
  BY <1>1, <1>2, <1>3, <1>4, <1>5 DEF Next, Exited

\* No mbuf leaks when a ring is full, when the port stops or when a worker
\* leaves its loop, and none is freed twice: at every moment the free mbufs
\* and the frames on their way make up the pool.
THEOREM PoolIsConserved == Spec => []PoolConservation
<1>1. PoolInv => PoolConservation
  BY DEF PoolInv
<1>2. TypeInv /\ OrderInv /\ PoolInv /\ [Next]_vars => PoolInv'
  BY PoolStep
<1>3. QED
  BY <1>1, <1>2, InitPool, Inductive, PTL DEF Spec

-----------------------------------------------------------------------------
(* Sums over a finite set.                                                 *)

\* The member of a set that the folds take out first.
Pick(s) == CHOOSE x \in s : TRUE

\* g adds up f over every member of the family D of sets.
IsFold(g, f, D) ==
  g = [s \in D |-> IF s = {} THEN 0 ELSE f[Pick(s)] + g[s \ {Pick(s)}]]

\* The subsets of S with at most n members.
UpTo(S, n) == {T \in SUBSET S : Cardinality(T) <= n}

\* Taking one member out of a finite set.
LEMMA PickOut ==
  ASSUME NEW S, IsFiniteSet(S), NEW T \in SUBSET S, T # {}
  PROVE  /\ Pick(T) \in T /\ T \ {Pick(T)} \in SUBSET S
         /\ Cardinality(T) \in Nat \ {0} /\ IsFiniteSet(T)
         /\ Cardinality(T \ {Pick(T)}) = Cardinality(T) - 1
<1>1. Pick(T) \in T
  BY DEF Pick
<1>2. IsFiniteSet(T)
  BY FS_Subset
<1>3. Cardinality(T) \in Nat /\ Cardinality(T) # 0
  BY <1>2, FS_CardinalityType, FS_EmptySet
<1>4. Cardinality(T \ {Pick(T)}) = Cardinality(T) - 1
  BY <1>1, <1>2, FS_RemoveElement
<1>5. QED
  BY <1>1, <1>2, <1>3, <1>4

\* The function that a fold computes with exists.
LEMMA FoldExists ==
  ASSUME NEW S, IsFiniteSet(S), NEW f
  PROVE  \E g : IsFold(g, f, SUBSET S)
<1> DEFINE H == {n \in Nat : \E g : IsFold(g, f, UpTo(S, n))}
<1>0. \A T \in SUBSET S : Cardinality(T) \in Nat
  BY FS_Subset, FS_CardinalityType
<1>1. 0 \in H
  <2> DEFINE g == [s \in UpTo(S, 0) |-> 0]
  <2>1. \A s \in UpTo(S, 0) : s = {}
    BY <1>0, FS_Subset, FS_EmptySet DEF UpTo
  <2>2. g = [s \in UpTo(S, 0) |-> IF s = {} THEN 0 ELSE f[Pick(s)] + g[s \ {Pick(s)}]]
    BY <2>1
  <2>3. IsFold(g, f, UpTo(S, 0))
    BY <2>2 DEF IsFold
  <2>4. QED
    BY <2>3
<1>2. ASSUME NEW n \in H PROVE n + 1 \in H
  <2>1. PICK g : IsFold(g, f, UpTo(S, n))
    OBVIOUS
  <2> DEFINE h == [s \in UpTo(S, n + 1) |->
                     IF s = {} THEN 0 ELSE f[Pick(s)] + g[s \ {Pick(s)}]]
  <2>2. ASSUME NEW s \in UpTo(S, n) PROVE s \in UpTo(S, n + 1) /\ h[s] = g[s]
    <3>1. s \in UpTo(S, n + 1)
      BY <1>0 DEF UpTo
    <3>2. QED
      BY <2>1, <3>1 DEF IsFold
  <2>3. ASSUME NEW s \in UpTo(S, n + 1), s # {} PROVE s \ {Pick(s)} \in UpTo(S, n)
    <3>1. s \in SUBSET S /\ Cardinality(s) <= n + 1
      BY DEF UpTo
    <3>2. /\ s \ {Pick(s)} \in SUBSET S /\ Cardinality(s) \in Nat
          /\ Cardinality(s \ {Pick(s)}) = Cardinality(s) - 1
      BY <2>3, <3>1, PickOut
    <3>3. QED
      BY <3>1, <3>2 DEF UpTo
  <2>4. h = [s \in UpTo(S, n + 1) |-> IF s = {} THEN 0 ELSE f[Pick(s)] + h[s \ {Pick(s)}]]
    <3>1. \A s \in UpTo(S, n + 1) : s # {} => h[s \ {Pick(s)}] = g[s \ {Pick(s)}]
      BY <2>2, <2>3
    <3>2. QED
      BY <3>1
  <2>5. IsFold(h, f, UpTo(S, n + 1))
    <3> HIDE DEF h
    <3>1. QED
      BY <2>4 DEF IsFold
  <2>6. QED
    BY <2>5
<1>3. H = Nat
  <2>1. H \in SUBSET Nat /\ 0 \in H /\ \A n \in H : n + 1 \in H
    BY <1>1, <1>2
  <2> HIDE DEF H
  <2>2. QED
    BY <2>1, Numbers!Induction
<1>4. PICK g : IsFold(g, f, UpTo(S, Cardinality(S)))
  <2>1. Cardinality(S) \in H
    BY <1>3, FS_CardinalityType
  <2>2. QED
    BY <2>1
<1>5. UpTo(S, Cardinality(S)) = SUBSET S
  BY FS_Subset DEF UpTo
<1>6. QED
  BY <1>4, <1>5

\* What SumFunction adds up.
LEMMA SumIsFold ==
  ASSUME NEW S, IsFiniteSet(S), NEW f, DOMAIN f = S
  PROVE  \E g : IsFold(g, f, SUBSET S) /\ SumFunction(f) = g[S]
<1> DEFINE c == CHOOSE g : IsFold(g, f, SUBSET S)
<1>1. IsFold(c, f, SUBSET S)
  BY FoldExists
<1>2. SumFunction(f) = c[S]
  BY DEF SumFunction, SumFunctionOnSet, FoldFunctionOnSet, MapThenFoldSet, IsFold, Pick
<1>3. QED
  BY <1>1, <1>2

\* Changing one value changes the sum by as much.
LEMMA FoldUpdate ==
  ASSUME NEW S, IsFiniteSet(S), NEW e \in [S -> Int], NEW f \in [S -> Int], NEW w,
         \A i \in S \ {w} : f[i] = e[i],
         NEW g, NEW h, IsFold(g, e, SUBSET S), IsFold(h, f, SUBSET S)
  PROVE  \A T \in SUBSET S :
           /\ g[T] \in Int /\ h[T] \in Int
           /\ w \in T => h[T] = g[T] + (f[w] - e[w])
           /\ ~(w \in T) => h[T] = g[T]
<1> DEFINE P(T) == /\ g[T] \in Int /\ h[T] \in Int
                   /\ w \in T => h[T] = g[T] + (f[w] - e[w])
                   /\ ~(w \in T) => h[T] = g[T]
           H == {n \in Nat : \A T \in SUBSET S : Cardinality(T) = n => P(T)}
<1>0. \A T \in SUBSET S : IsFiniteSet(T) /\ Cardinality(T) \in Nat
  BY FS_Subset, FS_CardinalityType
<1>1. 0 \in H
  <2> SUFFICES ASSUME NEW T \in SUBSET S, Cardinality(T) = 0 PROVE P(T)
    OBVIOUS
  <2>1. T = {}
    BY <1>0, FS_EmptySet
  <2>2. g[T] = 0 /\ h[T] = 0
    BY <2>1 DEF IsFold
  <2>3. QED
    BY <2>1, <2>2
<1>2. ASSUME NEW n \in H PROVE n + 1 \in H
  <2> SUFFICES ASSUME NEW T \in SUBSET S, Cardinality(T) = n + 1 PROVE P(T)
    OBVIOUS
  <2> DEFINE x == Pick(T)
             U == T \ {x}
  <2>1. T # {}
    <3>1. n \in Nat
      OBVIOUS
    <3>2. n + 1 # 0
      BY <3>1
    <3>3. QED
      BY <3>2, FS_EmptySet
  <2>2. x \in T /\ U \in SUBSET S /\ Cardinality(U) = (n + 1) - 1
    BY <2>1, PickOut
  <2>3. g[T] = e[x] + g[U] /\ h[T] = f[x] + h[U]
    BY <2>1 DEF IsFold
  <2>4. e[x] \in Int /\ f[x] \in Int /\ x \in S
    BY <2>2
  <2>5. x # w => f[x] = e[x]
    BY <2>4
  <2>6. (w \in U <=> w \in T /\ w # x)
    OBVIOUS
  <2> HIDE DEF x, U
  <2>7. P(U)
    <3>1. Cardinality(U) = n
      BY <2>2
    <3>2. QED
      BY <2>2, <3>1
  <2>8. w \in T => e[w] \in Int /\ f[w] \in Int
    OBVIOUS
  <2>9. CASE w = x
    <3>1. h[U] = g[U] /\ g[U] \in Int
      BY <2>7, <2>9, <2>6
    <3>2. QED
      BY <2>2, <2>3, <2>4, <2>9, <3>1
  <2>10. CASE w # x
    <3>1. f[x] = e[x] /\ (w \in U <=> w \in T)
      BY <2>5, <2>6, <2>10
    <3>2. QED
      BY <2>3, <2>4, <2>7, <2>8, <3>1
  <2>11. QED
    BY <2>9, <2>10
<1>3. H = Nat
  <2>1. H \in SUBSET Nat /\ 0 \in H /\ \A n \in H : n + 1 \in H
    BY <1>1, <1>2
  <2> HIDE DEF H
  <2>2. QED
    BY <2>1, Numbers!Induction
<1>4. QED
  BY <1>0, <1>3

\* The sum of a function after one of its values changed.
LEMMA SumChange ==
  ASSUME NEW S, IsFiniteSet(S), NEW e \in [S -> Int], NEW f \in [S -> Int], NEW w \in S,
         \A i \in S \ {w} : f[i] = e[i]
  PROVE  /\ SumFunction(e) \in Int /\ SumFunction(f) \in Int
         /\ SumFunction(f) = SumFunction(e) + (f[w] - e[w])
<1>1. DOMAIN e = S /\ DOMAIN f = S
  OBVIOUS
<1>2. PICK g : IsFold(g, e, SUBSET S) /\ SumFunction(e) = g[S]
  BY <1>1, SumIsFold
<1>3. PICK h : IsFold(h, f, SUBSET S) /\ SumFunction(f) = h[S]
  BY <1>1, SumIsFold
<1>4. /\ g[S] \in Int /\ h[S] \in Int
      /\ w \in S => h[S] = g[S] + (f[w] - e[w])
  <2>1. S \in SUBSET S
    OBVIOUS
  <2>2. \A T \in SUBSET S :
           /\ g[T] \in Int /\ h[T] \in Int
           /\ w \in T => h[T] = g[T] + (f[w] - e[w])
           /\ ~(w \in T) => h[T] = g[T]
    BY <1>2, <1>3, FoldUpdate
  <2>3. QED
    BY <2>1, <2>2
<1>5. QED
  BY <1>2, <1>3, <1>4

\* Zeros add up to zero.
LEMMA SumZero ==
  ASSUME NEW S, IsFiniteSet(S), NEW e, e = [i \in S |-> 0] PROVE SumFunction(e) = 0
<1>1. PICK g : IsFold(g, e, SUBSET S) /\ SumFunction(e) = g[S]
  BY SumIsFold
<1> DEFINE H == {n \in Nat : \A T \in SUBSET S : Cardinality(T) = n => g[T] = 0}
<1>2. 0 \in H
  <2> SUFFICES ASSUME NEW T \in SUBSET S, Cardinality(T) = 0 PROVE g[T] = 0
    OBVIOUS
  <2>1. T = {}
    BY FS_Subset, FS_EmptySet
  <2>2. QED
    BY <1>1, <2>1 DEF IsFold
<1>3. ASSUME NEW n \in H PROVE n + 1 \in H
  <2> SUFFICES ASSUME NEW T \in SUBSET S, Cardinality(T) = n + 1 PROVE g[T] = 0
    OBVIOUS
  <2>1. n + 1 # 0 /\ n \in Nat
    OBVIOUS
  <2>2. T # {}
    BY <2>1, FS_EmptySet
  <2>3. Pick(T) \in T /\ T \ {Pick(T)} \in SUBSET S /\ Cardinality(T \ {Pick(T)}) = (n + 1) - 1
    BY <2>2, PickOut
  <2>4. g[T] = e[Pick(T)] + g[T \ {Pick(T)}]
    BY <1>1, <2>2 DEF IsFold
  <2>5. e[Pick(T)] = 0
    BY <2>3
  <2>6. g[T \ {Pick(T)}] = 0
    <3>1. Cardinality(T \ {Pick(T)}) = n
      BY <2>1, <2>3
    <3>2. QED
      BY <2>3, <3>1
  <2>7. QED
    BY <2>4, <2>5, <2>6
<1>4. H = Nat
  <2>1. H \in SUBSET Nat /\ 0 \in H /\ \A n \in H : n + 1 \in H
    BY <1>2, <1>3
  <2> HIDE DEF H
  <2>2. QED
    BY <2>1, Numbers!Induction
<1>5. Cardinality(S) \in H /\ S \in SUBSET S
  BY <1>4, FS_CardinalityType
<1>6. QED
  BY <1>1, <1>5

-----------------------------------------------------------------------------
(* Every frame is in one place of the statistics.                          *)

\* The frames of worker w that no stage has counted yet.
Load(w) ==
  Len(workerQueue[w]) + Len(ring[w])
  + (IF wpc[w] \in {"storeIP", "free"} THEN 0
     ELSE Cardinality(todo[w]) + Len(batch[w]) - Cardinality(BusPositions(batch[w])))

\* The load of every worker.
Loads == [w \in Worker |-> Load(w)]

\* Every frame sent was missed, dropped at a full ring, counted, or is still
\* on its way.
Account ==
  SumFunction(sent) =
    missed + ringFull + SumFunction(tally) + Len(nic) + Len(bufs) + SumFunction(Loads)

\* The counters are eight.
LEMMA CounterFinite == IsFiniteSet(Counter)
<1> DEFINE A == {"rxGoose"}
           B == A \cup {"rxSV"}
           C == B \cup {"errGooseParser"}
           D == C \cup {"errSVParser"}
           E == D \cup {"rxUnknownGoose"}
           F == E \cup {"rxUnknownSV"}
           G == F \cup {"errAuth"}
           K == G \cup {"pktToKernel"}
<1>1. Counter = K
  BY DEF Counter
<1>2. IsFiniteSet(A)
  BY FS_Singleton
<1> HIDE DEF A
<1>3. IsFiniteSet(B)
  BY <1>2, FS_AddElement
<1> HIDE DEF B
<1>4. IsFiniteSet(C)
  BY <1>3, FS_AddElement
<1> HIDE DEF C
<1>5. IsFiniteSet(D)
  BY <1>4, FS_AddElement
<1> HIDE DEF D
<1>6. IsFiniteSet(E)
  BY <1>5, FS_AddElement
<1> HIDE DEF E
<1>7. IsFiniteSet(F)
  BY <1>6, FS_AddElement
<1> HIDE DEF F
<1>8. IsFiniteSet(G)
  BY <1>7, FS_AddElement
<1> HIDE DEF G
<1>9. IsFiniteSet(K)
  BY <1>8, FS_AddElement
<1>10. QED
  BY <1>1, <1>9

\* The workers are finitely many.
LEMMA WorkerFinite == IsFiniteSet(Worker)
<1>1. 0 \in Int /\ WorkerNum - 1 \in Int
  BY Sizes
<1>2. QED
  BY <1>1, FS_Interval DEF Worker

\* What the load of a worker is made of.
LEMMA LoadParts ==
  ASSUME TypeInv, NEW w \in Worker
  PROVE  /\ Len(workerQueue[w]) \in Nat /\ Len(ring[w]) \in Nat /\ Len(batch[w]) \in Nat
         /\ IsFiniteSet(todo[w]) /\ Cardinality(todo[w]) \in Nat
         /\ Cardinality(BusPositions(batch[w])) \in Nat
         /\ Load(w) \in Int
<1>1. /\ workerQueue[w] \in Seq(Frame) /\ ring[w] \in Seq(Frame) /\ batch[w] \in Seq(Frame)
      /\ todo[w] \subseteq BusPositions(batch[w])
  BY DEF TypeInv, TypeOK, ControlInv
<1>2. Len(workerQueue[w]) \in Nat /\ Len(ring[w]) \in Nat /\ Len(batch[w]) \in Nat
  BY <1>1, LenProperties
<1>3. IsFiniteSet(BusPositions(batch[w]))
  <2>1. IsFiniteSet(1 .. Len(batch[w]))
    BY <1>2, FS_Interval
  <2>2. BusPositions(batch[w]) \in SUBSET (1 .. Len(batch[w]))
    BY <1>1, BusPositionsCount
  <2>3. QED
    BY <2>1, <2>2, FS_Subset
<1>4. IsFiniteSet(todo[w])
  BY <1>1, <1>3, FS_Subset
<1>5. Cardinality(todo[w]) \in Nat /\ Cardinality(BusPositions(batch[w])) \in Nat
  BY <1>3, <1>4, FS_CardinalityType
<1>6. Load(w) \in Int
  <2> DEFINE a == Len(workerQueue[w])
             b == Len(ring[w])
             c == Cardinality(todo[w])
             d == Len(batch[w])
             e == Cardinality(BusPositions(batch[w]))
  <2>1. a \in Nat /\ b \in Nat /\ c \in Nat /\ d \in Nat /\ e \in Nat
    BY <1>2, <1>5
  <2> HIDE DEF a, b, c, d, e
  <2>2. a + b + (IF wpc[w] \in {"storeIP", "free"} THEN 0 ELSE c + d - e) \in Int
    BY <2>1
  <2>3. QED
    BY <2>2 DEF Load, a, b, c, d, e
<1>7. QED
  BY <1>2, <1>4, <1>5, <1>6

\* The loads are numbers.
LoadsAreInt == \A w \in Worker : Load(w) \in Int

\* Typed states have such loads.
LEMMA LoadInt == TypeInv => LoadsAreInt
BY LoadParts DEF LoadsAreInt

\* The sums of the account are numbers.
LEMMA SumTypes ==
  ASSUME TypeInv
  PROVE  /\ SumFunction(sent) \in Int /\ SumFunction(tally) \in Int
         /\ SumFunction(Loads) \in Int
         /\ Len(nic) \in Nat /\ Len(bufs) \in Nat /\ missed \in Nat /\ ringFull \in Nat
<1>1. ASSUME NEW S, IsFiniteSet(S), NEW e \in [S -> Int] PROVE SumFunction(e) \in Int
  <2>1. CASE S = {}
    <3>1. e = [i \in S |-> 0]
      BY <2>1
    <3>2. QED
      BY <3>1, <1>1, SumZero
  <2>2. CASE S # {}
    <3>1. PICK w \in S : TRUE
      BY <2>2
    <3>2. QED
      BY <3>1, <1>1, SumChange
  <2>3. QED
    BY <2>1, <2>2
<1>2. sent \in [Source -> Int] /\ tally \in [Counter -> Int]
  <2>1. sent \in [Source -> Nat] /\ tally \in [Counter -> Nat]
    BY DEF TypeInv, TypeOK
  <2>2. QED
    BY <2>1
<1>3. Loads \in [Worker -> Int]
  BY LoadParts DEF Loads
<1>4. SumFunction(sent) \in Int /\ SumFunction(tally) \in Int /\ SumFunction(Loads) \in Int
  BY <1>1, <1>2, <1>3, FiniteSources, CounterFinite, WorkerFinite
<1>5. Len(nic) \in Nat /\ Len(bufs) \in Nat /\ missed \in Nat /\ ringFull \in Nat
  BY LenProperties DEF TypeInv, TypeOK
<1>6. QED
  BY <1>4, <1>5

\* One more frame of one source, or event of one counter.
LEMMA SumBump ==
  ASSUME NEW S, IsFiniteSet(S), NEW e \in [S -> Nat], NEW f \in [S -> Nat],
         NEW w \in S, NEW n \in Nat, f[w] = e[w] + n, \A i \in S \ {w} : f[i] = e[i]
  PROVE  SumFunction(f) = SumFunction(e) + n /\ SumFunction(e) \in Int
<1>1. e \in [S -> Int] /\ f \in [S -> Int]
  OBVIOUS
<1>2. SumFunction(e) \in Int /\ SumFunction(f) = SumFunction(e) + (f[w] - e[w])
  BY <1>1, SumChange
<1>3. f[w] - e[w] = n
  OBVIOUS
<1>4. QED
  BY <1>2, <1>3

\* Only the load of one worker changes.
LEMMA OneLoad ==
  ASSUME TypeInv, TypeInv', NEW w \in Worker,
         \A v \in Worker \ {w} : Load(v)' = Load(v)
  PROVE  /\ SumFunction(Loads)' = SumFunction(Loads) + (Load(w)' - Load(w))
         /\ Load(w) \in Int /\ Load(w)' \in Int
<1>1. \A v \in Worker : Load(v) \in Int
  BY LoadParts
<1>2. \A v \in Worker : Load(v)' \in Int
  <2>1. LoadsAreInt'
    BY LoadInt, PTL
  <2>2. QED
    BY <2>1 DEF LoadsAreInt
<1>3. Loads \in [Worker -> Int] /\ Loads' \in [Worker -> Int]
  BY <1>1, <1>2 DEF Loads
<1>4. \A v \in Worker : Loads[v] = Load(v) /\ Loads'[v] = Load(v)'
  BY DEF Loads
<1>5. \A v \in Worker \ {w} : Loads'[v] = Loads[v]
  BY <1>4
<1>6. SumFunction(Loads') = SumFunction(Loads) + (Loads'[w] - Loads[w])
  BY <1>3, <1>5, SumChange, WorkerFinite
<1>7. QED
  BY <1>1, <1>2, <1>4, <1>6

\* No load changes.
LEMMA SameLoads ==
  ASSUME \A v \in Worker : Load(v)' = Load(v) PROVE SumFunction(Loads)' = SumFunction(Loads)
<1>1. Loads' = Loads
  BY DEF Loads
<1>2. QED
  BY <1>1

\* The account holds from the start.
LEMMA InitAccount == Init => Account
<1> SUFFICES ASSUME Init PROVE Account
  OBVIOUS
<1>1. Len(<< >>) = 0
  BY EmptySeq
<1>2. BusPositions(<< >>) = {} /\ Cardinality({}) = 0
  BY FS_EmptySet DEF BusPositions
<1>3. Loads = [w \in Worker |-> 0]
  <2>1. ASSUME NEW w \in Worker PROVE Load(w) = 0
    <3>1. /\ workerQueue[w] = << >> /\ ring[w] = << >> /\ batch[w] = << >> /\ todo[w] = {}
          /\ wpc[w] = "top"
      BY DEF Init
    <3>2. Load(w) = Len(<< >>) + Len(<< >>)
                    + (Cardinality({}) + Len(<< >>) - Cardinality(BusPositions(<< >>)))
      BY <3>1 DEF Load
    <3>3. Cardinality(BusPositions(<< >>)) = 0
      BY <1>2
    <3>4. Load(w) = 0 + 0 + (0 + 0 - 0)
      BY <3>2, <3>3, <1>1, <1>2
    <3>5. QED
      BY <3>4
  <2>2. QED
    BY <2>1 DEF Loads
<1>4. SumFunction(Loads) = 0
  BY <1>3, SumZero, WorkerFinite
<1>5. SumFunction(sent) = 0 /\ SumFunction(tally) = 0
  BY SumZero, FiniteSources, CounterFinite DEF Init
<1>6. QED
  BY <1>1, <1>4, <1>5 DEF Init, Account

\* Steps that leave every part of the account alone.
LEMMA StillAccount ==
  ASSUME TypeInv, Account, UNCHANGED <<sent, missed, ringFull, tally, nic, bufs>>,
         \A w \in Worker : Load(w)' = Load(w)
  PROVE  Account'
<1>1. SumFunction(Loads)' = SumFunction(Loads)
  BY SameLoads
<1>2. QED
  BY <1>1 DEF Account

\* A published frame is in the port or missed.
LEMMA ArriveAccount ==
  ASSUME TypeInv, Account, NEW s \in Source, NEW v \in Verdict, Arrive(s, v)
  PROVE  Account'
<1> DEFINE f == [src |-> s, n |-> sent[s] + 1, verdict |-> v]
<1>1. /\ f \in Frame
      /\ sent' = [sent EXCEPT ![s] = @ + 1]
      /\ \/ nic' = Append(nic, f) /\ missed' = missed
         \/ nic' = nic /\ missed' = missed + 1
      /\ UNCHANGED <<doWork, mainVars, ring, workerVars, statVars>>
  BY ArriveEffect DEF TypeInv
<1> HIDE DEF f
<1>2. UNCHANGED <<bufs, ringFull, tally, workerQueue, ring, wpc, batch, todo>>
  BY <1>1 DEF mainVars, workerVars, statVars
<1>3. SumFunction(Loads)' = SumFunction(Loads)
  BY <1>2, SameLoads DEF Load, BusPositions
<1>4. SumFunction(sent') = SumFunction(sent) + 1
  <2>1. sent \in [Source -> Nat]
    BY DEF TypeInv, TypeOK
  <2>2. /\ sent' \in [Source -> Nat] /\ sent'[s] = sent[s] + 1
        /\ \A i \in Source \ {s} : sent'[i] = sent[i]
    BY <1>1, <2>1
  <2>3. QED
    BY <2>1, <2>2, SumBump, FiniteSources
<1>5. Len(nic') + missed' = Len(nic) + missed + 1 /\ Len(nic') \in Nat /\ missed' \in Nat
  <2>1. nic \in Seq(Frame) /\ Len(nic) \in Nat /\ missed \in Nat
    BY LenProperties DEF TypeInv, TypeOK
  <2>2. Len(Append(nic, f)) = Len(nic) + 1
    BY <1>1, <2>1, AppendProperties
  <2>3. QED
    BY <1>1, <2>1, <2>2
<1>6. QED
  <2> DEFINE a == SumFunction(sent)
             b == SumFunction(tally)
             c == SumFunction(Loads)
             d == Len(nic)
             e == Len(bufs)
  <2>1. /\ a \in Int /\ b \in Int /\ c \in Int /\ d \in Nat /\ e \in Nat
        /\ missed \in Nat /\ ringFull \in Nat
    BY SumTypes
  <2>2. a = missed + ringFull + b + d + e + c
    BY DEF Account
  <2> HIDE DEF a, b, c, d, e
  <2>3. a + 1 = missed' + ringFull + b + Len(nic') + e + c
    <3> DEFINE x == Len(nic')
               y == missed'
    <3>1. x + y = d + missed + 1 /\ x \in Nat /\ y \in Nat
      BY <1>5 DEF d
    <3> HIDE DEF x, y
    <3>2. a + 1 = y + ringFull + b + x + e + c
      BY <2>1, <2>2, <3>1
    <3>3. QED
      BY <3>2 DEF x, y
  <2>4. QED
    BY <1>2, <1>3, <1>4, <2>3 DEF Account, a, b, c, e

\* A burst moves from the port to the burst array.
LEMMA RxBurstAccount == ASSUME TypeInv, Account, RxBurst PROVE Account'
<1>1. PICK k \in 0 .. Len(nic) : bufs' = Prefix(nic, k) /\ nic' = Rest(nic, k)
  BY RxBurstEffect DEF TypeInv
<1>2. /\ UNCHANGED <<sent, missed, ringFull, tally, workerQueue, ring, wpc, batch, todo>>
      /\ bufs = << >>
  BY DEF RxBurst, workerVars, statVars, TypeInv, ControlInv
<1>3. SumFunction(Loads)' = SumFunction(Loads)
  BY <1>2, SameLoads DEF Load, BusPositions
<1>4. Len(bufs) = 0 /\ Len(bufs') + Len(nic') = Len(nic) /\ Len(bufs') \in Nat /\ Len(nic') \in Nat
  <2>1. nic \in Seq(Frame) /\ Len(nic) \in Nat /\ Len(<< >>) = 0
    BY LenProperties, EmptySeq DEF TypeInv, TypeOK
  <2>2. Len(Prefix(nic, k)) = k /\ Len(Rest(nic, k)) = Len(nic) - k
    BY <2>1, CutType
  <2>3. QED
    BY <1>1, <1>2, <2>1, <2>2
<1>5. QED
  <2> DEFINE b == SumFunction(tally)
             c == SumFunction(Loads)
  <2>1. b \in Int /\ c \in Int /\ missed \in Nat /\ ringFull \in Nat
    BY SumTypes
  <2>2. SumFunction(sent) = missed + ringFull + b + Len(nic) + Len(bufs) + c
    BY DEF Account
  <2> HIDE DEF b, c
  <2>3. SumFunction(sent) = missed + ringFull + b + Len(nic') + Len(bufs') + c
    BY <1>4, <2>1, <2>2
  <2>4. QED
    BY <1>2, <1>3, <2>3 DEF Account, b, c

\* A frame moves from the burst array to a staging array.
LEMMA DispatchAccount == ASSUME TypeInv, TypeInv', Account, Dispatch PROVE Account'
<1>0. PICK f \in Frame, w \in Worker : f = Head(bufs) /\ w = WorkerOf(f.src)
  BY DispatchEffect DEF TypeInv
<1>1. /\ workerQueue'[w] = Append(workerQueue[w], f)
      /\ \A v \in Worker \ {w} : workerQueue'[v] = workerQueue[v]
      /\ Len(bufs') = Len(bufs) - 1
  BY <1>0, DispatchEffect DEF TypeInv
<1>2. UNCHANGED <<sent, missed, ringFull, tally, nic, ring, wpc, batch, todo>>
  BY DEF Dispatch, workerVars, statVars
<1>3. Len(workerQueue'[w]) = Len(workerQueue[w]) + 1
  <2>1. workerQueue[w] \in Seq(Frame)
    BY DEF TypeInv, TypeOK
  <2>2. QED
    BY <1>1, <2>1, AppendProperties
<1>4. /\ \A v \in Worker \ {w} : Load(v)' = Load(v)
      /\ Load(w)' = Load(w) + 1
  <2>1. \A v \in Worker \ {w} : Load(v)' = Load(v)
    BY <1>1, <1>2 DEF Load, BusPositions
  <2> DEFINE x == IF wpc[w] \in {"storeIP", "free"} THEN 0
                  ELSE Cardinality(todo[w]) + Len(batch[w]) - Cardinality(BusPositions(batch[w]))
  <2>2. /\ Load(w) = Len(workerQueue[w]) + Len(ring[w]) + x
        /\ Load(w)' = Len(workerQueue'[w]) + Len(ring[w]) + x
    BY <1>2 DEF Load, BusPositions
  <2> DEFINE l == Len(workerQueue[w])
             r == Len(ring[w])
  <2>3. x \in Int /\ l \in Nat /\ r \in Nat
    BY LoadParts
  <2>4. Load(w) = l + r + x /\ Load(w)' = (l + 1) + r + x
    BY <1>3, <2>2
  <2> HIDE DEF x, l, r
  <2>5. (l + 1) + r + x = (l + r + x) + 1
    BY <2>3
  <2>6. QED
    BY <2>1, <2>4, <2>5
<1>5. SumFunction(Loads)' = SumFunction(Loads) + 1
  <2>1. /\ SumFunction(Loads)' = SumFunction(Loads) + (Load(w)' - Load(w))
        /\ Load(w) \in Int
    BY <1>4, OneLoad
  <2>2. QED
    BY <1>4, <2>1
<1>6. QED
  <2> DEFINE b == SumFunction(tally)
             c == SumFunction(Loads)
             d == Len(nic)
             e == Len(bufs)
  <2>1. b \in Int /\ c \in Int /\ d \in Nat /\ e \in Nat /\ missed \in Nat /\ ringFull \in Nat
    BY SumTypes
  <2>2. SumFunction(sent) = missed + ringFull + b + d + e + c
    BY DEF Account
  <2> HIDE DEF b, c, d, e
  <2>3. SumFunction(sent) = missed + ringFull + b + d + (e - 1) + (c + 1)
    BY <2>1, <2>2
  <2>4. QED
    BY <1>1, <1>2, <1>5, <2>3 DEF Account, b, c, d, e

\* A ring takes a prefix of a staging array; the rest is counted as lost.
LEMMA EnqueueBurstAccount == ASSUME TypeInv, TypeInv', Account, EnqueueBurst PROVE Account'
<1>0. PICK w \in Worker : w = enq
  BY DEF TypeInv, TypeOK
<1>1. PICK k \in 0 .. Len(workerQueue[w]) :
        /\ Len(ring'[w]) = Len(ring[w]) + k
        /\ \A v \in Worker \ {w} : ring'[v] = ring[v]
        /\ workerQueue'[w] = << >>
        /\ \A v \in Worker \ {w} : workerQueue'[v] = workerQueue[v]
        /\ ringFull' = ringFull + (Len(workerQueue[w]) - k)
        /\ UNCHANGED <<doWork, nic, sent, missed, bufs, workerVars, statVars>>
  BY <1>0, EnqueueEffect DEF TypeInv
<1>2. UNCHANGED <<sent, missed, tally, nic, bufs, wpc, batch, todo>>
  BY <1>1 DEF workerVars, statVars
<1> DEFINE l == Len(workerQueue[w])
           r == Len(ring[w])
<1>3. l \in Nat /\ r \in Nat /\ k \in Nat /\ Len(<< >>) = 0
  BY LoadParts, EmptySeq
<1>4. /\ \A v \in Worker \ {w} : Load(v)' = Load(v)
      /\ Load(w)' = Load(w) - (l - k)
  <2>1. \A v \in Worker \ {w} : Load(v)' = Load(v)
    BY <1>1, <1>2 DEF Load, BusPositions
  <2> DEFINE x == IF wpc[w] \in {"storeIP", "free"} THEN 0
                  ELSE Cardinality(todo[w]) + Len(batch[w]) - Cardinality(BusPositions(batch[w]))
  <2>2. Load(w) = l + r + x /\ Load(w)' = 0 + (r + k) + x
    <3>1. Load(w) = l + r + x
      BY DEF Load
    <3>2. Load(w)' = Len(workerQueue'[w]) + Len(ring'[w]) + x
      BY <1>2 DEF Load, BusPositions
    <3>3. Len(workerQueue'[w]) = 0 /\ Len(ring'[w]) = r + k
      BY <1>1, <1>3
    <3>4. QED
      BY <3>1, <3>2, <3>3
  <2>3. x \in Int
    BY LoadParts
  <2> HIDE DEF x, l, r
  <2>4. QED
    BY <1>3, <2>1, <2>2, <2>3
<1>5. SumFunction(Loads)' = SumFunction(Loads) - (l - k)
  <2>1. /\ SumFunction(Loads)' = SumFunction(Loads) + (Load(w)' - Load(w))
        /\ Load(w) \in Int /\ SumFunction(Loads) \in Int
    BY <1>4, OneLoad, SumTypes
  <2> HIDE DEF l, r
  <2>2. QED
    BY <1>3, <1>4, <2>1
<1>6. ringFull' = ringFull + (l - k)
  BY <1>1
<1> HIDE DEF l, r
<1>7. QED
  <2> DEFINE b == SumFunction(tally)
             c == SumFunction(Loads)
             d == Len(nic)
             e == Len(bufs)
  <2>1. b \in Int /\ c \in Int /\ d \in Nat /\ e \in Nat /\ missed \in Nat /\ ringFull \in Nat
    BY SumTypes
  <2>2. SumFunction(sent) = missed + ringFull + b + d + e + c
    BY DEF Account
  <2> HIDE DEF b, c, d, e
  <2>3. SumFunction(sent) = missed + (ringFull + (l - k)) + b + d + e + (c - (l - k))
    BY <1>3, <2>1, <2>2
  <2>4. QED
    BY <1>2, <1>5, <1>6, <2>3 DEF Account, b, c, d, e

\* n events of counter c.
Raised(c, n) == tally' = [tally EXCEPT ![c] = @ + n]

\* A worker counts n of its frames.
LEMMA CountedAccount ==
  ASSUME TypeInv, TypeInv', Account, NEW w \in Worker, NEW n \in Nat, NEW c \in Counter,
         Raised(c, n),
         UNCHANGED <<sent, missed, ringFull, nic, bufs>>,
         \A v \in Worker \ {w} : Load(v)' = Load(v), Load(w) = Load(w)' + n
  PROVE  Account'
<1>1. SumFunction(tally') = SumFunction(tally) + n
  <2>1. tally \in [Counter -> Nat]
    BY DEF TypeInv, TypeOK
  <2>2. /\ tally' \in [Counter -> Nat] /\ tally'[c] = tally[c] + n
        /\ \A i \in Counter \ {c} : tally'[i] = tally[i]
    BY <2>1 DEF Raised
  <2>3. QED
    BY <2>1, <2>2, SumBump, CounterFinite
<1>2. SumFunction(Loads)' = SumFunction(Loads) - n
  <2>1. /\ SumFunction(Loads)' = SumFunction(Loads) + (Load(w)' - Load(w))
        /\ Load(w) \in Int /\ Load(w)' \in Int /\ SumFunction(Loads) \in Int
    BY OneLoad, SumTypes
  <2> DEFINE x == Load(w)'
             y == SumFunction(Loads)
  <2>2. SumFunction(Loads)' = y + (x - (x + n)) /\ x \in Int /\ y \in Int
    BY <2>1
  <2> HIDE DEF x, y
  <2>3. y + (x - (x + n)) = y - n
    BY <2>2
  <2>4. QED
    BY <2>2, <2>3 DEF y
<1>3. QED
  <2> DEFINE b == SumFunction(tally)
             l == SumFunction(Loads)
             d == Len(nic)
             e == Len(bufs)
  <2>1. b \in Int /\ l \in Int /\ d \in Nat /\ e \in Nat /\ missed \in Nat /\ ringFull \in Nat
    BY SumTypes
  <2>2. SumFunction(sent) = missed + ringFull + b + d + e + l
    BY DEF Account
  <2> HIDE DEF b, l, d, e
  <2>3. SumFunction(sent) = missed + ringFull + (b + n) + d + e + (l - n)
    BY <2>1, <2>2
  <2>4. QED
    BY <1>1, <1>2, <2>3 DEF Account, b, l, d, e

\* A burst moves from a ring to a worker.
LEMMA DequeueBurstAccount ==
  ASSUME TypeInv, TypeInv', PoolInv, Account, NEW w \in Worker, DequeueBurst(w)
  PROVE  Account'
<1>1. PICK k \in 0 .. Len(ring[w]) :
        /\ batch'[w] = Prefix(ring[w], k) /\ ring'[w] = Rest(ring[w], k)
        /\ todo'[w] = BusPositions(batch'[w])
        /\ wpc'[w] = (IF k = 0 THEN "top" ELSE "stages")
        /\ \A v \in Worker \ {w} :
             /\ batch'[v] = batch[v] /\ ring'[v] = ring[v]
             /\ todo'[v] = todo[v] /\ wpc'[v] = wpc[v]
  BY DequeueEffect DEF TypeInv
<1>2. /\ UNCHANGED <<sent, missed, ringFull, tally, nic, bufs, workerQueue>>
      /\ wpc[w] = "dequeue"
  BY DEF DequeueBurst, mainVars, statVars
<1>3. batch[w] = << >> /\ todo[w] = {}
  BY <1>2 DEF PoolInv, TypeInv, ControlInv
<1>4. ASSUME NEW v \in Worker \ {w} PROVE Load(v)' = Load(v)
  BY <1>1, <1>2 DEF Load, BusPositions
<1>5. Load(w)' = Load(w)
  <2> DEFINE l == Len(workerQueue[w])
             r == Len(ring[w])
             c == Cardinality(todo'[w])
  <2>1. l \in Nat /\ r \in Nat /\ k \in Nat
    BY LoadParts
  <2>2. Len(batch'[w]) = k /\ Len(ring'[w]) = r - k
    <3>1. ring[w] \in Seq(Frame)
      BY DEF TypeInv, TypeOK
    <3>2. Len(Prefix(ring[w], k)) = k /\ Len(Rest(ring[w], k)) = Len(ring[w]) - k
      BY <3>1, CutType
    <3>3. QED
      BY <1>1, <3>2
  <2>3. c \in Nat
    <3>1. IsFiniteSet(1 .. k)
      BY <2>1, FS_Interval
    <3>2. batch'[w] \in Seq(Frame)
      BY DEF TypeInv, TypeOK
    <3>3. todo'[w] \in SUBSET (1 .. k)
      BY <1>1, <2>2, <3>2, BusPositionsCount
    <3>4. QED
      BY <3>1, <3>3, FS_Subset, FS_CardinalityType
  <2>4. Load(w)' = l + (r - k) + (c + k - c)
    <3>1. wpc'[w] \notin {"storeIP", "free"}
      BY <1>1
    <3>2. Load(w)' = Len(workerQueue'[w]) + Len(ring'[w])
                     + (Cardinality(todo'[w]) + Len(batch'[w]) - Cardinality(BusPositions(batch'[w])))
      BY <3>1 DEF Load, BusPositions
    <3>3. QED
      BY <1>1, <1>2, <2>2, <3>2
  <2>5. Load(w) = l + r + (0 + 0 - 0)
    <3>1. Len(<< >>) = 0 /\ Cardinality({}) = 0 /\ BusPositions(<< >>) = {}
      BY EmptySeq, FS_EmptySet DEF BusPositions
    <3>2. Load(w) = l + r + (Cardinality({}) + Len(<< >>) - Cardinality(BusPositions(<< >>)))
      BY <1>2, <1>3 DEF Load
    <3>3. QED
      BY <3>1, <3>2
  <2> HIDE DEF l, r, c
  <2>6. l + (r - k) + (c + k - c) = l + r + (0 + 0 - 0)
    BY <2>1, <2>3
  <2>7. QED
    BY <2>4, <2>5, <2>6
<1>6. \A v \in Worker : Load(v)' = Load(v)
  BY <1>4, <1>5
<1>7. QED
  BY <1>2, <1>6, StillAccount

\* A stage counts one frame of the batch.
LEMMA StageFrameAccount ==
  ASSUME TypeInv, TypeInv', Account, NEW w \in Worker, NEW i \in todo[w], StageFrame(w, i)
  PROVE  Account'
<1>1. PICK c \in Counter : Raised(c, 1)
  BY StageFrameEffect DEF Raised
<1>2. /\ todo' = [todo EXCEPT ![w] = @ \ {i}] /\ wpc' = [wpc EXCEPT ![w] = "store"]
      /\ wpc[w] = "stages"
      /\ UNCHANGED <<sent, missed, ringFull, nic, bufs, workerQueue, ring, batch>>
  BY DEF StageFrame, mainVars
<1>3. /\ todo'[w] = todo[w] \ {i} /\ wpc'[w] = "store"
      /\ \A v \in Worker \ {w} : todo'[v] = todo[v] /\ wpc'[v] = wpc[v]
  BY <1>2 DEF TypeInv, TypeOK
<1>4. \A v \in Worker \ {w} : Load(v)' = Load(v)
  BY <1>2, <1>3 DEF Load, BusPositions
<1>5. Load(w) = Load(w)' + 1
  <2> DEFINE l == Len(workerQueue[w])
             r == Len(ring[w])
             b == Len(batch[w])
             d == Cardinality(BusPositions(batch[w]))
             t == Cardinality(todo[w])
  <2>1. l \in Nat /\ r \in Nat /\ b \in Nat /\ d \in Nat /\ t \in Nat /\ IsFiniteSet(todo[w])
    BY LoadParts
  <2>2. Cardinality(todo'[w]) = t - 1
    <3>1. Cardinality(todo[w] \ {i}) = Cardinality(todo[w]) - 1
      BY <2>1, FS_RemoveElement
    <3>2. QED
      BY <1>3, <3>1, Zenon
  <2>3. Load(w) = l + r + (t + b - d) /\ Load(w)' = l + r + ((t - 1) + b - d)
    <3>1. Load(w) = l + r + (t + b - d)
      BY <1>2 DEF Load
    <3>2. Load(w)' = l + r + (Cardinality(todo'[w]) + b - d)
      BY <1>2, <1>3 DEF Load, BusPositions
    <3>3. QED
      BY <2>2, <3>1, <3>2
  <2> HIDE DEF l, r, b, d, t
  <2>4. l + r + (t + b - d) = (l + r + ((t - 1) + b - d)) + 1
    BY <2>1
  <2>5. QED
    BY <2>3, <2>4
<1>6. UNCHANGED <<sent, missed, ringFull, nic, bufs>>
  BY <1>2
<1>7. QED
  BY <1>1, <1>4, <1>5, <1>6, CountedAccount

\* The IP stage counts what the router left over.
LEMMA IPStageAccount ==
  ASSUME TypeInv, TypeInv', Account, NEW w \in Worker, IPStage(w) PROVE Account'
<1> DEFINE num == Len(batch[w]) - Cardinality(BusPositions(batch[w]))
<1>1. num \in Nat
  BY BusPositionsCount DEF TypeInv, TypeOK
<1>2. /\ tally' = [tally EXCEPT !["pktToKernel"] = @ + num]
      /\ todo[w] = {} /\ wpc[w] = "stages" /\ wpc' = [wpc EXCEPT ![w] = "storeIP"]
      /\ UNCHANGED <<sent, missed, ringFull, nic, bufs, workerQueue, ring, batch, todo>>
  BY DEF IPStage, mainVars
<1>3. wpc'[w] = "storeIP" /\ \A v \in Worker \ {w} : wpc'[v] = wpc[v]
  BY <1>2 DEF TypeInv, TypeOK
<1>4. \A v \in Worker \ {w} : Load(v)' = Load(v)
  BY <1>2, <1>3 DEF Load, BusPositions
<1>5. Load(w) = Load(w)' + num
  <2> DEFINE l == Len(workerQueue[w])
             r == Len(ring[w])
             b == Len(batch[w])
             d == Cardinality(BusPositions(batch[w]))
  <2>1. l \in Nat /\ r \in Nat /\ b \in Nat /\ d \in Nat
    BY LoadParts
  <2>2. Load(w) = l + r + (0 + b - d) /\ Load(w)' = l + r + 0
    <3>1. Load(w) = l + r + (Cardinality({}) + b - d) /\ Cardinality({}) = 0
      BY <1>2, FS_EmptySet DEF Load
    <3>2. Load(w)' = l + r + 0
      BY <1>2, <1>3 DEF Load
    <3>3. QED
      BY <3>1, <3>2
  <2>3. num = b - d
    OBVIOUS
  <2> HIDE DEF l, r, b, d, num
  <2>4. l + r + (0 + b - d) = (l + r + 0) + (b - d)
    BY <2>1
  <2>5. QED
    BY <2>2, <2>3, <2>4
<1>6. /\ UNCHANGED <<sent, missed, ringFull, nic, bufs>> /\ "pktToKernel" \in Counter
      /\ Raised("pktToKernel", num)
  BY <1>2 DEF Counter, Raised
<1> HIDE DEF num
<1>7. QED
  BY <1>1, <1>4, <1>5, <1>6, CountedAccount

\* A freed batch was counted.
LEMMA FreeBulkAccount ==
  ASSUME TypeInv, Account, NEW w \in Worker, FreeBulk(w) PROVE Account'
<1>1. /\ batch'[w] = << >> /\ wpc'[w] = "top" /\ wpc[w] = "free" /\ todo[w] = {}
      /\ \A v \in Worker \ {w} : batch'[v] = batch[v] /\ wpc'[v] = wpc[v]
      /\ UNCHANGED <<sent, missed, ringFull, tally, nic, bufs, workerQueue, ring, todo>>
  BY DEF FreeBulk, TypeInv, TypeOK, ControlInv, mainVars, statVars
<1>2. Load(w)' = Load(w)
  <2>1. Len(<< >>) = 0 /\ Cardinality({}) = 0 /\ BusPositions(<< >>) = {}
    BY EmptySeq, FS_EmptySet DEF BusPositions
  <2> DEFINE l == Len(workerQueue[w])
             r == Len(ring[w])
  <2>2. Load(w)' = l + r + (Cardinality({}) + Len(<< >>) - Cardinality(BusPositions(<< >>)))
    BY <1>1 DEF Load, BusPositions
  <2>3. Load(w)' = l + r + (0 + 0 - 0)
    BY <2>1, <2>2
  <2>4. Load(w) = l + r + 0
    BY <1>1 DEF Load
  <2>5. l \in Nat /\ r \in Nat
    BY LoadParts
  <2>6. QED
    BY <2>3, <2>4, <2>5
<1>3. \A v \in Worker : Load(v)' = Load(v)
  <2> TAKE v \in Worker
  <2>1. CASE v = w
    BY <2>1, <1>2
  <2>2. CASE v # w
    BY <2>2, <1>1 DEF Load, BusPositions
  <2>3. QED
    BY <2>1, <2>2
<1>4. QED
  BY <1>1, <1>3, StillAccount

\* Steps of a worker that move no frame and keep it on its side of the count.
LEMMA TurnAccount ==
  ASSUME TypeInv, Account,
         UNCHANGED <<sent, missed, ringFull, tally, nic, bufs, workerQueue, ring, batch, todo>>,
         \A v \in Worker : wpc'[v] \in {"storeIP", "free"} <=> wpc[v] \in {"storeIP", "free"}
  PROVE  Account'
<1>1. \A v \in Worker : Load(v)' = Load(v)
  BY DEF Load, BusPositions
<1>2. QED
  BY <1>1, StillAccount

\* The account holds until the port is stopped.
AccountInv == mpc \notin {"stopped", "exit"} => Account

\* Every step keeps the account.
LEMMA AccountStep ==
  TypeInv /\ TypeInv' /\ PoolInv /\ AccountInv /\ [Next]_vars => AccountInv'
<1> SUFFICES ASSUME TypeInv, TypeInv', PoolInv, AccountInv, [Next]_vars,
                    mpc' \notin {"stopped", "exit"}
             PROVE  Account'
  BY DEF AccountInv
<1>0. mpc \notin {"stopped", "exit"} /\ Account
  <2>1. mpc \notin {"stopped", "exit"}
    <3>1. CASE \E s \in Source, v \in Verdict : Arrive(s, v)
      BY <3>1 DEF Arrive
    <3>2. CASE Stop
      BY <3>2 DEF Stop, mainVars
    <3>3. CASE Main
      BY <3>3 DEF Main, MainCheck, RxBurst, Dispatch, EnqueueBurst, EthStop, WaitLcores
    <3>4. ASSUME NEW w \in Worker, WorkerStep(w) PROVE mpc' = mpc
      BY <3>4 DEF WorkerStep, WorkerCheck, DequeueBurst, StageFrame, IPStage, StoreCounter,
                  FreeBulk, mainVars
    <3>5. CASE UNCHANGED vars
      BY <3>5 DEF vars, mainVars
    <3>6. QED
      BY <3>1, <3>2, <3>3, <3>4, <3>5 DEF Next, Exited
  <2>2. QED
    BY <2>1 DEF AccountInv
<1>1. CASE \E s \in Source, v \in Verdict : Arrive(s, v)
  BY <1>0, <1>1, ArriveAccount
<1>2. CASE Stop
  BY <1>0, <1>2, TurnAccount DEF Stop, mainVars, workerVars, statVars
<1>3. CASE Main
  <2>1. CASE MainCheck
    BY <1>0, <2>1, TurnAccount DEF MainCheck, workerVars, statVars
  <2>2. ~EthStop /\ ~WaitLcores
    BY DEF EthStop, WaitLcores
  <2>3. QED
    BY <1>0, <1>3, <2>1, <2>2, RxBurstAccount, DispatchAccount, EnqueueBurstAccount DEF Main
<1>4. ASSUME NEW w \in Worker, WorkerStep(w) PROVE Account'
  <2>0. wpc \in [Worker -> WorkerPc]
    BY DEF TypeInv, TypeOK
  <2>1. CASE WorkerCheck(w)
    <3>1. /\ UNCHANGED <<sent, missed, ringFull, tally, nic, bufs, workerQueue, ring, batch, todo>>
          /\ wpc[w] = "top" /\ wpc'[w] \in {"dequeue", "done"}
          /\ \A v \in Worker \ {w} : wpc'[v] = wpc[v]
      BY <2>0, <2>1 DEF WorkerCheck, mainVars, statVars
    <3>2. QED
      BY <1>0, <3>1, TurnAccount
  <2>2. CASE StoreCounter(w)
    <3>1. /\ UNCHANGED <<sent, missed, ringFull, tally, nic, bufs, workerQueue, ring, batch, todo>>
          /\ wpc[w] \in {"store", "storeIP"}
          /\ wpc'[w] = (IF wpc[w] = "store" THEN "stages" ELSE "free")
          /\ \A v \in Worker \ {w} : wpc'[v] = wpc[v]
      BY <2>0, <2>2 DEF StoreCounter, mainVars
    <3>2. QED
      BY <1>0, <3>1, TurnAccount
  <2>3. QED
    BY <1>0, <1>4, <2>1, <2>2, DequeueBurstAccount, StageFrameAccount, IPStageAccount,
       FreeBulkAccount DEF WorkerStep
<1>5. CASE UNCHANGED vars
  BY <1>0, <1>5, TurnAccount DEF vars, mainVars, workerVars, statVars
<1>6. QED
  BY <1>1, <1>2, <1>3, <1>4, <1>5 DEF Next, Exited

\* The number of published frames is at every moment the sum of what was
\* missed by the port, lost at a full ring, counted by a stage and is still
\* queued: no frame is lost without a counter that says so, and none is
\* counted twice.
THEOREM FramesAreAccounted == Spec => []FrameAccounting
<1>1. Init => AccountInv
  BY InitAccount DEF AccountInv
<1>2. TypeInv /\ TypeInv' /\ PoolInv /\ AccountInv /\ [Next]_vars => AccountInv'
  BY AccountStep
<1>3. AccountInv => FrameAccounting
  BY DEF AccountInv, Account, FrameAccounting, Loads, Load
<1>4. Spec => []PoolInv
  BY InitPool, PoolStep, Inductive, PTL DEF Spec
<1>5. QED
  BY <1>1, <1>2, <1>3, <1>4, Inductive, PTL DEF Spec

-----------------------------------------------------------------------------
(* A gap is a loss.                                                        *)

\* The samples of a second fill whole frames, and their count fits its field:
\* 4000 samples in frames of one and 12800 in frames of eight in the code.
WholeFrames(s) ==
  /\ NumASDU[s] # 0 /\ SmpFreq[s] % NumASDU[s] = 0 /\ SmpFreq[s] <= SeqMod

\* The first sample of a frame, without the width of the field.
LEMMA SampleValue ==
  ASSUME NEW m \in Nat, NEW num \in Nat \ {0}, NEW k \in Nat \ {0}
  PROVE  (m * num) % (k * num) = (m % k) * num
<1> DEFINE q == m \div k
           r == m % k
<1>1. q \in Nat /\ r \in Nat /\ r < k /\ m = k * q + r
  BY Numbers!DivMod
<1> HIDE DEF q, r
<1>2. k * num \in Nat \ {0} /\ r * num \in Nat /\ m * num \in Nat
  BY <1>1
<1>3. m * num = (k * num) * q + r * num
  <2>1. (k * q + r) * num = (k * num) * q + r * num
    BY <1>1
  <2>2. QED
    BY <1>1, <2>1
<1>4. r * num < k * num
  <2>1. num * r + num <= num * k
    BY <1>1, Numbers!Monotonic
  <2>2. num * r = r * num /\ num * k = k * num
    BY <1>1
  <2>3. QED
    BY <1>2, <2>1, <2>2
<1>5. (m * num) % (k * num) = r * num
  <2> DEFINE p == k * num
             a == m * num
             b == r * num
  <2>1. p \in Nat \ {0} /\ b \in Nat /\ a \in Nat /\ a = p * q + b /\ b < p
    BY <1>2, <1>3, <1>4
  <2> HIDE DEF p, a, b
  <2>2. a % p = b
    BY <1>1, <2>1, Numbers!ModUnique
  <2>3. QED
    BY <2>2 DEF p, a, b
<1>6. QED
  BY <1>5 DEF r

\* The sample number of the next frame follows on, or restarts at zero.
LEMMA NextSample ==
  ASSUME NEW s \in Source, WholeFrames(s), NEW n \in Nat \ {0}
  PROVE  /\ SmpCnt(s, 1) = 0
         /\ SmpCnt(s, n + 1) \in {0, Plus(SmpCnt(s, n), NumASDU[s])}
<1> DEFINE num == NumASDU[s]
           freq == SmpFreq[s]
           k == freq \div num
           r(m) == m % k
<1>1. num \in Nat \ {0} /\ freq \in Nat \ {0} /\ SeqMod \in Nat /\ SeqMod > 1
      /\ freq % num = 0 /\ freq <= SeqMod
  BY RSSAssumption, SeqModAssumption DEF WholeFrames
<1>2. k \in Nat \ {0} /\ freq = k * num
  <2> HIDE DEF num, freq
  <2>1. freq \div num \in Nat /\ freq = num * (freq \div num) + (freq % num)
    BY <1>1, Numbers!DivMod
  <2>2. freq = num * k + 0 /\ k \in Nat
    BY <1>1, <2>1
  <2> HIDE DEF k
  <2>3. num * k = k * num /\ num * k \in Nat
    BY <1>1, <2>2
  <2>4. k # 0
    BY <1>1, <2>2
  <2>5. QED
    BY <2>2, <2>3, <2>4
<1>3. \A m \in Nat : SmpCnt(s, m + 1) = ((m * num) % freq) % SeqMod
  <2> TAKE m \in Nat
  <2>1. (m + 1) - 1 = m
    OBVIOUS
  <2>2. SmpCnt(s, m + 1) = ((((m + 1) - 1) * num) % freq) % SeqMod
    BY Zenon DEF SmpCnt
  <2>3. QED
    BY <2>1, <2>2, Zenon
<1> HIDE DEF num, freq, k
<1>4. ASSUME NEW m \in Nat
      PROVE  /\ SmpCnt(s, m + 1) = r(m) * num /\ r(m) \in Nat /\ r(m) < k
             /\ r(m) * num \in Nat /\ r(m) * num + num <= SeqMod
  <2>1. r(m) \in Nat /\ r(m) < k
    BY <1>2, Numbers!DivMod
  <2>2. (m * num) % freq = r(m) * num
    <3>1. num \in Nat \ {0} /\ k \in Nat \ {0} /\ freq = k * num
      BY <1>1, <1>2, Zenon
    <3>2. (m * num) % (k * num) = (m % k) * num
      BY <3>1, SampleValue, Zenon
    <3>3. QED
      BY <3>1, <3>2, Zenon
  <2> DEFINE x == r(m)
  <2>3. x \in Nat /\ x < k
    BY <2>1
  <2> HIDE DEF x
  <2>4. x * num \in Nat /\ num * x + num <= num * k /\ num * x = x * num /\ num * k = k * num
    BY <1>1, <1>2, <2>3, Numbers!Monotonic
  <2>5. x * num + num <= freq
    BY <1>2, <2>4
  <2>6. x * num + num <= SeqMod /\ x * num < SeqMod
    <3> DEFINE y == x * num
    <3>1. y \in Nat /\ y + num <= freq
      BY <2>4, <2>5
    <3> HIDE DEF y
    <3>2. y + num <= SeqMod /\ y < SeqMod
      BY <1>1, <3>1
    <3>3. QED
      BY <3>2 DEF y
  <2>7. (x * num) % SeqMod = x * num
    <3> DEFINE y == x * num
    <3>1. y \in Nat /\ y < SeqMod /\ SeqMod \in Nat \ {0}
      BY <1>1, <2>4, <2>6
    <3> HIDE DEF y
    <3>2. y = SeqMod * 0 + y
      BY <1>1, <3>1
    <3>3. y % SeqMod = y
      BY <3>1, <3>2, Numbers!ModUnique
    <3>4. QED
      BY <3>3 DEF y
  <2>8. SmpCnt(s, m + 1) = ((m * num) % freq) % SeqMod
    BY <1>3
  <2>9. QED
    BY <2>2, <2>3, <2>4, <2>6, <2>7, <2>8 DEF x
<1>5. SmpCnt(s, 1) = 0
  <2>1. r(0) = 0
    BY <1>2
  <2>2. SmpCnt(s, 0 + 1) = r(0) * num
    BY <1>4
  <2>3. QED
    BY <1>1, <2>1, <2>2
<1>6. SmpCnt(s, n + 1) \in {0, Plus(SmpCnt(s, n), num)}
  <2>1. PICK m \in Nat : n = m + 1
    <3>1. n - 1 \in Nat /\ n = (n - 1) + 1
      OBVIOUS
    <3>2. QED
      BY <3>1
  <2>2. SmpCnt(s, n) = r(m) * num /\ SmpCnt(s, n + 1) = r(n) * num
    <3>1. SmpCnt(s, m + 1) = r(m) * num /\ SmpCnt(s, n + 1) = r(n) * num
      BY <1>4
    <3>2. QED
      BY <2>1, <3>1
  <2>3. r(n) = IF r(m) + 1 = k THEN 0 ELSE r(m) + 1
    BY <1>2, <2>1, Numbers!NextMod
  <2>4. r(m) \in Nat /\ r(m) * num \in Nat
    BY <1>4
  <2>5. CASE r(m) + 1 = k
    <3>1. r(n) = 0
      BY <2>3, <2>5
    <3>2. SmpCnt(s, n + 1) = 0 * num
      BY <2>2, <3>1
    <3>3. QED
      BY <1>1, <3>2
  <2>6. CASE r(m) + 1 # k
    <3>1. r(n) = r(m) + 1
      BY <2>3, <2>6
    <3> DEFINE x == r(m)
    <3>2. x \in Nat /\ x * num \in Nat /\ SmpCnt(s, n) = x * num
          /\ SmpCnt(s, n + 1) = (x + 1) * num
      BY <2>2, <2>4, <3>1
    <3>3. (x + 1) * num + num <= SeqMod
      <4>1. r(n) * num + num <= SeqMod
        BY <1>4
      <4>2. QED
        BY <3>1, <4>1
    <3> HIDE DEF x
    <3>4. (x + 1) * num = x * num + num /\ x * num + num \in Nat
      BY <1>1, <3>2
    <3> DEFINE z == x * num + num
    <3>5. z \in Nat /\ z < SeqMod /\ SeqMod \in Nat \ {0}
      <4>1. z \in Nat /\ z + num <= SeqMod
        BY <3>3, <3>4
      <4> HIDE DEF z
      <4>2. QED
        BY <1>1, <4>1
    <3>6. Plus(SmpCnt(s, n), num) = z % SeqMod
      BY <3>2 DEF Plus
    <3>7. SmpCnt(s, n + 1) = z
      BY <3>2, <3>4
    <3> HIDE DEF z
    <3>8. z = SeqMod * 0 + z
      BY <3>5
    <3>9. z % SeqMod = z
      BY <3>5, <3>8, Numbers!ModUnique
    <3>10. QED
      BY <3>6, <3>7, <3>9
  <2>7. QED
    BY <2>5, <2>6
<1>7. QED
  BY <1>5, <1>6 DEF num

\* The state number and the SPDU number of the next frame follow on.
LEMMA NextNumber ==
  ASSUME NEW n \in Nat
  PROVE  (n + 1) % SeqMod = Plus(n % SeqMod, 1)
<1>1. SeqMod \in Nat \ {0} /\ SeqMod > 1
  BY SeqModAssumption
<1> DEFINE r == n % SeqMod
<1>2. /\ r \in Nat /\ r < SeqMod
      /\ (n + 1) % SeqMod = IF r + 1 = SeqMod THEN 0 ELSE r + 1
  BY <1>1, Numbers!NextMod
<1> HIDE DEF r
<1>3. (r + 1) % SeqMod = IF r + 1 = SeqMod THEN 0 ELSE r + 1
  <2>1. r % SeqMod = r
    <3>1. r = SeqMod * 0 + r
      BY <1>1, <1>2
    <3>2. QED
      BY <1>1, <1>2, <3>1, Numbers!ModUnique
  <2>2. (r + 1) % SeqMod = IF (r % SeqMod) + 1 = SeqMod THEN 0 ELSE (r % SeqMod) + 1
    BY <1>1, <1>2, Numbers!NextMod
  <2>3. QED
    BY <2>1, <2>2
<1>4. QED
  BY <1>2, <1>3 DEF r, Plus

\* The tracker t of source s has seen its frame l last and d frames in all:
\* it holds the numbers of that frame, and counts no more errors than frames
\* are missing up to it.
Seen(t, s, l, d) ==
  /\ t.errSeq + d <= l /\ t.errSpdu + d <= l
  /\ IsRoutable(Proto[s]) => t.spdu = SpduNumber(l)
  /\ IsGoose(Proto[s]) => t.seq = StNum(l)
  /\ Proto[s] \in {"SV", "R_SV"} => t.seq = IF l = 0 THEN 0 ELSE SmpCnt(s, l)

\* What a sequence check adds to its error counter.
LEMMA FieldsOf ==
  ASSUME NEW t \in Tracker, NEW n, NEW num
  PROVE  /\ ProcessSessionState(t, n).spdu = n /\ ProcessSessionState(t, n).seq = t.seq
         /\ ProcessSessionState(t, n).errSeq = t.errSeq
         /\ ProcessSessionState(t, n).errSpdu =
              IF t.spdu # 0 /\ n # Plus(t.spdu, 1) THEN t.errSpdu + 1 ELSE t.errSpdu
         /\ GooseProcessState(t, n).seq = n /\ GooseProcessState(t, n).spdu = t.spdu
         /\ GooseProcessState(t, n).errSpdu = t.errSpdu
         /\ GooseProcessState(t, n).errSeq =
              IF n # t.seq /\ n # Plus(t.seq, 1) THEN t.errSeq + 1 ELSE t.errSeq
         /\ SVProcessState(t, n, num).seq = n /\ SVProcessState(t, n, num).spdu = t.spdu
         /\ SVProcessState(t, n, num).errSpdu = t.errSpdu
         /\ SVProcessState(t, n, num).errSeq =
              IF n # Plus(t.seq, num) /\ n # 0 THEN t.errSeq + 1 ELSE t.errSeq
BY DEF Tracker, ProcessSessionState, GooseProcessState, SVProcessState

\* One more error only when a frame was skipped.
LEMMA ErrorBound ==
  ASSUME NEW e \in Nat, NEW x \in Nat, NEW d \in Nat, NEW l \in Nat, NEW n \in Nat, l < n,
         e + d <= l, x \in {e, e + 1}, n = l + 1 => x = e
  PROVE  x + (d + 1) <= n
<1>1. CASE n = l + 1
  BY <1>1
<1>2. CASE n # l + 1
  BY <1>2
<1>3. QED
  BY <1>1, <1>2

\* The session number of frame n after frame l.
LEMMA SessionSeen ==
  ASSUME NEW t \in Tracker, NEW l \in Nat, NEW n \in Nat, t.spdu = SpduNumber(l)
  PROVE  LET u == ProcessSessionState(t, SpduNumber(n)) IN
         /\ u.errSpdu \in {t.errSpdu, t.errSpdu + 1}
         /\ n = l + 1 => u.errSpdu = t.errSpdu
<1>1. n = l + 1 => SpduNumber(n) = Plus(t.spdu, 1)
  BY NextNumber DEF SpduNumber
<1>2. QED
  BY <1>1, FieldsOf

\* The state number of frame n after frame l.
LEMMA GooseSeen ==
  ASSUME NEW t \in Tracker, NEW l \in Nat, NEW n \in Nat, t.seq = StNum(l)
  PROVE  LET u == GooseProcessState(t, StNum(n)) IN
         /\ u.errSeq \in {t.errSeq, t.errSeq + 1}
         /\ n = l + 1 => u.errSeq = t.errSeq
<1>1. n = l + 1 => StNum(n) = Plus(t.seq, 1)
  BY NextNumber DEF StNum
<1>2. QED
  BY <1>1, FieldsOf

\* The sample number of frame n after frame l.
LEMMA SampleSeen ==
  ASSUME NEW t \in Tracker, NEW s \in Source, WholeFrames(s), NEW l \in Nat, NEW n \in Nat,
         t.seq = IF l = 0 THEN 0 ELSE SmpCnt(s, l)
  PROVE  LET u == SVProcessState(t, SmpCnt(s, n), NumASDU[s]) IN
         /\ u.errSeq \in {t.errSeq, t.errSeq + 1}
         /\ n = l + 1 => u.errSeq = t.errSeq
<1>1. ASSUME n = l + 1 PROVE SmpCnt(s, n) \in {0, Plus(t.seq, NumASDU[s])}
  <2>1. CASE l = 0
    <3>1. SmpCnt(s, 1) = 0
      BY NextSample
    <3>2. QED
      BY <1>1, <2>1, <3>1
  <2>2. CASE l # 0
    <3>1. l \in Nat \ {0} /\ t.seq = SmpCnt(s, l)
      BY <2>2
    <3>2. SmpCnt(s, l + 1) \in {0, Plus(SmpCnt(s, l), NumASDU[s])}
      BY <3>1, NextSample
    <3>3. QED
      BY <1>1, <3>1, <3>2
  <2>3. QED
    BY <2>1, <2>2
<1>2. QED
  BY <1>1, FieldsOf

\* A tracker that is handed a newer frame counts at most one error, and none
\* for the next frame.
LEMMA TrackSeen ==
  ASSUME NEW s \in Source, Proto[s] \in BusProto,
         Proto[s] \in {"SV", "R_SV"} => WholeFrames(s),
         NEW t \in Tracker, NEW l \in Nat, NEW d \in Nat, NEW n \in Nat \ {0}, l < n,
         Seen(t, s, l, d)
  PROVE  Seen(Track(t, s, n), s, n, d + 1)
<1> DEFINE u == IF IsRoutable(Proto[s]) THEN ProcessSessionState(t, SpduNumber(n)) ELSE t
           v == Track(t, s, n)
<1>1. /\ t.errSeq + d <= l /\ t.errSpdu + d <= l
      /\ IsRoutable(Proto[s]) => t.spdu = SpduNumber(l)
      /\ IsGoose(Proto[s]) => t.seq = StNum(l)
      /\ Proto[s] \in {"SV", "R_SV"} => t.seq = IF l = 0 THEN 0 ELSE SmpCnt(s, l)
  BY DEF Seen
<1>2. t.errSeq \in Nat /\ t.errSpdu \in Nat
  BY ErrorFields
<1>3. SpduNumber(n) \in SeqNum /\ StNum(n) \in SeqNum /\ SmpCnt(s, n) \in SeqNum
  BY FieldType
<1>4. /\ u \in Tracker /\ u.seq = t.seq /\ u.errSeq = t.errSeq
      /\ u.errSpdu \in {t.errSpdu, t.errSpdu + 1}
      /\ n = l + 1 => u.errSpdu = t.errSpdu
      /\ IsRoutable(Proto[s]) => u.spdu = SpduNumber(n)
  <2>1. CASE IsRoutable(Proto[s])
    <3>1. u = ProcessSessionState(t, SpduNumber(n)) /\ t.spdu = SpduNumber(l)
      BY <2>1, <1>1
    <3>2. ProcessSessionState(t, SpduNumber(n)) \in Tracker
      BY <1>3, SessionType
    <3> DEFINE p == ProcessSessionState(t, SpduNumber(n))
    <3>3. p.seq = t.seq /\ p.errSeq = t.errSeq /\ p.spdu = SpduNumber(n)
      BY FieldsOf
    <3>4. p.errSpdu \in {t.errSpdu, t.errSpdu + 1} /\ (n = l + 1 => p.errSpdu = t.errSpdu)
      BY <3>1, SessionSeen
    <3>5. u = p /\ p \in Tracker
      BY <3>1, <3>2
    <3> HIDE DEF p, u
    <3>6. QED
      BY <3>3, <3>4, <3>5
  <2>2. CASE ~IsRoutable(Proto[s])
    BY <2>2
  <2>3. QED
    BY <2>1, <2>2
<1>5. CASE IsGoose(Proto[s])
  <2>1. v = GooseProcessState(u, StNum(n)) /\ u.seq = StNum(l)
    BY <1>1, <1>4, <1>5 DEF Track
  <2>2. ~(Proto[s] \in {"SV", "R_SV"})
    BY <1>5 DEF IsGoose
  <2> HIDE DEF u, v
  <2>3. /\ v.seq = StNum(n) /\ v.spdu = u.spdu /\ v.errSpdu = u.errSpdu
        /\ v.errSeq \in {u.errSeq, u.errSeq + 1}
        /\ n = l + 1 => v.errSeq = u.errSeq
    <3> DEFINE p == GooseProcessState(u, StNum(n))
    <3>1. p.seq = StNum(n) /\ p.spdu = u.spdu /\ p.errSpdu = u.errSpdu
      BY <1>4, FieldsOf
    <3>2. p.errSeq \in {u.errSeq, u.errSeq + 1} /\ (n = l + 1 => p.errSeq = u.errSeq)
      BY <1>4, <2>1, GooseSeen
    <3>3. v = p
      BY <2>1
    <3> HIDE DEF p
    <3>4. QED
      BY <3>1, <3>2, <3>3
  <2>4. v.errSeq \in Nat /\ v.errSpdu \in Nat
    BY <1>2, <1>4, <2>3
  <2>5. v.errSeq + (d + 1) <= n /\ v.errSpdu + (d + 1) <= n
    BY <1>1, <1>2, <1>4, <2>3, <2>4, ErrorBound
  <2>6. Seen(v, s, n, d + 1)
    BY <1>4, <2>2, <2>3, <2>5 DEF Seen
  <2>7. QED
    BY <2>6 DEF v
<1>6. CASE ~IsGoose(Proto[s])
  <2>1. Proto[s] \in {"SV", "R_SV"}
    BY <1>6 DEF IsGoose, BusProto
  <2>2. v = SVProcessState(u, SmpCnt(s, n), NumASDU[s])
    BY <1>6 DEF Track
  <2>3. u.seq = IF l = 0 THEN 0 ELSE SmpCnt(s, l)
    BY <1>1, <1>4, <2>1
  <2> HIDE DEF u, v
  <2>4. /\ v.seq = SmpCnt(s, n) /\ v.spdu = u.spdu /\ v.errSpdu = u.errSpdu
        /\ v.errSeq \in {u.errSeq, u.errSeq + 1}
        /\ n = l + 1 => v.errSeq = u.errSeq
    <3> DEFINE p == SVProcessState(u, SmpCnt(s, n), NumASDU[s])
    <3>1. p.seq = SmpCnt(s, n) /\ p.spdu = u.spdu /\ p.errSpdu = u.errSpdu
      BY <1>4, FieldsOf
    <3>2. p.errSeq \in {u.errSeq, u.errSeq + 1} /\ (n = l + 1 => p.errSeq = u.errSeq)
      BY <1>4, <2>1, <2>3, SampleSeen
    <3>3. v = p
      BY <2>2
    <3> HIDE DEF p
    <3>4. QED
      BY <3>1, <3>2, <3>3
  <2>5. v.errSeq \in Nat /\ v.errSpdu \in Nat
    BY <1>2, <1>4, <2>4
  <2>6. v.errSeq + (d + 1) <= n /\ v.errSpdu + (d + 1) <= n
    BY <1>1, <1>2, <1>4, <2>4, <2>5, ErrorBound
  <2>7. Seen(v, s, n, d + 1)
    BY <1>4, <1>6, <2>4, <2>6 DEF Seen
  <2>8. QED
    BY <2>7 DEF v
<1>7. QED
  BY <1>5, <1>6

\* Every tracker is at the last frame it was handed.
SeenInv == \A s \in Source : Seen(trk[s], s, lastN[s], delivered[s])

\* A new tracker has seen nothing.
LEMMA InitSeen == Init => SeenInv
<1> SUFFICES ASSUME Init, NEW s \in Source PROVE Seen(trk[s], s, lastN[s], delivered[s])
  BY DEF SeenInv
<1>1. trk[s] = NewTracker /\ lastN[s] = 0 /\ delivered[s] = 0
  BY DEF Init
<1>2. 0 % SeqMod = 0
  <2>1. SeqMod \in Nat \ {0} /\ 0 = SeqMod * 0 + 0
    BY SeqModAssumption
  <2>2. QED
    BY <2>1
<1>3. Seen(NewTracker, s, 0, 0)
  BY <1>2 DEF Seen, NewTracker, SpduNumber, StNum
<1>4. QED
  BY <1>1, <1>3

\* A stage hands its tracker a newer frame.
LEMMA StageFrameSeen ==
  ASSUME \A s \in Source : Proto[s] \in {"SV", "R_SV"} => WholeFrames(s),
         TypeInv, OrderInv, SeenInv, NEW w \in Worker, NEW i \in todo[w], StageFrame(w, i)
  PROVE  SeenInv'
<1> DEFINE f == batch[w][i]
<1>1. /\ f \in Frame /\ Proto[f.src] \in BusProto
      /\ \/ /\ trk' = [trk EXCEPT ![f.src] = Track(@, f.src, f.n)]
            /\ lastN' = [lastN EXCEPT ![f.src] = f.n]
            /\ delivered' = [delivered EXCEPT ![f.src] = @ + 1]
         \/ UNCHANGED <<trk, lastN, delivered>>
  BY StageFrameEffect
<1>2. lastN[f.src] < f.n
  <2>1. f \in Unhandled(w)
    BY DEF Unhandled
  <2>2. QED
    BY <2>1 DEF OrderInv, Unseen
<1> HIDE DEF f
<1>3. f.src \in Source /\ f.n \in Nat \ {0}
  BY <1>1 DEF Frame
<1>4. trk \in [Source -> Tracker] /\ lastN \in [Source -> Nat] /\ delivered \in [Source -> Nat]
  BY DEF TypeInv, TypeOK
<1> DEFINE s == f.src
<1>5. Seen(Track(trk[s], s, f.n), s, f.n, delivered[s] + 1)
  <2>1. Seen(trk[s], s, lastN[s], delivered[s])
    BY <1>3 DEF SeenInv
  <2>2. trk[s] \in Tracker /\ lastN[s] \in Nat /\ delivered[s] \in Nat
    BY <1>3, <1>4
  <2>3. Proto[s] \in {"SV", "R_SV"} => WholeFrames(s)
    BY <1>3
  <2>4. QED
    BY <1>1, <1>2, <1>3, <2>1, <2>2, <2>3, TrackSeen
<1>6. CASE UNCHANGED <<trk, lastN, delivered>>
  BY <1>6 DEF SeenInv
<1>7. CASE /\ trk' = [trk EXCEPT ![f.src] = Track(@, f.src, f.n)]
           /\ lastN' = [lastN EXCEPT ![f.src] = f.n]
           /\ delivered' = [delivered EXCEPT ![f.src] = @ + 1]
  <2> SUFFICES ASSUME NEW r \in Source PROVE Seen(trk'[r], r, lastN'[r], delivered'[r])
    BY DEF SeenInv
  <2>1. CASE r = s
    <3>1. /\ trk'[r] = Track(trk[s], s, f.n) /\ lastN'[r] = f.n
          /\ delivered'[r] = delivered[s] + 1
      BY <2>1, <1>3, <1>4, <1>7
    <3>2. QED
      BY <2>1, <3>1, <1>5
  <2>2. CASE r # s
    <3>1. trk'[r] = trk[r] /\ lastN'[r] = lastN[r] /\ delivered'[r] = delivered[r]
      BY <2>2, <1>3, <1>4, <1>7
    <3>2. QED
      BY <3>1 DEF SeenInv
  <2>3. QED
    BY <2>1, <2>2
<1>8. QED
  BY <1>1, <1>6, <1>7

\* Every other step leaves the trackers alone.
LEMMA SeenStep ==
  ASSUME \A s \in Source : Proto[s] \in {"SV", "R_SV"} => WholeFrames(s)
  PROVE  TypeInv /\ OrderInv /\ SeenInv /\ [Next]_vars => SeenInv'
<1> SUFFICES ASSUME TypeInv, OrderInv, SeenInv, [Next]_vars PROVE SeenInv'
  OBVIOUS
<1>1. ASSUME UNCHANGED <<trk, lastN, delivered>> PROVE SeenInv'
  BY <1>1 DEF SeenInv
<1>2. CASE \E s \in Source, v \in Verdict : Arrive(s, v)
  BY <1>1, <1>2 DEF Arrive, statVars
<1>3. CASE Stop
  BY <1>1, <1>3 DEF Stop, statVars
<1>4. CASE Main
  <2>1. UNCHANGED <<trk, lastN, delivered>>
    BY <1>4 DEF Main, MainCheck, RxBurst, Dispatch, EnqueueBurst, NextQueue, EthStop,
                WaitLcores, statVars
  <2>2. QED
    BY <1>1, <2>1
<1>5. ASSUME NEW w \in Worker, WorkerStep(w) PROVE SeenInv'
  <2>1. ASSUME NEW i \in todo[w], StageFrame(w, i) PROVE SeenInv'
    BY <2>1, StageFrameSeen
  <2>2. CASE WorkerCheck(w) \/ DequeueBurst(w) \/ IPStage(w) \/ StoreCounter(w) \/ FreeBulk(w)
    <3>1. UNCHANGED <<trk, lastN, delivered>>
      BY <2>2 DEF WorkerCheck, DequeueBurst, IPStage, StoreCounter, FreeBulk, statVars
    <3>2. QED
      BY <1>1, <3>1
  <2>3. QED
    BY <1>5, <2>1, <2>2 DEF WorkerStep
<1>6. CASE UNCHANGED vars
  BY <1>1, <1>6 DEF vars, statVars
<1>7. QED
  BY <1>2, <1>3, <1>4, <1>5, <1>6 DEF Next, Exited

\* A tracker reports no gap that is not a loss, whatever the port, a full ring
\* or a rejected frame took out of its stream and however often its numbers
\* wrap, provided that the samples of a second fill whole frames.
THEOREM GapsAreRealLosses ==
  ASSUME \A s \in Source : Proto[s] \in {"SV", "R_SV"} => WholeFrames(s)
  PROVE  Spec => []GapsAreLosses
<1>1. TypeInv /\ OrderInv /\ SeenInv /\ [Next]_vars => SeenInv'
  BY SeenStep
<1>2. TypeInv /\ SeenInv => GapsAreLosses
  <2> SUFFICES ASSUME TypeInv, SeenInv, NEW s \in Source
               PROVE  Gaps(trk[s]) <= lastN[s] - delivered[s]
    BY DEF GapsAreLosses
  <2>1. trk[s].errSeq + delivered[s] <= lastN[s] /\ trk[s].errSpdu + delivered[s] <= lastN[s]
    BY DEF SeenInv, Seen
  <2>2. trk[s] \in Tracker /\ delivered[s] \in Nat /\ lastN[s] \in Nat
    BY DEF TypeInv, TypeOK
  <2>3. trk[s].errSeq \in Nat /\ trk[s].errSpdu \in Nat
    BY <2>2, ErrorFields
  <2>4. QED
    BY <2>1, <2>2, <2>3 DEF Gaps
<1>3. QED
  BY <1>1, <1>2, InitSeen, Inductive, PTL DEF Spec
=============================================================================
