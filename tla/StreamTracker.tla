---------------------------- MODULE StreamTracker ----------------------------
(***************************************************************************)
(* The per-stream sequence bookkeeping of the processor: the State part of *)
(* GooseSource and SVStreamSource (stNum or smpCnt, the SPDU number of the *)
(* routable session, and the two error counters they feed).                *)
(*                                                                         *)
(* The two classes keep the same four numbers, so one record stands for    *)
(* both: `seq' is m_stNum of a GOOSE source and m_smpCnt of an SV source.  *)
(* The numbers are unsigned 32-bit in the code; SeqMod is that modulus.    *)
(* The error counters are left unbounded.                                  *)
(***************************************************************************)
EXTENDS Integers

CONSTANT SeqMod     \* 2^32 in the code: stNum, smpCnt and the SPDU number wrap

ASSUME SeqModAssumption == SeqMod \in Nat /\ SeqMod > 1

SeqNum == 0 .. SeqMod - 1

Tracker == [spdu : SeqNum, errSpdu : Nat, seq : SeqNum, errSeq : Nat]

NewTracker == [spdu |-> 0, errSpdu |-> 0, seq |-> 0, errSeq |-> 0]

\* Unsigned addition of the code.
Plus(a, b) == (a + b) % SeqMod

\* Zero stands for "no SPDU seen yet".
ProcessSessionState(t, spduNumber) ==
  [t EXCEPT !.errSpdu = IF t.spdu # 0 /\ spduNumber # Plus(t.spdu, 1)
                          THEN t.errSpdu + 1 ELSE t.errSpdu,
            !.spdu = spduNumber]

\* Faulty variant: only a step back counts.
GooseProcessStateBack(t, stNum) ==
  [t EXCEPT !.errSeq = IF stNum < t.seq THEN t.errSeq + 1 ELSE t.errSeq,
            !.seq = stNum]

\* A repeated stNum is a retransmission, the next one a new state.
GooseProcessState(t, stNum) ==
  [t EXCEPT !.errSeq = IF stNum # t.seq /\ stNum # Plus(t.seq, 1)
                         THEN t.errSeq + 1 ELSE t.errSeq,
            !.seq = stNum]

\* Faulty variant: the restart of the sample counter is not exempt.
SVProcessStateStrict(t, smpCnt, num) ==
  [t EXCEPT !.errSeq = IF smpCnt # Plus(t.seq, num) THEN t.errSeq + 1 ELSE t.errSeq,
            !.seq = smpCnt]

\* num is the number of ASDUs in the frame; smpCnt = 0 is always accepted,
\* as the sample counter restarts every second.
SVProcessState(t, smpCnt, num) ==
  [t EXCEPT !.errSeq = IF smpCnt # Plus(t.seq, num) /\ smpCnt # 0
                         THEN t.errSeq + 1 ELSE t.errSeq,
            !.seq = smpCnt]

\* What CountGaps adds up for one stream.
Gaps(t) == IF t.errSeq > t.errSpdu THEN t.errSeq ELSE t.errSpdu
=============================================================================
