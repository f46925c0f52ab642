---------------------------- MODULE SvApduProofs ----------------------------
(***************************************************************************)
(* Proofs about SvApdu, for every APDU that can be received and every      *)
(* number of channels: the walk never reads outside the TLV it is in, and  *)
(* its verdict and what it leaves to the caller are what the form of the   *)
(* APDU as a whole demands.                                                *)
(***************************************************************************)
EXTENDS SvApdu, SequenceTheorems, FiniteSetTheorems, TLAPS

Numbers == INSTANCE NumberFacts


\* The ends are nested, and the place is before the end that the next TLV has
\* to respect.  EndAsdu reads the identifier of the first ASDU again: it lies
\* before the end of the present one.
Nested ==
  /\ pduEnd <= Len(apdu) /\ sequenceEnd <= pduEnd /\ asduEnd <= sequenceEnd
  /\ pc \in {"pdu", "noASDU", "sequence"} => asduEnd = 0 /\ sequenceEnd = 0 /\ actualAsdus = 0
  /\ pc = "pdu" => pos <= Len(apdu)
  /\ pc \in {"noASDU", "sequence"} => pos <= pduEnd
  /\ pc = "asdu" => asduEnd <= pos /\ pos <= sequenceEnd /\ actualAsdus <= pos
  /\ pc = "field" => pos <= asduEnd /\ actualAsdus + 1 <= pos /\ svid[2] <= pos
  /\ passport.svid[2] <= asduEnd

Typed ==
  /\ apdu \in Seq(0 .. 255)
  /\ pc \in Stage
  /\ pos \in Nat /\ pduEnd \in Nat /\ sequenceEnd \in Nat /\ asduEnd \in Nat
  /\ pos <= Len(apdu)
  /\ previousTag \in 0 .. 255 /\ found \subseteq 128 .. 136
  /\ svid \in Nat \X Nat /\ confRev \in Half \X Half
  /\ actualAsdus \in Nat /\ actualAsdus <= Len(apdu)
  /\ passport \in [num : Half, svid : Nat \X Nat, crev : Half \X Half]
  /\ verdict \in Verdict \cup {1} /\ (pc = "done" <=> verdict # 1)
  /\ bound \in Nat

IInv == Typed /\ Nested /\ ReadsInside

-----------------------------------------------------------------------------
(* Reading bytes.                                                          *)

\* A byte is a byte, also where there is none.
LEMMA ByteType ==
  ASSUME NEW buf \in Seq(0 .. 255), NEW p \in Int
  PROVE  Byte(buf, p) \in 0 .. 255
<1>1. CASE p \in 0 .. Len(buf) - 1
  <2>1. Len(buf) \in Nat BY LenProperties
  <2>2. p + 1 \in 1 .. Len(buf) BY <1>1, <2>1
  <2>3. buf[p + 1] \in 0 .. 255 BY <2>2, ElementOfSeq, SMTT(30)
  <2> QED BY <1>1, <2>3 DEF Byte
<1>2. CASE p \notin 0 .. Len(buf) - 1 BY <1>2 DEF Byte
<1> QED BY <1>1, <1>2

\* A byte of the APDU is a natural number.
LEMMA ByteIsNat == \A x \in 0 .. 255 : x \in Nat
OBVIOUS

\* A half of a number that decode_asn1_number returns is a natural number.
LEMMA HalfIsNat == \A x \in Half : x \in Nat
BY SMTT(20) DEF Half

\* Two bytes of a number make one of its halves.
LEMMA HalfOfBytes ==
  ASSUME NEW a \in 0 .. 255, NEW b \in 0 .. 255
  PROVE  256 * a + b \in Half
BY SMTT(20) DEF Half

\* The halves of decode_asn1_number have 16 bits.
LEMMA NumberType ==
  ASSUME NEW buf \in Seq(0 .. 255), NEW p \in Int, NEW n \in Int
  PROVE  /\ decode_asn1_number(buf, p, n) \in Half \X Half
         /\ decode_asn1_number(buf, p, n)[1] \in Half
         /\ decode_asn1_number(buf, p, n)[2] \in Half
<1>1. \A k \in 0 .. 3 : Octet(buf, p, n, k) \in 0 .. 255
  <2> SUFFICES ASSUME NEW k \in 0 .. 3 PROVE Octet(buf, p, n, k) \in 0 .. 255 OBVIOUS
  <2>1. p + n - 1 - k \in Int OBVIOUS
  <2>2. Byte(buf, p + n - 1 - k) \in 0 .. 255 BY <2>1, ByteType
  <2> QED BY <2>2 DEF Octet
<1>2. PICK a \in Half, b \in Half : decode_asn1_number(buf, p, n) = <<a, b>>
  <2>0. /\ Octet(buf, p, n, 0) \in 0 .. 255 /\ Octet(buf, p, n, 1) \in 0 .. 255
        /\ Octet(buf, p, n, 2) \in 0 .. 255 /\ Octet(buf, p, n, 3) \in 0 .. 255
    BY <1>1, 0 \in 0 .. 3, 1 \in 0 .. 3, 2 \in 0 .. 3, 3 \in 0 .. 3
  <2>1. 256 * Octet(buf, p, n, 3) + Octet(buf, p, n, 2) \in Half BY <2>0, HalfOfBytes
  <2>2. 256 * Octet(buf, p, n, 1) + Octet(buf, p, n, 0) \in Half BY <2>0, HalfOfBytes
  <2> QED BY <2>1, <2>2 DEF decode_asn1_number
<1> QED BY <1>2

\* What the walk relies on in a decoded length and in a TLV taken.
LenSound(l, end, p) ==
  /\ l.ok \in BOOLEAN /\ l.pos \in Nat /\ l.length \in Nat
  /\ \A q \in l.reads : q \in Nat /\ q < end
  /\ l.ok => p < l.pos /\ l.pos <= end

TlvSound(t, end, p) ==
  /\ t.ok \in BOOLEAN
  /\ \A q \in t.reads : q \in Nat /\ q < end
  /\ t.ok => /\ t.pos \in Nat /\ t.valueEnd \in Nat
             /\ p + 2 <= t.pos /\ t.pos <= t.valueEnd /\ t.valueEnd <= end

\* decode_asn1_len_bounded reads between its place and the end, and stops there.
LEMMA LenBounded ==
  ASSUME NEW buf \in Seq(0 .. 255), NEW end \in Nat, NEW p \in Nat
  PROVE  LenSound(decode_asn1_len_bounded(buf, end, p), end, p)
<1> DEFINE octets == Byte(buf, p) - 128
           l == decode_asn1_len_bounded(buf, end, p)
<1>0. p \in Int OBVIOUS
<1>1. Byte(buf, p) \in 0 .. 255 BY <1>0, ByteType
<1>2. CASE p >= end
  <2>1. l = [ok |-> FALSE, pos |-> p, length |-> 0, reads |-> {}]
    BY <1>2 DEF decode_asn1_len_bounded
  <2> QED BY <2>1 DEF LenSound
<1>3. CASE p < end /\ Byte(buf, p) < 128
  <2>1. l = [ok |-> TRUE, pos |-> p + 1, length |-> Byte(buf, p), reads |-> {p}]
    BY <1>3 DEF decode_asn1_len_bounded
  <2> HIDE DEF l
  <2>2. l.ok = TRUE /\ l.pos = p + 1 /\ l.length = Byte(buf, p) /\ l.reads = {p} BY <2>1
  <2>3. p + 1 \in Nat /\ p < p + 1 /\ p + 1 <= end
    <3>1. p < end BY <1>3
    <3> QED BY <3>1
  <2>5. Byte(buf, p) \in Nat BY <1>1, ByteIsNat
  <2>4. LenSound(l, end, p) BY <1>3, <2>2, <2>3, <2>5 DEF LenSound
  <2> QED BY <2>4 DEF l
<1>4. CASE p < end /\ ~(Byte(buf, p) < 128) /\ (octets \notin 1 .. 4 \/ octets > end - (p + 1))
  <2>1. l = [ok |-> FALSE, pos |-> p + 1, length |-> 0, reads |-> {p}]
    BY <1>4 DEF decode_asn1_len_bounded
  <2> QED BY <1>4, <2>1 DEF LenSound
<1>5. CASE p < end /\ ~(Byte(buf, p) < 128) /\ octets \in 1 .. 4 /\ ~(octets > end - (p + 1))
  <2> DEFINE number == decode_asn1_number(buf, p + 1, octets)
  <2>1. number[1] \in Half /\ number[2] \in Half
    <3>1. p + 1 \in Int /\ octets \in Int BY <1>5
    <3> QED BY <3>1, NumberType
  <2>2. Length(number) \in Nat
    <3> HIDE DEF number
    <3>1. Length(number) = BEYOND \/ Length(number) = number[2] BY DEF Length
    <3>2. number[2] \in Nat BY <2>1, HalfIsNat
    <3> QED BY <3>1, <3>2 DEF BEYOND
  <2>3. l = [ok |-> TRUE, pos |-> p + 1 + octets, length |-> Length(number),
             reads |-> p .. p + octets]
    BY <1>5 DEF decode_asn1_len_bounded
  <2> HIDE DEF number, octets, l
  <2>4. octets \in 1 .. 4 /\ octets <= end - (p + 1) BY <1>5
  <2> QED BY <2>2, <2>3, <2>4 DEF LenSound, l
<1> QED BY <1>1, <1>2, <1>3, <1>4, <1>5

\* take_tlv leaves a value that ends by the end of the TLV it was taken from.
LEMMA TakeTlv ==
  ASSUME NEW buf \in Seq(0 .. 255), NEW end \in Nat, NEW p \in Nat, NEW tag \in Nat
  PROVE  TlvSound(take_tlv(buf, end, p, tag), end, p)
<1> DEFINE t == take_tlv(buf, end, p, tag)
<1>1. CASE p >= end \/ Byte(buf, p) # tag
  <2>1. t = [ok |-> FALSE, pos |-> p, valueEnd |-> p, reads |-> {p} \cap 0 .. end - 1]
    BY <1>1 DEF take_tlv
  <2> QED BY <2>1 DEF TlvSound
<1>2. CASE ~(p >= end \/ Byte(buf, p) # tag)
  <2> DEFINE l == decode_asn1_len_bounded(buf, end, p + 1)
  <2>1. LenSound(l, end, p + 1)
    <3>1. p + 1 \in Nat OBVIOUS
    <3> QED BY <3>1, LenBounded
  <2>2. t = [ok |-> l.ok /\ l.length <= end - l.pos, pos |-> l.pos,
             valueEnd |-> l.pos + l.length, reads |-> {p} \cup l.reads]
    BY <1>2 DEF take_tlv
  <2> HIDE DEF l, t
  <2>3. p < end BY <1>2
  <2>4. /\ t.ok = (l.ok /\ l.length <= end - l.pos)
        /\ t.pos = l.pos /\ t.valueEnd = l.pos + l.length /\ t.reads = {p} \cup l.reads
    BY <2>2
  <2>5. \A q \in t.reads : q \in Nat /\ q < end BY <2>1, <2>3, <2>4 DEF LenSound
  <2>6. t.ok => /\ t.pos \in Nat /\ t.valueEnd \in Nat
                /\ p + 2 <= t.pos /\ t.pos <= t.valueEnd /\ t.valueEnd <= end
    <3> SUFFICES ASSUME t.ok PROVE /\ t.pos \in Nat /\ t.valueEnd \in Nat
                                   /\ p + 2 <= t.pos /\ t.pos <= t.valueEnd /\ t.valueEnd <= end
      OBVIOUS
    <3>1. l.ok /\ l.length <= end - l.pos BY <2>4
    <3>2. l.pos \in Nat /\ l.length \in Nat /\ p + 1 < l.pos /\ l.pos <= end
      BY <2>1, <3>1 DEF LenSound
    <3> QED BY <2>4, <3>1, <3>2
  <2> QED BY <2>4, <2>5, <2>6 DEF TlvSound, t
<1> QED BY <1>1, <1>2

\* The bytes of a field that Field reads are in its value.
LEMMA FieldReadsInValue ==
  ASSUME NEW buf, NEW tag \in Nat, NEW p \in Nat, NEW length \in Nat, FieldLength(tag, length),
         NEW q \in FieldReads(buf, tag, p), CHANNELS \in Nat
  PROVE  q \in Nat /\ q < p + length
<1>1. CASE tag = 130 BY <1>1 DEF FieldLength, FieldReads
<1>2. CASE tag = 131 BY <1>2 DEF FieldLength, FieldReads
<1>3. CASE tag = 135
  <2>1. length = CHANNELS * 8
    BY <1>3 DEF FieldLength, ASDU_DATA_SIZE, CHANNEL_SIZE, VALUE_SIZE, QUALITY_SIZE
  <2>2. q \in QualityReads(buf, p) BY <1>3 DEF FieldReads
  <2>3. PICK c \in 0 .. CHANNELS - 1 : q \in p + 4 + c * 8 .. p + 4 + c * 8 + 4 - 1
    BY <2>2 DEF QualityReads, QualityAt, VALUE_SIZE, QUALITY_SIZE, CHANNEL_SIZE
  <2> QED BY <2>1, <2>3
<1>4. CASE tag \notin {130, 131, 135} BY <1>4 DEF FieldReads
<1> QED BY <1>1, <1>2, <1>3, <1>4

-----------------------------------------------------------------------------
(* The walk.                                                               *)

\* The walk starts in the invariant.
LEMMA InitInv == Init => IInv
<1> SUFFICES ASSUME Init PROVE IInv OBVIOUS
<1>1. apdu \in Seq(0 .. 255) BY SvAssumption DEF Init
<1>2. Len(apdu) \in Nat BY <1>1, LenProperties
<1>0. 0 \in Half BY DEF Half
<1>6. <<0, 0>> \in Nat \X Nat /\ <<0, 0>> \in Half \X Half /\ 0 \in Half BY <1>0
<1>7. passport \in [num : Half, svid : Nat \X Nat, crev : Half \X Half] BY <1>6 DEF Init
<1>3. Typed BY <1>1, <1>2, <1>6, <1>7 DEF Init, Typed, Stage, Verdict
<1>4. Nested BY <1>2 DEF Init, Nested
<1>5. ReadsInside BY <1>2 DEF Init, ReadsInside
<1> QED BY <1>3, <1>4, <1>5 DEF IInv

\* A step that returns an error or the result keeps it, when its reads are in
\* the TLV it is in.
LEMMA ReturnInv ==
  ASSUME Typed, Nested, NEW code \in Verdict, Return(code),
         UNCHANGED apdu, bound' \in Nat, ReadsInside'
  PROVE  IInv'
<1>1. Typed' BY DEF Typed, Return, Stage, Verdict, asdu, result
<1>2. Nested' BY DEF Typed, Nested, Return, asdu, result
<1> QED BY <1>1, <1>2 DEF IInv

\* Pdu, the outermost TLV.
LEMMA PduInv == ASSUME IInv, Pdu PROVE IInv'
<1> DEFINE t == take_tlv(apdu, Len(apdu), pos, 96)
<1>1. apdu \in Seq(0 .. 255) /\ Len(apdu) \in Nat /\ pos \in Nat /\ pc = "pdu"
  BY LenProperties DEF IInv, Typed, Pdu
<1>2. TlvSound(t, Len(apdu), pos) BY <1>1, TakeTlv
<1>3. Reads(t.reads, Len(apdu)) BY DEF Pdu
<1>4. (~t.ok /\ Return(-3)) \/
      (/\ t.ok
       /\ pc' = "noASDU" /\ pos' = t.pos /\ pduEnd' = t.valueEnd
       /\ UNCHANGED <<sequenceEnd, asduEnd, asdu, actualAsdus, result, verdict>>)
  BY DEF Pdu
<1> HIDE DEF t
<1>5. UNCHANGED apdu /\ bound' = Len(apdu) /\ reads' = t.reads BY <1>3 DEF Reads
<1>6. ReadsInside' BY <1>1, <1>2, <1>5 DEF ReadsInside, TlvSound
<1>7. CASE ~t.ok /\ Return(-3) BY <1>1, <1>5, <1>6, <1>7, ReturnInv DEF IInv, Verdict
<1>8. CASE /\ t.ok
           /\ pc' = "noASDU" /\ pos' = t.pos /\ pduEnd' = t.valueEnd
           /\ UNCHANGED <<sequenceEnd, asduEnd, asdu, actualAsdus, result, verdict>>
  <2>1. t.pos \in Nat /\ t.valueEnd \in Nat /\ pos + 2 <= t.pos /\ t.pos <= t.valueEnd
        /\ t.valueEnd <= Len(apdu)
    BY <1>2, <1>8 DEF TlvSound
  <2>2. Typed' BY <1>1, <1>5, <1>8, <2>1 DEF IInv, Typed, Stage, asdu, result
  <2>3. Nested' BY <1>1, <1>5, <1>8, <2>1 DEF IInv, Typed, Nested, asdu, result
  <2> QED BY <1>6, <2>2, <2>3 DEF IInv
<1> QED BY <1>4, <1>7, <1>8

\* NoAsdu, the declared number of ASDUs.
LEMMA NoAsduInv == ASSUME IInv, NoAsdu PROVE IInv'
<1> DEFINE t == take_tlv(apdu, pduEnd, pos, 128)
           length == t.valueEnd - t.pos
           ok == t.ok /\ length \in {1, 2}
           declaredAsdus == decode_asn1_number(apdu, t.pos, length)[2]
           OkStep == /\ ok /\ declaredAsdus # 0
                     /\ pc' = "sequence" /\ pos' = t.valueEnd
                     /\ passport' = [passport EXCEPT !.num = declaredAsdus]
                     /\ UNCHANGED <<pduEnd, sequenceEnd, asduEnd, asdu, actualAsdus, state, verdict>>
<1>1. apdu \in Seq(0 .. 255) /\ Len(apdu) \in Nat /\ pos \in Nat /\ pduEnd \in Nat /\ pc = "noASDU"
  BY LenProperties DEF IInv, Typed, NoAsdu
<1>2. TlvSound(t, pduEnd, pos) BY <1>1, TakeTlv
<1>3. Reads(t.reads \cup (IF ok THEN t.pos .. t.valueEnd - 1 ELSE {}), pduEnd) BY DEF NoAsdu
<1>4. Return(-4) \/ OkStep BY DEF NoAsdu
<1>9. ok => declaredAsdus \in Half
  <2> SUFFICES ASSUME ok PROVE declaredAsdus \in Half OBVIOUS
  <2>1. t.pos \in Int /\ length \in Int BY <1>2 DEF TlvSound
  <2> QED BY <1>1, <2>1, NumberType
<1> HIDE DEF t, declaredAsdus
<1>5. /\ UNCHANGED apdu /\ bound' = pduEnd
      /\ reads' = t.reads \cup (IF ok THEN t.pos .. t.valueEnd - 1 ELSE {})
  BY <1>3 DEF Reads
<1>10. pduEnd <= Len(apdu) BY DEF IInv, Nested
<1>11. t.ok => /\ t.pos \in Nat /\ t.valueEnd \in Nat
               /\ pos + 2 <= t.pos /\ t.pos <= t.valueEnd /\ t.valueEnd <= pduEnd
  BY <1>2 DEF TlvSound
<1>6. ReadsInside'
  <2>1. \A q \in t.reads : q \in 0 .. pduEnd - 1 BY <1>1, <1>2 DEF TlvSound
  <2>2. ok => \A q \in t.pos .. t.valueEnd - 1 : q \in 0 .. pduEnd - 1 BY <1>1, <1>11
  <2>3. \A q \in reads' : q \in 0 .. pduEnd - 1 BY <1>5, <2>1, <2>2
  <2> QED BY <1>5, <1>10, <2>3 DEF ReadsInside
<1>7. CASE Return(-4) BY <1>1, <1>5, <1>6, <1>7, ReturnInv DEF IInv, Verdict
<1>8. CASE OkStep
  <2>1. t.pos \in Nat /\ t.valueEnd \in Nat /\ t.valueEnd <= pduEnd /\ declaredAsdus \in Half
    BY <1>8, <1>9, <1>11
  <2>4. /\ passport' \in [num : Half, svid : Nat \X Nat, crev : Half \X Half]
        /\ passport'.svid = passport.svid
    BY <1>8, <2>1 DEF IInv, Typed
  <2>2. Typed' BY <1>1, <1>5, <1>8, <1>10, <2>1, <2>4, SMTT(20) DEF IInv, Typed, Stage, asdu
  <2>3. Nested' BY <1>1, <1>5, <1>8, <2>1, <2>4 DEF IInv, Typed, Nested, asdu
  <2> QED BY <1>6, <2>2, <2>3 DEF IInv
<1> QED BY <1>4, <1>7, <1>8

\* Sequence, which fills the rest of the PDU.
LEMMA SequenceInv == ASSUME IInv, Sequence PROVE IInv'
<1> DEFINE t == take_tlv(apdu, pduEnd, pos, 162)
           OkStep == /\ t.ok /\ t.valueEnd = pduEnd
                     /\ pc' = "asdu" /\ pos' = t.pos /\ sequenceEnd' = t.valueEnd
                     /\ UNCHANGED <<pduEnd, asduEnd, asdu, actualAsdus, result, verdict>>
<1>1. apdu \in Seq(0 .. 255) /\ Len(apdu) \in Nat /\ pos \in Nat /\ pduEnd \in Nat /\ pc = "sequence"
  BY LenProperties DEF IInv, Typed, Sequence
<1>2. TlvSound(t, pduEnd, pos) BY <1>1, TakeTlv
<1>3. Reads(t.reads, pduEnd) BY DEF Sequence
<1>4. Return(-4) \/ OkStep BY DEF Sequence
<1> HIDE DEF t
<1>5. UNCHANGED apdu /\ bound' = pduEnd /\ reads' = t.reads BY <1>3 DEF Reads
<1>10. pduEnd <= Len(apdu) BY DEF IInv, Nested
<1>6. ReadsInside' BY <1>1, <1>2, <1>5, <1>10 DEF ReadsInside, TlvSound
<1>7. CASE Return(-4) BY <1>1, <1>5, <1>6, <1>7, ReturnInv DEF IInv, Verdict
<1>8. CASE OkStep
  <2>1. t.pos \in Nat /\ t.valueEnd \in Nat /\ pos + 2 <= t.pos /\ t.pos <= pduEnd
    BY <1>2, <1>8 DEF TlvSound
  <2>2. Typed' BY <1>1, <1>5, <1>8, <1>10, <2>1 DEF IInv, Typed, Stage, asdu, result
  <2>3. Nested' BY <1>1, <1>5, <1>8, <2>1 DEF IInv, Typed, Nested, asdu, result
  <2> QED BY <1>6, <2>2, <2>3 DEF IInv
<1> QED BY <1>4, <1>7, <1>8

\* Asdu, which starts the fields of the next ASDU.
LEMMA AsduInv == ASSUME IInv, Asdu PROVE IInv'
<1> DEFINE t == take_tlv(apdu, sequenceEnd, pos, 48)
           OkStep == /\ t.ok
                     /\ pc' = "field" /\ pos' = t.pos /\ asduEnd' = t.valueEnd
                     /\ found' = {} /\ svid' = <<0, 0>> /\ confRev' = <<0, 0>> /\ smpCnt' = 0
                     /\ previousTag' = 0
                     /\ UNCHANGED <<pduEnd, sequenceEnd, actualAsdus, result, verdict>>
<1>1. /\ apdu \in Seq(0 .. 255) /\ Len(apdu) \in Nat /\ pos \in Nat
      /\ sequenceEnd \in Nat /\ pduEnd \in Nat /\ pc = "asdu"
  BY LenProperties DEF IInv, Typed, Asdu
<1>2. TlvSound(t, sequenceEnd, pos) BY <1>1, TakeTlv
<1>3. Reads(t.reads, sequenceEnd) BY DEF Asdu
<1>4. Return(-5) \/ OkStep BY DEF Asdu
<1> HIDE DEF t
<1>5. UNCHANGED apdu /\ bound' = sequenceEnd /\ reads' = t.reads BY <1>3 DEF Reads
<1>10. sequenceEnd <= Len(apdu) BY <1>1 DEF IInv, Nested
<1>6. ReadsInside' BY <1>1, <1>2, <1>5, <1>10 DEF ReadsInside, TlvSound
<1>7. CASE Return(-5) BY <1>1, <1>5, <1>6, <1>7, ReturnInv DEF IInv, Verdict
<1>8. CASE OkStep
  <2>1. t.pos \in Nat /\ t.valueEnd \in Nat /\ pos + 2 <= t.pos /\ t.pos <= t.valueEnd
        /\ t.valueEnd <= sequenceEnd
    BY <1>2, <1>8 DEF TlvSound
  <2>4. 0 \in Half BY DEF Half
  <2>5. svid' \in Nat \X Nat /\ svid'[2] = 0 /\ confRev' \in Half \X Half BY <1>8, <2>4
  <2>2. Typed' BY <1>1, <1>5, <1>8, <1>10, <2>1, <2>5, SMTT(20) DEF IInv, Typed, Stage, result
  <2>6. passport'.svid[2] \in Nat /\ passport'.svid[2] <= asduEnd /\ asduEnd \in Nat
        /\ asduEnd <= pos
    BY <1>1, <1>8 DEF IInv, Typed, Nested, result
  <2>3. Nested' BY <1>1, <1>5, <1>8, <2>1, <2>5, <2>6 DEF IInv, Typed, Nested, result
  <2> QED BY <1>6, <2>2, <2>3 DEF IInv
<1> QED BY <1>4, <1>7, <1>8

\* EndAsdu, which reads the identifiers of this ASDU and of the first.
LEMMA EndAsduInv == ASSUME IInv, EndAsdu PROVE IInv'
<1> DEFINE views == (svid[1] .. svid[2] - 1) \cup (passport.svid[1] .. passport.svid[2] - 1)
           set == IF Mandatory \subseteq found /\ actualAsdus > 0 THEN views ELSE {}
           OkStep == /\ pc' = "asdu"
                     /\ actualAsdus' = actualAsdus + 1
                     /\ IF actualAsdus = 0
                          THEN /\ passport' = [passport EXCEPT !.svid = svid, !.crev = confRev]
                               /\ state' = [smpCnt |-> smpCnt]
                          ELSE UNCHANGED result
                     /\ UNCHANGED <<pos, pduEnd, sequenceEnd, asduEnd, asdu, verdict>>
<1>1. /\ Len(apdu) \in Nat /\ pos \in Nat /\ asduEnd \in Nat /\ sequenceEnd \in Nat /\ pduEnd \in Nat
      /\ actualAsdus \in Nat /\ pc = "field" /\ pos >= asduEnd
  BY LenProperties DEF IInv, Typed, EndAsdu
<1>2. /\ pos = asduEnd /\ asduEnd <= sequenceEnd /\ asduEnd <= Len(apdu)
      /\ actualAsdus + 1 <= pos /\ svid[2] <= pos /\ passport.svid[2] <= asduEnd
  BY <1>1 DEF IInv, Nested
<1>9. /\ svid \in Nat \X Nat /\ confRev \in Half \X Half
      /\ passport \in [num : Half, svid : Nat \X Nat, crev : Half \X Half]
  BY DEF IInv, Typed
<1>10. /\ svid[1] \in Nat /\ svid[2] \in Nat
       /\ passport.svid[1] \in Nat /\ passport.svid[2] \in Nat
  BY <1>9
<1>3. Reads(set, asduEnd) BY DEF EndAsdu
<1>4. Return(-6) \/ OkStep BY DEF EndAsdu
<1>5. UNCHANGED apdu /\ bound' = asduEnd /\ reads' = set BY <1>3 DEF Reads
<1>6. ReadsInside'
  <2>1. \A q \in views : q \in 0 .. asduEnd - 1 BY <1>1, <1>2, <1>10
  <2>2. \A q \in set : q \in 0 .. asduEnd - 1 BY <2>1
  <2> HIDE DEF set
  <2> QED BY <1>1, <1>2, <1>5, <2>2 DEF ReadsInside
<1> HIDE DEF set
<1>7. CASE Return(-6) BY <1>1, <1>5, <1>6, <1>7, ReturnInv DEF IInv, Verdict
<1>8. CASE OkStep
  <2>1. /\ passport' \in [num : Half, svid : Nat \X Nat, crev : Half \X Half]
        /\ passport'.svid = svid \/ passport'.svid = passport.svid
    BY <1>8, <1>9 DEF result
  <2>2. Typed' BY <1>1, <1>2, <1>5, <1>8, <2>1 DEF IInv, Typed, Stage, asdu
  <2>3. Nested' BY <1>1, <1>2, <1>5, <1>8, <1>10, <2>1 DEF IInv, Typed, Nested, asdu
  <2> QED BY <1>6, <2>2, <2>3 DEF IInv
<1> QED BY <1>4, <1>7, <1>8

\* End, the last return.
LEMMA EndInv == ASSUME IInv, End PROVE IInv'
<1> DEFINE code == IF actualAsdus = passport.num THEN 0 ELSE -7
<1>1. Return(code) /\ code \in Verdict BY DEF End, Verdict
<1>2. UNCHANGED apdu /\ bound' = sequenceEnd /\ reads' = {} BY DEF End, Reads
<1>3. sequenceEnd \in Nat /\ pduEnd \in Nat /\ Len(apdu) \in Nat
  BY LenProperties DEF IInv, Typed
<1>4. sequenceEnd <= Len(apdu) BY <1>3 DEF IInv, Nested
<1>5. ReadsInside' BY <1>2, <1>3, <1>4 DEF ReadsInside
<1> QED BY <1>1, <1>2, <1>3, <1>5, ReturnInv DEF IInv

\* A field that is accepted has one of the nine tags.
LEMMA FieldTag ==
  ASSUME NEW tag \in Nat, NEW length \in Nat, FieldLength(tag, length)
  PROVE  tag \in 128 .. 136
BY DEF FieldLength

\* Field, one field of an ASDU with what is read of its value.
LEMMA FieldInv == ASSUME IInv, Field PROVE IInv'
<1> DEFINE tag == Byte(apdu, pos)
           l == decode_asn1_len_bounded(apdu, asduEnd, pos + 1)
           ok == /\ tag > previousTag /\ l.ok /\ l.length <= asduEnd - l.pos
                 /\ tag \notin found \cap Mandatory /\ FieldLength(tag, l.length)
           set == {pos} \cup (IF tag > previousTag THEN l.reads ELSE {})
                  \cup (IF ok THEN FieldReads(apdu, tag, l.pos) ELSE {})
           OkStep ==
             /\ ok
             /\ pos' = l.pos + l.length
             /\ previousTag' = tag
             /\ found' = found \cup {tag}
             /\ svid' = IF tag = 128 THEN <<l.pos, l.pos + l.length>> ELSE svid
             /\ confRev' = IF tag = 131 THEN decode_asn1_number(apdu, l.pos, 4) ELSE confRev
             /\ UNCHANGED <<pc, pduEnd, sequenceEnd, asduEnd, actualAsdus, result, verdict>>
<1>1. /\ apdu \in Seq(0 .. 255) /\ Len(apdu) \in Nat /\ pos \in Nat /\ asduEnd \in Nat
      /\ sequenceEnd \in Nat /\ pduEnd \in Nat /\ pc = "field" /\ pos < asduEnd
      /\ actualAsdus \in Nat
  BY LenProperties DEF IInv, Typed, Field
<1>2. tag \in 0 .. 255 /\ tag \in Nat
  <2>1. pos \in Int BY <1>1
  <2>2. tag \in 0 .. 255 BY <1>1, <2>1, ByteType
  <2> QED BY <2>2, ByteIsNat
<1>3. LenSound(l, asduEnd, pos + 1)
  <2>1. pos + 1 \in Nat BY <1>1
  <2> QED BY <1>1, <2>1, LenBounded
<1>4. Reads(set, asduEnd) BY DEF Field
<1>5. Return(-6) \/ Return(-11) \/ OkStep BY DEF Field
<1>9. l.pos \in Nat /\ l.length \in Nat /\ (l.ok => pos + 1 < l.pos) BY <1>3 DEF LenSound
<1>10. decode_asn1_number(apdu, l.pos, 4) \in Half \X Half
  <2>1. l.pos \in Int /\ 4 \in Int BY <1>9
  <2> QED BY <1>1, <2>1, NumberType
<1> HIDE DEF tag, l
<1>11. ok => l.pos + l.length <= asduEnd BY <1>1, <1>9
<1>6. ReadsInside'
  <2>1. UNCHANGED apdu /\ bound' = asduEnd /\ reads' = set BY <1>4 DEF Reads
  <2>2. \A q \in l.reads : q \in 0 .. asduEnd - 1 BY <1>1, <1>3 DEF LenSound
  <2>3. ok => \A q \in FieldReads(apdu, tag, l.pos) : q \in 0 .. asduEnd - 1
    <3> SUFFICES ASSUME ok, NEW q \in FieldReads(apdu, tag, l.pos) PROVE q \in 0 .. asduEnd - 1
      OBVIOUS
    <3>1. FieldLength(tag, l.length) OBVIOUS
    <3>2. q \in Nat /\ q < l.pos + l.length
      BY <3>1, <1>2, <1>9, FieldReadsInValue, SvAssumption
    <3> QED BY <3>2, <1>1, <1>9, <1>11
  <2>4. pos \in 0 .. asduEnd - 1 BY <1>1
  <2>5. \A q \in set : q \in 0 .. asduEnd - 1 BY <2>2, <2>3, <2>4
  <2>6. asduEnd <= Len(apdu) BY <1>1 DEF IInv, Nested
  <2> HIDE DEF set
  <2> QED BY <2>1, <2>5, <2>6 DEF ReadsInside
<1>12. UNCHANGED apdu /\ bound' = asduEnd BY <1>4 DEF Reads
<1> HIDE DEF set
<1>7. CASE Return(-6) \/ Return(-11)
  BY <1>1, <1>6, <1>7, <1>12, ReturnInv DEF IInv, Verdict
<1>8. CASE OkStep
  <2>1. /\ l.pos + l.length \in Nat /\ l.pos + l.length <= asduEnd
        /\ pos + 1 < l.pos + l.length /\ pos' = l.pos + l.length
    BY <1>1, <1>8, <1>9, <1>11
  <2>2. tag \in 128 .. 136
    <3>1. FieldLength(tag, l.length) BY <1>8
    <3> QED BY <3>1, <1>2, <1>9, FieldTag
  <2>3. svid' \in Nat \X Nat /\ confRev' \in Half \X Half
    BY <1>8, <1>9, <1>10, <2>1 DEF IInv, Typed
  <2>4. svid'[2] <= pos'
    <3>1. CASE tag = 128
      <4>1. svid' = <<l.pos, l.pos + l.length>> BY <1>8, <3>1
      <4> QED BY <4>1, <2>1
    <3>2. CASE tag # 128
      <4>1. svid' = svid /\ svid[2] \in Nat /\ svid[2] <= pos
        BY <1>1, <1>8, <3>2 DEF IInv, Typed, Nested
      <4> QED BY <4>1, <1>1, <2>1
    <3> QED BY <3>1, <3>2
  <2>5. asduEnd <= sequenceEnd /\ asduEnd <= Len(apdu) /\ actualAsdus + 1 <= pos
    BY <1>1 DEF IInv, Nested
  <2>6. found' \subseteq 128 .. 136 /\ previousTag' \in 0 .. 255
    BY <1>2, <1>8, <2>2 DEF IInv, Typed
  <2> HIDE DEF ok
  <2>7. Typed'
    BY <1>1, <1>8, <1>12, <2>1, <2>3, <2>5, <2>6 DEF IInv, Typed, Stage, result
  <2>8. Nested'
    BY <1>1, <1>8, <1>12, <2>1, <2>3, <2>4, <2>5 DEF IInv, Typed, Nested, result
  <2> QED BY <1>6, <2>7, <2>8 DEF IInv
<1> QED BY <1>5, <1>7, <1>8

\* The invariant is inductive.
LEMMA StepInv == IInv /\ [Next]_vars => IInv'
<1> SUFFICES ASSUME IInv, [Next]_vars PROVE IInv' OBVIOUS
<1>1. CASE Pdu BY <1>1, PduInv
<1>2. CASE NoAsdu BY <1>2, NoAsduInv
<1>3. CASE Sequence BY <1>3, SequenceInv
<1>4. CASE Asdu BY <1>4, AsduInv
<1>5. CASE Field BY <1>5, FieldInv
<1>6. CASE EndAsdu BY <1>6, EndAsduInv
<1>7. CASE End BY <1>7, EndInv
<1>8. CASE UNCHANGED vars
  BY <1>8 DEF IInv, Typed, Nested, ReadsInside, vars, asdu, result
<1> QED BY <1>1, <1>2, <1>3, <1>4, <1>5, <1>6, <1>7, <1>8 DEF Next, Done


-----------------------------------------------------------------------------
(* TLVs: what a walk takes, and which fill a part of the APDU.             *)

\* The length of a TLV, of whatever number of octets.
LEMMA LengthType ==
  ASSUME NEW buf \in Seq(0 .. 255), NEW p \in Int, NEW n \in Int
  PROVE  Length(decode_asn1_number(buf, p, n)) \in Nat
<1> DEFINE number == decode_asn1_number(buf, p, n)
<1>1. number[2] \in Half BY NumberType
<1>2. number[2] \in Nat BY <1>1, HalfIsNat
<1> HIDE DEF number
<1>3. Length(number) \in {BEYOND, number[2]} BY DEF Length
<1> QED BY <1>2, <1>3 DEF BEYOND, number

\* Tag, value and end of a TLV, which takes two octets at least.
LEMMA TlvType ==
  ASSUME NEW buf \in Seq(0 .. 255), NEW p \in Nat
  PROVE  /\ Tlv(buf, p).tag = Byte(buf, p) /\ Tlv(buf, p).tag \in Nat
         /\ Tlv(buf, p).from \in Nat /\ Tlv(buf, p).length \in Nat /\ Tlv(buf, p).to \in Nat
         /\ Tlv(buf, p).to = Tlv(buf, p).from + Tlv(buf, p).length
         /\ p + 2 <= Tlv(buf, p).from
<1> DEFINE x == Byte(buf, p + 1)
           n == IF x < 128 THEN 0 ELSE x - 128
           length == IF n = 0 THEN x ELSE Length(decode_asn1_number(buf, p + 2, n))
<1>1. p \in Int /\ p + 1 \in Int /\ p + 2 \in Int OBVIOUS
<1>2. x \in 0 .. 255 /\ Byte(buf, p) \in 0 .. 255 BY <1>1, ByteType
<1>3. x \in Nat /\ Byte(buf, p) \in Nat BY <1>2, ByteIsNat
<1>4. Tlv(buf, p) = [tag |-> Byte(buf, p), from |-> p + 2 + n, length |-> length,
                     to |-> p + 2 + n + length]
  BY DEF Tlv
<1> HIDE DEF x
<1>5. n \in Nat BY <1>3
<1> HIDE DEF n
<1>6. Length(decode_asn1_number(buf, p + 2, n)) \in Nat
  <2>1. n \in Int BY <1>5
  <2> QED BY <1>1, <2>1, LengthType
<1>7. length \in Nat BY <1>3, <1>6
<1> HIDE DEF length
<1>8. /\ p + 2 + n \in Nat /\ p + 2 <= p + 2 + n /\ p + 2 + n + length \in Nat
      /\ p + 2 + n + length = (p + 2 + n) + length
  BY <1>5, <1>7
<1> QED BY <1>3, <1>4, <1>7, <1>8

\* decode_asn1_len_bounded takes the length of a TLV that is whole, and nothing
\* else.
LEMMA LengthIsTaken ==
  ASSUME NEW buf \in Seq(0 .. 255), NEW end \in Nat, NEW p \in Nat, NEW l,
         l = decode_asn1_len_bounded(buf, end, p + 1)
  PROVE  /\ l.ok /\ l.length <= end - l.pos <=> Whole(buf, p, end)
         /\ Whole(buf, p, end) => l.pos = Tlv(buf, p).from /\ l.length = Tlv(buf, p).length
<1> DEFINE q == p + 1
           x == Byte(buf, q)
           octets == x - 128
           number == Length(decode_asn1_number(buf, p + 2, octets))
           t == Tlv(buf, p)
<1>1. q \in Int /\ p + 2 \in Int /\ q + 1 = p + 2 OBVIOUS
<1>2. x \in 0 .. 255 BY <1>1, ByteType
<1>3. x \in Nat BY <1>2, ByteIsNat
<1>4. number \in Nat
  <2>1. octets \in Int BY <1>3
  <2> QED BY <1>1, <2>1, LengthType
<1>5. l = IF q >= end THEN [ok |-> FALSE, pos |-> q, length |-> 0, reads |-> {}]
          ELSE IF x < 128 THEN [ok |-> TRUE, pos |-> p + 2, length |-> x, reads |-> {q}]
          ELSE IF octets \notin 1 .. 4 \/ octets > end - (p + 2)
            THEN [ok |-> FALSE, pos |-> p + 2, length |-> 0, reads |-> {q}]
          ELSE [ok |-> TRUE, pos |-> p + 2 + octets, length |-> number,
                reads |-> q .. q + octets]
  BY <1>1 DEF decode_asn1_len_bounded
<1>6. Whole(buf, p, end) <=> /\ p + 2 <= end
                             /\ x \in 0 .. 127 \cup 129 .. 132
                             /\ t.from <= end /\ t.to <= end
  BY DEF Whole
<1>7. CASE q >= end
  <2>1. ~l.ok BY <1>5, <1>7
  <2>2. ~(p + 2 <= end) BY <1>7
  <2> QED BY <1>6, <2>1, <2>2
<1>8. CASE q < end /\ x < 128
  <2>1. t.from = p + 2 /\ t.length = x /\ t.to = p + 2 + x BY <1>3, <1>8 DEF Tlv
  <2>2. l.ok /\ l.pos = p + 2 /\ l.length = x BY <1>5, <1>8
  <2> HIDE DEF t, x
  <2>3. x \in 0 .. 127 BY <1>3, <1>8
  <2>4. p + 2 <= end /\ (p + 2 + x <= end <=> x <= end - (p + 2)) BY <1>3, <1>8
  <2>5. Whole(buf, p, end) <=> p + 2 + x <= end BY <1>6, <2>1, <2>3, <2>4
  <2> QED BY <2>1, <2>2, <2>4, <2>5 DEF t
<1>9. CASE q < end /\ x >= 128 /\ octets \notin 1 .. 4
  <2>1. ~l.ok BY <1>3, <1>5, <1>9
  <2>2. x \notin 0 .. 127 \cup 129 .. 132
    <3> HIDE DEF x
    <3> QED BY <1>3, <1>9
  <2> QED BY <1>6, <2>1, <2>2
<1>10. CASE q < end /\ x >= 128 /\ octets \in 1 .. 4
  <2>1. t.from = p + 2 + octets /\ t.length = number /\ t.to = p + 2 + octets + number
    <3>1. ~(x < 128) /\ octets # 0 BY <1>3, <1>10
    <3> QED BY <3>1 DEF Tlv
  <2>2. x \in 0 .. 127 \cup 129 .. 132 /\ p + 2 <= end
    <3> HIDE DEF x
    <3> QED BY <1>3, <1>10
  <2>3. CASE octets > end - (p + 2)
    <3>1. ~l.ok BY <1>3, <1>5, <1>10, <2>3
    <3>2. ~(t.from <= end)
      <4> HIDE DEF t, x
      <4> QED BY <1>3, <2>1, <2>3
    <3> QED BY <1>6, <3>1, <3>2
  <2>4. CASE ~(octets > end - (p + 2))
    <3>1. l.ok /\ l.pos = p + 2 + octets /\ l.length = number BY <1>3, <1>5, <1>10, <2>4
    <3> HIDE DEF t, number, x
    <3>2. /\ p + 2 + octets <= end
          /\ p + 2 + octets + number <= end <=> number <= end - (p + 2 + octets)
      BY <1>3, <1>4, <2>4
    <3>3. Whole(buf, p, end) <=> p + 2 + octets + number <= end
      BY <1>6, <2>1, <2>2, <3>2
    <3> QED BY <2>1, <3>1, <3>2, <3>3 DEF t
  <2> QED BY <2>3, <2>4
<1> QED BY <1>3, <1>7, <1>8, <1>9, <1>10

\* take_tlv succeeds where a whole TLV of the tag starts, and gives its value.
LEMMA TlvIsTaken ==
  ASSUME NEW buf \in Seq(0 .. 255), NEW end \in Nat, NEW p \in Nat, NEW tag, NEW t,
         t = take_tlv(buf, end, p, tag)
  PROVE  /\ t.ok <=> Whole(buf, p, end) /\ Tlv(buf, p).tag = tag
         /\ t.ok => t.pos = Tlv(buf, p).from /\ t.valueEnd = Tlv(buf, p).to
<1> DEFINE l == decode_asn1_len_bounded(buf, end, p + 1)
<1>1. Tlv(buf, p).tag = Byte(buf, p) /\ Tlv(buf, p).to = Tlv(buf, p).from + Tlv(buf, p).length
  BY TlvType
<1>2. CASE p >= end
  <2>1. ~t.ok BY <1>2 DEF take_tlv
  <2>2. ~(p + 2 <= end) BY <1>2
  <2> QED BY <2>1, <2>2 DEF Whole
<1>3. CASE Byte(buf, p) # tag
  <2>1. ~t.ok BY <1>3 DEF take_tlv
  <2> QED BY <1>1, <1>3, <2>1
<1>4. CASE ~(p >= end \/ Byte(buf, p) # tag)
  <2>1. t = [ok |-> l.ok /\ l.length <= end - l.pos, pos |-> l.pos,
             valueEnd |-> l.pos + l.length, reads |-> {p} \cup l.reads]
    BY <1>4 DEF take_tlv
  <2>2. /\ l.ok /\ l.length <= end - l.pos <=> Whole(buf, p, end)
        /\ Whole(buf, p, end) => l.pos = Tlv(buf, p).from /\ l.length = Tlv(buf, p).length
    BY LengthIsTaken
  <2> HIDE DEF l
  <2>3. /\ t.ok = (l.ok /\ l.length <= end - l.pos)
        /\ t.pos = l.pos /\ t.valueEnd = l.pos + l.length
    BY <2>1
  <2> QED BY <1>1, <1>4, <2>2, <2>3
<1> QED BY <1>2, <1>3, <1>4

\* The recursion of Starts, and the equation of one place.
StartsAt(f, buf, end, p) ==
  IF p = end THEN {} ELSE IF ~Whole(buf, p, end) THEN {-1} ELSE {p} \cup f[Tlv(buf, p).to]

IsStarts(f, buf, end) == f = [p \in 0 .. end |-> StartsAt(f, buf, end, p)]

\* A whole TLV ends behind its start.
LEMMA WholeEnds ==
  ASSUME NEW buf \in Seq(0 .. 255), NEW end \in Nat, NEW p \in Nat, Whole(buf, p, end)
  PROVE  /\ Tlv(buf, p).to \in Nat /\ Tlv(buf, p).from \in Nat
         /\ p + 2 <= Tlv(buf, p).from /\ Tlv(buf, p).from <= Tlv(buf, p).to
         /\ Tlv(buf, p).to <= end
<1> DEFINE a == Tlv(buf, p).from
           l == Tlv(buf, p).length
           c == Tlv(buf, p).to
<1>1. a \in Nat /\ l \in Nat /\ c \in Nat /\ c = a + l /\ p + 2 <= a BY TlvType
<1>2. c <= end BY DEF Whole
<1> HIDE DEF a, l, c
<1>3. a <= c BY <1>1
<1> QED BY <1>1, <1>2, <1>3 DEF a, c

\* A function that has the equation from some place on.
LEMMA StartsPart ==
  ASSUME NEW buf \in Seq(0 .. 255), NEW end \in Nat, NEW k \in 0 .. end
  PROVE  \E f : /\ f = [p \in 0 .. end |-> f[p]]
                /\ \A p \in 0 .. end : p >= end - k => f[p] = StartsAt(f, buf, end, p)
<1> DEFINE Part(f, j) == /\ f = [p \in 0 .. end |-> f[p]]
                         /\ \A p \in 0 .. end : p >= end - j => f[p] = StartsAt(f, buf, end, p)
           S == {j \in Nat : j <= end => \E f : Part(f, j)}
<1>1. 0 \in S
  <2> DEFINE f == [p \in 0 .. end |-> {}]
  <2>1. f = [p \in 0 .. end |-> f[p]] OBVIOUS
  <2>2. \A p \in 0 .. end : p >= end - 0 => p = end /\ f[p] = {} OBVIOUS
  <2> HIDE DEF f
  <2>3. Part(f, 0) BY <2>1, <2>2 DEF StartsAt
  <2> QED BY <2>3
<1>2. ASSUME NEW j \in S PROVE j + 1 \in S
  <2> SUFFICES ASSUME j + 1 <= end PROVE \E f : Part(f, j + 1)
    OBVIOUS
  <2>1. PICK f : Part(f, j) OBVIOUS
  <2> DEFINE q == end - (j + 1)
             g == [p \in 0 .. end |-> IF p = q THEN StartsAt(f, buf, end, q) ELSE f[p]]
  <2>2. q \in 0 .. end /\ q \in Nat /\ j \in Nat OBVIOUS
  <2>3. \A p \in 0 .. end : p # q => g[p] = f[p] OBVIOUS
  <2>4. g[q] = StartsAt(f, buf, end, q) BY <2>2
  <2>5. g = [p \in 0 .. end |-> g[p]] OBVIOUS
  <2> HIDE DEF g
  <2>6. ASSUME NEW p \in 0 .. end, p >= q PROVE g[p] = StartsAt(g, buf, end, p)
    <3>1. StartsAt(g, buf, end, p) = StartsAt(f, buf, end, p)
      <4>1. CASE p # end /\ Whole(buf, p, end)
        <5>1. p \in Nat OBVIOUS
        <5>2. Tlv(buf, p).to \in Nat /\ p + 2 <= Tlv(buf, p).to /\ Tlv(buf, p).to <= end
          BY <4>1, <5>1, WholeEnds
        <5>3. Tlv(buf, p).to \in 0 .. end /\ Tlv(buf, p).to # q BY <2>2, <2>6, <5>1, <5>2
        <5>4. g[Tlv(buf, p).to] = f[Tlv(buf, p).to] BY <2>3, <5>3
        <5> QED BY <4>1, <5>4 DEF StartsAt
      <4>2. CASE ~(p # end /\ Whole(buf, p, end)) BY <4>2 DEF StartsAt
      <4> QED BY <4>1, <4>2
    <3>2. CASE p = q BY <2>4, <3>1, <3>2
    <3>3. CASE p # q
      <4>1. p >= end - j BY <2>2, <2>6, <3>3
      <4>2. f[p] = StartsAt(f, buf, end, p) BY <2>1, <4>1
      <4> QED BY <2>3, <3>1, <3>3, <4>2
    <3> QED BY <3>2, <3>3
  <2>7. Part(g, j + 1) BY <2>5, <2>6
  <2> QED BY <2>7
<1>3. S = Nat
  <2>1. S \in SUBSET Nat OBVIOUS
  <2> HIDE DEF S
  <2> QED BY <1>1, <1>2, <2>1, Numbers!Induction
<1> QED BY <1>3

\* The recursion is well-founded: a whole TLV ends behind its start.
LEMMA StartsExists ==
  ASSUME NEW buf \in Seq(0 .. 255), NEW end \in Nat
  PROVE  \E f : IsStarts(f, buf, end)
<1>1. end \in 0 .. end OBVIOUS
<1>2. PICK f : /\ f = [p \in 0 .. end |-> f[p]]
               /\ \A p \in 0 .. end : p >= end - end => f[p] = StartsAt(f, buf, end, p)
  BY <1>1, StartsPart
<1>3. \A p \in 0 .. end : f[p] = StartsAt(f, buf, end, p) BY <1>2
<1>4. [p \in 0 .. end |-> f[p]] = [p \in 0 .. end |-> StartsAt(f, buf, end, p)] BY <1>3
<1>5. f = [p \in 0 .. end |-> StartsAt(f, buf, end, p)] BY <1>2, <1>4
<1> QED BY <1>5 DEF IsStarts

\* What Starts is at one place.
LEMMA StartsIs ==
  ASSUME NEW buf \in Seq(0 .. 255), NEW end \in Nat, NEW p \in 0 .. end
  PROVE  /\ p = end => Starts(buf, p, end) = {}
         /\ p # end /\ ~Whole(buf, p, end) => Starts(buf, p, end) = {-1}
         /\ p # end /\ Whole(buf, p, end) =>
              Starts(buf, p, end) = {p} \cup Starts(buf, Tlv(buf, p).to, end)
<1> DEFINE f == CHOOSE f : IsStarts(f, buf, end)
<1>1. IsStarts(f, buf, end) BY StartsExists
<1>2. \A q : Starts(buf, q, end) = f[q] BY DEF Starts, IsStarts, StartsAt
<1> HIDE DEF f
<1>3. f[p] = StartsAt(f, buf, end, p) BY <1>1 DEF IsStarts
<1> QED BY <1>2, <1>3 DEF StartsAt

\* Starts has places of the part it is about, finitely many, and perhaps -1.
LEMMA StartsRange ==
  ASSUME NEW buf \in Seq(0 .. 255), NEW end \in Nat, NEW from \in 0 .. end
  PROVE  /\ IsFiniteSet(Starts(buf, from, end))
         /\ \A q \in Starts(buf, from, end) : q = -1 \/ q \in from .. end - 1
<1> DEFINE Fine(p) == /\ IsFiniteSet(Starts(buf, p, end))
                       /\ \A q \in Starts(buf, p, end) : q = -1 \/ q \in p .. end - 1
           S == {j \in Nat : \A p \in 0 .. end : end - p <= j => Fine(p)}
<1>1. 0 \in S
  <2> SUFFICES ASSUME NEW p \in 0 .. end, end - p <= 0 PROVE Fine(p)
    OBVIOUS
  <2>1. p = end OBVIOUS
  <2>2. Starts(buf, p, end) = {} BY <2>1, StartsIs
  <2> QED BY <2>2, FS_EmptySet
<1>2. ASSUME NEW j \in S PROVE j + 1 \in S
  <2> SUFFICES ASSUME NEW p \in 0 .. end, end - p <= j + 1 PROVE Fine(p)
    OBVIOUS
  <2>0. p \in Nat /\ j \in Nat OBVIOUS
  <2>1. CASE p = end
    <3>1. Starts(buf, p, end) = {} BY <2>1, StartsIs
    <3> QED BY <3>1, FS_EmptySet
  <2>2. CASE p # end /\ ~Whole(buf, p, end)
    <3>1. Starts(buf, p, end) = {-1} BY <2>2, StartsIs
    <3>2. IsFiniteSet({-1}) BY FS_Singleton, Zenon
    <3> QED BY <3>1, <3>2, Zenon
  <2>3. CASE p # end /\ Whole(buf, p, end)
    <3> DEFINE n == Tlv(buf, p).to
    <3>1. n \in Nat /\ p + 2 <= n /\ n <= end BY <2>0, <2>3, WholeEnds
    <3>2. Starts(buf, p, end) = {p} \cup Starts(buf, n, end) BY <2>3, StartsIs
    <3> HIDE DEF n
    <3>3. n \in 0 .. end /\ end - n <= j BY <2>0, <3>1
    <3>4. Fine(n) BY <1>2, <3>3
    <3>5. IsFiniteSet(Starts(buf, p, end))
      <4>1. IsFiniteSet(Starts(buf, n, end) \cup {p}) BY <3>4, FS_AddElement, Zenon
      <4>2. Starts(buf, p, end) = Starts(buf, n, end) \cup {p} BY <3>2
      <4> QED BY <4>1, <4>2
    <3>6. ASSUME NEW q \in Starts(buf, p, end) PROVE q = -1 \/ q \in p .. end - 1
      <4>1. q = p \/ q = -1 \/ q \in n .. end - 1 BY <3>2, <3>4
      <4> QED BY <2>0, <2>3, <3>1, <4>1
    <3> QED BY <3>5, <3>6
  <2> QED BY <2>1, <2>2, <2>3
<1>3. S = Nat
  <2>1. S \in SUBSET Nat OBVIOUS
  <2> HIDE DEF S
  <2> QED BY <1>1, <1>2, <2>1, Numbers!Induction
<1>4. end - from \in Nat OBVIOUS
<1>5. \A p \in 0 .. end : end - p <= end - from => Fine(p)
  <2>1. end - from \in S BY <1>3, <1>4
  <2> QED BY <2>1
<1>6. end - from <= end - from OBVIOUS
<1> QED BY <1>5, <1>6

\* The walk of the TLVs between from and end has come to p: what is left is
\* what Starts finds from p on, and these are the TLVs it has passed.
On(buf, from, end, p) ==
  /\ from \in 0 .. end /\ p \in from .. end
  /\ Starts(buf, p, end) = {q \in Starts(buf, from, end) : q = -1 \/ q >= p}

Passed(buf, from, end, p) == {q \in Starts(buf, from, end) : q # -1 /\ q < p}

\* It starts with nothing passed.
LEMMA OnFirst ==
  ASSUME NEW buf \in Seq(0 .. 255), NEW end \in Nat, NEW from \in 0 .. end
  PROVE  On(buf, from, end, from) /\ Passed(buf, from, end, from) = {}
<1>1. \A q \in Starts(buf, from, end) : q = -1 \/ q \in from .. end - 1 BY StartsRange
<1>2. \A q \in Starts(buf, from, end) : q = -1 \/ (q >= from /\ ~(q < from)) BY <1>1
<1>3. from \in from .. end OBVIOUS
<1> QED BY <1>2, <1>3 DEF On, Passed

\* What is passed is finite and lies before p.
LEMMA PassedRange ==
  ASSUME NEW buf \in Seq(0 .. 255), NEW end \in Nat, NEW from \in 0 .. end, NEW p
  PROVE  /\ IsFiniteSet(Passed(buf, from, end, p))
         /\ \A q \in Passed(buf, from, end, p) :
              q \in Nat /\ q \in from .. end - 1 /\ q < p /\ q \in Starts(buf, from, end)
<1>1. /\ IsFiniteSet(Starts(buf, from, end))
      /\ \A q \in Starts(buf, from, end) : q = -1 \/ q \in from .. end - 1
  BY StartsRange
<1>2. Passed(buf, from, end, p) \subseteq Starts(buf, from, end) BY DEF Passed
<1>3. IsFiniteSet(Passed(buf, from, end, p)) BY <1>1, <1>2, FS_Subset
<1>4. ASSUME NEW q \in Passed(buf, from, end, p)
      PROVE  q \in Nat /\ q \in from .. end - 1 /\ q < p /\ q \in Starts(buf, from, end)
  <2>1. q # -1 /\ q < p /\ q \in Starts(buf, from, end) BY DEF Passed
  <2>2. q \in from .. end - 1 BY <1>1, <2>1
  <2> QED BY <2>1, <2>2
<1> QED BY <1>3, <1>4

\* Where a whole TLV starts, it is one of them, and the walk goes on behind it.
LEMMA OnNext ==
  ASSUME NEW buf \in Seq(0 .. 255), NEW end \in Nat, NEW from, NEW p,
         On(buf, from, end, p), p # end, Whole(buf, p, end)
  PROVE  /\ p \in Starts(buf, from, end) /\ p \notin Passed(buf, from, end, p)
         /\ On(buf, from, end, Tlv(buf, p).to)
         /\ Passed(buf, from, end, Tlv(buf, p).to) = Passed(buf, from, end, p) \cup {p}
<1> DEFINE n == Tlv(buf, p).to
<1>1. from \in 0 .. end /\ p \in from .. end /\ p \in Nat /\ from \in Nat BY DEF On
<1>2. n \in Nat /\ p + 2 <= n /\ n <= end BY <1>1, WholeEnds
<1>3. Starts(buf, p, end) = {p} \cup Starts(buf, n, end)
  <2>1. p \in 0 .. end BY <1>1
  <2> QED BY <2>1, StartsIs
<1> HIDE DEF n
<1>4. n \in 0 .. end /\ n \in from .. end BY <1>1, <1>2
<1>5. \A q \in Starts(buf, n, end) : q = -1 \/ q \in n .. end - 1 BY <1>4, StartsRange
<1>6. \A q \in Starts(buf, from, end) : q = -1 \/ q \in from .. end - 1 BY <1>1, StartsRange
<1>7. \A q : q \in Starts(buf, p, end) <=> q \in Starts(buf, from, end) /\ (q = -1 \/ q >= p)
  BY DEF On
<1>8. p \in Starts(buf, from, end) BY <1>3, <1>7
<1>9. p \notin Passed(buf, from, end, p) BY <1>1 DEF Passed
<1>10. \A q : q \in Starts(buf, n, end) <=> q \in Starts(buf, from, end) /\ (q = -1 \/ q >= n)
  <2>1. ASSUME NEW q \in Starts(buf, n, end)
        PROVE  q \in Starts(buf, from, end) /\ (q = -1 \/ q >= n)
    <3>1. q \in Starts(buf, p, end) BY <1>3
    <3>2. q = -1 \/ q >= n BY <1>2, <1>5
    <3> QED BY <1>7, <3>1, <3>2
  <2>2. ASSUME NEW q \in Starts(buf, from, end), q = -1 \/ q >= n PROVE q \in Starts(buf, n, end)
    <3>1. q = -1 \/ q \in from .. end - 1 BY <1>6
    <3>2. q # p /\ (q = -1 \/ q >= p) BY <1>1, <1>2, <2>2, <3>1
    <3>3. q \in Starts(buf, p, end) BY <1>7, <3>2
    <3> QED BY <1>3, <3>2, <3>3
  <2> QED BY <2>1, <2>2
<1>11. On(buf, from, end, n) BY <1>1, <1>4, <1>10 DEF On
<1>12. ASSUME NEW q \in Starts(buf, from, end), q # -1
       PROVE  q < n <=> q < p \/ q = p
  <2>1. q \in from .. end - 1 BY <1>6, <1>12
  <2>2. ASSUME q >= p, q # p PROVE q >= n
    <3>1. q \in Starts(buf, p, end) BY <1>7, <2>2
    <3>2. q \in n .. end - 1 BY <1>3, <1>5, <1>12, <2>2, <3>1
    <3> QED BY <1>2, <3>2
  <2> QED BY <1>1, <1>2, <2>1, <2>2
<1>13. p # -1 BY <1>1
<1>14. Passed(buf, from, end, n) = Passed(buf, from, end, p) \cup {p}
  BY <1>8, <1>12, <1>13 DEF Passed
<1> QED BY <1>8, <1>9, <1>11, <1>14 DEF n

\* Where none starts, the TLVs do not fill the part.
LEMMA OnBad ==
  ASSUME NEW buf \in Seq(0 .. 255), NEW end \in Nat, NEW from, NEW p,
         On(buf, from, end, p), p # end, ~Whole(buf, p, end)
  PROVE  -1 \in Starts(buf, from, end)
<1>1. p \in 0 .. end BY DEF On
<1>2. -1 \in Starts(buf, p, end) BY <1>1, StartsIs
<1> QED BY <1>2 DEF On

\* At the end all of them are passed, and they fill the part.
LEMMA OnEnd ==
  ASSUME NEW buf \in Seq(0 .. 255), NEW end \in Nat, NEW from, On(buf, from, end, end)
  PROVE  -1 \notin Starts(buf, from, end) /\ Passed(buf, from, end, end) = Starts(buf, from, end)
<1>1. end \in 0 .. end /\ from \in 0 .. end BY DEF On
<1>2. Starts(buf, end, end) = {} BY <1>1, StartsIs
<1>3. \A q : ~(q \in Starts(buf, from, end) /\ (q = -1 \/ q >= end)) BY <1>2 DEF On
<1>4. \A q \in Starts(buf, from, end) : q = -1 \/ q \in from .. end - 1 BY <1>1, StartsRange
<1>5. \A q \in Starts(buf, from, end) : q # -1 /\ q < end BY <1>1, <1>3, <1>4
<1> QED BY <1>3, <1>5 DEF Passed

-----------------------------------------------------------------------------
(* Values.                                                                 *)

\* A number of four octets, as the bytes it is made of.
LEMMA NumberOf ==
  ASSUME NEW buf \in Seq(0 .. 255), NEW p \in Nat
  PROVE  decode_asn1_number(buf, p, 4) =
           <<256 * Byte(buf, p) + Byte(buf, p + 1), 256 * Byte(buf, p + 2) + Byte(buf, p + 3)>>
<1>1. /\ p + 4 - 1 - 3 = p /\ p + 4 - 1 - 2 = p + 1
      /\ p + 4 - 1 - 1 = p + 2 /\ p + 4 - 1 - 0 = p + 3
  OBVIOUS
<1>2. /\ Octet(buf, p, 4, 3) = Byte(buf, p) /\ Octet(buf, p, 4, 2) = Byte(buf, p + 1)
      /\ Octet(buf, p, 4, 1) = Byte(buf, p + 2) /\ Octet(buf, p, 4, 0) = Byte(buf, p + 3)
  BY <1>1 DEF Octet
<1> QED BY <1>2 DEF decode_asn1_number

\* A byte, as a number.
LEMMA ByteSmall ==
  ASSUME NEW buf \in Seq(0 .. 255), NEW p \in Nat
  PROVE  Byte(buf, p) \in Nat /\ Byte(buf, p) < 256
<1>1. p \in Int OBVIOUS
<1>2. Byte(buf, p) \in 0 .. 255 BY <1>1, ByteType
<1>3. \A x \in 0 .. 255 : x \in Nat /\ x < 256 OBVIOUS
<1> QED BY <1>2, <1>3

\* Two bytes are told by the half they make.
LEMMA HalfTells ==
  ASSUME NEW a \in Nat, NEW b \in Nat, NEW c \in Nat, NEW d \in Nat, b < 256, d < 256
  PROVE  256 * a + b = 256 * c + d <=> a = c /\ b = d
OBVIOUS

\* Equal numbers have equal bytes.
LEMMA SameNumber ==
  ASSUME NEW buf \in Seq(0 .. 255), NEW p \in Nat, NEW q \in Nat
  PROVE  decode_asn1_number(buf, p, 4) = decode_asn1_number(buf, q, 4)
           <=> \A i \in 0 .. 3 : Byte(buf, p + i) = Byte(buf, q + i)
<1> DEFINE x0 == Byte(buf, p)
           x1 == Byte(buf, p + 1)
           x2 == Byte(buf, p + 2)
           x3 == Byte(buf, p + 3)
           y0 == Byte(buf, q)
           y1 == Byte(buf, q + 1)
           y2 == Byte(buf, q + 2)
           y3 == Byte(buf, q + 3)
<1>9. /\ p + 1 \in Nat /\ p + 2 \in Nat /\ p + 3 \in Nat
      /\ q + 1 \in Nat /\ q + 2 \in Nat /\ q + 3 \in Nat
  OBVIOUS
<1>1. x0 \in Nat /\ x1 \in Nat /\ x1 < 256 /\ x2 \in Nat /\ x3 \in Nat /\ x3 < 256
  BY <1>9, ByteSmall
<1>2. y0 \in Nat /\ y1 \in Nat /\ y1 < 256 /\ y2 \in Nat /\ y3 \in Nat /\ y3 < 256
  BY <1>9, ByteSmall
<1>3. decode_asn1_number(buf, p, 4) = <<256 * x0 + x1, 256 * x2 + x3>> BY NumberOf, ZenonT(40)
<1>7. decode_asn1_number(buf, q, 4) = <<256 * y0 + y1, 256 * y2 + y3>> BY NumberOf, ZenonT(40)
<1>4. (\A i \in 0 .. 3 : Byte(buf, p + i) = Byte(buf, q + i))
        <=> x0 = y0 /\ x1 = y1 /\ x2 = y2 /\ x3 = y3
  <2>1. \A i \in 0 .. 3 : i = 0 \/ i = 1 \/ i = 2 \/ i = 3 OBVIOUS
  <2>2. 0 \in 0 .. 3 /\ 1 \in 0 .. 3 /\ 2 \in 0 .. 3 /\ 3 \in 0 .. 3 OBVIOUS
  <2>3. p + 0 = p /\ q + 0 = q OBVIOUS
  <2> QED BY <2>1, <2>2, <2>3
<1> HIDE DEF x0, x1, x2, x3, y0, y1, y2, y3
<1>5. 256 * x0 + x1 = 256 * y0 + y1 <=> x0 = y0 /\ x1 = y1 BY <1>1, <1>2, HalfTells
<1>8. 256 * x2 + x3 = 256 * y2 + y3 <=> x2 = y2 /\ x3 = y3 BY <1>1, <1>2, HalfTells
<1>6. <<256 * x0 + x1, 256 * x2 + x3>> = <<256 * y0 + y1, 256 * y2 + y3>>
        <=> 256 * x0 + x1 = 256 * y0 + y1 /\ 256 * x2 + x3 = 256 * y2 + y3
  OBVIOUS
<1> QED BY <1>3, <1>4, <1>5, <1>6, <1>7, <1>8

\* A number is zero when its bytes are.
LEMMA ZeroNumber ==
  ASSUME NEW buf \in Seq(0 .. 255), NEW p \in Nat
  PROVE  decode_asn1_number(buf, p, 4) = <<0, 0>> <=> \A i \in 0 .. 3 : Byte(buf, p + i) = 0
<1> DEFINE x0 == Byte(buf, p)
           x1 == Byte(buf, p + 1)
           x2 == Byte(buf, p + 2)
           x3 == Byte(buf, p + 3)
<1>1. p + 1 \in Nat /\ p + 2 \in Nat /\ p + 3 \in Nat OBVIOUS
<1>5. x0 \in Nat /\ x1 \in Nat /\ x2 \in Nat /\ x3 \in Nat BY <1>1, ByteSmall
<1>3. decode_asn1_number(buf, p, 4) = <<256 * x0 + x1, 256 * x2 + x3>> BY NumberOf, ZenonT(40)
<1>4. (\A i \in 0 .. 3 : Byte(buf, p + i) = 0) <=> x0 = 0 /\ x1 = 0 /\ x2 = 0 /\ x3 = 0
  <2>1. \A i \in 0 .. 3 : i = 0 \/ i = 1 \/ i = 2 \/ i = 3 OBVIOUS
  <2>2. 0 \in 0 .. 3 /\ 1 \in 0 .. 3 /\ 2 \in 0 .. 3 /\ 3 \in 0 .. 3 OBVIOUS
  <2>3. p + 0 = p OBVIOUS
  <2> QED BY <2>1, <2>2, <2>3
<1> HIDE DEF x0, x1, x2, x3
<1>6. /\ 256 * x0 + x1 = 0 <=> x0 = 0 /\ x1 = 0
      /\ 256 * x2 + x3 = 0 <=> x2 = 0 /\ x3 = 0
  BY <1>5
<1>7. <<256 * x0 + x1, 256 * x2 + x3>> = <<0, 0>> <=> 256 * x0 + x1 = 0 /\ 256 * x2 + x3 = 0
  OBVIOUS
<1> QED BY <1>3, <1>4, <1>6, <1>7

\* The revisions that two ASDUs give are equal when their bytes are.
LEMMA SameBytes ==
  ASSUME NEW buf \in Seq(0 .. 255), NEW t, NEW u,
         t.from \in Nat, u.from \in Nat, t.to = t.from + 4, u.to = u.from + 4
  PROVE  Bytes(buf, t) = Bytes(buf, u)
           <=> decode_asn1_number(buf, t.from, 4) = decode_asn1_number(buf, u.from, 4)
<1> DEFINE p == t.from
           q == u.from
<1>1. /\ Bytes(buf, t) = [k \in 1 .. 4 |-> Byte(buf, p + k - 1)]
      /\ Bytes(buf, u) = [k \in 1 .. 4 |-> Byte(buf, q + k - 1)]
  <2>1. t.to - t.from = 4 /\ u.to - u.from = 4 OBVIOUS
  <2> QED BY <2>1 DEF Bytes, View
<1>2. p \in Nat /\ q \in Nat OBVIOUS
<1>3. decode_asn1_number(buf, p, 4) = decode_asn1_number(buf, q, 4)
           <=> \A i \in 0 .. 3 : Byte(buf, p + i) = Byte(buf, q + i)
  BY <1>2, SameNumber
<1> HIDE DEF p, q
<1>4. ASSUME \A i \in 0 .. 3 : Byte(buf, p + i) = Byte(buf, q + i)
      PROVE  \A k \in 1 .. 4 : Byte(buf, p + k - 1) = Byte(buf, q + k - 1)
  <2> SUFFICES ASSUME NEW k \in 1 .. 4 PROVE Byte(buf, p + k - 1) = Byte(buf, q + k - 1) OBVIOUS
  <2>1. k - 1 \in 0 .. 3 /\ p + (k - 1) = p + k - 1 /\ q + (k - 1) = q + k - 1 BY <1>2
  <2>2. Byte(buf, p + (k - 1)) = Byte(buf, q + (k - 1)) BY <1>4, <2>1
  <2> QED BY <2>1, <2>2
<1>5. ASSUME \A k \in 1 .. 4 : Byte(buf, p + k - 1) = Byte(buf, q + k - 1)
      PROVE  \A i \in 0 .. 3 : Byte(buf, p + i) = Byte(buf, q + i)
  <2> SUFFICES ASSUME NEW i \in 0 .. 3 PROVE Byte(buf, p + i) = Byte(buf, q + i) OBVIOUS
  <2>1. i + 1 \in 1 .. 4 /\ p + (i + 1) - 1 = p + i /\ q + (i + 1) - 1 = q + i BY <1>2
  <2>2. Byte(buf, p + (i + 1) - 1) = Byte(buf, q + (i + 1) - 1) BY <1>5, <2>1
  <2> QED BY <2>1, <2>2
<1>6. Bytes(buf, t) = Bytes(buf, u)
        <=> \A k \in 1 .. 4 : Byte(buf, p + k - 1) = Byte(buf, q + k - 1)
  <2>1. ASSUME Bytes(buf, t) = Bytes(buf, u), NEW k \in 1 .. 4
        PROVE  Byte(buf, p + k - 1) = Byte(buf, q + k - 1)
    <3>1. Bytes(buf, t)[k] = Byte(buf, p + k - 1) BY <1>1
    <3>2. Bytes(buf, u)[k] = Byte(buf, q + k - 1) BY <1>1
    <3> QED BY <2>1, <3>1, <3>2
  <2>2. ASSUME \A k \in 1 .. 4 : Byte(buf, p + k - 1) = Byte(buf, q + k - 1)
        PROVE  Bytes(buf, t) = Bytes(buf, u)
    BY <1>1, <2>2
  <2> QED BY <2>1, <2>2
<1> QED BY <1>3, <1>4, <1>5, <1>6 DEF p, q

\* The loop over the channels sees the bytes of the data that are quality.
LEMMA QualityBytes ==
  ASSUME NEW buf \in Seq(0 .. 255), NEW t, t.from \in Nat,
         t.to = t.from + ASDU_DATA_SIZE, CHANNELS \in Nat
  PROVE  AllGood(buf, t.from)
           <=> \A k \in DOMAIN Bytes(buf, t) : (k - 1) % 8 >= 4 => Bytes(buf, t)[k] = 0
<1> DEFINE p == t.from
           n == CHANNELS * 8
<1>0. p \in Nat /\ n \in Nat OBVIOUS
<1>1. Bytes(buf, t) = [k \in 1 .. n |-> Byte(buf, p + k - 1)]
  <2>1. t.to - t.from = n BY DEF ASDU_DATA_SIZE, CHANNEL_SIZE, VALUE_SIZE, QUALITY_SIZE
  <2> QED BY <2>1 DEF Bytes, View
<1>2. AllGood(buf, p) <=> \A c \in 0 .. CHANNELS - 1 : \A i \in 0 .. 3 :
                            Byte(buf, p + 4 + c * 8 + i) = 0
  <2>1. ASSUME NEW c \in 0 .. CHANNELS - 1
        PROVE  Good(buf, p, c) <=> \A i \in 0 .. 3 : Byte(buf, p + 4 + c * 8 + i) = 0
    <3>1. p + 4 + c * 8 \in Nat BY <1>0
    <3>2. Good(buf, p, c) <=> decode_asn1_number(buf, p + 4 + c * 8, 4) = <<0, 0>>
      BY DEF Good, QualityAt, CHANNEL_SIZE, VALUE_SIZE, QUALITY_SIZE, QUALITY_GOOD
    <3> QED BY <3>1, <3>2, ZeroNumber
  <2> QED BY <2>1 DEF AllGood
<1> HIDE DEF p
<1>3. ASSUME AllGood(buf, p), NEW k \in 1 .. n, (k - 1) % 8 >= 4
      PROVE  Byte(buf, p + k - 1) = 0
  <2> DEFINE c == (k - 1) \div 8
             m == (k - 1) % 8
  <2>1. c \in Nat /\ m \in Nat /\ m < 8 /\ k - 1 = 8 * c + m
    <3>1. k - 1 \in Nat /\ 8 \in Nat \ {0} OBVIOUS
    <3> QED BY <3>1, Numbers!DivMod
  <2>2. m >= 4 BY <1>3
  <2> HIDE DEF c, m
  <2>3. k - 1 < CHANNELS * 8 BY <1>0
  <2>4. c \in 0 .. CHANNELS - 1 BY <2>1, <2>3
  <2>5. m - 4 \in 0 .. 3 /\ p + 4 + c * 8 + (m - 4) = p + k - 1 BY <1>0, <2>1, <2>2
  <2>6. Byte(buf, p + 4 + c * 8 + (m - 4)) = 0 BY <1>2, <1>3, <2>4, <2>5
  <2> QED BY <2>5, <2>6
<1>4. ASSUME \A k \in 1 .. n : (k - 1) % 8 >= 4 => Byte(buf, p + k - 1) = 0,
             NEW c \in 0 .. CHANNELS - 1, NEW i \in 0 .. 3
      PROVE  Byte(buf, p + 4 + c * 8 + i) = 0
  <2> DEFINE k == 8 * c + 4 + i + 1
  <2>1. k \in 1 .. n
    <3>1. c \in Nat /\ c <= CHANNELS - 1 OBVIOUS
    <3> QED BY <3>1
  <2>2. (k - 1) % 8 = 4 + i
    <3>1. /\ 8 \in Nat \ {0} /\ c \in Nat /\ 4 + i \in Nat /\ 4 + i < 8
          /\ k - 1 \in Nat /\ k - 1 = 8 * c + (4 + i)
      OBVIOUS
    <3> HIDE DEF k
    <3> QED BY <3>1, Numbers!ModUnique
  <2>3. p + k - 1 = p + 4 + c * 8 + i BY <1>0
  <2> HIDE DEF k
  <2>4. 4 + i >= 4 OBVIOUS
  <2> QED BY <1>4, <2>1, <2>2, <2>3, <2>4
<1>5. AllGood(buf, p) <=> \A k \in 1 .. n : (k - 1) % 8 >= 4 => Byte(buf, p + k - 1) = 0
  BY <1>2, <1>3, <1>4
<1>6. DOMAIN Bytes(buf, t) = 1 .. n /\ \A k \in 1 .. n : Bytes(buf, t)[k] = Byte(buf, p + k - 1)
  BY <1>1
<1> QED BY <1>5, <1>6 DEF p

-----------------------------------------------------------------------------
(* ASDUs.                                                                  *)

\* The places Inside finds, when they fill the TLV.
LEMMA InsideRange ==
  ASSUME NEW buf \in Seq(0 .. 255), NEW a \in Nat
  PROVE  /\ Tlv(buf, a).to \in Nat /\ Tlv(buf, a).from \in 0 .. Tlv(buf, a).to
         /\ IsFiniteSet(Inside(buf, a))
         /\ \A p \in Inside(buf, a) : p = -1 \/ p \in Nat
<1> DEFINE f == Tlv(buf, a).from
           l == Tlv(buf, a).length
           e == Tlv(buf, a).to
<1>1. f \in Nat /\ l \in Nat /\ e \in Nat /\ e = f + l BY TlvType
<1>5. Inside(buf, a) = Starts(buf, f, e) BY DEF Inside
<1> HIDE DEF f, l, e
<1>2. f \in 0 .. e BY <1>1
<1>3. /\ IsFiniteSet(Starts(buf, f, e))
      /\ \A p \in Starts(buf, f, e) : p = -1 \/ p \in f .. e - 1
  BY <1>1, <1>2, StartsRange
<1>4. \A p \in Starts(buf, f, e) : p = -1 \/ p \in Nat BY <1>1, <1>3
<1> QED BY <1>1, <1>2, <1>3, <1>4, <1>5 DEF f, e

\* The length Field accepts is the length the field has to have.
LEMMA FieldRule ==
  ASSUME NEW tag \in Nat, NEW length \in Nat
  PROVE  FieldLength(tag, length)
           <=> /\ tag \in 128 .. 136
               /\ IF tag \in {128, 129} THEN length > 0 ELSE length = FixedLength[tag]
<1>1. CASE tag \in {128, 129} BY <1>1 DEF FieldLength
<1>2. CASE tag \in 130 .. 136
  <2>1. FixedLength[tag] = CASE tag = 131 -> 4 [] tag = 132 -> 8 [] tag = 133 -> 1
                             [] tag = 135 -> ASDU_DATA_SIZE [] OTHER -> 2
    BY <1>2 DEF FixedLength
  <2>2. CASE tag \in {130, 134, 136} BY <2>1, <2>2 DEF FieldLength
  <2>3. CASE tag = 131 BY <2>1, <2>3 DEF FieldLength
  <2>4. CASE tag = 132 BY <2>1, <2>4 DEF FieldLength
  <2>5. CASE tag = 133 BY <2>1, <2>5 DEF FieldLength
  <2>6. CASE tag = 135 BY <2>1, <2>6 DEF FieldLength
  <2> QED BY <1>2, <2>2, <2>3, <2>4, <2>5, <2>6
<1>3. CASE tag \notin 128 .. 136 BY <1>3 DEF FieldLength
<1> QED BY <1>1, <1>2, <1>3

\* A place where Field finds a field it accepts.
Accepted(buf, p) == FieldLength(Tlv(buf, p).tag, Tlv(buf, p).length)

\* The form of an ASDU, in the terms of Field.
LEMMA AsduForm ==
  ASSUME NEW buf \in Seq(0 .. 255), NEW a \in Nat
  PROVE  IsAsdu(buf, a) <=>
           /\ Tlv(buf, a).tag = 48 /\ -1 \notin Inside(buf, a)
           /\ \A p, q \in Inside(buf, a) : p < q => Tlv(buf, p).tag < Tlv(buf, q).tag
           /\ \A p \in Inside(buf, a) : Accepted(buf, p)
           /\ Mandatory \subseteq {Tlv(buf, p).tag : p \in Inside(buf, a)}
<1> DEFINE starts == Inside(buf, a)
           Rule(p) == /\ Tlv(buf, p).tag \in 128 .. 136
                      /\ IF Tlv(buf, p).tag \in {128, 129} THEN Tlv(buf, p).length > 0
                         ELSE Tlv(buf, p).length = FixedLength[Tlv(buf, p).tag]
<1>1. ASSUME -1 \notin starts, NEW p \in starts PROVE Accepted(buf, p) <=> Rule(p)
  <2>1. p \in Nat BY <1>1, InsideRange
  <2>2. Tlv(buf, p).tag \in Nat /\ Tlv(buf, p).length \in Nat BY <2>1, TlvType
  <2> QED BY <2>2, FieldRule DEF Accepted
<1>2. (/\ {Tlv(buf, p).tag : p \in starts} \subseteq 128 .. 136
       /\ \A p \in starts : IF Tlv(buf, p).tag \in {128, 129} THEN Tlv(buf, p).length > 0
                            ELSE Tlv(buf, p).length = FixedLength[Tlv(buf, p).tag])
        <=> \A p \in starts : Rule(p)
  BY ZenonT(40)
<1>3. IsAsdu(buf, a) <=>
           /\ Tlv(buf, a).tag = 48 /\ -1 \notin starts
           /\ \A p, q \in starts : p < q => Tlv(buf, p).tag < Tlv(buf, q).tag
           /\ \A p \in starts : Rule(p)
           /\ Mandatory \subseteq {Tlv(buf, p).tag : p \in starts}
  BY <1>2 DEF IsAsdu
<1> HIDE DEF starts, Rule
<1>4. -1 \notin starts => ((\A p \in starts : Accepted(buf, p)) <=> (\A p \in starts : Rule(p)))
  BY <1>1
<1> QED BY <1>3, <1>4 DEF starts

\* A tag tells a field of an ASDU.
LEMMA FieldOfIs ==
  ASSUME NEW buf \in Seq(0 .. 255), NEW a \in Nat, IsAsdu(buf, a), NEW p \in Inside(buf, a)
  PROVE  FieldOf(buf, a, Tlv(buf, p).tag) = Tlv(buf, p)
<1> DEFINE starts == Inside(buf, a)
           tag == Tlv(buf, p).tag
<1>1. /\ -1 \notin starts
      /\ \A q, r \in starts : q < r => Tlv(buf, q).tag < Tlv(buf, r).tag
  BY DEF IsAsdu
<1>2. \A q \in starts : q \in Nat BY <1>1, InsideRange
<1>3. \A q \in starts : Tlv(buf, q).tag \in Nat BY <1>2, TlvType
<1>4. ASSUME NEW q \in starts, Tlv(buf, q).tag = tag PROVE q = p
  <2>1. p \in Nat /\ q \in Nat /\ p \in starts BY <1>2
  <2>2. ~(q < p) /\ ~(p < q)
    <3>1. tag \in Nat BY <1>3
    <3>2. ~(tag < tag) BY <3>1
    <3> QED BY <1>1, <1>4, <2>1, <3>2
  <2> QED BY <2>1, <2>2
<1>5. \A t \in {Tlv(buf, q) : q \in starts} : t.tag = tag => t = Tlv(buf, p) BY <1>4
<1>6. Tlv(buf, p) \in {Tlv(buf, q) : q \in starts} /\ Tlv(buf, p).tag = tag OBVIOUS
<1> HIDE DEF tag
<1>7. FieldOf(buf, a, tag) = Tlv(buf, p) BY <1>5, <1>6 DEF FieldOf
<1> QED BY <1>7 DEF tag

\* An ASDU has its mandatory fields, with the lengths Field demands.
LEMMA FieldOfType ==
  ASSUME NEW buf \in Seq(0 .. 255), NEW a \in Nat, IsAsdu(buf, a), NEW tag \in Mandatory
  PROVE  \E p \in Inside(buf, a) :
           /\ p \in Nat /\ Tlv(buf, p).tag = tag /\ FieldOf(buf, a, tag) = Tlv(buf, p)
           /\ FieldLength(tag, Tlv(buf, p).length)
           /\ Tlv(buf, p).from \in Nat /\ Tlv(buf, p).length \in Nat
           /\ Tlv(buf, p).to = Tlv(buf, p).from + Tlv(buf, p).length
<1>1. /\ -1 \notin Inside(buf, a) /\ \A p \in Inside(buf, a) : Accepted(buf, p)
      /\ Mandatory \subseteq {Tlv(buf, p).tag : p \in Inside(buf, a)}
  BY AsduForm
<1>2. PICK p \in Inside(buf, a) : Tlv(buf, p).tag = tag BY <1>1
<1>3. p \in Nat BY <1>1, InsideRange
<1>4. FieldOf(buf, a, tag) = Tlv(buf, p) BY <1>2, FieldOfIs
<1>5. FieldLength(tag, Tlv(buf, p).length) BY <1>1, <1>2 DEF Accepted
<1>6. /\ Tlv(buf, p).from \in Nat /\ Tlv(buf, p).length \in Nat
      /\ Tlv(buf, p).to = Tlv(buf, p).from + Tlv(buf, p).length
  BY <1>3, TlvType
<1> QED BY <1>2, <1>3, <1>4, <1>5, <1>6

\* Revision and data of an ASDU: where they are.
LEMMA FixedFields ==
  ASSUME NEW buf \in Seq(0 .. 255), NEW a \in Nat, IsAsdu(buf, a)
  PROVE  /\ FieldOf(buf, a, 131).from \in Nat
         /\ FieldOf(buf, a, 131).to = FieldOf(buf, a, 131).from + 4
         /\ FieldOf(buf, a, 135).from \in Nat
         /\ FieldOf(buf, a, 135).to = FieldOf(buf, a, 135).from + ASDU_DATA_SIZE
<1>1. 131 \in Mandatory /\ 135 \in Mandatory BY DEF Mandatory
<1>2. PICK p \in Inside(buf, a) :
        /\ FieldOf(buf, a, 131) = Tlv(buf, p) /\ FieldLength(131, Tlv(buf, p).length)
        /\ Tlv(buf, p).from \in Nat /\ Tlv(buf, p).to = Tlv(buf, p).from + Tlv(buf, p).length
  BY <1>1, FieldOfType
<1>3. PICK q \in Inside(buf, a) :
        /\ FieldOf(buf, a, 135) = Tlv(buf, q) /\ FieldLength(135, Tlv(buf, q).length)
        /\ Tlv(buf, q).from \in Nat /\ Tlv(buf, q).to = Tlv(buf, q).from + Tlv(buf, q).length
  BY <1>1, FieldOfType
<1>4. Tlv(buf, p).length = 4 BY <1>2 DEF FieldLength
<1>5. Tlv(buf, q).length = ASDU_DATA_SIZE BY <1>3 DEF FieldLength
<1> QED BY <1>2, <1>3, <1>4, <1>5

-----------------------------------------------------------------------------
(* The PDU, and how far the walk has come in it.                           *)

SequenceFrom(buf) == Tlv(buf, SequenceAt(buf)).from
SequenceTo(buf) == Tlv(buf, SequenceAt(buf)).to

\* What Pdu, NoAsdu and Sequence have established when the walk goes on.
PduTaken(buf) == Whole(buf, 0, Len(buf)) /\ Tlv(buf, 0).tag = 96

NumberTaken(buf) ==
  /\ PduTaken(buf)
  /\ Whole(buf, NumAt(buf), Tlv(buf, 0).to)
  /\ Tlv(buf, NumAt(buf)).tag = 128 /\ Tlv(buf, NumAt(buf)).length \in {1, 2}
  /\ Declared(buf) # 0

SequenceTaken(buf) ==
  /\ NumberTaken(buf)
  /\ Whole(buf, SequenceAt(buf), Tlv(buf, 0).to)
  /\ Tlv(buf, SequenceAt(buf)).tag = 162 /\ SequenceTo(buf) = Tlv(buf, 0).to

\* An ASDU that is passed has the form, is good, and has the identifier and the
\* revision that the caller will get.
Checked(a) ==
  /\ IsAsdu(apdu, a) /\ AllGood(apdu, FieldOf(apdu, a, 135).from)
  /\ View(apdu, passport.svid) = Bytes(apdu, FieldOf(apdu, a, 128))
  /\ passport.crev = decode_asn1_number(apdu, FieldOf(apdu, a, 131).from, 4)

\* The ASDUs before p are passed; the first has given the sample number.
PassedAsdus(p) == Passed(apdu, SequenceFrom(apdu), SequenceTo(apdu), p)

Walked(p) ==
  /\ On(apdu, SequenceFrom(apdu), SequenceTo(apdu), p)
  /\ actualAsdus = Cardinality(PassedAsdus(p))
  /\ \A a \in PassedAsdus(p) : Checked(a)
  /\ \/ p = SequenceFrom(apdu)
     \/ /\ SequenceFrom(apdu) \in PassedAsdus(p)
        /\ state.smpCnt =
             decode_asn1_number(apdu, FieldOf(apdu, SequenceFrom(apdu), 130).from, 2)[2]

\* What Field has kept of a field.
Kept(p) ==
  /\ Tlv(apdu, p).tag = 128 => svid = <<Tlv(apdu, p).from, Tlv(apdu, p).to>>
  /\ Tlv(apdu, p).tag = 130 => smpCnt = decode_asn1_number(apdu, Tlv(apdu, p).from, 2)[2]
  /\ Tlv(apdu, p).tag = 131 => confRev = decode_asn1_number(apdu, Tlv(apdu, p).from, 4)
  /\ Tlv(apdu, p).tag = 135 => AllGood(apdu, Tlv(apdu, p).from)

\* The fields of ASDU a before the place of the walk are passed.
PassedFields(a) == Passed(apdu, Tlv(apdu, a).from, Tlv(apdu, a).to, pos)

InAsdu(a) ==
  /\ asduEnd = Tlv(apdu, a).to
  /\ On(apdu, Tlv(apdu, a).from, Tlv(apdu, a).to, pos)
  /\ \A p \in PassedFields(a) : Accepted(apdu, p) /\ Kept(p) /\ Tlv(apdu, p).tag <= previousTag
  /\ \A p, q \in PassedFields(a) : p < q => Tlv(apdu, p).tag < Tlv(apdu, q).tag
  /\ previousTag = 0 \/ \E p \in PassedFields(a) : Tlv(apdu, p).tag = previousTag
  /\ found = {Tlv(apdu, p).tag : p \in PassedFields(a)}

AtAsdu(a) ==
  /\ a # SequenceTo(apdu) /\ Whole(apdu, a, SequenceTo(apdu)) /\ Tlv(apdu, a).tag = 48
  /\ Walked(a) /\ InAsdu(a)

WalkInv ==
  /\ pc = "pdu" => pos = 0
  /\ pc = "noASDU" => PduTaken(apdu) /\ pos = NumAt(apdu) /\ pduEnd = Tlv(apdu, 0).to
  /\ pc = "sequence" => /\ NumberTaken(apdu) /\ pos = SequenceAt(apdu)
                        /\ pduEnd = Tlv(apdu, 0).to
  /\ pc \in {"sequence", "asdu", "field"} => passport.num = Declared(apdu)
  /\ pc \in {"asdu", "field"} => SequenceTaken(apdu) /\ sequenceEnd = SequenceTo(apdu)
  /\ pc = "asdu" => Walked(pos)
  /\ pc = "field" => \E a \in Asdus(apdu) : AtAsdu(a)
  /\ VerdictIsRight

\* The places of the TLVs of a PDU.
LEMMA HeadType ==
  ASSUME NEW buf \in Seq(0 .. 255)
  PROVE  /\ Tlv(buf, 0).to \in Nat /\ NumAt(buf) \in 0 .. Tlv(buf, 0).to
         /\ NumAt(buf) \in Nat /\ SequenceAt(buf) \in Nat /\ NumAt(buf) + 2 <= SequenceAt(buf)
         /\ SequenceTo(buf) \in Nat /\ SequenceFrom(buf) \in 0 .. SequenceTo(buf)
         /\ SequenceFrom(buf) \in Nat /\ SequenceAt(buf) + 2 <= SequenceFrom(buf)
         /\ Tlv(buf, NumAt(buf)).from \in Nat /\ Tlv(buf, NumAt(buf)).length \in Nat
         /\ SequenceAt(buf) = Tlv(buf, NumAt(buf)).from + Tlv(buf, NumAt(buf)).length
<1> DEFINE n == NumAt(buf)
           s == SequenceAt(buf)
<1>1. Tlv(buf, 0).to \in Nat /\ n \in 0 .. Tlv(buf, 0).to
  <2>1. 0 \in Nat OBVIOUS
  <2> QED BY <2>1, InsideRange DEF NumAt
<1>2. n \in Nat BY <1>1
<1> HIDE DEF n
<1>3. /\ Tlv(buf, n).from \in Nat /\ Tlv(buf, n).length \in Nat /\ n + 2 <= Tlv(buf, n).from
      /\ Tlv(buf, n).to \in Nat /\ Tlv(buf, n).to = Tlv(buf, n).from + Tlv(buf, n).length
  BY <1>2, TlvType
<1>4. s = Tlv(buf, n).to BY DEF SequenceAt, n
<1> HIDE DEF s
<1>5. s \in Nat /\ n + 2 <= s /\ s = Tlv(buf, n).from + Tlv(buf, n).length BY <1>2, <1>3, <1>4
<1>6. /\ Tlv(buf, s).to \in Nat /\ Tlv(buf, s).from \in 0 .. Tlv(buf, s).to
  BY <1>5, InsideRange
<1>7. Tlv(buf, s).from \in Nat /\ s + 2 <= Tlv(buf, s).from BY <1>5, TlvType
<1> QED BY <1>1, <1>2, <1>3, <1>5, <1>6, <1>7 DEF n, s, SequenceFrom, SequenceTo

\* Where the ASDUs of a PDU start.
LEMMA AsdusAre ==
  ASSUME NEW buf
  PROVE  Asdus(buf) = Starts(buf, SequenceFrom(buf), SequenceTo(buf))
BY DEF Asdus, Inside, SequenceFrom, SequenceTo

\* What is left to be right when Sequence has succeeded.
AsdusRight(buf) ==
  /\ -1 \notin Asdus(buf) /\ \A a \in Asdus(buf) : IsAsdu(buf, a)
  /\ Asdus(buf) # {} /\ Cardinality(Asdus(buf)) = Declared(buf)
  /\ \A a, c \in Asdus(buf), tag \in {128, 131} :
       Bytes(buf, FieldOf(buf, a, tag)) = Bytes(buf, FieldOf(buf, c, tag))

\* The walk of the PDU: the number, then the sequence, then nothing.
LEMMA PduWalk ==
  ASSUME NEW buf \in Seq(0 .. 255), NEW end, NEW n, NEW s,
         end = Tlv(buf, 0).to, n = NumAt(buf), s = SequenceAt(buf)
  PROVE  Inside(buf, 0) = {n, s}
           <=> Whole(buf, n, end) /\ Whole(buf, s, end) /\ Tlv(buf, s).to = end
<1>1. /\ end \in Nat /\ n \in 0 .. end /\ n \in Nat /\ s \in Nat /\ n + 2 <= s /\ s = Tlv(buf, n).to
      /\ Inside(buf, 0) = Starts(buf, n, end) /\ Tlv(buf, s).to \in Nat
      /\ s + 2 <= Tlv(buf, s).from /\ Tlv(buf, s).from <= Tlv(buf, s).to
  <2>1. /\ end \in Nat /\ n \in 0 .. end /\ n \in Nat /\ s \in Nat /\ n + 2 <= s
        /\ Tlv(buf, s).to \in Nat /\ Tlv(buf, s).from \in 0 .. Tlv(buf, s).to
        /\ s + 2 <= Tlv(buf, s).from
    BY HeadType, Zenon DEF SequenceTo, SequenceFrom
  <2>2. s = Tlv(buf, n).to BY DEF SequenceAt
  <2>3. Inside(buf, 0) = Starts(buf, n, end) BY DEF Inside, NumAt
  <2> QED BY <2>1, <2>2, <2>3
<1> DEFINE e == Tlv(buf, s).to
<1>2. e \in Nat /\ s + 2 <= e
  <2> DEFINE f == Tlv(buf, s).from
  <2>1. /\ e \in Nat /\ s + 2 <= f /\ f <= e BY <1>1
  <2>2. f \in Nat BY <1>1, TlvType
  <2> HIDE DEF e, f
  <2> QED BY <1>1, <2>1, <2>2
<1> HIDE DEF e
<1>3. ASSUME n = end PROVE Inside(buf, 0) # {n, s} /\ ~Whole(buf, n, end)
  <2>1. Starts(buf, n, end) = {} BY <1>1, <1>3, StartsIs
  <2>2. ~(n + 2 <= end) BY <1>1, <1>3
  <2> QED BY <1>1, <2>1, <2>2, ZenonT(40) DEF Whole
<1>4. ASSUME n # end, ~Whole(buf, n, end) PROVE Inside(buf, 0) # {n, s}
  <2>1. Starts(buf, n, end) = {-1} BY <1>1, <1>4, StartsIs
  <2>2. n # -1 BY <1>1
  <2> QED BY <1>1, <2>1, <2>2
<1>5. ASSUME n # end, Whole(buf, n, end)
      PROVE  Inside(buf, 0) = {n, s} <=> Whole(buf, s, end) /\ e = end
  <2>1. Starts(buf, n, end) = {n} \cup Starts(buf, s, end) BY <1>1, <1>5, StartsIs
  <2>2. s \in 0 .. end
    <3>1. s <= end BY <1>1, <1>5 DEF Whole
    <3> QED BY <1>1, <3>1
  <2>3. n # s /\ n # -1 /\ s # -1 BY <1>1
  <2>4. CASE s = end
    <3>1. Starts(buf, s, end) = {} BY <1>1, <2>2, <2>4, StartsIs
    <3>2. ~(s + 2 <= end) BY <1>1, <2>4
    <3> QED BY <1>1, <2>1, <2>3, <3>1, <3>2, ZenonT(40) DEF Whole
  <2>5. CASE s # end /\ ~Whole(buf, s, end)
    <3>1. Starts(buf, s, end) = {-1} BY <1>1, <2>2, <2>5, StartsIs
    <3> QED BY <1>1, <2>1, <2>3, <2>5, <3>1, ZenonT(40)
  <2>6. CASE s # end /\ Whole(buf, s, end)
    <3>1. Starts(buf, s, end) = {s} \cup Starts(buf, e, end)
      BY <1>1, <2>2, <2>6, StartsIs DEF e
    <3>2. e <= end /\ e \in 0 .. end
      <4>1. e <= end BY <2>6 DEF Whole, e
      <4> QED BY <1>2, <4>1
    <3>3. CASE e = end
      <4>1. Starts(buf, e, end) = {} BY <1>1, <3>2, <3>3, StartsIs
      <4> QED BY <1>1, <2>1, <2>6, <3>1, <3>3, <4>1
    <3>4. CASE e # end
      <4>1. -1 \in Starts(buf, e, end) \/ e \in Starts(buf, e, end)
        BY <1>1, <3>2, <3>4, StartsIs, SMTT(30)
      <4>2. e # n /\ e # s BY <1>1, <1>2
      <4> QED BY <1>1, <2>1, <2>3, <3>1, <3>4, <4>1, <4>2
    <3> QED BY <3>3, <3>4
  <2> QED BY <2>4, <2>5, <2>6
<1> QED BY <1>3, <1>4, <1>5 DEF e

\* The form of a PDU, in the terms of the walk.
LEMMA PduForm ==
  ASSUME NEW buf \in Seq(0 .. 255)
  PROVE  IsPdu(buf) <=> SequenceTaken(buf) /\ AsdusRight(buf)
<1>1. Inside(buf, 0) = {NumAt(buf), SequenceAt(buf)}
        <=> /\ Whole(buf, NumAt(buf), Tlv(buf, 0).to) /\ Whole(buf, SequenceAt(buf), Tlv(buf, 0).to)
            /\ SequenceTo(buf) = Tlv(buf, 0).to
  BY PduWalk, Zenon DEF SequenceTo
<1>2. AsdusRight(buf) => Declared(buf) # 0
  <2>1. SequenceAt(buf) \in Nat BY HeadType
  <2>2. IsFiniteSet(Asdus(buf)) BY <2>1, InsideRange DEF Asdus
  <2>3. Asdus(buf) # {} => Cardinality(Asdus(buf)) # 0 BY <2>2, FS_EmptySet
  <2> QED BY <2>3 DEF AsdusRight
<1> QED BY <1>1, <1>2 DEF IsPdu, AsdusRight, SequenceTaken, NumberTaken, PduTaken

-----------------------------------------------------------------------------
(* One step of the walk.                                                   *)

\* A step that returns an error is right when the APDU has not the form.
LEMMA Rejected ==
  ASSUME NEW code, code # 0, Return(code), UNCHANGED apdu, ~IsPdu(apdu)
  PROVE  WalkInv'
<1>1. pc' = "done" /\ verdict' = code /\ apdu' = apdu BY DEF Return
<1>2. VerdictIsRight' BY <1>1 DEF VerdictIsRight
<1> QED BY <1>1, <1>2 DEF WalkInv

\* Pdu.
LEMMA PduWalked == ASSUME IInv, WalkInv, Pdu PROVE WalkInv'
<1> DEFINE t == take_tlv(apdu, Len(apdu), pos, 96)
<1>1. apdu \in Seq(0 .. 255) /\ Len(apdu) \in Nat /\ pos = 0 /\ 0 \in Nat /\ UNCHANGED apdu
  BY LenProperties DEF IInv, Typed, Pdu, WalkInv, Reads
<1>2. /\ t.ok <=> PduTaken(apdu)
      /\ t.ok => t.pos = Tlv(apdu, 0).from /\ t.valueEnd = Tlv(apdu, 0).to
  BY <1>1, TlvIsTaken DEF PduTaken
<1>3. (~t.ok /\ Return(-3)) \/ (t.ok /\ pc' = "noASDU" /\ pos' = t.pos /\ pduEnd' = t.valueEnd)
  BY DEF Pdu
<1> HIDE DEF t
<1>4. CASE ~t.ok /\ Return(-3)
  <2>1. ~IsPdu(apdu) BY <1>1, <1>2, <1>4, PduForm DEF SequenceTaken, NumberTaken
  <2>2. -3 # 0 OBVIOUS
  <2> QED BY <1>1, <1>4, <2>1, <2>2, Rejected
<1>5. CASE t.ok /\ pc' = "noASDU" /\ pos' = t.pos /\ pduEnd' = t.valueEnd
  <2>1. VerdictIsRight' BY <1>5 DEF VerdictIsRight
  <2>2. pos' = NumAt(apdu) BY <1>2, <1>5 DEF NumAt
  <2> QED BY <1>1, <1>2, <1>5, <2>1, <2>2 DEF WalkInv
<1> QED BY <1>3, <1>4, <1>5

\* NoAsdu.
LEMMA NoAsduWalked == ASSUME IInv, WalkInv, NoAsdu PROVE WalkInv'
<1> DEFINE t == take_tlv(apdu, pduEnd, pos, 128)
           length == t.valueEnd - t.pos
           ok == t.ok /\ length \in {1, 2}
           declaredAsdus == decode_asn1_number(apdu, t.pos, length)[2]
           n == NumAt(apdu)
<1>1. /\ apdu \in Seq(0 .. 255) /\ pos = n /\ pduEnd = Tlv(apdu, 0).to /\ PduTaken(apdu)
      /\ UNCHANGED apdu
  BY DEF IInv, Typed, NoAsdu, WalkInv, Reads
<1>2. /\ pduEnd \in Nat /\ n \in Nat
      /\ Tlv(apdu, n).from \in Nat /\ Tlv(apdu, n).length \in Nat
      /\ SequenceAt(apdu) = Tlv(apdu, n).to
      /\ Tlv(apdu, n).to = Tlv(apdu, n).from + Tlv(apdu, n).length
  BY <1>1, HeadType, Zenon DEF SequenceAt
<1>3. /\ t.ok <=> Whole(apdu, n, pduEnd) /\ Tlv(apdu, n).tag = 128
      /\ t.ok => t.pos = Tlv(apdu, n).from /\ t.valueEnd = Tlv(apdu, n).to
  BY <1>1, <1>2, TlvIsTaken
<1>4. \/ ~(ok /\ declaredAsdus # 0) /\ Return(-4)
      \/ /\ ok /\ declaredAsdus # 0 /\ pc' = "sequence" /\ pos' = t.valueEnd
         /\ passport' = [passport EXCEPT !.num = declaredAsdus] /\ pduEnd' = pduEnd
  BY DEF NoAsdu
<1>5. t.ok => length = Tlv(apdu, n).length
  <2> HIDE DEF n, t
  <2> QED BY <1>2, <1>3
<1>6. t.ok => declaredAsdus = Declared(apdu) BY <1>3, <1>5 DEF Declared
<1> HIDE DEF t, declaredAsdus, length
<1>7. ok /\ declaredAsdus # 0 <=> NumberTaken(apdu)
  BY <1>1, <1>3, <1>5, <1>6 DEF NumberTaken
<1>8. CASE ~(ok /\ declaredAsdus # 0) /\ Return(-4)
  <2>1. ~IsPdu(apdu) BY <1>1, <1>7, <1>8, PduForm DEF SequenceTaken
  <2>2. -4 # 0 OBVIOUS
  <2> QED BY <1>1, <1>8, <2>1, <2>2, Rejected
<1>9. CASE /\ ok /\ declaredAsdus # 0 /\ pc' = "sequence" /\ pos' = t.valueEnd
           /\ passport' = [passport EXCEPT !.num = declaredAsdus] /\ pduEnd' = pduEnd
  <2>1. VerdictIsRight' BY <1>9 DEF VerdictIsRight
  <2>2. pos' = SequenceAt(apdu) BY <1>2, <1>3, <1>9
  <2>3. passport'.num = Declared(apdu) BY <1>6, <1>9 DEF IInv, Typed
  <2> QED BY <1>1, <1>7, <1>9, <2>1, <2>2, <2>3 DEF WalkInv
<1> QED BY <1>4, <1>8, <1>9

\* Sequence.
LEMMA SequenceWalked == ASSUME IInv, WalkInv, Sequence PROVE WalkInv'
<1> DEFINE t == take_tlv(apdu, pduEnd, pos, 162)
           s == SequenceAt(apdu)
           ok == t.ok /\ t.valueEnd = pduEnd
           from == SequenceFrom(apdu)
           to == SequenceTo(apdu)
<1>1. /\ apdu \in Seq(0 .. 255) /\ pos = s /\ pduEnd = Tlv(apdu, 0).to /\ NumberTaken(apdu)
      /\ passport.num = Declared(apdu) /\ UNCHANGED apdu /\ pc = "sequence"
  BY DEF IInv, Typed, Sequence, WalkInv, Reads
<1>2. pduEnd \in Nat /\ s \in Nat /\ to \in Nat /\ from \in 0 .. to BY <1>1, HeadType, Zenon
<1>3. /\ t.ok <=> Whole(apdu, s, pduEnd) /\ Tlv(apdu, s).tag = 162
      /\ t.ok => t.pos = from /\ t.valueEnd = to
  BY <1>1, <1>2, TlvIsTaken DEF SequenceFrom, SequenceTo
<1>4. \/ ~ok /\ Return(-4)
      \/ /\ ok /\ pc' = "asdu" /\ pos' = t.pos /\ sequenceEnd' = t.valueEnd
         /\ UNCHANGED <<actualAsdus, result>>
  BY DEF Sequence
<1> HIDE DEF t
<1>5. ok <=> SequenceTaken(apdu) BY <1>1, <1>3 DEF SequenceTaken
<1>6. CASE ~ok /\ Return(-4)
  <2>1. ~IsPdu(apdu) BY <1>1, <1>5, <1>6, PduForm
  <2>2. -4 # 0 OBVIOUS
  <2> QED BY <1>1, <1>6, <2>1, <2>2, Rejected
<1>7. CASE /\ ok /\ pc' = "asdu" /\ pos' = t.pos /\ sequenceEnd' = t.valueEnd
           /\ UNCHANGED <<actualAsdus, result>>
  <2>1. VerdictIsRight' BY <1>7 DEF VerdictIsRight
  <2>2. On(apdu, from, to, from) /\ Passed(apdu, from, to, from) = {} BY <1>1, <1>2, OnFirst
  <2>3. actualAsdus' = 0 BY <1>1, <1>7 DEF IInv, Nested
  <2>4. Cardinality({}) = 0 BY FS_EmptySet
  <2>5. pos' = from /\ apdu' = apdu BY <1>1, <1>3, <1>7
  <2> HIDE DEF from, to
  <2>6. Walked(pos)' BY <2>2, <2>3, <2>4, <2>5 DEF Walked, PassedAsdus, from, to
  <2>7. passport' = passport /\ sequenceEnd' = to /\ pc' = "asdu" BY <1>3, <1>7 DEF result
  <2> QED BY <1>1, <1>5, <1>7, <2>1, <2>5, <2>6, <2>7 DEF WalkInv, to
<1> QED BY <1>4, <1>6, <1>7

\* An ASDU that the walk comes to and that lacks the form makes the PDU wrong.
LEMMA BadAsdu ==
  ASSUME NEW buf \in Seq(0 .. 255), NEW a \in Asdus(buf), ~IsAsdu(buf, a)
  PROVE  ~IsPdu(buf)
BY PduForm DEF AsdusRight

\* Asdu.
LEMMA AsduWalked == ASSUME IInv, WalkInv, Asdu PROVE WalkInv'
<1> DEFINE from == SequenceFrom(apdu)
           to == SequenceTo(apdu)
           a == pos
           t == take_tlv(apdu, sequenceEnd, a, 48)
<1>1. /\ apdu \in Seq(0 .. 255) /\ sequenceEnd = to /\ SequenceTaken(apdu) /\ Walked(a)
      /\ passport.num = Declared(apdu) /\ UNCHANGED apdu /\ pc = "asdu" /\ a < sequenceEnd
      /\ a \in Nat
  BY DEF IInv, Typed, Asdu, WalkInv, Reads
<1>2. to \in Nat /\ from \in 0 .. to BY <1>1, HeadType, Zenon
<1>3. /\ t.ok <=> Whole(apdu, a, to) /\ Tlv(apdu, a).tag = 48
      /\ t.ok => t.pos = Tlv(apdu, a).from /\ t.valueEnd = Tlv(apdu, a).to
  BY <1>1, <1>2, TlvIsTaken
<1>4. \/ ~t.ok /\ Return(-5)
      \/ /\ t.ok /\ pc' = "field" /\ pos' = t.pos /\ asduEnd' = t.valueEnd
         /\ found' = {} /\ previousTag' = 0
         /\ UNCHANGED <<sequenceEnd, actualAsdus, result>>
  BY DEF Asdu
<1> HIDE DEF t
<1>5. On(apdu, from, to, a) /\ a # to BY <1>1 DEF Walked
<1> HIDE DEF from, to
<1>6. Asdus(apdu) = Starts(apdu, from, to) BY AsdusAre DEF from, to
<1>7. Whole(apdu, a, to) => a \in Asdus(apdu) BY <1>1, <1>2, <1>5, <1>6, OnNext
<1>8. CASE ~t.ok /\ Return(-5)
  <2>1. ASSUME ~Whole(apdu, a, to) PROVE ~IsPdu(apdu)
    <3>1. -1 \in Asdus(apdu) BY <1>1, <1>2, <1>5, <1>6, <2>1, OnBad
    <3> QED BY <1>1, <3>1, PduForm DEF AsdusRight
  <2>2. ASSUME Whole(apdu, a, to) PROVE ~IsPdu(apdu)
    <3>1. ~IsAsdu(apdu, a) BY <1>3, <1>8, <2>2 DEF IsAsdu
    <3>2. PICK c \in Asdus(apdu) : c = a BY <1>7, <2>2
    <3> QED BY <1>1, <3>1, <3>2, BadAsdu
  <2>3. ~IsPdu(apdu) BY <2>1, <2>2
  <2>4. -5 # 0 OBVIOUS
  <2> QED BY <1>1, <1>8, <2>3, <2>4, Rejected
<1>9. CASE /\ t.ok /\ pc' = "field" /\ pos' = t.pos /\ asduEnd' = t.valueEnd
           /\ found' = {} /\ previousTag' = 0
           /\ UNCHANGED <<sequenceEnd, actualAsdus, result>>
  <2> DEFINE f == Tlv(apdu, a).from
             e == Tlv(apdu, a).to
  <2>1. VerdictIsRight' BY <1>9 DEF VerdictIsRight
  <2>2. e \in Nat /\ f \in 0 .. e BY <1>1, InsideRange
  <2>3. On(apdu, f, e, f) /\ Passed(apdu, f, e, f) = {} BY <1>1, <2>2, OnFirst
  <2>4. /\ apdu' = apdu /\ pos' = f /\ asduEnd' = e /\ pc' = "field" /\ found' = {}
        /\ previousTag' = 0 /\ actualAsdus' = actualAsdus /\ sequenceEnd' = sequenceEnd
        /\ passport' = passport /\ state' = state
    BY <1>1, <1>3, <1>9 DEF result
  <2>5. PICK c \in Asdus(apdu) : c = a BY <1>3, <1>7, <1>9
  <2>6. AtAsdu(c)'
    <3>1. Walked(c)'
      <4>1. Walked(c) BY <1>1, <2>5
      <4> QED BY <2>4, <4>1 DEF Walked, PassedAsdus, Checked
    <3>2. PassedFields(c)' = {} BY <2>3, <2>4, <2>5 DEF PassedFields
    <3>3. InAsdu(c)' BY <2>3, <2>4, <2>5, <3>2 DEF InAsdu
    <3>4. Whole(apdu, c, to) /\ Tlv(apdu, c).tag = 48 BY <1>3, <1>9, <2>5
    <3> QED BY <1>5, <2>4, <2>5, <3>1, <3>3, <3>4 DEF AtAsdu, to
  <2> QED BY <1>1, <2>1, <2>4, <2>6 DEF WalkInv, to
<1> QED BY <1>4, <1>8, <1>9

\* The quality of an ASDU, byte by byte and channel by channel.
LEMMA GoodAsdu ==
  ASSUME NEW buf \in Seq(0 .. 255), NEW a \in Nat, IsAsdu(buf, a)
  PROVE  AllGood(buf, FieldOf(buf, a, 135).from)
           <=> LET data == Bytes(buf, FieldOf(buf, a, 135)) IN
               \A k \in DOMAIN data : (k - 1) % 8 >= 4 => data[k] = 0
<1>1. PICK t : t = FieldOf(buf, a, 135) OBVIOUS
<1>2. t.from \in Nat /\ t.to = t.from + ASDU_DATA_SIZE BY <1>1, FixedFields
<1>3. CHANNELS \in Nat BY SvAssumption
<1>4. AllGood(buf, t.from)
        <=> \A k \in DOMAIN Bytes(buf, t) : (k - 1) % 8 >= 4 => Bytes(buf, t)[k] = 0
  BY <1>2, <1>3, QualityBytes
<1> QED BY <1>1, <1>4

\* The ASDUs of a PDU are at natural places.
LEMMA AsduPlace ==
  ASSUME NEW buf \in Seq(0 .. 255), NEW a \in Asdus(buf), a # -1
  PROVE  a \in Nat
<1>1. SequenceAt(buf) \in Nat BY HeadType
<1> QED BY <1>1, InsideRange DEF Asdus

\* Field, where it does not accept what it finds.
LEMMA BadField ==
  ASSUME IInv, pc = "field", NEW a \in Asdus(apdu), AtAsdu(a), pos < asduEnd,
         NEW p, p = pos, IsAsdu(apdu, a)
  PROVE  /\ Whole(apdu, p, asduEnd) /\ p \in Inside(apdu, a) /\ Accepted(apdu, p)
         /\ Tlv(apdu, p).tag > previousTag /\ Tlv(apdu, p).tag \notin found
<1> DEFINE f == Tlv(apdu, a).from
           e == Tlv(apdu, a).to
           passed == PassedFields(a)
           tag(q) == Tlv(apdu, q).tag
<1>1. apdu \in Seq(0 .. 255) /\ p \in Nat /\ InAsdu(a) /\ Walked(a) /\ asduEnd = e
  BY DEF IInv, Typed, AtAsdu, InAsdu
<1>2. a \in Nat
  <2>1. SequenceFrom(apdu) \in Nat /\ SequenceTo(apdu) \in Nat BY <1>1, HeadType
  <2> QED BY <1>1, <2>1 DEF Walked, On
<1>3. /\ On(apdu, f, e, p) /\ passed = Passed(apdu, f, e, p) /\ Inside(apdu, a) = Starts(apdu, f, e)
      /\ \A q \in passed : tag(q) <= previousTag
      /\ previousTag = 0 \/ \E q \in passed : tag(q) = previousTag
      /\ found = {tag(q) : q \in passed}
  BY <1>1 DEF InAsdu, Inside, PassedFields
<1>4. e \in Nat /\ f \in 0 .. e BY <1>1, <1>2, InsideRange
<1>5. p # e BY <1>1
<1>6. /\ -1 \notin Inside(apdu, a) /\ \A q \in Inside(apdu, a) : Accepted(apdu, q)
      /\ \A q, r \in Inside(apdu, a) : q < r => tag(q) < tag(r)
  BY <1>1, <1>2, AsduForm
<1> HIDE DEF f, e
<1>7. Whole(apdu, p, e) BY <1>1, <1>3, <1>4, <1>5, <1>6, OnBad
<1>8. p \in Inside(apdu, a) BY <1>1, <1>3, <1>4, <1>5, <1>7, OnNext
<1>9. \A q \in passed : q \in Nat /\ q < p /\ q \in Inside(apdu, a)
  BY <1>1, <1>3, <1>4, PassedRange
<1>10. tag(p) \in Nat /\ tag(p) \in 128 .. 136
  <2>1. tag(p) \in Nat /\ Tlv(apdu, p).length \in Nat BY <1>1, TlvType
  <2>2. FieldLength(tag(p), Tlv(apdu, p).length) BY <1>6, <1>8 DEF Accepted
  <2> QED BY <2>1, <2>2, FieldTag
<1>11. \A q \in passed : tag(q) < tag(p) BY <1>6, <1>8, <1>9
<1> HIDE DEF passed
<1>12. tag(p) > previousTag
  <2>1. CASE previousTag = 0 BY <1>10, <2>1
  <2>2. CASE \E q \in passed : tag(q) = previousTag
    <3>1. PICK q \in passed : tag(q) = previousTag BY <2>2
    <3>2. q \in Nat BY <1>9
    <3>3. tag(q) \in Nat BY <1>1, <3>2, TlvType
    <3>4. tag(q) < tag(p) BY <1>11
    <3> HIDE DEF tag
    <3> QED BY <1>10, <3>1, <3>3, <3>4
  <2> QED BY <1>3, <2>1, <2>2
<1>13. tag(p) \notin found
  <2> SUFFICES ASSUME tag(p) \in found PROVE FALSE OBVIOUS
  <2>1. PICK q \in passed : tag(q) = tag(p) BY <1>3
  <2>2. tag(p) < tag(p) BY <1>11, <2>1
  <2> HIDE DEF tag
  <2> QED BY <1>10, <2>2
<1> QED BY <1>1, <1>6, <1>7, <1>8, <1>12, <1>13

\* Field.
LEMMA FieldWalked == ASSUME IInv, WalkInv, Field PROVE WalkInv'
<1> DEFINE tag == Byte(apdu, pos)
           l == decode_asn1_len_bounded(apdu, asduEnd, pos + 1)
           ok == /\ tag > previousTag /\ l.ok /\ l.length <= asduEnd - l.pos
                 /\ tag \notin found \cap Mandatory /\ FieldLength(tag, l.length)
           OkStep ==
             /\ ok /\ (tag = 135 => AllGood(apdu, l.pos))
             /\ pos' = l.pos + l.length
             /\ previousTag' = tag
             /\ found' = found \cup {tag}
             /\ svid' = IF tag = 128 THEN <<l.pos, l.pos + l.length>> ELSE svid
             /\ smpCnt' = IF tag = 130 THEN decode_asn1_number(apdu, l.pos, 2)[2] ELSE smpCnt
             /\ confRev' = IF tag = 131 THEN decode_asn1_number(apdu, l.pos, 4) ELSE confRev
             /\ UNCHANGED <<pc, pduEnd, sequenceEnd, asduEnd, actualAsdus, result, verdict>>
<1>1. /\ apdu \in Seq(0 .. 255) /\ pos \in Nat /\ asduEnd \in Nat /\ pos < asduEnd /\ pc = "field"
      /\ UNCHANGED apdu /\ previousTag \in 0 .. 255
      /\ SequenceTaken(apdu) /\ sequenceEnd = SequenceTo(apdu) /\ passport.num = Declared(apdu)
  BY DEF IInv, Typed, Field, WalkInv, Reads
<1>2. PICK a \in Asdus(apdu) : AtAsdu(a) BY <1>1 DEF WalkInv
<1>3. PICK p \in Nat : p = pos BY <1>1
<1> DEFINE f == Tlv(apdu, a).from
           e == Tlv(apdu, a).to
           t == Tlv(apdu, p)
           passed == PassedFields(a)
<1>4. InAsdu(a) /\ Walked(a) /\ asduEnd = e BY <1>2 DEF AtAsdu, InAsdu
<1>5. a \in Nat
  <2>1. SequenceFrom(apdu) \in Nat /\ SequenceTo(apdu) \in Nat BY <1>1, HeadType
  <2> QED BY <1>4, <2>1 DEF Walked, On
<1>6. e \in Nat /\ f \in 0 .. e BY <1>1, <1>5, InsideRange
<1>7. /\ l.ok /\ l.length <= asduEnd - l.pos <=> Whole(apdu, p, e)
      /\ Whole(apdu, p, e) => l.pos = t.from /\ l.length = t.length
  BY <1>1, <1>3, <1>4, LengthIsTaken
<1>8. t.tag = tag /\ t.tag \in Nat /\ t.to = t.from + t.length BY <1>1, <1>3, TlvType
<1>9. (~ok /\ Return(-6)) \/ (ok /\ tag = 135 /\ ~AllGood(apdu, l.pos) /\ Return(-11)) \/ OkStep
  BY DEF Field
<1> HIDE DEF tag, l, t
<1>10. ok => Whole(apdu, p, e) /\ Accepted(apdu, p) BY <1>7, <1>8 DEF Accepted, t
<1>11. CASE ~ok /\ Return(-6)
  <2>1. ASSUME IsAsdu(apdu, a) PROVE ok
    <3>1. /\ Whole(apdu, p, asduEnd) /\ Accepted(apdu, p)
          /\ t.tag > previousTag /\ t.tag \notin found
      BY <1>1, <1>2, <1>3, <2>1, BadField DEF t
    <3> QED BY <1>4, <1>7, <1>8, <3>1 DEF Accepted, t
  <2>2. ~IsPdu(apdu) BY <1>1, <1>11, <2>1, BadAsdu
  <2>3. -6 # 0 OBVIOUS
  <2> QED BY <1>1, <1>11, <2>2, <2>3, Rejected
<1>12. CASE ok /\ tag = 135 /\ ~AllGood(apdu, l.pos) /\ Return(-11)
  <2>1. pc' = "done" /\ verdict' = -11 /\ apdu' = apdu /\ -11 # 0 BY <1>1, <1>12 DEF Return
  <2>2. ASSUME IsPdu(apdu) PROVE ~QualityIsGood(apdu)
    <3>1. IsAsdu(apdu, a) BY <1>1, <2>2, PduForm DEF AsdusRight
    <3>2. p \in Inside(apdu, a) BY <1>1, <1>2, <1>3, <3>1, BadField
    <3>3. FieldOf(apdu, a, 135) = t BY <1>1, <1>5, <1>8, <1>12, <3>1, <3>2, FieldOfIs DEF t
    <3>4. ~AllGood(apdu, FieldOf(apdu, a, 135).from) BY <1>7, <1>10, <1>12, <3>3
    <3>5. ~(LET data == Bytes(apdu, FieldOf(apdu, a, 135)) IN
            \A k \in DOMAIN data : (k - 1) % 8 >= 4 => data[k] = 0)
      BY <1>1, <1>5, <3>1, <3>4, GoodAsdu
    <3> QED BY <3>5 DEF QualityIsGood
  <2>3. VerdictIsRight' BY <2>1, <2>2 DEF VerdictIsRight
  <2> QED BY <2>1, <2>3 DEF WalkInv
<1>13. CASE OkStep
  <2>1. Whole(apdu, p, e) /\ Accepted(apdu, p) /\ l.pos = t.from /\ l.length = t.length
    BY <1>7, <1>10, <1>13
  <2>2. /\ pos' = t.to /\ previousTag' = t.tag /\ found' = found \cup {t.tag}
        /\ t.tag > previousTag
    BY <1>8, <1>13, <2>1
  <2>3. /\ apdu' = apdu /\ pc' = "field" /\ sequenceEnd' = sequenceEnd /\ asduEnd' = asduEnd
        /\ actualAsdus' = actualAsdus /\ passport' = passport /\ state' = state
    BY <1>1, <1>13 DEF result
  <2>4. /\ svid' = IF t.tag = 128 THEN <<t.from, t.to>> ELSE svid
        /\ smpCnt' = IF t.tag = 130 THEN decode_asn1_number(apdu, t.from, 2)[2] ELSE smpCnt
        /\ confRev' = IF t.tag = 131 THEN decode_asn1_number(apdu, t.from, 4) ELSE confRev
        /\ t.tag = 135 => AllGood(apdu, t.from)
    BY <1>8, <1>13, <2>1
  <2>5. /\ On(apdu, f, e, p) /\ passed = Passed(apdu, f, e, p)
        /\ \A q \in passed : Accepted(apdu, q) /\ Kept(q) /\ Tlv(apdu, q).tag <= previousTag
        /\ \A q, r \in passed : q < r => Tlv(apdu, q).tag < Tlv(apdu, r).tag
        /\ found = {Tlv(apdu, q).tag : q \in passed}
    BY <1>3, <1>4 DEF InAsdu, PassedFields
  <2>6. /\ On(apdu, f, e, t.to) /\ Passed(apdu, f, e, t.to) = passed \cup {p}
        /\ p \notin passed
    <3>1. p # e BY <1>1, <1>3, <1>4
    <3> HIDE DEF f, e, passed
    <3> QED BY <1>1, <1>6, <2>1, <2>5, <3>1, OnNext DEF t
  <2>7. \A q \in passed : q \in Nat /\ q < p /\ Tlv(apdu, q).tag \in Nat
    <3>1. \A q \in passed : q \in Nat /\ q < p
      <4> HIDE DEF f, e, passed
      <4> QED BY <1>1, <1>6, <2>5, PassedRange
    <3> QED BY <1>1, <3>1, TlvType
  <2>8. \A q \in passed : Tlv(apdu, q).tag < t.tag
    <3> SUFFICES ASSUME NEW q \in passed PROVE Tlv(apdu, q).tag < t.tag OBVIOUS
    <3>1. previousTag \in Nat BY <1>1, ByteIsNat
    <3>2. Tlv(apdu, q).tag \in Nat /\ Tlv(apdu, q).tag <= previousTag BY <2>5, <2>7
    <3> QED BY <1>8, <2>2, <3>1, <3>2
  <2>9. PassedFields(a)' = passed \cup {p} BY <2>2, <2>3, <2>6 DEF PassedFields
  <2> HIDE DEF passed, f, e, ok
  <2>10. Kept(p)' BY <2>3, <2>4 DEF Kept, t
  <2>11. \A q \in passed : Kept(q)'
    <3> SUFFICES ASSUME NEW q \in passed PROVE Kept(q)' OBVIOUS
    <3>1. Kept(q) BY <2>5
    <3>2. Tlv(apdu, q).tag # t.tag BY <1>8, <2>7, <2>8
    <3> QED BY <2>3, <2>4, <3>1, <3>2 DEF Kept
  <2>12. \A q \in passed \cup {p} :
           Accepted(apdu, q) /\ Kept(q)' /\ Tlv(apdu, q).tag <= t.tag
    <3>1. t.tag <= t.tag /\ t = Tlv(apdu, p) BY <1>8 DEF t
    <3>2. \A q \in passed : Tlv(apdu, q).tag <= t.tag BY <1>8, <2>7, <2>8
    <3> QED BY <2>1, <2>5, <2>10, <2>11, <3>1, <3>2
  <2>13. \A q, r \in passed \cup {p} : q < r => Tlv(apdu, q).tag < Tlv(apdu, r).tag
    <3> SUFFICES ASSUME NEW q \in passed \cup {p}, NEW r \in passed \cup {p}, q < r
                 PROVE  Tlv(apdu, q).tag < Tlv(apdu, r).tag
      OBVIOUS
    <3>1. q # p
      <4> SUFFICES ASSUME q = p PROVE FALSE OBVIOUS
      <4>1. r \in Nat /\ (r < p \/ r = p) BY <2>7
      <4> QED BY <4>1
    <3>2. CASE r = p BY <2>8, <3>1, <3>2 DEF t
    <3>3. CASE r # p BY <2>5, <3>1, <3>3
    <3> QED BY <3>2, <3>3
  <2>14. found' = {Tlv(apdu, q).tag : q \in passed \cup {p}} BY <2>2, <2>5 DEF t
  <2>15. \E q \in passed \cup {p} : Tlv(apdu, q).tag = t.tag BY DEF t
  <2>16. InAsdu(a)'
    BY <1>4, <2>2, <2>3, <2>6, <2>9, <2>12, <2>13, <2>14, <2>15 DEF InAsdu, f, e
  <2>17. Walked(a)' BY <1>4, <2>3 DEF Walked, PassedAsdus, Checked
  <2>18. AtAsdu(a)' BY <1>2, <2>3, <2>16, <2>17 DEF AtAsdu
  <2>19. VerdictIsRight' BY <2>3 DEF VerdictIsRight
  <2> QED BY <1>1, <2>3, <2>18, <2>19 DEF WalkInv
<1> QED BY <1>9, <1>11, <1>12, <1>13

\* What the walk has kept of the fields of an ASDU that it has left.
LEMMA KeptFields ==
  ASSUME NEW a \in Nat, apdu \in Seq(0 .. 255), IsAsdu(apdu, a), \A p \in Inside(apdu, a) : Kept(p)
  PROVE  /\ View(apdu, svid) = Bytes(apdu, FieldOf(apdu, a, 128))
         /\ smpCnt = decode_asn1_number(apdu, FieldOf(apdu, a, 130).from, 2)[2]
         /\ confRev = decode_asn1_number(apdu, FieldOf(apdu, a, 131).from, 4)
         /\ AllGood(apdu, FieldOf(apdu, a, 135).from)
<1>1. 128 \in Mandatory /\ 130 \in Mandatory /\ 131 \in Mandatory /\ 135 \in Mandatory
  BY DEF Mandatory
<1>2. ASSUME NEW tag \in Mandatory
      PROVE  \E p \in Inside(apdu, a) :
               Tlv(apdu, p).tag = tag /\ FieldOf(apdu, a, tag) = Tlv(apdu, p) /\ Kept(p)
  BY FieldOfType
<1>3. View(apdu, svid) = Bytes(apdu, FieldOf(apdu, a, 128))
  <2>1. PICK p \in Inside(apdu, a) :
          Tlv(apdu, p).tag = 128 /\ FieldOf(apdu, a, 128) = Tlv(apdu, p) /\ Kept(p)
    BY <1>1, <1>2
  <2> QED BY <2>1 DEF Kept, Bytes
<1>4. smpCnt = decode_asn1_number(apdu, FieldOf(apdu, a, 130).from, 2)[2]
  <2>1. PICK p \in Inside(apdu, a) :
          Tlv(apdu, p).tag = 130 /\ FieldOf(apdu, a, 130) = Tlv(apdu, p) /\ Kept(p)
    BY <1>1, <1>2
  <2> QED BY <2>1 DEF Kept
<1>5. confRev = decode_asn1_number(apdu, FieldOf(apdu, a, 131).from, 4)
  <2>1. PICK p \in Inside(apdu, a) :
          Tlv(apdu, p).tag = 131 /\ FieldOf(apdu, a, 131) = Tlv(apdu, p) /\ Kept(p)
    BY <1>1, <1>2
  <2> QED BY <2>1 DEF Kept
<1>6. AllGood(apdu, FieldOf(apdu, a, 135).from)
  <2>1. PICK p \in Inside(apdu, a) :
          Tlv(apdu, p).tag = 135 /\ FieldOf(apdu, a, 135) = Tlv(apdu, p) /\ Kept(p)
    BY <1>1, <1>2
  <2> QED BY <2>1 DEF Kept
<1> QED BY <1>3, <1>4, <1>5, <1>6

\* EndAsdu.
LEMMA EndAsduWalked == ASSUME IInv, WalkInv, EndAsdu PROVE WalkInv'
<1> DEFINE ok == Mandatory \subseteq found /\ (actualAsdus = 0 \/ SameStream)
           from == SequenceFrom(apdu)
           to == SequenceTo(apdu)
           OkStep == /\ ok
                     /\ pc' = "asdu"
                     /\ actualAsdus' = actualAsdus + 1
                     /\ IF actualAsdus = 0
                          THEN /\ passport' = [passport EXCEPT !.svid = svid, !.crev = confRev]
                               /\ state' = [smpCnt |-> smpCnt]
                          ELSE UNCHANGED result
                     /\ UNCHANGED <<pos, pduEnd, sequenceEnd, asduEnd, asdu, verdict>>
<1>1. /\ apdu \in Seq(0 .. 255) /\ pos \in Nat /\ pos >= asduEnd /\ pc = "field"
      /\ UNCHANGED apdu /\ actualAsdus \in Nat
      /\ passport \in [num : Half, svid : Nat \X Nat, crev : Half \X Half]
      /\ SequenceTaken(apdu) /\ sequenceEnd = SequenceTo(apdu) /\ passport.num = Declared(apdu)
  BY DEF IInv, Typed, EndAsdu, WalkInv, Reads
<1>2. PICK a \in Asdus(apdu) : AtAsdu(a) BY <1>1 DEF WalkInv
<1> DEFINE f == Tlv(apdu, a).from
           e == Tlv(apdu, a).to
           passed == PassedAsdus(a)
<1>3. /\ InAsdu(a) /\ Walked(a) /\ asduEnd = e /\ Tlv(apdu, a).tag = 48
      /\ a # to /\ Whole(apdu, a, to)
  BY <1>2 DEF AtAsdu, InAsdu
<1>4. to \in Nat /\ from \in 0 .. to /\ from \in Nat BY <1>1, HeadType, Zenon
<1>5. a \in Nat BY <1>3, <1>4 DEF Walked, On
<1>6. e \in Nat /\ f \in 0 .. e BY <1>1, <1>5, InsideRange
<1>7. pos = e
  <2>1. pos \in f .. e BY <1>3 DEF InAsdu, On
  <2> HIDE DEF e, f
  <2> QED BY <1>1, <1>3, <1>6, <2>1
<1>8. -1 \notin Inside(apdu, a) /\ PassedFields(a) = Inside(apdu, a)
  <2>1. On(apdu, f, e, e) BY <1>3, <1>7 DEF InAsdu
  <2>2. Inside(apdu, a) = Starts(apdu, f, e) /\ PassedFields(a) = Passed(apdu, f, e, e)
    BY <1>7 DEF Inside, PassedFields
  <2> HIDE DEF e, f
  <2> QED BY <1>1, <1>6, <2>1, <2>2, OnEnd
<1>9. /\ IsAsdu(apdu, a) <=> Mandatory \subseteq found
      /\ \A p \in Inside(apdu, a) : Kept(p)
  <2>1. /\ \A p \in Inside(apdu, a) : Accepted(apdu, p) /\ Kept(p)
        /\ \A p, q \in Inside(apdu, a) : p < q => Tlv(apdu, p).tag < Tlv(apdu, q).tag
        /\ found = {Tlv(apdu, p).tag : p \in Inside(apdu, a)}
    BY <1>3, <1>8 DEF InAsdu
  <2> QED BY <1>1, <1>3, <1>5, <1>8, <2>1, AsduForm
<1>10. (~ok /\ Return(-6)) \/ OkStep BY DEF EndAsdu
<1>11. /\ On(apdu, from, to, a) /\ passed = Passed(apdu, from, to, a)
       /\ actualAsdus = Cardinality(passed)
       /\ \A c \in passed : Checked(c)
       /\ \/ a = from
          \/ /\ from \in passed
             /\ state.smpCnt = decode_asn1_number(apdu, FieldOf(apdu, from, 130).from, 2)[2]
  BY <1>3 DEF Walked, PassedAsdus
<1>12. Asdus(apdu) = Starts(apdu, from, to) BY AsdusAre
<1> HIDE DEF from, to, e, f, passed
<1>13. /\ IsFiniteSet(passed)
       /\ \A c \in passed : c \in Nat /\ c \in Asdus(apdu)
  BY <1>1, <1>4, <1>11, <1>12, PassedRange
<1>14. actualAsdus = 0 <=> passed = {} BY <1>11, <1>13, FS_EmptySet
<1>15. IsAsdu(apdu, a) =>
         /\ View(apdu, svid) = Bytes(apdu, FieldOf(apdu, a, 128))
         /\ smpCnt = decode_asn1_number(apdu, FieldOf(apdu, a, 130).from, 2)[2]
         /\ confRev = decode_asn1_number(apdu, FieldOf(apdu, a, 131).from, 4)
         /\ AllGood(apdu, FieldOf(apdu, a, 135).from)
  BY <1>1, <1>5, <1>9, KeptFields
<1>16. CASE ~ok /\ Return(-6)
  <2>1. ASSUME IsPdu(apdu) PROVE ok
    <3>1. IsAsdu(apdu, a) BY <1>1, <2>1, BadAsdu
    <3>2. ASSUME actualAsdus # 0 PROVE SameStream
      <4>1. PICK c \in passed : Checked(c) BY <1>11, <1>14, <3>2
      <4>2. c \in Nat /\ c \in Asdus(apdu) /\ IsAsdu(apdu, c) BY <1>13, <4>1 DEF Checked
      <4>3. \A b, d \in Asdus(apdu), tag \in {128, 131} :
              Bytes(apdu, FieldOf(apdu, b, tag)) = Bytes(apdu, FieldOf(apdu, d, tag))
        BY <1>1, <2>1, PduForm DEF AsdusRight
      <4>4. Bytes(apdu, FieldOf(apdu, a, 128)) = Bytes(apdu, FieldOf(apdu, c, 128))
        BY <4>2, <4>3
      <4>5. Bytes(apdu, FieldOf(apdu, a, 131)) = Bytes(apdu, FieldOf(apdu, c, 131))
        BY <4>2, <4>3
      <4>6. /\ FieldOf(apdu, a, 131).from \in Nat
            /\ FieldOf(apdu, a, 131).to = FieldOf(apdu, a, 131).from + 4
        BY <1>1, <1>5, <3>1, FixedFields
      <4>7. /\ FieldOf(apdu, c, 131).from \in Nat
            /\ FieldOf(apdu, c, 131).to = FieldOf(apdu, c, 131).from + 4
        BY <1>1, <4>2, FixedFields
      <4>8. decode_asn1_number(apdu, FieldOf(apdu, a, 131).from, 4)
              = decode_asn1_number(apdu, FieldOf(apdu, c, 131).from, 4)
        BY <1>1, <4>5, <4>6, <4>7, SameBytes
      <4> QED BY <1>15, <3>1, <4>1, <4>4, <4>8 DEF SameStream, Checked
    <3> QED BY <1>9, <3>1, <3>2
  <2>2. ~IsPdu(apdu) BY <1>16, <2>1
  <2>3. -6 # 0 OBVIOUS
  <2> QED BY <1>1, <1>16, <2>2, <2>3, Rejected
<1>17. CASE OkStep
  <2>1. IsAsdu(apdu, a) BY <1>9, <1>17
  <2>2. /\ On(apdu, from, to, e) /\ Passed(apdu, from, to, e) = passed \cup {a} /\ a \notin passed
    BY <1>1, <1>3, <1>4, <1>11, OnNext DEF e
  <2>3. /\ apdu' = apdu /\ pc' = "asdu" /\ sequenceEnd' = sequenceEnd /\ pos' = e
        /\ actualAsdus' = actualAsdus + 1
    BY <1>1, <1>7, <1>17
  <2>4. PassedAsdus(pos)' = passed \cup {a} BY <2>2, <2>3 DEF PassedAsdus, from, to
  <2>5. actualAsdus' = Cardinality(passed \cup {a})
    BY <1>11, <1>13, <2>2, <2>3, FS_AddElement
  <2>8. VerdictIsRight' BY <2>3 DEF VerdictIsRight
  <2>6. CASE actualAsdus = 0
    <3>1. passed = {} /\ a = from BY <1>11, <1>14, <2>6
    <3>2. /\ passport' = [passport EXCEPT !.svid = svid, !.crev = confRev]
          /\ state' = [smpCnt |-> smpCnt]
      BY <1>17, <2>6
    <3>3. passport'.svid = svid /\ passport'.crev = confRev /\ passport'.num = passport.num
      BY <1>1, <3>2
    <3>4. state'.smpCnt = smpCnt BY <3>2
    <3>5. Checked(a)' BY <1>15, <2>1, <2>3, <3>3 DEF Checked
    <3>6. \A c \in passed \cup {a} : Checked(c)' BY <3>1, <3>5
    <3>7. state'.smpCnt = decode_asn1_number(apdu, FieldOf(apdu, from, 130).from, 2)[2]
      BY <1>15, <2>1, <3>1, <3>4
    <3>8. from \in passed \cup {a} BY <3>1
    <3>9. Walked(pos)'
      BY <2>2, <2>3, <2>4, <2>5, <3>6, <3>7, <3>8 DEF Walked, from, to
    <3> QED BY <1>1, <2>3, <2>8, <3>3, <3>9 DEF WalkInv
  <2>7. CASE actualAsdus # 0
    <3>1. passport' = passport /\ state' = state /\ SameStream BY <1>17, <2>7 DEF result
    <3>2. \A c \in passed : Checked(c)' BY <1>11, <2>3, <3>1 DEF Checked
    <3>3. Checked(a)' BY <1>15, <2>1, <2>3, <3>1 DEF Checked, SameStream
    <3>4. \A c \in passed \cup {a} : Checked(c)' BY <3>2, <3>3
    <3>5. a # from
      <4> SUFFICES ASSUME a = from PROVE FALSE OBVIOUS
      <4>1. Passed(apdu, from, to, from) = {} BY <1>1, <1>4, OnFirst
      <4> QED BY <1>11, <1>14, <2>7, <4>1
    <3>6. /\ from \in passed \cup {a}
          /\ state'.smpCnt = decode_asn1_number(apdu, FieldOf(apdu, from, 130).from, 2)[2]
      BY <1>11, <3>1, <3>5
    <3>7. Walked(pos)' BY <2>2, <2>3, <2>4, <2>5, <3>4, <3>6 DEF Walked, from, to
    <3> QED BY <1>1, <2>3, <2>8, <3>1, <3>7 DEF WalkInv
  <2> QED BY <2>6, <2>7
<1> QED BY <1>10, <1>16, <1>17

\* End.
LEMMA EndWalked == ASSUME IInv, WalkInv, End PROVE WalkInv'
<1> DEFINE from == SequenceFrom(apdu)
           to == SequenceTo(apdu)
           all == Asdus(apdu)
           field(tag) == FieldOf(apdu, FirstAsdu(apdu), tag)
<1>1. /\ apdu \in Seq(0 .. 255) /\ pos \in Nat /\ pos >= sequenceEnd /\ pc = "asdu"
      /\ UNCHANGED apdu /\ Walked(pos)
      /\ SequenceTaken(apdu) /\ sequenceEnd = to /\ passport.num = Declared(apdu)
  BY DEF IInv, Typed, End, WalkInv, Reads
<1>2. to \in Nat /\ from \in 0 .. to /\ from \in Nat BY <1>1, HeadType, Zenon
<1>3. pos = to
  <2>1. pos \in from .. to BY <1>1 DEF Walked, On
  <2> HIDE DEF from, to
  <2> QED BY <1>1, <1>2, <2>1
<1>4. all = Starts(apdu, from, to) BY AsdusAre
<1>5. -1 \notin all /\ PassedAsdus(pos) = all
  <2>1. On(apdu, from, to, to) BY <1>1, <1>3 DEF Walked
  <2>2. PassedAsdus(pos) = Passed(apdu, from, to, to) BY <1>3 DEF PassedAsdus
  <2> HIDE DEF from, to, all
  <2> QED BY <1>1, <1>2, <1>4, <2>1, <2>2, OnEnd
<1>6. /\ actualAsdus = Cardinality(all) /\ \A a \in all : Checked(a)
      /\ \/ pos = from
         \/ /\ from \in all
            /\ state.smpCnt = decode_asn1_number(apdu, FieldOf(apdu, from, 130).from, 2)[2]
  BY <1>1, <1>5 DEF Walked
<1>7. /\ IsFiniteSet(all) /\ \A a \in all : a \in Nat /\ from <= a
  <2> HIDE DEF from, to, all
  <2>1. IsFiniteSet(all) /\ \A a \in all : a = -1 \/ a \in from .. to - 1
    BY <1>1, <1>2, <1>4, StartsRange
  <2>2. \A a \in all : a \in from .. to - 1 BY <1>5, <2>1
  <2> QED BY <1>2, <2>1, <2>2
<1>8. \A a \in all : IsAsdu(apdu, a) BY <1>6 DEF Checked
<1>9. \A a, c \in all, tag \in {128, 131} :
        Bytes(apdu, FieldOf(apdu, a, tag)) = Bytes(apdu, FieldOf(apdu, c, tag))
  <2> SUFFICES ASSUME NEW a \in all, NEW c \in all
               PROVE  /\ Bytes(apdu, FieldOf(apdu, a, 128)) = Bytes(apdu, FieldOf(apdu, c, 128))
                      /\ Bytes(apdu, FieldOf(apdu, a, 131)) = Bytes(apdu, FieldOf(apdu, c, 131))
    OBVIOUS
  <2>1. Checked(a) /\ Checked(c) /\ a \in Nat /\ c \in Nat BY <1>6, <1>7
  <2>2. /\ FieldOf(apdu, a, 131).from \in Nat
        /\ FieldOf(apdu, a, 131).to = FieldOf(apdu, a, 131).from + 4
    BY <1>1, <2>1, FixedFields DEF Checked
  <2>3. /\ FieldOf(apdu, c, 131).from \in Nat
        /\ FieldOf(apdu, c, 131).to = FieldOf(apdu, c, 131).from + 4
    BY <1>1, <2>1, FixedFields DEF Checked
  <2>4. decode_asn1_number(apdu, FieldOf(apdu, a, 131).from, 4)
          = decode_asn1_number(apdu, FieldOf(apdu, c, 131).from, 4)
    BY <2>1 DEF Checked
  <2>5. Bytes(apdu, FieldOf(apdu, a, 131)) = Bytes(apdu, FieldOf(apdu, c, 131))
    BY <1>1, <2>2, <2>3, <2>4, SameBytes
  <2>6. Bytes(apdu, FieldOf(apdu, a, 128)) = Bytes(apdu, FieldOf(apdu, c, 128))
    BY <2>1 DEF Checked
  <2> QED BY <2>5, <2>6
<1>10. QualityIsGood(apdu)
  <2> SUFFICES ASSUME NEW a \in all
               PROVE  LET data == Bytes(apdu, FieldOf(apdu, a, 135)) IN
                      \A k \in DOMAIN data : (k - 1) % 8 >= 4 => data[k] = 0
    BY DEF QualityIsGood
  <2>1. a \in Nat /\ IsAsdu(apdu, a) /\ AllGood(apdu, FieldOf(apdu, a, 135).from)
    BY <1>6, <1>7 DEF Checked
  <2> QED BY <1>1, <2>1, GoodAsdu
<1>11. IsPdu(apdu) <=> actualAsdus = passport.num
  <2>1. Declared(apdu) # 0 BY <1>1 DEF SequenceTaken, NumberTaken
  <2>2. all = {} => Cardinality(all) = 0 BY FS_EmptySet
  <2>3. AsdusRight(apdu) <=> actualAsdus = passport.num
    BY <1>1, <1>5, <1>6, <1>8, <1>9, <2>1, <2>2 DEF AsdusRight
  <2> QED BY <1>1, <2>3, PduForm
<1>12. /\ pc' = "done" /\ verdict' = (IF actualAsdus = passport.num THEN 0 ELSE -7)
       /\ apdu' = apdu /\ passport' = passport /\ state' = state
  BY <1>1 DEF End, Return, result
<1>13. verdict' = 0 <=> IsPdu(apdu) /\ QualityIsGood(apdu)
  <2>1. -7 # 0 OBVIOUS
  <2> QED BY <1>10, <1>11, <1>12, <2>1
<1>14. ASSUME actualAsdus = passport.num
       PROVE  /\ View(apdu, passport.svid) = Bytes(apdu, field(128))
              /\ passport.crev = decode_asn1_number(apdu, field(131).from, 4)
              /\ passport.num = Cardinality(all)
              /\ state.smpCnt = decode_asn1_number(apdu, field(130).from, 2)[2]
  <2>1. all # {}
    <3>1. Declared(apdu) # 0 BY <1>1 DEF SequenceTaken, NumberTaken
    <3>2. all = {} => Cardinality(all) = 0 BY FS_EmptySet
    <3> QED BY <1>1, <1>6, <1>14, <3>1, <3>2
  <2>2. from # pos
    <3> SUFFICES ASSUME from = to PROVE FALSE BY <1>3
    <3> HIDE DEF from, to, all
    <3>1. Starts(apdu, from, to) = {} BY <1>1, <1>2, StartsIs
    <3> QED BY <1>4, <2>1, <3>1
  <2>3. /\ from \in all
        /\ state.smpCnt = decode_asn1_number(apdu, FieldOf(apdu, from, 130).from, 2)[2]
    BY <1>6, <2>2
  <2>4. FirstAsdu(apdu) = from
    <3>1. \A c \in all : from <= c BY <1>7
    <3>2. \A a \in all : (\A c \in all : a <= c) => a = from
      <4> SUFFICES ASSUME NEW a \in all, \A c \in all : a <= c PROVE a = from OBVIOUS
      <4>1. a <= from /\ from <= a /\ a \in Nat BY <1>7, <2>3
      <4> HIDE DEF from
      <4> QED BY <1>2, <4>1
    <3> HIDE DEF from
    <3> QED BY <2>3, <3>1, <3>2 DEF FirstAsdu
  <2>5. Checked(from) BY <1>6, <2>3
  <2> QED BY <1>6, <1>14, <2>3, <2>4, <2>5 DEF Checked
<1>15. verdict' = 0 => actualAsdus = passport.num
  <2>1. -7 # 0 OBVIOUS
  <2> QED BY <1>12, <2>1
<1>16. VerdictIsRight'
  <2> HIDE DEF from, to
  <2> QED BY <1>10, <1>12, <1>13, <1>14, <1>15 DEF VerdictIsRight
<1> QED BY <1>12, <1>16 DEF WalkInv

\* The walk starts in its invariant.
LEMMA InitWalked == Init => WalkInv
BY DEF Init, WalkInv, VerdictIsRight

\* Every step keeps it.
LEMMA StepWalked == IInv /\ WalkInv /\ [Next]_vars => WalkInv'
<1> SUFFICES ASSUME IInv, WalkInv, [Next]_vars PROVE WalkInv' OBVIOUS
<1>1. CASE Pdu BY <1>1, PduWalked
<1>2. CASE NoAsdu BY <1>2, NoAsduWalked
<1>3. CASE Sequence BY <1>3, SequenceWalked
<1>4. CASE Asdu BY <1>4, AsduWalked
<1>5. CASE Field BY <1>5, FieldWalked
<1>6. CASE EndAsdu BY <1>6, EndAsduWalked
<1>7. CASE End BY <1>7, EndWalked
<1>8. CASE UNCHANGED vars
  BY <1>8 DEF WalkInv, VerdictIsRight, Walked, PassedAsdus, Checked, AtAsdu, InAsdu, Kept,
              PassedFields, vars, asdu, result
<1> QED BY <1>1, <1>2, <1>3, <1>4, <1>5, <1>6, <1>7, <1>8 DEF Next, Done

-----------------------------------------------------------------------------
(* Theorems.                                                               *)

\* parse_sv_apdu reads nothing outside the TLV it is in, and no TLV it enters
\* ends outside the APDU, whatever bytes were received.
THEOREM ReadsAreInside == Spec => []ReadsInside
<1>1. IInv => ReadsInside BY DEF IInv
<1> QED BY <1>1, InitInv, StepInv, PTL DEF Spec

\* The walk keeps its place, its ends, its count of ASDUs and its verdict in
\* their ranges.
THEOREM WalkIsTyped == Spec => []TypeOK
<1>1. IInv => TypeOK
  <2> SUFFICES ASSUME IInv PROVE TypeOK OBVIOUS
  <2>1. Len(apdu) \in Nat BY LenProperties DEF IInv, Typed
  <2>2. /\ pos \in 0 .. Len(apdu) /\ pduEnd \in 0 .. Len(apdu)
        /\ sequenceEnd \in 0 .. Len(apdu) /\ asduEnd \in 0 .. Len(apdu)
        /\ actualAsdus \in 0 .. Len(apdu)
    BY <2>1 DEF IInv, Typed, Nested
  <2>3. passport.num \in Half BY DEF IInv, Typed
  <2>4. {pos, pduEnd, sequenceEnd, asduEnd} \subseteq 0 .. Len(apdu) BY <2>2
  <2>5. /\ apdu \in Seq(0 .. 255) /\ pc \in Stage
        /\ previousTag \in 0 .. 255 /\ found \subseteq 128 .. 136
        /\ verdict \in Verdict \cup {1} /\ (pc = "done" <=> verdict # 1)
    BY DEF IInv, Typed
  <2>6. actualAsdus \in 0 .. Len(apdu) BY <2>2
  <2> QED BY <2>3, <2>4, <2>5, <2>6 DEF TypeOK
<1> QED BY <1>1, InitInv, StepInv, PTL DEF Spec


\* parse_sv_apdu accepts an APDU exactly when it has the form, with the quality
\* of every channel of every ASDU good; it tells one that lacks nothing but the
\* quality as such, and leaves the fields of the first ASDU to the caller,
\* whatever bytes were received.
THEOREM VerdictIsCorrect == Spec => []VerdictIsRight
<1>1. Init => IInv /\ WalkInv BY InitInv, InitWalked
<1>2. IInv /\ WalkInv /\ [Next]_vars => (IInv /\ WalkInv)' BY StepInv, StepWalked
<1>3. WalkInv => VerdictIsRight BY DEF WalkInv
<1> QED BY <1>1, <1>2, <1>3, PTL DEF Spec
=============================================================================
