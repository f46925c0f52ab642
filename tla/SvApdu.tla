------------------------------- MODULE SvApdu -------------------------------
(***************************************************************************)
(* The walk of a Sampled Values APDU, byte by byte: parse_sv_apdu, which   *)
(* parse_sv_packet and parse_r_sv_packet share.  One action is one TLV.    *)
(* BusFrame has the same walk on APDUs that are already cut into fields.   *)
(*                                                                         *)
(* The APDU is whatever was received.  Positions count from 0, as in the   *)
(* code.  The walk ends with a verdict, the code's return value.           *)
(***************************************************************************)
EXTENDS Integers, Sequences, FiniteSets

CONSTANTS Input,      \* the APDUs considered
          CHANNELS    \* SVProfile::CHANNELS

VALUE_SIZE == 4
QUALITY_SIZE == 4
CHANNEL_SIZE == VALUE_SIZE + QUALITY_SIZE
ASDU_DATA_SIZE == CHANNELS * CHANNEL_SIZE
QUALITY_GOOD == <<0, 0>>

ASSUME SvAssumption == Input \subseteq Seq(0 .. 255) /\ CHANNELS \in Nat

VARIABLES
  apdu,                           \* the bytes
  pc,                             \* the TLV that comes next
  pos, pduEnd, sequenceEnd,       \* the walk's place and the ends of the TLVs
  asduEnd, previousTag,           \*   it is in
  found, svid, confRev, smpCnt,   \* the fields of the ASDU under way
  actualAsdus,
  passport,                       \* what the caller gets: num, svid, crev
  state,                          \*   and smpCnt
  verdict,
  reads, bound                    \* history: the bytes the last step read, and
                                  \*   the end of the TLV they must be in

asdu == <<found, svid, confRev, smpCnt, previousTag>>
result == <<passport, state>>
vars == <<apdu, pc, pos, pduEnd, sequenceEnd, asduEnd, asdu, actualAsdus, result,
          verdict, reads, bound>>

Init ==
  /\ apdu \in Input
  /\ pc = "pdu"
  /\ pos = 0 /\ pduEnd = 0 /\ sequenceEnd = 0 /\ asduEnd = 0 /\ previousTag = 0
  /\ found = {} /\ svid = <<0, 0>> /\ confRev = <<0, 0>> /\ smpCnt = 0
  /\ actualAsdus = 0
  /\ passport = [num |-> 0, svid |-> <<0, 0>>, crev |-> <<0, 0>>]
  /\ state = [smpCnt |-> 0]
  /\ verdict = 1
  /\ reads = {} /\ bound = 0

-----------------------------------------------------------------------------
(* Reading bytes of the received buffer.                                   *)

\* Outside the APDU anything may be found; a zero stands for it.
Byte(buf, p) == IF p \in 0 .. Len(buf) - 1 THEN buf[p + 1] ELSE 0

\* Octet k of the n at p, the last one being octet 0.
Octet(buf, p, n, k) == IF k < n THEN Byte(buf, p + n - 1 - k) ELSE 0

\* decode_asn1_number: a uint32_t as its two halves.
decode_asn1_number(buf, p, n) ==
  <<256 * Octet(buf, p, n, 3) + Octet(buf, p, n, 2),
    256 * Octet(buf, p, n, 1) + Octet(buf, p, n, 0)>>

\* Any length of 65536 or more is too long for every frame.
BEYOND == 65536
Length(number) == IF number[1] # 0 THEN BEYOND ELSE number[2]

\* Faulty variant: the octets of the length are not compared with the end.
decode_asn1_len_unbounded(buf, end, p) ==
  LET octets == Byte(buf, p) - 128 IN
  IF p >= end THEN [ok |-> FALSE, pos |-> p, length |-> 0, reads |-> {}]
  ELSE IF Byte(buf, p) < 128
    THEN [ok |-> TRUE, pos |-> p + 1, length |-> Byte(buf, p), reads |-> {p}]
  ELSE IF octets \notin 1 .. 4
    THEN [ok |-> FALSE, pos |-> p + 1, length |-> 0, reads |-> {p}]
  ELSE [ok |-> TRUE, pos |-> p + 1 + octets,
        length |-> Length(decode_asn1_number(buf, p + 1, octets)), reads |-> p .. p + octets]

decode_asn1_len_bounded(buf, end, p) ==
  LET octets == Byte(buf, p) - 128 IN
  IF p >= end THEN [ok |-> FALSE, pos |-> p, length |-> 0, reads |-> {}]
  ELSE IF Byte(buf, p) < 128
    THEN [ok |-> TRUE, pos |-> p + 1, length |-> Byte(buf, p), reads |-> {p}]
  ELSE IF octets \notin 1 .. 4 \/ octets > end - (p + 1)
    THEN [ok |-> FALSE, pos |-> p + 1, length |-> 0, reads |-> {p}]
  ELSE [ok |-> TRUE, pos |-> p + 1 + octets,
        length |-> Length(decode_asn1_number(buf, p + 1, octets)), reads |-> p .. p + octets]

\* Faulty variant: the length is not compared with what is left.
take_tlv_unchecked(buf, end, p, expectedTag) ==
  IF p >= end \/ Byte(buf, p) # expectedTag
    THEN [ok |-> FALSE, pos |-> p, valueEnd |-> p, reads |-> {p} \cap 0 .. end - 1]
  ELSE LET l == decode_asn1_len_bounded(buf, end, p + 1)
       IN  [ok |-> l.ok, pos |-> l.pos,
            valueEnd |-> l.pos + l.length, reads |-> {p} \cup l.reads]

take_tlv(buf, end, p, expectedTag) ==
  IF p >= end \/ Byte(buf, p) # expectedTag
    THEN [ok |-> FALSE, pos |-> p, valueEnd |-> p, reads |-> {p} \cap 0 .. end - 1]
  ELSE LET l == decode_asn1_len_bounded(buf, end, p + 1)
       IN  [ok |-> l.ok /\ l.length <= end - l.pos, pos |-> l.pos,
            valueEnd |-> l.pos + l.length, reads |-> {p} \cup l.reads]

\* make_stringview keeps a place in the packet, not the bytes.
View(buf, v) == [k \in 1 .. v[2] - v[1] |-> Byte(buf, v[1] + k - 1)]

-----------------------------------------------------------------------------
(* The walk.                                                               *)

Return(code) ==
  /\ pc' = "done" /\ verdict' = code
  /\ UNCHANGED <<pos, pduEnd, sequenceEnd, asduEnd, asdu, actualAsdus, result>>

Reads(set, end) == reads' = set /\ bound' = end /\ UNCHANGED apdu

Pdu ==
  LET t == take_tlv(apdu, Len(apdu), pos, 96) IN
  /\ pc = "pdu"
  /\ Reads(t.reads, Len(apdu))
  /\ \/ ~t.ok /\ Return(-3)
     \/ /\ t.ok
        /\ pc' = "noASDU" /\ pos' = t.pos /\ pduEnd' = t.valueEnd
        /\ UNCHANGED <<sequenceEnd, asduEnd, asdu, actualAsdus, result, verdict>>

NoAsdu ==
  LET t == take_tlv(apdu, pduEnd, pos, 128)
      length == t.valueEnd - t.pos
      ok == t.ok /\ length \in {1, 2}
      declaredAsdus == decode_asn1_number(apdu, t.pos, length)[2]
  IN
  /\ pc = "noASDU"
  /\ Reads(t.reads \cup (IF ok THEN t.pos .. t.valueEnd - 1 ELSE {}), pduEnd)
  /\ \/ ~(ok /\ declaredAsdus # 0) /\ Return(-4)
     \/ /\ ok /\ declaredAsdus # 0
        /\ pc' = "sequence" /\ pos' = t.valueEnd
        /\ passport' = [passport EXCEPT !.num = declaredAsdus]
        /\ UNCHANGED <<pduEnd, sequenceEnd, asduEnd, asdu, actualAsdus, state, verdict>>

Sequence ==
  LET t == take_tlv(apdu, pduEnd, pos, 162)
      ok == t.ok /\ t.valueEnd = pduEnd
  IN
  /\ pc = "sequence"
  /\ Reads(t.reads, pduEnd)
  /\ \/ ~ok /\ Return(-4)
     \/ /\ ok
        /\ pc' = "asdu" /\ pos' = t.pos /\ sequenceEnd' = t.valueEnd
        /\ UNCHANGED <<pduEnd, asduEnd, asdu, actualAsdus, result, verdict>>

Asdu ==
  LET t == take_tlv(apdu, sequenceEnd, pos, 48) IN
  /\ pc = "asdu"
  /\ pos < sequenceEnd
  /\ Reads(t.reads, sequenceEnd)
  /\ \/ ~t.ok /\ Return(-5)
     \/ /\ t.ok
        /\ pc' = "field" /\ pos' = t.pos /\ asduEnd' = t.valueEnd
        /\ found' = {} /\ svid' = <<0, 0>> /\ confRev' = <<0, 0>> /\ smpCnt' = 0
        /\ previousTag' = 0
        /\ UNCHANGED <<pduEnd, sequenceEnd, actualAsdus, result, verdict>>

\* The length a field may have.
FieldLength(tag, length) ==
  CASE tag \in {128, 129} -> length # 0            \* svID, datset
    [] tag \in {130, 134, 136} -> length = 2       \* smpCnt, smpRate, smpMod
    [] tag = 131 -> length = 4                     \* confRev
    [] tag = 132 -> length = 8                     \* refrTm
    [] tag = 133 -> length = 1                     \* smpSynch
    [] tag = 135 -> length = ASDU_DATA_SIZE
    [] OTHER -> FALSE

\* Channel c's quality in the data at p.
QualityAt(p, c) == p + VALUE_SIZE + c * CHANNEL_SIZE
Good(buf, p, c) == decode_asn1_number(buf, QualityAt(p, c), QUALITY_SIZE) = QUALITY_GOOD
AllGood(buf, p) == \A c \in 0 .. CHANNELS - 1 : Good(buf, p, c)

\* The loop over the channels stops at the first that is not good.
QualityReads(buf, p) ==
  UNION {QualityAt(p, c) .. QualityAt(p, c) + QUALITY_SIZE - 1 :
           c \in {c \in 0 .. CHANNELS - 1 : \A d \in 0 .. c - 1 : Good(buf, p, d)}}

FieldReads(buf, tag, p) ==
  CASE tag = 130 -> p .. p + 1
    [] tag = 131 -> p .. p + 3
    [] tag = 135 -> QualityReads(buf, p)
    [] OTHER -> {}

Mandatory == {128, 130, 131, 133, 135}   \* svID, smpCnt, confRev, smpSynch, data

Field ==
  LET tag == Byte(apdu, pos)
      l == decode_asn1_len_bounded(apdu, asduEnd, pos + 1)
      ok == tag > previousTag /\ l.ok /\ l.length <= asduEnd - l.pos
            /\ tag \notin found \cap Mandatory /\ FieldLength(tag, l.length)
  IN
  /\ pc = "field"
  /\ pos < asduEnd
  /\ Reads({pos} \cup (IF tag > previousTag THEN l.reads ELSE {})
           \cup (IF ok THEN FieldReads(apdu, tag, l.pos) ELSE {}), asduEnd)
  /\ \/ ~ok /\ Return(-6)
     \/ ok /\ tag = 135 /\ ~AllGood(apdu, l.pos) /\ Return(-11)
     \/ /\ ok /\ (tag = 135 => AllGood(apdu, l.pos))
        /\ pos' = l.pos + l.length
        /\ previousTag' = tag
        /\ found' = found \cup {tag}
        /\ svid' = IF tag = 128 THEN <<l.pos, l.pos + l.length>> ELSE svid
        /\ smpCnt' = IF tag = 130 THEN decode_asn1_number(apdu, l.pos, 2)[2] ELSE smpCnt
        /\ confRev' = IF tag = 131 THEN decode_asn1_number(apdu, l.pos, 4) ELSE confRev
        /\ UNCHANGED <<pc, pduEnd, sequenceEnd, asduEnd, actualAsdus, result, verdict>>

\* Faulty variant: the configuration revision is not compared.
SameStreamBySvid == View(apdu, svid) = View(apdu, passport.svid)

SameStream == View(apdu, svid) = View(apdu, passport.svid) /\ confRev = passport.crev

EndAsdu ==
  LET ok == Mandatory \subseteq found /\ (actualAsdus = 0 \/ SameStream) IN
  /\ pc = "field"
  /\ pos >= asduEnd
  /\ Reads(IF Mandatory \subseteq found /\ actualAsdus > 0
             THEN (svid[1] .. svid[2] - 1) \cup (passport.svid[1] .. passport.svid[2] - 1)
             ELSE {}, asduEnd)
  /\ \/ ~ok /\ Return(-6)
     \/ /\ ok
        /\ pc' = "asdu"
        /\ actualAsdus' = actualAsdus + 1
        /\ IF actualAsdus = 0
             THEN /\ passport' = [passport EXCEPT !.svid = svid, !.crev = confRev]
                  /\ state' = [smpCnt |-> smpCnt]
             ELSE UNCHANGED result
        /\ UNCHANGED <<pos, pduEnd, sequenceEnd, asduEnd, asdu, verdict>>

End ==
  /\ pc = "asdu"
  /\ pos >= sequenceEnd
  /\ Reads({}, sequenceEnd)
  /\ Return(IF actualAsdus = passport.num THEN 0 ELSE -7)

\* The caller has its verdict.
Done == pc = "done" /\ UNCHANGED vars

Next == Pdu \/ NoAsdu \/ Sequence \/ Asdu \/ Field \/ EndAsdu \/ End \/ Done

Spec == Init /\ [][Next]_vars

-----------------------------------------------------------------------------
(* Properties.                                                             *)

Stage == {"pdu", "noASDU", "sequence", "asdu", "field", "done"}
Half == 0 .. 65535   \* of a uint32_t
Verdict == {0, -3, -4, -5, -6, -7, -11}

\* The walk stays in the APDU and its verdict is one of the code's (the type
\* invariant).
TypeOK ==
  /\ apdu \in Seq(0 .. 255)
  /\ pc \in Stage
  /\ {pos, pduEnd, sequenceEnd, asduEnd} \subseteq 0 .. Len(apdu)
  /\ previousTag \in 0 .. 255 /\ found \subseteq 128 .. 136
  /\ actualAsdus \in 0 .. Len(apdu)
  /\ passport.num \in Half
  /\ verdict \in Verdict \cup {1} /\ (pc = "done" <=> verdict # 1)

\* "make every SV length read fail closed before it can step outside its
\* enclosing TLV": each byte a step reads, length or value, is in the TLV that
\* the step is in, and that TLV is in the APDU, whatever bytes were received.
ReadsInside == bound <= Len(apdu) /\ \A p \in reads : p \in 0 .. bound - 1

-----------------------------------------------------------------------------
(* What the walk should find, said of the APDU as a whole.                 *)

\* The TLV that starts at p: its length takes n further octets.
Tlv(buf, p) ==
  LET n == IF Byte(buf, p + 1) < 128 THEN 0 ELSE Byte(buf, p + 1) - 128
      length == IF n = 0 THEN Byte(buf, p + 1) ELSE Length(decode_asn1_number(buf, p + 2, n))
  IN  [tag |-> Byte(buf, p), from |-> p + 2 + n, length |-> length, to |-> p + 2 + n + length]

\* A whole TLV starts at p and ends by end.
Whole(buf, p, end) ==
  /\ p + 2 <= end
  /\ Byte(buf, p + 1) \in 0 .. 127 \cup 129 .. 132
  /\ Tlv(buf, p).from <= end /\ Tlv(buf, p).to <= end

\* Where the TLVs start that fill the place from one byte to another; -1 is in
\* it when they do not fill it.
Starts(buf, from, end) ==
  LET f[p \in 0 .. end] ==
        IF p = end THEN {}
        ELSE IF ~Whole(buf, p, end) THEN {-1}
        ELSE {p} \cup f[Tlv(buf, p).to]
  IN  f[from]

\* The TLVs inside the one that starts at a, and the one of them with a tag.
Inside(buf, a) == Starts(buf, Tlv(buf, a).from, Tlv(buf, a).to)
FieldOf(buf, a, tag) == CHOOSE t \in {Tlv(buf, p) : p \in Inside(buf, a)} : t.tag = tag
Bytes(buf, t) == View(buf, <<t.from, t.to>>)

FixedLength == [t \in 130 .. 136 |->
                  CASE t = 131 -> 4 [] t = 132 -> 8 [] t = 133 -> 1
                    [] t = 135 -> ASDU_DATA_SIZE [] OTHER -> 2]

\* An ASDU: each field once, in the order of the tags, none of the mandatory
\* ones missing, each with its length.
IsAsdu(buf, a) ==
  LET tag(p) == Tlv(buf, p).tag
      length(p) == Tlv(buf, p).length
      starts == Inside(buf, a)
  IN
  /\ tag(a) = 48
  /\ -1 \notin starts
  /\ \A p, q \in starts : p < q => tag(p) < tag(q)
  /\ {tag(p) : p \in starts} \subseteq 128 .. 136
  /\ Mandatory \subseteq {tag(p) : p \in starts}
  /\ \A p \in starts : IF tag(p) \in {128, 129} THEN length(p) > 0
                       ELSE length(p) = FixedLength[tag(p)]

\* The two TLVs of a PDU: the declared number of ASDUs and their sequence.
NumAt(buf) == Tlv(buf, 0).from
SequenceAt(buf) == Tlv(buf, NumAt(buf)).to
Declared(buf) == LET num == Tlv(buf, NumAt(buf))
                 IN  decode_asn1_number(buf, num.from, num.length)[2]
Asdus(buf) == Inside(buf, SequenceAt(buf))

\* As many ASDUs as declared, all of one stream.
IsPdu(buf) ==
  /\ Whole(buf, 0, Len(buf)) /\ Tlv(buf, 0).tag = 96
  /\ Inside(buf, 0) = {NumAt(buf), SequenceAt(buf)}
  /\ Tlv(buf, NumAt(buf)).tag = 128 /\ Tlv(buf, NumAt(buf)).length \in {1, 2}
  /\ Tlv(buf, SequenceAt(buf)).tag = 162
  /\ -1 \notin Asdus(buf) /\ \A a \in Asdus(buf) : IsAsdu(buf, a)
  /\ Asdus(buf) # {} /\ Cardinality(Asdus(buf)) = Declared(buf)
  /\ \A a, c \in Asdus(buf), tag \in {128, 131} :
       Bytes(buf, FieldOf(buf, a, tag)) = Bytes(buf, FieldOf(buf, c, tag))

FirstAsdu(buf) == CHOOSE a \in Asdus(buf) : \A c \in Asdus(buf) : a <= c
QualityIsGood(buf) ==
  \A a \in Asdus(buf) : LET data == Bytes(buf, FieldOf(buf, a, 135)) IN
    \A k \in DOMAIN data : (k - 1) % 8 >= 4 => data[k] = 0

\* "every ASDU is still fully walked and validated": the frame is accepted
\* exactly when it has the form above and the quality of every channel of every
\* ASDU is good, and a frame that lacks nothing but quality is told as such.
\* The caller then has the identifier, the revision, the count and the sample
\* number of the first ASDU.
VerdictIsRight ==
  pc = "done" =>
    LET field(tag) == FieldOf(apdu, FirstAsdu(apdu), tag) IN
    /\ verdict = 0 <=> IsPdu(apdu) /\ QualityIsGood(apdu)
    /\ IsPdu(apdu) /\ ~QualityIsGood(apdu) => verdict = -11
    /\ verdict = 0 =>
         /\ View(apdu, passport.svid) = Bytes(apdu, field(128))
         /\ passport.crev = decode_asn1_number(apdu, field(131).from, 4)
         /\ passport.num = Cardinality(Asdus(apdu))
         /\ state.smpCnt = decode_asn1_number(apdu, field(130).from, 2)[2]
=============================================================================
