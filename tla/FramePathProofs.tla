--------------------------- MODULE FramePathProofs ---------------------------
(***************************************************************************)
(* Proofs about FramePath: what the generator sends is what the processor  *)
(* takes, for up to 65536 streams, every pattern of losses and every       *)
(* alteration the model has, in every mode of a run; but for the SV        *)
(* streams whose number does not fit into their name.                      *)
(*                                                                         *)
(* The argument has two halves.  SenderInv says what the memory of the     *)
(* generator and the wire hold: a frame that is sent has every field of    *)
(* the skeleton of its stream, the numbers of its IED, and a signature of  *)
(* exactly these bytes, or it differs from such a frame by alterations in  *)
(* transit.  ReceiverInv says what the processor knows of a stream: its    *)
(* tracker, its counters and the newest number it delivered tell how much  *)
(* of what was sent arrived.  Between the two stand the lemmas on reading  *)
(* a frame: the walk over a GOOSE or SV APDU finds what was written, an    *)
(* altered frame is rejected or has the fields it was sent with, and a     *)
(* frame signed or encrypted in another mode is never taken.               *)
(*                                                                         *)
(* The last part is about AppIdContainer, the lookup between the parser    *)
(* and the trackers.                                                       *)
(***************************************************************************)
EXTENDS FramePath, AppIdContainer, TLAPS

Numbers == INSTANCE NumberFacts

-----------------------------------------------------------------------------
(* What frames look like: the fields that AmendPacket leaves alone have    *)
(* their value, the others are parameters.                                 *)

GoosePdu(ref, set, id, st) ==
  [lead |-> 97,
   items |-> << GooseItem("gocbRef", ref), GooseItem("other", 0), GooseItem("datSet", set),
                GooseItem("goID", id), GooseItem("stNum", st), GooseItem("confRev", 1),
                GooseItem("numEntries", NumEntries), GooseItem("allData", NumEntries) >>]

Asdu(id, smpCnt) == [svID |-> id, smpCnt |-> smpCnt, confRev |-> 1, quality |-> "good"]

SvPdu(num, ids, cnts) ==
  [lead |-> 96, num |-> num, asdu |-> [k \in 1 .. num |-> Asdu(ids[k], cnts[k])]]

\* An APDU of the run, whichever stream and number it was last amended for.
ApduLike(kind, a) ==
  IF IsGooseKind(kind) THEN \E ref, set, id, st : a = GoosePdu(ref, set, id, st)
  ELSE \E ids, cnts : a = SvPdu(AsduNum(kind), ids, cnts)

\* The one a new skeleton gives.
FreshApdu(kind, s, i) == AmendApdu(kind, Apdu(kind), s, i)

PayloadOf(kind) == IF IsGooseKind(kind) THEN "GOOSE" ELSE "SV"
SessionOf(kind) == IF IsGooseKind(kind) THEN "R_GOOSE" ELSE "R_SV"

\* Amending overwrites all four numbers of a GOOSE.
LEMMA GooseAmended ==
  ASSUME NEW ref, NEW set, NEW id, NEW st, NEW s, NEW new
  PROVE  AmendGoose(GoosePdu(ref, set, id, st), s, new)
           = GoosePdu(GooseSID(s), GooseSID(s), GooseSID(s), new)
<1> DEFINE x == GooseSID(s)
<1> HIDE DEF x
<1>1. SetItem(GoosePdu(ref, set, id, st), "goID", x) = GoosePdu(ref, set, x, st)
  BY DEF SetItem, GoosePdu, GooseItem
<1>2. SetItem(GoosePdu(ref, set, x, st), "gocbRef", x) = GoosePdu(x, set, x, st)
  BY DEF SetItem, GoosePdu, GooseItem
<1>3. SetItem(GoosePdu(x, set, x, st), "datSet", x) = GoosePdu(x, x, x, st)
  BY DEF SetItem, GoosePdu, GooseItem
<1>4. SetItem(GoosePdu(x, x, x, st), "stNum", new) = GoosePdu(x, x, x, new)
  BY DEF SetItem, GoosePdu, GooseItem
<1> QED
  BY <1>1, <1>2, <1>3, <1>4 DEF AmendGoose, x

\* ASDUs of one stream with consecutive numbers.
SvFrom(num, s, cur, freq) ==
  SvPdu(num, [k \in 1 .. num |-> SvSID(s)], [k \in 1 .. num |-> SmpCntAfter(cur, freq, k - 1)])

\* Amending overwrites the names and numbers of all ASDUs.
LEMMA SvAmended ==
  ASSUME NEW num \in Nat, NEW ids, NEW cnts, NEW s, NEW cur, NEW freq
  PROVE  AmendSV(SvPdu(num, ids, cnts), s, cur, freq) = SvFrom(num, s, cur, freq)
<1> DEFINE x == SvSID(s)
           c(k) == SmpCntAfter(cur, freq, k - 1)
           new == [k \in 1 .. num |-> Asdu(x, c(k))]
<1> HIDE DEF x, c
<1>1. [k \in 1 .. num |-> [Asdu(ids[k], cnts[k]) EXCEPT !.svID = x, !.smpCnt = c(k)]] = new
  <2>1. ASSUME NEW k \in 1 .. num
        PROVE  [Asdu(ids[k], cnts[k]) EXCEPT !.svID = x, !.smpCnt = c(k)] = Asdu(x, c(k))
    <3> DEFINE named == [Asdu(ids[k], cnts[k]) EXCEPT !.svID = x]
    <3>1. named = Asdu(x, cnts[k])
      BY DEF Asdu
    <3> HIDE DEF named
    <3>2. [named EXCEPT !.smpCnt = c(k)] = Asdu(x, c(k))
      BY <3>1 DEF Asdu
    <3> QED
      BY <3>2 DEF named
  <2> QED
    BY <2>1
<1>2. AmendSV(SvPdu(num, ids, cnts), s, cur, freq) =
        [SvPdu(num, ids, cnts) EXCEPT !.asdu =
           [k \in 1 .. num |-> [Asdu(ids[k], cnts[k]) EXCEPT !.svID = x, !.smpCnt = c(k)]]]
  BY DEF AmendSV, SvPdu, x, c
<1> HIDE DEF new
<1>3. AmendSV(SvPdu(num, ids, cnts), s, cur, freq) = [lead |-> 96, num |-> num, asdu |-> new]
  BY <1>1, <1>2 DEF SvPdu
<1>4. new = [k \in 1 .. num |-> Asdu([j \in 1 .. num |-> x][k], [j \in 1 .. num |-> c(j)][k])]
  BY DEF new
<1> QED
  BY <1>3, <1>4 DEF SvPdu, SvFrom, x, c

UdpSize(mode) == udp_payload_size(mode, APDU_SIZE)

IpHeader(mode, dst, csum) ==
  [vihl |-> 69, len |-> 20 + 8 + UdpSize(mode), frag |-> "DF", proto |-> 17,
   dst |-> dst, csum |-> csum]

UdpHeader(mode, src) == [src |-> src, dst |-> 102, len |-> 8 + UdpSize(mode)]

SesHeader(kind, mode, spdu, iv) ==
  [cltp |-> "ok", si |-> SessionOf(kind), pi |-> "ok", spduNumber |-> spdu,
   version |-> SESSION_VERSION, keyId |-> KEY_ID, ivLen |-> iv_length(mode), iv |-> iv,
   payloadLength |-> PAYLOAD_ELEM_SIZE + APDU_SIZE]

Region(kind, appid, apdu) ==
  [enc |-> << >>, ptype |-> PayloadOf(kind), appid |-> appid, apdu |-> apdu]

Frame(dmac, size, ip, udp, ses, region, trl) ==
  [eth |-> "ipv4", dmac |-> dmac, size |-> size, ip |-> ip, udp |-> udp,
   ses |-> ses, region |-> region, trl |-> trl]

RFrame(kind, mode, dmac, dst, csum, src, spdu, iv, region, trl) ==
  Frame(dmac, ETH_IP_UDP_SIZE + UdpSize(mode), IpHeader(mode, dst, csum),
        UdpHeader(mode, src), SesHeader(kind, mode, spdu, iv), region, trl)

\* The checksum of a header.
Checksum(mode, dst) == << IpHeader(mode, dst, << >>) >>

\* A new mbuf of a routable generator.
LEMMA RSkeletonIs ==
  ASSUME NEW kind \in RKind, NEW mode \in SecurityMode
  PROVE  RSkeleton(kind, mode) =
           RFrame(kind, mode, multicast_mac(stream_dst_ip(0)), stream_dst_ip(0),
                  Checksum(mode, stream_dst_ip(0)), 0, 0, EmptyIV(mode),
                  Region(kind, 0, Apdu(kind)), NoTrailer)
<1> DEFINE u == UdpSize(mode)
           d == stream_dst_ip(0)
           a == Apdu(kind)
           ip == IpHeader(mode, d, << >>)
           pdu == build(SessionOf(kind), PayloadOf(kind), mode, a, APDU_SIZE)
           pre == build_prefix(u)
<1>1. /\ pdu.ses = SesHeader(kind, mode, 0, EmptyIV(mode))
      /\ pdu.region = Region(kind, 0, a)
      /\ pdu.trl = NoTrailer
  BY DEF build, SesHeader, Region
<1>2. [ip EXCEPT !.csum = << >>] = ip
  BY DEF IpHeader
<1>3. [ip EXCEPT !.csum = << ip >>] = IpHeader(mode, d, << ip >>)
  BY DEF IpHeader
<1>4. pre = [eth |-> "ipv4", dmac |-> multicast_mac(d), size |-> ETH_IP_UDP_SIZE + u,
             ip |-> [ip EXCEPT !.csum = << [ip EXCEPT !.csum = << >>] >>],
             udp |-> UdpHeader(mode, 0)]
  BY DEF build_prefix, IpHeader, UdpHeader, ipv4_checksum
<1> HIDE DEF u, d, a, ip
<1>5. /\ pre.eth = "ipv4" /\ pre.dmac = multicast_mac(d) /\ pre.size = ETH_IP_UDP_SIZE + u
      /\ pre.ip = IpHeader(mode, d, << ip >>) /\ pre.udp = UdpHeader(mode, 0)
  BY <1>2, <1>3, <1>4
<1>6. RSkeleton(kind, mode) =
        [eth |-> pre.eth, dmac |-> pre.dmac, size |-> pre.size, ip |-> pre.ip, udp |-> pre.udp,
         ses |-> pdu.ses, region |-> pdu.region, trl |-> pdu.trl]
  BY DEF RSkeleton, SessionOf, PayloadOf, u, a, UdpSize
<1> HIDE DEF pdu, pre
<1>7. RSkeleton(kind, mode) =
        Frame(multicast_mac(d), ETH_IP_UDP_SIZE + u, IpHeader(mode, d, << ip >>),
              UdpHeader(mode, 0), SesHeader(kind, mode, 0, EmptyIV(mode)),
              Region(kind, 0, a), NoTrailer)
  BY <1>1, <1>5, <1>6 DEF Frame
<1> QED
  BY <1>7 DEF RFrame, Checksum, u, d, a, ip

\* What the sender writes over a frame before sealing it.
Written(p, dmac, dst, csum, src, spdu, region) ==
  [p EXCEPT !.dmac = dmac, !.ip.dst = dst, !.ip.csum = csum, !.udp.src = src,
            !.ses.spduNumber = spdu, !.region = region]

\* It leaves the rest as it was.
LEMMA FieldsWritten ==
  ASSUME NEW kind, NEW mode, NEW dmac0, NEW dst0, NEW csum0, NEW src0, NEW spdu0,
         NEW iv, NEW region0, NEW trl,
         NEW dmac, NEW dst, NEW csum, NEW src, NEW spdu, NEW region,
         NEW p, p = RFrame(kind, mode, dmac0, dst0, csum0, src0, spdu0, iv, region0, trl)
  PROVE  Written(p, dmac, dst, csum, src, spdu, region)
         = RFrame(kind, mode, dmac, dst, csum, src, spdu, iv, region, trl)
<1> DEFINE z == ETH_IP_UDP_SIZE + UdpSize(mode)
           p1 == [p EXCEPT !.dmac = dmac]
           p2 == [p1 EXCEPT !.ip.dst = dst]
           p3 == [p2 EXCEPT !.ip.csum = csum]
           p4 == [p3 EXCEPT !.udp.src = src]
           p5 == [p4 EXCEPT !.ses.spduNumber = spdu]
           p6 == [p5 EXCEPT !.region = region]
           ip == IpHeader(mode, dst0, csum0)
           udp == UdpHeader(mode, src0)
           ses == SesHeader(kind, mode, spdu0, iv)
<1>1. /\ [ip EXCEPT !.dst = dst] = IpHeader(mode, dst, csum0)
      /\ [IpHeader(mode, dst, csum0) EXCEPT !.csum = csum] = IpHeader(mode, dst, csum)
  BY DEF IpHeader
<1>2. [udp EXCEPT !.src = src] = UdpHeader(mode, src)
  BY DEF UdpHeader
<1>3. [ses EXCEPT !.spduNumber = spdu] = SesHeader(kind, mode, spdu, iv)
  BY DEF SesHeader
<1> HIDE DEF z, ip, udp, ses, p1, p2, p3, p4, p5, p6
<1>4. p = Frame(dmac0, z, ip, udp, ses, region0, trl)
  BY DEF RFrame, z, ip, udp, ses
<1>5. p1 = Frame(dmac, z, ip, udp, ses, region0, trl)
  BY <1>4 DEF Frame, p1
<1>6. p2 = Frame(dmac, z, IpHeader(mode, dst, csum0), udp, ses, region0, trl)
  BY <1>5, <1>1 DEF Frame, p2
<1>7. p3 = Frame(dmac, z, IpHeader(mode, dst, csum), udp, ses, region0, trl)
  BY <1>6, <1>1 DEF Frame, p3
<1>8. p4 = Frame(dmac, z, IpHeader(mode, dst, csum), UdpHeader(mode, src), ses, region0, trl)
  BY <1>7, <1>2 DEF Frame, p4
<1>9. p5 = Frame(dmac, z, IpHeader(mode, dst, csum), UdpHeader(mode, src),
                 SesHeader(kind, mode, spdu, iv), region0, trl)
  BY <1>8, <1>3 DEF Frame, p5
<1>10. p6 = Frame(dmac, z, IpHeader(mode, dst, csum), UdpHeader(mode, src),
                  SesHeader(kind, mode, spdu, iv), region, trl)
  BY <1>9 DEF Frame, p6
<1>11. p6 = RFrame(kind, mode, dmac, dst, csum, src, spdu, iv, region, trl)
  BY <1>10 DEF RFrame, z
<1> QED
  BY <1>11 DEF Written, p1, p2, p3, p4, p5, p6

\* The parts of a frame that its sender seals.
FreshRegion(kind, s, i) == Region(kind, AppIdOf(s), FreshApdu(kind, s, i))
SentIV(mode, i) == IF mode = "gcm" THEN DeriveIV(KEY_ID, i.spdu) ELSE << >>
SentSes(kind, mode, i) == SesHeader(kind, mode, i.spdu, SentIV(mode, i))
SentRegion(kind, mode, s, i) ==
  IF mode = "gcm" THEN Encrypt(FreshRegion(kind, s, i), SentIV(mode, i))
  ELSE FreshRegion(kind, s, i)
Trailer(mac) == [tag |-> SIGNATURE_TAG, len |-> TAG_SIZE, mac |-> mac]
SentMac(kind, mode, s, i) ==
  IF mode = "gcm" THEN GcmTag(SentSes(kind, mode, i), FreshRegion(kind, s, i))
  ELSE Hmac(SentSes(kind, mode, i), FreshRegion(kind, s, i))
SentTrl(kind, mode, s, i) ==
  IF mode = "none" THEN NoTrailer ELSE Trailer(SentMac(kind, mode, s, i))

\* The frame a stream sends: nothing of it comes from the mbuf.
SentR(kind, mode, s, i) ==
  RFrame(kind, mode, multicast_mac(stream_dst_ip(s)), stream_dst_ip(s),
         Checksum(mode, stream_dst_ip(s)), AppIdOf(s), i.spdu, SentIV(mode, i),
         SentRegion(kind, mode, s, i), SentTrl(kind, mode, s, i))

\* The fields of the group of a stream, computed once from the skeleton.
LEMMA DstFields ==
  ASSUME NEW kind \in RKind, NEW mode \in SecurityMode, NEW d
  PROVE  make_dst_fields(RSkeleton(kind, mode).ip, d) =
           [dmac |-> multicast_mac(d), dst |-> d, csum |-> Checksum(mode, d)]
<1> DEFINE d0 == stream_dst_ip(0)
           ip == IpHeader(mode, d0, Checksum(mode, d0))
<1>1. RSkeleton(kind, mode).ip = ip
  BY RSkeletonIs DEF RFrame, Frame
<1>2. [ip EXCEPT !.dst = d] = IpHeader(mode, d, Checksum(mode, d0))
  BY DEF IpHeader
<1>3. [IpHeader(mode, d, Checksum(mode, d0)) EXCEPT !.csum = << >>] = IpHeader(mode, d, << >>)
  BY DEF IpHeader
<1> HIDE DEF ip
<1>4. make_dst_fields(ip, d) =
        [dmac |-> multicast_mac(d), dst |-> d,
         csum |-> << [IpHeader(mode, d, Checksum(mode, d0)) EXCEPT !.csum = << >>] >>]
  BY <1>2 DEF make_dst_fields, ipv4_checksum
<1> QED
  BY <1>1, <1>3, <1>4 DEF Checksum

\* The parts that only a seal writes.
LeftBySeal(mode, iv, trl) == (mode # "gcm" => iv = << >>) /\ (mode = "none" => trl = NoTrailer)

\* A frame that is amended and not sealed.
UnsealedR(kind, mode, s, i, iv, trl) ==
  RFrame(kind, mode, multicast_mac(stream_dst_ip(s)), stream_dst_ip(s),
         Checksum(mode, stream_dst_ip(s)), AppIdOf(s), i.spdu, iv, FreshRegion(kind, s, i), trl)

\* seal of the three modes.
LEMMA Sealed ==
  ASSUME NEW kind, NEW mode \in SecurityMode, NEW s, NEW i, NEW iv, NEW trl,
         LeftBySeal(mode, iv, trl)
  PROVE  seal(UnsealedR(kind, mode, s, i, iv, trl), mode) = SentR(kind, mode, s, i)
<1> DEFINE r == FreshRegion(kind, s, i)
           dmac == multicast_mac(stream_dst_ip(s))
           dst == stream_dst_ip(s)
           csum == Checksum(mode, stream_dst_ip(s))
           src == AppIdOf(s)
           z == ETH_IP_UDP_SIZE + UdpSize(mode)
           ip == IpHeader(mode, dst, csum)
           udp == UdpHeader(mode, src)
           ses == SesHeader(kind, mode, i.spdu, iv)
           b == UnsealedR(kind, mode, s, i, iv, trl)
           new == DeriveIV(KEY_ID, i.spdu)
<1>1. b = Frame(dmac, z, ip, udp, ses, r, trl)
  BY DEF RFrame, UnsealedR
<1> HIDE DEF dmac, dst, csum, src
<1>2. ses.keyId = KEY_ID /\ ses.spduNumber = i.spdu
  BY DEF SesHeader
<1>3. b.ses = ses /\ b.region = r
  BY <1>1 DEF Frame
<1>4. CASE mode = "none"
  BY <1>4 DEF seal, SentIV, SentRegion, SentTrl, LeftBySeal, UnsealedR, SentR, RFrame
<1>5. CASE mode = "hmac"
  <2>1. seal(b, mode) = [b EXCEPT !.trl = Trailer(Hmac(ses, r))]
    BY <1>3, <1>5 DEF seal, Trailer
  <2>2. [Frame(dmac, z, ip, udp, ses, r, trl) EXCEPT !.trl = Trailer(Hmac(ses, r))]
          = Frame(dmac, z, ip, udp, ses, r, Trailer(Hmac(ses, r)))
    BY DEF Frame
  <2>3. iv = << >> /\ SentIV(mode, i) = << >> /\ SentRegion(kind, mode, s, i) = r
    BY <1>5 DEF SentIV, SentRegion, LeftBySeal
  <2>4. SentTrl(kind, mode, s, i) = Trailer(Hmac(ses, r))
    BY <1>5, <2>3 DEF SentTrl, SentMac, SentSes
  <2> QED
    BY <1>1, <2>1, <2>2, <2>3, <2>4 DEF RFrame, SentR, dmac, dst, csum, src
<1>6. CASE mode = "gcm"
  <2> DEFINE sealed == SesHeader(kind, mode, i.spdu, new)
             t == Trailer(GcmTag(sealed, r))
             b1 == [b EXCEPT !.ses.iv = new]
             b2 == [b1 EXCEPT !.region = Encrypt(r, new)]
             b3 == [b2 EXCEPT !.trl = t]
  <2>1. [ses EXCEPT !.iv = new] = sealed
    BY DEF SesHeader
  <2> HIDE DEF b1, b2, b3, b, ses, sealed, r, z, ip, udp, new, t
  <2>2. b1 = Frame(dmac, z, ip, udp, sealed, r, trl)
    BY <1>1, <1>3, <2>1 DEF Frame, b1
  <2>3. b2 = Frame(dmac, z, ip, udp, sealed, Encrypt(r, new), trl)
    BY <2>2 DEF Frame, b2
  <2>4. b3 = Frame(dmac, z, ip, udp, sealed, Encrypt(r, new), t)
    BY <2>3 DEF Frame, b3
  <2>5. DeriveIV(b.ses.keyId, b.ses.spduNumber) = new
    BY <1>2, <1>3 DEF new
  <2>6. seal(b, mode) =
          [b EXCEPT !.ses.iv = new, !.region = Encrypt(r, new),
                    !.trl = Trailer(GcmTag([ses EXCEPT !.iv = new], r))]
    BY <1>3, <1>6, <2>5 DEF seal, Trailer
  <2>7. seal(b, mode) = b3
    BY <2>1, <2>6 DEF b1, b2, b3, t
  <2>8. SentIV(mode, i) = new /\ SentRegion(kind, mode, s, i) = Encrypt(r, new)
    BY <1>6 DEF SentIV, SentRegion, new, r
  <2>9. SentTrl(kind, mode, s, i) = t
    BY <1>6, <2>8 DEF SentTrl, SentMac, SentSes, t, sealed, r
  <2> QED
    BY <2>4, <2>7, <2>8, <2>9 DEF RFrame, SentR, b, sealed, z, ip, udp, dmac, dst, csum, src
<1> QED
  BY <1>4, <1>5, <1>6 DEF SecurityMode

\* AmendPacket of a routable generator writes everything that is not the same
\* in all frames of the run, but for the IV and the trailer that no seal wrote.
LEMMA RAmended ==
  ASSUME NEW kind \in RKind, NEW mode \in SecurityMode, NEW s, NEW i,
         NEW dmac, NEW dst, NEW csum, NEW src, NEW spdu, NEW iv, NEW region, NEW trl,
         LeftBySeal(mode, iv, trl),
         NEW p, p = RFrame(kind, mode, dmac, dst, csum, src, spdu, iv, region, trl)
  PROVE  RAmend(kind, mode, p, FreshRegion(kind, s, i), s, i) = SentR(kind, mode, s, i)
<1> DEFINE d == stream_dst_ip(s)
           r == FreshRegion(kind, s, i)
           f == make_dst_fields(RSkeleton(kind, mode).ip, d)
           w == UnsealedR(kind, mode, s, i, iv, trl)
<1> HIDE DEF d
<1>1. f = [dmac |-> multicast_mac(d), dst |-> d, csum |-> Checksum(mode, d)]
  BY DstFields
<1> HIDE DEF r, f
<1>2. f.dmac = multicast_mac(d) /\ f.dst = d /\ f.csum = Checksum(mode, d)
  BY <1>1
<1>3. Written(p, multicast_mac(d), d, Checksum(mode, d), AppIdOf(s), i.spdu, r) = w
  <2>1. w = RFrame(kind, mode, multicast_mac(d), d, Checksum(mode, d), AppIdOf(s), i.spdu, iv, r, trl)
    BY DEF UnsealedR, d, r
  <2> QED
    BY <2>1, FieldsWritten
<1> HIDE DEF w
<1>4. RAmend(kind, mode, p, r, s, i)
        = seal(Written(p, f.dmac, f.dst, f.csum, AppIdOf(s), i.spdu, r), mode)
  BY DEF RAmend, Written, f, d
<1>5. RAmend(kind, mode, p, r, s, i) = seal(w, mode)
  BY <1>2, <1>3, <1>4
<1>6. seal(w, mode) = SentR(kind, mode, s, i)
  BY Sealed DEF w
<1> QED
  BY <1>5, <1>6 DEF r

AnyKind == L2Kind \cup RKind

\* The APDU of a GOOSE or SV run that a stream sends.
FreshGoose(s, i) == GoosePdu(GooseSID(s), GooseSID(s), GooseSID(s), i.num)
FreshSv(num, s, i) == SvFrom(num, s, i.num, SmpFreq[num])

\* ASDUs of a frame.
LEMMA AsduNumType == ASSUME NEW kind PROVE AsduNum(kind) \in Nat \ {0}
BY FrameAssumption DEF AsduNum

\* The placeholders of a skeleton are like those of an amended APDU.
LEMMA SkeletonLike == ASSUME NEW kind PROVE ApduLike(kind, Apdu(kind))
<1>1. CASE IsGooseKind(kind)
  <2>1. Apdu(kind) = GoosePdu(0, 0, 0, 0)
    BY <1>1 DEF Apdu, GooseSkeleton, GoosePdu
  <2> QED
    BY <1>1, <2>1 DEF ApduLike
<1>2. CASE ~IsGooseKind(kind)
  <2> DEFINE num == AsduNum(kind)
             zeros == [k \in 1 .. num |-> 0]
  <2> HIDE DEF num
  <2>1. [k \in 1 .. num |-> Asdu(0, 0)] = [k \in 1 .. num |-> Asdu(zeros[k], zeros[k])]
    OBVIOUS
  <2>2. Apdu(kind) = [lead |-> 96, num |-> num, asdu |-> [k \in 1 .. num |-> Asdu(0, 0)]]
    BY <1>2 DEF Apdu, SvSkeleton, Asdu, num
  <2>3. Apdu(kind) = SvPdu(num, zeros, zeros)
    BY <2>1, <2>2 DEF SvPdu
  <2> HIDE DEF zeros
  <2> QED
    BY <1>2, <2>3 DEF ApduLike, num
<1> QED
  BY <1>1, <1>2

\* An amended APDU does not depend on the stream it was last amended for.
LEMMA ApduAmended ==
  ASSUME NEW kind, NEW a, ApduLike(kind, a), NEW s, NEW i
  PROVE  AmendApdu(kind, a, s, i) =
           IF IsGooseKind(kind) THEN FreshGoose(s, i) ELSE FreshSv(AsduNum(kind), s, i)
<1>1. CASE IsGooseKind(kind)
  <2>1. PICK ref, set, id, st : a = GoosePdu(ref, set, id, st)
    BY <1>1 DEF ApduLike
  <2>2. AmendGoose(a, s, i.num) = FreshGoose(s, i)
    BY <2>1, GooseAmended DEF FreshGoose
  <2> QED
    BY <1>1, <2>2 DEF AmendApdu
<1>2. CASE ~IsGooseKind(kind)
  <2> DEFINE num == AsduNum(kind)
             freq == SmpFreq[num]
             cur == i.num
  <2>1. num \in Nat
    BY AsduNumType
  <2> HIDE DEF num, freq, cur
  <2>2. PICK ids, cnts : a = SvPdu(num, ids, cnts)
    BY <1>2 DEF ApduLike, num
  <2>3. AmendSV(SvPdu(num, ids, cnts), s, cur, freq) = SvFrom(num, s, cur, freq)
    BY <2>1, SvAmended
  <2>4. AmendApdu(kind, a, s, i) = AmendSV(a, s, cur, freq)
    BY <1>2 DEF AmendApdu, num, freq, cur
  <2>5. FreshSv(num, s, i) = SvFrom(num, s, cur, freq)
    BY DEF FreshSv, freq, cur
  <2> QED
    BY <1>2, <2>2, <2>3, <2>4, <2>5 DEF num
<1> QED
  BY <1>1, <1>2

\* It is the one that a new skeleton gives.
LEMMA ApduIsFresh ==
  ASSUME NEW kind, NEW a, ApduLike(kind, a), NEW s, NEW i
  PROVE  AmendApdu(kind, a, s, i) = FreshApdu(kind, s, i)
BY ApduAmended, SkeletonLike DEF FreshApdu

\* And can be amended again.
LEMMA FreshLike == ASSUME NEW kind, NEW s, NEW i PROVE ApduLike(kind, FreshApdu(kind, s, i))
<1> DEFINE a == FreshApdu(kind, s, i)
<1>1. a = IF IsGooseKind(kind) THEN FreshGoose(s, i) ELSE FreshSv(AsduNum(kind), s, i)
  BY ApduAmended, SkeletonLike DEF FreshApdu
<1> HIDE DEF a
<1>2. IsGooseKind(kind) => ApduLike(kind, a)
  BY <1>1 DEF ApduLike, FreshGoose
<1>3. ~IsGooseKind(kind) => ApduLike(kind, a)
  BY <1>1 DEF ApduLike, FreshSv, SvFrom
<1> QED
  BY <1>2, <1>3 DEF a

\* The plain text of a region of the run.
RegionLike(kind, r) == \E appid, apdu : r = Region(kind, appid, apdu) /\ ApduLike(kind, apdu)

\* A region that is like the skeleton's is amended to the one of the stream.
LEMMA RegionAmended ==
  ASSUME NEW kind, NEW mode, NEW packet, NEW master, NEW s, NEW i,
         RegionLike(kind, Amended(mode, packet, master))
  PROVE  RRegion(kind, mode, packet, master, s, i) = FreshRegion(kind, s, i)
<1> DEFINE r == Amended(mode, packet, master)
           x == AppIdOf(s)
           r1 == [r EXCEPT !.appid = x]
<1>1. PICK appid, apdu : r = Region(kind, appid, apdu) /\ ApduLike(kind, apdu)
  BY DEF RegionLike
<1> HIDE DEF r, r1, x
<1>2. r1 = Region(kind, x, apdu)
  BY <1>1 DEF Region, r1
<1>3. AmendApdu(kind, apdu, s, i) = FreshApdu(kind, s, i)
  BY <1>1, ApduIsFresh
<1>4. r1.apdu = apdu
  BY <1>2 DEF Region
<1>5. [r1 EXCEPT !.apdu = FreshApdu(kind, s, i)] = Region(kind, x, FreshApdu(kind, s, i))
  BY <1>2 DEF Region
<1>6. RRegion(kind, mode, packet, master, s, i) = [r1 EXCEPT !.apdu = AmendApdu(kind, r1.apdu, s, i)]
  BY DEF RRegion, r1, r, x
<1> QED
  BY <1>3, <1>4, <1>5, <1>6 DEF FreshRegion, x

\* The region of the skeleton and that of every amended frame.
LEMMA FreshRegionLike == ASSUME NEW kind, NEW s, NEW i PROVE RegionLike(kind, FreshRegion(kind, s, i))
BY FreshLike DEF RegionLike, FreshRegion

L2Frame(kind, appid, apdu) ==
  [eth |-> IF IsGooseKind(kind) THEN "vlan_goose" ELSE "vlan_sv",
   dmac |-> <<"01:0C:CD", IF IsGooseKind(kind) THEN 4 ELSE 1>>,
   size |-> 26 + APDU_SIZE, appid |-> appid, apdu |-> apdu]

SentL2(kind, s, i) == L2Frame(kind, AppIdOf(s), FreshApdu(kind, s, i))

SentFrame(kind, mode, s, i) ==
  IF kind \in RKind THEN SentR(kind, mode, s, i) ELSE SentL2(kind, s, i)

\* AmendPacket of an L2 generator.
LEMMA L2Amended ==
  ASSUME NEW kind, NEW appid, NEW apdu, ApduLike(kind, apdu), NEW s, NEW i,
         NEW p, p = L2Frame(kind, appid, apdu)
  PROVE  L2Amend(kind, p, s, i) = SentL2(kind, s, i)
<1> DEFINE x == AppIdOf(s)
           p1 == [p EXCEPT !.appid = x]
           fresh == FreshApdu(kind, s, i)
<1> HIDE DEF x, p1, fresh
<1>1. p1 = L2Frame(kind, x, apdu)
  BY DEF L2Frame, p1
<1>2. p1.apdu = apdu
  BY <1>1 DEF L2Frame
<1>3. AmendApdu(kind, apdu, s, i) = fresh
  BY ApduIsFresh DEF fresh
<1>4. [p1 EXCEPT !.apdu = fresh] = L2Frame(kind, x, fresh)
  BY <1>1 DEF L2Frame
<1>5. L2Amend(kind, p, s, i) = [p1 EXCEPT !.apdu = AmendApdu(kind, p1.apdu, s, i)]
  BY DEF L2Amend, p1, x
<1> QED
  BY <1>2, <1>3, <1>4, <1>5 DEF SentL2, x, fresh

\* An mbuf that can be used again: what its last use left in it is overwritten
\* by the next, or is the same in every frame of the run.
ReusableR(kind, mode, p) ==
  \E dmac, dst, csum, src, spdu, iv, region, trl :
    /\ p = RFrame(kind, mode, dmac, dst, csum, src, spdu, iv, region, trl)
    /\ LeftBySeal(mode, iv, trl)
    /\ mode # "gcm" => RegionLike(kind, region)
ReusableL2(kind, p) == \E appid, apdu : p = L2Frame(kind, appid, apdu) /\ ApduLike(kind, apdu)
Reusable(kind, mode, p) == IF kind \in RKind THEN ReusableR(kind, mode, p) ELSE ReusableL2(kind, p)

\* A new mbuf.
LEMMA SkeletonReusable ==
  ASSUME NEW kind \in AnyKind, NEW mode \in SecurityMode
  PROVE  /\ Reusable(kind, mode, Skeleton(kind, mode))
         /\ kind \in RKind => RegionLike(kind, RSkeleton(kind, mode).region)
<1>1. ASSUME kind \in RKind PROVE ReusableR(kind, mode, RSkeleton(kind, mode))
                               /\ RegionLike(kind, RSkeleton(kind, mode).region)
  <2> DEFINE d == stream_dst_ip(0)
             r == Region(kind, 0, Apdu(kind))
             dmac == multicast_mac(d)
             csum == Checksum(mode, d)
             iv == EmptyIV(mode)
             zero == 0
  <2>1. RSkeleton(kind, mode) = RFrame(kind, mode, dmac, d, csum, zero, zero, iv, r, NoTrailer)
    BY <1>1, RSkeletonIs
  <2>2. RegionLike(kind, r)
    BY SkeletonLike DEF RegionLike
  <2>3. LeftBySeal(mode, iv, NoTrailer)
    BY DEF LeftBySeal, EmptyIV
  <2> HIDE DEF d, r, dmac, csum, iv, zero
  <2>4. RSkeleton(kind, mode).region = r
    BY <2>1 DEF RFrame, Frame
  <2> QED
    BY <2>1, <2>2, <2>3, <2>4 DEF ReusableR
<1>2. ASSUME kind \notin RKind PROVE ReusableL2(kind, L2Skeleton(kind))
  <2> DEFINE x == IF IsGooseKind(kind) THEN 4660 ELSE 16384
             a == Apdu(kind)
  <2>1. L2Skeleton(kind) = L2Frame(kind, x, a)
    BY DEF L2Skeleton, L2Frame
  <2>2. ApduLike(kind, a)
    BY SkeletonLike
  <2> HIDE DEF x, a
  <2> QED
    BY <2>1, <2>2 DEF ReusableL2
<1> QED
  BY <1>1, <1>2 DEF Reusable, Skeleton

\* The frame that is in an mbuf after AmendPacket is that of the stream, and
\* the mbuf can be used again.
LEMMA PacketSent ==
  ASSUME NEW kind \in AnyKind, NEW mode \in SecurityMode, NEW p, Reusable(kind, mode, p),
         NEW master, kind \in RKind /\ mode = "gcm" => RegionLike(kind, master), NEW s, NEW i
  PROVE  LET region == RRegion(kind, mode, p, master, s, i)
             packet == IF kind \in RKind THEN RAmend(kind, mode, p, region, s, i)
                       ELSE L2Amend(kind, p, s, i)
         IN  /\ packet = SentFrame(kind, mode, s, i)
             /\ kind \in RKind => region = FreshRegion(kind, s, i)
<1>1. ASSUME kind \in RKind
      PROVE  /\ RRegion(kind, mode, p, master, s, i) = FreshRegion(kind, s, i)
             /\ RAmend(kind, mode, p, FreshRegion(kind, s, i), s, i) = SentR(kind, mode, s, i)
  <2>1. PICK dmac, dst, csum, src, spdu, iv, region, trl :
           /\ p = RFrame(kind, mode, dmac, dst, csum, src, spdu, iv, region, trl)
           /\ LeftBySeal(mode, iv, trl)
           /\ mode # "gcm" => RegionLike(kind, region)
    BY <1>1 DEF Reusable, ReusableR
  <2>2. p.region = region
    BY <2>1 DEF RFrame, Frame
  <2>3. RegionLike(kind, Amended(mode, p, master))
    BY <1>1, <2>1, <2>2 DEF Amended
  <2>4. RRegion(kind, mode, p, master, s, i) = FreshRegion(kind, s, i)
    BY <2>3, RegionAmended
  <2>5. RAmend(kind, mode, p, FreshRegion(kind, s, i), s, i) = SentR(kind, mode, s, i)
    BY <1>1, <2>1, RAmended
  <2> QED
    BY <2>4, <2>5
<1>2. ASSUME kind \notin RKind PROVE L2Amend(kind, p, s, i) = SentL2(kind, s, i)
  <2>1. PICK appid, apdu : p = L2Frame(kind, appid, apdu) /\ ApduLike(kind, apdu)
    BY <1>2 DEF Reusable, ReusableL2
  <2> QED
    BY <2>1, L2Amended
<1> QED
  BY <1>1, <1>2 DEF SentFrame

\* A frame that was sent leaves its mbuf reusable.
LEMMA SentReusable ==
  ASSUME NEW kind \in AnyKind, NEW mode \in SecurityMode, NEW s, NEW i
  PROVE  Reusable(kind, mode, SentFrame(kind, mode, s, i))
<1>1. ASSUME kind \in RKind PROVE ReusableR(kind, mode, SentR(kind, mode, s, i))
  <2> DEFINE d == stream_dst_ip(s)
             r == SentRegion(kind, mode, s, i)
             dmac == multicast_mac(d)
             csum == Checksum(mode, d)
             iv == SentIV(mode, i)
             trl == SentTrl(kind, mode, s, i)
             src == AppIdOf(s)
             spdu == i.spdu
  <2>1. SentR(kind, mode, s, i) = RFrame(kind, mode, dmac, d, csum, src, spdu, iv, r, trl)
    BY DEF SentR
  <2>2. LeftBySeal(mode, iv, trl)
    BY DEF LeftBySeal, SentIV, SentTrl
  <2>3. mode # "gcm" => RegionLike(kind, r)
    BY FreshRegionLike DEF SentRegion
  <2> HIDE DEF d, r, dmac, csum, iv, trl, src, spdu
  <2> QED
    BY <2>1, <2>2, <2>3 DEF ReusableR
<1>2. ReusableL2(kind, SentL2(kind, s, i))
  BY FreshLike DEF ReusableL2, SentL2
<1> QED
  BY <1>1, <1>2 DEF Reusable, SentFrame

-----------------------------------------------------------------------------
(* The numbers of the frames of a stream.                                  *)

\* Taking the remainder before an addition makes no difference.
LEMMA ModPlus ==
  ASSUME NEW p \in Nat \ {0}, NEW a \in Nat, NEW b \in Nat
  PROVE  ((a % p) + b) % p = (a + b) % p
<1> DEFINE q == a \div p
           r == a % p
           k == (r + b) \div p
           t == (r + b) % p
<1>1. q \in Nat /\ r \in Nat /\ a = p * q + r
  BY Numbers!DivMod
<1> HIDE DEF q, r
<1>2. r + b \in Nat
  BY <1>1
<1>3. k \in Nat /\ t \in Nat /\ t < p /\ r + b = p * k + t
  BY <1>2, Numbers!DivMod
<1> HIDE DEF k, t
<1>4. p * (q + k) = p * q + p * k
  BY <1>1, <1>3
<1>5. a + b = p * (q + k) + t /\ q + k \in Nat /\ a + b \in Nat
  BY <1>1, <1>3, <1>4
<1>6. (a + b) % p = t
  <2> DEFINE sum == a + b
             qk == q + k
  <2>1. sum \in Nat /\ qk \in Nat /\ sum = p * qk + t
    BY <1>5
  <2> HIDE DEF sum, qk
  <2>2. sum % p = t
    BY <1>3, <2>1, Numbers!ModUnique
  <2> QED
    BY <2>2 DEF sum
<1> QED
  BY <1>6 DEF t, r

\* The next number in the code's unsigned addition.
LEMMA PlusOne ==
  ASSUME NEW n \in Nat
  PROVE  Plus(n % SeqMod, 1) = (n + 1) % SeqMod
<1>1. SeqMod \in Nat \ {0} /\ 1 \in Nat
  BY SeqModAssumption
<1>2. ((n % SeqMod) + 1) % SeqMod = (n + 1) % SeqMod
  BY <1>1, ModPlus
<1> QED
  BY <1>2 DEF Plus

\* NextSmpCnt counts modulo the frequency.
LEMMA NextSmpCntIs ==
  ASSUME NEW freq \in Nat \ {0}, NEW a \in Nat
  PROVE  NextSmpCnt(a % freq, freq) = (a + 1) % freq
<1>1. /\ a % freq \in Nat /\ a % freq < freq
      /\ (a + 1) % freq = IF (a % freq) + 1 = freq THEN 0 ELSE (a % freq) + 1
  BY Numbers!NextMod
<1> DEFINE r == a % freq
<1> HIDE DEF r
<1>2. r \in Nat /\ r < freq /\ (a + 1) % freq = IF r + 1 = freq THEN 0 ELSE r + 1
  BY <1>1 DEF r
<1>3. NextSmpCnt(r, freq) = IF r + 1 = freq THEN 0 ELSE r + 1
  BY <1>2 DEF NextSmpCnt
<1> QED
  BY <1>2, <1>3 DEF r

\* So do the ASDUs of a frame and the IED after it.
LEMMA SmpCntAfterIs ==
  ASSUME NEW freq \in Nat \ {0}, NEW a \in Nat, NEW k \in Nat
  PROVE  SmpCntAfter(a % freq, freq, k) = (a + k) % freq
<1> DEFINE cur == a % freq
           Step(f, j) == IF j = 0 THEN cur ELSE NextSmpCnt(f[j - 1], freq)
           Is(f) == f = [j \in 0 .. k |-> Step(f, j)]
           g == [j \in 0 .. k |-> (a + j) % freq]
           h == CHOOSE f : Is(f)
<1>1. Is(g)
  <2>1. ASSUME NEW j \in 0 .. k PROVE (a + j) % freq = Step(g, j)
    <3>1. CASE j = 0
      BY <3>1
    <3>2. CASE j # 0
      <4>1. j - 1 \in 0 .. k /\ j - 1 \in Nat /\ a + (j - 1) \in Nat /\ a + (j - 1) + 1 = a + j
        BY <3>2
      <4>2. g[j - 1] = (a + (j - 1)) % freq
        BY <4>1
      <4>3. NextSmpCnt((a + (j - 1)) % freq, freq) = (a + (j - 1) + 1) % freq
        BY <4>1, NextSmpCntIs
      <4> HIDE DEF g
      <4> QED
        BY <3>2, <4>1, <4>2, <4>3
    <3> QED
      BY <3>1, <3>2
  <2> QED
    BY <2>1
<1>2. Is(h)
  <2> HIDE DEF Is, g
  <2> QED
    BY <1>1
<1>3. SmpCntAfter(a % freq, freq, k) = h[k]
  BY DEF SmpCntAfter
<1> HIDE DEF h
<1>4. \A j \in 0 .. k : h[j] = Step(h, j)
  BY <1>2
<1> DEFINE S == {j \in Nat : j <= k => h[j] = (a + j) % freq}
<1>5. 0 \in S
  BY <1>4
<1>6. ASSUME NEW j \in S PROVE j + 1 \in S
  <2> SUFFICES ASSUME j + 1 <= k PROVE h[j + 1] = (a + (j + 1)) % freq
    OBVIOUS
  <2>1. h[j] = (a + j) % freq /\ j \in Nat /\ a + j \in Nat /\ a + j + 1 = a + (j + 1)
    OBVIOUS
  <2>2. j + 1 \in 0 .. k /\ j + 1 # 0 /\ (j + 1) - 1 = j
    BY <2>1
  <2>3. h[j + 1] = NextSmpCnt(h[j], freq)
    BY <1>4, <2>2
  <2>4. NextSmpCnt((a + j) % freq, freq) = (a + j + 1) % freq
    BY <2>1, NextSmpCntIs
  <2> QED
    BY <2>1, <2>3, <2>4
<1>7. S = Nat
  <2>1. S \in SUBSET Nat
    OBVIOUS
  <2> HIDE DEF S
  <2> QED
    BY <1>5, <1>6, <2>1, Numbers!Induction
<1>8. h[k] = (a + k) % freq
  BY <1>7
<1> QED
  BY <1>3, <1>8

\* The numbers an IED keeps after n frames, and those of the n-th frame.
SpduAfter(kind, n) == IF kind \in RKind THEN n % SeqMod ELSE 0
SampleOf(kind, n) == (n * AsduNum(kind)) % SmpFreq[AsduNum(kind)]
IedAfter(kind, n) ==
  [spdu |-> SpduAfter(kind, n),
   num |-> IF IsGooseKind(kind) THEN n % SeqMod ELSE SampleOf(kind, n)]
SentIed(kind, n) ==
  [spdu |-> SpduAfter(kind, n),
   num |-> IF IsGooseKind(kind) THEN n % SeqMod ELSE SampleOf(kind, n - 1)]

\* The samples of a frame and of a second.
LEMMA FrequencyType ==
  ASSUME NEW kind
  PROVE  /\ AsduNum(kind) \in Nat \ {0}
         /\ SmpFreq[AsduNum(kind)] \in Nat \ {0}
         /\ SmpFreq[AsduNum(kind)] % AsduNum(kind) = 0
         /\ SmpFreq[AsduNum(kind)] - AsduNum(kind) < SeqMod
BY FrequencyAssumption, FrameAssumption DEF AsduNum

\* Numbers before the first frame are zero.
LEMMA IedAtFirst == ASSUME NEW kind PROVE IedAfter(kind, 0) = [spdu |-> 0, num |-> 0]
<1> DEFINE num == AsduNum(kind)
           freq == SmpFreq[AsduNum(kind)]
<1>1. num \in Nat \ {0} /\ freq \in Nat \ {0} /\ SeqMod \in Nat \ {0}
  BY FrequencyType, SeqModAssumption
<1> HIDE DEF num, freq
<1>2. 0 % SeqMod = 0 /\ 0 % freq = 0 /\ 0 * num = 0
  BY <1>1
<1>3. SampleOf(kind, 0) = 0 /\ SpduAfter(kind, 0) = 0
  BY <1>2 DEF SampleOf, SpduAfter, num, freq
<1> QED
  BY <1>2, <1>3 DEF IedAfter

\* What the IED kept is what the next frame starts from.
LEMMA IedBefore ==
  ASSUME NEW kind, NEW n \in Nat
  PROVE  Before(kind, IedAfter(kind, n)) = SentIed(kind, n + 1)
<1> DEFINE i == IedAfter(kind, n)
<1>1. /\ i.spdu = SpduAfter(kind, n)
      /\ i.num = IF IsGooseKind(kind) THEN n % SeqMod ELSE SampleOf(kind, n)
  BY DEF IedAfter
<1>2. Plus(n % SeqMod, 1) = (n + 1) % SeqMod
  BY PlusOne
<1>3. (n + 1) - 1 = n
  OBVIOUS
<1> HIDE DEF i
<1>4. (IF kind \in RKind THEN Plus(i.spdu, 1) ELSE i.spdu) = SpduAfter(kind, n + 1)
  BY <1>1, <1>2 DEF SpduAfter
<1>5. (IF IsGooseKind(kind) THEN Plus(i.num, 1) ELSE i.num)
        = IF IsGooseKind(kind) THEN (n + 1) % SeqMod ELSE SampleOf(kind, (n + 1) - 1)
  BY <1>1, <1>2, <1>3
<1>6. Before(kind, i) = SentIed(kind, n + 1)
  BY <1>4, <1>5 DEF Before, SentIed
<1> QED
  BY <1>6 DEF i

\* What the frame leaves in the IED.
LEMMA IedKept ==
  ASSUME NEW kind, NEW n \in Nat
  PROVE  After(kind, SentIed(kind, n + 1)) = IedAfter(kind, n + 1)
<1> DEFINE i == SentIed(kind, n + 1)
           num == AsduNum(kind)
           freq == SmpFreq[AsduNum(kind)]
           a == n * num
           m == n + 1
<1>1. num \in Nat \ {0} /\ freq \in Nat \ {0}
  BY FrequencyType
<1> HIDE DEF num, freq
<1>2. m - 1 = n /\ m * num = a + num /\ a \in Nat /\ m \in Nat
  BY <1>1
<1>3. i = [spdu |-> SpduAfter(kind, m),
           num |-> IF IsGooseKind(kind) THEN m % SeqMod ELSE SampleOf(kind, n)]
  BY <1>2 DEF SentIed
<1> HIDE DEF a, m, i
<1>4. SmpCntAfter(a % freq, freq, num) = (a + num) % freq
  BY <1>1, <1>2, SmpCntAfterIs
<1>5. SampleOf(kind, n) = a % freq /\ SampleOf(kind, m) = (a + num) % freq
  BY <1>2 DEF SampleOf, a, num, freq
<1>6. CASE IsGooseKind(kind)
  BY <1>3, <1>6 DEF After, IedAfter, i, m
<1>7. CASE ~IsGooseKind(kind)
  <2>1. i = [spdu |-> SpduAfter(kind, m), num |-> a % freq]
    BY <1>3, <1>5, <1>7
  <2>2. After(kind, i) = [i EXCEPT !.num = SmpCntAfter(i.num, freq, num)]
    BY <1>7 DEF After, num, freq
  <2>3. [i EXCEPT !.num = (a + num) % freq] = [spdu |-> SpduAfter(kind, m), num |-> (a + num) % freq]
    BY <2>1
  <2>4. i.num = a % freq
    BY <2>1
  <2>5. After(kind, i) = [spdu |-> SpduAfter(kind, m), num |-> SampleOf(kind, m)]
    BY <1>4, <1>5, <2>2, <2>3, <2>4
  <2> QED
    BY <1>7, <2>5 DEF IedAfter, i, m
<1> QED
  BY <1>6, <1>7

\* The numbers are in their ranges.
LEMMA IedType ==
  ASSUME NEW kind, NEW n \in Nat
  PROVE  /\ SpduAfter(kind, n) \in SeqNum
         /\ n % SeqMod \in SeqNum
         /\ SampleOf(kind, n) \in 0 .. SmpFreq[AsduNum(kind)] - 1
<1> DEFINE num == AsduNum(kind)
           freq == SmpFreq[AsduNum(kind)]
           a == n * num
<1>1. num \in Nat \ {0} /\ freq \in Nat \ {0} /\ SeqMod \in Nat \ {0}
  BY FrequencyType, SeqModAssumption
<1> HIDE DEF num, freq
<1>2. a \in Nat
  BY <1>1
<1> HIDE DEF a
<1>3. n % SeqMod \in 0 .. SeqMod - 1
  BY <1>1
<1>4. a % freq \in 0 .. freq - 1
  BY <1>1, <1>2
<1>5. SpduAfter(kind, n) \in SeqNum
  BY <1>1, <1>3 DEF SpduAfter, SeqNum
<1> QED
  BY <1>3, <1>4, <1>5 DEF SeqNum, SampleOf, num, freq, a

-----------------------------------------------------------------------------
(* What the wire makes of a frame.                                         *)

FrameOf(eth, dmac, size, ip, udp, ses, region, trl) ==
  [eth |-> eth, dmac |-> dmac, size |-> size, ip |-> ip, udp |-> udp,
   ses |-> ses, region |-> region, trl |-> trl]

RegionOf(enc, ptype, appid, apdu) ==
  [enc |-> enc, ptype |-> ptype, appid |-> appid, apdu |-> apdu]

\* An APDU with at most one field altered, in a region or frame with this APPID.
NearApdu(kind, s, i, appid, a) ==
  \/ appid \in {AppIdOf(s), AppIdOf(s) + 1} /\ a = FreshApdu(kind, s, i)
  \/ appid = AppIdOf(s) /\ a \in Apdus(FreshApdu(kind, s, i))

SentEnc(mode, i) == IF mode = "gcm" THEN << SentIV(mode, i) >> ELSE << >>

\* A region with at most one field altered.
NearRegion(kind, mode, s, i, region) ==
  \E ptype, appid, apdu : /\ region = RegionOf(SentEnc(mode, i), ptype, appid, apdu)
                          /\ NearApdu(kind, s, i, appid, apdu)

\* At most one of the parts is altered that decide how the frame is read.
NearParts(kind, mode, s, i, eth, ses, region, trl) ==
  \/ /\ eth \in {"ipv4", "goose", "sv", "other"}
     /\ ses = SentSes(kind, mode, i) /\ region = SentRegion(kind, mode, s, i)
     /\ trl = SentTrl(kind, mode, s, i)
  \/ /\ eth = "ipv4" /\ ses.spduNumber \in SeqNum
     /\ region = SentRegion(kind, mode, s, i) /\ trl = SentTrl(kind, mode, s, i)
  \/ /\ eth = "ipv4" /\ ses = SentSes(kind, mode, i)
     /\ NearRegion(kind, mode, s, i, region) /\ trl = SentTrl(kind, mode, s, i)
  \/ /\ eth = "ipv4" /\ ses = SentSes(kind, mode, i)
     /\ region = SentRegion(kind, mode, s, i)
     /\ trl.mac \in {SentTrl(kind, mode, s, i).mac, [alg |-> "altered"]}

NearR(kind, mode, s, i, f) ==
  \E eth, dmac, size, ip, udp, ses, region, trl :
    /\ f = FrameOf(eth, dmac, size, ip, udp, ses, region, trl)
    /\ NearParts(kind, mode, s, i, eth, ses, region, trl)

\* Unsigned addition stays in the range.
LEMMA PlusType == ASSUME NEW a \in Nat, NEW b \in Nat PROVE Plus(a, b) \in SeqNum
<1>1. SeqMod \in Nat \ {0} /\ a + b \in Nat
  BY SeqModAssumption
<1> QED
  BY <1>1 DEF Plus, SeqNum

\* The region of a frame that was sent, field by field.
LEMMA SentRegionIs ==
  ASSUME NEW kind, NEW mode, NEW s, NEW i
  PROVE  SentRegion(kind, mode, s, i) =
           RegionOf(SentEnc(mode, i), PayloadOf(kind), AppIdOf(s), FreshApdu(kind, s, i))
<1> DEFINE a == FreshApdu(kind, s, i)
           x == AppIdOf(s)
           iv == SentIV(mode, i)
           r == Region(kind, x, a)
<1> HIDE DEF a, x, iv
<1>1. Append(<< >>, iv) = << iv >>
  OBVIOUS
<1>2. r.enc = << >>
  BY DEF Region
<1>3. [r EXCEPT !.enc = << iv >>] = RegionOf(<< iv >>, PayloadOf(kind), x, a)
  BY DEF Region, RegionOf
<1>4. r = RegionOf(<< >>, PayloadOf(kind), x, a)
  BY DEF Region, RegionOf
<1> HIDE DEF r
<1>5. Encrypt(r, iv) = RegionOf(<< iv >>, PayloadOf(kind), x, a)
  BY <1>1, <1>2, <1>3 DEF Encrypt
<1> QED
  BY <1>4, <1>5 DEF SentRegion, SentEnc, FreshRegion, a, x, iv, r

\* An alteration of a session header leaves it an SPDU number.
LEMMA SesAltered ==
  ASSUME NEW kind, NEW mode, NEW i, i.spdu \in SeqNum,
         NEW ses, ses = SentSes(kind, mode, i), NEW x \in Sessions(ses)
  PROVE  x.spduNumber \in SeqNum
<1> DEFINE spdu == i.spdu
           iv == SentIV(mode, i)
<1>1. ses = SesHeader(kind, mode, spdu, iv) /\ spdu \in SeqNum
  BY DEF SentSes
<1> HIDE DEF spdu, iv
<1>2. Plus(spdu, 1) \in SeqNum /\ Plus(spdu, 2) \in SeqNum
  <2>1. spdu \in Nat /\ 1 \in Nat /\ 2 \in Nat
    BY <1>1, SeqModAssumption DEF SeqNum
  <2> QED
    BY <2>1, PlusType
<1>3. ses.spduNumber = spdu
  BY <1>1 DEF SesHeader
<1>4. PICK y : \/ x = [ses EXCEPT !.cltp = y]
               \/ x = [ses EXCEPT !.pi = y]
               \/ x = [ses EXCEPT !.version = y]
               \/ x = [ses EXCEPT !.keyId = y]
               \/ x = [ses EXCEPT !.si = y]
               \/ x = [ses EXCEPT !.ivLen = y]
               \/ x = [ses EXCEPT !.iv = y]
               \/ x = [ses EXCEPT !.payloadLength = y]
               \/ x = [ses EXCEPT !.spduNumber = y] /\ y \in {Plus(ses.spduNumber, 1), Plus(ses.spduNumber, 2)}
  BY DEF Sessions
<1>5. /\ [ses EXCEPT !.cltp = y].spduNumber = spdu
      /\ [ses EXCEPT !.pi = y].spduNumber = spdu
      /\ [ses EXCEPT !.version = y].spduNumber = spdu
      /\ [ses EXCEPT !.keyId = y].spduNumber = spdu
      /\ [ses EXCEPT !.si = y].spduNumber = spdu
      /\ [ses EXCEPT !.ivLen = y].spduNumber = spdu
      /\ [ses EXCEPT !.iv = y].spduNumber = spdu
      /\ [ses EXCEPT !.payloadLength = y].spduNumber = spdu
      /\ [ses EXCEPT !.spduNumber = y].spduNumber = y
  BY <1>1 DEF SesHeader
<1> QED
  BY <1>1, <1>2, <1>3, <1>4, <1>5

\* A region with one field altered.
LEMMA RegionAltered ==
  ASSUME NEW kind, NEW mode, NEW s, NEW i,
         NEW region, region = SentRegion(kind, mode, s, i), NEW x \in Regions(region)
  PROVE  NearRegion(kind, mode, s, i, x)
<1> DEFINE fresh == FreshApdu(kind, s, i)
           enc == SentEnc(mode, i)
           pt == PayloadOf(kind)
           id == AppIdOf(s)
<1>1. region = RegionOf(enc, pt, id, fresh)
  BY SentRegionIs
<1> HIDE DEF fresh, enc, pt, id
<1>2. ASSUME NEW y
      PROVE  /\ [region EXCEPT !.appid = y] = RegionOf(enc, pt, y, fresh)
             /\ [region EXCEPT !.ptype = y] = RegionOf(enc, y, id, fresh)
             /\ [region EXCEPT !.apdu = y] = RegionOf(enc, pt, id, y)
  BY <1>1 DEF RegionOf
<1>3. region.apdu = fresh /\ region.appid = id
  BY <1>1 DEF RegionOf
<1>4. PICK y : \/ x = [region EXCEPT !.appid = y] /\ y = region.appid + 1
               \/ x = [region EXCEPT !.ptype = y]
               \/ x = [region EXCEPT !.apdu = y] /\ y \in Apdus(region.apdu)
  BY DEF Regions
<1>5. \/ x = RegionOf(enc, pt, y, fresh) /\ y = id + 1
      \/ x = RegionOf(enc, y, id, fresh)
      \/ x = RegionOf(enc, pt, id, y) /\ y \in Apdus(fresh)
  BY <1>2, <1>3, <1>4
<1> QED
  BY <1>5 DEF NearRegion, NearApdu, enc, fresh, id

\* A trailer with one field altered.
LEMMA TrailerAltered ==
  ASSUME NEW kind, NEW mode, NEW s, NEW i, NEW x \in Trailers(SentTrl(kind, mode, s, i))
  PROVE  x.mac \in {SentTrl(kind, mode, s, i).mac, [alg |-> "altered"]}
<1> DEFINE trl == SentTrl(kind, mode, s, i)
           m == [alg |-> "altered"]
<1>1. trl = [tag |-> trl.tag, len |-> trl.len, mac |-> trl.mac] /\ x \in Trailers(trl)
  BY DEF SentTrl, NoTrailer, Trailer
<1> HIDE DEF trl, m
<1>2. x \in {[trl EXCEPT !.tag = 0], [trl EXCEPT !.len = 15], [trl EXCEPT !.mac = m]}
  BY <1>1 DEF Trailers, m
<1>3. x.mac \in {trl.mac, m}
  BY <1>1, <1>2
<1> QED
  BY <1>3 DEF trl, m

\* One field of a routable frame is altered.
LEMMA RAlteredNear ==
  ASSUME NEW kind, NEW mode, NEW s, NEW i, i.spdu \in SeqNum,
         NEW dmac, NEW size, NEW ip, NEW udp, NEW f,
         f = FrameOf("ipv4", dmac, size, ip, udp, SentSes(kind, mode, i),
                     SentRegion(kind, mode, s, i), SentTrl(kind, mode, s, i)),
         NEW g \in RAltered(f)
  PROVE  NearR(kind, mode, s, i, g)
<1> DEFINE ses == SentSes(kind, mode, i)
           region == SentRegion(kind, mode, s, i)
           trl == SentTrl(kind, mode, s, i)
           Near(x) == NearR(kind, mode, s, i, x)
           Parts(e, x, y, z) == NearParts(kind, mode, s, i, e, x, y, z)
<1>1. /\ \A x \in Sessions(ses) : x.spduNumber \in SeqNum
      /\ \A x \in Regions(region) : NearRegion(kind, mode, s, i, x)
      /\ \A x \in Trailers(trl) : x.mac \in {trl.mac, [alg |-> "altered"]}
  BY SesAltered, RegionAltered, TrailerAltered
<1>2. /\ \A x \in {"ipv4", "goose", "sv", "other"} : Parts(x, ses, region, trl)
      /\ \A x \in Sessions(ses) : Parts("ipv4", x, region, trl)
      /\ \A x \in Regions(region) : Parts("ipv4", ses, x, trl)
      /\ \A x \in Trailers(trl) : Parts("ipv4", ses, region, x)
  BY <1>1 DEF NearParts
<1>3. ASSUME NEW e, NEW d, NEW z, NEW x, NEW u, NEW y, NEW r, NEW t, Parts(e, y, r, t)
      PROVE  Near(FrameOf(e, d, z, x, u, y, r, t))
  BY <1>3 DEF NearR
<1> HIDE DEF ses, region, trl, Near, Parts
<1>4. f = FrameOf("ipv4", dmac, size, ip, udp, ses, region, trl)
  BY DEF ses, region, trl
<1>5. f.ip = ip /\ f.udp = udp /\ f.ses = ses /\ f.region = region /\ f.trl = trl
  BY <1>4 DEF FrameOf
<1>6. ASSUME NEW x
      PROVE  /\ [f EXCEPT !.eth = x] = FrameOf(x, dmac, size, ip, udp, ses, region, trl)
             /\ [f EXCEPT !.dmac = x] = FrameOf("ipv4", x, size, ip, udp, ses, region, trl)
             /\ [f EXCEPT !.size = x] = FrameOf("ipv4", dmac, x, ip, udp, ses, region, trl)
             /\ [f EXCEPT !.ip = x] = FrameOf("ipv4", dmac, size, x, udp, ses, region, trl)
             /\ [f EXCEPT !.udp = x] = FrameOf("ipv4", dmac, size, ip, x, ses, region, trl)
             /\ [f EXCEPT !.ses = x] = FrameOf("ipv4", dmac, size, ip, udp, x, region, trl)
             /\ [f EXCEPT !.region = x] = FrameOf("ipv4", dmac, size, ip, udp, ses, x, trl)
             /\ [f EXCEPT !.trl = x] = FrameOf("ipv4", dmac, size, ip, udp, ses, region, x)
  BY <1>4 DEF FrameOf
<1>7. PICK x : \/ x \in {"goose", "sv", "other"} /\ g = [f EXCEPT !.eth = x]
               \/ g = [f EXCEPT !.dmac = x]
               \/ g = [f EXCEPT !.size = x]
               \/ g = [f EXCEPT !.ip = x]
               \/ g = [f EXCEPT !.udp = x]
               \/ x \in Sessions(ses) /\ g = [f EXCEPT !.ses = x]
               \/ x \in Regions(region) /\ g = [f EXCEPT !.region = x]
               \/ x \in Trailers(trl) /\ g = [f EXCEPT !.trl = x]
  BY <1>5 DEF RAltered
<1>8. \/ /\ x \in {"goose", "sv", "other"}
         /\ g = FrameOf(x, dmac, size, ip, udp, ses, region, trl)
      \/ g = FrameOf("ipv4", x, size, ip, udp, ses, region, trl)
      \/ g = FrameOf("ipv4", dmac, x, ip, udp, ses, region, trl)
      \/ g = FrameOf("ipv4", dmac, size, x, udp, ses, region, trl)
      \/ g = FrameOf("ipv4", dmac, size, ip, x, ses, region, trl)
      \/ x \in Sessions(ses) /\ g = FrameOf("ipv4", dmac, size, ip, udp, x, region, trl)
      \/ x \in Regions(region) /\ g = FrameOf("ipv4", dmac, size, ip, udp, ses, x, trl)
      \/ x \in Trailers(trl) /\ g = FrameOf("ipv4", dmac, size, ip, udp, ses, region, x)
  BY <1>6, <1>7
<1> QED
  BY <1>2, <1>3, <1>8 DEF Near

L2Eth(kind) == IF IsGooseKind(kind) THEN "vlan_goose" ELSE "vlan_sv"
L2Of(eth, dmac, size, appid, apdu) ==
  [eth |-> eth, dmac |-> dmac, size |-> size, appid |-> appid, apdu |-> apdu]

NearL2(kind, s, i, f) ==
  \E eth, dmac, size, appid, apdu :
    /\ f = L2Of(eth, dmac, size, appid, apdu)
    /\ NearApdu(kind, s, i, appid, apdu)
    /\ apdu = FreshApdu(kind, s, i) \/ eth = L2Eth(kind)

\* One field of an L2 frame is altered.
LEMMA L2AlteredNear ==
  ASSUME NEW kind, NEW s, NEW i, NEW f, f = SentL2(kind, s, i), NEW g \in L2Altered(f)
  PROVE  NearL2(kind, s, i, g)
<1> DEFINE eth == L2Eth(kind)
           dmac == <<"01:0C:CD", IF IsGooseKind(kind) THEN 4 ELSE 1>>
           size == 26 + APDU_SIZE
           id == AppIdOf(s)
           fresh == FreshApdu(kind, s, i)
<1>1. f = L2Of(eth, dmac, size, id, fresh)
  BY DEF SentL2, L2Frame, L2Of, L2Eth
<1> HIDE DEF eth, dmac, size, id, fresh
<1>2. f.apdu = fresh /\ f.appid = id
  BY <1>1 DEF L2Of
<1>3. PICK x : \/ g = [f EXCEPT !.eth = x]
               \/ g = [f EXCEPT !.dmac = x]
               \/ g = [f EXCEPT !.size = x]
               \/ g = [f EXCEPT !.appid = x] /\ x = f.appid + 1
               \/ g = [f EXCEPT !.apdu = x] /\ x \in Apdus(f.apdu)
  BY DEF L2Altered
<1>4. \/ g = L2Of(x, dmac, size, id, fresh)
      \/ g = L2Of(eth, x, size, id, fresh)
      \/ g = L2Of(eth, dmac, x, id, fresh)
      \/ g = L2Of(eth, dmac, size, x, fresh) /\ x = id + 1
      \/ g = L2Of(eth, dmac, size, id, x) /\ x \in Apdus(fresh)
  BY <1>1, <1>2, <1>3 DEF L2Of
<1> QED
  BY <1>4 DEF NearL2, NearApdu, eth, id, fresh

SentSize(mode) == ETH_IP_UDP_SIZE + UdpSize(mode)
SentIp(mode, s) == IpHeader(mode, stream_dst_ip(s), Checksum(mode, stream_dst_ip(s)))
ROf(kind, mode, s, i, size) ==
  FrameOf("ipv4", multicast_mac(stream_dst_ip(s)), size, SentIp(mode, s),
          UdpHeader(mode, AppIdOf(s)), SentSes(kind, mode, i),
          SentRegion(kind, mode, s, i), SentTrl(kind, mode, s, i))

\* A frame as it was sent, with or without padding.
IntactR(kind, mode, s, i, f) ==
  \E size \in {SentSize(mode), SentSize(mode) + 4} : f = ROf(kind, mode, s, i, size)

OnWire(kind, mode, s, i, f, state) ==
  IF kind \in RKind
    THEN IF state = "intact" THEN IntactR(kind, mode, s, i, f) ELSE NearR(kind, mode, s, i, f)
    ELSE IF state = "intact" THEN f = SentL2(kind, s, i) ELSE NearL2(kind, s, i, f)

\* What is sent is intact.
LEMMA SentOnWire ==
  ASSUME NEW kind, NEW mode, NEW s, NEW i
  PROVE  OnWire(kind, mode, s, i, SentFrame(kind, mode, s, i), "intact")
<1>1. SentR(kind, mode, s, i) = ROf(kind, mode, s, i, SentSize(mode))
  BY DEF SentR, RFrame, Frame, ROf, FrameOf, SentSize, SentIp, SentSes
<1> QED
  BY <1>1 DEF OnWire, SentFrame, IntactR

\* Lengths of a frame.
LEMMA SizeType ==
  ASSUME NEW mode
  PROVE  UdpSize(mode) \in Nat /\ SentSize(mode) \in Nat /\ SentSize(mode) = 42 + UdpSize(mode)
<1>1. APDU_SIZE \in Nat
  BY FrameAssumption
<1>2. UdpSize(mode) \in Nat
  BY <1>1 DEF UdpSize, udp_payload_size, apdu_offset, iv_length, payload_hdr_offset,
              SESSION_FIXED_SIZE, PAYLOAD_HDR_SIZE, IV_LEN_GCM, trailer_size, TRAILER_SIZE, TAG_SIZE
<1> QED
  BY <1>2 DEF SentSize, ETH_IP_UDP_SIZE

\* Padding keeps intact frames intact, and happens once; it alters no part of
\* an altered frame that is read.
LEMMA PaddedOnWire ==
  ASSUME NEW kind, NEW mode, NEW s, NEW i, NEW f, NEW state, OnWire(kind, mode, s, i, f, state),
         "ip" \in DOMAIN f, f.size = 14 + f.ip.len
  PROVE  OnWire(kind, mode, s, i, [f EXCEPT !.size = @ + 4], state)
<1> DEFINE g == [f EXCEPT !.size = @ + 4]
<1>1. CASE kind \in RKind /\ state = "intact"
  <2> DEFINE ip == SentIp(mode, s)
             dmac == multicast_mac(stream_dst_ip(s))
             udp == UdpHeader(mode, AppIdOf(s))
             ses == SentSes(kind, mode, i)
             region == SentRegion(kind, mode, s, i)
             trl == SentTrl(kind, mode, s, i)
             U == UdpSize(mode)
             Z == SentSize(mode)
  <2>1. PICK size \in {Z, Z + 4} : f = ROf(kind, mode, s, i, size)
    BY <1>1 DEF OnWire, IntactR
  <2>2. U \in Nat /\ Z \in Nat /\ Z = 42 + U
    BY SizeType
  <2>3. ip.len = 20 + 8 + U
    BY DEF SentIp, IpHeader
  <2> HIDE DEF ip, dmac, udp, ses, region, trl, U, Z
  <2>4. f = FrameOf("ipv4", dmac, size, ip, udp, ses, region, trl)
    BY <2>1 DEF ROf, ip, dmac, udp, ses, region, trl
  <2>5. f.ip = ip /\ f.size = size
    BY <2>4 DEF FrameOf
  <2>6. size = Z
    BY <2>1, <2>2, <2>3, <2>5
  <2>7. g = FrameOf("ipv4", dmac, Z + 4, ip, udp, ses, region, trl)
    BY <2>4, <2>5, <2>6 DEF FrameOf
  <2>8. g = ROf(kind, mode, s, i, Z + 4)
    BY <2>7 DEF ROf, ip, dmac, udp, ses, region, trl
  <2> QED
    BY <1>1, <2>8 DEF OnWire, IntactR, Z
<1>2. CASE kind \in RKind /\ state # "intact"
  <2>1. PICK eth, dmac, size, ip, udp, ses, region, trl :
          /\ f = FrameOf(eth, dmac, size, ip, udp, ses, region, trl)
          /\ NearParts(kind, mode, s, i, eth, ses, region, trl)
    BY <1>2 DEF OnWire, NearR
  <2> DEFINE z == f.size + 4
  <2> HIDE DEF z
  <2>2. g = FrameOf(eth, dmac, z, ip, udp, ses, region, trl)
    BY <2>1 DEF FrameOf, z
  <2> HIDE DEF g
  <2>3. NearR(kind, mode, s, i, g)
    BY <2>1, <2>2 DEF NearR
  <2> QED
    BY <1>2, <2>3 DEF OnWire, g
<1>3. CASE kind \notin RKind
  <2>1. \E eth, dmac, size, appid, apdu : f = L2Of(eth, dmac, size, appid, apdu)
    BY <1>3 DEF OnWire, NearL2, SentL2, L2Frame, L2Of
  <2>2. "ip" \notin DOMAIN f
    BY <2>1 DEF L2Of
  <2> QED
    BY <2>2
<1> QED
  BY <1>1, <1>2, <1>3

\* One field of a frame is altered.
LEMMA AlteredOnWire ==
  ASSUME NEW kind, NEW mode, NEW s, NEW i, i.spdu \in SeqNum, NEW f,
         OnWire(kind, mode, s, i, f, "intact"),
         NEW g \in (IF kind \in RKind THEN RAltered(f) ELSE L2Altered(f))
  PROVE  OnWire(kind, mode, s, i, g, "altered")
<1>1. CASE kind \in RKind
  <2>1. PICK size : f = ROf(kind, mode, s, i, size)
    BY <1>1 DEF OnWire, IntactR
  <2>2. g \in RAltered(f)
    BY <1>1
  <2>3. NearR(kind, mode, s, i, g)
    BY <2>1, <2>2, RAlteredNear DEF ROf
  <2> QED
    BY <1>1, <2>3 DEF OnWire
<1>2. CASE kind \notin RKind
  BY <1>2, L2AlteredNear DEF OnWire
<1> QED
  BY <1>1, <1>2

-----------------------------------------------------------------------------
(* The generator and the wire.                                             *)

WireOK(w) ==
  /\ w = [frame |-> w.frame, s |-> w.s, n |-> w.n, i |-> w.i, state |-> w.state]
  /\ w.s \in Stream
  /\ w.n = sent[w.s] /\ w.n # 0
  /\ w.i = SentIed(run.kind, w.n)
  /\ w.state \in {"intact", "altered"}
  /\ OnWire(run.kind, run.tx, w.s, w.i, w.frame, w.state)
  /\ w.state # "intact" => altered < MaxAltered

\* What the mbufs and masters hold may be used again, the IEDs are as far as
\* their streams, and the wire has at most one frame, at most once altered.
SenderInv ==
  /\ run \in Runs
  /\ DOMAIN mem = Mbuf
  /\ \A m \in Mbuf : Reusable(run.kind, run.tx, mem[m])
  /\ DOMAIN plain = Worker
  /\ run.kind \in RKind => \A w \in Worker : RegionLike(run.kind, plain[w])
  /\ DOMAIN sent = Stream
  /\ \A s \in Stream : sent[s] \in 0 .. MaxSent[s]
  /\ DOMAIN ied = Stream
  /\ \A s \in Stream : ied[s] = IedAfter(run.kind, sent[s])
  /\ altered \in 0 .. MaxAltered
  /\ wire = << >> \/ \E w : wire = << w >> /\ WireOK(w)

\* The configuration of a run.
LEMMA RunType ==
  ASSUME NEW r \in Runs
  PROVE  /\ r.kind \in AnyKind /\ r.tx \in SecurityMode /\ r.rx \in SecurityMode
         /\ r.kind \notin RKind => r.tx = "none" /\ r.rx = "none"
BY PathAssumption DEF Run, AnyKind, L2Kind, RKind

\* The bounds of a stream.
LEMMA BoundType == MaxSent \in [Stream -> Nat] /\ MaxAltered \in Nat
BY PathAssumption

\* SenderInv holds initially.
LEMMA SenderInit == Init => SenderInv
<1> SUFFICES ASSUME Init PROVE SenderInv
  OBVIOUS
<1>1. run \in Runs /\ run.kind \in AnyKind /\ run.tx \in SecurityMode
  BY RunType DEF Init
<1>2. /\ Reusable(run.kind, run.tx, Skeleton(run.kind, run.tx))
      /\ run.kind \in RKind => RegionLike(run.kind, RSkeleton(run.kind, run.tx).region)
  BY <1>1, SkeletonReusable
<1>3. DOMAIN mem = Mbuf /\ \A m \in Mbuf : mem[m] = Skeleton(run.kind, run.tx)
  BY DEF Init
<1>4. /\ DOMAIN plain = Worker
      /\ run.kind \in RKind => \A w \in Worker : plain[w] = RSkeleton(run.kind, run.tx).region
  BY DEF Init
<1>5. /\ DOMAIN sent = Stream /\ \A s \in Stream : sent[s] = 0
      /\ DOMAIN ied = Stream /\ \A s \in Stream : ied[s] = [spdu |-> 0, num |-> 0]
      /\ altered = 0 /\ wire = << >>
  BY DEF Init
<1>6. IedAfter(run.kind, 0) = [spdu |-> 0, num |-> 0]
  BY IedAtFirst
<1> QED
  BY <1>1, <1>2, <1>3, <1>4, <1>5, <1>6, BoundType DEF SenderInv

\* A frame is taken off the wire.
LEMMA SenderWireEmpty ==
  ASSUME SenderInv, UNCHANGED sender, wire' = << >>, altered' \in 0 .. MaxAltered
  PROVE  SenderInv'
<1>1. run' = run /\ mem' = mem /\ plain' = plain /\ ied' = ied /\ sent' = sent
  BY DEF sender
<1> QED
  BY <1>1 DEF SenderInv

\* The frame on the wire is padded or altered.
LEMMA SenderWireChanged ==
  ASSUME SenderInv, UNCHANGED <<sender, altered>>, NEW w, wire' = << w >>, WireOK(w)
  PROVE  SenderInv'
<1>1. run' = run /\ mem' = mem /\ plain' = plain /\ ied' = ied /\ sent' = sent /\ altered' = altered
  BY DEF sender
<1>2. wire' = << w >> /\ WireOK(w)'
  <2>1. OnWire(run.kind, run.tx, w.s, w.i, w.frame, w.state)'
          = OnWire(run.kind, run.tx, w.s, w.i, w.frame, w.state)
    BY <1>1
  <2> QED
    BY <1>1 DEF WireOK
<1> QED
  BY <1>1, <1>2 DEF SenderInv

\* Send keeps SenderInv, and sends the frame of the stream.
LEMMA SenderSend ==
  ASSUME SenderInv, NEW s \in Stream, NEW m \in Mbuf, Send(s, m)
  PROVE  SenderInv'
<1> DEFINE kind == run.kind
           mode == run.tx
           n == sent[s]
           i == Before(kind, ied[s])
           master == plain[OwnerOf[s]]
           region == RRegion(kind, mode, mem[m], master, s, i)
           packet == IF kind \in RKind THEN RAmend(kind, mode, mem[m], region, s, i)
                     ELSE L2Amend(kind, mem[m], s, i)
           w == [frame |-> packet, s |-> s, n |-> n + 1, i |-> i, state |-> "intact"]
<1>1. /\ n < MaxSent[s]
      /\ mem' = [mem EXCEPT ![m] = packet]
      /\ plain' = IF mode = "gcm" /\ kind \in RKind
                    THEN [plain EXCEPT ![OwnerOf[s]] = region] ELSE plain
      /\ ied' = [ied EXCEPT ![s] = After(kind, i)]
      /\ wire' = << w >>
      /\ sent' = [sent EXCEPT ![s] = n + 1]
      /\ run' = run /\ altered' = altered
  BY DEF Send
<1>2. run \in Runs /\ kind \in AnyKind /\ mode \in SecurityMode /\ n \in Nat /\ OwnerOf[s] \in Worker
  BY RunType, BoundType DEF SenderInv, Worker
<1>3. i = SentIed(kind, n + 1) /\ After(kind, i) = IedAfter(kind, n + 1)
  BY <1>2, IedBefore, IedKept DEF SenderInv
<1>4. packet = SentFrame(kind, mode, s, i) /\ (kind \in RKind => region = FreshRegion(kind, s, i))
  <2> DEFINE p == mem[m]
  <2>1. Reusable(kind, mode, p) /\ (kind \in RKind /\ mode = "gcm" => RegionLike(kind, master))
    BY <1>2 DEF SenderInv
  <2> HIDE DEF p, kind, mode, master, i
  <2> QED
    BY <1>2, <2>1, PacketSent DEF p
<1> HIDE DEF i, region, packet, master
<1>5. Reusable(kind, mode, packet) /\ OnWire(kind, mode, s, i, packet, "intact")
  BY <1>2, <1>4, SentReusable, SentOnWire
<1>6. kind \in RKind => RegionLike(kind, region)
  BY <1>4, FreshRegionLike
<1>7. DOMAIN mem' = Mbuf /\ \A k \in Mbuf : Reusable(kind, mode, mem'[k])
  BY <1>1, <1>5 DEF SenderInv
<1>8. /\ DOMAIN plain' = Worker
      /\ kind \in RKind => \A v \in Worker : RegionLike(kind, plain'[v])
  BY <1>1, <1>2, <1>6 DEF SenderInv
<1>9. /\ DOMAIN sent' = Stream /\ DOMAIN ied' = Stream
      /\ sent'[s] = n + 1 /\ ied'[s] = IedAfter(kind, n + 1)
      /\ \A t \in Stream : t # s => sent'[t] = sent[t] /\ ied'[t] = ied[t]
  BY <1>1, <1>3 DEF SenderInv
<1>10. \A t \in Stream : sent'[t] \in 0 .. MaxSent[t] /\ ied'[t] = IedAfter(kind, sent'[t])
  <2> HIDE DEF n, kind
  <2>1. n + 1 \in 0 .. MaxSent[s]
    BY <1>1, <1>2, BoundType
  <2>2. \A t \in Stream : sent[t] \in 0 .. MaxSent[t] /\ ied[t] = IedAfter(kind, sent[t])
    BY DEF SenderInv, kind
  <2> QED
    BY <1>9, <2>1, <2>2
<1>11. PICK v : v = w
  OBVIOUS
<1>12. WireOK(v)'
  <2>1. v.frame = packet /\ v.s = s /\ v.n = n + 1 /\ v.i = i /\ v.state = "intact"
    BY <1>11
  <2>2. v = [frame |-> v.frame, s |-> v.s, n |-> v.n, i |-> v.i, state |-> v.state]
    BY <1>11
  <2> HIDE DEF w, kind, mode, n
  <2>3. run.kind = kind /\ run.tx = mode /\ run'.kind = kind /\ run'.tx = mode
    BY <1>1 DEF kind, mode
  <2>4. n + 1 # 0
    BY <1>2
  <2>5. OnWire(run'.kind, run'.tx, v.s, v.i, v.frame, v.state)
    BY <1>5, <2>1, <2>3
  <2> QED
    BY <1>3, <1>9, <2>1, <2>2, <2>3, <2>4, <2>5 DEF WireOK
<1>13. /\ run' \in Runs /\ run'.kind = kind /\ run'.tx = mode /\ altered' \in 0 .. MaxAltered
       /\ wire' = << v >>
  BY <1>1, <1>11 DEF SenderInv
<1> HIDE DEF w, kind, mode, n
<1> QED
  BY <1>7, <1>8, <1>9, <1>10, <1>12, <1>13 DEF SenderInv

\* Padding keeps SenderInv.
LEMMA SenderPad == ASSUME SenderInv, Pad PROVE SenderInv'
<1>1. PICK w : wire = << w >> /\ WireOK(w)
  BY DEF Pad, SenderInv
<1> DEFINE f == w.frame
           g == [f EXCEPT !.size = @ + 4]
<1>2. wire[1] = w
  BY <1>1
<1>3. "ip" \in DOMAIN f /\ f.size = 14 + f.ip.len /\ UNCHANGED <<sender, altered>>
  BY <1>2 DEF Pad
<1>4. OnWire(run.kind, run.tx, w.s, w.i, g, w.state)
  BY <1>1, <1>3, PaddedOnWire DEF WireOK
<1>5. wire' = << [w EXCEPT !.frame = g] >>
  BY <1>2 DEF Pad
<1> HIDE DEF g
<1>6. PICK v : v = [w EXCEPT !.frame = g]
  OBVIOUS
<1>7. /\ v.frame = g /\ v.s = w.s /\ v.n = w.n /\ v.i = w.i /\ v.state = w.state
      /\ v = [frame |-> v.frame, s |-> v.s, n |-> v.n, i |-> v.i, state |-> v.state]
  BY <1>1, <1>6 DEF WireOK
<1>8. WireOK(v)
  BY <1>1, <1>4, <1>7 DEF WireOK
<1> QED
  BY <1>3, <1>5, <1>6, <1>8, SenderWireChanged

\* An alteration keeps SenderInv.
LEMMA SenderAlter == ASSUME SenderInv, Alter PROVE SenderInv'
<1>1. PICK w : wire = << w >> /\ WireOK(w)
  BY DEF Alter, SenderInv
<1> DEFINE f == w.frame
<1>2. wire[1] = w
  BY <1>1
<1>3. w.state = "intact" /\ altered < MaxAltered /\ UNCHANGED <<sender, altered>>
  BY <1>2 DEF Alter
<1>4. PICK g \in (IF run.kind \in RKind THEN RAltered(f) ELSE L2Altered(f)) :
         wire' = << [w EXCEPT !.frame = g, !.state = "altered"] >>
  BY <1>2 DEF Alter
<1>5. OnWire(run.kind, run.tx, w.s, w.i, f, "intact") /\ w.i.spdu \in SeqNum
  <2>1. w.i = SentIed(run.kind, w.n) /\ w.n \in Nat
    BY <1>1, BoundType DEF WireOK, SenderInv
  <2>2. w.i.spdu = SpduAfter(run.kind, w.n)
    BY <2>1 DEF SentIed
  <2>3. w.i.spdu \in SeqNum
    BY <2>1, <2>2, IedType
  <2> QED
    BY <1>1, <1>3, <2>3 DEF WireOK
<1>6. OnWire(run.kind, run.tx, w.s, w.i, g, "altered")
  BY <1>4, <1>5, AlteredOnWire
<1>7. PICK v : v = [w EXCEPT !.frame = g, !.state = "altered"]
  OBVIOUS
<1>8. /\ v.frame = g /\ v.s = w.s /\ v.n = w.n /\ v.i = w.i /\ v.state = "altered"
      /\ v = [frame |-> v.frame, s |-> v.s, n |-> v.n, i |-> v.i, state |-> v.state]
  BY <1>1, <1>7 DEF WireOK
<1>9. WireOK(v)
  BY <1>1, <1>3, <1>6, <1>8 DEF WireOK
<1> QED
  BY <1>3, <1>4, <1>7, <1>9, SenderWireChanged

\* A frame leaves the wire.
LEMMA SenderLeaves == ASSUME SenderInv, Lose \/ Receive PROVE SenderInv'
<1>1. CASE Lose
  BY <1>1, SenderWireEmpty DEF Lose, SenderInv
<1>2. CASE Receive
  <2>1. PICK w : wire = << w >> /\ WireOK(w)
    BY <1>2 DEF Receive, SenderInv
  <2>2. wire[1] = w
    BY <2>1
  <2>3. UNCHANGED sender /\ wire' = << >> /\ altered' = IF w.state = "intact" THEN altered ELSE altered + 1
    BY <1>2, <2>2 DEF Receive
  <2>4. altered' \in 0 .. MaxAltered
    BY <2>1, <2>3, BoundType DEF WireOK, SenderInv
  <2> QED
    BY <2>3, <2>4, SenderWireEmpty
<1> QED
  BY <1>1, <1>2

\* SenderInv is inductive.
LEMMA SenderNext == SenderInv /\ [Next]_vars => SenderInv'
<1> SUFFICES ASSUME SenderInv, [Next]_vars PROVE SenderInv'
  OBVIOUS
<1>1. CASE UNCHANGED vars
  <2>1. run' = run /\ mem' = mem /\ plain' = plain /\ ied' = ied /\ sent' = sent
        /\ altered' = altered /\ wire' = wire
    BY <1>1 DEF vars, sender
  <2>2. ASSUME NEW w PROVE WireOK(w)' = WireOK(w)
    BY <2>1 DEF WireOK
  <2> QED
    BY <2>1, <2>2 DEF SenderInv
<1>2. CASE Next
  BY <1>2, SenderSend, SenderPad, SenderAlter, SenderLeaves DEF Next
<1> QED
  BY <1>1, <1>2

\* It holds in every state.
LEMMA SenderAlways == Spec => []SenderInv
BY SenderInit, SenderNext, PTL DEF Spec

\* A frame that was sent is as from a new skeleton: whatever its mbuf and the
\* master of its worker held, AmendPacket and seal left nothing of it.
THEOREM FramesAreFresh == Spec => []FrameIsFresh
<1>1. SenderInv => FrameIsFresh
  <2> SUFFICES ASSUME SenderInv, wire # << >>, wire[1].state = "intact" PROVE FrameIsFresh
    BY DEF FrameIsFresh
  <2>1. PICK w : wire = << w >> /\ WireOK(w)
    BY DEF SenderInv
  <2> DEFINE kind == run.kind
             mode == run.tx
             s == w.s
             i == w.i
             new == Skeleton(kind, mode)
             region == RRegion(kind, mode, new, new.region, s, i)
             fresh == IF kind \in RKind THEN RAmend(kind, mode, new, region, s, i)
                      ELSE L2Amend(kind, new, s, i)
  <2>2. wire[1] = w /\ w.state = "intact"
    BY <2>1
  <2>3. kind \in AnyKind /\ mode \in SecurityMode
    BY RunType DEF SenderInv
  <2>4. fresh = SentFrame(kind, mode, s, i)
    <3> DEFINE master == new.region
    <3>1. Reusable(kind, mode, new) /\ (kind \in RKind => RegionLike(kind, master))
      BY <2>3, SkeletonReusable DEF Skeleton
    <3> HIDE DEF kind, mode, s, i, new, master
    <3> QED
      BY <2>3, <3>1, PacketSent DEF master
  <2>5. [w.frame EXCEPT !.size = new.size] = SentFrame(kind, mode, s, i)
    <3>1. CASE kind \in RKind
      <4> DEFINE dmac == multicast_mac(stream_dst_ip(s))
                 ip == SentIp(mode, s)
                 udp == UdpHeader(mode, AppIdOf(s))
                 ses == SentSes(kind, mode, i)
                 r == SentRegion(kind, mode, s, i)
                 trl == SentTrl(kind, mode, s, i)
                 Of(z) == FrameOf("ipv4", dmac, z, ip, udp, ses, r, trl)
      <4>1. PICK size : w.frame = ROf(kind, mode, s, i, size)
        BY <2>1, <2>2, <3>1 DEF WireOK, OnWire, IntactR
      <4>2. new.size = SentSize(mode)
        BY <2>3, <3>1, RSkeletonIs DEF Skeleton, RFrame, Frame, SentSize
      <4>3. SentFrame(kind, mode, s, i) = ROf(kind, mode, s, i, SentSize(mode))
        BY <3>1 DEF SentFrame, SentR, RFrame, Frame, ROf, FrameOf, SentSize, SentIp, SentSes
      <4>4. \A z : ROf(kind, mode, s, i, z) = Of(z)
        BY DEF ROf
      <4> HIDE DEF dmac, ip, udp, ses, r, trl, new, kind, mode, s, i
      <4>5. [Of(size) EXCEPT !.size = new.size] = Of(new.size)
        BY DEF FrameOf
      <4> QED
        BY <4>1, <4>2, <4>3, <4>4, <4>5
    <3>2. CASE kind \notin RKind
      <4> DEFINE x == AppIdOf(s)
                 a == FreshApdu(kind, s, i)
      <4>1. w.frame = L2Frame(kind, x, a) /\ SentFrame(kind, mode, s, i) = L2Frame(kind, x, a)
        BY <2>1, <2>2, <3>2 DEF WireOK, OnWire, SentL2, SentFrame
      <4>2. new.size = 26 + APDU_SIZE
        BY <3>2 DEF Skeleton, L2Skeleton
      <4> HIDE DEF x, a, kind, mode, s, i, new
      <4>3. [L2Frame(kind, x, a) EXCEPT !.size = new.size] = L2Frame(kind, x, a)
        BY <4>2 DEF L2Frame
      <4> QED
        BY <4>1, <4>3
    <3> QED
      BY <3>1, <3>2
  <2>6. [w.frame EXCEPT !.size = new.size] = fresh
    BY <2>4, <2>5
  <2> QED
    BY <2>2, <2>6 DEF FrameIsFresh
<1> QED
  BY <1>1, SenderAlways, PTL

-----------------------------------------------------------------------------
(* The APDU walks.                                                         *)

Acc(err, val, seen) == [err |-> err, val |-> val, seen |-> seen]

Fits(item) == item.len = "fits" /\ ~(item.tag = "allData" /\ parse_alldata(item) < 0)

\* After an error the walk is over.
LEMMA WalkEnds ==
  ASSUME NEW err, NEW val, NEW seen, NEW item, NEW acc, acc = Acc(err, val, seen), err # "OK"
  PROVE  WalkItem(acc, item) = acc
<1>1. acc.err = err
  BY DEF Acc
<1> QED
  BY <1>1 DEF WalkItem

\* An item that does not fit is an error.
LEMMA WalkFails ==
  ASSUME NEW val, NEW seen, NEW item, NEW acc, acc = Acc("OK", val, seen), ~Fits(item)
  PROVE  \E e : e # "OK" /\ WalkItem(acc, item) = Acc(e, val, seen)
<1>1. acc.err = "OK"
  BY DEF Acc
<1>2. /\ [acc EXCEPT !.err = "-3"] = Acc("-3", val, seen)
      /\ [acc EXCEPT !.err = "-101"] = Acc("-101", val, seen)
  BY DEF Acc
<1>3. WalkItem(acc, item) \in {[acc EXCEPT !.err = "-3"], [acc EXCEPT !.err = "-101"]}
  BY <1>1 DEF WalkItem, Fits
<1>4. WalkItem(acc, item) \in {Acc("-3", val, seen), Acc("-101", val, seen)}
  BY <1>2, <1>3
<1> QED
  BY <1>4

Taken(val, seen, item) == Acc("OK", [val EXCEPT ![item.tag] = item.val], seen \cup {item.tag})

\* One that fits gives its tag a value.
LEMMA WalkTakes ==
  ASSUME NEW val, NEW seen, NEW item, NEW acc, acc = Acc("OK", val, seen), Fits(item)
  PROVE  WalkItem(acc, item) = Taken(val, seen, item)
<1> DEFINE v == [val EXCEPT ![item.tag] = item.val]
           z == seen \cup {item.tag}
           a1 == [acc EXCEPT !.val = v]
           a2 == [a1 EXCEPT !.seen = z]
<1>1. acc.err = "OK" /\ acc.val = val /\ acc.seen = seen
  BY DEF Acc
<1>2. WalkItem(acc, item) = [acc EXCEPT !.val[item.tag] = item.val, !.seen = @ \cup {item.tag}]
  BY <1>1 DEF WalkItem, Fits
<1> HIDE DEF a1, a2
<1>3. WalkItem(acc, item) = [a1 EXCEPT !.seen = acc.seen \cup {item.tag}]
  <2>1. a1.seen = acc.seen
    BY DEF a1, Acc
  <2> QED
    BY <1>1, <1>2, <2>1 DEF a1
<1> HIDE DEF v, z
<1>4. a1 = Acc("OK", v, seen)
  BY DEF Acc, a1
<1>5. a2 = Acc("OK", v, z)
  BY <1>4 DEF Acc, a2
<1> QED
  BY <1>1, <1>3, <1>5 DEF a2, v, z, Taken

WalkStart == Acc("OK", [t \in GooseTag |-> 0], {})
IsWalk(f, items, n) ==
  f = [k \in 0 .. n |-> IF k = 0 THEN WalkStart ELSE WalkItem(f[k - 1], items[k])]

\* The walk is defined.
LEMMA WalkExists == ASSUME NEW items, NEW n \in Nat PROVE \E f : IsWalk(f, items, n)
<1> DEFINE S == {k \in Nat : \E f : IsWalk(f, items, k)}
<1>1. 0 \in S
  <2> DEFINE f == [k \in 0 .. 0 |-> WalkStart]
  <2>1. IsWalk(f, items, 0)
    BY DEF IsWalk
  <2> QED
    BY <2>1
<1>2. ASSUME NEW k \in S PROVE k + 1 \in S
  <2>1. k \in Nat /\ \E f : IsWalk(f, items, k)
    OBVIOUS
  <2>2. PICK f : IsWalk(f, items, k)
    BY <2>1
  <2> DEFINE new == WalkItem(f[k], items[k + 1])
             g == [j \in 0 .. k + 1 |-> IF j = k + 1 THEN new ELSE f[j]]
             Step(j) == IF j = 0 THEN WalkStart ELSE WalkItem(g[j - 1], items[j])
  <2>3. ASSUME NEW j \in 0 .. k + 1 PROVE g[j] = Step(j)
    <3>1. CASE j = k + 1
      BY <2>1, <3>1
    <3>2. CASE j # k + 1
      <4>1. j \in 0 .. k /\ g[j] = f[j]
        BY <2>1, <3>2
      <4>2. f[j] = IF j = 0 THEN WalkStart ELSE WalkItem(f[j - 1], items[j])
        BY <2>2, <4>1 DEF IsWalk
      <4>3. j # 0 => g[j - 1] = f[j - 1]
        BY <2>1, <4>1
      <4> HIDE DEF g
      <4> QED
        BY <4>1, <4>2, <4>3
    <3> QED
      BY <3>1, <3>2
  <2>4. g = [j \in 0 .. k + 1 |-> Step(j)]
    BY <2>3
  <2>5. IsWalk(g, items, k + 1)
    BY <2>4 DEF IsWalk
  <2> QED
    BY <2>1, <2>5
<1>3. S = Nat
  <2>1. S \in SUBSET Nat
    OBVIOUS
  <2> HIDE DEF S
  <2> QED
    BY <1>1, <1>2, <2>1, Numbers!Induction
<1> QED
  BY <1>3

ItemsOK(items, n) ==
  \A k \in 1 .. n : items[k].tag \in GooseTag /\ items[k].val \in Nat

\* What the first n items of a walk give: values of items, and no error when
\* they all fit.
Walked(items, n, acc) ==
  \E err, val, seen :
    /\ acc = Acc(err, val, seen)
    /\ val \in [GooseTag -> Nat]
    /\ err = "OK" =>
         /\ seen = {items[k].tag : k \in 1 .. n}
         /\ \A t \in seen : \E k \in 1 .. n : items[k].tag = t /\ val[t] = items[k].val
    /\ (\A k \in 1 .. n : Fits(items[k])) => err = "OK"

\* It holds before the first item.
LEMMA WalkedFirst == ASSUME NEW items PROVE Walked(items, 0, WalkStart)
<1> DEFINE val == [t \in GooseTag |-> 0]
<1>1. val \in [GooseTag -> Nat]
  OBVIOUS
<1>2. {} = {items[k].tag : k \in 1 .. 0}
  OBVIOUS
<1> HIDE DEF val
<1> QED
  BY <1>1, <1>2 DEF Walked, WalkStart, val

\* And after one more.
LEMMA WalkedNext ==
  ASSUME NEW items, NEW n \in Nat, ItemsOK(items, n + 1), NEW acc, Walked(items, n, acc)
  PROVE  Walked(items, n + 1, WalkItem(acc, items[n + 1]))
<1>1. PICK err, val, seen :
        /\ acc = Acc(err, val, seen)
        /\ val \in [GooseTag -> Nat]
        /\ err = "OK" =>
             /\ seen = {items[k].tag : k \in 1 .. n}
             /\ \A t \in seen : \E k \in 1 .. n : items[k].tag = t /\ val[t] = items[k].val
        /\ (\A k \in 1 .. n : Fits(items[k])) => err = "OK"
  BY DEF Walked
<1> DEFINE item == items[n + 1]
           next0 == WalkItem(acc, item)
<1>2. n + 1 \in 1 .. n + 1 /\ item.tag \in GooseTag /\ item.val \in Nat
  BY DEF ItemsOK
<1>3. \A k \in 1 .. n + 1 : k \in 1 .. n \/ k = n + 1
  OBVIOUS
<1>4. \A k \in 1 .. n : k \in 1 .. n + 1
  OBVIOUS
<1> HIDE DEF next0
<1>5. CASE err # "OK"
  <2>1. next0 = Acc(err, val, seen)
    BY <1>1, <1>5, WalkEnds DEF next0
  <2>2. ~(\A k \in 1 .. n + 1 : Fits(items[k]))
    BY <1>1, <1>4, <1>5
  <2> QED
    BY <1>1, <1>5, <2>1, <2>2 DEF Walked, next0
<1>6. CASE err = "OK" /\ ~Fits(item)
  <2>1. PICK e : e # "OK" /\ next0 = Acc(e, val, seen)
    BY <1>1, <1>6, WalkFails DEF next0
  <2>2. ~(\A k \in 1 .. n + 1 : Fits(items[k]))
    BY <1>2, <1>6
  <2> QED
    BY <1>1, <2>1, <2>2 DEF Walked, next0
<1>7. CASE err = "OK" /\ Fits(item)
  <2> DEFINE v == [val EXCEPT ![item.tag] = item.val]
             z == seen \cup {item.tag}
  <2>1. next0 = Acc("OK", v, z)
    <3>1. next0 = Taken(val, seen, item)
      BY <1>1, <1>7, WalkTakes DEF next0
    <3> QED
      BY <3>1 DEF Taken
  <2>2. v \in [GooseTag -> Nat]
    BY <1>1, <1>2
  <2>3. z = {items[k].tag : k \in 1 .. n + 1}
    BY <1>1, <1>2, <1>3, <1>4, <1>7
  <2>4. ASSUME NEW t \in z
        PROVE  \E k \in 1 .. n + 1 : items[k].tag = t /\ v[t] = items[k].val
    <3>1. CASE t = item.tag
      BY <1>1, <1>2, <3>1
    <3>2. CASE t # item.tag
      <4>1. PICK k \in 1 .. n : items[k].tag = t /\ val[t] = items[k].val
        BY <1>1, <1>7, <3>2
      <4>2. t \in GooseTag
        BY <1>4, <4>1 DEF ItemsOK
      <4>3. v[t] = val[t]
        BY <1>1, <3>2, <4>2
      <4> QED
        BY <1>4, <4>1, <4>3
    <3> QED
      BY <3>1, <3>2
  <2> HIDE DEF v, z
  <2> QED
    BY <2>1, <2>2, <2>3, <2>4 DEF Walked, next0
<1> QED
  BY <1>5, <1>6, <1>7

\* The whole walk.
LEMMA GooseWalked ==
  ASSUME NEW items, NEW n \in Nat, Len(items) = n, ItemsOK(items, n)
  PROVE  Walked(items, n, GooseWalk(items))
<1> DEFINE f == CHOOSE f : IsWalk(f, items, n)
<1>1. GooseWalk(items) = f[n]
  BY DEF GooseWalk, IsWalk, WalkStart, Acc
<1>2. IsWalk(f, items, n)
  BY WalkExists
<1> HIDE DEF f
<1>3. \A k \in 0 .. n : f[k] = IF k = 0 THEN WalkStart ELSE WalkItem(f[k - 1], items[k])
  BY <1>2 DEF IsWalk
<1> DEFINE S == {k \in Nat : k <= n => Walked(items, k, f[k])}
<1>4. 0 \in S
  BY <1>3, WalkedFirst
<1>5. ASSUME NEW k \in S PROVE k + 1 \in S
  <2> SUFFICES ASSUME k + 1 <= n PROVE Walked(items, k + 1, f[k + 1])
    OBVIOUS
  <2>1. k \in Nat /\ Walked(items, k, f[k]) /\ k + 1 \in 0 .. n /\ k + 1 # 0 /\ (k + 1) - 1 = k
    OBVIOUS
  <2>2. f[k + 1] = WalkItem(f[k], items[k + 1])
    BY <1>3, <2>1
  <2>3. ItemsOK(items, k + 1)
    BY DEF ItemsOK
  <2> QED
    BY <2>1, <2>2, <2>3, WalkedNext
<1>6. S = Nat
  <2>1. S \in SUBSET Nat
    OBVIOUS
  <2> HIDE DEF S
  <2> QED
    BY <1>4, <1>5, <2>1, Numbers!Induction
<1>7. Walked(items, n, f[n])
  BY <1>6
<1> QED
  BY <1>1, <1>7

\* The items of a GOOSE that was sent.
SentItems(q, x) ==
  /\ Len(q) = 8 /\ DOMAIN q = 1 .. 8
  /\ \A k \in 1 .. 8 : \E tag \in GooseTag, val \in Nat : q[k] = GooseItem(tag, val)
  /\ q[1] = GooseItem("gocbRef", x)
  /\ q[4] = GooseItem("goID", x)
  /\ \A k \in 1 .. 8 : /\ q[k].tag = "gocbRef" => k = 1
                       /\ q[k].tag = "goID" => k = 4

\* Amending leaves the items of the skeleton, with the names of the stream.
LEMMA GooseItems ==
  ASSUME NEW x \in Nat, NEW st \in Nat, NEW a, a = GoosePdu(x, x, x, st)
  PROVE  a = [lead |-> 97, items |-> a.items] /\ SentItems(a.items, x)
<1> DEFINE q == a.items
<1>1. q = << GooseItem("gocbRef", x), GooseItem("other", 0), GooseItem("datSet", x),
             GooseItem("goID", x), GooseItem("stNum", st), GooseItem("confRev", 1),
             GooseItem("numEntries", NumEntries), GooseItem("allData", NumEntries) >>
      /\ a.lead = 97
  BY DEF GoosePdu
<1> HIDE DEF q
<1>2. /\ Len(q) = 8 /\ DOMAIN q = 1 .. 8
      /\ q[1] = GooseItem("gocbRef", x) /\ q[2] = GooseItem("other", 0)
      /\ q[3] = GooseItem("datSet", x) /\ q[4] = GooseItem("goID", x)
      /\ q[5] = GooseItem("stNum", st) /\ q[6] = GooseItem("confRev", 1)
      /\ q[7] = GooseItem("numEntries", NumEntries) /\ q[8] = GooseItem("allData", NumEntries)
  BY <1>1
<1>3. NumEntries \in Nat
  BY FrameAssumption
<1>4. \A k \in 1 .. 8 : k \in {1, 2, 3, 4, 5, 6, 7, 8}
  OBVIOUS
<1>5. \A k \in 1 .. 8 : \E tag \in GooseTag, val \in Nat : q[k] = GooseItem(tag, val)
  BY <1>2, <1>3, <1>4 DEF GooseTag
<1>6. \A k \in 1 .. 8 : /\ q[k].tag = "gocbRef" => k = 1
                        /\ q[k].tag = "goID" => k = 4
  <2>1. /\ q[1].tag = "gocbRef" /\ q[2].tag = "other" /\ q[3].tag = "datSet" /\ q[4].tag = "goID"
        /\ q[5].tag = "stNum" /\ q[6].tag = "confRev" /\ q[7].tag = "numEntries"
        /\ q[8].tag = "allData"
    BY <1>2 DEF GooseItem
  <2> QED
    BY <1>4, <2>1
<1>7. a = [lead |-> 97, items |-> a.items]
  BY DEF GoosePdu
<1> QED
  BY <1>2, <1>5, <1>6, <1>7 DEF q, SentItems

\* One item of a GOOSE is altered, or its first byte.
OneItem(a, g) ==
  \E k \in 1 .. 8 : \E y :
    /\ g.lead = 97
    /\ g.items = [a.items EXCEPT ![k] = y]
    /\ y.tag \in {a.items[k].tag, "other", "stNum"}
    /\ y.val \in Nat

\* One field of an item.
LEMMA ItemAltered ==
  ASSUME NEW tag \in GooseTag, NEW val \in Nat, NEW item, item = GooseItem(tag, val),
         NEW y \in Items(item)
  PROVE  y.tag \in {tag, "other", "stNum"} /\ y.val \in Nat
<1>1. item.tag = tag /\ item.val = val
  BY DEF GooseItem
<1>2. PICK t : \/ y = [item EXCEPT !.tag = t] /\ t \in {"other", "stNum"}
               \/ y = [item EXCEPT !.len = t]
               \/ y = [item EXCEPT !.val = val + 1]
               \/ y = [item EXCEPT !.depth = t]
  BY <1>1 DEF Items
<1>3. \/ y.tag = t /\ y.val = val /\ t \in {"other", "stNum"}
      \/ y.tag = tag /\ y.val \in {val, val + 1}
  BY <1>2 DEF GooseItem
<1> QED
  BY <1>3

\* What the wire may make of a GOOSE.
LEMMA GooseAltered ==
  ASSUME NEW x \in Nat, NEW st \in Nat, NEW a, a = GoosePdu(x, x, x, st), NEW g \in Apdus(a)
  PROVE  g.lead = 96 \/ OneItem(a, g)
<1> DEFINE q == a.items
<1>1. a = [lead |-> 97, items |-> q] /\ SentItems(q, x)
  BY GooseItems
<1> HIDE DEF q
<1>2. a.lead = 97 /\ a.items = q
  BY <1>1
<1>3. \/ g = [a EXCEPT !.lead = 96]
      \/ \E k \in DOMAIN q : \E y \in Items(q[k]) : g = [a EXCEPT !.items = [q EXCEPT ![k] = y]]
  BY <1>2 DEF Apdus, GooseApdus
<1>4. CASE g = [a EXCEPT !.lead = 96]
  <2>1. g.lead = 96
    BY <1>1, <1>4
  <2> QED
    BY <2>1
<1>5. CASE \E k \in DOMAIN q : \E y \in Items(q[k]) : g = [a EXCEPT !.items = [q EXCEPT ![k] = y]]
  <2>1. PICK k \in DOMAIN q : \E y \in Items(q[k]) : g = [a EXCEPT !.items = [q EXCEPT ![k] = y]]
    BY <1>5
  <2>2. PICK y \in Items(q[k]) : g = [a EXCEPT !.items = [q EXCEPT ![k] = y]]
    BY <2>1
  <2>3. k \in 1 .. 8
    BY <1>1 DEF SentItems
  <2>4. PICK tag \in GooseTag, val \in Nat : q[k] = GooseItem(tag, val)
    BY <1>1, <2>3 DEF SentItems
  <2>5. y.tag \in {tag, "other", "stNum"} /\ y.val \in Nat /\ q[k].tag = tag
    BY <2>4, ItemAltered DEF GooseItem
  <2> DEFINE new == [q EXCEPT ![k] = y]
  <2> HIDE DEF new
  <2>6. g.lead = 97 /\ g.items = new
    BY <1>1, <2>2 DEF new
  <2> QED
    BY <1>2, <2>3, <2>5, <2>6 DEF OneItem, new
<1> QED
  BY <1>3, <1>4, <1>5

\* Two of the three names of a GOOSE that parses are those it was sent with,
\* or one at least of the first and the last.
LEMMA GooseNearParsed ==
  ASSUME NEW x \in Nat, NEW st \in Nat, NEW a, a = GoosePdu(x, x, x, st),
         NEW g, OneItem(a, g), parse_goose_apdu(g).err = "OK"
  PROVE  /\ parse_goose_apdu(g).seq \in Nat
         /\ \E u, v, z : parse_goose_apdu(g).names = <<u, v, z>> /\ (u = x \/ z = x)
<1> DEFINE q == a.items
           w == GooseWalk(g.items)
           t == g.items
<1>0. SentItems(q, x)
  BY GooseItems
<1>1. /\ DOMAIN q = 1 .. 8 /\ Len(q) = 8
      /\ \A k \in 1 .. 8 : \E tag \in GooseTag, val \in Nat : q[k] = GooseItem(tag, val)
      /\ q[1] = GooseItem("gocbRef", x)
      /\ q[4] = GooseItem("goID", x)
      /\ \A k \in 1 .. 8 : /\ q[k].tag = "gocbRef" => k = 1
                           /\ q[k].tag = "goID" => k = 4
  BY <1>0 DEF SentItems
<1>2. PICK k, y :
         /\ k \in 1 .. 8 /\ g.lead = 97 /\ t = [q EXCEPT ![k] = y]
         /\ y.tag \in {q[k].tag, "other", "stNum"} /\ y.val \in Nat
  BY DEF OneItem
<1> HIDE DEF q, t, w
<1>3. DOMAIN t = 1 .. 8 /\ t[k] = y /\ \A j \in 1 .. 8 : j # k => t[j] = q[j]
  BY <1>1, <1>2
<1>4. Len(t) = 8
  BY <1>1, <1>2
<1>5. \A j \in 1 .. 8 : q[j].tag \in GooseTag /\ q[j].val \in Nat
  BY <1>1 DEF GooseItem
<1>6. "other" \in GooseTag /\ "stNum" \in GooseTag /\ "gocbRef" \in GooseTag /\ "goID" \in GooseTag
  BY DEF GooseTag
<1>7. ItemsOK(t, 8)
  BY <1>2, <1>3, <1>5, <1>6 DEF ItemsOK
<1>8. Walked(t, 8, w)
  BY <1>4, <1>7, GooseWalked DEF w, t
<1>9. PICK err, val, seen :
        /\ w = Acc(err, val, seen)
        /\ val \in [GooseTag -> Nat]
        /\ err = "OK" =>
             /\ seen = {t[j].tag : j \in 1 .. 8}
             /\ \A n \in seen : \E j \in 1 .. 8 : t[j].tag = n /\ val[n] = t[j].val
  BY <1>8 DEF Walked
<1>10. w.err = err /\ w.val = val /\ w.seen = seen
  BY <1>9 DEF Acc
<1> DEFINE res == parse_goose_apdu(g)
<1>11. /\ res.err = (err ?? Require(val["allData"] = val["numEntries"], "-102"))
                        ?? Require({"gocbRef", "datSet", "goID"} \subseteq seen, "-100")
       /\ res.names = <<val["gocbRef"], val["datSet"], val["goID"]>>
       /\ res.seq = val["stNum"]
  BY <1>2, <1>10 DEF parse_goose_apdu, w
<1> HIDE DEF res
<1>12. err = "OK" /\ "gocbRef" \in seen /\ "goID" \in seen
  <2>1. res.err = "OK"
    BY DEF res
  <2> QED
    BY <1>11, <2>1 DEF ??, Require
<1>13. k # 1 => val["gocbRef"] = x
  <2> SUFFICES ASSUME k # 1 PROVE val["gocbRef"] = x
    OBVIOUS
  <2>1. PICK j \in 1 .. 8 : t[j].tag = "gocbRef" /\ val["gocbRef"] = t[j].val
    BY <1>9, <1>12
  <2>2. j = 1
    BY <1>1, <1>2, <1>3, <2>1
  <2> QED
    BY <1>1, <1>3, <2>1, <2>2 DEF GooseItem
<1>14. k # 4 => val["goID"] = x
  <2> SUFFICES ASSUME k # 4 PROVE val["goID"] = x
    OBVIOUS
  <2>1. PICK j \in 1 .. 8 : t[j].tag = "goID" /\ val["goID"] = t[j].val
    BY <1>9, <1>12
  <2>2. j = 4
    BY <1>1, <1>2, <1>3, <2>1
  <2> QED
    BY <1>1, <1>3, <2>1, <2>2 DEF GooseItem
<1>15. val["stNum"] \in Nat
  BY <1>6, <1>9
<1>16. val["gocbRef"] = x \/ val["goID"] = x
  BY <1>13, <1>14
<1> QED
  BY <1>11, <1>15, <1>16 DEF res

\* A GOOSE that arrives as it was sent.
LEMMA GooseSentParsed ==
  ASSUME NEW x \in Nat, NEW st \in Nat, NEW a, a = GoosePdu(x, x, x, st)
  PROVE  parse_goose_apdu(a) =
           [err |-> "OK", names |-> <<x, x, x>>, crev |-> 1, num |-> NumEntries, seq |-> st]
<1> DEFINE q == a.items
           w == GooseWalk(a.items)
<1>1. a.lead = 97 /\
      q = << GooseItem("gocbRef", x), GooseItem("other", 0), GooseItem("datSet", x),
             GooseItem("goID", x), GooseItem("stNum", st), GooseItem("confRev", 1),
             GooseItem("numEntries", NumEntries), GooseItem("allData", NumEntries) >>
  BY DEF GoosePdu
<1> HIDE DEF q, w
<1>2. /\ Len(q) = 8 /\ DOMAIN q = 1 .. 8
      /\ q[1] = GooseItem("gocbRef", x) /\ q[2] = GooseItem("other", 0)
      /\ q[3] = GooseItem("datSet", x) /\ q[4] = GooseItem("goID", x)
      /\ q[5] = GooseItem("stNum", st) /\ q[6] = GooseItem("confRev", 1)
      /\ q[7] = GooseItem("numEntries", NumEntries) /\ q[8] = GooseItem("allData", NumEntries)
  BY <1>1
<1>3. NumEntries \in Nat
  BY FrameAssumption
<1>4. \A k \in 1 .. 8 : k \in {1, 2, 3, 4, 5, 6, 7, 8}
  OBVIOUS
<1>5. /\ q[1].tag = "gocbRef" /\ q[2].tag = "other" /\ q[3].tag = "datSet" /\ q[4].tag = "goID"
      /\ q[5].tag = "stNum" /\ q[6].tag = "confRev" /\ q[7].tag = "numEntries"
      /\ q[8].tag = "allData"
      /\ q[1].val = x /\ q[2].val = 0 /\ q[3].val = x /\ q[4].val = x /\ q[5].val = st
      /\ q[6].val = 1 /\ q[7].val = NumEntries /\ q[8].val = NumEntries /\ q[8].depth = 0
  BY <1>2 DEF GooseItem
<1>6. ItemsOK(q, 8)
  BY <1>3, <1>4, <1>5 DEF ItemsOK, GooseTag
<1>7. \A k \in 1 .. 8 : Fits(q[k])
  <2>1. \A k \in 1 .. 8 : q[k].len = "fits"
    BY <1>2, <1>4 DEF GooseItem
  <2>2. parse_alldata(q[8]) = NumEntries
    BY <1>5 DEF parse_alldata, MAX_DATA_DEPTH
  <2>3. \A k \in 1 .. 8 : q[k].tag = "allData" => k = 8
    BY <1>4, <1>5
  <2>4. ~(NumEntries < 0)
    BY <1>3
  <2> QED
    BY <2>1, <2>2, <2>3, <2>4 DEF Fits
<1>8. Walked(q, 8, w)
  BY <1>2, <1>6, GooseWalked DEF w, q
<1>9. PICK err, val, seen :
        /\ w = Acc(err, val, seen)
        /\ err = "OK" =>
             /\ seen = {q[j].tag : j \in 1 .. 8}
             /\ \A n \in seen : \E j \in 1 .. 8 : q[j].tag = n /\ val[n] = q[j].val
        /\ (\A k \in 1 .. 8 : Fits(q[k])) => err = "OK"
  BY <1>8 DEF Walked
<1>10. err = "OK" /\ w.err = err /\ w.val = val /\ w.seen = seen
  BY <1>7, <1>9 DEF Acc
<1>11. \A n \in {"gocbRef", "datSet", "goID", "stNum", "confRev", "numEntries", "allData"} : n \in seen
  BY <1>4, <1>5, <1>9, <1>10
<1>12. ASSUME NEW j \in 1 .. 8, q[j].tag \in seen, \A k \in 1 .. 8 : q[k].tag = q[j].tag => k = j
       PROVE  val[q[j].tag] = q[j].val
  BY <1>9, <1>10, <1>12
<1>13. /\ val["gocbRef"] = x /\ val["datSet"] = x /\ val["goID"] = x /\ val["stNum"] = st
       /\ val["confRev"] = 1 /\ val["numEntries"] = NumEntries /\ val["allData"] = NumEntries
  BY <1>4, <1>5, <1>11, <1>12
<1>14. {"gocbRef", "datSet", "goID"} \subseteq seen
  BY <1>11
<1>15. ((err ?? Require(val["allData"] = val["numEntries"], "-102"))
         ?? Require({"gocbRef", "datSet", "goID"} \subseteq seen, "-100")) = "OK"
  BY <1>10, <1>13, <1>14 DEF ??, Require
<1>16. parse_goose_apdu(a) =
         [err |-> (err ?? Require(val["allData"] = val["numEntries"], "-102"))
                    ?? Require({"gocbRef", "datSet", "goID"} \subseteq seen, "-100"),
          names |-> <<val["gocbRef"], val["datSet"], val["goID"]>>,
          crev |-> val["confRev"], num |-> val["numEntries"], seq |-> val["stNum"]]
  BY <1>1, <1>10 DEF parse_goose_apdu, w
<1> QED
  BY <1>13, <1>15, <1>16

\* The ASDUs of an SV frame that was sent.
SentAsdus(q, num, x, cur) ==
  /\ Len(q) = num /\ DOMAIN q = 1 .. num
  /\ \A k \in 1 .. num : \E c \in Nat : q[k] = Asdu(x, c)
  /\ q[1] = Asdu(x, cur)

\* Amending gives every ASDU the name of the stream, the first its number.
LEMMA SvAsdus ==
  ASSUME NEW num \in Nat \ {0}, NEW freq \in Nat \ {0}, NEW s, NEW n \in Nat, NEW cur, cur = n % freq,
         NEW a, a = SvFrom(num, s, cur, freq)
  PROVE  /\ a = [lead |-> 96, num |-> num, asdu |-> a.asdu]
         /\ SentAsdus(a.asdu, num, SvSID(s), cur)
<1> DEFINE q == a.asdu
           x == SvSID(s)
           ids == [k \in 1 .. num |-> x]
           cs == [k \in 1 .. num |-> SmpCntAfter(cur, freq, k - 1)]
<1>1. a = [lead |-> 96, num |-> num, asdu |-> [k \in 1 .. num |-> Asdu(ids[k], cs[k])]]
  BY DEF SvFrom, SvPdu
<1>2. ASSUME NEW k \in 1 .. num PROVE cs[k] = (n + (k - 1)) % freq /\ cs[k] \in Nat /\ ids[k] = x
  <2>1. k - 1 \in Nat /\ n + (k - 1) \in Nat
    OBVIOUS
  <2>2. SmpCntAfter(n % freq, freq, k - 1) = (n + (k - 1)) % freq
    BY <2>1, SmpCntAfterIs
  <2>3. (n + (k - 1)) % freq \in Nat
    BY <2>1, Numbers!DivMod
  <2> QED
    BY <2>2, <2>3
<1> HIDE DEF x, ids, cs
<1>3. q = [k \in 1 .. num |-> Asdu(ids[k], cs[k])] /\ a = [lead |-> 96, num |-> num, asdu |-> a.asdu]
  BY <1>1
<1> HIDE DEF q
<1>4. Len(q) = num /\ DOMAIN q = 1 .. num
  BY <1>3
<1>5. \A k \in 1 .. num : \E c \in Nat : q[k] = Asdu(x, c)
  BY <1>2, <1>3
<1>6. q[1] = Asdu(x, cur)
  <2>1. 1 \in 1 .. num /\ n + (1 - 1) = n
    OBVIOUS
  <2> QED
    BY <1>2, <1>3, <2>1
<1> QED
  BY <1>3, <1>4, <1>5, <1>6 DEF SentAsdus, q, x

\* What the wire may make of an SV APDU that still has the SV tag.
SvNear(g, x) == g.lead = 96 /\ g.asdu[1].svID \in {x, x + 1} /\ g.asdu[1].smpCnt \in Nat

\* One alteration of an SV APDU leaves its first ASDU near, or another tag.
LEMMA SvAltered ==
  ASSUME NEW num \in Nat \ {0}, NEW x \in Nat, NEW cur, NEW a, NEW q,
         a = [lead |-> 96, num |-> num, asdu |-> q], SentAsdus(q, num, x, cur), NEW g \in Apdus(a)
  PROVE  g.lead = 97 \/ SvNear(g, x)
<1>1. a.lead = 96 /\ a.asdu = q /\ 96 # 97
  OBVIOUS
<1>2. \/ g = [a EXCEPT !.lead = 97]
      \/ g = [a EXCEPT !.num = a.num + 1]
      \/ \E k \in DOMAIN q : \E y \in Asdus(q[k]) : g = [a EXCEPT !.asdu = [q EXCEPT ![k] = y]]
  BY <1>1 DEF Apdus, SvApdus
<1>3. 1 \in 1 .. num /\ DOMAIN q = 1 .. num /\ \A k \in 1 .. num : \E c \in Nat : q[k] = Asdu(x, c)
  BY DEF SentAsdus
<1>4. ASSUME NEW k \in 1 .. num PROVE q[k].svID = x /\ q[k].smpCnt \in Nat
  BY <1>3 DEF Asdu
<1>5. CASE g = [a EXCEPT !.lead = 97]
  <2>1. g.lead = 97
    BY <1>5
  <2> QED
    BY <2>1
<1>6. CASE g = [a EXCEPT !.num = a.num + 1]
  <2>1. g.lead = 96 /\ g.asdu = q
    BY <1>6
  <2> QED
    BY <1>3, <1>4, <2>1 DEF SvNear
<1>7. CASE \E k \in DOMAIN q : \E y \in Asdus(q[k]) : g = [a EXCEPT !.asdu = [q EXCEPT ![k] = y]]
  <2>1. PICK k \in DOMAIN q : \E y \in Asdus(q[k]) : g = [a EXCEPT !.asdu = [q EXCEPT ![k] = y]]
    BY <1>7
  <2>2. PICK y \in Asdus(q[k]) : g = [a EXCEPT !.asdu = [q EXCEPT ![k] = y]]
    BY <2>1
  <2>3. PICK c \in Nat : q[k] = Asdu(x, c)
    BY <1>3
  <2>4. y.svID \in {x, x + 1} /\ y.smpCnt \in Nat
    <3> DEFINE d == q[k]
    <3> HIDE DEF d
    <3>1. d = Asdu(x, c) /\ y \in Asdus(d)
      BY <2>3 DEF d
    <3>2. y \in {[d EXCEPT !.svID = d.svID + 1], [d EXCEPT !.smpCnt = d.smpCnt + 1],
                 [d EXCEPT !.confRev = d.confRev + 1], [d EXCEPT !.quality = "bad"]}
      BY <3>1 DEF Asdus
    <3>3. d.svID = x /\ d.smpCnt = c
      BY <3>1 DEF Asdu
    <3> QED
      BY <3>1, <3>2, <3>3 DEF Asdu
  <2> DEFINE new == [q EXCEPT ![k] = y]
  <2>5. new[1] = IF k = 1 THEN y ELSE q[1]
    BY <1>3
  <2> HIDE DEF new
  <2>6. g.lead = 96 /\ g.asdu = new
    BY <2>2 DEF new
  <2> QED
    BY <1>3, <1>4, <2>4, <2>5, <2>6 DEF SvNear
<1> QED
  BY <1>2, <1>5, <1>6, <1>7

\* An SV that parses names the stream or the next one.
LEMMA SvNearParsed ==
  ASSUME NEW x, NEW g, SvNear(g, x)
  PROVE  /\ parse_sv_apdu(g).seq \in Nat
         /\ \E u \in {x, x + 1} : parse_sv_apdu(g).names = <<u>>
<1> DEFINE first0 == g.asdu[1]
           res == parse_sv_apdu(g)
<1>1. g.lead = 96 /\ first0.svID \in {x, x + 1} /\ first0.smpCnt \in Nat
  BY DEF SvNear
<1>2. res.names = <<first0.svID>> /\ res.seq = first0.smpCnt
  BY <1>1 DEF parse_sv_apdu
<1> QED
  BY <1>1, <1>2

\* An SV frame that arrives as it was sent.
LEMMA SvSentParsed ==
  ASSUME NEW num \in Nat \ {0}, NEW x, NEW cur, NEW a, NEW q,
         a = [lead |-> 96, num |-> num, asdu |-> q], SentAsdus(q, num, x, cur)
  PROVE  parse_sv_apdu(a) = [err |-> "OK", names |-> <<x>>, crev |-> 1, num |-> num, seq |-> cur]
<1>1. a.lead = 96 /\ a.asdu = q /\ a.num = num
  OBVIOUS
<1>2. /\ Len(q) = num /\ DOMAIN q = 1 .. num /\ 1 \in 1 .. num
      /\ \A k \in 1 .. num : \E c \in Nat : q[k] = Asdu(x, c)
      /\ q[1] = Asdu(x, cur)
  BY DEF SentAsdus
<1>3. \A k \in 1 .. num : q[k].svID = x /\ q[k].confRev = 1 /\ q[k].quality = "good"
  BY <1>2 DEF Asdu
<1>4. q[1].svID = x /\ q[1].confRev = 1 /\ q[1].smpCnt = cur
  BY <1>2 DEF Asdu
<1>5. (Require(\A k \in DOMAIN q : q[k].quality = "good", "QUALITY")
       ?? Require(\A k \in DOMAIN q : q[k].svID = q[1].svID /\ q[k].confRev = q[1].confRev, "-6"))
       ?? Require(Len(q) = num, "-7") = "OK"
  BY <1>2, <1>3, <1>4 DEF Require, ??
<1>6. parse_sv_apdu(a) =
        [err |-> (Require(\A k \in DOMAIN q : q[k].quality = "good", "QUALITY")
                  ?? Require(\A k \in DOMAIN q : q[k].svID = q[1].svID /\ q[k].confRev = q[1].confRev, "-6"))
                  ?? Require(Len(q) = num, "-7"),
         names |-> <<q[1].svID>>, crev |-> q[1].confRev, num |-> num, seq |-> q[1].smpCnt]
  BY <1>1 DEF parse_sv_apdu
<1> QED
  BY <1>4, <1>5, <1>6

\* The number of a frame is one that its IED may have.
NumOK(kind, i) ==
  i.num \in Nat /\ (~IsGooseKind(kind) => \E n \in Nat : i.num = n % SmpFreq[AsduNum(kind)])

\* The names the processor expects of a stream, and those its frames carry.
NamesOf(kind, s) == IF IsGooseKind(kind) THEN <<IdOf(s), IdOf(s), IdOf(s)>> ELSE <<IdOf(s)>>
SID(kind, s) == IF IsGooseKind(kind) THEN GooseSID(s) ELSE SvSID(s)
SentNames(kind, s) ==
  IF IsGooseKind(kind) THEN <<GooseSID(s), GooseSID(s), GooseSID(s)>> ELSE <<SvSID(s)>>
NumOf(kind) == IF IsGooseKind(kind) THEN NumEntries ELSE AsduNum(kind)

\* What the walk gives of the APDU as it was sent.
SentResult(kind, s, i) ==
  [err |-> "OK", names |-> SentNames(kind, s), crev |-> 1, num |-> NumOf(kind), seq |-> i.num]

\* The names of a result are those of a stream, but for one altered field.
NamesNear(kind, s, appid, names) ==
  IF IsGooseKind(kind)
    THEN \E u, v, z : names = <<u, v, z>> /\ (u = GooseSID(s) \/ z = GooseSID(s))
    ELSE \E u : /\ names = <<u>>
                /\ \/ u = SvSID(s) /\ appid \in {AppIdOf(s), AppIdOf(s) + 1}
                   \/ u = SvSID(s) + 1 /\ appid = AppIdOf(s)

\* The numbers of the streams have at most five digits: for GOOSE all of them are
\* sent, for SV the first four.
LEMMA SidIs ==
  ASSUME NEW s \in Stream
  PROVE  /\ s \in Nat /\ s < 65536 /\ IdOf(s) = s + 1
         /\ GooseSID(s) = IdOf(s)
         /\ SvSID(s) = (IF s + 1 < 10000 THEN s + 1 ELSE (s + 1) \div 10)
         /\ SvSID(s) \in Nat /\ GooseSID(s) \in Nat
<1>1. s \in Nat /\ s < 65536
  BY FrameAssumption
<1>2. GooseSID(s) = s + 1
  BY <1>1 DEF GooseSID, LeadingDigits, IdOf
<1>3. SvSID(s) = (IF s + 1 < 10000 THEN s + 1 ELSE (s + 1) \div 10)
  BY DEF SvSID, LeadingDigits, IdOf
<1>4. (s + 1) \div 10 \in Nat
  BY <1>1, SMT
<1> QED
  BY <1>1, <1>2, <1>3, <1>4 DEF IdOf

\* The two forms of an APDU that was sent.
LEMMA FreshIs ==
  ASSUME NEW kind, NEW s, NEW i
  PROVE  FreshApdu(kind, s, i) =
           IF IsGooseKind(kind) THEN FreshGoose(s, i) ELSE FreshSv(AsduNum(kind), s, i)
BY ApduAmended, SkeletonLike DEF FreshApdu

\* The ASDUs of a frame that was sent, by kind.
LEMMA FreshSvAsdus ==
  ASSUME NEW kind, ~IsGooseKind(kind), NEW s, NEW i, NumOK(kind, i),
         NEW a, a = FreshApdu(kind, s, i)
  PROVE  /\ a = [lead |-> 96, num |-> AsduNum(kind), asdu |-> a.asdu]
         /\ SentAsdus(a.asdu, AsduNum(kind), SvSID(s), i.num)
<1> DEFINE num == AsduNum(kind)
           freq == SmpFreq[AsduNum(kind)]
           cur == i.num
<1>1. num \in Nat \ {0} /\ freq \in Nat \ {0}
  BY FrequencyType
<1>2. PICK n \in Nat : cur = n % freq
  BY DEF NumOK
<1>3. a = SvFrom(num, s, cur, freq)
  BY FreshIs DEF FreshSv
<1> HIDE DEF num, freq, cur
<1>4. /\ a = [lead |-> 96, num |-> num, asdu |-> a.asdu]
      /\ SentAsdus(a.asdu, num, SvSID(s), cur)
  BY <1>1, <1>2, <1>3, SvAsdus
<1> QED
  BY <1>4 DEF num, cur

\* The walk of an APDU that arrives as it was sent.
LEMMA SentParsed ==
  ASSUME NEW kind, NEW s \in Stream, NEW i, NumOK(kind, i)
  PROVE  ParseApdu(PayloadOf(kind), FreshApdu(kind, s, i)) = SentResult(kind, s, i)
<1> DEFINE a == FreshApdu(kind, s, i)
           x == SID(kind, s)
           st == i.num
<1>1. x \in Nat /\ st \in Nat
  BY SidIs DEF SID, NumOK
<1>2. CASE IsGooseKind(kind)
  <2>1. a = GoosePdu(x, x, x, st)
    BY <1>2, FreshIs DEF FreshGoose, SID
  <2> HIDE DEF a, x, st
  <2>2. parse_goose_apdu(a) =
          [err |-> "OK", names |-> <<x, x, x>>, crev |-> 1, num |-> NumEntries, seq |-> st]
    BY <1>1, <2>1, GooseSentParsed
  <2> QED
    BY <1>2, <2>2 DEF ParseApdu, PayloadOf, SentResult, SentNames, SID, NumOf, a, x, st
<1>3. CASE ~IsGooseKind(kind)
  <2> DEFINE num == AsduNum(kind)
             q == a.asdu
  <2>1. a = [lead |-> 96, num |-> num, asdu |-> q] /\ SentAsdus(q, num, x, st)
    BY <1>3, FreshSvAsdus DEF SID
  <2>2. num \in Nat \ {0}
    BY AsduNumType
  <2> HIDE DEF a, x, st, num, q
  <2>3. parse_sv_apdu(a) = [err |-> "OK", names |-> <<x>>, crev |-> 1, num |-> num, seq |-> st]
    BY <2>1, <2>2, SvSentParsed
  <2> QED
    BY <1>3, <2>3 DEF ParseApdu, PayloadOf, SentResult, SentNames, SID, NumOf, a, x, st, num
<1> QED
  BY <1>2, <1>3

\* The other walk rejects it.
LEMMA OtherWalk ==
  ASSUME NEW kind, NEW s, NEW i, NumOK(kind, i), NEW ptype \in PayloadType, ptype # PayloadOf(kind)
  PROVE  ParseApdu(ptype, FreshApdu(kind, s, i)).err # "OK"
<1> DEFINE a == FreshApdu(kind, s, i)
<1>1. CASE IsGooseKind(kind)
  <2>1. a = FreshGoose(s, i)
    BY <1>1, FreshIs
  <2>2. a.lead = 97
    BY <2>1 DEF FreshGoose, GoosePdu
  <2> HIDE DEF a
  <2>3. parse_sv_apdu(a) = [err |-> "-3"] /\ ptype # "GOOSE"
    BY <1>1, <2>2 DEF parse_sv_apdu, PayloadOf
  <2> QED
    BY <2>3 DEF ParseApdu, a
<1>2. CASE ~IsGooseKind(kind)
  <2>1. a = [lead |-> 96, num |-> AsduNum(kind), asdu |-> a.asdu]
    BY <1>2, FreshSvAsdus
  <2> HIDE DEF a
  <2>2. a.lead = 96
    BY <2>1
  <2>3. parse_goose_apdu(a) = [err |-> "-3"] /\ ptype = "GOOSE"
    BY <1>2, <2>2 DEF parse_goose_apdu, PayloadOf, PayloadType
  <2> QED
    BY <2>3 DEF ParseApdu, a
<1> QED
  BY <1>1, <1>2

\* What the walk makes of an APDU with at most one field altered.
LEMMA NearParsed ==
  ASSUME NEW kind, NEW s \in Stream, NEW i, NumOK(kind, i), NEW appid, NEW a,
         NearApdu(kind, s, i, appid, a), ParseApdu(PayloadOf(kind), a).err = "OK"
  PROVE  /\ ParseApdu(PayloadOf(kind), a).seq \in Nat
         /\ NamesNear(kind, s, appid, ParseApdu(PayloadOf(kind), a).names)
<1> DEFINE fresh == FreshApdu(kind, s, i)
           x == SID(kind, s)
           st == i.num
           res == ParseApdu(PayloadOf(kind), a)
<1>1. x \in Nat /\ st \in Nat
  BY SidIs DEF SID, NumOK
<1>2. CASE a = fresh
  <2>1. res = SentResult(kind, s, i)
    BY <1>2, SentParsed
  <2>2. res.seq = st /\ res.names = SentNames(kind, s)
    BY <2>1 DEF SentResult
  <2> HIDE DEF res, st
  <2>3. NamesNear(kind, s, appid, res.names)
    <3>1. appid \in {AppIdOf(s), AppIdOf(s) + 1}
      BY DEF NearApdu
    <3> QED
      BY <2>2, <3>1 DEF NamesNear, SentNames
  <2> QED
    BY <1>1, <2>2, <2>3 DEF res
<1>3. CASE IsGooseKind(kind) /\ a # fresh
  <2>1. fresh = GoosePdu(x, x, x, st)
    BY <1>3, FreshIs DEF FreshGoose, SID
  <2>2. a \in Apdus(fresh) /\ res = parse_goose_apdu(a)
    BY <1>3 DEF NearApdu, ParseApdu, PayloadOf
  <2> HIDE DEF fresh, x, st, res
  <2>3. a.lead = 96 \/ OneItem(fresh, a)
    BY <1>1, <2>1, <2>2, GooseAltered
  <2>4. res.err = "OK"
    BY DEF res
  <2>5. a.lead # 96
    BY <2>2, <2>4 DEF parse_goose_apdu
  <2>6. /\ res.seq \in Nat
        /\ \E u, v, z : res.names = <<u, v, z>> /\ (u = x \/ z = x)
    BY <1>1, <2>1, <2>2, <2>3, <2>4, <2>5, GooseNearParsed
  <2>7. NamesNear(kind, s, appid, res.names)
    BY <1>3, <2>6 DEF NamesNear, SID, x
  <2> QED
    BY <2>6, <2>7 DEF res
<1>4. CASE ~IsGooseKind(kind) /\ a # fresh
  <2> DEFINE num == AsduNum(kind)
             q == fresh.asdu
  <2>1. fresh = [lead |-> 96, num |-> num, asdu |-> q] /\ SentAsdus(q, num, x, st)
    BY <1>4, FreshSvAsdus DEF SID
  <2>2. num \in Nat \ {0}
    BY AsduNumType
  <2>3. a \in Apdus(fresh) /\ appid = AppIdOf(s) /\ res = parse_sv_apdu(a)
    BY <1>4 DEF NearApdu, ParseApdu, PayloadOf
  <2> HIDE DEF fresh, x, st, res, num, q
  <2>4. a.lead = 97 \/ SvNear(a, x)
    BY <1>1, <2>1, <2>2, <2>3, SvAltered
  <2>5. res.err = "OK"
    BY DEF res
  <2>6. a.lead # 97
    <3> SUFFICES ASSUME a.lead = 97 PROVE FALSE
      OBVIOUS
    <3>1. a.lead # 96
      OBVIOUS
    <3>2. parse_sv_apdu(a) = [err |-> "-3"]
      BY <3>1 DEF parse_sv_apdu
    <3> QED
      BY <2>3, <2>5, <3>2
  <2>7. res.seq \in Nat /\ \E u \in {x, x + 1} : res.names = <<u>>
    BY <2>3, <2>4, <2>6, SvNearParsed
  <2>8. NamesNear(kind, s, appid, res.names)
    BY <1>4, <2>3, <2>7 DEF NamesNear, SID, x
  <2> QED
    BY <2>7, <2>8 DEF res
<1> QED
  BY <1>2, <1>3, <1>4

\* A stream is found by its names and APPID, among others.
LEMMA FoundFields ==
  ASSUME NEW kind, NEW p, NEW t \in Found(kind, p)
  PROVE  t \in Stream /\ NamesOf(kind, t) = p.names /\ AppIdOf(t) = p.appid
<1> DEFINE pass == PassportOf(kind, t)
<1>1. t \in Stream /\ \A x \in DOMAIN pass : pass[x] = p[x]
  BY DEF Found
<1>2. "names" \in DOMAIN pass /\ "appid" \in DOMAIN pass
  BY DEF PassportOf
<1>3. pass.names = NamesOf(kind, t) /\ pass.appid = AppIdOf(t)
  BY DEF PassportOf, NamesOf
<1> HIDE DEF pass
<1> QED
  BY <1>1, <1>2, <1>3

\* A stream's APPID: only the last of 65536 streams has the APPID 0.
LEMMA AppIdIs ==
  ASSUME NEW s \in Stream
  PROVE  AppIdOf(s) = IF s + 1 = 65536 THEN 0 ELSE s + 1
<1>1. s \in Nat /\ s < 65536
  BY SidIs
<1> QED
  BY <1>1, SMT DEF AppIdOf

\* A number that is cut is a smaller one.
LEMMA CutIsLess ==
  ASSUME NEW s \in Stream, s + 1 >= 10000
  PROVE  SvSID(s) \in Nat /\ SvSID(s) < 6554 /\ (s + 1 = 65536 => SvSID(s) > 1)
<1>1. s \in Nat /\ s < 65536 /\ SvSID(s) = (s + 1) \div 10
  BY SidIs
<1> DEFINE n == s + 1
           k == (s + 1) \div 10
<1>2. k \in Nat /\ 10 * k <= n /\ n < 10 * k + 10
  BY <1>1, SMT
<1> HIDE DEF k
<1>3. k < 6554 /\ (n = 65536 => k > 1)
  BY <1>1, <1>2
<1> QED
  BY <1>1, <1>2, <1>3 DEF k

\* Names and APPID of a frame with one field altered are those of its stream
\* or of none.
LEMMA FoundOnly ==
  ASSUME NEW kind, NEW s \in Stream, NEW p, NamesNear(kind, s, p.appid, p.names),
         NEW t \in Found(kind, p)
  PROVE  t = s
<1>1. t \in Stream /\ NamesOf(kind, t) = p.names /\ AppIdOf(t) = p.appid
  BY FoundFields
<1>2. /\ s \in Nat /\ t \in Nat /\ s < 65536 /\ t < 65536
      /\ IdOf(s) = s + 1 /\ IdOf(t) = t + 1 /\ GooseSID(s) = s + 1
  BY <1>1, SidIs
<1>3. CASE IsGooseKind(kind)
  <2>1. IdOf(t) = GooseSID(s)
    BY <1>1, <1>3 DEF NamesNear, NamesOf
  <2> QED
    BY <1>2, <2>1
<1>4. CASE ~IsGooseKind(kind)
  <2>1. \/ AppIdOf(t) = AppIdOf(s)
        \/ t + 1 = SvSID(s) /\ AppIdOf(t) = AppIdOf(s) + 1
    BY <1>1, <1>2, <1>4 DEF NamesNear, NamesOf
  <2>2. /\ AppIdOf(s) = (IF s + 1 = 65536 THEN 0 ELSE s + 1)
        /\ AppIdOf(t) = (IF t + 1 = 65536 THEN 0 ELSE t + 1)
    BY <1>1, AppIdIs
  <2>3. CASE AppIdOf(t) = AppIdOf(s)
    BY <1>2, <2>2, <2>3
  <2>4. CASE t + 1 = SvSID(s) /\ AppIdOf(t) = AppIdOf(s) + 1
    <3>1. s + 1 < 10000 => SvSID(s) = s + 1
      BY SidIs
    <3>2. s + 1 >= 10000 => SvSID(s) \in Nat /\ SvSID(s) < 6554 /\ (s + 1 = 65536 => SvSID(s) > 1)
      BY CutIsLess
    <3> QED
      BY <1>2, <2>2, <2>4, <3>1, <3>2
  <2> QED
    BY <2>1, <2>3, <2>4
<1> QED
  BY <1>3, <1>4

\* No stream is found for a frame of a stream whose name is cut.
LEMMA CutNotFound ==
  ASSUME NEW kind, NEW s \in Stream, NEW p, NamesNear(kind, s, p.appid, p.names),
         NameIsCut(kind, s)
  PROVE  Found(kind, p) = {}
<1> SUFFICES ASSUME NEW t \in Found(kind, p) PROVE FALSE
  OBVIOUS
<1>1. t = s /\ NamesOf(kind, s) = p.names
  BY FoundOnly, FoundFields
<1>2. s \in Nat /\ IdOf(s) = s + 1 /\ GooseSID(s) = s + 1
  BY SidIs
<1>3. ~IsGooseKind(kind) /\ SvSID(s) # s + 1
  BY <1>2 DEF NameIsCut
<1>4. s + 1 = SvSID(s) \/ s + 1 = SvSID(s) + 1
  BY <1>1, <1>2, <1>3 DEF NamesNear, NamesOf
<1>5. s + 1 >= 10000
  <2>1. s + 1 < 10000 => SvSID(s) = s + 1
    BY SidIs
  <2> QED
    BY <1>2, <1>3, <2>1
<1>6. SvSID(s) \in Nat /\ SvSID(s) < 6554
  BY <1>5, CutIsLess
<1> QED
  BY <1>2, <1>3, <1>4, <1>5, <1>6

-----------------------------------------------------------------------------
(* What the parser makes of a frame on the wire.                           *)

\* A parse state that is not an error holds what the walk found.
LEMMA ParseStateOK ==
  ASSUME NEW dmac, NEW appid, NEW dst, NEW spdu, NEW a, NEW p,
         p = ParseState(dmac, appid, dst, spdu, a), p.err = "OK"
  PROVE  /\ a.err = "OK" /\ p.dmac = dmac /\ p.appid = appid /\ p.dstIP = dst /\ p.spdu = spdu
         /\ p.names = a.names /\ p.crev = a.crev /\ p.num = a.num /\ p.seq = a.seq
<1>1. CASE a.err # "OK"
  <2>1. p = [err |-> a.err]
    BY <1>1 DEF ParseState
  <2> QED
    BY <1>1, <2>1
<1>2. CASE a.err = "OK"
  BY <1>2 DEF ParseState
<1> QED
  BY <1>1, <1>2

\* What a frame that unwrap_r_frame accepts has passed, among others.
LEMMA UnwrapOK ==
  ASSUME NEW f, NEW si, NEW ptype, NEW mode, NEW len, NEW region,
         unwrap_r_frame(f, si, ptype, mode, len, region) = "OK"
  PROVE  unseal(f, f.ip.len - 28, mode, len) /\ region.ptype = ptype
<1> DEFINE A == Require(f.size >= ETH_IP_UDP_SIZE + apdu_offset(0), "TOO_SHORT")
           B == Require(IpLenOk(f), "TOO_SHORT")
           C == SessionChecks(f.ses, f.ip.len - 28, len)
           D == Require(f.ses.si = si, "BAD_SI")
           u == unseal(f, f.ip.len - 28, mode, len)
           F == PayloadChecks(region)
           G == Require(region.ptype = ptype, "BAD_PAYLOAD_TYPE")
           H == Require(len = PAYLOAD_ELEM_SIZE + APDU_SIZE, "APDU_CUT")
<1>1. (A ?? B ?? C ?? D ?? Require(u, "AUTH") ?? F ?? G ?? H) = "OK"
  BY DEF unwrap_r_frame
<1> HIDE DEF A, B, C, D, u, F, G, H
<1>2. Require(u, "AUTH") = "OK" /\ G = "OK"
  BY <1>1 DEF ??
<1>3. u /\ region.ptype = ptype
  BY <1>2 DEF Require, G
<1> QED
  BY <1>3 DEF u

\* Bytes that mean nothing are no APDU.
LEMMA MeaninglessFails ==
  ASSUME NEW region \in Meaningless, NEW ptype
  PROVE  ParseApdu(ptype, region.apdu).err # "OK"
<1> DEFINE a == region.apdu
<1>1. a = [lead |-> 0]
  BY DEF Meaningless
<1>2. a.lead = 0
  BY <1>1
<1> HIDE DEF a
<1>3. a.lead # 97 /\ a.lead # 96
  BY <1>2
<1>4. ParseApdu(ptype, a) = [err |-> "-3"]
  BY <1>3 DEF ParseApdu, parse_goose_apdu, parse_sv_apdu
<1> QED
  BY <1>4 DEF a

\* Decryption takes the last vector off.
LEMMA DecryptedIs ==
  ASSUME NEW iv, NEW ptype, NEW appid, NEW apdu
  PROVE  Decrypted(RegionOf(<< iv >>, ptype, appid, apdu)) = RegionOf(<< >>, ptype, appid, apdu)
<1> DEFINE r == RegionOf(<< iv >>, ptype, appid, apdu)
<1>1. r.enc = << iv >> /\ Len(<< iv >>) = 1 /\ SubSeq(<< iv >>, 1, 0) = << >>
  BY DEF RegionOf
<1>2. [r EXCEPT !.enc = << >>] = RegionOf(<< >>, ptype, appid, apdu)
  BY DEF RegionOf
<1> HIDE DEF r
<1>3. 1 - 1 = 0
  OBVIOUS
<1> QED
  BY <1>1, <1>2, <1>3 DEF Decrypted, r

\* A region that is read as an APDU is the plain text of the one in the frame.
LEMMA RegionReadIs ==
  ASSUME NEW kind, NEW mode, NEW i, NEW ptype, NEW appid, NEW apdu, NEW f,
         f.region = RegionOf(SentEnc(mode, i), ptype, appid, apdu), NEW rx,
         NEW region \in RegionRead(f, rx), region \notin Meaningless
  PROVE  region = RegionOf(<< >>, ptype, appid, apdu)
<1> DEFINE enc == SentEnc(mode, i)
           iv == SentIV(mode, i)
           r == RegionOf(enc, ptype, appid, apdu)
           d == IF rx = "gcm" /\ f.region.enc # << >> THEN Decrypted(f.region) ELSE f.region
<1>1. region = d /\ d.enc = << >>
  BY DEF RegionRead
<1>2. enc = << >> \/ enc = << iv >>
  BY DEF SentEnc
<1>3. f.region = r /\ r.enc = enc
  BY DEF RegionOf
<1>4. << iv >> # << >>
  OBVIOUS
<1>5. Decrypted(RegionOf(<< iv >>, ptype, appid, apdu)) = RegionOf(<< >>, ptype, appid, apdu)
  BY DecryptedIs
<1> HIDE DEF enc, iv
<1>6. CASE enc = << >>
  <2>1. d = r
    BY <1>3, <1>6
  <2> QED
    BY <1>1, <1>6, <2>1
<1>7. CASE enc = << iv >>
  <2>1. d \in {Decrypted(r), r}
    BY <1>3
  <2>2. d # r
    BY <1>1, <1>3, <1>4, <1>7
  <2> QED
    BY <1>1, <1>5, <1>7, <2>1, <2>2
<1> QED
  BY <1>2, <1>6, <1>7
\* A routable frame, read: the fields and what is known of them.
PartsOf(kind, mode, s, i, f) ==
  /\ NearParts(kind, mode, s, i, f.eth, f.ses, f.region, f.trl)
  /\ "apdu" \notin DOMAIN f

\* An accepted frame was read as what it is.
ReadAs(kind, s, p) ==
  p.seq \in Nat /\ p.spdu \in SeqNum /\ NamesNear(kind, s, p.appid, p.names)

\* Fields of a routable frame with at most one of them altered.
LEMMA NearPartsOf ==
  ASSUME NEW kind, NEW mode, NEW s, NEW i, NEW f, NearR(kind, mode, s, i, f)
  PROVE  PartsOf(kind, mode, s, i, f)
<1>1. PICK eth, dmac, size, ip, udp, ses, region, trl :
        /\ f = FrameOf(eth, dmac, size, ip, udp, ses, region, trl)
        /\ NearParts(kind, mode, s, i, eth, ses, region, trl)
  BY DEF NearR
<1>2. f.eth = eth /\ f.ses = ses /\ f.region = region /\ f.trl = trl /\ "apdu" \notin DOMAIN f
  BY <1>1 DEF FrameOf
<1> QED
  BY <1>1, <1>2 DEF PartsOf

\* A routable frame that the stage of an L2 protocol gets has no APDU for it.
LEMMA NotL2 ==
  ASSUME NEW f, "apdu" \notin DOMAIN f, NEW ptype
  PROVE  parse_l2_packet(f, ptype).err # "OK"
<1>1. parse_l2_packet(f, ptype) \in {[err |-> "-1"], [err |-> "-3"]}
  BY DEF parse_l2_packet
<1> QED
  BY <1>1

\* The stages of a routable frame.
LEMMA AcceptedStage ==
  ASSUME NEW f, "apdu" \notin DOMAIN f, NEW rx, NEW ofl, NEW p \in Parse(f, rx, ofl), p.err = "OK"
  PROVE  \E si, ptype :
           /\ <<si, ptype>> \in {<<"R_GOOSE", "GOOSE">>, <<"R_SV", "SV">>}
           /\ get_proto_type(f) = si /\ f.ses.si = si /\ f.eth = "ipv4"
           /\ p \in ParseR(f, si, ptype, rx, ofl)
<1> DEFINE proto == get_proto_type(f)
<1>1. proto \in {"SV", "GOOSE"} \/ proto = "NON_BUS" \/ (proto \in SI /\ proto = f.ses.si /\ f.eth = "ipv4")
  BY DEF get_proto_type
<1>2. CASE proto \in {"SV", "GOOSE"}
  <2>1. p = parse_l2_packet(f, proto)
    BY <1>2 DEF Parse, PayloadType
  <2> HIDE DEF proto
  <2>2. p.err # "OK"
    BY <2>1, NotL2
  <2> QED
    BY <2>2
<1>3. CASE proto = "NON_BUS"
  <2>1. p = [err |-> "NON_BUS"]
    BY <1>3 DEF Parse, PayloadType
  <2> QED
    BY <2>1
<1>4. CASE proto = "R_GOOSE" /\ proto = f.ses.si /\ f.eth = "ipv4"
  BY <1>4 DEF Parse, PayloadType
<1>5. CASE proto = "R_SV" /\ proto = f.ses.si /\ f.eth = "ipv4"
  BY <1>5 DEF Parse, PayloadType
<1> QED
  BY <1>1, <1>2, <1>3, <1>4, <1>5 DEF SI

\* The result of a routable stage.
LEMMA AcceptedRead ==
  ASSUME NEW f, NEW si, NEW ptype, NEW rx, NEW ofl, NEW p \in ParseR(f, si, ptype, rx, ofl),
         p.err = "OK"
  PROVE  \E len, region :
           /\ region \in RegionRead(f, rx) \ Meaningless
           /\ unseal(f, f.ip.len - 28, rx, len) /\ region.ptype = ptype
           /\ p = ParseState(f.dmac, region.appid, f.ip.dst, f.ses.spduNumber,
                             ParseApdu(ptype, region.apdu))
<1>1. validate_r_envelope(f, ofl) = "OK"
  <2> SUFFICES ASSUME validate_r_envelope(f, ofl) # "OK" PROVE FALSE
    OBVIOUS
  <2>1. p = [err |-> "ENVELOPE"]
    BY DEF ParseR
  <2> QED
    BY <2>1
<1>2. PICK len, region : /\ region \in RegionRead(f, rx)
                         /\ p = parse_r_packet(f, si, ptype, rx, len, region)
  BY <1>1 DEF ParseR
<1> DEFINE err == unwrap_r_frame(f, si, ptype, rx, len, region)
           a == ParseApdu(ptype, region.apdu)
           q == ParseState(f.dmac, region.appid, f.ip.dst, f.ses.spduNumber, a)
<1> HIDE DEF err, a, q
<1>3. p = IF err # "OK" THEN [err |-> err] ELSE q
  BY <1>2 DEF parse_r_packet, err, q, a
<1>4. err = "OK" /\ p = q
  BY <1>3
<1>5. unseal(f, f.ip.len - 28, rx, len) /\ region.ptype = ptype
  BY <1>4, UnwrapOK DEF err
<1>6. a.err = "OK"
  BY <1>4, ParseStateOK DEF q
<1>7. region \notin Meaningless
  BY <1>6, MeaninglessFails DEF a
<1> QED
  BY <1>2, <1>4, <1>5, <1>7 DEF q, a
\* The region of a routable frame, and whether it is read as what it is.
LEMMA NearRegionIs ==
  ASSUME NEW kind, NEW mode, NEW s, NEW i, NEW eth, NEW ses, NEW region, NEW trl,
         NearParts(kind, mode, s, i, eth, ses, region, trl), i.spdu \in SeqNum
  PROVE  /\ ses.spduNumber \in SeqNum
         /\ \E ptype, appid, apdu :
              /\ region = RegionOf(SentEnc(mode, i), ptype, appid, apdu)
              /\ NearApdu(kind, s, i, appid, apdu)
              /\ ses.si = SessionOf(kind) \/ ptype = PayloadOf(kind)
<1>1. /\ SentSes(kind, mode, i).spduNumber = i.spdu
      /\ SentSes(kind, mode, i).si = SessionOf(kind)
  BY DEF SentSes, SesHeader
<1>2. /\ SentRegion(kind, mode, s, i) =
           RegionOf(SentEnc(mode, i), PayloadOf(kind), AppIdOf(s), FreshApdu(kind, s, i))
      /\ NearApdu(kind, s, i, AppIdOf(s), FreshApdu(kind, s, i))
  BY SentRegionIs DEF NearApdu
<1>3. CASE region = SentRegion(kind, mode, s, i)
  BY <1>1, <1>2, <1>3 DEF NearParts
<1>4. CASE ses = SentSes(kind, mode, i) /\ NearRegion(kind, mode, s, i, region)
  BY <1>1, <1>4 DEF NearRegion
<1> QED
  BY <1>3, <1>4 DEF NearParts

\* A routable frame that is accepted is one of its kind, with the names of its
\* stream but for the altered field.
LEMMA RAccepted ==
  ASSUME NEW kind \in RKind, NEW mode, NEW s \in Stream, NEW i, NumOK(kind, i), i.spdu \in SeqNum,
         NEW f, PartsOf(kind, mode, s, i, f), NEW rx, NEW ofl,
         NEW p \in Parse(f, rx, ofl), p.err = "OK"
  PROVE  get_proto_type(f) = SessionOf(kind) /\ ReadAs(kind, s, p)
<1>1. PICK si, ptype :
        /\ <<si, ptype>> \in {<<"R_GOOSE", "GOOSE">>, <<"R_SV", "SV">>}
        /\ get_proto_type(f) = si /\ f.ses.si = si /\ f.eth = "ipv4"
        /\ p \in ParseR(f, si, ptype, rx, ofl)
  BY AcceptedStage DEF PartsOf
<1>2. PICK len, region :
        /\ region \in RegionRead(f, rx) \ Meaningless
        /\ unseal(f, f.ip.len - 28, rx, len) /\ region.ptype = ptype
        /\ p = ParseState(f.dmac, region.appid, f.ip.dst, f.ses.spduNumber,
                          ParseApdu(ptype, region.apdu))
  BY <1>1, AcceptedRead
<1>3. /\ f.ses.spduNumber \in SeqNum
      /\ \E pt, id, apdu :
           /\ f.region = RegionOf(SentEnc(mode, i), pt, id, apdu)
           /\ NearApdu(kind, s, i, id, apdu)
           /\ f.ses.si = SessionOf(kind) \/ pt = PayloadOf(kind)
  BY NearRegionIs DEF PartsOf
<1>4. PICK pt, id, apdu :
        /\ f.region = RegionOf(SentEnc(mode, i), pt, id, apdu)
        /\ NearApdu(kind, s, i, id, apdu)
        /\ f.ses.si = SessionOf(kind) \/ pt = PayloadOf(kind)
  BY <1>3
<1>5. region = RegionOf(<< >>, pt, id, apdu)
  BY <1>2, <1>4, RegionReadIs
<1>6. region.ptype = pt /\ region.appid = id /\ region.apdu = apdu
  BY <1>5 DEF RegionOf
<1>7. pt = ptype /\ ptype = PayloadOf(kind) /\ si = SessionOf(kind)
  BY <1>1, <1>2, <1>4, <1>6 DEF SessionOf, PayloadOf
<1> DEFINE a == ParseApdu(PayloadOf(kind), apdu)
           d == f.dmac
           ip == f.ip.dst
           sp == f.ses.spduNumber
<1>8. p = ParseState(d, id, ip, sp, a)
  BY <1>2, <1>6, <1>7
<1> HIDE DEF a, d, ip
<1>9. /\ a.err = "OK" /\ p.appid = id /\ p.spdu = sp
      /\ p.names = a.names /\ p.seq = a.seq
  BY <1>8, ParseStateOK
<1>10. a.seq \in Nat /\ NamesNear(kind, s, id, a.names)
  BY <1>4, <1>9, NearParsed DEF a
<1> QED
  BY <1>1, <1>3, <1>7, <1>9, <1>10 DEF ReadAs

\* What a MAC that verifies says of a frame.
LEMMA MacTells ==
  ASSUME NEW kind, NEW mode \in SecurityMode, NEW s, NEW i, NEW eth, NEW ses, NEW region, NEW trl,
         NearParts(kind, mode, s, i, eth, ses, region, trl),
         NEW rx \in {"hmac", "gcm"}, NEW x, NEW y,
         trl.mac = [alg |-> rx, ses |-> x, region |-> y]
  PROVE  mode = rx /\ x = SentSes(kind, mode, i) /\ y = FreshRegion(kind, s, i)
<1> DEFINE m == SentTrl(kind, mode, s, i).mac
           sx == SentSes(kind, mode, i)
           ry == FreshRegion(kind, s, i)
<1>1. trl.mac = m \/ trl.mac = [alg |-> "altered"]
  BY DEF NearParts
<1>2. m = IF mode = "none" THEN [alg |-> "none"] ELSE [alg |-> mode, ses |-> sx, region |-> ry]
  <2> DEFINE n == SentMac(kind, mode, s, i)
  <2>1. mode # "none" => n = [alg |-> mode, ses |-> sx, region |-> ry]
    BY DEF SentMac, GcmTag, Hmac, SecurityMode
  <2> HIDE DEF n, sx, ry
  <2>2. m = IF mode = "none" THEN [alg |-> "none"] ELSE n
    BY DEF SentTrl, NoTrailer, Trailer, n
  <2> QED
    BY <2>1, <2>2
<1> HIDE DEF m, sx, ry
<1>3. trl.mac.alg = rx /\ trl.mac.ses = x /\ trl.mac.region = y
  OBVIOUS
<1>4. trl.mac = m /\ mode # "none"
  <2>1. [alg |-> "altered"].alg = "altered" /\ [alg |-> "none"].alg = "none"
    OBVIOUS
  <2> QED
    BY <1>1, <1>2, <1>3, <2>1
<1>5. m.alg = mode /\ m.ses = sx /\ m.region = ry
  BY <1>2, <1>4
<1> QED
  BY <1>3, <1>4, <1>5 DEF sx, ry

\* The numbers a frame was sent with.
GenuineIs(i, p) == p.seq = i.num /\ p.spdu = i.spdu

\* A processor that verifies accepts only what a generator of its mode sent.
LEMMA VerifiedIsGenuine ==
  ASSUME NEW kind \in RKind, NEW mode \in SecurityMode, NEW s \in Stream, NEW i, NumOK(kind, i),
         i.spdu \in SeqNum,
         NEW f, PartsOf(kind, mode, s, i, f), NEW rx \in {"hmac", "gcm"}, NEW ofl,
         NEW p \in Parse(f, rx, ofl), p.err = "OK"
  PROVE  mode = rx /\ GenuineIs(i, p)
<1>1. PICK si, ptype :
        /\ <<si, ptype>> \in {<<"R_GOOSE", "GOOSE">>, <<"R_SV", "SV">>}
        /\ get_proto_type(f) = si /\ f.ses.si = si /\ f.eth = "ipv4"
        /\ p \in ParseR(f, si, ptype, rx, ofl)
  BY AcceptedStage DEF PartsOf
<1>2. PICK len, region :
        /\ region \in RegionRead(f, rx) \ Meaningless
        /\ unseal(f, f.ip.len - 28, rx, len) /\ region.ptype = ptype
        /\ p = ParseState(f.dmac, region.appid, f.ip.dst, f.ses.spduNumber,
                          ParseApdu(ptype, region.apdu))
  BY <1>1, AcceptedRead
<1>3. PICK pt, id, apdu : f.region = RegionOf(SentEnc(mode, i), pt, id, apdu)
  BY NearRegionIs DEF PartsOf
<1>4. region = RegionOf(<< >>, pt, id, apdu)
  BY <1>2, <1>3, RegionReadIs
<1> DEFINE x == f.ses
           y == FreshRegion(kind, s, i)
<1>5. \E z : f.trl.mac = [alg |-> rx, ses |-> x, region |-> z] /\ (z = y => apdu = FreshApdu(kind, s, i))
  <2>1. y = RegionOf(<< >>, PayloadOf(kind), AppIdOf(s), FreshApdu(kind, s, i))
    BY DEF FreshRegion, Region, RegionOf
  <2>2. RegionOf(<< >>, pt, id, apdu).apdu = apdu /\ y.apdu = FreshApdu(kind, s, i)
    BY <2>1 DEF RegionOf
  <2>3. CASE rx = "hmac"
    <3>1. f.trl.mac = [alg |-> "hmac", ses |-> x, region |-> f.region]
      BY <1>2, <2>3 DEF unseal, Hmac
    <3>2. f.region.apdu = apdu
      BY <1>3 DEF RegionOf
    <3> QED
      BY <2>2, <2>3, <3>1, <3>2
  <2>4. CASE rx = "gcm"
    <3> DEFINE z == Decrypted(f.region)
    <3>1. f.trl.mac = [alg |-> "gcm", ses |-> x, region |-> z] /\ f.region.enc # << >>
      BY <1>2, <2>4 DEF unseal, Decrypt, GcmTag
    <3>2. region = z
      BY <1>2, <2>4, <3>1 DEF RegionRead
    <3>3. z.apdu = apdu
      BY <1>4, <2>2, <3>2
    <3> QED
      BY <2>2, <2>4, <3>1, <3>3
  <2> QED
    BY <2>3, <2>4
<1>6. PICK z : f.trl.mac = [alg |-> rx, ses |-> x, region |-> z] /\ (z = y => apdu = FreshApdu(kind, s, i))
  BY <1>5
<1>7. mode = rx /\ x = SentSes(kind, mode, i) /\ z = y
  BY <1>6, MacTells DEF PartsOf
<1>8. f.ses.spduNumber = i.spdu /\ f.ses.si = SessionOf(kind) /\ apdu = FreshApdu(kind, s, i)
  BY <1>6, <1>7 DEF SentSes, SesHeader
<1>9. ptype = PayloadOf(kind) /\ region.apdu = apdu
  BY <1>1, <1>4, <1>8 DEF SessionOf, PayloadOf, RegionOf
<1> DEFINE a == ParseApdu(PayloadOf(kind), FreshApdu(kind, s, i))
           d == f.dmac
           ip == f.ip.dst
           sp == f.ses.spduNumber
           e == region.appid
<1>10. p = ParseState(d, e, ip, sp, a)
  BY <1>2, <1>8, <1>9
<1>11. a.seq = i.num
  BY SentParsed DEF SentResult
<1> HIDE DEF a, d, ip, sp, e
<1>12. p.spdu = sp /\ p.seq = a.seq
  BY <1>10, ParseStateOK
<1> QED
  BY <1>7, <1>8, <1>11, <1>12 DEF GenuineIs, sp
\* An L2 frame that is accepted is one of its kind, with the names of its
\* stream but for the altered field.
LEMMA L2Accepted ==
  ASSUME NEW kind \in L2Kind, NEW s \in Stream, NEW i, NumOK(kind, i),
         NEW f, NearL2(kind, s, i, f), NEW rx, NEW ofl, NEW p \in Parse(f, rx, ofl), p.err = "OK"
  PROVE  get_proto_type(f) = PayloadOf(kind) /\ ReadAs(kind, s, p)
<1>1. PICK eth, dmac, size, id, apdu :
        /\ f = L2Of(eth, dmac, size, id, apdu)
        /\ NearApdu(kind, s, i, id, apdu)
        /\ apdu = FreshApdu(kind, s, i) \/ eth = L2Eth(kind)
  BY DEF NearL2
<1>2. /\ f.eth = eth /\ f.dmac = dmac /\ f.size = size /\ f.appid = id /\ f.apdu = apdu
      /\ "ip" \notin DOMAIN f /\ "apdu" \in DOMAIN f
  BY <1>1 DEF L2Of
<1> DEFINE proto == get_proto_type(f)
           a == ParseApdu(proto, apdu)
<1>3. proto \in PayloadType \/ proto = "NON_BUS"
  BY <1>2 DEF get_proto_type, PayloadType
<1>4. proto # "NON_BUS"
  <2> SUFFICES ASSUME proto = "NON_BUS" PROVE FALSE
    OBVIOUS
  <2>1. p = [err |-> "NON_BUS"]
    BY DEF Parse, PayloadType
  <2> QED
    BY <2>1
<1>5. p = parse_l2_packet(f, proto) /\ proto \in PayloadType
  BY <1>3, <1>4 DEF Parse, PayloadType
<1> HIDE DEF proto, a
<1>6. /\ eth = (IF proto = "GOOSE" THEN "vlan_goose" ELSE "vlan_sv")
      /\ p = ParseState(dmac, id, 0, 0, a)
  <2>1. \/ p = [err |-> "-1"]
        \/ p = [err |-> "-3"]
        \/ /\ eth = (IF proto = "GOOSE" THEN "vlan_goose" ELSE "vlan_sv")
           /\ p = ParseState(dmac, id, 0, 0, a)
    BY <1>2, <1>5 DEF parse_l2_packet, a
  <2> QED
    BY <2>1
<1>7. /\ a.err = "OK" /\ p.appid = id /\ p.spdu = 0 /\ p.names = a.names /\ p.seq = a.seq
  BY <1>6, ParseStateOK
<1>8. proto = PayloadOf(kind)
  <2> SUFFICES ASSUME proto # PayloadOf(kind) PROVE FALSE
    OBVIOUS
  <2>1. eth # L2Eth(kind)
    BY <1>5, <1>6 DEF L2Eth, PayloadOf, PayloadType
  <2> QED
    BY <1>1, <1>5, <1>7, <2>1, OtherWalk DEF a
<1>9. a.seq \in Nat /\ NamesNear(kind, s, id, a.names)
  BY <1>1, <1>7, <1>8, NearParsed DEF a
<1>10. 0 \in SeqNum
  BY SeqModAssumption DEF SeqNum
<1> QED
  BY <1>7, <1>8, <1>9, <1>10 DEF ReadAs, proto

\* The state of a frame that is read as it was sent.
SentState(kind, s, i) ==
  [err |-> "OK", dmac |-> PassportOf(kind, s).dmac, appid |-> AppIdOf(s),
   dstIP |-> PassportOf(kind, s).dstIP, spdu |-> IF kind \in RKind THEN i.spdu ELSE 0,
   names |-> SentNames(kind, s), crev |-> 1, num |-> NumOf(kind), seq |-> i.num]

\* Its stream is found, if all digits of its number were sent.
LEMMA SentFound ==
  ASSUME NEW kind, NEW s \in Stream, NEW i, ~NameIsCut(kind, s)
  PROVE  s \in Found(kind, SentState(kind, s, i))
<1> DEFINE pass == PassportOf(kind, s)
           p == SentState(kind, s, i)
<1>1. DOMAIN pass = {"dmac", "appid", "dstIP", "names", "crev", "num"}
  BY DEF PassportOf
<1>2. pass.appid = AppIdOf(s) /\ pass.names = NamesOf(kind, s) /\ pass.crev = 1 /\ pass.num = NumOf(kind)
  BY DEF PassportOf, NamesOf, NumOf
<1> HIDE DEF pass
<1>3. /\ p.dmac = pass.dmac /\ p.appid = AppIdOf(s) /\ p.dstIP = pass.dstIP
      /\ p.names = NamesOf(kind, s) /\ p.crev = 1 /\ p.num = NumOf(kind)
  <2>1. SentNames(kind, s) = NamesOf(kind, s)
    BY DEF NameIsCut, SentNames, NamesOf
  <2> QED
    BY <2>1 DEF SentState, pass
<1> HIDE DEF p
<1>4. \A x \in DOMAIN pass : pass[x] = p[x]
  BY <1>1, <1>2, <1>3
<1> QED
  BY <1>4 DEF Found, pass, p

\* An intact L2 frame is read as it was sent.
LEMMA L2Read ==
  ASSUME NEW kind \in L2Kind, NEW s \in Stream, NEW i, NumOK(kind, i), NEW f, f = SentL2(kind, s, i),
         NEW rx, NEW ofl, NEW p \in Parse(f, rx, ofl)
  PROVE  get_proto_type(f) = PayloadOf(kind) /\ p = SentState(kind, s, i)
<1> DEFINE pt == PayloadOf(kind)
           dmac == <<"01:0C:CD", IF IsGooseKind(kind) THEN 4 ELSE 1>>
           id == AppIdOf(s)
           apdu == FreshApdu(kind, s, i)
           z == 26 + APDU_SIZE
<1>1. f = L2Of(L2Eth(kind), dmac, z, id, apdu)
  BY DEF SentL2, L2Frame, L2Of, L2Eth
<1>2. ~(z < 64)
  BY FrameAssumption
<1>3. ParseApdu(pt, apdu) = SentResult(kind, s, i)
  BY SentParsed
<1> HIDE DEF z, dmac, id, apdu
<1>4. /\ f.eth = L2Eth(kind) /\ f.dmac = dmac /\ f.size = z /\ f.appid = id /\ f.apdu = apdu
      /\ "apdu" \in DOMAIN f
  BY <1>1 DEF L2Of
<1>5. get_proto_type(f) = pt /\ pt \in PayloadType
  BY <1>4 DEF get_proto_type, L2Eth, PayloadOf, PayloadType
<1>6. f.eth = IF pt = "GOOSE" THEN "vlan_goose" ELSE "vlan_sv"
  BY <1>4 DEF L2Eth, PayloadOf
<1> HIDE DEF pt
<1>7. p = parse_l2_packet(f, pt)
  BY <1>5 DEF Parse, PayloadType
<1>8. parse_l2_packet(f, pt) = ParseState(dmac, id, 0, 0, SentResult(kind, s, i))
  BY <1>2, <1>3, <1>4, <1>6 DEF parse_l2_packet
<1> DEFINE a == SentResult(kind, s, i)
<1>9. /\ a.err = "OK" /\ a.names = SentNames(kind, s) /\ a.crev = 1
      /\ a.num = NumOf(kind) /\ a.seq = i.num
  BY DEF SentResult
<1> HIDE DEF a
<1>10. PassportOf(kind, s).dmac = dmac /\ PassportOf(kind, s).dstIP = 0 /\ kind \notin RKind
  BY DEF PassportOf, L2Skeleton, dmac, L2Kind, RKind
<1>11. p = [err |-> "OK", dmac |-> dmac, appid |-> id, dstIP |-> 0, spdu |-> 0,
            names |-> a.names, crev |-> a.crev, num |-> a.num, seq |-> a.seq]
  BY <1>7, <1>8, <1>9 DEF ParseState, a
<1>12. p = SentState(kind, s, i)
  BY <1>9, <1>10, <1>11 DEF SentState, id
<1> QED
  BY <1>5, <1>12 DEF pt
\* The parts of an intact routable frame.
IntactParts(kind, mode, s, i, f) ==
  /\ f.eth = "ipv4" /\ f.dmac = multicast_mac(stream_dst_ip(s))
  /\ f.size \in Nat /\ f.size >= 42 + UdpSize(mode)
  /\ f.ip = SentIp(mode, s) /\ f.udp = UdpHeader(mode, AppIdOf(s))
  /\ f.ses = SentSes(kind, mode, i) /\ f.region = SentRegion(kind, mode, s, i)
  /\ f.trl = SentTrl(kind, mode, s, i) /\ "ip" \in DOMAIN f

\* They are those of the frame as it was sent.
LEMMA IntactPartsOf ==
  ASSUME NEW kind, NEW mode, NEW s, NEW i, NEW f, IntactR(kind, mode, s, i, f)
  PROVE  IntactParts(kind, mode, s, i, f) /\ PartsOf(kind, mode, s, i, f)
<1> DEFINE U == UdpSize(mode)
           Z == SentSize(mode)
           dmac == multicast_mac(stream_dst_ip(s))
           ip == SentIp(mode, s)
           udp == UdpHeader(mode, AppIdOf(s))
           ses == SentSes(kind, mode, i)
           region == SentRegion(kind, mode, s, i)
           trl == SentTrl(kind, mode, s, i)
<1>1. PICK z : z \in {Z, Z + 4} /\ f = ROf(kind, mode, s, i, z)
  BY DEF IntactR
<1>2. U \in Nat /\ Z \in Nat /\ Z = 42 + U
  BY SizeType
<1> HIDE DEF U, Z
<1>3. z \in Nat /\ z >= 42 + U
  BY <1>1, <1>2
<1>4. f = FrameOf("ipv4", dmac, z, ip, udp, ses, region, trl)
  BY <1>1 DEF ROf
<1> HIDE DEF dmac, ip, udp, ses, region, trl
<1>5. /\ f.eth = "ipv4" /\ f.dmac = dmac /\ f.size = z /\ f.ip = ip /\ f.udp = udp /\ f.ses = ses
      /\ f.region = region /\ f.trl = trl /\ "ip" \in DOMAIN f /\ "apdu" \notin DOMAIN f
  BY <1>4 DEF FrameOf
<1>6. NearParts(kind, mode, s, i, f.eth, f.ses, f.region, f.trl)
  BY <1>5 DEF NearParts, ses, region, trl
<1> QED
  BY <1>3, <1>5, <1>6 DEF IntactParts, PartsOf, U, dmac, ip, udp, ses, region, trl

\* Sizes of a frame by mode.
LEMMA SizeIs ==
  ASSUME NEW mode
  PROVE  /\ APDU_SIZE \in Nat /\ APDU_SIZE >= 42 /\ iv_length(mode) \in Nat
         /\ UdpSize(mode) = 37 + iv_length(mode) + APDU_SIZE + (IF mode = "none" THEN 0 ELSE 18)
         /\ UdpSize(mode) >= 37 + iv_length(mode) + APDU_SIZE
         /\ UdpSize(mode) \in Nat
<1>1. APDU_SIZE \in Nat /\ APDU_SIZE >= 42
  BY FrameAssumption
<1>2. iv_length(mode) \in Nat
  BY DEF iv_length, IV_LEN_GCM
<1> DEFINE v == iv_length(mode)
<1> HIDE DEF v
<1>3. /\ v \in Nat
      /\ UdpSize(mode) = 37 + v + APDU_SIZE + (IF mode = "none" THEN 0 ELSE 18)
  BY <1>1, <1>2 DEF UdpSize, udp_payload_size, apdu_offset, payload_hdr_offset,
              SESSION_FIXED_SIZE, PAYLOAD_HDR_SIZE, trailer_size, TRAILER_SIZE, TAG_SIZE, v
<1> QED
  BY <1>1, <1>2, <1>3 DEF v

\* The checksum of the header that was sent.
LEMMA ChecksumOk ==
  ASSUME NEW mode, NEW s
  PROVE  ipv4_checksum_ok(SentIp(mode, s))
<1> DEFINE d == stream_dst_ip(s)
           c == Checksum(mode, d)
           ip == IpHeader(mode, d, c)
<1>1. [ip EXCEPT !.csum = << >>] = IpHeader(mode, d, << >>)
  <2> HIDE DEF c, d
  <2> QED
    BY DEF IpHeader
<1>2. ip.csum = c
  <2> HIDE DEF c, d
  <2> QED
    BY DEF IpHeader
<1>3. ip.csum = << ipv4_checksum(ip) >>
  <2> HIDE DEF ip
  <2> QED
    BY <1>1, <1>2 DEF ipv4_checksum, c, Checksum
<1> QED
  BY <1>3 DEF ipv4_checksum_ok, SentIp

\* The router and the envelope check take an intact frame.
LEMMA EnvelopeOk ==
  ASSUME NEW kind, NEW mode, NEW s, NEW i, NEW f, IntactParts(kind, mode, s, i, f),
         NEW ofl, ofl # "bad"
  PROVE  get_proto_type(f) = SessionOf(kind) /\ validate_r_envelope(f, ofl) = "OK"
<1> DEFINE U == UdpSize(mode)
<1>1. U \in Nat /\ U >= 37
  BY SizeIs
<1>2. ipv4_checksum_ok(f.ip)
  BY ChecksumOk DEF IntactParts
<1>3. /\ f.ip.vihl = 69 /\ f.ip.proto = 17 /\ f.ip.frag = "DF" /\ f.ip.len = 20 + 8 + U
      /\ f.udp.dst = 102 /\ f.udp.len = 8 + U
  BY DEF IntactParts, SentIp, IpHeader, UdpHeader
<1>4. f.ses.si = SessionOf(kind) /\ SessionOf(kind) \in SI
  BY DEF IntactParts, SentSes, SesHeader, SessionOf, SI
<1>5. f.eth = "ipv4" /\ f.size \in Nat /\ f.size >= 42 + U /\ "ip" \in DOMAIN f
  BY DEF IntactParts
<1> HIDE DEF U
<1>6. /\ f.size >= R_MIN_FRAME_SIZE /\ f.size >= 14 + 20 /\ IpLenOk(f)
      /\ f.udp.len >= 8 /\ f.udp.len = f.ip.len - 20
  BY <1>1, <1>3, <1>5 DEF R_MIN_FRAME_SIZE, ETH_IP_UDP_SIZE, SESSION_FIXED_SIZE, IpLenOk
<1>7. get_proto_type(f) = SessionOf(kind)
  BY <1>3, <1>4, <1>5, <1>6 DEF get_proto_type
<1>8. validate_r_envelope(f, ofl) = "OK"
  BY <1>2, <1>3, <1>5, <1>6 DEF validate_r_envelope, Require, ??
<1> QED
  BY <1>7, <1>8

\* What unwrap_r_frame makes of an intact frame depends on the seal alone.
LEMMA UnwrapIntact ==
  ASSUME NEW kind, NEW mode, NEW s, NEW i, NEW f, IntactParts(kind, mode, s, i, f), NEW rx,
         NEW len \in PayloadLengthRead(f.ses), NEW region
  PROVE  /\ len = 6 + APDU_SIZE
         /\ unwrap_r_frame(f, SessionOf(kind), PayloadOf(kind), rx, len, region) =
              IF ~unseal(f, UdpSize(mode), rx, len) THEN "AUTH"
              ELSE IF region.ptype = PayloadOf(kind) THEN "OK" ELSE "BAD_PAYLOAD_TYPE"
<1> DEFINE U == UdpSize(mode)
           v == iv_length(mode)
           ses == f.ses
           u == unseal(f, U, rx, len)
<1>1. /\ U \in Nat /\ v \in Nat /\ APDU_SIZE \in Nat /\ U >= 37 + v + APDU_SIZE
      /\ APDU_SIZE >= 42
  BY SizeIs
<1>2. /\ ses.cltp = "ok" /\ ses.si = SessionOf(kind) /\ ses.pi = "ok" /\ ses.version = SESSION_VERSION
      /\ ses.ivLen = v /\ ses.iv = SentIV(mode, i) /\ ses.payloadLength = 6 + APDU_SIZE
      /\ SessionOf(kind) \in SI
  BY DEF IntactParts, SentSes, SesHeader, SessionOf, SI, PAYLOAD_ELEM_SIZE
<1>3. Aligned(ses)
  <2>1. DeriveIV(KEY_ID, i.spdu) # << >>
    BY DEF DeriveIV
  <2> QED
    BY <1>2, <2>1 DEF Aligned, SentIV, iv_length, v, IV_LEN_GCM
<1>4. len = 6 + APDU_SIZE
  BY <1>2, <1>3 DEF PayloadLengthRead
<1>5. f.ip.len = 28 + U
  BY DEF IntactParts, SentIp, IpHeader
<1>6. f.size \in Nat /\ f.size >= 42 + U
  BY DEF IntactParts
<1> HIDE DEF U, v, ses
<1>7. f.ip.len - 28 = U
  BY <1>1, <1>5
<1>8. f.size >= ETH_IP_UDP_SIZE + apdu_offset(0) /\ IpLenOk(f)
  BY <1>1, <1>5, <1>6 DEF ETH_IP_UDP_SIZE, apdu_offset, payload_hdr_offset, SESSION_FIXED_SIZE,
                          PAYLOAD_HDR_SIZE, IpLenOk
<1>9. SessionChecks(ses, U, len) = "OK"
  <2>1. /\ U >= SESSION_FIXED_SIZE + 4
        /\ payload_hdr_offset(v) + PAYLOAD_HDR_SIZE <= U
        /\ len >= PAYLOAD_ELEM_SIZE /\ payload_hdr_offset(v) + 4 + len <= U
    BY <1>1, <1>4 DEF SESSION_FIXED_SIZE, payload_hdr_offset, PAYLOAD_HDR_SIZE, PAYLOAD_ELEM_SIZE
  <2> QED
    BY <1>2, <2>1 DEF SessionChecks, Require, ??
<1>10. len = PAYLOAD_ELEM_SIZE + APDU_SIZE
  BY <1>4 DEF PAYLOAD_ELEM_SIZE
<1>11. PayloadOf(kind) \in PayloadType
  BY DEF PayloadOf, PayloadType
<1> DEFINE C == SessionChecks(f.ses, f.ip.len - 28, len)
           D == unseal(f, f.ip.len - 28, rx, len)
<1>12. C = "OK" /\ D = u /\ f.ses.si = SessionOf(kind)
  BY <1>2, <1>7, <1>9 DEF ses
<1> HIDE DEF C, D, u
<1>13. unwrap_r_frame(f, SessionOf(kind), PayloadOf(kind), rx, len, region) =
         Require(f.size >= ETH_IP_UDP_SIZE + apdu_offset(0), "TOO_SHORT") ?? Require(IpLenOk(f), "TOO_SHORT")
         ?? C ?? Require(f.ses.si = SessionOf(kind), "BAD_SI") ?? Require(D, "AUTH")
         ?? PayloadChecks(region) ?? Require(region.ptype = PayloadOf(kind), "BAD_PAYLOAD_TYPE")
         ?? Require(len = PAYLOAD_ELEM_SIZE + APDU_SIZE, "APDU_CUT")
  BY DEF unwrap_r_frame, C, D
<1>14. unwrap_r_frame(f, SessionOf(kind), PayloadOf(kind), rx, len, region) =
         Require(D, "AUTH")
         ?? PayloadChecks(region) ?? Require(region.ptype = PayloadOf(kind), "BAD_PAYLOAD_TYPE")
  BY <1>8, <1>10, <1>12, <1>13 DEF Require, ??
<1>15. unwrap_r_frame(f, SessionOf(kind), PayloadOf(kind), rx, len, region) =
         IF ~u THEN "AUTH" ELSE IF region.ptype = PayloadOf(kind) THEN "OK" ELSE "BAD_PAYLOAD_TYPE"
  BY <1>11, <1>12, <1>14 DEF Require, ??, PayloadChecks
<1> QED
  BY <1>4, <1>15 DEF u, U
\* A processor of the generator's mode opens the seal of an intact frame.
LEMMA SealOpens ==
  ASSUME NEW kind, NEW mode \in SecurityMode, NEW s, NEW i, NEW f, IntactParts(kind, mode, s, i, f)
  PROVE  unseal(f, UdpSize(mode), mode, 6 + APDU_SIZE)
<1> DEFINE U == UdpSize(mode)
           v == iv_length(mode)
           iv == SentIV(mode, i)
           fresh == FreshRegion(kind, s, i)
           len == 6 + APDU_SIZE
<1>1. CASE mode = "none"
  BY <1>1 DEF unseal
<1>2. CASE mode # "none"
  <2>1. /\ U \in Nat /\ v \in Nat /\ APDU_SIZE \in Nat /\ U = 37 + v + APDU_SIZE + 18
    BY <1>2, SizeIs
  <2>2. f.ses.ivLen = v /\ f.ses.iv = iv /\ f.ses = SentSes(kind, mode, i)
    BY DEF IntactParts, SentSes, SesHeader
  <2>3. f.trl.tag = SIGNATURE_TAG /\ f.trl.len = TAG_SIZE /\ f.trl.mac = SentMac(kind, mode, s, i)
    BY <1>2 DEF IntactParts, SentTrl, Trailer
  <2>4. payload_hdr_offset(v) + 4 + len + TRAILER_SIZE <= U
    <3> HIDE DEF U, v
    <3> QED
      BY <2>1 DEF payload_hdr_offset, SESSION_FIXED_SIZE, TRAILER_SIZE, TAG_SIZE
  <2>5. f.region = SentRegion(kind, mode, s, i)
    BY DEF IntactParts
  <2> HIDE DEF U, v, iv, len, fresh
  <2>6. CASE mode = "hmac"
    <3>1. f.trl.mac = Hmac(f.ses, f.region)
      BY <2>2, <2>3, <2>5, <2>6 DEF SentMac, SentRegion
    <3> QED
      BY <2>2, <2>3, <2>4, <2>6, <3>1 DEF unseal, U, len
  <2>7. CASE mode = "gcm"
    <3>1. f.ses.ivLen = IV_LEN_GCM
      BY <2>2, <2>7 DEF v, iv_length
    <3> DEFINE pt == PayloadOf(kind)
               id == AppIdOf(s)
               a == FreshApdu(kind, s, i)
    <3>2. f.region = RegionOf(<< iv >>, pt, id, a)
      BY <2>5, <2>7, SentRegionIs DEF SentEnc, iv
    <3>3. fresh = RegionOf(<< >>, pt, id, a)
      BY DEF FreshRegion, Region, RegionOf, fresh
    <3>4. f.trl.mac = GcmTag(f.ses, fresh)
      BY <2>2, <2>3, <2>7 DEF SentMac, fresh
    <3> HIDE DEF pt, id, a
    <3>5. Decrypted(f.region) = fresh
      BY <3>2, <3>3, DecryptedIs
    <3>6. f.region.enc = << iv >> /\ << iv >> # << >> /\ Len(<< iv >>) = 1 /\ << iv >>[1] = iv
      BY <3>2 DEF RegionOf
    <3>7. Decrypt(f)
      BY <2>2, <3>4, <3>5, <3>6 DEF Decrypt
    <3> QED
      BY <2>2, <2>3, <2>4, <2>7, <3>1, <3>7 DEF unseal, U, len
  <2> QED
    BY <1>2, <2>6, <2>7 DEF SecurityMode
<1> QED
  BY <1>1, <1>2

\* One of another mode does not.
LEMMA SealHolds ==
  ASSUME NEW kind, NEW mode \in SecurityMode, NEW s, NEW i, NEW f, PartsOf(kind, mode, s, i, f),
         NEW rx \in {"hmac", "gcm"}, rx # mode, NEW size, NEW len
  PROVE  ~unseal(f, size, rx, len)
<1> SUFFICES ASSUME unseal(f, size, rx, len) PROVE FALSE
  OBVIOUS
<1>1. \E x, y : f.trl.mac = [alg |-> rx, ses |-> x, region |-> y]
  BY DEF unseal, Hmac, Decrypt, GcmTag
<1>2. PICK x, y : f.trl.mac = [alg |-> rx, ses |-> x, region |-> y]
  BY <1>1
<1>3. mode = rx
  BY <1>2, MacTells DEF PartsOf
<1> QED
  BY <1>3

\* The stage of an intact frame.
LEMMA IntactStage ==
  ASSUME NEW kind, NEW mode, NEW s, NEW i, NEW f, IntactParts(kind, mode, s, i, f),
         NEW rx, NEW ofl, ofl # "bad", NEW p \in Parse(f, rx, ofl)
  PROVE  \E len \in PayloadLengthRead(f.ses), region \in RegionRead(f, rx) :
           p = parse_r_packet(f, SessionOf(kind), PayloadOf(kind), rx, len, region)
<1>1. get_proto_type(f) = SessionOf(kind) /\ validate_r_envelope(f, ofl) = "OK"
  BY EnvelopeOk
<1>2. p \in ParseR(f, SessionOf(kind), PayloadOf(kind), rx, ofl)
  BY <1>1 DEF Parse, SessionOf, PayloadOf, PayloadType
<1> QED
  BY <1>1, <1>2 DEF ParseR

\* An intact routable frame is read as it was sent, if the modes agree.
LEMMA RRead ==
  ASSUME NEW kind \in RKind, NEW mode \in SecurityMode, NEW s \in Stream, NEW i, NumOK(kind, i),
         NEW f, IntactParts(kind, mode, s, i, f), NEW ofl, ofl # "bad", NEW p \in Parse(f, mode, ofl)
  PROVE  p = SentState(kind, s, i)
<1>1. PICK len \in PayloadLengthRead(f.ses), region \in RegionRead(f, mode) :
         p = parse_r_packet(f, SessionOf(kind), PayloadOf(kind), mode, len, region)
  BY IntactStage
<1> DEFINE pt == PayloadOf(kind)
           id == AppIdOf(s)
           a == FreshApdu(kind, s, i)
           iv == SentIV(mode, i)
<1>2. f.region = RegionOf(SentEnc(mode, i), pt, id, a)
  BY SentRegionIs DEF IntactParts
<1>3. Aligned(f.ses)
  <2>1. f.ses.ivLen = iv_length(mode) /\ f.ses.iv = iv
    BY DEF IntactParts, SentSes, SesHeader
  <2>2. DeriveIV(KEY_ID, i.spdu) # << >>
    BY DEF DeriveIV
  <2> QED
    BY <2>1, <2>2 DEF Aligned, SentIV, iv_length, IV_LEN_GCM
<1> HIDE DEF pt, id, a, iv
<1>4. region = RegionOf(<< >>, pt, id, a)
  <2>1. RegionOf(<< >>, pt, id, a).enc = << >> /\ RegionOf(<< iv >>, pt, id, a).enc = << iv >>
    BY DEF RegionOf
  <2>2. << iv >> # << >>
    OBVIOUS
  <2>3. CASE mode = "gcm"
    <3>1. f.region = RegionOf(<< iv >>, pt, id, a)
      BY <1>2, <2>3 DEF SentEnc, iv
    <3>2. Decrypted(f.region) = RegionOf(<< >>, pt, id, a)
      BY <3>1, DecryptedIs
    <3>3. f.region.enc # << >>
      BY <2>1, <2>2, <3>1
    <3> QED
      BY <1>1, <1>3, <2>1, <2>3, <3>2, <3>3 DEF RegionRead
  <2>4. CASE mode # "gcm"
    <3>1. f.region = RegionOf(<< >>, pt, id, a)
      BY <1>2, <2>4 DEF SentEnc
    <3> QED
      BY <1>1, <1>3, <2>1, <2>4, <3>1 DEF RegionRead
  <2> QED
    BY <2>3, <2>4
<1>5. region.ptype = pt /\ region.appid = id /\ region.apdu = a
  BY <1>4 DEF RegionOf
<1>6. unwrap_r_frame(f, SessionOf(kind), PayloadOf(kind), mode, len, region) = "OK"
  <2>1. len = 6 + APDU_SIZE /\ unseal(f, UdpSize(mode), mode, 6 + APDU_SIZE)
    BY <1>1, UnwrapIntact, SealOpens
  <2> QED
    BY <1>1, <1>5, <2>1, UnwrapIntact DEF pt
<1> DEFINE r == ParseApdu(pt, a)
           d == f.dmac
           ip == f.ip.dst
           sp == f.ses.spduNumber
<1>7. p = ParseState(d, id, ip, sp, r)
  BY <1>1, <1>5, <1>6 DEF parse_r_packet, pt
<1>8. r = SentResult(kind, s, i)
  BY SentParsed DEF pt, a
<1>9. /\ r.err = "OK" /\ r.names = SentNames(kind, s) /\ r.crev = 1
      /\ r.num = NumOf(kind) /\ r.seq = i.num
  BY <1>8 DEF SentResult
<1>10. d = PassportOf(kind, s).dmac /\ ip = PassportOf(kind, s).dstIP /\ sp = i.spdu
  BY DEF IntactParts, PassportOf, SentIp, IpHeader, SentSes, SesHeader
<1> HIDE DEF r, d, ip, sp
<1>11. p = [err |-> "OK", dmac |-> d, appid |-> id, dstIP |-> ip, spdu |-> sp,
            names |-> r.names, crev |-> r.crev, num |-> r.num, seq |-> r.seq]
  BY <1>7, <1>9 DEF ParseState
<1> QED
  BY <1>9, <1>10, <1>11 DEF SentState, id

\* A processor of another mode that verifies shows it as an authentication error.
LEMMA ROther ==
  ASSUME NEW kind \in RKind, NEW mode \in SecurityMode, NEW s, NEW i, NEW f,
         IntactParts(kind, mode, s, i, f), PartsOf(kind, mode, s, i, f),
         NEW rx \in {"hmac", "gcm"}, rx # mode, NEW ofl, ofl # "bad", NEW p \in Parse(f, rx, ofl)
  PROVE  p.err = "AUTH"
<1>1. PICK len \in PayloadLengthRead(f.ses), region \in RegionRead(f, rx) :
         p = parse_r_packet(f, SessionOf(kind), PayloadOf(kind), rx, len, region)
  BY IntactStage
<1>2. ~unseal(f, UdpSize(mode), rx, len)
  BY SealHolds
<1>3. unwrap_r_frame(f, SessionOf(kind), PayloadOf(kind), rx, len, region) = "AUTH"
  BY <1>1, <1>2, UnwrapIntact
<1>4. p = [err |-> "AUTH"]
  BY <1>1, <1>3 DEF parse_r_packet
<1> QED
  BY <1>4
\* Numbers less than a period apart are told apart by their remainders.
LEMMA ModApart ==
  ASSUME NEW p \in Nat \ {0}, NEW a \in Nat, NEW b \in Nat, a < b, b < a + p
  PROVE  a % p # b % p
<1> SUFFICES ASSUME a % p = b % p PROVE FALSE
  OBVIOUS
<1> DEFINE q == a \div p
           k == b \div p
           r == a % p
<1>1. q \in Nat /\ k \in Nat /\ r \in Nat /\ a = p * q + r /\ b = p * k + r
  BY Numbers!DivMod
<1> HIDE DEF q, k, r
<1>2. q < k => p * q + p <= p * k
  BY <1>1, Numbers!Monotonic
<1>3. k < q => p * k + p <= p * q
  BY <1>1, Numbers!Monotonic
<1> DEFINE x == p * q
           y == p * k
<1>4. x \in Nat /\ y \in Nat /\ (q = k => x = y)
  BY <1>1
<1> HIDE DEF x, y
<1>5. a = x + r /\ b = y + r /\ (q < k => x + p <= y) /\ (k < q => y + p <= x)
  BY <1>1, <1>2, <1>3 DEF x, y
<1> QED
  BY <1>1, <1>4, <1>5

\* A second is a whole number of frames: the first sample number of a frame
\* leaves room for its samples.
LEMMA SampleRoom ==
  ASSUME NEW kind, NEW n \in Nat
  PROVE  /\ SampleOf(kind, n) \in Nat
         /\ SampleOf(kind, n) + AsduNum(kind) <= SmpFreq[AsduNum(kind)]
<1> DEFINE num == AsduNum(kind)
           freq == SmpFreq[AsduNum(kind)]
           k == freq \div num
           q == n \div k
           j == n % k
           c == num * j
<1>1. num \in Nat \ {0} /\ freq \in Nat \ {0} /\ freq % num = 0
  BY FrequencyType
<1> HIDE DEF num, freq
<1>2. k \in Nat /\ freq = num * k
  BY <1>1, Numbers!DivMod
<1> HIDE DEF k
<1>3. k # 0
  BY <1>1, <1>2
<1>4. q \in Nat /\ j \in Nat /\ j < k /\ n = k * q + j
  BY <1>2, <1>3, Numbers!DivMod
<1> HIDE DEF q, j
<1>5. num * j + num <= num * k
  BY <1>1, <1>2, <1>4, Numbers!Monotonic
<1>6. c \in Nat /\ n * num \in Nat
  BY <1>1, <1>4
<1>7. n * num = freq * q + c
  <2>1. (k * q + j) * num = (num * k) * q + num * j
    BY <1>1, <1>2, <1>4
  <2> QED
    BY <1>2, <1>4, <2>1
<1>8. c + num <= freq
  BY <1>2, <1>5
<1> DEFINE a == n * num
<1> HIDE DEF a, c
<1>9. a \in Nat /\ c \in Nat /\ c < freq /\ a = freq * q + c
  BY <1>1, <1>6, <1>7, <1>8 DEF a
<1>10. a % freq = c
  BY <1>1, <1>4, <1>9, Numbers!ModUnique
<1>11. SampleOf(kind, n) = c
  BY <1>10 DEF SampleOf, a, num, freq
<1> QED
  BY <1>8, <1>9, <1>11 DEF num, freq

\* The number a tracker has after frame n, zero before the first.
SeqOf(kind, n) ==
  IF IsGooseKind(kind) THEN n % SeqMod ELSE IF n = 0 THEN 0 ELSE SampleOf(kind, n - 1)

\* The next frame has the number that its tracker expects.
LEMMA NextSample ==
  ASSUME NEW kind, ~IsGooseKind(kind), NEW m \in Nat
  PROVE  \/ SeqOf(kind, m + 1) = Plus(SeqOf(kind, m), AsduNum(kind))
         \/ SeqOf(kind, m + 1) = 0
<1> DEFINE num == AsduNum(kind)
           freq == SmpFreq[AsduNum(kind)]
           next0 == m + 1
<1>1. num \in Nat \ {0} /\ freq \in Nat \ {0} /\ freq - num < SeqMod
  BY FrequencyType
<1>2. next0 # 0 /\ next0 - 1 = m
  OBVIOUS
<1>3. SeqOf(kind, next0) = SampleOf(kind, m)
  <2> HIDE DEF next0
  <2> QED
    BY <1>2 DEF SeqOf
<1>4. CASE m = 0
  <2>1. 0 * num = 0 /\ 0 % freq = 0
    BY <1>1
  <2>2. SampleOf(kind, 0) = 0
    BY <2>1 DEF SampleOf
  <2> QED
    BY <1>3, <1>4, <2>2
<1>5. CASE m # 0
  <2> DEFINE l == m - 1
             r == SampleOf(kind, l)
             a == l * num
  <2>1. l \in Nat /\ SeqOf(kind, m) = r
    BY <1>5 DEF SeqOf
  <2>2. r \in Nat /\ r + num <= freq
    BY <2>1, SampleRoom
  <2>3. a \in Nat /\ m * num = a + num
    <3>1. m = l + 1
      OBVIOUS
    <3>2. (l + 1) * num = l * num + num
      BY <1>1, <2>1
    <3> QED
      BY <1>1, <2>1, <3>1, <3>2
  <2>4. r = a % freq
    BY DEF SampleOf
  <2>5. SampleOf(kind, m) = (a + num) % freq
    BY <2>3 DEF SampleOf
  <2> HIDE DEF a, r, l, num, freq
  <2>6. SampleOf(kind, m) = (r + num) % freq
    BY <1>1, <2>3, <2>4, <2>5, ModPlus
  <2>7. CASE r + num = freq
    <3>1. freq % freq = 0
      BY <1>1
    <3> QED
      BY <1>3, <2>6, <2>7, <3>1
  <2>8. CASE r + num # freq
    <3> DEFINE b == r + num
    <3>1. b \in Nat /\ b < freq
      BY <1>1, <2>2, <2>8
    <3>2. b % freq = b
      BY <1>1, <3>1
    <3>3. b < SeqMod
      <4>1. SampleOf(kind, m) + num <= freq
        BY SampleRoom DEF num, freq
      <4> HIDE DEF b
      <4>2. b + num <= freq /\ SeqMod \in Nat
        BY <2>6, <3>2, <4>1, SeqModAssumption DEF b
      <4> QED
        BY <1>1, <3>1, <4>2
    <3>4. b % SeqMod = b
      <4> HIDE DEF b
      <4> QED
        BY <3>1, <3>3, SeqModAssumption
    <3>5. Plus(r, num) = b
      BY <3>4 DEF Plus
    <3> QED
      BY <1>3, <2>1, <2>6, <3>2, <3>5 DEF num
  <2> QED
    BY <2>7, <2>8
<1> QED
  BY <1>4, <1>5
-----------------------------------------------------------------------------
(* The trackers.                                                           *)

ProtoOf(kind) == IF kind \in RKind THEN SessionOf(kind) ELSE PayloadOf(kind)
TrackerType == [spdu : SeqNum, errSpdu : Nat, seq : Nat, errSeq : Nat]
TrackerOf(spdu, errSpdu, seq, errSeq) ==
  [spdu |-> spdu, errSpdu |-> errSpdu, seq |-> seq, errSeq |-> errSeq]

\* Protocols by kind.
LEMMA ProtoIs ==
  ASSUME NEW kind \in AnyKind
  PROVE  /\ IsGooseProto(ProtoOf(kind)) = IsGooseKind(kind)
         /\ (ProtoOf(kind) \in SI) = (kind \in RKind)
         /\ ProtoOf(kind) # "NON_BUS"
BY DEF AnyKind, L2Kind, RKind, ProtoOf, SessionOf, PayloadOf, IsGooseProto, IsGooseKind, SI

SpduMissed(kind, t, p) == kind \in RKind /\ t.spdu # 0 /\ p.spdu # Plus(t.spdu, 1)
SeqMissed(kind, t, p) ==
  IF IsGooseKind(kind) THEN p.seq # t.seq /\ p.seq # Plus(t.seq, 1)
  ELSE p.seq # Plus(t.seq, p.num) /\ p.seq # 0

\* What the two Process functions make of a tracker.
LEMMA TrackedIs ==
  ASSUME NEW kind \in AnyKind, NEW t \in TrackerType, NEW p
  PROVE  Tracked(t, ProtoOf(kind), p) =
           TrackerOf(IF kind \in RKind THEN p.spdu ELSE t.spdu,
                     IF SpduMissed(kind, t, p) THEN t.errSpdu + 1 ELSE t.errSpdu,
                     p.seq,
                     IF SeqMissed(kind, t, p) THEN t.errSeq + 1 ELSE t.errSeq)
<1> DEFINE proto == ProtoOf(kind)
           a == t.spdu
           b == t.errSpdu
           c == t.seq
           d == t.errSeq
           a2 == IF kind \in RKind THEN p.spdu ELSE a
           b2 == IF SpduMissed(kind, t, p) THEN b + 1 ELSE b
           d2 == IF SeqMissed(kind, t, p) THEN d + 1 ELSE d
           u == IF proto \in SI THEN ProcessSessionState(t, p.spdu) ELSE t
<1>1. t = TrackerOf(a, b, c, d)
  BY DEF TrackerType, TrackerOf
<1>3. u = TrackerOf(a2, b2, c, d)
  <2>1. CASE kind \in RKind
    <3>1. u = ProcessSessionState(t, p.spdu)
      BY <2>1, ProtoIs
    <3>2. ProcessSessionState(t, p.spdu) = [t EXCEPT !.errSpdu = b2, !.spdu = p.spdu]
      BY <2>1 DEF ProcessSessionState, SpduMissed
    <3> HIDE DEF u, b2, a, b, c, d
    <3>3. a2 = p.spdu
      BY <2>1
    <3> DEFINE v == [t EXCEPT !.errSpdu = b2]
               sp == p.spdu
    <3> HIDE DEF a2, sp
    <3>4. v = TrackerOf(a, b2, c, d)
      BY <1>1 DEF TrackerOf
    <3> HIDE DEF v
    <3>5. [v EXCEPT !.spdu = sp] = TrackerOf(sp, b2, c, d)
      BY <3>4 DEF TrackerOf
    <3>6. u = [v EXCEPT !.spdu = sp] /\ a2 = sp
      BY <3>1, <3>2, <3>3 DEF v, sp
    <3> QED
      BY <3>5, <3>6
  <2>2. CASE kind \notin RKind
    <3>1. u = t
      BY <2>2, ProtoIs
    <3>2. a2 = a /\ b2 = b
      BY <2>2 DEF SpduMissed
    <3> HIDE DEF u, a2, b2, a, b, c, d
    <3> QED
      BY <1>1, <3>1, <3>2
  <2> QED
    BY <2>1, <2>2
<1>4. Tracked(t, proto, p) = IF IsGooseKind(kind) THEN GooseProcessState(u, p.seq)
                             ELSE SVProcessState(u, p.seq, p.num)
  BY ProtoIs DEF Tracked
<1>5. u.seq = c /\ u.errSeq = d
  <2> HIDE DEF u, a2, b2, c, d
  <2> QED
    BY <1>3 DEF TrackerOf
<1> HIDE DEF u
<1>6. Tracked(t, proto, p) = [u EXCEPT !.errSeq = d2, !.seq = p.seq]
  BY <1>4, <1>5 DEF GooseProcessState, SVProcessState, SeqMissed
<1> HIDE DEF a2, b2, d2, proto, a, b, c, d
<1>7. Tracked(t, proto, p) = TrackerOf(a2, b2, p.seq, d2)
  <2> DEFINE v == [u EXCEPT !.errSeq = d2]
             sq == p.seq
  <2> HIDE DEF sq
  <2>1. v = TrackerOf(a2, b2, c, d2)
    BY <1>3 DEF TrackerOf
  <2> HIDE DEF v
  <2>2. [v EXCEPT !.seq = sq] = TrackerOf(a2, b2, sq, d2)
    BY <2>1 DEF TrackerOf
  <2>3. Tracked(t, proto, p) = [v EXCEPT !.seq = sq]
    BY <1>6 DEF v, sq
  <2> QED
    BY <2>2, <2>3 DEF sq
<1> QED
  BY <1>7 DEF proto, a2, b2, d2, a, b, c, d

\* A tracker stays one, and each of its counters counts a frame at most once.
LEMMA TrackedType ==
  ASSUME NEW kind \in AnyKind, NEW t \in TrackerType, NEW p, p.spdu \in SeqNum, p.seq \in Nat,
         NEW u, u = Tracked(t, ProtoOf(kind), p)
  PROVE  u \in TrackerType /\ u.errSpdu <= t.errSpdu + 1 /\ u.errSeq <= t.errSeq + 1
<1> DEFINE A == kind \in RKind
           B == SpduMissed(kind, t, p)
           D == SeqMissed(kind, t, p)
<1>1. u = TrackerOf(IF A THEN p.spdu ELSE t.spdu, IF B THEN t.errSpdu + 1 ELSE t.errSpdu,
                    p.seq, IF D THEN t.errSeq + 1 ELSE t.errSeq)
  BY TrackedIs
<1> HIDE DEF A, B, D
<1>2. /\ u.spdu = (IF A THEN p.spdu ELSE t.spdu)
      /\ u.errSpdu = (IF B THEN t.errSpdu + 1 ELSE t.errSpdu)
      /\ u.seq = p.seq /\ u.errSeq = (IF D THEN t.errSeq + 1 ELSE t.errSeq)
      /\ u = TrackerOf(u.spdu, u.errSpdu, u.seq, u.errSeq)
  BY <1>1 DEF TrackerOf
<1>3. t.spdu \in SeqNum /\ t.errSpdu \in Nat /\ t.errSeq \in Nat
  BY DEF TrackerType
<1>4. u.spdu \in SeqNum /\ u.errSpdu \in Nat /\ u.seq \in Nat /\ u.errSeq \in Nat
  BY <1>2, <1>3
<1>5. u \in TrackerType
  BY <1>2, <1>4 DEF TrackerOf, TrackerType
<1> QED
  BY <1>2, <1>3, <1>5

\* The tracker has seen frame n last.
At(kind, t, n) == t.spdu = SpduAfter(kind, n) /\ t.seq = SeqOf(kind, n)

\* After frame m comes frame n: an error is counted when frames are missing
\* only, and for GOOSE always.
LEMMA TrackerTells ==
  ASSUME NEW kind \in AnyKind, NEW t \in TrackerType, NEW m \in Nat, NEW n \in Nat,
         At(kind, t, m), m < n, n - m <= SeqMod - 1,
         NEW p, p.spdu = SpduAfter(kind, n), p.seq = SeqOf(kind, n),
         ~IsGooseKind(kind) => p.num = AsduNum(kind),
         NEW u, u = Tracked(t, ProtoOf(kind), p)
  PROVE  /\ At(kind, u, n)
         /\ u.errSpdu = t.errSpdu \/ (n # m + 1 /\ u.errSpdu = t.errSpdu + 1)
         /\ u.errSeq = t.errSeq \/ (n # m + 1 /\ u.errSeq = t.errSeq + 1)
         /\ IsGooseKind(kind) => u.errSeq = IF n # m + 1 THEN t.errSeq + 1 ELSE t.errSeq
<1> DEFINE B == SpduMissed(kind, t, p)
           D == SeqMissed(kind, t, p)
<1>1. /\ u.spdu = (IF kind \in RKind THEN p.spdu ELSE t.spdu)
      /\ u.errSpdu = (IF B THEN t.errSpdu + 1 ELSE t.errSpdu)
      /\ u.seq = p.seq /\ u.errSeq = (IF D THEN t.errSeq + 1 ELSE t.errSeq)
  <2> HIDE DEF B, D
  <2>1. u = TrackerOf(IF kind \in RKind THEN p.spdu ELSE t.spdu,
                      IF B THEN t.errSpdu + 1 ELSE t.errSpdu,
                      p.seq, IF D THEN t.errSeq + 1 ELSE t.errSeq)
    BY TrackedIs DEF B, D
  <2> QED
    BY <2>1 DEF TrackerOf
<1>2. SeqMod \in Nat \ {0}
  BY SeqModAssumption
<1>3. At(kind, u, n)
  BY <1>1 DEF At, SpduAfter
<1>4. n = m + 1 => ~B
  BY PlusOne DEF SpduMissed, At, SpduAfter
<1>5. CASE IsGooseKind(kind)
  <2>1. t.seq = m % SeqMod /\ p.seq = n % SeqMod
    BY <1>5 DEF At, SeqOf
  <2>2. Plus(t.seq, 1) = (m + 1) % SeqMod
    BY <2>1, PlusOne
  <2>3. D <=> p.seq # t.seq /\ p.seq # Plus(t.seq, 1)
    BY <1>5 DEF SeqMissed
  <2> HIDE DEF B, D
  <2>4. m % SeqMod # n % SeqMod
    <3>1. n < m + SeqMod
      BY <1>2
    <3> QED
      BY <1>2, <3>1, ModApart
  <2>5. ASSUME n # m + 1 PROVE (m + 1) % SeqMod # n % SeqMod
    <3> DEFINE k == m + 1
    <3>1. k \in Nat /\ k < n /\ n < k + SeqMod
      BY <1>2, <2>5
    <3> HIDE DEF k
    <3>2. k % SeqMod # n % SeqMod
      BY <1>2, <3>1, ModApart
    <3> QED
      BY <3>2 DEF k
  <2>6. D <=> n # m + 1
    BY <2>1, <2>2, <2>3, <2>4, <2>5
  <2> QED
    BY <1>1, <1>3, <1>4, <2>6
<1>6. CASE ~IsGooseKind(kind)
  <2>1. n = m + 1 => ~D
    BY <1>6, NextSample DEF SeqMissed, At
  <2> HIDE DEF B, D
  <2> QED
    BY <1>1, <1>3, <1>4, <1>6, <2>1
<1> QED
  BY <1>5, <1>6
-----------------------------------------------------------------------------
(* What the processor makes of the frame on the wire.                      *)

\* A stream is found by the number of its entries or ASDUs too.
LEMMA FoundNum ==
  ASSUME NEW kind, NEW p, NEW t \in Found(kind, p)
  PROVE  p.num = NumOf(kind)
<1> DEFINE pass == PassportOf(kind, t)
<1>1. \A x \in DOMAIN pass : pass[x] = p[x]
  BY DEF Found
<1>2. "num" \in DOMAIN pass /\ pass.num = NumOf(kind)
  BY DEF PassportOf, NumOf
<1> HIDE DEF pass
<1> QED
  BY <1>1, <1>2

\* The numbers of the frame on the wire.
LEMMA WireIed ==
  ASSUME SenderInv, NEW w, WireOK(w)
  PROVE  /\ w.s \in Stream /\ w.s \in Nat /\ w.n \in Nat \ {0}
         /\ NumOK(run.kind, w.i) /\ w.i.spdu \in SeqNum
         /\ w.i.spdu = SpduAfter(run.kind, w.n) /\ w.i.num = SeqOf(run.kind, w.n)
<1> DEFINE kind == run.kind
           n == w.n
           l == n - 1
           num == AsduNum(kind)
           freq == SmpFreq[AsduNum(kind)]
           a == l * num
<1>1. w.s \in Stream /\ w.s \in Nat /\ n \in Nat \ {0}
  BY FrameAssumption, BoundType DEF WireOK, SenderInv
<1>2. num \in Nat \ {0} /\ freq \in Nat \ {0}
  BY FrequencyType
<1>3. w.i = SentIed(kind, n)
  BY DEF WireOK
<1>4. /\ w.i.spdu = SpduAfter(kind, n)
      /\ w.i.num = IF IsGooseKind(kind) THEN n % SeqMod ELSE SampleOf(kind, l)
  BY <1>3 DEF SentIed
<1>5. l \in Nat /\ SpduAfter(kind, n) \in SeqNum /\ n % SeqMod \in SeqNum
  BY <1>1, IedType
<1>6. SampleOf(kind, l) = a % freq
  BY DEF SampleOf
<1> HIDE DEF num, freq, n
<1>7. a \in Nat
  BY <1>2, <1>5
<1> HIDE DEF a, l, kind
<1>8. a % freq \in Nat
  BY <1>2, <1>7
<1>9. n % SeqMod \in Nat
  BY <1>5, SeqModAssumption DEF SeqNum
<1>10. NumOK(kind, w.i)
  BY <1>4, <1>6, <1>7, <1>8, <1>9 DEF NumOK, freq
<1>11. w.i.num = SeqOf(kind, n)
  BY <1>1, <1>4 DEF SeqOf, l
<1> QED
  BY <1>1, <1>4, <1>5, <1>10, <1>11 DEF n, kind

\* What is known of the result of the parser.
Reading(w, p) ==
  LET proto == get_proto_type(w.frame) IN
  /\ p.err = "OK" =>
       /\ proto = ProtoOf(run.kind)
       /\ p.spdu \in SeqNum /\ p.seq \in Nat
       /\ Found(run.kind, p) \subseteq {w.s}
       /\ NameIsCut(run.kind, w.s) => Found(run.kind, p) = {}
       /\ run.rx # "none" => run.tx = run.rx /\ GenuineIs(w.i, p)
  /\ w.state = "intact" /\ run.tx = run.rx =>
       p.err = "OK" /\ GenuineIs(w.i, p) /\ (~NameIsCut(run.kind, w.s) => w.s \in Found(run.kind, p))
  /\ w.state = "intact" /\ run.rx # "none" /\ run.tx # run.rx =>
       p.err = "AUTH" /\ proto # "NON_BUS"

\* An intact frame is also one with at most one field altered.
LEMMA L2NearOf ==
  ASSUME NEW kind, NEW s, NEW i, NEW f, f = SentL2(kind, s, i)
  PROVE  NearL2(kind, s, i, f)
BY DEF SentL2, L2Frame, NearL2, L2Of, NearApdu

\* The NIC finds no fault in an intact frame.
LEMMA OffloadOk ==
  ASSUME NEW f, ipv4_checksum_ok(f.ip)
  PROVE  OlFlags(f) # "bad"
BY DEF OlFlags

\* L2 frames on the wire.
LEMMA L2Reading ==
  ASSUME SenderInv, run.kind \notin RKind, NEW w, WireOK(w),
         NEW p \in Parse(w.frame, run.rx, OlFlags(w.frame))
  PROVE  Reading(w, p)
<1> DEFINE kind == run.kind
           s == w.s
           i == w.i
           f == w.frame
           ofl == OlFlags(f)
<1>1. s \in Stream /\ s \in Nat /\ NumOK(kind, i) /\ i.spdu = SpduAfter(kind, w.n)
  BY WireIed
<1>2. kind \in L2Kind /\ run.tx = "none" /\ run.rx = "none"
  BY RunType DEF SenderInv, AnyKind
<1>3. NearL2(kind, s, i, f) /\ (w.state = "intact" => f = SentL2(kind, s, i))
  BY L2NearOf DEF WireOK, OnWire
<1>4. ProtoOf(kind) = PayloadOf(kind)
  BY DEF ProtoOf
<1> HIDE DEF ofl
<1>5. p \in Parse(f, run.rx, ofl)
  BY DEF ofl
<1>6. ASSUME p.err = "OK"
      PROVE  /\ get_proto_type(f) = ProtoOf(kind) /\ p.spdu \in SeqNum /\ p.seq \in Nat
             /\ Found(kind, p) \subseteq {s}
             /\ NameIsCut(kind, s) => Found(kind, p) = {}
  <2>1. get_proto_type(f) = PayloadOf(kind) /\ ReadAs(kind, s, p)
    BY <1>1, <1>2, <1>3, <1>5, <1>6, L2Accepted
  <2>2. (\A t \in Found(kind, p) : t = s) /\ (NameIsCut(kind, s) => Found(kind, p) = {})
    BY <1>1, <2>1, FoundOnly, CutNotFound DEF ReadAs
  <2> QED
    BY <1>4, <2>1, <2>2 DEF ReadAs
<1>7. ASSUME w.state = "intact"
      PROVE  p.err = "OK" /\ GenuineIs(i, p) /\ (~NameIsCut(kind, s) => s \in Found(kind, p))
  <2>1. p = SentState(kind, s, i)
    BY <1>1, <1>2, <1>3, <1>5, <1>7, L2Read
  <2>2. p.err = "OK" /\ p.seq = i.num /\ p.spdu = 0
    BY <2>1 DEF SentState
  <2>3. ~NameIsCut(kind, s) => s \in Found(kind, p)
    BY <1>1, <2>1, SentFound
  <2> QED
    BY <1>1, <2>2, <2>3 DEF GenuineIs, SpduAfter
<1> QED
  BY <1>2, <1>6, <1>7 DEF Reading

\* Routable frames on the wire.
LEMMA RReading ==
  ASSUME SenderInv, run.kind \in RKind, NEW w, WireOK(w),
         NEW p \in Parse(w.frame, run.rx, OlFlags(w.frame))
  PROVE  Reading(w, p)
<1> DEFINE kind == run.kind
           tx == run.tx
           rx == run.rx
           s == w.s
           i == w.i
           f == w.frame
           ofl == OlFlags(f)
<1>1. s \in Stream /\ s \in Nat /\ NumOK(kind, i) /\ i.spdu \in SeqNum
  BY WireIed
<1>2. kind \in AnyKind /\ tx \in SecurityMode /\ rx \in SecurityMode
  BY RunType DEF SenderInv
<1>3. ProtoOf(kind) = SessionOf(kind) /\ ProtoOf(kind) # "NON_BUS"
  BY <1>2, ProtoIs DEF ProtoOf
<1>4. /\ w.state = "intact" => IntactParts(kind, tx, s, i, f)
      /\ PartsOf(kind, tx, s, i, f)
  BY IntactPartsOf, NearPartsOf DEF WireOK, OnWire
<1>5. w.state = "intact" => ofl # "bad"
  <2> SUFFICES ASSUME w.state = "intact" PROVE ofl # "bad"
    OBVIOUS
  <2>1. f.ip = SentIp(tx, s)
    BY <1>4 DEF IntactParts
  <2>2. ipv4_checksum_ok(f.ip)
    BY <2>1, ChecksumOk
  <2> QED
    BY <2>2, OffloadOk
<1> HIDE DEF ofl
<1>6. p \in Parse(f, rx, ofl)
  BY DEF ofl
<1>7. ASSUME p.err = "OK"
      PROVE  /\ get_proto_type(f) = ProtoOf(kind) /\ p.spdu \in SeqNum /\ p.seq \in Nat
             /\ Found(kind, p) \subseteq {s}
             /\ NameIsCut(kind, s) => Found(kind, p) = {}
             /\ rx # "none" => tx = rx /\ GenuineIs(i, p)
  <2>1. get_proto_type(f) = SessionOf(kind) /\ ReadAs(kind, s, p)
    BY <1>1, <1>4, <1>6, <1>7, RAccepted
  <2>2. (\A t \in Found(kind, p) : t = s) /\ (NameIsCut(kind, s) => Found(kind, p) = {})
    BY <1>1, <2>1, FoundOnly, CutNotFound DEF ReadAs
  <2>3. ASSUME rx # "none" PROVE tx = rx /\ GenuineIs(i, p)
    <3>1. rx \in {"hmac", "gcm"}
      BY <1>2, <2>3 DEF SecurityMode
    <3> QED
      BY <1>1, <1>2, <1>4, <1>6, <1>7, <3>1, VerifiedIsGenuine
  <2> QED
    BY <1>3, <2>1, <2>2, <2>3 DEF ReadAs
<1>8. ASSUME w.state = "intact", tx = rx
      PROVE  p.err = "OK" /\ GenuineIs(i, p) /\ (~NameIsCut(kind, s) => s \in Found(kind, p))
  <2>1. p = SentState(kind, s, i)
    BY <1>1, <1>2, <1>4, <1>5, <1>6, <1>8, RRead
  <2>2. p.err = "OK" /\ p.seq = i.num /\ p.spdu = i.spdu
    BY <2>1 DEF SentState
  <2>3. ~NameIsCut(kind, s) => s \in Found(kind, p)
    BY <1>1, <2>1, SentFound
  <2> QED
    BY <2>2, <2>3 DEF GenuineIs
<1>9. ASSUME w.state = "intact", rx # "none", tx # rx
      PROVE  p.err = "AUTH" /\ get_proto_type(f) # "NON_BUS"
  <2>1. rx \in {"hmac", "gcm"}
    BY <1>2, <1>9 DEF SecurityMode
  <2>2. p.err = "AUTH"
    BY <1>2, <1>4, <1>5, <1>6, <1>9, <2>1, ROther
  <2>3. get_proto_type(f) = SessionOf(kind)
    BY <1>4, <1>5, <1>9, EnvelopeOk
  <2> QED
    BY <1>3, <2>2, <2>3
<1> QED
  BY <1>7, <1>8, <1>9 DEF Reading

\* Every frame on the wire.
LEMMA WireRead ==
  ASSUME SenderInv, NEW w, WireOK(w), NEW p \in Parse(w.frame, run.rx, OlFlags(w.frame))
  PROVE  Reading(w, p)
BY L2Reading, RReading
-----------------------------------------------------------------------------
(* The processor.                                                          *)

\* The frames of a stream under way.
InFlight(s) == IF wire # << >> /\ wire[1].s = s THEN 1 ELSE 0

\* No frame is counted or told twice, nor before it was sent: t is the tracker
\* of a stream, m its newest frame, g its gaps, n the frames sent, x those on
\* the way.
Bounded(t, m, g, n, x) ==
  /\ t \in TrackerType /\ m \in Nat /\ g \in Nat /\ n \in Nat
  /\ t.errSpdu + x <= n /\ t.errSeq + x <= n /\ m + x <= n /\ g + x <= n

\* The tracker is where the newest frame leaves it, and tells losses.
Told(kind, t, m, g, n) ==
  /\ At(kind, t, m)
  /\ n - m <= SeqMod - 1
  /\ t.errSpdu <= g /\ t.errSeq <= g
  /\ IsGooseKind(kind) => t.errSeq = g

CountersTell ==
  /\ cut \in Nat /\ cut <= Rejected
  /\ run.tx = run.rx => Rejected <= altered + cut
  /\ run.rx # "none" /\ run.tx # run.rx => Accepted = 0 /\ Rejected <= cnt["errAuth"] + altered

StreamBounded(s) == Bounded(tracker[s], newest[s], gaps[s], sent[s], InFlight(s))
StreamTold(s) == Told(run.kind, tracker[s], newest[s], gaps[s], sent[s])

ReceiverInv ==
  /\ cnt \in [Counter -> Nat]
  /\ DOMAIN tracker = Stream /\ newest \in [Stream -> Nat] /\ DOMAIN gaps = Stream
  /\ CountersTell
  /\ \A s \in Stream : StreamBounded(s)
  /\ Trusted => \A s \in Stream : StreamTold(s)
\* The counter of a frame.
LEMMA CounterIs ==
  ASSUME NEW proto, NEW err, NEW known, known \in BOOLEAN,
         NEW c, c = CounterOf(proto, err, known)
  PROVE  /\ c \in Counter
         /\ proto # "NON_BUS" /\ err = "OK" /\ known => c \in {"rxGoose", "rxSV"}
         /\ err # "OK" \/ ~known => c \notin {"rxGoose", "rxSV"}
         /\ proto # "NON_BUS" /\ err = "AUTH" => c = "errAuth"
BY DEF CounterOf, Counter

\* One counter counts.
LEMMA OneCounter ==
  ASSUME cnt \in [Counter -> Nat], NEW c \in Counter, cnt' = [cnt EXCEPT ![c] = @ + 1]
  PROVE  /\ cnt' \in [Counter -> Nat]
         /\ Accepted' = IF c \in {"rxGoose", "rxSV"} THEN Accepted + 1 ELSE Accepted
         /\ Rejected' = IF c \in {"rxGoose", "rxSV"} THEN Rejected ELSE Rejected + 1
         /\ cnt'["errAuth"] = IF c = "errAuth" THEN cnt["errAuth"] + 1 ELSE cnt["errAuth"]
         /\ Accepted \in Nat /\ Rejected \in Nat /\ cnt["errAuth"] \in Nat
<1>1. cnt' \in [Counter -> Nat]
  OBVIOUS
<1>2. \A d \in Counter : cnt'[d] = (IF d = c THEN cnt[d] + 1 ELSE cnt[d]) /\ cnt[d] \in Nat
  OBVIOUS
<1> DEFINE old(d) == cnt[d]
           new(d) == cnt'[d]
<1>3. /\ new("rxGoose") = (IF "rxGoose" = c THEN old("rxGoose") + 1 ELSE old("rxGoose"))
      /\ new("rxSV") = (IF "rxSV" = c THEN old("rxSV") + 1 ELSE old("rxSV"))
      /\ new("unknownGoose") = (IF "unknownGoose" = c THEN old("unknownGoose") + 1 ELSE old("unknownGoose"))
      /\ new("unknownSV") = (IF "unknownSV" = c THEN old("unknownSV") + 1 ELSE old("unknownSV"))
      /\ new("errGoose") = (IF "errGoose" = c THEN old("errGoose") + 1 ELSE old("errGoose"))
      /\ new("errSV") = (IF "errSV" = c THEN old("errSV") + 1 ELSE old("errSV"))
      /\ new("errAuth") = (IF "errAuth" = c THEN old("errAuth") + 1 ELSE old("errAuth"))
      /\ new("toKernel") = (IF "toKernel" = c THEN old("toKernel") + 1 ELSE old("toKernel"))
  BY <1>2 DEF Counter
<1>4. /\ old("rxGoose") \in Nat /\ old("rxSV") \in Nat /\ old("unknownGoose") \in Nat
      /\ old("unknownSV") \in Nat /\ old("errGoose") \in Nat /\ old("errSV") \in Nat
      /\ old("errAuth") \in Nat /\ old("toKernel") \in Nat
  BY <1>2 DEF Counter
<1>5. /\ Rejected = old("unknownGoose") + old("unknownSV") + old("errGoose") + old("errSV")
                      + old("errAuth") + old("toKernel")
      /\ Accepted = old("rxGoose") + old("rxSV")
      /\ Rejected' = new("unknownGoose") + new("unknownSV") + new("errGoose") + new("errSV")
                      + new("errAuth") + new("toKernel")
      /\ Accepted' = new("rxGoose") + new("rxSV")
      /\ cnt["errAuth"] = old("errAuth") /\ cnt'["errAuth"] = new("errAuth")
  BY DEF Rejected, Accepted
<1> HIDE DEF old, new
<1>6. c \in Counter
  OBVIOUS
<1>7. /\ c \in {"rxGoose", "rxSV"} =>
           /\ Accepted' = Accepted + 1 /\ Rejected' = Rejected
           /\ cnt'["errAuth"] = cnt["errAuth"]
      /\ Accepted \in Nat /\ Rejected \in Nat /\ cnt["errAuth"] \in Nat
  BY <1>3, <1>4, <1>5
<1>8. /\ c \in {"unknownGoose", "unknownSV", "errGoose", "errSV", "toKernel"} =>
           /\ Accepted' = Accepted /\ Rejected' = Rejected + 1
           /\ cnt'["errAuth"] = cnt["errAuth"]
      /\ c = "errAuth" =>
           /\ Accepted' = Accepted /\ Rejected' = Rejected + 1
           /\ cnt'["errAuth"] = cnt["errAuth"] + 1
  BY <1>3, <1>4, <1>5
<1> QED
  BY <1>1, <1>6, <1>7, <1>8 DEF Counter

\* The steps of a frame: what Receive does, with its result and receivers.
Received(w, p, to) ==
  /\ w.state \in {"intact", "altered"}
  /\ p \in Parse(w.frame, run.rx, OlFlags(w.frame))
  /\ to = (IF p.err = "OK" THEN Found(run.kind, p) ELSE {})
  /\ cnt' = [cnt EXCEPT ![CounterOf(get_proto_type(w.frame), p.err, to # {})] = @ + 1]
  /\ tracker' = [t \in Stream |->
       IF t \in to THEN Tracked(tracker[t], get_proto_type(w.frame), p) ELSE tracker[t]]
  /\ newest' = [t \in Stream |->
       IF t \notin to THEN newest[t]
       ELSE IF t = w.s /\ Genuine(w, get_proto_type(w.frame), p) THEN w.n ELSE 0]
  /\ gaps' = [t \in Stream |->
       IF t \in to /\ w.n # newest[t] + 1 THEN gaps[t] + 1 ELSE gaps[t]]
  /\ altered' = (IF w.state = "intact" THEN altered ELSE altered + 1)
  /\ cut' = (IF NameIsCut(run.kind, w.s) THEN cut + 1 ELSE cut)

\* The counters.
LEMMA ReceiveCounts ==
  ASSUME SenderInv, ReceiverInv, UNCHANGED sender, NEW w, WireOK(w), NEW p, NEW to,
         Received(w, p, to)
  PROVE  CountersTell' /\ cnt' \in [Counter -> Nat]
<1> DEFINE proto == get_proto_type(w.frame)
           known == to # {}
           c == CounterOf(proto, p.err, known)
<1>1. Reading(w, p)
  BY WireRead DEF Received
<1>2. /\ c \in Counter
      /\ proto # "NON_BUS" /\ p.err = "OK" /\ known => c \in {"rxGoose", "rxSV"}
      /\ p.err # "OK" \/ ~known => c \notin {"rxGoose", "rxSV"}
      /\ proto # "NON_BUS" /\ p.err = "AUTH" => c = "errAuth"
  <2>1. known \in BOOLEAN
    OBVIOUS
  <2> HIDE DEF known, proto
  <2> QED
    BY <2>1, CounterIs
<1>3. cnt \in [Counter -> Nat] /\ cnt' = [cnt EXCEPT ![c] = @ + 1]
  BY DEF ReceiverInv, Received
<1>4. p.err = "OK" => proto # "NON_BUS"
  BY <1>1, RunType, ProtoIs DEF Reading, SenderInv
<1> DEFINE short == NameIsCut(run.kind, w.s)
<1>5. /\ w.state = "intact" /\ run.tx = run.rx /\ ~short => p.err = "OK" /\ known
      /\ short => ~known
  BY <1>1 DEF Reading, Received
<1>6. run.rx # "none" /\ run.tx # run.rx => p.err # "OK"
  BY <1>1 DEF Reading
<1>7. w.state = "intact" /\ run.rx # "none" /\ run.tx # run.rx => p.err = "AUTH" /\ proto # "NON_BUS"
  BY <1>1 DEF Reading
<1> HIDE DEF proto, known, c, short
<1>8. /\ cnt' \in [Counter -> Nat]
      /\ Accepted' = IF c \in {"rxGoose", "rxSV"} THEN Accepted + 1 ELSE Accepted
      /\ Rejected' = IF c \in {"rxGoose", "rxSV"} THEN Rejected ELSE Rejected + 1
      /\ cnt'["errAuth"] = IF c = "errAuth" THEN cnt["errAuth"] + 1 ELSE cnt["errAuth"]
      /\ Accepted \in Nat /\ Rejected \in Nat /\ cnt["errAuth"] \in Nat
  BY <1>2, <1>3, OneCounter
<1>9. altered \in Nat /\ altered' = (IF w.state = "intact" THEN altered ELSE altered + 1) /\ run' = run
  BY BoundType DEF SenderInv, Received, sender
<1>10. CountersTell
  BY DEF ReceiverInv
<1>11. cut \in Nat /\ cut' = (IF short THEN cut + 1 ELSE cut)
  BY <1>10 DEF CountersTell, Received, short
<1>12. cut' \in Nat /\ cut' <= Rejected'
  BY <1>2, <1>5, <1>8, <1>10, <1>11 DEF CountersTell
<1>13. run.tx = run.rx => Rejected' <= altered' + cut'
  BY <1>2, <1>4, <1>5, <1>8, <1>9, <1>10, <1>11 DEF CountersTell
<1>14. run.rx # "none" /\ run.tx # run.rx => Accepted' = 0 /\ Rejected' <= cnt'["errAuth"] + altered'
  BY <1>2, <1>6, <1>7, <1>8, <1>9, <1>10 DEF CountersTell
<1> QED
  BY <1>8, <1>9, <1>12, <1>13, <1>14 DEF CountersTell
\* A processor that is trusted after a frame was so before, and what it was
\* given is genuine.
LEMMA TrustedBefore ==
  ASSUME SenderInv, run' = run, NEW w, WireOK(w), NEW p, Reading(w, p),
         w.s \in Found(run.kind, p), p.err = "OK",
         altered' = (IF w.state = "intact" THEN altered ELSE altered + 1), Trusted'
  PROVE  GenuineIs(w.i, p)
<1>1. run.tx = run.rx /\ (run.rx # "none" \/ altered' = 0)
  BY DEF Trusted
<1>2. altered \in Nat
  BY BoundType DEF SenderInv
<1>3. CASE run.rx # "none"
  BY <1>3 DEF Reading
<1>4. CASE run.rx = "none"
  <2>1. w.state = "intact"
    BY <1>1, <1>2, <1>4
  <2> QED
    BY <1>1, <2>1 DEF Reading
<1> QED
  BY <1>3, <1>4

\* Trust is never regained.
LEMMA TrustedStays ==
  ASSUME SenderInv, run' = run, altered' \in {altered, altered + 1}, Trusted'
  PROVE  Trusted
<1>1. altered \in Nat
  BY BoundType DEF SenderInv
<1> QED
  BY <1>1 DEF Trusted

\* The stream of the frame.
LEMMA OwnStream ==
  ASSUME SenderInv, ReceiverInv, UNCHANGED sender, NEW w, wire = << w >>, WireOK(w), wire' = << >>,
         NEW p, NEW to, Received(w, p, to), NEW s, s = w.s
  PROVE  StreamBounded(s)' /\ (Trusted' => StreamTold(s)')
<1> DEFINE kind == run.kind
           proto == get_proto_type(w.frame)
           t == tracker[s]
           m == newest[s]
           g == gaps[s]
           n == w.n
<1>1. Reading(w, p)
  BY WireRead DEF Received
<1>2. /\ s \in Stream /\ n \in Nat \ {0} /\ n = sent[s]
      /\ w.i.spdu = SpduAfter(kind, n) /\ w.i.num = SeqOf(kind, n)
  BY WireIed DEF WireOK
<1>3. kind \in AnyKind
  BY RunType DEF SenderInv
<1>4. wire[1] = w /\ wire # << >>
  OBVIOUS
<1>5. Bounded(t, m, g, n, 1)
  BY <1>2, <1>4 DEF ReceiverInv, StreamBounded, InFlight
<1>6. Trusted' => Told(kind, t, m, g, n)
  <2>1. run' = run /\ altered' \in {altered, altered + 1}
    BY DEF sender, Received
  <2>2. Trusted' => Trusted
    BY <2>1, TrustedStays
  <2> QED
    BY <1>2, <2>2 DEF ReceiverInv, StreamTold
<1>7. sent' = sent /\ run' = run
  BY DEF sender
<1> DEFINE u == Tracked(t, proto, p)
<1>8. CASE s \in to
  <2>1. p.err = "OK" /\ s \in Found(kind, p)
    BY <1>8 DEF Received
  <2>2. /\ proto = ProtoOf(kind) /\ p.spdu \in SeqNum /\ p.seq \in Nat
    BY <1>1, <2>1 DEF Reading
  <2>3. /\ tracker'[s] = u
        /\ newest'[s] \in {n, 0}
        /\ gaps'[s] = (IF n # m + 1 THEN g + 1 ELSE g)
    BY <1>2, <1>8 DEF Received
  <2>4. t \in TrackerType /\ u = Tracked(t, ProtoOf(kind), p)
    BY <1>5, <2>2 DEF Bounded
  <2>5. ASSUME Trusted' PROVE GenuineIs(w.i, p) /\ newest'[s] = n
    <3>1. altered' = (IF w.state = "intact" THEN altered ELSE altered + 1)
      BY DEF Received
    <3>2. GenuineIs(w.i, p)
      BY <1>1, <1>7, <2>1, <2>5, <3>1, TrustedBefore
    <3>3. Genuine(w, proto, p)
      BY <3>2 DEF Genuine, GenuineIs
    <3> QED
      BY <1>2, <1>8, <3>2, <3>3 DEF Received
  <2>6. p.num = NumOf(kind)
    BY <2>1, FoundNum
  <2> HIDE DEF u, t, m, g, n, proto, kind
  <2>7. u \in TrackerType /\ u.errSpdu <= t.errSpdu + 1 /\ u.errSeq <= t.errSeq + 1
    BY <1>3, <2>2, <2>4, TrackedType
  <2> DEFINE g2 == IF n # m + 1 THEN g + 1 ELSE g
             m2 == newest'[s]
  <2>8. Bounded(u, m2, g2, n, 0)
    <3>1. u.errSpdu \in Nat /\ u.errSeq \in Nat /\ t.errSpdu \in Nat /\ t.errSeq \in Nat
      BY <2>4, <2>7 DEF TrackerType
    <3>2. m2 \in {n, 0}
      BY <2>3
    <3>3. n \in Nat /\ m \in Nat /\ g \in Nat /\ g + 1 <= n /\ t.errSpdu + 1 <= n /\ t.errSeq + 1 <= n
      BY <1>5 DEF Bounded
    <3> HIDE DEF m2
    <3>4. g2 \in Nat /\ g2 + 0 <= n
      BY <3>3
    <3>5. m2 \in Nat /\ m2 + 0 <= n
      BY <3>2, <3>3
    <3> DEFINE a == u.errSpdu
               b == u.errSeq
               c == t.errSpdu
               d == t.errSeq
    <3>6. /\ a \in Nat /\ b \in Nat /\ c \in Nat /\ d \in Nat
          /\ a <= c + 1 /\ b <= d + 1 /\ c + 1 <= n /\ d + 1 <= n
      BY <2>7, <3>1, <3>3
    <3> HIDE DEF a, b, c, d
    <3>7. a + 0 <= n /\ b + 0 <= n
      BY <3>3, <3>6
    <3> HIDE DEF g2
    <3> QED
      BY <2>7, <3>3, <3>4, <3>5, <3>7 DEF Bounded, a, b
  <2>9. ASSUME Trusted' PROVE Told(kind, u, n, g2, n)
    <3>1. Told(kind, t, m, g, n)
      BY <1>6, <2>9
    <3>2. p.spdu = SpduAfter(kind, n) /\ p.seq = SeqOf(kind, n)
      BY <1>2, <2>5, <2>9 DEF GenuineIs, kind, n
    <3>3. m \in Nat /\ n \in Nat /\ m < n /\ n - m <= SeqMod - 1 /\ At(kind, t, m)
      BY <1>5, <3>1 DEF Bounded, Told
    <3>4. ~IsGooseKind(kind) => p.num = AsduNum(kind)
      BY <2>6 DEF NumOf
    <3>5. /\ At(kind, u, n)
          /\ u.errSpdu = t.errSpdu \/ (n # m + 1 /\ u.errSpdu = t.errSpdu + 1)
          /\ u.errSeq = t.errSeq \/ (n # m + 1 /\ u.errSeq = t.errSeq + 1)
          /\ IsGooseKind(kind) => u.errSeq = IF n # m + 1 THEN t.errSeq + 1 ELSE t.errSeq
      BY <1>3, <2>4, <3>2, <3>3, <3>4, TrackerTells
    <3>6. t.errSpdu \in Nat /\ t.errSeq \in Nat /\ g \in Nat
      BY <1>5, <2>4 DEF TrackerType, Bounded
    <3>7. u.errSpdu <= g2 /\ u.errSeq <= g2 /\ (IsGooseKind(kind) => u.errSeq = g2)
      BY <3>1, <3>5, <3>6 DEF Told
    <3>8. n - n <= SeqMod - 1
      BY <3>3, SeqModAssumption
    <3> QED
      BY <3>5, <3>7, <3>8 DEF Told
  <2>10. InFlight(s)' = 0
    BY DEF InFlight
  <2>11. StreamBounded(s)'
    BY <1>2, <1>7, <2>3, <2>8, <2>10 DEF StreamBounded, n
  <2>12. Trusted' => StreamTold(s)'
    BY <1>2, <1>7, <2>3, <2>5, <2>9 DEF StreamTold, n, kind
  <2> QED
    BY <2>11, <2>12
<1>9. CASE s \notin to
  <2>1. tracker'[s] = t /\ newest'[s] = m /\ gaps'[s] = g
    BY <1>2, <1>9 DEF Received
  <2>2. InFlight(s)' = 0
    BY DEF InFlight
  <2> HIDE DEF t, m, g, n
  <2>3. Bounded(t, m, g, n, 0)
    <3>1. t.errSpdu \in Nat /\ t.errSeq \in Nat
      BY <1>5 DEF Bounded, TrackerType
    <3> QED
      BY <1>2, <1>5, <3>1 DEF Bounded
  <2>4. StreamBounded(s)'
    BY <1>2, <1>7, <2>1, <2>2, <2>3 DEF StreamBounded, n
  <2>5. Trusted' => StreamTold(s)'
    BY <1>2, <1>6, <1>7, <2>1 DEF StreamTold, n
  <2> QED
    BY <2>4, <2>5
<1> QED
  BY <1>8, <1>9
\* The other streams.
LEMMA OtherStream ==
  ASSUME SenderInv, ReceiverInv, UNCHANGED sender, NEW w, wire = << w >>, WireOK(w), wire' = << >>,
         NEW p, NEW to, Received(w, p, to), NEW s \in Stream, s # w.s
  PROVE  StreamBounded(s)' /\ (Trusted' => StreamTold(s)')
<1>1. Reading(w, p)
  BY WireRead DEF Received
<1>2. s \notin to
  BY <1>1 DEF Reading, Received
<1>3. tracker'[s] = tracker[s] /\ newest'[s] = newest[s] /\ gaps'[s] = gaps[s]
  BY <1>2 DEF Received
<1>4. run' = run /\ sent' = sent /\ altered' \in {altered, altered + 1}
  BY DEF sender, Received
<1>5. wire[1].s # s
  OBVIOUS
<1>6. InFlight(s)' = 0 /\ InFlight(s) = 0
  BY <1>5 DEF InFlight
<1>7. StreamBounded(s) /\ (Trusted => StreamTold(s)) /\ (Trusted' => Trusted)
  BY <1>4, TrustedStays DEF ReceiverInv
<1> QED
  BY <1>3, <1>4, <1>6, <1>7 DEF StreamBounded, StreamTold

\* What Receive does.
LEMMA ReceiveIs ==
  ASSUME SenderInv, Receive
  PROVE  \E w, p, to : /\ wire = << w >> /\ WireOK(w) /\ Received(w, p, to)
                       /\ wire' = << >> /\ UNCHANGED sender
<1>1. PICK w : wire = << w >> /\ WireOK(w)
  BY DEF Receive, SenderInv
<1>2. wire[1] = w /\ w.state \in {"intact", "altered"}
  BY <1>1 DEF WireOK
<1>3. wire' = << >> /\ UNCHANGED sender
  BY DEF Receive
<1> DEFINE v == wire[1]
           Kept(p) == IF p.err = "OK" THEN Found(run.kind, p) ELSE {}
           A(p) == cnt' = [cnt EXCEPT ![CounterOf(get_proto_type(v.frame), p.err, Kept(p) # {})] = @ + 1]
           B(p) == tracker' = [t \in Stream |->
             IF t \in Kept(p) THEN Tracked(tracker[t], get_proto_type(v.frame), p) ELSE tracker[t]]
           C(p) == newest' = [t \in Stream |->
             IF t \notin Kept(p) THEN newest[t]
             ELSE IF t = v.s /\ Genuine(v, get_proto_type(v.frame), p) THEN v.n ELSE 0]
           D(p) == gaps' = [t \in Stream |->
             IF t \in Kept(p) /\ v.n # newest[t] + 1 THEN gaps[t] + 1 ELSE gaps[t]]
           E(p) == altered' = IF v.state = "intact" THEN altered ELSE altered + 1
           G(p) == cut' = IF NameIsCut(run.kind, v.s) THEN cut + 1 ELSE cut
<1>4. PICK p \in Parse(v.frame, run.rx, OlFlags(v.frame)) : A(p) /\ B(p) /\ C(p) /\ D(p) /\ E(p) /\ G(p)
  BY Zenon DEF Receive
<1> DEFINE to == Kept(p)
<1>5. /\ v.state \in {"intact", "altered"} /\ p \in Parse(v.frame, run.rx, OlFlags(v.frame))
      /\ to = Kept(p)
  BY <1>2
<1>6. Received(v, p, to)
  BY <1>4, <1>5, Zenon DEF Received
<1> HIDE DEF v, to
<1>7. v = w
  BY <1>2 DEF v
<1> QED
  BY <1>1, <1>3, <1>6, <1>7

\* Receive keeps ReceiverInv.
LEMMA ReceiverReceive == ASSUME SenderInv, ReceiverInv, Receive PROVE ReceiverInv'
<1>1. PICK w, p, to : /\ wire = << w >> /\ WireOK(w) /\ Received(w, p, to)
                      /\ wire' = << >> /\ UNCHANGED sender
  BY ReceiveIs
<1>2. CountersTell' /\ cnt' \in [Counter -> Nat]
  BY <1>1, ReceiveCounts
<1>3. ASSUME NEW s \in Stream PROVE StreamBounded(s)' /\ (Trusted' => StreamTold(s)')
  <2>1. CASE s = w.s
    BY <1>1, <2>1, OwnStream
  <2>2. CASE s # w.s
    BY <1>1, <2>2, OtherStream
  <2> QED
    BY <2>1, <2>2
<1>4. DOMAIN tracker' = Stream /\ DOMAIN gaps' = Stream
  BY <1>1 DEF Received
<1>5. newest' \in [Stream -> Nat]
  <2>1. w.n \in Nat /\ newest \in [Stream -> Nat]
    BY <1>1, WireIed DEF ReceiverInv
  <2> QED
    BY <1>1, <2>1 DEF Received
<1> QED
  BY <1>2, <1>3, <1>4, <1>5 DEF ReceiverInv

\* A step of the wire keeps it: a frame stays one of its stream or is gone.
LEMMA ReceiverWire ==
  ASSUME SenderInv, ReceiverInv, UNCHANGED <<sender, receiver, altered, cut>>,
         \A s \in Stream : InFlight(s)' \in {InFlight(s), 0}
  PROVE  ReceiverInv'
<1>1. /\ run' = run /\ sent' = sent /\ altered' = altered
      /\ tracker' = tracker /\ cnt' = cnt /\ newest' = newest /\ gaps' = gaps
  BY DEF sender, receiver
<1>2. CountersTell' /\ (Trusted' => Trusted)
  BY <1>1 DEF ReceiverInv, CountersTell, Rejected, Accepted, Trusted
<1>3. ASSUME NEW s \in Stream PROVE StreamBounded(s)' /\ (Trusted => StreamTold(s)')
  <2> DEFINE t == tracker[s]
             m == newest[s]
             g == gaps[s]
             n == sent[s]
             x == InFlight(s)
             y == InFlight(s)'
  <2>1. Bounded(t, m, g, n, x) /\ y \in {x, 0} /\ x \in {0, 1}
    BY DEF ReceiverInv, StreamBounded, InFlight
  <2>2. StreamBounded(s)' = Bounded(t, m, g, n, y)
    BY <1>1 DEF StreamBounded
  <2>3. Trusted => StreamTold(s)'
    BY <1>1 DEF ReceiverInv, StreamTold
  <2> HIDE DEF t, m, g, n, x, y
  <2>4. Bounded(t, m, g, n, y)
    <3> DEFINE b == t.errSpdu
               d == t.errSeq
    <3>1. b \in Nat /\ d \in Nat
      BY <2>1 DEF Bounded, TrackerType
    <3>2. /\ t \in TrackerType /\ m \in Nat /\ g \in Nat /\ n \in Nat
          /\ b + x <= n /\ d + x <= n /\ m + x <= n /\ g + x <= n
      BY <2>1 DEF Bounded
    <3> HIDE DEF b, d
    <3>3. b + y <= n /\ d + y <= n /\ m + y <= n /\ g + y <= n
      BY <2>1, <3>1, <3>2
    <3> QED
      BY <3>2, <3>3 DEF Bounded, b, d
  <2> QED
    BY <2>2, <2>3, <2>4
<1> QED
  BY <1>1, <1>2, <1>3 DEF ReceiverInv

\* Send keeps it.
LEMMA ReceiverSend ==
  ASSUME SenderInv, ReceiverInv, NEW s \in Stream, NEW mb \in Mbuf, Send(s, mb)
  PROVE  ReceiverInv'
<1>1. /\ run' = run /\ altered' = altered /\ cut' = cut
      /\ tracker' = tracker /\ cnt' = cnt /\ newest' = newest /\ gaps' = gaps
  BY DEF Send, receiver
<1>2. wire = << >> /\ sent' = [sent EXCEPT ![s] = @ + 1] /\ sent[s] - newest[s] < SeqMod - 1
  BY DEF Send
<1>3. wire'[1].s = s /\ wire' # << >>
  BY DEF Send
<1>4. CountersTell' /\ (Trusted' => Trusted)
  BY <1>1 DEF ReceiverInv, CountersTell, Rejected, Accepted, Trusted
<1>5. DOMAIN sent = Stream
  BY DEF SenderInv
<1>6. ASSUME NEW q \in Stream PROVE StreamBounded(q)' /\ (Trusted => StreamTold(q)')
  <2> DEFINE t == tracker[q]
             m == newest[q]
             g == gaps[q]
             n == sent[q]
             x == IF q = s THEN 1 ELSE 0
  <2>1. InFlight(q) = 0 /\ InFlight(q)' = x
    BY <1>2, <1>3 DEF InFlight
  <2>2. sent'[q] = (IF q = s THEN n + 1 ELSE n) /\ (q = s => n - m < SeqMod - 1)
    BY <1>2, <1>5
  <2>3. Bounded(t, m, g, n, 0) /\ (Trusted => Told(run.kind, t, m, g, n))
    BY <2>1 DEF ReceiverInv, StreamBounded, StreamTold
  <2> DEFINE k == sent'[q]
  <2>4. /\ StreamBounded(q)' = Bounded(t, m, g, k, x)
        /\ StreamTold(q)' = Told(run.kind, t, m, g, k)
    BY <1>1, <2>1 DEF StreamBounded, StreamTold
  <2> HIDE DEF t, m, g, n, k
  <2>5. k = (IF q = s THEN n + 1 ELSE n)
    BY <2>2 DEF k
  <2>6. Bounded(t, m, g, k, x)
    <3> DEFINE b == t.errSpdu
               d == t.errSeq
    <3>1. b \in Nat /\ d \in Nat
      BY <2>3 DEF Bounded, TrackerType
    <3>2. /\ t \in TrackerType /\ m \in Nat /\ g \in Nat /\ n \in Nat
          /\ b + 0 <= n /\ d + 0 <= n /\ m + 0 <= n /\ g + 0 <= n
      BY <2>3 DEF Bounded
    <3> HIDE DEF b, d
    <3>3. k \in Nat /\ b + x <= k /\ d + x <= k /\ m + x <= k /\ g + x <= k
      BY <2>5, <3>1, <3>2
    <3> QED
      BY <3>2, <3>3 DEF Bounded, b, d
  <2>7. ASSUME Trusted PROVE Told(run.kind, t, m, g, k)
    <3>1. Told(run.kind, t, m, g, n) /\ m \in Nat /\ n \in Nat
      BY <2>3, <2>7 DEF Bounded
    <3>2. k - m <= SeqMod - 1
      <4>1. n - m <= SeqMod - 1
        BY <3>1 DEF Told
      <4> QED
        BY <2>2, <2>5, <3>1, <4>1, SeqModAssumption
    <3> QED
      BY <3>1, <3>2 DEF Told
  <2> QED
    BY <2>4, <2>6, <2>7
<1> QED
  BY <1>1, <1>4, <1>6 DEF ReceiverInv
\* ReceiverInv holds initially.
LEMMA ReceiverInit == Init => ReceiverInv
<1> SUFFICES ASSUME Init PROVE ReceiverInv
  OBVIOUS
<1>1. /\ wire = << >> /\ altered = 0 /\ cut = 0 /\ cnt = [c \in Counter |-> 0]
      /\ tracker = [s \in Stream |-> NewTracker]
      /\ newest = [s \in Stream |-> 0] /\ gaps = [s \in Stream |-> 0] /\ sent = [s \in Stream |-> 0]
  BY DEF Init
<1>2. NewTracker \in TrackerType /\ NewTracker.errSpdu = 0 /\ NewTracker.errSeq = 0
      /\ NewTracker.spdu = 0 /\ NewTracker.seq = 0
  BY SeqModAssumption DEF NewTracker, TrackerType, SeqNum
<1>3. cnt \in [Counter -> Nat] /\ Rejected = 0 /\ Accepted = 0 /\ cnt["errAuth"] = 0
  BY <1>1 DEF Rejected, Accepted, Counter
<1>4. CountersTell
  BY <1>1, <1>3 DEF CountersTell
<1>5. ASSUME NEW s \in Stream PROVE StreamBounded(s) /\ StreamTold(s)
  <2>1. tracker[s] = NewTracker /\ newest[s] = 0 /\ gaps[s] = 0 /\ sent[s] = 0 /\ InFlight(s) = 0
    BY <1>1 DEF InFlight
  <2>2. Bounded(NewTracker, 0, 0, 0, 0)
    BY <1>2 DEF Bounded
  <2>3. 0 % SeqMod = 0 /\ 0 - 0 <= SeqMod - 1
    BY SeqModAssumption
  <2>4. Told(run.kind, NewTracker, 0, 0, 0)
    BY <1>2, <2>3 DEF Told, At, SpduAfter, SeqOf
  <2> QED
    BY <2>1, <2>2, <2>4 DEF StreamBounded, StreamTold
<1> QED
  BY <1>1, <1>3, <1>4, <1>5 DEF ReceiverInv

\* ReceiverInv is inductive, given SenderInv.
LEMMA ReceiverNext == SenderInv /\ ReceiverInv /\ [Next]_vars => ReceiverInv'
<1> SUFFICES ASSUME SenderInv, ReceiverInv, [Next]_vars PROVE ReceiverInv'
  OBVIOUS
<1>1. CASE UNCHANGED vars
  <2>1. UNCHANGED <<sender, receiver, altered, cut>> /\ wire' = wire
    BY <1>1 DEF vars
  <2>2. \A s \in Stream : InFlight(s)' \in {InFlight(s), 0}
    BY <2>1 DEF InFlight
  <2> QED
    BY <2>1, <2>2, ReceiverWire
<1>2. ASSUME NEW s \in Stream, NEW m \in Mbuf, Send(s, m) PROVE ReceiverInv'
  BY <1>2, ReceiverSend
<1>3. CASE Lose
  <2>1. UNCHANGED <<sender, receiver, altered, cut>> /\ wire' = << >>
    BY <1>3 DEF Lose
  <2>2. \A s \in Stream : InFlight(s)' \in {InFlight(s), 0}
    BY <2>1 DEF InFlight
  <2> QED
    BY <2>1, <2>2, ReceiverWire
<1>4. CASE Pad \/ Alter
  <2>1. PICK w : wire = << w >> /\ WireOK(w)
    BY <1>4 DEF Pad, Alter, SenderInv
  <2>2. wire[1] = w
    BY <2>1
  <2>3. UNCHANGED <<sender, receiver, altered, cut>>
    BY <1>4 DEF Pad, Alter
  <2>4. \E f, x : wire' = << [w EXCEPT !.frame = f, !.state = x] >>
                  \/ wire' = << [w EXCEPT !.frame = f] >>
    BY <1>4, <2>2 DEF Pad, Alter
  <2>5. wire' # << >> /\ wire'[1].s = w.s
    <3>1. PICK f, x : wire' = << [w EXCEPT !.frame = f, !.state = x] >>
                      \/ wire' = << [w EXCEPT !.frame = f] >>
      BY <2>4
    <3>2. "s" \in DOMAIN w
      BY <2>1 DEF WireOK
    <3>3. [w EXCEPT !.frame = f, !.state = x].s = w.s /\ [w EXCEPT !.frame = f].s = w.s
      BY <3>2
    <3>4. PICK v : wire' = << v >> /\ v.s = w.s
      BY <3>1, <3>3, Zenon
    <3> QED
      BY <3>4
  <2>6. \A s \in Stream : InFlight(s)' \in {InFlight(s), 0}
    BY <2>1, <2>2, <2>5 DEF InFlight
  <2> QED
    BY <2>3, <2>6, ReceiverWire
<1>5. CASE Receive
  BY <1>5, ReceiverReceive
<1> QED
  BY <1>1, <1>2, <1>3, <1>4, <1>5 DEF Next

\* Both hold in every state.
LEMMA PathAlways == Spec => [](SenderInv /\ ReceiverInv)
BY SenderInit, SenderNext, ReceiverInit, ReceiverNext, PTL DEF Spec

\* The numbers of generator and trackers stay in their ranges, no stream's
\* tracker sees or counts more frames than were sent.
THEOREM PathTypes == Spec => []TypeOK
<1>1. SenderInv /\ ReceiverInv => TypeOK
  <2> SUFFICES ASSUME SenderInv, ReceiverInv PROVE TypeOK
    OBVIOUS
  <2>1. run \in Runs /\ cnt \in [Counter -> Nat] /\ altered \in 0 .. MaxAltered /\ cut \in Nat
    BY DEF SenderInv, ReceiverInv, CountersTell
  <2>2. Len(wire) <= 1
    <3>1. wire = << >> \/ \E w : wire = << w >>
      BY DEF SenderInv
    <3>2. CASE wire = << >>
      <4>1. Len(wire) = 0
        BY <3>2
      <4> QED
        BY <4>1
    <3>3. CASE \E w : wire = << w >>
      <4>1. PICK w : wire = << w >>
        BY <3>3
      <4>2. Len(wire) = 1
        BY <4>1
      <4> QED
        BY <4>2
    <3> QED
      BY <3>1, <3>2, <3>3
  <2>3. ASSUME NEW s \in Stream
        PROVE  /\ ied[s].spdu \in SeqNum
               /\ ied[s].num \in IF IsGooseKind(run.kind) THEN SeqNum
                                 ELSE 0 .. SmpFreq[AsduNum(run.kind)] - 1
               /\ sent[s] \in 0 .. MaxSent[s]
    <3> DEFINE n == sent[s]
               kind == run.kind
    <3>1. n \in Nat /\ n \in 0 .. MaxSent[s] /\ ied[s] = IedAfter(kind, n)
      BY BoundType DEF SenderInv
    <3>2. /\ SpduAfter(kind, n) \in SeqNum /\ n % SeqMod \in SeqNum
          /\ SampleOf(kind, n) \in 0 .. SmpFreq[AsduNum(kind)] - 1
      BY <3>1, IedType
    <3> HIDE DEF n, kind
    <3>3. /\ ied[s].spdu = SpduAfter(kind, n)
          /\ ied[s].num = IF IsGooseKind(kind) THEN n % SeqMod ELSE SampleOf(kind, n)
      BY <3>1 DEF IedAfter
    <3> QED
      BY <3>1, <3>2, <3>3 DEF n, kind
  <2>4. ASSUME NEW s \in Stream
        PROVE  /\ tracker[s] \in [spdu : SeqNum, errSpdu : 0 .. MaxSent[s], seq : Nat,
                                  errSeq : 0 .. MaxSent[s]]
               /\ newest[s] \in 0 .. sent[s] /\ gaps[s] \in 0 .. sent[s]
    <3> DEFINE t == tracker[s]
               m == newest[s]
               g == gaps[s]
               n == sent[s]
               x == InFlight(s)
               a == t.errSpdu
               b == t.errSeq
               M == MaxSent[s]
    <3>1. Bounded(t, m, g, n, x) /\ x \in {0, 1} /\ n \in 0 .. M /\ M \in Nat
      BY BoundType DEF ReceiverInv, StreamBounded, InFlight, SenderInv
    <3>2. t \in TrackerType
      BY <3>1 DEF Bounded
    <3>3. a \in Nat /\ b \in Nat /\ t.spdu \in SeqNum /\ t.seq \in Nat
          /\ t = TrackerOf(t.spdu, a, t.seq, b)
      BY <3>2 DEF TrackerType, TrackerOf
    <3>4. /\ m \in Nat /\ g \in Nat /\ n \in Nat
          /\ a + x <= n /\ b + x <= n /\ m + x <= n /\ g + x <= n
      BY <3>1 DEF Bounded
    <3> HIDE DEF t, m, g, n, x, a, b, M
    <3>5. a \in 0 .. M /\ b \in 0 .. M /\ m \in 0 .. n /\ g \in 0 .. n
      BY <3>1, <3>3, <3>4
    <3>6. t \in [spdu : SeqNum, errSpdu : 0 .. M, seq : Nat, errSeq : 0 .. M]
      BY <3>3, <3>5 DEF TrackerOf
    <3> QED
      BY <3>5, <3>6 DEF t, m, g, n, M
  <2> QED
    BY <2>1, <2>2, <2>3, <2>4 DEF TypeOK
<1> QED
  BY <1>1, PathAlways, PTL

\* Generator and processor of the same mode understand each other, for up to
\* 65536 streams of a kind: the counters of rejected frames together never exceed
\* the frames that arrived altered or belong to an SV stream from number 10000
\* on.  Of the latter every frame is rejected, in any mode (SVID{:04} of the
\* processor against the four bytes AmendPacket copies).
THEOREM SameModeAccepts == Spec => []RejectedAreAlteredOrCut
<1>1. ReceiverInv => RejectedAreAlteredOrCut
  BY DEF ReceiverInv, CountersTell, RejectedAreAlteredOrCut
<1> QED
  BY <1>1, PathAlways, PTL

\* A processor that verifies accepts nothing of a generator of another mode, and
\* m_errAuth counts every intact frame of it.
THEOREM OtherModeFails == Spec => []OtherModeIsRejected
<1>1. SenderInv /\ ReceiverInv => OtherModeIsRejected
  <2> SUFFICES ASSUME SenderInv, ReceiverInv, run.rx # "none" /\ run.tx # run.rx
               PROVE  Accepted = 0 /\ Rejected - altered <= cnt["errAuth"]
    BY DEF OtherModeIsRejected
  <2>1. Accepted = 0 /\ Rejected <= cnt["errAuth"] + altered
    BY DEF ReceiverInv, CountersTell
  <2>2. Rejected \in Nat /\ cnt["errAuth"] \in Nat /\ altered \in Nat
    BY BoundType DEF ReceiverInv, SenderInv, Counter, Rejected
  <2> QED
    BY <2>1, <2>2
<1> QED
  BY <1>1, PathAlways, PTL

\* The error counters of the trackers tell of losses only, and for GOOSE of every
\* run of losses exactly once, across the wrap of stNum and the SPDU number and
\* the restart of smpCnt, as long as what arrives can be trusted.
THEOREM TrackersTellLosses == Spec => []GapsTellLosses
<1>1. ReceiverInv => GapsTellLosses
  <2> SUFFICES ASSUME ReceiverInv, Trusted, NEW s \in Stream
               PROVE  /\ Gaps(tracker[s]) <= gaps[s]
                      /\ IsGooseKind(run.kind) => Gaps(tracker[s]) = gaps[s]
    BY DEF GapsTellLosses
  <2> DEFINE t == tracker[s]
             g == gaps[s]
             a == t.errSpdu
             b == t.errSeq
  <2>1. a \in Nat /\ b \in Nat /\ g \in Nat
    BY DEF ReceiverInv, StreamBounded, Bounded, TrackerType
  <2>2. a <= g /\ b <= g /\ (IsGooseKind(run.kind) => b = g)
    BY DEF ReceiverInv, StreamTold, Told
  <2>3. Gaps(t) = IF b > a THEN b ELSE a
    BY DEF Gaps
  <2> HIDE DEF a, b, g, t
  <2>4. Gaps(t) <= g /\ (IsGooseKind(run.kind) => Gaps(t) = g)
    BY <2>1, <2>2, <2>3
  <2> QED
    BY <2>4 DEF t, g
<1> QED
  BY <1>1, PathAlways, PTL

\* Every stream is handed its own frames only, each once, in the order of
\* sending and with the numbers it was sent with, whatever field was altered on
\* the way: a step of the path is one of StreamDelivery, or changes neither
\* what was sent nor what was seen.
THEOREM PathDelivers == Spec => DeliversGenuine
<1>1. SenderInv /\ ReceiverInv /\ [Next]_vars => [Trusted' => Delivery!Next]_<<sent, newest>>
  <2> SUFFICES ASSUME SenderInv, ReceiverInv, [Next]_vars
               PROVE  [Trusted' => Delivery!Next]_<<sent, newest>>
    OBVIOUS
  <2>1. CASE UNCHANGED vars
    BY <2>1 DEF vars, sender, receiver
  <2>2. ASSUME NEW s \in Stream, NEW m \in Mbuf, Send(s, m) PROVE Delivery!Next
    <3>1. sent' = [sent EXCEPT ![s] = @ + 1] /\ newest' = newest
      BY <2>2 DEF Send, receiver
    <3> QED
      BY <3>1 DEF Delivery!Next, Delivery!Publish
  <2>3. CASE Lose \/ Pad \/ Alter
    BY <2>3 DEF Lose, Pad, Alter, sender, receiver
  <2>4. ASSUME Receive, Trusted' PROVE Delivery!Next \/ UNCHANGED <<sent, newest>>
    <3>1. PICK w, p, to : /\ wire = << w >> /\ WireOK(w) /\ Received(w, p, to)
                          /\ wire' = << >> /\ UNCHANGED sender
      BY <2>4, ReceiveIs
    <3>2. Reading(w, p)
      BY <3>1, WireRead DEF Received
    <3> DEFINE s == w.s
               n == w.n
    <3>3. s \in Stream /\ n \in Nat \ {0} /\ n = sent[s]
      BY <3>1, WireIed DEF WireOK
    <3>4. run' = run /\ sent' = sent
      BY <3>1 DEF sender
    <3>5. DOMAIN newest = Stream
      BY DEF ReceiverInv
    <3>6. newest[s] \in Nat /\ newest[s] < n
      <4> DEFINE k == newest[s]
      <4>1. wire[1].s = s /\ wire # << >>
        BY <3>1
      <4>2. InFlight(s) = 1
        BY <4>1 DEF InFlight
      <4>3. k \in Nat /\ k + 1 <= n
        BY <3>3, <4>2 DEF ReceiverInv, StreamBounded, Bounded
      <4> HIDE DEF k, n
      <4>4. k < n
        BY <3>3, <4>3
      <4> QED
        BY <4>3, <4>4 DEF k
    <3>7. CASE s \in to
      <4>1. p.err = "OK" /\ s \in Found(run.kind, p) /\ to \subseteq {s}
        BY <3>1, <3>2, <3>7 DEF Received, Reading
      <4>2. altered' = (IF w.state = "intact" THEN altered ELSE altered + 1)
        BY <3>1 DEF Received
      <4>3. GenuineIs(w.i, p)
        BY <2>4, <3>1, <3>2, <3>4, <4>1, <4>2, TrustedBefore
      <4>4. Genuine(w, get_proto_type(w.frame), p)
        BY <4>3 DEF Genuine, GenuineIs
      <4>5. newest' = [t \in Stream |-> IF t = s THEN n ELSE newest[t]]
        BY <3>1, <3>7, <4>1, <4>4 DEF Received
      <4>6. newest' = [newest EXCEPT ![s] = n]
        BY <3>3, <3>5, <4>5
      <4>7. n \in 1 .. sent[s] /\ n <= sent[s]
        BY <3>3
      <4>8. Delivery!Deliver(s, n)
        BY <3>4, <3>6, <4>6, <4>7 DEF Delivery!Deliver
      <4> QED
        BY <3>3, <4>7, <4>8 DEF Delivery!Next
    <3>8. CASE s \notin to
      <4>1. to = {}
        BY <3>1, <3>2, <3>8 DEF Received, Reading
      <4>2. newest' = [t \in Stream |-> newest[t]]
        BY <3>1, <4>1 DEF Received
      <4>3. newest' = newest
        <5>1. newest = [t \in Stream |-> newest[t]]
          BY DEF ReceiverInv
        <5> QED
          BY <4>2, <5>1
      <4> QED
        BY <3>4, <4>3
    <3> QED
      BY <3>7, <3>8
  <2> QED
    BY <2>1, <2>2, <2>3, <2>4 DEF Next
<1> QED
  BY <1>1, PathAlways, PTL DEF Spec, DeliversGenuine

-----------------------------------------------------------------------------
(* The stream lookup between the parser and the trackers: as long as no    *)
(* two streams of a command line have the same APPID, AppIdContainer is a  *)
(* map from passports to sources, for every number of APPIDs and every set *)
(* of command lines.                                                       *)
(*                                                                         *)
(* RegisterInv is not inductive: an APPID that was never inserted must     *)
(* keep the mark SIZE_MAX, which no index reaches, or the next insertion   *)
(* would make its stale index valid.                                       *)

\* What Init has to register never changes and has unique APPIDs.
StreamsInv ==
  /\ streams \in Seq(Passport)
  /\ Len(streams) <= SIZE_MAX
  /\ \A i, j \in DOMAIN streams : KeyAppId(streams[i]) = KeyAppId(streams[j]) => i = j

\* An APPID without a stream is still marked as free.
FreeMarked == \A a \in AppId : register[a] < Len(values) \/ register[a] = SIZE_MAX

ContainerInv == ContainerTypeOK /\ StreamsInv /\ FreeMarked /\ RegisterInv

\* A loop of Init registers passports of its own kind.
LEMMA LoopType ==
  ASSUME NEW k \in Kind, NEW n \in 0 .. MaxStreams
  PROVE  Loop(k, n) \in Seq(Passport) /\ Len(Loop(k, n)) = n
<1>1. MaxStreams \in Nat
  BY ContainerAssumption
<1>2. n \in Nat
  BY <1>1
<1>3. ASSUME NEW i \in 1 .. n
      PROVE  [kind |-> k, idx |-> i - 1] \in Passport
  <2>1. i - 1 \in 0 .. MaxStreams - 1
    BY <1>1
  <2> QED
    BY <2>1 DEF Passport
<1> QED
  BY <1>2, <1>3 DEF Loop

\* Type and length of a concatenation.
LEMMA Concatenation ==
  ASSUME NEW S, NEW p \in Seq(S), NEW q \in Seq(S)
  PROVE  p \o q \in Seq(S) /\ Len(p \o q) = Len(p) + Len(q)
OBVIOUS

\* The loops together stay below the mark of a free APPID.
LEMMA StreamsType ==
  ASSUME NEW c \in Config
  PROVE  StreamsOf(c) \in Seq(Passport) /\ Len(StreamsOf(c)) <= SIZE_MAX
<1> DEFINE a == Loop("sv80", c["sv80"])
           b == Loop("sv256", c["sv256"])
           d == Loop("rsv80", c["rsv80"])
           e == Loop("rsv256", c["rsv256"])
<1>1. MaxStreams \in Nat
  BY ContainerAssumption
<1>2. /\ a \in Seq(Passport) /\ Len(a) = c["sv80"] /\ c["sv80"] \in 0 .. MaxStreams
      /\ b \in Seq(Passport) /\ Len(b) = c["sv256"] /\ c["sv256"] \in 0 .. MaxStreams
      /\ d \in Seq(Passport) /\ Len(d) = c["rsv80"] /\ c["rsv80"] \in 0 .. MaxStreams
      /\ e \in Seq(Passport) /\ Len(e) = c["rsv256"] /\ c["rsv256"] \in 0 .. MaxStreams
  BY LoopType DEF Config, Kind
<1> HIDE DEF a, b, d, e
<1> DEFINE ab == a \o b
           abd == ab \o d
           abde == abd \o e
<1>3. ab \in Seq(Passport) /\ Len(ab) = Len(a) + Len(b)
  BY <1>2, Concatenation
<1> HIDE DEF ab
<1>4. abd \in Seq(Passport) /\ Len(abd) = Len(ab) + Len(d)
  BY <1>2, <1>3, Concatenation
<1> HIDE DEF abd
<1>5. abde \in Seq(Passport) /\ Len(abde) = Len(abd) + Len(e)
  BY <1>2, <1>4, Concatenation
<1>6. StreamsOf(c) = abde
  BY DEF StreamsOf, ab, abd, a, b, d, e
<1> HIDE DEF abde
<1>7. Len(abde) = Len(a) + Len(b) + Len(d) + Len(e)
  BY <1>3, <1>4, <1>5
<1>8. Len(a) + Len(b) + Len(d) + Len(e) <= 4 * MaxStreams
  BY <1>1, <1>2
<1> QED
  BY <1>5, <1>6, <1>7, <1>8 DEF SIZE_MAX

\* The APPID of a stream indexes the register of AppIdContainer.
LEMMA AppIdType == \A p \in Passport : KeyAppId(p) \in AppId
<1> SUFFICES ASSUME NEW p \in Passport PROVE KeyAppId(p) \in AppId
  OBVIOUS
<1>1. 1 + p.idx \in Nat /\ APPID_NUM \in Nat \ {0}
  BY ContainerAssumption DEF Passport
<1> DEFINE x == 1 + p.idx
<1> HIDE DEF x
<1>2. x \in Nat
  BY <1>1 DEF x
<1>3. x % APPID_NUM \in 0 .. APPID_NUM - 1
  BY <1>1, <1>2
<1> QED
  BY <1>3 DEF KeyAppId, AppId, x

-----------------------------------------------------------------------------

\* The empty container, before the first loop of Init.
LEMMA InitContainer == UniqueAppIds /\ ContainerInit => ContainerInv
<1> SUFFICES ASSUME UniqueAppIds, ContainerInit PROVE ContainerInv
  OBVIOUS
<1>1. PICK c \in Configs : streams = StreamsOf(c)
  BY DEF ContainerInit
<1>2. c \in Config
  BY ContainerAssumption
<1>3. StreamsInv
  BY <1>1, <1>2, StreamsType DEF StreamsInv, UniqueAppIds
<1>4. SIZE_MAX \in Nat
  BY ContainerAssumption DEF SIZE_MAX
<1>5. Len(streams) \in Nat
  BY <1>3 DEF StreamsInv
<1>6. ContainerTypeOK
  BY <1>3, <1>4, <1>5 DEF ContainerInit, ContainerTypeOK, StreamsInv
<1>7. FreeMarked
  BY DEF ContainerInit, FreeMarked
<1>8. RegisterInv
  BY <1>4 DEF ContainerInit, RegisterInv
<1> QED
  BY <1>3, <1>6, <1>7, <1>8 DEF ContainerInv

\* With unique APPIDs operator[] always inserts.
LEMMA ConfigureInserts ==
  ASSUME ContainerInv, Configure
  PROVE  Insert(streams[next])
<1> DEFINE p == streams[next]
<1>1. next \in 1 .. Len(streams) /\ Len(values) = next - 1 /\ Len(streams) \in Nat
  BY DEF ContainerInv, ContainerTypeOK, RegisterInv, Configure, StreamsInv
<1>2. p \in Passport
  BY <1>1 DEF ContainerInv, StreamsInv
<1>3. KeyAppId(p) \in AppId /\ register[KeyAppId(p)] \in Nat
  BY <1>2, AppIdType DEF ContainerInv, ContainerTypeOK
<1>4. ~(register[KeyAppId(p)] < Len(values))
  <2> SUFFICES ASSUME register[KeyAppId(p)] < Len(values) PROVE FALSE
    OBVIOUS
  <2> DEFINE i == register[KeyAppId(p)] + 1
  <2>1. KeyAppId(streams[i]) = KeyAppId(p)
    BY <1>3 DEF ContainerInv, RegisterInv
  <2>2. i \in 1 .. next - 1 /\ i \in DOMAIN streams /\ next \in DOMAIN streams
    BY <1>1, <1>3 DEF ContainerInv, StreamsInv
  <2>3. i = next
    BY <2>1, <2>2 DEF ContainerInv, StreamsInv
  <2> QED
    BY <1>1, <2>2, <2>3
<1> QED
  BY <1>1, <1>3, <1>4 DEF Configure, Assign

\* Inserting the next stream of the command line keeps the invariant.
LEMMA ConfigureStep ==
  ASSUME ContainerInv, Configure
  PROVE  ContainerInv'
<1> DEFINE p == streams[next]
<1>1. next \in 1 .. Len(streams) /\ Len(values) = next - 1 /\ Len(streams) \in Nat
  BY DEF ContainerInv, ContainerTypeOK, RegisterInv, Configure, StreamsInv
<1>2. p \in Passport /\ next \in DOMAIN streams
  BY <1>1 DEF ContainerInv, StreamsInv
<1>3. KeyAppId(p) \in AppId
  BY <1>2, AppIdType
<1>4. /\ register' = [register EXCEPT ![KeyAppId(p)] = Len(values)]
      /\ values' = Append(values, [key |-> p, src |-> p])
      /\ next' = next + 1
      /\ UNCHANGED <<streams, asked, answer>>
  BY ConfigureInserts DEF Insert, Configure
<1>5. StreamsInv'
  BY <1>4 DEF ContainerInv, StreamsInv, KeyAppId
<1>6. values \in Seq([key : Passport, src : Passport]) /\ register \in [AppId -> Nat]
  BY DEF ContainerInv, ContainerTypeOK
<1>7. ContainerTypeOK'
  BY <1>1, <1>2, <1>3, <1>4, <1>6 DEF ContainerInv, ContainerTypeOK
<1>8. Len(values') = next /\ Len(values) \in Nat
  BY <1>1, <1>4, <1>6
<1>9. ASSUME NEW a \in AppId
      PROVE  register'[a] = IF a = KeyAppId(p) THEN Len(values) ELSE register[a]
  BY <1>4, <1>6
<1>10. FreeMarked'
  <2> SUFFICES ASSUME NEW a \in AppId
               PROVE  register'[a] < Len(values') \/ register'[a] = SIZE_MAX
    BY DEF FreeMarked, SIZE_MAX
  <2>1. register[a] < Len(values) \/ register[a] = SIZE_MAX
    BY DEF ContainerInv, FreeMarked
  <2>2. register[a] \in Nat
    BY <1>6
  <2> QED
    BY <1>1, <1>8, <1>9, <2>1, <2>2
<1>11. RegisterInv'
  <2>1. Len(values') = next' - 1
    BY <1>1, <1>4, <1>8
  <2>2. ASSUME NEW k \in 1 .. next
        PROVE  /\ values'[k] = [key |-> streams[k], src |-> streams[k]]
               /\ register'[KeyAppId(streams[k])] = k - 1
    <3>1. k \in DOMAIN streams /\ streams[k] \in Passport
      BY <1>1 DEF ContainerInv, StreamsInv
    <3>2. KeyAppId(streams[k]) \in AppId
      BY <3>1, AppIdType
    <3>3. CASE k = next
      BY <1>1, <1>4, <1>6, <1>9, <3>2, <3>3
    <3>4. CASE k < next
      <4>1. k \in DOMAIN values
        BY <1>1, <1>6, <3>4
      <4>2. /\ values[k] = [key |-> streams[k], src |-> streams[k]]
            /\ register[KeyAppId(streams[k])] = k - 1
        BY <4>1 DEF ContainerInv, RegisterInv
      <4>3. KeyAppId(streams[k]) # KeyAppId(p)
        BY <1>2, <3>1, <3>4, <1>1 DEF ContainerInv, StreamsInv
      <4>4. values'[k] = values[k]
        BY <1>4, <1>6, <4>1
      <4> QED
        BY <1>9, <3>2, <4>2, <4>3, <4>4
    <3> QED
      BY <1>1, <3>3, <3>4
  <2>3. ASSUME NEW a \in AppId, register'[a] < next
        PROVE  KeyAppId(streams[register'[a] + 1]) = a
    <3>1. register[a] \in Nat /\ SIZE_MAX \in Nat /\ Len(streams) <= SIZE_MAX
      BY <1>6, ContainerAssumption DEF SIZE_MAX, ContainerInv, StreamsInv
    <3>2. CASE a = KeyAppId(p)
      BY <1>1, <1>9, <3>2
    <3>3. CASE a # KeyAppId(p)
      <4>1. register'[a] = register[a]
        BY <1>9, <3>3
      <4>2. register[a] < Len(values) \/ register[a] = SIZE_MAX
        BY DEF ContainerInv, FreeMarked
      <4>3. register[a] < Len(values)
        BY <1>1, <2>3, <3>1, <4>1, <4>2
      <4> QED
        BY <4>1, <4>3 DEF ContainerInv, RegisterInv
    <3> QED
      BY <3>2, <3>3
  <2>4. DOMAIN values' = 1 .. next /\ streams' = streams
    BY <1>4, <1>6, <1>8
  <2> QED
    BY <1>8, <2>1, <2>2, <2>3, <2>4 DEF RegisterInv, KeyAppId
<1> QED
  BY <1>5, <1>7, <1>10, <1>11 DEF ContainerInv

\* What a lookup returns: the stream itself if it was registered.
LEMMA FindResult ==
  ASSUME ContainerInv, NEW p \in Passport, Find(p)
  PROVE  answer' = IF p \in {values[k].key : k \in DOMAIN values} THEN p ELSE NotFound
<1>1. KeyAppId(p) \in AppId /\ register[KeyAppId(p)] \in Nat
  BY AppIdType DEF ContainerInv, ContainerTypeOK
<1>2. values \in Seq([key : Passport, src : Passport]) /\ Len(values) \in Nat
  BY DEF ContainerInv, ContainerTypeOK
<1>3. ASSUME NEW k \in DOMAIN values
      PROVE  /\ values[k].key = streams[k] /\ values[k].src = streams[k]
             /\ register[KeyAppId(streams[k])] = k - 1
             /\ k \in 1 .. Len(values)
  BY <1>2 DEF ContainerInv, RegisterInv
<1>4. CASE register[KeyAppId(p)] < Len(values)
  <2>1. Slot(p) \in DOMAIN values
    BY <1>1, <1>2, <1>4 DEF Slot
  <2>2. values[Slot(p)].key \in Owned
    BY <1>3, <2>1 DEF Owned
  <2>3. CASE values[Slot(p)].key = p
    <3>1. Equal(values[Slot(p)].key, p) = {TRUE}
      BY <2>2, <2>3 DEF Equal
    <3>2. answer' = values[Slot(p)].src
      BY <1>4, <3>1 DEF Find
    <3> QED
      BY <1>3, <2>1, <2>3, <3>2
  <2>4. CASE values[Slot(p)].key # p
    <3>1. Equal(values[Slot(p)].key, p) = {FALSE}
      BY <2>4 DEF Equal
    <3>2. answer' = NotFound
      BY <1>4, <3>1 DEF Find
    <3>3. ASSUME NEW k \in DOMAIN values, values[k].key = p PROVE FALSE
      <4>1. register[KeyAppId(p)] = k - 1 /\ k \in 1 .. Len(values)
        BY <1>3, <3>3
      <4>2. Slot(p) = k
        BY <1>2, <4>1 DEF Slot
      <4> QED
        BY <2>4, <3>3, <4>2
    <3> QED
      BY <3>2, <3>3
  <2> QED
    BY <2>3, <2>4
<1>5. CASE ~(register[KeyAppId(p)] < Len(values))
  <2>1. answer' = NotFound
    BY <1>5 DEF Find
  <2>2. ASSUME NEW k \in DOMAIN values, values[k].key = p PROVE FALSE
    <3>1. register[KeyAppId(p)] = k - 1 /\ k \in 1 .. Len(values)
      BY <1>3, <2>2
    <3> QED
      BY <1>2, <1>5, <3>1
  <2> QED
    BY <2>1, <2>2
<1> QED
  BY <1>4, <1>5

\* A lookup changes neither the register nor the values.
LEMMA FindStep ==
  ASSUME ContainerInv, NEW p \in Passport, Find(p)
  PROVE  ContainerInv'
<1>1. UNCHANGED <<streams, register, values, next>> /\ asked' = p
  BY DEF Find
<1>2. answer' \in Passport \cup {NotFound}
  BY FindResult
<1>3. ContainerTypeOK'
  BY <1>1, <1>2 DEF ContainerInv, ContainerTypeOK
<1> QED
  BY <1>1, <1>3 DEF ContainerInv, StreamsInv, FreeMarked, RegisterInv, KeyAppId

\* ContainerInv is inductive.
LEMMA ContainerStep == ContainerInv /\ [ContainerNext]_containerVars => ContainerInv'
<1> SUFFICES ASSUME ContainerInv, [ContainerNext]_containerVars PROVE ContainerInv'
  OBVIOUS
<1>1. CASE Configure
  BY <1>1, ConfigureStep
<1>2. ASSUME NEW p \in Passport, Find(p) PROVE ContainerInv'
  BY <1>2, FindStep
<1>3. CASE UNCHANGED containerVars
  BY <1>3 DEF containerVars, ContainerInv, ContainerTypeOK, StreamsInv, FreeMarked,
              RegisterInv, KeyAppId
<1> QED
  BY <1>1, <1>2, <1>3 DEF ContainerNext

\* With unique APPIDs, the register leads from every stored source back to it:
\* no insertion of RX_Application::Init disturbs an earlier one.
THEOREM RegisterCorrect ==
  ASSUME UniqueAppIds
  PROVE  ContainerSpec => []RegisterInv
<1>1. ContainerInit => ContainerInv
  BY InitContainer
<1>2. ContainerInv /\ [ContainerNext]_containerVars => ContainerInv'
  BY ContainerStep
<1>3. ContainerInv => RegisterInv
  BY DEF ContainerInv
<1> QED
  BY <1>1, <1>2, <1>3, PTL DEF ContainerSpec

\* The constructed container is the empty map.
LEMMA TableInit == ContainerInit => Table!Init
  BY DEF ContainerInit, Table!Init

\* Every insertion and every lookup is one of the map's.
LEMMA TableStep ==
  ContainerInv /\ [ContainerNext]_containerVars
    => [Table!Next]_<<{values[k].key : k \in DOMAIN values}, asked, answer>>
<1> DEFINE table == {values[k].key : k \in DOMAIN values}
<1> SUFFICES ASSUME ContainerInv, [ContainerNext]_containerVars
             PROVE  [Table!Next]_<<table, asked, answer>>
  OBVIOUS
<1>1. ASSUME Configure PROVE Table!Next
  <2> DEFINE p == streams[next]
  <2>1. p \in Passport
    BY <1>1 DEF Configure, ContainerInv, ContainerTypeOK
  <2>2. values' = Append(values, [key |-> p, src |-> p])
    BY <1>1, ConfigureInserts DEF Insert
  <2>3. values \in Seq([key : Passport, src : Passport]) /\ Len(values) \in Nat
    BY DEF ContainerInv, ContainerTypeOK
  <2>4. /\ DOMAIN values' = DOMAIN values \cup {Len(values) + 1}
        /\ values'[Len(values) + 1].key = p
        /\ \A k \in DOMAIN values : values'[k] = values[k]
    BY <2>1, <2>2, <2>3
  <2>5. table' = table \cup {p}
    BY <2>4
  <2>6. UNCHANGED <<asked, answer>>
    BY <1>1 DEF Configure
  <2> QED
    BY <2>1, <2>5, <2>6 DEF Table!Next, Table!Register
<1>2. ASSUME NEW p \in Passport, Find(p) PROVE Table!Next
  <2>1. asked' = p /\ UNCHANGED values
    BY <1>2 DEF Find
  <2>2. answer' = IF p \in table THEN p ELSE NotFound
    BY <1>2, FindResult
  <2> QED
    BY <2>1, <2>2 DEF Table!Next, Table!Find
<1>3. CASE UNCHANGED containerVars
  BY <1>3 DEF containerVars
<1> QED
  BY <1>1, <1>2, <1>3 DEF ContainerNext

\* With unique APPIDs, AppIdContainer behaves like the map its comment
\* compares it with: every registered stream is found by its own passport and
\* nothing else is found.
THEOREM ImplementsTable ==
  ASSUME UniqueAppIds
  PROVE  ContainerSpec => MapSpec
<1>1. ContainerInit => ContainerInv /\ Table!Init
  BY InitContainer, TableInit
<1>2. ContainerInv /\ [ContainerNext]_containerVars => ContainerInv'
  BY ContainerStep
<1>3. ContainerInv /\ [ContainerNext]_containerVars
        => [Table!Next]_<<{values[k].key : k \in DOMAIN values}, asked, answer>>
  BY TableStep
<1> QED
  BY <1>1, <1>2, <1>3, PTL DEF ContainerSpec, MapSpec, Table!Spec
=============================================================================
