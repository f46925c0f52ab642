------------------------------- MODULE BusFrame -------------------------------
(***************************************************************************)
(* The frames of the process bus, as the generator writes them into mbufs  *)
(* and the processor reads them: L2 GOOSE and SV, and their routable forms *)
(* in IPv4 and UDP with the session envelope of RSession.                  *)
(*                                                                         *)
(* A frame is a record of its header fields with a body.  Names (GOID,     *)
(* references, svID) are the number that replaces their placeholder: in a  *)
(* frame its leading digits, as many as the placeholder has, for the       *)
(* processor all of them.  An IPv4 checksum is the header it was computed  *)
(* over.                                                                   *)
(***************************************************************************)
EXTENDS Integers, RSession

CONSTANTS
  Stream,        \* indexes of the streams of a run
  APDU_SIZE,     \* bytes of the APDU of a skeleton
  R_DST_SPREAD,  \* multicast groups of a run
  NumEntries,    \* data set entries of a GOOSE
  MAX_SV_ASDU_NUM,
  SmpFreq        \* samples per second, by number of ASDUs in a frame

\* The streams of a kind have different APPIDs, which are 16 bits wide: with
\* more of them AppIdContainer is no map.  An APDU with names and eight
\* channels, or a data set, has more than 42 bytes.
ASSUME FrameAssumption ==
  /\ \A s \in Stream : s \in Nat /\ s < 65536
  /\ APDU_SIZE \in Nat /\ APDU_SIZE >= 42
  /\ R_DST_SPREAD \in Nat \ {0}
  /\ NumEntries \in Nat \ {0}
  /\ MAX_SV_ASDU_NUM \in Nat \ {0}

L2Kind == {"goose", "sv80", "sv256"}
RKind == {"rgoose", "rsv80", "rsv256"}
IsGooseKind(kind) == kind \in {"goose", "rgoose"}
AsduNum(kind) == IF kind \in {"sv256", "rsv256"} THEN MAX_SV_ASDU_NUM ELSE 1

\* (stream + 1) & 0xFFFF.
AppIdOf(s) == (s + 1) % 65536

\* The number in a stream's names.  The processor formats all its digits.
IdOf(s) == s + 1

\* The generator prints it into an array and copies a fixed number of digits:
\* eight for GOOSE, four for SV.  A number has at most five.
LeadingDigits(n, limit) == IF n < limit THEN n ELSE n \div 10
GooseSID(s) == LeadingDigits(IdOf(s), 100000000)
SvSID(s) == LeadingDigits(IdOf(s), 10000)

\* A stream whose frames carry another name than the processor expects.
NameIsCut(kind, s) == (IF IsGooseKind(kind) THEN GooseSID(s) ELSE SvSID(s)) # IdOf(s)

-----------------------------------------------------------------------------
(* The APDU skeletons, which libiec61850 encodes: a GOOSE is the sequence  *)
(* of its items (`other' stands for the ones the walker skips), an SV the  *)
(* sequence of its ASDUs.  Placeholders are zero.                          *)

GooseTag == {"gocbRef", "datSet", "goID", "stNum", "confRev", "numEntries",
             "allData", "other"}
GooseItem(tag, val) == [tag |-> tag, len |-> "fits", val |-> val, depth |-> 0]

GooseSkeleton ==
  [lead |-> 97,          \* 0x61
   items |-> << GooseItem("gocbRef", 0), GooseItem("other", 0), GooseItem("datSet", 0),
                GooseItem("goID", 0), GooseItem("stNum", 0), GooseItem("confRev", 1),
                GooseItem("numEntries", NumEntries), GooseItem("allData", NumEntries) >>]

SvSkeleton(num) ==
  [lead |-> 96,          \* 0x60
   num |-> num,
   asdu |-> [i \in 1 .. num |-> [svID |-> 0, smpCnt |-> 0, confRev |-> 1, quality |-> "good"]]]

Apdu(kind) == IF IsGooseKind(kind) THEN GooseSkeleton ELSE SvSkeleton(AsduNum(kind))

\* A write at the recorded offset of the item's value.
SetItem(apdu, tag, val) ==
  [apdu EXCEPT !.items = [i \in DOMAIN @ |->
     IF @[i].tag = tag THEN [@[i] EXCEPT !.val = val] ELSE @[i]]]

-----------------------------------------------------------------------------
(* The IPv4 and UDP prefix.                                                *)

stream_dst_ip(s) == s % R_DST_SPREAD
\* RFC 1112: the group's low 23 bits.
multicast_mac(dstIP) == <<"01:00:5E", dstIP % 8388608>>

ipv4_checksum(ip) == [ip EXCEPT !.csum = << >>]
ipv4_checksum_ok(ip) == ip.csum = << ipv4_checksum(ip) >>

build_prefix(udpPayloadSize) ==
  LET ip == [vihl |-> 69, len |-> 20 + 8 + udpPayloadSize, frag |-> "DF",
             proto |-> 17, dst |-> stream_dst_ip(0), csum |-> << >>]
  IN  [eth |-> "ipv4", dmac |-> multicast_mac(stream_dst_ip(0)),
       size |-> ETH_IP_UDP_SIZE + udpPayloadSize,
       ip |-> [ip EXCEPT !.csum = << ipv4_checksum(ip) >>],
       udp |-> [src |-> 0, dst |-> 102, len |-> 8 + udpPayloadSize]]

\* The fields that depend on the group, computed once from the skeleton.
make_dst_fields(ip, dstIP) ==
  LET dst == [ip EXCEPT !.dst = dstIP]
  IN  [dmac |-> multicast_mac(dstIP), dst |-> dstIP, csum |-> << ipv4_checksum(dst) >>]

\* MakeSkeletonPacket of the two routable generators.
RSkeleton(kind, mode) ==
  LET pdu == IF IsGooseKind(kind)
               THEN build("R_GOOSE", "GOOSE", mode, Apdu(kind), APDU_SIZE)
               ELSE build("R_SV", "SV", mode, Apdu(kind), APDU_SIZE)
      prefix == build_prefix(udp_payload_size(mode, APDU_SIZE))
  IN  [eth |-> prefix.eth, dmac |-> prefix.dmac, size |-> prefix.size,
       ip |-> prefix.ip, udp |-> prefix.udp,
       ses |-> pdu.ses, region |-> pdu.region, trl |-> pdu.trl]

\* MakeSkeletonPacket, MakeSkeletonSV80 and MakeSkeletonSV256: tagged frames.
L2Skeleton(kind) ==
  [eth |-> IF IsGooseKind(kind) THEN "vlan_goose" ELSE "vlan_sv",
   dmac |-> <<"01:0C:CD", IF IsGooseKind(kind) THEN 4 ELSE 1>>,
   size |-> 26 + APDU_SIZE,
   appid |-> IF IsGooseKind(kind) THEN 4660 ELSE 16384, apdu |-> Apdu(kind)]

Skeleton(kind, mode) == IF kind \in RKind THEN RSkeleton(kind, mode) ELSE L2Skeleton(kind)

-----------------------------------------------------------------------------
(* Reading.  The router looks at the fields at their fixed offsets only.   *)

R_MIN_FRAME_SIZE == ETH_IP_UDP_SIZE + SESSION_FIXED_SIZE + 4

get_proto_type(f) ==
  CASE f.eth \in {"vlan_sv", "sv"} -> "SV"
    [] f.eth \in {"vlan_goose", "goose"} -> "GOOSE"
    [] /\ f.eth = "ipv4" /\ f.size >= R_MIN_FRAME_SIZE
       /\ "ip" \in DOMAIN f         \* else byte 14 of a tagged frame is no 0x45
       /\ f.ip.vihl = 69 /\ f.ip.proto = 17
       /\ f.udp.dst = 102 /\ f.ses.si \in SI -> f.ses.si
    [] OTHER -> "NON_BUS"

\* Faulty variant: Ethernet padding after the datagram is not allowed.
IpLenOkExact(f) == f.ip.len >= 28 /\ 14 + f.ip.len = f.size

IpLenOk(f) == f.ip.len >= 28 /\ 14 + f.ip.len <= f.size

\* validate_r_envelope; offload is what the NIC says of the IPv4 checksum.
validate_r_envelope(f, offload) ==
  Require(f.size >= 14 + 20 /\ f.eth = "ipv4", "NOT_IPV4")
  ?? Require(f.ip.vihl = 69, "IHL")
  ?? Require(IpLenOk(f), "IP_LEN")
  ?? Require(f.ip.frag \notin {"MF", "offset"}, "FRAGMENT")
  ?? Require(f.ip.proto = 17, "PROTO")
  ?? Require(f.udp.dst = 102, "UDP_PORT")
  ?? Require(f.udp.len >= 8 /\ f.udp.len = f.ip.len - 20, "UDP_LEN")
  ?? Require(offload # "bad", "IP_CKSUM")
  ?? Require(offload = "unknown" => ipv4_checksum_ok(f.ip), "IP_CKSUM")

\* The region as the APDU walk finds it: the plain text when it was sent plain
\* or has been decrypted; bytes that mean nothing when it is still cipher text
\* or is read at the wrong place.  Such bytes are taken never to be an APDU.
Meaningless ==
  {[enc |-> << >>, ptype |-> t, appid |-> 0, apdu |-> [lead |-> 0]] :
     t \in PayloadType \cup {"bad"}}

RegionRead(f, mode) ==
  LET plain == IF mode = "gcm" /\ f.region.enc # << >> THEN Decrypted(f.region) ELSE f.region
  IN  IF Aligned(f.ses) /\ plain.enc = << >> THEN {plain} ELSE Meaningless

\* unwrap_r_frame: len and region are what is read of the payload.  The last
\* entry is the walk of an APDU that ends inside one of its items.
unwrap_r_frame(f, si, ptype, mode, len, region) ==
  LET udpSize == f.ip.len - 28
  IN  Require(f.size >= ETH_IP_UDP_SIZE + apdu_offset(0), "TOO_SHORT")
      ?? Require(IpLenOk(f), "TOO_SHORT")
      ?? SessionChecks(f.ses, udpSize, len)
      ?? Require(f.ses.si = si, "BAD_SI")
      ?? Require(unseal(f, udpSize, mode, len), "AUTH")
      ?? PayloadChecks(region)
      ?? Require(region.ptype = ptype, "BAD_PAYLOAD_TYPE")
      ?? Require(len = PAYLOAD_ELEM_SIZE + APDU_SIZE, "APDU_CUT")

-----------------------------------------------------------------------------
(* The APDU walks.                                                         *)

MAX_DATA_DEPTH == 8

\* The number of entries of an allData item, -1 when it is malformed or nested
\* too deeply.
parse_alldata(item) == IF item.depth > MAX_DATA_DEPTH THEN -1 ELSE item.val

\* One turn of the walk: an error ends it, a field that comes again replaces
\* the value it had.
WalkItem(acc, item) ==
  CASE acc.err # "OK" -> acc
    [] acc.err = "OK" /\ item.len # "fits" -> [acc EXCEPT !.err = "-3"]
    [] acc.err = "OK" /\ item.len = "fits" /\ item.tag = "allData" /\ parse_alldata(item) < 0
         -> [acc EXCEPT !.err = "-101"]
    [] OTHER -> [acc EXCEPT !.val[item.tag] = item.val, !.seen = @ \cup {item.tag}]

GooseWalk(items) ==
  LET walk[n \in 0 .. Len(items)] ==
        IF n = 0 THEN [err |-> "OK", val |-> [t \in GooseTag |-> 0], seen |-> {}]
        ELSE WalkItem(walk[n - 1], items[n])
  IN  walk[Len(items)]

\* parse_goose_packet and its copy in parse_r_goose_packet.
parse_goose_apdu(apdu) ==
  IF apdu.lead # 97 THEN [err |-> "-3"]
  ELSE LET w == GooseWalk(apdu.items) IN
      [err |-> w.err
               ?? Require(w.val["allData"] = w.val["numEntries"], "-102")
               ?? Require({"gocbRef", "datSet", "goID"} \subseteq w.seen, "-100"),
       names |-> <<w.val["gocbRef"], w.val["datSet"], w.val["goID"]>>,
       crev |-> w.val["confRev"], num |-> w.val["numEntries"], seq |-> w.val["stNum"]]

\* parse_sv_apdu: the first ASDU names the stream, the others must agree.
parse_sv_apdu(apdu) ==
  IF apdu.lead # 96 THEN [err |-> "-3"]
  ELSE LET first == apdu.asdu[1] IN
       [err |-> Require(\A i \in DOMAIN apdu.asdu : apdu.asdu[i].quality = "good", "QUALITY")
                ?? Require(\A i \in DOMAIN apdu.asdu :
                             /\ apdu.asdu[i].svID = first.svID
                             /\ apdu.asdu[i].confRev = first.confRev, "-6")
                ?? Require(Len(apdu.asdu) = apdu.num, "-7"),
        names |-> <<first.svID>>,
        crev |-> first.confRev, num |-> apdu.num, seq |-> first.smpCnt]

ParseApdu(ptype, apdu) ==
  IF ptype = "GOOSE" THEN parse_goose_apdu(apdu) ELSE parse_sv_apdu(apdu)

\* The parse state a stage looks up: what the headers and the APDU say of the
\* frame, unless the walk failed.
ParseState(dmac, appid, dstIP, spdu, a) ==
  IF a.err # "OK" THEN [err |-> a.err]
  ELSE [err |-> "OK", dmac |-> dmac, appid |-> appid, dstIP |-> dstIP, spdu |-> spdu,
        names |-> a.names, crev |-> a.crev, num |-> a.num, seq |-> a.seq]

\* parse_goose_packet and parse_sv_packet.  The L2 frames of a run are tagged:
\* one read as untagged, or a routable frame read as L2, has no APDU where the
\* walk begins.
parse_l2_packet(f, ptype) ==
  LET tagged == IF ptype = "GOOSE" THEN "vlan_goose" ELSE "vlan_sv" IN
  CASE f.size < 64 -> [err |-> "-1"]
    [] ~(f.size < 64) /\ ~(f.eth = tagged /\ "apdu" \in DOMAIN f) -> [err |-> "-3"]
    [] OTHER -> ParseState(f.dmac, f.appid, 0, 0, ParseApdu(ptype, f.apdu))

\* parse_r_goose_packet and parse_r_sv_packet after validate_r_envelope.
parse_r_packet(f, si, ptype, mode, len, region) ==
  LET err == unwrap_r_frame(f, si, ptype, mode, len, region)
  IN  IF err # "OK" THEN [err |-> err]
      ELSE ParseState(f.dmac, region.appid, f.ip.dst, f.ses.spduNumber,
                      ParseApdu(ptype, region.apdu))

\* What a stage may make of a frame: one result, or several where it reads
\* bytes that mean nothing.
ParseR(f, si, ptype, mode, offload) ==
  IF validate_r_envelope(f, offload) # "OK" THEN {[err |-> "ENVELOPE"]}
  ELSE {parse_r_packet(f, si, ptype, mode, len, region) :
          len \in PayloadLengthRead(f.ses), region \in RegionRead(f, mode)}

\* The stage the router puts the frame in parses it.
Parse(f, mode, offload) ==
  LET proto == get_proto_type(f)
  IN  CASE proto \in PayloadType -> {parse_l2_packet(f, proto)}
        [] proto = "R_GOOSE" -> ParseR(f, proto, "GOOSE", mode, offload)
        [] proto = "R_SV" -> ParseR(f, proto, "SV", mode, offload)
        [] OTHER -> {[err |-> "NON_BUS"]}

-----------------------------------------------------------------------------
(* The streams the processor is configured with (RX_Application::Init).    *)

PassportOf(kind, s) ==
  [dmac |-> IF kind \in RKind THEN multicast_mac(stream_dst_ip(s)) ELSE L2Skeleton(kind).dmac,
   appid |-> AppIdOf(s),
   dstIP |-> IF kind \in RKind THEN stream_dst_ip(s) ELSE 0,
   names |-> IF IsGooseKind(kind) THEN <<IdOf(s), IdOf(s), IdOf(s)>> ELSE <<IdOf(s)>>,
   crev |-> 1,
   num |-> IF IsGooseKind(kind) THEN NumEntries ELSE AsduNum(kind)]

\* The stream a parsed frame belongs to, if any.
Found(kind, p) ==
  {s \in Stream : \A x \in DOMAIN PassportOf(kind, s) : PassportOf(kind, s)[x] = p[x]}
=============================================================================
