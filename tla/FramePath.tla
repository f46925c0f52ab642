------------------------------ MODULE FramePath ------------------------------
(***************************************************************************)
(* A frame from the generator to the stream trackers of the processor: an  *)
(* mbuf of the pool, with what its last use left in it, is amended for a   *)
(* stream (AmendPacket), sealed and sent; the wire loses it, pads it,      *)
(* alters one field of it or delivers it; the processor routes, verifies,  *)
(* parses and looks it up, and updates the tracker of the stream and one   *)
(* counter.                                                                *)
(*                                                                         *)
(* A run has one kind of traffic.  Generator and processor each have their *)
(* security mode, and the processor's NIC may check IPv4 headers.          *)
(***************************************************************************)
EXTENDS BusFrame, StreamTracker

CONSTANTS
  Mbuf,        \* mbufs of the generator's pool
  OwnerOf,     \* the TX worker of each stream; every worker has its generator
  Runs,        \* the configurations considered
  MaxSent,     \* bound: frames per stream
  MaxAltered   \* bound: frames altered on the wire

Worker == {OwnerOf[s] : s \in Stream}

Run == [kind : L2Kind \cup RKind, tx : SecurityMode, rx : SecurityMode,
        nic : {"checks", "does not check"}]

ASSUME PathAssumption ==
  /\ Runs \subseteq Run
  /\ \A r \in Runs : r.kind \in L2Kind => r.tx = "none" /\ r.rx = "none"
  /\ MaxSent \in [Stream -> Nat]
  /\ MaxAltered \in Nat

\* A second of samples is a whole number of frames (4000 of one sample, 12800 of
\* eight), and the number a frame starts with fits in the counter.
ASSUME FrequencyAssumption ==
  \A n \in {1, MAX_SV_ASDU_NUM} :
    SmpFreq[n] \in Nat \ {0} /\ SmpFreq[n] % n = 0 /\ SmpFreq[n] - n < SeqMod

VARIABLES
  run,       \* the configuration
  mem,       \* contents of the mbufs
  plain,     \* m_plain: per worker, the plain text of the encrypted region
  ied,       \* m_ieds: spduNumber and stNum or smpCnt of every stream
  wire,      \* the frame under way, with its stream and number
  tracker,   \* the sources the processor is configured with
  cnt,       \* its counters
  sent,      \* history: frames sent per stream
  newest,    \* history: the latest frame of the stream its tracker has seen
  gaps,      \* history: times it saw another frame than the next one
  altered,   \* history: altered frames that arrived
  cut        \* history: frames that arrived of streams whose name is cut

sender == <<run, mem, plain, ied, sent>>
receiver == <<tracker, cnt, newest, gaps>>
vars == <<sender, wire, receiver, altered, cut>>

Counter == {"rxGoose", "rxSV", "unknownGoose", "unknownSV", "errGoose", "errSV",
            "errAuth", "toKernel"}

\* FillPackets copies the skeleton into every mbuf, the generators keep the
\* plain region of theirs.
Init ==
  /\ run \in Runs
  /\ mem = [m \in Mbuf |-> Skeleton(run.kind, run.tx)]
  /\ plain = [w \in Worker |-> IF run.kind \in RKind
                                 THEN RSkeleton(run.kind, run.tx).region ELSE << >>]
  /\ ied = [s \in Stream |-> [spdu |-> 0, num |-> 0]]
  /\ wire = << >>
  /\ tracker = [s \in Stream |-> NewTracker]
  /\ cnt = [c \in Counter |-> 0]
  /\ sent = [s \in Stream |-> 0]
  /\ newest = [s \in Stream |-> 0]
  /\ gaps = [s \in Stream |-> 0]
  /\ altered = 0
  /\ cut = 0

-----------------------------------------------------------------------------
(* The generator.                                                          *)

\* Faulty variant: the restart is one sample late.
NextSmpCntLate(cur, freq) == IF cur + 1 <= freq THEN cur + 1 ELSE 0

NextSmpCnt(cur, freq) == IF cur + 1 < freq THEN cur + 1 ELSE 0

\* The sample number of the ASDU after k others, and the one the IED keeps.
SmpCntAfter(cur, freq, k) ==
  LET f[i \in 0 .. k] == IF i = 0 THEN cur ELSE NextSmpCnt(f[i - 1], freq) IN f[k]

\* What AmendPacket writes into the APDU, and what it leaves in the IED.
AmendGoose(apdu, s, stNum) ==
  SetItem(SetItem(SetItem(SetItem(apdu, "goID", GooseSID(s)), "gocbRef", GooseSID(s)),
                  "datSet", GooseSID(s)), "stNum", stNum)

AmendSV(apdu, s, smpCnt, freq) ==
  [apdu EXCEPT !.asdu = [i \in DOMAIN @ |->
     [@[i] EXCEPT !.svID = SvSID(s), !.smpCnt = SmpCntAfter(smpCnt, freq, i - 1)]]]

AmendApdu(kind, apdu, s, i) ==
  IF IsGooseKind(kind) THEN AmendGoose(apdu, s, i.num)
  ELSE AmendSV(apdu, s, i.num, SmpFreq[AsduNum(kind)])

\* ++stNum comes before the write, the sample counter moves on after it.
Before(kind, i) ==
  [spdu |-> IF kind \in RKind THEN Plus(i.spdu, 1) ELSE i.spdu,
   num |-> IF IsGooseKind(kind) THEN Plus(i.num, 1) ELSE i.num]
After(kind, i) ==
  IF IsGooseKind(kind) THEN i
  ELSE [i EXCEPT !.num = SmpCntAfter(@, SmpFreq[AsduNum(kind)], AsduNum(kind))]

\* Faulty variant: the region is amended in the mbuf in every mode.
AmendedInPlace(mode, packet, master) == packet.region

\* Under GCM the plain master is amended: a recycled mbuf holds cipher text.
Amended(mode, packet, master) == IF mode = "gcm" THEN master ELSE packet.region

\* AmendPacket of the routable generators (PrepareFrame and FinishFrame for
\* SV): group, port, session number, region, seal.
RRegion(kind, mode, packet, master, s, i) ==
  LET region == Amended(mode, packet, master)
  IN  [region EXCEPT !.appid = AppIdOf(s), !.apdu = AmendApdu(kind, @, s, i)]

RAmend(kind, mode, packet, region, s, i) ==
  LET dst == make_dst_fields(RSkeleton(kind, mode).ip, stream_dst_ip(s))
  IN  seal([packet EXCEPT !.dmac = dst.dmac, !.ip.dst = dst.dst, !.ip.csum = dst.csum,
                          !.udp.src = AppIdOf(s),
                          !.ses.spduNumber = i.spdu,
                          !.region = region], mode)

\* AmendPacket, AmendPacketSV80 and AmendPacketSV256 of the L2 generators.
L2Amend(kind, packet, s, i) ==
  [packet EXCEPT !.appid = AppIdOf(s), !.apdu = AmendApdu(kind, @, s, i)]

\* A worker takes any free mbuf, amends it and sends it.  A run of losses as
\* long as the period of the numbers is out of the model.
Send(s, m) ==
  LET i == Before(run.kind, ied[s])
      region == RRegion(run.kind, run.tx, mem[m], plain[OwnerOf[s]], s, i)
      packet == IF run.kind \in RKind THEN RAmend(run.kind, run.tx, mem[m], region, s, i)
                ELSE L2Amend(run.kind, mem[m], s, i)
  IN  /\ wire = << >>
      /\ sent[s] < MaxSent[s]
      /\ sent[s] - newest[s] < SeqMod - 1
      /\ mem' = [mem EXCEPT ![m] = packet]
      /\ plain' = IF run.tx = "gcm" /\ run.kind \in RKind
                    THEN [plain EXCEPT ![OwnerOf[s]] = region] ELSE plain
      /\ ied' = [ied EXCEPT ![s] = After(run.kind, i)]
      /\ wire' = << [frame |-> packet, s |-> s, n |-> sent[s] + 1, i |-> i, state |-> "intact"] >>
      /\ sent' = [sent EXCEPT ![s] = @ + 1]
      /\ UNCHANGED <<run, receiver, altered, cut>>

-----------------------------------------------------------------------------
(* The wire.                                                               *)

Lose ==
  /\ wire # << >>
  /\ wire' = << >>
  /\ UNCHANGED <<sender, receiver, altered, cut>>

\* Ethernet padding after the datagram.
Pad ==
  /\ wire # << >>
  /\ "ip" \in DOMAIN wire[1].frame
  /\ wire[1].frame.size = 14 + wire[1].frame.ip.len
  /\ wire' = << [wire[1] EXCEPT !.frame.size = @ + 4] >>
  /\ UNCHANGED <<sender, receiver, altered, cut>>

Items(item) ==
  {[item EXCEPT !.tag = t] : t \in {"other", "stNum"}}
  \cup {[item EXCEPT !.len = l] : l \in {"zero", "beyond"}}
  \cup {[item EXCEPT !.val = @ + 1]}
  \cup {[item EXCEPT !.depth = d] : d \in IF item.tag = "allData" THEN {8, 9} ELSE {}}

Asdus(asdu) ==
  {[asdu EXCEPT !.svID = @ + 1], [asdu EXCEPT !.smpCnt = @ + 1],
   [asdu EXCEPT !.confRev = @ + 1], [asdu EXCEPT !.quality = "bad"]}

GooseApdus(a) ==
  (UNION {{[a EXCEPT !.items[k] = x] : x \in Items(a.items[k])} : k \in DOMAIN a.items})
  \cup {[a EXCEPT !.lead = 96]}

SvApdus(a) ==
  (UNION {{[a EXCEPT !.asdu[k] = x] : x \in Asdus(a.asdu[k])} : k \in DOMAIN a.asdu})
  \cup {[a EXCEPT !.num = @ + 1], [a EXCEPT !.lead = 97]}

Apdus(a) == IF a.lead = 97 THEN GooseApdus(a) ELSE SvApdus(a)

L2Altered(f) ==
  {[f EXCEPT !.eth = e] : e \in {"vlan_goose", "vlan_sv", "goose", "sv", "ipv4", "other"}}
  \cup {[f EXCEPT !.dmac = <<"other", 0>>], [f EXCEPT !.size = 63], [f EXCEPT !.appid = @ + 1]}
  \cup {[f EXCEPT !.apdu = a] : a \in Apdus(f.apdu)}

Ips(ip) ==
  {[ip EXCEPT !.vihl = 70], [ip EXCEPT !.proto = 6], [ip EXCEPT !.dst = @ + 1],
   [ip EXCEPT !.csum = << >>]}
  \cup {[ip EXCEPT !.frag = x] : x \in {"none", "MF", "offset"}}
  \cup {[ip EXCEPT !.len = l] : l \in {27, ip.len - 1, ip.len + 1}}

Udps(udp) ==
  {[udp EXCEPT !.src = @ + 1], [udp EXCEPT !.dst = 103]}
  \cup {[udp EXCEPT !.len = l] : l \in {7, udp.len - 1, udp.len + 1}}

Sessions(ses) ==
  {[ses EXCEPT !.cltp = "bad"], [ses EXCEPT !.pi = "bad"],
   [ses EXCEPT !.version = 1], [ses EXCEPT !.keyId = @ + 1],
   [ses EXCEPT !.spduNumber = Plus(@, 1)], [ses EXCEPT !.spduNumber = Plus(@, 2)]}
  \cup {[ses EXCEPT !.si = x] : x \in SI \cup {"bad"}}
  \cup {[ses EXCEPT !.ivLen = x] : x \in {0, IV_LEN_GCM, 255}}
  \cup {[ses EXCEPT !.iv[k] = 0] : k \in DOMAIN ses.iv}
  \cup {[ses EXCEPT !.payloadLength = x] : x \in {5, ses.payloadLength - 1, 65536}}

Regions(region) ==
  {[region EXCEPT !.appid = @ + 1]}
  \cup {[region EXCEPT !.ptype = x] : x \in PayloadType \cup {"bad"}}
  \cup {[region EXCEPT !.apdu = a] : a \in Apdus(region.apdu)}

Trailers(trl) ==
  {[trl EXCEPT !.tag = 0], [trl EXCEPT !.len = 15], [trl EXCEPT !.mac = [alg |-> "altered"]]}

RAltered(f) ==
  {[f EXCEPT !.eth = e] : e \in {"goose", "sv", "other"}}
  \cup {[f EXCEPT !.dmac = multicast_mac(f.ip.dst + 1)]}
  \cup {[f EXCEPT !.size = z] : z \in {f.size - 1, R_MIN_FRAME_SIZE - 1}}
  \cup {[f EXCEPT !.ip = x] : x \in Ips(f.ip)}
  \cup {[f EXCEPT !.udp = x] : x \in Udps(f.udp)}
  \cup {[f EXCEPT !.ses = x] : x \in Sessions(f.ses)}
  \cup {[f EXCEPT !.region = x] : x \in Regions(f.region)}
  \cup {[f EXCEPT !.trl = x] : x \in Trailers(f.trl)}

Alter ==
  /\ wire # << >>
  /\ wire[1].state = "intact"
  /\ altered < MaxAltered
  /\ \E f \in (IF run.kind \in RKind THEN RAltered(wire[1].frame)
               ELSE L2Altered(wire[1].frame)) \ {wire[1].frame} :
       wire' = << [wire[1] EXCEPT !.frame = f, !.state = "altered"] >>
  /\ UNCHANGED <<sender, receiver, altered, cut>>

-----------------------------------------------------------------------------
(* The processor.                                                          *)

\* ol_flags of a received mbuf.
OlFlags(f) ==
  CASE run.nic = "does not check" \/ "ip" \notin DOMAIN f -> "unknown"
    [] OTHER -> IF ipv4_checksum_ok(f.ip) THEN "good" ELSE "bad"

IsGooseProto(proto) == proto \in {"GOOSE", "R_GOOSE"}

\* The counter of a frame, by stage and result.
CounterOf(proto, err, known) ==
  CASE proto = "NON_BUS" -> "toKernel"
    [] proto # "NON_BUS" /\ err = "AUTH" -> "errAuth"
    [] proto # "NON_BUS" /\ err \notin {"OK", "AUTH"} ->
         IF IsGooseProto(proto) THEN "errGoose" ELSE "errSV"
    [] proto # "NON_BUS" /\ err = "OK" /\ ~known ->
         IF IsGooseProto(proto) THEN "unknownGoose" ELSE "unknownSV"
    [] OTHER -> IF IsGooseProto(proto) THEN "rxGoose" ELSE "rxSV"

\* ProcessSessionState of a routable stream, then ProcessState.
Tracked(t, proto, p) ==
  LET u == IF proto \in SI THEN ProcessSessionState(t, p.spdu) ELSE t
  IN  IF IsGooseProto(proto) THEN GooseProcessState(u, p.seq)
      ELSE SVProcessState(u, p.seq, p.num)

\* Whether what the tracker got are the numbers of the frame that was sent.
Genuine(w, proto, p) == p.seq = w.i.num /\ (proto \in SI => p.spdu = w.i.spdu)

Receive ==
  /\ wire # << >>
  /\ LET w == wire[1]
         proto == get_proto_type(w.frame)
     IN  \E p \in Parse(w.frame, run.rx, OlFlags(w.frame)) :
           LET to == IF p.err = "OK" THEN Found(run.kind, p) ELSE {}
           IN  /\ cnt' = [cnt EXCEPT ![CounterOf(proto, p.err, to # {})] = @ + 1]
               /\ tracker' = [t \in Stream |->
                    IF t \in to THEN Tracked(tracker[t], proto, p) ELSE tracker[t]]
               /\ newest' = [t \in Stream |->
                    IF t \notin to THEN newest[t]
                    ELSE IF t = w.s /\ Genuine(w, proto, p) THEN w.n ELSE 0]
               /\ gaps' = [t \in Stream |->
                    IF t \in to /\ w.n # newest[t] + 1 THEN gaps[t] + 1 ELSE gaps[t]]
               /\ altered' = IF w.state = "intact" THEN altered ELSE altered + 1
               /\ cut' = IF NameIsCut(run.kind, w.s) THEN cut + 1 ELSE cut
  /\ wire' = << >>
  /\ UNCHANGED sender

Next == \/ \E s \in Stream, m \in Mbuf : Send(s, m)
        \/ Lose \/ Pad \/ Alter
        \/ Receive

Spec == Init /\ [][Next]_vars

-----------------------------------------------------------------------------
(* Properties.                                                             *)

\* The IEDs of an SV run stay within their second, the numbers within their
\* width (the type invariant).
TypeOK ==
  /\ run \in Runs
  /\ \A s \in Stream :
       /\ ied[s].spdu \in SeqNum
       /\ ied[s].num \in IF IsGooseKind(run.kind) THEN SeqNum
                         ELSE 0 .. SmpFreq[AsduNum(run.kind)] - 1
       /\ tracker[s] \in [spdu : SeqNum, errSpdu : 0 .. MaxSent[s], seq : Nat, errSeq : 0 .. MaxSent[s]]
       /\ sent[s] \in 0 .. MaxSent[s] /\ newest[s] \in 0 .. sent[s] /\ gaps[s] \in 0 .. sent[s]
  /\ cnt \in [Counter -> Nat]
  /\ altered \in 0 .. MaxAltered
  /\ cut \in Nat
  /\ Len(wire) <= 1

\* A frame does not depend on what the mbuf or the worker's master was used for
\* before: it is the one that a new skeleton would give.
FrameIsFresh ==
  wire # << >> /\ wire[1].state = "intact" =>
    LET w == wire[1]
        new == Skeleton(run.kind, run.tx)
        fresh == IF run.kind \in RKind
                   THEN RAmend(run.kind, run.tx, new,
                               RRegion(run.kind, run.tx, new, new.region, w.s, w.i), w.s, w.i)
                   ELSE L2Amend(run.kind, new, w.s, w.i)
    IN  [w.frame EXCEPT !.size = new.size] = fresh

Rejected == cnt["unknownGoose"] + cnt["unknownSV"] + cnt["errGoose"] + cnt["errSV"]
            + cnt["errAuth"] + cnt["toKernel"]
Accepted == cnt["rxGoose"] + cnt["rxSV"]

\* Generator and processor with the same security mode understand each other:
\* only frames altered on the wire are rejected, padded ones are not.  The
\* exception are the SV streams from number 10000 on: the generator copies four
\* digits of the number into the svID, the processor looks for all of them, and
\* not one of their frames is accepted.
RejectedAreAlteredOrCut ==
  /\ run.tx = run.rx => Rejected <= altered + cut
  /\ cut <= Rejected

\* A processor that verifies, with a generator of another mode, accepts nothing
\* and shows every intact frame as an authentication error.
OtherModeIsRejected ==
  run.rx # "none" /\ run.tx # run.rx =>
    /\ Accepted = 0
    /\ Rejected - altered <= cnt["errAuth"]

\* Nothing was altered, or the processor verifies what the generator signs.
Trusted == run.tx = run.rx /\ (run.rx # "none" \/ altered = 0)

Delivery == INSTANCE StreamDelivery WITH Source <- Stream, published <- sent

\* Every stream sees its own frames only, with their own numbers, in the order
\* of sending, whatever single field was altered on the way.
DeliversGenuine == [][Trusted' => Delivery!Next]_<<sent, newest>>

\* The error counters of a tracker tell of losses only; for GOOSE every run of
\* lost frames is told exactly once, also across the wrap of both numbers.
GapsTellLosses ==
  Trusted => \A s \in Stream :
    /\ Gaps(tracker[s]) <= gaps[s]
    /\ IsGooseKind(run.kind) => Gaps(tracker[s]) = gaps[s]
=============================================================================
