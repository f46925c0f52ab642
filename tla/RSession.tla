------------------------------- MODULE RSession -------------------------------
(***************************************************************************)
(* The session envelope of routable GOOSE and SV (namespace RSess): its    *)
(* layout, what build and seal write, and what parse_session, unseal and   *)
(* parse_payload accept.                                                   *)
(*                                                                         *)
(* A session PDU is a record of its three parts: `ses', the header up to   *)
(* the payload length; `region', the payload header and the APDU, which    *)
(* AES-GCM encrypts; and `trl', the signature trailer.  Lengths and        *)
(* offsets are those of the code.  Cryptography is symbolic: a tag is the  *)
(* data it was computed over, and `enc' lists the initialisation vectors   *)
(* under which the region was encrypted and not yet decrypted.             *)
(***************************************************************************)
EXTENDS Naturals, Sequences

SecurityMode == {"none", "hmac", "gcm"}
SI == {"R_GOOSE", "R_SV"}
PayloadType == {"GOOSE", "SV"}

KEY_ID == 1
IV_LEN_GCM == 12
TAG_SIZE == 16
SIGNATURE_TAG == 133          \* 0x85
SESSION_VERSION == 2
SESSION_FIXED_SIZE == 27
PAYLOAD_HDR_SIZE == 10
PAYLOAD_ELEM_SIZE == 6
TRAILER_SIZE == 2 + TAG_SIZE
ETH_IP_UDP_SIZE == 14 + 20 + 8

iv_length(mode) == IF mode = "gcm" THEN IV_LEN_GCM ELSE 0
payload_hdr_offset(ivLen) == SESSION_FIXED_SIZE + ivLen
apdu_offset(ivLen) == payload_hdr_offset(ivLen) + PAYLOAD_HDR_SIZE
trailer_size(mode) == IF mode = "none" THEN 0 ELSE TRAILER_SIZE
udp_payload_size(mode, apduLength) ==
  apdu_offset(iv_length(mode)) + apduLength + trailer_size(mode)

\* Checks in the order of the code, of which the first that fails decides:
\* Require(c1, e1) ?? Require(c2, e2) ?? ...
Require(condition, error) == IF condition THEN "OK" ELSE error
first ?? second == IF first = "OK" THEN second ELSE first

-----------------------------------------------------------------------------
(* Sending.                                                                *)

\* Without an IV the bytes are not there; with one, build leaves them zero.
EmptyIV(mode) == IF mode = "gcm" THEN <<0, 0>> ELSE << >>
DeriveIV(keyId, spduNumber) == <<keyId, spduNumber>>

NoTrailer == [tag |-> 0, len |-> 0, mac |-> [alg |-> "none"]]

build(si, ptype, mode, apdu, apduLength) ==
  [ses |-> [cltp |-> "ok", si |-> si, pi |-> "ok", spduNumber |-> 0,
            version |-> SESSION_VERSION, keyId |-> KEY_ID,
            ivLen |-> iv_length(mode), iv |-> EmptyIV(mode),
            payloadLength |-> PAYLOAD_ELEM_SIZE + apduLength],
   region |-> [enc |-> << >>, ptype |-> ptype, appid |-> 0, apdu |-> apdu],
   trl |-> NoTrailer]

\* Faulty variant: the tag covers the payload only.
HmacOverPayload(ses, region) == [alg |-> "hmac", region |-> region]

\* The authenticated range is everything before the trailer.
Hmac(ses, region) == [alg |-> "hmac", ses |-> ses, region |-> region]

\* The additional data is the header; the ciphertext is authenticated with it.
GcmTag(ses, region) == [alg |-> "gcm", ses |-> ses, region |-> region]

Encrypt(region, iv) == [region EXCEPT !.enc = Append(@, iv)]

\* b is a frame that has the three parts of a session PDU among its fields.
seal(b, mode) ==
  LET iv == DeriveIV(b.ses.keyId, b.ses.spduNumber)
      trailer(mac) == [tag |-> SIGNATURE_TAG, len |-> TAG_SIZE, mac |-> mac]
  IN  CASE mode = "none" -> b
        [] mode = "hmac" -> [b EXCEPT !.trl = trailer(Hmac(b.ses, b.region))]
        [] mode = "gcm" ->
             [b EXCEPT !.ses.iv = iv,
                       !.region = Encrypt(b.region, iv),
                       !.trl = trailer(GcmTag([b.ses EXCEPT !.iv = iv], b.region))]

-----------------------------------------------------------------------------
(* Receiving.  An IV length that is not that of the IV in the frame makes  *)
(* the receiver read the rest at the wrong place: the payload length is    *)
(* then any number, here one that is too small, one that fits and one that *)
(* is too large.                                                           *)

Aligned(ses) == ses.ivLen = IF ses.iv = << >> THEN 0 ELSE IV_LEN_GCM

PayloadLengthRead(ses) ==
  IF Aligned(ses) THEN {ses.payloadLength} ELSE {0, PAYLOAD_ELEM_SIZE, 65536}

\* parse_session: size is that of the UDP payload, len the payload length read.
SessionChecks(ses, size, len) ==
  LET phOff == payload_hdr_offset(ses.ivLen)
  IN  Require(size >= SESSION_FIXED_SIZE + 4, "TOO_SHORT")
      ?? Require(ses.cltp = "ok", "BAD_CLTP")
      ?? Require(ses.si \in SI, "BAD_SI")
      ?? Require(ses.pi = "ok", "BAD_PI")
      ?? Require(ses.version = SESSION_VERSION, "BAD_VERSION")
      ?? Require(phOff + PAYLOAD_HDR_SIZE <= size, "TOO_SHORT")
      ?? Require(len >= PAYLOAD_ELEM_SIZE /\ phOff + 4 + len <= size, "BAD_PAYLOAD_LEN")

\* What Decrypt leaves in place when the tag verifies.
Decrypted(region) ==
  [region EXCEPT !.enc = SubSeq(@, 1, Len(@) - 1)]

Decrypt(b) ==
  /\ b.region.enc # << >>
  /\ b.region.enc[Len(b.region.enc)] = b.ses.iv
  /\ b.trl.mac = GcmTag(b.ses, Decrypted(b.region))

\* Faulty variant: a frame that is too short for a trailer has none to verify.
unsealLenient(b, size, mode, len) ==
  LET payloadEnd == payload_hdr_offset(b.ses.ivLen) + 4 + len
  IN  \/ mode = "none"
      \/ payloadEnd + TRAILER_SIZE > size
      \/ mode = "hmac" /\ b.trl.mac = Hmac(b.ses, b.region)
      \/ mode = "gcm" /\ Decrypt(b)

unseal(b, size, mode, len) ==
  LET payloadEnd == payload_hdr_offset(b.ses.ivLen) + 4 + len
  IN  \/ mode = "none"
      \/ /\ payloadEnd + TRAILER_SIZE <= size
         /\ b.trl.tag = SIGNATURE_TAG
         /\ \/ mode = "hmac" /\ b.trl.mac = Hmac(b.ses, b.region)
            \/ /\ mode = "gcm"
               /\ b.ses.ivLen = IV_LEN_GCM /\ b.trl.len = TAG_SIZE
               /\ Decrypt(b)

\* parse_payload.
PayloadChecks(region) == Require(region.ptype \in PayloadType, "BAD_PAYLOAD_TYPE")
=============================================================================
