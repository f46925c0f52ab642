---------------------------- MODULE MCSoftwareRSS ----------------------------
(***************************************************************************)
(* Small instances of SoftwareRSS.  Two workers; key 1 is worker 1,        *)
(* the keys 2 and 0 are worker 0.                                          *)
(***************************************************************************)
EXTENDS SoftwareRSS

CONSTANTS goose, sv, rgoose, rsv, ip

MCProto == [s \in Source |->
  CASE s = goose  -> "GOOSE"
    [] s = sv     -> "SV"
    [] s = rgoose -> "R_GOOSE"
    [] s = rsv    -> "R_SV"
    [] s = ip     -> "NON_BUS"]

MCRssKey == [s \in Source |->
  CASE s = goose  -> 2
    [] s = sv     -> 1
    [] s = rgoose -> 1
    [] s = rsv    -> 2
    [] s = ip     -> 0]

MCNumASDU == [s \in Source |-> IF s = rsv THEN 2 ELSE 1]
MCSmpFreq == [s \in Source |-> IF s = rsv THEN 4 ELSE 2]

\* Order, losses and counters: three frames of a GOOSE stream and one that is
\* no bus frame overflow the ring they share; a routable stream on the other
\* worker meets them in the counters, with every verdict.
OrderMaxSent == [s \in Source |-> IF s = goose THEN 3 ELSE 1]
AnyVerdict == [s \in Source |-> IF s = rgoose THEN Verdict ELSE {"ok"}]

\* Samples: the counter of an SV stream of two samples a second restarts.
AllRegistered == [s \in Source |-> {"ok"}]
SampleMaxSent == [s \in Source |-> IF s = sv THEN 3 ELSE 2]
=============================================================================
