----------------------------- MODULE MCFramePath -----------------------------
(***************************************************************************)
(* Small instances of FramePath: three streams of two workers in two       *)
(* groups.  Stream 0 goes through the wrap of its numbers, the others      *)
(* leave their contents in the mbufs.  The SV frames of stream 9999, whose *)
(* number has five digits, carry the name of stream 999.                   *)
(***************************************************************************)
EXTENDS FramePath

MCOwnerOf == [s \in Stream |-> IF s = 9999 THEN 1 ELSE 0]
MCMaxSent == [s \in Stream |-> IF s = 0 THEN 5 ELSE 1]
MCSmpFreq == [n \in {1, 2} |-> IF n = 1 THEN 3 ELSE 4]

\* L2 traffic has no security mode and its frames no IPv4 header to check.
\* What the NIC does matters to the runs that can accept a frame.
MCRuns == {r \in Run :
  /\ r.kind \in L2Kind => r.tx = "none" /\ r.rx = "none"
  /\ r.nic = "checks" => r.kind \in RKind /\ r.tx = r.rx}
=============================================================================
