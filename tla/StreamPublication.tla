-------------------------- MODULE StreamPublication --------------------------
(***************************************************************************)
(* What the receiver's gap counters take for granted of a publisher: the   *)
(* frames of every stream reach the wire with consecutive numbers.         *)
(* SoftwareRSS makes this assumption of its sources.                       *)
(***************************************************************************)
EXTENDS Naturals

CONSTANT Stream

VARIABLE wire   \* number of the newest frame of each stream on the wire

Init == wire = [s \in Stream |-> 0]

Publish(s) == wire' = [wire EXCEPT ![s] = @ + 1]

Next == \E s \in Stream : Publish(s)

Spec == Init /\ [][Next]_wire
=============================================================================
