---------------------------- MODULE StreamDelivery ----------------------------
(***************************************************************************)
(* What the processor promises about a stream: frames are handed to its    *)
(* tracker in publication order, each at most once, only after they were   *)
(* published; any of them may be lost on the way.                          *)
(***************************************************************************)
EXTENDS Naturals

CONSTANT Source

VARIABLES published,   \* frames each source has published
          newest       \* newest frame of the source the tracker has seen

Init == /\ published = [s \in Source |-> 0]
        /\ newest = [s \in Source |-> 0]

Publish(s) == /\ published' = [published EXCEPT ![s] = @ + 1]
              /\ UNCHANGED newest

Deliver(s, n) == /\ newest[s] < n
                 /\ n <= published[s]
                 /\ newest' = [newest EXCEPT ![s] = n]
                 /\ UNCHANGED published

Next == \E s \in Source : \/ Publish(s)
                          \/ \E n \in 1 .. published[s] : Deliver(s, n)

Spec == Init /\ [][Next]_<<published, newest>>
=============================================================================
