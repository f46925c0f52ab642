----------------------------- MODULE StreamTable -----------------------------
(***************************************************************************)
(* What the receive path expects of its stream lookup, and what the        *)
(* comment on AppIdContainer promises: the behaviour of an associative     *)
(* map from the passport of a stream to its source.                        *)
(***************************************************************************)
CONSTANTS Passport, NotFound

VARIABLES table,    \* passports registered so far
          asked,    \* the passport looked up last
          answer    \* what was found: the passport of the source

Init == table = {} /\ asked = NotFound /\ answer = NotFound

Register(p) == /\ table' = table \cup {p}
               /\ UNCHANGED <<asked, answer>>

Find(p) == /\ asked' = p
           /\ answer' = IF p \in table THEN p ELSE NotFound
           /\ UNCHANGED table

Next == \E p \in Passport : Register(p) \/ Find(p)

Spec == Init /\ [][Next]_<<table, asked, answer>>
=============================================================================
