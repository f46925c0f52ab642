--------------------------- MODULE MCAppIdContainer ---------------------------
(***************************************************************************)
(* Small instances of AppIdContainer: APPIDs of three bits.                *)
(***************************************************************************)
EXTENDS AppIdContainer

CONSTANT None

\* One kind of stream, up to the last APPID that is still unique.
OneKind == {c \in Config : \E k \in Kind : \A l \in Kind \ {k} : c[l] = 0}

\* --sv80 2 --sv256 1
TwoKinds == {[k \in Kind |-> CASE k = "sv80"  -> 2
                               [] k = "sv256" -> 1
                               [] OTHER       -> 0]}
=============================================================================
