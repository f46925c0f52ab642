------------------------------ MODULE MCSvApdu ------------------------------
(***************************************************************************)
(* APDUs for the walk: three that an IED may send, with two channels for   *)
(* eight, and what becomes of them when bytes are altered or cut off.      *)
(***************************************************************************)
EXTENDS SvApdu, SequencesExt

Zeros(n) == [i \in 1 .. n |-> 0]

\* A TLV with the length in one byte, or in two or three (long form).
T(tag, value) == <<tag, Len(value)>> \o value
T1(tag, value) == <<tag, 129, Len(value)>> \o value
T2(tag, value) == <<tag, 130, 0, Len(value)>> \o value

Data == Zeros(CHANNELS * 8)
Values == [i \in 1 .. CHANNELS * 8 |-> IF (i - 1) % 8 < 4 THEN 200 + i ELSE 0]
PlainAsdu(n) == T(48, T(128, <<83>>) \o T(130, <<1, n>>) \o T(131, <<0, 0, 0, 1>>)
                      \o T(133, <<2>>) \o T(135, Values))
FullAsdu == T1(48, T(128, <<83, 86>>) \o T1(129, <<68>>) \o T(130, <<255, 255>>)
                   \o T2(131, <<128, 0, 0, 1>>) \o T(132, Zeros(8)) \o T(133, <<0>>)
                   \o T(134, <<0, 80>>) \o T1(135, Data) \o T(136, <<0, 0>>))

Two == T(96, T(128, <<2>>) \o T(162, PlainAsdu(7) \o PlainAsdu(8)))
Full == T2(96, T1(128, <<0, 1>>) \o T1(162, FullAsdu)) \o <<0, 0>>   \* padded
Three == T1(96, T(128, <<3>>) \o T1(162, PlainAsdu(0) \o PlainAsdu(1) \o PlainAsdu(2)))

Base == {Two, Full, Three}
Near(b) == {0, 1, 2, 3, 48, 127, 128, 129, 130, 131, 132, 133, 134, 135, 255}
           \cup ({b - 1, b + 1} \cap 0 .. 255)

Cut(s) == {SubSeq(s, 1, n) : n \in 0 .. Len(s)}
Altered(s) == UNION {{[s EXCEPT ![i] = b] : b \in Near(s[i])}
                       : i \in DOMAIN s}
Altered2(s) == UNION {{[s EXCEPT ![i] = b, ![i + 1] = c] : b, c \in {0, 1, 129, 130, 132, 133}}
                        : i \in 1 .. Len(s) - 1}

MCInput == UNION {Cut(s) \cup Altered(s) \cup Altered2(s) : s \in Base}
=============================================================================
