---------------------------- MODULE AppIdContainer ----------------------------
(***************************************************************************)
(* The stream lookup of the processor: RX_Application::Init fills the SV   *)
(* container once, one loop per kind of stream, and the pipeline stages    *)
(* look every received frame up in it.  The GOOSE container is the same    *)
(* code with two kinds instead of four.                                    *)
(*                                                                         *)
(* The container indexes by APPID only.  The key it stores with a source   *)
(* holds string views into that source; a source the container no longer   *)
(* owns is freed, and comparing with its key then reads freed memory.      *)
(***************************************************************************)
EXTENDS Naturals, Sequences

CONSTANTS
  APPID_NUM,  \* USHRT_MAX + 1
  MaxStreams, \* bound: streams per kind a command line may ask for
  Configs,    \* the command lines considered
  NotFound

Kind == {"sv80", "sv256", "rsv80", "rsv256"}

\* Two passports differ in the kind (ASDUs per frame, destination) or in the
\* SVID, which is numbered within the kind.
Passport == [kind : Kind, idx : 0 .. MaxStreams - 1]

\* Streams configured per kind (--sv80, --sv256, --rsv80, --rsv256).
Config == [Kind -> 0 .. MaxStreams]

ASSUME ContainerAssumption ==
  /\ APPID_NUM \in Nat \ {0}
  /\ MaxStreams \in Nat
  /\ Configs \subseteq Config
  /\ NotFound \notin Passport

AppId == 0 .. APPID_NUM - 1

\* SetAppID(0x0001 + i) keeps 16 bits.
KeyAppId(p) == (1 + p.idx) % APPID_NUM

\* The streams of a command line in the order of the loops of Init.
Loop(kind, num) == [i \in 1 .. num |-> [kind |-> kind, idx |-> i - 1]]
StreamsOf(c) == Loop("sv80", c["sv80"]) \o Loop("sv256", c["sv256"])
                \o Loop("rsv80", c["rsv80"]) \o Loop("rsv256", c["rsv256"])

VARIABLES
  streams,   \* what Init has to register
  register,  \* m_register
  values,    \* m_values: the stored key and the owned source
  next,      \* position in streams of the one registered next
  asked,     \* history: key of the latest find
  answer     \* its result

containerVars == <<streams, register, values, next, asked, answer>>

\* Past every index of m_values.
SIZE_MAX == 4 * MaxStreams

ContainerInit ==
  /\ streams \in {StreamsOf(c) : c \in Configs}
  /\ register = [a \in AppId |-> SIZE_MAX]
  /\ values = << >>
  /\ next = 1
  /\ asked = NotFound
  /\ answer = NotFound

\* m_values is indexed from 0, sequences from 1.
Slot(p) == register[KeyAppId(p)] + 1

\* Faulty variant: the index is taken after the element was added.
InsertAfter(p) ==
  /\ register' = [register EXCEPT ![KeyAppId(p)] = Len(values) + 1]
  /\ values' = Append(values, [key |-> p, src |-> p])

\* insert(key, TValue()), then the assignment of the source.
Insert(p) ==
  /\ register' = [register EXCEPT ![KeyAppId(p)] = Len(values)]
  /\ values' = Append(values, [key |-> p, src |-> p])

\* m_svMap[src->GetPassport()] = src: an APPID that is taken keeps its key and
\* gets the new source; the old source dies with its last reference.
Assign(p) ==
  IF register[KeyAppId(p)] >= Len(values)
    THEN Insert(p)
    ELSE /\ values' = [values EXCEPT ![Slot(p)].src = p]
         /\ UNCHANGED register

Configure ==
  /\ next <= Len(streams)
  /\ Assign(streams[next])
  /\ next' = next + 1
  /\ UNCHANGED <<streams, asked, answer>>

Owned == {values[k].src : k \in DOMAIN values}

\* Faulty variant: the APPID alone decides.
EqualByAppId(key, p) == {KeyAppId(key) = KeyAppId(p)}

\* The comparison m_values[idx].first == key: the numbers are compared first;
\* the views of a dead source then read freed memory and may say anything.
Equal(key, p) ==
  IF key # p THEN {FALSE} ELSE IF key \in Owned THEN {TRUE} ELSE BOOLEAN

Find(p) ==
  /\ next > Len(streams)
  /\ asked' = p
  /\ IF register[KeyAppId(p)] < Len(values)
       THEN \E same \in Equal(values[Slot(p)].key, p) :
              answer' = IF same THEN values[Slot(p)].src ELSE NotFound
       ELSE answer' = NotFound
  /\ UNCHANGED <<streams, register, values, next>>

ContainerNext == Configure \/ \E p \in Passport : Find(p)

ContainerSpec == ContainerInit /\ [][ContainerNext]_containerVars

-----------------------------------------------------------------------------
(* Properties.                                                             *)

\* Indexes, keys and sources stay in range (the type invariant).
ContainerTypeOK ==
  /\ streams \in Seq(Passport)
  /\ register \in [AppId -> Nat]
  /\ values \in Seq([key : Passport, src : Passport])
  /\ next \in 1 .. Len(streams) + 1
  /\ asked \in Passport \cup {NotFound}
  /\ answer \in Passport \cup {NotFound}

\* No two streams of a command line have the same APPID, as the comment on the
\* container requires.
UniqueAppIds ==
  \A c \in Configs : LET s == StreamsOf(c) IN
    \A i, j \in DOMAIN s : KeyAppId(s[i]) = KeyAppId(s[j]) => i = j

\* The register and the values agree: every stored source has its own key, and
\* its APPID leads back to it.
RegisterInv ==
  /\ Len(values) = next - 1
  /\ \A k \in DOMAIN values :
       /\ values[k] = [key |-> streams[k], src |-> streams[k]]
       /\ register[KeyAppId(streams[k])] = k - 1
  /\ \A a \in AppId : register[a] < Len(values) =>
       KeyAppId(streams[register[a] + 1]) = a

\* The container behaves like a map from passports to sources.
Table == INSTANCE StreamTable WITH table <- {values[k].key : k \in DOMAIN values}
MapSpec == Table!Spec

\* Every stream Init has registered is found by its own passport.
ConfiguredIsFound == \A i \in DOMAIN streams : asked = streams[i] => answer = asked
=============================================================================
