# ProcessBus: TLA+ models, checks and proofs

ProcessBus is two DPDK programs for an IEC 61850 process bus. `bus_generator`
simulates many publishers of GOOSE, SV, R-GOOSE and R-SV; `bus_processor`
receives their streams, checks the sequence numbers of each stream and reports
losses and load. Its verdict ("no gap, no error") is only worth as much as the
two programs' own bookkeeping: a receiver that reorders a stream, a generator
that skips a number, or a counter that loses an increment would blame or absolve
the system under test. This directory models that bookkeeping.

Paths below are relative to the repository's `src/` directory
(`bus_processor/...`, `bus_generator/...`, `common/...`, `dpdk_cpp/...`).

## 1. Inventory

| Part | State | Operations | What must hold |
|---|---|---|---|
| Software RSS receive path (`rx_application.cpp` `multi_core_rss`, `lcore_processor`; `pipeline_pbus.hpp`) | NIC ring, staging array per worker, an SP/SC ring per worker, batch per worker, shared counters | poll, dispatch by key, enqueue or drop, dequeue, pipeline stages, free | a stream stays on one worker and in order; no mbuf lost; every frame accounted for |
| Stream trackers (`goose_container.hpp`, `sv_container.hpp`) | last numbers, error counters | `ProcessState`, `ProcessSessionState`, `CountGaps` | no gap is reported without a loss; for GOOSE every run of losses is reported exactly once |
| Stream lookup (`appid_container.hpp`) | register indexed by APPID, vector of key and source | insert, `operator[]`, find | behaves like a map |
| Processor run control (`bus_processor/main.cpp`, `rx_application.cpp`) | `g_doWork`, `m_runStarted`, `m_statDisplaySec`, `m_lastPortStat`, pointers to load statistics | start, link wait, loop, display, time limit, signal, exception, join | every stop request ends the process; `--time` is kept; what is shown is final |
| Generator, burst mode (`gen_application.cpp` `tx_burst_worker_cycle`) | staged mbufs, stream numbers, TX ring, shared mempool | stage, wait for the second, fire, stop | no gap of its own; no mbuf lost; no two workers waiting for each other |
| Generator, steady mode (`tx_packets_cycle`, `tx_r_worker_cycle`) | unit, block, chunk, the same resources | allocate, amend, send, free the tail | gaps of its own are counted; mbufs are conserved |
| Pacing (`RTxControl`, `delay_until_ticks`) | barrier, start tick, second start per worker | meet twice, wait for a tick, resynchronise | common start, one pulse a second |
| Frame skeletons (`MakeSkeletonPacket` of the generators, `r_frame_builder.*`) | the skeleton in every mbuf, the fields of each group | built once at the start | the processor understands what they become |
| Traffic amendment (`AmendPacket` and its SV variants) | numbers per stream, mbufs with what their last use left, the plain master under GCM | write the stream's fields, seal | a frame is that of its stream alone |
| R-session envelope and crypto (`r_session*`) | none between frames | build, seal, parse, unseal | what one side seals the other accepts, and nothing else |
| Parser (`process_bus_parser.*`) | none between frames | route, check the envelope, unwrap, walk the APDU | rejects what is not well formed, accepts the rest, reads inside the frame |
| Console tables, DPDK builders, udmabuf heap, tools, deploy scripts | none that matters afterwards | | not modelled |

How they interact: the generator's workers share the mempool and `g_doWork`; the
NIC drains each TX ring concurrently. On the processor the main lcore hands mbufs
to workers through rings; the workers share plain integer counters but no
tracker; the auxiliary thread reads counters and load statistics while everyone
runs, and clears `g_doWork` on a signal or at the time limit. The generator's
frame numbers are what the processor's trackers check.

Hard to test: interleavings of lcores at rings and counters; a full ring, an
empty pool or a full TX ring at any point; a stop request at any point; late
timers; overshooting waits; legal option combinations that collide. Each of these
is listed with its line, and the properties that watch it, in `PROJECT.json`
under `hazards`.

## 2. Modules

| Module | Models |
|---|---|
| `StreamTracker` | operators: the trackers' checks and `CountGaps` |
| `SoftwareRSS` | the receive path, one action per step of main, of a worker, of the port |
| `StreamDelivery` | abstract: each stream is delivered in order, at most once, with losses |
| `SoftwareRSSProofs` | TLAPS proofs about `SoftwareRSS` |
| `MCSoftwareRSS` | sources, keys and verdicts of the runs |
| `AppIdContainer`, `MCAppIdContainer` | the lookup and the configuration loops that fill it |
| `StreamTable` | abstract: a map from passports to sources |
| `Slices` | operators: which streams a worker publishes |
| `Sums` | operators: a sum over workers or streams |
| `TxWorkers` | shared by both transmit loops: plans, pool checks, chunks, mempool |
| `TxBurst`, `TxBurstProofs` | burst mode, and TLAPS proofs about it |
| `TxSteady`, `TxSteadyProofs` | steady mode, and TLAPS proofs about it |
| `StreamPublication` | abstract: consecutive numbers on the wire, what the trackers assume |
| `TxPacing`, `TxPacingProofs` | start barrier and second boundaries of both modes, and TLAPS proofs |
| `RunControl`, `RunControlProofs` | start, supervision and shutdown of the processor, and TLAPS proofs |
| `NumberFacts` | lemmas for the proofs: induction, remainders, sums, slices, counts |
| `RSession` | operators: layout, sealing and verification of the session envelope |
| `BusFrame` | operators: skeletons, routing, envelope checks, parse functions, passports |
| `FramePath`, `MCFramePath` | a frame from a recycled mbuf over the wire to its tracker; composes `BusFrame` with `StreamTracker` |
| `FramePathProofs` | TLAPS proofs about `FramePath`, and about `AppIdContainer`, the lookup it passes |
| `SvApdu`, `MCSvApdu` | `parse_sv_apdu` byte by byte, one action per TLV |
| `SvApduProofs` | TLAPS proofs about `SvApdu` |

### SoftwareRSS

`nic`, `bufs`, `workerQueue`, `ring`, `batch` are the arrays a frame passes
through; `mpc`/`wpc` are the control points of main and workers. `Arrive` is the
port: it takes a frame if it has a descriptor and an mbuf and drops it otherwise.
`MainCheck`, `RxBurst`, `Dispatch` (one frame per step), `EnqueueBurst` (one ring
per step, with the freeing and counting of what a full ring does not take) are
`multi_core_rss`; `WorkerCheck`, `DequeueBurst`, `StageFrame`, `StoreCounter`,
`IPStage`, `FreeBulk` are `lcore_processor` with its pipeline. The router stage
splits a batch by protocol and the stages run one after the other: `StageFrame`
handles the next frame in that order (`HandledBefore`). A counter increment is a
read (`reg`) and a later write, because the code's counters are plain integers
shared by all workers.

Data is abstract: a frame is its source, its position in the publication and the
verdict that parsing and lookup give it; the numbers it carries (`StNum`,
`SpduNumber`, `SmpCnt`) are computed from the position the way the generator
numbers frames. The RSS key is a constant of a source because `get_proto_type`
takes it from fields the publisher does not change. Mbufs that wait empty in RX
descriptors are not counted: `Arrive` takes one from the pool instead. `sqNum` of
GOOSE is not checked by the code and is left out.

`lastN`, `delivered` and `tally` are history variables.

### AppIdContainer

`Configure` is one iteration of the loops in `RX_Application::Init`. The key
stored in the vector holds string views into its source; when a second
stream with the same APPID replaces the source, comparing the key reads freed
memory, so `Equal` then returns either answer. APPIDs keep their width
(`% APPID_NUM`, three bits in the runs).

### TxBurst and TxSteady

One worker's loop each, with the allocation of a chunk, the amendment of a single
frame and the tx_burst as separate steps; `Transmit` is the NIC. The mempool has
a common part and a cache per lcore, all-or-nothing allocation, and a TX ring
keeps the mbufs of sent frames until the driver reclaims them: those two places
are where mbufs hide when a pool seems large enough. The cache is modelled with a
capacity of `CACHE_NUM`; frames of the pool's initial RX descriptors are taken
off the pool at the start. `CheckBurstFits` does not count these receive
descriptors; a burst that just fits is staged nevertheless as long as
`RX_DESC_NUM <= TX_DESC_NUM + CACHE_NUM + 1` (the worker's own ring and cache can
supply what the check reserved for them), which all platforms satisfy (128
against at least 1024 + 64). L2 traffic is one worker (`IsR = FALSE`); the
routable loop and the L2 loop are the same code.

### TxPacing

Time without data. The clock may tick between any two steps, so sending and
staging take arbitrarily long; a waiting worker sees its tick at most
`MaxOvershoot` late. The L2 loops have no barrier: they are the case of one
worker. Unit offsets are ticks rather than microseconds.

### RunControl

The main thread, the auxiliary thread and the workers, with the life time of the
load statistics (`alive`). The timer's expirations coalesce (`dueAt`); the
auxiliary thread reads them within `MaxAuxDelay` and is back at its poll within
the second. `m_lastPortStat` is a structure that two threads fill without a lock:
the auxiliary thread in every display (`AuxTimer`, `AuxPort`, then `AuxSample` for
the load statistics), main after its loop (`FinalPortStat`). `portStat` is the set
of threads whose words it holds; two calls that overlap leave any mixture.
`SummaryIsFinal` says that the summary shows main's own sample. It has one
exception, which the history variable `oneLeft` names: the auxiliary thread handles
a signal before the timer of the same poll, so after both together one more display
runs while main goes on to its summary, and it may clear the counters that are being
shown or mix them with its own. `TimeLimitKept` allows for one timer period: the
period in which the link comes up is charged to `--time` in full. The generator's
auxiliary thread is the same code; its statistics are
members of the application, so the life-time question does not arise there.

### RSession, BusFrame and FramePath

A frame is a record of its header fields and its body; lengths and offsets are
the code's. An APDU is the sequence of its items (GOOSE) or ASDUs (SV), as
libiec61850 encodes them. A name is the number in it: the generator copies a fixed
count of its leading digits into the placeholder, eight for GOOSE and four for SV
(`GooseSID`, `SvSID`), the processor formats all of them (`IdOf`), so the name of an
SV stream from number 10000 on is cut (`NameIsCut`). An
IPv4 checksum is the header it was computed over and a tag the data it covers, so
they match exactly when nothing they cover was changed; the region of a GCM frame
lists the IVs it was encrypted under. `unwrap_r_frame`, `validate_r_envelope`,
`SessionChecks` (`parse_session`) and `PayloadChecks` (`parse_payload`) are the
code's conditions in the code's order, as lists of a condition and an error;
`FirstError` is the chain of early returns. Where an altered IV length makes the
receiver read at the wrong place, the payload length is any number and the payload
means nothing (`PayloadLengthRead`, `Meaningless`).

`FramePath` has `Send` (any mbuf, with what it holds; `AmendPacket`; `seal`), the
wire (`Lose`, `Pad`, `Alter`) and `Receive` (router, stage, parser, lookup, tracker,
counter). `Alter` changes one field of one frame to each value the checks tell
apart: it stands for damage on the way, and for a frame of another publisher that
differs in one field. The UDP source port is covered neither by a checksum nor by
the tag; it only chooses the worker, which `FramePath` does not distinguish. The
lookup (`Found`) is the comparison of passports, which is what the container does as
long as the APPIDs of the streams differ (`ImplementsTable`): `FrameAssumption`
therefore bounds the streams of a kind by 65536.

`newest` is the frame the tracker last saw of its own stream, zero if it was given
numbers of another one; `gaps` counts the times it was not the next frame.
The receive path keeps each stream in order (`StreamInv`), so what `GapsTellLosses`
says of losses on the wire also holds of frames a full worker ring drops.

### SvApdu

The bytes of an APDU as received, any at all. `Pdu`, `NoAsdu`, `Sequence`, `Asdu`,
`Field`, `EndAsdu`, `End` are the sections of `parse_sv_apdu`; `verdict` is its
return value. `reads` and `bound` record which bytes a step reads and the end of
the TLV they belong to. A `uint32_t` is a pair of halves; lengths of 65536 and more
are one value, being too long for every frame. `IsPdu` describes an acceptable APDU
as a whole: `Starts` are the places of the TLVs that fill a part of it, `IsAsdu` says
what the fields of an ASDU have to be, and `FieldOf` names one by its tag.

## 3. Runs

| Run | Bounds | Shows |
|---|---|---|
| `rss_order` | 2 workers, rings of 3 usable entries, bursts of 2, 4 mbufs, 3 sources with 3+1+1 frames | `StreamInv` (affinity, order, at most once), `PoolConservation`, `NoOverrun`, `FrameAccounting`, refinement of `StreamDelivery`; lost increments of shared counters happen, but `NeverOverstated` and `GateIsSound` |
| `rss_live` | SV with 2 samples a second on one worker, R-SV with 2 ASDUs on the other, fairness | `GapsAreLosses` across the restart of the sample counter, `Drained`, `Stops` |
| `container_map` | one kind of stream, up to 8 of 8 APPIDs | `RegisterInv`, refinement of `StreamTable` |
| `burst` | 3 streams on 2 workers (slices of 2 and 1), 1, 3 or 5 repetitions (3 just fits, 5 is refused), 2 bursts each | conservation, `WholeSecond`, `CountedIsTaken`, refinement of `StreamPublication`, `BurstGoesOut` |
| `steady` | 5 streams on 2 workers, blocks of 2, TX ring of 2, 9 mbufs, 2 units each | conservation, `GapsAreCounted`, `EvenCadence`, `UnitEnds` |
| `pacing` | both modes, 2 workers, second of 3 ticks in 2 units, overshoot 1, 11 ticks | `SharedStart`, `OnGrid`, `PulseSpacing`, `AllStart` |
| `processor_run` | 1 to 4 lcores, no limit or 4 s, timer 3 s, link wait up to 4 s | `TimeLimitKept`, `SummaryIsFinal`, `Shutdown` |
| `frame_path` | 6 kinds of traffic, all pairs of security modes, NIC checks headers or not (39 configurations); 3 streams (0, 999 and 9999) of 2 workers in 2 groups, one mbuf, 5+1+1 frames, numbers of period 3, samples of 3 and 4 a second, one altered field | `FrameIsFresh`, `RejectedAreAlteredOrCut`, `OtherModeIsRejected`, `GapsTellLosses`, `DeliversGenuine` (a step of `StreamDelivery`) |
| `sv_apdu` | 12496 inputs: APDUs of 1, 2 and 3 ASDUs, short and long lengths, optional fields, padding; each cut anywhere, one byte altered, two adjacent bytes altered; 2 channels for 8 | `ReadsInside`, `VerdictIsRight` |

Every bound is chosen so that the interesting case happens: rings and pools
smaller than the load, uneven slices and a last partial block, four frames
against three ring entries, a second that staging outruns, a link wait longer than a
timer period. Larger values repeat these cases. In `frame_path` one mbuf is the
hardest case, since every frame then finds what the previous one left; stream 9999
is the first whose SV name is cut, and what is left is the name of stream 999; numbers of
period 3 (`SeqMod`, for 2^32) make both counters wrap within five frames, and
`Send` keeps a run of losses shorter than that period, as four thousand million
lost frames in a row are out of the question. One altered field at a time is what
the checks are compared with; combinations of two are in `sv_apdu` only.
No invariant or action property of these runs depends on the bounds: all of them
are proved for every value of the constants (section 4).

Runs that end with a violation state what a comment of the repository says, and
show that the code does something else:

| Run | Comment | What happens |
|---|---|---|
| `container_mixed` | unique AppID, "Interface similar to std::unordered_map" (`appid_container.hpp:10-12`) | `--sv80 2 --sv256 1`: APPID 1 is taken twice; the first key is kept with the second source and views freed strings: a configured stream is not found (what a lookup of the first one compares with is freed memory) |
| `pacing_drift` | the shared start tick keeps the pulses from drifting apart (`gen_application.cpp:142-146`) | steady mode re-bases each second on its own clock read; overshoots accumulate per worker |
| `processor_lifetime` | "Owned by the loop functions, alive for the whole run" (`rx_application.hpp:110`) | the loop function returns while the auxiliary thread still has to sample |

One disagreement is shown by a passing run, whose property states it as an
exception. The generator prints the number of an SV stream with `%04u` into five
bytes and copies four of them into the svID (`sv_traffic_gen.cpp:60`,
`sv_traffic_gen.hpp:58`); the processor formats `SVID{:04}`, which grows
(`rx_application.cpp:366`). From number 10000 on every intact SV and R-SV frame is
counted as unknown, although the options take any number of "unique" streams
(`gen_application.cpp:530`). `RejectedAreAlteredOrCut` says that these are the only
intact frames rejected, and that all of them are.

### Fairness

Weak fairness of each lcore's steps: every lcore is a pinned polling thread that
never blocks in its loop. Weak fairness of the NIC's transmission: it sends what
its descriptors hold. In `RunControl` also of the link wait, which the code bounds
by 60 s. Nothing is assumed of signals, of arriving frames or of the clock.

### Mutants

For every property of a passing run there is a faulty variant of a modelled
definition (a dropped guard, a forgotten free, a wrong slice) next to the right
one in its module; with it TLC finds the property violated.

## 4. Proofs

Every theorem holds for all values of the constants that satisfy the named
assumptions; TLC evaluates those assumptions in every run.

### The receive path (`SoftwareRSSProofs`)

For every number of workers that is a power of two, every burst, ring and pool
size, and every finite set of sources:

* `TypeCorrect`, `NeverOverrun`: `Spec => []TypeOK`, `Spec => []NoOverrun`
* `StreamsInOrder`: `Spec => []StreamInv`
* `ImplementsDelivery`: `Spec => DeliverySpec`
* `CountersNeverOverstate`, `GatesAreSound`: `Spec => []NeverOverstated`,
  `Spec => []GateIsSound`
* `PoolIsConserved`: `Spec => []PoolConservation`
* `FramesAreAccounted`: `Spec => []FrameAccounting`
* `GapsAreRealLosses`: `Spec => []GapsAreLosses`, if the samples of a second fill
  whole frames (`WholeFrames`) for every SV source

Assumptions: `RSSAssumption`, `SeqModAssumption` (types of the constants, a ring of
at least two slots, a power of two of workers) and `FiniteSources`. `WholeFrames`
is what the generators have: 4000 samples in frames of one ASDU, 12800 in frames
of eight, against 16 bits. Without it the restart of the sample counter would
itself be reported as a gap.

Types alone are not inductive: that a staging array stays within its burst needs
to know how much of the burst is left (`NoOverrun`) and that all arrays up to the
current one are empty again (`ControlInv`); their conjunction `TypeInv` is
inductive. For the order, the path of a stream is a chain: tracker, rest of the
batch, ring, staging array, rest of the burst, NIC. `PathOrder` says that each link
is in publication order and older than everything behind it; `Affinity` that the
chain has no branches; `Unseen` that the tracker's newest frame is older than
whatever is in the chain. Together with `TypeInv` they are inductive (`OrderInv`):
a step moves a prefix of one link to the end of the next one (`CutOrder`,
`JoinOrder`, `AppendOrder`, `TailOrder`) or drops frames. The refinement follows: a
frame handed to its tracker is newer than `lastN` and not newer than `sent`.

The other results build on `OrderInv`.

* *Counters.* A worker between its read and its write holds a value that others
  overtake. `RegInv` bounds what it is about to write by the tally, which is why no
  lost update makes a counter too large. For the gates the number of
  workers between read and write is subtracted from the tally: what remains are
  completed increments, of which the last write left at least one (`CountInv`).
* *Pool.* `OrderInv` makes the frames under way a set in which the queues are
  disjoint (`OlderApart`) and none holds a frame twice (`RangeCount`), so that moving
  a frame keeps the cardinality and freeing a batch subtracts its length
  (`PoolInv`).
* *Account.* `Account` states one sum over sources, counters and workers with the
  load of a worker in the units its control point is in: staging array, ring, frames
  no bus stage has counted, frames the IP stage has not counted. Each step changes
  one term of a sum, or moves an amount between two (`SumChange`).
* *Gaps.* `Seen` relates a tracker to the last frame it was handed: it holds that
  frame's numbers (so the next frame is accepted, also across the wrap of the
  number and the restart of the samples) and has reported at most one error
  per run of missing frames (`SeenInv`).

### The generator

`TxBurstProofs`, for any number of streams and lcores, any frequencies, and any size
of bursts, rings, caches and pool:

* `NoGapOnTheWire`: `Spec => PublicationSpec`
* `BurstTypes`, `BurstKeepsMbufs`: `Spec => []TypeOK`, `Spec => []MbufsConserved`
* `BurstIsWhole`, `BurstCountsTaken`: `Spec => []WholeSecond`,
  `Spec => []CountedIsTaken`

from `TxAssumption` and `BurstAssumption` (types). A publication without gaps needs
the numbers of everything that is pending, in the TX ring and then in the staging
array: the i-th pending frame has the number on the wire plus its rank among the
pending frames of its stream (`ChainOf`), and until a stopped worker drops its staged
frames nothing else was given out (`GivenOf`). A pending frame belongs to a stream of
this worker (`OwnOf`), and the slices of the workers are disjoint (`SlicesOrdered`,
`SlicesCover`), so no other worker disturbs it. `CadenceOf` says how far each
stream of a slice is in the plan; `CountOf` is the balance of `tx_packets`.

`TxSteadyProofs`, for the same parameters and any block size:

* `SteadyTypes`, `SteadyKeepsMbufs`: `Spec => []TypeOK`, `Spec => []MbufsConserved`
* `SteadyIsEven`: `Spec => []EvenCadence`
* `SteadyCountsGaps`: `Spec => []GapsAreCounted`

from `TxAssumption` and `SteadyAssumption` (types). Steady mode drops the tail of a
chunk that the ring does not take, so pending numbers only rise, with room up to the
last number given out for all that follow (`OrderOf`). `LedgerOf` balances what was
given out against `tx_packets` and `err_send`, and what is on the wire against what
was skipped. `CadenceOf` marks the streams that the unit has dealt with.

`TxPacingProofs`, for any number of workers, length of the second, number of units and
overshoot:

* `StartIsShared`: `Spec => []SharedStart`
* `BurstsOnGrid`: `Spec => []OnGrid`
* `PulsesKeepDistance`: `Spec => PulseSpacing`

from `PacingAssumption` (types). `BarrierInv` counts the workers at each of the two
meetings: the second one completes only after the serial thread has read the tick.
`PaceInv` relates the second a worker is in to its pulses and its target.

### Run control (`RunControlProofs`)

For any number of lcores, limit, timer period and length of the link wait:

* `NotCutShort`: `Spec => []NotTooShort`, the half of `TimeLimitKept` that says that
  `--time` does not end a run early
* `LimitIsKept`: `Spec => []TimeLimitKept`, if `MaxAuxDelay < TIMER_PERIOD_SEC`
* `SummaryHolds`: `Spec => []SummaryIsFinal`

from `RunAssumption` (types). The hypothesis of `LimitIsKept` is needed: the auxiliary
thread adds one period per read of the timer, not per expiration, so a thread
that sleeps through an expiration lets the run last longer than asked. The invariant
bounds the seconds counted on both sides by the time since the start, for a timer that
is due and for one that is not (`NotAhead`, `NotBehind`), and adds that an expiration
waits no longer than the delay (`DueInv`) and that the limit is looked at after each
change (`Limited`). For the summary, `PortInv` says that once `g_doWork` is cleared
the auxiliary thread is at the head of its loop or has ended, unless signal and
timer came together: only a display that is under way could still write, and the
thread that clears the flag is the one that displays.

### Frame path (`FramePathProofs`)

For up to 65536 streams of a kind, any number of workers and mbufs, any width of the
counters, any pattern of losses, paddings and alterations (one field of a frame at a time), and every set of
configurations:

* `FramesAreFresh`: `Spec => []FrameIsFresh`
* `PathTypes`: `Spec => []TypeOK`
* `SameModeAccepts`: `Spec => []RejectedAreAlteredOrCut`
* `OtherModeFails`: `Spec => []OtherModeIsRejected`
* `TrackersTellLosses`: `Spec => []GapsTellLosses`
* `PathDelivers`: `Spec => DeliversGenuine`

The assumptions are types of the constants, and four facts of the code: security
modes belong to routable traffic (`PathAssumption`), a second of samples is a
whole number of frames (`FrequencyAssumption`; 4000 of one sample, 12800 of eight,
`sv_traffic_gen.cpp:41,47`), an APDU has at least 42 bytes, as one with names and
eight channels or data set entries does, and stream numbers are below 65536, since
APPIDs have 16 bits and the lookup is a map only while they differ (both
`FrameAssumption`). Alterations of sealed frames are symbolic:
a MAC verifies only for the header and the region it was computed over.

Two invariants carry the six theorems, and TLC has checked both on the instance of
`frame_path`.

`SenderInv` is about the generator and the wire. What an mbuf or a plain master holds
after any number of uses is a skeleton in which only the fields differ that every
amendment writes (`Reusable`, `RegionLike`), hence an amended frame is
the one a new skeleton gives. The numbers of an IED are a function of the frames
sent (`IedAfter`), and what is on the wire is such a frame of the latest number of its
stream, or one alteration of it (`WireOK`).

`ReceiverInv` is about the processor. `StreamBounded` says that no tracker is handed or
counts a frame before it was sent, with the frame under way taken into account;
`StreamTold`, as long as what arrives can be trusted, that the tracker stands at
exactly the numbers of its newest frame (`At`), that the losses since then are fewer
than the period of the counters, and that its error counters tell gaps; `CountersTell`
bounds the counters of rejected frames.

Between the two stands the reading of a frame (`Reading`, proved in `WireRead`). An
intact frame of the same mode is parsed, with the numbers and names of its stream,
which is the only one that is found (`RAccepted`, `L2Accepted`); if its name is cut
none is (`CutNotFound`), since its APPID leaves only its own stream. An altered one keeps
all but one field (`RAlteredNear`, `L2AlteredNear`): either a check rejects it, or
two of the names still lead to no other stream than its own (`GooseNearParsed`,
`SvNearParsed`), and under a verified signature header and region are those that were
sent (`VerifiedIsGenuine`). A frame of another mode has no signature that verifies
(`ROther`). That a tracker then counts a gap only when frames are missing, and one of
GOOSE whenever they are, is modular arithmetic (`ModApart`, `NextSample`, `TrackerTells`); it is here that a run
of losses as long as the period would go unnoticed, which `Send` excludes. For SV only
the first half holds: a loss just before the restart of the sample counter is not
seen, because sample zero is exempt from the check.

### Stream lookup (last part of `FramePathProofs`)

For every number of APPIDs and every set of
command lines in which no two streams have the same APPID (`UniqueAppIds`):

* `RegisterCorrect`: `ContainerSpec => []RegisterInv`
* `ImplementsTable`: `ContainerSpec => MapSpec`

The hypothesis is the condition the container's comment states; `container_map`
satisfies it, `container_mixed` shows what happens without it. The other
assumption is `ContainerAssumption` (types of the constants). `RegisterInv` is
not inductive: a register entry beyond the vector would become valid when the
vector grows, so `ContainerInv` adds that such an entry is the mark `SIZE_MAX`
(`FreeMarked`), which no index reaches, and that the streams are those of one
command line (`StreamsInv`). From it, `operator[]` always inserts
(`ConfigureInserts`) and a lookup returns the stream itself or nothing
(`FindResult`), which are the map's two operations.

### SV walk (`SvApduProofs`)

For every byte string and every number of channels:

* `ReadsAreInside`: `Spec => []ReadsInside`
* `WalkIsTyped`: `Spec => []TypeOK`
* `VerdictIsCorrect`: `Spec => []VerdictIsRight`

from `SvAssumption` (types of the constants). None is inductive: that a step
reads inside its TLV needs to know that the TLV is inside the one around it.
`Nested` says which ends are in force at each point of the walk and in which order
they lie (place, ASDU, sequence, PDU, APDU), and that the two identifiers kept for
comparison lie before the place, which has moved at least once per ASDU; with
`Typed` (positions are integers, bytes are bytes) and `ReadsInside` it is inductive
(`IInv`). The arithmetic is in three lemmas about the decoders:
`decode_asn1_len_bounded` and `take_tlv` read and end within the end they are given, and a field that has its required length has all
its values inside.

For the verdict, `WalkInv` says what each point of the walk has established, and TLC has
checked it on the instance of `sv_apdu`:

* `PduTaken`, `NumberTaken`, `SequenceTaken`: the form of the outer TLVs, so far as they
  are taken;
* `Walked(p)`: the ASDUs before place `p` are as many as counted, each has the form, is
  good, and has the identifier and the revision the caller will get; the first has
  given the sample number;
* `InAsdu(a)`: the fields of the ASDU under way before the place of the walk are in
  order, `found` are their tags, `previousTag` is the last of them, and what is kept of
  each is its value.

Both rest on `On(from, end, p)`: what `Starts` finds from `p` on is what is left of the
part. It holds at the beginning, goes on from one whole TLV to the next (`OnNext`), is
all of the part at its end (`OnEnd`), and where no whole TLV starts the part is not
filled (`OnBad`). `LengthIsTaken` and `TlvIsTaken` say that the code's decoders succeed
exactly on whole TLVs. `PduForm` and `AsduForm` put `IsPdu` and `IsAsdu` into the terms
of the walk; then each early return is the failure of one conjunct, and `End` has them
all. That a tag tells a field (`FieldOfIs`) needs the increasing tags; that equal
revisions are equal bytes (`SameBytes`) and that the loop over the channels sees
exactly the quality bytes (`QualityBytes`) is arithmetic. `Starts` is a recursive
function; that its equation has a solution, and that its places lie in the part, is
shown by induction on the distance to the end (`StartsExists`, `StartsRange`).

### Sums and induction

The library's induction theorems take an operator and cannot be instantiated here.
`NumberFacts` states induction for a set of numbers instead (`Induction`, from the
well-foundedness of `<`); applied to the set of numbers that have a property it proves
what a sum written as a recursive function is (`SumIs`, `SumUpdate`, `SumCompare`), and
what the community modules' fold over a finite set is (`SumIsFold`, `SumChange`).
`IedSlice` keeps the code's arithmetic; that the slices cover the streams without
overlap is `SlicesCover` and `SlicesDivide`.

### Only model-checked

* Liveness (`Drained`, `Stops`, `BurstGoesOut`, `UnitEnds`, `AllStart`, `Shutdown`),
  which is out of the proof system's reach.

## 5. Not modelled

* The bytes of a GOOSE APDU: its items have lengths that fit, are zero or reach
  beyond the end. Items with tags 0x30, 0x31, 0xA0, 0xA1 at the top level, which
  libiec61850 does not generate, and lengths of four octets or more that come out negative,
  which the comparison at `process_bus_parser.cpp:425` takes as unsigned.
  `timestamp` and `sqNum`, which nothing checks.
* The cryptography behind `HMAC`, `Encrypt` and `Decrypt`; the two backends make
  the same calls. The copy that the ORANGEPI build decrypts instead of the mbuf.
* The encoding by libiec61850 and its offsets; skeletons that exceed the buffer
  (the generators throw before they start).
* What load statistics compute, and when the rows of the final load table are
  printed; tables; command line syntax.
* Failure of `rte_eal_remote_launch`; the reallocation of the vector of load
  statistics under a reader; a frequency of zero.
* DPDK builders and displays, udmabuf heap, deployment: I/O without decisions of
  their own. Tools: measurement programs beside the two, each a loop over one
  port or one buffer, whose output is timing.

## 6. Plan

1. The SV verdict of `BusFrame` shown to be the one of `SvApdu` on the bytes.
2. Load statistics (`CyclicStat`) sampled by a second thread.
3. The verdicts of `SoftwareRSS`, today any per frame, derived from `BusFrame`.
