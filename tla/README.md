# Verification of libsubown

`libsubown` keeps, on each of two active/active boxes, one record per subscriber that says
which box owns it. A box claims a subscriber, tells its peer in one frame, and resolves what
it hears by three rules: higher epoch, then higher generation, then lower box id. There is no
acknowledgement, no retransmission and no anti-entropy. This directory models the library and
the adapters around it in TLA+, checks small instances with TLC, and proves the central
properties for every instance with TLAPS.

All paths below are relative to `src/libsubown/` unless they start with `src/`.

## 1. Inventory

| Part | State | Operations | Talks to |
|---|---|---|---|
| Ownership core (`src/subown.c`) | none of its own; takes a record | `apply_remote_update`, `claim_local`, `process_packet_event` | calls an emitter callback |
| Wire codec (`adapters/zmq/subown_zmq_adapter.c:71-152`) | none | `encode_update_v1`, `decode_update_v1` | |
| ZMQ endpoints (same file) | a PUB and a SUB socket | `init`, `close`, `emit_update`, `recv_update` | the peer, one frame per claim |
| Ownership adapter (`adapter/src/ownership_adapter.c`) | record table, event ring, outbound ring, metrics | `on_packet`, `on_remote_msg`, `on_peer_down`, `push_event`, `pop_event`, `flush_outbound`, `on_aging_tick`, `get_metrics` | workers push, the control thread pops and flushes |
| Box simulator (`sim/box_sim.c`) | one record, counters | claim by schedule, drain incoming frames, sleep | core and ZMQ endpoints |
| Pipeline benchmark (`bench/bench_pipeline_4k.c`) | locked rings, `produced`, `consumed`, `stop` | worker and shard threads, stop protocol | core |
| RSS benchmark (`bench/bench_worker_rss_impact.c`) | locked rings to workers and to shards, four counters, `stop` | receive, worker and shard threads in three modes | core |
| Core benchmark, tests, scripts | none that outlives a call | | core, adapters |

What is hard, and what makes each part correct:

- **Replication.** Claims cross on the wire, arrive late, out of order, twice; both boxes may
  own a subscriber for a while. Correct: quiet boxes agree; a packet is forwarded only to a
  box that processes it; a split brain always has its end in flight; every claim takes effect
  or is overtaken; the misroute counter counts one ownership.
- **Faults.** Emits fail after the record has changed; frames are lost; a peer-down verdict is
  wrong; a box restarts with empty memory. Correct: a disagreement that remains has a cause, a
  stronger claim that a fault withholds or a newcomer of a later epoch; nobody is taken for an
  owner who did not claim. There need not be a repair: when the stronger of two claims was never
  emitted, both boxes own the subscriber until one restarts.
- **Adapter calls.** Full table, colliding ids, full rings. Correct: records never mix; no claim
  and no event disappears without being counted, those of direct calls to `push_event` included;
  staged claims leave in order of precedence.
- **Event ring.** Worker and control thread share plain indices. Correct: a bounded channel.
- **Rollout.** Observe mode must predict enforce mode.
- **One record, two threads.** A worker and the control thread use a record without a lock.
  Correct: the outcome is that of the calls one after the other; it is so only while certain
  pairs of calls do not overlap, and the model says which.
- **Simulator.** Repeated claims, dropped frames, claims that cross. Correct: repetition makes up
  for drops and changes nothing else; claims made one after the other all count.
- **Benchmarks.** Threads, bounded rings, a stop flag. Correct: every event and packet is in one
  place and counted once; the run ends.

The hazards, each at its line and with the property that covers it (or the reason none does
yet), are in `PROJECT.json`.

## 2. Modules

```
Subown ──┬── SubownWire ──┬── Replication ──┬── ReplicationInvariant ─┬── FaultsInvariant ── ReplicationProofs
         │                │                 │     └ INSTANCE OwnershipRegister
         │                │                 └── ReplicationFaults ────┘
         │                ├── OwnershipAdapter ── RolloutModes ── AdapterProofs
         │                │     └ INSTANCE RecordStore  └ a second adapter by INSTANCE
         │                └── BoxSim ── SimInvariant ── SimProofs
         ├── RecordAccess ── AccessInvariant ── AccessProofs
         ├── BenchPipeline ── PipelineProofs
         └── BenchRss ── RssProofs
EventRing ── RingProofs
  └ INSTANCE BoundedChannel
```

`MCAdapter`, `MCBoxSim` and `MCRecordAccess` only add the constants that a `.cfg` cannot write.
`Totals` defines the sum of a function, for both benchmarks. `NumberFacts` holds the lemmas that
all proof modules but `AccessProofs` share: about `%`, about sums, and about how many threads are
in certain places. The modules named `...Invariant` state the inductive invariants, so that TLC
checks them on the runs; those of the ring, the adapter (its types are enough for most of it) and
the benchmarks are short and stand in the modules of the components.

### Core and wire: `Subown`, `SubownWire`

Operators on one record. `Beats` is the precedence (`src/subown.c:51-113`), `Adopt` what a
winning update does to the record, `Claimed` what a takeover does, `Misrouted` the counter and
its threshold. `NormalizeOwner` and `NormalizeTs` are the library's treatment of the doubled
owner and time fields in updates. `Encode`, `Decodable` and `Decode` say what the 40 bytes
carry; magic, version and length are one field `header`.

Left out of a record: `owner_box_id` and `timestamp`, which every assignment of the library
keeps equal to `owner_box` and `activation_ts` and which it never reads from a record;
`last_seen_ts`, which it only writes; `policy_mask`, an opaque word carried along; the state
MIGRATING, which nothing ever sets. `process_packet_event`'s owner cases are the guards of the
packet actions.

### Two boxes: `Replication`, `ReplicationFaults`

One subscriber, because records of different subscribers never touch (`ImplementsStore` checks
exactly that of the adapter's table).

| Variable | In the code |
|---|---|
| `rec[b]` | box b's `subown_record_t` |
| `inflight[b]` | frames in the sockets on their way to b that have not arrived once |
| `sent[b]`, `misroutes[b]`, `gaps[b]` | history, for the properties; late copies come from `sent` |
| `restarts` | bound |
| `reused` | history: a box restarted under an epoch no later than those in use |

| Action | In the code |
|---|---|
| `Claim` | `subown_claim_local` with an emitter that succeeds (its refresh path changes nothing modelled) |
| `PacketClaims`, `PacketMisrouted` | `subown_process_packet_event` on an unowned, and on the peer's, subscriber |
| `Deliver`, `Redeliver` | `recv_update` and `apply_remote_update`: first, and late or repeated, arrival |
| `EmitFails` | the emitter returns an error after the record was changed |
| `Lose` | a frame dropped by the transport (full pipe, slow joiner) |
| `PeerDown` | `ownership_adapter_on_peer_down`, true or false alarm |
| `Restart` | a new record, under the old epoch (adapter: always 1) or a later one (`--owner-epoch`) |

`OwnershipRegister` is the promise: each box believes one claim, changes its mind only by
claiming under the next generation or by learning a stronger public claim. `ImplementsRegister`
says that records and frames implement it.

### One adapter: `OwnershipAdapter`, `RecordStore`, `RolloutModes`

Each action is one call of the API, run to its end: `src/ownership_adapter.md:59-60` asks for a
single writer per shard. The rings are sequences one shorter than their arrays. Every path through
`on_packet` is an action. `push_event` appears twice: as `on_packet` uses it (`PushEvent`, within
the paths) and called directly (`PushDirect`), as the header offers it
(`adapter/include/ownership_adapter.h:88-90`) and the smoke test does; `DirectEvents` are the events
so pushed. Only `on_packet` counts `own_worker_events_total`, so the histories `direct` and
`refused` keep what direct calls put in the ring and what the ring refused them. `RecordStore` is the promise: one record per subscriber, changed on its
own. `RolloutModes` sets a second adapter, in observe mode, beside the first and gives both the
same calls; the run of the adapter is on this module, so that its own properties and the
comparison of the modes are checked on the same states.

A claim staged for the peer may, for one reason, not be covered by the record it came from: a
sweep has since set the record's owner to "nobody" under the same epoch and generation.
`OutboundInOrder` allows exactly that case.

### One record, two threads: `RecordAccess`

`on_packet` against `on_remote_msg` and `on_peer_down`, with each field read and each field
written a step of its own and the pending writes reaching the record in any order (they are plain
stores). `serial` is the set of records that the calls so far could have left had each been one
step; `raced` remembers that a claim was under way together with a call of the control thread, or
a count together with a sweep. `SerialUnlessRaced` then says two things: `OwnershipAdapter` may
take a call as one step as long as those pairs are kept apart, and counting packets needs no lock
against messages. What goes wrong otherwise is easy to see in the model: a claim that overlaps a
message can leave the generation lower than the one just adopted, and a count that overlaps a
sweep leaves a stale counter on an unowned record.

### The simulator: `BoxSim`

Two processes of `sim/box_sim.c`, each with its command line (`cfg[b]`), its iteration, and an
ordered connection in each direction. `IterateIdle` and `IterateClaim` begin an iteration,
`Recv` is one round of the drain loop. The starting record is the code's: state UNOWNED, but
`owner_box` 0 from the `memset`. `Repeated` is the update of `--emit-dup`, built by a compound
literal that leaves `owner_box` and `activation_ts` zero.

### The benchmarks: `BenchPipeline`, `BenchRss`

Threads of `run_case` and `run_once`. A push or pop holds the ring's mutex and is one step; each
atomic counter is one; the loop condition `!stop || consumed < produced` is three reads
(`ShardTests`, two `ShardReads` in either order). Fields of an update that the code leaves
uninitialized take any value of `Garbage`. In `BenchRss` a thread is a pair of kind and number,
because the loop around the three thread bodies is the same.

### The ring: `EventRing`, `BoundedChannel`

`push_event` and `pop_event`, one access to shared memory per step, `Workers` pushing while the
control thread pops. Memory is sequentially consistent in the model; the code's plain accesses
leave that to compiler and platform. The outbound ring has the same form.

## 3. Runs

| Run | Question | Instance | States | Result |
|---|---|---|---|---|
| `replication` | safety and liveness of two boxes, inductive invariant, refinement of the register | start epochs 1 and 2, 4 generations, threshold 2 | 37 000 | holds |
| `faults_all` | what survives every mix of faults; is forwarding safe if restarts take later epochs; does a split without a repair last? Inductive invariant | 3 generations, 1 restart | 246 000 | holds |
| `restart_same_epoch` | and if they keep the old epoch? | 2 generations | | violated |
| `peer_down_resurrection` | does a swept owner stay away? | 2 generations | | violated |
| `adapter` | table, rings, metrics, in every mode; does observe predict enforce? | 6 calls, ids 0, 1, 2, table of 2, rings of 3, one event pushed directly | 388 000 | holds |
| `record_access` | which calls on one record may overlap? Inductive invariant | 2 generations, peer claims of 2 epochs and 2 generations | 1 075 000 | holds |
| `event_ring` | is the ring a channel, with one worker? Inductive invariant | 3 slots, 8 pushes | 1 854 | holds |
| `event_ring_two_workers` | and with two? | 3 slots, 2 pushes each | | violated |
| `box_sim` | what do repetition and drops do to agreement? Inductive invariant | 6 iterations, 4 schedules, 2 repetitions, every 2nd frame dropped | 522 000 | holds |
| `box_sim_repetition` | does a repeated claim change anything? | 2 iterations, box 1 repeats | | violated |
| `bench_pipeline` | does a case end, and what can it lose? Inductive invariant | 2 workers, 2 shards, rings of 2, 3 events | 175 000 | holds |
| `bench_rss` | do the figures add up, does a run end? Inductive invariant | 1 receiver, 2 workers, 1 shard, rings of 2, 4 packets | 189 000 | holds |

Why the bounds are enough:

- `MaxGeneration` 4 in `replication`: a claim beats, is beaten by, or ties with one of each
  neighbouring generation; four generations let both boxes claim twice on top of a tie, and leave
  old frames of each outcome to be repeated. Two start epochs let a newcomer drop the older box's
  claims as stale. The theorems remove these bounds for the safety properties.
- `Clock` with one or two times: activation times only have to tell two claims apart.
- `MigrationThreshold` 2 with `MaxMisroutes` above it: the counter triggers and starts again.
- `GenerationMod` exceeds every generation reached in every run (`NoWrap`); the wrap itself is
  section 6's.
- Adapter: ids 0 and 2 share a home slot, id 1 sits where 2 has to move, and a third subscriber
  finds the table full; two claims fill a ring of three, and a third fails. Six calls reach a
  full event ring that is popped and filled again, and a sweep followed by a new claim. The event
  pushed directly is a migration hint, of the type whose drops are hardest to account for. The peer
  sends two generations, two epochs and a garbled frame. The box is box 1, whose claims lose ties.
- One record: peer claims of two epochs and two generations reach each of the comparisons' three
  outcomes; the local box is box 1, for which the tie can be lost. A threshold of 1 makes a count
  both raise and clear the counter.
- Ring: eight pushes take the indices of three slots around more than twice, and reach full and
  empty at every index.
- Simulator: six iterations let each schedule claim twice or more and cross the peer's claims; two
  repetitions of each claim make three copies, so that dropping every second frame meets a claim
  in either phase of the counter. Epochs differ by at most one.
- Benchmarks: rings of two hold one event, so every second push without a pop is a drop; three
  events for two workers give each a last event around `stop`; two shards let one leave before the
  other. In the RSS benchmark an even and an odd worker share one shard, and four packets fill
  both rings.

`CHECK_DEADLOCK FALSE` appears where the system may really stop: in fault runs two boxes that
both own the subscriber and have lost their frames only refresh once the bound is reached; the
callers of an adapter may stop calling (`MaxCalls`); workers of the ring finish their pushes; the
simulator ends after its iterations and the benchmarks after their last join.

Fairness: `Fairness` in `Replication` is weak fairness of delivery, justified by the drain loop
of `sim/box_sim.c:299-327` and the control thread that polls; nothing obliges a box to claim,
see a packet, or repeat a frame. In `EventRing`, weak fairness of the control thread's polling
and of a worker that is inside `push_event`; nothing obliges a worker to push. In the benchmarks,
weak fairness of each thread: the scheduler runs all of them, and none starves at a mutex that
every holder releases after a few instructions; the main thread's sleep ends.

## 4. What the violated runs show

- `restart_same_epoch`: a box restarted under its old epoch adopts an old frame of its peer; with
  nothing in flight both boxes forward to each other. `src/Tasks.md:71` counts on the epoch to
  prevent that; the adapter sets every epoch to 1 (`adapter/src/ownership_adapter.c:111`).
- `peer_down_resurrection`: the sweep keeps the dead peer's epoch and generation, so a repeated
  frame wins the tie-break against "unowned" and restores it.
- `event_ring_two_workers`: two workers read the same tail and overwrite each other's event,
  with return value 0 for both and no drop counted; the ring that
  `src/ownership_adapter.md:121-122` prefers is multi-producer.
- `box_sim_repetition`: `--emit-dup` on box 1 sends frames that name box 0 as the owner
  (`sim/box_sim.c:283-290`). Box 0 adopts them by the tie-break while box 1 keeps its own claim:
  two owners, nothing under way. The duplicate test repeats only box 0's claims, for which the
  zero is right by chance. `SplitsOnlyByRepetition` shows that this is the only way to split.

Observed on the way, and no violation of anything written:

- Observe mode pushes misroute events that enforce mode does not, so its ring fills sooner and
  crowds out hints (`ObservePredictsEnforce` therefore excludes the two event counters).
- A claim whose emit fails stands and is never announced: a retry only refreshes
  (`src/subown.c:129,155`). If the peer then claims the same generation and loses the tie, or claims
  a lower one, both own the subscriber, nothing is in flight, and neither can claim again
  (`StandingSplit`). It lasts until a restart (`StandingSplitStays`); `src/ownership_adapter.md:145-146`
  would "rely on generation + tie-break + epoch semantics already in library" there, which have
  nothing to compare. A stronger claim that was emitted and lost leaves the same split, unless a
  late copy turns up. `DisagreementIsAGap` says that nothing else leaves quiet boxes in disagreement.
- Events pushed by a direct call of `push_event` are in no counter but, when refused, the drops: the
  control thread may pop more events than `own_worker_events_total` shows.
- `src/ownership_adapter.md:43-45` reads as if observe mode only computed decisions; the code claims
  and stages updates there as in enforce mode (`ObservePredictsEnforce`).
- `src/tests/spec_conflict_resolution.md:137` says the accepted generation never decreases. It does
  when a later epoch starts lower (`src/subown.c:51-58`); within an epoch it does not, as long as it
  does not wrap (`GenerationNeverDrops`).
- A pipeline case whose ring ever dropped an event need not end: `produced` counts the event,
  `consumed` never will, and the shards wait for it (`bench/bench_pipeline_4k.c:187`). The same
  after a shard left between a push and its count. `EndsUnlessLost` says those are the only ways.
- The RSS benchmark's printed drops leave out those of the shards' rings
  (`bench/bench_worker_rss_impact.c:298`), and what waits in a ring at `stop` is in no figure.

## 5. Proofs

Every safety property that a passing run checks is a theorem for all values of the constants.

| Theorem | States, for every value of the constants | Needs |
|---|---|---|
| **`ReplicationProofs`**: the rules | | |
| `PrecedenceIsTotal` | of two claims with different keys exactly one beats the other; transitivity | |
| `RepeatedUpdateIsIgnored` | an update that was applied once changes nothing, however late it comes again | |
| `UpdateOrderDoesNotMatter` | two updates leave the same record in either order | |
| `WireKeepsTheClaim` | exactly which updates announce the same claim after encoding and decoding | |
| **`ReplicationProofs`**: two boxes | | |
| `Invariant`, `TypeCorrect` | `IInv`, `TypeOK` | `NoWrap` |
| `ForwardingIsSafe` | `ForwardTargetOwns` | `NoWrap` |
| `Convergence` | `QuiescentAgreement` | `NoWrap` |
| `SplitBrainEnds` | `SplitBrainIsEnding` | `NoWrap` |
| `GenerationMonotonic` | `GenerationNeverDrops`: within an epoch, and epochs | `NoWrap` |
| `CounterIsPerOwnership` | `CounterCountsThisOwnership` | `NoWrap` |
| `RegisterImplemented` | `ImplementsRegister`: records and frames implement the register | `NoWrap` |
| **`ReplicationProofs`**: faults | | |
| `FaultsTypeCorrect` | `FaultsTypeOK` | |
| `NoOwnerIsMadeUp` | `RemoteOwnerClaimed`, a part of `FaultsInv` | |
| `FaultsInvariantHolds` | `FaultsInv` | `NoWrap` |
| `DisagreementHasACause` | `DisagreementIsAGap` | `NoWrap` |
| `StandingSplitIsUnannounced` | in a `StandingSplit` the stronger owner's claim was never sent | `NoWrap` |
| `StandingSplitIsForGood` | `StandingSplitStays` | |
| `ForwardingUnderFaults` | `ForwardTargetOwnsOrRestarted` | `NoWrap` |
| `LoopsNeedAReusedEpoch` | boxes forward to each other only after a restart under an epoch in use | `NoWrap` |
| **`AdapterProofs`** | | |
| `AdapterTypeCorrect` | `AdapterTypeOK` | |
| `ProbingFindsTheRecord` | `SlotsReachable` | |
| `NoClaimGoesMissing`, `NoEventGoesMissing` | `ClaimsAccounted`, `EventsAccounted` | |
| `ClaimsLeaveInOrder` | `OutboundInOrder` | `MaxGeneration < GenerationMod` |
| `TableIsInvisible` | `ImplementsStore`: the table implements one record per subscriber | |
| `ObserveModePredicts` | `ObservePredictsEnforce` | |
| **`AccessProofs`** | | |
| `AccessTypeCorrect` | `AccessTypeOK` | |
| `OverlapsAreSerial` | `SerialUnlessRaced` | |
| `AccessInvariantHolds` | `AccessInv` | `NoWrap` |
| `AnnouncesItsClaim` | `AnnouncesOwnClaim` | `NoWrap` |
| **`RingProofs`** | | |
| `RingInvariant` | indices, slots and each thread's knowledge stay in step | `SingleWorker` |
| `RingIsChannel` | the ring implements a channel of `Cap - 1` places | `SingleWorker` |
| **`SimProofs`** | | |
| `SimulatorInvariant`, `SimTypeCorrect` | `SimInv`, `SimTypeOK` | `2 * Iterations < GenerationMod` |
| `RepeatingMakesUp` | `RepeatingMakesUpForDrops` | the same |
| `SplitsNeedRepetition` | `SplitsOnlyByRepetition` | the same |
| `OrderlyClaimsStand` | `TimelineHolds` | the same |
| **`PipelineProofs`** | | |
| `PipelineInvariant`, `PipelineTypeCorrect` | `PipelineInv`, `PipelineTypeOK` | |
| `OneEventPerWorker` | `LossIsBounded` | |
| `EventsStayAccounted` | `PipelineAccounted` | `MaxEvents + 1 < GenerationMod` |
| **`RssProofs`** | | |
| `RssInvariant`, `RssTypeCorrect` | `RssInv`, `RssTypeOK` | |
| `WorkersTakeOverOnce` | `OneTakeover` | |
| `PacketsAddUp` | `PacketsAccounted` | |
| `ReportsAddUp` | `ReportsAccounted` | `NumRss * MaxPackets + 1 < GenerationMod` |

**Assumptions.** The named `ASSUME`s of the modules say what type each constant has (times, epochs
and bounds are naturals, modes are modes, rings and tables have at least one slot, a free slot is
no record, a frame the decoder accepts has fields of the right width) and nothing about sizes.
What the right column adds is that no generation reached wraps around. It is needed: a claim made
at the last generation starts again at 0 and loses to everything before it. The other theorems
hold through the wrap. `SingleWorker` is needed too, `event_ring_two_workers` being what happens
without it.

**Two boxes.** `ForwardTargetOwns` is not inductive: a delivery may install an owner, and whether
that owner still owns depends on which claims can still be news to the receiver.
`OnlyLatestIsNews` says the only claim of a box its peer would still adopt is the one the box
holds right now; so whatever a delivery installs is what the sender believes, and
`StateMatchesOwner` makes that LOCAL. That in turn is preserved by a claim because a box claims
one generation above everything it believes, and `OwnClaimsCovered` keeps its earlier claims
below that. `PendingOrSeen` and `InflightWasSent` tie what is still news to what is in flight,
which gives `QuiescentAgreement` and `SplitBrainIsEnding`. Each action has its own lemma.

**Faults.** Most of that is false once things go wrong, so `FaultsInv` has three parts. What no
fault can break (`HonestInv`): frames were sent by the box they name, and a remote owner claimed.
Where the claims are that a box lacks (`GapInv`): on their way, or at most as strong as one that a
fault withheld; from this follows that quiet boxes which disagree have a gap to blame, and that in
a split no published frame can end the stronger claim is one the emitter refused. And what
holds while every restarted box has taken a later epoch (`EpochInv`): what a box published is not
above the `Floor` of its record, which is the record with the effect of a sweep undone, because a
sweep removes the owner only. The second part of `OnlyLatestOrEarlierEpochIsNews` is what a
restart leaves behind: claims of an earlier epoch that the peer may still have to hear.

**Rules.** Precedence is a total order on epoch, generation and owner, and an update installs its
key or is not above the record's; from this alone follow idempotence and independence of order.
That two claims with one key are one claim is a hypothesis of the latter, and `ClaimsAreDistinct`
proves it of the boxes.

**The adapter.** Probing: every id has at most one slot, and no slot between an id's home and its
record is free; a record is stored in the first free slot of that path and never leaves it. The
accounts of claims and events are equations and bounds between numbers that every path of a call
preserves; what direct calls pushed is taken away first, because no counter knows of it.
`ClaimsLeaveInOrder` needs that a claim is one generation above the record, hence above everything
staged for the subscriber before; the sweep's tie is its one exception. `TableIsInvisible` maps
the table to the function `View` and shows that a call about one subscriber changes it there only,
and a sweep just where the peer is the owner, by the operators `RecordStore` names. `ObserveModePredicts` holds because what a call does to
the table and the metrics is a function of the table and of the call, not of the mode.

**One record, two threads.** The invariant speaks of `Outcome`, what the record will be once both
calls under way have ended. A call that begins changes the outcome to what one of the orders of
the calls leaves, and no later step of either call changes it. One thing must be remembered: while
the control thread may still replace the peer as the owner, a packet counted now is one that came
before the message (`PacketMayComeFirst`). For the claims announced: what is announced is never
ahead of the outcome.

**The ring.** `q_head` and `q_tail` are the numbers of events received and accepted modulo
`Cap`, the slots between hold the events waiting, and what a thread saw at its check stays true,
because the other thread only makes room, or events. `RingArithmetic` is the one fact about
remainders that the argument needs: fewer than `Cap` waiting events lie in different slots.

**The simulator.** Frames are never ahead of the record of their sender. Of two frames that arrive
one after the other at most one is thrown away, so a claim sent twice in a row gets through unless
every frame is thrown away, and a claim that is still missing has a copy under way that will be
kept (`ClaimsGetThrough`). A repetition of box 1 has the right generation and the wrong owner;
therefore that part compares epoch and generation only, and what is said of owners is said of box
0's frames. While every claim is made with nothing under way, the last claimant's generation is
the number of claims, which is why its claim stands.

**The benchmarks.** A sum over threads is a fold, and what a fold computes is beyond the prover;
so `Total` is the cardinality of a set of units, and a step that changes one number by one adds or
removes a unit. The accounts are then equations of numbers, with one lemma for what each kind of
step does to each number. `LossIsBounded` rests on what a shard has read: after `stop` each worker
counts at most one more event, so a reading of `produced` that a shard acts on is at most one
event per worker behind. For `ReportsAddUp` the number of reports is bounded by the number of
packets, so that the generation of a shard's record does not wrap; packets add up in any case.
`OneTakeover` needs that a worker's record is always LOCAL, so that the rule `owner_box ==
local_box` decides.

Only model-checked: liveness (`ClaimsReachPeer`, `EventualAgreement`, `EventsArrive`,
`EndsUnlessLost`, `RunEnds`), which is beyond the prover, and the violations of section 4.

## 6. Not modelled

- Socket set-up and tear-down, argument parsing, logging, latency figures, CPU pinning: pure I/O.
- `on_aging_tick` (an empty stub), `get_metrics`, `destroy`, `create`'s failure paths, null
  arguments.
- `on_peer_down` for a box other than the peer: an id the deployment has no box for.
- The wrap of `generation` (`src/subown.c:138`) is in `Claimed`, but no run reaches it: with 32
  bits it takes 2^32 takeovers of one subscriber, and `src/tests/spec_conflict_resolution.md:137`,
  "accepted generation never decreases", holds only until then. A generation that wraps is lost
  to every claim before it; the theorems name the assumption `NoWrap`.
- A composition of two adapters: `flush_outbound` discards the staged frames and no call of the
  API hands them out, so there is no path from one adapter to another to model. Replication is
  modelled with the library and the ZMQ adapter, which do have one.
- What the two threads of `RecordAccess` do after calls that do not commute have overlapped: a
  data race of plain accesses has no outcome the code promises. So `SerialUnlessRaced` and
  `AnnouncesOwnClaim` say nothing of a claim that overlaps a message or a sweep, nor
  `SerialUnlessRaced` of a count that overlaps a sweep.
- The core benchmark (one thread, timing of library calls), the tests and the scripts: they keep
  no state of their own; tests and scripts are read as statements about the code.

## 7. Plan

Done: every component with state of its own is modelled, and every safety property that a passing
run checks is proved. Still worth doing:

1. The measure behind the liveness properties, as action properties the prover can reach: how many
   frames a box has yet to adopt only falls while nobody claims; after `stop` a benchmark thread
   takes boundedly many steps, unless it is one `EndsUnlessLost` exempts.
2. A pair of simulators without repetitions as an implementation of `Replication` under frame loss:
   its ordered connections are one way for frames to arrive.
