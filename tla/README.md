# CacheFlex SPM: verification of the scratchpad hierarchy

CacheFlex is a gem5 fork in which software turns ways of a cache into scratchpad
(SPM) slots. The Ruby protocol `MESI_Three_Level_SPM` carries the scratchpad
operations beside ordinary MESI traffic; the Sequencer, the message buffers and the
O3 load/store queues have paths of their own for them. This directory holds TLA+
modules of these parts, the TLC configurations that check them, and TLAPS proofs.

Paths below are relative to `src/gem5/src/mem/ruby/` unless they start with `src/` or `cpu/`;
`cpu/` is `src/gem5/src/cpu/o3/`.

## 1. The system

| Part | Source | State | Operations |
|---|---|---|---|
| O3 load/store queue | `cpu/lsq_unit.cc`, `cpu/lsq.cc` | regular and SPM queues, shadow table, pending loads | insert, execute, park, replay, forward, write back, squash, barrier |
| Sequencer and ports | `system/Sequencer.cc`, `system/RubyPort.cc` | request table, outstanding count, retry list, deferred replays | accept, coalesce, refuse, retry, answer |
| Ingress queue | `network/MessageBuffer.cc`, `network/IngressBypass.hh` | heap, stall map, bypass selection | enqueue, stall, reanalyze, bypass |
| L0 (L1D) | `protocol/MESI_Three_Level_SPM-L0cache.sm` | MESI state, block | load, store, SPMCP, SPMWB, evict, answer recalls |
| L1 (private L2) | `...-L1cache.sm` | MESI state split by "also in L0", TBE, slots | the above, silent copies, slot writebacks, recalls, multicast |
| L2 (shared LLC bank) | `...-L2cache.sm` | directory state, sharers, TBE | ordering of requests, silent copies, SPM writebacks, evictions |
| Directory, memory, DMA | `...-dir.sm`, `protocol/MESI_Two_Level-dma.sm` | I/M and transients, Owner, DMA TBE | fetch, writeback, DMA |
| Slot placement | `structures/CacheMemory.cc` | array, tag index, reservation bits | allocate, claim, migrate, install, release |
| Reduction source | `system/SequencerReduction.cc` | captured commands, flight, hazard counts, barrier credit | capture, send, complete |
| Reduction engine | `...-L2cache.sm` (L3 scratchpad) | shared slots, locks, command queue, service port | capture, start, finish, access, finalize |

How they interact. A **copy** (SPMCP) reads a line into a slot of the copier's L1.
If the copier's L0 has the line, the copy leaves with a snapshot of it; if its L1 has
it, the copy is local; otherwise a GETS_SILENT goes to the L2, which answers from its
own block, fetches from memory, or forwards to the owner *without recording the
copier or the forward*. A **writeback** (SPMWB) sends a slot's content to the L2, which
invalidates all copies, overwrites the line and writes it to memory before it
acknowledges. **DMA** goes to the directory, which invalidates the LLC's block first. A
**multicast** copy announces itself to the slots of other cores, then sends them the
data; a claim reserves the slot in all of them first. A **reduction** is captured at
the source, which lets the core go on, sent to the LLC, captured there, and folded
into a row of shared slots some cycles later.

What makes it hard: nothing is ordered between L1, L2 and directory; a forward nobody
remembers may find its target evicted, downgraded or refetching; evictions cross
recalls at every level; a DMA and a slot writeback each wait for the other's
controller; a message in `stall_and_wait` returns only if some later row wakes it; an
answer to the core re-enters the Sequencer in the middle of the callback; a younger
request bypasses a blocked one; a bridge instruction sits in one queue and conflicts
with the other. The hazards, each at the line where it bites and with the properties
that would catch it, are in `PROJECT.json`.

## 2. The modules

| Module | Models | Lines |
|---|---|---|
| `SpmSlots` | `CacheMemory.cc` as the L1 controller drives it: several lines and slots, one array | 304 |
| `SpmNet` | messages, buffers, history of the line's value | 122 |
| `L0Cache`, `L1Cache`, `L2Cache`, `Directory` | one controller each, one line; `Directory` includes memory and DMA | 849 |
| `SpmProtocol` | their composition, the properties, fairness | 215 |
| `SharedLine` | what the protocol promises: a register (abstract specification) | 95 |
| `SpmMulticast` | multicast between private L1s, on top of `SpmProtocol` | 327 |
| `L3Geometry` | ways, rows and operations of the shared scratchpad | 44 |
| `ReductionSource` | `SequencerReduction.cc` | 98 |
| `ReductionBank` | the scratchpad and reduction part of one LLC bank | 235 |
| `L3Reductions` | sources, networks, bank and programs with barriers | 237 |
| `Accumulator` | what the engine promises: rows updated in one step (abstract specification) | 41 |
| `Ingress` | the finite mandatory queue, its stall map and bypass | 138 |
| `Sequencer` | request table, ports, callbacks and the controllers' answers, on top of `Ingress` | 507 |
| `Lsq` | the queues of one O3 thread, with ROB and memory as the queues see them | 481 |
| `MC*` | the instances TLC checks | |
| `SpmProofs` | proofs about `SpmSlots` and `SpmProtocol` | |
| `AnswerProofs`, `TransactionProofs`, `SequencerProofs` | proofs about `Ingress` and `Sequencer`, each on top of the one before; the last has the theorems | |
| `LsqProofs` | proofs about `Lsq` | |
| `BankProofs`, `FlowProofs`, `ReductionProofs` | proofs about `L3Reductions`, each on top of the one before | |

**Protocol state.** An L0, L1 or L2 record holds the cache entry and the TBE together:
state, data, dirty bit, `pendingAcks`, and for the L2 the sharers and the requestors a
TBE keeps. Block contents are values: 0 at the start, a fresh number per store and DMA
write, and the core's own name for the slot it writes back. The history variables
`cur`, `win` and `stale` of `SpmNet` are no part of the code: `cur` is the value of the
line in coherence order, `win[r]` the values it had since reader `r` began.

**Protocol actions.** One action per SLICC event; a disjunct per group of (state,
event) rows, with all the row's actions in one step (send, write, deallocate, pop,
wake). `stall_and_wait` moves a message to a stall bag, `kd_wakeUpDependents` puts the
bag back; `recycle` leaves the message where it is. Rows no behaviour reaches are not
translated, and `NoUndefinedEvent` is what shows this is sound: if one were reached,
the message would have no action.

**Networks.** Between L1, L2, directory and DMA messages form a bag: any order. Between
L0 and L1 each lane is FIFO. In the default configuration L0 replies share the request
FIFO; in finite-buffer mode (switch `return_lane`) they have a lane of their own, and the
two cross (`Passes`): a reply passes any request, because its lane is served first, and a
scratchpad request passes an older reply, because it is sent with `spmRequestLatency`,
which may be below `response_latency`. A load or store has the latency of a reply and does
not. An SPMCP may so reach an L1 that is still in E or M for an L0 that has evicted: the
recall states EX_L0 and MX_L0, and the PUTX that arrives there (F2, L1cache.sm:2462).
SPM_ACKs have a path of their own. Multicast messages of one L1 to another
stay in order, as fixed routes deliver them; over an unordered network the data could
overtake its announcement, which the model excludes by this assumption only.

**Profiles.** `Profiles` lists sets of switches (`return_lane`, `spm_silent_retry`,
`spm_retain_llc`), and a behaviour has one of them, `profile`, from the start. The default
is the empty set; the finite profile has all three.

**When writes take effect.** A store at its L0; a slot writeback when the directory
accepts it; a DMA write when the directory queues it for memory.

**Reductions.** The content of a slot is the sequence of the operations folded into it,
so that losing, doubling and reordering are all visible, whatever the arithmetic is.
`tbe` of `ReductionBank` holds a captured command with the result it computed at its
start; `Capture`, `ReduceStart`, `Finish` and `Access` are `l3_reduceCapture` and
`l3_finalizeCapture`, `l3_reduceStart`, `l3_reduceFinish` and `l3_finalizeFinish`, and
`l3_access`, each with its locks, timer and wake-ups. `HeadVisit`, `Sleep` and the
`Expires` actions are the controller's wake-up loop and its timers. `Reanalyze` is
`wakeUpBuffers` with the rank of the port that calls it: stalled requests return only if
their port ranks lower. `L3Reductions` adds what the software does: rows are set up,
contributed to and finalized or released, with a barrier (which waits for the credit
of the source) between the phases.

**Sequencer.** Callbacks are not atomic: `cb` is the callback that is running, between
the answer to the core (which may re-enter `makeRequest`) and the removal of the
record. The value of a line is the number of the request that last wrote it. Below the
Sequencer, hits, misses under a finite miss pool and the SPM path are single steps.

**LSQ.** The index of an instruction is its sequence number. Status goes from waiting
in the instruction queue to executed, sent, performed and done; `shadow` and `pending`
are the two tables. Ruby appears as requests served in order per key.

**Abstractions that matter.**
- One line, one LLC bank. Rows of other lines interact only through capacity, which is
  an eviction at any moment.
- One line-sized DMA at a time, never part of a line.
- In `SpmProtocol` a core has one load, store or copy of the line, and one writeback of
  its slot, at a time; what the Sequencer does with more is `Sequencer`'s subject.
- Buffers are unbounded, except the mandatory queue (`Ingress`), the reduction source
  and flight, and the bank's command buffer.
- `FetchedBefore` starts the directory entry with its Owner set, as after a fetch and an
  eviction of the line.
- The Sequencer's requests are coherent accesses, fetches, prefetches, SPM loads and
  stores of one width, and copies; not the claims, writebacks and releases that
  `rubyRequestAddress` also keys by their slot (Sequencer.cc:104-127).

## 3. The runs

| Run | Question | Properties | Distinct states |
|---|---|---|---|
| `slots` | several lines and slots, set stride | `LookupExact` `ClaimsExact` `ReplacementExists` `NoSilentLoss` | 3 168 |
| `copy` | loads, stores, silent copies, slot writebacks, DMA, evictions; return lane; three cores | `TypeOK` `MemoryBusy` `Coherent` `NoUndefinedEvent` `NoDeadlock` `CopiesCurrent` `NoStaleRead` `NoLostWakeup` `TransfersOnce` `LineImplemented` | 992 595 |
| `live` | default and finite profile: bounce or NACK and retry, LLC retention, crossing lanes; that everything completes | `NoStaleRead` `NoUndefinedEvent` `TransfersOnce` `Completes` | 233 362 |
| `multicast` | announcements, data, claims, reads, against evictions | `ClaimExact` `CopiesDelivered` `CastsWoken` `CastCompletes` | 205 388 |
| `l3` | two cores reduce into one row | `Exclusive` `FoldsExact` `BankWakes` `Atomic` `Drains` | 200 810 |
| `sequencer` | two ports, coalescing, bypass, deferred replays, finite queue | `OutstandingExact` `OneTransaction` `QueueBound` `NoStrandedPort` `AnsweredRight` `BypassSafe` `Completes` | 389 732 |
| `lsq` | all programs of three instructions, with squashes | `ProgramOrder` `Replays` `NoWarDeferral` `Budgets` `FenceDrains` `Completes` | 167 086 |

Every action and disjunct fires in some run, and every property is violated by a
mutation of the code it is about (`mutants` in `PROJECT.json`). Deadlock checking is
off where a behaviour ends once its operations are used up; `NoDeadlock` and the
liveness properties say what such an end must look like.

**Bounds.**
- `copy`: 3 cores, 3 operations, 3 evictions: a party for each role of the known races
  (owner, copier, writer) and an eviction for each of them. Cores are interchangeable,
  so this run uses symmetry; the liveness runs do not.
  One profile, the return lane with bounced copies: its single-FIFO behaviours are among
  those of the two lanes.
- `live`: 2 cores, 3 operations (stores, copies, writebacks, DMA writes), 1 eviction, both
  profiles. The retry timer, the retained silent fill and the PUTX in MX_L0 all occur.
- `multicast`: 3 cores, c1 the producer, c1 and c2 with the line in the way of the slot,
  c3 without; 3 operations and 1 eviction.
- `l3`: 2 cores, a row of 4 ways finalized by halves, a source of 1, a flight of 2,
  2 command entries, one coherent line in the way. The cores make at most 1, 2, 1 and
  1, 1, 1 operations in the three phases: two contributions race, one core overtakes
  itself if it can, and the command buffer fills.
- `sequencer`: up to 6 requests, all programs of up to 3 and eight longer ones chosen to
  fill the queue (3), the targets of a line (2 while it is missed, 3 otherwise), the miss
  credit (1) and the deferred replays; lookahead 2.
- `lsq`: 2 slots, 1 line, 3 instructions, queues of 2, all optional mechanisms on.
  Programs put a DSB where the queues keep no order (`Fenced`): before a slot is reused,
  before the other slots of a DMA are used, and between a copy and an SPMWB to its source
  line. The documents ask for the first only; `lsq_war` drops the last.

Runs that show a disagreement between the code and what a text of the repository says
of it (details under "findings" in `PROJECT.json`):

- `slots_reinstall` (336 states): a copy into a live slot overwrites it; the document
  says this is an error.
- `owner` (59): slot writeback, then DMA, of a line never fetched. The directory goes I,
  SPM_WB, M without setting Owner, and the DMA's INV is sent to a default `MachineID`,
  which fails the assertion in `NetDest::vecIndex`. The passing runs with DMA therefore
  start with `FetchedBefore`.
- `l3_stall`: a request meets a lock of the reduction engine and is stalled; the command
  finishes, and the request stays stalled. The engine's timer port declares no rank, so
  its `wakeUpBuffers` reaches no port and then forgets the waiting buffers. The other
  properties of `l3` hold beside it; `Drains` leaves out the cores that have a request
  stalled so.
- `lsq_war`: SPMCP of line a is sent; a younger SPMWB to a passes it and the copy reads
  the new data. The comment at `cpu/lsq_unit.cc:1246` says that the SPMWB is kept behind
  such copies, but the loop skips completed entries, and a copy is marked completed when
  it is sent (1551, 1121).
- `multicast_wait` (35 619): a claim's message meets a line whose upgrade lost to another
  core (SM_IL0); the wait rows do not list that state. Shown on the model, not by
  running gem5.

**Fairness.** Weak fairness throughout, of what the event queue guarantees; nothing is
assumed of cores beginning operations, nor of evictions.
- *Protocol and multicast*: per controller and message type, handling what has arrived;
  the L0/L1 FIFOs, memory, the retry timer, the messages between L1s and the direct
  lane. Each in-port is polled whenever it holds a ready message, buffers deliver after
  a finite latency, and a recycled message returns after `recycle_latency`. Fairness is
  per message type because a controller that only recycles an INV for ever would satisfy
  a coarser condition.
- *Reductions*: networks deliver, timers expire, a woken controller runs, the source's
  event is rescheduled while there is work, a refused request is accepted in the end.
- *Sequencer*: scheduled events run, controllers are woken for ready messages, misses
  are answered, a port that gets a retry sends its packet.
- *LSQ*: the core executes, commits and writes back what is ready each cycle, the
  hierarchy performs and answers every packet, an issued load is issued again as long as
  it is sent back.

## 4. The proofs

All theorems hold for every value of the constants that satisfies the named
assumptions: any number of cores, lines, slots, ports, entries and operations. Each
`Spec => []P` rests on an inductive invariant, named here with why it is needed.

**`SpmProofs`, the slots.** `SlotCellsDistinct`: the rotation `set + way * stride` is injective
per way, so two slots never share a cell. `PlacementInv` adds to the checked properties
that the tag index and the array are inverse to each other (`HomeExact`), that a live
slot is in the cell its address decodes to (`SlotsPlaced`), and that a reserved cell
holds no line (`ReservedHoldsNoLine`). None of the three alone survives a migration: it
moves a line between cells, and only the index tells which. From it follow
`TypeCorrect`, `PlacementCorrect`, `ClaimsCorrect`, `ReplacementAlways` (when
`NumSpmWays < CoherentAssoc`),
`NoLineLost` and `SeparateKeepsCapacity`. Assumptions: `GeometryAssumption`, which is
what `CacheMemory::init` checks, and `TagAssumption`, the encoding of addresses.

**`SpmProofs`, the wakeups**, with no bound on operations or evictions and no assumption.
`MemoryMatched`: memory has an operation exactly in the directory states that wait for
it. `WakeupsNotLost`: no controller in a stable state holds a stalled message. The
invariants are one per controller (`DirInv`, `L2Inv`, `L1Wakes`): the shape of its
record, its state being one of the protocol's, and the claim itself. The argument is
the same each time: a row either starts in a stable state, so nothing is stalled, and
does not stall; or ends in a transient one; or wakes.

**`SequencerProofs`** states all the theorems about the Sequencer, from `IngressAssumption`
and `SequencerAssumption` (credits below the outstanding limit). The
two modules under it have the definitions of the invariants and the lemmas that each step
keeps `Transactions` and `Answers`; they assume `Ordered`, which `SequencerProofs`
proves invariant: the types, the counts, the queue's content (`Unsent`), `Chosen`, and that
the queue's choices return what they should (`Picks`, from the finiteness of the queue).
`TypeCorrect` is the base of the others. `OutstandingCounts`: `m_outstanding_count` is
the number of live records of the table, also inside a callback; the invariant says in
addition that a request is in the table at most once and under its own line (`Placed`),
without which removing the front of one list could change another's count.
`PortsNotStranded`: a refused port has a live request or a scheduled ingress event that
will retry it, under the hypothesis that neither bound on the targets of a line is 1 (see
section 5). `QueueBounded`: the finite queue is never overfilled; the invariant
(`Room`) is about what `areNSlotsAvailable` sees, which lags behind the pops of a cycle.
`BypassIsSafe`: the bypass never takes a request past an older one it depends on, not
even one that returns from the stall map between the selection and the transition; the
invariant (`Chosen`) keeps the selection independent of every older message in the heap
or the stall map.

**`TransactionProofs`**, one transaction per line. `OneTransactionEach` states
`OneTransaction`: a line with requests in the table has exactly one of them below the
Sequencer. Its invariant `Transactions` follows the message, wherever it is: the places a
message can be in are disjoint (`Apart`) and hold it once (`Once`), coherent and SPM
messages keep to their own places (`Lanes`), the leader of every list is in flight and
what is in flight leads its list (`Carried`). A callback breaks the last one between its
steps, when it has removed the answered leader and not yet issued the follower;
`Serving` says for each of its steps what holds instead.

**`AnswerProofs`**, what the core is told. `AnswersAreRight` states `AnsweredRight`: a
load returns the last store accepted before it, an SPM load that or a copy the array took
meanwhile, and every SPM store and copy visited the array itself. The invariant `Answers`
is about the order of acceptance: lists are in that order and after all that left
them (`Listed`); a line or slot holds the last of the writes that reached it (`Stored`);
a copy is alone with its slot but for loads accepted before it (`Exclusive`, from what the
LSQ promises: `LsqHolds`); the data of a response on its way up, and of a running
callback, is good for the leader and for every load coalesced behind it (`RespGood`,
`CbGood`). The last two are the difficult part: a follower is answered with the
data its leader read earlier, and that is right only because a copy that has passed
meanwhile either answers after it or is already in the data. Besides the assumptions
above it uses `RoutesAssumption`: SPM loads and stores are kept by their slot, everything
else by a memory line, and SPM requests come from one port.

**`LsqProofs`**, from `LsqAssumption` (capacities of at least one, and the
instructions that have slots). The invariant `LsqInv` adds to the types: committed
instructions can no longer be squashed or held back (`CommitInv`); the memory system holds
a request once and only while it is outstanding, and only loads are squashed in flight
(`NetInv`); a store that a refused unit sends later without checks passed them before
(`BlockedInv`); an unanswered bridge instruction has a shadow entry that is not ready, and
a ready one holds nobody (`ShadowInv`); a parked load waits for an older instruction and
is not in the instruction queue (`WaitInv`); the pending-load table holds uncommitted loads
without an answer (`PendingInv`). From it:
- `ReplaysExact` (`Replays`): a parked load is held by an older bridge instruction whose
  answer releases it, and no load is in the instruction queue twice;
- `BudgetsKept` (`Budgets`): the queues with what is reserved in them stay within their
  capacities, whatever those are;
- `FencesDrain` (`FenceDrains`): behind an executed DSB everything older was answered;
- `DeferralDead` (`NoWarDeferral`): the deferral of a copy behind an SPM load never runs.

**`BankProofs`**, the reduction engine alone. The invariant `BankInv` relates locks,
TBEs, counters and queue (`LocksExact`): a slot is locked by the one captured command
that covers it, the queue lists the commands that have not started, and the counters
count them, at most `Entries`. `LocksCorrect` states it. `UpdatesCurrent`: what a
started command will install is still what its operation makes of the array, because
nobody writes a locked slot between the read at the start and the write at the end.
`BankAlwaysWakes` (`BankWakes`): a sleeping bank with no timer has no command and no
request but stalled ones; it needs that the controller goes to sleep only when no in-port
has anything to trigger (`Asleep`). Nothing is proved of the stalled requests, which
`l3_stall` shows may stay.

**`FlowProofs`**, the way of an operation from the source to its answer. `FlowInv` adds
to `BankInv`: issued operations obey the program's phases (`ProgramInv`); the hazard
counts `reductionPending` and the barrier's credit count the reductions not yet
installed, and a reduction that was sent overlaps no older one of its core that is not
installed (`SourceInv`); every operation that was sent is outstanding at its core and
in exactly one place (network, inbox or stall, engine, reply) until it is answered
(`PlaceInv`). Exactly-once rests
on the last, order on the second.

**`ReductionProofs`**, what the slots contain. An operation is *to do* until the engine
has performed it. `SlotInv`: until a slot is given up it holds exactly the
contributions issued to it and no longer to do, each once (`Content`); what was set up
stays claimed until it is given up, and locked slots are claimed (`Kept`,
`LockedClaimed`); an operation that is still to do is younger than every performed one
of its core that it conflicts with (`NoOvertaking`); and the contributions of a core are
in its order (`OwnOrder`). Across cores the barrier gives the order: it waits for the
credit, so an operation of an earlier phase is no longer to do (`EarlierPhases`).
`ReplyInv` carries this to what is answered. Every step issues, passes
something on, captures, or performs (`StepIs`); only the last touches the slots, and one
lemma per kind shows what it does to them. From it:
- `CommandsExclusive` (`Exclusive`): a captured command owns its slots alone and they stay
  claimed until it finishes;
- `FoldsCorrect` (`FoldsExact`): contributions are neither lost, doubled nor reordered, in
  the slots, in what a core reads and in what a finalization returns;
- `EngineAtomic` (`Atomic`): the refinement of `Accumulator`. The mapping is the claimed
  slots and their content; initial states map to initial states, and every step of
  sources, networks and bank is one step of the accumulator or a stutter;
- `ReductionTypes`: type correctness, with the capacities of source queue, flight and
  command buffer (`CapInv`: marking a record as issued makes no second record of it).

Assumptions: `GeometryAssumption` (rows fit the ways), `SourceAssumption` and
`BankAssumption` (capacities; at least one command entry, the default being 4), and
`ProgramAssumption`, the discipline of the software: rows are different accumulators that
do not overlap. The phases are part of the model's programs; without the barriers the
order of a set-up and a contribution is not defined by the hardware.

**Only model-checked.** Liveness (`Completes`, `Drains`, `CastCompletes`) and
`NoUndefinedEvent`/`CastDefined`/`NoDeadlock`, which use ENABLED, are outside what TLAPS
proves. SWMR, freshness, inclusion, exactly-once transfer and the refinement of
`SharedLine` need an invariant over all messages in flight of the four controllers that
is not written; the multicast properties (`ClaimExact`, `CopiesDelivered`, `CastsWoken`)
rest on it. Of the LSQ, `ProgramOrder`: it compares every load with the program's
meaning, a recursive function over the instructions, which is induction over data.

## 5. Observations that are no finding

Met while modelling, kept for whoever changes the code:

- `cacheflex_max_line_targets` or `cacheflex_micro_targets` of 1, which `Sequencer.py`
  accepts, strands a port: a request refused for the bound is retried inside the answer of
  the line's only target, which is still in the table and refuses it again
  (`system/Sequencer.cc:584`, 589) with nothing outstanding. `PortsNotStranded` excludes
  the two values.
- `CacheMemory::init` accepts `num_spm_ways = assoc` (`structures/CacheMemory.cc:117`); with
  every way claimed a demand miss has no victim. `src/SPM_MICROARCHITECTURE.md:181` relies
  on `SPM_WAYS < assoc`, and so do `ReplacementExists` and its theorem.
- A wide SPM load that is coalesced behind a narrow one is answered with the narrow
  block (`system/Sequencer.cc:1037`, L1cache.sm:1809), which `DataBlock.cc:195` asserts
  against. The model's accesses have one width.
- `SPM_MICROARCHITECTURE.md:240` says that the core keeps per-slot ordering of SPM
  operations; nothing holds a younger copy behind an older SPM store that was not sent.
  `lsq` puts a DSB there (`Fenced`).
- The shadow entry of a DMA instruction covers its first slot only
  (`cpu/lsq_unit.cc:2896`, 2920).
- The deferral of a copy behind an SPM load that may still read its slot
  (`cpu/lsq_unit.cc:1510`) would not advance; `NoWarDeferral` shows that it never runs.
- A DMA write of part of a line drops the dirty rest in the LLC (dir.sm:792);
  `src/verification/gem5_dma/REPORT.md` documents it as known.

## 6. Not modelled

LL/SC, locked read-modify-write, atomics, HTM, TLB invalidations, prefetch and flush rows of
the controllers, instruction fetches below the Sequencer; the Put* rows and the state XM,
which no code enters; several LLC banks, several producers or masks of multicast, slot
release during a multicast; the private-L1 reduction backend, masked stores and the
arithmetic of reductions; the bridge-request cap, the separate SPM ingress queue, the
micro writeback pool and the diagnostic oracles of the Sequencer, and its claims,
writebacks and releases of slots; split and masked
accesses, several threads and memory-order violations of regular loads in the LSQ; message
sizes, timing and topology; decoding, configuration scripts and off-line tools.

The repository is a whole simulator of more than a million lines. What CacheFlex adds or
changes is a small part of it; the modules cover that part, so the share of all source
lines that they map is small.
