# TLA+ models of the skybox-GPGPU functional-unit back end

This directory holds TLA+ models of the cycle-level SIMT core simulator in
`src/sim/simx/`: the functional units of `func_unit.cpp` and the data
structures and arbiters of `types.h`. TLC checks them. `PROJECT.json` lists
the components, the runs, the mutants that show each property can fail, the
map from every modelled definition to the source lines it translates, the
findings and the hazards.

## 1. Inventory

### Components and their state

| Component | Source | State it keeps | Operations |
|---|---|---|---|
| ALU unit | `func_unit.cpp` 27-58 | per-lane input and output ports | `tick`: pop each lane's head, push it to the output with a per-op delay (4, `LATENCY_IMUL+2`, `XLEN+2`), call `core->resume(wid)` on `eop && fetch_stall` |
| FPU unit | `func_unit.cpp` 62-94 | the same | `tick`: the same with the FP latencies; no resume |
| LSU unit | `func_unit.cpp` 98-222 | per bank: pending-read table, `fence_lock`, `fence_trace`; `pending_loads_`; ports to `lsu_demux_[b]` | `reset`; `tick`: absorb one response per bank, then per lane release a drained fence, lock on a fence, send a store (and retire it), or allocate a slot and send a load |
| SFU unit | `func_unit.cpp` 226-315 | per-lane ports; the list of raster/tex/OM output ports it drains | `tick`: take coprocessor results addressed to this core (`cid`), then per lane push warp-control/CSR ops with delay 4, call `wspawn`/`barrier` on `eop`, forward RASTER/TEX/OM to a coprocessor, call `resume` on `eop && release_warp` |
| HashTable | `types.h` 364-432 | `entries_` (flag, value) and `size_` | `allocate` (first free slot), `release`, `at`, `contains`, `full`, `empty`, `clear` |
| Mux | `types.h` 436-517 | `cursors_` per output | `tick`: each output scans its group of `R = I/O` inputs from its cursor, forwards the first head, advances the cursor (round robin) or not (priority); bypass when `I == O` |
| Switch | `types.h` 521-626 | `cursors_` per output | `tick`: per output, route one response back by the tag's low `log2 R` bits (and shift them off), then arbitrate one request as the Mux does and put the input index into the tag's low bits |
| get_addr_type | `types.h` 149-159 | none | classify an address as IO, Shared (local memory) or Global |
| LocalMemDemux, LsuMemAdapter | `types.h` 632-680 (declarations only) | ports | bodies are not in `src/`; the spec describes them (4.5) |
| Port / SimObject fabric | not in `src/` | time-ordered FIFOs | `push(item, delay)`, `front`, `pop`, `bind` (spec 4.1) |
| Texture test | `tests/regression/tex/main.cpp` | none | host-side driver: parse arguments, load an image, upload, run, compare |

### How they interact

The simulator ticks every object once per cycle in a fixed order; there is
one host thread. Units talk only through ports: an item pushed with delay `d`
becomes visible `d` cycles later, so no unit sees another's pushes in the same
cycle. The front end fills each unit's per-lane `Inputs`; the writeback
collector drains `Outputs`. The LSU sends `LsuReq`s to its bank's demux and
receives `LsuRsp`s that may cover only part of a request's lanes, in any order
across tags. The SFU pushes traces into coprocessor input ports and later
drains their shared output ports, taking only traces of its own core. The ALU
and SFU call back into the core (`resume`, `wspawn`, `barrier`); those
callbacks are the only shared state besides the performance counters.

### What is hard

* Lanes that share an LSU bank run one after another inside one tick, so a
  fence locked by one lane is seen, and maybe released, by another lane's
  iteration.
* Partial responses in any order across tags. A trace must leave exactly once,
  after its last lane; its slot is freed then and reused at once.
* Fences drain reads only. Stores are not tracked.
* Back-pressure: a full pending table stalls a lane, and that lane's head
  blocks the lane.
* Round-robin cursors that are never wrapped, only masked with `R-1`.
  `R = I/O` is not checked to be a power of two.
* Switch tags: the request tag is shifted left in 32 bits. The response tag is
  a 64-bit value decoded by the low bits.
* Coprocessor outputs are shared by the SFUs of several cores. A head addressed
  to another core blocks the ones behind it.
* Warp suspension (`fetch_stall`) must be matched by exactly one `resume`, or by
  the barrier or wspawn callback.
* Ports ordered by arrival time. Two traces pushed to one output with different
  delays come out in arrival order, not push order.

Nothing is persisted and nothing times out, so crash/restart and timeout
hazards do not arise in this code.

### Properties that make each component correct

* LSU: no trace is lost or duplicated (spec 4.4 (i)). `pending_loads_` equals
  the awaited lanes (4.4 (ii)). A fence leaves only after the earlier loads of
  its bank, and nothing after it is issued before it leaves (4.4 (iii), 8).
  Every trace eventually retires. A pending slot always awaits a lane (3.3).
* HashTable: `size_` counts allocated slots. `allocate` never runs on a full
  table. Tags are unique among outstanding loads.
* Mux/Switch: round robin serves each backlogged input once in every `R`
  grants, and every backlogged input is eventually served. A response reaches
  the input that sent the request (tag round trip). Tags survive the 32-bit
  shift.
* ALU/FPU: each op leaves after its latency. A warp suspended by
  `fetch_stall` is resumed, and only once its instruction's last partial
  has been dispatched (`eop && fetch_stall`).
* SFU: `resume` iff `eop` and (`fetch_stall`, or the wspawn/barrier callback
  returned true). A coprocessor result reaches the SFU of its own core.

## 2. Plan

Modules, in order of importance. The ones marked *done* exist.

1. *done* `HashTable` (pending table operators) and `LsuUnit` with
   `MC_LsuUnit`: the LSU tick with its environment (front end, memory by its
   contract, writeback).
2. *done* `Mux`: the tick over counted input queues, round robin and
   priority, bypass; bounded waiting, starvation freedom, and the
   `R`-not-a-power-of-two and `I % O != 0` configurations.
   *done* `Switch`: the same arbitration plus tag encode/decode at a small
   tag width, response routing back to the sender, and `R` rounded up to a
   power of two.
   *done* `AddrType`: `get_addr_type` with the `int` shift at scaled widths,
   against spec 3.5.
3. *done* `TimedPort` and `AluFpu`: a port whose items carry a remaining
   delay and a `Clock` step that ages them; ALU and FPU ticks over it; the
   front end's fetch_stall suspension and the ALU's resume.
4. *done* `SfuUnit`: warp-control ops, wspawn/barrier callbacks against a small core
   warp-scheduler model (suspended set, barrier counts), coprocessor dispatch
   and `cid`-filtered draining by two cores' SFUs. Properties: resume exactly
   once per suspension, every coprocessor result reaches its core.
5. *done for the arbiters* (`Arbiter`, refined by `Mux` and `Switch`).
   *Not done for the LSU* (section 6 says why): `AbstractLsu` and a
   refinement, an abstract unit in which each trace moves
   input -> in flight -> output atomically and fences order a bank. `LsuUnit`
   is then shown to implement it with `INSTANCE AbstractLsu WITH` a mapping
   (in-flight = pending slots plus the locked fence) and the abstract `Spec`
   checked as a `PROPERTY`.
6. `Core`: the LSU composed with a Switch on its memory path and a memory
   that may reorder. A run with a memory that duplicates a response shows the
   effect of the immediate tag reuse.

## 3. Modules

### HashTable

Parameterless operators over a table value `[used, val, size]` that mirrors
`entries_` and `size_`. `full()` and `empty()` read `size`, as the code does,
so a mistake in the `size_` bookkeeping shows up as a wrong stall. `allocate`
takes the lowest free index (`Min` of the free slots).

### LsuUnit

State (VARIABLES) and the code it stands for:

| Variable | Code |
|---|---|
| `inq[iw]`, `outq[iw]` | `Inputs[iw]`, `Outputs[iw]` (all LSU pushes use delay 1, so FIFO sequences) |
| `pending_rd_reqs[b]` | `states_[b].pending_rd_reqs` (a HashTable value of `[trace, mask]`) |
| `fence_lock[b]`, `fence_trace[b]` | `states_[b].fence_lock`, `fence_trace` |
| `pending_loads` | `pending_loads_` |
| `reqq[b]`, `rspq[b]` | `lsu_demux_[b]->ReqIn`, `RspIn` |
| `memq[b][tag]` | memory side: lanes of a read not yet answered |
| `issued`, `retired` | front end counter, writeback collector |
| `hist` | history variable: `pop`, `req` and `out` events in order |

Actions:

* `LsuTick` is one whole `LsuUnit::tick`. It computes the response loop as
  `FoldLeft(AbsorbResponse, ..., BlockOrder)` and the request loop as
  `FoldLeft(IssueLane, ..., LaneOrder)`, in the code's order. Lanes of one bank
  therefore see each other's effects within the tick, as they do in the code.
  `IssueLane` is the fence check (lines 142-149). `IssueInput` is the
  fence/stall dispatch (151-178). `SendRequest` builds the request, allocates,
  sends, retires a store and pops the input (180-220).
* `Issue(w, pid, type, tm)` is the front end. Warp `w` issues on lane
  `w % ISSUE_WIDTH`, and the number of traces is bounded by `MaxTraces`.
  `EmptyPartials` says whether a partial issue with no active lane may be
  issued.
* `MemAccept(b)` and `MemRespond(b, t, u, m)` are the memory by its
  contract (spec 6). Requests are taken in order. A read is answered in any
  number of non-empty partial responses, in any order across tags. Writes
  are answered only when `WriteAcks` is TRUE. MemRsp has no write flag
  (spec 3.5), and nothing says that writes go unanswered.
* `HeadAwaited(b)` is the code's `assert(!entry.mask.none())` (line 124).
  It is a guard of `LsuTick`, because when the assert fails the simulator
  aborts and no further tick runs.
* `Writeback(iw)` pops an output.

Each tick is atomic, and environment steps interleave with ticks in any order.
That admits every timing the cycle-driven simulator produces, and more. So
the safety results carry over to the simulator.

Fairness: `WF(LsuTick)`, because the simulator ticks the unit every cycle.
One `WF` on the environment's memory and writeback steps taken together. That
is weaker than the memory contract, which answers every lane, so liveness
under it implies liveness under the contract. The front end is not fair: it
may stop issuing.

The perf counters and the `log_once` debounce are left out; no property reads
them.

### Mux

State: `Inputs[j]` and `Outputs[o]` are the lengths of the input and output
ports (the Mux forwards requests unchanged and in order, so only counts
matter); `cursors[o]` is `cursors_`. Two history variables serve the
properties: `waited[j]` counts grants to other inputs of the group since
input `j`'s head started waiting, and `served[j]` flips on every grant `j`
receives.

Actions:

* `MuxTick` is one whole `Mux::tick`: for every output, `Hits(o)` are the
  scan steps `r` whose index `(cursor + r) & (R - 1)` names an existing,
  non-empty input; the first one is granted, its request moves to the
  output and `NextCursor` is `update_cursor`. In bypass mode (`I = O`) the
  tick does nothing. `R` is `I \div O`, as the constructor computes it, and
  the mask is the Bitwise `&` (tabulated once in `MaskOf`).
* `Send(j)` is a sender; in bypass mode the bound port delivers straight to
  the output. `MaxInFlight` bounds the requests held for one output's group,
  and senders are otherwise free: they may keep a group saturated forever.
* `Consume(o)` is the consumer of an output.

Fairness: `WF(MuxTick)` (ticked every cycle) and `WF(Consume(o))` for each
output (the consumers drain every cycle). Senders are not fair.

### Switch

State: `ReqIn`, `ReqOut`, `RspOut`, `RspIn` are the four port vectors, as
sequences of `[uuid, tag]` (the `uuid` is the real field the switch never
reads); `cursors` is `cursors_`. The environment adds `pend[o]`, the
requests a lossless downstream has taken from `ReqOut[o]`, and two history
variables: `sent[uuid]` (sender and original tag) and `answered`.

`SwitchTick` is one whole `Switch::tick`: for each output, `RspOutNext`,
`RouteOf` and `Routed` are the response half (decode `tag & (R-1)`, shift,
push to `RspIn[o*R + i]`, pop), and `Hits`, `Grant`, `Forwarded` and
`NextCursor` the request half (scan, encode, push, pop, update the cursor).
`R` is `2^log2ceil(I \div O)`. Tag arithmetic is done modulo
`2^TAG_BITS`: the code's field is 32 bits wide, TLC's integers are not, and
the behaviour at the boundary is the same at any width. Because `R` is a
power of two, `& (R-1)` and `>> lg` are `% R` and `\div R`.

Environment: `Send(j, t)`, `MemAccept(o)`, `MemRespond(o, req)` (any pending
request, so responses are reordered) and `Collect(j)`. Fairness: `WF` on the
tick and one `WF` on the downstream and collectors together.

### TimedPort and AluFpu

`TimedPort` is the port library as the spec describes it (it is not under
`src/`): a port is a sequence of `[item, rem]` kept in arrival order, ties
in push order; `PortPush(p, x, d)` inserts after everything arriving within
`d` cycles, `PortReady` says the head has arrived, and `PortAge` is one
cycle passing.

`AluFpu` holds both units, since they share the front end and the warps.
State: the four port vectors `aluIn`, `aluOut`, `fpuIn`, `fpuOut`; the front
end's `cur[w]` (the instruction warp `w` is issuing and its next partial)
and `stalled[w]`; `ticked`, the steps taken in the current cycle.
`AluTick` is `AluUnit::tick`: on every lane of `AluLanes` whose input head
has arrived, pop it (`AluInNext`), push it with `AluDelay`, and clear
`stalled` for its warp when `Resumes` (`eop && fetch_stall`). `FpuTick` is
`FpuUnit::tick`. `Decode` and `IssuePartial` are the front end, `Writeback`
the collector and `Clock` the cycle.

Reads see only arrived items and every push has a delay of at least 1, so
the steps of one cycle commute; the model takes them in one fixed order
(front end, ALU, FPU, writeback, clock), which keeps the state space small
without losing a behaviour. Fairness: `WF` on the two ticks, writeback and
the clock (the simulator runs them every cycle); `SF` on issuing each
warp's pending partials, because issuing is possible only at the start of a
cycle and the front end does not put a decoded instruction off forever.

### AddrType

`GetAddrType(a, limit)` is `get_addr_type`. `limit` is the value that
`1 << LMEM_LOG_SIZE` has once it is converted to `uint64_t` for the
comparison with `addr - LMEM_BASE_ADDR`. The widths are scaled down: the
address has `ADDR_BITS` bits and `int` has `INT_BITS`, still narrower than
the address. `ShiftOne(k)` gives the values the `int` shift can take:
- below the width, `2^k` read as two's complement, so the sign bit is
  negative;
- at or past the width, the shift is undefined, and both outcomes a build
  can produce are kept: 0 (constant folding) and the count modulo the
  width (x86).

`AsAddr` is the conversion to the unsigned address type. The state is the
build's `lmem_limit`, fixed by `Init`, and the last address classified.
`Classify(a)` is the call the memory side makes for every request
address, since `LocalMemDemux` and `LsuMemAdapter` are not under `src/`.
`SpecAddrType` is spec 3.5's range test in mathematical integers.

### Arbiter (abstract) and the two refinements

`Arbiter` states what spec 4.5 promises of any I-to-O arbiter, whatever
its policy. Inputs form groups, one per output. A `Tick` makes every
output whose group holds a waiting request (`Busy`) forward exactly one
of them, and moves nothing else. `Send` and `Consume` are the sender and
consumer, and bound ports deliver at once. Its fairness is weak fairness
of `Tick`, written with `ENABLED <<Tick>>` spelled out as "some output is
busy".

`Mux` and `Switch` each instantiate it (`Abstract == INSTANCE Arbiter
WITH ...`) and check `Abstract!Spec` as a `PROPERTY`. For the Mux the
ports map one to one. For the Switch, `Inputs` and `Outputs` are the
lengths of `ReqIn` and `ReqOut`, and the downstream taking a request is
`Consume`; a response-path step is an abstract stutter. The refinement
is what the mask scan must get right for every cursor; the runs check it
only where the group size is a power of two (`mux_rr`, `switch_rr`).
`mux_npot` checks only `EveryRequestForwarded`. A short scan loop makes the Switch forward on one output while
a busy one idles, which breaks even the safety part.

### SfuUnit

`SfuUnit` holds the SFUs of `NUM_CORES` cores, each with `ISSUE_WIDTH`
lanes (`sfuIn`, `sfuOut`), and one raster, texture and OM coprocessor
whose input and output ports (`copIn`, `copOut`) every core's SFU shares,
as `pending_rsps_` does. The front end (`Decode`, `IssuePartial`, modelled
from the spec) keeps `cur`, `stalled` and the set `sent` of issued
partials; `barWait` is the core's barrier; `retired` is what writeback
collected.

`Cycle` is one simulator cycle: `SfuTick` for each core in turn (the
response loop `Drain` over `DrainOrder`, taking a head only if `Mine`,
then `Dispatch` per lane: `Handle` is the switch on `sfu_type`,
`BarResult` the BAR case with `Barrier`, `Resumes` the
`eop && release_warp` test), then `CopTick`, writeback and the ports
ageing. `core.wspawn`'s answer is chosen freely by `Cycle` on each lane
that calls it. As in `AluFpu`, every push has a delay of at least 1, so
one atomic cycle loses no interleaving.

Fairness: the simulator runs a cycle every cycle, so `Cycle` is weakly
fair. It is written `[]<>Idle \/ []<><<Cycle>>_vars`, where `Idle` says
the cycle would change nothing; that is `WF_vars(Cycle)`, and it spares
TLC evaluating `ENABLED` of the folded cycle. Issuing a decoded
instruction's partials is strongly fair, as in `AluFpu`.

## 4. Runs

| Run | Config | Bounds | What it shows |
|---|---|---|---|
| `lsu_safety` | `MC_LsuUnit.cfg` | 2 lanes, 1 shared bank, 2 request lanes, 2 warps, 2 pending slots, 3 traces | `TypeOK`. `TraceConservation`: every trace is in exactly one place. `PendingLoadsConsistent`. `FenceDrainsLoads` and `FenceBlocksLaterOps`: a fence orders its bank's traffic. `TagNamesOneLoad`: the read lanes in flight under a tag, in the request queue, the memory or the response queue, are exactly the lanes its slot still awaits, so a tag freed and reused at once never collects an answer meant for the earlier load. Holds: 537k distinct states, 1 min. |
| `lsu_liveness` | `MC_LsuUnit_live.cfg` | the same, 1 pending slot, 2 traces | `EveryTraceRetires`: the unit keeps returning to a state in which everything issued has retired. Holds. |
| `lsu_fence_lane` | `MC_LsuUnit_lane.cfg` | the liveness bounds | `OutputOnWarpLane` is **violated**. Warp 0's fence, popped on lane 0, is released in the same tick by lane 1's iteration and leaves on output 1. |
| `lsu_write_ack` | `MC_LsuUnit_ack.cfg` | the liveness bounds, `WriteAcks = TRUE` | `ResponsesAnswerSlots` is **violated**: every queued response must name an allocated slot and only lanes it awaits. A store's acknowledgement carries tag 0. If slot 0 is free, the assert fires. If slot 0 holds a load, the load leaves before its own lane is answered, and that answer then hits the freed slot. |
| `lsu_empty_partial` | `MC_LsuUnit_empty.cfg` | 4 threads, 2 partials of 2 lanes | `SlotsAwaitLanes` (spec 3.3) is **violated**. A partial with no active lane gets a slot whose mask is empty, and no response ever frees it. |
| `mux_rr` | `MC_Mux.cfg` | 4 inputs, 1 output, round robin, 2 requests per group | `TypeOK`. `RoundRobinBoundedWait`: a waiting input sees at most `R - 1` grants to others. `EveryRequestForwarded`: no input starves. `MuxImplementsArbiter`: the Mux refines `Arbiter`. Holds: 3.7k states. |
| `mux_npot` | `MC_Mux_npot.cfg` | 3 inputs, 1 output | `EveryRequestForwarded` is **violated**: `& (R - 1) = & 2` scans only inputs 0 and 2. |
| `switch_rr` | `MC_Switch.cfg` | 6 inputs, 2 outputs (group of 3, R rounded up to 4), 2 requests, tags {0, 3} in 4 bits | `TypeOK`, `ResponseRouting`, `EveryRequestAnswered`, `SwitchImplementsArbiter` (the request path refines `Arbiter`); the scan skips the missing inputs 6 and 7. Holds: 5k states. |
| `switch_remainder` | `MC_Switch_remainder.cfg` | 3 inputs, 2 outputs | `EveryRequestAnswered` is **violated**: `R = 1` and no output scans input 2. |
| `addr_type_shift` | `MC_AddrType.cfg` | 6-bit addresses, 4-bit `int`, `LMEM_LOG_SIZE = 3` (the scaled 31), local memory [16, 24), IO [48, 56) | `ClassifiedAsSpec` is **violated**: `1 << 3` is -8 as an `int`, 56 as an address, so address 24 is classified Shared. Below the sign bit (`LMEM_LOG_SIZE = 2`) the classification agrees with the spec on every address. |
| `alu_fpu` | `MC_AluFpu.cfg` | 2 lanes, 3 warps (two share a lane), 2 partials, 2 instructions, a branch (4 cycles) and an FMA (3 cycles) | `TypeOK`. `FetchStallCoversInstruction`: a warp can fetch again only once no partial of its stalling instruction is waiting. `StalledWarpResumes`. Holds: 130k states. |
| `sfu` | `MC_SfuUnit.cfg` | 2 cores, 2 lanes, 2 warps per core, a 2-warp barrier, 2 partials, 2 instructions in all, ops BAR, OM and WSPAWN | `TypeOK`. `TracesReturnHome`: every issued partial is in exactly one place, and an SFU output holds only its own core's traces on their warp's lane. `SuspensionCoversInstruction`. `BarrierHoldsWarps`. `EveryTraceRetires`. Holds: 207k states, 2 min. |

Why the bounds are enough:

* One bank shared by two lanes is the case in which lanes interact within a
  tick.
* In `lsu_safety` a two-slot table holds two loads under different tags,
  so responses interleave across tags. A freed tag is reused while the
  other is still outstanding, and a third load stalls on the full table.
  Four traces take more than 10 minutes.
* `lsu_liveness` keeps one slot: with two traces, that is the only table
  the two loads can fill, so the stall happens there too.
* Two request lanes make a response partial.
* Three traces give a load, a second load that stalls or a store, and a fence
  in every order.
* For the Mux, two requests per group let two inputs contend while a third
  input waits, which is what bounded waiting and starvation are about; four
  inputs give a mask of 3 and a cursor that wraps (it reaches `R`).
* For the Switch, two requests over two outputs either contend in one
  group or travel through both outputs at once, and let the downstream hold
  and reorder two answers; tags {0, 3} use every bit left after the shift,
  though no run sends a tag past the field.
* For the ALU/FPU, two instructions of two partials on warps that share a
  lane give a stalling instruction whose partials interleave with another
  warp's, in both units; more instructions repeat the same patterns.
* For the SFU, two cores with one OM instruction each put two cores' results
  on the shared coprocessor output, head to head; two warps of a core with
  a BAR each reach the barrier in both orders; WSPAWN lets wspawn answer
  either way. Two issue lanes put the two warps of a core on different
  lanes, so the lane part of `TracesReturnHome` can fail. Two instructions
  in all is the most whose liveness check stays within minutes.
* Liveness uses two traces because, with one slot, the same state space with three takes
  about 6 minutes, over the 5-minute budget of a run (measured with the
  present model: 194k distinct states).

Each property of a passing run has a mutant in `PROJECT.json` that TLC
catches. Examples:
- `Drained_NoWait` releases a fence without waiting for the table to empty.
- `Completed_TestBeforeClear` tests completion before clearing the
  response's lanes, and that breaks liveness.
- `AllocIndex_NoTest` makes `allocate` take slot 0 without testing whether it
  is used. That breaks `TagNamesOneLoad`, but only with two slots.

## 5. Findings

* **Fence output lane** (`func_unit.cpp:146`). A finished load leaves on
  `wid % ISSUE_WIDTH`, but a fence leaves on the lane whose loop iteration
  finds its bank drained. With `NUM_LSU_BLOCKS < ISSUE_WIDTH` that is often
  another warp's lane. The spec copies both rules (4.4(b) and 4.4(c)1) without
  reconciling them.
* **Empty partial load** (`func_unit.cpp:195`). The LSU does not enforce spec
  3.3's invariant that an allocated slot awaits at least one lane. The
  invariant depends on the front end never issuing a partial with no active
  thread.

* **Mux group size not checked** (`types.h:455-460`). The spec says
  `R = I/O` must be a power of two; the constructor asserts only `I >= O`.
  `Mux(3,1)` never forwards input 1's requests (`mux_npot`). With `Mux(3,2)`
  `R` rounds down to 1 and input 2 is in no group. No run checks
  `Mux(3,2)`; the same rounding is checked on the Switch
  (`switch_remainder`).

* **Write acknowledgements** (`func_unit.cpp:124`). A store goes out with
  tag 0 and holds no slot, so the LSU is correct only if the memory never
  answers a write. Neither src/ nor the spec says so (`lsu_write_ack`).

* **Local memory size as an `int` shift** (`types.h:154`). `get_addr_type`
  compares the `uint64_t` `addr - LMEM_BASE_ADDR` with the `int`
  `1 << LMEM_LOG_SIZE`.
  - At `LMEM_LOG_SIZE = 31` the `int` is `-2^31`. Converted to
    `2^64 - 2^31`, it makes every non-IO address above the base Shared
    (`addr_type_shift`).
  - Past 31 the shift is undefined.

  Spec 3.5 says local memory is `2^LMEM_LOG_SIZE` bytes, with no bound on
  the constant.
* **Switch tag truncation** (`types.h:603`). `MemReq::tag` is 32 bits and
  the encode shifts it left by `lg`; a tag of `2^(32-lg)` or more loses its
  top bits, so the spec's "encode then decode is the identity" (section 8)
  holds only below that bound. An earlier run showed this. The run now
  gives its slot to `addr_type_shift`. `switch_rr` keeps its tags exactly
  at the field's width, so `ResponseRouting` still catches a wrong encode.
* **Switch group size** (`types.h:546`). As for the Mux when `O` does not
  divide `I`: `Switch(3,2)` never answers input 2 (`switch_remainder`). The
  Switch does round `R` up, so a group of 3 is served (`switch_rr`).

## 6. Not modelled, and why

* The performance counters and the debug printing.
* The stream `operator<<` functions of `types.h`: formatting only.
* The `LocalMemDemux` and `LsuMemAdapter` bodies and the port library: not in
  `src/`. They are modelled by their contract.
* The texture regression test: host I/O.
* The raster/texture/OM coprocessor internals: out of scope per the spec.
* The core's warp scheduler beyond what the SFU calls: `wspawn` is modelled
  as an answer either way, so whether a warp refused by `wspawn` is ever
  resumed is not checked (a listed hazard).
* `CMOV`, which reaches `std::abort` in `SfuUnit::tick`: excluded by an
  `ASSUME`.
* The LSU refinement (plan step 5): one `LsuTick` takes, completes and
  releases several traces at once, in lane order, with a fence released
  by another lane's iteration. An abstract step that admits exactly those
  batches is as long as the tick itself. The LSU's promises are checked
  as the invariants of `lsu_safety` instead.
* The Priority policy of the Mux and Switch is in the model: `NextCursor`
  leaves the cursor at 0. But every run uses round robin, because under
  Priority a saturated input starving the others is the intended
  behaviour, and the request path is otherwise the same scan.
* The composed core (plan step 6): the twelve runs are taken.
* Operation latencies come from `constants.h`, which is not in `src/`; the
  configurations use small values so that ops of different latency overlap.
  `XLEN` is scaled down from 32 the same way the Switch's tag width is.
