------------------------------ MODULE LsuUnit ------------------------------
(***************************************************************************)
(* The load/store unit of src/sim/simx/func_unit.cpp (LsuUnit::tick),     *)
(* together with the parts of its environment the tick reads and writes:  *)
(* the front end that fills the per-lane input queues, the memory side    *)
(* that answers read requests (possibly in several partial responses,    *)
(* in any order across tags), and the writeback collector that drains the *)
(* output queues.                                                          *)
(*                                                                         *)
(* Every port the LSU pushes to uses delay 1, so a port is a FIFO          *)
(* sequence; one simulator cycle of the LSU is the single atomic action    *)
(* LsuTick, and the environment's steps interleave with it freely, which  *)
(* admits every timing the cycle-driven simulator can produce.             *)
(***************************************************************************)
EXTENDS Naturals, FiniteSets, Sequences, SequencesExt, HashTable

CONSTANTS
  ISSUE_WIDTH,     \* issue lanes of the unit
  NUM_LSU_BLOCKS,  \* banks; lane iw uses bank iw % NUM_LSU_BLOCKS
  NUM_LSU_LANES,   \* lanes of one memory request
  NUM_THREADS,     \* threads of a warp (tmask width)
  NUM_WARPS,
  LSUQ_SIZE,       \* capacity of a bank's pending-load table
  MaxTraces,       \* bound: number of traces the front end issues
  EmptyPartials,   \* may the front end issue a partial with no active lane?
  WriteAcks,       \* does the memory side answer writes too?
  NoTrace          \* model value: the null trace pointer

ASSUME /\ ISSUE_WIDTH \in Nat \ {0}
       /\ NUM_LSU_BLOCKS \in 1 .. ISSUE_WIDTH
       /\ NUM_LSU_LANES \in Nat \ {0}
       /\ NUM_THREADS \in Nat \ {0} /\ NUM_THREADS % NUM_LSU_LANES = 0
       /\ NUM_WARPS \in Nat \ {0}
       /\ LSUQ_SIZE \in Nat \ {0}
       /\ MaxTraces \in Nat
       /\ EmptyPartials \in BOOLEAN /\ WriteAcks \in BOOLEAN

IssueLanes == 0 .. ISSUE_WIDTH - 1
Blocks     == 0 .. NUM_LSU_BLOCKS - 1
Lanes      == 0 .. NUM_LSU_LANES - 1
Threads    == 0 .. NUM_THREADS - 1
Warps      == 0 .. NUM_WARPS - 1
Pids       == 0 .. NUM_THREADS \div NUM_LSU_LANES - 1
Tags       == 0 .. LSUQ_SIZE - 1
LsuTypes   == {"LOAD", "STORE", "FENCE"}

\* The fields of a trace the LSU reads (uuid stands for the trace's identity).
TraceSet == [uuid : 1 .. MaxTraces, wid : Warps, pid : Pids,
             lsu_type : LsuTypes, tmask : SUBSET Threads]

\* pending_req_t: the retained trace and the lanes still awaited.
NoEntry == [trace |-> NoTrace, mask |-> {}]

VARIABLES
  inq,            \* Inputs[iw]: sequence of traces
  outq,           \* Outputs[iw]: sequence of traces
  pending_rd_reqs,\* states_[b].pending_rd_reqs: a HashTable value
  fence_lock,     \* states_[b].fence_lock
  fence_trace,    \* states_[b].fence_trace
  pending_loads,  \* pending_loads_
  reqq,           \* lsu_demux_[b]->ReqIn: sequence of LsuReq
  rspq,           \* lsu_demux_[b]->RspIn: sequence of LsuRsp
  memq,           \* memory side: [tag, uuid, lane] of read lanes not yet answered
  issued,         \* front end: number of traces issued so far
  retired,        \* writeback: uuids of traces consumed from Outputs
  hist            \* history: pops, requests and output pushes, in order

vars == <<inq, outq, pending_rd_reqs, fence_lock, fence_trace, pending_loads,
          reqq, rspq, memq, issued, retired, hist>>

-----------------------------------------------------------------------------
(* The request mask of a partial issue: lane i is active iff thread        *)
(* pid * NUM_LSU_LANES + i is in tmask (LsuUnit::tick, t0 = pid * L).      *)
ReqMask(tr) == {i \in Lanes : tr.pid * NUM_LSU_LANES + i \in tr.tmask}

Bank(iw) == iw % NUM_LSU_BLOCKS

\* A history event; lane is the output lane of an "out" event.
Ev(ev, tr, b, lane) == [ev |-> ev, uuid |-> tr.uuid, wid |-> tr.wid,
                        type |-> tr.lsu_type, blk |-> b, lane |-> lane]

(***************************************************************************)
(* The tick works on a record holding everything it touches, so that its  *)
(* two loops can be written as folds in the order the code runs them.     *)
(***************************************************************************)
TickState == [inq |-> inq, outq |-> outq, tbl |-> pending_rd_reqs,
              lock |-> fence_lock, ftr |-> fence_trace, pl |-> pending_loads,
              reqq |-> reqq, rspq |-> rspq, hist |-> hist]

\* Mutant: completion is tested on the mask before the response's lanes
\* are cleared from it.
Completed_TestBeforeClear(e, rsp) == e.mask = {}

\* Mutant: the slot is released on the first (partial) response.
Completed_FirstResponse(e, rsp) == TRUE

\* entry.mask &= ~lsu_rsp.mask; if (entry.mask.none()) ...
Completed(e, rsp) == e.mask \ rsp.mask = {}

\* Mutant: pending_loads_ drops by the entry's whole remaining mask.
LanesAnswered_CountEntry(e, rsp) == Cardinality(e.mask)

\* pending_loads_ -= lsu_rsp.mask.count()
LanesAnswered(e, rsp) == Cardinality(rsp.mask)

\* Response loop, bank b: take the front LsuRsp and clear its lanes from the
\* entry of its tag; when none remain, push the trace to
\* Outputs[wid % ISSUE_WIDTH] and release the slot.
AbsorbResponse(s, b) ==
  IF s.rspq[b] = <<>> THEN s
  ELSE
    LET rsp == Head(s.rspq[b])
        e   == At(s.tbl[b], rsp.tag)
        iw  == e.trace.wid % ISSUE_WIDTH
        s1  == [s EXCEPT !.tbl[b]  = Update(@, rsp.tag, [e EXCEPT !.mask = @ \ rsp.mask]),
                         !.pl      = @ - LanesAnswered(e, rsp),
                         !.rspq[b] = Tail(@)]
    IN  IF ~Completed(e, rsp) THEN s1
        ELSE [s1 EXCEPT !.tbl[b]   = Release(@, rsp.tag),
                        !.outq[iw] = Append(@, e.trace),
                        !.hist     = Append(@, Ev("out", e.trace, b, iw))]

\* Mutant: pending_loads_ is bumped for stores as well.
LoadsSent_CountStores(write, mask) == Cardinality(mask)

\* if (!is_write) pending_loads_ += num_addrs
LoadsSent(write, mask) == IF write THEN 0 ELSE Cardinality(mask)

\* Build and send the LsuReq of the front trace tr of lane iw (a load
\* allocates a slot whose index is the tag, a store uses tag 0); a store
\* also goes straight to the output; the input is popped.
SendRequest(s, iw, tr) ==
  LET b     == Bank(iw)
      write == tr.lsu_type = "STORE"
      mask  == ReqMask(tr)
      tag   == IF write THEN 0 ELSE AllocIndex(s.tbl[b])
      req   == [mask |-> mask, write |-> write, tag |-> tag, uuid |-> tr.uuid]
      outs  == IF write THEN <<Ev("out", tr, b, iw)>> ELSE <<>>
  IN [s EXCEPT !.tbl[b]   = IF write THEN @ ELSE Allocate(@, [trace |-> tr, mask |-> mask]),
               !.reqq[b]  = Append(@, req),
               !.pl       = @ + LoadsSent(write, mask),
               !.outq[iw] = IF write THEN Append(@, tr) ELSE @,
               !.hist     = @ \o <<Ev("pop", tr, b, iw), Ev("req", tr, b, iw)>> \o outs,
               !.inq[iw]  = Tail(@)]

\* Request loop, lane iw, after any fence of its bank has been released.
IssueInput(s, iw) ==
  LET b == Bank(iw) IN
  IF s.inq[iw] = <<>> THEN s
  ELSE
    LET tr == Head(s.inq[iw]) IN
    CASE tr.lsu_type = "FENCE" ->
           [s EXCEPT !.ftr[b] = tr, !.lock[b] = TRUE, !.inq[iw] = Tail(@),
                     !.hist = Append(@, Ev("pop", tr, b, iw))]
      [] tr.lsu_type = "LOAD" /\ IsFull(s.tbl[b]) -> s   \* stall (log_once)
      [] OTHER -> SendRequest(s, iw, tr)

\* Mutant: the drain test is left out.
Drained_NoWait(tbl) == TRUE

\* if (!state.pending_rd_reqs.empty()) continue
Drained(tbl) == IsEmpty(tbl)

\* Mutant: the `continue` of a locked, undrained bank falls through to the
\* lane's input.
Undrained_FallThrough(s, iw) == IssueInput(s, iw)

\* continue: the lane does nothing this tick.
Undrained(s, iw) == s

\* Mutant: the fence is pushed but fence_lock is left set.
UnlockFence_KeepLock(s, b, iw) ==
  [s EXCEPT !.outq[iw] = Append(@, s.ftr[b]), !.hist = Append(@, Ev("out", s.ftr[b], b, iw))]

\* Outputs.at(iw).push(state.fence_trace, 1); state.fence_lock = false
UnlockFence(s, b, iw) ==
  [s EXCEPT !.outq[iw] = Append(@, s.ftr[b]), !.lock[b] = FALSE,
            !.hist = Append(@, Ev("out", s.ftr[b], b, iw))]

\* Request loop, lane iw: a locked bank waits for its loads to drain, then
\* pushes the fence trace to this lane's output and unlocks.
IssueLane(s, iw) ==
  LET b == Bank(iw) IN
  IF ~s.lock[b] THEN IssueInput(s, iw)
  ELSE IF ~Drained(s.tbl[b]) THEN Undrained(s, iw)
  ELSE IssueInput(UnlockFence(s, b, iw), iw)

BlockOrder == [k \in 1 .. NUM_LSU_BLOCKS |-> k - 1]
LaneOrder  == [k \in 1 .. ISSUE_WIDTH |-> k - 1]

\* assert(!entry.mask.none()): the head response of bank b names a slot
\* that awaits lanes.  When it fails the simulator aborts, so no tick runs.
HeadAwaited(b) ==
  rspq[b] # <<>> => At(pending_rd_reqs[b], Head(rspq[b]).tag).mask # {}

\* LsuUnit::tick: the response loop over banks, then the request loop over
\* lanes (the load_latency statistic is not modelled).
LsuTick ==
  /\ \A b \in Blocks : HeadAwaited(b)
  /\ \E s \in {FoldLeft(IssueLane, FoldLeft(AbsorbResponse, TickState, BlockOrder), LaneOrder)} :
       /\ inq' = s.inq /\ outq' = s.outq /\ pending_rd_reqs' = s.tbl
       /\ fence_lock' = s.lock /\ fence_trace' = s.ftr /\ pending_loads' = s.pl
       /\ reqq' = s.reqq /\ rspq' = s.rspq /\ hist' = s.hist
       /\ UNCHANGED <<memq, issued, retired>>

-----------------------------------------------------------------------------
(***************************************************************************)
(* Environment.                                                            *)
(***************************************************************************)

\* Front end: warp w's next LSU op enters issue lane w % ISSUE_WIDTH.  The
\* mask of a fence is irrelevant to the LSU and is fixed.
Issue(w, pid, type, tm) ==
  LET tr == [uuid |-> issued + 1, wid |-> w, pid |-> pid,
             lsu_type |-> type, tmask |-> tm]
  IN /\ issued < MaxTraces
     /\ type = "FENCE" => pid = 0 /\ tm = Threads
     /\ tm # {}
     /\ type # "FENCE" /\ ~EmptyPartials => ReqMask(tr) # {}
     /\ inq' = [inq EXCEPT ![w % ISSUE_WIDTH] = Append(@, tr)]
     /\ issued' = issued + 1
     /\ UNCHANGED <<outq, pending_rd_reqs, fence_lock, fence_trace,
                    pending_loads, reqq, rspq, memq, retired, hist>>

\* Memory side: accept the front request of bank b.  A read's lanes are
\* remembered with its tag and uuid; so are a write's if the memory
\* acknowledges writes (MemRsp has no write flag, spec 3.5).
MemAccept(b) ==
  /\ reqq[b] # <<>>
  /\ LET req == Head(reqq[b]) IN
       memq' = IF req.write /\ ~WriteAcks THEN memq
               ELSE [memq EXCEPT ![b] = @ \cup
                       {[tag |-> req.tag, uuid |-> req.uuid, lane |-> i] : i \in req.mask}]
  /\ reqq' = [reqq EXCEPT ![b] = Tail(@)]
  /\ UNCHANGED <<inq, outq, pending_rd_reqs, fence_lock, fence_trace,
                 pending_loads, rspq, issued, retired, hist>>

\* Memory side: answer some of the outstanding lanes m of read (t, u) with
\* one LsuRsp echoing tag and uuid; reads are answered in any order.
MemRespond(b, t, u, m) ==
  LET lanes == {[tag |-> t, uuid |-> u, lane |-> i] : i \in m} IN
  /\ m # {} /\ lanes \subseteq memq[b]
  /\ rspq' = [rspq EXCEPT ![b] = Append(@, [mask |-> m, tag |-> t, uuid |-> u])]
  /\ memq' = [memq EXCEPT ![b] = @ \ lanes]
  /\ UNCHANGED <<inq, outq, pending_rd_reqs, fence_lock, fence_trace,
                 pending_loads, reqq, issued, retired, hist>>

\* Writeback collector: consume the front trace of Outputs[iw].
Writeback(iw) ==
  /\ outq[iw] # <<>>
  /\ retired' = retired \cup {Head(outq[iw]).uuid}
  /\ outq' = [outq EXCEPT ![iw] = Tail(@)]
  /\ UNCHANGED <<inq, pending_rd_reqs, fence_lock, fence_trace,
                 pending_loads, reqq, rspq, memq, issued, hist>>

\* LsuUnit(): pending_loads_ = 0; reset(): every bank's state cleared.
Init ==
  /\ inq = [iw \in IssueLanes |-> <<>>]
  /\ outq = [iw \in IssueLanes |-> <<>>]
  /\ pending_rd_reqs = [b \in Blocks |-> Clear(NewTable(LSUQ_SIZE, NoEntry))]
  /\ fence_lock = [b \in Blocks |-> FALSE]
  /\ fence_trace = [b \in Blocks |-> NoTrace]
  /\ pending_loads = 0
  /\ reqq = [b \in Blocks |-> <<>>]
  /\ rspq = [b \in Blocks |-> <<>>]
  /\ memq = [b \in Blocks |-> {}]
  /\ issued = 0
  /\ retired = {}
  /\ hist = <<>>

Next ==
  \/ LsuTick
  \/ \E w \in Warps, pid \in Pids, type \in LsuTypes, tm \in SUBSET Threads :
       Issue(w, pid, type, tm)
  \/ \E b \in Blocks : MemAccept(b)
  \/ \E b \in Blocks : \E x \in memq[b], m \in SUBSET Lanes : MemRespond(b, x.tag, x.uuid, m)
  \/ \E iw \in IssueLanes : Writeback(iw)

(***************************************************************************)
(* Fairness: the simulator ticks the LSU every cycle; the memory contract  *)
(* (spec section 6) says every request is eventually taken and every read *)
(* lane eventually answered; the writeback collector drains every cycle.  *)
(* The environment's guarantee is stated as one weak fairness condition on *)
(* its steps together -- weaker than the contract, so what holds under it  *)
(* holds under the contract.  The front end is not fair: it may stop.     *)
(***************************************************************************)
EnvProgress ==
  \/ \E b \in Blocks : MemAccept(b)
  \/ \E b \in Blocks : \E x \in memq[b], m \in SUBSET Lanes : MemRespond(b, x.tag, x.uuid, m)
  \/ \E iw \in IssueLanes : Writeback(iw)

Fairness == WF_vars(LsuTick) /\ WF_vars(EnvProgress)

Spec == Init /\ [][Next]_vars /\ Fairness

-----------------------------------------------------------------------------
(***************************************************************************)
(* Properties.                                                             *)
(***************************************************************************)

TypeOK ==
  /\ inq \in [IssueLanes -> Seq(TraceSet)]
  /\ outq \in [IssueLanes -> Seq(TraceSet)]
  /\ \A b \in Blocks :
       /\ DOMAIN pending_rd_reqs[b].used = Tags
       /\ pending_rd_reqs[b].size \in 0 .. LSUQ_SIZE
       /\ \A t \in Tags : pending_rd_reqs[b].val[t] \in
             [trace : TraceSet \cup {NoTrace}, mask : SUBSET Lanes]
  /\ fence_lock \in [Blocks -> BOOLEAN]
  /\ fence_trace \in [Blocks -> TraceSet \cup {NoTrace}]
  /\ pending_loads \in Nat
  /\ memq \in [Blocks -> SUBSET [tag : Tags, uuid : 1 .. MaxTraces, lane : Lanes]]
  /\ issued \in 0 .. MaxTraces
  /\ retired \subseteq 1 .. issued

\* Number of places trace u occupies: input queues, output queues, pending
\* table slots, a locked bank's fence_trace, and the retired set.
Occurrences(u) ==
  LET InSeq(q) == Cardinality({k \in DOMAIN q : q[k].uuid = u}) IN
    MapThenSumSet(LAMBDA iw : InSeq(inq[iw]) + InSeq(outq[iw]), IssueLanes)
  + MapThenSumSet(LAMBDA b :
        Cardinality({t \in Allocated(pending_rd_reqs[b]) :
                       At(pending_rd_reqs[b], t).trace.uuid = u})
      + (IF fence_lock[b] /\ fence_trace[b].uuid = u THEN 1 ELSE 0), Blocks)
  + (IF u \in retired THEN 1 ELSE 0)

\* Spec 4.4 invariant (i): every issued trace is in exactly one place --
\* the LSU neither loses a trace (a slot released without its push, a fence
\* overwritten while locked) nor duplicates one (a fence pushed twice, a
\* load pushed on each partial response).
TraceConservation == \A u \in 1 .. issued : Occurrences(u) = 1

\* Spec 4.4 invariant (ii): pending_loads_ equals the number of read lanes
\* still awaited over all banks' allocated slots, across partial responses.
PendingLoadsConsistent ==
  pending_loads =
    MapThenSumSet(LAMBDA b :
      MapThenSumSet(LAMBDA t : Cardinality(At(pending_rd_reqs[b], t).mask),
                    Allocated(pending_rd_reqs[b])), Blocks)

\* The read lanes of bank b travelling between the LSU and the memory: in
\* a request not yet taken, held by the memory, or in a response not yet
\* absorbed.  at tells apart equal lanes in different places.
Travelling(b) ==
  LET Lanes_(q, k, at) == {[at |-> at, tag |-> q[k].tag, uuid |-> q[k].uuid, lane |-> i] : i \in q[k].mask}
  IN  UNION {Lanes_(reqq[b], k, k) : k \in {k \in DOMAIN reqq[b] : ~reqq[b][k].write}}
      \cup {[at |-> 0, tag |-> x.tag, uuid |-> x.uuid, lane |-> x.lane] : x \in memq[b]}
      \cup UNION {Lanes_(rspq[b], k, -k) : k \in DOMAIN rspq[b]}

\* The lanes the pending table of bank b awaits, under the slot's tag and
\* the uuid of the load in the slot.
Awaited(b) ==
  UNION {{[tag |-> t, uuid |-> At(pending_rd_reqs[b], t).trace.uuid, lane |-> i] :
            i \in At(pending_rd_reqs[b], t).mask} : t \in Allocated(pending_rd_reqs[b])}

\* Tag reuse (HashTable::allocate hands out the lowest free index at
\* once, and a response is matched to its slot by tag alone): every read
\* lane in flight is awaited by the slot its tag names, for the load whose
\* uuid it carries, and travels exactly once; so a response can never be
\* applied to a later load that reused its tag, and no lane is lost.
TagNamesOneLoad ==
  \A b \in Blocks :
    /\ {[tag |-> x.tag, uuid |-> x.uuid, lane |-> x.lane] : x \in Travelling(b)} = Awaited(b)
    /\ Cardinality(Travelling(b)) = Cardinality(Awaited(b))

\* Index in hist of the first event of kind ev for trace u (0 if none).
EvIndex(ev, u) ==
  LET ks == {k \in DOMAIN hist : hist[k].ev = ev /\ hist[k].uuid = u}
  IN IF ks = {} THEN 0 ELSE Min(ks)

\* Fence drain (spec section 8): when a fence leaves bank b, every load
\* that bank accepted before the fence has already left, i.e. all of its
\* partial responses were absorbed.
FenceDrainsLoads ==
  \A k \in DOMAIN hist :
    hist[k].ev = "out" /\ hist[k].type = "FENCE" =>
      \A j \in 1 .. EvIndex("pop", hist[k].uuid) - 1 :
        hist[j].ev = "pop" /\ hist[j].type = "LOAD" /\ hist[j].blk = hist[k].blk
          => EvIndex("out", hist[j].uuid) \in 1 .. k - 1

\* Fence blocking (spec 4.4 invariant (iii)): no trace a bank accepts after
\* a fence sends a request or leaves the unit before that fence has left.
FenceBlocksLaterOps ==
  \A k \in DOMAIN hist :
    hist[k].ev \in {"req", "out"} =>
      \A f \in 1 .. EvIndex("pop", hist[k].uuid) - 1 :
        hist[f].ev = "pop" /\ hist[f].type = "FENCE" /\ hist[f].blk = hist[k].blk
          => EvIndex("out", hist[f].uuid) \in 1 .. k - 1

\* Liveness: every issued trace -- load, store or fence -- eventually
\* reaches the writeback collector, given a memory that answers every lane:
\* however the front end issues, the unit keeps coming back to a state in
\* which everything issued has retired (the front end issues finitely often).
EveryTraceRetires == []<>(retired = 1 .. issued)

\* assert(!entry.mask.none()) in the response loop, and spec 4.4 (b):
\* every response waiting for the LSU names an allocated slot, and the
\* lanes it answers are lanes that slot still awaits.
ResponsesAnswerSlots ==
  \A b \in Blocks : \A k \in DOMAIN rspq[b] :
    LET rsp == rspq[b][k] IN
      rsp.tag \in Allocated(pending_rd_reqs[b])
      /\ rsp.mask \subseteq At(pending_rd_reqs[b], rsp.tag).mask

\* Spec 3.3: an allocated pending slot always awaits at least one lane.
SlotsAwaitLanes ==
  \A b \in Blocks : \A t \in Allocated(pending_rd_reqs[b]) :
    At(pending_rd_reqs[b], t).mask # {}

\* Spec 4.4 (b) and 4.6 (a) send a finished trace to output
\* wid % ISSUE_WIDTH, the lane its warp issues on: every trace of the unit
\* leaves on its warp's lane.
OutputOnWarpLane ==
  \A k \in DOMAIN hist : hist[k].ev = "out" => hist[k].lane = hist[k].wid % ISSUE_WIDTH
=============================================================================
