------------------------------- MODULE SfuUnit -------------------------------
(***************************************************************************)
(* SfuUnit::tick of src/sim/simx/func_unit.cpp on NUM_CORES cores that     *)
(* share their raster, texture and OM coprocessors, with the front end     *)
(* that feeds each SFU and the warp-scheduler callbacks it calls.          *)
(*                                                                         *)
(* A tick first drains the coprocessor outputs, taking a head only when    *)
(* its cid is this core's, then dispatches every lane's arrived input:    *)
(* warp-control and CSR ops go to the output with delay 4, coprocessor     *)
(* ops to the coprocessor's input with delay 2; WSPAWN and BAR call        *)
(* core.wspawn / core.barrier on eop and take its answer as release_warp;  *)
(* eop && release_warp resumes the warp.                                   *)
(*                                                                         *)
(* A cycle is the front end's issue steps followed by the action Cycle,   *)
(* which runs the rest in the simulator's order: the SFU of core 0, 1,     *)
(* ..., the coprocessors, writeback, and the ageing of every port.  Every  *)
(* push has delay >= 1, so only the order of the SFUs, which pop the same *)
(* coprocessor outputs, matters within a cycle.                            *)
(***************************************************************************)
EXTENDS Naturals, Sequences, FiniteSets, SequencesExt, TimedPort

CONSTANTS
  NUM_CORES, ISSUE_WIDTH, NUM_WARPS, NUM_PARTIALS,
  SfuOps,        \* the sub-ops the front end issues
  BAR_COUNT,     \* arg2 of BAR: warps the barrier waits for
  COP_LATENCY,   \* cycles a coprocessor holds a trace
  MaxInstrs      \* bound on instructions decoded, over all cores

SfuTypes == {"TMC", "WSPAWN", "SPLIT", "JOIN", "BAR", "PRED", "CSRRW", "CSRRS",
             "CSRRC", "TEX", "RASTER", "OM", "CMOV"}

\* pending_rsps_ in constructor order: raster, texture, OM units.
Coprocs == <<"RASTER", "TEX", "OM">>
CopIds  == 1 .. Len(Coprocs)

\* CMOV has no case and reaches std::abort(); the front end never issues it.
ASSUME /\ SfuOps \subseteq SfuTypes \ {"CMOV"}
       /\ NUM_PARTIALS \in Nat \ {0} /\ BAR_COUNT \in 1 .. NUM_WARPS
       /\ COP_LATENCY \in Nat \ {0} /\ MaxInstrs \in Nat

Cores == 0 .. NUM_CORES - 1
Lanes == 0 .. ISSUE_WIDTH - 1
Warps == 0 .. NUM_WARPS - 1
Lane(w) == w % ISSUE_WIDTH
CopOf(op) == CHOOSE k \in CopIds : Coprocs[k] = op

NoInstr == [op |-> "NONE"]

VARIABLES
  sfuIn, sfuOut,  \* sfuIn[c][iw], sfuOut[c][iw]: SfuUnit Inputs, Outputs
  copIn, copOut,  \* copIn[k], copOut[k]: Input and Output of coprocessor k
  cur,            \* front end: the instruction warp w of core c is issuing
  stalled,        \* front end: stalled[c][w], warp w's fetch is suspended
  ninstrs,        \* front end: instructions decoded so far
  laneUsed,       \* front end: lanes pushed to this cycle, per core
  barWait,        \* core.barrier: warps of core c waiting at barrier 0
  sent,           \* history: every partial the front end issued
  retired         \* writeback: partials consumed from the outputs

vars == <<sfuIn, sfuOut, copIn, copOut, cur, stalled, ninstrs, laneUsed,
          barWait, sent, retired>>

-----------------------------------------------------------------------------
(* The state a cycle's ticks read and write.                               *)
TickState == [out |-> sfuOut, in |-> sfuIn, cin |-> copIn, cout |-> copOut,
              stalled |-> stalled, bar |-> barWait]

\* Mutant: the cid test is left out.
Mine_AnyCore(c, tr) == TRUE

\* if (trace->cid != core_->id()) continue
Mine(c, tr) == tr.cid = c

\* Response loop of core c, coprocessor k: an arrived head addressed to
\* this core goes to output wid % ISSUE_WIDTH with delay 1 and is popped;
\* any other head is left for its own core.
Drain(c, s, k) ==
  IF PortReady(s.cout[k]) /\ Mine(c, PortFront(s.cout[k]))
  THEN LET tr == PortFront(s.cout[k]) IN
       [s EXCEPT !.out[c][Lane(tr.wid)] = PortPush(@, tr, 1), !.cout[k] = PortPop(@)]
  ELSE s

\* Mutant: the loop over pending_rsps_ stops one unit early.
DrainOrder_Short == [i \in 1 .. Len(Coprocs) - 1 |-> i]

\* for (auto pending_rsp : pending_rsps_)
DrainOrder == [i \in CopIds |-> i]

\* core.barrier(arg1, arg2, wid) of core c (not under src/; spec 6): the
\* warp joins the barrier; the BAR_COUNT-th arrival resumes the others,
\* clears the barrier and is told it may continue.
Barrier(s, c, w) ==
  LET arrived == s.bar[c] \cup {w} IN
  IF Cardinality(arrived) < BAR_COUNT
  THEN [st |-> [s EXCEPT !.bar[c] = arrived], rw |-> FALSE]
  ELSE [st |-> [s EXCEPT !.bar[c] = {},
                         !.stalled[c] = [x \in Warps |-> IF x \in arrived THEN FALSE ELSE @[x]]],
        rw |-> TRUE]

\* Mutant: barrier() is called but release_warp keeps its default.
BarResult_Default(s, c, tr) ==
  [st |-> IF tr.eop THEN Barrier(s, c, tr.wid).st ELSE s, rw |-> tr.fetch_stall]

\* case BAR: on eop, release_warp = core_->barrier(arg1, arg2, wid).
BarResult(s, c, tr) ==
  IF tr.eop THEN Barrier(s, c, tr.wid) ELSE [st |-> s, rw |-> tr.fetch_stall]

\* The switch on sfu_type for the front trace tr of core c's lane iw: the
\* state after it and release_warp.  spawn is core.wspawn's answer.
Handle(s, c, iw, tr, spawn) ==
  LET pushed == [s EXCEPT !.out[c][iw] = PortPush(@, tr, 2 + 2)] IN
  CASE tr.op = "WSPAWN" -> [st |-> pushed, rw |-> IF tr.eop THEN spawn ELSE tr.fetch_stall]
    [] tr.op = "BAR" -> BarResult(pushed, c, tr)
    [] tr.op \in {"RASTER", "TEX", "OM"} ->
         [st |-> [s EXCEPT !.cin[CopOf(tr.op)] = PortPush(@, tr, 2)], rw |-> tr.fetch_stall]
    [] OTHER -> [st |-> pushed, rw |-> tr.fetch_stall]

\* Mutant: resume on release_warp alone.
Resumes_NoEop(tr, rw) == rw

\* if (trace->eop && release_warp) core_->resume(trace->wid)
Resumes(tr, rw) == tr.eop /\ rw

\* Request loop of core c, lane iw: dispatch the arrived head, resume, pop.
Dispatch(c, s, iw, spawn) ==
  IF ~PortReady(s.in[c][iw]) THEN s
  ELSE LET tr == PortFront(s.in[c][iw])
           h  == Handle(s, c, iw, tr, spawn)
       IN  [h.st EXCEPT !.in[c][iw] = PortPop(@),
                        !.stalled[c][tr.wid] = IF Resumes(tr, h.rw) THEN FALSE ELSE @]

LaneOrder == [i \in 1 .. ISSUE_WIDTH |-> i - 1]

\* SfuUnit::tick of core c: the response loop, then the request loop;
\* spawn[iw] is core.wspawn's answer to lane iw.
SfuTick(s, c, spawn) ==
  FoldLeft(LAMBDA t, iw : Dispatch(c, t, iw, spawn[iw]),
           FoldLeft(LAMBDA t, k : Drain(c, t, k), s, DrainOrder), LaneOrder)

\* A coprocessor (not under src/; spec 6) takes its arrived input head and
\* returns it on its output COP_LATENCY cycles later.
CopTick(s) ==
  [s EXCEPT !.cin  = [k \in CopIds |-> IF PortReady(@[k]) THEN PortPop(@[k]) ELSE @[k]],
            !.cout = [k \in CopIds |-> IF PortReady(s.cin[k])
                                       THEN PortPush(@[k], PortFront(s.cin[k]), COP_LATENCY)
                                       ELSE @[k]]]

\* The writeback collector takes the arrived head of every SFU output.
Collected(s) == {PortFront(p) : p \in {p \in {s.out[c][iw] : c \in Cores, iw \in Lanes} : PortReady(p)}}

WbNext(p) == IF PortReady(p) THEN PortPop(p) ELSE p

\* Lane iw of core c dispatches an eop WSPAWN this cycle (its input is
\* only popped by its own SFU, so the head at the start of the cycle).
Spawning(c, iw) ==
  PortReady(sfuIn[c][iw]) /\ PortFront(sfuIn[c][iw]).op = "WSPAWN" /\ PortFront(sfuIn[c][iw]).eop

\* The rest of the cycle: every core's SFU in order, the coprocessors,
\* writeback, then every port ages.
AfterCycle(spawn) ==
  LET s == CopTick(FoldLeft(LAMBDA t, c : SfuTick(t, c, spawn[c]), TickState,
                            [i \in 1 .. NUM_CORES |-> i - 1]))
  IN [in |-> [c \in Cores |-> [iw \in Lanes |-> PortAge(s.in[c][iw])]],
      out |-> [c \in Cores |-> [iw \in Lanes |-> PortAge(WbNext(s.out[c][iw]))]],
      cin |-> [k \in CopIds |-> PortAge(s.cin[k])],
      cout |-> [k \in CopIds |-> PortAge(s.cout[k])],
      stalled |-> s.stalled, bar |-> s.bar, retired |-> retired \cup Collected(s)]

\* core.wspawn may answer either way; the answer is fixed where no wspawn
\* is called.
Cycle ==
  \E spawn \in [Cores -> [Lanes -> BOOLEAN]] :
  /\ \A c \in Cores, iw \in Lanes : ~Spawning(c, iw) => spawn[c][iw]
  /\ \E a \in {AfterCycle(spawn)} :
       /\ sfuIn' = a.in /\ sfuOut' = a.out /\ copIn' = a.cin /\ copOut' = a.cout
       /\ stalled' = a.stalled /\ barWait' = a.bar /\ retired' = a.retired
       /\ laneUsed' = [c \in Cores |-> {}]
       /\ UNCHANGED <<cur, ninstrs, sent>>

\* A cycle would change nothing (no wspawn can be called then, so the
\* answers do not matter): Idle is ~ENABLED <<Cycle>>_vars.
Idle ==
  LET a == AfterCycle([c \in Cores |-> [iw \in Lanes |-> TRUE]]) IN
  /\ a.in = sfuIn /\ a.out = sfuOut /\ a.cin = copIn /\ a.cout = copOut
  /\ a.stalled = stalled /\ a.bar = barWait /\ a.retired = retired
  /\ laneUsed = [c \in Cores |-> {}]

-----------------------------------------------------------------------------
\* Front end: warp w of core c decodes an SFU instruction; fetch_stall
\* suspends the warp.  WSPAWN and BAR always stall: their callbacks decide
\* when the warp goes on.
Decode(c, w, op, fs) ==
  /\ ninstrs < MaxInstrs
  /\ cur[c][w] = NoInstr /\ ~stalled[c][w]
  /\ op \in {"WSPAWN", "BAR"} => fs
  /\ cur' = [cur EXCEPT ![c][w] = [op |-> op, fs |-> fs, uuid |-> ninstrs, pid |-> 0]]
  /\ stalled' = [stalled EXCEPT ![c][w] = fs]
  /\ ninstrs' = ninstrs + 1
  /\ UNCHANGED <<sfuIn, sfuOut, copIn, copOut, laneUsed, barWait, sent, retired>>

\* Mutant: the last partial is taken to be number NUM_PARTIALS.
IsEop_OffByOne(in) == in.pid = NUM_PARTIALS

\* The partial being issued is the instruction's last (its eop flag).
IsEop(in) == in.pid = NUM_PARTIALS - 1

\* Front end: the next partial of the instruction enters the SFU input of
\* lane wid % ISSUE_WIDTH with delay 1, one trace per lane per cycle.
IssuePartial(c, w) ==
  LET in == cur[c][w]
      tr == [cid |-> c, uuid |-> in.uuid, wid |-> w, op |-> in.op, pid |-> in.pid,
             eop |-> IsEop(in), fetch_stall |-> in.fs]
  IN
  /\ in # NoInstr /\ Lane(w) \notin laneUsed[c]
  /\ sfuIn' = [sfuIn EXCEPT ![c][Lane(w)] = PortPush(@, tr, 1)]
  /\ cur' = [cur EXCEPT ![c][w] = IF tr.eop THEN NoInstr ELSE [in EXCEPT !.pid = @ + 1]]
  /\ laneUsed' = [laneUsed EXCEPT ![c] = @ \cup {Lane(w)}]
  /\ sent' = sent \cup {tr}
  /\ UNCHANGED <<sfuOut, copIn, copOut, stalled, ninstrs, barWait, retired>>

Init ==
  /\ sfuIn = [c \in Cores |-> [iw \in Lanes |-> EmptyPort]]
  /\ sfuOut = [c \in Cores |-> [iw \in Lanes |-> EmptyPort]]
  /\ copIn = [k \in CopIds |-> EmptyPort] /\ copOut = [k \in CopIds |-> EmptyPort]
  /\ cur = [c \in Cores |-> [w \in Warps |-> NoInstr]]
  /\ stalled = [c \in Cores |-> [w \in Warps |-> FALSE]]
  /\ ninstrs = 0 /\ laneUsed = [c \in Cores |-> {}]
  /\ barWait = [c \in Cores |-> {}] /\ sent = {} /\ retired = {}

Next ==
  \/ Cycle
  \/ \E c \in Cores, w \in Warps : IssuePartial(c, w)
  \/ \E c \in Cores, w \in Warps, op \in SfuOps, fs \in BOOLEAN : Decode(c, w, op, fs)

\* The simulator runs cycles forever: WF_vars(Cycle), stated as the
\* equivalent []<>~ENABLED <<Cycle>>_vars \/ []<><<Cycle>>_vars with Idle for
\* the first disjunct.  The front end need not decode, but issues a decoded
\* instruction's partials (possible only until the cycle ends, hence
\* strong fairness).
Spec ==
  /\ Init /\ [][Next]_vars /\ ([]<>Idle \/ []<><<Cycle>>_vars)
  /\ \A c \in Cores, w \in Warps : SF_vars(IssuePartial(c, w))

-----------------------------------------------------------------------------
Trace == [cid : Cores, uuid : 0 .. MaxInstrs - 1, wid : Warps, op : SfuOps,
          pid : 0 .. NUM_PARTIALS - 1, eop : BOOLEAN, fetch_stall : BOOLEAN]

PortOK(p) == \A i \in DOMAIN p : p[i].item \in Trace /\ p[i].rem \in 0 .. 4

TypeOK ==
  /\ \A c \in Cores, iw \in Lanes : PortOK(sfuIn[c][iw]) /\ PortOK(sfuOut[c][iw])
  /\ \A k \in CopIds : PortOK(copIn[k]) /\ PortOK(copOut[k])
  /\ stalled \in [Cores -> [Warps -> BOOLEAN]]
  /\ ninstrs \in 0 .. MaxInstrs
  /\ barWait \in [Cores -> SUBSET Warps]
  /\ sent \subseteq Trace /\ retired \subseteq sent

\* Positions trace tr occupies in the ports, plus one if it has retired.
Places(tr) ==
  LET N(p) == Cardinality({i \in DOMAIN p : p[i].item = tr}) IN
    MapThenSumSet(LAMBDA c : MapThenSumSet(LAMBDA iw : N(sfuIn[c][iw]) + N(sfuOut[c][iw]), Lanes), Cores)
  + MapThenSumSet(LAMBDA k : N(copIn[k]) + N(copOut[k]), CopIds)
  + (IF tr \in retired THEN 1 ELSE 0)

\* Coprocessor results go home (spec 4.6 (a), 6): the cores share each
\* coprocessor's output port and each SFU takes only heads with its cid,
\* so every issued partial is in exactly one place, and every trace in a
\* core's SFU output came from that core, on its warp's lane.
TracesReturnHome ==
  /\ \A tr \in sent : Places(tr) = 1
  /\ \A c \in Cores, iw \in Lanes : \A tr \in PortItems(sfuOut[c][iw]) :
       tr.cid = c /\ Lane(tr.wid) = iw

\* A warp may fetch only when its suspending instruction is done with: no
\* fetch_stall partial of it is still to be issued or waiting at its SFU
\* input.  Depends on resume firing on eop only and on partials keeping
\* their order on the warp's lane.
SuspensionCoversInstruction ==
  \A c \in Cores, w \in Warps : ~stalled[c][w] =>
    /\ (cur[c][w] # NoInstr => ~cur[c][w].fs)
    /\ \A tr \in PortItems(sfuIn[c][Lane(w)]) : tr.wid = w => ~tr.fetch_stall

\* Barrier (spec 4.6, 6): a warp that has joined the barrier stays
\* suspended until the BAR_COUNT-th warp arrives and releases it; the SFU
\* must take barrier()'s answer, not fetch_stall, as release_warp.
BarrierHoldsWarps ==
  \A c \in Cores : \A w \in barWait[c] : stalled[c][w] /\ cur[c][w] = NoInstr

\* Every partial issued to an SFU, including those that go round a shared
\* coprocessor behind other cores' results, reaches writeback: the system
\* keeps returning to a state where all issued partials have retired.
EveryTraceRetires == []<>(retired = sent)
=============================================================================
