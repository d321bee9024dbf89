------------------------------- MODULE AluFpu -------------------------------
(***************************************************************************)
(* AluUnit::tick and FpuUnit::tick of src/sim/simx/func_unit.cpp, with the *)
(* front end that feeds them and the warp suspension the ALU lifts.        *)
(*                                                                         *)
(* Each cycle every lane whose input head has arrived pops it and pushes   *)
(* it to its output with the op's delay; the ALU also calls resume(wid)    *)
(* for an eop && fetch_stall trace.  A port read only sees items that have *)
(* arrived and every push has delay >= 1 (spec 5), so the steps of one    *)
(* cycle commute: the model takes them in one order, front end, ALU, FPU,  *)
(* writeback, and Clock ends the cycle.                                    *)
(*                                                                         *)
(* The front end decodes an instruction of a warp, suspends the warp when  *)
(* the instruction has fetch_stall, and issues its NUM_PARTIALS partials   *)
(* in order on lane wid % ISSUE_WIDTH, one trace per lane per cycle, eop   *)
(* on the last.  Only ALU ops carry fetch_stall (spec 4.3).                *)
(***************************************************************************)
EXTENDS Naturals, Sequences, FiniteSets, TimedPort

CONSTANTS
  ISSUE_WIDTH, NUM_WARPS, NUM_PARTIALS,
  LATENCY_IMUL, XLEN,                                       \* ALU latencies
  LATENCY_FMA, LATENCY_FDIV, LATENCY_FSQRT, LATENCY_FCVT,   \* FPU latencies
  AluOps, FpuOps,   \* the sub-ops the front end issues
  MaxInstrs         \* bound on decoded instructions

AluTypes == {"ARITH", "BRANCH", "SYSCALL", "IMUL", "IDIV"}
FpuTypes == {"FNCP", "FMA", "FDIV", "FSQRT", "FCVT"}

ASSUME /\ AluOps \subseteq AluTypes /\ FpuOps \subseteq FpuTypes
       /\ NUM_PARTIALS \in Nat \ {0} /\ MaxInstrs \in Nat

Lanes == 0 .. ISSUE_WIDTH - 1
Warps == 0 .. NUM_WARPS - 1
Lane(w) == w % ISSUE_WIDTH

\* The delay AluUnit::tick pushes with: the op's latency plus delay = 2.
AluDelay(op) ==
  LET delay == 2 IN
  CASE op \in {"ARITH", "BRANCH", "SYSCALL"} -> 2 + delay
    [] op = "IMUL" -> LATENCY_IMUL + delay
    [] op = "IDIV" -> XLEN + delay

\* The delay FpuUnit::tick pushes with.
FpuDelay(op) ==
  LET delay == 2 IN
  CASE op = "FNCP"  -> 2 + delay
    [] op = "FMA"   -> LATENCY_FMA + delay
    [] op = "FDIV"  -> LATENCY_FDIV + delay
    [] op = "FSQRT" -> LATENCY_FSQRT + delay
    [] op = "FCVT"  -> LATENCY_FCVT + delay

NoInstr == [fu |-> "NONE"]

VARIABLES
  aluIn, aluOut,  \* AluUnit Inputs[iw], Outputs[iw] (timed ports)
  fpuIn, fpuOut,  \* FpuUnit Inputs[iw], Outputs[iw]
  cur,            \* front end: the instruction warp w is issuing, or NoInstr
  stalled,        \* front end: warp w's fetch is suspended
  ninstrs,        \* instructions decoded so far
  laneUsed,       \* lanes the front end pushed to this cycle
  ticked          \* units that ticked this cycle

vars == <<aluIn, aluOut, fpuIn, fpuOut, cur, stalled, ninstrs, laneUsed, ticked>>

-----------------------------------------------------------------------------
\* Mutant: the lane loop stops one lane early.
AluLanes_Short == 0 .. ISSUE_WIDTH - 2

\* for (iw = 0; iw < ISSUE_WIDTH; ++iw)
AluLanes == 0 .. ISSUE_WIDTH - 1

\* Mutant: resume on fetch_stall alone.
Resumes_NoEop(tr) == tr.fetch_stall

\* if (trace->eop && trace->fetch_stall) core_->resume(trace->wid)
Resumes(tr) == tr.eop /\ tr.fetch_stall

\* Mutant: the trace is pushed but input.pop() is left out.
AluInNext_NoPop(iw) == aluIn[iw]

\* The lanes whose input head has arrived; the rest `continue`.
AluBusy == {iw \in AluLanes : PortReady(aluIn[iw])}

\* Inputs.at(iw) after the tick.
AluInNext(iw) == IF iw \in AluBusy THEN PortPop(aluIn[iw]) ELSE aluIn[iw]

\* AluUnit::tick.
AluTick ==
  /\ ticked = {}
  /\ aluOut' = [iw \in Lanes |->
                  IF iw \in AluBusy
                  THEN PortPush(aluOut[iw], PortFront(aluIn[iw]), AluDelay(PortFront(aluIn[iw]).op))
                  ELSE aluOut[iw]]
  /\ aluIn' = [iw \in Lanes |-> AluInNext(iw)]
  /\ stalled' = [w \in Warps |->
                   IF \E iw \in AluBusy : PortFront(aluIn[iw]).wid = w /\ Resumes(PortFront(aluIn[iw]))
                   THEN FALSE ELSE stalled[w]]
  /\ ticked' = ticked \cup {"ALU"}
  /\ UNCHANGED <<fpuIn, fpuOut, cur, ninstrs, laneUsed>>

\* FpuUnit::tick: the same per-lane loop, with no resume.
FpuBusy == {iw \in Lanes : PortReady(fpuIn[iw])}

FpuTick ==
  /\ ticked = {"ALU"}
  /\ fpuOut' = [iw \in Lanes |->
                  IF iw \in FpuBusy
                  THEN PortPush(fpuOut[iw], PortFront(fpuIn[iw]), FpuDelay(PortFront(fpuIn[iw]).op))
                  ELSE fpuOut[iw]]
  /\ fpuIn' = [iw \in Lanes |-> IF iw \in FpuBusy THEN PortPop(fpuIn[iw]) ELSE fpuIn[iw]]
  /\ ticked' = ticked \cup {"FPU"}
  /\ UNCHANGED <<aluIn, aluOut, cur, stalled, ninstrs, laneUsed>>

-----------------------------------------------------------------------------
\* Front end: warp w decodes an instruction; fetch_stall suspends the warp.
Decode(w, fu, op, fs) ==
  /\ ticked = {} /\ ninstrs < MaxInstrs
  /\ cur[w] = NoInstr /\ ~stalled[w]
  /\ fs => fu = "ALU"
  /\ cur' = [cur EXCEPT ![w] = [fu |-> fu, op |-> op, fs |-> fs, uuid |-> ninstrs, pid |-> 0]]
  /\ stalled' = [stalled EXCEPT ![w] = fs]
  /\ ninstrs' = ninstrs + 1
  /\ UNCHANGED <<aluIn, aluOut, fpuIn, fpuOut, laneUsed, ticked>>

\* Front end: the next partial of warp w's instruction enters its unit's
\* input on lane wid % ISSUE_WIDTH with delay 1.
IssuePartial(w) ==
  LET in == cur[w]
      tr == [uuid |-> in.uuid, wid |-> w, op |-> in.op, pid |-> in.pid,
             eop |-> in.pid = NUM_PARTIALS - 1, fetch_stall |-> in.fs]
  IN
  /\ ticked = {} /\ in # NoInstr /\ Lane(w) \notin laneUsed
  /\ IF in.fu = "ALU"
     THEN /\ aluIn' = [aluIn EXCEPT ![Lane(w)] = PortPush(@, tr, 1)] /\ UNCHANGED fpuIn
     ELSE /\ fpuIn' = [fpuIn EXCEPT ![Lane(w)] = PortPush(@, tr, 1)] /\ UNCHANGED aluIn
  /\ cur' = [cur EXCEPT ![w] = IF tr.eop THEN NoInstr ELSE [in EXCEPT !.pid = @ + 1]]
  /\ laneUsed' = laneUsed \cup {Lane(w)}
  /\ UNCHANGED <<aluOut, fpuOut, stalled, ninstrs, ticked>>

\* The writeback collector, once a cycle, takes the arrived head of every
\* output port.
WbNext(p) == IF PortReady(p) THEN PortPop(p) ELSE p

Writeback ==
  /\ ticked = {"ALU", "FPU"}
  /\ aluOut' = [iw \in Lanes |-> WbNext(aluOut[iw])]
  /\ fpuOut' = [iw \in Lanes |-> WbNext(fpuOut[iw])]
  /\ ticked' = ticked \cup {"WB"}
  /\ UNCHANGED <<aluIn, fpuIn, cur, stalled, ninstrs, laneUsed>>

\* The cycle ends after both units and writeback; every port ages a cycle.
Clock ==
  /\ ticked = {"ALU", "FPU", "WB"}
  /\ aluIn' = [iw \in Lanes |-> PortAge(aluIn[iw])]
  /\ aluOut' = [iw \in Lanes |-> PortAge(aluOut[iw])]
  /\ fpuIn' = [iw \in Lanes |-> PortAge(fpuIn[iw])]
  /\ fpuOut' = [iw \in Lanes |-> PortAge(fpuOut[iw])]
  /\ laneUsed' = {} /\ ticked' = {}
  /\ UNCHANGED <<cur, stalled, ninstrs>>

Init ==
  /\ aluIn = [iw \in Lanes |-> EmptyPort] /\ aluOut = [iw \in Lanes |-> EmptyPort]
  /\ fpuIn = [iw \in Lanes |-> EmptyPort] /\ fpuOut = [iw \in Lanes |-> EmptyPort]
  /\ cur = [w \in Warps |-> NoInstr] /\ stalled = [w \in Warps |-> FALSE]
  /\ ninstrs = 0 /\ laneUsed = {} /\ ticked = {}

Next ==
  \/ AluTick \/ FpuTick \/ Clock
  \/ \E w \in Warps : IssuePartial(w)
  \/ \E w \in Warps : \/ \E op \in AluOps, fs \in BOOLEAN : Decode(w, "ALU", op, fs)
                      \/ \E op \in FpuOps : Decode(w, "FPU", op, FALSE)
  \/ Writeback

\* The simulator ticks both units, the writeback collector and the cycle
\* forever.  The front end need not decode, but it does not put
\* off the partials of a decoded instruction forever: issuing is possible
\* only at the start of a cycle, so this is strong fairness.
Spec == Init /\ [][Next]_vars
        /\ WF_vars(AluTick) /\ WF_vars(FpuTick) /\ WF_vars(Writeback) /\ WF_vars(Clock)
        /\ \A w \in Warps : SF_vars(IssuePartial(w))

-----------------------------------------------------------------------------
Trace == [uuid : 0 .. MaxInstrs - 1, wid : Warps, op : AluTypes \cup FpuTypes,
          pid : 0 .. NUM_PARTIALS - 1, eop : BOOLEAN, fetch_stall : BOOLEAN]

\* A port holds no more traces than were ever issued, none arriving later
\* than the longest delay.
PortOK(p, maxDelay) ==
  /\ Len(p) <= MaxInstrs * NUM_PARTIALS
  /\ \A i \in DOMAIN p : p[i].item \in Trace /\ p[i].rem \in 0 .. maxDelay

TypeOK ==
  /\ \A iw \in Lanes : /\ PortOK(aluIn[iw], 1) /\ PortOK(fpuIn[iw], 1)
                      /\ PortOK(aluOut[iw], 2 + Max({2, LATENCY_IMUL, XLEN}))
                      /\ PortOK(fpuOut[iw], 2 + Max({2, LATENCY_FMA, LATENCY_FDIV, LATENCY_FSQRT, LATENCY_FCVT}))
  /\ stalled \in [Warps -> BOOLEAN]
  /\ ninstrs \in 0 .. MaxInstrs
  /\ laneUsed \subseteq Lanes /\ ticked \subseteq {"ALU", "FPU", "WB"}

\* A warp suspended by fetch_stall stays suspended until its instruction has
\* left the front end and every partial of it has been dispatched by the
\* ALU: when a warp may fetch, none of its fetch_stall traces is still to
\* be issued or waiting at an ALU input.  Depends on resume firing only on
\* eop, on partials keeping their order on one lane, and on the ALU
\* resuming only the warp of the trace it dispatches.
FetchStallCoversInstruction ==
  \A w \in Warps : ~stalled[w] =>
    /\ (cur[w] # NoInstr => ~cur[w].fs)
    /\ \A iw \in Lanes : \A tr \in PortItems(aluIn[iw]) : tr.wid = w => ~tr.fetch_stall

\* Every warp suspended on a fetch_stall instruction is resumed by the ALU.
StalledWarpResumes == \A w \in Warps : stalled[w] ~> ~stalled[w]
=============================================================================
