------------------------------- MODULE Switch -------------------------------
(***************************************************************************)
(* The request/response arbiter Switch<Req, Rsp> of src/sim/simx/types.h   *)
(* (MemSwitch).  Requests are arbitrated as in the Mux, but over groups of *)
(* R = 2^log2ceil(I/O) inputs, and the switch records the source in the    *)
(* request's tag: tag' = (tag << lg) | i.  A response coming back on       *)
(* output o is routed to input o*R + (tag & (R-1)) with tag >> lg.         *)
(*                                                                         *)
(* The request tag is a uint32_t (MemReq::tag) and the response tag a      *)
(* uint64_t (MemRsp::tag); the shift truncates to TAG_BITS bits, a width   *)
(* scaled down from 32 so that overflow is reachable with small tags.      *)
(* Requests and responses carry their uuid, which the switch never reads:  *)
(* the history sent[uuid] records who sent a request and with which tag.   *)
(* The downstream is a lossless stub that answers every request it took,   *)
(* in any order, echoing its tag.                                          *)
(***************************************************************************)
EXTENDS Naturals, Sequences, FiniteSets, FiniteSetsExt

CONSTANTS
  NUM_INPUTS,
  NUM_OUTPUTS,
  ARB_TYPE,      \* "Priority" or "RoundRobin"
  TAG_BITS,      \* width of MemReq::tag (32 in the code)
  Tags,          \* tags the senders put on their requests
  MaxReqs        \* bound on the number of requests sent

ASSUME /\ NUM_OUTPUTS \in 1 .. 32 /\ NUM_INPUTS \in NUM_OUTPUTS .. 32
       /\ ARB_TYPE \in {"Priority", "RoundRobin"}
       /\ TAG_BITS \in 1 .. 30 /\ Tags \subseteq 0 .. 2^TAG_BITS - 1
       /\ MaxReqs \in Nat

\* log2ceil of util.h: the least k with 2^k >= n.
Log2Ceil(n) == CHOOSE k \in 0 .. 6 : 2^k >= n /\ (k = 0 \/ 2^(k-1) < n)

\* lg_num_reqs_ and R = 1 << lg_num_reqs_.
lg == Log2Ceil(NUM_INPUTS \div NUM_OUTPUTS)
R  == 2^lg

InputIds  == 0 .. NUM_INPUTS - 1
OutputIds == 0 .. NUM_OUTPUTS - 1
Bypass    == NUM_INPUTS = NUM_OUTPUTS

\* The inputs and every index o*R + i a decoded response can name (the
\* code's .at() throws beyond I).
RouteIds == InputIds \cup 0 .. NUM_OUTPUTS * R - 1

\* Mutant: i is or-ed into the tag without the shift.
Encode_NoShift(tag, i) == (tag + i) % 2^TAG_BITS

\* req.tag = (req.tag << lg) | i, in a TAG_BITS-wide field (i < 2^lg, so
\* the | is an addition).
Encode(tag, i) == (tag * R + i) % 2^TAG_BITS

\* i = rsp.tag & (R-1) and rsp.tag >>= lg (R is a power of two).
DecodeInput(tag) == tag % R
DecodeTag(tag)   == tag \div R

VARIABLES
  ReqIn,    \* ReqIn[j]: requests [uuid, tag] waiting at input j
  ReqOut,   \* ReqOut[o]: requests forwarded to the downstream
  RspOut,   \* RspOut[o]: responses coming back from the downstream
  RspIn,    \* RspIn[j]: responses routed to input j (j \in RouteIds)
  cursors,  \* cursors_[o]
  pend,     \* downstream: requests taken from ReqOut[o], not yet answered
  sent,     \* history: sent[uuid] = [src, tag] of every request sent
  answered  \* number of responses the senders have taken

vars == <<ReqIn, ReqOut, RspOut, RspIn, cursors, pend, sent, answered>>

-----------------------------------------------------------------------------
\* The output whose group holds input j (j = o * R + i).
GroupOf(j) == j \div R

\* The scan of output o: step r looks at member (cursor + r) & (R-1).
ScanSlot(o, r) == (cursors[o] + r) % R

\* Mutant: the scan loop stops one step early (r < R - 1).
Hits_ShortScan(o) == {r \in 0 .. R - 2 : LET j == o * R + ScanSlot(o, r) IN
                                           j < NUM_INPUTS /\ ReqIn[j] # <<>>}

\* The scan steps that find a waiting input (j < I and non-empty).
Hits(o) == {r \in 0 .. R - 1 : LET j == o * R + ScanSlot(o, r) IN
                                 j < NUM_INPUTS /\ ReqIn[j] # <<>>}

\* The member granted by output o (when Hits(o) # {}).
Grant(o) == ScanSlot(o, Min(Hits(o)))

\* update_cursor.
NextCursor(o, grant) == IF ARB_TYPE = "RoundRobin" THEN grant + 1 ELSE cursors[o]

\* The input whose request output o forwards, and the request as sent.
Winner(o) == o * R + Grant(o)
Forwarded(o) == LET req == Head(ReqIn[Winner(o)])
                IN  [req EXCEPT !.tag = IF lg # 0 THEN Encode(req.tag, Grant(o)) ELSE @]

\* The input the head response of output o is routed to, and its tag.
RouteOf(o) == o * R + (IF lg # 0 THEN DecodeInput(Head(RspOut[o]).tag) ELSE 0)
Routed(o)  == LET rsp == Head(RspOut[o])
              IN  [rsp EXCEPT !.tag = IF lg # 0 THEN DecodeTag(@) ELSE @]

\* Mutant: the response is routed but RspOut.at(o).pop() is left out.
RspOutNext_NoPop(o) == RspOut[o]

\* RspOut[o] after the response loop: its head, if any, is popped.
RspOutNext(o) == IF RspOut[o] # <<>> THEN Tail(RspOut[o]) ELSE <<>>

\* The outputs routing a response to j this tick (at most one: groups are
\* disjoint).
RoutedTo(j) == {o \in OutputIds : RspOut[o] # <<>> /\ RouteOf(o) = j}
Popped(j)   == \E o \in OutputIds : Hits(o) # {} /\ Winner(o) = j

\* Switch::tick: for every output, route one response back, then forward
\* one request of the group.
SwitchTick ==
  /\ ~Bypass
  /\ RspIn'   = [j \in RouteIds |->
                   IF RoutedTo(j) = {} THEN RspIn[j]
                   ELSE Append(RspIn[j], Routed(CHOOSE o \in RoutedTo(j) : TRUE))]
  /\ RspOut'  = [o \in OutputIds |-> RspOutNext(o)]
  /\ ReqOut'  = [o \in OutputIds |->
                   IF Hits(o) # {} THEN Append(ReqOut[o], Forwarded(o)) ELSE ReqOut[o]]
  /\ ReqIn'   = [j \in InputIds |-> IF Popped(j) THEN Tail(ReqIn[j]) ELSE ReqIn[j]]
  /\ cursors' = [o \in OutputIds |->
                   IF Hits(o) # {} THEN NextCursor(o, Grant(o)) ELSE cursors[o]]
  /\ UNCHANGED <<pend, sent, answered>>

-----------------------------------------------------------------------------
\* Environment.  Input j sends a request with tag t; in bypass mode ReqIn
\* is bound to ReqOut.
Send(j, t) ==
  /\ Len(sent) < MaxReqs
  /\ LET req == [uuid |-> Len(sent) + 1, tag |-> t]
     IN  IF Bypass THEN /\ ReqOut' = [ReqOut EXCEPT ![j] = Append(@, req)]
                        /\ UNCHANGED ReqIn
                   ELSE /\ ReqIn' = [ReqIn EXCEPT ![j] = Append(@, req)]
                        /\ UNCHANGED ReqOut
  /\ sent' = Append(sent, [src |-> j, tag |-> t])
  /\ UNCHANGED <<RspOut, RspIn, cursors, pend, answered>>

\* The downstream takes the head request of output o.
MemAccept(o) ==
  /\ ReqOut[o] # <<>>
  /\ pend' = [pend EXCEPT ![o] = @ \cup {Head(ReqOut[o])}]
  /\ ReqOut' = [ReqOut EXCEPT ![o] = Tail(@)]
  /\ UNCHANGED <<ReqIn, RspOut, RspIn, cursors, sent, answered>>

\* The downstream answers any request it holds, echoing its tag; in bypass
\* mode RspOut is bound to RspIn.
MemRespond(o, req) ==
  /\ pend' = [pend EXCEPT ![o] = @ \ {req}]
  /\ IF Bypass THEN /\ RspIn' = [RspIn EXCEPT ![o] = Append(@, req)]
                    /\ UNCHANGED RspOut
               ELSE /\ RspOut' = [RspOut EXCEPT ![o] = Append(@, req)]
                    /\ UNCHANGED RspIn
  /\ UNCHANGED <<ReqIn, ReqOut, cursors, sent, answered>>

\* Sender j takes a response.
Collect(j) ==
  /\ RspIn[j] # <<>>
  /\ RspIn' = [RspIn EXCEPT ![j] = Tail(@)]
  /\ answered' = answered + 1
  /\ UNCHANGED <<ReqIn, ReqOut, RspOut, cursors, pend, sent>>

\* Construction and reset(): empty ports, cursors_ all 0.
Init ==
  /\ ReqIn   = [j \in InputIds |-> <<>>]
  /\ ReqOut  = [o \in OutputIds |-> <<>>]
  /\ RspOut  = [o \in OutputIds |-> <<>>]
  /\ RspIn   = [j \in RouteIds |-> <<>>]
  /\ cursors = [o \in OutputIds |-> 0]
  /\ pend    = [o \in OutputIds |-> {}]
  /\ sent    = <<>>
  /\ answered = 0

EnvProgress ==
  \/ \E o \in OutputIds : MemAccept(o) \/ \E req \in pend[o] : MemRespond(o, req)
  \/ \E j \in InputIds : Collect(j)

Next ==
  \/ SwitchTick
  \/ \E j \in InputIds, t \in Tags : Send(j, t)
  \/ EnvProgress

\* The switch is ticked every cycle; the downstream answers and the senders
\* drain their response ports (together, weakly fair); sending is optional.
Spec == Init /\ [][Next]_vars /\ WF_vars(SwitchTick) /\ WF_vars(EnvProgress)

-----------------------------------------------------------------------------
Req == [uuid : 1 .. MaxReqs, tag : 0 .. 2^TAG_BITS - 1]

TypeOK ==
  /\ ReqIn \in [InputIds -> Seq(Req)]
  /\ ReqOut \in [OutputIds -> Seq(Req)] /\ RspOut \in [OutputIds -> Seq(Req)]
  /\ RspIn \in [RouteIds -> Seq(Req)]
  /\ cursors \in [OutputIds -> 0 .. R]
  /\ pend \in [OutputIds -> SUBSET Req]
  /\ sent \in Seq([src : InputIds, tag : Tags])
  /\ answered \in 0 .. Len(sent)

\* Tag round trip (spec 4.5 and 8): a response the switch routes to input j
\* answers a request that j sent, and carries the tag j sent it with.  It
\* takes the encode in tick's request loop, the downstream's reordering and
\* the decode in its response loop to agree.
ResponseRouting ==
  \A j \in RouteIds : \A k \in 1 .. Len(RspIn[j]) :
    LET rsp == RspIn[j][k] IN
      /\ sent[rsp.uuid].src = j
      /\ rsp.tag = sent[rsp.uuid].tag

\* Every request sent through the switch is eventually answered to its
\* sender: the switch keeps returning to a state with nothing outstanding.
EveryRequestAnswered == []<>(answered = Len(sent))


\* The request path against the arbiter contract: a port is mapped to the
\* number of requests it holds; the downstream taking a request is the
\* consumer of the output.
Abstract == INSTANCE Arbiter
              WITH Inputs <- [j \in InputIds |-> Len(ReqIn[j])],
                   Outputs <- [o \in OutputIds |-> Len(ReqOut[o])],
                   GroupOf <- GroupOf, Bound <- Bypass

\* Refinement: the Switch's request path implements the Arbiter of spec
\* 4.5 over its rounded-up groups -- each tick an output with a waiting
\* request in its group forwards exactly one, skipping the slots past I,
\* and nothing else moves a request.
SwitchImplementsArbiter == Abstract!Spec
=============================================================================
