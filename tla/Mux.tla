-------------------------------- MODULE Mux --------------------------------
(***************************************************************************)
(* The N-to-M arbiter Mux<Type> of src/sim/simx/types.h.  Output o serves  *)
(* the group of R = num_inputs / num_outputs inputs o*R .. o*R+R-1; each   *)
(* tick it scans the group from its cursor (masked with R-1), forwards the *)
(* first waiting request and, under round robin, moves the cursor past the *)
(* grant.  When num_inputs = num_outputs the ports are bound and tick does *)
(* nothing.                                                                *)
(*                                                                         *)
(* Requests are forwarded unchanged and in order, so a queue is modelled  *)
(* by its length.  MaxInFlight bounds the requests held for one output    *)
(* (its group's inputs and the output); senders may send forever, so      *)
(* starvation is a real question here.                                     *)
(***************************************************************************)
EXTENDS Naturals, FiniteSets, FiniteSetsExt, Bitwise

CONSTANTS
  NUM_INPUTS,
  NUM_OUTPUTS,
  ARB_TYPE,       \* "Priority" or "RoundRobin"
  MaxInFlight     \* bound on requests held by the Mux's ports

ASSUME /\ NUM_OUTPUTS \in 1 .. 32 /\ NUM_INPUTS \in NUM_OUTPUTS .. 32
       /\ ARB_TYPE \in {"Priority", "RoundRobin"}
       /\ MaxInFlight \in Nat \ {0}

\* num_reqs_ (the constructor divides without rounding).
R == NUM_INPUTS \div NUM_OUTPUTS

InputIds  == 0 .. NUM_INPUTS - 1
OutputIds == 0 .. NUM_OUTPUTS - 1
Bypass    == NUM_INPUTS = NUM_OUTPUTS

\* The output whose group contains input j (j \div R), and j's place in it.
GroupOf(j) == j \div R
Member(j)  == j % R

VARIABLES
  Inputs,   \* Inputs[j]: number of requests waiting
  Outputs,  \* Outputs[o]: number of forwarded requests not yet consumed
  cursors,  \* cursors_[o]
  waited,   \* history: grants to others since input j last got one
  served    \* history: parity of the number of grants input j received

vars == <<Inputs, Outputs, cursors, waited, served>>

-----------------------------------------------------------------------------
\* (cursor + r) & (num_reqs_ - 1) for every sum the scan can form, computed
\* once (cursors stay in 0 .. R).
MaskOf == [x \in 0 .. 2 * R |-> x & (R - 1)]

\* The input index the scan of output o looks at in step r.
ScanSlot(o, r) == MaskOf[cursors[o] + r]

\* Mutant: the scan loop stops one step short (r < R - 1).
Hits_Short(o) == {r \in 0 .. R - 2 : LET j == o * R + ScanSlot(o, r) IN
                                     j < NUM_INPUTS /\ Inputs[j] > 0}

\* The scan steps that find a waiting input (j < I and non-empty).
Hits(o) == {r \in 0 .. R - 1 : LET j == o * R + ScanSlot(o, r) IN
                                 j < NUM_INPUTS /\ Inputs[j] > 0}

\* The group member output o grants this tick (defined when Hits(o) # {}).
Grant(o) == ScanSlot(o, Min(Hits(o)))

\* Mutants of update_cursor: the cursor is left alone, or set to the grant
\* instead of past it.
NextCursor_NoAdvance(o, grant) == cursors[o]
NextCursor_Stay(o, grant) == IF ARB_TYPE = "RoundRobin" THEN grant ELSE cursors[o]

\* update_cursor: round robin moves past the grant; priority stays at 0.
NextCursor(o, grant) == IF ARB_TYPE = "RoundRobin" THEN grant + 1 ELSE cursors[o]

\* Some output of the group of input j forwards a request this tick.
GroupHit(j) == GroupOf(j) \in OutputIds /\ Hits(GroupOf(j)) # {}

Granted(j) == GroupHit(j) /\ Member(j) = Grant(GroupOf(j))

\* Mutant of tick: the request is pushed to the output but not popped.
TickResult_NoPop ==
  [in  |-> Inputs,
   out |-> [o \in OutputIds |-> IF Hits(o) # {} THEN Outputs[o] + 1 ELSE Outputs[o]],
   cur |-> [o \in OutputIds |-> IF Hits(o) # {} THEN NextCursor(o, Grant(o)) ELSE cursors[o]],
   wai |-> waited, srv |-> served]

\* Mux::tick: every output forwards at most one request of its group.
TickResult ==
  [in  |-> [j \in InputIds |-> IF Granted(j) THEN Inputs[j] - 1 ELSE Inputs[j]],
   out |-> [o \in OutputIds |-> IF Hits(o) # {} THEN Outputs[o] + 1 ELSE Outputs[o]],
   cur |-> [o \in OutputIds |-> IF Hits(o) # {} THEN NextCursor(o, Grant(o)) ELSE cursors[o]],
   wai |-> [j \in InputIds |->
              IF Granted(j) \/ Inputs[j] = 0 THEN 0
              ELSE IF GroupHit(j) THEN Min({waited[j] + 1, R})
              ELSE waited[j]],
   srv |-> [j \in InputIds |-> IF Granted(j) THEN 1 - served[j] ELSE served[j]]]

MuxTick ==
  /\ ~Bypass
  /\ \E s \in {TickResult} :
       /\ Inputs' = s.in  /\ Outputs' = s.out /\ cursors' = s.cur
       /\ waited' = s.wai /\ served' = s.srv

\* Requests held for group o: its inputs and, if o is an output, the output
\* itself (when O does not divide I the last inputs form a group no output
\* serves).
InFlight(o) == (IF o \in OutputIds THEN Outputs[o] ELSE 0) + MapThenSumSet(LAMBDA j : Inputs[j], {j \in InputIds : GroupOf(j) = o})

\* A sender pushes a request into input j; in bypass mode the bound port
\* delivers it straight into output j.
Send(j) ==
  /\ InFlight(GroupOf(j)) < MaxInFlight
  /\ IF Bypass
     THEN /\ Outputs' = [Outputs EXCEPT ![j] = @ + 1]
          /\ served' = [served EXCEPT ![j] = 1 - @]
          /\ UNCHANGED Inputs
     ELSE /\ Inputs' = [Inputs EXCEPT ![j] = @ + 1]
          /\ UNCHANGED <<Outputs, served>>
  /\ UNCHANGED <<cursors, waited>>

\* The consumer of output o takes a request.
Consume(o) ==
  /\ Outputs[o] > 0
  /\ Outputs' = [Outputs EXCEPT ![o] = @ - 1]
  /\ UNCHANGED <<Inputs, cursors, waited, served>>

\* Construction (cursors_ all 0) and reset().
Init ==
  /\ Inputs  = [j \in InputIds |-> 0]
  /\ Outputs = [o \in OutputIds |-> 0]
  /\ cursors = [o \in OutputIds |-> 0]
  /\ waited  = [j \in InputIds |-> 0]
  /\ served  = [j \in InputIds |-> 0]

Next ==
  \/ MuxTick
  \/ \E j \in InputIds : Send(j)
  \/ \E o \in OutputIds : Consume(o)

\* The simulator ticks the Mux every cycle and the consumers drain their
\* outputs every cycle; senders are not obliged to send.
Spec == Init /\ [][Next]_vars /\ WF_vars(MuxTick) /\ \A o \in OutputIds : WF_vars(Consume(o))

-----------------------------------------------------------------------------
TypeOK ==
  /\ Inputs \in [InputIds -> 0 .. MaxInFlight]
  /\ Outputs \in [OutputIds -> 0 .. MaxInFlight]
  /\ cursors \in [OutputIds -> 0 .. R]
  /\ waited \in [InputIds -> 0 .. R]
  /\ served \in [InputIds -> {0, 1}]

\* Round-robin bounded waiting (spec 4.5, section 8): while a request waits
\* at input j, the other inputs of its group get at most R - 1 grants
\* before j gets one -- each of them at most once.  Depends on the cursor
\* moving to grant + 1 and on the masking of cursor + r.
RoundRobinBoundedWait == \A j \in InputIds : waited[j] <= R - 1

\* Starvation freedom: a request waiting at any input is eventually
\* forwarded, however hard the other inputs of its group are driven.
EveryRequestForwarded ==
  \A j \in InputIds, v \in {0, 1} :
    (Inputs[j] > 0 /\ served[j] = v) ~> (served[j] # v)

\* The Mux against the arbiter contract, its ports mapped one to one.
Abstract == INSTANCE Arbiter WITH GroupOf <- GroupOf, Bound <- Bypass

\* Refinement: the Mux implements the Arbiter of spec 4.5 -- no tick
\* forwards a request from outside an output's group, from an empty input
\* or more than one per output, and, ticked every cycle, the mask scan
\* never leaves a waiting request unforwarded while its output forwards
\* nothing (the work-conserving promise a scan that skips a slot breaks).
MuxImplementsArbiter == Abstract!Spec
=============================================================================
