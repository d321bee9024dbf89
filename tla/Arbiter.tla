------------------------------- MODULE Arbiter -------------------------------
(***************************************************************************)
(* What an I-to-O arbiter of the fabric promises (spec 4.5), whatever its  *)
(* policy: the inputs are split into groups, group o feeding output o; in  *)
(* a tick every output whose group holds a waiting request forwards        *)
(* exactly one of them, and no output forwards anything else.  Which one   *)
(* is the policy's business.  When the ports are bound (I = O) a sent      *)
(* request is on its output at once.                                       *)
(*                                                                         *)
(* Requests are forwarded unchanged and in order, so a port is a count.    *)
(***************************************************************************)
EXTENDS Naturals

CONSTANTS
  InputIds,
  OutputIds,
  GroupOf(_),   \* the output whose group holds input j
  Bound         \* inputs are bound to outputs

VARIABLES
  Inputs,       \* requests waiting at each input
  Outputs       \* forwarded requests not yet consumed at each output

avars == <<Inputs, Outputs>>

Waiting(o) == {j \in InputIds : GroupOf(j) = o /\ Inputs[j] > 0}

\* Output o has something to forward.
Busy(o) == Waiting(o) # {}

\* One tick: grant[o] is the input output o serves, if it is busy.
Tick ==
  \E grant \in [OutputIds -> InputIds] :
    /\ \A o \in OutputIds : Busy(o) => grant[o] \in Waiting(o)
    /\ Inputs' = [j \in InputIds |->
                    IF \E o \in OutputIds : Busy(o) /\ grant[o] = j THEN Inputs[j] - 1 ELSE Inputs[j]]
    /\ Outputs' = [o \in OutputIds |-> IF Busy(o) THEN Outputs[o] + 1 ELSE Outputs[o]]

Send(j) ==
  IF Bound THEN /\ Outputs' = [Outputs EXCEPT ![GroupOf(j)] = @ + 1]
                /\ UNCHANGED Inputs
           ELSE /\ Inputs' = [Inputs EXCEPT ![j] = @ + 1]
                /\ UNCHANGED Outputs

Consume(o) ==
  /\ Outputs[o] > 0
  /\ Outputs' = [Outputs EXCEPT ![o] = @ - 1]
  /\ UNCHANGED Inputs

Init ==
  /\ Inputs = [j \in InputIds |-> 0]
  /\ Outputs = [o \in OutputIds |-> 0]

Next ==
  \/ Tick
  \/ \E j \in InputIds : Send(j)
  \/ \E o \in OutputIds : Consume(o)

\* The arbiter ticks whenever a request is waiting: WF_avars(Tick), with
\* ENABLED <<Tick>>_avars (some output busy) written out.
Spec ==
  /\ Init /\ [][Next]_avars
  /\ ([]<>(\A o \in OutputIds : ~Busy(o)) \/ []<><<Tick>>_avars)
=============================================================================
