----------------------------- MODULE TimedPort -----------------------------
(***************************************************************************)
(* SimPort with a per-push delay (spec sections 3.1 and 5; the port        *)
(* library is not under src/).  push(item, delay) makes the item the head  *)
(* delay cycles later; items are ordered by arrival cycle, ties in push    *)
(* order, and front() sees only items that have arrived.                   *)
(*                                                                         *)
(* A port is a sequence of [item, rem] ordered by rem, the cycles left     *)
(* until arrival; the clock ages every port once per cycle.                *)
(***************************************************************************)
EXTENDS Naturals, Sequences, SequencesExt

EmptyPort == <<>>

\* push(x, d): after every item arriving no later than d cycles from now.
PortPush(p, x, d) ==
  InsertAt(p, Len(SelectSeq(p, LAMBDA e : e.rem <= d)) + 1, [item |-> x, rem |-> d])

\* !empty(): the head has arrived.
PortReady(p) == p # <<>> /\ Head(p).rem = 0

PortFront(p) == Head(p).item
PortPop(p)   == Tail(p)

\* One cycle passes.
PortAge(p) == [i \in DOMAIN p |-> [p[i] EXCEPT !.rem = IF @ = 0 THEN 0 ELSE @ - 1]]

PortItems(p) == {p[i].item : i \in DOMAIN p}
=============================================================================
