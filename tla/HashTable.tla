----------------------------- MODULE HashTable -----------------------------
(***************************************************************************)
(* The fixed-capacity slot table of src/sim/simx/types.h (class           *)
(* HashTable<T>), used by the LSU as its pending-load table.  A table is   *)
(* a record value, so the operators below are the methods of the class:    *)
(* each one maps a table (and its arguments) to the result the method      *)
(* returns or to the table it leaves behind.                               *)
(*                                                                         *)
(*   used[i]  -- entries_[i].first                                         *)
(*   val[i]   -- entries_[i].second (kept, stale, after release)           *)
(*   size     -- size_                                                     *)
(***************************************************************************)
EXTENDS Naturals, FiniteSets, FiniteSetsExt

\* HashTable(capacity): every slot free, size_ = 0.  dflt is the value a
\* default-constructed T holds.
NewTable(capacity, dflt) ==
  [used |-> [i \in 0 .. capacity - 1 |-> FALSE],
   val  |-> [i \in 0 .. capacity - 1 |-> dflt],
   size |-> 0]

Slots(t) == DOMAIN t.used

\* empty() and full() read size_, not the slots.
IsEmpty(t) == t.size = 0
IsFull(t)  == t.size = Cardinality(Slots(t))

\* at(index): asserts that the slot is allocated.
At(t, i) == t.val[i]

\* Mutant: the scan takes the first slot without testing entry.first.
AllocIndex_NoTest(t) == Min(Slots(t))

\* The index allocate() returns: the first free slot of a linear scan.
AllocIndex(t) == Min({i \in Slots(t) : ~t.used[i]})

\* allocate(value): only legal when a free slot exists (assert(false)
\* otherwise), so callers guard it with full().
Allocate(t, v) ==
  LET i == AllocIndex(t) IN
  [t EXCEPT !.used[i] = TRUE, !.val[i] = v, !.size = @ + 1]

\* release(index): clears the flag and decrements size_; the value stays.
Release(t, i) == [t EXCEPT !.used[i] = FALSE, !.size = @ - 1]

\* at(index) = v for an allocated slot (the LSU writes through the reference).
Update(t, i, v) == [t EXCEPT !.val[i] = v]

\* clear(): every flag off and size_ = 0.
Clear(t) == [t EXCEPT !.used = [i \in Slots(t) |-> FALSE], !.size = 0]

\* The indices of the allocated slots.
Allocated(t) == {i \in Slots(t) : t.used[i]}
=============================================================================
