------------------------------ MODULE AddrType ------------------------------
(***************************************************************************)
(* Address classification, get_addr_type of src/sim/simx/types.h: an       *)
(* address in [IO_BASE_ADDR, IO_END_ADDR) is IO; otherwise, with local     *)
(* memory enabled, one at most (1 << LMEM_LOG_SIZE) above LMEM_BASE_ADDR   *)
(* is Shared; everything else is Global.                                   *)
(*                                                                         *)
(* The address is a uint64_t and 1 << LMEM_LOG_SIZE an int; both widths   *)
(* are scaled down (ADDR_BITS, INT_BITS) keeping the int narrower than the *)
(* address.  The state is the value the build gives the shift and the     *)
(* address the memory side classified last (the callers, LocalMemDemux     *)
(* and LsuMemAdapter, classify every request address; spec 4.5).          *)
(***************************************************************************)
EXTENDS Integers

CONSTANTS
  ADDR_BITS,       \* width of the address (64 in the code)
  INT_BITS,        \* width of int (32 in the code)
  IO_BASE_ADDR, IO_END_ADDR,
  LMEM_ENABLED, LMEM_BASE_ADDR, LMEM_LOG_SIZE

ASSUME /\ INT_BITS \in 2 .. ADDR_BITS - 1
       /\ IO_BASE_ADDR \in 0 .. 2^ADDR_BITS /\ IO_END_ADDR \in IO_BASE_ADDR .. 2^ADDR_BITS
       /\ LMEM_ENABLED \in BOOLEAN
       /\ LMEM_BASE_ADDR \in 0 .. 2^ADDR_BITS - 1 /\ LMEM_LOG_SIZE \in Nat

Addrs == 0 .. 2^ADDR_BITS - 1

\* enum class AddrType.
AddrTypes == {"Global", "Shared", "IO"}

\* An int holding the low INT_BITS bits x: two's complement.
AsInt(x) == IF x >= 2^(INT_BITS - 1) THEN x - 2^INT_BITS ELSE x

\* The values the int 1 << k can have.  Below the width it is 2^k read as
\* an int, so the sign bit is negative.  A count at or past the width is
\* undefined behaviour: a constant-folding compiler gives 0, and the x86
\* shifter takes the count modulo the width.
ShiftOne(k) == IF k < INT_BITS THEN {AsInt(2^k)} ELSE {0, AsInt(2^(k % INT_BITS))}

\* The int converted to uint64_t for the comparison with addr - base.
AsAddr(v) == v % 2^ADDR_BITS

VARIABLES
  lmem_limit,  \* (1 << LMEM_LOG_SIZE) as the comparison sees it
  addr,        \* the address classified last
  type         \* the type it was given

vars == <<lmem_limit, addr, type>>

\* get_addr_type(addr), with the build's value of the shift.
GetAddrType(a, limit) ==
  IF a >= IO_BASE_ADDR /\ a < IO_END_ADDR THEN "IO"
  ELSE IF LMEM_ENABLED /\ a >= LMEM_BASE_ADDR /\ a - LMEM_BASE_ADDR < limit THEN "Shared"
  ELSE "Global"

\* The memory side classifies the address of a request.
Classify(a) ==
  /\ addr' = a /\ type' = GetAddrType(a, lmem_limit)
  /\ UNCHANGED lmem_limit

Init ==
  /\ lmem_limit \in {AsAddr(v) : v \in ShiftOne(LMEM_LOG_SIZE)}
  /\ addr = 0 /\ type = GetAddrType(0, lmem_limit)

Next == \E a \in Addrs : Classify(a)

Spec == Init /\ [][Next]_vars

-----------------------------------------------------------------------------
TypeOK == lmem_limit \in Addrs /\ addr \in Addrs /\ type \in AddrTypes

\* Spec 3.5: the classification of the address range.  Local memory is the
\* 2^LMEM_LOG_SIZE bytes from LMEM_BASE_ADDR, counted in mathematical
\* integers.
SpecAddrType(a) ==
  IF a >= IO_BASE_ADDR /\ a < IO_END_ADDR THEN "IO"
  ELSE IF LMEM_ENABLED /\ a >= LMEM_BASE_ADDR /\ a < LMEM_BASE_ADDR + 2^LMEM_LOG_SIZE THEN "Shared"
  ELSE "Global"

\* get_addr_type agrees with spec 3.5 on every address it classifies: the
\* int shift 1 << LMEM_LOG_SIZE, compared with the uint64_t addr - base,
\* must be the size of local memory.
ClassifiedAsSpec == type = SpecAddrType(addr)
=============================================================================
