----------------------------- MODULE WasmMemory -----------------------------
(***************************************************************************)
(* The guest's linear memory in wasm/wasm.c: mem_check before every load   *)
(* and store, memory.size and memory.grow, in 32-bit arithmetic.           *)
(***************************************************************************)
EXTENDS Integers

CONSTANTS
  Word,        \* 2^32
  PageBytes,   \* 65536
  MemBytes     \* mem_bytes, the size of the host's buffer

ASSUME MemoryAssumption ==
  /\ Word \in Nat \ {0} /\ PageBytes \in Nat \ {0}
  /\ MemBytes \in Nat /\ MemBytes < Word

VARIABLES
  memPages,    \* mem_pages
  memLimit,    \* mem_limit
  reach,       \* history: the end of the highest access so far
  wrapped      \* history: a size in bytes did not fit in 32 bits

memVars == <<memPages, memLimit, reach, wrapped>>

Words == 0 .. Word - 1
Wrapped(n) == n % Word
Negative(n) == 2 * n >= Word      \* as an int
Wraps(n) == ~(n < Word)

(* wasm_load: the pages the module declares fit in the buffer. *)
MemInit(pages) ==
  /\ memPages = pages
  /\ memLimit = Wrapped(pages * PageBytes)
  /\ memLimit <= MemBytes
  /\ reach = 0
  /\ wrapped = Wraps(pages * PageBytes)

(* Mutant of MemCheck: the end of the access is computed, and wraps. *)
MemCheckSum(addr, size) == Wrapped(addr + size) <= memLimit

(* mem_check *)
MemCheck(addr, size) == addr <= memLimit /\ size <= memLimit - addr

(* A load or store of size bytes that mem_check lets through. *)
Access(addr, size) ==
  /\ MemCheck(addr, size)
  /\ reach' = IF addr + size > reach THEN addr + size ELSE reach
  /\ UNCHANGED <<memPages, memLimit, wrapped>>

(* memory.grow's test. *)
Grows(pages) ==
  ~Negative(pages) /\ Wrapped(Wrapped(memPages + pages) * PageBytes) <= MemBytes

(* memory.grow, and the value it leaves. *)
Grow(pages, answer) ==
  IF Grows(pages)
    THEN LET want == Wrapped(memPages + pages) IN
         /\ answer = memPages
         /\ memPages' = want
         /\ memLimit' = Wrapped(want * PageBytes)
         /\ wrapped' = (wrapped \/ Wraps((memPages + pages) * PageBytes))
         /\ UNCHANGED reach
    ELSE answer = Word - 1 /\ UNCHANGED memVars

(* What the instructions of any program do to the memory. *)
MemNext ==
  \/ \E addr, size \in Words : Access(addr, size)
  \/ \E pages, answer \in Words : Grow(pages, answer)

MemSpec == (\E pages \in Nat : MemInit(pages)) /\ [][MemNext]_memVars

----------------------------------------------------------------------------
(* No load or store reaches past the host's buffer, and the ceiling that   *)
(* keeps it there is the size the guest is told -- unless memory.grow was  *)
(* asked for so many pages that their size in bytes wrapped.               *)
AccessesInside ==
  /\ memLimit <= MemBytes /\ reach <= MemBytes
  /\ ~wrapped => memLimit = memPages * PageBytes /\ reach <= memLimit
=============================================================================
