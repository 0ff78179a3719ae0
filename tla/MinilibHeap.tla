----------------------------- MODULE MinilibHeap -----------------------------
(***************************************************************************)
(* The heap of hppa64-minilib.h (src/userspace): malloc moves the program  *)
(* break up and remembers it, free does nothing, and test_brk of           *)
(* pgcl-test-hppa64.c moves the same break on its own.                      *)
(***************************************************************************)
EXTENDS Integers, FiniteSets

CONSTANTS Base, Limit,  \* where the kernel lets the break be
          PageSize,
          Sizes,        \* bound: what the program asks for
          W,            \* bits of an address (64)
          MaxBlocks     \* bound: blocks

VARIABLES brk,          \* of the kernel
          __heap_start, __heap_end,
          blocks,       \* <<first address, bytes asked for>> of every block
          orig, cur,    \* of test_brk: 0 outside it
          nulls,        \* requests refused
          lacked        \* one was refused for which there was room
vars == <<brk, __heap_start, __heap_end, blocks, orig, cur, nulls, lacked>>

Init == /\ brk = Base /\ __heap_start = 0 /\ __heap_end = 0 /\ blocks = {}
        /\ orig = 0 /\ cur = 0 /\ nulls = 0 /\ lacked = FALSE

Wrapped(n) == n % 2^W
\* The kernel: the break moves, or stays when it cannot.
sys_brk(n) == IF n \in Base..Limit THEN n ELSE brk
\* Mutation: sizes rounded down.
align16Down(n) == n - (n % 16)
align16(n) == LET m == Wrapped(n + 15) IN m - (m % 16)

malloc(n) ==
  /\ orig = 0 /\ nulls + Cardinality(blocks) < MaxBlocks
  /\ LET first == IF __heap_start = 0 THEN sys_brk(0) ELSE __heap_end
         new_end == Wrapped(first + align16(n))
     IN /\ __heap_start' = IF __heap_start = 0 THEN first ELSE __heap_start
        /\ brk' = sys_brk(new_end)
        /\ IF new_end > brk'
           THEN /\ nulls' = nulls + 1 /\ lacked' = (lacked \/ brk + n + 15 <= Limit)
                /\ __heap_end' = first /\ UNCHANGED blocks
           ELSE blocks' = blocks \cup {<<first, n>>} /\ __heap_end' = new_end /\ UNCHANGED <<nulls, lacked>>
  /\ UNCHANGED <<orig, cur>>

\* fopen() is malloc(sizeof(FILE)); fclose() frees it, that is, keeps it.
free == UNCHANGED vars

\* test_brk: the break it found, page by page, and back.
BrkOf == /\ orig = 0 /\ orig' = sys_brk(0) /\ cur' = orig'
         /\ UNCHANGED <<brk, __heap_start, __heap_end, blocks, nulls, lacked>>
BrkGrow == /\ orig # 0 /\ cur < orig + (8 * PageSize)
           /\ brk' = sys_brk(cur + PageSize) /\ brk' = cur + PageSize /\ cur' = brk'
           /\ UNCHANGED <<__heap_start, __heap_end, blocks, orig, nulls, lacked>>
BrkBack == /\ orig # 0 /\ (cur = orig + (8 * PageSize) \/ sys_brk(cur + PageSize) # cur + PageSize)
           /\ brk' = sys_brk(orig) /\ orig' = 0 /\ cur' = 0
           /\ UNCHANGED <<__heap_start, __heap_end, blocks, nulls, lacked>>

Next == (\E n \in Sizes : malloc(n)) \/ free \/ BrkOf \/ BrkGrow \/ BrkBack
Spec == Init /\ [][Next]_vars

----------------------------------------------------------------------------
Bytes(b) == b[1]..(b[1] + b[2] - 1)

TypeOK == /\ brk \in Base..Limit /\ __heap_start \in {0} \cup Base..Limit /\ __heap_end \in {0} \cup Base..Limit
          /\ blocks \subseteq (Base..Limit) \X Sizes /\ orig \in {0} \cup Base..Limit /\ cur \in {0} \cup Base..Limit
          /\ nulls \in 0..MaxBlocks

\* Blocks do not overlap, and every byte asked for is below the break, however
\* malloc and test_brk take turns; so is what test_brk has written.
BlocksAreMemory ==
  /\ \A b \in blocks : Bytes(b) \subseteq Base..(brk - 1)
  /\ \A b, c \in blocks : b # c => Bytes(b) \cap Bytes(c) = {}
  /\ orig # 0 => cur <= brk /\ \A b \in blocks : b[1] + b[2] <= orig

\* A request is refused only when there is no room for it, and does not lose
\* the room for a smaller one.
RefusedForRoom == ~lacked
=============================================================================
