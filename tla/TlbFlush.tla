------------------------------ MODULE TlbFlush ------------------------------
(***************************************************************************)
(* One CPU, a user program that touches a cluster, and reclaim that unmaps *)
(* it, flushes the TLB later and frees the frame: may an access still hit  *)
(* the freed frame?  rmap-ab/formal/surf-tlb/pgcl_tlb_flush.c (path        *)
(* "gather": mmu_gather collects a range) and pgcl_tlb_reclaim_batch.c     *)
(* (path "batch": arch_tlbbatch_flush, full or by range).                  *)
(***************************************************************************)
EXTENDS Integers

CONSTANTS PAGE_MMUCOUNT, BASE   \* hardware pages of the cluster; where its page begins

VARIABLES path, ARCH_FULL,  \* which program; the batch flush is a full one
          SUB_OFF,          \* the cluster starts this far into its page
          pte_present,      \* sub-PTEs that are present; all map the old frame
          tlb,              \* sub-PTEs whose translation to the old frame is cached
          refcount, frame_freed, frame_reused,
          g_active, g_start, g_end,   \* the flush that is pending
          ksw_pc

vars == <<path, ARCH_FULL, SUB_OFF, pte_present, tlb, refcount, frame_freed, frame_reused,
          g_active, g_start, g_end, ksw_pc>>

Sub   == 0..(PAGE_MMUCOUNT - 1)
VBASE == BASE + SUB_OFF
\* vidx, backwards
Vaddr(i) == VBASE + i

Init ==
  /\ path \in {"gather", "batch"} /\ ARCH_FULL \in BOOLEAN
  /\ path = "gather" => ~ARCH_FULL
  /\ SUB_OFF \in Sub
  /\ pte_present = Sub /\ tlb = {}
  /\ refcount = PAGE_MMUCOUNT /\ frame_freed = FALSE /\ frame_reused = FALSE
  /\ g_active = FALSE /\ g_start = 0 /\ g_end = 0
  /\ ksw_pc = "unmap"

\* user_step: an access to any page of the cluster fills the TLB if the page
\* table lets it, and uses the translation.
user_step == \E i \in Sub :
  /\ tlb' = tlb \cup ({i} \cap pte_present)
  /\ UNCHANGED <<path, ARCH_FULL, SUB_OFF, pte_present, refcount, frame_freed, frame_reused,
                 g_active, g_start, g_end, ksw_pc>>

\* __tlb_adjust_range: the pending range only grows.
tlb_adjust_range(addr, size) ==
  /\ g_active' = TRUE
  /\ g_start' = IF g_active /\ g_start < addr THEN g_start ELSE addr
  /\ g_end' = IF g_active /\ g_end > addr + size THEN g_end ELSE addr + size

\* Mutation (BUG == 2): the kernel page around it.
FlushPage(nr) == tlb_adjust_range(BASE, PAGE_MMUCOUNT)
\* The flush that is enqueued for nr cleared sub-PTEs.
FlushRange(nr) == tlb_adjust_range(VBASE, nr)

\* References put for nr cleared sub-PTEs.
RefsPut(nr) == nr
\* The cluster is unmapped in one section of the page-table lock.
Unmap == /\ ksw_pc = "unmap" /\ ksw_pc' = "flush"
         /\ pte_present' = {}
         /\ refcount' = refcount - RefsPut(PAGE_MMUCOUNT)
         /\ FlushRange(PAGE_MMUCOUNT)
         /\ UNCHANGED <<path, ARCH_FULL, SUB_OFF, tlb, frame_freed, frame_reused>>

\* apply_flush, flush_range: one invalidation per hardware page of the range.
InRange(i) == g_start <= Vaddr(i) /\ Vaddr(i) < g_end
Flush == /\ tlb' = IF ARCH_FULL THEN {} ELSE {i \in tlb : ~InRange(i)}
         /\ g_active' = FALSE
         /\ UNCHANGED <<g_start, g_end>>
Free == frame_freed' = (frame_freed \/ refcount = 0)

\* tlb_finish_mmu flushes and frees; the batch flush is a step of its own.
Finish == /\ path = "gather" /\ ksw_pc = "flush" /\ ksw_pc' = "reuse"
          /\ Flush /\ Free
          /\ UNCHANGED <<path, ARCH_FULL, SUB_OFF, pte_present, refcount, frame_reused>>
BatchFlush == /\ path = "batch" /\ ksw_pc = "flush" /\ ksw_pc' = "free"
              /\ Flush
              /\ UNCHANGED <<path, ARCH_FULL, SUB_OFF, pte_present, refcount, frame_freed, frame_reused>>
BatchFree == /\ ksw_pc = "free" /\ ksw_pc' = "reuse"
             /\ Free
             /\ UNCHANGED <<path, ARCH_FULL, SUB_OFF, pte_present, tlb, refcount, frame_reused,
                            g_active, g_start, g_end>>
Reuse == /\ ksw_pc = "reuse" /\ ksw_pc' = "done"
         /\ frame_reused' = (frame_reused \/ frame_freed)
         /\ UNCHANGED <<path, ARCH_FULL, SUB_OFF, pte_present, tlb, refcount, frame_freed,
                        g_active, g_start, g_end>>

ksw_step == Unmap \/ Finish \/ BatchFlush \/ BatchFree \/ Reuse

Next == user_step \/ ksw_step
Spec == Init /\ [][Next]_vars

----------------------------------------------------------------------------
TypeOK == /\ path \in {"gather", "batch"} /\ ARCH_FULL \in BOOLEAN /\ SUB_OFF \in Sub
          /\ pte_present \subseteq Sub /\ tlb \subseteq Sub
          /\ refcount \in Nat /\ frame_freed \in BOOLEAN /\ frame_reused \in BOOLEAN
          /\ g_active \in BOOLEAN /\ g_start \in Nat /\ g_end \in Nat
          /\ ksw_pc \in {"unmap", "flush", "free", "reuse", "done"}

\* No access resolves to the old frame once it is freed or reused: whatever
\* the program touched before, in the window between unmap and flush, and
\* wherever in its page the cluster starts.
NoStaleTranslation == frame_freed \/ frame_reused => tlb = {}

\* A translation that outlives its page-table entry has a flush on its way.
StaleIsPending ==
  \A i \in tlb \ pte_present : g_active /\ (ARCH_FULL \/ InRange(i))
=============================================================================
