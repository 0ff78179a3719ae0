--------------------------- MODULE FormalPrograms ---------------------------
(***************************************************************************)
(* The bounded-model-checking programs of rmap-ab/formal that tear down a  *)
(* cluster or a file folio: a run is one of them.  "orphan" is the family  *)
(* pgcl_orphan_pte*.c, "gate" the page-cache programs pc_*_gate.c,         *)
(* "truncate" is pc_truncate_units.c, and "tlb" are pgcl_tlb_*.c.          *)
(***************************************************************************)
EXTENDS Integers, FiniteSets

CONSTANTS NSUB, BND,    \* sub-PTEs of the folio, and those in the first page table
          MMUC, NCLUST, \* the file: clusters, and hardware pages of each
          PAGE_MMUCOUNT, BASE \* the flushed cluster: its size, and where its page begins

ASSUME FormalAssumption ==
  /\ NSUB \in Nat /\ BND \in 1..(NSUB - 1) /\ MMUC \in Nat \ {0} /\ NCLUST \in Nat \ {0}
  /\ PAGE_MMUCOUNT \in Nat \ {0} /\ BASE \in Nat

VARIABLES program,
          scenario, guard, refcount, freed, pte_present, rmap_sub, ptl, pc,
          gate_scenario, gate_pte, rmap, gate_ref, in_cache, folio_lock, gate_freed, gate_pc, U_start, Z_nr,
          newsize_mmu, file_pte, file_xslot, file_pc, c,
          path, ARCH_FULL, SUB_OFF, tlb_pte, tlb, tlb_ref, frame_freed, frame_reused,
          g_active, g_start, g_end, ksw_pc

orphan == <<scenario, guard, refcount, freed, pte_present, rmap_sub, ptl, pc>>
gate == <<gate_scenario, gate_pte, rmap, gate_ref, in_cache, folio_lock, gate_freed, gate_pc, U_start, Z_nr>>
truncate == <<newsize_mmu, file_pte, file_xslot, file_pc, c>>
flush == <<path, ARCH_FULL, SUB_OFF, tlb_pte, tlb, tlb_ref, frame_freed, frame_reused,
           g_active, g_start, g_end, ksw_pc>>
vars == <<program, orphan, gate, truncate, flush>>

Orphan == INSTANCE OrphanPte
Gate == INSTANCE PageCacheGate
          WITH scenario <- gate_scenario, pte_present <- gate_pte, refcount <- gate_ref,
               xslot <- in_cache, freed <- gate_freed, pc <- gate_pc
Truncation == INSTANCE TruncateUnits
          WITH pte_present <- file_pte, xslot <- file_xslot, pc <- file_pc
Tlb == INSTANCE TlbFlush WITH pte_present <- tlb_pte, refcount <- tlb_ref

\* A program that does not run is in one of its initial states.
Init ==
  /\ program \in {"orphan", "gate", "truncate", "tlb"}
  /\ Orphan!Init /\ Gate!Init /\ Truncation!Init /\ Tlb!Init
  /\ program # "orphan" => scenario = "units"
  /\ program # "gate" => gate_scenario = "O2"
  /\ program # "truncate" => newsize_mmu = 1
  /\ program # "tlb" => path = "gather" /\ SUB_OFF = 0

OrphanNext == program = "orphan" /\ Orphan!Next /\ UNCHANGED <<program, gate, truncate, flush>>
GateNext == program = "gate" /\ Gate!Next /\ UNCHANGED <<program, orphan, truncate, flush>>
TruncateNext == program = "truncate" /\ Truncation!Next /\ UNCHANGED <<program, orphan, gate, flush>>
TlbReclaim == program = "tlb" /\ Tlb!ksw_step /\ UNCHANGED <<program, orphan, gate, truncate>>
TlbUser == program = "tlb" /\ Tlb!user_step /\ UNCHANGED <<program, orphan, gate, truncate>>

Next == OrphanNext \/ GateNext \/ TruncateNext \/ TlbReclaim \/ TlbUser
\* While a thread of the program can go on, one does; the user program touches
\* its pages when it likes.
Spec == Init /\ [][Next]_vars /\ WF_vars(OrphanNext \/ GateNext \/ TruncateNext \/ TlbReclaim)

----------------------------------------------------------------------------
\* NO_FREE_WHILE_MAPPED and NO_PC_DROP_WHILE_MAPPED: whoever puts the last
\* reference, or takes the folio out of the page cache, no page table maps it
\* then or later.  A walk leaves half of the cluster mapped while it changes
\* locks, puts come after the locks, faults map the file folio while reclaim
\* and truncation remove it, and a truncation removes whole clusters.
GoneIsUnmapped ==
  /\ Orphan!NoFreeWhileMapped /\ Gate!NoFreeWhileMapped
  /\ Gate!RemovedIsUnmapped /\ Truncation!RemovedIsUnmapped

\* NO_ORPHAN: an entry that is present is counted in the reverse map, so a
\* walk finds it, and the gate that tests the map count sees it.
NoOrphan == Orphan!NoOrphan /\ Gate!NoOrphan

\* While a folio is in the page cache its count is exact: the reference of
\* the cache, one for each present sub-PTE, and those in flight.
RefsExact == Gate!RefsExact

\* What lies before the new end of file stays in the cache and stays mapped:
\* the rounding to clusters never eats into the file.
FileIsKept == Truncation!FileIsKept

\* No access resolves to the old frame once it is freed or reused: whatever
\* the program touched before, in the window between unmap and flush, and
\* wherever in its page the cluster starts.
NoStaleTranslation == Tlb!NoStaleTranslation

\* A translation that outlives its page-table entry has a flush on its way.
StaleIsPending == Tlb!StaleIsPending

\* A torn-down cluster is free in the end, and an unmapped frame reused, so no
\* reference leaked; and every actor on a file folio ends: the locks are
\* released and nobody waits for a folio that has left the cache.
AllEnd == <>(CASE program = "orphan" -> freed
               [] program = "gate" -> Gate!AllDone
               [] program = "truncate" -> Truncation!Over
               [] program = "tlb" -> frame_reused)

\* The teardown programs keep the promise of a reference-counted folio.
ImplementsFolioLifetime == Orphan!ImplementsFolioLifetime
=============================================================================
