--------------------------- MODULE TruncateUnits ---------------------------
(***************************************************************************)
(* ftruncate to a size that need not be a multiple of the kernel page:     *)
(* the page cache removes clusters, page tables are zapped by hardware     *)
(* page (rmap-ab/formal/surf-pagecache/pc_truncate_units.c, MODE 0).  The  *)
(* two loops are taken one iteration at a time.                            *)
(***************************************************************************)
EXTENDS Integers

CONSTANTS MMUC,     \* hardware pages per cluster (PAGE_MMUCOUNT)
          NCLUST    \* clusters of the file

VARIABLES newsize_mmu,  \* the new size, in hardware pages
          pte_present,  \* hardware pages of the file that are mapped
          xslot,        \* clusters in the page cache
          pc, c         \* where ftruncate_mmu is, and its loop counter

vars == <<newsize_mmu, pte_present, xslot, pc, c>>

FileSubs == NCLUST * MMUC
Sub  == 0..(FileSubs - 1)
Span(k) == (k * MMUC)..((k + 1) * MMUC - 1)

\* Mutation: the last cluster that is kept is counted as removed.
floor_div(a, b) == a \div b
ceil_div(a, b) == (a + b - 1) \div b
start_cluster  == ceil_div(newsize_mmu, MMUC)
hole_start_sub == start_cluster * MMUC

Init == /\ newsize_mmu \in 1..FileSubs
        /\ pte_present = Sub
        /\ xslot = 0..(NCLUST - 1)
        /\ pc = "unmap" /\ c = 0

\* unmap_mapping_range: from the new end of file, rounded up to a cluster.
UnmapHole == /\ pc = "unmap"
             /\ pte_present' = {i \in pte_present : i < hole_start_sub}
             /\ pc' = "remove" /\ c' = start_cluster
             /\ UNCHANGED <<newsize_mmu, xslot>>

\* Clusters whose page-cache reference goes.
Dropped(k) == {k}
More == c < NCLUST
\* A folio that lies wholly beyond the end is zapped, all of it, and leaves the cache.
RemoveFolio == /\ pc = "remove" /\ More
               /\ pte_present' = pte_present \ Span(c)
               /\ xslot' = xslot \ Dropped(c)
               /\ c' = c + 1
               /\ UNCHANGED <<newsize_mmu, pc>>

\* The cluster that holds the end of the file is zeroed, not removed.
Truncated == /\ pc = "remove" /\ ~More /\ pc' = "done"
             /\ UNCHANGED <<newsize_mmu, pte_present, xslot, c>>
Over == pc = "done"
Finished == Over /\ UNCHANGED vars

Next == UnmapHole \/ RemoveFolio \/ Truncated \/ Finished
Spec == Init /\ [][Next]_vars

----------------------------------------------------------------------------
\* No folio leaves the page cache while one of its sub-PTEs is present, at no
\* point of the truncation and for no alignment of the new size (check()).
RemovedIsUnmapped ==
  \A k \in 0..(NCLUST - 1) : k \notin xslot => pte_present \cap Span(k) = {}

\* What lies before the new end of file stays in the cache and stays mapped:
\* the rounding to clusters never eats into the file.
FileIsKept ==
  \A i \in 0..(newsize_mmu - 1) : i \in pte_present /\ i \div MMUC \in xslot
=============================================================================
