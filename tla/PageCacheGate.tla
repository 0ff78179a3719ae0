--------------------------- MODULE PageCacheGate ---------------------------
(***************************************************************************)
(* The page-cache reference of a file folio that two address spaces map:   *)
(* who may drop it, and may the folio then still be mapped?  The actors of *)
(* rmap-ab/formal/surf-pagecache/pc_remove_gate.c (F, R, T) and            *)
(* pc_orphan_gate.c (F, U, Z, P), one step per case of their functions.    *)
(***************************************************************************)
EXTENDS Integers, FiniteSets

CONSTANTS NSUB,     \* sub-PTEs of the folio (PAGE_MMUCOUNT)
          BND       \* the first BND are in page table 0 (straddling walk)

VARIABLES scenario,    \* which actors are live, chosen by the build
          pte_present, \* pte_present[m]: sub-PTEs that are present
          rmap,        \* rmap[m]: sub-PTEs the reverse map counts
          refcount,
          xslot,       \* the folio is in the page cache, which holds one reference
          folio_lock,  \* who holds the folio lock
          freed,
          pc,          \* the next case of each actor
          U_start,     \* position of the walk
          Z_nr         \* sub-PTEs the zap has cleared

vars == <<scenario, pte_present, rmap, refcount, xslot, folio_lock, freed, pc, U_start, Z_nr>>

Mm  == {0, 1}
Sub == 0..(NSUB - 1)
Unlocked == "none"
Done == 9

\* Actors of each scenario: S1..S4 of pc_remove_gate.c, O1..O3 of
\* pc_orphan_gate.c.
Live == [S1 |-> {"F", "R"}, S2 |-> {"F", "T"}, S3 |-> {"R", "T"}, S4 |-> {"F", "R", "T"},
         O1 |-> {"U", "F", "P"}, O2 |-> {"Z", "P"}, O3 |-> {"U", "Z", "P"}]
Actor == {"F", "R", "T", "U", "Z", "P"}
\* The fault re-installs address space 1, the walk is over 0, and the zap is
\* over the other one when both are live.
Fm == 1
Um == 0
Zm == IF scenario = "O3" THEN 1 ELSE 0

Init ==
  /\ scenario \in DOMAIN Live
  /\ pte_present = [m \in Mm |-> IF "F" \in Live[scenario] /\ m = Fm THEN {} ELSE Sub]
  /\ rmap = pte_present
  /\ refcount = 1 + (IF "F" \in Live[scenario] THEN NSUB ELSE 2 * NSUB)
  /\ xslot = TRUE /\ folio_lock = Unlocked /\ freed = FALSE
  /\ pc = [a \in Actor |-> IF a \in Live[scenario] THEN 0 ELSE Done]
  /\ U_start = 0 /\ Z_nr = 0

folio_mapped == \E m \in Mm : rmap[m] # {}
AnyPtePresent == \E m \in Mm : pte_present[m] # {}
PresentCount == Cardinality(pte_present[0]) + Cardinality(pte_present[1])

At(a, n)   == pc[a] = n
Goto(a, n) == pc' = [pc EXCEPT ![a] = n]
\* free_instant_check: the folio is freed the moment the count is zero.
SetRef(n)  == /\ refcount' = n
              /\ freed' = (freed \/ n = 0)

\* Unmap everything: the sub-PTEs that are present leave the page tables and
\* the reverse map, and their references go.
UnmapAll ==
  /\ rmap' = [m \in Mm |-> rmap[m] \ pte_present[m]]
  /\ pte_present' = [m \in Mm |-> {}]
  /\ SetRef(refcount - PresentCount)

\* The trylock of an actor that keeps waiting while another one holds it.
MayLock(a) == folio_lock = Unlocked /\ folio_lock' = a
\* Mutation: the lock is kept.
NoUnlock == UNCHANGED folio_lock
Unlock == folio_lock' = Unlocked

----------------------------------------------------------------------------
(* F: the fault.                                                            *)

FLookup == /\ At("F", 0)
           /\ IF xslot THEN SetRef(refcount + 1) /\ Goto("F", 1)
                       ELSE Goto("F", Done) /\ UNCHANGED <<refcount, freed>>
           /\ UNCHANGED <<scenario, pte_present, rmap, xslot, folio_lock, U_start, Z_nr>>
\* Under the lock it checks that the folio is still in the cache.
FLock == /\ At("F", 1) /\ xslot /\ MayLock("F") /\ Goto("F", 2)
         /\ UNCHANGED <<scenario, pte_present, rmap, refcount, xslot, freed, U_start, Z_nr>>
FGone == /\ At("F", 1) /\ folio_lock = Unlocked /\ ~xslot
         /\ SetRef(refcount - 1) /\ Goto("F", Done)
         /\ UNCHANGED <<scenario, pte_present, rmap, xslot, folio_lock, U_start, Z_nr>>
\* Mutation: the reference of the lookup is kept as well.
InstallAllRefs == NSUB
\* The reference of the lookup becomes that of the first sub-PTE.
InstallRefs == NSUB - 1
FInstall == /\ At("F", 2) /\ Goto("F", 3)
            /\ rmap' = [rmap EXCEPT ![Fm] = Sub]
            /\ pte_present' = [pte_present EXCEPT ![Fm] = Sub]
            /\ SetRef(refcount + InstallRefs)
            /\ UNCHANGED <<scenario, xslot, folio_lock, U_start, Z_nr>>
FUnlock == /\ At("F", 3) /\ Goto("F", Done) /\ Unlock
           /\ UNCHANGED <<scenario, pte_present, rmap, refcount, xslot, freed, U_start, Z_nr>>
F == FLookup \/ FLock \/ FGone \/ FInstall \/ FUnlock

----------------------------------------------------------------------------
(* R, T and P drop the page-cache reference.  Each first takes the lock and *)
(* stops when the folio has left the cache.                                 *)

LockOrStop(a) ==
  /\ At(a, 0)
  /\ IF xslot THEN MayLock(a) /\ Goto(a, 1)
              ELSE folio_lock = Unlocked /\ Goto(a, Done) /\ UNCHANGED folio_lock
  /\ UNCHANGED <<scenario, pte_present, rmap, refcount, xslot, freed, U_start, Z_nr>>

UnmapIfMapped(a) ==
  /\ At(a, 1) /\ Goto(a, 2)
  /\ IF folio_mapped THEN UnmapAll ELSE UNCHANGED <<pte_present, rmap, refcount, freed>>
  /\ UNCHANGED <<scenario, xslot, folio_lock, U_start, Z_nr>>

\* Reclaim keeps a folio that is mapped again,
RKeep == /\ At("R", 2)
         /\ IF folio_mapped THEN Unlock /\ Goto("R", Done)
                            ELSE Goto("R", 3) /\ UNCHANGED folio_lock
         /\ UNCHANGED <<scenario, pte_present, rmap, refcount, xslot, freed, U_start, Z_nr>>
\* and removes it if its count is the expected one.
Expected == 1 + NSUB
RFreeze == /\ At("R", 3) /\ Goto("R", Done) /\ Unlock
           /\ IF refcount = Expected THEN xslot' = FALSE /\ SetRef(0)
                                     ELSE UNCHANGED <<xslot, refcount, freed>>
           /\ UNCHANGED <<scenario, pte_present, rmap, U_start, Z_nr>>
R == LockOrStop("R") \/ UnmapIfMapped("R") \/ RKeep \/ RFreeze

\* Truncation unmaps whatever is mapped, removes the folio, and its last put
\* leaves nothing.
TUnmap == /\ At("T", 1) /\ Goto("T", 2) /\ UnmapAll
          /\ UNCHANGED <<scenario, xslot, folio_lock, U_start, Z_nr>>
TRemove == /\ At("T", 2) /\ Goto("T", 3)
           /\ xslot' = FALSE /\ SetRef(refcount - 1)
           /\ UNCHANGED <<scenario, pte_present, rmap, folio_lock, U_start, Z_nr>>
TRelease == /\ At("T", 3) /\ Goto("T", Done) /\ Unlock
            /\ IF ~freed /\ refcount > 0 THEN SetRef(0) ELSE UNCHANGED <<refcount, freed>>
            /\ UNCHANGED <<scenario, pte_present, rmap, xslot, U_start, Z_nr>>
T == LockOrStop("T") \/ TUnmap \/ TRemove \/ TRelease

\* Mutation: the dropper looks at the page cache, not at the map count.
NoGate == xslot
\* pc_drop_if_unmapped: the gate is the map count.
Gate == ~folio_mapped
PDrop == /\ At("P", 2) /\ Goto("P", Done) /\ Unlock
         /\ xslot' = (xslot /\ ~Gate)
         /\ IF xslot' THEN UNCHANGED <<refcount, freed>> ELSE SetRef(0)
         /\ UNCHANGED <<scenario, pte_present, rmap, U_start, Z_nr>>
P == LockOrStop("P") \/ UnmapIfMapped("P") \/ PDrop

----------------------------------------------------------------------------
(* U, the walk over the two page tables, and Z, the zap: neither takes the  *)
(* folio lock.                                                              *)

U_end == IF U_start < BND THEN BND ELSE NSUB
\* nr_run: the present sub-PTEs from U_start to the end of the table.
Run == {i \in U_start..(U_end - 1) : \A j \in U_start..i : j \in pte_present[Um]}
UStart == /\ At("U", 0) /\ Goto("U", 1)
          /\ UNCHANGED <<scenario, pte_present, rmap, refcount, xslot, folio_lock, freed, U_start, Z_nr>>
\* Mutation: the reverse map loses the sub-PTE one step before its entry goes.
URmapFirst == /\ rmap' = [rmap EXCEPT ![Um] = @ \ Run]
              /\ pte_present' = [pte_present EXCEPT ![Um] = @ \ {i \in Run : i > U_start}]
UClear == /\ rmap' = [rmap EXCEPT ![Um] = @ \ Run]
          /\ pte_present' = [pte_present EXCEPT ![Um] = @ \ Run]
Hole == 1
\* One batch, or a step over one hole.
UBatch == /\ At("U", 1) /\ UClear
          /\ SetRef(refcount - Cardinality(Run))
          /\ U_start' = U_start + (IF Run = {} THEN Hole ELSE Cardinality(Run))
          /\ Goto("U", IF U_start' = U_end THEN 2 ELSE 1)
          /\ UNCHANGED <<scenario, xslot, folio_lock, Z_nr>>
\* The end of a table: the lock is dropped, and the walk goes on or is over.
UNextTable == /\ At("U", 2) /\ Goto("U", IF U_start < NSUB THEN 1 ELSE Done)
              /\ UNCHANGED <<scenario, pte_present, rmap, refcount, xslot, folio_lock, freed, U_start, Z_nr>>
U == UStart \/ UBatch \/ UNextTable

ZClear == /\ At("Z", 0) /\ Goto("Z", 1)
          /\ Z_nr' = Cardinality(pte_present[Zm])
          /\ pte_present' = [pte_present EXCEPT ![Zm] = {}]
          /\ UNCHANGED <<scenario, rmap, refcount, xslot, folio_lock, freed, U_start>>
ZRmap == /\ At("Z", 1) /\ Goto("Z", 2)
         /\ rmap' = [rmap EXCEPT ![Zm] = {}]
         /\ UNCHANGED <<scenario, pte_present, refcount, xslot, folio_lock, freed, U_start, Z_nr>>
ZPut == /\ At("Z", 2) /\ Goto("Z", Done) /\ SetRef(refcount - Z_nr)
        /\ UNCHANGED <<scenario, pte_present, rmap, xslot, folio_lock, U_start, Z_nr>>
Z == ZClear \/ ZRmap \/ ZPut

----------------------------------------------------------------------------
AllDone == \A a \in Actor : At(a, Done)
\* The end of main(), which puts what is left of a folio that has left the
\* cache: nothing is, every removal here has put all.
Finished == AllDone /\ UNCHANGED vars
\* An actor that finds the lock taken returns and tries again.
Spin == /\ folio_lock # Unlocked /\ (At("F", 1) \/ \E a \in {"R", "T", "P"} : At(a, 0))
        /\ UNCHANGED vars

Next == F \/ R \/ T \/ U \/ Z \/ P \/ Spin \/ Finished
Spec == Init /\ [][Next]_vars

----------------------------------------------------------------------------
\* NO_FREE_WHILE_MAPPED: whatever interleaving of fault, unmap and removal
\* frees the folio, no sub-PTE maps it then or later.
NoFreeWhileMapped == freed => ~AnyPtePresent

\* NO_PC_DROP_WHILE_MAPPED, in both forms: a folio that left the page cache is
\* neither mapped by the map count (what the gates test) nor by a page table.
RemovedIsUnmapped == ~xslot => ~folio_mapped /\ ~AnyPtePresent

\* No orphan: an entry that is present is one the reverse map knows, so the
\* map-count gate sees it.
NoOrphan == \A m \in Mm : pte_present[m] \subseteq rmap[m]

\* References the fault has from its lookup, and the zap from its clearing.
LookupRef == IF pc["F"] \in {1, 2} THEN 1 ELSE 0
ZapRef    == IF pc["Z"] \in {1, 2} THEN Z_nr ELSE 0
\* While the folio is in the cache its count is exact: the cache's reference,
\* one for each present sub-PTE, and those in flight.
RefsExact == xslot => refcount = 1 + PresentCount + LookupRef + ZapRef

\* Every actor ends: the locks are released and nobody waits for a folio that
\* has left the cache.
ActorsEnd == <>AllDone
=============================================================================
