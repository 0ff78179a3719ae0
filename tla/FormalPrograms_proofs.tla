------------------------ MODULE FormalPrograms_proofs ------------------------
(***************************************************************************)
(* The programs that tear a cluster or a file folio down keep what they    *)
(* assert for every number of sub-PTEs, every place of the page-table      *)
(* boundary, every size of the file and every new end of file, and so do   *)
(* the flush programs for clusters of any size at any place in their page. *)
(*                                                                         *)
(* One inductive invariant per program: it says how far each thread is by  *)
(* what it has left mapped and which references it still has to put.       *)
(***************************************************************************)
EXTENDS FormalPrograms, FiniteSetTheorems, TLAPS

----------------------------------------------------------------------------
(* The teardown of a cluster (OrphanPte).                                   *)

\* Where the two halves of address space 0 stand: the walk, before it cleared
\* page table 0, and before it cleared page table 1.
Walks == scenario \in {"straddle", "refault"}
W_before0 == {"lock0", "clear0"}
W_between == {"put0", "unlock0", "lock1", "clear1"}
W_before2 == {"lock2", "clear2"}
W_labels == W_before0 \cup W_between \cup W_before2 \cup
            {"put1", "unlock1", "put2", "unlock2", "done"}
Z_before == {"lock", "lock2nd", "clear"}
Z_labels == Z_before \cup {"unlock", "unlock2nd", "put", "done"}
F_mapped == {"unlock", "lock2nd", "clear"}
F_labels == F_mapped \cup {"lock", "get", "giveup", "rmap", "pte", "put", "unlock2nd", "done"}
T_before == {"lock", "clear"}
T_labels == T_before \cup {"unlock", "put", "done"}
Labels == W_labels \cup Z_labels \cup F_labels

\* Threads that the scenario does not have are done from the start.
OrphanType ==
  /\ scenario \in {"straddle", "refault", "units"} /\ guard \in BOOLEAN
  /\ freed \in BOOLEAN /\ refcount \in Int
  /\ pte_present \in [Orphan!Mm -> SUBSET Orphan!Sub]
  /\ rmap_sub \in [Orphan!Mm -> SUBSET Orphan!Sub]
  /\ pc \in [Orphan!Thread -> Labels]
  /\ pc["W"] \in W_labels /\ pc["Z"] \in Z_labels /\ pc["F"] \in F_labels
  /\ pc["A"] \in T_labels /\ pc["B"] \in T_labels /\ pc["Main"] \in {"lock", "done"}
  /\ scenario # "refault" => pc["F"] = "done" /\ pc["Main"] = "done"
  /\ scenario # "straddle" => pc["Z"] = "done"
  /\ scenario # "units" => pc["A"] = "done" /\ pc["B"] = "done"
  /\ scenario = "units" => pc["W"] = "done"
  /\ scenario = "straddle" => pc["W"] \notin W_before2 \cup {"put2", "unlock2"}

\* What is still mapped of address space 0, and of 1 without the faulted PTE.
Left0 ==
  IF scenario = "units" THEN IF pc["A"] \in T_before THEN Orphan!Sub ELSE {}
  ELSE IF pc["W"] \in W_before0 THEN Orphan!Sub
  ELSE IF pc["W"] \in W_between THEN Orphan!Table1 ELSE {}
Left1 ==
  CASE scenario = "units" -> IF pc["B"] \in T_before THEN Orphan!Sub ELSE {}
    [] scenario = "straddle" -> IF pc["Z"] \in Z_before THEN Orphan!Sub ELSE {}
    [] scenario = "refault" ->
         IF pc["W"] \in W_before0 \cup W_between \cup W_before2 \cup {"put1", "unlock1"}
         THEN Orphan!Sub \ {0} ELSE {}

OrphanMaps ==
  /\ pte_present[0] = Left0 /\ rmap_sub[0] = Left0
  /\ pte_present[1] = Left1 \cup (IF scenario = "refault" /\ pc["F"] \in F_mapped THEN {0} ELSE {})
  /\ rmap_sub[1] = Left1 \cup
                   (IF scenario = "refault" /\ pc["F"] \in F_mapped \cup {"pte"} THEN {0} ELSE {})

\* The references each thread has not put yet.
WalkRefs0 == IF pc["W"] \in W_before0 \cup {"put0"} THEN NSUB
             ELSE IF pc["W"] \in W_between \cup {"put1"} THEN NSUB - BND ELSE 0
WalkRefs1 == IF pc["W"] \in {"unlock2", "done"} THEN 0 ELSE NSUB - 1
FaultRefs == IF pc["F"] \in F_mapped \cup {"rmap", "pte", "put"} THEN 1 ELSE 0
NotDone(t, n) == IF pc[t] = "done" THEN 0 ELSE n

OrphanRefs ==
  /\ scenario = "units" => refcount = NotDone("A", NSUB) + NotDone("B", NSUB)
  /\ scenario = "straddle" => refcount = WalkRefs0 + NotDone("Z", NSUB)
  /\ scenario = "refault" =>
       /\ refcount = NotDone("Main", 1) + WalkRefs0 + WalkRefs1 + FaultRefs
       /\ pc["Main"] = "done" => pc["W"] = "done" /\ pc["F"] = "done"
  /\ freed <=> refcount = 0

OrphanInv == OrphanType /\ OrphanMaps /\ OrphanRefs

----------------------------------------------------------------------------
(* The page-cache reference (PageCacheGate).                                *)

Live == Gate!Live[gate_scenario]
GateType ==
  /\ gate_scenario \in DOMAIN Gate!Live
  /\ gate_pte \in [Gate!Mm -> SUBSET Gate!Sub] /\ rmap \in [Gate!Mm -> SUBSET Gate!Sub]
  /\ gate_ref \in Int /\ in_cache \in BOOLEAN /\ gate_freed \in BOOLEAN
  /\ gate_pc \in [Gate!Actor -> {0, 1, 2, 3, Gate!Done}]
  /\ \A a \in Gate!Actor : a \notin Live => gate_pc[a] = Gate!Done
  /\ gate_pc["P"] # 3
  /\ U_start \in Nat /\ Z_nr \in Nat

\* Who holds the folio lock; while somebody does that found the folio in the
\* cache, it stays there until he takes it out himself.
LockOwner ==
  /\ folio_lock = "F" <=> gate_pc["F"] \in {2, 3}
  /\ folio_lock = "R" <=> gate_pc["R"] \in {1, 2, 3}
  /\ folio_lock = "T" <=> gate_pc["T"] \in {1, 2, 3}
  /\ folio_lock = "P" <=> gate_pc["P"] \in {1, 2}
  /\ gate_pc["F"] = 2 \/ gate_pc["R"] \in {1, 2, 3} \/ gate_pc["T"] \in {1, 2} \/ gate_pc["P"] \in {1, 2}
       => in_cache
  /\ gate_pc["T"] = 3 => ~in_cache

\* What the actors know of the page tables and the reverse map.
GateMaps ==
  /\ \A m \in Gate!Mm : gate_pte[m] \subseteq rmap[m]
  /\ \A m \in Gate!Mm : m # Gate!Zm \/ gate_pc["Z"] # 1 => gate_pte[m] = rmap[m]
  /\ "Z" \in Live /\ gate_pc["Z"] # 0 => gate_pte[Gate!Zm] = {}
  /\ "F" \in Live /\ gate_pc["F"] \in {0, 1, 2} => gate_pte[Gate!Fm] = {}
  /\ gate_pc["T"] \in {2, 3} \/ gate_pc["R"] = 3 => ~Gate!folio_mapped

\* While the folio is in the cache the count is exact, and so it is in use;
\* once it has left, nothing maps it.
GateRefs ==
  /\ Gate!RefsExact
  /\ in_cache => ~gate_freed
  /\ ~in_cache => ~Gate!folio_mapped

GateInv == GateType /\ LockOwner /\ GateMaps /\ GateRefs

----------------------------------------------------------------------------
(* A truncation (TruncateUnits).                                            *)

First == Truncation!start_cluster
Hole == First * MMUC

\* The clusters from the first one wholly beyond the new end to the one the
\* loop has come to are gone, and the page tables are empty from there on.
TruncateInv ==
  /\ newsize_mmu \in 1..Truncation!FileSubs
  /\ file_pc \in {"unmap", "remove", "done"}
  /\ file_pc = "unmap" => file_pte = Truncation!Sub /\ file_xslot = 0..(NCLUST - 1)
  /\ file_pc # "unmap" =>
       /\ c \in First..NCLUST
       /\ file_pte = {i \in Truncation!Sub : i < Hole}
       /\ file_xslot = (0..(First - 1)) \cup (c..(NCLUST - 1))

----------------------------------------------------------------------------
(* A deferred flush (TlbFlush).                                             *)

\* What a pending flush covers: the cluster, all of it.
Covers == g_active /\ g_start <= Tlb!VBASE /\ Tlb!VBASE + PAGE_MMUCOUNT <= g_end

\* Before the unmap the frame is in use; until the flush it is not free, and
\* the flush covers the cluster; after it no translation is cached.
FlushPhase ==
  /\ ksw_pc = "unmap" => tlb_pte = Tlb!Sub /\ tlb_ref = PAGE_MMUCOUNT
  /\ ksw_pc # "unmap" => tlb_pte = {} /\ tlb_ref = 0
  /\ ksw_pc = "flush" => Covers
  /\ ksw_pc \in {"unmap", "flush", "free"} => ~frame_freed /\ ~frame_reused
  /\ ksw_pc \in {"free", "reuse", "done"} => tlb = {}

TlbInv == Tlb!TypeOK /\ FlushPhase

IInv == OrphanInv /\ GateInv /\ TruncateInv /\ TlbInv

----------------------------------------------------------------------------
(* The steps of the teardown programs.                                      *)

\* The invariant holds of the initial states of the three programs.
LEMMA OrphanInit == Orphan!Init => OrphanInv
<1> SUFFICES ASSUME Orphan!Init PROVE OrphanInv
  OBVIOUS
<1> USE FormalAssumption DEF W_before0, W_between, W_before2, Z_before, F_mapped, T_before,
      Orphan!Init, Orphan!Mm, Orphan!Sub, Orphan!Thread, Orphan!Unmapped, Orphan!Faulted
<1>1. OrphanType
  <2>1. /\ pte_present \in [Orphan!Mm -> SUBSET Orphan!Sub]
        /\ rmap_sub \in [Orphan!Mm -> SUBSET Orphan!Sub]
        /\ refcount \in Int
    OBVIOUS
  <2>2. ASSUME NEW t \in Orphan!Thread
        PROVE  pc[t] \in {"lock0", "lock", "done"}
    OBVIOUS
  <2>3. pc \in [Orphan!Thread -> Labels]
    <3>1. pc = [t \in Orphan!Thread |-> pc[t]]
      OBVIOUS
    <3> QED
      BY <2>2, <3>1 DEF Labels, W_labels, Z_labels, F_labels
  <2>4. /\ pc["W"] \in {"lock0", "done"} /\ \A t \in Orphan!Thread \ {"W"} : pc[t] \in {"lock", "done"}
        /\ scenario # "refault" => pc["F"] = "done" /\ pc["Main"] = "done"
        /\ scenario # "straddle" => pc["Z"] = "done"
        /\ scenario # "units" => pc["A"] = "done" /\ pc["B"] = "done"
        /\ scenario = "units" => pc["W"] = "done"
    OBVIOUS
  <2> QED
    BY <2>1, <2>3, <2>4 DEF OrphanType, W_labels, Z_labels, F_labels, T_labels
<1>2. OrphanMaps
  BY DEF OrphanMaps, Left0, Left1
<1>3. OrphanRefs
  BY DEF OrphanRefs, WalkRefs0, WalkRefs1, FaultRefs, NotDone
<1> QED
  BY <1>1, <1>2, <1>3 DEF OrphanInv

\* put_refs, as a condition on the count and the flag.
LEMMA PutEffect ==
  ASSUME NEW t, NEW a, NEW n, NEW b, Orphan!PutRefs(t, a, n, b)
  PROVE  /\ refcount' = refcount - n
         /\ freed' <=> freed \/ refcount' = 0 \/ (scenario = "units" /\ refcount' < 0)
<1>1. Orphan!put_refs(n)
  BY DEF Orphan!PutRefs, Orphan!PutUnit
<1> QED
  BY <1>1, Zenon DEF Orphan!put_refs

\* The walk.
LEMMA OrphanW == ASSUME OrphanInv, Orphan!W PROVE OrphanInv'
<1> USE FormalAssumption
<1> USE DEF OrphanInv, OrphanType, OrphanMaps, OrphanRefs, Left0, Left1, WalkRefs0, WalkRefs1, FaultRefs, NotDone,
      Labels, W_labels, W_before0, W_between, W_before2, Z_labels, Z_before, F_labels, F_mapped,
      T_labels, T_before, Orphan!Thread, Orphan!At, Orphan!Goto
<1>1. CASE Orphan!Take("W", "lock0", {<<0, 0>>}, "clear0")
  BY <1>1 DEF Orphan!Take
<1>2. CASE Orphan!Clear("W", "clear0", 0, Orphan!Table0, "put0")
  <2>1. OrphanType'
    BY <1>2 DEF Orphan!Clear, Orphan!clear_group, Orphan!Cleared, Orphan!Table0, Orphan!Table1,
      Orphan!Sub, Orphan!Faulted, Orphan!Mm
  <2>2. OrphanMaps'
    BY <1>2 DEF Orphan!Clear, Orphan!clear_group, Orphan!Cleared, Orphan!Table0, Orphan!Table1,
      Orphan!Sub, Orphan!Faulted, Orphan!Mm
  <2>3. OrphanRefs'
    BY <1>2 DEF Orphan!Clear
  <2> QED
    BY ONLY <2>1, <2>2, <2>3 DEF OrphanInv
<1>3. CASE Orphan!PutRefs("W", "put0", BND, "unlock0")
  <2>1. OrphanType'
    BY <1>3 DEF Orphan!PutRefs, Orphan!PutUnit, Orphan!put_refs
  <2>2. OrphanMaps'
    BY <1>3 DEF Orphan!PutRefs, Orphan!PutUnit, Orphan!put_refs
  <2>3. refcount' = refcount - (BND) /\ (freed' <=> freed \/ refcount' = 0 \/ (scenario = "units" /\ refcount' < 0))
    BY <1>3, PutEffect
  <2>4. OrphanRefs'
    BY <1>3, <2>3 DEF Orphan!PutRefs
  <2> QED
    BY ONLY <2>1, <2>2, <2>4 DEF OrphanInv
<1>4. CASE Orphan!Release("W", "unlock0", {<<0, 0>>}, "lock1")
  BY <1>4 DEF Orphan!Release
<1>5. CASE Orphan!Take("W", "lock1", {<<0, 1>>}, "clear1")
  BY <1>5 DEF Orphan!Take
<1>6. CASE Orphan!Clear("W", "clear1", 0, Orphan!Table1, "put1")
  <2>1. OrphanType'
    BY <1>6 DEF Orphan!Clear, Orphan!clear_group, Orphan!Cleared, Orphan!Table0, Orphan!Table1,
      Orphan!Sub, Orphan!Faulted, Orphan!Mm
  <2>2. OrphanMaps'
    BY <1>6 DEF Orphan!Clear, Orphan!clear_group, Orphan!Cleared, Orphan!Table0, Orphan!Table1,
      Orphan!Sub, Orphan!Faulted, Orphan!Mm
  <2>3. OrphanRefs'
    BY <1>6 DEF Orphan!Clear
  <2> QED
    BY ONLY <2>1, <2>2, <2>3 DEF OrphanInv
<1>7. CASE Orphan!PutRefs("W", "put1", NSUB - BND, "unlock1")
  <2>1. OrphanType'
    BY <1>7 DEF Orphan!PutRefs, Orphan!PutUnit, Orphan!put_refs
  <2>2. OrphanMaps'
    BY <1>7 DEF Orphan!PutRefs, Orphan!PutUnit, Orphan!put_refs
  <2>3. refcount' = refcount - (NSUB - BND) /\ (freed' <=> freed \/ refcount' = 0 \/ (scenario = "units" /\ refcount' < 0))
    BY <1>7, PutEffect
  <2>4. OrphanRefs'
    BY <1>7, <2>3 DEF Orphan!PutRefs
  <2> QED
    BY ONLY <2>1, <2>2, <2>4 DEF OrphanInv
<1>8. CASE Orphan!Release("W", "unlock1", {<<0, 1>>}, IF scenario = "refault" THEN "lock2" ELSE "done")
  BY <1>8 DEF Orphan!Release
<1>9. CASE Orphan!Take("W", "lock2", {<<1, 0>>}, "clear2")
  BY <1>9 DEF Orphan!Take
<1>10. CASE Orphan!Clear("W", "clear2", 1, Orphan!Sub \ Orphan!Faulted, "put2")
  <2>1. OrphanType'
    BY <1>10 DEF Orphan!Clear, Orphan!clear_group, Orphan!Cleared, Orphan!Table0, Orphan!Table1,
      Orphan!Sub, Orphan!Faulted, Orphan!Mm
  <2>2. OrphanMaps'
    BY <1>10 DEF Orphan!Clear, Orphan!clear_group, Orphan!Cleared, Orphan!Table0, Orphan!Table1,
      Orphan!Sub, Orphan!Faulted, Orphan!Mm
  <2>3. OrphanRefs'
    BY <1>10 DEF Orphan!Clear
  <2> QED
    BY ONLY <2>1, <2>2, <2>3 DEF OrphanInv
<1>11. CASE Orphan!PutRefs("W", "put2", NSUB - 1, "unlock2")
  <2>1. OrphanType'
    BY <1>11 DEF Orphan!PutRefs, Orphan!PutUnit, Orphan!put_refs
  <2>2. OrphanMaps'
    BY <1>11 DEF Orphan!PutRefs, Orphan!PutUnit, Orphan!put_refs
  <2>3. refcount' = refcount - (NSUB - 1) /\ (freed' <=> freed \/ refcount' = 0 \/ (scenario = "units" /\ refcount' < 0))
    BY <1>11, PutEffect
  <2>4. OrphanRefs'
    BY <1>11, <2>3 DEF Orphan!PutRefs
  <2> QED
    BY ONLY <2>1, <2>2, <2>4 DEF OrphanInv
<1>12. CASE Orphan!Release("W", "unlock2", {<<1, 0>>}, "done")
  BY <1>12 DEF Orphan!Release
<1> QED
  BY <1>1, <1>2, <1>3, <1>4, <1>5, <1>6, <1>7, <1>8, <1>9, <1>10, <1>11, <1>12 DEF Orphan!W

\* The teardown of address space 0.
LEMMA OrphanA == ASSUME OrphanInv, Orphan!A PROVE OrphanInv'
<1> USE FormalAssumption
<1> USE DEF OrphanInv, OrphanType, OrphanMaps, OrphanRefs, Left0, Left1, WalkRefs0, WalkRefs1, FaultRefs, NotDone,
      Labels, W_labels, W_before0, W_between, W_before2, Z_labels, Z_before, F_labels, F_mapped,
      T_labels, T_before, Orphan!Thread, Orphan!At, Orphan!Goto
<1>1. CASE Orphan!Take("A", "lock", {<<0, 0>>}, "clear")
  BY <1>1 DEF Orphan!Take
<1>2. CASE Orphan!Clear("A", "clear", 0, Orphan!Sub, "unlock")
  <2>1. OrphanType'
    BY <1>2 DEF Orphan!Clear, Orphan!clear_group, Orphan!Cleared, Orphan!Table0, Orphan!Table1,
      Orphan!Sub, Orphan!Faulted, Orphan!Mm
  <2>2. OrphanMaps'
    BY <1>2 DEF Orphan!Clear, Orphan!clear_group, Orphan!Cleared, Orphan!Table0, Orphan!Table1,
      Orphan!Sub, Orphan!Faulted, Orphan!Mm
  <2>3. OrphanRefs'
    BY <1>2 DEF Orphan!Clear
  <2> QED
    BY ONLY <2>1, <2>2, <2>3 DEF OrphanInv
<1>3. CASE Orphan!Release("A", "unlock", {<<0, 0>>}, "put")
  BY <1>3 DEF Orphan!Release
<1>4. CASE Orphan!PutRefs("A", "put", NSUB, "done")
  <2>1. OrphanType'
    <3>1. /\ OrphanType /\ pc' = [pc EXCEPT !["A"] = "done"] /\ scenario = "units"
          /\ UNCHANGED <<pte_present, rmap_sub, scenario, guard>>
      BY <1>4 DEF Orphan!PutRefs
    <3>2. refcount' \in Int /\ freed' \in BOOLEAN
      BY <1>4, FormalAssumption DEF Orphan!PutRefs, Orphan!PutUnit, Orphan!put_refs
    <3>3. /\ pc' \in [Orphan!Thread -> Labels] /\ pc'["A"] = "done"
          /\ \A t \in {"W", "Z", "F", "B", "Main"} : pc'[t] = pc[t]
      BY ONLY <3>1 DEF OrphanType, Labels, T_labels, W_labels, Orphan!Thread
    <3> QED
      BY ONLY <3>1, <3>2, <3>3 DEF OrphanType, T_labels
  <2>2. OrphanMaps'
    BY <1>4 DEF Orphan!PutRefs, Orphan!PutUnit, Orphan!put_refs
  <2>3. refcount' = refcount - (NSUB) /\ (freed' <=> freed \/ refcount' = 0 \/ (scenario = "units" /\ refcount' < 0))
    BY <1>4, PutEffect
  <2>4. OrphanRefs'
    <3>1. scenario = "units" /\ NSUB \in Int /\ NSUB > 0 /\ ~freed
      BY <1>4 DEF Orphan!PutRefs
    <3> QED
      BY <1>4, <2>3, <3>1, SMTT(30) DEF Orphan!PutRefs
  <2> QED
    BY ONLY <2>1, <2>2, <2>4 DEF OrphanInv
<1> QED
  BY <1>1, <1>2, <1>3, <1>4 DEF Orphan!A, Orphan!Teardown

\* The teardown of address space 1.
LEMMA OrphanB == ASSUME OrphanInv, Orphan!B PROVE OrphanInv'
<1> USE FormalAssumption
<1> USE DEF OrphanInv, OrphanType, OrphanMaps, OrphanRefs, Left0, Left1, WalkRefs0, WalkRefs1, FaultRefs, NotDone,
      Labels, W_labels, W_before0, W_between, W_before2, Z_labels, Z_before, F_labels, F_mapped,
      T_labels, T_before, Orphan!Thread, Orphan!At, Orphan!Goto
<1>1. CASE Orphan!Take("B", "lock", {<<1, 0>>}, "clear")
  BY <1>1 DEF Orphan!Take
<1>2. CASE Orphan!Clear("B", "clear", 1, Orphan!Sub, "unlock")
  <2>1. OrphanType'
    BY <1>2 DEF Orphan!Clear, Orphan!clear_group, Orphan!Cleared, Orphan!Table0, Orphan!Table1,
      Orphan!Sub, Orphan!Faulted, Orphan!Mm
  <2>2. OrphanMaps'
    BY <1>2 DEF Orphan!Clear, Orphan!clear_group, Orphan!Cleared, Orphan!Table0, Orphan!Table1,
      Orphan!Sub, Orphan!Faulted, Orphan!Mm
  <2>3. OrphanRefs'
    BY <1>2 DEF Orphan!Clear
  <2> QED
    BY ONLY <2>1, <2>2, <2>3 DEF OrphanInv
<1>3. CASE Orphan!Release("B", "unlock", {<<1, 0>>}, "put")
  BY <1>3 DEF Orphan!Release
<1>4. CASE Orphan!PutRefs("B", "put", NSUB, "done")
  <2>1. OrphanType'
    <3>1. /\ OrphanType /\ pc' = [pc EXCEPT !["B"] = "done"] /\ scenario = "units"
          /\ UNCHANGED <<pte_present, rmap_sub, scenario, guard>>
      BY <1>4 DEF Orphan!PutRefs
    <3>2. refcount' \in Int /\ freed' \in BOOLEAN
      BY <1>4, FormalAssumption DEF Orphan!PutRefs, Orphan!PutUnit, Orphan!put_refs
    <3>3. /\ pc' \in [Orphan!Thread -> Labels] /\ pc'["B"] = "done"
          /\ \A t \in {"W", "Z", "F", "A", "Main"} : pc'[t] = pc[t]
      BY ONLY <3>1 DEF OrphanType, Labels, T_labels, W_labels, Orphan!Thread
    <3> QED
      BY ONLY <3>1, <3>2, <3>3 DEF OrphanType, T_labels
  <2>2. OrphanMaps'
    BY <1>4 DEF Orphan!PutRefs, Orphan!PutUnit, Orphan!put_refs
  <2>3. refcount' = refcount - (NSUB) /\ (freed' <=> freed \/ refcount' = 0 \/ (scenario = "units" /\ refcount' < 0))
    BY <1>4, PutEffect
  <2>4. OrphanRefs'
    <3>1. scenario = "units" /\ NSUB \in Int /\ NSUB > 0 /\ ~freed
      BY <1>4 DEF Orphan!PutRefs
    <3> QED
      BY <1>4, <2>3, <3>1, SMTT(30) DEF Orphan!PutRefs
  <2> QED
    BY ONLY <2>1, <2>2, <2>4 DEF OrphanInv
<1> QED
  BY <1>1, <1>2, <1>3, <1>4 DEF Orphan!B, Orphan!Teardown

\* The zap.
LEMMA OrphanZ == ASSUME OrphanInv, Orphan!Z PROVE OrphanInv'
<1> USE FormalAssumption
<1> USE DEF OrphanInv, OrphanType, OrphanMaps, OrphanRefs, Left0, Left1, WalkRefs0, WalkRefs1, FaultRefs, NotDone,
      Labels, W_labels, W_before0, W_between, W_before2, Z_labels, Z_before, F_labels, F_mapped,
      T_labels, T_before, Orphan!Thread, Orphan!At, Orphan!Goto
<1>1. CASE Orphan!Take("Z", "lock", {<<1, 0>>}, "lock2nd")
  BY <1>1 DEF Orphan!Take
<1>2. CASE Orphan!Take("Z", "lock2nd", {<<1, 1>>}, "clear")
  BY <1>2 DEF Orphan!Take
<1>3. CASE Orphan!Clear("Z", "clear", 1, Orphan!Sub, "unlock")
  <2>1. OrphanType'
    BY <1>3 DEF Orphan!Clear, Orphan!clear_group, Orphan!Cleared, Orphan!Table0, Orphan!Table1,
      Orphan!Sub, Orphan!Faulted, Orphan!Mm
  <2>2. OrphanMaps'
    BY <1>3 DEF Orphan!Clear, Orphan!clear_group, Orphan!Cleared, Orphan!Table0, Orphan!Table1,
      Orphan!Sub, Orphan!Faulted, Orphan!Mm
  <2>3. OrphanRefs'
    BY <1>3 DEF Orphan!Clear
  <2> QED
    BY ONLY <2>1, <2>2, <2>3 DEF OrphanInv
<1>4. CASE Orphan!Release("Z", "unlock", {<<1, 1>>}, "unlock2nd")
  BY <1>4 DEF Orphan!Release
<1>5. CASE Orphan!Release("Z", "unlock2nd", {<<1, 0>>}, "put")
  BY <1>5 DEF Orphan!Release
<1>6. CASE Orphan!PutRefs("Z", "put", NSUB, "done")
  <2>1. OrphanType'
    BY <1>6, SMTT(30) DEF Orphan!PutRefs, Orphan!PutUnit, Orphan!put_refs
  <2>2. OrphanMaps'
    BY <1>6 DEF Orphan!PutRefs, Orphan!PutUnit, Orphan!put_refs
  <2>3. refcount' = refcount - (NSUB) /\ (freed' <=> freed \/ refcount' = 0 \/ (scenario = "units" /\ refcount' < 0))
    BY <1>6, PutEffect
  <2>4. OrphanRefs'
    BY <1>6, <2>3 DEF Orphan!PutRefs
  <2> QED
    BY ONLY <2>1, <2>2, <2>4 DEF OrphanInv
<1> QED
  BY <1>1, <1>2, <1>3, <1>4, <1>5, <1>6 DEF Orphan!Z
\* The fault.
LEMMA OrphanF == ASSUME OrphanInv, Orphan!F PROVE OrphanInv'
<1> USE FormalAssumption
<1> USE DEF OrphanInv, OrphanType, OrphanMaps, OrphanRefs, Left0, Left1, WalkRefs0, WalkRefs1, FaultRefs, NotDone,
      Labels, W_labels, W_before0, W_between, W_before2, Z_labels, Z_before, F_labels, F_mapped,
      T_labels, T_before, Orphan!Thread, Orphan!At, Orphan!Goto
<1>1. CASE Orphan!Take("F", "lock", {<<1, 0>>}, "get")
  BY <1>1 DEF Orphan!Take
<1>2. CASE /\ Orphan!At("F", "get") /\ Orphan!CanGet
           /\ refcount' = refcount + 1 /\ Orphan!Goto("F", "rmap")
           /\ UNCHANGED <<freed, pte_present, rmap_sub, ptl, scenario, guard>>
  BY <1>2
<1>3. CASE /\ Orphan!At("F", "get") /\ ~Orphan!CanGet /\ Orphan!Goto("F", "giveup")
           /\ UNCHANGED <<refcount, freed, pte_present, rmap_sub, ptl, scenario, guard>>
  BY <1>3
<1>4. CASE Orphan!Release("F", "giveup", {<<1, 0>>}, "done")
  BY <1>4 DEF Orphan!Release
<1>5. CASE /\ Orphan!At("F", "rmap") /\ Orphan!Goto("F", "pte")
           /\ rmap_sub' = [rmap_sub EXCEPT ![1] = @ \cup Orphan!Faulted]
           /\ UNCHANGED <<refcount, freed, pte_present, ptl, scenario, guard>>
  BY <1>5 DEF Orphan!Faulted, Orphan!Mm, Orphan!Sub
<1>6. CASE /\ Orphan!At("F", "pte") /\ Orphan!Goto("F", "unlock")
           /\ pte_present' = [pte_present EXCEPT ![1] = @ \cup Orphan!Faulted]
           /\ UNCHANGED <<refcount, freed, rmap_sub, ptl, scenario, guard>>
  BY <1>6, SMTT(30) DEF Orphan!Faulted, Orphan!Mm, Orphan!Sub
<1>7. CASE Orphan!Release("F", "unlock", {<<1, 0>>}, "lock2nd")
  BY <1>7 DEF Orphan!Release
<1>8. CASE Orphan!Take("F", "lock2nd", {<<1, 0>>}, "clear")
  BY <1>8 DEF Orphan!Take
<1>9. CASE Orphan!Clear("F", "clear", 1, Orphan!Faulted, "put")
  BY <1>9, SMTT(30) DEF Orphan!Clear, Orphan!clear_group, Orphan!Cleared, Orphan!Faulted, Orphan!Mm, Orphan!Sub
<1>10. CASE Orphan!PutRefs("F", "put", 1, "unlock2nd")
  <2>1. OrphanType'
    BY <1>10 DEF Orphan!PutRefs, Orphan!PutUnit, Orphan!put_refs
  <2>2. OrphanMaps'
    BY <1>10 DEF Orphan!PutRefs
  <2>3. refcount' = refcount - 1 /\ (freed' <=> freed \/ refcount' = 0 \/ (scenario = "units" /\ refcount' < 0))
    BY <1>10, PutEffect
  <2>4. OrphanRefs'
    BY <1>10, <2>3 DEF Orphan!PutRefs
  <2> QED
    BY ONLY <2>1, <2>2, <2>4 DEF OrphanInv
<1>11. CASE Orphan!Release("F", "unlock2nd", {<<1, 0>>}, "done")
  BY <1>11 DEF Orphan!Release
<1> QED
  BY <1>1, <1>2, <1>3, <1>4, <1>5, <1>6, <1>7, <1>8, <1>9, <1>10, <1>11 DEF Orphan!F

\* The backing store puts its reference, the last one.
LEMMA OrphanMain == ASSUME OrphanInv, Orphan!Main PROVE OrphanInv'
<1> USE FormalAssumption
<1> USE DEF OrphanInv, OrphanType, OrphanMaps, OrphanRefs, Left0, Left1, WalkRefs0, WalkRefs1, FaultRefs, NotDone,
      Labels, W_labels, W_before0, W_between, W_before2, Z_labels, Z_before, F_labels, F_mapped,
      T_labels, T_before, Orphan!Thread, Orphan!At, Orphan!Goto
<1>1. /\ Orphan!PutRefs("Main", "lock", 1, "done")
      /\ pc["W"] = "done" /\ pc["F"] = "done"
  BY DEF Orphan!Main, Orphan!ThreadsDone
<1>2. OrphanType'
  BY <1>1 DEF Orphan!PutRefs, Orphan!PutUnit, Orphan!put_refs
<1>3. OrphanMaps'
  BY <1>1 DEF Orphan!PutRefs
<1>4. refcount' = refcount - 1 /\ (freed' <=> freed \/ refcount' = 0 \/ (scenario = "units" /\ refcount' < 0))
  BY <1>1, PutEffect
<1>5. OrphanRefs'
  BY <1>1, <1>4 DEF Orphan!PutRefs
<1> QED
  BY <1>2, <1>3, <1>5

\* A step of another program changes nothing here.
LEMMA OrphanStutter == ASSUME OrphanInv, UNCHANGED orphan PROVE OrphanInv'
  BY DEF orphan, OrphanInv, OrphanType, OrphanMaps, OrphanRefs, Left0, Left1, WalkRefs0, WalkRefs1, FaultRefs, NotDone

\* Every step of every thread of the three programs keeps the invariant.
LEMMA OrphanStep == ASSUME OrphanInv, Orphan!Next PROVE OrphanInv'
<1>1. CASE Orphan!Finished
  BY <1>1, OrphanStutter DEF Orphan!Finished, Orphan!vars, orphan
<1> QED
  BY <1>1, OrphanW, OrphanZ, OrphanF, OrphanA, OrphanB, OrphanMain DEF Orphan!Next

----------------------------------------------------------------------------
(* What the programs promise of a folio (FolioLifetime).                    *)

\* One column of a product has as many members as its set.
LEMMA Column ==
  ASSUME NEW m, NEW S, IsFiniteSet(S)
  PROVE  IsFiniteSet({m} \X S) /\ Cardinality({m} \X S) = Cardinality(S)
<1>1. IsFiniteSet({m}) /\ Cardinality({m}) = 1
  BY FS_Singleton
<1>2. Cardinality(S) \in Nat
  BY FS_CardinalityType
<1>3. IsFiniteSet({m} \X S) /\ Cardinality({m} \X S) = Cardinality({m}) * Cardinality(S)
  BY <1>1, FS_Product
<1> QED
  BY <1>1, <1>2, <1>3

\* Address space m has finitely many sub-PTEs mapped; of all of them there are
\* as many as of both address spaces together.
LEMMA PresentIsBoth ==
  ASSUME OrphanType
  PROVE  /\ IsFiniteSet(pte_present[0]) /\ IsFiniteSet(pte_present[1])
         /\ Orphan!Present \in SUBSET (Orphan!Mm \X Orphan!Sub)
         /\ Cardinality(Orphan!Present) = Cardinality(pte_present[0]) + Cardinality(pte_present[1])
<1>1. IsFiniteSet(Orphan!Sub)
  BY FormalAssumption, FS_Interval DEF Orphan!Sub
<1>2. pte_present[0] \in SUBSET Orphan!Sub /\ pte_present[1] \in SUBSET Orphan!Sub
  BY DEF OrphanType, Orphan!Mm
<1>3. IsFiniteSet(pte_present[0]) /\ IsFiniteSet(pte_present[1])
  BY <1>1, <1>2, FS_Subset
<1>4. Orphan!Present = ({0} \X pte_present[0]) \cup ({1} \X pte_present[1])
  BY DEF Orphan!Present, Orphan!Mm
<1>5. /\ IsFiniteSet({0} \X pte_present[0])
      /\ Cardinality({0} \X pte_present[0]) = Cardinality(pte_present[0])
      /\ IsFiniteSet({1} \X pte_present[1])
      /\ Cardinality({1} \X pte_present[1]) = Cardinality(pte_present[1])
  BY <1>3, Column
<1>6. ({0} \X pte_present[0]) \cap ({1} \X pte_present[1]) = {}
  OBVIOUS
<1>7. Cardinality(Orphan!Present) = Cardinality(pte_present[0]) + Cardinality(pte_present[1])
  <2> DEFINE C0 == {0} \X pte_present[0]
             C1 == {1} \X pte_present[1]
  <2>1. Cardinality(C0 \cup C1) = Cardinality(C0) + Cardinality(C1) - Cardinality(C0 \cap C1)
    BY <1>5, FS_Union
  <2>2. Cardinality(C0 \cap C1) = 0
    BY <1>6, FS_EmptySet
  <2>3. Cardinality(C0) \in Nat /\ Cardinality(C1) \in Nat
    BY <1>5, FS_CardinalityType
  <2> HIDE DEF C0, C1
  <2>4. Cardinality(C0 \cup C1) = Cardinality(C0) + Cardinality(C1)
    BY <2>1, <2>2, <2>3
  <2> QED
    BY <1>4, <1>5, <2>4 DEF C0, C1
<1> QED
  BY <1>2, <1>3, <1>4, <1>7 DEF Orphan!Mm

\* Nothing is mapped, and no thread has anything left to do with the folio.
OverAndDone ==
  /\ pte_present[0] = {} /\ pte_present[1] = {}
  /\ pc["W"] \in {"unlock1", "unlock2", "done"} /\ pc["Z"] = "done"
  /\ pc["F"] \in {"unlock2nd", "done"} /\ pc["Main"] = "done"
  /\ pc["A"] = "done" /\ pc["B"] = "done"

\* What is mapped is covered by the references that are left; after the last
\* put nothing is mapped and nobody comes back to the folio.
LEMMA OrphanBacked ==
  OrphanInv => /\ refcount \in Nat /\ Cardinality(Orphan!Present) <= refcount
               /\ freed <=> refcount = 0
               /\ freed => OverAndDone
<1> SUFFICES ASSUME OrphanInv
             PROVE  /\ refcount \in Nat /\ Cardinality(Orphan!Present) <= refcount
                    /\ freed <=> refcount = 0
                    /\ freed => OverAndDone
  OBVIOUS
<1>1. /\ NSUB \in Nat /\ BND \in Nat /\ 1 <= BND /\ BND < NSUB
      /\ Cardinality(Orphan!Sub) = NSUB /\ Cardinality(Orphan!Table1) = NSUB - BND
      /\ Cardinality(Orphan!Sub \ {0}) = NSUB - 1
      /\ Cardinality({0}) = 1 /\ Cardinality({}) = 0
  <2>1. NSUB \in Nat /\ BND \in Nat /\ 1 <= BND /\ BND < NSUB
    BY FormalAssumption
  <2>2. Orphan!Sub \ {0} = 1..(NSUB - 1)
    BY <2>1 DEF Orphan!Sub
  <2> QED
    <3>1. Cardinality(0..(NSUB - 1)) = NSUB
      BY <2>1, FS_Interval
    <3>2. Cardinality(BND..(NSUB - 1)) = NSUB - BND
      BY <2>1, FS_Interval
    <3>3. Cardinality(1..(NSUB - 1)) = NSUB - 1
      BY <2>1, FS_Interval
    <3> QED
      BY <2>1, <2>2, <3>1, <3>2, <3>3, FS_Singleton, FS_EmptySet DEF Orphan!Sub, Orphan!Table1
<1>2. Cardinality(Orphan!Present) = Cardinality(pte_present[0]) + Cardinality(pte_present[1])
  BY PresentIsBoth DEF OrphanInv
<1> USE DEF OrphanInv, OrphanType, OrphanMaps, OrphanRefs, Left0, Left1, WalkRefs0, WalkRefs1, FaultRefs, NotDone,
      Labels, W_labels, W_before0, W_between, W_before2, Z_labels, Z_before, F_labels, F_mapped, T_labels, T_before, OverAndDone
<1>3. CASE scenario = "units"
  BY <1>1, <1>2, <1>3
<1>4. CASE scenario = "straddle"
  BY <1>1, <1>2, <1>4
<1>5. CASE scenario = "refault"
  <2>1. Cardinality(pte_present[0]) <= WalkRefs0 /\ WalkRefs0 \in Nat
    BY <1>1, <1>5
  <2>2. Cardinality(pte_present[1]) <= WalkRefs1 + FaultRefs /\ WalkRefs1 \in Nat /\ FaultRefs \in Nat
    <3>1. Left1 \cup {0} = IF pc["W"] \in W_before0 \cup W_between \cup W_before2 \cup {"put1", "unlock1"}
                           THEN Orphan!Sub ELSE {0}
      BY <1>1, <1>5 DEF Orphan!Sub
    <3>2. CASE pc["F"] \in F_mapped
      <4>1. pte_present[1] = Left1 \cup {0}
        BY <1>5, <3>2
      <4>2. FaultRefs = 1 /\ WalkRefs1 = IF pc["W"] \in {"unlock2", "done"} THEN 0 ELSE NSUB - 1
        BY <3>2
      <4>3. Cardinality(pte_present[1]) <= IF pc["W"] \in {"unlock2", "done"} THEN 1 ELSE NSUB
        <5> HIDE DEF OrphanInv, OrphanType, OrphanMaps, OrphanRefs, WalkRefs1, FaultRefs, Left0, Left1
        <5>1. \/ pte_present[1] = Orphan!Sub /\ pc["W"] \notin {"unlock2", "done"}
              \/ pte_present[1] = {0}
          BY <3>1, <4>1
        <5>2. NSUB >= 1
          BY <1>1
        <5> QED
          BY ONLY <1>1, <5>1, <5>2
      <4> HIDE DEF OrphanInv, OrphanType, OrphanMaps, OrphanRefs, WalkRefs1, FaultRefs, Left0, Left1
      <4> QED
        BY <1>1, <4>2, <4>3
    <3>3. CASE pc["F"] \notin F_mapped
      BY <1>1, <1>5, <3>3
    <3> QED
      BY <3>2, <3>3
  <2>3. refcount \in Nat /\ Cardinality(Orphan!Present) <= refcount
    <3>1. /\ IsFiniteSet(pte_present[0]) /\ IsFiniteSet(pte_present[1])
      BY PresentIsBoth
    <3>2. Cardinality(pte_present[0]) \in Nat /\ Cardinality(pte_present[1]) \in Nat
      BY <3>1, FS_CardinalityType
    <3>3. refcount = NotDone("Main", 1) + WalkRefs0 + WalkRefs1 + FaultRefs /\ NotDone("Main", 1) \in Nat
      BY <1>5
    <3> HIDE DEF OrphanInv, OrphanType, OrphanMaps, OrphanRefs, WalkRefs0, WalkRefs1, FaultRefs, NotDone
    <3> QED
      BY <1>2, <2>1, <2>2, <3>2, <3>3
  <2> QED
    BY <1>1, <1>5, <2>3
<1> QED
  BY <1>3, <1>4, <1>5

\* The folio that was given back is left alone.
LEMMA FreedIsLeftAlone ==
  ASSUME OrphanInv, freed, [Orphan!Next]_orphan
  PROVE  UNCHANGED <<pte_present, refcount, freed>>
<1>1. OverAndDone
  BY OrphanBacked
<1> USE <1>1 DEF OverAndDone, Orphan!At
<1>2. CASE Orphan!W
  BY <1>2 DEF Orphan!W, Orphan!Take, Orphan!Clear, Orphan!PutRefs, Orphan!Release
<1>3. CASE Orphan!Z
  BY <1>3 DEF Orphan!Z, Orphan!Take, Orphan!Clear, Orphan!PutRefs, Orphan!Release
<1>4. CASE Orphan!F
  BY <1>4 DEF Orphan!F, Orphan!Take, Orphan!Clear, Orphan!PutRefs, Orphan!Release
<1>5. CASE Orphan!A \/ Orphan!B
  BY <1>5 DEF Orphan!A, Orphan!B, Orphan!Teardown, Orphan!Take, Orphan!Clear, Orphan!PutRefs, Orphan!Release
<1>6. CASE Orphan!Main
  BY <1>6 DEF Orphan!Main, Orphan!PutRefs
<1>7. CASE Orphan!Finished \/ UNCHANGED orphan
  BY <1>7 DEF Orphan!Finished, Orphan!vars, orphan
<1> QED
  BY <1>2, <1>3, <1>4, <1>5, <1>6, <1>7 DEF Orphan!Next

\* The abstract module counts with the same operator.
LEMMA SameCount == \A S : Orphan!Lifetime!Cardinality(S) = Cardinality(S)
  BY DEF Orphan!Lifetime!Cardinality, Cardinality

\* A folio that no page table maps any more has no entry at all.
LEMMA NothingPresent ==
  OrphanInv /\ pte_present[0] = {} /\ pte_present[1] = {} => Orphan!Present = {}
  BY DEF Orphan!Present, Orphan!Mm

\* What is present are entries of the two page tables.
LEMMA PresentEntries == OrphanInv => Orphan!Present \in SUBSET (Orphan!Mm \X Orphan!Sub)
  BY PresentIsBoth DEF OrphanInv

\* A step of a teardown program is a use of the folio, its end, or nothing.
LEMMA OrphanRefines ==
  ASSUME OrphanInv, OrphanInv', [Orphan!Next]_orphan
  PROVE  [Orphan!Lifetime!Next]_(Orphan!Lifetime!vars)
<1>1. /\ refcount \in Nat /\ (freed <=> refcount = 0) /\ freed \in BOOLEAN
      /\ freed => OverAndDone
  BY OrphanBacked DEF OrphanInv, OrphanType
<1>2. /\ refcount' \in Nat /\ Cardinality(Orphan!Present') <= refcount'
      /\ (freed' <=> refcount' = 0) /\ (freed' => OverAndDone') /\ freed' \in BOOLEAN
      /\ Orphan!Present' \in SUBSET (Orphan!Mm \X Orphan!Sub)
  <2>1. (OrphanInv => /\ refcount \in Nat /\ Cardinality(Orphan!Present) <= refcount
                      /\ freed <=> refcount = 0
                      /\ freed => OverAndDone)'
    BY OrphanBacked, PTL
  <2>2. (OrphanInv => Orphan!Present \in SUBSET (Orphan!Mm \X Orphan!Sub))'
    BY PresentEntries, PTL
  <2> QED
    BY <2>1, <2>2 DEF OrphanInv, OrphanType
<1>3. CASE freed
  <2>1. UNCHANGED <<pte_present, refcount, freed>>
    BY <1>3, FreedIsLeftAlone
  <2> QED
    BY <2>1 DEF Orphan!Lifetime!vars, Orphan!Present
<1>4. CASE ~freed /\ freed'
  <2>1. (OrphanInv /\ pte_present[0] = {} /\ pte_present[1] = {} => Orphan!Present = {})'
    BY NothingPresent, PTL
  <2>2. Orphan!Present' = {} /\ refcount' = 0
    BY <1>2, <1>4, <2>1 DEF OverAndDone
  <2> QED
    BY <1>4, <2>2 DEF Orphan!Lifetime!Next, Orphan!Lifetime!Free
<1>5. CASE ~freed /\ ~freed'
  <2>1. refcount > 0
    BY <1>1, <1>5
  <2>2. freed' = freed
    BY <1>1, <1>2, <1>5
  <2> QED
    BY <1>2, <1>5, <2>1, <2>2, SameCount DEF Orphan!Lifetime!Next, Orphan!Lifetime!Use, Orphan!Lifetime!Backed
<1> QED
  BY <1>3, <1>4, <1>5

----------------------------------------------------------------------------
(* The steps of a truncation.                                               *)

\* The first cluster that goes is the first one at or after the new end.
LEMMA HoleIsRoundedUp ==
  ASSUME newsize_mmu \in 1..Truncation!FileSubs
  PROVE  /\ First \in 1..NCLUST /\ Hole \in Nat
         /\ newsize_mmu <= Hole /\ Hole < newsize_mmu + MMUC
<1>1. MMUC \in Nat /\ MMUC > 0 /\ NCLUST \in Nat /\ NCLUST > 0 /\ newsize_mmu \in Nat /\ newsize_mmu >= 1
      /\ newsize_mmu <= NCLUST * MMUC
  BY FormalAssumption DEF Truncation!FileSubs
<1> DEFINE a == newsize_mmu + MMUC - 1
<1>2. First = a \div MMUC /\ a \in Nat /\ a >= MMUC
  BY <1>1 DEF First, Truncation!start_cluster, Truncation!ceil_div
<1>3. /\ a \div MMUC \in Nat /\ MMUC * (a \div MMUC) <= a /\ a < MMUC * (a \div MMUC) + MMUC
  BY <1>1, <1>2
<1>4. First \in Nat /\ MMUC * First <= a /\ a < MMUC * First + MMUC
  BY <1>2, <1>3
<1> HIDE DEF a
<1>5. Hole = MMUC * First /\ Hole \in Nat
  BY <1>1, <1>4 DEF Hole
<1>6. newsize_mmu <= Hole /\ Hole < newsize_mmu + MMUC
  BY <1>1, <1>4, <1>5 DEF a
<1>7. First >= 1
  BY <1>1, <1>4, <1>5, <1>6
<1>8. First <= NCLUST
  <2> SUFFICES ASSUME First >= NCLUST + 1 PROVE FALSE
    BY <1>1, <1>4
  <2>1. MMUC * First >= MMUC * (NCLUST + 1)
    BY <1>1, <1>4
  <2>2. MMUC * (NCLUST + 1) = NCLUST * MMUC + MMUC
    BY <1>1
  <2> QED
    BY <1>1, <1>4, <1>5, <1>6, <2>1, <2>2
<1> QED
  BY <1>4, <1>5, <1>6, <1>7, <1>8

\* Before the truncation everything is mapped and in the cache.
LEMMA TruncateInit == Truncation!Init => TruncateInv
  BY DEF Truncation!Init, TruncateInv

\* Sub-PTEs of a cluster that goes lie beyond the new end.
LEMMA BeyondTheHole ==
  ASSUME newsize_mmu \in 1..Truncation!FileSubs, NEW k \in Nat, First <= k
  PROVE  \A i \in Truncation!Span(k) : i >= Hole
<1>1. MMUC \in Nat /\ First \in Nat /\ Hole = First * MMUC
  BY FormalAssumption, HoleIsRoundedUp DEF Hole
<1>2. First * MMUC <= k * MMUC
  BY <1>1
<1> QED
  BY <1>1, <1>2 DEF Truncation!Span

\* Every step of the truncation keeps the invariant.
LEMMA TruncateStep == ASSUME TruncateInv, Truncation!Next PROVE TruncateInv'
<1> USE DEF TruncateInv
<1>1. /\ First \in 1..NCLUST /\ Hole \in Nat /\ NCLUST \in Nat
  BY FormalAssumption, HoleIsRoundedUp
<1>2. First' = First /\ Hole' = Hole
  BY DEF Truncation!Next, Truncation!UnmapHole, Truncation!RemoveFolio, Truncation!Truncated, Truncation!Finished,
         Truncation!vars, First, Hole, Truncation!start_cluster
<1>3. CASE Truncation!UnmapHole
  BY <1>1, <1>2, <1>3 DEF Truncation!UnmapHole, Truncation!hole_start_sub, First, Hole
<1>4. CASE Truncation!RemoveFolio
  <2>1. file_pte' = file_pte
    <3>1. c \in Nat /\ First <= c /\ file_pte' = file_pte \ Truncation!Span(c)
      BY <1>1, <1>4 DEF Truncation!RemoveFolio
    <3>2. \A i \in Truncation!Span(c) : i >= Hole
      BY <3>1, BeyondTheHole
    <3>3. \A i \in file_pte : i \in Nat /\ i < Hole
      BY <1>1, <1>4 DEF Truncation!RemoveFolio, Truncation!Sub
    <3>4. file_pte \cap Truncation!Span(c) = {}
      BY <1>1, <3>2, <3>3
    <3> QED
      BY <3>1, <3>4
  <2> QED
    BY <1>1, <1>2, <1>4, <2>1 DEF Truncation!RemoveFolio, Truncation!More, Truncation!Dropped
<1>5. CASE Truncation!Truncated
  BY <1>1, <1>2, <1>5 DEF Truncation!Truncated
<1>6. CASE Truncation!Finished
  BY <1>2, <1>6 DEF Truncation!Finished, Truncation!vars
<1> QED
  BY <1>3, <1>4, <1>5, <1>6 DEF Truncation!Next

\* A step of another program changes nothing here.
LEMMA TruncateStutter == ASSUME TruncateInv, UNCHANGED truncate PROVE TruncateInv'
  BY DEF truncate, TruncateInv, First, Hole, Truncation!start_cluster

\* A cluster leaves the cache only beyond the new end, and before the new end
\* nothing is unmapped.
LEMMA TruncateKeeps == TruncateInv => Truncation!RemovedIsUnmapped /\ Truncation!FileIsKept
<1> SUFFICES ASSUME TruncateInv PROVE Truncation!RemovedIsUnmapped /\ Truncation!FileIsKept
  OBVIOUS
<1> USE DEF TruncateInv
<1>1. /\ First \in 1..NCLUST /\ Hole \in Nat /\ newsize_mmu <= Hole
      /\ NCLUST \in Nat /\ MMUC \in Nat /\ MMUC > 0 /\ newsize_mmu \in Nat /\ newsize_mmu <= NCLUST * MMUC
  BY FormalAssumption, HoleIsRoundedUp DEF Truncation!FileSubs
<1>2. Truncation!RemovedIsUnmapped
  <2> SUFFICES ASSUME NEW k \in 0..(NCLUST - 1), k \notin file_xslot PROVE file_pte \cap Truncation!Span(k) = {}
    BY DEF Truncation!RemovedIsUnmapped
  <2>1. file_pc # "unmap" /\ k >= First
    BY <1>1
  <2>2. \A i \in Truncation!Span(k) : i >= Hole
    BY <1>1, <2>1, BeyondTheHole
  <2>3. \A i \in file_pte : i \in Nat /\ i < Hole
    BY <1>1, <2>1 DEF Truncation!Sub
  <2> QED
    BY <1>1, <2>2, <2>3
<1>3. Truncation!FileIsKept
  <2> SUFFICES ASSUME NEW i \in 0..(newsize_mmu - 1) PROVE i \in file_pte /\ i \div MMUC \in file_xslot
    BY DEF Truncation!FileIsKept
  <2>1. i \in Nat /\ i < Hole /\ i < NCLUST * MMUC
    BY <1>1
  <2>2. i \div MMUC \in Nat /\ MMUC * (i \div MMUC) <= i
    BY <1>1, <2>1
  <2>3. i \div MMUC < First
    <3> DEFINE q == i \div MMUC
    <3> SUFFICES ASSUME q >= First PROVE FALSE
      BY <1>1, <2>2
    <3>1. q \in Nat /\ MMUC * q <= i
      BY <2>2
    <3> HIDE DEF q
    <3>2. MMUC * First <= MMUC * q
      BY <1>1, <3>1
    <3> QED
      BY <1>1, <2>1, <3>1, <3>2 DEF Hole
  <2>4. i \in Truncation!Sub
    BY <1>1, <2>1 DEF Truncation!Sub, Truncation!FileSubs
  <2> QED
    BY <1>1, <2>1, <2>2, <2>3, <2>4
<1> QED
  BY <1>2, <1>3

----------------------------------------------------------------------------
(* The steps on the page-cache reference.                                   *)

\* The module of the gate programs counts with the same operator.
LEMMA SameGateCount == \A S : Gate!Cardinality(S) = Cardinality(S)
  BY DEF Gate!Cardinality, Cardinality

\* The builds never combine the zap with the fault, reclaim or truncation, nor
\* the walk or the dropper P with reclaim or truncation.
LEMMA WhoIsLive ==
  ASSUME GateType
  PROVE  /\ "Z" \in Live => "F" \notin Live /\ "R" \notin Live /\ "T" \notin Live
         /\ Gate!Zm \in Gate!Mm
  BY DEF GateType, Live, Gate!Live, Gate!Zm, Gate!Mm

\* The page tables hold finitely many sub-PTEs.
LEMMA GateFinite ==
  ASSUME GateType
  PROVE  /\ IsFiniteSet(gate_pte[0]) /\ IsFiniteSet(gate_pte[1])
         /\ Cardinality(gate_pte[0]) \in Nat /\ Cardinality(gate_pte[1]) \in Nat
         /\ Gate!PresentCount = Cardinality(gate_pte[0]) + Cardinality(gate_pte[1])
         /\ Gate!PresentCount \in Nat
<1>1. IsFiniteSet(Gate!Sub)
  BY FormalAssumption, FS_Interval DEF Gate!Sub
<1>2. gate_pte[0] \in SUBSET Gate!Sub /\ gate_pte[1] \in SUBSET Gate!Sub
  BY DEF GateType, Gate!Mm
<1>3. IsFiniteSet(gate_pte[0]) /\ IsFiniteSet(gate_pte[1])
  BY <1>1, <1>2, FS_Subset
<1>4. Cardinality(gate_pte[0]) \in Nat /\ Cardinality(gate_pte[1]) \in Nat
  BY <1>3, FS_CardinalityType
<1> QED
  BY <1>3, <1>4, SameGateCount DEF Gate!PresentCount

\* SetRef, as a condition on the count and the flag.
LEMMA SetRefEffect ==
  ASSUME NEW n, Gate!SetRef(n)
  PROVE  /\ gate_ref' = n /\ gate_freed' \in BOOLEAN
         /\ gate_freed' <=> gate_freed \/ n = 0
  BY Zenon DEF Gate!SetRef

\* A folio has at least two sub-PTEs.
LEMMA SubCount ==
  NSUB \in Nat /\ NSUB >= 2 /\ Cardinality(Gate!Sub) = NSUB /\ Cardinality({}) = 0
<1>1. NSUB \in Nat /\ NSUB >= 2
  BY FormalAssumption
<1>2. Cardinality(0..(NSUB - 1)) = NSUB
  BY <1>1, FS_Interval
<1> QED
  BY <1>1, <1>2, FS_EmptySet DEF Gate!Sub

\* The invariant holds of the initial states of all seven builds.
LEMMA GateInit == Gate!Init => GateInv
<1> SUFFICES ASSUME Gate!Init PROVE GateInv
  OBVIOUS
<1> USE FormalAssumption DEF Gate!Init
<1>1. GateType
  <2>1. gate_pte \in [Gate!Mm -> SUBSET Gate!Sub] /\ rmap \in [Gate!Mm -> SUBSET Gate!Sub]
    OBVIOUS
  <2>2. gate_pc \in [Gate!Actor -> {0, 1, 2, 3, Gate!Done}]
    OBVIOUS
  <2>3. \A a \in Gate!Actor : gate_pc[a] \in {0, Gate!Done} /\ (a \notin Live => gate_pc[a] = Gate!Done)
    BY DEF Live
  <2>4. gate_pc["P"] # 3
    BY <2>3 DEF Gate!Actor, Gate!Done
  <2>5. gate_ref \in Int
    OBVIOUS
  <2> QED
    BY <2>1, <2>2, <2>3, <2>4, <2>5 DEF GateType
<1>2. LockOwner
  BY DEF LockOwner, Gate!Actor, Gate!Done, Gate!Unlocked
<1>3. GateMaps
  BY DEF GateMaps, Live, Gate!Live, Gate!Mm, Gate!Fm, Gate!Actor, Gate!Done
<1>4. GateRefs
  <2>1. Cardinality(Gate!Sub) = NSUB /\ Cardinality({}) = 0 /\ NSUB \in Nat
    BY SubCount
  <2>2. /\ gate_pte[0] = Gate!Sub
        /\ gate_pte[1] = IF "F" \in Gate!Live[gate_scenario] THEN {} ELSE Gate!Sub
    BY DEF Gate!Mm, Gate!Fm
  <2>3. Gate!PresentCount = IF "F" \in Gate!Live[gate_scenario] THEN NSUB ELSE 2 * NSUB
    BY <2>1, <2>2, SameGateCount DEF Gate!PresentCount
  <2>4. Gate!LookupRef = 0 /\ Gate!ZapRef = 0
    BY DEF Gate!LookupRef, Gate!ZapRef, Gate!Actor, Gate!Done
  <2> QED
    BY <2>1, <2>3, <2>4 DEF GateRefs, Gate!RefsExact
<1> QED
  BY <1>1, <1>2, <1>3, <1>4 DEF GateInv

\* A step of another program changes nothing here.
LEMMA GateStutter == ASSUME GateInv, UNCHANGED gate PROVE GateInv'
  BY DEF gate, GateInv, GateType, Live, LockOwner, GateMaps, GateRefs, Gate!folio_mapped,
         Gate!RefsExact, Gate!PresentCount, Gate!LookupRef, Gate!ZapRef, Gate!Zm

\* Steps that change the place of one actor, the lock and the walk only: the
\* references are those of before.
LEMMA SameRefs ==
  ASSUME GateInv, UNCHANGED <<gate_pte, rmap, gate_ref, in_cache, gate_freed, Z_nr>>,
         Gate!LookupRef' = Gate!LookupRef, Gate!ZapRef' = Gate!ZapRef
  PROVE  GateRefs'
  BY DEF GateInv, GateRefs, Gate!RefsExact, Gate!PresentCount, Gate!folio_mapped

\* The fault.
LEMMA GateFault == ASSUME GateInv, Gate!F PROVE GateInv'
<1> USE FormalAssumption
<1> USE DEF GateInv, GateType, Live, LockOwner, GateMaps, Gate!Actor, Gate!Done, Gate!Unlocked,
            Gate!At, Gate!Goto, Gate!Zm, Gate!Fm, Gate!folio_mapped
<1>1. CASE Gate!FLookup
  <2>1. GateType' /\ LockOwner' /\ GateMaps'
    BY <1>1, SetRefEffect DEF Gate!FLookup, Gate!SetRef
  <2>2. GateRefs'
    <3>1. CASE in_cache
      BY <1>1, <3>1, GateFinite, SetRefEffect
      DEF Gate!FLookup, GateRefs, Gate!RefsExact, Gate!PresentCount, Gate!LookupRef, Gate!ZapRef
    <3>2. CASE ~in_cache
      BY <1>1, <3>2 DEF Gate!FLookup, GateRefs, Gate!RefsExact
    <3> QED
      BY <3>1, <3>2
  <2> QED
    BY <2>1, <2>2
<1>2. CASE Gate!FLock
  <2>1. GateType' /\ LockOwner' /\ GateMaps'
    BY <1>2 DEF Gate!FLock, Gate!MayLock
  <2>2. GateRefs'
    BY <1>2, SameRefs DEF Gate!FLock, Gate!LookupRef, Gate!ZapRef
  <2> QED
    BY <2>1, <2>2
<1>3. CASE Gate!FGone
  <2>1. GateType' /\ LockOwner' /\ GateMaps'
    BY <1>3, SetRefEffect DEF Gate!FGone, Gate!SetRef
  <2>2. GateRefs'
    BY <1>3 DEF Gate!FGone, GateRefs, Gate!RefsExact
  <2> QED
    BY <2>1, <2>2
<1>4. CASE Gate!FInstall
  <2>1. /\ "F" \in Live /\ "Z" \notin Live /\ gate_pc["Z"] = 9 /\ in_cache /\ ~gate_freed
        /\ gate_pte[1] = {} /\ gate_pc["F"] = 2
    BY <1>4, WhoIsLive DEF Gate!FInstall, GateRefs
  <2>2. /\ gate_pte' = [gate_pte EXCEPT ![1] = Gate!Sub] /\ rmap' = [rmap EXCEPT ![1] = Gate!Sub]
        /\ gate_pc' = [gate_pc EXCEPT !["F"] = 3]
        /\ gate_ref' = gate_ref + (NSUB - 1) /\ gate_freed' \in BOOLEAN
        /\ gate_freed' <=> gate_freed \/ gate_ref' = 0
        /\ UNCHANGED <<gate_scenario, in_cache, folio_lock, U_start, Z_nr>>
    BY <1>4, SetRefEffect DEF Gate!FInstall, Gate!InstallRefs
  <2>3. GateType'
    BY <2>1, <2>2 DEF Gate!Mm
  <2>4. LockOwner'
    BY <2>1, <2>2
  <2>5. GateMaps'
    BY <2>1, <2>2 DEF Gate!Mm
  <2>6. GateRefs'
    <3>1. Cardinality(Gate!Sub) = NSUB /\ Cardinality({}) = 0 /\ NSUB \in Nat /\ NSUB >= 2
      BY SubCount
    <3>2. gate_pte'[0] = gate_pte[0] /\ gate_pte'[1] = Gate!Sub
      BY <2>2 DEF Gate!Mm
    <3>3. Gate!PresentCount' = Gate!PresentCount + NSUB /\ Gate!PresentCount \in Nat
      BY <2>1, <3>1, <3>2, GateFinite, SameGateCount DEF Gate!PresentCount
    <3>4. Gate!LookupRef = 1 /\ Gate!LookupRef' = 0 /\ Gate!ZapRef = 0 /\ Gate!ZapRef' = 0
      BY <2>1, <2>2 DEF Gate!LookupRef, Gate!ZapRef
    <3>5. gate_ref = 1 + Gate!PresentCount + 1
      BY <2>1, <3>3, <3>4 DEF GateRefs, Gate!RefsExact
    <3> QED
      BY <2>1, <2>2, <3>1, <3>3, <3>4, <3>5 DEF GateRefs, Gate!RefsExact
  <2> QED
    BY <2>3, <2>4, <2>5, <2>6
<1>5. CASE Gate!FUnlock
  <2>1. GateType' /\ LockOwner' /\ GateMaps'
    BY <1>5 DEF Gate!FUnlock, Gate!Unlock
  <2>2. GateRefs'
    BY <1>5, SameRefs DEF Gate!FUnlock, Gate!LookupRef, Gate!ZapRef
  <2> QED
    BY <2>1, <2>2
<1> QED
  BY <1>1, <1>2, <1>3, <1>4, <1>5 DEF Gate!F

\* Reclaim, truncation and the dropper take the lock, or stop.
LEMMA GateLock == ASSUME GateInv, NEW a \in {"R", "T", "P"}, Gate!LockOrStop(a) PROVE GateInv'
<1> USE DEF GateInv, GateType, Live, LockOwner, GateMaps, Gate!Actor, Gate!Done, Gate!Unlocked,
            Gate!At, Gate!Goto, Gate!Zm, Gate!Fm, Gate!folio_mapped, Gate!LockOrStop, Gate!MayLock
<1>1. GateType'
  OBVIOUS
<1>2. LockOwner'
  OBVIOUS
<1>3. GateMaps'
  OBVIOUS
<1>4. GateRefs'
  BY SameRefs DEF Gate!LookupRef, Gate!ZapRef
<1> QED
  BY <1>1, <1>2, <1>3, <1>4

\* Nothing that is mapped and counted stays mapped when everything is unmapped,
\* and the references go with the entries.
LEMMA UnmapAllEffect ==
  ASSUME GateInv, in_cache, Gate!UnmapAll,
         UNCHANGED <<gate_scenario, in_cache, Z_nr>>,
         Gate!LookupRef' = Gate!LookupRef, Gate!ZapRef' = Gate!ZapRef, Gate!ZapRef \in Nat
  PROVE  /\ gate_pte' = [m \in Gate!Mm |-> {}]
         /\ rmap' = [m \in Gate!Mm |-> rmap[m] \ gate_pte[m]]
         /\ gate_ref' \in Int /\ gate_freed' \in BOOLEAN
         /\ GateRefs'
<1>1. /\ gate_pte' = [m \in Gate!Mm |-> {}]
      /\ rmap' = [m \in Gate!Mm |-> rmap[m] \ gate_pte[m]]
      /\ gate_ref' = gate_ref - Gate!PresentCount /\ gate_freed' \in BOOLEAN
      /\ gate_freed' <=> gate_freed \/ gate_ref' = 0
  BY SetRefEffect DEF Gate!UnmapAll
<1>2. Gate!PresentCount' = 0
  BY <1>1, SubCount, SameGateCount DEF Gate!PresentCount, Gate!Mm
<1>3. Gate!PresentCount \in Nat /\ Gate!LookupRef \in Nat
  BY GateFinite DEF GateInv, Gate!LookupRef
<1>4. gate_ref = 1 + Gate!PresentCount + Gate!LookupRef + Gate!ZapRef /\ ~gate_freed
  BY DEF GateInv, GateRefs, Gate!RefsExact
<1>5. gate_ref' = 1 + Gate!LookupRef + Gate!ZapRef
  BY <1>1, <1>3, <1>4
<1> QED
  BY <1>1, <1>2, <1>3, <1>4, <1>5 DEF GateRefs, Gate!RefsExact

\* Reclaim and the dropper unmap what the map count says is mapped.
LEMMA GateUnmap == ASSUME GateInv, NEW a \in {"R", "P"}, Gate!UnmapIfMapped(a) PROVE GateInv'
<1> USE DEF GateInv, GateType, Live, LockOwner, GateMaps, Gate!Actor, Gate!Done, Gate!Unlocked,
            Gate!At, Gate!Goto, Gate!Zm, Gate!Fm, Gate!UnmapIfMapped
<1>1. /\ gate_pc[a] = 1 /\ gate_pc' = [gate_pc EXCEPT ![a] = 2] /\ in_cache
      /\ UNCHANGED <<gate_scenario, in_cache, folio_lock, U_start, Z_nr>>
  OBVIOUS
<1>2. Gate!LookupRef' = Gate!LookupRef /\ Gate!ZapRef' = Gate!ZapRef /\ Gate!ZapRef \in Nat
  BY <1>1 DEF Gate!LookupRef, Gate!ZapRef
<1>3. CASE Gate!folio_mapped
  <2>1. /\ gate_pte' = [m \in Gate!Mm |-> {}]
        /\ rmap' = [m \in Gate!Mm |-> rmap[m] \ gate_pte[m]]
        /\ gate_ref' \in Int /\ gate_freed' \in BOOLEAN
        /\ GateRefs'
    BY <1>1, <1>2, <1>3, UnmapAllEffect
  <2>2. GateType' /\ LockOwner'
    BY <1>1, <2>1
  <2>3. GateMaps'
    <3>1. \A m \in Gate!Mm : gate_pte'[m] \subseteq rmap'[m]
      BY <2>1
    <3>2. \A m \in Gate!Mm : m # Gate!Zm' \/ gate_pc'["Z"] # 1 => gate_pte'[m] = rmap'[m]
      BY <1>1, <2>1
    <3>3. gate_pc'["T"] \notin {2, 3} /\ gate_pc'["R"] # 3
      BY <1>1
    <3> QED
      BY <1>1, <2>1, <3>1, <3>2, <3>3 DEF Gate!Mm
  <2> QED
    BY <2>1, <2>2, <2>3
<1>4. CASE ~Gate!folio_mapped
  <2>1. UNCHANGED <<gate_pte, rmap, gate_ref, gate_freed>>
    BY <1>4
  <2>2. GateType' /\ LockOwner' /\ GateMaps'
    BY <1>1, <2>1 DEF Gate!folio_mapped
  <2>3. GateRefs'
    BY <1>1, <1>2, <2>1, SameRefs
  <2> QED
    BY <2>2, <2>3
<1> QED
  BY <1>3, <1>4

\* Reclaim.
LEMMA GateReclaim == ASSUME GateInv, Gate!R PROVE GateInv'
<1> USE DEF GateInv, GateType, Live, LockOwner, GateMaps, Gate!Actor, Gate!Done, Gate!Unlocked,
            Gate!At, Gate!Goto, Gate!Zm, Gate!Fm, Gate!Unlock
<1>1. CASE Gate!RKeep
  <2>1. GateType' /\ LockOwner'
    BY <1>1 DEF Gate!RKeep
  <2>2. GateMaps'
    BY <1>1 DEF Gate!RKeep, Gate!folio_mapped
  <2>3. GateRefs'
    BY <1>1, SameRefs DEF Gate!RKeep, Gate!LookupRef, Gate!ZapRef
  <2> QED
    BY <2>1, <2>2, <2>3
<1>2. CASE Gate!RFreeze
  <2>1. gate_ref' \in Int /\ gate_freed' \in BOOLEAN /\ in_cache' \in BOOLEAN
    <3>1. CASE gate_ref = Gate!Expected
      <4>1. Gate!SetRef(0) /\ in_cache' \in BOOLEAN
        BY <1>2, <3>1 DEF Gate!RFreeze
      <4> QED
        BY <4>1, SetRefEffect
    <3>2. CASE gate_ref # Gate!Expected
      BY <1>2, <3>2 DEF Gate!RFreeze
    <3> QED
      BY <3>1, <3>2
  <2>2. GateType' /\ LockOwner'
    BY <1>2, <2>1 DEF Gate!RFreeze
  <2>3. GateMaps'
    BY <1>2 DEF Gate!RFreeze, Gate!folio_mapped
  <2>4. GateRefs'
    <3>1. CASE gate_ref = Gate!Expected
      <4>1. ~in_cache' /\ ~Gate!folio_mapped'
        BY <1>2, <3>1 DEF Gate!RFreeze, Gate!folio_mapped
      <4> QED
        BY <4>1 DEF GateRefs, Gate!RefsExact
    <3>2. CASE gate_ref # Gate!Expected
      BY <1>2, <3>2, SameRefs DEF Gate!RFreeze, Gate!LookupRef, Gate!ZapRef
    <3> QED
      BY <3>1, <3>2
  <2> QED
    BY <2>2, <2>3, <2>4
<1> QED
  BY <1>1, <1>2, GateLock, GateUnmap DEF Gate!R

\* Truncation.
LEMMA GateTruncate == ASSUME GateInv, Gate!T PROVE GateInv'
<1> USE DEF GateInv, GateType, Live, LockOwner, GateMaps, Gate!Actor, Gate!Done, Gate!Unlocked,
            Gate!At, Gate!Goto, Gate!Zm, Gate!Fm, Gate!Unlock
<1>1. CASE Gate!TUnmap
  <2>1. /\ gate_pc["T"] = 1 /\ gate_pc' = [gate_pc EXCEPT !["T"] = 2] /\ in_cache
        /\ UNCHANGED <<gate_scenario, in_cache, folio_lock, U_start, Z_nr>>
    BY <1>1 DEF Gate!TUnmap
  <2>2. Gate!LookupRef' = Gate!LookupRef /\ Gate!ZapRef' = Gate!ZapRef /\ Gate!ZapRef \in Nat
    BY <2>1 DEF Gate!LookupRef, Gate!ZapRef
  <2>3. /\ gate_pte' = [m \in Gate!Mm |-> {}]
        /\ rmap' = [m \in Gate!Mm |-> rmap[m] \ gate_pte[m]]
        /\ gate_ref' \in Int /\ gate_freed' \in BOOLEAN
        /\ GateRefs'
    BY <1>1, <2>1, <2>2, UnmapAllEffect DEF Gate!TUnmap
  <2>4. GateType' /\ LockOwner'
    BY <2>1, <2>3
  <2>5. GateMaps'
    <3>1. gate_pc["Z"] = 9
      BY <2>1, WhoIsLive
    <3>2. \A m \in Gate!Mm : gate_pte'[m] = {} /\ rmap'[m] = {}
      BY <2>3, <3>1
    <3> QED
      BY <2>1, <3>2 DEF Gate!Mm, Gate!folio_mapped
  <2> QED
    BY <2>3, <2>4, <2>5
<1>2. CASE Gate!TRemove
  <2>1. gate_ref' \in Int /\ gate_freed' \in BOOLEAN
    BY <1>2, SetRefEffect DEF Gate!TRemove
  <2>2. /\ gate_pc["T"] = 2 /\ gate_pc' = [gate_pc EXCEPT !["T"] = 3] /\ ~in_cache' /\ in_cache' \in BOOLEAN
        /\ UNCHANGED <<gate_scenario, gate_pte, rmap, folio_lock, U_start, Z_nr>>
    BY <1>2 DEF Gate!TRemove
  <2>3. GateType'
    BY <2>1, <2>2
  <2>4. LockOwner'
    BY <2>2
  <2>5. GateMaps' /\ GateRefs'
    BY <2>2 DEF Gate!folio_mapped, GateRefs, Gate!RefsExact
  <2> QED
    BY <2>3, <2>4, <2>5
<1>3. CASE Gate!TRelease
  <2>1. gate_ref' \in Int /\ gate_freed' \in BOOLEAN
    BY <1>3, SetRefEffect DEF Gate!TRelease
  <2>2. GateType' /\ LockOwner'
    BY <1>3, <2>1 DEF Gate!TRelease
  <2>3. GateMaps'
    BY <1>3 DEF Gate!TRelease, Gate!folio_mapped
  <2>4. GateRefs'
    BY <1>3 DEF Gate!TRelease, Gate!folio_mapped, GateRefs, Gate!RefsExact
  <2> QED
    BY <2>2, <2>3, <2>4
<1> QED
  BY <1>1, <1>2, <1>3, GateLock DEF Gate!T

\* The dropper.
LEMMA GateDropper == ASSUME GateInv, Gate!P PROVE GateInv'
<1> USE DEF GateInv, GateType, Live, LockOwner, GateMaps, Gate!Actor, Gate!Done, Gate!Unlocked,
            Gate!At, Gate!Goto, Gate!Zm, Gate!Fm, Gate!Unlock
<1>1. CASE Gate!PDrop
  <2>1. /\ gate_pc["P"] = 2 /\ gate_pc' = [gate_pc EXCEPT !["P"] = 9] /\ folio_lock' = "none" /\ in_cache
        /\ in_cache' \in BOOLEAN /\ (in_cache' <=> Gate!folio_mapped)
        /\ UNCHANGED <<gate_scenario, gate_pte, rmap, U_start, Z_nr>>
    BY <1>1 DEF Gate!PDrop, Gate!Gate
  <2>2. gate_ref' \in Int /\ gate_freed' \in BOOLEAN
    <3>1. CASE in_cache'
      BY <1>1, <3>1 DEF Gate!PDrop
    <3>2. CASE ~in_cache'
      BY <1>1, <3>2, SetRefEffect DEF Gate!PDrop
    <3> QED
      BY <3>1, <3>2
  <2>3. GateType' /\ LockOwner'
    BY <2>1, <2>2
  <2>4. GateMaps'
    BY <2>1 DEF Gate!folio_mapped
  <2>5. GateRefs'
    <3>1. CASE in_cache'
      BY <1>1, <2>1, <3>1, SameRefs DEF Gate!PDrop, Gate!LookupRef, Gate!ZapRef
    <3>2. CASE ~in_cache'
      BY <2>1, <3>2 DEF GateRefs, Gate!RefsExact, Gate!folio_mapped
    <3> QED
      BY <3>1, <3>2
  <2> QED
    BY <2>3, <2>4, <2>5
<1> QED
  BY <1>1, GateLock, GateUnmap DEF Gate!P

\* A batch takes as many references as it clears entries.
LEMMA RunIsPresent ==
  ASSUME GateType
  PROVE  /\ Gate!Run \subseteq gate_pte[0]
         /\ IsFiniteSet(Gate!Run) /\ Cardinality(Gate!Run) \in Nat
         /\ Cardinality(gate_pte[0] \ Gate!Run) = Cardinality(gate_pte[0]) - Cardinality(Gate!Run)
<1>1. Gate!Run \subseteq gate_pte[0]
  <2> SUFFICES ASSUME NEW i \in Gate!Run PROVE i \in gate_pte[0]
    OBVIOUS
  <2>1. U_start \in Int /\ Gate!U_end \in Int
    BY FormalAssumption DEF GateType, Gate!U_end
  <2>2. i \in U_start..i
    BY <2>1 DEF Gate!Run
  <2> QED
    BY <2>2 DEF Gate!Run, Gate!Um
<1>2. IsFiniteSet(gate_pte[0])
  BY GateFinite
<1>3. IsFiniteSet(Gate!Run) /\ Cardinality(Gate!Run) \in Nat
  BY <1>1, <1>2, FS_Subset, FS_CardinalityType
<1>4. Cardinality(gate_pte[0] \ Gate!Run) = Cardinality(gate_pte[0]) - Cardinality(gate_pte[0] \cap Gate!Run)
  BY <1>2, FS_Difference
<1>5. gate_pte[0] \cap Gate!Run = Gate!Run
  BY <1>1
<1> QED
  BY <1>1, <1>3, <1>4, <1>5

\* The walk.
LEMMA GateWalk == ASSUME GateInv, Gate!U PROVE GateInv'
<1> USE DEF GateInv, GateType, Live, LockOwner, GateMaps, Gate!Actor, Gate!Done, Gate!Unlocked,
            Gate!At, Gate!Goto, Gate!Zm, Gate!Fm
<1>1. CASE Gate!UStart
  <2>1. GateType' /\ LockOwner' /\ GateMaps'
    BY <1>1 DEF Gate!UStart, Gate!folio_mapped
  <2>2. GateRefs'
    BY <1>1, SameRefs DEF Gate!UStart, Gate!LookupRef, Gate!ZapRef
  <2> QED
    BY <2>1, <2>2
<1>2. CASE Gate!UBatch
  <2> DEFINE n == Cardinality(Gate!Run)
  <2>1. n \in Nat /\ Gate!Cardinality(Gate!Run) = n
    BY RunIsPresent, SameGateCount
  <2>2. /\ rmap' = [rmap EXCEPT ![0] = @ \ Gate!Run]
        /\ gate_pte' = [gate_pte EXCEPT ![0] = @ \ Gate!Run]
        /\ gate_pc["U"] = 1 /\ (gate_pc' = [gate_pc EXCEPT !["U"] = 1] \/ gate_pc' = [gate_pc EXCEPT !["U"] = 2])
        /\ UNCHANGED <<gate_scenario, in_cache, folio_lock, Z_nr>>
    BY <1>2 DEF Gate!UBatch, Gate!UClear, Gate!Um
  <2>3. gate_ref' = gate_ref - n /\ gate_freed' \in BOOLEAN /\ (gate_freed' <=> gate_freed \/ gate_ref' = 0)
    BY <1>2, <2>1, SetRefEffect DEF Gate!UBatch
  <2>4. U_start' \in Nat
    BY <1>2, <2>1 DEF Gate!UBatch, Gate!Hole
  <2> HIDE DEF n
  <2>5. GateType'
    BY <2>1, <2>2, <2>3, <2>4 DEF Gate!Mm
  <2>6. LockOwner'
    BY <2>2
  <2>7. GateMaps'
    BY <2>2 DEF Gate!Mm, Gate!folio_mapped
  <2>8. GateRefs'
    <3>1. gate_pte'[0] = gate_pte[0] \ Gate!Run /\ gate_pte'[1] = gate_pte[1]
      BY <2>2 DEF Gate!Mm
    <3>2. Gate!PresentCount' = Gate!PresentCount - n /\ Gate!PresentCount \in Nat /\ Gate!PresentCount' \in Nat
      <4>1. Cardinality(gate_pte[0] \ Gate!Run) = Cardinality(gate_pte[0]) - n
        BY RunIsPresent DEF n
      <4>2. /\ Cardinality(gate_pte[0]) \in Nat /\ Cardinality(gate_pte[1]) \in Nat
            /\ Cardinality(gate_pte[0] \ Gate!Run) \in Nat
        BY GateFinite, FS_Difference, FS_CardinalityType
      <4>3. Gate!PresentCount' = Cardinality(gate_pte[0] \ Gate!Run) + Cardinality(gate_pte[1])
        BY <3>1, SameGateCount DEF Gate!PresentCount
      <4>4. Gate!PresentCount = Cardinality(gate_pte[0]) + Cardinality(gate_pte[1])
        BY SameGateCount DEF Gate!PresentCount
      <4> QED
        BY <2>1, <4>1, <4>2, <4>3, <4>4
    <3>3. /\ Gate!LookupRef' = Gate!LookupRef /\ Gate!ZapRef' = Gate!ZapRef
          /\ Gate!LookupRef \in Nat /\ Gate!ZapRef \in Nat
      BY <2>2 DEF Gate!LookupRef, Gate!ZapRef
    <3>4. ~Gate!folio_mapped => ~Gate!folio_mapped'
      BY <2>2 DEF Gate!folio_mapped, Gate!Mm
    <3> QED
      BY <2>1, <2>2, <2>3, <3>2, <3>3, <3>4 DEF GateRefs, Gate!RefsExact
  <2> QED
    BY <2>5, <2>6, <2>7, <2>8
<1>3. CASE Gate!UNextTable
  <2>1. GateType' /\ LockOwner' /\ GateMaps'
    BY <1>3 DEF Gate!UNextTable, Gate!folio_mapped
  <2>2. GateRefs'
    BY <1>3, SameRefs DEF Gate!UNextTable, Gate!LookupRef, Gate!ZapRef
  <2> QED
    BY <2>1, <2>2
<1> QED
  BY <1>1, <1>2, <1>3 DEF Gate!U

\* The zap.
LEMMA GateZap == ASSUME GateInv, Gate!Z PROVE GateInv'
<1> USE DEF GateInv, GateType, Live, LockOwner, GateMaps, Gate!Actor, Gate!Done, Gate!Unlocked,
            Gate!At, Gate!Goto, Gate!Fm
<1>1. Gate!Zm \in Gate!Mm /\ (gate_pc["Z"] # 9 => "Z" \in Live /\ "F" \notin Live /\ "T" \notin Live /\ "R" \notin Live)
  BY WhoIsLive
<1>2. CASE Gate!ZClear
  <2>1. /\ gate_pc["Z"] = 0 /\ gate_pc' = [gate_pc EXCEPT !["Z"] = 1] /\ Gate!Zm' = Gate!Zm
        /\ Z_nr' = Cardinality(gate_pte[Gate!Zm]) /\ gate_pte' = [gate_pte EXCEPT ![Gate!Zm] = {}]
        /\ UNCHANGED <<gate_scenario, rmap, gate_ref, in_cache, folio_lock, gate_freed, U_start>>
    BY <1>2, SameGateCount DEF Gate!ZClear, Gate!Zm
  <2>2. Z_nr' \in Nat /\ Gate!PresentCount \in Nat /\ Gate!PresentCount' \in Nat
        /\ Gate!PresentCount' + Z_nr' = Gate!PresentCount
    <3>1. CASE Gate!Zm = 0
      BY <2>1, <3>1, GateFinite, SameGateCount, FS_EmptySet DEF Gate!PresentCount, Gate!Mm
    <3>2. CASE Gate!Zm = 1
      BY <2>1, <3>2, GateFinite, SameGateCount, FS_EmptySet DEF Gate!PresentCount, Gate!Mm
    <3> QED
      BY <1>1, <3>1, <3>2 DEF Gate!Mm
  <2>3. GateType' /\ LockOwner'
    BY <1>1, <2>1, <2>2
  <2>4. GateMaps'
    BY <1>1, <2>1 DEF Gate!folio_mapped
  <2>5. GateRefs'
    <3>1. /\ Gate!ZapRef = 0 /\ Gate!ZapRef' = Z_nr'
          /\ Gate!LookupRef' = Gate!LookupRef /\ Gate!LookupRef \in Nat
      BY <2>1 DEF Gate!LookupRef, Gate!ZapRef
    <3>2. Gate!folio_mapped' = Gate!folio_mapped
      BY <2>1 DEF Gate!folio_mapped
    <3>3. CASE in_cache
      <4> DEFINE p == Gate!PresentCount
                 q == Gate!PresentCount'
                 l == Gate!LookupRef
                 z == Z_nr'
      <4>1. p \in Nat /\ q \in Nat /\ z \in Nat /\ l \in Nat /\ q + z = p
        BY <2>2, <3>1
      <4>2. gate_ref = 1 + p + l + 0 /\ ~gate_freed
        BY <3>1, <3>3 DEF GateRefs, Gate!RefsExact
      <4> HIDE DEF p, q, l, z
      <4>3. gate_ref = 1 + q + l + z
        BY ONLY <4>1, <4>2
      <4>4. Gate!RefsExact'
        BY <2>1, <3>1, <4>3 DEF Gate!RefsExact, q, l, z
      <4> QED
        BY <2>1, <3>3, <4>2, <4>4 DEF GateRefs
    <3>4. CASE ~in_cache
      BY <2>1, <3>2, <3>4 DEF GateRefs, Gate!RefsExact
    <3> QED
      BY <3>3, <3>4
  <2> QED
    BY <2>3, <2>4, <2>5
<1>3. CASE Gate!ZRmap
  <2>1. /\ gate_pc["Z"] = 1 /\ gate_pc' = [gate_pc EXCEPT !["Z"] = 2] /\ Gate!Zm' = Gate!Zm
        /\ rmap' = [rmap EXCEPT ![Gate!Zm] = {}]
        /\ UNCHANGED <<gate_scenario, gate_pte, gate_ref, in_cache, folio_lock, gate_freed, U_start, Z_nr>>
    BY <1>3 DEF Gate!ZRmap, Gate!Zm
  <2>2. GateType' /\ LockOwner'
    BY <1>1, <2>1
  <2>3. GateMaps'
    BY <1>1, <2>1 DEF Gate!folio_mapped
  <2>4. GateRefs'
    BY <1>1, <2>1 DEF GateRefs, Gate!RefsExact, Gate!PresentCount, Gate!LookupRef, Gate!ZapRef, Gate!folio_mapped
  <2> QED
    BY <2>2, <2>3, <2>4
<1>4. CASE Gate!ZPut
  <2>1. /\ gate_pc["Z"] = 2 /\ gate_pc' = [gate_pc EXCEPT !["Z"] = 9] /\ Gate!Zm' = Gate!Zm
        /\ gate_ref' = gate_ref - Z_nr /\ gate_freed' \in BOOLEAN /\ (gate_freed' <=> gate_freed \/ gate_ref' = 0)
        /\ UNCHANGED <<gate_scenario, gate_pte, rmap, in_cache, folio_lock, U_start, Z_nr>>
    BY <1>4, SetRefEffect DEF Gate!ZPut, Gate!Zm
  <2>2. GateType' /\ LockOwner'
    BY <1>1, <2>1
  <2>3. GateMaps'
    BY <1>1, <2>1 DEF Gate!folio_mapped
  <2>4. Gate!PresentCount' = Gate!PresentCount /\ Gate!PresentCount \in Nat
    BY <2>1, GateFinite DEF Gate!PresentCount
  <2>5. GateRefs'
    BY <1>1, <2>1, <2>4 DEF GateRefs, Gate!RefsExact, Gate!LookupRef, Gate!ZapRef, Gate!folio_mapped
  <2> QED
    BY <2>2, <2>3, <2>5
<1> QED
  BY <1>2, <1>3, <1>4 DEF Gate!Z

\* Every step of every actor of the gate programs keeps the invariant.
LEMMA GateStep == ASSUME GateInv, Gate!Next PROVE GateInv'
<1>1. CASE Gate!Spin \/ Gate!Finished
  BY <1>1, GateStutter DEF Gate!Spin, Gate!Finished, Gate!vars, gate
<1> QED
  BY <1>1, GateFault, GateReclaim, GateTruncate, GateWalk, GateZap, GateDropper DEF Gate!Next

----------------------------------------------------------------------------
(* The steps of the flush programs.                                         *)

\* The invariant holds at first.
LEMMA TlbInit == Tlb!Init => TlbInv
<1> SUFFICES ASSUME Tlb!Init PROVE Tlb!TypeOK /\ FlushPhase
  BY DEF TlbInv
<1>1. Tlb!TypeOK
  BY FormalAssumption DEF Tlb!Init, Tlb!TypeOK
<1>2. FlushPhase
  BY Zenon DEF Tlb!Init, FlushPhase
<1> QED
  BY <1>1, <1>2

\* A flush that covers the cluster leaves no translation.
LEMMA FlushIsComplete ==
  ASSUME Tlb!TypeOK, Covers, Tlb!Flush
  PROVE  tlb' = {}
<1>1. CASE ARCH_FULL
  BY <1>1 DEF Tlb!Flush
<1>2. CASE ~ARCH_FULL
  <2>1. ASSUME NEW i \in tlb PROVE Tlb!InRange(i)
    <3>1. i \in Nat /\ i >= 0 /\ i < PAGE_MMUCOUNT
      BY <2>1, FormalAssumption DEF Tlb!TypeOK, Tlb!Sub
    <3>2. Tlb!VBASE \in Nat
      BY FormalAssumption DEF Tlb!TypeOK, Tlb!VBASE, Tlb!Sub
    <3> QED
      BY <3>1, <3>2, FormalAssumption DEF Tlb!InRange, Tlb!Vaddr, Covers, Tlb!TypeOK
  <2> QED
    BY <1>2, <2>1 DEF Tlb!Flush
<1> QED
  BY <1>1, <1>2

\* The pending range of the unmap is the cluster.
LEMMA RangeCovers ==
  ASSUME Tlb!TypeOK, Tlb!FlushRange(PAGE_MMUCOUNT), UNCHANGED SUB_OFF
  PROVE  Covers' /\ g_start' \in Nat /\ g_end' \in Nat /\ g_active' \in BOOLEAN
<1>1. Tlb!VBASE \in Nat /\ Tlb!VBASE' = Tlb!VBASE
  BY FormalAssumption DEF Tlb!TypeOK, Tlb!VBASE, Tlb!Sub
<1>2. g_active' = TRUE
  BY DEF Tlb!FlushRange, Tlb!tlb_adjust_range
<1>3. g_start' \in Nat /\ g_start' <= Tlb!VBASE
  BY <1>1 DEF Tlb!FlushRange, Tlb!tlb_adjust_range, Tlb!TypeOK
<1>4. g_end' \in Nat /\ Tlb!VBASE + PAGE_MMUCOUNT <= g_end'
  BY <1>1, FormalAssumption DEF Tlb!FlushRange, Tlb!tlb_adjust_range, Tlb!TypeOK
<1> QED
  BY <1>1, <1>2, <1>3, <1>4 DEF Covers

\* Every step of the program and of reclaim keeps it.
LEMMA TlbStep == TlbInv /\ [Tlb!Next]_flush => TlbInv'
<1> SUFFICES ASSUME TlbInv, [Tlb!Next]_flush PROVE TlbInv'
  OBVIOUS
<1> USE DEF TlbInv
<1>1. CASE Tlb!user_step
  <2>1. PICK i \in Tlb!Sub : tlb' = tlb \cup ({i} \cap tlb_pte)
    BY <1>1 DEF Tlb!user_step
  <2>2. UNCHANGED <<path, ARCH_FULL, SUB_OFF, tlb_pte, tlb_ref, frame_freed, frame_reused,
                    g_active, g_start, g_end, ksw_pc>>
    BY <1>1 DEF Tlb!user_step
  <2>3. Tlb!TypeOK'
    BY <2>1, <2>2 DEF Tlb!TypeOK, Tlb!Sub
  <2>4. FlushPhase'
    BY <2>1, <2>2 DEF FlushPhase, Covers, Tlb!VBASE, Tlb!Sub
  <2> QED
    BY <2>3, <2>4
<1>2. CASE Tlb!Unmap
  <2>1. Covers' /\ g_start' \in Nat /\ g_end' \in Nat /\ g_active' \in BOOLEAN
    BY <1>2, RangeCovers DEF Tlb!Unmap
  <2>2. tlb_ref' = 0
    BY <1>2, FormalAssumption DEF Tlb!Unmap, Tlb!RefsPut, FlushPhase
  <2>3. Tlb!TypeOK'
    BY <1>2, <2>1, <2>2 DEF Tlb!Unmap, Tlb!TypeOK, Tlb!Sub
  <2>4. FlushPhase'
    BY <1>2, <2>1, <2>2 DEF Tlb!Unmap, FlushPhase
  <2> QED
    BY <2>3, <2>4
<1>3. CASE Tlb!Finish
  <2>1. tlb' = {}
    BY <1>3, FlushIsComplete DEF Tlb!Finish, FlushPhase
  <2>2. Tlb!TypeOK'
    BY <1>3, <2>1 DEF Tlb!Finish, Tlb!Flush, Tlb!Free, Tlb!TypeOK, Tlb!Sub
  <2>3. FlushPhase'
    BY <1>3, <2>1 DEF Tlb!Finish, FlushPhase
  <2> QED
    BY <2>2, <2>3
<1>4. CASE Tlb!BatchFlush
  <2>1. tlb' = {}
    BY <1>4, FlushIsComplete DEF Tlb!BatchFlush, FlushPhase
  <2>2. Tlb!TypeOK'
    BY <1>4, <2>1 DEF Tlb!BatchFlush, Tlb!Flush, Tlb!TypeOK, Tlb!Sub
  <2>3. FlushPhase'
    BY <1>4, <2>1 DEF Tlb!BatchFlush, FlushPhase
  <2> QED
    BY <2>2, <2>3
<1>5. CASE Tlb!BatchFree
  BY <1>5 DEF Tlb!BatchFree, Tlb!Free, Tlb!TypeOK, FlushPhase, Tlb!Sub
<1>6. CASE Tlb!Reuse
  BY <1>6 DEF Tlb!Reuse, Tlb!TypeOK, FlushPhase, Tlb!Sub
<1>7. CASE UNCHANGED flush
  BY <1>7 DEF flush, Tlb!TypeOK, FlushPhase, Covers, Tlb!VBASE, Tlb!Sub
<1> QED
  BY <1>1, <1>2, <1>3, <1>4, <1>5, <1>6, <1>7 DEF Tlb!Next, Tlb!ksw_step

----------------------------------------------------------------------------
(* The programs together.                                                   *)

\* Whatever program is chosen, all four invariants hold at first.
LEMMA InitIInv == Init => IInv
  BY OrphanInit, GateInit, TruncateInit, TlbInit DEF Init, IInv

\* The program that runs keeps its own invariant, and the others rest.
LEMMA NextIInv == IInv /\ [Next]_vars => IInv'
<1> SUFFICES ASSUME IInv, [Next]_vars PROVE IInv'
  OBVIOUS
<1> USE DEF IInv
<1>1. CASE OrphanNext
  BY <1>1, OrphanStep, GateStutter, TruncateStutter, TlbStep DEF OrphanNext
<1>2. CASE GateNext
  BY <1>2, OrphanStutter, GateStep, TruncateStutter, TlbStep DEF GateNext
<1>3. CASE TruncateNext
  BY <1>3, OrphanStutter, GateStutter, TruncateStep, TlbStep DEF TruncateNext
<1>4. CASE TlbReclaim \/ TlbUser
  BY <1>4, OrphanStutter, GateStutter, TruncateStutter, TlbStep DEF TlbReclaim, TlbUser, Tlb!Next
<1>5. CASE UNCHANGED vars
  BY <1>5, OrphanStutter, GateStutter, TruncateStutter, TlbStep DEF vars
<1> QED
  BY <1>1, <1>2, <1>3, <1>4, <1>5 DEF Next

\* The progress of every thread, what it has left mapped and the references it
\* still holds agree in every state of the programs.
THEOREM FormalInductive == Spec => []IInv
  BY InitIInv, NextIInv, PTL DEF Spec

\* What follows from the invariant: the assertions of the programs.
LEMMA FormalSafety == IInv => GoneIsUnmapped /\ NoOrphan /\ RefsExact /\ FileIsKept
<1> SUFFICES ASSUME IInv PROVE GoneIsUnmapped /\ NoOrphan /\ RefsExact /\ FileIsKept
  OBVIOUS
<1> USE DEF IInv
<1>1. Orphan!NoFreeWhileMapped
  BY OrphanBacked DEF Orphan!NoFreeWhileMapped, Orphan!NoPtePresent, Orphan!Mm, OverAndDone
<1>2. Orphan!NoOrphan
  BY DEF OrphanInv, OrphanMaps, Orphan!NoOrphan, Orphan!Mm
<1>3. Gate!NoOrphan /\ Gate!RefsExact
  BY DEF GateInv, GateMaps, GateRefs, Gate!NoOrphan
<1>4. Gate!RemovedIsUnmapped /\ Gate!NoFreeWhileMapped
  BY DEF GateInv, GateMaps, GateRefs, Gate!RemovedIsUnmapped, Gate!NoFreeWhileMapped, Gate!folio_mapped, Gate!AnyPtePresent
<1>5. Truncation!RemovedIsUnmapped /\ Truncation!FileIsKept
  BY TruncateKeeps
<1> QED
  BY <1>1, <1>2, <1>3, <1>4, <1>5 DEF GoneIsUnmapped, NoOrphan, RefsExact, FileIsKept

\* NO_FREE_WHILE_MAPPED and NO_PC_DROP_WHILE_MAPPED: a folio that was freed or
\* has left the page cache is mapped by no page table, for every number of
\* sub-PTEs and every boundary of the page tables.
THEOREM FreedIsUnmapped == Spec => []GoneIsUnmapped
  BY FormalInductive, FormalSafety, PTL

\* NO_ORPHAN: the reverse map counts every entry that is present.
THEOREM CountedIfPresent == Spec => []NoOrphan
  BY FormalInductive, FormalSafety, PTL

\* The count of a folio in the page cache is exact while faults, walks, zaps
\* and droppers interleave.
THEOREM CountIsExact == Spec => []RefsExact
  BY FormalInductive, FormalSafety, PTL

\* A truncation to any size keeps what lies before the new end of file.
THEOREM TruncationKeepsFile == Spec => []FileIsKept
  BY FormalInductive, FormalSafety, PTL

\* No access resolves to the old frame once it is freed or reused: the
\* assertion of user_step, for every cluster size and offset.
THEOREM NoStale == Spec => []NoStaleTranslation
<1>1. IInv => NoStaleTranslation
  BY DEF IInv, TlbInv, Tlb!TypeOK, FlushPhase, NoStaleTranslation, Tlb!NoStaleTranslation
<1> QED
  BY <1>1, FormalInductive, PTL

\* A translation that outlives its entry has a flush on its way that covers it.
THEOREM StaleHasFlush == Spec => []StaleIsPending
<1>1. IInv => StaleIsPending
  <2> SUFFICES ASSUME TlbInv, NEW i \in tlb \ tlb_pte PROVE g_active /\ Tlb!InRange(i)
    BY DEF IInv, StaleIsPending, Tlb!StaleIsPending
  <2>1. ksw_pc = "flush" /\ Covers
    BY DEF TlbInv, Tlb!TypeOK, FlushPhase, Tlb!Sub
  <2>2. i \in Nat /\ i < PAGE_MMUCOUNT /\ Tlb!VBASE \in Nat
    BY FormalAssumption DEF TlbInv, Tlb!TypeOK, Tlb!Sub, Tlb!VBASE
  <2> QED
    BY <2>1, <2>2, FormalAssumption DEF Covers, Tlb!InRange, Tlb!Vaddr, TlbInv, Tlb!TypeOK
<1> QED
  BY <1>1, FormalInductive, PTL

\* The teardown programs implement a reference-counted folio, whatever program
\* runs: the count covers what is mapped, the folio is freed once, and left
\* alone after that.
THEOREM TeardownImplements == Spec => ImplementsFolioLifetime
<1>1. Init => Orphan!Lifetime!Init
  <2> SUFFICES ASSUME Init PROVE Orphan!Lifetime!Init
    OBVIOUS
  <2>1. OrphanInv
    BY OrphanInit DEF Init
  <2>2. freed = FALSE
    BY DEF Init, Orphan!Init
  <2> QED
    BY <2>1, <2>2, OrphanBacked, PresentEntries, SameCount DEF Orphan!Lifetime!Init, Orphan!Lifetime!Backed
<1>2. IInv /\ IInv' /\ [Next]_vars => [Orphan!Lifetime!Next]_(Orphan!Lifetime!vars)
  <2> SUFFICES ASSUME IInv, IInv', [Next]_vars PROVE [Orphan!Lifetime!Next]_(Orphan!Lifetime!vars)
    OBVIOUS
  <2>1. [Orphan!Next]_orphan
    BY DEF Next, OrphanNext, GateNext, TruncateNext, TlbReclaim, TlbUser, vars
  <2> QED
    BY <2>1, OrphanRefines DEF IInv
<1> QED
  BY <1>1, <1>2, FormalInductive, PTL
     DEF Spec, ImplementsFolioLifetime, Orphan!ImplementsFolioLifetime, Orphan!Lifetime!Spec
=============================================================================
