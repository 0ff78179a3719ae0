------------------------------ MODULE OrphanPte ------------------------------
(***************************************************************************)
(* The teardown of one cluster that two address spaces map, lock by lock:  *)
(* the CBMC programs rmap-ab/formal/pgcl_orphan_pte*.c with NSUB and the   *)
(* page-table boundary BND as parameters.                                  *)
(*                                                                         *)
(* "straddle": the reverse-map walk W over address space 0, whose cluster  *)
(* lies in two page tables, drops the lock between them; the zap Z of      *)
(* address space 1 puts its references after the lock (pgcl_orphan_pte.c). *)
(* "refault": W tears down both, racing a fault F that maps one more       *)
(* sub-PTE; the backing store has a reference, put last (_v2.c).           *)
(* "units": two zaps A and B, one lock per address space (_v3.c).          *)
(***************************************************************************)
EXTENDS Integers, FiniteSets

CONSTANTS NSUB,     \* sub-PTEs of the cluster
          BND       \* the first BND of them are in page table 0

VARIABLES scenario,         \* which of the three programs runs
          guard,            \* GUARD: its fault takes a reference unless the count is zero
          refcount, freed,  \* of the one struct page of the cluster
          pte_present,      \* pte_present[m]: sub-PTEs of m that are present
          rmap_sub,         \* rmap_sub[m]: sub-PTEs of m counted in the rmap
          ptl,              \* the locks, <<m, table>>, that are held
          pc                \* where each thread is

vars == <<scenario, guard, refcount, freed, pte_present, rmap_sub, ptl, pc>>

Mm     == {0, 1}
Sub    == 0..(NSUB - 1)
Table0 == 0..(BND - 1)
Table1 == BND..(NSUB - 1)
Faulted == {0}              \* what F maps in address space 1
Thread == {"W", "Z", "F", "A", "B", "Main"}

Unmapped(m) == IF scenario = "refault" /\ m = 1 THEN Faulted ELSE {}

Init ==
  /\ scenario \in {"straddle", "refault", "units"} /\ guard \in BOOLEAN
  /\ scenario # "refault" => guard
  /\ freed = FALSE
  /\ pte_present = [m \in Mm |-> Sub \ Unmapped(m)]
  /\ rmap_sub = pte_present
  /\ refcount = IF scenario = "refault" THEN 1 + NSUB + (NSUB - 1) ELSE 2 * NSUB
  /\ ptl = {}
  /\ pc = [t \in Thread |->
             CASE scenario = "straddle" /\ t = "W" -> "lock0"
               [] scenario = "straddle" /\ t = "Z" -> "lock"
               [] scenario = "refault"  /\ t = "W" -> "lock0"
               [] scenario = "refault"  /\ t \in {"F", "Main"} -> "lock"
               [] scenario = "units"    /\ t \in {"A", "B"} -> "lock"
               [] OTHER -> "done"]

At(t, a)     == pc[t] = a
Goto(t, b)   == pc' = [pc EXCEPT ![t] = b]
Lock(L)      == L \cap ptl = {} /\ ptl' = ptl \cup L
Unlock(L)    == ptl' = ptl \ L

\* put_refs: subtract, test and free are one atomic operation.
put_refs(n) == /\ refcount' = refcount - n
               /\ freed' = (freed \/ refcount' = 0 \/ (scenario = "units" /\ refcount' < 0))

\* Mutation (MISMATCH == 2): only one PTE of the range is cleared.
ClearedOne(S) == {CHOOSE i \in S : TRUE}
Cleared(S) == S

\* clear_group: PTEs and rmap of a range go together, under the lock.
clear_group(m, S) ==
  /\ pte_present' = [pte_present EXCEPT ![m] = @ \ Cleared(S)]
  /\ rmap_sub' = [rmap_sub EXCEPT ![m] = @ \ S]

\* References put for n cleared PTEs.
PutUnit(n) == n

----------------------------------------------------------------------------
(* A section of thread t: take locks L, clear S of m, put, release.         *)

Take(t, a, L, b) == /\ At(t, a) /\ Lock(L) /\ Goto(t, b)
                    /\ UNCHANGED <<refcount, freed, pte_present, rmap_sub, scenario, guard>>
Clear(t, a, m, S, b) == /\ At(t, a) /\ clear_group(m, S) /\ Goto(t, b)
                        /\ UNCHANGED <<refcount, freed, ptl, scenario, guard>>
PutRefs(t, a, n, b) == /\ At(t, a) /\ put_refs(PutUnit(n)) /\ Goto(t, b)
                       /\ UNCHANGED <<pte_present, rmap_sub, ptl, scenario, guard>>
Release(t, a, L, b) == /\ At(t, a) /\ Unlock(L) /\ Goto(t, b)
                       /\ UNCHANGED <<refcount, freed, pte_present, rmap_sub, scenario, guard>>

\* The walk: a yield per page table, the lock dropped between the two.
W == \/ Take("W", "lock0", {<<0, 0>>}, "clear0")
     \/ Clear("W", "clear0", 0, Table0, "put0")
     \/ PutRefs("W", "put0", BND, "unlock0")
     \/ Release("W", "unlock0", {<<0, 0>>}, "lock1")
     \/ Take("W", "lock1", {<<0, 1>>}, "clear1")
     \/ Clear("W", "clear1", 0, Table1, "put1")
     \/ PutRefs("W", "put1", NSUB - BND, "unlock1")
     \/ Release("W", "unlock1", {<<0, 1>>}, IF scenario = "refault" THEN "lock2" ELSE "done")
     \/ Take("W", "lock2", {<<1, 0>>}, "clear2")
     \/ Clear("W", "clear2", 1, Sub \ Faulted, "put2")
     \/ PutRefs("W", "put2", NSUB - 1, "unlock2")
     \/ Release("W", "unlock2", {<<1, 0>>}, "done")

\* The zap of address space 1 takes both locks one after the other and puts
\* after it has released them.
Z == \/ Take("Z", "lock", {<<1, 0>>}, "lock2nd")
     \/ Take("Z", "lock2nd", {<<1, 1>>}, "clear")
     \/ Clear("Z", "clear", 1, Sub, "unlock")
     \/ Release("Z", "unlock", {<<1, 1>>}, "unlock2nd")
     \/ Release("Z", "unlock2nd", {<<1, 0>>}, "put")
     \/ PutRefs("Z", "put", NSUB, "done")

\* try_get: increment unless zero; without the guard a plain increment.
CanGet == guard => refcount # 0

\* The fault maps the sub-PTE if it gets the folio: reference, rmap, PTE, in
\* this order; then its own mapping is torn down too.
F == \/ Take("F", "lock", {<<1, 0>>}, "get")
     \/ /\ At("F", "get") /\ CanGet
        /\ refcount' = refcount + 1 /\ Goto("F", "rmap")
        /\ UNCHANGED <<freed, pte_present, rmap_sub, ptl, scenario, guard>>
     \/ /\ At("F", "get") /\ ~CanGet /\ Goto("F", "giveup")
        /\ UNCHANGED <<refcount, freed, pte_present, rmap_sub, ptl, scenario, guard>>
     \/ Release("F", "giveup", {<<1, 0>>}, "done")
     \/ /\ At("F", "rmap") /\ Goto("F", "pte")
        /\ rmap_sub' = [rmap_sub EXCEPT ![1] = @ \cup Faulted]
        /\ UNCHANGED <<refcount, freed, pte_present, ptl, scenario, guard>>
     \/ /\ At("F", "pte") /\ Goto("F", "unlock")
        /\ pte_present' = [pte_present EXCEPT ![1] = @ \cup Faulted]
        /\ UNCHANGED <<refcount, freed, rmap_sub, ptl, scenario, guard>>
     \/ Release("F", "unlock", {<<1, 0>>}, "lock2nd")
     \/ Take("F", "lock2nd", {<<1, 0>>}, "clear")
     \/ Clear("F", "clear", 1, Faulted, "put")
     \/ PutRefs("F", "put", 1, "unlock2nd")
     \/ Release("F", "unlock2nd", {<<1, 0>>}, "done")

\* Teardown of one address space under its only lock, the put after it.
Teardown(t, m) == \/ Take(t, "lock", {<<m, 0>>}, "clear")
                  \/ Clear(t, "clear", m, Sub, "unlock")
                  \/ Release(t, "unlock", {<<m, 0>>}, "put")
                  \/ PutRefs(t, "put", NSUB, "done")
A == Teardown("A", 0)
B == Teardown("B", 1)

ThreadsDone == \A t \in Thread \ {"Main"} : At(t, "done")

\* The backing store drops its reference after both threads are done.
Main == ThreadsDone /\ PutRefs("Main", "lock", 1, "done")

Finished == ThreadsDone /\ At("Main", "done") /\ UNCHANGED vars

Next == W \/ Z \/ F \/ A \/ B \/ Main \/ Finished
Spec == Init /\ [][Next]_vars

----------------------------------------------------------------------------
NoPtePresent == \A m \in Mm : pte_present[m] = {}

\* NO_FREE_WHILE_MAPPED: whoever puts the last reference, no page table maps
\* the cluster then or later, although the walk leaves half of it mapped while
\* it changes locks and the puts come after the locks.
NoFreeWhileMapped == freed => NoPtePresent

\* NO_ORPHAN: an entry that is present is counted in the reverse map, so a
\* walk finds it.
NoOrphan == \A m \in Mm : pte_present[m] \subseteq rmap_sub[m]

\* At the end the cluster is free, so no reference leaked.
FinallyFreed == <>freed

\* The three programs keep the promise of a reference-counted folio.
Present == UNION {{m} \X pte_present[m] : m \in Mm}
Lifetime == INSTANCE FolioLifetime
              WITH Entries <- Mm \X Sub, mapped <- Present, refs <- refcount
ImplementsFolioLifetime == Lifetime!Spec
=============================================================================
