--------------------------- MODULE FolioLifetime ---------------------------
(***************************************************************************)
(* What every teardown protocol promises about the one reference-counted   *)
(* folio behind a cluster: a mapping has a reference behind it, and a      *)
(* folio whose count reached zero is given back to the allocator at most   *)
(* once and is never mapped or referenced again.  How the references are   *)
(* taken and put, by whom and under which lock, is left to the protocols   *)
(* that implement this module.                                             *)
(***************************************************************************)
EXTENDS Integers, FiniteSets

CONSTANT Entries      \* page-table entries that can map the folio

VARIABLES mapped,     \* the entries that are present
          refs,       \* references to the folio
          freed       \* it was handed back to the allocator

vars == <<mapped, refs, freed>>

\* Every present entry is backed by a reference of its own.
Backed == Cardinality(mapped) <= refs

Init == /\ mapped \in SUBSET Entries /\ refs \in Nat
        /\ freed = FALSE
        /\ Backed

\* While somebody holds a reference, entries and references come and go.
Use == /\ refs > 0 /\ ~freed
       /\ mapped' \in SUBSET Entries /\ refs' \in Nat
       /\ Backed'
       /\ UNCHANGED freed

\* The last reference is gone: the folio goes back, perhaps in the same step.
Free == /\ ~freed /\ freed'
        /\ mapped' = {} /\ refs' = 0

Next == Use \/ Free
Spec == Init /\ [][Next]_vars
=============================================================================
