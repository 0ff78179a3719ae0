--------------------------- MODULE PrivateMemory ---------------------------
(***************************************************************************)
(* What a private anonymous mapping promises to the processes that use it, *)
(* whatever the kernel does with frames, page-table entries, clusters,     *)
(* copy-on-write and migration below: every address space reads back its   *)
(* own last store, a discarded page reads as zero, and a child starts with *)
(* the contents its parent had while the fork was copying.                 *)
(*                                                                         *)
(* fork() is not atomic towards the other threads of the parent: they keep *)
(* storing while the page tables are copied, so each page is copied at a   *)
(* time of its own.                                                        *)
(***************************************************************************)
EXTENDS Naturals

CONSTANTS Mm,       \* address spaces
          Root,     \* the one that exists initially and never exits
          Page,     \* MMUPAGE numbers inside the mapping
          Discardable,  \* the pages programs discard
          Val,      \* values a store can leave in a page
          Zero      \* contents of a page never stored to

VARIABLES mem,      \* mem[m][v]: what address space m reads at page v
          stage,    \* life of an address space
          fork      \* the fork being carried out, or NoFork

vars == <<mem, stage, fork>>

Stages == {"none", "embryo", "live", "dying"}
NoFork == [p |-> Root, c |-> Root, left |-> {}]
Forking == fork.p # fork.c
InFork(m) == Forking /\ m \in {fork.p, fork.c}

ZeroMem == [v \in Page |-> Zero]

Init == /\ mem = [m \in Mm |-> ZeroMem]
        /\ stage = [m \in Mm |-> IF m = Root THEN "live" ELSE "none"]
        /\ fork = NoFork

Write(m, v, x) == /\ stage[m] = "live"
                  /\ mem' = [mem EXCEPT ![m][v] = x]
                  /\ UNCHANGED <<stage, fork>>

ForkStart(p, c) == /\ ~Forking
                   /\ stage[p] = "live" /\ stage[c] = "none"
                   /\ stage' = [stage EXCEPT ![c] = "embryo"]
                   /\ fork' = [p |-> p, c |-> c, left |-> Page]
                   /\ UNCHANGED mem

Copy(S) == /\ Forking /\ S \subseteq fork.left
           /\ mem' = [mem EXCEPT ![fork.c] =
                        [v \in Page |-> IF v \in S THEN mem[fork.p][v] ELSE @[v]]]
           /\ fork' = [fork EXCEPT !.left = @ \ S]
           /\ UNCHANGED stage

ForkDone == /\ Forking /\ fork.left = {}
            /\ stage' = [stage EXCEPT ![fork.c] = "live"]
            /\ fork' = NoFork
            /\ UNCHANGED mem

\* The copy ran out of memory: the child never runs.
ForkFail == /\ Forking
            /\ stage' = [stage EXCEPT ![fork.c] = "dying"]
            /\ mem' = [mem EXCEPT ![fork.c] = ZeroMem]
            /\ fork' = NoFork

Discard(m, S) == /\ stage[m] = "live" /\ ~InFork(m) /\ S \subseteq Discardable
                 /\ mem' = [mem EXCEPT ![m] =
                              [v \in Page |-> IF v \in S THEN Zero ELSE @[v]]]
                 /\ UNCHANGED <<stage, fork>>

\* A dying address space has no reader left.
Exit(m) == /\ stage[m] = "live" /\ m # Root /\ ~InFork(m)
           /\ stage' = [stage EXCEPT ![m] = "dying"]
           /\ mem' = [mem EXCEPT ![m] = ZeroMem]
           /\ UNCHANGED fork

Reap(m) == /\ stage[m] = "dying"
           /\ stage' = [stage EXCEPT ![m] = "none"]
           /\ UNCHANGED <<mem, fork>>

Next == \/ \E m \in Mm, v \in Page, x \in Val : Write(m, v, x)
        \/ \E p, c \in Mm : ForkStart(p, c)
        \/ \E S \in SUBSET Page : Copy(S)
        \/ ForkDone
        \/ ForkFail
        \/ \E m \in Mm, S \in SUBSET Page : Discard(m, S)
        \/ \E m \in Mm : Exit(m) \/ Reap(m)

Spec == Init /\ [][Next]_vars
=============================================================================
