----------------------------- MODULE ClusterRef -----------------------------
(***************************************************************************)
(* Several threads fault the same sub-PTE of one shared cluster in and zap *)
(* it again (rmap-ab/formal/pgcl_cluster*.c).  The four programs differ in *)
(* how they keep the reference count of the cluster; a thread is the       *)
(* sequence of its statements, and the threads interleave at every one.    *)
(* A plain "x++" on shared memory is a load and a store.                   *)
(***************************************************************************)
EXTENDS Integers, Sequences, FiniteSets

CONSTANTS Threads,
          Disciplines \* the programs that are run

ASSUME DisciplineAssumption ==
  /\ IsFiniteSet(Threads) /\ Threads \cap {"main", "free"} = {}
  /\ Disciplines \subseteq {"plain", "atomic", "locked", "tryget"}

VARIABLES discipline,                         \* which of the programs this is
          refcount, mapcount, pte, freed,   \* the cluster (one of its sub-PTEs)
          ptl,                              \* who holds the page-table lock
          pc,                               \* index of the next statement
          reg,                              \* the value a thread loaded
          last                              \* its put was the last one

vars == <<discipline, refcount, mapcount, pte, freed, ptl, pc, reg, last>>

Free == "free"      \* nobody holds the lock

\* fault(s), then zap(s) with the put after it.
Plain == <<"map++", "map++'", "ref++", "ref++'", "pte=1", "pte=0", "map--", "map--'",
           "ref--", "ref--'", "last", "free">>
Atomic == <<"get", "map++", "map++'", "pte=1", "pte=0", "map--", "map--'", "put", "free">>
Locked == <<"lock">> \o Plain \o <<"unlock">>
TryGet == <<"tryget", "map++", "map++'", "pte=1", "pte=0", "map--", "map--'", "put", "free">>

Bodies == [plain |-> Plain, atomic |-> Atomic, locked |-> Locked, tryget |-> TryGet]
Body == Bodies[discipline]

\* The program with the guarded increment, the protocol of the kernel.
Guarded == discipline = "tryget"

Done(t) == pc[t] > Len(Body)
At(t, s) == ~Done(t) /\ Body[pc[t]] = s

\* The cluster starts unmapped; with the guard it has a reference of its own.
Init ==
  /\ discipline \in Disciplines
  /\ refcount = IF Guarded THEN 1 ELSE 0
  /\ mapcount = 0 /\ pte = 0 /\ freed = FALSE
  /\ ptl = Free
  /\ pc = [t \in Threads |-> 1]
  /\ reg = [t \in Threads |-> 0]
  /\ last = [t \in Threads \cup {"main"} |-> FALSE]

Step(t) == pc' = [pc EXCEPT ![t] = @ + 1]

----------------------------------------------------------------------------
\* mapcount[s]++ and mapcount[s]--
LoadMap(t) == /\ At(t, "map++") \/ At(t, "map--")
              /\ Step(t)
              /\ reg' = [reg EXCEPT ![t] = mapcount]
              /\ UNCHANGED <<refcount, mapcount, pte, freed, ptl, last>>
StoreMap(t) == /\ \/ At(t, "map++'") /\ mapcount' = reg[t] + 1
                  \/ At(t, "map--'") /\ mapcount' = reg[t] - 1
               /\ Step(t)
               /\ UNCHANGED <<refcount, pte, freed, ptl, reg, last>>

\* refcount++ and refcount-- of the programs that do not make them atomic
LoadRef(t) == /\ At(t, "ref++") \/ At(t, "ref--")
              /\ Step(t)
              /\ reg' = [reg EXCEPT ![t] = refcount]
              /\ UNCHANGED <<refcount, mapcount, pte, freed, ptl, last>>
\* Mutation: the put is forgotten.
StoreRefOnly(t) == /\ \/ At(t, "ref++'") /\ refcount' = reg[t] + 1
                      \/ At(t, "ref--'") /\ refcount' = reg[t]
                   /\ Step(t)
                   /\ UNCHANGED <<mapcount, pte, freed, ptl, reg, last>>
StoreRef(t) == /\ \/ At(t, "ref++'") /\ refcount' = reg[t] + 1
                  \/ At(t, "ref--'") /\ refcount' = reg[t] - 1
               /\ Step(t)
               /\ UNCHANGED <<mapcount, pte, freed, ptl, reg, last>>

PteStore(t) == \/ At(t, "pte=1") /\ pte' = 1
               \/ At(t, "pte=0") /\ pte' = 0
SetPte(t) == /\ PteStore(t) /\ Step(t)
             /\ UNCHANGED <<refcount, mapcount, freed, ptl, reg, last>>

\* The atomic increment.
Get(t) == /\ At(t, "get") /\ Step(t)
          /\ refcount' = refcount + 1
          /\ UNCHANGED <<mapcount, pte, freed, ptl, reg, last>>

Alive == refcount # 0
\* try_get: increment unless zero; a thread that fails skips its body.
TryGetRef(t) ==
  /\ At(t, "tryget")
  /\ IF Alive THEN /\ refcount' = refcount + 1 /\ Step(t)
              ELSE /\ pc' = [pc EXCEPT ![t] = Len(Body) + 1] /\ UNCHANGED refcount
  /\ UNCHANGED <<mapcount, pte, freed, ptl, reg, last>>

\* Mutation: the test reads the count the decrement found.
DecAndTestOld(t) == /\ refcount' = refcount - 1
                    /\ last' = [last EXCEPT ![t] = refcount <= 2]
\* Mutation: the last holder does not decrement.
DecUnlessLast(t) == /\ refcount' = IF refcount = 1 THEN 1 ELSE refcount - 1
                    /\ last' = [last EXCEPT ![t] = refcount = 1]
\* Mutation: the test without the decrement.
TestOnly(t) == refcount' = refcount /\ last' = [last EXCEPT ![t] = refcount = 0]
\* Decrement and test, in one atomic section.
DecAndTest(t) == /\ refcount' = refcount - 1
                 /\ last' = [last EXCEPT ![t] = refcount' = 0]
Put(t) == /\ At(t, "put") /\ Step(t) /\ DecAndTest(t)
          /\ UNCHANGED <<mapcount, pte, freed, ptl, reg>>
\* The test of the plain programs reads the count again.
Test(t) == /\ At(t, "last") /\ Step(t)
           /\ last' = [last EXCEPT ![t] = refcount = 0]
           /\ UNCHANGED <<refcount, mapcount, pte, freed, ptl, reg>>
FreeIfLast(t) == /\ At(t, "free") /\ Step(t)
                 /\ freed' = (freed \/ last[t])
                 /\ UNCHANGED <<refcount, mapcount, pte, ptl, reg, last>>

Lock(t) == /\ At(t, "lock") /\ ptl = Free /\ ptl' = t /\ Step(t)
           /\ UNCHANGED <<refcount, mapcount, pte, freed, reg, last>>
Unlock(t) == /\ At(t, "unlock") /\ ptl' = Free /\ Step(t)
             /\ UNCHANGED <<refcount, mapcount, pte, freed, reg, last>>

Thread(t) == /\ \/ LoadMap(t) \/ StoreMap(t) \/ LoadRef(t) \/ StoreRef(t) \/ SetPte(t)
                \/ Get(t) \/ TryGetRef(t) \/ Put(t) \/ Test(t) \/ FreeIfLast(t)
                \/ Lock(t) \/ Unlock(t)
             /\ UNCHANGED discipline

AllDone == \A t \in Threads : Done(t)

\* The main thread of the guarded program drops the cluster's own reference
\* when the others are done, and frees.
MainPut == /\ Guarded /\ AllDone /\ ~last["main"] /\ refcount > 0
           /\ DecAndTest("main")
           /\ UNCHANGED <<discipline, mapcount, pte, freed, ptl, pc, reg>>
MainFree == /\ last["main"] /\ ~freed
            /\ freed' = TRUE
            /\ UNCHANGED <<discipline, refcount, mapcount, pte, ptl, pc, reg, last>>

\* The program is over.
Finished == AllDone /\ (Guarded => freed) /\ UNCHANGED vars

Next == (\E t \in Threads : Thread(t)) \/ MainPut \/ MainFree \/ Finished
Spec == Init /\ [][Next]_vars
FairSpec == Spec /\ (\A t \in Threads : WF_vars(Thread(t))) /\ WF_vars(MainPut \/ MainFree)

----------------------------------------------------------------------------
TypeOK == /\ discipline \in Disciplines
          /\ refcount \in Int /\ mapcount \in Int /\ pte \in {0, 1} /\ freed \in BOOLEAN
          /\ ptl \in Threads \cup {Free}
          /\ pc \in [Threads -> 1..(Len(Body) + 1)]
          /\ reg \in [Threads -> Int]
          /\ last \in [Threads \cup {"main"} -> BOOLEAN]

\* The guarded program never gives the cluster back while a page table maps
\* it: the assertion CHECK_NO_FREE_WHILE_MAPPED after every fault and put.
NoFreeWhileMapped == Guarded => ~(freed /\ pte = 1)

\* Threads of the guarded program that took a reference and have not put it.
Holders == {t \in Threads : pc[t] \in 2..8}
\* The cluster's own reference, until the main thread puts it.
OwnRef == IF ~last["main"] THEN 1 ELSE 0

\* The count of the guarded program is the cluster's own reference plus one
\* for each thread between its try_get and its put.
RefCountsHolders == Guarded => refcount = OwnRef + Cardinality(Holders)

\* Only one put of the guarded program is the last one: nobody takes a
\* cluster whose count reached zero up again, and it is not given back twice.
FreedOnce == Guarded => Cardinality({t \in DOMAIN last : last[t]}) <= 1

\* Once every thread has zapped what it faulted in nothing is counted: the
\* references balance with atomic counters and under one lock, the map count,
\* a plain counter in all programs, under the lock only.
FinallyBalanced ==
  /\ AllDone /\ discipline \in {"atomic", "locked"} => refcount = 0
  /\ AllDone /\ discipline = "locked" => mapcount = 0

\* The guarded program gives the cluster back in the end.
EventuallyFreed == Guarded ~> freed

\* The guarded program keeps the promise of a reference-counted folio.
Mapped == IF Guarded /\ pte = 1 THEN {0} ELSE {}
References == IF Guarded THEN refcount ELSE 1
GivenBack == Guarded /\ freed
Lifetime == INSTANCE FolioLifetime
              WITH Entries <- {0}, mapped <- Mapped, refs <- References, freed <- GivenBack
ImplementsFolioLifetime == Lifetime!Spec
=============================================================================
