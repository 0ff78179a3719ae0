-------------------------- MODULE ClusterRef_proofs --------------------------
(***************************************************************************)
(* The program with the guarded increment (pgcl_cluster_tryget.c), for any *)
(* number of threads: its count is exact, the cluster is never given back  *)
(* while it is mapped, and it implements FolioLifetime.  The programs with *)
(* atomic counters and under one lock balance in the end.                  *)
(***************************************************************************)
EXTENDS ClusterRef, FiniteSetTheorems, SequenceTheorems, TLAPS

\* The statements of the guarded program by their place.
LEMMA Statements ==
  ASSUME Guarded
  PROVE  /\ Len(Body) = 9
         /\ Body[1] = "tryget" /\ Body[2] = "map++" /\ Body[3] = "map++'"
         /\ Body[4] = "pte=1" /\ Body[5] = "pte=0" /\ Body[6] = "map--"
         /\ Body[7] = "map--'" /\ Body[8] = "put" /\ Body[9] = "free"
<1>1. Body = TryGet
  BY DEF Guarded, Body, Bodies
<1>2. Len(TryGet) = 9
  BY DEF TryGet
<1>3. /\ TryGet[1] = "tryget" /\ TryGet[2] = "map++" /\ TryGet[3] = "map++'"
      /\ TryGet[4] = "pte=1" /\ TryGet[5] = "pte=0" /\ TryGet[6] = "map--"
      /\ TryGet[7] = "map--'" /\ TryGet[8] = "put" /\ TryGet[9] = "free"
  BY DEF TryGet
<1> QED
  BY <1>1, <1>2, <1>3

\* Where a thread is when it executes a statement.
LEMMA Places == ASSUME Guarded, TypeOK PROVE pc \in [Threads -> 1..10]
<1>1. Len(Body) = 9
  BY Statements
<1>2. pc \in [Threads -> 1..(Len(Body) + 1)]
  BY DEF TypeOK
<1> QED
  BY <1>1, <1>2

\* A thread that executes a statement is at its place, and at no statement of
\* the other programs.
LEMMA PlaceOf ==
  ASSUME Guarded, TypeOK, NEW t \in Threads
  PROVE  /\ pc[t] \in 1..10 /\ (Done(t) <=> pc[t] = 10)
         /\ At(t, "tryget") => pc[t] = 1
         /\ At(t, "map++") => pc[t] = 2
         /\ At(t, "map++'") => pc[t] = 3
         /\ At(t, "pte=1") => pc[t] = 4
         /\ At(t, "pte=0") => pc[t] = 5
         /\ At(t, "map--") => pc[t] = 6
         /\ At(t, "map--'") => pc[t] = 7
         /\ At(t, "put") => pc[t] = 8
         /\ At(t, "free") => pc[t] = 9
         /\ ~At(t, "ref++") /\ ~At(t, "ref--") /\ ~At(t, "ref++'") /\ ~At(t, "ref--'")
         /\ ~At(t, "get") /\ ~At(t, "last") /\ ~At(t, "lock") /\ ~At(t, "unlock")
<1>1. pc[t] \in 1..10 /\ (Done(t) <=> pc[t] = 10)
  <2>1. Len(Body) = 9
    BY Statements
  <2>2. pc[t] \in 1..10
    BY Places
  <2> QED
    BY <2>1, <2>2 DEF Done
<1>2. \A s : At(t, s) => /\ pc[t] \in {1, 2, 3, 4, 5, 6, 7, 8, 9} /\ Body[pc[t]] = s
  BY <1>1 DEF At
<1> QED
  BY <1>1, <1>2, Statements

----------------------------------------------------------------------------
(* The inductive invariant                                                  *)

\* Who maps the cluster is between the two stores of its body.
PteHeld == pte = 1 => \E t \in Threads : pc[t] = 5
\* Only the main thread puts the last reference, when the others are done,
\* and only it frees.
LastIsMain == /\ \A t \in Threads : ~last[t]
              /\ last["main"] => AllDone
              /\ freed => last["main"]

Inv == TypeOK /\ RefCountsHolders /\ PteHeld /\ LastIsMain
\* What every step keeps: the invariant of the program that has the guard.
IInv == Guarded => Inv

\* No step changes which program this is.
LEMMA SameProgram == ASSUME [Next]_vars PROVE UNCHANGED discipline
  BY DEF Next, Thread, MainPut, MainFree, Finished, vars

\* There are finitely many holders.
LEMMA HoldersFinite == IsFiniteSet(Holders) /\ Cardinality(Holders) \in Nat
  BY DisciplineAssumption, FS_Subset, FS_CardinalityType DEF Holders

\* The invariant holds at first.
LEMMA InitInv == ASSUME Guarded, Init PROVE Inv
<1>1. Len(Body) = 9
  BY Statements
<1>2. TypeOK
  <2>0. discipline \in Disciplines
    BY DEF Init
  <2>1. pc \in [Threads -> 1..(Len(Body) + 1)]
    BY <1>1 DEF Init
  <2>2. reg \in [Threads -> Int] /\ last \in [Threads \cup {"main"} -> BOOLEAN]
    BY DEF Init
  <2>3. refcount \in Int /\ mapcount \in Int /\ pte \in {0, 1}
    BY DEF Init
  <2>4. freed \in BOOLEAN /\ ptl = Free
    BY Zenon DEF Init
  <2> QED
    BY <2>0, <2>1, <2>2, <2>3, <2>4 DEF TypeOK
<1>3. Holders = {}
  BY DEF Holders, Init
<1>4. RefCountsHolders
  BY <1>3, FS_EmptySet DEF RefCountsHolders, OwnRef, Init, Guarded
<1>5. PteHeld /\ LastIsMain
  BY DisciplineAssumption DEF PteHeld, LastIsMain, Init
<1> QED
  BY <1>2, <1>4, <1>5 DEF Inv

\* A thread that goes on while it holds its reference.
LEMMA HoldersKept ==
  ASSUME NEW t \in Threads, TypeOK, Guarded, Step(t), pc[t] \in 2..7
  PROVE  Holders' = Holders
<1>1. pc' = [pc EXCEPT ![t] = @ + 1]
  BY DEF Step
<1>2. pc \in [Threads -> 1..10]
  BY Places
<1> QED
  BY <1>1, <1>2 DEF Holders

\* Something went on, within its body, and neither count nor end changed.
LEMMA Within ==
  ASSUME Inv, Guarded, NEW t \in Threads, Step(t), pc[t] \in 2..7,
         TypeOK', UNCHANGED <<discipline, refcount, freed, last>>,
         \/ UNCHANGED pte /\ pc[t] # 5
         \/ pte' = 1 /\ pc[t] = 4
         \/ pte' = 0
  PROVE  Inv'
<1>0. pc \in [Threads -> 1..10] /\ TypeOK
  BY Places DEF Inv
<1>1. pc' = [pc EXCEPT ![t] = @ + 1]
  BY DEF Step
<1>2. RefCountsHolders'
  BY <1>0, HoldersKept DEF Inv, RefCountsHolders, OwnRef
<1>3. PteHeld'
  BY <1>0, <1>1 DEF Inv, PteHeld
<1>4. LastIsMain'
  <2>1. ~last["main"]
    BY <1>0, PlaceOf DEF Inv, LastIsMain, AllDone
  <2> QED
    BY <2>1 DEF Inv, LastIsMain
<1> QED
  BY <1>2, <1>3, <1>4 DEF Inv

\* Every step keeps the types: the counts are integers whatever they are.
LEMMA TypeStep ==
  ASSUME Inv, Guarded, [Next]_vars
  PROVE  TypeOK'
<1>1. pc \in [Threads -> 1..10] /\ Len(Body) = 9
  BY Places, Statements DEF Inv
<1>0. discipline' = discipline /\ Len(Body') = Len(Body)
  BY SameProgram DEF Body, Bodies, Plain, Atomic, Locked, TryGet
<1>2. ASSUME NEW t \in Threads, Step(t), pc[t] \in 1..9
      PROVE  pc' \in [Threads -> 1..(Len(Body') + 1)]
  BY <1>0, <1>1, <1>2 DEF Step
<1>3. ASSUME NEW t \in Threads, Thread(t) PROVE TypeOK'
  <2> USE <1>0 DEF Inv
  <2>1. CASE LoadMap(t)
    <3>1. pc[t] \in 1..9
      BY <2>1, PlaceOf DEF LoadMap
    <3> QED
      BY <2>1, <3>1, <1>2 DEF LoadMap, TypeOK
  <2>2. CASE StoreMap(t)
    <3>1. pc[t] \in 1..9
      BY <2>2, PlaceOf DEF StoreMap
    <3> QED
      BY <2>2, <3>1, <1>2 DEF StoreMap, TypeOK
  <2>3. CASE SetPte(t)
    <3>1. pc[t] \in 1..9
      BY <2>3, PlaceOf DEF SetPte, PteStore
    <3> QED
      BY <2>3, <3>1, <1>2 DEF SetPte, PteStore, TypeOK
  <2>4. CASE TryGetRef(t)
    <3>1. pc[t] \in 1..9
      BY <2>4, PlaceOf DEF TryGetRef
    <3>2. pc' \in [Threads -> 1..(Len(Body') + 1)]
      BY <2>4, <3>1, <1>0, <1>1, <1>2 DEF TryGetRef
    <3> QED
      BY <2>4, <3>2 DEF TryGetRef, TypeOK
  <2>5. CASE Put(t)
    <3>1. pc[t] \in 1..9
      BY <2>5, PlaceOf DEF Put
    <3>2. last' \in [Threads \cup {"main"} -> BOOLEAN]
      BY <2>5 DEF Put, DecAndTest, TypeOK
    <3> QED
      BY <2>5, <3>1, <3>2, <1>2 DEF Put, DecAndTest, TypeOK
  <2>6. CASE FreeIfLast(t)
    <3>1. pc[t] \in 1..9
      BY <2>6, PlaceOf DEF FreeIfLast
    <3> QED
      BY <2>6, <3>1, <1>2 DEF FreeIfLast, TypeOK
  <2>7. ~LoadRef(t) /\ ~StoreRef(t) /\ ~Get(t) /\ ~Test(t) /\ ~Lock(t) /\ ~Unlock(t)
    BY PlaceOf DEF LoadRef, StoreRef, Get, Test, Lock, Unlock
  <2> QED
    BY <1>3, <2>1, <2>2, <2>3, <2>4, <2>5, <2>6, <2>7 DEF Thread
<1>4. CASE MainPut
  <2>1. last' \in [Threads \cup {"main"} -> BOOLEAN]
    BY <1>4 DEF MainPut, DecAndTest, Inv, TypeOK
  <2> QED
    BY <1>0, <1>4, <2>1 DEF MainPut, DecAndTest, Inv, TypeOK
<1>5. CASE MainFree
  BY <1>0, <1>5 DEF MainFree, Inv, TypeOK
<1>6. CASE UNCHANGED vars
  BY <1>0, <1>6 DEF vars, Inv, TypeOK
<1> QED
  BY <1>3, <1>4, <1>5, <1>6 DEF Next, Finished

\* A thread that is not done finds the main thread before its put.
LEMMA MainWaits ==
  ASSUME Inv, Guarded, NEW t \in Threads, pc[t] # 10
  PROVE  ~last["main"] /\ OwnRef = 1 /\ ~freed
<1>1. ~Done(t)
  BY PlaceOf DEF Inv
<1>2. ~last["main"]
  BY <1>1 DEF Inv, LastIsMain, AllDone
<1> QED
  BY <1>2 DEF OwnRef, Inv, LastIsMain

\* The try_get adds its thread to the holders.
LEMMA TryGetStep ==
  ASSUME Inv, Guarded, TypeOK', UNCHANGED discipline, NEW t \in Threads, TryGetRef(t)
  PROVE  Inv'
<1>1. pc[t] = 1 /\ pc \in [Threads -> 1..10]
  BY PlaceOf, Places DEF Inv, TryGetRef
<1>2. ~last["main"] /\ OwnRef = 1 /\ ~freed
  BY <1>1, MainWaits
<1>3. Alive
  <2>1. refcount = 1 + Cardinality(Holders)
    BY <1>2 DEF Inv, RefCountsHolders
  <2> QED
    BY <2>1, HoldersFinite DEF Alive
<1>4. refcount' = refcount + 1 /\ pc' = [pc EXCEPT ![t] = @ + 1]
      /\ UNCHANGED <<mapcount, pte, freed, ptl, reg, last>>
  BY <1>3 DEF TryGetRef, Step
<1>5. Holders' = Holders \cup {t} /\ t \notin Holders
  BY <1>1, <1>4 DEF Holders
<1>6. RefCountsHolders'
  <2>1. Cardinality(Holders') = Cardinality(Holders) + 1
    BY <1>5, HoldersFinite, FS_AddElement
  <2>2. OwnRef' = OwnRef
    BY <1>4 DEF OwnRef
  <2> QED
    BY <1>2, <1>4, <2>1, <2>2, HoldersFinite DEF RefCountsHolders, Inv, TypeOK
<1>7. PteHeld'
  BY <1>1, <1>4 DEF PteHeld, Inv
<1>8. LastIsMain'
  BY <1>2, <1>4 DEF LastIsMain, Inv
<1> QED
  BY <1>6, <1>7, <1>8 DEF Inv

\* The put takes its thread from them, and is never the last one.
LEMMA PutStep ==
  ASSUME Inv, Guarded, TypeOK', UNCHANGED discipline, NEW t \in Threads, Put(t)
  PROVE  Inv'
<1>1. pc[t] = 8 /\ pc \in [Threads -> 1..10]
  BY PlaceOf, Places DEF Inv, Put
<1>2. ~last["main"] /\ OwnRef = 1 /\ ~freed
  BY <1>1, MainWaits
<1>3. refcount' = refcount - 1 /\ last' = [last EXCEPT ![t] = refcount' = 0]
      /\ pc' = [pc EXCEPT ![t] = @ + 1] /\ UNCHANGED <<mapcount, pte, freed, ptl, reg>>
  BY DEF Put, DecAndTest, Step
<1>4. Holders' = Holders \ {t} /\ t \in Holders
  BY <1>1, <1>3 DEF Holders
<1>5. Cardinality(Holders') = Cardinality(Holders) - 1 /\ Cardinality(Holders') \in Nat
  BY <1>4, HoldersFinite, FS_RemoveElement, FS_CardinalityType
<1>6. refcount' = 1 + Cardinality(Holders')
  BY <1>2, <1>3, <1>5, HoldersFinite DEF RefCountsHolders, Inv, TypeOK
<1>7. last' = [last EXCEPT ![t] = FALSE] /\ last \in [Threads \cup {"main"} -> BOOLEAN]
  <2>1. refcount' # 0
    BY <1>5, <1>6
  <2>2. (refcount' = 0) = FALSE
    BY <2>1
  <2>3. last \in [Threads \cup {"main"} -> BOOLEAN]
    BY DEF Inv, TypeOK
  <2> QED
    BY <1>3, <2>2, <2>3
<1>8. ~last'["main"] /\ \A u \in Threads : ~last'[u]
  BY <1>2, <1>7, DisciplineAssumption DEF Inv, LastIsMain
<1>9. RefCountsHolders'
  BY <1>6, <1>8 DEF RefCountsHolders, OwnRef
<1>10. PteHeld'
  BY <1>1, <1>3 DEF PteHeld, Inv
<1>11. LastIsMain'
  BY <1>2, <1>3, <1>8 DEF LastIsMain
<1> QED
  BY <1>9, <1>10, <1>11 DEF Inv

\* Freeing does nothing in a thread.
LEMMA FreeStep ==
  ASSUME Inv, Guarded, TypeOK', UNCHANGED discipline, NEW t \in Threads, FreeIfLast(t)
  PROVE  Inv' /\ UNCHANGED freed
<1>1. pc[t] = 9 /\ pc \in [Threads -> 1..10]
  BY PlaceOf, Places DEF Inv, FreeIfLast
<1>2. ~last["main"] /\ ~freed
  BY <1>1, MainWaits
<1>3. ~last[t] /\ freed \in BOOLEAN
  BY DEF Inv, LastIsMain, TypeOK
<1>4. freed' = freed
  BY <1>2, <1>3, Zenon DEF FreeIfLast
<1>5. pc' = [pc EXCEPT ![t] = @ + 1] /\ UNCHANGED <<refcount, mapcount, pte, ptl, reg, last>>
  BY DEF FreeIfLast, Step
<1>6. Holders' = Holders
  BY <1>1, <1>5 DEF Holders
<1>7. RefCountsHolders'
  BY <1>5, <1>6 DEF RefCountsHolders, OwnRef, Inv
<1>8. PteHeld'
  BY <1>1, <1>5 DEF PteHeld, Inv
<1>9. LastIsMain'
  BY <1>2, <1>4, <1>5 DEF LastIsMain, Inv
<1> QED
  BY <1>4, <1>7, <1>8, <1>9 DEF Inv

\* The main thread puts the one reference that is left.
LEMMA MainPutStep ==
  ASSUME Inv, Guarded, TypeOK', UNCHANGED discipline, MainPut
  PROVE  Inv'
<1>1. \A t \in Threads : pc[t] = 10
  BY PlaceOf DEF MainPut, AllDone, Inv
<1>2. Holders = {}
  BY <1>1 DEF Holders
<1>3. refcount = 1
  BY <1>2, FS_EmptySet DEF Inv, RefCountsHolders, OwnRef, MainPut
<1>4. refcount' = 0 /\ last' = [last EXCEPT !["main"] = TRUE] /\ last \in [Threads \cup {"main"} -> BOOLEAN]
  <2>1. refcount' = 0
    BY <1>3 DEF MainPut, DecAndTest
  <2>2. (refcount' = 0) = TRUE
    BY <2>1
  <2> QED
    BY <2>1, <2>2 DEF MainPut, DecAndTest, Inv, TypeOK
<1>5. UNCHANGED <<mapcount, pte, freed, ptl, pc, reg>>
  BY DEF MainPut
<1>6. Holders' = {}
  BY <1>1, <1>5 DEF Holders
<1>7. last'["main"] /\ \A t \in Threads : last'[t] = last[t]
  BY <1>4, DisciplineAssumption
<1>8. RefCountsHolders'
  BY <1>4, <1>6, <1>7, FS_EmptySet DEF RefCountsHolders, OwnRef
<1>9. PteHeld'
  BY <1>5 DEF PteHeld, Inv
<1>10. AllDone'
  BY <1>5 DEF MainPut, AllDone, Done, Body, Plain, Atomic, Locked, TryGet
<1>11. LastIsMain'
  BY <1>7, <1>10 DEF LastIsMain, Inv
<1> QED
  BY <1>8, <1>9, <1>11 DEF Inv

\* Every step of the program keeps the invariant.
LEMMA NextInv == ASSUME Guarded, Inv, [Next]_vars PROVE Inv'
<1>0. TypeOK' /\ UNCHANGED discipline
  BY TypeStep, SameProgram
<1>1. ASSUME NEW t \in Threads, Thread(t) PROVE Inv'
  <2>1. CASE LoadMap(t)
    BY <1>0, <2>1, PlaceOf, Within DEF LoadMap, Inv
  <2>2. CASE StoreMap(t)
    BY <1>0, <2>2, PlaceOf, Within DEF StoreMap, Inv
  <2>3. CASE SetPte(t)
    <3>1. Step(t) /\ UNCHANGED <<discipline, refcount, freed, last>>
      BY <1>0, <2>3 DEF SetPte
    <3>2. (pte' = 1 /\ pc[t] = 4) \/ (pte' = 0 /\ pc[t] = 5)
      BY <2>3, PlaceOf DEF SetPte, PteStore, Inv
    <3> QED
      BY <1>0, <3>1, <3>2, Within
  <2>4. ~LoadRef(t) /\ ~StoreRef(t) /\ ~Get(t) /\ ~Test(t) /\ ~Lock(t) /\ ~Unlock(t)
    BY PlaceOf DEF LoadRef, StoreRef, Get, Test, Lock, Unlock, Inv
  <2> QED
    BY <1>0, <1>1, <2>1, <2>2, <2>3, <2>4, TryGetStep, PutStep, FreeStep DEF Thread
<1>2. CASE MainPut
  BY <1>0, <1>2, MainPutStep
<1>3. ASSUME UNCHANGED <<pc, refcount, pte, last>>,
             UNCHANGED freed \/ last["main"]
      PROVE  Inv'
  <2>1. Body' = Body
    BY <1>0 DEF Body
  <2>2. AllDone' = AllDone /\ Holders' = Holders
    BY <1>3, <2>1 DEF AllDone, Done, Holders
  <2> QED
    BY <1>0, <1>3, <2>2 DEF Inv, RefCountsHolders, OwnRef, PteHeld, LastIsMain
<1>4. CASE MainFree
  BY <1>3, <1>4 DEF MainFree
<1>5. CASE UNCHANGED vars
  BY <1>3, <1>5 DEF vars
<1> QED
  BY <1>1, <1>2, <1>4, <1>5 DEF Next, Finished

\* The invariant of the guarded program, for any number of threads.
THEOREM GuardedInductive == Spec => []IInv
<1>1. Init => IInv
  BY InitInv DEF IInv
<1>2. IInv /\ [Next]_vars => IInv'
  <2> SUFFICES ASSUME IInv, [Next]_vars, Guarded' PROVE Inv'
    BY DEF IInv
  <2>1. Guarded
    BY SameProgram DEF Guarded
  <2> QED
    BY <2>1, NextInv DEF IInv
<1> QED
  BY <1>1, <1>2, PTL DEF Spec
----------------------------------------------------------------------------
(* What the invariant says of the program                                   *)

\* The count of the guarded program is exact at every step: the cluster's own
\* reference and one for each thread between its try_get and its put.
THEOREM CountIsExact == Spec => []RefCountsHolders
<1>1. IInv => RefCountsHolders
  BY DEF IInv, Inv, RefCountsHolders
<1> QED
  BY <1>1, GuardedInductive, PTL

\* When the last reference was put every thread has left its body.
LEMMA LastMeansDone ==
  ASSUME Inv, Guarded, last["main"]
  PROVE  Holders = {} /\ refcount = 0 /\ pte = 0
<1>1. \A t \in Threads : pc[t] = 10
  BY PlaceOf DEF Inv, LastIsMain, AllDone
<1>2. Holders = {}
  BY <1>1 DEF Holders
<1>3. refcount = 0
  BY <1>2, FS_EmptySet DEF Inv, RefCountsHolders, OwnRef
<1>4. pte = 0
  BY <1>1 DEF Inv, PteHeld, TypeOK
<1> QED
  BY <1>2, <1>3, <1>4

\* The guarded program never frees a cluster that is still mapped, however
\* many threads fault it in and zap it.
THEOREM FreedIsUnmapped == Spec => []NoFreeWhileMapped
<1>1. IInv => NoFreeWhileMapped
  <2> SUFFICES ASSUME Guarded, Inv, freed PROVE pte # 1
    BY DEF NoFreeWhileMapped, IInv
  <2>1. last["main"]
    BY DEF Inv, LastIsMain
  <2> QED
    BY <2>1, LastMeansDone
<1> QED
  BY <1>1, GuardedInductive, PTL

\* Only the main thread's put is ever the last one of the guarded program.
THEOREM OneLastPut == Spec => []FreedOnce
<1>1. IInv => FreedOnce
  <2> SUFFICES ASSUME Guarded, Inv PROVE Cardinality({t \in DOMAIN last : last[t]}) <= 1
    BY DEF FreedOnce, IInv
  <2> DEFINE L == {t \in DOMAIN last : last[t]}
  <2>1. DOMAIN last = Threads \cup {"main"}
    BY DEF Inv, TypeOK
  <2>2. L \subseteq {"main"}
    BY <2>1 DEF Inv, LastIsMain
  <2>3. IsFiniteSet({"main"}) /\ Cardinality({"main"}) = 1
    BY FS_Singleton
  <2> QED
    BY <2>2, <2>3, FS_Subset
<1> QED
  BY <1>1, GuardedInductive, PTL

----------------------------------------------------------------------------
(* The guarded program implements FolioLifetime                             *)

\* Whoever maps the cluster holds a reference to it.
LEMMA MappedIsBacked ==
  ASSUME Inv, Guarded
  PROVE  /\ refcount \in Nat /\ Mapped \in SUBSET {0}
         /\ Cardinality(Mapped) <= refcount
         /\ (~last["main"] => refcount > 0)
<1>1. OwnRef \in {0, 1} /\ (~last["main"] => OwnRef = 1)
  BY DEF OwnRef, Guarded
<1>2. refcount = OwnRef + Cardinality(Holders) /\ Cardinality(Holders) \in Nat
  BY HoldersFinite DEF Inv, RefCountsHolders
<1>3. Cardinality(Mapped) <= refcount
  <2>1. CASE pte = 1
    <3>1. last["main"] => pte = 0
      BY LastMeansDone
    <3>2. ~last["main"]
      BY <2>1, <3>1
    <3>3. Cardinality(Mapped) = 1
      BY <2>1, FS_Singleton DEF Mapped
    <3> QED
      BY <1>1, <1>2, <3>2, <3>3
  <2>2. CASE pte # 1
    <3>1. Cardinality(Mapped) = 0
      BY <2>2, FS_EmptySet DEF Mapped
    <3> QED
      BY <1>1, <1>2, <3>1
  <2> QED
    BY <2>1, <2>2
<1> QED
  BY <1>1, <1>2, <1>3 DEF Mapped

\* A step of a thread that is not done leaves the cluster alive.
LEMMA ThreadKeepsFolio ==
  ASSUME Inv, Guarded, TypeOK', NEW t \in Threads, Thread(t)
  PROVE  ~freed /\ UNCHANGED freed /\ ~last["main"]
<1>1. pc[t] # 10
  BY PlaceOf DEF Thread, LoadMap, StoreMap, LoadRef, StoreRef, SetPte, PteStore, Get,
     TryGetRef, Put, Test, FreeIfLast, Lock, Unlock, Inv
<1>2. ~last["main"] /\ ~freed
  BY <1>1, MainWaits
<1>3. UNCHANGED freed
  <2>1. CASE FreeIfLast(t)
    BY <2>1, FreeStep DEF Thread
  <2>2. CASE ~FreeIfLast(t)
    BY <2>2 DEF Thread, LoadMap, StoreMap, LoadRef, StoreRef, SetPte, Get, TryGetRef, Put,
       Test, Lock, Unlock
  <2> QED
    BY <2>1, <2>2
<1> QED
  BY <1>2, <1>3

\* The abstract module counts with the same operator.
LEMMA SameCount == \A S : Lifetime!Cardinality(S) = Cardinality(S)
  BY DEF Lifetime!Cardinality, Cardinality

\* A step of the program is a use of the folio, its end, or nothing to it.
LEMMA StepRefines ==
  ASSUME Inv, Inv', Guarded, [Next]_vars
  PROVE  [Lifetime!Next]_(Lifetime!vars)
<1>0. Guarded' /\ UNCHANGED discipline
  BY SameProgram DEF Guarded
<1>1. /\ refcount' \in Nat /\ Mapped' \in SUBSET {0} /\ Cardinality(Mapped') <= refcount'
  <2>1. (Inv /\ Guarded => refcount \in Nat /\ Mapped \in SUBSET {0} /\ Cardinality(Mapped) <= refcount)'
    BY MappedIsBacked, PTL
  <2> QED
    BY <1>0, <2>1
<1>2. /\ References = refcount /\ References' = refcount'
      /\ (GivenBack <=> freed) /\ (GivenBack' <=> freed')
  BY <1>0 DEF References, GivenBack
<1>3. ASSUME ~last["main"], ~freed, UNCHANGED freed PROVE Lifetime!Use
  <2>1. refcount > 0
    BY <1>3, MappedIsBacked
  <2>2. GivenBack' = GivenBack
    BY <1>0, <1>3 DEF GivenBack
  <2> QED
    BY <1>1, <1>2, <1>3, <2>1, <2>2, SameCount DEF Lifetime!Use, Lifetime!Backed
<1>4. ASSUME NEW t \in Threads, Thread(t) PROVE Lifetime!Next
  <2>1. TypeOK'
    BY DEF Inv
  <2> QED
    BY <1>0, <1>3, <1>4, <2>1, ThreadKeepsFolio DEF Lifetime!Next
<1>5. CASE MainPut
  <2>1. ~last["main"] /\ UNCHANGED freed
    BY <1>5 DEF MainPut
  <2>2. ~freed
    BY <2>1 DEF Inv, LastIsMain
  <2> QED
    BY <1>3, <2>1, <2>2 DEF Lifetime!Next
<1>6. CASE MainFree
  <2>1. refcount = 0 /\ pte = 0
    BY <1>6, LastMeansDone DEF MainFree
  <2>2. refcount' = 0 /\ pte' = 0 /\ ~freed /\ freed'
    BY <1>6, <2>1 DEF MainFree
  <2>3. Mapped' = {}
    BY <2>2 DEF Mapped
  <2> QED
    BY <1>2, <2>2, <2>3 DEF Lifetime!Next, Lifetime!Free
<1>7. CASE UNCHANGED vars
  BY <1>7 DEF vars, Lifetime!vars, Mapped, References, GivenBack, Guarded
<1> QED
  BY <1>4, <1>5, <1>6, <1>7 DEF Next, Finished

\* Another program leaves the folio it has nothing to do with as it is.
LEMMA OthersStutter ==
  ASSUME ~Guarded, [Next]_vars
  PROVE  UNCHANGED Lifetime!vars
  BY SameProgram DEF Guarded, Mapped, References, GivenBack, Lifetime!vars

\* The guarded program of any number of threads keeps the promise of a
\* reference-counted folio: never mapped without a reference behind it, given
\* back once, never touched again.
THEOREM GuardedImplements == Spec => ImplementsFolioLifetime
<1>1. Init => Lifetime!Init
  <2> SUFFICES ASSUME Init PROVE Lifetime!Init
    OBVIOUS
  <2>1. CASE Guarded
    <3>1. Inv
      BY <2>1, InitInv
    <3>2. refcount \in Nat /\ Mapped \in SUBSET {0} /\ Cardinality(Mapped) <= refcount
      BY <2>1, <3>1, MappedIsBacked
    <3>3. References = refcount /\ GivenBack = FALSE
      BY <2>1 DEF References, GivenBack, Init
    <3> QED
      BY <3>2, <3>3, SameCount DEF Lifetime!Init, Lifetime!Backed
  <2>2. CASE ~Guarded
    <3>1. Mapped = {} /\ References = 1 /\ GivenBack = FALSE
      BY <2>2 DEF Mapped, References, GivenBack
    <3> QED
      BY <3>1, SameCount, FS_EmptySet DEF Lifetime!Init, Lifetime!Backed
  <2> QED
    BY <2>1, <2>2
<1>2. IInv /\ IInv' /\ [Next]_vars => [Lifetime!Next]_(Lifetime!vars)
  <2> SUFFICES ASSUME IInv, IInv', [Next]_vars PROVE [Lifetime!Next]_(Lifetime!vars)
    OBVIOUS
  <2>1. CASE Guarded
    BY <2>1, SameProgram, StepRefines DEF IInv, Guarded
  <2>2. CASE ~Guarded
    BY <2>2, OthersStutter
  <2> QED
    BY <2>1, <2>2
<1> QED
  BY <1>1, <1>2, GuardedInductive, PTL DEF Spec, ImplementsFolioLifetime, Lifetime!Spec

----------------------------------------------------------------------------
(* The programs with atomic counters, and under one lock, balance           *)

Counted == discipline = "atomic"
Serial  == discipline = "locked"

\* The statements of the program with atomic counters, by their place.
LEMMA AtomicStatements ==
  ASSUME Counted
  PROVE  /\ Len(Body) = 9
         /\ Body[1] = "get" /\ Body[2] = "map++" /\ Body[3] = "map++'"
         /\ Body[4] = "pte=1" /\ Body[5] = "pte=0" /\ Body[6] = "map--"
         /\ Body[7] = "map--'" /\ Body[8] = "put" /\ Body[9] = "free"
<1>1. Body = Atomic
  BY DEF Counted, Body, Bodies
<1>2. Len(Atomic) = 9
  BY DEF Atomic
<1>3. /\ Atomic[1] = "get" /\ Atomic[2] = "map++" /\ Atomic[3] = "map++'"
      /\ Atomic[4] = "pte=1" /\ Atomic[5] = "pte=0" /\ Atomic[6] = "map--"
      /\ Atomic[7] = "map--'" /\ Atomic[8] = "put" /\ Atomic[9] = "free"
  BY DEF Atomic
<1> QED
  BY <1>1, <1>2, <1>3

\* A sequence between two more elements.
LEMMA Bracketed ==
  ASSUME NEW S, NEW a \in Seq(S), NEW x \in S, NEW y \in S
  PROVE  /\ Len(<<x>> \o a \o <<y>>) = Len(a) + 2
         /\ (<<x>> \o a \o <<y>>)[1] = x
         /\ \A i \in 1..Len(a) : (<<x>> \o a \o <<y>>)[i + 1] = a[i]
         /\ (<<x>> \o a \o <<y>>)[Len(a) + 2] = y
<1> DEFINE X == <<x>>
           Y == <<y>>
           L == X \o a
<1>1. /\ X \in Seq(S) /\ Y \in Seq(S)
      /\ Len(X) = 1 /\ Len(Y) = 1
      /\ X[1] = x /\ Y[1] = y
  <2>1. X \in Seq(S) /\ Y \in Seq(S)
    OBVIOUS
  <2>2. Len(X) = 1 /\ Len(Y) = 1
    OBVIOUS
  <2>3. X[1] = x /\ Y[1] = y
    OBVIOUS
  <2> QED
    BY <2>1, <2>2, <2>3
<1> HIDE DEF X, Y
<1>0. Len(a) \in Nat
  OBVIOUS
<1>2. /\ L \in Seq(S) /\ Len(L) = Len(a) + 1 /\ L[1] = x
      /\ \A i \in 1..Len(a) : L[i + 1] = a[i]
  <2>1. /\ L \in Seq(S) /\ Len(L) = Len(X) + Len(a)
        /\ \A i \in 1..(Len(X) + Len(a)) : L[i] = IF i <= Len(X) THEN X[i] ELSE a[i - Len(X)]
    BY <1>1, ConcatProperties
  <2> HIDE DEF L
  <2> QED
    BY <1>0, <1>1, <2>1
<1> HIDE DEF L
<1> DEFINE M == L \o Y
<1>3. /\ Len(L \o Y) = Len(a) + 2 /\ (L \o Y)[Len(a) + 2] = y
      /\ \A i \in 1..(Len(a) + 1) : (L \o Y)[i] = L[i]
  <2>1. /\ Len(M) = Len(L) + Len(Y)
        /\ \A i \in 1..(Len(L) + Len(Y)) : M[i] = IF i <= Len(L) THEN L[i] ELSE Y[i - Len(L)]
    BY <1>1, <1>2, ConcatProperties
  <2> HIDE DEF M
  <2>2. /\ Len(M) = Len(a) + 2 /\ M[Len(a) + 2] = y
        /\ \A i \in 1..(Len(a) + 1) : M[i] = L[i]
    BY <1>0, <1>1, <1>2, <2>1
  <2> QED
    BY <2>2 DEF M
<1>5. \A i \in 1..Len(a) : i + 1 \in 1..(Len(a) + 1)
  BY <1>0
<1>6. M[1] = x /\ \A i \in 1..Len(a) : M[i + 1] = a[i]
  <2>1. \A i \in 1..(Len(a) + 1) : M[i] = L[i]
    BY <1>3
  <2> HIDE DEF M
  <2>2. 1 \in 1..(Len(a) + 1)
    BY <1>0
  <2> QED
    BY <1>2, <1>5, <2>1, <2>2
<1> QED
  BY <1>3, <1>6 DEF L, M, X, Y

\* The statements of the program under the lock, by their place.
LEMMA LockedStatements ==
  ASSUME Serial
  PROVE  /\ Len(Body) = 14
         /\ Body[1] = "lock" /\ Body[2] = "map++" /\ Body[3] = "map++'"
         /\ Body[4] = "ref++" /\ Body[5] = "ref++'" /\ Body[6] = "pte=1"
         /\ Body[7] = "pte=0" /\ Body[8] = "map--" /\ Body[9] = "map--'"
         /\ Body[10] = "ref--" /\ Body[11] = "ref--'" /\ Body[12] = "last"
         /\ Body[13] = "free" /\ Body[14] = "unlock"
<1>1. Body = <<"lock">> \o Plain \o <<"unlock">>
  BY DEF Serial, Body, Bodies, Locked
<1> DEFINE S == {"lock", "map++", "map++'", "ref++", "ref++'", "pte=1", "pte=0", "map--",
                 "map--'", "ref--", "ref--'", "last", "free", "unlock"}
<1>2. Plain \in Seq(S) /\ "lock" \in S /\ "unlock" \in S
  BY DEF Plain
<1>2a. Len(Plain) = 12
  BY DEF Plain
<1>3. /\ Plain[1] = "map++" /\ Plain[2] = "map++'" /\ Plain[3] = "ref++" /\ Plain[4] = "ref++'"
      /\ Plain[5] = "pte=1" /\ Plain[6] = "pte=0" /\ Plain[7] = "map--" /\ Plain[8] = "map--'"
      /\ Plain[9] = "ref--" /\ Plain[10] = "ref--'" /\ Plain[11] = "last" /\ Plain[12] = "free"
  BY DEF Plain
<1> HIDE DEF S
<1>4. /\ Len(Body) = Len(Plain) + 2 /\ Body[1] = "lock" /\ Body[Len(Plain) + 2] = "unlock"
      /\ \A i \in 1..Len(Plain) : Body[i + 1] = Plain[i]
  BY <1>1, <1>2, Bracketed
<1>5. /\ Len(Body) = 14 /\ Body[1] = "lock" /\ Body[14] = "unlock"
      /\ \A i \in 1..12 : Body[i + 1] = Plain[i]
  BY <1>2a, <1>4
<1>6. /\ Body[2] = Plain[1] /\ Body[3] = Plain[2] /\ Body[4] = Plain[3] /\ Body[5] = Plain[4]
      /\ Body[6] = Plain[5] /\ Body[7] = Plain[6] /\ Body[8] = Plain[7] /\ Body[9] = Plain[8]
      /\ Body[10] = Plain[9] /\ Body[11] = Plain[10] /\ Body[12] = Plain[11]
      /\ Body[13] = Plain[12]
  BY <1>5
<1> QED
  BY <1>3, <1>5, <1>6

\* With atomic counters the count is the number of the threads between their
\* get and their put.
CountedInv == /\ pc \in [Threads -> 1..10] /\ refcount = Cardinality(Holders)

\* Under the lock only its holder is at work, and the counters are what its
\* place says: nobody stores a value that another thread has made stale.
SerialInv ==
  /\ pc \in [Threads -> 1..15] /\ ptl \in Threads \cup {Free} /\ reg \in [Threads -> Int]
  /\ \A t \in Threads : pc[t] \in 2..14 <=> ptl = t
  /\ \A t \in Threads : ptl = t =>
       /\ mapcount = IF pc[t] \in 4..9 THEN 1 ELSE 0
       /\ refcount = IF pc[t] \in 6..11 THEN 1 ELSE 0
       /\ pc[t] \in {3, 5} => reg[t] = 0
       /\ pc[t] \in {9, 11} => reg[t] = 1
  /\ ptl = Free => mapcount = 0 /\ refcount = 0

\* What every step keeps in these two programs.
BalanceInv == (Counted => CountedInv) /\ (Serial => SerialInv)

\* A thread of the program with atomic counters is at a statement of its body.
LEMMA AtomicPlace ==
  ASSUME Counted, CountedInv, NEW t \in Threads
  PROVE  /\ pc[t] \in 1..10 /\ (Done(t) <=> pc[t] = 10)
         /\ \A s : At(t, s) => pc[t] \in 1..9 /\ Body[pc[t]] = s
         /\ At(t, "get") => pc[t] = 1
         /\ At(t, "put") => pc[t] = 8
         /\ At(t, "free") => pc[t] = 9
         /\ \A s \in {"map++", "map++'", "pte=1", "pte=0", "map--", "map--'"} : At(t, s) => pc[t] \in 2..7
         /\ ~At(t, "ref++") /\ ~At(t, "ref--") /\ ~At(t, "ref++'") /\ ~At(t, "ref--'")
         /\ ~At(t, "tryget") /\ ~At(t, "last") /\ ~At(t, "lock") /\ ~At(t, "unlock")
<1>1. Len(Body) = 9 /\ pc[t] \in 1..10
  BY AtomicStatements DEF CountedInv
<1>2. Done(t) <=> pc[t] = 10
  BY <1>1 DEF Done
<1>3. \A s : At(t, s) => pc[t] \in {1, 2, 3, 4, 5, 6, 7, 8, 9} /\ Body[pc[t]] = s
  BY <1>1, <1>2 DEF At
<1> QED
  BY <1>1, <1>2, <1>3, AtomicStatements

\* A step of a thread of the program with atomic counters keeps the count.
LEMMA AtomicStep ==
  ASSUME Counted, CountedInv, NEW t \in Threads, Thread(t)
  PROVE  CountedInv'
<1>0. /\ pc \in [Threads -> 1..10] /\ pc[t] \in 1..10 /\ refcount = Cardinality(Holders)
      /\ Holders \subseteq Threads
  BY DEF CountedInv, Holders
<1>1. CASE LoadMap(t) \/ StoreMap(t) \/ SetPte(t)
  <2>1. pc[t] \in 2..7
    BY <1>1, AtomicPlace DEF LoadMap, StoreMap, SetPte, PteStore
  <2>2. pc' = [pc EXCEPT ![t] = @ + 1] /\ refcount' = refcount
    BY <1>1 DEF LoadMap, StoreMap, SetPte, Step
  <2>3. pc' \in [Threads -> 1..10]
    BY <1>0, <2>1, <2>2
  <2>4. Holders' = Holders
    BY <1>0, <2>1, <2>2 DEF Holders
  <2> QED
    BY <1>0, <2>2, <2>3, <2>4 DEF CountedInv
<1>2. CASE Get(t)
  <2>1. pc[t] = 1 /\ pc' = [pc EXCEPT ![t] = @ + 1] /\ refcount' = refcount + 1
    BY <1>2, AtomicPlace DEF Get, Step
  <2>2. pc' \in [Threads -> 1..10] /\ Holders' = Holders \cup {t} /\ t \notin Holders
    BY <1>0, <2>1 DEF Holders
  <2>3. Cardinality(Holders') = Cardinality(Holders) + 1
    BY <2>2, HoldersFinite, FS_AddElement
  <2> QED
    BY <1>0, <2>1, <2>2, <2>3 DEF CountedInv
<1>3. CASE Put(t)
  <2>1. pc[t] = 8 /\ pc' = [pc EXCEPT ![t] = @ + 1] /\ refcount' = refcount - 1
    BY <1>3, AtomicPlace DEF Put, Step, DecAndTest
  <2>2. pc' \in [Threads -> 1..10] /\ Holders' = Holders \ {t} /\ t \in Holders
    BY <1>0, <2>1 DEF Holders
  <2>3. Cardinality(Holders') = Cardinality(Holders) - 1
    BY <2>2, HoldersFinite, FS_RemoveElement
  <2> QED
    BY <1>0, <2>1, <2>2, <2>3 DEF CountedInv
<1>4. CASE FreeIfLast(t)
  <2>1. pc[t] = 9 /\ pc' = [pc EXCEPT ![t] = @ + 1] /\ refcount' = refcount
    BY <1>4, AtomicPlace DEF FreeIfLast, Step
  <2>2. pc' \in [Threads -> 1..10] /\ Holders' = Holders
    BY <1>0, <2>1 DEF Holders
  <2> QED
    BY <1>0, <2>1, <2>2 DEF CountedInv
<1>5. ~(LoadRef(t) \/ StoreRef(t) \/ TryGetRef(t) \/ Test(t) \/ Lock(t) \/ Unlock(t))
  BY AtomicPlace DEF LoadRef, StoreRef, TryGetRef, Test, Lock, Unlock
<1> QED
  BY <1>1, <1>2, <1>3, <1>4, <1>5 DEF Thread

\* A thread of the program under the lock is at a statement of its body.
LEMMA LockedPlace ==
  ASSUME Serial, SerialInv, NEW t \in Threads
  PROVE  /\ pc[t] \in 1..15 /\ (Done(t) <=> pc[t] = 15)
         /\ At(t, "lock") => pc[t] = 1
         /\ At(t, "map++") => pc[t] = 2
         /\ At(t, "map++'") => pc[t] = 3
         /\ At(t, "ref++") => pc[t] = 4
         /\ At(t, "ref++'") => pc[t] = 5
         /\ At(t, "pte=1") => pc[t] = 6
         /\ At(t, "pte=0") => pc[t] = 7
         /\ At(t, "map--") => pc[t] = 8
         /\ At(t, "map--'") => pc[t] = 9
         /\ At(t, "ref--") => pc[t] = 10
         /\ At(t, "ref--'") => pc[t] = 11
         /\ At(t, "last") => pc[t] = 12
         /\ At(t, "free") => pc[t] = 13
         /\ At(t, "unlock") => pc[t] = 14
         /\ ~At(t, "get") /\ ~At(t, "put") /\ ~At(t, "tryget")
<1>1. Len(Body) = 14 /\ pc[t] \in 1..15
  BY LockedStatements DEF SerialInv
<1>2. Done(t) <=> pc[t] = 15
  BY <1>1 DEF Done
<1>3. \A s : At(t, s) => pc[t] \in {1, 2, 3, 4, 5, 6, 7, 8, 9, 10, 11, 12, 13, 14} /\ Body[pc[t]] = s
  BY <1>1, <1>2 DEF At
<1> QED
  BY <1>1, <1>2, <1>3, LockedStatements

\* A step of the holder of the lock to the next statement of its body, with the
\* counters and the register that belong to it.
LEMMA LockedGoesOn ==
  ASSUME SerialInv, NEW t \in Threads, pc[t] \in 2..13, Step(t), UNCHANGED ptl,
         reg' \in [Threads -> Int],
         mapcount' = IF pc[t] + 1 \in 4..9 THEN 1 ELSE 0,
         refcount' = IF pc[t] + 1 \in 6..11 THEN 1 ELSE 0,
         pc[t] + 1 \in {3, 5} => reg'[t] = 0,
         pc[t] + 1 \in {9, 11} => reg'[t] = 1
  PROVE  SerialInv'
<1>1. ptl = t /\ pc' = [pc EXCEPT ![t] = @ + 1] /\ pc \in [Threads -> 1..15] /\ t # Free
  BY DisciplineAssumption DEF SerialInv, Step, DisciplineAssumption, Free
<1>2. pc' \in [Threads -> 1..15] /\ pc'[t] = pc[t] + 1 /\ \A u \in Threads : u # t => pc'[u] = pc[u]
  BY <1>1
<1>3. \A u \in Threads : pc'[u] \in 2..14 <=> ptl = u
  BY <1>1, <1>2 DEF SerialInv
<1> QED
  BY <1>1, <1>2, <1>3 DEF SerialInv

\* A step of a thread of the program under the lock keeps its invariant.
LEMMA LockedStep ==
  ASSUME Serial, SerialInv, NEW t \in Threads, Thread(t)
  PROVE  SerialInv'
<1>0. /\ pc \in [Threads -> 1..15] /\ pc[t] \in 1..15 /\ reg \in [Threads -> Int]
      /\ pc[t] \in 2..14 => ptl = t
      /\ ptl = t => /\ mapcount = IF pc[t] \in 4..9 THEN 1 ELSE 0
                    /\ refcount = IF pc[t] \in 6..11 THEN 1 ELSE 0
                    /\ pc[t] \in {3, 5} => reg[t] = 0
                    /\ pc[t] \in {9, 11} => reg[t] = 1
      /\ t # Free
  BY DisciplineAssumption DEF SerialInv, DisciplineAssumption, Free
<1>1. CASE LoadMap(t)
  <2>1. pc[t] \in {2, 8} /\ Step(t) /\ reg' = [reg EXCEPT ![t] = mapcount] /\ UNCHANGED <<refcount, mapcount, ptl>>
    BY <1>1, LockedPlace DEF LoadMap
  <2>2. mapcount \in Int
    BY <1>0, <2>1
  <2>3. reg' \in [Threads -> Int] /\ reg'[t] = mapcount
    BY <1>0, <2>1, <2>2
  <2> QED
    BY <1>0, <2>1, <2>3, LockedGoesOn
<1>2. CASE StoreMap(t)
  <2>1. /\ (pc[t] = 3 /\ mapcount' = reg[t] + 1) \/ (pc[t] = 9 /\ mapcount' = reg[t] - 1)
        /\ Step(t) /\ UNCHANGED <<refcount, ptl, reg>>
    BY <1>2, LockedPlace DEF StoreMap
  <2> QED
    BY <1>0, <2>1, LockedGoesOn
<1>3. CASE LoadRef(t)
  <2>1. pc[t] \in {4, 10} /\ Step(t) /\ reg' = [reg EXCEPT ![t] = refcount] /\ UNCHANGED <<refcount, mapcount, ptl>>
    BY <1>3, LockedPlace DEF LoadRef
  <2>2. refcount \in Int
    BY <1>0, <2>1
  <2>3. reg' \in [Threads -> Int] /\ reg'[t] = refcount
    BY <1>0, <2>1, <2>2
  <2> QED
    BY <1>0, <2>1, <2>3, LockedGoesOn
<1>4. CASE StoreRef(t)
  <2>1. /\ (pc[t] = 5 /\ refcount' = reg[t] + 1) \/ (pc[t] = 11 /\ refcount' = reg[t] - 1)
        /\ Step(t) /\ UNCHANGED <<mapcount, ptl, reg>>
    BY <1>4, LockedPlace DEF StoreRef
  <2> QED
    BY <1>0, <2>1, LockedGoesOn
<1>5. CASE SetPte(t) \/ Test(t) \/ FreeIfLast(t)
  <2>1. pc[t] \in {6, 7, 12, 13} /\ Step(t) /\ UNCHANGED <<refcount, mapcount, ptl, reg>>
    BY <1>5, LockedPlace DEF SetPte, PteStore, Test, FreeIfLast
  <2> QED
    BY <1>0, <2>1, LockedGoesOn
<1>6. CASE Lock(t)
  <2>1. /\ pc[t] = 1 /\ pc' = [pc EXCEPT ![t] = @ + 1] /\ ptl = Free /\ ptl' = t
        /\ UNCHANGED <<refcount, mapcount, reg>>
    BY <1>6, LockedPlace DEF Lock, Step
  <2>2. pc' \in [Threads -> 1..15] /\ pc'[t] = 2 /\ \A u \in Threads : u # t => pc'[u] = pc[u]
    BY <1>0, <2>1
  <2>3. \A u \in Threads : u # Free
    BY DisciplineAssumption DEF DisciplineAssumption, Free
  <2>4. \A u \in Threads : pc'[u] \in 2..14 <=> ptl' = u
    BY <2>1, <2>2, <2>3 DEF SerialInv
  <2> QED
    BY <1>0, <2>1, <2>2, <2>4 DEF SerialInv
<1>7. CASE Unlock(t)
  <2>1. /\ pc[t] = 14 /\ pc' = [pc EXCEPT ![t] = @ + 1] /\ ptl' = Free
        /\ UNCHANGED <<refcount, mapcount, reg>>
    BY <1>7, LockedPlace DEF Unlock, Step
  <2>2. pc' \in [Threads -> 1..15] /\ pc'[t] = 15 /\ \A u \in Threads : u # t => pc'[u] = pc[u]
    BY <1>0, <2>1
  <2>3. \A u \in Threads : u # Free
    BY DisciplineAssumption DEF DisciplineAssumption, Free
  <2>4. \A u \in Threads : pc'[u] \in 2..14 <=> ptl' = u
    BY <1>0, <2>1, <2>2, <2>3 DEF SerialInv
  <2>5. mapcount' = 0 /\ refcount' = 0
    BY <1>0, <2>1
  <2> QED
    BY <1>0, <2>1, <2>2, <2>3, <2>4, <2>5 DEF SerialInv
<1>8. ~(Get(t) \/ TryGetRef(t) \/ Put(t))
  BY LockedPlace DEF Get, TryGetRef, Put
<1> QED
  BY <1>1, <1>2, <1>3, <1>4, <1>5, <1>6, <1>7, <1>8 DEF Thread

\* With atomic counters, and under one lock, whatever the interleaving and the
\* number of threads, nothing is counted once all have zapped what they
\* faulted in (the last assertions of pgcl_cluster_atomic.c and _locked.c).
THEOREM Balances == Spec => []FinallyBalanced
<1>1. Init => BalanceInv
  <2> SUFFICES ASSUME Init PROVE BalanceInv
    OBVIOUS
  <2>1. /\ pc \in [Threads -> {1}] /\ reg \in [Threads -> {0}] /\ ptl = Free
        /\ mapcount = 0 /\ (discipline # "tryget" => refcount = 0)
    BY DEF Init, Guarded
  <2>2. Counted => CountedInv
    <3>1. Holders = {}
      BY <2>1 DEF Holders
    <3> QED
      BY <2>1, <3>1, FS_EmptySet DEF Counted, CountedInv
  <2>3. Serial => SerialInv
    <3>1. \A t \in Threads : t # Free
      BY DisciplineAssumption DEF DisciplineAssumption, Free
    <3> QED
      BY <2>1, <3>1 DEF Serial, SerialInv
  <2> QED
    BY <2>2, <2>3 DEF BalanceInv
<1>2. BalanceInv /\ [Next]_vars => BalanceInv'
  <2> SUFFICES ASSUME BalanceInv, [Next]_vars PROVE BalanceInv'
    OBVIOUS
  <2>1. UNCHANGED discipline
    BY SameProgram
  <2>2. ASSUME NEW t \in Threads, Thread(t) PROVE BalanceInv'
    BY <2>1, <2>2, AtomicStep, LockedStep DEF BalanceInv, Counted, Serial
  <2>3. CASE UNCHANGED <<refcount, mapcount, ptl, pc, reg>>
    <3>1. Holders' = Holders
      BY <2>3 DEF Holders
    <3> QED
      BY <2>1, <2>3, <3>1 DEF BalanceInv, Counted, Serial, CountedInv, SerialInv
  <2>4. CASE MainPut
    BY <2>1, <2>4 DEF MainPut, Guarded, BalanceInv, Counted, Serial
  <2> QED
    BY <2>2, <2>3, <2>4 DEF Next, MainFree, Finished, vars
<1>3. BalanceInv => FinallyBalanced
  <2> SUFFICES ASSUME BalanceInv, AllDone
               PROVE  /\ Counted => refcount = 0
                      /\ Serial => refcount = 0 /\ mapcount = 0
    BY DEF FinallyBalanced, Counted, Serial
  <2>1. ASSUME Counted PROVE refcount = 0
    <3>1. CountedInv
      BY <2>1 DEF BalanceInv
    <3>2. \A t \in Threads : pc[t] = 10
      BY <2>1, <3>1, AtomicPlace DEF AllDone
    <3>3. Holders = {}
      BY <3>2 DEF Holders
    <3> QED
      BY <3>1, <3>3, FS_EmptySet DEF CountedInv
  <2>2. ASSUME Serial PROVE refcount = 0 /\ mapcount = 0
    <3>1. SerialInv
      BY <2>2 DEF BalanceInv
    <3>2. \A t \in Threads : pc[t] = 15
      BY <2>2, <3>1, LockedPlace DEF AllDone
    <3>3. ptl = Free
      BY <3>1, <3>2 DEF SerialInv
    <3> QED
      BY <3>1, <3>3 DEF SerialInv
  <2> QED
    BY <2>1, <2>2
<1> QED
  BY <1>1, <1>2, <1>3, PTL DEF Spec
=============================================================================
