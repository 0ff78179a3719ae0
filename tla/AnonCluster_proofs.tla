------------------------- MODULE AnonCluster_proofs -------------------------
(***************************************************************************)
(* What holds of AnonCluster for every number of frames, address spaces,   *)
(* fault contexts and hardware pages per kernel page.                      *)
(***************************************************************************)
EXTENDS AnonCluster, FiniteSetTheorems, TLAPS

----------------------------------------------------------------------------
(* Arithmetic of clusters *)

\* Division of MMUPAGE numbers by the cluster size.
LEMMA DivMod ==
  ASSUME NEW v \in Nat
  PROVE  /\ ClusterOf(v) \in Nat /\ SubOf(v) \in Sub
         /\ v = N * ClusterOf(v) + SubOf(v)
  BY ClusterAssumption, SMT DEF ClusterOf, SubOf, Sub

\* Inside one cluster the distance of two pages is that of their sub-pages.
LEMMA SameCluster ==
  ASSUME NEW v \in Nat, NEW u \in Nat, ClusterOf(u) = ClusterOf(v), v <= u
  PROVE  u - v = SubOf(u) - SubOf(v) /\ u - v \in Sub /\ u - v <= SubOf(u)
  <1>1. u = N * ClusterOf(u) + SubOf(u) /\ SubOf(u) \in Sub
    BY DivMod
  <1>2. v = N * ClusterOf(v) + SubOf(v) /\ SubOf(v) \in Sub
    BY DivMod
  <1>3. N * ClusterOf(u) \in Int
    BY DivMod, ClusterAssumption
  <1> QED
    BY <1>1, <1>2, <1>3, ClusterAssumption DEF Sub

\* Pages and address spaces are natural numbers.
LEMMA PageNat == Page \subseteq Nat /\ Mm \subseteq Nat /\ Root \in Mm
  BY ClusterAssumption DEF Page, Mm, Root

----------------------------------------------------------------------------
(* The inductive strengthening of the type invariant *)

\* A PTE maps no sub-page beyond the one its address stands for.
SubBelow == \A m \in Mm, v \in Page : pte[m][v].s <= SubOf(v)
PteOK == pte \in [Mm -> [Page -> Entry]] /\ SubBelow

\* A fault that has taken a folio, or a migration that runs, names one.
CtxHolds ==
  \A t \in Context :
    /\ ctx[t].st \in {"wp", "wpc"} => ctx[t].old \in Frame
    /\ ctx[t].st \in {"anon", "wpc"} => ctx[t].new \in Frame
MigHasFolios ==
  mig.ph # "idle" => mig.src \in Frame /\ mig.dst \in Frame /\ mig.to \in Frame

IInv == TypeOK /\ SubBelow /\ CtxHolds /\ MigHasFolios

\* Sets of pages are finite.
LEMMA PagesFinite ==
  ASSUME NEW S \in SUBSET Page
  PROVE  IsFiniteSet(S) /\ Cardinality(S) \in Nat
  <1>1. IsFiniteSet(Page)
    BY FS_Interval, ClusterAssumption DEF Page
  <1> QED
    BY <1>1, FS_Subset, FS_CardinalityType

\* A counter that goes up or down by a number stays a counter.
LEMMA CountType ==
  ASSUME NEW A, NEW r \in [A -> Int], NEW a \in A, NEW d \in Int
  PROVE  /\ [r EXCEPT ![a] = @ + d] \in [A -> Int] /\ [r EXCEPT ![a] = @ - d] \in [A -> Int]
         /\ [r EXCEPT ![a] = d] \in [A -> Int]
  OBVIOUS
\* So do two of them in one step: a COW commit moves counts from folio to folio.
LEMMA CountTypeTwo ==
  ASSUME NEW A, NEW r \in [A -> Int], NEW a \in A, NEW b \in A, NEW d \in Int
  PROVE  /\ [r EXCEPT ![a] = @ + d, ![b] = @ - d] \in [A -> Int]
         /\ [r EXCEPT ![a] = d, ![b] = @ - d] \in [A -> Int]
  OBVIOUS

\* A present entry is an entry.
LEMMA EntryMap ==
  ASSUME NEW f \in Frame, NEW s \in Sub, NEW p \in {"rw", "ro"}
  PROVE  MapTo(f, s, p) \in Entry /\ MapTo(f, s, p).s = s
  BY DEF MapTo, Entry

\* So is a migration entry.
LEMMA EntryMig ==
  ASSUME NEW f \in Frame, NEW s \in Sub, NEW p \in {"rw", "rx", "ro"}
  PROVE  MigTo(f, s, p) \in Entry /\ MigTo(f, s, p).s = s
  BY DEF MigTo, Entry

\* So is an empty one.
LEMMA EntryAbsent == Absent \in Entry /\ Absent.s = 0
  BY ClusterAssumption DEF Absent, Entry

\* What the fields of an entry range over.
LEMMA EntryFields ==
  ASSUME NEW e \in Entry
  PROVE  /\ e.s \in Nat /\ e.k \in {"none", "map", "mig"}
         /\ e.k = "map" => e.f \in Frame /\ e.s \in Sub /\ e.p \in {"rw", "ro"}
         /\ e.k = "mig" => e.f \in Frame /\ e.s \in Sub /\ e.p \in {"rw", "rx", "ro"}
  BY ClusterAssumption DEF Entry, Absent, Sub

\* Overwriting some entries of a page table with well-formed ones.
LEMMA InstallType ==
  ASSUME PteOK, NEW m \in Mm, NEW S \in SUBSET Page, NEW new,
         DOMAIN new = S,
         \A u \in S : new[u] \in Entry /\ new[u].s <= SubOf(u),
         pte' = Install(m, new)
  PROVE  PteOK'
  <1>1. pte' = [pte EXCEPT ![m] = [v \in Page |-> IF v \in S THEN new[v] ELSE pte[m][v]]]
    BY Zenon DEF Install, PteOK
  <1>2. pte' \in [Mm -> [Page -> Entry]]
    BY <1>1 DEF PteOK
  <1>3. ASSUME NEW n \in Mm, NEW v \in Page
        PROVE  pte'[n][v].s <= SubOf(v)
    BY <1>1 DEF PteOK, SubBelow
  <1> QED
    BY <1>2, <1>3 DEF PteOK, SubBelow

\* folio_put keeps the types.
LEMMA PutType ==
  ASSUME ref \in [Frame -> Int], data \in [Frame -> [Sub -> Val]],
         excl \in [Frame -> BOOLEAN], NEW F, Put(F)
  PROVE  /\ ref' \in [Frame -> Int] /\ data' \in [Frame -> [Sub -> Val]]
         /\ excl' \in [Frame -> BOOLEAN]
  <1>1. ref' \in [Frame -> Int]
    BY DEF Put
  <1>2. ZeroFrame \in [Sub -> Val]
    BY DataAssumption DEF ZeroFrame
  <1>3. data' \in [Frame -> [Sub -> Val]]
    BY <1>2 DEF Put
  <1>4. excl' \in [Frame -> BOOLEAN]
    BY DEF Put
  <1> QED
    BY <1>1, <1>3, <1>4

----------------------------------------------------------------------------
(* Every step preserves the inductive type invariant *)

\* An idle context is a context.
LEMMA IdleType == Idle \in CtxType /\ Idle.st = "idle"
  BY EntryAbsent, PageNat, ClusterAssumption DEF Idle, CtxStates, FrameOrNone, Page, CtxType

\* The invariant holds at first.
LEMMA TypeInit == Init => IInv
  <1> SUFFICES ASSUME Init PROVE IInv
    OBVIOUS
  <1>1. PteOK
    <2>1. \A v \in Page : SubOf(v) \in Nat
      BY PageNat, DivMod, ClusterAssumption DEF Sub
    <2> QED
      BY <2>1, EntryAbsent DEF Init, PteOK, SubBelow
  <1>2. ZeroFrame \in [Sub -> Val]
    BY DataAssumption DEF ZeroFrame
  <1>3. VmaFirst \in Page /\ VmaFirst \in VmaFirst..(VmaLast + 1) /\ ClusterOf(VmaFirst) \in Nat
    BY ClusterAssumption, DivMod DEF Page
  <1>5. NoFork \in [p : Mm, c : Mm, pos : VmaFirst..(VmaLast + 1)]
    BY <1>3, PageNat DEF NoFork
  <1>6. MigIdle \in MigType
    BY PageNat, ClusterAssumption DEF MigIdle, MigPhases, FrameOrNone, MigType
  <1>7. TypeOK
    BY <1>1, <1>2, <1>3, IdleType, <1>5, <1>6 DEF TypeOK, Init, PteOK
  <1>8. CtxHolds /\ MigHasFolios
    BY DEF Init, CtxHolds, MigHasFolios, Idle, MigIdle
  <1> QED
    BY <1>1, <1>7, <1>8 DEF IInv, PteOK

\* Faults and stores preserve it.
LEMMA FaultType ==
  ASSUME IInv, FaultNext
  PROVE  IInv'
  <1> USE DEF IInv, CtxType
  <1>0. PteOK /\ TypeOK
    BY DEF PteOK, TypeOK
  <1>1. ASSUME NEW m \in Mm, NEW v \in Page, NEW x \in Val, Store(m, v, x)
        PROVE  IInv'
    <2>1. data' \in [Frame -> [Sub -> Val]]
      BY <1>1, <1>0 DEF Store, TypeOK
    <2> QED
      BY <1>1, <2>1 DEF Store, TypeOK, SubBelow, CtxHolds, MigHasFolios
  <1>2. ASSUME NEW t \in Context, NEW m \in Mm, NEW v \in Page, NEW f \in Frame,
               AnonAlloc(t, m, v, f)
        PROVE  IInv'
    <2>1. data' \in [Frame -> [Sub -> Val]] /\ ref' \in [Frame -> Int]
      BY <1>2, DataAssumption DEF AnonAlloc, TypeOK, ZeroFrame
    <2>2. ctx' \in [Context -> CtxType]
      BY <1>2, EntryAbsent DEF AnonAlloc, TypeOK, CtxStates, FrameOrNone, Idle
    <2>3. CtxHolds'
      BY <1>2 DEF AnonAlloc, TypeOK, CtxHolds, Idle
    <2> QED
      BY <1>2, <2>1, <2>2, <2>3 DEF AnonAlloc, TypeOK, SubBelow, MigHasFolios
  <1>3. ASSUME NEW t \in Context, AnonMap(t)
        PROVE  IInv'
    <2> DEFINE m == ctx[t].m  v == ctx[t].v  f == ctx[t].new
    <2>1. m \in Mm /\ v \in Page /\ f \in Frame
      BY <1>3 DEF AnonMap, TypeOK, CtxHolds
    <2>2. PICK S \in AnonTargets(m, v) :
            /\ pte' = Install(m, [u \in S |-> MapTo(f, SubOf(u), "rw")])
            /\ ref' = [ref EXCEPT ![f] = @ + (Cardinality(S) - 1)]
            /\ mapc' = [mapc EXCEPT ![f] = Cardinality(S)]
            /\ rss' = [rss EXCEPT ![m] = @ + AnonRss(Cardinality(S))]
      BY <1>3 DEF AnonMap
    <2>3. S \in SUBSET Page
      BY <2>1, <2>2 DEF AnonTargets, Cluster
    <2>4. Cardinality(S) \in Nat
      BY <2>3, PagesFinite
    <2>5. ASSUME NEW u \in S
          PROVE  MapTo(f, SubOf(u), "rw") \in Entry /\ MapTo(f, SubOf(u), "rw").s = SubOf(u)
      BY <2>1, <2>3, EntryMap, DivMod, PageNat
    <2>6. PteOK'
      <3> DEFINE new == [u \in S |-> MapTo(f, SubOf(u), "rw")]
      <3>1. \A u \in S : new[u] \in Entry /\ new[u].s <= SubOf(u)
        BY <2>3, <2>5, DivMod, PageNat, ClusterAssumption DEF Sub
      <3>2. pte' = Install(m, new) /\ DOMAIN new = S
        BY <2>2
      <3> HIDE DEF new
      <3> QED
        BY <1>0, <2>1, <2>3, <3>1, <3>2, InstallType
    <2>7. /\ ref' \in [Frame -> Int] /\ mapc' \in [Frame -> Int] /\ rss' \in [Mm -> Int]
      <3>1. ref' \in [Frame -> Int]
        <4>1. Cardinality(S) - 1 \in Int
          BY <2>4
        <4> QED
          BY <2>1, <2>2, <4>1, CountType DEF TypeOK
      <3>2. mapc' \in [Frame -> Int]
        BY <2>1, <2>2, <2>4, CountType DEF TypeOK
      <3>3. rss' \in [Mm -> Int]
        BY <2>1, <2>2, <2>4, CountType DEF TypeOK, AnonRss
      <3> QED
        BY <3>1, <3>2, <3>3
    <2>8. idx' \in [Frame -> Nat] /\ excl' \in [Frame -> BOOLEAN]
      BY <1>3, <2>1, DivMod, PageNat DEF AnonMap, TypeOK
    <2>9. /\ ctx' \in [Context -> CtxType]
          /\ CtxHolds'
      BY <1>3, IdleType DEF AnonMap, TypeOK, CtxHolds
    <2> QED
      BY <1>3, <2>6, <2>7, <2>8, <2>9 DEF AnonMap, TypeOK, PteOK, MigHasFolios
  <1>4. ASSUME NEW t \in Context, AnonStale(t) \/ WpOom(t) \/ WpStale(t)
        PROVE  IInv'
    <2>1. PICK F : Put(F)
      BY <1>4 DEF AnonStale, WpOom, WpStale
    <2>2. /\ ref' \in [Frame -> Int] /\ data' \in [Frame -> [Sub -> Val]]
          /\ excl' \in [Frame -> BOOLEAN]
      BY <2>1, PutType DEF TypeOK
    <2>3. /\ ctx' = [ctx EXCEPT ![t] = Idle]
          /\ UNCHANGED <<pte, mapc, idx, rss, deferred, pin, fork, mig, stage>>
      BY <1>4 DEF AnonStale, WpOom, WpStale
    <2> QED
      BY IdleType, <2>2, <2>3 DEF TypeOK, SubBelow, CtxHolds, MigHasFolios
  <1>5. ASSUME NEW t \in Context, NEW m \in Mm, NEW v \in Page, WpFault(t, m, v)
        PROVE  IInv'
    <2> DEFINE f == pte[m][v].f
    <2>1. pte[m][v] \in Entry /\ f \in Frame
      BY <1>5, EntryFields DEF WpFault, WpFaulting, TypeOK
    <2>2. ref' \in [Frame -> Int]
      BY <1>5, <2>1 DEF WpFault, TypeOK
    <2>3. ctx' \in [Context -> CtxType] /\ CtxHolds'
      BY <1>5, <2>1, IdleType DEF WpFault, TypeOK, CtxHolds, CtxStates, FrameOrNone, Idle
    <2> QED
      BY <1>5, <2>2, <2>3 DEF WpFault, TypeOK, SubBelow, MigHasFolios
  <1>6. ASSUME NEW t \in Context, NEW m \in Mm, NEW v \in Page, WpReuse(t, m, v)
        PROVE  IInv'
    <2> DEFINE e == pte[m][v]
    <2>1. e \in Entry /\ e.k = "map" /\ e.f \in Frame /\ e.s \in Sub
      BY <1>6, EntryFields DEF WpReuse, WpFaulting, TypeOK
    <2>2. [e EXCEPT !.p = "rw"] \in Entry /\ [e EXCEPT !.p = "rw"].s = e.s
      BY <2>1 DEF Entry, Absent
    <2>3. pte' \in [Mm -> [Page -> Entry]] /\ SubBelow'
      BY <1>6, <2>2 DEF WpReuse, TypeOK, SubBelow
    <2> QED
      BY <1>6, <2>1, <2>3 DEF WpReuse, TypeOK, CtxHolds, MigHasFolios
  <1>7. ASSUME NEW t \in Context, NEW new \in Frame, WpCopy(t, new)
        PROVE  IInv'
    <2>1. ctx[t].old \in Frame /\ ctx[t] \in CtxType
      BY <1>7 DEF WpCopy, TypeOK, CtxHolds
    <2>2. /\ ref' \in [Frame -> Int] /\ data' \in [Frame -> [Sub -> Val]]
      BY <1>7, <2>1 DEF WpCopy, TypeOK
    <2>3. ctx' \in [Context -> CtxType]
      BY <1>7, <2>1 DEF WpCopy, TypeOK, CtxStates, FrameOrNone
    <2>4. CtxHolds'
      BY <1>7, <2>1 DEF WpCopy, TypeOK, CtxHolds
    <2> QED
      BY <1>7, <2>2, <2>3, <2>4 DEF WpCopy, TypeOK, SubBelow, MigHasFolios
  <1>8. ASSUME NEW t \in Context, WpCommit(t)
        PROVE  IInv'
    <2> DEFINE m == ctx[t].m  v == ctx[t].v  old == ctx[t].old  new == ctx[t].new
               S == {u \in Cluster(v) : Maps(m, u, old)}
               es == [u \in S |-> MovedPte(new, pte[m][u])]
    <2>1. m \in Mm /\ v \in Page /\ old \in Frame /\ new \in Frame
      BY <1>8 DEF WpCommit, TypeOK, CtxHolds
    <2>2. S \in SUBSET Page
      BY DEF Cluster
    <2>3. Cardinality(S) \in Nat
      BY <2>2, PagesFinite
    <2>4. pte' = Install(m, es) /\ DOMAIN es = S
      BY <1>8 DEF WpCommit
    <2>5. ASSUME NEW u \in S
          PROVE  es[u] \in Entry /\ es[u].s <= SubOf(u)
      <3>1. pte[m][u] \in Entry /\ pte[m][u].s \in Sub /\ pte[m][u].s <= SubOf(u)
        BY <2>1, <2>2, EntryFields DEF TypeOK, SubBelow, Maps
      <3>2. es[u] = MapTo(new, pte[m][u].s, "rw")
        BY DEF MovedPte
      <3> QED
        BY <2>1, <3>1, <3>2, EntryMap
    <2> HIDE DEF es
    <2>6. PteOK'
      BY <1>0, <2>1, <2>2, <2>4, <2>5, InstallType
    <2>7. /\ ref' \in [Frame -> Int] /\ mapc' \in [Frame -> Int]
          /\ deferred' \in [Frame -> Nat] /\ excl' \in [Frame -> BOOLEAN]
          /\ idx' \in [Frame -> Nat]
      <3>1. ref' = [ref EXCEPT ![new] = @ + (Cardinality(S) - 1),
                               ![old] = @ - (Cardinality(S) - 1)]
        BY <1>8 DEF WpCommit
      <3>2. mapc' = [mapc EXCEPT ![new] = Cardinality(S), ![old] = @ - Cardinality(S)]
        BY <1>8 DEF WpCommit, MovedMaps
      <3>4. ref' \in [Frame -> Int]
        <4> HIDE DEF S, old, new
        <4>1. Cardinality(S) - 1 \in Int
          BY <2>3
        <4> QED
          BY <2>1, <3>1, <4>1, CountTypeTwo DEF TypeOK
      <3>5. mapc' \in [Frame -> Int]
        <4> HIDE DEF S, old, new
        <4> QED
          BY <2>1, <2>3, <3>2, CountTypeTwo DEF TypeOK
      <3>6. deferred' \in [Frame -> Nat] /\ excl' \in [Frame -> BOOLEAN]
        BY <1>8, <2>1 DEF WpCommit, TypeOK
      <3>3. idx' \in [Frame -> Nat]
        BY <1>8, <2>1, DivMod, PageNat DEF WpCommit, TypeOK
      <3> QED
        BY <3>3, <3>4, <3>5, <3>6
    <2>8. ctx' \in [Context -> CtxType] /\ CtxHolds'
      BY <1>8, IdleType DEF WpCommit, TypeOK, CtxHolds
    <2> QED
      BY <1>8, <2>6, <2>7, <2>8 DEF WpCommit, TypeOK, PteOK, MigHasFolios
  <1> QED
    BY <1>1, <1>2, <1>3, <1>4, <1>5, <1>6, <1>7, <1>8 DEF FaultNext

ForkRecord == [p : Mm, c : Mm, pos : VmaFirst..(VmaLast + 1)]

\* A step of the copy moves fork.pos forward, at most past the last page.
LEMMA ForkAdvance ==
  ASSUME fork \in ForkRecord, NEW q \in VmaFirst..(VmaLast + 1),
         fork' = [fork EXCEPT !.pos = q]
  PROVE  fork' \in ForkRecord
  BY DEF ForkRecord

\* A batch is a set of pages that map the same folio.
LEMMA BatchType ==
  ASSUME PteOK, NEW m \in Mm, NEW v \in Page, NEW end
  PROVE  /\ PteBatch(m, v, end) \in SUBSET Page
         /\ Cardinality(PteBatch(m, v, end)) \in Nat
         /\ Cardinality(PteBatch(m, v, end)) <= VmaLast + 1 - v
         /\ \A u \in PteBatch(m, v, end) : Maps(m, u, pte[m][v].f)
  <1>1. PteBatch(m, v, end) \in SUBSET Page /\ PteBatch(m, v, end) \in SUBSET (v..VmaLast)
    BY PageNat, ClusterAssumption DEF PteBatch, Page
  <1>2. ASSUME NEW u \in PteBatch(m, v, end)
        PROVE  Maps(m, u, pte[m][v].f)
    <2>1. u \in Page /\ v <= u /\ v \in Nat /\ u \in Nat
      BY <1>1, PageNat DEF PteBatch
    <2>2. u \in v..u
      BY <2>1
    <2> QED
      BY <2>2 DEF PteBatch
  <1>3. Cardinality(PteBatch(m, v, end)) <= VmaLast + 1 - v
    <2>1. v \in Int /\ VmaLast \in Int /\ v <= VmaLast
      BY PageNat, ClusterAssumption DEF Page
    <2>2. IsFiniteSet(v..VmaLast) /\ Cardinality(v..VmaLast) = VmaLast - v + 1
      BY <2>1, FS_Interval
    <2>3. Cardinality(PteBatch(m, v, end)) <= Cardinality(v..VmaLast)
      BY <1>1, <2>2, FS_Subset
    <2> QED
      BY <1>1, <2>1, <2>2, <2>3, PagesFinite
  <1> QED
    BY <1>1, <1>2, <1>3, PagesFinite

\* Fork preserves the invariant.
LEMMA ForkStepType ==
  ASSUME IInv, ForkNext
  PROVE  IInv'
  <1> USE DEF IInv
  <1>0. PteOK /\ TypeOK /\ fork \in ForkRecord /\ fork.p \in Mm /\ fork.c \in Mm
    BY DEF PteOK, TypeOK, ForkRecord
  <1> DEFINE p == fork.p  c == fork.c
  <1>1. ASSUME NEW q \in Mm, NEW d \in Mm, ForkStart(q, d)
        PROVE  IInv'
    <2>1. VmaFirst \in VmaFirst..(VmaLast + 1)
      BY ClusterAssumption
    <2>2. fork' \in ForkRecord
      BY <1>1, <2>1 DEF ForkStart, ForkRecord
    <2>3. stage' \in [Mm -> {"none", "embryo", "live", "dying"}]
      BY <1>1 DEF ForkStart, TypeOK
    <2> QED
      BY <1>1, <2>2, <2>3 DEF ForkStart, TypeOK, ForkRecord, SubBelow, CtxHolds, MigHasFolios
  <1>2. ASSUME NEW v \in Page
        PROVE  v + 1 \in VmaFirst..(VmaLast + 1)
    BY ClusterAssumption DEF Page
  <1>3. ASSUME NEW v \in Page, ForkNone(v)
        PROVE  IInv'
    <2>1. fork' \in ForkRecord
      BY <1>0, <1>2, <1>3, ForkAdvance DEF ForkNone
    <2> QED
      BY <1>3, <2>1 DEF ForkNone, TypeOK, ForkRecord, SubBelow, CtxHolds, MigHasFolios
  <1>4. ASSUME NEW v \in Page, ForkMig(v)
        PROVE  IInv'
    <2> DEFINE e == [pte[p][v] EXCEPT !.p = "ro"]
    <2>1. pte[p][v] \in Entry /\ pte[p][v].s <= SubOf(v) /\ pte[p][v].k = "mig"
      BY <1>0, <1>4 DEF ForkMig, TypeOK, SubBelow
    <2>2. e \in Entry /\ e.s = pte[p][v].s
      BY <2>1 DEF Entry, Absent
    <2>3. pte' = [pte EXCEPT ![p][v] = e, ![c][v] = e]
      BY <1>4 DEF ForkMig
    <2> HIDE DEF e
    <2>4. pte' \in [Mm -> [Page -> Entry]] /\ SubBelow'
      BY <1>0, <2>1, <2>2, <2>3 DEF TypeOK, SubBelow
    <2>5. fork' \in ForkRecord
      BY <1>0, <1>2, <1>4, ForkAdvance DEF ForkMig
    <2>6. rss' \in [Mm -> Int]
      BY <1>0, <1>4, CountType DEF ForkMig, TypeOK
    <2> QED
      BY <1>4, <2>4, <2>5, <2>6 DEF ForkMig, TypeOK, ForkRecord, CtxHolds, MigHasFolios
  <1>5. ASSUME NEW v \in Page, ForkShare(v)
        PROVE  IInv'
    <2> DEFINE f == pte[p][v].f
               S == PteBatch(p, v, VmaLast + 1)
               n == Cardinality(S)
               shared == [u \in S |-> SharedPte(v, u, pte[p][u])]
    <2>1. pte[p][v] \in Entry /\ f \in Frame
      BY <1>0, <1>5, EntryFields DEF ForkShare, TypeOK
    <2>2. /\ S \in SUBSET Page /\ n \in Nat /\ n <= VmaLast + 1 - v
          /\ \A u \in S : Maps(p, u, f)
      BY <1>0, BatchType
    <2>3. /\ pte' = [Install(p, shared) EXCEPT ![c] = Install(c, shared)[c]]
          /\ ref' = [ref EXCEPT ![f] = @ + n] /\ mapc' = [mapc EXCEPT ![f] = @ + n]
          /\ rss' = [rss EXCEPT ![c] = @ + n]
          /\ fork' = [fork EXCEPT !.pos = v + n]
      BY <1>5 DEF ForkShare
    <2>4. ASSUME NEW u \in S
          PROVE  shared[u] \in Entry /\ shared[u].s <= SubOf(u)
      <3>1. pte[p][u] \in Entry /\ pte[p][u].k = "map" /\ pte[p][u].s <= SubOf(u)
        BY <1>0, <2>2 DEF TypeOK, SubBelow, Maps
      <3>2. shared[u] = [pte[p][u] EXCEPT !.p = "ro"]
        BY DEF SharedPte
      <3> QED
        BY <3>1, <3>2 DEF Entry, Absent
    <2> HIDE DEF f, S, n
    <2>5. /\ Install(p, shared) \in [Mm -> [Page -> Entry]]
          /\ Install(c, shared)[c] \in [Page -> Entry]
          /\ \A u \in Page : /\ Install(c, shared)[c][u].s <= SubOf(u)
                            /\ \A m \in Mm : Install(p, shared)[m][u].s <= SubOf(u)
      <3>1. DOMAIN shared = S
        OBVIOUS
      <3> HIDE DEF shared
      <3> QED
        BY <1>0, <2>2, <2>4, <3>1 DEF Install, PteOK, SubBelow
    <2>6. pte' \in [Mm -> [Page -> Entry]] /\ SubBelow'
      <3> HIDE DEF shared
      <3> QED
        BY <1>0, <2>3, <2>5 DEF SubBelow
    <2>7. ref' \in [Frame -> Int] /\ mapc' \in [Frame -> Int] /\ rss' \in [Mm -> Int]
      BY <1>0, <2>1, <2>2, <2>3, CountType DEF TypeOK
    <2>8. excl' \in [Frame -> BOOLEAN]
      BY <1>5 DEF ForkShare, TypeOK, ExclAfterDup
    <2>9. fork' \in ForkRecord
      <3>1. v + n \in VmaFirst..(VmaLast + 1)
        BY <2>2, ClusterAssumption DEF Page
      <3> QED
        BY <1>0, <2>3, <3>1, ForkAdvance
    <2> QED
      BY <1>5, <2>6, <2>7, <2>8, <2>9 DEF ForkShare, TypeOK, ForkRecord, CtxHolds, MigHasFolios
  <1>6. ASSUME NEW v \in Page, NEW new \in Frame, ForkCopy(v, new)
        PROVE  IInv'
    <2>1. /\ pte[p][v] \in Entry /\ pte[p][v].s \in Sub /\ pte[p][v].f \in Frame
          /\ pte[p][v].s <= SubOf(v)
      BY <1>0, <1>6, EntryFields DEF ForkCopy, TypeOK, SubBelow
    <2>2. /\ MapTo(new, pte[p][v].s, "rw") \in Entry
          /\ MapTo(new, pte[p][v].s, "rw").s <= SubOf(v)
      BY <2>1, EntryMap
    <2>3. pte' \in [Mm -> [Page -> Entry]] /\ SubBelow'
      BY <1>0, <1>6, <2>2 DEF ForkCopy, TypeOK, SubBelow
    <2>4. /\ ref' \in [Frame -> Int] /\ mapc' \in [Frame -> Int]
          /\ rss' \in [Mm -> Int] /\ excl' \in [Frame -> BOOLEAN]
      BY <1>0, <1>6, CountType DEF ForkCopy, TypeOK
    <2>5. idx' \in [Frame -> Nat] /\ data' \in [Frame -> [Sub -> Val]]
      BY <1>6, <2>1, DivMod, PageNat DEF ForkCopy, TypeOK
    <2>6. fork' \in ForkRecord
      BY <1>0, <1>2, <1>6, ForkAdvance DEF ForkCopy
    <2> QED
      BY <1>6, <2>3, <2>4, <2>5, <2>6 DEF ForkCopy, TypeOK, ForkRecord, CtxHolds, MigHasFolios
  <1>7. ASSUME NEW v \in Page, ForkFail(v) \/ ForkDone
        PROVE  IInv'
    <2>1. NoFork \in ForkRecord
      BY PageNat, ClusterAssumption DEF NoFork, ForkRecord
    <2>2. stage' \in [Mm -> {"none", "embryo", "live", "dying"}]
      BY <1>7 DEF ForkFail, ForkDone, TypeOK
    <2> QED
      BY <1>7, <2>1, <2>2
      DEF ForkFail, ForkDone, TypeOK, ForkRecord, SubBelow, CtxHolds, MigHasFolios
  <1>8. VmaFirst \in Page
    BY ClusterAssumption DEF Page
  <1> QED
    BY <1>1, <1>3, <1>4, <1>5, <1>6, <1>7, <1>8 DEF ForkNext

\* Zap, late puts and exit preserve it.
LEMMA ZapType ==
  ASSUME IInv, ZapNext
  PROVE  IInv'
  <1> USE DEF IInv
  <1>0. PteOK /\ TypeOK
    BY DEF PteOK, TypeOK
  <1>1. ASSUME NEW m \in Mm, NEW v \in Page, NEW end, ZapBatch(m, v, end)
        PROVE  IInv'
    <2> DEFINE f == pte[m][v].f
               S == PteBatch(m, v, end)
               n == Cardinality(S)
               es == [u \in S |-> Absent]
    <2>1. f \in Frame
      BY <1>1, EntryFields DEF ZapBatch, TypeOK
    <2>2. S \in SUBSET Page /\ n \in Nat
      BY <1>0, BatchType
    <2>3. /\ pte' = Install(m, es)
          /\ ref' = [ref EXCEPT ![f] = @ - (n - 1)] /\ mapc' = [mapc EXCEPT ![f] = @ - n]
          /\ rss' = [rss EXCEPT ![m] = @ - n]
          /\ deferred' = [deferred EXCEPT ![f] = @ + 1]
      BY <1>1 DEF ZapBatch, BatchPut
    <2> HIDE DEF f, S, n
    <2>4. PteOK'
      <3>1. /\ DOMAIN es = S
            /\ \A u \in S : es[u] \in Entry /\ es[u].s <= SubOf(u)
        BY <2>2, EntryAbsent, DivMod, PageNat, ClusterAssumption DEF Sub
      <3> HIDE DEF es
      <3> QED
        BY <1>0, <2>2, <2>3, <3>1, InstallType
    <2>5. n - 1 \in Int
      BY <2>2
    <2>6. ref' \in [Frame -> Int] /\ mapc' \in [Frame -> Int] /\ rss' \in [Mm -> Int]
      BY <2>1, <2>2, <2>3, <2>5, CountType DEF TypeOK
    <2>7. deferred' \in [Frame -> Nat]
      BY <2>1, <2>3 DEF TypeOK
    <2> QED
      BY <1>1, <2>4, <2>6, <2>7 DEF ZapBatch, PteOK, TypeOK, CtxHolds, MigHasFolios
  <1>2. ASSUME NEW m \in Mm, NEW v \in Page,
               NEW end \in (VmaFirst + 1)..(VmaLast + 1), ZapMig(m, v, end)
        PROVE  IInv'
    <2> DEFINE S == {u \in v..(end - 1) : \A w \in v..u : pte[m][w].k = "mig"}
               es == [u \in S |-> Absent]
    <2>1. S \in SUBSET Page
      BY ClusterAssumption DEF Page
    <2>2. Cardinality(S) \in Nat
      BY <2>1, PagesFinite
    <2>3. pte' = Install(m, es) /\ rss' = [rss EXCEPT ![m] = @ - Cardinality(S)]
      BY <1>2 DEF ZapMig
    <2> HIDE DEF S
    <2>4. PteOK'
      <3>1. /\ DOMAIN es = S
            /\ \A u \in S : es[u] \in Entry /\ es[u].s <= SubOf(u)
        BY <2>1, EntryAbsent, DivMod, PageNat, ClusterAssumption DEF Sub
      <3> HIDE DEF es
      <3> QED
        BY <1>0, <2>1, <2>3, <3>1, InstallType
    <2>5. rss' \in [Mm -> Int]
      BY <2>2, <2>3, CountType DEF TypeOK
    <2> QED
      BY <1>2, <2>4, <2>5 DEF ZapMig, PteOK, TypeOK, CtxHolds, MigHasFolios
  <1>3. ASSUME NEW f \in Frame, DeferredPut(f)
        PROVE  IInv'
    <2>1. /\ ref' \in [Frame -> Int] /\ data' \in [Frame -> [Sub -> Val]]
          /\ excl' \in [Frame -> BOOLEAN]
      BY <1>3, PutType DEF DeferredPut, TypeOK
    <2>2. deferred' \in [Frame -> Nat]
      BY <1>3 DEF DeferredPut, TypeOK
    <2> QED
      BY <1>3, <2>1, <2>2 DEF DeferredPut, TypeOK, SubBelow, CtxHolds, MigHasFolios
  <1>4. ASSUME NEW m \in Mm, Exit(m) \/ Reap(m)
        PROVE  IInv'
    <2>1. stage' \in [Mm -> {"none", "embryo", "live", "dying"}]
      BY <1>4 DEF Exit, Reap, TypeOK
    <2> QED
      BY <1>4, <2>1 DEF Exit, Reap, TypeOK, SubBelow, CtxHolds, MigHasFolios
  <1> QED
    BY <1>1, <1>2, <1>3, <1>4 DEF ZapNext

\* Pins preserve it.
LEMMA PinType ==
  ASSUME IInv, PinNext
  PROVE  IInv'
  <1> USE DEF IInv
  <1>1. ASSUME NEW m \in Mm, NEW v \in Page, Pin(m, v)
        PROVE  IInv'
    <2>1. pte[m][v].f \in Frame
      BY <1>1, EntryFields DEF Pin, TypeOK
    <2>2. ref' \in [Frame -> Int] /\ pin' \in [Frame -> Nat]
      BY <1>1, <2>1 DEF Pin, TypeOK
    <2> QED
      BY <1>1, <2>2 DEF Pin, TypeOK, SubBelow, CtxHolds, MigHasFolios
  <1>2. ASSUME NEW f \in Frame, Unpin(f)
        PROVE  IInv'
    <2>1. /\ ref' \in [Frame -> Int] /\ data' \in [Frame -> [Sub -> Val]]
          /\ excl' \in [Frame -> BOOLEAN]
      BY <1>2, PutType DEF Unpin, TypeOK
    <2>2. pin' \in [Frame -> Nat]
      BY <1>2 DEF Unpin, TypeOK
    <2> QED
      BY <1>2, <2>1, <2>2 DEF Unpin, TypeOK, SubBelow, CtxHolds, MigHasFolios
  <1> QED
    BY <1>1, <1>2 DEF PinNext

\* A batch of a reverse-map walk lies in one cluster and has one class.
LEMMA WalkBatchType ==
  ASSUME NEW m \in Mm, NEW v \in Page, NEW f
  PROVE  /\ WalkBatch(m, v, f) \in SUBSET Page
         /\ Cardinality(WalkBatch(m, v, f)) \in Nat
         /\ \A u \in WalkBatch(m, v, f) :
              /\ pte[m][u].k = pte[m][v].k /\ pte[m][u].f = f
              /\ u - v = SubOf(u) - SubOf(v) /\ u - v \in Sub /\ u - v <= SubOf(u)
  <1>1. WalkBatch(m, v, f) \in SUBSET Page
    BY DEF WalkBatch, WalkRange
  <1>2. ASSUME NEW u \in WalkBatch(m, v, f)
        PROVE  /\ pte[m][u].k = pte[m][v].k /\ pte[m][u].f = f
               /\ u - v = SubOf(u) - SubOf(v) /\ u - v \in Sub /\ u - v <= SubOf(u)
    <2>1. /\ v <= u /\ ClusterOf(u) = ClusterOf(v)
          /\ \A w \in v..u : pte[m][w].k = pte[m][v].k /\ pte[m][w].f = f
      BY DEF WalkBatch
    <2>2. u \in Nat /\ v \in Nat
      BY <1>1, PageNat
    <2>3. u \in v..u
      BY <2>1, <2>2
    <2> QED
      BY <2>1, <2>2, <2>3, SameCluster
  <1> QED
    BY <1>1, <1>2, PagesFinite

\* A walk starts at a page number.
LEMMA WalkFirstType ==
  ASSUME TypeOK, NEW f \in Frame
  PROVE  WalkFirst(f) \in Nat
  BY ClusterAssumption DEF TypeOK, WalkFirst

\* A walk that enters an address space has its folios.
LEMMA WalkStart ==
  ASSUME TypeOK, mig.src \in Frame, mig.dst \in Frame, NEW m \in Mm, NEW to \in Frame,
         NEW ph \in MigPhases, mig' = AtWalkStart(ph, m, to)
  PROVE  mig' \in MigType /\ MigHasFolios'
  BY WalkFirstType DEF AtWalkStart, MigType, MigHasFolios, FrameOrNone

\* Both walks and the move preserve the invariant.
LEMMA MigStepType ==
  ASSUME IInv, MigNext
  PROVE  IInv'
  <1> USE DEF IInv
  <1>0. PteOK /\ TypeOK
    BY DEF PteOK, TypeOK
  <1>1. ASSUME NEW src \in Frame, NEW dst \in Frame, MigStart(src, dst)
        PROVE  IInv'
    <2>1. ref' \in [Frame -> Int]
      BY <1>1 DEF MigStart, TypeOK
    <2>2. mig' \in MigType /\ MigHasFolios'
      BY <1>1, WalkFirstType, PageNat
      DEF MigStart, MigType, MigPhases, FrameOrNone, MigHasFolios
    <2> QED
      BY <1>1, <2>1, <2>2 DEF MigStart, TypeOK, SubBelow, CtxHolds
  <1>2. ASSUME NEW v \in Page, MigUnmap(v)
        PROVE  IInv'
    <2> DEFINE m == mig.m  f == mig.src
               S == WalkBatch(m, v, f)  n == Cardinality(S)
               kind == CASE pte[m][v].p = "rw" -> "rw"
                         [] pte[m][v].p # "rw" /\ excl[f] -> "rx"
                         [] OTHER -> "ro"
               kept == [u \in S |-> MapTo(f, pte[m][v].s + (u - v), pte[m][v].p)]
               migs == [u \in S |-> MigTo(f, pte[m][u].s, kind)]
    <2>1. m \in Mm /\ f \in Frame /\ mig \in MigType /\ mig.ph = "unmap"
      BY <1>2 DEF MigUnmap, TypeOK, MigHasFolios, MigType
    <2>2. /\ pte[m][v] \in Entry /\ pte[m][v].k = "map" /\ pte[m][v].s \in Sub
          /\ pte[m][v].s <= SubOf(v) /\ pte[m][v].p \in {"rw", "ro"}
      BY <1>2, <2>1, EntryFields DEF MigUnmap, TypeOK, WalkStopsAt, SubBelow
    <2>3. S \in SUBSET Page /\ n \in Nat
      BY <2>1, WalkBatchType
    <2>4. UNCHANGED <<idx, data, rss, deferred, pin, ctx, fork, stage>>
      BY <1>2 DEF MigUnmap
    <2>5. CASE MustCopy(f)
      <3>1. /\ pte' = Install(m, kept)
            /\ mig' = [mig EXCEPT !.ph = "move", !.held = FALSE]
            /\ UNCHANGED <<ref, mapc, excl>>
        BY <1>2, <2>5 DEF MigUnmap
      <3>2. ASSUME NEW u \in S
            PROVE  kept[u] \in Entry /\ kept[u].s <= SubOf(u)
        <4>1. u \in Page /\ u - v = SubOf(u) - SubOf(v) /\ u - v \in Sub
          BY <2>1, <2>3, WalkBatchType
        <4>2. SubOf(u) \in Sub /\ SubOf(v) \in Sub
          BY <4>1, DivMod, PageNat
        <4>3. pte[m][v].s + (u - v) \in Sub /\ pte[m][v].s + (u - v) <= SubOf(u)
          BY <2>2, <4>1, <4>2, ClusterAssumption DEF Sub
        <4> QED
          BY <2>1, <2>2, <4>3, EntryMap
      <3>3. DOMAIN kept = S
        OBVIOUS
      <3>4. PteOK'
        <4> HIDE DEF kept, S, m
        <4> QED
          BY <1>0, <2>1, <2>3, <3>1, <3>2, <3>3, InstallType
      <3>5. mig' \in MigType /\ MigHasFolios'
        BY <2>1, <3>1 DEF MigType, MigPhases, MigHasFolios
      <3> QED
        BY <2>4, <3>1, <3>4, <3>5 DEF TypeOK, PteOK, CtxHolds
    <2>6. CASE ~MustCopy(f)
      <3>1. /\ pte' = Install(m, migs)
            /\ ref' = [ref EXCEPT ![f] = @ - n] /\ mapc' = [mapc EXCEPT ![f] = @ - n]
            /\ excl' = [excl EXCEPT ![f] = FALSE]
            /\ mig' = [mig EXCEPT !.pos = v + 1, !.held = TRUE]
        BY <1>2, <2>6 DEF MigUnmap
      <3>2. ASSUME NEW u \in S
            PROVE  migs[u] \in Entry /\ migs[u].s <= SubOf(u)
        <4>1. u \in Page /\ pte[m][u].k = "map"
          BY <2>1, <2>2, <2>3, WalkBatchType
        <4>2. pte[m][u].s \in Sub /\ pte[m][u].s <= SubOf(u)
          BY <2>1, <4>1, EntryFields DEF TypeOK, SubBelow
        <4>3. kind \in {"rw", "rx", "ro"}
          OBVIOUS
        <4> HIDE DEF kind
        <4> QED
          BY <2>1, <4>2, <4>3, EntryMig
      <3>3. DOMAIN migs = S
        OBVIOUS
      <3>4. PteOK'
        <4> HIDE DEF migs, S, m
        <4> QED
          BY <1>0, <2>1, <2>3, <3>1, <3>2, <3>3, InstallType
      <3>5. v + 1 \in Nat
        BY PageNat
      <3>6. mig' \in MigType /\ MigHasFolios'
        BY <2>1, <3>1, <3>5 DEF MigType, MigHasFolios
      <3>7. ref' \in [Frame -> Int] /\ mapc' \in [Frame -> Int]
        <4> HIDE DEF n, f
        <4> QED
          BY <2>1, <2>3, <3>1, CountType DEF TypeOK
      <3>8. excl' \in [Frame -> BOOLEAN]
        BY <3>1 DEF TypeOK
      <3> QED
        BY <2>4, <3>4, <3>6, <3>7, <3>8 DEF TypeOK, PteOK, CtxHolds
    <2> QED
      BY <2>5, <2>6
  <1>3. ASSUME NEW v \in Page, MigRestore(v)
        PROVE  IInv'
    <2> DEFINE m == mig.m  to == mig.to
               S == WalkBatch(m, v, mig.src)  n == Cardinality(S)
               kind == pte[m][v].p
               es == [u \in S |-> RestoredPte(to, u, v, kind)]
    <2>1. m \in Mm /\ to \in Frame /\ mig \in MigType /\ mig.ph = "restore" /\ mig.src \in Frame
      BY <1>3 DEF MigRestore, TypeOK, MigHasFolios, MigType
    <2>2. S \in SUBSET Page /\ n \in Nat
      BY <2>1, WalkBatchType
    <2>3. /\ pte' = Install(m, es)
          /\ ref' = [ref EXCEPT ![to] = @ + n] /\ mapc' = [mapc EXCEPT ![to] = @ + n]
          /\ excl' = [excl EXCEPT ![to] = @ \/ kind \in {"rw", "rx"}]
          /\ mig' = [mig EXCEPT !.pos = v + 1, !.held = TRUE]
          /\ UNCHANGED <<idx, data, rss, deferred, pin, ctx, fork, stage>>
      BY <1>3 DEF MigRestore, RestoreRefs
    <2>4. ASSUME NEW u \in S
          PROVE  es[u] \in Entry /\ es[u].s <= SubOf(u)
      <3>1. u - v \in Sub /\ u - v <= SubOf(u)
        BY <2>1, WalkBatchType
      <3>2. es[u] = MapTo(to, u - v, IF kind = "rw" THEN "rw" ELSE "ro")
        BY DEF RestoredPte
      <3> QED
        BY <2>1, <3>1, <3>2, EntryMap
    <2>5. DOMAIN es = S
      OBVIOUS
    <2>6. PteOK'
      <3> HIDE DEF es, S, m
      <3> QED
        BY <1>0, <2>1, <2>2, <2>3, <2>4, <2>5, InstallType
    <2>7. v + 1 \in Nat
      BY PageNat
    <2>8. mig' \in MigType /\ MigHasFolios'
      BY <2>1, <2>3, <2>7 DEF MigType, MigHasFolios
    <2>9. ref' \in [Frame -> Int] /\ mapc' \in [Frame -> Int] /\ excl' \in [Frame -> BOOLEAN]
      <3>1. excl' \in [Frame -> BOOLEAN]
        <4> HIDE DEF kind
        <4> QED
          BY <2>1, <2>3 DEF TypeOK
      <3> HIDE DEF n, to
      <3> QED
        BY <2>1, <2>2, <2>3, <3>1, CountType DEF TypeOK
    <2> QED
      BY <2>3, <2>6, <2>8, <2>9 DEF TypeOK, PteOK, CtxHolds
  <1>4. ASSUME MigUnmapNext \/ MigRestoreNext
        PROVE  IInv'
    <2>1. PICK ph \in {"unmap", "restore"}, then \in {"move", "done"} : MigNextMm(ph, then)
      BY <1>4 DEF MigUnmapNext, MigRestoreNext
    <2>2. /\ mig \in MigType /\ mig.src \in Frame /\ mig.dst \in Frame /\ mig.to \in Frame
      BY <2>1 DEF MigNextMm, TypeOK, MigHasFolios
    <2>3. ph \in MigPhases /\ then \in MigPhases
      BY DEF MigPhases
    <2>4. mig' \in MigType /\ MigHasFolios'
      <3>1. CASE mig.m < Mms
        <4>1. mig.m + 1 \in Mm
          BY <2>2, <3>1, ClusterAssumption DEF MigType, Mm
        <4>2. mig' = AtWalkStart(ph, mig.m + 1, mig.to)
          BY <2>1, <3>1 DEF MigNextMm
        <4> QED
          BY <2>2, <2>3, <4>1, <4>2, WalkStart
      <3>2. CASE ~(mig.m < Mms)
        <4>1. mig' = [mig EXCEPT !.ph = then, !.held = FALSE]
          BY <2>1, <3>2 DEF MigNextMm
        <4> QED
          BY <2>2, <2>3, <4>1 DEF MigType, MigHasFolios
      <3> QED
        BY <3>1, <3>2
    <2> QED
      BY <2>1, <2>4 DEF MigNextMm, TypeOK, SubBelow, CtxHolds
  <1>5. ASSUME MigMove
        PROVE  IInv'
    <2>1. /\ mig.src \in Frame /\ mig.dst \in Frame /\ "restore" \in MigPhases
      BY <1>5 DEF MigMove, MigHasFolios, MigPhases
    <2>2. mig' \in MigType /\ MigHasFolios'
      BY <1>5, <2>1, WalkStart, PageNat DEF MigMove
    <2>3. data' \in [Frame -> [Sub -> Val]] /\ idx' \in [Frame -> Nat]
      BY <1>5, <2>1 DEF MigMove, TypeOK
    <2> QED
      BY <1>5, <2>2, <2>3 DEF MigMove, TypeOK, SubBelow, CtxHolds
  <1>6. ASSUME MigDone
        PROVE  IInv'
    <2>1. /\ ref' \in [Frame -> Int] /\ data' \in [Frame -> [Sub -> Val]]
          /\ excl' \in [Frame -> BOOLEAN]
      BY <1>6, PutType DEF MigDone, TypeOK
    <2>2. mig' \in MigType /\ MigHasFolios'
      BY <1>6, PageNat, ClusterAssumption
      DEF MigDone, MigIdle, MigType, MigPhases, FrameOrNone, MigHasFolios
    <2> QED
      BY <1>6, <2>1, <2>2 DEF MigDone, TypeOK, SubBelow, CtxHolds
  <1> QED
    BY <1>1, <1>2, <1>3, <1>4, <1>5, <1>6 DEF MigNext, MigStep

\* The inductive type invariant holds in every reachable state.
THEOREM Inductive == Spec => []IInv
  <1>1. Init => IInv
    BY TypeInit
  <1>2. IInv /\ [Next]_vars => IInv'
    <2> SUFFICES ASSUME IInv, [Next]_vars PROVE IInv'
      OBVIOUS
    <2>1. CASE Next
      BY <2>1, FaultType, ForkStepType, ZapType, PinType, MigStepType DEF Next
    <2>2. CASE UNCHANGED vars
      BY <2>2 DEF vars, IInv, TypeOK, SubBelow, CtxHolds, MigHasFolios
    <2> QED
      BY <2>1, <2>2
  <1> QED
    BY <1>1, <1>2, PTL DEF Spec

\* Type correctness: whatever the faults, forks, zaps, pins and migrations do,
\* every page-table entry is absent, a mapping or a migration entry of a folio
\* and one of its N sub-pages.
THEOREM TypeCorrect == Spec => []TypeOK
  BY Inductive, PTL DEF IInv
=============================================================================
