-------------------------- MODULE AnonCluster_owner --------------------------
(***************************************************************************)
(* Whose a page-table entry is, for every number of frames, address        *)
(* spaces, fault contexts and hardware pages per kernel page: no migration *)
(* entry outlives its migration; where folios are not migrated, every PTE  *)
(* stays on its sub-page, an exclusive folio has one owner and a page      *)
(* somebody may write is in no other page table; and where no fork         *)
(* overlaps a migration, its walks leave nothing of the folio behind.      *)
(***************************************************************************)
EXTENDS AnonCluster_books

----------------------------------------------------------------------------
(* What each action does to a page-table entry *)

EntryIs(e, k, f, s, p) == e.k = k /\ e.f = f /\ e.s = s /\ e.p = p

\* The fields of an entry that is built.
LEMMA BuiltFields ==
  ASSUME NEW f, NEW s, NEW p
  PROVE  EntryIs(MapTo(f, s, p), "map", f, s, p) /\ EntryIs(MigTo(f, s, p), "mig", f, s, p)
  BY DEF MapTo, MigTo, EntryIs

\* The fields of an entry whose permission is replaced.
LEMMA ChangedFields ==
  ASSUME NEW e \in Entry, NEW p
  PROVE  EntryIs([e EXCEPT !.p = p], e.k, e.f, e.s, p)
  BY DEF Entry, Absent, EntryIs

\* do_anonymous_page fills empty entries of one cluster.
LEMMA AnonMapAt ==
  ASSUME BookInv, NEW t \in Context, AnonMap(t)
  PROVE  /\ ctx[t].m \in Mm /\ ctx[t].v \in Page /\ ctx[t].new \in Frame
         /\ stage[ctx[t].m] = "live"
         /\ \A n \in Mm, u \in Page :
              \/ pte'[n][u] = pte[n][u]
              \/ /\ n = ctx[t].m /\ ClusterOf(u) = ClusterOf(ctx[t].v) /\ IsNone(n, u)
                 /\ EntryIs(pte'[n][u], "map", ctx[t].new, SubOf(u), "rw")
  <1> DEFINE m == ctx[t].m  v == ctx[t].v  f == ctx[t].new
  <1>1. /\ TypeOK /\ m \in Mm /\ v \in Page /\ f \in Frame /\ stage[m] = "live"
        /\ IsNone(m, v)
    BY DEF BookInv, IInv, TypeOK, CtxType, CtxHolds, AnonMap, CtxBook
  <1>2. PICK S \in AnonTargets(m, v) : pte' = Install(m, [u \in S |-> MapTo(f, SubOf(u), "rw")])
    BY DEF AnonMap
  <1>3. \A u \in S : u \in Page /\ ClusterOf(u) = ClusterOf(v) /\ IsNone(m, u)
    BY <1>1 DEF AnonTargets, Cluster
  <1> DEFINE new == [u \in S |-> MapTo(f, SubOf(u), "rw")]
  <1>4. /\ pte' = Install(m, new) /\ DOMAIN new = S
        /\ \A u \in S : EntryIs(new[u], "map", f, SubOf(u), "rw")
    BY <1>2, BuiltFields
  <1> HIDE DEF new, m, v, f
  <1>5. /\ \A n \in Mm, w \in Page : n # m => pte'[n][w] = pte[n][w]
        /\ \A w \in Page : pte'[m][w] = IF w \in S THEN new[w] ELSE pte[m][w]
    BY <1>1, <1>4, InstallAt
  <1> QED
    BY <1>1, <1>3, <1>4, <1>5 DEF m, v, f

\* A fault on a folio that is reusable makes its PTE writable.
LEMMA WpReuseAt ==
  ASSUME BookInv, NEW t \in Context, NEW m \in Mm, NEW v \in Page, WpReuse(t, m, v)
  PROVE  /\ pte[m][v].f \in Frame /\ Maps(m, v, pte[m][v].f)
         /\ EntryIs(pte'[m][v], "map", pte[m][v].f, pte[m][v].s, "rw")
         /\ \A n \in Mm, u \in Page : (n # m \/ u # v) => pte'[n][u] = pte[n][u]
  <1>1. TypeOK /\ pte[m][v] \in Entry /\ pte[m][v].k = "map"
    BY DEF BookInv, IInv, TypeOK, WpReuse, WpFaulting
  <1>2. pte' = [pte EXCEPT ![m] = [pte[m] EXCEPT ![v] = [pte[m][v] EXCEPT !.p = "rw"]]]
    BY DEF WpReuse
  <1>3. pte'[m][v] = [pte[m][v] EXCEPT !.p = "rw"]
    BY <1>1, <1>2 DEF TypeOK
  <1>4. \A n \in Mm, u \in Page : (n # m \/ u # v) => pte'[n][u] = pte[n][u]
    BY <1>1, <1>2 DEF TypeOK
  <1> QED
    BY <1>1, <1>3, <1>4, ChangedFields, EntryFields DEF Maps, EntryIs

\* A COW commit moves entries of one cluster from the old folio to the new.
LEMMA WpCommitAt ==
  ASSUME BookInv, NEW t \in Context, WpCommit(t)
  PROVE  /\ ctx[t].m \in Mm /\ ctx[t].v \in Page /\ ctx[t].new \in Frame /\ ctx[t].old \in Frame
         /\ stage[ctx[t].m] = "live"
         /\ \A n \in Mm, u \in Page :
              \/ pte'[n][u] = pte[n][u]
              \/ /\ n = ctx[t].m /\ ClusterOf(u) = ClusterOf(ctx[t].v)
                 /\ Maps(n, u, ctx[t].old)
                 /\ EntryIs(pte'[n][u], "map", ctx[t].new, pte[n][u].s, "rw")
  <1> DEFINE m == ctx[t].m  v == ctx[t].v  old == ctx[t].old  f == ctx[t].new
             S == {u \in Cluster(v) : Maps(m, u, old)}
             new == [u \in S |-> MovedPte(f, pte[m][u])]
  <1>1. /\ TypeOK /\ m \in Mm /\ v \in Page /\ f \in Frame /\ old \in Frame /\ stage[m] = "live"
    BY DEF BookInv, IInv, TypeOK, CtxType, CtxHolds, WpCommit, CtxBook
  <1>2. pte' = Install(m, new) /\ DOMAIN new = S
    BY DEF WpCommit
  <1>3. \A u \in S : u \in Page /\ ClusterOf(u) = ClusterOf(v) /\ Maps(m, u, old)
    BY DEF Cluster
  <1>4. \A u \in S : EntryIs(new[u], "map", f, pte[m][u].s, "rw")
    BY BuiltFields DEF MovedPte
  <1> HIDE DEF new, S, m, v, f, old
  <1>5. /\ \A n \in Mm, w \in Page : n # m => pte'[n][w] = pte[n][w]
        /\ \A w \in Page : pte'[m][w] = IF w \in S THEN new[w] ELSE pte[m][w]
    BY <1>1, <1>2, InstallAt
  <1> QED
    BY <1>1, <1>3, <1>4, <1>5 DEF m, v, f, old

\* A batch of n entries from v on is the n pages from v on.
LEMMA BatchIs ==
  ASSUME TypeOK, SubBelow, NEW m \in Mm, NEW v \in Page
  PROVE  LET S == PteBatch(m, v, VmaLast + 1)  n == Cardinality(S)
         IN  n \in Nat /\ v + n <= VmaLast + 1 /\ \A u \in Page : u \in S <=> v <= u /\ u < v + n
  <1> DEFINE S == PteBatch(m, v, VmaLast + 1)  n == Cardinality(S)
  <1>1. S \in SUBSET Page /\ n \in Nat /\ n <= VmaLast + 1 - v /\ IsFiniteSet(S)
    <2>1. PteOK
      BY DEF PteOK, TypeOK
    <2>2. S \in SUBSET Page /\ n \in Nat /\ n <= VmaLast + 1 - v
      BY <2>1, BatchType
    <2> QED
      BY <2>2, PagesFinite
  <1>2. \A u \in S : u < v + n
    BY BatchSpan, ClusterAssumption
  <1>3. \A u \in S : v <= u
    BY DEF PteBatch
  <1>4. v \in Nat /\ VmaLast \in Nat /\ \A u \in Page : u \in Nat
    BY PageNat, ClusterAssumption
  <1> HIDE DEF n, S
  <1>5. S \subseteq v..(v + n - 1)
    <2> SUFFICES ASSUME NEW u \in S
                 PROVE  u \in v..(v + n - 1)
      OBVIOUS
    <2>1. u \in Nat /\ v <= u /\ u < v + n
      BY <1>1, <1>2, <1>3, <1>4
    <2> QED
      BY <1>1, <1>4, <2>1
  <1>6. IsFiniteSet(v..(v + n - 1)) /\ Cardinality(v..(v + n - 1)) = n
    <2>1. v \in Int /\ v + n - 1 \in Int
      BY <1>1, <1>4
    <2>2. IsFiniteSet(v..(v + n - 1))
          /\ Cardinality(v..(v + n - 1)) = IF v > v + n - 1 THEN 0 ELSE (v + n - 1) - v + 1
      BY <2>1, FS_Interval
    <2> QED
      BY <1>1, <1>4, <2>2
  <1>7. S = v..(v + n - 1)
    <2>1. S \in SUBSET (v..(v + n - 1)) /\ Cardinality(S) = Cardinality(v..(v + n - 1))
      BY <1>5, <1>6 DEF n
    <2> QED
      BY <1>6, <2>1, FS_Subset
  <1>8. \A u \in Page : u \in S <=> v <= u /\ u < v + n
    BY <1>1, <1>4, <1>7
  <1> QED
    BY <1>1, <1>4, <1>8 DEF n, S

\* A fork that shares a batch writes the same readable entries on both sides.
LEMMA ForkShareAt ==
  ASSUME BookInv, NEW v \in Page, ForkShare(v)
  PROVE  /\ fork.p \in Mm /\ fork.c \in Mm /\ fork.p # fork.c /\ fork.pos = v /\ Forking
         /\ Maps(fork.p, v, pte[fork.p][v].f) /\ pte[fork.p][v].f \in Frame
         /\ ~MustCopy(pte[fork.p][v].f)
         /\ fork'.p = fork.p /\ fork'.c = fork.c
         /\ fork'.pos \in Nat /\ v < fork'.pos /\ fork'.pos <= VmaLast + 1
         /\ \A n \in Mm, u \in Page :
              IF n \in {fork.p, fork.c} /\ v <= u /\ u < fork'.pos
              THEN /\ Maps(fork.p, u, pte[fork.p][v].f) /\ IsNone(fork.c, u)
                   /\ EntryIs(pte'[n][u], "map", pte[fork.p][v].f, pte[fork.p][u].s, "ro")
              ELSE pte'[n][u] = pte[n][u]
  <1> DEFINE p == fork.p  c == fork.c  f == pte[p][v].f
             S == PteBatch(p, v, VmaLast + 1)
             n == Cardinality(S)
             shared == [u \in S |-> SharedPte(v, u, pte[p][u])]
  <1>1. /\ TypeOK /\ SubBelow /\ PteOK /\ ForkBook
        /\ p \in Mm /\ c \in Mm /\ fork.pos = v /\ p # c /\ Forking
        /\ Maps(p, v, f) /\ f \in Frame /\ ~MustCopy(f)
    BY EntryFields
    DEF BookInv, IInv, TypeOK, PteOK, ForkShare, Copying, Forking, Maps
  <1>2. /\ pte' = [Install(p, shared) EXCEPT ![c] = Install(c, shared)[c]]
        /\ fork' = [fork EXCEPT !.pos = v + n]
    BY DEF ForkShare
  <1>3. /\ n \in Nat /\ v + n <= VmaLast + 1
        /\ \A u \in Page : u \in S <=> v <= u /\ u < v + n
    BY <1>1, BatchIs
  <1>4. \A u \in S : Maps(p, u, f) /\ u \in Page /\ pte[p][u] \in Entry
    BY <1>1, BatchType DEF TypeOK
  <1>5. \A u \in S : EntryIs(shared[u], "map", f, pte[p][u].s, "ro")
    <2> SUFFICES ASSUME NEW u \in S
                 PROVE  EntryIs(shared[u], "map", f, pte[p][u].s, "ro")
      OBVIOUS
    <2>1. shared[u] = [pte[p][u] EXCEPT !.p = "ro"]
      BY DEF SharedPte
    <2>2. EntryIs([pte[p][u] EXCEPT !.p = "ro"], pte[p][u].k, pte[p][u].f, pte[p][u].s, "ro")
      BY <1>4, ChangedFields
    <2> QED
      BY <1>4, <2>1, <2>2 DEF Maps
  <1>6. DOMAIN shared = S /\ v \in S
    <2>1. v \in Nat /\ \A w \in v..v : w = v
      BY PageNat
    <2>2. v \in S
      <3>1. v < VmaLast + 1 /\ v <= v
        BY <2>1, ClusterAssumption DEF Page
      <3>2. \A w \in v..v : Maps(p, w, pte[p][v].f) /\ pte[p][w].s = pte[p][v].s + (w - v)
        <4>1. pte[p][v].s \in Nat /\ v - v = 0
          BY <1>1, <2>1, EntryFields DEF TypeOK
        <4> QED
          BY <1>1, <2>1, <4>1
      <3> QED
        BY <3>1, <3>2 DEF PteBatch
    <2> QED
      BY <2>2
  <1> HIDE DEF S, shared
  <1>7. /\ \A k \in Mm, w \in Page : k # p /\ k # c => pte'[k][w] = pte[k][w]
        /\ \A w \in Page : pte'[p][w] = IF w \in S THEN shared[w] ELSE pte[p][w]
        /\ \A w \in Page : pte'[c][w] = IF w \in S THEN shared[w] ELSE pte[c][w]
    <2>1. Install(p, shared) = [pte EXCEPT ![p] = [w \in Page |-> IF w \in S THEN shared[w] ELSE pte[p][w]]]
      BY <1>1, <1>6, Zenon DEF Install, TypeOK
    <2>2. Install(c, shared) = [pte EXCEPT ![c] = [w \in Page |-> IF w \in S THEN shared[w] ELSE pte[c][w]]]
      BY <1>1, <1>6, Zenon DEF Install, TypeOK
    <2> QED
      BY <1>1, <1>2, <2>1, <2>2 DEF TypeOK
  <1> HIDE DEF n
  <1>8. fork'.p = p /\ fork'.c = c /\ fork'.pos = v + n /\ v < v + n
    BY <1>1, <1>2, <1>3, <1>6 DEF TypeOK
  <1>9. \A u \in S : IsNone(c, u)
    BY <1>1, <1>3, <1>4 DEF ForkBook
  <1> HIDE DEF p, c, f
  <1>10. ASSUME NEW k \in Mm, NEW u \in Page
         PROVE  IF k \in {p, c} /\ v <= u /\ u < v + n
                THEN /\ Maps(p, u, f) /\ IsNone(c, u)
                     /\ EntryIs(pte'[k][u], "map", f, pte[p][u].s, "ro")
                ELSE pte'[k][u] = pte[k][u]
    BY <1>3, <1>4, <1>5, <1>7, <1>9
  <1>11. v + n \in Nat
    BY <1>3, PageNat
  <1> QED
    BY <1>1, <1>3, <1>8, <1>10, <1>11 DEF p, c, f

\* A fork that copies gives the child's entry a folio of its own.
LEMMA ForkCopyAt ==
  ASSUME BookInv, NEW v \in Page, NEW new \in Frame, ForkCopy(v, new)
  PROVE  /\ fork.p \in Mm /\ fork.c \in Mm /\ fork.p # fork.c /\ fork.pos = v /\ Forking
         /\ pte[fork.p][v].f \in Frame /\ MustCopy(pte[fork.p][v].f) /\ Free(new)
         /\ Maps(fork.p, v, pte[fork.p][v].f) /\ IsNone(fork.c, v)
         /\ fork'.p = fork.p /\ fork'.c = fork.c /\ fork'.pos = v + 1
         /\ EntryIs(pte'[fork.c][v], "map", new, pte[fork.p][v].s, "rw")
         /\ \A n \in Mm, u \in Page : (n # fork.c \/ u # v) => pte'[n][u] = pte[n][u]
  <1>1. /\ TypeOK /\ fork.p \in Mm /\ fork.c \in Mm /\ fork.p # fork.c /\ fork.pos = v /\ Forking
        /\ pte[fork.p][v].f \in Frame /\ MustCopy(pte[fork.p][v].f) /\ Free(new)
        /\ Maps(fork.p, v, pte[fork.p][v].f) /\ ForkBook /\ v \in Nat
    BY EntryFields, PageNat DEF BookInv, IInv, TypeOK, ForkCopy, Copying, Forking, Maps
  <1>2. /\ pte' = [pte EXCEPT ![fork.c] = [pte[fork.c] EXCEPT ![v] = MapTo(new, pte[fork.p][v].s, "rw")]]
        /\ fork' = [fork EXCEPT !.pos = v + 1]
    BY DEF ForkCopy
  <1>3. IsNone(fork.c, v)
    BY <1>1 DEF ForkBook
  <1>4. /\ pte'[fork.c][v] = MapTo(new, pte[fork.p][v].s, "rw")
        /\ \A n \in Mm, u \in Page : (n # fork.c \/ u # v) => pte'[n][u] = pte[n][u]
    BY <1>1, <1>2 DEF TypeOK
  <1>5. fork'.p = fork.p /\ fork'.c = fork.c /\ fork'.pos = v + 1
    BY <1>1, <1>2 DEF TypeOK
  <1> QED
    BY <1>1, <1>3, <1>4, <1>5, BuiltFields

\* A fork that meets a migration entry leaves it readable on both sides.
LEMMA ForkMigAt ==
  ASSUME BookInv, NEW v \in Page, ForkMig(v)
  PROVE  /\ fork.p \in Mm /\ fork.c \in Mm /\ fork.p # fork.c /\ fork.pos = v /\ Forking
         /\ pte[fork.p][v].k = "mig" /\ IsNone(fork.c, v)
         /\ fork'.p = fork.p /\ fork'.c = fork.c
         /\ \A n \in {fork.p, fork.c} :
              EntryIs(pte'[n][v], "mig", pte[fork.p][v].f, pte[fork.p][v].s, "ro")
         /\ \A n \in Mm, u \in Page : (n \notin {fork.p, fork.c} \/ u # v) => pte'[n][u] = pte[n][u]
  <1> DEFINE e == [pte[fork.p][v] EXCEPT !.p = "ro"]
  <1>1. /\ TypeOK /\ fork.p \in Mm /\ fork.c \in Mm /\ fork.p # fork.c /\ fork.pos = v /\ Forking
        /\ pte[fork.p][v] \in Entry /\ pte[fork.p][v].k = "mig" /\ ForkBook /\ v \in Nat
    BY PageNat DEF BookInv, IInv, TypeOK, ForkMig, Copying, Forking
  <1>2. EntryIs(e, "mig", pte[fork.p][v].f, pte[fork.p][v].s, "ro")
    BY <1>1, ChangedFields
  <1>3. pte' = [pte EXCEPT ![fork.p][v] = e, ![fork.c][v] = e] /\ fork' = [fork EXCEPT !.pos = v + 1]
    BY DEF ForkMig
  <1>4. IsNone(fork.c, v)
    BY <1>1 DEF ForkBook
  <1> HIDE DEF e
  <1>5. /\ \A n \in {fork.p, fork.c} : pte'[n][v] = e
        /\ \A n \in Mm, u \in Page : (n \notin {fork.p, fork.c} \/ u # v) => pte'[n][u] = pte[n][u]
    BY <1>1, <1>3 DEF TypeOK
  <1>6. fork'.p = fork.p /\ fork'.c = fork.c
    BY <1>1, <1>3 DEF TypeOK
  <1> QED
    BY <1>1, <1>2, <1>4, <1>5, <1>6

\* A zap empties entries of its range.
LEMMA ZapAt ==
  ASSUME BookInv, NEW m \in Mm, NEW v \in Page, NEW end \in (VmaFirst + 1)..(VmaLast + 1),
         ZapBatch(m, v, end) \/ ZapMig(m, v, end)
  PROVE  /\ Zapping(m, v, end)
         /\ \A n \in Mm, u \in Page :
              \/ pte'[n][u] = pte[n][u]
              \/ n = m /\ v <= u /\ u < end /\ pte'[n][u] = Absent
  <1>1. TypeOK /\ v \in Nat /\ end \in Nat /\ \A u \in Page : u \in Nat
    BY PageNat, ClusterAssumption DEF BookInv, IInv
  <1>2. PICK S \in SUBSET Page : /\ \A u \in S : v <= u /\ u < end
                                 /\ pte' = Install(m, [u \in S |-> Absent])
    <2>1. CASE ZapBatch(m, v, end)
      <3>1. PteBatch(m, v, end) \in SUBSET Page /\ \A u \in PteBatch(m, v, end) : v <= u /\ u < end
        BY DEF PteBatch
      <3> QED
        BY <2>1, <3>1 DEF ZapBatch
    <2>2. CASE ZapMig(m, v, end)
      <3> DEFINE S == {u \in v..(end - 1) : \A w \in v..u : pte[m][w].k = "mig"}
      <3>1. v..(end - 1) \subseteq Page
        BY <1>1, ClusterAssumption DEF Page
      <3>2. S \in SUBSET Page /\ \A u \in S : v <= u /\ u < end
        BY <1>1, <3>1
      <3>3. pte' = Install(m, [u \in S |-> Absent])
        BY <2>2 DEF ZapMig
      <3> QED
        BY <3>2, <3>3
    <2> QED
      BY <2>1, <2>2
  <1> DEFINE new == [u \in S |-> Absent]
  <1>3. pte' = Install(m, new) /\ DOMAIN new = S /\ \A u \in S : new[u] = Absent
    BY <1>2
  <1> HIDE DEF new
  <1>4. /\ \A n \in Mm, w \in Page : n # m => pte'[n][w] = pte[n][w]
        /\ \A w \in Page : pte'[m][w] = IF w \in S THEN new[w] ELSE pte[m][w]
    <2>1. /\ \A n \in Mm, w \in Page : n # m => pte'[n][w] = pte[n][w]
          /\ \A w \in Page : pte'[m][w] = IF w \in DOMAIN new THEN new[w] ELSE pte[m][w]
      BY <1>1, <1>3, InstallAt, Zenon
    <2> QED
      BY <1>3, <2>1
  <1>5. Zapping(m, v, end)
    BY DEF ZapBatch, ZapMig
  <1> QED
    BY <1>2, <1>3, <1>4, <1>5

\* try_to_migrate_one replaces a batch of PTEs of the folio by migration
\* entries, or leaves them for a pin.
LEMMA MigUnmapAt ==
  ASSUME BookInv, NEW v \in Page, MigUnmap(v)
  PROVE  /\ mig.m \in Mm /\ mig.src \in Frame /\ mig.ph = "unmap"
         /\ \A n \in Mm, u \in Page :
              \/ pte'[n][u] = pte[n][u]
              \/ /\ n = mig.m /\ Maps(n, u, mig.src)
                 /\ pte'[n][u].f = mig.src
                 /\ MustCopy(mig.src) => pte'[n][u].k = "map"
                 /\ ~MustCopy(mig.src) => pte'[n][u].k = "mig"
  <1> DEFINE m == mig.m  f == mig.src
             S == WalkBatch(m, v, f)
             kept == [u \in S |-> MapTo(f, pte[m][v].s + (u - v), pte[m][v].p)]
             kind == CASE pte[m][v].p = "rw" -> "rw"
                       [] pte[m][v].p # "rw" /\ excl[f] -> "rx"
                       [] OTHER -> "ro"
             migs == [u \in S |-> MigTo(f, pte[m][u].s, kind)]
             new == IF MustCopy(f) THEN kept ELSE migs
  <1>1. /\ TypeOK /\ m \in Mm /\ f \in Frame /\ mig.ph = "unmap" /\ pte[m][v].k = "map"
    BY DEF BookInv, IInv, TypeOK, MigType, MigHasFolios, MigUnmap, WalkStopsAt
  <1>2. S \in SUBSET Page /\ \A u \in S : Maps(m, u, f)
    BY <1>1, WalkBatchType DEF Maps
  <1>3. pte' = Install(m, new) /\ DOMAIN new = S
    <2>1. CASE MustCopy(f)
      BY <2>1 DEF MigUnmap
    <2>2. CASE ~MustCopy(f)
      BY <2>2 DEF MigUnmap
    <2> QED
      BY <2>1, <2>2
  <1>4. \A u \in S : new[u].f = f /\ new[u].k = IF MustCopy(f) THEN "map" ELSE "mig"
    BY DEF MapTo, MigTo
  <1> HIDE DEF new, kept, migs, kind, S
  <1>5. /\ \A n \in Mm, w \in Page : n # m => pte'[n][w] = pte[n][w]
        /\ \A w \in Page : pte'[m][w] = IF w \in S THEN new[w] ELSE pte[m][w]
    BY <1>1, <1>3, InstallAt
  <1> QED
    BY <1>1, <1>2, <1>4, <1>5

\* remove_migration_pte turns a batch of migration entries, the first of them
\* where the walk stopped, into PTEs of where the folio is.
LEMMA MigRestoreAt ==
  ASSUME BookInv, NEW v \in Page, MigRestore(v)
  PROVE  /\ mig.m \in Mm /\ mig.to \in Frame /\ mig.src \in Frame /\ mig.ph = "restore"
         /\ v >= mig.pos
         /\ pte'[mig.m][v].k = "map"
         /\ \A n \in Mm, u \in Page :
              \/ pte'[n][u] = pte[n][u]
              \/ /\ n = mig.m /\ IsMig(n, u, mig.src)
                 /\ pte'[n][u].k = "map" /\ pte'[n][u].f = mig.to
  <1> DEFINE m == mig.m  f == mig.src
             S == WalkBatch(m, v, f)
             new == [u \in S |-> RestoredPte(mig.to, u, v, pte[m][v].p)]
  <1>1. /\ TypeOK /\ m \in Mm /\ f \in Frame /\ mig.to \in Frame /\ mig.ph = "restore"
        /\ pte[m][v].k = "mig" /\ pte[m][v].f = f /\ v >= mig.pos /\ v \in WalkRange(f)
    BY DEF BookInv, IInv, TypeOK, MigType, MigHasFolios, MigRestore, WalkStopsAt
  <1>2. S \in SUBSET Page /\ \A u \in S : IsMig(m, u, f)
    BY <1>1, WalkBatchType DEF IsMig
  <1>3. pte' = Install(m, new) /\ DOMAIN new = S
    BY DEF MigRestore
  <1>4. \A u \in S : new[u].f = mig.to /\ new[u].k = "map"
    BY DEF RestoredPte, MapTo
  <1>5. v \in S
    <2>1. v \in Nat /\ \A w \in v..v : w = v
      BY PageNat
    <2> QED
      BY <1>1, <2>1 DEF WalkBatch
  <1> HIDE DEF new, S
  <1>6. /\ \A n \in Mm, w \in Page : n # m => pte'[n][w] = pte[n][w]
        /\ \A w \in Page : pte'[m][w] = IF w \in S THEN new[w] ELSE pte[m][w]
    BY <1>1, <1>3, InstallAt
  <1> QED
    BY <1>1, <1>2, <1>4, <1>5, <1>6


----------------------------------------------------------------------------
(* No migration entry outlives its migration *)

\* A folio is mapped, or waits under migration, in the cluster of its index.
IdxBook == \A m \in Mm, v \in Page : ~IsNone(m, v) => ClusterOf(v) = idx[pte[m][v].f]

\* Migration entries are of the folio being migrated; while they are
\* restored, none is left behind the walk.
MigEntries ==
  \A m \in Mm, v \in Page :
    pte[m][v].k = "mig" =>
      /\ pte[m][v].f = mig.src /\ mig.ph \in {"unmap", "move", "restore"}
      /\ mig.ph = "restore" => m > mig.m \/ (m = mig.m /\ v >= mig.pos)

\* The child of a fork comes after its parent in every walk.
ForkOrder == Forking => fork.p < fork.c

\* Where the folio is restored to has the index of the folio.
MigIdx == mig.ph = "restore" => idx[mig.to] = idx[mig.src]

\* Until the move nothing maps the new folio.
DstUnmapped ==
  mig.ph \in {"unmap", "move"} => \A m \in Mm, v \in Page : ~Maps(m, v, mig.dst)

OrphanInv == BookInv /\ IdxBook /\ MigEntries /\ ForkOrder /\ MigIdx /\ DstUnmapped

\* The walk of a folio's address range covers its cluster, also in a VMA that
\* begins in the middle of it.
LEMMA WalkCovers ==
  ASSUME TypeOK, NEW f \in Frame, NEW v \in Page, ClusterOf(v) = idx[f]
  PROVE  v \in WalkRange(f) /\ v >= WalkFirst(f)
  <1>1. v \in Nat /\ VmaFirst \in Nat /\ VmaFirst <= v /\ N \in Nat
    BY PageNat, ClusterAssumption DEF Page
  <1>2. SubOf(v) \in 0..(N - 1) /\ v = N * idx[f] + SubOf(v) /\ idx[f] \in Nat
    BY <1>1, DivMod DEF Sub, TypeOK
  <1> DEFINE b == idx[f] * N  s == SubOf(v)
  <1>3. b \in Nat /\ v = b + s /\ s \in Nat /\ s < N
    BY <1>1, <1>2
  <1>4. WalkFirst(f) = IF b < VmaFirst THEN VmaFirst ELSE b
    BY DEF WalkFirst
  <1> HIDE DEF b, s
  <1>5. WalkFirst(f) <= v /\ v < WalkFirst(f) + N
    BY <1>1, <1>3, <1>4
  <1> QED
    BY <1>1, <1>4, <1>3, <1>5 DEF WalkRange

\* What a page-table entry names: an entry of a folio nobody maps or migrates
\* does not exist.
LEMMA Unused ==
  ASSUME BookInv, MigEntries, NEW f \in Frame,
         \A m \in Mm, v \in Page : ~Maps(m, v, f), mig.src # f
  PROVE  \A m \in Mm, v \in Page : ~IsNone(m, v) => pte[m][v].f # f
  <1> SUFFICES ASSUME NEW m \in Mm, NEW v \in Page, ~IsNone(m, v)
               PROVE  pte[m][v].f # f
    OBVIOUS
  <1>1. pte[m][v] \in Entry
    BY DEF BookInv, IInv, TypeOK
  <1>2. pte[m][v].k \in {"map", "mig"}
    BY <1>1, EntryFields DEF IsNone
  <1> QED
    BY <1>2 DEF Maps, MigEntries

\* A step that moves no entry, no index and no migration.
LEMMA OrphanQuiet ==
  ASSUME OrphanInv, BookInv', UNCHANGED <<pte, idx, mig>>, ForkOrder'
  PROVE  OrphanInv'
  BY DEF OrphanInv, IdxBook, MigEntries, MigIdx, DstUnmapped, IsNone, Maps

\* A step that maps a folio nobody knew, or empties entries, while its index
\* is set to the cluster of the entries written.
LEMMA OrphanFresh ==
  ASSUME OrphanInv, BookInv', UNCHANGED mig, ForkOrder', NEW f \in Frame, NEW c \in Nat,
         \A m \in Mm, v \in Page : ~Maps(m, v, f), mig.src # f, mig.dst # f,
         idx' = [idx EXCEPT ![f] = c],
         \A m \in Mm, v \in Page :
           \/ pte'[m][v] = pte[m][v]
           \/ ClusterOf(v) = c /\ pte'[m][v].k = "map" /\ pte'[m][v].f = f
  PROVE  OrphanInv'
  <1>1. /\ TypeOK /\ IdxBook /\ MigEntries /\ MigIdx /\ DstUnmapped /\ MigBook /\ MigHasFolios
    BY DEF OrphanInv, BookInv, IInv
  <1>2. \A m \in Mm, v \in Page : ~IsNone(m, v) => pte[m][v].f # f
    BY Unused DEF OrphanInv
  <1>3. idx'[f] = c /\ \A g : g # f /\ g \in Frame => idx'[g] = idx[g]
    BY <1>1 DEF TypeOK
  <1>4. \A m \in Mm, v \in Page : ~IsNone(m, v) => pte[m][v].f \in Frame
    BY <1>1, EntryFields DEF TypeOK, IsNone
  <1>5. IdxBook'
    BY <1>1, <1>2, <1>3, <1>4 DEF IdxBook, IsNone
  <1>6. MigEntries'
    BY <1>1 DEF MigEntries
  <1>7. MigIdx'
    BY <1>1, <1>3 DEF MigIdx, MigBook, MigHasFolios
  <1>8. DstUnmapped'
    BY <1>1 DEF DstUnmapped, Maps
  <1> QED
    BY <1>5, <1>6, <1>7, <1>8 DEF OrphanInv

\* Faults and stores.
LEMMA FaultOrphan ==
  ASSUME OrphanInv, BookInv', FaultNext
  PROVE  OrphanInv'
  <1>0. /\ BookInv /\ TypeOK /\ MigBook /\ ForkOrder /\ MigEntries /\ IdxBook /\ DstUnmapped
        /\ MigIdx
    BY DEF OrphanInv, BookInv, IInv
  <1>1. ASSUME UNCHANGED <<pte, idx, mig, fork>>
        PROVE  OrphanInv'
    BY <1>0, <1>1, OrphanQuiet DEF ForkOrder, Forking
  <1>2. ASSUME NEW t \in Context, AnonMap(t)
        PROVE  OrphanInv'
    <2>1. /\ mig' = mig /\ fork' = fork
          /\ idx' = [idx EXCEPT ![ctx[t].new] = ClusterOf(ctx[t].v)]
      BY <1>2 DEF AnonMap
    <2>2. /\ ctx[t].new \in Frame /\ ctx[t].v \in Page
          /\ \A n \in Mm, u \in Page :
              \/ pte'[n][u] = pte[n][u]
              \/ /\ ClusterOf(u) = ClusterOf(ctx[t].v)
                 /\ pte'[n][u].k = "map" /\ pte'[n][u].f = ctx[t].new
      BY <1>0, <1>2, AnonMapAt DEF EntryIs
    <2>3. /\ \A m \in Mm, v \in Page : ~Maps(m, v, ctx[t].new)
          /\ mig.src # ctx[t].new /\ mig.dst # ctx[t].new
      BY <1>0, <2>2, FreshAlone
    <2>4. ClusterOf(ctx[t].v) \in Nat /\ ForkOrder'
      BY <1>0, <2>1, <2>2, PageNat, DivMod DEF ForkOrder, Forking
    <2> QED
      BY <2>1, <2>2, <2>3, <2>4, OrphanFresh
  <1>3. ASSUME NEW t \in Context, WpCommit(t)
        PROVE  OrphanInv'
    <2>1. /\ mig' = mig /\ fork' = fork
          /\ idx' = [idx EXCEPT ![ctx[t].new] = ClusterOf(ctx[t].v)]
      BY <1>3 DEF WpCommit
    <2>2. /\ ctx[t].new \in Frame /\ ctx[t].v \in Page
          /\ \A n \in Mm, u \in Page :
              \/ pte'[n][u] = pte[n][u]
              \/ /\ ClusterOf(u) = ClusterOf(ctx[t].v)
                 /\ pte'[n][u].k = "map" /\ pte'[n][u].f = ctx[t].new
      BY <1>0, <1>3, WpCommitAt DEF EntryIs
    <2>3. /\ \A m \in Mm, v \in Page : ~Maps(m, v, ctx[t].new)
          /\ mig.src # ctx[t].new /\ mig.dst # ctx[t].new
      BY <1>0, <2>2, FreshAlone
    <2>4. ClusterOf(ctx[t].v) \in Nat /\ ForkOrder'
      BY <1>0, <2>1, <2>2, PageNat, DivMod DEF ForkOrder, Forking
    <2> QED
      BY <2>1, <2>2, <2>3, <2>4, OrphanFresh
  <1>4. ASSUME NEW t \in Context, NEW m \in Mm, NEW v \in Page, WpReuse(t, m, v)
        PROVE  OrphanInv'
    <2>1. mig' = mig /\ fork' = fork /\ idx' = idx
      BY <1>4 DEF WpReuse
    <2>2. /\ Maps(m, v, pte[m][v].f)
          /\ pte'[m][v].k = "map" /\ pte'[m][v].f = pte[m][v].f
          /\ \A n \in Mm, u \in Page : (n # m \/ u # v) => pte'[n][u] = pte[n][u]
      BY <1>0, <1>4, WpReuseAt DEF EntryIs
    <2>3. \A n \in Mm, u \in Page : /\ pte'[n][u].k = pte[n][u].k /\ pte'[n][u].f = pte[n][u].f
      BY <2>2 DEF Maps
    <2>4. IdxBook' /\ MigEntries' /\ DstUnmapped'
      BY <1>0, <2>1, <2>3 DEF IdxBook, MigEntries, DstUnmapped, IsNone, Maps
    <2>5. MigIdx' /\ ForkOrder'
      BY <1>0, <2>1 DEF MigIdx, ForkOrder, Forking
    <2> QED
      BY <2>4, <2>5 DEF OrphanInv
  <1>5. ASSUME NEW m \in Mm, NEW v \in Page, NEW x \in Val, Store(m, v, x)
        PROVE  UNCHANGED <<pte, idx, mig, fork>>
    BY <1>5 DEF Store
  <1>6. ASSUME NEW t \in Context, NEW m \in Mm, NEW v \in Page, NEW f \in Frame,
               AnonAlloc(t, m, v, f)
        PROVE  UNCHANGED <<pte, idx, mig, fork>>
    BY <1>6 DEF AnonAlloc
  <1>7. ASSUME NEW t \in Context, AnonStale(t) \/ WpOom(t) \/ WpStale(t)
        PROVE  UNCHANGED <<pte, idx, mig, fork>>
    BY <1>7 DEF AnonStale, WpOom, WpStale
  <1>8. ASSUME NEW t \in Context, NEW f \in Frame, WpCopy(t, f)
        PROVE  UNCHANGED <<pte, idx, mig, fork>>
    BY <1>8 DEF WpCopy
  <1>9. ASSUME NEW t \in Context, NEW m \in Mm, NEW v \in Page, WpFault(t, m, v)
         PROVE  UNCHANGED <<pte, idx, mig, fork>>
    BY <1>9 DEF WpFault
  <1> QED
    BY <1>1, <1>2, <1>3, <1>4, <1>5, <1>6, <1>7, <1>8, <1>9 DEF FaultNext

\* Forks.  A migration entry is copied to a child that the restoring walk
\* reaches later.
LEMMA ForkOrphan ==
  ASSUME OrphanInv, BookInv', ForkNext
  PROVE  OrphanInv'
  <1>0. /\ BookInv /\ TypeOK /\ MigBook /\ ForkOrder /\ MigEntries /\ IdxBook /\ DstUnmapped
        /\ MigIdx
    BY DEF OrphanInv, BookInv, IInv
  <1>1. ASSUME NEW p \in Mm, NEW c \in Mm, ForkStart(p, c)
        PROVE  OrphanInv'
    BY <1>1, OrphanQuiet DEF ForkStart, ForkOrder, Forking
  <1>2. ASSUME NEW v \in Page, ForkNone(v)
        PROVE  OrphanInv'
    <2>1. fork'.p = fork.p /\ fork'.c = fork.c
      BY <1>0, <1>2 DEF ForkNone, TypeOK
    <2> QED
      BY <1>0, <1>2, <2>1, OrphanQuiet DEF ForkNone, ForkOrder, Forking
  <1>3. ASSUME NEW v \in Page, ForkFail(v)
        PROVE  OrphanInv'
    BY <1>3, OrphanQuiet DEF ForkFail, ForkOrder, Forking, NoFork
  <1>4. ASSUME NEW v \in Page, ForkMig(v)
        PROVE  OrphanInv'
    <2>1. idx' = idx /\ mig' = mig
      BY <1>4 DEF ForkMig
    <2>2. /\ fork.p \in Mm /\ fork.c \in Mm /\ Forking
          /\ pte[fork.p][v].k = "mig"
          /\ fork'.p = fork.p /\ fork'.c = fork.c
          /\ \A n \in {fork.p, fork.c} : pte'[n][v].k = "mig" /\ pte'[n][v].f = pte[fork.p][v].f
          /\ \A n \in Mm, u \in Page : (n \notin {fork.p, fork.c} \/ u # v) => pte'[n][u] = pte[n][u]
      BY <1>0, <1>4, ForkMigAt DEF EntryIs
    <2>3. fork.p < fork.c /\ fork.p \in Nat /\ fork.c \in Nat /\ mig.m \in Nat
      BY <1>0, <2>2, PageNat DEF ForkOrder, TypeOK, MigType
    <2>4. IdxBook'
      BY <1>0, <2>1, <2>2 DEF IdxBook, IsNone
    <2>5. MigEntries'
      BY <1>0, <2>1, <2>2, <2>3 DEF MigEntries
    <2>6. DstUnmapped' /\ MigIdx' /\ ForkOrder'
      BY <1>0, <2>1, <2>2 DEF DstUnmapped, MigIdx, ForkOrder, Forking, Maps
    <2> QED
      BY <2>4, <2>5, <2>6 DEF OrphanInv
  <1>5. ASSUME NEW v \in Page, ForkShare(v)
        PROVE  OrphanInv'
    <2> DEFINE f == pte[fork.p][v].f
    <2>1. idx' = idx /\ mig' = mig
      BY <1>5 DEF ForkShare
    <2>2. /\ fork.p \in Mm /\ fork.c \in Mm /\ Forking /\ Maps(fork.p, v, f)
          /\ fork'.p = fork.p /\ fork'.c = fork.c
          /\ \A n \in Mm, u \in Page :
               \/ pte'[n][u] = pte[n][u]
               \/ Maps(fork.p, u, f) /\ pte'[n][u].k = "map" /\ pte'[n][u].f = f
      BY <1>0, <1>5, ForkShareAt DEF EntryIs
    <2> HIDE DEF f
    <2>3. IdxBook'
      BY <1>0, <2>1, <2>2 DEF IdxBook, IsNone, Maps
    <2>4. MigEntries' /\ DstUnmapped'
      BY <1>0, <2>1, <2>2 DEF MigEntries, DstUnmapped, Maps
    <2>5. MigIdx' /\ ForkOrder'
      BY <1>0, <2>1, <2>2 DEF MigIdx, ForkOrder, Forking
    <2> QED
      BY <2>3, <2>4, <2>5 DEF OrphanInv
  <1>6. ASSUME NEW v \in Page, NEW new \in Frame, ForkCopy(v, new)
        PROVE  OrphanInv'
    <2>1. mig' = mig /\ idx' = [idx EXCEPT ![new] = ClusterOf(v)]
      BY <1>6 DEF ForkCopy
    <2>2. /\ Free(new) /\ fork'.p = fork.p /\ fork'.c = fork.c
          /\ pte'[fork.c][v].k = "map" /\ pte'[fork.c][v].f = new
          /\ \A n \in Mm, u \in Page : (n # fork.c \/ u # v) => pte'[n][u] = pte[n][u]
      BY <1>0, <1>6, ForkCopyAt DEF EntryIs
    <2>3. /\ \A m \in Mm, u \in Page : ~Maps(m, u, new)
          /\ mig.src # new /\ mig.dst # new
      BY <1>0, <2>2, FreeAlone
    <2>4. ClusterOf(v) \in Nat /\ ForkOrder'
      BY <1>0, <2>2, PageNat, DivMod DEF ForkOrder, Forking
    <2>5. \A n \in Mm, u \in Page :
            \/ pte'[n][u] = pte[n][u]
            \/ ClusterOf(u) = ClusterOf(v) /\ pte'[n][u].k = "map" /\ pte'[n][u].f = new
      BY <2>2
    <2> QED
      BY <2>1, <2>3, <2>4, <2>5, OrphanFresh
  <1>7. ASSUME ForkDone
        PROVE  OrphanInv'
    BY <1>7, OrphanQuiet DEF ForkDone, ForkOrder, Forking, NoFork
  <1> QED
    BY <1>1, <1>2, <1>3, <1>4, <1>5, <1>6, <1>7 DEF ForkNext

\* Zaps, exits and pins.
LEMMA ZapPinOrphan ==
  ASSUME OrphanInv, BookInv', ZapNext \/ PinNext
  PROVE  OrphanInv'
  <1>0. /\ BookInv /\ TypeOK /\ ForkOrder /\ MigEntries /\ IdxBook /\ DstUnmapped /\ MigIdx
    BY DEF OrphanInv, BookInv, IInv
  <1>1. ASSUME UNCHANGED <<pte, idx, mig, fork>>
        PROVE  OrphanInv'
    BY <1>0, <1>1, OrphanQuiet DEF ForkOrder, Forking
  <1>2. ASSUME NEW m \in Mm, NEW v \in Page, NEW end \in (VmaFirst + 1)..(VmaLast + 1),
               ZapBatch(m, v, end) \/ ZapMig(m, v, end)
        PROVE  OrphanInv'
    <2>1. UNCHANGED <<idx, mig, fork>>
      BY <1>2 DEF ZapBatch, ZapMig
    <2>2. \A n \in Mm, u \in Page : pte'[n][u] = pte[n][u] \/ pte'[n][u].k = "none"
      BY <1>0, <1>2, ZapAt DEF Absent
    <2>3. IdxBook' /\ MigEntries' /\ DstUnmapped'
      BY <1>0, <2>1, <2>2 DEF IdxBook, MigEntries, DstUnmapped, IsNone, Maps
    <2>4. MigIdx' /\ ForkOrder'
      BY <1>0, <2>1 DEF MigIdx, ForkOrder, Forking
    <2> QED
      BY <2>3, <2>4 DEF OrphanInv
  <1>3. ASSUME NEW f \in Frame, DeferredPut(f) \/ Unpin(f)
        PROVE  UNCHANGED <<pte, idx, mig, fork>>
    BY <1>3 DEF DeferredPut, Unpin
  <1>4. ASSUME NEW m \in Mm, Exit(m) \/ Reap(m)
        PROVE  UNCHANGED <<pte, idx, mig, fork>>
    BY <1>4 DEF Exit, Reap
  <1>5. ASSUME NEW m \in Mm, NEW v \in Page, Pin(m, v)
        PROVE  UNCHANGED <<pte, idx, mig, fork>>
    BY <1>5 DEF Pin
  <1> QED
    BY <1>1, <1>2, <1>3, <1>4, <1>5 DEF ZapNext, PinNext

\* Migration.
LEMMA MigOrphan ==
  ASSUME OrphanInv, BookInv', MigNext
  PROVE  OrphanInv'
  <1>0. /\ BookInv /\ TypeOK /\ MigBook /\ MigHasFolios /\ ForkOrder /\ MigEntries /\ IdxBook
        /\ DstUnmapped /\ MigIdx /\ mig \in MigType
        /\ mig.m \in Nat /\ mig.pos \in Nat /\ Mms \in Nat /\ Mm \subseteq Nat
        /\ Root \in Mm /\ \A m \in Mm : m >= Root /\ m <= Mms
        /\ \A u \in Page : u \in Nat
    <2>1. /\ BookInv /\ TypeOK /\ MigBook /\ MigHasFolios /\ ForkOrder /\ MigEntries /\ IdxBook
          /\ DstUnmapped /\ MigIdx /\ mig \in MigType
      BY DEF OrphanInv, BookInv, IInv, TypeOK
    <2>2. /\ Mms \in Nat /\ Mm \subseteq Nat /\ Root \in Mm
          /\ \A m \in Mm : m >= Root /\ m <= Mms
          /\ \A u \in Page : u \in Nat
      BY PageNat, ClusterAssumption DEF Mm, Root
    <2>3. mig.m \in Nat /\ mig.pos \in Nat
      BY <2>1, <2>2 DEF MigType
    <2> QED
      BY <2>1, <2>2, <2>3
  <1>1. fork' = fork
    BY DEF MigNext, MigStep, MigUnmap, MigRestore, MigUnmapNext, MigRestoreNext, MigNextMm,
           MigMove, MigDone, MigStart
  <1>2. ForkOrder'
    BY <1>0, <1>1 DEF ForkOrder, Forking
  \* Every entry under migration lies in the walk of its folio.
  <1>3. ASSUME NEW m \in Mm, NEW u \in Page, pte[m][u].k = "mig"
        PROVE  mig.src \in Frame /\ u \in WalkRange(mig.src) /\ u >= WalkFirst(mig.src)
    <2>1. mig.src \in Frame /\ ClusterOf(u) = idx[mig.src]
      BY <1>0, <1>3 DEF MigEntries, IdxBook, IsNone, MigHasFolios
    <2> QED
      BY <1>0, <2>1, WalkCovers
  <1>4. ASSUME NEW v \in Page, MigUnmap(v)
        PROVE  OrphanInv'
    <2>1. /\ idx' = idx /\ mig'.src = mig.src /\ mig'.dst = mig.dst
          /\ mig'.ph \in {"unmap", "move"}
      BY <1>0, <1>4 DEF MigUnmap, MigType
    <2>2. /\ mig.src \in Frame /\ mig.src # mig.dst /\ mig.ph = "unmap"
          /\ \A n \in Mm, u \in Page :
               \/ pte'[n][u] = pte[n][u]
               \/ /\ Maps(n, u, mig.src)
                  /\ pte'[n][u].f = mig.src /\ pte'[n][u].k \in {"map", "mig"}
      BY <1>0, <1>4, MigUnmapAt DEF MigBook
    <2>3. IdxBook'
      BY <1>0, <2>1, <2>2 DEF IdxBook, IsNone, Maps
    <2>4. MigEntries'
      BY <1>0, <2>1, <2>2 DEF MigEntries
    <2>5. DstUnmapped' /\ MigIdx'
      BY <1>0, <2>1, <2>2 DEF DstUnmapped, MigIdx, Maps
    <2> QED
      BY <1>2, <2>3, <2>4, <2>5 DEF OrphanInv
  <1>5. ASSUME NEW v \in Page, MigRestore(v)
        PROVE  OrphanInv'
    <2>1. /\ idx' = idx /\ mig'.src = mig.src /\ mig'.to = mig.to /\ mig'.m = mig.m
          /\ mig'.ph = "restore" /\ mig'.pos = v + 1
      BY <1>0, <1>5 DEF MigRestore, MigType
    <2>2. /\ mig.m \in Mm /\ mig.to \in Frame /\ mig.ph = "restore" /\ v >= mig.pos
          /\ pte'[mig.m][v].k = "map"
          /\ \A n \in Mm, u \in Page :
               \/ pte'[n][u] = pte[n][u]
               \/ /\ IsMig(n, u, mig.src)
                  /\ pte'[n][u].k = "map" /\ pte'[n][u].f = mig.to
      BY <1>0, <1>5, MigRestoreAt
    <2>3. \A w \in WalkRange(mig.src) : w >= mig.pos /\ w < v =>
            ~(pte[mig.m][w].k = "mig" /\ pte[mig.m][w].f = mig.src)
      BY <1>5 DEF MigRestore, WalkStopsAt
    <2>4. IdxBook'
      BY <1>0, <2>1, <2>2 DEF IdxBook, IsNone, IsMig, MigIdx
    <2>5. ASSUME NEW m \in Mm, NEW u \in Page, pte'[m][u].k = "mig"
          PROVE  /\ pte'[m][u].f = mig'.src
                 /\ m > mig'.m \/ (m = mig'.m /\ u >= mig'.pos)
      <3>1. pte'[m][u] = pte[m][u] /\ pte[m][u].k = "mig"
        BY <2>2, <2>5
      <3>2. /\ pte[m][u].f = mig.src
            /\ m > mig.m \/ (m = mig.m /\ u >= mig.pos)
        BY <1>0, <2>2, <3>1 DEF MigEntries
      <3>3. u \in WalkRange(mig.src)
        BY <1>3, <3>1
      <3>4. u \in Nat /\ v \in Nat /\ m \in Nat /\ mig.m \in Nat /\ mig.pos \in Nat
        BY <1>0
      <3>5. ASSUME m = mig.m
            PROVE  u >= v + 1
        <4>1. u # v
          BY <2>2, <2>5, <3>5
        <4>2. u >= mig.pos
          BY <3>2, <3>4, <3>5
        <4>3. ~(u < v)
          BY <2>3, <3>1, <3>2, <3>3, <3>5, <4>2
        <4> QED
          BY <3>4, <4>1, <4>3
      <3> QED
        BY <2>1, <3>1, <3>2, <3>4, <3>5
    <2>6. MigEntries'
      BY <2>1, <2>5 DEF MigEntries
    <2>7. DstUnmapped' /\ MigIdx'
      BY <1>0, <2>1, <2>2 DEF DstUnmapped, MigIdx
    <2> QED
      BY <1>2, <2>4, <2>6, <2>7 DEF OrphanInv
  <1>6. ASSUME MigUnmapNext
        PROVE  OrphanInv'
    <2>1. /\ UNCHANGED <<pte, idx>> /\ mig.ph = "unmap" /\ mig'.ph \in {"unmap", "move"}
          /\ mig'.src = mig.src /\ mig'.dst = mig.dst
      BY <1>0, <1>6 DEF MigUnmapNext, MigNextMm, AtWalkStart, MigType
    <2>2. IdxBook' /\ MigEntries' /\ DstUnmapped' /\ MigIdx'
      BY <1>0, <2>1 DEF IdxBook, MigEntries, DstUnmapped, MigIdx, IsNone, Maps
    <2> QED
      BY <1>2, <2>2 DEF OrphanInv
  <1>7. ASSUME MigRestoreNext
        PROVE  OrphanInv'
    <2>1. /\ UNCHANGED <<pte, idx>> /\ mig.ph = "restore" /\ WalkIsOver("mig", mig.src)
          /\ mig'.src = mig.src /\ mig'.to = mig.to
          /\ IF mig.m < Mms
             THEN mig'.ph = "restore" /\ mig'.m = mig.m + 1 /\ mig'.pos = WalkFirst(mig.src)
             ELSE mig'.ph = "done"
      BY <1>0, <1>7 DEF MigRestoreNext, MigNextMm, AtWalkStart, MigType
    <2>2. ASSUME NEW m \in Mm, NEW u \in Page, pte[m][u].k = "mig"
          PROVE  m > mig.m /\ pte[m][u].f = mig.src /\ u >= WalkFirst(mig.src)
      <3>1. /\ pte[m][u].f = mig.src
            /\ m > mig.m \/ (m = mig.m /\ u >= mig.pos)
        BY <1>0, <2>1, <2>2 DEF MigEntries
      <3>2. u \in WalkRange(mig.src) /\ u >= WalkFirst(mig.src)
        BY <1>3, <2>2
      <3> QED
        BY <2>1, <2>2, <3>1, <3>2 DEF WalkIsOver
    <2>3. MigEntries'
      <3> SUFFICES ASSUME NEW m \in Mm, NEW u \in Page, pte'[m][u].k = "mig"
                   PROVE  /\ pte'[m][u].f = mig'.src /\ mig'.ph \in {"unmap", "move", "restore"}
                          /\ mig'.ph = "restore" => m > mig'.m \/ (m = mig'.m /\ u >= mig'.pos)
        BY DEF MigEntries
      <3>1. m > mig.m /\ pte[m][u].f = mig.src /\ u >= WalkFirst(mig.src) /\ m <= Mms /\ m \in Nat
        BY <1>0, <2>1, <2>2
      <3> QED
        BY <1>0, <2>1, <3>1
    <2>4. IdxBook' /\ DstUnmapped' /\ MigIdx'
      BY <1>0, <2>1 DEF IdxBook, DstUnmapped, MigIdx, IsNone
    <2> QED
      BY <1>2, <2>3, <2>4 DEF OrphanInv
  <1>8. ASSUME MigMove
        PROVE  OrphanInv'
    <2>1. /\ UNCHANGED pte /\ mig.ph = "move" /\ mig'.ph = "restore"
          /\ mig'.src = mig.src /\ mig'.m = Root /\ mig'.pos = WalkFirst(mig.src)
          /\ \/ mig'.to = mig.dst /\ idx' = [idx EXCEPT ![mig.dst] = idx[mig.src]]
             \/ mig'.to = mig.src /\ idx' = idx
      BY <1>8 DEF MigMove, AtWalkStart
    <2>2. /\ mig.src \in Frame /\ mig.dst \in Frame /\ mig.src # mig.dst
          /\ \A m \in Mm, u \in Page : ~Maps(m, u, mig.dst)
      BY <1>0, <2>1 DEF MigHasFolios, MigBook, DstUnmapped
    <2>3. \A m \in Mm, u \in Page : ~IsNone(m, u) => pte[m][u].f # mig.dst /\ pte[m][u].f \in Frame
      <3>1. \A m \in Mm, u \in Page : ~IsNone(m, u) => pte[m][u].k \in {"map", "mig"} /\ pte[m][u].f \in Frame
        BY <1>0, EntryFields DEF TypeOK, IsNone
      <3> QED
        BY <1>0, <2>2, <3>1 DEF Maps, MigEntries
    <2>4. IdxBook'
      BY <1>0, <2>1, <2>2, <2>3 DEF IdxBook, TypeOK, IsNone
    <2>5. MigEntries'
      BY <1>0, <1>3, <2>1 DEF MigEntries
    <2>6. MigIdx' /\ DstUnmapped'
      BY <1>0, <2>1, <2>2 DEF MigIdx, DstUnmapped, TypeOK
    <2> QED
      BY <1>2, <2>4, <2>5, <2>6 DEF OrphanInv
  <1>9. ASSUME MigDone
        PROVE  OrphanInv'
    <2>1. UNCHANGED <<pte, idx>> /\ mig.ph = "done" /\ mig' = MigIdle
      BY <1>9 DEF MigDone
    <2>2. IdxBook' /\ MigEntries' /\ DstUnmapped' /\ MigIdx'
      BY <1>0, <2>1 DEF IdxBook, MigEntries, DstUnmapped, MigIdx, MigIdle, IsNone
    <2> QED
      BY <1>2, <2>2 DEF OrphanInv
  <1>10. ASSUME NEW src \in Frame, NEW dst \in Frame, MigStart(src, dst)
         PROVE  OrphanInv'
    <2>1. /\ UNCHANGED <<pte, idx>> /\ mig.ph = "idle" /\ Free(dst)
          /\ mig'.ph = "unmap" /\ mig'.dst = dst
      BY <1>10 DEF MigStart
    <2>2. \A m \in Mm, u \in Page : ~Maps(m, u, dst)
      BY <1>0, <2>1, FreeAlone
    <2>3. IdxBook' /\ MigEntries' /\ DstUnmapped' /\ MigIdx'
      BY <1>0, <2>1, <2>2 DEF IdxBook, MigEntries, DstUnmapped, MigIdx, IsNone, Maps
    <2> QED
      BY <1>2, <2>3 DEF OrphanInv
  <1> QED
    BY <1>4, <1>5, <1>6, <1>7, <1>8, <1>9, <1>10 DEF MigNext, MigStep

\* Nothing is mapped and nothing migrates at first.
LEMMA OrphanInit == Init => OrphanInv
  <1> SUFFICES ASSUME Init PROVE OrphanInv
    OBVIOUS
  <1>1. BookInv
    BY BookInit
  <1>2. \A m \in Mm, v \in Page : pte[m][v].k = "none"
    BY DEF Init, Absent
  <1>3. fork.p = fork.c /\ mig.ph = "idle"
    BY DEF Init, NoFork, MigIdle
  <1> QED
    BY <1>1, <1>2, <1>3
    DEF OrphanInv, IdxBook, MigEntries, ForkOrder, Forking, MigIdx, DstUnmapped, IsNone

\* The walks of a migration see every entry of their folio, whatever faults,
\* zaps and forks do meanwhile.
THEOREM WalksComplete == Spec => []OrphanInv
  <1>1. Init => OrphanInv
    BY OrphanInit
  <1>2. OrphanInv /\ BookInv' /\ [Next]_vars => OrphanInv'
    <2> SUFFICES ASSUME OrphanInv, BookInv', [Next]_vars PROVE OrphanInv'
      OBVIOUS
    <2>1. CASE Next
      BY <2>1, FaultOrphan, ForkOrphan, ZapPinOrphan, MigOrphan DEF Next
    <2>2. CASE UNCHANGED vars
      BY <2>2, OrphanQuiet DEF vars, OrphanInv, ForkOrder, Forking
    <2> QED
      BY <2>1, <2>2
  <1> QED
    BY <1>1, <1>2, BooksInductive, PTL DEF Spec

\* A migration entry exists only while the migration of its folio runs, in a
\* VMA that cuts clusters too: the restoring walk misses none, also of those
\* that a fork copies to the child behind its back.
THEOREM NoOrphans == Spec => []NoOrphanEntry
  <1>1. OrphanInv => NoOrphanEntry
    BY DEF OrphanInv, MigEntries, NoOrphanEntry
  <1> QED
    BY <1>1, WalksComplete, PTL

----------------------------------------------------------------------------
(* Sub-pages and owners, where folios are not migrated *)

\* No migration runs.
Still == mig.ph = "idle"

\* A PTE maps the sub-page its address stands for, in dying address spaces too.
Aligned == \A m \in Mm, v \in Page : pte[m][v].k = "map" => pte[m][v].s = SubOf(v)

\* A page somebody may write is mapped by nobody else at that address.
RwAlone ==
  \A m, n \in Mm, v \in Page :
    pte[m][v].k = "map" /\ pte[m][v].p = "rw" /\ Maps(n, v, pte[m][v].f) => m = n

OwnerInv == OrphanInv /\ Still /\ Aligned /\ ExclusiveOwner /\ RwAlone

\* A folio with a single reference has a single PTE.
LEMMA OneSite ==
  ASSUME BookInv, NEW f \in Frame, ref[f] = 1, NEW m \in Mm, NEW v \in Page, Maps(m, v, f)
  PROVE  \A n \in Mm, u \in Page : Maps(n, u, f) => n = m /\ u = v
  <1> SUFFICES ASSUME NEW n \in Mm, NEW u \in Page, Maps(n, u, f), <<n, u>> # <<m, v>>
               PROVE  FALSE
    OBVIOUS
  <1>1. ref[f] = Sites(f) + Holders(f) /\ Sites(f) \in Nat /\ Holders(f) \in Nat
    BY Known
  <1>2. <<m, v>> \in MapSites(f) /\ <<n, u>> \in MapSites(f) \ {<<m, v>>}
    BY DEF MapSites
  <1>3. IsFiniteSet(MapSites(f))
    BY SitesFinite
  <1> HIDE DEF MapSites
  <1>4. /\ IsFiniteSet(MapSites(f) \ {<<m, v>>})
        /\ Cardinality(MapSites(f) \ {<<m, v>>}) = Cardinality(MapSites(f)) - 1
    BY <1>2, <1>3, FS_RemoveElement
  <1>5. Cardinality(MapSites(f) \ {<<m, v>>}) \in Nat /\ Cardinality(MapSites(f) \ {<<m, v>>}) # 0
    BY <1>2, <1>4, FS_EmptySet, FS_CardinalityType
  <1> QED
    BY <1>1, <1>4, <1>5 DEF Sites

\* The last put makes a folio not exclusive; a put makes none exclusive.
LEMMA PutExcl ==
  ASSUME NEW F, Put(F), NEW f \in Frame, excl'[f]
  PROVE  excl[f]
  BY DEF Put

\* A step that moves no PTE and makes no folio exclusive.
LEMMA OwnerQuiet ==
  ASSUME OwnerInv, OrphanInv', UNCHANGED <<pte, mig>>,
         \A f \in Frame : excl'[f] => excl[f]
  PROVE  OwnerInv'
  <1>1. Still' /\ Aligned' /\ RwAlone'
    BY DEF OwnerInv, Still, Aligned, RwAlone, Maps
  <1>2. ExclusiveOwner'
    BY DEF OwnerInv, ExclusiveOwner, Maps
  <1> QED
    BY <1>1, <1>2 DEF OwnerInv

\* A step that gives PTEs of one address space to a folio nobody mapped.
LEMMA OwnerFresh ==
  ASSUME OwnerInv, OrphanInv', UNCHANGED mig, NEW f \in Frame, NEW m \in Mm,
         \A n \in Mm, u \in Page : ~Maps(n, u, f),
         \A g \in Frame \ {f} : excl'[g] => excl[g],
         \A n \in Mm, u \in Page :
           \/ pte'[n][u] = pte[n][u]
           \/ n = m /\ pte'[n][u].k = "map" /\ pte'[n][u].f = f /\ pte'[n][u].s = SubOf(u)
  PROVE  OwnerInv'
  <1>1. Still /\ Aligned /\ ExclusiveOwner /\ RwAlone
    BY DEF OwnerInv
  <1>2. Still' /\ Aligned'
    BY <1>1 DEF Still, Aligned
  <1>3. \A n \in Mm, u \in Page : Maps(n, u, f)' => n = m
    BY DEF Maps
  <1>4. \A n \in Mm, u \in Page, g \in Frame \ {f} : Maps(n, u, g)' => Maps(n, u, g)
    BY DEF Maps
  <1>5. ExclusiveOwner'
    BY <1>1, <1>3, <1>4 DEF ExclusiveOwner
  <1>6. RwAlone'
    <2> SUFFICES ASSUME NEW k \in Mm, NEW n \in Mm, NEW v \in Page,
                        pte'[k][v].k = "map", pte'[k][v].p = "rw", Maps(n, v, pte[k][v].f)'
                 PROVE  k = n
      BY DEF RwAlone
    <2>1. CASE pte'[k][v].f = f
      BY <1>3, <2>1 DEF Maps
    <2>2. CASE pte'[k][v].f # f
      <3>1. pte'[k][v] = pte[k][v] /\ pte'[n][v] = pte[n][v]
        BY <2>2 DEF Maps
      <3> QED
        BY <1>1, <3>1 DEF RwAlone, Maps
    <2> QED
      BY <2>1, <2>2
  <1> QED
    BY <1>2, <1>5, <1>6 DEF OwnerInv

\* Faults: an anonymous fault and a COW commit map a folio of their own, and a
\* folio is reused in place only by its one owner.
LEMMA FaultOwner ==
  ASSUME OwnerInv, OrphanInv', FaultNext
  PROVE  OwnerInv'
  <1>0. /\ OrphanInv /\ BookInv /\ TypeOK /\ Still /\ Aligned /\ ExclusiveOwner /\ RwAlone
    BY DEF OwnerInv, OrphanInv, BookInv, IInv
  <1>1. ASSUME NEW t \in Context, AnonMap(t)
        PROVE  OwnerInv'
    <2>1. mig' = mig /\ excl' = [excl EXCEPT ![ctx[t].new] = TRUE]
      BY <1>1 DEF AnonMap
    <2>2. /\ ctx[t].m \in Mm /\ ctx[t].new \in Frame
          /\ \A n \in Mm, u \in Page :
              \/ pte'[n][u] = pte[n][u]
              \/ /\ n = ctx[t].m /\ pte'[n][u].k = "map" /\ pte'[n][u].f = ctx[t].new
                 /\ pte'[n][u].s = SubOf(u)
      BY <1>0, <1>1, AnonMapAt DEF EntryIs
    <2>3. \A n \in Mm, u \in Page : ~Maps(n, u, ctx[t].new)
      BY <1>0, <2>2, FreshAlone
    <2>4. \A g \in Frame \ {ctx[t].new} : excl'[g] => excl[g]
      BY <1>0, <2>1 DEF TypeOK
    <2> QED
      BY <2>1, <2>2, <2>3, <2>4, OwnerFresh
  <1>2. ASSUME NEW t \in Context, WpCommit(t)
        PROVE  OwnerInv'
    <2>1. mig' = mig /\ excl' = [excl EXCEPT ![ctx[t].new] = TRUE]
      BY <1>2 DEF WpCommit
    <2>2. /\ ctx[t].m \in Mm /\ ctx[t].new \in Frame
          /\ \A n \in Mm, u \in Page :
              \/ pte'[n][u] = pte[n][u]
              \/ /\ n = ctx[t].m /\ pte'[n][u].k = "map" /\ pte'[n][u].f = ctx[t].new
                 /\ pte'[n][u].s = SubOf(u)
      BY <1>0, <1>2, WpCommitAt DEF EntryIs, Maps, Aligned
    <2>3. \A n \in Mm, u \in Page : ~Maps(n, u, ctx[t].new)
      BY <1>0, <2>2, FreshAlone
    <2>4. \A g \in Frame \ {ctx[t].new} : excl'[g] => excl[g]
      BY <1>0, <2>1 DEF TypeOK
    <2> QED
      BY <2>1, <2>2, <2>3, <2>4, OwnerFresh
  <1>3. ASSUME NEW t \in Context, NEW m \in Mm, NEW v \in Page, WpReuse(t, m, v)
        PROVE  OwnerInv'
    <2> DEFINE f == pte[m][v].f
    <2>1. mig' = mig /\ excl' = [excl EXCEPT ![f] = TRUE] /\ (excl[f] \/ ref[f] = 1)
      BY <1>3 DEF WpReuse, WpReusable
    <2>2. /\ Maps(m, v, f) /\ f \in Frame
          /\ EntryIs(pte'[m][v], "map", f, pte[m][v].s, "rw")
          /\ \A n \in Mm, u \in Page : (n # m \/ u # v) => pte'[n][u] = pte[n][u]
      BY <1>0, <1>3, WpReuseAt
    <2> HIDE DEF f
    <2>3. /\ \A n \in Mm, u \in Page : /\ pte'[n][u].k = pte[n][u].k /\ pte'[n][u].f = pte[n][u].f
                                       /\ pte'[n][u].s = pte[n][u].s
      BY <2>2 DEF Maps, EntryIs
    <2>4. \A n \in Mm, u \in Page : Maps(n, u, f) => n = m
      <3>1. CASE excl[f]
        BY <1>0, <2>2, <3>1 DEF ExclusiveOwner
      <3>2. CASE ref[f] = 1
        BY <1>0, <2>2, <3>2, OneSite
      <3> QED
        BY <2>1, <3>1, <3>2
    <2>5. Still' /\ Aligned'
      BY <1>0, <2>1, <2>3 DEF Still, Aligned
    <2>6. ExclusiveOwner'
      <3>1. \A g \in Frame : excl'[g] => g = f \/ excl[g]
        BY <1>0, <2>1 DEF TypeOK
      <3> QED
        BY <1>0, <2>3, <2>4, <3>1 DEF ExclusiveOwner, Maps
    <2>7. RwAlone'
      <3> SUFFICES ASSUME NEW k \in Mm, NEW n \in Mm, NEW u \in Page,
                          pte'[k][u].k = "map", pte'[k][u].p = "rw", Maps(n, u, pte[k][u].f)'
                   PROVE  k = n
        BY DEF RwAlone
      <3>1. Maps(n, u, pte[k][u].f) /\ pte[k][u].k = "map"
        BY <2>3 DEF Maps
      <3>2. CASE k = m /\ u = v
        BY <2>2, <2>4, <3>1, <3>2 DEF Maps
      <3>3. CASE k # m \/ u # v
        BY <1>0, <2>2, <3>1, <3>3 DEF RwAlone
      <3> QED
        BY <3>2, <3>3
    <2> QED
      BY <2>5, <2>6, <2>7 DEF OwnerInv
  <1>4. ASSUME NEW t \in Context, AnonStale(t) \/ WpOom(t) \/ WpStale(t)
        PROVE  OwnerInv'
    BY <1>4, PutExcl, OwnerQuiet DEF AnonStale, WpOom, WpStale
  <1>5. ASSUME UNCHANGED <<pte, mig, excl>>
        PROVE  OwnerInv'
    BY <1>5, OwnerQuiet
  <1>6. ASSUME NEW t \in Context, NEW m \in Mm, NEW v \in Page, NEW f \in Frame,
               AnonAlloc(t, m, v, f)
        PROVE  OwnerInv'
    BY <1>5, <1>6 DEF AnonAlloc
  <1>7. ASSUME NEW t \in Context, NEW m \in Mm, NEW v \in Page, WpFault(t, m, v)
        PROVE  OwnerInv'
    BY <1>5, <1>7 DEF WpFault
  <1>8. ASSUME NEW t \in Context, NEW f \in Frame, WpCopy(t, f)
        PROVE  OwnerInv'
    BY <1>5, <1>8 DEF WpCopy
  <1>9. ASSUME NEW m \in Mm, NEW v \in Page, NEW x \in Val, Store(m, v, x)
        PROVE  OwnerInv'
    BY <1>5, <1>9 DEF Store
  <1> QED
    BY <1>1, <1>2, <1>3, <1>4, <1>6, <1>7, <1>8, <1>9 DEF FaultNext

\* Forks: a shared batch is writable on neither side and its folio no longer
\* exclusive; a copied page is the child's own.
LEMMA ForkOwner ==
  ASSUME OwnerInv, OrphanInv', ForkNext
  PROVE  OwnerInv'
  <1>0. /\ OrphanInv /\ BookInv /\ TypeOK /\ Still /\ Aligned /\ ExclusiveOwner /\ RwAlone
    BY DEF OwnerInv, OrphanInv, BookInv, IInv
  <1>1. ASSUME UNCHANGED <<pte, mig, excl>>
        PROVE  OwnerInv'
    BY <1>1, OwnerQuiet
  <1>2. ASSUME NEW v \in Page, ForkMig(v)
        PROVE  FALSE
    BY <1>0, <1>2, ForkMigAt DEF OrphanInv, MigEntries, Still
  <1>3. ASSUME NEW v \in Page, NEW new \in Frame, ForkCopy(v, new)
        PROVE  OwnerInv'
    <2>1. mig' = mig /\ excl' = [excl EXCEPT ![new] = TRUE]
      BY <1>3 DEF ForkCopy
    <2>2. /\ fork.c \in Mm /\ fork.p \in Mm /\ Free(new) /\ Maps(fork.p, v, pte[fork.p][v].f)
          /\ EntryIs(pte'[fork.c][v], "map", new, pte[fork.p][v].s, "rw")
          /\ \A n \in Mm, u \in Page : (n # fork.c \/ u # v) => pte'[n][u] = pte[n][u]
      BY <1>0, <1>3, ForkCopyAt
    <2>3. \A n \in Mm, u \in Page : ~Maps(n, u, new)
      BY <1>0, <2>2, FreeAlone
    <2>4. \A g \in Frame \ {new} : excl'[g] => excl[g]
      BY <1>0, <2>1 DEF TypeOK
    <2>5. \A n \in Mm, u \in Page :
            \/ pte'[n][u] = pte[n][u]
            \/ n = fork.c /\ pte'[n][u].k = "map" /\ pte'[n][u].f = new /\ pte'[n][u].s = SubOf(u)
      BY <1>0, <2>2 DEF EntryIs, Aligned, Maps
    <2> QED
      BY <2>1, <2>2, <2>3, <2>4, <2>5, OwnerFresh
  <1>4. ASSUME NEW v \in Page, ForkShare(v)
        PROVE  OwnerInv'
    <2> DEFINE p == fork.p  c == fork.c  f == pte[p][v].f
    <2>1. mig' = mig /\ excl' = [excl EXCEPT ![f] = FALSE]
      BY <1>4 DEF ForkShare, ExclAfterDup
    <2>2. /\ p \in Mm /\ c \in Mm /\ Maps(p, v, f) /\ f \in Frame
          /\ \A n \in Mm, u \in Page :
              IF n \in {p, c} /\ v <= u /\ u < fork'.pos
              THEN /\ Maps(p, u, f) /\ IsNone(c, u)
                   /\ EntryIs(pte'[n][u], "map", f, pte[p][u].s, "ro")
              ELSE pte'[n][u] = pte[n][u]
      BY <1>0, <1>4, ForkShareAt
    <2> HIDE DEF p, c, f
    <2>3. Still' /\ Aligned'
      BY <1>0, <2>1, <2>2 DEF Still, Aligned, EntryIs, Maps
    <2>4. \A n \in Mm, u \in Page, g \in Frame \ {f} : Maps(n, u, g)' => Maps(n, u, g)
      BY <2>2 DEF Maps, EntryIs
    <2>5. ExclusiveOwner'
      <3>1. \A g \in Frame : excl'[g] => g # f /\ excl[g]
        BY <1>0, <2>1, <2>2, Zenon DEF TypeOK
      <3> QED
        BY <1>0, <2>4, <3>1 DEF ExclusiveOwner
    <2>6. RwAlone'
      <3> SUFFICES ASSUME NEW k \in Mm, NEW n \in Mm, NEW u \in Page,
                          pte'[k][u].k = "map", pte'[k][u].p = "rw", Maps(n, u, pte[k][u].f)'
                   PROVE  k = n
        BY DEF RwAlone
      <3>1. pte'[k][u] = pte[k][u] /\ ~(k \in {p, c} /\ v <= u /\ u < fork'.pos)
        BY <2>2 DEF EntryIs
      <3>2. CASE n \in {p, c} /\ v <= u /\ u < fork'.pos
        \* The parent mapped the page too: k would share with it already.
        <4>1. Maps(p, u, f) /\ pte[k][u].f = f
          BY <2>2, <3>1, <3>2 DEF EntryIs, Maps
        <4>2. k = p
          BY <1>0, <2>2, <3>1, <4>1 DEF RwAlone
        <4> QED
          BY <3>1, <3>2, <4>2
      <3>3. CASE ~(n \in {p, c} /\ v <= u /\ u < fork'.pos)
        BY <1>0, <2>2, <3>1, <3>3 DEF RwAlone, Maps
      <3> QED
        BY <3>2, <3>3
    <2> QED
      BY <2>3, <2>5, <2>6 DEF OwnerInv
  <1>5. ASSUME NEW p \in Mm, NEW c \in Mm, ForkStart(p, c)
        PROVE  OwnerInv'
    BY <1>1, <1>5 DEF ForkStart
  <1>6. ASSUME NEW v \in Page, ForkNone(v) \/ ForkFail(v)
        PROVE  OwnerInv'
    BY <1>1, <1>6 DEF ForkNone, ForkFail
  <1>7. ASSUME ForkDone
        PROVE  OwnerInv'
    BY <1>1, <1>7 DEF ForkDone
  <1> QED
    BY <1>2, <1>3, <1>4, <1>5, <1>6, <1>7 DEF ForkNext

\* Zaps, exits and pins give nobody a page.
LEMMA ZapPinOwner ==
  ASSUME OwnerInv, OrphanInv', ZapNext \/ PinNext
  PROVE  OwnerInv'
  <1>0. /\ OrphanInv /\ BookInv /\ TypeOK /\ Still /\ Aligned /\ ExclusiveOwner /\ RwAlone
    BY DEF OwnerInv, OrphanInv, BookInv, IInv
  <1>1. ASSUME NEW m \in Mm, NEW v \in Page, NEW end \in (VmaFirst + 1)..(VmaLast + 1),
               ZapBatch(m, v, end) \/ ZapMig(m, v, end)
        PROVE  OwnerInv'
    <2>1. UNCHANGED <<mig, excl>>
      BY <1>1 DEF ZapBatch, ZapMig
    <2>2. \A n \in Mm, u \in Page : pte'[n][u] = pte[n][u] \/ pte'[n][u].k = "none"
      BY <1>0, <1>1, ZapAt DEF Absent
    <2>3. Still' /\ Aligned'
      BY <1>0, <2>1, <2>2 DEF Still, Aligned
    <2>4. ExclusiveOwner'
      BY <1>0, <2>1, <2>2 DEF ExclusiveOwner, Maps
    <2>5. RwAlone'
      BY <1>0, <2>2 DEF RwAlone, Maps
    <2> QED
      BY <2>3, <2>4, <2>5 DEF OwnerInv
  <1>2. ASSUME NEW f \in Frame, DeferredPut(f) \/ Unpin(f)
        PROVE  OwnerInv'
    BY <1>2, PutExcl, OwnerQuiet DEF DeferredPut, Unpin
  <1>3. ASSUME UNCHANGED <<pte, mig, excl>>
        PROVE  OwnerInv'
    BY <1>3, OwnerQuiet
  <1>4. ASSUME NEW m \in Mm, Exit(m) \/ Reap(m)
        PROVE  OwnerInv'
    BY <1>3, <1>4 DEF Exit, Reap
  <1>5. ASSUME NEW m \in Mm, NEW v \in Page, Pin(m, v)
        PROVE  OwnerInv'
    BY <1>3, <1>5 DEF Pin
  <1> QED
    BY <1>1, <1>2, <1>4, <1>5 DEF ZapNext, PinNext

\* Without migrations none starts, and none goes on.
LEMMA NoMigStep ==
  ASSUME ~Migrating, Still, MigNext
  PROVE  FALSE
  BY DEF Still, MigNext, MigStep, MigUnmap, MigRestore, MigUnmapNext, MigRestoreNext, MigNextMm,
         MigMove, MigDone, MigStart

\* Where folios are not migrated: the inductive invariant of owners.
THEOREM OwnersInductive ==
  ASSUME ~Migrating
  PROVE  Spec => []OwnerInv
  <1>1. Init => OwnerInv
    <2> SUFFICES ASSUME Init PROVE OwnerInv
      OBVIOUS
    <2>1. \A m \in Mm, v \in Page : pte[m][v].k = "none"
      BY DEF Init, Absent
    <2>2. mig.ph = "idle"
      BY DEF Init, MigIdle
    <2> QED
      BY <2>1, <2>2, OrphanInit
      DEF OwnerInv, Still, Aligned, ExclusiveOwner, RwAlone, Maps
  <1>2. OwnerInv /\ OrphanInv' /\ [Next]_vars => OwnerInv'
    <2> SUFFICES ASSUME OwnerInv, OrphanInv', [Next]_vars PROVE OwnerInv'
      OBVIOUS
    <2>1. CASE Next
      BY <2>1, FaultOwner, ForkOwner, ZapPinOwner, NoMigStep DEF Next, OwnerInv
    <2>2. CASE UNCHANGED vars
      BY <2>2, OwnerQuiet DEF vars
    <2> QED
      BY <2>1, <2>2
  <1> QED
    BY <1>1, <1>2, WalksComplete, PTL DEF Spec

\* Where folios are not migrated, every PTE maps the sub-page its address
\* stands for, whatever faults, COW, forks and zaps do to the cluster and
\* wherever the VMA begins.
THEOREM SubPagesKept ==
  ASSUME ~Migrating
  PROVE  Spec => []SubPageAligned
  <1>1. OwnerInv => SubPageAligned
    BY DEF OwnerInv, Aligned, SubPageAligned
  <1> QED
    BY <1>1, OwnersInductive, PTL

\* Where folios are not migrated, an exclusive folio is in one address space:
\* also with pins that come and go during a fork, and with forks that fail.
THEOREM OneOwner ==
  ASSUME ~Migrating
  PROVE  Spec => []ExclusiveOwner
  BY OwnersInductive, PTL DEF OwnerInv

\* A hardware page is in one place of a page table.
LEMMA OnePlace ==
  ASSUME OwnerInv, NEW m \in Mm, NEW v \in Page, NEW n \in Mm, NEW u \in Page, ~IsNone(m, v),
         pte[m][v].f = pte[n][u].f, pte[m][v].s = pte[n][u].s
  PROVE  /\ u = v /\ pte[m][v].k = "map" /\ Maps(n, v, pte[m][v].f)
         /\ pte[m][v].f \in Frame /\ pte[m][v].s \in Sub
  <1>1. /\ BookInv /\ IdxBook /\ MigEntries /\ Still /\ Aligned /\ TypeOK
        /\ pte[m][v] \in Entry /\ pte[n][u] \in Entry
    BY DEF OwnerInv, OrphanInv, BookInv, IInv, TypeOK
  <1>2. \A k \in Mm, w \in Page : pte[k][w].k # "mig"
    BY <1>1 DEF MigEntries, Still
  <1>3. pte[m][v].k = "map" /\ pte[m][v].f \in Frame /\ pte[m][v].s \in Sub
    BY <1>1, <1>2, EntryFields DEF IsNone
  <1>4. pte[n][u].k = "map"
    <2>1. pte[n][u] # Absent
      BY <1>3, DataAssumption DEF Absent
    <2> QED
      BY <1>1, <1>2, <2>1 DEF Entry
  <1>5. SubOf(v) = SubOf(u) /\ ClusterOf(v) = ClusterOf(u)
    BY <1>1, <1>3, <1>4 DEF Aligned, IdxBook, IsNone
  <1>6. u = v
    BY <1>5, DivMod, PageNat
  <1> QED
    BY <1>3, <1>4, <1>6 DEF Maps

\* Where folios are not migrated, a hardware page that one address space may
\* write is in no other page table.
THEOREM PagesIsolated ==
  ASSUME ~Migrating
  PROVE  Spec => []CowIsolation
  <1>1. OwnerInv => CowIsolation
    <2> SUFFICES ASSUME OwnerInv, NEW m \in Mm, NEW n \in Mm, NEW v \in Page, NEW u \in Page,
                        m # n, ~IsNone(m, v), pte[m][v].f = pte[n][u].f,
                        pte[m][v].s = pte[n][u].s, pte[m][v].p = "rw"
                 PROVE  FALSE
      BY DEF CowIsolation
    <2>1. pte[m][v].k = "map" /\ Maps(n, v, pte[m][v].f)
      BY OnePlace
    <2> QED
      BY <2>1 DEF OwnerInv, RwAlone
  <1> QED
    BY <1>1, OwnersInductive, PTL

----------------------------------------------------------------------------
(* What a migration knows of its folios *)

\* The kind a walk gives to a batch that starts at v.
UnmapKind(v) == IF pte[mig.m][v].p = "rw" THEN "rw"
                ELSE IF excl[mig.src] THEN "rx" ELSE "ro"
RestoreKind(v) == IF pte[mig.m][v].p = "rw" THEN "rw" ELSE "ro"

\* Where an unmapping walk stops, and what it writes.
LEMMA UnmapAt ==
  ASSUME BookInv, NEW v \in Page, MigUnmap(v)
  PROVE  /\ mig.m \in Mm /\ mig.src \in Frame /\ mig.ph = "unmap" /\ Maps(mig.m, v, mig.src)
         /\ v >= mig.pos
         /\ \A w \in WalkRange(mig.src) : w >= mig.pos /\ w < v => ~Maps(mig.m, w, mig.src)
         /\ mig'.src = mig.src /\ mig'.dst = mig.dst /\ mig'.to = mig.to /\ mig'.m = mig.m
         /\ UNCHANGED <<idx, data, deferred, pin, ctx, fork, stage>>
         /\ MustCopy(mig.src) =>
              /\ mig'.ph = "move" /\ ~mig'.held /\ UNCHANGED <<ref, mapc, excl>>
              /\ \A n \in Mm, u \in Page :
                   \/ pte'[n][u] = pte[n][u]
                   \/ /\ n = mig.m /\ Maps(n, u, mig.src) /\ ClusterOf(u) = ClusterOf(v)
                      /\ EntryIs(pte'[n][u], "map", mig.src, pte[n][v].s + (u - v), pte[n][v].p)
                      /\ u - v = SubOf(u) - SubOf(v)
         /\ ~MustCopy(mig.src) =>
              /\ mig'.ph = "unmap" /\ mig'.held /\ mig'.pos = v + 1
              /\ excl' = [excl EXCEPT ![mig.src] = FALSE]
              /\ pte'[mig.m][v].k = "mig"
              /\ \A n \in Mm, u \in Page :
                   \/ pte'[n][u] = pte[n][u]
                   \/ /\ n = mig.m /\ Maps(n, u, mig.src) /\ ClusterOf(u) = ClusterOf(v) /\ u >= v
                      /\ EntryIs(pte'[n][u], "mig", mig.src, pte[n][u].s, UnmapKind(v))
  <1> DEFINE m == mig.m  f == mig.src
             S == WalkBatch(m, v, f)
             kept == [u \in S |-> MapTo(f, pte[m][v].s + (u - v), pte[m][v].p)]
             kind == CASE pte[m][v].p = "rw" -> "rw"
                       [] pte[m][v].p # "rw" /\ excl[f] -> "rx"
                       [] OTHER -> "ro"
             migs == [u \in S |-> MigTo(f, pte[m][u].s, kind)]
  <1>1. /\ TypeOK /\ m \in Mm /\ f \in Frame /\ mig.ph = "unmap" /\ Maps(m, v, f) /\ v >= mig.pos
        /\ v \in WalkRange(f) /\ mig \in MigType
        /\ \A w \in WalkRange(f) : w >= mig.pos /\ w < v => ~Maps(m, w, f)
    BY DEF BookInv, IInv, TypeOK, MigType, MigHasFolios, MigUnmap, WalkStopsAt, Maps
  <1>2. S \in SUBSET Page /\ \A u \in S : /\ Maps(m, u, f) /\ ClusterOf(u) = ClusterOf(v) /\ u >= v
                                          /\ u - v = SubOf(u) - SubOf(v)
    <2>1. \A u \in S : ClusterOf(u) = ClusterOf(v) /\ u >= v
      BY DEF WalkBatch
    <2> QED
      BY <1>1, <2>1, WalkBatchType DEF Maps
  <1>3. v \in S
    <2>1. v \in Nat /\ \A w \in v..v : w = v
      BY PageNat
    <2> QED
      BY <1>1, <2>1 DEF WalkBatch, Maps
  <1>4. kind = UnmapKind(v)
    BY DEF UnmapKind
  <1>5. UNCHANGED <<idx, data, deferred, pin, ctx, fork, stage>>
    BY DEF MigUnmap
  <1>6. CASE MustCopy(f)
    <2>1. /\ pte' = Install(m, kept) /\ mig' = [mig EXCEPT !.ph = "move", !.held = FALSE]
          /\ UNCHANGED <<ref, mapc, excl>>
      BY <1>6 DEF MigUnmap
    <2>2. /\ mig'.src = mig.src /\ mig'.dst = mig.dst /\ mig'.to = mig.to /\ mig'.m = mig.m
          /\ mig'.ph = "move" /\ ~mig'.held
      BY <1>1, <2>1 DEF MigType
    <2>3. /\ DOMAIN kept = S
          /\ \A u \in S : EntryIs(kept[u], "map", f, pte[m][v].s + (u - v), pte[m][v].p)
      BY DEF MapTo, EntryIs
    <2> HIDE DEF kept, migs, kind, S
    <2>4. /\ \A n \in Mm, w \in Page : n # m => pte'[n][w] = pte[n][w]
          /\ \A w \in Page : pte'[m][w] = IF w \in S THEN kept[w] ELSE pte[m][w]
      BY <1>1, <2>1, <2>3, InstallAt
    <2> QED
      BY <1>1, <1>2, <1>5, <1>6, <2>1, <2>2, <2>3, <2>4
  <1>7. CASE ~MustCopy(f)
    <2>1. /\ pte' = Install(m, migs) /\ mig' = [mig EXCEPT !.pos = v + 1, !.held = TRUE]
          /\ excl' = [excl EXCEPT ![f] = FALSE]
      BY <1>7 DEF MigUnmap
    <2>2. /\ mig'.src = mig.src /\ mig'.dst = mig.dst /\ mig'.to = mig.to /\ mig'.m = mig.m
          /\ mig'.ph = "unmap" /\ mig'.held /\ mig'.pos = v + 1
      BY <1>1, <2>1 DEF MigType
    <2>3. /\ DOMAIN migs = S
          /\ \A u \in S : EntryIs(migs[u], "mig", f, pte[m][u].s, kind)
      BY DEF MigTo, EntryIs
    <2> HIDE DEF kept, migs, kind, S
    <2>4. /\ \A n \in Mm, w \in Page : n # m => pte'[n][w] = pte[n][w]
          /\ \A w \in Page : pte'[m][w] = IF w \in S THEN migs[w] ELSE pte[m][w]
      BY <1>1, <2>1, <2>3, InstallAt
    <2>5. pte'[m][v].k = "mig"
      BY <1>3, <2>3, <2>4 DEF EntryIs
    <2> QED
      BY <1>1, <1>2, <1>4, <1>5, <1>7, <2>1, <2>2, <2>3, <2>4, <2>5
  <1> QED
    BY <1>6, <1>7

\* Where a restoring walk stops, and what it writes.
LEMMA RestoreAt ==
  ASSUME BookInv, NEW v \in Page, MigRestore(v)
  PROVE  /\ mig.m \in Mm /\ mig.to \in Frame /\ mig.src \in Frame /\ mig.ph = "restore"
         /\ IsMig(mig.m, v, mig.src) /\ v >= mig.pos
         /\ \A w \in WalkRange(mig.src) : w >= mig.pos /\ w < v => ~IsMig(mig.m, w, mig.src)
         /\ mig'.src = mig.src /\ mig'.dst = mig.dst /\ mig'.to = mig.to /\ mig'.m = mig.m
         /\ mig'.ph = "restore" /\ mig'.held /\ mig'.pos = v + 1
         /\ UNCHANGED <<idx, data, deferred, pin, ctx, fork, stage>>
         /\ excl' = [excl EXCEPT ![mig.to] = excl[mig.to] \/ pte[mig.m][v].p \in {"rw", "rx"}]
         /\ pte'[mig.m][v].k = "map"
         /\ \A n \in Mm, u \in Page :
              \/ pte'[n][u] = pte[n][u]
              \/ /\ n = mig.m /\ IsMig(n, u, mig.src) /\ ClusterOf(u) = ClusterOf(v) /\ u >= v
                 /\ EntryIs(pte'[n][u], "map", mig.to, u - v, RestoreKind(v))
                 /\ u - v = SubOf(u) - SubOf(v)
  <1> DEFINE m == mig.m  f == mig.src
             S == WalkBatch(m, v, f)
             new == [u \in S |-> RestoredPte(mig.to, u, v, pte[m][v].p)]
  <1>1. /\ TypeOK /\ m \in Mm /\ f \in Frame /\ mig.to \in Frame /\ mig.ph = "restore"
        /\ IsMig(m, v, f) /\ v >= mig.pos /\ v \in WalkRange(f) /\ mig \in MigType
        /\ \A w \in WalkRange(f) : w >= mig.pos /\ w < v => ~IsMig(m, w, f)
    BY DEF BookInv, IInv, TypeOK, MigType, MigHasFolios, MigRestore, WalkStopsAt, IsMig
  <1>2. S \in SUBSET Page /\ \A u \in S : /\ IsMig(m, u, f) /\ ClusterOf(u) = ClusterOf(v) /\ u >= v
                                          /\ u - v = SubOf(u) - SubOf(v)
    <2>1. \A u \in S : ClusterOf(u) = ClusterOf(v) /\ u >= v
      BY DEF WalkBatch
    <2> QED
      BY <1>1, <2>1, WalkBatchType DEF IsMig
  <1>3. v \in S
    <2>1. v \in Nat /\ \A w \in v..v : w = v
      BY PageNat
    <2> QED
      BY <1>1, <2>1 DEF WalkBatch, IsMig
  <1>4. /\ pte' = Install(m, new) /\ DOMAIN new = S
        /\ UNCHANGED <<idx, data, deferred, pin, ctx, fork, stage>>
        /\ mig' = [mig EXCEPT !.pos = v + 1, !.held = TRUE]
        /\ excl' = [excl EXCEPT ![mig.to] = excl[mig.to] \/ pte[m][v].p \in {"rw", "rx"}]
    BY DEF MigRestore
  <1>5. /\ mig'.src = mig.src /\ mig'.dst = mig.dst /\ mig'.to = mig.to /\ mig'.m = mig.m
        /\ mig'.ph = "restore" /\ mig'.held /\ mig'.pos = v + 1
    BY <1>1, <1>4 DEF MigType
  <1>6. \A u \in S : EntryIs(new[u], "map", mig.to, u - v, RestoreKind(v))
    BY DEF RestoredPte, MapTo, EntryIs, RestoreKind
  <1> HIDE DEF new, S
  <1>7. /\ \A n \in Mm, w \in Page : n # m => pte'[n][w] = pte[n][w]
        /\ \A w \in Page : pte'[m][w] = IF w \in S THEN new[w] ELSE pte[m][w]
    BY <1>1, <1>4, InstallAt
  <1>8. pte'[m][v].k = "map"
    BY <1>3, <1>6, <1>7 DEF EntryIs
  <1> QED
    BY <1>1, <1>2, <1>4, <1>5, <1>6, <1>7, <1>8

\* A migration and a fork exclude each other.
Apart == mig.ph # "idle" => ~Forking

\* What a COW fault compares its PTE with is a PTE of the folio it copies.
OrigBook ==
  \A t \in Context :
    ctx[t].st \in {"wp", "wpc"} => ctx[t].orig.k = "map" /\ ctx[t].orig.f = ctx[t].old

\* A free folio is not exclusive.
ExclHeld == \A f \in Frame : excl[f] => ref[f] > 0

\* The PTEs of the folio that are left to unmap are ahead of the walk, its
\* migration entries behind.
MapsAhead ==
  mig.ph = "unmap" =>
    \A m \in Mm, v \in Page : Maps(m, v, mig.src) => m > mig.m \/ (m = mig.m /\ v >= mig.pos)
MigsBehind ==
  mig.ph = "unmap" =>
    \A m \in Mm, v \in Page :
      pte[m][v].k = "mig" => m < mig.m \/ (m = mig.m /\ mig.held)
HeldPast == mig.ph = "unmap" /\ mig.held => mig.pos > WalkFirst(mig.src)

\* A folio that is still exclusive, or again, has no migration entries.
Untouched ==
  /\ mig.ph \in {"unmap", "move"} \/ (mig.ph = "restore" /\ mig.to # mig.src)
  /\ excl[mig.src]
  => \A m \in Mm, v \in Page : pte[m][v].k # "mig" /\ ~Maps(m, v, mig.dst)

\* After the unmapping walk only a folio that a pin kept is mapped.
MoveMaps ==
  mig.ph = "move" => \A m \in Mm, v \in Page : Maps(m, v, mig.src) => excl[mig.src]

\* Until the move the new folio is the migration's alone, and after it the old.
LoneDst == mig.ph \in {"unmap", "move"} => ref[mig.dst] = 1 /\ ~excl[mig.dst]
LoneSrc == mig.ph = "restore" /\ mig.to # mig.src => ref[mig.src] = 1

\* While entries are left to restore, the PTEs of where the folio is are
\* behind the walk.
RestoredBehind ==
  mig.ph = "restore" /\ (\E n \in Mm, u \in Page : pte[n][u].k = "mig") =>
    \A m \in Mm, v \in Page : Maps(m, v, mig.to) => m < mig.m \/ (m = mig.m /\ mig.held)

MigWalk == /\ MapsAhead /\ MigsBehind /\ HeldPast /\ Untouched /\ MoveMaps
           /\ LoneDst /\ LoneSrc /\ RestoredBehind

WalkInv == Apart /\ OrigBook /\ ExclHeld /\ MigWalk

\* A folio that only the migration holds.
LEMMA LoneFolio ==
  ASSUME BookInv, NEW f \in Frame, f \in {mig.src, mig.dst}, ref[f] = 1
  PROVE  /\ \A m \in Mm, v \in Page : ~Maps(m, v, f)
         /\ \A t \in Context : ctx[t].old # f /\ ctx[t].new # f
         /\ deferred[f] = 0 /\ pin[f] = 0
  <1>1. ref[f] = Sites(f) + Holders(f) /\ Sites(f) \in Nat /\ Migs(f) > 0
    BY Known, HolderCounts
  <1>2. /\ Olds(f) \in Nat /\ News(f) \in Nat /\ Migs(f) \in Nat
        /\ deferred[f] \in Nat /\ pin[f] \in Nat
        /\ Holders(f) = Olds(f) + News(f) + Migs(f) + deferred[f] + pin[f]
    BY Known, HoldersType DEF Holders
  <1>3. Sites(f) = 0 /\ Olds(f) = 0 /\ News(f) = 0 /\ deferred[f] = 0 /\ pin[f] = 0
    BY <1>1, <1>2
  <1> QED
    BY <1>3, HolderCounts

\* A folio under migration that is mapped has two references.
LEMMA MigHasTwo ==
  ASSUME BookInv, NEW f \in Frame, f \in {mig.src, mig.dst}, NEW m \in Mm, NEW v \in Page,
         Maps(m, v, f)
  PROVE  ref[f] # 1
  BY LoneFolio

\* A folio somebody maps, uses, migrates, pins or has yet to put is not free.
LEMMA UsedHeld ==
  BookInv => \A g \in Frame :
    \/ \E m \in Mm, v \in Page : Maps(m, v, g)
    \/ \E t \in Context : ctx[t].old = g \/ ctx[t].new = g
    \/ g \in {mig.src, mig.dst} \/ deferred[g] > 0 \/ pin[g] > 0
    => ref[g] > 0
  <1> SUFFICES ASSUME BookInv, NEW f \in Frame,
                      \/ \E m \in Mm, v \in Page : Maps(m, v, f)
                      \/ \E t \in Context : ctx[t].old = f \/ ctx[t].new = f
                      \/ f \in {mig.src, mig.dst} \/ deferred[f] > 0 \/ pin[f] > 0
               PROVE  ref[f] > 0
    OBVIOUS
  <1>1. ~Free(f)
    <2> SUFFICES ASSUME Free(f)
                 PROVE  FALSE
      OBVIOUS
    <2> QED
      BY FreeAlone
  <1>2. ref[f] \in Nat
    BY Known
  <1> QED
    BY <1>1, <1>2 DEF Free

\* The same after a step.
LEMMA UsedHeldNext ==
  ASSUME BookInv', NEW f \in Frame,
         \/ \E m \in Mm, v \in Page : Maps(m, v, f)'
         \/ \E t \in Context : ctx'[t].old = f \/ ctx'[t].new = f
         \/ f \in {mig'.src, mig'.dst} \/ deferred'[f] > 0 \/ pin'[f] > 0
  PROVE  ref'[f] > 0
  <1>1. (BookInv => \A g \in Frame :
           \/ \E m \in Mm, v \in Page : Maps(m, v, g)
           \/ \E t \in Context : ctx[t].old = g \/ ctx[t].new = g
           \/ g \in {mig.src, mig.dst} \/ deferred[g] > 0 \/ pin[g] > 0
           => ref[g] > 0)'
    <2>1. [](BookInv => \A g \in Frame :
               \/ \E m \in Mm, v \in Page : Maps(m, v, g)
               \/ \E t \in Context : ctx[t].old = g \/ ctx[t].new = g
               \/ g \in {mig.src, mig.dst} \/ deferred[g] > 0 \/ pin[g] > 0
               => ref[g] > 0)
      BY UsedHeld, PTL
    <2> QED
      BY <2>1, PTL
  <1> QED
    BY <1>1

\* What a step other than the migration's does not do to the folio under
\* migration and to its replacement.
Kept(f) == /\ excl'[f] = excl[f] /\ idx'[f] = idx[f] /\ (ref[f] = 1 => ref'[f] = 1)
           /\ \A m \in Mm, v \in Page : Maps(m, v, f)' => Maps(m, v, f)

\* A put leaves alone what a migration holds.
LEMMA PutKept ==
  ASSUME BookInv, BookInv', NEW F, Put(F), NEW f \in Frame, f \in {mig'.src, mig'.dst},
         UNCHANGED <<pte, idx>>
  PROVE  Kept(f)
  <1>1. ref'[f] > 0 /\ ref[f] \in Int
    BY UsedHeldNext, Known
  <1>2. ~(f \in F /\ ref[f] = 1)
    BY <1>1 DEF Put
  <1>3. excl'[f] = excl[f]
    BY <1>2, Zenon DEF Put
  <1>4. ref[f] = 1 => ref'[f] = 1
    BY <1>2 DEF Put
  <1> QED
    BY <1>3, <1>4 DEF Kept, Maps

\* What faults leave alone.
LEMMA FaultLeaves ==
  ASSUME FaultNext
  PROVE  UNCHANGED <<pin, fork, mig, stage>>
  <1>1. ASSUME NEW m \in Mm, NEW v \in Page, NEW x \in Val, Store(m, v, x)
        PROVE  UNCHANGED <<pin, fork, mig, stage>>
    BY <1>1 DEF Store
  <1>2. ASSUME NEW t \in Context, NEW m \in Mm, NEW v \in Page,
               (\E f \in Frame : AnonAlloc(t, m, v, f)) \/ WpFault(t, m, v) \/ WpReuse(t, m, v)
        PROVE  UNCHANGED <<pin, fork, mig, stage>>
    BY <1>2 DEF AnonAlloc, WpFault, WpReuse
  <1>3. ASSUME NEW t \in Context, AnonMap(t) \/ WpCommit(t)
        PROVE  UNCHANGED <<pin, fork, mig, stage>>
    BY <1>3 DEF AnonMap, WpCommit
  <1>4. ASSUME NEW t \in Context,
               AnonStale(t) \/ (\E f \in Frame : WpCopy(t, f)) \/ WpOom(t) \/ WpStale(t)
        PROVE  UNCHANGED <<pin, fork, mig, stage>>
    BY <1>4 DEF AnonStale, WpCopy, WpOom, WpStale
  <1> QED
    BY <1>1, <1>2, <1>3, <1>4, Zenon DEF FaultNext

\* No other step touches the entries, the exclusive flag or the last
\* reference of a folio under migration.
LEMMA FaultKeeps ==
  ASSUME BookInv, BookInv', FaultNext, NEW f \in Frame, f \in {mig.src, mig.dst}
  PROVE  Kept(f)
  <1>1. /\ TypeOK /\ ref[f] \in Nat /\ ref[f] > 0
        /\ \A t \in Context : ctx[t].new # f
    <2>1. \A t \in Context : ctx[t].new # f
      BY FreshAlone
    <2> QED
      BY <2>1, UsedHeld, Known
  <1>2. mig' = mig
    BY FaultLeaves
  <1>3. ASSUME NEW m \in Mm, NEW v \in Page, NEW x \in Val, Store(m, v, x)
        PROVE  Kept(f)
    BY <1>3 DEF Store, Kept, Maps
  <1>4. ASSUME NEW t \in Context, NEW m \in Mm, NEW v \in Page, NEW g \in Frame,
               AnonAlloc(t, m, v, g)
        PROVE  Kept(f)
    <2>1. g # f
      BY <1>1, <1>4 DEF AnonAlloc, Free
    <2>2. /\ ref' = [ref EXCEPT ![g] = 1] /\ UNCHANGED <<pte, excl, idx>>
      BY <1>4 DEF AnonAlloc
    <2> QED
      BY <1>1, <2>1, <2>2 DEF TypeOK, Kept, Maps
  <1>5. ASSUME NEW t \in Context, NEW m \in Mm, NEW v \in Page, WpFault(t, m, v)
        PROVE  Kept(f)
    <2>1. pte[m][v].f = f => ref[f] # 1
      BY <1>5, MigHasTwo DEF WpFault, WpFaulting, Maps
    <2>2. ref' = [ref EXCEPT ![pte[m][v].f] = @ + 1] /\ UNCHANGED <<pte, excl, idx>>
      BY <1>5 DEF WpFault
    <2>3. ref[f] = 1 => ref'[f] = 1
      BY <1>1, <2>1, <2>2 DEF TypeOK
    <2> QED
      BY <2>2, <2>3 DEF Kept, Maps
  <1>6. ASSUME NEW t \in Context, NEW m \in Mm, NEW v \in Page, WpReuse(t, m, v)
        PROVE  Kept(f)
    <2>1. pte[m][v].f = f => excl[f] = TRUE
      <3>1. pte[m][v].f = f => ref[f] # 1
        BY <1>6, MigHasTwo DEF WpReuse, WpFaulting, Maps
      <3> QED
        BY <1>1, <1>6, <3>1 DEF WpReuse, WpReusable, TypeOK
    <2>2. excl' = [excl EXCEPT ![pte[m][v].f] = TRUE] /\ UNCHANGED <<ref, idx>>
      BY <1>6 DEF WpReuse
    <2>3. excl'[f] = excl[f]
      BY <1>1, <2>1, <2>2, Zenon DEF TypeOK
    <2>4. \A n \in Mm, u \in Page : Maps(n, u, f)' => Maps(n, u, f)
      BY <1>6, WpReuseAt DEF Maps, EntryIs
    <2> QED
      BY <2>2, <2>3, <2>4 DEF Kept
  <1>7. ASSUME NEW t \in Context, AnonMap(t)
        PROVE  Kept(f)
    <2> DEFINE g == ctx[t].new
    <2>1. g # f /\ g \in Frame
      BY <1>1, <1>7, AnonMapAt
    <2>2. \A h \in Frame : h # g => ref'[h] = ref[h] /\ excl'[h] = excl[h] /\ idx'[h] = idx[h]
      <3> HIDE DEF g
      <3>1. /\ \E S : ref' = [ref EXCEPT ![g] = @ + (Cardinality(S) - 1)]
            /\ excl' = [excl EXCEPT ![g] = TRUE]
            /\ idx' = [idx EXCEPT ![g] = ClusterOf(ctx[t].v)]
        BY <1>7 DEF AnonMap, g
      <3> QED
        BY <1>1, <3>1, Zenon DEF TypeOK
    <2>3. \A n \in Mm, u \in Page : Maps(n, u, f)' => Maps(n, u, f)
      BY <1>7, <2>1, AnonMapAt DEF Maps, EntryIs
    <2> QED
      BY <2>1, <2>2, <2>3 DEF Kept
  <1>8. ASSUME NEW t \in Context, AnonStale(t) \/ WpOom(t) \/ WpStale(t)
        PROVE  Kept(f)
    <2>1. UNCHANGED <<pte, idx>> /\ \E F : Put(F)
      BY <1>8 DEF AnonStale, WpOom, WpStale
    <2> QED
      BY <1>2, <2>1, PutKept
  <1>9. ASSUME NEW t \in Context, NEW g \in Frame, WpCopy(t, g)
        PROVE  Kept(f)
    <2>1. g # f
      BY <1>1, <1>9 DEF WpCopy, Free
    <2>2. /\ ref' = [ref EXCEPT ![g] = 1] /\ UNCHANGED <<pte, excl, idx>>
      BY <1>9 DEF WpCopy
    <2> QED
      BY <1>1, <2>1, <2>2 DEF TypeOK, Kept, Maps
  <1>10. ASSUME NEW t \in Context, WpCommit(t)
         PROVE  Kept(f)
    <2> DEFINE g == ctx[t].new  old == ctx[t].old
    <2>1. g # f /\ g \in Frame /\ old \in Frame
      BY <1>1, <1>10, WpCommitAt
    <2>2. old = f => ref[f] # 1
      BY LoneFolio
    <2>3. \A h \in Frame : h # g => excl'[h] = excl[h] /\ idx'[h] = idx[h]
                                    /\ (h # old => ref'[h] = ref[h])
      <3> HIDE DEF g, old
      <3>1. /\ \E n : ref' = [ref EXCEPT ![g] = @ + (n - 1), ![old] = @ - (n - 1)]
            /\ excl' = [excl EXCEPT ![g] = TRUE]
            /\ idx' = [idx EXCEPT ![g] = ClusterOf(ctx[t].v)]
        BY <1>10 DEF WpCommit, g, old
      <3> QED
        BY <1>1, <3>1, Zenon DEF TypeOK
    <2>4. \A n \in Mm, u \in Page : Maps(n, u, f)' => Maps(n, u, f)
      BY <1>10, <2>1, WpCommitAt DEF Maps, EntryIs
    <2> QED
      BY <2>1, <2>2, <2>3, <2>4 DEF Kept
  <1> QED
    BY <1>3, <1>4, <1>5, <1>6, <1>7, <1>8, <1>9, <1>10 DEF FaultNext

\* Zaps, exits, late puts and pins put no PTE anywhere and make no folio
\* exclusive.
LEMMA ZapPinKeeps ==
  ASSUME BookInv, BookInv', ZapNext \/ PinNext, NEW f \in Frame, f \in {mig.src, mig.dst}
  PROVE  Kept(f)
  <1>1. TypeOK /\ ref[f] \in Nat
    BY Known
  <1>2. ASSUME NEW m \in Mm, NEW v \in Page, NEW end \in (VmaFirst + 1)..(VmaLast + 1),
               ZapBatch(m, v, end) \/ ZapMig(m, v, end)
        PROVE  Kept(f)
    <2>1. \A n \in Mm, u \in Page : Maps(n, u, f)' => Maps(n, u, f)
      BY <1>2, ZapAt DEF Maps, Absent
    <2>2. UNCHANGED <<excl, idx>>
      BY <1>2 DEF ZapBatch, ZapMig
    <2>3. ref[f] = 1 => ref'[f] = 1
      <3>1. CASE ZapMig(m, v, end)
        BY <3>1 DEF ZapMig
      <3>2. CASE ZapBatch(m, v, end)
        <4>1. pte[m][v].f = f => ref[f] # 1
          BY <3>2, MigHasTwo DEF ZapBatch, Maps
        <4>2. \E n : ref' = [ref EXCEPT ![pte[m][v].f] = @ - n]
          BY <3>2 DEF ZapBatch
        <4> QED
          BY <1>1, <4>1, <4>2, Zenon DEF TypeOK
      <3> QED
        BY <1>2, <3>1, <3>2
    <2> QED
      BY <2>1, <2>2, <2>3 DEF Kept
  <1>3. ASSUME NEW g \in Frame, DeferredPut(g) \/ Unpin(g)
        PROVE  Kept(f)
    <2>1. UNCHANGED <<pte, idx, mig>> /\ \E F : Put(F)
      BY <1>3 DEF DeferredPut, Unpin
    <2> QED
      BY <2>1, PutKept
  <1>4. ASSUME NEW m \in Mm, Exit(m) \/ Reap(m)
        PROVE  Kept(f)
    BY <1>4 DEF Exit, Reap, Kept, Maps
  <1>5. ASSUME NEW m \in Mm, NEW v \in Page, Pin(m, v)
        PROVE  Kept(f)
    <2>1. pte[m][v].f = f => ref[f] # 1
      BY <1>5, MigHasTwo DEF Pin, Maps
    <2>2. ref' = [ref EXCEPT ![pte[m][v].f] = @ + 1] /\ UNCHANGED <<pte, excl, idx>>
      BY <1>5 DEF Pin
    <2>3. ref[f] = 1 => ref'[f] = 1
      BY <1>1, <2>1, <2>2 DEF TypeOK
    <2> QED
      BY <2>2, <2>3 DEF Kept, Maps
  <1> QED
    BY <1>2, <1>3, <1>4, <1>5 DEF ZapNext, PinNext

\* A step outside the migration leaves the walk where it is.
LEMMA MigWalkKept ==
  ASSUME BookInv, MigWalk, mig' = mig,
         \A f \in Frame : f \in {mig.src, mig.dst} => Kept(f),
         \A m \in Mm, v \in Page : pte'[m][v].k = "mig" => pte[m][v].k = "mig"
  PROVE  MigWalk'
  <1>1. CASE mig.ph = "idle"
    BY <1>1 DEF MigWalk, MapsAhead, MigsBehind, HeldPast, Untouched, MoveMaps, LoneDst, LoneSrc,
                RestoredBehind
  <1>2. CASE mig.ph # "idle"
    <2>1. mig.src \in Frame /\ mig.dst \in Frame /\ mig.to \in {mig.src, mig.dst}
      BY <1>2, Known DEF IInv, MigHasFolios, MigBook
    <2>2. Kept(mig.src) /\ Kept(mig.dst) /\ Kept(mig.to)
      BY <2>1
    <2>3. WalkFirst(mig.src)' = WalkFirst(mig.src)
      BY <2>2 DEF Kept, WalkFirst
    <2>4. MapsAhead' /\ MigsBehind' /\ HeldPast' /\ MoveMaps'
      BY <2>2, <2>3 DEF MigWalk, MapsAhead, MigsBehind, HeldPast, MoveMaps, Kept
    <2>5. Untouched' /\ LoneDst' /\ LoneSrc' /\ RestoredBehind'
      BY <2>2 DEF MigWalk, Untouched, LoneDst, LoneSrc, RestoredBehind, Kept
    <2> QED
      BY <2>4, <2>5 DEF MigWalk
  <1> QED
    BY <1>1, <1>2

\* A fault leaves the walks, and what keeps them apart from forks, alone.
LEMMA FaultWalk ==
  ASSUME OrphanInv, BookInv', WalkInv, FaultNext
  PROVE  WalkInv'
  <1>1. BookInv /\ TypeOK /\ Apart /\ OrigBook /\ ExclHeld /\ MigWalk
        /\ \A f \in Frame : ref[f] \in Nat
    BY Known DEF OrphanInv, WalkInv
  <1>2. Apart' /\ mig' = mig
    <2>1. mig' = mig /\ fork' = fork
      BY FaultLeaves
    <2> QED
      BY <1>1, <2>1 DEF Apart, Forking
  <1>3. MigWalk'
    <2>1. \A f \in Frame : f \in {mig.src, mig.dst} => Kept(f)
      BY <1>1, FaultKeeps
    <2>2. \A m \in Mm, v \in Page : pte'[m][v].k = "mig" => pte[m][v].k = "mig"
      <3>1. ASSUME NEW t \in Context, AnonMap(t)
            PROVE  \A m \in Mm, v \in Page : pte'[m][v].k = "mig" => pte[m][v].k = "mig"
        BY <1>1, <3>1, AnonMapAt DEF EntryIs
      <3>2. ASSUME NEW t \in Context, WpCommit(t)
            PROVE  \A m \in Mm, v \in Page : pte'[m][v].k = "mig" => pte[m][v].k = "mig"
        BY <1>1, <3>2, WpCommitAt DEF EntryIs
      <3>3. ASSUME NEW t \in Context, NEW n \in Mm, NEW u \in Page, WpReuse(t, n, u)
            PROVE  \A m \in Mm, v \in Page : pte'[m][v].k = "mig" => pte[m][v].k = "mig"
        BY <1>1, <3>3, WpReuseAt DEF EntryIs
      <3>4. ASSUME UNCHANGED pte
            PROVE  \A m \in Mm, v \in Page : pte'[m][v].k = "mig" => pte[m][v].k = "mig"
        BY <3>4
      <3>5. ASSUME NEW t \in Context, NEW m \in Mm, NEW v \in Page,
                   (\E g \in Frame : AnonAlloc(t, m, v, g)) \/ WpFault(t, m, v)
            PROVE  UNCHANGED pte
        BY <3>5 DEF AnonAlloc, WpFault
      <3>6. ASSUME NEW t \in Context,
                   AnonStale(t) \/ (\E g \in Frame : WpCopy(t, g)) \/ WpOom(t) \/ WpStale(t)
            PROVE  UNCHANGED pte
        BY <3>6 DEF AnonStale, WpCopy, WpOom, WpStale
      <3>7. ASSUME NEW m \in Mm, NEW v \in Page, NEW x \in Val, Store(m, v, x)
            PROVE  UNCHANGED pte
        BY <3>7 DEF Store
      <3> QED
        BY <3>1, <3>2, <3>3, <3>4, <3>5, <3>6, <3>7 DEF FaultNext
    <2> QED
      BY <1>1, <1>2, <2>1, <2>2, MigWalkKept
  <1>4. ASSUME NEW t \in Context, ctx' = [ctx EXCEPT ![t] = Idle]
        PROVE  OrigBook'
    <2>1. \A s \in Context : ctx'[s] = ctx[s] \/ ctx'[s].st = "idle"
      BY <1>1, <1>4 DEF TypeOK, Idle
    <2> QED
      BY <1>1, <2>1 DEF OrigBook
  <1>5. ASSUME NEW F, Put(F)
        PROVE  ExclHeld'
    <2> SUFFICES ASSUME NEW f \in Frame, excl'[f]
                 PROVE  ref'[f] > 0
      BY DEF ExclHeld
    <2>1. excl[f] /\ ~(f \in F /\ ref[f] = 1)
      BY <1>5, Zenon DEF Put
    <2> QED
      BY <1>1, <1>5, <2>1 DEF ExclHeld, Put
  <1>6. ASSUME NEW m \in Mm, NEW v \in Page, NEW x \in Val, Store(m, v, x)
        PROVE  OrigBook' /\ ExclHeld'
    BY <1>1, <1>6 DEF Store, OrigBook, ExclHeld
  <1>7. ASSUME NEW t \in Context, NEW m \in Mm, NEW v \in Page, NEW g \in Frame,
               AnonAlloc(t, m, v, g)
        PROVE  OrigBook' /\ ExclHeld'
    <2>1. /\ ref' = [ref EXCEPT ![g] = 1] /\ excl' = excl
          /\ ctx' = [ctx EXCEPT ![t] = [Idle EXCEPT !.st = "anon", !.m = m, !.v = v, !.new = g]]
      BY <1>7 DEF AnonAlloc
    <2>2. \A s \in Context : ctx'[s] = ctx[s] \/ ctx'[s].st = "anon"
      BY <1>1, <2>1 DEF TypeOK, Idle
    <2> QED
      BY <1>1, <2>1, <2>2 DEF TypeOK, OrigBook, ExclHeld
  <1>8. ASSUME NEW t \in Context, NEW m \in Mm, NEW v \in Page, WpFault(t, m, v)
        PROVE  OrigBook' /\ ExclHeld'
    <2> DEFINE f == pte[m][v].f
    <2>1. /\ ref' = [ref EXCEPT ![f] = @ + 1] /\ excl' = excl /\ pte[m][v].k = "map"
          /\ ctx' = [ctx EXCEPT ![t] = [Idle EXCEPT !.st = "wp", !.m = m, !.v = v,
                                            !.old = f, !.orig = pte[m][v]]]
      BY <1>8 DEF WpFault, WpFaulting
    <2>2. \A s \in Context :
            ctx'[s] = ctx[s] \/ (ctx'[s].orig = pte[m][v] /\ ctx'[s].old = f)
      BY <1>1, <2>1 DEF TypeOK, Idle
    <2>3. OrigBook'
      BY <1>1, <2>1, <2>2 DEF OrigBook
    <2> HIDE DEF f
    <2> QED
      BY <1>1, <2>1, <2>3 DEF TypeOK, ExclHeld
  <1>9. ASSUME NEW t \in Context, NEW m \in Mm, NEW v \in Page, WpReuse(t, m, v)
        PROVE  OrigBook' /\ ExclHeld'
    <2> DEFINE f == pte[m][v].f
    <2>1. f \in Frame /\ Maps(m, v, f)
      BY <1>1, <1>9, WpReuseAt
    <2>2. UNCHANGED <<ref, ctx>> /\ excl' = [excl EXCEPT ![f] = TRUE]
      BY <1>9 DEF WpReuse
    <2>3. ref[f] > 0
      BY <1>1, <2>1, UsedHeld
    <2>4. \A g \in Frame : g # f => excl'[g] = excl[g]
      BY <1>1, <2>2, Zenon DEF TypeOK
    <2> QED
      BY <1>1, <2>2, <2>3, <2>4 DEF OrigBook, ExclHeld
  <1>10. ASSUME NEW t \in Context, AnonMap(t)
         PROVE  OrigBook' /\ ExclHeld'
    <2>1. PICK f \in Frame, m \in Mm, v \in Page : f = ctx[t].new /\ m = ctx[t].m /\ v = ctx[t].v
      BY <1>1, <1>10, AnonMapAt
    <2>2. Maps(m, v, f)'
      <3>1. PICK S \in AnonTargets(m, v) : pte' = Install(m, [u \in S |-> MapTo(f, SubOf(u), "rw")])
        BY <1>10, <2>1 DEF AnonMap
      <3>2. v \in S
        BY <1>10, <2>1, <3>1 DEF AnonMap, AnonTargets, Cluster
      <3>3. MapTo(f, SubOf(v), "rw").k = "map" /\ MapTo(f, SubOf(v), "rw").f = f
        BY DEF MapTo
      <3>4. pte'[m][v] = MapTo(f, SubOf(v), "rw")
        BY <1>1, <2>1, <3>1, <3>2, InstallAt
      <3> QED
        BY <3>3, <3>4 DEF Maps
    <2>3. ref'[f] > 0
      BY <2>1, <2>2, UsedHeldNext
    <2>4. \A g \in Frame : g # f => excl'[g] = excl[g] /\ ref'[g] = ref[g]
      <3>1. excl' = [excl EXCEPT ![f] = TRUE]
            /\ \E S : ref' = [ref EXCEPT ![f] = @ + (Cardinality(S) - 1)]
        BY <1>10, <2>1 DEF AnonMap
      <3> QED
        BY <1>1, <3>1, Zenon DEF TypeOK
    <2>5. OrigBook'
      BY <1>4, <1>10 DEF AnonMap
    <2> QED
      BY <1>1, <2>3, <2>4, <2>5 DEF ExclHeld
  <1>11. ASSUME NEW t \in Context, AnonStale(t) \/ WpOom(t) \/ WpStale(t)
         PROVE  OrigBook' /\ ExclHeld'
    BY <1>4, <1>5, <1>11 DEF AnonStale, WpOom, WpStale
  <1>12. ASSUME NEW t \in Context, NEW g \in Frame, WpCopy(t, g)
         PROVE  OrigBook' /\ ExclHeld'
    <2>1. ref' = [ref EXCEPT ![g] = 1] /\ excl' = excl /\ ctx[t].st = "wp"
          /\ ctx' = [ctx EXCEPT ![t].st = "wpc", ![t].new = g]
      BY <1>12 DEF WpCopy
    <2>2. \A s \in Context : /\ ctx'[s] = ctx[s] \/ (s = t /\ ctx[s].st = "wp")
                             /\ ctx'[s].orig = ctx[s].orig /\ ctx'[s].old = ctx[s].old
      BY <1>1, <2>1 DEF TypeOK, CtxType
    <2>3. OrigBook'
      BY <1>1, <2>2 DEF OrigBook
    <2> QED
      BY <1>1, <2>1, <2>3 DEF TypeOK, ExclHeld
  <1>13. ASSUME NEW t \in Context, WpCommit(t)
         PROVE  OrigBook' /\ ExclHeld'
    <2>1. PICK f \in Frame, old \in Frame, m \in Mm, v \in Page :
            f = ctx[t].new /\ old = ctx[t].old /\ m = ctx[t].m /\ v = ctx[t].v
      BY <1>1, <1>13, WpCommitAt
    <2> DEFINE S == {u \in Cluster(v) : Maps(m, u, old)}
    <2>2. pte[m][v] = ctx[t].orig /\ ctx[t].st = "wpc"
          /\ pte' = Install(m, [u \in S |-> MovedPte(f, pte[m][u])])
      BY <1>13, <2>1 DEF WpCommit
    <2>3. Maps(m, v, old) /\ v \in S
      BY <1>1, <2>1, <2>2 DEF OrigBook, Maps, Cluster
    <2>4. MovedPte(f, pte[m][v]).k = "map" /\ MovedPte(f, pte[m][v]).f = f
      BY DEF MovedPte, MapTo
    <2>5. Maps(m, v, f)'
      <3> DEFINE new == [u \in S |-> MovedPte(f, pte[m][u])]
      <3>0. v \in DOMAIN new /\ new[v] = MovedPte(f, pte[m][v]) /\ pte' = Install(m, new)
        BY <2>2, <2>3
      <3> HIDE DEF new, S
      <3>1. pte'[m][v] = MovedPte(f, pte[m][v])
        <4>1. \A w \in Page : pte'[m][w] = IF w \in DOMAIN new THEN new[w] ELSE pte[m][w]
          BY <1>1, <3>0, InstallAt
        <4> QED
          BY ONLY <3>0, <4>1, v \in Page
      <3> QED
        BY <2>4, <3>1 DEF Maps
    <2>6. ref'[f] > 0
      BY <2>1, <2>5, UsedHeldNext
    <2>7. deferred'[old] > 0
      <3>1. deferred' = [deferred EXCEPT ![old] = @ + 2]
        BY <1>13, <2>1 DEF WpCommit
      <3> QED
        BY <1>1, <2>1, <3>1 DEF TypeOK
    <2>8. ref'[old] > 0
      BY <2>1, <2>7, UsedHeldNext
    <2>9. \A g \in Frame : g \notin {f, old} => excl'[g] = excl[g] /\ ref'[g] = ref[g]
      <3>1. excl' = [excl EXCEPT ![f] = TRUE]
            /\ \E n : ref' = [ref EXCEPT ![f] = @ + (n - 1), ![old] = @ - (n - 1)]
        BY <1>13, <2>1 DEF WpCommit
      <3> QED
        BY <1>1, <3>1, Zenon DEF TypeOK
    <2>10. OrigBook'
      BY <1>4, <1>13 DEF WpCommit
    <2> QED
      BY <1>1, <2>6, <2>8, <2>9, <2>10 DEF ExclHeld
  <1>14. OrigBook' /\ ExclHeld'
    BY <1>6, <1>7, <1>8, <1>9, <1>10, <1>11, <1>12, <1>13 DEF FaultNext
  <1> QED
    BY <1>2, <1>3, <1>14 DEF WalkInv

\* Without overlaps no fork runs beside a migration.
LEMMA ForkWalk ==
  ASSUME ~ForkOverlaps, OrphanInv, BookInv', WalkInv, ForkNext
  PROVE  WalkInv'
  <1>1. BookInv /\ TypeOK /\ Apart /\ OrigBook /\ ExclHeld /\ \A f \in Frame : ref[f] \in Nat
    BY Known DEF OrphanInv, WalkInv
  <1>2. UNCHANGED <<mig, ctx>>
    BY DEF ForkNext, ForkStart, ForkNone, ForkMig, ForkShare, ForkCopy, ForkFail, ForkDone
  <1>3. mig.ph = "idle"
    BY <1>1 DEF Apart, ForkNext, ForkStart, ForkNone, ForkMig, ForkShare, ForkCopy, ForkFail,
                ForkDone, Copying
  <1>4. Apart' /\ OrigBook' /\ MigWalk'
    <2>1. MapsAhead' /\ MigsBehind' /\ HeldPast' /\ Untouched' /\ MoveMaps'
      BY <1>2, <1>3 DEF MapsAhead, MigsBehind, HeldPast, Untouched, MoveMaps
    <2>2. LoneDst' /\ LoneSrc' /\ RestoredBehind'
      BY <1>2, <1>3 DEF LoneDst, LoneSrc, RestoredBehind
    <2> QED
      BY <1>1, <1>2, <1>3, <2>1, <2>2 DEF Apart, OrigBook, MigWalk
  <1>5. ExclHeld'
    <2>1. ASSUME UNCHANGED <<ref, excl>>
          PROVE  ExclHeld'
      BY <1>1, <2>1 DEF ExclHeld
    <2>2. ASSUME NEW v \in Page, ForkShare(v)
          PROVE  ExclHeld'
      <3> DEFINE f == pte[fork.p][v].f
      <3>1. f \in Frame /\ PteBatch(fork.p, v, VmaLast + 1) \in SUBSET Page
        BY <1>1, <2>2, ForkShareAt, BatchType DEF IInv, BookInv, PteOK, TypeOK
      <3>2. Cardinality(PteBatch(fork.p, v, VmaLast + 1)) \in Nat
        BY <3>1, PagesFinite
      <3>3. /\ excl' = [excl EXCEPT ![f] = FALSE]
            /\ ref' = [ref EXCEPT ![f] = @ + Cardinality(PteBatch(fork.p, v, VmaLast + 1))]
        BY <2>2 DEF ForkShare, ExclAfterDup
      <3> HIDE DEF f
      <3>4. \A g \in Frame : ref[g] > 0 => ref'[g] > 0
        BY <1>1, <3>1, <3>2, <3>3 DEF TypeOK
      <3>5. \A g \in Frame : excl'[g] => excl[g]
        <4>1. excl'[f] = FALSE /\ \A g \in Frame : g # f => excl'[g] = excl[g]
          BY <1>1, <3>1, <3>3, Zenon DEF TypeOK
        <4> QED
          BY <4>1, Zenon
      <3> QED
        BY <1>1, <3>4, <3>5 DEF ExclHeld
    <2>3. ASSUME NEW v \in Page, NEW new \in Frame, ForkCopy(v, new)
          PROVE  ExclHeld'
      <3>1. ref' = [ref EXCEPT ![new] = 1] /\ excl' = [excl EXCEPT ![new] = TRUE]
        BY <2>3 DEF ForkCopy
      <3>2. ref'[new] = 1 /\ \A g \in Frame : g # new => ref'[g] = ref[g] /\ excl'[g] = excl[g]
        BY <1>1, <3>1 DEF TypeOK
      <3> QED
        BY <1>1, <3>2 DEF ExclHeld
    <2> QED
      BY <2>1, <2>2, <2>3 DEF ForkNext, ForkStart, ForkNone, ForkMig, ForkFail, ForkDone
  <1> QED
    BY <1>4, <1>5 DEF WalkInv

\* So do zaps and pins.
LEMMA ZapPinWalk ==
  ASSUME OrphanInv, BookInv', WalkInv, ZapNext \/ PinNext
  PROVE  WalkInv'
  <1>1. BookInv /\ TypeOK /\ Apart /\ OrigBook /\ ExclHeld /\ MigWalk
        /\ \A f \in Frame : ref[f] \in Nat
    BY Known DEF OrphanInv, WalkInv
  <1>2. ASSUME NEW F, Put(F)
        PROVE  ExclHeld'
    <2> SUFFICES ASSUME NEW f \in Frame, excl'[f]
                 PROVE  ref'[f] > 0
      BY DEF ExclHeld
    <2>1. excl[f] /\ ~(f \in F /\ ref[f] = 1)
      BY <1>2, Zenon DEF Put
    <2> QED
      BY <1>1, <1>2, <2>1 DEF ExclHeld, Put
  <1>3. ASSUME UNCHANGED <<mig, fork, ctx>>, ExclHeld',
               \A n \in Mm, u \in Page : pte'[n][u] = pte[n][u] \/ pte'[n][u] = Absent
        PROVE  WalkInv'
    <2>1. MigWalk'
      <3>1. \A f \in Frame : f \in {mig.src, mig.dst} => Kept(f)
        BY <1>1, ZapPinKeeps
      <3>2. \A m \in Mm, v \in Page : pte'[m][v].k = "mig" => pte[m][v].k = "mig"
        BY <1>3 DEF Absent
      <3> QED
        BY <1>1, <1>3, <3>1, <3>2, MigWalkKept
    <2> QED
      BY <1>1, <1>3, <2>1 DEF WalkInv, Apart, OrigBook, Forking
  <1>4. ASSUME NEW m \in Mm, NEW v \in Page, NEW end \in (VmaFirst + 1)..(VmaLast + 1),
               ZapMig(m, v, end)
        PROVE  WalkInv'
    <2>1. UNCHANGED <<mig, fork, ctx, excl, ref>>
      BY <1>4 DEF ZapMig
    <2> QED
      BY <1>1, <1>3, <1>4, <2>1, ZapAt DEF ExclHeld
  <1>5. ASSUME NEW m \in Mm, NEW v \in Page, NEW end \in (VmaFirst + 1)..(VmaLast + 1),
               ZapBatch(m, v, end)
        PROVE  WalkInv'
    <2>1. PICK f \in Frame : f = pte[m][v].f
      BY <1>1, <1>5, EntryFields DEF TypeOK, ZapBatch
    <2>2. /\ deferred' = [deferred EXCEPT ![f] = @ + 1] /\ UNCHANGED <<mig, fork, ctx, excl>>
          /\ \E n : ref' = [ref EXCEPT ![f] = @ - n]
      BY <1>5, <2>1 DEF ZapBatch
    <2>3. ref'[f] > 0
      <3>1. deferred'[f] > 0
        BY <1>1, <2>2 DEF TypeOK
      <3> QED
        BY <3>1, UsedHeldNext
    <2>4. \A g \in Frame : g # f => ref'[g] = ref[g]
      BY <1>1, <2>2, Zenon DEF TypeOK
    <2> QED
      BY <1>1, <1>3, <1>5, <2>2, <2>3, <2>4, ZapAt DEF ExclHeld
  <1>6. ASSUME NEW f \in Frame, DeferredPut(f) \/ Unpin(f)
        PROVE  WalkInv'
    BY <1>2, <1>3, <1>6 DEF DeferredPut, Unpin
  <1>7. ASSUME NEW m \in Mm, Exit(m) \/ Reap(m)
        PROVE  WalkInv'
    BY <1>1, <1>3, <1>7 DEF Exit, Reap, ExclHeld
  <1>8. ASSUME NEW m \in Mm, NEW v \in Page, Pin(m, v)
        PROVE  WalkInv'
    <2>1. UNCHANGED <<pte, mig, fork, ctx, excl>> /\ ref' = [ref EXCEPT ![pte[m][v].f] = @ + 1]
      BY <1>8 DEF Pin
    <2>2. ExclHeld'
      BY <1>1, <2>1 DEF TypeOK, ExclHeld
    <2> QED
      BY <1>3, <2>1, <2>2
  <1> QED
    BY <1>4, <1>5, <1>6, <1>7, <1>8 DEF ZapNext, PinNext

\* A page that maps the folio under migration, or a migration entry, is in
\* the range its walks look at.
LEMMA InWalkRange ==
  ASSUME OrphanInv, NEW m \in Mm, NEW v \in Page, NEW f \in Frame,
         Maps(m, v, f) \/ IsMig(m, v, f)
  PROVE  v \in WalkRange(f) /\ v >= WalkFirst(f) /\ WalkFirst(f) \in Nat /\ v \in Nat
  <1>1. ClusterOf(v) = idx[f] /\ TypeOK
    BY DEF OrphanInv, IdxBook, Maps, IsMig, IsNone, BookInv, IInv
  <1> QED
    BY <1>1, WalkCovers, WalkFirstType, PageNat

\* A migration begins where no fork runs, with two folios of which one is free.
LEMMA MigStartWalk ==
  ASSUME ~ForkOverlaps, OrphanInv, BookInv', WalkInv, NEW src \in Frame, NEW dst \in Frame,
         MigStart(src, dst)
  PROVE  WalkInv'
  <1>1. /\ BookInv /\ TypeOK /\ OrigBook /\ ExclHeld /\ ~Forking /\ mig.ph = "idle" /\ MigEntries
        /\ mapc[src] > 0 /\ Free(dst) /\ UNCHANGED <<pte, excl, idx, ctx, fork>>
        /\ ref' = [ref EXCEPT ![src] = @ + 1, ![dst] = 1]
        /\ mig' = [ph |-> "unmap", src |-> src, dst |-> dst, to |-> src, m |-> Root,
                   pos |-> WalkFirst(src), held |-> FALSE]
    BY Known DEF OrphanInv, WalkInv, MigStart
  <1>2. /\ src # dst /\ ~excl[dst] /\ \A m \in Mm, v \in Page : ~Maps(m, v, dst)
        /\ ref[src] \in Nat
    <2>1. mapc[dst] = 0 /\ \A m \in Mm, v \in Page : ~Maps(m, v, dst)
      BY <1>1, FreeAlone
    <2>2. ref[dst] = 0 /\ ref[src] \in Nat
      BY <1>1, Known DEF Free
    <2>3. ~excl[dst]
      BY <1>1, <2>2 DEF ExclHeld
    <2> QED
      BY <1>1, <2>1, <2>2, <2>3
  <1>3. /\ mig'.ph = "unmap" /\ mig'.src = src /\ mig'.dst = dst /\ mig'.m = Root /\ ~mig'.held
        /\ mig'.pos = WalkFirst(src)
    BY <1>1
  <1>4. /\ ref'[dst] = 1 /\ ref'[src] = ref[src] + 1
        /\ \A f \in Frame : f \notin {src, dst} => ref'[f] = ref[f]
    BY <1>1, <1>2 DEF TypeOK
  <1>5. \A m \in Mm, v \in Page : pte[m][v].k # "mig"
    BY <1>1 DEF MigEntries
  <1>6. MapsAhead'
    <2> SUFFICES ASSUME NEW m \in Mm, NEW v \in Page, Maps(m, v, src)
                 PROVE  m > Root \/ (m = Root /\ v >= WalkFirst(src))
      BY <1>1, <1>3 DEF MapsAhead, Maps
    <2>1. m \in Nat /\ m >= 1 /\ v >= WalkFirst(src)
      BY InWalkRange, PageNat DEF Mm
    <2> QED
      BY <2>1 DEF Root
  <1>7. MigsBehind' /\ HeldPast' /\ Untouched' /\ MoveMaps' /\ LoneDst' /\ LoneSrc' /\ RestoredBehind'
    BY <1>1, <1>2, <1>3, <1>4, <1>5
       DEF MigsBehind, HeldPast, Untouched, MoveMaps, LoneDst, LoneSrc, RestoredBehind, Maps
  <1>8. Apart' /\ OrigBook'
    BY <1>1 DEF Apart, Forking, OrigBook
  <1>9. ExclHeld'
    <2> SUFFICES ASSUME NEW f \in Frame, excl[f]
                 PROVE  ref'[f] > 0
      BY <1>1 DEF ExclHeld
    <2>1. f # dst /\ ref[f] > 0
      BY <1>1, <1>2 DEF ExclHeld
    <2> QED
      BY <1>2, <1>4, <2>1
  <1> QED
    BY <1>6, <1>7, <1>8, <1>9 DEF WalkInv, MigWalk

\* A batch of the unmapping walk.
LEMMA MigUnmapWalk ==
  ASSUME OrphanInv, BookInv', WalkInv, NEW v \in Page, MigUnmap(v)
  PROVE  WalkInv'
  <1> DEFINE src == mig.src
  <1>1. /\ BookInv /\ TypeOK /\ OrigBook /\ ExclHeld /\ Apart /\ MigWalk /\ MigEntries /\ MigBook
        /\ mig.m \in Mm /\ src \in Frame /\ mig.dst \in Frame /\ mig.ph = "unmap" /\ Maps(mig.m, v, src)
        /\ mig.dst # src /\ mig.pos \in Nat /\ mig.m \in Nat /\ v \in Nat
        /\ v >= mig.pos /\ \A w \in WalkRange(src) : w >= mig.pos /\ w < v => ~Maps(mig.m, w, src)
        /\ mig'.src = src /\ mig'.dst = mig.dst /\ mig'.m = mig.m
        /\ UNCHANGED <<idx, ctx, fork>>
    <2>1. BookInv /\ MigBook /\ TypeOK
      BY Known DEF OrphanInv
    <2>2. mig.pos \in Nat /\ mig.ph = "unmap" /\ mig.dst \in Frame
      BY <2>1 DEF TypeOK, MigType, MigUnmap, BookInv, IInv, MigHasFolios
    <2> QED
      BY <2>1, <2>2, UnmapAt, PageNat DEF OrphanInv, WalkInv, MigBook
  <1>2. WalkFirst(src)' = WalkFirst(src)
    BY <1>1 DEF WalkFirst
  <1>3. v >= WalkFirst(src) /\ WalkFirst(src) \in Nat
    BY <1>1, InWalkRange
  <1>4. ref'[mig.dst] = ref[mig.dst]
    <2>1. \/ ref' = ref
          \/ \E n : ref' = [ref EXCEPT ![src] = @ - n]
      BY DEF MigUnmap
    <2> QED
      BY <1>1, <2>1, Zenon DEF TypeOK
  <1>5. CASE MustCopy(src)
    <2>1. /\ mig'.ph = "move" /\ ~mig'.held /\ UNCHANGED <<ref, excl>>
          /\ \A n \in Mm, u \in Page :
               \/ pte'[n][u] = pte[n][u]
               \/ pte'[n][u].k = "map" /\ pte'[n][u].f = src /\ Maps(n, u, src)
      BY <1>1, <1>5, UnmapAt DEF EntryIs
    <2>2. MapsAhead' /\ MigsBehind' /\ HeldPast' /\ LoneSrc' /\ RestoredBehind' /\ LoneDst'
      BY <1>1, <2>1 DEF MapsAhead, MigsBehind, HeldPast, LoneSrc, RestoredBehind, LoneDst, MigWalk
    <2>3. MoveMaps'
      BY <1>1, <1>5, <2>1 DEF MoveMaps, MustCopy
    <2>4. Untouched'
      BY <1>1, <1>5, <2>1 DEF Untouched, MigWalk, Maps, MustCopy
    <2> QED
      BY <1>1, <2>1, <2>2, <2>3, <2>4 DEF WalkInv, MigWalk, Apart, OrigBook, ExclHeld, Forking
  <1>6. CASE ~MustCopy(src)
    <2>1. /\ mig'.ph = "unmap" /\ mig'.held /\ mig'.pos = v + 1
          /\ excl' = [excl EXCEPT ![src] = FALSE] /\ pte'[mig.m][v].k = "mig"
          /\ \A n \in Mm, u \in Page :
               \/ pte'[n][u] = pte[n][u]
               \/ pte'[n][u].k = "mig" /\ n = mig.m
      BY <1>1, <1>6, UnmapAt DEF EntryIs
    <2>2. excl'[src] = FALSE /\ \A f \in Frame : f # src => excl'[f] = excl[f]
      BY <1>1, <2>1, Zenon DEF TypeOK
    <2>3. MapsAhead'
      <3>0. mig'.src = src /\ mig'.m = mig.m /\ mig'.pos = v + 1
        BY <1>1, <2>1
      <3> SUFFICES ASSUME NEW n \in Mm, NEW u \in Page, pte'[n][u].k = "map", pte'[n][u].f = src
                   PROVE  n > mig.m \/ (n = mig.m /\ u >= v + 1)
        BY <3>0 DEF MapsAhead, Maps
      <3>1. pte'[n][u] = pte[n][u] /\ Maps(n, u, src)
        BY <2>1 DEF Maps
      <3>2. u \in WalkRange(src) /\ u \in Nat
        BY <1>1, <3>1, InWalkRange
      <3>3. n > mig.m \/ (n = mig.m /\ u >= mig.pos)
        BY <1>1, <3>1 DEF MigWalk, MapsAhead
      <3>4. n = mig.m => u # v /\ ~(u < v)
        BY <1>1, <2>1, <3>1, <3>2, <3>3
      <3> QED
        BY <1>1, <3>2, <3>3, <3>4
    <2>4. MigsBehind'
      BY <1>1, <2>1 DEF MigsBehind, MigWalk
    <2>5. HeldPast'
      BY <1>1, <1>2, <1>3, <2>1 DEF HeldPast
    <2>6. Untouched' /\ MoveMaps' /\ LoneDst' /\ LoneSrc' /\ RestoredBehind'
      BY <1>1, <1>4, <2>1, <2>2
         DEF Untouched, MoveMaps, LoneDst, LoneSrc, RestoredBehind, MigWalk
    <2>7. ExclHeld'
      <3>1. \A f \in Frame : f # src => ref'[f] = ref[f]
        <4>1. \E n : ref' = [ref EXCEPT ![src] = @ - n]
          BY <1>6 DEF MigUnmap
        <4> QED
          BY <1>1, <4>1, Zenon DEF TypeOK
      <3> QED
        BY <1>1, <2>2, <3>1 DEF ExclHeld
    <2> QED
      BY <1>1, <2>3, <2>4, <2>5, <2>6, <2>7 DEF WalkInv, MigWalk, Apart, OrigBook, Forking
  <1> QED
    BY <1>5, <1>6

\* The unmapping walk leaves an address space that maps its folio no more.
LEMMA MigUnmapNextWalk ==
  ASSUME OrphanInv, BookInv', WalkInv, MigUnmapNext
  PROVE  WalkInv'
  <1> DEFINE src == mig.src
  <1>1. /\ BookInv /\ TypeOK /\ OrigBook /\ ExclHeld /\ Apart /\ MigWalk /\ MigEntries
        /\ mig.m \in Mm /\ src \in Frame /\ mig.ph = "unmap"
        /\ mig.m \in Nat /\ mig.m <= Mms /\ Mms \in Nat
        /\ UNCHANGED <<pte, ref, excl, idx, ctx, fork>>
        /\ WalkIsOver("map", src)
    <2>1. BookInv /\ TypeOK
      BY Known DEF OrphanInv
    <2>2. mig.m \in Mm /\ mig.ph = "unmap" /\ WalkIsOver("map", src)
          /\ UNCHANGED <<pte, ref, excl, idx, ctx, fork>>
      BY <2>1 DEF TypeOK, MigType, MigUnmapNext, MigNextMm
    <2>3. src \in Frame
      BY <2>1, <2>2 DEF BookInv, IInv, MigHasFolios
    <2>4. mig.m \in Nat /\ mig.m <= Mms /\ Mms \in Nat
      BY <2>2, ClusterAssumption DEF Mm
    <2> QED
      BY <2>1, <2>2, <2>3, <2>4 DEF OrphanInv, WalkInv
  <1>2. \A n \in Mm, u \in Page : Maps(n, u, src) => n > mig.m /\ u >= WalkFirst(src)
    <2> SUFFICES ASSUME NEW n \in Mm, NEW u \in Page, Maps(n, u, src)
                 PROVE  n > mig.m /\ u >= WalkFirst(src)
      OBVIOUS
    <2>1. u \in WalkRange(src) /\ u >= WalkFirst(src)
      BY <1>1, InWalkRange
    <2>2. n > mig.m \/ (n = mig.m /\ u >= mig.pos)
      BY <1>1 DEF MigWalk, MapsAhead
    <2>3. ~(n = mig.m /\ u >= mig.pos)
      BY <1>1, <2>1 DEF WalkIsOver, Maps
    <2> QED
      BY <2>1, <2>2, <2>3
  <1>3. CASE mig.m < Mms
    <2>1. /\ mig'.ph = "unmap" /\ mig'.src = src /\ mig'.dst = mig.dst /\ mig'.m = mig.m + 1
          /\ ~mig'.held /\ mig'.pos = WalkFirst(src)
      BY <1>1, <1>3 DEF MigUnmapNext, MigNextMm, AtWalkStart
    <2>2. MapsAhead'
      <3> SUFFICES ASSUME NEW n \in Mm, NEW u \in Page, Maps(n, u, src)
                   PROVE  n > mig.m + 1 \/ (n = mig.m + 1 /\ u >= WalkFirst(src))
        BY <1>1, <2>1 DEF MapsAhead, Maps
      <3> QED
        BY <1>1, <1>2, PageNat
    <2>3. MigsBehind'
      <3> SUFFICES ASSUME NEW n \in Mm, NEW u \in Page, pte[n][u].k = "mig"
                   PROVE  n < mig.m + 1
        BY <1>1, <2>1 DEF MigsBehind
      <3>1. n \in Nat /\ (n < mig.m \/ n = mig.m)
        BY <1>1, PageNat DEF MigWalk, MigsBehind
      <3> QED
        BY <1>1, <3>1
    <2>4. HeldPast' /\ Untouched' /\ MoveMaps' /\ LoneDst' /\ LoneSrc' /\ RestoredBehind'
      BY <1>1, <2>1 DEF HeldPast, Untouched, MoveMaps, LoneDst, LoneSrc, RestoredBehind, MigWalk, Maps
    <2> QED
      BY <1>1, <2>2, <2>3, <2>4 DEF WalkInv, MigWalk, Apart, OrigBook, ExclHeld, Forking
  <1>4. CASE ~(mig.m < Mms)
    <2>1. /\ mig'.ph = "move" /\ mig'.src = src /\ mig'.dst = mig.dst
      BY <1>1, <1>4 DEF MigUnmapNext, MigNextMm, TypeOK, MigType
    <2>2. \A n \in Mm, u \in Page : ~Maps(n, u, src)
      <3>1. \A n \in Mm : n <= Mms /\ n \in Nat
        BY PageNat DEF Mm
      <3> QED
        BY <1>1, <1>2, <1>4, <3>1
    <2>3. MapsAhead' /\ MigsBehind' /\ HeldPast' /\ MoveMaps'
      BY <1>1, <2>1, <2>2 DEF MapsAhead, MigsBehind, HeldPast, MoveMaps, Maps
    <2>4. Untouched' /\ LoneDst' /\ LoneSrc' /\ RestoredBehind'
      BY <1>1, <2>1 DEF Untouched, LoneDst, LoneSrc, RestoredBehind, MigWalk, Maps
    <2> QED
      BY <1>1, <2>1, <2>3, <2>4 DEF WalkInv, MigWalk, Apart, OrigBook, ExclHeld, Forking
  <1> QED
    BY <1>3, <1>4

\* The move finds the source mapped nowhere, or leaves the contents there.
LEMMA MigMoveWalk ==
  ASSUME OrphanInv, BookInv', WalkInv, MigMove
  PROVE  WalkInv'
  <1>1. /\ BookInv /\ TypeOK /\ OrigBook /\ ExclHeld /\ Apart /\ MigWalk /\ MigBook
        /\ mig.src # mig.dst /\ mig.ph = "move"
        /\ \A m \in Mm, v \in Page : ~Maps(m, v, mig.dst)
        /\ UNCHANGED <<pte, ref, excl, ctx, fork>>
    BY Known DEF OrphanInv, WalkInv, MigBook, MigMove, DstUnmapped
  <1>2. /\ mig'.src = mig.src /\ mig'.dst = mig.dst /\ mig'.ph = "restore"
        /\ (mig'.to = mig.dst /\ ref[mig.src] = 1) \/ mig'.to = mig.src
    BY DEF MigMove, AtWalkStart
  <1>3. MapsAhead' /\ MigsBehind' /\ HeldPast' /\ MoveMaps' /\ LoneDst' /\ LoneSrc'
    BY <1>1, <1>2 DEF MapsAhead, MigsBehind, HeldPast, MoveMaps, LoneDst, LoneSrc
  <1>4. Untouched'
    BY <1>1, <1>2 DEF Untouched, MigWalk, Maps
  <1>5. RestoredBehind'
    <2>1. (\E n \in Mm, u \in Page : pte[n][u].k = "mig") =>
            \A m \in Mm, v \in Page : ~Maps(m, v, mig.src)
      BY <1>1 DEF MigWalk, Untouched, MoveMaps
    <2> QED
      BY <1>1, <1>2, <2>1 DEF RestoredBehind, Maps
  <1> QED
    BY <1>1, <1>2, <1>3, <1>4, <1>5 DEF WalkInv, MigWalk, Apart, OrigBook, ExclHeld, Forking

\* A batch of the restoring walk.
LEMMA MigRestoreWalk ==
  ASSUME OrphanInv, BookInv', WalkInv, NEW v \in Page, MigRestore(v)
  PROVE  WalkInv'
  <1>1. /\ BookInv /\ TypeOK /\ OrigBook /\ ExclHeld /\ Apart /\ MigWalk
        /\ \A f \in Frame : ref[f] \in Nat
    BY Known DEF OrphanInv, WalkInv
  <1>2. /\ mig.m \in Mm /\ mig.to \in Frame /\ mig.src \in Frame /\ mig.ph = "restore"
        /\ IsMig(mig.m, v, mig.src)
        /\ mig'.src = mig.src /\ mig'.dst = mig.dst /\ mig'.to = mig.to /\ mig'.m = mig.m
        /\ mig'.ph = "restore" /\ mig'.held
        /\ UNCHANGED <<ctx, fork>>
        /\ \A n \in Mm, u \in Page :
             pte'[n][u] = pte[n][u] \/ (n = mig.m /\ pte'[n][u].k = "map" /\ pte'[n][u].f = mig.to)
    BY <1>1, RestoreAt DEF EntryIs
  <1>3. \A f \in Frame : f # mig.to => excl'[f] = excl[f] /\ ref'[f] = ref[f]
    <2>1. /\ \E b : excl' = [excl EXCEPT ![mig.to] = b]
          /\ \E n : ref' = [ref EXCEPT ![mig.to] = n]
      BY DEF MigRestore
    <2> QED
      BY <1>1, <2>1, Zenon DEF TypeOK
  <1>4. Apart' /\ OrigBook' /\ MapsAhead' /\ MigsBehind' /\ HeldPast' /\ MoveMaps' /\ LoneDst'
    BY <1>1, <1>2 DEF Apart, OrigBook, MapsAhead, MigsBehind, HeldPast, MoveMaps, LoneDst, Forking
  <1>5. LoneSrc' /\ Untouched'
    BY <1>1, <1>2, <1>3 DEF LoneSrc, Untouched, MigWalk, IsMig
  <1>6. RestoredBehind'
    <2>1. \A n \in Mm, u \in Page : Maps(n, u, mig.to) => n < mig.m \/ (n = mig.m /\ mig.held)
      BY <1>1, <1>2 DEF MigWalk, RestoredBehind, IsMig
    <2> QED
      BY <1>2, <2>1 DEF RestoredBehind, Maps
  <1>7. ExclHeld'
    <2>1. ref'[mig.to] > 0
      <3>1. mig.to \in {mig'.src, mig'.dst}
        BY <1>1, <1>2, Known DEF MigBook
      <3>2. PICK g \in Frame : g = mig.to
        BY <1>2
      <3> QED
        BY <3>1, <3>2, UsedHeldNext
    <2> QED
      BY <1>1, <1>3, <2>1 DEF ExclHeld
  <1> QED
    BY <1>4, <1>5, <1>6, <1>7 DEF WalkInv, MigWalk

\* The restoring walk leaves an address space without an entry.
LEMMA MigRestoreNextWalk ==
  ASSUME OrphanInv, BookInv', WalkInv, MigRestoreNext
  PROVE  WalkInv'
  <1>1. /\ BookInv /\ TypeOK /\ OrigBook /\ ExclHeld /\ Apart /\ MigWalk /\ mig.ph = "restore"
        /\ mig.m \in Nat /\ UNCHANGED <<pte, ref, excl, ctx, fork>>
    BY PageNat, Known DEF OrphanInv, WalkInv, TypeOK, MigType, MigRestoreNext, MigNextMm
  <1>2. /\ mig'.src = mig.src /\ mig'.to = mig.to /\ mig'.dst = mig.dst
        /\ \/ mig'.ph = "restore" /\ mig'.m = mig.m + 1
           \/ mig'.ph = "done"
    BY <1>1 DEF MigRestoreNext, MigNextMm, AtWalkStart, TypeOK, MigType
  <1>3. MapsAhead' /\ MigsBehind' /\ HeldPast' /\ MoveMaps' /\ LoneDst' /\ LoneSrc' /\ Untouched'
    BY <1>1, <1>2 DEF MapsAhead, MigsBehind, HeldPast, MoveMaps, LoneDst, LoneSrc, Untouched, MigWalk, Maps
  <1>4. RestoredBehind'
    <2> SUFFICES ASSUME mig'.ph = "restore", \E n \in Mm, u \in Page : pte[n][u].k = "mig",
                        NEW n \in Mm, NEW u \in Page, Maps(n, u, mig.to)
                 PROVE  n < mig.m + 1
      BY <1>1, <1>2 DEF RestoredBehind, Maps
    <2>1. n \in Nat /\ (n < mig.m \/ n = mig.m)
      BY <1>1, PageNat DEF MigWalk, RestoredBehind
    <2> QED
      BY <1>1, <2>1
  <1> QED
    BY <1>1, <1>2, <1>3, <1>4 DEF WalkInv, MigWalk, Apart, OrigBook, ExclHeld, Forking

\* The end of a migration puts both folios.
LEMMA MigDoneWalk ==
  ASSUME OrphanInv, BookInv', WalkInv, MigDone
  PROVE  WalkInv'
  <1>1. /\ BookInv /\ TypeOK /\ OrigBook /\ ExclHeld /\ \A f \in Frame : ref[f] \in Nat
        /\ mig'.ph = "idle" /\ UNCHANGED <<ctx, fork>>
    BY Known DEF OrphanInv, WalkInv, MigDone, MigIdle
  <1>2. MigWalk'
    BY <1>1 DEF MigWalk, MapsAhead, MigsBehind, HeldPast, MoveMaps, LoneDst, LoneSrc, Untouched,
                RestoredBehind
  <1>3. ExclHeld'
    <2> SUFFICES ASSUME NEW f \in Frame, excl'[f]
                 PROVE  ref'[f] > 0
      BY DEF ExclHeld
    <2>1. Put({mig.src, mig.dst})
      BY DEF MigDone
    <2>2. excl[f] /\ ~(f \in {mig.src, mig.dst} /\ ref[f] = 1)
      BY <2>1, Zenon DEF Put
    <2> QED
      BY <1>1, <2>1, <2>2 DEF ExclHeld, Put
  <1> QED
    BY <1>1, <1>2, <1>3 DEF WalkInv, Apart, OrigBook

\* Every step of a migration.
LEMMA MigNextWalk ==
  ASSUME ~ForkOverlaps, OrphanInv, BookInv', WalkInv, MigNext
  PROVE  WalkInv'
  BY MigStartWalk, MigUnmapWalk, MigUnmapNextWalk, MigMoveWalk, MigRestoreWalk,
     MigRestoreNextWalk, MigDoneWalk DEF MigNext, MigStep

\* At first nothing is migrated.
LEMMA WalkInit == Init => WalkInv
  <1> SUFFICES ASSUME Init
               PROVE  WalkInv
    OBVIOUS
  <1>1. mig.ph = "idle" /\ \A f \in Frame : excl[f] = FALSE
    BY DEF Init, MigIdle
  <1>2. MigWalk /\ Apart
    BY <1>1 DEF MigWalk, MapsAhead, MigsBehind, HeldPast, MoveMaps, LoneDst, LoneSrc, Untouched,
                RestoredBehind, Apart
  <1>3. OrigBook /\ ExclHeld
    BY <1>1 DEF Init, OrigBook, Idle, ExclHeld
  <1> QED
    BY <1>2, <1>3 DEF WalkInv

\* Where no fork overlaps a migration, the walks of a migration know what is
\* left of its folio: no mapping behind the unmapping walk, none at all
\* after it unless a pin stopped it, nobody else at the folio the contents
\* left, and no restored PTE ahead of an entry still to be restored.
THEOREM WalksInductive ==
  ASSUME ~ForkOverlaps
  PROVE  Spec => []WalkInv
  <1>1. Init => WalkInv
    BY WalkInit
  <1>2. OrphanInv /\ OrphanInv' /\ WalkInv /\ [Next]_vars => WalkInv'
    <2> SUFFICES ASSUME OrphanInv, OrphanInv', WalkInv, [Next]_vars
                 PROVE  WalkInv'
      OBVIOUS
    <2>1. BookInv'
      BY DEF OrphanInv
    <2>2. CASE Next
      BY <2>1, <2>2, FaultWalk, ForkWalk, ZapPinWalk, MigNextWalk DEF Next
    <2>3. CASE UNCHANGED vars
      BY <2>3 DEF vars, WalkInv, Apart, OrigBook, ExclHeld, MigWalk, MapsAhead, MigsBehind,
                  HeldPast, MoveMaps, LoneDst, LoneSrc, Untouched, RestoredBehind, Maps,
                  Forking, WalkFirst
    <2> QED
      BY <2>2, <2>3
  <1> QED
    BY <1>1, <1>2, WalksComplete, PTL DEF Spec
=============================================================================
