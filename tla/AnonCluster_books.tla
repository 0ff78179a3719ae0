-------------------------- MODULE AnonCluster_books --------------------------
(***************************************************************************)
(* The books of AnonCluster are exact for every number of frames, address  *)
(* spaces, fault contexts and hardware pages per kernel page: reference    *)
(* counts, map counts and MM_ANONPAGES; no folio in use is free.           *)
(***************************************************************************)
EXTENDS AnonCluster_proofs

----------------------------------------------------------------------------
(* The invariant *)

\* What a fault context holds in each of its states.
CtxBook ==
  \A t \in Context :
    /\ ctx[t].st = "idle" => ctx[t] = Idle
    /\ ctx[t].st = "anon" => ctx[t].old = NoFrame
    /\ ctx[t].st = "wp" => ctx[t].new = NoFrame
    /\ ctx[t].st # "idle" => stage[ctx[t].m] = "live"

\* A migration has two different folios and restores to one of them.
MigBook ==
  /\ mig.ph = "idle" => mig.src = NoFrame /\ mig.dst = NoFrame
  /\ mig.ph # "idle" => mig.src # mig.dst /\ mig.to \in {mig.src, mig.dst}

\* The page table of a child is empty from the position of the copy on.
ForkBook ==
  /\ Forking => /\ stage[fork.c] = "embryo"
                /\ \A v \in Page : v >= fork.pos => IsNone(fork.c, v)
  /\ \A m \in Mm : stage[m] = "none" => \A v \in Page : IsNone(m, v)

\* Nobody but the fault that allocated it knows a folio not yet mapped.
Fresh == \A t \in Context : ctx[t].new \in Frame => ref[ctx[t].new] = 1

BookInv == /\ IInv /\ CtxBook /\ MigBook /\ ForkBook
           /\ RefBook /\ MapBook /\ Fresh

----------------------------------------------------------------------------
(* Counting *)

Sites(f)  == Cardinality(MapSites(f))
Olds(f)   == Cardinality(OldIn(f))
News(f)   == Cardinality(NewIn(f))
Migs(f)   == Cardinality(MigHolds(f))
Filled(m) == {v \in Page : ~IsNone(m, v)}

\* References of f that are not a PTE's.
Holders(f) == Olds(f) + News(f) + Migs(f) + deferred[f] + pin[f]

One(b) == IF b THEN 1 ELSE 0

\* Finitely many PTEs map a folio.
LEMMA SitesFinite ==
  ASSUME NEW f
  PROVE  IsFiniteSet(MapSites(f)) /\ Sites(f) \in Nat
  <1>1. IsFiniteSet(Page) /\ IsFiniteSet(Mm)
    BY FS_Interval, ClusterAssumption DEF Page, Mm
  <1>2. IsFiniteSet(Mm \X Page)
    BY <1>1, FS_Product
  <1>3. MapSites(f) \in SUBSET (Mm \X Page)
    BY DEF MapSites
  <1> QED
    BY <1>2, <1>3, FS_Subset, FS_CardinalityType DEF Sites

\* The pairs of one address space and a set of pages count as the pages.
LEMMA Row ==
  ASSUME NEW m, NEW S \in SUBSET Page
  PROVE  IsFiniteSet({m} \X S) /\ Cardinality({m} \X S) = Cardinality(S)
  <1>1. IsFiniteSet(S) /\ Cardinality(S) \in Nat
    BY PagesFinite
  <1>2. IsFiniteSet({m}) /\ Cardinality({m}) = 1
    BY FS_Singleton
  <1>3. IsFiniteSet({m} \X S) /\ Cardinality({m} \X S) = Cardinality({m}) * Cardinality(S)
    BY <1>1, <1>2, FS_Product
  <1>4. Cardinality({m}) * Cardinality(S) = Cardinality(S)
    BY <1>1, <1>2
  <1> QED
    BY <1>3, <1>4

\* A set that grows by a disjoint one.
LEMMA DisjointCount ==
  ASSUME NEW A, NEW B, NEW C, IsFiniteSet(A), IsFiniteSet(B),
         C = A \cup B, A \cap B = {}
  PROVE  Cardinality(C) = Cardinality(A) + Cardinality(B)
  <1>1. Cardinality(A \cap B) = 0
    BY FS_EmptySet
  <1>2. Cardinality(C) = Cardinality(A) + Cardinality(B) - Cardinality(A \cap B)
    BY FS_Union
  <1>3. Cardinality(A) \in Nat /\ Cardinality(B) \in Nat
    BY FS_CardinalityType
  <1> QED
    BY <1>1, <1>2, <1>3

\* Pages S of m map f after the step and did not before.
LEMMA SitesGain ==
  ASSUME NEW f, NEW m \in Mm, NEW S \in SUBSET Page,
         \A u \in S : ~Maps(m, u, f) /\ Maps(m, u, f)',
         \A n \in Mm, w \in Page : ~(n = m /\ w \in S) => (Maps(n, w, f)' <=> Maps(n, w, f))
  PROVE  Sites(f)' = Sites(f) + Cardinality(S)
  <1> DEFINE R == {m} \X S  A == MapSites(f)  B == MapSites(f)'
  <1>1. B = A \cup R
    BY DEF MapSites
  <1>2. A \cap R = {}
    BY DEF MapSites
  <1>3. IsFiniteSet(R) /\ Cardinality(R) = Cardinality(S)
    BY Row
  <1>4. IsFiniteSet(A)
    BY SitesFinite
  <1>5. Sites(f) = Cardinality(A) /\ Sites(f)' = Cardinality(B)
    BY DEF Sites
  <1> HIDE DEF R, A, B
  <1>6. Cardinality(B) = Cardinality(A) + Cardinality(R)
    BY <1>1, <1>2, <1>3, <1>4, DisjointCount
  <1> QED
    BY <1>3, <1>5, <1>6

\* Pages S of m map f before the step and not after.
LEMMA SitesLose ==
  ASSUME NEW f, NEW m \in Mm, NEW S \in SUBSET Page,
         \A u \in S : Maps(m, u, f) /\ ~Maps(m, u, f)',
         \A n \in Mm, w \in Page : ~(n = m /\ w \in S) => (Maps(n, w, f)' <=> Maps(n, w, f))
  PROVE  Sites(f)' = Sites(f) - Cardinality(S)
  <1> DEFINE R == {m} \X S  A == MapSites(f)  B == MapSites(f)'
  <1>1. A = B \cup R
    BY DEF MapSites
  <1>2. B \cap R = {}
    BY DEF MapSites
  <1>3. IsFiniteSet(R) /\ Cardinality(R) = Cardinality(S) /\ Cardinality(S) \in Nat
    BY Row, PagesFinite
  <1>4. IsFiniteSet(A)
    BY SitesFinite
  <1>5. Sites(f) = Cardinality(A) /\ Sites(f)' = Cardinality(B)
    BY DEF Sites
  <1> HIDE DEF R, A, B
  <1>6. IsFiniteSet(B) /\ Cardinality(B) \in Nat
    <2>1. B \in SUBSET A
      BY <1>1
    <2> QED
      BY <1>4, <2>1, FS_Subset, FS_CardinalityType
  <1>7. Cardinality(A) = Cardinality(B) + Cardinality(R)
    BY <1>1, <1>2, <1>3, <1>6, DisjointCount
  <1> QED
    BY <1>3, <1>5, <1>6, <1>7

\* A step that leaves alone which PTEs map f leaves their number alone.
LEMMA SitesSame ==
  ASSUME NEW f, \A n \in Mm, w \in Page : Maps(n, w, f)' <=> Maps(n, w, f)
  PROVE  Sites(f)' = Sites(f) /\ MapSites(f)' = MapSites(f)
  BY DEF Sites, MapSites

\* Adding or removing one element of a finite set.
LEMMA Toggle ==
  ASSUME NEW U, IsFiniteSet(U), NEW A \in SUBSET U, NEW x
  PROVE  /\ Cardinality(A) \in Nat
         /\ Cardinality(A \cup {x}) = Cardinality(A) + 1 - (IF x \in A THEN 1 ELSE 0)
         /\ Cardinality(A \ {x}) = Cardinality(A) - (IF x \in A THEN 1 ELSE 0)
  <1>1. IsFiniteSet(A)
    BY FS_Subset
  <1>2. Cardinality(A) \in Nat
    BY <1>1, FS_CardinalityType
  <1>3. Cardinality(A \cup {x}) = IF x \in A THEN Cardinality(A) ELSE Cardinality(A) + 1
    BY <1>1, FS_AddElement
  <1>4. Cardinality(A \ {x}) = IF x \in A THEN Cardinality(A) - 1 ELSE Cardinality(A)
    BY <1>1, FS_RemoveElement
  <1> QED
    BY <1>2, <1>3, <1>4

\* The holders of f among the fault contexts, when context t changes.
LEMMA CtxCount ==
  ASSUME TypeOK, NEW f \in Frame, NEW t \in Context,
         \A s \in Context : s # t => ctx'[s] = ctx[s]
  PROVE  /\ Olds(f)' = Olds(f) + One(ctx'[t].old = f) - One(ctx[t].old = f)
         /\ News(f)' = News(f) + One(ctx'[t].new = f) - One(ctx[t].new = f)
         /\ Olds(f) \in Nat /\ News(f) \in Nat
  <1>2. /\ OldIn(f)' = IF ctx'[t].old = f THEN OldIn(f) \cup {t} ELSE OldIn(f) \ {t}
        /\ NewIn(f)' = IF ctx'[t].new = f THEN NewIn(f) \cup {t} ELSE NewIn(f) \ {t}
    BY DEF OldIn, NewIn
  <1>3. (t \in OldIn(f) <=> ctx[t].old = f) /\ (t \in NewIn(f) <=> ctx[t].new = f)
    BY DEF OldIn, NewIn
  <1>4. OldIn(f) \in SUBSET Context /\ NewIn(f) \in SUBSET Context
    BY DEF OldIn, NewIn
  <1>5. /\ Olds(f) = Cardinality(OldIn(f)) /\ Olds(f)' = Cardinality(OldIn(f)')
        /\ News(f) = Cardinality(NewIn(f)) /\ News(f)' = Cardinality(NewIn(f)')
    BY DEF Olds, News
  <1> DEFINE A == OldIn(f)  B == NewIn(f)  A1 == OldIn(f)'  B1 == NewIn(f)'
  <1> HIDE DEF A, B, A1, B1
  <1>6. /\ Cardinality(A) \in Nat
        /\ Cardinality(A \cup {t}) = Cardinality(A) + 1 - (IF t \in A THEN 1 ELSE 0)
        /\ Cardinality(A \ {t}) = Cardinality(A) - (IF t \in A THEN 1 ELSE 0)
    BY <1>4, Toggle, DataAssumption DEF A
  <1>7. /\ Cardinality(B) \in Nat
        /\ Cardinality(B \cup {t}) = Cardinality(B) + 1 - (IF t \in B THEN 1 ELSE 0)
        /\ Cardinality(B \ {t}) = Cardinality(B) - (IF t \in B THEN 1 ELSE 0)
    BY <1>4, Toggle, DataAssumption DEF B
  <1>8. Olds(f)' = Olds(f) + One(ctx'[t].old = f) - One(ctx[t].old = f) /\ Olds(f) \in Nat
    BY <1>2, <1>3, <1>5, <1>6 DEF One, A
  <1>9. News(f)' = News(f) + One(ctx'[t].new = f) - One(ctx[t].new = f) /\ News(f) \in Nat
    BY <1>2, <1>3, <1>5, <1>7 DEF One, B
  <1> QED
    BY <1>8, <1>9

\* A migration holds one reference of its source and one of its destination.
LEMMA MigCount ==
  ASSUME NEW f
  PROVE  Migs(f) = One(mig.src = f) + One(mig.dst = f)
  <1>1. /\ "src" \in MigHolds(f) <=> mig.src = f
        /\ "dst" \in MigHolds(f) <=> mig.dst = f
        /\ MigHolds(f) \subseteq {"src", "dst"}
    BY DEF MigHolds
  <1>2. Cardinality({"src", "dst"}) = 2 /\ Cardinality({"src"}) = 1 /\ Cardinality({"dst"}) = 1
    <2>1. Cardinality({"src"}) = 1 /\ Cardinality({"dst"}) = 1 /\ IsFiniteSet({"src"})
      BY FS_Singleton
    <2>2. "dst" \notin {"src"}
      OBVIOUS
    <2>3. Cardinality({"src"} \cup {"dst"}) = Cardinality({"src"}) + 1
      BY <2>1, <2>2, FS_AddElement
    <2>4. {"src", "dst"} = {"src"} \cup {"dst"}
      OBVIOUS
    <2> QED
      BY <2>1, <2>3, <2>4
  <1>3. Cardinality({}) = 0
    BY FS_EmptySet
  <1>4. CASE mig.src = f /\ mig.dst = f
    <2>1. MigHolds(f) = {"src", "dst"}
      BY <1>1, <1>4
    <2> QED
      BY <1>2, <1>4, <2>1 DEF Migs, One
  <1>5. CASE mig.src = f /\ mig.dst # f
    <2>1. MigHolds(f) = {"src"}
      BY <1>1, <1>5
    <2> QED
      BY <1>2, <1>5, <2>1 DEF Migs, One
  <1>6. CASE mig.src # f /\ mig.dst = f
    <2>1. MigHolds(f) = {"dst"}
      BY <1>1, <1>6
    <2> QED
      BY <1>2, <1>6, <2>1 DEF Migs, One
  <1>7. CASE mig.src # f /\ mig.dst # f
    <2>1. MigHolds(f) = {}
      BY <1>1, <1>7
    <2> QED
      BY <1>3, <1>7, <2>1 DEF Migs, One
  <1> QED
    BY <1>4, <1>5, <1>6, <1>7

----------------------------------------------------------------------------
(* What the books say of one folio *)

\* What the counts range over.
LEMMA HoldersType ==
  ASSUME TypeOK, NEW f \in Frame
  PROVE  /\ Olds(f) \in Nat /\ News(f) \in Nat /\ Migs(f) \in Nat /\ Sites(f) \in Nat
         /\ deferred[f] \in Nat /\ pin[f] \in Nat /\ Holders(f) \in Nat
         /\ Holders(f) >= Olds(f) /\ Holders(f) >= News(f) /\ Holders(f) >= Migs(f)
         /\ Holders(f) >= deferred[f] /\ Holders(f) >= pin[f]
         /\ Holders(f) = News(f) =>
              Olds(f) = 0 /\ Migs(f) = 0 /\ deferred[f] = 0 /\ pin[f] = 0
  <1> DEFINE b == Olds(f)  c == News(f)  d == Migs(f)  e == deferred[f]  g == pin[f]
  <1>1. OldIn(f) \in SUBSET Context /\ NewIn(f) \in SUBSET Context
    BY DEF OldIn, NewIn
  <1>2. b \in Nat /\ c \in Nat
    BY <1>1, DataAssumption, FS_Subset, FS_CardinalityType DEF Olds, News
  <1>3. d \in Nat
    BY MigCount DEF One
  <1>4. e \in Nat /\ g \in Nat
    BY DEF TypeOK
  <1>5. Holders(f) = b + c + d + e + g
    BY DEF Holders
  <1> HIDE DEF b, c, d, e, g
  <1>6. /\ Holders(f) \in Nat
        /\ Holders(f) >= b /\ Holders(f) >= c /\ Holders(f) >= d /\ Holders(f) >= e
        /\ Holders(f) >= g
        /\ Holders(f) = c => b = 0 /\ d = 0 /\ e = 0 /\ g = 0
    BY <1>2, <1>3, <1>4, <1>5
  <1> QED
    BY <1>2, <1>3, <1>4, <1>6, SitesFinite DEF b, c, d, e, g

\* The books of one folio, as equations.
LEMMA Books ==
  ASSUME TypeOK, RefBook, MapBook, NEW f \in Frame
  PROVE  /\ ref[f] = Sites(f) + Holders(f) /\ mapc[f] = Sites(f)
         /\ ref[f] \in Nat /\ mapc[f] \in Nat
  <1> DEFINE a == Sites(f)  b == Olds(f)  c == News(f)  d == Migs(f)
             e == deferred[f]  g == pin[f]  h == Holders(f)
  <1>1. ref[f] = a + b + c + d + e + g
    BY DEF RefBook, Sites, Olds, News, Migs
  <1>2. h = b + c + d + e + g
    BY DEF Holders
  <1>3. /\ a \in Nat /\ b \in Nat /\ c \in Nat /\ d \in Nat /\ e \in Nat /\ g \in Nat
    BY HoldersType
  <1> HIDE DEF a, b, c, d, e, g, h
  <1>4. ref[f] = a + h /\ ref[f] \in Nat
    BY <1>1, <1>2, <1>3
  <1>5. mapc[f] = a
    BY DEF MapBook, Sites, a
  <1> QED
    BY <1>3, <1>4, <1>5 DEF a, h

\* Every holder counts.
LEMMA HolderCounts ==
  ASSUME NEW f
  PROVE  /\ \A m \in Mm, v \in Page : Maps(m, v, f) => Sites(f) > 0
         /\ \A t \in Context : ctx[t].old = f => Olds(f) > 0
         /\ \A t \in Context : ctx[t].new = f => News(f) > 0
         /\ mig.src = f => Migs(f) > 0
         /\ mig.dst = f => Migs(f) > 0
         /\ \A t, s \in Context : ctx[t].new = f /\ ctx[s].new = f /\ s # t => News(f) > 1
  <1>1. ASSUME NEW A, IsFiniteSet(A), NEW x \in A
        PROVE  Cardinality(A) \in Nat /\ Cardinality(A) > 0
    BY <1>1, FS_EmptySet, FS_CardinalityType
  <1>2. ASSUME NEW m \in Mm, NEW v \in Page, Maps(m, v, f)
        PROVE  Sites(f) > 0
    <2>1. <<m, v>> \in MapSites(f)
      BY <1>2 DEF MapSites
    <2> HIDE DEF MapSites
    <2> QED
      BY <1>1, <2>1, SitesFinite DEF Sites
  <1>3. IsFiniteSet(OldIn(f)) /\ IsFiniteSet(NewIn(f))
    <2>1. OldIn(f) \in SUBSET Context /\ NewIn(f) \in SUBSET Context
      BY DEF OldIn, NewIn
    <2> QED
      BY <2>1, DataAssumption, FS_Subset
  <1>4. ASSUME NEW t \in Context, ctx[t].old = f
        PROVE  Olds(f) > 0
    <2>1. t \in OldIn(f)
      BY <1>4 DEF OldIn
    <2> QED
      BY <1>1, <1>3, <2>1 DEF Olds
  <1>5. ASSUME NEW t \in Context, ctx[t].new = f
        PROVE  News(f) > 0
    <2>1. t \in NewIn(f)
      BY <1>5 DEF NewIn
    <2> QED
      BY <1>1, <1>3, <2>1 DEF News
  <1>6. ASSUME NEW t \in Context, NEW s \in Context, ctx[t].new = f, ctx[s].new = f, s # t
        PROVE  News(f) > 1
    <2>1. t \in NewIn(f) /\ s \in NewIn(f) \ {t}
      BY <1>6 DEF NewIn
    <2>2. IsFiniteSet(NewIn(f) \ {t}) /\ Cardinality(NewIn(f) \ {t}) = Cardinality(NewIn(f)) - 1
      BY <1>3, <2>1, FS_RemoveElement
    <2>3. Cardinality(NewIn(f) \ {t}) > 0 /\ Cardinality(NewIn(f)) \in Nat
      BY <1>1, <1>3, <2>1, <2>2
    <2> QED
      BY <2>2, <2>3 DEF News
  <1>7. (mig.src = f => Migs(f) > 0) /\ (mig.dst = f => Migs(f) > 0)
    BY MigCount DEF One
  <1> QED
    BY <1>2, <1>4, <1>5, <1>6, <1>7

\* A folio that a fault has allocated and not yet mapped is the fault's alone.
LEMMA FreshAlone ==
  ASSUME BookInv, NEW f \in Frame, NEW t \in Context, ctx[t].new = f
  PROVE  /\ ref[f] = 1 /\ Sites(f) = 0 /\ Holders(f) = 1 /\ mapc[f] = 0
         /\ \A s \in Context : ctx[s].old # f /\ (ctx[s].new = f => s = t)
         /\ \A m \in Mm, v \in Page : ~Maps(m, v, f)
         /\ mig.src # f /\ mig.dst # f
         /\ deferred[f] = 0 /\ pin[f] = 0
  <1>1. ref[f] = 1
    BY DEF BookInv, Fresh
  <1>2. ref[f] = Sites(f) + Holders(f) /\ mapc[f] = Sites(f)
    BY Books DEF BookInv, IInv
  <1>3. /\ Olds(f) \in Nat /\ News(f) \in Nat /\ Migs(f) \in Nat /\ Sites(f) \in Nat
        /\ Holders(f) \in Nat /\ Holders(f) >= News(f)
        /\ Holders(f) = News(f) =>
             Olds(f) = 0 /\ Migs(f) = 0 /\ deferred[f] = 0 /\ pin[f] = 0
    BY HoldersType DEF BookInv, IInv
  <1>4. News(f) > 0
    BY HolderCounts
  <1>5. Sites(f) = 0 /\ Holders(f) = 1 /\ News(f) = 1
    BY <1>1, <1>2, <1>3, <1>4
  <1>6. Olds(f) = 0 /\ Migs(f) = 0 /\ deferred[f] = 0 /\ pin[f] = 0
    BY <1>3, <1>5
  <1>7. /\ \A s \in Context : ctx[s].old # f
        /\ \A m \in Mm, v \in Page : ~Maps(m, v, f)
        /\ mig.src # f /\ mig.dst # f
    BY <1>5, <1>6, HolderCounts
  <1>8. \A s \in Context : ctx[s].new = f => s = t
    BY <1>5, HolderCounts
  <1> QED
    BY <1>1, <1>2, <1>5, <1>6, <1>7, <1>8

\* Nobody holds a free folio.
LEMMA FreeAlone ==
  ASSUME BookInv, NEW f \in Frame, Free(f)
  PROVE  /\ ref[f] = 0 /\ Sites(f) = 0 /\ Holders(f) = 0 /\ mapc[f] = 0
         /\ \A t \in Context : ctx[t].new # f /\ ctx[t].old # f
         /\ \A m \in Mm, v \in Page : ~Maps(m, v, f)
         /\ mig.src # f /\ mig.dst # f
         /\ deferred[f] = 0 /\ pin[f] = 0
  <1>1. ref[f] = 0
    BY DEF Free
  <1>2. ref[f] = Sites(f) + Holders(f) /\ mapc[f] = Sites(f)
    BY Books DEF BookInv, IInv
  <1>3. /\ Olds(f) \in Nat /\ News(f) \in Nat /\ Migs(f) \in Nat /\ Sites(f) \in Nat
        /\ Holders(f) \in Nat /\ deferred[f] \in Nat /\ pin[f] \in Nat
        /\ Holders(f) >= Olds(f) /\ Holders(f) >= News(f) /\ Holders(f) >= Migs(f)
        /\ Holders(f) >= deferred[f] /\ Holders(f) >= pin[f]
    BY HoldersType DEF BookInv, IInv
  <1>4. Sites(f) = 0 /\ Holders(f) = 0
    BY <1>1, <1>2, <1>3
  <1>5. Olds(f) = 0 /\ News(f) = 0 /\ Migs(f) = 0 /\ deferred[f] = 0 /\ pin[f] = 0
    BY <1>3, <1>4
  <1>6. /\ \A t \in Context : ctx[t].new # f /\ ctx[t].old # f
        /\ \A m \in Mm, v \in Page : ~Maps(m, v, f)
        /\ mig.src # f /\ mig.dst # f
    BY <1>4, <1>5, HolderCounts
  <1> QED
    BY <1>1, <1>2, <1>4, <1>5, <1>6

----------------------------------------------------------------------------
(* How one step changes the holders *)

\* A step of one fault context changes the holders by what the context lets
\* go and takes, and by late puts.
LEMMA HoldersCtx ==
  ASSUME IInv, NEW f \in Frame, NEW t \in Context,
         \A s \in Context : s # t => ctx'[s] = ctx[s],
         mig' = mig, pin' = pin, deferred'[f] \in Nat
  PROVE  Holders(f)' = Holders(f) + One(ctx'[t].old = f) + One(ctx'[t].new = f)
                       - One(ctx[t].old = f) - One(ctx[t].new = f)
                       + (deferred'[f] - deferred[f])
  <1>1. /\ Olds(f)' = Olds(f) + One(ctx'[t].old = f) - One(ctx[t].old = f)
        /\ News(f)' = News(f) + One(ctx'[t].new = f) - One(ctx[t].new = f)
    <2>1. TypeOK
      BY DEF IInv
    <2> QED
      BY <2>1, CtxCount
  <1>2. Migs(f)' = Migs(f)
    BY DEF Migs, MigHolds
  <1>3. /\ Olds(f) \in Nat /\ News(f) \in Nat /\ Migs(f) \in Nat
        /\ deferred[f] \in Nat /\ pin[f] \in Nat
    BY HoldersType DEF IInv
  <1> DEFINE b == Olds(f)  c == News(f)  d == Migs(f)  e == deferred[f]  g == pin[f]
             e1 == deferred'[f]
             x1 == One(ctx'[t].old = f)  x2 == One(ctx'[t].new = f)
             y1 == One(ctx[t].old = f)  y2 == One(ctx[t].new = f)
  <1>4. /\ b \in Nat /\ c \in Nat /\ d \in Nat /\ e \in Nat /\ g \in Nat /\ e1 \in Nat
        /\ x1 \in Nat /\ x2 \in Nat /\ y1 \in Nat /\ y2 \in Nat
    BY <1>3 DEF One
  <1>5. Holders(f)' = (b + x1 - y1) + (c + x2 - y2) + d + e1 + g
    BY <1>1, <1>2 DEF Holders
  <1>6. Holders(f) = b + c + d + e + g
    BY DEF Holders
  <1> HIDE DEF b, c, d, e, g, e1, x1, x2, y1, y2
  <1>7. Holders(f)' = Holders(f) + x1 + x2 - y1 - y2 + (e1 - e)
    BY <1>4, <1>5, <1>6
  <1> QED
    BY <1>7 DEF e, e1, x1, x2, y1, y2

\* A step of the migration changes the holders by the folios it lets go and
\* takes.
LEMMA HoldersMig ==
  ASSUME IInv, NEW f \in Frame, ctx' = ctx, pin' = pin, deferred' = deferred
  PROVE  Holders(f)' = Holders(f) + One(mig'.src = f) + One(mig'.dst = f)
                       - One(mig.src = f) - One(mig.dst = f)
  <1>1. Olds(f)' = Olds(f) /\ News(f)' = News(f)
    BY DEF Olds, News, OldIn, NewIn
  <1>2. Migs(f)' = One(mig'.src = f) + One(mig'.dst = f)
    <2>1. Migs(f) = One(mig.src = f) + One(mig.dst = f)
      BY MigCount
    <2>2. (Migs(f) = One(mig.src = f) + One(mig.dst = f))'
      <3>1. [](Migs(f) = One(mig.src = f) + One(mig.dst = f))
        BY MigCount, PTL
      <3> QED
        BY <3>1, PTL
    <2> QED
      BY <2>2
  <1>3. Migs(f) = One(mig.src = f) + One(mig.dst = f)
    BY MigCount
  <1>4. /\ Olds(f) \in Nat /\ News(f) \in Nat /\ deferred[f] \in Nat /\ pin[f] \in Nat
    BY HoldersType DEF IInv
  <1> DEFINE b == Olds(f)  c == News(f)  e == deferred[f]  g == pin[f]
             x1 == One(mig'.src = f)  x2 == One(mig'.dst = f)
             y1 == One(mig.src = f)  y2 == One(mig.dst = f)
  <1>5. /\ b \in Nat /\ c \in Nat /\ e \in Nat /\ g \in Nat
        /\ x1 \in Nat /\ x2 \in Nat /\ y1 \in Nat /\ y2 \in Nat
    BY <1>4 DEF One
  <1>6. /\ Holders(f)' = b + c + (x1 + x2) + e + g
        /\ Holders(f) = b + c + (y1 + y2) + e + g
    BY <1>1, <1>2, <1>3 DEF Holders
  <1> HIDE DEF b, c, e, g, x1, x2, y1, y2
  <1>7. Holders(f)' = Holders(f) + x1 + x2 - y1 - y2
    BY <1>5, <1>6
  <1> QED
    BY <1>7 DEF x1, x2, y1, y2

\* A late put and an unpin each let one reference go.
LEMMA HoldersPut ==
  ASSUME IInv, NEW f \in Frame, ctx' = ctx, mig'.src = mig.src, mig'.dst = mig.dst,
         deferred'[f] \in Nat, pin'[f] \in Nat
  PROVE  Holders(f)' = Holders(f) + (deferred'[f] - deferred[f]) + (pin'[f] - pin[f])
  <1>1. Olds(f)' = Olds(f) /\ News(f)' = News(f)
    BY DEF Olds, News, OldIn, NewIn
  <1>2. Migs(f)' = Migs(f)
    <2>1. MigHolds(f)' = MigHolds(f)
      BY DEF MigHolds
    <2> QED
      BY <2>1 DEF Migs
  <1>4. /\ Olds(f) \in Nat /\ News(f) \in Nat /\ Migs(f) \in Nat
        /\ deferred[f] \in Nat /\ pin[f] \in Nat
    BY HoldersType DEF IInv
  <1> DEFINE b == Olds(f)  c == News(f)  d == Migs(f)  e == deferred[f]  g == pin[f]
             e1 == deferred'[f]  g1 == pin'[f]
  <1>5. /\ b \in Nat /\ c \in Nat /\ d \in Nat /\ e \in Nat /\ g \in Nat
        /\ e1 \in Nat /\ g1 \in Nat
    BY <1>4
  <1>6. /\ Holders(f)' = b + c + d + e1 + g1
        /\ Holders(f) = b + c + d + e + g
    BY <1>1, <1>2 DEF Holders
  <1> HIDE DEF b, c, d, e, g, e1, g1
  <1>7. Holders(f)' = Holders(f) + (e1 - e) + (g1 - g)
    BY <1>5, <1>6
  <1> QED
    BY <1>7 DEF e, g, e1, g1

----------------------------------------------------------------------------
(* From the changes of one step to the books *)

\* A step that maps f by a more PTEs and gives it b more other holders, and
\* changes its counters accordingly.
Shift(f, a, b) ==
  /\ a \in Int /\ b \in Int
  /\ Sites(f)' = Sites(f) + a /\ Holders(f)' = Holders(f) + b
  /\ mapc'[f] = mapc[f] + a /\ ref'[f] = ref[f] + (a + b)

Balanced(f) == \E a, b \in Int : Shift(f, a, b)

\* Every term of a reference count is a natural number.
LEMMA CountsNat ==
  ASSUME NEW f \in Frame
  PROVE  TypeOK => /\ Sites(f) \in Nat /\ Olds(f) \in Nat /\ News(f) \in Nat
                   /\ Migs(f) \in Nat /\ deferred[f] \in Nat /\ pin[f] \in Nat
  BY HoldersType

\* If the counters of every folio change by what changed around it, the books
\* stay exact.
LEMMA BalancedStep ==
  ASSUME BookInv, IInv', \A f \in Frame : Balanced(f)
  PROVE  RefBook' /\ MapBook'
  <1> SUFFICES ASSUME NEW f \in Frame
               PROVE  /\ ref'[f] = Sites(f)' + Olds(f)' + News(f)' + Migs(f)' + deferred'[f] + pin'[f]
                      /\ mapc'[f] = Sites(f)'
    BY DEF RefBook, MapBook, Sites, Olds, News, Migs
  <1>1. PICK a \in Int, b \in Int : Shift(f, a, b)
    BY DEF Balanced
  <1> DEFINE s == Sites(f)  h == Holders(f)  s1 == Sites(f)'  h1 == Holders(f)'
             r == ref[f]  r1 == ref'[f]  m == mapc[f]  m1 == mapc'[f]
  <1>2. s1 = s + a /\ h1 = h + b /\ m1 = m + a /\ r1 = r + (a + b)
    BY <1>1 DEF Shift
  <1>3. s \in Nat /\ h \in Nat /\ r = s + h /\ m = s
    BY Books, HoldersType DEF BookInv, IInv
  <1> HIDE DEF s, h, s1, h1, r, r1, m, m1
  <1>4. r1 = s1 + h1 /\ m1 = s1
    BY <1>2, <1>3
  <1>5. ref'[f] = Sites(f)' + Holders(f)' /\ mapc'[f] = Sites(f)'
    BY <1>4 DEF s1, h1, r1, m1
  <1>6. (TypeOK => /\ Sites(f) \in Nat /\ Olds(f) \in Nat /\ News(f) \in Nat
                   /\ Migs(f) \in Nat /\ deferred[f] \in Nat /\ pin[f] \in Nat)'
    <2>1. [](TypeOK => /\ Sites(f) \in Nat /\ Olds(f) \in Nat /\ News(f) \in Nat
                       /\ Migs(f) \in Nat /\ deferred[f] \in Nat /\ pin[f] \in Nat)
      BY CountsNat, PTL
    <2> QED
      BY <2>1, PTL
  <1>7. TypeOK'
    BY DEF IInv
  <1> DEFINE a1 == Sites(f)'  b1 == Olds(f)'  c1 == News(f)'  d1 == Migs(f)'
             e1 == deferred'[f]  g1 == pin'[f]
  <1>8. /\ a1 \in Nat /\ b1 \in Nat /\ c1 \in Nat /\ d1 \in Nat /\ e1 \in Nat /\ g1 \in Nat
    BY <1>6, <1>7
  <1>9. ref'[f] = a1 + (b1 + c1 + d1 + e1 + g1)
    BY <1>5 DEF Holders
  <1> HIDE DEF a1, b1, c1, d1, e1, g1
  <1>10. ref'[f] = a1 + b1 + c1 + d1 + e1 + g1
    BY <1>8, <1>9
  <1> QED
    BY <1>5, <1>10 DEF a1, b1, c1, d1, e1, g1

----------------------------------------------------------------------------
(* How one step changes the page tables *)

\* Outside the pages S of m, an entry keeps its kind and its folio.
OnlyAt(m, S) ==
  \A n \in Mm, w \in Page :
    ~(n = m /\ w \in S) => pte'[n][w].k = pte[n][w].k /\ pte'[n][w].f = pte[n][w].f
\* Pages S of m, which were not mapped, map h.
Gains(m, S, h) ==
  /\ OnlyAt(m, S)
  /\ \A u \in S : pte[m][u].k # "map" /\ pte'[m][u].k = "map" /\ pte'[m][u].f = h
\* Pages S of m no longer map h.
Loses(m, S, h) ==
  OnlyAt(m, S) /\ \A u \in S : Maps(m, u, h) /\ pte'[m][u].k # "map"
\* Pages S of m map k instead of h.
Swaps(m, S, h, k) ==
  /\ OnlyAt(m, S)
  /\ \A u \in S : Maps(m, u, h) /\ pte'[m][u].k = "map" /\ pte'[m][u].f = k
\* Every PTE maps what it did.
KeepsMaps ==
  \A n \in Mm, w \in Page :
    /\ pte'[n][w].k = "map" <=> pte[n][w].k = "map"
    /\ pte[n][w].k = "map" => pte'[n][w].f = pte[n][w].f

\* Install, entry by entry.
LEMMA InstallAt ==
  ASSUME TypeOK, NEW m \in Mm, NEW new, pte' = Install(m, new)
  PROVE  /\ \A n \in Mm, w \in Page : n # m => pte'[n][w] = pte[n][w]
         /\ \A w \in Page : pte'[m][w] = IF w \in DOMAIN new THEN new[w] ELSE pte[m][w]
  <1>1. pte' = [pte EXCEPT ![m] = [v \in Page |-> IF v \in DOMAIN new THEN new[v] ELSE pte[m][v]]]
    BY Zenon DEF Install, TypeOK
  <1> QED
    BY <1>1 DEF TypeOK

\* S more PTEs map h, and no other folio.
LEMMA GainsCount ==
  ASSUME NEW m \in Mm, NEW S \in SUBSET Page, NEW h, NEW g, Gains(m, S, h)
  PROVE  Sites(g)' = Sites(g) + (IF g = h THEN Cardinality(S) ELSE 0)
  <1>1. CASE g = h
    <2>1. \A u \in S : ~Maps(m, u, g) /\ Maps(m, u, g)'
      BY <1>1 DEF Gains, Maps
    <2>2. \A n \in Mm, w \in Page : ~(n = m /\ w \in S) => (Maps(n, w, g)' <=> Maps(n, w, g))
      BY DEF Gains, OnlyAt, Maps
    <2> QED
      BY <1>1, <2>1, <2>2, SitesGain
  <1>2. CASE g # h
    <2>1. \A n \in Mm, w \in Page : Maps(n, w, g)' <=> Maps(n, w, g)
      BY <1>2 DEF Gains, OnlyAt, Maps
    <2> QED
      BY <1>2, <2>1, SitesSame, SitesFinite
  <1> QED
    BY <1>1, <1>2

\* S fewer PTEs map h, and no other folio.
LEMMA LosesCount ==
  ASSUME NEW m \in Mm, NEW S \in SUBSET Page, NEW h, NEW g, Loses(m, S, h)
  PROVE  Sites(g)' = Sites(g) - (IF g = h THEN Cardinality(S) ELSE 0)
  <1>1. CASE g = h
    <2>1. \A u \in S : Maps(m, u, g) /\ ~Maps(m, u, g)'
      BY <1>1 DEF Loses, Maps
    <2>2. \A n \in Mm, w \in Page : ~(n = m /\ w \in S) => (Maps(n, w, g)' <=> Maps(n, w, g))
      BY DEF Loses, OnlyAt, Maps
    <2> QED
      BY <1>1, <2>1, <2>2, SitesLose
  <1>2. CASE g # h
    <2>1. \A n \in Mm, w \in Page : Maps(n, w, g)' <=> Maps(n, w, g)
      BY <1>2 DEF Loses, OnlyAt, Maps
    <2> QED
      BY <1>2, <2>1, SitesSame, SitesFinite
  <1> QED
    BY <1>1, <1>2

\* S PTEs move from h to k: a COW commit.
LEMMA SwapsCount ==
  ASSUME NEW m \in Mm, NEW S \in SUBSET Page, NEW h, NEW k, h # k, NEW g,
         Swaps(m, S, h, k)
  PROVE  Sites(g)' = Sites(g) + (IF g = k THEN Cardinality(S) ELSE 0)
                              - (IF g = h THEN Cardinality(S) ELSE 0)
  <1>0. Sites(g) \in Nat /\ Cardinality(S) \in Nat
    BY SitesFinite, PagesFinite
  <1>1. CASE g = k
    <2>1. \A u \in S : ~Maps(m, u, g) /\ Maps(m, u, g)'
      BY <1>1 DEF Swaps, Maps
    <2>2. \A n \in Mm, w \in Page : ~(n = m /\ w \in S) => (Maps(n, w, g)' <=> Maps(n, w, g))
      BY DEF Swaps, OnlyAt, Maps
    <2>3. Sites(g)' = Sites(g) + Cardinality(S)
      BY <2>1, <2>2, SitesGain
    <2> QED
      BY <1>0, <1>1, <2>3
  <1>2. CASE g = h
    <2>1. \A u \in S : Maps(m, u, g) /\ ~Maps(m, u, g)'
      BY <1>2 DEF Swaps, Maps
    <2>2. \A n \in Mm, w \in Page : ~(n = m /\ w \in S) => (Maps(n, w, g)' <=> Maps(n, w, g))
      BY DEF Swaps, OnlyAt, Maps
    <2>3. Sites(g)' = Sites(g) - Cardinality(S)
      BY <2>1, <2>2, SitesLose
    <2> QED
      BY <1>0, <1>2, <2>3
  <1>3. CASE g # k /\ g # h
    <2>1. \A n \in Mm, w \in Page : Maps(n, w, g)' <=> Maps(n, w, g)
      BY <1>3 DEF Swaps, OnlyAt, Maps
    <2>2. Sites(g)' = Sites(g)
      BY <2>1, SitesSame
    <2> QED
      BY <1>0, <1>3, <2>2
  <1> QED
    BY <1>1, <1>2, <1>3

\* No PTE starts or ceases to map any folio.
LEMMA KeepsCount ==
  ASSUME KeepsMaps, NEW g
  PROVE  Sites(g)' = Sites(g)
  <1>1. \A n \in Mm, w \in Page : Maps(n, w, g)' <=> Maps(n, w, g)
    BY DEF KeepsMaps, Maps
  <1> QED
    BY <1>1, SitesSame

\* A step that changes no count.
LEMMA QuietStep ==
  ASSUME BookInv, IInv', UNCHANGED <<ref, mapc, deferred, pin, ctx>>,
         mig'.src = mig.src, mig'.dst = mig.dst, KeepsMaps
  PROVE  RefBook' /\ MapBook' /\ Fresh'
  <1>1. ASSUME NEW f \in Frame
        PROVE  Balanced(f)
    <2>1. Sites(f)' = Sites(f) /\ Sites(f) \in Nat
      BY KeepsCount, SitesFinite
    <2>2. deferred[f] \in Nat /\ pin[f] \in Nat /\ Holders(f) \in Nat
      BY HoldersType DEF BookInv, IInv
    <2>3. Holders(f)' = Holders(f)
      <3>1. Holders(f)' = Holders(f) + (deferred'[f] - deferred[f]) + (pin'[f] - pin[f])
        BY <2>2, HoldersPut DEF BookInv
      <3> QED
        BY <2>2, <3>1
    <2>4. ref[f] \in Nat /\ mapc[f] \in Nat
      BY Books DEF BookInv, IInv
    <2>5. Shift(f, 0, 0)
      BY <2>1, <2>2, <2>3, <2>4 DEF Shift
    <2> QED
      BY <2>5 DEF Balanced
  <1>2. Fresh'
    BY DEF BookInv, Fresh
  <1> QED
    BY <1>1, <1>2, BalancedStep

----------------------------------------------------------------------------
(* Every step of a fault keeps the books *)

\* What is empty stays empty if nothing fills a child that is being forked.
LEMMA ForkBookKept ==
  ASSUME TypeOK, ForkBook, fork' = fork, stage' = stage,
         \A m \in Mm, v \in Page :
           IsNone(m, v) /\ stage[m] \in {"none", "embryo"} => pte'[m][v].k = "none"
  PROVE  ForkBook'
  <1>1. fork.c \in Mm
    BY DEF TypeOK
  <1> QED
    BY <1>1 DEF ForkBook, Forking, IsNone

\* The parts of the invariant.
LEMMA Known ==
  ASSUME BookInv
  PROVE  /\ IInv /\ TypeOK /\ CtxBook /\ MigBook /\ ForkBook /\ RefBook /\ MapBook /\ Fresh
         /\ \A f \in Frame : /\ ref[f] = Sites(f) + Holders(f) /\ mapc[f] = Sites(f)
                             /\ ref[f] \in Nat /\ mapc[f] \in Nat
                             /\ Sites(f) \in Nat /\ Holders(f) \in Nat
                             /\ deferred[f] \in Nat /\ pin[f] \in Nat /\ f # NoFrame
  BY Books, HoldersType, DataAssumption DEF BookInv, IInv

\* do_anonymous_page takes the allocation reference of a folio nobody knows.
LEMMA AnonAllocBooks ==
  ASSUME BookInv, IInv', NEW t \in Context, NEW m \in Mm, NEW v \in Page, NEW f \in Frame,
         AnonAlloc(t, m, v, f)
  PROVE  BookInv'
  <1>0. TypeOK /\ CtxBook /\ MigBook /\ ForkBook /\ Fresh
    BY DEF BookInv, IInv
  <1>1. /\ ctx[t] = Idle /\ Free(f) /\ stage[m] = "live"
        /\ ref' = [ref EXCEPT ![f] = 1]
        /\ UNCHANGED <<pte, mapc, deferred, pin, fork, mig, stage>>
    BY DEF AnonAlloc
  <1>2. /\ \A s \in Context : s # t => ctx'[s] = ctx[s]
        /\ ctx'[t].st = "anon" /\ ctx'[t].m = m /\ ctx'[t].old = NoFrame /\ ctx'[t].new = f
    BY <1>0 DEF AnonAlloc, TypeOK, Idle
  <1>3. ASSUME NEW g \in Frame
        PROVE  Balanced(g)
    <2>1. Sites(g)' = Sites(g)
      BY <1>1, KeepsCount DEF KeepsMaps
    <2>2. /\ Sites(g) \in Nat /\ Holders(g) \in Nat /\ deferred[g] \in Nat /\ g # NoFrame
          /\ ref[g] \in Nat /\ mapc[g] \in Nat
      BY Known
    <2>3. Holders(g)' = Holders(g) + One(f = g)
      <3>1. Holders(g)' = Holders(g) + One(ctx'[t].old = g) + One(ctx'[t].new = g)
                          - One(ctx[t].old = g) - One(ctx[t].new = g)
                          + (deferred'[g] - deferred[g])
        BY <1>1, <1>2, <2>2, HoldersCtx DEF BookInv
      <3> QED
        BY <1>1, <1>2, <2>2, <3>1 DEF One, Idle
    <2>4. ref'[g] = ref[g] + One(f = g)
      BY <1>0, <1>1 DEF One, TypeOK, Free
    <2>5. One(f = g) \in Int
      BY DEF One
    <2>6. Shift(g, 0, One(f = g))
      BY <1>1, <2>1, <2>2, <2>3, <2>4, <2>5 DEF Shift
    <2> QED
      BY <2>5, <2>6 DEF Balanced
  <1>4. RefBook' /\ MapBook'
    BY <1>3, BalancedStep
  <1>5. Fresh'
    <2> SUFFICES ASSUME NEW s \in Context, ctx'[s].new \in Frame
                 PROVE  ref'[ctx'[s].new] = 1
      BY DEF Fresh
    <2>1. CASE s = t
      BY <1>0, <1>1, <1>2, <2>1 DEF TypeOK
    <2>2. CASE s # t
      <3>1. ctx[s].new # f
        BY <1>1, FreeAlone
      <3> QED
        BY <1>0, <1>1, <1>2, <2>2, <3>1 DEF Fresh, TypeOK
    <2> QED
      BY <2>1, <2>2
  <1>6. CtxBook'
    BY <1>0, <1>1, <1>2 DEF CtxBook
  <1>7. MigBook' /\ ForkBook'
    BY <1>0, <1>1, ForkBookKept DEF MigBook, IsNone
  <1> QED
    BY <1>4, <1>5, <1>6, <1>7 DEF BookInv

\* The allocation reference becomes that of the first PTE; the others are
\* added: a fresh folio ends with one per PTE of the cluster.
LEMMA AnonMapBooks ==
  ASSUME BookInv, IInv', NEW t \in Context, AnonMap(t)
  PROVE  BookInv'
  <1> DEFINE m == ctx[t].m  v == ctx[t].v  f == ctx[t].new
  <1>0. TypeOK /\ CtxBook /\ MigBook /\ ForkBook /\ Fresh /\ m \in Mm /\ v \in Page /\ f \in Frame
    BY DEF BookInv, IInv, TypeOK, CtxType, CtxHolds, AnonMap
  <1>1. PICK S \in AnonTargets(m, v) :
          /\ pte' = Install(m, [u \in S |-> MapTo(f, SubOf(u), "rw")])
          /\ ref' = [ref EXCEPT ![f] = @ + (Cardinality(S) - 1)]
          /\ mapc' = [mapc EXCEPT ![f] = Cardinality(S)]
    BY DEF AnonMap
  <1>2. /\ ctx[t].st = "anon" /\ ctx' = [ctx EXCEPT ![t] = Idle] /\ IsNone(m, v)
        /\ UNCHANGED <<deferred, pin, fork, mig, stage>>
    BY DEF AnonMap
  <1>3. S \in SUBSET Page /\ Cardinality(S) \in Nat /\ \A u \in S : IsNone(m, u)
    <2>1. S \in SUBSET Page /\ \A u \in S : IsNone(m, u)
      BY <1>0, <1>2 DEF AnonTargets, Cluster
    <2> QED
      BY <2>1, PagesFinite
  <1>4. /\ \A s \in Context : s # t => ctx'[s] = ctx[s]
        /\ ctx'[t] = Idle /\ ctx'[t].old = NoFrame /\ ctx'[t].new = NoFrame
    BY <1>0, <1>2 DEF TypeOK, Idle
  <1>5. Gains(m, S, f)
    <2> DEFINE new == [u \in S |-> MapTo(f, SubOf(u), "rw")]
    <2>1. pte' = Install(m, new) /\ DOMAIN new = S
      BY <1>1
    <2>2. \A u \in S : new[u].k = "map" /\ new[u].f = f
      BY DEF MapTo
    <2> HIDE DEF new
    <2>3. /\ \A n \in Mm, w \in Page : n # m => pte'[n][w] = pte[n][w]
          /\ \A w \in Page : pte'[m][w] = IF w \in S THEN new[w] ELSE pte[m][w]
      BY <1>0, <2>1, InstallAt
    <2> QED
      BY <1>3, <2>2, <2>3 DEF Gains, OnlyAt, IsNone
  <1>6. /\ ref[f] = 1 /\ mapc[f] = 0
        /\ \A s \in Context : ctx[s].new = f => s = t
    BY <1>0, FreshAlone
  <1>7. ctx[t].old = NoFrame /\ stage[m] = "live"
    BY <1>2 DEF CtxBook, BookInv
  <1> HIDE DEF m, v, f
  <1>8. ASSUME NEW g \in Frame
        PROVE  Balanced(g)
    <2> DEFINE a == IF g = f THEN Cardinality(S) ELSE 0
    <2>1. Sites(g)' = Sites(g) + a
      BY <1>0, <1>3, <1>5, GainsCount
    <2>2. /\ Sites(g) \in Nat /\ Holders(g) \in Nat /\ deferred[g] \in Nat /\ g # NoFrame
          /\ ref[g] \in Nat /\ mapc[g] \in Nat
      BY Known
    <2>3. Holders(g)' = Holders(g) - One(g = f)
      <3>1. Holders(g)' = Holders(g) + One(ctx'[t].old = g) + One(ctx'[t].new = g)
                          - One(ctx[t].old = g) - One(ctx[t].new = g)
                          + (deferred'[g] - deferred[g])
        BY <1>2, <1>4, <2>2, HoldersCtx DEF BookInv
      <3> QED
        BY <1>2, <1>4, <1>7, <2>2, <3>1 DEF One, f
    <2>4. ref'[g] = ref[g] + (a - One(g = f)) /\ mapc'[g] = mapc[g] + a
      BY <1>0, <1>1, <1>3, <1>6, <2>2 DEF One, TypeOK
    <2>5. a \in Int /\ -One(g = f) \in Int /\ One(g = f) \in Int
      BY <1>3 DEF One
    <2> HIDE DEF a
    <2>6. Shift(g, a, -One(g = f))
      BY <2>1, <2>2, <2>3, <2>4, <2>5 DEF Shift
    <2> QED
      BY <2>5, <2>6 DEF Balanced
  <1>9. RefBook' /\ MapBook'
    BY <1>8, BalancedStep
  <1>10. Fresh'
    BY <1>0, <1>1, <1>4, <1>6, DataAssumption DEF Fresh, TypeOK
  <1>11. CtxBook' /\ MigBook'
    BY <1>0, <1>2, <1>4 DEF CtxBook, MigBook, Idle
  <1>12. ForkBook'
    <2>1. \A n \in Mm, w \in Page :
            IsNone(n, w) /\ stage[n] \in {"none", "embryo"} => pte'[n][w].k = "none"
      BY <1>5, <1>7 DEF Gains, OnlyAt, IsNone, m
    <2> QED
      BY <1>0, <1>2, <2>1, ForkBookKept
  <1> QED
    BY <1>9, <1>10, <1>11, <1>12 DEF BookInv

\* folio_put takes one reference of each folio given.
LEMMA PutRef ==
  ASSUME TypeOK, NEW F, Put(F), NEW g \in Frame
  PROVE  ref'[g] = ref[g] - One(g \in F)
  BY DEF Put, TypeOK, One

\* A fault that gives up puts what it holds.
LEMMA DropBooks ==
  ASSUME BookInv, IInv', NEW t \in Context, AnonStale(t) \/ WpOom(t) \/ WpStale(t)
  PROVE  BookInv'
  <1> DEFINE o == ctx[t].old  f == ctx[t].new
  <1>0. TypeOK /\ CtxBook /\ MigBook /\ ForkBook /\ Fresh /\ CtxHolds /\ ctx[t] \in CtxType
    BY DEF BookInv, IInv, TypeOK
  <1>1. PICK F : Put(F) /\ \/ ctx[t].st = "anon" /\ F = {f}
                           \/ ctx[t].st = "wp" /\ F = {o}
                           \/ ctx[t].st = "wpc" /\ F = {o, f}
    BY DEF AnonStale, WpOom, WpStale
  <1>2. /\ ctx' = [ctx EXCEPT ![t] = Idle]
        /\ UNCHANGED <<pte, mapc, deferred, pin, fork, mig, stage>>
    BY DEF AnonStale, WpOom, WpStale
  <1>4. /\ \A s \in Context : s # t => ctx'[s] = ctx[s]
        /\ ctx'[t] = Idle /\ ctx'[t].old = NoFrame /\ ctx'[t].new = NoFrame
    BY <1>0, <1>2 DEF TypeOK, Idle
  <1>5. ASSUME NEW g \in Frame
        PROVE  One(g \in F) = One(o = g) + One(f = g)
    <2>1. CASE ctx[t].st = "anon"
      BY <1>0, <1>1, <2>1, DataAssumption DEF CtxBook, CtxHolds, One
    <2>2. CASE ctx[t].st = "wp"
      BY <1>0, <1>1, <2>2, DataAssumption DEF CtxBook, CtxHolds, One
    <2>3. CASE ctx[t].st = "wpc"
      <3>1. o \in Frame /\ f \in Frame
        BY <1>0, <2>3 DEF CtxHolds
      <3>2. o # f
        BY <3>1, FreshAlone
      <3> QED
        BY <1>1, <2>3, <3>1, <3>2 DEF One
    <2> QED
      BY <1>1, <2>1, <2>2, <2>3
  <1>8. ASSUME NEW g \in Frame
        PROVE  Balanced(g)
    <2>1. Sites(g)' = Sites(g)
      BY <1>2, KeepsCount DEF KeepsMaps
    <2>2. /\ Sites(g) \in Nat /\ Holders(g) \in Nat /\ deferred[g] \in Nat /\ g # NoFrame
          /\ ref[g] \in Nat /\ mapc[g] \in Nat
      BY Known
    <2> DEFINE b == -One(g \in F)
    <2>3. Holders(g)' = Holders(g) + b
      <3>1. Holders(g)' = Holders(g) + One(ctx'[t].old = g) + One(ctx'[t].new = g)
                          - One(ctx[t].old = g) - One(ctx[t].new = g)
                          + (deferred'[g] - deferred[g])
        BY <1>2, <1>4, <2>2, HoldersCtx DEF BookInv
      <3>2. One(ctx'[t].old = g) = 0 /\ One(ctx'[t].new = g) = 0
        BY <1>4, <2>2 DEF One
      <3>3. deferred'[g] = deferred[g]
        BY <1>2
      <3>4. One(ctx[t].old = g) + One(ctx[t].new = g) = One(g \in F)
        BY <1>5
      <3>5. One(ctx[t].old = g) \in Int /\ One(ctx[t].new = g) \in Int
        BY DEF One
      <3> HIDE DEF o, f
      <3> QED
        BY <2>2, <3>1, <3>2, <3>3, <3>4, <3>5
    <2>4. ref'[g] = ref[g] - One(g \in F) /\ mapc'[g] = mapc[g]
      BY <1>0, <1>1, <1>2, PutRef
    <2>5. One(g \in F) \in Int
      BY DEF One
    <2>6. Shift(g, 0, b)
      BY <2>1, <2>2, <2>3, <2>4, <2>5 DEF Shift
    <2> QED
      BY <2>5, <2>6 DEF Balanced
  <1>9. RefBook' /\ MapBook'
    BY <1>8, BalancedStep
  <1>10. Fresh'
    <2> SUFFICES ASSUME NEW s \in Context, ctx'[s].new \in Frame
                 PROVE  ref'[ctx'[s].new] = 1
      BY DEF Fresh
    <2>1. s # t /\ ctx'[s] = ctx[s]
      BY <1>4, DataAssumption
    <2> DEFINE h == ctx[s].new
    <2>2. h # o /\ h # f /\ ref[h] = 1
      BY <2>1, FreshAlone
    <2>3. ref'[h] = ref[h] - One(h \in F) /\ h \notin F
      BY <1>0, <1>1, <2>1, <2>2, PutRef
    <2> QED
      BY <2>1, <2>2, <2>3 DEF One
  <1>11. CtxBook' /\ MigBook'
    BY <1>0, <1>2, <1>4 DEF CtxBook, MigBook, Idle
  <1>12. ForkBook'
    BY <1>0, <1>2, ForkBookKept DEF IsNone
  <1> QED
    BY <1>9, <1>10, <1>11, <1>12 DEF BookInv

\* do_wp_page holds the old folio while it works without the lock.
LEMMA WpFaultBooks ==
  ASSUME BookInv, IInv', NEW t \in Context, NEW m \in Mm, NEW v \in Page, WpFault(t, m, v)
  PROVE  BookInv'
  <1> DEFINE f == pte[m][v].f
  <1>0. TypeOK /\ CtxBook /\ MigBook /\ ForkBook /\ Fresh
    BY DEF BookInv, IInv
  <1>1. /\ ctx[t] = Idle /\ stage[m] = "live" /\ Maps(m, v, f)
        /\ ref' = [ref EXCEPT ![f] = @ + 1]
        /\ UNCHANGED <<pte, mapc, deferred, pin, fork, mig, stage>>
    BY DEF WpFault, WpFaulting, Maps
  <1>2. /\ \A s \in Context : s # t => ctx'[s] = ctx[s]
        /\ ctx'[t].st = "wp" /\ ctx'[t].m = m /\ ctx'[t].old = f /\ ctx'[t].new = NoFrame
    BY <1>0 DEF WpFault, TypeOK, Idle
  <1> HIDE DEF f
  <1>3. ASSUME NEW g \in Frame
        PROVE  Balanced(g)
    <2>1. Sites(g)' = Sites(g)
      BY <1>1, KeepsCount DEF KeepsMaps
    <2>2. /\ Sites(g) \in Nat /\ Holders(g) \in Nat /\ deferred[g] \in Nat /\ g # NoFrame
          /\ ref[g] \in Nat /\ mapc[g] \in Nat
      BY Known
    <2>3. Holders(g)' = Holders(g) + One(f = g)
      <3>1. Holders(g)' = Holders(g) + One(ctx'[t].old = g) + One(ctx'[t].new = g)
                          - One(ctx[t].old = g) - One(ctx[t].new = g)
                          + (deferred'[g] - deferred[g])
        BY <1>1, <1>2, <2>2, HoldersCtx DEF BookInv
      <3> QED
        BY <1>1, <1>2, <2>2, <3>1 DEF One, Idle
    <2>4. ref'[g] = ref[g] + One(f = g)
      BY <1>0, <1>1, <2>2 DEF One, TypeOK
    <2>5. One(f = g) \in Int
      BY DEF One
    <2>6. Shift(g, 0, One(f = g))
      BY <1>1, <2>1, <2>2, <2>3, <2>4, <2>5 DEF Shift
    <2> QED
      BY <2>5, <2>6 DEF Balanced
  <1>4. RefBook' /\ MapBook'
    BY <1>3, BalancedStep
  <1>5. Fresh'
    <2> SUFFICES ASSUME NEW s \in Context, ctx'[s].new \in Frame
                 PROVE  ref'[ctx'[s].new] = 1
      BY DEF Fresh
    <2>1. s # t /\ ctx'[s] = ctx[s]
      BY <1>2, DataAssumption
    <2>2. ctx[s].new # f
      BY <1>1, <2>1, FreshAlone
    <2> QED
      BY <1>0, <1>1, <2>1, <2>2 DEF Fresh, TypeOK
  <1>6. CtxBook'
    BY <1>0, <1>1, <1>2 DEF CtxBook
  <1>7. MigBook' /\ ForkBook'
    BY <1>0, <1>1, ForkBookKept DEF MigBook, IsNone
  <1> QED
    BY <1>4, <1>5, <1>6, <1>7 DEF BookInv

\* wp_page_copy allocates the copy.
LEMMA WpCopyBooks ==
  ASSUME BookInv, IInv', NEW t \in Context, NEW f \in Frame, WpCopy(t, f)
  PROVE  BookInv'
  <1>0. TypeOK /\ CtxBook /\ MigBook /\ ForkBook /\ Fresh /\ ctx[t] \in CtxType
    BY DEF BookInv, IInv, TypeOK
  <1>1. /\ ctx[t].st = "wp" /\ Free(f) /\ ref' = [ref EXCEPT ![f] = 1]
        /\ UNCHANGED <<pte, mapc, deferred, pin, fork, mig, stage>>
    BY DEF WpCopy
  <1>2. /\ \A s \in Context : s # t => ctx'[s] = ctx[s]
        /\ ctx'[t].st = "wpc" /\ ctx'[t].m = ctx[t].m /\ ctx'[t].old = ctx[t].old
        /\ ctx'[t].new = f
    BY <1>0 DEF WpCopy, TypeOK, CtxType
  <1>8. ctx[t].new = NoFrame
    BY <1>0, <1>1 DEF CtxBook
  <1>3. ASSUME NEW g \in Frame
        PROVE  Balanced(g)
    <2>1. Sites(g)' = Sites(g)
      BY <1>1, KeepsCount DEF KeepsMaps
    <2>2. /\ Sites(g) \in Nat /\ Holders(g) \in Nat /\ deferred[g] \in Nat /\ g # NoFrame
          /\ ref[g] \in Nat /\ mapc[g] \in Nat
      BY Known
    <2>3. Holders(g)' = Holders(g) + One(f = g)
      <3>1. Holders(g)' = Holders(g) + One(ctx'[t].old = g) + One(ctx'[t].new = g)
                          - One(ctx[t].old = g) - One(ctx[t].new = g)
                          + (deferred'[g] - deferred[g])
        BY <1>1, <1>2, <2>2, HoldersCtx DEF BookInv
      <3> QED
        BY <1>1, <1>2, <1>8, <2>2, <3>1 DEF One
    <2>4. ref'[g] = ref[g] + One(f = g)
      BY <1>0, <1>1, <2>2 DEF One, TypeOK, Free
    <2>5. One(f = g) \in Int
      BY DEF One
    <2>6. Shift(g, 0, One(f = g))
      BY <1>1, <2>1, <2>2, <2>3, <2>4, <2>5 DEF Shift
    <2> QED
      BY <2>5, <2>6 DEF Balanced
  <1>4. RefBook' /\ MapBook'
    BY <1>3, BalancedStep
  <1>5. Fresh'
    <2> SUFFICES ASSUME NEW s \in Context, ctx'[s].new \in Frame
                 PROVE  ref'[ctx'[s].new] = 1
      BY DEF Fresh
    <2>1. CASE s = t
      BY <1>0, <1>1, <1>2, <2>1 DEF TypeOK
    <2>2. CASE s # t
      <3>1. ctx[s].new # f
        BY <1>1, FreeAlone
      <3> QED
        BY <1>0, <1>1, <1>2, <2>2, <3>1 DEF Fresh, TypeOK
    <2> QED
      BY <2>1, <2>2
  <1>6. CtxBook'
    BY <1>0, <1>1, <1>2 DEF CtxBook
  <1>7. MigBook' /\ ForkBook'
    BY <1>0, <1>1, ForkBookKept DEF MigBook, IsNone
  <1> QED
    BY <1>4, <1>5, <1>6, <1>7 DEF BookInv

\* The neighbours take their references and map counts along; the reference
\* of the faulting PTE and that of the fault become late puts.
LEMMA WpCommitBooks ==
  ASSUME BookInv, IInv', NEW t \in Context, WpCommit(t)
  PROVE  BookInv'
  <1> DEFINE m == ctx[t].m  v == ctx[t].v  o == ctx[t].old  f == ctx[t].new
             S == {u \in Cluster(v) : Maps(m, u, o)}
             n == Cardinality(S)
  <1>0. /\ TypeOK /\ CtxBook /\ MigBook /\ ForkBook /\ Fresh
        /\ m \in Mm /\ v \in Page /\ o \in Frame /\ f \in Frame
    BY DEF BookInv, IInv, TypeOK, CtxType, CtxHolds, WpCommit
  <1>1. /\ pte' = Install(m, [u \in S |-> MovedPte(f, pte[m][u])])
        /\ ref' = [ref EXCEPT ![f] = @ + (n - 1), ![o] = @ - (n - 1)]
        /\ mapc' = [mapc EXCEPT ![f] = n, ![o] = @ - n]
        /\ deferred' = [deferred EXCEPT ![o] = @ + 2]
    BY DEF WpCommit, MovedMaps
  <1>2. /\ ctx[t].st = "wpc" /\ ctx' = [ctx EXCEPT ![t] = Idle]
        /\ UNCHANGED <<pin, fork, mig, stage>>
    BY DEF WpCommit
  <1>3. S \in SUBSET Page /\ n \in Nat /\ \A u \in S : Maps(m, u, o)
    <2>1. S \in SUBSET Page /\ \A u \in S : Maps(m, u, o)
      BY DEF Cluster
    <2> QED
      BY <2>1, PagesFinite
  <1>4. /\ \A s \in Context : s # t => ctx'[s] = ctx[s]
        /\ ctx'[t] = Idle /\ ctx'[t].old = NoFrame /\ ctx'[t].new = NoFrame
    BY <1>0, <1>2 DEF TypeOK, Idle
  <1>6. /\ ref[f] = 1 /\ mapc[f] = 0 /\ o # f
        /\ \A s \in Context : ctx[s].new = f => s = t
    BY <1>0, FreshAlone
  <1> HIDE DEF S
  <1>5. Swaps(m, S, o, f)
    <2> DEFINE new == [u \in S |-> MovedPte(f, pte[m][u])]
    <2>1. pte' = Install(m, new) /\ DOMAIN new = S
      BY <1>1
    <2>2. \A u \in S : new[u].k = "map" /\ new[u].f = f
      BY DEF MapTo, MovedPte
    <2> HIDE DEF new
    <2>3. /\ \A k \in Mm, w \in Page : k # m => pte'[k][w] = pte[k][w]
          /\ \A w \in Page : pte'[m][w] = IF w \in S THEN new[w] ELSE pte[m][w]
      BY <1>0, <2>1, InstallAt
    <2> QED
      BY <1>3, <2>2, <2>3 DEF Swaps, OnlyAt
  <1> HIDE DEF m, v, o, f, n
  <1>8. ASSUME NEW g \in Frame
        PROVE  Balanced(g)
    <2> DEFINE a == (IF g = f THEN n ELSE 0) - (IF g = o THEN n ELSE 0)
               b == One(g = o) - One(g = f)
    <2>1. Sites(g)' = Sites(g) + (IF g = f THEN n ELSE 0) - (IF g = o THEN n ELSE 0)
      BY <1>0, <1>3, <1>5, <1>6, SwapsCount DEF n
    <2>2. /\ Sites(g) \in Nat /\ Holders(g) \in Nat /\ deferred[g] \in Nat /\ g # NoFrame
          /\ ref[g] \in Nat /\ mapc[g] \in Nat
      BY Known
    <2>3. Holders(g)' = Holders(g) + b
      <3>1. deferred'[g] = deferred[g] + 2 * One(g = o) /\ deferred'[g] \in Nat
        BY <1>0, <1>1, <2>2 DEF One, TypeOK
      <3>2. Holders(g)' = Holders(g) + One(ctx'[t].old = g) + One(ctx'[t].new = g)
                          - One(ctx[t].old = g) - One(ctx[t].new = g)
                          + (deferred'[g] - deferred[g])
        BY <1>2, <1>4, <3>1, HoldersCtx DEF BookInv
      <3>3. /\ One(ctx'[t].old = g) = 0 /\ One(ctx'[t].new = g) = 0
            /\ One(ctx[t].old = g) = One(g = o) /\ One(ctx[t].new = g) = One(g = f)
        BY <1>4, <2>2 DEF One, o, f
      <3> DEFINE x == One(g = o)  y == One(g = f)  h == Holders(g)  h1 == Holders(g)'
      <3>4. x \in Int /\ y \in Int /\ h \in Int /\ b = x - y
        BY <2>2 DEF One
      <3>5. deferred'[g] - deferred[g] = 2 * x
        BY <2>2, <3>1, <3>4
      <3>6. h1 = h + 0 + 0 - x - y + 2 * x
        BY <3>2, <3>3, <3>5
      <3> HIDE DEF x, y, h, h1, b
      <3>7. h1 = h + b
        BY <3>4, <3>6
      <3> QED
        BY <3>7 DEF h, h1
    <2>4. ref'[g] = ref[g] + (a + b) /\ mapc'[g] = mapc[g] + a
      <3>1. CASE g = f
        BY <1>0, <1>1, <1>3, <1>6, <2>2, <3>1 DEF One, TypeOK
      <3>2. CASE g = o
        BY <1>0, <1>1, <1>3, <1>6, <2>2, <3>2 DEF One, TypeOK
      <3>3. CASE g # f /\ g # o
        BY <1>0, <1>1, <1>3, <1>6, <2>2, <3>3 DEF One, TypeOK
      <3> QED
        BY <3>1, <3>2, <3>3
    <2>5. a \in Int /\ b \in Int /\ Sites(g)' = Sites(g) + a
      BY <1>3, <2>1, <2>2 DEF One
    <2> HIDE DEF a, b
    <2>6. Shift(g, a, b)
      BY <2>3, <2>4, <2>5 DEF Shift
    <2> QED
      BY <2>5, <2>6 DEF Balanced
  <1>9. RefBook' /\ MapBook'
    BY <1>8, BalancedStep
  <1>10. Fresh'
    <2> SUFFICES ASSUME NEW s \in Context, ctx'[s].new \in Frame
                 PROVE  ref'[ctx'[s].new] = 1
      BY DEF Fresh
    <2>1. s # t /\ ctx'[s] = ctx[s]
      BY <1>4, DataAssumption
    <2> DEFINE h == ctx[s].new
    <2>2. h # o /\ h # f /\ ref[h] = 1
      BY <2>1, FreshAlone DEF o, f
    <2> QED
      BY <1>0, <1>1, <2>1, <2>2 DEF TypeOK
  <1>11. CtxBook' /\ MigBook'
    BY <1>0, <1>2, <1>4 DEF CtxBook, MigBook, Idle
  <1>12. ForkBook'
    <2>1. \A k \in Mm, w \in Page :
            IsNone(k, w) /\ stage[k] \in {"none", "embryo"} => pte'[k][w].k = "none"
      BY <1>5 DEF Swaps, OnlyAt, IsNone, Maps
    <2> QED
      BY <1>0, <1>2, <2>1, ForkBookKept
  <1> QED
    BY <1>9, <1>10, <1>11, <1>12 DEF BookInv

\* A step that changes no count, none of the contexts and none of the empty
\* entries of an address space not yet running.
LEMMA QuietBooks ==
  ASSUME BookInv, IInv', UNCHANGED <<ref, mapc, deferred, pin, ctx, fork, mig, stage>>,
         KeepsMaps,
         \A m \in Mm, v \in Page :
           IsNone(m, v) /\ stage[m] \in {"none", "embryo"} => pte'[m][v].k = "none"
  PROVE  BookInv'
  <1>1. RefBook' /\ MapBook' /\ Fresh'
    BY QuietStep
  <1>2. TypeOK /\ CtxBook /\ MigBook /\ ForkBook
    BY DEF BookInv, IInv
  <1>3. CtxBook' /\ MigBook'
    BY <1>2 DEF CtxBook, MigBook
  <1>4. ForkBook'
    BY <1>2, ForkBookKept
  <1> QED
    BY <1>1, <1>3, <1>4 DEF BookInv

\* All fault actions.
LEMMA FaultBooks ==
  ASSUME BookInv, IInv', FaultNext
  PROVE  BookInv'
  <1>1. ASSUME NEW m \in Mm, NEW v \in Page, NEW x \in Val, Store(m, v, x)
        PROVE  BookInv'
    <2>1. UNCHANGED <<pte, ref, mapc, deferred, pin, ctx, fork, mig, stage>>
      BY <1>1 DEF Store
    <2> QED
      BY <2>1, QuietBooks DEF KeepsMaps, IsNone
  <1>2. ASSUME NEW t \in Context, NEW m \in Mm, NEW v \in Page, WpReuse(t, m, v)
        PROVE  BookInv'
    <2>1. /\ UNCHANGED <<ref, mapc, deferred, pin, ctx, fork, mig, stage>>
          /\ pte' = [pte EXCEPT ![m][v].p = "rw"] /\ pte[m][v].k = "map"
      BY <1>2 DEF WpReuse, WpFaulting
    <2>2. pte \in [Mm -> [Page -> Entry]] /\ pte[m][v] \in Entry
      BY DEF BookInv, IInv, TypeOK
    <2>3. pte'[m][v].k = pte[m][v].k /\ pte'[m][v].f = pte[m][v].f
      BY <2>1, <2>2 DEF Entry, Absent
    <2>4. \A n \in Mm, w \in Page : ~(n = m /\ w = v) => pte'[n][w] = pte[n][w]
      BY <2>1, <2>2
    <2>5. KeepsMaps
      BY <2>3, <2>4 DEF KeepsMaps
    <2> QED
      BY <2>1, <2>3, <2>4, <2>5, QuietBooks DEF IsNone
  <1> QED
    BY <1>1, <1>2, AnonAllocBooks, AnonMapBooks, DropBooks, WpFaultBooks, WpCopyBooks,
       WpCommitBooks DEF FaultNext

----------------------------------------------------------------------------
(* Every step of a fork keeps the books *)

\* A batch reaches no further than its number of entries.
LEMMA BatchSpan ==
  ASSUME TypeOK, NEW m \in Mm, NEW v \in Page, NEW end \in Nat
  PROVE  \A u \in PteBatch(m, v, end) : u < v + Cardinality(PteBatch(m, v, end))
  <1> DEFINE S == PteBatch(m, v, end)
  <1> SUFFICES ASSUME NEW u \in S
               PROVE  u < v + Cardinality(S)
    OBVIOUS
  <1>1. u \in Page /\ v <= u /\ u < end /\ u \in Nat /\ v \in Nat
    BY PageNat DEF PteBatch
  <1>2. v..u \subseteq S
    <2> SUFFICES ASSUME NEW w \in v..u
                 PROVE  w \in S
      OBVIOUS
    <2>1. w \in Page /\ v <= w /\ w < end /\ v..w \subseteq v..u
      BY <1>1, ClusterAssumption DEF Page
    <2> QED
      BY <2>1 DEF PteBatch
  <1>3. IsFiniteSet(S) /\ Cardinality(S) \in Nat
    BY PagesFinite DEF PteBatch
  <1>4. Cardinality(v..u) = u - v + 1
    BY <1>1, FS_Interval
  <1>5. Cardinality(v..u) <= Cardinality(S)
    BY <1>2, <1>3, FS_Subset
  <1> QED
    BY <1>1, <1>3, <1>4, <1>5

\* A shared batch adds a reference and a map count per PTE, to a child whose
\* page table is empty there.
LEMMA ForkShareBooks ==
  ASSUME BookInv, IInv', NEW v \in Page, ForkShare(v)
  PROVE  BookInv'
  <1> DEFINE p == fork.p  c == fork.c  f == pte[p][v].f
             S == PteBatch(p, v, VmaLast + 1)
             n == Cardinality(S)
             shared == [u \in S |-> SharedPte(v, u, pte[p][u])]
  <1>0. /\ TypeOK /\ PteOK /\ CtxBook /\ MigBook /\ ForkBook /\ Fresh
        /\ p \in Mm /\ c \in Mm /\ fork.pos = v /\ p # c
        /\ Maps(p, v, f) /\ f \in Frame
    <2>1. IInv /\ TypeOK /\ CtxBook /\ MigBook /\ ForkBook /\ Fresh
      BY Known
    <2>2. PteOK
      BY <2>1 DEF IInv, TypeOK, PteOK
    <2>3. fork.p \in Mm /\ fork.c \in Mm /\ fork.pos = v /\ fork.p # fork.c
      BY <2>1 DEF TypeOK, ForkShare, Copying, Forking
    <2>4. pte[fork.p][v].k = "map" /\ pte[fork.p][v] \in Entry
      BY <2>1, <2>3 DEF TypeOK, ForkShare
    <2> QED
      BY <2>1, <2>2, <2>3, <2>4, EntryFields DEF Maps
  <1>1. /\ pte' = [Install(p, shared) EXCEPT ![c] = Install(c, shared)[c]]
        /\ ref' = [ref EXCEPT ![f] = @ + n] /\ mapc' = [mapc EXCEPT ![f] = @ + n]
        /\ fork' = [fork EXCEPT !.pos = v + n]
        /\ UNCHANGED <<deferred, pin, ctx, mig, stage>>
    BY DEF ForkShare
  <1>2. /\ S \in SUBSET Page /\ n \in Nat /\ \A u \in S : Maps(p, u, f) /\ u >= v
        /\ \A u \in S : u < v + n
    <2>1. S \in SUBSET Page /\ n \in Nat /\ \A u \in S : Maps(p, u, f)
      BY <1>0, BatchType
    <2>2. \A u \in S : u < v + n
      BY <1>0, BatchSpan, ClusterAssumption
    <2>3. \A u \in S : u >= v
      BY PageNat DEF PteBatch
    <2> QED
      BY <2>1, <2>2, <2>3
  <1>3. \A u \in S : shared[u].k = "map" /\ shared[u].f = f
    <2> SUFFICES ASSUME NEW u \in S
                 PROVE  shared[u].k = "map" /\ shared[u].f = f
      OBVIOUS
    <2>1. pte[p][u] \in Entry /\ pte[p][u].k = "map" /\ pte[p][u].f = f
      BY <1>0, <1>2 DEF TypeOK, Maps
    <2>2. [pte[p][u] EXCEPT !.p = "ro"].k = "map" /\ [pte[p][u] EXCEPT !.p = "ro"].f = f
      BY <2>1 DEF Entry, Absent
    <2> QED
      BY <2>2 DEF SharedPte
  <1>4. DOMAIN shared = S
    OBVIOUS
  <1> HIDE DEF S, shared
  <1>5. /\ \A k \in Mm, w \in Page : k # p /\ k # c => pte'[k][w] = pte[k][w]
        /\ \A w \in Page : pte'[p][w] = IF w \in S THEN shared[w] ELSE pte[p][w]
        /\ \A w \in Page : pte'[c][w] = IF w \in S THEN shared[w] ELSE pte[c][w]
    <2>1. Install(p, shared) = [pte EXCEPT ![p] = [w \in Page |-> IF w \in S THEN shared[w] ELSE pte[p][w]]]
      BY <1>0, <1>4, Zenon DEF Install, TypeOK
    <2>2. Install(c, shared) = [pte EXCEPT ![c] = [w \in Page |-> IF w \in S THEN shared[w] ELSE pte[c][w]]]
      BY <1>0, <1>4, Zenon DEF Install, TypeOK
    <2> QED
      BY <1>0, <1>1, <2>1, <2>2 DEF TypeOK
  <1> HIDE DEF p, c, f, n
  <1>6. Gains(c, S, f)
    <2>1. \A u \in S : pte[c][u].k # "map"
      BY <1>0, <1>2 DEF ForkBook, Forking, IsNone, p, c
    <2>2. \A u \in S : pte'[c][u].k = "map" /\ pte'[c][u].f = f
      BY <1>2, <1>3, <1>5
    <2>3. OnlyAt(c, S)
      <3> SUFFICES ASSUME NEW k \in Mm, NEW w \in Page, ~(k = c /\ w \in S)
                   PROVE  pte'[k][w].k = pte[k][w].k /\ pte'[k][w].f = pte[k][w].f
        BY DEF OnlyAt
      <3>1. CASE k = p /\ w \in S
        BY <1>0, <1>2, <1>3, <1>5, <3>1 DEF Maps
      <3> QED
        BY <1>5, <3>1
    <2> QED
      BY <2>1, <2>2, <2>3 DEF Gains
  <1>7. ASSUME NEW g \in Frame
        PROVE  Balanced(g)
    <2> DEFINE a == IF g = f THEN n ELSE 0
    <2>1. Sites(g)' = Sites(g) + a
      BY <1>0, <1>2, <1>6, GainsCount DEF n
    <2>2. /\ Sites(g) \in Nat /\ Holders(g) \in Nat /\ deferred[g] \in Nat /\ pin[g] \in Nat
          /\ ref[g] \in Nat /\ mapc[g] \in Nat
      BY Known
    <2>3. Holders(g)' = Holders(g)
      <3>1. Holders(g)' = Holders(g) + (deferred'[g] - deferred[g]) + (pin'[g] - pin[g])
        BY <1>1, <2>2, HoldersPut DEF BookInv
      <3> QED
        BY <1>1, <2>2, <3>1
    <2>4. ref'[g] = ref[g] + a /\ mapc'[g] = mapc[g] + a /\ a \in Int
      BY <1>0, <1>1, <1>2, <2>2 DEF TypeOK
    <2> HIDE DEF a
    <2>5. Shift(g, a, 0)
      BY <2>1, <2>2, <2>3, <2>4 DEF Shift
    <2> QED
      BY <2>4, <2>5 DEF Balanced
  <1>8. RefBook' /\ MapBook'
    BY <1>7, BalancedStep
  <1>9. Fresh'
    <2> SUFFICES ASSUME NEW s \in Context, ctx'[s].new \in Frame
                 PROVE  ref'[ctx'[s].new] = 1
      BY DEF Fresh
    <2>1. ctx'[s] = ctx[s] /\ ref[ctx[s].new] = 1 /\ ctx[s].new # f
      BY <1>0, <1>1, FreshAlone
    <2> QED
      BY <1>0, <1>1, <2>1 DEF TypeOK
  <1>10. CtxBook' /\ MigBook'
    BY <1>0, <1>1 DEF CtxBook, MigBook
  <1>11. ForkBook'
    <2>1. fork'.p = p /\ fork'.c = c /\ fork'.pos = v + n
      BY <1>0, <1>1 DEF TypeOK, p, c
    <2>2. stage[c] = "embryo" /\ \A w \in Page : w >= v => IsNone(c, w)
      BY <1>0 DEF ForkBook, Forking, p, c
    <2>3. ASSUME NEW w \in Page, w >= v + n
          PROVE  pte'[c][w].k = "none"
      <3>1. w \notin S /\ w >= v
        BY <1>2, <2>3, PageNat
      <3> QED
        BY <1>5, <2>2, <3>1 DEF IsNone
    <2>4. ASSUME NEW k \in Mm, stage[k] = "none", NEW w \in Page
          PROVE  pte'[k][w].k = "none"
      <3>1. k # c /\ pte[k][w].k = "none"
        BY <1>0, <2>2, <2>4 DEF ForkBook, IsNone
      <3>2. pte'[k][w].k = pte[k][w].k
        BY <1>0, <1>6, <3>1 DEF Gains, OnlyAt
      <3> QED
        BY <3>1, <3>2
    <2> QED
      BY <1>1, <2>1, <2>2, <2>3, <2>4 DEF ForkBook, IsNone
  <1> QED
    BY <1>8, <1>9, <1>10, <1>11 DEF BookInv

\* The child's own copy is mapped once.
LEMMA ForkCopyBooks ==
  ASSUME BookInv, IInv', NEW v \in Page, NEW f \in Frame, ForkCopy(v, f)
  PROVE  BookInv'
  <1> DEFINE p == fork.p  c == fork.c
  <1>0. /\ TypeOK /\ CtxBook /\ MigBook /\ ForkBook /\ Fresh
        /\ p \in Mm /\ c \in Mm /\ fork.pos = v /\ p # c /\ Free(f)
    BY DEF BookInv, IInv, TypeOK, ForkCopy, Copying, Forking
  <1>1. /\ pte' = [pte EXCEPT ![c][v] = MapTo(f, pte[p][v].s, "rw")]
        /\ ref' = [ref EXCEPT ![f] = 1] /\ mapc' = [mapc EXCEPT ![f] = 1]
        /\ fork' = [fork EXCEPT !.pos = v + 1]
        /\ UNCHANGED <<deferred, pin, ctx, mig, stage>>
    BY DEF ForkCopy
  <1>2. {v} \in SUBSET Page /\ Cardinality({v}) = 1
    BY FS_Singleton
  <1>3. /\ \A k \in Mm, w \in Page : ~(k = c /\ w = v) => pte'[k][w] = pte[k][w]
        /\ pte'[c][v].k = "map" /\ pte'[c][v].f = f
    BY <1>0, <1>1 DEF TypeOK, MapTo
  <1>4. stage[c] = "embryo" /\ \A w \in Page : w >= v => IsNone(c, w)
    BY <1>0 DEF ForkBook, Forking
  <1>5. Gains(c, {v}, f)
    BY <1>3, <1>4, PageNat DEF Gains, OnlyAt, IsNone
  <1>6. ref[f] = 0 /\ mapc[f] = 0 /\ \A t \in Context : ctx[t].new # f
    BY <1>0, FreeAlone
  <1> HIDE DEF p, c
  <1>7. ASSUME NEW g \in Frame
        PROVE  Balanced(g)
    <2> DEFINE a == IF g = f THEN 1 ELSE 0
    <2>1. Sites(g)' = Sites(g) + a
      BY <1>0, <1>2, <1>5, GainsCount
    <2>2. /\ Sites(g) \in Nat /\ Holders(g) \in Nat /\ deferred[g] \in Nat /\ pin[g] \in Nat
          /\ ref[g] \in Nat /\ mapc[g] \in Nat
      BY Known
    <2>3. Holders(g)' = Holders(g)
      <3>1. Holders(g)' = Holders(g) + (deferred'[g] - deferred[g]) + (pin'[g] - pin[g])
        BY <1>1, <2>2, HoldersPut DEF BookInv
      <3> QED
        BY <1>1, <2>2, <3>1
    <2>4. ref'[g] = ref[g] + a /\ mapc'[g] = mapc[g] + a /\ a \in Int
      BY <1>0, <1>1, <1>6, <2>2 DEF TypeOK
    <2> HIDE DEF a
    <2>5. Shift(g, a, 0)
      BY <2>1, <2>2, <2>3, <2>4 DEF Shift
    <2> QED
      BY <2>4, <2>5 DEF Balanced
  <1>8. RefBook' /\ MapBook'
    BY <1>7, BalancedStep
  <1>9. Fresh'
    <2> SUFFICES ASSUME NEW s \in Context, ctx'[s].new \in Frame
                 PROVE  ref'[ctx'[s].new] = 1
      BY DEF Fresh
    <2>1. ctx'[s] = ctx[s] /\ ref[ctx[s].new] = 1 /\ ctx[s].new # f
      BY <1>1, <1>6, FreshAlone
    <2> QED
      BY <1>0, <1>1, <2>1 DEF TypeOK
  <1>10. CtxBook' /\ MigBook'
    BY <1>0, <1>1 DEF CtxBook, MigBook
  <1>11. ForkBook'
    <2>1. fork'.p = p /\ fork'.c = c /\ fork'.pos = v + 1
      BY <1>0, <1>1 DEF TypeOK, p, c
    <2>2. ASSUME NEW w \in Page, w >= v + 1
          PROVE  pte'[c][w].k = "none"
      <3>1. w # v /\ w >= v
        BY <2>2, PageNat
      <3> QED
        BY <1>0, <1>3, <1>4, <3>1 DEF IsNone
    <2>3. ASSUME NEW k \in Mm, stage[k] = "none", NEW w \in Page
          PROVE  pte'[k][w].k = "none"
      BY <1>0, <1>3, <1>4, <2>3 DEF ForkBook, IsNone
    <2> QED
      BY <1>1, <1>4, <2>1, <2>2, <2>3 DEF ForkBook, IsNone
  <1> QED
    BY <1>8, <1>9, <1>10, <1>11 DEF BookInv

\* A copied migration entry counts for nothing.
LEMMA ForkMigBooks ==
  ASSUME BookInv, IInv', NEW v \in Page, ForkMig(v)
  PROVE  BookInv'
  <1> DEFINE p == fork.p  c == fork.c  e == [pte[p][v] EXCEPT !.p = "ro"]
  <1>0. /\ TypeOK /\ CtxBook /\ MigBook /\ ForkBook
        /\ p \in Mm /\ c \in Mm /\ fork.pos = v /\ p # c
    BY DEF BookInv, IInv, TypeOK, ForkMig, Copying, Forking
  <1>1. /\ pte' = [pte EXCEPT ![p][v] = e, ![c][v] = e]
        /\ fork' = [fork EXCEPT !.pos = v + 1]
        /\ UNCHANGED <<ref, mapc, deferred, pin, ctx, mig, stage>>
    BY DEF ForkMig
  <1>2. pte[p][v].k = "mig" /\ e.k = "mig"
    <2>1. pte[p][v].k = "mig" /\ pte[p][v] \in Entry
      BY <1>0 DEF ForkMig, TypeOK
    <2> QED
      BY <2>1 DEF Entry, Absent
  <1>4. stage[c] = "embryo" /\ \A w \in Page : w >= v => IsNone(c, w)
    BY <1>0 DEF ForkBook, Forking
  <1> HIDE DEF p, c, e
  <1>3. /\ \A k \in Mm, w \in Page : ~(k = c /\ w = v) /\ ~(k = p /\ w = v) => pte'[k][w] = pte[k][w]
        /\ pte'[c][v] = e /\ pte'[p][v] = e
    BY <1>0, <1>1 DEF TypeOK
  <1>5. KeepsMaps
    <2>1. pte[c][v].k = "none"
      BY <1>4, PageNat DEF IsNone
    <2> QED
      BY <1>2, <1>3, <2>1 DEF KeepsMaps
  <1>8. RefBook' /\ MapBook' /\ Fresh'
    BY <1>1, <1>5, QuietStep
  <1>10. CtxBook' /\ MigBook'
    BY <1>0, <1>1 DEF CtxBook, MigBook
  <1>11. ForkBook'
    <2>1. fork'.p = p /\ fork'.c = c /\ fork'.pos = v + 1
      BY <1>0, <1>1 DEF TypeOK, p, c
    <2>2. ASSUME NEW w \in Page, w >= v + 1
          PROVE  pte'[c][w].k = "none"
      <3>1. w # v /\ w >= v
        BY <2>2, PageNat
      <3> QED
        BY <1>0, <1>3, <1>4, <3>1 DEF IsNone
    <2>3. ASSUME NEW k \in Mm, stage[k] = "none", NEW w \in Page
          PROVE  pte'[k][w].k = "none"
      <3>1. k # c /\ pte[k][w].k = "none"
        BY <1>0, <1>4, <2>3 DEF ForkBook, IsNone
      <3>2. ~(k = p /\ w = v)
        BY <1>2, <3>1
      <3> QED
        BY <1>3, <3>1, <3>2
    <2> QED
      BY <1>1, <1>4, <2>1, <2>2, <2>3, ZenonT(30) DEF ForkBook, IsNone
  <1> QED
    BY <1>8, <1>10, <1>11 DEF BookInv

\* The steps of a fork that touch no page table.
LEMMA ForkMoves ==
  ASSUME BookInv, IInv',
         \/ \E p, c \in Mm : ForkStart(p, c)
         \/ \E v \in Page : ForkNone(v) \/ ForkFail(v)
         \/ ForkDone
  PROVE  BookInv'
  <1>0. TypeOK /\ CtxBook /\ MigBook /\ ForkBook
    BY DEF BookInv, IInv
  <1>1. UNCHANGED <<pte, ref, mapc, deferred, pin, ctx, mig>>
    BY DEF ForkStart, ForkNone, ForkFail, ForkDone
  <1>2. RefBook' /\ MapBook' /\ Fresh'
    BY <1>1, QuietStep DEF KeepsMaps
  <1>3. ASSUME NEW p \in Mm, NEW c \in Mm, ForkStart(p, c)
        PROVE  CtxBook' /\ MigBook' /\ ForkBook'
    <2>1. /\ stage[c] = "none" /\ p # c
          /\ stage' = [stage EXCEPT ![c] = "embryo"]
          /\ fork'.p = p /\ fork'.c = c
      BY <1>3, PageNat DEF ForkStart
    <2>2. stage'[c] = "embryo" /\ \A m \in Mm : m # c => stage'[m] = stage[m]
      BY <1>0, <2>1 DEF TypeOK
    <2>3. ForkBook'
      BY <1>0, <1>1, <2>1, <2>2 DEF ForkBook, IsNone
    <2>4. \A t \in Context : ctx[t].m \in Mm
      BY <1>0 DEF TypeOK, CtxType
    <2> QED
      BY <1>0, <1>1, <2>1, <2>2, <2>3, <2>4 DEF CtxBook, MigBook
  <1>4. ASSUME NEW v \in Page, ForkNone(v)
        PROVE  CtxBook' /\ MigBook' /\ ForkBook'
    <2>1. /\ fork'.p = fork.p /\ fork'.c = fork.c /\ fork'.pos = fork.pos + 1
          /\ fork.pos \in Nat /\ stage' = stage
      BY <1>0, <1>4, PageNat DEF ForkNone, Copying, TypeOK
    <2>2. \A w \in Page : w >= fork.pos + 1 => w >= fork.pos
      BY <2>1, PageNat
    <2> QED
      BY <1>0, <1>1, <2>1, <2>2 DEF CtxBook, MigBook, ForkBook, Forking, IsNone
  <1>5. ASSUME Forking, fork' = NoFork, NEW x \in {"dying", "live"},
               stage' = [stage EXCEPT ![fork.c] = x]
        PROVE  CtxBook' /\ MigBook' /\ ForkBook'
    <2>1. fork.c \in Mm /\ stage[fork.c] = "embryo"
      BY <1>0, <1>5 DEF TypeOK, ForkBook
    <2>2. stage'[fork.c] = x /\ \A m \in Mm : m # fork.c => stage'[m] = stage[m]
      BY <1>0, <1>5, <2>1 DEF TypeOK
    <2>3. ForkBook'
      BY <1>0, <1>1, <1>5, <2>1, <2>2 DEF ForkBook, IsNone, Forking, NoFork
    <2>4. \A t \in Context : ctx[t].m \in Mm
      BY <1>0 DEF TypeOK, CtxType
    <2> QED
      BY <1>0, <1>1, <2>1, <2>2, <2>3, <2>4 DEF CtxBook, MigBook
  <1>6. ASSUME NEW v \in Page, ForkFail(v)
        PROVE  CtxBook' /\ MigBook' /\ ForkBook'
    BY <1>5, <1>6 DEF ForkFail, Copying
  <1>7. CASE ForkDone
    BY <1>2, <1>5, <1>7 DEF ForkDone, BookInv
  <1> QED
    BY <1>2, <1>3, <1>4, <1>6, <1>7 DEF BookInv

\* All fork actions.
LEMMA ForkBooks ==
  ASSUME BookInv, IInv', ForkNext
  PROVE  BookInv'
  BY ForkShareBooks, ForkCopyBooks, ForkMigBooks, ForkMoves DEF ForkNext

----------------------------------------------------------------------------
(* Zaps, late puts and pins keep the books *)

\* All references of a zapped batch but one go now; the last becomes a late put.
LEMMA ZapBatchBooks ==
  ASSUME BookInv, IInv', NEW m \in Mm, NEW v \in Page, NEW end, ZapBatch(m, v, end)
  PROVE  BookInv'
  <1> DEFINE f == pte[m][v].f  S == PteBatch(m, v, end)  n == Cardinality(S)
  <1>0. /\ TypeOK /\ PteOK /\ CtxBook /\ MigBook /\ ForkBook /\ Fresh
        /\ Maps(m, v, f) /\ f \in Frame
    BY EntryFields DEF BookInv, IInv, TypeOK, PteOK, ZapBatch, Maps
  <1>1. /\ pte' = Install(m, [u \in S |-> Absent])
        /\ ref' = [ref EXCEPT ![f] = @ - (n - 1)] /\ mapc' = [mapc EXCEPT ![f] = @ - n]
        /\ deferred' = [deferred EXCEPT ![f] = @ + 1]
        /\ UNCHANGED <<pin, ctx, fork, mig, stage>>
    BY DEF ZapBatch, BatchPut
  <1>2. S \in SUBSET Page /\ n \in Nat /\ \A u \in S : Maps(m, u, f)
    BY <1>0, BatchType
  <1> HIDE DEF S
  <1>3. Loses(m, S, f)
    <2> DEFINE new == [u \in S |-> Absent]
    <2>1. pte' = Install(m, new) /\ DOMAIN new = S
      BY <1>1
    <2>2. \A u \in S : new[u].k = "none"
      BY DEF Absent
    <2> HIDE DEF new
    <2>3. /\ \A k \in Mm, w \in Page : k # m => pte'[k][w] = pte[k][w]
          /\ \A w \in Page : pte'[m][w] = IF w \in S THEN new[w] ELSE pte[m][w]
      BY <1>0, <2>1, InstallAt
    <2> QED
      BY <1>2, <2>2, <2>3 DEF Loses, OnlyAt
  <1> HIDE DEF f, n
  <1>4. ASSUME NEW g \in Frame
        PROVE  Balanced(g)
    <2> DEFINE a == IF g = f THEN -n ELSE 0  b == One(g = f)
    <2>1. Sites(g)' = Sites(g) - (IF g = f THEN n ELSE 0)
      BY <1>2, <1>3, LosesCount DEF n
    <2>2. /\ Sites(g) \in Nat /\ Holders(g) \in Nat /\ deferred[g] \in Nat /\ pin[g] \in Nat
          /\ ref[g] \in Nat /\ mapc[g] \in Nat
      BY Known
    <2>3. Holders(g)' = Holders(g) + b
      <3>1. deferred'[g] = deferred[g] + b /\ deferred'[g] \in Nat /\ b \in Int
        BY <1>0, <1>1, <2>2 DEF One, TypeOK
      <3>2. Holders(g)' = Holders(g) + (deferred'[g] - deferred[g]) + (pin'[g] - pin[g])
        BY <1>1, <2>2, <3>1, HoldersPut DEF BookInv
      <3>3. pin'[g] = pin[g]
        BY <1>1
      <3> HIDE DEF b
      <3> QED
        BY <2>2, <3>1, <3>2, <3>3
    <2>4. ref'[g] = ref[g] + (a + b) /\ mapc'[g] = mapc[g] + a /\ a \in Int /\ b \in Int
      <3>1. CASE g = f
        <4>1. ref'[g] = ref[g] - (n - 1) /\ mapc'[g] = mapc[g] - n
          BY <1>0, <1>1, <3>1 DEF TypeOK
        <4>2. a = -n /\ b = 1 /\ n \in Nat
          BY <1>2, <3>1 DEF One, n
        <4> HIDE DEF a, b
        <4> QED
          BY <2>2, <4>1, <4>2
      <3>2. CASE g # f
        <4>1. ref'[g] = ref[g] /\ mapc'[g] = mapc[g]
          BY <1>0, <1>1, <3>2 DEF TypeOK
        <4>2. a = 0 /\ b = 0
          BY <3>2 DEF One
        <4> HIDE DEF a, b
        <4> QED
          BY <2>2, <4>1, <4>2
      <3> QED
        BY <3>1, <3>2
    <2>5. Sites(g)' = Sites(g) + a
      BY <1>2, <2>1, <2>2
    <2> HIDE DEF a, b
    <2>6. Shift(g, a, b)
      BY <2>3, <2>4, <2>5 DEF Shift
    <2> QED
      BY <2>4, <2>6 DEF Balanced
  <1>5. RefBook' /\ MapBook'
    BY <1>4, BalancedStep
  <1>6. Fresh'
    <2> SUFFICES ASSUME NEW s \in Context, ctx'[s].new \in Frame
                 PROVE  ref'[ctx'[s].new] = 1
      BY DEF Fresh
    <2>1. ctx'[s] = ctx[s] /\ ref[ctx[s].new] = 1 /\ ctx[s].new # f
      BY <1>0, <1>1, FreshAlone
    <2> QED
      BY <1>0, <1>1, <2>1 DEF TypeOK
  <1>7. CtxBook' /\ MigBook'
    BY <1>0, <1>1 DEF CtxBook, MigBook
  <1>8. ForkBook'
    <2>1. \A k \in Mm, w \in Page :
            IsNone(k, w) /\ stage[k] \in {"none", "embryo"} => pte'[k][w].k = "none"
      BY <1>3 DEF Loses, OnlyAt, IsNone, Maps
    <2> QED
      BY <1>0, <1>1, <2>1, ForkBookKept
  <1> QED
    BY <1>5, <1>6, <1>7, <1>8 DEF BookInv

\* A zapped migration entry gives nothing back.
LEMMA ZapMigBooks ==
  ASSUME BookInv, IInv', NEW m \in Mm, NEW v \in Page,
         NEW end \in (VmaFirst + 1)..(VmaLast + 1), ZapMig(m, v, end)
  PROVE  BookInv'
  <1> DEFINE S == {u \in v..(end - 1) : \A w \in v..u : pte[m][w].k = "mig"}
             new == [u \in S |-> Absent]
  <1>1. /\ pte' = Install(m, new) /\ DOMAIN new = S
        /\ UNCHANGED <<ref, mapc, deferred, pin, ctx, fork, mig, stage>>
    BY DEF ZapMig
  <1>2. \A u \in S : new[u].k = "none" /\ pte[m][u].k = "mig"
    <2> SUFFICES ASSUME NEW u \in S
                 PROVE  new[u].k = "none" /\ pte[m][u].k = "mig"
      OBVIOUS
    <2>1. u \in v..u
      BY PageNat
    <2> QED
      BY <2>1 DEF Absent
  <1> HIDE DEF S, new
  <1>3. /\ \A k \in Mm, w \in Page : k # m => pte'[k][w] = pte[k][w]
        /\ \A w \in Page : pte'[m][w] = IF w \in S THEN new[w] ELSE pte[m][w]
    BY <1>1, InstallAt DEF BookInv, IInv
  <1>4. KeepsMaps
    BY <1>2, <1>3 DEF KeepsMaps
  <1>5. \A k \in Mm, w \in Page : IsNone(k, w) => pte'[k][w].k = "none"
    BY <1>2, <1>3 DEF IsNone
  <1> QED
    BY <1>1, <1>4, <1>5, QuietBooks

\* Put({f}), with one reference of f the less in deferred or in pin.
LEMMA PutBooks ==
  ASSUME BookInv, IInv', NEW f \in Frame, DeferredPut(f) \/ Unpin(f)
  PROVE  BookInv'
  <1>0. TypeOK /\ CtxBook /\ MigBook /\ ForkBook /\ Fresh
    BY DEF BookInv, IInv
  <1>1. Put({f}) /\ UNCHANGED <<pte, mapc, ctx, fork, mig, stage>>
    BY DEF DeferredPut, Unpin
  <1>2. ASSUME NEW g \in Frame
        PROVE  Balanced(g)
    <2>1. Sites(g)' = Sites(g)
      BY <1>1, KeepsCount DEF KeepsMaps
    <2>2. /\ Sites(g) \in Nat /\ Holders(g) \in Nat /\ deferred[g] \in Nat /\ pin[g] \in Nat
          /\ ref[g] \in Nat /\ mapc[g] \in Nat
      BY Known
    <2> DEFINE b == -One(g = f)  d == deferred'[g] - deferred[g]  e == pin'[g] - pin[g]
    <2>3. Holders(g)' = Holders(g) + b
      <3>1. deferred'[g] \in Nat /\ pin'[g] \in Nat /\ d + e = b /\ d \in Int /\ e \in Int
        <4>1. CASE DeferredPut(f)
          BY <1>0, <2>2, <4>1 DEF DeferredPut, One, TypeOK
        <4>2. CASE Unpin(f)
          BY <1>0, <2>2, <4>2 DEF Unpin, One, TypeOK
        <4> QED
          BY <4>1, <4>2
      <3>2. Holders(g)' = Holders(g) + d + e
        BY <1>1, <2>2, <3>1, HoldersPut DEF BookInv
      <3> HIDE DEF b, d, e
      <3> QED
        BY <2>2, <3>1, <3>2
    <2>4. ref'[g] = ref[g] + b /\ mapc'[g] = mapc[g] /\ b \in Int
      <3>1. ref'[g] = ref[g] - One(g \in {f}) /\ One(g \in {f}) = One(g = f)
        BY <1>0, <1>1, PutRef DEF One
      <3> QED
        BY <1>1, <2>2, <3>1 DEF One
    <2> HIDE DEF b
    <2>6. Shift(g, 0, b)
      BY <2>1, <2>2, <2>3, <2>4 DEF Shift
    <2> QED
      BY <2>4, <2>6 DEF Balanced
  <1>3. RefBook' /\ MapBook'
    BY <1>2, BalancedStep
  <1>4. Fresh'
    <2> SUFFICES ASSUME NEW s \in Context, ctx'[s].new \in Frame
                 PROVE  ref'[ctx'[s].new] = 1
      BY DEF Fresh
    <2> DEFINE h == ctx[s].new
    <2>1. ctx'[s] = ctx[s] /\ h \in Frame /\ ref[h] = 1 /\ deferred[h] = 0 /\ pin[h] = 0
      BY <1>1, FreshAlone
    <2>2. h # f
      BY <2>1 DEF DeferredPut, Unpin
    <2>3. ref'[h] = ref[h] - One(h \in {f}) /\ One(h \in {f}) = 0
      BY <1>0, <1>1, <2>1, <2>2, PutRef DEF One
    <2> QED
      BY <2>1, <2>3
  <1>5. CtxBook' /\ MigBook' /\ ForkBook'
    BY <1>0, <1>1, ForkBookKept DEF CtxBook, MigBook, IsNone
  <1> QED
    BY <1>3, <1>4, <1>5 DEF BookInv

\* Exit and reaping touch no folio.
LEMMA LeaveBooks ==
  ASSUME BookInv, IInv', NEW m \in Mm, Exit(m) \/ Reap(m)
  PROVE  BookInv'
  <1>0. TypeOK /\ CtxBook /\ MigBook /\ ForkBook
    BY DEF BookInv, IInv
  <1>1. UNCHANGED <<pte, ref, mapc, deferred, pin, ctx, fork, mig>>
    BY DEF Exit, Reap
  <1>2. RefBook' /\ MapBook' /\ Fresh'
    BY <1>1, QuietStep DEF KeepsMaps
  <1>3. \A t \in Context : ctx[t].st # "idle" => ctx[t].m # m
    <2>1. \A t \in Context : ctx[t].st # "idle" => ctx[t] # Idle
      BY DEF Idle
    <2> QED
      BY <1>0, <2>1 DEF Exit, Reap, CtxBook
  <1>4. Forking => fork.c # m
    BY <1>0 DEF Exit, Reap, ForkBook, InFork
  <1>5. /\ \A n \in Mm : n # m => stage'[n] = stage[n]
        /\ stage'[m] = "none" => \A v \in Page : IsNone(m, v)
    BY <1>0 DEF Exit, Reap, TypeOK
  <1>6. fork.c \in Mm /\ \A t \in Context : ctx[t].m \in Mm
    BY <1>0 DEF TypeOK, CtxType
  <1>7. ForkBook'
    BY <1>0, <1>1, <1>4, <1>5, <1>6 DEF ForkBook, Forking, IsNone
  <1>8. CtxBook' /\ MigBook'
    BY <1>0, <1>1, <1>3, <1>5, <1>6 DEF CtxBook, MigBook
  <1> QED
    BY <1>2, <1>7, <1>8 DEF BookInv

\* All zap actions.
LEMMA ZapBooks ==
  ASSUME BookInv, IInv', ZapNext
  PROVE  BookInv'
  BY ZapBatchBooks, ZapMigBooks, PutBooks, LeaveBooks DEF ZapNext

\* A pin is one reference.
LEMMA PinBooks ==
  ASSUME BookInv, IInv', PinNext
  PROVE  BookInv'
  <1>1. ASSUME NEW m \in Mm, NEW v \in Page, Pin(m, v)
        PROVE  BookInv'
    <2> DEFINE f == pte[m][v].f
    <2>0. TypeOK /\ CtxBook /\ MigBook /\ ForkBook /\ Fresh /\ Maps(m, v, f)
      BY <1>1 DEF BookInv, IInv, Pin, Maps
    <2>1. /\ ref' = [ref EXCEPT ![f] = @ + 1] /\ pin' = [pin EXCEPT ![f] = @ + 1]
          /\ UNCHANGED <<pte, mapc, deferred, ctx, fork, mig, stage>>
      BY <1>1 DEF Pin
    <2> HIDE DEF f
    <2>2. ASSUME NEW g \in Frame
          PROVE  Balanced(g)
      <3>1. Sites(g)' = Sites(g)
        BY <2>1, KeepsCount DEF KeepsMaps
      <3>2. /\ Sites(g) \in Nat /\ Holders(g) \in Nat /\ deferred[g] \in Nat /\ pin[g] \in Nat
            /\ ref[g] \in Nat /\ mapc[g] \in Nat
        BY Known
      <3> DEFINE b == One(g = f)
      <3>3. pin'[g] = pin[g] + b /\ pin'[g] \in Nat /\ ref'[g] = ref[g] + b /\ b \in Int
        BY <2>0, <2>1, <3>2 DEF One, TypeOK
      <3>4. Holders(g)' = Holders(g) + b
        <4>1. Holders(g)' = Holders(g) + (deferred'[g] - deferred[g]) + (pin'[g] - pin[g])
          BY <2>1, <3>2, <3>3, HoldersPut DEF BookInv
        <4>2. deferred'[g] = deferred[g]
          BY <2>1
        <4> HIDE DEF b
        <4> QED
          BY <3>2, <3>3, <4>1, <4>2
      <3>5. mapc'[g] = mapc[g]
        BY <2>1
      <3> HIDE DEF b
      <3>6. Shift(g, 0, b)
        BY <3>1, <3>2, <3>3, <3>4, <3>5 DEF Shift
      <3> QED
        BY <3>3, <3>6 DEF Balanced
    <2>3. RefBook' /\ MapBook'
      BY <2>2, BalancedStep
    <2>4. Fresh'
      <3> SUFFICES ASSUME NEW s \in Context, ctx'[s].new \in Frame
                   PROVE  ref'[ctx'[s].new] = 1
        BY DEF Fresh
      <3>1. ctx'[s] = ctx[s] /\ ref[ctx[s].new] = 1 /\ ctx[s].new # f
        BY <2>0, <2>1, FreshAlone
      <3> QED
        BY <2>0, <2>1, <3>1 DEF TypeOK
    <2>5. CtxBook' /\ MigBook' /\ ForkBook'
      BY <2>0, <2>1, ForkBookKept DEF CtxBook, MigBook, IsNone
    <2> QED
      BY <2>3, <2>4, <2>5 DEF BookInv
  <1> QED
    BY <1>1, PutBooks DEF PinNext

----------------------------------------------------------------------------
(* Migration keeps the books *)

\* A step of a walk that changes no count: the folios stay the same two.
LEMMA WalkQuiet ==
  ASSUME BookInv, IInv', UNCHANGED <<ref, mapc, deferred, pin, ctx, fork, stage>>,
         KeepsMaps, mig.ph # "idle",
         mig'.src = mig.src, mig'.dst = mig.dst, mig'.to \in {mig.src, mig.dst},
         mig'.ph # "idle",
         \A m \in Mm, v \in Page : IsNone(m, v) => pte'[m][v].k = "none"
  PROVE  BookInv'
  <1>1. RefBook' /\ MapBook' /\ Fresh'
    BY QuietStep
  <1>2. TypeOK /\ CtxBook /\ MigBook /\ ForkBook
    BY DEF BookInv, IInv
  <1>3. CtxBook' /\ MigBook'
    BY <1>2 DEF CtxBook, MigBook
  <1>4. ForkBook'
    BY <1>2, ForkBookKept
  <1> QED
    BY <1>1, <1>3, <1>4 DEF BookInv

\* Each PTE a walk turns into a migration entry gives up its reference and map
\* count; a pinned folio keeps its PTEs.
LEMMA MigUnmapBooks ==
  ASSUME BookInv, IInv', NEW v \in Page, MigUnmap(v)
  PROVE  BookInv'
  <1> DEFINE m == mig.m  f == mig.src
             S == WalkBatch(m, v, f)  n == Cardinality(S)
             kept == [u \in S |-> MapTo(f, pte[m][v].s + (u - v), pte[m][v].p)]
             kind == CASE pte[m][v].p = "rw" -> "rw"
                       [] pte[m][v].p # "rw" /\ excl[f] -> "rx"
                       [] OTHER -> "ro"
             migs == [u \in S |-> MigTo(f, pte[m][u].s, kind)]
  <1>0. /\ TypeOK /\ CtxBook /\ MigBook /\ ForkBook /\ Fresh
        /\ m \in Mm /\ f \in Frame /\ mig \in MigType /\ mig.ph = "unmap"
        /\ pte[m][v].k = "map"
    BY DEF BookInv, IInv, TypeOK, MigType, MigHasFolios, MigUnmap, WalkStopsAt
  <1>1. S \in SUBSET Page /\ n \in Nat /\ \A u \in S : Maps(m, u, f)
    BY <1>0, WalkBatchType DEF Maps
  <1>2. UNCHANGED <<deferred, pin, ctx, fork, stage>>
    BY DEF MigUnmap
  <1>3. mig.to \in {mig.src, mig.dst} /\ mig.src # mig.dst
    BY <1>0 DEF MigBook
  <1>4. CASE MustCopy(f)
    <2>1. /\ pte' = Install(m, kept) /\ DOMAIN kept = S
          /\ mig' = [mig EXCEPT !.ph = "move", !.held = FALSE]
          /\ UNCHANGED <<ref, mapc>>
      BY <1>4 DEF MigUnmap
    <2>2. \A u \in S : kept[u].k = "map" /\ kept[u].f = f
      BY DEF MapTo
    <2> HIDE DEF kept, S
    <2>3. /\ \A k \in Mm, w \in Page : k # m => pte'[k][w] = pte[k][w]
          /\ \A w \in Page : pte'[m][w] = IF w \in S THEN kept[w] ELSE pte[m][w]
      BY <1>0, <2>1, InstallAt
    <2>4. KeepsMaps
      BY <1>1, <2>2, <2>3 DEF KeepsMaps, Maps
    <2>5. \A k \in Mm, w \in Page : IsNone(k, w) => pte'[k][w].k = "none"
      BY <1>1, <2>3 DEF IsNone, Maps
    <2>6. /\ mig'.ph = "move" /\ mig'.src = mig.src /\ mig'.dst = mig.dst /\ mig'.to = mig.to
      BY <1>0, <2>1 DEF MigType
    <2> QED
      BY <1>0, <1>2, <1>3, <2>1, <2>4, <2>5, <2>6, WalkQuiet
  <1>5. CASE ~MustCopy(f)
    <2>1. /\ pte' = Install(m, migs) /\ DOMAIN migs = S
          /\ ref' = [ref EXCEPT ![f] = @ - n] /\ mapc' = [mapc EXCEPT ![f] = @ - n]
          /\ mig' = [mig EXCEPT !.pos = v + 1, !.held = TRUE]
      BY <1>5 DEF MigUnmap
    <2>2. \A u \in S : migs[u].k = "mig"
      BY DEF MigTo
    <2> HIDE DEF migs, S, kind
    <2>3. /\ \A k \in Mm, w \in Page : k # m => pte'[k][w] = pte[k][w]
          /\ \A w \in Page : pte'[m][w] = IF w \in S THEN migs[w] ELSE pte[m][w]
      BY <1>0, <2>1, InstallAt
    <2>4. Loses(m, S, f)
      BY <1>1, <2>2, <2>3 DEF Loses, OnlyAt
    <2>6. /\ mig'.ph = "unmap" /\ mig'.src = mig.src /\ mig'.dst = mig.dst /\ mig'.to = mig.to
      BY <1>0, <2>1 DEF MigType
    <2> HIDE DEF n, f, m
    <2>7. ASSUME NEW g \in Frame
          PROVE  Balanced(g)
      <3> DEFINE a == IF g = f THEN -n ELSE 0
      <3>1. Sites(g)' = Sites(g) - (IF g = f THEN n ELSE 0)
        BY <1>0, <1>1, <2>4, LosesCount DEF n
      <3>2. /\ Sites(g) \in Nat /\ Holders(g) \in Nat /\ deferred[g] \in Nat /\ pin[g] \in Nat
            /\ ref[g] \in Nat /\ mapc[g] \in Nat
        BY Known
      <3>3. Holders(g)' = Holders(g)
        <4>1. Holders(g)' = Holders(g) + (deferred'[g] - deferred[g]) + (pin'[g] - pin[g])
          BY <1>2, <2>6, <3>2, HoldersPut DEF BookInv
        <4> QED
          BY <1>2, <3>2, <4>1
      <3>4. ref'[g] = ref[g] + a /\ mapc'[g] = mapc[g] + a /\ a \in Int
        BY <1>0, <1>1, <2>1, <3>2 DEF TypeOK
      <3>5. Sites(g)' = Sites(g) + a
        BY <1>1, <3>1, <3>2
      <3> HIDE DEF a
      <3>6. Shift(g, a, 0)
        BY <3>3, <3>4, <3>5, <3>2 DEF Shift
      <3> QED
        BY <3>4, <3>6 DEF Balanced
    <2>8. RefBook' /\ MapBook'
      BY <2>7, BalancedStep
    <2>9. Fresh'
      <3> SUFFICES ASSUME NEW s \in Context, ctx'[s].new \in Frame
                   PROVE  ref'[ctx'[s].new] = 1
        BY DEF Fresh
      <3>1. ctx'[s] = ctx[s] /\ ref[ctx[s].new] = 1 /\ ctx[s].new # f
        BY <1>2, FreshAlone DEF f
      <3> QED
        BY <1>0, <1>2, <2>1, <3>1 DEF TypeOK
    <2>10. CtxBook' /\ MigBook'
      BY <1>0, <1>2, <1>3, <2>6 DEF CtxBook, MigBook
    <2>11. ForkBook'
      <3>1. \A k \in Mm, w \in Page :
              IsNone(k, w) /\ stage[k] \in {"none", "embryo"} => pte'[k][w].k = "none"
        BY <2>4 DEF Loses, OnlyAt, IsNone, Maps
      <3> QED
        BY <1>0, <1>2, <3>1, ForkBookKept
    <2> QED
      BY <2>8, <2>9, <2>10, <2>11 DEF BookInv
  <1> QED
    BY <1>4, <1>5

\* Each restored PTE takes a reference and a map count of where the folio is.
LEMMA MigRestoreBooks ==
  ASSUME BookInv, IInv', NEW v \in Page, MigRestore(v)
  PROVE  BookInv'
  <1> DEFINE m == mig.m  f == mig.to
             S == WalkBatch(m, v, mig.src)  n == Cardinality(S)
             es == [u \in S |-> RestoredPte(f, u, v, pte[m][v].p)]
  <1>0. /\ TypeOK /\ CtxBook /\ MigBook /\ ForkBook /\ Fresh
        /\ m \in Mm /\ f \in Frame /\ mig \in MigType /\ mig.ph = "restore"
        /\ pte[m][v].k = "mig"
    BY DEF BookInv, IInv, TypeOK, MigType, MigHasFolios, MigRestore, WalkStopsAt
  <1>1. S \in SUBSET Page /\ n \in Nat /\ \A u \in S : pte[m][u].k = "mig"
    BY <1>0, WalkBatchType
  <1>2. /\ pte' = Install(m, es) /\ DOMAIN es = S
        /\ ref' = [ref EXCEPT ![f] = @ + n] /\ mapc' = [mapc EXCEPT ![f] = @ + n]
        /\ mig' = [mig EXCEPT !.pos = v + 1, !.held = TRUE]
        /\ UNCHANGED <<deferred, pin, ctx, fork, stage>>
    BY DEF MigRestore, RestoreRefs
  <1>3. mig.to \in {mig.src, mig.dst} /\ mig.src # mig.dst
    BY <1>0 DEF MigBook
  <1>4. \A u \in S : es[u].k = "map" /\ es[u].f = f
    BY DEF RestoredPte, MapTo
  <1> HIDE DEF es, S
  <1>5. /\ \A k \in Mm, w \in Page : k # m => pte'[k][w] = pte[k][w]
        /\ \A w \in Page : pte'[m][w] = IF w \in S THEN es[w] ELSE pte[m][w]
    BY <1>0, <1>2, InstallAt
  <1>6. Gains(m, S, f)
    BY <1>1, <1>4, <1>5 DEF Gains, OnlyAt
  <1>7. /\ mig'.ph = "restore" /\ mig'.src = mig.src /\ mig'.dst = mig.dst /\ mig'.to = mig.to
    BY <1>0, <1>2 DEF MigType
  <1> HIDE DEF n, f, m
  <1>8. ASSUME NEW g \in Frame
        PROVE  Balanced(g)
    <2> DEFINE a == IF g = f THEN n ELSE 0
    <2>1. Sites(g)' = Sites(g) + a
      BY <1>0, <1>1, <1>6, GainsCount DEF n
    <2>2. /\ Sites(g) \in Nat /\ Holders(g) \in Nat /\ deferred[g] \in Nat /\ pin[g] \in Nat
          /\ ref[g] \in Nat /\ mapc[g] \in Nat
      BY Known
    <2>3. Holders(g)' = Holders(g)
      <3>1. Holders(g)' = Holders(g) + (deferred'[g] - deferred[g]) + (pin'[g] - pin[g])
        BY <1>2, <1>7, <2>2, HoldersPut DEF BookInv
      <3> QED
        BY <1>2, <2>2, <3>1
    <2>4. ref'[g] = ref[g] + a /\ mapc'[g] = mapc[g] + a /\ a \in Int
      BY <1>0, <1>1, <1>2, <2>2 DEF TypeOK
    <2> HIDE DEF a
    <2>5. Shift(g, a, 0)
      BY <2>1, <2>2, <2>3, <2>4 DEF Shift
    <2> QED
      BY <2>4, <2>5 DEF Balanced
  <1>9. RefBook' /\ MapBook'
    BY <1>8, BalancedStep
  <1>10. Fresh'
    <2> SUFFICES ASSUME NEW s \in Context, ctx'[s].new \in Frame
                 PROVE  ref'[ctx'[s].new] = 1
      BY DEF Fresh
    <2>1. ctx'[s] = ctx[s] /\ ref[ctx[s].new] = 1 /\ ctx[s].new # f
      BY <1>2, <1>3, FreshAlone DEF f
    <2> QED
      BY <1>0, <1>2, <2>1 DEF TypeOK
  <1>11. CtxBook' /\ MigBook'
    BY <1>0, <1>2, <1>3, <1>7 DEF CtxBook, MigBook
  <1>12. ForkBook'
    <2>1. \A k \in Mm, w \in Page :
            IsNone(k, w) /\ stage[k] \in {"none", "embryo"} => pte'[k][w].k = "none"
      BY <1>1, <1>5 DEF IsNone
    <2> QED
      BY <1>0, <1>2, <2>1, ForkBookKept
  <1> QED
    BY <1>9, <1>10, <1>11, <1>12 DEF BookInv

\* Isolation takes a reference of the source; the destination is new.
LEMMA MigStartBooks ==
  ASSUME BookInv, IInv', NEW src \in Frame, NEW dst \in Frame, MigStart(src, dst)
  PROVE  BookInv'
  <1>0. TypeOK /\ CtxBook /\ MigBook /\ ForkBook /\ Fresh
    BY DEF BookInv, IInv
  <1>1. /\ mapc[src] > 0 /\ Free(dst)
        /\ ref' = [ref EXCEPT ![src] = @ + 1, ![dst] = 1]
        /\ mig'.ph = "unmap" /\ mig'.src = src /\ mig'.dst = dst /\ mig'.to = src
        /\ UNCHANGED <<pte, mapc, deferred, pin, ctx, fork, stage>>
    BY DEF MigStart
  <1>2. mig.src = NoFrame /\ mig.dst = NoFrame
    BY <1>0 DEF MigBook, MigStart
  <1>3. mapc[dst] = 0 /\ ref[dst] = 0 /\ src # dst
    BY <1>1, FreeAlone
  <1>4. ASSUME NEW g \in Frame
        PROVE  Balanced(g)
    <2>1. Sites(g)' = Sites(g)
      BY <1>1, KeepsCount DEF KeepsMaps
    <2>2. /\ Sites(g) \in Nat /\ Holders(g) \in Nat /\ ref[g] \in Nat /\ mapc[g] \in Nat
          /\ g # NoFrame
      BY Known
    <2> DEFINE b == One(src = g) + One(dst = g)
    <2>3. Holders(g)' = Holders(g) + b
      <3>1. Holders(g)' = Holders(g) + One(mig'.src = g) + One(mig'.dst = g)
                          - One(mig.src = g) - One(mig.dst = g)
        BY <1>1, HoldersMig DEF BookInv
      <3> QED
        BY <1>1, <1>2, <2>2, <3>1 DEF One
    <2>4. ref'[g] = ref[g] + b /\ b \in Int
      BY <1>0, <1>1, <1>3, <2>2 DEF TypeOK, One
    <2>5. mapc'[g] = mapc[g]
      BY <1>1
    <2> HIDE DEF b
    <2>6. Shift(g, 0, b)
      BY <2>1, <2>2, <2>3, <2>4, <2>5 DEF Shift
    <2> QED
      BY <2>4, <2>6 DEF Balanced
  <1>5. RefBook' /\ MapBook'
    BY <1>4, BalancedStep
  <1>6. Fresh'
    <2> SUFFICES ASSUME NEW s \in Context, ctx'[s].new \in Frame
                 PROVE  ref'[ctx'[s].new] = 1
      BY DEF Fresh
    <2> DEFINE h == ctx[s].new
    <2>1. ctx'[s] = ctx[s] /\ h \in Frame /\ ref[h] = 1 /\ mapc[h] = 0
      BY <1>1, FreshAlone
    <2>2. h # src /\ h # dst
      BY <1>1, <1>3, <2>1
    <2> QED
      BY <1>0, <1>1, <2>1, <2>2 DEF TypeOK
  <1>7. CtxBook' /\ MigBook' /\ ForkBook'
    BY <1>0, <1>1, <1>3, ForkBookKept DEF CtxBook, MigBook, IsNone
  <1> QED
    BY <1>5, <1>6, <1>7 DEF BookInv

\* The end of a migration puts both folios.
LEMMA MigDoneBooks ==
  ASSUME BookInv, IInv', MigDone
  PROVE  BookInv'
  <1> DEFINE src == mig.src  dst == mig.dst
  <1>0. /\ TypeOK /\ CtxBook /\ MigBook /\ ForkBook /\ Fresh
        /\ src \in Frame /\ dst \in Frame /\ src # dst
    BY DEF BookInv, IInv, MigHasFolios, MigDone, MigBook
  <1>1. /\ Put({src, dst}) /\ mig' = MigIdle
        /\ UNCHANGED <<pte, mapc, deferred, pin, ctx, fork, stage>>
    BY DEF MigDone
  <1>2. mig'.ph = "idle" /\ mig'.src = NoFrame /\ mig'.dst = NoFrame
    BY <1>1 DEF MigIdle
  <1>4. ASSUME NEW g \in Frame
        PROVE  Balanced(g)
    <2>1. Sites(g)' = Sites(g)
      BY <1>1, KeepsCount DEF KeepsMaps
    <2>2. /\ Sites(g) \in Nat /\ Holders(g) \in Nat /\ ref[g] \in Nat /\ mapc[g] \in Nat
          /\ g # NoFrame
      BY Known
    <2> DEFINE x == One(src = g)  y == One(dst = g)  b == -(x + y)
    <2>3. Holders(g)' = Holders(g) - x - y
      <3>1. Holders(g)' = Holders(g) + One(mig'.src = g) + One(mig'.dst = g)
                          - One(mig.src = g) - One(mig.dst = g)
        BY <1>1, HoldersMig DEF BookInv
      <3>2. One(mig'.src = g) = 0 /\ One(mig'.dst = g) = 0
        BY <1>2, <2>2 DEF One
      <3>3. x \in Int /\ y \in Int
        BY DEF One
      <3> QED
        BY <2>2, <3>1, <3>2, <3>3
    <2>4. ref'[g] = ref[g] - (x + y) /\ x \in Int /\ y \in Int
      <3>1. ref'[g] = ref[g] - One(g \in {src, dst})
        BY <1>0, <1>1, PutRef
      <3>2. One(g \in {src, dst}) = x + y
        BY <1>0 DEF One
      <3> QED
        BY <3>1, <3>2 DEF One
    <2>5. mapc'[g] = mapc[g]
      BY <1>1
    <2> HIDE DEF x, y
    <2>6. Shift(g, 0, b) /\ b \in Int
      BY <2>1, <2>2, <2>3, <2>4, <2>5 DEF Shift
    <2> QED
      BY <2>6 DEF Balanced
  <1>5. RefBook' /\ MapBook'
    BY <1>4, BalancedStep
  <1>6. Fresh'
    <2> SUFFICES ASSUME NEW s \in Context, ctx'[s].new \in Frame
                 PROVE  ref'[ctx'[s].new] = 1
      BY DEF Fresh
    <2> DEFINE h == ctx[s].new
    <2>1. ctx'[s] = ctx[s] /\ h \in Frame /\ ref[h] = 1 /\ h # src /\ h # dst
      BY <1>1, FreshAlone
    <2>2. ref'[h] = ref[h] - One(h \in {src, dst}) /\ One(h \in {src, dst}) = 0
      BY <1>0, <1>1, <2>1, PutRef DEF One
    <2> QED
      BY <2>1, <2>2
  <1>7. CtxBook' /\ MigBook' /\ ForkBook'
    BY <1>0, <1>1, <1>2, ForkBookKept DEF CtxBook, MigBook, IsNone
  <1> QED
    BY <1>5, <1>6, <1>7 DEF BookInv

\* All migration actions.
LEMMA MigBooks ==
  ASSUME BookInv, IInv', MigNext
  PROVE  BookInv'
  <1>0. MigBook /\ MigHasFolios /\ mig \in MigType
    BY DEF BookInv, IInv, TypeOK
  <1>1. ASSUME MigUnmapNext \/ MigRestoreNext
        PROVE  BookInv'
    <2>1. PICK ph \in {"unmap", "restore"}, then \in {"move", "done"} : MigNextMm(ph, then)
      BY <1>1 DEF MigUnmapNext, MigRestoreNext
    <2>2. /\ mig'.src = mig.src /\ mig'.dst = mig.dst /\ mig'.to = mig.to
          /\ mig'.ph # "idle" /\ mig.ph # "idle"
          /\ UNCHANGED <<pte, ref, mapc, deferred, pin, ctx, fork, stage>>
      BY <1>0, <2>1 DEF MigNextMm, AtWalkStart, MigType
    <2> QED
      BY <1>0, <2>2, WalkQuiet DEF KeepsMaps, IsNone, MigBook
  <1>2. ASSUME MigMove
        PROVE  BookInv'
    <2>1. /\ mig'.src = mig.src /\ mig'.dst = mig.dst /\ mig'.to \in {mig.src, mig.dst}
          /\ mig'.ph # "idle" /\ mig.ph # "idle"
          /\ UNCHANGED <<pte, ref, mapc, deferred, pin, ctx, fork, stage>>
      BY <1>2 DEF MigMove, AtWalkStart
    <2> QED
      BY <2>1, WalkQuiet DEF KeepsMaps, IsNone
  <1> QED
    BY <1>1, <1>2, MigUnmapBooks, MigRestoreBooks, MigStartBooks, MigDoneBooks
    DEF MigNext, MigStep

----------------------------------------------------------------------------
(* The theorems *)

\* Nothing is mapped or held at first.
LEMMA BookInit == Init => BookInv
  <1> SUFFICES ASSUME Init PROVE BookInv
    OBVIOUS
  <1>1. IInv
    BY TypeInit
  <1>2. CtxBook /\ MigBook /\ ForkBook
    BY DEF Init, CtxBook, MigBook, ForkBook, Forking, NoFork, MigIdle, Idle, IsNone, Absent
  <1>3. Fresh
    BY DataAssumption DEF Init, Fresh, Idle
  <1>4. ASSUME NEW f \in Frame
        PROVE  MapSites(f) = {} /\ OldIn(f) = {} /\ NewIn(f) = {} /\ MigHolds(f) = {}
    <2>1. f # NoFrame
      BY DataAssumption
    <2>2. MapSites(f) = {}
      BY DEF Init, MapSites, Maps, Absent
    <2>3. OldIn(f) = {} /\ NewIn(f) = {}
      BY <2>1 DEF Init, OldIn, NewIn, Idle
    <2>4. MigHolds(f) = {}
      BY <2>1 DEF Init, MigHolds, MigIdle
    <2> QED
      BY <2>2, <2>3, <2>4
  <1>5. Cardinality({}) = 0
    BY FS_EmptySet
  <1>6. RefBook
    <2> SUFFICES ASSUME NEW f \in Frame
                 PROVE  ref[f] = Cardinality(MapSites(f)) + Cardinality(OldIn(f))
                                 + Cardinality(NewIn(f)) + Cardinality(MigHolds(f))
                                 + deferred[f] + pin[f]
      BY DEF RefBook
    <2>1. ref[f] = 0 /\ deferred[f] = 0 /\ pin[f] = 0
      BY DEF Init
    <2>2. ref[f] = Cardinality({}) + Cardinality({}) + Cardinality({}) + Cardinality({})
                   + deferred[f] + pin[f]
      BY <1>5, <2>1
    <2> QED
      BY <1>4, <2>2, Zenon
  <1>7. MapBook
    BY <1>4, <1>5 DEF Init, MapBook
  <1> QED
    BY <1>1, <1>2, <1>3, <1>6, <1>7 DEF BookInv

\* The books hold in every reachable state, with what faults, forks and
\* migrations know of the folios they have in hand.
THEOREM BooksInductive == Spec => []BookInv
  <1>1. Init => BookInv
    BY BookInit
  <1>2. BookInv /\ IInv' /\ [Next]_vars => BookInv'
    <2> SUFFICES ASSUME BookInv, IInv', [Next]_vars PROVE BookInv'
      OBVIOUS
    <2>1. CASE Next
      BY <2>1, FaultBooks, ForkBooks, ZapBooks, PinBooks, MigBooks DEF Next
    <2>2. CASE UNCHANGED vars
      BY <2>2, QuietBooks DEF vars, KeepsMaps, IsNone
    <2> QED
      BY <2>1, <2>2
  <1> QED
    BY <1>1, <1>2, Inductive, PTL DEF Spec

\* The reference count of every folio is one per hardware PTE that maps it,
\* plus one per fault, migration, pin and delayed put that holds it, whatever
\* the batches of faults, COW, forks, zaps and migrations were.
THEOREM RefCounted == Spec => []RefBook
  BY BooksInductive, PTL DEF BookInv

\* The map count of every folio is the number of hardware PTEs that map it.
THEOREM MapCounted == Spec => []MapBook
  BY BooksInductive, PTL DEF BookInv

\* A folio that some PTE maps, some fault holds or some migration moves has
\* not been freed: no batched put drops one reference too many.
THEOREM NeverFreeInUse == Spec => []NoFreeInUse
  <1>1. BookInv => NoFreeInUse
    <2> SUFFICES ASSUME BookInv, NEW f \in Frame,
                        MapSites(f) \cup OldIn(f) \cup NewIn(f) \cup MigHolds(f) # {}
                 PROVE  ref[f] > 0
      BY DEF NoFreeInUse
    <2>1. ref[f] \in Nat
      BY Known
    <2>2. CASE ref[f] = 0
      <3>1. /\ \A t \in Context : ctx[t].new # f /\ ctx[t].old # f
            /\ \A m \in Mm, v \in Page : ~Maps(m, v, f)
            /\ mig.src # f /\ mig.dst # f
        BY <2>2, FreeAlone DEF Free
      <3>2. MapSites(f) = {} /\ OldIn(f) = {} /\ NewIn(f) = {} /\ MigHolds(f) = {}
        BY <3>1 DEF MapSites, OldIn, NewIn, MigHolds
      <3> QED
        BY <3>2
    <2> QED
      BY <2>1, <2>2
  <1> QED
    BY <1>1, BooksInductive, PTL

----------------------------------------------------------------------------
(* MM_ANONPAGES *)

\* Entries outside the pages S of m are empty when they were.
FillsAt(m, S) ==
  \A n \in Mm, w \in Page : ~(n = m /\ w \in S) => (pte'[n][w].k = "none" <=> IsNone(n, w))

\* Pages S of m are filled and counted.
LEMMA RssGain ==
  ASSUME TypeOK, RssBook, NEW m \in Mm, NEW S \in SUBSET Page, FillsAt(m, S),
         \A u \in S : IsNone(m, u) /\ pte'[m][u].k # "none",
         rss' = [rss EXCEPT ![m] = @ + Cardinality(S)]
  PROVE  RssBook'
  <1> SUFFICES ASSUME NEW n \in Mm
               PROVE  rss'[n] = Cardinality(Filled(n)')
    BY DEF RssBook, Filled
  <1>1. rss[n] = Cardinality(Filled(n)) /\ rss \in [Mm -> Int]
    BY DEF RssBook, Filled, TypeOK
  <1>2. CASE n = m
    <2> DEFINE A == Filled(m)  B == Filled(m)'
    <2>1. B = A \cup S /\ A \cap S = {} /\ A \in SUBSET Page
      BY DEF Filled, FillsAt, IsNone
    <2>2. IsFiniteSet(A) /\ IsFiniteSet(S)
      BY <2>1, PagesFinite
    <2> HIDE DEF A, B
    <2>3. Cardinality(B) = Cardinality(A) + Cardinality(S)
      BY <2>1, <2>2, DisjointCount
    <2> QED
      BY <1>1, <1>2, <2>3 DEF A, B
  <1>3. CASE n # m
    <2>1. Filled(n)' = Filled(n)
      BY <1>3 DEF Filled, FillsAt, IsNone
    <2> QED
      BY <1>1, <1>3, <2>1
  <1> QED
    BY <1>2, <1>3

\* Pages S of m are emptied and counted.
LEMMA RssLose ==
  ASSUME TypeOK, RssBook, NEW m \in Mm, NEW S \in SUBSET Page, FillsAt(m, S),
         \A u \in S : ~IsNone(m, u) /\ pte'[m][u].k = "none",
         rss' = [rss EXCEPT ![m] = @ - Cardinality(S)]
  PROVE  RssBook'
  <1> SUFFICES ASSUME NEW n \in Mm
               PROVE  rss'[n] = Cardinality(Filled(n)')
    BY DEF RssBook, Filled
  <1>1. rss[n] = Cardinality(Filled(n)) /\ rss \in [Mm -> Int]
    BY DEF RssBook, Filled, TypeOK
  <1>2. CASE n = m
    <2> DEFINE A == Filled(m)  B == Filled(m)'
    <2>1. A = B \cup S /\ B \cap S = {} /\ B \in SUBSET Page
      BY DEF Filled, FillsAt, IsNone
    <2>2. IsFiniteSet(B) /\ IsFiniteSet(S) /\ Cardinality(B) \in Nat /\ Cardinality(S) \in Nat
      BY <2>1, PagesFinite
    <2> HIDE DEF A, B
    <2>3. Cardinality(A) = Cardinality(B) + Cardinality(S)
      BY <2>1, <2>2, DisjointCount
    <2>4. rss'[m] = Cardinality(A) - Cardinality(S)
      BY <1>1, <1>2 DEF A
    <2> QED
      BY <1>2, <2>2, <2>3, <2>4 DEF B
  <1>3. CASE n # m
    <2>1. Filled(n)' = Filled(n)
      BY <1>3 DEF Filled, FillsAt, IsNone
    <2> QED
      BY <1>1, <1>3, <2>1
  <1> QED
    BY <1>2, <1>3

\* No entry is filled or emptied, and nothing is counted.
LEMMA RssSame ==
  ASSUME RssBook, rss' = rss,
         \A n \in Mm, w \in Page : pte'[n][w].k = "none" <=> IsNone(n, w)
  PROVE  RssBook'
  <1> SUFFICES ASSUME NEW n \in Mm
               PROVE  rss'[n] = Cardinality(Filled(n)')
    BY DEF RssBook, Filled
  <1>1. Filled(n)' = Filled(n) /\ rss[n] = Cardinality(Filled(n))
    BY DEF RssBook, Filled, IsNone
  <1> QED
    BY <1>1

\* Every batch that fills or empties entries counts them, and no other does.
LEMMA RssStep ==
  ASSUME BookInv, RssBook, Next
  PROVE  RssBook'
  <1>0. /\ TypeOK /\ PteOK /\ ForkBook /\ MigHasFolios /\ mig \in MigType
        /\ fork.p \in Mm /\ fork.c \in Mm
    BY DEF BookInv, IInv, TypeOK, PteOK
  <1>1. ASSUME NEW t \in Context, AnonMap(t)
        PROVE  RssBook'
    <2> DEFINE m == ctx[t].m  v == ctx[t].v  f == ctx[t].new
    <2>1. m \in Mm /\ v \in Page
      BY <1>0 DEF TypeOK, CtxType
    <2>2. PICK S \in AnonTargets(m, v) :
            /\ pte' = Install(m, [u \in S |-> MapTo(f, SubOf(u), "rw")])
            /\ rss' = [rss EXCEPT ![m] = @ + Cardinality(S)]
      BY <1>1 DEF AnonMap, AnonRss
    <2>3. S \in SUBSET Page /\ \A u \in S : IsNone(m, u)
      BY <1>1, <2>1 DEF AnonTargets, Cluster, AnonMap
    <2> DEFINE new == [u \in S |-> MapTo(f, SubOf(u), "rw")]
    <2>4. pte' = Install(m, new) /\ DOMAIN new = S /\ \A u \in S : new[u].k = "map"
      BY <2>2 DEF MapTo
    <2> HIDE DEF new, m, v, f
    <2>5. /\ \A k \in Mm, w \in Page : k # m => pte'[k][w] = pte[k][w]
          /\ \A w \in Page : pte'[m][w] = IF w \in S THEN new[w] ELSE pte[m][w]
      BY <1>0, <2>1, <2>4, InstallAt
    <2>6. FillsAt(m, S) /\ \A u \in S : pte'[m][u].k # "none"
      BY <2>3, <2>4, <2>5 DEF FillsAt, IsNone
    <2> QED
      BY <1>0, <2>1, <2>2, <2>3, <2>6, RssGain
  <1>2. ASSUME NEW t \in Context, WpCommit(t)
        PROVE  RssBook'
    <2> DEFINE m == ctx[t].m  v == ctx[t].v  o == ctx[t].old  f == ctx[t].new
               S == {u \in Cluster(v) : Maps(m, u, o)}
               new == [u \in S |-> MovedPte(f, pte[m][u])]
    <2>1. m \in Mm /\ rss' = rss /\ pte' = Install(m, new) /\ DOMAIN new = S
      BY <1>0, <1>2 DEF TypeOK, CtxType, WpCommit
    <2>2. \A u \in S : new[u].k = "map" /\ pte[m][u].k = "map"
      BY DEF MapTo, MovedPte, Maps
    <2> HIDE DEF S, new, m
    <2>3. /\ \A k \in Mm, w \in Page : k # m => pte'[k][w] = pte[k][w]
          /\ \A w \in Page : pte'[m][w] = IF w \in S THEN new[w] ELSE pte[m][w]
      BY <1>0, <2>1, InstallAt
    <2>4. \A n \in Mm, w \in Page : pte'[n][w].k = "none" <=> IsNone(n, w)
      BY <2>2, <2>3 DEF IsNone
    <2> QED
      BY <2>1, <2>4, RssSame
  <1>3. ASSUME NEW t \in Context, NEW m \in Mm, NEW v \in Page, WpReuse(t, m, v)
        PROVE  RssBook'
    <2>1. /\ rss' = rss /\ pte' = [pte EXCEPT ![m][v].p = "rw"]
          /\ pte \in [Mm -> [Page -> Entry]] /\ pte[m][v] \in Entry
      BY <1>0, <1>3 DEF WpReuse, TypeOK
    <2>2. pte'[m][v].k = pte[m][v].k
      BY <2>1 DEF Entry, Absent
    <2>3. \A n \in Mm, w \in Page : ~(n = m /\ w = v) => pte'[n][w] = pte[n][w]
      BY <2>1
    <2>4. \A n \in Mm, w \in Page : pte'[n][w].k = "none" <=> IsNone(n, w)
      BY <2>2, <2>3 DEF IsNone
    <2> QED
      BY <2>1, <2>4, RssSame
  <1>4. ASSUME UNCHANGED <<pte, rss>>
        PROVE  RssBook'
    BY <1>4, RssSame DEF IsNone
  <1>5. ASSUME NEW v \in Page, ForkMig(v)
        PROVE  RssBook'
    <2> DEFINE p == fork.p  c == fork.c  e == [pte[p][v] EXCEPT !.p = "ro"]
    <2>1. /\ pte' = [pte EXCEPT ![p][v] = e, ![c][v] = e] /\ pte[p][v].k = "mig" /\ p # c
          /\ rss' = [rss EXCEPT ![c] = @ + 1] /\ fork.pos = v /\ IsNone(c, v)
      BY <1>0, <1>5, PageNat DEF ForkMig, Copying, Forking, ForkBook
    <2>2. e.k = "mig"
      BY <1>0, <2>1 DEF TypeOK, Entry, Absent
    <2> HIDE DEF e, p, c
    <2>3. /\ \A k \in Mm, w \in Page : ~(k = c /\ w = v) /\ ~(k = p /\ w = v) => pte'[k][w] = pte[k][w]
          /\ pte'[c][v] = e /\ pte'[p][v] = e
      BY <1>0, <2>1 DEF TypeOK, p, c
    <2>4. FillsAt(c, {v}) /\ \A u \in {v} : IsNone(c, u) /\ pte'[c][u].k # "none"
      BY <2>1, <2>2, <2>3 DEF FillsAt, IsNone
    <2>5. Cardinality({v}) = 1 /\ {v} \in SUBSET Page
      BY FS_Singleton
    <2>6. rss' = [rss EXCEPT ![c] = @ + Cardinality({v})] /\ c \in Mm
      BY <1>0, <2>1, <2>5 DEF c
    <2> QED
      BY <1>0, <2>4, <2>5, <2>6, RssGain
  <1>6. ASSUME NEW v \in Page, NEW f \in Frame, ForkCopy(v, f)
        PROVE  RssBook'
    <2> DEFINE p == fork.p  c == fork.c
    <2>1. /\ pte' = [pte EXCEPT ![c][v] = MapTo(f, pte[p][v].s, "rw")]
          /\ rss' = [rss EXCEPT ![c] = @ + 1] /\ fork.pos = v /\ IsNone(c, v)
      BY <1>0, <1>6, PageNat DEF ForkCopy, Copying, Forking, ForkBook
    <2>2. /\ \A k \in Mm, w \in Page : ~(k = c /\ w = v) => pte'[k][w] = pte[k][w]
          /\ pte'[c][v].k = "map"
      BY <1>0, <2>1 DEF TypeOK, MapTo
    <2> HIDE DEF p, c
    <2>4. FillsAt(c, {v}) /\ \A u \in {v} : IsNone(c, u) /\ pte'[c][u].k # "none"
      BY <2>1, <2>2 DEF FillsAt, IsNone
    <2>5. Cardinality({v}) = 1 /\ {v} \in SUBSET Page
      BY FS_Singleton
    <2>6. rss' = [rss EXCEPT ![c] = @ + Cardinality({v})] /\ c \in Mm
      BY <1>0, <2>1, <2>5 DEF c
    <2> QED
      BY <1>0, <2>4, <2>5, <2>6, RssGain
  <1>7. ASSUME NEW v \in Page, ForkShare(v)
        PROVE  RssBook'
    <2> DEFINE p == fork.p  c == fork.c  f == pte[p][v].f
               S == PteBatch(p, v, VmaLast + 1)
               shared == [u \in S |-> SharedPte(v, u, pte[p][u])]
    <2>1. /\ pte' = [Install(p, shared) EXCEPT ![c] = Install(c, shared)[c]]
          /\ rss' = [rss EXCEPT ![c] = @ + Cardinality(S)]
          /\ p \in Mm /\ c \in Mm /\ p # c /\ fork.pos = v
      BY <1>0, <1>7 DEF ForkShare, Copying, Forking
    <2>2. S \in SUBSET Page /\ \A u \in S : pte[p][u].k = "map" /\ u >= v
      <3>1. S \in SUBSET Page /\ \A u \in S : Maps(p, u, f)
        BY <1>0, <2>1, BatchType
      <3>2. \A u \in S : u >= v
        BY PageNat DEF PteBatch
      <3> QED
        BY <3>1, <3>2 DEF Maps
    <2>3. \A u \in S : shared[u].k = "map"
      <3> SUFFICES ASSUME NEW u \in S
                   PROVE  shared[u].k = "map"
        OBVIOUS
      <3>1. pte[p][u] \in Entry /\ pte[p][u].k = "map"
        BY <1>0, <2>1, <2>2 DEF TypeOK
      <3>2. [pte[p][u] EXCEPT !.p = "ro"].k = "map"
        BY <3>1 DEF Entry, Absent
      <3> QED
        BY <3>2 DEF SharedPte
    <2>4. DOMAIN shared = S
      OBVIOUS
    <2> HIDE DEF S, shared
    <2>5. /\ \A k \in Mm, w \in Page : k # p /\ k # c => pte'[k][w] = pte[k][w]
          /\ \A w \in Page : pte'[p][w] = IF w \in S THEN shared[w] ELSE pte[p][w]
          /\ \A w \in Page : pte'[c][w] = IF w \in S THEN shared[w] ELSE pte[c][w]
      <3>1. Install(p, shared) = [pte EXCEPT ![p] = [w \in Page |-> IF w \in S THEN shared[w] ELSE pte[p][w]]]
        BY <1>0, <2>1, <2>4, Zenon DEF Install, TypeOK
      <3>2. Install(c, shared) = [pte EXCEPT ![c] = [w \in Page |-> IF w \in S THEN shared[w] ELSE pte[c][w]]]
        BY <1>0, <2>1, <2>4, Zenon DEF Install, TypeOK
      <3> QED
        BY <1>0, <2>1, <3>1, <3>2 DEF TypeOK
    <2>6. \A u \in S : IsNone(c, u)
      BY <1>0, <2>1, <2>2 DEF ForkBook, Forking
    <2> HIDE DEF p, c, f
    <2>7. FillsAt(c, S) /\ \A u \in S : pte'[c][u].k # "none"
      BY <2>1, <2>2, <2>3, <2>5 DEF FillsAt, IsNone
    <2>8. /\ c \in Mm /\ S \in SUBSET Page /\ FillsAt(c, S)
          /\ \A u \in S : IsNone(c, u) /\ pte'[c][u].k # "none"
          /\ rss' = [rss EXCEPT ![c] = @ + Cardinality(S)]
      BY <2>1, <2>2, <2>6, <2>7
    <2> QED
      BY <1>0, <2>8, RssGain
  <1>8. ASSUME NEW m \in Mm, NEW v \in Page, NEW end \in (VmaFirst + 1)..(VmaLast + 1),
               ZapBatch(m, v, end) \/ ZapMig(m, v, end)
        PROVE  RssBook'
    <2>1. PICK S \in SUBSET Page :
            /\ pte' = Install(m, [u \in S |-> Absent]) /\ \A u \in S : ~IsNone(m, u)
            /\ rss' = [rss EXCEPT ![m] = @ - Cardinality(S)]
      <3>1. CASE ZapBatch(m, v, end)
        <4>1. /\ PteBatch(m, v, end) \in SUBSET Page
              /\ \A u \in PteBatch(m, v, end) : ~IsNone(m, u)
          BY <1>0, BatchType DEF Maps, IsNone
        <4> QED
          BY <3>1, <4>1 DEF ZapBatch
      <3>2. CASE ZapMig(m, v, end)
        <4> DEFINE T == {u \in v..(end - 1) : \A w \in v..u : pte[m][w].k = "mig"}
        <4>1. T \in SUBSET Page /\ \A u \in T : ~IsNone(m, u)
          <5> SUFFICES ASSUME NEW u \in T
                       PROVE  u \in Page /\ ~IsNone(m, u)
            OBVIOUS
          <5>1. u \in v..u /\ u \in Page
            BY ClusterAssumption DEF Page
          <5> QED
            BY <5>1 DEF IsNone
        <4> QED
          BY <3>2, <4>1 DEF ZapMig
      <3> QED
        BY <1>8, <3>1, <3>2
    <2> DEFINE new == [u \in S |-> Absent]
    <2>2. pte' = Install(m, new) /\ DOMAIN new = S /\ \A u \in S : new[u].k = "none"
      BY <2>1 DEF Absent
    <2> HIDE DEF new
    <2>3. /\ \A k \in Mm, w \in Page : k # m => pte'[k][w] = pte[k][w]
          /\ \A w \in Page : pte'[m][w] = IF w \in S THEN new[w] ELSE pte[m][w]
      BY <1>0, <2>2, InstallAt
    <2>4. FillsAt(m, S) /\ \A u \in S : pte'[m][u].k = "none"
      BY <2>1, <2>2, <2>3 DEF FillsAt, IsNone
    <2> QED
      BY <1>0, <2>1, <2>4, RssLose
  <1>9. ASSUME NEW v \in Page, MigUnmap(v) \/ MigRestore(v)
        PROVE  RssBook'
    <2> DEFINE m == mig.m  S == WalkBatch(m, v, mig.src)
    <2>1. m \in Mm /\ pte[m][v].k # "none" /\ rss' = rss
      BY <1>0, <1>9 DEF MigUnmap, MigRestore, WalkStopsAt, MigType
    <2>2. S \in SUBSET Page /\ \A u \in S : ~IsNone(m, u)
      BY <2>1, WalkBatchType DEF IsNone
    <2>3. \E new : pte' = Install(m, new) /\ DOMAIN new = S /\ \A u \in S : new[u].k # "none"
      <3>1. CASE MigUnmap(v) /\ MustCopy(mig.src)
        <4> DEFINE new == [u \in S |-> MapTo(mig.src, pte[m][v].s + (u - v), pte[m][v].p)]
        <4>1. pte' = Install(m, new)
          BY <3>1, Zenon DEF MigUnmap
        <4>2. DOMAIN new = S /\ \A u \in S : new[u].k # "none"
          BY DEF MapTo
        <4> HIDE DEF new, S, m
        <4> QED
          BY <4>1, <4>2
      <3>2. CASE MigUnmap(v) /\ ~MustCopy(mig.src)
        <4> DEFINE kind == CASE pte[m][v].p = "rw" -> "rw"
                             [] pte[m][v].p # "rw" /\ excl[mig.src] -> "rx"
                             [] OTHER -> "ro"
                   new == [u \in S |-> MigTo(mig.src, pte[m][u].s, kind)]
        <4>1. pte' = Install(m, new)
          BY <3>2 DEF MigUnmap
        <4> HIDE DEF kind
        <4>2. DOMAIN new = S /\ \A u \in S : new[u].k # "none"
          BY DEF MigTo
        <4> HIDE DEF new, S, m
        <4> QED
          BY <4>1, <4>2
      <3>3. CASE MigRestore(v)
        <4> DEFINE new == [u \in S |-> RestoredPte(mig.to, u, v, pte[m][v].p)]
        <4>1. pte' = Install(m, new)
          BY <3>3 DEF MigRestore
        <4>2. DOMAIN new = S /\ \A u \in S : new[u].k # "none"
          BY DEF RestoredPte, MapTo
        <4> HIDE DEF new, S, m
        <4> QED
          BY <4>1, <4>2
      <3> QED
        BY <1>9, <3>1, <3>2, <3>3
    <2>4. PICK new : pte' = Install(m, new) /\ DOMAIN new = S /\ \A u \in S : new[u].k # "none"
      BY <2>3
    <2> HIDE DEF S, m
    <2>5. /\ \A k \in Mm, w \in Page : k # m => pte'[k][w] = pte[k][w]
          /\ \A w \in Page : pte'[m][w] = IF w \in S THEN new[w] ELSE pte[m][w]
      BY <1>0, <2>1, <2>4, InstallAt
    <2>6. \A n \in Mm, w \in Page : pte'[n][w].k = "none" <=> IsNone(n, w)
      BY <2>2, <2>4, <2>5 DEF IsNone
    <2> QED
      BY <2>1, <2>6, RssSame
  <1>10. CASE FaultNext
    <2>1. ASSUME NEW m \in Mm, NEW v \in Page, NEW x \in Val, Store(m, v, x)
          PROVE  UNCHANGED <<pte, rss>>
      BY <2>1 DEF Store
    <2>2. ASSUME NEW t \in Context, NEW m \in Mm, NEW v \in Page, NEW f \in Frame,
                 AnonAlloc(t, m, v, f)
          PROVE  UNCHANGED <<pte, rss>>
      BY <2>2, Zenon DEF AnonAlloc
    <2>3. ASSUME NEW t \in Context, NEW m \in Mm, NEW v \in Page, WpFault(t, m, v)
          PROVE  UNCHANGED <<pte, rss>>
      BY <2>3, Zenon DEF WpFault
    <2>4. ASSUME NEW t \in Context, AnonStale(t) \/ WpOom(t) \/ WpStale(t)
          PROVE  UNCHANGED <<pte, rss>>
      BY <2>4 DEF AnonStale, WpOom, WpStale
    <2>5. ASSUME NEW t \in Context, NEW f \in Frame, WpCopy(t, f)
          PROVE  UNCHANGED <<pte, rss>>
      BY <2>5 DEF WpCopy
    <2> QED
      BY <1>1, <1>2, <1>3, <1>4, <1>10, <2>1, <2>2, <2>3, <2>4, <2>5, Zenon DEF FaultNext
  <1>11. CASE ForkNext
    BY <1>4, <1>5, <1>6, <1>7, <1>11 DEF ForkNext, ForkStart, ForkNone, ForkFail, ForkDone
  <1>12. CASE ZapNext
    BY <1>4, <1>8, <1>12 DEF ZapNext, DeferredPut, Exit, Reap
  <1>13. CASE PinNext
    BY <1>4, <1>13 DEF PinNext, Pin, Unpin
  <1>14. CASE MigNext
    BY <1>4, <1>9, <1>14
    DEF MigNext, MigStep, MigUnmapNext, MigRestoreNext, MigNextMm, MigMove, MigDone, MigStart
  <1> QED
    BY <1>10, <1>11, <1>12, <1>13, <1>14 DEF Next

\* MM_ANONPAGES of an address space is its number of hardware pages that are
\* mapped or under migration, in clusters cut by holes or by the VMA too.
THEOREM RssCounted == Spec => []RssBook
  <1>1. Init => RssBook
    <2>1. Init => \A m \in Mm : rss[m] = 0 /\ {v \in Page : ~IsNone(m, v)} = {}
      BY DEF Init, IsNone, Absent
    <2> QED
      BY <2>1, FS_EmptySet DEF RssBook
  <1>2. BookInv /\ RssBook /\ [Next]_vars => RssBook'
    BY RssStep, RssSame DEF vars, IsNone
  <1> QED
    BY <1>1, <1>2, BooksInductive, PTL DEF Spec
=============================================================================
