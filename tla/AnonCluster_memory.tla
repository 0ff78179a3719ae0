-------------------------- MODULE AnonCluster_memory --------------------------
(***************************************************************************)
(* Copy-on-write, fork, page pinning and migration implement private       *)
(* memory, for every number of frames, address spaces, fault contexts and  *)
(* hardware pages per kernel page, where no migration or unpin overlaps a  *)
(* fork, no fork fails between two fragments of a folio it has begun to    *)
(* share, and no batch of migration entries begins inside its folio.       *)
(* The last section has two settings in which nothing of the kind happens: *)
(* clusters nobody takes apart, and no migration at all.                   *)
(***************************************************************************)
EXTENDS AnonCluster_owner

----------------------------------------------------------------------------
(* The invariant *)

Rw(m, v) == pte[m][v].k = "map" /\ pte[m][v].p = "rw"

\* Page v of the parent, which the fork being carried out has yet to copy.
InRest(m, v) == Forking /\ m = fork.p /\ v >= fork.pos

\* The folio an entry stands for: a migration entry, from the move on, for
\* the one the contents went to.
Folio(m, v) == IF pte[m][v].k = "mig" /\ mig.ph = "restore" THEN mig.to ELSE pte[m][v].f
Of(m, v, f) == ~IsNone(m, v) /\ Folio(m, v) = f

\* A folio that is in one address space.
Sole(f) == \A m, n \in Mm : \A v, u \in Page : Of(m, v, f) /\ Of(n, u, f) => m = n

\* The folio whose PTEs in m the unmapping walk has replaced in part: the
\* walk holds the page-table lock of m.
Cut(m, f) == mig.ph = "unmap" /\ mig.held /\ mig.m = m /\ mig.src = f

\* An entry stands for the sub-page its address names.
AlignedLive ==
  \A m \in Mm, v \in Page :
    ~IsNone(m, v) /\ stage[m] # "dying" => pte[m][v].s = SubOf(v)

\* An exclusive folio is in one address space, and so is one whose migration
\* entries will make it exclusive again.
ExclSole == \A f \in Frame : excl[f] => Sole(f)
KindSole ==
  \A m \in Mm, v \in Page :
    pte[m][v].k = "mig" /\ pte[m][v].p # "ro" => Sole(Folio(m, v))

\* A folio somebody may write is exclusive.  Only a fork has some that it has
\* shared in part, and it has yet to come to the PTEs that can be written;
\* and the unmapping walk takes the flag at the first batch of several.
RwExcl ==
  \A m \in Mm, v \in Page :
    Rw(m, v) => \/ excl[pte[m][v].f]
                \/ InRest(m, v)
                \/ Cut(m, pte[m][v].f) /\ Sole(pte[m][v].f)

\* A folio its parent may write is, during a fork, in parent and child alone;
\* behind the fork it is one the fork copied for a pin.
ForkRest ==
  \A v \in Page : Forking /\ Rw(fork.p, v) =>
    /\ \A n \in Mm, u \in Page : Maps(n, u, pte[fork.p][v].f) => n \in {fork.p, fork.c}
    /\ v < fork.pos => pin[pte[fork.p][v].f] > 0

\* No fault runs in the parent while it is forked.
ForkQuiet ==
  Forking => /\ stage[fork.p] = "live" /\ stage[fork.c] = "embryo"
             /\ \A t \in Context : ctx[t].st # "idle" => ctx[t].m # fork.p

\* A folio pinned for DMA is in one address space, and exclusive where it is
\* mapped, unless the unmapping walk has begun with it: a fast pin takes no
\* page-table lock.
PinnedSole ==
  \A f \in Frame : pin[f] > 0 =>
    /\ Sole(f)
    /\ \A m \in Mm, v \in Page : Maps(m, v, f) /\ stage[m] # "dying" => excl[f] \/ Cut(m, f)

\* A readable migration entry of the first sub-page was made by the first
\* batch of the walk: the folio was not exclusive, so nobody writes or pins it.
AllRo(f) == \A m \in Mm, v \in Page : Of(m, v, f) => pte[m][v].p = "ro"
HeadRo ==
  \A m \in Mm, v \in Page :
    pte[m][v].k = "mig" /\ SubOf(v) = 0 /\ pte[m][v].p = "ro" /\ stage[m] # "dying" =>
      ~excl[Folio(m, v)] /\ pin[Folio(m, v)] = 0 /\ AllRo(Folio(m, v))

\* The folio a COW fault copies is nobody's to write, from the time the fault
\* finds it shared to the commit.
OldPlain(t) == ctx[t].st \in {"wp", "wpc"} => ~excl[ctx[t].old] /\ AllRo(ctx[t].old)

\* The copy is what the old folio holds.
CopyData(t) == ctx[t].st = "wpc" => data[ctx[t].new] = data[ctx[t].old]

\* A folio about to be mapped for the first time is zeroed.
AnonZero(t) == ctx[t].st = "anon" => data[ctx[t].new] = ZeroFrame

\* What is still to be restored is what was there at the move.
RestData ==
  mig.ph = "restore" =>
    \A m \in Mm, v \in Page : pte[m][v].k = "mig" /\ stage[m] # "dying" =>
      data[mig.to][pte[m][v].s] = data[mig.src][pte[m][v].s]

Base == OrphanInv /\ WalkInv
FaultOK(t) == OldPlain(t) /\ CopyData(t) /\ AnonZero(t)
FolioRights == AlignedLive /\ ExclSole /\ KindSole /\ RwExcl /\ ForkRest /\ PinnedSole /\ HeadRo
Rights == FolioRights /\ ForkQuiet /\ \A t \in Context : FaultOK(t)
MemInv == Base /\ Rights /\ RestData

\* A fork that fails at v leaves its parent no folio that is shared in part:
\* what the parent may write from v on is still exclusive.  The code does not
\* see to that: it is a hypothesis of the theorems below.
FailsWhole(v) ==
  ForkFail(v) => \A u \in Page : u >= v /\ Rw(fork.p, u) => excl[pte[fork.p][u].f]
ForksFailWhole == [][\A v \in Page : FailsWhole(v)]_vars

\* A batch of migration entries is restored from the first sub-page of its
\* folio on, where somebody reads it.  remove_migration_pte takes that for
\* granted, and nothing sees to it: the second hypothesis.
RestoreWhole(v) == MigRestore(v) => SubOf(v) = 0 \/ stage[mig.m] = "dying"
RestoresWhole == [][\A v \in Page : RestoreWhole(v)]_vars

----------------------------------------------------------------------------
(* What the invariant says of a folio *)

\* The parts of the invariant, and of the ones below it.
LEMMA MemKnown ==
  ASSUME MemInv
  PROVE  /\ Base /\ OrphanInv /\ WalkInv /\ BookInv /\ TypeOK /\ IdxBook /\ MigEntries /\ MigIdx
         /\ DstUnmapped /\ Apart /\ MigWalk /\ ForkBook /\ MigBook /\ CtxBook
         /\ FolioRights /\ ForkQuiet /\ RestData /\ \A t \in Context : FaultOK(t)
  BY Known DEF MemInv, Base, Rights, OrphanInv, WalkInv

\* What a fault in flight holds.
LEMMA CtxFolios ==
  ASSUME BookInv, NEW t \in Context
  PROVE  /\ ctx[t].st \in {"idle", "anon", "wp", "wpc"} /\ ctx[t].m \in Mm /\ ctx[t].v \in Page
         /\ ctx[t].st \in {"wp", "wpc"} => ctx[t].old \in Frame
         /\ ctx[t].st \in {"anon", "wpc"} => ctx[t].new \in Frame
  BY DEF BookInv, IInv, TypeOK, CtxType, CtxStates, CtxHolds

\* What an entry that is not empty stands for.
LEMMA Present ==
  ASSUME Base, NEW m \in Mm, NEW v \in Page, ~IsNone(m, v)
  PROVE  /\ pte[m][v].f \in Frame /\ pte[m][v].s \in Sub /\ Folio(m, v) \in Frame
         /\ pte[m][v].k \in {"map", "mig"}
         /\ pte[m][v].k = "map" => /\ Maps(m, v, pte[m][v].f) /\ Folio(m, v) = pte[m][v].f
                                   /\ pte[m][v].p \in {"rw", "ro"}
         /\ pte[m][v].k = "mig" =>
              /\ mig.ph \in {"unmap", "move", "restore"} /\ pte[m][v].f = mig.src
              /\ mig.src \in Frame /\ mig.dst \in Frame /\ mig.src # mig.dst
              /\ mig.ph # "restore" => Folio(m, v) = mig.src
              /\ mig.ph = "restore" => Folio(m, v) = mig.to /\ mig.to \in {mig.src, mig.dst}
              /\ pte[m][v].p \in {"rw", "rx", "ro"}
  <1>1. /\ TypeOK /\ MigEntries /\ MigHasFolios /\ MigBook
    BY Known DEF Base, OrphanInv, IInv
  <1>2. /\ pte[m][v].k \in {"map", "mig"} /\ pte[m][v].f \in Frame /\ pte[m][v].s \in Sub
        /\ pte[m][v].k = "map" => pte[m][v].p \in {"rw", "ro"}
        /\ pte[m][v].k = "mig" => pte[m][v].p \in {"rw", "rx", "ro"}
    BY <1>1, EntryFields DEF TypeOK, IsNone
  <1>3. pte[m][v].k = "mig" =>
          /\ mig.ph \in {"unmap", "move", "restore"} /\ pte[m][v].f = mig.src
          /\ mig.src \in Frame /\ mig.dst \in Frame /\ mig.src # mig.dst /\ mig.to \in Frame
          /\ mig.to \in {mig.src, mig.dst}
    BY <1>1 DEF MigEntries, MigHasFolios, MigBook
  <1> QED
    BY <1>2, <1>3 DEF Folio, Maps

\* A PTE stands for the folio it maps, unless that is being restored.
LEMMA MapsOf ==
  ASSUME NEW m, NEW v, NEW f, Maps(m, v, f)
  PROVE  Of(m, v, f) /\ ~IsNone(m, v) /\ Folio(m, v) = f
  BY DEF Maps, Of, IsNone, Folio

\* No entry stands for a folio nobody maps or migrates.
LEMMA OfNone ==
  ASSUME Base, NEW f \in Frame, \A m \in Mm, v \in Page : ~Maps(m, v, f),
         mig.src # f, mig.dst # f
  PROVE  \A m \in Mm, v \in Page : ~Of(m, v, f)
  <1> SUFFICES ASSUME NEW m \in Mm, NEW v \in Page, Of(m, v, f)
               PROVE  FALSE
    OBVIOUS
  <1> QED
    BY Present DEF Of

\* Two entries of one folio that name the same sub-page have one address.
LEMMA SamePage ==
  ASSUME MemInv, NEW m \in Mm, NEW n \in Mm, NEW v \in Page, NEW u \in Page,
         ~IsNone(m, v), ~IsNone(n, u), stage[m] # "dying", stage[n] # "dying",
         Folio(m, v) = Folio(n, u) \/ pte[m][v].f = pte[n][u].f, pte[m][v].s = pte[n][u].s
  PROVE  u = v
  <1>1. SubOf(v) = SubOf(u)
    BY MemKnown DEF FolioRights, AlignedLive
  <1>2. IdxBook /\ MigIdx /\ Base
    BY MemKnown
  <1>3. ClusterOf(v) = idx[Folio(m, v)] /\ ClusterOf(u) = idx[Folio(n, u)]
    <2>1. ASSUME NEW k \in Mm, NEW w \in Page, ~IsNone(k, w)
          PROVE  idx[Folio(k, w)] = idx[pte[k][w].f] /\ ClusterOf(w) = idx[pte[k][w].f]
      BY <1>2, <2>1, Present DEF IdxBook, MigIdx, Folio
    <2> QED
      BY <2>1
  <1>4. ClusterOf(v) = idx[pte[m][v].f] /\ ClusterOf(u) = idx[pte[n][u].f]
    BY <1>2 DEF IdxBook
  <1>5. ClusterOf(v) = ClusterOf(u)
    BY <1>3, <1>4
  <1> QED
    BY <1>1, <1>5, DivMod, PageNat

\* A folio a fault is to copy has more than one reference while it is mapped.
LEMMA OldHasTwo ==
  ASSUME BookInv, NEW t \in Context, NEW m \in Mm, NEW v \in Page, NEW f \in Frame,
         ctx[t].old = f, Maps(m, v, f)
  PROVE  ref[f] # 1
  <1>1. ref[f] = Sites(f) + Holders(f) /\ Sites(f) \in Nat /\ Holders(f) \in Nat
    BY Known
  <1>2. Sites(f) > 0 /\ Olds(f) > 0
    BY HolderCounts
  <1>3. Holders(f) >= Olds(f) /\ Olds(f) \in Nat
    BY HoldersType, Known
  <1> QED
    BY <1>1, <1>2, <1>3

\* A put changes what is known of a folio only if it frees it, and then
\* nobody maps, holds, migrates or pins it.
LEMMA PutUnused ==
  ASSUME BookInv, BookInv', NEW F, Put(F), NEW f \in Frame
  PROVE  \/ excl'[f] = excl[f] /\ data'[f] = data[f]
         \/ /\ ~excl'[f] /\ ~(pin'[f] > 0) /\ f \notin {mig'.src, mig'.dst}
            /\ \A t \in Context : ctx'[t].new # f /\ ctx'[t].old # f
            /\ \A m \in Mm, v \in Page : ~Maps(m, v, f)'
  <1>1. CASE f \in F /\ ref[f] = 1
    <2>1. ~(ref'[f] > 0)
      BY <1>1 DEF Put
    <2>2. ~excl'[f]
      <3>1. excl'[f] = FALSE
        BY <1>1, Zenon DEF Put
      <3> QED
        BY <3>1, Zenon
    <2> QED
      BY <2>1, <2>2, UsedHeldNext
  <1>2. CASE ~(f \in F /\ ref[f] = 1)
    BY <1>2, Zenon DEF Put
  <1> QED
    BY <1>1, <1>2

----------------------------------------------------------------------------
(* Steps that leave the entries they do not remove alone *)

\* For all entries at once, so that it can be primed.
LEMMA PresentAll ==
  Base => \A k \in Mm, w \in Page : ~IsNone(k, w) =>
    /\ pte[k][w].f \in Frame /\ Folio(k, w) \in Frame
    /\ pte[k][w].k \in {"map", "mig"}
    /\ pte[k][w].k = "map" => Folio(k, w) = pte[k][w].f
  BY Present

\* The same of the next state.
LEMMA PresentNext ==
  ASSUME Base', NEW m \in Mm, NEW v \in Page, ~IsNone(m, v)'
  PROVE  /\ pte'[m][v].f \in Frame /\ Folio(m, v)' \in Frame
         /\ pte'[m][v].k \in {"map", "mig"}
         /\ pte'[m][v].k = "map" => Folio(m, v)' = pte'[m][v].f
  <1>1. (Base => \A k \in Mm, w \in Page : ~IsNone(k, w) =>
           /\ pte[k][w].f \in Frame /\ Folio(k, w) \in Frame
           /\ pte[k][w].k \in {"map", "mig"}
           /\ pte[k][w].k = "map" => Folio(k, w) = pte[k][w].f)'
    <2>1. [](Base => \A k \in Mm, w \in Page : ~IsNone(k, w) =>
               /\ pte[k][w].f \in Frame /\ Folio(k, w) \in Frame
               /\ pte[k][w].k \in {"map", "mig"}
               /\ pte[k][w].k = "map" => Folio(k, w) = pte[k][w].f)
      BY PresentAll, PTL
    <2> QED
      BY <2>1, PTL
  <1> QED
    BY <1>1

\* What a step does to the folios it neither maps anew nor makes exclusive:
\* entries are kept or removed, no two folios become one, a folio that stays
\* exclusive or pinned gains no entry, and one that stays mapped keeps its
\* exclusive flag.
FoliosKept ==
  /\ \A m \in Mm, v \in Page : ~IsNone(m, v)' =>
       pte'[m][v] = pte[m][v] /\ (stage'[m] # "dying" => stage[m] # "dying")
  /\ \A m, n \in Mm : \A v, u \in Page :
       ~IsNone(m, v)' /\ ~IsNone(n, u)' /\ Folio(m, v)' = Folio(n, u)' => Folio(m, v) = Folio(n, u)
  /\ \A f \in Frame : excl'[f] =>
       excl[f] /\ \A m \in Mm, v \in Page : Of(m, v, f)' => Of(m, v, f)
  /\ \A f \in Frame : pin'[f] > 0 =>
       pin[f] > 0 /\ \A m \in Mm, v \in Page : Of(m, v, f)' => Of(m, v, f)
  /\ \A m \in Mm, v \in Page, f \in Frame : Maps(m, v, f)' =>
       (excl[f] => excl'[f]) /\ (Cut(m, f) => Cut(m, f)')

\* A folio stays in one address space if no other one gets an entry of it.
LEMMA SolesKept ==
  ASSUME MemInv, Base', FoliosKept
  PROVE  AlignedLive' /\ ExclSole' /\ KindSole' /\ PinnedSole' /\ HeadRo'
  <1>1. AlignedLive /\ ExclSole /\ KindSole /\ PinnedSole /\ HeadRo /\ Base
    BY MemKnown DEF FolioRights
  <1>2. AlignedLive'
    BY <1>1 DEF FoliosKept, AlignedLive, IsNone
  <1>3. ExclSole'
    <2> SUFFICES ASSUME NEW f \in Frame, excl'[f]
                 PROVE  Sole(f)'
      BY DEF ExclSole
    <2> QED
      BY <1>1 DEF FoliosKept, ExclSole, Sole
  <1>4. ASSUME NEW m \in Mm, NEW v \in Page, NEW f \in Frame, ~IsNone(m, v)', f = Folio(m, v)',
               NEW n \in Mm, NEW u \in Page, Of(n, u, f)'
        PROVE  Of(n, u, Folio(m, v)) /\ pte'[n][u] = pte[n][u]
    <2>1. ~IsNone(n, u)' /\ Folio(n, u)' = f
      BY <1>4 DEF Of
    <2>2. pte'[n][u] = pte[n][u] /\ Folio(n, u) = Folio(m, v)
      BY <1>4, <2>1 DEF FoliosKept
    <2> QED
      BY <2>1, <2>2 DEF Of, IsNone
  <1>5. KindSole'
    <2> SUFFICES ASSUME NEW m \in Mm, NEW v \in Page, pte'[m][v].k = "mig", pte'[m][v].p # "ro"
                 PROVE  Sole(Folio(m, v))'
      BY DEF KindSole
    <2>1. ~IsNone(m, v)' /\ pte'[m][v] = pte[m][v]
      BY DEF IsNone, FoliosKept
    <2>2. PICK f \in Frame : f = Folio(m, v)'
      BY <2>1, PresentNext
    <2>3. Sole(Folio(m, v))
      BY <1>1, <2>1 DEF KindSole
    <2>4. Sole(f)'
      BY <1>4, <2>1, <2>2, <2>3 DEF Sole
    <2> QED
      BY <2>2, <2>4 DEF Sole, Of
  <1>6. PinnedSole'
    <2> SUFFICES ASSUME NEW f \in Frame, pin'[f] > 0
                 PROVE  /\ Sole(f)'
                        /\ \A m \in Mm, v \in Page :
                             Maps(m, v, f)' /\ stage'[m] # "dying" => excl'[f] \/ Cut(m, f)'
      BY DEF PinnedSole
    <2>1. Sole(f)'
      BY <1>1 DEF FoliosKept, PinnedSole, Sole
    <2>2. ASSUME NEW m \in Mm, NEW v \in Page, Maps(m, v, f)', stage'[m] # "dying"
          PROVE  excl'[f] \/ Cut(m, f)'
      <3>1. pte'[m][v] = pte[m][v] /\ stage[m] # "dying"
        BY <2>2 DEF FoliosKept, Maps, IsNone
      <3>2. Maps(m, v, f)
        BY <2>2, <3>1 DEF Maps
      <3> QED
        BY <1>1, <2>2, <3>1, <3>2 DEF FoliosKept, PinnedSole
    <2> QED
      BY <2>1, <2>2
  <1>7. HeadRo'
    <2> SUFFICES ASSUME NEW m \in Mm, NEW v \in Page, pte'[m][v].k = "mig", SubOf(v) = 0,
                        pte'[m][v].p = "ro", stage'[m] # "dying"
                 PROVE  ~excl'[Folio(m, v)'] /\ ~(pin'[Folio(m, v)'] # 0) /\ AllRo(Folio(m, v))'
      BY DEF HeadRo
    <2>1. ~IsNone(m, v)' /\ pte'[m][v] = pte[m][v] /\ stage[m] # "dying"
      BY DEF IsNone, FoliosKept
    <2>2. PICK f \in Frame : f = Folio(m, v)'
      BY <2>1, PresentNext
    <2>3. ~excl[Folio(m, v)] /\ pin[Folio(m, v)] = 0 /\ AllRo(Folio(m, v))
      BY <1>1, <2>1 DEF HeadRo
    <2>4. Of(m, v, f)'
      BY <2>1, <2>2 DEF Of
    <2>5. ~excl'[f] /\ ~(pin'[f] > 0)
      BY <2>3, <2>4 DEF FoliosKept, Of
    <2>6. pin'[f] = 0
      <3>1. pin'[f] \in Nat
        BY DEF Base, OrphanInv, BookInv, IInv, TypeOK
      <3> QED
        BY <2>5, <3>1
    <2>7. AllRo(f)'
      BY <1>4, <2>1, <2>2, <2>3 DEF AllRo
    <2> QED
      BY <2>2, <2>5, <2>6, <2>7 DEF AllRo, Of
  <1> QED
    BY <1>2, <1>3, <1>5, <1>6, <1>7

\* The same beside a fork that stays where it is.
LEMMA RightsKept ==
  ASSUME MemInv, Base', FoliosKept, UNCHANGED fork,
         Forking => \A f \in Frame : pin[f] > 0 => pin'[f] > 0
  PROVE  FolioRights'
  <1>1. RwExcl /\ ForkRest /\ Base /\ TypeOK
    BY MemKnown DEF FolioRights
  <1>2. ASSUME NEW m \in Mm, NEW v \in Page, NEW f \in Frame, Maps(m, v, f)'
        PROVE  Maps(m, v, f) /\ pte'[m][v] = pte[m][v]
    <2>1. ~IsNone(m, v)'
      BY <1>2 DEF Maps, IsNone
    <2> QED
      BY <1>2, <2>1 DEF FoliosKept, Maps
  <1>3. ASSUME NEW m \in Mm, NEW v \in Page, Rw(m, v)'
        PROVE  /\ pte'[m][v] = pte[m][v] /\ Rw(m, v) /\ pte[m][v].f \in Frame
               /\ Maps(m, v, pte[m][v].f)
    <2>1. ~IsNone(m, v)'
      BY <1>3 DEF Rw, IsNone
    <2> QED
      BY <1>3, <2>1, PresentNext DEF FoliosKept, Rw, Maps
  <1>4. RwExcl'
    <2> SUFFICES ASSUME NEW m \in Mm, NEW v \in Page, Rw(m, v)'
                 PROVE  \/ excl'[pte'[m][v].f] \/ InRest(m, v)'
                        \/ Cut(m, pte[m][v].f)' /\ Sole(pte[m][v].f)'
      BY DEF RwExcl
    <2>1. PICK f \in Frame : f = pte[m][v].f /\ f = pte'[m][v].f
      BY <1>3
    <2>2. Maps(m, v, f) /\ Maps(m, v, f)' /\ Rw(m, v)
      BY <1>3, <2>1 DEF Maps
    <2>3. CASE excl[f]
      BY <2>1, <2>2, <2>3 DEF FoliosKept
    <2>4. CASE InRest(m, v)
      BY <2>4 DEF InRest, Forking
    <2>5. CASE Cut(m, f) /\ Sole(f)
      <3>1. Cut(m, f)'
        BY <2>2, <2>5 DEF FoliosKept
      <3>2. ~IsNone(m, v)' /\ Folio(m, v)' = f /\ Folio(m, v) = f
        BY <2>2 DEF Maps, IsNone, Folio
      <3>3. ASSUME NEW n \in Mm, NEW u \in Page, Of(n, u, f)'
            PROVE  Of(n, u, f)
        BY <3>2, <3>3 DEF FoliosKept, Of, IsNone
      <3>4. Sole(f)'
        BY <2>5, <3>3 DEF Sole
      <3> QED
        BY <2>1, <3>1, <3>4 DEF Cut, Sole, Of
    <2> QED
      BY <1>1, <2>1, <2>2, <2>3, <2>4, <2>5 DEF RwExcl
  <1>5. ForkRest'
    <2> SUFFICES ASSUME NEW v \in Page, Forking, Rw(fork.p, v)'
                 PROVE  /\ \A n \in Mm, u \in Page :
                             Maps(n, u, pte[fork.p][v].f)' => n \in {fork.p, fork.c}
                        /\ v < fork.pos => pin'[pte'[fork.p][v].f] > 0
      BY DEF ForkRest, Forking
    <2>1. fork.p \in Mm
      BY <1>1 DEF TypeOK
    <2>2. PICK f \in Frame : f = pte[fork.p][v].f /\ f = pte'[fork.p][v].f /\ Rw(fork.p, v)
      <3>1. PICK p \in Mm : p = fork.p /\ p = fork'.p
        BY <2>1
      <3> QED
        BY <1>3, <3>1 DEF Rw
    <2>3. /\ \A n \in Mm, u \in Page : Maps(n, u, f) => n \in {fork.p, fork.c}
          /\ v < fork.pos => pin[f] > 0
      BY <1>1, <2>2 DEF ForkRest
    <2>4. ASSUME NEW n \in Mm, NEW u \in Page, Maps(n, u, f)'
          PROVE  n \in {fork.p, fork.c}
      BY <1>2, <2>3, <2>4
    <2> QED
      BY <2>2, <2>3, <2>4 DEF Maps
  <1> QED
    BY <1>4, <1>5, SolesKept DEF FolioRights

\* A step that keeps the entries it does not remove, and what they stand for.
LEMMA QuietFolios ==
  ASSUME \A m \in Mm, v \in Page : ~IsNone(m, v)' =>
           /\ pte'[m][v] = pte[m][v] /\ Folio(m, v)' = Folio(m, v)
           /\ stage'[m] # "dying" => stage[m] # "dying",
         \A f \in Frame : (excl'[f] => excl[f]) /\ (pin'[f] > 0 => pin[f] > 0),
         \A m \in Mm, v \in Page, f \in Frame : Maps(m, v, f)' =>
           (excl[f] => excl'[f]) /\ (Cut(m, f) => Cut(m, f)')
  PROVE  FoliosKept
  <1>1. ASSUME NEW f \in Frame, NEW m \in Mm, NEW v \in Page, Of(m, v, f)'
        PROVE  Of(m, v, f)
    BY <1>1 DEF Of, IsNone
  <1>2. \A m, n \in Mm : \A v, u \in Page :
          ~IsNone(m, v)' /\ ~IsNone(n, u)' /\ Folio(m, v)' = Folio(n, u)' =>
            Folio(m, v) = Folio(n, u)
    OBVIOUS
  <1> QED
    BY <1>1, <1>2 DEF FoliosKept

\* What a fault knows stays true in a step that leaves the fault alone, writes
\* other folios than the fault's, makes neither exclusive, and gives nobody a
\* right to write the one it copies.
LEMMA FaultKept ==
  ASSUME MemInv, NEW t \in Context,
         \/ ctx'[t].st = "idle"
         \/ /\ ctx'[t] = ctx[t]
            /\ \A f \in Frame : \/ data'[f] = data[f] /\ (excl'[f] => excl[f])
                                \/ ctx[t].old # f /\ ctx[t].new # f
                                \/ data'[f] = data[f] /\ ctx[t].old # f
            /\ \A f \in Frame : f = ctx[t].old =>
                 \A m \in Mm, v \in Page : Of(m, v, f)' =>
                   pte'[m][v].p = "ro" \/ (Of(m, v, f) /\ pte'[m][v].p = pte[m][v].p)
  PROVE  FaultOK(t)'
  <1>1. FaultOK(t) /\ BookInv
    BY MemKnown
  <1>2. CASE ctx'[t].st = "idle"
    BY <1>2 DEF FaultOK, OldPlain, CopyData, AnonZero
  <1>3. CASE /\ ctx'[t] = ctx[t]
             /\ \A f \in Frame : \/ data'[f] = data[f] /\ (excl'[f] => excl[f])
                                 \/ ctx[t].old # f /\ ctx[t].new # f
                                 \/ data'[f] = data[f] /\ ctx[t].old # f
             /\ \A f \in Frame : f = ctx[t].old =>
                  \A m \in Mm, v \in Page : Of(m, v, f)' =>
                    pte'[m][v].p = "ro" \/ (Of(m, v, f) /\ pte'[m][v].p = pte[m][v].p)
    <2>1. OldPlain(t)'
      <3> SUFFICES ASSUME ctx[t].st \in {"wp", "wpc"}
                   PROVE  ~excl'[ctx'[t].old] /\ AllRo(ctx[t].old)'
        BY <1>3 DEF OldPlain
      <3>1. PICK f \in Frame : f = ctx[t].old /\ f = ctx'[t].old
        BY <1>1, <1>3, CtxFolios
      <3>2. ~excl[f] /\ AllRo(f)
        BY <1>1, <3>1 DEF FaultOK, OldPlain
      <3>3. ~excl'[f]
        BY <1>3, <3>1, <3>2
      <3>4. AllRo(f)'
        BY <1>3, <3>1, <3>2 DEF AllRo
      <3> QED
        BY <3>1, <3>3, <3>4 DEF AllRo, Of
    <2>2. CopyData(t)'
      <3> SUFFICES ASSUME ctx[t].st = "wpc"
                   PROVE  data'[ctx[t].new] = data'[ctx[t].old]
        BY <1>3 DEF CopyData
      <3>1. ctx[t].new \in Frame /\ ctx[t].old \in Frame
        BY <1>1, CtxFolios
      <3>2. data'[ctx[t].new] = data[ctx[t].new] /\ data'[ctx[t].old] = data[ctx[t].old]
        BY <1>3, <3>1
      <3> QED
        BY <1>1, <3>2 DEF FaultOK, CopyData
    <2>3. AnonZero(t)'
      <3> SUFFICES ASSUME ctx[t].st = "anon"
                   PROVE  data'[ctx[t].new] = ZeroFrame
        BY <1>3 DEF AnonZero, ZeroFrame
      <3>1. ctx[t].new \in Frame
        BY <1>1, CtxFolios
      <3> QED
        BY <1>1, <1>3, <3>1 DEF FaultOK, AnonZero
    <2> QED
      BY <2>1, <2>2, <2>3 DEF FaultOK
  <1> QED
    BY <1>2, <1>3

\* No fault starts in the parent of a fork while the fork runs.
LEMMA QuietKept ==
  ASSUME MemInv, UNCHANGED fork,
         \A m \in Mm : InFork(m) => stage'[m] = stage[m],
         \A t \in Context : (ctx'[t].m = ctx[t].m /\ ctx[t].st # "idle")
                            \/ ctx'[t].st = "idle" \/ ~InFork(ctx'[t].m)
  PROVE  ForkQuiet'
  <1>1. ForkQuiet /\ fork.p \in Mm /\ fork.c \in Mm
    BY MemKnown DEF TypeOK
  <1> QED
    BY <1>1 DEF ForkQuiet, InFork, Forking

\* What is left to restore is still what was there at the move, in a step that
\* restores nothing and writes neither folio.
LEMMA RestKept ==
  ASSUME MemInv, Base',
         mig'.ph = "restore" => mig.ph = "restore" /\ mig'.src = mig.src /\ mig'.to = mig.to,
         mig'.ph = "restore" =>
           \A f \in Frame : mig.ph = "restore" /\ f \in {mig.src, mig.to} => data'[f] = data[f],
         \A m \in Mm, v \in Page : pte'[m][v].k = "mig" =>
           pte'[m][v] = pte[m][v] /\ (stage'[m] # "dying" => stage[m] # "dying")
  PROVE  RestData'
  <1> SUFFICES ASSUME mig'.ph = "restore", NEW m \in Mm, NEW v \in Page,
                      pte'[m][v].k = "mig", stage'[m] # "dying"
               PROVE  data'[mig'.to][pte'[m][v].s] = data'[mig'.src][pte'[m][v].s]
    BY DEF RestData
  <1>1. pte[m][v].k = "mig" /\ pte'[m][v] = pte[m][v] /\ stage[m] # "dying"
    OBVIOUS
  <1>2. mig.to \in Frame /\ mig.src \in Frame
    BY <1>1, MemKnown, Present DEF IsNone
  <1> QED
    BY <1>1, <1>2, MemKnown DEF RestData

\* All of it together.
LEMMA MemNext ==
  ASSUME Base', FolioRights', ForkQuiet', RestData', \A t \in Context : FaultOK(t)'
  PROVE  MemInv'
  BY DEF MemInv, Rights

\* A step that puts folios, ends faults or drops pins, and does nothing else:
\* what it frees nobody maps, copies, migrates or pins.
LEMMA PutStep ==
  ASSUME MemInv, Base', NEW F, Put(F), UNCHANGED <<pte, fork, stage>>,
         mig' = mig \/ (mig.ph = "done" /\ mig'.ph = "idle"),
         \A t \in Context : ctx'[t] = ctx[t] \/ ctx'[t] = Idle,
         \A f \in Frame : pin'[f] > 0 => pin[f] > 0,
         Forking => UNCHANGED pin
  PROVE  MemInv'
  <1>1. BookInv /\ BookInv' /\ TypeOK /\ Base
    BY MemKnown DEF Base, OrphanInv
  <1>2. \A f \in Frame :
          \/ excl'[f] = excl[f] /\ data'[f] = data[f]
          \/ /\ ~excl'[f] /\ ~(pin'[f] > 0) /\ f \notin {mig'.src, mig'.dst}
             /\ \A t \in Context : ctx'[t].new # f /\ ctx'[t].old # f
             /\ \A m \in Mm, v \in Page : ~Maps(m, v, f)'
    BY <1>1, PutUnused
  <1>3. FolioRights'
    <2>1. \A m \in Mm, v \in Page : Folio(m, v)' = Folio(m, v)
      <3>1. CASE mig' = mig
        BY <3>1 DEF Folio
      <3>2. CASE mig.ph = "done" /\ mig'.ph = "idle"
        BY <3>2 DEF Folio
      <3> QED
        BY <3>1, <3>2
    <2>2. \A m \in Mm, v \in Page, f \in Frame : Maps(m, v, f)' =>
            (excl[f] => excl'[f]) /\ (Cut(m, f) => Cut(m, f)')
      BY <1>2 DEF Cut
    <2>3. FoliosKept
      BY <1>2, <2>1, <2>2, QuietFolios
    <2> QED
      BY <2>3, RightsKept
  <1>4. ForkQuiet'
    BY MemKnown DEF ForkQuiet, Forking, Idle
  <1>5. ASSUME NEW t \in Context
        PROVE  FaultOK(t)'
    <2>1. CASE ctx'[t] = Idle
      BY <2>1, FaultKept DEF Idle
    <2>2. CASE ctx'[t] = ctx[t]
      <3>1. \A f \in Frame : \/ data'[f] = data[f] /\ (excl'[f] => excl[f])
                             \/ ctx[t].old # f /\ ctx[t].new # f
        BY <1>2, <2>2
      <3>2. \A f \in Frame, m \in Mm, v \in Page : Of(m, v, f)' => Of(m, v, f)
        <4>1. CASE mig' = mig
          BY <4>1 DEF Of, Folio, IsNone
        <4>2. CASE mig.ph = "done" /\ mig'.ph = "idle"
          BY <4>2 DEF Of, Folio, IsNone
        <4> QED
          BY <4>1, <4>2
      <3> QED
        BY <2>2, <3>1, <3>2, FaultKept
    <2> QED
      BY <2>1, <2>2
  <1>6. RestData'
    <2>1. mig.ph = "restore" => mig.to \in {mig.src, mig.dst}
      BY MemKnown DEF MigBook
    <2>2. mig'.ph = "restore" =>
            \A f \in Frame : mig.ph = "restore" /\ f \in {mig.src, mig.to} => data'[f] = data[f]
      BY <1>2, <2>1
    <2>3. mig'.ph = "restore" => mig' = mig
      OBVIOUS
    <2> QED
      BY <2>2, <2>3, RestKept
  <1> QED
    BY <1>3, <1>4, <1>5, <1>6, MemNext

\* A step of one fault that changes no page table and no right to write, and
\* writes at most a folio nobody holds.
LEMMA FaultStep ==
  ASSUME MemInv, Base', UNCHANGED <<pte, excl, pin, fork, stage, mig>>, NEW t \in Context,
         \A s \in Context : s # t => ctx'[s] = ctx[s],
         \A f \in Frame : data'[f] = data[f] \/ Free(f),
         FaultOK(t)',
         (ctx'[t].m = ctx[t].m /\ ctx[t].st # "idle") \/ ~InFork(ctx'[t].m)
  PROVE  MemInv'
  <1>0. \A f \in Frame :
          \/ data'[f] = data[f]
          \/ /\ f \notin {mig.src, mig.dst}
             /\ \A s \in Context : ctx[s].old # f /\ ctx[s].new # f
    <2> SUFFICES ASSUME NEW f \in Frame, Free(f)
                 PROVE  f \notin {mig.src, mig.dst} /\ \A s \in Context : ctx[s].old # f /\ ctx[s].new # f
      OBVIOUS
    <2>1. BookInv
      BY MemKnown
    <2> QED
      BY <2>1, FreeAlone
  <1>1. FolioRights'
    <2>1. FoliosKept
      <3>1. \A m \in Mm, v \in Page : Folio(m, v)' = Folio(m, v)
        BY DEF Folio
      <3>2. \A m \in Mm, f \in Frame : Cut(m, f) => Cut(m, f)'
        BY DEF Cut
      <3> QED
        BY <3>1, <3>2, QuietFolios
    <2> QED
      BY <2>1, RightsKept
  <1>2. ForkQuiet'
    <2> SUFFICES ASSUME Forking
                 PROVE  /\ stage[fork.p] = "live" /\ stage[fork.c] = "embryo"
                        /\ \A s \in Context : ctx'[s].st # "idle" => ctx'[s].m # fork.p
      BY DEF ForkQuiet, Forking
    <2> QED
      BY MemKnown DEF ForkQuiet, InFork
  <1>3. ASSUME NEW s \in Context, s # t
        PROVE  FaultOK(s)'
    <2>1. \A f \in Frame : \/ data'[f] = data[f] /\ (excl'[f] => excl[f])
                           \/ ctx[s].old # f /\ ctx[s].new # f
      BY <1>0
    <2>2. \A f \in Frame, m \in Mm, v \in Page : Of(m, v, f)' => Of(m, v, f)
      BY DEF Of, Folio, IsNone
    <2> QED
      BY <1>3, <2>1, <2>2, FaultKept
  <1>4. RestData'
    <2>1. mig.ph = "restore" => mig.to \in {mig.src, mig.dst}
      BY MemKnown DEF MigBook
    <2>2. \A f \in Frame : mig.ph = "restore" /\ f \in {mig.src, mig.to} => data'[f] = data[f]
      BY <1>0, <2>1
    <2> QED
      BY <2>2, RestKept
  <1> QED
    BY <1>1, <1>2, <1>3, <1>4, MemNext

----------------------------------------------------------------------------
(* Faults *)

\* Only its own address space has entries of a folio somebody may write, and
\* where a fault may run nobody is at the folio's page table.
LEMMA RwSole ==
  ASSUME MemInv, NEW m \in Mm, NEW v \in Page, Rw(m, v), ~(Forking /\ m = fork.p)
  PROVE  /\ pte[m][v].f \in Frame /\ Of(m, v, pte[m][v].f) /\ Maps(m, v, pte[m][v].f)
         /\ Sole(pte[m][v].f) /\ (PtlFree(m) => excl[pte[m][v].f])
  <1>1. ~IsNone(m, v) /\ Maps(m, v, pte[m][v].f)
    BY DEF Rw, IsNone, Maps
  <1>2. pte[m][v].f \in Frame /\ Of(m, v, pte[m][v].f)
    BY <1>1, MemKnown, Present, MapsOf
  <1>3. excl[pte[m][v].f] \/ (Cut(m, pte[m][v].f) /\ Sole(pte[m][v].f))
    BY MemKnown DEF FolioRights, RwExcl, InRest
  <1>4. ExclSole
    BY MemKnown DEF FolioRights
  <1> QED
    BY <1>1, <1>2, <1>3, <1>4 DEF ExclSole, Cut, PtlFree

\* Whoever stores has a folio that no fault copies or is about to map.
LEMMA WriterAlone ==
  ASSUME MemInv, NEW m \in Mm, NEW v \in Page, Rw(m, v), NEW t \in Context
  PROVE  pte[m][v].f \in Frame /\ ctx[t].old # pte[m][v].f /\ ctx[t].new # pte[m][v].f
  <1> DEFINE f == pte[m][v].f
  <1>1. BookInv /\ TypeOK /\ CtxBook /\ FaultOK(t)
    BY MemKnown
  <1>2. Maps(m, v, f) /\ f \in Frame /\ Of(m, v, f)
    BY <1>1, EntryFields, MapsOf DEF Rw, Maps, TypeOK
  <1>3. ctx[t].new # f
    BY <1>1, <1>2, FreshAlone
  <1>4. ctx[t].old # f
    <2>1. CASE ctx[t].st \in {"wp", "wpc"}
      BY <1>1, <1>2, <2>1 DEF FaultOK, OldPlain, AllRo, Rw
    <2>2. CASE ctx[t].st \in {"idle", "anon"}
      BY <1>1, <1>2, <2>2, DataAssumption DEF CtxBook, Idle
    <2> QED
      BY <1>1, <2>1, <2>2, CtxFolios
  <1> QED
    BY <1>2, <1>3, <1>4

\* A store writes a folio that no fault copies and no migration has yet to
\* restore at the page it writes.
LEMMA StoreMem ==
  ASSUME MemInv, Base', NEW m \in Mm, NEW v \in Page, NEW x \in Val, Store(m, v, x)
  PROVE  MemInv'
  <1> DEFINE f == pte[m][v].f
  <1>1. /\ TypeOK /\ BookInv /\ Rw(m, v) /\ UNCHANGED <<pte, excl, pin, ctx, fork, stage, mig>>
        /\ data' = [data EXCEPT ![f] = [data[f] EXCEPT ![pte[m][v].s] = x]]
        /\ stage[m] = "live"
    BY MemKnown DEF Store, Rw
  <1>2. f \in Frame /\ \A s \in Context : ctx[s].old # f /\ ctx[s].new # f
    <2>1. ~IsNone(m, v) /\ Base
      BY <1>1, MemKnown DEF Rw, IsNone
    <2> QED
      BY <1>1, <2>1, WriterAlone, Present
  <1>3. /\ \A g \in Frame : g # f => data'[g] = data[g]
        /\ \A s \in Sub : s # pte[m][v].s => data'[f][s] = data[f][s]
    BY <1>1, <1>2 DEF TypeOK
  <1> HIDE DEF f
  <1>4. FolioRights'
    <2>1. FoliosKept
      <3>1. \A n \in Mm, u \in Page : Folio(n, u)' = Folio(n, u)
        BY <1>1 DEF Folio
      <3>2. \A n \in Mm, g \in Frame : Cut(n, g) => Cut(n, g)'
        BY <1>1 DEF Cut
      <3> QED
        BY <1>1, <3>1, <3>2, QuietFolios
    <2> QED
      BY <1>1, <2>1, RightsKept
  <1>5. ForkQuiet'
    BY <1>1, MemKnown DEF ForkQuiet, Forking
  <1>6. ASSUME NEW s \in Context
        PROVE  FaultOK(s)'
    <2>1. \A g \in Frame : \/ data'[g] = data[g] /\ (excl'[g] => excl[g])
                           \/ ctx[s].old # g /\ ctx[s].new # g
      BY <1>1, <1>2, <1>3
    <2>2. \A g \in Frame, n \in Mm, u \in Page : Of(n, u, g)' => Of(n, u, g)
      BY <1>1 DEF Of, Folio, IsNone
    <2> QED
      BY <1>1, <2>1, <2>2, FaultKept
  <1>7. RestData'
    <2> SUFFICES ASSUME mig.ph = "restore", NEW n \in Mm, NEW u \in Page,
                        pte[n][u].k = "mig", stage[n] # "dying"
                 PROVE  data'[mig.to][pte[n][u].s] = data'[mig.src][pte[n][u].s]
      BY <1>1 DEF RestData
    <2>1. /\ ~IsNone(n, u) /\ pte[n][u].f = mig.src /\ Folio(n, u) = mig.to
          /\ mig.to \in Frame /\ mig.src \in Frame /\ mig.to \in {mig.src, mig.dst}
          /\ pte[n][u].s \in Sub
      <3>1. ~IsNone(n, u) /\ Base
        BY MemKnown DEF IsNone
      <3> QED
        BY <3>1, Present
    <2>2. data[mig.to][pte[n][u].s] = data[mig.src][pte[n][u].s]
      BY MemKnown DEF RestData
    <2>3. CASE mig.to = mig.src
      BY <2>3
    <2>4. CASE mig.to # mig.src /\ f = mig.src
      <3>1. ref[mig.src] = 1
        BY <2>4, MemKnown DEF MigWalk, LoneSrc
      <3>2. ~Maps(m, v, mig.src)
        BY <1>1, <2>1, <3>1, LoneFolio
      <3> QED
        BY <1>1, <2>4, <3>2 DEF Maps, Rw, f
    <2>5. CASE f # mig.src /\ f = mig.to
      <3>1. ASSUME pte[n][u].s = pte[m][v].s
            PROVE  FALSE
        <4>1. ~IsNone(m, v) /\ Folio(m, v) = f /\ ~Forking
          BY <1>1, MemKnown DEF Rw, IsNone, Folio, f, Apart
        <4>2. u = v
          BY <1>1, <2>1, <2>5, <3>1, <4>1, SamePage
        <4>3. Sole(f) /\ Of(m, v, f)
          BY <1>1, <4>1, RwSole DEF f
        <4>4. n = m
          BY <1>2, <2>1, <2>5, <4>3 DEF Sole, Of
        <4> QED
          BY <1>1, <4>2, <4>4 DEF Rw
      <3> QED
        BY <1>3, <2>1, <2>2, <2>5, <3>1
    <2>6. CASE f # mig.src /\ f # mig.to
      BY <1>3, <2>1, <2>2, <2>6
    <2> QED
      BY <2>3, <2>4, <2>5, <2>6
  <1> QED
    BY <1>4, <1>5, <1>6, <1>7, MemNext

\* do_anonymous_page allocates a zeroed folio.
LEMMA AnonAllocMem ==
  ASSUME MemInv, Base', NEW t \in Context, NEW m \in Mm, NEW v \in Page, NEW f \in Frame,
         AnonAlloc(t, m, v, f)
  PROVE  MemInv'
  <1>1. /\ TypeOK /\ BookInv /\ UNCHANGED <<pte, excl, pin, fork, stage, mig>>
        /\ Free(f) /\ ~InFork(m)
        /\ ctx' = [ctx EXCEPT ![t] = [Idle EXCEPT !.st = "anon", !.m = m, !.v = v, !.new = f]]
        /\ data' = [data EXCEPT ![f] = ZeroFrame]
    BY MemKnown DEF AnonAlloc
  <1>3. /\ \A s \in Context : s # t => ctx'[s] = ctx[s]
        /\ ctx'[t].st = "anon" /\ ctx'[t].m = m /\ ctx'[t].new = f
    BY <1>1 DEF TypeOK, Idle
  <1>4. data'[f] = ZeroFrame /\ \A g \in Frame : g # f => data'[g] = data[g]
    BY <1>1 DEF TypeOK
  <1>5. FaultOK(t)'
    BY <1>3, <1>4 DEF FaultOK, OldPlain, CopyData, AnonZero, ZeroFrame
  <1> QED
    BY <1>1, <1>3, <1>4, <1>5, FaultStep

\* A folio a fault finds shared is nobody's to write, also not the parent's
\* of a fork, which the fork keeps from faulting, nor by a migration entry:
\* the walk that left it would hold the page-table lock.
LEMMA SharedPlain ==
  ASSUME MemInv, NEW m \in Mm, NEW v \in Page, NEW f \in Frame, Maps(m, v, f), ~excl[f],
         ~InFork(m), PtlFree(m)
  PROVE  AllRo(f)
  <1> SUFFICES ASSUME NEW n \in Mm, NEW u \in Page, Of(n, u, f), pte[n][u].p # "ro"
               PROVE  FALSE
    BY DEF AllRo
  <1>1. /\ RwExcl /\ ForkRest /\ KindSole /\ Base /\ MigWalk /\ MigEntries
    BY MemKnown DEF FolioRights
  <1>2. ~IsNone(n, u) /\ Folio(n, u) = f /\ Of(m, v, f) /\ pte[n][u].k \in {"map", "mig"}
    BY <1>1, Present, MapsOf DEF Of
  <1>3. CASE pte[n][u].k = "map"
    <2>1. Rw(n, u) /\ pte[n][u].f = f
      BY <1>1, <1>2, <1>3, Present DEF Rw
    <2>2. InRest(n, u) \/ (Cut(n, f) /\ Sole(f))
      BY <1>1, <2>1 DEF RwExcl
    <2>3. CASE InRest(n, u)
      <3>1. m \in {fork.p, fork.c}
        BY <1>1, <2>1, <2>3 DEF ForkRest, InRest
      <3> QED
        BY <2>3, <3>1 DEF InFork, InRest
    <2>4. CASE Cut(n, f) /\ Sole(f)
      <3>1. n = m
        BY <1>2, <2>4 DEF Sole, Of
      <3> QED
        BY <2>4, <3>1 DEF Cut, PtlFree
    <2> QED
      BY <2>2, <2>3, <2>4
  <1>4. CASE pte[n][u].k = "mig"
    <2>1. n = m
      BY <1>1, <1>2, <1>4 DEF KindSole, Sole, Of
    <2>2. mig.ph \in {"unmap", "move", "restore"} /\ mig.m \in Nat /\ m \in Nat
      BY <1>1, <1>4, MemKnown DEF MigEntries, TypeOK, MigType, Mm
    <2>3. CASE mig.ph = "unmap"
      <3>1. f = mig.src
        BY <1>1, <1>2, <1>4, <2>3, Present
      <3>2. m > mig.m \/ m = mig.m
        BY <1>1, <2>3, <3>1 DEF MigWalk, MapsAhead
      <3>3. m < mig.m \/ (m = mig.m /\ mig.held)
        BY <1>1, <1>4, <2>1, <2>3 DEF MigWalk, MigsBehind
      <3> QED
        BY <2>2, <3>2, <3>3 DEF PtlFree
    <2>4. CASE mig.ph = "move"
      <3>1. f = mig.src
        BY <1>1, <1>2, <1>4, <2>4, Present
      <3> QED
        BY <1>1, <2>4, <3>1 DEF MigWalk, MoveMaps
    <2>5. CASE mig.ph = "restore"
      <3>1. f = mig.to
        BY <1>1, <1>2, <1>4, <2>5, Present
      <3>2. m < mig.m \/ (m = mig.m /\ mig.held)
        BY <1>1, <1>4, <2>5, <3>1 DEF MigWalk, RestoredBehind
      <3>3. m > mig.m \/ m = mig.m
        BY <1>1, <1>4, <2>1, <2>5 DEF MigEntries
      <3> QED
        BY <2>2, <3>2, <3>3 DEF PtlFree
    <2> QED
      BY <2>2, <2>3, <2>4, <2>5
  <1> QED
    BY <1>2, <1>3, <1>4

\* A write fault goes on to copy a folio that nobody may write.
LEMMA WpFaultMem ==
  ASSUME MemInv, Base', NEW t \in Context, NEW m \in Mm, NEW v \in Page, WpFault(t, m, v)
  PROVE  MemInv'
  <1>1. /\ TypeOK /\ BookInv /\ UNCHANGED <<pte, excl, pin, fork, stage, data, mig>>
        /\ ~InFork(m) /\ PtlFree(m) /\ ~excl[pte[m][v].f] /\ pte[m][v].k = "map"
        /\ ctx' = [ctx EXCEPT ![t] = [Idle EXCEPT !.st = "wp", !.m = m, !.v = v,
                                                  !.old = pte[m][v].f, !.orig = pte[m][v]]]
    BY MemKnown DEF WpFault, WpFaulting, WpReusable
  <1>2. PICK f \in Frame : f = pte[m][v].f /\ Maps(m, v, f)
    BY <1>1, EntryFields DEF TypeOK, Maps
  <1>3. /\ \A s \in Context : s # t => ctx'[s] = ctx[s]
        /\ ctx'[t].st = "wp" /\ ctx'[t].m = m /\ ctx'[t].old = f
    BY <1>1, <1>2 DEF TypeOK, Idle
  <1>4. ~excl[f] /\ AllRo(f)
    BY <1>1, <1>2, SharedPlain
  <1>5. FaultOK(t)'
    <2>1. AllRo(f)'
      BY <1>1, <1>4 DEF AllRo, Of, IsNone, Folio
    <2>2. OldPlain(t)'
      BY <1>1, <1>3, <1>4, <2>1 DEF OldPlain, AllRo, Of
    <2> QED
      BY <1>3, <2>2 DEF FaultOK, CopyData, AnonZero
  <1> QED
    BY <1>1, <1>3, <1>5, FaultStep

\* wp_page_copy copies the whole kernel page.
LEMMA WpCopyMem ==
  ASSUME MemInv, Base', NEW t \in Context, NEW new \in Frame, WpCopy(t, new)
  PROVE  MemInv'
  <1>1. /\ TypeOK /\ BookInv /\ UNCHANGED <<pte, excl, pin, fork, stage, mig>>
        /\ Free(new) /\ ctx[t].st = "wp" /\ FaultOK(t)
        /\ ctx' = [ctx EXCEPT ![t] = [ctx[t] EXCEPT !.st = "wpc", !.new = new]]
        /\ data' = [data EXCEPT ![new] = data[ctx[t].old]]
    BY MemKnown DEF WpCopy
  <1>2. \A s \in Context : ctx[s].old # new /\ ctx[s].new # new
    BY <1>1, FreeAlone
  <1>3. PICK old \in Frame : old = ctx[t].old
    BY <1>1, CtxFolios
  <1>4. /\ \A s \in Context : s # t => ctx'[s] = ctx[s]
        /\ ctx'[t].st = "wpc" /\ ctx'[t].m = ctx[t].m /\ ctx'[t].old = old /\ ctx'[t].new = new
    BY <1>1, <1>3 DEF TypeOK, CtxType
  <1>5. data'[new] = data[old] /\ \A g \in Frame : g # new => data'[g] = data[g]
    BY <1>1, <1>3 DEF TypeOK
  <1>6. FaultOK(t)'
    <2>1. ~excl[old] /\ AllRo(old)
      BY <1>1, <1>3 DEF FaultOK, OldPlain
    <2>2. AllRo(old)'
      BY <1>1, <2>1 DEF AllRo, Of, IsNone, Folio
    <2>3. OldPlain(t)'
      BY <1>1, <1>4, <2>1, <2>2 DEF OldPlain, AllRo, Of
    <2>4. CopyData(t)'
      BY <1>2, <1>3, <1>4, <1>5 DEF CopyData
    <2> QED
      BY <1>4, <2>3, <2>4 DEF FaultOK, AnonZero
  <1> QED
    BY <1>1, <1>4, <1>5, <1>6, FaultStep

\* A folio nobody maps or migrates is mapped, by one address space.
LEMMA SolesFresh ==
  ASSUME MemInv, Base', NEW f \in Frame, NEW k \in Mm, UNCHANGED <<mig, stage, pin>>,
         \A n \in Mm, u \in Page : ~Maps(n, u, f), mig.src # f, mig.dst # f, pin[f] = 0,
         excl'[f], \A g \in Frame : g # f => excl'[g] = excl[g],
         \A n \in Mm, u \in Page :
           pte'[n][u] = pte[n][u] \/ (n = k /\ EntryIs(pte'[n][u], "map", f, SubOf(u), "rw"))
  PROVE  /\ AlignedLive' /\ ExclSole' /\ KindSole' /\ PinnedSole' /\ HeadRo'
         /\ \A n \in Mm, u \in Page, g \in Frame :
              Of(n, u, g)' => IF g = f THEN n = k ELSE Of(n, u, g) /\ pte'[n][u] = pte[n][u]
  <1>1. /\ AlignedLive /\ ExclSole /\ KindSole /\ PinnedSole /\ HeadRo /\ Base
    BY MemKnown DEF FolioRights
  <1>2. \A n \in Mm, u \in Page : ~Of(n, u, f)
    BY <1>1, OfNone
  <1>3. ASSUME NEW n \in Mm, NEW u \in Page, NEW g \in Frame, Of(n, u, g)'
        PROVE  IF g = f THEN n = k ELSE Of(n, u, g) /\ pte'[n][u] = pte[n][u]
    <2>1. CASE pte'[n][u] = pte[n][u]
      <3>1. Of(n, u, g)
        BY <1>3, <2>1 DEF Of, IsNone, Folio
      <3> QED
        BY <1>2, <2>1, <3>1
    <2>2. CASE n = k /\ EntryIs(pte'[n][u], "map", f, SubOf(u), "rw")
      <3>1. g = f
        BY <1>3, <2>2 DEF Of, Folio, EntryIs
      <3> QED
        BY <2>2, <3>1
    <2> QED
      BY <2>1, <2>2
  <1>4. AlignedLive'
    BY <1>1 DEF AlignedLive, IsNone, EntryIs
  <1>5. ExclSole'
    <2> SUFFICES ASSUME NEW g \in Frame, excl'[g]
                 PROVE  Sole(g)'
      BY DEF ExclSole
    <2>1. CASE g = f
      BY <1>3, <2>1 DEF Sole
    <2>2. CASE g # f
      BY <1>1, <1>3, <2>2 DEF ExclSole, Sole
    <2> QED
      BY <2>1, <2>2
  <1>6. ASSUME NEW m \in Mm, NEW v \in Page, pte'[m][v].k = "mig"
        PROVE  pte'[m][v] = pte[m][v] /\ Folio(m, v)' = Folio(m, v) /\ Folio(m, v) \in Frame \ {f}
    <2>1. pte'[m][v] = pte[m][v]
      BY <1>6 DEF EntryIs
    <2>2. ~IsNone(m, v)
      BY <1>6, <2>1 DEF IsNone
    <2> QED
      BY <1>1, <1>2, <2>1, <2>2, Present DEF Of, Folio
  <1>7. KindSole'
    <2> SUFFICES ASSUME NEW m \in Mm, NEW v \in Page, pte'[m][v].k = "mig", pte'[m][v].p # "ro"
                 PROVE  Sole(Folio(m, v))'
      BY DEF KindSole
    <2>1. PICK g \in Frame : g = Folio(m, v) /\ g = Folio(m, v)' /\ g # f
      BY <1>6
    <2>2. Sole(g)
      BY <1>1, <1>6, <2>1 DEF KindSole
    <2>3. Sole(g)'
      BY <1>3, <2>1, <2>2 DEF Sole
    <2> QED
      BY <2>1, <2>3 DEF Sole, Of
  <1>8. PinnedSole'
    <2> SUFFICES ASSUME NEW g \in Frame, pin[g] > 0
                 PROVE  /\ Sole(g)'
                        /\ \A m \in Mm, v \in Page :
                             Maps(m, v, g)' /\ stage[m] # "dying" => excl'[g] \/ Cut(m, g)'
      BY DEF PinnedSole
    <2>1. g # f
      OBVIOUS
    <2>2. Sole(g)'
      BY <1>1, <1>3, <2>1 DEF PinnedSole, Sole
    <2>3. ASSUME NEW m \in Mm, NEW v \in Page, Maps(m, v, g)', stage[m] # "dying"
          PROVE  excl'[g] \/ Cut(m, g)'
      <3>1. Maps(m, v, g)
        BY <2>1, <2>3 DEF Maps, EntryIs
      <3> QED
        BY <1>1, <2>1, <2>3, <3>1 DEF PinnedSole, Cut
    <2> QED
      BY <2>2, <2>3
  <1>9. HeadRo'
    <2> SUFFICES ASSUME NEW m \in Mm, NEW v \in Page, pte'[m][v].k = "mig", SubOf(v) = 0,
                        pte'[m][v].p = "ro", stage[m] # "dying"
                 PROVE  ~excl'[Folio(m, v)'] /\ pin[Folio(m, v)'] = 0 /\ AllRo(Folio(m, v))'
      BY DEF HeadRo
    <2>1. PICK g \in Frame : g = Folio(m, v) /\ g = Folio(m, v)' /\ g # f
      BY <1>6
    <2>2. ~excl[g] /\ pin[g] = 0 /\ AllRo(g)
      BY <1>1, <1>6, <2>1 DEF HeadRo
    <2>3. AllRo(g)'
      BY <1>3, <2>1, <2>2 DEF AllRo
    <2> QED
      BY <2>1, <2>2, <2>3 DEF AllRo, Of
  <1> QED
    BY <1>3, <1>4, <1>5, <1>7, <1>8, <1>9

\* A fault that maps its own folio: nobody else maps, copies or pins it.
LEMMA MapFresh ==
  ASSUME MemInv, Base', NEW t \in Context, NEW f \in Frame,
         ctx[t].st # "idle", ctx[t].new = f, ctx' = [ctx EXCEPT ![t] = Idle],
         excl' = [excl EXCEPT ![f] = TRUE], UNCHANGED <<data, pin, fork, stage, mig>>,
         \A n \in Mm, u \in Page :
           \/ pte'[n][u] = pte[n][u]
           \/ n = ctx[t].m /\ EntryIs(pte'[n][u], "map", f, SubOf(u), "rw")
  PROVE  MemInv'
  <1>1. /\ BookInv /\ TypeOK /\ RwExcl /\ ForkRest /\ ForkQuiet
    BY MemKnown DEF FolioRights
  <1>2. \A s \in Context : (s = t /\ ctx'[s] = Idle) \/ (s # t /\ ctx'[s] = ctx[s])
    BY <1>1 DEF TypeOK
  <1>3. /\ \A n \in Mm, u \in Page : ~Maps(n, u, f)
        /\ mig.src # f /\ mig.dst # f /\ pin[f] = 0
        /\ \A s \in Context : s # t => ctx[s].old # f /\ ctx[s].new # f
    BY <1>1, FreshAlone
  <1>4. PICK k \in Mm : k = ctx[t].m
    BY <1>1, CtxFolios
  <1>5. excl'[f] /\ \A g \in Frame : g # f => excl'[g] = excl[g]
    BY <1>1, Zenon DEF TypeOK
  <1>6. /\ AlignedLive' /\ ExclSole' /\ KindSole' /\ PinnedSole' /\ HeadRo'
        /\ \A n \in Mm, u \in Page, g \in Frame :
             Of(n, u, g)' => IF g = f THEN n = k ELSE Of(n, u, g) /\ pte'[n][u] = pte[n][u]
    <2>1. \A n \in Mm, u \in Page :
            pte'[n][u] = pte[n][u] \/ (n = k /\ EntryIs(pte'[n][u], "map", f, SubOf(u), "rw"))
      BY <1>4
    <2>2. UNCHANGED <<mig, stage, pin>>
      OBVIOUS
    <2> QED
      BY <1>3, <1>5, <2>1, <2>2, SolesFresh
  <1>7. RwExcl'
    <2> SUFFICES ASSUME NEW m \in Mm, NEW v \in Page, Rw(m, v)', ~excl'[pte'[m][v].f]
                 PROVE  InRest(m, v)' \/ (Cut(m, pte[m][v].f)' /\ Sole(pte[m][v].f)')
      BY DEF RwExcl
    <2>1. pte'[m][v] = pte[m][v] /\ Rw(m, v)
      BY <1>5 DEF Rw, EntryIs
    <2>2. PICK g \in Frame : g = pte[m][v].f /\ g = pte'[m][v].f
      BY <1>1, <2>1, EntryFields DEF Rw, TypeOK
    <2>3. g # f /\ ~excl[g]
      BY <1>5, <2>2
    <2>4. InRest(m, v) \/ (Cut(m, g) /\ Sole(g))
      BY <1>1, <2>1, <2>2, <2>3 DEF RwExcl
    <2>5. Sole(g) => Sole(g)'
      BY <1>6, <2>3 DEF Sole
    <2> QED
      BY <2>2, <2>4, <2>5 DEF InRest, Forking, Cut, Sole, Of
  <1>8. ForkRest'
    <2> SUFFICES ASSUME NEW v \in Page, Forking, Rw(fork.p, v)'
                 PROVE  /\ \A n \in Mm, u \in Page :
                             pte'[n][u].k = "map" /\ pte'[n][u].f = pte'[fork.p][v].f =>
                               n \in {fork.p, fork.c}
                        /\ v < fork.pos => pin[pte'[fork.p][v].f] > 0
      BY DEF ForkRest, Forking, Maps
    <2>1. fork.p \in Mm /\ k # fork.p
      BY <1>1, <1>4 DEF ForkQuiet, TypeOK
    <2>2. pte'[fork.p][v] = pte[fork.p][v] /\ Rw(fork.p, v) /\ pte[fork.p][v].f # f
      BY <1>3, <1>4, <2>1 DEF Rw, Maps
    <2> QED
      BY <1>1, <2>1, <2>2 DEF ForkRest, Maps, EntryIs
  <1>9. ForkQuiet'
    BY <1>1, <1>2 DEF ForkQuiet, Forking, Idle
  <1>10. ASSUME NEW s \in Context
         PROVE  FaultOK(s)'
    <2>1. CASE s = t
      BY <1>2, <2>1, FaultKept DEF Idle
    <2>2. CASE s # t
      <3>1. \A g \in Frame : \/ data'[g] = data[g] /\ (excl'[g] => excl[g])
                             \/ ctx[s].old # g /\ ctx[s].new # g
        BY <1>3, <1>5, <2>2
      <3>2. \A g \in Frame : g = ctx[s].old =>
              \A n \in Mm, u \in Page : Of(n, u, g)' => Of(n, u, g) /\ pte'[n][u].p = pte[n][u].p
        BY <1>3, <1>6, <2>2
      <3> QED
        BY <1>2, <2>2, <3>1, <3>2, FaultKept
    <2> QED
      BY <2>1, <2>2
  <1>11. RestData'
    <2>1. \A m \in Mm, v \in Page : pte'[m][v].k = "mig" => pte'[m][v] = pte[m][v]
      BY DEF EntryIs
    <2> QED
      BY <2>1, RestKept
  <1> QED
    BY <1>6, <1>7, <1>8, <1>9, <1>10, <1>11, MemNext DEF FolioRights

\* A folio reused in place is in one address space: it is exclusive, or it
\* has one reference, which is the PTE's.
LEMMA ReusedSole ==
  ASSUME MemInv, NEW m \in Mm, NEW v \in Page, NEW f \in Frame, Maps(m, v, f),
         excl[f] \/ ref[f] = 1
  PROVE  Sole(f)
  <1>1. CASE excl[f]
    BY <1>1, MemKnown DEF FolioRights, ExclSole
  <1>2. CASE ref[f] = 1
    <2>1. BookInv /\ Base
      BY MemKnown
    <2>2. f \notin {mig.src, mig.dst}
      BY <1>2, <2>1, MigHasTwo
    <2>3. ASSUME NEW n \in Mm, NEW u \in Page, Of(n, u, f)
          PROVE  n = m
      <3>1. ~IsNone(n, u) /\ Folio(n, u) = f
        BY <2>3 DEF Of
      <3>2. Maps(n, u, f)
        BY <2>1, <2>2, <3>1, Present
      <3> QED
        BY <1>2, <2>1, <3>2, OneSite
    <2> QED
      BY <2>3 DEF Sole
  <1> QED
    BY <1>1, <1>2

\* A folio reused in place has one owner, whom no fork is copying, and no
\* fault copies it: its reference would show.
LEMMA WpReuseMem ==
  ASSUME MemInv, Base', NEW t \in Context, NEW m \in Mm, NEW v \in Page, WpReuse(t, m, v)
  PROVE  MemInv'
  <1>1. /\ TypeOK /\ BookInv /\ Base /\ UNCHANGED <<pin, ctx, fork, stage, data, mig>>
        /\ ~InFork(m) /\ (excl[pte[m][v].f] \/ ref[pte[m][v].f] = 1)
        /\ RwExcl /\ ForkRest /\ ForkQuiet /\ PinnedSole /\ AlignedLive /\ ExclSole /\ KindSole /\ HeadRo
        /\ excl' = [excl EXCEPT ![pte[m][v].f] = TRUE] /\ stage[m] = "live"
        /\ pte[m][v].k = "map" /\ pte[m][v].p = "ro"
    BY MemKnown DEF WpReuse, WpFaulting, WpReusable, FolioRights
  <1>2. PICK f \in Frame :
          /\ f = pte[m][v].f /\ Maps(m, v, f)
          /\ EntryIs(pte'[m][v], "map", f, pte[m][v].s, "rw")
          /\ \A n \in Mm, u \in Page : (n # m \/ u # v) => pte'[n][u] = pte[n][u]
    BY <1>1, WpReuseAt
  <1>3. excl'[f] /\ \A g \in Frame : g # f => excl'[g] = excl[g]
    BY <1>1, <1>2, Zenon DEF TypeOK
  <1>4. \A n \in Mm, u \in Page : /\ pte'[n][u].k = pte[n][u].k /\ pte'[n][u].f = pte[n][u].f
                                  /\ pte'[n][u].s = pte[n][u].s
    BY <1>2 DEF EntryIs, Maps
  <1>5. /\ \A n \in Mm, u \in Page : IsNone(n, u)' = IsNone(n, u) /\ Folio(n, u)' = Folio(n, u)
        /\ \A n \in Mm, u \in Page, g \in Frame : Of(n, u, g)' = Of(n, u, g)
        /\ \A n \in Mm, u \in Page, g \in Frame : Maps(n, u, g)' = Maps(n, u, g)
    BY <1>1, <1>4 DEF IsNone, Folio, Of, Maps
  <1>6. Sole(f) /\ Of(m, v, f) /\ Folio(m, v) = f
    BY <1>1, <1>2, ReusedSole, MapsOf
  <1>7. \A g \in Frame : Sole(g)' = Sole(g)
    BY <1>5 DEF Sole
  <1>8. \A s \in Context : ctx[s].old # f
    <2> SUFFICES ASSUME NEW s \in Context, ctx[s].old = f PROVE FALSE
      OBVIOUS
    <2>1. ref[f] # 1
      BY <1>1, <1>2, OldHasTwo
    <2>2. ctx[s].st \in {"wp", "wpc"}
      BY <1>1, <1>2, CtxFolios, DataAssumption DEF BookInv, CtxBook, Idle
    <2>3. ~excl[f]
      BY <2>2, MemKnown DEF FaultOK, OldPlain
    <2> QED
      BY <1>1, <1>2, <2>1, <2>3
  <1>9. AlignedLive'
    BY <1>1, <1>4, <1>5 DEF AlignedLive
  <1>10. ExclSole'
    BY <1>1, <1>3, <1>6, <1>7 DEF ExclSole
  <1>11. KindSole'
    <2> SUFFICES ASSUME NEW n \in Mm, NEW u \in Page, pte'[n][u].k = "mig", pte'[n][u].p # "ro"
                 PROVE  Sole(Folio(n, u))'
      BY DEF KindSole
    <2>1. pte'[n][u] = pte[n][u] /\ ~IsNone(n, u)
      BY <1>2, <1>4 DEF EntryIs, IsNone
    <2>2. PICK g \in Frame : g = Folio(n, u) /\ g = Folio(n, u)'
      BY <1>1, <1>5, <2>1, Present
    <2>3. Sole(g)'
      BY <1>1, <1>7, <2>1, <2>2 DEF KindSole
    <2> QED
      BY <2>2, <2>3 DEF Sole, Of
  <1>12. PinnedSole'
    <2> SUFFICES ASSUME NEW g \in Frame, pin[g] > 0
                 PROVE  /\ Sole(g)'
                        /\ \A n \in Mm, u \in Page :
                             Maps(n, u, g)' /\ stage[n] # "dying" => excl'[g] \/ Cut(n, g)'
      BY <1>1 DEF PinnedSole
    <2> QED
      BY <1>1, <1>3, <1>5, <1>7 DEF PinnedSole, Cut
  <1>13. HeadRo'
    <2> SUFFICES ASSUME NEW n \in Mm, NEW u \in Page, pte'[n][u].k = "mig", SubOf(u) = 0,
                        pte'[n][u].p = "ro", stage[n] # "dying"
                 PROVE  ~excl'[Folio(n, u)'] /\ pin[Folio(n, u)'] = 0 /\ AllRo(Folio(n, u))'
      BY <1>1 DEF HeadRo
    <2>1. pte'[n][u] = pte[n][u] /\ ~IsNone(n, u)
      BY <1>2, <1>4 DEF EntryIs, IsNone
    <2>2. PICK g \in Frame : g = Folio(n, u) /\ g = Folio(n, u)'
      BY <1>1, <1>5, <2>1, Present
    <2>3. ~excl[g] /\ pin[g] = 0 /\ AllRo(g)
      BY <1>1, <2>1, <2>2 DEF HeadRo
    <2>4. g # f
      <3> SUFFICES ASSUME g = f PROVE FALSE
        OBVIOUS
      \* The folio has a migration entry: it is not exclusive, and a mapping
      \* is not its only reference.
      <3>1. ref[f] = 1
        BY <1>1, <1>2, <2>3
      <3>2. g \in {mig.src, mig.dst}
        <4>1. pte[n][u].k = "mig" /\ ~IsNone(n, u) /\ g = Folio(n, u)
          BY <2>1, <2>2
        <4>2. /\ mig.ph # "restore" => Folio(n, u) = mig.src
              /\ mig.ph = "restore" => Folio(n, u) = mig.to /\ mig.to \in {mig.src, mig.dst}
          BY <1>1, <4>1, Present
        <4> QED
          BY ONLY <4>1, <4>2
      <3> QED
        BY <1>1, <1>2, <3>1, <3>2, MigHasTwo
    <2>5. ~excl'[g]
      BY <1>3, <2>3, <2>4
    <2>6. AllRo(g)'
      <3> SUFFICES ASSUME NEW k \in Mm, NEW w \in Page, Of(k, w, g)'
                   PROVE  pte'[k][w].p = "ro"
        BY DEF AllRo
      <3>1. Of(k, w, g)
        BY <1>5
      <3>2. k # m \/ w # v
        BY <1>6, <2>4, <3>1 DEF Of
      <3> QED
        BY <1>2, <2>3, <3>1, <3>2 DEF AllRo
    <2> QED
      BY <2>2, <2>3, <2>5, <2>6 DEF AllRo, Of
  <1>14. RwExcl'
    <2> SUFFICES ASSUME NEW n \in Mm, NEW u \in Page, Rw(n, u)', ~excl'[pte'[n][u].f]
                 PROVE  InRest(n, u)' \/ (Cut(n, pte[n][u].f)' /\ Sole(pte[n][u].f)')
      BY DEF RwExcl
    <2>1. n # m \/ u # v
      BY <1>2, <1>3 DEF EntryIs
    <2>2. pte'[n][u] = pte[n][u] /\ Rw(n, u)
      BY <1>2, <2>1 DEF Rw
    <2>3. PICK g \in Frame : g = pte[n][u].f /\ g = pte'[n][u].f
      BY <1>1, <2>2, EntryFields DEF Rw, TypeOK
    <2>4. ~excl[g]
      BY <1>3, <2>3
    <2>5. InRest(n, u) \/ (Cut(n, g) /\ Sole(g))
      BY <1>1, <2>2, <2>3, <2>4 DEF RwExcl
    <2> QED
      BY <1>1, <1>7, <2>3, <2>5 DEF InRest, Forking, Cut, Sole, Of
  <1>15. ForkRest'
    <2> SUFFICES ASSUME NEW u \in Page, Forking, Rw(fork.p, u)'
                 PROVE  /\ \A n \in Mm, w \in Page :
                             pte'[n][w].k = "map" /\ pte'[n][w].f = pte'[fork.p][u].f =>
                               n \in {fork.p, fork.c}
                        /\ u < fork.pos => pin[pte'[fork.p][u].f] > 0
      BY <1>1 DEF ForkRest, Forking, Maps
    <2>1. fork.p \in Mm /\ fork.p # m
      BY <1>1 DEF InFork, TypeOK
    <2>2. Rw(fork.p, u) /\ pte'[fork.p][u] = pte[fork.p][u]
      BY <1>1, <1>2, <2>1 DEF Rw
    <2> QED
      BY <1>1, <1>4, <2>1, <2>2 DEF ForkRest, Maps
  <1>16. ForkQuiet'
    BY <1>1 DEF ForkQuiet, Forking
  <1>17. ASSUME NEW s \in Context
         PROVE  FaultOK(s)'
    <2>1. \A g \in Frame : g = ctx[s].old =>
            \A n \in Mm, u \in Page : Of(n, u, g)' => Of(n, u, g) /\ pte'[n][u].p = pte[n][u].p
      <3> SUFFICES ASSUME NEW g \in Frame, g = ctx[s].old, NEW n \in Mm, NEW u \in Page, Of(n, u, g)'
                   PROVE  Of(n, u, g) /\ pte'[n][u].p = pte[n][u].p
        OBVIOUS
      <3>1. Of(n, u, g) /\ g # f
        BY <1>5, <1>8
      <3>2. n # m \/ u # v
        BY <1>6, <3>1 DEF Of
      <3> QED
        BY <1>2, <3>1, <3>2
    <2>2. \A g \in Frame : \/ data'[g] = data[g] /\ (excl'[g] => excl[g])
                           \/ data'[g] = data[g] /\ ctx[s].old # g
      BY <1>1, <1>3, <1>8
    <2> QED
      BY <1>1, <2>1, <2>2, FaultKept
  <1>18. RestData'
    <2>1. \A n \in Mm, u \in Page : pte'[n][u].k = "mig" => pte'[n][u] = pte[n][u]
      BY <1>2 DEF EntryIs
    <2> QED
      BY <1>1, <2>1, RestKept
  <1> QED
    BY <1>9, <1>10, <1>11, <1>12, <1>13, <1>14, <1>15, <1>16, <1>17, <1>18, MemNext DEF FolioRights

\* Faults and stores.
LEMMA FaultMem ==
  ASSUME MemInv, Base', FaultNext
  PROVE  MemInv'
  <1>0. BookInv /\ TypeOK /\ AlignedLive
    BY MemKnown DEF FolioRights
  <1>1. ASSUME NEW t \in Context, AnonMap(t)
        PROVE  MemInv'
    <2>1. /\ ctx[t].st # "idle" /\ ctx' = [ctx EXCEPT ![t] = Idle]
          /\ excl' = [excl EXCEPT ![ctx[t].new] = TRUE] /\ UNCHANGED <<data, pin, fork, stage, mig>>
      BY <1>1 DEF AnonMap
    <2>2. /\ ctx[t].new \in Frame
          /\ \A n \in Mm, u \in Page :
              \/ pte'[n][u] = pte[n][u]
              \/ n = ctx[t].m /\ EntryIs(pte'[n][u], "map", ctx[t].new, SubOf(u), "rw")
      BY <1>0, <1>1, AnonMapAt
    <2> QED
      BY <2>1, <2>2, MapFresh
  <1>2. ASSUME NEW t \in Context, WpCommit(t)
        PROVE  MemInv'
    <2>1. /\ ctx[t].st # "idle" /\ ctx' = [ctx EXCEPT ![t] = Idle]
          /\ excl' = [excl EXCEPT ![ctx[t].new] = TRUE] /\ UNCHANGED <<data, pin, fork, stage, mig>>
      BY <1>2 DEF WpCommit
    <2>2. /\ ctx[t].new \in Frame /\ stage[ctx[t].m] = "live"
          /\ \A n \in Mm, u \in Page :
              \/ pte'[n][u] = pte[n][u]
              \/ /\ n = ctx[t].m /\ Maps(n, u, ctx[t].old)
                 /\ EntryIs(pte'[n][u], "map", ctx[t].new, pte[n][u].s, "rw")
      BY <1>0, <1>2, WpCommitAt
    <2>3. ASSUME NEW n \in Mm, NEW u \in Page, n = ctx[t].m, Maps(n, u, ctx[t].old)
          PROVE  pte[n][u].s = SubOf(u)
      BY <1>0, <2>2, <2>3 DEF AlignedLive, Maps, IsNone
    <2>4. \A n \in Mm, u \in Page :
              \/ pte'[n][u] = pte[n][u]
              \/ n = ctx[t].m /\ EntryIs(pte'[n][u], "map", ctx[t].new, SubOf(u), "rw")
      BY <2>2, <2>3
    <2> QED
      BY <2>1, <2>2, <2>4, MapFresh
  <1>3. ASSUME NEW t \in Context, AnonStale(t) \/ WpOom(t) \/ WpStale(t)
        PROVE  MemInv'
    <2>1. /\ UNCHANGED <<pte, pin, fork, stage, mig>> /\ ctx' = [ctx EXCEPT ![t] = Idle]
          /\ \E F \in SUBSET {ctx[t].old, ctx[t].new} : Put(F)
      BY <1>3 DEF AnonStale, WpOom, WpStale
    <2>2. \A s \in Context : ctx'[s] = ctx[s] \/ ctx'[s] = Idle
      BY <1>0, <2>1 DEF TypeOK
    <2> QED
      BY <2>1, <2>2, PutStep
  <1> QED
    BY <1>1, <1>2, <1>3, StoreMem, AnonAllocMem, WpFaultMem, WpCopyMem, WpReuseMem DEF FaultNext

----------------------------------------------------------------------------
(* Fork, zap and pins *)

\* While a fork runs nothing is migrated.
LEMMA ForkIdle ==
  ASSUME MemInv, Forking
  PROVE  /\ mig.ph = "idle" /\ \A m \in Mm, v \in Page : pte[m][v].k # "mig"
         /\ \A m, f : ~Cut(m, f)
         /\ \A m \in Mm, v \in Page, f \in Frame : Of(m, v, f) <=> Maps(m, v, f)
         /\ RwExcl => \A m \in Mm, v \in Page : Rw(m, v) => excl[pte[m][v].f] \/ InRest(m, v)
  <1>1. mig.ph = "idle" /\ Base
    BY MemKnown DEF Apart
  <1>2. \A m \in Mm, v \in Page : pte[m][v].k # "mig"
    BY <1>1, MemKnown DEF MigEntries
  <1>3. \A m, f : ~Cut(m, f)
    BY <1>1 DEF Cut
  <1>4. \A m \in Mm, v \in Page, f \in Frame : Of(m, v, f) <=> Maps(m, v, f)
    <2> SUFFICES ASSUME NEW m \in Mm, NEW v \in Page, NEW f \in Frame
                 PROVE  Of(m, v, f) <=> Maps(m, v, f)
      OBVIOUS
    <2>1. IsNone(m, v) => ~Of(m, v, f) /\ ~Maps(m, v, f)
      BY DEF Of, IsNone, Maps
    <2>2. ~IsNone(m, v) => pte[m][v].k = "map" /\ Folio(m, v) = pte[m][v].f
      BY <1>1, <1>2, Present
    <2> QED
      BY <2>1, <2>2 DEF Of, Maps
  <1> QED
    BY <1>1, <1>2, <1>3, <1>4 DEF RwExcl

\* A batch shared by a fork may be written on neither side, and what is left
\* to write of its folio is ahead of the fork: behind it the parent writes
\* only folios the fork did not share.
LEMMA ForkShareMem ==
  ASSUME MemInv, Base', NEW v \in Page, ForkShare(v)
  PROVE  MemInv'
  <1> DEFINE p == fork.p  c == fork.c  f == pte[p][v].f
  <1>1. /\ TypeOK /\ BookInv /\ Base /\ UNCHANGED <<pin, ctx, stage, data, mig>>
        /\ RwExcl /\ ForkRest /\ ForkQuiet /\ PinnedSole /\ ExclSole /\ AlignedLive
        /\ excl' = [excl EXCEPT ![f] = FALSE]
    BY MemKnown DEF FolioRights, ForkShare, ExclAfterDup
  <1>2. /\ p \in Mm /\ c \in Mm /\ p # c /\ fork.pos = v /\ Forking
        /\ Maps(p, v, f) /\ f \in Frame /\ ~MustCopy(f)
        /\ fork'.p = p /\ fork'.c = c
        /\ fork'.pos \in Nat /\ v < fork'.pos
        /\ \A n \in Mm, u \in Page :
             IF n \in {p, c} /\ v <= u /\ u < fork'.pos
             THEN /\ Maps(p, u, f) /\ IsNone(c, u)
                  /\ EntryIs(pte'[n][u], "map", f, pte[p][u].s, "ro")
             ELSE pte'[n][u] = pte[n][u]
    BY <1>1, ForkShareAt
  <1>3. /\ v \in Nat /\ \A u \in Page : u \in Nat
        /\ Forking /\ fork.pos = v /\ fork.p = p /\ fork.c = c
        /\ Forking' /\ fork'.p = p /\ fork'.c = c
        /\ mig.ph = "idle" /\ \A m \in Mm, u \in Page : pte[m][u].k # "mig"
        /\ \A m, g : ~Cut(m, g)
        /\ \A m \in Mm, u \in Page : Rw(m, u) => excl[pte[m][u].f] \/ InRest(m, u)
        /\ \A m \in Mm, u \in Page, g \in Frame : Of(m, u, g) <=> Maps(m, u, g)
    BY <1>1, <1>2, PageNat, ForkIdle DEF Forking
  <1> HIDE DEF p, c, f
  <1>4. ~excl'[f] /\ \A g \in Frame : g # f => excl'[g] = excl[g]
    BY <1>1, <1>2, Zenon DEF TypeOK
  <1>5. pin[f] = 0
    <2>1. stage[p] # "dying"
      BY <1>1, <1>3 DEF ForkQuiet
    <2> QED
      BY <1>1, <1>2, <1>3, <2>1 DEF PinnedSole, MustCopy, TypeOK
  <1>6. ASSUME NEW m \in Mm, NEW u \in Page, Rw(m, u)'
        PROVE  /\ pte'[m][u] = pte[m][u] /\ Rw(m, u) /\ pte[m][u].f \in Frame
               /\ ~(m \in {p, c} /\ v <= u /\ u < fork'.pos)
    <2>1. ~(m \in {p, c} /\ v <= u /\ u < fork'.pos)
      BY <1>2, <1>6 DEF Rw, EntryIs
    <2>2. pte'[m][u] = pte[m][u]
      BY <1>2, <2>1
    <2> QED
      BY <1>1, <1>6, <2>1, <2>2, EntryFields DEF Rw, TypeOK
  <1>7. RwExcl'
    <2> SUFFICES ASSUME NEW m \in Mm, NEW u \in Page, Rw(m, u)', ~excl'[pte'[m][u].f]
                 PROVE  m = p /\ u >= fork'.pos
      BY <1>2, <1>3 DEF RwExcl, InRest
    <2>1. /\ pte'[m][u] = pte[m][u] /\ Rw(m, u) /\ pte[m][u].f \in Frame
          /\ ~(m \in {p, c} /\ v <= u /\ u < fork'.pos)
      BY <1>6
    <2>2. CASE InRest(m, u)
      <3>1. m = p /\ u >= v
        BY <1>3, <2>2 DEF InRest
      <3> QED
        BY <1>2, <1>3, <2>1, <3>1
    <2>3. CASE ~InRest(m, u)
      \* The folio was exclusive: it is the one the batch is of.
      <3>1. excl[pte[m][u].f]
        BY <1>3, <2>1, <2>3
      <3>2. pte[m][u].f = f /\ excl[f]
        BY <1>4, <2>1, <3>1
      <3>3. m = p
        <4>1. Maps(m, u, f) /\ Maps(p, v, f) /\ excl[f] /\ f \in Frame /\ p \in Mm /\ v \in Page
          BY <1>2, <2>1, <3>2 DEF Maps, Rw
        <4> QED
          BY <1>1, <1>3, <4>1 DEF ExclSole, Sole
      <3>4. u < v
        <4>1. ~(u >= fork.pos)
          BY <1>3, <2>3, <3>3, Zenon DEF InRest
        <4>2. fork.pos = v /\ v \in Nat /\ u \in Nat
          BY <1>3, Zenon
        <4> QED
          BY ONLY <4>1, <4>2
      <3>5. pin[f] > 0
        BY <1>1, <1>3, <2>1, <3>2, <3>3, <3>4 DEF ForkRest
      <3> QED
        BY <1>5, <3>5
    <2> QED
      BY <2>2, <2>3
  <1>8. ForkRest'
    <2> SUFFICES ASSUME NEW u \in Page, pte'[p][u].k = "map", pte'[p][u].p = "rw"
                 PROVE  /\ \A n \in Mm, w \in Page :
                             pte'[n][w].k = "map" /\ pte'[n][w].f = pte'[p][u].f => n \in {p, c}
                        /\ u < fork'.pos => pin[pte'[p][u].f] > 0
      BY <1>1, <1>2, <1>3 DEF ForkRest, Maps, Rw
    <2> DEFINE g == pte[p][u].f
    <2>1. pte'[p][u] = pte[p][u] /\ Rw(p, u) /\ ~(v <= u /\ u < fork'.pos)
      <3>1. ~(v <= u /\ u < fork'.pos)
        BY <1>2 DEF EntryIs
      <3>2. pte'[p][u] = pte[p][u]
        BY <1>2, <3>1
      <3> QED
        BY <3>1, <3>2 DEF Rw
    <2>2. /\ \A n \in Mm, w \in Page : Maps(n, w, g) => n \in {p, c}
          /\ u < v => pin[g] > 0
      BY <1>1, <1>3, <2>1 DEF ForkRest
    <2>3. ASSUME NEW n \in Mm, NEW w \in Page, pte'[n][w].k = "map", pte'[n][w].f = g
          PROVE  n \in {p, c}
      <3>1. CASE n \in {p, c} /\ v <= w /\ w < fork'.pos
        BY <3>1
      <3>2. CASE ~(n \in {p, c} /\ v <= w /\ w < fork'.pos)
        BY <1>2, <2>2, <2>3, <3>2 DEF Maps
      <3> QED
        BY <3>1, <3>2
    <2>4. u < fork'.pos => pin[g] > 0
      <3>1. u \in Nat /\ v \in Nat
        BY <1>3
      <3> QED
        BY <2>1, <2>2, <3>1
    <2> QED
      BY <2>1, <2>3, <2>4
  <1>9. ForkQuiet'
    BY <1>1, <1>3 DEF ForkQuiet
  \* Of another folio than that of the batch nothing changes.
  <1>10. ASSUME NEW n \in Mm, NEW w \in Page, NEW g \in Frame, Of(n, w, g)'
         PROVE  /\ g # f => Of(n, w, g) /\ pte'[n][w] = pte[n][w]
                /\ g = f => (Of(n, w, g) /\ pte'[n][w] = pte[n][w]) \/ pte'[n][w].p = "ro"
    <2>1. CASE n \in {p, c} /\ v <= w /\ w < fork'.pos
      <3>1. EntryIs(pte'[n][w], "map", f, pte[p][w].s, "ro")
        BY <1>2, <2>1
      <3> QED
        BY <1>10, <3>1 DEF Of, Folio, EntryIs
    <2>2. CASE ~(n \in {p, c} /\ v <= w /\ w < fork'.pos)
      <3>1. pte'[n][w] = pte[n][w]
        BY <1>2, <2>2
      <3> QED
        BY <1>1, <1>10, <3>1 DEF Of, Folio, IsNone
    <2> QED
      BY <2>1, <2>2
  <1>11. \A n \in Mm, w \in Page : pte'[n][w].k # "mig"
    BY <1>2, <1>3 DEF EntryIs
  <1>12. AlignedLive'
    <2> SUFFICES ASSUME NEW n \in Mm, NEW w \in Page, pte'[n][w].k # "none", stage[n] # "dying"
                 PROVE  pte'[n][w].s = SubOf(w)
      BY <1>1 DEF AlignedLive, IsNone
    <2>1. stage[p] # "dying"
      BY <1>1, <1>3 DEF ForkQuiet
    <2>2. CASE n \in {p, c} /\ v <= w /\ w < fork'.pos
      <3>1. Maps(p, w, f) /\ pte'[n][w].s = pte[p][w].s
        BY <1>2, <2>2 DEF EntryIs
      <3> QED
        BY <1>1, <1>2, <2>1, <3>1 DEF AlignedLive, Maps, IsNone
    <2>3. CASE ~(n \in {p, c} /\ v <= w /\ w < fork'.pos)
      <3>1. pte'[n][w] = pte[n][w]
        BY <1>2, <2>3
      <3> QED
        BY <1>1, <3>1 DEF AlignedLive, IsNone
    <2> QED
      BY <2>2, <2>3
  <1>13. ExclSole'
    <2> SUFFICES ASSUME NEW g \in Frame, excl'[g]
                 PROVE  Sole(g)'
      BY DEF ExclSole
    <2> QED
      BY <1>1, <1>4, <1>10 DEF ExclSole, Sole
  <1>14. KindSole' /\ HeadRo'
    BY <1>11 DEF KindSole, HeadRo
  <1>15. PinnedSole'
    <2> SUFFICES ASSUME NEW g \in Frame, pin[g] > 0
                 PROVE  /\ Sole(g)'
                        /\ \A m \in Mm, w \in Page :
                             Maps(m, w, g)' /\ stage[m] # "dying" => excl'[g] \/ Cut(m, g)'
      BY <1>1 DEF PinnedSole
    <2>1. g # f
      BY <1>5
    <2>2. Sole(g)'
      BY <1>1, <1>10, <2>1 DEF PinnedSole, Sole
    <2>3. ASSUME NEW m \in Mm, NEW w \in Page, Maps(m, w, g)', stage[m] # "dying"
          PROVE  excl'[g] \/ Cut(m, g)'
      <3>1. Maps(m, w, g)
        <4>1. pte'[m][w] = pte[m][w]
          BY <1>2, <2>1, <2>3 DEF Maps, EntryIs
        <4> QED
          BY <2>3, <4>1 DEF Maps
      <3>2. excl[g]
        BY <1>1, <1>3, <2>3, <3>1 DEF PinnedSole
      <3> QED
        BY <1>4, <2>1, <3>2
    <2> QED
      BY <2>2, <2>3
  <1>16. ASSUME NEW s \in Context
         PROVE  FaultOK(s)'
    <2>1. \A g \in Frame : g = ctx[s].old =>
            \A n \in Mm, w \in Page : Of(n, w, g)' =>
              pte'[n][w].p = "ro" \/ (Of(n, w, g) /\ pte'[n][w].p = pte[n][w].p)
      BY <1>10
    <2>2. \A g \in Frame : data'[g] = data[g] /\ (excl'[g] => excl[g])
      BY <1>1, <1>4
    <2> QED
      BY <1>1, <2>1, <2>2, FaultKept
  <1>17. RestData'
    BY <1>1, <1>3 DEF RestData
  <1> QED
    BY <1>7, <1>8, <1>9, <1>12, <1>13, <1>14, <1>15, <1>16, <1>17, MemNext DEF FolioRights

\* A page copied for a pin is the child's own; the parent's stays pinned.
LEMMA ForkCopyMem ==
  ASSUME MemInv, Base', NEW v \in Page, NEW new \in Frame, ForkCopy(v, new)
  PROVE  MemInv'
  <1> DEFINE p == fork.p  c == fork.c  f == pte[p][v].f
  <1>1. /\ TypeOK /\ BookInv /\ UNCHANGED <<pin, ctx, stage, mig>>
        /\ RwExcl /\ ForkRest /\ ForkQuiet /\ AlignedLive
        /\ excl' = [excl EXCEPT ![new] = TRUE] /\ data' = [data EXCEPT ![new] = data[f]]
    BY MemKnown DEF FolioRights, ForkCopy
  <1>2. /\ p \in Mm /\ c \in Mm /\ p # c /\ fork.pos = v /\ Forking
        /\ f \in Frame /\ excl[f] /\ pin[f] > 0 /\ Free(new) /\ Maps(p, v, f)
        /\ fork'.p = p /\ fork'.c = c /\ fork'.pos = v + 1
        /\ EntryIs(pte'[c][v], "map", new, pte[p][v].s, "rw")
        /\ \A n \in Mm, u \in Page : (n # c \/ u # v) => pte'[n][u] = pte[n][u]
    BY <1>1, ForkCopyAt DEF MustCopy
  <1>3. /\ v \in Nat /\ \A u \in Page : u \in Nat
        /\ Forking /\ fork.pos = v /\ fork.p = p /\ fork.c = c
        /\ Forking' /\ fork'.p = p /\ fork'.c = c
        /\ mig.ph = "idle" /\ \A m \in Mm, u \in Page : Rw(m, u) => excl[pte[m][u].f] \/ InRest(m, u)
    BY <1>1, <1>2, PageNat, ForkIdle DEF Forking
  <1>4. excl'[new] /\ \A g \in Frame : g # new => excl'[g] = excl[g] /\ data'[g] = data[g]
    BY <1>1, Zenon DEF TypeOK
  <1>5. /\ \A n \in Mm, u \in Page : ~Maps(n, u, new)
        /\ \A s \in Context : ctx[s].old # new /\ ctx[s].new # new
        /\ mig.src # new /\ mig.dst # new /\ pin[new] = 0
    BY <1>1, <1>2, FreeAlone
  <1> HIDE DEF p, c, f
  <1>6. RwExcl'
    <2> SUFFICES ASSUME NEW m \in Mm, NEW u \in Page, Rw(m, u)', ~excl'[pte'[m][u].f]
                 PROVE  m = p /\ u >= v + 1
      BY <1>2, <1>3 DEF RwExcl, InRest
    <2>1. pte'[m][u] = pte[m][u] /\ Rw(m, u)
      BY <1>2, <1>4 DEF Rw, EntryIs
    <2>2. pte[m][u].f \in Frame /\ ~excl[pte[m][u].f]
      <3>1. pte[m][u].f \in Frame /\ pte[m][u].f # new
        BY <1>1, <1>5, <2>1, EntryFields DEF Rw, Maps, TypeOK
      <3> QED
        BY <1>4, <2>1, <3>1
    <2>3. m = p /\ u >= v
      BY <1>3, <2>1, <2>2 DEF InRest
    <2>4. u # v /\ u \in Nat /\ v \in Nat
      BY <1>2, <1>3, <2>2, <2>3 DEF f
    <2> QED
      BY <2>3, <2>4
  <1>7. ForkRest'
    <2> SUFFICES ASSUME NEW u \in Page, pte'[p][u].k = "map", pte'[p][u].p = "rw"
                 PROVE  /\ \A n \in Mm, w \in Page :
                             pte'[n][w].k = "map" /\ pte'[n][w].f = pte'[p][u].f => n \in {p, c}
                        /\ u < v + 1 => pin[pte'[p][u].f] > 0
      BY <1>1, <1>2, <1>3 DEF ForkRest, Maps, Rw
    <2>1. pte'[p][u] = pte[p][u] /\ Rw(p, u) /\ pte[p][u].f # new
      BY <1>2, <1>5 DEF Rw, Maps
    <2>2. /\ \A n \in Mm, w \in Page : Maps(n, w, pte[p][u].f) => n \in {p, c}
          /\ u < v => pin[pte[p][u].f] > 0
      BY <1>1, <1>3, <2>1 DEF ForkRest
    <2>3. \A n \in Mm, w \in Page :
            pte'[n][w].k = "map" /\ pte'[n][w].f = pte[p][u].f => n \in {p, c}
      BY <1>2, <2>1, <2>2 DEF Maps, EntryIs
    <2>4. u < v + 1 => pin[pte[p][u].f] > 0
      BY <1>2, <1>3, <2>2 DEF f
    <2> QED
      BY <2>1, <2>3, <2>4
  <1>8. ForkQuiet'
    BY <1>1, <1>3 DEF ForkQuiet
  <1>9. pte[p][v].s = SubOf(v)
    <2>1. stage[p] # "dying"
      BY <1>1, <1>3 DEF ForkQuiet
    <2> QED
      BY <1>1, <1>2, <2>1 DEF AlignedLive, Maps, IsNone
  <1>10. /\ AlignedLive' /\ ExclSole' /\ KindSole' /\ PinnedSole' /\ HeadRo'
         /\ \A n \in Mm, u \in Page, g \in Frame :
              Of(n, u, g)' => IF g = new THEN n = c ELSE Of(n, u, g) /\ pte'[n][u] = pte[n][u]
    <2>1. \A n \in Mm, u \in Page :
            pte'[n][u] = pte[n][u] \/ (n = c /\ EntryIs(pte'[n][u], "map", new, SubOf(u), "rw"))
      BY <1>2, <1>9
    <2>2. UNCHANGED <<mig, stage, pin>>
      BY <1>1
    <2> QED
      BY <1>2, <1>4, <1>5, <2>1, <2>2, SolesFresh
  <1>11. ASSUME NEW s \in Context
         PROVE  FaultOK(s)'
    <2>1. \A g \in Frame : g = ctx[s].old =>
            \A n \in Mm, w \in Page : Of(n, w, g)' =>
              pte'[n][w].p = "ro" \/ (Of(n, w, g) /\ pte'[n][w].p = pte[n][w].p)
      BY <1>5, <1>10
    <2>2. \A g \in Frame : \/ data'[g] = data[g] /\ (excl'[g] => excl[g])
                           \/ ctx[s].old # g /\ ctx[s].new # g
      BY <1>4, <1>5
    <2> QED
      BY <1>1, <2>1, <2>2, FaultKept
  <1>12. RestData'
    BY <1>1, <1>3 DEF RestData
  <1> QED
    BY <1>6, <1>7, <1>8, <1>10, <1>11, <1>12, MemNext DEF FolioRights

\* A fork that begins finds every folio of the parent exclusive that may be
\* written; one that ends has come past them all, and one that fails is
\* assumed to leave none behind.
LEMMA ForkFrameMem ==
  ASSUME ~ForkOverlaps, MemInv, Base', UNCHANGED <<pte, excl, pin, ctx, data, mig>>,
         \/ \E p, c \in Mm : ForkStart(p, c)
         \/ \E v \in Page : ForkNone(v) \/ (ForkFail(v) /\ FailsWhole(v))
         \/ ForkDone
  PROVE  MemInv'
  <1>1. /\ TypeOK /\ BookInv /\ Base /\ RwExcl /\ ForkRest /\ ForkQuiet /\ ExclSole
    BY MemKnown DEF FolioRights
  <1>2. /\ mig.ph = "idle" /\ \A m, f : ~Cut(m, f)
        /\ \A m \in Mm, v \in Page : Rw(m, v) => excl[pte[m][v].f] \/ InRest(m, v)
    <2>1. mig.ph = "idle"
      <3>1. CASE \E p, c \in Mm : ForkStart(p, c)
        BY <3>1 DEF ForkStart
      <3>2. CASE \E v \in Page : ForkNone(v) \/ (ForkFail(v) /\ FailsWhole(v))
        BY <3>2, ForkIdle DEF ForkNone, ForkFail, Copying
      <3>3. CASE ForkDone
        BY <3>3, ForkIdle DEF ForkDone
      <3> QED
        BY <3>1, <3>2, <3>3
    <2> QED
      BY <1>1, <2>1 DEF Cut, RwExcl
  <1>3. fork.pos \in Nat /\ VmaFirst \in Nat /\ VmaLast \in Nat /\ \A v \in Page : v \in Nat
    BY <1>1, PageNat, ClusterAssumption DEF TypeOK
  <1>4. ASSUME NEW p \in Mm, NEW c \in Mm, ForkStart(p, c)
        PROVE  RwExcl' /\ ForkRest' /\ ForkQuiet'
    <2>1. /\ ~Forking /\ stage[p] = "live" /\ p # c
          /\ \A t \in Context : ctx[t] # Idle => ctx[t].m # p
          /\ stage' = [stage EXCEPT ![c] = "embryo"]
          /\ fork' = [p |-> p, c |-> c, pos |-> VmaFirst]
      BY <1>4, <1>3, PageNat DEF ForkStart
    <2>2. fork'.p = p /\ fork'.c = c /\ fork'.pos = VmaFirst
      BY <2>1
    <2>3. \A m \in Mm, v \in Page : Rw(m, v) => excl[pte[m][v].f] /\ pte[m][v].f \in Frame
      BY <1>1, <1>2, <2>1, EntryFields DEF InRest, Rw, TypeOK
    <2>4. RwExcl'
      BY <2>3 DEF RwExcl, Rw
    <2>5. ForkRest'
      <3> SUFFICES ASSUME NEW v \in Page, Rw(p, v)
                   PROVE  /\ \A n \in Mm, u \in Page : Maps(n, u, pte[p][v].f) => n = p
                          /\ ~(v < VmaFirst)
        BY <2>2 DEF ForkRest, Rw, Maps
      <3>1. \A n \in Mm, u \in Page : Maps(n, u, pte[p][v].f) => n = p
        <4>1. Sole(pte[p][v].f) /\ Of(p, v, pte[p][v].f)
          BY <1>1, <2>3, MapsOf DEF ExclSole, Rw, Maps
        <4> QED
          BY <4>1, MapsOf DEF Sole
      <3> QED
        BY <1>3, <3>1 DEF Page
    <2>6. ForkQuiet'
      BY <1>1, <2>1, <2>2 DEF ForkQuiet, TypeOK, Idle
    <2> QED
      BY <2>4, <2>5, <2>6
  <1>5. ASSUME NEW v \in Page, ForkNone(v)
        PROVE  RwExcl' /\ ForkRest' /\ ForkQuiet'
    <2>1. /\ Forking /\ fork.pos = v /\ IsNone(fork.p, v) /\ UNCHANGED stage
          /\ fork'.p = fork.p /\ fork'.c = fork.c /\ fork'.pos = v + 1
      BY <1>1, <1>5 DEF ForkNone, Copying, TypeOK
    <2>2. \A u \in Page : Rw(fork.p, u) => u # v
      BY <2>1 DEF Rw, IsNone
    <2>3. \A m \in Mm, u \in Page : Rw(m, u) /\ InRest(m, u) => InRest(m, u)'
      <3> SUFFICES ASSUME NEW u \in Page, Rw(fork.p, u), u >= v
                   PROVE  u >= v + 1
        BY <2>1 DEF InRest, Forking
      <3>1. u \in Nat /\ v \in Nat /\ u # v
        BY <1>3, <2>2
      <3> QED
        BY <3>1
    <2>4. RwExcl'
      BY <1>2, <2>3 DEF RwExcl, Rw
    <2>5. ForkRest'
      <3> SUFFICES ASSUME NEW u \in Page, Rw(fork.p, u)
                   PROVE  /\ \A n \in Mm, w \in Page :
                               Maps(n, w, pte[fork.p][u].f) => n \in {fork.p, fork.c}
                          /\ u < v + 1 => pin[pte[fork.p][u].f] > 0
        BY <2>1 DEF ForkRest, Rw, Maps
      <3>1. u < v + 1 => u < v
        <4>1. u \in Nat /\ v \in Nat /\ u # v
          BY <1>3, <2>2
        <4> QED
          BY <4>1
      <3> QED
        BY <1>1, <2>1, <3>1 DEF ForkRest
    <2>6. ForkQuiet'
      BY <1>1, <2>1 DEF ForkQuiet, Forking
    <2> QED
      BY <2>4, <2>5, <2>6
  <1>6. ASSUME fork' = NoFork, \A m \in Mm, v \in Page : Rw(m, v) => excl[pte[m][v].f]
        PROVE  RwExcl' /\ ForkRest' /\ ForkQuiet'
    <2>1. ~Forking'
      BY <1>6 DEF Forking, NoFork
    <2> QED
      BY <1>6, <2>1 DEF RwExcl, ForkRest, ForkQuiet, Rw
  <1>7. ASSUME NEW v \in Page, ForkFail(v), FailsWhole(v)
        PROVE  RwExcl' /\ ForkRest' /\ ForkQuiet'
    <2>1. fork' = NoFork /\ fork.pos = v
      BY <1>7 DEF ForkFail, Copying
    <2>2. \A m \in Mm, u \in Page : Rw(m, u) => excl[pte[m][u].f]
      BY <1>2, <1>7, <2>1 DEF InRest, FailsWhole
    <2> QED
      BY <1>6, <2>1, <2>2
  <1>8. ASSUME ForkDone
        PROVE  RwExcl' /\ ForkRest' /\ ForkQuiet'
    <2>1. fork' = NoFork /\ fork.pos > VmaLast
      BY <1>8 DEF ForkDone
    <2>2. \A u \in Page : ~(u >= fork.pos)
      BY <1>3, <2>1 DEF Page
    <2>3. \A m \in Mm, u \in Page : Rw(m, u) => excl[pte[m][u].f]
      BY <1>2, <2>2 DEF InRest
    <2> QED
      BY <1>6, <2>1, <2>3
  <1>9. AlignedLive' /\ ExclSole' /\ KindSole' /\ PinnedSole' /\ HeadRo'
    <2>1. \A m \in Mm, v \in Page : ~IsNone(m, v) => (stage'[m] # "dying" => stage[m] # "dying")
      <3>1. CASE \E p, c \in Mm : ForkStart(p, c)
        BY <1>1, <3>1 DEF ForkStart, TypeOK
      <3>2. CASE \E v \in Page : ForkNone(v)
        BY <3>2 DEF ForkNone
      <3>3. CASE ForkDone \/ \E v \in Page : ForkFail(v)
        <4>1. Forking /\ (stage' = [stage EXCEPT ![fork.c] = "dying"]
                          \/ stage' = [stage EXCEPT ![fork.c] = "live"])
          BY <3>3 DEF ForkDone, ForkFail, Copying
        <4> QED
          BY <1>1, <4>1 DEF ForkQuiet, TypeOK
      <3> QED
        BY <3>1, <3>2, <3>3
    <2>2. \A m \in Mm, v \in Page : ~IsNone(m, v)' =>
            /\ pte'[m][v] = pte[m][v] /\ Folio(m, v)' = Folio(m, v)
            /\ stage'[m] # "dying" => stage[m] # "dying"
      BY <2>1 DEF IsNone, Folio
    <2>3. FoliosKept
      BY <1>2, <2>2, QuietFolios
    <2> QED
      BY <2>3, SolesKept
  <1>10. ASSUME NEW t \in Context
         PROVE  FaultOK(t)'
    <2>1. \A f \in Frame, m \in Mm, v \in Page : Of(m, v, f)' => Of(m, v, f)
      BY DEF Of, IsNone, Folio
    <2> QED
      BY <2>1, FaultKept
  <1>11. RestData'
    BY <1>2 DEF RestData
  <1> QED
    BY <1>4, <1>5, <1>7, <1>8, <1>9, <1>10, <1>11, MemNext DEF FolioRights

\* Forks.
LEMMA ForkMem ==
  ASSUME ~ForkOverlaps, MemInv, Base', ForkNext, \A v \in Page : FailsWhole(v)
  PROVE  MemInv'
  <1>0. BookInv
    BY MemKnown
  <1>1. ASSUME NEW v \in Page, ForkMig(v)
        PROVE  FALSE
    <2>1. fork.p \in Mm
      BY <1>0 DEF BookInv, IInv, TypeOK
    <2> QED
      BY <1>1, <2>1, ForkIdle DEF ForkMig, Copying
  <1>2. ASSUME NEW p \in Mm, NEW c \in Mm, ForkStart(p, c)
        PROVE  MemInv'
    <2>1. UNCHANGED <<pte, excl, pin, ctx, data, mig>>
      BY <1>2 DEF ForkStart
    <2> QED
      BY <1>2, <2>1, ForkFrameMem
  <1>3. ASSUME NEW v \in Page, ForkNone(v) \/ ForkFail(v)
        PROVE  MemInv'
    <2>1. UNCHANGED <<pte, excl, pin, ctx, data, mig>>
      BY <1>3 DEF ForkNone, ForkFail
    <2> QED
      BY <1>3, <2>1, ForkFrameMem
  <1>4. ASSUME ForkDone
        PROVE  MemInv'
    <2>1. UNCHANGED <<pte, excl, pin, ctx, data, mig>>
      BY <1>4 DEF ForkDone
    <2> QED
      BY <1>4, <2>1, ForkFrameMem
  <1> QED
    BY <1>1, <1>2, <1>3, <1>4, ForkShareMem, ForkCopyMem DEF ForkNext

\* Entries are taken away, or an address space dies or is reaped.
LEMMA TakeAway ==
  ASSUME MemInv, Base', UNCHANGED <<excl, data, pin, ctx, fork, mig>>,
         \A m \in Mm : InFork(m) => stage'[m] = stage[m],
         \A m \in Mm, v \in Page : ~IsNone(m, v)' =>
           pte'[m][v] = pte[m][v] /\ (stage'[m] # "dying" => stage[m] # "dying")
  PROVE  MemInv'
  <1>1. \A m \in Mm, v \in Page : ~IsNone(m, v)' => Folio(m, v)' = Folio(m, v)
    BY DEF Folio
  <1>2. FoliosKept
    <2>1. \A m \in Mm, f \in Frame : Cut(m, f) => Cut(m, f)'
      BY DEF Cut
    <2> QED
      BY <1>1, <2>1, QuietFolios
  <1>3. FolioRights'
    BY <1>2, RightsKept
  <1>4. ForkQuiet'
    <2>1. \A t \in Context : ctx'[t].st = "idle" \/ (ctx'[t].m = ctx[t].m /\ ctx[t].st # "idle")
      OBVIOUS
    <2> QED
      BY <2>1, QuietKept
  <1>5. ASSUME NEW t \in Context
        PROVE  FaultOK(t)'
    <2>1. \A f \in Frame, m \in Mm, v \in Page : Of(m, v, f)' => Of(m, v, f) /\ pte'[m][v] = pte[m][v]
      BY <1>1 DEF Of, IsNone
    <2> QED
      BY <2>1, FaultKept
  <1>6. RestData'
    <2>1. \A m \in Mm, v \in Page : pte'[m][v].k = "mig" =>
            pte'[m][v] = pte[m][v] /\ (stage'[m] # "dying" => stage[m] # "dying")
      BY DEF IsNone
    <2> QED
      BY <2>1, RestKept
  <1> QED
    BY <1>3, <1>4, <1>5, <1>6, MemNext

\* A pin is taken of a folio its address space may write: of no other, and of
\* none that a migration entry may restore to several.
LEMMA PinMem ==
  ASSUME MemInv, Base', NEW m \in Mm, NEW v \in Page, Pin(m, v)
  PROVE  MemInv'
  <1>1. /\ UNCHANGED <<pte, excl, data, ctx, fork, stage, mig>> /\ Rw(m, v) /\ ~InFork(m)
        /\ pin' = [pin EXCEPT ![pte[m][v].f] = pin[pte[m][v].f] + 1]
    BY DEF Pin, Rw
  <1>2. /\ TypeOK /\ Base /\ AlignedLive /\ ExclSole /\ KindSole /\ RwExcl /\ ForkRest /\ PinnedSole
        /\ HeadRo /\ ~(Forking /\ m = fork.p)
    BY <1>1, MemKnown DEF FolioRights, InFork
  <1>3. PICK f \in Frame : f = pte[m][v].f /\ Of(m, v, f) /\ Sole(f)
    BY <1>1, <1>2, RwSole
  <1>4. \A g \in Frame : (pin[g] > 0 => pin'[g] > 0) /\ (g # f => pin'[g] = pin[g])
    BY <1>1, <1>2, <1>3 DEF TypeOK
  <1>5. /\ \A n \in Mm, u \in Page : IsNone(n, u)' = IsNone(n, u) /\ Folio(n, u)' = Folio(n, u)
        /\ \A n \in Mm, u \in Page, g \in Frame : Of(n, u, g)' = Of(n, u, g)
        /\ \A g \in Frame : Sole(g)' = Sole(g) /\ AllRo(g)' = AllRo(g)
    BY <1>1 DEF IsNone, Folio, Of, Sole, AllRo
  <1>6. AlignedLive' /\ ExclSole' /\ KindSole' /\ RwExcl'
    BY <1>1, <1>2 DEF AlignedLive, ExclSole, KindSole, RwExcl, IsNone, Sole, Of, Folio, Rw, InRest,
                      Forking, Cut
  <1>7. ForkRest'
    <2> SUFFICES ASSUME NEW u \in Page, Forking, Rw(fork.p, u)
                 PROVE  /\ \A n \in Mm, w \in Page :
                             Maps(n, w, pte[fork.p][u].f) => n \in {fork.p, fork.c}
                        /\ u < fork.pos => pin'[pte[fork.p][u].f] > 0
      BY <1>1 DEF ForkRest, Forking, Rw, Maps
    <2>1. pte[fork.p][u].f \in Frame
      BY <1>2, EntryFields DEF Rw, TypeOK
    <2> QED
      BY <1>2, <1>4, <2>1 DEF ForkRest
  <1>8. PinnedSole'
    <2> SUFFICES ASSUME NEW g \in Frame, pin'[g] > 0
                 PROVE  /\ Sole(g)
                        /\ \A n \in Mm, u \in Page :
                             Maps(n, u, g) /\ stage[n] # "dying" => excl[g] \/ Cut(n, g)
      BY <1>1, <1>5 DEF PinnedSole, Maps, Cut
    <2>1. CASE g # f
      BY <1>2, <1>4, <2>1 DEF PinnedSole
    <2>2. CASE g = f
      <3> SUFFICES ASSUME NEW n \in Mm, NEW u \in Page, Maps(n, u, f)
                   PROVE  excl[f] \/ Cut(n, f)
        BY <1>3, <2>2
      <3>1. n = m
        BY <1>3, MapsOf DEF Sole
      <3> QED
        BY <1>1, <1>2, <1>3, <3>1 DEF RwExcl, InRest
    <2> QED
      BY <2>1, <2>2
  <1>9. HeadRo'
    <2> SUFFICES ASSUME NEW n \in Mm, NEW u \in Page, pte[n][u].k = "mig", SubOf(u) = 0,
                        pte[n][u].p = "ro", stage[n] # "dying"
                 PROVE  ~excl[Folio(n, u)] /\ pin'[Folio(n, u)] = 0 /\ AllRo(Folio(n, u))
      BY <1>1 DEF HeadRo, AllRo, Of, IsNone, Folio
    <2>1. Folio(n, u) \in Frame
      BY <1>2, Present DEF IsNone
    <2>2. ~excl[Folio(n, u)] /\ pin[Folio(n, u)] = 0 /\ AllRo(Folio(n, u))
      BY <1>2 DEF HeadRo
    <2>3. Folio(n, u) # f
      BY <1>1, <1>3, <2>2 DEF AllRo, Rw
    <2> QED
      BY <1>4, <2>1, <2>2, <2>3
  <1>10. ForkQuiet'
    BY <1>1, MemKnown DEF ForkQuiet, Forking
  <1>11. ASSUME NEW t \in Context
         PROVE  FaultOK(t)'
    BY <1>1, <1>5, FaultKept
  <1>12. RestData'
    BY <1>1, RestKept
  <1> QED
    BY <1>6, <1>7, <1>8, <1>9, <1>10, <1>11, <1>12, MemNext DEF FolioRights

\* Zaps take away; a pin needs a folio that is its owner's alone, and is not
\* dropped while a fork copies.
LEMMA ZapPinMem ==
  ASSUME ~ForkOverlaps, MemInv, Base', ZapNext \/ PinNext
  PROVE  MemInv'
  <1>1. TypeOK /\ BookInv /\ ForkQuiet
    BY MemKnown
  <1>2. ASSUME NEW m \in Mm, NEW v \in Page, NEW end \in (VmaFirst + 1)..(VmaLast + 1),
               ZapBatch(m, v, end) \/ ZapMig(m, v, end)
        PROVE  MemInv'
    <2>1. UNCHANGED <<excl, data, pin, ctx, fork, stage, mig>>
      BY <1>2 DEF ZapBatch, ZapMig
    <2>2. \A n \in Mm, u \in Page : pte'[n][u] = pte[n][u] \/ pte'[n][u].k = "none"
      BY <1>1, <1>2, ZapAt DEF Absent
    <2> QED
      BY <2>1, <2>2, TakeAway DEF IsNone
  <1>3. ASSUME NEW f \in Frame, DeferredPut(f)
        PROVE  MemInv'
    BY <1>3, PutStep DEF DeferredPut
  <1>4. ASSUME NEW f \in Frame, Unpin(f)
        PROVE  MemInv'
    <2>1. /\ pin' = [pin EXCEPT ![f] = pin[f] - 1] /\ Put({f}) /\ ~Forking
          /\ UNCHANGED <<pte, fork, stage, ctx, mig>>
      BY <1>4 DEF Unpin
    <2>2. \A g \in Frame : pin'[g] > 0 => pin[g] > 0
      BY <1>1, <2>1 DEF TypeOK
    <2> QED
      BY <2>1, <2>2, PutStep
  <1>5. ASSUME NEW m \in Mm, Exit(m) \/ Reap(m)
        PROVE  MemInv'
    <2>1. /\ UNCHANGED <<pte, excl, data, pin, ctx, fork, mig>>
          /\ \A n \in Mm : InFork(n) => stage'[n] = stage[n]
      BY <1>1, <1>5 DEF Exit, Reap, InFork, ForkQuiet, TypeOK
    <2>2. \A n \in Mm, u \in Page : ~IsNone(n, u) => (stage'[n] # "dying" => stage[n] # "dying")
      BY <1>1, <1>5 DEF Exit, Reap, TypeOK
    <2> QED
      BY <2>1, <2>2, TakeAway DEF IsNone
  <1> QED
    BY <1>2, <1>3, <1>4, <1>5, PinMem DEF ZapNext, PinNext

----------------------------------------------------------------------------
(* Migration *)

\* A step of the migration that changes no page table, no folio, and no folio
\* an entry stands for.
LEMMA MigQuietMem ==
  ASSUME MemInv, Base', UNCHANGED <<pte, excl, data, pin, ctx, fork, stage>>,
         \A m \in Mm, v \in Page : ~IsNone(m, v) => Folio(m, v)' = Folio(m, v),
         \A m \in Mm, v \in Page, f \in Frame : Maps(m, v, f) /\ Cut(m, f) => Cut(m, f)',
         mig'.ph = "restore" =>
           mig'.to = mig'.src \/ (mig.ph = "restore" /\ mig'.src = mig.src /\ mig'.to = mig.to)
  PROVE  MemInv'
  <1>1. FoliosKept
    <2>1. \A m \in Mm, v \in Page, f \in Frame : Maps(m, v, f)' => Maps(m, v, f)
      BY DEF Maps
    <2>2. \A m \in Mm, v \in Page : IsNone(m, v)' = IsNone(m, v)
      BY DEF IsNone
    <2> QED
      BY <2>1, <2>2, QuietFolios
  <1>2. FolioRights'
    BY <1>1, RightsKept
  <1>3. ForkQuiet'
    BY MemKnown DEF ForkQuiet, Forking
  <1>4. ASSUME NEW s \in Context
        PROVE  FaultOK(s)'
    <2>1. \A g \in Frame, n \in Mm, u \in Page : Of(n, u, g)' => Of(n, u, g)
      BY DEF Of, IsNone
    <2> QED
      BY <2>1, FaultKept
  <1>5. RestData'
    <2>1. CASE mig'.to = mig'.src
      BY <2>1 DEF RestData
    <2>2. CASE ~(mig'.to = mig'.src)
      BY <2>2, RestKept
    <2> QED
      BY <2>1, <2>2
  <1> QED
    BY <1>2, <1>3, <1>4, <1>5, MemNext

\* The walk starts, goes to the next address space, or ends: none of its
\* folio is left mapped behind it.
LEMMA MigFrameMem ==
  ASSUME MemInv, Base',
         MigUnmapNext \/ MigRestoreNext \/ \E src, dst \in Frame : MigStart(src, dst)
  PROVE  MemInv'
  <1>1. /\ OrphanInv /\ BookInv /\ TypeOK /\ MigWalk /\ MigEntries /\ Base
    BY MemKnown
  <1>2. MigEntries'
    BY DEF Base, OrphanInv
  <1>3. ASSUME MigUnmapNext
        PROVE  MemInv'
    <2>1. /\ mig.ph = "unmap" /\ WalkIsOver("map", mig.src)
          /\ UNCHANGED <<pte, excl, data, pin, ctx, fork, stage>>
          /\ mig'.ph # "restore"
      BY <1>1, <1>3 DEF MigUnmapNext, MigNextMm, AtWalkStart, TypeOK, MigType
    <2>2. \A m \in Mm, v \in Page, f \in Frame : ~(Maps(m, v, f) /\ Cut(m, f))
      <3> SUFFICES ASSUME NEW m \in Mm, NEW v \in Page, NEW f \in Frame, Maps(m, v, f), Cut(m, f)
                   PROVE  FALSE
        OBVIOUS
      <3>1. m = mig.m /\ f = mig.src
        BY DEF Cut
      <3>2. v \in WalkRange(f)
        BY <1>1, InWalkRange
      <3>3. v >= mig.pos
        <4>1. m > mig.m \/ (m = mig.m /\ v >= mig.pos)
          BY <1>1, <2>1, <3>1 DEF MigWalk, MapsAhead
        <4>2. ~(m > mig.m)
          BY <3>1 DEF Mm
        <4> QED
          BY <4>1, <4>2
      <3> QED
        BY <2>1, <3>1, <3>2, <3>3 DEF WalkIsOver, Maps
    <2>3. \A m \in Mm, v \in Page : Folio(m, v)' = Folio(m, v)
      BY <2>1 DEF Folio
    <2> QED
      BY <2>1, <2>2, <2>3, MigQuietMem
  <1>4. ASSUME MigRestoreNext
        PROVE  MemInv'
    <2>1. /\ mig.ph = "restore" /\ UNCHANGED <<pte, excl, data, pin, ctx, fork, stage>>
          /\ mig'.src = mig.src /\ mig'.to = mig.to /\ mig'.ph \in {"restore", "done"}
      BY <1>1, <1>4 DEF MigRestoreNext, MigNextMm, AtWalkStart, TypeOK, MigType
    <2>2. \A m \in Mm, v \in Page : Folio(m, v)' = Folio(m, v)
      <3>1. CASE mig'.ph = "restore"
        BY <2>1, <3>1 DEF Folio
      <3>2. CASE mig'.ph = "done"
        BY <1>2, <2>1, <3>2 DEF Folio, MigEntries
      <3> QED
        BY <2>1, <3>1, <3>2
    <2>3. \A m \in Mm, f \in Frame : ~Cut(m, f)
      BY <2>1 DEF Cut
    <2> QED
      BY <2>1, <2>2, <2>3, MigQuietMem
  <1>5. ASSUME NEW src \in Frame, NEW dst \in Frame, MigStart(src, dst)
        PROVE  MemInv'
    <2>1. /\ mig.ph = "idle" /\ UNCHANGED <<pte, excl, data, pin, ctx, fork, stage>>
          /\ mig'.ph = "unmap"
      BY <1>5 DEF MigStart
    <2>2. \A m \in Mm, v \in Page : Folio(m, v)' = Folio(m, v)
      BY <2>1 DEF Folio
    <2>3. \A m \in Mm, f \in Frame : ~Cut(m, f)
      BY <2>1 DEF Cut
    <2> QED
      BY <2>1, <2>2, <2>3, MigQuietMem
  <1> QED
    BY <1>3, <1>4, <1>5

\* The contents move to a folio that only the migration holds: its entries,
\* and nothing else, stand for it from now on.
LEMMA MigMoveMem ==
  ASSUME MemInv, Base', MigMove
  PROVE  MemInv'
  <1>1. /\ BookInv /\ Base /\ TypeOK /\ MigWalk /\ mig.ph = "move" /\ MigBook /\ MigEntries
        /\ UNCHANGED <<pte, excl, pin, ctx, fork, stage>>
        /\ mig'.ph = "restore" /\ mig'.src = mig.src
        /\ mig.src \in Frame /\ mig.dst \in Frame /\ mig.src # mig.dst
        /\ \/ mig'.to = mig.dst /\ data' = [data EXCEPT ![mig.dst] = data[mig.src]]
           \/ mig'.to = mig.src /\ data' = data
    BY MemKnown DEF MigMove, AtWalkStart, MigBook, BookInv, IInv, MigHasFolios
  <1>2. \A m \in Mm, f \in Frame : ~Cut(m, f)
    BY <1>1 DEF Cut
  <1>3. CASE mig'.to = mig.src /\ data' = data
    <2>1. \A m \in Mm, v \in Page : ~IsNone(m, v) => Folio(m, v)' = Folio(m, v)
      BY <1>1, <1>3 DEF Folio, MigEntries
    <2> QED
      BY <1>1, <1>2, <1>3, <2>1, MigQuietMem
  <1>4. CASE mig'.to = mig.dst /\ data' = [data EXCEPT ![mig.dst] = data[mig.src]]
    <2>1. ref[mig.dst] = 1 /\ ~excl[mig.dst]
      BY <1>1 DEF MigWalk, LoneDst
    <2>2. /\ \A m \in Mm, v \in Page : ~Maps(m, v, mig.dst)
          /\ \A s \in Context : ctx[s].old # mig.dst /\ ctx[s].new # mig.dst
          /\ pin[mig.dst] = 0
      BY <1>1, <2>1, LoneFolio
    <2>3. ASSUME NEW m \in Mm, NEW v \in Page, ~IsNone(m, v)
          PROVE  \/ /\ pte[m][v].k = "map" /\ Folio(m, v)' = pte[m][v].f /\ Folio(m, v) = pte[m][v].f
                    /\ pte[m][v].f # mig.dst
                 \/ pte[m][v].k = "mig" /\ Folio(m, v)' = mig.dst /\ Folio(m, v) = mig.src
      <3>1. pte[m][v].k = "map" \/ (pte[m][v].k = "mig" /\ pte[m][v].f = mig.src)
        BY <1>1, <2>3, Present
      <3> QED
        BY <1>1, <1>4, <2>2, <3>1 DEF Folio, Maps
    <2>4. ASSUME NEW m \in Mm, NEW v \in Page, NEW f \in Frame, f # mig.dst, Of(m, v, f)'
          PROVE  Of(m, v, f)
      <3>1. ~IsNone(m, v) /\ Folio(m, v)' = f
        BY <1>1, <2>4 DEF Of, IsNone
      <3> QED
        BY <2>3, <2>4, <3>1 DEF Of
    <2>5. FoliosKept
      <3>1. \A m \in Mm, v \in Page : IsNone(m, v)' = IsNone(m, v)
        BY <1>1 DEF IsNone
      <3>2. \A m, n \in Mm : \A v, u \in Page :
              ~IsNone(m, v)' /\ ~IsNone(n, u)' /\ Folio(m, v)' = Folio(n, u)' =>
                Folio(m, v) = Folio(n, u)
        BY <2>3, <3>1
      <3> QED
        BY <1>1, <1>2, <2>1, <2>2, <2>4, <3>1, <3>2 DEF FoliosKept
    <2>6. FolioRights'
      BY <1>1, <2>5, RightsKept
    <2>7. ForkQuiet'
      BY <1>1, MemKnown DEF ForkQuiet, Forking
    <2>8. /\ \A f \in Frame : f # mig.dst => data'[f] = data[f]
          /\ data'[mig.dst] = data[mig.src]
      BY <1>1, <1>4 DEF TypeOK
    <2>9. ASSUME NEW s \in Context
          PROVE  FaultOK(s)'
      <3>1. \A f \in Frame : \/ data'[f] = data[f] /\ (excl'[f] => excl[f])
                             \/ ctx[s].old # f /\ ctx[s].new # f
        BY <1>1, <2>2, <2>8
      <3>2. \A f \in Frame : f = ctx[s].old =>
              \A m \in Mm, v \in Page : Of(m, v, f)' => Of(m, v, f) /\ pte'[m][v].p = pte[m][v].p
        BY <1>1, <2>2, <2>4
      <3> QED
        BY <1>1, <3>1, <3>2, FaultKept
    <2>10. RestData'
      BY <1>1, <1>4, <2>8 DEF RestData
    <2> QED
      BY <2>6, <2>7, <2>9, <2>10, MemNext
  <1> QED
    BY <1>1, <1>3, <1>4

\* The migration ends: no entry of it is left.
LEMMA MigDoneMem ==
  ASSUME MemInv, Base', MigDone
  PROVE  MemInv'
  <1>1. /\ mig.ph = "done" /\ mig'.ph = "idle" /\ Put({mig.src, mig.dst})
        /\ UNCHANGED <<pte, fork, stage, ctx, pin>>
    BY DEF MigDone, MigIdle
  <1> QED
    BY <1>1, PutStep

\* The first page of a cluster is where a walk of a folio mapped in it begins,
\* if it is in the VMA at all.
LEMMA HeadFirst ==
  ASSUME MemInv, NEW m \in Mm, NEW u \in Page, NEW f \in Frame, Maps(m, u, f), SubOf(u) = 0
  PROVE  WalkFirst(f) >= u /\ WalkFirst(f) \in Nat /\ u \in Nat
  <1>1. ClusterOf(u) = idx[f] /\ idx[f] \in Nat /\ OrphanInv
    BY MemKnown DEF IdxBook, Maps, IsNone, TypeOK
  <1>2. u \in Nat /\ VmaFirst \in Nat /\ VmaFirst <= u /\ N \in Nat \ {0}
    BY PageNat, ClusterAssumption DEF Page
  <1>3. u = N * idx[f]
    BY <1>1, <1>2, DivMod
  <1>4. WalkFirst(f) \in Nat
    BY <1>1, InWalkRange
  <1>5. idx[f] * N = N * idx[f]
    BY <1>1, <1>2
  <1> QED
    BY <1>2, <1>3, <1>4, <1>5 DEF WalkFirst

\* A walk that meets a pinned exclusive folio rewrites its PTEs as they were:
\* it has made no migration entry of the folio yet.
LEMMA UnmapPinnedMem ==
  ASSUME MemInv, Base', NEW v \in Page, MigUnmap(v), MustCopy(mig.src)
  PROVE  MemInv'
  <1>1. /\ BookInv /\ Base /\ TypeOK /\ MigWalk /\ MigBook /\ MigEntries /\ FolioRights /\ ~Forking
    BY MemKnown DEF MigUnmap, Apart
  <1>2. PICK f \in Frame, k \in Mm : f = mig.src /\ k = mig.m
    BY <1>1, UnmapAt
  <1>3. /\ mig.ph = "unmap" /\ Maps(k, v, f) /\ mig'.src = f /\ mig'.ph = "move" /\ ~mig'.held
        /\ UNCHANGED <<data, pin, ctx, fork, stage, excl>>
        /\ \A n \in Mm, u \in Page :
             \/ pte'[n][u] = pte[n][u]
             \/ /\ n = k /\ Maps(n, u, f)
                /\ EntryIs(pte'[n][u], "map", f, pte[n][v].s + (u - v), pte[n][v].p)
                /\ u - v = SubOf(u) - SubOf(v)
    BY <1>1, <1>2, UnmapAt
  <1>4. excl[f] /\ \A m \in Mm, u \in Page : pte[m][u].k # "mig"
    BY <1>1, <1>2, <1>3 DEF MustCopy, MigWalk, Untouched
  <1>5. \A m \in Mm, u \in Page : pte'[m][u].k = pte[m][u].k /\ pte'[m][u].f = pte[m][u].f
    BY <1>3 DEF EntryIs, Maps
  <1>6. /\ \A m \in Mm, u \in Page : IsNone(m, u)' = IsNone(m, u) /\ Folio(m, u)' = Folio(m, u)
        /\ \A m \in Mm, u \in Page, g \in Frame : Of(m, u, g)' = Of(m, u, g)
        /\ \A m \in Mm, u \in Page, g \in Frame : Maps(m, u, g)' = Maps(m, u, g)
        /\ \A g \in Frame : Sole(g)' = Sole(g)
    BY <1>4, <1>5 DEF IsNone, Folio, Of, Maps, Sole
  <1>7. AlignedLive'
    <2> SUFFICES ASSUME NEW m \in Mm, NEW u \in Page, ~IsNone(m, u), stage[m] # "dying"
                 PROVE  pte'[m][u].s = SubOf(u)
      BY <1>3, <1>6 DEF AlignedLive
    <2>1. CASE pte'[m][u] = pte[m][u]
      BY <1>1, <2>1 DEF FolioRights, AlignedLive
    <2>2. CASE /\ m = k /\ EntryIs(pte'[m][u], "map", f, pte[m][v].s + (u - v), pte[m][v].p)
               /\ u - v = SubOf(u) - SubOf(v)
      <3>1. pte[m][v].s = SubOf(v)
        BY <1>1, <1>3, <2>2 DEF FolioRights, AlignedLive, Maps, IsNone
      <3>2. SubOf(u) \in Nat /\ SubOf(v) \in Nat
        BY DivMod, PageNat DEF Sub
      <3> QED
        BY <2>2, <3>1, <3>2 DEF EntryIs
    <2> QED
      BY <1>3, <2>1, <2>2
  <1>8. ExclSole' /\ KindSole' /\ HeadRo'
    BY <1>1, <1>3, <1>4, <1>5, <1>6 DEF FolioRights, ExclSole, KindSole, HeadRo
  <1>9. RwExcl' /\ ForkRest'
    <2>1. ForkRest'
      BY <1>1, <1>3 DEF ForkRest, Forking
    <2>2. RwExcl'
      <3> SUFFICES ASSUME NEW m \in Mm, NEW u \in Page, Rw(m, u)'
                   PROVE  excl'[pte'[m][u].f]
        BY DEF RwExcl
      <3>1. CASE pte'[m][u].f = f
        BY <1>3, <1>4, <3>1
      <3>2. CASE pte'[m][u].f # f
        <4>1. pte'[m][u] = pte[m][u] /\ Rw(m, u)
          BY <1>3, <3>2 DEF EntryIs, Rw
        <4> QED
          BY <1>1, <1>2, <1>3, <3>2, <4>1 DEF FolioRights, RwExcl, InRest, Cut
      <3> QED
        BY <3>1, <3>2
    <2> QED
      BY <2>1, <2>2
  <1>10. PinnedSole'
    <2> SUFFICES ASSUME NEW g \in Frame, pin[g] > 0
                 PROVE  /\ Sole(g)
                        /\ \A m \in Mm, u \in Page : Maps(m, u, g) /\ stage[m] # "dying" => excl[g]
      BY <1>3, <1>6 DEF PinnedSole
    <2> QED
      BY <1>1, <1>2, <1>4 DEF FolioRights, PinnedSole, Cut
  <1>11. ForkQuiet'
    BY <1>1, <1>3 DEF ForkQuiet, Forking
  <1>12. ASSUME NEW s \in Context
         PROVE  FaultOK(s)'
    <2>1. ctx'[s] = ctx[s] /\ \A g \in Frame : data'[g] = data[g] /\ (excl'[g] => excl[g])
      BY <1>3
    <2>2. ctx[s].st = "idle" \/ ctx[s].old # f
      <3>1. CASE ctx[s].st \in {"wp", "wpc"}
        BY <1>4, <3>1, MemKnown DEF FaultOK, OldPlain
      <3>2. CASE ctx[s].st \in {"idle", "anon"}
        BY <1>1, <3>2, DataAssumption, Known DEF CtxBook
      <3> QED
        BY <1>1, <3>1, <3>2, CtxFolios
    <2>3. CASE ctx[s].st = "idle"
      BY <2>1, <2>3, FaultKept
    <2>4. CASE ctx[s].old # f
      <3>1. \A g \in Frame : g = ctx[s].old =>
              \A n \in Mm, u \in Page : Of(n, u, g)' => Of(n, u, g) /\ pte'[n][u].p = pte[n][u].p
        BY <1>3, <1>4, <1>6, <2>4, MapsOf DEF Of
      <3> QED
        BY <2>1, <3>1, FaultKept
    <2> QED
      BY <2>2, <2>3, <2>4
  <1>13. RestData'
    BY <1>3 DEF RestData
  <1> QED
    BY <1>7, <1>8, <1>9, <1>10, <1>11, <1>12, <1>13, MemNext DEF FolioRights

\* A batch becomes migration entries: their kind says whether the folio was
\* its owner's alone.
LEMMA UnmapBatchMem ==
  ASSUME MemInv, Base', NEW v \in Page, MigUnmap(v), ~MustCopy(mig.src)
  PROVE  MemInv'
  <1>1. /\ BookInv /\ Base /\ TypeOK /\ MigWalk /\ MigBook /\ MigEntries /\ ~Forking
        /\ AlignedLive /\ ExclSole /\ KindSole /\ RwExcl /\ PinnedSole /\ HeadRo
    BY MemKnown DEF MigUnmap, Apart, FolioRights
  <1>2. PICK f \in Frame, k \in Mm : f = mig.src /\ k = mig.m
    BY <1>1, UnmapAt
  <1>3. /\ mig.ph = "unmap" /\ Maps(k, v, f) /\ v >= mig.pos
        /\ mig'.src = f /\ mig'.m = k /\ mig'.ph = "unmap" /\ mig'.held
        /\ UNCHANGED <<data, pin, ctx, fork, stage>> /\ excl' = [excl EXCEPT ![f] = FALSE]
        /\ \A n \in Mm, u \in Page :
             \/ pte'[n][u] = pte[n][u]
             \/ /\ n = k /\ Maps(n, u, f) /\ ClusterOf(u) = ClusterOf(v) /\ u >= v
                /\ EntryIs(pte'[n][u], "mig", f, pte[n][u].s, UnmapKind(v))
    BY <1>1, <1>2, UnmapAt
  <1>4. ~excl'[f] /\ \A g \in Frame : g # f => excl'[g] = excl[g]
    BY <1>1, <1>3, Zenon DEF TypeOK
  <1>5. /\ \A n \in Mm, u \in Page : IsNone(n, u)' = IsNone(n, u) /\ Folio(n, u)' = Folio(n, u)
        /\ \A n \in Mm, u \in Page, g \in Frame : Of(n, u, g)' = Of(n, u, g)
        /\ \A g \in Frame : Sole(g)' = Sole(g)
    <2>1. \A n \in Mm, u \in Page : /\ pte'[n][u].f = pte[n][u].f
                                    /\ pte'[n][u].k = "none" <=> pte[n][u].k = "none"
      BY <1>3 DEF EntryIs, Maps
    <2> QED
      BY <1>3, <2>1 DEF IsNone, Folio, Of, Sole
  <1>6. Of(k, v, f) /\ Folio(k, v) = f /\ pte[k][v].p \in {"rw", "ro"}
    BY <1>1, <1>3, MapsOf, Present DEF Maps
  <1>7. UnmapKind(v) = IF pte[k][v].p = "rw" THEN "rw" ELSE IF excl[f] THEN "rx" ELSE "ro"
    BY <1>2 DEF UnmapKind
  <1>8. AlignedLive'
    BY <1>1, <1>3, <1>5 DEF AlignedLive, EntryIs
  <1>9. ExclSole'
    BY <1>1, <1>4, <1>5 DEF ExclSole
  <1>10. UnmapKind(v) # "ro" => Sole(f)
    <2>1. CASE pte[k][v].p = "rw"
      <3>1. Rw(k, v) /\ pte[k][v].f = f
        BY <1>3, <2>1 DEF Rw, Maps
      <3> QED
        BY <1>1, <3>1, RwSole
    <2>2. CASE excl[f]
      BY <1>1, <2>2 DEF ExclSole
    <2> QED
      BY <1>7, <2>1, <2>2
  <1>11. KindSole'
    <2> SUFFICES ASSUME NEW n \in Mm, NEW u \in Page, pte'[n][u].k = "mig", pte'[n][u].p # "ro"
                 PROVE  Sole(Folio(n, u))'
      BY DEF KindSole
    <2>1. ~IsNone(n, u)
      BY <1>5 DEF IsNone
    <2>2. PICK g \in Frame : g = Folio(n, u) /\ g = Folio(n, u)'
      BY <1>1, <1>5, <2>1, Present
    <2>3. Sole(g)
      <3>1. CASE pte'[n][u] = pte[n][u]
        BY <1>1, <2>2, <3>1 DEF KindSole
      <3>2. CASE n = k /\ Maps(n, u, f) /\ pte'[n][u].p = UnmapKind(v)
        BY <1>10, <2>2, <3>2, MapsOf
      <3> QED
        BY <1>3, <3>1, <3>2 DEF EntryIs
    <2> QED
      BY <1>5, <2>2, <2>3 DEF Sole, Of
  <1>12. RwExcl'
    <2> SUFFICES ASSUME NEW n \in Mm, NEW u \in Page, Rw(n, u)'
                 PROVE  excl'[pte'[n][u].f] \/ (Cut(n, pte[n][u].f)' /\ Sole(pte[n][u].f)')
      BY DEF RwExcl
    <2>1. pte'[n][u] = pte[n][u] /\ Rw(n, u)
      BY <1>3 DEF EntryIs, Rw
    <2>2. PICK g \in Frame : g = pte[n][u].f /\ g = pte'[n][u].f /\ Of(n, u, g) /\ Sole(g)
      BY <1>1, <2>1, RwSole
    <2>3. CASE g # f
      <3>1. excl[g]
        BY <1>1, <1>2, <2>1, <2>2, <2>3 DEF RwExcl, InRest, Cut
      <3> QED
        BY <1>4, <2>2, <2>3, <3>1
    <2>4. CASE g = f
      <3>1. n = k
        BY <1>6, <2>2, <2>4 DEF Sole
      <3>2. Cut(n, g)' /\ Sole(g)'
        BY <1>3, <1>5, <2>2, <2>4, <3>1 DEF Cut
      <3> QED
        BY <2>2, <3>2 DEF Cut, Sole, Of
    <2> QED
      BY <2>3, <2>4
  <1>13. ForkRest'
    BY <1>1, <1>3 DEF ForkRest, Forking
  <1>14. PinnedSole'
    <2> SUFFICES ASSUME NEW g \in Frame, pin[g] > 0
                 PROVE  /\ Sole(g)'
                        /\ \A n \in Mm, u \in Page :
                             Maps(n, u, g)' /\ stage[n] # "dying" => excl'[g] \/ Cut(n, g)'
      BY <1>3 DEF PinnedSole
    <2>1. Sole(g)
      BY <1>1 DEF PinnedSole
    <2>2. ASSUME NEW n \in Mm, NEW u \in Page, Maps(n, u, g)', stage[n] # "dying"
          PROVE  excl'[g] \/ Cut(n, g)'
      <3>1. Maps(n, u, g)
        BY <1>3, <2>2 DEF Maps, EntryIs
      <3>2. CASE g # f
        <4>1. excl[g]
          BY <1>1, <1>2, <2>2, <3>1, <3>2 DEF PinnedSole, Cut
        <4> QED
          BY <1>4, <3>2, <4>1
      <3>3. CASE g = f
        <4>1. n = k
          BY <1>6, <2>1, <3>1, <3>3, MapsOf DEF Sole
        <4> QED
          BY <1>3, <3>3, <4>1 DEF Cut
      <3> QED
        BY <3>2, <3>3
    <2> QED
      BY <1>5, <2>1, <2>2
  <1>15. HeadRo'
    <2> SUFFICES ASSUME NEW n \in Mm, NEW u \in Page, pte'[n][u].k = "mig", SubOf(u) = 0,
                        pte'[n][u].p = "ro", stage[n] # "dying"
                 PROVE  ~excl'[Folio(n, u)'] /\ pin[Folio(n, u)'] = 0 /\ AllRo(Folio(n, u))'
      BY <1>3 DEF HeadRo
    <2>1. ~IsNone(n, u) /\ Folio(n, u)' = f /\ Folio(n, u) = f
      <3>1. ~IsNone(n, u)
        BY <1>5 DEF IsNone
      <3>2. pte[n][u].f = f
        <4>1. CASE pte'[n][u] = pte[n][u]
          BY <1>1, <1>2, <4>1 DEF MigEntries
        <4>2. CASE Maps(n, u, f)
          BY <4>2 DEF Maps
        <4> QED
          BY <1>3, <4>1, <4>2
      <3>3. Folio(n, u) = pte[n][u].f
        BY <1>3 DEF Folio
      <3> QED
        BY <1>5, <3>1, <3>2, <3>3
    <2>2. UnmapKind(v) = "ro" /\ pin[f] = 0 /\ AllRo(f)
      <3>1. CASE pte'[n][u] = pte[n][u]
        <4>1. ~excl[f] /\ pin[f] = 0 /\ AllRo(f)
          BY <1>1, <2>1, <3>1 DEF HeadRo
        <4> QED
          BY <1>6, <1>7, <4>1 DEF AllRo
      <3>2. CASE /\ n = k /\ Maps(n, u, f) /\ u >= v
                 /\ EntryIs(pte'[n][u], "mig", f, pte[n][u].s, UnmapKind(v))
        \* It is the first batch of the walk: the lock is not held yet.
        <4>1. ~mig.held
          <5> SUFFICES ASSUME mig.held PROVE FALSE
            OBVIOUS
          <5>1. mig.pos > WalkFirst(f)
            BY <1>1, <1>2, <1>3 DEF MigWalk, HeldPast
          <5>2. WalkFirst(f) >= u /\ WalkFirst(f) \in Nat /\ u \in Nat
            BY <3>2, HeadFirst
          <5>3. mig.pos \in Nat /\ v \in Nat
            BY <1>1, PageNat DEF TypeOK, MigType
          <5> QED
            BY <1>3, <3>2, <5>1, <5>2, <5>3
        <4>2. UnmapKind(v) = "ro"
          BY <3>2 DEF EntryIs
        <4>3. ~excl[f]
          BY <1>6, <1>7, <4>2
        <4>4. pin[f] = 0
          <5>1. ~(pin[f] > 0)
            BY <1>1, <3>2, <4>1, <4>3 DEF PinnedSole, Cut
          <5>2. pin[f] \in Nat
            BY <1>1 DEF TypeOK
          <5> QED
            BY <5>1, <5>2
        <4>5. AllRo(f)
          <5>1. ~InFork(n) /\ PtlFree(n)
            BY <1>1, <4>1 DEF InFork, PtlFree
          <5> QED
            BY <3>2, <4>3, <5>1, SharedPlain
        <4> QED
          BY <4>2, <4>4, <4>5
      <3> QED
        BY <1>3, <3>1, <3>2
    <2>3. AllRo(f)'
      <3> SUFFICES ASSUME NEW l \in Mm, NEW w \in Page, Of(l, w, f)'
                   PROVE  pte'[l][w].p = "ro"
        BY DEF AllRo
      <3> QED
        BY <1>3, <1>5, <2>2 DEF AllRo, EntryIs
    <2> QED
      BY <1>4, <2>1, <2>2, <2>3 DEF AllRo, Of
  <1>16. ForkQuiet'
    BY <1>1, <1>3 DEF ForkQuiet, Forking
  <1>17. ASSUME NEW s \in Context
         PROVE  FaultOK(s)'
    <2>1. /\ ctx'[s] = ctx[s]
          /\ \A g \in Frame : data'[g] = data[g] /\ (excl'[g] => excl[g])
      BY <1>3, <1>4
    <2>2. ASSUME ctx[s].old = f
          PROVE  UnmapKind(v) = "ro"
      <3>1. CASE ctx[s].st \in {"wp", "wpc"}
        <4>1. ~excl[f] /\ AllRo(f)
          BY <2>2, <3>1, MemKnown DEF FaultOK, OldPlain
        <4> QED
          BY <1>6, <1>7, <4>1 DEF AllRo
      <3>2. CASE ctx[s].st \in {"idle", "anon"}
        BY <1>1, <2>2, <3>2, DataAssumption, Known DEF CtxBook, Idle
      <3> QED
        BY <1>1, <3>1, <3>2, CtxFolios
    <2>3. \A g \in Frame : g = ctx[s].old =>
            \A n \in Mm, u \in Page : Of(n, u, g)' =>
              pte'[n][u].p = "ro" \/ (Of(n, u, g) /\ pte'[n][u].p = pte[n][u].p)
      <3> SUFFICES ASSUME NEW g \in Frame, g = ctx[s].old, NEW n \in Mm, NEW u \in Page, Of(n, u, g)'
                   PROVE  pte'[n][u].p = "ro" \/ (Of(n, u, g) /\ pte'[n][u].p = pte[n][u].p)
        OBVIOUS
      <3>1. Of(n, u, g)
        BY <1>5
      <3>2. CASE pte'[n][u] = pte[n][u]
        BY <3>1, <3>2
      <3>3. CASE Maps(n, u, f) /\ pte'[n][u].p = UnmapKind(v)
        BY <2>2, <3>1, <3>3, MapsOf DEF Of
      <3> QED
        BY <1>3, <3>2, <3>3 DEF EntryIs
    <2> QED
      BY <2>1, <2>3, FaultKept
  <1>18. RestData'
    BY <1>3 DEF RestData
  <1> QED
    BY <1>8, <1>9, <1>11, <1>12, <1>13, <1>14, <1>15, <1>16, <1>17, <1>18, MemNext DEF FolioRights

\* A batch is restored from the first sub-page of its folio on, or in an
\* address space that dies.
LEMMA RestoreMem ==
  ASSUME MemInv, Base', NEW v \in Page, MigRestore(v), RestoreWhole(v)
  PROVE  MemInv'
  <1>1. /\ BookInv /\ Base /\ TypeOK /\ MigWalk /\ MigBook /\ MigEntries /\ ~Forking
        /\ AlignedLive /\ ExclSole /\ KindSole /\ RwExcl /\ PinnedSole /\ HeadRo
    BY MemKnown DEF MigRestore, Apart, FolioRights
  <1>2. PICK f \in Frame, k \in Mm : f = mig.to /\ k = mig.m
    BY <1>1, RestoreAt
  <1>3. /\ mig.ph = "restore" /\ IsMig(k, v, mig.src)
        /\ mig'.src = mig.src /\ mig'.to = f /\ mig'.ph = "restore"
        /\ UNCHANGED <<data, pin, ctx, fork, stage>>
        /\ excl' = [excl EXCEPT ![f] = excl[f] \/ pte[k][v].p \in {"rw", "rx"}]
        /\ \A n \in Mm, u \in Page :
             \/ pte'[n][u] = pte[n][u]
             \/ /\ n = k /\ IsMig(n, u, mig.src) /\ ClusterOf(u) = ClusterOf(v) /\ u >= v
                /\ EntryIs(pte'[n][u], "map", f, u - v, RestoreKind(v))
                /\ u - v = SubOf(u) - SubOf(v)
    BY <1>1, <1>2, RestoreAt
  <1>4. /\ excl'[f] <=> excl[f] \/ pte[k][v].p \in {"rw", "rx"}
        /\ \A g \in Frame : g # f => excl'[g] = excl[g]
    BY <1>1, <1>3, Zenon DEF TypeOK
  <1>5. /\ \A n \in Mm, u \in Page : IsNone(n, u)' = IsNone(n, u) /\ Folio(n, u)' = Folio(n, u)
        /\ \A n \in Mm, u \in Page, g \in Frame : Of(n, u, g)' = Of(n, u, g)
        /\ \A g \in Frame : Sole(g)' = Sole(g)
    <2>1. ASSUME NEW n \in Mm, NEW u \in Page
          PROVE  IsNone(n, u)' = IsNone(n, u) /\ Folio(n, u)' = Folio(n, u)
      BY <1>2, <1>3 DEF IsNone, Folio, EntryIs, IsMig
    <2> QED
      BY <2>1 DEF Of, Sole
  <1>6. /\ Of(k, v, f) /\ Folio(k, v) = f /\ pte[k][v].k = "mig" /\ ~IsNone(k, v)
        /\ pte[k][v].p \in {"rw", "rx", "ro"}
    <2>1. pte[k][v].k = "mig" /\ ~IsNone(k, v)
      BY <1>3 DEF IsMig, IsNone
    <2> QED
      BY <1>1, <1>2, <1>3, <2>1, Present DEF Of
  <1>7. RestoreKind(v) = IF pte[k][v].p = "rw" THEN "rw" ELSE "ro"
    BY <1>2 DEF RestoreKind
  <1>8. stage[k] # "dying" => SubOf(v) = 0
    BY <1>2 DEF RestoreWhole
  <1>9. AlignedLive'
    <2> SUFFICES ASSUME NEW n \in Mm, NEW u \in Page, ~IsNone(n, u), stage[n] # "dying"
                 PROVE  pte'[n][u].s = SubOf(u)
      BY <1>3, <1>5 DEF AlignedLive
    <2>1. CASE pte'[n][u] = pte[n][u]
      BY <1>1, <2>1 DEF AlignedLive
    <2>2. CASE n = k /\ pte'[n][u].s = SubOf(u) - SubOf(v)
      <3>1. SubOf(u) \in Nat
        BY DivMod, PageNat DEF Sub
      <3> QED
        BY <1>8, <2>2, <3>1
    <2> QED
      BY <1>3, <2>1, <2>2 DEF EntryIs
  <1>10. pte[k][v].p # "ro" => Sole(f)
    BY <1>1, <1>6 DEF KindSole
  <1>11. ExclSole'
    BY <1>1, <1>4, <1>5, <1>10 DEF ExclSole
  <1>12. ASSUME NEW n \in Mm, NEW u \in Page, pte'[n][u].k = "mig"
         PROVE  pte'[n][u] = pte[n][u] /\ Folio(n, u) = f /\ Folio(n, u)' = f
    <2>1. pte'[n][u] = pte[n][u]
      BY <1>3, <1>12 DEF EntryIs
    <2> QED
      BY <1>2, <1>3, <1>12, <2>1 DEF Folio
  <1>13. KindSole'
    <2> SUFFICES ASSUME NEW n \in Mm, NEW u \in Page, pte'[n][u].k = "mig", pte'[n][u].p # "ro"
                 PROVE  Sole(Folio(n, u))'
      BY DEF KindSole
    <2>1. Sole(f)
      BY <1>1, <1>12 DEF KindSole
    <2> QED
      BY <1>5, <1>12, <2>1 DEF Sole, Of
  <1>14. RwExcl'
    <2> SUFFICES ASSUME NEW n \in Mm, NEW u \in Page, Rw(n, u)'
                 PROVE  excl'[pte'[n][u].f]
      BY DEF RwExcl
    <2>1. CASE pte'[n][u] = pte[n][u]
      <3>1. PICK g \in Frame : g = pte[n][u].f /\ g = pte'[n][u].f
        BY <1>1, <2>1, EntryFields DEF Rw, TypeOK
      <3>2. excl[g]
        BY <1>1, <1>3, <2>1, <3>1 DEF RwExcl, Rw, InRest, Cut
      <3> QED
        BY <1>4, <3>1, <3>2
    <2>2. CASE EntryIs(pte'[n][u], "map", f, u - v, RestoreKind(v))
      <3>1. pte[k][v].p = "rw" /\ pte'[n][u].f = f
        BY <1>7, <2>2 DEF EntryIs, Rw
      <3> QED
        BY <1>4, <3>1
    <2> QED
      BY <1>3, <2>1, <2>2
  <1>15. ForkRest'
    BY <1>1, <1>3 DEF ForkRest, Forking
  <1>16. PinnedSole'
    <2> SUFFICES ASSUME NEW g \in Frame, pin[g] > 0
                 PROVE  /\ Sole(g)'
                        /\ \A n \in Mm, u \in Page :
                             Maps(n, u, g)' /\ stage[n] # "dying" => excl'[g]
      BY <1>3 DEF PinnedSole
    <2>1. ASSUME NEW n \in Mm, NEW u \in Page, Maps(n, u, g)', stage[n] # "dying"
          PROVE  excl'[g]
      <3>1. CASE pte'[n][u] = pte[n][u]
        <4>1. excl[g]
          BY <1>1, <1>3, <2>1, <3>1 DEF PinnedSole, Maps, Cut
        <4> QED
          BY <1>4, <4>1
      <3>2. CASE n = k /\ EntryIs(pte'[n][u], "map", f, u - v, RestoreKind(v))
        <4>1. g = f /\ SubOf(v) = 0
          BY <1>8, <2>1, <3>2 DEF Maps, EntryIs
        <4>2. pte[k][v].p # "ro"
          BY <1>1, <1>6, <2>1, <3>2, <4>1 DEF HeadRo
        <4> QED
          BY <1>4, <1>6, <4>1, <4>2
      <3> QED
        BY <1>3, <3>1, <3>2
    <2> QED
      BY <1>1, <1>5, <2>1 DEF PinnedSole
  <1>17. ASSUME AllRo(f)
         PROVE  AllRo(f)' /\ (excl'[f] => excl[f])
    <2>1. pte[k][v].p = "ro" /\ RestoreKind(v) = "ro"
      BY <1>6, <1>7, <1>17 DEF AllRo
    <2>2. AllRo(f)'
      <3> SUFFICES ASSUME NEW l \in Mm, NEW w \in Page, Of(l, w, f)'
                   PROVE  pte'[l][w].p = "ro"
        BY DEF AllRo
      <3> QED
        BY <1>3, <1>5, <1>17, <2>1 DEF AllRo, EntryIs
    <2> QED
      BY <1>4, <2>1, <2>2
  <1>18. HeadRo'
    <2> SUFFICES ASSUME NEW n \in Mm, NEW u \in Page, pte'[n][u].k = "mig", SubOf(u) = 0,
                        pte'[n][u].p = "ro", stage[n] # "dying"
                 PROVE  ~excl'[Folio(n, u)'] /\ pin[Folio(n, u)'] = 0 /\ AllRo(Folio(n, u))'
      BY <1>3 DEF HeadRo
    <2>1. ~excl[f] /\ pin[f] = 0 /\ AllRo(f)
      BY <1>1, <1>12 DEF HeadRo
    <2> QED
      BY <1>12, <1>17, <2>1 DEF AllRo, Of
  <1>19. ForkQuiet'
    BY <1>1, <1>3 DEF ForkQuiet, Forking
  <1>20. ASSUME NEW s \in Context
         PROVE  FaultOK(s)'
    <2>1. ctx'[s] = ctx[s] /\ \A g \in Frame : data'[g] = data[g]
      BY <1>3
    <2>2. ASSUME ctx[s].old = f
          PROVE  AllRo(f)
      <3>1. CASE ctx[s].st \in {"wp", "wpc"}
        BY <2>2, <3>1, MemKnown DEF FaultOK, OldPlain
      <3>2. CASE ctx[s].st \in {"idle", "anon"}
        BY <1>1, <2>2, <3>2, DataAssumption, Known DEF CtxBook, Idle
      <3> QED
        BY <1>1, <3>1, <3>2, CtxFolios
    <2>3. \A g \in Frame : \/ data'[g] = data[g] /\ (excl'[g] => excl[g])
                           \/ data'[g] = data[g] /\ ctx[s].old # g
      <3> SUFFICES ASSUME NEW g \in Frame, g = ctx[s].old
                   PROVE  excl'[g] => excl[g]
        BY <2>1
      <3> QED
        BY <1>4, <1>17, <2>2
    <2>4. \A g \in Frame : g = ctx[s].old =>
            \A n \in Mm, u \in Page : Of(n, u, g)' =>
              pte'[n][u].p = "ro" \/ (Of(n, u, g) /\ pte'[n][u].p = pte[n][u].p)
      <3> SUFFICES ASSUME NEW g \in Frame, g = ctx[s].old, NEW n \in Mm, NEW u \in Page, Of(n, u, g)'
                   PROVE  pte'[n][u].p = "ro" \/ (Of(n, u, g) /\ pte'[n][u].p = pte[n][u].p)
        OBVIOUS
      <3>1. CASE pte'[n][u] = pte[n][u]
        BY <1>5, <3>1
      <3>2. CASE pte'[n][u] # pte[n][u]
        <4>1. IsMig(n, u, mig.src)
          BY <1>3, <3>2
        <4>2. Folio(n, u) = f
          BY <1>2, <1>3, <4>1 DEF Folio, IsMig
        <4>3. g = f
          BY <1>5, <4>2 DEF Of
        <4>4. AllRo(f)'
          BY <1>17, <2>2, <4>3
        <4> QED
          BY <4>3, <4>4 DEF AllRo
      <3> QED
        BY <3>1, <3>2
    <2> QED
      BY <2>1, <2>3, <2>4, FaultKept
  <1>21. RestData'
    BY <1>2, <1>3, <1>12, RestKept
  <1> QED
    BY <1>9, <1>11, <1>13, <1>14, <1>15, <1>16, <1>18, <1>19, <1>20, <1>21, MemNext DEF FolioRights

\* Migration.
LEMMA MigMem ==
  ASSUME MemInv, Base', MigNext, \A v \in Page : RestoreWhole(v)
  PROVE  MemInv'
  BY MigFrameMem, MigMoveMem, MigDoneMem, UnmapPinnedMem, UnmapBatchMem, RestoreMem
  DEF MigNext, MigStep

----------------------------------------------------------------------------
(* The theorems that follow from the invariant *)

\* A step that changes nothing.
LEMMA MemStutter ==
  ASSUME MemInv, Base', UNCHANGED vars
  PROVE  MemInv'
  <1>1. UNCHANGED <<excl, data, pin, ctx, fork, mig>> /\ UNCHANGED <<pte, stage>>
    BY DEF vars
  <1>2. \A m \in Mm : InFork(m) => stage'[m] = stage[m]
    BY <1>1
  <1>3. \A m \in Mm, v \in Page : ~IsNone(m, v)' =>
          pte'[m][v] = pte[m][v] /\ (stage'[m] # "dying" => stage[m] # "dying")
    BY <1>1
  <1> QED
    BY <1>1, <1>2, <1>3, TakeAway

\* At first nothing is mapped, pinned, forked or migrated, and no fault runs.
LEMMA MemInit ==
  ASSUME Init, Base
  PROVE  MemInv
  <1>1. /\ \A m \in Mm, v \in Page : IsNone(m, v) /\ pte[m][v].k = "none"
        /\ ~Forking /\ \A f \in Frame : pin[f] = 0 /\ ~excl[f]
        /\ \A t \in Context : ctx[t].st = "idle"
        /\ mig.ph = "idle"
    BY DEF Init, Absent, IsNone, Forking, NoFork, Idle, MigIdle
  <1>2. FolioRights
    <2>1. AlignedLive /\ KindSole /\ RwExcl /\ HeadRo
      BY <1>1 DEF AlignedLive, KindSole, RwExcl, HeadRo, Rw
    <2>2. ForkRest /\ PinnedSole
      BY <1>1 DEF ForkRest, PinnedSole
    <2>3. ExclSole
      BY <1>1 DEF ExclSole
    <2> QED
      BY <2>1, <2>2, <2>3 DEF FolioRights
  <1>3. ForkQuiet /\ RestData /\ \A t \in Context : FaultOK(t)
    BY <1>1 DEF ForkQuiet, RestData, FaultOK, OldPlain, CopyData, AnonZero
  <1> QED
    BY <1>2, <1>3 DEF MemInv, Rights

\* The steps the theorems are about.
LEMMA MemStep ==
  ASSUME ~ForkOverlaps, MemInv, Base', [Next]_vars,
         [\A v \in Page : FailsWhole(v)]_vars, [\A v \in Page : RestoreWhole(v)]_vars
  PROVE  MemInv'
  <1>1. CASE UNCHANGED vars
    BY <1>1, MemStutter
  <1>2. CASE Next /\ (\A v \in Page : FailsWhole(v)) /\ (\A v \in Page : RestoreWhole(v))
    BY <1>2, FaultMem, ForkMem, ZapPinMem, MigMem DEF Next
  <1> QED
    BY <1>1, <1>2

\* The inductive invariant of private memory.
THEOREM MemoryInductive ==
  ASSUME ~ForkOverlaps
  PROVE  Spec /\ ForksFailWhole /\ RestoresWhole => []MemInv
  <1>1. Init /\ Base => MemInv
    BY MemInit
  <1>2. /\ MemInv /\ Base' /\ [Next]_vars
        /\ [\A v \in Page : FailsWhole(v)]_vars /\ [\A v \in Page : RestoreWhole(v)]_vars
        => MemInv'
    BY MemStep
  <1>3. Spec => []Base
    BY WalksComplete, WalksInductive, PTL DEF Base
  <1> QED
    BY <1>1, <1>2, <1>3, PTL DEF Spec, ForksFailWhole, RestoresWhole

\* Nothing is restored where nothing is migrated.
LEMMA NoRestores ==
  ASSUME ~Migrating
  PROVE  Spec => RestoresWhole
  <1>1. OwnerInv => \A v \in Page : RestoreWhole(v)
    BY DEF OwnerInv, Still, RestoreWhole, MigRestore
  <1> QED
    BY <1>1, OwnersInductive, PTL DEF RestoresWhole

\* The copy a COW fault makes without the page-table lock is, at the commit,
\* still what the old folio holds, for every PTE the commit moves.
THEOREM CopiesCurrent ==
  ASSUME ~ForkOverlaps
  PROVE  Spec /\ ForksFailWhole /\ RestoresWhole => []CopyIsCurrent
  <1>1. MemInv => CopyIsCurrent
    BY MemKnown DEF FaultOK, CopyData, CopyIsCurrent
  <1> QED
    BY <1>1, MemoryInductive, PTL

\* Every PTE of a live address space maps the sub-page its address stands for.
THEOREM SubPagesAligned ==
  ASSUME ~ForkOverlaps
  PROVE  Spec /\ ForksFailWhole /\ RestoresWhole => []SubPageAligned
  <1>1. MemInv => SubPageAligned
    BY MemKnown DEF FolioRights, AlignedLive, SubPageAligned, IsNone
  <1> QED
    BY <1>1, MemoryInductive, PTL

\* An exclusive folio is in one address space: no fork leaves the flag set, and
\* no restored batch sets it on a folio somebody else has.
THEOREM ExclusiveAlone ==
  ASSUME ~ForkOverlaps
  PROVE  Spec /\ ForksFailWhole /\ RestoresWhole => []ExclusiveOwner
  <1>1. MemInv => ExclusiveOwner
    <2> SUFFICES ASSUME MemInv, NEW f \in Frame, excl[f],
                        NEW m \in Mm, NEW n \in Mm, NEW v \in Page, NEW u \in Page,
                        Maps(m, v, f), Maps(n, u, f)
                 PROVE  m = n
      BY DEF ExclusiveOwner
    <2>1. ExclSole
      BY MemKnown DEF FolioRights
    <2> QED
      BY <2>1, MapsOf DEF ExclSole, Sole
  <1> QED
    BY <1>1, MemoryInductive, PTL

\* Where a migration left the folio it moved from, nobody maps or pins it.
LEMMA LeftAlone ==
  ASSUME MemInv, mig.ph = "restore", mig.to # mig.src
  PROVE  /\ mig.src \in Frame /\ pin[mig.src] = 0
         /\ \A m \in Mm, v \in Page : ~Maps(m, v, mig.src)
  <1>1. mig.src \in Frame /\ ref[mig.src] = 1 /\ BookInv
    BY MemKnown DEF MigWalk, LoneSrc, BookInv, IInv, MigHasFolios
  <1> QED
    BY <1>1, LoneFolio

\* Entries of one folio stand for one folio.
LEMMA SameFolio ==
  ASSUME MemInv, NEW m \in Mm, NEW v \in Page, NEW n \in Mm, NEW u \in Page,
         ~IsNone(m, v), ~IsNone(n, u), pte[m][v].f = pte[n][u].f
  PROVE  Folio(m, v) = Folio(n, u)
  <1>1. Base
    BY MemKnown
  <1>2. CASE mig.ph = "restore" /\ mig.to # mig.src
    BY <1>1, <1>2, Present, LeftAlone DEF Folio
  <1>3. CASE ~(mig.ph = "restore" /\ mig.to # mig.src)
    BY <1>1, <1>3, Present DEF Folio
  <1> QED
    BY <1>2, <1>3

\* A hardware page somebody may write, or will when its migration ends, is in
\* no other page table.
LEMMA RwPlace ==
  ASSUME MemInv, NEW m \in Mm, NEW v \in Page, NEW n \in Mm, NEW u \in Page,
         ~IsNone(m, v), pte[m][v].p = "rw", ~IsNone(n, u),
         pte[m][v].f = pte[n][u].f, pte[m][v].s = pte[n][u].s
  PROVE  m = n
  <1> DEFINE g == Folio(m, v)
  <1>1. /\ Base /\ g \in Frame /\ Of(m, v, g) /\ Of(n, u, g) /\ pte[m][v].k \in {"map", "mig"}
        /\ RwExcl /\ ForkRest /\ ForkQuiet /\ ExclSole /\ KindSole /\ ForkBook
    BY MemKnown, Present, SameFolio DEF FolioRights, Of
  <1>2. CASE pte[m][v].k = "mig"
    <2>1. Sole(g)
      BY <1>1, <1>2 DEF KindSole
    <2> QED
      BY <1>1, <2>1 DEF Sole
  <1>3. CASE pte[m][v].k = "map"
    <2>1. Rw(m, v) /\ g = pte[m][v].f
      BY <1>1, <1>3 DEF Rw, Folio
    <2>2. CASE Sole(g)
      BY <1>1, <2>2 DEF Sole
    <2>3. CASE ~Sole(g)
      <3>1. Forking /\ m = fork.p /\ v >= fork.pos
        BY <1>1, <2>1, <2>3 DEF RwExcl, ExclSole, InRest
      <3>2. Maps(n, u, pte[fork.p][v].f)
        BY <1>1, <2>1, <3>1, ForkIdle
      <3>3. n \in {fork.p, fork.c}
        BY <1>1, <2>1, <3>1, <3>2 DEF ForkRest
      <3>4. CASE n = fork.c
        <4>1. stage[m] # "dying" /\ stage[n] # "dying"
          BY <1>1, <3>1, <3>4 DEF ForkQuiet
        <4>2. u = v
          BY <4>1, SamePage
        <4>3. IsNone(n, u)
          BY <1>1, <3>1, <3>4, <4>2 DEF ForkBook
        <4> QED
          BY <4>3
      <3> QED
        BY <3>1, <3>3, <3>4
    <2> QED
      BY <2>2, <2>3
  <1> QED
    BY <1>1, <1>2, <1>3

\* A hardware page that one address space may write is in no other page table.
THEOREM WritersAlone ==
  ASSUME ~ForkOverlaps
  PROVE  Spec /\ ForksFailWhole /\ RestoresWhole => []CowIsolation
  <1>1. MemInv => CowIsolation
    <2> SUFFICES ASSUME MemInv, NEW m \in Mm, NEW n \in Mm, NEW v \in Page, NEW u \in Page,
                        m # n, ~IsNone(m, v), pte[m][v].f = pte[n][u].f,
                        pte[m][v].s = pte[n][u].s, pte[m][v].p = "rw"
                 PROVE  FALSE
      BY DEF CowIsolation
    <2>1. CASE IsNone(n, u)
      <3>1. pte[n][u] \in Entry /\ pte[m][v].f \in Frame
        BY MemKnown, Present DEF TypeOK
      <3>2. pte[n][u].f = NoFrame
        BY <2>1, <3>1 DEF IsNone, Entry, Absent
      <3> QED
        BY <3>1, <3>2, DataAssumption
    <2>2. CASE ~IsNone(n, u)
      BY <2>2, RwPlace
    <2> QED
      BY <2>1, <2>2
  <1> QED
    BY <1>1, MemoryInductive, PTL

\* A folio pinned for DMA is in one address space: forks copy it.
THEOREM PinnedAlone ==
  ASSUME ~ForkOverlaps
  PROVE  Spec /\ ForksFailWhole /\ RestoresWhole => []PinnedNotShared
  <1>1. MemInv => PinnedNotShared
    <2> SUFFICES ASSUME MemInv, NEW f \in Frame, pin[f] > 0,
                        NEW m \in Mm, NEW n \in Mm, NEW v \in Page, NEW u \in Page,
                        ~IsNone(m, v), pte[m][v].f = f, ~IsNone(n, u), pte[n][u].f = f
                 PROVE  m = n
      BY DEF PinnedNotShared
    <2>1. Sole(f) /\ Base
      BY MemKnown DEF FolioRights, PinnedSole
    <2>2. ASSUME NEW k \in Mm, NEW w \in Page, ~IsNone(k, w), pte[k][w].f = f
          PROVE  Of(k, w, f)
      <3>1. CASE mig.ph = "restore" /\ mig.to # mig.src
        BY <2>1, <2>2, <3>1, Present, LeftAlone DEF Of
      <3>2. CASE ~(mig.ph = "restore" /\ mig.to # mig.src)
        BY <2>1, <2>2, <3>2, Present DEF Of
      <3> QED
        BY <3>1, <3>2
    <2> QED
      BY <2>1, <2>2 DEF Sole
  <1> QED
    BY <1>1, MemoryInductive, PTL

\* While a folio is pinned, no fault, fork, zap or migration replaces it under
\* a PTE.
LEMMA PinStep ==
  ASSUME MemInv, Next, NEW m \in Mm, NEW v \in Page, ~IsNone(m, v), pin[pte[m][v].f] > 0
  PROVE  pte'[m][v].f \in {pte[m][v].f, NoFrame}
  <1> DEFINE f == pte[m][v].f
  <1>1. /\ BookInv /\ f \in Frame /\ PinnedSole
    BY MemKnown, Present DEF FolioRights
  <1>2. ASSUME pte' = pte PROVE pte'[m][v].f = f
    BY <1>2
  <1>3. CASE FaultNext
    <2>1. ASSUME NEW t \in Context, AnonMap(t) PROVE pte'[m][v].f = f
      BY <1>1, <2>1, AnonMapAt
    <2>2. ASSUME NEW t \in Context, WpCommit(t) PROVE pte'[m][v].f = f
      <3> SUFFICES ASSUME pte'[m][v] # pte[m][v]
                   PROVE  FALSE
        OBVIOUS
      <3>1. /\ m = ctx[t].m /\ Maps(m, v, ctx[t].old) /\ ctx[t].st = "wpc" /\ PtlFree(m)
            /\ stage[m] = "live"
        BY <1>1, <2>2, WpCommitAt DEF WpCommit
      <3>2. ~excl[f] /\ f = ctx[t].old
        BY <3>1, MemKnown DEF FaultOK, OldPlain, Maps
      <3>3. excl[f] \/ Cut(m, f)
        BY <1>1, <3>1, <3>2 DEF PinnedSole
      <3> QED
        BY <3>1, <3>2, <3>3 DEF Cut, PtlFree
    <2>3. ASSUME NEW t \in Context, NEW n \in Mm, NEW u \in Page, WpReuse(t, n, u)
          PROVE  pte'[m][v].f = f
      BY <1>1, <2>3, WpReuseAt DEF EntryIs
    <2>4. CASE \E n \in Mm, u \in Page, x \in Val : Store(n, u, x)
      BY <1>2, <2>4 DEF Store
    <2>5. CASE \E t \in Context, n \in Mm, u \in Page :
                 (\E g \in Frame : AnonAlloc(t, n, u, g)) \/ WpFault(t, n, u)
      <3>1. \A t, n, u, g : AnonAlloc(t, n, u, g) => pte' = pte
        BY DEF AnonAlloc
      <3>2. \A t, n, u : WpFault(t, n, u) => pte' = pte
        BY DEF WpFault
      <3> QED
        BY <1>2, <2>5, <3>1, <3>2, Zenon
    <2>6. CASE \E t \in Context :
                 AnonStale(t) \/ (\E g \in Frame : WpCopy(t, g)) \/ WpOom(t) \/ WpStale(t)
      BY <1>2, <2>6 DEF AnonStale, WpCopy, WpOom, WpStale
    <2> QED
      BY <1>3, <2>1, <2>2, <2>3, <2>4, <2>5, <2>6, Zenon DEF FaultNext
  <1>4. CASE ForkNext
    <2>1. ASSUME NEW u \in Page, ForkShare(u) PROVE pte'[m][v].f = f
      BY <1>1, <2>1, ForkShareAt DEF EntryIs, Maps
    <2>2. ASSUME NEW u \in Page, NEW new \in Frame, ForkCopy(u, new) PROVE pte'[m][v].f = f
      BY <1>1, <2>2, ForkCopyAt
    <2>3. ASSUME NEW u \in Page, ForkMig(u) PROVE FALSE
      BY <1>1, <2>3, ForkMigAt, ForkIdle
    <2> QED
      BY <1>2, <1>4, <2>1, <2>2, <2>3 DEF ForkNext, ForkStart, ForkNone, ForkFail, ForkDone
  <1>5. CASE ZapNext
    <2>1. ASSUME NEW n \in Mm, NEW u \in Page, NEW end \in (VmaFirst + 1)..(VmaLast + 1),
                 ZapBatch(n, u, end) \/ ZapMig(n, u, end)
          PROVE  pte'[m][v].f \in {f, NoFrame}
      BY <1>1, <2>1, ZapAt DEF Absent
    <2> QED
      BY <1>2, <1>5, <2>1 DEF ZapNext, DeferredPut, Exit, Reap
  <1>6. CASE PinNext
    BY <1>2, <1>6 DEF PinNext, Pin, Unpin
  <1>7. CASE MigNext
    <2>1. ASSUME NEW u \in Page, MigUnmap(u) PROVE pte'[m][v].f = f
      BY <1>1, <2>1, MigUnmapAt DEF Maps
    <2>2. ASSUME NEW u \in Page, MigRestore(u) PROVE pte'[m][v].f = f
      <3>1. \/ pte'[m][v] = pte[m][v]
            \/ IsMig(m, v, mig.src) /\ pte'[m][v].f = mig.to /\ mig.ph = "restore"
        BY <1>1, <2>2, MigRestoreAt
      <3> QED
        BY <3>1, LeftAlone DEF IsMig
    <2> QED
      BY <1>2, <1>7, <2>1, <2>2
      DEF MigNext, MigStep, MigUnmapNext, MigRestoreNext, MigNextMm, MigMove, MigDone, MigStart
  <1> QED
    BY <1>3, <1>4, <1>5, <1>6, <1>7 DEF Next

\* No step replaces a pinned folio under a PTE: the unmapping walk stops at it,
\* and the restoring walk has only folios that nobody could pin.
THEOREM PinnedStays ==
  ASSUME ~ForkOverlaps
  PROVE  Spec /\ ForksFailWhole /\ RestoresWhole => PinKeepsPage
  <1> DEFINE Stays == \A m \in Mm, v \in Page :
                        ~IsNone(m, v) /\ pin[pte[m][v].f] > 0 =>
                          pte'[m][v].f \in {pte[m][v].f, NoFrame}
  <1>1. MemInv /\ [Next]_vars => [Stays]_vars
    BY PinStep
  <1> QED
    BY <1>1, MemoryInductive, PTL DEF Spec, PinKeepsPage

----------------------------------------------------------------------------
(* What processes read *)

\* Nobody reads anything else after the step.
Unseen == \A m \in Mm, v \in Page : Contents(m, v)' = Contents(m, v)

\* No entry is of folio f.
Nowhere(f) == \A m \in Mm, v \in Page : ~IsNone(m, v) => pte[m][v].f # f

\* No entry is of a free folio.
LEMMA FreeNowhere ==
  ASSUME MemInv, NEW f \in Frame, Free(f)
  PROVE  Nowhere(f)
  <1>1. /\ BookInv /\ MigEntries /\ mig.src # f /\ \A m \in Mm, v \in Page : ~Maps(m, v, f)
    BY MemKnown, FreeAlone, UsedHeld DEF Free
  <1> QED
    BY <1>1, Unused DEF Nowhere

\* A step that leaves every PTE on its sub-page and writes no folio that is
\* mapped changes nothing a process reads.
LEMMA ViewKept ==
  ASSUME MemInv,
         \A m \in Mm, v \in Page : stage[m] # "dying" =>
           /\ pte'[m][v].k = "none" <=> pte[m][v].k = "none"
           /\ pte'[m][v].f = pte[m][v].f /\ pte'[m][v].s = pte[m][v].s,
         \A m \in Mm : stage'[m] = "dying" <=> stage[m] = "dying",
         \A f \in Frame : data'[f] = data[f] \/ Nowhere(f)
  PROVE  Unseen
  <1> SUFFICES ASSUME NEW m \in Mm, NEW v \in Page
               PROVE  Contents(m, v)' = Contents(m, v)
    BY DEF Unseen
  <1>1. CASE IsNone(m, v) \/ stage[m] = "dying"
    BY <1>1 DEF Contents, IsNone
  <1>2. CASE ~IsNone(m, v) /\ stage[m] # "dying"
    <2>1. data'[pte[m][v].f] = data[pte[m][v].f]
      BY <1>2, Present, MemKnown DEF Nowhere
    <2> QED
      BY <1>2, <2>1 DEF Contents, IsNone
  <1> QED
    BY <1>1, <1>2

\* A put is not seen: what it frees is in no page table.
LEMMA PutUnseen ==
  ASSUME MemInv, MemInv', UNCHANGED <<pte, stage>>, NEW F, Put(F)
  PROVE  Unseen
  <1>1. BookInv /\ BookInv' /\ MigEntries'
    BY MemKnown DEF MemInv, Base, OrphanInv
  <1>2. ASSUME NEW f \in Frame
        PROVE  data'[f] = data[f] \/ Nowhere(f)
    <2>1. CASE ~(data'[f] = data[f])
      <3>1. /\ f \notin {mig'.src, mig'.dst}
            /\ \A m \in Mm, v \in Page : ~Maps(m, v, f)'
        BY <1>1, <2>1, PutUnused
      <3>2. \A m \in Mm, v \in Page : ~IsNone(m, v) => pte[m][v].k \in {"map", "mig"}
        BY MemKnown, Present
      <3> QED
        BY <1>1, <3>1, <3>2 DEF Nowhere, Maps, MigEntries
    <2> QED
      BY <2>1
  <1> QED
    BY <1>2, ViewKept

\* Faults and pins show nobody anything new: an anonymous fault maps zeroes,
\* a COW commit maps a copy, and a put frees only what nobody maps.
LEMMA FaultUnseen ==
  ASSUME MemInv, MemInv', FaultNext \/ PinNext
  PROVE  Unseen \/ \E m \in Mm, v \in Page, x \in Val : Store(m, v, x)
  <1>0. BookInv /\ TypeOK
    BY MemKnown
  <1>1. ASSUME NEW t \in Context, AnonMap(t)
        PROVE  Unseen
    <2> DEFINE f == ctx[t].new
    <2>1. /\ UNCHANGED <<data, stage>> /\ ctx[t].st = "anon"
      BY <1>1 DEF AnonMap
    <2>2. /\ stage[ctx[t].m] = "live"
          /\ \A n \in Mm, u \in Page :
              \/ pte'[n][u] = pte[n][u]
              \/ n = ctx[t].m /\ IsNone(n, u) /\ EntryIs(pte'[n][u], "map", f, SubOf(u), "rw")
      BY <1>0, <1>1, AnonMapAt
    <2>3. \A u \in Page : SubOf(u) \in Sub
      BY PageNat, DivMod DEF SubOf, Sub
    <2>4. \A u \in Page : data[f][SubOf(u)] = Zero
      BY <2>1, <2>3, MemKnown DEF FaultOK, AnonZero, ZeroFrame
    <2> HIDE DEF f
    <2> SUFFICES ASSUME NEW n \in Mm, NEW u \in Page
                 PROVE  Contents(n, u)' = Contents(n, u)
      BY DEF Unseen
    <2>5. CASE pte'[n][u] = pte[n][u]
      BY <2>1, <2>5 DEF Contents, IsNone
    <2>6. CASE IsNone(n, u) /\ EntryIs(pte'[n][u], "map", f, SubOf(u), "rw")
      BY <2>1, <2>4, <2>6 DEF Contents, IsNone, EntryIs
    <2> QED
      BY <2>2, <2>5, <2>6
  <1>2. ASSUME NEW t \in Context, WpCommit(t)
        PROVE  Unseen
    <2>1. /\ UNCHANGED <<data, stage>> /\ ctx[t].st = "wpc"
      BY <1>2 DEF WpCommit
    <2>2. \A n \in Mm, u \in Page :
              \/ pte'[n][u] = pte[n][u]
              \/ /\ Maps(n, u, ctx[t].old)
                 /\ EntryIs(pte'[n][u], "map", ctx[t].new, pte[n][u].s, "rw")
      BY <1>0, <1>2, WpCommitAt
    <2>3. data[ctx[t].new] = data[ctx[t].old]
      BY <2>1, MemKnown DEF FaultOK, CopyData
    <2> SUFFICES ASSUME NEW n \in Mm, NEW u \in Page
                 PROVE  Contents(n, u)' = Contents(n, u)
      BY DEF Unseen
    <2>4. CASE pte'[n][u] = pte[n][u]
      BY <2>1, <2>4 DEF Contents, IsNone
    <2>5. CASE Maps(n, u, ctx[t].old) /\ EntryIs(pte'[n][u], "map", ctx[t].new, pte[n][u].s, "rw")
      BY <2>1, <2>3, <2>5 DEF Contents, IsNone, EntryIs, Maps
    <2> QED
      BY <2>2, <2>4, <2>5
  <1>3. ASSUME NEW t \in Context, NEW m \in Mm, NEW v \in Page, WpReuse(t, m, v)
        PROVE  Unseen
    <2>1. UNCHANGED <<data, stage>>
      BY <1>3 DEF WpReuse
    <2>2. \A n \in Mm, u \in Page : /\ pte'[n][u].k = pte[n][u].k
                                    /\ pte'[n][u].f = pte[n][u].f /\ pte'[n][u].s = pte[n][u].s
      BY <1>0, <1>3, WpReuseAt DEF EntryIs, Maps
    <2> QED
      BY <2>1, <2>2, ViewKept
  <1>4. ASSUME UNCHANGED <<pte, stage>>,
               \A f \in Frame : data'[f] = data[f] \/ Nowhere(f)
        PROVE  Unseen
    BY <1>4, ViewKept
  <1>5. ASSUME UNCHANGED <<pte, stage>>, NEW F, Put(F)
        PROVE  Unseen
    BY <1>5, PutUnseen
  <1>6. ASSUME NEW t \in Context, AnonStale(t) \/ WpOom(t) \/ WpStale(t)
        PROVE  Unseen
    BY <1>5, <1>6 DEF AnonStale, WpOom, WpStale
  <1>7. ASSUME NEW f \in Frame, NEW x, UNCHANGED <<pte, stage>>,
               Free(f), data' = [data EXCEPT ![f] = x]
        PROVE  Unseen
    <2>1. \A g \in Frame : g # f => data'[g] = data[g]
      BY <1>0, <1>7 DEF TypeOK
    <2>2. Nowhere(f)
      BY <1>7, FreeNowhere
    <2> QED
      BY <1>4, <1>7, <2>1, <2>2
  <1>8. ASSUME NEW t \in Context, NEW m \in Mm, NEW v \in Page, NEW f \in Frame,
               AnonAlloc(t, m, v, f)
        PROVE  Unseen
    BY <1>7, <1>8 DEF AnonAlloc
  <1>9. ASSUME NEW t \in Context, NEW f \in Frame, WpCopy(t, f)
        PROVE  Unseen
    BY <1>7, <1>9 DEF WpCopy
  <1>10. ASSUME NEW m \in Mm, NEW v \in Page, NEW t \in Context, WpFault(t, m, v)
         PROVE  Unseen
    BY <1>4, <1>10 DEF WpFault
  <1>11. ASSUME NEW m \in Mm, NEW v \in Page, Pin(m, v)
         PROVE  Unseen
    BY <1>4, <1>11 DEF Pin
  <1>12. ASSUME NEW f \in Frame, Unpin(f)
         PROVE  Unseen
    BY <1>5, <1>12 DEF Unpin
  <1> QED
    BY <1>1, <1>2, <1>3, <1>6, <1>8, <1>9, <1>10, <1>11, <1>12 DEF FaultNext, PinNext

\* A fork shows the child, for the pages it passes, what the parent reads then.
LEMMA ForkView ==
  ASSUME MemInv, NEW v \in Page,
         ForkShare(v) \/ \E new \in Frame : ForkCopy(v, new)
  PROVE  /\ Forking /\ fork.p \in Mm /\ fork.c \in Mm /\ fork.pos = v /\ v < fork'.pos
         /\ fork'.p = fork.p /\ fork'.c = fork.c /\ fork'.pos \in Nat /\ UNCHANGED stage
         /\ \A n \in Mm, u \in Page :
              Contents(n, u)' = IF n = fork.c /\ v <= u /\ u < fork'.pos
                                THEN Contents(fork.p, u) ELSE Contents(n, u)
  <1> DEFINE p == fork.p  c == fork.c  f == pte[p][v].f
  <1>1. BookInv /\ TypeOK /\ v \in Nat /\ \A u \in Page : u \in Nat
    BY MemKnown, PageNat
  <1>2. CASE ForkShare(v)
    <2>1. UNCHANGED <<data, stage>>
      BY <1>2 DEF ForkShare
    <2>2. /\ p \in Mm /\ c \in Mm /\ p # c /\ fork.pos = v /\ Forking
          /\ fork'.p = p /\ fork'.c = c
          /\ fork'.pos \in Nat /\ v < fork'.pos
          /\ \A n \in Mm, u \in Page :
               IF n \in {p, c} /\ v <= u /\ u < fork'.pos
               THEN /\ Maps(p, u, f) /\ IsNone(c, u)
                    /\ EntryIs(pte'[n][u], "map", f, pte[p][u].s, "ro")
               ELSE pte'[n][u] = pte[n][u]
      BY <1>1, <1>2, ForkShareAt
    <2>3. stage[p] = "live" /\ stage[c] = "embryo"
      BY <2>2, MemKnown DEF ForkQuiet
    <2> HIDE DEF p, c, f
    <2>4. ASSUME NEW n \in Mm, NEW u \in Page
          PROVE  Contents(n, u)' = IF n = c /\ v <= u /\ u < fork'.pos
                                   THEN Contents(p, u) ELSE Contents(n, u)
      <3>1. CASE n \in {p, c} /\ v <= u /\ u < fork'.pos
        <4>1. Maps(p, u, f) /\ EntryIs(pte'[n][u], "map", f, pte[p][u].s, "ro")
          BY <2>2, <3>1
        <4>2. Contents(n, u)' = data[f][pte[p][u].s]
          BY <2>1, <2>3, <3>1, <4>1 DEF Contents, IsNone, EntryIs
        <4>3. Contents(p, u) = data[f][pte[p][u].s]
          BY <2>3, <4>1 DEF Contents, IsNone, Maps
        <4> QED
          BY <3>1, <4>2, <4>3
      <3>2. CASE ~(n \in {p, c} /\ v <= u /\ u < fork'.pos)
        <4>1. pte'[n][u] = pte[n][u]
          BY <2>2, <3>2
        <4>2. Contents(n, u)' = Contents(n, u)
          BY <2>1, <4>1 DEF Contents, IsNone
        <4> QED
          BY <3>2, <4>2
      <3> QED
        BY <3>1, <3>2
    <2> QED
      BY <2>1, <2>2, <2>4 DEF p, c
  <1>3. ASSUME NEW new \in Frame, ForkCopy(v, new)
        PROVE  /\ Forking /\ p \in Mm /\ c \in Mm /\ fork.pos = v /\ v < fork'.pos
               /\ fork'.p = p /\ fork'.c = c /\ fork'.pos \in Nat /\ UNCHANGED stage
               /\ \A n \in Mm, u \in Page :
                    Contents(n, u)' = IF n = c /\ v <= u /\ u < fork'.pos
                                      THEN Contents(p, u) ELSE Contents(n, u)
    <2>1. UNCHANGED stage /\ data' = [data EXCEPT ![new] = data[f]]
      BY <1>3 DEF ForkCopy
    <2>2. /\ p \in Mm /\ c \in Mm /\ p # c /\ fork.pos = v /\ Forking
          /\ f \in Frame /\ Free(new) /\ Maps(p, v, f)
          /\ fork'.p = p /\ fork'.c = c /\ fork'.pos = v + 1
          /\ EntryIs(pte'[c][v], "map", new, pte[p][v].s, "rw")
          /\ \A n \in Mm, u \in Page : (n # c \/ u # v) => pte'[n][u] = pte[n][u]
      BY <1>1, <1>3, ForkCopyAt
    <2>3. stage[p] = "live" /\ stage[c] = "embryo"
      BY <2>2, MemKnown DEF ForkQuiet
    <2>4. data'[new] = data[f] /\ \A g \in Frame : g # new => data'[g] = data[g]
      BY <1>1, <2>1 DEF TypeOK
    <2>5. Nowhere(new)
      BY <1>3, <2>2, FreeNowhere
    <2> HIDE DEF p, c, f
    <2>6. ASSUME NEW n \in Mm, NEW u \in Page
          PROVE  Contents(n, u)' = IF n = c /\ u = v THEN Contents(p, u) ELSE Contents(n, u)
      <3>1. CASE n = c /\ u = v
        <4>1. Contents(n, u)' = data[f][pte[p][v].s]
          BY <2>1, <2>2, <2>3, <2>4, <3>1 DEF Contents, IsNone, EntryIs
        <4>2. Contents(p, v) = data[f][pte[p][v].s]
          BY <2>2, <2>3 DEF Contents, IsNone, Maps
        <4> QED
          BY <3>1, <4>1, <4>2
      <3>2. CASE n # c \/ u # v
        <4>1. pte'[n][u] = pte[n][u]
          BY <2>2, <3>2
        <4>2. ~IsNone(n, u) => data'[pte[n][u].f] = data[pte[n][u].f]
          BY <2>4, <2>5, Present, MemKnown DEF Nowhere
        <4>3. Contents(n, u)' = Contents(n, u)
          BY <2>1, <4>1, <4>2 DEF Contents, IsNone
        <4> QED
          BY <3>2, <4>3
      <3> QED
        BY <3>1, <3>2
    <2>7. \A u \in Page : u = v <=> v <= u /\ u < fork'.pos
      <3>1. fork'.pos = v + 1
        BY <2>2
      <3> QED
        BY <1>1, <3>1
    <2>8. v < fork'.pos /\ fork'.pos \in Nat
      BY <1>1, <2>2
    <2> QED
      BY <2>1, <2>2, <2>6, <2>7, <2>8
  <1> QED
    BY <1>2, <1>3

\* A zap shows a live process zeroes, in pages it discards.
LEMMA ZapView ==
  ASSUME MemInv, NEW m \in Mm, NEW v \in Page, NEW end \in (VmaFirst + 1)..(VmaLast + 1),
         ZapBatch(m, v, end) \/ ZapMig(m, v, end)
  PROVE  /\ ~InFork(m) /\ UNCHANGED <<stage, fork>>
         /\ \A n \in Mm, u \in Page :
              \/ Contents(n, u)' = Contents(n, u)
              \/ n = m /\ stage[m] = "live" /\ u \in Discardable /\ Contents(n, u)' = Zero
  <1>1. BookInv /\ v \in Nat /\ end \in Nat /\ \A u \in Page : u \in Nat
    BY PageNat, ClusterAssumption, MemKnown
  <1>2. UNCHANGED <<data, stage, fork>>
    BY DEF ZapBatch, ZapMig
  <1>3. /\ Zapping(m, v, end)
        /\ \A n \in Mm, u \in Page :
             \/ pte'[n][u] = pte[n][u]
             \/ n = m /\ v <= u /\ u < end /\ pte'[n][u] = Absent
    BY <1>1, ZapAt
  <1>4. /\ ~InFork(m)
        /\ stage[m] = "dying" \/ (stage[m] = "live" /\ v..(end - 1) \subseteq Discardable)
    BY <1>3 DEF Zapping
  <1>5. ASSUME NEW n \in Mm, NEW u \in Page
        PROVE  \/ Contents(n, u)' = Contents(n, u)
               \/ n = m /\ stage[m] = "live" /\ u \in Discardable /\ Contents(n, u)' = Zero
    <2>1. CASE pte'[n][u] = pte[n][u]
      BY <1>2, <2>1 DEF Contents, IsNone
    <2>2. CASE n = m /\ v <= u /\ u < end /\ pte'[n][u] = Absent
      <3>1. Contents(n, u)' = Zero
        BY <2>2 DEF Contents, IsNone, Absent
      <3>2. CASE stage[m] = "dying"
        BY <2>2, <3>1, <3>2 DEF Contents
      <3>3. CASE stage[m] = "live" /\ v..(end - 1) \subseteq Discardable
        <4>1. u \in v..(end - 1)
          BY <1>1, <2>2
        <4> QED
          BY <2>2, <3>1, <3>3, <4>1
      <3> QED
        BY <1>4, <3>2, <3>3
    <2> QED
      BY <1>3, <2>1, <2>2
  <1> QED
    BY <1>2, <1>4, <1>5

\* Migration shows nobody anything new: what the walks replace keeps its
\* sub-page, and what they restore is what was there at the move.
LEMMA MigUnseen ==
  ASSUME MemInv, MemInv', MigNext
  PROVE  Unseen
  <1>1. /\ BookInv /\ Base /\ TypeOK /\ AlignedLive /\ AlignedLive'
    BY MemKnown DEF FolioRights, MemInv, Rights
  <1>2. ASSUME UNCHANGED <<pte, stage>>, \A f \in Frame : data'[f] = data[f] \/ Nowhere(f)
        PROVE  Unseen
    BY <1>2, ViewKept
  <1>3. ASSUME NEW v \in Page, MigUnmap(v)
        PROVE  Unseen
    <2>1. /\ UNCHANGED <<data, stage>>
          /\ \A n \in Mm, u \in Page :
               \/ pte'[n][u] = pte[n][u]
               \/ /\ Maps(n, u, mig.src) /\ pte'[n][u].f = mig.src
                  /\ pte'[n][u].k \in {"map", "mig"}
      BY <1>1, <1>3, MigUnmapAt DEF MigUnmap
    <2>2. ASSUME NEW n \in Mm, NEW u \in Page, stage[n] # "dying"
          PROVE  /\ pte'[n][u].k = "none" <=> pte[n][u].k = "none"
                 /\ pte'[n][u].f = pte[n][u].f /\ pte'[n][u].s = pte[n][u].s
      <3>1. CASE pte'[n][u] = pte[n][u]
        BY <3>1
      <3>2. CASE Maps(n, u, mig.src) /\ pte'[n][u].f = mig.src /\ pte'[n][u].k \in {"map", "mig"}
        <4>1. pte[n][u].s = SubOf(u) /\ pte'[n][u].s = SubOf(u)
          BY <1>1, <2>1, <2>2, <3>2 DEF AlignedLive, IsNone, Maps
        <4> QED
          BY <3>2, <4>1 DEF Maps
      <3> QED
        BY <2>1, <3>1, <3>2
    <2> QED
      BY <2>1, <2>2, ViewKept
  <1>4. ASSUME NEW v \in Page, MigRestore(v)
        PROVE  Unseen
    <2>1. /\ UNCHANGED <<data, stage>> /\ mig.ph = "restore"
          /\ \A n \in Mm, u \in Page :
               \/ pte'[n][u] = pte[n][u]
               \/ IsMig(n, u, mig.src) /\ pte'[n][u].k = "map" /\ pte'[n][u].f = mig.to
      BY <1>1, <1>4, MigRestoreAt DEF MigRestore
    <2> SUFFICES ASSUME NEW n \in Mm, NEW u \in Page
                 PROVE  Contents(n, u)' = Contents(n, u)
      BY DEF Unseen
    <2>2. CASE pte'[n][u] = pte[n][u] \/ stage[n] = "dying"
      BY <2>1, <2>2 DEF Contents, IsNone
    <2>3. CASE /\ stage[n] # "dying"
               /\ IsMig(n, u, mig.src) /\ pte'[n][u].k = "map" /\ pte'[n][u].f = mig.to
      <3>1. pte[n][u].s = SubOf(u) /\ pte'[n][u].s = SubOf(u)
        BY <1>1, <2>1, <2>3 DEF AlignedLive, IsNone, IsMig
      <3>2. data[mig.to][pte[n][u].s] = data[mig.src][pte[n][u].s]
        BY <2>1, <2>3, MemKnown DEF RestData, IsMig
      <3>3. Contents(n, u) = data[mig.src][SubOf(u)]
        BY <2>3, <3>1 DEF Contents, IsNone, IsMig
      <3>4. Contents(n, u)' = data[mig.to][SubOf(u)]
        BY <2>1, <2>3, <3>1 DEF Contents, IsNone
      <3> QED
        BY <3>1, <3>2, <3>3, <3>4
    <2> QED
      BY <2>1, <2>2, <2>3
  <1>5. ASSUME MigMove
        PROVE  Unseen
    <2>1. /\ UNCHANGED <<pte, stage>>
          /\ data' = data \/ data' = [data EXCEPT ![mig.dst] = data[mig.src]]
          /\ mig.ph = "move"
      BY <1>5 DEF MigMove
    <2>2. /\ mig.dst \in Frame /\ mig.dst # mig.src /\ \A m \in Mm, v \in Page : ~Maps(m, v, mig.dst)
      BY <2>1, MemKnown DEF MigBook, DstUnmapped, BookInv, IInv, MigHasFolios
    <2>3. Nowhere(mig.dst)
      BY <2>2, MemKnown, Unused DEF Nowhere
    <2>4. \A f \in Frame : f # mig.dst => data'[f] = data[f]
      BY <1>1, <2>1 DEF TypeOK
    <2> QED
      BY <1>2, <2>1, <2>3, <2>4
  <1>6. ASSUME MigDone
        PROVE  Unseen
    BY <1>6, PutUnseen DEF MigDone
  <1>7. ASSUME MigUnmapNext \/ MigRestoreNext \/ \E src, dst \in Frame : MigStart(src, dst)
        PROVE  Unseen
    <2>1. UNCHANGED <<pte, stage, data>>
      BY <1>7 DEF MigUnmapNext, MigRestoreNext, MigNextMm, MigStart
    <2> QED
      BY <1>2, <2>1
  <1> QED
    BY <1>3, <1>4, <1>5, <1>6, <1>7 DEF MigNext, MigStep

\* No step that changes page tables changes what a live process reads, except
\* in pages it discards: no store is lost to a fault, a COW commit, a fork or a
\* migration.
THEOREM ContentsKept ==
  ASSUME ~ForkOverlaps
  PROVE  Spec /\ ForksFailWhole /\ RestoresWhole => RemapKeepsContents
  <1> DEFINE Unchanged == pte' # pte =>
        \A m \in Mm, v \in Page :
          stage[m] = "live" /\ v \notin Discardable => Contents(m, v)' = Contents(m, v)
  <1>1. MemInv /\ MemInv' /\ [Next]_vars => [Unchanged]_vars
    <2> SUFFICES ASSUME MemInv, MemInv', Next, pte' # pte,
                        NEW m \in Mm, NEW v \in Page, stage[m] = "live", v \notin Discardable
                 PROVE  Contents(m, v)' = Contents(m, v)
      OBVIOUS
    <2>1. CASE FaultNext \/ PinNext
      BY <2>1, FaultUnseen DEF Unseen, Store
    <2>2. CASE ForkNext
      <3>1. ASSUME NEW u \in Page, ForkShare(u) \/ \E new \in Frame : ForkCopy(u, new)
            PROVE  Contents(m, v)' = Contents(m, v)
        <4>1. stage[fork.c] = "embryo"
          BY <3>1, ForkView, MemKnown DEF ForkQuiet
        <4> QED
          BY <3>1, <4>1, ForkView
      <3>2. ASSUME NEW u \in Page, ForkMig(u) PROVE FALSE
        BY <3>2, ForkMigAt, ForkIdle, MemKnown
      <3> QED
        BY <2>2, <3>1, <3>2 DEF ForkNext, ForkStart, ForkNone, ForkFail, ForkDone
    <2>3. CASE ZapNext
      <3>1. ASSUME NEW n \in Mm, NEW u \in Page, NEW end \in (VmaFirst + 1)..(VmaLast + 1),
                   ZapBatch(n, u, end) \/ ZapMig(n, u, end)
            PROVE  Contents(m, v)' = Contents(m, v)
        BY <3>1, ZapView
      <3> QED
        BY <2>3, <3>1 DEF ZapNext, DeferredPut, Exit, Reap
    <2>4. CASE MigNext
      BY <2>4, MigUnseen DEF Unseen
    <2> QED
      BY <2>1, <2>2, <2>3, <2>4 DEF Next
  <1> QED
    BY <1>1, MemoryInductive, PTL DEF Spec, RemapKeepsContents

----------------------------------------------------------------------------
(* Page tables, folios and clusters implement private memory *)

View == [m \in Mm |-> [v \in Page |-> Contents(m, v)]]
Rest == IF Forking THEN {v \in Page : v >= fork.pos} ELSE {}
ForkSeen == [p |-> fork.p, c |-> fork.c, left |-> Rest]

\* What PrivateMemory is given for its variables.
LEMMA MemoryVars ==
  /\ Memory!vars = <<View, stage, ForkSeen>>
  /\ Memory!Forking <=> Forking
  /\ \A m : Memory!InFork(m) <=> InFork(m)
  BY DEF Memory!vars, View, ForkSeen, Rest, Memory!Forking, Memory!InFork, Forking, InFork

\* A step nobody sees leaves the memory.
LEMMA ViewSame ==
  ASSUME Unseen
  PROVE  View' = View
  BY DEF Unseen, View

\* A step seen by one address space alone.
LEMMA ViewRow ==
  ASSUME NEW m \in Mm, NEW row,
         \A n \in Mm, v \in Page :
           Contents(n, v)' = IF n = m THEN row[v] ELSE Contents(n, v)
  PROVE  View' = [View EXCEPT ![m] = [v \in Page |-> row[v]]]
  <1>1. View' = [n \in Mm |-> [v \in Page |-> Contents(n, v)']]
    BY DEF View
  <1>2. \A n \in Mm : n = m => [v \in Page |-> Contents(n, v)'] = [v \in Page |-> row[v]]
    OBVIOUS
  <1>3. \A n \in Mm : n # m => [v \in Page |-> Contents(n, v)'] = View[n]
    BY DEF View
  <1>4. View = [n \in Mm |-> View[n]]
    BY DEF View
  <1> QED
    BY <1>1, <1>2, <1>3, <1>4

\* The actions of PrivateMemory, of what it is given.
LEMMA MemoryActions ==
  /\ \A m, v, x :
       Memory!Write(m, v, x) <=> /\ stage[m] = "live"
                                 /\ View' = [View EXCEPT ![m][v] = x]
                                 /\ UNCHANGED <<stage, ForkSeen>>
  /\ \A p, c :
       Memory!ForkStart(p, c) <=> /\ ~Forking /\ stage[p] = "live" /\ stage[c] = "none"
                                  /\ stage' = [stage EXCEPT ![c] = "embryo"]
                                  /\ ForkSeen' = [p |-> p, c |-> c, left |-> Page]
                                  /\ View' = View
  /\ \A S :
       Memory!Copy(S) <=> /\ Forking /\ S \subseteq Rest
                          /\ View' = [View EXCEPT ![fork.c] =
                               [v \in Page |-> IF v \in S THEN View[fork.p][v] ELSE @[v]]]
                          /\ ForkSeen' = [ForkSeen EXCEPT !.left = @ \ S]
                          /\ stage' = stage
  /\ Memory!ForkDone <=> /\ Forking /\ Rest = {}
                         /\ stage' = [stage EXCEPT ![fork.c] = "live"]
                         /\ ForkSeen' = Memory!NoFork
                         /\ View' = View
  /\ Memory!ForkFail <=> /\ Forking
                         /\ stage' = [stage EXCEPT ![fork.c] = "dying"]
                         /\ View' = [View EXCEPT ![fork.c] = Memory!ZeroMem]
                         /\ ForkSeen' = Memory!NoFork
  /\ \A m, S :
       Memory!Discard(m, S) <=> /\ stage[m] = "live" /\ ~InFork(m) /\ S \subseteq Discardable
                                /\ View' = [View EXCEPT ![m] =
                                     [v \in Page |-> IF v \in S THEN Zero ELSE @[v]]]
                                /\ UNCHANGED <<stage, ForkSeen>>
  /\ \A m :
       Memory!Exit(m) <=> /\ stage[m] = "live" /\ m # Root /\ ~InFork(m)
                          /\ stage' = [stage EXCEPT ![m] = "dying"]
                          /\ View' = [View EXCEPT ![m] = Memory!ZeroMem]
                          /\ ForkSeen' = ForkSeen
  /\ \A m :
       Memory!Reap(m) <=> /\ stage[m] = "dying"
                          /\ stage' = [stage EXCEPT ![m] = "none"]
                          /\ UNCHANGED <<View, ForkSeen>>
  BY DEF Memory!Write, Memory!ForkStart, Memory!Copy, Memory!ForkDone, Memory!ForkFail,
         Memory!Discard, Memory!Exit, Memory!Reap, Memory!Forking, Memory!InFork,
         View, ForkSeen, Rest, Forking, InFork

\* At first everything is zero.
LEMMA MemoryInit == Init => Memory!Init
  <1> SUFFICES ASSUME Init PROVE Memory!Init
    OBVIOUS
  <1>1. \A m \in Mm, v \in Page : Contents(m, v) = Zero
    BY DEF Init, Contents, IsNone, Absent
  <1>2. View = [m \in Mm |-> Memory!ZeroMem]
    BY <1>1 DEF View, Memory!ZeroMem
  <1>3. ForkSeen = Memory!NoFork /\ stage = [m \in Mm |-> IF m = Root THEN "live" ELSE "none"]
    BY DEF Init, ForkSeen, Rest, Forking, NoFork, Memory!NoFork
  <1> QED
    BY <1>2, <1>3 DEF Memory!Init, View, ForkSeen, Rest

\* A store is a write of one page of one address space: nobody else maps the
\* hardware page, at this address or another.
LEMMA StoreWrites ==
  ASSUME MemInv, NEW m \in Mm, NEW v \in Page, NEW x \in Val, Store(m, v, x)
  PROVE  Memory!Write(m, v, x)
  <1> DEFINE f == pte[m][v].f  s == pte[m][v].s
             row == [View[m] EXCEPT ![v] = x]
  <1>1. /\ stage[m] = "live" /\ Rw(m, v) /\ UNCHANGED <<pte, stage, fork>>
        /\ data' = [data EXCEPT ![f] = [data[f] EXCEPT ![s] = x]]
        /\ TypeOK /\ ~IsNone(m, v)
    BY MemKnown DEF Store, Rw, IsNone
  <1>2. f \in Frame /\ s \in Sub
    BY <1>1, Present, MemKnown
  <1> HIDE DEF f, s
  <1>3. data[f] \in [Sub -> Val] /\ data'[f] = [data[f] EXCEPT ![s] = x]
        /\ \A g \in Frame : g # f => data'[g] = data[g]
    BY <1>1, <1>2 DEF TypeOK
  <1>4. ASSUME NEW n \in Mm, NEW u \in Page
        PROVE  Contents(n, u)' = IF n = m THEN row[u] ELSE Contents(n, u)
    <2>1. CASE n = m /\ u = v
      <3>1. Contents(n, u)' = data'[f][s]
        BY <1>1, <2>1 DEF Contents, IsNone, f, s
      <3>2. row[u] = x
        BY <2>1 DEF View
      <3> QED
        BY <1>2, <1>3, <2>1, <3>1, <3>2
    <2>2. CASE n # m \/ u # v
      <3>1. Contents(n, u)' = Contents(n, u)
        <4>1. CASE IsNone(n, u) \/ stage[n] = "dying"
          BY <1>1, <4>1 DEF Contents, IsNone
        <4>2. CASE ~IsNone(n, u) /\ stage[n] # "dying"
          <5>1. pte[n][u].f \in Frame /\ pte[n][u].s \in Sub
            BY <4>2, Present, MemKnown
          <5>2. ~(pte[n][u].f = f /\ pte[n][u].s = s)
            <6> SUFFICES ASSUME pte[n][u].f = f, pte[n][u].s = s PROVE FALSE
              OBVIOUS
            <6>1. n = m
              BY <1>1, <4>2, RwPlace DEF f, s, Rw
            <6>2. u = v
              BY <1>1, <4>2, SamePage DEF f, s
            <6> QED
              BY <2>2, <6>1, <6>2
          <5>3. data'[pte[n][u].f][pte[n][u].s] = data[pte[n][u].f][pte[n][u].s]
            BY <1>2, <1>3, <5>1, <5>2
          <5> QED
            BY <1>1, <4>2, <5>3 DEF Contents, IsNone
        <4> QED
          BY <4>1, <4>2
      <3>2. n = m => row[u] = Contents(n, u)
        BY <2>2 DEF View
      <3> QED
        BY <3>1, <3>2
    <2> QED
      BY <2>1, <2>2
  <1>5. row = [u \in Page |-> row[u]]
    BY DEF View
  <1> HIDE DEF row
  <1>6. View' = [View EXCEPT ![m] = row]
    BY <1>4, <1>5, ViewRow
  <1>7. UNCHANGED <<stage, ForkSeen>>
    BY <1>1 DEF ForkSeen, Rest, Forking
  <1>8. View' = [View EXCEPT ![m][v] = x]
    BY <1>6 DEF row
  <1> QED
    BY <1>1, <1>7, <1>8, MemoryActions

\* What a fork has come past is copied; what it has not is left.
LEMMA CopySeen ==
  ASSUME TypeOK, Forking, fork.p \in Mm, fork.c \in Mm, NEW v \in Page, fork.pos = v,
         v < fork'.pos, fork'.pos \in Nat, fork'.p = fork.p, fork'.c = fork.c, UNCHANGED stage,
         \A n \in Mm, u \in Page :
           Contents(n, u)' = IF n = fork.c /\ v <= u /\ u < fork'.pos
                             THEN Contents(fork.p, u) ELSE Contents(n, u)
  PROVE  \E S \in SUBSET Page : Memory!Copy(S)
  <1> DEFINE p == fork.p  c == fork.c
             row == [u \in Page |-> IF v <= u /\ u < fork'.pos THEN View[p][u] ELSE View[c][u]]
  <1>1. PICK S \in SUBSET Page : \A u \in Page : u \in S <=> v <= u /\ u < fork'.pos
    <2>1. {u \in Page : v <= u /\ u < fork'.pos} \in SUBSET Page
      OBVIOUS
    <2> QED
      BY <2>1
  <1>2. \A u \in Page : u \in Nat /\ v \in Nat
    BY PageNat
  <1>3. Forking' /\ Rest = {u \in Page : u >= v} /\ Rest' = {u \in Page : u >= fork'.pos}
    BY DEF Forking, Rest
  <1>4. S \subseteq Rest /\ Rest' = Rest \ S
    BY <1>1, <1>2, <1>3
  <1>5. ForkSeen' = [ForkSeen EXCEPT !.left = @ \ S]
    BY <1>4 DEF ForkSeen
  <1>6. View' = [View EXCEPT ![c] = [u \in Page |-> IF u \in S THEN View[p][u] ELSE @[u]]]
    <2>1. \A n \in Mm, u \in Page :
            Contents(n, u)' = IF n = c THEN row[u] ELSE Contents(n, u)
      BY DEF View
    <2>0. c \in Mm
      OBVIOUS
    <2> HIDE DEF row, c
    <2>2. View' = [View EXCEPT ![c] = [u \in Page |-> row[u]]]
      BY <2>0, <2>1, ViewRow
    <2>3. [u \in Page |-> row[u]] = [u \in Page |-> IF u \in S THEN View[p][u] ELSE View[c][u]]
      <3>1. ASSUME NEW u \in Page PROVE row[u] = IF u \in S THEN View[p][u] ELSE View[c][u]
        BY <1>1 DEF row
      <3> QED
        BY <3>1, Zenon
    <2> QED
      BY <2>2, <2>3
  <1>7. Memory!Copy(S)
    BY <1>4, <1>5, <1>6, MemoryActions
  <1> QED
    BY <1>7

\* Forks.
LEMMA ForkRefines ==
  ASSUME MemInv, ForkNext
  PROVE  Memory!Next
  <1>1. BookInv /\ TypeOK /\ ForkBook
    BY MemKnown
  <1>2. ASSUME NEW v \in Page, ForkShare(v) \/ \E new \in Frame : ForkCopy(v, new)
        PROVE  Memory!Next
    <2>1. \E S \in SUBSET Page : Memory!Copy(S)
      BY <1>1, <1>2, ForkView, CopySeen
    <2> QED
      BY <2>1 DEF Memory!Next
  <1>3. ASSUME NEW v \in Page, ForkNone(v)
        PROVE  Memory!Next
    <2>1. /\ Forking /\ fork.p \in Mm /\ fork.c \in Mm /\ fork.pos = v /\ UNCHANGED <<pte, data, stage>>
          /\ fork'.p = fork.p /\ fork'.c = fork.c /\ fork'.pos = v + 1 /\ IsNone(fork.p, v)
      BY <1>1, <1>3 DEF ForkNone, Copying, TypeOK
    <2>2. v \in Nat /\ v < fork'.pos /\ fork'.pos \in Nat
          /\ \A u \in Page : v <= u /\ u < fork'.pos => u = v
      <3>1. \A u \in Page : u \in Nat /\ v \in Nat
        BY PageNat
      <3> QED
        BY <2>1, <3>1
    <2>3. Unseen
      BY <2>1, ViewKept
    <2>4. IsNone(fork.c, v)
      BY <1>1, <2>1, <2>2 DEF ForkBook
    <2>5. Contents(fork.p, v) = Zero /\ Contents(fork.c, v) = Zero
      BY <2>1, <2>4 DEF Contents
    <2>6. \A n \in Mm, u \in Page :
            Contents(n, u)' = IF n = fork.c /\ v <= u /\ u < fork'.pos
                              THEN Contents(fork.p, u) ELSE Contents(n, u)
      BY <2>2, <2>3, <2>5 DEF Unseen
    <2>7. \E S \in SUBSET Page : Memory!Copy(S)
      BY <1>1, <2>1, <2>2, <2>6, CopySeen
    <2> QED
      BY <2>7 DEF Memory!Next
  <1>4. ASSUME NEW v \in Page, ForkMig(v)
        PROVE  FALSE
    BY <1>1, <1>4, ForkMigAt, ForkIdle
  <1>5. ASSUME NEW p \in Mm, NEW c \in Mm, ForkStart(p, c)
        PROVE  Memory!Next
    <2>1. /\ ~Forking /\ p # c /\ stage[p] = "live" /\ stage[c] = "none" /\ UNCHANGED <<pte, data>>
          /\ stage' = [stage EXCEPT ![c] = "embryo"]
          /\ fork' = [p |-> p, c |-> c, pos |-> VmaFirst]
      BY <1>5, PageNat DEF ForkStart
    <2>2. \A n \in Mm : stage'[n] = "dying" <=> stage[n] = "dying"
      BY <1>1, <2>1 DEF TypeOK
    <2>3. View' = View
      BY <2>1, <2>2, ViewKept, ViewSame
    <2>4. Rest' = Page
      <3>1. Forking' /\ fork'.pos = VmaFirst
        BY <2>1 DEF Forking
      <3>2. \A u \in Page : u >= VmaFirst
        BY ClusterAssumption DEF Page
      <3> QED
        BY <3>1, <3>2 DEF Rest
    <2>5. ForkSeen' = [p |-> p, c |-> c, left |-> Page]
      BY <2>1, <2>4 DEF ForkSeen
    <2>6. Memory!ForkStart(p, c)
      BY <2>1, <2>3, <2>5, MemoryActions
    <2> QED
      BY <2>6 DEF Memory!Next
  <1>6. ASSUME fork' = NoFork
        PROVE  ForkSeen' = Memory!NoFork
    BY <1>6 DEF ForkSeen, Rest, Forking, NoFork, Memory!NoFork
  <1>7. ASSUME ForkDone
        PROVE  Memory!Next
    <2>1. /\ Forking /\ fork.pos > VmaLast /\ UNCHANGED <<pte, data>> /\ fork' = NoFork
          /\ stage' = [stage EXCEPT ![fork.c] = "live"] /\ stage[fork.c] = "embryo"
      BY <1>1, <1>7 DEF ForkDone, ForkBook
    <2>2. \A n \in Mm : stage'[n] = "dying" <=> stage[n] = "dying"
      BY <1>1, <2>1 DEF TypeOK
    <2>3. View' = View
      BY <2>1, <2>2, ViewKept, ViewSame
    <2>4. Rest = {}
      <3>1. \A u \in Page : ~(u >= fork.pos)
        <4>1. fork.pos \in Nat /\ VmaLast \in Nat
          BY <1>1, ClusterAssumption DEF TypeOK
        <4> QED
          BY <2>1, <4>1 DEF Page
      <3> QED
        BY <3>1 DEF Rest
    <2>5. Memory!ForkDone
      BY <1>6, <2>1, <2>3, <2>4, MemoryActions
    <2> QED
      BY <2>5 DEF Memory!Next
  <1>8. ASSUME NEW v \in Page, ForkFail(v)
        PROVE  Memory!Next
    <2> DEFINE c == fork.c
    <2>1. /\ Forking /\ UNCHANGED <<pte, data>> /\ fork' = NoFork /\ c \in Mm
          /\ stage' = [stage EXCEPT ![c] = "dying"]
      BY <1>1, <1>8 DEF ForkFail, Copying, TypeOK
    <2> HIDE DEF c
    <2>2. stage'[c] = "dying" /\ \A n \in Mm : n # c => stage'[n] = stage[n]
      BY <1>1, <2>1 DEF TypeOK
    <2>3. \A n \in Mm, u \in Page :
            Contents(n, u)' = IF n = c THEN Memory!ZeroMem[u] ELSE Contents(n, u)
      BY <2>1, <2>2 DEF Contents, IsNone, Memory!ZeroMem
    <2>4. View' = [View EXCEPT ![c] = [u \in Page |-> Memory!ZeroMem[u]]]
      BY <2>1, <2>3, ViewRow
    <2>5. [u \in Page |-> Memory!ZeroMem[u]] = Memory!ZeroMem
      BY DEF Memory!ZeroMem
    <2>6. Memory!ForkFail
      BY <1>6, <2>1, <2>4, <2>5, MemoryActions DEF c
    <2> QED
      BY <2>6 DEF Memory!Next
  <1> QED
    BY <1>2, <1>3, <1>4, <1>5, <1>7, <1>8 DEF ForkNext

\* Zaps, late puts and the end of an address space.
LEMMA ZapRefines ==
  ASSUME MemInv, MemInv', ZapNext
  PROVE  Memory!Next \/ UNCHANGED <<View, stage, ForkSeen>>
  <1>1. BookInv /\ TypeOK /\ ForkBook
    BY MemKnown
  <1>2. ASSUME NEW m \in Mm, NEW v \in Page, NEW end \in (VmaFirst + 1)..(VmaLast + 1),
               ZapBatch(m, v, end) \/ ZapMig(m, v, end)
        PROVE  Memory!Next \/ UNCHANGED <<View, stage, ForkSeen>>
    <2>1. /\ ~InFork(m) /\ UNCHANGED <<stage, fork>>
          /\ \A n \in Mm, u \in Page :
               \/ Contents(n, u)' = Contents(n, u)
               \/ n = m /\ stage[m] = "live" /\ u \in Discardable /\ Contents(n, u)' = Zero
      BY <1>2, ZapView
    <2>2. UNCHANGED <<stage, ForkSeen>>
      BY <2>1 DEF ForkSeen, Rest, Forking
    <2>3. CASE stage[m] = "live"
      <3>1. PICK S \in SUBSET Page :
              \A u \in Page : u \in S <=> u \in Discardable /\ Contents(m, u)' = Zero
        <4>1. {u \in Page : u \in Discardable /\ Contents(m, u)' = Zero} \in SUBSET Page
          OBVIOUS
        <4> QED
          BY <4>1
      <3> DEFINE row == [u \in Page |-> IF u \in S THEN Zero ELSE View[m][u]]
      <3>2. \A n \in Mm, u \in Page :
              Contents(n, u)' = IF n = m THEN row[u] ELSE Contents(n, u)
        BY <2>1, <3>1 DEF View
      <3>3. [u \in Page |-> row[u]] = row
        OBVIOUS
      <3> HIDE DEF row
      <3>4. View' = [View EXCEPT ![m] = row]
        BY <3>2, <3>3, ViewRow
      <3>5. View' = [View EXCEPT ![m] = [u \in Page |-> IF u \in S THEN Zero ELSE @[u]]]
        BY <3>4 DEF row
      <3>6. S \subseteq Discardable
        BY <3>1
      <3>7. Memory!Discard(m, S)
        BY <2>1, <2>2, <2>3, <3>5, <3>6, MemoryActions
      <3> QED
        BY <3>7 DEF Memory!Next
    <2>4. CASE stage[m] # "live"
      <3>1. Unseen
        BY <2>1, <2>4 DEF Unseen
      <3> QED
        BY <2>2, <3>1, ViewSame
    <2> QED
      BY <2>3, <2>4
  <1>3. ASSUME NEW f \in Frame, DeferredPut(f)
        PROVE  UNCHANGED <<View, stage, ForkSeen>>
    <2>1. Unseen /\ UNCHANGED <<stage, fork>>
      BY <1>3, PutUnseen DEF DeferredPut
    <2> QED
      BY <2>1, ViewSame DEF ForkSeen, Rest, Forking
  <1>4. ASSUME NEW m \in Mm, Exit(m)
        PROVE  Memory!Next
    <2>1. /\ m # Root /\ stage[m] = "live" /\ ~InFork(m) /\ UNCHANGED <<pte, data, fork>>
          /\ stage' = [stage EXCEPT ![m] = "dying"]
      BY <1>4 DEF Exit
    <2>2. stage'[m] = "dying" /\ \A n \in Mm : n # m => stage'[n] = stage[n]
      BY <1>1, <2>1 DEF TypeOK
    <2>3. \A n \in Mm, u \in Page :
            Contents(n, u)' = IF n = m THEN Memory!ZeroMem[u] ELSE Contents(n, u)
      BY <2>1, <2>2 DEF Contents, IsNone, Memory!ZeroMem
    <2>4. View' = [View EXCEPT ![m] = [u \in Page |-> Memory!ZeroMem[u]]]
      BY <2>3, ViewRow
    <2>5. [u \in Page |-> Memory!ZeroMem[u]] = Memory!ZeroMem
      BY DEF Memory!ZeroMem
    <2>6. ForkSeen' = ForkSeen
      BY <2>1 DEF ForkSeen, Rest, Forking
    <2>7. Memory!Exit(m)
      BY <2>1, <2>4, <2>5, <2>6, MemoryActions
    <2> QED
      BY <2>7 DEF Memory!Next
  <1>5. ASSUME NEW m \in Mm, Reap(m)
        PROVE  Memory!Next
    <2>1. /\ stage[m] = "dying" /\ \A v \in Page : IsNone(m, v) /\ UNCHANGED <<pte, data, fork>>
          /\ stage' = [stage EXCEPT ![m] = "none"]
      BY <1>5, ClusterAssumption DEF Reap, Page
    <2>2. UNCHANGED <<pte, data, fork>>
      BY <1>5 DEF Reap
    <2>3. \A n \in Mm : n # m => stage'[n] = stage[n]
      BY <1>1, <2>1 DEF TypeOK
    <2>4. Unseen
      BY <2>1, <2>2, <2>3 DEF Unseen, Contents, IsNone
    <2>5. UNCHANGED <<View, ForkSeen>>
      BY <2>2, <2>4, ViewSame DEF ForkSeen, Rest, Forking
    <2>6. Memory!Reap(m)
      BY <2>1, <2>5, MemoryActions
    <2> QED
      BY <2>6 DEF Memory!Next
  <1> QED
    BY <1>2, <1>3, <1>4, <1>5 DEF ZapNext

\* Every step of the page tables is a step of private memory, or is not seen.
LEMMA MemoryStep ==
  ASSUME MemInv, MemInv', [Next]_vars
  PROVE  [Memory!Next]_(Memory!vars)
  <1> SUFFICES Memory!Next \/ UNCHANGED <<View, stage, ForkSeen>>
    BY DEF Memory!vars, View, ForkSeen, Rest
  <1>1. CASE FaultNext \/ PinNext
    <2>1. UNCHANGED <<stage, fork>>
      <3>1. ASSUME NEW m \in Mm, NEW v \in Page, NEW x \in Val, Store(m, v, x)
            PROVE  UNCHANGED <<stage, fork>>
        BY <3>1 DEF Store
      <3>2. ASSUME NEW t \in Context, NEW m \in Mm, NEW v \in Page,
                   (\E f \in Frame : AnonAlloc(t, m, v, f)) \/ WpFault(t, m, v)
            PROVE  UNCHANGED <<stage, fork>>
        BY <3>2 DEF AnonAlloc, WpFault
      <3>3. ASSUME NEW t \in Context, NEW m \in Mm, NEW v \in Page, WpReuse(t, m, v)
            PROVE  UNCHANGED <<stage, fork>>
        BY <3>3 DEF WpReuse
      <3>4. ASSUME NEW t \in Context, AnonMap(t) \/ AnonStale(t)
            PROVE  UNCHANGED <<stage, fork>>
        BY <3>4 DEF AnonMap, AnonStale
      <3>5. ASSUME NEW t \in Context, (\E f \in Frame : WpCopy(t, f)) \/ WpOom(t)
            PROVE  UNCHANGED <<stage, fork>>
        BY <3>5 DEF WpCopy, WpOom
      <3>6. ASSUME NEW t \in Context, WpCommit(t) \/ WpStale(t)
            PROVE  UNCHANGED <<stage, fork>>
        BY <3>6 DEF WpCommit, WpStale
      <3>7. CASE PinNext
        BY <3>7 DEF PinNext, Pin, Unpin
      <3> QED
        BY <1>1, <3>1, <3>2, <3>3, <3>4, <3>5, <3>6, <3>7 DEF FaultNext
    <2>2. UNCHANGED <<stage, ForkSeen>>
      BY <2>1 DEF ForkSeen, Rest, Forking
    <2>3. CASE Unseen
      BY <2>2, <2>3, ViewSame
    <2>4. ASSUME NEW m \in Mm, NEW v \in Page, NEW x \in Val, Store(m, v, x)
          PROVE  Memory!Next
      BY <2>4, StoreWrites DEF Memory!Next
    <2> QED
      BY <1>1, <2>3, <2>4, FaultUnseen
  <1>2. CASE ForkNext
    BY <1>2, ForkRefines
  <1>3. CASE ZapNext
    BY <1>3, ZapRefines
  <1>4. CASE MigNext
    <2>1. UNCHANGED <<stage, fork>>
      BY <1>4 DEF MigNext, MigStep, MigStart, MigUnmap, MigRestore, MigUnmapNext, MigRestoreNext,
                  MigNextMm, MigMove, MigDone
    <2>2. UNCHANGED <<stage, ForkSeen>>
      BY <2>1 DEF ForkSeen, Rest, Forking
    <2> QED
      BY <1>4, <2>2, MigUnseen, ViewSame
  <1>5. CASE UNCHANGED vars
    BY <1>5 DEF vars, View, Contents, IsNone, ForkSeen, Rest, Forking
  <1> QED
    BY <1>1, <1>2, <1>3, <1>4, <1>5 DEF Next

\* Where no pin is dropped and nothing migrated during a fork, no fork fails
\* with a folio shared in part and no batch is restored from inside a folio,
\* the page tables, folios and clusters implement private memory: every
\* address space reads back its own last store, a discarded page reads as
\* zero, a child starts with what its parent had while it was copied, and a
\* migration is no step at all.
THEOREM PrivateMemoryImplemented ==
  ASSUME ~ForkOverlaps
  PROVE  Spec /\ ForksFailWhole /\ RestoresWhole => ImplementsPrivateMemory
  <1>1. Init => Memory!Init
    BY MemoryInit
  <1>2. MemInv /\ MemInv' /\ [Next]_vars => [Memory!Next]_(Memory!vars)
    BY MemoryStep
  <1> QED
    BY <1>1, <1>2, MemoryInductive, PTL DEF Spec, ImplementsPrivateMemory, Memory!Spec

----------------------------------------------------------------------------
(* Where no cluster is taken apart *)

\* The setting in which nothing takes a cluster apart: the VMA begins with a
\* cluster and does not read randomly, nobody discards pages or pins them.
WholeSetting == VmaFirst % N = 0 /\ Discardable = {} /\ ~RandRead /\ MaxPin = 0

\* The entries of every cluster are of one kind and one folio.
Uniform(m) ==
  \A u, v \in Page :
    ClusterOf(u) = ClusterOf(v) => pte[m][u].k = pte[m][v].k /\ pte[m][u].f = pte[m][v].f

\* A fork stops inside a cluster only on its way past an empty one.
ForkHead == Forking /\ fork.pos \in Page /\ SubOf(fork.pos) # 0 => IsNone(fork.p, fork.pos)

WholeInv == /\ \A m \in Mm : stage[m] # "dying" => Uniform(m)
            /\ ForkHead
            /\ \A f \in Frame : pin[f] = 0

----------------------------------------------------------------------------
(* Pages of a cluster *)

\* Quotient and remainder are unique.
LEMMA DivUnique ==
  ASSUME NEW a \in Nat, NEW q \in Nat, NEW r \in 0..(N - 1), a = N * q + r
  PROVE  ClusterOf(a) = q /\ SubOf(a) = r
  <1> DEFINE c == ClusterOf(a)  s == SubOf(a)
  <1>1. c \in Nat /\ s \in 0..(N - 1) /\ a = N * c + s /\ N \in Nat
    BY DivMod, ClusterAssumption DEF Sub
  <1> HIDE DEF c, s
  <1>2. c = q
    <2>1. ASSUME c < q PROVE FALSE
      <3>1. q = c + 1 + (q - c - 1) /\ q - c - 1 \in Nat
        BY <1>1, <2>1
      <3>2. PICK d \in Nat : q = c + 1 + d
        BY <3>1
      <3>3. N * q = N * c + N + N * d /\ N * d \in Nat /\ N * c \in Nat
        BY <1>1, <3>2
      <3> QED
        BY <1>1, <3>3
    <2>2. ASSUME q < c PROVE FALSE
      <3>1. c = q + 1 + (c - q - 1) /\ c - q - 1 \in Nat
        BY <1>1, <2>2
      <3>2. PICK d \in Nat : c = q + 1 + d
        BY <3>1
      <3>3. N * c = N * q + N + N * d /\ N * d \in Nat /\ N * q \in Nat
        BY <1>1, <3>2
      <3> QED
        BY <1>1, <3>3
    <2> QED
      BY <1>1, <2>1, <2>2
  <1>3. s = r
    BY <1>1, <1>2
  <1> QED
    BY <1>2, <1>3 DEF c, s

\* From the first page of a cluster to any other there are only pages of it.
LEMMA ClusterRun ==
  ASSUME NEW v \in Page, SubOf(v) = 0, NEW u \in Page, ClusterOf(u) = ClusterOf(v)
  PROVE  /\ v <= u /\ u - v \in 0..(N - 1)
         /\ \A w \in v..u : w \in Page /\ ClusterOf(w) = ClusterOf(v) /\ SubOf(w) = w - v
  <1> DEFINE q == ClusterOf(v)
  <1>1. /\ v \in Nat /\ u \in Nat /\ q \in Nat /\ SubOf(u) \in 0..(N - 1)
        /\ v = N * q /\ u = N * q + SubOf(u) /\ N * q \in Nat
    <2>1. v \in Nat /\ u \in Nat /\ N \in Nat
      BY PageNat, ClusterAssumption
    <2>2. v = N * ClusterOf(v) + SubOf(v) /\ u = N * ClusterOf(u) + SubOf(u)
          /\ ClusterOf(v) \in Nat /\ SubOf(u) \in 0..(N - 1)
      BY <2>1, DivMod DEF Sub
    <2>3. N * q \in Nat
      BY <2>1, <2>2
    <2> QED
      BY <2>1, <2>2, <2>3
  <1> HIDE DEF q
  <1>2. v <= u /\ u - v \in 0..(N - 1)
    BY <1>1, ClusterAssumption
  <1>3. ASSUME NEW w \in v..u
        PROVE  w \in Page /\ ClusterOf(w) = ClusterOf(v) /\ SubOf(w) = w - v
    <2>1. w \in Nat /\ w - v \in 0..(N - 1) /\ w = N * q + (w - v)
      BY <1>1, <1>2, ClusterAssumption
    <2>2. PICK r \in 0..(N - 1) : r = w - v
      BY <2>1
    <2>3. ClusterOf(w) = q /\ SubOf(w) = r
      BY <1>1, <2>1, <2>2, DivUnique
    <2>4. w \in Page
      BY <1>1, ClusterAssumption DEF Page
    <2> QED
      BY <2>2, <2>3, <2>4 DEF q
  <1> QED
    BY <1>2, <1>3

\* Where the VMA begins with a cluster, it has the first page of every one.
LEMMA ClusterHead ==
  ASSUME VmaFirst % N = 0, NEW v \in Page
  PROVE  \E h \in Page : h <= v /\ SubOf(h) = 0 /\ ClusterOf(h) = ClusterOf(v)
  <1> DEFINE q == ClusterOf(v)  r == SubOf(v)  first == ClusterOf(VmaFirst)
  <1>1. /\ v \in Nat /\ VmaFirst \in Nat /\ N \in Nat /\ N > 0
        /\ q \in Nat /\ r \in 0..(N - 1) /\ first \in Nat
        /\ v = N * q + r /\ VmaFirst = N * first /\ VmaFirst <= v
    <2>1. v \in Nat /\ VmaFirst \in Nat /\ N \in Nat /\ N > 0 /\ VmaFirst <= v
      BY PageNat, ClusterAssumption DEF Page
    <2>2. SubOf(VmaFirst) = 0
      BY DEF SubOf
    <2>3. VmaFirst = N * ClusterOf(VmaFirst) + SubOf(VmaFirst) /\ ClusterOf(VmaFirst) \in Nat
      BY <2>1, DivMod
    <2>4. v = N * q + r /\ q \in Nat /\ r \in 0..(N - 1)
      BY <2>1, DivMod DEF Sub
    <2>5. N * first \in Nat
      BY <2>1, <2>3
    <2> QED
      BY <2>1, <2>2, <2>3, <2>4, <2>5
  <1> HIDE DEF q, r, first
  <1>2. first <= q
    <2> SUFFICES ASSUME q < first PROVE FALSE
      BY <1>1
    <2>1. PICK d \in Nat : first = q + 1 + d
      <3>1. first - q - 1 \in Nat /\ first = q + 1 + (first - q - 1)
        BY <1>1
      <3> QED
        BY <3>1
    <2>2. N * first = N * q + N + N * d /\ N * d \in Nat /\ N * q \in Nat
      BY <1>1, <2>1
    <2> QED
      BY <1>1, <2>2
  <1>3. PICK e \in Nat : q = first + e
    <2>1. q - first \in Nat /\ q = first + (q - first)
      BY <1>1, <1>2
    <2> QED
      BY <2>1
  <1>4. N * q = N * first + N * e /\ N * e \in Nat /\ N * q \in Nat
    BY <1>1, <1>3
  <1>5. N * q \in Page /\ N * q <= v
    BY <1>1, <1>4, ClusterAssumption DEF Page
  <1>6. ClusterOf(N * q) = q /\ SubOf(N * q) = 0
    <2>1. PICK a \in Nat : a = N * q
      BY <1>4
    <2>2. 0 \in 0..(N - 1) /\ a = N * q + 0
      BY <1>1, <2>1
    <2> QED
      BY <1>1, <2>1, <2>2, DivUnique
  <1> QED
    BY <1>5, <1>6 DEF q

----------------------------------------------------------------------------
(* Every step keeps clusters whole *)

\* A step that writes a whole cluster of m, and nothing else of it.
LEMMA UniformWritten ==
  ASSUME NEW m, Uniform(m), NEW c, NEW k, NEW f,
         \A u \in Page : IF ClusterOf(u) = c
                         THEN pte'[m][u].k = k /\ pte'[m][u].f = f
                         ELSE pte'[m][u].k = pte[m][u].k /\ pte'[m][u].f = pte[m][u].f
  PROVE  Uniform(m)'
  BY DEF Uniform

\* A step outside forks.
LEMMA WholeNext ==
  ASSUME MemInv, WholeInv, UNCHANGED <<fork, pin>>,
         \A m \in Mm : stage'[m] # "dying" =>
           \/ Uniform(m)'
           \/ /\ stage[m] # "dying"
              /\ \A u \in Page : pte'[m][u].k = pte[m][u].k /\ pte'[m][u].f = pte[m][u].f,
         Forking => \A u \in Page : pte[fork.p][u].k = "none" => pte'[fork.p][u].k = "none"
  PROVE  WholeInv'
  <1>1. \A m \in Mm : stage'[m] # "dying" => Uniform(m)'
    BY DEF WholeInv, Uniform
  <1>2. ForkHead'
    BY DEF WholeInv, ForkHead, Forking, IsNone
  <1> QED
    BY <1>1, <1>2 DEF WholeInv

\* A fault fills or moves whole clusters.
LEMMA FaultWhole ==
  ASSUME WholeSetting, MemInv, WholeInv, FaultNext
  PROVE  WholeInv'
  <1>1. BookInv /\ TypeOK /\ ForkQuiet /\ WalkInv
    BY MemKnown
  <1>2. ASSUME UNCHANGED <<pte, stage, fork, pin>>
        PROVE  WholeInv'
    BY <1>2, WholeNext
  <1>3. ASSUME NEW t \in Context, AnonMap(t)
        PROVE  WholeInv'
    <2>0. PICK m \in Mm, v \in Page, f \in Frame :
            m = ctx[t].m /\ v = ctx[t].v /\ f = ctx[t].new
      BY <1>1, <1>3, AnonMapAt
    <2> DEFINE S == {u \in Cluster(v) : IsNone(m, u)}
               new == [u \in S |-> MapTo(f, SubOf(u), "rw")]
    <2>1. /\ m \in Mm /\ v \in Page /\ stage[m] = "live" /\ IsNone(m, v)
          /\ UNCHANGED <<stage, fork, pin>> /\ ctx[t].st # "idle"
      BY <1>1, <1>3, <2>0, AnonMapAt DEF AnonMap
    <2>2. pte' = Install(m, new)
      BY <1>3, <2>0 DEF AnonMap, AnonTargets, WholeSetting
    <2>3. DOMAIN new = S /\ \A u \in S : new[u].k = "map" /\ new[u].f = f
      BY DEF MapTo
    <2>4. \A u \in Page : ClusterOf(u) = ClusterOf(v) => u \in S
      BY <2>1 DEF WholeInv, Uniform, Cluster, IsNone
    <2>5. \A u \in S : ClusterOf(u) = ClusterOf(v)
      BY DEF Cluster
    <2> HIDE DEF S, new
    <2>6. /\ \A n \in Mm, w \in Page : n # m => pte'[n][w] = pte[n][w]
          /\ \A w \in Page : pte'[m][w] = IF w \in S THEN new[w] ELSE pte[m][w]
      BY <1>1, <2>1, <2>2, <2>3, InstallAt
    <2>7. Uniform(m)'
      <3>1. \A u \in Page : IF ClusterOf(u) = ClusterOf(v)
                            THEN pte'[m][u].k = "map" /\ pte'[m][u].f = f
                            ELSE pte'[m][u].k = pte[m][u].k /\ pte'[m][u].f = pte[m][u].f
        BY <2>3, <2>4, <2>5, <2>6
      <3>2. Uniform(m)
        BY <2>1 DEF WholeInv
      <3> QED
        BY <3>1, <3>2, UniformWritten
    <2>8. Forking => fork.p # m /\ fork.p \in Mm
      BY <1>1, <2>0, <2>1 DEF ForkQuiet, TypeOK
    <2>9. Forking => \A u \in Page : pte[fork.p][u].k = "none" => pte'[fork.p][u].k = "none"
      BY <2>6, <2>8
    <2>10. \A n \in Mm : stage'[n] # "dying" =>
             \/ Uniform(n)'
             \/ /\ stage[n] # "dying"
                /\ \A u \in Page : pte'[n][u].k = pte[n][u].k /\ pte'[n][u].f = pte[n][u].f
      BY <2>1, <2>6, <2>7
    <2> QED
      BY <2>1, <2>9, <2>10, WholeNext
  <1>4. ASSUME NEW t \in Context, WpCommit(t)
        PROVE  WholeInv'
    <2>0. PICK m \in Mm, v \in Page, old \in Frame, f \in Frame :
            m = ctx[t].m /\ v = ctx[t].v /\ old = ctx[t].old /\ f = ctx[t].new
      BY <1>1, <1>4, WpCommitAt
    <2> DEFINE S == {u \in Cluster(v) : Maps(m, u, old)}
               new == [u \in S |-> MovedPte(f, pte[m][u])]
    <2>1. /\ m \in Mm /\ v \in Page /\ stage[m] = "live" /\ Maps(m, v, old)
          /\ UNCHANGED <<stage, fork, pin>> /\ pte' = Install(m, new)
      BY <1>1, <1>4, <2>0, WpCommitAt DEF WpCommit, WalkInv, OrigBook, Maps
    <2>2. DOMAIN new = S /\ \A u \in S : new[u].k = "map" /\ new[u].f = f
      BY DEF MovedPte, MapTo
    <2>3. \A u \in Page : ClusterOf(u) = ClusterOf(v) => u \in S
      BY <2>1 DEF WholeInv, Uniform, Cluster, Maps
    <2>4. \A u \in S : ClusterOf(u) = ClusterOf(v) /\ pte[m][u].k = "map"
      BY DEF Cluster, Maps
    <2> HIDE DEF S, new
    <2>5. /\ \A n \in Mm, w \in Page : n # m => pte'[n][w] = pte[n][w]
          /\ \A w \in Page : pte'[m][w] = IF w \in S THEN new[w] ELSE pte[m][w]
      BY <1>1, <2>1, <2>2, InstallAt
    <2>6. Uniform(m)'
      <3>1. \A u \in Page : IF ClusterOf(u) = ClusterOf(v)
                            THEN pte'[m][u].k = "map" /\ pte'[m][u].f = f
                            ELSE pte'[m][u].k = pte[m][u].k /\ pte'[m][u].f = pte[m][u].f
        BY <2>2, <2>3, <2>4, <2>5
      <3>2. Uniform(m)
        BY <2>1 DEF WholeInv
      <3> QED
        BY <3>1, <3>2, UniformWritten
    <2>7. fork.p \in Mm
      BY <1>1 DEF TypeOK
    <2>8. \A u \in Page : pte[fork.p][u].k = "none" => pte'[fork.p][u].k = "none"
      BY <2>2, <2>4, <2>5, <2>7
    <2>9. \A n \in Mm : stage'[n] # "dying" =>
             \/ Uniform(n)'
             \/ /\ stage[n] # "dying"
                /\ \A u \in Page : pte'[n][u].k = pte[n][u].k /\ pte'[n][u].f = pte[n][u].f
      BY <2>1, <2>5, <2>6
    <2> QED
      BY <2>1, <2>8, <2>9, WholeNext
  <1>5. ASSUME NEW t \in Context, NEW m \in Mm, NEW v \in Page, WpReuse(t, m, v)
        PROVE  WholeInv'
    <2>1. UNCHANGED <<stage, fork, pin>>
      BY <1>5 DEF WpReuse
    <2>2. \A n \in Mm, u \in Page : pte'[n][u].k = pte[n][u].k /\ pte'[n][u].f = pte[n][u].f
      BY <1>1, <1>5, WpReuseAt DEF EntryIs, Maps
    <2>3. fork.p \in Mm
      BY <1>1 DEF TypeOK
    <2> QED
      BY <2>1, <2>2, <2>3, WholeNext
  <1>6. ASSUME NEW m \in Mm, NEW v \in Page, NEW x \in Val, Store(m, v, x)
        PROVE  WholeInv'
    BY <1>2, <1>6 DEF Store
  <1>7. ASSUME NEW t \in Context, NEW m \in Mm, NEW v \in Page,
               (\E f \in Frame : AnonAlloc(t, m, v, f)) \/ WpFault(t, m, v)
        PROVE  WholeInv'
    <2>1. UNCHANGED <<pte, stage, fork, pin>>
      BY <1>7 DEF AnonAlloc, WpFault
    <2> QED
      BY <1>2, <2>1
  <1>8. ASSUME NEW t \in Context,
               AnonStale(t) \/ (\E f \in Frame : WpCopy(t, f)) \/ WpOom(t) \/ WpStale(t)
        PROVE  WholeInv'
    <2>1. UNCHANGED <<pte, stage, fork, pin>>
      BY <1>8 DEF AnonStale, WpCopy, WpOom, WpStale
    <2> QED
      BY <1>2, <2>1
  <1> QED
    BY <1>3, <1>4, <1>5, <1>6, <1>7, <1>8, Zenon DEF FaultNext

\* A fork passes whole clusters.
LEMMA ForkWhole ==
  ASSUME WholeSetting, MemInv, WholeInv, ForkNext
  PROVE  WholeInv'
  <1>1. BookInv /\ TypeOK /\ ForkQuiet /\ ForkBook /\ AlignedLive /\ WalkInv /\ Base /\ IdxBook
    BY MemKnown DEF FolioRights
  <1>2. \A f \in Frame : ~MustCopy(f)
    BY DEF WholeInv, MustCopy
  <1>3. ASSUME UNCHANGED <<pte, pin>>, ForkHead',
               \A m \in Mm : stage'[m] # "dying" => stage[m] # "dying"
        PROVE  WholeInv'
    BY <1>3 DEF WholeInv, Uniform
  <1>4. ASSUME NEW p \in Mm, NEW c \in Mm, ForkStart(p, c)
        PROVE  WholeInv'
    <2>1. /\ UNCHANGED <<pte, pin>> /\ fork' = [p |-> p, c |-> c, pos |-> VmaFirst]
          /\ stage' = [stage EXCEPT ![c] = "embryo"] /\ stage[c] = "none"
      BY <1>4 DEF ForkStart
    <2>2. fork'.pos = VmaFirst /\ SubOf(VmaFirst) = 0
      BY <2>1 DEF WholeSetting, SubOf
    <2>3. ForkHead'
      BY <2>2 DEF ForkHead
    <2>4. \A m \in Mm : stage'[m] # "dying" => stage[m] # "dying"
      BY <1>1, <2>1 DEF TypeOK
    <2> QED
      BY <1>3, <2>1, <2>3, <2>4
  <1>5. ASSUME NEW v \in Page, ForkNone(v)
        PROVE  WholeInv'
    <2>1. /\ UNCHANGED <<pte, pin, stage>> /\ fork'.p = fork.p /\ fork'.pos = v + 1
          /\ fork.p \in Mm /\ Forking /\ IsNone(fork.p, v) /\ v \in Nat
      BY <1>1, <1>5, PageNat DEF ForkNone, Copying, TypeOK
    <2>2. ASSUME v + 1 \in Page, SubOf(v + 1) # 0
          PROVE  IsNone(fork.p, v + 1)
      <3>1. ClusterOf(v + 1) = ClusterOf(v)
        <4>1. PICK q \in Nat, r \in 0..(N - 1), s \in 0..(N - 1), d \in Nat :
                /\ q = ClusterOf(v) /\ r = SubOf(v) /\ v = N * q + r
                /\ d = ClusterOf(v + 1) /\ s = SubOf(v + 1)
          BY <2>1, DivMod DEF Sub
        <4>2. CASE r + 1 <= N - 1
          <5>1. r + 1 \in 0..(N - 1) /\ v + 1 = N * q + (r + 1) /\ v + 1 \in Nat
            <6>1. N * q \in Nat /\ N \in Nat
              BY <4>1, ClusterAssumption
            <6> QED
              BY <2>1, <4>1, <4>2, <6>1
          <5>2. PICK a \in Nat, b \in 0..(N - 1) : a = v + 1 /\ b = r + 1
            BY <5>1
          <5> QED
            BY <4>1, <5>1, <5>2, DivUnique
        <4>3. CASE r = N - 1
          <5>1. N * q \in Nat /\ N \in Nat /\ N > 0 /\ N * (q + 1) = N * q + N
            BY <4>1, ClusterAssumption
          <5>2. PICK a \in Nat, e \in Nat : a = v + 1 /\ e = q + 1
            BY <2>1, <4>1
          <5>3. 0 \in 0..(N - 1) /\ a = N * e + 0
            <6>1. v + 1 = N * q + N
              BY <2>1, <4>1, <4>3, <5>1
            <6>2. N * e = N * q + N /\ N * e \in Nat
              BY <5>1, <5>2
            <6> QED
              BY <5>1, <5>2, <6>1, <6>2
          <5>4. SubOf(a) = 0
            BY <5>2, <5>3, DivUnique
          <5> QED
            BY <2>2, <5>2, <5>4
        <4> QED
          BY <4>1, <4>2, <4>3, ClusterAssumption
      <3>2. Uniform(fork.p)
        BY <1>1, <2>1 DEF WholeInv, ForkQuiet
      <3> QED
        BY <2>1, <2>2, <3>1, <3>2 DEF Uniform, IsNone
    <2>3. ForkHead'
      BY <2>1, <2>2 DEF ForkHead, IsNone
    <2> QED
      BY <1>3, <2>1, <2>3
  <1>6. ASSUME NEW v \in Page, ForkShare(v)
        PROVE  WholeInv'
    <2>0. PICK p \in Mm, c \in Mm, f \in Frame :
            p = fork.p /\ c = fork.c /\ f = pte[fork.p][v].f
      BY <1>1, <1>6, ForkShareAt
    <2>1. /\ UNCHANGED <<pin, stage>> /\ p # c /\ Forking /\ fork.pos = v /\ Maps(p, v, f)
          /\ fork'.p = p /\ fork'.c = c /\ fork'.pos \in Nat /\ v < fork'.pos
          /\ fork'.pos <= VmaLast + 1
          /\ \A n \in Mm, u \in Page :
               IF n \in {p, c} /\ v <= u /\ u < fork'.pos
               THEN Maps(p, u, f) /\ IsNone(c, u) /\ pte'[n][u].k = "map" /\ pte'[n][u].f = f
               ELSE pte'[n][u] = pte[n][u]
      <3>1. UNCHANGED <<pin, stage>>
        BY <1>6 DEF ForkShare
      <3>2. /\ p # c /\ Forking /\ fork.pos = v /\ Maps(p, v, f)
            /\ fork'.p = p /\ fork'.c = c /\ fork'.pos \in Nat /\ v < fork'.pos
            /\ fork'.pos <= VmaLast + 1
        BY <1>1, <1>6, <2>0, ForkShareAt
      <3>3. \A n \in Mm, u \in Page :
              IF n \in {p, c} /\ v <= u /\ u < fork'.pos
              THEN Maps(p, u, f) /\ IsNone(c, u) /\ EntryIs(pte'[n][u], "map", f, pte[p][u].s, "ro")
              ELSE pte'[n][u] = pte[n][u]
        BY <1>1, <1>6, <2>0, ForkShareAt
      <3> QED
        BY <3>1, <3>2, <3>3 DEF EntryIs
    <2>2. /\ stage[p] # "dying" /\ stage[c] # "dying" /\ Uniform(p) /\ Uniform(c)
      BY <1>1, <2>0, <2>1 DEF ForkQuiet, WholeInv
    <2>3. SubOf(v) = 0
      BY <2>0, <2>1 DEF WholeInv, ForkHead, Maps, IsNone
    <2>4. \A u \in Page : ClusterOf(u) = ClusterOf(v) => v <= u /\ u < fork'.pos
      <3> SUFFICES ASSUME NEW u \in Page, ClusterOf(u) = ClusterOf(v)
                   PROVE  v <= u /\ u < fork'.pos
        OBVIOUS
      <3>1. /\ v <= u /\ \A w \in v..u : w \in Page /\ ClusterOf(w) = ClusterOf(v) /\ SubOf(w) = w - v
            /\ u \in Nat /\ v \in Nat
        BY <2>3, ClusterRun, PageNat
      <3>2. \A w \in v..u : Maps(p, w, f) /\ pte[p][w].s = pte[p][v].s + (w - v)
        <4> SUFFICES ASSUME NEW w \in v..u
                     PROVE  Maps(p, w, f) /\ pte[p][w].s = pte[p][v].s + (w - v)
          OBVIOUS
        <4>1. Maps(p, w, f)
          BY <2>1, <2>2, <3>1 DEF Uniform, Maps
        <4>2. pte[p][w].s = SubOf(w) /\ pte[p][v].s = SubOf(v)
          BY <1>1, <2>1, <2>2, <3>1, <4>1 DEF AlignedLive, IsNone, Maps
        <4> QED
          BY <2>3, <3>1, <4>1, <4>2
      <3>3. u \in PteBatch(p, v, VmaLast + 1)
        BY <2>0, <3>1, <3>2, ClusterAssumption DEF PteBatch, Page
      <3>4. fork'.pos = v + Cardinality(PteBatch(p, v, VmaLast + 1))
        BY <1>1, <1>6, <2>0 DEF ForkShare, TypeOK
      <3>5. SubBelow
        BY <1>1 DEF BookInv, IInv
      <3> QED
        BY <1>1, <3>1, <3>3, <3>4, <3>5, BatchIs
    <2>5. \A u \in Page : v <= u /\ u < fork'.pos => ClusterOf(u) = ClusterOf(v)
      BY <1>1, <2>1 DEF IdxBook, Maps, IsNone
    <2>6. \A n \in {p, c} : Uniform(n)'
      <3> SUFFICES ASSUME NEW n \in {p, c} PROVE Uniform(n)'
        OBVIOUS
      <3>1. \A u \in Page : IF ClusterOf(u) = ClusterOf(v)
                            THEN pte'[n][u].k = "map" /\ pte'[n][u].f = f
                            ELSE pte'[n][u].k = pte[n][u].k /\ pte'[n][u].f = pte[n][u].f
        BY <2>1, <2>4, <2>5
      <3>2. Uniform(n)
        BY <2>2
      <3> QED
        BY <3>1, <3>2, UniformWritten
    <2>7. \A n \in Mm : stage'[n] # "dying" => Uniform(n)'
      <3> SUFFICES ASSUME NEW n \in Mm, stage[n] # "dying", n \notin {p, c} PROVE Uniform(n)'
        BY <2>1, <2>6
      <3>1. Uniform(n) /\ \A u \in Page : pte'[n][u] = pte[n][u]
        BY <2>1 DEF WholeInv
      <3> QED
        BY <3>1 DEF Uniform
    <2>8. ForkHead'
      <3> SUFFICES ASSUME fork'.pos \in Page, SubOf(fork'.pos) # 0 PROVE FALSE
        BY DEF ForkHead
      <3>1. PICK u \in Page : u = fork'.pos
        OBVIOUS
      <3>2. ClusterOf(u) # ClusterOf(v)
        BY <2>4, <3>1, PageNat
      <3>3. PICK h \in Page : h <= u /\ SubOf(h) = 0 /\ ClusterOf(h) = ClusterOf(u)
        BY ClusterHead DEF WholeSetting
      <3>4. h # u /\ u \in Nat /\ h \in Nat /\ v \in Nat
        BY <3>1, <3>3, PageNat
      <3>5. CASE v <= h
        BY <2>1, <2>5, <3>1, <3>2, <3>3, <3>4, <3>5
      <3>6. CASE h < v
        <4>1. v \in h..u
          BY <2>1, <3>1, <3>4, <3>6
        <4>2. ClusterOf(v) = ClusterOf(h)
          BY <3>3, <4>1, ClusterRun
        <4> QED
          BY <3>2, <3>3, <4>2
      <3> QED
        BY <3>4, <3>5, <3>6
    <2> QED
      BY <2>1, <2>7, <2>8 DEF WholeInv
  <1>7. ASSUME NEW v \in Page, NEW new \in Frame, ForkCopy(v, new)
        PROVE  FALSE
    BY <1>1, <1>2, <1>7, ForkCopyAt
  <1>8. ASSUME NEW v \in Page, ForkMig(v)
        PROVE  FALSE
    BY <1>1, <1>8, ForkMigAt, ForkIdle
  <1>9. ASSUME NEW v \in Page, ForkFail(v)
        PROVE  FALSE
    <2>1. fork.p \in Mm /\ ~IsNone(fork.p, v) /\ MustCopy(pte[fork.p][v].f)
      BY <1>1, <1>9 DEF ForkFail, IsNone, TypeOK
    <2> QED
      BY <1>1, <1>2, <2>1, Present
  <1>10. ASSUME ForkDone
         PROVE  WholeInv'
    <2>1. /\ UNCHANGED <<pte, pin>> /\ fork' = NoFork
          /\ stage' = [stage EXCEPT ![fork.c] = "live"] /\ stage[fork.c] = "embryo"
      BY <1>1, <1>10 DEF ForkDone, ForkBook
    <2>2. ForkHead'
      BY <2>1 DEF ForkHead, Forking, NoFork
    <2>3. \A m \in Mm : stage'[m] # "dying" => stage[m] # "dying"
      BY <1>1, <2>1 DEF TypeOK
    <2> QED
      BY <1>3, <2>1, <2>2, <2>3
  <1> QED
    BY <1>4, <1>5, <1>6, <1>7, <1>8, <1>9, <1>10 DEF ForkNext

\* Only a dying address space is zapped, and nobody pins.
LEMMA ZapPinWhole ==
  ASSUME WholeSetting, MemInv, WholeInv, ZapNext \/ PinNext
  PROVE  WholeInv'
  <1>1. BookInv /\ TypeOK /\ ForkQuiet
    BY MemKnown
  <1>2. fork.p \in Mm
    BY <1>1 DEF TypeOK
  <1>3. ASSUME NEW m \in Mm, NEW v \in Page, NEW end \in (VmaFirst + 1)..(VmaLast + 1),
               ZapBatch(m, v, end) \/ ZapMig(m, v, end)
        PROVE  WholeInv'
    <2>1. UNCHANGED <<stage, fork, pin>>
      BY <1>3 DEF ZapBatch, ZapMig
    <2>2. /\ Zapping(m, v, end)
          /\ \A n \in Mm, u \in Page :
               \/ pte'[n][u] = pte[n][u]
               \/ n = m /\ v <= u /\ u < end /\ pte'[n][u] = Absent
      BY <1>1, <1>3, ZapAt
    <2>3. v \in v..(end - 1)
      <3>1. v \in Nat /\ end \in Nat
        BY PageNat, ClusterAssumption
      <3>2. v < end
        BY <2>2 DEF Zapping
      <3> QED
        BY <3>1, <3>2
    <2>4. stage[m] = "dying"
      BY <2>2, <2>3 DEF Zapping, WholeSetting
    <2>5. \A n \in Mm : stage'[n] # "dying" =>
            /\ stage[n] # "dying"
            /\ \A u \in Page : pte'[n][u].k = pte[n][u].k /\ pte'[n][u].f = pte[n][u].f
      BY <2>1, <2>2, <2>4
    <2>6. Forking => \A u \in Page : pte[fork.p][u].k = "none" => pte'[fork.p][u].k = "none"
      BY <1>2, <2>2 DEF Absent
    <2> QED
      BY <2>1, <2>5, <2>6, WholeNext
  <1>4. ASSUME UNCHANGED <<pte, fork, pin>>,
               \A m \in Mm : stage'[m] # "dying" =>
                 stage[m] # "dying" \/ \A v \in Page : IsNone(m, v)
        PROVE  WholeInv'
    <2>1. ASSUME NEW m \in Mm, \A v \in Page : IsNone(m, v)
          PROVE  Uniform(m)'
      <3>1. \A v \in Page : pte[m][v] = Absent
        <4>1. \A v \in Page : pte[m][v] \in Entry
          BY <1>1 DEF TypeOK
        <4> QED
          BY <2>1, <4>1 DEF IsNone, Entry
      <3> QED
        BY <1>4, <3>1 DEF Uniform
    <2> QED
      BY <1>4, <2>1, WholeNext
  <1>5. ASSUME NEW f \in Frame, DeferredPut(f)
        PROVE  WholeInv'
    <2>1. UNCHANGED <<pte, fork, pin>> /\ UNCHANGED stage
      BY <1>5 DEF DeferredPut
    <2> QED
      BY <1>4, <2>1
  <1>6. ASSUME NEW m \in Mm, Exit(m) \/ Reap(m)
        PROVE  WholeInv'
    <2>1. /\ UNCHANGED <<pte, fork, pin>>
          /\ \/ stage' = [stage EXCEPT ![m] = "dying"]
             \/ stage' = [stage EXCEPT ![m] = "none"] /\ \A v \in Page : IsNone(m, v)
      BY <1>6 DEF Exit, Reap
    <2>2. \A n \in Mm : stage'[n] # "dying" =>
            stage[n] # "dying" \/ \A v \in Page : IsNone(n, v)
      BY <1>1, <2>1 DEF TypeOK
    <2> QED
      BY <1>4, <2>1, <2>2
  <1>7. ASSUME NEW m \in Mm, NEW v \in Page, Pin(m, v)
        PROVE  FALSE
    <2>1. pte[m][v].f \in Frame /\ pin[pte[m][v].f] < 0
      BY <1>7, MemKnown, Present DEF Pin, WholeSetting, IsNone
    <2> QED
      BY <2>1 DEF WholeInv
  <1>8. ASSUME NEW f \in Frame, Unpin(f)
        PROVE  FALSE
    BY <1>8 DEF Unpin, WholeInv
  <1> QED
    BY <1>3, <1>5, <1>6, <1>7, <1>8 DEF ZapNext, PinNext

\* A walk stops at the first page of a cluster, and takes the whole of it.
LEMMA WalkWhole ==
  ASSUME WholeSetting, NEW v \in Page, Uniform(mig.m), NEW kind, NEW f,
         WalkStopsAt(v, kind, f),
         \A w \in Page : pte[mig.m][w].k = kind /\ pte[mig.m][w].f = f =>
           w \in WalkRange(f) /\ w >= mig.pos
  PROVE  /\ SubOf(v) = 0
         /\ \A u \in Page : ClusterOf(u) = ClusterOf(v) <=> u \in WalkBatch(mig.m, v, f)
  <1>1. /\ v \in WalkRange(f) /\ pte[mig.m][v].k = kind /\ pte[mig.m][v].f = f
        /\ \A w \in WalkRange(f) : w >= mig.pos /\ w < v =>
             ~(pte[mig.m][w].k = kind /\ pte[mig.m][w].f = f)
    BY DEF WalkStopsAt
  <1>2. \A u \in Page : ClusterOf(u) = ClusterOf(v) => pte[mig.m][u].k = kind /\ pte[mig.m][u].f = f
    BY <1>1 DEF Uniform
  <1>3. SubOf(v) = 0
    <2>1. PICK h \in Page : h <= v /\ SubOf(h) = 0 /\ ClusterOf(h) = ClusterOf(v)
      BY ClusterHead DEF WholeSetting
    <2>2. ~(h < v)
      BY <1>1, <1>2, <2>1
    <2>3. h = v
      BY <2>1, <2>2, PageNat
    <2> QED
      BY <2>1, <2>3
  <1>4. ASSUME NEW u \in Page, ClusterOf(u) = ClusterOf(v)
        PROVE  u \in WalkBatch(mig.m, v, f)
    <2>1. v <= u /\ \A w \in v..u : w \in Page /\ ClusterOf(w) = ClusterOf(v)
      BY <1>3, <1>4, ClusterRun
    <2>2. u \in WalkRange(f)
      BY <1>2, <1>4
    <2> QED
      BY <1>1, <1>2, <1>4, <2>1, <2>2 DEF WalkBatch
  <1> QED
    BY <1>3, <1>4 DEF WalkBatch

\* Where the walks find the entries of the folio under migration.
LEMMA WalkSees ==
  ASSUME MemInv
  PROVE  /\ mig.ph = "unmap" =>
              \A w \in Page : pte[mig.m][w].k = "map" /\ pte[mig.m][w].f = mig.src =>
                w \in WalkRange(mig.src) /\ w >= mig.pos
         /\ mig.ph = "restore" =>
              \A w \in Page : pte[mig.m][w].k = "mig" /\ pte[mig.m][w].f = mig.src =>
                w \in WalkRange(mig.src) /\ w >= mig.pos
  <1>1. /\ OrphanInv /\ MigEntries /\ MapsAhead /\ TypeOK /\ BookInv
    BY MemKnown DEF MigWalk
  <1>2. mig.m \in Mm /\ mig.m \in Nat /\ (mig.ph \in {"unmap", "restore"} => mig.src \in Frame)
    BY <1>1, PageNat DEF TypeOK, MigType, BookInv, IInv, MigHasFolios
  <1>3. ASSUME NEW w \in Page, mig.ph = "unmap", pte[mig.m][w].k = "map", pte[mig.m][w].f = mig.src
        PROVE  w \in WalkRange(mig.src) /\ w >= mig.pos
    <2>1. Maps(mig.m, w, mig.src)
      BY <1>3 DEF Maps
    <2>2. w >= mig.pos
      BY <1>1, <1>2, <1>3, <2>1 DEF MapsAhead
    <2> QED
      BY <1>1, <1>2, <1>3, <2>1, <2>2, InWalkRange
  <1>4. ASSUME NEW w \in Page, mig.ph = "restore", pte[mig.m][w].k = "mig", pte[mig.m][w].f = mig.src
        PROVE  w \in WalkRange(mig.src) /\ w >= mig.pos
    <2>1. IsMig(mig.m, w, mig.src)
      BY <1>4 DEF IsMig
    <2>2. w >= mig.pos
      BY <1>1, <1>2, <1>4 DEF MigEntries
    <2> QED
      BY <1>1, <1>2, <1>4, <2>1, <2>2, InWalkRange
  <1> QED
    BY <1>3, <1>4

\* Migration takes and restores whole clusters.
LEMMA MigWhole ==
  ASSUME WholeSetting, MemInv, WholeInv, MigNext
  PROVE  WholeInv'
  <1>1. BookInv /\ TypeOK /\ WalkInv
    BY MemKnown
  <1>2. fork.p \in Mm /\ mig.m \in Mm
    BY <1>1 DEF TypeOK, MigType
  <1>3. PICK m \in Mm, src \in FrameOrNone : m = mig.m /\ src = mig.src
    BY <1>1 DEF TypeOK, MigType
  <1>4. ASSUME NEW v \in Page, NEW new,
               UNCHANGED <<stage, fork, pin>>, ~Forking,
               \A u, w \in DOMAIN new : new[u].k = new[w].k /\ new[u].f = new[w].f,
               pte' = Install(m, new),
               stage[m] # "dying" =>
                 \A u \in Page : ClusterOf(u) = ClusterOf(v) <=> u \in DOMAIN new
        PROVE  WholeInv'
    <2> DEFINE S == DOMAIN new
    <2>1. /\ \A n \in Mm, w \in Page : n # m => pte'[n][w] = pte[n][w]
          /\ \A w \in Page : pte'[m][w] = IF w \in S THEN new[w] ELSE pte[m][w]
      BY <1>1, <1>4, InstallAt
    <2>2. stage[m] # "dying" => Uniform(m)'
      <3> SUFFICES ASSUME stage[m] # "dying" PROVE Uniform(m)'
        OBVIOUS
      <3>0. PICK c, k, f : c = ClusterOf(v) /\ k = new[v].k /\ f = new[v].f
        OBVIOUS
      <3>1. \A u \in Page : IF ClusterOf(u) = c
                            THEN pte'[m][u].k = k /\ pte'[m][u].f = f
                            ELSE pte'[m][u].k = pte[m][u].k /\ pte'[m][u].f = pte[m][u].f
        BY <1>4, <2>1, <3>0
      <3>2. Uniform(m)
        BY DEF WholeInv
      <3> QED
        BY <3>1, <3>2, UniformWritten
    <2>3. \A n \in Mm : stage'[n] # "dying" =>
            \/ Uniform(n)'
            \/ /\ stage[n] # "dying"
               /\ \A u \in Page : pte'[n][u].k = pte[n][u].k /\ pte'[n][u].f = pte[n][u].f
      BY <1>4, <2>1, <2>2
    <2> QED
      BY <1>4, <2>3, WholeNext
  <1>5. ASSUME NEW v \in Page, MigUnmap(v)
        PROVE  WholeInv'
    <2>1. /\ UNCHANGED <<stage, fork, pin>> /\ mig.ph = "unmap" /\ WalkStopsAt(v, "map", src)
          /\ ~Forking /\ src \in Frame
      BY <1>1, <1>3, <1>5, MigUnmapAt DEF MigUnmap, WalkInv, Apart
    <2>2. ~MustCopy(src)
      BY <2>1 DEF WholeInv, MustCopy
    <2> DEFINE S == WalkBatch(m, v, src)
               kind == CASE pte[m][v].p = "rw" -> "rw"
                         [] pte[m][v].p # "rw" /\ excl[src] -> "rx"
                         [] OTHER -> "ro"
               new == [u \in S |-> MigTo(src, pte[m][u].s, kind)]
    <2>3. pte' = Install(m, new)
      BY <1>3, <1>5, <2>2 DEF MigUnmap
    <2>4. DOMAIN new = S /\ \A u, w \in S : new[u].k = new[w].k /\ new[u].f = new[w].f
      BY DEF MigTo
    <2>5. stage[m] # "dying" => \A u \in Page : ClusterOf(u) = ClusterOf(v) <=> u \in S
      BY <1>2, <1>3, <2>1, WalkSees, WalkWhole DEF WholeInv
    <2> HIDE DEF S, new, kind
    <2> QED
      BY <1>4, <2>1, <2>3, <2>4, <2>5
  <1>6. ASSUME NEW v \in Page, MigRestore(v)
        PROVE  WholeInv'
    <2>1. /\ UNCHANGED <<stage, fork, pin>> /\ mig.ph = "restore" /\ WalkStopsAt(v, "mig", src)
          /\ ~Forking
      BY <1>1, <1>3, <1>6 DEF MigRestore, WalkInv, Apart
    <2> DEFINE S == WalkBatch(m, v, src)
               new == [u \in S |-> RestoredPte(mig.to, u, v, pte[m][v].p)]
    <2>3. pte' = Install(m, new)
      BY <1>3, <1>6 DEF MigRestore
    <2>4. DOMAIN new = S /\ \A u, w \in S : new[u].k = new[w].k /\ new[u].f = new[w].f
      BY DEF RestoredPte, MapTo
    <2>5. stage[m] # "dying" => \A u \in Page : ClusterOf(u) = ClusterOf(v) <=> u \in S
      BY <1>2, <1>3, <2>1, WalkSees, WalkWhole DEF WholeInv
    <2> HIDE DEF S, new
    <2> QED
      BY <1>4, <2>1, <2>3, <2>4, <2>5
  <1>7. ASSUME UNCHANGED <<pte, stage, fork, pin>>
        PROVE  WholeInv'
    BY <1>7, WholeNext
  <1>8. ASSUME \/ MigUnmapNext \/ MigRestoreNext \/ MigMove \/ MigDone
               \/ \E s, d \in Frame : MigStart(s, d)
        PROVE  WholeInv'
    <2>1. UNCHANGED <<pte, stage, fork, pin>>
      BY <1>8 DEF MigUnmapNext, MigRestoreNext, MigNextMm, MigMove, MigDone, MigStart
    <2> QED
      BY <1>7, <2>1
  <1> QED
    BY <1>5, <1>6, <1>8 DEF MigNext, MigStep

\* What the two hypotheses of the theorems ask of a step holds in that setting.
LEMMA WholeSteps ==
  ASSUME WholeSetting, MemInv, WholeInv, NEW v \in Page
  PROVE  FailsWhole(v) /\ RestoreWhole(v)
  <1>1. BookInv /\ TypeOK /\ Base
    BY MemKnown
  <1>2. ASSUME ForkFail(v)
        PROVE  FALSE
    <2>1. fork.p \in Mm /\ ~IsNone(fork.p, v) /\ MustCopy(pte[fork.p][v].f)
      BY <1>1, <1>2 DEF ForkFail, IsNone, TypeOK
    <2>2. \A f \in Frame : ~MustCopy(f)
      BY DEF WholeInv, MustCopy
    <2> QED
      BY <1>1, <2>1, <2>2, Present
  <1>3. ASSUME MigRestore(v), stage[mig.m] # "dying"
        PROVE  SubOf(v) = 0
    <2>1. mig.ph = "restore" /\ WalkStopsAt(v, "mig", mig.src) /\ mig.m \in Mm
      BY <1>1, <1>3 DEF MigRestore, TypeOK, MigType
    <2>2. Uniform(mig.m)
      BY <1>3, <2>1 DEF WholeInv
    <2> QED
      BY <2>1, <2>2, WalkSees, WalkWhole
  <1> QED
    BY <1>2, <1>3 DEF FailsWhole, RestoreWhole

\* At first nothing is mapped, forked or pinned.
LEMMA WholeInit ==
  ASSUME Init
  PROVE  WholeInv
  <1>1. /\ \A m \in Mm, v \in Page : pte[m][v] = Absent
        /\ ~Forking /\ \A f \in Frame : pin[f] = 0
    BY DEF Init, Forking, NoFork
  <1> QED
    BY <1>1 DEF WholeInv, Uniform, ForkHead

\* Both invariants, together.
LEMMA WholeStep ==
  ASSUME ~ForkOverlaps, WholeSetting, MemInv, WholeInv, Base', [Next]_vars
  PROVE  MemInv' /\ WholeInv'
  <1>1. CASE UNCHANGED vars
    <2>1. UNCHANGED <<pte, stage, fork, pin>>
      BY <1>1 DEF vars
    <2> QED
      BY <1>1, <2>1, MemStutter, WholeNext
  <1>2. CASE Next
    <2>1. \A v \in Page : FailsWhole(v) /\ RestoreWhole(v)
      BY WholeSteps
    <2>2. MemInv'
      BY <1>2, <2>1, FaultMem, ForkMem, ZapPinMem, MigMem DEF Next
    <2> QED
      BY <1>2, <2>2, FaultWhole, ForkWhole, ZapPinWhole, MigWhole DEF Next
  <1> QED
    BY <1>1, <1>2

\* Where no VMA, discard, random read or pin takes a cluster apart, no fault,
\* fork, COW, zap or migration does either: every cluster stays whole.
THEOREM WholeInductive ==
  ASSUME ~ForkOverlaps, WholeSetting
  PROVE  Spec => [](MemInv /\ WholeInv)
  <1>1. Init /\ Base => MemInv /\ WholeInv
    BY MemInit, WholeInit
  <1>2. MemInv /\ WholeInv /\ Base' /\ [Next]_vars => MemInv' /\ WholeInv'
    BY WholeStep
  <1>3. Spec => []Base
    BY WalksComplete, WalksInductive, PTL DEF Base
  <1> QED
    BY <1>1, <1>2, <1>3, PTL DEF Spec

\* Nor does a fork or a migration meet what the two hypotheses rule out.
LEMMA WholeIsWhole ==
  ASSUME ~ForkOverlaps, WholeSetting
  PROVE  Spec => ForksFailWhole /\ RestoresWhole
  <1>1. MemInv /\ WholeInv =>
          (\A v \in Page : FailsWhole(v)) /\ (\A v \in Page : RestoreWhole(v))
    BY WholeSteps
  <1> QED
    BY <1>1, WholeInductive, PTL DEF ForksFailWhole, RestoresWhole

\* In that setting, with no hypothesis on behaviours, migration is invisible:
\* with faults, copy-on-write, forks and exits before and after it, every
\* process reads its own memory, nobody writes what another one reads, and
\* the PTEs are restored to the sub-pages of their addresses.
THEOREM MigrationInvisible ==
  ASSUME ~ForkOverlaps, WholeSetting
  PROVE  Spec => /\ ImplementsPrivateMemory /\ RemapKeepsContents
                 /\ [](CowIsolation /\ ExclusiveOwner /\ SubPageAligned /\ CopyIsCurrent)
  BY WholeIsWhole, PrivateMemoryImplemented, ContentsKept, WritersAlone, ExclusiveAlone,
     SubPagesAligned, CopiesCurrent, PTL

----------------------------------------------------------------------------
(* Where nothing is migrated *)

NoPin == \A f \in Frame : pin[f] = 0

\* Nobody pins.
LEMMA PinsNever ==
  ASSUME MaxPin = 0
  PROVE  Spec => []NoPin
  <1>1. Init => NoPin
    BY DEF Init, NoPin
  <1>2. ASSUME NoPin, [Next]_vars
        PROVE  NoPin'
    <2>1. CASE FaultNext \/ ForkNext \/ MigNext \/ ZapNext \/ UNCHANGED vars
      <3>1. ASSUME FaultNext PROVE UNCHANGED pin
        BY <3>1, FaultLeaves
      <3>2. ASSUME ForkNext PROVE UNCHANGED pin
        BY <3>2 DEF ForkNext, ForkStart, ForkNone, ForkMig, ForkShare, ForkFail, ForkCopy, ForkDone
      <3>3. ASSUME MigNext PROVE UNCHANGED pin
        BY <3>3 DEF MigNext, MigStep, MigUnmap, MigRestore, MigUnmapNext, MigRestoreNext, MigNextMm,
           MigMove, MigDone, MigStart
      <3>4. ASSUME ZapNext PROVE UNCHANGED pin
        <4>1. ASSUME NEW m \in Mm, NEW v \in Page, NEW end, ZapBatch(m, v, end) \/ ZapMig(m, v, end)
              PROVE  UNCHANGED pin
          BY <4>1 DEF ZapBatch, ZapMig
        <4>2. ASSUME NEW f \in Frame, DeferredPut(f)
              PROVE  UNCHANGED pin
          BY <4>2 DEF DeferredPut
        <4>3. ASSUME NEW m \in Mm, Exit(m) \/ Reap(m)
              PROVE  UNCHANGED pin
          BY <4>3 DEF Exit, Reap
        <4> QED
          BY <3>4, <4>1, <4>2, <4>3, Zenon DEF ZapNext
      <3>5. UNCHANGED pin
        BY <2>1, <3>1, <3>2, <3>3, <3>4 DEF vars
      <3> QED
        BY <1>2, <3>5 DEF NoPin
    <2>2. ASSUME NEW m \in Mm, NEW v \in Page, Pin(m, v)
          PROVE  NoPin'
      <3>1. pin[pte[m][v].f] < 0 /\ pin' = [pin EXCEPT ![pte[m][v].f] = @ + 1]
        BY <2>2 DEF Pin
      <3>2. pte[m][v].f \notin Frame
        BY <1>2, <3>1 DEF NoPin
      <3> QED
        BY <1>2, <3>1, <3>2 DEF NoPin
    <2>3. ASSUME NEW f \in Frame, Unpin(f)
          PROVE  NoPin'
      BY <1>2, <2>3 DEF Unpin, NoPin
    <2> QED
      BY <1>2, <2>1, <2>2, <2>3 DEF Next, PinNext
  <1> QED
    BY <1>1, <1>2, PTL DEF Spec

\* Where nobody pins, no fork has a page to copy, so none fails.
LEMMA NoForkFails ==
  ASSUME ~ForkOverlaps, MaxPin = 0
  PROVE  Spec => ForksFailWhole
  <1>1. ASSUME Base, NoPin, NEW v \in Page
        PROVE  FailsWhole(v)
    <2> SUFFICES ASSUME ForkFail(v) PROVE FALSE
      BY DEF FailsWhole
    <2>1. fork.p \in Mm /\ ~IsNone(fork.p, v) /\ MustCopy(pte[fork.p][v].f)
      BY <1>1, Known DEF ForkFail, IsNone, Base, OrphanInv, BookInv, IInv, TypeOK
    <2>2. \A f \in Frame : ~MustCopy(f)
      BY <1>1 DEF NoPin, MustCopy
    <2> QED
      BY <1>1, <2>1, <2>2, Present
  <1>2. Base /\ NoPin => \A v \in Page : FailsWhole(v)
    BY <1>1
  <1>3. Spec => []Base
    BY WalksComplete, WalksInductive, PTL DEF Base
  <1> QED
    BY <1>2, <1>3, PinsNever, PTL DEF ForksFailWhole

\* Without pins and migration, but in any VMA and with pages discarded and
\* faulted in again one by one, copy-on-write is invisible, with no hypothesis
\* on behaviours: two faults that copy and remap the same cluster at a time
\* lose no store.
THEOREM CowInvisible ==
  ASSUME ~ForkOverlaps, ~Migrating, MaxPin = 0
  PROVE  Spec => /\ ImplementsPrivateMemory /\ RemapKeepsContents
                 /\ [](CowIsolation /\ ExclusiveOwner /\ SubPageAligned /\ CopyIsCurrent)
  BY NoForkFails, NoRestores, PrivateMemoryImplemented, ContentsKept, WritersAlone,
     ExclusiveAlone, SubPagesAligned, CopiesCurrent, PTL
===============================================================================
