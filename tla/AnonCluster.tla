----------------------------- MODULE AnonCluster -----------------------------
(***************************************************************************)
(* Private anonymous memory under page clustering, for order-0 folios.     *)
(*                                                                         *)
(* A kernel page (a Frame here) holds N = PAGE_MMUCOUNT hardware pages,    *)
(* and every hardware PTE that maps one of them takes one reference and    *)
(* one map count of its folio.  The actions are the handlers that install, *)
(* copy, replace and remove those PTEs: the anonymous fault and its        *)
(* clustering, the write-protect fault and its neighbour remapping, fork,  *)
(* zap with the references mmu_gather drops later, page pinning, and       *)
(* migration with its two reverse-map walks.                               *)
(*                                                                         *)
(* One step is one hold of a page-table lock, or one batch inside a hold   *)
(* that code outside the lock can observe; a reverse-map walk keeps the    *)
(* lock of the address space it is in between two batches (mig.held).      *)
(***************************************************************************)
EXTENDS Integers, FiniteSets

CONSTANTS
  Frame,        \* order-0 kernel pages (struct page / folio)
  NoFrame,      \* "no folio", not a frame
  Context,      \* fault contexts: at most this many faults at a time
  Mms,          \* number of address spaces; a child has a higher number
  N,            \* PAGE_MMUCOUNT, hardware pages per kernel page
  VmaFirst, VmaLast,  \* the VMA, as MMUPAGE numbers (address >> MMUPAGE_SHIFT)
  Val, Zero,    \* contents of a hardware page; what a fresh one holds
  Discardable,  \* pages programs call MADV_DONTNEED on, in any range
  RandRead,     \* the VMA may have VM_RAND_READ (MADV_RANDOM) set
  MaxPin,       \* bound on FOLL_PIN references of one folio
  MaxDeferred,  \* bound on references of one folio that wait to be put
  Migrating,    \* whether folios are migrated
  ForkOverlaps  \* whether a migration or an unpin may overlap a fork

ASSUME ClusterAssumption ==
  /\ N \in Nat \ {0} /\ Mms \in Nat \ {0}
  /\ VmaFirst \in Nat /\ VmaLast \in Nat /\ VmaFirst <= VmaLast
ASSUME DataAssumption ==
  /\ NoFrame \notin Frame /\ Zero \in Val /\ IsFiniteSet(Context)
  /\ MaxPin \in Nat /\ MaxDeferred \in Nat
ASSUME SwitchAssumption == {RandRead, Migrating, ForkOverlaps} \subseteq BOOLEAN

VARIABLES
  pte,        \* pte[m][v], the entry of page v in the page table of m
  ref, mapc,  \* folio reference count; map count (_mapcount + 1)
  excl,       \* PageAnonExclusive
  idx,        \* folio->index, the cluster the folio was first mapped in
  data,       \* data[f][s], the contents of hardware page s of f
  rss,        \* MM_ANONPAGES of each address space
  deferred,   \* references of f that mmu_gather or a fault drops later
  pin,        \* FOLL_PIN references of f
  ctx,        \* fault contexts
  fork,       \* the dup_mmap being carried out
  mig,        \* the migration being carried out
  stage       \* life of an address space

vars == <<pte, ref, mapc, excl, idx, data, rss, deferred, pin, ctx, fork, mig,
          stage>>

----------------------------------------------------------------------------
(* Pages, clusters and page-table entries *)

Mm   == 1..Mms
Root == 1
Page == VmaFirst..VmaLast
Sub  == 0..(N - 1)

ClusterOf(v) == v \div N
SubOf(v)     == v % N
\* The hardware pages of v's aligned cluster that the VMA covers.
Cluster(v)   == {u \in Page : ClusterOf(u) = ClusterOf(v)}

\* A present entry is writable or not.  A migration entry is writable,
\* readable-exclusive or readable; its s is history: the sub-page the entry
\* stood for, which the hardware entry does not encode.
Absent         == [k |-> "none", f |-> NoFrame, s |-> 0, p |-> "ro"]
MapTo(f, s, p) == [k |-> "map", f |-> f, s |-> s, p |-> p]
MigTo(f, s, p) == [k |-> "mig", f |-> f, s |-> s, p |-> p]
Entry == {Absent} \cup [k : {"map"}, f : Frame, s : Sub, p : {"rw", "ro"}]
                  \cup [k : {"mig"}, f : Frame, s : Sub, p : {"rw", "rx", "ro"}]

IsNone(m, v)   == pte[m][v].k = "none"
Maps(m, v, f)  == pte[m][v].k = "map" /\ pte[m][v].f = f
IsMig(m, v, f) == pte[m][v].k = "mig" /\ pte[m][v].f = f

\* A page table after the entries in DOMAIN new are overwritten.
Install(m, new) ==
  [pte EXCEPT ![m] = [v \in Page |-> IF v \in DOMAIN new THEN new[v] ELSE @[v]]]

\* pgcl_pte_batch: the PTEs from v on, below end, that map consecutive
\* sub-pages of one kernel page.  Permission bits are not compared.
PteBatch(m, v, end) ==
  {u \in Page : /\ v <= u /\ u < end
                /\ \A w \in v..u : /\ Maps(m, w, pte[m][v].f)
                                   /\ pte[m][w].s = pte[m][v].s + (w - v)}

\* page_vma_mapped_walk on the folio's address range in the VMA.  For an
\* order-0 folio the range is PAGE_SIZE from its first address.
WalkFirst(f) == IF idx[f] * N < VmaFirst THEN VmaFirst ELSE idx[f] * N
WalkRange(f) == {u \in Page : WalkFirst(f) <= u /\ u < WalkFirst(f) + N}

\* The batch one call of the walk yields at v: entries of the class of the
\* first one with its kernel PFN, inside v's cluster.  Sub-pages, and the
\* kind of a migration entry, are not compared.
WalkBatch(m, v, f) ==
  {u \in WalkRange(f) :
     /\ v <= u /\ ClusterOf(u) = ClusterOf(v)
     /\ \A w \in v..u : pte[m][w].k = pte[m][v].k /\ pte[m][w].f = f}

\* v is the first entry at or after mig.pos that the walk stops at.
WalkStopsAt(v, kind, f) ==
  /\ v \in WalkRange(f) /\ v >= mig.pos
  /\ pte[mig.m][v].k = kind /\ pte[mig.m][v].f = f
  /\ \A w \in WalkRange(f) : w >= mig.pos /\ w < v =>
       ~(pte[mig.m][w].k = kind /\ pte[mig.m][w].f = f)
WalkIsOver(kind, f) ==
  \A w \in WalkRange(f) : w >= mig.pos =>
    ~(pte[mig.m][w].k = kind /\ pte[mig.m][w].f = f)

----------------------------------------------------------------------------
(* Locks, folios and idle contexts *)

NoFork  == [p |-> Root, c |-> Root, pos |-> VmaFirst]
Forking == fork.p # fork.c
\* dup_mmap holds both mmap_locks for writing (and every VMA's write lock).
InFork(m)  == Forking /\ m \in {fork.p, fork.c}
PtlFree(m) == ~(mig.held /\ mig.m = m)

Idle    == [st |-> "idle", m |-> Root, v |-> VmaFirst, old |-> NoFrame,
            new |-> NoFrame, orig |-> Absent]
MigIdle == [ph |-> "idle", src |-> NoFrame, dst |-> NoFrame, to |-> NoFrame,
            m |-> Root, pos |-> VmaFirst, held |-> FALSE]

Free(f)   == ref[f] = 0
ZeroFrame == [s \in Sub |-> Zero]

\* folio_put on each folio of F; the last put frees the folio, whose contents
\* mean nothing from then on.
Put(F) ==
  /\ ref'  = [f \in Frame |-> IF f \in F THEN ref[f] - 1 ELSE ref[f]]
  /\ data' = [f \in Frame |-> IF f \in F /\ ref[f] = 1 THEN ZeroFrame ELSE data[f]]
  /\ excl' = [f \in Frame |-> IF f \in F /\ ref[f] = 1 THEN FALSE ELSE excl[f]]

Init ==
  /\ pte = [m \in Mm |-> [v \in Page |-> Absent]]
  /\ ref = [f \in Frame |-> 0] /\ mapc = [f \in Frame |-> 0]
  /\ excl = [f \in Frame |-> FALSE]
  /\ idx = [f \in Frame |-> ClusterOf(VmaFirst)]
  /\ data = [f \in Frame |-> ZeroFrame]
  /\ rss = [m \in Mm |-> 0]
  /\ deferred = [f \in Frame |-> 0] /\ pin = [f \in Frame |-> 0]
  /\ ctx = [t \in Context |-> Idle]
  /\ fork = NoFork
  /\ mig = MigIdle
  /\ stage = [m \in Mm |-> IF m = Root THEN "live" ELSE "none"]

----------------------------------------------------------------------------
(* User stores and page faults.  A fault holds the mmap_lock or the VMA lock *)
(* for reading from its first step to its last.                             *)

Store(m, v, x) ==
  /\ stage[m] = "live" /\ pte[m][v].k = "map" /\ pte[m][v].p = "rw"
  /\ data' = [data EXCEPT ![pte[m][v].f][pte[m][v].s] = x]
  /\ UNCHANGED <<pte, ref, mapc, excl, idx, rss, deferred, pin, ctx, fork, mig, stage>>

\* do_anonymous_page up to the lock: the entry is none, a zeroed folio is
\* allocated.
AnonAlloc(t, m, v, f) ==
  /\ ctx[t] = Idle /\ stage[m] = "live" /\ ~InFork(m)
  /\ IsNone(m, v) /\ Free(f)
  /\ ref' = [ref EXCEPT ![f] = 1]
  /\ data' = [data EXCEPT ![f] = ZeroFrame]
  /\ ctx' = [ctx EXCEPT ![t] = [Idle EXCEPT !.st = "anon", !.m = m, !.v = v, !.new = f]]
  /\ UNCHANGED <<pte, mapc, excl, idx, rss, deferred, pin, fork, mig, stage>>

\* Mutation: occupied neighbours are overwritten.
AnonTargetsAll(m, v) == {Cluster(v)}

\* Every still empty PTE of the cluster inside the VMA, or only the faulting
\* one when the VMA reads randomly.
AnonTargets(m, v) ==
  {{u \in Cluster(v) : IsNone(m, u)}} \cup (IF RandRead THEN {{v}} ELSE {})

\* Mutation: the one hardware page added up front is not corrected.
AnonRssOne(n) == 1
\* MM_ANONPAGES grows by the PTEs installed.
AnonRss(n) == n

AnonMap(t) ==
  LET m == ctx[t].m  v == ctx[t].v  f == ctx[t].new IN
  /\ ctx[t].st = "anon" /\ PtlFree(m) /\ IsNone(m, v)
  /\ \E S \in AnonTargets(m, v) :
       /\ pte' = Install(m, [u \in S |-> MapTo(f, SubOf(u), "rw")])
       /\ ref' = [ref EXCEPT ![f] = @ + (Cardinality(S) - 1)]
       /\ mapc' = [mapc EXCEPT ![f] = Cardinality(S)]
       /\ rss' = [rss EXCEPT ![m] = @ + AnonRss(Cardinality(S))]
  /\ excl' = [excl EXCEPT ![f] = TRUE]
  /\ idx' = [idx EXCEPT ![f] = ClusterOf(v)]
  /\ ctx' = [ctx EXCEPT ![t] = Idle]
  /\ UNCHANGED <<data, deferred, pin, fork, mig, stage>>

\* vmf_pte_changed: another fault filled the entry first.
AnonStale(t) ==
  /\ ctx[t].st = "anon" /\ PtlFree(ctx[t].m) /\ ~IsNone(ctx[t].m, ctx[t].v)
  /\ Put({ctx[t].new})
  /\ ctx' = [ctx EXCEPT ![t] = Idle]
  /\ UNCHANGED <<pte, mapc, idx, rss, deferred, pin, fork, mig, stage>>

WpFaulting(t, m, v) ==
  /\ ctx[t] = Idle /\ stage[m] = "live" /\ ~InFork(m) /\ PtlFree(m)
  /\ pte[m][v].k = "map" /\ pte[m][v].p = "ro"

\* Mutation: a folio mapped no more often than one cluster looks private.
WpReusableByMapCount(f) == excl[f] \/ mapc[f] <= N
\* do_wp_page: an exclusive folio, or one with no reference but this PTE's,
\* becomes writable in place.
WpReusable(f) == excl[f] \/ ref[f] = 1

WpReuse(t, m, v) ==
  LET f == pte[m][v].f IN
  /\ WpFaulting(t, m, v) /\ WpReusable(f)
  /\ pte' = [pte EXCEPT ![m][v].p = "rw"]
  /\ excl' = [excl EXCEPT ![f] = TRUE]
  /\ UNCHANGED <<ref, mapc, idx, data, rss, deferred, pin, ctx, fork, mig, stage>>

\* Otherwise the fault takes a reference of the old folio and goes on to
\* copy without the lock.
WpFault(t, m, v) ==
  LET f == pte[m][v].f IN
  /\ WpFaulting(t, m, v) /\ ~WpReusable(f)
  /\ ref' = [ref EXCEPT ![f] = @ + 1]
  /\ ctx' = [ctx EXCEPT ![t] = [Idle EXCEPT !.st = "wp", !.m = m, !.v = v,
                                            !.old = f, !.orig = pte[m][v]]]
  /\ UNCHANGED <<pte, mapc, excl, idx, data, rss, deferred, pin, fork, mig, stage>>

\* wp_page_copy: allocate, and copy the whole kernel page.
WpCopy(t, new) ==
  /\ ctx[t].st = "wp" /\ Free(new)
  /\ ref' = [ref EXCEPT ![new] = 1]
  /\ data' = [data EXCEPT ![new] = data[ctx[t].old]]
  /\ ctx' = [ctx EXCEPT ![t].st = "wpc", ![t].new = new]
  /\ UNCHANGED <<pte, mapc, excl, idx, rss, deferred, pin, fork, mig, stage>>

WpOom(t) ==
  /\ ctx[t].st = "wp"
  /\ Put({ctx[t].old})
  /\ ctx' = [ctx EXCEPT ![t] = Idle]
  /\ UNCHANGED <<pte, mapc, idx, rss, deferred, pin, fork, mig, stage>>

\* Mutation: the neighbours point to sub-page 0 of the new folio.
MovedPteSubZero(new, e) == MapTo(new, 0, "rw")
\* A PTE moved to the copy keeps its sub-page.
MovedPte(new, e) == MapTo(new, e.s, "rw")

\* Mutation: the map count of the new folio misses the neighbours.
MovedMapsOne(n) == 1
MovedMaps(n) == n

\* The PTE did not change: it, and every neighbour of the cluster inside the
\* VMA that still maps the old folio, moves to the same sub-page of the new
\* one.  The neighbours' references move here; the faulting PTE's and the
\* fault's own are put after the lock is dropped.
WpCommit(t) ==
  LET m == ctx[t].m  v == ctx[t].v  old == ctx[t].old  new == ctx[t].new
      S == {u \in Cluster(v) : Maps(m, u, old)}
      n == Cardinality(S) IN
  /\ ctx[t].st = "wpc" /\ PtlFree(m) /\ pte[m][v] = ctx[t].orig
  /\ deferred[old] + 2 <= MaxDeferred
  /\ pte' = Install(m, [u \in S |-> MovedPte(new, pte[m][u])])
  /\ ref' = [ref EXCEPT ![new] = @ + (n - 1), ![old] = @ - (n - 1)]
  /\ mapc' = [mapc EXCEPT ![new] = MovedMaps(n), ![old] = @ - n]
  /\ deferred' = [deferred EXCEPT ![old] = @ + 2]
  /\ excl' = [excl EXCEPT ![new] = TRUE]
  /\ idx' = [idx EXCEPT ![new] = ClusterOf(v)]
  /\ ctx' = [ctx EXCEPT ![t] = Idle]
  /\ UNCHANGED <<data, rss, pin, fork, mig, stage>>

WpStale(t) ==
  /\ ctx[t].st = "wpc" /\ PtlFree(ctx[t].m)
  /\ pte[ctx[t].m][ctx[t].v] # ctx[t].orig
  /\ Put({ctx[t].old, ctx[t].new})
  /\ ctx' = [ctx EXCEPT ![t] = Idle]
  /\ UNCHANGED <<pte, mapc, idx, rss, deferred, pin, fork, mig, stage>>

----------------------------------------------------------------------------
(* fork: copy_pte_range walks the parent's entries in address order and may *)
(* drop both page-table locks between two batches.                          *)

ForkStart(p, c) ==
  /\ ~Forking /\ p < c
  /\ stage[p] = "live" /\ stage[c] = "none"
  /\ \A t \in Context : ctx[t] # Idle => ctx[t].m # p
  /\ mig.ph \notin {"unmap", "restore"}   \* anon_vma_fork takes the anon_vma lock
  /\ ForkOverlaps \/ mig.ph = "idle"
  /\ stage' = [stage EXCEPT ![c] = "embryo"]
  /\ fork' = [p |-> p, c |-> c, pos |-> VmaFirst]
  /\ UNCHANGED <<pte, ref, mapc, excl, idx, data, rss, deferred, pin, ctx, mig>>

Copying(v) == /\ Forking /\ fork.pos = v /\ v \in Page
              /\ PtlFree(fork.p) /\ PtlFree(fork.c)

ForkNone(v) ==
  /\ Copying(v) /\ IsNone(fork.p, v)
  /\ fork' = [fork EXCEPT !.pos = v + 1]
  /\ UNCHANGED <<pte, ref, mapc, excl, idx, data, rss, deferred, pin, ctx, mig, stage>>

\* copy_nonpresent_pte: both sides keep a readable migration entry.
ForkMig(v) ==
  LET p == fork.p  c == fork.c  e == [pte[p][v] EXCEPT !.p = "ro"] IN
  /\ Copying(v) /\ pte[p][v].k = "mig"
  /\ pte' = [pte EXCEPT ![p][v] = e, ![c][v] = e]
  /\ rss' = [rss EXCEPT ![c] = @ + 1]
  /\ fork' = [fork EXCEPT !.pos = v + 1]
  /\ UNCHANGED <<ref, mapc, excl, idx, data, deferred, pin, ctx, mig, stage>>

\* Mutation: the pin count is compared with the wrong bound.
MustCopyAboveOne(f) == excl[f] /\ pin[f] > 1
\* folio_try_dup_anon_rmap refuses to share an exclusive folio that may be
\* pinned for DMA.
MustCopy(f) == excl[f] /\ pin[f] > 0

\* Mutation: only the first PTE of the batch is write-protected.
SharedPteFirst(v, u, e) == IF u = v THEN [e EXCEPT !.p = "ro"] ELSE e
\* Entry e of page u, shared in a batch that starts at v.
SharedPte(v, u, e) == [e EXCEPT !.p = "ro"]

\* Mutation: sharing leaves the folio exclusive.
ExclAfterDupKept(f) == excl[f]
ExclAfterDup(f) == FALSE

\* copy_present_ptes shares a whole batch and write-protects both sides.
ForkShare(v) ==
  LET p == fork.p  c == fork.c  f == pte[p][v].f
      S == PteBatch(p, v, VmaLast + 1)
      n == Cardinality(S)
      shared == [u \in S |-> SharedPte(v, u, pte[p][u])] IN
  /\ Copying(v) /\ pte[p][v].k = "map" /\ ~MustCopy(f)
  /\ pte' = [Install(p, shared) EXCEPT ![c] = Install(c, shared)[c]]
  /\ ref' = [ref EXCEPT ![f] = @ + n]
  /\ mapc' = [mapc EXCEPT ![f] = @ + n]
  /\ excl' = [excl EXCEPT ![f] = ExclAfterDup(f)]
  /\ rss' = [rss EXCEPT ![c] = @ + n]
  /\ fork' = [fork EXCEPT !.pos = v + n]
  /\ UNCHANGED <<idx, data, deferred, pin, ctx, mig, stage>>

\* copy_present_page: the child gets a folio of its own for this one PTE,
\* which keeps the source PTE's sub-page.
ForkCopy(v, new) ==
  LET p == fork.p  c == fork.c  f == pte[p][v].f IN
  /\ Copying(v) /\ pte[p][v].k = "map" /\ MustCopy(f) /\ Free(new)
  /\ pte' = [pte EXCEPT ![c][v] = MapTo(new, pte[p][v].s, "rw")]
  /\ ref' = [ref EXCEPT ![new] = 1]
  /\ mapc' = [mapc EXCEPT ![new] = 1]
  /\ excl' = [excl EXCEPT ![new] = TRUE]
  /\ idx' = [idx EXCEPT ![new] = ClusterOf(v)]
  /\ data' = [data EXCEPT ![new] = data[f]]
  /\ rss' = [rss EXCEPT ![c] = @ + 1]
  /\ fork' = [fork EXCEPT !.pos = v + 1]
  /\ UNCHANGED <<deferred, pin, ctx, mig, stage>>

\* No folio for that copy: dup_mmap fails and the child is torn down.
ForkFail(v) ==
  /\ Copying(v) /\ pte[fork.p][v].k = "map" /\ MustCopy(pte[fork.p][v].f)
  /\ stage' = [stage EXCEPT ![fork.c] = "dying"]
  /\ fork' = NoFork
  /\ UNCHANGED <<pte, ref, mapc, excl, idx, data, rss, deferred, pin, ctx, mig>>

ForkDone ==
  /\ Forking /\ fork.pos > VmaLast
  /\ stage' = [stage EXCEPT ![fork.c] = "live"]
  /\ fork' = NoFork
  /\ UNCHANGED <<pte, ref, mapc, excl, idx, data, rss, deferred, pin, ctx, mig>>

----------------------------------------------------------------------------
(* Zap: MADV_DONTNEED, and exit_mmap of a dying address space.              *)

\* A zap of v..end-1, inside one cluster, that has reached its first entry.
Zapping(m, v, end) ==
  /\ stage[m] = "dying" \/ (stage[m] = "live" /\ v..(end - 1) \subseteq Discardable)
  /\ ~InFork(m) /\ PtlFree(m)
  /\ v < end /\ \A u \in v..(end - 1) : ClusterOf(u) = ClusterOf(v)

\* Mutation: the reference mmu_gather will put is dropped here too.
BatchPutAll(n) == n
BatchPut(n) == n - 1

\* zap_present_ptes: all but one reference of the batch go now, the last one
\* when mmu_gather is flushed.
ZapBatch(m, v, end) ==
  LET f == pte[m][v].f  S == PteBatch(m, v, end)  n == Cardinality(S) IN
  /\ Zapping(m, v, end) /\ pte[m][v].k = "map"
  /\ deferred[f] < MaxDeferred
  /\ pte' = Install(m, [u \in S |-> Absent])
  /\ ref' = [ref EXCEPT ![f] = @ - BatchPut(n)]
  /\ mapc' = [mapc EXCEPT ![f] = @ - n]
  /\ rss' = [rss EXCEPT ![m] = @ - n]
  /\ deferred' = [deferred EXCEPT ![f] = @ + 1]
  /\ UNCHANGED <<excl, idx, data, pin, ctx, fork, mig, stage>>

\* zap_nonpresent_ptes on migration entries, which hold no reference.
ZapMig(m, v, end) ==
  LET S == {u \in v..(end - 1) : \A w \in v..u : pte[m][w].k = "mig"} IN
  /\ Zapping(m, v, end) /\ pte[m][v].k = "mig"
  /\ pte' = Install(m, [u \in S |-> Absent])
  /\ rss' = [rss EXCEPT ![m] = @ - Cardinality(S)]
  /\ UNCHANGED <<ref, mapc, excl, idx, data, deferred, pin, ctx, fork, mig, stage>>

DeferredPut(f) ==
  /\ deferred[f] > 0
  /\ deferred' = [deferred EXCEPT ![f] = @ - 1]
  /\ Put({f})
  /\ UNCHANGED <<pte, mapc, idx, rss, pin, ctx, fork, mig, stage>>

\* The last user of an address space leaves: no fault is running in it.
Exit(m) ==
  /\ m # Root /\ stage[m] = "live" /\ ~InFork(m)
  /\ \A t \in Context : ctx[t] # Idle => ctx[t].m # m
  /\ stage' = [stage EXCEPT ![m] = "dying"]
  /\ UNCHANGED <<pte, ref, mapc, excl, idx, data, rss, deferred, pin, ctx, fork, mig>>

\* Everything is zapped; unlink_anon_vmas takes the anon_vma lock.
Reap(m) ==
  /\ stage[m] = "dying" /\ \A v \in Page : IsNone(m, v)
  /\ mig.ph \notin {"unmap", "restore"}
  /\ stage' = [stage EXCEPT ![m] = "none"]
  /\ UNCHANGED <<pte, ref, mapc, excl, idx, data, rss, deferred, pin, ctx, fork, mig>>

----------------------------------------------------------------------------
(* Pinning for DMA (pin_user_pages_fast with FOLL_WRITE): no page-table     *)
(* lock; a fork of the address space holds it off (write_protect_seq).      *)

Pin(m, v) ==
  LET f == pte[m][v].f IN
  /\ stage[m] = "live" /\ ~InFork(m)
  /\ pte[m][v].k = "map" /\ pte[m][v].p = "rw"
  /\ pin[f] < MaxPin
  /\ ref' = [ref EXCEPT ![f] = @ + 1]
  /\ pin' = [pin EXCEPT ![f] = @ + 1]
  /\ UNCHANGED <<pte, mapc, excl, idx, data, rss, deferred, ctx, fork, mig, stage>>

Unpin(f) ==
  /\ pin[f] > 0 /\ (ForkOverlaps \/ ~Forking)
  /\ pin' = [pin EXCEPT ![f] = @ - 1]
  /\ Put({f})
  /\ UNCHANGED <<pte, mapc, idx, rss, deferred, ctx, fork, mig, stage>>

----------------------------------------------------------------------------
(* Migration of one folio: isolate it, replace its PTEs by migration        *)
(* entries address space by address space, move the contents if nothing     *)
(* else holds the folio, and restore the entries to where the folio is.     *)
(* A child's VMA comes after its parent's in the anon_vma interval tree.    *)

\* A walk of phase ph about to enter address space m.
AtWalkStart(ph, m, to) ==
  [ph |-> ph, src |-> mig.src, dst |-> mig.dst, to |-> to, m |-> m,
   pos |-> WalkFirst(mig.src), held |-> FALSE]

MigStart(src, dst) ==
  /\ Migrating /\ mig.ph = "idle" /\ (ForkOverlaps \/ ~Forking)
  /\ mapc[src] > 0 /\ Free(dst)
  /\ ref' = [ref EXCEPT ![src] = @ + 1, ![dst] = 1]
  /\ mig' = [ph |-> "unmap", src |-> src, dst |-> dst, to |-> src, m |-> Root,
             pos |-> WalkFirst(src), held |-> FALSE]
  /\ UNCHANGED <<pte, mapc, excl, idx, data, rss, deferred, pin, ctx, fork, stage>>

\* One batch of try_to_migrate_one.  The first entry of the batch decides
\* the kind of all the migration entries; a folio that stays exclusive for
\* a pin keeps its PTEs and ends the walk.
MigUnmap(v) ==
  LET m == mig.m  f == mig.src
      S == WalkBatch(m, v, f)  n == Cardinality(S)
      kind == CASE pte[m][v].p = "rw" -> "rw"
                [] pte[m][v].p # "rw" /\ excl[f] -> "rx"
                [] OTHER -> "ro" IN
  /\ mig.ph = "unmap" /\ WalkStopsAt(v, "map", f)
  /\ IF MustCopy(f)
     THEN /\ pte' = Install(m, [u \in S |->
                       MapTo(f, pte[m][v].s + (u - v), pte[m][v].p)])
          /\ mig' = [mig EXCEPT !.ph = "move", !.held = FALSE]
          /\ UNCHANGED <<ref, mapc, excl>>
     ELSE /\ pte' = Install(m, [u \in S |-> MigTo(f, pte[m][u].s, kind)])
          /\ ref' = [ref EXCEPT ![f] = @ - n]
          /\ mapc' = [mapc EXCEPT ![f] = @ - n]
          /\ excl' = [excl EXCEPT ![f] = FALSE]
          /\ mig' = [mig EXCEPT !.pos = v + 1, !.held = TRUE]
  /\ UNCHANGED <<idx, data, rss, deferred, pin, ctx, fork, stage>>

\* The walk leaves one address space for the next, or ends.
MigNextMm(ph, then) ==
  /\ mig.ph = ph
  /\ WalkIsOver(IF ph = "unmap" THEN "map" ELSE "mig", mig.src)
  /\ mig' = IF mig.m < Mms
            THEN AtWalkStart(ph, mig.m + 1, mig.to)
            ELSE [mig EXCEPT !.ph = then, !.held = FALSE]
  /\ UNCHANGED <<pte, ref, mapc, excl, idx, data, rss, deferred, pin, ctx, fork, stage>>
MigUnmapNext   == MigNextMm("unmap", "move")
\* Mutation: the restoring walk stops after the first address space.
MigRestoreFirstOnly ==
  /\ mig.ph = "restore" /\ WalkIsOver("mig", mig.src)
  /\ mig' = [mig EXCEPT !.ph = "done", !.held = FALSE]
  /\ UNCHANGED <<pte, ref, mapc, excl, idx, data, rss, deferred, pin, ctx, fork, stage>>
MigRestoreNext == MigNextMm("restore", "done")

\* The move needs the folio unmapped and referenced by the migration alone;
\* it may fail for other reasons too.
MigMove ==
  /\ mig.ph = "move"
  /\ \/ /\ mapc[mig.src] = 0 /\ ref[mig.src] = 1
        /\ data' = [data EXCEPT ![mig.dst] = data[mig.src]]
        /\ idx' = [idx EXCEPT ![mig.dst] = idx[mig.src]]
        /\ mig' = AtWalkStart("restore", Root, mig.dst)
     \/ /\ mig' = AtWalkStart("restore", Root, mig.src)
        /\ UNCHANGED <<data, idx>>
  /\ UNCHANGED <<pte, ref, mapc, excl, rss, deferred, pin, ctx, fork, stage>>

\* Mutation: every restored PTE is writable again.
RestoredPteWritable(to, u, v, kind) == MapTo(to, u - v, "rw")
\* Mutation: set_ptes strides from the sub-page of each address.
RestoredPteStridesTwice(to, u, v, kind) ==
  MapTo(to, SubOf(u) + (u - v), IF kind = "rw" THEN "rw" ELSE "ro")
\* Mutation: set_ptes does not stride.
RestoredPteSubZero(to, u, v, kind) == MapTo(to, 0, IF kind = "rw" THEN "rw" ELSE "ro")
\* The PTE of page u in a batch restored from v on.
RestoredPte(to, u, v, kind) ==
  MapTo(to, u - v, IF kind = "rw" THEN "rw" ELSE "ro")

\* Mutation: one reference per batch instead of one per PTE.
RestoreRefsOne(n) == 1
RestoreRefs(n) == n

\* One batch of remove_migration_pte.  set_ptes strides from mk_pte(new),
\* which is sub-page 0; the first entry decides for the batch whether the
\* PTEs are writable and the folio exclusive.
MigRestore(v) ==
  LET m == mig.m  to == mig.to
      S == WalkBatch(m, v, mig.src)  n == Cardinality(S)
      kind == pte[m][v].p IN
  /\ mig.ph = "restore" /\ WalkStopsAt(v, "mig", mig.src)
  /\ pte' = Install(m, [u \in S |-> RestoredPte(to, u, v, kind)])
  /\ ref' = [ref EXCEPT ![to] = @ + RestoreRefs(n)]
  /\ mapc' = [mapc EXCEPT ![to] = @ + n]
  /\ excl' = [excl EXCEPT ![to] = @ \/ kind \in {"rw", "rx"}]
  /\ mig' = [mig EXCEPT !.pos = v + 1, !.held = TRUE]
  /\ UNCHANGED <<idx, data, rss, deferred, pin, ctx, fork, stage>>

\* The isolation reference of the old folio and the allocation reference of
\* the new one are put, whichever of the two is in use.
MigDone ==
  /\ mig.ph = "done"
  /\ Put({mig.src, mig.dst})
  /\ mig' = MigIdle
  /\ UNCHANGED <<pte, mapc, idx, rss, deferred, pin, ctx, fork, stage>>

----------------------------------------------------------------------------
FaultNext ==
  \/ \E m \in Mm, v \in Page, x \in Val : Store(m, v, x)
  \/ \E t \in Context, m \in Mm, v \in Page :
       \/ \E f \in Frame : AnonAlloc(t, m, v, f)
       \/ WpFault(t, m, v)
       \/ WpReuse(t, m, v)
  \/ \E t \in Context :
       \/ AnonMap(t) \/ AnonStale(t)
       \/ \E f \in Frame : WpCopy(t, f)
       \/ WpOom(t) \/ WpCommit(t) \/ WpStale(t)

ForkNext ==
  \/ \E p, c \in Mm : ForkStart(p, c)
  \/ \E v \in Page : \/ ForkNone(v) \/ ForkMig(v) \/ ForkShare(v) \/ ForkFail(v)
                     \/ \E f \in Frame : ForkCopy(v, f)
  \/ ForkDone

ZapNext ==
  \/ \E m \in Mm, v \in Page, end \in (VmaFirst + 1)..(VmaLast + 1) :
       ZapBatch(m, v, end) \/ ZapMig(m, v, end)
  \/ \E f \in Frame : DeferredPut(f)
  \/ \E m \in Mm : Exit(m) \/ Reap(m)

PinNext == \/ \E m \in Mm, v \in Page : Pin(m, v)
           \/ \E f \in Frame : Unpin(f)

MigStep == \/ \E v \in Page : MigUnmap(v) \/ MigRestore(v)
           \/ MigUnmapNext \/ MigMove \/ MigRestoreNext \/ MigDone

MigNext == MigStep \/ \E src, dst \in Frame : MigStart(src, dst)

Next == FaultNext \/ ForkNext \/ ZapNext \/ PinNext \/ MigNext

Spec == Init /\ [][Next]_vars

\* The migrating thread holds no lock another one can keep from it for ever
\* and is scheduled: a migration that started runs to its end.
FairSpec == Spec /\ WF_vars(MigStep)

----------------------------------------------------------------------------
(* Properties *)

CtxStates == {"idle", "anon", "wp", "wpc"}
MigPhases == {"idle", "unmap", "move", "restore", "done"}
FrameOrNone == Frame \cup {NoFrame}
CtxType == [st : CtxStates, m : Mm, v : Page, old : FrameOrNone,
            new : FrameOrNone, orig : Entry]
MigType == [ph : MigPhases, src : FrameOrNone, dst : FrameOrNone,
            to : FrameOrNone, m : Mm, pos : Nat, held : BOOLEAN]

\* The type invariant.  Counters are C ints, here integers: that they stay
\* non-negative follows from the books below, not from their type.
TypeOK ==
  /\ pte \in [Mm -> [Page -> Entry]]
  /\ ref \in [Frame -> Int] /\ mapc \in [Frame -> Int]
  /\ excl \in [Frame -> BOOLEAN]
  /\ idx \in [Frame -> Nat]
  /\ data \in [Frame -> [Sub -> Val]]
  /\ rss \in [Mm -> Int]
  /\ deferred \in [Frame -> Nat] /\ pin \in [Frame -> Nat]
  /\ ctx \in [Context -> CtxType]
  /\ fork \in [p : Mm, c : Mm, pos : VmaFirst..(VmaLast + 1)]
  /\ mig \in MigType
  /\ stage \in [Mm -> {"none", "embryo", "live", "dying"}]

\* Who holds a reference of f.
MapSites(f)  == {w \in Mm \X Page : Maps(w[1], w[2], f)}
OldIn(f)     == {t \in Context : ctx[t].old = f}
NewIn(f)     == {t \in Context : ctx[t].new = f}
MigHolds(f)  == {x \in {"src", "dst"} : mig[x] = f}

\* The reference count of a folio is one per hardware PTE that maps it, plus
\* one per fault, migration, pin and delayed put that holds it: the batched
\* additions and subtractions of fault, fork, zap, COW and migration agree.
RefBook ==
  \A f \in Frame :
    ref[f] = Cardinality(MapSites(f)) + Cardinality(OldIn(f)) + Cardinality(NewIn(f))
             + Cardinality(MigHolds(f)) + deferred[f] + pin[f]

\* The map count is the number of hardware PTEs that map the folio.
MapBook == \A f \in Frame : mapc[f] = Cardinality(MapSites(f))

\* MM_ANONPAGES counts hardware pages, those under migration included.
RssBook == \A m \in Mm : rss[m] = Cardinality({v \in Page : ~IsNone(m, v)})

\* A folio some PTE maps, some fault uses or some migration moves is not free.
NoFreeInUse ==
  \A f \in Frame :
    MapSites(f) \cup OldIn(f) \cup NewIn(f) \cup MigHolds(f) # {} => ref[f] > 0

\* A hardware page one address space may write is in no other page table,
\* neither mapped nor as a migration entry: this is what copy-on-write is
\* for, across clustering, fork batches and migration entries.
CowIsolation ==
  \A m, n \in Mm : \A v, u \in Page :
    /\ m # n /\ ~IsNone(m, v) /\ pte[m][v].f = pte[n][u].f /\ pte[m][v].s = pte[n][u].s
    => pte[m][v].p # "rw"

\* PageAnonExclusive says whose folio it is: an exclusive folio is in one
\* address space.
ExclusiveOwner ==
  \A f \in Frame : excl[f] =>
    \A m, n \in Mm : \A v, u \in Page : Maps(m, v, f) /\ Maps(n, u, f) => m = n

\* wp_page_copy copies without the page-table lock and remaps the neighbours
\* under it: for every PTE the commit would move, the copy is still what the
\* old folio holds, so no store is lost.
CopyIsCurrent ==
  \A t \in Context :
    LET m == ctx[t].m  v == ctx[t].v IN
    ctx[t].st = "wpc" /\ pte[m][v] = ctx[t].orig =>
      \A u \in Cluster(v) : Maps(m, u, ctx[t].old) =>
        data[ctx[t].new][pte[m][u].s] = data[ctx[t].old][pte[m][u].s]

\* A migration entry exists only while the migration of its folio runs.
NoOrphanEntry ==
  \A m \in Mm, v \in Page :
    pte[m][v].k = "mig" => /\ mig.ph \in {"unmap", "move", "restore"}
                           /\ pte[m][v].f = mig.src

\* A PTE maps the sub-page of the folio its address stands for: the first
\* hardware page of a cluster maps sub-page 0, and so on.
SubPageAligned ==
  \A m \in Mm, v \in Page :
    pte[m][v].k = "map" /\ stage[m] # "dying" => pte[m][v].s = SubOf(v)

\* A folio pinned for DMA is in one address space only.
PinnedNotShared ==
  \A f \in Frame : pin[f] > 0 =>
    \A m, n \in Mm : \A v, u \in Page :
      ~IsNone(m, v) /\ pte[m][v].f = f /\ ~IsNone(n, u) /\ pte[n][u].f = f => m = n

\* While a folio is pinned, no step replaces it under a PTE of the address
\* space: neither copy-on-write nor migration detaches the pin.
PinKeepsPage ==
  [][\A m \in Mm, v \in Page :
       ~IsNone(m, v) /\ pin[pte[m][v].f] > 0 =>
         pte'[m][v].f \in {pte[m][v].f, NoFrame}]_vars

\* A migration entry does not stay for ever, whatever forks, zaps and faults
\* do meanwhile: a thread that waits on it gets its page back.
EntryResolves ==
  \A m \in Mm, v \in Page : (pte[m][v].k = "mig") ~> (pte[m][v].k # "mig")

\* What the hardware reads at page v of m: a page under migration cannot be
\* read before it is restored, and then reads what its folio holds.  Nobody
\* reads a dying address space.
Contents(m, v) == IF IsNone(m, v) \/ stage[m] = "dying" THEN Zero
                  ELSE data[pte[m][v].f][pte[m][v].s]

\* A step that changes page tables changes nothing that a live process reads,
\* except at pages it discards: contents change by stores alone, never
\* because a fault, a COW commit, a fork or a migration put another PTE in
\* place.  ImplementsPrivateMemory alone would take such a change for a store.
RemapKeepsContents ==
  [][pte' # pte =>
       \A m \in Mm, v \in Page :
         stage[m] = "live" /\ v \notin Discardable => Contents(m, v)' = Contents(m, v)]_vars

Memory == INSTANCE PrivateMemory WITH
  mem  <- [m \in Mm |-> [v \in Page |-> Contents(m, v)]],
  fork <- [p |-> fork.p, c |-> fork.c,
           left |-> IF Forking THEN {v \in Page : v >= fork.pos} ELSE {}]

\* The page tables, folios and clusters implement private memory.
ImplementsPrivateMemory == Memory!Spec
=============================================================================
