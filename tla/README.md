# Page clustering (PGCL): formal models

Page clustering gives the kernel pages of `PAGE_SIZE = PAGE_MMUCOUNT * MMUPAGE_SIZE`
while user mappings keep the granularity of the hardware page (`MMUPAGE_SIZE`). One
`struct page` is then mapped by up to `PAGE_MMUCOUNT` hardware PTEs, each of which may be
absent, read-only, writable or a migration entry on its own. Every counter, every batch
and every copy-on-write decision of `mm/` has to say which of the two pages it counts.

The repository holds a patch series for the kernel (`src/rfc-v1/`), the authors'
bounded-model-checking programs for single protocols of it (`src/rmap-ab/formal/`), and the
programs that test a kernel built from it (`src/userspace/`). This directory models the
parts of all three in which state is shared or an order matters, checks them with TLC, and
proves part of what is checked with TLAPS.

`NNNN:line` is a line of the patch file `src/rfc-v1/NNNN-*.patch`; other references name a
file of `src/userspace/` or `src/rmap-ab/formal/`. `PROJECT.json` maps every definition to
the lines it models.

## The system

| Component | Source | State | Operations | Interacts with |
|---|---|---|---|---|
| Anonymous fault, COW clustering | 0002 `do_anonymous_page`, `wp_page_copy` | PTEs, refcount, mapcount, `PageAnonExclusive`, RSS | fill every empty PTE of a cluster; copy a folio and move all PTEs of the cluster | page-table lock, fork, zap, migration |
| Fork | 0002 `copy_pte_range`, `copy_present_ptes`, `copy_present_page` | parent's and child's PTEs | share a batch write-protected, or copy one PTE of a pinned folio | GUP pins, migration entries |
| Zap | 0002 `zap_present_ptes` | PTEs, references held by `mmu_gather` | clear a batch, drop all references but one, put the last one later | everything that holds the folio |
| Reverse map, migration | 0003 `try_to_migrate_one`, `remove_migration_pte`, `rmap_walk_anon`; 0005 `page_vma_mapped_walk` | migration entries, position of the walk | replace PTEs by entries batch by batch, move, restore | fork copies entries, zap clears them |
| Reference protocols of a cluster | `rmap-ab/formal/pgcl_cluster*.c`, `pgcl_orphan_pte*.c` | refcount, map count, PTEs, page-table locks | fault, zap, put; teardown over two page tables | each other, at every statement |
| Page cache | `surf-pagecache/*.c`; 0005 `filemap.c`, `vmscan.c` | page-cache slot, folio lock, refcount, map count | fault, reclaim, truncate, unmap walk, gate | reverse map |
| TLB flush | `surf-tlb/*.c`; 0002, 0005 `mmu_gather.c` | cached translations, gathered range | unmap, flush, free, reuse | zap, reclaim |
| Test programs | `userspace/pgcl-test*.c`, `pgcl-stress*.c`, `mm_stress_pgcl.c`, `file_*_repro.c`, `init-*.c`, ... | memory, files, children, descriptors, verdict | map, store, fork, compare, judge | a kernel that may have a defect, calls that may fail |
| Boot programs | `userspace/init-microblaze.c`, `sh4-ltp-init.c` | jobs, children, totals | run a test under a timeout, kill, count, power off | tests that hang |
| Small C library | `userspace/hppa64-minilib.h` | program break, end of the heap | `malloc`, threads by `clone` | `test_brk` moves the same break |
| Large folios, swap, mmap family, drivers, file systems, architectures | 0002-0028 | `_large_mapcount`, swap entries, VMAs | | not modelled, see below |

What makes the kernel hard: every operation is batched by a different rule (virtual cluster,
physical kernel page, PFN, end of the VMA); a batch is split by holes, by earlier COW and by
VMA boundaries, and a walk then visits one folio several times; the page-table lock is
dropped between batches of a fork and between copy and commit of a COW; migration entries
lose the sub-page; and one bit (`PageAnonExclusive`) stands for all PTEs of a cluster.

What makes the test programs hard: their verdict is about a kernel they do not see. A test
may print PASS although a call failed and nothing was compared, lose a mismatch in the exit
status of a child, call a legal interleaving a defect, or leave a mapping, limit or child
to the next test of the same process.

What makes the system correct: a process reads what it stored; the reference count is the
number of PTEs plus the other holders; the map count and RSS count hardware pages; a
writable or exclusive folio has one owner; a pinned folio is not replaced; a PTE maps the
sub-page its address stands for; a migration entry is resolved; a folio that was freed, or
left the page cache, is mapped nowhere, neither in a page table nor in a TLB; a verdict is
given once, is no false alarm, and says FAIL when a mismatch was seen.

## Modules

| Modules | Models |
|---|---|
| `PrivateMemory` | the promise to programs: each address space reads back its own last store, a discarded page reads zero, a child starts with what its parent held. It knows no frames |
| `AnonCluster`, `MCAnonCluster` | order-0 anonymous folios in one VMA, shared by up to `Mms` address spaces; `MCAnonCluster` adds the symmetry sets. It implements `PrivateMemory` |
| `FolioLifetime` | the promise of every reference-counted folio: a mapping has a reference, and at zero the folio is given back once and never mapped again |
| `ClusterRef` | `pgcl_cluster.c`, `_atomic.c`, `_locked.c`, `_tryget.c`: threads fault and zap one sub-PTE, statement by statement, under one of four disciplines (`discipline`). The guarded one implements `FolioLifetime` |
| `OrphanPte` | `pgcl_orphan_pte.c`, `_v2.c`, `_v3.c`: teardown of a cluster that lies in two page tables, with locks dropped in between and puts after the lock. It implements `FolioLifetime` |
| `PageCacheGate` | `pc_remove_gate.c` (fault, reclaim, truncation) and `pc_orphan_gate.c` (unmap walk, zap, fault, gate) on one page-cache folio, one step per case of their step functions, seven scenarios |
| `TruncateUnits` | `pc_truncate_units.c`: the two units of truncation |
| `TlbFlush` | `pgcl_tlb_flush.c` and `pgcl_tlb_reclaim_batch.c`: unmap, deferred flush, free and reuse against user accesses |
| `FormalPrograms` | composes the last four: a run is one of the programs |
| `TestLang` | the statements of the test programs as constructors of program text |
| `TestMachine` | the machine that runs them: processes and threads, memory and files, a kernel with at most one defect, calls that fail |
| `PgclTest`, `PgclTestNolibc`, `PgclTestHppa64`, `PgclStress`, `PgclStressHppa64`, `MmStress`, `FileRepros`, `InitTests`, `ArmSegvDiag` | the test functions, one definition per C function and with its name |
| `BootTests`, `MinilibHeap` | the two init programs; the heap and `test_brk` |
| `UserPrograms` | composes the machine and its programs with the last two: a run is one program |
| `AnonCluster_proofs`, `AnonCluster_books`, `AnonCluster_owner`, `AnonCluster_memory` | theorems about `AnonCluster`, each module on top of the one before: types, counters, owners, memory |
| `ClusterRef_proofs`, `FormalPrograms_proofs`, `UserPrograms_proofs` | theorems about the others |

### AnonCluster

| Variable | Code |
|---|---|
| `pte[m][v]` | page table of `m`, indexed by hardware page: none, present (folio, sub-page, permission) or migration entry (kind) |
| `ref`, `mapc`, `excl`, `idx` | `folio->_refcount`, `_mapcount + 1`, `PageAnonExclusive`, `folio->index` |
| `data[f][s]` | contents of hardware page `s` of the folio |
| `rss[m]` | `MM_ANONPAGES` |
| `deferred[f]` | references put after the lock is dropped: `mmu_gather`'s batch, `wp_page_copy`'s two puts |
| `pin[f]` | `FOLL_PIN` references |
| `ctx[t]` | a fault between its locked parts: allocated (`anon`), about to copy (`wp`), copied (`wpc`) |
| `fork`, `mig`, `stage` | the `dup_mmap` and the migration in progress; life of an address space |

The `s` of a migration entry is a history variable: no guard and no restored PTE reads it.

| Actions | Code |
|---|---|
| `AnonAlloc`, `AnonMap`, `AnonStale` | `do_anonymous_page`: allocate; lock, recheck, fill the cluster; lose the race |
| `WpReuse`, `WpFault`, `WpCopy`, `WpOom`, `WpCommit`, `WpStale` | `do_wp_page`, `wp_page_copy`: reuse in place; take a reference and unlock; copy; fail; move the cluster's PTEs; lose the race |
| `ForkStart`, `ForkNone`, `ForkMig`, `ForkShare`, `ForkCopy`, `ForkFail`, `ForkDone` | `dup_mmap`, `copy_pte_range`, one batch per step |
| `ZapBatch`, `ZapMig`, `DeferredPut`, `Exit`, `Reap` | `zap_present_ptes`, `zap_nonpresent_ptes`, `mmu_gather`, `exit_mmap` |
| `Pin`, `Unpin` | `gup_fast_pte_range`, `unpin_user_page` |
| `MigStart`, `MigUnmap`, `MigUnmapNext`, `MigMove`, `MigRestore`, `MigRestoreNext`, `MigDone` | `migrate_pages`: isolate, `try_to_migrate_one` per batch, move or fail, `remove_migration_pte` per batch, put both folios |
| `Store` | the MMU |

A step is one hold of a page-table lock, or one batch of it that is visible outside: a walk
keeps the lock of its address space between batches (`mig.held`, `PtlFree`). Faults hold the
mmap or VMA lock for reading, so a fork waits for them (`ForkStart`) and they for it
(`InFork`); GUP-fast is held off by `write_protect_seq` during a fork.

Code that is not in the patch series (the decision of `do_wp_page`, `copy_nonpresent_pte`, the
core of `migrate_pages`, `dup_mmap`, `mmu_gather`'s flush) is modelled from how the series uses
it and is marked external in `PROJECT.json`.

Frames, and fault contexts, are interchangeable (no definition distinguishes them), so
`MCAnonCluster` declares them symmetric. The liveness run does not use symmetry.

### The programs of `rmap-ab/formal`

Each program is a small scheduler that picks a thread and runs its next atomic section; an
action here is that section, with the variable names of the C program. `ClusterRef` is finer:
the programs behind it use plain C statements, so a `x++` is a load and a store. The variants
with an injected bug (`BUG`, `MODE`, `MISMATCH`, `GUARD`) became mutations that the properties
must refute, except `GUARD` of `pgcl_orphan_pte_v2.c`, which is a variable.

### The test programs

A test is a sequence of statements (`TestLang`): a loop over pages is one statement, a byte
pattern is `(b + s * i) % 256`, a failing call says where the code goes on (`Or`, `OrElse`,
`OrNext`, `OrGo`). `TestMachine` executes the statements of all processes in any order.

| Variable | What it is |
|---|---|
| `code[p]` | what process or thread `p` has still to do |
| `life`, `parent` | live, exited well or badly, killed; who may wait for it |
| `mem[p][r]` | region `r` of `p`: bytes of its own, or links to pages of files and shared objects |
| `shut`, `room`, `held` | protections, `RLIMIT_AS`, descriptors and buffers |
| `flags`, `seen`, `verdicts` | the program's own booleans (`bad`, ...), whether any process saw a mismatch, what was printed |
| `defect` | the defect of the kernel: `cow` (copies share a store), `alias` (two pages of a cluster are one), `wide` (an operation on one page hits the cluster), `stale` (discarded pages keep bytes), `move`, `shift`, `swap`, `trim`, `through`, `unshare`, `nocopy`, `cowkill`, `report`, `silent`, `nolimit` |
| `failed`, `trouble` | calls that failed, at most `MaxFail`; what the current test met |

`defect` is the counterpart of a bug in page clustering; the kernel itself is external here. A
run starts at any test of any program, so that a defect that ends a program early does not
shadow the tests after it.

## Runs

| Run | Distinct states | What it shows |
|---|---|---|
| `cow_faults` | 770 000 | two concurrent faults, stores, `MADV_DONTNEED` and a fork in a VMA that starts in the middle of a cluster: `AnonCluster` implements `PrivateMemory`; no change of page tables changes what a process reads (`RemapKeepsContents`); the copy of `wp_page_copy` is current at commit; no writable page is shared; every PTE keeps the sub-page of its address |
| `books` | 290 000 | `PAGE_MMUCOUNT = 4`, holes, `MADV_RANDOM`, a pin, migration, late puts: reference, map and RSS counts are exact, no used folio is free |
| `whole_migration` | 930 000 | migration, with faults, stores, COW and a fork before, between and after its steps, is invisible to programs where nothing takes a cluster apart: no discard, no random read, no pin, a VMA that begins with a cluster (it ends inside one) |
| `pinned_pages` | 120 000 | pins, forks that copy pinned pages one by one or fail, migrations that start on pinned folios: a pinned page is neither shared by fork nor replaced by migration or COW |
| `fork_chain` | 93 000 | three address spaces, forks overlapping a migration: every entry is resolved, none survives the migration, exclusive folios have one owner |
| `cluster_ref` | 380 000 | three threads under all four disciplines |
| `formal_programs` | 1 400 | every scenario of the teardown, page-cache, truncation and TLB programs: nothing freed or removed is mapped, counts are exact, no access reaches a freed frame through a stale translation, every actor ends |
| `user_programs` | 620 000 | all test programs, both init programs, with the names of a directory in every order, the heap |
| `unaligned_migration`, `unpin_during_fork`, `migration_exclusive`, `failed_fork` | | violated: findings 1 to 4 |

`ImplementsPrivateMemory` allows any single hardware page to change by a store, so a handler
that corrupts one page alone looks like a store of the program. `RemapKeepsContents` closes that
gap: a step that changes page tables changes nothing a live process reads.

`cluster_ref` states of the four disciplines what each one achieves: under one lock all counts
balance, with plain atomic increments the references balance in the end (the folio may be freed
too early: the authors' own negative result), and only increment-unless-zero with an atomic
decrement-and-test satisfies `NoFreeWhileMapped`, `RefCountsHolders`, `EventuallyFreed` and
`FolioLifetime`. Its map count is a plain counter and is not claimed to balance.

The properties of `user_programs` relate what happened to what is printed: `NoFalseAlarm` (a
FAIL on a healthy kernel needs a failed call), `FindsDefect` (a test does not pass on a kernel
with a defect it is there to find: `Finds` lists them), `MismatchReported`, `NoVacuousPass` (no
PASS when a call failed or the machine lacks what the test needs), `NothingLeaked`, `OneVerdict`. Where the code is known to do otherwise
the test is named in a constant, so that the exception is visible and the other tests are held to
the rule:

* `MCTolerant`: tests that go on, or count only what worked, when a call fails: the stress loops,
  the tests run by init, and those of the suites that count errors over several objects.
* `MCWaived`: `mlock` and `swap_stress` print PASS, with "skipped" after the name, when memory cannot be
  locked (pgcl-test.c:390, pgcl-test-hppa64.c:317) and when less than 32 MB are available (:469, :382).
  `NoVacuousPass` excepts them, and `FindsDefect` says of `swap_stress` only that it finds what it claims
  where it looks: with little memory it passes on any kernel.
* `MCExcusing`: `cow_gup_race` prints SKIP, whatever it compared, when its child was killed
  (pgcl-stress.c:927); `softdirty` prints SKIP for bits that are not as
  expected, because a kernel need not track writes.
* `MCCareless`: `multithread_mmap`, `hole_debug`, `imap_units` leave something on an error path.
* `MCOutspoken`: a worker of `file_truncate_partial_repro.c` that cannot open its file returns
  into the loop of `main` (:66, :129) and prints a verdict of its own.

`mmap2_offset` is not in `Finds` for the defect `shift`: its pattern is the same on every page of
the file (pgcl-stress.c:577), so it cannot tell which page it got. The child of `w_anon_fork`
(mm_stress_pgcl.c:116) reports by an exit status its parent does not look at; the defects its
program is run with are those its other comparisons see as well. `MismatchReported` would not notice a
defect that only that child can see.

### Bounds

* `N`: 2 hardware pages per kernel page, the least that has neighbours; 3 in `cow_faults`, so that a
  VMA can leave out a page of its first cluster and still have two; 4 in `books`, the least in which a cluster with a hole has a fragment of two and another fragment (so that batch, batch
  again and single differ).
* Three frames: a source, a destination or COW copy, and one more for a second address space; two
  where only counts or entries are checked; four in `pinned_pages`, since the
  copies that a fork makes of a cluster with a pinned page take a folio per hardware page, and a
  migration of one of them yet another.
* Two fault contexts where faults race with each other (`cow_faults`), one elsewhere: a second
  writer is always there as `Store`, which needs no context.
* `Mms`: parent and child; three in `fork_chain`, so that a child forks while a walk is between the
  other two.
* `MaxPin = 1` where pages are pinned: fork and migration only test for zero. `MaxDeferred = 2`: a COW defers two puts.
* `Val = {0, 1}` where contents matter, one value where only counts do.
* `Discardable` is the set of pages programs discard. A discarded page reads zero, so a page outside
  the set that turns to zero is a lost store the refinement detects.
* `RandRead`, `Migrating`, `ForkOverlaps` switch on parts of the environment so that each run stays
  small; each is TRUE in some passing run. `ForkOverlaps = FALSE` in the runs with contents and
  migration, or with pins: with it findings 2 and 3 apply. What holds in spite of them is checked
  with it (`books`, `fork_chain`). Finding 4 needs a cluster with a gap, a pin and a fork that runs
  out of pages; `cow_faults` and `whole_migration` have no pins, `pinned_pages` no gaps.
* `Threads`: three, one more than the programs have. `NSUB = 8`, `BND = 3`: two page tables with
  different shares of the cluster. `NCLUST = 4`, `MMUC = 8`: every alignment of the new size.
  `PAGE_MMUCOUNT = 4`, `SUB_OFF` anywhere: the cluster may cross the end of its kernel page.
* `Clusters`: 8 or 4 hardware pages per kernel page, the tests' sizes scaled with it; iteration
  counts of stress loops are two, so that a second round meets what the first one left.
* `MaxFail = 1`: one failing call per run, at any call, on a healthy kernel. A kernel with a defect
  and a failing call together say nothing new about a verdict.
* `Polls = 2` before a timeout, five tests of which some are listed, not executable, or too many
  for the table of names (`NameLimit = 2`, 256 in the code, for three tests). They exit with 0, 32 or 127,
  which the inits print differently, with 9, whose wait status is microblaze's answer for a timeout, or
  die of a signal.
* `W = 8` bits of address and 16-byte pages, so that requests which just fit or just do not occur. None wraps.

Deadlock is checked in all runs: where a program ends, `Finished` is a step of its own.

### Fairness

* `AnonCluster!FairSpec`: weak fairness of `MigStep`, the migrating thread. Between two of its
  steps it only waits for locks that the modelled holders always release. No fairness of faults,
  forks, zaps or puts is assumed: `EntryResolves` does not need a fork to end.
* `ClusterRef!FairSpec`: weak fairness of each thread and of the last put of `main`.
* `FormalPrograms!Spec`: while a thread of the program (the reclaim thread of `TlbFlush`, not its
  user) can go on, one does. The programs' schedulers run until all threads are done.
* `UserPrograms!UserSpec`: while some process can go on, some process does; the choice among
  them is not fair. An init goes on and SIGKILL takes effect, but a test under an init may run
  for ever: the power-off must not depend on it.

## Findings

1. **A restored batch starts at sub-page 0** (0003:192). `mk_pte(new)` is sub-page 0 and
   `set_ptes` strides from it. The comments (0003:116, 0003:187) claim that virtual and physical
   sub-page agree afterwards; they do not for a batch that starts inside a cluster: the first
   cluster of an unaligned VMA, or the second fragment of a cluster with a hole.
   `unaligned_migration` needs about seven steps: fault, migrate, restore. The program then reads
   a hardware page it never wrote.
   A third way to it needs neither hole nor unaligned VMA: `copy_present_page` gives the child a folio
   for each hardware page of a pinned one, and keeps the sub-page (0002:656), so that the copy of
   hardware page 1 lies at sub-page 1, alone. Checking `SubPageAligned` with the constants of
   `PinnedPages.cfg` shows it in fifteen steps: fault, pin, fork, and a migration of the child's folio.
   With three frames there is none left for that migration, which is why an earlier run with pins
   did not see it; the proof of `SubPageAligned` with migration asked for it.
2. **The pin is tested per batch** (0002:803). A pin released between two batches of a fork leaves
   the first PTE writable and the rest shared. A later COW, which copies without the page-table lock
   and then moves every PTE of the cluster, loses a store made through that PTE.
3. **The first entry decides for the batch** (0003:85, 0005:1150). Migration entries are batched by
   PFN; a fork that overlaps the migration makes single entries readable, and a batch that begins
   with a writable one marks a folio of two address spaces `PageAnonExclusive`.
   `RMAP-143-RESUMPTION.md:101` reports that warning from a live run and line 111 calls the bit
   correct. It takes a hole in the cluster or a pin for a batch to begin with a stronger
   entry than a shared one: without either, a fork and the walk take entries in the same order, and
   `fork_chain` finds no such batch, nor do its constants with a third frame, or with three hardware
   pages and two address spaces.
4. **A fork that fails leaves a folio shared in part** (0002:852). The first fragment of a folio with
   gaps clears its exclusive bit; the later ones are write-protected when the walk reaches them. If
   the copy of a pinned folio in between cannot be allocated, it never does, and the parent runs on
   with a writable PTE of a folio that is not exclusive. The next COW loses a store as in finding 2.
   The proof attempt of `CopyIsCurrent` stopped at `ForkFail`; the run is its counterexample.

Seen while modelling, and part of the models, but without a run of its own:

* `pc_remove_gate.c`: the last case of `T_step` sets the reference count to zero where line 252
  speaks of putting one batch reference, so a fault that lost the race for the lock puts after
  it; and the freeze of `R_step` compares with `1 + NSUB` after its own unmap has put the mapping
  references, so reclaim never removes the folio there.
* `pc_truncate_units.c:112`: step (1) is said to have cleared the sub-PTEs between the new size and
  its cluster's end; it starts at the end of that cluster.
* `init-microblaze.c`: 0x0900, the answer for a timeout, is also the wait status of an exit with 9
  (:57); the "no timeout" for trusted tests (:60) is 120 seconds.
* `hppa64-minilib.h`: `malloc` rounds a size up, and adds it to the end of the heap, without a test
  for a sum that wraps; `HeapSound` below needs that none does.
* `sh4-ltp-init.c:79`: the 257th test of `/bin/ltp` is neither run nor counted.
* `pgcl-test.c:392`, `:470`, and the same lines of the hppa64 suite (:318, :383): a test that could
  not run is printed, and counted, as passed. The suites do not agree on this: the tests of `pgcl-test.c` that print
  SKIP (:643, :819, :916, ...) count as passed too, those of `pgcl-stress.c` (:35) as nothing.
* `pgcl-stress.c:577`, `:927`, `mm_stress_pgcl.c:116`, `file_truncate_partial_repro.c:66`: see the
  exceptions above.

## Proofs

For every value of the constants that satisfies the named assumptions of the modules: any
cluster size, any VMA, any finite set of contexts, any number of address spaces and frames
(`AnonCluster`); any finite set of threads (`ClusterRef`); any cluster size and any place of the
cluster in its page (`TlbFlush`); any number of sub-PTEs, any boundary of the two page tables, any
size of a file and of its truncation (`FormalPrograms`); any sets of tests, timeouts and exit codes,
any size of memory (`UserPrograms`). 26 of the 36 properties of the passing runs are stated by a theorem,
some under conditions named below; seven of those left are about the verdicts of the test programs
and three are liveness.

| Theorem | Module | Statement |
|---|---|---|
| `Inductive`, `TypeCorrect` | `AnonCluster_proofs` | `Spec => []IInv`, `Spec => []TypeOK` |
| `BooksInductive` | `AnonCluster_books` | `Spec => []BookInv` |
| `RefCounted`, `MapCounted`, `RssCounted` | | `Spec => []RefBook`, `[]MapBook`, `[]RssBook` |
| `NeverFreeInUse` | | `Spec => []NoFreeInUse` |
| `WalksComplete`, `NoOrphans` | `AnonCluster_owner` | `Spec => []OrphanInv`, `Spec => []NoOrphanEntry` |
| `OwnersInductive` | | `Spec => []OwnerInv` (1) |
| `SubPagesKept`, `OneOwner`, `PagesIsolated` | | `Spec => []SubPageAligned`, `[]ExclusiveOwner`, `[]CowIsolation` (1) |
| `WalksInductive` | | `Spec => []WalkInv` (2) |
| `MemoryInductive` | `AnonCluster_memory` | `Spec /\ ForksFailWhole /\ RestoresWhole => []MemInv` (3) |
| `CopiesCurrent`, `SubPagesAligned` | | `... => []CopyIsCurrent`, `[]SubPageAligned` (3) |
| `ExclusiveAlone`, `WritersAlone`, `PinnedAlone` | | `... => []ExclusiveOwner`, `[]CowIsolation`, `[]PinnedNotShared` (3) |
| `PinnedStays`, `ContentsKept` | | `... => PinKeepsPage`, `RemapKeepsContents` (3) |
| `PrivateMemoryImplemented` | | `... => ImplementsPrivateMemory` (3) |
| `WholeInductive` | | `Spec => [](MemInv /\ WholeInv)` (4) |
| `MigrationInvisible` | | `Spec =>` `ImplementsPrivateMemory`, `RemapKeepsContents`, `[]` of `CowIsolation`, `ExclusiveOwner`, `SubPageAligned`, `CopyIsCurrent` (4) |
| `CowInvisible` | | the same (5) |
| `GuardedInductive` | `ClusterRef_proofs` | `Spec => []IInv` |
| `CountIsExact`, `FreedIsUnmapped`, `OneLastPut` | | `Spec => []RefCountsHolders`, `[]NoFreeWhileMapped`, `[]FreedOnce` |
| `GuardedImplements` | | `Spec => ImplementsFolioLifetime` |
| `Balances` | | `Spec => []FinallyBalanced` |
| `FormalInductive` | `FormalPrograms_proofs` | `Spec => []IInv` |
| `FreedIsUnmapped`, `CountedIfPresent`, `CountIsExact`, `TruncationKeepsFile` | | `Spec => []GoneIsUnmapped`, `[]NoOrphan`, `[]RefsExact`, `[]FileIsKept` |
| `TeardownImplements` | | `Spec => ImplementsFolioLifetime` |
| `NoStale`, `StaleHasFlush` | | `Spec => []NoStaleTranslation`, `Spec => []StaleIsPending` |
| `BootInductive` | `UserPrograms_proofs` | `UserSpec => [](BootInv /\ TallyInv)` |
| `OneTestAtATime`, `TalliesTrue` | | `UserSpec => []OneAtATime`, `[]TalliesAreTrue` |
| `HeapSound` | | `UserSpec => []HeapIsSound` (6) |

(1) where folios are not migrated (`~Migrating`); forks may overlap unpins.
(2) where no migration begins during a fork, and no fork during a migration (`~ForkOverlaps`).
(3) with migration, on the behaviours of three conditions, each of which a finding shows to be
needed: no migration or unpin overlaps a fork (`~ForkOverlaps`; findings 2 and 3); a fork that fails
has shared no folio in part (`ForksFailWhole`; finding 4); no batch is restored from inside a folio
(`RestoresWhole`; finding 1). The last two are not properties of the code, so these theorems
say what follows where they happen to hold; (4) and (5) are settings in which they always do.
(4) the setting of `whole_migration`: `~ForkOverlaps`, and `WholeSetting`, which is a VMA that begins
with a cluster, no discards, no random reads and no pins. It may end anywhere.
(5) the setting of `cow_faults`: `~ForkOverlaps`, no migration and no pins, in any VMA, with any pages
discarded and with random reads.
(6) for requests that do not wrap around the address space (`NoWrap`), as those of the run do.

In (4) `~ForkOverlaps` cannot be dropped for `SubPageAligned`, although no cluster is taken apart by a
discard or a pin. TLC finds, in 27 steps, a child that is forked while a migration entry of a cluster
has yet to be resolved: it copies, on a store, the pages of the cluster that are already mapped, and
the next migration of the folio finds in that child a fragment that begins inside the cluster.

### AnonCluster

`TypeOK` is not inductive. That a restored or moved PTE stays inside its folio needs `SubBelow`: the
sub-page of an entry is never above the sub-page of its address. It is what survives of `SubPageAligned`
in the folios of finding 1: a restored batch starts at 0 and strides by one, its addresses
stay inside one cluster, so the sub-page can only become smaller. `CtxHolds` and `MigHasFolios` say that a
fault, or a migration, in a given state has taken its folios, without which the counters updated at
commit would be those of `NoFrame`. `IInv` is their conjunction; one lemma per group of actions
(faults, fork, zap, pins, the two walks) shows that it is preserved, and lemmas about division
(`SameCluster`), page tables (`InstallType`, `PutType`) and cardinalities (`CountType`) carry the data part.

`RefBook` and `MapBook` are not inductive either, and need each other. `BookInv` adds to `IInv` what the
handlers rely on without saying so:

* `Fresh`: a folio that a fault has allocated and not yet mapped has one reference. `AnonMap` and
  `WpCommit` add one reference less than the PTEs they install, which is right only if the
  allocation reference, and no other, becomes the first PTE's;
* `CtxBook`: what a fault holds in each state, and that its address space is live;
* `MigBook`: the two folios of a migration differ, so that putting both puts one reference each;
* `ForkBook`: the page table of a child is empty from the position of the copy on, so a copied PTE
  never overwrites another one and loses its counts.

The argument is the same for each handler. Its batch gains, loses or moves a set of PTEs
(`GainsCount`, `LosesCount`, `SwapsCount`: cardinalities of `MapSites` from those of the batch) and
its contexts, pins, late puts and migration gain or lose holders (`HoldersCtx`, `HoldersMig`,
`HoldersPut`); `Shift(f, a, b)` says that the counters of `f` move by the same numbers, and
`BalancedStep` concludes. Nothing in it depends on how a batch is cut: the books are exact in the
states of all findings too, which corrupt contents and ownership and never counters.
`RssCounted` needs of `BookInv` the types and the emptiness of the child only, and `NeverFreeInUse` follows from the
books: every user is one of the terms of the sum.

`OrphanInv` is what makes the two walks of a migration complete. `IdxBook`: every entry of a folio lies in
the cluster of `folio->index`, which is where the walks look. `MigEntries`: every migration entry is of the
folio that is being migrated and, once the restoring walk has begun, ahead of it. A fork copies entries
behind the walk's back only because `ForkOrder` holds: the child comes after its parent in every walk
(the order of the `anon_vma` interval tree). `DstUnmapped` keeps the destination out of every page table until the move.

`OwnerInv` has no condition on pins and forks. `RwAlone` (who may write a page has it alone) is not
inductive without `Aligned`: that two PTEs of one folio at the same address are the only ones that can
collide is true because a PTE maps the sub-page of its address, so `CowIsolation` follows from
`RwAlone` and `SubPageAligned`. `WpReuse` relies on `RefBook`: a folio with one reference has one PTE (`OneSite`).

`WalkInv` is what the walks of a migration add once it and a fork exclude each other (`Apart`). The PTEs
still to unmap are ahead of the walk and the entries behind (`MapsAhead`, `MigsBehind`); what is mapped
at the move is what a pin kept (`MoveMaps`), and `Untouched` says that a folio which is exclusive then has
no entries, so a move finds the folio unmapped everywhere or leaves it where it is. Before the move
nobody has the destination, and after it nobody the source (`LoneDst`, `LoneSrc`): it is the copy that
makes them equal, and no store can come in between.

`MemInv` is the argument that three things nobody's lock protects are still right when they are used: the
copy of `wp_page_copy` at its commit, the contents of a folio at its move, and the permission in a
migration entry at its restore. It speaks of an entry by the folio it stands for (`Folio`): a
migration entry is, from the move on, an entry of the folio it will be restored to.

* `RwExcl`: a folio that a PTE may write is exclusive. Hence a folio a COW copies, which is not
  (`OldPlain`), cannot be stored to by anyone until the commit (`CopyData`).
* `ExclSole`, `KindSole`: an exclusive folio, and one that an entry will make exclusive or writable again, is
  in one address space. The unmapping walk clears the flag at its first batch and gives the later
  ones readable entries; it holds the page-table lock meanwhile, and `Cut` is that folio.
* `HeadRo`: so a readable entry of the first sub-page says that the folio was shared: it is not
  exclusive, not pinned, and none of its entries is more than readable. The restore relies on it,
  because the first entry of a batch decides for all, and so does the reuse in place. `RestoresWhole`
  is used here and for the sub-pages: a batch that begins elsewhere says nothing of the folio.
* `PinnedSole`: a pinned folio is in one address space, and exclusive there unless it is `Cut`: a fast pin may
  come after the walk has begun, and the move then fails.
* `RestData`: what is still to be restored is what was there at the move, sub-page by sub-page.

A fork breaks `RwExcl` in the part of the parent it has yet to reach (`InRest`), because the first fragment
of a folio clears the bit for all; while it runs nobody faults in the parent (`ForkQuiet`) and the folios of
that part are in parent and child alone (`ForkRest`). At its end `InRest` is empty again, unless it failed half
way: there `ForksFailWhole` is used, and nowhere else. A pin dropped during the fork would leave a writable
PTE behind the walk; `ForkRest` excludes it by `~ForkOverlaps`. The refinement maps each handler to a
step of `PrivateMemory`: a fault, a commit, a fork batch or a batch of a migration changes what nobody reads
(`Unseen`), a zap is `Discard`, a fork batch the copy of the pages it passed.

`WholeInv` discharges the two hypotheses. `Uniform`: the entries of a cluster are of one folio and one
kind. Then a batch is the whole rest of a cluster (`ClusterRun`) and a walk that meets an entry meets it at
the first page of its cluster (`ClusterHead`), which is sub-page 0. A fork and the two walks stop between clusters
only, but for the way past an empty one (`ForkHead`), and both keep what is behind and ahead of them
uniform.

### ClusterRef

`NoFreeWhileMapped` is not inductive: nothing in it says why a PTE keeps the count up. `Inv`
adds to the types the exact count (`RefCountsHolders`: a thread holds a reference between its
`try_get` and its put), `PteHeld` (a present sub-PTE belongs to a thread between its two stores,
hence to a holder) and `LastIsMain` (no thread's put reaches zero while the cluster's own reference
is there; only `main`, after all threads, puts the last one and frees). `IInv` is `Guarded => Inv`,
because `discipline` is a variable. The step that needs the guard is `TryGetRef`: with the count
at zero it would make a holder of a folio somebody is about to free. The refinement follows: every
statement of a thread keeps the count positive and not freed, which is `FolioLifetime!Use` or a
stutter, and `MainFree` is `Free`.

`Balances` is about two other programs. With atomic counters the count is the number of the threads
between their `get` and their `put` (`CountedInv`), as with the guard. Under the lock `SerialInv` ties both
counters, and the value its holder has loaded, to the holder's place; that no other thread is between a
load and a store is what makes the plain statements right. Of the program with neither nothing is claimed.

### FormalPrograms

A thread of these programs is a straight line, so its place says what it has done. `OrphanMaps` gives the
contents of both page tables, and of the reverse map, as a function of the places of the walk, the zap
and the fault; `OrphanRefs` the count as the sum of what each of them has still to put. The count is
zero only when all of them are done, and then the page tables are empty: `GoneIsUnmapped`. For the page
cache `LockOwner` says which steps imply that the folio lock is held and that the folio is still in
the cache; the gates are right because the folio leaves the cache only with the lock, unmapped
(`GateMaps`, `GateRefs`). `TruncateInv` is the loop invariant of the removal.

### TlbFlush

`Phase` ties the position of the reclaim thread to the rest: up to the unmap every PTE is present,
until the flush a pending range covers the whole cluster (`Covers`) and the frame is not free, and
after it no translation is cached. The arithmetic is in `Covers`: the gathered range starts at the
first hardware page of the cluster, wherever it lies in its kernel page, and is as long as it.

### UserPrograms

`BootInv`: a test still to be run has no process, no result and no line (`ToBeRun`); only the test at hand
has a process, while the init polls or waits for it (`Alone`); at each point of `run_timeout` and `run` the
process, how it really ended and the result agree (`AtHand`); and what was printed is how it ended (`Truth`).
That every test is printed once, on which the totals rest (`TallyInv`), needs that the orders a directory
may be read in name each file once. `HeapInv` says where the heap ends when `test_brk` has moved the
break, and that every block lies in it. It holds for any order of `malloc` and `test_brk`, of which the programs
have only few: `pgcl-test-hppa64` first allocates in `swap_stress`, after `test_brk`.

The attempt corrected the model once: two guards of the verdict of microblaze's LTP tests overlapped (a
timeout is also an exit with 9), and a CASE with two true guards is any of them. The guards exclude each
other now, in the order of the code's else-ifs.

## Not proved, and not modelled

* `ExclusiveOwner` where forks overlap migrations (without pins and holes, `fork_chain`) is
  model-checked only; with a hole or a pin it is false (finding 3).
* The verdicts of the test programs (`NoFalseAlarm`, `FindsDefect`, `MismatchReported`, `NoVacuousPass`,
  `OneVerdict`, `NothingLeaked`) and `ProgramsTypeOK` are model-checked only: they depend on each
  statement of a hundred fixed program texts, which TLC enumerates and a proof would only list.
* Liveness (`EntryResolves`, `EventuallyFreed`, both `AllEnd`) stays with TLC.
* Large folios (kernel-page rmap events, split) and swap (entries with a slot per sub-page): no
  module yet; the hazards are listed. Of the page cache, the PTE arithmetic of `filemap_map_pages`
  and `set_pte_range`, shmem and the swap cache; of TLB flushing, several clusters in one gather and
  flushes by interrupt.
* mmap, mremap, mprotect, mlock in the kernel (0004): seen from the test programs only.
* Inside `AnonCluster`: the zero page of read faults, userfaultfd, soft-dirty, mlock, KSM and
  `unshare` faults; allocation failure of `do_anonymous_page`; one VMA per address space.
* `pgcl_orphan_pte_witness.c` replays one fixed schedule of `OrphanPte`.
* Test programs: output other than verdicts, time, and sizes beyond the scaled ones. Straight-line
  diagnostics that print what they see and judge nothing (`arm-fork-*.c`, `init-alpha*.c`,
  `vmlck-diag.c`, ...), benchmarks, and the huge-page test.
* Drivers, file systems, architectures, plumbing: unit conversions at call sites, no state.
* `elf64-hppa-patched.c` and the C library stubs: third-party code and formatting.
* Scripts of the test matrix and the log tools: see `PROJECT.json`.

## Plan

1. `ExclusiveOwner` of `fork_chain`: in whole clusters a fork that overlaps a migration keeps the kind
   of all entries of a folio in an address space alike.
2. `SwapCluster`: `try_to_unmap_one` and `do_swap_page` for a cluster, against `PrivateMemory`; 0003:565
   documents that all but one hardware page are lost.
3. `LargeCluster`: `pgcl_rmap_fire_kpage_event`, `folio_add_rmap_subptes`, fork, zap and split of a
   folio of several kernel pages, against per-kernel-page reference counters.
4. `PgclUnits`: `pgoff_*`, `vma_suboffset`, `vma_address`, `pte_cluster.h` and the mremap arithmetic as
   operators, against a byte-level reference, with lemmas proved for every shift.

## Running

    tlc -config Books.cfg MCAnonCluster
    tlc -config WholeMigration.cfg MCAnonCluster    # three minutes
    tlc -config ClusterRef.cfg ClusterRef
    tlc -config FormalPrograms.cfg FormalPrograms
    tlc -config UserPrograms.cfg UserPrograms       # three minutes
    tlapm AnonCluster_proofs.tla
    tlapm AnonCluster_books.tla                     # three minutes
    tlapm AnonCluster_owner.tla                     # five minutes
    tlapm AnonCluster_memory.tla                    # ten minutes
    tlapm ClusterRef_proofs.tla
    tlapm FormalPrograms_proofs.tla
    tlapm UserPrograms_proofs.tla                   # ten minutes
