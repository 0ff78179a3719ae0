---------------------------- MODULE UserPrograms ----------------------------
(***************************************************************************)
(* The programs of src/userspace: a run is one test program on the machine *)
(* of TestMachine, one of the init programs that run tests under a         *)
(* timeout, or the heap of the library the hppa64 programs are built with. *)
(***************************************************************************)
EXTENDS TestMachine

PgclTest         == INSTANCE PgclTest
PgclTestNolibc   == INSTANCE PgclTestNolibc
PgclTestHppa64   == INSTANCE PgclTestHppa64
PgclStress       == INSTANCE PgclStress
PgclStressHppa64 == INSTANCE PgclStressHppa64
MmStress         == INSTANCE MmStress
FileRepros       == INSTANCE FileRepros
InitTests        == INSTANCE InitTests
ArmSegvDiag      == INSTANCE ArmSegvDiag

CONSTANTS Inits, SelfTests, LtpTests, Listed, NotRunnable, NameLimit, Polls, ExitCodes, Signals,
          Base, Limit, PageSize, Sizes, W, MaxBlocks

ASSUME BootAssumption ==
  /\ Inits \subseteq {"microblaze", "sh4"} /\ NameLimit \in Nat /\ Polls \in Nat \ {0}
  /\ IsFiniteSet(SelfTests) /\ IsFiniteSet(LtpTests)
  /\ ExitCodes \subseteq 0..255 /\ Signals \subseteq 1..127
ASSUME HeapAssumption ==
  /\ Base \in Nat \ {0} /\ Limit \in Nat /\ Base <= Limit /\ W \in Nat /\ Limit < 2^W
  /\ PageSize \in Nat \ {0} /\ Sizes \subseteq Nat /\ MaxBlocks \in Nat

VARIABLES running,                                    \* "tests", "boot" or "heap"
          init, jobs, pc, polls, procs, result, tally, lines, real,
          brk, __heap_start, __heap_end, blocks, orig, cur, nulls, lacked
Boot == INSTANCE BootTests
Heap == INSTANCE MinilibHeap

\* What does not run is in one of its initial states.
Resting == program = "arm_segv_diag" /\ test = 1 /\ defect = "none"
BootAtRest == init = "sh4" /\ jobs = <<>>
UserInit ==
  /\ Init /\ Boot!Init /\ Heap!Init
  /\ \/ running = "tests" /\ BootAtRest
     \/ running = "boot" /\ Resting
     \/ running = "heap" /\ Resting /\ BootAtRest

bootvars == <<init, jobs, pc, polls, procs, result, tally, lines, real>>
heapvars == <<brk, __heap_start, __heap_end, blocks, orig, cur, nulls, lacked>>
allvars == <<running, vars, bootvars, heapvars>>

Keep == UNCHANGED running
TestsNext == running = "tests" /\ Next      /\ UNCHANGED <<bootvars, heapvars>> /\ Keep
BootNext  == running = "boot"  /\ Boot!Next /\ UNCHANGED <<vars, heapvars>> /\ Keep
HeapNext  == running = "heap"  /\ Heap!Next /\ UNCHANGED <<vars, bootvars>> /\ Keep
UserNext == TestsNext \/ BootNext \/ HeapNext

\* While a process of a test program can go on, one does; an init goes on, and
\* a SIGKILL takes effect, while a test that an init runs may never end.
UserSpec ==
  /\ UserInit /\ [][UserNext]_allvars
  /\ WF_vars(running = "tests" /\ ((\E p \in Process : Do(p)) \/ NextTest))
  /\ WF_bootvars(running = "boot" /\ (Boot!Supervise \/ \E j \in Boot!AllJobs : Boot!Dies(j)))

----------------------------------------------------------------------------
\* The programs, in groups that meet the same defects.
Suites   == {"pgcl_test", "nolibc", "test_hppa64"}
Stresses == {"pgcl_stress", "stress_hppa64"}
Loops    == {"mm_stress", "file_repros", "file_truncate_partial"}
Diags    == {"init_tests", "arm_segv_diag"}
AllPrograms ==
  [p \in Suites \cup Stresses \cup Loops \cup Diags |->
     CASE p = "pgcl_test"   -> PgclTest!main       [] p = "nolibc"        -> PgclTestNolibc!main
       [] p = "test_hppa64" -> PgclTestHppa64!main [] p = "pgcl_stress"   -> PgclStress!main
       [] p = "mm_stress"   -> MmStress!main       [] p = "stress_hppa64" -> PgclStressHppa64!main
       [] p = "file_repros" -> FileRepros!repros   [] p = "file_truncate_partial" -> FileRepros!truncate_partial
       [] p = "init_tests"  -> InitTests!main      [] p = "arm_segv_diag" -> ArmSegvDiag!main]
MCDefects ==
  [p \in Suites   |-> {"none", "cow", "alias", "wide", "stale", "move", "unshare", "report", "nolimit"}] @@
  [p \in Stresses |-> {"none", "cow", "alias", "stale", "move", "report", "silent", "shift", "swap", "cowkill"}] @@
  [p \in Loops    |-> {"none", "cow", "alias", "through", "trim"}] @@
  [p \in Diags    |-> {"none", "cow", "alias", "wide", "stale", "shift", "nocopy"}]
MCClusters == [p \in Suites \cup Stresses |-> 8] @@ [p \in Loops \cup Diags |-> 4]

\* What each test is there to find: the defects that can touch what it checks.
Finds ==
  [at_pagesz |-> {"report"}, mmap_basic |-> {"alias"}, subpage_identity |-> {"alias"},
   mmap_fixed |-> {"report"}, fork_cow |-> {"alias"}, fork_cow_stress |-> {"alias", "cow"},
   mprotect_subpage |-> {"alias", "wide"}, munmap_partial |-> {"alias", "wide"},
   mremap |-> {"alias", "move"}, swap_stress |-> {"alias"}, madvise |-> {"alias", "stale", "wide"},
   shared_mmap |-> {"unshare"}, rss_accounting |-> {"alias", "cow"}, vmsplice_gup |-> {"alias"},
   pagemap_pte |-> {"report"}, rlimit_boundary |-> {"nolimit"},
   cow_mprotect_race |-> {"alias", "cow", "cowkill"}, mremap_cross_page |-> {"alias", "move"},
   signal_on_fault |-> {"report", "silent"}, swap_verify |-> {"alias", "swap"},
   file_backed_mmap |-> {"alias"}, large_alignment |-> {"report"}, mincore |-> {"report"},
   mmap2_offset |-> {"report"}, sparse_file_mmap |-> {"stale"}, cow_gup_race |-> {"cow"},
   hole_debug |-> {"stale"}, mmap_boundary |-> {"alias", "wide", "shift"},
   anon_stress |-> {"alias", "cow", "nocopy"}, btrfs_io |-> {"alias"}, btrfs_io2 |-> {"alias"},
   anon_cow |-> {"nocopy"}, mmap_64k |-> {"alias"}, mmap_devzero |-> {"stale"}]
MCClaims == UNION {{<<t, d>> : d \in Finds[t]} : t \in DOMAIN Finds}

MCCareless == {"multithread_mmap", "hole_debug", "imap_units"}
\* The stress loops go on when a call fails, and report what they compared.
LoopTests == {"w_writeback", "w_priv_cow", "w_anon_fork", "w_mmap_churn", "w_thp", "reclaim_race",
              "file_rmap", "largefolio", "file_fork", "file_dlopen", "imap_units", "truncate_partial"}
MCTolerant == LoopTests \cup
              {"multi_fork", "rlimit_boundary", "multithread_mmap", "swap_verify", "large_alignment",
               "sparse_file_mmap", "truncate_race", "hole_debug", "mmap_boundary", "anon_stress",
               "btrfs_io", "btrfs_io2", "tmpfile_populate", "creat_in_tmpdir", "file_map_populate",
               "mprotect_large"}
MCWaived == {"mlock", "swap_stress"}
MCExcusing == {"softdirty", "cow_gup_race"}
MCOutspoken == {"truncate_partial"}

----------------------------------------------------------------------------
\* A test program ends, no process of it waits forever, whichever call fails;
\* and an init powers the machine off, whatever hangs.
AllEnd == <>(CASE running = "tests" -> Over [] running = "boot" -> pc = "off" [] running = "heap" -> TRUE)

\* What the variables of the three kinds of program range over.
ProgramsTypeOK == TypeOK /\ Boot!TypeOK /\ Heap!TypeOK

\* The next test is not started before the last one is gone, killed or not:
\* two tests never compete for the memory of the machine.
OneAtATime == Boot!OneAtATime

\* An init prints PASS for a test that ended with 0 before it was killed, and
\* for no other; one that ended with 0 in time is not printed otherwise; and
\* its totals are the numbers of tests printed as passed, failed and skipped.
TalliesAreTrue == Boot!PassIsPass /\ Boot!TalliesAddUp

\* Blocks of the heap do not overlap, and every byte asked for is below the
\* break, however malloc and test_brk take turns; a request is refused only
\* when there is no room for it, and does not lose the room for a smaller one.
HeapIsSound == Heap!BlocksAreMemory /\ Heap!RefusedForRoom
=============================================================================
