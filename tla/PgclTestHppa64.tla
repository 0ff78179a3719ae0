--------------------------- MODULE PgclTestHppa64 ---------------------------
(***************************************************************************)
(* src/userspace/pgcl-test-hppa64.c: the first fifteen functional tests on *)
(* the library of hppa64-minilib.h.  The tests are the statements of       *)
(* pgcl-test.c, the scaled numbers of rounds and pages included.           *)
(***************************************************************************)
EXTENDS TestLang
T == INSTANCE PgclTest

test_at_pagesz        == T!test_at_pagesz
test_mmap_basic       == T!test_mmap_basic
test_mmap_fixed       == T!test_mmap_fixed
test_fork_cow         == T!test_fork_cow
test_fork_cow_stress  == T!test_fork_cow_stress
test_mprotect_subpage == T!test_mprotect_subpage
test_munmap_partial   == T!test_munmap_partial
test_mremap           == T!test_mremap
test_brk              == T!test_brk
test_mlock            == T!test_mlock
test_multi_fork       == T!test_multi_fork
\* 75 % of the available memory and 16384 pages at most, instead of 50 % and 4096.
test_swap_stress      == T!test_swap_stress
test_madvise          == T!test_madvise
test_shared_mmap      == T!test_shared_mmap
test_mmap_cycle       == T!test_mmap_cycle

main == SubSeq(T!main, 1, 15)
=============================================================================
