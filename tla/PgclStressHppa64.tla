-------------------------- MODULE PgclStressHppa64 --------------------------
(***************************************************************************)
(* src/userspace/pgcl-stress-hppa64.c on hppa64-minilib.h, whose threads   *)
(* are processes.                                                          *)
(***************************************************************************)
EXTENDS TestLang
S == INSTANCE PgclStress

\* A thread is a forked process that exits with 1 if the function returns
\* something; pthread_join waits for it and maps its status back.
pthread_create(t, start_routine, fail) == fork(t, start_routine, fail)
pthread_join(t, x) == waitpid(t, x)

mt_mmap_worker(r) == S!mt_mmap_worker(r)
test_multithread_mmap ==
  For(<<"c2", "c3">>, LAMBDA t : pthread_create(t, mt_mmap_worker(t), Or(FAIL)))
  \o For(<<"c2", "c3">>, LAMBDA t : pthread_join(t, "bad")) \o Judge("bad")

test_cow_mprotect_race == S!test_cow_mprotect_race
test_mremap_cross_page == S!test_mremap_cross_page
\* The library has no sigsetjmp.
test_signal_on_fault   == SKIP
test_swap_verify       == S!test_swap_verify
test_file_backed_mmap  == S!test_file_backed_mmap
test_large_alignment   == S!test_large_alignment
\* Every error of mincore is a SKIP.
test_mincore ==
  mmap("p", 16, Or(FAIL)) \o store("p", Even(16), 0, 1)
  \o get("vec", Or(FAIL \o munmap("p", Pages(16))))
  \o Call(Or(SKIP \o put("vec") \o munmap("p", Pages(16))))
  \o query("bad") \o put("vec") \o munmap("p", Pages(16)) \o Judge("bad")

main == <<[name |-> "multithread_mmap", code |-> test_multithread_mmap],
          [name |-> "cow_mprotect_race", code |-> test_cow_mprotect_race],
          [name |-> "mremap_cross_page", code |-> test_mremap_cross_page],
          [name |-> "signal_on_fault", code |-> test_signal_on_fault],
          [name |-> "swap_verify", code |-> test_swap_verify],
          [name |-> "file_backed_mmap", code |-> test_file_backed_mmap],
          [name |-> "large_alignment", code |-> test_large_alignment],
          [name |-> "mincore", code |-> test_mincore]>>
=============================================================================
