--------------------------- MODULE PgclTestNolibc ---------------------------
(***************************************************************************)
(* src/userspace/pgcl-test-nolibc.c: the functional tests for machines     *)
(* without a C library.  Tests that are the same statements as in          *)
(* pgcl-test.c are taken from there.                                       *)
(***************************************************************************)
EXTENDS TestLang
T == INSTANCE PgclTest

\* Scaled down: 16 rounds, 8 children.
ITERS == 2
CHILDREN == <<"c1", "c2">>

\* result(name, ok, message)
result(x) == Judge(x)

test_at_pagesz == query("bad") \o result("bad")
test_mmap_basic == T!test_mmap_basic
test_subpage_identity ==
  mmap("p", 16, Or(FAIL)) \o store("p", Pages(16), 64, 1) \o check("bad", "p", Pages(16), 64, 1)
  \o munmap("p", Pages(16)) \o result("bad")
test_mmap_fixed == T!test_mmap_fixed
test_fork_cow == T!test_fork_cow

\* The data is verified before the fork as well; a mismatch is only counted.
test_fork_cow_stress ==
  For([i \in 1..ITERS |-> i - 1], LAMBDA iter :
    mmap("p", 16, OrNext(Flag("bad"))) \o store("p", Pages(16), iter, 1)
    \o check("bad", "p", Pages(16), iter, 1)
    \o fork("c1", store("p", Pages(16), 255, -1) \o exit("none"),
            OrNext(Flag("bad") \o munmap("p", Pages(16))))
    \o waitpid("c1", "none") \o check("bad", "p", Pages(16), iter, 1)
    \o munmap("p", Pages(16)))
  \o result("bad")

test_mprotect_subpage == T!test_mprotect_subpage
\* The result of the munmap in the middle is not looked at.
test_munmap_partial ==
  mmap("p", 8, Or(FAIL)) \o store("p", Pages(8), 1, 1) \o munmap("p", {2, 3})
  \o check("bad", "p", {0, 1, 4, 7}, 1, 1)
  \o munmap("p", {0, 1}) \o munmap("p", 4..7) \o result("bad")
test_mremap ==
  mmap("p", 4, Or(FAIL)) \o store("p", Pages(4), 16, 1)
  \o resize("p", 8, Or(FAIL \o munmap("p", Pages(4)))) \o check("bad", "p", Pages(4), 16, 1)
  \o munmap("p", Pages(8)) \o result("bad")
test_brk == T!test_brk
test_multi_fork ==
  For(CHILDREN, LAMBDA c :
    fork(c, mmap("q", 2, OrGo("quit", <<>>)) \o store("q", {0}, 1, 0)
            \o munmap("q", Pages(2)) \o Mark("quit") \o exit("none"),
         OrElse(Flag("bad"))))
  \o For(CHILDREN, LAMBDA c : wait_init("bad")) \o result("bad")
test_shared_mmap == T!test_shared_mmap
test_mmap_cycle == T!test_mmap_cycle

main == <<[name |-> "at_pagesz", code |-> test_at_pagesz],
          [name |-> "mmap_basic", code |-> test_mmap_basic],
          [name |-> "subpage_identity", code |-> test_subpage_identity],
          [name |-> "mmap_fixed", code |-> test_mmap_fixed],
          [name |-> "fork_cow", code |-> test_fork_cow],
          [name |-> "fork_cow_stress", code |-> test_fork_cow_stress],
          [name |-> "mprotect_subpage", code |-> test_mprotect_subpage],
          [name |-> "munmap_partial", code |-> test_munmap_partial],
          [name |-> "mremap", code |-> test_mremap],
          [name |-> "brk", code |-> test_brk],
          [name |-> "multi_fork", code |-> test_multi_fork],
          [name |-> "shared_mmap", code |-> test_shared_mmap],
          [name |-> "mmap_cycle", code |-> test_mmap_cycle]>>
=============================================================================
