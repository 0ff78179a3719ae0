------------------------------ MODULE PgclTest ------------------------------
(***************************************************************************)
(* src/userspace/pgcl-test.c: the functional tests.                        *)
(***************************************************************************)
EXTENDS TestLang

\* Scaled down: the code has 32 iterations, 16 children, 4096 pages, 1024
\* cycles, 8 pages of slack and 256 extra mappings.
ITERS == 2
CHILDREN == <<"c1", "c2">>
SWAP_PAGES == 16
CYCLES == 2
SLACK == 1
EXTRAS == <<"e1", "e2", "e3">>

FailUnmap(r, n) == FAIL \o munmap(r, Pages(n))
SkipUnmap(r, n) == SKIP \o munmap(r, Pages(n))

test_at_pagesz == query("bad") \o Judge("bad")

test_mmap_basic ==
  mmap("p", 16, Or(FAIL))
  \o store("p", Pages(16), 65, 1) \o check("bad", "p", Pages(16), 65, 1)
  \o munmap("p", Pages(16)) \o Judge("bad")

test_mmap_fixed ==
  mmap("p", 64, Or(FAIL)) \o mmap_fixed("p", {3}, Or(FailUnmap("p", 64)))
  \o query("bad") \o If("bad", FailUnmap("p", 64) \o Return, <<>>)
  \o store("p", {3}, 42, 0)
  \o munmap("p", Pages(64)) \o PASS

test_fork_cow ==
  mmap("p", 16, Or(FAIL)) \o store("p", Pages(16), 1, 1)
  \o fork("c1", check("bad", "p", Pages(16), 1, 1) \o store("p", Even(16), 128, 1) \o exit("bad"),
          Or(FailUnmap("p", 16)))
  \o store("p", Odd(16), 192, 1)
  \o waitpid("c1", "bad") \o check("bad", "p", Odd(16), 192, 1)
  \o munmap("p", Pages(16)) \o Judge("bad")

\* A round that fails is counted and left.
test_fork_cow_stress ==
  For([i \in 1..ITERS |-> i - 1], LAMBDA iter :
    mmap("p", 16, OrNext(Flag("bad"))) \o store("p", Pages(16), iter, 1)
    \o fork("c1", store("p", Pages(16), 255, -1) \o exit("none"),
            OrNext(Flag("bad") \o munmap("p", Pages(16))))
    \o waitpid("c1", "none") \o check("bad", "p", Pages(16), iter, 1)
    \o munmap("p", Pages(16)))
  \o Judge("bad")

test_mprotect_subpage ==
  mmap("p", 4, Or(FAIL)) \o store("p", Pages(4), 1, 1)
  \o mprotect_or("p", {1, 2}, "w", Or(FailUnmap("p", 4)))
  \o check("bad", "p", {1, 2}, 1, 1)
  \o store("p", {0, 3}, 99, 0)
  \o mprotect("p", {1, 2}, "") \o munmap("p", Pages(4)) \o Judge("bad")

test_munmap_partial ==
  mmap("p", 8, Or(FAIL)) \o store("p", Pages(8), 1, 1)
  \o munmap_or("p", {2, 3}, Or(FailUnmap("p", 8)))
  \o check("bad", "p", {0, 1, 4, 7}, 1, 1)
  \o munmap("p", {0, 1}) \o munmap("p", 4..7) \o Judge("bad")

test_mremap ==
  mmap("p", 4, Or(FAIL)) \o store("p", Pages(4), 16, 1)
  \o resize("p", 8, Or(FailUnmap("p", 4)))
  \o check("bad", "p", Pages(4), 16, 1) \o store("p", 4..7, 32, 1)
  \o munmap("p", Pages(8)) \o Judge("bad")

\* The first call asks where the heap ends.
test_brk ==
  Call(Or(FAIL))
  \o For([i \in 1..8 |-> i - 1], LAMBDA i :
       resize("heap", i + 1, OrGo("shrink", Flag("bad"))) \o store("heap", {i}, i + 1, 0))
  \o Mark("shrink") \o shrink("heap", 0) \o Judge("bad")

\* Mutation: no return after the verdict of a failed mlock.
test_mlockOn ==
  mmap("p", 4, Or(FAIL)) \o store("p", Pages(4), 170, 0) \o Call(OrElse(PASS))
  \o Call(OrElse(Flag("bad"))) \o munmap("p", Pages(4)) \o Judge("bad")
\* Without the privilege to lock memory it prints PASS, "skipped".
test_mlock ==
  mmap("p", 4, Or(FAIL)) \o store("p", Pages(4), 170, 0)
  \o Call(Or(munmap("p", Pages(4)) \o Either(PASS, FAIL))) \o Call(OrElse(Flag("bad")))
  \o munmap("p", Pages(4)) \o Judge("bad")

\* A fork that fails leaves one call of wait too many.
test_multi_fork ==
  mmap("p", 4, Or(FAIL)) \o store("p", Pages(4), 0, 0)
  \o For(CHILDREN, LAMBDA c :
       fork(c, store("p", Pages(4), 1, 0)
               \o mmap("q", 2, OrGo("quit", <<>>)) \o store("q", Pages(2), 1, 0)
               \o munmap("q", Pages(2)) \o Mark("quit") \o exit("none"),
            OrElse(Flag("bad"))))
  \o For(CHILDREN, LAMBDA c : wait("bad"))
  \o munmap("p", Pages(4)) \o Judge("bad")

\* With less than 32 MB available in /proc/meminfo it prints PASS, "skipped".
test_swap_stress ==
  Needs(Or(PASS)) \o mmap("p", SWAP_PAGES, Or(FAIL))
  \o store("p", Pages(SWAP_PAGES), 0, 1) \o check("bad", "p", Pages(SWAP_PAGES), 0, 1)
  \o munmap("p", Pages(SWAP_PAGES)) \o Judge("bad")

test_madvise ==
  mmap("p", 16, Or(FAIL)) \o store("p", Pages(16), 1, 1)
  \o madvise("p", 4..7, Or(FailUnmap("p", 16)))
  \o check("bad", "p", 4..7, 0, 0) \o check("bad", "p", Pages(4), 1, 1)
  \o munmap("p", Pages(16)) \o Judge("bad")

test_shared_mmap ==
  mmap_shared("s", 4, Or(FAIL)) \o store("s", Pages(4), 0, 0)
  \o fork("c1", store("s", Even(4), 160, 1) \o exit("none"), Or(FailUnmap("s", 4)))
  \o waitpid("c1", "none") \o check("bad", "s", Even(4), 160, 1)
  \o munmap("s", Pages(4)) \o Judge("bad")

test_mmap_cycle ==
  For([i \in 1..CYCLES |-> i - 1], LAMBDA i :
    mmap("p", 1 + (i % 8), OrNext(Flag("bad")))
    \o store("p", {0}, i, 0) \o store("p", {i % 8}, 255 - i, 0) \o munmap("p", Pages(1 + (i % 8))))
  \o Judge("bad")

\* Mutation: the descriptor stays open when it cannot be read.
test_rss_accountingOpen ==
  mmap("p", 16, Or(FAIL)) \o store("p", Pages(16), 16, 1)
  \o get("statm", Or(SkipUnmap("p", 16))) \o Call(Or(FailUnmap("p", 16))) \o put("statm")
  \o check("bad", "p", Pages(16), 16, 1) \o munmap("p", Pages(16)) \o Judge("bad")
\* The resident size itself is read and not compared.
test_rss_accounting ==
  mmap("p", 16, Or(FAIL)) \o store("p", Pages(16), 16, 1)
  \o get("statm", Or(SkipUnmap("p", 16)))
  \o Call(Or(put("statm") \o FailUnmap("p", 16))) \o put("statm")
  \o fork("c1", store("p", Even(16), 187, 1) \o exit("none"), Or(FailUnmap("p", 16)))
  \o waitpid("c1", "bad")
  \o get("statm", OrGo("read", Flag("bad"))) \o Call(OrElse(Flag("bad"))) \o put("statm")
  \o Mark("read") \o check("bad", "p", Pages(16), 16, 1)
  \o munmap("p", Pages(16)) \o Judge("bad")

\* Mutation: a pipe that cannot be read is not counted.
test_vmsplice_gupRead ==
  get("pipe", Or(FAIL)) \o mmap("p", 8, Or(FAIL \o put("pipe"))) \o store("p", Pages(8), 48, 1)
  \o Call(Or(Either(SKIP, FAIL) \o munmap("p", Pages(8)) \o put("pipe")))
  \o get("buf", Or(FailUnmap("p", 8) \o put("pipe"))) \o Call(OrGo("read", put("pipe"))) \o put("pipe")
  \o check("bad", "p", Pages(8), 48, 1)
  \o Mark("read") \o put("buf") \o munmap("p", Pages(8)) \o Judge("bad")
\* A short vmsplice is verified as far as it got.
test_vmsplice_gup ==
  get("pipe", Or(FAIL)) \o mmap("p", 8, Or(FAIL \o put("pipe")))
  \o store("p", Pages(8), 48, 1)
  \o Call(Or(Either(SKIP, FAIL) \o munmap("p", Pages(8)) \o put("pipe")))
  \o get("buf", Or(FailUnmap("p", 8) \o put("pipe")))
  \o Call(OrGo("read", Flag("bad") \o put("pipe"))) \o put("pipe")
  \o Either(check("bad", "p", Pages(8), 48, 1), check("bad", "p", Pages(4), 48, 1))
  \o Mark("read") \o put("buf") \o munmap("p", Pages(8)) \o Judge("bad")

\* Entries that are not present, or hide their frame number, end the test.
test_pagemap_pte ==
  mmap("p", 16, Or(FAIL)) \o store("p", Pages(16), 1, 1)
  \o get("pagemap", Or(SkipUnmap("p", 16)))
  \o Call(Or(put("pagemap") \o SkipUnmap("p", 16))) \o put("pagemap")
  \o Needs(Or(SkipUnmap("p", 16)))
  \o query("bad") \o munmap("p", Pages(16)) \o Judge("bad")

\* Four mappings fit under the limit, and sooner or later one does not.
test_rlimit_boundary ==
  Call(Or(FAIL)) \o get("statm", Or(SKIP)) \o Call(Or(put("statm") \o FAIL)) \o put("statm")
  \o Needs(Or(SKIP)) \o setrlimit(4 + SLACK, Or(Either(SKIP, FAIL)))
  \o For(<<"m1", "m2", "m3", "m4">>, LAMBDA m :
       mmap(m, 1, OrGo("cleanup", Flag("bad"))) \o store(m, {0}, 1, 0))
  \o For(EXTRAS, LAMBDA e :
       mmap(e, 1, OrGo("cleanup", Flag("limit"))) \o store(e, {0}, 1, 0))
  \o Mark("cleanup")
  \o For(EXTRAS \o <<"m1", "m2", "m3", "m4">>, LAMBDA m : munmap(m, {0}))
  \o unlimit \o If("limit", PASS, FAIL)

main == <<[name |-> "at_pagesz", code |-> test_at_pagesz],
          [name |-> "mmap_basic", code |-> test_mmap_basic],
          [name |-> "mmap_fixed", code |-> test_mmap_fixed],
          [name |-> "fork_cow", code |-> test_fork_cow],
          [name |-> "fork_cow_stress", code |-> test_fork_cow_stress],
          [name |-> "mprotect_subpage", code |-> test_mprotect_subpage],
          [name |-> "munmap_partial", code |-> test_munmap_partial],
          [name |-> "mremap", code |-> test_mremap],
          [name |-> "brk", code |-> test_brk],
          [name |-> "mlock", code |-> test_mlock],
          [name |-> "multi_fork", code |-> test_multi_fork],
          [name |-> "swap_stress", code |-> test_swap_stress],
          [name |-> "madvise", code |-> test_madvise],
          [name |-> "shared_mmap", code |-> test_shared_mmap],
          [name |-> "mmap_cycle", code |-> test_mmap_cycle],
          [name |-> "rss_accounting", code |-> test_rss_accounting],
          [name |-> "vmsplice_gup", code |-> test_vmsplice_gup],
          [name |-> "pagemap_pte", code |-> test_pagemap_pte],
          [name |-> "rlimit_boundary", code |-> test_rlimit_boundary]>>
=============================================================================
