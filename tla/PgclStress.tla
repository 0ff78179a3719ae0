----------------------------- MODULE PgclStress -----------------------------
(***************************************************************************)
(* src/userspace/pgcl-stress.c: concurrency, files, signals, swap.         *)
(***************************************************************************)
EXTENDS TestLang

\* Scaled down: the code has 8 threads, 500 and 20 rounds, 10 toggles, 256
\* pages to swap, 32 trials, 10 rounds of stores, 64 pages and 4 children.
THREADS == <<"t1", "t2">>
ITERS == 2
TOGGLES == 1
SWAP_PAGES == 16
TRIALS == 2

FailUnmap(r, n) == FAIL \o munmap(r, Pages(n))
FailClose(f)    == FAIL \o close(f)

\* Mutation: the threads share one mapping.
mt_mmap_workerShared(r) ==
  mmap("q", 4, OrNext(<<>>)) \o store("q", Pages(4), IF r = "t1" THEN 1 ELSE 2, 0)
  \o check("bad", "q", Pages(4), IF r = "t1" THEN 1 ELSE 2, 0) \o Mark("next") \o exit("bad")
\* The byte of page off is (char)(i + off), and off is a multiple of 256.  A
\* thread that sees a mismatch returns and keeps its mapping.
mt_mmap_worker(r) ==
  For([i \in 1..ITERS |-> i - 1], LAMBDA i :
    mmap(r, 4 + (i % 12), OrNext(<<>>))
    \o store(r, Pages(4 + (i % 12)), i, 0) \o check("bad", r, Pages(4 + (i % 12)), i, 0)
    \o If("bad", exit("bad"), <<>>) \o munmap(r, Pages(4 + (i % 12))))
  \o exit("none")

\* The threads that were created are not joined when the next one is not.
test_multithread_mmap ==
  For(THREADS, LAMBDA t : thread(t, mt_mmap_worker(t), Or(FAIL)))
  \o For(THREADS, LAMBDA t : waitpid(t, "bad")) \o Judge("bad")

\* Mutation: the exit status of the child is ignored.
test_cow_mprotect_raceChild ==
  mmap("p", 32, Or(FAIL)) \o store("p", Pages(32), 1, 1)
  \o fork("c1", store("p", Pages(32), 192, 0) \o check("bad", "p", Pages(32), 192, 0) \o exit("bad"),
          OrElse(Flag("bad")))
  \o mprotect("p", Pages(32), "w") \o mprotect("p", Pages(32), "")
  \o store("p", Pages(32), 1, 0) \o waitpid("c1", "none") \o munmap("p", Pages(32)) \o Judge("bad")
test_cow_mprotect_race ==
  mmap("p", 32, Or(FAIL)) \o store("p", Pages(32), 1, 1)
  \o For([i \in 1..ITERS |-> i - 1], LAMBDA iter :
       fork("c1", store("p", Pages(32), 192 + iter, 0) \o check("bad", "p", Pages(32), 192 + iter, 0)
                  \o exit("bad"), OrNext(Flag("bad")))
       \o Loop(TOGGLES, mprotect("p", Pages(32), "w") \o mprotect("p", Pages(32), ""))
       \o waitpid("c1", "bad") \o check("bad", "p", Pages(32), 1, 1))
  \o munmap("p", Pages(32)) \o Judge("bad")

test_mremap_cross_page ==
  mmap("p", 15, Or(FAIL)) \o store("p", Pages(15), 48, 1)
  \o resize("p", 33, Or(FailUnmap("p", 15)))
  \o check("bad", "p", Pages(15), 48, 1)
  \o store("p", 15..32, 64, 1) \o check("bad", "p", 15..32, 64, 1)
  \o munmap("p", Pages(33)) \o Judge("bad")

\* segv_handler records si_addr and jumps; the report must be of that page.
segv_handler == query("bad")
test_signal_on_fault ==
  mmap_none("p", 8, Or(FAIL)) \o take("sigaction")
  \o For(<<0, 1, 3, 5, 7>>, LAMBDA o :
       probe("p", o, -1, segv_handler \o If("bad", Goto("restore"), <<>>),
                         Flag("bad") \o Goto("restore")))
  \o Mark("restore") \o put("sigaction") \o munmap("p", Pages(8)) \o Judge("bad")

test_swap_verify ==
  mmap("p", SWAP_PAGES, Or(FAIL)) \o store("p", Pages(SWAP_PAGES), 0, 1)
  \o pageout("p", Pages(SWAP_PAGES)) \o check("bad", "p", Pages(SWAP_PAGES), 0, 1)
  \o munmap("p", Pages(SWAP_PAGES)) \o Judge("bad")

test_file_backed_mmap ==
  creat("f", Or(SKIP)) \o ftruncate("f", 8, Or(FailClose("f")))
  \o mmap_file("f", "f", 0, 8, Or(FailClose("f"))) \o store("f", Pages(8), 48, 1)
  \o Call(Or(FailUnmap("f", 8) \o close("f"))) \o munmap("f", Pages(8))
  \o get("buf", Or(FailClose("f"))) \o read("bad", "f", Pages(8), 48, 1, OrElse(Flag("bad")))
  \o put("buf") \o close("f") \o Judge("bad")

\* A trial that cannot map is left out.
test_large_alignment ==
  For([i \in 1..TRIALS |-> i - 1], LAMBDA trial :
    mmap("p", 1 + trial, OrNext(<<>>)) \o query("bad")
    \o If("bad", munmap("p", Pages(1 + trial)) \o Goto("out"), <<>>)
    \o store("p", {0}, 65, 0) \o store("p", {trial}, 90, 0) \o munmap("p", Pages(1 + trial)))
  \o Mark("out") \o Judge("bad")

test_mincore ==
  mmap("p", 16, Or(FAIL)) \o store("p", Even(16), 0, 1)
  \o get("vec", Or(FailUnmap("p", 16)))
  \o Call(Or(Either(SKIP, FAIL) \o put("vec") \o munmap("p", Pages(16))))
  \o query("bad") \o put("vec") \o munmap("p", Pages(16)) \o Judge("bad")

\* Every page of the file holds the same bytes (i & 0xFF); 1 stands for them.
\* Offsets that are not aligned must be refused.
test_mmap2_offset ==
  creat("f", Or(SKIP)) \o get("wbuf", Or(FailClose("f")))
  \o write("f", Pages(16), 1, 0, Or(FAIL \o put("wbuf") \o close("f")))
  \o For(<<0, 1, 2, 3>>, LAMBDA o :
       mmap_private("f", "f", o, 1, OrGo("done", Flag("bad")))
       \o check("bad", "f", {o}, 1, 0) \o munmap("f", {o}) \o If("bad", Goto("done"), <<>>))
  \o query("bad")
  \o Mark("done") \o put("wbuf") \o close("f") \o Judge("bad")

\* Pages 256 and 512 of the file are 8 and 16 here, all first of a cluster.
test_sparse_file_mmap ==
  creat("f", Or(SKIP)) \o ftruncate("f", 17, Or(FailClose("f")))
  \o get("pat1", Or(FailClose("f"))) \o write("f", {8}, 171, 0, OrElse(<<>>))
  \o get("pat2", Or(put("pat1") \o FailClose("f"))) \o write("f", {16}, 205, 0, OrElse(<<>>))
  \o mmap_private("f", "f", 8, 1, OrGo("end", Flag("bad")))
  \o check("bad", "f", {8}, 171, 0) \o munmap("f", {8}) \o If("bad", Goto("end"), <<>>)
  \o mmap_private("f", "f", 0, 1, OrGo("end", Flag("bad")))
  \o check("bad", "f", {0}, 0, 0) \o munmap("f", {0}) \o If("bad", Goto("end"), <<>>)
  \o mmap_file("f", "f", 0, 1, OrGo("end", Flag("bad")))
  \o store("f", {0}, 239, 0) \o munmap("f", {0})
  \o get("rbuf", OrGo("end", Flag("bad")))
  \o read("bad", "f", {0}, 239, 0, OrElse(Flag("bad"))) \o put("rbuf")
  \o Mark("end") \o put("pat1") \o put("pat2") \o close("f") \o Judge("bad")

\* A kernel that does not track writes is excused.
test_softdirty ==
  LET closed == put("clear_refs") \o put("pagemap") IN
  get("clear_refs", Or(SKIP)) \o get("pagemap", Or(SKIP \o put("clear_refs")))
  \o mmap("p", 8, Or(FAIL \o closed)) \o store("p", Pages(8), 1, 1)
  \o Call(Or(SKIP \o munmap("p", Pages(8)) \o closed))
  \o Call(OrElse(Flag("bad"))) \o Needs(Or(SKIP \o munmap("p", Pages(8)) \o closed))
  \o store("p", {3}, 66, 0) \o If("bad", <<>>, query("bad"))
  \o munmap("p", Pages(8)) \o closed \o If("bad", SKIP, PASS)

\* A child that was killed is looked at before the data is.
test_cow_gup_race ==
  mmap("p", 16, Or(FAIL)) \o store("p", Pages(16), 170, 0)
  \o fork("c1", Loop(ITERS, store("p", Pages(16), 187, 0)) \o exit("none"),
          Or(FailUnmap("p", 16)))
  \o waitpid_("c1", "none", "killed") \o check("bad", "p", Pages(16), 170, 0)
  \o munmap("p", Pages(16)) \o If("killed", SKIP, Judge("bad"))

\* sigbus_handler jumps: the loop goes on with the next page.
sigbus_handler == <<>>
\* Mutation: the child has no deadline.
truncatorEndless == ftruncate_("f", 0) \o ftruncate_("f", 4)
\* Half of the children truncate, half of them touch; each stops by the clock.
truncator == Loop(ITERS, ftruncate_("f", 0) \o ftruncate_("f", 4)) \o exit("none")
toucher   == Loop(ITERS, For(<<0, 3>>, LAMBDA o : probe("f", o, 119, sigbus_handler, <<>>)))
             \o exit("none")
test_truncate_race ==
  creat("f", Or(SKIP)) \o ftruncate("f", 4, Or(FailClose("f")))
  \o mmap_file("f", "f", 0, 4, Or(FailClose("f"))) \o store("f", Pages(4), 85, 0)
  \o fork("c1", truncator, OrElse(<<>>)) \o fork("c2", toucher, OrElse(<<>>))
  \o For(<<"c1", "c2">>, LAMBDA c : IfStarted(c, waitpid_(c, "none", "none")))
  \o munmap("f", Pages(4)) \o close("f") \o If("signal", FAIL, PASS)

main == <<[name |-> "multithread_mmap", code |-> test_multithread_mmap],
          [name |-> "cow_mprotect_race", code |-> test_cow_mprotect_race],
          [name |-> "mremap_cross_page", code |-> test_mremap_cross_page],
          [name |-> "signal_on_fault", code |-> test_signal_on_fault],
          [name |-> "swap_verify", code |-> test_swap_verify],
          [name |-> "file_backed_mmap", code |-> test_file_backed_mmap],
          [name |-> "large_alignment", code |-> test_large_alignment],
          [name |-> "mincore", code |-> test_mincore],
          [name |-> "mmap2_offset", code |-> test_mmap2_offset],
          [name |-> "sparse_file_mmap", code |-> test_sparse_file_mmap],
          [name |-> "softdirty", code |-> test_softdirty],
          [name |-> "cow_gup_race", code |-> test_cow_gup_race],
          [name |-> "truncate_race", code |-> test_truncate_race]>>
=============================================================================
