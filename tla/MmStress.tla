------------------------------ MODULE MmStress ------------------------------
(***************************************************************************)
(* src/userspace/mm_stress_pgcl.c: workers that loop until a deadline.     *)
(* The kinds of worker share nothing, so each is run by main on its own.   *)
(***************************************************************************)
EXTENDS TestLang

\* Scaled down: a cluster has 16 pages, the files and areas 64 to 384
\* clusters, and a worker makes as many rounds as the seconds allow.
CL == 4
ROUNDS == 2
Firsts(n) == {i \in Pages(n) : i % CL = 0}   \* the first page of each cluster

\* A low window of the file, and a high one that varies.
w_writeback ==
  LET write_both(it) ==
        store("lo", {0}, 1, 0) \o store("lo", {CL}, 2, 0)
        \o store("hi", {3 * CL}, 192 + it, 0) \o store("hi", {4 * CL}, 208 + it, 0)
        \o punch_hole("f", (3 * CL)..((4 * CL) - 1))
      round(it) ==
        Unflag({"lo failed", "hi failed"})
        \o creat("f", OrGo("return", <<>>)) \o ftruncate("f", 5 * CL, OrGo("return", put("f")))
        \o mmap_file("f", "lo", 0, 2 * CL, OrElse(Flag("lo failed")))
        \o mmap_file("f", "hi", 3 * CL, 2 * CL, OrElse(Flag("hi failed")))
        \o If("lo failed", <<>>, If("hi failed", <<>>, write_both(it)))
        \o If("lo failed", <<>>, munmap("lo", Pages(2 * CL)))
        \o If("hi failed", <<>>, munmap("hi", (3 * CL)..((5 * CL) - 1))) \o put("f")
  IN  Until(ROUNDS, round) \o close("f") \o Mark("return")

\* Two private mappings of what has been written through a shared one.
w_priv_cow ==
  LET compare(sz) ==
        check("bad", "a", Firsts(sz), 83, 0) \o check("bad", "b", Firsts(sz), 83, 0)
        \o store("a", Firsts(sz), 88, 0)
        \o check("bad", "a", Firsts(sz), 88, 0) \o check("bad", "b", Firsts(sz), 83, 0)
      round(it) ==
        Unflag({"a failed", "b failed"})
        \o creat("f", OrGo("return", <<>>)) \o ftruncate("f", 2 * CL, OrGo("return", put("f")))
        \o mmap_file("f", "s", 0, 2 * CL, OrGo("seeded", <<>>))
        \o store("s", Firsts(2 * CL), 83, 0) \o munmap("s", Pages(2 * CL)) \o Mark("seeded")
        \o mmap_private("f", "a", 0, 2 * CL, OrElse(Flag("a failed")))
        \o mmap_private("f", "b", 0, 2 * CL, OrElse(Flag("b failed")))
        \o mprotect("b", Pages(2 * CL), "w")
        \o If("a failed", <<>>, If("b failed", <<>>, compare(2 * CL)))
        \o If("a failed", <<>>, munmap("a", Pages(2 * CL)))
        \o If("b failed", <<>>, munmap("b", Pages(2 * CL))) \o put("f")
  IN  Until(ROUNDS, round) \o close("f") \o Mark("return")

\* The child exits with 2 on a mismatch; its status is not looked at.
w_anon_fork(c) ==
  LET round(it) ==
        mmap("p", 2 * CL, OrNext(<<>>)) \o store("p", {0}, 0, 0) \o store("p", {CL}, 1, 0)
        \o fork(c, check("bad", "p", {0}, 0, 0) \o check("bad", "p", {CL}, 1, 0) \o If("bad", exit("bad"), <<>>)
                   \o store("p", {0}, 255, 0) \o store("p", {CL}, 254, 0) \o exit("none"),
                OrGo("alone", <<>>))
        \o waitpid(c, "ignored") \o check("bad", "p", {0}, 0, 0) \o check("bad", "p", {CL}, 1, 0)
        \o Mark("alone") \o munmap("p", Pages(2 * CL))
  IN  Until(ROUNDS, round)

\* Sizes below, at and above a cluster.
w_mmap_churn ==
  LET sizes == <<CL \div 2, CL, CL + 1>>
      round(it) ==
        mmap("p", sizes[it + 1], OrNext(<<>>)) \o store("p", Pages(sizes[it + 1]), 1, 0)
        \o mprotect_or("p", {0}, "w", OrElse(<<>>)) \o munmap("p", Pages(sizes[it + 1]))
  IN  Until(3, round)

w_thp(c) ==
  LET round(it) ==
        mmap("p", 2 * CL, OrNext(<<>>)) \o store("p", Pages(2 * CL), 0, 0)
        \o fork(c, store("p", Pages(2 * CL), 255, 0) \o exit("none"), OrGo("alone", <<>>))
        \o waitpid(c, "ignored")
        \o Mark("alone") \o mprotect_or("p", {CL}, "w", OrElse(<<>>)) \o munmap("p", Pages(2 * CL))
  IN  Until(ROUNDS, round)

\* A fork that fails leaves kids[] at -1, and waitpid waits for any child.
worker(w, body) == fork(w, body \o exit("bad"), OrElse(<<>>))
STRESS_DONE == Judge("bad")
main == <<[name |-> "w_writeback", code |-> worker("w1", w_writeback) \o wait("bad") \o STRESS_DONE],
          [name |-> "w_priv_cow", code |-> worker("w1", w_priv_cow) \o wait("bad") \o STRESS_DONE],
          [name |-> "w_anon_fork",
           code |-> worker("w1", w_anon_fork("c1")) \o worker("w2", w_anon_fork("c2"))
                    \o wait("bad") \o wait("bad") \o STRESS_DONE],
          [name |-> "w_mmap_churn", code |-> worker("w1", w_mmap_churn) \o wait("bad") \o STRESS_DONE],
          [name |-> "w_thp", code |-> worker("w1", w_thp("c1")) \o wait("bad") \o STRESS_DONE]>>
=============================================================================
