----------------------------- MODULE FileRepros -----------------------------
(***************************************************************************)
(* The programs file_*_repro.c and rmap_imap_units_repro.c of              *)
(* src/userspace: workers that map, truncate and fork over a file.         *)
(* Workers of one program do the same on files of their own; one runs here.*)
(***************************************************************************)
EXTENDS TestLang

\* Scaled down: a cluster has 16 pages, files are 1 to 16 MB, and children
\* make 80 to 200 rounds.
CL == 4
FSZ == 4 * CL
ROUNDS == 2
HOG == 2 * CL
Every(from, step, n) == {i \in from..(n - 1) : (i - from) % step = 0}

\* Anonymous memory, again and again, to make the kernel reclaim.
hog == Until(1, LAMBDA it : mmap("hog", HOG, OrNext(<<>>)) \o store("hog", Pages(HOG), 1, 0)
                            \o munmap("hog", Pages(HOG)))
       \o exit("none")

----------------------------------------------------------------------------
(* file_truncate_partial_repro.c                                            *)

\* The stamp of page i is 0x80 | i.
refill(f) == ftruncate(f, FSZ, OrGo("refilled", <<>>))
             \o write(f, Pages(FSZ), 128, 1, OrElse(<<>>)) \o Mark("refilled")

\* The kept part of the cluster K, of a file cut to T pages.
kept(K, T) == (K * CL)..(T - 1)
\* The kept part of the boundary cluster is read back from the file.  A worker
\* that cannot open its file returns into the loop of main.
tp_worker(c, fallthrough) ==
  LET K == (FSZ \div CL) \div 2
      round(it) ==
        LET T == (K * CL) + 1 + it IN
        mmap_file("f", "m", 0, FSZ, OrNext(<<>>)) \o touch("m", Pages(FSZ))
        \o fork(c, touch("m", Pages(T)) \o touch("m", Pages(T)) \o exit("none"), OrElse(<<>>))
        \o ftruncate("f", T, OrElse(<<>>)) \o ftruncate("f", FSZ, OrElse(<<>>))
        \o IfStarted(c, waitpid(c, "ignored"))
        \o pread("bad", "f", kept(K, T), 128, 1, OrElse(<<>>))
        \o munmap("m", Pages(FSZ)) \o refill("f")
  IN  creat("f", OrGo("return", <<>>)) \o refill("f")
      \o Until(ROUNDS, round) \o close("f") \o exit("bad")
      \o Mark("return") \o fallthrough

TP_DONE == Judge("bad")
\* In the loop of main, the last worker has nothing left to start; it waits
\* for the hog, which is not its child, and for a child it does not have.
tp_main ==
  fork("w2", hog, OrElse(<<>>))
  \o fork("w1", tp_worker("c1", Either(<<>>, Flag("bad")) \o wait_("bad", "none") \o TP_DONE \o exit("bad")),
          OrElse(<<>>))
  \o wait_("bad", "none") \o wait_("bad", "none") \o TP_DONE

----------------------------------------------------------------------------
(* file_reclaim_race_repro.c                                                *)

\* Parent and child copy different pages at the same time.
rr_worker(c) ==
  LET toggled(P) == store("m", P, 91, 0) \o store("m", P, 90, 0)
      round(it) ==
        mmap_private("f", "m", 0, FSZ, OrNext(<<>>)) \o touch("m", Pages(FSZ))
        \o fork(c, toggled(Every(0, CL + 1, FSZ)) \o exit("none"), OrElse(<<>>))
        \o toggled(Every(1, CL + 1, FSZ))
        \o IfStarted(c, waitpid(c, "ignored")) \o munmap("m", Pages(FSZ))
  IN  creat("f", OrGo("return", <<>>))
      \o get("buf", OrGo("written", <<>>)) \o write("f", Pages(FSZ), 90, 0, OrElse(<<>>)) \o put("buf")
      \o Mark("written") \o Until(ROUNDS, round) \o close("f") \o Mark("return")
rr_main == fork("w2", hog, OrElse(<<>>)) \o fork("w1", rr_worker("c1") \o exit("none"), OrElse(<<>>))
           \o wait("ignored") \o wait("ignored") \o PASS

----------------------------------------------------------------------------
(* file_rmap_repro.c                                                        *)

\* The file is unlinked and stays as long as it is open.
makefile(f, fail) ==
  creat(f, fail) \o get("buf", [fail EXCEPT !.code = close(f) \o @])
  \o write(f, Pages(FSZ), 1, 0, OrElse(<<>>)) \o put("buf")

\* Faults on scattered pages, copies, splits of the mapping inside a cluster,
\* a child that exits with it, and a hole.
dlopen_cycle(c, it) ==
  LET rest == (2 * CL)..(FSZ - 1) IN
  mmap_private("f", "m", 0, FSZ, OrGo("cycled", <<>>)) \o mprotect("m", Pages(FSZ), "w")
  \o touch("m", Every(it % 3, 3, FSZ))
  \o mprotect_or("m", {(2 * CL) + 1, (2 * CL) + 2}, "", OrElse(<<>>))
  \o store("m", {(2 * CL) + 1}, 88, 0) \o store("m", {(2 * CL) + 2}, 89, 0)
  \o mprotect_or("m", (3 * CL)..((4 * CL) - 1), "", OrElse(<<>>))
  \o store("m", Every(3 * CL, 2, 4 * CL), 0, 0) \o mprotect_or("m", {3 * CL}, "w", OrElse(<<>>))
  \o fork(c, touch("m", Every(1, 5, 2 * CL)) \o mprotect_or("m", Pages(CL), "", OrElse(<<>>))
             \o store("m", {1}, 99, 0) \o store("m", {3}, 100, 0) \o exit("none"), OrElse(<<>>))
  \o IfStarted(c, waitpid(c, "ignored"))
  \o munmap("m", CL..((2 * CL) - 1)) \o munmap("m", Pages(CL)) \o munmap("m", rest)
  \o Mark("cycled")

shared_cycle(c, it) ==
  mmap_file("f", "m", 0, FSZ, OrGo("cycled", <<>>)) \o store("m", Every(it % 5, 4, FSZ), it, 0)
  \o fork(c, touch("m", Every(0, 7, FSZ)) \o exit("none"), OrElse(<<>>))
  \o IfStarted(c, waitpid(c, "ignored"))
  \o munmap("m", 2..(FSZ - 3)) \o munmap("m", {0, 1}) \o munmap("m", {FSZ - 2, FSZ - 1})
  \o Mark("cycled")

frmap_worker(c) ==
  Until(ROUNDS, LAMBDA it : makefile("f", OrNext(<<>>))
                            \o (IF it % 2 = 1 THEN dlopen_cycle(c, it) ELSE shared_cycle(c, it)) \o close("f"))
frmap_main == fork("w1", frmap_worker("c1") \o exit("none"), OrElse(<<>>)) \o wait("ignored") \o PASS

----------------------------------------------------------------------------
(* file_largefolio_repro.c, file_fork_repro.c                               *)

touch_ro(m) == touch(m, Pages(FSZ))

\* Two of the four forks over one mapping; without a child there is no more.
\* (The file is written, closed and opened again.)
lf_cycle(c) ==
  LET forks == Loop(2, Either(<<>>, Goto("forked"))
                       \o fork(c, touch_ro("m") \o exit("none"), OrGo("forked", <<>>)) \o waitpid(c, "ignored"))
  IN  creat("f", OrGo("cycled", <<>>))
      \o get("buf", OrGo("written", <<>>)) \o write("f", Pages(FSZ), 90, 0, OrElse(<<>>)) \o put("buf")
      \o Mark("written") \o put("f") \o get("f", OrGo("unlink", <<>>))
      \o mmap_private("f", "m", 0, FSZ, OrGo("unlink", <<>>)) \o mprotect("m", Pages(FSZ), "w")
      \o touch_ro("m") \o forks \o Mark("forked") \o munmap("m", Pages(FSZ))
      \o Mark("unlink") \o close("f") \o Mark("cycled")
lf_worker(c) == Until(ROUNDS, LAMBDA it : lf_cycle(c))
lf_main == fork("w1", lf_worker("c1") \o exit("none"), OrElse(<<>>)) \o wait("ignored") \o PASS

\* Without the buffer memset writes to address 0.
ff_worker(c) ==
  LET forks == Loop(2, Either(<<>>, Goto("forked"))
                       \o fork(c, touch("m", Pages(FSZ)) \o exit("none"), OrGo("forked", <<>>))
                       \o waitpid(c, "ignored"))
      round(it) ==
        creat("f", OrGo("return", <<>>)) \o ftruncate("f", FSZ, OrGo("return", close("f")))
        \o get("b", OrElse(store("null", {0}, it + 1, 0)))
        \o write("f", Pages(FSZ), it + 1, 0, OrElse(<<>>)) \o put("b")
        \o mmap_private("f", "m", 0, FSZ, OrGo("return", close("f"))) \o mprotect("m", Pages(FSZ), "w")
        \o touch("m", {0}) \o forks \o Mark("forked") \o munmap("m", Pages(FSZ)) \o put("f")
  IN  Until(ROUNDS, round) \o close("f") \o Mark("return")
ff_main == fork("w1", ff_worker("c1") \o exit("none"), OrElse(<<>>)) \o wait("ignored") \o PASS

----------------------------------------------------------------------------
(* file_dlopen_repro.c                                                      *)

LIBS == <<"lib1", "lib2">>
\* A directory that cannot be opened has no libraries.
scan(fail) == get("dir", fail) \o put("dir")

\* A library that does not open is left out.
dl_cycle(c) ==
  For(LIBS, LAMBDA l : get(l, OrElse(<<>>)))
  \o fork(c, For(LIBS, LAMBDA l : get(l, OrElse(<<>>))) \o exit("none"), OrElse(<<>>))
  \o IfStarted(c, waitpid(c, "ignored")) \o For(LIBS, LAMBDA l : put(l))
mempress == hog
dl_main ==
  scan(Or(FAIL))
  \o fork("w1", Until(ROUNDS, LAMBDA it : dl_cycle("c1")) \o exit("none"), OrElse(<<>>))
  \o fork("w2", mempress, OrElse(<<>>)) \o wait("ignored") \o wait("ignored") \o PASS

----------------------------------------------------------------------------
(* rmap_imap_units_repro.c                                                  *)

\* Two windows of a file, 128 clusters low and one cluster high.
imap_main ==
  creat("f", Or(FAIL)) \o ftruncate("f", FSZ, Or(FAIL))
  \o mmap_file("f", "A", 0, 2 * CL, Or(FAIL)) \o mmap_file("f", "B", 3 * CL, CL, Or(FAIL))
  \o store("A", {0}, 97, 0) \o store("B", {3 * CL}, 98, 0)
  \o Call(OrElse(<<>>)) \o Call(OrElse(<<>>)) \o punch_hole("f", (3 * CL)..((4 * CL) - 1))
  \o munmap("A", Pages(2 * CL)) \o munmap("B", (3 * CL)..((4 * CL) - 1)) \o close("f") \o PASS

truncate_partial == <<[name |-> "truncate_partial", code |-> tp_main]>>
repros == <<[name |-> "reclaim_race", code |-> rr_main], [name |-> "file_rmap", code |-> frmap_main],
            [name |-> "largefolio", code |-> lf_main], [name |-> "file_fork", code |-> ff_main],
            [name |-> "file_dlopen", code |-> dl_main], [name |-> "imap_units", code |-> imap_main]>>
=============================================================================
