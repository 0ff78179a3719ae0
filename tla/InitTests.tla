----------------------------- MODULE InitTests -----------------------------
(***************************************************************************)
(* The test programs of src/userspace that run as PID 1 or on their own:   *)
(* init-mmap-boundary.c, init-anon-stress.c, init-btrfs-io.c,              *)
(* init-btrfs-io2.c, hole-debug.c.                                         *)
(***************************************************************************)
EXTENDS TestLang

\* Scaled down: clusters of 16 pages or more, files up to 320 pages, 4 to 8
\* workers, 60 to 120 rounds.
CL == 4
Workers(n) == SubSeq(<<"w1", "w2">>, 1, n)
\* Workers are forked without a look at the result, and all are waited for.
Forked(n, worker(_)) == For(Workers(n), LAMBDA w : fork(w, worker(w), OrElse(<<>>)))
Failed == Flag("bad")

----------------------------------------------------------------------------
(* init-mmap-boundary.c                                                     *)

mkpat(f, sz, seed, fail) ==
  get("buf", fail) \o creat(f, [fail EXCEPT !.code = put("buf") \o @])
  \o write(f, Pages(sz), seed, 1, [fail EXCEPT !.code = put("buf") \o put(f) \o @]) \o put("buf")
\* Mutation: only the first page of a cluster is verified.
vrfyFirst(m, P, seed) == check("bad", m, {i \in P : i % CL = 0}, seed, 1)
vrfy(m, P, seed) == check("bad", m, P, seed, 1)

\* T1 whole file, T2 part of it from an offset, T3 with a hole in the middle,
\* T4 at an address that is not aligned to a cluster.
T1(sz, seed) == mmap_private("f", "m", 0, sz, OrGo("T2", Failed)) \o vrfy("m", Pages(sz), seed)
                \o munmap("m", Pages(sz)) \o Mark("T2")
T2(sz, seed) ==
  For(SelectSeq(<<1, CL + 1>>, LAMBDA o : o + 1 < sz), LAMBDA off :
    mmap_private("f", "s", off, sz - off, OrNext(Failed)) \o vrfy("s", off..(sz - 1), seed)
    \o munmap("s", off..(sz - 1)))
T3(sz, seed) ==
  LET a == 3 b == sz - 2 IN
  IF sz < 8 THEN <<>>
  ELSE mmap_private("f", "w", 0, sz, OrGo("T4", Failed)) \o touch("w", Pages(sz)) \o munmap("w", a..(b - 1))
       \o vrfy("w", Pages(a), seed) \o vrfy("w", b..(sz - 1), seed)
       \o munmap("w", Pages(a)) \o munmap("w", b..(sz - 1)) \o Mark("T4")
T4(sz, seed) ==
  LET rsv == sz + CL IN
  IF sz < 4 THEN <<>>
  ELSE mmap("base", rsv, OrGo("close", Failed))
       \o mmap_file_fixed("f", "base", sz, 1, OrGo("base", Failed))
       \o vrfy("base", 1..sz, seed - 1) \o munmap("base", 1..sz)
       \o Mark("base") \o munmap("base", Pages(rsv)) \o Mark("close")
test_size(f, sz, seed) ==
  mkpat("f", sz, seed, OrGo("sized", Failed))
  \o T1(sz, seed) \o T2(sz, seed) \o T3(sz, seed) \o T4(sz, seed) \o close("f") \o Mark("sized")

bnd_worker(w) ==
  FlattenSeq([k \in 1..2 |-> Round \o test_size("f", <<3, 9>>[k], 100 + k)]) \o exit("bad")
bnd_main == Forked(1, bnd_worker) \o wait_all("bad") \o Judge("bad")

----------------------------------------------------------------------------
(* init-anon-stress.c                                                       *)

\* Errors and mismatches alike end the worker.  Without a child, waitpid(-1)
\* leaves the status as it was.
cycle(c, sz, seed) ==
  mmap("m", sz, OrGo("cycled", Failed)) \o store("m", Pages(sz), seed, 1)
  \o check("bad", "m", Pages(sz), seed, 1) \o If("bad", munmap("m", Pages(sz)) \o Goto("cycled"), <<>>)
  \o fork(c, check("bad", "m", Pages(sz), seed, 1) \o If("bad", exit("bad"), <<>>)
             \o store("m", Pages(sz), seed + 64, 1) \o check("bad", "m", Pages(sz), seed + 64, 1)
             \o exit("bad"), OrElse(<<>>))
  \o wait("bad") \o check("bad", "m", Pages(sz), seed, 1) \o munmap("m", Pages(sz))
  \o Mark("cycled")
anon_worker(c) ==
  FlattenSeq([k \in 1..2 |-> Round \o cycle(c, <<CL, 2 * CL>>[k], k) \o If("bad", exit("bad"), <<>>)])
  \o exit("none")
anon_main == fork("w1", anon_worker("c1"), OrElse(<<>>)) \o fork("w2", anon_worker("c2"), OrElse(<<>>))
             \o wait_all("bad") \o Judge("bad")

----------------------------------------------------------------------------
(* init-btrfs-io.c and init-btrfs-io2.c                                     *)

\* What does not map is not verified; every other error, like a mismatch, is
\* a negative result.
do_file(f, sz, seed) ==
  LET out == put("buf") \o put("rb") IN
  get("buf", OrGo("done", Failed)) \o get("rb", OrGo("done", Failed \o out))
  \o creat(f, OrGo("done", Failed \o out)) \o write(f, Pages(sz), seed, 1, OrGo("out_fd", Failed))
  \o Call(OrGo("out_fd", Failed))
  \o mmap_private(f, "m", 0, sz, OrGo("unmapped", <<>>)) \o check("bad", "m", Pages(sz), seed, 1)
  \o munmap("m", Pages(sz)) \o If("bad", Goto("out_fd"), <<>>) \o Mark("unmapped")
  \o read("bad", f, Pages(sz), seed, 1, OrElse(Failed))
  \o Mark("out_fd") \o put(f) \o out \o Mark("done")

io_worker(f) ==
  FlattenSeq([k \in 1..2 |-> Round \o do_file(f, <<1, CL>>[k], k) \o If("bad", exit("bad"), close(f))])
  \o exit("none")
io_main == Forked(2, LAMBDA w : io_worker(w)) \o wait_all("bad") \o Judge("bad")

\* Half of the workers use /home, if it could be mounted.
io2_main ==
  Call(OrElse(<<>>)) \o fork("w1", io_worker("w1"), OrElse(<<>>))
  \o Call(OrGo("plain", <<>>)) \o fork("w2", io_worker("w2"), OrElse(<<>>)) \o Mark("plain")
  \o wait_all("bad") \o Judge("bad")

----------------------------------------------------------------------------
(* hole-debug.c: a page is two units here.  Units 4 and 5 are 'a', 6 and 7  *)
(* the hole, 8 is 'b', and 9 to 11 are 'c', written after the mapping.      *)

hole_main ==
  creat("f", Or(FAIL)) \o get("rwfd", Or(FAIL))
  \o write("f", {4, 5}, 97, 0, OrElse(<<>>)) \o write("f", {8}, 98, 0, OrElse(<<>>))
  \o mmap_file("f", "m", 4, 6, Or(FAIL)) \o write("f", 9..11, 99, 0, OrElse(<<>>))
  \o check("bad", "m", {7}, 0, 0) \o munmap("m", 4..9) \o put("rwfd") \o close("f") \o Judge("bad")

main == <<[name |-> "mmap_boundary", code |-> bnd_main], [name |-> "anon_stress", code |-> anon_main],
          [name |-> "btrfs_io", code |-> io_main], [name |-> "btrfs_io2", code |-> io2_main],
          [name |-> "hole_debug", code |-> hole_main]>>
=============================================================================
