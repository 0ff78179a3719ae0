---------------------------- MODULE ArmSegvDiag ----------------------------
(***************************************************************************)
(* src/userspace/arm-segv-diag.c: each test function runs in a child, and  *)
(* fails by exiting with a number other than 0.                            *)
(***************************************************************************)
EXTENDS TestLang

\* Faults end the child with 139.
Quit == Flag("bad") \o exit("bad")
run_child(fn) == fork("w1", fn \o exit("none"), Or(FAIL)) \o waitpid("w1", "bad") \o Judge("bad")

test_tmpfile_mmap_shared ==
  creat("f", OrElse(Quit)) \o ftruncate("f", 1, OrElse(<<>>))
  \o mmap_file("f", "p", 0, 1, OrElse(Quit)) \o store("p", {0}, 239, 0)
  \o munmap("p", {0}) \o close("f")

test_tmpfile_populate ==
  creat("f", OrElse(Quit)) \o ftruncate("f", 1, OrElse(<<>>)) \o write("f", {0}, 190, 0, OrElse(<<>>))
  \o mmap_private("f", "p", 0, 1, OrElse(Quit)) \o populate("p", {0})
  \o check("bad", "p", {0}, 190, 0) \o If("bad", exit("bad"), <<>>)
  \o munmap("p", {0}) \o close("f")

test_file_io ==
  creat("f", OrElse(Quit)) \o write("f", {0}, 49, 0, OrElse(Quit)) \o Call(OrElse(Quit)) \o close("f")

test_anon_cow ==
  mmap("p", 1, OrElse(Quit)) \o store("p", {0}, 42, 0)
  \o fork("c1", check("bad", "p", {0}, 42, 0) \o If("bad", exit("bad"), <<>>)
                \o store("p", {0}, 99, 0) \o exit("none"), OrElse(Quit))
  \o waitpid("c1", "bad") \o If("bad", exit("bad"), <<>>) \o munmap("p", {0})

test_mmap_64k ==
  mmap("p", 16, OrElse(Quit)) \o store("p", Pages(16), 0, 1) \o check("bad", "p", Pages(16), 0, 1)
  \o If("bad", exit("bad"), <<>>) \o munmap("p", Pages(16))

test_creat_in_tmpdir ==
  get("tmpd", OrElse(Quit)) \o Call(OrElse(Quit)) \o creat("f", OrElse(Quit))
  \o write("f", {0}, 104, 0, OrElse(<<>>)) \o close("f") \o put("tmpd")

\* The child leaves its number in a file, the parent compares.
test_fork_filewrite_tmpdir ==
  get("tmpd", OrElse(Quit)) \o Call(OrElse(Quit))
  \o fork("c1", creat("f", OrElse(Quit)) \o write("f", {0}, 42, 0, OrElse(<<>>)) \o exit("none"), OrElse(Quit))
  \o waitpid("c1", "bad") \o If("bad", put("tmpd") \o exit("bad"), <<>>)
  \o get("fd", OrElse(put("tmpd") \o Quit)) \o read("bad", "f", {0}, 42, 0, OrElse(Flag("bad"))) \o put("fd")
  \o If("bad", put("tmpd") \o exit("bad"), <<>>) \o close("f") \o put("tmpd")

\* What is stored through the shared mapping must not reach the populated one.
test_file_map_populate ==
  creat("f", OrElse(Quit)) \o ftruncate("f", 1, OrElse(<<>>)) \o write("f", {0}, 190, 0, OrElse(<<>>))
  \o mmap_file("f", "shared", 0, 1, OrElse(Quit)) \o store("shared", {0}, 190, 0)
  \o mmap_private("f", "priv", 0, 1, OrElse(Quit)) \o populate("priv", {0})
  \o check("bad", "priv", {0}, 190, 0) \o If("bad", exit("bad"), <<>>)
  \o store("shared", {0}, 173, 0) \o check("bad", "priv", {0}, 190, 0) \o If("bad", exit("bad"), <<>>)
  \o munmap("shared", {0}) \o munmap("priv", {0}) \o close("f")

test_mmap_devzero ==
  get("zero", OrElse(Quit)) \o mmap("p", 1, OrElse(Quit)) \o check("bad", "p", {0}, 0, 0)
  \o If("bad", exit("bad"), <<>>) \o munmap("p", {0}) \o put("zero")

\* Two of the five children, one after the other.
test_multi_fork ==
  Loop(2, fork("c1", exit("none"), OrElse(Quit)) \o waitpid("c1", "bad") \o If("bad", exit("bad"), <<>>))

\* Three of 256 kernel pages.
test_mmap_mprotect_large ==
  mmap("p", 24, OrElse(Quit)) \o store("p", Pages(24), 65, 0)
  \o mprotect_or("p", 4..11, "rw", OrElse(<<>>)) \o mprotect_or("p", 4..11, "", OrElse(<<>>))
  \o store("p", 4..11, 66, 0) \o munmap("p", Pages(24))

\* read() returns once the child has written or is gone.
test_socketpair_fork ==
  get("sv", OrElse(Quit)) \o creat("pipe", OrElse(Quit))
  \o fork("c1", write("pipe", {0}, 42, 0, OrElse(<<>>)) \o exit("none"), OrElse(Quit))
  \o waitpid("c1", "ignored") \o read("bad", "pipe", {0}, 42, 0, OrElse(Flag("bad")))
  \o put("sv") \o close("pipe") \o If("bad", exit("bad"), <<>>)

main == <<[name |-> "tmpfile_mmap_shared", code |-> run_child(test_tmpfile_mmap_shared)],
          [name |-> "tmpfile_populate", code |-> run_child(test_tmpfile_populate)],
          [name |-> "file_io", code |-> run_child(test_file_io)],
          [name |-> "anon_cow", code |-> run_child(test_anon_cow)],
          [name |-> "mmap_64k", code |-> run_child(test_mmap_64k)],
          [name |-> "creat_in_tmpdir", code |-> run_child(test_creat_in_tmpdir)],
          [name |-> "fork_filewrite", code |-> run_child(test_fork_filewrite_tmpdir)],
          [name |-> "file_map_populate", code |-> run_child(test_file_map_populate)],
          [name |-> "mmap_devzero", code |-> run_child(test_mmap_devzero)],
          [name |-> "diag_multi_fork", code |-> run_child(test_multi_fork)],
          [name |-> "mprotect_large", code |-> run_child(test_mmap_mprotect_large)],
          [name |-> "socketpair_fork", code |-> run_child(test_socketpair_fork)]>>
=============================================================================
