------------------------------ MODULE TestLang ------------------------------
(***************************************************************************)
(* The statements of the test programs in src/userspace.  A test function  *)
(* is a sequence of them, TestMachine runs it.  Loops over pages are one   *)
(* statement; p[i * page_size] is "page i of region p"; the byte a loop    *)
(* stores into page i is (b + s * i) % 256 for some b and s.               *)
(***************************************************************************)
EXTENDS Integers, Sequences, SequencesExt

Pages(n) == 0..(n - 1)
Even(n)  == {i \in Pages(n) : i % 2 = 0}
Odd(n)   == {i \in Pages(n) : i % 2 = 1}

----------------------------------------------------------------------------
(* What a test does when a call fails: run some code and go on after the   *)
(* next mark m (or at once, or not at all).                                 *)
Or(code)      == [code |-> code, to |-> "return"]
OrNext(code)  == [code |-> code, to |-> "next"]
OrGo(m, code) == [code |-> code, to |-> m]
OrElse(code)  == [code |-> code, to |-> ""]

Mark(m)       == <<[op |-> "mark", mark |-> m]>>
Goto(m)       == <<[op |-> "goto", mark |-> m]>>
Return        == Goto("return")
Flag(x)       == <<[op |-> "flag", x |-> x]>>
Unflag(X)     == <<[op |-> "unflag", X |-> X]>>
If(x, A, B)   == <<[op |-> "if", x |-> x, A |-> A, B |-> B]>>
Either(A, B)  == <<[op |-> "either", A |-> A, B |-> B]>>
\* A feature or a file the machine may lack.
Needs(fail)   == <<[op |-> "needs", fail |-> fail]>>
\* A call that only succeeds or fails.
Call(fail)    == <<[op |-> "call", fail |-> fail, can |-> TRUE]>>
\* n rounds of body, each up to its mark "next".
Loop(n, body) == FlattenSeq([i \in 1..n |-> body \o Mark("next")])
\* A "for" over the elements of s.
For(s, body(_)) == FlattenSeq([i \in DOMAIN s |-> body(s[i]) \o Mark("next")])

PASS == <<[op |-> "verdict", v |-> "PASS"]>>
FAIL == <<[op |-> "verdict", v |-> "FAIL"]>>
SKIP == <<[op |-> "verdict", v |-> "SKIP"]>>
\* "if (ok) PASS else FAIL", where ok is a flag x that has not been raised.
Judge(x) == If(x, FAIL, PASS)

----------------------------------------------------------------------------
(* Memory: anonymous regions, files (objects that regions link to).        *)
mmap(r, n, fail)     == <<[op |-> "mmap", r |-> r, n |-> n, kind |-> "private", fail |-> fail]>>
mmap_none(r, n, fail) == <<[op |-> "mmap", r |-> r, n |-> n, kind |-> "none", fail |-> fail]>>
mmap_shared(r, n, fail) == <<[op |-> "mmap", r |-> r, n |-> n, kind |-> "shared", fail |-> fail]>>
\* MAP_FIXED over the pages P of r.
mmap_fixed(r, P, fail) == <<[op |-> "fixed", r |-> r, P |-> P, fail |-> fail]>>
\* Pages o..o+n-1 of the file f, as pages o+d..o+d+n-1 of region r.
mapping(f, r, o, n, d, shared, fail) ==
  <<[op |-> "mapfile", f |-> f, r |-> r, o |-> o, n |-> n, d |-> d, shared |-> shared, fail |-> fail]>>
mmap_file(f, r, o, n, fail)    == mapping(f, r, o, n, 0, TRUE, fail)
mmap_private(f, r, o, n, fail) == mapping(f, r, o, n, 0, FALSE, fail)
mmap_file_fixed(f, r, n, d, fail) == mapping(f, r, 0, n, d, FALSE, fail)
\* MAP_POPULATE of a private writable mapping: the pages are copied at once.
populate(r, P)       == <<[op |-> "populate", r |-> r, P |-> P]>>
munmap(r, P)         == <<[op |-> "munmap", r |-> r, P |-> P, fail |-> OrElse(<<>>), can |-> FALSE]>>
munmap_or(r, P, fail) == <<[op |-> "munmap", r |-> r, P |-> P, fail |-> fail, can |-> TRUE]>>
\* mremap and brk: the region has n pages from now on.
resize(r, n, fail)   == <<[op |-> "resize", r |-> r, n |-> n, fail |-> fail, can |-> TRUE]>>
shrink(r, n)         == <<[op |-> "resize", r |-> r, n |-> n, fail |-> OrElse(<<>>), can |-> FALSE]>>
\* prot is "" (all), "w" (no writes) or "rw" (no access).
mprotect_or(r, P, prot, fail) == <<[op |-> "mprotect", r |-> r, P |-> P, prot |-> prot, fail |-> fail, can |-> TRUE]>>
mprotect(r, P, prot) == <<[op |-> "mprotect", r |-> r, P |-> P, prot |-> prot, fail |-> OrElse(<<>>), can |-> FALSE]>>
\* madvise with MADV_DONTNEED, and with MADV_PAGEOUT, whose result is not used.
madvise(r, P, fail)  == <<[op |-> "madvise", r |-> r, P |-> P, out |-> FALSE, fail |-> fail]>>
pageout(r, P)        == <<[op |-> "madvise", r |-> r, P |-> P, out |-> TRUE, fail |-> OrElse(<<>>)]>>
store(r, P, b, s)    == <<[op |-> "store", r |-> r, P |-> P, b |-> b, s |-> s]>>
\* Raise x if a page of P does not hold its byte.
check(x, r, P, b, s) == <<[op |-> "check", x |-> x, r |-> r, P |-> P, b |-> b, s |-> s]>>
\* Read the pages of P and look at nothing.
touch(r, P)          == <<[op |-> "touch", r |-> r, P |-> P, x |-> ""]>>
\* Access page i, and store b there if b >= 0, with a handler for SIGSEGV and
\* SIGBUS in place: hit is what follows a fault.
probe(r, i, b, hit, miss) == <<[op |-> "probe", r |-> r, i |-> i, b |-> b, s |-> 0, hit |-> hit, miss |-> miss]>>
\* What the kernel reports of itself or of the pages; raise x if it is wrong.
query(x)             == <<[op |-> "query", x |-> x]>>
\* RLIMIT_AS: n more pages, or no limit (-1).
setrlimit(n, fail)   == <<[op |-> "limit", n |-> n, fail |-> fail, can |-> TRUE]>>
unlimit              == <<[op |-> "limit", n |-> -1, fail |-> OrElse(<<>>), can |-> FALSE]>>

\* Files: open for writing and truncated, resized, written and read by calls.
creat(f, fail)       == <<[op |-> "creat", r |-> f, fail |-> fail]>>
ftruncate(f, n, fail) == <<[op |-> "ftruncate", r |-> f, n |-> n, fail |-> fail, can |-> TRUE]>>
ftruncate_(f, n)     == <<[op |-> "ftruncate", r |-> f, n |-> n, fail |-> OrElse(<<>>), can |-> FALSE]>>
write(f, P, b, s, fail) == <<[op |-> "write", r |-> f, P |-> P, b |-> b, s |-> s, fail |-> fail]>>
\* A short read is a mismatch, unless the program only compares what it got.
read(x, f, P, b, s, fail) ==
  <<[op |-> "read", x |-> x, r |-> f, P |-> P, b |-> b, s |-> s, all |-> TRUE, fail |-> fail]>>
pread(x, f, P, b, s, fail) ==
  <<[op |-> "read", x |-> x, r |-> f, P |-> P, b |-> b, s |-> s, all |-> FALSE, fail |-> fail]>>
punch_hole(f, P)     == <<[op |-> "punch", r |-> f, P |-> P, fail |-> OrElse(<<>>)]>>
\* The file is gone after close: the programs unlink it.
close(f)             == <<[op |-> "close", r |-> f]>>

\* Anything else that is got and given back: descriptors, buffers.
get(x, fail) == <<[op |-> "get", x |-> x, fail |-> fail, can |-> TRUE]>>
take(x)      == <<[op |-> "get", x |-> x, fail |-> OrElse(<<>>), can |-> FALSE]>>
put(x)       == <<[op |-> "put", x |-> x]>>

----------------------------------------------------------------------------
(* Processes and threads.                                                   *)
fork(c, code, fail)   == <<[op |-> "start", c |-> c, code |-> code, fail |-> fail]>>
thread(c, code, fail) == <<[op |-> "start", c |-> c, code |-> code, fail |-> fail]>>
\* _exit, with a failure if x is raised.
exit(x)      == <<[op |-> "exit", x |-> x]>>
\* waitpid and pthread_join: raise x unless the child ended well; the second
\* form keeps a child that was killed apart.
waitpid(c, x) == <<[op |-> "wait", c |-> c, x |-> x, killed |-> x, init |-> FALSE]>>
waitpid_(c, x, killed) == <<[op |-> "wait", c |-> c, x |-> x, killed |-> killed, init |-> FALSE]>>
\* wait(&status): whichever child; the second form has set status before.
wait(x)      == <<[op |-> "waitany", x |-> x, killed |-> x, init |-> FALSE]>>
wait_(x, killed) == <<[op |-> "waitany", x |-> x, killed |-> killed, init |-> FALSE]>>
wait_init(x) == <<[op |-> "waitany", x |-> x, killed |-> x, init |-> TRUE]>>
\* while (wait(&status) > 0): raise x unless every child ended well.
wait_all(x)  == <<[op |-> "waitall", x |-> x]>>
\* The next of several rounds: nothing is mapped.  A program that works until
\* a deadline may stop here.
Round == <<[op |-> "round"]>>
Until(n, body(_)) ==
  FlattenSeq([i \in 1..n |-> Round \o Either(<<>>, Goto("deadline")) \o body(i - 1) \o Mark("next")])
  \o Mark("deadline")
\* Run A if c was started.
IfStarted(c, A) == <<[op |-> "ifstarted", c |-> c, A |-> A]>>
=============================================================================
