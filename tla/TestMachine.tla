---------------------------- MODULE TestMachine ----------------------------
(***************************************************************************)
(* The machine the test programs of src/userspace run on: processes and    *)
(* threads, their memory, and a kernel that may have one of the defects    *)
(* the tests are there to find.  Calls may fail.  A program is the         *)
(* sequence of its tests (see TestLang); its process is "main".            *)
(***************************************************************************)
EXTENDS TestLang, FiniteSets, TLC

CONSTANTS Programs,   \* program -> sequence of tests [name, code]
          Defects,    \* program -> defects of the kernel to try
          Clusters,   \* program -> pages of a kernel page
          MaxFail,    \* bound: calls that fail in one run
          Claims,     \* <<test, defect>>: the test is there to find the defect
          Careless,   \* tests that leave something behind when a call fails
          Tolerant,   \* tests that pass although a call failed
          Waived,     \* tests that print PASS, "skipped", for what they could not do
          Excusing,   \* tests that print SKIP for a mismatch
          Outspoken   \* tests whose workers print a verdict of their own

ASSUME MachineAssumption ==
  /\ DOMAIN Defects = DOMAIN Programs /\ DOMAIN Clusters = DOMAIN Programs
  /\ UNION {Defects[p] : p \in DOMAIN Programs} \subseteq {"none", "cow", "alias", "wide", "stale", "move", "unshare", "report",
                        "nolimit", "shift", "silent", "swap", "cowkill", "trim", "nocopy", "through"}
  /\ MaxFail \in Nat /\ \A p \in DOMAIN Programs : Clusters[p] \in Nat \ {0}

VARIABLES program, test,  \* which program, and the index of its current test
          defect,         \* of the kernel
          code,           \* what each process has left to do
          life,           \* "none", "live", "well", "badly" (exited) or "killed"
          parent,         \* who started it
          flags,          \* flags each process has raised
          seen,           \* a process has seen a mismatch in the current test
          mem,            \* private memory of each process, and the objects
          shut,           \* <<process, region, page, "w" or "rw">>: protected pages
          room,           \* pages that RLIMIT_AS still allows, -1 if unlimited
          held,           \* descriptors and buffers main has
          verdicts,       \* printed by the current test
          failed,         \* calls that have failed so far
          trouble,        \* a call failed, or a feature lacked, in the current test
          unclean         \* an earlier test has left something

vars == <<program, test, defect, code, life, parent, flags, seen, mem, shut, room, held,
          verdicts, failed, trouble, unclean>>
books == <<program, test, defect, unclean>>

Process == {"main", "w1", "w2", "c1", "c2", "c3", "t1", "t2"}
OBJECTS == "objects"
Nothing == [x \in {} |-> 0]
Tests == Programs[program]
CLUSTER == Clusters[program]

\* A run starts at any test: the defects that end the program in one test
\* meet the later ones too.
Init ==
  /\ program \in DOMAIN Programs /\ test \in DOMAIN Tests /\ defect \in Defects[program]
  /\ code = [p \in Process |-> IF p = "main" THEN Tests[test].code ELSE <<>>]
  /\ life = [p \in Process |-> IF p = "main" THEN "live" ELSE "none"]
  /\ parent = [p \in Process |-> p] /\ flags = [p \in Process |-> {}] /\ seen = FALSE
  /\ mem = [a \in Process \cup {OBJECTS} |-> Nothing]
  /\ shut = {} /\ room = -1 /\ held = {} /\ verdicts = <<>>
  /\ failed = 0 /\ trouble = {} /\ unclean = FALSE

Stmt(p) == Head(code[p])
At(p, ops) == life[p] = "live" /\ code[p] # <<>> /\ Stmt(p).op \in ops
Continue(p, c) == code' = [code EXCEPT ![p] = c]
Step(p) == Continue(p, Tail(code[p]))

\* The code after the next mark m.
After(s, m) ==
  LET k == SelectInSeq(s, LAMBDA x : x.op = "mark" /\ x.mark = m)
  IN  IF k = 0 THEN <<>> ELSE SubSeq(s, k + 1, Len(s))
Fail(p) ==
  LET f == Stmt(p).fail
  IN  Continue(p, f.code \o (IF f.to = "" THEN Tail(code[p]) ELSE After(Tail(code[p]), f.to)))

\* A call of the program that fails; bound: not on a kernel with a defect.
MayFail(p) == /\ failed < MaxFail /\ defect = "none" /\ failed' = failed + 1
              /\ trouble' = trouble \cup {"call"}
              /\ Fail(p)
Works(p)   == Step(p) /\ UNCHANGED <<failed, trouble>>

----------------------------------------------------------------------------
(* Memory.  A cell is a byte of the process's own, or a link to a page of   *)
(* an object (a file, a shared region), of a shared or private mapping.     *)

Own(b) == <<"", b, FALSE>>
Link(o, k, shared) == <<o, k, shared>>
IsOwn(c) == c[1] = ""
Linked(c) == IsOwn(c) \/ (c[1] \in DOMAIN mem[OBJECTS] /\ c[2] \in DOMAIN mem[OBJECTS][c[1]])

\* The process whose memory p uses: threads use that of main.
Space(p) == IF p \in {"t1", "t2"} THEN "main" ELSE p
M(p) == mem[Space(p)]
\* Two pages of a cluster resolve to one.
Frame(p, r, i) == IF defect = "alias" /\ i % 2 = 1 /\ i - 1 \in DOMAIN M(p)[r] THEN i - 1 ELSE i
Mapped(p, r, i) ==
  /\ r \in DOMAIN M(p) /\ i \in DOMAIN M(p)[r]
  /\ Linked(M(p)[r][i])
Readable(p, r, i) == Mapped(p, r, i) /\ <<Space(p), r, i, "rw">> \notin shut
Writable(p, r, i) == Readable(p, r, i) /\ <<Space(p), r, i, "w">> \notin shut
Byte(p, r, i) == LET c == M(p)[r][Frame(p, r, i)]
                 IN  IF IsOwn(c) THEN c[2] ELSE mem[OBJECTS][c[1]][c[2]]
Pattern(s, i) == (s.b + s.s * i) % 256

\* A row after the pages P have been stored to: the last store to a place
\* wins.  A private link is replaced, a store through a shared one goes to
\* the object; with the defect "through" those of private ones do as well.
IsShared(c) == ~IsOwn(c) /\ (c[3] \/ defect = "through")
Latest(P, at(_), k) == LET hits == {i \in P : at(i) = k} IN CHOOSE i \in hits : \A j \in hits : j <= i
Filled(row, P, s, at(_)) ==
  [k \in DOMAIN row |-> IF k \in {at(i) : i \in P} /\ ~IsShared(row[k])
                        THEN Own(Pattern(s, Latest(P, at, k))) ELSE row[k]]
Passed(o, p, r, P, s) ==
  LET to(i) == M(p)[r][Frame(p, r, i)]
      through == {i \in P : IsShared(to(i)) /\ to(i)[1] = o}
  IN  [k \in DOMAIN mem[OBJECTS][o] |->
         IF k \in {to(i)[2] : i \in through}
         THEN Pattern(s, Latest(through, LAMBDA i : to(i)[2], k)) ELSE mem[OBJECTS][o][k]]
\* Spaces a store of p to r reaches: with the defect "cow" every copy; with
\* "cowkill" the store may also kill a child.
Reached(p, r) == IF defect \notin {"cow", "cowkill"} THEN {Space(p)}
                 ELSE {a \in Process : r \in DOMAIN mem[a] /\ DOMAIN mem[a][r] = DOMAIN M(p)[r]}
Stored(p, r, P, s) ==
  [a \in DOMAIN mem |->
     IF a = OBJECTS THEN [o \in DOMAIN mem[OBJECTS] |-> Passed(o, p, r, P, s)]
     ELSE IF a \in Reached(p, r)
     THEN [mem[a] EXCEPT ![r] = Filled(@, P, s, LAMBDA i : Frame(p, r, i))] ELSE mem[a]]

With(f, r, row) == [x \in DOMAIN f \cup {r} |-> IF x = r THEN row ELSE f[x]]
Without(f, r)   == [x \in DOMAIN f \ {r} |-> f[x]]
NewByte         == IF defect = "stale" THEN 255 ELSE 0
Fresh(P)        == [i \in P |-> Own(NewByte)]
Blank(P)        == [i \in P |-> NewByte]
\* The pages a range operation acts on: with the defect "wide" whole clusters.
Range_(p, r, P) ==
  IF r \notin DOMAIN M(p) THEN {}
  ELSE {i \in DOMAIN M(p)[r] : i \in P \/ (defect = "wide" /\ \E j \in P : j \div CLUSTER = i \div CLUSTER)}
Refused(n) == room >= 0 /\ n > room /\ defect # "nolimit"
Charge(n)  == room' = IF room < 0 THEN -1 ELSE room - n

DoMmap(p) ==
  /\ At(p, {"mmap"})
  /\ LET s == Stmt(p) IN
     \/ /\ Refused(s.n) /\ Fail(p) /\ UNCHANGED <<mem, shut, room, failed, trouble>>
     \/ /\ ~Refused(s.n) /\ MayFail(p) /\ UNCHANGED <<mem, shut, room>>
     \/ /\ ~Refused(s.n) /\ Works(p) /\ Charge(s.n)
        /\ mem' = IF s.kind = "shared"
                  THEN [mem EXCEPT ![Space(p)] = With(@, s.r, [i \in Pages(s.n) |-> Link(s.r, i, TRUE)]),
                                   ![OBJECTS] = With(@, s.r, Blank(Pages(s.n)))]
                  ELSE [mem EXCEPT ![Space(p)] = With(@, s.r, Fresh(Pages(s.n)))]
        /\ shut' = IF s.kind = "none" /\ defect # "silent"
                   THEN shut \cup {<<Space(p), s.r, i, "rw">> : i \in Pages(s.n)} ELSE shut
  /\ UNCHANGED <<books, parent, life, flags, seen, held, verdicts>>

DoMapFixed(p) ==
  /\ At(p, {"fixed"})
  /\ LET s == Stmt(p) IN
     \/ MayFail(p) /\ UNCHANGED mem
     \/ /\ Works(p)
        /\ mem' = [mem EXCEPT ![Space(p)][s.r] = Fresh(s.P) @@ @]
  /\ UNCHANGED <<books, parent, life, flags, seen, shut, room, held, verdicts>>

\* A mapping of a file; with the defect "shift" its offset is rounded down.
DoMapFile(p) ==
  /\ At(p, {"mapfile"})
  /\ LET s == Stmt(p)
         o == IF defect = "shift" THEN s.o - (s.o % CLUSTER) ELSE s.o
     IN \/ MayFail(p) /\ UNCHANGED mem
        \/ /\ Works(p)
           /\ mem' = [mem EXCEPT ![Space(p)] =
                With(@, s.r, [i \in (s.o + s.d)..(s.o + s.d + s.n - 1) |-> Link(s.f, i - s.d - s.o + o, s.shared)]
                             @@ (IF s.r \in DOMAIN @ THEN @[s.r] ELSE Nothing))]
  /\ UNCHANGED <<books, parent, life, flags, seen, shut, room, held, verdicts>>

\* Writing to a private page makes it the process's own.
DoPopulate(p) ==
  /\ At(p, {"populate"}) /\ Step(p)
  /\ LET s == Stmt(p) IN
     mem' = [mem EXCEPT ![Space(p)][s.r] =
               [i \in DOMAIN @ |-> IF i \in s.P /\ Linked(@[i]) THEN Own(Byte(p, s.r, i)) ELSE @[i]]]
  /\ UNCHANGED <<books, parent, life, flags, seen, shut, room, held, verdicts, failed, trouble>>

DoMunmap(p) ==
  /\ At(p, {"munmap"})
  /\ LET s == Stmt(p)
         gone == Range_(p, s.r, s.P)
     IN \/ s.can /\ MayFail(p) /\ UNCHANGED <<mem, shut, room>>
        \/ /\ Works(p) /\ Charge(-Cardinality(gone))
           /\ mem' = [mem EXCEPT ![Space(p)] =
                IF gone = {} THEN @
                ELSE IF gone = DOMAIN @[s.r] THEN Without(@, s.r)
                ELSE [@ EXCEPT ![s.r] = [i \in DOMAIN @ \ gone |-> @[i]]]]
           /\ shut' = {x \in shut : ~(x[1] = Space(p) /\ x[2] = s.r /\ x[3] \in gone)}
  /\ UNCHANGED <<books, parent, life, flags, seen, held, verdicts>>

\* With the defect "move" the partial cluster at the end does not move along.
DoResize(p) ==
  /\ At(p, {"resize"})
  /\ LET s == Stmt(p)
         old == IF s.r \in DOMAIN M(p) THEN M(p)[s.r] ELSE Nothing
         n == Cardinality(DOMAIN old)
         moved == IF defect = "move" THEN Pages(n - (n % CLUSTER)) ELSE Pages(n)
     IN \/ s.can /\ MayFail(p) /\ UNCHANGED mem
        \/ /\ Works(p)
           /\ mem' = [mem EXCEPT ![Space(p)] =
                IF s.n = 0 THEN Without(@, s.r)
                ELSE With(@, s.r, [i \in Pages(s.n) |-> IF i \in moved THEN old[i] ELSE Own(0)])]
  /\ UNCHANGED <<books, parent, life, flags, seen, shut, room, held, verdicts>>

DoMprotect(p) ==
  /\ At(p, {"mprotect"})
  /\ LET s == Stmt(p)
         hit == Range_(p, s.r, s.P)
         kept == {x \in shut : ~(x[1] = Space(p) /\ x[2] = s.r /\ x[3] \in hit)}
     IN \/ s.can /\ MayFail(p) /\ UNCHANGED shut
        \/ /\ Works(p)
           /\ shut' = IF s.prot = "" THEN kept
                      ELSE kept \cup {<<Space(p), s.r, i, s.prot>> : i \in hit}
  /\ UNCHANGED <<books, parent, life, flags, seen, mem, room, held, verdicts>>

\* With the defect "swap" the pages of a cluster share one swap entry.
Swapped(row) == [i \in DOMAIN row |-> row[IF defect = "swap" THEN i - (i % CLUSTER) ELSE i]]
DoMadvise(p) ==
  /\ At(p, {"madvise"})
  /\ LET s == Stmt(p) IN
     \/ MayFail(p) /\ UNCHANGED mem
     \/ /\ Works(p)
        /\ mem' = [mem EXCEPT ![Space(p)][s.r] = IF s.out THEN Swapped(@) ELSE
             [i \in DOMAIN @ |-> IF i \in Range_(p, s.r, s.P) /\ defect # "stale" THEN Own(0) ELSE @[i]]]
  /\ UNCHANGED <<books, parent, life, flags, seen, shut, room, held, verdicts>>

Raise(p, x) == flags' = [flags EXCEPT ![p] = @ \cup {x}]
\* Raise x if a comparison fails.
Compare(p, x, same) == IF same THEN UNCHANGED <<flags, seen>> ELSE Raise(p, x) /\ seen' = TRUE
\* SIGSEGV or SIGBUS: the process dies; a thread takes its process with it.
Die(p) ==
  LET dead == IF Space(p) = "main" THEN Process ELSE {p} IN
  /\ life' = [q \in Process |-> IF q \in dead /\ life[q] = "live" THEN "killed" ELSE life[q]]
  /\ code' = [q \in Process |-> IF q \in dead THEN <<>> ELSE code[q]]
  /\ held' = {h \in held : h[1] \notin dead}

DoStore(p) ==
  /\ At(p, {"store"})
  /\ LET s == Stmt(p) IN
     \/ /\ \A i \in s.P : Writable(p, s.r, i)
        /\ Step(p) /\ mem' = Stored(p, s.r, s.P, s) /\ UNCHANGED <<life, held>>
     \/ /\ (\E i \in s.P : ~Writable(p, s.r, i)) \/ (defect = "cowkill" /\ Space(p) = p /\ p # "main")
        /\ Die(p) /\ UNCHANGED mem
  /\ UNCHANGED <<books, parent, flags, seen, shut, room, verdicts, failed, trouble>>

DoCheck(p) ==
  /\ At(p, {"check", "touch"})
  /\ LET s == Stmt(p) IN
     IF \A i \in s.P : Readable(p, s.r, i)
     THEN /\ Step(p) /\ UNCHANGED <<life, held>>
          /\ Compare(p, s.x, s.op = "touch" \/ \A i \in s.P : Byte(p, s.r, i) = Pattern(s, i))
     ELSE Die(p) /\ UNCHANGED <<flags, seen>>
  /\ UNCHANGED <<books, parent, mem, shut, room, verdicts, failed, trouble>>

DoProbe(p) ==
  /\ At(p, {"probe"})
  /\ LET s == Stmt(p)
     IN IF Writable(p, s.r, s.i)
        THEN /\ Continue(p, s.miss \o Tail(code[p]))
             /\ mem' = IF s.b < 0 THEN mem ELSE Stored(p, s.r, {s.i}, s)
        ELSE Continue(p, s.hit \o Tail(code[p])) /\ UNCHANGED mem
  /\ UNCHANGED <<books, parent, life, flags, seen, shut, room, held, verdicts, failed, trouble>>

----------------------------------------------------------------------------
(* Files, limits, reports, descriptors.                                     *)

DoCreat(p) ==
  /\ At(p, {"creat"})
  /\ LET s == Stmt(p) IN
     \/ MayFail(p) /\ UNCHANGED <<mem, held>>
     \/ /\ Works(p) /\ mem' = [mem EXCEPT ![OBJECTS] = With(@, s.r, Nothing)]
        /\ held' = held \cup {<<p, s.r>>}
  /\ UNCHANGED <<books, parent, life, flags, seen, shut, room, verdicts>>

\* With the defect "trim" the kept part of the last cluster is cleared.
Trimmed(i, n, old) == defect = "trim" /\ n \in old /\ i \div CLUSTER = n \div CLUSTER
DoFtruncate(p) ==
  /\ At(p, {"ftruncate"})
  /\ LET s == Stmt(p) IN
     \/ s.can /\ MayFail(p) /\ UNCHANGED mem
     \/ /\ Works(p)
        /\ mem' = [mem EXCEPT ![OBJECTS][s.r] =
             [i \in Pages(s.n) |-> IF i \notin DOMAIN @ THEN NewByte
                                   ELSE IF Trimmed(i, s.n, DOMAIN @) THEN 0 ELSE @[i]]]
  /\ UNCHANGED <<books, parent, life, flags, seen, shut, room, held, verdicts>>

\* The pages up to the first one written become part of the file.
DoWrite(p) ==
  /\ At(p, {"write"})
  /\ LET s == Stmt(p)
         end == 1 + CHOOSE i \in s.P : \A j \in s.P : j <= i
     IN \/ MayFail(p) /\ UNCHANGED mem
        \/ /\ Works(p)
           /\ mem' = [mem EXCEPT ![OBJECTS][s.r] = [i \in s.P |-> Pattern(s, i)] @@ @ @@ Blank(Pages(end))]
  /\ UNCHANGED <<books, parent, life, flags, seen, shut, room, held, verdicts>>

\* fallocate with FALLOC_FL_PUNCH_HOLE.
DoPunch(p) ==
  /\ At(p, {"punch"})
  /\ LET s == Stmt(p) IN
     \/ MayFail(p) /\ UNCHANGED mem
     \/ /\ Works(p)
        /\ mem' = [mem EXCEPT ![OBJECTS][s.r] = [i \in DOMAIN @ |-> IF i \in s.P THEN 0 ELSE @[i]]]
  /\ UNCHANGED <<books, parent, life, flags, seen, shut, room, held, verdicts>>

DoRead(p) ==
  /\ At(p, {"read"})
  /\ LET s == Stmt(p)
         o == mem[OBJECTS][s.r]
     IN \/ MayFail(p) /\ UNCHANGED <<flags, seen>>
        \/ Works(p) /\ Compare(p, s.x, (s.all => s.P \subseteq DOMAIN o)
                                      /\ (\A i \in s.P \cap DOMAIN o : o[i] = Pattern(s, i)))
  /\ UNCHANGED <<books, parent, life, mem, shut, room, held, verdicts>>

DoClose(p) ==
  /\ At(p, {"close"}) /\ Step(p)
  /\ mem' = [mem EXCEPT ![OBJECTS] = Without(@, Stmt(p).r)] /\ held' = held \ {<<p, Stmt(p).r>>}
  /\ UNCHANGED <<books, parent, life, flags, seen, shut, room, verdicts, failed, trouble>>

DoLimit(p) ==
  /\ At(p, {"limit"})
  /\ LET s == Stmt(p) IN
     \/ s.can /\ MayFail(p) /\ UNCHANGED <<room, held>>
     \/ /\ Works(p) /\ room' = s.n
        /\ held' = IF s.n < 0 THEN held \ {<<p, "limit">>} ELSE held \cup {<<p, "limit">>}
  /\ UNCHANGED <<books, parent, life, flags, seen, mem, shut, verdicts>>

DoGet(p) ==
  /\ At(p, {"get", "call"})
  /\ LET s == Stmt(p) IN
     \/ s.can /\ MayFail(p) /\ UNCHANGED held
     \/ Works(p) /\ held' = IF s.op = "get" THEN held \cup {<<p, s.x>>} ELSE held
  /\ UNCHANGED <<books, parent, life, flags, seen, mem, shut, room, verdicts>>
DoPut(p) ==
  /\ At(p, {"put"}) /\ Step(p) /\ held' = held \ {<<p, Stmt(p).x>>}
  /\ UNCHANGED <<books, parent, life, flags, seen, mem, shut, room, verdicts, failed, trouble>>

DoNeeds(p) ==
  /\ At(p, {"needs"})
  /\ \/ Fail(p) /\ trouble' = trouble \cup {"feature"}
     \/ Step(p) /\ UNCHANGED trouble
  /\ UNCHANGED <<books, parent, life, flags, seen, mem, shut, room, held, verdicts, failed>>

DoQuery(p) ==
  /\ At(p, {"query"}) /\ Step(p)
  /\ Compare(p, Stmt(p).x, defect # "report")
  /\ UNCHANGED <<books, parent, life, mem, shut, room, held, verdicts, failed, trouble>>

----------------------------------------------------------------------------
(* Control, processes and threads.                                          *)

DoControl(p) ==
  /\ At(p, {"mark", "goto", "flag", "if", "either", "ifstarted", "verdict", "round", "unflag"})
  /\ LET s == Stmt(p)
         rest == Tail(code[p])
     IN \/ s.op \in {"mark", "round"} /\ Step(p) /\ UNCHANGED <<flags, verdicts>>
        \/ s.op = "goto" /\ Continue(p, After(rest, s.mark)) /\ UNCHANGED <<flags, verdicts>>
        \/ s.op = "flag" /\ Step(p) /\ Raise(p, s.x) /\ UNCHANGED verdicts
        \/ s.op = "unflag" /\ Step(p) /\ flags' = [flags EXCEPT ![p] = @ \ s.X] /\ UNCHANGED verdicts
        \/ s.op = "if" /\ Continue(p, (IF s.x \in flags[p] THEN s.A ELSE s.B) \o rest)
           /\ UNCHANGED <<flags, verdicts>>
        \/ s.op = "either" /\ (Continue(p, s.A \o rest) \/ Continue(p, s.B \o rest))
           /\ UNCHANGED <<flags, verdicts>>
        \/ s.op = "ifstarted" /\ Continue(p, (IF parent[s.c] = p THEN s.A ELSE <<>>) \o rest)
           /\ UNCHANGED <<flags, verdicts>>
        \/ s.op = "verdict" /\ Step(p) /\ verdicts' = Append(verdicts, s.v) /\ UNCHANGED flags
  /\ UNCHANGED <<books, parent, life, seen, mem, shut, room, held, failed, trouble>>

\* fork copies the memory; with the defect "unshare" shared regions as well,
\* with "nocopy" nothing of the process's own.
Copied(p) ==
  [r \in DOMAIN M(p) |->
     [i \in DOMAIN M(p)[r] |->
        LET c == M(p)[r][i]
        IN  IF defect = "unshare" /\ ~IsOwn(c) /\ Linked(c) THEN Own(Byte(p, r, i))
            ELSE IF defect = "nocopy" /\ IsOwn(c) THEN Own(0) ELSE c]]
DoStart(p) ==
  /\ At(p, {"start"})
  /\ LET s == Stmt(p) IN
     \/ MayFail(p) /\ UNCHANGED <<life, parent, mem, shut>>
     \/ /\ life[s.c] = "none" /\ UNCHANGED <<failed, trouble>>
        /\ code' = [code EXCEPT ![p] = Tail(@), ![s.c] = s.code]
        /\ life' = [life EXCEPT ![s.c] = "live"]
        /\ parent' = [parent EXCEPT ![s.c] = p]
        /\ IF Space(s.c) = s.c
           THEN /\ mem' = [mem EXCEPT ![s.c] = Copied(p)]
                /\ shut' = shut \cup {<<s.c, x[2], x[3], x[4]>> : x \in {y \in shut : y[1] = Space(p)}}
           ELSE UNCHANGED <<mem, shut>>
  /\ UNCHANGED <<books, flags, seen, room, held, verdicts>>

DoExit(p) ==
  /\ At(p, {"exit"})
  /\ life' = [life EXCEPT ![p] = IF Stmt(p).x \in flags[p] THEN "badly" ELSE "well"]
  /\ Continue(p, <<>>) /\ held' = {h \in held : h[1] # p}
  /\ UNCHANGED <<books, parent, flags, seen, mem, shut, room, verdicts, failed, trouble>>

\* The memory of a process that has ended goes when p reaps it; p raises x
\* unless it ended well, and the other flag if it was killed.
Reap(p, c, x, killed) ==
  /\ life[c] \in {"well", "badly", "killed"}
  /\ life' = [life EXCEPT ![c] = "none"]
  /\ parent' = [parent EXCEPT ![c] = c]
  /\ flags' = [flags EXCEPT ![c] = {}, ![p] = @ \cup CASE life[c] = "well" -> {} [] life[c] = "badly" -> {x}
                                                      [] OTHER -> {killed}]
  /\ mem' = [mem EXCEPT ![c] = Nothing]
  /\ shut' = {y \in shut : y[1] # c}
Children(p) == {c \in Process \ {p} : parent[c] = p}
\* The status of a call that has no child to wait for is what it was: zero if
\* the program has set it, or anything.
NoStatus(p, x, init) == /\ UNCHANGED <<life, parent, mem, shut>>
                        /\ UNCHANGED flags \/ (~init /\ Raise(p, x))
DoWait(p) ==
  /\ At(p, {"wait", "waitany"}) /\ Step(p)
  /\ LET s == Stmt(p)
         who == IF s.op = "wait" THEN Children(p) \cap {s.c} ELSE Children(p)
     IN IF who = {} THEN NoStatus(p, s.x, s.init) ELSE \E c \in who : Reap(p, c, s.x, s.killed)
  /\ UNCHANGED <<books, seen, room, held, verdicts, failed, trouble>>
\* while (wait(&st) > 0)
DoWaitAll(p) ==
  /\ At(p, {"waitall"})
  /\ IF Children(p) = {} THEN Step(p) /\ UNCHANGED <<life, parent, flags, mem, shut>>
     ELSE UNCHANGED code /\ \E c \in Children(p) : Reap(p, c, Stmt(p).x, Stmt(p).x)
  /\ UNCHANGED <<books, seen, room, held, verdicts, failed, trouble>>

\* No mapping, descriptor, buffer, limit, child or thread is left.
Clean == /\ mem["main"] = Nothing /\ held = {} /\ room = -1
         /\ \A p \in Process \ {"main"} : life[p] = "none"

\* main() calls the next test.
TestOver == life["main"] = "live" /\ code["main"] = <<>>
NextTest ==
  /\ TestOver /\ test < Len(Tests)
  /\ test' = test + 1
  /\ Continue("main", Tests[test + 1].code)
  /\ flags' = [flags EXCEPT !["main"] = {}] /\ verdicts' = <<>> /\ trouble' = {} /\ seen' = FALSE
  /\ unclean' = ~Clean
  /\ UNCHANGED <<program, defect, life, parent, mem, shut, room, held, failed>>

Over == life["main"] # "live" \/ (TestOver /\ test = Len(Tests))
Finished == Over /\ UNCHANGED vars
\* A process may wait; Terminates says that it does not wait forever.
Waiting == (\E p \in Process : At(p, {"wait", "waitany", "waitall"})) /\ UNCHANGED vars

Do(p) == \/ DoMmap(p) \/ DoPopulate(p) \/ DoMapFixed(p) \/ DoMapFile(p) \/ DoMunmap(p) \/ DoResize(p)
         \/ DoMprotect(p) \/ DoMadvise(p) \/ DoStore(p) \/ DoCheck(p) \/ DoProbe(p)
         \/ DoCreat(p) \/ DoFtruncate(p) \/ DoWrite(p) \/ DoRead(p) \/ DoClose(p)
         \/ DoLimit(p) \/ DoGet(p) \/ DoPut(p) \/ DoNeeds(p) \/ DoQuery(p)
         \/ DoControl(p) \/ DoStart(p) \/ DoExit(p) \/ DoWait(p) \/ DoWaitAll(p) \/ DoPunch(p)

Next == (\E p \in Process : Do(p)) \/ NextTest \/ Finished \/ Waiting
Spec == Init /\ [][Next]_vars

----------------------------------------------------------------------------
TypeOK == /\ program \in DOMAIN Defects /\ test \in Nat \ {0} /\ defect \in Defects[program]
          /\ DOMAIN code = Process
          /\ life \in [Process -> {"none", "live", "well", "badly", "killed"}]
          /\ \A a \in Process : \A r \in DOMAIN mem[a] : \A c \in Range(mem[a][r]) :
               IF IsOwn(c) THEN c[2] \in 0..255 ELSE c[2] \in Nat
          /\ \A o \in DOMAIN mem[OBJECTS] : Range(mem[OBJECTS][o]) \subseteq 0..255
          /\ \A p \in Process : life[p] = "none" => parent[p] = p /\ mem[p] = Nothing
          /\ room \in -1..255 /\ failed \in 0..MaxFail /\ trouble \subseteq {"call", "feature"}

This == Tests[test].name
Verdict == verdicts[Len(verdicts)]

\* A test prints one verdict, on every path.
OneVerdict == TestOver /\ This \notin Outspoken => Len(verdicts) = 1

\* On a kernel without the defects no test fails or crashes unless a call of
\* its own failed: neither an interleaving of its processes, nor a missing
\* feature, nor what an earlier test left behind makes it fail.
NoFalseAlarm ==
  defect = "none" => /\ life["main"] # "killed"
                     /\ TestOver /\ Verdict = "FAIL" => "call" \in trouble

\* A test that could not do what it is there for, because a call failed or the
\* machine lacks something, and is one of those that say so in a PASS.
Skipped == This \in Waived /\ trouble # {}

\* A test that is there to find a defect never prints PASS on a kernel that
\* has it, whatever the interleaving, unless it did not look.
FindsDefect == TestOver /\ <<This, defect>> \in Claims /\ ~Skipped => Verdict # "PASS"

\* A mismatch that any process of a test has seen is printed as FAIL, neither
\* lost on its way to the parent nor excused.
MismatchReported == TestOver /\ seen /\ This \notin Excusing => Verdict = "FAIL"

\* A test that could not make one of its calls, or lacked what it needs of the
\* machine, is not printed as PASS.
NoVacuousPass == TestOver /\ trouble # {} /\ This \notin Tolerant /\ ~Skipped => Verdict # "PASS"

\* A test leaves no mapping, descriptor, buffer, limit, child or thread behind
\* for the next one, whichever of its calls fails; a program that works in
\* rounds has nothing mapped at the next one.
NothingLeaked ==
  /\ \A p \in Process : At(p, {"round"}) => M(p) = Nothing
  /\ TestOver => Clean \/ unclean \/ ("call" \in trouble /\ This \in Careless)
=============================================================================
