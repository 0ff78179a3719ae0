------------------------- MODULE UserPrograms_proofs -------------------------
(***************************************************************************)
(* Theorems about the programs of UserPrograms, for every set of tests,    *)
(* every number of polls and every heap: an init program runs one test at  *)
(* a time and prints what became of it, and the heap of the small C        *)
(* library hands out memory of its own.                                    *)
(***************************************************************************)
EXTENDS UserPrograms, FiniteSetTheorems, TLAPS

----------------------------------------------------------------------------
(* Sequences of jobs                                                        *)

\* No element of q occurs twice.
Once(q) == \A i, k \in DOMAIN q : q[i] = q[k] => i = k
Elements(q) == {q[i] : i \in DOMAIN q}

\* Two sequences without repetition and without a common element, one after
\* the other, have no repetition.
LEMMA ConcatOnce ==
  ASSUME NEW S, NEW a \in Seq(S), NEW b \in Seq(S), Once(a), Once(b),
         \A i \in DOMAIN a, k \in DOMAIN b : a[i] # b[k]
  PROVE  /\ a \o b \in Seq(S) /\ Once(a \o b)
         /\ \A i \in DOMAIN (a \o b) : (\E k \in DOMAIN a : (a \o b)[i] = a[k])
                                       \/ (\E k \in DOMAIN b : (a \o b)[i] = b[k])
  <1>1. /\ a \o b \in Seq(S) /\ DOMAIN (a \o b) = 1..(Len(a) + Len(b))
        /\ DOMAIN a = 1..Len(a) /\ DOMAIN b = 1..Len(b) /\ Len(a) \in Nat /\ Len(b) \in Nat
    OBVIOUS
  <1>2. \A i \in 1..(Len(a) + Len(b)) :
          (a \o b)[i] = IF i <= Len(a) THEN a[i] ELSE b[i - Len(a)]
    OBVIOUS
  <1>3. \A i \in DOMAIN (a \o b) : i \in DOMAIN a \/ i - Len(a) \in DOMAIN b
    BY <1>1
  <1>4. \A i \in DOMAIN (a \o b) : (\E k \in DOMAIN a : (a \o b)[i] = a[k])
                                   \/ (\E k \in DOMAIN b : (a \o b)[i] = b[k])
    BY <1>1, <1>2, <1>3
  <1>5. ASSUME NEW i \in DOMAIN (a \o b), NEW k \in DOMAIN (a \o b), (a \o b)[i] = (a \o b)[k]
        PROVE  i = k
    <2>1. CASE i <= Len(a) /\ k <= Len(a)
      BY <1>1, <1>2, <1>5, <2>1 DEF Once
    <2>2. CASE i > Len(a) /\ k > Len(a)
      <3>1. i - Len(a) \in DOMAIN b /\ k - Len(a) \in DOMAIN b
        BY <1>1, <2>2
      <3>2. b[i - Len(a)] = b[k - Len(a)]
        BY <1>1, <1>2, <1>5, <2>2
      <3>3. i - Len(a) = k - Len(a)
        BY <3>1, <3>2 DEF Once
      <3> QED
        BY <1>1, <3>3
    <2>3. CASE i <= Len(a) /\ k > Len(a)
      BY <1>1, <1>2, <1>5, <2>3
    <2>4. CASE i > Len(a) /\ k <= Len(a)
      BY <1>1, <1>2, <1>5, <2>4
    <2> QED
      BY <1>1, <2>1, <2>2, <2>3, <2>4
  <1> QED
    BY <1>1, <1>4, <1>5 DEF Once

\* A sequence without repetition has none after its first element, and the
\* first element is not among the others.
LEMMA TailOnce ==
  ASSUME NEW S, NEW q \in Seq(S), q # <<>>, Once(q)
  PROVE  /\ Tail(q) \in Seq(S) /\ Once(Tail(q)) /\ Head(q) \in S /\ Head(q) = q[1] /\ 1 \in DOMAIN q
         /\ \A i \in DOMAIN Tail(q) : /\ i + 1 \in DOMAIN q /\ Tail(q)[i] = q[i + 1]
                                      /\ i + 1 # 1 /\ Tail(q)[i] # Head(q)
  <1>1. /\ Tail(q) \in Seq(S) /\ Head(q) = q[1] /\ Head(q) \in S /\ 1 \in DOMAIN q
        /\ \A i \in DOMAIN Tail(q) : i + 1 \in DOMAIN q /\ Tail(q)[i] = q[i + 1] /\ i \in Nat /\ i + 1 # 1
    OBVIOUS
  <1>2. \A i \in DOMAIN Tail(q) : q[i + 1] # q[1]
    BY <1>1 DEF Once
  <1>3. Once(Tail(q))
    BY <1>1 DEF Once
  <1> QED
    BY <1>1, <1>2, <1>3

\* A sequence of at most one element repeats none.
LEMMA AtMostOne ==
  ASSUME NEW S, NEW x \in S, NEW q \in {<<>>, <<x>>}
  PROVE  q \in Seq(S) /\ Once(q) /\ \A i \in DOMAIN q : q[i] = x
  <1>1. CASE q = <<>>
    BY <1>1 DEF Once
  <1>2. CASE q = <<x>>
    <2>1. q \in Seq(S) /\ Len(q) = 1 /\ q[1] = x
      BY <1>2
    <2>2. \A i \in DOMAIN q : i = 1
      BY <2>1
    <2> QED
      BY <2>1, <2>2 DEF Once
  <1> QED
    BY <1>1, <1>2

\* The cardinality that the instance of BootTests counts with is the library's.
LEMMA SameCardinality == \A S : Boot!Cardinality(S) = Cardinality(S)
  BY DEF Boot!Cardinality, Cardinality

\* The names of a directory, in an order they may be read in, are a sequence
\* of jobs of that kind, each name once.
LEMMA OrdersOnce ==
  ASSUME NEW kind, NEW names, IsFiniteSet(names), NEW q \in Boot!Orders(kind, names)
  PROVE  /\ q \in Seq({Boot!Job(kind, n) : n \in names}) /\ Once(q)
         /\ \A i \in DOMAIN q : q[i].kind = kind
  <1>1. Cardinality(names) \in Nat
    BY FS_CardinalityType
  <1>2. q \in Seq({Boot!Job(kind, n) : n \in names}) /\ Once(q)
    <2> DEFINE S == {Boot!Job(kind, n) : n \in names}
    <2>1. q \in [1..Cardinality(names) -> S] /\ \A i, k \in DOMAIN q : q[i] = q[k] => i = k
      BY SameCardinality, Zenon DEF Boot!Orders
    <2> HIDE DEF S
    <2>2. q \in Seq(S)
      BY <1>1, <2>1
    <2> QED
      BY <2>1, <2>2 DEF S, Once
  <1>3. \A i \in DOMAIN q : q[i] \in {Boot!Job(kind, n) : n \in names}
    BY <1>2
  <1> QED
    BY <1>2, <1>3 DEF Boot!Job

\* The selftests are run by the init of microblaze alone.
NoSelfTest == init = "sh4" => \A i \in DOMAIN jobs : jobs[i].kind # "selftest"

\* Every run of an init program starts with known jobs, each of them once.
LEMMA InitJobs ==
  ASSUME BootAssumption, Boot!Init
  PROVE  jobs \in Seq(Boot!AllJobs) /\ Once(jobs) /\ NoSelfTest
  <1> DEFINE A == Boot!AllJobs
             T == Boot!Trusted
  <1>1. /\ T \in Seq(A) /\ T[1] \in A /\ T[2] \in A /\ T = <<T[1], T[2]>>
        /\ T[1].kind = "trusted" /\ T[2].kind = "trusted" /\ T[1] # T[2]
    BY DEF Boot!AllJobs, Boot!Trusted, Boot!Job
  <1>2. {Boot!Job("selftest", n) : n \in SelfTests} \subseteq A /\ {Boot!Job("ltp", n) : n \in LtpTests} \subseteq A
    BY DEF Boot!AllJobs
  <1>3. ASSUME NEW q \in {<<>>} \cup Boot!Orders("selftest", SelfTests)
        PROVE  q \in Seq(A) /\ Once(q) /\ \A i \in DOMAIN q : q[i].kind = "selftest"
    <2>1. CASE q = <<>>
      BY <2>1 DEF Once
    <2>2. CASE q \in Boot!Orders("selftest", SelfTests)
      <3>1. /\ q \in Seq({Boot!Job("selftest", n) : n \in SelfTests}) /\ Once(q)
            /\ \A i \in DOMAIN q : q[i].kind = "selftest"
        BY <2>2, OrdersOnce DEF BootAssumption
      <3> QED
        BY <1>2, <3>1
    <2> QED
      BY <2>1, <2>2
  <1>4. ASSUME NEW L, L \subseteq LtpTests, NEW q \in {<<>>} \cup Boot!Orders("ltp", L)
        PROVE  q \in Seq(A) /\ Once(q) /\ \A i \in DOMAIN q : q[i].kind = "ltp"
    <2>1. CASE q = <<>>
      BY <2>1 DEF Once
    <2>2. CASE q \in Boot!Orders("ltp", L)
      <3>1. IsFiniteSet(L)
        BY <1>4, FS_Subset DEF BootAssumption
      <3>2. /\ q \in Seq({Boot!Job("ltp", n) : n \in L}) /\ Once(q)
            /\ \A i \in DOMAIN q : q[i].kind = "ltp"
        BY <2>2, <3>1, OrdersOnce
      <3> QED
        BY <1>2, <1>4, <3>2
    <2> QED
      BY <1>4, <2>1, <2>2
  <1> HIDE DEF A, T
  <1>5. CASE init = "microblaze" /\ jobs \in Boot!microblaze_jobs
    <2>1. PICK s \in {<<>>} \cup Boot!Orders("selftest", SelfTests),
               l \in {<<>>} \cup Boot!Orders("ltp", LtpTests) : jobs = T \o s \o l
      BY <1>5 DEF Boot!microblaze_jobs, T
    <2>2. /\ s \in Seq(A) /\ Once(s) /\ \A i \in DOMAIN s : s[i].kind = "selftest"
          /\ l \in Seq(A) /\ Once(l) /\ \A i \in DOMAIN l : l[i].kind = "ltp"
      BY <1>3, <1>4
    <2>3. Once(T) /\ \A i \in DOMAIN T : T[i].kind = "trusted"
      BY <1>1 DEF Once
    <2>4. /\ T \o s \in Seq(A) /\ Once(T \o s)
          /\ \A i \in DOMAIN (T \o s) : (T \o s)[i].kind \in {"trusted", "selftest"}
      <3>1. \A i \in DOMAIN T, k \in DOMAIN s : T[i] # s[k]
        BY <2>2, <2>3
      <3> DEFINE U == T \o s
      <3>2. /\ U \in Seq(A) /\ Once(U)
            /\ \A i \in DOMAIN U : (\E k \in DOMAIN T : U[i] = T[k]) \/ (\E k \in DOMAIN s : U[i] = s[k])
        <4>1. T \in Seq(A) /\ s \in Seq(A) /\ Once(T) /\ Once(s)
          BY <1>1, <2>2, <2>3
        <4> QED
          BY ONLY <3>1, <4>1, ConcatOnce DEF U
      <3> HIDE DEF U
      <3>3. \A i \in DOMAIN U : U[i].kind \in {"trusted", "selftest"}
        BY <2>2, <2>3, <3>2
      <3> QED
        BY <3>2, <3>3 DEF U
    <2>5. \A i \in DOMAIN (T \o s), k \in DOMAIN l : (T \o s)[i] # l[k]
      BY <2>2, <2>4
    <2>6. (T \o s) \o l \in Seq(A) /\ Once((T \o s) \o l)
      BY <2>2, <2>4, <2>5, ConcatOnce
    <2> QED
      BY <1>5, <2>1, <2>6 DEF A, NoSelfTest
  <1>6. CASE jobs \in Boot!sh4_jobs
    <2> DEFINE FF == {<<>>, <<T[1]>>}
               LL == {<<>>} \cup Boot!names_read
               ZZ == {<<>>, <<T[2]>>}
    <2>0. jobs \in {first \o l \o last : first \in FF, l \in LL, last \in ZZ}
      BY <1>6 DEF Boot!sh4_jobs, T
    <2> HIDE DEF FF, LL, ZZ
    <2>1. PICK first \in FF, l \in LL, last \in ZZ : jobs = first \o l \o last
      BY <2>0
    <2>2. \A S \in Boot!Names : S \subseteq LtpTests
      BY DEF Boot!Names
    <2>3. l \in Seq(A) /\ Once(l) /\ \A i \in DOMAIN l : l[i].kind = "ltp"
      <3>1. CASE l = <<>>
        BY <3>1 DEF Once
      <3>2. ASSUME NEW S \in Boot!Names, l \in Boot!Sorted("ltp", S)
            PROVE  l \in Seq(A) /\ Once(l) /\ \A i \in DOMAIN l : l[i].kind = "ltp"
        BY <1>4, <2>2, <3>2 DEF Boot!Sorted
      <3> QED
        BY <3>1, <3>2 DEF LL, Boot!names_read
    <2>4. /\ first \in Seq(A) /\ Once(first) /\ \A i \in DOMAIN first : first[i] = T[1]
          /\ last \in Seq(A) /\ Once(last) /\ \A i \in DOMAIN last : last[i] = T[2]
      <3>0. T[1] \in A /\ T[2] \in A
        BY <1>1
      <3>1. \A x \in A : \A q \in {<<>>, <<x>>} : q \in Seq(A) /\ Once(q) /\ \A i \in DOMAIN q : q[i] = x
        BY AtMostOne
      <3>2. first \in {<<>>, <<T[1]>>} /\ last \in {<<>>, <<T[2]>>}
        BY DEF FF, ZZ
      <3>3. first \in Seq(A) /\ Once(first) /\ \A i \in DOMAIN first : first[i] = T[1]
        BY <3>0, <3>1, <3>2, ZenonT(30)
      <3>4. last \in Seq(A) /\ Once(last) /\ \A i \in DOMAIN last : last[i] = T[2]
        BY <3>0, <3>1, <3>2, ZenonT(30)
      <3> QED
        BY <3>3, <3>4
    <2>5. \A i \in DOMAIN first, k \in DOMAIN l : first[i] # l[k]
      BY <1>1, <2>3, <2>4
    <2>6. /\ first \o l \in Seq(A) /\ Once(first \o l)
          /\ \A i \in DOMAIN (first \o l) : (first \o l)[i] = T[1] \/ (first \o l)[i].kind = "ltp"
      BY <2>3, <2>4, <2>5, ConcatOnce
    <2>7. \A i \in DOMAIN (first \o l), k \in DOMAIN last : (first \o l)[i] # last[k]
      BY <1>1, <2>4, <2>6
    <2>8. (first \o l) \o last \in Seq(A) /\ Once((first \o l) \o last)
      BY <2>4, <2>6, <2>7, ConcatOnce
    <2>9. \A i \in DOMAIN jobs : jobs[i].kind # "selftest"
      <3>1. \A i \in DOMAIN jobs : (\E k \in DOMAIN (first \o l) : jobs[i] = (first \o l)[k])
                                   \/ (\E k \in DOMAIN last : jobs[i] = last[k])
        <4> DEFINE fl == first \o l
        <4>1. jobs = fl \o last /\ fl \in Seq(A) /\ Once(fl)
          BY <2>1, <2>6
        <4>2. \A i \in DOMAIN fl, k \in DOMAIN last : fl[i] # last[k]
          BY <2>7
        <4>3. last \in Seq(A) /\ Once(last)
          BY <2>4
        <4> HIDE DEF fl
        <4>4. \A i \in DOMAIN (fl \o last) : (\E k \in DOMAIN fl : (fl \o last)[i] = fl[k])
                                             \/ (\E k \in DOMAIN last : (fl \o last)[i] = last[k])
          BY <4>1, <4>2, <4>3, ConcatOnce
        <4> QED
          BY <4>1, <4>4 DEF fl
      <3>2. \A k \in DOMAIN (first \o l) : (first \o l)[k].kind \in {"trusted", "ltp"}
        BY <1>1, <2>6
      <3>3. \A k \in DOMAIN last : last[k].kind = "trusted"
        BY <1>1, <2>4
      <3> QED
        BY <3>1, <3>2, <3>3
    <2> QED
      BY <2>1, <2>8, <2>9 DEF A, NoSelfTest
  <1>7. (init = "microblaze" /\ jobs \in Boot!microblaze_jobs) \/ jobs \in Boot!sh4_jobs
    <2>1. init \in {"microblaze", "sh4"}
      BY DEF Boot!Init, BootAssumption
    <2> QED
      BY <2>1 DEF Boot!Init
  <1> QED
    BY <1>5, <1>6, <1>7

----------------------------------------------------------------------------
(* The init programs: one test at a time                                    *)

\* The statuses waitpid() returns.
Status == {Boot!Exited(n) : n \in 0..255} \cup 1..127
Verdicts == {"PASS", "FAIL", "SKIP", "SKIP (timeout)", "NOTFOUND"}
Failures == {"FAIL", "SKIP (timeout)", "NOTFOUND"}

\* What the variables of an init range over.
BootTypes ==
  /\ init \in {"microblaze", "sh4"} /\ pc \in {"next", "poll", "wait", "report", "off"}
  /\ jobs \in Seq(Boot!AllJobs) /\ lines \in Seq(Boot!AllJobs \X Verdicts)
  /\ procs \in [Boot!AllJobs -> Int] /\ real \in [Boot!AllJobs -> Int]
  /\ tally \in [pass : Int, fail : Int, skip : Int, total : Int]

\* Each test is to be run once; one that is still to be run has no process and
\* no result, and has not been printed.
ToBeRun ==
  /\ Once(jobs) /\ NoSelfTest
  /\ \A i \in DOMAIN jobs :
       /\ i # 1 \/ pc = "next" => procs[jobs[i]] = Boot!NONE /\ real[jobs[i]] = Boot!NONE
       /\ \A k \in DOMAIN lines : lines[k][1] # jobs[i]

\* Only the test at hand has a process, while the init polls or waits for it.
Alone == \A j \in Boot!AllJobs : procs[j] # Boot!NONE => pc \in {"poll", "wait"} /\ j = Boot!This

\* What the process of the test at hand is, and how it has ended, at each
\* point of run_timeout() and run().
AtHand ==
  /\ pc \in {"poll", "wait", "report"} => jobs # <<>>
  /\ pc = "poll" => \/ procs[Boot!This] = Boot!RUNNING /\ real[Boot!This] = Boot!NONE
                    \/ procs[Boot!This] \in Status /\ real[Boot!This] = procs[Boot!This]
  /\ pc = "wait" => real[Boot!This] = Boot!KILLED /\ procs[Boot!This] \in {Boot!KILLED} \cup Status
  /\ pc = "report" => \/ result = -1 /\ real[Boot!This] = Boot!NONE
                      \/ result = Boot!TIMEOUT /\ real[Boot!This] = Boot!KILLED
                      \/ real[Boot!This] \in Status /\ result = Boot!Answer(real[Boot!This])

\* What has been printed of a test is how it ended.
Truth == \A k \in DOMAIN lines :
           /\ lines[k][2] = "PASS" => real[lines[k][1]] = Boot!Exited(0)
           /\ lines[k][2] \in Failures => real[lines[k][1]] # Boot!Exited(0)

OnceInv == BootTypes /\ ToBeRun /\ Alone /\ AtHand
BootInv == OnceInv /\ Truth

\* Between the statuses and the marks of a test that has not ended there is no
\* confusion, and a status is split as wait.h splits it.
LEMMA Statuses ==
  /\ \A s \in Status : /\ s \in Nat /\ s # Boot!NONE /\ s # Boot!RUNNING /\ s # Boot!KILLED
                       /\ Boot!Ended(s) /\ (Boot!WIFEXITED(s) /\ Boot!WEXITSTATUS(s) = 0 <=> s = Boot!Exited(0))
                       /\ Boot!WEXITSTATUS(s) \in 0..255
                       /\ Boot!WTERMSIG(s) \in 0..127
  /\ ~Boot!Ended(Boot!NONE) /\ ~Boot!Ended(Boot!RUNNING) /\ ~Boot!Ended(Boot!KILLED)
  /\ Boot!NONE # Boot!RUNNING /\ Boot!NONE # Boot!KILLED /\ Boot!RUNNING # Boot!KILLED
  /\ Boot!SIGKILL \in Status /\ Boot!Exited(0) = 0 /\ Boot!NONE = -1 /\ Boot!KILLED = -3
  <1> USE DEF Boot!NONE, Boot!RUNNING, Boot!KILLED, Boot!Ended, Boot!WIFEXITED, Boot!WEXITSTATUS,
              Boot!WTERMSIG, Boot!Exited, Boot!SIGKILL
  <1>1. \A n \in 0..255 : (n * 256) % 128 = 0 /\ (n * 256) \div 256 = n /\ n * 256 \in Nat
    OBVIOUS
  <1>2. \A n \in 1..127 : n % 128 = n /\ n \div 256 = 0 /\ n \in Nat
    OBVIOUS
  <1>3. \A s \in Status : (\E n \in 0..255 : s = n * 256) \/ s \in 1..127
    BY DEF Status
  <1>4. ASSUME NEW s \in Status
        PROVE  /\ s \in Nat /\ Boot!Ended(s) /\ s # Boot!NONE /\ s # Boot!RUNNING /\ s # Boot!KILLED
               /\ (Boot!WIFEXITED(s) /\ Boot!WEXITSTATUS(s) = 0 <=> s = Boot!Exited(0))
               /\ Boot!WEXITSTATUS(s) \in 0..255 /\ Boot!WTERMSIG(s) \in 0..127
    <2>1. CASE s \in 1..127
      <3>1. s % 128 = s /\ s \div 256 = 0 /\ s \in Nat /\ s # 0 /\ s <= 127
        BY <1>2, <2>1
      <3> QED
        BY <3>1
    <2>2. ASSUME NEW n \in 0..255, s = n * 256
          PROVE  /\ s \in Nat /\ (s % 128 = 0 /\ s \div 256 = 0 <=> s = 0 * 256)
                 /\ s \div 256 \in 0..255 /\ s % 128 \in 0..127
      <3>1. s % 128 = 0 /\ s \div 256 = n /\ s \in Nat
        BY <1>1, <2>2
      <3>2. n = 0 <=> s = 0
        BY <2>2
      <3> QED
        BY <3>1, <3>2
    <2>3. CASE \E n \in 0..255 : s = n * 256
      <3>1. /\ s \in Nat /\ (s % 128 = 0 /\ s \div 256 = 0 <=> s = 0 * 256)
            /\ s \div 256 \in 0..255 /\ s % 128 \in 0..127
        BY <2>2, <2>3
      <3>2. s >= 0 /\ s # -1 /\ s # -2 /\ s # -3
        BY <3>1
      <3> QED
        BY <3>1, <3>2, Zenon
    <2> QED
      BY <1>3, <2>1, <2>3
  <1>5. Boot!SIGKILL \in Status
    BY DEF Status
  <1> QED
    BY <1>4, <1>5

\* An init starts in the invariant.
LEMMA BootInit ==
  ASSUME BootAssumption, Boot!Init
  PROVE  BootInv
  <1>1. jobs \in Seq(Boot!AllJobs) /\ Once(jobs) /\ NoSelfTest
    BY InitJobs
  <1>2. /\ init \in Inits /\ pc = "next" /\ lines = <<>> /\ tally = [pass |-> 0, fail |-> 0, skip |-> 0, total |-> 0]
        /\ procs = [j \in Boot!AllJobs |-> Boot!NONE] /\ real = [j \in Boot!AllJobs |-> Boot!NONE]
    BY DEF Boot!Init
  <1>3. BootTypes
    <2>1. init \in {"microblaze", "sh4"} /\ tally \in [pass : Int, fail : Int, skip : Int, total : Int]
      BY <1>2 DEF BootAssumption
    <2>2. lines \in Seq(Boot!AllJobs \X Verdicts)
      BY <1>2
    <2>3. Boot!NONE \in Int
      BY DEF Boot!NONE
    <2> QED
      BY <1>1, <1>2, <2>1, <2>2, <2>3 DEF BootTypes
  <1>4. \A i \in DOMAIN jobs : jobs[i] \in Boot!AllJobs
    BY <1>1
  <1>5. DOMAIN lines = {}
    BY <1>2
  <1>6. ToBeRun
    BY <1>1, <1>2, <1>4, <1>5 DEF ToBeRun
  <1>7. Alone /\ AtHand
    BY <1>2 DEF Alone, AtHand
  <1> QED
    BY <1>3, <1>5, <1>6, <1>7 DEF BootInv, OnceInv, Truth

\* The test at hand is the first of those to be run.
LEMMA ThisIsFirst ==
  ASSUME OnceInv, jobs # <<>>
  PROVE  /\ Boot!This \in Boot!AllJobs /\ Boot!This = jobs[1] /\ 1 \in DOMAIN jobs
         /\ \A i \in DOMAIN jobs : jobs[i] \in Boot!AllJobs /\ (i # 1 => jobs[i] # Boot!This)
         /\ \A k \in DOMAIN lines : lines[k][1] \in Boot!AllJobs /\ lines[k][2] \in Verdicts
                                    /\ lines[k][1] # Boot!This
  <1>1. jobs \in Seq(Boot!AllJobs) /\ lines \in Seq(Boot!AllJobs \X Verdicts) /\ Once(jobs)
    BY DEF OnceInv, BootTypes, ToBeRun
  <1>2. Head(jobs) = jobs[1] /\ 1 \in DOMAIN jobs /\ \A i \in DOMAIN jobs : jobs[i] \in Boot!AllJobs
    BY <1>1
  <1>3. \A k \in DOMAIN lines : lines[k] \in Boot!AllJobs \X Verdicts
    BY <1>1
  <1>4. \A k \in DOMAIN lines : lines[k][1] \in Boot!AllJobs /\ lines[k][2] \in Verdicts
    BY <1>3
  <1>5. \A k \in DOMAIN lines : lines[k][1] # jobs[1]
    BY <1>2 DEF OnceInv, ToBeRun
  <1> QED
    BY <1>1, <1>2, <1>4, <1>5 DEF Once, Boot!This

\* A step that touches the process and the result of the test at hand alone
\* leaves what is true of the other tests, to be run or printed.
LEMMA HandOnly ==
  ASSUME OnceInv, jobs # <<>>, UNCHANGED <<jobs, lines>>, pc' \in {"poll", "wait", "report"},
         UNCHANGED init,
         \A j \in Boot!AllJobs : j # Boot!This => procs'[j] = procs[j] /\ real'[j] = real[j],
         procs'[Boot!This] # Boot!NONE => pc' \in {"poll", "wait"}
  PROVE  /\ Boot!This' = Boot!This /\ jobs' # <<>>
         /\ ToBeRun' /\ Alone' /\ (Truth => Truth')
  <1>1. /\ Boot!This \in Boot!AllJobs /\ Boot!This = jobs[1] /\ 1 \in DOMAIN jobs
        /\ \A i \in DOMAIN jobs : jobs[i] \in Boot!AllJobs /\ (i # 1 => jobs[i] # Boot!This)
        /\ \A k \in DOMAIN lines : lines[k][1] \in Boot!AllJobs /\ lines[k][1] # Boot!This
    BY ThisIsFirst
  <1>2. Boot!This' = Boot!This
    BY DEF Boot!This
  <1>3. ToBeRun'
    BY <1>1 DEF OnceInv, ToBeRun, NoSelfTest
  <1>4. Alone'
    BY <1>2 DEF OnceInv, Alone
  <1>5. Truth => Truth'
    BY <1>1 DEF Truth
  <1> QED
    BY <1>2, <1>3, <1>4, <1>5

\* The invariant over the steps of run_timeout() and run().
LEMMA RunStep ==
  ASSUME BootInv, Boot!Fork \/ Boot!Poll \/ Boot!Kill \/ Boot!Wait
  PROVE  BootInv'
  <1> DEFINE this == Boot!This
  <1>0. OnceInv /\ BootTypes /\ AtHand /\ Truth /\ ToBeRun /\ Alone
    BY DEF BootInv, OnceInv
  <1>1. jobs # <<>> /\ UNCHANGED <<init, jobs, lines, tally>>
    BY <1>0 DEF Boot!Fork, Boot!Poll, Boot!Kill, Boot!Wait, AtHand
  <1>2. this \in Boot!AllJobs /\ this = jobs[1] /\ 1 \in DOMAIN jobs
    BY <1>0, <1>1, ThisIsFirst
  <1>3. this' = this
    BY <1>1 DEF Boot!This
  <1>4. /\ procs \in [Boot!AllJobs -> Int] /\ real \in [Boot!AllJobs -> Int]
        /\ Boot!RUNNING \in Int /\ Boot!KILLED \in Int /\ Boot!NONE \in Int
    BY <1>0 DEF BootTypes, Boot!RUNNING, Boot!KILLED, Boot!NONE
  <1>5. SUFFICES /\ pc' \in {"poll", "wait", "report"} /\ AtHand'
                 /\ procs' \in [Boot!AllJobs -> Int] /\ real' \in [Boot!AllJobs -> Int]
                 /\ \A j \in Boot!AllJobs : j # this => procs'[j] = procs[j] /\ real'[j] = real[j]
                 /\ procs'[this] # Boot!NONE => pc' \in {"poll", "wait"}
    <2>1. ToBeRun' /\ Alone' /\ Truth'
      BY <1>0, <1>1, <1>5, HandOnly
    <2>2. BootTypes'
      BY <1>0, <1>1, <1>5 DEF BootTypes
    <2> QED
      BY <1>5, <2>1, <2>2 DEF BootInv, OnceInv
  <1>6. CASE Boot!Fork
    <2>1. real[this] = Boot!NONE /\ procs[this] = Boot!NONE /\ real' = real
      BY <1>0, <1>2, <1>6 DEF Boot!Fork, ToBeRun
    <2>2. CASE procs' = [procs EXCEPT ![this] = Boot!RUNNING] /\ pc' = "poll"
      <3>1. /\ procs' \in [Boot!AllJobs -> Int] /\ procs'[this] = Boot!RUNNING
            /\ \A j \in Boot!AllJobs : j # this => procs'[j] = procs[j]
        BY <1>2, <1>4, <2>2
      <3>2. AtHand'
        BY <1>1, <1>3, <2>1, <2>2, <3>1 DEF AtHand
      <3> QED
        BY <1>4, <2>1, <2>2, <3>1, <3>2
    <2>3. CASE result' = -1 /\ pc' = "report" /\ procs' = procs
      <3>1. AtHand'
        BY <1>1, <1>3, <2>1, <2>3 DEF AtHand
      <3> QED
        BY <1>4, <2>1, <2>3, <3>1
    <2> QED
      BY <1>6, <2>2, <2>3 DEF Boot!Fork
  <1>7. CASE Boot!Poll
    <2>1. \/ procs[this] = Boot!RUNNING /\ real[this] = Boot!NONE
          \/ procs[this] \in Status /\ real[this] = procs[this]
      BY <1>0, <1>7 DEF Boot!Poll, AtHand
    <2>2. real' = real /\ pc = "poll"
      BY <1>7 DEF Boot!Poll
    <2>3. CASE Boot!Ended(procs[this])
      <3>1. /\ procs' = [procs EXCEPT ![this] = Boot!NONE] /\ pc' = "report"
            /\ result' = Boot!Answer(procs[this])
        BY <1>7, <2>3 DEF Boot!Poll, Boot!Reaped
      <3>2. /\ procs' \in [Boot!AllJobs -> Int] /\ procs'[this] = Boot!NONE
            /\ \A j \in Boot!AllJobs : j # this => procs'[j] = procs[j]
        BY <1>2, <1>4, <3>1
      <3>3. real[this] \in Status /\ result' = Boot!Answer(real[this])
        BY <2>1, <2>3, <3>1, Statuses
      <3>4. (Boot!Answer(real[this]))' = Boot!Answer(real[this])
        BY <1>1, <1>3, <2>2 DEF Boot!Answer
      <3>5. AtHand'
        BY <1>1, <1>3, <2>2, <3>1, <3>3, <3>4 DEF AtHand
      <3> QED
        BY <1>4, <2>2, <3>1, <3>2, <3>5
    <2>4. CASE ~Boot!Ended(procs[this])
      <3>1. UNCHANGED <<procs, pc>>
        BY <1>7, <2>4 DEF Boot!Poll
      <3>2. AtHand'
        BY <1>1, <1>3, <2>1, <2>2, <3>1 DEF AtHand
      <3> QED
        BY <1>4, <2>2, <3>1, <3>2
    <2> QED
      BY <2>3, <2>4
  <1>8. CASE Boot!Kill
    <2>1. \/ procs[this] = Boot!RUNNING /\ real[this] = Boot!NONE
          \/ procs[this] \in Status /\ real[this] = procs[this]
      BY <1>0, <1>8 DEF Boot!Kill, AtHand
    <2>2. /\ pc' = "wait" /\ real' = [real EXCEPT ![this] = Boot!KILLED]
          /\ procs' = [procs EXCEPT ![this] = IF procs[this] = Boot!RUNNING THEN Boot!KILLED ELSE procs[this]]
      BY <1>8 DEF Boot!Kill
    <2>3. /\ procs' \in [Boot!AllJobs -> Int] /\ real' \in [Boot!AllJobs -> Int]
          /\ \A j \in Boot!AllJobs : j # this => procs'[j] = procs[j] /\ real'[j] = real[j]
          /\ real'[this] = Boot!KILLED
          /\ procs'[this] = IF procs[this] = Boot!RUNNING THEN Boot!KILLED ELSE procs[this]
      BY <1>2, <1>4, <2>2
    <2>4. AtHand'
      BY <1>1, <1>3, <2>1, <2>2, <2>3 DEF AtHand
    <2> QED
      BY <2>2, <2>3, <2>4
  <1>9. CASE Boot!Wait
    <2>1. real[this] = Boot!KILLED /\ init' = init
      BY <1>0, <1>9 DEF Boot!Wait, AtHand
    <2>2. /\ pc' = "report" /\ procs' = [procs EXCEPT ![this] = Boot!NONE] /\ real' = real
          /\ result' = Boot!TIMEOUT /\ Boot!TIMEOUT' = Boot!TIMEOUT
      BY <1>9 DEF Boot!Wait, Boot!Reaped, Boot!TIMEOUT
    <2>3. /\ procs' \in [Boot!AllJobs -> Int] /\ procs'[this] = Boot!NONE
          /\ \A j \in Boot!AllJobs : j # this => procs'[j] = procs[j]
      BY <1>2, <1>4, <2>2
    <2>4. AtHand'
      BY <1>1, <1>3, <2>1, <2>2, <2>3 DEF AtHand
    <2> QED
      BY <1>4, <2>2, <2>3, <2>4
  <1> QED
    BY <1>6, <1>7, <1>8, <1>9

\* The invariant over the end of a test.
LEMMA EndStep ==
  ASSUME BootAssumption, BootInv, NEW j \in Boot!AllJobs, Boot!Ends(j) \/ Boot!Dies(j)
  PROVE  BootInv'
  <1> DEFINE this == Boot!This
  <1>0. OnceInv /\ BootTypes /\ AtHand /\ Truth /\ ToBeRun /\ Alone
    BY DEF BootInv, OnceInv
  <1>1. procs[j] \in {Boot!RUNNING, Boot!KILLED} /\ UNCHANGED <<init, jobs, pc, polls, result, tally, lines>>
    BY DEF Boot!Ends, Boot!Dies
  <1>2. j = this /\ pc \in {"poll", "wait"} /\ jobs # <<>>
    BY <1>0, <1>1, Statuses DEF Alone, AtHand
  <1>3. this' = this
    BY <1>1 DEF Boot!This
  <1>4. /\ procs \in [Boot!AllJobs -> Int] /\ real \in [Boot!AllJobs -> Int]
        /\ Status \subseteq Int /\ Boot!SIGKILL \in Status
    BY <1>0, Statuses DEF BootTypes
  <1>5. PICK s \in Status :
          /\ procs' = [procs EXCEPT ![j] = s]
          /\ \/ pc = "poll" /\ real' = [real EXCEPT ![j] = s]
             \/ pc = "wait" /\ real' = real
    <2>1. CASE Boot!Ends(j)
      <3>1. PICK s \in {Boot!Exited(n) : n \in ExitCodes} \cup Signals :
              procs' = [procs EXCEPT ![j] = s] /\ real' = [real EXCEPT ![j] = s]
        BY <2>1 DEF Boot!Ends
      <3>2. s \in Status
        <4>1. ExitCodes \subseteq 0..255 /\ Signals \subseteq 1..127
          BY DEF BootAssumption
        <4>2. CASE s \in Signals
          BY <4>1, <4>2 DEF Status
        <4>3. ASSUME NEW n \in ExitCodes, s = Boot!Exited(n) PROVE s \in Status
          BY <4>1, <4>3 DEF Status
        <4> QED
          BY <3>1, <4>2, <4>3
      <3>3. pc # "wait"
        BY <1>0, <1>2, <2>1, Statuses DEF Boot!Ends, AtHand
      <3> QED
        BY <1>2, <3>1, <3>2, <3>3
    <2>2. CASE Boot!Dies(j)
      <3>1. pc # "poll"
        BY <1>0, <1>2, <2>2, Statuses DEF Boot!Dies, AtHand
      <3> QED
        BY <1>2, <1>4, <2>2, <3>1 DEF Boot!Dies
    <2> QED
      BY <2>1, <2>2
  <1>6. /\ procs' \in [Boot!AllJobs -> Int] /\ real' \in [Boot!AllJobs -> Int] /\ procs'[this] = s
        /\ \A i \in Boot!AllJobs : i # this => procs'[i] = procs[i] /\ real'[i] = real[i]
    BY <1>2, <1>4, <1>5
  <1>7. AtHand'
    <2>1. CASE pc = "poll"
      <3>1. real'[this] = s
        BY <1>2, <1>4, <1>5, <2>1
      <3> QED
        BY <1>1, <1>2, <1>3, <1>6, <2>1, <3>1 DEF AtHand
    <2>2. CASE pc = "wait"
      <3>1. real'[this] = Boot!KILLED
        BY <1>0, <1>5, <2>2 DEF AtHand
      <3> QED
        BY <1>1, <1>2, <1>3, <1>6, <2>2, <3>1 DEF AtHand
    <2> QED
      BY <1>2, <2>1, <2>2
  <1>8. ToBeRun' /\ Alone' /\ Truth'
    BY <1>0, <1>1, <1>2, <1>6, HandOnly
  <1>9. BootTypes'
    BY <1>0, <1>1, <1>6 DEF BootTypes
  <1> QED
    BY <1>7, <1>8, <1>9 DEF BootInv, OnceInv

\* A verdict is one of five, and is PASS of a test that ended with 0 in time,
\* and of no other; such a test has no other verdict than PASS.
LEMMA VerdictTrue ==
  ASSUME OnceInv, pc = "report"
  PROVE  /\ Boot!Verdict \in Verdicts
         /\ Boot!Verdict = "PASS" => real[Boot!This] = Boot!Exited(0)
         /\ Boot!Verdict \in Failures => real[Boot!This] # Boot!Exited(0)
  <1> DEFINE s == real[Boot!This]
  <1>1. \/ result = -1 /\ s = Boot!NONE
        \/ result = Boot!TIMEOUT /\ s = Boot!KILLED
        \/ s \in Status /\ result = Boot!Answer(s)
    BY DEF OnceInv, AtHand
  <1>2. init \in {"microblaze", "sh4"}
    BY DEF OnceInv, BootTypes
  <1>3. Boot!NONE # Boot!Exited(0) /\ Boot!KILLED # Boot!Exited(0) /\ Boot!Exited(0) = 0
    BY Statuses
  <1>4. /\ Boot!This.kind \in {"trusted", "selftest", "ltp"}
        /\ init = "sh4" => Boot!This.kind # "selftest"
    <2>1. jobs # <<>>
      BY DEF OnceInv, AtHand
    <2>2. Boot!This \in Boot!AllJobs /\ Boot!This = jobs[1] /\ 1 \in DOMAIN jobs
      BY <2>1, ThisIsFirst
    <2>3. init = "sh4" => Boot!This.kind # "selftest"
      BY <2>2 DEF OnceInv, ToBeRun, NoSelfTest
    <2>4. Boot!This.kind \in {"trusted", "selftest", "ltp"}
      BY <2>2 DEF Boot!AllJobs, Boot!Job, Boot!Trusted
    <2> QED
      BY <2>3, <2>4
  <1>5. /\ Boot!trusted_verdict \in {"PASS", "FAIL"} /\ Boot!selftest_verdict \in {"PASS", "SKIP", "FAIL"}
        /\ \A ec : Boot!exit_verdict(ec) \in {"PASS", "SKIP", "NOTFOUND", "FAIL"}
        /\ \A ec : Boot!exit_verdict(ec) = "PASS" <=> ec = 0
    BY DEF Boot!trusted_verdict, Boot!selftest_verdict, Boot!exit_verdict
  <1>6. Boot!ltp_verdict \in Verdicts
    BY <1>5 DEF Boot!ltp_verdict, Verdicts
  <1>7. /\ Boot!This.kind = "trusted"  => Boot!Verdict = Boot!trusted_verdict
        /\ Boot!This.kind = "selftest" => Boot!Verdict = Boot!selftest_verdict
        /\ Boot!This.kind = "ltp"      => Boot!Verdict = Boot!ltp_verdict
    BY DEF Boot!Verdict
  <1>8. Boot!Verdict \in Verdicts
    BY <1>4, <1>5, <1>6, <1>7 DEF Verdicts
  <1> HIDE DEF s
  \* PASS is printed of status 0, and of it nothing but PASS.
  <1>9. SUFFICES /\ Boot!Verdict = "PASS" => s = Boot!Exited(0)
                 /\ Boot!Verdict \in Failures => s # Boot!Exited(0)
    BY <1>8 DEF s
  <1>10. CASE init = "sh4"
    <2>1. Boot!TIMEOUT = -2
      BY <1>10 DEF Boot!TIMEOUT
    <2>2. s \in Status => (Boot!Answer(s) = 0 <=> s = Boot!Exited(0))
      <3>1. ASSUME s \in Status
            PROVE  Boot!Answer(s) = IF Boot!WIFEXITED(s) THEN Boot!WEXITSTATUS(s) ELSE 128 + Boot!WTERMSIG(s)
        BY <1>10 DEF Boot!Answer
      <3>2. ASSUME s \in Status PROVE 128 + Boot!WTERMSIG(s) # 0
        BY <3>2, Statuses
      <3> QED
        BY <3>1, <3>2, Statuses
    <2>3. result = 0 <=> s = Boot!Exited(0)
      BY <1>1, <1>3, <2>1, <2>2
    <2>4. /\ Boot!trusted_verdict = "PASS" <=> result = 0
          /\ result = 0 => Boot!trusted_verdict \notin Failures
      BY <1>10 DEF Boot!trusted_verdict, Failures
    <2>5. /\ Boot!ltp_verdict = "PASS" <=> result = 0
          /\ result = 0 => Boot!ltp_verdict \notin Failures
      BY <1>10 DEF Boot!ltp_verdict, Failures
    <2> QED
      BY <1>4, <1>7, <1>10, <2>3, <2>4, <2>5
  <1>11. CASE init = "microblaze"
    <2>1. Boot!TIMEOUT = Boot!Exited(9) /\ Boot!Exited(9) = 2304
      BY <1>11 DEF Boot!TIMEOUT, Boot!Exited
    <2>2. s \in Status => Boot!Answer(s) = s
      BY <1>11 DEF Boot!Answer
    <2>3. s = Boot!Exited(0) => result = 0
      BY <1>1, <1>3, <2>2
    <2>4. result >= 0 /\ result # Boot!TIMEOUT /\ Boot!WIFEXITED(result) /\ Boot!WEXITSTATUS(result) = 0
            => s = Boot!Exited(0)
      BY <1>1, <2>2, Statuses
    <2>5. Boot!WIFEXITED(0) /\ Boot!WEXITSTATUS(0) = 0 /\ 0 # Boot!TIMEOUT
      BY <2>1 DEF Boot!WIFEXITED, Boot!WEXITSTATUS
    <2>6. result \in Int
      BY <1>1, <2>1, <2>2, Statuses
    <2>7. Boot!run_program = 0 <=> /\ result >= 0 /\ result # Boot!TIMEOUT /\ Boot!WIFEXITED(result)
                                   /\ Boot!WEXITSTATUS(result) = 0
      BY <2>6 DEF Boot!run_program
    <2>8. Boot!run_program = 0 <=> s = Boot!Exited(0)
      BY <2>3, <2>4, <2>5, <2>7
    <2>9. /\ Boot!trusted_verdict = "PASS" <=> Boot!run_program = 0
          /\ Boot!selftest_verdict = "PASS" <=> Boot!run_program = 0
      BY <1>11 DEF Boot!trusted_verdict, Boot!selftest_verdict
    <2>10. Boot!ltp_verdict = "PASS" <=> Boot!run_program = 0
      <3>1. Boot!ltp_verdict = IF result = Boot!TIMEOUT THEN "SKIP (timeout)"
                               ELSE IF result < 0 \/ ~Boot!WIFEXITED(result) THEN "FAIL"
                               ELSE Boot!exit_verdict(Boot!WEXITSTATUS(result))
        BY <1>11 DEF Boot!ltp_verdict
      <3>2. Boot!exit_verdict(Boot!WEXITSTATUS(result)) = "PASS" <=> Boot!WEXITSTATUS(result) = 0
        BY <1>5
      <3>3. CASE result = Boot!TIMEOUT
        <4>1. Boot!ltp_verdict = "SKIP (timeout)"
          BY <3>1, <3>3
        <4> QED
          BY <2>7, <3>3, <4>1
      <3>4. CASE result # Boot!TIMEOUT /\ (result < 0 \/ ~Boot!WIFEXITED(result))
        <4>1. Boot!ltp_verdict = "FAIL"
          BY <3>1, <3>4
        <4> QED
          BY <2>6, <2>7, <3>4, <4>1
      <3>5. CASE result # Boot!TIMEOUT /\ ~(result < 0) /\ Boot!WIFEXITED(result)
        <4>1. Boot!ltp_verdict = Boot!exit_verdict(Boot!WEXITSTATUS(result))
          BY <3>1, <3>5
        <4> QED
          BY <2>6, <2>7, <3>2, <3>5, <4>1
      <3> QED
        BY <3>3, <3>4, <3>5
    <2>11. Boot!Verdict = "PASS" <=> s = Boot!Exited(0)
      BY <1>4, <1>7, <2>8, <2>9, <2>10
    <2> QED
      BY <2>11 DEF Failures
  <1> QED
    BY <1>2, <1>10, <1>11

\* Going on to the next test, with or without a line about this one.
LEMMA NextKeeps ==
  ASSUME BootInv, jobs # <<>>, NEW v \in Verdicts,
         jobs' = Tail(jobs), lines' = Append(lines, <<Boot!This, v>>) \/ lines' = lines,
         v = "PASS" => real[Boot!This] = Boot!Exited(0),
         v \in Failures => real[Boot!This] # Boot!Exited(0),
         pc \in {"next", "report"}, pc' = "next", UNCHANGED <<init, procs, real>>,
         tally' \in [pass : Int, fail : Int, skip : Int, total : Int]
  PROVE  BootInv'
  <1> DEFINE this == Boot!This
  <1>0. OnceInv /\ BootTypes /\ AtHand /\ Truth /\ ToBeRun /\ Alone
    BY DEF BootInv, OnceInv
  <1>1. /\ this \in Boot!AllJobs /\ this = jobs[1]
        /\ \A k \in DOMAIN lines : lines[k][1] # this
    BY <1>0, ThisIsFirst
  <1>2. /\ Tail(jobs) \in Seq(Boot!AllJobs) /\ Once(Tail(jobs))
        /\ \A i \in DOMAIN Tail(jobs) : /\ i + 1 \in DOMAIN jobs /\ Tail(jobs)[i] = jobs[i + 1]
                                        /\ i + 1 # 1 /\ Tail(jobs)[i] # this
    BY <1>0, TailOnce DEF BootTypes, ToBeRun, Boot!This
  <1>3. /\ lines' \in Seq(Boot!AllJobs \X Verdicts)
        /\ \A k \in DOMAIN lines' : (k \in DOMAIN lines /\ lines'[k] = lines[k])
                                    \/ lines'[k] = <<this, v>>
    <2>1. lines \in Seq(Boot!AllJobs \X Verdicts) /\ <<this, v>> \in Boot!AllJobs \X Verdicts
      BY <1>0, <1>1 DEF BootTypes
    <2>2. CASE lines' = lines
      BY <2>1, <2>2
    <2>3. CASE lines' = Append(lines, <<this, v>>)
      <3> DEFINE e == <<this, v>>
                 P == Boot!AllJobs \X Verdicts
      <3>1. lines \in Seq(P) /\ e \in P /\ lines' = Append(lines, e)
        BY <2>1, <2>3
      <3> HIDE DEF e, P
      <3>2. /\ lines' \in Seq(P)
            /\ \A k \in DOMAIN lines' : (k \in DOMAIN lines /\ lines'[k] = lines[k]) \/ lines'[k] = e
        BY <3>1
      <3> QED
        BY <3>2 DEF e, P
    <2> QED
      BY <2>2, <2>3
  <1>4. BootTypes'
    BY <1>0, <1>2, <1>3 DEF BootTypes
  <1>5. ToBeRun'
    <2>1. \A i \in DOMAIN jobs' : /\ i + 1 \in DOMAIN jobs /\ jobs'[i] = jobs[i + 1]
                                  /\ i + 1 # 1 /\ jobs'[i] # this
      BY <1>2
    <2>2. \A i \in DOMAIN jobs' : procs'[jobs'[i]] = Boot!NONE /\ real'[jobs'[i]] = Boot!NONE
      BY <1>0, <2>1 DEF ToBeRun
    <2>3. ASSUME NEW i \in DOMAIN jobs', NEW k \in DOMAIN lines'
          PROVE  lines'[k][1] # jobs'[i]
      BY <1>0, <1>3, <2>1 DEF ToBeRun
    <2>4. NoSelfTest'
      BY <1>0, <2>1 DEF ToBeRun, NoSelfTest
    <2> QED
      BY <1>2, <2>2, <2>3, <2>4 DEF ToBeRun
  <1>6. Alone' /\ AtHand'
    BY <1>0 DEF Alone, AtHand
  <1>7. Truth'
    BY <1>0, <1>3 DEF Truth
  <1> QED
    BY <1>4, <1>5, <1>6, <1>7 DEF BootInv, OnceInv

\* A line of the log is added to those of its verdict alone.
LEMMA PrintedAppend ==
  ASSUME NEW j \in Boot!AllJobs, NEW v \in Verdicts, BootTypes, lines' = Append(lines, <<j, v>>), NEW V
  PROVE  Boot!Printed(V)' = Boot!Printed(V) \cup (IF v \in V THEN {j} ELSE {})
  <1> DEFINE e == <<j, v>>
             L == Boot!AllJobs \X Verdicts
  <1>1. lines \in Seq(L) /\ lines' = Append(lines, e) /\ e \in L
    BY DEF BootTypes
  <1>2. e[1] = j /\ e[2] = v
    OBVIOUS
  <1> HIDE DEF e, L
  <1>3. /\ DOMAIN lines' = DOMAIN lines \cup {Len(lines) + 1} /\ lines'[Len(lines) + 1] = e
        /\ \A k \in DOMAIN lines : lines'[k] = lines[k]
    <2>1. /\ Len(lines) \in Nat /\ DOMAIN lines = 1..Len(lines) /\ DOMAIN lines' = 1..(Len(lines) + 1)
          /\ lines'[Len(lines) + 1] = e /\ \A k \in 1..Len(lines) : lines'[k] = lines[k]
      <3>1. Len(lines) \in Nat /\ DOMAIN lines = 1..Len(lines)
        BY <1>1
      <3>2. lines' \in Seq(L) /\ Len(lines') = Len(lines) + 1 /\ lines'[Len(lines) + 1] = e
        BY <1>1
      <3>3. DOMAIN lines' = 1..Len(lines')
        BY <3>2
      <3>4. \A k \in 1..Len(lines) : lines'[k] = lines[k]
        BY <1>1
      <3> QED
        BY <3>1, <3>2, <3>3, <3>4
    <2>2. 1..(Len(lines) + 1) = 1..Len(lines) \cup {Len(lines) + 1}
      BY <2>1
    <2> QED
      BY <2>1, <2>2
  <1>4. ASSUME NEW x \in Boot!Printed(V)'
        PROVE  x \in Boot!Printed(V) \/ (v \in V /\ x = j)
    <2>1. PICK k \in DOMAIN lines' : lines'[k][2] \in V /\ x = lines'[k][1]
      BY <1>4 DEF Boot!Printed
    <2>2. CASE k \in DOMAIN lines
      BY <1>3, <2>1, <2>2 DEF Boot!Printed
    <2>3. CASE k = Len(lines) + 1
      BY <1>2, <1>3, <2>1, <2>3
    <2> QED
      BY <1>3, <2>1, <2>2, <2>3
  <1>5. ASSUME NEW x \in Boot!Printed(V) \cup (IF v \in V THEN {j} ELSE {})
        PROVE  x \in Boot!Printed(V)'
    <2>1. CASE x \in Boot!Printed(V)
      <3>1. PICK k \in DOMAIN lines : lines[k][2] \in V /\ x = lines[k][1]
        BY <2>1 DEF Boot!Printed
      <3>2. k \in DOMAIN lines' /\ lines'[k][2] \in V /\ x = lines'[k][1]
        BY <1>3, <3>1
      <3> QED
        BY <3>2 DEF Boot!Printed
    <2>2. CASE v \in V /\ x = j
      <3>1. Len(lines) + 1 \in DOMAIN lines' /\ lines'[Len(lines) + 1][2] \in V /\ x = lines'[Len(lines) + 1][1]
        BY <1>2, <1>3, <2>2
      <3> QED
        BY <3>1 DEF Boot!Printed
    <2> QED
      BY <1>5, <2>1, <2>2
  <1> QED
    BY <1>4, <1>5

\* The tests of LTP printed with a verdict of V.
LtpPrinted(V) == {j \in Boot!Printed(V) : j.kind = "ltp"}
Counts == {{"PASS"}, {"FAIL"}, {"SKIP", "SKIP (timeout)"}, {"PASS", "FAIL", "SKIP", "SKIP (timeout)"}}

\* The totals are the numbers of tests printed, and those are finitely many.
TallyInv ==
  /\ \A V \in Counts : IsFiniteSet(LtpPrinted(V))
  /\ tally.pass = Cardinality(LtpPrinted({"PASS"})) /\ tally.fail = Cardinality(LtpPrinted({"FAIL"}))
  /\ tally.skip = Cardinality(LtpPrinted({"SKIP", "SKIP (timeout)"}))
  /\ tally.total = Cardinality(LtpPrinted({"PASS", "FAIL", "SKIP", "SKIP (timeout)"}))

\* One more line adds the test to those printed with its verdict, once.
LEMMA OneMore ==
  ASSUME OnceInv, TallyInv, jobs # <<>>, NEW v \in Verdicts, lines' = Append(lines, <<Boot!This, v>>),
         NEW V \in Counts
  PROVE  LET more == Boot!This.kind = "ltp" /\ v \in V IN
         /\ IsFiniteSet(LtpPrinted(V)')
         /\ Cardinality(LtpPrinted(V)') = Cardinality(LtpPrinted(V)) + (IF more THEN 1 ELSE 0)
  <1> DEFINE this == Boot!This
             P == LtpPrinted(V)
  <1>1. Boot!Printed(V)' = Boot!Printed(V) \cup (IF v \in V THEN {this} ELSE {})
    <2>1. this \in Boot!AllJobs
      BY ThisIsFirst
    <2> QED
      BY <2>1, PrintedAppend DEF OnceInv
  <1>2. this \notin Boot!Printed(V)
    BY ThisIsFirst DEF Boot!Printed
  <1>3. LtpPrinted(V)' = P \cup (IF this.kind = "ltp" /\ v \in V THEN {this} ELSE {})
    BY <1>1 DEF LtpPrinted
  <1>4. IsFiniteSet(P) /\ this \notin P
    BY <1>2 DEF TallyInv, LtpPrinted
  <1>5. Cardinality(P) \in Nat
    BY <1>4, FS_CardinalityType
  <1> HIDE DEF P
  <1>6. CASE this.kind = "ltp" /\ v \in V
    <2>1. IsFiniteSet(P \cup {this}) /\ Cardinality(P \cup {this}) = Cardinality(P) + 1
      BY <1>4, FS_AddElement
    <2> QED
      BY <1>3, <1>6, <2>1 DEF P
  <1>7. CASE ~(this.kind = "ltp" /\ v \in V)
    <2>1. LtpPrinted(V)' = P
      BY <1>3, <1>7
    <2> QED
      BY <1>4, <1>5, <1>7, <2>1 DEF P
  <1> QED
    BY <1>6, <1>7

\* Printing a verdict and counting it keeps the totals true.
LEMMA TallyNext ==
  ASSUME OnceInv, TallyInv, jobs # <<>>, NEW v \in Verdicts, NEW c \in {"none", "pass", "fail", "skip"},
         lines' = Append(lines, <<Boot!This, v>>),
         IF c = "none" THEN tally' = tally ELSE Boot!Count(c),
         c = IF Boot!This.kind = "ltp" THEN Boot!Counted(v) ELSE "none"
  PROVE  TallyInv' /\ tally' \in [pass : Int, fail : Int, skip : Int, total : Int]
  <1> DEFINE ltp == Boot!This.kind = "ltp"
             Plus(V) == IF ltp /\ v \in V THEN 1 ELSE 0
  <1>1. \A V \in Counts : IsFiniteSet(LtpPrinted(V)') /\ Cardinality(LtpPrinted(V)') = Cardinality(LtpPrinted(V)) + Plus(V)
    BY OneMore
  <1>2. tally \in [pass : Int, fail : Int, skip : Int, total : Int]
    BY DEF OnceInv, BootTypes
  <1>3. /\ tally'.pass = tally.pass + (IF c = "pass" THEN 1 ELSE 0)
        /\ tally'.fail = tally.fail + (IF c = "fail" THEN 1 ELSE 0)
        /\ tally'.skip = tally.skip + (IF c = "skip" THEN 1 ELSE 0)
        /\ tally'.total = tally.total + (IF c = "none" THEN 0 ELSE 1)
        /\ tally' \in [pass : Int, fail : Int, skip : Int, total : Int]
    <2>0. tally.pass \in Int /\ tally.fail \in Int /\ tally.skip \in Int /\ tally.total \in Int
      BY <1>2
    <2>1. CASE c = "none"
      <3>1. tally' = tally
        BY <2>1
      <3> QED
        BY <1>2, <2>0, <2>1, <3>1
    <2>2. CASE c # "none"
      <3>1. Boot!Count(c)
        BY <2>2
      <3>2. tally' = [pass |-> tally.pass + (IF c = "pass" THEN 1 ELSE 0),
                      fail |-> tally.fail + (IF c = "fail" THEN 1 ELSE 0),
                      skip |-> tally.skip + (IF c = "skip" THEN 1 ELSE 0), total |-> tally.total + 1]
        BY <1>2, <3>1 DEF Boot!Count
      <3> QED
        BY <2>0, <2>2, <3>2
    <2> QED
      BY <2>1, <2>2
  <1>4. /\ (IF c = "pass" THEN 1 ELSE 0) = Plus({"PASS"})
        /\ (IF c = "fail" THEN 1 ELSE 0) = Plus({"FAIL"})
        /\ (IF c = "skip" THEN 1 ELSE 0) = Plus({"SKIP", "SKIP (timeout)"})
        /\ (IF c = "none" THEN 0 ELSE 1) = Plus({"PASS", "FAIL", "SKIP", "SKIP (timeout)"})
    BY DEF Boot!Counted, Verdicts
  <1>5. {"PASS"} \in Counts /\ {"FAIL"} \in Counts /\ {"SKIP", "SKIP (timeout)"} \in Counts
        /\ {"PASS", "FAIL", "SKIP", "SKIP (timeout)"} \in Counts
    BY DEF Counts
  <1> HIDE DEF Plus, ltp
  <1>6. tally'.pass = Cardinality(LtpPrinted({"PASS"})')
    <2>1. Cardinality(LtpPrinted({"PASS"})') = Cardinality(LtpPrinted({"PASS"})) + Plus({"PASS"})
      BY <1>1, <1>5
    <2>2. tally.pass = Cardinality(LtpPrinted({"PASS"}))
      BY DEF TallyInv
    <2> QED
      BY <1>3, <1>4, <2>1, <2>2
  <1>7. tally'.fail = Cardinality(LtpPrinted({"FAIL"})')
    <2>1. Cardinality(LtpPrinted({"FAIL"})') = Cardinality(LtpPrinted({"FAIL"})) + Plus({"FAIL"})
      BY <1>1, <1>5
    <2>2. tally.fail = Cardinality(LtpPrinted({"FAIL"}))
      BY DEF TallyInv
    <2> QED
      BY <1>3, <1>4, <2>1, <2>2
  <1>8. tally'.skip = Cardinality(LtpPrinted({"SKIP", "SKIP (timeout)"})')
    <2>1. Cardinality(LtpPrinted({"SKIP", "SKIP (timeout)"})')
          = Cardinality(LtpPrinted({"SKIP", "SKIP (timeout)"})) + Plus({"SKIP", "SKIP (timeout)"})
      BY <1>1, <1>5
    <2>2. tally.skip = Cardinality(LtpPrinted({"SKIP", "SKIP (timeout)"}))
      BY DEF TallyInv
    <2> QED
      BY <1>3, <1>4, <2>1, <2>2
  <1>9. tally'.total = Cardinality(LtpPrinted({"PASS", "FAIL", "SKIP", "SKIP (timeout)"})')
    <2>1. Cardinality(LtpPrinted({"PASS", "FAIL", "SKIP", "SKIP (timeout)"})')
          = Cardinality(LtpPrinted({"PASS", "FAIL", "SKIP", "SKIP (timeout)"})) + Plus({"PASS", "FAIL", "SKIP", "SKIP (timeout)"})
      BY <1>1, <1>5
    <2>2. tally.total = Cardinality(LtpPrinted({"PASS", "FAIL", "SKIP", "SKIP (timeout)"}))
      BY DEF TallyInv
    <2> QED
      BY <1>3, <1>4, <2>1, <2>2
  <1> QED
    BY <1>1, <1>3, <1>6, <1>7, <1>8, <1>9 DEF TallyInv

\* Nothing printed, nothing counted.
LEMMA TallyKept ==
  ASSUME TallyInv, UNCHANGED <<lines, tally>>
  PROVE  TallyInv'
  <1>1. ASSUME NEW V \in Counts
        PROVE  LtpPrinted(V)' = LtpPrinted(V)
    <2>1. Boot!Printed(V)' = Boot!Printed(V)
      BY DEF Boot!Printed
    <2> QED
      BY <2>1 DEF LtpPrinted
  <1>2. {"PASS"} \in Counts /\ {"FAIL"} \in Counts /\ {"SKIP", "SKIP (timeout)"} \in Counts
        /\ {"PASS", "FAIL", "SKIP", "SKIP (timeout)"} \in Counts
    BY DEF Counts
  <1>3. \A V \in Counts : IsFiniteSet(LtpPrinted(V)')
    BY <1>1 DEF TallyInv
  <1>4. tally' = tally
    OBVIOUS
  <1>5. tally.pass = Cardinality(LtpPrinted({"PASS"})')
    BY <1>1, <1>2 DEF TallyInv
  <1>6. tally.fail = Cardinality(LtpPrinted({"FAIL"})')
    BY <1>1, <1>2 DEF TallyInv
  <1>7. tally.skip = Cardinality(LtpPrinted({"SKIP", "SKIP (timeout)"})')
    BY <1>1, <1>2 DEF TallyInv
  <1>8. tally.total = Cardinality(LtpPrinted({"PASS", "FAIL", "SKIP", "SKIP (timeout)"})')
    BY <1>1, <1>2 DEF TallyInv
  <1> QED
    BY <1>3, <1>4, <1>5, <1>6, <1>7, <1>8 DEF TallyInv

\* A step that leaves the variables of the init programs leaves the invariant.
LEMMA BootRests ==
  ASSUME BootInv, TallyInv, UNCHANGED <<init, jobs, pc, procs, result, tally, lines, real>>
  PROVE  BootInv' /\ TallyInv'
  <1>1. BootTypes' /\ ToBeRun'
    BY DEF BootInv, OnceInv, BootTypes, ToBeRun, NoSelfTest
  <1>2. Boot!This' = Boot!This /\ Boot!TIMEOUT' = Boot!TIMEOUT
    BY DEF Boot!This, Boot!TIMEOUT
  <1>3. (Boot!Answer(real[Boot!This]))' = Boot!Answer(real[Boot!This])
    BY <1>2 DEF Boot!Answer
  <1>4. Alone'
    BY <1>2 DEF BootInv, OnceInv, Alone
  <1>5. AtHand'
    BY <1>2, <1>3 DEF BootInv, OnceInv, AtHand
  <1>6. Truth'
    BY DEF BootInv, Truth
  <1>7. TallyInv'
    BY TallyKept
  <1> QED
    BY <1>1, <1>4, <1>5, <1>6, <1>7 DEF BootInv, OnceInv

\* The invariant over the loops of main().
LEMMA MainStep ==
  ASSUME BootInv, TallyInv, Boot!Skip \/ Boot!Report \/ Boot!PowerOff \/ Boot!Off
  PROVE  BootInv' /\ TallyInv'
  <1>0. OnceInv /\ BootTypes /\ Truth
    BY DEF BootInv, OnceInv
  <1>1. CASE Boot!Report
    <2> DEFINE v == Boot!Verdict
               c == IF Boot!This.kind = "ltp" THEN Boot!Counted(v) ELSE "none"
    <2>1. /\ pc = "report" /\ UNCHANGED <<init, procs, real>> /\ pc' = "next" /\ jobs' = Tail(jobs)
          /\ lines' = Append(lines, <<Boot!This, v>>)
          /\ IF c = "none" THEN tally' = tally ELSE Boot!Count(c)
      BY <1>1 DEF Boot!Report, Boot!NextJob
    <2>2. jobs # <<>>
      BY <1>0, <2>1 DEF OnceInv, AtHand
    <2>3. /\ v \in Verdicts /\ (v = "PASS" => real[Boot!This] = Boot!Exited(0))
          /\ (v \in Failures => real[Boot!This] # Boot!Exited(0))
      BY <1>0, <2>1, VerdictTrue
    <2>4. c \in {"none", "pass", "fail", "skip"}
      BY DEF Boot!Counted
    <2>5. TallyInv' /\ tally' \in [pass : Int, fail : Int, skip : Int, total : Int]
      BY <1>0, <2>1, <2>2, <2>3, <2>4, TallyNext
    <2> HIDE DEF v, c
    <2>6. BootInv'
      BY <2>1, <2>2, <2>3, <2>5, NextKeeps
    <2> QED
      BY <2>5, <2>6
  <1>2. CASE Boot!Skip /\ Boot!Skipped
    <2> DEFINE c == IF Boot!This.kind = "ltp" THEN "skip" ELSE "none"
    <2>1. /\ pc = "next" /\ jobs # <<>> /\ UNCHANGED <<init, procs, real>> /\ pc' = "next" /\ jobs' = Tail(jobs)
          /\ lines' = Append(lines, <<Boot!This, "SKIP">>)
          /\ IF c = "none" THEN tally' = tally ELSE Boot!Count(c)
      BY <1>2 DEF Boot!Skip, Boot!NextJob
    <2>2. "SKIP" \in Verdicts /\ "SKIP" \notin Failures /\ Boot!Counted("SKIP") = "skip"
      BY DEF Verdicts, Failures, Boot!Counted
    <2>3. c \in {"none", "pass", "fail", "skip"} /\ c = IF Boot!This.kind = "ltp" THEN Boot!Counted("SKIP") ELSE "none"
      BY <2>2
    <2> HIDE DEF c
    <2>4. TallyInv' /\ tally' \in [pass : Int, fail : Int, skip : Int, total : Int]
      BY <1>0, <2>1, <2>2, <2>3, TallyNext
    <2>5. BootInv'
      BY <2>1, <2>2, <2>4, NextKeeps
    <2> QED
      BY <2>4, <2>5
  <1>3. CASE Boot!Skip /\ ~Boot!Skipped
    <2>1. /\ pc = "next" /\ jobs # <<>> /\ UNCHANGED <<init, procs, real, lines, tally, pc>> /\ jobs' = Tail(jobs)
      BY <1>3 DEF Boot!Skip
    <2>2. "SKIP" \in Verdicts /\ "SKIP" \notin Failures
      BY DEF Verdicts, Failures
    <2>3. tally' \in [pass : Int, fail : Int, skip : Int, total : Int]
      BY <1>0, <2>1 DEF BootTypes
    <2>4. BootInv'
      BY <2>1, <2>2, <2>3, NextKeeps
    <2>5. TallyInv'
      BY <2>1, TallyKept
    <2> QED
      BY <2>4, <2>5
  <1>4. CASE Boot!PowerOff
    <2>1. jobs = <<>> /\ pc = "next" /\ pc' = "off" /\ UNCHANGED <<init, jobs, procs, tally, lines, real>>
      BY <1>4 DEF Boot!PowerOff
    <2>2. DOMAIN jobs = {}
      BY <2>1
    <2>3. BootTypes' /\ ToBeRun' /\ Alone' /\ AtHand'
      BY <1>0, <2>1, <2>2 DEF OnceInv, BootTypes, ToBeRun, NoSelfTest, Alone, AtHand
    <2>4. Truth' /\ TallyInv'
      BY <1>0, <2>1, TallyKept DEF Truth
    <2> QED
      BY <2>3, <2>4 DEF BootInv, OnceInv
  <1>5. CASE Boot!Off
    BY <1>5, BootRests DEF Boot!Off, Boot!vars
  <1> QED
    BY <1>1, <1>2, <1>3, <1>4, <1>5

\* The invariant of the init programs: what is still to be run, the process
\* at hand, how each test ended and what was printed and counted agree.
THEOREM BootInductive == UserSpec => [](BootInv /\ TallyInv)
  <1>1. UserInit => BootInv /\ TallyInv
    <2>1. UserInit => BootInv
      BY BootInit, BootAssumption DEF UserInit
    <2>2. ASSUME UserInit PROVE TallyInv
      <3>1. lines = <<>> /\ tally = [pass |-> 0, fail |-> 0, skip |-> 0, total |-> 0]
        BY <2>2 DEF UserInit, Boot!Init
      <3>2. DOMAIN lines = {}
        BY <3>1
      <3>3. \A V : LtpPrinted(V) = {}
        BY <3>2 DEF LtpPrinted, Boot!Printed
      <3> QED
        BY <3>1, <3>3, FS_EmptySet DEF TallyInv
    <2> QED
      BY <2>1, <2>2
  <1>2. ASSUME BootInv, TallyInv, [UserNext]_allvars PROVE BootInv' /\ TallyInv'
    <2>1. CASE UNCHANGED bootvars
      BY <1>2, <2>1, BootRests DEF bootvars
    <2>2. CASE Boot!Fork \/ Boot!Poll \/ Boot!Kill \/ Boot!Wait
      <3>1. UNCHANGED <<lines, tally>>
        BY <2>2 DEF Boot!Fork, Boot!Poll, Boot!Kill, Boot!Wait
      <3>2. TallyInv'
        BY <1>2, <3>1, TallyKept
      <3> QED
        BY <1>2, <2>2, <3>2, RunStep
    <2>3. ASSUME NEW j \in Boot!AllJobs, Boot!Ends(j) \/ Boot!Dies(j)
          PROVE  BootInv' /\ TallyInv'
      <3>1. UNCHANGED <<lines, tally>>
        BY <2>3 DEF Boot!Ends, Boot!Dies
      <3>2. TallyInv'
        BY <1>2, <3>1, TallyKept
      <3> QED
        BY <1>2, <2>3, <3>2, EndStep, BootAssumption
    <2>4. CASE Boot!Skip \/ Boot!Report \/ Boot!PowerOff \/ Boot!Off
      BY <1>2, <2>4, MainStep
    <2>5. CASE BootNext
      BY <2>2, <2>3, <2>4, <2>5 DEF BootNext, Boot!Next, Boot!Supervise
    <2> QED
      BY <1>2, <2>1, <2>5 DEF UserNext, TestsNext, HeapNext, allvars
  <1> QED
    BY <1>1, <1>2, PTL DEF UserSpec

\* Whatever the tests do and whenever they end, an init has at most one
\* process of theirs: it has seen the last one gone, killed or not, before it
\* starts the next (run_timeout() of init-microblaze.c, run() of
\* sh4-ltp-init.c).
THEOREM OneTestAtATime == UserSpec => []OneAtATime
  <1>1. BootInv => OneAtATime
    <2> SUFFICES ASSUME BootInv PROVE OneAtATime
      OBVIOUS
    <2> DEFINE P == {j \in Boot!AllJobs : procs[j] # Boot!NONE}
    <2>1. \A i, j \in P : i = j
      BY DEF BootInv, OnceInv, Alone
    <2> HIDE DEF P
    <2>2. CASE P = {}
      <3>1. Cardinality(P) = 0
        BY <2>2, FS_EmptySet
      <3> QED
        BY <3>1, SameCardinality DEF P, OneAtATime, Boot!OneAtATime
    <2>3. ASSUME NEW j \in P PROVE OneAtATime
      <3>1. P = {j}
        BY <2>1
      <3>2. Cardinality(P) = 1
        BY <3>1, FS_Singleton
      <3> QED
        BY <3>2, SameCardinality DEF P, OneAtATime, Boot!OneAtATime
    <2> QED
      BY <2>2, <2>3
  <1> QED
    BY <1>1, BootInductive, PTL

\* An init prints PASS of a test that ended with status 0 before it was killed
\* and of no other, never FAIL, a timeout or NOTFOUND of such a test, and its
\* totals are the numbers of LTP tests it has printed as passed, failed and
\* skipped, however many tests there are and whatever they do (the loops of
\* main()).
THEOREM TalliesTrue == UserSpec => []TalliesAreTrue
  <1>1. ASSUME BootInv PROVE Boot!PassIsPass
    <2>1. ASSUME NEW V, NEW j \in Boot!Printed(V)
          PROVE  \E k \in DOMAIN lines : lines[k][2] \in V /\ j = lines[k][1]
      BY DEF Boot!Printed
    <2>2. ASSUME NEW j \in Boot!Printed({"PASS"}) PROVE real[j] = Boot!Exited(0)
      BY <1>1, <2>1 DEF BootInv, Truth
    <2>3. ASSUME NEW j \in Boot!Printed(Failures) PROVE real[j] # Boot!Exited(0)
      BY <1>1, <2>1 DEF BootInv, Truth
    <2> QED
      BY <2>2, <2>3 DEF Boot!PassIsPass, Failures
  <1>2. TallyInv => Boot!TalliesAddUp
    BY SameCardinality DEF TallyInv, Boot!TalliesAddUp, LtpPrinted
  <1> QED
    BY <1>1, <1>2, BootInductive, PTL DEF TalliesAreTrue

----------------------------------------------------------------------------
(* The heap of the small C library                                          *)

\* No request is so large that rounding it up, or adding it to an address of
\* the heap, wraps around the address space: malloc does not test for that.
NoWrap == \A n \in Sizes : n + 15 < 2^W /\ Limit + Heap!align16(n) < 2^W

\* The heap ends where the break is, or where it was when test_brk took over,
\* and the blocks lie in it, each of them behind the others.
HeapInv ==
  /\ brk \in Base..Limit /\ orig \in {0} \cup Base..Limit /\ cur \in Int
  /\ __heap_start \in Int /\ __heap_end \in Int
  /\ __heap_start = 0 => blocks = {}
  /\ __heap_start # 0 => __heap_end \in Base..Limit /\ __heap_end = IF orig = 0 THEN brk ELSE orig
  /\ orig # 0 => orig <= cur /\ cur = brk
  /\ \A b \in blocks : b[1] \in Int /\ b[2] \in Nat /\ Base <= b[1] /\ b[1] + b[2] <= __heap_end
  /\ \A b, c \in blocks : b # c => Heap!Bytes(b) \cap Heap!Bytes(c) = {}
  /\ ~lacked

\* What is smaller than the modulus is not changed by it.
LEMMA ModSmall ==
  ASSUME NEW x \in Nat, NEW m \in Nat, x < m
  PROVE  x % m = x
  OBVIOUS

\* A size is rounded up by less than 16 bytes.
LEMMA AlignUp ==
  ASSUME NoWrap, NEW n \in Sizes
  PROVE  /\ Heap!align16(n) \in Nat /\ n <= Heap!align16(n) /\ Heap!align16(n) <= n + 15
         /\ \A a \in Base..Limit : Heap!Wrapped(a + Heap!align16(n)) = a + Heap!align16(n)
  <1> DEFINE m == 2^W
  <1>1. m \in Nat /\ Base \in Nat /\ Limit \in Nat /\ n \in Nat
    BY HeapAssumption DEF HeapAssumption
  <1>2. n + 15 < m /\ Limit + Heap!align16(n) < m
    BY DEF NoWrap
  <1> HIDE DEF m
  <1>3. Heap!Wrapped(n + 15) = n + 15
    <2>1. (n + 15) % m = n + 15
      BY <1>1, <1>2, ModSmall
    <2> QED
      BY <2>1 DEF Heap!Wrapped, m
  <1>4. Heap!align16(n) = (n + 15) - ((n + 15) % 16)
    BY <1>3 DEF Heap!align16
  <1>5. (n + 15) % 16 \in 0..15 /\ (n + 15) % 16 <= n + 15
    BY <1>1
  <1>6. Heap!align16(n) \in Nat /\ n <= Heap!align16(n) /\ Heap!align16(n) <= n + 15
    BY <1>1, <1>4, <1>5
  <1>7. ASSUME NEW a \in Base..Limit
        PROVE  Heap!Wrapped(a + Heap!align16(n)) = a + Heap!align16(n)
    <2>1. a + Heap!align16(n) \in Nat /\ a + Heap!align16(n) < m
      BY <1>1, <1>2, <1>6
    <2>2. (a + Heap!align16(n)) % m = a + Heap!align16(n)
      BY <1>1, <2>1, ModSmall
    <2> QED
      BY <2>2 DEF Heap!Wrapped, m
  <1> QED
    BY <1>6, <1>7

\* malloc keeps the heap sound.
LEMMA MallocStep ==
  ASSUME NoWrap, HeapInv, NEW n \in Sizes, Heap!malloc(n)
  PROVE  HeapInv'
  <1> DEFINE first == IF __heap_start = 0 THEN Heap!sys_brk(0) ELSE __heap_end
             size == Heap!align16(n)
  <1>1. Base \in Nat \ {0} /\ Limit \in Nat /\ n \in Nat /\ brk \in Base..Limit
    BY HeapAssumption DEF HeapAssumption, HeapInv
  <1>2. orig = 0 /\ UNCHANGED <<orig, cur>>
    BY DEF Heap!malloc
  <1>3. first = brk /\ first \in Base..Limit /\ first # 0
    <2>1. Heap!sys_brk(0) = brk
      BY <1>1 DEF Heap!sys_brk
    <2> QED
      BY <1>1, <1>2, <2>1 DEF HeapInv
  <1>4. /\ size \in Nat /\ n <= size /\ size <= n + 15
        /\ Heap!Wrapped(first + size) = first + size
    BY <1>3, AlignUp
  <1>5. /\ __heap_start' = IF __heap_start = 0 THEN first ELSE __heap_start
        /\ brk' = IF first + size \in Base..Limit THEN first + size ELSE brk
        /\ IF first + size > brk'
           THEN lacked' = (lacked \/ brk + n + 15 <= Limit) /\ __heap_end' = first /\ UNCHANGED blocks
           ELSE blocks' = blocks \cup {<<first, n>>} /\ __heap_end' = first + size /\ UNCHANGED <<nulls, lacked>>
    BY <1>4 DEF Heap!malloc, Heap!sys_brk
  <1> HIDE DEF first, size
  <1>6. __heap_start' # 0 /\ __heap_start' \in Int
    BY <1>1, <1>3, <1>5 DEF HeapInv
  <1>7. \A b \in blocks : b[1] \in Int /\ b[2] \in Nat /\ Base <= b[1] /\ b[1] + b[2] <= first
    <2>1. __heap_start # 0 => __heap_end = first
      BY <1>2, <1>3 DEF HeapInv
    <2> QED
      BY <2>1 DEF HeapInv
  <1>8. CASE first + size \notin Base..Limit
    <2>1. brk' = brk /\ first + size > brk' /\ first + size > Limit
      BY <1>1, <1>3, <1>4, <1>5, <1>8
    <2>2. /\ lacked' = (lacked \/ brk + n + 15 <= Limit) /\ __heap_end' = first /\ UNCHANGED blocks
      BY <1>5, <2>1
    <2>3. ~(brk + n + 15 <= Limit)
      BY <1>1, <1>3, <1>4, <2>1
    <2>4. ~lacked'
      BY <2>2, <2>3 DEF HeapInv
    <2>5. /\ brk' \in Base..Limit /\ orig' \in {0} \cup Base..Limit /\ cur' \in Int
          /\ __heap_start' \in Int /\ __heap_end' \in Int
          /\ __heap_end' \in Base..Limit /\ __heap_end' = IF orig' = 0 THEN brk' ELSE orig'
      BY <1>1, <1>2, <1>3, <1>6, <2>1, <2>2 DEF HeapInv
    <2>6. \A b \in blocks' : b[1] \in Int /\ b[2] \in Nat /\ Base <= b[1] /\ b[1] + b[2] <= __heap_end'
      BY <1>7, <2>2
    <2>7. \A b, c \in blocks' : b # c => Heap!Bytes(b) \cap Heap!Bytes(c) = {}
      BY <2>2 DEF HeapInv
    <2> QED
      BY <1>2, <1>6, <2>4, <2>5, <2>6, <2>7 DEF HeapInv, Heap!Bytes
  <1>9. CASE first + size \in Base..Limit
    <2>1. brk' = first + size /\ ~(first + size > brk')
      BY <1>1, <1>3, <1>4, <1>5, <1>9
    <2>2. blocks' = blocks \cup {<<first, n>>} /\ __heap_end' = first + size /\ lacked' = lacked
      BY <1>5, <2>1
    <2>3. ~lacked'
      BY <2>2, Zenon DEF HeapInv
    <2>4. /\ brk' \in Base..Limit /\ orig' \in {0} \cup Base..Limit /\ cur' \in Int
          /\ __heap_start' \in Int /\ __heap_end' \in Int
          /\ __heap_end' \in Base..Limit /\ __heap_end' = IF orig' = 0 THEN brk' ELSE orig'
      BY <1>1, <1>2, <1>6, <1>9, <2>1, <2>2 DEF HeapInv
    <2>5. ASSUME NEW b \in blocks'
          PROVE  b[1] \in Int /\ b[2] \in Nat /\ Base <= b[1] /\ b[1] + b[2] <= __heap_end'
      <3>1. CASE b \in blocks
        BY <1>1, <1>3, <1>4, <1>7, <2>2, <3>1
      <3>2. CASE b = <<first, n>>
        BY <1>1, <1>3, <1>4, <2>2, <3>2
      <3> QED
        BY <2>2, <3>1, <3>2
    <2>6. ASSUME NEW b \in blocks PROVE Heap!Bytes(b) \cap Heap!Bytes(<<first, n>>) = {}
      BY <1>1, <1>3, <1>7 DEF Heap!Bytes
    <2>7. ASSUME NEW b \in blocks', NEW c \in blocks', b # c
          PROVE  Heap!Bytes(b) \cap Heap!Bytes(c) = {}
      <3>1. CASE b \in blocks /\ c \in blocks
        BY <2>7, <3>1 DEF HeapInv
      <3>2. CASE b \in blocks /\ c = <<first, n>>
        BY <2>6, <3>2
      <3>3. CASE b = <<first, n>> /\ c \in blocks
        BY <2>6, <3>3
      <3> QED
        BY <2>2, <2>7, <3>1, <3>2, <3>3
    <2> QED
      BY <1>2, <1>6, <2>3, <2>4, <2>5, <2>7 DEF HeapInv, Heap!Bytes
  <1> QED
    BY <1>8, <1>9

\* test_brk, moving the same break, keeps the heap sound.
LEMMA BrkStep ==
  ASSUME HeapInv, Heap!BrkOf \/ Heap!BrkGrow \/ Heap!BrkBack
  PROVE  HeapInv'
  <1>1. Base \in Nat \ {0} /\ Limit \in Nat /\ PageSize \in Nat \ {0} /\ brk \in Base..Limit
    BY HeapAssumption DEF HeapAssumption, HeapInv
  <1>2. UNCHANGED <<__heap_start, __heap_end, blocks, lacked>>
    BY DEF Heap!BrkOf, Heap!BrkGrow, Heap!BrkBack
  <1>3. ~lacked'
    BY <1>2, Zenon DEF HeapInv
  <1>4. /\ \A b \in blocks' : b[1] \in Int /\ b[2] \in Nat /\ Base <= b[1] /\ b[1] + b[2] <= __heap_end'
        /\ \A b, c \in blocks' : b # c => Heap!Bytes(b) \cap Heap!Bytes(c) = {}
    BY <1>2 DEF HeapInv
  <1>5. SUFFICES /\ brk' \in Base..Limit /\ orig' \in {0} \cup Base..Limit /\ cur' \in Int
                 /\ __heap_start # 0 => __heap_end = IF orig' = 0 THEN brk' ELSE orig'
                 /\ orig' # 0 => orig' <= cur' /\ cur' = brk'
    BY <1>2, <1>3, <1>4, <1>5 DEF HeapInv, Heap!Bytes
  <1>6. CASE Heap!BrkOf
    <2>1. Heap!sys_brk(0) = brk
      BY <1>1 DEF Heap!sys_brk
    <2>2. orig = 0 /\ orig' = brk /\ cur' = brk /\ brk' = brk
      BY <1>6, <2>1 DEF Heap!BrkOf
    <2> QED
      BY <1>1, <2>2 DEF HeapInv
  <1>7. CASE Heap!BrkGrow
    <2>1. orig # 0 /\ orig' = orig /\ cur' = brk' /\ brk' = cur + PageSize
          /\ brk' = IF cur + PageSize \in Base..Limit THEN cur + PageSize ELSE brk
      BY <1>7 DEF Heap!BrkGrow, Heap!sys_brk
    <2>2. orig <= cur /\ cur = brk
      BY <2>1 DEF HeapInv
    <2>3. brk' \in Base..Limit
      BY <1>1, <2>1
    <2> QED
      BY <1>1, <2>1, <2>2, <2>3 DEF HeapInv
  <1>8. CASE Heap!BrkBack
    <2>1. orig \in Base..Limit /\ orig # 0
      BY <1>8 DEF Heap!BrkBack, HeapInv
    <2>2. brk' = orig /\ orig' = 0 /\ cur' = 0
      BY <1>8, <2>1 DEF Heap!BrkBack, Heap!sys_brk
    <2> QED
      BY <1>1, <2>1, <2>2 DEF HeapInv
  <1> QED
    BY <1>6, <1>7, <1>8

\* A step of another kind of program, or free(), leaves the heap.
LEMMA HeapRests ==
  ASSUME HeapInv, UNCHANGED heapvars
  PROVE  HeapInv'
  <1>1. UNCHANGED <<brk, __heap_start, __heap_end, blocks, orig, cur, lacked>>
    BY DEF heapvars
  <1>2. ~lacked'
    BY <1>1, Zenon DEF HeapInv
  <1> QED
    BY <1>1, <1>2 DEF HeapInv, Heap!Bytes

\* However malloc and test_brk take turns, the blocks of the heap do not
\* overlap and lie below the break, and a request is refused only when it does
\* not fit, for requests that do not wrap (malloc() of hppa64-minilib.h, which
\* moves the break, and test_brk() of pgcl-test-hppa64.c, which moves it too).
THEOREM HeapSound ==
  ASSUME NoWrap
  PROVE  UserSpec => []HeapIsSound
  <1>1. UserInit => HeapInv
    <2>1. Base \in Base..Limit
      BY HeapAssumption DEF HeapAssumption
    <2> QED
      BY <2>1 DEF UserInit, Heap!Init, HeapInv
  <1>2. ASSUME HeapInv, [UserNext]_allvars PROVE HeapInv'
    <2>1. CASE UNCHANGED heapvars
      BY <1>2, <2>1, HeapRests
    <2>2. ASSUME NEW n \in Sizes, Heap!malloc(n) PROVE HeapInv'
      BY <1>2, <2>2, MallocStep
    <2>3. CASE Heap!BrkOf \/ Heap!BrkGrow \/ Heap!BrkBack
      BY <1>2, <2>3, BrkStep
    <2>4. Heap!free => UNCHANGED heapvars
      BY DEF Heap!free, Heap!vars, heapvars
    <2>5. CASE HeapNext
      BY <2>1, <2>2, <2>3, <2>4, <2>5 DEF HeapNext, Heap!Next
    <2> QED
      BY <1>2, <2>1, <2>5 DEF UserNext, TestsNext, BootNext, allvars
  <1>3. ASSUME HeapInv PROVE HeapIsSound
    <2>1. /\ Base \in Nat \ {0} /\ brk \in Base..Limit /\ Limit \in Nat
          /\ orig # 0 => orig <= cur /\ cur = brk /\ orig \in Base..Limit
      BY <1>3, HeapAssumption DEF HeapAssumption, HeapInv
    <2>2. ASSUME NEW b \in blocks
          PROVE  /\ Base <= b[1] /\ b[1] \in Int /\ b[2] \in Nat /\ b[1] + b[2] <= brk
                 /\ orig # 0 => b[1] + b[2] <= orig
      BY <1>3, <2>1 DEF HeapInv
    <2>3. \A b \in blocks : Heap!Bytes(b) \subseteq Base..(brk - 1)
      BY <2>1, <2>2 DEF Heap!Bytes
    <2> QED
      BY <1>3, <2>1, <2>2, <2>3 DEF HeapInv, HeapIsSound, Heap!BlocksAreMemory, Heap!RefusedForRoom
  <1> QED
    BY <1>1, <1>2, <1>3, PTL DEF UserSpec
=============================================================================
