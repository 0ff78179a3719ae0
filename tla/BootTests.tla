------------------------------ MODULE BootTests ------------------------------
(***************************************************************************)
(* The two init programs that run the tests one after the other, each with *)
(* a timeout, and count the results: init-microblaze.c and sh4-ltp-init.c  *)
(* of src/userspace.                                                       *)
(***************************************************************************)
EXTENDS Integers, Sequences, FiniteSets

CONSTANTS Inits,      \* the programs to try, of "microblaze" and "sh4"
          SelfTests,  \* names (numbers) in /bin/mm-selftests
          LtpTests,   \* names in /bin/ltp
          Listed,     \* names on the lists of tests to skip
          NotRunnable,\* names that are not executable, or of object files
          NameLimit,  \* names sh4 has room for (256)
          Polls,      \* bound: polls before the timeout (600 to 3000)
          ExitCodes, Signals

VARIABLES init,     \* which program runs
          jobs,     \* what it has still to run
          pc,       \* "next", "poll", "wait", "report", "off"
          polls,    \* polls left
          procs,    \* job -> NONE, RUNNING, KILLED or its wait status
          result,   \* of run_timeout and run
          tally,    \* its counters
          lines,    \* what it has printed: <<job, verdict>>
          real      \* job -> how it ended: NONE (not run, running), KILLED or its wait status
vars == <<init, jobs, pc, polls, procs, result, tally, lines, real>>

----------------------------------------------------------------------------
(* Jobs.                                                                    *)

SIGKILL == 9
NONE == -1
RUNNING == -2
KILLED == -3
Job(kind, name) == [kind |-> kind, name |-> name]
Trusted == <<Job("trusted", 1), Job("trusted", 2)>>   \* pgcl-test, pgcl-stress
AllJobs == {Trusted[1], Trusted[2]} \cup {Job("selftest", n) : n \in SelfTests} \cup {Job("ltp", n) : n \in LtpTests}

\* The orders a directory may be read in, each name once; sh4 sorts them.
Orders(kind, names) == {q \in [1..Cardinality(names) -> {Job(kind, n) : n \in names}] :
                          \A i, k \in DOMAIN q : q[i] = q[k] => i = k}
Sorted(kind, names) == {q \in Orders(kind, names) :
                          \A i, k \in DOMAIN q : i < k => q[i].name < q[k].name}

\* A directory may be missing.
microblaze_jobs == {Trusted \o s \o l : s \in {<<>>} \cup Orders("selftest", SelfTests),
                                        l \in {<<>>} \cup Orders("ltp", LtpTests)}
\* sh4 reads names as long as there is room, in any order, and sorts them.
Names == IF Cardinality(LtpTests) <= NameLimit THEN {LtpTests}
         ELSE {S \in SUBSET LtpTests : Cardinality(S) = NameLimit}
names_read == UNION {Sorted("ltp", S) : S \in Names}
\* The stress test comes last, because it may end the run.  Either of the
\* trusted tests may be missing.
sh4_jobs == {first \o l \o last : first \in {<<>>, <<Trusted[1]>>}, l \in {<<>>} \cup names_read,
                                  last \in {<<>>, <<Trusted[2]>>}}

Init ==
  /\ init \in Inits
  /\ jobs \in (IF init = "microblaze" THEN microblaze_jobs ELSE sh4_jobs)
  /\ pc = "next" /\ polls = 0 /\ result = 0 /\ lines = <<>>
  /\ procs = [j \in AllJobs |-> NONE] /\ real = [j \in AllJobs |-> NONE]
  /\ tally = [pass |-> 0, fail |-> 0, skip |-> 0, total |-> 0]

This == Head(jobs)
Ended(p) == p >= 0
\* A wait status.
Exited(n)     == n * 256
WIFEXITED(s)  == s % 128 = 0
WEXITSTATUS(s) == s \div 256
WTERMSIG(s)   == s % 128

----------------------------------------------------------------------------
(* run_timeout() of microblaze, run() of sh4.                               *)

TIMEOUT == IF init = "microblaze" THEN Exited(9) ELSE -2
\* Mutation: a test that a signal killed has exit status 0.
AnswerExit(s) == WEXITSTATUS(s)
Answer(s) == IF init = "microblaze" THEN s
             ELSE IF WIFEXITED(s) THEN WEXITSTATUS(s) ELSE 128 + WTERMSIG(s)

\* Tests on the list, and files that are not tests, are not run by microblaze.
Skipped == init = "microblaze" /\ This.kind # "trusted" /\ This.name \in Listed
Passed_over == init = "microblaze" /\ This.kind # "trusted" /\ This.name \in NotRunnable
Fork ==
  /\ pc = "next" /\ jobs # <<>> /\ ~Skipped /\ ~Passed_over
  /\ \/ /\ procs' = [procs EXCEPT ![This] = RUNNING]
        /\ pc' = "poll" /\ polls' = Polls /\ UNCHANGED result
     \/ result' = -1 /\ pc' = "report" /\ UNCHANGED <<procs, polls>>
  /\ UNCHANGED <<init, jobs, tally, lines, real>>

\* waitpid(WNOHANG), then a sleep of 100 ms; after the last one, SIGKILL.
Reaped(s) == procs' = [procs EXCEPT ![This] = NONE]
\* Mutation: one poll too many.
PollPast ==
  /\ pc = "poll" /\ polls >= 0
  /\ IF Ended(procs[This])
     THEN /\ Reaped(This) /\ result' = Answer(procs[This]) /\ pc' = "report" /\ UNCHANGED polls
     ELSE /\ polls' = polls - 1 /\ UNCHANGED <<procs, result, pc>>
  /\ UNCHANGED <<init, jobs, tally, lines, real>>
Poll ==
  /\ pc = "poll" /\ polls > 0
  /\ IF Ended(procs[This])
     THEN /\ Reaped(This) /\ result' = Answer(procs[This]) /\ pc' = "report" /\ UNCHANGED polls
     ELSE /\ polls' = polls - 1 /\ UNCHANGED <<procs, result, pc>>
  /\ UNCHANGED <<init, jobs, tally, lines, real>>
\* Mutation: the killed test is not waited for.
KillOnly ==
  /\ pc = "poll" /\ polls = 0 /\ pc' = "report" /\ result' = TIMEOUT
  /\ procs' = [procs EXCEPT ![This] = IF @ = RUNNING THEN KILLED ELSE @]
  /\ real' = [real EXCEPT ![This] = KILLED] /\ UNCHANGED <<init, jobs, polls, tally, lines>>
Kill ==
  /\ pc = "poll" /\ polls = 0 /\ pc' = "wait"
  /\ procs' = [procs EXCEPT ![This] = IF @ = RUNNING THEN KILLED ELSE @]
  /\ real' = [real EXCEPT ![This] = KILLED]
  /\ UNCHANGED <<init, jobs, polls, result, tally, lines>>
Wait ==
  /\ pc = "wait" /\ Ended(procs[This])
  /\ Reaped(This) /\ result' = TIMEOUT /\ pc' = "report"
  /\ UNCHANGED <<init, jobs, polls, tally, lines, real>>

\* The program under test exits, also with 127 when it cannot be executed, or
\* dies; or it never does.
Ends(j) ==
  /\ procs[j] = RUNNING
  /\ \E s \in {Exited(n) : n \in ExitCodes} \cup Signals :
       procs' = [procs EXCEPT ![j] = s] /\ real' = [real EXCEPT ![j] = s]
  /\ UNCHANGED <<init, jobs, pc, polls, result, tally, lines>>
Dies(j) ==
  /\ procs[j] = KILLED /\ procs' = [procs EXCEPT ![j] = SIGKILL]
  /\ UNCHANGED <<init, jobs, pc, polls, result, tally, lines, real>>

----------------------------------------------------------------------------
(* The loops of main().                                                     *)

Count(c) == tally' = [tally EXCEPT !.pass = @ + (IF c = "pass" THEN 1 ELSE 0),
                                   !.fail = @ + (IF c = "fail" THEN 1 ELSE 0),
                                   !.skip = @ + (IF c = "skip" THEN 1 ELSE 0), !.total = @ + 1]
\* Go on, having printed v and counted c (if not "none").
NextJob(v, c) == /\ lines' = Append(lines, <<This, v>>) /\ jobs' = Tail(jobs) /\ pc' = "next"
                 /\ IF c = "none" THEN UNCHANGED tally ELSE Count(c)

Skip ==
  /\ pc = "next" /\ jobs # <<>> /\ (Skipped \/ Passed_over)
  /\ IF Skipped THEN NextJob("SKIP", IF This.kind = "ltp" THEN "skip" ELSE "none")
     ELSE jobs' = Tail(jobs) /\ UNCHANGED <<lines, tally, pc>>
  /\ UNCHANGED <<init, polls, procs, result, real>>

run_program == IF result < 0 \/ result = TIMEOUT \/ ~WIFEXITED(result) THEN -1 ELSE WEXITSTATUS(result)
\* The guards of the code's else-ifs are made to exclude each other.
trusted_verdict == IF (IF init = "sh4" THEN result ELSE run_program) = 0 THEN "PASS" ELSE "FAIL"
selftest_verdict == CASE run_program = 0 -> "PASS" [] run_program = 4 -> "SKIP" [] OTHER -> "FAIL"
exit_verdict(ec) == CASE ec = 0 -> "PASS" [] ec \in {4, 32} -> "SKIP" [] ec = 127 -> "NOTFOUND" [] OTHER -> "FAIL"
ltp_verdict ==
  IF init = "sh4" THEN (CASE result = 0 -> "PASS" [] result = 32 -> "SKIP" [] OTHER -> "FAIL")
  ELSE IF result = TIMEOUT THEN "SKIP (timeout)"
  ELSE IF result < 0 \/ ~WIFEXITED(result) THEN "FAIL" ELSE exit_verdict(WEXITSTATUS(result))
Verdict == CASE This.kind = "trusted" -> trusted_verdict [] This.kind = "selftest" -> selftest_verdict
             [] This.kind = "ltp" -> ltp_verdict
Counted(v) == CASE v = "PASS" -> "pass" [] v \in {"SKIP", "SKIP (timeout)"} -> "skip"
                [] v = "FAIL" -> "fail" [] OTHER -> "none"

Report ==
  /\ pc = "report"
  /\ NextJob(Verdict, IF This.kind = "ltp" THEN Counted(Verdict) ELSE "none")
  /\ UNCHANGED <<init, polls, procs, result, real>>

PowerOff == pc = "next" /\ jobs = <<>> /\ pc' = "off"
            /\ UNCHANGED <<init, jobs, polls, procs, result, tally, lines, real>>
Off == pc = "off" /\ UNCHANGED vars

Supervise == Fork \/ Poll \/ Kill \/ Wait \/ Skip \/ Report \/ PowerOff
Next == Supervise \/ (\E j \in AllJobs : Ends(j) \/ Dies(j)) \/ Off
Spec == Init /\ [][Next]_vars

----------------------------------------------------------------------------
TypeOK ==
  /\ init \in Inits /\ pc \in {"next", "poll", "wait", "report", "off"} /\ polls \in 0..Polls
  /\ \A j \in AllJobs : procs[j] \in -3..65535 /\ real[j] \in -3..65535
  /\ result \in -2..65535 /\ tally.total \in Nat
  /\ \A i \in DOMAIN lines : lines[i][2] \in {"PASS", "FAIL", "SKIP", "SKIP (timeout)", "NOTFOUND"}

Printed(V) == {lines[i][1] : i \in {k \in DOMAIN lines : lines[k][2] \in V}}

\* The next test is not started before the last one is gone, killed or not:
\* two tests never compete for the memory of the machine.
OneAtATime == Cardinality({j \in AllJobs : procs[j] # NONE}) <= 1

\* PASS is printed of a test that ended with 0 before it was killed, and of
\* no other; a test that ended with 0 in time is not printed otherwise.
PassIsPass ==
  /\ \A j \in Printed({"PASS"}) : real[j] = Exited(0)
  /\ \A j \in Printed({"FAIL", "SKIP (timeout)", "NOTFOUND"}) : real[j] # Exited(0)

\* The totals are the numbers of tests printed as passed, failed and skipped.
TalliesAddUp ==
  LET Ltp(V) == Cardinality({j \in Printed(V) : j.kind = "ltp"}) IN
  /\ tally.pass = Ltp({"PASS"}) /\ tally.fail = Ltp({"FAIL"})
  /\ tally.skip = Ltp({"SKIP", "SKIP (timeout)"}) /\ tally.total = Ltp({"PASS", "FAIL", "SKIP", "SKIP (timeout)"})
=============================================================================
