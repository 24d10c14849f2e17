----------------------------- MODULE BenchHarness -----------------------------
(****************************************************************************)
(* How a benchmark is measured from outside: serial-main.cc and mem-main.cc *)
(* with the main function of shared-pseudo.h.  The harness forks a child    *)
(* that spins on a shared flag, attaches to it as a debugger, releases it,  *)
(* and lets it run from one breakpoint (int3) to the next, between which it *)
(* makes the benchmark's call.  `mem` reads the child's memory usage at     *)
(* both breakpoints; `serial` starts perf at the first one, in a third      *)
(* process, and reads what perf has printed into a pipe.                    *)
(*                                                                          *)
(* The child's pc:  "spin"; "int3", about to stop at the first breakpoint;  *)
(*   "before", stopped there; "call"; "int3_2"; "after", at the second one; *)
(*   "crashed", stopped by a fault of the benchmark; "dead"; "reaped".  It  *)
(*   is killed at the second breakpoint, so its exit() is not modelled.     *)
(* What the harness does is one step per system call.  Amounts of memory    *)
(* and counts are abstracted to where the child was when they were taken.   *)
(****************************************************************************)
EXTENDS Naturals

CONSTANTS Repetitions,  \* --benchmark_repetitions
          Lines,        \* how much perf prints
          PipeSize      \* how much the pipe holds

\* The pipe is read after perf has ended, so its output has to fit.
ASSUME OutputFits == Lines \in Nat /\ PipeSize \in Nat /\ 1 <= Lines /\ Lines <= PipeSize
ASSUME Repeated == Repetitions \in Nat \ {0}

VARIABLES metric, NDEBUG,  \* the program, and whether assertions are left out
          left,            \* repetitions
          h,               \* where the harness is
          shm,
          child,           \* [pc, traced, sigstop, stopped, status]
          perf,            \* [pc, printed, ok, entry]
          pipe,            \* lines in the pipe
          seen,            \* where the measurement began and ended
          fault            \* something outside the harness went wrong

vars == <<metric, NDEBUG, left, h, shm, child, perf, pipe, seen, fault>>

NoChild == [pc |-> "reaped", traced |-> FALSE, sigstop |-> FALSE, stopped |-> FALSE, status |-> "none"]
NoPerf == [pc |-> "none", printed |-> 0, ok |-> FALSE, entry |-> FALSE]
Nowhere == [from |-> "none", to |-> "none"]

Init ==
    /\ metric \in {"mem", "serial"} /\ NDEBUG \in BOOLEAN
    /\ left = Repetitions /\ h = "fork" /\ shm = FALSE
    /\ child = NoChild /\ perf = NoPerf /\ pipe = 0 /\ seen = Nowhere /\ fault = FALSE

-----------------------------------------------------------------------------
(* Mistakes that the properties are to notice; not part of the              *)
(* specification.                                                           *)

\* The flag keeps its value from the repetition before.
Fork_KeepFlag ==
    /\ h = "fork"
    /\ child' = [NoChild EXCEPT !.pc = "spin"]
    /\ perf' = NoPerf /\ pipe' = 0 /\ seen' = Nowhere /\ fault' = FALSE
    /\ h' = "attach"
    /\ UNCHANGED <<metric, NDEBUG, left, shm>>

\* The child is never released.
Release_NoFlag ==
    /\ h = "release" /\ h' = "cont"
    /\ UNCHANGED <<metric, NDEBUG, left, shm, child, perf, pipe, seen, fault>>

-----------------------------------------------------------------------------
(* The harness: execute().                                                  *)

Fork ==
    /\ h = "fork"
    /\ shm' = FALSE
    /\ child' = [NoChild EXCEPT !.pc = "spin"]
    /\ perf' = NoPerf /\ pipe' = 0 /\ seen' = Nowhere /\ fault' = FALSE
    /\ h' = "attach"
    /\ UNCHANGED <<metric, NDEBUG, left>>

Alive == child.pc \notin {"dead", "reaped"}

\* What ptrace says if the child is not there, or not stopped.
Refused ==
    \/ h = "attach" /\ ~Alive
    \/ h \in {"cont", "initial", "go", "kill"} /\ ~child.stopped

\* err(): fork, pipe, ptrace, waitpid and the like may fail, also for reasons that
\* are not the harness's.
SystemCallFails ==
    /\ h \in {"fork", "attach", "wait_stop", "cont", "wait_start", "initial", "perf", "go",
              "wait_end", "kill", "wait_dead", "wait_perf"}
    /\ h' = "failed" /\ fault' = (fault \/ ~Refused)
    /\ UNCHANGED <<metric, NDEBUG, left, shm, child, perf, pipe, seen>>

Attach ==
    /\ h = "attach" /\ Alive
    /\ child' = [child EXCEPT !.traced = TRUE, !.sigstop = TRUE]
    /\ h' = "wait_stop"
    /\ UNCHANGED <<metric, NDEBUG, left, shm, perf, pipe, seen, fault>>

\* waitpid_chk, and the assertion about the status it returns.
Wait(at, expected, to) ==
    /\ h = at /\ child.status # "none"
    /\ child' = [child EXCEPT !.status = "none", !.pc = IF @ = "dead" THEN "reaped" ELSE @]
    /\ h' = IF child.status = expected \/ NDEBUG THEN to ELSE "failed"
    /\ UNCHANGED <<metric, NDEBUG, left, shm, perf, pipe, seen, fault>>

Release ==
    /\ h = "release"
    /\ shm' = TRUE
    /\ h' = "cont"
    /\ UNCHANGED <<metric, NDEBUG, left, child, perf, pipe, seen, fault>>

\* PTRACE_CONT
Cont(at, to) ==
    /\ h = at /\ child.stopped
    /\ child' = [child EXCEPT !.stopped = FALSE]
    /\ h' = to
    /\ UNCHANGED <<metric, NDEBUG, left, shm, perf, pipe, fault>>

\* mem: compute_memory_usage at the first breakpoint, and on.
Initial ==
    /\ Cont("initial", "wait_end")
    /\ seen' = [seen EXCEPT !.from = child.pc]

\* serial: pipe, fork and exec of perf; the harness sleeps for half a second.
StartPerf ==
    /\ h = "perf"
    /\ perf' = [perf EXCEPT !.pc = "starting"]
    /\ h' = "sleep"
    /\ UNCHANGED <<metric, NDEBUG, left, shm, child, pipe, seen, fault>>

WakeUp ==
    /\ h = "sleep" /\ h' = "go"
    /\ UNCHANGED <<metric, NDEBUG, left, shm, child, perf, pipe, seen, fault>>

\* mem has its second look; then PTRACE_KILL, which also ends what perf counts.
Kill ==
    /\ h = "kill" /\ child.stopped
    /\ seen' = [seen EXCEPT !.to = child.pc]
    /\ child' = [child EXCEPT !.pc = "dead", !.stopped = FALSE, !.status = "SIGKILL"]
    /\ h' = "wait_dead"
    /\ UNCHANGED <<metric, NDEBUG, left, shm, perf, pipe, fault>>

\* mem: assert(final_ >= initial), which a benchmark that frees memory refutes.
CheckGrowth ==
    /\ h = "growth"
    /\ \/ h' = "return" /\ UNCHANGED fault
       \/ ~NDEBUG /\ h' = "failed" /\ fault' = TRUE
    /\ UNCHANGED <<metric, NDEBUG, left, shm, child, perf, pipe, seen>>

WaitPerf ==
    /\ h = "wait_perf" /\ perf.pc = "ended"
    /\ perf' = [perf EXCEPT !.pc = "reaped"]
    /\ h' = IF perf.ok THEN "read" ELSE "failed"
    /\ UNCHANGED <<metric, NDEBUG, left, shm, child, pipe, seen, fault>>

\* The line with the event's key is looked for in what perf has printed.
ReadPerf ==
    /\ h = "read"
    /\ pipe' = 0
    /\ h' = IF pipe > 0 /\ perf.entry THEN "return" ELSE "failed"
    /\ UNCHANGED <<metric, NDEBUG, left, shm, child, perf, seen, fault>>

\* main: the next repetition.
Return ==
    /\ h = "return"
    /\ left' = left - 1
    /\ h' = IF left > 1 THEN "fork" ELSE "done"
    /\ UNCHANGED <<metric, NDEBUG, shm, child, perf, pipe, seen, fault>>

Harness ==
    \/ Fork \/ Attach \/ Release \/ Initial \/ StartPerf \/ WakeUp \/ Kill
    \/ Wait("wait_stop", "SIGSTOP", "release")
    \/ Cont("cont", "wait_start") /\ UNCHANGED seen
    \/ Wait("wait_start", "SIGTRAP", IF metric = "mem" THEN "initial" ELSE "perf")
    \/ Cont("go", "wait_end") /\ UNCHANGED seen
    \/ Wait("wait_end", "SIGTRAP", "kill")
    \/ Wait("wait_dead", "SIGKILL", IF metric = "mem" THEN "growth" ELSE "wait_perf")
    \/ CheckGrowth \/ WaitPerf \/ ReadPerf \/ Return

-----------------------------------------------------------------------------
(* The child.                                                               *)

Running == Alive /\ ~child.stopped /\ h # "failed"

\* SIGSTOP from PTRACE_ATTACH arrives at some time.
Stop ==
    /\ Running /\ child.sigstop
    /\ child' = [child EXCEPT !.sigstop = FALSE, !.stopped = TRUE, !.status = "SIGSTOP"]
    /\ UNCHANGED <<metric, NDEBUG, left, h, shm, perf, pipe, seen, fault>>

Step(from, to) ==
    /\ Running /\ child.pc = from
    /\ child' = [child EXCEPT !.pc = to]
    /\ UNCHANGED <<metric, NDEBUG, left, h, shm, perf, pipe, seen, fault>>

\* int3: it stops a process that is traced, and kills one that is not.
Breakpoint(from, to) ==
    /\ Running /\ child.pc = from
    /\ child' = IF child.traced
                  THEN [child EXCEPT !.pc = to, !.stopped = TRUE, !.status = "SIGTRAP"]
                  ELSE [child EXCEPT !.pc = "dead", !.status = "killed"]
    /\ UNCHANGED <<metric, NDEBUG, left, h, shm, perf, pipe, seen, fault>>

Crash ==
    /\ Running /\ child.pc = "call"
    /\ child' = [child EXCEPT !.pc = "crashed", !.stopped = TRUE, !.status = "SIGSEGV"]
    /\ fault' = TRUE
    /\ UNCHANGED <<metric, NDEBUG, left, h, shm, perf, pipe, seen>>

Child ==
    \/ Stop
    \/ shm /\ Step("spin", "int3")
    \/ Breakpoint("int3", "before")
    \/ Step("before", "call")
    \/ Step("call", "int3_2")
    \/ Breakpoint("int3_2", "after")

-----------------------------------------------------------------------------
(* perf stat -p, as far as the harness relies on it: it counts from when it *)
(* has started until the child is dead, prints, and exits.                  *)

PerfStarts ==
    /\ perf.pc = "starting" /\ Alive
    /\ perf' = [perf EXCEPT !.pc = "counting"]
    /\ seen' = [seen EXCEPT !.from = child.pc]
    /\ UNCHANGED <<metric, NDEBUG, left, h, shm, child, pipe, fault>>

\* There is no perf, it may not count, or it has not started within half a second
\* and the length of the call.
PerfFails ==
    /\ perf.pc = "starting"
    /\ perf' = [perf EXCEPT !.pc = "ended"]
    /\ pipe' = pipe + 1 /\ fault' = TRUE
    /\ UNCHANGED <<metric, NDEBUG, left, h, shm, child, seen>>

PerfPrints ==
    /\ perf.pc = "counting" /\ ~Alive /\ perf.printed < Lines /\ pipe < PipeSize
    /\ perf' = [perf EXCEPT !.printed = @ + 1]
    /\ pipe' = pipe + 1
    /\ UNCHANGED <<metric, NDEBUG, left, h, shm, child, seen, fault>>

\* The processor may not have the event.
PerfExits ==
    /\ perf.pc = "counting" /\ perf.printed = Lines
    /\ \E entry \in BOOLEAN :
          /\ perf' = [perf EXCEPT !.pc = "ended", !.ok = TRUE, !.entry = entry]
          /\ fault' = (fault \/ ~entry)
    /\ UNCHANGED <<metric, NDEBUG, left, h, shm, child, pipe, seen>>

Perf == h # "failed" /\ (PerfStarts \/ PerfFails \/ PerfPrints \/ PerfExits)

Done == h \in {"failed", "done"} /\ UNCHANGED vars

Next == Harness \/ SystemCallFails \/ Child \/ Crash \/ Perf \/ Done

Spec == Init /\ [][Next]_vars

\* Three processes of one machine: each gets its turn, and the benchmark's call
\* ends.  Nothing has to fail.
FairSpec == Spec /\ WF_vars(Harness) /\ WF_vars(Child) /\ WF_vars(Perf)

-----------------------------------------------------------------------------
(* Properties.                                                              *)

\* However the three processes are scheduled, and however often the measurement
\* is repeated: what is returned was measured from the first breakpoint to the
\* second (an assertion that is compiled out does not notice a crash in between;
\* perf may start late, but never counts what is before the breakpoint), the
\* processes are gone, and the harness never fails without a cause outside of it.
MeasuresTheCall ==
    /\ h = "return" =>
          /\ seen.to = "after" \/ (NDEBUG /\ seen.to = "crashed")
          /\ seen.from = "before" \/ (metric = "serial" /\ seen.from \in {"call", "int3_2", "after", "crashed"})
          /\ child.pc = "reaped" /\ perf.pc \in {"none", "reaped"}
    /\ h = "failed" => fault

\* Nobody waits for somebody who waits: all repetitions are made, or the harness
\* gives up.
Ends == <>(h \in {"done", "failed"})

=============================================================================
