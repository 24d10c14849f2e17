-------------------------- MODULE BenchHarnessProofs --------------------------
(****************************************************************************)
(* The harness measures the call and nothing else, for every number of      *)
(* repetitions and every amount that perf prints, as long as it fits into   *)
(* the pipe.                                                                *)
(****************************************************************************)
EXTENDS BenchHarness, TLAPS

Places == {"spin", "int3", "before", "call", "int3_2", "after", "crashed", "dead", "reaped"}

ChildType ==
    [pc : Places,
     traced : BOOLEAN, sigstop : BOOLEAN, stopped : BOOLEAN,
     status : {"none", "SIGSTOP", "SIGTRAP", "SIGKILL", "SIGSEGV", "killed"}]

PerfType ==
    [pc : {"none", "starting", "counting", "ended", "reaped"}, printed : Nat,
     ok : BOOLEAN, entry : BOOLEAN]

SeenType == [from : Places \cup {"none"}, to : Places \cup {"none"}]

TypeInv ==
    /\ metric \in {"mem", "serial"}
    /\ h \in {"fork", "attach", "wait_stop", "release", "cont", "wait_start", "initial", "perf",
              "sleep", "go", "wait_end", "kill", "wait_dead", "growth", "wait_perf", "read",
              "return", "failed", "done"}
    /\ child \in ChildType /\ perf \in PerfType /\ pipe \in Nat /\ seen \in SeenType

\* Where the child can be while the harness is at h.
ChildInv ==
    /\ h \in {"fork", "growth", "wait_perf", "read", "return", "done"} => child.pc = "reaped"
    /\ h = "attach" =>
          child.pc = "spin" /\ ~child.sigstop /\ ~child.stopped /\ child.status = "none" /\ ~shm
    /\ h = "wait_stop" =>
          /\ child.pc = "spin" /\ child.traced /\ ~shm
          /\ \/ child.sigstop /\ ~child.stopped /\ child.status = "none"
             \/ ~child.sigstop /\ child.stopped /\ child.status = "SIGSTOP"
    /\ h \in {"release", "cont"} =>
          /\ child.pc = "spin" /\ child.traced /\ ~child.sigstop
          /\ child.stopped /\ child.status = "none"
    /\ h = "wait_start" =>
          /\ child.traced /\ ~child.sigstop
          /\ \/ child.pc \in {"spin", "int3"} /\ ~child.stopped /\ child.status = "none"
             \/ child.pc = "before" /\ child.stopped /\ child.status = "SIGTRAP"
    /\ h \in {"initial", "perf", "sleep", "go"} =>
          /\ child.pc = "before" /\ child.traced /\ ~child.sigstop
          /\ child.stopped /\ child.status = "none"
    /\ h = "wait_end" =>
          /\ child.traced /\ ~child.sigstop
          /\ \/ child.pc \in {"before", "call", "int3_2"} /\ ~child.stopped /\ child.status = "none"
             \/ child.pc = "after" /\ child.stopped /\ child.status = "SIGTRAP"
             \/ child.pc = "crashed" /\ child.stopped /\ child.status = "SIGSEGV" /\ fault
    /\ h = "kill" =>
          /\ child.pc = "after" \/ (NDEBUG /\ child.pc = "crashed")
          /\ ~child.sigstop /\ child.stopped /\ child.status = "none"
    /\ h = "wait_dead" => child.pc = "dead" /\ child.status = "SIGKILL"

\* What perf has done by then, and what it has found.
PerfInv ==
    /\ h \in {"attach", "wait_stop", "release", "cont", "wait_start", "perf"} => perf = NoPerf /\ pipe = 0
    /\ metric = "mem" => perf.pc = "none"
    /\ metric = "mem" => h \notin {"perf", "sleep", "go", "wait_perf", "read"}
    /\ metric = "serial" => h \notin {"initial", "growth"}
    /\ metric = "serial" /\ h \in {"sleep", "go", "wait_end", "kill", "wait_dead", "wait_perf"} =>
          /\ perf.pc \in {"starting", "counting", "ended"}
          /\ perf.pc \in {"starting", "counting"} => pipe = perf.printed
          /\ perf.pc = "ended" /\ ~perf.ok => fault
    /\ metric = "serial" /\ h \in {"fork", "return", "done"} => perf.pc \in {"none", "reaped"}
    /\ h = "read" => perf.pc = "reaped" /\ perf.ok
    /\ perf.pc \in {"ended", "reaped"} /\ perf.ok /\ h \notin {"fork", "return", "done"} =>
          pipe > 0 /\ (perf.entry \/ fault)

\* Where the measurement began and ended.
SeenInv ==
    /\ metric = "mem" /\ h \in {"wait_end", "kill", "wait_dead", "growth", "return"} => seen.from = "before"
    /\ metric = "serial" /\ (perf.pc = "counting" \/ perf.ok) /\ h # "fork" =>
          seen.from \in {"before", "call", "int3_2", "after", "crashed"}
    /\ metric = "serial" /\ h = "return" => perf.ok
    /\ h \in {"wait_dead", "growth", "wait_perf", "read", "return"} =>
          seen.to = "after" \/ (NDEBUG /\ seen.to = "crashed")

\* A harness that has failed does nothing more; until then, nothing is out of
\* place.
IInv ==
    /\ TypeInv
    /\ h = "failed" => fault
    /\ h # "failed" => ChildInv /\ PerfInv /\ SeenInv

-----------------------------------------------------------------------------

LEMMA InitInv == Init => IInv
BY DEF Init, IInv, TypeInv, ChildInv, PerfInv, SeenInv, NoChild, NoPerf, Nowhere, Places, ChildType, PerfType, SeenType

LEMMA HarnessInv == ASSUME IInv, Harness PROVE IInv'
<1>1. ASSUME Fork PROVE IInv'
    <2>1. TypeInv'
        <3>1. child' \in ChildType
            BY <1>1 DEF Fork, NoChild, ChildType, Places
        <3>2. perf' \in PerfType
            BY <1>1 DEF Fork, NoPerf, PerfType
        <3>3. seen' \in SeenType
            BY <1>1 DEF Fork, Nowhere, SeenType
        <3> QED
            BY <1>1, <3>1, <3>2, <3>3 DEF IInv, TypeInv, Fork
    <2>2. h' # "failed" => ChildInv'
        BY <1>1 DEF IInv, TypeInv, ChildInv, Fork, NoChild, Nowhere, ChildType, Places
    <2>3. h' # "failed" => PerfInv'
        BY <1>1 DEF IInv, TypeInv, ChildInv, PerfInv, NoPerf, Fork, NoChild, Nowhere, PerfType, ChildType, Places
    <2>4. h' # "failed" => SeenInv'
        BY <1>1 DEF IInv, TypeInv, ChildInv, PerfInv, NoPerf, SeenInv, Fork, NoChild, Nowhere, PerfType, SeenType, ChildType, Places
    <2>5. h' = "failed" => fault'
        BY <1>1 DEF IInv, TypeInv, ChildInv, PerfInv, NoPerf, SeenInv, Fork, NoChild, Nowhere, PerfType, ChildType, Places
    <2> QED
        BY <2>1, <2>2, <2>3, <2>4, <2>5 DEF IInv
<1>2. ASSUME Attach PROVE IInv'
    <2>1. TypeInv'
        BY <1>2 DEF IInv, TypeInv, Attach, Alive, ChildType, Places
    <2>2. h' # "failed" => ChildInv'
        BY <1>2 DEF IInv, TypeInv, ChildInv, Attach, Alive, ChildType, Places
    <2>3. h' # "failed" => PerfInv'
        BY <1>2 DEF IInv, TypeInv, ChildInv, PerfInv, NoPerf, Attach, Alive, PerfType, ChildType, Places
    <2>4. h' # "failed" => SeenInv'
        BY <1>2 DEF IInv, TypeInv, ChildInv, PerfInv, NoPerf, SeenInv, Attach, Alive, PerfType, SeenType, ChildType, Places
    <2>5. h' = "failed" => fault'
        BY <1>2 DEF IInv, TypeInv, ChildInv, PerfInv, NoPerf, SeenInv, Attach, Alive, PerfType, ChildType, Places
    <2> QED
        BY <2>1, <2>2, <2>3, <2>4, <2>5 DEF IInv
<1>3. ASSUME Release PROVE IInv'
    <2>1. TypeInv'
        BY <1>3 DEF IInv, TypeInv, Release
    <2>2. h' # "failed" => ChildInv'
        BY <1>3 DEF IInv, TypeInv, ChildInv, Release, ChildType, Places
    <2>3. h' # "failed" => PerfInv'
        BY <1>3 DEF IInv, TypeInv, ChildInv, PerfInv, NoPerf, Release, PerfType, ChildType, Places
    <2>4. h' # "failed" => SeenInv'
        BY <1>3 DEF IInv, TypeInv, ChildInv, PerfInv, NoPerf, SeenInv, Release, PerfType, SeenType, ChildType, Places
    <2>5. h' = "failed" => fault'
        BY <1>3 DEF IInv, TypeInv, ChildInv, PerfInv, NoPerf, SeenInv, Release, PerfType, ChildType, Places
    <2> QED
        BY <2>1, <2>2, <2>3, <2>4, <2>5 DEF IInv
<1>4. ASSUME Initial PROVE IInv'
    <2>1. TypeInv'
        BY <1>4 DEF IInv, TypeInv, Initial, Cont, ChildType, Places, SeenType
    <2>2. h' # "failed" => ChildInv'
        BY <1>4 DEF IInv, TypeInv, ChildInv, Initial, Cont, ChildType, Places
    <2>3. h' # "failed" => PerfInv'
        BY <1>4 DEF IInv, TypeInv, ChildInv, PerfInv, NoPerf, Initial, Cont, PerfType, ChildType, Places
    <2>4. h' # "failed" => SeenInv'
        BY <1>4 DEF IInv, TypeInv, ChildInv, PerfInv, NoPerf, SeenInv, Initial, Cont, PerfType, SeenType, ChildType, Places
    <2>5. h' = "failed" => fault'
        BY <1>4 DEF IInv, TypeInv, ChildInv, PerfInv, NoPerf, SeenInv, Initial, Cont, PerfType, ChildType, Places
    <2> QED
        BY <2>1, <2>2, <2>3, <2>4, <2>5 DEF IInv
<1>5. ASSUME StartPerf PROVE IInv'
    <2>1. TypeInv'
        BY <1>5 DEF IInv, TypeInv, StartPerf, PerfType
    <2>2. h' # "failed" => ChildInv'
        BY <1>5 DEF IInv, TypeInv, ChildInv, StartPerf, ChildType, Places
    <2>3. h' # "failed" => PerfInv'
        BY <1>5 DEF IInv, TypeInv, ChildInv, PerfInv, NoPerf, StartPerf, PerfType, ChildType, Places
    <2>4. h' # "failed" => SeenInv'
        BY <1>5 DEF IInv, TypeInv, ChildInv, PerfInv, NoPerf, SeenInv, StartPerf, PerfType, SeenType, ChildType, Places
    <2>5. h' = "failed" => fault'
        BY <1>5 DEF IInv, TypeInv, ChildInv, PerfInv, NoPerf, SeenInv, StartPerf, PerfType, ChildType, Places
    <2> QED
        BY <2>1, <2>2, <2>3, <2>4, <2>5 DEF IInv
<1>6. ASSUME WakeUp PROVE IInv'
    <2>1. TypeInv'
        BY <1>6 DEF IInv, TypeInv, WakeUp
    <2>2. h' # "failed" => ChildInv'
        BY <1>6 DEF IInv, TypeInv, ChildInv, WakeUp, ChildType, Places
    <2>3. h' # "failed" => PerfInv'
        BY <1>6 DEF IInv, TypeInv, ChildInv, PerfInv, NoPerf, WakeUp, PerfType, ChildType, Places
    <2>4. h' # "failed" => SeenInv'
        BY <1>6 DEF IInv, TypeInv, ChildInv, PerfInv, NoPerf, SeenInv, WakeUp, PerfType, SeenType, ChildType, Places
    <2>5. h' = "failed" => fault'
        BY <1>6 DEF IInv, TypeInv, ChildInv, PerfInv, NoPerf, SeenInv, WakeUp, PerfType, ChildType, Places
    <2> QED
        BY <2>1, <2>2, <2>3, <2>4, <2>5 DEF IInv
<1>7. ASSUME Kill PROVE IInv'
    <2>1. TypeInv'
        BY <1>7 DEF IInv, TypeInv, Kill, ChildType, Places, SeenType
    <2>2. h' # "failed" => ChildInv'
        BY <1>7 DEF IInv, TypeInv, ChildInv, Kill, ChildType, Places
    <2>3. h' # "failed" => PerfInv'
        BY <1>7 DEF IInv, TypeInv, ChildInv, PerfInv, NoPerf, Kill, PerfType, ChildType, Places
    <2>4. h' # "failed" => SeenInv'
        BY <1>7 DEF IInv, TypeInv, ChildInv, PerfInv, NoPerf, SeenInv, Kill, PerfType, SeenType, ChildType, Places
    <2>5. h' = "failed" => fault'
        BY <1>7 DEF IInv, TypeInv, ChildInv, PerfInv, NoPerf, SeenInv, Kill, PerfType, ChildType, Places
    <2> QED
        BY <2>1, <2>2, <2>3, <2>4, <2>5 DEF IInv
<1>8. ASSUME Wait("wait_stop", "SIGSTOP", "release") PROVE IInv'
    <2>1. TypeInv'
        BY <1>8 DEF IInv, TypeInv, Wait, ChildType, Places
    <2>2. h' # "failed" => ChildInv'
        BY <1>8 DEF IInv, TypeInv, ChildInv, Wait, ChildType, Places
    <2>3. h' # "failed" => PerfInv'
        BY <1>8 DEF IInv, TypeInv, ChildInv, PerfInv, NoPerf, Wait, PerfType, ChildType, Places
    <2>4. h' # "failed" => SeenInv'
        BY <1>8 DEF IInv, TypeInv, ChildInv, PerfInv, NoPerf, SeenInv, Wait, PerfType, SeenType, ChildType, Places
    <2>5. h' = "failed" => fault'
        BY <1>8 DEF IInv, TypeInv, ChildInv, PerfInv, NoPerf, SeenInv, Wait, PerfType, ChildType, Places
    <2> QED
        BY <2>1, <2>2, <2>3, <2>4, <2>5 DEF IInv
<1>9. ASSUME Cont("cont", "wait_start") /\ UNCHANGED seen PROVE IInv'
    <2>1. TypeInv'
        BY <1>9 DEF IInv, TypeInv, Cont, ChildType, Places
    <2>2. h' # "failed" => ChildInv'
        BY <1>9 DEF IInv, TypeInv, ChildInv, Cont, ChildType, Places
    <2>3. h' # "failed" => PerfInv'
        BY <1>9 DEF IInv, TypeInv, ChildInv, PerfInv, NoPerf, Cont, PerfType, ChildType, Places
    <2>4. h' # "failed" => SeenInv'
        BY <1>9 DEF IInv, TypeInv, ChildInv, PerfInv, NoPerf, SeenInv, Cont, PerfType, SeenType, ChildType, Places
    <2>5. h' = "failed" => fault'
        BY <1>9 DEF IInv, TypeInv, ChildInv, PerfInv, NoPerf, SeenInv, Cont, PerfType, ChildType, Places
    <2> QED
        BY <2>1, <2>2, <2>3, <2>4, <2>5 DEF IInv
<1>10. ASSUME Wait("wait_start", "SIGTRAP", IF metric = "mem" THEN "initial" ELSE "perf") PROVE IInv'
    <2>1. TypeInv'
        BY <1>10 DEF IInv, TypeInv, Wait, ChildType, Places
    <2>2. h' # "failed" => ChildInv'
        BY <1>10 DEF IInv, TypeInv, ChildInv, Wait, ChildType, Places
    <2>3. h' # "failed" => PerfInv'
        BY <1>10 DEF IInv, TypeInv, ChildInv, PerfInv, NoPerf, Wait, PerfType, ChildType, Places
    <2>4. h' # "failed" => SeenInv'
        BY <1>10 DEF IInv, TypeInv, ChildInv, PerfInv, NoPerf, SeenInv, Wait, PerfType, SeenType, ChildType, Places
    <2>5. h' = "failed" => fault'
        BY <1>10 DEF IInv, TypeInv, ChildInv, PerfInv, NoPerf, SeenInv, Wait, PerfType, ChildType, Places
    <2> QED
        BY <2>1, <2>2, <2>3, <2>4, <2>5 DEF IInv
<1>11. ASSUME Cont("go", "wait_end") /\ UNCHANGED seen PROVE IInv'
    <2>1. TypeInv'
        BY <1>11 DEF IInv, TypeInv, Cont, ChildType, Places
    <2>2. h' # "failed" => ChildInv'
        BY <1>11 DEF IInv, TypeInv, ChildInv, Cont, ChildType, Places
    <2>3. h' # "failed" => PerfInv'
        BY <1>11 DEF IInv, TypeInv, ChildInv, PerfInv, NoPerf, Cont, PerfType, ChildType, Places
    <2>4. h' # "failed" => SeenInv'
        BY <1>11 DEF IInv, TypeInv, ChildInv, PerfInv, NoPerf, SeenInv, Cont, PerfType, SeenType, ChildType, Places
    <2>5. h' = "failed" => fault'
        BY <1>11 DEF IInv, TypeInv, ChildInv, PerfInv, NoPerf, SeenInv, Cont, PerfType, ChildType, Places
    <2> QED
        BY <2>1, <2>2, <2>3, <2>4, <2>5 DEF IInv
<1>12. ASSUME Wait("wait_end", "SIGTRAP", "kill") PROVE IInv'
    <2>1. TypeInv'
        BY <1>12 DEF IInv, TypeInv, Wait, ChildType, Places
    <2>2. h' # "failed" => ChildInv'
        BY <1>12 DEF IInv, TypeInv, ChildInv, Wait, ChildType, Places
    <2>3. h' # "failed" => PerfInv'
        BY <1>12 DEF IInv, TypeInv, ChildInv, PerfInv, NoPerf, Wait, PerfType, ChildType, Places
    <2>4. h' # "failed" => SeenInv'
        BY <1>12 DEF IInv, TypeInv, ChildInv, PerfInv, NoPerf, SeenInv, Wait, PerfType, SeenType, ChildType, Places
    <2>5. h' = "failed" => fault'
        BY <1>12 DEF IInv, TypeInv, ChildInv, PerfInv, NoPerf, SeenInv, Wait, PerfType, ChildType, Places
    <2> QED
        BY <2>1, <2>2, <2>3, <2>4, <2>5 DEF IInv
<1>13. ASSUME Wait("wait_dead", "SIGKILL", IF metric = "mem" THEN "growth" ELSE "wait_perf") PROVE IInv'
    <2>1. TypeInv'
        BY <1>13 DEF IInv, TypeInv, Wait, ChildType, Places
    <2>2. h' # "failed" => ChildInv'
        BY <1>13 DEF IInv, TypeInv, ChildInv, Wait, ChildType, Places
    <2>3. h' # "failed" => PerfInv'
        BY <1>13 DEF IInv, TypeInv, ChildInv, PerfInv, NoPerf, Wait, PerfType, ChildType, Places
    <2>4. h' # "failed" => SeenInv'
        BY <1>13 DEF IInv, TypeInv, ChildInv, PerfInv, NoPerf, SeenInv, Wait, PerfType, SeenType, ChildType, Places
    <2>5. h' = "failed" => fault'
        BY <1>13 DEF IInv, TypeInv, ChildInv, PerfInv, NoPerf, SeenInv, Wait, PerfType, ChildType, Places
    <2> QED
        BY <2>1, <2>2, <2>3, <2>4, <2>5 DEF IInv
<1>14. ASSUME CheckGrowth PROVE IInv'
    <2>1. TypeInv'
        BY <1>14 DEF IInv, TypeInv, CheckGrowth
    <2>2. h' # "failed" => ChildInv'
        BY <1>14 DEF IInv, TypeInv, ChildInv, CheckGrowth, ChildType, Places
    <2>3. h' # "failed" => PerfInv'
        BY <1>14 DEF IInv, TypeInv, ChildInv, PerfInv, NoPerf, CheckGrowth, PerfType, ChildType, Places
    <2>4. h' # "failed" => SeenInv'
        BY <1>14 DEF IInv, TypeInv, ChildInv, PerfInv, NoPerf, SeenInv, CheckGrowth, PerfType, SeenType, ChildType, Places
    <2>5. h' = "failed" => fault'
        BY <1>14 DEF IInv, TypeInv, ChildInv, PerfInv, NoPerf, SeenInv, CheckGrowth, PerfType, ChildType, Places
    <2> QED
        BY <2>1, <2>2, <2>3, <2>4, <2>5 DEF IInv
<1>15. ASSUME WaitPerf PROVE IInv'
    <2>1. TypeInv'
        BY <1>15 DEF IInv, TypeInv, WaitPerf, PerfType
    <2>2. h' # "failed" => ChildInv'
        BY <1>15 DEF IInv, TypeInv, ChildInv, WaitPerf, ChildType, Places
    <2>3. h' # "failed" => PerfInv'
        BY <1>15 DEF IInv, TypeInv, ChildInv, PerfInv, NoPerf, WaitPerf, PerfType, ChildType, Places
    <2>4. h' # "failed" => SeenInv'
        BY <1>15 DEF IInv, TypeInv, ChildInv, PerfInv, NoPerf, SeenInv, WaitPerf, PerfType, SeenType, ChildType, Places
    <2>5. h' = "failed" => fault'
        BY <1>15 DEF IInv, TypeInv, ChildInv, PerfInv, NoPerf, SeenInv, WaitPerf, PerfType, ChildType, Places
    <2> QED
        BY <2>1, <2>2, <2>3, <2>4, <2>5 DEF IInv
<1>16. ASSUME ReadPerf PROVE IInv'
    <2>1. TypeInv'
        BY <1>16 DEF IInv, TypeInv, ReadPerf
    <2>2. h' # "failed" => ChildInv'
        BY <1>16 DEF IInv, TypeInv, ChildInv, ReadPerf, ChildType, Places
    <2>3. h' # "failed" => PerfInv'
        BY <1>16 DEF IInv, TypeInv, ChildInv, PerfInv, NoPerf, ReadPerf, PerfType, ChildType, Places
    <2>4. h' # "failed" => SeenInv'
        BY <1>16 DEF IInv, TypeInv, ChildInv, PerfInv, NoPerf, SeenInv, ReadPerf, PerfType, SeenType, ChildType, Places
    <2>5. h' = "failed" => fault'
        BY <1>16 DEF IInv, TypeInv, ChildInv, PerfInv, NoPerf, SeenInv, ReadPerf, PerfType, ChildType, Places
    <2> QED
        BY <2>1, <2>2, <2>3, <2>4, <2>5 DEF IInv
<1>17. ASSUME Return PROVE IInv'
    <2>1. TypeInv'
        BY <1>17 DEF IInv, TypeInv, Return
    <2>2. h' # "failed" => ChildInv'
        BY <1>17 DEF IInv, TypeInv, ChildInv, Return, ChildType, Places
    <2>3. h' # "failed" => PerfInv'
        BY <1>17 DEF IInv, TypeInv, ChildInv, PerfInv, NoPerf, Return, PerfType, ChildType, Places
    <2>4. h' # "failed" => SeenInv'
        BY <1>17 DEF IInv, TypeInv, ChildInv, PerfInv, NoPerf, SeenInv, Return, PerfType, SeenType, ChildType, Places
    <2>5. h' = "failed" => fault'
        BY <1>17 DEF IInv, TypeInv, ChildInv, PerfInv, NoPerf, SeenInv, Return, PerfType, ChildType, Places
    <2> QED
        BY <2>1, <2>2, <2>3, <2>4, <2>5 DEF IInv
<1> QED
    BY <1>1, <1>2, <1>3, <1>4, <1>5, <1>6, <1>7, <1>8, <1>9, <1>10, <1>11, <1>12, <1>13, <1>14, <1>15, <1>16, <1>17 DEF Harness

LEMMA ChildInvStep == ASSUME IInv, Child \/ Crash PROVE IInv'
<1>1. ASSUME Stop PROVE IInv'
    <2>1. TypeInv'
        BY <1>1 DEF IInv, TypeInv, Stop, Running, Alive, ChildType, Places
    <2>2. h' # "failed" => ChildInv'
        BY <1>1 DEF IInv, TypeInv, ChildInv, Stop, Running, Alive, ChildType, Places
    <2>3. h' # "failed" => PerfInv'
        BY <1>1 DEF IInv, TypeInv, ChildInv, PerfInv, NoPerf, Stop, Running, Alive, PerfType, ChildType, Places
    <2>4. h' # "failed" => SeenInv'
        BY <1>1 DEF IInv, TypeInv, ChildInv, PerfInv, NoPerf, SeenInv, Stop, Running, Alive, PerfType, SeenType, ChildType, Places
    <2>5. h' = "failed" => fault'
        BY <1>1 DEF IInv, TypeInv, ChildInv, PerfInv, NoPerf, SeenInv, Stop, Running, Alive, PerfType, ChildType, Places
    <2> QED
        BY <2>1, <2>2, <2>3, <2>4, <2>5 DEF IInv
<1>2. ASSUME shm /\ Step("spin", "int3") PROVE IInv'
    <2>1. TypeInv'
        BY <1>2 DEF IInv, TypeInv, Step, Running, Alive, ChildType, Places
    <2>2. h' # "failed" => ChildInv'
        BY <1>2 DEF IInv, TypeInv, ChildInv, Step, Running, Alive, ChildType, Places
    <2>3. h' # "failed" => PerfInv'
        BY <1>2 DEF IInv, TypeInv, ChildInv, PerfInv, NoPerf, Step, Running, Alive, PerfType, ChildType, Places
    <2>4. h' # "failed" => SeenInv'
        BY <1>2 DEF IInv, TypeInv, ChildInv, PerfInv, NoPerf, SeenInv, Step, Running, Alive, PerfType, SeenType, ChildType, Places
    <2>5. h' = "failed" => fault'
        BY <1>2 DEF IInv, TypeInv, ChildInv, PerfInv, NoPerf, SeenInv, Step, Running, Alive, PerfType, ChildType, Places
    <2> QED
        BY <2>1, <2>2, <2>3, <2>4, <2>5 DEF IInv
<1>3. ASSUME Breakpoint("int3", "before") PROVE IInv'
    <2>1. TypeInv'
        BY <1>3 DEF IInv, TypeInv, Breakpoint, Running, Alive, ChildType, Places
    <2>2. h' # "failed" => ChildInv'
        BY <1>3 DEF IInv, TypeInv, ChildInv, Breakpoint, Running, Alive, ChildType, Places
    <2>3. h' # "failed" => PerfInv'
        BY <1>3 DEF IInv, TypeInv, ChildInv, PerfInv, NoPerf, Breakpoint, Running, Alive, PerfType, ChildType, Places
    <2>4. h' # "failed" => SeenInv'
        BY <1>3 DEF IInv, TypeInv, ChildInv, PerfInv, NoPerf, SeenInv, Breakpoint, Running, Alive, PerfType, SeenType, ChildType, Places
    <2>5. h' = "failed" => fault'
        BY <1>3 DEF IInv, TypeInv, ChildInv, PerfInv, NoPerf, SeenInv, Breakpoint, Running, Alive, PerfType, ChildType, Places
    <2> QED
        BY <2>1, <2>2, <2>3, <2>4, <2>5 DEF IInv
<1>4. ASSUME Step("before", "call") PROVE IInv'
    <2>1. TypeInv'
        BY <1>4 DEF IInv, TypeInv, Step, Running, Alive, ChildType, Places
    <2>2. h' # "failed" => ChildInv'
        BY <1>4 DEF IInv, TypeInv, ChildInv, Step, Running, Alive, ChildType, Places
    <2>3. h' # "failed" => PerfInv'
        BY <1>4 DEF IInv, TypeInv, ChildInv, PerfInv, NoPerf, Step, Running, Alive, PerfType, ChildType, Places
    <2>4. h' # "failed" => SeenInv'
        BY <1>4 DEF IInv, TypeInv, ChildInv, PerfInv, NoPerf, SeenInv, Step, Running, Alive, PerfType, SeenType, ChildType, Places
    <2>5. h' = "failed" => fault'
        BY <1>4 DEF IInv, TypeInv, ChildInv, PerfInv, NoPerf, SeenInv, Step, Running, Alive, PerfType, ChildType, Places
    <2> QED
        BY <2>1, <2>2, <2>3, <2>4, <2>5 DEF IInv
<1>5. ASSUME Step("call", "int3_2") PROVE IInv'
    <2>1. TypeInv'
        BY <1>5 DEF IInv, TypeInv, Step, Running, Alive, ChildType, Places
    <2>2. h' # "failed" => ChildInv'
        BY <1>5 DEF IInv, TypeInv, ChildInv, Step, Running, Alive, ChildType, Places
    <2>3. h' # "failed" => PerfInv'
        BY <1>5 DEF IInv, TypeInv, ChildInv, PerfInv, NoPerf, Step, Running, Alive, PerfType, ChildType, Places
    <2>4. h' # "failed" => SeenInv'
        BY <1>5 DEF IInv, TypeInv, ChildInv, PerfInv, NoPerf, SeenInv, Step, Running, Alive, PerfType, SeenType, ChildType, Places
    <2>5. h' = "failed" => fault'
        BY <1>5 DEF IInv, TypeInv, ChildInv, PerfInv, NoPerf, SeenInv, Step, Running, Alive, PerfType, ChildType, Places
    <2> QED
        BY <2>1, <2>2, <2>3, <2>4, <2>5 DEF IInv
<1>6. ASSUME Breakpoint("int3_2", "after") PROVE IInv'
    <2>1. TypeInv'
        BY <1>6 DEF IInv, TypeInv, Breakpoint, Running, Alive, ChildType, Places
    <2>2. h' # "failed" => ChildInv'
        BY <1>6 DEF IInv, TypeInv, ChildInv, Breakpoint, Running, Alive, ChildType, Places
    <2>3. h' # "failed" => PerfInv'
        BY <1>6 DEF IInv, TypeInv, ChildInv, PerfInv, NoPerf, Breakpoint, Running, Alive, PerfType, ChildType, Places
    <2>4. h' # "failed" => SeenInv'
        BY <1>6 DEF IInv, TypeInv, ChildInv, PerfInv, NoPerf, SeenInv, Breakpoint, Running, Alive, PerfType, SeenType, ChildType, Places
    <2>5. h' = "failed" => fault'
        BY <1>6 DEF IInv, TypeInv, ChildInv, PerfInv, NoPerf, SeenInv, Breakpoint, Running, Alive, PerfType, ChildType, Places
    <2> QED
        BY <2>1, <2>2, <2>3, <2>4, <2>5 DEF IInv
<1>7. ASSUME Crash PROVE IInv'
    <2>1. TypeInv'
        BY <1>7 DEF IInv, TypeInv, Crash, Running, Alive, ChildType, Places
    <2>2. h' # "failed" => ChildInv'
        BY <1>7 DEF IInv, TypeInv, ChildInv, Crash, Running, Alive, ChildType, Places
    <2>3. h' # "failed" => PerfInv'
        BY <1>7 DEF IInv, TypeInv, ChildInv, PerfInv, NoPerf, Crash, Running, Alive, PerfType, ChildType, Places
    <2>4. h' # "failed" => SeenInv'
        BY <1>7 DEF IInv, TypeInv, ChildInv, PerfInv, NoPerf, SeenInv, Crash, Running, Alive, PerfType, SeenType, ChildType, Places
    <2>5. h' = "failed" => fault'
        BY <1>7 DEF IInv, TypeInv, ChildInv, PerfInv, NoPerf, SeenInv, Crash, Running, Alive, PerfType, ChildType, Places
    <2> QED
        BY <2>1, <2>2, <2>3, <2>4, <2>5 DEF IInv
<1> QED
    BY <1>1, <1>2, <1>3, <1>4, <1>5, <1>6, <1>7 DEF Child

LEMMA PerfStep == ASSUME IInv, Perf PROVE IInv'
<1>1. ASSUME h # "failed", PerfStarts PROVE IInv'
    <2>1. TypeInv'
        BY <1>1 DEF IInv, TypeInv, PerfStarts, Alive, PerfType, ChildType, Places, SeenType
    <2>2. h' # "failed" => ChildInv'
        BY <1>1 DEF IInv, TypeInv, ChildInv, PerfStarts, Alive, ChildType, Places
    <2>3. h' # "failed" => PerfInv'
        BY <1>1 DEF IInv, TypeInv, ChildInv, PerfInv, NoPerf, PerfStarts, Alive, PerfType, ChildType, Places
    <2>4. h' # "failed" => SeenInv'
        BY <1>1 DEF IInv, TypeInv, ChildInv, PerfInv, NoPerf, SeenInv, PerfStarts, Alive, PerfType, SeenType, ChildType, Places
    <2>5. h' = "failed" => fault'
        BY <1>1 DEF IInv, TypeInv, ChildInv, PerfInv, NoPerf, SeenInv, PerfStarts, Alive, PerfType, ChildType, Places
    <2> QED
        BY <2>1, <2>2, <2>3, <2>4, <2>5 DEF IInv
<1>2. ASSUME h # "failed", PerfFails PROVE IInv'
    <2>1. TypeInv'
        BY <1>2 DEF IInv, TypeInv, PerfFails, PerfType
    <2>2. h' # "failed" => ChildInv'
        BY <1>2 DEF IInv, TypeInv, ChildInv, PerfFails, ChildType, Places
    <2>3. h' # "failed" => PerfInv'
        BY <1>2 DEF IInv, TypeInv, ChildInv, PerfInv, NoPerf, PerfFails, PerfType, ChildType, Places
    <2>4. h' # "failed" => SeenInv'
        BY <1>2 DEF IInv, TypeInv, ChildInv, PerfInv, NoPerf, SeenInv, PerfFails, PerfType, SeenType, ChildType, Places
    <2>5. h' = "failed" => fault'
        BY <1>2 DEF IInv, TypeInv, ChildInv, PerfInv, NoPerf, SeenInv, PerfFails, PerfType, ChildType, Places
    <2> QED
        BY <2>1, <2>2, <2>3, <2>4, <2>5 DEF IInv
<1>3. ASSUME h # "failed", PerfPrints PROVE IInv'
    <2>1. TypeInv'
        BY <1>3 DEF IInv, TypeInv, PerfPrints, PerfType
    <2>2. h' # "failed" => ChildInv'
        BY <1>3 DEF IInv, TypeInv, ChildInv, PerfPrints, ChildType, Places
    <2>3. h' # "failed" => PerfInv'
        BY <1>3 DEF IInv, TypeInv, ChildInv, PerfInv, NoPerf, PerfPrints, PerfType, ChildType, Places
    <2>4. h' # "failed" => SeenInv'
        BY <1>3 DEF IInv, TypeInv, ChildInv, PerfInv, NoPerf, SeenInv, PerfPrints, PerfType, SeenType, ChildType, Places
    <2>5. h' = "failed" => fault'
        BY <1>3 DEF IInv, TypeInv, ChildInv, PerfInv, NoPerf, SeenInv, PerfPrints, PerfType, ChildType, Places
    <2> QED
        BY <2>1, <2>2, <2>3, <2>4, <2>5 DEF IInv
<1>4. ASSUME h # "failed", PerfExits PROVE IInv'
    <2>1. TypeInv'
        BY <1>4, OutputFits DEF IInv, TypeInv, PerfExits, PerfType
    <2>2. h' # "failed" => ChildInv'
        BY <1>4, OutputFits DEF IInv, TypeInv, ChildInv, PerfExits, ChildType, Places
    <2>3. h' # "failed" => PerfInv'
        <3>1. metric = "serial" /\ h \in {"sleep", "go", "wait_end", "kill", "wait_dead", "wait_perf"}
            BY <1>4 DEF IInv, TypeInv, PerfInv, NoPerf, PerfExits
        <3>2. pipe = Lines /\ pipe > 0
            BY <1>4, <3>1, OutputFits DEF IInv, PerfInv, PerfExits
        <3>3. /\ perf'.pc = "ended" /\ perf'.ok
              /\ perf'.entry \/ fault'
            BY <1>4 DEF IInv, TypeInv, PerfExits, PerfType
        <3>4. UNCHANGED <<metric, h, pipe>>
            BY <1>4 DEF PerfExits
        <3> QED
            BY <3>1, <3>2, <3>3, <3>4 DEF PerfInv
    <2>4. h' # "failed" => SeenInv'
        BY <1>4, OutputFits DEF IInv, TypeInv, ChildInv, PerfInv, NoPerf, SeenInv, PerfExits, PerfType, SeenType, ChildType, Places
    <2>5. h' = "failed" => fault'
        BY <1>4, OutputFits DEF IInv, TypeInv, ChildInv, PerfInv, NoPerf, SeenInv, PerfExits, PerfType, ChildType, Places
    <2> QED
        BY <2>1, <2>2, <2>3, <2>4, <2>5 DEF IInv
<1> QED
    BY <1>1, <1>2, <1>3, <1>4 DEF Perf

LEMMA FailureInv == ASSUME IInv, SystemCallFails PROVE IInv'
<1>1. TypeInv'
    BY DEF IInv, TypeInv, SystemCallFails
<1>2. ~Refused
    BY DEF IInv, ChildInv, SystemCallFails, Refused, Alive
<1> QED
    BY <1>1, <1>2 DEF IInv, SystemCallFails

LEMMA StutterInv == ASSUME IInv, UNCHANGED vars PROVE IInv'
BY DEF IInv, TypeInv, ChildInv, PerfInv, SeenInv, vars, ChildType, PerfType, SeenType, NoPerf

LEMMA NextInv == IInv /\ [Next]_vars => IInv'
BY HarnessInv, FailureInv, ChildInvStep, PerfStep, StutterInv DEF Next, Done

LEMMA Invariance == Spec => []IInv
BY InitInv, NextInv, PTL DEF Spec

\* However the harness, the child and perf are scheduled (Spec is without
\* fairness), whichever system call fails, and for every number of repetitions:
\* a repetition that returns has measured the call from the first breakpoint on
\* to the second and has left no process behind, and execute() never gives up for
\* a reason of its own.
THEOREM MeasurementIsRight == Spec => []MeasuresTheCall
<1>1. IInv => MeasuresTheCall
    BY DEF IInv, TypeInv, ChildInv, PerfInv, SeenInv, MeasuresTheCall
<1> QED
    BY <1>1, Invariance, PTL

=============================================================================
