------------------------------ MODULE EngineRuns ------------------------------
(***************************************************************************)
(* host_chan_params running its engines (host_chan_params/sw/              *)
(* test_host_chan_params.c) over the CSR manager of each accelerator       *)
(* (CsrMgr).  A test of small regions starts engines of one accelerator    *)
(* and polls until they are done, at most for some seconds; a bandwidth    *)
(* test starts engines of all accelerators, lets them run and stops them.  *)
(* Engines have a global number: those of the first accelerator, then      *)
(* those of the next.                                                      *)
(***************************************************************************)
EXTENDS CsrMgr

CONSTANTS Runs         \* the tests a program may run

VARIABLES pc, run,     \* where the program is, and the test it is running
          at,          \* the accelerator a loop is at
          tag,         \* tells the results of one test from those of the last
          afuMhz,      \* has s_afu_mhz been computed?
          misled       \* history: has a wait ended on a flag that was low too early?

swVars == <<pc, run, at, tag, afuMhz, misled>>
vars == <<hwVars, swVars>>

\* A test: small regions or bandwidth, the accelerators, the engine mask in
\* global numbers, and how much each engine is to request.
EngineRunsAssumption ==
    \A r \in Runs :
        /\ r.kind \in {"regions", "bandwidth"}
        /\ r.accels \in Seq(Accels) /\ r.accels # <<>> /\ IsInjective(r.accels)
        /\ r.emask # {}
        /\ r.beats \in Nat \cup {Unlimited}
        /\ IF r.kind = "regions" THEN Len(r.accels) = 1 /\ r.beats # Unlimited
                                  ELSE r.beats = Unlimited
ASSUME EngineRunsAssumption

\* accel_eng_idx and csr_handle of a global engine, in s_eng_bufs.
FirstEngine(accels, i) ==
    FoldLeft(LAMBDA n, a : n + NumEngines[a], 0, SubSeq(accels, 1, i - 1))
Selected(r, i) ==
    {e \in Engines(r.accels[i]) : FirstEngine(r.accels, i) + e \in r.emask}

\* Is every engine that is selected in the mask that all accelerators are
\* sent?  For one accelerator it is.
MaskAgrees(r) == \A i \in DOMAIN r.accels : Selected(r, i) \subseteq r.emask

PlaceOf(a, accels) == CHOOSE i \in DOMAIN accels : accels[i] = a
Accel == run.accels[at]
LastAccel == run.accels[Len(run.accels)]
Goto(label) == pc' = label
HwUnchanged == UNCHANGED <<state, holdCnt, stateReset, stateRun, runPipe, activePipe,
                           someEnabled, countPipe, countReset, cfg, eng, counts, hiddenPipe>>
Posts(accels, writes(_)) ==
    /\ wire' = [a \in Accels |-> IF a \in Range(accels) THEN wire[a] \o writes(a) ELSE wire[a]]
    /\ UNCHANGED <<sinceRead, moved>> /\ HwUnchanged
Reads(a) == csrRead(a) /\ UNCHANGED <<wire, moved>> /\ HwUnchanged
-----------------------------------------------------------------------------
(* configBandwidth, or the same writes of testSmallRegions, for each       *)
(* engine that is selected, in an order that makes no difference: each has *)
(* its own register.  Then every accelerator is sent the same mask.        *)
Config(r, i) ==
    LET order == SetToSeq(Selected(r, i))
        value == [tag |-> ~tag, beats |-> r.beats]
    IN  [n \in DOMAIN order |-> Head(csrEngWrite(order[n], 2, value))]

Start ==
    /\ pc = "choose"
    /\ \E r \in Runs :
        /\ run' = r
        /\ Posts(r.accels, LAMBDA a : Config(r, PlaceOf(a, r.accels)) \o csrEnableEngines(r.emask))
        /\ Goto(IF r.kind = "regions" THEN "pollEnabled" ELSE "waitStart")
    /\ at' = 1
    /\ tag' = ~tag
    /\ UNCHANGED <<afuMhz, misled>>

\* testSmallRegions: not enabled yet, or still active: sleep and poll again,
\* or, when it has taken too long, engineErrorAndExit.
NotDone == Goto("pollEnabled") \/ Goto("exited")

\* Mutant of PollEnabled: only the active mask is looked at.
PollEnabledIgnored ==
    /\ pc = "pollEnabled"
    /\ Reads(Accel)
    /\ Goto("pollActive")
    /\ UNCHANGED <<run, at, tag, afuMhz, misled>>

PollEnabled ==
    /\ pc = "pollEnabled"
    /\ Reads(Accel)
    /\ IF csrGetEnginesEnabled(Accel) = {} THEN NotDone ELSE Goto("pollActive")
    /\ UNCHANGED <<run, at, tag, afuMhz, misled>>

\* A wait ends: was a flag that it read low because a counter was late?
WaitEnds(a) == misled' = (misled \/ Last(hiddenPipe[a]) # {})

PollActive ==
    /\ pc = "pollActive"
    /\ Reads(Accel)
    /\ IF csrGetEnginesActive(Accel) # {} THEN NotDone /\ UNCHANGED misled
       ELSE Goto("stop") /\ WaitEnds(Accel)
    /\ UNCHANGED <<run, at, tag, afuMhz>>

\* csrDisableEngines of the accelerators.
Stop ==
    /\ pc = "stop"
    /\ Posts(run.accels, LAMBDA a : csrDisableEngines(run.emask))
    /\ Goto(IF run.kind = "regions" THEN "results" ELSE "waitStop")
    /\ at' = 1
    /\ UNCHANGED <<run, tag, afuMhz, misled>>

\* runBandwidth waits only for the last accelerator to start.

\* Mutant of HasStarted: all that was asked for must be enabled.
HasStartedAll(enabled) == run.emask \subseteq enabled

HasStarted(enabled) == enabled # {}

WaitStart ==
    /\ pc = "waitStart"
    /\ Reads(LastAccel)
    /\ IF HasStarted(csrGetEnginesEnabled(LastAccel)) THEN Goto("running") ELSE UNCHANGED pc
    /\ UNCHANGED <<run, at, tag, afuMhz, misled>>

\* usleep, a tenth of a second: posted writes have arrived, engines have
\* started and the registers have settled.
Settled(a) ==
    /\ wire[a] = <<>> /\ state[a] = "READY"
    /\ runPipe[a] = Filled(RunStages, [reset |-> {}, run |-> stateRun[a]])
    /\ activePipe[a] = Filled(ActiveStages, {e \in Engines(a) : StatusActive(a, e)})
    /\ hiddenPipe[a] = Filled(ActiveStages, {e \in Engines(a) : Hidden(a, e)})

Sleep ==
    /\ pc = "running"
    /\ \A i \in DOMAIN run.accels : Settled(run.accels[i])
    /\ Goto("stop")
    /\ UNCHANGED <<hwVars, run, at, tag, afuMhz, misled>>

\* Mutant of HasStopped: an engine that is disabled is believed to be idle.
HasStoppedDisabled(a) == csrGetEnginesEnabled(a) = {}

HasStopped(a) == csrGetEnginesActive(a) = {}

WaitStop ==
    /\ pc = "waitStop"
    /\ Reads(Accel)
    /\ IF ~ HasStopped(Accel) THEN UNCHANGED <<pc, at, misled>>
       ELSE /\ WaitEnds(Accel)
            /\ IF at < Len(run.accels) THEN at' = at + 1 /\ UNCHANGED pc
               ELSE Goto(IF afuMhz THEN "results" ELSE "clkEnabled") /\ UNCHANGED at
    /\ UNCHANGED <<run, tag, afuMhz>>

\* csrGetClockMHz of the first accelerator: gives up when an engine is
\* enabled; a counter that is zero gives zero, and is tried again next time.
ClkEnabled ==
    /\ pc = "clkEnabled"
    /\ Reads(run.accels[1])
    /\ Goto(IF csrGetEnginesEnabled(run.accels[1]) # {} THEN "results" ELSE "clkCycles")
    /\ UNCHANGED <<run, at, tag, afuMhz, misled>>

ClkCycles ==
    /\ pc = "clkCycles"
    /\ csrRead(run.accels[1])
    /\ moved' = [moved EXCEPT ![run.accels[1]] = FALSE]
    /\ Goto("clkPclk")
    /\ UNCHANGED <<wire, run, at, tag, afuMhz, misled>> /\ HwUnchanged

ClkPclk ==
    /\ pc = "clkPclk"
    /\ Reads(run.accels[1])
    /\ afuMhz' \in BOOLEAN
    /\ Goto("results")
    /\ UNCHANGED <<run, at, tag, misled>>

\* The results are read from the engines and from memory; a small region that
\* was not read as expected ends the program.
Results ==
    /\ pc = "results"
    /\ Reads(run.accels[1])
    /\ \/ Goto("choose")
       \/ run.kind = "regions" /\ Goto("exited")
    /\ UNCHANGED <<run, at, tag, afuMhz, misled>>

Program ==
    \/ Start \/ PollEnabled \/ PollActive \/ WaitStart \/ Sleep \/ Stop \/ WaitStop
    \/ ClkEnabled \/ ClkCycles \/ ClkPclk \/ Results

Init ==
    /\ HardwareInit
    /\ pc = "choose"
    /\ run \in Runs
    /\ at = 1
    /\ tag = FALSE
    /\ afuMhz = FALSE
    /\ misled = FALSE

Next == Program \/ \E a \in Accels : Hardware(a) /\ UNCHANGED swVars

\* The program runs, clocks run, posted writes arrive, memory answers.
Fairness ==
    /\ WF_vars(Program)
    /\ \A a \in Accels :
        /\ WF_vars(Tick(a) /\ UNCHANGED swVars)
        /\ WF_vars(WriteArrives(a) /\ UNCHANGED swVars)
        /\ \A e \in Engines(a) : /\ WF_vars(Accepts(a, e) /\ UNCHANGED swVars)
                                 /\ WF_vars(Answers(a, e) /\ UNCHANGED swVars)

Spec == Init /\ [][Next]_vars /\ Fairness
-----------------------------------------------------------------------------
(* Properties                                                              *)
Labels == {"choose", "pollEnabled", "pollActive", "waitStart", "running", "stop", "waitStop",
           "clkEnabled", "clkCycles", "clkPclk", "results", "exited"}

\* Types; no engine that does not exist is started.
TypeOK ==
    /\ pc \in Labels /\ run \in Runs /\ at \in DOMAIN run.accels
    /\ tag \in BOOLEAN /\ afuMhz \in BOOLEAN /\ misled \in BOOLEAN
    /\ \A a \in Accels :
        /\ \A i \in DOMAIN wire[a] : Space(wire[a][i].index) \in {"control", "engine"}
        /\ sinceRead[a] \in 0..RoundTrip
        /\ state[a] \in {"READY", "HOLD_RESET", "ENG_START"} /\ holdCnt[a] \in 0..HoldCycles
        /\ stateReset[a] \subseteq Engines(a) /\ stateRun[a] \subseteq Engines(a)
        /\ Len(runPipe[a]) = RunStages /\ Len(activePipe[a]) = ActiveStages
        /\ Len(countPipe[a]) = CountStages
        /\ \A i \in 1..ActiveStages : activePipe[a][i] \subseteq Engines(a)
        /\ \A e \in Engines(a) : eng[a][e].out \in 0..MaxOut

\* The CSR manager ignores commands while it starts engines; no enable or
\* disable command of the program ever arrives at such a time (csr_mgr.sv
\* is_cmd, against the order of calls in the tests).
NoCommandIsLost ==
    [][\A a \in Accels :
        wire[a] # <<>> /\ wire'[a] = Tail(wire[a]) /\ IsCommand(Head(wire[a]))
        => state[a] = "READY"]_vars

\* Engines are put in reset only when they are idle, unless a late counter has
\* misled the program: no request of the run before is in flight whose response
\* would be counted for the next.
ResetFindsEngineIdle ==
    ~ misled => \A a \in Accels : \A e \in Last(runPipe[a]).reset : eng[a][e].out = 0

\* Every engine that was to run has run: it works for this test and not the last
\* one, has requested all that it was to, has had all responses and will not
\* write to memory any more.
Done ==
    \A i \in DOMAIN run.accels : \A e \in Selected(run, i) :
        LET a == run.accels[i]
        IN  /\ eng[a][e].tag = tag /\ eng[a][e].out = 0
            /\ eng[a][e].left \in {0, Unlimited}
            /\ ~ StatusActive(a, e)

\* When the program reads its results, its engines are done, unless a late
\* counter has misled it.
ResultsAreFinal == pc = "results" /\ ~ misled => Done

\* What testSmallRegions says of its wait: "Execution is done when the engine is
\* enabled and the active flag goes low."
LowFlagMeansDone == pc = "results" => Done

\* Both cycle counters are read while they stand still, so that their ratio
\* is the ratio of the clocks (csrGetClockMHz), unless a late counter has misled
\* the program.
ClockReadsAgree == pc = "clkPclk" /\ ~ misled => ~ moved[run.accels[1]]

\* A test ends: the engines that are waited for start, and those that are
\* stopped become idle.  A response that arrives after a reset would keep an
\* engine active for ever.
RunsEnd == <>misled \/ []<>(pc \in {"choose", "exited"})
=============================================================================
