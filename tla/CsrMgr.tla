-------------------------------- MODULE CsrMgr --------------------------------
(***************************************************************************)
(* The CSR manager of the test AFUs, common/hw/rtl/csr_mgr.sv, with the    *)
(* engines it controls, and the functions of common/sw/csr_mgr.c through   *)
(* which a program reaches it.  One state machine per accelerator starts   *)
(* the engines: it holds them in reset, then lets them run.  Registers     *)
(* between the state machine and the engines delay what each side sees of  *)
(* the other.  A CSR write is posted; a read waits for the writes before   *)
(* it, and the next read comes at least a round trip to the host later.    *)
(***************************************************************************)
EXTENDS CsrSpace, SequencesExt

CONSTANTS Accels, NumEngines,  \* the accelerators, and the engines of each
          RunStages,           \* registers from state_run to the engine's state_run
          ActiveStages,        \* registers from the engine to status_active
          CountStages,         \* registers through which the cycle counters are driven
          HoldCycles,          \* how long STATE_HOLD_RESET lasts
          RoundTrip,           \* least cycles between two CSR reads of a program
          MaxOut               \* requests an engine may have in flight

VARIABLES wire,        \* CSR writes on their way
          sinceRead,   \* cycles since the last CSR read, up to RoundTrip
          state, holdCnt, stateReset, stateRun,
          runPipe,     \* state_reset and state_run on their way to the engines
          activePipe,  \* status_active on its way back; the last is the CSR
          someEnabled, \* some_engine_is_enabled
          countPipe,   \* cycle_counter_enable on its way to the counters
          countReset,  \* are the counters held in reset?
          moved,       \* have the counters changed since they were last read?
          cfg,         \* of each engine: what to do, as configured
          eng,         \* of each engine: what is left to request and in flight
          counts,      \* of each engine: its counters, requests less responses
          hiddenPipe   \* history: which flags of activePipe are low too early

hwVars == <<wire, sinceRead, state, holdCnt, stateReset, stateRun, runPipe, activePipe,
            someEnabled, countPipe, countReset, moved, cfg, eng, counts, hiddenPipe>>

CsrMgrAssumption ==
    /\ NumEngines \in [Accels -> 1..MAX_NUM_ENGINES]
    /\ RunStages \in Nat \ {0} /\ ActiveStages \in Nat \ {0} /\ CountStages \in Nat \ {0}
    /\ HoldCycles \in Nat \ {0} /\ MaxOut \in Nat \ {0}
    /\ RoundTrip \in Nat /\ RoundTrip >= RunStages + ActiveStages
    /\ RoundTrip >= CountStages
ASSUME CsrMgrAssumption

Engines(a) == 0..(NumEngines[a] - 1)
Shift(new, pipe) == <<new>> \o SubSeq(pipe, 1, Len(pipe) - 1)
Filled(n, x) == [i \in 1..n |-> x]
Unlimited == -1
-----------------------------------------------------------------------------
(* csr_mgr.c.  A mask is the set of its bits.                              *)
ReadData(a, index) ==
    CASE index = CSR_RD_CTRL_ENG_RUN_MASK -> stateRun[a]
      [] index = CSR_RD_CTRL_ENG_ACTIVE_MASK -> Last(activePipe[a])
      [] index = CSR_RD_CTRL_CONFIG_INFO -> NumEngines[a]

csrRead(a) ==
    /\ wire[a] = <<>>
    /\ sinceRead[a] = RoundTrip
    /\ sinceRead' = [sinceRead EXCEPT ![a] = 0]

csrWrite(index, value) == <<[index |-> index, value |-> value]>>

csrGetNumEngines(a) == ReadData(a, CSR_RD_CTRL_CONFIG_INFO)
csrGetEnginesEnabled(a) == ReadData(a, CSR_RD_CTRL_ENG_RUN_MASK)
csrGetEnginesActive(a) == ReadData(a, CSR_RD_CTRL_ENG_ACTIVE_MASK)
csrEnableEngines(mask) == csrWrite(CSR_WR_CTRL_ENG_ENABLE_MASK, mask)
csrDisableEngines(mask) == csrWrite(CSR_WR_CTRL_ENG_DISABLE_MASK, mask)
csrEngWrite(e, idx, value) ==
    IF EngAccepted(e, idx) THEN csrWrite(EngIndex(e, idx), value) ELSE <<>>
-----------------------------------------------------------------------------
(* csr_mgr.sv: commands                                                    *)
IsCommand(w) == Space(w.index) = "control"
IsEnable(w) == IsCommand(w) /\ RegisterOf(w.index) = 0
IsDisable(w) == IsCommand(w) /\ RegisterOf(w.index) = 1

\* Mutant of Commanded: bits above the last engine are not ignored.
CommandedUnmasked(a, mask) == mask

Commanded(a, mask) == mask \cap Engines(a)

Enable(a, mask) ==
    /\ state' = [state EXCEPT ![a] = "HOLD_RESET"]
    /\ holdCnt' = [holdCnt EXCEPT ![a] = 1]
    /\ stateReset' = [stateReset EXCEPT ![a] = @ \cup Commanded(a, mask)]
    /\ countReset' = [countReset EXCEPT ![a] = @ \/ ~ someEnabled[a]]
    /\ UNCHANGED <<stateRun, cfg>>

Disable(a, mask) ==
    /\ stateRun' = [stateRun EXCEPT ![a] = @ \ mask]
    /\ UNCHANGED <<state, holdCnt, stateReset, countReset, cfg>>

\* The burst details of an engine, CSRs 2 and 3.
Configure(a, w) ==
    /\ cfg' = IF EngineOf(w.index) \in Engines(a)
                THEN [cfg EXCEPT ![a][EngineOf(w.index)] = w.value] ELSE cfg
    /\ UNCHANGED <<state, holdCnt, stateReset, stateRun, countReset>>

\* A command that finds the state machine busy is lost.
WriteArrives(a) ==
    LET w == Head(wire[a])
    IN  /\ wire[a] # <<>>
        /\ wire' = [wire EXCEPT ![a] = Tail(@)]
        /\ IF IsCommand(w) /\ state[a] # "READY"
             THEN UNCHANGED <<state, holdCnt, stateReset, stateRun, countReset, cfg>>
             ELSE \/ IsEnable(w) /\ Enable(a, w.value)
                  \/ IsDisable(w) /\ Disable(a, w.value)
                  \/ Space(w.index) = "engine" /\ Configure(a, w)
        /\ UNCHANGED <<sinceRead, runPipe, activePipe, someEnabled, countPipe, moved, eng, counts,
                       hiddenPipe>>

\* Mutant of StatusActive: what is in flight does not count.
StatusActiveRequests(a, e) == e \in Last(runPipe[a]).run /\ eng[a][e].left # 0

\* The engine: it runs and has something to request, or its counters say that
\* something is in flight.
StatusActive(a, e) ==
    \/ e \in Last(runPipe[a]).run /\ eng[a][e].left # 0
    \/ counts[a][e].value # 0

\* The counters are late: the flag is low and a request is not counted yet.
Hidden(a, e) ==
    /\ ~ StatusActive(a, e)
    /\ counts[a][e].incr # 0 \/ counts[a][e].low # counts[a][e].value

\* A cycle of the accelerator's clock.
StateMachine(a) ==
    \/ /\ state[a] = "READY"
       /\ UNCHANGED <<state, holdCnt, stateReset, stateRun, countReset>>
    \/ /\ state[a] = "HOLD_RESET" /\ holdCnt[a] < HoldCycles
       /\ holdCnt' = [holdCnt EXCEPT ![a] = @ + 1]
       /\ UNCHANGED <<state, stateReset, stateRun, countReset>>
    \/ /\ state[a] = "HOLD_RESET" /\ holdCnt[a] = HoldCycles
       /\ holdCnt' = [holdCnt EXCEPT ![a] = 0]
       /\ state' = [state EXCEPT ![a] = "ENG_START"]
       /\ countReset' = [countReset EXCEPT ![a] = FALSE]
       /\ UNCHANGED <<stateReset, stateRun>>
    \/ /\ state[a] = "ENG_START"
       /\ state' = [state EXCEPT ![a] = "READY"]
       /\ stateRun' = [stateRun EXCEPT ![a] = @ \cup stateReset[a]]
       /\ stateReset' = [stateReset EXCEPT ![a] = {}]
       /\ UNCHANGED <<holdCnt, countReset>>

\* The engines whose next request memory may accept, and that it may answer.
Asking(a) ==
    {e \in Engines(a) : /\ e \in Last(runPipe[a]).run
                        /\ eng[a][e].left # 0 /\ eng[a][e].out < MaxOut}
Waiting(a) == {e \in Engines(a) : eng[a][e].out > 0}

\* What a cycle adds to the requests in flight of an engine.
Change(e, asked, answered) ==
    (IF e \in asked THEN 1 ELSE 0) - (IF e \in answered THEN 1 ELSE 0)

\* An engine in reset takes its settings; its counters are zero, but for what
\* incr brings after the reset.  The counters are sums in two registers.
Engine(a, e, asked, answered) ==
    LET en == eng[a][e]
        reset == e \in Last(runPipe[a]).reset
    IN  [tag |-> IF reset THEN cfg[a][e].tag ELSE en.tag,
         left |-> IF reset THEN cfg[a][e].beats
                  ELSE IF e \in asked /\ en.left # Unlimited THEN en.left - 1 ELSE en.left,
         out |-> en.out + Change(e, asked, answered)]
Counters(a, e, asked, answered) ==
    LET c == counts[a][e]
        reset == e \in Last(runPipe[a]).reset
    IN  [incr |-> Change(e, asked, answered),
         low |-> IF reset THEN 0 ELSE c.low + c.incr,
         value |-> IF reset THEN 0 ELSE c.low]

Cycle(a, asked, answered) ==
    /\ StateMachine(a)
    /\ someEnabled' = [someEnabled EXCEPT ![a] = stateRun[a] # {}]
    /\ runPipe' = [runPipe EXCEPT ![a] = Shift([reset |-> stateReset[a], run |-> stateRun[a]], @)]
    /\ activePipe' = [activePipe EXCEPT ![a] = Shift({e \in Engines(a) : StatusActive(a, e)}, @)]
    /\ hiddenPipe' = [hiddenPipe EXCEPT ![a] = Shift({e \in Engines(a) : Hidden(a, e)}, @)]
    /\ countPipe' = [countPipe EXCEPT ![a] = Shift(Last(activePipe[a]) # {}, @)]
    /\ moved' = [moved EXCEPT ![a] =
                    @ \/ countReset[a] \/ \E i \in DOMAIN countPipe[a] : countPipe[a][i]]
    /\ eng' = [eng EXCEPT ![a] = [e \in Engines(a) |-> Engine(a, e, asked, answered)]]
    /\ counts' = [counts EXCEPT ![a] = [e \in Engines(a) |-> Counters(a, e, asked, answered)]]
    /\ sinceRead' = [sinceRead EXCEPT ![a] = IF @ < RoundTrip THEN @ + 1 ELSE @]
    /\ UNCHANGED <<wire, cfg>>

\* A cycle in which memory accepts and answers what it likes.
Tick(a) ==
    \E asked \in SUBSET Asking(a), answered \in SUBSET Waiting(a) : Cycle(a, asked, answered)

\* A cycle in which it accepts a request of an engine, or answers one.
Accepts(a, e) ==
    /\ e \in Asking(a)
    /\ \E asked \in SUBSET Asking(a), answered \in SUBSET Waiting(a) :
           e \in asked /\ Cycle(a, asked, answered)
Answers(a, e) ==
    /\ e \in Waiting(a)
    /\ \E asked \in SUBSET Asking(a), answered \in SUBSET Waiting(a) :
           e \in answered /\ Cycle(a, asked, answered)

Hardware(a) == WriteArrives(a) \/ Tick(a)

HardwareInit ==
    /\ wire = [a \in Accels |-> <<>>]
    /\ sinceRead = [a \in Accels |-> RoundTrip]
    /\ state = [a \in Accels |-> "READY"]
    /\ holdCnt = [a \in Accels |-> 0]
    /\ stateReset = [a \in Accels |-> {}]
    /\ stateRun = [a \in Accels |-> {}]
    /\ runPipe = [a \in Accels |-> Filled(RunStages, [reset |-> {}, run |-> {}])]
    /\ activePipe = [a \in Accels |-> Filled(ActiveStages, {})]
    /\ someEnabled = [a \in Accels |-> FALSE]
    /\ countPipe = [a \in Accels |-> Filled(CountStages, FALSE)]
    /\ countReset = [a \in Accels |-> TRUE]
    /\ moved = [a \in Accels |-> FALSE]
    /\ cfg = [a \in Accels |-> [e \in Engines(a) |-> [tag |-> FALSE, beats |-> 0]]]
    /\ eng = [a \in Accels |-> [e \in Engines(a) |-> [tag |-> FALSE, left |-> 0, out |-> 0]]]
    /\ counts = [a \in Accels |-> [e \in Engines(a) |-> [incr |-> 0, low |-> 0, value |-> 0]]]
    /\ hiddenPipe = [a \in Accels |-> Filled(ActiveStages, {})]
=============================================================================
