----------------------------- MODULE HostPrograms -----------------------------
(***************************************************************************)
(* The five test programs of plat_if_tests: each parses its command line   *)
(* (parse_args), connects to accelerators (Connect), asks whether it runs  *)
(* in simulation, allocates a CSR handle per accelerator, runs its test    *)
(* and closes what it opened.  A program that has ended can be run again.  *)
(***************************************************************************)
EXTENDS Connect, TLC

CONSTANTS MayRun,      \* which programs each process runs
          Args,        \* the arguments that may be on the command line of each
          MaxAllowed   \* host_chan_params' max_allowed_accels

VARIABLES prog,        \* the program of each process
          csrs,        \* csr_handles: how many are allocated
          status,      \* what main returns
          isAse,       \* main's is_ase
          tested       \* the accelerators the test was run on

vars == <<pc, config, tokens, handles, numHandles, result, aseCheckComplete, isAseSim,
          owner, prog, csrs, status, isAse, tested>>

Programs == {"host_chan_params", "host_chan_atomic", "host_chan_intr",
             "host_chan_mmio", "local_mem_params"}

\* An argument is an option with a number, with something that is not a
\* number, or without an argument.  strtoul turns -1 into ULONG_MAX, which
\* is -1 again as an int.
Argument(opt, kind, n) == [opt |-> opt, kind |-> kind, n |-> n]

HostAssumption ==
    /\ MayRun \in [Procs -> SUBSET Programs]
    /\ \A p \in Procs : \A g \in Args[p] : g.kind \in {"number", "bad", "none"} /\ g.n \in Int
    /\ MaxAllowed \in Nat \ {0}
ASSUME HostAssumption

\* What the arguments set: ok is FALSE when parse_args has returned -1.
NoArguments == [ok |-> TRUE, target |-> initTargetBDF, latency |-> FALSE, maxAccels |-> 1]
Refused(c) == [c EXCEPT !.ok = FALSE]
-----------------------------------------------------------------------------
(* parse_args                                                              *)

\* getopt_long returns ':' or '?': an option that is not in the table, or
\* that lacks its argument or has one too many.
GetoptFails(longopts, arg) ==
    \/ arg.opt \notin DOMAIN longopts
    \/ longopts[arg.opt] = "required" /\ arg.kind = "none"
    \/ longopts[arg.opt] = "no" /\ arg.kind # "none"

Required(opts) == [o \in opts |-> "required"]
BdfOptions == {"bus", "device", "function", "socket"}
IntrLongopts == ("help" :> "no") @@ Required(BdfOptions \cup {"segment"})
AtomicLongopts == ("help" :> "no") @@ ("v" :> "no") @@ Required(BdfOptions \cup {"verbose"})
ParamsLongopts == IntrLongopts @@ ("latency" :> "optional") @@ ("max-accels" :> "required")

\* case 'B', 'D', 'F', 'S' and 0xe
TargetCase(c, arg) ==
    IF arg.kind = "bad" THEN Refused(c) ELSE [c EXCEPT !.target[arg.opt] = arg.n]

\* Programs whose only options are help and the target.
TargetsOnly(c, arg) ==
    IF GetoptFails(IntrLongopts, arg) \/ arg.opt = "help" THEN Refused(c)
    ELSE TargetCase(c, arg)
IntrParse(c, arg) == TargetsOnly(c, arg)
MmioParse(c, arg) == TargetsOnly(c, arg)
LocalMemParse(c, arg) == TargetsOnly(c, arg)

\* The verbose flag changes only what is printed.  The long form wants an
\* argument, the short one does not.
AtomicParse(c, arg) ==
    IF GetoptFails(AtomicLongopts, arg) \/ arg.opt = "help" THEN Refused(c)
    ELSE IF arg.opt \in {"v", "verbose"} THEN c
    ELSE TargetCase(c, arg)

\* The latency mask matters only to the test itself.
ParamsParse(c, arg) ==
    IF GetoptFails(ParamsLongopts, arg) \/ arg.opt = "help" THEN Refused(c)
    ELSE IF arg.opt = "latency"
      THEN [c EXCEPT !.latency = TRUE, !.ok = arg.kind # "bad"]
    ELSE IF arg.opt = "max-accels"
      THEN IF arg.kind # "bad" /\ arg.n \in 0..MaxAllowed
             THEN [c EXCEPT !.maxAccels = arg.n] ELSE Refused(c)
    ELSE TargetCase(c, arg)
-----------------------------------------------------------------------------
(* Steps of main, given what differs from program to program.              *)
mainVars == <<prog, csrs, status, isAse, tested>>

Return(p, s) ==
    /\ GoTo(p, "returned")
    /\ status' = [status EXCEPT ![p] = s]

\* One more argument, with one of the outcomes that parse_args has for it.
Parses(p, outcomes) ==
    /\ pc[p] = "args"
    /\ config[p].ok
    /\ \E c \in outcomes : config' = [config EXCEPT ![p] = c]
    /\ UNCHANGED <<pc, connectVars, mainVars>>

\* parse_args returns: main gives up, or goes on to connect.  Arguments that
\* are left over are an error too.
Parsed(p, max) ==
    /\ pc[p] = "args"
    /\ \/ Return(p, 1) /\ UNCHANGED numHandles
       \/ /\ config[p].ok
          /\ numHandles' = [numHandles EXCEPT ![p] = max]
          /\ GoTo(p, "connect")
          /\ UNCHANGED status
    /\ UNCHANGED <<config, tokens, handles, result, aseCheckComplete, isAseSim, owner,
                   prog, csrs, isAse, tested>>

Dies(p) == Abort(p) /\ UNCHANGED <<config, prog, status, isAse, tested>>
               /\ csrs' = [csrs EXCEPT ![p] = 0]

\* One accelerator: connectToAccel asserts that there is one.
ConnectedToOne(p) ==
    /\ pc[p] = "connected"
    /\ \/ ~ AccelConnected(p) /\ Dies(p)
       \/ /\ AccelConnected(p)
          /\ GoTo(p, "probe")
          /\ UNCHANGED <<config, connectVars, mainVars>>

\* Mutant of ConnectedToSome: the result is not looked at.
ConnectedToSomeUnchecked(p) ==
    /\ pc[p] = "connected"
    /\ \/ /\ numHandles[p] = 0
          /\ Return(p, 0)
          /\ UNCHANGED <<config, connectVars, prog, csrs, isAse, tested>>
       \/ /\ numHandles[p] # 0
          /\ GoTo(p, "probe")
          /\ UNCHANGED <<config, connectVars, mainVars>>

\* Several accelerators: finding none is not an error.
ConnectedToSome(p) ==
    /\ pc[p] = "connected"
    /\ \/ result[p] # "ok" /\ Dies(p)
       \/ /\ result[p] = "ok" /\ numHandles[p] = 0
          /\ Return(p, 0)
          /\ UNCHANGED <<config, connectVars, prog, csrs, isAse, tested>>
       \/ /\ result[p] = "ok" /\ numHandles[p] # 0
          /\ GoTo(p, "probe")
          /\ UNCHANGED <<config, connectVars, mainVars>>

Probe(p) ==
    /\ pc[p] = "probe"
    /\ \E b \in probeForASE(p) : isAse' = [isAse EXCEPT ![p] = b]
    /\ GoTo(p, "alloc")
    /\ UNCHANGED <<config, connectVars, prog, csrs, status, tested>>

csrAllocHandle(p) == csrs' = [csrs EXCEPT ![p] = @ + 1]
csrReleaseHandle(p) == csrs' = [csrs EXCEPT ![p] = @ - 1]

\* A CSR handle for each accelerator; main asserts that malloc succeeded.
Alloc(p) ==
    /\ pc[p] = "alloc"
    /\ IF csrs[p] = numHandles[p]
         THEN GoTo(p, "test") /\ UNCHANGED <<config, connectVars, mainVars>>
         ELSE \/ /\ csrAllocHandle(p)
                 /\ UNCHANGED <<pc, config, connectVars, prog, status, isAse, tested>>
              \/ Dies(p)

\* The test runs on the first accelerator or on all of them, and returns how
\* many errors it found, or calls exit itself.
RunTest(p, all) ==
    /\ pc[p] = "test"
    /\ tested' = [tested EXCEPT ![p] = IF all THEN Opened(p) ELSE {handles[p][1]}]
    /\ \/ /\ \E s \in {0, 1} : status' = [status EXCEPT ![p] = s]
          /\ GoTo(p, "close")
          /\ UNCHANGED <<connectVars, csrs>>
       \/ /\ status' = [status EXCEPT ![p] = 1]
          /\ csrs' = [csrs EXCEPT ![p] = 0]
          /\ Abort(p)
    /\ UNCHANGED <<config, prog, isAse>>

\* The CSR handle and the accelerator of each are closed, then main returns.

\* Mutant of ToClose: only the first accelerator, which is the one tested.
ToCloseFirst(p) == IF csrs[p] = numHandles[p] THEN 1 ELSE 0

ToClose(p) == csrs[p]

CloseAll(p) ==
    /\ pc[p] = "close"
    /\ IF ToClose(p) = 0
         THEN GoTo(p, "returned") /\ UNCHANGED <<connectVars, csrs>>
         ELSE LET a == handles[p][1]
              IN  /\ owner' = [owner EXCEPT ![a] = NoProc]
                  /\ handles' = [handles EXCEPT ![p] = Tail(@)]
                  /\ csrReleaseHandle(p)
                  /\ UNCHANGED <<pc, tokens, numHandles, result, aseCheckComplete, isAseSim>>
    /\ UNCHANGED <<config, prog, status, isAse, tested>>
-----------------------------------------------------------------------------
(* The five mains                                                          *)
OneAccelMain(p, outcomes) ==
    \/ Parses(p, outcomes) \/ Parsed(p, 1) \/ ConnectedToOne(p)
    \/ Probe(p) \/ Alloc(p) \/ RunTest(p, FALSE) \/ CloseAll(p)

AtomicMain(p) ==
    /\ prog[p] = "host_chan_atomic"
    /\ OneAccelMain(p, {AtomicParse(config[p], arg) : arg \in Args[p]})
IntrMain(p) ==
    /\ prog[p] = "host_chan_intr"
    /\ OneAccelMain(p, {IntrParse(config[p], arg) : arg \in Args[p]})
MmioMain(p) ==
    /\ prog[p] = "host_chan_mmio"
    /\ OneAccelMain(p, {MmioParse(config[p], arg) : arg \in Args[p]})
LocalMemMain(p) ==
    /\ prog[p] = "local_mem_params"
    /\ OneAccelMain(p, {LocalMemParse(config[p], arg) : arg \in Args[p]})

ParamsMain(p) ==
    /\ prog[p] = "host_chan_params"
    /\ \/ Parses(p, {ParamsParse(config[p], arg) : arg \in Args[p]})
       \/ Parsed(p, config[p].maxAccels) \/ ConnectedToSome(p)
       \/ Probe(p) \/ Alloc(p) \/ RunTest(p, config[p].latency) \/ CloseAll(p)

\* Static variables when a program starts.
Starts(p) ==
    /\ pc[p] \in {"returned", "aborted"}
    /\ GoTo(p, "args")
    /\ \E g \in MayRun[p] : prog' = [prog EXCEPT ![p] = g]
    /\ config' = [config EXCEPT ![p] = NoArguments]
    /\ numHandles' = [numHandles EXCEPT ![p] = 0]
    /\ result' = [result EXCEPT ![p] = "ok"]
    /\ aseCheckComplete' = [aseCheckComplete EXCEPT ![p] = FALSE]
    /\ isAseSim' = [isAseSim EXCEPT ![p] = FALSE]
    /\ isAse' = [isAse EXCEPT ![p] = FALSE]
    /\ status' = [status EXCEPT ![p] = 1]
    /\ tested' = [tested EXCEPT ![p] = {}]
    /\ UNCHANGED <<tokens, handles, csrs, owner>>

Init ==
    /\ prog \in {g \in [Procs -> Programs] : \A p \in Procs : g[p] \in MayRun[p]}
    /\ pc = [p \in Procs |-> "args"]
    /\ config = [p \in Procs |-> NoArguments]
    /\ tokens = [p \in Procs |-> <<>>]
    /\ handles = [p \in Procs |-> <<>>]
    /\ numHandles = [p \in Procs |-> 0]
    /\ result = [p \in Procs |-> "ok"]
    /\ aseCheckComplete = [p \in Procs |-> FALSE]
    /\ isAseSim = [p \in Procs |-> FALSE]
    /\ owner = [a \in Accels |-> NoProc]
    /\ csrs = [p \in Procs |-> 0]
    /\ status = [p \in Procs |-> 1]
    /\ isAse = [p \in Procs |-> FALSE]
    /\ tested = [p \in Procs |-> {}]

Main(p) ==
    \/ connectToMatchingAccels(p) /\ UNCHANGED mainVars
    \/ AtomicMain(p) \/ IntrMain(p) \/ MmioMain(p) \/ LocalMemMain(p) \/ ParamsMain(p)

Next == \E p \in Procs : Main(p) \/ Starts(p)

\* A program goes on running, and its command line ends.
Fairness ==
    \A p \in Procs :
        /\ WF_vars(pc[p] # "args" /\ Main(p))
        /\ WF_vars(pc[p] = "args" /\ Main(p) /\ pc'[p] # "args")

Spec == Init /\ [][Next]_vars /\ Fairness
-----------------------------------------------------------------------------
(* Properties                                                              *)
Labels == {"args", "connect", "filter", "enumerate", "open", "connected", "probe",
           "alloc", "test", "close", "returned", "aborted"}

\* The fixed arrays are not overrun: no more tokens than accel_tokens has
\* places, no more handles than accel_handles has, which is what was asked for.
TypeOK ==
    /\ pc \in [Procs -> Labels]
    /\ \A p \in Procs :
          /\ config[p] \in [ok : BOOLEAN, latency : BOOLEAN, maxAccels : 0..MaxAllowed,
                             target : [TargetFields -> Int]]
          /\ tokens[p] \in Seq(Accels) /\ Len(tokens[p]) + Len(handles[p]) <= MaxTokens
          /\ handles[p] \in Seq(Accels)
          /\ Len(tokens[p]) + Len(handles[p]) <= config[p].maxAccels
          /\ numHandles[p] \in 0..MaxAllowed
          /\ result[p] \in {"ok", "error"} /\ status[p] \in {0, 1}
          /\ csrs[p] \in 0..MaxTokens
          /\ tested[p] \subseteq Accels
    /\ prog \in [Procs -> Programs]
    /\ aseCheckComplete \in [Procs -> BOOLEAN] /\ isAseSim \in [Procs -> BOOLEAN]
    /\ isAse \in [Procs -> BOOLEAN]
    /\ owner \in [Accels -> Procs \cup {NoProc}]

\* When a test runs, it has as many accelerators as it was told, each of them
\* open by this program, only once and at the wanted place, with a CSR handle,
\* whatever opened or failed meanwhile; and it takes for a simulation what was
\* recorded as one when it opened them (connectToMatchingAccels, probeForASE and
\* the mains).
TestRunsOnItsAccels ==
    \A p \in Procs : pc[p] = "test" =>
        /\ handles[p] # <<>> /\ Len(handles[p]) = numHandles[p] /\ csrs[p] = numHandles[p]
        /\ \A i, j \in DOMAIN handles[p] : handles[p][i] = handles[p][j] => i = j
        /\ \A a \in Opened(p) : owner[a] = p /\ a \in Matching(config[p].target)
        /\ aseCheckComplete[p] /\ isAse[p] = isAseSim[p]

\* A program that returns from main has closed every accelerator and released
\* every CSR handle and, outside the loop that uses them, every token: nothing
\* is left to the operating system, after partial failures either.
NothingLeftBehind ==
    \A p \in Procs :
        /\ pc[p] = "returned" => csrs[p] = 0 /\ \A a \in Accels : owner[a] # p
        /\ pc[p] # "open" => tokens[p] = <<>>

\* Status 0 says that a test was run on an accelerator of the wanted place;
\* only host_chan_params returns it without a test, when there is none.
ZeroStatusMeansTested ==
    \A p \in Procs : pc[p] = "returned" /\ status[p] = 0 =>
        \/ tested[p] # {} /\ tested[p] \subseteq Matching(config[p].target)
        \/ prog[p] = "host_chan_params" /\ Matching(config[p].target) = {}

\* Programs that compete for accelerators do not wait for each other: each run
\* ends, whatever the others hold.
EveryRunEnds == \A p \in Procs : []<>(pc[p] \in {"returned", "aborted"})
=============================================================================
