----------------------------- MODULE MCEngineRuns -----------------------------
(* Two accelerators, the first with two engines, of which the tests leave    *)
(* the second out; and the instances of two findings: one accelerator with   *)
(* two engines, and two with an engine each.                                 *)
EXTENDS EngineRuns

CONSTANTS a0, a1

MCOneAccel == {a0}
MCTwoAccels == {a0, a1}
MCTwoAndOne == [a \in MCTwoAccels |-> IF a = a0 THEN 2 ELSE 1]
MCTwoEngines == [a \in MCOneAccel |-> 2]
MCOneEngine == [a \in MCTwoAccels |-> 1]
Regions(accel, emask) ==
    [kind |-> "regions", accels |-> <<accel>>, emask |-> emask, beats |-> 1]
Bandwidth(accels, emask) ==
    [kind |-> "bandwidth", accels |-> accels, emask |-> emask, beats |-> Unlimited]
MCTwoAccelRuns == {Regions(a0, {0}), Bandwidth(<<a0, a1>>, {0, 2})}
MCSmallRegions == {Regions(a0, {0, 1})}
\* --latency=2 --max-accels=2: only the engine of the second accelerator.
MCSecondOnly == {Bandwidth(<<a0, a1>>, {1})}
\* What a run that two accelerators make too long leaves out: how a program goes
\* on that was misled, of which no property but NoCommandIsLost and TypeOK says
\* anything.
NotMisled == ~ misled
=============================================================================
