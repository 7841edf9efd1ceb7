---------------------------- MODULE MCHostPrograms ----------------------------
(* One process runs any of the five programs, the other host_chan_params,   *)
(* on three accelerators at two buses.                                      *)
EXTENDS HostPrograms

CONSTANTS p1, p2, a1, a2, a3

MCProcs == {p1, p2}
MCAccels == {a1, a2, a3}
At(bus, function) ==
    [f \in TargetFields |-> IF f = "bus" THEN bus ELSE IF f = "function" THEN function ELSE 0]
MCAddress == [a \in MCAccels |-> IF a = a1 THEN At(0, 0) ELSE At(1, IF a = a2 THEN 0 ELSE 1)]
MCMayRun == [p \in MCProcs |-> IF p = p1 THEN Programs
                               ELSE {"host_chan_params"}]
MCArgs == [p \in MCProcs |->
    {Argument("max-accels", "number", 3)} \cup
    IF p = p1
      THEN {Argument("bus", "number", n) : n \in {-1, 1}} \cup
           {Argument("function", "number", 2), Argument("segment", "bad", 0)} \cup
           {Argument("max-accels", "number", n) : n \in {0, 4}} \cup
           {Argument(o, "none", 0) : o \in {"help", "latency", "v", "verbose"}}
      ELSE {}]
=============================================================================
