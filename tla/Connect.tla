------------------------------- MODULE Connect -------------------------------
(***************************************************************************)
(* How the test programs find and open accelerators: plat_if_tests/common/ *)
(* sw/connect.c over the OPAE library.  Several programs run at a time and *)
(* compete for the same accelerators.  A program is searching for tokens,  *)
(* then opens them one by one, and another program may open an accelerator *)
(* between the two.  Every OPAE call that reports an error may fail.       *)
(*                                                                         *)
(* A call of connectToMatchingAccels begins with pc = "connect" and ends   *)
(* with pc = "connected", its results in result and numHandles.  A failed  *)
(* assertion ends the program, and the operating system closes what it had *)
(* open.                                                                   *)
(***************************************************************************)
EXTENDS Integers, Sequences, FiniteSets

CONSTANTS Procs,       \* the programs that run at a time
          Accels,      \* the accelerators with the wanted UUID
          Address,     \* where each accelerator is: a value per target field
          MaxTokens,   \* connectToMatchingAccels' max_tokens
          NoProc       \* the owner of an accelerator that is not open

VARIABLES pc, config,                        \* of each program
          tokens, handles, numHandles, result,
          aseCheckComplete, isAseSim,        \* static variables of connect.c
          owner                              \* OPAE: who has an accelerator open

connectVars == <<tokens, handles, numHandles, result, aseCheckComplete, isAseSim, owner>>

\* t_target_bdf
TargetFields == {"segment", "bus", "device", "function", "socket"}
Unset == -1
initTargetBDF == [f \in TargetFields |-> Unset]

ConnectAssumption ==
    /\ Address \in [Accels -> [TargetFields -> Nat]]
    /\ IsFiniteSet(Accels)
    /\ MaxTokens \in Nat \ {0}
    /\ NoProc \notin Procs
ASSUME ConnectAssumption

\* The accelerators that pass the filter built from the target.
Matching(target) ==
    {a \in Accels : \A f \in TargetFields : target[f] \in {Unset, Address[a][f]}}

Smaller(m, n) == IF m < n THEN m ELSE n
Opened(p) == {handles[p][i] : i \in DOMAIN handles[p]}
GoTo(p, label) == pc' = [pc EXCEPT ![p] = label]

\* The process ends without returning from main: its devices are closed for it.
OsCleansUp(p) ==
    /\ owner' = [a \in Accels |-> IF owner[a] = p THEN NoProc ELSE owner[a]]
    /\ tokens' = [tokens EXCEPT ![p] = <<>>]
    /\ handles' = [handles EXCEPT ![p] = <<>>]
Abort(p) ==
    /\ GoTo(p, "aborted")
    /\ OsCleansUp(p)
    /\ UNCHANGED <<numHandles, result, aseCheckComplete, isAseSim>>
-----------------------------------------------------------------------------
(* connectToMatchingAccels: the asserted arguments, the limit on           *)
(* num_handles, then the filter.                                           *)
\* Mutant of Limit: as many as the caller asks for.
LimitUnlimited(n) == n

Limit(n) == Smaller(n, MaxTokens)

ConnectBegins(p) ==
    /\ pc[p] = "connect"
    /\ IF numHandles[p] = 0
         THEN Abort(p)
         ELSE /\ numHandles' = [numHandles EXCEPT ![p] = Limit(@)]
              /\ GoTo(p, "filter")
              /\ UNCHANGED <<tokens, handles, result, aseCheckComplete, isAseSim, owner>>
    /\ UNCHANGED config

\* One call per field that is set; the first that fails goes to out_destroy
\* and leaves num_handles as it is.
SetFilter(p) ==
    /\ pc[p] = "filter"
    /\ \/ GoTo(p, "enumerate") /\ UNCHANGED result
       \/ /\ \E f \in TargetFields : config[p].target[f] # Unset
          /\ result' = [result EXCEPT ![p] = "error"]
          /\ GoTo(p, "connected")
    /\ UNCHANGED <<config, tokens, handles, numHandles, aseCheckComplete, isAseSim, owner>>

\* OPAE: tokens for accelerators that match, in use or not, as many as fit.
\* When the search itself fails, num_matches has not been written, and the
\* test of *num_handles > num_matches reads whatever was there.
TokenLists(found, n) ==
    {s \in [1..n -> found] : \A i, j \in 1..n : s[i] = s[j] => i = j}

Enumerate(p) ==
    /\ pc[p] = "enumerate"
    /\ LET found == Matching(config[p].target)
           n == Smaller(numHandles[p], Cardinality(found))
       IN  \/ /\ n > 0
              /\ \E s \in TokenLists(found, n) : tokens' = [tokens EXCEPT ![p] = s]
              /\ numHandles' = [numHandles EXCEPT ![p] = n]
              /\ result' = [result EXCEPT ![p] = "ok"]
              /\ GoTo(p, "open")
           \/ /\ n = 0
              /\ numHandles' = [numHandles EXCEPT ![p] = 0]
              /\ \E r \in {"ok", "error"} : result' = [result EXCEPT ![p] = r]
              /\ GoTo(p, "connected")
              /\ UNCHANGED tokens
           \/ /\ \E k \in 0..numHandles[p] : numHandles' = [numHandles EXCEPT ![p] = k]
              /\ result' = [result EXCEPT ![p] = "error"]
              /\ GoTo(p, "connected")
              /\ UNCHANGED tokens
    /\ UNCHANGED <<config, handles, aseCheckComplete, isAseSim, owner>>

\* OPAE: an accelerator that is open cannot be opened again.
OpenSucceeds(p, a) == owner[a] = NoProc

\* Mutant of OpenNext: searches again as long as nothing could be opened.
OpenNextRetries(p) ==
    LET a == Head(tokens[p])
    IN  /\ pc[p] = "open"
        /\ tokens[p] # <<>>
        /\ \/ /\ OpenSucceeds(p, a)
              /\ tokens' = [tokens EXCEPT ![p] = Tail(@)]
              /\ owner' = [owner EXCEPT ![a] = p]
              /\ handles' = [handles EXCEPT ![p] = Append(@, a)]
              /\ result' = [result EXCEPT ![p] = "ok"]
              /\ aseCheckComplete' = [aseCheckComplete EXCEPT ![p] = TRUE]
              /\ \E asked \in BOOLEAN : isAseSim' = [isAseSim EXCEPT ![p] = asked]
              /\ UNCHANGED pc
           \/ /\ result' = [result EXCEPT ![p] = "error"]
              /\ tokens' = [tokens EXCEPT ![p] = IF handles[p] = <<>> THEN <<>> ELSE Tail(@)]
              /\ IF handles[p] = <<>> THEN GoTo(p, "enumerate") ELSE UNCHANGED pc
              /\ UNCHANGED <<owner, handles, aseCheckComplete, isAseSim>>
        /\ UNCHANGED <<config, numHandles>>

\* A body of the loop: the handle goes to the next place of accel_handles
\* only when the accelerator could be opened, the token is destroyed anyway.
\* Whether it is simulated comes from its ids; the results of the calls that read
\* them are not looked at, so that it may be anything.
OpenNext(p) ==
    LET a == Head(tokens[p])
    IN  /\ pc[p] = "open"
        /\ tokens[p] # <<>>
        /\ tokens' = [tokens EXCEPT ![p] = Tail(@)]
        /\ \/ /\ OpenSucceeds(p, a)
              /\ owner' = [owner EXCEPT ![a] = p]
              /\ handles' = [handles EXCEPT ![p] = Append(@, a)]
              /\ result' = [result EXCEPT ![p] = "ok"]
              /\ aseCheckComplete' = [aseCheckComplete EXCEPT ![p] = TRUE]
              /\ \E asked \in BOOLEAN : isAseSim' = [isAseSim EXCEPT ![p] = asked]
           \/ /\ result' = [result EXCEPT ![p] = "error"]
              /\ UNCHANGED <<owner, handles, aseCheckComplete, isAseSim>>
        /\ UNCHANGED <<pc, config, numHandles>>

\* After the loop: the number of connections, and success if there is one.
OpenEnds(p) ==
    /\ pc[p] = "open"
    /\ tokens[p] = <<>>
    /\ numHandles' = [numHandles EXCEPT ![p] = Len(handles[p])]
    /\ result' = [result EXCEPT ![p] = IF handles[p] # <<>> THEN "ok" ELSE @]
    /\ GoTo(p, "connected")
    /\ UNCHANGED <<config, tokens, handles, aseCheckComplete, isAseSim, owner>>

connectToMatchingAccels(p) ==
    ConnectBegins(p) \/ SetFilter(p) \/ Enumerate(p) \/ OpenNext(p) \/ OpenEnds(p)

\* Mutant of AccelConnected: a search that finds nothing is not an error either.
AccelConnectedOrNone(p) == result[p] = "ok"

\* connectToAccel returns a handle only when both assertions hold.
AccelConnected(p) == result[p] = "ok" /\ numHandles[p] = 1

\* probeForASE: the answer recorded when an accelerator was opened, and
\* otherwise that of a management engine, whatever it is.
probeForASE(p) ==
    IF aseCheckComplete[p] THEN {isAseSim[p]} ELSE BOOLEAN
=============================================================================
