-------------------------- MODULE HostProgramsProofs --------------------------
(***************************************************************************)
(* Theorems about the test programs, for any number of processes that run  *)
(* at a time, any accelerators and any arguments: the safety properties of *)
(* HostPrograms.  The invariant IInv says of each process where it is and  *)
(* what it holds there.  A step of a process changes nothing of the others *)
(* and only accelerators that are its own or nobody's (Others), so that it *)
(* is enough to look at the process that takes the step (OneProcess).      *)
(***************************************************************************)
EXTENDS HostPrograms, FiniteSetTheorems, TLAPS

Config == [ok : BOOLEAN, target : [TargetFields -> Int], latency : BOOLEAN,
           maxAccels : 0..MaxAllowed]

HostTypes ==
    /\ pc \in [Procs -> Labels]
    /\ config \in [Procs -> Config]
    /\ tokens \in [Procs -> Seq(Accels)]
    /\ handles \in [Procs -> Seq(Accels)]
    /\ numHandles \in [Procs -> Nat]
    /\ result \in [Procs -> {"ok", "error"}]
    /\ aseCheckComplete \in [Procs -> BOOLEAN]
    /\ isAseSim \in [Procs -> BOOLEAN]
    /\ owner \in [Accels -> Procs \cup {NoProc}]
    /\ prog \in [Procs -> Programs]
    /\ csrs \in [Procs -> Nat]
    /\ status \in [Procs -> {0, 1}]
    /\ isAse \in [Procs -> BOOLEAN]
    /\ tested \in [Procs -> SUBSET Accels]

\* What a process has open, it has open once, and nothing else is its own.
Owns(p) ==
    /\ \A i, j \in DOMAIN handles[p] : handles[p][i] = handles[p][j] => i = j
    /\ \A a \in Accels : owner[a] = p <=> a \in Opened(p)

\* What it has found or opened is where the target says.
Wanted(p) ==
    /\ Opened(p) \subseteq Matching(config[p].target)
    /\ \A i \in DOMAIN tokens[p] : tokens[p][i] \in Matching(config[p].target)

\* What it holds at each point of the program.
Holds(p) ==
    /\ pc[p] # "open" => tokens[p] = <<>>
    /\ pc[p] \in {"args", "connect", "filter", "enumerate", "returned", "aborted"}
         => handles[p] = <<>>
    /\ pc[p] \notin {"alloc", "test", "close"} => csrs[p] = 0
    /\ pc[p] \in {"alloc", "test"} => csrs[p] <= numHandles[p]
    /\ pc[p] = "test" => csrs[p] = numHandles[p]
    /\ pc[p] = "close" => csrs[p] = Len(handles[p])

\* What the results of connectToMatchingAccels say of what it holds.
Counted(p) ==
    /\ pc[p] = "args" => numHandles[p] = 0
    /\ pc[p] \in {"filter", "enumerate"} => numHandles[p] > 0
    /\ pc[p] = "connected" /\ result[p] = "ok"
         => /\ numHandles[p] = Len(handles[p])
            /\ numHandles[p] = 0 => Matching(config[p].target) = {}
    /\ pc[p] \in {"probe", "alloc", "test"} => numHandles[p] = Len(handles[p]) /\ numHandles[p] # 0
    /\ pc[p] = "open" /\ handles[p] = <<>> /\ tokens[p] = <<>> => result[p] = "error"

\* What it knows of simulation.
Probed(p) ==
    /\ pc[p] \in {"open", "connected", "probe"} /\ handles[p] # <<>>
         => aseCheckComplete[p]
    /\ pc[p] \in {"alloc", "test"} => aseCheckComplete[p] /\ isAse[p] = isAseSim[p]

\* How much it may find and open.
Bounded(p) ==
    /\ prog[p] # "host_chan_params" => config[p].maxAccels = 1
    /\ numHandles[p] <= config[p].maxAccels
    /\ pc[p] \in {"filter", "enumerate"} => numHandles[p] <= MaxTokens
    /\ Len(tokens[p]) + Len(handles[p]) <= MaxTokens
    /\ Len(tokens[p]) + Len(handles[p]) <= config[p].maxAccels
    /\ csrs[p] <= Len(handles[p])

\* What its status says.
Judged(p) ==
    pc[p] \in {"close", "returned"} /\ status[p] = 0 =>
        \/ tested[p] # {} /\ tested[p] \subseteq Matching(config[p].target)
        \/ prog[p] = "host_chan_params" /\ Matching(config[p].target) = {}

Process(p) ==
    Owns(p) /\ Wanted(p) /\ Holds(p) /\ Counted(p) /\ Probed(p) /\ Bounded(p) /\ Judged(p)
IInv == HostTypes /\ \A p \in Procs : Process(p)
-----------------------------------------------------------------------------
\* The state of a process other than the accelerators it owns.
OwnState(q) ==
    <<pc[q], config[q], tokens[q], handles[q], numHandles[q], result[q], aseCheckComplete[q],
      isAseSim[q], prog[q], csrs[q], status[q], isAse[q], tested[q]>>

\* What a step of process p leaves alone.
Others(p) ==
    /\ \A q \in Procs : q # p => OwnState(q)' = OwnState(q)
    /\ \A a \in Accels : owner'[a] # owner[a] =>
           owner[a] \in {NoProc, p} /\ owner'[a] \in {NoProc, p}

\* The invariant of the other processes is kept by a step that leaves them alone.
LEMMA OneProcess ==
    ASSUME IInv, NEW p \in Procs, Others(p), HostTypes', Process(p)'
    PROVE  IInv'
<1> SUFFICES ASSUME NEW q \in Procs, q # p PROVE Process(q)'
    BY DEF IInv
<1>1. Process(q)
    BY DEF IInv
<1>2. /\ pc'[q] = pc[q] /\ config'[q] = config[q] /\ tokens'[q] = tokens[q]
      /\ handles'[q] = handles[q] /\ numHandles'[q] = numHandles[q] /\ result'[q] = result[q]
      /\ aseCheckComplete'[q] = aseCheckComplete[q] /\ isAseSim'[q] = isAseSim[q]
      /\ prog'[q] = prog[q] /\ csrs'[q] = csrs[q] /\ status'[q] = status[q]
      /\ isAse'[q] = isAse[q] /\ tested'[q] = tested[q]
    BY DEF Others, OwnState
<1>3. ASSUME NEW a \in Accels PROVE owner'[a] = q <=> owner[a] = q
    BY ConnectAssumption DEF Others, ConnectAssumption
<1>4. Owns(q)'
    BY <1>1, <1>2, <1>3 DEF Process, Owns, Opened
<1>5. Wanted(q)'
    BY <1>1, <1>2 DEF Process, Wanted, Opened, Matching
<1>6. Holds(q)' /\ Counted(q)'
    BY <1>1, <1>2 DEF Process, Holds, Counted, Matching
<1>7. Probed(q)'
    BY <1>1, <1>2 DEF Process, Probed
<1>8. Bounded(q)' /\ Judged(q)'
    BY <1>1, <1>2 DEF Process, Bounded, Judged, Matching
<1>. QED BY <1>4, <1>5, <1>6, <1>7, <1>8 DEF Process
-----------------------------------------------------------------------------
(* connectToMatchingAccels                                                 *)

\* A process that dies: all it had open is closed.
LEMMA Aborted ==
    ASSUME IInv, NEW p \in Procs, Abort(p), csrs' = [csrs EXCEPT ![p] = 0],
           status' = [status EXCEPT ![p] = 1] \/ status' = status,
           NEW t \in SUBSET Accels, tested' = [tested EXCEPT ![p] = t] \/ tested' = tested,
           UNCHANGED <<config, prog, isAse>>
    PROVE  IInv'
<1>. USE DEF Abort, OsCleansUp, GoTo
<1>1. HostTypes
    BY DEF IInv
<1>2. Process(p)
    BY DEF IInv
<1>3. HostTypes'
  <2>1. pc' \in [Procs -> Labels]
      BY <1>1 DEF HostTypes, Labels
  <2>2. tokens' \in [Procs -> Seq(Accels)] /\ handles' \in [Procs -> Seq(Accels)]
      BY <1>1 DEF HostTypes
  <2>3. owner' \in [Accels -> Procs \cup {NoProc}]
      BY <1>1 DEF HostTypes
  <2>4. csrs' \in [Procs -> Nat]
      BY <1>1 DEF HostTypes
  <2>5. status' \in [Procs -> {0, 1}]
      BY <1>1 DEF HostTypes
  <2>6. tested' \in [Procs -> SUBSET Accels]
      BY <1>1 DEF HostTypes
  <2>. QED BY <1>1, <2>1, <2>2, <2>3, <2>4, <2>5, <2>6 DEF HostTypes
<1>4. Others(p)
    BY <1>1 DEF HostTypes, Others, OwnState
<1>5. pc'[p] = "aborted" /\ tokens'[p] = <<>> /\ handles'[p] = <<>> /\ csrs'[p] = 0
    BY <1>1 DEF HostTypes
<1>6. Owns(p)'
    BY <1>1, <1>5, ConnectAssumption DEF Owns, Opened, HostTypes, ConnectAssumption
<1>7. Wanted(p)'
    BY <1>5 DEF Wanted, Opened
<1>8. Holds(p)' /\ Counted(p)' /\ Probed(p)' /\ Judged(p)'
    BY <1>5 DEF Holds, Counted, Probed, Judged
<1>9. Bounded(p)'
    BY <1>1, <1>2, <1>5, ConnectAssumption
    DEF Process, Bounded, ConnectAssumption, HostTypes, Config
<1>. QED BY <1>3, <1>4, <1>6, <1>7, <1>8, <1>9, OneProcess DEF Process

\* Asking for none ends the program; otherwise at most max_tokens are wanted.
LEMMA ConnectBeginsStep ==
    ASSUME IInv, NEW p \in Procs, ConnectBegins(p), UNCHANGED mainVars
    PROVE  IInv'
<1>1. HostTypes
    BY DEF IInv
<1>2. Process(p)
    BY DEF IInv
<1>3. CASE numHandles[p] = 0
  <2>1. csrs' = [csrs EXCEPT ![p] = 0]
      BY <1>1, <1>2 DEF Process, Holds, ConnectBegins, mainVars, HostTypes
  <2>. QED BY <1>1, <1>3, <2>1, Aborted DEF ConnectBegins, mainVars, HostTypes
<1>4. CASE numHandles[p] # 0
  <2>. USE <1>4 DEF ConnectBegins, GoTo, mainVars
  <2>1. /\ numHandles' = [numHandles EXCEPT ![p] = Limit(@)]
        /\ pc[p] = "connect" /\ pc' = [pc EXCEPT ![p] = "filter"]
        /\ UNCHANGED <<config, tokens, handles, result, aseCheckComplete, isAseSim, owner,
                       prog, csrs, status, isAse, tested>>
      OBVIOUS
  <2>2. Limit(numHandles[p]) \in 1..MaxTokens /\ Limit(numHandles[p]) <= numHandles[p]
      BY <1>1, ConnectAssumption DEF Limit, Smaller, HostTypes, ConnectAssumption
  <2>3. HostTypes'
    <3>1. pc' \in [Procs -> Labels]
        BY <1>1, <2>1 DEF HostTypes, Labels
    <3>2. numHandles' \in [Procs -> Nat]
        BY <1>1, <2>1, <2>2, ConnectAssumption DEF HostTypes, ConnectAssumption
    <3>. QED BY <1>1, <2>1, <3>1, <3>2 DEF HostTypes
  <2>4. Others(p)
      BY <1>1, <2>1 DEF HostTypes, Others, OwnState
  <2>5. pc'[p] = "filter" /\ numHandles'[p] = Limit(numHandles[p])
      BY <1>1, <2>1 DEF HostTypes
  <2>6. Owns(p)' /\ Wanted(p)'
      BY <1>2, <2>1 DEF Process, Owns, Wanted, Opened, Matching
  <2>7. Holds(p)' /\ Counted(p)' /\ Probed(p)' /\ Judged(p)'
      BY <1>2, <2>1, <2>2, <2>5 DEF Process, Holds, Counted, Probed, Judged
  <2>8. Bounded(p)'
      BY <1>1, <1>2, <2>1, <2>2, <2>5, ConnectAssumption
      DEF Process, Bounded, HostTypes, Config, ConnectAssumption
  <2>. QED BY <2>3, <2>4, <2>6, <2>7, <2>8, OneProcess DEF Process
<1>. QED BY <1>3, <1>4

\* The filter is complete or the call fails; nothing is open.
LEMMA SetFilterStep ==
    ASSUME IInv, NEW p \in Procs, SetFilter(p), UNCHANGED mainVars
    PROVE  IInv'
<1>1. HostTypes
    BY DEF IInv
<1>2. Process(p)
    BY DEF IInv
<1>. USE DEF SetFilter, GoTo, mainVars
<1>3. /\ pc[p] = "filter"
      /\ UNCHANGED <<config, tokens, handles, numHandles, aseCheckComplete, isAseSim,
                     owner, prog, csrs, status, isAse, tested>>
    OBVIOUS
<1>4. \/ pc'[p] = "enumerate" /\ result'[p] = result[p]
      \/ pc'[p] = "connected" /\ result'[p] = "error"
    BY <1>1 DEF HostTypes
<1>5. HostTypes'
  <2>1. pc' \in [Procs -> Labels] /\ result' \in [Procs -> {"ok", "error"}]
      BY <1>1 DEF HostTypes, Labels
  <2>. QED BY <1>1, <1>3, <2>1 DEF HostTypes
<1>6. Others(p)
    BY <1>1, <1>3 DEF HostTypes, Others, OwnState
<1>. HIDE DEF SetFilter
<1>7. Owns(p)' /\ Wanted(p)'
    BY <1>2, <1>3 DEF Process, Owns, Wanted, Opened, Matching
<1>8. Holds(p)' /\ Counted(p)' /\ Probed(p)' /\ Judged(p)'
    BY <1>2, <1>3, <1>4 DEF Process, Holds, Counted, Probed, Judged
<1>9. Bounded(p)'
    BY <1>2, <1>3, <1>4 DEF Process, Bounded
<1>. QED BY <1>5, <1>6, <1>7, <1>8, <1>9, OneProcess DEF Process

\* The tokens are distinct places that match, as many as were wanted or exist.
LEMMA EnumerateStep ==
    ASSUME IInv, NEW p \in Procs, Enumerate(p), UNCHANGED mainVars
    PROVE  IInv'
<1>1. HostTypes
    BY DEF IInv
<1>2. Process(p)
    BY DEF IInv
<1>. DEFINE found == Matching(config[p].target)
<1>. DEFINE n == Smaller(numHandles[p], Cardinality(found))
<1>3. /\ pc[p] = "enumerate"
      /\ UNCHANGED <<config, handles, aseCheckComplete, isAseSim,
                     owner, prog, csrs, status, isAse, tested>>
    BY DEF Enumerate, mainVars
<1>4. found \subseteq Accels /\ Cardinality(found) \in Nat /\ (Cardinality(found) = 0 => found = {})
  <2>1. found \subseteq Accels
      BY DEF Matching
  <2>2. IsFiniteSet(found)
      BY <2>1, ConnectAssumption, FS_Subset DEF ConnectAssumption
  <2>. QED BY <2>1, <2>2, FS_CardinalityType, FS_EmptySet
<1>. HIDE DEF found
<1>5. n \in Nat /\ n <= numHandles[p] /\ (n = 0 => found = {})
    BY <1>1, <1>2, <1>3, <1>4 DEF Smaller, HostTypes, Process, Counted
<1>6. handles[p] = <<>> /\ tokens[p] = <<>> /\ csrs[p] = 0
    BY <1>2, <1>3 DEF Process, Holds
<1>. HIDE DEF n
<1>7. CASE /\ n > 0
           /\ \E s \in TokenLists(found, n) : tokens' = [tokens EXCEPT ![p] = s]
           /\ numHandles' = [numHandles EXCEPT ![p] = n]
           /\ result' = [result EXCEPT ![p] = "ok"]
           /\ GoTo(p, "open")
  <2>1. PICK s \in TokenLists(found, n) : tokens' = [tokens EXCEPT ![p] = s]
      BY <1>7
  <2>2. s \in [1..n -> found]
      BY DEF TokenLists
  <2>3. s \in Seq(Accels) /\ Len(s) = n /\ DOMAIN s = 1..n
      BY <1>4, <1>5, <2>2
  <2>4. /\ pc'[p] = "open" /\ tokens'[p] = s /\ numHandles'[p] = n /\ result'[p] = "ok"
        /\ HostTypes'
    <3>1. pc' \in [Procs -> Labels] /\ result' \in [Procs -> {"ok", "error"}]
        BY <1>1, <1>7 DEF HostTypes, Labels, GoTo
    <3>2. tokens' \in [Procs -> Seq(Accels)] /\ numHandles' \in [Procs -> Nat]
        BY <1>1, <1>5, <1>7, <2>1, <2>3 DEF HostTypes
    <3>3. HostTypes'
        BY <1>1, <1>3, <3>1, <3>2 DEF HostTypes
    <3>. QED BY <1>1, <1>7, <2>1, <3>3 DEF HostTypes, GoTo
  <2>5. Others(p)
      BY <1>1, <1>3, <1>7, <2>1 DEF HostTypes, Others, OwnState, GoTo
  <2>6. Owns(p)'
      BY <1>2, <1>3 DEF Process, Owns, Opened
  <2>7. Wanted(p)'
    <3>1. \A i \in DOMAIN s : s[i] \in found
        BY <2>2, <2>3
    <3>2. config'[p] = config[p] /\ handles'[p] = <<>> /\ tokens'[p] = s
        BY <1>3, <1>6, <2>4
    <3>3. Matching(config'[p].target) = found
        BY <3>2 DEF Matching, found
    <3>4. Matching(config[p].target)' = Matching(config'[p].target)
        BY DEF Matching
    <3>. QED BY <3>1, <3>2, <3>3, <3>4 DEF Wanted, Opened
  <2>8. Holds(p)' /\ Probed(p)' /\ Judged(p)'
      BY <1>3, <1>6, <2>4 DEF Holds, Probed, Judged
  <2>9. Counted(p)'
    <3>1. s # <<>>
        BY <1>7, <2>3
    <3>. QED BY <2>4, <3>1 DEF Counted
  <2>10. Bounded(p)'
      BY <1>1, <1>2, <1>3, <1>5, <1>6, <2>3, <2>4, ConnectAssumption
      DEF Process, Bounded, HostTypes, Config, ConnectAssumption
  <2>. QED BY <2>4, <2>5, <2>6, <2>7, <2>8, <2>9, <2>10, OneProcess DEF Process
<1>8. CASE \E k \in 0..numHandles[p], r \in {"ok", "error"} :
               /\ numHandles' = [numHandles EXCEPT ![p] = k]
               /\ result' = [result EXCEPT ![p] = r]
               /\ r = "ok" => k = 0 /\ n = 0
               /\ GoTo(p, "connected")
               /\ tokens' = tokens
  <2>1. PICK k \in 0..numHandles[p], r \in {"ok", "error"} :
               /\ numHandles' = [numHandles EXCEPT ![p] = k]
               /\ result' = [result EXCEPT ![p] = r]
               /\ r = "ok" => k = 0 /\ n = 0
               /\ GoTo(p, "connected")
               /\ tokens' = tokens
      BY <1>8
  <2>2. k \in Nat /\ k <= numHandles[p]
      BY <1>1 DEF HostTypes
  <2>3. HostTypes'
    <3>1. pc' \in [Procs -> Labels] /\ result' \in [Procs -> {"ok", "error"}]
        BY <1>1, <2>1 DEF HostTypes, Labels, GoTo
    <3>2. numHandles' \in [Procs -> Nat]
        BY <1>1, <2>1, <2>2 DEF HostTypes
    <3>. QED BY <1>1, <1>3, <2>1, <3>1, <3>2 DEF HostTypes
  <2>4. pc'[p] = "connected" /\ numHandles'[p] = k /\ result'[p] = r
      BY <1>1, <2>1 DEF HostTypes, GoTo
  <2>5. Others(p)
      BY <1>1, <1>3, <2>1 DEF HostTypes, Others, OwnState, GoTo
  <2>6. Owns(p)' /\ Wanted(p)'
      BY <1>2, <1>3, <2>1 DEF Process, Owns, Wanted, Opened, Matching
  <2>7. Holds(p)' /\ Probed(p)' /\ Judged(p)'
      BY <1>3, <1>6, <2>1, <2>4 DEF Holds, Probed, Judged
  <2>8. Counted(p)'
    <3>1. Matching(config[p].target)' = found
        BY <1>3 DEF Matching, found
    <3>2. Len(handles'[p]) = 0
        BY <1>3, <1>6
    <3>. QED BY <1>5, <2>1, <2>4, <3>1, <3>2 DEF Counted
  <2>9. Bounded(p)'
      BY <1>1, <1>2, <1>3, <1>6, <2>1, <2>2, <2>4 DEF Process, Bounded, HostTypes, Config
  <2>. QED BY <2>3, <2>5, <2>6, <2>7, <2>8, <2>9, OneProcess DEF Process
<1>9. n <= numHandles[p] /\ numHandles[p] \in Nat
    BY <1>1, <1>5 DEF HostTypes
<1>10. \/ /\ n > 0
          /\ \E s \in TokenLists(found, n) : tokens' = [tokens EXCEPT ![p] = s]
          /\ numHandles' = [numHandles EXCEPT ![p] = n]
          /\ result' = [result EXCEPT ![p] = "ok"]
          /\ GoTo(p, "open")
       \/ /\ n = 0
          /\ numHandles' = [numHandles EXCEPT ![p] = 0]
          /\ \E r \in {"ok", "error"} : result' = [result EXCEPT ![p] = r]
          /\ GoTo(p, "connected")
          /\ UNCHANGED tokens
       \/ /\ \E k \in 0..numHandles[p] : numHandles' = [numHandles EXCEPT ![p] = k]
          /\ result' = [result EXCEPT ![p] = "error"]
          /\ GoTo(p, "connected")
          /\ UNCHANGED tokens
    BY DEF Enumerate, n, found
<1>11. 0 \in 0..numHandles[p]
    BY <1>9
<1>. QED BY <1>7, <1>8, <1>10, <1>11

\* An accelerator that opens was nobody's: it is not among those already open.
LEMMA OpenNextStep ==
    ASSUME IInv, NEW p \in Procs, OpenNext(p), UNCHANGED mainVars
    PROVE  IInv'
<1>1. HostTypes
    BY DEF IInv
<1>2. Process(p)
    BY DEF IInv
<1>. DEFINE a == Head(tokens[p])
<1>. DEFINE h == handles[p]
<1>3. /\ pc[p] = "open" /\ tokens[p] # <<>>
      /\ tokens' = [tokens EXCEPT ![p] = Tail(@)]
      /\ UNCHANGED <<pc, config, numHandles, prog, csrs, status, isAse, tested>>
    BY DEF OpenNext, mainVars
<1>4. /\ tokens[p] \in Seq(Accels) /\ tokens'[p] = Tail(tokens[p])
      /\ Tail(tokens[p]) \in Seq(Accels) /\ Len(Tail(tokens[p])) = Len(tokens[p]) - 1
      /\ a \in Accels /\ a \in Matching(config[p].target)
      /\ \A i \in DOMAIN Tail(tokens[p]) : Tail(tokens[p])[i] \in Matching(config[p].target)
  <2>1. tokens[p] \in Seq(Accels) /\ tokens'[p] = Tail(tokens[p])
      BY <1>1, <1>3 DEF HostTypes
  <2>2. a = tokens[p][1] /\ 1 \in DOMAIN tokens[p]
      BY <1>3, <2>1
  <2>3. Tail(tokens[p]) \in Seq(Accels) /\ Len(Tail(tokens[p])) = Len(tokens[p]) - 1
        /\ \A i \in 1..(Len(tokens[p]) - 1) : Tail(tokens[p])[i] = tokens[p][i + 1]
                                           /\ i + 1 \in DOMAIN tokens[p]
      BY <1>3, <2>1
  <2>4. \A i \in DOMAIN tokens[p] : tokens[p][i] \in Matching(config[p].target)
      BY <1>2 DEF Process, Wanted
  <2>5. \A i \in DOMAIN Tail(tokens[p]) : Tail(tokens[p])[i] \in Matching(config[p].target)
      BY <2>3, <2>4
  <2>. QED BY <2>1, <2>2, <2>3, <2>4, <2>5
<1>5. tokens' \in [Procs -> Seq(Accels)]
    BY <1>1, <1>3, <1>4 DEF HostTypes
<1>6. h \in Seq(Accels) /\ Len(h) \in Nat
    BY <1>1 DEF HostTypes
<1>7. CASE /\ OpenSucceeds(p, a)
           /\ owner' = [owner EXCEPT ![a] = p]
           /\ handles' = [handles EXCEPT ![p] = Append(@, a)]
           /\ result' = [result EXCEPT ![p] = "ok"]
           /\ aseCheckComplete' = [aseCheckComplete EXCEPT ![p] = TRUE]
           /\ \E asked \in BOOLEAN : isAseSim' = [isAseSim EXCEPT ![p] = asked]
  <2>. HIDE DEF a
  <2>1. /\ handles'[p] = Append(h, a) /\ result'[p] = "ok"
        /\ aseCheckComplete'[p] = TRUE
      BY <1>1, <1>7 DEF HostTypes
  <2>2. /\ Append(h, a) \in Seq(Accels) /\ Len(Append(h, a)) = Len(h) + 1
        /\ DOMAIN Append(h, a) = 1..(Len(h) + 1)
        /\ Append(h, a)[Len(h) + 1] = a
        /\ \A i \in 1..Len(h) : Append(h, a)[i] = h[i]
      BY <1>4, <1>6
  <2>3. \A i \in 1..Len(h) : h[i] # a
    <3>1. owner[a] # p
        BY <1>7, ConnectAssumption DEF OpenSucceeds, ConnectAssumption
    <3>. QED BY <1>2, <1>4, <1>6, <3>1 DEF Process, Owns, Opened
  <2>4. HostTypes'
    <3>1. handles' \in [Procs -> Seq(Accels)]
        BY <1>1, <1>7, <2>2 DEF HostTypes
    <3>2. owner' \in [Accels -> Procs \cup {NoProc}]
        BY <1>1, <1>7 DEF HostTypes
    <3>3. /\ result' \in [Procs -> {"ok", "error"}] /\ aseCheckComplete' \in [Procs -> BOOLEAN]
          /\ isAseSim' \in [Procs -> BOOLEAN]
        BY <1>1, <1>7 DEF HostTypes
    <3>. QED BY <1>1, <1>3, <1>5, <3>1, <3>2, <3>3 DEF HostTypes
  <2>5. Others(p)
    <3>1. \A q \in Procs : q # p => OwnState(q)' = OwnState(q)
        BY <1>1, <1>3, <1>7 DEF HostTypes, OwnState
    <3>2. \A b \in Accels : owner'[b] # owner[b] => owner[b] = NoProc /\ owner'[b] = p
        BY <1>1, <1>4, <1>7 DEF HostTypes, OpenSucceeds
    <3>. QED BY <1>3, <3>1, <3>2 DEF Others
  <2>6. Owns(p)'
    <3>1. \A i, j \in DOMAIN h : h[i] = h[j] => i = j
        BY <1>2 DEF Process, Owns
    <3>2. \A i, j \in 1..(Len(h) + 1) : Append(h, a)[i] = Append(h, a)[j] => i = j
        BY <1>6, <2>2, <2>3, <3>1
    <3>3. ASSUME NEW b \in Accels
          PROVE  owner'[b] = p <=> \E i \in 1..(Len(h) + 1) : Append(h, a)[i] = b
      <4>1. owner[b] = p <=> \E i \in 1..Len(h) : h[i] = b
          BY <1>2, <1>6 DEF Process, Owns, Opened
      <4>2. CASE b = a
          BY <1>1, <1>4, <1>6, <1>7, <2>2, <4>2 DEF HostTypes
      <4>3. CASE b # a
          BY <1>1, <1>4, <1>6, <1>7, <2>2, <4>1, <4>3 DEF HostTypes
      <4>. QED BY <4>2, <4>3
    <3>. QED BY <2>1, <2>2, <3>2, <3>3 DEF Owns, Opened
  <2>7. Wanted(p)'
    <3>1. Matching(config[p].target)' = Matching(config[p].target)
        BY <1>3 DEF Matching
    <3>2. \A i \in 1..Len(h) : h[i] \in Matching(config[p].target)
        BY <1>2, <1>6 DEF Process, Wanted, Opened
    <3>3. ASSUME NEW i \in 1..(Len(h) + 1)
          PROVE  Append(h, a)[i] \in Matching(config[p].target)
      <4>1. CASE i = Len(h) + 1
          BY <1>4, <2>2, <4>1
      <4>2. CASE i # Len(h) + 1
        <5>1. i \in 1..Len(h)
            BY <1>6, <4>2
        <5>. QED BY <2>2, <3>2, <5>1
      <4>. QED BY <4>1, <4>2
    <3>. QED BY <1>4, <2>1, <2>2, <3>1, <3>3 DEF Wanted, Opened
  <2>8. Holds(p)' /\ Judged(p)' /\ Probed(p)'
      BY <1>2, <1>3, <2>1 DEF Process, Holds, Judged, Probed
  <2>9. Counted(p)'
    <3>1. Append(h, a) # <<>>
        BY <1>6, <2>2
    <3>. QED BY <1>3, <2>1, <3>1 DEF Counted
  <2>10. Bounded(p)'
    <3>. DEFINE m == Len(tokens[p])
    <3>. DEFINE n == Len(handles[p])
    <3>. DEFINE mm == Len(tokens'[p])
    <3>. DEFINE nn == Len(handles'[p])
    <3>1. m \in Nat /\ mm = m - 1
        BY <1>4
    <3>2. nn = n + 1 /\ n \in Nat
        BY <1>6, <2>1, <2>2
    <3>3. mm + nn = m + n
      <4>. HIDE DEF m, n, mm, nn
      <4>. QED BY <3>1, <3>2
    <3>4. csrs[p] = 0 /\ csrs'[p] = 0
        BY <1>2, <1>3 DEF Process, Holds
    <3>5. numHandles'[p] = numHandles[p] /\ config'[p] = config[p] /\ prog'[p] = prog[p]
          /\ pc'[p] = "open"
        BY <1>3
    <3>6. Bounded(p)
        BY <1>2 DEF Process
    <3>7. csrs'[p] <= Len(handles'[p])
        BY <3>2, <3>4
    <3>. QED BY <3>3, <3>5, <3>6, <3>7 DEF Bounded
  <2>. QED BY <2>4, <2>5, <2>6, <2>7, <2>8, <2>9, <2>10, OneProcess DEF Process
<1>8. CASE /\ result' = [result EXCEPT ![p] = "error"]
           /\ UNCHANGED <<owner, handles, aseCheckComplete, isAseSim>>
  <2>1. result'[p] = "error" /\ result' \in [Procs -> {"ok", "error"}]
      BY <1>1, <1>8 DEF HostTypes
  <2>2. HostTypes'
      BY <1>1, <1>3, <1>5, <1>8, <2>1 DEF HostTypes
  <2>3. Others(p)
      BY <1>1, <1>3, <1>8 DEF HostTypes, Others, OwnState
  <2>4. Owns(p)'
      BY <1>2, <1>8 DEF Process, Owns, Opened
  <2>5. Wanted(p)'
    <3>1. Matching(config[p].target)' = Matching(config[p].target)
        BY <1>3 DEF Matching
    <3>. QED BY <1>2, <1>4, <1>8, <3>1 DEF Process, Wanted, Opened
  <2>6. Holds(p)' /\ Counted(p)' /\ Judged(p)' /\ Probed(p)'
      BY <1>2, <1>3, <1>8, <2>1 DEF Process, Holds, Counted, Judged, Probed
  <2>7. Bounded(p)'
    <3>1. Len(tokens'[p]) = Len(tokens[p]) - 1 /\ Len(tokens[p]) \in Nat
        BY <1>4
    <3>. QED BY <1>2, <1>3, <1>6, <1>8, <3>1, ConnectAssumption, <1>1
         DEF Process, Bounded, HostTypes, Config, ConnectAssumption
  <2>. QED BY <2>2, <2>3, <2>4, <2>5, <2>6, <2>7, OneProcess DEF Process
<1>. QED BY <1>7, <1>8 DEF OpenNext

\* The loop without a handle ends with an error, since each attempt failed.
LEMMA OpenEndsStep ==
    ASSUME IInv, NEW p \in Procs, OpenEnds(p), UNCHANGED mainVars
    PROVE  IInv'
<1>1. HostTypes
    BY DEF IInv
<1>2. Process(p)
    BY DEF IInv
<1>3. /\ pc[p] = "open" /\ tokens[p] = <<>>
      /\ numHandles' = [numHandles EXCEPT ![p] = Len(handles[p])]
      /\ result' = [result EXCEPT ![p] = IF handles[p] # <<>> THEN "ok" ELSE @]
      /\ pc' = [pc EXCEPT ![p] = "connected"]
      /\ UNCHANGED <<config, tokens, handles, aseCheckComplete, isAseSim, owner,
                     prog, csrs, status, isAse, tested>>
    BY DEF OpenEnds, GoTo, mainVars
<1>4. handles[p] \in Seq(Accels) /\ Len(handles[p]) \in Nat
    BY <1>1 DEF HostTypes
<1>5. /\ pc'[p] = "connected" /\ numHandles'[p] = Len(handles[p])
      /\ result'[p] = IF handles[p] # <<>> THEN "ok" ELSE result[p]
    BY <1>1, <1>3 DEF HostTypes
<1>6. handles[p] = <<>> => result[p] = "error"
    BY <1>2, <1>3 DEF Process, Counted
<1>7. HostTypes'
  <2>1. pc' \in [Procs -> Labels] /\ result' \in [Procs -> {"ok", "error"}]
      BY <1>1, <1>3 DEF HostTypes, Labels
  <2>2. numHandles' \in [Procs -> Nat]
      BY <1>1, <1>3, <1>4 DEF HostTypes
  <2>. QED BY <1>1, <1>3, <2>1, <2>2 DEF HostTypes
<1>8. Others(p)
    BY <1>1, <1>3 DEF HostTypes, Others, OwnState
<1>9. Owns(p)' /\ Wanted(p)'
    BY <1>2, <1>3 DEF Process, Owns, Wanted, Opened, Matching
<1>10. Holds(p)' /\ Probed(p)' /\ Judged(p)'
    BY <1>2, <1>3, <1>5 DEF Process, Holds, Probed, Judged
<1>11. Counted(p)'
  <2>1. handles[p] # <<>> => Len(handles[p]) # 0
      BY <1>4
  <2>. QED BY <1>3, <1>5, <1>6, <2>1 DEF Counted
<1>12. Bounded(p)'
  <2>1. Len(tokens[p]) = 0
      BY <1>3
  <2>. QED BY <1>1, <1>2, <1>3, <1>4, <1>5, <2>1, ConnectAssumption
       DEF Process, Bounded, HostTypes, Config, ConnectAssumption
<1>. QED BY <1>7, <1>8, <1>9, <1>10, <1>11, <1>12, OneProcess DEF Process
-----------------------------------------------------------------------------
(* main                                                                    *)

\* Whatever an argument is, parse_args leaves a configuration, and only
\* host_chan_params changes the number of accelerators.
LEMMA ParseTypes ==
    ASSUME NEW p \in Procs, NEW arg \in Args[p], NEW c \in Config
    PROVE  /\ ParamsParse(c, arg) \in Config
           /\ \A d \in {AtomicParse(c, arg), IntrParse(c, arg), MmioParse(c, arg),
                        LocalMemParse(c, arg)} : d \in Config /\ d.maxAccels = c.maxAccels
<1>1. Refused(c) \in Config /\ Refused(c).maxAccels = c.maxAccels
    BY DEF Refused, Config
<1>2. TargetCase(c, arg) \in Config /\ TargetCase(c, arg).maxAccels = c.maxAccels
  <2>1. arg.n \in Int
      BY HostAssumption DEF HostAssumption
  <2>2. [c EXCEPT !.target[arg.opt] = arg.n] \in Config
        /\ [c EXCEPT !.target[arg.opt] = arg.n].maxAccels = c.maxAccels
      BY <2>1 DEF Config
  <2>. QED BY <1>1, <2>2 DEF TargetCase
<1>3. TargetsOnly(c, arg) \in Config /\ TargetsOnly(c, arg).maxAccels = c.maxAccels
    BY <1>1, <1>2 DEF TargetsOnly
<1>4. AtomicParse(c, arg) \in Config /\ AtomicParse(c, arg).maxAccels = c.maxAccels
    BY <1>1, <1>2 DEF AtomicParse
<1>5. [c EXCEPT !.latency = TRUE, !.ok = arg.kind # "bad"] \in Config
  <2>1. CASE arg.kind = "bad"
    <3>1. [c EXCEPT !.latency = TRUE, !.ok = FALSE] \in Config
        BY DEF Config
    <3>. QED BY <2>1, <3>1
  <2>2. CASE arg.kind # "bad"
    <3>1. [c EXCEPT !.latency = TRUE, !.ok = TRUE] \in Config
        BY DEF Config
    <3>2. (arg.kind # "bad") = TRUE
        BY <2>2
    <3>. QED BY <3>1, <3>2
  <2>. QED BY <2>1, <2>2
<1>6. arg.n \in 0..MaxAllowed => [c EXCEPT !.maxAccels = arg.n] \in Config
    BY DEF Config
<1>7. ParamsParse(c, arg) \in Config
    BY <1>1, <1>2, <1>5, <1>6 DEF ParamsParse
<1>. QED BY <1>3, <1>4, <1>7 DEF IntrParse, MmioParse, LocalMemParse

\* An argument changes only the configuration, and nothing is open yet.
LEMMA ParsesStep ==
    ASSUME IInv, NEW p \in Procs, NEW outcomes, Parses(p, outcomes), outcomes \subseteq Config,
           prog[p] # "host_chan_params" =>
               \A d \in outcomes : d.maxAccels = config[p].maxAccels
    PROVE  IInv'
<1>1. HostTypes
    BY DEF IInv
<1>2. Process(p)
    BY DEF IInv
<1>3. PICK c \in outcomes : config' = [config EXCEPT ![p] = c]
    BY DEF Parses
<1>4. /\ pc[p] = "args"
      /\ UNCHANGED <<pc, tokens, handles, numHandles, result, aseCheckComplete, isAseSim, owner,
                     prog, csrs, status, isAse, tested>>
    BY DEF Parses, connectVars, mainVars
<1>5. handles[p] = <<>> /\ tokens[p] = <<>> /\ numHandles[p] = 0 /\ csrs[p] = 0
    BY <1>2, <1>4 DEF Process, Holds, Counted
<1>6. c \in Config /\ config'[p] = c /\ HostTypes'
    BY <1>1, <1>3, <1>4 DEF HostTypes
<1>7. Others(p)
    BY <1>1, <1>3, <1>4 DEF HostTypes, Others, OwnState
<1>8. Owns(p)'
    BY <1>2, <1>4 DEF Process, Owns, Opened
<1>9. Wanted(p)'
    BY <1>4, <1>5 DEF Wanted, Opened
<1>10. Holds(p)' /\ Counted(p)' /\ Probed(p)' /\ Judged(p)'
    BY <1>4, <1>5 DEF Holds, Counted, Probed, Judged
<1>11. Bounded(p)'
  <2>1. prog'[p] # "host_chan_params" => config'[p].maxAccels = 1
      BY <1>2, <1>3, <1>4, <1>6 DEF Process, Bounded
  <2>2. config'[p].maxAccels \in Nat
      BY <1>6, HostAssumption DEF Config, HostAssumption
  <2>3. Len(tokens'[p]) = 0 /\ Len(handles'[p]) = 0
      BY <1>4, <1>5
  <2>. QED BY <1>4, <1>5, <2>1, <2>2, <2>3, ConnectAssumption DEF Bounded, ConnectAssumption
<1>. QED BY <1>6, <1>7, <1>8, <1>9, <1>10, <1>11, OneProcess DEF Process

\* The end of the command line: nothing is open, the wanted number is known.
LEMMA ParsedStep ==
    ASSUME IInv, NEW p \in Procs, NEW max, Parsed(p, max), max = config[p].maxAccels
    PROVE  IInv'
<1>1. HostTypes
    BY DEF IInv
<1>2. Process(p)
    BY DEF IInv
<1>3. /\ pc[p] = "args"
      /\ UNCHANGED <<config, tokens, handles, result, aseCheckComplete, isAseSim, owner,
                     prog, csrs, isAse, tested>>
    BY DEF Parsed
<1>4. handles[p] = <<>> /\ tokens[p] = <<>> /\ numHandles[p] = 0 /\ csrs[p] = 0
    BY <1>2, <1>3 DEF Process, Holds, Counted
<1>5. max \in Nat
    BY <1>1, HostAssumption DEF HostTypes, Config, HostAssumption
<1>6. \/ /\ pc' = [pc EXCEPT ![p] = "returned"]
         /\ status' = [status EXCEPT ![p] = 1] /\ numHandles' = numHandles
      \/ /\ pc' = [pc EXCEPT ![p] = "connect"]
         /\ numHandles' = [numHandles EXCEPT ![p] = max] /\ status' = status
    BY DEF Parsed, Return, GoTo
<1>7. \/ pc'[p] = "returned" /\ status'[p] = 1 /\ numHandles'[p] = 0
      \/ pc'[p] = "connect" /\ numHandles'[p] = max
    BY <1>1, <1>4, <1>6 DEF HostTypes
<1>8. HostTypes'
  <2>1. pc' \in [Procs -> Labels] /\ status' \in [Procs -> {0, 1}]
      BY <1>1, <1>6 DEF HostTypes, Labels
  <2>2. numHandles' \in [Procs -> Nat]
      BY <1>1, <1>5, <1>6 DEF HostTypes
  <2>. QED BY <1>1, <1>3, <2>1, <2>2 DEF HostTypes
<1>9. Others(p)
    BY <1>1, <1>3, <1>6 DEF HostTypes, Others, OwnState
<1>10. Owns(p)' /\ Wanted(p)'
    BY <1>2, <1>3 DEF Process, Owns, Wanted, Opened, Matching
<1>11. Holds(p)' /\ Counted(p)' /\ Probed(p)' /\ Judged(p)'
    BY <1>3, <1>4, <1>7 DEF Holds, Counted, Probed, Judged
<1>12. Bounded(p)'
  <2>1. Bounded(p)
      BY <1>2 DEF Process
  <2>2. numHandles'[p] <= config[p].maxAccels /\ pc'[p] \notin {"filter", "enumerate"}
      BY <1>5, <1>7
  <2>. QED BY <1>3, <2>1, <2>2 DEF Bounded
<1>. QED BY <1>8, <1>9, <1>10, <1>11, <1>12, OneProcess DEF Process

\* A process dies only with its CSR handles.
LEMMA DiesStep ==
    ASSUME IInv, NEW p \in Procs, Dies(p)
    PROVE  IInv'
BY Aborted DEF Dies

\* connectToAccel returned a handle: it is the only one.
LEMMA ConnectedToOneStep ==
    ASSUME IInv, NEW p \in Procs, ConnectedToOne(p)
    PROVE  IInv'
<1>1. HostTypes
    BY DEF IInv
<1>2. Process(p)
    BY DEF IInv
<1>3. CASE Dies(p)
    BY <1>3, DiesStep
<1>4. CASE AccelConnected(p) /\ GoTo(p, "probe") /\ UNCHANGED <<config, connectVars, mainVars>>
  <2>1. /\ pc[p] = "connected" /\ pc' = [pc EXCEPT ![p] = "probe"]
        /\ result[p] = "ok" /\ numHandles[p] = 1
        /\ UNCHANGED <<config, tokens, handles, numHandles, result, aseCheckComplete, isAseSim,
                       owner, prog, csrs, status, isAse, tested>>
      BY <1>4 DEF ConnectedToOne, AccelConnected, GoTo, connectVars, mainVars
  <2>2. pc'[p] = "probe" /\ HostTypes'
      BY <1>1, <2>1 DEF HostTypes, Labels
  <2>3. Others(p)
      BY <1>1, <2>1 DEF HostTypes, Others, OwnState
  <2>4. Owns(p)' /\ Wanted(p)'
      BY <1>2, <2>1 DEF Process, Owns, Wanted, Opened, Matching
  <2>5. numHandles[p] = Len(handles[p]) /\ numHandles[p] # 0
      BY <1>2, <2>1 DEF Process, Counted
  <2>6. Counted(p)'
      BY <2>1, <2>2, <2>5 DEF Counted
  <2>7. Holds(p)' /\ Probed(p)' /\ Judged(p)'
      BY <1>2, <2>1, <2>2 DEF Process, Holds, Probed, Judged
  <2>8. Bounded(p)'
      BY <1>2, <2>1, <2>2 DEF Process, Bounded
  <2>. QED BY <2>2, <2>3, <2>4, <2>6, <2>7, <2>8, OneProcess DEF Process
<1>. QED BY <1>3, <1>4 DEF ConnectedToOne

\* A program that finds nothing returns 0: nothing was at the wanted place.
LEMMA ConnectedToSomeStep ==
    ASSUME IInv, NEW p \in Procs, ConnectedToSome(p), prog[p] = "host_chan_params"
    PROVE  IInv'
<1>1. HostTypes
    BY DEF IInv
<1>2. Process(p)
    BY DEF IInv
<1>3. CASE Dies(p)
    BY <1>3, DiesStep
<1>4. CASE /\ result[p] = "ok" /\ numHandles[p] = 0 /\ Return(p, 0)
           /\ UNCHANGED <<config, connectVars, prog, csrs, isAse, tested>>
  <2>1. /\ pc[p] = "connected" /\ pc' = [pc EXCEPT ![p] = "returned"]
        /\ status' = [status EXCEPT ![p] = 0]
        /\ UNCHANGED <<config, tokens, handles, numHandles, result, aseCheckComplete, isAseSim,
                       owner, prog, csrs, isAse, tested>>
      BY <1>4 DEF ConnectedToSome, Return, GoTo, connectVars
  <2>2. pc'[p] = "returned" /\ status'[p] = 0
      BY <1>1, <2>1 DEF HostTypes
  <2>3. HostTypes'
    <3>1. pc' \in [Procs -> Labels] /\ status' \in [Procs -> {0, 1}]
        BY <1>1, <2>1 DEF HostTypes, Labels
    <3>. QED BY <1>1, <2>1, <3>1 DEF HostTypes
  <2>4. Others(p)
      BY <1>1, <2>1 DEF HostTypes, Others, OwnState
  <2>5. Owns(p)' /\ Wanted(p)'
      BY <1>2, <2>1 DEF Process, Owns, Wanted, Opened, Matching
  <2>6. Matching(config[p].target) = {} /\ numHandles[p] = Len(handles[p])
      BY <1>2, <1>4, <2>1 DEF Process, Counted
  <2>7. handles[p] = <<>>
    <3>1. handles[p] \in Seq(Accels) /\ Len(handles[p]) = 0
        BY <1>1, <1>4, <2>6 DEF HostTypes
    <3>. QED BY <3>1
  <2>8. Judged(p)'
    <3>1. Matching(config[p].target)' = {}
        BY <2>1, <2>6 DEF Matching
    <3>. QED BY <2>1, <3>1 DEF Judged
  <2>9. Holds(p)' /\ Counted(p)' /\ Probed(p)'
      BY <1>2, <2>1, <2>2, <2>7 DEF Process, Holds, Counted, Probed
  <2>10. Bounded(p)'
      BY <1>2, <2>1, <2>2 DEF Process, Bounded
  <2>. QED BY <2>3, <2>4, <2>5, <2>8, <2>9, <2>10, OneProcess DEF Process
<1>5. CASE /\ result[p] = "ok" /\ numHandles[p] # 0 /\ GoTo(p, "probe")
           /\ UNCHANGED <<config, connectVars, mainVars>>
  <2>1. /\ pc[p] = "connected" /\ pc' = [pc EXCEPT ![p] = "probe"]
        /\ UNCHANGED <<config, tokens, handles, numHandles, result, aseCheckComplete, isAseSim,
                       owner, prog, csrs, status, isAse, tested>>
      BY <1>5 DEF ConnectedToSome, GoTo, connectVars, mainVars
  <2>2. pc'[p] = "probe" /\ HostTypes'
      BY <1>1, <2>1 DEF HostTypes, Labels
  <2>3. Others(p)
      BY <1>1, <2>1 DEF HostTypes, Others, OwnState
  <2>4. Owns(p)' /\ Wanted(p)'
      BY <1>2, <2>1 DEF Process, Owns, Wanted, Opened, Matching
  <2>5. Holds(p)' /\ Counted(p)' /\ Probed(p)' /\ Judged(p)'
      BY <1>2, <1>5, <2>1, <2>2 DEF Process, Holds, Counted, Probed, Judged
  <2>6. Bounded(p)'
      BY <1>2, <2>1, <2>2 DEF Process, Bounded
  <2>. QED BY <2>2, <2>3, <2>4, <2>5, <2>6, OneProcess DEF Process
<1>. QED BY <1>3, <1>4, <1>5 DEF ConnectedToSome

\* The answer was recorded when an accelerator was opened.
LEMMA ProbeStep ==
    ASSUME IInv, NEW p \in Procs, Probe(p)
    PROVE  IInv'
<1>1. HostTypes
    BY DEF IInv
<1>2. Process(p)
    BY DEF IInv
<1>3. /\ pc[p] = "probe" /\ pc' = [pc EXCEPT ![p] = "alloc"]
      /\ UNCHANGED <<config, tokens, handles, numHandles, result, aseCheckComplete, isAseSim,
                     owner, prog, csrs, status, tested>>
    BY DEF Probe, GoTo, connectVars
<1>4. handles[p] # <<>> /\ csrs[p] = 0
  <2>1. Len(handles[p]) # 0
      BY <1>2, <1>3 DEF Process, Counted
  <2>2. Len(<<>>) = 0
      OBVIOUS
  <2>. QED BY <1>2, <1>3, <2>1, <2>2 DEF Process, Holds
<1>5. aseCheckComplete[p] /\ probeForASE(p) = {isAseSim[p]}
    BY <1>2, <1>3, <1>4 DEF Process, Probed, probeForASE
<1>6. isAse' = [isAse EXCEPT ![p] = isAseSim[p]]
    BY <1>5 DEF Probe
<1>7. pc'[p] = "alloc" /\ isAse'[p] = isAseSim[p]
    BY <1>1, <1>3, <1>6 DEF HostTypes
<1>8. HostTypes'
  <2>1. pc' \in [Procs -> Labels]
      BY <1>1, <1>3 DEF HostTypes, Labels
  <2>2. isAse' \in [Procs -> BOOLEAN]
      BY <1>1, <1>6 DEF HostTypes
  <2>. QED BY <1>1, <1>3, <2>1, <2>2 DEF HostTypes
<1>9. Others(p)
    BY <1>1, <1>3, <1>6 DEF HostTypes, Others, OwnState
<1>10. Owns(p)' /\ Wanted(p)'
    BY <1>2, <1>3 DEF Process, Owns, Wanted, Opened, Matching
<1>11. Holds(p)'
    BY <1>1, <1>2, <1>3, <1>4, <1>7 DEF Process, Holds, HostTypes
<1>12. Counted(p)' /\ Probed(p)' /\ Judged(p)'
    BY <1>2, <1>3, <1>7 DEF Process, Counted, Probed, Judged
<1>13. Bounded(p)'
    BY <1>2, <1>3, <1>7 DEF Process, Bounded
<1>. QED BY <1>8, <1>9, <1>10, <1>11, <1>12, <1>13, OneProcess DEF Process

\* A CSR handle is allocated only for an accelerator that has none.
LEMMA AllocStep ==
    ASSUME IInv, NEW p \in Procs, Alloc(p)
    PROVE  IInv'
<1>1. HostTypes
    BY DEF IInv
<1>2. Process(p)
    BY DEF IInv
<1>3. pc[p] = "alloc" /\ numHandles[p] = Len(handles[p]) /\ csrs[p] <= numHandles[p]
      /\ csrs[p] \in Nat /\ numHandles[p] \in Nat /\ numHandles[p] # 0
      /\ aseCheckComplete[p] /\ isAse[p] = isAseSim[p]
    BY <1>1, <1>2 DEF Alloc, Process, Counted, Holds, Probed, HostTypes
<1>4. CASE Dies(p)
    BY <1>4, DiesStep
<1>5. CASE csrs[p] = numHandles[p] /\ GoTo(p, "test")
           /\ UNCHANGED <<config, connectVars, mainVars>>
  <2>1. /\ pc' = [pc EXCEPT ![p] = "test"]
        /\ UNCHANGED <<config, tokens, handles, numHandles, result, aseCheckComplete, isAseSim,
                       owner, prog, csrs, status, isAse, tested>>
      BY <1>5 DEF GoTo, connectVars, mainVars
  <2>2. pc'[p] = "test" /\ HostTypes'
      BY <1>1, <2>1 DEF HostTypes, Labels
  <2>3. Others(p)
      BY <1>1, <2>1 DEF HostTypes, Others, OwnState
  <2>4. Owns(p)' /\ Wanted(p)'
      BY <1>2, <2>1 DEF Process, Owns, Wanted, Opened, Matching
  <2>5. Holds(p)' /\ Probed(p)' /\ Judged(p)'
      BY <1>2, <1>3, <1>5, <2>1, <2>2 DEF Process, Holds, Probed, Judged
  <2>6. Counted(p)'
      BY <1>3, <2>1, <2>2 DEF Counted
  <2>7. Bounded(p)'
      BY <1>2, <2>1, <2>2 DEF Process, Bounded
  <2>. QED BY <2>2, <2>3, <2>4, <2>5, <2>6, <2>7, OneProcess DEF Process
<1>6. CASE csrs[p] # numHandles[p] /\ csrAllocHandle(p)
           /\ UNCHANGED <<pc, config, connectVars, prog, status, isAse, tested>>
  <2>1. /\ csrs' = [csrs EXCEPT ![p] = @ + 1]
        /\ UNCHANGED <<pc, config, tokens, handles, numHandles, result, aseCheckComplete,
                       isAseSim, owner, prog, status, isAse, tested>>
      BY <1>6 DEF csrAllocHandle, connectVars
  <2>2. csrs'[p] = csrs[p] + 1
      BY <1>1, <2>1 DEF HostTypes
  <2>3. csrs[p] + 1 \in Nat /\ csrs[p] + 1 <= numHandles[p]
      BY <1>3, <1>6
  <2>4. HostTypes'
    <3>1. csrs' \in [Procs -> Nat]
        BY <1>1, <2>1, <2>3 DEF HostTypes
    <3>. QED BY <1>1, <2>1, <3>1 DEF HostTypes
  <2>5. Others(p)
      BY <1>1, <2>1 DEF HostTypes, Others, OwnState
  <2>6. Owns(p)' /\ Wanted(p)'
      BY <1>2, <2>1 DEF Process, Owns, Wanted, Opened, Matching
  <2>7. Holds(p)' /\ Probed(p)' /\ Judged(p)'
      BY <1>2, <1>3, <2>1, <2>2, <2>3 DEF Process, Holds, Probed, Judged
  <2>8. Counted(p)'
      BY <1>3, <2>1 DEF Counted
  <2>9. Bounded(p)'
    <3>1. csrs'[p] <= Len(handles'[p])
        BY <1>3, <2>1, <2>2, <2>3
    <3>. QED BY <1>2, <2>1, <3>1 DEF Process, Bounded
  <2>. QED BY <2>4, <2>5, <2>6, <2>7, <2>8, <2>9, OneProcess DEF Process
<1>. QED BY <1>4, <1>5, <1>6 DEF Alloc

\* The test runs on what is open, which is at the wanted place.
LEMMA RunTestStep ==
    ASSUME IInv, NEW p \in Procs, NEW all, RunTest(p, all)
    PROVE  IInv'
<1>1. HostTypes
    BY DEF IInv
<1>2. Process(p)
    BY DEF IInv
<1>. DEFINE t == IF all THEN Opened(p) ELSE {handles[p][1]}
<1>3. /\ pc[p] = "test" /\ tested' = [tested EXCEPT ![p] = t]
      /\ UNCHANGED <<config, prog, isAse>>
    BY DEF RunTest
<1>4. numHandles[p] = Len(handles[p]) /\ numHandles[p] # 0 /\ csrs[p] = numHandles[p]
    BY <1>2, <1>3 DEF Process, Counted, Holds
<1>5. t # {} /\ t \subseteq Matching(config[p].target) /\ t \subseteq Accels
  <2>1. handles[p] \in Seq(Accels) /\ 1 \in DOMAIN handles[p]
      BY <1>1, <1>4 DEF HostTypes
  <2>2. handles[p][1] \in Opened(p)
      BY <2>1 DEF Opened
  <2>3. Opened(p) \subseteq Matching(config[p].target)
      BY <1>2 DEF Process, Wanted
  <2>. QED BY <2>2, <2>3 DEF Matching
<1>. HIDE DEF t
<1>6. CASE Abort(p) /\ status' = [status EXCEPT ![p] = 1] /\ csrs' = [csrs EXCEPT ![p] = 0]
    BY <1>3, <1>5, <1>6, Aborted
<1>7. CASE /\ \E s \in {0, 1} : status' = [status EXCEPT ![p] = s]
           /\ GoTo(p, "close") /\ UNCHANGED <<connectVars, csrs>>
  <2>1. /\ pc' = [pc EXCEPT ![p] = "close"]
        /\ UNCHANGED <<tokens, handles, numHandles, result, aseCheckComplete, isAseSim, owner,
                       csrs>>
      BY <1>7 DEF GoTo, connectVars
  <2>2. pc'[p] = "close" /\ tested'[p] = t
      BY <1>1, <1>3, <2>1 DEF HostTypes
  <2>3. HostTypes'
    <3>1. pc' \in [Procs -> Labels] /\ status' \in [Procs -> {0, 1}]
        BY <1>1, <1>7, <2>1 DEF HostTypes, Labels
    <3>2. tested' \in [Procs -> SUBSET Accels]
        BY <1>1, <1>3, <1>5 DEF HostTypes
    <3>. QED BY <1>1, <1>3, <2>1, <3>1, <3>2 DEF HostTypes
  <2>4. Others(p)
      BY <1>1, <1>3, <1>7, <2>1 DEF HostTypes, Others, OwnState
  <2>5. Owns(p)' /\ Wanted(p)'
      BY <1>2, <1>3, <2>1 DEF Process, Owns, Wanted, Opened, Matching
  <2>6. Judged(p)'
    <3>1. Matching(config[p].target)' = Matching(config[p].target)
        BY <1>3 DEF Matching
    <3>. QED BY <1>5, <2>2, <3>1 DEF Judged
  <2>7. Holds(p)'
    <3>1. csrs'[p] = Len(handles'[p]) /\ tokens'[p] = <<>>
        BY <1>2, <1>3, <1>4, <2>1 DEF Process, Holds
    <3>. QED BY <2>2, <3>1 DEF Holds
  <2>8. Counted(p)' /\ Probed(p)'
      BY <2>2 DEF Counted, Probed
  <2>9. Bounded(p)'
      BY <1>2, <1>3, <2>1, <2>2 DEF Process, Bounded
  <2>. QED BY <2>3, <2>4, <2>5, <2>6, <2>7, <2>8, <2>9, OneProcess DEF Process
<1>. QED BY <1>6, <1>7 DEF RunTest

\* An accelerator is closed with its CSR handle; after the last one, nothing
\* is left.
LEMMA CloseAllStep ==
    ASSUME IInv, NEW p \in Procs, CloseAll(p)
    PROVE  IInv'
<1>1. HostTypes
    BY DEF IInv
<1>2. Process(p)
    BY DEF IInv
<1>. DEFINE h == handles[p]
<1>. DEFINE a == h[1]
<1>3. /\ pc[p] = "close" /\ csrs[p] = Len(h) /\ h \in Seq(Accels) /\ Len(h) \in Nat
      /\ tokens[p] = <<>>
      /\ UNCHANGED <<config, prog, status, isAse, tested>>
    BY <1>1, <1>2 DEF CloseAll, Process, Holds, HostTypes
<1>4. CASE csrs[p] = 0 /\ GoTo(p, "returned") /\ UNCHANGED <<connectVars, csrs>>
  <2>1. /\ pc' = [pc EXCEPT ![p] = "returned"]
        /\ UNCHANGED <<tokens, handles, numHandles, result, aseCheckComplete, isAseSim, owner,
                       csrs>>
      BY <1>4 DEF GoTo, connectVars
  <2>2. handles'[p] = <<>> /\ csrs'[p] = 0
    <3>1. h \in Seq(Accels) /\ Len(h) = 0
        BY <1>3, <1>4
    <3>2. h = <<>>
        BY <3>1
    <3>. QED BY <1>4, <2>1, <3>2
  <2>3. pc'[p] = "returned" /\ HostTypes'
      BY <1>1, <1>3, <2>1 DEF HostTypes, Labels
  <2>4. Others(p)
      BY <1>1, <1>3, <2>1 DEF HostTypes, Others, OwnState
  <2>5. Owns(p)' /\ Wanted(p)'
      BY <1>2, <1>3, <2>1 DEF Process, Owns, Wanted, Opened, Matching
  <2>6. Holds(p)' /\ Counted(p)' /\ Probed(p)'
      BY <1>3, <2>1, <2>2, <2>3 DEF Holds, Counted, Probed
  <2>7. Judged(p)'
    <3>1. Matching(config[p].target)' = Matching(config[p].target)
        BY <1>3 DEF Matching
    <3>. QED BY <1>2, <1>3, <2>1, <3>1 DEF Process, Judged
  <2>8. Bounded(p)'
      BY <1>2, <1>3, <2>1, <2>3 DEF Process, Bounded
  <2>. QED BY <2>3, <2>4, <2>5, <2>6, <2>7, <2>8, OneProcess DEF Process
<1>5. CASE /\ csrs[p] # 0
           /\ owner' = [owner EXCEPT ![a] = NoProc]
           /\ handles' = [handles EXCEPT ![p] = Tail(@)]
           /\ csrs' = [csrs EXCEPT ![p] = @ - 1]
           /\ UNCHANGED <<pc, tokens, numHandles, result, aseCheckComplete, isAseSim>>
  <2>1. /\ Tail(h) \in Seq(Accels) /\ Len(Tail(h)) = Len(h) - 1
        /\ DOMAIN Tail(h) = 1..(Len(h) - 1) /\ 1 \in 1..Len(h) /\ a \in Accels
        /\ \A i \in 1..(Len(h) - 1) : Tail(h)[i] = h[i + 1] /\ i + 1 \in 1..Len(h)
      BY <1>3, <1>5
  <2>2. handles'[p] = Tail(h) /\ csrs'[p] = Len(h) - 1
      BY <1>1, <1>3, <1>5 DEF HostTypes
  <2>3. HostTypes'
    <3>1. handles' \in [Procs -> Seq(Accels)]
        BY <1>1, <1>5, <2>1 DEF HostTypes
    <3>2. csrs' \in [Procs -> Nat]
        BY <1>1, <1>3, <1>5 DEF HostTypes
    <3>3. owner' \in [Accels -> Procs \cup {NoProc}]
        BY <1>1, <1>5 DEF HostTypes
    <3>. QED BY <1>1, <1>3, <1>5, <3>1, <3>2, <3>3 DEF HostTypes
  <2>4. /\ \A i, j \in 1..Len(h) : h[i] = h[j] => i = j
        /\ \A b \in Accels : owner[b] = p <=> \E i \in 1..Len(h) : h[i] = b
      BY <1>2, <1>3 DEF Process, Owns, Opened
  <2>5. Others(p)
    <3>1. owner[a] = p
        BY <2>1, <2>4
    <3>2. \A b \in Accels : owner'[b] # owner[b] => owner[b] = p /\ owner'[b] = NoProc
        BY <1>1, <1>5, <2>1, <3>1 DEF HostTypes
    <3>3. \A q \in Procs : q # p => OwnState(q)' = OwnState(q)
        BY <1>1, <1>3, <1>5 DEF HostTypes, OwnState
    <3>. QED BY <1>3, <3>2, <3>3 DEF Others
  <2>. HIDE DEF h
  <2>6. Owns(p)'
    <3>1. \A i, j \in 1..(Len(h) - 1) : Tail(h)[i] = Tail(h)[j] => i = j
      <4>1. SUFFICES ASSUME NEW i \in 1..(Len(h) - 1), NEW j \in 1..(Len(h) - 1),
                            h[i + 1] = h[j + 1]
                     PROVE  i = j
          BY <2>1
      <4>2. i + 1 = j + 1
          BY <2>1, <2>4, <4>1
      <4>. QED BY <4>2
    <3>2. ASSUME NEW b \in Accels
          PROVE  owner'[b] = p <=> \E i \in 1..(Len(h) - 1) : Tail(h)[i] = b
      <4>1. CASE b = a
        <5>1. owner'[b] # p
            BY <1>1, <1>5, <2>1, <4>1, ConnectAssumption DEF HostTypes, ConnectAssumption
        <5>2. \A i \in 1..(Len(h) - 1) : h[i + 1] # h[1]
            BY <1>3, <2>1, <2>4
        <5>. QED BY <2>1, <4>1, <5>1, <5>2
      <4>2. CASE b # a
        <5>1. owner'[b] = p <=> \E i \in 1..Len(h) : h[i] = b
            BY <1>1, <1>5, <2>1, <2>4, <4>2 DEF HostTypes
        <5>2. ASSUME NEW i \in 1..Len(h), h[i] = b
              PROVE  i - 1 \in 1..(Len(h) - 1) /\ h[(i - 1) + 1] = b
            BY <1>3, <4>2, <5>2
        <5>. QED BY <2>1, <5>1, <5>2
      <4>. QED BY <4>1, <4>2
    <3>3. DOMAIN handles'[p] = 1..(Len(h) - 1) /\ \A i : handles'[p][i] = Tail(h)[i]
        BY <2>1, <2>2
    <3>4. \A i, j \in DOMAIN handles'[p] : handles'[p][i] = handles'[p][j] => i = j
        BY <3>1, <3>3
    <3>5. handles'[p] = Tail(h) /\ Opened(p)' = {Tail(h)[i] : i \in 1..(Len(h) - 1)}
        BY <2>2, <3>3 DEF Opened
    <3>6. ASSUME NEW b \in Accels PROVE owner'[b] = p <=> b \in Opened(p)'
      <4>1. owner'[b] = p <=> \E i \in 1..(Len(h) - 1) : Tail(h)[i] = b
          BY <3>2
      <4>. QED BY <3>5, <4>1
    <3>. QED BY <3>4, <3>6 DEF Owns
  <2>7. Wanted(p)'
    <3>1. Matching(config[p].target)' = Matching(config[p].target)
        BY <1>3 DEF Matching
    <3>2. \A i \in 1..Len(h) : h[i] \in Matching(config[p].target)
        BY <1>2, <1>3 DEF Process, Wanted, Opened, h
    <3>3. tokens'[p] = <<>>
        BY <1>3, <1>5
    <3>. QED BY <2>1, <2>2, <3>1, <3>2, <3>3 DEF Wanted, Opened
  <2>8. Holds(p)'
    <3>1. csrs'[p] = Len(handles'[p])
        BY <2>1, <2>2
    <3>. QED BY <1>3, <1>5, <3>1 DEF Holds
  <2>9. Counted(p)' /\ Probed(p)'
      BY <1>3, <1>5 DEF Counted, Probed
  <2>10. Judged(p)'
      BY <1>2, <1>3, <1>5 DEF Process, Judged, Matching
  <2>11. Bounded(p)'
    <3>. DEFINE m == Len(handles[p])
    <3>. DEFINE n == Len(handles'[p])
    <3>1. n = m - 1 /\ m \in Nat /\ csrs'[p] = n /\ Len(<<>>) = 0 /\ m # 0
        BY <1>3, <1>5, <2>1, <2>2 DEF h
    <3>2. Bounded(p) /\ tokens'[p] = <<>>
        BY <1>2, <1>3, <1>5 DEF Process
    <3>3. m <= MaxTokens /\ m <= config[p].maxAccels
        BY <1>3, <3>1, <3>2 DEF Bounded
    <3>4. MaxTokens \in Nat /\ config[p].maxAccels \in Int
        BY <1>1, ConnectAssumption DEF HostTypes, Config, ConnectAssumption
    <3>5. n <= MaxTokens /\ n <= config[p].maxAccels /\ n \in Nat
      <4>. HIDE DEF m, n
      <4>. QED BY <3>1, <3>3, <3>4
    <3>6. Len(tokens'[p]) + n = n
      <4>. HIDE DEF n
      <4>. QED BY <3>1, <3>2, <3>5
    <3>7. /\ prog'[p] = prog[p] /\ config'[p] = config[p] /\ numHandles'[p] = numHandles[p]
          /\ pc'[p] = "close"
        BY <1>3, <1>5
    <3>8. csrs'[p] <= n
      <4>. HIDE DEF n
      <4>. QED BY <3>1, <3>5
    <3>. QED BY <3>2, <3>5, <3>6, <3>7, <3>8 DEF Bounded
  <2>. QED BY <2>3, <2>5, <2>6, <2>7, <2>8, <2>9, <2>10, <2>11, OneProcess DEF Process
<1>. QED BY <1>4, <1>5 DEF CloseAll, ToClose, csrReleaseHandle

\* A program that starts finds nothing of the one that ran before.
LEMMA StartsStep ==
    ASSUME IInv, NEW p \in Procs, Starts(p)
    PROVE  IInv'
<1>1. HostTypes
    BY DEF IInv
<1>2. Process(p)
    BY DEF IInv
<1>3. PICK g \in MayRun[p] : prog' = [prog EXCEPT ![p] = g]
    BY DEF Starts
<1>4. /\ pc[p] \in {"returned", "aborted"} /\ pc' = [pc EXCEPT ![p] = "args"]
      /\ config' = [config EXCEPT ![p] = NoArguments]
      /\ numHandles' = [numHandles EXCEPT ![p] = 0]
      /\ result' = [result EXCEPT ![p] = "ok"]
      /\ aseCheckComplete' = [aseCheckComplete EXCEPT ![p] = FALSE]
      /\ isAseSim' = [isAseSim EXCEPT ![p] = FALSE]
      /\ isAse' = [isAse EXCEPT ![p] = FALSE]
      /\ status' = [status EXCEPT ![p] = 1]
      /\ tested' = [tested EXCEPT ![p] = {}]
      /\ UNCHANGED <<tokens, handles, csrs, owner>>
    BY DEF Starts, GoTo
<1>5. g \in Programs
    BY HostAssumption DEF HostAssumption
<1>6. NoArguments \in Config /\ NoArguments.maxAccels = 1
    BY HostAssumption DEF HostAssumption, NoArguments, Config, initTargetBDF, Unset
<1>7. HostTypes'
  <2>1. /\ pc' \in [Procs -> Labels] /\ config' \in [Procs -> Config]
        /\ numHandles' \in [Procs -> Nat] /\ result' \in [Procs -> {"ok", "error"}]
      BY <1>1, <1>4, <1>6 DEF HostTypes, Labels
  <2>2. /\ aseCheckComplete' \in [Procs -> BOOLEAN] /\ isAseSim' \in [Procs -> BOOLEAN]
        /\ isAse' \in [Procs -> BOOLEAN] /\ status' \in [Procs -> {0, 1}]
        /\ tested' \in [Procs -> SUBSET Accels] /\ prog' \in [Procs -> Programs]
      BY <1>1, <1>3, <1>4, <1>5 DEF HostTypes
  <2>. QED BY <1>1, <1>4, <2>1, <2>2 DEF HostTypes
<1>8. Others(p)
    BY <1>1, <1>3, <1>4 DEF HostTypes, Others, OwnState
<1>9. /\ pc'[p] = "args" /\ config'[p] = NoArguments /\ numHandles'[p] = 0 /\ status'[p] = 1
      /\ handles'[p] = <<>> /\ tokens'[p] = <<>> /\ csrs'[p] = 0
    BY <1>1, <1>2, <1>4 DEF HostTypes, Process, Holds
<1>10. Owns(p)'
    BY <1>2, <1>4 DEF Process, Owns, Opened
<1>11. Wanted(p)'
    BY <1>9 DEF Wanted, Opened
<1>12. Holds(p)' /\ Counted(p)' /\ Probed(p)' /\ Judged(p)'
    BY <1>9 DEF Holds, Counted, Probed, Judged
<1>13. Bounded(p)'
  <2>1. Len(<<>>) = 0
      OBVIOUS
  <2>. QED BY <1>6, <1>9, <2>1, ConnectAssumption DEF Bounded, ConnectAssumption
<1>. QED BY <1>7, <1>8, <1>10, <1>11, <1>12, <1>13, OneProcess DEF Process

\* Nothing is open at first.
LEMMA InitInv == Init => IInv
<1>. SUFFICES ASSUME Init PROVE IInv
    OBVIOUS
<1>1. NoArguments \in Config /\ NoArguments.maxAccels = 1
    BY HostAssumption DEF HostAssumption, NoArguments, Config, initTargetBDF, Unset
<1>2. HostTypes
    BY <1>1 DEF Init, HostTypes, Labels
<1>3. ASSUME NEW p \in Procs PROVE Process(p)
  <2>1. /\ pc[p] = "args" /\ config[p] = NoArguments /\ numHandles[p] = 0 /\ status[p] = 1
        /\ handles[p] = <<>> /\ tokens[p] = <<>> /\ csrs[p] = 0
      BY DEF Init
  <2>2. Owns(p)
      BY <2>1, ConnectAssumption DEF Init, Owns, Opened, ConnectAssumption
  <2>3. Wanted(p)
      BY <2>1 DEF Wanted, Opened
  <2>4. Holds(p) /\ Counted(p) /\ Probed(p) /\ Judged(p)
      BY <2>1 DEF Holds, Counted, Probed, Judged
  <2>5. Bounded(p)
    <3>1. Len(<<>>) = 0
        OBVIOUS
    <3>. QED BY <1>1, <2>1, <3>1, ConnectAssumption DEF Bounded, ConnectAssumption
  <2>. QED BY <2>2, <2>3, <2>4, <2>5 DEF Process
<1>. QED BY <1>2, <1>3 DEF IInv
-----------------------------------------------------------------------------
\* The programs with one accelerator share their steps.
LEMMA OneAccelStep ==
    ASSUME IInv, NEW p \in Procs, NEW outcomes, OneAccelMain(p, outcomes),
           outcomes \subseteq Config, prog[p] # "host_chan_params",
           \A d \in outcomes : d.maxAccels = config[p].maxAccels
    PROVE  IInv'
<1>1. config[p].maxAccels = 1
    BY DEF IInv, Process, Bounded
<1>2. CASE Parses(p, outcomes)
    BY <1>2, ParsesStep
<1>3. CASE Parsed(p, 1)
    BY <1>1, <1>3, ParsedStep
<1>4. CASE ConnectedToOne(p)
    BY <1>4, ConnectedToOneStep
<1>5. CASE Probe(p)
    BY <1>5, ProbeStep
<1>6. CASE Alloc(p)
    BY <1>6, AllocStep
<1>7. CASE RunTest(p, FALSE)
    BY <1>7, RunTestStep
<1>8. CASE CloseAll(p)
    BY <1>8, CloseAllStep
<1>. QED BY <1>2, <1>3, <1>4, <1>5, <1>6, <1>7, <1>8 DEF OneAccelMain

\* The invariant is kept by every step of every program.
LEMMA NextInv == IInv /\ [Next]_vars => IInv'
<1>1. ASSUME IInv, UNCHANGED vars PROVE IInv'
  <2>1. UNCHANGED <<pc, config, tokens, handles, numHandles, result, aseCheckComplete, isAseSim,
                    owner, prog, csrs, status, isAse, tested>>
      BY <1>1 DEF vars
  <2>2. HostTypes'
      BY <1>1, <2>1 DEF IInv, HostTypes
  <2>3. ASSUME NEW p \in Procs PROVE Process(p)'
    <3>1. Process(p)
        BY <1>1 DEF IInv
    <3>2. Owns(p)' /\ Wanted(p)' /\ Holds(p)'
        BY <2>1, <3>1 DEF Process, Owns, Wanted, Holds, Opened, Matching
    <3>3. Counted(p)' /\ Probed(p)'
        BY <2>1, <3>1 DEF Process, Counted, Probed, Matching
    <3>4. Bounded(p)' /\ Judged(p)'
        BY <2>1, <3>1 DEF Process, Bounded, Judged, Matching
    <3>. QED BY <3>2, <3>3, <3>4 DEF Process
  <2>. QED BY <2>2, <2>3 DEF IInv
<1>2. ASSUME IInv, NEW p \in Procs, connectToMatchingAccels(p), UNCHANGED mainVars PROVE IInv'
    BY <1>2, ConnectBeginsStep, SetFilterStep, EnumerateStep, OpenNextStep, OpenEndsStep
    DEF connectToMatchingAccels
<1>3. ASSUME IInv, NEW p \in Procs PROVE config[p] \in Config
    BY <1>3 DEF IInv, HostTypes
<1>4. ASSUME IInv, NEW p \in Procs, AtomicMain(p) PROVE IInv'
  <2>1. \A d \in {AtomicParse(config[p], arg) : arg \in Args[p]} :
            d \in Config /\ d.maxAccels = config[p].maxAccels
      BY <1>3, <1>4, ParseTypes
  <2>. QED BY <1>4, <2>1, OneAccelStep DEF AtomicMain
<1>5. ASSUME IInv, NEW p \in Procs, IntrMain(p) PROVE IInv'
  <2>1. \A d \in {IntrParse(config[p], arg) : arg \in Args[p]} :
            d \in Config /\ d.maxAccels = config[p].maxAccels
      BY <1>3, <1>5, ParseTypes
  <2>. QED BY <1>5, <2>1, OneAccelStep DEF IntrMain
<1>6. ASSUME IInv, NEW p \in Procs, MmioMain(p) PROVE IInv'
  <2>1. \A d \in {MmioParse(config[p], arg) : arg \in Args[p]} :
            d \in Config /\ d.maxAccels = config[p].maxAccels
      BY <1>3, <1>6, ParseTypes
  <2>. QED BY <1>6, <2>1, OneAccelStep DEF MmioMain
<1>7. ASSUME IInv, NEW p \in Procs, LocalMemMain(p) PROVE IInv'
  <2>1. \A d \in {LocalMemParse(config[p], arg) : arg \in Args[p]} :
            d \in Config /\ d.maxAccels = config[p].maxAccels
      BY <1>3, <1>7, ParseTypes
  <2>. QED BY <1>7, <2>1, OneAccelStep DEF LocalMemMain
<1>8. ASSUME IInv, NEW p \in Procs, ParamsMain(p) PROVE IInv'
  <2>1. prog[p] = "host_chan_params"
      BY <1>8 DEF ParamsMain
  <2>2. \A d \in {ParamsParse(config[p], arg) : arg \in Args[p]} : d \in Config
      BY <1>3, <1>8, ParseTypes
  <2>3. CASE Parses(p, {ParamsParse(config[p], arg) : arg \in Args[p]})
      BY <1>8, <2>1, <2>2, <2>3, ParsesStep
  <2>4. CASE Parsed(p, config[p].maxAccels)
      BY <1>8, <2>4, ParsedStep
  <2>5. CASE ConnectedToSome(p)
      BY <1>8, <2>1, <2>5, ConnectedToSomeStep
  <2>6. CASE Probe(p) \/ Alloc(p) \/ CloseAll(p)
      BY <1>8, <2>6, ProbeStep, AllocStep, CloseAllStep
  <2>7. CASE RunTest(p, config[p].latency)
      BY <1>8, <2>7, RunTestStep
  <2>. QED BY <1>8, <2>3, <2>4, <2>5, <2>6, <2>7 DEF ParamsMain
<1>. QED BY <1>1, <1>2, <1>4, <1>5, <1>6, <1>7, <1>8, StartsStep DEF Next, Main
-----------------------------------------------------------------------------
\* The invariant holds always.
LEMMA Invariance == Spec => []IInv
BY InitInv, NextInv, PTL DEF Spec

\* No array overruns: every run of every program keeps tokens and handles
\* within MAX_ACCELS places and within what was asked for (connect.c).
THEOREM TypesHold == Spec => []TypeOK
<1>1. IInv => TypeOK
  <2>. SUFFICES ASSUME IInv PROVE TypeOK
      OBVIOUS
  <2>1. HostTypes
      BY DEF IInv
  <2>2. ASSUME NEW p \in Procs
        PROVE  /\ config[p] \in [ok : BOOLEAN, latency : BOOLEAN, maxAccels : 0..MaxAllowed,
                                  target : [TargetFields -> Int]]
               /\ tokens[p] \in Seq(Accels) /\ Len(tokens[p]) + Len(handles[p]) <= MaxTokens
               /\ handles[p] \in Seq(Accels)
               /\ Len(tokens[p]) + Len(handles[p]) <= config[p].maxAccels
               /\ numHandles[p] \in 0..MaxAllowed
               /\ result[p] \in {"ok", "error"} /\ status[p] \in {0, 1}
               /\ csrs[p] \in 0..MaxTokens
               /\ tested[p] \subseteq Accels
    <3>1. Bounded(p)
        BY DEF IInv, Process
    <3>2. config[p] \in Config /\ config[p].maxAccels \in 0..MaxAllowed
        BY <2>1 DEF HostTypes, Config
    <3>3. numHandles[p] \in 0..MaxAllowed
        BY <2>1, <3>1, <3>2, HostAssumption DEF HostTypes, Bounded, HostAssumption
    <3>4. csrs[p] \in 0..MaxTokens
      <4>. DEFINE m == Len(tokens[p])
      <4>. DEFINE n == Len(handles[p])
      <4>1. m \in Nat /\ n \in Nat /\ csrs[p] \in Nat
          BY <2>1 DEF HostTypes
      <4>2. m + n <= MaxTokens /\ csrs[p] <= n
          BY <3>1 DEF Bounded
      <4>3. MaxTokens \in Nat
          BY ConnectAssumption DEF ConnectAssumption
      <4>. HIDE DEF m, n
      <4>. QED BY <4>1, <4>2, <4>3
    <3>. QED BY <2>1, <3>1, <3>2, <3>3, <3>4 DEF HostTypes, Bounded, Config
  <2>. QED BY <2>1, <2>2 DEF HostTypes, TypeOK
<1>. QED BY <1>1, Invariance, PTL

\* A test runs on accelerators that are open, distinct, wanted and its own,
\* each with a CSR handle, however the programs compete.
THEOREM TestsRunOnTheirAccels == Spec => []TestRunsOnItsAccels
<1>1. IInv => TestRunsOnItsAccels
  <2>. SUFFICES ASSUME IInv, NEW p \in Procs, pc[p] = "test"
                PROVE  /\ handles[p] # <<>> /\ Len(handles[p]) = numHandles[p]
                       /\ csrs[p] = numHandles[p]
                       /\ \A i, j \in DOMAIN handles[p] : handles[p][i] = handles[p][j] => i = j
                       /\ \A a \in Opened(p) : owner[a] = p /\ a \in Matching(config[p].target)
                       /\ aseCheckComplete[p] /\ isAse[p] = isAseSim[p]
      BY DEF TestRunsOnItsAccels
  <2>1. Process(p)
      BY DEF IInv
  <2>2. Len(handles[p]) = numHandles[p] /\ numHandles[p] # 0 /\ csrs[p] = numHandles[p]
      BY <2>1 DEF Process, Counted, Holds
  <2>3. handles[p] # <<>>
    <3>1. Len(<<>>) = 0
        OBVIOUS
    <3>. QED BY <2>2, <3>1
  <2>4. \A a \in Opened(p) : owner[a] = p /\ a \in Matching(config[p].target)
      BY <2>1 DEF Process, Owns, Wanted, Matching
  <2>. QED BY <2>1, <2>2, <2>3, <2>4 DEF Process, Owns, Probed
<1>. QED BY <1>1, Invariance, PTL

\* A program that returns has closed all it opened and released every CSR
\* handle, after partial failures too.
THEOREM NothingIsLeftBehind == Spec => []NothingLeftBehind
<1>1. IInv => NothingLeftBehind
  <2>. SUFFICES ASSUME IInv, NEW p \in Procs
                PROVE  /\ pc[p] = "returned" => csrs[p] = 0 /\ \A a \in Accels : owner[a] # p
                       /\ pc[p] # "open" => tokens[p] = <<>>
      BY DEF NothingLeftBehind
  <2>1. Owns(p) /\ Holds(p)
      BY DEF IInv, Process
  <2>2. pc[p] = "returned" => handles[p] = <<>> /\ csrs[p] = 0
      BY <2>1 DEF Holds
  <2>3. handles[p] = <<>> => \A a \in Accels : owner[a] # p
      BY <2>1 DEF Owns, Opened
  <2>. QED BY <2>1, <2>2, <2>3 DEF Holds
<1>. QED BY <1>1, Invariance, PTL

\* A status of 0 is never an accident of failed searches: a test was run on
\* wanted accelerators, or host_chan_params found that there are none.
THEOREM ZeroStatusIsEarned == Spec => []ZeroStatusMeansTested
<1>1. IInv => ZeroStatusMeansTested
    BY DEF IInv, Process, Judged, ZeroStatusMeansTested
<1>. QED BY <1>1, Invariance, PTL
=============================================================================
