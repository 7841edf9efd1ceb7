------------------------------- MODULE IntrTest -------------------------------
(***************************************************************************)
(* The interrupt test: host_chan_intr/sw/test_host_chan_intr.c with its    *)
(* AFU, host_chan_intr/hw/rtl/axi/afu.sv.  A thread per vector waits for   *)
(* its interrupt, at most 30 seconds; the main thread triggers them all    *)
(* with one CSR write, joins the threads, and asks the AFU how many        *)
(* responses it had.  Interrupts and responses may take any time, so that  *)
(* those of a test that gave up are still under way when the next begins.  *)
(***************************************************************************)
EXTENDS Integers, FiniteSets, CsrSpace

CONSTANTS NumIntrIds,   \* NUM_INTR_IDS
          IdValues,     \* of t_intr_id, 2 ^ $clog2(NUM_INTR_IDS)
          MaxPolls,     \* how often the response count is read, 10 in the code
          MaxTests      \* bound: how often the test is run

VARIABLES mainPc, id,   \* main thread, and its loop index
          thread,       \* of each vector: where its thread is
          errorCount,
          polls,        \* cnt, of the loop over the response count
          event,        \* the eventfd of each vector; NoEvent if not registered
          test,         \* which test this is
          gaveUp,       \* did something in this test take too long or fail?
          trouble,      \* in this test or an earlier one?
          startWire,    \* is the CSR write on its way?
          active, curIntrId, numResponses, responseMask,   \* the AFU
          interrupts, responses   \* of each vector, how many are under way

mainVars == <<mainPc, id, errorCount, polls, test>>
faults == <<gaveUp, trouble>>
afu == <<active, curIntrId, numResponses, responseMask>>
intrVars == <<mainVars, thread, event, faults, startWire, afu, interrupts, responses>>

IntrAssumption ==
    /\ NumIntrIds \in 1..16 /\ IdValues \in Nat /\ NumIntrIds <= IdValues
    /\ MaxPolls \in Nat \ {0} /\ MaxTests \in Nat \ {0}
ASSUME IntrAssumption

Ids == 0..(NumIntrIds - 1)
NoEvent == -1
GivesUp == gaveUp' = TRUE /\ trouble' = TRUE
-----------------------------------------------------------------------------
(* The thread of a vector, intr_wait_thread                                *)

\* poll returns because the event has been signalled, maybe before the call.
PollReturns(i) ==
    /\ thread[i] = "polling"
    /\ event[i] > 0
    /\ thread' = [thread EXCEPT ![i] = "reading"]
    /\ UNCHANGED <<mainVars, event, faults, startWire, afu, interrupts, responses>>

\* The timeout, or an error.
PollGivesUp(i) ==
    /\ thread[i] = "polling"
    /\ event[i] = 0
    /\ thread' = [thread EXCEPT ![i] = "failed"]
    /\ GivesUp
    /\ UNCHANGED <<mainVars, event, startWire, afu, interrupts, responses>>

\* read fails.
ReadFails(i) ==
    /\ thread[i] = "reading"
    /\ thread' = [thread EXCEPT ![i] = "failed"]
    /\ GivesUp
    /\ UNCHANGED <<mainVars, event, startWire, afu, interrupts, responses>>

\* It returns the count of signals and clears it.
ReadCount(i) ==
    /\ thread[i] = "reading"
    /\ thread' = [thread EXCEPT ![i] = IF event[i] = 1 THEN "passed" ELSE "failed"]
    /\ event' = [event EXCEPT ![i] = 0]
    /\ UNCHANGED <<mainVars, faults, startWire, afu, interrupts, responses>>

intr_wait_thread(i) == PollReturns(i) \/ PollGivesUp(i) \/ ReadFails(i) \/ ReadCount(i)
-----------------------------------------------------------------------------
(* The main thread, testHostChanIntr                                       *)

\* An assertion fails and the process ends, with its threads and events.
Aborts ==
    /\ mainPc \in {"create", "join"}
    /\ mainPc' = "aborted"
    /\ GivesUp
    /\ thread' = [i \in Ids |-> "none"]
    /\ event' = [i \in Ids |-> NoEvent]
    /\ UNCHANGED <<id, errorCount, polls, test, startWire, afu, interrupts, responses>>

\* An event per vector and a thread that waits for it, before any interrupt.
CreateThread ==
    /\ mainPc = "create"
    /\ event' = [event EXCEPT ![id] = 0]
    /\ thread' = [thread EXCEPT ![id] = "polling"]
    /\ IF id = NumIntrIds - 1 THEN mainPc' = "trigger" /\ id' = 0
       ELSE id' = id + 1 /\ UNCHANGED mainPc
    /\ UNCHANGED <<errorCount, polls, test, faults, startWire, afu, interrupts, responses>>

Trigger ==
    /\ mainPc = "trigger"
    /\ startWire' = TRUE
    /\ mainPc' = "join"
    /\ UNCHANGED <<id, errorCount, polls, test, thread, event, faults, afu, interrupts, responses>>

Join ==
    /\ mainPc = "join"
    /\ thread[id] \in {"passed", "failed"}
    /\ errorCount' = errorCount + (IF thread[id] = "failed" THEN 1 ELSE 0)
    /\ event' = [event EXCEPT ![id] = NoEvent]
    /\ IF id = NumIntrIds - 1 THEN mainPc' = "responses" /\ id' = 0
       ELSE id' = id + 1 /\ UNCHANGED mainPc
    /\ UNCHANGED <<polls, test, thread, faults, startWire, afu, interrupts, responses>>

\* The count and the mask are read together, after the write has arrived; the
\* last ones read are judged.
CheckResponses ==
    /\ mainPc = "responses"
    /\ ~ startWire
    /\ IF numResponses = NumIntrIds \/ polls + 1 = MaxPolls
         THEN /\ mainPc' = "verdict"
              /\ errorCount' = errorCount + (IF numResponses # NumIntrIds THEN 1 ELSE 0)
                                          + (IF responseMask # Ids THEN 1 ELSE 0)
              /\ IF numResponses # NumIntrIds THEN GivesUp ELSE UNCHANGED faults
              /\ UNCHANGED polls
         ELSE polls' = polls + 1 /\ UNCHANGED <<mainPc, errorCount, faults>>
    /\ UNCHANGED <<id, test, thread, event, startWire, afu, interrupts, responses>>

\* The test is run again, by a new process.
NextTest ==
    /\ mainPc \in {"verdict", "aborted"}
    /\ test < MaxTests
    /\ test' = test + 1
    /\ mainPc' = "create" /\ id' = 0 /\ errorCount' = 0 /\ polls' = 0
    /\ thread' = [i \in Ids |-> "none"]
    /\ gaveUp' = FALSE
    /\ UNCHANGED <<event, trouble, startWire, afu, interrupts, responses>>

testHostChanIntr ==
    Aborts \/ CreateThread \/ Trigger \/ Join \/ CheckResponses \/ NextTest
-----------------------------------------------------------------------------
(* The AFU and the way of its interrupts                                   *)

\* Mutant of StartCmd: the responses are not counted from zero again.
StartCmdKeepsCount ==
    /\ startWire /\ startWire' = FALSE
    /\ active' = TRUE
    /\ curIntrId' = NumIntrIds - 1
    /\ UNCHANGED <<mainVars, thread, event, faults, numResponses, responseMask,
                   interrupts, responses>>

\* The write to global CSR 0, whose value is the last vector.
StartCmd ==
    /\ startWire /\ startWire' = FALSE
    /\ active' = TRUE
    /\ curIntrId' = NumIntrIds - 1
    /\ numResponses' = 0
    /\ responseMask' = {}
    /\ UNCHANGED <<mainVars, thread, event, faults, interrupts, responses>>

\* A request per cycle, from the last vector down to 0.
SendInterrupt ==
    /\ active
    /\ interrupts' = [interrupts EXCEPT ![curIntrId] = @ + 1]
    /\ responses' = [responses EXCEPT ![curIntrId] = @ + 1]
    /\ active' = (curIntrId # 0)
    /\ curIntrId' = (curIntrId - 1) % IdValues
    /\ UNCHANGED <<mainVars, thread, event, faults, startWire, numResponses, responseMask>>

\* The driver signals the event of the vector, if one is registered.
InterruptArrives(i) ==
    /\ interrupts[i] > 0
    /\ interrupts' = [interrupts EXCEPT ![i] = @ - 1]
    /\ event' = [event EXCEPT ![i] = IF @ = NoEvent THEN @ ELSE @ + 1]
    /\ UNCHANGED <<mainVars, thread, faults, startWire, afu, responses>>

\* The count has one bit more than an id.
ResponseArrives(i) ==
    /\ responses[i] > 0
    /\ responses' = [responses EXCEPT ![i] = @ - 1]
    /\ numResponses' = (numResponses + 1) % (2 * IdValues)
    /\ responseMask' = responseMask \cup {i}
    /\ UNCHANGED <<mainVars, thread, event, faults, startWire, active, curIntrId, interrupts>>

IntrHardware ==
    \/ StartCmd \/ SendInterrupt
    \/ \E i \in Ids : InterruptArrives(i) \/ ResponseArrives(i)

IntrInit ==
    /\ mainPc = "create" /\ id = 0 /\ errorCount = 0 /\ polls = 0 /\ test = 1
    /\ thread = [i \in Ids |-> "none"]
    /\ event = [i \in Ids |-> NoEvent]
    /\ gaveUp = FALSE /\ trouble = FALSE
    /\ startWire = FALSE
    /\ active = FALSE /\ curIntrId = 0 /\ numResponses = 0 /\ responseMask = {}
    /\ interrupts = [i \in Ids |-> 0] /\ responses = [i \in Ids |-> 0]

\* After the last test nothing is left to do; anywhere else, to have no step
\* is a deadlock.
IntrFinished ==
    /\ mainPc \in {"verdict", "aborted"} /\ test = MaxTests
    /\ UNCHANGED intrVars

IntrNext == testHostChanIntr \/ IntrFinished \/ (\E i \in Ids : intr_wait_thread(i)) \/ IntrHardware

IntrSpec == IntrInit /\ [][IntrNext]_intrVars
-----------------------------------------------------------------------------
(* Properties                                                              *)
Idle == ~ startWire /\ ~ active /\ \A i \in Ids : interrupts[i] = 0 /\ responses[i] = 0

\* The verdict is true.  Whatever gave up, or failed, is counted as an error;
\* and as long as nothing ever took too long, every test passes, in whatever
\* order threads, interrupts and responses came, and leaves the AFU idle, so
\* that the next test is not disturbed by this one.
VerdictIsTrue ==
    mainPc = "verdict" => /\ gaveUp => errorCount > 0
                          /\ ~ trouble => errorCount = 0 /\ Idle
=============================================================================
