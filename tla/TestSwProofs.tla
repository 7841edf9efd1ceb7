----------------------------- MODULE TestSwProofs -----------------------------
(***************************************************************************)
(* Proofs about the software of the tests, plat_if_tests.  For hash32:     *)
(* what a test of a read engine may conclude from equal hashes.  The hash  *)
(* of a stream of beats is hash32 folded over it, so the first two facts   *)
(* on one step carry a difference through the rest of the stream, and the  *)
(* third says that an exchange of neighbours makes one.  For the CSR       *)
(* space: what software names and what hardware decodes agree, for every   *)
(* engine and register there may be, and where they do not.                *)
(*                                                                         *)
(* For the interrupt test: its verdict is true.  While nothing gives up,   *)
(* the interrupt of a vector, its response and the signal of its event are *)
(* each in one place (SignalledOnce, AnsweredOnce), so that a thread reads *)
(* one signal and the AFU is idle when all responses are counted.          *)
(*                                                                         *)
(* For the engine runs: a program finds the results of the test it has     *)
(* run, unless it was misled by a flag that is low too early.  The order   *)
(* of its commands does not depend on the flags (OrderInv).  What it may   *)
(* conclude from a mask that it reads does, and on what is on its way      *)
(* through the registers of each accelerator, which the phases say (Phase, *)
(* of Sound), for any number of accelerators, engines and registers.       *)
(***************************************************************************)
EXTENDS Hash32, IntrTest, EngineRuns, FiniteSetTheorems, SequenceTheorems, TLAPS

-----------------------------------------------------------------------------
(* The hash                                                                *)

\* Types: what is rotated is still a word.
LEMMA RotatedType ==
    ASSUME NEW h \in Word
    PROVE  Rotated(h) \in Word
<1> SUFFICES ASSUME NEW i \in Bits
             PROVE  (IF i = 31 THEN h[0]
                     ELSE IF i \in Taps THEN Xor(h[i + 1], h[0]) ELSE h[i + 1]) \in {0, 1}
    BY DEF Rotated, Word
<1>1. h[0] \in {0, 1} /\ (i # 31 => h[i + 1] \in {0, 1})
    BY DEF Word, Bits
<1>. QED BY <1>1 DEF Xor

\* Types: the hash of a word is a word.
LEMMA HashType ==
    ASSUME NEW h \in Word, NEW x \in Word
    PROVE  hash32(h, x) \in Word
<1>1. Rotated(h) \in Word
    BY RotatedType
<1>. QED BY <1>1 DEF hash32, Word, Xor

\* A wrong beat shows in the hash (hash32.c:22-53).
THEOREM WrongBeatShows ==
    ASSUME NEW h \in Word, NEW x \in Word, NEW y \in Word, x # y
    PROVE  hash32(h, x) # hash32(h, y)
<1>1. Rotated(h) \in Word
    BY RotatedType
<1>2. PICK i \in Bits : x[i] # y[i]
    BY DEF Word
<1>3. x[i] \in {0, 1} /\ y[i] \in {0, 1} /\ Rotated(h)[i] \in {0, 1}
    BY <1>1 DEF Word
<1>4. Xor(x[i], Rotated(h)[i]) # Xor(y[i], Rotated(h)[i])
    BY <1>2, <1>3 DEF Xor
<1>5. hash32(h, x)[i] # hash32(h, y)[i]
    BY <1>4 DEF hash32
<1>. QED BY <1>5

\* Different hashes stay different under equal beats: what went wrong early in
\* a stream is not hidden by what follows (hash32.c:22-53).
THEOREM DifferenceStays ==
    ASSUME NEW g \in Word, NEW h \in Word, NEW x \in Word,
           hash32(g, x) = hash32(h, x)
    PROVE  g = h
<1>1. Rotated(g) \in Word /\ Rotated(h) \in Word
    BY RotatedType
<1>2. ASSUME NEW i \in Bits PROVE Rotated(g)[i] = Rotated(h)[i]
  <2>1. hash32(g, x)[i] = hash32(h, x)[i]
      OBVIOUS
  <2>2. Xor(x[i], Rotated(g)[i]) = Xor(x[i], Rotated(h)[i])
      BY <2>1 DEF hash32
  <2>3. x[i] \in {0, 1} /\ Rotated(g)[i] \in {0, 1} /\ Rotated(h)[i] \in {0, 1}
      BY <1>1 DEF Word
  <2>. QED BY <2>2, <2>3 DEF Xor
<1>3. g[0] = h[0]
    BY <1>2 DEF Rotated, Bits
<1>4. ASSUME NEW i \in 0..30 PROVE g[i + 1] = h[i + 1]
  <2>1. i \in Bits /\ i # 31 /\ i + 1 \in Bits
      BY DEF Bits
  <2>2. Rotated(g)[i] = Rotated(h)[i]
      BY <1>2, <2>1
  <2>3. g[0] \in {0, 1} /\ g[i + 1] \in {0, 1} /\ h[i + 1] \in {0, 1}
      BY <2>1 DEF Word, Bits
  <2>4. CASE i \in Taps
      BY <1>3, <2>1, <2>2, <2>3, <2>4 DEF Rotated, Xor
  <2>5. CASE i \notin Taps
      BY <2>1, <2>2, <2>5 DEF Rotated
  <2>. QED BY <2>4, <2>5
<1>5. ASSUME NEW i \in Bits PROVE g[i] = h[i]
  <2>1. CASE i = 0
      BY <1>3, <2>1
  <2>2. CASE i # 0
    <3>1. i - 1 \in 0..30 /\ (i - 1) + 1 = i
        BY <2>2 DEF Bits
    <3>. QED BY <3>1, <1>4
  <2>. QED BY <2>1, <2>2
<1>. QED BY <1>5 DEF Word

\* Sum of words without carry, to reason about the hash as a linear map.
Sum2(x, y) == [i \in Bits |-> Xor(x[i], y[i])]

\* The rotation of a word is the word itself only for zero: bits 7 to 31 and
\* 0 are equal, and the taps at 6, 4, 2, 1 and 0 contradict each other if
\* they are set.
LEMMA OnlyZeroIsFixed ==
    ASSUME NEW d \in Word, Rotated(d) = d
    PROVE  \A i \in Bits : d[i] = 0
<1>1. ASSUME NEW i \in 0..30 PROVE
        /\ i \notin Taps => d[i] = d[i + 1]
        /\ i \in Taps => d[i] = Xor(d[i + 1], d[0])
    BY <1>1 DEF Rotated, Bits
<1>2. d[31] = d[0]
    BY DEF Rotated, Bits
<1>3. \A i \in Bits : d[i] \in {0, 1}
    BY DEF Word
<1>4. /\ d[30] = d[31] /\ d[29] = d[30] /\ d[28] = d[29] /\ d[27] = d[28] /\ d[26] = d[27]
      /\ d[25] = d[26] /\ d[24] = d[25] /\ d[23] = d[24] /\ d[22] = d[23] /\ d[21] = d[22]
      /\ d[20] = d[21] /\ d[19] = d[20] /\ d[18] = d[19] /\ d[17] = d[18] /\ d[16] = d[17]
      /\ d[15] = d[16] /\ d[14] = d[15] /\ d[13] = d[14] /\ d[12] = d[13] /\ d[11] = d[12]
      /\ d[10] = d[11] /\ d[9] = d[10] /\ d[8] = d[9] /\ d[7] = d[8]
    BY <1>1 DEF Taps
<1>5. /\ d[6] = Xor(d[7], d[0]) /\ d[5] = d[6] /\ d[4] = Xor(d[5], d[0]) /\ d[3] = d[4]
      /\ d[2] = Xor(d[3], d[0]) /\ d[1] = Xor(d[2], d[0]) /\ d[0] = Xor(d[1], d[0])
    BY <1>1 DEF Taps
<1>6. d[0] = 0
  <2>1. d[0] \in {0, 1}
      BY <1>3 DEF Bits
  <2>. QED BY <2>1, <1>2, <1>4, <1>5 DEF Xor
<1>7. d[1] = 0 /\ d[2] = 0 /\ d[3] = 0 /\ d[4] = 0 /\ d[5] = 0 /\ d[6] = 0 /\ d[7] = 0
    BY <1>2, <1>4, <1>5, <1>6 DEF Xor
<1>8. SUFFICES ASSUME NEW i \in Bits PROVE d[i] = 0
    OBVIOUS
<1>9. i \in 0..7 \/ i \in {8, 9, 10, 11, 12, 13, 14, 15, 16, 17, 18, 19, 20, 21, 22, 23, 24,
                          25, 26, 27, 28, 29, 30, 31}
    BY DEF Bits
<1>. QED BY <1>2, <1>4, <1>6, <1>7, <1>9

\* Two neighbouring beats that arrive in the wrong order show in the hash,
\* unless they are equal: with DifferenceStays, the comparison of hashes finds
\* a response that overtook the one before it (ordered_read_responses).
THEOREM ExchangeShows ==
    ASSUME NEW h \in Word, NEW x \in Word, NEW y \in Word,
           hash32(hash32(h, x), y) = hash32(hash32(h, y), x)
    PROVE  x = y
<1>. DEFINE d == Sum2(x, y)
<1>. DEFINE r == Rotated(h)
<1>1. r \in Word
    BY RotatedType
<1>2. d \in Word
    BY DEF Sum2, Word, Xor
<1>3. ASSUME NEW i \in Bits PROVE
        Xor(y[i], Rotated(hash32(h, x))[i]) = Xor(x[i], Rotated(hash32(h, y))[i])
  <2>1. hash32(hash32(h, x), y)[i] = hash32(hash32(h, y), x)[i]
      OBVIOUS
  <2>. QED BY <2>1 DEF hash32
<1>4. \A j \in Bits : hash32(h, x)[j] = Xor(x[j], r[j]) /\ hash32(h, y)[j] = Xor(y[j], r[j])
    BY DEF hash32
<1>5. \A j \in Bits : x[j] \in {0, 1} /\ y[j] \in {0, 1} /\ r[j] \in {0, 1}
    BY <1>1 DEF Word
<1>6. \A j \in Bits : d[j] = Xor(x[j], y[j])
    BY DEF Sum2
<1>. HIDE DEF d, r
<1>7. ASSUME NEW i \in Bits PROVE Rotated(d)[i] = d[i]
  <2>1. 0 \in Bits /\ (i # 31 => i + 1 \in Bits)
      BY DEF Bits
  <2>2. CASE i = 31
    <3>1. Xor(y[i], Xor(x[0], r[0])) = Xor(x[i], Xor(y[0], r[0]))
        BY <1>3, <1>4, <2>1, <2>2 DEF Rotated
    <3>2. Xor(x[0], y[0]) = Xor(x[i], y[i])
        BY <3>1, <1>5, <2>1 DEF Xor
    <3>. QED BY <3>2, <1>6, <2>1, <2>2 DEF Rotated
  <2>3. CASE i # 31 /\ i \notin Taps
    <3>1. Xor(y[i], Xor(x[i + 1], r[i + 1])) = Xor(x[i], Xor(y[i + 1], r[i + 1]))
        BY <1>3, <1>4, <2>1, <2>3 DEF Rotated
    <3>2. Xor(x[i + 1], y[i + 1]) = Xor(x[i], y[i])
        BY <3>1, <1>5, <2>1, <2>3 DEF Xor
    <3>. QED BY <3>2, <1>6, <2>1, <2>3 DEF Rotated
  <2>4. CASE i # 31 /\ i \in Taps
    <3>1. Xor(y[i], Xor(Xor(x[i + 1], r[i + 1]), Xor(x[0], r[0])))
            = Xor(x[i], Xor(Xor(y[i + 1], r[i + 1]), Xor(y[0], r[0])))
        BY <1>3, <1>4, <2>1, <2>4 DEF Rotated
    <3>2. Xor(Xor(x[i + 1], y[i + 1]), Xor(x[0], y[0])) = Xor(x[i], y[i])
        BY <3>1, <1>5, <2>1, <2>4 DEF Xor
    <3>. QED BY <3>2, <1>6, <2>1, <2>4 DEF Rotated
  <2>. QED BY <2>2, <2>3, <2>4
<1>8. Rotated(d) = d
  <2>1. Rotated(d) \in Word
      BY RotatedType, <1>2
  <2>. QED BY <2>1, <1>2, <1>7 DEF Word
<1>9. \A i \in Bits : d[i] = 0
    BY <1>2, <1>8, OnlyZeroIsFixed
<1>10. ASSUME NEW i \in Bits PROVE x[i] = y[i]
  <2>1. Xor(x[i], y[i]) = 0
      BY <1>6, <1>9
  <2>. QED BY <2>1 DEF Xor
<1>. QED BY <1>10 DEF Word

-----------------------------------------------------------------------------
(* The CSR space                                                           *)

\* The index computed for an engine's register, without the bit operations.
LEMMA PlainIndex ==
    ASSUME NEW e \in 0..(MAX_NUM_ENGINES - 1), NEW i \in CsrIdx
    PROVE  EngIndex(e, i) = 1024 + 16 * e + i
<1>1. e % 64 = e /\ i \div 16 = 0 /\ i % 16 = i
    BY DEF MAX_NUM_ENGINES, CsrIdx
<1>. QED BY <1>1 DEF EngIndex, OrBit0, CSR_ENG_BASE, MAX_NUM_ENGINES, CsrIdx

\* csrEngRead and csrEngWrite reach the register of the engine that they name
\* (csr_mgr.c:103-118), as csr_mgr.sv decodes it.
THEOREM EngineCsrReached ==
    ASSUME NEW e \in 0..(MAX_NUM_ENGINES - 1), NEW i \in CsrIdx
    PROVE  /\ EngAccepted(e, i)
           /\ Space(EngIndex(e, i)) = "engine"
           /\ EngineOf(EngIndex(e, i)) = e
           /\ RegisterOf(EngIndex(e, i)) = i
<1>. DEFINE x == 1024 + 16 * e + i
<1>1. EngIndex(e, i) = x
    BY PlainIndex
<1>2. e \in 0..63 /\ i \in 0..15
    BY DEF MAX_NUM_ENGINES, CsrIdx
<1>3. x \div 16 = 64 + e /\ x % 16 = i /\ x \in 1024..2047
    BY <1>2
<1>4. x % 4096 = x /\ x \div 1024 = 1 /\ (64 + e) % 64 = e
    BY <1>2, <1>3
<1>. HIDE DEF x
<1>5. Space(x) = "engine"
    BY <1>2, <1>3, <1>4 DEF Space
<1>6. EngineOf(x) = e /\ RegisterOf(x) = i
    BY <1>3, <1>4 DEF EngineOf, RegisterOf
<1>7. EngAccepted(e, i)
    BY <1>2 DEF EngAccepted
<1>. QED BY <1>1, <1>5, <1>6, <1>7

\* csrEngGlobRead and csrEngGlobWrite reach the global registers
\* (csr_mgr.c:87-97).
THEOREM GlobalCsrReached ==
    ASSUME NEW i \in CsrIdx
    PROVE  /\ GlobAccepted(i)
           /\ Space(GlobIndex(i)) = "global"
           /\ RegisterOf(GlobIndex(i)) = i
<1>1. i \in 0..15
    BY DEF CsrIdx
<1>. DEFINE x == 32 + i
<1>2. x % 4096 = x /\ x \div 16 = 2 /\ x % 16 = i
    BY <1>1
<1>. HIDE DEF x
<1>3. Space(x) = "global" /\ RegisterOf(x) = i
    BY <1>1, <1>2 DEF Space, RegisterOf
<1>4. GlobIndex(i) = x
    BY DEF GlobIndex, CSR_ENG_GLOB_BASE, x
<1>. QED BY <1>1, <1>3, <1>4 DEF GlobAccepted

\* The guard idx > 16 lets 16 through, which is register 0 of an engine, of
\* the next one if the engine's number is even (csr_mgr.c:105-107).
THEOREM IndexSixteenIsRegisterZero ==
    ASSUME NEW e \in 0..(MAX_NUM_ENGINES - 1)
    PROVE  /\ EngAccepted(e, 16)
           /\ EngIndex(e, 16) = EngIndex(IF e % 2 = 0 THEN e + 1 ELSE e, 0)
<1>1. e \in 0..63 /\ e % 64 = e
    BY DEF MAX_NUM_ENGINES
<1>2. EngIndex(e, 16) = 1024 + 16 * (IF e % 2 = 0 THEN e + 1 ELSE e)
    BY <1>1 DEF EngIndex, OrBit0, CSR_ENG_BASE
<1>3. (IF e % 2 = 0 THEN e + 1 ELSE e) \in 0..63
    BY <1>1
<1>4. EngIndex(IF e % 2 = 0 THEN e + 1 ELSE e, 0)
        = 1024 + 16 * (IF e % 2 = 0 THEN e + 1 ELSE e) + 0
    BY <1>3, PlainIndex DEF MAX_NUM_ENGINES, CsrIdx
<1>. QED BY <1>1, <1>2, <1>4 DEF EngAccepted

-----------------------------------------------------------------------------
(* The interrupt test: the invariant                                       *)

MainLabels == {"create", "trigger", "join", "responses", "verdict", "aborted"}
ThreadStates == {"none", "polling", "reading", "passed", "failed"}

\* What the variables hold.  Counts of messages have no bound here.
Types ==
    /\ mainPc \in MainLabels /\ id \in Ids /\ errorCount \in Nat
    /\ thread \in [Ids -> ThreadStates] /\ event \in [Ids -> Nat \cup {NoEvent}]
    /\ gaveUp \in BOOLEAN /\ trouble \in BOOLEAN /\ startWire \in BOOLEAN /\ active \in BOOLEAN
    /\ curIntrId \in 0..IdValues - 1 /\ numResponses \in Nat /\ responseMask \subseteq Ids
    /\ interrupts \in [Ids -> Nat] /\ responses \in [Ids -> Nat]

\* The main thread has created, or has joined, the thread of vector i.
Created(i) == mainPc = "create" => i < id
Joined(i) == mainPc \in {"responses", "verdict"} \/ (mainPc = "join" /\ i < id)
Triggered == mainPc \in {"join", "responses", "verdict"}

\* The threads exist that have been created, and those joined have ended.
Threads ==
    /\ mainPc = "trigger" => id = 0
    /\ mainPc # "aborted" =>
         \A i \in Ids : /\ Created(i) <=> thread[i] # "none"
                        /\ Joined(i) => thread[i] \in {"passed", "failed"}

\* What gave up has been counted, or its thread is still to be joined.
FailuresAreSeen ==
    /\ gaveUp => trouble
    /\ gaveUp /\ mainPc # "aborted" =>
         errorCount > 0 \/ \E i \in Ids : thread[i] = "failed" /\ ~ Joined(i)

\* The interrupt of vector i is still to be sent.
Due(i) == startWire \/ (active /\ i <= curIntrId)
One(b) == IF b THEN 1 ELSE 0

\* A thread that has not been joined has its event, which is signalled at most
\* once.
Event(i) ==
    /\ thread[i] = "none" => event[i] = NoEvent
    /\ thread[i] = "polling" => event[i] \in {0, 1}
    /\ thread[i] = "reading" => event[i] = 1
    /\ thread[i] = "passed" => event[i] = (IF Joined(i) THEN NoEvent ELSE 0)

\* The interrupt of each vector is in one place, and so is the response to it.
SignalledOnce(i) ==
    One(Due(i)) + interrupts[i] + One(event[i] = 1 \/ thread[i] = "passed") = 1
AnsweredOnce(i) ==
    One(Due(i)) + responses[i] + One(~ startWire /\ i \in responseMask) = 1

\* While nothing has given up: before the test is triggered nothing is under way;
\* after it each interrupt and each response is in one place, and the count of
\* responses is that of the mask.
Undisturbed ==
    ~ trouble =>
      /\ mainPc # "aborted" /\ errorCount = 0
      /\ \A i \in Ids : thread[i] # "failed" /\ Event(i)
      /\ active => ~ startWire /\ curIntrId \in Ids
      /\ IF Triggered
         THEN /\ \A i \in Ids : SignalledOnce(i) /\ AnsweredOnce(i)
              /\ ~ startWire => numResponses = Cardinality(responseMask)
              /\ mainPc = "verdict" => Idle
         ELSE /\ Idle
              /\ \A i \in Ids : thread[i] \in {"none", "polling"} /\ event[i] # 1

IntrInv == Types /\ Threads /\ FailuresAreSeen /\ Undisturbed

\* Vectors are numbered from 0.
LEMMA Vectors ==
    /\ 0 \in Ids /\ NumIntrIds - 1 \in Ids /\ NumIntrIds \in Nat /\ IdValues \in Nat \ {0}
    /\ Ids \subseteq 0..IdValues - 1
    /\ \A i \in Ids : i \in Nat /\ (i # NumIntrIds - 1 => i + 1 \in Ids)
                      /\ i <= NumIntrIds - 1 /\ (i # 0 => i - 1 \in Ids)
                      /\ i # NoEvent
    /\ IsFiniteSet(Ids) /\ Cardinality(Ids) = NumIntrIds
<1>1. NumIntrIds \in Nat \ {0} /\ IdValues \in Nat /\ NumIntrIds <= IdValues
  BY IntrAssumption DEF IntrAssumption
<1>2. IsFiniteSet(Ids) /\ Cardinality(Ids) = NumIntrIds
  BY <1>1, FS_Interval DEF Ids
<1> QED
  BY <1>1, <1>2 DEF Ids, NoEvent

\* A remainder is in range, and one that is in range does not change.
LEMMA Remainder ==
    ASSUME NEW m \in Nat \ {0}, NEW n \in Int
    PROVE  n % m \in 0..m - 1 /\ (n \in 0..m - 1 => n % m = n)
  OBVIOUS

\* Every action keeps the types: the two counters are remainders.
LEMMA TypesStep ==
    ASSUME IntrInv, IntrNext
    PROVE  Types'
<1> USE Vectors DEF Types, MainLabels, ThreadStates
<1>1. Types
  BY DEF IntrInv
<1>2. CASE testHostChanIntr
  <2>1. CASE Aborts
    BY <1>1, <2>1 DEF Aborts, GivesUp, afu
  <2>2. CASE CreateThread
    BY <1>1, <2>2 DEF CreateThread, faults, afu
  <2>3. CASE Trigger
    BY <1>1, <2>3 DEF Trigger, faults, afu
  <2>4. CASE Join
    BY <1>1, <2>4 DEF Join, faults, afu
  <2>5. CASE CheckResponses
    <3>1. errorCount' \in Nat /\ gaveUp' \in BOOLEAN /\ trouble' \in BOOLEAN
      <4> DEFINE few == IF numResponses # NumIntrIds THEN 1 ELSE 0
                 missing == IF responseMask # Ids THEN 1 ELSE 0
      <4>1. errorCount' = errorCount + few + missing \/ errorCount' = errorCount
        BY <2>5 DEF CheckResponses
      <4>3. few \in 0..1 /\ missing \in 0..1
        OBVIOUS
      <4> HIDE DEF few, missing
      <4>2. gaveUp' \in {gaveUp, TRUE} /\ trouble' \in {trouble, TRUE}
        BY <2>5 DEF CheckResponses, GivesUp, faults
      <4>4. errorCount' \in Nat
        BY <1>1, <4>1, <4>3
      <4> QED
        BY <1>1, <4>2, <4>4
    <3>2. mainPc' \in MainLabels
      BY <1>1, <2>5 DEF CheckResponses
    <3> QED
      BY <1>1, <2>5, <3>1, <3>2 DEF CheckResponses, afu
  <2>6. CASE NextTest
    BY <1>1, <2>6 DEF NextTest, afu
  <2> QED
    BY <1>2, <2>1, <2>2, <2>3, <2>4, <2>5, <2>6 DEF testHostChanIntr
<1>3. CASE IntrFinished
  BY <1>1, <1>3 DEF IntrFinished, intrVars, mainVars, faults, afu
<1>4. ASSUME NEW i \in Ids, intr_wait_thread(i) PROVE Types'
  <2>1. CASE PollReturns(i)
    BY <1>1, <2>1 DEF PollReturns, mainVars, faults, afu
  <2>2. CASE PollGivesUp(i)
    BY <1>1, <2>2 DEF PollGivesUp, GivesUp, mainVars, afu
  <2>3. CASE ReadFails(i)
    BY <1>1, <2>3 DEF ReadFails, GivesUp, mainVars, afu
  <2>4. CASE ReadCount(i)
    BY <1>1, <2>4 DEF ReadCount, mainVars, faults, afu
  <2> QED
    BY <1>4, <2>1, <2>2, <2>3, <2>4 DEF intr_wait_thread
<1>5. CASE IntrHardware
  <2>1. CASE StartCmd
    BY <1>1, <2>1 DEF StartCmd, mainVars, faults
  <2>2. CASE SendInterrupt
    <3>1. (curIntrId - 1) % IdValues \in 0..IdValues - 1
      BY <1>1, Remainder
    <3>2. curIntrId' \in 0..IdValues - 1 /\ active' \in BOOLEAN
      BY <2>2, <3>1 DEF SendInterrupt
    <3>3. interrupts' \in [Ids -> Nat] /\ responses' \in [Ids -> Nat]
      <4>1. /\ interrupts' = [i \in Ids |-> IF i = curIntrId THEN interrupts[i] + 1
                                             ELSE interrupts[i]]
            /\ responses' = [i \in Ids |-> IF i = curIntrId THEN responses[i] + 1
                                            ELSE responses[i]]
        BY <1>1, <2>2 DEF SendInterrupt
      <4> QED
        BY <1>1, <4>1
    <3> QED
      BY <1>1, <2>2, <3>2, <3>3 DEF SendInterrupt, mainVars, faults
  <2>3. ASSUME NEW i \in Ids, InterruptArrives(i) PROVE Types'
    BY <1>1, <2>3 DEF InterruptArrives, mainVars, faults, afu
  <2>4. ASSUME NEW i \in Ids, ResponseArrives(i) PROVE Types'
    <3>1. (numResponses + 1) % (2 * IdValues) \in Nat
      BY <1>1, Remainder
    <3> QED
      BY <1>1, <2>4, <3>1 DEF ResponseArrives, mainVars, faults
  <2> QED
    BY <1>5, <2>1, <2>2, <2>3, <2>4 DEF IntrHardware
<1> QED
  BY <1>2, <1>3, <1>4, <1>5 DEF IntrNext

\* Threads are created and joined in the order of their vectors; the hardware
\* changes nothing of a thread but its event.
LEMMA ThreadsStep ==
    ASSUME IntrInv, IntrNext
    PROVE  Threads'
<1>1. Types /\ Threads
  BY DEF IntrInv
<1> USE DEF Threads, Created, Joined
<1>2. CASE testHostChanIntr
  <2>1. CASE Aborts
    BY <2>1 DEF Aborts
  <2>2. CASE CreateThread
    <3>1. mainPc = "create" /\ id \in Ids
      BY <1>1, <2>2 DEF CreateThread, Types
    <3>2. ASSUME NEW i \in Ids PROVE (Created(i) <=> thread[i] # "none")' /\ ~ Joined(i)'
      <4>1. thread'[i] = IF i = id THEN "polling" ELSE thread[i]
        BY <1>1, <2>2 DEF CreateThread, Types
      <4>2. i < id <=> thread[i] # "none"
        BY <1>1, <3>1 DEF MainLabels
      <4>3. IF id = NumIntrIds - 1 THEN mainPc' = "trigger" /\ id' = 0
            ELSE id' = id + 1 /\ mainPc' = "create"
        BY <2>2, <3>1 DEF CreateThread
      <4> QED
        BY <3>1, <4>1, <4>2, <4>3, Vectors DEF Ids
    <3>3. mainPc' = "trigger" => id' = 0
      BY <2>2, <3>1 DEF CreateThread
    <3> QED
      BY <3>2, <3>3
  <2>3. CASE Trigger
    BY <1>1, <2>3, Vectors DEF Trigger, Ids
  <2>4. CASE Join
    <3>1. mainPc = "join" /\ id \in Ids /\ thread[id] \in {"passed", "failed"} /\ thread' = thread
      BY <1>1, <2>4 DEF Join, Types
    <3>2. ASSUME NEW i \in Ids
          PROVE  Created(i)' /\ thread'[i] # "none"
                 /\ (Joined(i)' => thread'[i] \in {"passed", "failed"})
      <4>1. thread[i] # "none" /\ (i < id => thread[i] \in {"passed", "failed"})
        BY <1>1, <3>1
      <4>2. IF id = NumIntrIds - 1 THEN mainPc' = "responses" /\ id' = 0
            ELSE id' = id + 1 /\ mainPc' = "join"
        BY <2>4, <3>1 DEF Join
      <4> QED
        BY <3>1, <4>1, <4>2, Vectors DEF Ids
    <3>3. mainPc' # "trigger"
      BY <2>4, <3>1 DEF Join
    <3> QED
      BY <3>2, <3>3
  <2>5. CASE CheckResponses
    BY <1>1, <2>5 DEF CheckResponses
  <2>6. CASE NextTest
    BY <2>6, Vectors DEF NextTest, Ids
  <2> QED
    BY <1>2, <2>1, <2>2, <2>3, <2>4, <2>5, <2>6 DEF testHostChanIntr
<1>3. CASE IntrFinished
  BY <1>1, <1>3 DEF IntrFinished, intrVars, mainVars
<1>4. ASSUME NEW j \in Ids, intr_wait_thread(j) PROVE Threads'
  <2>1. /\ thread[j] \in {"polling", "reading"} /\ mainPc' = mainPc /\ id' = id
        /\ \E s \in ThreadStates \ {"none", "polling"} : thread' = [thread EXCEPT ![j] = s]
    BY <1>4 DEF intr_wait_thread, PollReturns, PollGivesUp, ReadFails, ReadCount, mainVars,
              ThreadStates
  <2>2. ASSUME NEW i \in Ids, mainPc # "aborted"
        PROVE  /\ Created(i) <=> thread'[i] # "none"
               /\ Joined(i) => thread'[i] \in {"passed", "failed"}
    <3>1. /\ Created(i) <=> thread[i] # "none"
          /\ Joined(i) => thread[i] \in {"passed", "failed"}
      BY <1>1, <2>2
    <3>2. thread'[i] = thread[i] \/ (i = j /\ thread'[i] \in ThreadStates \ {"none"})
      BY <1>1, <2>1 DEF Types
    <3> QED
      BY <2>1, <3>1, <3>2
  <2> QED
    BY <1>1, <2>1, <2>2
<1>5. CASE IntrHardware
  BY <1>1, <1>5 DEF IntrHardware, StartCmd, SendInterrupt, InterruptArrives, ResponseArrives,
                    mainVars
<1> QED
  BY <1>2, <1>3, <1>4, <1>5 DEF IntrNext

\* A thread that gives up is joined, and counted, before there is a verdict.
LEMMA FailuresStep ==
    ASSUME IntrInv, IntrNext
    PROVE  FailuresAreSeen'
<1>1. Types /\ Threads /\ FailuresAreSeen
  BY DEF IntrInv
<1>2. CASE testHostChanIntr
  <2>1. CASE Aborts
    BY <2>1 DEF Aborts, GivesUp, FailuresAreSeen
  <2>2. CASE CreateThread
    <3>1. mainPc = "create" /\ mainPc' \in {"create", "trigger"} /\ id \in Ids
      BY <1>1, <2>2 DEF CreateThread, Types
    <3>2. thread[id] = "none"
      BY <1>1, <3>1, Vectors DEF Threads, Created
    <3>3. \A i \in Ids : thread[i] = "failed" => thread'[i] = "failed" /\ ~ Joined(i)'
      BY <1>1, <2>2, <3>1, <3>2 DEF CreateThread, Types, Joined
    <3> QED
      BY <1>1, <2>2, <3>1, <3>3 DEF CreateThread, FailuresAreSeen, faults
  <2>3. CASE Trigger
    BY <1>1, <2>3, Vectors DEF Trigger, Threads, FailuresAreSeen, Joined, faults, Types, Ids
  <2>4. CASE Join
    <3>1. mainPc = "join" /\ id \in Ids /\ thread' = thread /\ errorCount \in Nat
      BY <1>1, <2>4 DEF Join, Types
    <3>2. errorCount' = errorCount + (IF thread[id] = "failed" THEN 1 ELSE 0)
      BY <2>4 DEF Join
    <3>3. ASSUME NEW i \in Ids, thread[i] = "failed", ~ Joined(i), i # id
          PROVE  ~ Joined(i)'
      <4>1. i > id
        BY <3>1, <3>3, Vectors DEF Joined
      <4>2. IF id = NumIntrIds - 1 THEN mainPc' = "responses" /\ id' = 0
            ELSE id' = id + 1 /\ mainPc' = "join"
        BY <2>4, <3>1 DEF Join
      <4> QED
        BY <3>1, <4>1, <4>2, Vectors DEF Joined, Ids
    <3>4. gaveUp' = gaveUp /\ trouble' = trouble
      BY <2>4 DEF Join, faults
    <3> QED
      BY <1>1, <3>1, <3>2, <3>3, <3>4 DEF FailuresAreSeen
  <2>5. CASE CheckResponses
    <3>1. mainPc = "responses" /\ errorCount \in Nat
      BY <1>1, <2>5 DEF CheckResponses, Types
    <3>2. gaveUp => trouble /\ errorCount > 0
      BY <1>1, <3>1 DEF FailuresAreSeen, Joined
    <3>3. \/ gaveUp' = gaveUp /\ trouble' = trouble /\ errorCount' >= errorCount
          \/ gaveUp' = TRUE /\ trouble' = TRUE /\ errorCount' > 0
      BY <2>5, <3>1 DEF CheckResponses, GivesUp, faults
    <3>4. errorCount' \in Nat
      BY TypesStep DEF Types
    <3> QED
      BY <1>1, <3>1, <3>2, <3>3, <3>4 DEF FailuresAreSeen
  <2>6. CASE NextTest
    BY <2>6 DEF NextTest, FailuresAreSeen
  <2> QED
    BY <1>2, <2>1, <2>2, <2>3, <2>4, <2>5, <2>6 DEF testHostChanIntr
<1>3. CASE IntrFinished
  BY <1>1, <1>3 DEF IntrFinished, intrVars, mainVars, faults, FailuresAreSeen, Joined
<1>4. ASSUME NEW j \in Ids, intr_wait_thread(j) PROVE FailuresAreSeen'
  <2>1. /\ thread[j] \in {"polling", "reading"} /\ mainPc' = mainPc /\ id' = id
        /\ errorCount' = errorCount
        /\ \A i \in Ids : i # j => thread'[i] = thread[i]
    BY <1>1, <1>4 DEF intr_wait_thread, PollReturns, PollGivesUp, ReadFails, ReadCount, mainVars,
                      Types
  <2>2. \A i \in Ids : thread[i] = "failed" => thread'[i] = "failed"
    BY <2>1
  <2>3. \/ gaveUp' = gaveUp /\ trouble' = trouble
        \/ gaveUp' = TRUE /\ trouble' = TRUE /\ thread'[j] = "failed"
    BY <1>1, <1>4 DEF intr_wait_thread, PollReturns, PollGivesUp, ReadFails, ReadCount, GivesUp,
                      faults, Types
  <2>4. mainPc # "aborted" => ~ Joined(j)
    BY <1>1, <2>1 DEF Threads
  <2> QED
    BY <1>1, <2>1, <2>2, <2>3, <2>4 DEF FailuresAreSeen, Joined
<1>5. CASE IntrHardware
  BY <1>1, <1>5 DEF IntrHardware, StartCmd, SendInterrupt, InterruptArrives, ResponseArrives,
                    mainVars, faults, FailuresAreSeen, Joined
<1> QED
  BY <1>2, <1>3, <1>4, <1>5 DEF IntrNext

\* What the invariant says of a step while nothing has gone wrong.
LEMMA CalmStep ==
    ASSUME IntrInv, IntrNext, ~ trouble'
    PROVE  ~ trouble /\ ~ Aborts /\ (\A i \in Ids : ~ PollGivesUp(i) /\ ~ ReadFails(i))
           /\ mainPc # "aborted" /\ ~ gaveUp
<1>1. Types /\ FailuresAreSeen /\ Undisturbed
  BY DEF IntrInv
<1>2. ~ Aborts /\ (\A i \in Ids : ~ PollGivesUp(i) /\ ~ ReadFails(i))
  BY DEF Aborts, PollGivesUp, ReadFails, GivesUp
<1>3. ~ trouble
  <2>1. CASE testHostChanIntr
    BY <1>2, <2>1 DEF testHostChanIntr, CreateThread, Trigger, Join, CheckResponses, GivesUp,
                      NextTest, faults
  <2>2. CASE IntrFinished
    BY <2>2 DEF IntrFinished, intrVars, faults
  <2>3. ASSUME NEW i \in Ids, intr_wait_thread(i) PROVE trouble' = trouble
    BY <1>2, <2>3 DEF intr_wait_thread, PollReturns, ReadCount, faults
  <2>4. CASE IntrHardware
    BY <2>4 DEF IntrHardware, StartCmd, SendInterrupt, InterruptArrives, ResponseArrives, faults
  <2> QED
    BY <2>1, <2>2, <2>3, <2>4 DEF IntrNext
<1> QED
  BY <1>1, <1>2, <1>3 DEF Undisturbed, FailuresAreSeen

\* A test that is set up, and what the main thread then does with it.
LEMMA MainUndisturbed ==
    ASSUME IntrInv, testHostChanIntr
    PROVE  Undisturbed'
<1> SUFFICES ASSUME ~ trouble' PROVE Undisturbed'
  BY DEF Undisturbed
<1>1. Types /\ Threads /\ Undisturbed
  BY DEF IntrInv
<1>2. IntrNext
  BY DEF IntrNext
<1>3. ~ trouble /\ ~ Aborts /\ mainPc # "aborted" /\ Types'
  BY <1>2, CalmStep, TypesStep
<1>4. /\ errorCount = 0
      /\ \A i \in Ids : thread[i] # "failed" /\ Event(i)
      /\ active => ~ startWire /\ curIntrId \in Ids
      /\ Triggered => /\ \A i \in Ids : SignalledOnce(i) /\ AnsweredOnce(i)
                      /\ ~ startWire => numResponses = Cardinality(responseMask)
                      /\ mainPc = "verdict" => Idle
      /\ ~ Triggered => /\ Idle
                        /\ \A i \in Ids : thread[i] \in {"none", "polling"} /\ event[i] # 1
  BY <1>1, <1>3 DEF Undisturbed
<1>5. CASE CreateThread
  <2>1. mainPc = "create" /\ id \in Ids /\ mainPc' \in {"create", "trigger"} /\ thread[id] = "none"
    BY <1>1, <1>5, Vectors DEF CreateThread, Threads, Created, Types
  <2>2. ~ Triggered /\ ~ Triggered'
    BY <2>1 DEF Triggered
  <2>3. ASSUME NEW i \in Ids
        PROVE  /\ thread'[i] \in {"none", "polling"} /\ event'[i] # 1 /\ Event(i)'
               /\ thread'[i] # "failed"
    <3>1. IF i = id THEN thread'[i] = "polling" /\ event'[i] = 0
          ELSE thread'[i] = thread[i] /\ event'[i] = event[i]
      BY <1>1, <1>5 DEF CreateThread, Types
    <3>2. Event(i) /\ thread[i] \in {"none", "polling"} /\ event[i] # 1
      BY <1>4, <2>2
    <3> QED
      BY <3>1, <3>2 DEF Event
  <2>4. Idle' /\ errorCount' = 0 /\ ~ active'
    BY <1>4, <1>5, <2>2 DEF CreateThread, Idle, afu
  <2> QED
    BY <2>1, <2>2, <2>3, <2>4 DEF Undisturbed
<1>6. CASE Trigger
  <2>1. /\ mainPc = "trigger" /\ mainPc' = "join" /\ id = 0 /\ id' = 0
        /\ startWire' = TRUE /\ thread' = thread
        /\ event' = event
    BY <1>1, <1>6 DEF Trigger, Threads
  <2>2. ~ Triggered /\ Triggered' /\ Idle
    BY <1>4, <2>1 DEF Triggered
  <2>3. ASSUME NEW i \in Ids
        PROVE  /\ thread'[i] # "failed" /\ Event(i)'
               /\ SignalledOnce(i)' /\ AnsweredOnce(i)'
    <3>1. Event(i) /\ thread[i] = "polling" /\ event[i] # 1
      BY <1>1, <1>3, <1>4, <2>1, <2>2 DEF Threads, Created
    <3>2. interrupts'[i] = 0 /\ responses'[i] = 0
      BY <1>6, <2>2 DEF Trigger, Idle
    <3>3. SignalledOnce(i)'
      BY <2>1, <3>1, <3>2 DEF SignalledOnce, Due, One
    <3>4. AnsweredOnce(i)'
      BY <2>1, <3>2 DEF AnsweredOnce, Due, One
    <3> QED
      BY <2>1, <3>1, <3>3, <3>4 DEF Event
  <2>4. ~ active' /\ errorCount' = 0
    BY <1>4, <1>6, <2>2 DEF Trigger, Idle, afu
  <2> QED
    BY <2>1, <2>2, <2>3, <2>4 DEF Undisturbed
<1>7. CASE Join
  <2>1. mainPc = "join" /\ id \in Ids /\ thread[id] = "passed" /\ thread' = thread
    BY <1>1, <1>4, <1>7 DEF Join, Types
  <2>2. Triggered /\ Triggered' /\ mainPc' \in {"join", "responses"}
    BY <1>7, <2>1 DEF Triggered, Join
  <2>3. ASSUME NEW i \in Ids
        PROVE  /\ thread'[i] # "failed" /\ Event(i)'
               /\ SignalledOnce(i)' /\ AnsweredOnce(i)'
    <3>1. Event(i) /\ thread[i] # "failed" /\ SignalledOnce(i) /\ AnsweredOnce(i)
      BY <1>4, <2>2
    <3>2. event'[i] = IF i = id THEN NoEvent ELSE event[i]
      BY <1>1, <1>7 DEF Join, Types
    <3>3. /\ Due(i)' = Due(i) /\ interrupts' = interrupts /\ responses' = responses
          /\ startWire' = startWire /\ responseMask' = responseMask
      BY <1>7 DEF Join, afu, Due
    <3>4. Joined(i)' <=> Joined(i) \/ i = id
      <4>1. IF id = NumIntrIds - 1 THEN mainPc' = "responses" /\ id' = 0
            ELSE id' = id + 1 /\ mainPc' = "join"
        BY <1>7, <2>1 DEF Join
      <4> QED
        BY <2>1, <4>1, Vectors DEF Joined, Ids
    <3>5. Event(i)'
      BY <2>1, <3>1, <3>2, <3>4 DEF Event
    <3>6. SignalledOnce(i)'
      BY <2>1, <3>1, <3>2, <3>3 DEF SignalledOnce, One, NoEvent
    <3>7. AnsweredOnce(i)'
      BY <3>1, <3>3 DEF AnsweredOnce
    <3> QED
      BY <2>1, <3>1, <3>5, <3>6, <3>7
  <2>4. /\ errorCount' = 0 /\ startWire' = startWire /\ active' = active /\ curIntrId' = curIntrId
        /\ numResponses' = numResponses /\ responseMask' = responseMask
    BY <1>4, <1>7, <2>1 DEF Join, afu
  <2> QED
    BY <1>4, <2>2, <2>3, <2>4 DEF Undisturbed
<1>8. CASE CheckResponses
  <2>1. mainPc = "responses" /\ ~ startWire /\ mainPc' \in {"responses", "verdict"}
    BY <1>8 DEF CheckResponses
  <2>2. /\ id' = id /\ thread' = thread /\ event' = event
        /\ startWire' = startWire /\ active' = active
        /\ curIntrId' = curIntrId /\ numResponses' = numResponses
        /\ responseMask' = responseMask /\ interrupts' = interrupts
        /\ responses' = responses
    BY <1>8 DEF CheckResponses, afu
  <2>3. Triggered /\ Triggered' /\ numResponses = Cardinality(responseMask)
    BY <1>4, <2>1 DEF Triggered
  <2>4. ASSUME NEW i \in Ids
        PROVE  /\ thread'[i] # "failed" /\ Event(i)'
               /\ SignalledOnce(i)' /\ AnsweredOnce(i)'
    <3>1. Event(i) /\ thread[i] # "failed" /\ SignalledOnce(i) /\ AnsweredOnce(i)
      BY <1>4, <2>3
    <3>2. Joined(i) /\ Joined(i)' /\ Due(i)' = Due(i)
      BY <2>1, <2>2 DEF Joined, Due
    <3> QED
      BY <2>2, <3>1, <3>2 DEF Event, SignalledOnce, AnsweredOnce
  <2>5. errorCount' = 0 /\ (mainPc' = "verdict" => Idle')
    <3>1. CASE numResponses = NumIntrIds
      <4>1. responseMask = Ids
        BY <1>1, <2>3, <3>1, Vectors, FS_Subset DEF Types
      <4>2. errorCount' = 0
        BY <1>4, <1>8, <3>1, <4>1 DEF CheckResponses
      <4>3. ASSUME NEW i \in Ids
            PROVE  ~ Due(i) /\ interrupts[i] = 0 /\ responses[i] = 0
        <5>1. /\ SignalledOnce(i) /\ AnsweredOnce(i) /\ Event(i) /\ thread[i] = "passed"
          BY <1>1, <1>3, <1>4, <2>1, <2>3 DEF Threads, Joined
        <5>2. interrupts[i] \in Nat /\ responses[i] \in Nat
          BY <1>1 DEF Types
        <5>3. ~ Due(i) /\ responses[i] = 0
          BY <2>1, <4>1, <5>1, <5>2 DEF AnsweredOnce, One
        <5>4. interrupts[i] = 0
          BY <5>1, <5>2, <5>3 DEF SignalledOnce, One
        <5> QED
          BY <5>3, <5>4
      <4>4. ~ active
        BY <1>4, <4>3, Vectors DEF Due, Ids
      <4> QED
        BY <2>1, <2>2, <4>2, <4>3, <4>4 DEF Idle
    <3>2. CASE numResponses # NumIntrIds
      BY <1>4, <1>8, <2>1, <3>2 DEF CheckResponses, GivesUp
    <3> QED
      BY <3>1, <3>2
  <2> QED
    BY <1>4, <2>1, <2>2, <2>3, <2>4, <2>5 DEF Undisturbed
<1>9. CASE NextTest
  <2>1. mainPc = "verdict" /\ mainPc' = "create" /\ id' = 0 /\ errorCount' = 0
    BY <1>3, <1>9 DEF NextTest
  <2>2. Triggered /\ ~ Triggered' /\ Idle /\ Idle'
    BY <1>4, <1>9, <2>1 DEF Triggered, NextTest, Idle, afu
  <2>3. ASSUME NEW i \in Ids
        PROVE  /\ thread'[i] = "none" /\ event'[i] = NoEvent
    <3>1. thread[i] = "passed" /\ Event(i) /\ Joined(i)
      BY <1>1, <1>3, <1>4, <2>1 DEF Threads, Joined
    <3> QED
      BY <1>9, <3>1 DEF NextTest, Event
  <2>4. \A i \in Ids : /\ thread'[i] \in {"none", "polling"} /\ event'[i] # 1 /\ Event(i)'
                       /\ thread'[i] # "failed"
    BY <2>3 DEF Event, NoEvent
  <2> QED
    BY <2>1, <2>2, <2>4 DEF Undisturbed, Idle
<1> QED
  BY <1>3, <1>5, <1>6, <1>7, <1>8, <1>9 DEF testHostChanIntr

\* A thread that returns from poll and reads its event has passed.
LEMMA ThreadUndisturbed ==
    ASSUME IntrInv, NEW j \in Ids, intr_wait_thread(j)
    PROVE  Undisturbed'
<1> SUFFICES ASSUME ~ trouble' PROVE Undisturbed'
  BY DEF Undisturbed
<1>1. Types /\ Threads /\ Undisturbed
  BY DEF IntrInv
<1>2. IntrNext
  BY DEF IntrNext
<1>3. ~ trouble /\ ~ PollGivesUp(j) /\ ~ ReadFails(j) /\ mainPc # "aborted"
  BY <1>2, CalmStep
<1>4. /\ mainPc' = mainPc /\ id' = id /\ errorCount' = errorCount /\ startWire' = startWire
      /\ active' = active /\ curIntrId' = curIntrId /\ numResponses' = numResponses
      /\ responseMask' = responseMask /\ interrupts' = interrupts /\ responses' = responses
  BY <1>3 DEF intr_wait_thread, PollReturns, ReadCount, mainVars, afu
<1>5. \A i \in Ids : thread[i] # "failed" /\ Event(i)
  BY <1>1, <1>3 DEF Undisturbed
<1>6. /\ ~ Joined(j) /\ event[j] = 1
      /\ \/ thread[j] = "polling" /\ thread'[j] = "reading" /\ event'[j] = 1
         \/ thread[j] = "reading" /\ thread'[j] = "passed" /\ event'[j] = 0
      /\ \A i \in Ids : i # j => thread'[i] = thread[i] /\ event'[i] = event[i]
  <2>1. thread[j] \in {"polling", "reading"}
    BY <1>3 DEF intr_wait_thread, PollReturns, ReadCount
  <2>2. ~ Joined(j)
    BY <1>1, <1>3, <2>1 DEF Threads
  <2>3. CASE PollReturns(j)
    BY <1>1, <1>5, <2>2, <2>3 DEF PollReturns, Event, Types
  <2>4. CASE ReadCount(j)
    BY <1>1, <1>5, <2>2, <2>4 DEF ReadCount, Event, Types
  <2> QED
    BY <1>3, <2>3, <2>4 DEF intr_wait_thread
<1>7. Triggered
  BY <1>1, <1>3, <1>6 DEF Undisturbed
<1>8. ASSUME NEW i \in Ids
      PROVE  /\ thread'[i] # "failed" /\ Event(i)' /\ SignalledOnce(i)' /\ AnsweredOnce(i)'
  <2>1. Event(i) /\ SignalledOnce(i) /\ AnsweredOnce(i) /\ thread[i] # "failed"
    BY <1>1, <1>3, <1>5, <1>7 DEF Undisturbed
  <2>2. Joined(i)' = Joined(i) /\ Due(i)' = Due(i) /\ AnsweredOnce(i)'
    BY <1>4, <2>1 DEF Joined, Due, AnsweredOnce
  <2>3. event'[i] = 1 \/ thread'[i] = "passed" <=> event[i] = 1 \/ thread[i] = "passed"
    BY <1>6
  <2>4. SignalledOnce(i)'
    BY <1>4, <2>1, <2>2, <2>3 DEF SignalledOnce, One
  <2>5. Event(i)' /\ thread'[i] # "failed"
    BY <1>6, <2>1, <2>2 DEF Event
  <2> QED
    BY <2>2, <2>4, <2>5
<1>9. /\ errorCount = 0 /\ (active => ~ startWire /\ curIntrId \in Ids)
      /\ ~ startWire => numResponses = Cardinality(responseMask)
      /\ mainPc = "verdict" => Idle
  BY <1>1, <1>3, <1>7 DEF Undisturbed
<1>10. Triggered' /\ (Idle' <=> Idle)
  BY <1>4, <1>7 DEF Triggered, Idle
<1> QED
  BY <1>3, <1>4, <1>8, <1>9, <1>10 DEF Undisturbed

\* The AFU sends each interrupt once, and each arrives once, as does its
\* response; when nothing is under way there is nothing to do.
LEMMA HardwareUndisturbed ==
    ASSUME IntrInv, IntrHardware
    PROVE  Undisturbed'
<1> SUFFICES ASSUME ~ trouble' PROVE Undisturbed'
  BY DEF Undisturbed
<1>1. Types /\ Threads /\ Undisturbed
  BY DEF IntrInv
<1>2. ~ trouble /\ mainPc # "aborted" /\ Types'
  <2>1. IntrNext
    BY DEF IntrNext
  <2> QED
    BY <2>1, CalmStep, TypesStep
<1>3. mainPc' = mainPc /\ id' = id /\ errorCount' = errorCount /\ thread' = thread
  BY DEF IntrHardware, StartCmd, SendInterrupt, InterruptArrives, ResponseArrives, mainVars
<1>4. ~ Idle
  BY <1>1 DEF IntrHardware, StartCmd, SendInterrupt, InterruptArrives, ResponseArrives, Idle
<1>5. Triggered /\ Triggered' /\ mainPc # "verdict" /\ mainPc' # "verdict"
  BY <1>1, <1>2, <1>3, <1>4 DEF Undisturbed, Triggered
<1>6. /\ errorCount = 0
      /\ \A i \in Ids : /\ thread[i] # "failed" /\ Event(i)
                        /\ SignalledOnce(i) /\ AnsweredOnce(i)
      /\ active => ~ startWire /\ curIntrId \in Ids
      /\ ~ startWire => numResponses = Cardinality(responseMask)
  BY <1>1, <1>2, <1>5 DEF Undisturbed
<1>7. \A i \in Ids : Joined(i)' = Joined(i)
  BY <1>3 DEF Joined
<1>8. /\ \A i \in Ids : Event(i)' /\ SignalledOnce(i)' /\ AnsweredOnce(i)'
      /\ active' => ~ startWire' /\ curIntrId' \in Ids
      /\ ~ startWire' => numResponses' = Cardinality(responseMask')
      => Undisturbed'
  BY <1>2, <1>3, <1>5, <1>6 DEF Undisturbed
<1>9. ASSUME NEW i \in Ids
      PROVE  /\ interrupts[i] \in Nat /\ responses[i] \in Nat /\ i \in Nat
             /\ One(Due(i)) + interrupts[i]
                  + One(event[i] = 1 \/ thread[i] = "passed") = 1
             /\ One(Due(i)) + responses[i] + One(~ startWire /\ i \in responseMask) = 1
  BY <1>1, <1>6, Vectors DEF Types, SignalledOnce, AnsweredOnce
<1>10. CASE StartCmd
  <2>1. /\ startWire /\ ~ startWire' /\ active' /\ curIntrId' = NumIntrIds - 1
        /\ numResponses' = 0 /\ responseMask' = {}
        /\ event' = event /\ interrupts' = interrupts /\ responses' = responses
    BY <1>10 DEF StartCmd
  <2>2. \A i \in Ids : Due(i) /\ Due(i)'
    BY <2>1, Vectors DEF Due
  <2>3. \A i \in Ids : Event(i)' /\ SignalledOnce(i)' /\ AnsweredOnce(i)'
    BY <1>3, <1>6, <1>7, <2>1, <2>2 DEF Event, SignalledOnce, AnsweredOnce
  <2> QED
    BY <1>8, <2>1, <2>3, Vectors, FS_EmptySet
<1>11. CASE SendInterrupt
  <2>1. /\ active /\ ~ startWire /\ ~ startWire' /\ curIntrId \in Ids
        /\ active' = (curIntrId # 0) /\ curIntrId' = (curIntrId - 1) % IdValues
        /\ numResponses' = numResponses /\ responseMask' = responseMask /\ event' = event
        /\ \A i \in Ids :
             /\ interrupts'[i] = interrupts[i] + (IF i = curIntrId THEN 1 ELSE 0)
             /\ responses'[i] = responses[i] + (IF i = curIntrId THEN 1 ELSE 0)
    BY <1>1, <1>6, <1>11 DEF SendInterrupt, Types
  <2>2. curIntrId # 0 => curIntrId' = curIntrId - 1 /\ curIntrId' \in Ids
    <3>1. curIntrId # 0 => curIntrId - 1 \in Ids /\ curIntrId - 1 \in 0..IdValues - 1
      BY <2>1, Vectors
    <3>2. ASSUME curIntrId - 1 \in 0..IdValues - 1
          PROVE  (curIntrId - 1) % IdValues = curIntrId - 1
      <4> DEFINE n == curIntrId - 1
      <4>1. n \in Int /\ n \in 0..IdValues - 1 /\ IdValues \in Nat \ {0}
        BY <3>2, Vectors
      <4> HIDE DEF n
      <4>2. n % IdValues = n
        BY <4>1, Remainder
      <4> QED
        BY <4>2 DEF n
    <3> QED
      BY <2>1, <3>1, <3>2
  <2>3. ASSUME NEW i \in Ids
        PROVE  One(Due(i)) = One(Due(i)') + (IF i = curIntrId THEN 1 ELSE 0)
    <3>1. Due(i) <=> i <= curIntrId
      BY <2>1 DEF Due
    <3>2. Due(i)' <=> curIntrId # 0 /\ i <= curIntrId - 1
      BY <2>1, <2>2 DEF Due
    <3>3. curIntrId \in Nat /\ i \in Nat
      BY <2>1, Vectors
    <3>4. Due(i) <=> Due(i)' \/ i = curIntrId
      BY <3>1, <3>2, <3>3
    <3>5. ~ (Due(i)' /\ i = curIntrId)
      BY <3>2, <3>3
    <3> QED
      BY <3>4, <3>5 DEF One
  <2>4. ASSUME NEW i \in Ids
        PROVE  SignalledOnce(i)' /\ AnsweredOnce(i)' /\ Event(i)'
    <3> DEFINE due == One(Due(i))
               dueAfter == One(Due(i)')
               sent == IF i = curIntrId THEN 1 ELSE 0
               passed == One(event[i] = 1 \/ thread[i] = "passed")
               answered == One(~ startWire /\ i \in responseMask)
    <3>1. /\ due = dueAfter + sent /\ due + interrupts[i] + passed = 1
          /\ due + responses[i] + answered = 1
          /\ interrupts'[i] = interrupts[i] + sent /\ responses'[i] = responses[i] + sent
          /\ interrupts[i] \in Nat /\ responses[i] \in Nat
      BY <1>9, <2>1, <2>3
    <3>2. dueAfter \in 0..1 /\ sent \in 0..1 /\ passed \in 0..1 /\ answered \in 0..1
      BY DEF One
    <3>3. /\ SignalledOnce(i)' <=> dueAfter + interrupts'[i] + passed = 1
          /\ AnsweredOnce(i)' <=> dueAfter + responses'[i] + answered = 1
      BY <1>3, <2>1 DEF SignalledOnce, AnsweredOnce, One
    <3> HIDE DEF due, dueAfter, sent, passed, answered
    <3>4. SignalledOnce(i)' /\ AnsweredOnce(i)'
      BY <3>1, <3>2, <3>3
    <3> QED
      BY <1>3, <1>6, <1>7, <2>1, <3>4 DEF Event
  <2> QED
    BY <1>6, <1>8, <2>1, <2>2, <2>4
<1>12. ASSUME NEW j \in Ids, InterruptArrives(j)
       PROVE  Undisturbed'
  <2>1. /\ interrupts[j] > 0 /\ startWire' = startWire /\ active' = active
        /\ curIntrId' = curIntrId /\ numResponses' = numResponses
        /\ responseMask' = responseMask /\ responses' = responses
        /\ \A i \in Ids :
             /\ interrupts'[i] = IF i = j THEN interrupts[i] - 1 ELSE interrupts[i]
             /\ event'[i] = IF i = j /\ event[i] # NoEvent THEN event[i] + 1 ELSE event[i]
    BY <1>1, <1>12 DEF InterruptArrives, afu, Types
  <2>2. ~ Due(j) /\ interrupts[j] = 1 /\ event[j] # 1 /\ thread[j] # "passed"
    BY <1>9, <2>1 DEF One
  <2>3. thread[j] = "polling" /\ event[j] = 0
    <3>1. thread[j] # "none"
      BY <1>1, <1>2, <1>5 DEF Threads, Created, Triggered
    <3>2. thread[j] \in ThreadStates /\ Event(j) /\ thread[j] # "failed"
      BY <1>1, <1>6 DEF Types
    <3> QED
      BY <2>2, <3>1, <3>2 DEF ThreadStates, Event
  <2>4. ASSUME NEW i \in Ids
        PROVE  SignalledOnce(i)' /\ AnsweredOnce(i)' /\ Event(i)'
    <3>1. Due(i)' = Due(i) /\ AnsweredOnce(i)'
      BY <1>6, <2>1 DEF Due, AnsweredOnce
    <3>2. CASE i = j
      BY <1>3, <2>1, <2>2, <2>3, <3>1, <3>2 DEF SignalledOnce, Event, One, NoEvent
    <3>3. CASE i # j
      BY <1>3, <1>6, <1>7, <2>1, <3>1, <3>3 DEF SignalledOnce, Event
    <3> QED
      BY <3>1, <3>2, <3>3
  <2> QED
    BY <1>6, <1>8, <2>1, <2>4
<1>13. ASSUME NEW j \in Ids, ResponseArrives(j)
       PROVE  Undisturbed'
  <2>1. /\ responses[j] > 0 /\ startWire' = startWire /\ active' = active
        /\ curIntrId' = curIntrId /\ event' = event /\ interrupts' = interrupts
        /\ numResponses' = (numResponses + 1) % (2 * IdValues)
        /\ responseMask' = responseMask \cup {j}
        /\ \A i \in Ids :
             responses'[i] = IF i = j THEN responses[i] - 1 ELSE responses[i]
    BY <1>1, <1>13 DEF ResponseArrives, Types
  <2>2. ~ Due(j) /\ responses[j] = 1 /\ ~ startWire /\ j \notin responseMask
    <3>1. ~ Due(j) /\ responses[j] = 1 /\ ~ (~ startWire /\ j \in responseMask)
      BY <1>9, <2>1 DEF One
    <3> QED
      BY <3>1 DEF Due
  <2>3. numResponses' = Cardinality(responseMask')
    <3>1. responseMask \subseteq Ids /\ IsFiniteSet(responseMask)
          /\ Cardinality(responseMask) <= NumIntrIds
      BY <1>1, Vectors, FS_Subset DEF Types
    <3>2. Cardinality(responseMask') = Cardinality(responseMask) + 1
          /\ Cardinality(responseMask) \in Nat
      BY <2>1, <2>2, <3>1, FS_AddElement, FS_CardinalityType
    <3>3. responseMask' \subseteq Ids /\ Cardinality(responseMask') <= NumIntrIds
      BY <2>1, <3>1, Vectors, FS_Subset
    <3>4. NumIntrIds <= IdValues /\ IdValues \in Nat \ {0} /\ NumIntrIds \in Nat
      BY Vectors, IntrAssumption DEF IntrAssumption
    <3>5. numResponses + 1 = Cardinality(responseMask')
      BY <1>6, <2>2, <3>2
    <3>6. numResponses + 1 \in 0..2 * IdValues - 1
      BY <3>2, <3>3, <3>4, <3>5
    <3> QED
      <4> DEFINE m == 2 * IdValues
                 n == numResponses + 1
      <4>1. m \in Nat \ {0} /\ n \in Int /\ n \in 0..m - 1
        BY <3>4, <3>6
      <4>2. numResponses' = n % m
        BY <2>1
      <4> HIDE DEF m, n
      <4>3. n % m = n
        BY <4>1, Remainder
      <4> QED
        BY <3>5, <4>2, <4>3 DEF n
  <2>4. ASSUME NEW i \in Ids
        PROVE  SignalledOnce(i)' /\ AnsweredOnce(i)' /\ Event(i)'
    <3>1. Due(i)' = Due(i) /\ SignalledOnce(i)' /\ Event(i)'
      BY <1>3, <1>6, <1>7, <2>1 DEF Due, SignalledOnce, Event
    <3>2. AnsweredOnce(i)'
      BY <1>6, <2>1, <2>2, <3>1 DEF AnsweredOnce, One
    <3> QED
      BY <3>1, <3>2
  <2> QED
    BY <1>6, <1>8, <2>1, <2>3, <2>4
<1> QED
  BY <1>10, <1>11, <1>12, <1>13 DEF IntrHardware

-----------------------------------------------------------------------------
(* The interrupt test: its verdict                                         *)

\* The invariant holds when the program starts.
LEMMA IntrStarts ==
    ASSUME IntrInit
    PROVE  IntrInv
<1> USE Vectors DEF IntrInit
<1>1. Types
  BY DEF Types, MainLabels, ThreadStates
<1>2. Threads /\ FailuresAreSeen
  BY DEF Threads, Created, Joined, FailuresAreSeen, Ids
<1>3. Undisturbed
  BY DEF Undisturbed, Event, Triggered, Idle, NoEvent
<1> QED
  BY <1>1, <1>2, <1>3 DEF IntrInv

\* The invariant is about the variables of the program, the AFU and what is
\* under way only.
LEMMA IntrStutter ==
    ASSUME IntrInv, UNCHANGED intrVars
    PROVE  IntrInv'
<1> USE DEF intrVars, mainVars, faults, afu, IntrInv
<1>1. Types' /\ FailuresAreSeen'
  BY DEF Types, FailuresAreSeen, Joined
<1>2. Threads'
  BY DEF Threads, Created, Joined
<1>3. \A i \in Ids : Event(i)' = Event(i) /\ SignalledOnce(i)' = SignalledOnce(i)
                     /\ AnsweredOnce(i)' = AnsweredOnce(i)
  BY DEF Event, Joined, SignalledOnce, AnsweredOnce, Due
<1>4. Undisturbed'
  BY <1>3 DEF Undisturbed, Triggered, Idle
<1> QED
  BY <1>1, <1>2, <1>4

\* VerdictIsTrue for every number of vectors: whatever gave up is
\* counted before the verdict, and a program that nothing disturbed passes every
\* test and leaves the AFU idle (test_host_chan_intr.c:124-190).
THEOREM VerdictHolds == IntrSpec => []VerdictIsTrue
<1>1. IntrInv /\ [IntrNext]_intrVars => IntrInv'
  <2> SUFFICES ASSUME IntrInv, [IntrNext]_intrVars PROVE IntrInv'
    OBVIOUS
  <2>1. CASE UNCHANGED intrVars
    BY <2>1, IntrStutter
  <2>2. ASSUME IntrNext, ~ UNCHANGED intrVars PROVE IntrInv'
    <3>1. Types' /\ Threads' /\ FailuresAreSeen'
      BY <2>2, TypesStep, ThreadsStep, FailuresStep
    <3>2. Undisturbed'
      BY <2>2, MainUndisturbed, ThreadUndisturbed, HardwareUndisturbed DEF IntrNext, IntrFinished
    <3> QED
      BY <3>1, <3>2 DEF IntrInv
  <2> QED
    BY <2>1, <2>2
<1>2. IntrInv => VerdictIsTrue
  <2> SUFFICES ASSUME IntrInv, mainPc = "verdict"
               PROVE  (gaveUp => errorCount > 0) /\ (~ trouble => errorCount = 0 /\ Idle)
    BY DEF VerdictIsTrue
  <2>1. gaveUp => errorCount > 0
    BY DEF IntrInv, FailuresAreSeen, Joined
  <2>2. ~ trouble => errorCount = 0 /\ Idle
    BY DEF IntrInv, Undisturbed, Triggered
  <2> QED
    BY <2>1, <2>2
<1> QED
  BY <1>1, <1>2, IntrStarts, PTL DEF IntrSpec
-----------------------------------------------------------------------------
(* The engine runs                                                         *)

\* What the state machine orders, at the k-th register on its way to the engines, and
\* which engines the flags show, or are too late to show, at the i-th register on its
\* way back.  Register 0 is where it comes from.
RunAt(a, k) ==
    IF k = 0 THEN [reset |-> stateReset[a], run |-> stateRun[a]] ELSE runPipe[a][k]
Busy(a) == {e \in Engines(a) : StatusActive(a, e)}
Late(a) == {e \in Engines(a) : Hidden(a, e)}
ShownAt(a, i) ==
    IF i = 0 THEN Busy(a) \cup Late(a) ELSE activePipe[a][i] \cup hiddenPipe[a][i]
Stages == 0..RunStages

\* An engine that may request, and one with nothing in flight whose counters know it.
Asks(a, e) == e \in RunAt(a, RunStages).run /\ eng[a][e].left # 0
Still(a, e) ==
    /\ eng[a][e].out = 0
    /\ counts[a][e].incr = 0 /\ counts[a][e].low = 0 /\ counts[a][e].value = 0

\* What the test is about, for an accelerator: the engines that its command reaches,
\* those that are configured, and the CSR writes.
InRun(a) == a \in Range(run.accels)
Mask(a) == Commanded(a, run.emask)
Chosen(a) == Selected(run, PlaceOf(a, run.accels))
Value == [tag |-> tag, beats |-> run.beats]
ConfigWrite(e) == [index |-> EngIndex(e, 2), value |-> Value]
EnableWrite == [index |-> CSR_WR_CTRL_ENG_ENABLE_MASK, value |-> run.emask]
DisableWrite == [index |-> CSR_WR_CTRL_ENG_DISABLE_MASK, value |-> run.emask]

\* The order of commands: none has been sent or taken, or the engines are off again;
\* those that start them are on the wire, the one that enables them last; the state
\* machine starts them; they are enabled; they are told to stop.
Off(a) == wire[a] = <<>> /\ state[a] = "READY" /\ stateReset[a] = {} /\ stateRun[a] = {}
Sent(a) ==
    LET w == wire[a]
    IN  /\ state[a] = "READY" /\ stateReset[a] = {} /\ stateRun[a] = {}
        /\ w # <<>> /\ w[Len(w)] = EnableWrite
        /\ \A n \in 1..Len(w) - 1 : \E e \in Chosen(a) : w[n] = ConfigWrite(e)
InHand(a) ==
    /\ wire[a] = <<>> /\ state[a] \in {"HOLD_RESET", "ENG_START"}
    /\ stateRun[a] = {} /\ stateReset[a] = Mask(a)
On(a) ==
    wire[a] = <<>> /\ state[a] = "READY" /\ stateReset[a] = {} /\ stateRun[a] = Mask(a)
Told(a) ==
    /\ state[a] = "READY" /\ stateReset[a] = {} /\ stateRun[a] \subseteq Mask(a)
    /\ wire[a] = <<DisableWrite>> \/ (wire[a] = <<>> /\ stateRun[a] = {})
Ordering(a) == Sent(a) \/ InHand(a) \/ On(a)

\* Which of them it is when the program is at its label.
Orderly(a) ==
    IF pc = "choose" \/ ~ InRun(a) THEN Off(a)
    ELSE /\ pc \in {"pollEnabled", "waitStart", "running"} => Ordering(a)
         /\ pc \in {"pollActive", "stop"} => On(a)
         /\ pc = "waitStop" => IF PlaceOf(a, run.accels) < at THEN Off(a) ELSE Told(a)
         /\ pc \in {"clkEnabled", "clkCycles", "clkPclk"} => Off(a)
         /\ pc = "results" => IF run.kind = "regions" THEN Told(a) ELSE Off(a)
         /\ pc = "exited" => Off(a) \/ Ordering(a)

\* No engine is reset while it works: from a register with a reset on to the engines,
\* no engine is told to run that has something left to request.
ResetsAreSafe(a) ==
    \A j \in Stages : RunAt(a, j).reset # {} =>
      /\ \A e \in Engines(a) : Still(a, e)
      /\ \A k \in j..RunStages :
           /\ \A e \in RunAt(a, k).run : eng[a][e].left = 0
           /\ \A l \in k..RunStages : RunAt(a, l).reset # {} => RunAt(a, k).run = {}

\* What is in flight is counted, or will be in the next cycle.
Conserved(a) ==
    \A e \in Engines(a) : eng[a][e].out = counts[a][e].low + counts[a][e].incr

\* No engine has anything in flight, none is to be reset, and those that are told to
\* run have nothing left to request.
Dead(a) ==
    /\ \A e \in Engines(a) : Still(a, e)
    /\ \A k \in Stages : /\ RunAt(a, k).reset = {}
                         /\ \A e \in RunAt(a, k).run : eng[a][e].left = 0
Resting(a) == Off(a) /\ Dead(a)

\* So are the engines that the command does not reach; those that are configured and
\* started have the settings of this test, or will have when they leave reset.
OthersDead(a) ==
    /\ \A e \in Engines(a) \ Mask(a) : Still(a, e)
    /\ \A k \in Stages : /\ RunAt(a, k).reset \subseteq Mask(a)
                         /\ \A e \in RunAt(a, k).run \ Mask(a) : eng[a][e].left = 0
Configured(a) == \A e \in Chosen(a) : cfg[a][e] = Value
Taken(a) ==
    \A e \in Mask(a) \cap Chosen(a) :
        eng[a][e].tag = tag /\ (run.beats = Unlimited => eng[a][e].left = Unlimited)

\* An accelerator whose engines are to run: the writes are on the wire, in order; the
\* engines are held in reset; they are enabled.
Ordered(a) ==
    LET w == wire[a]
    IN  /\ Sent(a) /\ Dead(a)
        /\ \A e \in Chosen(a) : cfg[a][e] = Value \/ \E n \in 1..Len(w) - 1 : w[n] = ConfigWrite(e)
WillTake(a) == Configured(a) /\ ((\E k \in Stages : RunAt(a, k).reset = Mask(a)) \/ Taken(a))
Starting(a) == InHand(a) /\ (state[a] = "ENG_START" => ~ countReset[a]) /\ WillTake(a)
Started(a) == On(a) /\ ~ countReset[a] /\ WillTake(a)
Coming(a) == OthersDead(a) /\ (Ordered(a) \/ Starting(a) \/ Started(a))

\* The engines have been seen enabled.  What the registers show since then: a cycle
\* later the first says the same as the state machine, and once all do, an engine that
\* is neither shown to be active nor too late to be has nothing left to request and
\* nothing in flight.
Watched(a) ==
    /\ OthersDead(a) /\ Started(a)
    /\ \A k \in 1..RunStages : k <= sinceRead[a] => RunAt(a, k) = RunAt(a, 0)
    /\ \A i \in 1..ActiveStages : i + RunStages <= sinceRead[a] =>
         \A e \in Mask(a) \ ShownAt(a, i) : eng[a][e].left = 0 /\ Still(a, e)

\* The engines are to stop: in a test of small regions they are done already, in a
\* bandwidth test they become idle, which the registers see in their order.
Stopping(a) == IF pc = "stop" THEN On(a) ELSE Told(a)
Complete(a) ==
    /\ Stopping(a) /\ Dead(a) /\ Taken(a)
    /\ \A e \in Mask(a) : eng[a][e].left = 0
Slowing(a) ==
    /\ Stopping(a) /\ Taken(a) /\ ~ countReset[a]
    /\ \A k \in Stages : RunAt(a, k).reset = {}
    /\ \A j, k \in Stages : j <= k => RunAt(a, j).run \subseteq RunAt(a, k).run
    /\ \A i, j \in 0..ActiveStages : i <= j => ShownAt(a, i) \subseteq ShownAt(a, j)

\* They have stopped, and have been seen to.
Stopped(a) ==
    /\ Resting(a) /\ Taken(a) /\ ~ countReset[a]
    /\ \A i \in 1..ActiveStages : ShownAt(a, i) = {}

\* Where an accelerator is when the program is at its label, if it is not misled.
Phase(a) ==
    IF pc = "choose" \/ ~ InRun(a) THEN Resting(a)
    ELSE /\ pc \in {"pollEnabled", "waitStart", "running"} => Coming(a)
         /\ pc = "pollActive" => Watched(a)
         /\ pc = "stop" => IF run.kind = "regions" THEN Complete(a) ELSE Slowing(a)
         /\ pc = "waitStop" => IF PlaceOf(a, run.accels) < at THEN Stopped(a) ELSE Slowing(a)
         /\ pc \in {"clkEnabled", "clkCycles", "clkPclk"} => Stopped(a)
         /\ pc = "results" => IF run.kind = "regions" THEN Complete(a) ELSE Stopped(a)
         /\ pc = "exited" => Resting(a) \/ Coming(a)

\* Which labels belong to which kind of test.
Kinds ==
    /\ pc \in {"pollEnabled", "pollActive", "exited"} => run.kind = "regions"
    /\ pc \in {"waitStart", "running", "waitStop", "clkEnabled", "clkCycles", "clkPclk"} =>
         run.kind = "bandwidth"

\* The counters of the first accelerator: a round trip after its engines were seen
\* idle, no register on the way to the counters drives them.
Clock ==
    LET a == run.accels[1]
    IN  /\ (pc = "waitStop" /\ at > 1) \/ pc = "clkEnabled" =>
             \A i \in 1..CountStages : i <= sinceRead[a] => ~ countPipe[a][i]
        /\ pc \in {"clkCycles", "clkPclk"} => \A i \in 1..CountStages : ~ countPipe[a][i]
        /\ pc = "clkPclk" => ~ moved[a]

\* Types.
Settings == [tag : BOOLEAN, beats : Nat \cup {Unlimited}]
Writes ==
    {w \in [index : Nat, value : Settings \cup {r.emask : r \in Runs}] :
        IsEnable(w) \/ IsDisable(w) \/ (Space(w.index) = "engine" /\ w.value \in Settings)}
Orders(a) == [reset : SUBSET Engines(a), run : SUBSET Engines(a)]
EngineStates == [tag : BOOLEAN, left : Nat \cup {Unlimited}, out : 0..MaxOut]
CountStates == [incr : Int, low : Int, value : Int]
Domains ==
    /\ DOMAIN wire = Accels /\ DOMAIN sinceRead = Accels /\ DOMAIN state = Accels
    /\ DOMAIN holdCnt = Accels /\ DOMAIN stateReset = Accels /\ DOMAIN stateRun = Accels
    /\ DOMAIN runPipe = Accels /\ DOMAIN activePipe = Accels /\ DOMAIN someEnabled = Accels
    /\ DOMAIN countPipe = Accels /\ DOMAIN countReset = Accels /\ DOMAIN moved = Accels
    /\ DOMAIN cfg = Accels /\ DOMAIN eng = Accels /\ DOMAIN counts = Accels
    /\ DOMAIN hiddenPipe = Accels
AccelTypes(a) ==
    /\ wire[a] \in Seq(Writes) /\ sinceRead[a] \in 0..RoundTrip
    /\ state[a] \in {"READY", "HOLD_RESET", "ENG_START"} /\ holdCnt[a] \in 0..HoldCycles
    /\ stateReset[a] \subseteq Engines(a) /\ stateRun[a] \subseteq Engines(a)
    /\ runPipe[a] \in Seq(Orders(a)) /\ Len(runPipe[a]) = RunStages
    /\ activePipe[a] \in Seq(SUBSET Engines(a)) /\ Len(activePipe[a]) = ActiveStages
    /\ hiddenPipe[a] \in Seq(SUBSET Engines(a)) /\ Len(hiddenPipe[a]) = ActiveStages
    /\ countPipe[a] \in Seq(BOOLEAN) /\ Len(countPipe[a]) = CountStages
    /\ someEnabled[a] \in BOOLEAN /\ countReset[a] \in BOOLEAN /\ moved[a] \in BOOLEAN
    /\ cfg[a] \in [Engines(a) -> Settings]
    /\ eng[a] \in [Engines(a) -> EngineStates]
    /\ counts[a] \in [Engines(a) -> CountStates]
ProgramTypes ==
    /\ pc \in Labels /\ run \in Runs /\ at \in DOMAIN run.accels
    /\ tag \in BOOLEAN /\ afuMhz \in BOOLEAN /\ misled \in BOOLEAN
EngTypes == Domains /\ ProgramTypes /\ \A a \in Accels : AccelTypes(a)

-----------------------------------------------------------------------------
\* What the assumptions on an accelerator say, as the proofs use it.
LEMMA Constants ==
    /\ RunStages \in Nat \ {0} /\ ActiveStages \in Nat \ {0} /\ CountStages \in Nat \ {0}
    /\ HoldCycles \in Nat \ {0} /\ MaxOut \in Nat \ {0} /\ RoundTrip \in Nat
    /\ RoundTrip >= RunStages + ActiveStages /\ RoundTrip >= CountStages
    /\ \A a \in Accels : NumEngines[a] \in 1..64 /\ Engines(a) = 0..NumEngines[a] - 1
  BY CsrMgrAssumption DEF CsrMgrAssumption, MAX_NUM_ENGINES, Engines

\* A register that is shifted.
LEMMA Shifted ==
    ASSUME NEW S, NEW p \in Seq(S), NEW x \in S, Len(p) > 0
    PROVE  /\ Shift(x, p) \in Seq(S) /\ Len(Shift(x, p)) = Len(p)
           /\ Shift(x, p)[1] = x
           /\ \A i \in 2..Len(p) : Shift(x, p)[i] = p[i - 1]
  BY DEF Shift

\* What the assumptions on a test say: its accelerators are distinct, and each
\* has a place among them.
LEMMA Runnable ==
    ASSUME NEW r \in Runs
    PROVE  /\ r.kind \in {"regions", "bandwidth"} /\ r.accels \in Seq(Accels)
           /\ Len(r.accels) >= 1 /\ DOMAIN r.accels = 1..Len(r.accels)
           /\ 1 \in DOMAIN r.accels /\ Len(r.accels) \in DOMAIN r.accels
           /\ r.beats \in Nat \cup {Unlimited}
           /\ r.kind = "regions" => Len(r.accels) = 1
           /\ r.kind = "bandwidth" <=> r.beats = Unlimited
           /\ \A i \in DOMAIN r.accels :
                /\ r.accels[i] \in Accels /\ r.accels[i] \in Range(r.accels)
                /\ PlaceOf(r.accels[i], r.accels) = i
           /\ \A a \in Range(r.accels) :
                /\ a \in Accels /\ PlaceOf(a, r.accels) \in DOMAIN r.accels
                /\ r.accels[PlaceOf(a, r.accels)] = a
                /\ Selected(r, PlaceOf(a, r.accels)) \subseteq Engines(a)
<1>1. /\ r.kind \in {"regions", "bandwidth"} /\ r.accels \in Seq(Accels)
      /\ r.accels # <<>> /\ IsInjective(r.accels)
      /\ r.beats \in Nat \cup {Unlimited}
      /\ r.kind = "regions" => Len(r.accels) = 1 /\ r.beats # Unlimited
      /\ r.kind # "regions" => r.beats = Unlimited
  BY EngineRunsAssumption DEF EngineRunsAssumption
<1>2. /\ Len(r.accels) >= 1 /\ DOMAIN r.accels = 1..Len(r.accels)
      /\ 1 \in DOMAIN r.accels /\ Len(r.accels) \in DOMAIN r.accels
      /\ \A i \in DOMAIN r.accels : r.accels[i] \in Accels
  BY <1>1
<1>3. ASSUME NEW i \in DOMAIN r.accels
      PROVE  r.accels[i] \in Range(r.accels) /\ PlaceOf(r.accels[i], r.accels) = i
  BY <1>1 DEF IsInjective, PlaceOf, Range
<1>4. ASSUME NEW a \in Range(r.accels)
      PROVE  PlaceOf(a, r.accels) \in DOMAIN r.accels /\ r.accels[PlaceOf(a, r.accels)] = a
  BY DEF PlaceOf, Range
<1>5. ASSUME NEW a \in Range(r.accels)
      PROVE  Selected(r, PlaceOf(a, r.accels)) \subseteq Engines(a)
  BY <1>4 DEF Selected
<1> QED
  BY <1>1, <1>2, <1>3, <1>4, <1>5
-----------------------------------------------------------------------------
\* The way to the counters: the status that drives them, then the registers.
CountAt(a, i) == IF i = 0 THEN Last(activePipe[a]) # {} ELSE countPipe[a][i]

\* A cycle, for an engine: it requests only when it may, what changes in flight is
\* counted in the next cycle, and a reset makes it take its settings.
EngineTakes(a, e) ==
    /\ eng'[a][e].out \in Nat
    /\ counts'[a][e].incr = eng'[a][e].out - eng[a][e].out
    /\ ~ Asks(a, e) => eng'[a][e].out <= eng[a][e].out
    /\ IF e \in RunAt(a, RunStages).reset
         THEN /\ eng'[a][e].tag = cfg[a][e].tag /\ eng'[a][e].left = cfg[a][e].beats
              /\ counts'[a][e].low = 0 /\ counts'[a][e].value = 0
         ELSE /\ eng'[a][e].tag = eng[a][e].tag
              /\ ~ Asks(a, e) \/ eng[a][e].left = Unlimited => eng'[a][e].left = eng[a][e].left
              /\ counts'[a][e].low = counts[a][e].low + counts[a][e].incr
              /\ counts'[a][e].value = counts[a][e].low

\* A cycle: every register takes the value of the one before it.
TickTakes(a) ==
    /\ wire'[a] = wire[a] /\ cfg'[a] = cfg[a]
    /\ \A k \in 1..RunStages : RunAt(a, k)' = RunAt(a, k - 1)
    /\ \A i \in 1..ActiveStages : ShownAt(a, i)' = ShownAt(a, i - 1)
    /\ \A i \in 1..CountStages : CountAt(a, i)' = CountAt(a, i - 1)
    /\ \A e \in Engines(a) : EngineTakes(a, e)
    /\ sinceRead'[a] = IF sinceRead[a] < RoundTrip THEN sinceRead[a] + 1 ELSE sinceRead[a]
    /\ moved'[a] <=> moved[a] \/ countReset[a] \/ \E i \in 1..CountStages : countPipe[a][i]
    /\ \/ /\ state[a] = "ENG_START" /\ state'[a] = "READY"
          /\ stateRun'[a] = stateRun[a] \cup stateReset[a] /\ stateReset'[a] = {}
          /\ countReset'[a] = countReset[a]
       \/ /\ stateRun'[a] = stateRun[a] /\ stateReset'[a] = stateReset[a]
          /\ \/ state'[a] = state[a] /\ state[a] # "ENG_START" /\ countReset'[a] = countReset[a]
             \/ state[a] = "HOLD_RESET" /\ state'[a] = "ENG_START" /\ countReset'[a] = FALSE

\* The cycle of one engine does what EngineTakes says, and keeps its types.
LEMMA EngineEffect ==
    ASSUME NEW a \in Accels, EngTypes, NEW e \in Engines(a),
           NEW asked \in SUBSET Asking(a), NEW answered \in SUBSET Waiting(a),
           Cycle(a, asked, answered)
    PROVE  EngineTakes(a, e) /\ eng'[a][e] \in EngineStates /\ counts'[a][e] \in CountStates
<1> DEFINE en == eng[a][e]
           c == counts[a][e]
           d == Change(e, asked, answered)
           reset == e \in RunAt(a, RunStages).reset
<1>1. Domains /\ AccelTypes(a)
  BY DEF EngTypes
<1>2. MaxOut \in Nat /\ RunStages \in Nat \ {0}
  BY Constants
<1>3. Last(runPipe[a]) = RunAt(a, RunStages)
  BY <1>1, <1>2 DEF AccelTypes, Last, RunAt
<1>4. /\ en.tag \in BOOLEAN /\ en.left \in Nat \cup {Unlimited} /\ en.out \in 0..MaxOut
      /\ c.incr \in Int /\ c.low \in Int /\ c.value \in Int
      /\ cfg[a][e].tag \in BOOLEAN /\ cfg[a][e].beats \in Nat \cup {Unlimited}
  BY <1>1 DEF AccelTypes, EngineStates, CountStates, Settings
<1>5. /\ eng'[a][e] = Engine(a, e, asked, answered)
      /\ counts'[a][e] = Counters(a, e, asked, answered)
  BY <1>1 DEF Cycle, Domains
<1>6. (e \in asked => Asks(a, e) /\ en.out < MaxOut) /\ (e \in answered => en.out > 0)
  BY <1>3 DEF Asking, Waiting, Asks
<1>7. /\ d \in {-1, 0, 1} /\ (d = 1 => e \in asked) /\ (d = -1 => e \in answered)
  BY DEF Change
<1>8. /\ eng'[a][e].tag = (IF reset THEN cfg[a][e].tag ELSE en.tag)
      /\ eng'[a][e].left = (IF reset THEN cfg[a][e].beats
                            ELSE IF e \in asked /\ en.left # Unlimited THEN en.left - 1 ELSE en.left)
      /\ eng'[a][e].out = en.out + d
      /\ eng'[a][e] = [tag |-> eng'[a][e].tag, left |-> eng'[a][e].left, out |-> eng'[a][e].out]
  BY <1>3, <1>5 DEF Engine
<1>9. /\ counts'[a][e].incr = d
      /\ counts'[a][e].low = (IF reset THEN 0 ELSE c.low + c.incr)
      /\ counts'[a][e].value = (IF reset THEN 0 ELSE c.low)
      /\ counts'[a][e] = [incr |-> counts'[a][e].incr, low |-> counts'[a][e].low,
                          value |-> counts'[a][e].value]
  BY <1>3, <1>5 DEF Counters
<1> HIDE DEF en, c, d, reset
<1>10. en.out + d \in 0..MaxOut /\ (en.out + d) - en.out = d
  BY <1>2, <1>4, <1>6, <1>7
<1>11. eng'[a][e].left \in Nat \cup {Unlimited}
  <2>1. e \in asked => en.left # 0
    BY <1>6 DEF Asks, en
  <2> QED
    BY <1>4, <1>8, <2>1 DEF Unlimited
<1>12. eng'[a][e] \in EngineStates /\ counts'[a][e] \in CountStates
  <2>1. eng'[a][e].tag \in BOOLEAN /\ eng'[a][e].out \in 0..MaxOut
    BY <1>4, <1>8, <1>10
  <2>2. counts'[a][e].incr \in Int /\ counts'[a][e].low \in Int /\ counts'[a][e].value \in Int
    BY <1>4, <1>7, <1>9
  <2> QED
    BY <1>8, <1>9, <1>11, <2>1, <2>2 DEF EngineStates, CountStates
<1>13. ~ Asks(a, e) => en.out + d <= en.out
  BY <1>2, <1>4, <1>6, <1>7
<1>14. ~ reset => (~ Asks(a, e) \/ en.left = Unlimited => eng'[a][e].left = en.left)
  BY <1>6, <1>8
<1>15. eng'[a][e].out \in Nat /\ counts'[a][e].incr = eng'[a][e].out - en.out
  BY <1>2, <1>8, <1>9, <1>10
<1> QED
  BY <1>8, <1>9, <1>12, <1>13, <1>14, <1>15 DEF EngineTakes, en, c, reset

\* A cycle of an accelerator does what TickTakes says, and keeps the types.
LEMMA TickEffect ==
    ASSUME NEW a \in Accels, EngTypes, Tick(a)
    PROVE  TickTakes(a) /\ AccelTypes(a)'
<1>0. /\ RunStages \in Nat \ {0} /\ ActiveStages \in Nat \ {0} /\ CountStages \in Nat \ {0}
      /\ RoundTrip \in Nat /\ HoldCycles \in Nat
  BY Constants
<1>1. Domains /\ AccelTypes(a)
  BY DEF EngTypes
<1>2. Busy(a) \in SUBSET Engines(a)
  BY DEF Busy
<1>16. Late(a) \in SUBSET Engines(a)
  BY DEF Late
<1>3. /\ runPipe'[a] = Shift(RunAt(a, 0), runPipe[a])
      /\ activePipe'[a] = Shift(Busy(a), activePipe[a])
      /\ hiddenPipe'[a] = Shift(Late(a), hiddenPipe[a])
      /\ countPipe'[a] = Shift(CountAt(a, 0), countPipe[a])
  <2> PICK asked \in SUBSET Asking(a), answered \in SUBSET Waiting(a) : Cycle(a, asked, answered)
    BY DEF Tick
  <2> QED
    BY <1>1 DEF Domains, Cycle, Busy, Late, RunAt, CountAt
<1>4. \/ /\ state[a] = "ENG_START" /\ state'[a] = "READY"
         /\ stateRun'[a] = stateRun[a] \cup stateReset[a] /\ stateReset'[a] = {}
         /\ countReset'[a] = countReset[a] /\ holdCnt'[a] = holdCnt[a]
      \/ /\ stateRun'[a] = stateRun[a] /\ stateReset'[a] = stateReset[a]
         /\ \/ /\ state'[a] = state[a] /\ state[a] # "ENG_START" /\ countReset'[a] = countReset[a]
               /\ \/ holdCnt'[a] = holdCnt[a]
                  \/ holdCnt[a] < HoldCycles /\ holdCnt'[a] = holdCnt[a] + 1
            \/ /\ state[a] = "HOLD_RESET" /\ state'[a] = "ENG_START" /\ countReset'[a] = FALSE
               /\ holdCnt'[a] = 0
  <2> PICK asked \in SUBSET Asking(a), answered \in SUBSET Waiting(a) : Cycle(a, asked, answered)
    BY DEF Tick
  <2> QED
    BY <1>1 DEF Domains, Cycle, StateMachine, AccelTypes
<1>5. Last(runPipe[a]) = RunAt(a, RunStages) /\ DOMAIN countPipe[a] = 1..CountStages
  BY <1>0, <1>1 DEF AccelTypes, Last, RunAt
<1>6. /\ runPipe'[a] \in Seq(Orders(a)) /\ Len(runPipe'[a]) = RunStages
      /\ runPipe'[a][1] = RunAt(a, 0)
      /\ \A k \in 2..RunStages : runPipe'[a][k] = runPipe[a][k - 1]
  <2>1. RunAt(a, 0) \in Orders(a)
    BY <1>1 DEF AccelTypes, Orders, RunAt
  <2>2. runPipe[a] \in Seq(Orders(a)) /\ Len(runPipe[a]) = RunStages
    BY <1>1 DEF AccelTypes
  <2>8. Len(runPipe[a]) > 0 /\ Len(runPipe[a]) = RunStages
    BY <1>0, <2>2
  <2>9. /\ Shift(RunAt(a, 0), runPipe[a]) \in Seq(Orders(a))
        /\ Len(Shift(RunAt(a, 0), runPipe[a])) = Len(runPipe[a])
        /\ Shift(RunAt(a, 0), runPipe[a])[1] = RunAt(a, 0)
    BY <2>1, <2>2, <2>8, Shifted
  <2>10. \A i \in 2..Len(runPipe[a]) : Shift(RunAt(a, 0), runPipe[a])[i] = runPipe[a][i - 1]
    BY <2>1, <2>2, <2>8 DEF Shift
  <2> QED
    BY <1>3, <2>8, <2>9, <2>10
<1>7. /\ activePipe'[a] \in Seq(SUBSET Engines(a)) /\ Len(activePipe'[a]) = ActiveStages
      /\ activePipe'[a][1] = Busy(a)
      /\ \A k \in 2..ActiveStages : activePipe'[a][k] = activePipe[a][k - 1]
  <2> DEFINE S == SUBSET Engines(a)
  <2>1. activePipe[a] \in Seq(S) /\ Len(activePipe[a]) = ActiveStages
    BY <1>1 DEF AccelTypes
  <2>2. Busy(a) \in S
    BY <1>2
  <2>8. Len(activePipe[a]) > 0 /\ Len(activePipe[a]) = ActiveStages
    BY <1>0, <2>1
  <2> HIDE DEF S
  <2>9. /\ Shift(Busy(a), activePipe[a]) \in Seq(S)
        /\ Len(Shift(Busy(a), activePipe[a])) = Len(activePipe[a])
        /\ Shift(Busy(a), activePipe[a])[1] = Busy(a)
    BY <2>1, <2>2, <2>8, Shifted
  <2> USE DEF S
  <2>10. \A i \in 2..Len(activePipe[a]) : Shift(Busy(a), activePipe[a])[i] = activePipe[a][i - 1]
    BY <1>2, <2>1, <2>8 DEF Shift
  <2> QED
    BY <1>3, <2>8, <2>9, <2>10
<1>8. /\ countPipe'[a] \in Seq(BOOLEAN) /\ Len(countPipe'[a]) = CountStages
      /\ countPipe'[a][1] = CountAt(a, 0)
      /\ \A k \in 2..CountStages : countPipe'[a][k] = countPipe[a][k - 1]
  <2>1. countPipe[a] \in Seq(BOOLEAN) /\ Len(countPipe[a]) = CountStages
    BY <1>1 DEF AccelTypes
  <2>2. CountAt(a, 0) \in BOOLEAN
    BY DEF CountAt
  <2>8. Len(countPipe[a]) > 0 /\ Len(countPipe[a]) = CountStages
    BY <1>0, <2>1
  <2>9. /\ Shift(CountAt(a, 0), countPipe[a]) \in Seq(BOOLEAN)
        /\ Len(Shift(CountAt(a, 0), countPipe[a])) = Len(countPipe[a])
        /\ Shift(CountAt(a, 0), countPipe[a])[1] = CountAt(a, 0)
    BY <2>1, <2>2, <2>8, Shifted
  <2>10. \A i \in 2..Len(countPipe[a]) : Shift(CountAt(a, 0), countPipe[a])[i] = countPipe[a][i - 1]
    BY <2>1, <2>2, <2>8 DEF Shift
  <2> QED
    BY <1>3, <2>8, <2>9, <2>10
<1>9. /\ hiddenPipe'[a] \in Seq(SUBSET Engines(a)) /\ Len(hiddenPipe'[a]) = ActiveStages
      /\ hiddenPipe'[a][1] = Late(a)
      /\ \A k \in 2..ActiveStages : hiddenPipe'[a][k] = hiddenPipe[a][k - 1]
  <2> DEFINE S == SUBSET Engines(a)
  <2>1. hiddenPipe[a] \in Seq(S) /\ Len(hiddenPipe[a]) = ActiveStages
    BY <1>1 DEF AccelTypes
  <2>2. Late(a) \in S
    BY <1>16
  <2>8. Len(hiddenPipe[a]) > 0 /\ Len(hiddenPipe[a]) = ActiveStages
    BY <1>0, <2>1
  <2> HIDE DEF S
  <2>9. /\ Shift(Late(a), hiddenPipe[a]) \in Seq(S)
        /\ Len(Shift(Late(a), hiddenPipe[a])) = Len(hiddenPipe[a])
        /\ Shift(Late(a), hiddenPipe[a])[1] = Late(a)
    BY <2>1, <2>2, <2>8, Shifted
  <2> USE DEF S
  <2>10. \A i \in 2..Len(hiddenPipe[a]) : Shift(Late(a), hiddenPipe[a])[i] = hiddenPipe[a][i - 1]
    BY <1>16, <2>1, <2>8 DEF Shift
  <2> QED
    BY <1>3, <2>8, <2>9, <2>10
<1>10. /\ \A e \in Engines(a) : EngineTakes(a, e)
       /\ eng'[a] \in [Engines(a) -> EngineStates] /\ counts'[a] \in [Engines(a) -> CountStates]
  <2> PICK asked \in SUBSET Asking(a), answered \in SUBSET Waiting(a) : Cycle(a, asked, answered)
    BY DEF Tick
  <2>1. ASSUME NEW e \in Engines(a)
        PROVE  EngineTakes(a, e) /\ eng'[a][e] \in EngineStates /\ counts'[a][e] \in CountStates
    BY <2>1, EngineEffect
  <2>2. /\ eng'[a] = [e \in Engines(a) |-> Engine(a, e, asked, answered)]
        /\ counts'[a] = [e \in Engines(a) |-> Counters(a, e, asked, answered)]
    BY <1>1 DEF Cycle, Domains
  <2> QED
    BY <2>1, <2>2
<1>11. /\ wire'[a] = wire[a] /\ cfg'[a] = cfg[a]
       /\ sinceRead'[a] = IF sinceRead[a] < RoundTrip THEN sinceRead[a] + 1 ELSE sinceRead[a]
       /\ someEnabled'[a] = (stateRun[a] # {})
       /\ moved'[a] = (moved[a] \/ countReset[a] \/ \E i \in 1..CountStages : countPipe[a][i])
  <2> PICK asked \in SUBSET Asking(a), answered \in SUBSET Waiting(a) : Cycle(a, asked, answered)
    BY DEF Tick
  <2> QED
    BY <1>1, <1>5 DEF Domains, Cycle
<1>12. AccelTypes(a)'
  <2>1. stateReset'[a] \subseteq Engines(a) /\ stateRun'[a] \subseteq Engines(a)
    BY <1>1, <1>4 DEF AccelTypes
  <2>2. /\ state[a] \in {"READY", "HOLD_RESET", "ENG_START"} /\ countReset[a] \in BOOLEAN
        /\ holdCnt[a] \in 0..HoldCycles /\ sinceRead[a] \in 0..RoundTrip
        /\ moved[a] \in BOOLEAN
    BY <1>1 DEF AccelTypes
  <2>3. state'[a] \in {"READY", "HOLD_RESET", "ENG_START"} /\ countReset'[a] \in BOOLEAN
    BY <1>4, <2>2
  <2>4. holdCnt'[a] \in 0..HoldCycles
    BY <1>0, <1>4, <2>2
  <2>5. sinceRead'[a] \in 0..RoundTrip
    BY <1>0, <1>11, <2>2
  <2>6. someEnabled'[a] \in BOOLEAN /\ moved'[a] \in BOOLEAN
    BY <1>11
  <2>7. wire'[a] \in Seq(Writes) /\ cfg'[a] \in [Engines(a) -> Settings]
    BY <1>1, <1>11 DEF AccelTypes
  <2> QED
    BY <1>6, <1>7, <1>8, <1>9, <1>10, <2>1, <2>3, <2>4, <2>5, <2>6, <2>7
    DEF AccelTypes, Orders, Engines, Writes, EngineStates, CountStates
<1>13. \A k \in 1..RunStages : RunAt(a, k)' = RunAt(a, k - 1)
  BY <1>6 DEF RunAt
<1>14. \A i \in 1..ActiveStages : ShownAt(a, i)' = ShownAt(a, i - 1)
  <2>1. ASSUME NEW i \in 2..ActiveStages PROVE ShownAt(a, i)' = ShownAt(a, i - 1)
    <3>1. i # 0 /\ i - 1 # 0 /\ i \in 2..ActiveStages
      BY <1>0
    <3>2. activePipe'[a][i] = activePipe[a][i - 1] /\ hiddenPipe'[a][i] = hiddenPipe[a][i - 1]
      BY <1>7, <1>9, <3>1
    <3> QED
      BY <3>1, <3>2 DEF ShownAt
  <2>2. ShownAt(a, 1)' = ShownAt(a, 0)
    BY <1>7, <1>9 DEF ShownAt
  <2>3. \A i \in 1..ActiveStages : i \in 2..ActiveStages \/ (i = 1 /\ i - 1 = 0)
    BY <1>0
  <2> QED
    BY <2>1, <2>2, <2>3
<1>15. \A i \in 1..CountStages : CountAt(a, i)' = CountAt(a, i - 1)
  BY <1>8 DEF CountAt
<1> QED
  BY <1>4, <1>10, <1>11, <1>12, <1>13, <1>14, <1>15 DEF TickTakes

Local(a) == <<wire[a], sinceRead[a], state[a], holdCnt[a], stateReset[a], stateRun[a], runPipe[a],
              activePipe[a], someEnabled[a], countPipe[a], countReset[a], moved[a], cfg[a], eng[a],
              counts[a], hiddenPipe[a]>>

\* What happens to one accelerator leaves the others alone.
LEMMA Elsewhere ==
    ASSUME EngTypes, NEW a \in Accels, Hardware(a)
    PROVE  Domains' /\ \A b \in Accels \ {a} : Local(b)' = Local(b)
<1>1. Domains
  BY DEF EngTypes
<1>2. CASE WriteArrives(a)
  BY <1>1, <1>2 DEF Domains, WriteArrives, Enable, Disable, Configure, Local
<1>3. CASE Tick(a)
  BY <1>1, <1>3 DEF Domains, Tick, Cycle, StateMachine, Local
<1> QED
  BY <1>2, <1>3 DEF Hardware

\* A write arrives: a command is taken if the state machine is idle.
WriteTakes(a) ==
    LET w == Head(wire[a])
    IN  /\ wire[a] # <<>> /\ wire'[a] = Tail(wire[a]) /\ w \in Writes
        /\ sinceRead'[a] = sinceRead[a] /\ eng'[a] = eng[a] /\ moved'[a] = moved[a]
        /\ counts'[a] = counts[a] /\ hiddenPipe'[a] = hiddenPipe[a]
        /\ runPipe'[a] = runPipe[a] /\ activePipe'[a] = activePipe[a]
        /\ countPipe'[a] = countPipe[a]
        /\ state[a] = "READY" =>
             \/ /\ IsEnable(w) /\ state'[a] = "HOLD_RESET" /\ cfg'[a] = cfg[a]
                /\ stateReset'[a] = stateReset[a] \cup Commanded(a, w.value)
                /\ stateRun'[a] = stateRun[a]
             \/ /\ IsDisable(w) /\ state'[a] = state[a] /\ cfg'[a] = cfg[a]
                /\ stateReset'[a] = stateReset[a] /\ countReset'[a] = countReset[a]
                /\ stateRun'[a] = stateRun[a] \ w.value
             \/ /\ Space(w.index) = "engine" /\ state'[a] = state[a]
                /\ stateReset'[a] = stateReset[a] /\ countReset'[a] = countReset[a]
                /\ stateRun'[a] = stateRun[a]
                /\ \A e \in Engines(a) :
                     cfg'[a][e] = IF e = EngineOf(w.index) THEN w.value ELSE cfg[a][e]

\* A CSR write that arrives does what WriteTakes says, and keeps the types.
LEMMA WriteEffect ==
    ASSUME NEW a \in Accels, EngTypes, WriteArrives(a)
    PROVE  WriteTakes(a) /\ AccelTypes(a)'
<1> DEFINE w == Head(wire[a])
<1>1. Domains /\ AccelTypes(a)
  BY DEF EngTypes
<1>2. wire[a] # <<>> /\ wire[a] \in Seq(Writes) /\ wire'[a] = Tail(wire[a])
  BY <1>1 DEF AccelTypes, Domains, WriteArrives
<1>3. w \in Writes /\ wire'[a] \in Seq(Writes)
  BY <1>2
<1>4. /\ sinceRead'[a] = sinceRead[a] /\ eng'[a] = eng[a] /\ moved'[a] = moved[a]
      /\ counts'[a] = counts[a] /\ hiddenPipe'[a] = hiddenPipe[a]
      /\ runPipe'[a] = runPipe[a] /\ activePipe'[a] = activePipe[a]
      /\ countPipe'[a] = countPipe[a] /\ someEnabled'[a] = someEnabled[a]
  BY DEF WriteArrives
<1>5. CASE IsCommand(w) /\ state[a] # "READY"
  <2>1. /\ state' = state /\ holdCnt' = holdCnt /\ stateReset' = stateReset
        /\ stateRun' = stateRun /\ countReset' = countReset /\ cfg' = cfg
    BY <1>5 DEF WriteArrives
  <2> QED
    BY <1>1, <1>2, <1>3, <1>4, <1>5, <2>1
    DEF AccelTypes, Engines, Writes, Orders, EngineStates, CountStates, WriteTakes
<1>6. CASE ~ (IsCommand(w) /\ state[a] # "READY")
  <2>1. CASE IsEnable(w) /\ Enable(a, w.value)
    <3>1. /\ state'[a] = "HOLD_RESET" /\ cfg'[a] = cfg[a] /\ holdCnt'[a] = 1
          /\ stateReset'[a] = stateReset[a] \cup Commanded(a, w.value)
          /\ stateRun'[a] = stateRun[a]
          /\ countReset'[a] = (countReset[a] \/ ~ someEnabled[a])
      BY <1>1, <2>1 DEF Enable, Domains
    <3>2. holdCnt'[a] \in 0..HoldCycles /\ stateReset'[a] \subseteq Engines(a)
      BY <1>1, <3>1, Constants DEF AccelTypes, Commanded
    <3> QED
      BY <1>1, <1>2, <1>3, <1>4, <2>1, <3>1, <3>2
      DEF AccelTypes, Engines, Writes, Orders, EngineStates, CountStates, WriteTakes
  <2>2. CASE IsDisable(w) /\ Disable(a, w.value)
    <3>1. /\ state'[a] = state[a] /\ cfg'[a] = cfg[a] /\ holdCnt'[a] = holdCnt[a]
          /\ stateReset'[a] = stateReset[a] /\ countReset'[a] = countReset[a]
          /\ stateRun'[a] = stateRun[a] \ w.value
      BY <1>1, <2>2 DEF Disable, Domains
    <3> QED
      BY <1>1, <1>2, <1>3, <1>4, <2>2, <3>1
      DEF AccelTypes, Engines, Writes, Orders, EngineStates, CountStates, WriteTakes
  <2>3. CASE Space(w.index) = "engine" /\ Configure(a, w)
    <3>1. /\ state'[a] = state[a] /\ holdCnt'[a] = holdCnt[a]
          /\ stateReset'[a] = stateReset[a] /\ countReset'[a] = countReset[a]
          /\ stateRun'[a] = stateRun[a]
      BY <1>1, <2>3 DEF Configure
    <3>2. w.value \in Settings
      BY <1>3, <2>3 DEF Writes, IsEnable, IsDisable, IsCommand
    <3>3. cfg[a] \in [Engines(a) -> Settings] /\ DOMAIN cfg = Accels
      BY <1>1 DEF AccelTypes, Domains
    <3>4. /\ cfg'[a] \in [Engines(a) -> Settings]
          /\ \A e \in Engines(a) :
               cfg'[a][e] = IF e = EngineOf(w.index) THEN w.value ELSE cfg[a][e]
      <4>1. CASE EngineOf(w.index) \in Engines(a)
        BY <2>3, <3>2, <3>3, <4>1 DEF Configure
      <4>2. CASE EngineOf(w.index) \notin Engines(a)
        BY <2>3, <3>2, <3>3, <4>2 DEF Configure
      <4> QED
        BY <4>1, <4>2
    <3> QED
      BY <1>1, <1>2, <1>3, <1>4, <2>3, <3>1, <3>4
      DEF AccelTypes, Engines, Writes, Orders, EngineStates, CountStates, WriteTakes
  <2> QED
    BY <1>6, <2>1, <2>2, <2>3 DEF WriteArrives
<1> QED
  BY <1>5, <1>6

-----------------------------------------------------------------------------
\* Only engines that exist are in a mask, at whatever register it is.
LEMMA StageTypes ==
    ASSUME NEW a \in Accels, AccelTypes(a)
    PROVE  /\ \A k \in Stages : RunAt(a, k).reset \subseteq Engines(a)
                                /\ RunAt(a, k).run \subseteq Engines(a)
           /\ \A i \in 0..ActiveStages : ShownAt(a, i) \subseteq Engines(a)
<1>1. \A k \in 1..RunStages : runPipe[a][k] \in Orders(a)
  BY DEF AccelTypes
<1>2. \A i \in 1..ActiveStages : /\ activePipe[a][i] \in SUBSET Engines(a)
                                 /\ hiddenPipe[a][i] \in SUBSET Engines(a)
  BY DEF AccelTypes
<1>3. stateReset[a] \subseteq Engines(a) /\ stateRun[a] \subseteq Engines(a)
  BY DEF AccelTypes
<1> QED
  BY <1>1, <1>2, <1>3, Constants DEF Stages, RunAt, ShownAt, Busy, Late, Orders

\* What a cycle does, as the invariants of the stages see it.
LEMMA TickStages ==
    ASSUME NEW a \in Accels, AccelTypes(a), TickTakes(a)
    PROVE  /\ \A k \in 1..RunStages : k - 1 \in Stages /\ k \in Stages
                                      /\ RunAt(a, k)' = RunAt(a, k - 1)
           /\ 0 \in Stages /\ RunStages \in Stages /\ RunStages \in 1..RunStages
           /\ \A k \in Stages : k = 0 \/ k \in 1..RunStages
           /\ \A e \in Engines(a) : Still(a, e) /\ ~ Asks(a, e) => Still(a, e)'
           /\ \A e \in Engines(a) \ RunAt(a, RunStages).reset :
                /\ eng'[a][e].tag = eng[a][e].tag
                /\ ~ Asks(a, e) \/ eng[a][e].left = Unlimited => eng'[a][e].left = eng[a][e].left
           /\ \A e \in Engines(a) \cap RunAt(a, RunStages).reset :
                eng'[a][e].tag = cfg[a][e].tag /\ eng'[a][e].left = cfg[a][e].beats
           /\ \/ /\ state[a] = "ENG_START" /\ RunAt(a, 0)'.reset = {}
                 /\ RunAt(a, 0)'.run = RunAt(a, 0).run \cup RunAt(a, 0).reset
              \/ state[a] # "ENG_START" /\ RunAt(a, 0)' = RunAt(a, 0)
<1>1. RunStages \in Nat \ {0}
  BY Constants
<1>2. \/ /\ state[a] = "ENG_START" /\ RunAt(a, 0)'.reset = {}
         /\ RunAt(a, 0)'.run = RunAt(a, 0).run \cup RunAt(a, 0).reset
      \/ state[a] # "ENG_START" /\ RunAt(a, 0)' = RunAt(a, 0)
  BY DEF TickTakes, RunAt
<1>3. /\ \A k \in 1..RunStages : RunAt(a, k)' = RunAt(a, k - 1)
      /\ \A e \in Engines(a) : EngineTakes(a, e)
  BY DEF TickTakes
<1>4. /\ \A k \in 1..RunStages : k - 1 \in Stages /\ k \in Stages
      /\ 0 \in Stages /\ RunStages \in Stages /\ RunStages \in 1..RunStages
      /\ \A k \in Stages : k = 0 \/ k \in 1..RunStages
  BY <1>1 DEF Stages
<1>5. \A e \in Engines(a) \ RunAt(a, RunStages).reset :
        /\ eng'[a][e].tag = eng[a][e].tag
        /\ ~ Asks(a, e) \/ eng[a][e].left = Unlimited => eng'[a][e].left = eng[a][e].left
  BY <1>3 DEF EngineTakes
<1>6. \A e \in Engines(a) \cap RunAt(a, RunStages).reset :
        eng'[a][e].tag = cfg[a][e].tag /\ eng'[a][e].left = cfg[a][e].beats
  BY <1>3 DEF EngineTakes
<1>7. ASSUME NEW e \in Engines(a), Still(a, e), ~ Asks(a, e) PROVE Still(a, e)'
  <2>1. eng'[a][e].out \in Nat /\ eng'[a][e].out <= 0 /\ counts'[a][e].incr = eng'[a][e].out - 0
    BY <1>3, <1>7 DEF EngineTakes, Still
  <2>2. counts'[a][e].low = 0 /\ counts'[a][e].value = 0
    BY <1>3, <1>7 DEF EngineTakes, Still
  <2>3. eng'[a][e].out = 0 /\ counts'[a][e].incr = 0
    BY <2>1
  <2> QED
    BY <2>2, <2>3 DEF Still
<1>8. \A k \in 1..RunStages : RunAt(a, k)' = RunAt(a, k - 1)
  BY <1>3
<1> QED
  BY <1>2, <1>4, <1>5, <1>6, <1>7, <1>8

\* Resets stay safe at a cycle.
LEMMA SafeTick ==
    ASSUME NEW a \in Accels, AccelTypes(a), TickTakes(a), ResetsAreSafe(a)
    PROVE  ResetsAreSafe(a)'
<1> DEFINE reset(k) == RunAt(a, k).reset
           Old(j) == \A k \in j..RunStages :
                       /\ \A e \in RunAt(a, k).run : eng'[a][e].left = 0
                       /\ \A l \in k..RunStages : RunAt(a, l).reset # {} => RunAt(a, k).run = {}
<1>0. RunStages \in Nat \ {0}
  BY Constants
<1>1. ASSUME NEW j \in Stages, reset(j) # {}
      PROVE  Old(j) /\ \A e \in Engines(a) : Still(a, e)'
  <2>1. RunStages \in Stages /\ RunStages \in j..RunStages /\ RunStages \in RunStages..RunStages
    BY <1>0 DEF Stages
  <2>2. \A e \in Engines(a) : Still(a, e) /\ ~ Asks(a, e)
    BY <1>1, <2>1 DEF ResetsAreSafe, Asks
  <2>4. \A e \in Engines(a) : Still(a, e)'
    BY <2>2, TickStages
  <2>5. ASSUME NEW k \in j..RunStages, NEW e \in RunAt(a, k).run
        PROVE  eng'[a][e].left = 0
    <3>1. k \in Stages /\ e \in Engines(a) /\ RunStages \in k..RunStages
      BY <1>0, <2>5, StageTypes DEF Stages
    <3>2. RunAt(a, RunStages).reset = {} /\ eng[a][e].left = 0
      BY <1>1, <2>5, <3>1 DEF ResetsAreSafe
    <3> QED
      BY <2>2, <3>1, <3>2, TickStages
  <2>3. ASSUME NEW k \in j..RunStages, NEW l \in k..RunStages, RunAt(a, l).reset # {}
        PROVE  RunAt(a, k).run = {}
    BY <1>1, <2>3 DEF ResetsAreSafe
  <2> QED
    BY <2>3, <2>4, <2>5
<1>2. ASSUME NEW j \in Stages, RunAt(a, j)'.reset # {}
      PROVE  /\ \A e \in Engines(a) : Still(a, e)'
             /\ \A k \in j..RunStages :
                  /\ \A e \in RunAt(a, k)'.run : eng'[a][e].left = 0
                  /\ \A l \in k..RunStages : RunAt(a, l)'.reset # {} => RunAt(a, k)'.run = {}
  <2>1. CASE j # 0
    <3>1. j - 1 \in Stages /\ reset(j - 1) # {}
      BY <1>2, <2>1, TickStages
    <3>2. Old(j - 1) /\ \A e \in Engines(a) : Still(a, e)'
      BY <1>1, <3>1
    <3>3. ASSUME NEW k \in j..RunStages
          PROVE  k - 1 \in (j - 1)..RunStages /\ RunAt(a, k)' = RunAt(a, k - 1)
      BY <1>0, <2>1, TickStages DEF Stages
    <3>4. ASSUME NEW k \in j..RunStages, NEW l \in k..RunStages
          PROVE  l - 1 \in (k - 1)..RunStages /\ RunAt(a, l)' = RunAt(a, l - 1)
      BY <1>0, <2>1, TickStages DEF Stages
    <3> QED
      BY <3>2, <3>3, <3>4
  <2>2. CASE j = 0
    <3>1. reset(0) # {} /\ RunAt(a, 0)' = RunAt(a, 0)
      BY <1>2, <2>2, TickStages
    <3>2. Old(0) /\ \A e \in Engines(a) : Still(a, e)'
      BY <1>1, <2>2, <3>1
    <3>3. RunAt(a, 0).run = {}
      BY <1>0, <3>1, <3>2
    <3>4. ASSUME NEW k \in 1..RunStages
          PROVE  k - 1 \in 0..RunStages /\ RunAt(a, k)' = RunAt(a, k - 1)
      BY <1>0, TickStages
    <3>5. ASSUME NEW k \in 1..RunStages, NEW l \in k..RunStages
          PROVE  l - 1 \in (k - 1)..RunStages /\ RunAt(a, l)' = RunAt(a, l - 1)
      BY <1>0, TickStages
    <3>6. ASSUME NEW k \in 1..RunStages
          PROVE  /\ \A e \in RunAt(a, k)'.run : eng'[a][e].left = 0
                 /\ \A l \in k..RunStages : RunAt(a, l)'.reset # {} => RunAt(a, k)'.run = {}
      BY <3>2, <3>4, <3>5
    <3>7. \A k \in 0..RunStages : k = 0 \/ k \in 1..RunStages
      BY <1>0
    <3> QED
      BY <2>2, <3>1, <3>2, <3>3, <3>6, <3>7
  <2> QED
    BY <2>1, <2>2
<1> QED
  BY <1>2 DEF ResetsAreSafe, Stages, Engines

\* A command that arrives at the right time is safe: one that starts engines finds
\* them dead, and the resets that it orders are the only ones.
LEMMA SafeWrite ==
    ASSUME NEW a \in Accels, AccelTypes(a), WriteTakes(a), state[a] = "READY",
           \A k \in Stages : RunAt(a, k).reset = {},
           IsEnable(Head(wire[a])) => Dead(a) /\ stateRun[a] = {}
    PROVE  ResetsAreSafe(a)'
<1>0. RunStages \in Nat \ {0} /\ 0 \in Stages
  BY Constants DEF Stages
<1>1. \A k \in Stages : k # 0 => RunAt(a, k)' = RunAt(a, k)
  BY DEF WriteTakes, RunAt
<1>2. eng'[a] = eng[a] /\ counts'[a] = counts[a]
  BY DEF WriteTakes
<1>3. CASE IsEnable(Head(wire[a]))
  <2>1. RunAt(a, 0)'.run = {}
    BY <1>3 DEF WriteTakes, RunAt, IsEnable, IsDisable, IsCommand
  <2>2. \A k \in Stages : \A e \in RunAt(a, k)'.run : eng'[a][e].left = 0
    BY <1>0, <1>1, <1>2, <1>3, <2>1 DEF Dead
  <2>3. \A e \in Engines(a) : Still(a, e)'
    BY <1>2, <1>3 DEF Dead, Still
  <2>4. \A j \in Stages : RunAt(a, j)'.reset # {} => j = 0
    BY <1>1
  <2>5. ASSUME NEW j \in Stages, RunAt(a, j)'.reset # {}, NEW k \in j..RunStages,
               NEW l \in k..RunStages, RunAt(a, l)'.reset # {}
        PROVE  RunAt(a, k)'.run = {}
    <3>1. l \in Stages /\ k \in Stages
      BY <1>0 DEF Stages
    <3>2. l = 0 /\ k = 0
      BY <1>0, <2>4, <2>5, <3>1 DEF Stages
    <3> QED
      BY <2>1, <3>2
  <2>6. \A j \in Stages : \A k \in j..RunStages : k \in Stages
    BY <1>0 DEF Stages
  <2> QED
    BY <2>2, <2>3, <2>5, <2>6 DEF ResetsAreSafe, Stages, Engines
<1>4. CASE ~ IsEnable(Head(wire[a]))
  <2>1. RunAt(a, 0)'.reset = RunAt(a, 0).reset
    BY <1>4 DEF WriteTakes, RunAt
  <2>2. \A k \in Stages : RunAt(a, k)'.reset = {}
    BY <1>0, <1>1, <2>1
  <2> QED
    BY <2>2 DEF ResetsAreSafe, Stages
<1> QED
  BY <1>3, <1>4

-----------------------------------------------------------------------------
\* While the program does nothing, what it is after stays the same.
LEMMA SameRun ==
    ASSUME NEW a \in Accels, UNCHANGED swVars
    PROVE  /\ pc' = pc /\ run' = run /\ at' = at /\ tag' = tag
           /\ Mask(a)' = Mask(a) /\ Chosen(a)' = Chosen(a) /\ Value' = Value
           /\ EnableWrite' = EnableWrite /\ DisableWrite' = DisableWrite
           /\ \A e \in Chosen(a) : ConfigWrite(e)' = ConfigWrite(e)
  BY DEF swVars, Mask, Commanded, Chosen, Value, EnableWrite, DisableWrite, ConfigWrite, Engines,
         Selected


\* The writes of a program are those it means.
LEMMA Meant ==
    /\ IsEnable(EnableWrite) /\ ~ IsDisable(EnableWrite) /\ Space(EnableWrite.index) # "engine"
    /\ IsDisable(DisableWrite) /\ ~ IsEnable(DisableWrite) /\ Space(DisableWrite.index) # "engine"
    /\ EnableWrite.value = run.emask /\ DisableWrite.value = run.emask
    /\ \A a \in Accels : \A e \in Engines(a) :
         /\ Space(ConfigWrite(e).index) = "engine" /\ EngineOf(ConfigWrite(e).index) = e
         /\ ConfigWrite(e).value = Value /\ ConfigWrite(e).index \in Nat
         /\ csrEngWrite(e, 2, Value) = <<ConfigWrite(e)>>
         /\ ~ IsEnable(ConfigWrite(e)) /\ ~ IsDisable(ConfigWrite(e))
<1>1. ASSUME NEW a \in Accels, NEW e \in Engines(a)
      PROVE  /\ e \in 0..(MAX_NUM_ENGINES - 1) /\ 2 \in CsrIdx
             /\ EngIndex(e, 2) = 1024 + 16 * e + 2
  <2>1. e \in 0..(MAX_NUM_ENGINES - 1) /\ 2 \in CsrIdx
    <3>1. NumEngines[a] \in 1..64 /\ e \in 0..NumEngines[a] - 1
      BY Constants DEF Engines
    <3> QED
      BY <3>1 DEF MAX_NUM_ENGINES, CsrIdx
  <2> QED
    BY <2>1, PlainIndex
<1>2. ASSUME NEW a \in Accels, NEW e \in Engines(a)
      PROVE  /\ Space(EngIndex(e, 2)) = "engine" /\ EngineOf(EngIndex(e, 2)) = e
             /\ EngAccepted(e, 2) /\ EngIndex(e, 2) \in Nat
  <2>1. EngIndex(e, 2) \in Nat
    BY <1>1 DEF MAX_NUM_ENGINES
  <2> QED
    BY <1>1, <2>1, EngineCsrReached
<1>3. Space(16) = "control" /\ Space(17) = "control" /\ RegisterOf(16) = 0 /\ RegisterOf(17) = 1
  BY DEF Space, RegisterOf
<1>4. /\ IsEnable(EnableWrite) /\ ~ IsDisable(EnableWrite) /\ Space(EnableWrite.index) # "engine"
      /\ IsDisable(DisableWrite) /\ ~ IsEnable(DisableWrite) /\ Space(DisableWrite.index) # "engine"
      /\ EnableWrite.value = run.emask /\ DisableWrite.value = run.emask
  BY <1>3 DEF IsEnable, IsDisable, IsCommand, EnableWrite, DisableWrite,
              CSR_WR_CTRL_ENG_ENABLE_MASK, CSR_WR_CTRL_ENG_DISABLE_MASK
<1> QED
  BY <1>2, <1>4 DEF ConfigWrite, csrEngWrite, csrWrite, IsEnable, IsDisable, IsCommand

\* The accelerators that a loop of the program is at belong to the test.
LEMMA OfRun ==
    ASSUME EngTypes
    PROVE  /\ run \in Runs /\ pc \in Labels /\ at \in 1..Len(run.accels) /\ Len(run.accels) \in Nat
           /\ Accel \in Accels /\ InRun(Accel) /\ PlaceOf(Accel, run.accels) = at
           /\ LastAccel \in Accels /\ InRun(LastAccel)
           /\ run.accels[1] \in Accels /\ InRun(run.accels[1])
           /\ PlaceOf(run.accels[1], run.accels) = 1
           /\ \A a \in Accels : InRun(a) =>
                /\ Chosen(a) \subseteq Engines(a)
                /\ PlaceOf(a, run.accels) \in 1..Len(run.accels)
                /\ run.accels[PlaceOf(a, run.accels)] = a
                /\ run.kind = "regions" => a = run.accels[1] /\ a = Accel
<1>1. run \in Runs /\ pc \in Labels /\ at \in DOMAIN run.accels
  BY DEF EngTypes, ProgramTypes
<1>2. /\ DOMAIN run.accels = 1..Len(run.accels) /\ 1 \in DOMAIN run.accels
      /\ Len(run.accels) \in DOMAIN run.accels
      /\ \A i \in DOMAIN run.accels :
           /\ run.accels[i] \in Accels /\ run.accels[i] \in Range(run.accels)
           /\ PlaceOf(run.accels[i], run.accels) = i
      /\ \A a \in Range(run.accels) :
           /\ PlaceOf(a, run.accels) \in DOMAIN run.accels
           /\ run.accels[PlaceOf(a, run.accels)] = a
           /\ Selected(run, PlaceOf(a, run.accels)) \subseteq Engines(a)
      /\ run.kind = "regions" => Len(run.accels) = 1
  BY <1>1, Runnable
<1>3. ASSUME NEW a \in Accels, InRun(a)
      PROVE  /\ Chosen(a) \subseteq Engines(a)
             /\ PlaceOf(a, run.accels) \in 1..Len(run.accels)
             /\ run.accels[PlaceOf(a, run.accels)] = a
             /\ run.kind = "regions" => a = run.accels[1] /\ a = Accel
  <2>1. /\ PlaceOf(a, run.accels) \in 1..Len(run.accels)
        /\ run.accels[PlaceOf(a, run.accels)] = a
        /\ Selected(run, PlaceOf(a, run.accels)) \subseteq Engines(a)
    BY <1>2, <1>3 DEF InRun
  <2>2. run.kind = "regions" => PlaceOf(a, run.accels) = 1 /\ at = 1
    BY <1>1, <1>2, <2>1
  <2> QED
    BY <2>1, <2>2 DEF Chosen, Accel
<1>4. Len(run.accels) \in Nat
  BY <1>1, Runnable
<1> QED
  BY <1>1, <1>2, <1>3, <1>4 DEF Accel, LastAccel, InRun

-----------------------------------------------------------------------------
(* The order of commands                                                   *)

\* At a cycle only an accelerator whose engines are being started goes on.
LEMMA OrderTick ==
    ASSUME NEW a \in Accels, TickTakes(a), UNCHANGED swVars
    PROVE  /\ (Off(a) => Off(a)') /\ (Sent(a) => Sent(a)')
           /\ (InHand(a) => InHand(a)' \/ On(a)')
           /\ (On(a) => On(a)') /\ (Told(a) => Told(a)')
<1>1. Mask(a)' = Mask(a) /\ DisableWrite' = DisableWrite
  BY SameRun
<1>2. (Off(a) => Off(a)') /\ (On(a) => On(a)')
  BY <1>1 DEF TickTakes, Off, On
<1>3. Told(a) => Told(a)'
  BY <1>1 DEF TickTakes, Told
<1>4. InHand(a) => InHand(a)' \/ On(a)'
  BY <1>1 DEF TickTakes, InHand, On
<1>5. Sent(a) => Sent(a)'
  BY SameRun DEF TickTakes, Sent
<1> QED
  BY <1>2, <1>3, <1>4, <1>5

\* The writes that start a run arrive one after the other: those that configure an
\* engine, and the command last.
LEMMA SentWrite ==
    ASSUME NEW a \in Accels, AccelTypes(a), WriteTakes(a), UNCHANGED swVars,
           Chosen(a) \subseteq Engines(a), Sent(a)
    PROVE  \/ /\ Len(wire[a]) = 1 /\ InHand(a)' /\ cfg'[a] = cfg[a]
              /\ RunAt(a, 0)'.reset = Mask(a) /\ RunAt(a, 0)'.run = {}
              /\ state'[a] = "HOLD_RESET"
           \/ /\ Sent(a)' /\ RunAt(a, 0)' = RunAt(a, 0)
              /\ \A n \in 2..Len(wire[a]) - 1 : /\ n - 1 \in 1..Len(wire'[a]) - 1
                                                /\ wire'[a][n - 1] = wire[a][n]
              /\ \E e \in Chosen(a) :
                   /\ wire[a][1] = ConfigWrite(e)
                   /\ \A d \in Engines(a) : cfg'[a][d] = IF d = e THEN Value ELSE cfg[a][d]
<1> DEFINE w == wire[a]
<1>1. /\ w \in Seq(Writes) /\ w # <<>> /\ Len(w) \in Nat \ {0}
      /\ wire'[a] = Tail(w) /\ Head(w) = w[1]
      /\ Len(wire'[a]) = Len(w) - 1
      /\ \A n \in 1..Len(w) - 1 : wire'[a][n] = w[n + 1]
      /\ Len(w) = 1 => wire'[a] = <<>>
  BY DEF AccelTypes, Sent, WriteTakes
<1>0. Len(w) \in Nat \ {0} /\ Len(wire'[a]) = Len(w) - 1
  BY <1>1
<1>2. /\ state[a] = "READY" /\ stateRun[a] = {} /\ stateReset[a] = {}
      /\ w[Len(w)] = EnableWrite
      /\ \A n \in 1..Len(w) - 1 : \E e \in Chosen(a) : w[n] = ConfigWrite(e)
  BY DEF Sent
<1>3. /\ Mask(a)' = Mask(a) /\ Chosen(a)' = Chosen(a)
      /\ Value' = Value /\ EnableWrite' = EnableWrite
      /\ \A e \in Chosen(a) : ConfigWrite(e)' = ConfigWrite(e)
  BY SameRun
<1>6. CASE Len(w) = 1
  <2>1. Head(w) = EnableWrite /\ wire'[a] = <<>>
    BY <1>1, <1>2, <1>6
  <2>2. /\ state'[a] = "HOLD_RESET" /\ cfg'[a] = cfg[a]
        /\ stateReset'[a] = stateReset[a] \cup Mask(a) /\ stateRun'[a] = {}
    BY <1>2, <2>1, Meant DEF WriteTakes, Mask
  <2>3. stateReset'[a] = Mask(a) /\ RunAt(a, 0)'.reset = Mask(a) /\ RunAt(a, 0)'.run = {}
    BY <1>2, <2>2 DEF RunAt
  <2> QED
    BY <1>3, <1>6, <2>1, <2>2, <2>3 DEF InHand
<1>7. CASE Len(w) # 1
  <2>0. /\ Len(w) \in Nat \ {0} /\ 1 \in 1..Len(w) - 1 /\ Len(w) - 1 \in 1..Len(w) - 1
        /\ (Len(w) - 1) + 1 = Len(w)
    <3> DEFINE n == Len(w)
    <3>1. n \in Nat \ {0} /\ n # 1
      BY <1>0, <1>7
    <3> HIDE DEF n
    <3>2. /\ n \in Nat \ {0} /\ 1 \in 1..n - 1 /\ n - 1 \in 1..n - 1 /\ (n - 1) + 1 = n
      BY <3>1
    <3> QED
      BY <3>2 DEF n
  <2>1. PICK e \in Chosen(a) : w[1] = ConfigWrite(e)
    BY <1>2, <2>0
  <2>2. e \in Engines(a)
    BY <2>1
  <2>3. /\ state'[a] = state[a] /\ stateReset'[a] = stateReset[a] /\ stateRun'[a] = stateRun[a]
        /\ \A d \in Engines(a) : cfg'[a][d] = IF d = e THEN Value ELSE cfg[a][d]
    BY <1>1, <1>2, <2>1, <2>2, Meant DEF WriteTakes
  <2>4. RunAt(a, 0)' = RunAt(a, 0)
    BY <2>3 DEF RunAt
  <2>7. wire'[a] # <<>> /\ wire'[a][Len(wire'[a])] = EnableWrite
    <3>1. Len(w) - 1 \in 1..Len(w) - 1 /\ wire'[a][Len(w) - 1] = w[(Len(w) - 1) + 1]
      BY <1>1, <2>0
    <3>2. wire'[a] # <<>>
      <4>1. wire'[a] = <<>> => Len(wire'[a]) = 0
        OBVIOUS
      <4> QED
        BY <1>0, <1>7, <4>1
    <3> QED
      BY <1>0, <1>2, <2>0, <3>1, <3>2
  <2>8. ASSUME NEW n \in 1..Len(wire'[a]) - 1
        PROVE  \E d \in Chosen(a) : wire'[a][n] = ConfigWrite(d)
    <3>1. n \in 1..Len(w) - 1 /\ n + 1 \in 1..Len(w) - 1
      BY <1>1
    <3> QED
      BY <1>1, <1>2, <3>1
  <2>9. ASSUME NEW n \in 2..Len(w) - 1
        PROVE  n - 1 \in 1..Len(wire'[a]) - 1 /\ wire'[a][n - 1] = w[n]
    <3>1. n - 1 \in 1..Len(wire'[a]) - 1 /\ n - 1 \in 1..Len(w) - 1 /\ (n - 1) + 1 = n
      BY <1>0
    <3> QED
      BY <1>1, <3>1
  <2>10. Sent(a)'
    BY <1>2, <1>3, <2>3, <2>7, <2>8 DEF Sent
  <2> QED
    BY <2>1, <2>3, <2>4, <2>9, <2>10
<1> QED
  BY <1>6, <1>7

\* The command to stop arrives: nothing but stateRun changes.
LEMMA ToldWrite ==
    ASSUME NEW a \in Accels, AccelTypes(a), WriteTakes(a), UNCHANGED swVars, Told(a)
    PROVE  /\ Told(a)' /\ countReset'[a] = countReset[a] /\ ~ IsEnable(Head(wire[a]))
           /\ \A k \in Stages : k # 0 => RunAt(a, k)' = RunAt(a, k)
           /\ RunAt(a, 0)'.reset = RunAt(a, 0).reset /\ RunAt(a, 0)'.run \subseteq RunAt(a, 0).run
<1>1. /\ wire[a] = <<DisableWrite>> /\ state[a] = "READY"
      /\ stateReset[a] = {} /\ stateRun[a] \subseteq Mask(a)
  BY DEF Told, WriteTakes
<1>2. Head(wire[a]) = DisableWrite /\ wire'[a] = <<>>
  BY <1>1 DEF WriteTakes
<1>3. /\ state'[a] = "READY" /\ stateReset'[a] = stateReset[a] /\ countReset'[a] = countReset[a]
      /\ stateRun'[a] = stateRun[a] \ run.emask
  BY <1>1, <1>2, Meant DEF WriteTakes
<1>4. stateRun'[a] = {}
  BY <1>1, <1>3 DEF Mask, Commanded
<1>5. Told(a)'
  BY <1>1, <1>2, <1>3, <1>4, SameRun DEF Told
<1>6. /\ \A k \in Stages : k # 0 => RunAt(a, k)' = RunAt(a, k)
      /\ RunAt(a, 0)'.reset = RunAt(a, 0).reset /\ RunAt(a, 0)'.run \subseteq RunAt(a, 0).run
  BY <1>3, <1>4 DEF RunAt, WriteTakes
<1> QED
  BY <1>2, <1>3, <1>5, <1>6, Meant

\* Commands arrive when the state machine is ready for them.
LEMMA Writable ==
    ASSUME NEW a \in Accels, pc \in Labels, Orderly(a), wire[a] # <<>>
    PROVE  state[a] = "READY" /\ stateReset[a] = {} /\ (Sent(a) \/ Told(a))
<1>1. ~ Off(a) /\ ~ On(a) /\ ~ InHand(a)
  BY DEF Off, On, InHand
<1>2. Sent(a) \/ Told(a)
  BY <1>1 DEF Orderly, Ordering, Labels
<1> QED
  BY <1>2 DEF Sent, Told

\* A step of the hardware keeps the order.
LEMMA OrderlyStep ==
    ASSUME NEW a \in Accels, EngTypes, Hardware(a), UNCHANGED swVars, Orderly(a)
    PROVE  Orderly(a)'
<1>1. AccelTypes(a) /\ pc \in Labels /\ (InRun(a) => Chosen(a) \subseteq Engines(a))
  BY OfRun DEF EngTypes
<1>2. /\ pc' = pc /\ run' = run /\ at' = at /\ InRun(a)' = InRun(a)
      /\ PlaceOf(a, run.accels)' = PlaceOf(a, run.accels)
  BY DEF swVars, InRun
<1>3. CASE WriteArrives(a)
  <2>1. WriteTakes(a)
    BY <1>3, WriteEffect
  <2>2. ~ Off(a) /\ ~ On(a) /\ ~ InHand(a)
    BY <2>1 DEF Off, On, InHand, WriteTakes
  <2>3. InRun(a) /\ Sent(a) => Ordering(a)'
    BY <1>1, <2>1, SentWrite DEF Ordering
  <2>4. Told(a) => Told(a)'
    BY <1>1, <2>1, ToldWrite
  <2> QED
    BY <1>2, <2>2, <2>3, <2>4 DEF Orderly, Ordering
<1>4. CASE Tick(a)
  <2>1. TickTakes(a)
    BY <1>4, TickEffect
  <2> QED
    BY <1>2, <2>1, OrderTick DEF Orderly, Ordering
<1> QED
  BY <1>3, <1>4 DEF Hardware

\* The order of commands and the types, which hold whatever the engines do.
OrderInv == EngTypes /\ Kinds /\ \A a \in Accels : Orderly(a)

\* They hold after a step of the hardware.
LEMMA OrderHardware ==
    ASSUME OrderInv, NEW a \in Accels, Hardware(a), UNCHANGED swVars
    PROVE  OrderInv' /\ \A b \in Accels \ {a} : Local(b)' = Local(b)
<1>1. EngTypes /\ Kinds /\ \A b \in Accels : Orderly(b) /\ AccelTypes(b)
  BY DEF OrderInv, EngTypes
<1>2. Domains' /\ \A b \in Accels \ {a} : Local(b)' = Local(b)
  BY <1>1, Elsewhere
<1>3. AccelTypes(a)' /\ Orderly(a)'
  BY <1>1, TickEffect, WriteEffect, OrderlyStep DEF Hardware
<1>4. ASSUME NEW b \in Accels \ {a} PROVE AccelTypes(b)' /\ Orderly(b)'
  <2>1. /\ wire'[b] = wire[b] /\ sinceRead'[b] = sinceRead[b] /\ state'[b] = state[b]
        /\ holdCnt'[b] = holdCnt[b] /\ stateReset'[b] = stateReset[b]
        /\ stateRun'[b] = stateRun[b] /\ runPipe'[b] = runPipe[b]
        /\ activePipe'[b] = activePipe[b] /\ someEnabled'[b] = someEnabled[b]
        /\ countPipe'[b] = countPipe[b] /\ countReset'[b] = countReset[b]
        /\ moved'[b] = moved[b] /\ cfg'[b] = cfg[b] /\ eng'[b] = eng[b]
        /\ counts'[b] = counts[b] /\ hiddenPipe'[b] = hiddenPipe[b]
    BY <1>2 DEF Local
  <2>2. /\ pc' = pc /\ run' = run /\ at' = at /\ InRun(b)' = InRun(b)
        /\ PlaceOf(b, run.accels)' = PlaceOf(b, run.accels)
        /\ Mask(b)' = Mask(b) /\ Chosen(b)' = Chosen(b)
        /\ EnableWrite' = EnableWrite /\ DisableWrite' = DisableWrite
        /\ \A e \in Chosen(b) : ConfigWrite(e)' = ConfigWrite(e)
    BY SameRun DEF swVars, InRun
  <2>3. AccelTypes(b)'
    BY <1>1, <2>1 DEF AccelTypes, Engines, Writes, Orders, EngineStates, CountStates
  <2>4. /\ (Off(b) => Off(b)') /\ (Sent(b) => Sent(b)') /\ (InHand(b) => InHand(b)')
        /\ (On(b) => On(b)') /\ (Told(b) => Told(b)')
    BY <2>1, <2>2 DEF Off, Sent, InHand, On, Told
  <2> QED
    BY <1>1, <2>2, <2>3, <2>4 DEF Orderly, Ordering
<1>5. ProgramTypes' /\ Kinds'
  BY <1>1 DEF EngTypes, ProgramTypes, Kinds, swVars
<1> QED
  BY <1>2, <1>3, <1>4, <1>5 DEF OrderInv, EngTypes

\* What they say is kept for an accelerator to which the program writes nothing.
LEMMA HeldOrder ==
    ASSUME NEW a \in Accels, HwUnchanged, wire'[a] = wire[a], UNCHANGED <<run, tag>>
    PROVE  /\ Mask(a)' = Mask(a) /\ Chosen(a)' = Chosen(a) /\ InRun(a)' = InRun(a)
           /\ PlaceOf(a, run.accels)' = PlaceOf(a, run.accels)
           /\ \A e \in Chosen(a) : ConfigWrite(e)' = ConfigWrite(e)
           /\ (Off(a) => Off(a)') /\ (Sent(a) => Sent(a)') /\ (InHand(a) => InHand(a)')
           /\ (On(a) => On(a)') /\ (Told(a) => Told(a)') /\ (Ordering(a) => Ordering(a)')
<1>1. state' = state /\ stateReset' = stateReset /\ stateRun' = stateRun
  BY DEF HwUnchanged
<1>2. /\ Mask(a)' = Mask(a) /\ Chosen(a)' = Chosen(a) /\ Value' = Value /\ InRun(a)' = InRun(a)
      /\ PlaceOf(a, run.accels)' = PlaceOf(a, run.accels)
      /\ EnableWrite' = EnableWrite /\ DisableWrite' = DisableWrite
      /\ \A e \in Chosen(a) : ConfigWrite(e)' = ConfigWrite(e)
      /\ run' = run /\ tag' = tag
  BY DEF Mask, Commanded, Chosen, Selected, Engines, Value, InRun, EnableWrite, DisableWrite,
         ConfigWrite
<1>3. /\ (Off(a) => Off(a)') /\ (Sent(a) => Sent(a)') /\ (InHand(a) => InHand(a)')
      /\ (On(a) => On(a)') /\ (Told(a) => Told(a)')
  BY <1>1, <1>2 DEF Off, Sent, InHand, On, Told
<1> QED
  BY <1>2, <1>3 DEF Ordering


\* A CSR read finds that the posted writes have arrived, a round trip after the
\* last read of the same accelerator.
LEMMA ReadEffect ==
    ASSUME EngTypes, NEW b \in Accels, csrRead(b), HwUnchanged, UNCHANGED wire,
           DOMAIN moved' = Accels, \A a \in Accels : moved'[a] \in BOOLEAN
    PROVE  /\ wire[b] = <<>> /\ sinceRead[b] = RoundTrip /\ sinceRead'[b] = 0
           /\ \A a \in Accels : wire'[a] = wire[a] /\ (a # b => sinceRead'[a] = sinceRead[a])
           /\ Domains' /\ \A a \in Accels : AccelTypes(a)'
<1>1. Domains /\ \A a \in Accels : AccelTypes(a)
  BY DEF EngTypes
<1>2. /\ wire[b] = <<>> /\ sinceRead[b] = RoundTrip /\ sinceRead'[b] = 0
      /\ DOMAIN sinceRead' = Accels
      /\ \A a \in Accels : a # b => sinceRead'[a] = sinceRead[a]
  BY <1>1 DEF csrRead, Domains
<1>3. /\ state' = state /\ holdCnt' = holdCnt /\ stateReset' = stateReset /\ stateRun' = stateRun
      /\ runPipe' = runPipe /\ activePipe' = activePipe /\ someEnabled' = someEnabled
      /\ countPipe' = countPipe /\ countReset' = countReset /\ cfg' = cfg /\ eng' = eng
      /\ counts' = counts /\ hiddenPipe' = hiddenPipe
  BY DEF HwUnchanged
<1>4. Domains'
  BY <1>1, <1>2, <1>3 DEF Domains
<1>5. ASSUME NEW a \in Accels PROVE AccelTypes(a)'
  <2>1. AccelTypes(a)
    BY <1>1
  <2>2. sinceRead'[a] \in 0..RoundTrip
    BY <1>2, <2>1, Constants DEF AccelTypes
  <2> QED
    BY <1>3, <2>1, <2>2 DEF AccelTypes, Engines, Writes, Orders, EngineStates, CountStates
<1> QED
  BY <1>2, <1>4, <1>5

\* What every CSR read of the program keeps of the order of commands.
LEMMA ReadOrder ==
    ASSUME OrderInv, NEW b \in Accels, csrRead(b), HwUnchanged, UNCHANGED <<wire, run, tag>>,
           DOMAIN moved' = Accels, \A a \in Accels : moved'[a] \in BOOLEAN
    PROVE  /\ wire[b] = <<>> /\ sinceRead[b] = RoundTrip /\ sinceRead'[b] = 0
           /\ Domains' /\ countPipe' = countPipe
           /\ \A a \in Accels : /\ wire'[a] = wire[a] /\ (a # b => sinceRead'[a] = sinceRead[a])
                                /\ AccelTypes(a)' /\ InRun(a)' = InRun(a)
                                /\ PlaceOf(a, run.accels)' = PlaceOf(a, run.accels)
                                /\ (Off(a) => Off(a)') /\ (On(a) => On(a)')
                                /\ (Told(a) => Told(a)') /\ (Ordering(a) => Ordering(a)')
                                /\ ~ InRun(a) => Orderly(a)'
<1>1. EngTypes /\ \A a \in Accels : Orderly(a)
  BY DEF OrderInv
<1>2. /\ wire[b] = <<>> /\ sinceRead[b] = RoundTrip /\ sinceRead'[b] = 0 /\ Domains'
      /\ \A a \in Accels : /\ wire'[a] = wire[a] /\ (a # b => sinceRead'[a] = sinceRead[a])
                           /\ AccelTypes(a)'
  BY <1>1, ReadEffect
<1>3. ASSUME NEW a \in Accels
      PROVE  /\ InRun(a)' = InRun(a) /\ PlaceOf(a, run.accels)' = PlaceOf(a, run.accels)
             /\ (Off(a) => Off(a)') /\ (On(a) => On(a)')
             /\ (Told(a) => Told(a)') /\ (Ordering(a) => Ordering(a)')
  <2>1. wire'[a] = wire[a]
    BY <1>2
  <2> QED
    BY <2>1, HeldOrder
<1>4. ASSUME NEW a \in Accels, ~ InRun(a) PROVE Orderly(a)'
  BY <1>1, <1>3, <1>4 DEF Orderly
<1>5. countPipe' = countPipe
  BY DEF HwUnchanged
<1> QED
  BY <1>2, <1>3, <1>4, <1>5

\* What the masks that are read are.
LEMMA MasksRead ==
    ASSUME NEW a
    PROVE  csrGetEnginesEnabled(a) = stateRun[a] /\ csrGetEnginesActive(a) = Last(activePipe[a])
  BY DEF csrGetEnginesEnabled, csrGetEnginesActive, ReadData, CSR_RD_CTRL_ENG_RUN_MASK,
         CSR_RD_CTRL_ENG_ACTIVE_MASK, CSR_RD_CTRL_CONFIG_INFO

\* A finite set is put in some order: every element is in it.
LEMMA InOrder ==
    ASSUME NEW S, IsFiniteSet(S)
    PROVE  /\ Cardinality(S) \in Nat
           /\ SetToSeq(S) \in [1..Cardinality(S) -> S]
           /\ \A e \in S : \E n \in 1..Cardinality(S) : SetToSeq(S)[n] = e
<1> DEFINE N == Cardinality(S)
           f == SetToSeq(S)
<1>1. N \in Nat /\ ExistsBijection(1..N, S)
  BY FS_CardinalityType
<1>2. \E g \in [1..N -> S] : IsInjective(g)
  BY <1>1 DEF ExistsBijection, Bijection, Injection
<1>3. f \in [1..N -> S] /\ IsInjective(f)
  BY <1>2 DEF SetToSeq
<1>4. f \in Injection(1..N, S)
  BY <1>3 DEF Injection
<1>5. IsFiniteSet(1..N) /\ Cardinality(1..N) = N
  BY <1>1, FS_Interval
<1>6. f \in Surjection(1..N, S)
  BY <1>4, <1>5, FS_Injection
<1> QED
  BY <1>1, <1>3, <1>6 DEF Surjection

\* The configuration writes: one for each engine that is selected.
LEMMA ConfigWrites ==
    ASSUME NEW r \in Runs, NEW i \in DOMAIN r.accels, tag \in BOOLEAN
    PROVE  LET value == [tag |-> ~ tag, beats |-> r.beats]
               write(e) == [index |-> EngIndex(e, 2), value |-> value]
               c == Config(r, i)
           IN  /\ c \in Seq(Writes)
               /\ \A n \in 1..Len(c) : \E e \in Selected(r, i) : c[n] = write(e)
               /\ \A e \in Selected(r, i) : \E n \in 1..Len(c) : c[n] = write(e)
<1> DEFINE value == [tag |-> ~ tag, beats |-> r.beats]
           write(e) == [index |-> EngIndex(e, 2), value |-> value]
           c == Config(r, i)
           S == Selected(r, i)
           order == SetToSeq(S)
           N == Cardinality(S)
<1>1. r.accels[i] \in Accels /\ r.beats \in Nat \cup {Unlimited}
  BY Runnable
<1>2. S \subseteq 0..NumEngines[r.accels[i]] - 1 /\ NumEngines[r.accels[i]] \in 1..64
  BY <1>1, Constants DEF Selected
<1>3. IsFiniteSet(S)
  <2>1. 0 \in Int /\ NumEngines[r.accels[i]] - 1 \in Int
    BY <1>2
  <2>2. IsFiniteSet(0..NumEngines[r.accels[i]] - 1)
    BY <2>1, FS_Interval
  <2> HIDE DEF S
  <2> QED
    BY <1>2, <2>2, FS_Subset
<1>4. /\ N \in Nat /\ order \in [1..N -> S]
      /\ \A e \in S : \E n \in 1..N : order[n] = e
  BY <1>3, InOrder
<1>5. ASSUME NEW e \in S PROVE Head(csrEngWrite(e, 2, value)) = write(e) /\ write(e) \in Writes
  <2>1. e \in 0..(MAX_NUM_ENGINES - 1) /\ 2 \in CsrIdx
    BY <1>2 DEF MAX_NUM_ENGINES, CsrIdx
  <2>2. EngAccepted(e, 2) /\ Space(EngIndex(e, 2)) = "engine" /\ EngIndex(e, 2) = 1024 + 16 * e + 2
    BY <2>1, EngineCsrReached, PlainIndex
  <2>3. Head(csrEngWrite(e, 2, value)) = write(e)
    BY <2>2 DEF csrEngWrite, csrWrite
  <2>4. value \in Settings /\ EngIndex(e, 2) \in Nat
    BY <1>1, <1>2, <2>2 DEF Settings
  <2>5. write(e) \in [index : Nat, value : Settings \cup {q.emask : q \in Runs}]
    BY <2>4
  <2> HIDE DEF value
  <2>6. Space(write(e).index) = "engine" /\ write(e).value \in Settings
    BY <2>2, <2>4
  <2> QED
    BY <2>3, <2>5, <2>6 DEF Writes
<1>6. c = [n \in 1..N |-> Head(csrEngWrite(order[n], 2, value))]
  <2>1. DOMAIN order = 1..N
    BY <1>4
  <2> QED
    BY <2>1 DEF Config
<1>7. \A n \in 1..N : order[n] \in S /\ c[n] = write(order[n]) /\ c[n] \in Writes
  BY <1>4, <1>5, <1>6
<1> HIDE DEF c, order, N, write, S
<1>8. c \in [1..N -> Writes]
  BY <1>6, <1>7
<1>9. c \in Seq(Writes) /\ Len(c) = N
  BY <1>4, <1>8
<1>10. /\ \A n \in 1..Len(c) : \E e \in S : c[n] = write(e)
       /\ \A e \in S : \E n \in 1..Len(c) : c[n] = write(e)
  BY <1>4, <1>7, <1>9
<1> QED
  BY <1>9, <1>10 DEF c, S, write

\* A write to the register that starts engines.
LEMMA Enables ==
    ASSUME NEW m
    PROVE  IsEnable([index |-> CSR_WR_CTRL_ENG_ENABLE_MASK, value |-> m])
<1>1. Space(16) = "control" /\ RegisterOf(16) = 0
  BY DEF Space, RegisterOf
<1> QED
  BY <1>1 DEF IsEnable, IsCommand, CSR_WR_CTRL_ENG_ENABLE_MASK

\* A sequence with one more at the end.
LEMMA LastPut ==
    ASSUME NEW S, NEW c \in Seq(S), NEW x \in S, NEW w, w = <<>> \o (c \o <<x>>)
    PROVE  /\ w \in Seq(S) /\ Len(w) = Len(c) + 1 /\ Len(c) \in Nat /\ w[Len(w)] = x
           /\ \A n \in 1..Len(w) - 1 : n \in 1..Len(c) /\ w[n] = c[n]
           /\ \A n \in 1..Len(c) : n \in 1..Len(w) - 1 /\ w[n] = c[n]
<1>1. w = c \o <<x>>
  OBVIOUS
<1> QED
  BY <1>1

\* What is sent when a test starts: to each of its accelerators the writes that
\* configure the engines it selects, and then the one that enables them.
LEMMA StartWires ==
    ASSUME EngTypes, NEW r \in Runs, run' = r, tag' = ~ tag,
           wire' = [b \in Accels |->
                      IF b \in Range(r.accels)
                        THEN wire[b] \o (Config(r, PlaceOf(b, r.accels)) \o csrEnableEngines(r.emask))
                        ELSE wire[b]],
           NEW a \in Accels, wire[a] = <<>>
    PROVE  /\ DOMAIN wire' = Accels /\ wire'[a] \in Seq(Writes) /\ (InRun(a)' <=> a \in Range(r.accels))
           /\ ~ InRun(a)' => wire'[a] = wire[a]
           /\ InRun(a)' =>
                /\ wire'[a] # <<>> /\ wire'[a][Len(wire'[a])] = EnableWrite'
                /\ \A n \in 1..Len(wire'[a]) - 1 : \E e \in Chosen(a)' : wire'[a][n] = ConfigWrite(e)'
                /\ \A e \in Chosen(a)' : \E n \in 1..Len(wire'[a]) - 1 : wire'[a][n] = ConfigWrite(e)'
<1> DEFINE enable == [index |-> CSR_WR_CTRL_ENG_ENABLE_MASK, value |-> r.emask]
           i == PlaceOf(a, r.accels)
           c == Config(r, i)
           w == wire'[a]
<1>1. wire' = [b \in Accels |->
                 IF b \in Range(r.accels)
                   THEN wire[b] \o (Config(r, PlaceOf(b, r.accels)) \o <<enable>>) ELSE wire[b]]
  BY DEF csrEnableEngines, csrWrite
<1>2. /\ enable = EnableWrite' /\ enable \in Writes
      /\ InRun(a)' <=> a \in Range(r.accels)
      /\ Chosen(a)' = Selected(r, PlaceOf(a, r.accels))
      /\ \A e : ConfigWrite(e)' = [index |-> EngIndex(e, 2),
                                    value |-> [tag |-> ~ tag, beats |-> r.beats]]
  <2>1. enable = EnableWrite'
    BY DEF EnableWrite
  <2>2. enable \in [index : Nat, value : Settings \cup {q.emask : q \in Runs}]
    BY DEF CSR_WR_CTRL_ENG_ENABLE_MASK
  <2>3. IsEnable(enable)
    BY Enables
  <2>4. enable \in Writes
    BY <2>2, <2>3 DEF Writes
  <2> QED
    BY <2>1, <2>4 DEF InRun, Chosen, Selected, Engines, ConfigWrite, Value
<1> HIDE DEF enable
<1>3. CASE a \notin Range(r.accels)
  <2>1. wire'[a] = wire[a] /\ <<>> \in Seq(Writes)
    BY <1>1, <1>3
  <2> QED
    BY <1>1, <1>2, <1>3, <2>1
<1>4. CASE a \in Range(r.accels)
  <2>1. /\ c \in Seq(Writes)
        /\ \A n \in 1..Len(c) : \E e \in Selected(r, i) : c[n] = ConfigWrite(e)'
        /\ \A e \in Selected(r, i) : \E n \in 1..Len(c) : c[n] = ConfigWrite(e)'
    <3>1. i \in DOMAIN r.accels /\ tag \in BOOLEAN
      BY <1>4, Runnable DEF EngTypes, ProgramTypes
    <3> QED
      BY <1>2, <3>1, ConfigWrites
  <2>2. w = wire[a] \o (c \o <<enable>>) /\ wire[a] = <<>>
    BY <1>1, <1>4
  <2> HIDE DEF c, i
  <2>4. /\ w \in Seq(Writes) /\ Len(w) = Len(c) + 1 /\ Len(c) \in Nat /\ w[Len(w)] = enable
        /\ \A n \in 1..Len(w) - 1 : n \in 1..Len(c) /\ w[n] = c[n]
        /\ \A n \in 1..Len(c) : n \in 1..Len(w) - 1 /\ w[n] = c[n]
    <3>1. c \in Seq(Writes) /\ enable \in Writes /\ w = <<>> \o (c \o <<enable>>)
      BY <1>2, <2>1, <2>2
    <3> HIDE DEF w
    <3> QED
      BY <3>1, LastPut
  <2> HIDE DEF w
  <2>5. w # <<>>
    BY <2>4
  <2>6. \A n \in 1..Len(w) - 1 : \E e \in Chosen(a)' : w[n] = ConfigWrite(e)'
    BY <1>2, <2>1, <2>4 DEF i
  <2>7. \A e \in Chosen(a)' : \E n \in 1..Len(w) - 1 : w[n] = ConfigWrite(e)'
    BY <1>2, <2>1, <2>4 DEF i
  <2>8. DOMAIN wire' = Accels
    BY <1>1
  <2> QED
    BY <1>2, <1>4, <2>4, <2>5, <2>6, <2>7, <2>8 DEF w
<1> QED
  BY <1>3, <1>4

\* What is sent when it is to stop: to each of its accelerators, the command.
LEMMA StopWires ==
    ASSUME EngTypes,
           wire' = [b \in Accels |-> IF b \in Range(run.accels)
                                       THEN wire[b] \o csrDisableEngines(run.emask) ELSE wire[b]],
           NEW a \in Accels
    PROVE  /\ DOMAIN wire' = Accels /\ wire'[a] \in Seq(Writes)
           /\ ~ InRun(a) => wire'[a] = wire[a]
           /\ InRun(a) /\ wire[a] = <<>> => wire'[a] = <<DisableWrite>>
<1>1. wire' = [b \in Accels |-> IF b \in Range(run.accels) THEN wire[b] \o <<DisableWrite>>
                                  ELSE wire[b]]
  BY DEF csrDisableEngines, csrWrite, DisableWrite
<1>2. run \in Runs /\ wire[a] \in Seq(Writes)
  BY DEF EngTypes, ProgramTypes, AccelTypes
<1>3. DisableWrite \in Writes
  <2>1. DisableWrite \in [index : Nat, value : Settings \cup {r.emask : r \in Runs}]
    BY <1>2 DEF DisableWrite, CSR_WR_CTRL_ENG_DISABLE_MASK
  <2> QED
    BY <2>1, Meant DEF Writes
<1>4. wire'[a] = IF InRun(a) THEN wire[a] \o <<DisableWrite>> ELSE wire[a]
  BY <1>1 DEF InRun
<1> HIDE DEF DisableWrite
<1>5. wire[a] \o <<DisableWrite>> \in Seq(Writes)
  BY <1>2, <1>3
<1>6. wire[a] = <<>> => wire[a] \o <<DisableWrite>> = <<DisableWrite>>
  BY <1>3
<1>7. DOMAIN wire' = Accels
  BY <1>1
<1> QED
  BY <1>2, <1>4, <1>5, <1>6, <1>7

\* The order of commands and the types hold after each CSR read of the program.
LEMMA OrderReads ==
    ASSUME OrderInv,
           \/ PollEnabled \/ PollActive \/ WaitStart \/ WaitStop
           \/ ClkEnabled \/ ClkCycles \/ ClkPclk \/ Results
    PROVE  OrderInv'
<1>1. /\ EngTypes /\ ProgramTypes /\ Domains /\ Kinds
      /\ \A a \in Accels : Orderly(a) /\ AccelTypes(a)
  BY DEF OrderInv, EngTypes
<1>2. /\ run \in Runs /\ DOMAIN run.accels = 1..Len(run.accels) /\ Len(run.accels) \in Nat
      /\ at \in 1..Len(run.accels)
  BY <1>1, OfRun, Runnable DEF ProgramTypes
<1> DEFINE Kept(b) ==
             /\ wire[b] = <<>> /\ Domains'
             /\ \A a \in Accels : /\ AccelTypes(a)' /\ InRun(a)' = InRun(a)
                                  /\ PlaceOf(a, run.accels)' = PlaceOf(a, run.accels)
                                  /\ (Off(a) => Off(a)') /\ (On(a) => On(a)')
                                  /\ (Told(a) => Told(a)') /\ (Ordering(a) => Ordering(a)')
<1>3. ASSUME NEW b \in Accels, csrRead(b), HwUnchanged, wire' = wire, run' = run, tag' = tag,
             moved' = moved \/ moved' = [moved EXCEPT ![b] = FALSE]
      PROVE  Kept(b)
  <2>1. DOMAIN moved' = Accels /\ \A a \in Accels : moved'[a] \in BOOLEAN
    BY <1>1, <1>3 DEF Domains, AccelTypes
  <2> QED
    BY <1>3, <2>1, ReadOrder
<1> HIDE DEF Kept
<1>4. CASE PollEnabled
  <2>1. PICK b \in Accels : b = Accel
    BY <1>1, OfRun
  <2>2. /\ csrRead(b) /\ HwUnchanged /\ wire' = wire /\ moved' = moved /\ run' = run
        /\ at' = at /\ tag' = tag /\ afuMhz' = afuMhz /\ misled' = misled
        /\ pc = "pollEnabled" /\ pc' \in {"pollEnabled", "exited", "pollActive"}
        /\ pc' = "pollActive" => stateRun[b] # {}
    BY <1>4, <2>1, MasksRead DEF PollEnabled, Reads, NotDone, Goto
  <2>3. Kept(b)
    BY <1>3, <2>2
  <2>4. ASSUME NEW a \in Accels, InRun(a) PROVE Orderly(a)'
    <3>1. a = b /\ Ordering(a)
      BY <1>1, <2>1, <2>2, <2>4, OfRun DEF Kinds, Orderly
    <3>2. pc' = "pollActive" => On(a)
      BY <2>2, <3>1 DEF Ordering, Sent, InHand
    <3> QED
      BY <2>2, <2>3, <2>4, <3>1, <3>2 DEF Kept, Orderly
  <2>5. ASSUME NEW a \in Accels, ~ InRun(a) PROVE Orderly(a)'
    BY <1>1, <2>3, <2>5 DEF Kept, Orderly
  <2>6. ProgramTypes' /\ Kinds'
    BY <1>1, <2>2 DEF ProgramTypes, Kinds, Labels
  <2> QED
    BY <2>3, <2>4, <2>5, <2>6 DEF OrderInv, EngTypes, Kept
<1>5. CASE PollActive
  <2>1. PICK b \in Accels : b = Accel
    BY <1>1, OfRun
  <2>2. /\ csrRead(b) /\ HwUnchanged /\ wire' = wire /\ moved' = moved /\ run' = run
        /\ at' = at /\ tag' = tag /\ afuMhz' = afuMhz /\ misled' \in BOOLEAN
        /\ pc = "pollActive" /\ pc' \in {"pollEnabled", "exited", "stop"}
    BY <1>1, <1>5, <2>1 DEF PollActive, Reads, NotDone, Goto, WaitEnds, ProgramTypes
  <2>3. Kept(b)
    BY <1>3, <2>2
  <2>4. ASSUME NEW a \in Accels, InRun(a) PROVE Orderly(a)'
    BY <1>1, <2>2, <2>3, <2>4 DEF Kept, Orderly, Ordering
  <2>5. ASSUME NEW a \in Accels, ~ InRun(a) PROVE Orderly(a)'
    BY <1>1, <2>3, <2>5 DEF Kept, Orderly
  <2>6. ProgramTypes' /\ Kinds'
    BY <1>1, <2>2 DEF ProgramTypes, Kinds, Labels
  <2> QED
    BY <2>3, <2>4, <2>5, <2>6 DEF OrderInv, EngTypes, Kept
<1>6. CASE WaitStart
  <2>1. PICK b \in Accels : b = LastAccel
    BY <1>1, OfRun
  <2>2. /\ csrRead(b) /\ HwUnchanged /\ wire' = wire /\ moved' = moved /\ run' = run
        /\ at' = at /\ tag' = tag /\ afuMhz' = afuMhz /\ misled' = misled
        /\ pc = "waitStart" /\ pc' \in {"waitStart", "running"}
    BY <1>6, <2>1 DEF WaitStart, Reads, Goto
  <2>3. Kept(b)
    BY <1>3, <2>2
  <2>4. ASSUME NEW a \in Accels PROVE Orderly(a)'
    BY <1>1, <2>2, <2>3, <2>4 DEF Kept, Orderly
  <2>6. ProgramTypes' /\ Kinds'
    BY <1>1, <2>2 DEF ProgramTypes, Kinds, Labels
  <2> QED
    BY <2>3, <2>4, <2>6 DEF OrderInv, EngTypes, Kept
<1>7. CASE WaitStop
  <2>1. PICK b \in Accels : b = Accel /\ PlaceOf(b, run.accels) = at
    BY <1>1, OfRun
  <2>2. /\ csrRead(b) /\ HwUnchanged /\ wire' = wire /\ moved' = moved /\ run' = run
        /\ tag' = tag /\ afuMhz' = afuMhz /\ misled' \in BOOLEAN /\ pc = "waitStop"
        /\ \/ pc' = pc /\ at' = at
           \/ at < Len(run.accels) /\ at' = at + 1 /\ pc' = pc
           \/ at >= Len(run.accels) /\ at' = at /\ pc' \in {"results", "clkEnabled"}
    <3>1. /\ csrRead(b) /\ HwUnchanged /\ wire' = wire /\ moved' = moved /\ run' = run
          /\ tag' = tag /\ afuMhz' = afuMhz /\ pc = "waitStop"
      BY <1>7, <2>1 DEF WaitStop, Reads
    <3>2. misled' \in BOOLEAN
      BY <1>1, <1>7 DEF WaitStop, WaitEnds, ProgramTypes
    <3>3. \/ pc' = pc /\ at' = at
          \/ at < Len(run.accels) /\ at' = at + 1 /\ pc' = pc
          \/ ~ at < Len(run.accels) /\ at' = at /\ pc' \in {"results", "clkEnabled"}
      BY <1>7 DEF WaitStop, Goto
    <3> QED
      BY <1>2, <3>1, <3>2, <3>3
  <2>3. Kept(b) /\ run.kind = "bandwidth"
    BY <1>1, <1>3, <2>2 DEF Kinds
  <2>4. ASSUME NEW a \in Accels, InRun(a) PROVE Orderly(a)'
    <3> DEFINE place == PlaceOf(a, run.accels)
    <3>1. place \in 1..Len(run.accels) /\ (place = at => a = b)
      BY <1>1, <2>1, <2>4, OfRun DEF Accel
    <3>2. IF place < at THEN Off(a) ELSE Told(a)
      BY <1>1, <2>2, <2>4 DEF Orderly
    <3>3. place = at => Off(a)
      BY <1>2, <2>3, <3>1, <3>2 DEF Kept, Told, Off
    <3>4. PlaceOf(a, run.accels)' = place /\ InRun(a)'
      BY <2>3, <2>4 DEF Kept
    <3>5. (Off(a) => Off(a)') /\ (Told(a) => Told(a)')
      BY <2>3 DEF Kept
    <3> HIDE DEF place
    <3>6. CASE pc' = pc /\ at' = at
      BY <2>2, <2>4, <3>2, <3>4, <3>5, <3>6 DEF Orderly
    <3>7. CASE at' = at + 1 /\ pc' = pc
      <4>1. IF place < at' THEN Off(a) ELSE Told(a)
        BY <1>2, <3>1, <3>2, <3>3, <3>7
      <4> QED
        BY <2>2, <2>4, <3>4, <3>5, <3>7, <4>1 DEF Orderly
    <3>8. CASE at >= Len(run.accels) /\ pc' \in {"results", "clkEnabled"}
      <4>1. Off(a)
        BY <1>2, <3>1, <3>2, <3>3, <3>8
      <4> QED
        BY <2>2, <2>3, <2>4, <3>5, <3>8, <4>1 DEF Orderly
    <3> QED
      BY <2>2, <3>6, <3>7, <3>8
  <2>5. ASSUME NEW a \in Accels, ~ InRun(a) PROVE Orderly(a)'
    BY <1>1, <2>3, <2>5 DEF Kept, Orderly
  <2>6. ProgramTypes' /\ Kinds'
    <3>1. at' \in 1..Len(run.accels)
      BY <1>2, <2>2
    <3> QED
      BY <1>1, <1>2, <2>2, <3>1 DEF ProgramTypes, Kinds, Labels
  <2> QED
    BY <2>3, <2>4, <2>5, <2>6 DEF OrderInv, EngTypes, Kept
<1>8. CASE ClkEnabled \/ ClkCycles \/ ClkPclk
  <2>1. PICK b \in Accels : b = run.accels[1]
    BY <1>1, OfRun
  <2>2. /\ csrRead(b) /\ HwUnchanged /\ wire' = wire /\ run' = run
        /\ moved' = moved \/ moved' = [moved EXCEPT ![b] = FALSE]
        /\ at' = at /\ tag' = tag /\ afuMhz' \in BOOLEAN /\ misled' = misled
        /\ pc \in {"clkEnabled", "clkCycles", "clkPclk"}
        /\ pc' \in {"clkCycles", "clkPclk", "results"}
    BY <1>1, <1>8, <2>1 DEF ClkEnabled, ClkCycles, ClkPclk, Reads, Goto, ProgramTypes
  <2>3. Kept(b) /\ run.kind = "bandwidth"
    BY <1>1, <1>3, <2>2 DEF Kinds
  <2>4. ASSUME NEW a \in Accels PROVE Orderly(a)'
    BY <1>1, <2>2, <2>3, <2>4 DEF Kept, Orderly
  <2>6. ProgramTypes' /\ Kinds'
    BY <1>1, <2>2, <2>3 DEF ProgramTypes, Kinds, Labels
  <2> QED
    BY <2>3, <2>4, <2>6 DEF OrderInv, EngTypes, Kept
<1>9. CASE Results
  <2>1. PICK b \in Accels : b = run.accels[1]
    BY <1>1, OfRun
  <2>2. /\ csrRead(b) /\ HwUnchanged /\ wire' = wire /\ moved' = moved /\ run' = run
        /\ at' = at /\ tag' = tag /\ afuMhz' = afuMhz /\ misled' = misled
        /\ pc = "results" /\ (pc' = "choose" \/ (pc' = "exited" /\ run.kind = "regions"))
    BY <1>9, <2>1 DEF Results, Reads, Goto
  <2>3. Kept(b)
    BY <1>3, <2>2
  <2>4. ASSUME NEW a \in Accels PROVE Orderly(a)'
    <3>1. CASE ~ InRun(a)
      BY <1>1, <2>3, <3>1 DEF Kept, Orderly
    <3>2. CASE InRun(a)
      <4>1. run.kind = "regions" => a = b
        BY <1>1, <2>1, <3>2, OfRun
      <4>2. Off(a)
        BY <1>1, <2>2, <2>3, <3>2, <4>1 DEF Kept, Orderly, Told, Off
      <4> QED
        BY <2>2, <2>3, <4>2 DEF Kept, Orderly
    <3> QED
      BY <3>1, <3>2
  <2>6. ProgramTypes' /\ Kinds'
    BY <1>1, <2>2 DEF ProgramTypes, Kinds, Labels
  <2> QED
    BY <2>3, <2>4, <2>6 DEF OrderInv, EngTypes, Kept
<1> QED
  BY <1>4, <1>5, <1>6, <1>7, <1>8, <1>9

\* After its sleep the program finds all engines enabled that it has started.
LEMMA OrderSleep ==
    ASSUME OrderInv, Sleep
    PROVE  OrderInv' /\ \A a \in Accels : InRun(a) => Settled(a) /\ On(a)
<1>1. /\ EngTypes /\ ProgramTypes /\ Domains /\ Kinds
      /\ \A a \in Accels : Orderly(a) /\ AccelTypes(a)
  BY DEF OrderInv, EngTypes
<1>2. /\ HwUnchanged /\ wire' = wire /\ moved' = moved /\ sinceRead' = sinceRead /\ run' = run
      /\ at' = at /\ tag' = tag /\ afuMhz' = afuMhz /\ misled' = misled
      /\ pc = "running" /\ pc' = "stop"
      /\ \A i \in DOMAIN run.accels : Settled(run.accels[i])
  BY DEF Sleep, hwVars, HwUnchanged, Goto
<1>3. ProgramTypes' /\ Kinds' /\ Domains'
  BY <1>1, <1>2 DEF ProgramTypes, Kinds, Labels, Domains, HwUnchanged
<1>4. \A a \in Accels : AccelTypes(a)'
  BY <1>1, <1>2 DEF AccelTypes, HwUnchanged, Engines, Writes, Orders, EngineStates, CountStates
<1>5. ASSUME NEW a \in Accels, ~ InRun(a) PROVE Orderly(a)'
  BY <1>1, <1>2, <1>5, HeldOrder DEF Orderly
<1>6. ASSUME NEW a \in Accels, InRun(a) PROVE Orderly(a)' /\ Settled(a) /\ On(a)
  <2>1. Settled(a) /\ Ordering(a)
    BY <1>1, <1>2, <1>6, Runnable DEF InRun, Range, Orderly
  <2>2. On(a)
    BY <2>1 DEF Settled, Ordering, Sent, InHand
  <2> QED
    BY <1>2, <1>6, <2>1, <2>2, HeldOrder DEF Orderly
<1> QED
  BY <1>3, <1>4, <1>5, <1>6 DEF OrderInv, EngTypes

\* Engines are told to stop once they are all enabled.
LEMMA OrderStop ==
    ASSUME OrderInv, Stop
    PROVE  OrderInv' /\ \A a \in Accels : ~ InRun(a) => wire'[a] = wire[a]
<1>1. /\ EngTypes /\ ProgramTypes /\ Domains /\ Kinds
      /\ \A a \in Accels : Orderly(a) /\ AccelTypes(a)
  BY DEF OrderInv, EngTypes
<1>2. /\ HwUnchanged /\ moved' = moved /\ sinceRead' = sinceRead
      /\ run' = run /\ at' = 1 /\ tag' = tag /\ afuMhz' = afuMhz /\ misled' = misled
      /\ pc = "stop" /\ pc' = (IF run.kind = "regions" THEN "results" ELSE "waitStop")
  BY DEF Stop, Posts, Goto
<1>3. \A a \in Accels : /\ DOMAIN wire' = Accels /\ wire'[a] \in Seq(Writes)
                        /\ ~ InRun(a) => wire'[a] = wire[a]
                        /\ InRun(a) /\ wire[a] = <<>> => wire'[a] = <<DisableWrite>>
  <2>1. wire' = [b \in Accels |-> IF b \in Range(run.accels)
                                    THEN wire[b] \o csrDisableEngines(run.emask) ELSE wire[b]]
    BY DEF Stop, Posts
  <2> QED
    BY <1>1, <2>1, StopWires
<1>4. 1 \in DOMAIN run.accels /\ run.accels[1] \in Accels /\ run.kind \in {"regions", "bandwidth"}
  BY <1>1, Runnable DEF ProgramTypes
<1>5. ProgramTypes' /\ Kinds' /\ Domains'
  BY <1>1, <1>2, <1>3, <1>4 DEF ProgramTypes, Kinds, Labels, Domains, HwUnchanged
<1>6. \A a \in Accels : AccelTypes(a)'
  BY <1>1, <1>2, <1>3
  DEF AccelTypes, HwUnchanged, Engines, Writes, Orders, EngineStates, CountStates
<1>7. ASSUME NEW a \in Accels, ~ InRun(a) PROVE Orderly(a)'
  BY <1>1, <1>2, <1>3, <1>7, HeldOrder DEF Orderly
<1>8. ASSUME NEW a \in Accels, InRun(a) PROVE Orderly(a)'
  <2>1. On(a)
    BY <1>1, <1>2, <1>8 DEF Orderly
  <2>2. /\ state' = state /\ stateReset' = stateReset /\ stateRun' = stateRun
        /\ Mask(a)' = Mask(a) /\ DisableWrite' = DisableWrite /\ InRun(a)' = InRun(a)
        /\ PlaceOf(a, run.accels)' = PlaceOf(a, run.accels)
    BY <1>2 DEF HwUnchanged, Mask, Commanded, Engines, DisableWrite, InRun
  <2>3. Told(a)'
    BY <1>3, <1>8, <2>1, <2>2 DEF On, Told
  <2>4. ~ PlaceOf(a, run.accels) < 1
    BY <1>1, <1>8, OfRun
  <2> QED
    BY <1>2, <1>8, <2>2, <2>3, <2>4 DEF Orderly
<1> QED
  BY <1>3, <1>5, <1>6, <1>7, <1>8 DEF OrderInv, EngTypes

\* A test starts where no command is on its way and no engine is enabled.
LEMMA OrderStart ==
    ASSUME OrderInv, Start
    PROVE  /\ OrderInv' /\ HwUnchanged
           /\ \A a \in Accels :
                /\ ~ InRun(a)' => Off(a)'
                /\ InRun(a)' => /\ Sent(a)'
                                /\ \A e \in Chosen(a)' : \E n \in 1..Len(wire'[a]) - 1 :
                                     wire'[a][n] = ConfigWrite(e)'
<1>1. /\ EngTypes /\ ProgramTypes /\ Domains /\ pc = "choose"
      /\ \A a \in Accels : Orderly(a) /\ AccelTypes(a)
  BY DEF OrderInv, EngTypes, Start
<1>2. PICK r \in Runs :
        /\ run' = r
        /\ Posts(r.accels, LAMBDA a : Config(r, PlaceOf(a, r.accels)) \o csrEnableEngines(r.emask))
        /\ pc' = (IF r.kind = "regions" THEN "pollEnabled" ELSE "waitStart")
  BY DEF Start, Goto
<1>3. /\ HwUnchanged /\ moved' = moved /\ sinceRead' = sinceRead
      /\ at' = 1 /\ tag' = ~ tag /\ afuMhz' = afuMhz /\ misled' = misled
  BY <1>2 DEF Start, Posts
<1>4. wire' = [b \in Accels |->
                 IF b \in Range(r.accels)
                   THEN wire[b] \o (Config(r, PlaceOf(b, r.accels)) \o csrEnableEngines(r.emask))
                   ELSE wire[b]]
  BY <1>2 DEF Posts
<1>5. ASSUME NEW a \in Accels PROVE Off(a) /\ wire[a] = <<>>
  BY <1>1 DEF Orderly, Off
<1>6. ASSUME NEW a \in Accels
      PROVE  /\ DOMAIN wire' = Accels /\ wire'[a] \in Seq(Writes)
             /\ ~ InRun(a)' => wire'[a] = wire[a]
             /\ InRun(a)' =>
                /\ wire'[a] # <<>> /\ wire'[a][Len(wire'[a])] = EnableWrite'
                /\ \A n \in 1..Len(wire'[a]) - 1 : \E e \in Chosen(a)' : wire'[a][n] = ConfigWrite(e)'
                /\ \A e \in Chosen(a)' : \E n \in 1..Len(wire'[a]) - 1 : wire'[a][n] = ConfigWrite(e)'
  <2>1. EngTypes /\ run' = r /\ tag' = ~ tag /\ wire[a] = <<>>
    BY <1>1, <1>2, <1>3, <1>5
  <2> QED
    BY <1>4, <2>1, StartWires
<1>7. 1 \in DOMAIN r.accels /\ r.accels[1] \in Accels /\ r.kind \in {"regions", "bandwidth"}
  BY Runnable
<1>8. DOMAIN wire' = Accels
  <2>1. r.accels[1] \in Accels
    BY <1>7
  <2> QED
    BY <1>6, <2>1
<1>9. pc' \in {"pollEnabled", "waitStart"}
  BY <1>2
<1>10. ProgramTypes' /\ Kinds'
  <2>1. /\ run' \in Runs /\ at' \in DOMAIN run'.accels /\ tag' \in BOOLEAN /\ afuMhz' \in BOOLEAN
        /\ misled' \in BOOLEAN /\ pc' \in Labels
    BY <1>1, <1>2, <1>3, <1>7, <1>9 DEF ProgramTypes, Labels
  <2>2. Kinds'
    BY <1>2, <1>7 DEF Kinds
  <2> QED
    BY <2>1, <2>2 DEF ProgramTypes
<1>11. Domains'
  BY <1>1, <1>3, <1>8 DEF Domains, HwUnchanged
<1>12. ASSUME NEW a \in Accels PROVE AccelTypes(a)'
  <2>1. wire'[a] \in Seq(Writes) /\ AccelTypes(a)
    BY <1>1, <1>6
  <2> QED
    BY <1>3, <2>1 DEF AccelTypes, HwUnchanged, Engines, Writes, Orders, EngineStates, CountStates
<1>13. ASSUME NEW a \in Accels
       PROVE  /\ ~ InRun(a)' => Off(a)'
              /\ InRun(a)' => Sent(a)' /\ Ordering(a)'
  <2>1. /\ state'[a] = "READY" /\ stateReset'[a] = {} /\ stateRun'[a] = {} /\ wire[a] = <<>>
    BY <1>3, <1>5 DEF Off, HwUnchanged
  <2> QED
    BY <1>6, <2>1 DEF Off, Sent, Ordering
<1>14. ASSUME NEW a \in Accels PROVE Orderly(a)'
  BY <1>9, <1>13 DEF Orderly
<1> QED
  BY <1>3, <1>6, <1>10, <1>11, <1>12, <1>13, <1>14 DEF OrderInv, EngTypes

\* The order of commands and the types hold after a step of the program.
LEMMA OrderProgram ==
    ASSUME OrderInv, Program
    PROVE  OrderInv'
  BY OrderReads, OrderSleep, OrderStop, OrderStart DEF Program

\* And when nothing changes.
LEMMA OrderStutter ==
    ASSUME OrderInv, UNCHANGED vars
    PROVE  OrderInv' /\ \A a \in Accels : Local(a)' = Local(a)
<1>1. /\ HwUnchanged /\ wire' = wire /\ moved' = moved /\ sinceRead' = sinceRead
      /\ UNCHANGED swVars /\ run' = run /\ at' = at /\ tag' = tag /\ pc' = pc
      /\ afuMhz' = afuMhz /\ misled' = misled
  BY DEF vars, hwVars, swVars, HwUnchanged
<1>2. /\ EngTypes /\ Kinds /\ Domains /\ ProgramTypes
      /\ \A a \in Accels : Orderly(a) /\ AccelTypes(a)
  BY DEF OrderInv, EngTypes
<1>3. ASSUME NEW a \in Accels PROVE AccelTypes(a)' /\ Orderly(a)'
  <2>1. AccelTypes(a)'
    BY <1>1, <1>2 DEF AccelTypes, HwUnchanged, Engines, Writes, Orders, EngineStates, CountStates
  <2> QED
    BY <1>1, <1>2, <2>1, HeldOrder DEF Orderly
<1>4. Domains' /\ ProgramTypes' /\ Kinds'
  BY <1>1, <1>2 DEF Domains, ProgramTypes, Kinds, HwUnchanged
<1>5. \A a \in Accels : Local(a)' = Local(a)
  BY <1>1 DEF Local, HwUnchanged
<1> QED
  BY <1>3, <1>4, <1>5 DEF OrderInv, EngTypes

\* All accelerators rest, and nothing is on its way.
LEMMA AtRest ==
    ASSUME Init, NEW a \in Accels
    PROVE  /\ AccelTypes(a) /\ Off(a)
           /\ \A k \in Stages : RunAt(a, k) = [reset |-> {}, run |-> {}]
           /\ \A e \in Engines(a) : Still(a, e)
<1>1. /\ RunStages \in Nat \ {0} /\ ActiveStages \in Nat \ {0} /\ CountStages \in Nat \ {0}
      /\ HoldCycles \in Nat \ {0} /\ MaxOut \in Nat \ {0} /\ RoundTrip \in Nat
  BY Constants
<1>2. HardwareInit
  BY DEF Init
<1>3. /\ wire[a] = <<>> /\ sinceRead[a] = RoundTrip /\ state[a] = "READY" /\ holdCnt[a] = 0
      /\ stateReset[a] = {} /\ stateRun[a] = {} /\ someEnabled[a] = FALSE
      /\ countReset[a] = TRUE /\ moved[a] = FALSE
  BY <1>2 DEF HardwareInit
<1>4. runPipe[a] = [i \in 1..RunStages |-> [reset |-> {}, run |-> {}]]
  BY <1>2 DEF HardwareInit, Filled
<1>5. /\ activePipe[a] = [i \in 1..ActiveStages |-> {}] /\ hiddenPipe[a] = activePipe[a]
      /\ countPipe[a] = [i \in 1..CountStages |-> FALSE]
  BY <1>2 DEF HardwareInit, Filled
<1>6. /\ cfg[a] = [e \in Engines(a) |-> [tag |-> FALSE, beats |-> 0]]
      /\ eng[a] = [e \in Engines(a) |-> [tag |-> FALSE, left |-> 0, out |-> 0]]
      /\ counts[a] = [e \in Engines(a) |-> [incr |-> 0, low |-> 0, value |-> 0]]
  BY <1>2 DEF HardwareInit
<1>7. runPipe[a] \in Seq(Orders(a)) /\ Len(runPipe[a]) = RunStages
  <2>1. [reset |-> {}, run |-> {}] \in Orders(a)
    BY DEF Orders
  <2>2. runPipe[a] \in [1..RunStages -> Orders(a)]
    BY <1>4, <2>1
  <2> QED
    BY <1>1, <2>2
<1>8. activePipe[a] \in Seq(SUBSET Engines(a)) /\ Len(activePipe[a]) = ActiveStages
  <2>1. activePipe[a] \in [1..ActiveStages -> SUBSET Engines(a)]
    BY <1>5
  <2> QED
    BY <1>1, <2>1
<1>9. countPipe[a] \in Seq(BOOLEAN) /\ Len(countPipe[a]) = CountStages
  <2>1. countPipe[a] \in [1..CountStages -> BOOLEAN]
    BY <1>5
  <2> QED
    BY <1>1, <2>1
<1>10. /\ cfg[a] \in [Engines(a) -> Settings] /\ eng[a] \in [Engines(a) -> EngineStates]
       /\ counts[a] \in [Engines(a) -> CountStates]
  <2>1. [tag |-> FALSE, beats |-> 0] \in Settings
    BY DEF Settings
  <2>2. [tag |-> FALSE, left |-> 0, out |-> 0] \in EngineStates
    BY <1>1 DEF EngineStates
  <2>3. [incr |-> 0, low |-> 0, value |-> 0] \in CountStates
    BY DEF CountStates
  <2> QED
    BY <1>6, <2>1, <2>2, <2>3
<1>11. wire[a] \in Seq(Writes) /\ sinceRead[a] \in 0..RoundTrip /\ holdCnt[a] \in 0..HoldCycles
  BY <1>1, <1>3
<1>12. AccelTypes(a)
  BY <1>3, <1>5, <1>7, <1>8, <1>9, <1>10, <1>11 DEF AccelTypes
<1>13. ASSUME NEW k \in Stages PROVE RunAt(a, k) = [reset |-> {}, run |-> {}]
  <2>1. k = 0 \/ k \in 1..RunStages
    BY <1>1 DEF Stages
  <2> QED
    BY <1>3, <1>4, <2>1 DEF RunAt
<1>14. \A e \in Engines(a) : Still(a, e)
  BY <1>6 DEF Still
<1> QED
  BY <1>3, <1>12, <1>13, <1>14 DEF Off

\* The program and the CSR managers of its accelerators, in whatever order their
\* steps are taken, for any number of accelerators and engines and any latency:
\* commands keep their order, whatever the flags of the engines say.
THEOREM OrderInvariant == Spec => []OrderInv
<1>1. Init => OrderInv
  <2>1. SUFFICES ASSUME Init PROVE OrderInv
    OBVIOUS
  <2>2. /\ pc = "choose" /\ run \in Runs /\ at = 1 /\ tag = FALSE /\ afuMhz = FALSE
        /\ misled = FALSE /\ HardwareInit
    BY <2>1 DEF Init
  <2>3. ProgramTypes /\ Kinds
    BY <2>2, Runnable DEF ProgramTypes, Kinds, Labels
  <2>4. Domains
    BY <2>2 DEF HardwareInit, Domains
  <2>5. \A a \in Accels : AccelTypes(a) /\ Orderly(a)
    BY <2>1, <2>2, AtRest DEF Orderly
  <2> QED
    BY <2>3, <2>4, <2>5 DEF OrderInv, EngTypes
<1>2. OrderInv /\ [Next]_vars => OrderInv'
  <2>1. SUFFICES ASSUME OrderInv, [Next]_vars PROVE OrderInv'
    OBVIOUS
  <2>2. CASE Program
    BY <2>1, <2>2, OrderProgram
  <2>3. ASSUME NEW a \in Accels, Hardware(a), UNCHANGED swVars PROVE OrderInv'
    BY <2>1, <2>3, OrderHardware
  <2>4. CASE UNCHANGED vars
    BY <2>1, <2>4, OrderStutter
  <2> QED
    BY <2>1, <2>2, <2>3, <2>4 DEF Next
<1> QED
  BY <1>1, <1>2, PTL DEF Spec

\* The types, and that no engine is started that does not exist.
THEOREM EngineTypes == Spec => []TypeOK
<1>1. OrderInv => TypeOK
  <2>1. SUFFICES ASSUME OrderInv PROVE TypeOK
    OBVIOUS
  <2>2. ProgramTypes /\ \A a \in Accels : AccelTypes(a)
    BY <2>1 DEF OrderInv, EngTypes
  <2>3. ASSUME NEW a \in Accels, NEW i \in DOMAIN wire[a]
        PROVE  Space(wire[a][i].index) \in {"control", "engine"}
    <3>1. wire[a] \in Seq(Writes)
      BY <2>2 DEF AccelTypes
    <3>2. wire[a][i] \in Writes
      BY <3>1
    <3> QED
      BY <3>2 DEF Writes, IsEnable, IsDisable, IsCommand
  <2>4. ASSUME NEW a \in Accels
        PROVE  /\ \A i \in 1..ActiveStages : activePipe[a][i] \subseteq Engines(a)
               /\ \A e \in Engines(a) : eng[a][e].out \in 0..MaxOut
    <3>1. AccelTypes(a)
      BY <2>2
    <3> QED
      BY <3>1, Constants DEF AccelTypes, EngineStates
  <2> QED
    BY <2>2, <2>3, <2>4 DEF TypeOK, ProgramTypes, AccelTypes
<1> QED
  BY <1>1, OrderInvariant, PTL

\* No command arrives when the state machine would ignore it.
THEOREM CommandsTaken == Spec => NoCommandIsLost
<1>1. ASSUME OrderInv, NEW a \in Accels, wire[a] # <<>> PROVE state[a] = "READY"
  BY <1>1, Writable DEF OrderInv, EngTypes, ProgramTypes
<1>2. OrderInv => [\A a \in Accels :
          wire[a] # <<>> /\ wire'[a] = Tail(wire[a]) /\ IsCommand(Head(wire[a]))
          => state[a] = "READY"]_vars
  BY <1>1
<1> QED
  BY <1>2, OrderInvariant, PTL DEF NoCommandIsLost

-----------------------------------------------------------------------------
(* What the engines do, while the program is not misled                    *)

\* An engine that is neither shown to be active nor too late to be has nothing in
\* flight, and requests nothing.
LEMMA StillUnlessShown ==
    ASSUME NEW a \in Accels, AccelTypes(a), Conserved(a), NEW e \in Engines(a) \ ShownAt(a, 0)
    PROVE  Still(a, e) /\ ~ Asks(a, e)
<1>1. Last(runPipe[a]) = RunAt(a, RunStages)
  BY Constants DEF AccelTypes, Last, RunAt
<1>2. ~ StatusActive(a, e) /\ ~ Hidden(a, e)
  BY DEF ShownAt, Busy, Late
<1>3. /\ counts[a][e].incr = 0 /\ counts[a][e].low = 0 /\ counts[a][e].value = 0
      /\ ~ (e \in Last(runPipe[a]).run /\ eng[a][e].left # 0)
  BY <1>2 DEF StatusActive, Hidden
<1>4. eng[a][e].out = 0
  BY <1>3 DEF Conserved
<1> QED
  BY <1>1, <1>3, <1>4 DEF Still, Asks

\* And the other way round.
LEMMA NotShownIfStill ==
    ASSUME NEW a \in Accels, AccelTypes(a), NEW e \in Engines(a), Still(a, e), ~ Asks(a, e)
    PROVE  e \notin ShownAt(a, 0)
<1>1. Last(runPipe[a]) = RunAt(a, RunStages)
  BY Constants DEF AccelTypes, Last, RunAt
<1> QED
  BY <1>1 DEF ShownAt, Busy, Late, StatusActive, Hidden, Still, Asks

\* What is in flight is counted, for no engine is reset that has something in flight.
LEMMA ConservedStep ==
    ASSUME NEW a \in Accels, EngTypes, Hardware(a), ResetsAreSafe(a), Conserved(a)
    PROVE  Conserved(a)'
<1>1. AccelTypes(a)
  BY DEF EngTypes
<1>2. CASE WriteArrives(a)
  <2>1. eng'[a] = eng[a] /\ counts'[a] = counts[a]
    BY <1>2, WriteEffect DEF WriteTakes
  <2> QED
    BY <2>1 DEF Conserved, Engines
<1>3. CASE Tick(a)
  <2>1. TickTakes(a) /\ AccelTypes(a)'
    BY <1>3, TickEffect
  <2>2. ASSUME NEW e \in Engines(a)
        PROVE  eng'[a][e].out = counts'[a][e].low + counts'[a][e].incr
    <3>1. EngineTakes(a, e)
      BY <2>1 DEF TickTakes
    <3>2. CASE e \in RunAt(a, RunStages).reset
      <4>1. RunStages \in Stages /\ RunStages \in RunStages..RunStages
        BY Constants DEF Stages
      <4>2. Still(a, e) /\ ~ Asks(a, e)
        BY <3>2, <4>1 DEF ResetsAreSafe, Asks
      <4>3. Still(a, e)'
        BY <1>1, <2>1, <4>2, TickStages
      <4> QED
        BY <4>3 DEF Still
    <3>3. CASE e \notin RunAt(a, RunStages).reset
      <4>1. /\ eng[a][e].out \in Nat /\ counts[a][e].low \in Int /\ counts[a][e].incr \in Int
            /\ eng[a][e].out = counts[a][e].low + counts[a][e].incr
        BY <1>1, Constants DEF AccelTypes, EngineStates, CountStates, Conserved
      <4>2. /\ eng'[a][e].out \in Nat /\ counts'[a][e].incr = eng'[a][e].out - eng[a][e].out
            /\ counts'[a][e].low = counts[a][e].low + counts[a][e].incr
        BY <3>1, <3>3 DEF EngineTakes
      <4> QED
        BY <4>1, <4>2
    <3> QED
      BY <3>2, <3>3
  <2> QED
    BY <2>2 DEF Conserved, Engines
<1> QED
  BY <1>2, <1>3 DEF Hardware

\* An engine that is dead stays so: it requests nothing.
LEMMA DeadTick ==
    ASSUME NEW a \in Accels, AccelTypes(a), TickTakes(a), Dead(a)
    PROVE  /\ Dead(a)'
           /\ \A e \in Engines(a) : eng'[a][e].tag = eng[a][e].tag /\ eng'[a][e].left = eng[a][e].left
<1>0. RunStages \in Stages
  BY Constants DEF Stages
<1>1. \A k \in Stages : RunAt(a, k).reset = {}
  BY DEF Dead
<1>2. RunAt(a, 0)'.reset = {} /\ RunAt(a, 0)'.run = RunAt(a, 0).run
  BY <1>1, TickStages
<1>3. \A e \in Engines(a) : Still(a, e) /\ ~ Asks(a, e)
  BY <1>0 DEF Dead, Asks
<1>4. \A e \in Engines(a) : /\ eng'[a][e].tag = eng[a][e].tag /\ eng'[a][e].left = eng[a][e].left
                            /\ Still(a, e)'
  BY <1>0, <1>1, <1>3, TickStages
<1>5. \A k \in Stages : RunAt(a, k)'.reset = {}
  BY <1>1, <1>2, TickStages
<1>6. ASSUME NEW k \in Stages, NEW e \in RunAt(a, k)'.run PROVE eng'[a][e].left = 0
  <2>1. PICK n \in Stages : e \in RunAt(a, n).run
    BY <1>2, <1>6, TickStages
  <2> QED
    BY <1>4, <2>1, StageTypes DEF Dead
<1> QED
  BY <1>4, <1>5, <1>6 DEF Dead, Engines, Stages

\* The engines that were not started stay as they are.
LEMMA OthersTick ==
    ASSUME NEW a \in Accels, AccelTypes(a), TickTakes(a), OthersDead(a), UNCHANGED swVars
    PROVE  OthersDead(a)'
<1>0. RunStages \in Stages
  BY Constants DEF Stages
<1>1. \A k \in Stages : RunAt(a, k).reset \subseteq Mask(a)
  BY DEF OthersDead
<1>2. /\ RunAt(a, 0)'.reset \subseteq Mask(a)
      /\ RunAt(a, 0)'.run \subseteq RunAt(a, 0).run \cup Mask(a)
  BY <1>1, TickStages
<1>3. \A e \in Engines(a) \ Mask(a) : Still(a, e) /\ ~ Asks(a, e)
  BY <1>0 DEF OthersDead, Asks
<1>4. \A e \in Engines(a) \ Mask(a) : eng'[a][e].left = eng[a][e].left /\ Still(a, e)'
  BY <1>0, <1>1, <1>3, TickStages
<1>5. \A k \in Stages : RunAt(a, k)'.reset \subseteq Mask(a)
  BY <1>1, <1>2, TickStages
<1>6. ASSUME NEW k \in Stages, NEW e \in RunAt(a, k)'.run \ Mask(a) PROVE eng'[a][e].left = 0
  <2>1. PICK n \in Stages : e \in RunAt(a, n).run
    BY <1>2, <1>6, TickStages
  <2> QED
    BY <1>4, <1>6, <2>1, StageTypes DEF OthersDead
<1>7. Mask(a)' = Mask(a)
  BY SameRun
<1> QED
  BY <1>4, <1>5, <1>6, <1>7 DEF OthersDead, Engines, Stages

\* An engine takes what it was configured to do when it leaves reset, and keeps it
\* while it requests and is answered.
LEMMA TakenTick ==
    ASSUME NEW a \in Accels, AccelTypes(a), TickTakes(a), UNCHANGED swVars
    PROVE  /\ WillTake(a) => WillTake(a)'
           /\ Taken(a) /\ (\A k \in Stages : RunAt(a, k).reset = {}) => Taken(a)'
<1>1. Configured(a) => Configured(a)'
  BY SameRun DEF Configured, TickTakes
<1>2. Mask(a)' = Mask(a) /\ Chosen(a)' = Chosen(a) /\ run' = run /\ tag' = tag
  BY SameRun
<1>3. RunStages \in Stages /\ Mask(a) \subseteq Engines(a)
  BY Constants DEF Stages, Mask, Commanded
<1>4. ASSUME Taken(a), NEW e \in Mask(a) \cap Chosen(a),
             e \in RunAt(a, RunStages).reset => cfg[a][e] = Value
      PROVE  eng'[a][e].tag = tag /\ (run.beats = Unlimited => eng'[a][e].left = Unlimited)
  <2>1. e \in Engines(a)
    BY <1>3
  <2>2. CASE e \in RunAt(a, RunStages).reset
    BY <1>4, <2>1, <2>2, TickStages DEF Value
  <2>3. CASE e \notin RunAt(a, RunStages).reset
    BY <1>4, <2>1, <2>3, TickStages DEF Taken
  <2> QED
    BY <2>2, <2>3
<1>5. ASSUME Taken(a), \A k \in Stages : RunAt(a, k).reset = {} PROVE Taken(a)'
  BY <1>2, <1>3, <1>4, <1>5 DEF Taken
<1>6. ASSUME WillTake(a) PROVE WillTake(a)'
  <2>1. CASE \E k \in Stages : k # RunStages /\ RunAt(a, k).reset = Mask(a)
    <3>1. PICK k \in Stages : k # RunStages /\ RunAt(a, k).reset = Mask(a)
      BY <2>1
    <3>2. k + 1 \in 1..RunStages /\ (k + 1) - 1 = k
      BY <3>1, Constants DEF Stages
    <3>3. RunAt(a, k + 1)'.reset = Mask(a) /\ k + 1 \in Stages
      BY <3>1, <3>2, TickStages
    <3> QED
      BY <1>1, <1>2, <1>6, <3>3 DEF WillTake, Stages
  <2>2. CASE RunAt(a, RunStages).reset = Mask(a)
    <3>1. ASSUME NEW e \in Mask(a) \cap Chosen(a)
          PROVE  eng'[a][e].tag = tag /\ eng'[a][e].left = run.beats
      <4>1. e \in Engines(a) /\ cfg[a][e] = Value
        BY <1>3, <1>6 DEF WillTake, Configured
      <4> QED
        BY <2>2, <4>1, TickStages DEF Value
    <3> QED
      BY <1>1, <1>2, <1>6, <3>1 DEF WillTake, Taken
  <2>3. CASE Taken(a)
    <3>1. Taken(a)'
      BY <1>2, <1>4, <1>6, <2>3 DEF WillTake, Configured, Taken
    <3> QED
      BY <1>1, <1>6, <3>1 DEF WillTake
  <2> QED
    BY <1>6, <2>1, <2>2, <2>3 DEF WillTake
<1> QED
  BY <1>5, <1>6

\* Nothing happens to an accelerator at rest but that its clock runs.
LEMMA RestingStep ==
    ASSUME NEW a \in Accels, EngTypes, Hardware(a), UNCHANGED swVars, Resting(a)
    PROVE  /\ Tick(a) /\ TickTakes(a) /\ AccelTypes(a) /\ Resting(a)'
           /\ \A e \in Engines(a) : eng'[a][e].tag = eng[a][e].tag /\ eng'[a][e].left = eng[a][e].left
<1>1. AccelTypes(a)
  BY DEF EngTypes
<1>2. ~ WriteArrives(a)
  BY DEF Resting, Off, WriteArrives
<1>3. Tick(a) /\ TickTakes(a)
  BY <1>2, TickEffect DEF Hardware
<1>4. Off(a)'
  BY <1>3, OrderTick DEF Resting
<1> QED
  BY <1>1, <1>3, <1>4, DeadTick DEF Resting

\* The writes that start a run arrive one after the other, the command last.
LEMMA OrderedWrite ==
    ASSUME NEW a \in Accels, AccelTypes(a), WriteTakes(a), UNCHANGED swVars,
           Chosen(a) \subseteq Engines(a), Ordered(a)
    PROVE  Ordered(a)' \/ (Starting(a)' /\ OthersDead(a)')
<1> DEFINE w == wire[a]
<1>1. /\ Sent(a) /\ Dead(a)
      /\ \A e \in Chosen(a) : cfg[a][e] = Value \/ \E n \in 1..Len(w) - 1 : w[n] = ConfigWrite(e)
  BY DEF Ordered
<1>2. /\ run' = run /\ tag' = tag /\ Mask(a)' = Mask(a) /\ Chosen(a)' = Chosen(a)
      /\ Value' = Value
      /\ \A e \in Chosen(a) : ConfigWrite(e)' = ConfigWrite(e)
  BY SameRun
<1>3. /\ eng'[a] = eng[a] /\ counts'[a] = counts[a]
      /\ \A k \in Stages : k # 0 => RunAt(a, k)' = RunAt(a, k)
      /\ 0 \in Stages /\ Len(w) \in Nat
  BY Constants DEF WriteTakes, RunAt, Stages, AccelTypes
<1>4. /\ \A k \in Stages : RunAt(a, k).reset = {} /\ \A e \in RunAt(a, k).run : eng[a][e].left = 0
      /\ \A e \in Engines(a) : Still(a, e)'
  BY <1>1, <1>3 DEF Dead, Still
<1>5. CASE /\ Len(w) = 1 /\ InHand(a)' /\ cfg'[a] = cfg[a]
           /\ RunAt(a, 0)'.reset = Mask(a) /\ RunAt(a, 0)'.run = {} /\ state'[a] = "HOLD_RESET"
  <2>1. \A e \in Chosen(a) : cfg'[a][e] = Value
    BY <1>1, <1>5
  <2>2. WillTake(a)'
    BY <1>2, <1>3, <1>5, <2>1 DEF WillTake, Configured, Stages
  <2>3. \A k \in Stages : /\ RunAt(a, k)'.reset \subseteq Mask(a)
                          /\ \A e \in RunAt(a, k)'.run : eng'[a][e].left = 0
    BY <1>3, <1>4, <1>5
  <2>4. OthersDead(a)'
    BY <1>2, <1>4, <2>3 DEF OthersDead, Stages, Engines
  <2>5. Starting(a)'
    BY <1>5, <2>2 DEF Starting
  <2> QED
    BY <2>4, <2>5
<1>6. CASE /\ Sent(a)' /\ RunAt(a, 0)' = RunAt(a, 0)
           /\ \A n \in 2..Len(w) - 1 : n - 1 \in 1..Len(wire'[a]) - 1 /\ wire'[a][n - 1] = w[n]
           /\ \E e \in Chosen(a) :
                /\ w[1] = ConfigWrite(e)
                /\ \A d \in Engines(a) : cfg'[a][d] = IF d = e THEN Value ELSE cfg[a][d]
  <2>1. PICK e \in Chosen(a) :
          /\ w[1] = ConfigWrite(e)
          /\ \A d \in Engines(a) : cfg'[a][d] = IF d = e THEN Value ELSE cfg[a][d]
    BY <1>6
  <2>2. e \in Engines(a)
    BY <2>1
  <2>3. \A k \in Stages : RunAt(a, k)' = RunAt(a, k)
    BY <1>3, <1>6
  <2>4. Dead(a)'
    BY <1>3, <1>4, <2>3 DEF Dead, Stages, Engines
  <2>5. ASSUME NEW d \in Chosen(a), cfg'[a][d] # Value
        PROVE  \E n \in 1..Len(wire'[a]) - 1 : wire'[a][n] = ConfigWrite(d)
    <3>1. d # e /\ d \in Engines(a) /\ cfg[a][d] # Value
      BY <2>1, <2>5
    <3>2. PICK n \in 1..Len(w) - 1 : w[n] = ConfigWrite(d)
      BY <1>1, <3>1
    <3>3. n # 1
      BY <2>1, <2>2, <3>1, <3>2, Meant
    <3>4. n \in 2..Len(w) - 1
      BY <1>3, <3>2, <3>3
    <3>5. n - 1 \in 1..Len(wire'[a]) - 1 /\ wire'[a][n - 1] = w[n]
      BY <1>6, <3>4
    <3> QED
      BY <3>2, <3>5
  <2> QED
    BY <1>2, <1>6, <2>4, <2>5 DEF Ordered
<1> QED
  BY <1>1, <1>5, <1>6, SentWrite

\* Engines that were ordered to start do so.
LEMMA ComingStep ==
    ASSUME NEW a \in Accels, EngTypes, Hardware(a), UNCHANGED swVars,
           Chosen(a) \subseteq Engines(a), Coming(a)
    PROVE  Coming(a)'
<1>1. AccelTypes(a)
  BY DEF EngTypes
<1>2. CASE WriteArrives(a)
  <2>1. WriteTakes(a)
    BY <1>2, WriteEffect
  <2>2. Ordered(a)
    BY <1>2 DEF Coming, Starting, Started, InHand, On, WriteArrives
  <2>3. CASE Ordered(a)'
    <3> QED
      BY <2>3, SameRun DEF Coming, Ordered, OthersDead, Dead, Stages, Engines
  <2> QED
    BY <1>1, <2>1, <2>2, <2>3, OrderedWrite DEF Coming
<1>3. CASE Tick(a)
  <2>1. TickTakes(a) /\ OthersDead(a)'
    BY <1>1, <1>3, TickEffect, OthersTick DEF Coming
  <2>2. CASE Ordered(a)
    <3>1. Dead(a)' /\ Sent(a)' /\ wire'[a] = wire[a] /\ cfg'[a] = cfg[a]
      BY <1>1, <2>1, <2>2, DeadTick, OrderTick DEF Ordered, TickTakes
    <3> QED
      BY <2>1, <2>2, <3>1, SameRun DEF Coming, Ordered
  <2>3. CASE Starting(a)
    <3>1. WillTake(a)' /\ Mask(a)' = Mask(a)
      BY <1>1, <2>1, <2>3, TakenTick, SameRun DEF Starting
    <3>2. InHand(a)' \/ On(a)'
      BY <2>1, <2>3, OrderTick DEF Starting
    <3>3. CASE state[a] = "ENG_START"
      <4>1. state'[a] = "READY" /\ ~ countReset'[a]
        BY <2>1, <2>3, <3>3 DEF TickTakes, Starting
      <4> QED
        BY <2>1, <3>1, <3>2, <4>1 DEF Coming, Started, InHand
    <3>4. CASE state[a] # "ENG_START"
      <4>1. state'[a] # "READY" /\ (state'[a] = "ENG_START" => ~ countReset'[a])
        BY <2>1, <2>3, <3>4 DEF TickTakes, Starting, InHand
      <4> QED
        BY <2>1, <3>1, <3>2, <4>1 DEF Coming, Starting, On
    <3> QED
      BY <3>3, <3>4
  <2>4. CASE Started(a)
    <3>1. WillTake(a)' /\ On(a)' /\ ~ countReset'[a]
      BY <1>1, <2>1, <2>4, TakenTick, OrderTick DEF Started, On, TickTakes
    <3> QED
      BY <2>1, <3>1 DEF Coming, Started
  <2> QED
    BY <2>2, <2>3, <2>4 DEF Coming
<1> QED
  BY <1>2, <1>3 DEF Hardware

\* What software sees is what the engines do: the engine's registers take their
\* time, and the next read comes later than that.
LEMMA WatchedStep ==
    ASSUME NEW a \in Accels, EngTypes, Hardware(a), UNCHANGED swVars, Watched(a), Conserved(a)
    PROVE  Watched(a)'
<1>1. AccelTypes(a) /\ OthersDead(a) /\ Started(a)
  BY DEF EngTypes, Watched
<1>2. Mask(a)' = Mask(a) /\ Mask(a) \subseteq Engines(a)
  BY SameRun DEF Mask, Commanded
<1>3. /\ RunStages \in Nat \ {0} /\ ActiveStages \in Nat \ {0} /\ RoundTrip \in Nat
      /\ RoundTrip >= RunStages + ActiveStages /\ sinceRead[a] \in 0..RoundTrip
  BY <1>1, Constants DEF AccelTypes
<1>4. /\ On(a) /\ wire[a] = <<>> /\ state[a] = "READY" /\ stateRun[a] = Mask(a)
      /\ stateReset[a] = {} /\ ~ countReset[a] /\ WillTake(a)
  BY <1>1 DEF Started, On
<1>5. ~ WriteArrives(a)
  BY <1>4 DEF WriteArrives
<1>6. TickTakes(a)
  BY <1>5, TickEffect DEF Hardware
<1>7. OthersDead(a)' /\ WillTake(a)'
  BY <1>1, <1>4, <1>6, OthersTick, TakenTick
<1>8. Started(a)'
  BY <1>4, <1>6, <1>7, OrderTick DEF Started, TickTakes
<1>9. sinceRead'[a] = IF sinceRead[a] < RoundTrip THEN sinceRead[a] + 1 ELSE sinceRead[a]
  BY <1>6 DEF TickTakes
<1>10. RunAt(a, 0)' = RunAt(a, 0)
  BY <1>1, <1>4, <1>6, TickStages
<1>11. ASSUME NEW k \in 1..RunStages, k <= sinceRead'[a]
       PROVE  RunAt(a, k)' = RunAt(a, 0)
  <2>1. k = 1 \/ (k - 1 \in 1..RunStages /\ k - 1 <= sinceRead[a])
    BY <1>3, <1>9, <1>11
  <2> QED
    BY <1>1, <1>6, <2>1, TickStages DEF Watched
<1>12. ASSUME NEW i \in 1..ActiveStages, i + RunStages <= sinceRead'[a],
              NEW e \in Mask(a) \ ShownAt(a, i)'
       PROVE  eng'[a][e].left = 0 /\ Still(a, e)'
  <2>1. RunStages <= sinceRead[a] /\ RunStages \in 1..RunStages
    BY <1>3, <1>9, <1>12
  <2>2. RunAt(a, RunStages) = RunAt(a, 0)
    BY <2>1 DEF Watched
  <2>3. RunAt(a, RunStages).reset = {} /\ RunAt(a, RunStages).run = Mask(a)
    BY <1>4, <2>2 DEF RunAt
  <2>4. e \in Engines(a) /\ e \notin ShownAt(a, i - 1)
    BY <1>2, <1>6, <1>12 DEF TickTakes
  <2>5. eng[a][e].left = 0 /\ Still(a, e)
    <3>1. CASE i = 1
      <4>1. e \in Engines(a) \ ShownAt(a, 0)
        BY <2>4, <3>1
      <4>2. Still(a, e) /\ ~ Asks(a, e)
        BY <1>1, <4>1, StillUnlessShown
      <4> QED
        BY <2>3, <4>2 DEF Asks
    <3>2. CASE i # 1
      <4>1. i - 1 \in 1..ActiveStages /\ (i - 1) + RunStages <= sinceRead[a]
        BY <1>3, <1>9, <1>12, <3>2
      <4> QED
        BY <2>4, <4>1 DEF Watched
    <3> QED
      BY <3>1, <3>2
  <2>6. ~ Asks(a, e)
    BY <2>5 DEF Asks
  <2> QED
    BY <1>1, <1>6, <2>3, <2>4, <2>5, <2>6, TickStages
<1> QED
  BY <1>2, <1>7, <1>8, <1>10, <1>11, <1>12 DEF Watched

\* Engines that are done stay so, while the command to stop them is on its way.
LEMMA FinishedStep ==
    ASSUME NEW a \in Accels, EngTypes, Hardware(a), UNCHANGED swVars, Complete(a)
    PROVE  Complete(a)'
<1>1. AccelTypes(a) /\ Stopping(a) /\ Dead(a)
  BY DEF EngTypes, Complete
<1>2. /\ Mask(a)' = Mask(a) /\ Chosen(a)' = Chosen(a) /\ run' = run /\ tag' = tag /\ pc' = pc
      /\ Mask(a) \subseteq Engines(a)
  BY SameRun DEF Mask, Commanded
<1>3. CASE WriteArrives(a)
  <2>1. WriteTakes(a)
    BY <1>3, WriteEffect
  <2>2. Told(a) /\ pc # "stop"
    BY <1>1, <2>1 DEF Stopping, On, WriteTakes
  <2>3. /\ Told(a)' /\ eng'[a] = eng[a] /\ counts'[a] = counts[a]
        /\ \A k \in Stages : k # 0 => RunAt(a, k)' = RunAt(a, k)
        /\ RunAt(a, 0)'.reset = RunAt(a, 0).reset /\ RunAt(a, 0)'.run \subseteq RunAt(a, 0).run
    BY <1>1, <2>1, <2>2, ToldWrite DEF WriteTakes
  <2>4. Dead(a)'
    <3>1. \A k \in Stages : /\ RunAt(a, k)'.reset = {}
                            /\ \A e \in RunAt(a, k)'.run : eng'[a][e].left = 0
      BY <1>1, <2>3 DEF Dead
    <3>2. \A e \in Engines(a) : Still(a, e)'
      BY <1>1, <2>3 DEF Dead, Still
    <3> QED
      BY <3>1, <3>2 DEF Dead, Stages, Engines
  <2> QED
    BY <1>2, <2>2, <2>3, <2>4 DEF Complete, Stopping, Taken
<1>4. CASE Tick(a)
  <2>1. TickTakes(a)
    BY <1>4, TickEffect
  <2>2. /\ Dead(a)'
        /\ \A e \in Engines(a) : eng'[a][e].tag = eng[a][e].tag /\ eng'[a][e].left = eng[a][e].left
    BY <1>1, <2>1, DeadTick
  <2>3. Stopping(a)'
    BY <1>1, <1>2, <2>1, OrderTick DEF Stopping
  <2> QED
    BY <1>2, <2>2, <2>3 DEF Complete, Taken
<1> QED
  BY <1>3, <1>4 DEF Hardware

\* Engines that were told to stop only ever become idle, in the order in which
\* the registers see it.
LEMMA SlowingStep ==
    ASSUME NEW a \in Accels, EngTypes, Hardware(a), UNCHANGED swVars, Slowing(a), Conserved(a)
    PROVE  Slowing(a)'
<1>1. /\ AccelTypes(a) /\ Stopping(a) /\ Taken(a) /\ ~ countReset[a]
      /\ \A k \in Stages : RunAt(a, k).reset = {}
      /\ \A j, k \in Stages : j <= k => RunAt(a, j).run \subseteq RunAt(a, k).run
      /\ \A i, j \in 0..ActiveStages : i <= j => ShownAt(a, i) \subseteq ShownAt(a, j)
  BY DEF EngTypes, Slowing
<1>2. /\ Mask(a)' = Mask(a) /\ Chosen(a)' = Chosen(a) /\ run' = run /\ tag' = tag /\ pc' = pc
      /\ Mask(a) \subseteq Engines(a)
  BY SameRun DEF Mask, Commanded
<1>3. RunStages \in Nat \ {0} /\ ActiveStages \in Nat \ {0} /\ RunStages \in Stages
  BY Constants DEF Stages
<1>5. CASE WriteArrives(a)
  <2>1. WriteTakes(a)
    BY <1>5, WriteEffect
  <2>2. Told(a) /\ pc # "stop"
    BY <1>1, <2>1 DEF Stopping, On, WriteTakes
  <2>3. /\ Told(a)' /\ eng'[a] = eng[a] /\ counts'[a] = counts[a]
        /\ activePipe'[a] = activePipe[a] /\ hiddenPipe'[a] = hiddenPipe[a]
        /\ runPipe'[a] = runPipe[a] /\ countReset'[a] = countReset[a]
        /\ \A k \in Stages : k # 0 => RunAt(a, k)' = RunAt(a, k)
        /\ RunAt(a, 0)'.reset = RunAt(a, 0).reset /\ RunAt(a, 0)'.run \subseteq RunAt(a, 0).run
    BY <1>1, <2>1, <2>2, ToldWrite DEF WriteTakes
  <2>4. Taken(a)' /\ Stopping(a)'
    BY <1>1, <1>2, <2>2, <2>3 DEF Taken, Stopping
  <2>5. \A k \in Stages : RunAt(a, k)'.reset = {}
    BY <1>1, <2>3
  <2>6. ASSUME NEW j \in Stages, NEW k \in Stages, j <= k
        PROVE  RunAt(a, j)'.run \subseteq RunAt(a, k)'.run
    <3>1. RunAt(a, j)'.run \subseteq RunAt(a, j).run
      BY <2>3
    <3>2. k = 0 => j = 0
      BY <1>3, <2>6 DEF Stages
    <3> QED
      BY <1>1, <2>3, <2>6, <3>1, <3>2
  <2>7. Busy(a)' = Busy(a) /\ Late(a)' = Late(a)
    BY <2>3 DEF Busy, Late, StatusActive, Hidden, Engines
  <2>8. \A i, j \in 0..ActiveStages : i <= j => ShownAt(a, i)' \subseteq ShownAt(a, j)'
    BY <1>1, <2>3, <2>7 DEF ShownAt
  <2> QED
    BY <1>1, <2>3, <2>4, <2>5, <2>6, <2>8 DEF Slowing, Stages
<1>6. CASE Tick(a)
  <2>1. TickTakes(a) /\ AccelTypes(a)'
    BY <1>6, TickEffect
  <2>2. Stopping(a)' /\ ~ countReset'[a]
    BY <1>1, <1>2, <2>1, OrderTick DEF Stopping, On, Told, TickTakes
  <2>3. Taken(a)'
    BY <1>1, <2>1, TakenTick
  <2>4. RunAt(a, 0)' = RunAt(a, 0)
    BY <1>1, <2>1, TickStages DEF Stopping, On, Told
  <2>5. \A k \in Stages : RunAt(a, k)'.reset = {}
    BY <1>1, <2>1, <2>4, TickStages
  <2>6. ASSUME NEW j \in Stages, NEW k \in Stages, j <= k
        PROVE  RunAt(a, j)'.run \subseteq RunAt(a, k)'.run
    <3>1. CASE j = 0 /\ k = 0
      BY <3>1
    <3>2. CASE j = 0 /\ k # 0
      <4>1. k \in 1..RunStages /\ k - 1 \in Stages /\ 0 \in Stages /\ 0 <= k - 1
        BY <1>3, <3>2 DEF Stages
      <4>2. RunAt(a, k)' = RunAt(a, k - 1)
        BY <1>1, <2>1, <4>1, TickStages
      <4> QED
        BY <1>1, <2>4, <3>2, <4>1, <4>2
    <3>3. CASE j # 0
      <4>1. /\ k \in 1..RunStages /\ k - 1 \in Stages
            /\ j \in 1..RunStages /\ j - 1 \in Stages /\ j - 1 <= k - 1
        BY <1>3, <2>6, <3>3 DEF Stages
      <4>2. RunAt(a, k)' = RunAt(a, k - 1) /\ RunAt(a, j)' = RunAt(a, j - 1)
        BY <1>1, <2>1, <4>1, TickStages
      <4> QED
        BY <1>1, <4>1, <4>2
    <3> QED
      BY <3>1, <3>2, <3>3
  <2>7. ASSUME NEW e \in ShownAt(a, 0)' PROVE e \in ShownAt(a, 0)
    <3>1. e \in Engines(a)
      BY <2>7 DEF ShownAt, Busy, Late, Engines
    <3>2. SUFFICES ASSUME e \notin ShownAt(a, 0) PROVE FALSE
      OBVIOUS
    <3>3. Still(a, e) /\ ~ Asks(a, e)
      BY <1>1, <3>1, <3>2, StillUnlessShown
    <3>4. e \in Engines(a) \ RunAt(a, RunStages).reset
      BY <1>1, <1>3, <3>1
    <3>5. Still(a, e)' /\ eng'[a][e].left = eng[a][e].left
      BY <1>1, <2>1, <3>3, <3>4, TickStages
    <3>6. RunAt(a, RunStages)'.run \subseteq RunAt(a, RunStages).run
      <4>1. RunStages \in 1..RunStages /\ RunStages - 1 \in Stages /\ RunStages - 1 <= RunStages
        BY <1>3 DEF Stages
      <4>2. RunAt(a, RunStages)' = RunAt(a, RunStages - 1)
        BY <1>1, <2>1, <4>1, TickStages
      <4> QED
        BY <1>1, <1>3, <4>1, <4>2
    <3>7. ~ Asks(a, e)'
      BY <3>3, <3>5, <3>6 DEF Asks
    <3>8. Last(runPipe'[a]) = RunAt(a, RunStages)'
      BY <1>3, <2>1 DEF AccelTypes, Last, RunAt
    <3> QED
      BY <2>7, <3>5, <3>7, <3>8 DEF ShownAt, Busy, Late, StatusActive, Hidden, Still, Asks
  <2>9. ASSUME NEW i \in 0..ActiveStages, NEW j \in 0..ActiveStages, i <= j
        PROVE  ShownAt(a, i)' \subseteq ShownAt(a, j)'
    <3>1. ShownAt(a, 0)' \subseteq ShownAt(a, 0)
      BY <2>7
    <3>2. CASE j = 0
      <4>1. i = 0
        BY <1>3, <2>9, <3>2
      <4> QED
        BY <3>2, <4>1
    <3>3. CASE i = 0 /\ j # 0
      <4>1. j \in 1..ActiveStages /\ j - 1 \in 0..ActiveStages /\ 0 <= j - 1
        BY <1>3, <3>3
      <4>2. ShownAt(a, j)' = ShownAt(a, j - 1)
        BY <2>1, <4>1 DEF TickTakes
      <4>3. 0 \in 0..ActiveStages
        BY <1>3
      <4>4. ShownAt(a, 0) \subseteq ShownAt(a, j - 1)
        BY <1>1, <4>1, <4>3
      <4> QED
        BY <3>1, <3>3, <4>2, <4>4
    <3>4. CASE i # 0
      <4>1. /\ j \in 1..ActiveStages /\ j - 1 \in 0..ActiveStages
            /\ i \in 1..ActiveStages /\ i - 1 \in 0..ActiveStages /\ i - 1 <= j - 1
        BY <1>3, <2>9, <3>4
      <4>2. ShownAt(a, j)' = ShownAt(a, j - 1) /\ ShownAt(a, i)' = ShownAt(a, i - 1)
        BY <2>1, <4>1 DEF TickTakes
      <4> QED
        BY <1>1, <4>1, <4>2
    <3> QED
      BY <3>2, <3>3, <3>4
  <2> QED
    BY <2>2, <2>3, <2>5, <2>6, <2>9 DEF Slowing, Stages
<1> QED
  BY <1>5, <1>6 DEF Hardware

\* Once its engines have stopped, the clock of an accelerator is all that runs.
LEMMA StoppedStep ==
    ASSUME NEW a \in Accels, EngTypes, Hardware(a), UNCHANGED swVars, Stopped(a)
    PROVE  /\ Stopped(a)' /\ Tick(a) /\ TickTakes(a)
           /\ Last(activePipe[a]) = {}
<1>1. AccelTypes(a) /\ Resting(a) /\ Dead(a) /\ Off(a)
  BY DEF EngTypes, Stopped, Resting
<1>2. /\ Tick(a) /\ TickTakes(a) /\ Resting(a)'
      /\ \A e \in Engines(a) : eng'[a][e].tag = eng[a][e].tag /\ eng'[a][e].left = eng[a][e].left
  BY <1>1, RestingStep
<1>3. Taken(a)'
  BY <1>1, <1>2, TakenTick DEF Stopped, Dead
<1>4. countReset'[a] = countReset[a]
  BY <1>1, <1>2 DEF TickTakes, Off
<1>5. RunStages \in Nat \ {0} /\ ActiveStages \in Nat \ {0} /\ RunStages \in Stages
  BY Constants DEF Stages
<1>6. ShownAt(a, 0) = {}
  <2>1. \A e \in Engines(a) : Still(a, e) /\ ~ Asks(a, e)
    BY <1>1, <1>5 DEF Dead, Asks
  <2>2. \A e \in Engines(a) : e \notin ShownAt(a, 0)
    BY <1>1, <2>1, NotShownIfStill
  <2>3. ShownAt(a, 0) \subseteq Engines(a)
    BY DEF ShownAt, Busy, Late
  <2> QED
    BY <2>2, <2>3
<1>7. ASSUME NEW i \in 1..ActiveStages PROVE ShownAt(a, i)' = {}
  <2>1. ShownAt(a, i)' = ShownAt(a, i - 1)
    BY <1>2 DEF TickTakes
  <2>2. i - 1 = 0 \/ i - 1 \in 1..ActiveStages
    BY <1>5
  <2> QED
    BY <1>6, <2>1, <2>2 DEF Stopped
<1>8. Last(activePipe[a]) = {}
  <2>1. ActiveStages \in 1..ActiveStages /\ Len(activePipe[a]) = ActiveStages /\ ActiveStages # 0
    BY <1>1, <1>5 DEF AccelTypes
  <2>2. ShownAt(a, ActiveStages) = {}
    BY <2>1 DEF Stopped
  <2> QED
    BY <2>1, <2>2 DEF ShownAt, Last
<1> QED
  BY <1>2, <1>3, <1>4, <1>7, <1>8 DEF Stopped

\* Commands arrive when no reset is on its way; those that start engines find every
\* engine at rest.
LEMMA Reachable ==
    ASSUME NEW a \in Accels, EngTypes, Phase(a), wire[a] # <<>>
    PROVE  /\ state[a] = "READY" /\ \A k \in Stages : RunAt(a, k).reset = {}
           /\ IsEnable(Head(wire[a])) => Dead(a) /\ stateRun[a] = {}
<1>1. pc \in Labels
  BY DEF EngTypes, ProgramTypes
<1>2. ~ Off(a) /\ ~ InHand(a) /\ ~ On(a)
  BY DEF Off, InHand, On
<1>3. ~ Resting(a) /\ ~ Starting(a) /\ ~ Started(a) /\ ~ Stopped(a) /\ ~ Watched(a)
  BY <1>2 DEF Resting, Starting, Started, Stopped, Watched
<1>4. Coming(a) \/ Complete(a) \/ Slowing(a)
  BY <1>1, <1>3 DEF Phase, Labels
<1>5. CASE Coming(a)
  BY <1>3, <1>5 DEF Coming, Ordered, Dead, Sent
<1>6. CASE Complete(a) \/ Slowing(a)
  <2>1. Told(a) /\ \A k \in Stages : RunAt(a, k).reset = {}
    BY <1>2, <1>6 DEF Complete, Slowing, Stopping, Dead
  <2>2. wire[a] = <<DisableWrite>> /\ state[a] = "READY"
    BY <2>1 DEF Told
  <2>3. Head(wire[a]) = DisableWrite
    BY <2>2
  <2> QED
    BY <2>1, <2>2, <2>3, Meant
<1> QED
  BY <1>4, <1>5, <1>6

\* A step of an accelerator's hardware leaves it safe.
LEMMA SafeStep ==
    ASSUME NEW a \in Accels, EngTypes, Hardware(a), Phase(a), ResetsAreSafe(a)
    PROVE  ResetsAreSafe(a)'
<1>1. AccelTypes(a)
  BY DEF EngTypes
<1>2. CASE WriteArrives(a)
  <2>1. WriteTakes(a) /\ wire[a] # <<>>
    BY <1>2, WriteEffect DEF WriteArrives
  <2> QED
    BY <1>1, <2>1, Reachable, SafeWrite
<1>3. CASE Tick(a)
  BY <1>1, <1>3, TickEffect, SafeTick
<1> QED
  BY <1>2, <1>3 DEF Hardware

\* It keeps what the program relies on.
LEMMA PhaseStep ==
    ASSUME NEW a \in Accels, EngTypes, Hardware(a), UNCHANGED swVars, Phase(a), Conserved(a)
    PROVE  Phase(a)'
<1>1. /\ pc' = pc /\ run' = run /\ at' = at /\ InRun(a)' = InRun(a)
      /\ PlaceOf(a, run.accels)' = PlaceOf(a, run.accels)
  BY DEF swVars, InRun
<1>2. InRun(a) => Chosen(a) \subseteq Engines(a)
  BY OfRun
<1>3. Resting(a) => Resting(a)'
  BY RestingStep
<1>4. InRun(a) /\ Coming(a) => Coming(a)'
  BY <1>2, ComingStep
<1>5. Watched(a) => Watched(a)'
  BY WatchedStep
<1>6. Complete(a) => Complete(a)'
  BY FinishedStep
<1>7. Slowing(a) => Slowing(a)'
  BY SlowingStep
<1>8. Stopped(a) => Stopped(a)'
  BY StoppedStep
<1> QED
  BY <1>1, <1>3, <1>4, <1>5, <1>6, <1>7, <1>8 DEF Phase

\* What an accelerator that is not concerned has, it keeps.
LEMMA Untouched ==
    ASSUME NEW b \in Accels, Local(b)' = Local(b), UNCHANGED swVars
    PROVE  /\ ResetsAreSafe(b) => ResetsAreSafe(b)'
           /\ Conserved(b) => Conserved(b)'
           /\ Phase(b) => Phase(b)'
<1>1. /\ wire'[b] = wire[b] /\ sinceRead'[b] = sinceRead[b] /\ state'[b] = state[b]
      /\ stateReset'[b] = stateReset[b] /\ stateRun'[b] = stateRun[b]
      /\ runPipe'[b] = runPipe[b] /\ activePipe'[b] = activePipe[b]
      /\ hiddenPipe'[b] = hiddenPipe[b] /\ counts'[b] = counts[b]
      /\ countReset'[b] = countReset[b] /\ cfg'[b] = cfg[b] /\ eng'[b] = eng[b]
  BY DEF Local
<1>2. /\ pc' = pc /\ run' = run /\ at' = at /\ tag' = tag /\ InRun(b)' = InRun(b)
      /\ PlaceOf(b, run.accels)' = PlaceOf(b, run.accels)
      /\ Mask(b)' = Mask(b) /\ Chosen(b)' = Chosen(b) /\ Value' = Value
      /\ EnableWrite' = EnableWrite /\ DisableWrite' = DisableWrite
      /\ \A e \in Chosen(b) : ConfigWrite(e)' = ConfigWrite(e)
  BY SameRun DEF swVars, InRun
<1>3. (\A k : RunAt(b, k)' = RunAt(b, k)) /\ \A e : Still(b, e)' <=> Still(b, e)
  BY <1>1 DEF RunAt, Still
<1>4. \A i : ShownAt(b, i)' = ShownAt(b, i)
  BY <1>1 DEF Busy, Late, ShownAt, StatusActive, Hidden, Engines
<1>5. (ResetsAreSafe(b) => ResetsAreSafe(b)') /\ (Conserved(b) => Conserved(b)')
  BY <1>1, <1>3 DEF ResetsAreSafe, Conserved, Stages, Engines
<1>6. (Dead(b) => Dead(b)') /\ (OthersDead(b) => OthersDead(b)')
  BY <1>1, <1>2, <1>3 DEF Dead, OthersDead, Stages, Engines
<1>7. /\ (Off(b) => Off(b)') /\ (Sent(b) => Sent(b)') /\ (InHand(b) => InHand(b)')
      /\ (On(b) => On(b)') /\ (Told(b) => Told(b)')
  BY <1>1, <1>2 DEF Off, Sent, InHand, On, Told
<1>8. (Taken(b) => Taken(b)') /\ (WillTake(b) => WillTake(b)')
  BY <1>1, <1>2, <1>3 DEF Taken, WillTake, Configured, Stages
<1>9. /\ (Resting(b) => Resting(b)') /\ (Ordered(b) => Ordered(b)')
      /\ (Starting(b) => Starting(b)') /\ (Started(b) => Started(b)')
  BY <1>1, <1>2, <1>6, <1>7, <1>8 DEF Resting, Ordered, Starting, Started
<1>10. (Coming(b) => Coming(b)') /\ (Watched(b) => Watched(b)')
  BY <1>1, <1>2, <1>3, <1>4, <1>6, <1>9 DEF Coming, Watched
<1>11. Stopping(b) => Stopping(b)'
  BY <1>2, <1>7 DEF Stopping
<1>12. Complete(b) => Complete(b)'
  BY <1>1, <1>2, <1>6, <1>8, <1>11 DEF Complete
<1>13. Slowing(b) => Slowing(b)'
  BY <1>1, <1>3, <1>4, <1>8, <1>11 DEF Slowing, Stages
<1>14. Stopped(b) => Stopped(b)'
  BY <1>1, <1>4, <1>8, <1>9 DEF Stopped
<1> QED
  BY <1>2, <1>5, <1>9, <1>10, <1>12, <1>13, <1>14 DEF Phase

\* The counters of the first accelerator stand still once it has stopped, and
\* software sees only the last values.
LEMMA ClockStep ==
    ASSUME NEW b \in Accels, EngTypes, Hardware(b), UNCHANGED swVars,
           \A a \in Accels : Phase(a), Clock
    PROVE  Clock'
<1>0. PICK a \in Accels : a = run.accels[1]
  BY OfRun
<1>1. /\ a \in Accels /\ InRun(a) /\ PlaceOf(a, run.accels) = 1 /\ at \in 1..Len(run.accels)
      /\ Len(run.accels) \in Nat /\ AccelTypes(a) /\ Phase(a)
  BY <1>0, OfRun DEF EngTypes
<1>2. pc' = pc /\ run' = run /\ at' = at /\ run'.accels[1] = a
  BY <1>0 DEF swVars
<1>3. CASE a # b
  <2>1. Local(a)' = Local(a)
    BY <1>1, <1>3, Elsewhere
  <2>2. countPipe'[a] = countPipe[a] /\ sinceRead'[a] = sinceRead[a] /\ moved'[a] = moved[a]
    BY <2>1 DEF Local
  <2> QED
    BY <1>0, <1>2, <2>2 DEF Clock
<1>4. CASE a = b /\ ((pc = "waitStop" /\ at > 1) \/ pc \in {"clkEnabled", "clkCycles", "clkPclk"})
  <2>1. Stopped(a)
    BY <1>1, <1>4 DEF Phase
  <2>2. TickTakes(a) /\ Last(activePipe[a]) = {} /\ ~ countReset[a]
    BY <1>1, <1>4, <2>1, StoppedStep DEF Stopped
  <2>3. CountStages \in Nat \ {0} /\ RoundTrip \in Nat
    BY Constants
  <2>4. ASSUME NEW i \in 1..CountStages
        PROVE  /\ i = 1 => ~ countPipe'[a][i]
               /\ i # 1 => /\ i - 1 \in 1..CountStages
                           /\ countPipe'[a][i] = countPipe[a][i - 1]
    <3>1. CountAt(a, i)' = CountAt(a, i - 1)
      BY <2>2 DEF TickTakes
    <3>2. i # 0 /\ (i # 1 => i - 1 \in 1..CountStages /\ i - 1 # 0) /\ (i = 1 => i - 1 = 0)
      BY <2>3
    <3>3. (CountAt(a, i))' = countPipe'[a][i]
      BY <1>2, <3>2 DEF CountAt
    <3> QED
      BY <2>2, <3>1, <3>2, <3>3 DEF CountAt
  <2>5. ASSUME NEW i \in 1..CountStages, i # 1, i <= sinceRead'[a]
        PROVE  i - 1 <= sinceRead[a]
    <3>1. sinceRead[a] \in 0..RoundTrip
      BY <1>1 DEF AccelTypes
    <3>2. sinceRead'[a] = IF sinceRead[a] < RoundTrip THEN sinceRead[a] + 1 ELSE sinceRead[a]
      BY <2>2 DEF TickTakes
    <3> QED
      BY <2>3, <2>5, <3>1, <3>2
  <2>6. CASE (pc = "waitStop" /\ at > 1) \/ pc = "clkEnabled"
    <3>1. \A i \in 1..CountStages : i <= sinceRead[a] => ~ countPipe[a][i]
      BY <1>0, <2>6 DEF Clock
    <3>2. \A i \in 1..CountStages : i <= sinceRead'[a] => ~ countPipe'[a][i]
      BY <2>4, <2>5, <3>1
    <3> QED
      BY <1>0, <1>2, <2>6, <3>2 DEF Clock
  <2>7. CASE pc \in {"clkCycles", "clkPclk"}
    <3>1. \A i \in 1..CountStages : ~ countPipe[a][i]
      BY <1>0, <2>7 DEF Clock
    <3>2. \A i \in 1..CountStages : ~ countPipe'[a][i]
      BY <2>4, <3>1
    <3>3. moved'[a] <=> moved[a]
      BY <2>2, <3>1 DEF TickTakes
    <3> QED
      BY <1>0, <1>2, <2>7, <3>2, <3>3 DEF Clock
  <2> QED
    BY <1>4, <2>6, <2>7
<1>5. CASE ~ ((pc = "waitStop" /\ at > 1) \/ pc \in {"clkEnabled", "clkCycles", "clkPclk"})
  BY <1>0, <1>2, <1>5 DEF Clock
<1> QED
  BY <1>3, <1>4, <1>5

\* What the program relies on when it has not been misled.
Sound == Clock /\ \A a \in Accels : ResetsAreSafe(a) /\ Conserved(a) /\ Phase(a)

\* It holds after a step of the hardware.
LEMMA SoundHardware ==
    ASSUME OrderInv, Sound, NEW a \in Accels, Hardware(a), UNCHANGED swVars
    PROVE  Sound'
<1>1. /\ EngTypes /\ Clock
      /\ \A b \in Accels : ResetsAreSafe(b) /\ Conserved(b) /\ Phase(b)
  BY DEF OrderInv, Sound
<1>2. \A b \in Accels \ {a} : Local(b)' = Local(b)
  BY OrderHardware
<1>3. ResetsAreSafe(a)' /\ Conserved(a)' /\ Phase(a)'
  BY <1>1, SafeStep, ConservedStep, PhaseStep
<1>4. \A b \in Accels \ {a} : ResetsAreSafe(b)' /\ Conserved(b)' /\ Phase(b)'
  BY <1>1, <1>2, Untouched
<1>5. Clock'
  BY <1>1, ClockStep
<1> QED
  BY <1>3, <1>4, <1>5 DEF Sound

-----------------------------------------------------------------------------
\* A step of the program leaves the state machines, the pipelines and the engines alone.
LEMMA Held ==
    ASSUME NEW a \in Accels, HwUnchanged
    PROVE  /\ \A k : RunAt(a, k)' = RunAt(a, k)
           /\ \A i : ShownAt(a, i)' = ShownAt(a, i)
           /\ \A e : Still(a, e)' <=> Still(a, e)
           /\ (ResetsAreSafe(a) => ResetsAreSafe(a)') /\ (Conserved(a) => Conserved(a)')
           /\ (Dead(a) => Dead(a)')
<1>1. /\ state' = state /\ stateReset' = stateReset /\ stateRun' = stateRun
      /\ runPipe' = runPipe /\ activePipe' = activePipe /\ hiddenPipe' = hiddenPipe
      /\ eng' = eng /\ counts' = counts
  BY DEF HwUnchanged
<1>2. (\A k : RunAt(a, k)' = RunAt(a, k)) /\ \A e : Still(a, e)' <=> Still(a, e)
  BY <1>1 DEF RunAt, Still
<1>3. \A i : ShownAt(a, i)' = ShownAt(a, i)
  BY <1>1 DEF Busy, Late, ShownAt, StatusActive, Hidden, Engines
<1>4. /\ (ResetsAreSafe(a) => ResetsAreSafe(a)') /\ (Conserved(a) => Conserved(a)')
      /\ (Dead(a) => Dead(a)')
  BY <1>1, <1>2 DEF ResetsAreSafe, Conserved, Dead, Stages, Engines
<1> QED
  BY <1>2, <1>3, <1>4

\* What it may keep of the phase of an accelerator to which it writes nothing.
LEMMA HeldPhases ==
    ASSUME NEW a \in Accels, HwUnchanged, wire'[a] = wire[a], UNCHANGED <<run, tag>>
    PROVE  /\ Mask(a)' = Mask(a) /\ InRun(a)' = InRun(a)
           /\ PlaceOf(a, run.accels)' = PlaceOf(a, run.accels)
           /\ Resting(a) => Resting(a)'
           /\ OthersDead(a) => OthersDead(a)'
           /\ Coming(a) => Coming(a)'
           /\ Started(a) => Started(a)'
           /\ Taken(a) => Taken(a)'
           /\ Stopped(a) => Stopped(a)'
           /\ Slowing(a) /\ pc # "stop" /\ pc' # "stop" => Slowing(a)'
           /\ On(a) => On(a)'
<1>1. /\ state' = state /\ stateReset' = stateReset /\ stateRun' = stateRun
      /\ eng' = eng /\ cfg' = cfg /\ countReset' = countReset
  BY DEF HwUnchanged
<1>2. /\ Mask(a)' = Mask(a) /\ Chosen(a)' = Chosen(a) /\ InRun(a)' = InRun(a)
      /\ PlaceOf(a, run.accels)' = PlaceOf(a, run.accels)
      /\ \A e \in Chosen(a) : ConfigWrite(e)' = ConfigWrite(e)
      /\ (Off(a) => Off(a)') /\ (Sent(a) => Sent(a)') /\ (InHand(a) => InHand(a)')
      /\ (On(a) => On(a)') /\ (Told(a) => Told(a)')
  BY HeldOrder
<1>3. Value' = Value /\ run' = run /\ tag' = tag
  BY DEF Value
<1>4. /\ \A k : RunAt(a, k)' = RunAt(a, k)
      /\ \A i : ShownAt(a, i)' = ShownAt(a, i)
      /\ \A e : Still(a, e)' <=> Still(a, e)
      /\ (Dead(a) => Dead(a)')
  BY Held
<1>5. OthersDead(a) => OthersDead(a)'
  BY <1>1, <1>2, <1>4 DEF OthersDead, Stages, Engines
<1>6. (Taken(a) => Taken(a)') /\ (WillTake(a) => WillTake(a)')
  BY <1>1, <1>2, <1>3, <1>4 DEF Taken, WillTake, Configured, Stages
<1>7. (Ordered(a) => Ordered(a)') /\ (Resting(a) => Resting(a)')
  BY <1>1, <1>2, <1>3, <1>4 DEF Ordered, Resting
<1>8. (Starting(a) => Starting(a)') /\ (Started(a) => Started(a)')
  BY <1>1, <1>2, <1>6 DEF Starting, Started
<1>9. Coming(a) => Coming(a)'
  BY <1>5, <1>7, <1>8 DEF Coming
<1>10. Stopped(a) => Stopped(a)'
  BY <1>1, <1>4, <1>6, <1>7 DEF Stopped
<1>11. Slowing(a) /\ pc # "stop" /\ pc' # "stop" => Slowing(a)'
  BY <1>1, <1>2, <1>4, <1>6 DEF Slowing, Stopping, Stages
<1> QED
  BY <1>2, <1>5, <1>6, <1>7, <1>8, <1>9, <1>10, <1>11

\* Once no reset is on its way, every engine that was to take its
\* configuration has taken it.
LEMMA HasTaken ==
    ASSUME NEW a \in Accels, WillTake(a), \A k \in Stages : RunAt(a, k).reset = {}
    PROVE  Taken(a)
  BY DEF WillTake, Taken

\* What a CSR read keeps.
LEMMA ReadKeeps ==
    ASSUME OrderInv, Sound, NEW b \in Accels, csrRead(b), HwUnchanged, UNCHANGED <<wire, run, tag>>,
           moved' = moved \/ moved' = [moved EXCEPT ![b] = FALSE]
    PROVE  /\ wire[b] = <<>> /\ sinceRead[b] = RoundTrip /\ sinceRead'[b] = 0
           /\ countPipe' = countPipe
           /\ \A a \in Accels : /\ wire'[a] = wire[a] /\ (a # b => sinceRead'[a] = sinceRead[a])
                                /\ ResetsAreSafe(a)' /\ Conserved(a)' /\ InRun(a)' = InRun(a)
                                /\ ~ InRun(a) => Phase(a)'
<1>1. /\ EngTypes /\ Domains /\ \A a \in Accels : AccelTypes(a)
      /\ \A a \in Accels : ResetsAreSafe(a) /\ Conserved(a) /\ Phase(a)
  BY DEF OrderInv, EngTypes, Sound
<1>2. DOMAIN moved' = Accels /\ \A a \in Accels : moved'[a] \in BOOLEAN
  BY <1>1 DEF Domains, AccelTypes
<1>3. /\ wire[b] = <<>> /\ sinceRead[b] = RoundTrip /\ sinceRead'[b] = 0 /\ countPipe' = countPipe
      /\ \A a \in Accels : /\ wire'[a] = wire[a] /\ (a # b => sinceRead'[a] = sinceRead[a])
                           /\ InRun(a)' = InRun(a)
  BY <1>2, ReadOrder
<1>4. \A a \in Accels : ResetsAreSafe(a)' /\ Conserved(a)'
  BY <1>1, Held
<1>5. ASSUME NEW a \in Accels, ~ InRun(a) PROVE Phase(a)'
  <2>1. Resting(a) /\ wire'[a] = wire[a]
    BY <1>1, <1>3, <1>5 DEF Phase
  <2>2. Resting(a)'
    BY <2>1, HeldPhases
  <2> QED
    BY <1>3, <1>5, <2>2 DEF Phase
<1> QED
  BY <1>3, <1>4, <1>5

\* Engines that the program has seen enabled, and a round trip later neither active
\* nor hidden, are done.
LEMMA DoneWhenIdle ==
    ASSUME NEW a \in Accels, AccelTypes(a), Watched(a), sinceRead[a] = RoundTrip,
           Last(activePipe[a]) = {}, Last(hiddenPipe[a]) = {}
    PROVE  Dead(a) /\ Taken(a) /\ \A e \in Mask(a) : eng[a][e].left = 0
<1>1. /\ RunStages \in Nat \ {0} /\ ActiveStages \in Nat \ {0} /\ RoundTrip \in Nat
      /\ RoundTrip >= RunStages + ActiveStages
  BY Constants
<1>2. OthersDead(a) /\ Started(a)
  BY DEF Watched
<1>3. /\ stateReset[a] = {} /\ stateRun[a] = Mask(a) /\ WillTake(a)
      /\ Mask(a) \subseteq Engines(a)
  BY <1>2 DEF Started, On, Mask, Commanded
<1>4. RunAt(a, 0).reset = {} /\ RunAt(a, 0).run = Mask(a)
  BY <1>3 DEF RunAt
<1>5. ASSUME NEW k \in Stages PROVE RunAt(a, k) = RunAt(a, 0)
  <2>1. k = 0 \/ (k \in 1..RunStages /\ k <= RoundTrip)
    BY <1>1 DEF Stages
  <2> QED
    BY <2>1 DEF Watched
<1>6. ActiveStages \in 1..ActiveStages /\ ActiveStages + RunStages <= sinceRead[a]
  BY <1>1
<1>7. ShownAt(a, ActiveStages) = {}
  BY <1>1 DEF AccelTypes, Last, ShownAt
<1>8. \A e \in Mask(a) : eng[a][e].left = 0 /\ Still(a, e)
  BY <1>6, <1>7 DEF Watched
<1>9. Dead(a)
  BY <1>2, <1>4, <1>5, <1>8 DEF Dead, OthersDead
<1>10. Taken(a)
  BY <1>3, <1>4, <1>5, HasTaken
<1> QED
  BY <1>8, <1>9, <1>10

\* Engines that were told to stop, and are seen neither active nor hidden, are at rest.
LEMMA StoppedWhenIdle ==
    ASSUME NEW a \in Accels, AccelTypes(a), Slowing(a), Conserved(a), wire[a] = <<>>, pc # "stop",
           Last(activePipe[a]) = {}, Last(hiddenPipe[a]) = {}
    PROVE  Stopped(a)
<1>1. RunStages \in Nat \ {0} /\ ActiveStages \in Nat \ {0} /\ RunStages \in Stages
  BY Constants DEF Stages
<1>2. /\ Off(a) /\ Taken(a) /\ ~ countReset[a]
      /\ \A k \in Stages : RunAt(a, k).reset = {}
      /\ \A j, k \in Stages : j <= k => RunAt(a, j).run \subseteq RunAt(a, k).run
      /\ \A i, j \in 0..ActiveStages : i <= j => ShownAt(a, i) \subseteq ShownAt(a, j)
  BY DEF Slowing, Stopping, Told, Off
<1>3. ShownAt(a, ActiveStages) = {}
  BY <1>1 DEF AccelTypes, Last, ShownAt
<1>4. ASSUME NEW i \in 0..ActiveStages PROVE ShownAt(a, i) = {}
  <2>1. ActiveStages \in 0..ActiveStages /\ i <= ActiveStages
    BY <1>1
  <2> QED
    BY <1>2, <1>3, <2>1
<1>5. ShownAt(a, 0) = {} /\ \A i \in 1..ActiveStages : ShownAt(a, i) = {}
  <2>1. 0 \in 0..ActiveStages /\ \A i \in 1..ActiveStages : i \in 0..ActiveStages
    BY <1>1
  <2> QED
    BY <1>4, <2>1
<1>6. \A e \in Engines(a) : Still(a, e) /\ ~ Asks(a, e)
  BY <1>5, StillUnlessShown
<1>7. ASSUME NEW k \in Stages PROVE \A e \in RunAt(a, k).run : eng[a][e].left = 0
  <2>1. k <= RunStages
    BY <1>1 DEF Stages
  <2>2. RunAt(a, k).run \subseteq RunAt(a, RunStages).run /\ RunAt(a, k).run \subseteq Engines(a)
    BY <1>1, <1>2, <2>1, StageTypes
  <2> QED
    BY <1>6, <2>2 DEF Asks
<1>8. Dead(a)
  BY <1>2, <1>6, <1>7 DEF Dead
<1> QED
  BY <1>2, <1>5, <1>8 DEF Stopped, Resting
\* csrGetEnginesEnabled of testSmallRegions: engines that are seen enabled have had
\* all their commands, and from here the next read is a round trip away.
LEMMA PollEnabledStep ==
    ASSUME OrderInv, Sound, PollEnabled
    PROVE  Sound'
<1>1. EngTypes /\ Kinds /\ Clock /\ \A a \in Accels : Phase(a)
  BY DEF OrderInv, Sound
<1>2. PICK b \in Accels : b = Accel
  BY <1>1, OfRun
<1>3. /\ csrRead(b) /\ HwUnchanged /\ wire' = wire /\ moved' = moved
      /\ run' = run /\ at' = at /\ tag' = tag /\ pc = "pollEnabled"
      /\ pc' \in {"pollEnabled", "exited", "pollActive"}
      /\ pc' = "pollActive" => stateRun[b] # {}
  BY <1>2, MasksRead DEF PollEnabled, Reads, NotDone, Goto
<1>4. /\ sinceRead'[b] = 0
      /\ \A a \in Accels : /\ wire'[a] = wire[a] /\ ResetsAreSafe(a)' /\ Conserved(a)'
                           /\ InRun(a)' = InRun(a) /\ (~ InRun(a) => Phase(a)')
  BY <1>3, ReadKeeps
<1>5. Clock'
  BY <1>3 DEF Clock
<1>6. ASSUME NEW a \in Accels, InRun(a) PROVE Phase(a)'
  <2>1. a = b
    BY <1>1, <1>2, <1>3, <1>6, OfRun DEF Kinds
  <2>2. Coming(a)
    BY <1>1, <1>3, <1>6 DEF Phase
  <2>3. Coming(a)' /\ (OthersDead(a) => OthersDead(a)') /\ (Started(a) => Started(a)')
    BY <1>3, <1>4, <2>2, HeldPhases
  <2>4. pc' = "pollActive" => Watched(a)'
    <3>1. SUFFICES ASSUME pc' = "pollActive" PROVE Watched(a)'
      OBVIOUS
    <3>2. OthersDead(a) /\ Started(a)
      BY <1>3, <2>1, <2>2, <3>1 DEF Coming, Ordered, Sent, Starting, InHand
    <3>3. RunStages \in Nat \ {0} /\ ActiveStages \in Nat
      BY Constants
    <3>4. /\ \A k \in 1..RunStages : ~ k <= sinceRead'[a]
          /\ \A i \in 1..ActiveStages : ~ i + RunStages <= sinceRead'[a]
      BY <1>4, <2>1, <3>3
    <3> QED
      BY <2>3, <3>2, <3>4 DEF Watched
  <2> QED
    BY <1>3, <1>4, <1>6, <2>3, <2>4 DEF Phase
<1> QED
  BY <1>4, <1>5, <1>6 DEF Sound

\* csrGetEnginesActive of testSmallRegions: engines that are seen idle are done.
LEMMA PollActiveStep ==
    ASSUME OrderInv, Sound, PollActive, ~ misled'
    PROVE  Sound'
<1>1. /\ EngTypes /\ Kinds /\ Clock
      /\ \A a \in Accels : Phase(a) /\ AccelTypes(a)
  BY DEF OrderInv, Sound, EngTypes
<1>2. PICK b \in Accels : b = Accel
  BY <1>1, OfRun
<1>3. /\ csrRead(b) /\ HwUnchanged /\ wire' = wire /\ moved' = moved
      /\ run' = run /\ at' = at /\ tag' = tag /\ pc = "pollActive"
      /\ pc' \in {"pollEnabled", "exited", "stop"}
      /\ pc' = "stop" => Last(activePipe[b]) = {} /\ Last(hiddenPipe[b]) = {}
  BY <1>2, MasksRead DEF PollActive, Reads, NotDone, Goto, WaitEnds
<1>4. /\ sinceRead[b] = RoundTrip
      /\ \A a \in Accels : /\ wire'[a] = wire[a] /\ ResetsAreSafe(a)' /\ Conserved(a)'
                           /\ InRun(a)' = InRun(a) /\ (~ InRun(a) => Phase(a)')
  BY <1>3, ReadKeeps
<1>5. Clock'
  BY <1>3 DEF Clock
<1>6. ASSUME NEW a \in Accels, InRun(a) PROVE Phase(a)'
  <2>1. a = b /\ run.kind = "regions"
    BY <1>1, <1>2, <1>3, <1>6, OfRun DEF Kinds
  <2>2. Watched(a)
    BY <1>1, <1>3, <1>6 DEF Phase
  <2>3. Coming(a)'
    BY <1>3, <1>4, <2>2, HeldPhases DEF Watched, Coming
  <2>4. pc' = "stop" => Complete(a)'
    <3>1. SUFFICES ASSUME pc' = "stop" PROVE Complete(a)'
      OBVIOUS
    <3>2. Dead(a) /\ Taken(a) /\ \A e \in Mask(a) : eng[a][e].left = 0
      BY <1>1, <1>3, <1>4, <2>1, <2>2, <3>1, DoneWhenIdle
    <3>3. Dead(a)' /\ Taken(a)' /\ Mask(a)' = Mask(a) /\ (On(a) => On(a)')
      BY <1>3, <1>4, <3>2, Held, HeldPhases
    <3>4. Stopping(a)'
      BY <2>2, <3>1, <3>3 DEF Watched, Started, Stopping
    <3>5. eng' = eng
      BY <1>3 DEF HwUnchanged
    <3> QED
      BY <3>2, <3>3, <3>4, <3>5 DEF Complete
  <2> QED
    BY <1>3, <1>4, <1>6, <2>1, <2>3, <2>4 DEF Phase
<1> QED
  BY <1>4, <1>5, <1>6 DEF Sound

\* runBandwidth waits for the last accelerator; all that start are still to come.
LEMMA WaitStartStep ==
    ASSUME OrderInv, Sound, WaitStart
    PROVE  Sound'
<1>1. EngTypes /\ Clock /\ \A a \in Accels : Phase(a)
  BY DEF OrderInv, Sound
<1>2. PICK b \in Accels : b = LastAccel
  BY <1>1, OfRun
<1>3. /\ csrRead(b) /\ HwUnchanged /\ wire' = wire /\ moved' = moved
      /\ run' = run /\ at' = at /\ tag' = tag /\ pc = "waitStart"
      /\ pc' \in {"waitStart", "running"}
  BY <1>2 DEF WaitStart, Reads, Goto
<1>4. \A a \in Accels : /\ wire'[a] = wire[a] /\ ResetsAreSafe(a)' /\ Conserved(a)'
                        /\ InRun(a)' = InRun(a) /\ (~ InRun(a) => Phase(a)')
  BY <1>3, ReadKeeps
<1>5. Clock'
  BY <1>3 DEF Clock
<1>6. ASSUME NEW a \in Accels, InRun(a) PROVE Phase(a)'
  <2>1. Coming(a)
    BY <1>1, <1>3, <1>6 DEF Phase
  <2>2. Coming(a)'
    BY <1>3, <1>4, <2>1, HeldPhases
  <2> QED
    BY <1>3, <1>4, <1>6, <2>2 DEF Phase
<1> QED
  BY <1>4, <1>5, <1>6 DEF Sound

\* After the sleep, all engines have taken their configuration and run.
LEMMA SleepStep ==
    ASSUME OrderInv, Sound, Sleep
    PROVE  Sound'
<1>1. /\ EngTypes /\ Kinds /\ Clock
      /\ \A a \in Accels : Phase(a) /\ ResetsAreSafe(a) /\ Conserved(a)
  BY DEF OrderInv, Sound
<1>2. /\ HwUnchanged /\ wire' = wire /\ run' = run /\ at' = at /\ tag' = tag
      /\ pc = "running" /\ pc' = "stop"
  BY DEF Sleep, hwVars, HwUnchanged, Goto
<1>3. \A a \in Accels : ResetsAreSafe(a)' /\ Conserved(a)' /\ InRun(a)' = InRun(a)
  BY <1>1, <1>2, Held DEF InRun
<1>4. Clock'
  BY <1>2 DEF Clock
<1>5. ASSUME NEW a \in Accels, ~ InRun(a) PROVE Phase(a)'
  <2>1. Resting(a)'
    BY <1>1, <1>2, <1>5, HeldPhases DEF Phase
  <2> QED
    BY <1>3, <1>5, <2>1 DEF Phase
<1>6. ASSUME NEW a \in Accels, InRun(a) PROVE Phase(a)'
  <2>1. Settled(a) /\ On(a) /\ Coming(a) /\ run.kind = "bandwidth"
    BY <1>1, <1>2, <1>6, OrderSleep DEF Phase, Kinds
  <2>2. Started(a)
    BY <2>1 DEF Coming, On, Ordered, Sent, Starting, InHand
  <2>3. stateRun[a] = Mask(a) /\ stateReset[a] = {} /\ ~ countReset[a] /\ WillTake(a)
    BY <2>2 DEF Started, On
  <2>4. ASSUME NEW k \in Stages PROVE RunAt(a, k) = [reset |-> {}, run |-> stateRun[a]]
    <3>1. k \in 0..RunStages
      BY DEF Stages
    <3>2. CASE k = 0
      BY <2>3, <3>2 DEF RunAt
    <3>3. CASE k # 0
      <4>1. k \in 1..RunStages
        BY <3>1, <3>3, Constants
      <4> QED
        BY <2>1, <3>3, <4>1 DEF RunAt, Settled, Filled
    <3> QED
      BY <3>2, <3>3
  <2>5. ASSUME NEW i \in 0..ActiveStages PROVE ShownAt(a, i) = Busy(a) \cup Late(a)
    <3>1. CASE i = 0
      BY <3>1 DEF ShownAt
    <3>2. CASE i # 0
      <4>1. i \in 1..ActiveStages
        BY <3>2, Constants
      <4> QED
        BY <2>1, <3>2, <4>1 DEF ShownAt, Settled, Filled, Busy, Late
    <3> QED
      BY <3>1, <3>2
  <2>6. Taken(a)
    BY <2>3, <2>4, HasTaken
  <2>7. /\ \A k : RunAt(a, k)' = RunAt(a, k) /\ ShownAt(a, k)' = ShownAt(a, k)
        /\ Taken(a)' /\ On(a)'
    BY <1>2, <2>1, <2>6, Held, HeldPhases
  <2>8. Stopping(a)' /\ ~ countReset'[a]
    BY <1>2, <2>3, <2>7 DEF Stopping, HwUnchanged
  <2>9. \A j, k \in Stages : RunAt(a, k)'.reset = {} /\ RunAt(a, j)'.run = RunAt(a, k)'.run
    BY <2>4, <2>7
  <2>10. \A i, j \in 0..ActiveStages : ShownAt(a, i)' = ShownAt(a, j)'
    BY <2>5, <2>7
  <2>11. Slowing(a)'
    BY <2>7, <2>8, <2>9, <2>10 DEF Slowing, Stages
  <2> QED
    BY <1>2, <1>3, <1>6, <2>1, <2>11 DEF Phase
<1> QED
  BY <1>3, <1>4, <1>5, <1>6 DEF Sound

\* csrDisableEngines, of engines that are done or that run until now.
LEMMA StopStep ==
    ASSUME OrderInv, Sound, Stop
    PROVE  Sound'
<1>1. /\ EngTypes /\ Clock /\ \A a \in Accels : Orderly(a)
      /\ \A a \in Accels : Phase(a) /\ ResetsAreSafe(a) /\ Conserved(a)
  BY DEF OrderInv, Sound
<1>2. /\ HwUnchanged /\ run' = run /\ at' = 1 /\ tag' = tag /\ pc = "stop"
      /\ pc' = (IF run.kind = "regions" THEN "results" ELSE "waitStop")
  BY DEF Stop, Posts, Goto
<1>3. /\ \A a \in Accels : ~ InRun(a) => wire'[a] = wire[a]
      /\ \A a \in Accels : Orderly(a)'
  BY OrderStop DEF OrderInv
<1>4. \A a \in Accels : /\ ResetsAreSafe(a)' /\ Conserved(a)' /\ InRun(a)' = InRun(a)
                        /\ Dead(a) => Dead(a)'
  BY <1>1, <1>2, Held DEF InRun
<1>5. Clock'
  BY <1>2 DEF Clock
<1>6. ASSUME NEW a \in Accels, ~ InRun(a) PROVE Phase(a)'
  <2>1. Resting(a)'
    BY <1>1, <1>2, <1>3, <1>6, HeldPhases DEF Phase
  <2> QED
    BY <1>4, <1>6, <2>1 DEF Phase
<1>7. ASSUME NEW a \in Accels, InRun(a) PROVE Phase(a)'
  <2>1. IF run.kind = "regions" THEN Complete(a) ELSE Slowing(a)
    BY <1>1, <1>2, <1>7 DEF Phase
  <2>2. Taken(a)
    BY <2>1 DEF Complete, Slowing
  <2>3. /\ state' = state /\ stateRun' = stateRun /\ eng' = eng /\ countReset' = countReset
        /\ Mask(a)' = Mask(a) /\ PlaceOf(a, run.accels)' = PlaceOf(a, run.accels)
    BY <1>2 DEF HwUnchanged, Mask, Commanded, Engines
  <2>4. ~ PlaceOf(a, run.accels) < 1
    BY <1>1, <1>7, OfRun
  <2>5. Told(a)' /\ pc' # "stop"
    BY <1>2, <1>3, <1>4, <1>7, <2>3, <2>4 DEF Orderly
  <2>6. Stopping(a)'
    BY <2>5 DEF Stopping
  <2>7. Taken(a)'
    BY <1>2, <2>2, <2>3 DEF Taken, Chosen, Selected, Engines
  <2>8. Complete(a) => Complete(a)'
    BY <1>4, <2>3, <2>6, <2>7 DEF Complete
  <2>9. /\ \A k : RunAt(a, k)' = RunAt(a, k)
        /\ \A i : ShownAt(a, i)' = ShownAt(a, i)
    BY <1>2, Held
  <2>10. Slowing(a) => Slowing(a)'
    BY <2>3, <2>6, <2>7, <2>9 DEF Slowing, Stages
  <2> QED
    BY <1>2, <1>4, <1>7, <2>1, <2>3, <2>4, <2>8, <2>10 DEF Phase
<1> QED
  BY <1>4, <1>5, <1>6, <1>7 DEF Sound

\* csrGetEnginesActive of runBandwidth: one accelerator after the other is seen
\* idle, and has stopped.
LEMMA WaitStopStep ==
    ASSUME OrderInv, Sound, WaitStop, ~ misled'
    PROVE  Sound'
<1>1. /\ EngTypes /\ Kinds /\ Clock
      /\ \A a \in Accels : Phase(a) /\ Conserved(a) /\ AccelTypes(a)
  BY DEF OrderInv, Sound, EngTypes
<1>2. PICK b \in Accels : b = Accel /\ b = run.accels[at] /\ PlaceOf(b, run.accels) = at /\ InRun(b)
  BY <1>1, OfRun DEF Accel
<1>3. /\ csrRead(b) /\ HwUnchanged /\ wire' = wire /\ moved' = moved
      /\ run' = run /\ tag' = tag /\ pc = "waitStop"
  BY <1>2 DEF WaitStop, Reads
<1>4. /\ Last(activePipe[b]) # {} => pc' = pc /\ at' = at
      /\ Last(activePipe[b]) = {} =>
           /\ Last(hiddenPipe[b]) = {}
           /\ \/ at < Len(run.accels) /\ at' = at + 1 /\ pc' = pc
              \/ ~ at < Len(run.accels) /\ at' = at /\ pc' \in {"results", "clkEnabled"}
  BY <1>2, MasksRead DEF WaitStop, Goto, HasStopped, WaitEnds
<1>5. /\ wire[b] = <<>> /\ sinceRead'[b] = 0 /\ countPipe' = countPipe
      /\ \A a \in Accels : /\ wire'[a] = wire[a] /\ ResetsAreSafe(a)' /\ Conserved(a)'
                           /\ a # b => sinceRead'[a] = sinceRead[a]
                           /\ InRun(a)' = InRun(a) /\ (~ InRun(a) => Phase(a)')
  BY <1>3, ReadKeeps
<1>6. at \in 1..Len(run.accels) /\ Len(run.accels) \in Nat
  BY <1>1, OfRun
<1>7. run.kind = "bandwidth"
  BY <1>1, <1>3 DEF Kinds
<1> DEFINE idle == Last(activePipe[b]) = {} /\ Last(hiddenPipe[b]) = {}
<1>8. \/ pc' = pc /\ at' = at
      \/ idle /\ at < Len(run.accels) /\ at' = at + 1 /\ pc' = pc
      \/ idle /\ ~ at < Len(run.accels) /\ at' = at /\ pc' \in {"results", "clkEnabled"}
  BY <1>4
<1>9. ASSUME NEW a \in Accels, InRun(a) PROVE Phase(a)'
  <2> DEFINE place == PlaceOf(a, run.accels)
  <2>1. place \in 1..Len(run.accels) /\ run.accels[place] = a
    BY <1>1, <1>9, OfRun
  <2>2. PlaceOf(a, run.accels)' = place
    BY <1>3
  <2>3. IF place < at THEN Stopped(a) ELSE Slowing(a)
    BY <1>1, <1>3, <1>9 DEF Phase
  <2> HIDE DEF place
  <2>4. (Stopped(a) => Stopped(a)') /\ (Slowing(a) /\ pc' # "stop" => Slowing(a)')
    BY <1>3, <1>5, HeldPhases
  <2>5. idle /\ place = at => Stopped(a)
    <3>1. place = at => a = b
      BY <1>2, <2>1
    <3>2. place = at => Slowing(a)
      BY <1>6, <2>1, <2>3
    <3> QED
      BY <1>1, <1>3, <1>5, <3>1, <3>2, StoppedWhenIdle
  <2> HIDE DEF idle
  <2>6. CASE pc' = pc /\ at' = at
    BY <1>3, <1>5, <1>9, <2>2, <2>3, <2>4, <2>6 DEF Phase
  <2>7. CASE idle /\ at' = at + 1 /\ pc' = pc
    <3>1. IF place < at + 1 THEN Stopped(a) ELSE Slowing(a)
      BY <1>6, <2>1, <2>3, <2>5, <2>7
    <3> QED
      BY <1>3, <1>5, <1>9, <2>2, <2>4, <2>7, <3>1 DEF Phase
  <2>8. CASE idle /\ ~ at < Len(run.accels) /\ pc' \in {"results", "clkEnabled"}
    <3>1. Stopped(a)
      BY <1>6, <2>1, <2>3, <2>5, <2>8
    <3> QED
      BY <1>3, <1>5, <1>7, <1>9, <2>4, <2>8, <3>1 DEF Phase
  <2> QED
    BY <1>8, <2>6, <2>7, <2>8
<1> HIDE DEF idle
<1>10. Clock'
  <2>1. PICK a \in Accels : a = run.accels[1]
    BY <1>1, OfRun
  <2>2. CountStages \in Nat
    BY Constants
  <2>3. pc' \in {"waitStop", "results", "clkEnabled"} /\ run' = run
    BY <1>3, <1>8
  <2>4. \A i \in 1..CountStages : i <= sinceRead'[a] => ~ countPipe'[a][i]
    <3>1. CASE a = b
      <4>1. \A i \in 1..CountStages : ~ i <= sinceRead'[a]
        BY <1>5, <2>2, <3>1
      <4> QED
        BY <4>1
    <3>2. CASE a # b
      <4>1. at > 1
        BY <1>2, <1>6, <2>1, <3>2
      <4> QED
        BY <1>1, <1>3, <1>5, <2>1, <3>2, <4>1 DEF Clock
    <3> QED
      BY <3>1, <3>2
  <2> QED
    BY <2>1, <2>3, <2>4 DEF Clock
<1> QED
  BY <1>5, <1>9, <1>10 DEF Sound

\* csrGetClockMHz: a round trip after the engines of the first accelerator were
\* seen idle, its counters are no more driven.
LEMMA ClkEnabledStep ==
    ASSUME OrderInv, Sound, ClkEnabled
    PROVE  Sound'
<1>1. EngTypes /\ Kinds /\ Clock /\ \A a \in Accels : Phase(a)
  BY DEF OrderInv, Sound
<1>2. PICK b \in Accels : b = run.accels[1]
  BY <1>1, OfRun
<1>3. /\ csrRead(b) /\ HwUnchanged /\ wire' = wire /\ moved' = moved
      /\ run' = run /\ at' = at /\ tag' = tag /\ pc = "clkEnabled"
      /\ pc' \in {"results", "clkCycles"}
  BY <1>2 DEF ClkEnabled, Reads, Goto
<1>4. /\ sinceRead[b] = RoundTrip /\ countPipe' = countPipe
      /\ \A a \in Accels : /\ wire'[a] = wire[a] /\ ResetsAreSafe(a)' /\ Conserved(a)'
                           /\ InRun(a)' = InRun(a) /\ (~ InRun(a) => Phase(a)')
  BY <1>3, ReadKeeps
<1>5. run.kind = "bandwidth"
  BY <1>1, <1>3 DEF Kinds
<1>6. ASSUME NEW a \in Accels, InRun(a) PROVE Phase(a)'
  <2>1. Stopped(a)
    BY <1>1, <1>3, <1>6 DEF Phase
  <2>2. Stopped(a)'
    BY <1>3, <1>4, <2>1, HeldPhases
  <2> QED
    BY <1>3, <1>4, <1>5, <1>6, <2>2 DEF Phase
<1>7. Clock'
  <2>1. \A i \in 1..CountStages : i <= sinceRead[b]
    BY <1>4, Constants
  <2>2. \A i \in 1..CountStages : ~ countPipe'[b][i]
    BY <1>1, <1>2, <1>3, <1>4, <2>1 DEF Clock
  <2> QED
    BY <1>2, <1>3, <2>2 DEF Clock
<1> QED
  BY <1>4, <1>6, <1>7 DEF Sound

\* The first counter is read; from here, if it moved, the two would disagree.
LEMMA ClkCyclesStep ==
    ASSUME OrderInv, Sound, ClkCycles
    PROVE  Sound'
<1>1. EngTypes /\ Kinds /\ Clock /\ Domains /\ \A a \in Accels : Phase(a)
  BY DEF OrderInv, Sound, EngTypes
<1>2. PICK b \in Accels : b = run.accels[1]
  BY <1>1, OfRun
<1>3. /\ csrRead(b) /\ HwUnchanged /\ wire' = wire
      /\ run' = run /\ at' = at /\ tag' = tag /\ pc = "clkCycles"
      /\ pc' = "clkPclk" /\ moved' = [moved EXCEPT ![b] = FALSE]
  BY <1>2 DEF ClkCycles, Goto
<1>4. ~ moved'[b]
  BY <1>1, <1>3 DEF Domains
<1>5. /\ countPipe' = countPipe
      /\ \A a \in Accels : /\ wire'[a] = wire[a] /\ ResetsAreSafe(a)' /\ Conserved(a)'
                           /\ InRun(a)' = InRun(a) /\ (~ InRun(a) => Phase(a)')
  BY <1>3, ReadKeeps
<1>6. run.kind = "bandwidth"
  BY <1>1, <1>3 DEF Kinds
<1>7. ASSUME NEW a \in Accels, InRun(a) PROVE Phase(a)'
  <2>1. Stopped(a)
    BY <1>1, <1>3, <1>7 DEF Phase
  <2>2. Stopped(a)'
    BY <1>3, <1>5, <2>1, HeldPhases
  <2> QED
    BY <1>3, <1>5, <1>6, <1>7, <2>2 DEF Phase
<1>8. Clock'
  BY <1>1, <1>2, <1>3, <1>4, <1>5 DEF Clock
<1> QED
  BY <1>5, <1>7, <1>8 DEF Sound

\* The second counter is read.
LEMMA ClkPclkStep ==
    ASSUME OrderInv, Sound, ClkPclk
    PROVE  Sound'
<1>1. EngTypes /\ Kinds /\ \A a \in Accels : Phase(a)
  BY DEF OrderInv, Sound
<1>2. PICK b \in Accels : b = run.accels[1]
  BY <1>1, OfRun
<1>3. /\ csrRead(b) /\ HwUnchanged /\ wire' = wire /\ moved' = moved
      /\ run' = run /\ at' = at /\ tag' = tag /\ pc = "clkPclk" /\ pc' = "results"
  BY <1>2 DEF ClkPclk, Reads, Goto
<1>4. \A a \in Accels : /\ wire'[a] = wire[a] /\ ResetsAreSafe(a)' /\ Conserved(a)'
                        /\ InRun(a)' = InRun(a) /\ (~ InRun(a) => Phase(a)')
  BY <1>3, ReadKeeps
<1>5. Clock' /\ run.kind = "bandwidth"
  BY <1>1, <1>3 DEF Clock, Kinds
<1>6. ASSUME NEW a \in Accels, InRun(a) PROVE Phase(a)'
  <2>1. Stopped(a)
    BY <1>1, <1>3, <1>6 DEF Phase
  <2>2. Stopped(a)'
    BY <1>3, <1>4, <2>1, HeldPhases
  <2> QED
    BY <1>3, <1>4, <1>5, <1>6, <2>2 DEF Phase
<1> QED
  BY <1>4, <1>5, <1>6 DEF Sound

\* The results are read, and every accelerator is at rest for the next test.
LEMMA ResultsStep ==
    ASSUME OrderInv, Sound, Results
    PROVE  Sound'
<1>1. EngTypes /\ \A a \in Accels : Phase(a)
  BY DEF OrderInv, Sound
<1>2. PICK b \in Accels : b = run.accels[1]
  BY <1>1, OfRun
<1>3. /\ csrRead(b) /\ HwUnchanged /\ wire' = wire /\ moved' = moved
      /\ run' = run /\ at' = at /\ tag' = tag /\ pc = "results"
      /\ pc' = "choose" \/ pc' = "exited"
  BY <1>2 DEF Results, Reads, Goto
<1>4. /\ wire[b] = <<>>
      /\ \A a \in Accels : /\ wire'[a] = wire[a] /\ ResetsAreSafe(a)' /\ Conserved(a)'
                           /\ InRun(a)' = InRun(a)
  BY <1>3, ReadKeeps
<1>5. Clock'
  BY <1>3 DEF Clock
<1>6. ASSUME NEW a \in Accels PROVE Phase(a)'
  <2>1. Resting(a)
    <3>1. CASE ~ InRun(a)
      BY <1>1, <3>1 DEF Phase
    <3>2. CASE InRun(a) /\ run.kind = "regions"
      <4>1. a = b
        BY <1>1, <1>2, <3>2, OfRun
      <4>2. Complete(a)
        BY <1>1, <1>3, <3>2 DEF Phase
      <4> QED
        BY <1>3, <1>4, <4>1, <4>2 DEF Complete, Stopping, Told, Resting, Off
    <3>3. CASE InRun(a) /\ run.kind # "regions"
      BY <1>1, <1>3, <3>3 DEF Phase, Stopped
    <3> QED
      BY <3>1, <3>2, <3>3
  <2>2. Resting(a)'
    BY <1>3, <1>4, <2>1, HeldPhases
  <2> QED
    BY <1>3, <2>2 DEF Phase
<1> QED
  BY <1>4, <1>5, <1>6 DEF Sound

\* The writes that configure and start engines, sent to accelerators at rest.
LEMMA StartStep ==
    ASSUME OrderInv, Sound, Start
    PROVE  Sound'
<1>1. /\ EngTypes /\ pc = "choose"
      /\ \A a \in Accels : Phase(a) /\ ResetsAreSafe(a) /\ Conserved(a)
  BY DEF OrderInv, Sound, Start
<1>2. /\ HwUnchanged
      /\ \A a \in Accels :
           /\ ~ InRun(a)' => Off(a)'
           /\ InRun(a)' => /\ Sent(a)'
                           /\ \A e \in Chosen(a)' : \E n \in 1..Len(wire'[a]) - 1 :
                                wire'[a][n] = ConfigWrite(e)'
  BY OrderStart
<1>3. pc' \in {"pollEnabled", "waitStart"}
  BY DEF Start, Goto
<1>4. Clock'
  BY <1>3 DEF Clock
<1>5. ASSUME NEW a \in Accels PROVE ResetsAreSafe(a)' /\ Conserved(a)' /\ Dead(a) /\ Dead(a)'
  BY <1>1, <1>2, Held DEF Phase, Resting
<1>6. ASSUME NEW a \in Accels, ~ InRun(a)' PROVE Phase(a)'
  BY <1>2, <1>5, <1>6 DEF Phase, Resting
<1>7. ASSUME NEW a \in Accels, InRun(a)' PROVE Phase(a)'
  <2>1. Ordered(a)'
    BY <1>2, <1>5, <1>7 DEF Ordered
  <2>2. OthersDead(a)'
    BY <1>5 DEF Dead, OthersDead
  <2>3. Coming(a)'
    BY <2>1, <2>2 DEF Coming
  <2> QED
    BY <1>3, <1>7, <2>3 DEF Phase
<1> QED
  BY <1>4, <1>5, <1>6, <1>7 DEF Sound

-----------------------------------------------------------------------------
\* A program that is not misled finds what it relies on after each of its steps.
LEMMA SoundProgram ==
    ASSUME OrderInv, Sound, Program, ~ misled'
    PROVE  Sound'
  BY StartStep, PollEnabledStep, PollActiveStep, WaitStartStep, SleepStep, StopStep,
     WaitStopStep, ClkEnabledStep, ClkCyclesStep, ClkPclkStep, ResultsStep
  DEF Program

\* And when nothing changes.
LEMMA SoundStutter ==
    ASSUME OrderInv, Sound, UNCHANGED vars
    PROVE  Sound'
<1>1. /\ UNCHANGED swVars /\ run' = run /\ at' = at /\ pc' = pc
      /\ sinceRead' = sinceRead /\ countPipe' = countPipe /\ moved' = moved
  BY DEF vars, hwVars, swVars
<1>2. /\ Clock /\ \A a \in Accels : ResetsAreSafe(a) /\ Conserved(a) /\ Phase(a)
      /\ \A a \in Accels : Local(a)' = Local(a)
  BY OrderStutter DEF Sound
<1>3. \A a \in Accels : ResetsAreSafe(a)' /\ Conserved(a)' /\ Phase(a)'
  BY <1>1, <1>2, Untouched
<1>4. Clock'
  BY <1>1, <1>2 DEF Clock
<1> QED
  BY <1>3, <1>4 DEF Sound

\* A program that starts finds everything at rest.
LEMMA SoundInit ==
    ASSUME Init
    PROVE  Sound
<1>1. pc = "choose"
  BY DEF Init
<1>2. ASSUME NEW a \in Accels PROVE ResetsAreSafe(a) /\ Conserved(a) /\ Phase(a)
  <2>1. /\ Off(a) /\ \A e \in Engines(a) : Still(a, e)
        /\ \A k \in Stages : RunAt(a, k).reset = {} /\ RunAt(a, k).run = {}
    BY AtRest
  <2>2. Resting(a)
    BY <2>1 DEF Resting, Dead
  <2>3. ResetsAreSafe(a)
    BY <2>1 DEF ResetsAreSafe
  <2>4. Conserved(a)
    BY <2>1 DEF Conserved, Still
  <2> QED
    BY <1>1, <2>2, <2>3, <2>4 DEF Phase
<1>3. Clock
  BY <1>1 DEF Clock
<1> QED
  BY <1>2, <1>3 DEF Sound

\* Unless a late counter has misled it, the program and the engines agree: for any
\* number of accelerators and engines and any latency.
THEOREM EngineRunsInvariant == Spec => [](misled \/ Sound)
<1>1. Init => misled \/ Sound
  BY SoundInit
<1>2. OrderInv /\ (misled \/ Sound) /\ [Next]_vars => (misled \/ Sound)'
  <2>1. SUFFICES ASSUME OrderInv, misled \/ Sound, [Next]_vars, ~ misled' PROVE Sound'
    OBVIOUS
  <2>2. ~ misled
    BY <2>1 DEF Next, Program, Start, PollEnabled, PollActive, WaitStart, Sleep, Stop, WaitStop,
                ClkEnabled, ClkCycles, ClkPclk, Results, WaitEnds, swVars, vars
  <2>3. Sound
    BY <2>1, <2>2
  <2>4. CASE Program
    BY <2>1, <2>3, <2>4, SoundProgram
  <2>5. ASSUME NEW a \in Accels, Hardware(a), UNCHANGED swVars PROVE Sound'
    BY <2>1, <2>3, <2>5, SoundHardware
  <2>6. CASE UNCHANGED vars
    BY <2>1, <2>3, <2>6, SoundStutter
  <2> QED
    BY <2>1, <2>4, <2>5, <2>6 DEF Next
<1> QED
  BY <1>1, <1>2, OrderInvariant, PTL DEF Spec

\* An engine that is put in reset has no request in flight, of this run or the
\* one before, unless a late counter has misled the program.
THEOREM ResetsOfIdleEngines == Spec => []ResetFindsEngineIdle
<1>1. OrderInv /\ (misled \/ Sound) => ResetFindsEngineIdle
  <2>1. SUFFICES ASSUME OrderInv, Sound, NEW a \in Accels, NEW e \in Last(runPipe[a]).reset
                 PROVE  eng[a][e].out = 0
    BY DEF ResetFindsEngineIdle
  <2>2. AccelTypes(a) /\ ResetsAreSafe(a)
    BY <2>1 DEF OrderInv, EngTypes, Sound
  <2>3. Last(runPipe[a]) = RunAt(a, RunStages) /\ RunStages \in Stages
    BY <2>2, Constants DEF AccelTypes, Last, RunAt, Stages
  <2>4. e \in Engines(a)
    BY <2>1, <2>2, <2>3, StageTypes
  <2> QED
    BY <2>1, <2>2, <2>3, <2>4 DEF ResetsAreSafe, Still
<1> QED
  BY <1>1, OrderInvariant, EngineRunsInvariant, PTL

\* When the program reads its results they are those of this test and will not
\* change, unless a late counter has misled it, if every engine that it configures
\* is in the mask it sends.
THEOREM ResultsFinal ==
    ASSUME \A r \in Runs : MaskAgrees(r)
    PROVE  Spec => []ResultsAreFinal
<1>1. OrderInv /\ (misled \/ Sound) => ResultsAreFinal
  <2>1. SUFFICES ASSUME OrderInv, Sound, pc = "results", NEW i \in DOMAIN run.accels,
                        NEW e \in Selected(run, i), NEW a, a = run.accels[i]
                 PROVE  /\ eng[a][e].tag = tag /\ eng[a][e].out = 0
                        /\ eng[a][e].left \in {0, Unlimited} /\ ~ StatusActive(a, e)
    BY DEF ResultsAreFinal, Done
  <2>2. EngTypes /\ \A b \in Accels : AccelTypes(b) /\ Phase(b)
    BY <2>1 DEF OrderInv, EngTypes, Sound
  <2>3. /\ run \in Runs /\ a \in Accels /\ InRun(a) /\ PlaceOf(a, run.accels) = i
        /\ run.kind = "regions" \/ run.beats = Unlimited
    BY <2>1, <2>2, Runnable DEF EngTypes, ProgramTypes, InRun
  <2>4. e \in Chosen(a) /\ e \in Engines(a) /\ e \in Mask(a)
    BY <2>1, <2>2, <2>3, OfRun DEF Chosen, MaskAgrees, Mask, Commanded
  <2>5. IF run.kind = "regions" THEN Complete(a) ELSE Stopped(a)
    BY <2>1, <2>2, <2>3 DEF Phase
  <2>6. Taken(a) /\ Dead(a)
    BY <2>5 DEF Complete, Stopped, Resting
  <2>7. eng[a][e].tag = tag /\ eng[a][e].out = 0 /\ counts[a][e].value = 0
    BY <2>4, <2>6 DEF Taken, Dead, Still
  <2>8. eng[a][e].left \in {0, Unlimited}
    BY <2>3, <2>4, <2>5, <2>6 DEF Taken, Complete
  <2>9. ~ StatusActive(a, e)
    <3>1. AccelTypes(a) /\ RunStages \in Nat \ {0}
      BY <2>2, <2>3, Constants
    <3>2. Last(runPipe[a]) = RunAt(a, RunStages) /\ RunStages \in Stages
      BY <3>1 DEF AccelTypes, Last, RunAt, Stages
    <3> QED
      BY <2>6, <2>7, <3>2 DEF Dead, StatusActive
  <2> QED
    BY <2>7, <2>8, <2>9
<1> QED
  BY <1>1, OrderInvariant, EngineRunsInvariant, PTL

\* Both cycle counters stand still while they are read, unless a late counter has
\* misled the program.
THEOREM ClockReads == Spec => []ClockReadsAgree
<1>1. misled \/ Sound => ClockReadsAgree
  BY DEF Sound, Clock, ClockReadsAgree
<1> QED
  BY <1>1, EngineRunsInvariant, PTL
=============================================================================
