-------------------------- MODULE TaggedRamProofs ---------------------------
(***************************************************************************)
(* Proofs about the tagged memory, for any number of tags and any values:  *)
(* it is one of the environments in which the id generator is proved       *)
(* correct, and it implements the store of values under tags.              *)
(***************************************************************************)
EXTENDS TaggedRam, UidProofs

-----------------------------------------------------------------------------
(* The memory as a client of the id generator.                             *)

\* An edge of the tagged memory is an edge of the generator whose client
\* keeps to the interface.
LEMMA StepIsUidStep == [Next]_vars => [UidNext]_uidVars
<1>1. ASSUME Cycle PROVE UidNext
  <2> PICK alloc \in BOOLEAN, rd_en \in BOOLEAN, deq_en \in BOOLEAN,
           data \in Values, rdIdx \in t_uid, deqIdx \in t_uid :
             /\ MayAsk(alloc, data, rd_en, rdIdx, deq_en, deqIdx)
             /\ UidEdge(alloc, deq_en, deqIdx)
    BY <1>1 DEF Cycle
  <2> QED
    BY DEF MayAsk, Written, UidNext, UidCycle, MayRelease
<1>2. ASSUME Reset PROVE UidNext
  <2> PICK alloc \in BOOLEAN, rd_en \in BOOLEAN, deq_en \in BOOLEAN,
           data \in Values, rdIdx \in t_uid, deqIdx \in t_uid :
             /\ MayAsk(alloc, data, rd_en, rdIdx, deq_en, deqIdx)
             /\ UidReset(deq_en, deqIdx)
    BY <1>2 DEF Reset
  <2> QED
    BY DEF MayAsk, Written, UidNext, UidResetEdge, MayRelease
<1>3. UNCHANGED vars => UNCHANGED uidVars
  BY DEF vars
<1> QED
  BY <1>1, <1>2, <1>3 DEF Next

\* The tagged RAM is an environment the id generator may be used in.
THEOREM TaggedRamUsesUid == Spec => UidSpec
<1>1. Init => UidInit
  BY DEF Init
<1> QED
  BY <1>1, StepIsUidStep, PTL DEF Spec, UidSpec

\* The tags of a tagged memory are exclusive and none is lost, for any number
\* of tags and whatever its client stores, reads and releases.
THEOREM TagsAreExclusive == Spec => [](UidsAreExclusive /\ NoUidIsLost)
  BY TaggedRamUsesUid, UidExclusion, UidConservation, PTL

-----------------------------------------------------------------------------
(* Types.                                                                  *)

\* The memory's registers keep their types.
MemoryTypeOK ==
    /\ wr_q \in [en : BOOLEAN, idx : t_uid, data : Values \union {NoValue}]
    /\ memData \in [t_uid -> Values \union {NoValue}]
    /\ rd \in {NoRead} \union [tag : t_uid, value : Values \union {NoValue}]

\* The registers of the memory have their types at the start and after any edge.
LEMMA MemoryInitType == Init => MemoryTypeOK
<1>1. 0 \in t_uid
  BY UidAssumption DEF t_uid
<1> QED
  BY <1>1 DEF Init, MemoryTypeOK, NoWrite, NoRead

\* An edge of the memory keeps the types of its registers.
LEMMA MemoryEdgeType ==
    ASSUME UidTypeOK, MemoryTypeOK,
           NEW alloc \in BOOLEAN, NEW rd_en \in BOOLEAN,
           NEW data \in Values, NEW rdIdx \in t_uid,
           MemoryEdge(alloc, data, rd_en, rdIdx)
    PROVE  MemoryTypeOK'
<1>1. 0 \in t_uid /\ alloc_uid \in t_uid
  BY UidAssumption DEF t_uid, alloc_uid, Fifo2First, UidTypeOK, Fifo2States
<1>2. wr_q' \in [en : BOOLEAN, idx : t_uid, data : Values \union {NoValue}]
  BY <1>1 DEF MemoryEdge, NoWrite
<1>3. memData' \in [t_uid -> Values \union {NoValue}]
  BY DEF MemoryEdge, MemDataNext, MemoryTypeOK
<1>4. rd' \in {NoRead} \union [tag : t_uid, value : Values \union {NoValue}]
  BY DEF MemoryEdge, ReadEdge, MemoryTypeOK
<1>5. t_uid' = t_uid /\ NoRead' = NoRead
  BY DEF t_uid, NoRead
<1> QED
  BY <1>2, <1>3, <1>4, <1>5 DEF MemoryTypeOK

\* So does every step of the tagged RAM.
LEMMA StepKeepsMemoryType == UidTypeOK /\ MemoryTypeOK /\ [Next]_vars => MemoryTypeOK'
<1> SUFFICES ASSUME UidTypeOK, MemoryTypeOK, [Next]_vars PROVE MemoryTypeOK'
  OBVIOUS
<1>1. CASE Cycle
  BY <1>1, MemoryEdgeType DEF Cycle
<1>2. CASE Reset
  BY <1>2, MemoryEdgeType DEF Reset
<1>3. CASE UNCHANGED vars
  BY <1>3 DEF vars, MemoryTypeOK
<1> QED
  BY <1>1, <1>2, <1>3 DEF Next

\* The registers of ofs_plat_prim_tagged_ram keep their types, for any number
\* of tags and any values.
THEOREM TaggedRamTypeCorrect == Spec => []TypeOK
<1>1. Spec => []UidTypeOK
  BY TaggedRamUsesUid, UidTypeCorrect, PTL
<1>2. Spec => []MemoryTypeOK
  BY <1>1, MemoryInitType, StepKeepsMemoryType, PTL DEF Spec
<1>3. UidTypeOK /\ MemoryTypeOK => TypeOK
  BY DEF TypeOK, MemoryTypeOK
<1> QED
  BY <1>1, <1>2, <1>3, PTL

-----------------------------------------------------------------------------
(* The refinement.                                                         *)

\* What an edge does to the memory as the client sees it: the value of a tag
\* that stays in use is where it was or moves from the write register to the
\* array, a new tag has the value on the input, and a read that is allowed
\* finds the value of its tag in the array.
LEMMA MemoryEdgeStore ==
    ASSUME UidTypeOK, MemoryTypeOK, UidsAreExclusive,
           NEW alloc \in BOOLEAN, NEW rd_en \in BOOLEAN, NEW deq_en \in BOOLEAN,
           NEW data \in Values, NEW rdIdx \in t_uid, NEW deqIdx \in t_uid,
           MayAsk(alloc, data, rd_en, rdIdx, deq_en, deqIdx),
           MemoryEdge(alloc, data, rd_en, rdIdx)
    PROVE  /\ alloc => alloc_uid \in t_uid \ held
           /\ \A t \in held : Store[t] =
                IF wr_q'.en /\ wr_q'.idx = t THEN wr_q'.data ELSE memData'[t]
           /\ alloc => wr_q'.en /\ wr_q'.idx = alloc_uid /\ wr_q'.data = data
           /\ rd' \in {NoRead} \union {[tag |-> t, value |-> Store[t]] : t \in held}
<1>1. alloc => /\ alloc_uid \in t_uid
               /\ alloc_uid \notin held
  <2>1. alloc => alloc_uid \in Waiting
    BY DEF MayAsk, alloc_ready, alloc_uid, Fifo2NotEmpty, Fifo2First, Waiting, Fifo2Members
  <2>2. alloc_uid \in t_uid
    BY DEF alloc_uid, Fifo2First, UidTypeOK, Fifo2States
  <2> QED
    BY <2>1, <2>2 DEF UidsAreExclusive
<1>2. held \subseteq t_uid
  BY DEF UidTypeOK
<1>3. \A t \in held : Store[t] =
        IF wr_q.en /\ wr_q.idx = t THEN wr_q.data ELSE memData[t]
  BY DEF Store
<1>4. alloc => wr_q'.en /\ wr_q'.idx = alloc_uid /\ wr_q'.data = data
  BY DEF MemoryEdge
<1>5. ASSUME NEW t \in held
      PROVE  ~(wr_q'.en /\ wr_q'.idx = t)
  BY <1>1 DEF MemoryEdge, NoWrite
<1>6. ASSUME NEW t \in held
      PROVE  memData'[t] = IF wr_q.en /\ wr_q.idx = t THEN wr_q.data ELSE memData[t]
  BY <1>2 DEF MemoryEdge, MemDataNext, MemoryTypeOK
<1>7. rd_en => rdIdx \in held /\ Store[rdIdx] = memData[rdIdx]
  BY <1>3 DEF MayAsk, Written
<1>8. rd' \in {NoRead} \union {[tag |-> t, value |-> Store[t]] : t \in held}
  BY <1>7 DEF MemoryEdge, ReadEdge
<1> QED
  BY <1>1, <1>3, <1>4, <1>5, <1>6, <1>8

\* An edge in operation is a step of the abstract store.
LEMMA StoreCycleStep ==
    UidTypeOK /\ MemoryTypeOK /\ UidsAreExclusive /\ Cycle => Abstract!StoreCycle
<1> SUFFICES ASSUME UidTypeOK, MemoryTypeOK, UidsAreExclusive, Cycle
             PROVE  Abstract!StoreCycle
  OBVIOUS
<1> PICK alloc \in BOOLEAN, rd_en \in BOOLEAN, deq_en \in BOOLEAN,
         data \in Values, rdIdx \in t_uid, deqIdx \in t_uid :
           /\ MayAsk(alloc, data, rd_en, rdIdx, deq_en, deqIdx)
           /\ UidEdge(alloc, deq_en, deqIdx)
           /\ MemoryEdge(alloc, data, rd_en, rdIdx)
  BY DEF Cycle
<1> DEFINE added == IF alloc THEN {alloc_uid} ELSE {}
           freed == IF deq_en THEN {deqIdx} ELSE {}
<1>1. /\ alloc => alloc_uid \in t_uid \ held
      /\ \A t \in held : Store[t] =
           IF wr_q'.en /\ wr_q'.idx = t THEN wr_q'.data ELSE memData'[t]
      /\ alloc => wr_q'.en /\ wr_q'.idx = alloc_uid /\ wr_q'.data = data
      /\ rd' \in {NoRead} \union {[tag |-> t, value |-> Store[t]] : t \in held}
  BY MemoryEdgeStore
<1>2. held' = (held \ freed) \union added
  BY DEF UidEdge, MayAsk
<1>3. added \in SUBSET t_uid /\ added \intersect held = {} /\ \A t, u \in added : t = u
  BY <1>1
<1>4. freed \in SUBSET t_uid /\ freed \subseteq held
  BY DEF MayAsk, Written
<1>5. DOMAIN Store = held /\ DOMAIN Store' = held'
  BY DEF Store
<1>6. \A t \in held' : Store'[t] =
        IF wr_q'.en /\ wr_q'.idx = t THEN wr_q'.data ELSE memData'[t]
  BY DEF Store
<1>7. \A t \in held \ freed : Store'[t] = Store[t]
  BY <1>1, <1>2, <1>6
<1>8. \A t \in added : Store'[t] \in Values
  BY <1>1, <1>2, <1>6
<1>9. rd' \in Abstract!Answers
  BY <1>1, <1>5 DEF Abstract!Answers, Abstract!NoAnswer, NoRead
<1> HIDE DEF added, freed
<1> QED
  BY <1>2, <1>3, <1>4, <1>5, <1>7, <1>8, <1>9 DEF Abstract!StoreCycle

\* So is a reset edge.
LEMMA StoreResetStep ==
    UidTypeOK /\ MemoryTypeOK /\ UidsAreExclusive /\ Reset => Abstract!StoreReset
<1> SUFFICES ASSUME UidTypeOK, MemoryTypeOK, UidsAreExclusive, Reset
             PROVE  Abstract!StoreReset
  OBVIOUS
<1> PICK alloc \in BOOLEAN, rd_en \in BOOLEAN, deq_en \in BOOLEAN,
         data \in Values, rdIdx \in t_uid, deqIdx \in t_uid :
           /\ MayAsk(alloc, data, rd_en, rdIdx, deq_en, deqIdx)
           /\ UidReset(deq_en, deqIdx)
           /\ MemoryEdge(alloc, data, rd_en, rdIdx)
  BY DEF Reset
<1>1. rd' \in {NoRead} \union {[tag |-> t, value |-> Store[t]] : t \in held}
  BY MemoryEdgeStore
<1>2. DOMAIN Store = held
  BY DEF Store
<1>3. rd' \in Abstract!Answers
  BY <1>1, <1>2 DEF Abstract!Answers, Abstract!NoAnswer, NoRead
<1>4. Store' = [t \in {} |-> NoValue]
  BY DEF Store, UidReset
<1> QED
  BY <1>3, <1>4 DEF Abstract!StoreReset

\* ofs_plat_prim_tagged_ram implements a store of values under tags, for any
\* number of tags and any values: a tag in use is not handed out again, and a
\* read returns the value that was stored with its tag.
THEOREM TaggedRamImplementsStore == Spec => ReadsReturnWhatWasStored
<1>1. Init => Abstract!StoreInit
  BY DEF Init, UidInit, Store, Abstract!StoreInit, Abstract!NoAnswer, NoRead
<1>2. UNCHANGED vars => UNCHANGED Abstract!storeVars
  BY DEF vars, uidVars, Abstract!storeVars, Store
<1>3. TypeOK /\ UidsAreExclusive /\ [Next]_vars
        => [Abstract!StoreNext]_Abstract!storeVars
  BY <1>2, StoreCycleStep, StoreResetStep
  DEF Next, Abstract!StoreNext, TypeOK, MemoryTypeOK
<1> QED
  BY <1>1, <1>3, TaggedRamTypeCorrect, TagsAreExclusive, PTL
  DEF Spec, ReadsReturnWhatWasStored, Abstract!StoreSpec

=============================================================================
