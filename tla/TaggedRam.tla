----------------------------- MODULE TaggedRam ------------------------------
(***************************************************************************)
(* ofs_plat_prim_tagged_ram: a memory whose writes allocate a tag from     *)
(* ofs_plat_prim_uid and whose release gives it back.  AXI shims keep the  *)
(* id and user fields of requests in it.  The memory registers its writes  *)
(* and has no bypass.                                                      *)
(***************************************************************************)
EXTENDS Uid

CONSTANTS Values, NoValue

ASSUME TaggedRamAssumption == NoValue \notin Values

VARIABLES
    wr_q,       \* the write registered for one cycle
    memData,
    rd          \* address and data registers of the memory's read port

vars == <<uidVars, wr_q, memData, rd>>

NoWrite == [en |-> FALSE, idx |-> 0, data |-> NoValue]
NoRead == [tag |-> NoValue, value |-> NoValue]

\* Mutant of MemDataNext: the registered data is written at the tag now on offer.
MemDataNextLateIdx ==
    IF wr_q.en THEN [memData EXCEPT ![alloc_uid] = wr_q.data] ELSE memData

MemDataNext ==
    IF wr_q.en THEN [memData EXCEPT ![wr_q.idx] = wr_q.data] ELSE memData

Init ==
    /\ UidInit
    /\ wr_q = NoWrite
    /\ memData = [t \in t_uid |-> NoValue]
    /\ rd = NoRead

\* A read captured at this edge; its valid bit and the output register bring
\* it to the client N_OUTPUT_REG_STAGES cycles later.
ReadEdge(rd_en, rdIdx) ==
    rd' = IF rd_en THEN [tag |-> rdIdx, value |-> memData[rdIdx]] ELSE NoRead

\* What the client may ask for.  It stores data only when notFull
\* (alloc_ready) is set.  The response to a request is at least two cycles
\* behind it, so a tag is neither read nor released while its write is
\* registered.  Reading and releasing a tag in one cycle is usual.
Written(t) == t \in held /\ ~(wr_q.en /\ wr_q.idx = t)
MayAsk(alloc, data, rd_en, rdIdx, deq_en, deqIdx) ==
    /\ IF alloc THEN alloc_ready ELSE data = CHOOSE v \in Values : TRUE
    /\ IF rd_en THEN Written(rdIdx) ELSE rdIdx = 0
    /\ IF deq_en THEN Written(deqIdx) ELSE deqIdx = free_uid_q

\* The memory's write register, array and read register, none with a reset.
MemoryEdge(alloc, data, rd_en, rdIdx) ==
    /\ wr_q' = IF alloc THEN [en |-> TRUE, idx |-> alloc_uid, data |-> data]
               ELSE NoWrite
    /\ memData' = MemDataNext
    /\ ReadEdge(rd_en, rdIdx)

\* An edge in operation.
Cycle ==
    \E alloc, rd_en, deq_en \in BOOLEAN, data \in Values, rdIdx, deqIdx \in t_uid :
      /\ MayAsk(alloc, data, rd_en, rdIdx, deq_en, deqIdx)
      /\ UidEdge(alloc, deq_en, deqIdx)
      /\ MemoryEdge(alloc, data, rd_en, rdIdx)

\* An edge with reset_n low.  What the client asks for at the first one
\* still reaches the memory.
Reset ==
    \E alloc, rd_en, deq_en \in BOOLEAN, data \in Values, rdIdx, deqIdx \in t_uid :
      /\ MayAsk(alloc, data, rd_en, rdIdx, deq_en, deqIdx)
      /\ UidReset(deq_en, deqIdx)
      /\ MemoryEdge(alloc, data, rd_en, rdIdx)

Next == Cycle \/ Reset

Spec == Init /\ [][Next]_vars

\* The clock ticks.  A reset is possible at any time and never due.
FairSpec == Spec /\ WF_vars(Cycle)

TypeOK ==
    /\ UidTypeOK
    /\ wr_q \in [en : BOOLEAN, idx : t_uid, data : Values \union {NoValue}]
    /\ memData \in [t_uid -> Values \union {NoValue}]
    /\ rd \in {NoRead} \union [tag : t_uid, value : Values \union {NoValue}]

-----------------------------------------------------------------------------
(* The refinement mapping: the tags the client holds, with the value that  *)
(* is in the write register or in memory.                                  *)

Store == [t \in held |-> IF wr_q.en /\ wr_q.idx = t THEN wr_q.data ELSE memData[t]]

Abstract == INSTANCE TaggedStore WITH
    Tags <- t_uid, store <- Store, answer <- rd

\* The tagged memory implements the tagged store: a tag in use is never
\* handed out again, and a read returns the value stored with the tag although
\* the write was delayed and the tag was used by an earlier request.
ReadsReturnWhatWasStored == Abstract!StoreSpec

=============================================================================
