--------------------------- MODULE WriteTlpsProofs ----------------------------
(***************************************************************************)
(* Proofs about the PCIe write engine, for any number of fence tags, AFU   *)
(* tags and answers waited for: a fence tag leads to its own fence until   *)
(* it is answered, exactly one answer is under way for each one that is    *)
(* waited for, and the port keeps its promise to the AFU.                  *)
(*                                                                         *)
(* The invariant follows each answer through the engine.  A request's last *)
(* beat is an answer to come: it moves from the request register over TX   *)
(* to the FIM, or to the fences that are not sent, and back through one of *)
(* four sources to the port.  For each of these places a lemma says what   *)
(* one edge brings there and takes away (the lemmas that end in "Flow"),   *)
(* for one answer and in number; the sums are the invariant.               *)
(***************************************************************************)
EXTENDS WriteTlps, UidProofs, FiniteSetTheorems, SequenceTheorems

-----------------------------------------------------------------------------
(* The invariant                                                           *)

\* A packet is open at a place in the engine when its last beat is yet to come
\* there: behind the register to the arbiter, behind the request register.
Down == IF tx_wr_tlps = NoTlp THEN sending
        ELSE IF tx_wr_tlps.eop THEN NoTag ELSE tx_wr_tlps.afu_tag
Up == IF wr_req = NoReq THEN Down ELSE IF wr_req.eop THEN NoTag ELSE wr_req.tag

ReqTag == IF wr_req.sop THEN wr_req.tag ELSE Down
TxTag == IF tx_wr_tlps.sop THEN tx_wr_tlps.afu_tag ELSE sending

\* The beats of a packet stay together.
Packets ==
    /\ wr_req # NoReq => (wr_req.sop <=> Down = NoTag)
    /\ tx_wr_tlps # NoTlp =>
         /\ tx_wr_tlps.sop <=> sending = NoTag
         /\ tx_wr_tlps.sop <=> tx_wr_tlps.afu_tag # NoTag
         /\ tx_wr_tlps.eop \/ (tx_wr_tlps.sop /\ tx_wr_tlps.kind = "write")
         /\ tx_wr_tlps.sop \/ tx_wr_tlps.kind = "write"
         /\ tx_wr_tlps.poison => tx_wr_tlps.kind = "fence"
    /\ packet = Up
    /\ packet # NoTag => AnswerTo("write", packet) \notin waiting

Elements(s) == {s[i] : i \in 1..Len(s)}
AllDifferent(s) == \A i, j \in 1..Len(s) : s[i] = s[j] => i = j

\* The answers to the requests of a kind with the tags in a set.
AnswersTo(kind, tags) == {AnswerTo(kind, t) : t \in tags}
\* The AFU's tags of the fences with the fence tags in a set.
Metas(tags) == {fence_meta[t] : t \in tags}

\* Where the answer to a request is under way.
AtReq(a) == wr_req # NoReq /\ wr_req.eop /\ a = AnswerTo(wr_req.kind, ReqTag)
AtTx(a) == /\ tx_wr_tlps # NoTlp /\ tx_wr_tlps.eop /\ ~tx_wr_tlps.poison
           /\ a = AnswerTo(tx_wr_tlps.kind, TxTag)
AtCommits(a) == a \in AnswersTo("write", Elements(commits))
AtFences(a) == a \in AnswersTo("fence", Metas(fences))
AtIrqs(a) == a \in AnswersTo("irq", irqs)
AtFenceReg(a) == /\ wr_fence_cpl_reg # NoTag
                 /\ a = AnswerTo("fence", fence_meta[wr_fence_cpl_reg])
AtIrqReg(a) == irq_cpl_reg # NoTag /\ a = AnswerTo("irq", irq_cpl_reg)
AtFake(a) == a \in AnswersTo("fence", Fifo2Members(fake_fence_rsp_fifo))
AtStd(a) == a \in AnswersTo("write", Fifo2Members(std_wr_rsp_fifo))
AtAfu(a) == a \in Fifo2Members(afu_rsp_fifo)

One(p) == IF p THEN 1 ELSE 0
Places(a) ==
    One(AtReq(a)) + One(AtTx(a)) + One(AtCommits(a)) + One(AtFences(a)) + One(AtIrqs(a))
      + One(AtFenceReg(a)) + One(AtIrqReg(a)) + One(AtFake(a)) + One(AtStd(a)) + One(AtAfu(a))

\* An answer that is waited for is in one place, any other is in none.
InOnePlace == \A a \in Rsps : Places(a) = One(a \in waiting)

\* Nothing is in a place twice.
Queues ==
    /\ AllDifferent(commits)
    /\ Fifo2InOrder(fake_fence_rsp_fifo) /\ Fifo2Distinct(fake_fence_rsp_fifo)
    /\ Fifo2Members(fake_fence_rsp_fifo) \subseteq AfuTags
    /\ Fifo2InOrder(std_wr_rsp_fifo) /\ Fifo2Distinct(std_wr_rsp_fifo)
    /\ Fifo2Members(std_wr_rsp_fifo) \subseteq AfuTags
    /\ Fifo2InOrder(afu_rsp_fifo) /\ Fifo2Distinct(afu_rsp_fifo)
    /\ Fifo2Members(afu_rsp_fifo) \subseteq Rsps

\* The tags of fences.
FenceTags ==
    /\ held = FenceOnTx \union fences \union FenceDone
    /\ FenceOnTx \intersect fences = {}
    /\ (FenceOnTx \union fences) \intersect FenceDone = {}
    /\ \A t \in held : fence_meta[t] \in AfuTags
    /\ \A t \in FenceOnTx : fence_meta[t] = tx_wr_tlps.afu_tag
    /\ \A t, u \in held : fence_meta[t] = fence_meta[u] => t = u

Finite == IsFiniteSet(waiting) /\ IsFiniteSet(irqs)

WInv ==
    /\ IInv /\ TypeOK /\ Packets /\ InOnePlace /\ Queues /\ FenceTags /\ Finite
    /\ OneAnswerUnderWay

-----------------------------------------------------------------------------
(* One edge in operation, with its inputs.                                 *)

Edge(req, at, tr, rr, fc, ic, wc) ==
    /\ WInv
    /\ at \in BOOLEAN /\ tr \in BOOLEAN /\ rr \in BOOLEAN
    /\ tr => tx_wr_tlps # NoTlp
    /\ rr => afu_wr_rsp # NoRsp
    /\ req \in FirstBeats \union {LastBeat, NoReq}
    /\ fc \in FenceCpls /\ ic \in IrqCpls /\ wc \in WrCpls
    /\ FimEdge(tr, fc, ic, wc)
    /\ AfuMaySend(req, wr_req_deq(at, tr))
    /\ Engine(req, at, tr, rr, fc, ic, wc)
    /\ AfuEdge(req, rr)

\* What one edge does to an answer a: it comes with the last beat from the AFU,
New(req, a) ==
    /\ req # NoReq /\ req.eop
    /\ a = AnswerTo(req.kind, IF packet # NoTag THEN packet ELSE req.tag)
\* leaves the request register to TX or to the fences that are not sent,
ToTx(at, tr, a) == wr_req_deq(at, tr) /\ AtReq(a) /\ ~wr_req_is_invalid_fence
ToFake(at, tr, a) == wr_req_deq(at, tr) /\ AtReq(a) /\ wr_req_is_invalid_fence
\* leaves TX to the FIM,
ToFim(tr, kinds, a) == tr /\ AtTx(a) /\ tx_wr_tlps.kind \in kinds
\* leaves the FIM as a completion,
ToFenceReg(fc, a) == fc # NoTag /\ a = AnswerTo("fence", fence_meta[fc])
ToIrqReg(ic, a) == ic # NoTag /\ a = AnswerTo("irq", ic)
ToStd(wc, a) == wc # NoTag /\ a = AnswerTo("write", wc)
\* leaves one of the four sources of responses,
FromSource(source, a) == wr_rsp_notFull /\ Source = source /\ a = WrRsp
\* or is taken by the AFU.
Taken(rr, a) == rr /\ a = afu_wr_rsp

\* A count of 0 or 1 is a number.
LEMMA OneIsNat == ASSUME NEW p PROVE One(p) \in 0..1
  BY DEF One

\* The beats of the AFU.
LEMMA AfuBeat ==
    ASSUME NEW b \in FirstBeats \union {LastBeat}
    PROVE  /\ b.sop \in BOOLEAN /\ b.eop \in BOOLEAN /\ b.kind \in Kinds
           /\ b.tag \in AfuTags \union {NoTag}
           /\ b.sop <=> b.tag # NoTag
           /\ b.eop \/ (b.sop /\ b.kind = "write")
           /\ b.sop \/ (b.eop /\ b.kind = "write" /\ b.tag = NoTag)
           /\ b \in FirstBeats => b.sop
<1>0. NoTag \notin AfuTags
  BY WriteTlpsAssumption
<1>1. CASE b \in [sop : {TRUE}, eop : {TRUE}, kind : Kinds, tag : AfuTags]
  BY <1>0, <1>1
<1>2. CASE b \in [sop : {TRUE}, eop : {FALSE}, kind : {"write"}, tag : AfuTags]
  BY <1>0, <1>2 DEF Kinds
<1>3. CASE b = LastBeat
  <2>1. LastBeat \notin FirstBeats
    BY DEF LastBeat, FirstBeats
  <2> QED
    BY <1>3, <2>1 DEF LastBeat, Kinds
<1> QED
  BY <1>1, <1>2, <1>3 DEF FirstBeats

\* The beats in the registers.
LEMMA Beats ==
    ASSUME TypeOK, Packets
    PROVE  /\ wr_req # NoReq =>
                /\ wr_req.sop \in BOOLEAN /\ wr_req.eop \in BOOLEAN /\ wr_req.kind \in Kinds
                /\ wr_req.tag \in AfuTags \union {NoTag}
                /\ wr_req.sop <=> wr_req.tag # NoTag
                /\ wr_req.eop \/ (wr_req.sop /\ wr_req.kind = "write")
                /\ wr_req.sop \/ (wr_req.kind = "write" /\ wr_req.tag = NoTag)
                /\ ReqTag \in AfuTags
           /\ tx_wr_tlps # NoTlp =>
                /\ tx_wr_tlps.sop \in BOOLEAN /\ tx_wr_tlps.eop \in BOOLEAN
                /\ tx_wr_tlps.kind \in Kinds
                /\ tx_wr_tlps.afu_tag \in AfuTags \union {NoTag}
                /\ tx_wr_tlps.poison \in BOOLEAN /\ tx_wr_tlps.tag \in t_uid
                /\ TxTag \in AfuTags
           /\ Down \in AfuTags \union {NoTag}
           /\ NoTag \notin AfuTags /\ NoTag \notin t_uid
<1>0. NoTag \notin AfuTags /\ NoTag \notin t_uid
  BY WriteTlpsAssumption
<1>1. ASSUME tx_wr_tlps # NoTlp
      PROVE  /\ tx_wr_tlps.sop \in BOOLEAN /\ tx_wr_tlps.eop \in BOOLEAN
             /\ tx_wr_tlps.kind \in Kinds
             /\ tx_wr_tlps.afu_tag \in AfuTags \union {NoTag}
             /\ tx_wr_tlps.poison \in BOOLEAN /\ tx_wr_tlps.tag \in t_uid
  <2>1. tx_wr_tlps \in Tlps
    BY <1>1 DEF TypeOK
  <2> QED
    BY <2>1 DEF Tlps
<1>2. tx_wr_tlps # NoTlp => TxTag \in AfuTags
  BY <1>1 DEF TypeOK, Packets, TxTag
<1>3. Down \in AfuTags \union {NoTag}
  BY <1>1 DEF TypeOK, Down
<1>4. ASSUME wr_req # NoReq
      PROVE  /\ wr_req.sop \in BOOLEAN /\ wr_req.eop \in BOOLEAN /\ wr_req.kind \in Kinds
             /\ wr_req.tag \in AfuTags \union {NoTag}
             /\ wr_req.sop <=> wr_req.tag # NoTag
             /\ wr_req.eop \/ (wr_req.sop /\ wr_req.kind = "write")
             /\ wr_req.sop \/ (wr_req.kind = "write" /\ wr_req.tag = NoTag)
  <2>1. wr_req \in FirstBeats \union {LastBeat}
    BY <1>4 DEF TypeOK
  <2> QED
    BY <2>1, AfuBeat
<1>5. wr_req # NoReq => ReqTag \in AfuTags
  BY <1>3, <1>4 DEF Packets, ReqTag
<1> QED
  BY <1>0, <1>1, <1>2, <1>3, <1>4, <1>5

\* When the engine takes the beat in the request register, there is one, and the
\* register to the arbiter is free.
LEMMA Dequeue ==
    ASSUME NEW at \in BOOLEAN, NEW tr \in BOOLEAN, TypeOK
    PROVE  /\ wr_req_deq(at, tr) \in BOOLEAN
           /\ wr_req_deq(at, tr) =>
                /\ wr_req # NoReq /\ alloc_ready
                /\ Fifo2NotFull(fake_fence_rsp_fifo)
                /\ tx_wr_tlps = NoTlp \/ tr
  BY DEF wr_req_deq, wr_req_ready, wr_req_notEmpty, fake_fence_rsp_notFull, Accepts

\* The register to the arbiter after an edge.
LEMMA TxEdge ==
    ASSUME NEW req, NEW at, NEW tr, NEW rr, NEW fc, NEW ic, NEW wc,
           Edge(req, at, tr, rr, fc, ic, wc)
    PROVE  /\ tx_wr_tlps # NoTlp /\ ~tr => tx_wr_tlps' = tx_wr_tlps
           /\ tx_wr_tlps = NoTlp \/ tr =>
                IF wr_req_deq(at, tr)
                THEN /\ tx_wr_tlps' # NoTlp
                     /\ tx_wr_tlps' = [sop |-> wr_req.sop, eop |-> wr_req.eop,
                                       kind |-> wr_req.kind, afu_tag |-> wr_req.tag,
                                       poison |-> wr_req_is_invalid_fence,
                                       tag |-> IF IsKind("fence") THEN alloc_uid ELSE 0]
                ELSE tx_wr_tlps' = NoTlp
           /\ tx_wr_tlps' \in Tlps \union {NoTlp}
<1>1. tx_wr_tlps' = TxWrTlpsNext(at, tr) /\ TypeOK /\ Packets /\ IInv
  BY DEF Edge, Engine, WInv
<1> DEFINE beat == [sop |-> wr_req.sop, eop |-> wr_req.eop,
                    kind |-> wr_req.kind, afu_tag |-> wr_req.tag,
                    poison |-> wr_req_is_invalid_fence,
                    tag |-> IF IsKind("fence") THEN alloc_uid ELSE 0]
<1>2. tx_wr_tlps # NoTlp /\ ~tr => tx_wr_tlps' = tx_wr_tlps
  BY <1>1 DEF TxWrTlpsNext, Accepts
<1>3. tx_wr_tlps = NoTlp \/ tr =>
        tx_wr_tlps' = IF wr_req_deq(at, tr) THEN beat ELSE NoTlp
  BY <1>1 DEF TxWrTlpsNext, Accepts, wr_req_deq
<1>4. ASSUME wr_req_deq(at, tr) PROVE beat \in Tlps
  <2>1. wr_req # NoReq /\ alloc_ready
    BY <1>4 DEF wr_req_deq, wr_req_ready, wr_req_notEmpty
  <2>2. (IF IsKind("fence") THEN alloc_uid ELSE 0) \in t_uid
    BY <1>1, <2>1, OfferedUid, UidAssumption DEF t_uid
  <2>3. wr_req_is_invalid_fence \in BOOLEAN
    BY DEF wr_req_is_invalid_fence, IsKind
  <2> HIDE DEF IsKind
  <2> QED
    BY <1>1, <2>1, <2>2, <2>3, Beats DEF Tlps
<1> HIDE DEF beat
<1>5. tx_wr_tlps' \in Tlps \union {NoTlp}
  BY <1>1, <1>2, <1>3, <1>4 DEF TypeOK
<1> QED
  BY <1>2, <1>3, <1>4, <1>5, NothingAssumption DEF beat

\* Which packet is open behind the register to the arbiter, before and after the
\* beat in the request register has moved there.
LEMMA DownEdge ==
    ASSUME NEW req, NEW at, NEW tr, NEW rr, NEW fc, NEW ic, NEW wc,
           Edge(req, at, tr, rr, fc, ic, wc)
    PROVE  /\ sending' \in AfuTags \union {NoTag}
           /\ tx_wr_tlps = NoTlp \/ tr => sending' = Down
           /\ tx_wr_tlps # NoTlp /\ ~tr => sending' = sending
           /\ Down' = IF wr_req_deq(at, tr)
                      THEN IF wr_req.eop THEN NoTag ELSE wr_req.tag
                      ELSE Down
<1>1. TypeOK /\ Packets /\ at \in BOOLEAN /\ tr \in BOOLEAN /\ (tr => tx_wr_tlps # NoTlp)
  BY DEF Edge, WInv
<1> DEFINE b == tx_wr_tlps
           is_write == b # NoTlp /\ tr /\ ~b.poison /\ b.kind \in {"write", "atomic"}
<1>2. sending' = IF is_write THEN (IF b.eop THEN NoTag
                                   ELSE IF b.sop THEN b.afu_tag ELSE sending)
                 ELSE sending
  BY DEF Edge, FimEdge
<1>3. b # NoTlp =>
        /\ b.sop \in BOOLEAN /\ b.eop \in BOOLEAN /\ b.kind \in Kinds
        /\ b.afu_tag \in AfuTags \union {NoTag} /\ b.poison \in BOOLEAN
        /\ b.sop <=> sending = NoTag
        /\ b.eop \/ (b.sop /\ b.kind = "write")
        /\ b.sop \/ b.kind = "write"
        /\ b.poison => b.kind = "fence"
  BY <1>1, Beats DEF Packets
<1>4. sending \in AfuTags \union {NoTag}
  BY <1>1 DEF TypeOK
<1>5. tr => sending' = IF b.eop THEN NoTag ELSE b.afu_tag
  <2>1. CASE ~tr
    BY <2>1
  <2>2. CASE tr /\ is_write
    BY <1>1, <1>2, <1>3, <2>2
  <2>3. CASE tr /\ ~is_write
    BY <1>1, <1>2, <1>3, <2>3
  <2> QED
    BY <1>1, <2>1, <2>2, <2>3
<1>6. ~tr => sending' = sending
  BY <1>2
<1>7. sending' \in AfuTags \union {NoTag}
  BY <1>1, <1>3, <1>4, <1>5, <1>6
<1>8. tx_wr_tlps = NoTlp \/ tr => sending' = Down
  BY <1>1, <1>5, <1>6 DEF Down
<1>9. Down' = IF wr_req_deq(at, tr)
              THEN IF wr_req.eop THEN NoTag ELSE wr_req.tag
              ELSE Down
  <2>1. CASE b # NoTlp /\ ~tr
    BY <1>1, <1>6, <2>1, TxEdge, Dequeue DEF Down
  <2>2. CASE (b = NoTlp \/ tr) /\ wr_req_deq(at, tr)
    BY <2>2, TxEdge DEF Down
  <2>3. CASE (b = NoTlp \/ tr) /\ ~wr_req_deq(at, tr)
    <3>1. tx_wr_tlps' = NoTlp
      BY <2>3, TxEdge
    <3> QED
      BY <1>8, <2>3, <3>1 DEF Down
  <2> QED
    BY <1>1, <2>1, <2>2, <2>3
<1> QED
  BY <1>6, <1>7, <1>8, <1>9

\* The request register after an edge.
LEMMA ReqEdge ==
    ASSUME NEW req, NEW at, NEW tr, NEW rr, NEW fc, NEW ic, NEW wc,
           Edge(req, at, tr, rr, fc, ic, wc)
    PROVE  /\ wr_req_deq(at, tr) \in BOOLEAN
           /\ wr_req_deq(at, tr) => wr_req # NoReq
           /\ wr_req' = IF wr_req = NoReq \/ wr_req_deq(at, tr) THEN req ELSE wr_req
           /\ wr_req' \in FirstBeats \union {LastBeat, NoReq}
           /\ req # NoReq =>
                /\ req \in FirstBeats \union {LastBeat}
                /\ wr_req = NoReq \/ wr_req_deq(at, tr)
                /\ packet # NoTag => req = LastBeat
                /\ packet = NoTag => /\ req \in FirstBeats
                                     /\ AnswerTo(req.kind, req.tag) \notin waiting
           /\ wr_req = NoReq \/ wr_req_deq(at, tr) => Down' = packet
<1>1. TypeOK /\ Packets /\ at \in BOOLEAN /\ tr \in BOOLEAN
  BY DEF Edge, WInv
<1>2. /\ wr_req_deq(at, tr) \in BOOLEAN
      /\ wr_req_deq(at, tr) => wr_req # NoReq
  BY <1>1, Dequeue
<1>3. wr_req' = IF wr_req = NoReq \/ wr_req_deq(at, tr) THEN req ELSE wr_req
  BY DEF Edge, Engine, Accepts
<1>4. wr_req' \in FirstBeats \union {LastBeat, NoReq}
  BY <1>1, <1>3 DEF Edge, TypeOK
<1>5. req # NoReq =>
        /\ req \in FirstBeats \union {LastBeat}
        /\ wr_req = NoReq \/ wr_req_deq(at, tr)
        /\ packet # NoTag => req = LastBeat
        /\ packet = NoTag => /\ req \in FirstBeats
                             /\ AnswerTo(req.kind, req.tag) \notin waiting
  BY DEF Edge, AfuMaySend, Accepts
<1>6. wr_req = NoReq \/ wr_req_deq(at, tr) => Down' = packet
  BY <1>1, <1>2, DownEdge DEF Packets, Up
<1> QED
  BY <1>2, <1>3, <1>4, <1>5, <1>6

\* The answer to each kind of request.
LEMMA AnswerKinds ==
    ASSUME NEW tag
    PROVE  /\ AnswerTo("write", tag) = Rsp(FALSE, FALSE, tag)
           /\ AnswerTo("atomic", tag) = AnswerTo("write", tag)
           /\ AnswerTo("fence", tag) = Rsp(TRUE, FALSE, tag)
           /\ AnswerTo("irq", tag) = Rsp(FALSE, TRUE, tag)
  BY DEF AnswerTo, Rsp

\* An answer is one the port may give, and it shows the tag of its request.
LEMMA AnswerTags ==
    ASSUME NEW kind, NEW s, NEW t
    PROVE  /\ AnswerTo(kind, s) = AnswerTo(kind, t) => s = t
           /\ s \in AfuTags => AnswerTo(kind, s) \in Rsps
<1>1. AnswerTo(kind, s).tag = s /\ AnswerTo(kind, t).tag = t
  BY DEF AnswerTo, Rsp
<1>2. s \in AfuTags => AnswerTo(kind, s) \in Rsps
  BY DEF AnswerTo, Rsp, Rsps
<1> QED
  BY <1>1, <1>2

\* The answer that comes with a last beat: it is not waited for yet.
LEMMA NewAnswer ==
    ASSUME NEW req, NEW at, NEW tr, NEW rr, NEW fc, NEW ic, NEW wc,
           Edge(req, at, tr, rr, fc, ic, wc), req # NoReq
    PROVE  LET tag == IF packet # NoTag THEN packet ELSE req.tag
           IN /\ tag \in AfuTags
              /\ AnswerTo(req.kind, tag) \in Rsps
              /\ AnswerTo(req.kind, tag) \notin waiting
<1> DEFINE tag == IF packet # NoTag THEN packet ELSE req.tag
<1>1. TypeOK /\ Packets
  BY DEF Edge, WInv
<1>2. /\ packet # NoTag => req = LastBeat
      /\ packet = NoTag => /\ req \in FirstBeats
                           /\ AnswerTo(req.kind, req.tag) \notin waiting
      /\ req \in FirstBeats \union {LastBeat}
  BY ReqEdge
<1>3. tag \in AfuTags
  BY <1>1, <1>2, AfuBeat DEF TypeOK
<1>4. AnswerTo(req.kind, tag) \in Rsps
  BY <1>3 DEF AnswerTo, Rsp, Rsps
<1>5. AnswerTo(req.kind, tag) \notin waiting
  <2>1. CASE packet = NoTag
    BY <1>2, <2>1
  <2>2. CASE packet # NoTag
    <3>1. req.kind = "write"
      BY <1>2, <2>2 DEF LastBeat
    <3> QED
      BY <1>1, <2>2, <3>1, AnswerKinds DEF Packets
  <2> QED
    BY <2>1, <2>2
<1> QED
  BY <1>3, <1>4, <1>5

\* The packets stay together, in the registers and in what the AFU sends.
LEMMA PacketsEdge ==
    ASSUME NEW req, NEW at, NEW tr, NEW rr, NEW fc, NEW ic, NEW wc,
           Edge(req, at, tr, rr, fc, ic, wc)
    PROVE  Packets' /\ packet' \in AfuTags \union {NoTag}
<1>1. /\ TypeOK /\ Packets /\ at \in BOOLEAN /\ tr \in BOOLEAN
      /\ tr => tx_wr_tlps # NoTlp
  BY DEF Edge, WInv
<1>2. NoTag \notin AfuTags
  BY WriteTlpsAssumption
<1> DEFINE moves == wr_req = NoReq \/ wr_req_deq(at, tr)
<1>3. /\ wr_req_deq(at, tr) \in BOOLEAN
      /\ wr_req_deq(at, tr) => wr_req # NoReq
      /\ wr_req' = IF moves THEN req ELSE wr_req
      /\ moves => Down' = packet
      /\ req # NoReq =>
                /\ req \in FirstBeats \union {LastBeat}
                /\ moves
                /\ packet # NoTag => req = LastBeat
                /\ packet = NoTag => req \in FirstBeats
  BY ReqEdge
<1>4. req # NoReq =>
        /\ req.sop \in BOOLEAN /\ req.eop \in BOOLEAN /\ req.kind \in Kinds
        /\ req.tag \in AfuTags \union {NoTag}
        /\ req.sop <=> req.tag # NoTag
        /\ req.eop \/ (req.sop /\ req.kind = "write")
        /\ req.sop \/ (req.eop /\ req.kind = "write" /\ req.tag = NoTag)
        /\ req \in FirstBeats => req.sop
        /\ req.sop <=> packet = NoTag
  <2>1. LastBeat.sop = FALSE
    BY DEF LastBeat
  <2> QED
    BY <1>3, <2>1, AfuBeat
<1>5. ~moves => Down' = Down
  BY <1>3, DownEdge
<1>6. wr_req' # NoReq => (wr_req'.sop <=> Down' = NoTag)
  BY <1>1, <1>3, <1>4, <1>5, Beats DEF Packets
<1>7. /\ req = NoReq => packet' = packet
      /\ req # NoReq => packet' = IF req.eop THEN NoTag
                                  ELSE IF packet # NoTag THEN packet ELSE req.tag
  BY DEF Edge, AfuEdge
<1>8. packet' = Up'
  <2>1. CASE ~moves
    BY <1>1, <1>3, <1>5, <1>7, <2>1 DEF Packets, Up
  <2>2. CASE moves /\ req = NoReq
    BY <1>3, <1>7, <2>2 DEF Up
  <2>3. CASE moves /\ req # NoReq
    BY <1>3, <1>4, <1>7, <2>3 DEF Up
  <2> QED
    BY <1>3, <2>1, <2>2, <2>3
<1>9. packet' \in AfuTags \union {NoTag}
  BY <1>1, <1>4, <1>7 DEF TypeOK
<1>10. ASSUME packet' # NoTag PROVE AnswerTo("write", packet') \notin waiting'
  <2> DEFINE left == IF rr THEN waiting \ {afu_wr_rsp} ELSE waiting
  <2>1. waiting' = left
    BY <1>10, <1>7 DEF Edge, AfuEdge
  <2>2. CASE req = NoReq
    BY <1>1, <1>7, <1>10, <2>1, <2>2 DEF Packets
  <2>3. CASE req # NoReq
    <3>1. ~req.eop /\ req.kind = "write"
      BY <1>7, <1>10, <2>3, <1>4
    <3>2. AnswerTo(req.kind, packet') \notin waiting
      BY <1>7, <2>3, <3>1, NewAnswer
    <3> QED
      BY <2>1, <3>1, <3>2, AnswerKinds
  <2> QED
    BY <2>2, <2>3
<1>11. tx_wr_tlps' # NoTlp =>
         /\ tx_wr_tlps'.sop <=> sending' = NoTag
         /\ tx_wr_tlps'.sop <=> tx_wr_tlps'.afu_tag # NoTag
         /\ tx_wr_tlps'.eop \/ (tx_wr_tlps'.sop /\ tx_wr_tlps'.kind = "write")
         /\ tx_wr_tlps'.sop \/ tx_wr_tlps'.kind = "write"
         /\ tx_wr_tlps'.poison => tx_wr_tlps'.kind = "fence"
  <2>1. CASE tx_wr_tlps # NoTlp /\ ~tr
    BY <1>1, <2>1, TxEdge, DownEdge DEF Packets
  <2>2. CASE (tx_wr_tlps = NoTlp \/ tr) /\ ~wr_req_deq(at, tr)
    BY <2>2, TxEdge
  <2>3. CASE (tx_wr_tlps = NoTlp \/ tr) /\ wr_req_deq(at, tr)
    <3>1. sending' = Down /\ wr_req # NoReq
      BY <1>3, <2>3, DownEdge
    <3>2. tx_wr_tlps' = [sop |-> wr_req.sop, eop |-> wr_req.eop,
                         kind |-> wr_req.kind, afu_tag |-> wr_req.tag,
                         poison |-> wr_req_is_invalid_fence,
                         tag |-> IF IsKind("fence") THEN alloc_uid ELSE 0]
      BY <2>3, TxEdge
    <3>3. /\ tx_wr_tlps'.sop = wr_req.sop /\ tx_wr_tlps'.eop = wr_req.eop
          /\ tx_wr_tlps'.kind = wr_req.kind /\ tx_wr_tlps'.afu_tag = wr_req.tag
          /\ tx_wr_tlps'.poison = wr_req_is_invalid_fence
      BY <3>2
    <3>4. wr_req_is_invalid_fence => wr_req.kind = "fence"
      BY DEF wr_req_is_invalid_fence, IsKind
    <3> QED
      BY <1>1, <3>1, <3>3, <3>4, Beats DEF Packets
  <2> QED
    BY <1>1, <1>3, <2>1, <2>2, <2>3
<1> QED
  BY <1>6, <1>8, <1>9, <1>10, <1>11 DEF Packets

\* An answer is in one place at most, and waited for when it is in one.
LEMMA Exclusive ==
    ASSUME InOnePlace, NEW a \in Rsps
    PROVE  /\ AtReq(a) => /\ a \in waiting /\ ~AtTx(a) /\ ~AtFences(a)
                          /\ ~AtFenceReg(a) /\ ~AtFake(a)
           /\ AtTx(a) => a \in waiting /\ ~AtCommits(a) /\ ~AtFences(a) /\ ~AtIrqs(a)
           /\ AtCommits(a) => a \in waiting /\ ~AtStd(a)
           /\ AtFences(a) => a \in waiting /\ ~AtFenceReg(a)
           /\ AtIrqs(a) => a \in waiting /\ ~AtIrqReg(a)
           /\ AtFenceReg(a) => a \in waiting /\ ~AtAfu(a)
           /\ AtIrqReg(a) => a \in waiting /\ ~AtAfu(a)
           /\ AtFake(a) => a \in waiting /\ ~AtAfu(a)
           /\ AtStd(a) => a \in waiting /\ ~AtAfu(a)
           /\ AtAfu(a) => a \in waiting
<1>1. Places(a) = One(a \in waiting)
  BY DEF InOnePlace
<1> HIDE DEF AtReq, AtTx, AtCommits, AtFences, AtIrqs, AtFenceReg, AtIrqReg, AtFake, AtStd, AtAfu
<1> QED
  BY <1>1 DEF Places, One

\* The response on the port is one in its FIFO, and it is waited for.
LEMMA PortResponse ==
    ASSUME WInv
    PROVE  /\ (afu_wr_rsp # NoRsp) = Fifo2NotEmpty(afu_rsp_fifo)
           /\ afu_wr_rsp # NoRsp => /\ afu_wr_rsp = Fifo2First(afu_rsp_fifo)
                                    /\ afu_wr_rsp \in Rsps /\ AtAfu(afu_wr_rsp)
                                    /\ afu_wr_rsp \in waiting
<1>1. Queues /\ InOnePlace /\ TypeOK
  BY DEF WInv
<1>2. Fifo2NotEmpty(afu_rsp_fifo) => Fifo2First(afu_rsp_fifo) \in Fifo2Members(afu_rsp_fifo)
  BY DEF Fifo2NotEmpty, Fifo2First, Fifo2Members
<1>3. Fifo2NotEmpty(afu_rsp_fifo) \in BOOLEAN
  BY <1>1 DEF TypeOK, Fifo2States, Fifo2NotEmpty
<1>4. Fifo2NotEmpty(afu_rsp_fifo) =>
        Fifo2First(afu_rsp_fifo) \in Rsps /\ Fifo2First(afu_rsp_fifo) # NoRsp
  BY <1>1, <1>2, NothingAssumption DEF Queues
<1>5. AtAfu(afu_wr_rsp) /\ afu_wr_rsp \in Rsps => afu_wr_rsp \in waiting
  BY <1>1, Exclusive
<1> QED
  BY <1>2, <1>3, <1>4, <1>5 DEF afu_wr_rsp, AtAfu

\* What the AFU waits for after an edge.
LEMMA WaitingEdge ==
    ASSUME NEW req, NEW at, NEW tr, NEW rr, NEW fc, NEW ic, NEW wc,
           Edge(req, at, tr, rr, fc, ic, wc)
    PROVE  /\ waiting' \subseteq Rsps
           /\ \A a \in Rsps : One(a \in waiting)' =
                                One(a \in waiting) - One(Taken(rr, a)) + One(New(req, a))
           /\ IsFiniteSet(waiting')
           /\ Cardinality(waiting') = Cardinality(waiting) - One(rr)
                                        + One(req # NoReq /\ req.eop)
           /\ Cardinality(waiting) \in Nat
<1>1. WInv /\ TypeOK /\ Finite /\ rr \in BOOLEAN /\ (rr => afu_wr_rsp # NoRsp)
  BY DEF Edge, WInv
<1> DEFINE tag == IF packet # NoTag THEN packet ELSE req.tag
           new == AnswerTo(req.kind, tag)
           left == IF rr THEN waiting \ {afu_wr_rsp} ELSE waiting
           last == req # NoReq /\ req.eop
<1>2. waiting' = left \union (IF last THEN {new} ELSE {})
  BY DEF Edge, AfuEdge
<1>3. last => new \in Rsps /\ new \notin waiting
  BY NewAnswer
<1>4. rr => afu_wr_rsp \in waiting /\ afu_wr_rsp \in Rsps
  BY <1>1, PortResponse
<1>5. \A a \in Rsps : (Taken(rr, a) <=> rr /\ a = afu_wr_rsp) /\ (New(req, a) <=> last /\ a = new)
  BY DEF Taken, New
<1>6. last \in BOOLEAN
  BY ReqEdge, AfuBeat
<1> HIDE DEF new, last
<1>7. waiting' \subseteq Rsps
  BY <1>1, <1>2, <1>3 DEF TypeOK
<1>8. \A a \in Rsps : One(a \in waiting)' =
                        One(a \in waiting) - One(Taken(rr, a)) + One(New(req, a))
  BY <1>1, <1>2, <1>3, <1>4, <1>5, <1>6 DEF One
<1>9. IsFiniteSet(left) /\ Cardinality(left) = Cardinality(waiting) - One(rr)
  <2>1. CASE rr
    BY <1>1, <1>4, <2>1, FS_RemoveElement DEF One, Finite
  <2>2. CASE ~rr
    BY <1>1, <2>2, FS_CardinalityType DEF One, Finite
  <2> QED
    BY <1>1, <2>1, <2>2
<1>10. /\ IsFiniteSet(waiting')
       /\ Cardinality(waiting') = Cardinality(left) + One(last)
  <2>0. Cardinality(left) \in Nat
    BY <1>9, FS_CardinalityType
  <2>1. CASE last
    <3>1. waiting' = left \union {new} /\ new \notin left
      BY <1>2, <1>3, <2>1
    <3> HIDE DEF left
    <3> QED
      BY <1>9, <2>1, <3>1, FS_AddElement DEF One
  <2>2. CASE ~last
    BY <1>2, <1>9, <2>0, <2>2 DEF One
  <2> QED
    BY <1>6, <2>1, <2>2
<1>11. Cardinality(waiting) \in Nat
  BY <1>1, FS_CardinalityType DEF Finite
<1> QED
  BY <1>7, <1>8, <1>9, <1>10, <1>11 DEF last

\* The request register: an answer comes with a last beat and leaves with it.
LEMMA ReqFlow ==
    ASSUME NEW req, NEW at, NEW tr, NEW rr, NEW fc, NEW ic, NEW wc,
           Edge(req, at, tr, rr, fc, ic, wc)
    PROVE  /\ \A a \in Rsps : One(AtReq(a))' = One(AtReq(a)) - One(ToTx(at, tr, a))
                                - One(ToFake(at, tr, a)) + One(New(req, a))
           /\ One(wr_req # NoReq /\ wr_req.eop)' =
                One(wr_req # NoReq /\ wr_req.eop)
                  - One(wr_req_deq(at, tr) /\ wr_req.eop) + One(req # NoReq /\ req.eop)
<1>1. TypeOK /\ Packets
  BY DEF Edge, WInv
<1> DEFINE deq == wr_req_deq(at, tr)
           moves == wr_req = NoReq \/ deq
<1>2. /\ deq \in BOOLEAN
      /\ deq => wr_req # NoReq
      /\ wr_req' = IF moves THEN req ELSE wr_req
      /\ moves => Down' = packet
      /\ req # NoReq =>
                /\ req \in FirstBeats \union {LastBeat}
                /\ moves
                /\ packet # NoTag => req = LastBeat
                /\ packet = NoTag => req \in FirstBeats
  BY ReqEdge
<1>3. req # NoReq => (req.sop <=> packet = NoTag) /\ req.eop \in BOOLEAN
  <2>1. LastBeat.sop = FALSE
    BY DEF LastBeat
  <2> QED
    BY <1>2, <2>1, AfuBeat
<1>4. ~moves => Down' = Down
  BY <1>2, DownEdge
<1> HIDE DEF deq
<1>5. ASSUME NEW a \in Rsps
      PROVE  /\ moves => (AtReq(a)' <=> New(req, a))
             /\ moves => (AtReq(a) => deq)
             /\ ~moves => (AtReq(a)' <=> AtReq(a)) /\ ~New(req, a) /\ ~deq
             /\ AtReq(a) \in BOOLEAN /\ AtReq(a)' \in BOOLEAN
             /\ New(req, a) \in BOOLEAN
  <2>1. moves => (AtReq(a) => deq)
    BY DEF AtReq
  <2>2. CASE ~moves
    BY <1>2, <1>4, <2>2 DEF AtReq, New, ReqTag
  <2>3. CASE moves /\ req = NoReq
    BY <1>2, <2>3 DEF AtReq, New
  <2>4. CASE moves /\ req # NoReq
    <3>1. ReqTag' = IF packet # NoTag THEN packet ELSE req.tag
      BY <1>2, <1>3, <2>4 DEF ReqTag
    <3>2. wr_req' = req
      BY <1>2, <2>4
    <3> QED
      BY <2>1, <2>4, <3>1, <3>2 DEF AtReq, New
  <2>5. AtReq(a) \in BOOLEAN /\ AtReq(a)' \in BOOLEAN /\ New(req, a) \in BOOLEAN
    BY DEF AtReq, New
  <2> QED
    BY <1>2, <2>1, <2>2, <2>3, <2>4, <2>5
<1>6. ASSUME NEW a \in Rsps
      PROVE  /\ ToTx(at, tr, a) <=> deq /\ AtReq(a) /\ ~wr_req_is_invalid_fence
             /\ ToFake(at, tr, a) <=> deq /\ AtReq(a) /\ wr_req_is_invalid_fence
             /\ wr_req_is_invalid_fence \in BOOLEAN
  BY DEF ToTx, ToFake, deq, wr_req_is_invalid_fence, IsKind
<1>7. ASSUME NEW a \in Rsps
      PROVE  One(AtReq(a))' = One(AtReq(a)) - One(ToTx(at, tr, a))
                                - One(ToFake(at, tr, a)) + One(New(req, a))
  <2> HIDE DEF moves
  <2> QED
    BY <1>2, <1>5, <1>6 DEF One
<1>8. One(wr_req # NoReq /\ wr_req.eop)' =
        One(wr_req # NoReq /\ wr_req.eop)
          - One(deq /\ wr_req.eop) + One(req # NoReq /\ req.eop)
  BY <1>1, <1>2, <1>3, Beats DEF One
<1> QED
  BY <1>7, <1>8 DEF deq

\* The register to the arbiter: an answer comes from the request register, and
\* leaves when the arbiter takes the beat.  A poisoned beat has none.
TxLast == tx_wr_tlps # NoTlp /\ tx_wr_tlps.eop /\ ~tx_wr_tlps.poison

\* What an edge brings to the register to the arbiter and takes away.
LEMMA TxFlow ==
    ASSUME NEW req, NEW at, NEW tr, NEW rr, NEW fc, NEW ic, NEW wc,
           Edge(req, at, tr, rr, fc, ic, wc)
    PROVE  /\ \A a \in Rsps :
                One(AtTx(a))' = One(AtTx(a)) + One(ToTx(at, tr, a))
                                  - One(ToFim(tr, {"write", "atomic"}, a))
                                  - One(ToFim(tr, {"fence"}, a)) - One(ToFim(tr, {"irq"}, a))
           /\ One(TxLast)' = One(TxLast) - One(tr /\ TxLast)
                + One(wr_req_deq(at, tr) /\ wr_req.eop /\ ~wr_req_is_invalid_fence)
<1>1. /\ TypeOK /\ Packets /\ at \in BOOLEAN /\ tr \in BOOLEAN
      /\ tr => tx_wr_tlps # NoTlp
  BY DEF Edge, WInv
<1> DEFINE deq == wr_req_deq(at, tr)
           inv == wr_req_is_invalid_fence
<1>2. deq \in BOOLEAN /\ inv \in BOOLEAN /\ (deq => wr_req # NoReq)
  BY <1>1, Dequeue DEF wr_req_is_invalid_fence, IsKind
<1>3. deq => tx_wr_tlps = NoTlp \/ tr
  BY <1>1, Dequeue
<1>4. tx_wr_tlps # NoTlp => /\ tx_wr_tlps.kind \in Kinds /\ tx_wr_tlps.eop \in BOOLEAN
                            /\ tx_wr_tlps.poison \in BOOLEAN
  BY <1>1, Beats
<1>5. wr_req # NoReq => wr_req.eop \in BOOLEAN /\ wr_req.sop \in BOOLEAN
  BY <1>1, Beats
<1>6. CASE tx_wr_tlps # NoTlp /\ ~tr
  <2>1. tx_wr_tlps' = tx_wr_tlps /\ sending' = sending
    BY <1>6, TxEdge, DownEdge
  <2>2. ~deq
    BY <1>3, <1>6
  <2>3. \A a \in Rsps : AtTx(a)' = AtTx(a) /\ ~ToTx(at, tr, a)
    BY <2>1, <2>2 DEF AtTx, TxTag, ToTx
  <2>4. TxLast' = TxLast
    BY <2>1 DEF TxLast
  <2> QED
    BY <1>6, <2>2, <2>3, <2>4 DEF One, ToFim
<1>7. CASE tx_wr_tlps = NoTlp \/ tr
  <2>1. ~deq => tx_wr_tlps' = NoTlp
    BY <1>7, TxEdge
  <2>2. ASSUME deq
        PROVE  /\ tx_wr_tlps' # NoTlp
               /\ tx_wr_tlps'.sop = wr_req.sop /\ tx_wr_tlps'.eop = wr_req.eop
               /\ tx_wr_tlps'.kind = wr_req.kind
               /\ tx_wr_tlps'.poison = inv
               /\ TxTag' = ReqTag
    <3>1. /\ tx_wr_tlps' = [sop |-> wr_req.sop, eop |-> wr_req.eop,
                            kind |-> wr_req.kind, afu_tag |-> wr_req.tag,
                            poison |-> wr_req_is_invalid_fence,
                            tag |-> IF IsKind("fence") THEN alloc_uid ELSE 0]
          /\ tx_wr_tlps' # NoTlp
      BY <1>7, <2>2, TxEdge
    <3>2. sending' = Down
      BY <1>7, DownEdge
    <3> QED
      BY <3>1, <3>2 DEF TxTag, ReqTag
  <2>3. \A a \in Rsps : AtTx(a)' <=> ToTx(at, tr, a)
    BY <1>2, <2>1, <2>2 DEF AtTx, AtReq, ToTx
  <2>4. TxLast' <=> deq /\ wr_req.eop /\ ~inv
    BY <1>2, <2>1, <2>2 DEF TxLast
  <2>5. ASSUME NEW a \in Rsps
        PROVE  One(AtTx(a)) = One(ToFim(tr, {"write", "atomic"}, a))
                                + One(ToFim(tr, {"fence"}, a)) + One(ToFim(tr, {"irq"}, a))
    <3>1. AtTx(a) => tr /\ tx_wr_tlps.kind \in Kinds
      BY <1>4, <1>7 DEF AtTx
    <3>2. AtTx(a) \in BOOLEAN
      BY DEF AtTx
    <3> HIDE DEF AtTx
    <3> QED
      BY <1>1, <3>1, <3>2 DEF ToFim, One, Kinds
  <2>6. One(TxLast) = One(tr /\ TxLast)
    BY <1>1, <1>7 DEF TxLast, One
  <2>7. \A a \in Rsps : AtTx(a)' \in BOOLEAN /\ ToTx(at, tr, a) \in BOOLEAN
    BY DEF AtTx, ToTx
  <2>8. TxLast' \in BOOLEAN
    BY DEF TxLast
  <2>9. \A a \in Rsps : One(AtTx(a))' = One(ToTx(at, tr, a))
    BY <2>3, <2>7 DEF One
  <2>10. One(TxLast)' = One(deq /\ wr_req.eop /\ ~inv)
    BY <2>4, <2>8 DEF One
  <2> QED
    BY <2>5, <2>6, <2>9, <2>10, OneIsNat
<1> QED
  BY <1>1, <1>6, <1>7

-----------------------------------------------------------------------------
(* The FIM: committed writes, fences and interrupts.                       *)

\* A sequence of different values loses its head,
LEMMA WithoutHead ==
    ASSUME NEW S, NEW s \in Seq(S), s # <<>>, AllDifferent(s)
    PROVE  /\ Head(s) \in S /\ Head(s) \in Elements(s)
           /\ Tail(s) \in Seq(S) /\ Len(Tail(s)) = Len(s) - 1
           /\ AllDifferent(Tail(s)) /\ Elements(Tail(s)) = Elements(s) \ {Head(s)}
<1>1. /\ Head(s) \in S /\ Head(s) = s[1] /\ Tail(s) \in Seq(S)
      /\ Len(s) \in Nat \ {0} /\ Len(Tail(s)) = Len(s) - 1
      /\ \A i \in 1..Len(Tail(s)) : Tail(s)[i] = s[i + 1]
  BY HeadTailProperties, EmptySeq, LenProperties
<1>2. \A j \in 1..Len(s) : j = 1 \/ (j - 1 \in 1..Len(Tail(s)) /\ Tail(s)[j - 1] = s[j])
  BY <1>1
<1>3. AllDifferent(Tail(s))
  BY <1>1 DEF AllDifferent
<1>4. Elements(Tail(s)) = Elements(s) \ {Head(s)}
  <2>1. \A i \in 1..Len(Tail(s)) : s[i + 1] # s[1] /\ i + 1 \in 1..Len(s)
    BY <1>1 DEF AllDifferent
  <2>2. Elements(Tail(s)) \subseteq Elements(s) \ {Head(s)}
    BY <1>1, <2>1 DEF Elements
  <2>3. ASSUME NEW j \in 1..Len(s), s[j] # Head(s) PROVE s[j] \in Elements(Tail(s))
    <3>1. j - 1 \in 1..Len(Tail(s)) /\ Tail(s)[j - 1] = s[j]
      BY <1>1, <1>2, <2>3
    <3> QED
      BY <3>1 DEF Elements
  <2>4. Elements(s) \ {Head(s)} \subseteq Elements(Tail(s))
    BY <2>3 DEF Elements
  <2> QED
    BY <2>2, <2>4
<1>5. Head(s) \in Elements(s)
  <2>1. 1 \in 1..Len(s)
    BY <1>1
  <2> QED
    BY <1>1, <2>1 DEF Elements
<1> QED
  BY <1>1, <1>3, <1>4, <1>5

\* and gets another value at its end.
LEMMA WithLast ==
    ASSUME NEW S, NEW s \in Seq(S), AllDifferent(s), NEW x \in S, x \notin Elements(s)
    PROVE  /\ s \o <<x>> \in Seq(S) /\ Len(s \o <<x>>) = Len(s) + 1
           /\ AllDifferent(s \o <<x>>) /\ Elements(s \o <<x>>) = Elements(s) \union {x}
<1> DEFINE t == s \o <<x>>
<1>1. /\ t \in Seq(S) /\ Len(s) \in Nat /\ Len(t) = Len(s) + 1
      /\ \A i \in 1..Len(s) : t[i] = s[i]
      /\ t[Len(s) + 1] = x
  BY ConcatProperties, LenProperties
<1> HIDE DEF t
<1>2. AllDifferent(t) /\ Elements(t) = Elements(s) \union {x}
  <2>1. \A i \in 1..Len(s) : s[i] \in Elements(s)
    BY DEF Elements
  <2>2. AllDifferent(t)
    BY <1>1, <2>1 DEF AllDifferent
  <2>3. \A i \in 1..Len(t) : i \in 1..Len(s) \/ i = Len(s) + 1
    BY <1>1
  <2>4. Elements(t) \subseteq Elements(s) \union {x}
    BY <1>1, <2>1, <2>3 DEF Elements
  <2>5. Len(s) + 1 \in 1..Len(t) /\ \A i \in 1..Len(s) : i \in 1..Len(t)
    BY <1>1
  <2>6. Elements(s) \union {x} \subseteq Elements(t)
    BY <1>1, <2>5 DEF Elements
  <2> QED
    BY <2>2, <2>4, <2>6
<1> QED
  BY <1>1, <1>2 DEF t

\* An answer is to a request of the kind with one tag u, or to none.
LEMMA TagOf ==
    ASSUME NEW kind, NEW a
    PROVE  \/ /\ \A s : a # AnswerTo(kind, s)
              /\ \A tags : a \notin AnswersTo(kind, tags)
           \/ \E u : /\ \A s : a = AnswerTo(kind, s) <=> s = u
                     /\ \A tags : a \in AnswersTo(kind, tags) <=> u \in tags
<1>1. CASE \E u : a = AnswerTo(kind, u)
  <2>1. PICK u : a = AnswerTo(kind, u)
    BY <1>1
  <2>2. \A s : a = AnswerTo(kind, s) <=> s = u
    BY <2>1, AnswerTags
  <2>3. \A tags : a \in AnswersTo(kind, tags) <=> u \in tags
    BY <2>2 DEF AnswersTo
  <2> QED
    BY <2>2, <2>3
<1>2. CASE ~\E u : a = AnswerTo(kind, u)
  BY <1>2 DEF AnswersTo
<1> QED
  BY <1>1, <1>2

\* One value leaves and one comes: what that does to a count of 0 or 1.
LEMMA OneFlow ==
    ASSUME NEW p \in BOOLEAN, NEW q \in BOOLEAN, NEW out \in BOOLEAN, NEW in \in BOOLEAN,
           q <=> (p /\ ~out) \/ in, out => p, in => ~p
    PROVE  One(q) = One(p) - One(out) + One(in)
  BY DEF One

\* The committed writes to report.
LEMMA CommitsFlow ==
    ASSUME NEW req, NEW at, NEW tr, NEW rr, NEW fc, NEW ic, NEW wc,
           Edge(req, at, tr, rr, fc, ic, wc)
    PROVE  /\ commits' \in Seq(AfuTags) /\ AllDifferent(commits')
           /\ \A a \in Rsps :
                One(AtCommits(a))' = One(AtCommits(a)) - One(ToStd(wc, a))
                                       + One(ToFim(tr, {"write", "atomic"}, a))
           /\ Len(commits') = Len(commits) - One(wc # NoTag)
                + One(tr /\ TxLast /\ tx_wr_tlps.kind \in {"write", "atomic"})
           /\ wc # NoTag => wc \in AfuTags /\ AtCommits(AnswerTo("write", wc))
<1>1. /\ TypeOK /\ Packets /\ Queues /\ InOnePlace /\ tr \in BOOLEAN
      /\ tr => tx_wr_tlps # NoTlp
  BY DEF Edge, WInv
<1> DEFINE b == tx_wr_tlps
           pop == wc # NoTag
           add == tr /\ TxLast /\ b.kind \in {"write", "atomic"}
           mid == IF pop THEN Tail(commits) ELSE commits
<1>2. pop => commits # <<>> /\ wc = Head(commits)
  BY DEF Edge, WrCpls
<1>3. commits' = mid \o (IF add THEN <<TxTag>> ELSE <<>>)
  BY <1>1 DEF Edge, FimEdge, TxLast, TxTag
<1>4. commits \in Seq(AfuTags) /\ AllDifferent(commits) /\ Len(commits) \in Nat
  BY <1>1, LenProperties DEF TypeOK, Queues
<1>5. TxLast => TxTag \in AfuTags
  BY <1>1, Beats DEF TxLast
<1>6. \A a : AtCommits(a) <=> a \in AnswersTo("write", Elements(commits))
  BY DEF AtCommits
<1>7. \A a : AtCommits(a)' <=> a \in AnswersTo("write", Elements(commits'))
  BY DEF AtCommits
<1>8. ASSUME NEW a \in Rsps
      PROVE  ToFim(tr, {"write", "atomic"}, a) <=> add /\ a = AnswerTo("write", TxTag)
  <2>1. ASSUME tx_wr_tlps.kind \in {"write", "atomic"}
        PROVE  AnswerTo(tx_wr_tlps.kind, TxTag) = AnswerTo("write", TxTag)
    <3>1. CASE tx_wr_tlps.kind = "write"
      BY <3>1, AnswerKinds
    <3>2. CASE tx_wr_tlps.kind = "atomic"
      BY <3>2, AnswerKinds
    <3> QED
      BY <2>1, <3>1, <3>2
  <2> QED
    BY <2>1 DEF ToFim, AtTx, TxLast
<1>9. add => TxTag \in AfuTags /\ TxTag \notin Elements(commits)
  <2> SUFFICES ASSUME add PROVE TxTag \in AfuTags /\ TxTag \notin Elements(commits)
    OBVIOUS
  <2>1. TxTag \in AfuTags
    BY <1>5
  <2>2. AnswerTo("write", TxTag) \in Rsps
    BY <2>1, AnswerTags
  <2>3. AtTx(AnswerTo("write", TxTag))
    BY <1>8, <2>2 DEF ToFim
  <2>4. ~AtCommits(AnswerTo("write", TxTag))
    BY <1>1, <2>2, <2>3, Exclusive
  <2> QED
    BY <1>6, <2>1, <2>4 DEF AnswersTo
<1> HIDE DEF add
<1>10. /\ mid \in Seq(AfuTags) /\ AllDifferent(mid) /\ Len(mid) \in Nat
       /\ Len(mid) = Len(commits) - One(pop)
       /\ Elements(mid) = Elements(commits) \ (IF pop THEN {wc} ELSE {})
       /\ pop => wc \in AfuTags /\ wc \in Elements(commits)
  <2>1. CASE pop
    BY <1>2, <1>4, <2>1, WithoutHead, LenProperties DEF One
  <2>2. CASE ~pop
    BY <1>4, <2>2 DEF One
  <2> QED
    BY <2>1, <2>2
<1> HIDE DEF mid
<1>11. /\ commits' \in Seq(AfuTags) /\ AllDifferent(commits')
       /\ Len(commits') = Len(mid) + One(add)
       /\ Elements(commits') = Elements(mid) \union (IF add THEN {TxTag} ELSE {})
  <2>1. CASE add
    <3>1. commits' = mid \o <<TxTag>>
      BY <1>3, <2>1
    <3>2. TxTag \notin Elements(mid) /\ TxTag \in AfuTags
      BY <1>9, <1>10, <2>1
    <3> QED
      BY <1>10, <2>1, <3>1, <3>2, WithLast DEF One
  <2>2. CASE ~add
    <3>1. commits' = mid
      BY <1>3, <1>10, <2>2, ConcatEmptySeq
    <3> QED
      BY <1>10, <2>2, <3>1 DEF One
  <2> QED
    BY <2>1, <2>2
<1>12. ASSUME NEW a \in Rsps
       PROVE  One(AtCommits(a))' = One(AtCommits(a)) - One(ToStd(wc, a))
                                     + One(ToFim(tr, {"write", "atomic"}, a))
  <2>0. pop \in BOOLEAN /\ add \in BOOLEAN
    BY <1>1 DEF add, TxLast
  <2>1. /\ AtCommits(a)' <=> \/ AtCommits(a) /\ ~(pop /\ a = AnswerTo("write", wc))
                             \/ add /\ a = AnswerTo("write", TxTag)
        /\ pop /\ a = AnswerTo("write", wc) => AtCommits(a)
        /\ add /\ a = AnswerTo("write", TxTag) => ~AtCommits(a)
    <3>1. Elements(commits') = (Elements(commits) \ (IF pop THEN {wc} ELSE {}))
                                 \union (IF add THEN {TxTag} ELSE {})
      BY <1>10, <1>11
    <3>2. (pop => wc \in Elements(commits)) /\ (add => TxTag \notin Elements(commits))
      BY <1>9, <1>10
    <3>3. CASE \A s : a # AnswerTo("write", s)
      BY <1>6, <1>7, <3>3 DEF AnswersTo
    <3>4. ASSUME NEW u, \A s : a = AnswerTo("write", s) <=> s = u,
                 \A tags : a \in AnswersTo("write", tags) <=> u \in tags
          PROVE  <2>1!:
      BY <1>6, <1>7, <3>1, <3>2, <3>4
    <3> QED
      BY <3>3, <3>4, TagOf
  <2>2. ToStd(wc, a) <=> pop /\ a = AnswerTo("write", wc)
    BY DEF ToStd
  <2>3. /\ AtCommits(a) \in BOOLEAN /\ AtCommits(a)' \in BOOLEAN
        /\ ToStd(wc, a) \in BOOLEAN /\ ToFim(tr, {"write", "atomic"}, a) \in BOOLEAN
    BY <1>1 DEF AtCommits, ToStd, ToFim, AtTx
  <2> HIDE DEF pop
  <2> QED
    BY <1>8, <2>1, <2>2, <2>3, OneFlow DEF One
<1>13. Len(commits') = Len(commits) - One(pop) + One(add)
  BY <1>10, <1>11
<1>14. pop => wc \in AfuTags /\ AtCommits(AnswerTo("write", wc))
  BY <1>6, <1>10 DEF AnswersTo
<1> QED
  BY <1>11, <1>12, <1>13, <1>14 DEF add

\* The interrupts to complete.
LEMMA IrqsFlow ==
    ASSUME NEW req, NEW at, NEW tr, NEW rr, NEW fc, NEW ic, NEW wc,
           Edge(req, at, tr, rr, fc, ic, wc)
    PROVE  /\ irqs' \subseteq AfuTags /\ IsFiniteSet(irqs')
           /\ \A a \in Rsps : One(AtIrqs(a))' = One(AtIrqs(a)) - One(ToIrqReg(ic, a))
                                                  + One(ToFim(tr, {"irq"}, a))
           /\ Cardinality(irqs') = Cardinality(irqs) - One(ic # NoTag)
                                     + One(tr /\ TxLast /\ tx_wr_tlps.kind = "irq")
           /\ Cardinality(irqs) \in Nat
           /\ ic # NoTag => irq_cpl_reg = NoTag /\ ic \in AfuTags /\ AtIrqs(AnswerTo("irq", ic))
<1>1. /\ TypeOK /\ Packets /\ InOnePlace /\ Finite /\ tr \in BOOLEAN
      /\ tr => tx_wr_tlps # NoTlp
  BY DEF Edge, WInv
<1> DEFINE b == tx_wr_tlps
           done == ic # NoTag
           add == tr /\ TxLast /\ b.kind = "irq"
           rest == irqs \ (IF done THEN {ic} ELSE {})
<1>2. NoTag \notin AfuTags
  BY WriteTlpsAssumption
<1>3. irqs \subseteq AfuTags
  BY <1>1 DEF TypeOK
<1>4. done => irq_cpl_reg = NoTag /\ ic \in irqs
  BY DEF Edge, IrqCpls, irq_cpl_tready
<1>5. irqs' = rest \union (IF add THEN {TxTag} ELSE {})
  <2>1. tr => /\ b.eop \/ (b.sop /\ b.kind = "write")
              /\ b.sop \/ b.kind = "write"
              /\ b.poison => b.kind = "fence"
              /\ b.poison \in BOOLEAN /\ b.eop \in BOOLEAN /\ b.sop \in BOOLEAN
    BY <1>1, Beats DEF Packets
  <2>2. irqs' = (irqs \ {ic})
                  \union (IF b # NoTlp /\ tr /\ ~b.poison /\ b.kind \in {"irq"}
                          THEN {b.afu_tag} ELSE {})
    BY DEF Edge, FimEdge
  <2>3. (b # NoTlp /\ tr /\ ~b.poison /\ b.kind \in {"irq"}) <=> add
    BY <1>1, <2>1 DEF TxLast
  <2>4. add => b.afu_tag = TxTag
    BY <1>1, <2>1 DEF TxTag
  <2>5. irqs \ {ic} = rest
    BY <1>2, <1>3
  <2> QED
    BY <2>2, <2>3, <2>4, <2>5
<1>6. TxLast => TxTag \in AfuTags
  BY <1>1, Beats DEF TxLast
<1>7. ASSUME NEW a \in Rsps
      PROVE  ToFim(tr, {"irq"}, a) <=> add /\ a = AnswerTo("irq", TxTag)
  BY DEF ToFim, AtTx, TxLast
<1>8. add => TxTag \in AfuTags /\ TxTag \notin irqs
  <2> SUFFICES ASSUME add PROVE TxTag \in AfuTags /\ TxTag \notin irqs
    OBVIOUS
  <2>1. AnswerTo("irq", TxTag) \in Rsps
    BY <1>6, AnswerTags
  <2>2. AtTx(AnswerTo("irq", TxTag))
    BY <1>7, <2>1 DEF ToFim
  <2>3. ~AtIrqs(AnswerTo("irq", TxTag))
    BY <1>1, <2>1, <2>2, Exclusive
  <2> QED
    BY <1>6, <2>3 DEF AtIrqs, AnswersTo
<1>9. done \in BOOLEAN /\ add \in BOOLEAN
  BY <1>1 DEF TxLast
<1> HIDE DEF add
<1>10. irqs' \subseteq AfuTags
  BY <1>3, <1>5, <1>8
<1>11. ASSUME NEW a \in Rsps
       PROVE  One(AtIrqs(a))' = One(AtIrqs(a)) - One(ToIrqReg(ic, a))
                                  + One(ToFim(tr, {"irq"}, a))
  <2>1. /\ AtIrqs(a)' <=> \/ AtIrqs(a) /\ ~(done /\ a = AnswerTo("irq", ic))
                          \/ add /\ a = AnswerTo("irq", TxTag)
        /\ done /\ a = AnswerTo("irq", ic) => AtIrqs(a)
        /\ add /\ a = AnswerTo("irq", TxTag) => ~AtIrqs(a)
    <3>1. CASE \A s : a # AnswerTo("irq", s)
      BY <3>1 DEF AtIrqs, AnswersTo
    <3>2. ASSUME NEW u, \A s : a = AnswerTo("irq", s) <=> s = u,
                 \A tags : a \in AnswersTo("irq", tags) <=> u \in tags
          PROVE  <2>1!:
      BY <1>4, <1>5, <1>8, <3>2 DEF AtIrqs
    <3> QED
      BY <3>1, <3>2, TagOf
  <2>2. ToIrqReg(ic, a) <=> done /\ a = AnswerTo("irq", ic)
    BY DEF ToIrqReg
  <2>3. /\ AtIrqs(a) \in BOOLEAN /\ AtIrqs(a)' \in BOOLEAN
        /\ ToIrqReg(ic, a) \in BOOLEAN /\ ToFim(tr, {"irq"}, a) \in BOOLEAN
    BY <1>1 DEF AtIrqs, ToIrqReg, ToFim, AtTx
  <2> HIDE DEF done
  <2> QED
    BY <1>7, <2>1, <2>2, <2>3, OneFlow DEF One
<1>12. /\ IsFiniteSet(rest) /\ Cardinality(rest) \in Nat
       /\ Cardinality(rest) = Cardinality(irqs) - One(done)
  <2>0. IsFiniteSet(irqs) /\ Cardinality(irqs) \in Nat
    BY <1>1, FS_CardinalityType DEF Finite
  <2>1. CASE done
    <3>1. rest = irqs \ {ic} /\ ic \in irqs
      BY <1>4, <2>1
    <3> QED
      BY <2>0, <2>1, <3>1, FS_RemoveElement, FS_CardinalityType DEF One
  <2>2. CASE ~done
    <3>1. rest = irqs
      BY <2>2
    <3> QED
      BY <2>0, <2>2, <3>1 DEF One
  <2> QED
    BY <2>1, <2>2
<1>13. IsFiniteSet(irqs') /\ Cardinality(irqs') = Cardinality(rest) + One(add)
  <2>1. CASE add
    <3>1. irqs' = rest \union {TxTag} /\ TxTag \notin rest
      BY <1>5, <1>8, <2>1
    <3> HIDE DEF rest
    <3> QED
      BY <1>12, <2>1, <3>1, FS_AddElement DEF One
  <2>2. CASE ~add
    <3>1. irqs' = rest
      BY <1>5, <2>2
    <3> QED
      BY <1>12, <2>2, <3>1 DEF One
  <2> QED
    BY <2>1, <2>2
<1>14. Cardinality(irqs) \in Nat
  BY <1>1, FS_CardinalityType DEF Finite
<1>15. done => irq_cpl_reg = NoTag /\ ic \in AfuTags /\ AtIrqs(AnswerTo("irq", ic))
  BY <1>3, <1>4 DEF AtIrqs, AnswersTo
<1>16. Cardinality(irqs') = Cardinality(irqs) - One(done) + One(add)
  BY <1>12, <1>13
<1> QED
  BY <1>10, <1>11, <1>13, <1>14, <1>15, <1>16 DEF add

\* The fence tags: a fence that will be sent takes one the AFU's tag of which is
\* not that of another fence, and the memory keeps what it has for the others.
LEMMA TagEdge ==
    ASSUME NEW req, NEW at, NEW tr, NEW rr, NEW fc, NEW ic, NEW wc,
           Edge(req, at, tr, rr, fc, ic, wc)
    PROVE  /\ IInv'
           /\ fence_meta' \in [t_uid -> AfuTags \union {NoTag}]
           /\ \A t \in held : fence_meta'[t] = fence_meta[t]
           /\ held' = (held \ (IF FreeFenceTag THEN {wr_fence_cpl_reg} ELSE {}))
                        \union (IF AllocFenceTag(wr_req_deq(at, tr)) THEN {alloc_uid} ELSE {})
           /\ AllocFenceTag(wr_req_deq(at, tr)) =>
                /\ alloc_uid \in t_uid /\ alloc_uid \notin held
                /\ fence_meta'[alloc_uid] = wr_req.tag /\ wr_req.tag \in AfuTags
                /\ \A t \in held : fence_meta[t] # wr_req.tag
           /\ FreeFenceTag => wr_fence_cpl_reg \in held
<1>1. /\ TypeOK /\ Packets /\ InOnePlace /\ IInv /\ FenceTags
      /\ at \in BOOLEAN /\ tr \in BOOLEAN
  BY DEF Edge, WInv
<1> DEFINE deq == wr_req_deq(at, tr)
           alloc == AllocFenceTag(deq)
<1>2. /\ UidEdge(alloc, FreeFenceTag, FreeFenceTagValue)
      /\ fence_meta' = FenceMetaNext(deq)
  BY DEF Edge, Engine
<1>3. alloc => /\ deq /\ wr_req # NoReq /\ alloc_ready
               /\ wr_req.kind = "fence" /\ wr_req.eop /\ wr_req.sop
               /\ wr_req.tag \in AfuTags
  <2>1. alloc => deq /\ wr_req.kind = "fence"
    BY DEF AllocFenceTag, IsKind
  <2>2. deq => wr_req # NoReq /\ alloc_ready
    BY <1>1, Dequeue
  <2> HIDE DEF alloc, deq
  <2> QED
    BY <1>1, <2>1, <2>2, Beats
<1>4. alloc \in BOOLEAN /\ FreeFenceTag \in BOOLEAN
  BY <1>1 DEF AllocFenceTag, FreeFenceTag, TypeOK, wr_rsp_notFull, Fifo2NotFull, IsKind,
              wr_req_deq
<1>5. FreeFenceTag => wr_fence_cpl_reg \in held
  BY <1>1 DEF FreeFenceTag, FenceTags, FenceDone
<1>6. FreeFenceTagValue \in t_uid /\ (FreeFenceTag => FreeFenceTagValue = wr_fence_cpl_reg)
  <2>1. 0 \in t_uid
    BY UidAssumption DEF t_uid
  <2>2. FreeFenceTag => wr_fence_cpl_reg \in t_uid
    BY <1>1 DEF FreeFenceTag, TypeOK
  <2> QED
    BY <2>1, <2>2 DEF FreeFenceTagValue
<1> HIDE DEF alloc
<1>7. IInv'
  BY <1>1, <1>2, <1>4, <1>5, <1>6, EdgeInvariant
<1>8. held' = (held \ (IF FreeFenceTag THEN {wr_fence_cpl_reg} ELSE {}))
                \union (IF alloc THEN {alloc_uid} ELSE {})
  BY <1>2, <1>3, <1>6 DEF UidEdge
<1>9. alloc => alloc_uid \in t_uid /\ alloc_uid \notin held
  BY <1>1, <1>3, OfferedUid
<1>10. fence_meta' = IF alloc THEN [fence_meta EXCEPT ![alloc_uid] = wr_req.tag]
                     ELSE fence_meta
  BY <1>2 DEF FenceMetaNext, alloc
<1>11. fence_meta \in [t_uid -> AfuTags \union {NoTag}] /\ held \subseteq t_uid
  BY <1>1 DEF TypeOK, IInv, UidTypeOK
<1>12. /\ fence_meta' \in [t_uid -> AfuTags \union {NoTag}]
       /\ \A t \in held : fence_meta'[t] = fence_meta[t]
       /\ alloc => fence_meta'[alloc_uid] = wr_req.tag
  BY <1>3, <1>9, <1>10, <1>11
<1>13. ASSUME alloc, NEW t \in held PROVE fence_meta[t] # wr_req.tag
  <2> DEFINE a == AnswerTo("fence", wr_req.tag)
  <2>1. a \in Rsps
    BY <1>3, <1>13, AnswerTags
  <2>2. AtReq(a)
    <3>1. ReqTag = wr_req.tag
      BY <1>3, <1>13 DEF ReqTag
    <3> QED
      BY <1>3, <1>13, <3>1 DEF AtReq
  <2>3. ~AtTx(a) /\ ~AtFences(a) /\ ~AtFenceReg(a)
    BY <1>1, <2>1, <2>2, Exclusive
  <2>4. t \in FenceOnTx \/ t \in fences \/ t \in FenceDone
    BY <1>1 DEF FenceTags
  <2>5. CASE t \in FenceOnTx
    <3>1. /\ tx_wr_tlps # NoTlp /\ ~tx_wr_tlps.poison /\ tx_wr_tlps.kind = "fence"
          /\ fence_meta[t] = tx_wr_tlps.afu_tag
      BY <1>1, <2>5 DEF FenceOnTx, FenceTags
    <3>2. tx_wr_tlps.eop /\ TxTag = tx_wr_tlps.afu_tag
      BY <1>1, <3>1 DEF Packets, TxTag
    <3> QED
      BY <2>3, <3>1, <3>2 DEF AtTx
  <2>6. CASE t \in fences
    BY <2>3, <2>6 DEF AtFences, AnswersTo, Metas
  <2>7. CASE t \in FenceDone
    BY <2>3, <2>7 DEF AtFenceReg, FenceDone
  <2> QED
    BY <2>4, <2>5, <2>6, <2>7
<1> QED
  BY <1>3, <1>5, <1>7, <1>8, <1>9, <1>12, <1>13 DEF alloc

\* Where the fence tags are after an edge.
LEMMA FencePlaces ==
    ASSUME NEW req, NEW at, NEW tr, NEW rr, NEW fc, NEW ic, NEW wc,
           Edge(req, at, tr, rr, fc, ic, wc)
    PROVE  LET sent == tr /\ TxLast /\ tx_wr_tlps.kind = "fence"
               done == fc # NoTag
           IN /\ sent => /\ tx_wr_tlps.tag \in FenceOnTx /\ tx_wr_tlps.tag \in held
                         /\ tx_wr_tlps.tag \notin fences
                         /\ TxTag = fence_meta[tx_wr_tlps.tag]
              /\ done => fc \in fences /\ fc \in held /\ wr_fence_cpl_reg = NoTag
              /\ fences' = (fences \ (IF done THEN {fc} ELSE {}))
                             \union (IF sent THEN {tx_wr_tlps.tag} ELSE {})
              /\ FenceOnTx' = (FenceOnTx \ (IF sent THEN {tx_wr_tlps.tag} ELSE {}))
                    \union (IF AllocFenceTag(wr_req_deq(at, tr)) THEN {alloc_uid} ELSE {})
              /\ FenceDone' = (FenceDone \ (IF FreeFenceTag THEN {wr_fence_cpl_reg} ELSE {}))
                                \union (IF done THEN {fc} ELSE {})
              /\ wr_fence_cpl_reg' = IF done THEN fc
                                     ELSE IF wr_rsp_notFull THEN NoTag ELSE wr_fence_cpl_reg
<1>1. /\ TypeOK /\ Packets /\ FenceTags /\ at \in BOOLEAN /\ tr \in BOOLEAN
      /\ tr => tx_wr_tlps # NoTlp
  BY DEF Edge, WInv
<1> DEFINE b == tx_wr_tlps
           sent == tr /\ TxLast /\ b.kind = "fence"
           done == fc # NoTag
           deq == wr_req_deq(at, tr)
           alloc == AllocFenceTag(deq)
<1>2. NoTag \notin t_uid /\ fences \subseteq t_uid
  BY <1>1, WriteTlpsAssumption DEF TypeOK
<1>3. b # NoTlp => /\ b.eop \/ (b.sop /\ b.kind = "write")
                   /\ b.sop \/ b.kind = "write"
                   /\ b.poison \in BOOLEAN /\ b.eop \in BOOLEAN /\ b.sop \in BOOLEAN
                   /\ b.tag \in t_uid
  BY <1>1, Beats DEF Packets
<1>4. sent => b.tag \in FenceOnTx /\ TxTag = fence_meta[b.tag]
  <2>1. sent => b # NoTlp /\ b.kind = "fence" /\ ~b.poison /\ b.sop
    BY <1>1, <1>3 DEF TxLast
  <2>2. sent => b.tag \in FenceOnTx
    BY <2>1 DEF FenceOnTx
  <2>3. sent => fence_meta[b.tag] = b.afu_tag
    BY <1>1, <2>2 DEF FenceTags
  <2> QED
    BY <2>1, <2>2, <2>3 DEF TxTag
<1>5. sent => b.tag \in held /\ b.tag \notin fences
  BY <1>1, <1>4 DEF FenceTags
<1>6. done => fc \in fences /\ fc \in held /\ wr_fence_cpl_reg = NoTag
  BY <1>1 DEF Edge, FenceCpls, fence_cpl_tready, FenceTags
<1>7. fences' = (fences \ (IF done THEN {fc} ELSE {}))
                  \union (IF sent THEN {b.tag} ELSE {})
  <2>1. fences' = (fences \ {fc})
                  \union (IF b # NoTlp /\ tr /\ ~b.poison /\ b.kind \in {"fence"}
                          THEN {b.tag} ELSE {})
    BY DEF Edge, FimEdge
  <2>2. (b # NoTlp /\ tr /\ ~b.poison /\ b.kind \in {"fence"}) <=> sent
    BY <1>1, <1>3 DEF TxLast
  <2>3. fences \ {fc} = fences \ (IF done THEN {fc} ELSE {})
    BY <1>2
  <2> QED
    BY <2>1, <2>2, <2>3
<1>8. FenceOnTx' = (FenceOnTx \ (IF sent THEN {b.tag} ELSE {}))
                      \union (IF alloc THEN {alloc_uid} ELSE {})
  <2>1. deq \in BOOLEAN /\ (deq => wr_req # NoReq /\ (b = NoTlp \/ tr))
    BY <1>1, Dequeue
  <2>2. CASE b # NoTlp /\ ~tr
    <3>1. tx_wr_tlps' = tx_wr_tlps
      BY <2>2, TxEdge
    <3>2. ~alloc /\ ~sent
      BY <2>1, <2>2 DEF AllocFenceTag
    <3> QED
      BY <3>1, <3>2 DEF FenceOnTx
  <2>3. CASE b = NoTlp \/ tr
    <3>1. FenceOnTx \ (IF sent THEN {b.tag} ELSE {}) = {}
      BY <1>1, <1>3, <2>3 DEF FenceOnTx, TxLast
    <3>2. CASE ~deq
      <4>1. tx_wr_tlps' = NoTlp /\ ~alloc
        BY <2>3, <3>2, TxEdge DEF AllocFenceTag
      <4> QED
        BY <3>1, <4>1 DEF FenceOnTx
    <3>3. CASE deq
      <4>1. /\ tx_wr_tlps' # NoTlp
            /\ tx_wr_tlps' = [sop |-> wr_req.sop, eop |-> wr_req.eop,
                              kind |-> wr_req.kind, afu_tag |-> wr_req.tag,
                              poison |-> wr_req_is_invalid_fence,
                              tag |-> IF IsKind("fence") THEN alloc_uid ELSE 0]
        BY <2>3, <3>3, TxEdge
      <4>2. /\ tx_wr_tlps'.kind = wr_req.kind
            /\ tx_wr_tlps'.poison = wr_req_is_invalid_fence
            /\ IsKind("fence") => tx_wr_tlps'.tag = alloc_uid
        BY <4>1
      <4>3. IsKind("fence") <=> wr_req.kind = "fence"
        BY <2>1, <3>3 DEF IsKind, wr_req_notEmpty
      <4>4. last_wr_addr_valid \in BOOLEAN
        BY <1>1 DEF TypeOK
      <4>5. FenceOnTx' = IF alloc THEN {alloc_uid} ELSE {}
        <5>1. alloc <=> wr_req.kind = "fence" /\ ~wr_req_is_invalid_fence
          BY <3>3, <4>3, <4>4 DEF AllocFenceTag, wr_req_is_invalid_fence
        <5> HIDE DEF alloc, deq
        <5> QED
          BY <4>1, <4>2, <4>3, <5>1 DEF FenceOnTx
      <4> QED
        BY <3>1, <4>5
    <3> QED
      BY <2>1, <3>2, <3>3
  <2> QED
    BY <1>1, <2>2, <2>3
<1>9. wr_fence_cpl_reg' = IF done THEN fc
                          ELSE IF wr_rsp_notFull THEN NoTag ELSE wr_fence_cpl_reg
  <2>1. wr_fence_cpl_reg' = WrFenceCplRegNext(fc)
    BY DEF Edge, Engine
  <2>2. fc # NoTag => fence_cpl_tready
    BY DEF Edge, FenceCpls
  <2> QED
    BY <2>1, <2>2 DEF WrFenceCplRegNext, fence_cpl_tready
<1>10. FenceDone' = (FenceDone \ (IF FreeFenceTag THEN {wr_fence_cpl_reg} ELSE {}))
                      \union (IF done THEN {fc} ELSE {})
  BY <1>6, <1>9 DEF FenceDone, FreeFenceTag
<1> QED
  BY <1>4, <1>5, <1>6, <1>7, <1>8, <1>9, <1>10

\* The fence tags in use stay those of the fences on their way.
LEMMA FenceTagsEdge ==
    ASSUME NEW req, NEW at, NEW tr, NEW rr, NEW fc, NEW ic, NEW wc,
           Edge(req, at, tr, rr, fc, ic, wc)
    PROVE  FenceTags' /\ fences' \subseteq t_uid /\ wr_fence_cpl_reg' \in t_uid \union {NoTag}
<1>1. /\ TypeOK /\ Packets /\ FenceTags /\ IInv /\ at \in BOOLEAN /\ tr \in BOOLEAN
      /\ tr => tx_wr_tlps # NoTlp
  BY DEF Edge, WInv
<1> DEFINE b == tx_wr_tlps
           sent == tr /\ TxLast /\ b.kind = "fence"
           done == fc # NoTag
           alloc == AllocFenceTag(wr_req_deq(at, tr))
           free == FreeFenceTag
<1>2. /\ sent => b.tag \in FenceOnTx /\ b.tag \in held /\ b.tag \notin fences
      /\ done => fc \in fences /\ fc \in held /\ wr_fence_cpl_reg = NoTag
      /\ fences' = (fences \ (IF done THEN {fc} ELSE {}))
                     \union (IF sent THEN {b.tag} ELSE {})
      /\ FenceOnTx' = (FenceOnTx \ (IF sent THEN {b.tag} ELSE {}))
                        \union (IF alloc THEN {alloc_uid} ELSE {})
      /\ FenceDone' = (FenceDone \ (IF free THEN {wr_fence_cpl_reg} ELSE {}))
                        \union (IF done THEN {fc} ELSE {})
      /\ wr_fence_cpl_reg' = IF done THEN fc
                             ELSE IF wr_rsp_notFull THEN NoTag ELSE wr_fence_cpl_reg
  BY FencePlaces
<1>3. /\ \A t \in held : fence_meta'[t] = fence_meta[t]
      /\ held' = (held \ (IF free THEN {wr_fence_cpl_reg} ELSE {}))
                   \union (IF alloc THEN {alloc_uid} ELSE {})
      /\ alloc => /\ alloc_uid \in t_uid /\ alloc_uid \notin held
                  /\ fence_meta'[alloc_uid] = wr_req.tag /\ wr_req.tag \in AfuTags
                  /\ \A t \in held : fence_meta[t] # wr_req.tag
      /\ free => wr_fence_cpl_reg \in held
  BY TagEdge
<1>4. free => wr_fence_cpl_reg \in FenceDone
  BY DEF FreeFenceTag, FenceDone
<1>5. ASSUME NEW t \in FenceOnTx' PROVE fence_meta'[t] = tx_wr_tlps'.afu_tag
  <2>1. CASE b # NoTlp /\ ~tr
    <3>1. tx_wr_tlps' = tx_wr_tlps
      BY <2>1, TxEdge
    <3>2. t \in FenceOnTx
      BY <1>5, <3>1 DEF FenceOnTx
    <3> QED
      BY <1>1, <1>3, <3>1, <3>2 DEF FenceTags
  <2>2. CASE b = NoTlp \/ tr
    <3>1. tx_wr_tlps' # NoTlp /\ tx_wr_tlps'.kind = "fence" /\ ~tx_wr_tlps'.poison
      BY <1>5 DEF FenceOnTx
    <3>2. wr_req_deq(at, tr)
      BY <2>2, <3>1, TxEdge
    <3>3. tx_wr_tlps' = [sop |-> wr_req.sop, eop |-> wr_req.eop,
                         kind |-> wr_req.kind, afu_tag |-> wr_req.tag,
                         poison |-> wr_req_is_invalid_fence,
                         tag |-> IF IsKind("fence") THEN alloc_uid ELSE 0]
      BY <2>2, <3>2, TxEdge
    <3>4. tx_wr_tlps'.kind = wr_req.kind /\ tx_wr_tlps'.afu_tag = wr_req.tag
          /\ tx_wr_tlps'.poison = wr_req_is_invalid_fence
          /\ (IsKind("fence") => tx_wr_tlps'.tag = alloc_uid)
      BY <3>3
    <3>5. wr_req # NoReq
      BY <3>2, ReqEdge
    <3>6. last_wr_addr_valid \in BOOLEAN
      BY <1>1 DEF TypeOK
    <3>7. alloc /\ t = alloc_uid
      BY <1>5, <3>1, <3>2, <3>4, <3>5, <3>6
         DEF FenceOnTx, AllocFenceTag, IsKind, wr_req_notEmpty, wr_req_is_invalid_fence
    <3> QED
      BY <1>3, <3>4, <3>7
  <2> QED
    BY <1>1, <2>1, <2>2
<1> HIDE DEF sent, done, alloc, free
<1>6. held' = FenceOnTx' \union fences' \union FenceDone'
  BY <1>1, <1>2, <1>3, <1>4 DEF FenceTags
<1>7. /\ FenceOnTx' \intersect fences' = {}
      /\ (FenceOnTx' \union fences') \intersect FenceDone' = {}
  BY <1>1, <1>2, <1>3 DEF FenceTags
<1>8. \A t \in held' : t \in held \/ (alloc /\ t = alloc_uid)
  BY <1>3
<1>9. \A t \in held' : fence_meta'[t] \in AfuTags
  BY <1>1, <1>3, <1>8 DEF FenceTags
<1>10. \A t, u \in held' : fence_meta'[t] = fence_meta'[u] => t = u
  BY <1>1, <1>3, <1>8 DEF FenceTags
<1>11. fences' \subseteq t_uid /\ wr_fence_cpl_reg' \in t_uid \union {NoTag}
  BY <1>1, <1>2 DEF TypeOK, IInv, UidTypeOK
<1> QED
  BY <1>5, <1>6, <1>7, <1>9, <1>10, <1>11 DEF FenceTags

\* The fences at the host.
LEMMA FencesFlow ==
    ASSUME NEW req, NEW at, NEW tr, NEW rr, NEW fc, NEW ic, NEW wc,
           Edge(req, at, tr, rr, fc, ic, wc)
    PROVE  /\ \A a \in Rsps : One(AtFences(a))' = One(AtFences(a)) - One(ToFenceReg(fc, a))
                                                    + One(ToFim(tr, {"fence"}, a))
           /\ Cardinality(fences') = Cardinality(fences) - One(fc # NoTag)
                                       + One(tr /\ TxLast /\ tx_wr_tlps.kind = "fence")
           /\ Cardinality(fences) \in Nat
<1>1. TypeOK /\ FenceTags /\ tr \in BOOLEAN
  BY DEF Edge, WInv
<1> DEFINE b == tx_wr_tlps
           sent == tr /\ TxLast /\ b.kind = "fence"
           done == fc # NoTag
           rest == fences \ (IF done THEN {fc} ELSE {})
<1>2. /\ sent => b.tag \in held /\ b.tag \notin fences /\ TxTag = fence_meta[b.tag]
      /\ done => fc \in fences /\ fc \in held
      /\ fences' = rest \union (IF sent THEN {b.tag} ELSE {})
  BY FencePlaces
<1>3. /\ fences \subseteq held
      /\ \A t, u \in held : fence_meta[t] = fence_meta[u] => t = u
  BY <1>1 DEF FenceTags
<1>4. \A t \in held : fence_meta'[t] = fence_meta[t]
  BY TagEdge
<1>5. ASSUME NEW a \in Rsps
      PROVE  ToFim(tr, {"fence"}, a) <=> sent /\ a = AnswerTo("fence", TxTag)
  BY DEF ToFim, AtTx, TxLast
<1>6. sent \in BOOLEAN /\ done \in BOOLEAN
  BY <1>1 DEF TxLast
<1> HIDE DEF sent
<1>7. /\ Metas(fences)' = (Metas(fences) \ (IF done THEN {fence_meta[fc]} ELSE {}))
                           \union (IF sent THEN {TxTag} ELSE {})
      /\ done => fence_meta[fc] \in Metas(fences)
      /\ sent => TxTag \notin Metas(fences)
  <2>1. Metas(fences)' = {fence_meta[t] : t \in fences'}
    <3>1. fences' \subseteq held
      BY <1>2, <1>3
    <3> QED
      BY <1>4, <3>1 DEF Metas
  <2>2. done => fence_meta[fc] \in Metas(fences)
    BY <1>2 DEF Metas
  <2>3. sent => TxTag \notin Metas(fences)
    BY <1>2, <1>3 DEF Metas
  <2>4. {fence_meta[t] : t \in rest} = Metas(fences) \ (IF done THEN {fence_meta[fc]} ELSE {})
    BY <1>2, <1>3 DEF Metas
  <2>5. {fence_meta[t] : t \in fences'} =
          {fence_meta[t] : t \in rest} \union (IF sent THEN {TxTag} ELSE {})
    <3> HIDE DEF rest
    <3> QED
      BY <1>2
  <2> QED
    BY <2>1, <2>2, <2>3, <2>4, <2>5
<1>8. ASSUME NEW a \in Rsps
      PROVE  One(AtFences(a))' = One(AtFences(a)) - One(ToFenceReg(fc, a))
                                   + One(ToFim(tr, {"fence"}, a))
  <2>1. /\ AtFences(a)' <=> \/ AtFences(a) /\ ~(done /\ a = AnswerTo("fence", fence_meta[fc]))
                            \/ sent /\ a = AnswerTo("fence", TxTag)
        /\ done /\ a = AnswerTo("fence", fence_meta[fc]) => AtFences(a)
        /\ sent /\ a = AnswerTo("fence", TxTag) => ~AtFences(a)
    <3>1. CASE \A s : a # AnswerTo("fence", s)
      BY <3>1 DEF AtFences, AnswersTo
    <3>2. ASSUME NEW u, \A s : a = AnswerTo("fence", s) <=> s = u,
                 \A tags : a \in AnswersTo("fence", tags) <=> u \in tags
          PROVE  <2>1!:
      <4>1. AtFences(a)' <=> u \in Metas(fences)'
        BY <3>2 DEF AtFences
      <4>2. AtFences(a) <=> u \in Metas(fences)
        BY <3>2 DEF AtFences
      <4> QED
        BY <1>7, <3>2, <4>1, <4>2
    <3> QED
      BY <3>1, <3>2, TagOf
  <2>2. ToFenceReg(fc, a) <=> done /\ a = AnswerTo("fence", fence_meta[fc])
    BY DEF ToFenceReg
  <2>3. /\ AtFences(a) \in BOOLEAN /\ AtFences(a)' \in BOOLEAN
        /\ ToFenceReg(fc, a) \in BOOLEAN /\ ToFim(tr, {"fence"}, a) \in BOOLEAN
    BY <1>1 DEF AtFences, ToFenceReg, ToFim, AtTx
  <2> HIDE DEF done
  <2> QED
    BY <1>5, <2>1, <2>2, <2>3, OneFlow DEF One
<1>9. IsFiniteSet(fences) /\ Cardinality(fences) \in Nat
  <2>1. IsFiniteSet(t_uid)
    BY UidAssumption, FS_Interval DEF t_uid
  <2> QED
    BY <1>1, <2>1, FS_Subset, FS_CardinalityType DEF TypeOK
<1>10. /\ IsFiniteSet(rest) /\ Cardinality(rest) \in Nat
       /\ Cardinality(rest) = Cardinality(fences) - One(done)
  <2>1. CASE done
    <3>1. rest = fences \ {fc} /\ fc \in fences
      BY <1>2, <2>1
    <3> QED
      BY <1>9, <2>1, <3>1, FS_RemoveElement, FS_CardinalityType DEF One
  <2>2. CASE ~done
    <3>1. rest = fences
      BY <2>2
    <3> QED
      BY <1>9, <2>2, <3>1 DEF One
  <2> QED
    BY <2>1, <2>2
<1>11. Cardinality(fences') = Cardinality(rest) + One(sent)
  <2>1. CASE sent
    <3>1. fences' = rest \union {b.tag} /\ b.tag \notin rest
      BY <1>2, <2>1
    <3> HIDE DEF rest
    <3> QED
      BY <1>10, <2>1, <3>1, FS_AddElement DEF One
  <2>2. CASE ~sent
    <3>1. fences' = rest
      BY <1>2, <2>2
    <3> QED
      BY <1>10, <2>2, <3>1 DEF One
  <2> QED
    BY <2>1, <2>2
<1> QED
  BY <1>8, <1>9, <1>10, <1>11 DEF sent

-----------------------------------------------------------------------------
(* The four sources of responses.                                          *)

\* Which response goes to the AFU's FIFO: one under way at its source, and
\* therefore one that is waited for and is not in that FIFO.
LEMMA SourceResponse ==
    ASSUME WInv
    PROVE  /\ Source \in {"fence", "irq", "fake", "std", "none"}
           /\ Source = "fence" <=> wr_fence_cpl_reg # NoTag
           /\ Source = "irq" <=> wr_fence_cpl_reg = NoTag /\ irq_cpl_reg # NoTag
           /\ Source = "fence" => WrRsp = AnswerTo("fence", fence_meta[wr_fence_cpl_reg])
           /\ Source = "irq" => WrRsp = AnswerTo("irq", irq_cpl_reg)
           /\ Source = "fake" => /\ Fifo2NotEmpty(fake_fence_rsp_fifo)
                                 /\ WrRsp = AnswerTo("fence", Fifo2First(fake_fence_rsp_fifo))
           /\ Source = "std" => /\ Fifo2NotEmpty(std_wr_rsp_fifo)
                                /\ WrRsp = AnswerTo("write", Fifo2First(std_wr_rsp_fifo))
           /\ Source # "none" => /\ WrRsp \in Rsps /\ WrRsp # NoRsp
                                 /\ WrRsp \in waiting /\ ~AtAfu(WrRsp)
<1>1. TypeOK /\ Queues /\ FenceTags /\ InOnePlace
  BY DEF WInv
<1>2. /\ Source \in {"fence", "irq", "fake", "std", "none"}
      /\ Source = "fence" <=> wr_fence_cpl_reg # NoTag
      /\ Source = "irq" <=> wr_fence_cpl_reg = NoTag /\ irq_cpl_reg # NoTag
      /\ Source = "fake" => Fifo2NotEmpty(fake_fence_rsp_fifo)
      /\ Source = "std" => Fifo2NotEmpty(std_wr_rsp_fifo)
  BY DEF Source, fake_fence_rsp_valid, std_wr_rsp_valid
<1>3. CASE Source = "fence"
  <2>1. WrRsp = AnswerTo("fence", fence_meta[wr_fence_cpl_reg])
    BY <1>3, AnswerKinds DEF WrRsp
  <2>2. fence_meta[wr_fence_cpl_reg] \in AfuTags
    BY <1>1, <1>2, <1>3 DEF FenceTags, FenceDone
  <2>3. WrRsp \in Rsps /\ AtFenceReg(WrRsp)
    BY <1>2, <1>3, <2>1, <2>2, AnswerTags DEF AtFenceReg
  <2> QED
    BY <1>1, <1>2, <1>3, <2>1, <2>3, Exclusive, NothingAssumption
<1>4. CASE Source = "irq"
  <2>1. WrRsp = AnswerTo("irq", irq_cpl_reg)
    BY <1>4, AnswerKinds DEF WrRsp
  <2>2. irq_cpl_reg \in AfuTags
    BY <1>1, <1>2, <1>4 DEF TypeOK
  <2>3. WrRsp \in Rsps /\ AtIrqReg(WrRsp)
    BY <1>2, <1>4, <2>1, <2>2, AnswerTags DEF AtIrqReg
  <2> QED
    BY <1>1, <1>2, <1>4, <2>1, <2>3, Exclusive, NothingAssumption
<1>5. CASE Source = "fake"
  <2>1. WrRsp = AnswerTo("fence", Fifo2First(fake_fence_rsp_fifo))
    BY <1>5, AnswerKinds DEF WrRsp
  <2>2. Fifo2First(fake_fence_rsp_fifo) \in Fifo2Members(fake_fence_rsp_fifo)
    BY <1>2, <1>5 DEF Fifo2Members, Fifo2First, Fifo2NotEmpty
  <2>3. WrRsp \in Rsps /\ AtFake(WrRsp)
    BY <1>1, <2>1, <2>2, AnswerTags DEF AtFake, Queues, AnswersTo
  <2> QED
    BY <1>1, <1>2, <1>5, <2>1, <2>3, Exclusive, NothingAssumption
<1>6. CASE Source = "std"
  <2>1. WrRsp = AnswerTo("write", Fifo2First(std_wr_rsp_fifo))
    BY <1>6, AnswerKinds DEF WrRsp
  <2>2. Fifo2First(std_wr_rsp_fifo) \in Fifo2Members(std_wr_rsp_fifo)
    BY <1>2, <1>6 DEF Fifo2Members, Fifo2First, Fifo2NotEmpty
  <2>3. WrRsp \in Rsps /\ AtStd(WrRsp)
    BY <1>1, <2>1, <2>2, AnswerTags DEF AtStd, Queues, AnswersTo
  <2> QED
    BY <1>1, <1>2, <1>6, <2>1, <2>3, Exclusive, NothingAssumption
<1>7. CASE Source = "none"
  BY <1>2, <1>7
<1> QED
  BY <1>2, <1>3, <1>4, <1>5, <1>6, <1>7

\* The register of a completed fence.
LEMMA FenceRegFlow ==
    ASSUME NEW req, NEW at, NEW tr, NEW rr, NEW fc, NEW ic, NEW wc,
           Edge(req, at, tr, rr, fc, ic, wc)
    PROVE  /\ \A a \in Rsps : One(AtFenceReg(a))' = One(AtFenceReg(a))
                                + One(ToFenceReg(fc, a)) - One(FromSource("fence", a))
           /\ One(wr_fence_cpl_reg # NoTag)' = One(wr_fence_cpl_reg # NoTag)
                + One(fc # NoTag) - One(wr_rsp_notFull /\ Source = "fence")
<1>1. WInv /\ TypeOK /\ FenceTags
  BY DEF Edge, WInv
<1>2. /\ fc # NoTag => fc \in held /\ wr_fence_cpl_reg = NoTag
      /\ wr_fence_cpl_reg' = IF fc # NoTag THEN fc
                             ELSE IF wr_rsp_notFull THEN NoTag ELSE wr_fence_cpl_reg
  BY FencePlaces
<1>3. \A t \in held : fence_meta'[t] = fence_meta[t]
  BY TagEdge
<1>4. wr_fence_cpl_reg # NoTag => wr_fence_cpl_reg \in held
  BY <1>1 DEF FenceTags, FenceDone
<1>5. /\ Source = "fence" <=> wr_fence_cpl_reg # NoTag
      /\ Source = "fence" => WrRsp = AnswerTo("fence", fence_meta[wr_fence_cpl_reg])
  BY <1>1, SourceResponse
<1>6. wr_rsp_notFull \in BOOLEAN
  BY <1>1 DEF TypeOK, wr_rsp_notFull, Fifo2NotFull
<1>7. ASSUME NEW a \in Rsps
      PROVE  One(AtFenceReg(a))' = One(AtFenceReg(a))
                                + One(ToFenceReg(fc, a)) - One(FromSource("fence", a))
  <2>1. CASE fc # NoTag
    <3>1. AtFenceReg(a)' <=> ToFenceReg(fc, a)
      BY <1>2, <1>3, <2>1 DEF AtFenceReg, ToFenceReg
    <3>2. ~AtFenceReg(a) /\ ~FromSource("fence", a)
      BY <1>2, <1>5, <2>1 DEF AtFenceReg, FromSource
    <3> QED
      BY <3>1, <3>2 DEF One
  <2>2. CASE fc = NoTag /\ wr_rsp_notFull
    <3>1. ~AtFenceReg(a)' /\ ~ToFenceReg(fc, a)
      BY <1>2, <2>2 DEF AtFenceReg, ToFenceReg
    <3>2. AtFenceReg(a) <=> FromSource("fence", a)
      BY <1>5, <2>2 DEF AtFenceReg, FromSource
    <3> QED
      BY <3>1, <3>2 DEF One
  <2>3. CASE fc = NoTag /\ ~wr_rsp_notFull
    <3>1. AtFenceReg(a)' <=> AtFenceReg(a)
      BY <1>2, <1>3, <1>4, <2>3 DEF AtFenceReg
    <3>2. ~FromSource("fence", a) /\ ~ToFenceReg(fc, a)
      BY <2>3 DEF ToFenceReg, FromSource
    <3> QED
      BY <3>1, <3>2 DEF One
  <2> QED
    BY <1>6, <2>1, <2>2, <2>3
<1>8. One(wr_fence_cpl_reg # NoTag)' = One(wr_fence_cpl_reg # NoTag)
        + One(fc # NoTag) - One(wr_rsp_notFull /\ Source = "fence")
  BY <1>2, <1>5, <1>6 DEF One
<1> QED
  BY <1>7, <1>8

\* The register of a completed interrupt.
LEMMA IrqRegFlow ==
    ASSUME NEW req, NEW at, NEW tr, NEW rr, NEW fc, NEW ic, NEW wc,
           Edge(req, at, tr, rr, fc, ic, wc)
    PROVE  /\ irq_cpl_reg' \in AfuTags \union {NoTag}
           /\ \A a \in Rsps : One(AtIrqReg(a))' = One(AtIrqReg(a))
                                + One(ToIrqReg(ic, a)) - One(FromSource("irq", a))
           /\ One(irq_cpl_reg # NoTag)' = One(irq_cpl_reg # NoTag)
                + One(ic # NoTag) - One(wr_rsp_notFull /\ Source = "irq")
<1>1. WInv /\ TypeOK
  BY DEF Edge, WInv
<1>2. ic # NoTag => irq_cpl_reg = NoTag /\ ic \in AfuTags
  BY IrqsFlow
<1>3. irq_cpl_reg' = IF ic # NoTag THEN ic
                     ELSE IF wr_rsp_notFull /\ wr_fence_cpl_reg = NoTag THEN NoTag
                     ELSE irq_cpl_reg
  <2>1. irq_cpl_reg' = IrqCplRegNext(ic)
    BY DEF Edge, Engine
  <2> QED
    BY <1>2, <2>1 DEF IrqCplRegNext, irq_cpl_tready, IrqForwarded
<1>4. /\ Source = "irq" <=> wr_fence_cpl_reg = NoTag /\ irq_cpl_reg # NoTag
      /\ Source = "irq" => WrRsp = AnswerTo("irq", irq_cpl_reg)
  BY <1>1, SourceResponse
<1>5. wr_rsp_notFull \in BOOLEAN
  BY <1>1 DEF TypeOK, wr_rsp_notFull, Fifo2NotFull
<1>6. irq_cpl_reg' \in AfuTags \union {NoTag}
  BY <1>1, <1>2, <1>3 DEF TypeOK
<1>7. ASSUME NEW a \in Rsps
      PROVE  One(AtIrqReg(a))' = One(AtIrqReg(a))
                                + One(ToIrqReg(ic, a)) - One(FromSource("irq", a))
  <2>1. CASE ic # NoTag
    <3>1. AtIrqReg(a)' <=> ToIrqReg(ic, a)
      BY <1>3, <2>1 DEF AtIrqReg, ToIrqReg
    <3>2. ~AtIrqReg(a) /\ ~FromSource("irq", a)
      BY <1>2, <1>4, <2>1 DEF AtIrqReg, FromSource
    <3> QED
      BY <3>1, <3>2 DEF One
  <2>2. CASE ic = NoTag /\ wr_rsp_notFull /\ wr_fence_cpl_reg = NoTag
    <3>1. ~AtIrqReg(a)' /\ ~ToIrqReg(ic, a)
      BY <1>3, <2>2 DEF AtIrqReg, ToIrqReg
    <3>2. AtIrqReg(a) <=> FromSource("irq", a)
      BY <1>4, <2>2 DEF AtIrqReg, FromSource
    <3> QED
      BY <3>1, <3>2 DEF One
  <2>3. CASE ic = NoTag /\ ~(wr_rsp_notFull /\ wr_fence_cpl_reg = NoTag)
    <3>1. AtIrqReg(a)' <=> AtIrqReg(a)
      BY <1>3, <2>3 DEF AtIrqReg
    <3>2. ~FromSource("irq", a) /\ ~ToIrqReg(ic, a)
      BY <1>4, <2>3 DEF ToIrqReg, FromSource
    <3> QED
      BY <3>1, <3>2 DEF One
  <2> QED
    BY <1>5, <2>1, <2>2, <2>3
<1>8. One(irq_cpl_reg # NoTag)' = One(irq_cpl_reg # NoTag)
        + One(ic # NoTag) - One(wr_rsp_notFull /\ Source = "irq")
  BY <1>2, <1>3, <1>4, <1>5 DEF One
<1> QED
  BY <1>6, <1>7, <1>8

\* All that an edge does to a FIFO of different values.
LEMMA FifoEdgeFacts ==
    ASSUME NEW Data, NEW f \in Fifo2States(Data), Fifo2InOrder(f), Fifo2Distinct(f),
           NEW enq \in BOOLEAN, NEW d \in Data, NEW deq \in BOOLEAN,
           enq => Fifo2NotFull(f), deq => Fifo2NotEmpty(f),
           enq => d \notin Fifo2Members(f), NEW g, g = Fifo2Next(f, enq, d, deq)
    PROVE  /\ g \in Fifo2States(Data) /\ Fifo2InOrder(g) /\ Fifo2Distinct(g)
           /\ Fifo2Members(g) = (Fifo2Members(f) \ (IF deq THEN {Fifo2First(f)} ELSE {}))
                                  \union (IF enq THEN {d} ELSE {})
           /\ deq => Fifo2First(f) \in Fifo2Members(f)
           /\ Len(Fifo2Contents(f)) \in Nat
           /\ Len(Fifo2Contents(g)) = Len(Fifo2Contents(f)) - One(deq) + One(enq)
<1>1. g \in Fifo2States(Data) /\ Fifo2InOrder(g)
  BY Fifo2Fields
<1>2. /\ Fifo2Distinct(g)
      /\ Fifo2Members(g) = (Fifo2Members(f) \ (IF deq THEN {Fifo2First(f)} ELSE {}))
                             \union (IF enq THEN {d} ELSE {})
  BY Fifo2Step
<1>3. /\ Len(Fifo2Contents(f)) \in Nat
      /\ Len(Fifo2Contents(g)) = Len(Fifo2Contents(f))
           - (IF deq THEN 1 ELSE 0) + (IF enq THEN 1 ELSE 0)
  BY Fifo2Length
<1>4. deq => Fifo2First(f) \in Fifo2Members(f)
  BY DEF Fifo2Members, Fifo2First, Fifo2NotEmpty
<1> QED
  BY <1>1, <1>2, <1>3, <1>4 DEF One

\* The fences that are not sent.
LEMMA FakeFlow ==
    ASSUME NEW req, NEW at, NEW tr, NEW rr, NEW fc, NEW ic, NEW wc,
           Edge(req, at, tr, rr, fc, ic, wc)
    PROVE  LET f == fake_fence_rsp_fifo
           IN /\ f' \in Fifo2States(AfuTags \union {NoTag})
              /\ Fifo2InOrder(f') /\ Fifo2Distinct(f') /\ Fifo2Members(f') \subseteq AfuTags
              /\ \A a \in Rsps : One(AtFake(a))' = One(AtFake(a))
                                   + One(ToFake(at, tr, a)) - One(FromSource("fake", a))
              /\ Len(Fifo2Contents(f)) \in Nat
              /\ Len(Fifo2Contents(f')) = Len(Fifo2Contents(f))
                   + One(wr_req_deq(at, tr) /\ wr_req.eop /\ wr_req_is_invalid_fence)
                   - One(wr_rsp_notFull /\ Source = "fake")
<1>1. /\ WInv /\ TypeOK /\ Packets /\ Queues /\ InOnePlace
      /\ at \in BOOLEAN /\ tr \in BOOLEAN
  BY DEF Edge, WInv
<1> DEFINE f == fake_fence_rsp_fifo
           deq == wr_req_deq(at, tr)
           enq == FakeFence(deq)
           d == IF enq THEN wr_req.tag ELSE NoTag
           leaves == FakeRspDeq
           Data == AfuTags \union {NoTag}
<1>2. f' = Fifo2Next(f, enq, d, leaves)
  BY DEF Edge, Engine
<1>3. /\ f \in Fifo2States(Data) /\ Fifo2InOrder(f) /\ Fifo2Distinct(f)
      /\ Fifo2Members(f) \subseteq AfuTags
  BY <1>1 DEF TypeOK, Queues
<1>4. /\ enq => /\ deq /\ wr_req # NoReq /\ wr_req.kind = "fence" /\ wr_req.eop
                /\ wr_req.sop /\ wr_req.tag \in AfuTags /\ wr_req_is_invalid_fence
                /\ Fifo2NotFull(f)
      /\ enq <=> deq /\ wr_req.eop /\ wr_req_is_invalid_fence
      /\ deq \in BOOLEAN /\ wr_req_is_invalid_fence \in BOOLEAN
  <2>1. enq <=> deq /\ wr_req_is_invalid_fence
    BY DEF FakeFence, wr_req_is_invalid_fence
  <2>2. wr_req_is_invalid_fence => wr_req # NoReq /\ wr_req.kind = "fence"
    BY DEF wr_req_is_invalid_fence, IsKind, wr_req_notEmpty
  <2>3. deq \in BOOLEAN /\ (deq => Fifo2NotFull(f))
    BY <1>1, Dequeue
  <2>4. wr_req_is_invalid_fence \in BOOLEAN
    BY DEF wr_req_is_invalid_fence, IsKind
  <2> HIDE DEF enq, deq
  <2> QED
    BY <1>1, <2>1, <2>2, <2>3, <2>4, Beats
<1>5. enq \in BOOLEAN /\ leaves \in BOOLEAN /\ d \in Data
  <2>1. enq \in BOOLEAN
    BY <1>4 DEF FakeFence, IsKind
  <2>2. leaves \in BOOLEAN
    BY <1>1 DEF FakeRspDeq, wr_rsp_notFull, Fifo2NotFull, TypeOK
  <2> HIDE DEF enq
  <2> QED
    BY <1>4, <2>1, <2>2
<1>6. /\ leaves <=> wr_rsp_notFull /\ Source = "fake"
      /\ leaves => Fifo2NotEmpty(f) /\ WrRsp = AnswerTo("fence", Fifo2First(f))
  BY <1>1, SourceResponse DEF FakeRspDeq
<1>7. ASSUME NEW a \in Rsps
      PROVE  ToFake(at, tr, a) <=> enq /\ a = AnswerTo("fence", d)
  <2>1. enq => ReqTag = wr_req.tag
    BY <1>4 DEF ReqTag
  <2>2. ToFake(at, tr, a) => enq
    BY <1>4 DEF ToFake, AtReq
  <2>3. enq => d = wr_req.tag
    OBVIOUS
  <2> HIDE DEF enq, d
  <2> QED
    BY <1>4, <2>1, <2>2, <2>3 DEF ToFake, AtReq
<1> HIDE DEF enq, d, deq, leaves
<1>8. enq => d \notin Fifo2Members(f)
  <2> SUFFICES ASSUME enq PROVE d \notin Fifo2Members(f)
    OBVIOUS
  <2>1. AnswerTo("fence", d) \in Rsps
    BY <1>4, AnswerTags DEF d
  <2>2. AtReq(AnswerTo("fence", d))
    BY <1>7, <2>1 DEF ToFake
  <2>3. ~AtFake(AnswerTo("fence", d))
    BY <1>1, <2>1, <2>2, Exclusive
  <2> QED
    BY <2>3 DEF AtFake, AnswersTo
<1>9. /\ f' \in Fifo2States(Data) /\ Fifo2InOrder(f') /\ Fifo2Distinct(f')
      /\ Fifo2Members(f') = (Fifo2Members(f) \ (IF leaves THEN {Fifo2First(f)} ELSE {}))
                              \union (IF enq THEN {d} ELSE {})
      /\ leaves => Fifo2First(f) \in Fifo2Members(f)
      /\ Len(Fifo2Contents(f)) \in Nat
      /\ Len(Fifo2Contents(f')) = Len(Fifo2Contents(f)) - One(leaves) + One(enq)
  BY <1>2, <1>3, <1>4, <1>5, <1>6, <1>8, FifoEdgeFacts
<1>10. Fifo2Members(f') \subseteq AfuTags
  BY <1>3, <1>4, <1>9 DEF d
<1>11. ASSUME NEW a \in Rsps
       PROVE  One(AtFake(a))' = One(AtFake(a))
                                  + One(ToFake(at, tr, a)) - One(FromSource("fake", a))
  <2>1. /\ AtFake(a)' <=> \/ AtFake(a) /\ ~(leaves /\ a = AnswerTo("fence", Fifo2First(f)))
                          \/ enq /\ a = AnswerTo("fence", d)
        /\ leaves /\ a = AnswerTo("fence", Fifo2First(f)) => AtFake(a)
        /\ enq /\ a = AnswerTo("fence", d) => ~AtFake(a)
    <3>1. CASE \A s : a # AnswerTo("fence", s)
      BY <3>1 DEF AtFake, AnswersTo
    <3>2. ASSUME NEW u, \A s : a = AnswerTo("fence", s) <=> s = u,
                 \A tags : a \in AnswersTo("fence", tags) <=> u \in tags
          PROVE  <2>1!:
      BY <1>8, <1>9, <3>2 DEF AtFake
    <3> QED
      BY <3>1, <3>2, TagOf
  <2>2. FromSource("fake", a) <=> leaves /\ a = AnswerTo("fence", Fifo2First(f))
    BY <1>6 DEF FromSource
  <2>3. /\ AtFake(a) \in BOOLEAN /\ AtFake(a)' \in BOOLEAN
        /\ ToFake(at, tr, a) \in BOOLEAN
        /\ FromSource("fake", a) \in BOOLEAN
    BY <1>1, <1>4 DEF AtFake, ToFake, AtReq, FromSource, wr_rsp_notFull, Fifo2NotFull, TypeOK,
                Fifo2States, deq
  <2> QED
    BY <1>7, <2>1, <2>2, <2>3, OneFlow DEF One
<1>12. One(leaves) = One(wr_rsp_notFull /\ Source = "fake")
  BY <1>5, <1>6 DEF One
<1>13. One(enq) = One(deq /\ wr_req.eop /\ wr_req_is_invalid_fence)
  BY <1>4, <1>5 DEF One
<1>14. One(leaves) \in 0..1 /\ One(enq) \in 0..1
  BY OneIsNat
<1>15. Len(Fifo2Contents(f')) = Len(Fifo2Contents(f)) + One(enq) - One(leaves)
  BY <1>9, <1>14
<1> QED
  BY <1>9, <1>10, <1>11, <1>12, <1>13, <1>15 DEF deq

\* The committed writes to report to the AFU.
LEMMA StdFlow ==
    ASSUME NEW req, NEW at, NEW tr, NEW rr, NEW fc, NEW ic, NEW wc,
           Edge(req, at, tr, rr, fc, ic, wc)
    PROVE  LET f == std_wr_rsp_fifo
           IN /\ f' \in Fifo2States(AfuTags \union {NoTag})
              /\ Fifo2InOrder(f') /\ Fifo2Distinct(f') /\ Fifo2Members(f') \subseteq AfuTags
              /\ \A a \in Rsps : One(AtStd(a))' = One(AtStd(a))
                                   + One(ToStd(wc, a)) - One(FromSource("std", a))
              /\ Len(Fifo2Contents(f)) \in Nat
              /\ Len(Fifo2Contents(f')) = Len(Fifo2Contents(f))
                   + One(wc # NoTag) - One(wr_rsp_notFull /\ Source = "std")
<1>1. WInv /\ TypeOK /\ Queues /\ InOnePlace
  BY DEF Edge, WInv
<1> DEFINE f == std_wr_rsp_fifo
           enq == wc # NoTag
           leaves == StdRspDeq
           Data == AfuTags \union {NoTag}
<1>2. f' = Fifo2Next(f, enq, wc, leaves)
  BY DEF Edge, Engine
<1>3. /\ f \in Fifo2States(Data) /\ Fifo2InOrder(f) /\ Fifo2Distinct(f)
      /\ Fifo2Members(f) \subseteq AfuTags
  BY <1>1 DEF TypeOK, Queues
<1>4. enq => wc \in AfuTags /\ AtCommits(AnswerTo("write", wc))
  BY CommitsFlow
<1>5. enq => Fifo2NotFull(f)
  BY DEF Edge, WrCpls, wr_cpl_tready
<1>6. enq \in BOOLEAN /\ leaves \in BOOLEAN /\ wc \in Data
  <2>1. leaves \in BOOLEAN
    BY <1>1 DEF StdRspDeq, wr_rsp_notFull, Fifo2NotFull, TypeOK
  <2> QED
    BY <1>4, <2>1
<1>7. /\ leaves <=> wr_rsp_notFull /\ Source = "std"
      /\ leaves => Fifo2NotEmpty(f) /\ WrRsp = AnswerTo("write", Fifo2First(f))
  BY <1>1, SourceResponse DEF StdRspDeq
<1>8. enq => wc \notin Fifo2Members(f)
  <2> SUFFICES ASSUME enq PROVE wc \notin Fifo2Members(f)
    OBVIOUS
  <2>1. AnswerTo("write", wc) \in Rsps
    BY <1>4, AnswerTags
  <2>2. ~AtStd(AnswerTo("write", wc))
    BY <1>1, <1>4, <2>1, Exclusive
  <2> QED
    BY <2>2 DEF AtStd, AnswersTo
<1>14. leaves => Fifo2NotEmpty(f)
  BY <1>7
<1> HIDE DEF enq, leaves
<1>9. /\ f' \in Fifo2States(Data) /\ Fifo2InOrder(f') /\ Fifo2Distinct(f')
      /\ Fifo2Members(f') = (Fifo2Members(f) \ (IF leaves THEN {Fifo2First(f)} ELSE {}))
                              \union (IF enq THEN {wc} ELSE {})
      /\ leaves => Fifo2First(f) \in Fifo2Members(f)
      /\ Len(Fifo2Contents(f)) \in Nat
      /\ Len(Fifo2Contents(f')) = Len(Fifo2Contents(f)) - One(leaves) + One(enq)
  BY <1>2, <1>3, <1>5, <1>6, <1>8, <1>14, FifoEdgeFacts
<1>10. Fifo2Members(f') \subseteq AfuTags
  BY <1>3, <1>4, <1>9
<1>11. ASSUME NEW a \in Rsps
       PROVE  One(AtStd(a))' = One(AtStd(a)) + One(ToStd(wc, a)) - One(FromSource("std", a))
  <2>1. /\ AtStd(a)' <=> \/ AtStd(a) /\ ~(leaves /\ a = AnswerTo("write", Fifo2First(f)))
                         \/ enq /\ a = AnswerTo("write", wc)
        /\ leaves /\ a = AnswerTo("write", Fifo2First(f)) => AtStd(a)
        /\ enq /\ a = AnswerTo("write", wc) => ~AtStd(a)
    <3>1. CASE \A s : a # AnswerTo("write", s)
      BY <3>1 DEF AtStd, AnswersTo
    <3>2. ASSUME NEW u, \A s : a = AnswerTo("write", s) <=> s = u,
                 \A tags : a \in AnswersTo("write", tags) <=> u \in tags
          PROVE  <2>1!:
      BY <1>8, <1>9, <3>2 DEF AtStd
    <3> QED
      BY <3>1, <3>2, TagOf
  <2>2. /\ FromSource("std", a) <=> leaves /\ a = AnswerTo("write", Fifo2First(f))
        /\ ToStd(wc, a) <=> enq /\ a = AnswerTo("write", wc)
    BY <1>7 DEF FromSource, ToStd, enq
  <2>3. /\ AtStd(a) \in BOOLEAN /\ AtStd(a)' \in BOOLEAN
        /\ ToStd(wc, a) \in BOOLEAN /\ FromSource("std", a) \in BOOLEAN
    BY <1>1 DEF AtStd, ToStd, FromSource, wr_rsp_notFull, Fifo2NotFull, TypeOK, Fifo2States
  <2> QED
    BY <2>1, <2>2, <2>3, OneFlow DEF One
<1>12. One(leaves) = One(wr_rsp_notFull /\ Source = "std")
  BY <1>6, <1>7 DEF One
<1>13. One(leaves) \in 0..1 /\ One(enq) \in 0..1
  BY OneIsNat
<1>15. Len(Fifo2Contents(f')) = Len(Fifo2Contents(f)) + One(enq) - One(leaves)
  BY <1>9, <1>13
<1> QED
  BY <1>9, <1>10, <1>11, <1>12, <1>15 DEF enq

\* The responses to the AFU.
LEMMA AfuFlow ==
    ASSUME NEW req, NEW at, NEW tr, NEW rr, NEW fc, NEW ic, NEW wc,
           Edge(req, at, tr, rr, fc, ic, wc)
    PROVE  LET f == afu_rsp_fifo
           IN /\ f' \in Fifo2States(Rsps \union {NoRsp})
              /\ Fifo2InOrder(f') /\ Fifo2Distinct(f') /\ Fifo2Members(f') \subseteq Rsps
              /\ \A a \in Rsps : One(AtAfu(a))' = One(AtAfu(a)) - One(Taken(rr, a))
                   + One(FromSource("fence", a)) + One(FromSource("irq", a))
                   + One(FromSource("fake", a)) + One(FromSource("std", a))
              /\ Len(Fifo2Contents(f)) \in Nat
              /\ Len(Fifo2Contents(f')) = Len(Fifo2Contents(f)) - One(rr)
                   + One(wr_rsp_notFull /\ Source = "fence")
                   + One(wr_rsp_notFull /\ Source = "irq")
                   + One(wr_rsp_notFull /\ Source = "fake")
                   + One(wr_rsp_notFull /\ Source = "std")
<1>1. /\ WInv /\ TypeOK /\ Queues /\ InOnePlace
      /\ rr \in BOOLEAN /\ (rr => afu_wr_rsp # NoRsp)
  BY DEF Edge, WInv
<1> DEFINE f == afu_rsp_fifo
           enq == wr_rsp_notFull /\ Source # "none"
           d == IF enq THEN WrRsp ELSE NoRsp
           Data == Rsps \union {NoRsp}
<1>2. f' = Fifo2Next(f, enq, d, rr)
  <2>1. (afu_wr_rsp # NoRsp /\ rr) = rr
    BY <1>1
  <2> QED
    BY <2>1 DEF Edge, Engine
<1>3. /\ f \in Fifo2States(Data) /\ Fifo2InOrder(f) /\ Fifo2Distinct(f)
      /\ Fifo2Members(f) \subseteq Rsps
  BY <1>1 DEF TypeOK, Queues
<1>4. /\ Source \in {"fence", "irq", "fake", "std", "none"}
      /\ Source # "none" => WrRsp \in Rsps /\ ~AtAfu(WrRsp)
  BY <1>1, SourceResponse
<1>5. wr_rsp_notFull \in BOOLEAN
  BY <1>1 DEF TypeOK, wr_rsp_notFull, Fifo2NotFull
<1>6. /\ enq \in BOOLEAN /\ d \in Data /\ (enq => Fifo2NotFull(f))
      /\ enq => d \in Rsps /\ d \notin Fifo2Members(f)
  BY <1>4, <1>5 DEF wr_rsp_notFull, AtAfu
<1>7. rr => Fifo2NotEmpty(f) /\ afu_wr_rsp = Fifo2First(f)
  BY <1>1, PortResponse
<1>8. ASSUME NEW a \in Rsps
      PROVE  /\ One(enq /\ a = d) = One(FromSource("fence", a)) + One(FromSource("irq", a))
                                    + One(FromSource("fake", a)) + One(FromSource("std", a))
             /\ Taken(rr, a) <=> rr /\ a = Fifo2First(f)
  BY <1>4, <1>5, <1>7 DEF FromSource, One, Taken
<1>9. One(enq) = One(wr_rsp_notFull /\ Source = "fence")
                   + One(wr_rsp_notFull /\ Source = "irq")
                   + One(wr_rsp_notFull /\ Source = "fake")
                   + One(wr_rsp_notFull /\ Source = "std")
  BY <1>4, <1>5 DEF One
<1> HIDE DEF enq, d
<1>10. /\ f' \in Fifo2States(Data) /\ Fifo2InOrder(f') /\ Fifo2Distinct(f')
       /\ Fifo2Members(f') = (Fifo2Members(f) \ (IF rr THEN {Fifo2First(f)} ELSE {}))
                               \union (IF enq THEN {d} ELSE {})
       /\ rr => Fifo2First(f) \in Fifo2Members(f)
       /\ Len(Fifo2Contents(f)) \in Nat
       /\ Len(Fifo2Contents(f')) = Len(Fifo2Contents(f)) - One(rr) + One(enq)
  BY <1>1, <1>2, <1>3, <1>6, <1>7, FifoEdgeFacts
<1>11. Fifo2Members(f') \subseteq Rsps
  BY <1>3, <1>6, <1>10
<1>12. ASSUME NEW a \in Rsps
       PROVE  One(AtAfu(a))' = One(AtAfu(a)) - One(Taken(rr, a)) + One(enq /\ a = d)
  <2>1. /\ AtAfu(a)' <=> (AtAfu(a) /\ ~Taken(rr, a)) \/ (enq /\ a = d)
        /\ Taken(rr, a) => AtAfu(a)
        /\ (enq /\ a = d) => ~AtAfu(a)
    BY <1>6, <1>8, <1>10 DEF AtAfu
  <2>2. /\ AtAfu(a) \in BOOLEAN /\ AtAfu(a)' \in BOOLEAN
        /\ Taken(rr, a) \in BOOLEAN /\ (enq /\ a = d) \in BOOLEAN
    BY <1>1, <1>6 DEF AtAfu, Taken
  <2> QED
    BY <2>1, <2>2 DEF One
<1>13. ASSUME NEW a \in Rsps
       PROVE  One(AtAfu(a))' = One(AtAfu(a)) - One(Taken(rr, a))
                   + One(FromSource("fence", a)) + One(FromSource("irq", a))
                   + One(FromSource("fake", a)) + One(FromSource("std", a))
  <2>1. /\ One(AtAfu(a)) \in 0..1 /\ One(Taken(rr, a)) \in 0..1
        /\ One(FromSource("fence", a)) \in 0..1 /\ One(FromSource("irq", a)) \in 0..1
        /\ One(FromSource("fake", a)) \in 0..1 /\ One(FromSource("std", a)) \in 0..1
    BY OneIsNat
  <2> QED
    BY <1>8, <1>12, <2>1
<1>14. Len(Fifo2Contents(f')) = Len(Fifo2Contents(f)) - One(rr)
                   + One(wr_rsp_notFull /\ Source = "fence")
                   + One(wr_rsp_notFull /\ Source = "irq")
                   + One(wr_rsp_notFull /\ Source = "fake")
                   + One(wr_rsp_notFull /\ Source = "std")
  <2>1. /\ One(rr) \in 0..1
        /\ One(wr_rsp_notFull /\ Source = "fence") \in 0..1
        /\ One(wr_rsp_notFull /\ Source = "irq") \in 0..1
        /\ One(wr_rsp_notFull /\ Source = "fake") \in 0..1
        /\ One(wr_rsp_notFull /\ Source = "std") \in 0..1
    BY OneIsNat
  <2> QED
    BY <1>9, <1>10, <2>1
<1> QED
  BY <1>10, <1>11, <1>13, <1>14

-----------------------------------------------------------------------------
(* The invariant is kept by an edge in operation.                          *)

\* Every answer that is waited for stays in one place: at each place it comes
\* from the one before, and it enters and leaves the whole with the AFU.
LEMMA InOnePlaceEdge ==
    ASSUME NEW req, NEW at, NEW tr, NEW rr, NEW fc, NEW ic, NEW wc,
           Edge(req, at, tr, rr, fc, ic, wc)
    PROVE  InOnePlace'
<1>1. InOnePlace
  BY DEF Edge, WInv
<1>2. ASSUME NEW a \in Rsps PROVE Places(a)' = One(a \in waiting)'
  <2>1. /\ One(AtReq(a)) \in 0..1 /\ One(AtTx(a)) \in 0..1 /\ One(AtCommits(a)) \in 0..1
        /\ One(AtFences(a)) \in 0..1 /\ One(AtIrqs(a)) \in 0..1
        /\ One(AtFenceReg(a)) \in 0..1 /\ One(AtIrqReg(a)) \in 0..1
        /\ One(AtFake(a)) \in 0..1 /\ One(AtStd(a)) \in 0..1 /\ One(AtAfu(a)) \in 0..1
        /\ One(a \in waiting) \in 0..1
    BY OneIsNat
  <2>2. /\ One(New(req, a)) \in 0..1 /\ One(Taken(rr, a)) \in 0..1
        /\ One(ToTx(at, tr, a)) \in 0..1 /\ One(ToFake(at, tr, a)) \in 0..1
        /\ One(ToFim(tr, {"write", "atomic"}, a)) \in 0..1
        /\ One(ToFim(tr, {"fence"}, a)) \in 0..1 /\ One(ToFim(tr, {"irq"}, a)) \in 0..1
        /\ One(ToFenceReg(fc, a)) \in 0..1 /\ One(ToIrqReg(ic, a)) \in 0..1
        /\ One(ToStd(wc, a)) \in 0..1
        /\ One(FromSource("fence", a)) \in 0..1 /\ One(FromSource("irq", a)) \in 0..1
        /\ One(FromSource("fake", a)) \in 0..1 /\ One(FromSource("std", a)) \in 0..1
    BY OneIsNat
  <2>3. Places(a) = One(a \in waiting)
    BY <1>1 DEF InOnePlace
  <2>4. One(a \in waiting)' = One(a \in waiting) - One(Taken(rr, a)) + One(New(req, a))
    BY WaitingEdge
  <2>5. One(AtReq(a))' = One(AtReq(a)) - One(ToTx(at, tr, a))
                           - One(ToFake(at, tr, a)) + One(New(req, a))
    BY ReqFlow
  <2>6. One(AtTx(a))' = One(AtTx(a)) + One(ToTx(at, tr, a))
                          - One(ToFim(tr, {"write", "atomic"}, a))
                          - One(ToFim(tr, {"fence"}, a)) - One(ToFim(tr, {"irq"}, a))
    BY TxFlow
  <2>7. One(AtCommits(a))' = One(AtCommits(a)) - One(ToStd(wc, a))
                               + One(ToFim(tr, {"write", "atomic"}, a))
    BY CommitsFlow
  <2>8. One(AtFences(a))' = One(AtFences(a)) - One(ToFenceReg(fc, a))
                              + One(ToFim(tr, {"fence"}, a))
    BY FencesFlow
  <2>9. One(AtIrqs(a))' = One(AtIrqs(a)) - One(ToIrqReg(ic, a)) + One(ToFim(tr, {"irq"}, a))
    BY IrqsFlow
  <2>10. One(AtFenceReg(a))' = One(AtFenceReg(a))
                                 + One(ToFenceReg(fc, a)) - One(FromSource("fence", a))
    BY FenceRegFlow
  <2>11. One(AtIrqReg(a))' = One(AtIrqReg(a))
                               + One(ToIrqReg(ic, a)) - One(FromSource("irq", a))
    BY IrqRegFlow
  <2>12. One(AtFake(a))' = One(AtFake(a)) + One(ToFake(at, tr, a)) - One(FromSource("fake", a))
    BY FakeFlow
  <2>13. One(AtStd(a))' = One(AtStd(a)) + One(ToStd(wc, a)) - One(FromSource("std", a))
    BY StdFlow
  <2>14. One(AtAfu(a))' = One(AtAfu(a)) - One(Taken(rr, a))
                   + One(FromSource("fence", a)) + One(FromSource("irq", a))
                   + One(FromSource("fake", a)) + One(FromSource("std", a))
    BY AfuFlow
  <2> QED
    BY <2>1, <2>2, <2>3, <2>4, <2>5, <2>6, <2>7, <2>8, <2>9, <2>10, <2>11, <2>12, <2>13, <2>14
       DEF Places
<1> QED
  BY <1>2 DEF InOnePlace

\* How OneAnswerUnderWay counts: in the engine's request registers, in the FIM,
\* at the four sources of responses and at the port.
ReqLast == wr_req # NoReq /\ wr_req.eop
FenceRegFull == wr_fence_cpl_reg # NoTag
IrqRegFull == irq_cpl_reg # NoTag
Count ==
    One(ReqLast) + One(TxLast) + Len(commits) + Cardinality(fences) + Cardinality(irqs)
      + One(FenceRegFull) + One(IrqRegFull) + Len(Fifo2Contents(fake_fence_rsp_fifo))
      + Len(Fifo2Contents(std_wr_rsp_fifo)) + Len(Fifo2Contents(afu_rsp_fifo))

\* OneAnswerUnderWay with the same number in these words.
LEMMA Counting ==
    TypeOK /\ Packets => (OneAnswerUnderWay <=> Cardinality(waiting) = Count)
<1> SUFFICES ASSUME TypeOK, Packets
             PROVE  OneAnswerUnderWay <=> Cardinality(waiting) = Count
  OBVIOUS
<1>1. wr_req # NoReq => wr_req.kind \in Kinds
  BY Beats
<1>2. tx_wr_tlps # NoTlp => /\ tx_wr_tlps.kind \in Kinds /\ tx_wr_tlps.poison \in BOOLEAN
                            /\ tx_wr_tlps.eop \in BOOLEAN
  BY Beats
<1>3. (wr_req_notEmpty /\ wr_req.eop /\ wr_req.kind \in Kinds) <=> (wr_req # NoReq /\ wr_req.eop)
  BY <1>1 DEF wr_req_notEmpty
<1>4. (tx_wr_tlps # NoTlp /\ ~tx_wr_tlps.poison /\ tx_wr_tlps.eop /\ tx_wr_tlps.kind \in Kinds)
        <=> TxLast
  BY <1>2 DEF TxLast
<1> QED
  BY <1>3, <1>4 DEF OneAnswerUnderWay, Count, ReqLast, FenceRegFull, IrqRegFull, One

\* As many answers are under way as are waited for.
LEMMA CountEdge ==
    ASSUME NEW req, NEW at, NEW tr, NEW rr, NEW fc, NEW ic, NEW wc,
           Edge(req, at, tr, rr, fc, ic, wc)
    PROVE  Cardinality(waiting)' = Count'
<1>1. /\ TypeOK /\ Packets /\ OneAnswerUnderWay /\ at \in BOOLEAN /\ tr \in BOOLEAN
      /\ tr => tx_wr_tlps # NoTlp
  BY DEF Edge, WInv
<1> DEFINE deq == wr_req_deq(at, tr)
           inv == wr_req_is_invalid_fence
           kind == tx_wr_tlps.kind
           new == One(req # NoReq /\ req.eop)
           taken == One(rr)
           moved == One(deq /\ wr_req.eop)
           toTx == One(deq /\ wr_req.eop /\ ~inv)
           toFake == One(deq /\ wr_req.eop /\ inv)
           sent == One(tr /\ TxLast)
           write == One(tr /\ TxLast /\ kind \in {"write", "atomic"})
           fence == One(tr /\ TxLast /\ kind = "fence")
           irq == One(tr /\ TxLast /\ kind = "irq")
           writeDone == One(wc # NoTag)
           fenceDone == One(fc # NoTag)
           irqDone == One(ic # NoTag)
           fromFence == One(wr_rsp_notFull /\ Source = "fence")
           fromIrq == One(wr_rsp_notFull /\ Source = "irq")
           fromFake == One(wr_rsp_notFull /\ Source = "fake")
           fromStd == One(wr_rsp_notFull /\ Source = "std")
<1>2. Cardinality(waiting) =
        One(ReqLast) + One(TxLast) + Len(commits) + Cardinality(fences) + Cardinality(irqs)
          + One(FenceRegFull) + One(IrqRegFull) + Len(Fifo2Contents(fake_fence_rsp_fifo))
          + Len(Fifo2Contents(std_wr_rsp_fifo)) + Len(Fifo2Contents(afu_rsp_fifo))
  BY <1>1, Counting DEF Count
<1>3. moved = toFake + toTx
  <2>1. inv \in BOOLEAN
    BY DEF wr_req_is_invalid_fence, IsKind
  <2> HIDE DEF inv, deq
  <2> QED
    BY <2>1 DEF One
<1>4. sent = write + fence + irq
  <2>1. tr => kind \in Kinds
    BY <1>1, Beats
  <2> QED
    BY <1>1, <2>1 DEF One, Kinds, TxLast
<1>5. /\ Cardinality(waiting') = Cardinality(waiting) - taken + new
      /\ Cardinality(waiting) \in Nat
  BY WaitingEdge
<1>6. One(ReqLast)' = One(ReqLast) - moved + new
  BY ReqFlow DEF ReqLast
<1>7. One(TxLast)' = One(TxLast) - sent + toTx
  BY TxFlow
<1>8. Len(commits') = Len(commits) - writeDone + write /\ Len(commits) \in Nat
  BY <1>1, CommitsFlow, LenProperties DEF TypeOK
<1>9. /\ Cardinality(fences') = Cardinality(fences) - fenceDone + fence
      /\ Cardinality(fences) \in Nat
  BY FencesFlow
<1>10. /\ Cardinality(irqs') = Cardinality(irqs) - irqDone + irq
       /\ Cardinality(irqs) \in Nat
  BY IrqsFlow
<1>11. One(FenceRegFull)' = One(FenceRegFull) + fenceDone - fromFence
  BY FenceRegFlow DEF FenceRegFull
<1>12. One(IrqRegFull)' = One(IrqRegFull) + irqDone - fromIrq
  BY IrqRegFlow DEF IrqRegFull
<1>13. /\ Len(Fifo2Contents(fake_fence_rsp_fifo)) \in Nat
       /\ Len(Fifo2Contents(fake_fence_rsp_fifo')) =
            Len(Fifo2Contents(fake_fence_rsp_fifo)) + toFake - fromFake
  BY FakeFlow
<1>14. /\ Len(Fifo2Contents(std_wr_rsp_fifo)) \in Nat
       /\ Len(Fifo2Contents(std_wr_rsp_fifo')) =
            Len(Fifo2Contents(std_wr_rsp_fifo)) + writeDone - fromStd
  BY StdFlow
<1>15. /\ Len(Fifo2Contents(afu_rsp_fifo)) \in Nat
       /\ Len(Fifo2Contents(afu_rsp_fifo')) =
            Len(Fifo2Contents(afu_rsp_fifo)) - taken + fromFence + fromIrq + fromFake + fromStd
  BY AfuFlow
<1>16. /\ One(ReqLast) \in 0..1 /\ One(TxLast) \in 0..1
       /\ One(FenceRegFull) \in 0..1 /\ One(IrqRegFull) \in 0..1
       /\ taken \in 0..1 /\ new \in 0..1 /\ moved \in 0..1 /\ toTx \in 0..1 /\ toFake \in 0..1
       /\ sent \in 0..1 /\ write \in 0..1 /\ fence \in 0..1 /\ irq \in 0..1
       /\ writeDone \in 0..1 /\ fenceDone \in 0..1 /\ irqDone \in 0..1
       /\ fromFence \in 0..1 /\ fromIrq \in 0..1 /\ fromFake \in 0..1 /\ fromStd \in 0..1
  BY OneIsNat
<1> DEFINE inReq == One(ReqLast)
           inTx == One(TxLast)
           inFenceReg == One(FenceRegFull)
           inIrqReg == One(IrqRegFull)
           inCommits == Len(commits)
           inFences == Cardinality(fences)
           inIrqs == Cardinality(irqs)
           inFake == Len(Fifo2Contents(fake_fence_rsp_fifo))
           inStd == Len(Fifo2Contents(std_wr_rsp_fifo))
           inAfu == Len(Fifo2Contents(afu_rsp_fifo))
           awaited == Cardinality(waiting)
<1>17. /\ awaited = inReq + inTx + inCommits + inFences + inIrqs + inFenceReg + inIrqReg
                       + inFake + inStd + inAfu
       /\ Count' = inReq' + inTx' + inCommits' + inFences' + inIrqs' + inFenceReg' + inIrqReg'
                       + inFake' + inStd' + inAfu'
  BY <1>2 DEF Count
<1>18. /\ inReq \in 0..1 /\ inReq' = inReq - moved + new
       /\ inTx \in 0..1 /\ inTx' = inTx - sent + toTx
  BY <1>6, <1>7, <1>16
<1>19. /\ inCommits \in Nat /\ inCommits' = inCommits - writeDone + write
       /\ inFences \in Nat /\ inFences' = inFences - fenceDone + fence
       /\ inIrqs \in Nat /\ inIrqs' = inIrqs - irqDone + irq
  BY <1>1, <1>8, <1>9, <1>10, LenProperties DEF TypeOK
<1>20. /\ inFenceReg \in 0..1 /\ inFenceReg' = inFenceReg + fenceDone - fromFence
       /\ inIrqReg \in 0..1 /\ inIrqReg' = inIrqReg + irqDone - fromIrq
  BY <1>11, <1>12, <1>16
<1>21. /\ inFake \in Nat /\ inFake' = inFake + toFake - fromFake
       /\ inStd \in Nat /\ inStd' = inStd + writeDone - fromStd
       /\ inAfu \in Nat
       /\ inAfu' = inAfu - taken + fromFence + fromIrq + fromFake + fromStd
  BY <1>13, <1>14, <1>15
<1>22. awaited' = awaited - taken + new
  BY <1>5
<1> HIDE DEF new, taken, moved, toTx, toFake, sent, write, fence, irq, writeDone, fenceDone,
             irqDone, fromFence, fromIrq, fromFake, fromStd, inReq, inTx, inFenceReg, inIrqReg,
             inCommits, inFences, inIrqs, inFake, inStd, inAfu, awaited
<1>23. awaited' = Count'
  BY <1>3, <1>4, <1>16, <1>17, <1>18, <1>19, <1>20, <1>21, <1>22
<1> QED
  BY <1>23 DEF awaited

\* The whole invariant.
LEMMA EdgeKeepsInvariant ==
    ASSUME NEW req, NEW at, NEW tr, NEW rr, NEW fc, NEW ic, NEW wc,
           Edge(req, at, tr, rr, fc, ic, wc)
    PROVE  WInv'
<1>1. TypeOK
  BY DEF Edge, WInv
<1>2. Packets' /\ packet' \in AfuTags \union {NoTag}
  BY PacketsEdge
<1>3. InOnePlace'
  BY InOnePlaceEdge
<1>4. FenceTags' /\ fences' \subseteq t_uid /\ wr_fence_cpl_reg' \in t_uid \union {NoTag}
  BY FenceTagsEdge
<1>5. IInv' /\ fence_meta' \in [t_uid -> AfuTags \union {NoTag}]
  BY TagEdge
<1>6. waiting' \subseteq Rsps /\ IsFiniteSet(waiting')
  BY WaitingEdge
<1>7. irqs' \subseteq AfuTags /\ IsFiniteSet(irqs')
  BY IrqsFlow
<1>8. commits' \in Seq(AfuTags) /\ AllDifferent(commits')
  BY CommitsFlow
<1>9. irq_cpl_reg' \in AfuTags \union {NoTag}
  BY IrqRegFlow
<1>10. LET f == fake_fence_rsp_fifo
       IN /\ f' \in Fifo2States(AfuTags \union {NoTag})
          /\ Fifo2InOrder(f') /\ Fifo2Distinct(f') /\ Fifo2Members(f') \subseteq AfuTags
  BY FakeFlow
<1>11. LET f == std_wr_rsp_fifo
       IN /\ f' \in Fifo2States(AfuTags \union {NoTag})
          /\ Fifo2InOrder(f') /\ Fifo2Distinct(f') /\ Fifo2Members(f') \subseteq AfuTags
  BY StdFlow
<1>12. LET f == afu_rsp_fifo
       IN /\ f' \in Fifo2States(Rsps \union {NoRsp})
          /\ Fifo2InOrder(f') /\ Fifo2Distinct(f') /\ Fifo2Members(f') \subseteq Rsps
  BY AfuFlow
<1>13. sending' \in AfuTags \union {NoTag}
  BY DownEdge
<1>14. tx_wr_tlps' \in Tlps \union {NoTlp}
  BY TxEdge
<1>15. wr_req' \in FirstBeats \union {LastBeat, NoReq}
  BY ReqEdge
<1>16. last_wr_addr_valid' \in BOOLEAN
  <2>1. last_wr_addr_valid' = LastWrAddrValidNext(wr_req_deq(at, tr))
    BY DEF Edge, Engine
  <2>2. wr_req_deq(at, tr) \in BOOLEAN
    BY ReqEdge
  <2> QED
    BY <1>1, <2>1, <2>2 DEF LastWrAddrValidNext, TypeOK
<1>17. TypeOK'
  BY <1>2, <1>4, <1>5, <1>6, <1>7, <1>8, <1>9, <1>10, <1>11, <1>12, <1>13, <1>14, <1>15, <1>16
     DEF TypeOK, IInv
<1>18. Queues'
  BY <1>8, <1>10, <1>11, <1>12 DEF Queues
<1>19. OneAnswerUnderWay'
  <2>1. Cardinality(waiting)' = Count'
    BY CountEdge
  <2>2. (TypeOK /\ Packets => (OneAnswerUnderWay <=> Cardinality(waiting) = Count))'
    BY Counting, PTL
  <2> QED
    BY <1>2, <1>17, <2>1, <2>2
<1> QED
  BY <1>2, <1>3, <1>4, <1>5, <1>6, <1>7, <1>17, <1>18, <1>19 DEF WInv, Finite

\* The response on the port stays until it is taken; then comes one that is
\* waited for.
LEMMA ResponseEdge ==
    ASSUME NEW req, NEW at, NEW tr, NEW rr, NEW fc, NEW ic, NEW wc,
           Edge(req, at, tr, rr, fc, ic, wc)
    PROVE  IF afu_wr_rsp # NoRsp /\ ~rr THEN afu_wr_rsp' = afu_wr_rsp
           ELSE afu_wr_rsp' \in (IF rr THEN waiting \ {afu_wr_rsp} ELSE waiting)
                                  \union {NoRsp}
<1>1. /\ WInv /\ TypeOK /\ Queues /\ InOnePlace
      /\ rr \in BOOLEAN /\ (rr => afu_wr_rsp # NoRsp)
  BY DEF Edge, WInv
<1> DEFINE f == afu_rsp_fifo
           enq == wr_rsp_notFull /\ Source # "none"
           d == IF enq THEN WrRsp ELSE NoRsp
           Data == Rsps \union {NoRsp}
<1>2. f' = Fifo2Next(f, enq, d, rr)
  <2>1. (afu_wr_rsp # NoRsp /\ rr) = rr
    BY <1>1
  <2> QED
    BY <2>1 DEF Edge, Engine
<1>3. f \in Fifo2States(Data) /\ Fifo2InOrder(f) /\ Fifo2Distinct(f)
  BY <1>1 DEF TypeOK, Queues
<1>4. Source # "none" => WrRsp \in Rsps /\ WrRsp \in waiting /\ ~AtAfu(WrRsp)
  BY <1>1, SourceResponse
<1>5. wr_rsp_notFull \in BOOLEAN
  BY <1>1 DEF TypeOK, wr_rsp_notFull, Fifo2NotFull
<1>6. enq \in BOOLEAN /\ d \in Data /\ (enq => d \in waiting /\ d \notin Fifo2Members(f))
  BY <1>4, <1>5 DEF AtAfu
<1>7. /\ (afu_wr_rsp # NoRsp) = f.valid[1]
      /\ f.valid[1] => afu_wr_rsp = f.data[1]
  BY <1>1, PortResponse DEF Fifo2NotEmpty, Fifo2First
<1>8. /\ f.valid[0] \in BOOLEAN /\ f.valid[1] \in BOOLEAN /\ f'.valid[1] \in BOOLEAN
      /\ f'.valid[1] = (f.valid[0] \/ enq \/ (f.valid[1] /\ ~rr))
      /\ f'.data[1] = IF f.valid[1] /\ ~rr THEN f.data[1]
                      ELSE IF f.valid[0] THEN f.data[0] ELSE d
  <2>1. rr => Fifo2NotEmpty(f)
    BY <1>1, <1>7 DEF Fifo2NotEmpty
  <2>2. /\ f' \in Fifo2States(Data)
        /\ f'.valid[1] = (f.valid[0] \/ enq \/ (f.valid[1] /\ ~rr))
        /\ f'.data[1] = IF f.valid[1] /\ ~rr THEN f.data[1]
                        ELSE IF f.valid[0] THEN f.data[0] ELSE d
    <3> HIDE DEF enq, d, Data
    <3>1. LET g == Fifo2Next(f, enq, d, rr)
          IN /\ g \in Fifo2States(Data)
             /\ g.valid[1] = (f.valid[0] \/ enq \/ (f.valid[1] /\ ~rr))
             /\ g.data[1] = IF f.valid[1] /\ ~rr THEN f.data[1]
                            ELSE IF f.valid[0] THEN f.data[0] ELSE d
      BY <1>1, <1>3, <1>6, <2>1, Fifo2Fields
    <3> QED
      BY <1>2, <3>1
  <2> QED
    BY <1>3, <2>2 DEF Fifo2States
<1>9. afu_wr_rsp' = IF f'.valid[1] THEN f'.data[1] ELSE NoRsp
  BY DEF afu_wr_rsp, Fifo2NotEmpty, Fifo2First
<1>10. \A a \in Fifo2Members(f) : a \in waiting
  <2>1. Fifo2Members(f) \subseteq Rsps
    BY <1>1 DEF Queues
  <2> QED
    BY <1>1, <2>1, Exclusive DEF AtAfu
<1>11. f.valid[0] => /\ f.valid[1] /\ f.data[0] # f.data[1]
                     /\ f.data[0] \in Fifo2Members(f)
  BY <1>3 DEF Fifo2InOrder, Fifo2Distinct, Fifo2Members
<1>12. f.valid[1] => f.data[1] \in Fifo2Members(f)
  BY DEF Fifo2Members
<1> HIDE DEF f, enq, d
<1>13. CASE afu_wr_rsp # NoRsp /\ ~rr
  BY <1>7, <1>8, <1>9, <1>13
<1>14. CASE rr
  BY <1>1, <1>6, <1>7, <1>8, <1>9, <1>10, <1>11, <1>12, <1>14
<1>15. CASE afu_wr_rsp = NoRsp /\ ~rr
  BY <1>6, <1>7, <1>8, <1>9, <1>11, <1>15
<1> QED
  BY <1>1, <1>13, <1>14, <1>15

\* The port's promise is kept by an edge.
LEMMA PortEdge ==
    ASSUME NEW req, NEW at, NEW tr, NEW rr, NEW fc, NEW ic, NEW wc,
           Edge(req, at, tr, rr, fc, ic, wc)
    PROVE  Port!PortCycle
<1>1. rr \in BOOLEAN /\ (rr => afu_wr_rsp # NoRsp)
  BY DEF Edge
<1> DEFINE tag == IF packet # NoTag THEN packet ELSE req.tag
           new == AnswerTo(req.kind, tag)
           left == IF rr THEN waiting \ {afu_wr_rsp} ELSE waiting
           last == req # NoReq /\ req.eop
<1>2. waiting' = left \union (IF last THEN {new} ELSE {})
  BY DEF Edge, AfuEdge
<1>3. last => new \in Rsps \ waiting
  BY NewAnswer
<1>4. IF afu_wr_rsp # NoRsp /\ ~rr THEN afu_wr_rsp' = afu_wr_rsp
      ELSE afu_wr_rsp' \in left \union {NoRsp}
  BY ResponseEdge
<1>5. waiting' = left \/ \E a \in Rsps \ waiting : waiting' = left \union {a}
  <2> HIDE DEF new, last, left
  <2> QED
    BY <1>2, <1>3
<1> QED
  BY <1>1, <1>4, <1>5 DEF Port!PortCycle

-----------------------------------------------------------------------------
(* Nothing under way: at the start and after a reset.                      *)

Idle ==
    /\ wr_req = NoReq /\ last_wr_addr_valid = FALSE
    /\ wr_fence_cpl_reg = NoTag /\ irq_cpl_reg = NoTag
    /\ tx_wr_tlps = NoTlp
    /\ fake_fence_rsp_fifo = Fifo2Empty(NoTag)
    /\ std_wr_rsp_fifo = Fifo2Empty(NoTag)
    /\ afu_rsp_fifo = Fifo2Empty(NoRsp)
    /\ commits = <<>> /\ fences = {} /\ irqs = {} /\ sending = NoTag
    /\ packet = NoTag /\ waiting = {}

\* An idle engine satisfies the invariant, and its port has no response.
LEMMA IdleInvariant ==
    IInv /\ held = {} /\ fence_meta \in [t_uid -> AfuTags \union {NoTag}] /\ Idle
      => WInv /\ afu_wr_rsp = NoRsp
<1> SUFFICES ASSUME IInv, held = {}, fence_meta \in [t_uid -> AfuTags \union {NoTag}], Idle
             PROVE  WInv /\ afu_wr_rsp = NoRsp
  OBVIOUS
<1>1. \A f \in {fake_fence_rsp_fifo, std_wr_rsp_fifo} :
        /\ f \in Fifo2States(AfuTags \union {NoTag}) /\ Fifo2InOrder(f) /\ Fifo2Distinct(f)
        /\ ~f.valid[0] /\ ~f.valid[1] /\ Fifo2Members(f) = {}
  <2>1. LET f == Fifo2Empty(NoTag)
        IN /\ f \in Fifo2States(AfuTags \union {NoTag}) /\ Fifo2InOrder(f) /\ Fifo2Distinct(f)
           /\ ~f.valid[0] /\ ~f.valid[1] /\ Fifo2Members(f) = {}
    <3>1. NoTag \in AfuTags \union {NoTag}
      OBVIOUS
    <3> QED
      BY <3>1, Fifo2EmptyState
  <2> QED
    BY <2>1 DEF Idle
<1>2. LET f == afu_rsp_fifo
      IN /\ f \in Fifo2States(Rsps \union {NoRsp}) /\ Fifo2InOrder(f) /\ Fifo2Distinct(f)
         /\ ~f.valid[0] /\ ~f.valid[1] /\ Fifo2Members(f) = {}
  <2>1. NoRsp \in Rsps \union {NoRsp}
    OBVIOUS
  <2> QED
    BY <2>1, Fifo2EmptyState DEF Idle
<1>3. TypeOK
  <2>1. UidTypeOK
    BY DEF IInv
  <2>2. /\ fake_fence_rsp_fifo \in Fifo2States(AfuTags \union {NoTag})
        /\ std_wr_rsp_fifo \in Fifo2States(AfuTags \union {NoTag})
        /\ afu_rsp_fifo \in Fifo2States(Rsps \union {NoRsp})
    BY <1>1, <1>2
  <2>3. commits \in Seq(AfuTags)
    BY DEF Idle
  <2> QED
    BY <2>1, <2>2, <2>3 DEF Idle, TypeOK
<1>4. Packets
  BY DEF Idle, Packets, Up, Down
<1>5. InOnePlace
  <2>1. ASSUME NEW a \in Rsps
        PROVE  /\ ~AtReq(a) /\ ~AtTx(a) /\ ~AtCommits(a) /\ ~AtFences(a) /\ ~AtIrqs(a)
               /\ ~AtFenceReg(a) /\ ~AtIrqReg(a) /\ ~AtFake(a) /\ ~AtStd(a) /\ ~AtAfu(a)
               /\ a \notin waiting
    <3>1. /\ ~AtReq(a) /\ ~AtTx(a) /\ ~AtFences(a) /\ ~AtIrqs(a)
          /\ ~AtFenceReg(a) /\ ~AtIrqReg(a) /\ a \notin waiting
      BY DEF Idle, AtReq, AtTx, AtFences, AtIrqs, AtFenceReg, AtIrqReg, AnswersTo, Metas
    <3>2. ~AtCommits(a)
      BY DEF Idle, AtCommits, AnswersTo, Elements
    <3>3. ~AtFake(a) /\ ~AtStd(a) /\ ~AtAfu(a)
      BY <1>1, <1>2 DEF AtFake, AtStd, AtAfu, AnswersTo
    <3> QED
      BY <3>1, <3>2, <3>3
  <2>2. ASSUME NEW a \in Rsps PROVE Places(a) = One(a \in waiting)
    <3> HIDE DEF AtReq, AtTx, AtCommits, AtFences, AtIrqs, AtFenceReg, AtIrqReg, AtFake,
                 AtStd, AtAfu
    <3> QED
      BY <2>1 DEF Places, One
  <2> QED
    BY <2>2 DEF InOnePlace
<1>6. Queues
  BY <1>1, <1>2 DEF Idle, Queues, AllDifferent
<1>7. FenceTags
  BY DEF Idle, FenceTags, FenceOnTx, FenceDone
<1>8. Finite
  BY FS_EmptySet DEF Idle, Finite
<1>9. OneAnswerUnderWay
  <2>1. \A f \in {fake_fence_rsp_fifo, std_wr_rsp_fifo, afu_rsp_fifo} :
          Len(Fifo2Contents(f)) = 0
    BY <1>1, <1>2 DEF Fifo2Contents
  <2>2. Cardinality(waiting) = 0 /\ Cardinality(fences) = 0 /\ Cardinality(irqs) = 0
    BY FS_EmptySet DEF Idle
  <2>3. Len(commits) = 0
    BY DEF Idle
  <2>4. /\ One(ReqLast) = 0 /\ One(TxLast) = 0 /\ One(FenceRegFull) = 0 /\ One(IrqRegFull) = 0
    BY DEF Idle, ReqLast, TxLast, FenceRegFull, IrqRegFull, One
  <2> QED
    BY <1>3, <1>4, <2>1, <2>2, <2>3, <2>4, Counting DEF Count
<1>10. afu_wr_rsp = NoRsp
  BY <1>2 DEF afu_wr_rsp, Fifo2NotEmpty
<1> QED
  BY <1>3, <1>4, <1>5, <1>6, <1>7, <1>8, <1>9, <1>10 DEF WInv

\* A fence tag that is released is one in use.
LEMMA Released ==
    ASSUME WInv
    PROVE  /\ FreeFenceTag \in BOOLEAN /\ FreeFenceTagValue \in t_uid
           /\ FreeFenceTag => FreeFenceTagValue \in held
<1>1. TypeOK /\ FenceTags
  BY DEF WInv
<1>2. 0 \in t_uid
  BY UidAssumption DEF t_uid
<1>3. FreeFenceTag \in BOOLEAN
  BY <1>1 DEF TypeOK, FreeFenceTag, wr_rsp_notFull, Fifo2NotFull, Fifo2States
<1> QED
  BY <1>1, <1>2, <1>3 DEF TypeOK, FreeFenceTag, FreeFenceTagValue, FenceTags, FenceDone

\* A reset, with what the engine still does to its memories.
LEMMA ResetKeepsInvariant ==
    ASSUME WInv, Reset
    PROVE  WInv' /\ afu_wr_rsp' = NoRsp
<1>1. TypeOK
  BY DEF WInv
<1>2. IInv'
  BY Released, ResetEdgeInvariant DEF WInv, Reset
<1>3. held' = {} /\ Idle'
  BY DEF Reset, UidReset, Idle
<1>4. fence_meta' \in [t_uid -> AfuTags \union {NoTag}]
  <2>1. PICK at \in BOOLEAN, tr \in BOOLEAN : fence_meta' = FenceMetaNext(wr_req_deq(at, tr))
    BY DEF Reset
  <2>2. IsKind("fence") => wr_req.tag \in AfuTags \union {NoTag}
    BY <1>1, Beats DEF WInv, IsKind, wr_req_notEmpty
  <2> QED
    BY <1>1, <2>1, <2>2 DEF FenceMetaNext, AllocFenceTag, TypeOK
<1>5. (IInv /\ held = {} /\ fence_meta \in [t_uid -> AfuTags \union {NoTag}] /\ Idle
         => WInv /\ afu_wr_rsp = NoRsp)'
  BY IdleInvariant, PTL
<1> QED
  BY <1>2, <1>3, <1>4, <1>5

-----------------------------------------------------------------------------
(* The theorems.                                                           *)

\* A cycle is an edge with some inputs.
LEMMA CycleIsEdge ==
    ASSUME WInv, Cycle
    PROVE  \E req, at, tr, rr, fc, ic, wc : Edge(req, at, tr, rr, fc, ic, wc)
<1>1. PICK at \in BOOLEAN, tr \in BOOLEAN, rr \in BOOLEAN,
           fc \in FenceCpls, ic \in IrqCpls, wc \in WrCpls :
        /\ tx_wr_tlps = NoTlp => ~tr
        /\ afu_wr_rsp = NoRsp => ~rr
        /\ EdgeWith(at, tr, rr, fc, ic, wc)
  BY DEF Cycle
<1>2. PICK req \in FirstBeats \union {LastBeat, NoReq} :
        /\ AfuMaySend(req, wr_req_deq(at, tr))
        /\ Engine(req, at, tr, rr, fc, ic, wc)
        /\ AfuEdge(req, rr)
  BY <1>1 DEF EdgeWith
<1>3. FimEdge(tr, fc, ic, wc)
  BY <1>1 DEF EdgeWith
<1>4. Edge(req, at, tr, rr, fc, ic, wc)
  BY <1>1, <1>2, <1>3 DEF Edge
<1> QED
  BY <1>4

\* The engine starts idle.
LEMMA InitIdle ==
    ASSUME Init
    PROVE  WInv /\ afu_wr_rsp = NoRsp
<1>1. IInv /\ held = {}
  BY InitInvariant DEF Init, UidInit
<1>2. fence_meta \in [t_uid -> AfuTags \union {NoTag}] /\ Idle
  BY DEF Init, Idle
<1> QED
  BY <1>1, <1>2, IdleInvariant

\* The invariant is kept by every step.
LEMMA NextKeepsInvariant ==
    ASSUME WInv, [Next]_vars
    PROVE  WInv'
<1>1. CASE Cycle
  <2>1. PICK req, at, tr, rr, fc, ic, wc : Edge(req, at, tr, rr, fc, ic, wc)
    BY <1>1, CycleIsEdge
  <2> QED
    BY <2>1, EdgeKeepsInvariant
<1>2. CASE Reset
  BY <1>2, ResetKeepsInvariant
<1>3. CASE UNCHANGED vars
  <2> USE <1>3 DEF vars, uidVars, engineVars, WInv
  <2>1. IInv'
    BY DEF IInv, UidTypeOK, Clearing, UidsAreExclusive, NoUidIsLost, Waiting, Releasing
  <2>2. TypeOK'
    BY DEF TypeOK, UidTypeOK
  <2>3. Packets'
    BY DEF Packets, Up, Down
  <2>4. InOnePlace'
    <3>1. ASSUME NEW a \in Rsps PROVE Places(a)' = Places(a)
      <4>1. /\ AtReq(a)' = AtReq(a) /\ AtTx(a)' = AtTx(a)
            /\ AtFenceReg(a)' = AtFenceReg(a) /\ AtIrqReg(a)' = AtIrqReg(a)
        BY DEF AtReq, AtTx, AtFenceReg, AtIrqReg, ReqTag, TxTag, Down
      <4>2. /\ AtCommits(a)' = AtCommits(a) /\ AtFences(a)' = AtFences(a)
            /\ AtIrqs(a)' = AtIrqs(a) /\ AtFake(a)' = AtFake(a)
            /\ AtStd(a)' = AtStd(a) /\ AtAfu(a)' = AtAfu(a)
        BY DEF AtCommits, AtFences, AtIrqs, AtFake, AtStd, AtAfu, Metas
      <4> HIDE DEF AtReq, AtTx, AtCommits, AtFences, AtIrqs, AtFenceReg, AtIrqReg, AtFake,
                   AtStd, AtAfu
      <4> QED
        BY <4>1, <4>2 DEF Places, One
    <3> QED
      BY <3>1 DEF InOnePlace
  <2>5. Queues' /\ Finite'
    BY DEF Queues, Finite
  <2>6. FenceTags'
    BY DEF FenceTags, FenceOnTx, FenceDone
  <2>7. OneAnswerUnderWay'
    BY DEF OneAnswerUnderWay, wr_req_notEmpty
  <2> QED
    BY <2>1, <2>2, <2>3, <2>4, <2>5, <2>6, <2>7
<1> QED
  BY <1>1, <1>2, <1>3 DEF Next

\* The inductive invariant holds throughout, for any number of fence tags, AFU
\* tags and answers waited for, any timing and any resets.
THEOREM WriteInvariant == Spec => []WInv
<1>1. Init => WInv
  BY InitIdle
<1>2. WInv /\ [Next]_vars => WInv'
  BY NextKeepsInvariant
<1> QED
  BY <1>1, <1>2, PTL DEF Spec

\* Type correctness of the write engine.
THEOREM WriteTypeCorrect == Spec => []TypeOK
<1>1. WInv => TypeOK
  BY DEF WInv
<1> QED
  BY <1>1, WriteInvariant, PTL

\* The write engine never loses the tag of a fence and never uses it for a
\* second fence before the first is answered.
THEOREM FenceTagsCorrect == Spec => []FenceTagsNameTheirFence
<1>1. ASSUME WInv
      PROVE  FenceTagsNameTheirFence
  <2>1. TypeOK /\ Packets /\ InOnePlace /\ FenceTags
    BY <1>1 DEF WInv
  <2>2. ASSUME NEW t \in held
        PROVE  Rsp(TRUE, FALSE, fence_meta[t]) \in waiting
    <3> DEFINE a == AnswerTo("fence", fence_meta[t])
    <3>1. a = Rsp(TRUE, FALSE, fence_meta[t])
      BY DEF AnswerTo, Rsp
    <3>2. a \in Rsps
      BY <2>1 DEF FenceTags, AnswerTo, Rsp, Rsps
    <3>3. AtTx(a) \/ AtFences(a) \/ AtFenceReg(a)
      <4>1. CASE t \in FenceOnTx
        BY <2>1, <4>1, Beats DEF FenceOnTx, FenceTags, AtTx, TxTag, Packets
      <4>2. CASE t \in fences
        BY <4>2 DEF AtFences, AnswersTo, Metas
      <4>3. CASE t \in FenceDone
        BY <4>3 DEF FenceDone, AtFenceReg
      <4> QED
        BY <2>1, <4>1, <4>2, <4>3 DEF FenceTags
    <3> HIDE DEF a
    <3>4. a \in waiting
      BY <2>1, <3>2, <3>3, Exclusive
    <3> QED
      BY <3>1, <3>4
  <2> QED
    BY <2>1, <2>2 DEF FenceTagsNameTheirFence, FenceTags
<1> QED
  BY <1>1, WriteInvariant, PTL

\* The write engine always has exactly one answer under way for each answer
\* that the AFU waits for, wherever the request is.
THEOREM OneAnswerCorrect == Spec => []OneAnswerUnderWay
<1>1. WInv => OneAnswerUnderWay
  BY DEF WInv
<1> QED
  BY <1>1, WriteInvariant, PTL

\* The write engine keeps the promise of its port to the AFU: one response for
\* each request, with its tag and kind, stable until it is taken.
THEOREM WritesAnsweredOnce == Spec => EachAnsweredOnce
<1>1. Init => Port!PortInit
  BY InitIdle DEF Port!PortInit, Init
<1>2. WInv /\ [Next]_vars => [Port!PortNext]_<<waiting, afu_wr_rsp>>
  <2> SUFFICES ASSUME WInv, [Next]_vars
               PROVE  [Port!PortNext]_<<waiting, afu_wr_rsp>>
    OBVIOUS
  <2>1. CASE Cycle
    <3>1. PICK req, at, tr, rr, fc, ic, wc : Edge(req, at, tr, rr, fc, ic, wc)
      BY <2>1, CycleIsEdge
    <3> QED
      BY <3>1, PortEdge DEF Port!PortNext
  <2>2. CASE Reset
    BY <2>2, ResetKeepsInvariant DEF Reset, Port!PortNext, Port!PortReset
  <2>3. CASE UNCHANGED vars
    BY <2>3 DEF vars, engineVars, afu_wr_rsp
  <2> QED
    BY <2>1, <2>2, <2>3 DEF Next
<1> QED
  BY <1>1, <1>2, WriteInvariant, PTL DEF Spec, EachAnsweredOnce, Port!PortSpec

=============================================================================
