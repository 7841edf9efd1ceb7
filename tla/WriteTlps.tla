----------------------------- MODULE WriteTlps ------------------------------
(***************************************************************************)
(* ofs_plat_host_chan_@group@_gen_wr_tlps: the PCIe write engine.  It      *)
(* turns the AFU's writes, atomic requests, write fences and interrupts    *)
(* into TLPs and merges their four sources of completions into one stream  *)
(* of responses.  A fence is a read with a tag of its own; before the      *)
(* first write there is no address to read, so the TLP is poisoned and the *)
(* response is made here.                                                  *)
(*                                                                         *)
(* One action is one rising edge of clk.  The tags of fences come from the *)
(* generator modelled in Uid; MAX_OUTSTANDING_DMA_WR_FENCES is N_ENTRIES.  *)
(* Addresses, byte ranges, payloads and virtual channels are left out.     *)
(***************************************************************************)
EXTENDS Uid, FiniteSets

CONSTANTS AfuTags,       \* the AFU's write tags and interrupt ids
          MAX_WAITING,   \* answers the AFU waits for at once (a bound)
          NoReq, NoTlp, NoRsp, NoTag

ASSUME WriteTlpsAssumption ==
    /\ N_RESERVED = 0
    /\ MAX_WAITING \in Nat \ {0}
    /\ NoTag \notin AfuTags \union t_uid

VARIABLES
    wr_req,               \* register: the beat from the AFU, or NoReq
    last_wr_addr_valid,   \* a write has been sent, its address serves a fence
    fence_meta,           \* memory: AFU tag of a fence, by fence tag
    wr_fence_cpl_reg,     \* register: tag of a completed fence, or NoTag
    tx_wr_tlps,           \* register: the beat for the arbiter, or NoTlp
    fake_fence_rsp_fifo,  \* AFU tags of fences that were not sent
    irq_cpl_reg,          \* register: id of a completed interrupt, or NoTag
    std_wr_rsp_fifo,      \* AFU tags of committed writes
    afu_rsp_fifo,         \* responses to the AFU
    commits,              \* FIM: committed writes to report, in order
    fences, irqs,         \* host and FIM: fence tags and interrupts to complete
    sending,              \* FIM: AFU tag of the write packet on its way
    packet,               \* AFU: tag of the packet it is in the middle of
    waiting               \* AFU: answers it waits for

engineVars == <<wr_req, last_wr_addr_valid, fence_meta, wr_fence_cpl_reg,
                tx_wr_tlps, fake_fence_rsp_fifo, irq_cpl_reg, std_wr_rsp_fifo,
                afu_rsp_fifo>>
vars == <<uidVars, engineVars, commits, fences, irqs, sending, packet, waiting>>

Kinds == {"write", "atomic", "fence", "irq"}

\* Beats from the AFU.  The tag comes with the first beat only; fences,
\* interrupts and atomic requests have a single beat.
FirstBeats ==
    [sop : {TRUE}, eop : {TRUE}, kind : Kinds, tag : AfuTags]
      \union [sop : {TRUE}, eop : {FALSE}, kind : {"write"}, tag : AfuTags]
LastBeat == [sop |-> FALSE, eop |-> TRUE, kind |-> "write", tag |-> NoTag]

Rsp(is_fence, is_interrupt, tag) ==
    [is_fence |-> is_fence, is_interrupt |-> is_interrupt, tag |-> tag]

Rsps == [is_fence : BOOLEAN, is_interrupt : BOOLEAN, tag : AfuTags]

AnswerTo(kind, tag) == Rsp(kind = "fence", kind = "irq", tag)

\* Beats for the arbiter.  Of the tags only that of a fence counts.
Tlps == [sop : BOOLEAN, eop : BOOLEAN, kind : Kinds, afu_tag : AfuTags \union {NoTag},
         poison : BOOLEAN, tag : t_uid]

\* In the code valid bits tell that there is nothing in a register.
ASSUME NothingAssumption ==
    NoReq \notin FirstBeats \union {LastBeat} /\ NoTlp \notin Tlps /\ NoRsp \notin Rsps

-----------------------------------------------------------------------------
(* Requests.                                                               *)

Accepts(reg, none, tready) == reg = none \/ tready

wr_req_notEmpty == wr_req # NoReq
IsKind(kind) == wr_req_notEmpty /\ wr_req.kind = kind

fake_fence_rsp_notFull == Fifo2NotFull(fake_fence_rsp_fifo)

\* Every request waits for a fence tag, and an atomic one also for the tag
\* of its read response.
wr_req_ready(atomic_tvalid) ==
    wr_req_notEmpty /\ alloc_ready /\ (IsKind("atomic") => atomic_tvalid)

wr_req_deq(atomic_tvalid, tx_tready) ==
    /\ wr_req_ready(atomic_tvalid) /\ fake_fence_rsp_notFull
    /\ Accepts(tx_wr_tlps, NoTlp, tx_tready)

wr_req_is_invalid_fence == IsKind("fence") /\ ~last_wr_addr_valid

\* A fence that will be sent takes a tag.
AllocFenceTag(deq) == deq /\ IsKind("fence") /\ last_wr_addr_valid

FenceMetaNext(deq) ==
    IF AllocFenceTag(deq) THEN [fence_meta EXCEPT ![alloc_uid] = wr_req.tag]
    ELSE fence_meta

\* Mutant of FakeFence: the response is made although the fence is sent too.
FakeFenceAlways(deq) == deq /\ IsKind("fence")

FakeFence(deq) == deq /\ IsKind("fence") /\ ~last_wr_addr_valid

\* Only writes and atomic requests have an address for the next fence.
LastWrAddrValidNext(deq) ==
    last_wr_addr_valid \/ (deq /\ wr_req.sop /\ ~IsKind("fence") /\ ~IsKind("irq"))

TxWrTlpsNext(atomic_tvalid, tx_tready) ==
    IF ~Accepts(tx_wr_tlps, NoTlp, tx_tready) THEN tx_wr_tlps
    ELSE IF ~(wr_req_ready(atomic_tvalid) /\ fake_fence_rsp_notFull) THEN NoTlp
    ELSE [sop |-> wr_req.sop, eop |-> wr_req.eop, kind |-> wr_req.kind,
          afu_tag |-> wr_req.tag, poison |-> wr_req_is_invalid_fence,
          tag |-> IF IsKind("fence") THEN alloc_uid ELSE 0]

-----------------------------------------------------------------------------
(* Completions.                                                            *)

wr_rsp_notFull == Fifo2NotFull(afu_rsp_fifo)
fence_cpl_tready == wr_fence_cpl_reg = NoTag
irq_cpl_tready == irq_cpl_reg = NoTag
wr_cpl_tready == Fifo2NotFull(std_wr_rsp_fifo)
fake_fence_rsp_valid == Fifo2NotEmpty(fake_fence_rsp_fifo)
std_wr_rsp_valid == Fifo2NotEmpty(std_wr_rsp_fifo)

\* Mutant of FreeFenceTag: the tag is released as soon as the register is set.
FreeFenceTagEarly == wr_fence_cpl_reg # NoTag

FreeFenceTag == wr_rsp_notFull /\ wr_fence_cpl_reg # NoTag

FreeFenceTagValue == IF FreeFenceTag THEN wr_fence_cpl_reg ELSE 0

WrFenceCplRegNext(cpl) ==
    IF fence_cpl_tready THEN cpl
    ELSE IF wr_rsp_notFull THEN NoTag ELSE wr_fence_cpl_reg

\* Mutant of IrqForwarded: forgets that a fence completion goes first.
IrqForwardedAnyway == wr_rsp_notFull

\* An interrupt completion is forwarded when no fence completion is.
IrqForwarded == wr_rsp_notFull /\ wr_fence_cpl_reg = NoTag

IrqCplRegNext(cpl) ==
    IF irq_cpl_tready THEN cpl
    ELSE IF IrqForwarded THEN NoTag ELSE irq_cpl_reg

\* Priority among the responses: fences, interrupts, fences that were not
\* sent, writes.
Source ==
    IF wr_fence_cpl_reg # NoTag THEN "fence"
    ELSE IF irq_cpl_reg # NoTag THEN "irq"
    ELSE IF fake_fence_rsp_valid THEN "fake"
    ELSE IF std_wr_rsp_valid THEN "std" ELSE "none"

WrRsp ==
    CASE Source = "fence" -> Rsp(TRUE, FALSE, fence_meta[wr_fence_cpl_reg])
      [] Source = "irq" -> Rsp(FALSE, TRUE, irq_cpl_reg)
      [] Source = "fake" -> Rsp(TRUE, FALSE, Fifo2First(fake_fence_rsp_fifo))
      [] Source = "std" -> Rsp(FALSE, FALSE, Fifo2First(std_wr_rsp_fifo))
      [] OTHER -> NoRsp

StdRspDeq == Source = "std" /\ wr_rsp_notFull
FakeRspDeq == Source = "fake" /\ wr_rsp_notFull

afu_wr_rsp == IF Fifo2NotEmpty(afu_rsp_fifo) THEN Fifo2First(afu_rsp_fifo) ELSE NoRsp

-----------------------------------------------------------------------------

Init ==
    /\ UidInit
    /\ wr_req = NoReq /\ last_wr_addr_valid = FALSE
    /\ fence_meta = [t \in t_uid |-> NoTag]
    /\ wr_fence_cpl_reg = NoTag /\ irq_cpl_reg = NoTag
    /\ tx_wr_tlps = NoTlp
    /\ fake_fence_rsp_fifo = Fifo2Empty(NoTag)
    /\ std_wr_rsp_fifo = Fifo2Empty(NoTag)
    /\ afu_rsp_fifo = Fifo2Empty(NoRsp)
    /\ commits = <<>> /\ fences = {} /\ irqs = {} /\ sending = NoTag
    /\ packet = NoTag /\ waiting = {}

\* The write engine at an edge in operation.  The inputs are the AFU's beat,
\* whether the tag for an atomic request is there, the ready signals of TX
\* and of the AFU, and the completions of a fence, an interrupt and a write.
\* A FIFO is shown what is stored in it, not what its input holds besides.
Engine(req, atomic_tvalid, tx_tready, rsp_tready, fence_cpl, irq_cpl, wr_cpl) ==
    LET deq == wr_req_deq(atomic_tvalid, tx_tready)
        alloc == AllocFenceTag(deq)
        fake == FakeFence(deq)
    IN /\ UidEdge(alloc, FreeFenceTag, FreeFenceTagValue)
       /\ wr_req' = IF Accepts(wr_req, NoReq, deq) THEN req ELSE wr_req
       /\ last_wr_addr_valid' = LastWrAddrValidNext(deq)
       /\ fence_meta' = FenceMetaNext(deq)
       /\ wr_fence_cpl_reg' = WrFenceCplRegNext(fence_cpl)
       /\ tx_wr_tlps' = TxWrTlpsNext(atomic_tvalid, tx_tready)
       /\ fake_fence_rsp_fifo' =
            Fifo2Next(fake_fence_rsp_fifo, fake, IF fake THEN wr_req.tag ELSE NoTag,
                      FakeRspDeq)
       /\ irq_cpl_reg' = IrqCplRegNext(irq_cpl)
       /\ std_wr_rsp_fifo' =
            Fifo2Next(std_wr_rsp_fifo, wr_cpl # NoTag, wr_cpl, StdRspDeq)
       /\ afu_rsp_fifo' =
            LET enq == wr_rsp_notFull /\ Source # "none"
            IN Fifo2Next(afu_rsp_fifo, enq, IF enq THEN WrRsp ELSE NoRsp,
                         afu_wr_rsp # NoRsp /\ rsp_tready)

\* The AFU sends the beats of a packet one after the other and does not use a
\* tag again before it is answered.
AfuMaySend(req, deq) ==
    \/ req = NoReq
    \/ /\ Accepts(wr_req, NoReq, deq)
       /\ IF packet # NoTag THEN req = LastBeat
          ELSE /\ req \in FirstBeats
               /\ AnswerTo(req.kind, req.tag) \notin waiting
               /\ Cardinality(waiting) < MAX_WAITING

AfuEdge(req, rsp_tready) ==
    LET left == IF rsp_tready THEN waiting \ {afu_wr_rsp} ELSE waiting
        tag == IF packet # NoTag THEN packet ELSE req.tag
    IN IF req = NoReq THEN waiting' = left /\ UNCHANGED packet
       ELSE /\ packet' = IF req.eop THEN NoTag ELSE tag
            /\ waiting' = left \union (IF req.eop THEN {AnswerTo(req.kind, tag)} ELSE {})

\* The FIM and the host take the beat on TX and give completions: a write is
\* committed with its last beat and commits are reported in order; a fence
\* or an interrupt completes at any time; a poisoned packet is dropped.
FimEdge(tx_tready, fence_cpl, irq_cpl, wr_cpl) ==
    LET b == tx_wr_tlps
        sent(kinds) == b # NoTlp /\ tx_tready /\ ~b.poison /\ b.kind \in kinds
        is_write == sent({"write", "atomic"})
    IN /\ fences' = (fences \ {fence_cpl})
                      \union (IF sent({"fence"}) THEN {b.tag} ELSE {})
       /\ irqs' = (irqs \ {irq_cpl})
                      \union (IF sent({"irq"}) THEN {b.afu_tag} ELSE {})
       /\ sending' = IF is_write THEN (IF b.eop THEN NoTag
                                       ELSE IF b.sop THEN b.afu_tag ELSE sending)
                     ELSE sending
       /\ commits' = (IF wr_cpl # NoTag THEN Tail(commits) ELSE commits)
                       \o (IF is_write /\ b.eop
                           THEN <<IF b.sop THEN b.afu_tag ELSE sending>> ELSE <<>>)

FenceCpls == IF fence_cpl_tready THEN fences \union {NoTag} ELSE {NoTag}
IrqCpls == IF irq_cpl_tready THEN irqs \union {NoTag} ELSE {NoTag}
WrCpls == IF wr_cpl_tready /\ commits # <<>> THEN {Head(commits), NoTag} ELSE {NoTag}

\* An edge with the given ready signals and completions.
EdgeWith(atomic_tvalid, tx_tready, rsp_tready, fence_cpl, irq_cpl, wr_cpl) ==
    /\ fence_cpl \in FenceCpls /\ irq_cpl \in IrqCpls /\ wr_cpl \in WrCpls
    /\ FimEdge(tx_tready, fence_cpl, irq_cpl, wr_cpl)
    /\ \E req \in FirstBeats \union {LastBeat, NoReq} :
         /\ AfuMaySend(req, wr_req_deq(atomic_tvalid, tx_tready))
         /\ Engine(req, atomic_tvalid, tx_tready, rsp_tready, fence_cpl, irq_cpl, wr_cpl)
         /\ AfuEdge(req, rsp_tready)

\* A signal with nothing to go with it has no effect and is fixed.
Cycle ==
    \E atomic_tvalid, tx_tready, rsp_tready \in BOOLEAN,
       fence_cpl \in FenceCpls, irq_cpl \in IrqCpls, wr_cpl \in WrCpls :
      /\ ~IsKind("atomic") => ~atomic_tvalid
      /\ tx_wr_tlps = NoTlp => ~tx_tready
      /\ afu_wr_rsp = NoRsp => ~rsp_tready
      /\ EdgeWith(atomic_tvalid, tx_tready, rsp_tready, fence_cpl, irq_cpl, wr_cpl)

\* An edge with reset_n low: the AFU, the FIM and the host are reset with the
\* engine; what the engine did at this edge to its memory is done.
Reset ==
    /\ UidReset(FreeFenceTag, FreeFenceTagValue)
    /\ \E atomic_tvalid, tx_tready \in BOOLEAN :
         fence_meta' = FenceMetaNext(wr_req_deq(atomic_tvalid, tx_tready))
    /\ wr_req' = NoReq /\ last_wr_addr_valid' = FALSE
    /\ wr_fence_cpl_reg' = NoTag /\ irq_cpl_reg' = NoTag
    /\ tx_wr_tlps' = NoTlp
    /\ fake_fence_rsp_fifo' = Fifo2Empty(NoTag)
    /\ std_wr_rsp_fifo' = Fifo2Empty(NoTag)
    /\ afu_rsp_fifo' = Fifo2Empty(NoRsp)
    /\ commits' = <<>> /\ fences' = {} /\ irqs' = {} /\ sending' = NoTag
    /\ packet' = NoTag /\ waiting' = {}

Next == Cycle \/ Reset

Spec == Init /\ [][Next]_vars

-----------------------------------------------------------------------------
(* Properties.                                                             *)

TypeOK ==
    /\ UidTypeOK
    /\ wr_req \in FirstBeats \union {LastBeat, NoReq}
    /\ last_wr_addr_valid \in BOOLEAN
    /\ fence_meta \in [t_uid -> AfuTags \union {NoTag}]
    /\ wr_fence_cpl_reg \in t_uid \union {NoTag}
    /\ tx_wr_tlps \in Tlps \union {NoTlp}
    /\ irq_cpl_reg \in AfuTags \union {NoTag}
    /\ fake_fence_rsp_fifo \in Fifo2States(AfuTags \union {NoTag})
    /\ std_wr_rsp_fifo \in Fifo2States(AfuTags \union {NoTag})
    /\ afu_rsp_fifo \in Fifo2States(Rsps \union {NoRsp})
    /\ commits \in Seq(AfuTags)
    /\ fences \subseteq t_uid /\ irqs \subseteq AfuTags
    /\ sending \in AfuTags \union {NoTag} /\ packet \in AfuTags \union {NoTag}
    /\ waiting \subseteq Rsps

\* Where the tag of a fence is between its allocation and its release.
FenceOnTx == IF tx_wr_tlps = NoTlp \/ tx_wr_tlps.kind # "fence" \/ tx_wr_tlps.poison
             THEN {} ELSE {tx_wr_tlps.tag}
FenceDone == {wr_fence_cpl_reg} \ {NoTag}

\* The fence tags in use are those of the fences on their way, at the host or
\* completed, each in one place, and each leads to the AFU's tag of a fence
\* that is still waited for: a tag is neither lost, nor used for a second
\* fence before the first one has been answered.
FenceTagsNameTheirFence ==
    /\ held = FenceOnTx \union fences \union FenceDone
    /\ FenceOnTx \intersect fences = {} /\ (FenceOnTx \union fences) \intersect FenceDone = {}
    /\ \A t \in held : Rsp(TRUE, FALSE, fence_meta[t]) \in waiting
    /\ \A t, u \in held : fence_meta[t] = fence_meta[u] => t = u

\* Every request has exactly one answer under way: nothing is answered twice
\* by two of the four sources, or forgotten between them.
OneAnswerUnderWay ==
    LET tx == tx_wr_tlps
        on_tx(kinds) == tx # NoTlp /\ ~tx.poison /\ tx.eop /\ tx.kind \in kinds
        req(kinds) == wr_req_notEmpty /\ wr_req.eop /\ wr_req.kind \in kinds
        count(p) == IF p THEN 1 ELSE 0
    IN Cardinality(waiting) =
         count(req(Kinds)) + count(on_tx(Kinds))
           + Len(commits) + Cardinality(fences) + Cardinality(irqs)
           + count(wr_fence_cpl_reg # NoTag) + count(irq_cpl_reg # NoTag)
           + Len(Fifo2Contents(fake_fence_rsp_fifo))
           + Len(Fifo2Contents(std_wr_rsp_fifo)) + Len(Fifo2Contents(afu_rsp_fifo))

\* The AFU is answered once for each write, fence and interrupt, with the tag
\* and kind of its request, whichever source completes first.
Port == INSTANCE WritePort WITH Answers <- Rsps, rsp <- afu_wr_rsp

EachAnsweredOnce == Port!PortSpec

=============================================================================
