------------------------------ MODULE ReadTlps ------------------------------
(***************************************************************************)
(* ofs_plat_host_chan_@group@_gen_rd_tlps: the PCIe read engine.  It gives *)
(* each AFU read a PCIe tag, sends it to the host as a TLP, and turns the  *)
(* completions, which the host splits and interleaves as it likes, back    *)
(* into lines for the AFU.  It also allocates the tags of atomic requests  *)
(* and passes the completions of write fences to the write engine.         *)
(*                                                                         *)
(* One action is one rising edge of clk.  The tags come from the generator *)
(* modelled in Uid; MAX_OUTSTANDING_DMA_RD_REQS is N_ENTRIES and           *)
(* MAX_OUTSTANDING_DMA_WR_FENCES is N_RESERVED.  The bus is as wide as the *)
(* read completion boundary, so the rcb fields are left out, and so is     *)
(* the virtual channel, which is copied from request to response.          *)
(***************************************************************************)
EXTENDS Uid, FiniteSets

CONSTANTS AfuTags,            \* tags the AFU gives its requests
          MAX_PAYLOAD_LINES,  \* most lines in a packet, a power of 2
          LineCounts,         \* the lengths of the AFU's reads
          LEN_WRAP,           \* lines at which a 10-bit length in dwords wraps
          NoReq, NoTlp, NoBeat, NoCpl, NoRsp

ASSUME ReadTlpsAssumption ==
    /\ N_RESERVED > 0
    /\ MAX_PAYLOAD_LINES \in Nat \ {0}
    /\ LineCounts \subseteq 1..MAX_PAYLOAD_LINES
    /\ LEN_WRAP \in Nat \ {0} /\ LEN_WRAP % MAX_PAYLOAD_LINES = 0
    /\ NoReq \notin AfuTags

VARIABLES
    afu_req_fifo,        \* requests from the AFU
    rd_meta,             \* memory: AFU tag and line count, by PCIe tag
    track_ready, track_waddr,            \* initialization of rd_rsp_tracker
    rd_rsp_tracker,      \* memory: lines completed so far, by PCIe tag
    tx_rd_tlps,          \* the read TLP waiting for the arbiter
    atomic_cpl_tag,      \* the tag waiting for an atomic write
    reg_afu_rd_rsp,      \* the completion packet in progress, or NoCpl
    reg_afu_rd_rsp_tlp_tag,              \* PCIe tag of the last packet
    afu_rd_rsp,          \* the response on the port to the AFU
    wr_fence_cpl_reg_valid,              \* write engine: a fence completion waits
    rx_cpl_tlps,         \* host: the beat on the completion stream
    packet,              \* host: beats of that packet still to come
    host,                \* host: reads it has to answer, by PCIe tag
    owed                 \* AFU: what it waits for, by AFU tag

requestVars == <<afu_req_fifo, tx_rd_tlps, atomic_cpl_tag>>
memoryVars == <<rd_meta, track_ready, track_waddr, rd_rsp_tracker>>
responseVars == <<reg_afu_rd_rsp, reg_afu_rd_rsp_tlp_tag, afu_rd_rsp,
                  wr_fence_cpl_reg_valid>>
hostVars == <<rx_cpl_tlps, packet, host>>
vars == <<uidVars, requestVars, memoryVars, responseVars, hostVars, owed>>

\* An atomic request is a dummy read of one line.  The address is left out:
\* what is read is known by the AFU's tag.
Requests == [tag : AfuTags, line_count : LineCounts, is_atomic : {FALSE}]
              \union [tag : AfuTags, line_count : {1}, is_atomic : {TRUE}]

LineIdx(n) == n % MAX_PAYLOAD_LINES
LineIdxs == 0..MAX_PAYLOAD_LINES - 1

\* What the registers and the books hold.
Lengths == LineCounts \union {1}
Metas == [tag : AfuTags, line_count : Lengths]
Tlps == [tag : Issuable, addr : AfuTags, lines : Lengths]
Payloads == [addr : AfuTags, line : LineIdxs]
Beats == [sop : BOOLEAN, eop : BOOLEAN, tag : t_uid, dm_encoded : BOOLEAN, fc : BOOLEAN,
          byte_count : 0..LEN_WRAP, length : 0..LEN_WRAP, payload : Payloads \union {NoRsp}]
Cpls == [is_last : BOOLEAN, tag : AfuTags, line_idx : LineIdxs]
Rsps == [tag : AfuTags, line_idx : LineIdxs, last : BOOLEAN, payload : Payloads]
Packets == [left : LineIdxs \ {0}, addr : AfuTags, line : LineIdxs]
HostReads == [addr : AfuTags, lines : Lengths, next : LineIdxs, dm_encoded : BOOLEAN]
Owed == [lines : Lengths, next : LineIdxs]

\* In the code valid bits tell that there is nothing in a register.
ASSUME NothingAssumption ==
    /\ NoReq \notin Requests \union Metas /\ NoTlp \notin Tlps
    /\ NoBeat \notin Beats \union Packets
    /\ NoCpl \notin Cpls /\ NoRsp \notin Rsps

IsWrFence(tag) == tag < N_RESERVED

-----------------------------------------------------------------------------
(* Requests.                                                               *)

rd_req == Fifo2First(afu_req_fifo)
rd_req_notEmpty == Fifo2NotEmpty(afu_req_fifo)

\* A stage with a register accepts a value when it is empty or being read.
Accepts(reg, none, tready) == reg = none \/ tready

rd_req_deq(tx_tready, atomic_tready) ==
    /\ rd_req_notEmpty /\ alloc_ready /\ track_ready
    /\ IF rd_req.is_atomic THEN Accepts(atomic_cpl_tag, NoTlp, atomic_tready)
       ELSE Accepts(tx_rd_tlps, NoTlp, tx_tready)

RdMetaNext(deq) ==
    IF deq THEN [rd_meta EXCEPT ![alloc_uid] =
                   [tag |-> rd_req.tag, line_count |-> rd_req.line_count]]
    ELSE rd_meta

\* Neither register looks at track_ready.
RequestRegs(tx_tready, atomic_tready) ==
    LET tagged == rd_req_notEmpty /\ alloc_ready
    IN /\ tx_rd_tlps' =
            IF ~Accepts(tx_rd_tlps, NoTlp, tx_tready) THEN tx_rd_tlps
            ELSE IF tagged /\ ~rd_req.is_atomic
            THEN [tag |-> alloc_uid, addr |-> rd_req.tag, lines |-> rd_req.line_count]
            ELSE NoTlp
       /\ atomic_cpl_tag' =
            IF ~Accepts(atomic_cpl_tag, NoTlp, atomic_tready) THEN atomic_cpl_tag
            ELSE IF tagged /\ rd_req.is_atomic
            THEN [tag |-> alloc_uid, addr |-> rd_req.tag, lines |-> 1]
            ELSE NoTlp

-----------------------------------------------------------------------------
(* Completions.                                                            *)

rx_tready(afu_tready) ==
    (afu_rd_rsp = NoRsp \/ afu_tready) /\ ~wr_fence_cpl_reg_valid

\* What the beat on the stream says.  Only the first beat has a header; with
\* the PU encoding it counts the bytes that remain, with DM encoding the
\* lines that came before are counted here.
Decoded ==
    IF rx_cpl_tlps = NoBeat THEN NoCpl
    ELSE IF ~rx_cpl_tlps.sop
    THEN IF reg_afu_rd_rsp = NoCpl THEN NoCpl
         ELSE [reg_afu_rd_rsp EXCEPT !.line_idx = LineIdx(@ + 1)]
    ELSE IF IsWrFence(rx_cpl_tlps.tag) THEN NoCpl
    ELSE LET meta == rd_meta[rx_cpl_tlps.tag]
         IN [is_last |-> rx_cpl_tlps.fc,
             tag |-> meta.tag,
             line_idx |-> IF rx_cpl_tlps.dm_encoded
                          THEN LineIdx(rd_rsp_tracker[rx_cpl_tlps.tag])
                          ELSE LineIdx(meta.line_count + LEN_WRAP
                                         - rx_cpl_tlps.byte_count)]

wr_fence_cpl_tvalid(afu_tready) ==
    /\ rx_tready(afu_tready) /\ rx_cpl_tlps # NoBeat
    /\ rx_cpl_tlps.sop /\ IsWrFence(rx_cpl_tlps.tag)

\* Mutants of TrackerWrite: the count is never cleared; packets before the
\* last one are forgotten.
TrackerWriteNoReset == rd_rsp_tracker[rx_cpl_tlps.tag] + rx_cpl_tlps.length
TrackerWriteLastOnly == IF rx_cpl_tlps.fc THEN 0 ELSE rx_cpl_tlps.length

\* The count for DM encoding starts over after the last packet of a read.
TrackerWrite ==
    IF rx_cpl_tlps.fc THEN 0
    ELSE rd_rsp_tracker[rx_cpl_tlps.tag] + rx_cpl_tlps.length

RdRspTrackerNext(afu_tready) ==
    IF ~track_ready THEN [rd_rsp_tracker EXCEPT ![track_waddr] = 0]
    ELSE IF /\ rx_tready(afu_tready) /\ Decoded # NoCpl /\ rx_cpl_tlps.sop
    THEN [rd_rsp_tracker EXCEPT ![rx_cpl_tlps.tag] = TrackerWrite]
    ELSE rd_rsp_tracker

\* The registers of the response pipeline hold still while the stream is not
\* accepted.
BeatAccepted(afu_tready) == rx_tready(afu_tready) /\ rx_cpl_tlps # NoBeat

CplInProgressNext(afu_tready) ==
    IF ~BeatAccepted(afu_tready) THEN reg_afu_rd_rsp
    ELSE IF rx_cpl_tlps.eop THEN NoCpl ELSE Decoded

\* Mutant of CplTagNext: the tag is taken from a beat that is not yet accepted.
CplTagNextEarly(afu_tready) ==
    IF rx_cpl_tlps # NoBeat /\ rx_cpl_tlps.sop THEN rx_cpl_tlps.tag
    ELSE reg_afu_rd_rsp_tlp_tag

CplTagNext(afu_tready) ==
    IF BeatAccepted(afu_tready) /\ rx_cpl_tlps.sop THEN rx_cpl_tlps.tag
    ELSE reg_afu_rd_rsp_tlp_tag

\* Mutant of RspHolds: a fence completion leaves the response as it is, also
\* when the AFU has taken it.
RspHoldsOnFence(afu_tready) ==
    ~rx_tready(afu_tready) \/ wr_fence_cpl_tvalid(afu_tready)

RspHolds(afu_tready) == ~rx_tready(afu_tready)

AfuRdRspNext(afu_tready) ==
    IF RspHolds(afu_tready) THEN afu_rd_rsp
    ELSE IF Decoded = NoCpl THEN NoRsp
    ELSE [tag |-> Decoded.tag, line_idx |-> Decoded.line_idx,
          last |-> Decoded.is_last /\ rx_cpl_tlps.eop,
          payload |-> rx_cpl_tlps.payload]

ResponseRegs(afu_tready) ==
    /\ reg_afu_rd_rsp' = CplInProgressNext(afu_tready)
    /\ reg_afu_rd_rsp_tlp_tag' = CplTagNext(afu_tready)
    /\ afu_rd_rsp' = AfuRdRspNext(afu_tready)

\* Mutants of free_tlp_tag: the tag is released before the AFU has taken the
\* last line; only reads of one line release it.
free_tlp_tagEarly(afu_tready) == afu_rd_rsp # NoRsp /\ afu_rd_rsp.last
free_tlp_tagFirstLine(afu_tready) ==
    afu_rd_rsp # NoRsp /\ afu_tready /\ afu_rd_rsp.last /\ afu_rd_rsp.line_idx = 0

\* Release the tag with the last line.
free_tlp_tag(afu_tready) == afu_rd_rsp # NoRsp /\ afu_tready /\ afu_rd_rsp.last

\* The write engine's register for a fence completion, which its response
\* queue empties when it has room.
FenceReg(afu_tready, wr_rsp_notFull) ==
    wr_fence_cpl_reg_valid' =
      IF wr_fence_cpl_reg_valid THEN ~wr_rsp_notFull
      ELSE wr_fence_cpl_tvalid(afu_tready)

-----------------------------------------------------------------------------
(* The host.  It answers each read with packets of one or more lines, in   *)
(* order of address and with one encoding, and may begin a packet for any  *)
(* read once the beats of the last one are out.  The write engine's fences *)
(* are not followed here: their completions may come at any time.          *)

\* The first beat of a packet with the next k lines for tag t.
FirstBeat(t, k) ==
    LET r == host[t]
        remaining == r.lines - r.next
    IN [sop |-> TRUE, eop |-> k = 1, tag |-> t,
        dm_encoded |-> r.dm_encoded, fc |-> k = remaining,
        byte_count |-> IF r.dm_encoded THEN 0 ELSE remaining % LEN_WRAP,
        length |-> k % LEN_WRAP,
        payload |-> [addr |-> r.addr, line |-> r.next]]

HeaderlessBeat(last, payload) ==
    [sop |-> FALSE, eop |-> last, tag |-> 0, dm_encoded |-> FALSE,
     fc |-> FALSE, byte_count |-> 0, length |-> 0, payload |-> payload]

NextBeat ==
    HeaderlessBeat(packet.left = 1, [addr |-> packet.addr, line |-> packet.line])

FenceBeat(t) ==
    [sop |-> TRUE, eop |-> TRUE, tag |-> t, dm_encoded |-> FALSE, fc |-> TRUE,
     byte_count |-> 1, length |-> 1, payload |-> NoRsp]

\* The host's books after the first k of the lines left of tag t are sent.
HostSends(t, k) ==
    IF host[t].next + k = host[t].lines
    THEN [u \in DOMAIN host \ {t} |-> host[u]]
    ELSE [host EXCEPT ![t].next = @ + k]

\* The TLPs taken from tx_rd_tlps and atomic_cpl_tag reach the host; the
\* write engine sends an atomic request with the tag, and its answer is one
\* short packet, never DM encoded.
Sent(reg, tready) == IF reg # NoTlp /\ tready THEN {reg} ELSE {}

HostAccepts(books, tx_tready, atomic_tready, dm) ==
    LET reads == Sent(tx_rd_tlps, tx_tready)
        all == reads \union Sent(atomic_cpl_tag, atomic_tready)
    IN [t \in DOMAIN books \union {r.tag : r \in all} |->
          IF t \in DOMAIN books THEN books[t]
          ELSE LET r == CHOOSE r \in all : r.tag = t
               IN [addr |-> r.addr, lines |-> r.lines, next |-> 0,
                   dm_encoded |-> dm /\ r \in reads]]

\* What the host may do with the completion stream when it is free.
Idle == [kind |-> "idle"]
Continue == [kind |-> "continue"]
Fence == [kind |-> "fence"]
Answer(t, k) == [kind |-> "answer", tag |-> t, lines |-> k]
HostChoices ==
    {Idle, Continue, Fence}
      \union {Answer(t, k) : t \in DOMAIN host, k \in 1..MAX_PAYLOAD_LINES}

HostContinues ==
    /\ packet # NoBeat
    /\ rx_cpl_tlps' = NextBeat
    /\ packet' = IF packet.left = 1 THEN NoBeat
                 ELSE [packet EXCEPT !.left = @ - 1, !.line = @ + 1]

HostSendsFence ==
    /\ packet = NoBeat
    /\ rx_cpl_tlps' = FenceBeat(0)
    /\ UNCHANGED packet

HostAnswers(t, k) ==
    /\ packet = NoBeat
    /\ k <= host[t].lines - host[t].next
    /\ rx_cpl_tlps' = FirstBeat(t, k)
    /\ packet' = IF k = 1 THEN NoBeat
                 ELSE [left |-> k - 1, addr |-> host[t].addr, line |-> host[t].next + 1]

-----------------------------------------------------------------------------

Init ==
    /\ UidInit
    /\ afu_req_fifo = Fifo2Empty(NoReq)
    /\ rd_meta = [t \in t_uid |-> NoReq]
    /\ track_ready = FALSE /\ track_waddr = 0
    /\ rd_rsp_tracker = [t \in t_uid |-> MAX_PAYLOAD_LINES]
    /\ tx_rd_tlps = NoTlp /\ atomic_cpl_tag = NoTlp
    /\ reg_afu_rd_rsp = NoCpl /\ reg_afu_rd_rsp_tlp_tag = 0
    /\ afu_rd_rsp = NoRsp /\ wr_fence_cpl_reg_valid = FALSE
    /\ rx_cpl_tlps = NoBeat /\ packet = NoBeat
    /\ host = [t \in {} |-> NoReq]
    /\ owed = [t \in {} |-> NoReq]

\* The read engine's registers and memories at an edge in operation.  The
\* inputs are the AFU's request, if any, and the four ready signals.
Engine(req, tx_tready, atomic_tready, afu_tready, wr_rsp_notFull) ==
    LET deq == rd_req_deq(tx_tready, atomic_tready)
    IN /\ UidEdge(deq, free_tlp_tag(afu_tready), reg_afu_rd_rsp_tlp_tag)
       /\ afu_req_fifo' = Fifo2Next(afu_req_fifo, req # NoReq, req, deq)
       /\ RequestRegs(tx_tready, atomic_tready)
       /\ rd_meta' = RdMetaNext(deq)
       /\ track_ready' = (track_ready \/ track_waddr = N_ENTRIES - 1)
       /\ track_waddr' = IF track_ready \/ track_waddr = N_ENTRIES - 1
                         THEN 0 ELSE track_waddr + 1
       /\ rd_rsp_tracker' = RdRspTrackerNext(afu_tready)
       /\ ResponseRegs(afu_tready)
       /\ FenceReg(afu_tready, wr_rsp_notFull)

\* What the AFU waits for after it takes a response and makes a request.
AfuBooks(req, afu_tready) ==
    LET taken == afu_rd_rsp # NoRsp /\ afu_tready
        t == afu_rd_rsp.tag
        books == IF ~taken THEN owed
                 ELSE IF owed[t].next + 1 = owed[t].lines
                 THEN [u \in DOMAIN owed \ {t} |-> owed[u]]
                 ELSE [owed EXCEPT ![t].next = @ + 1]
    IN owed' = IF req = NoReq THEN books
               ELSE [u \in DOMAIN books \union {req.tag} |->
                       IF u = req.tag THEN [lines |-> req.line_count, next |-> 0]
                       ELSE books[u]]

\* A beat is offered until it is accepted; then the host does what it chose.
HostEdge(tx_tready, atomic_tready, afu_tready, choice, dm) ==
    LET free == rx_cpl_tlps = NoBeat \/ rx_tready(afu_tready)
        Accepted(books) == HostAccepts(books, tx_tready, atomic_tready, dm)
    IN /\ ~free => choice = Idle
       /\ dm => tx_rd_tlps # NoTlp /\ tx_tready
       /\ \/ /\ choice = Idle
             /\ rx_cpl_tlps' = (IF free THEN NoBeat ELSE rx_cpl_tlps)
             /\ UNCHANGED packet
             /\ host' = Accepted(host)
          \/ /\ choice = Continue /\ HostContinues
             /\ host' = Accepted(host)
          \/ /\ choice = Fence /\ HostSendsFence
             /\ host' = Accepted(host)
          \/ /\ choice.kind = "answer"
             /\ HostAnswers(choice.tag, choice.lines)
             /\ host' = Accepted(HostSends(choice.tag, choice.lines))

\* An edge with the given ready signals and choice of the host; the AFU's
\* requests and the encoding of a read that goes out are free.
EdgeWith(tx_tready, atomic_tready, afu_tready, wr_rsp_notFull, choice) ==
    /\ \E dm \in BOOLEAN : HostEdge(tx_tready, atomic_tready, afu_tready, choice, dm)
    /\ \E req \in Requests \union {NoReq} :
         /\ req # NoReq => Fifo2NotFull(afu_req_fifo) /\ req.tag \notin DOMAIN owed
         /\ Engine(req, tx_tready, atomic_tready, afu_tready, wr_rsp_notFull)
         /\ AfuBooks(req, afu_tready)

\* A ready signal with nothing to accept has no effect and is fixed.
Cycle ==
    \E tx_tready, atomic_tready, afu_tready, wr_rsp_notFull \in BOOLEAN,
       choice \in HostChoices :
      /\ tx_rd_tlps = NoTlp => ~tx_tready
      /\ atomic_cpl_tag = NoTlp => ~atomic_tready
      /\ afu_rd_rsp = NoRsp => ~afu_tready
      /\ ~wr_fence_cpl_reg_valid => ~wr_rsp_notFull
      /\ EdgeWith(tx_tready, atomic_tready, afu_tready, wr_rsp_notFull, choice)

\* An edge with reset_n low.  The memories and the register without a reset
\* are not reset: they take what the inputs of this edge give them.  The AFU
\* and the host are reset with the engine.
Reset ==
    /\ \E tx_tready, atomic_tready, afu_tready \in BOOLEAN :
         /\ UidReset(free_tlp_tag(afu_tready), reg_afu_rd_rsp_tlp_tag)
         /\ rd_meta' = RdMetaNext(rd_req_deq(tx_tready, atomic_tready))
         /\ rd_rsp_tracker' = RdRspTrackerNext(afu_tready)
         /\ reg_afu_rd_rsp_tlp_tag' = CplTagNext(afu_tready)
    /\ afu_req_fifo' = Fifo2Empty(NoReq)
    /\ track_ready' = FALSE /\ track_waddr' = 0
    /\ tx_rd_tlps' = NoTlp /\ atomic_cpl_tag' = NoTlp
    /\ reg_afu_rd_rsp' = NoCpl /\ afu_rd_rsp' = NoRsp
    /\ wr_fence_cpl_reg_valid' = FALSE
    /\ rx_cpl_tlps' = NoBeat /\ packet' = NoBeat
    /\ host' = [t \in {} |-> NoReq]
    /\ owed' = [t \in {} |-> NoReq]

Next == Cycle \/ Reset

Spec == Init /\ [][Next]_vars

\* Fairness.  The clock ticks; the arbiter accepts each TLP and the write
\* engine each atomic tag and each fence completion; the AFU accepts each
\* response; the host finishes each packet and answers each read.
TlpSent ==
    /\ tx_rd_tlps # NoTlp
    /\ \E at, afu, room \in BOOLEAN, choice \in HostChoices :
         EdgeWith(TRUE, at, afu, room, choice)
AtomicTagTaken ==
    /\ atomic_cpl_tag # NoTlp
    /\ \E tx, afu, room \in BOOLEAN, choice \in HostChoices :
         EdgeWith(tx, TRUE, afu, room, choice)
AfuTakes ==
    /\ afu_rd_rsp # NoRsp
    /\ \E tx, at, room \in BOOLEAN, choice \in HostChoices :
         EdgeWith(tx, at, TRUE, room, choice)
FenceTaken ==
    /\ wr_fence_cpl_reg_valid
    /\ \E tx, at, afu \in BOOLEAN, choice \in HostChoices :
         EdgeWith(tx, at, afu, TRUE, choice)
HostFinishes ==
    /\ packet # NoBeat
    /\ \E tx, at, afu, room \in BOOLEAN : EdgeWith(tx, at, afu, room, Continue)
HostProgress(t) ==
    /\ t \in DOMAIN host
    /\ \E k \in 1..MAX_PAYLOAD_LINES, tx, at, afu, room \in BOOLEAN :
         EdgeWith(tx, at, afu, room, Answer(t, k))

FairSpec ==
    /\ Spec
    /\ WF_vars(Cycle) /\ WF_vars(TlpSent) /\ WF_vars(AtomicTagTaken)
    /\ WF_vars(FenceTaken) /\ WF_vars(AfuTakes) /\ WF_vars(HostFinishes)
    /\ \A t \in Issuable : SF_vars(HostProgress(t))

-----------------------------------------------------------------------------
(* Properties.                                                             *)

TypeOK ==
    /\ UidTypeOK
    /\ afu_req_fifo \in Fifo2States(Requests \union {NoReq})
    /\ rd_meta \in [t_uid -> Metas \union {NoReq}]
    /\ track_ready \in BOOLEAN /\ track_waddr \in t_uid
    /\ rd_rsp_tracker \in [t_uid -> 0..MAX_PAYLOAD_LINES]
    /\ tx_rd_tlps \in Tlps \union {NoTlp} /\ atomic_cpl_tag \in Tlps \union {NoTlp}
    /\ reg_afu_rd_rsp \in Cpls \union {NoCpl} /\ reg_afu_rd_rsp_tlp_tag \in t_uid
    /\ afu_rd_rsp \in Rsps \union {NoRsp}
    /\ wr_fence_cpl_reg_valid \in BOOLEAN
    /\ rx_cpl_tlps \in Beats \union {NoBeat} /\ packet \in Packets \union {NoBeat}
    /\ DOMAIN host \subseteq Issuable /\ host \in [DOMAIN host -> HostReads]
    /\ DOMAIN owed \subseteq AfuTags /\ owed \in [DOMAIN owed -> Owed]

\* PCIe tags that name a read on its way to the host or at the host, with an
\* answer that is not complete.
Unanswered == {r.tag : r \in {tx_rd_tlps, atomic_cpl_tag} \ {NoTlp}} \union DOMAIN host

\* A PCIe tag is released only when the host is done with it, and while the
\* final line waits for the AFU the register that names the tag to release
\* is not overwritten by the next packet.
TagsOutliveCompletions ==
    /\ Unanswered \subseteq held
    /\ tx_rd_tlps # NoTlp /\ atomic_cpl_tag # NoTlp => tx_rd_tlps.tag # atomic_cpl_tag.tag
    /\ {r.tag : r \in {tx_rd_tlps, atomic_cpl_tag} \ {NoTlp}} \intersect DOMAIN host = {}
    /\ afu_rd_rsp # NoRsp /\ afu_rd_rsp.last =>
         /\ reg_afu_rd_rsp_tlp_tag \in held \ Unanswered
         /\ rd_meta[reg_afu_rd_rsp_tlp_tag].tag = afu_rd_rsp.tag

\* No tag leaks: each read that left the request FIFO and is not finished
\* holds one PCIe tag, and there are no others.
OneTagPerRead ==
    Cardinality(held) = Cardinality(DOMAIN owed) - Len(Fifo2Contents(afu_req_fifo))

\* While the write engine has not taken a fence completion the stream is
\* blocked, and so is the response register: it must be empty, or the AFU
\* would take its response again and again.
NoResponseBehindFence == wr_fence_cpl_reg_valid => afu_rd_rsp = NoRsp

\* A tag begins to count the lines of DM encoded completions from 0, also
\* when its last user was stopped by a reset.
CountsStartFromZero ==
    track_ready =>
      \A t \in t_uid \ held : rd_rsp_tracker[t] = 0

\* The AFU gets the lines of every read in order, once and with their own
\* data, although the host splits and interleaves the answers, the two
\* encodings number the lines differently and the tags are used again.
Port == INSTANCE ReadPort WITH MaxLines <- MAX_PAYLOAD_LINES, rsp <- afu_rd_rsp

LinesInOrder == Port!PortSpec

\* Every read is answered, unless a reset comes first.
EveryReadIsAnswered == \A t \in AfuTags : t \in DOMAIN owed ~> t \notin DOMAIN owed

=============================================================================
