---------------------------- MODULE ReadTlpsProofs ----------------------------
(***************************************************************************)
(* Proofs about the PCIe read engine, for any number of PCIe tags, AFU     *)
(* tags and fence tags, any packet size and any way in which the host      *)
(* splits, interleaves and encodes its answers: a tag outlives the answer  *)
(* to its read, none leaks, and the AFU gets the lines of each read in     *)
(* order.                                                                  *)
(*                                                                         *)
(* The invariant follows the lines of one read, by its PCIe tag.  What the *)
(* host has put into packets (Answered) is with the AFU (Given), on the    *)
(* port, on the stream or in the packet under way (InRsp, InRx, InPacket), *)
(* in this order.  An edge moves a line from one of these places to the    *)
(* next; the lemma Flows says how many, and the rest of the invariant says *)
(* which line is in each place and which header, count and register there  *)
(* name it.                                                                *)
(***************************************************************************)
EXTENDS ReadTlps, UidProofs, FiniteSetTheorems

-----------------------------------------------------------------------------
(* The invariant                                                           *)

\* The AFU's tag and length of the read with PCIe tag t, and how many of its
\* lines the AFU has taken.
Addr(t) == rd_meta[t].tag
Lines(t) == rd_meta[t].line_count
Given(t) == owed[Addr(t)].next

AtTx(t) == tx_rd_tlps # NoTlp /\ tx_rd_tlps.tag = t
AtAtomic(t) == atomic_cpl_tag # NoTlp /\ atomic_cpl_tag.tag = t

\* How many of its lines the host has put into packets.
Answered(t) ==
    IF AtTx(t) \/ AtAtomic(t) THEN 0
    ELSE IF t \in DOMAIN host THEN host[t].next ELSE Lines(t)

\* The PCIe tags of the response on the port, of the line on the stream and of
\* the packet that it begins or continues.
RspTag == reg_afu_rd_rsp_tlp_tag
IsLine == rx_cpl_tlps # NoBeat /\ ~(rx_cpl_tlps.sop /\ IsWrFence(rx_cpl_tlps.tag))
RxTag == IF rx_cpl_tlps.sop THEN rx_cpl_tlps.tag ELSE RspTag
PacketTag == IF rx_cpl_tlps = NoBeat THEN RspTag ELSE RxTag

\* How many lines of t are there.
InRsp(t) == IF afu_rd_rsp # NoRsp /\ t = RspTag THEN 1 ELSE 0
InRx(t) == IF IsLine /\ t = RxTag THEN 1 ELSE 0
InPacket(t) == IF packet # NoBeat /\ t = PacketTag THEN packet.left ELSE 0

\* The memory of the line counts is initialized along with the one of tags.
Together == track_ready = test_ready /\ track_waddr = waddr_init

\* A request in the FIFO has not begun and has no PCIe tag yet.
Queued(r) ==
    /\ r \in Requests /\ r.tag \in DOMAIN owed
    /\ owed[r.tag] = [lines |-> r.line_count, next |-> 0]
    /\ \A t \in held : Addr(t) # r.tag

RequestQueue ==
    /\ Fifo2InOrder(afu_req_fifo)
    /\ \A s \in 0..1 : afu_req_fifo.valid[s] => Queued(afu_req_fifo.data[s])
    /\ afu_req_fifo.valid[0] => afu_req_fifo.data[0].tag # afu_req_fifo.data[1].tag

\* A PCIe tag in use leads to one read that the AFU waits for.
Reads ==
    /\ \A t \in held : /\ rd_meta[t] \in Metas /\ Addr(t) \in DOMAIN owed
                       /\ owed[Addr(t)].lines = Lines(t)
    /\ \A t, u \in held : Addr(t) = Addr(u) => t = u
    /\ \A a \in DOMAIN owed : owed[a].next < owed[a].lines
    /\ IsFiniteSet(DOMAIN owed)

\* It is at TX, given to the write engine for an atomic request, or known to
\* the host, and only in one of these places.
OnTheWay ==
    /\ \A t \in t_uid : AtTx(t) => /\ t \in held /\ ~AtAtomic(t) /\ t \notin DOMAIN host
                         /\ tx_rd_tlps.addr = Addr(t) /\ tx_rd_tlps.lines = Lines(t)
    /\ \A t \in t_uid : AtAtomic(t) => /\ t \in held /\ t \notin DOMAIN host
                             /\ atomic_cpl_tag.addr = Addr(t)
                             /\ atomic_cpl_tag.lines = Lines(t)
    /\ \A t \in DOMAIN host : /\ t \in held /\ host[t].next < host[t].lines
                              /\ host[t].addr = Addr(t) /\ host[t].lines = Lines(t)

\* The lines of a read that the host has sent are with the AFU, on the port, on
\* the stream or in the packet under way, in this order.
InOrder == \A t \in held : Given(t) + InRsp(t) + InRx(t) + InPacket(t) = Answered(t)

RspIsNext ==
    afu_rd_rsp # NoRsp =>
      /\ RspTag \in held
      /\ afu_rd_rsp = [tag |-> Addr(RspTag), line_idx |-> Given(RspTag),
                       last |-> Given(RspTag) + 1 = Lines(RspTag),
                       payload |-> [addr |-> Addr(RspTag), line |-> Given(RspTag)]]

BeatIsNext ==
    /\ IsLine => /\ RxTag \in held /\ rx_cpl_tlps.payload.addr = Addr(RxTag)
                 /\ rx_cpl_tlps.payload \in Payloads
                 /\ rx_cpl_tlps.payload.line = Given(RxTag) + InRsp(RxTag)
    /\ rx_cpl_tlps # NoBeat => (rx_cpl_tlps.eop <=> packet = NoBeat)
    /\ rx_cpl_tlps # NoBeat /\ ~IsLine => rx_cpl_tlps.eop

PacketIsNext ==
    packet # NoBeat =>
      /\ PacketTag \in held /\ packet.addr = Addr(PacketTag)
      /\ packet.line = Given(PacketTag) + InRsp(PacketTag) + InRx(PacketTag)

\* What the header of a packet says of its lines.
Header ==
    IsLine /\ rx_cpl_tlps.sop =>
      /\ rx_cpl_tlps.fc <=> RxTag \notin DOMAIN host
      /\ ~rx_cpl_tlps.dm_encoded =>
           rx_cpl_tlps.byte_count = (Lines(RxTag) - rx_cpl_tlps.payload.line) % LEN_WRAP
      /\ ~rx_cpl_tlps.fc => rx_cpl_tlps.length = 1 + InPacket(RxTag)

\* A packet is open when its first beat has been accepted and its last has not.
Open == IF rx_cpl_tlps = NoBeat THEN packet # NoBeat ELSE ~rx_cpl_tlps.sop
OpenLine == IF rx_cpl_tlps = NoBeat THEN packet.line ELSE rx_cpl_tlps.payload.line

InProgress ==
    IF Open THEN /\ reg_afu_rd_rsp # NoCpl
                 /\ reg_afu_rd_rsp.is_last <=> RspTag \notin DOMAIN host
                 /\ reg_afu_rd_rsp.tag = Addr(RspTag)
                 /\ reg_afu_rd_rsp.line_idx + 1 = OpenLine
    ELSE reg_afu_rd_rsp = NoCpl

\* The count of a tag is what the host has sent of its read, up to the header
\* that is waiting.
Counted(t) ==
    IF IsLine /\ rx_cpl_tlps.sop /\ t = rx_cpl_tlps.tag THEN rx_cpl_tlps.payload.line
    ELSE IF t \in DOMAIN host THEN host[t].next ELSE 0

Counts ==
    \A t \in t_uid : track_ready \/ t < track_waddr => rd_rsp_tracker[t] = Counted(t)

RInv ==
    /\ IInv /\ TypeOK /\ Together /\ NoResponseBehindFence /\ RequestQueue /\ Reads
    /\ OnTheWay /\ InOrder /\ RspIsNext /\ BeatIsNext /\ PacketIsNext /\ Header
    /\ InProgress /\ Counts /\ OneTagPerRead

-----------------------------------------------------------------------------
(* One edge in operation, with its inputs.                                 *)

Edge(req, tr, at, ar, room, choice, dm) ==
    /\ RInv
    /\ tr \in BOOLEAN /\ at \in BOOLEAN /\ ar \in BOOLEAN /\ dm \in BOOLEAN
    /\ room \in BOOLEAN
    /\ tr => tx_rd_tlps # NoTlp
    /\ at => atomic_cpl_tag # NoTlp
    /\ ar => afu_rd_rsp # NoRsp
    /\ choice \in HostChoices
    /\ HostEdge(tr, at, ar, choice, dm)
    /\ req \in Requests \union {NoReq}
    /\ req # NoReq => Fifo2NotFull(afu_req_fifo) /\ req.tag \notin DOMAIN owed
    /\ Engine(req, tr, at, ar, room)
    /\ AfuBooks(req, ar)

\* The read whose last line the AFU takes gives up its PCIe tag.
Live(ar, t) == t \in held /\ ~(free_tlp_tag(ar) /\ t = RspTag)

\* A line is taken by the AFU, passes from the stream to the port, comes to the
\* stream; lines are put into a packet.
Took(ar, t) == IF ar /\ t = RspTag THEN 1 ELSE 0
Passed(ar, t) == IF BeatAccepted(ar) /\ IsLine /\ t = RxTag THEN 1 ELSE 0
Answers(choice, t) == choice.kind = "answer" /\ choice.tag = t
Came(choice, t) ==
    IF (choice = Continue /\ t = PacketTag) \/ Answers(choice, t) THEN 1 ELSE 0
Packed(choice, t) == IF Answers(choice, t) THEN choice.lines ELSE 0

-----------------------------------------------------------------------------
(* Reads and their PCIe tags.                                              *)

\* The lengths of reads.
LEMMA LengthsInRange ==
    /\ MAX_PAYLOAD_LINES \in Nat /\ 0 \in LineIdxs
    /\ \A n \in Lengths : n \in 1..MAX_PAYLOAD_LINES
<1>1. MAX_PAYLOAD_LINES \in Nat \ {0}
  BY ReadTlpsAssumption
<1>2. \A n \in LineCounts : n \in 1..MAX_PAYLOAD_LINES
  BY ReadTlpsAssumption
<1>3. 1 \in 1..MAX_PAYLOAD_LINES
  BY <1>1
<1>4. 0 \in LineIdxs
  BY <1>1 DEF LineIdxs
<1> QED
  BY <1>1, <1>2, <1>3, <1>4 DEF Lengths

\* What the invariant says of a read with a PCIe tag.
LEMMA HeldRead ==
    ASSUME RInv, NEW t \in held
    PROVE  /\ t \in Issuable /\ t \in t_uid /\ ~IsWrFence(t)
           /\ rd_meta[t] \in Metas /\ Addr(t) \in AfuTags /\ Addr(t) \in DOMAIN owed
           /\ Lines(t) \in Lengths /\ Lines(t) \in 1..MAX_PAYLOAD_LINES
           /\ owed[Addr(t)] \in Owed /\ owed[Addr(t)].lines = Lines(t)
           /\ Given(t) \in LineIdxs /\ Given(t) \in Nat /\ Given(t) < Lines(t)
           /\ Answered(t) \in Nat
           /\ InRsp(t) \in 0..1 /\ InRx(t) \in 0..1 /\ InPacket(t) \in Nat
           /\ Given(t) + InRsp(t) + InRx(t) + InPacket(t) = Answered(t)
           /\ Answered(t) <= Lines(t)
           /\ t \in DOMAIN host => /\ Answered(t) = host[t].next /\ Answered(t) < Lines(t)
                                   /\ ~AtTx(t) /\ ~AtAtomic(t)
           /\ (AtTx(t) \/ AtAtomic(t)) => Answered(t) = 0
<1>1. IInv /\ TypeOK /\ Reads /\ InOrder /\ OnTheWay
  BY DEF RInv
<1>2. held \subseteq Issuable
  BY <1>1 DEF IInv, UidsAreExclusive
<1>3. t \in Issuable /\ t \in t_uid /\ ~IsWrFence(t)
  BY <1>2, UidAssumption DEF Issuable, t_uid, IsWrFence
<1>4. /\ rd_meta[t] \in Metas /\ Addr(t) \in AfuTags /\ Addr(t) \in DOMAIN owed
      /\ Lines(t) \in Lengths /\ owed[Addr(t)].lines = Lines(t)
      /\ owed[Addr(t)].next < owed[Addr(t)].lines
  BY <1>1 DEF Reads, Metas, Addr, Lines
<1>5. owed[Addr(t)] \in Owed
  BY <1>1, <1>4 DEF TypeOK
<1>6. Lines(t) \in 1..MAX_PAYLOAD_LINES
  BY <1>4, LengthsInRange
<1>7. Given(t) \in LineIdxs /\ Given(t) \in Nat /\ Given(t) < Lines(t)
  BY <1>4, <1>5, ReadTlpsAssumption DEF Owed, Given, LineIdxs
<1>8. t \in DOMAIN host => /\ host[t] \in HostReads /\ host[t].next \in Nat
                           /\ host[t].next < Lines(t)
  BY <1>1, ReadTlpsAssumption DEF TypeOK, OnTheWay, HostReads, LineIdxs
<1>9. InRsp(t) \in 0..1 /\ InRx(t) \in 0..1
  BY DEF InRsp, InRx
<1>10. InPacket(t) \in Nat
  <2>1. packet # NoBeat => packet.left \in Nat
    BY <1>1, ReadTlpsAssumption DEF TypeOK, Packets, LineIdxs
  <2> QED
    BY <2>1 DEF InPacket
<1>11. t \in DOMAIN host => ~AtTx(t) /\ ~AtAtomic(t)
  BY <1>1, <1>3 DEF OnTheWay
<1>12. /\ Answered(t) \in Nat /\ Answered(t) <= Lines(t)
       /\ t \in DOMAIN host => Answered(t) = host[t].next /\ Answered(t) < Lines(t)
       /\ (AtTx(t) \/ AtAtomic(t)) => Answered(t) = 0
  BY <1>6, <1>8, <1>11 DEF Answered
<1>13. Given(t) + InRsp(t) + InRx(t) + InPacket(t) = Answered(t)
  BY <1>1 DEF InOrder
<1> QED
  BY <1>3, <1>4, <1>5, <1>6, <1>7, <1>9, <1>10, <1>11, <1>12, <1>13

\* Different reads in flight have different AFU tags, and so has the response
\* on the port: only one is freed, when its last line is taken.
LEMMA FreedRead ==
    ASSUME NEW req, NEW tr, NEW at, NEW ar, NEW room, NEW choice, NEW dm,
           Edge(req, tr, at, ar, room, choice, dm)
    PROVE  /\ free_tlp_tag(ar) \in BOOLEAN
           /\ ar => /\ RspTag \in held /\ InRsp(RspTag) = 1
                    /\ afu_rd_rsp.tag = Addr(RspTag)
                    /\ free_tlp_tag(ar) <=> Given(RspTag) + 1 = Lines(RspTag)
           /\ free_tlp_tag(ar) =>
                /\ ar /\ RspTag \in held /\ InRx(RspTag) = 0 /\ InPacket(RspTag) = 0
                /\ RspTag \notin DOMAIN host /\ ~AtTx(RspTag) /\ ~AtAtomic(RspTag)
<1>1. RInv /\ RspIsNext /\ ar \in BOOLEAN /\ (ar => afu_rd_rsp # NoRsp)
  BY DEF Edge, RInv
<1>2. ar => /\ RspTag \in held /\ InRsp(RspTag) = 1 /\ afu_rd_rsp.tag = Addr(RspTag)
            /\ afu_rd_rsp.last = (Given(RspTag) + 1 = Lines(RspTag))
  BY <1>1 DEF RspIsNext, InRsp
<1>3. free_tlp_tag(ar) = (ar /\ Given(RspTag) + 1 = Lines(RspTag))
  BY <1>1, <1>2 DEF free_tlp_tag
<1>4. ASSUME ar, Given(RspTag) + 1 = Lines(RspTag)
      PROVE  /\ InRx(RspTag) = 0 /\ InPacket(RspTag) = 0
             /\ RspTag \notin DOMAIN host /\ ~AtTx(RspTag) /\ ~AtAtomic(RspTag)
  <2> DEFINE t == RspTag
  <2>1. t \in held /\ InRsp(t) = 1
    BY <1>2, <1>4
  <2> HIDE DEF t
  <2>2. /\ Given(t) \in Nat /\ Answered(t) \in Nat /\ Lines(t) \in 1..MAX_PAYLOAD_LINES
        /\ InRx(t) \in 0..1 /\ InPacket(t) \in Nat
        /\ Given(t) + InRsp(t) + InRx(t) + InPacket(t) = Answered(t)
        /\ Answered(t) <= Lines(t)
        /\ t \in DOMAIN host => Answered(t) < Lines(t)
        /\ (AtTx(t) \/ AtAtomic(t)) => Answered(t) = 0
    BY <1>1, <2>1, HeldRead
  <2>3. Given(t) + 1 = Lines(t)
    BY <1>4 DEF t
  <2>4. InRx(t) = 0 /\ InPacket(t) = 0 /\ t \notin DOMAIN host /\ ~AtTx(t) /\ ~AtAtomic(t)
    BY <2>1, <2>2, <2>3, ReadTlpsAssumption
  <2> QED
    BY <2>4 DEF t
<1> QED
  BY <1>1, <1>2, <1>3, <1>4

\* The head of the request FIFO.
LEMMA HeadRequest ==
    ASSUME RInv
    PROVE  /\ afu_req_fifo \in Fifo2States(Requests \union {NoReq})
           /\ Fifo2InOrder(afu_req_fifo)
           /\ rd_req_notEmpty = afu_req_fifo.valid[1] /\ rd_req_notEmpty \in BOOLEAN
           /\ rd_req_notEmpty =>
                /\ Queued(rd_req) /\ rd_req = afu_req_fifo.data[1]
                /\ rd_req \in Requests /\ rd_req.tag \in AfuTags
                /\ rd_req.line_count \in Lengths /\ rd_req.is_atomic \in BOOLEAN
                /\ rd_req.is_atomic => rd_req.line_count = 1
<1>1. TypeOK /\ RequestQueue
  BY DEF RInv
<1>2. \A r \in Requests : rd_req = r =>
        /\ r.tag \in AfuTags /\ r.is_atomic \in BOOLEAN
        /\ r.line_count \in Lengths /\ (r.is_atomic => r.line_count = 1)
  BY DEF Requests, Lengths
<1>3. rd_req_notEmpty = afu_req_fifo.valid[1] /\ rd_req_notEmpty \in BOOLEAN
  BY <1>1 DEF rd_req_notEmpty, Fifo2NotEmpty, TypeOK, Fifo2States
<1>4. rd_req_notEmpty => Queued(rd_req) /\ rd_req = afu_req_fifo.data[1]
  <2>1. \A s \in 0..1 : afu_req_fifo.valid[s] => Queued(afu_req_fifo.data[s])
    BY <1>1 DEF RequestQueue
  <2>2. rd_req = afu_req_fifo.data[1] /\ 1 \in 0..1
    BY DEF rd_req, Fifo2First
  <2>3. afu_req_fifo.valid[1] => Queued(afu_req_fifo.data[1])
    BY <2>1, <2>2
  <2> QED
    BY <1>3, <2>2, <2>3
<1> QED
  BY <1>1, <1>2, <1>3, <1>4 DEF TypeOK, RequestQueue, Queued

\* The generator of the PCIe tags and the memory they lead to: a request that
\* leaves the FIFO gets a tag that is not in use.
LEMMA TagEdge ==
    ASSUME NEW req, NEW tr, NEW at, NEW ar, NEW room, NEW choice, NEW dm,
           Edge(req, tr, at, ar, room, choice, dm)
    PROVE  /\ IInv' /\ Together'
           /\ rd_req_deq(tr, at) \in BOOLEAN
           /\ rd_req_notEmpty /\ alloc_ready =>
                (rd_req_deq(tr, at) <=>
                   IF rd_req.is_atomic THEN Accepts(atomic_cpl_tag, NoTlp, at)
                   ELSE Accepts(tx_rd_tlps, NoTlp, tr))
           /\ rd_req_deq(tr, at) =>
                /\ rd_req_notEmpty /\ alloc_ready /\ track_ready
                /\ alloc_uid \in Issuable /\ alloc_uid \in t_uid /\ alloc_uid \notin held
                /\ rd_meta'[alloc_uid] =
                     [tag |-> rd_req.tag, line_count |-> rd_req.line_count]
           /\ \A t : t \in held' <=> \/ Live(ar, t)
                                     \/ rd_req_deq(tr, at) /\ t = alloc_uid
           /\ \A t \in held : rd_meta'[t] = rd_meta[t]
           /\ rd_meta' \in [t_uid -> Metas \union {NoReq}]
<1>1. IInv /\ TypeOK /\ Together /\ RInv
  BY DEF Edge, RInv
<1> DEFINE deq == rd_req_deq(tr, at)
           free == free_tlp_tag(ar)
<1>2. free \in BOOLEAN /\ (free => RspTag \in held) /\ RspTag \in t_uid
  BY <1>1, FreedRead DEF TypeOK, RspTag
<1>3. alloc_ready => track_ready
  BY <1>1 DEF IInv, Clearing, Together, alloc_ready, Fifo2NotEmpty
<1>4. deq \in BOOLEAN
  <2>1. rd_req_notEmpty \in BOOLEAN /\ (rd_req_notEmpty => rd_req.is_atomic \in BOOLEAN)
    BY <1>1, HeadRequest
  <2>2. tr \in BOOLEAN /\ at \in BOOLEAN
    BY DEF Edge
  <2> QED
    BY <2>1, <2>2 DEF rd_req_deq, Accepts
<1>5. UidEdge(deq, free, RspTag)
  BY DEF Edge, Engine, RspTag
<1>6. IInv'
  <2> HIDE DEF deq, free
  <2> QED
    BY <1>1, <1>2, <1>4, <1>5, EdgeInvariant
<1>7. Together'
  BY <1>1 DEF Together, Edge, Engine, UidEdge
<1>8. rd_req_notEmpty /\ alloc_ready =>
        (deq <=> IF rd_req.is_atomic THEN Accepts(atomic_cpl_tag, NoTlp, at)
                 ELSE Accepts(tx_rd_tlps, NoTlp, tr))
  BY <1>3 DEF rd_req_deq
<1>9. deq => rd_req_notEmpty /\ alloc_ready /\ track_ready
  BY DEF rd_req_deq
<1>10. deq => alloc_uid \in Issuable /\ alloc_uid \in t_uid /\ alloc_uid \notin held
  BY <1>1, <1>9, OfferedUid
<1>11. rd_meta' = RdMetaNext(deq)
  BY DEF Edge, Engine
<1>12. rd_meta \in [t_uid -> Metas \union {NoReq}]
  BY <1>1 DEF TypeOK
<1>13. deq => [tag |-> rd_req.tag, line_count |-> rd_req.line_count] \in Metas
  BY <1>1, <1>9, HeadRequest DEF Metas
<1>14. held' = (held \ (IF free THEN {RspTag} ELSE {}))
                 \union (IF deq THEN {alloc_uid} ELSE {})
  BY <1>5, <1>9 DEF UidEdge
<1>15. held \subseteq t_uid
  BY <1>1 DEF TypeOK, UidTypeOK
<1> HIDE DEF deq, free
<1>16. deq => rd_meta'[alloc_uid] = [tag |-> rd_req.tag, line_count |-> rd_req.line_count]
  BY <1>10, <1>11, <1>12 DEF RdMetaNext
<1>17. \A t \in held : rd_meta'[t] = rd_meta[t]
  BY <1>10, <1>11, <1>12, <1>15 DEF RdMetaNext
<1>18. rd_meta' \in [t_uid -> Metas \union {NoReq}]
  BY <1>10, <1>11, <1>12, <1>13 DEF RdMetaNext
<1>19. \A t : t \in held' <=> \/ Live(ar, t)
                              \/ deq /\ t = alloc_uid
  BY <1>2, <1>4, <1>10, <1>14 DEF Live, free
<1> QED
  BY <1>4, <1>6, <1>7, <1>8, <1>9, <1>10, <1>16, <1>17, <1>18, <1>19 DEF deq

\* What the AFU waits for: a line less for the response it takes, and what it
\* requests.
LEMMA OwedEdge ==
    ASSUME NEW req, NEW tr, NEW at, NEW ar, NEW room, NEW choice, NEW dm,
           Edge(req, tr, at, ar, room, choice, dm)
    PROVE  /\ \A a : a \in DOMAIN owed' <=>
                       \/ a \in DOMAIN owed /\ ~(free_tlp_tag(ar) /\ a = Addr(RspTag))
                       \/ req # NoReq /\ a = req.tag
           /\ \A a \in DOMAIN owed : ~(free_tlp_tag(ar) /\ a = Addr(RspTag)) =>
                owed'[a] = IF ar /\ a = Addr(RspTag)
                           THEN [lines |-> owed[a].lines, next |-> owed[a].next + 1]
                           ELSE owed[a]
           /\ req # NoReq => /\ req \in Requests /\ req.tag \in AfuTags \ DOMAIN owed
                             /\ owed'[req.tag] = [lines |-> req.line_count, next |-> 0]
                             /\ owed'[req.tag] \in Owed /\ req.line_count > 0
           /\ owed' = [a \in DOMAIN owed' |-> owed'[a]]
<1>1. TypeOK /\ RInv /\ ar \in BOOLEAN /\ (ar => afu_rd_rsp # NoRsp)
  BY DEF Edge, RInv
<1>2. /\ free_tlp_tag(ar) \in BOOLEAN
      /\ ar => /\ RspTag \in held /\ afu_rd_rsp.tag = Addr(RspTag)
               /\ free_tlp_tag(ar) <=> Given(RspTag) + 1 = Lines(RspTag)
      /\ free_tlp_tag(ar) => ar
  BY FreedRead
<1>3. ar => /\ Addr(RspTag) \in DOMAIN owed /\ owed[Addr(RspTag)] \in Owed
            /\ owed[Addr(RspTag)].lines = Lines(RspTag)
  BY <1>1, <1>2, HeldRead
<1> DEFINE x == Addr(RspTag)
           free == free_tlp_tag(ar)
           books == IF ~ar THEN owed
                    ELSE IF free THEN [u \in DOMAIN owed \ {x} |-> owed[u]]
                    ELSE [owed EXCEPT ![x].next = @ + 1]
<1>4. owed' = IF req = NoReq THEN books
              ELSE [u \in DOMAIN books \union {req.tag} |->
                      IF u = req.tag THEN [lines |-> req.line_count, next |-> 0]
                      ELSE books[u]]
  BY <1>1, <1>2, <1>3 DEF Edge, AfuBooks, Given
<1>5. owed \in [DOMAIN owed -> Owed] /\ DOMAIN owed \subseteq AfuTags
  BY <1>1 DEF TypeOK
<1>6. req # NoReq => /\ req \in Requests /\ req.tag \in AfuTags \ DOMAIN owed
                     /\ req.line_count \in Lengths
  BY DEF Edge, Requests, Lengths
<1>7. [owed[x] EXCEPT !.next = @ + 1] =
        [lines |-> owed[x].lines, next |-> owed[x].next + 1] \/ ~ar
  BY <1>3 DEF Owed
<1> HIDE DEF x, free
<1>8. /\ \A a : a \in DOMAIN books <=> a \in DOMAIN owed /\ ~(free /\ a = x)
      /\ \A a \in DOMAIN owed : ~(free /\ a = x) =>
           books[a] = IF ar /\ a = x
                      THEN [lines |-> owed[a].lines, next |-> owed[a].next + 1]
                      ELSE owed[a]
      /\ books = [a \in DOMAIN books |-> books[a]]
  <2>1. CASE ~ar
    BY <1>2, <1>5, <2>1 DEF free
  <2>2. CASE ar /\ free
    <3>1. books = [u \in DOMAIN owed \ {x} |-> owed[u]]
      BY <2>2
    <3> HIDE DEF books
    <3> QED
      BY <2>2, <3>1
  <2>3. CASE ar /\ ~free
    <3>1. books = [a \in DOMAIN owed |->
                     IF a = x THEN [lines |-> owed[x].lines, next |-> owed[x].next + 1]
                     ELSE owed[a]]
      BY <1>5, <1>7, <2>3
    <3> HIDE DEF books
    <3> QED
      BY <1>5, <2>3, <3>1
  <2> QED
    BY <1>1, <1>2, <2>1, <2>2, <2>3 DEF free
<1>9. req # NoReq => [lines |-> req.line_count, next |-> 0] \in Owed /\ req.line_count > 0
  <2>1. 0 \in LineIdxs
    BY LengthsInRange
  <2>2. req # NoReq => req.line_count \in Lengths
    BY <1>6
  <2> QED
    BY <2>1, <2>2, LengthsInRange DEF Owed
<1> HIDE DEF books
<1>10. /\ \A a : a \in DOMAIN owed' <=> \/ a \in DOMAIN books
                                        \/ req # NoReq /\ a = req.tag
       /\ \A a \in DOMAIN books : owed'[a] = books[a]
       /\ req # NoReq => owed'[req.tag] = [lines |-> req.line_count, next |-> 0]
       /\ owed' = [a \in DOMAIN owed' |-> owed'[a]]
  <2>1. CASE req = NoReq
    BY <1>4, <1>8, <2>1
  <2>2. CASE req # NoReq
    BY <1>4, <1>6, <1>8, <2>2
  <2> QED
    BY <2>1, <2>2
<1> QED
  BY <1>6, <1>8, <1>9, <1>10 DEF x, free

\* A read keeps its AFU tag while it keeps its PCIe tag.
LEMMA LiveRead ==
    ASSUME NEW req, NEW tr, NEW at, NEW ar, NEW room, NEW choice, NEW dm,
           Edge(req, tr, at, ar, room, choice, dm), NEW t, Live(ar, t)
    PROVE  /\ t \in held /\ t \in held' /\ Addr(t)' = Addr(t) /\ Lines(t)' = Lines(t)
           /\ Given(t)' = Given(t) + Took(ar, t)
           /\ Addr(t) \in DOMAIN owed' /\ owed'[Addr(t)].lines = Lines(t)
           /\ Given(t)' < Lines(t)
<1>1. RInv /\ Reads /\ t \in held /\ ~(free_tlp_tag(ar) /\ t = RspTag)
  BY DEF Edge, RInv, Live
<1>2. t \in held' /\ rd_meta'[t] = rd_meta[t]
  BY <1>1, TagEdge
<1>3. Addr(t)' = Addr(t) /\ Lines(t)' = Lines(t)
  BY <1>2 DEF Addr, Lines
<1>4. /\ Addr(t) \in DOMAIN owed /\ owed[Addr(t)] \in Owed
      /\ owed[Addr(t)].lines = Lines(t) /\ Given(t) \in Nat /\ Given(t) < Lines(t)
      /\ Lines(t) \in 1..MAX_PAYLOAD_LINES
  BY <1>1, HeldRead
<1>5. ar => /\ RspTag \in held
            /\ free_tlp_tag(ar) <=> Given(RspTag) + 1 = Lines(RspTag)
  BY FreedRead
<1>6. free_tlp_tag(ar) => ar
  BY FreedRead
<1>7. ar => (Addr(t) = Addr(RspTag) <=> t = RspTag)
  BY <1>1, <1>5 DEF Reads
<1>8. /\ Addr(t) \in DOMAIN owed'
      /\ owed'[Addr(t)] = IF ar /\ t = RspTag
                          THEN [lines |-> Lines(t), next |-> Given(t) + 1]
                          ELSE owed[Addr(t)]
  <2>1. ~(free_tlp_tag(ar) /\ Addr(t) = Addr(RspTag))
    BY <1>1, <1>6, <1>7
  <2>2. Addr(t) \in DOMAIN owed'
    BY <1>4, <2>1, OwedEdge
  <2>3. owed'[Addr(t)] = IF ar /\ Addr(t) = Addr(RspTag)
                         THEN [lines |-> owed[Addr(t)].lines, next |-> owed[Addr(t)].next + 1]
                         ELSE owed[Addr(t)]
    BY <1>4, <2>1, OwedEdge
  <2> QED
    BY <1>4, <1>7, <2>2, <2>3 DEF Given
<1>9. Given(t)' = owed'[Addr(t)].next
  BY <1>3 DEF Given
<1>10. Given(t)' = Given(t) + Took(ar, t) /\ owed'[Addr(t)].lines = Lines(t)
  BY <1>4, <1>8, <1>9 DEF Took, Given
<1>11. Given(t)' < Lines(t)
  BY <1>1, <1>4, <1>5, <1>10, ReadTlpsAssumption DEF Took
<1> QED
  BY <1>1, <1>2, <1>3, <1>8, <1>10, <1>11

\* A read that gets a PCIe tag has not been given anything.
LEMMA NewRead ==
    ASSUME NEW req, NEW tr, NEW at, NEW ar, NEW room, NEW choice, NEW dm,
           Edge(req, tr, at, ar, room, choice, dm), rd_req_deq(tr, at),
           NEW t, t = alloc_uid
    PROVE  /\ t \in held' /\ t \notin held /\ rd_meta'[t] \in Metas
           /\ Addr(t)' = rd_req.tag /\ Lines(t)' = rd_req.line_count /\ Given(t)' = 0
           /\ rd_req.tag \in DOMAIN owed' /\ rd_req.tag \in DOMAIN owed
           /\ owed'[rd_req.tag] = [lines |-> rd_req.line_count, next |-> 0]
           /\ \A u \in held : Addr(u) # rd_req.tag
           /\ rd_req.line_count > 0
<1>1. RInv
  BY DEF Edge
<1>2. /\ rd_req_notEmpty /\ t \in held' /\ t \notin held
      /\ rd_meta'[t] = [tag |-> rd_req.tag, line_count |-> rd_req.line_count]
  BY TagEdge
<1>3. Queued(rd_req) /\ rd_req.line_count \in Lengths /\ rd_req.tag \in AfuTags
  BY <1>1, <1>2, HeadRequest
<1>4. /\ rd_req.tag \in DOMAIN owed /\ \A u \in held : Addr(u) # rd_req.tag
      /\ owed[rd_req.tag] = [lines |-> rd_req.line_count, next |-> 0]
  BY <1>3 DEF Queued
<1>5. ar \in BOOLEAN /\ free_tlp_tag(ar) \in BOOLEAN
  BY FreedRead DEF Edge
<1>6. (ar \/ free_tlp_tag(ar)) => Addr(RspTag) # rd_req.tag
  BY <1>4, <1>5, FreedRead
<1>7. /\ rd_req.tag \in DOMAIN owed'
      /\ owed'[rd_req.tag] = [lines |-> rd_req.line_count, next |-> 0]
  <2>1. ~(free_tlp_tag(ar) /\ rd_req.tag = Addr(RspTag))
    BY <1>6
  <2>2. rd_req.tag \in DOMAIN owed'
    BY <1>4, <2>1, OwedEdge
  <2>3. owed'[rd_req.tag] = IF ar /\ rd_req.tag = Addr(RspTag)
                            THEN [lines |-> owed[rd_req.tag].lines,
                                  next |-> owed[rd_req.tag].next + 1]
                            ELSE owed[rd_req.tag]
    BY <1>4, <2>1, OwedEdge
  <2> QED
    BY <1>4, <1>6, <2>2, <2>3
<1>8. Addr(t)' = rd_req.tag /\ Lines(t)' = rd_req.line_count
  BY <1>2 DEF Addr, Lines
<1>9. Given(t)' = 0
  BY <1>7, <1>8 DEF Given
<1>10. rd_meta'[t] \in Metas /\ rd_req.line_count > 0
  BY <1>2, <1>3, LengthsInRange DEF Metas
<1> QED
  BY <1>2, <1>4, <1>7, <1>8, <1>9, <1>10

\* A PCIe tag in use after an edge is one that was or one that is new.
LEMMA HeldAfter ==
    ASSUME NEW req, NEW tr, NEW at, NEW ar, NEW room, NEW choice, NEW dm,
           Edge(req, tr, at, ar, room, choice, dm), NEW t \in held'
    PROVE  Live(ar, t) \/ (rd_req_deq(tr, at) /\ t = alloc_uid)
  BY TagEdge

\* The PCIe tags in use lead to different reads.
LEMMA ReadsEdge ==
    ASSUME NEW req, NEW tr, NEW at, NEW ar, NEW room, NEW choice, NEW dm,
           Edge(req, tr, at, ar, room, choice, dm)
    PROVE  Reads' /\ owed' \in [DOMAIN owed' -> Owed] /\ DOMAIN owed' \subseteq AfuTags
<1>1. RInv /\ TypeOK /\ Reads
  BY DEF Edge, RInv
<1>2. ASSUME NEW t \in held'
      PROVE  /\ rd_meta'[t] \in Metas /\ Addr(t)' \in DOMAIN owed'
             /\ owed'[Addr(t)'].lines = Lines(t)'
  <2>1. CASE Live(ar, t)
    <3>1. /\ t \in held /\ Addr(t)' = Addr(t) /\ Lines(t)' = Lines(t)
          /\ Addr(t) \in DOMAIN owed' /\ owed'[Addr(t)].lines = Lines(t)
      BY <2>1, LiveRead
    <3>2. rd_meta'[t] = rd_meta[t] /\ rd_meta[t] \in Metas
      BY <1>1, <3>1, TagEdge, HeldRead
    <3> QED
      BY <3>1, <3>2
  <2>2. CASE rd_req_deq(tr, at) /\ t = alloc_uid
    BY <2>2, NewRead
  <2> QED
    BY <2>1, <2>2, HeldAfter
<1>3. ASSUME NEW t \in held', NEW u \in held', Addr(t)' = Addr(u)' PROVE t = u
  <2>1. CASE Live(ar, t) /\ Live(ar, u)
    <3>1. t \in held /\ u \in held /\ Addr(t)' = Addr(t) /\ Addr(u)' = Addr(u)
      BY <2>1, LiveRead
    <3> QED
      BY <1>1, <1>3, <3>1 DEF Reads
  <2>2. CASE Live(ar, t) /\ rd_req_deq(tr, at) /\ u = alloc_uid
    <3>1. t \in held /\ Addr(t)' = Addr(t)
      BY <2>2, LiveRead
    <3> QED
      BY <1>3, <2>2, <3>1, NewRead
  <2>3. CASE Live(ar, u) /\ rd_req_deq(tr, at) /\ t = alloc_uid
    <3>1. u \in held /\ Addr(u)' = Addr(u)
      BY <2>3, LiveRead
    <3> QED
      BY <1>3, <2>3, <3>1, NewRead
  <2> QED
    BY <2>1, <2>2, <2>3, HeldAfter
<1>4. ASSUME NEW a \in DOMAIN owed'
      PROVE  owed'[a] \in Owed /\ owed'[a].next < owed'[a].lines
  <2>1. CASE a \in DOMAIN owed /\ ~(free_tlp_tag(ar) /\ a = Addr(RspTag))
    <3>1. owed'[a] = IF ar /\ a = Addr(RspTag)
                     THEN [lines |-> owed[a].lines, next |-> owed[a].next + 1]
                     ELSE owed[a]
      BY <2>1, OwedEdge
    <3>2. owed[a] \in Owed /\ owed[a].next < owed[a].lines
      BY <1>1, <2>1 DEF TypeOK, Reads
    <3>3. CASE ar /\ a = Addr(RspTag)
      <4>1. RspTag \in held /\ ~free_tlp_tag(ar) /\ Given(RspTag) + 1 # Lines(RspTag)
        BY <2>1, <3>3, FreedRead
      <4>2. /\ owed[a].lines = Lines(RspTag) /\ Given(RspTag) < Lines(RspTag)
            /\ Given(RspTag) \in Nat /\ Lines(RspTag) \in 1..MAX_PAYLOAD_LINES
            /\ Lines(RspTag) \in Lengths
        BY <1>1, <3>3, <4>1, HeldRead
      <4>3. Given(RspTag) + 1 \in LineIdxs /\ Given(RspTag) + 1 < Lines(RspTag)
        BY <4>1, <4>2, LengthsInRange DEF LineIdxs
      <4>4. owed'[a] = [lines |-> Lines(RspTag), next |-> Given(RspTag) + 1]
        BY <3>1, <3>3, <4>2 DEF Given
      <4> QED
        BY <4>2, <4>3, <4>4 DEF Owed
    <3> QED
      BY <3>1, <3>2, <3>3
  <2>2. CASE req # NoReq /\ a = req.tag
    <3>1. /\ owed'[a] \in Owed /\ owed'[a] = [lines |-> req.line_count, next |-> 0]
          /\ req.line_count > 0
      BY <2>2, OwedEdge
    <3> QED
      BY <3>1
  <2> QED
    BY <2>1, <2>2, OwedEdge
<1>5. DOMAIN owed' \subseteq AfuTags /\ IsFiniteSet(DOMAIN owed')
  <2>1. DOMAIN owed \subseteq AfuTags /\ IsFiniteSet(DOMAIN owed)
    BY <1>1 DEF TypeOK, Reads
  <2>2. DOMAIN owed' \subseteq DOMAIN owed \union {req.tag}
    BY OwedEdge
  <2>3. IsFiniteSet(DOMAIN owed \union {req.tag})
    BY <2>1, FS_AddElement
  <2>4. \A a \in DOMAIN owed' : a \in AfuTags
    BY <2>1, OwedEdge
  <2> QED
    BY <2>2, <2>3, <2>4, FS_Subset
<1>6. owed' \in [DOMAIN owed' -> Owed]
  <2>1. owed' = [a \in DOMAIN owed' |-> owed'[a]]
    BY OwedEdge
  <2> QED
    BY <1>4, <2>1
<1> QED
  BY <1>2, <1>3, <1>4, <1>5, <1>6 DEF Reads

\* The requests in the FIFO stay there as they are until they leave, and a new
\* one has a tag of its own.
LEMMA QueueEdge ==
    ASSUME NEW req, NEW tr, NEW at, NEW ar, NEW room, NEW choice, NEW dm,
           Edge(req, tr, at, ar, room, choice, dm)
    PROVE  /\ RequestQueue' /\ afu_req_fifo' \in Fifo2States(Requests \union {NoReq})
           /\ Len(Fifo2Contents(afu_req_fifo)) \in Nat
           /\ Len(Fifo2Contents(afu_req_fifo')) = Len(Fifo2Contents(afu_req_fifo))
                - (IF rd_req_deq(tr, at) THEN 1 ELSE 0) + (IF req # NoReq THEN 1 ELSE 0)
<1> DEFINE f == afu_req_fifo
           deq == rd_req_deq(tr, at)
           enq == req # NoReq
           Data == Requests \union {NoReq}
<1>1. RInv /\ RequestQueue
  BY DEF Edge, RInv
<1>2. /\ f \in Fifo2States(Data) /\ Fifo2InOrder(f)
      /\ f.valid[0] \in BOOLEAN /\ f.valid[1] \in BOOLEAN
      /\ rd_req = f.data[1] /\ rd_req_notEmpty = f.valid[1]
  BY <1>1, HeadRequest DEF Fifo2States, rd_req, Fifo2First
<1>3. f' = Fifo2Next(f, enq, req, deq)
  BY DEF Edge, Engine
<1>4. req \in Data /\ (enq => Fifo2NotFull(f))
  BY DEF Edge
<1>5. deq \in BOOLEAN /\ (deq => rd_req_notEmpty)
  BY TagEdge
<1>6. deq => Fifo2NotEmpty(f)
  BY <1>2, <1>5 DEF Fifo2NotEmpty
<1>7. enq \in BOOLEAN
  OBVIOUS
<1> HIDE DEF deq, Data, enq
<1>8. LET g == Fifo2Next(f, enq, req, deq)
      IN /\ g \in Fifo2States(Data) /\ Fifo2InOrder(g)
         /\ g.valid[0] = (f.valid[1] /\ ~deq /\ (f.valid[0] \/ enq))
         /\ g.valid[1] = (f.valid[0] \/ enq \/ (f.valid[1] /\ ~deq))
         /\ g.data[0] = IF f.valid[0] THEN f.data[0] ELSE req
         /\ g.data[1] = IF f.valid[1] /\ ~deq THEN f.data[1]
                        ELSE IF f.valid[0] THEN f.data[0] ELSE req
  BY <1>2, <1>4, <1>5, <1>6, <1>7, Fifo2Fields
<1>9. LET g == Fifo2Next(f, enq, req, deq)
      IN /\ Len(Fifo2Contents(f)) \in Nat
         /\ Len(Fifo2Contents(g)) = Len(Fifo2Contents(f))
              - (IF deq THEN 1 ELSE 0) + (IF enq THEN 1 ELSE 0)
  BY <1>2, <1>4, <1>5, <1>6, <1>7, Fifo2Length
<1>10. /\ f' \in Fifo2States(Data) /\ Fifo2InOrder(f')
       /\ f'.valid[0] = (f.valid[1] /\ ~deq /\ (f.valid[0] \/ enq))
       /\ f'.valid[1] = (f.valid[0] \/ enq \/ (f.valid[1] /\ ~deq))
       /\ f'.data[0] = IF f.valid[0] THEN f.data[0] ELSE req
       /\ f'.data[1] = IF f.valid[1] /\ ~deq THEN f.data[1]
                       ELSE IF f.valid[0] THEN f.data[0] ELSE req
       /\ Len(Fifo2Contents(f)) \in Nat
       /\ Len(Fifo2Contents(f')) = Len(Fifo2Contents(f))
            - (IF deq THEN 1 ELSE 0) + (IF enq THEN 1 ELSE 0)
  BY <1>3, <1>8, <1>9
<1>11. /\ f.valid[0] => f.valid[1] /\ f.data[0].tag # f.data[1].tag
       /\ f.valid[0] => Queued(f.data[0])
       /\ f.valid[1] => Queued(f.data[1])
       /\ enq => ~f.valid[0]
  BY <1>1, <1>2, <1>4 DEF RequestQueue, Fifo2InOrder, Fifo2NotFull
<1> DEFINE Stays(r) ==
             /\ r \in Requests /\ r.tag \in DOMAIN owed'
             /\ owed'[r.tag] = [lines |-> r.line_count, next |-> 0]
             /\ \A t \in held' : Addr(t)' # r.tag
<1>12. ASSUME NEW r, Queued(r), ~(deq /\ r.tag = rd_req.tag)
       PROVE  Stays(r)
  <2>1. /\ r \in Requests /\ r.tag \in DOMAIN owed
        /\ owed[r.tag] = [lines |-> r.line_count, next |-> 0]
        /\ \A t \in held : Addr(t) # r.tag
    BY <1>12 DEF Queued
  <2>2. ar \in BOOLEAN /\ free_tlp_tag(ar) \in BOOLEAN
    BY FreedRead DEF Edge
  <2>3. (ar \/ free_tlp_tag(ar)) => Addr(RspTag) # r.tag
    BY <2>1, <2>2, FreedRead
  <2>4. r.tag \in DOMAIN owed' /\ owed'[r.tag] = owed[r.tag]
    <3>1. ~(free_tlp_tag(ar) /\ r.tag = Addr(RspTag))
      BY <2>3
    <3>2. r.tag \in DOMAIN owed'
      BY <2>1, <3>1, OwedEdge
    <3>3. owed'[r.tag] = IF ar /\ r.tag = Addr(RspTag)
                         THEN [lines |-> owed[r.tag].lines, next |-> owed[r.tag].next + 1]
                         ELSE owed[r.tag]
      BY <2>1, <3>1, OwedEdge
    <3> QED
      BY <2>3, <3>2, <3>3
  <2>5. ASSUME NEW t \in held' PROVE Addr(t)' # r.tag
    <3>1. CASE Live(ar, t)
      BY <2>1, <3>1, LiveRead
    <3>2. CASE deq /\ t = alloc_uid
      <4>1. Addr(t)' = rd_req.tag
        BY <3>2, NewRead DEF deq
      <4> QED
        BY <1>12, <3>2, <4>1
    <3> QED
      BY <3>1, <3>2, HeldAfter DEF deq
  <2> QED
    BY <2>1, <2>4, <2>5
<1>13. ASSUME enq
       PROVE  Stays(req) /\ req.tag \notin DOMAIN owed
  <2>1. /\ req \in Requests /\ req.tag \in AfuTags \ DOMAIN owed
        /\ owed'[req.tag] = [lines |-> req.line_count, next |-> 0]
        /\ req.tag \in DOMAIN owed'
    BY <1>13, OwedEdge DEF enq
  <2>2. ASSUME NEW t \in held' PROVE Addr(t)' # req.tag
    <3>1. CASE Live(ar, t)
      <4>1. Addr(t)' = Addr(t) /\ Addr(t) \in DOMAIN owed
        BY <1>1, <3>1, LiveRead, HeldRead DEF Live
      <4> QED
        BY <2>1, <4>1
    <3>2. CASE deq /\ t = alloc_uid
      <4>1. Addr(t)' = rd_req.tag /\ rd_req.tag \in DOMAIN owed
        BY <3>2, NewRead DEF deq
      <4> QED
        BY <2>1, <4>1
    <3> QED
      BY <3>1, <3>2, HeldAfter DEF deq
  <2> QED
    BY <2>1, <2>2
<1>14. deq => rd_req = f.data[1] /\ f.valid[1]
  BY <1>2, <1>5
<1>15. f.valid[0] => Stays(f.data[0])
  BY <1>11, <1>12, <1>14
<1>16. f.valid[1] /\ ~deq => Stays(f.data[1])
  BY <1>11, <1>12
<1> HIDE DEF Stays
<1>17. \A s \in 0..1 : f'.valid[s] => Stays(f'.data[s])
  <2>1. f'.valid[0] => Stays(f'.data[0])
    BY <1>10, <1>13, <1>15
  <2>2. f'.valid[1] => Stays(f'.data[1])
    BY <1>10, <1>13, <1>15, <1>16
  <2> QED
    BY <2>1, <2>2
<1>18. f'.valid[0] => f'.data[0].tag # f'.data[1].tag
  <2>1. f.valid[1] => f.data[1].tag \in DOMAIN owed
    BY <1>11 DEF Queued
  <2>2. f'.valid[0] => f.valid[1] /\ ~deq /\ f'.data[1] = f.data[1]
    BY <1>2, <1>5, <1>10
  <2> QED
    BY <1>2, <1>10, <1>11, <1>13, <2>1, <2>2
<1>19. RequestQueue'
  <2>1. \A s \in 0..1 : afu_req_fifo'.valid[s] => Stays(afu_req_fifo'.data[s])
    BY <1>17
  <2> QED
    BY <1>10, <1>18, <2>1 DEF RequestQueue, Queued, Stays
<1> QED
  BY <1>10, <1>19 DEF deq, enq, Data

-----------------------------------------------------------------------------
(* From the request FIFO to the host.                                      *)

\* The registers to the arbiter and to the write engine.
LEMMA TxEdge ==
    ASSUME NEW req, NEW tr, NEW at, NEW ar, NEW room, NEW choice, NEW dm,
           Edge(req, tr, at, ar, room, choice, dm)
    PROVE  /\ tx_rd_tlps' \in Tlps \union {NoTlp} /\ atomic_cpl_tag' \in Tlps \union {NoTlp}
           /\ tx_rd_tlps' # NoTlp =>
                \/ tx_rd_tlps # NoTlp /\ ~tr /\ tx_rd_tlps' = tx_rd_tlps
                \/ /\ rd_req_deq(tr, at) /\ ~rd_req.is_atomic
                   /\ tx_rd_tlps' = [tag |-> alloc_uid, addr |-> rd_req.tag,
                                     lines |-> rd_req.line_count]
           /\ atomic_cpl_tag' # NoTlp =>
                \/ atomic_cpl_tag # NoTlp /\ ~at /\ atomic_cpl_tag' = atomic_cpl_tag
                \/ /\ rd_req_deq(tr, at) /\ rd_req.is_atomic
                   /\ atomic_cpl_tag' = [tag |-> alloc_uid, addr |-> rd_req.tag,
                                         lines |-> rd_req.line_count]
           /\ tx_rd_tlps # NoTlp /\ ~tr => tx_rd_tlps' = tx_rd_tlps
           /\ atomic_cpl_tag # NoTlp /\ ~at => atomic_cpl_tag' = atomic_cpl_tag
           /\ rd_req_deq(tr, at) =>
                IF rd_req.is_atomic
                THEN atomic_cpl_tag' # NoTlp /\ atomic_cpl_tag'.tag = alloc_uid
                ELSE tx_rd_tlps' # NoTlp /\ tx_rd_tlps'.tag = alloc_uid
<1>1. /\ RInv /\ TypeOK /\ tr \in BOOLEAN /\ at \in BOOLEAN
      /\ (tr => tx_rd_tlps # NoTlp) /\ (at => atomic_cpl_tag # NoTlp)
  BY DEF Edge, RInv
<1> DEFINE deq == rd_req_deq(tr, at)
           tlp == [tag |-> alloc_uid, addr |-> rd_req.tag, lines |-> rd_req.line_count]
           tagged == rd_req_notEmpty /\ alloc_ready
<1>2. /\ tagged => (deq <=> IF rd_req.is_atomic THEN Accepts(atomic_cpl_tag, NoTlp, at)
                            ELSE Accepts(tx_rd_tlps, NoTlp, tr))
      /\ deq => tagged /\ alloc_uid \in Issuable
  BY TagEdge
<1>3. rd_req_notEmpty =>
        /\ rd_req.tag \in AfuTags /\ rd_req.line_count \in Lengths
        /\ rd_req.is_atomic \in BOOLEAN /\ (rd_req.is_atomic => rd_req.line_count = 1)
  BY <1>1, HeadRequest
<1>4. tx_rd_tlps' = IF ~Accepts(tx_rd_tlps, NoTlp, tr) THEN tx_rd_tlps
                    ELSE IF tagged /\ ~rd_req.is_atomic THEN tlp ELSE NoTlp
  BY DEF Edge, Engine, RequestRegs
<1>5. atomic_cpl_tag' = IF ~Accepts(atomic_cpl_tag, NoTlp, at) THEN atomic_cpl_tag
                        ELSE IF tagged /\ rd_req.is_atomic THEN tlp ELSE NoTlp
  <2>1. atomic_cpl_tag' = IF ~Accepts(atomic_cpl_tag, NoTlp, at) THEN atomic_cpl_tag
                          ELSE IF tagged /\ rd_req.is_atomic
                          THEN [tag |-> alloc_uid, addr |-> rd_req.tag, lines |-> 1]
                          ELSE NoTlp
    BY DEF Edge, Engine, RequestRegs
  <2> QED
    BY <1>3, <2>1
<1>6. deq => tlp \in Tlps /\ tlp # NoTlp
  <2>1. deq => tlp \in Tlps
    BY <1>2, <1>3 DEF Tlps
  <2> QED
    BY <2>1, NothingAssumption
<1>7. tlp.tag = alloc_uid
  OBVIOUS
<1>8. tx_rd_tlps \in Tlps \union {NoTlp} /\ atomic_cpl_tag \in Tlps \union {NoTlp}
  BY <1>1 DEF TypeOK
<1>9. /\ Accepts(tx_rd_tlps, NoTlp, tr) <=> tx_rd_tlps = NoTlp \/ tr
      /\ Accepts(atomic_cpl_tag, NoTlp, at) <=> atomic_cpl_tag = NoTlp \/ at
  BY DEF Accepts
<1> HIDE DEF tlp, tagged, deq
<1>10. CASE tagged /\ rd_req.is_atomic
  BY <1>1, <1>2, <1>4, <1>5, <1>6, <1>7, <1>8, <1>9, <1>10 DEF deq, tlp
<1>11. CASE tagged /\ ~rd_req.is_atomic
  BY <1>1, <1>2, <1>4, <1>5, <1>6, <1>7, <1>8, <1>9, <1>11 DEF deq, tlp
<1>12. CASE ~tagged
  BY <1>1, <1>2, <1>4, <1>5, <1>8, <1>9, <1>12 DEF deq, tlp
<1> QED
  BY <1>3, <1>10, <1>11, <1>12 DEF tagged

\* What the host does with the stream is one of these.
LEMMA ChoiceCases ==
    ASSUME NEW req, NEW tr, NEW at, NEW ar, NEW room, NEW choice, NEW dm,
           Edge(req, tr, at, ar, room, choice, dm)
    PROVE  /\ \/ choice = Idle \/ choice = Continue \/ choice = Fence
              \/ choice.kind = "answer"
           /\ choice.kind = "answer" =>
                /\ choice # Idle /\ choice # Continue /\ choice # Fence
                /\ choice.tag \in DOMAIN host /\ choice.lines \in 1..MAX_PAYLOAD_LINES
                /\ packet = NoBeat
                /\ choice.lines <= host[choice.tag].lines - host[choice.tag].next
           /\ Continue # Idle /\ Continue # Fence /\ Idle # Fence
           /\ Idle.kind # "answer" /\ Continue.kind # "answer" /\ Fence.kind # "answer"
<1>1. choice \in HostChoices /\ HostEdge(tr, at, ar, choice, dm)
  BY DEF Edge
<1>2. /\ Idle.kind # "answer" /\ Continue.kind # "answer" /\ Fence.kind # "answer"
      /\ Continue # Idle /\ Continue # Fence /\ Idle # Fence
  BY DEF Idle, Continue, Fence
<1>3. choice.kind = "answer" => HostAnswers(choice.tag, choice.lines)
  BY <1>1, <1>2 DEF HostEdge
<1>4. choice.kind = "answer" =>
        choice.tag \in DOMAIN host /\ choice.lines \in 1..MAX_PAYLOAD_LINES
  BY <1>1, <1>2 DEF HostChoices, Answer
<1>5. \/ choice = Idle \/ choice = Continue \/ choice = Fence
      \/ choice.kind = "answer"
  BY <1>1 DEF HostEdge
<1> QED
  BY <1>2, <1>3, <1>4, <1>5 DEF HostAnswers

\* The host finishes a read with the packet it begins; its books after that
\* packet, before it gets new reads.
Finishes(choice, t) ==
    Answers(choice, t) /\ host[t].next + choice.lines = host[t].lines
BooksAfter(choice) ==
    IF choice.kind = "answer" THEN HostSends(choice.tag, choice.lines) ELSE host

\* What these books say of each read.
LEMMA BooksSend ==
    ASSUME NEW req, NEW tr, NEW at, NEW ar, NEW room, NEW choice, NEW dm,
           Edge(req, tr, at, ar, room, choice, dm)
    PROVE  /\ host' = HostAccepts(BooksAfter(choice), tr, at, dm)
           /\ \A t : t \in DOMAIN BooksAfter(choice) <=>
                       t \in DOMAIN host /\ ~Finishes(choice, t)
           /\ \A t \in DOMAIN host : ~Finishes(choice, t) =>
                BooksAfter(choice)[t] =
                  [addr |-> host[t].addr, lines |-> host[t].lines,
                   next |-> host[t].next + Packed(choice, t),
                   dm_encoded |-> host[t].dm_encoded]
<1>1. TypeOK
  BY DEF Edge, RInv
<1>2. HostEdge(tr, at, ar, choice, dm)
  BY DEF Edge
<1>3. host' = HostAccepts(BooksAfter(choice), tr, at, dm)
  BY <1>2, ChoiceCases DEF HostEdge, BooksAfter
<1>4. ASSUME NEW t \in DOMAIN host
      PROVE  /\ host[t].next \in Nat
             /\ host[t] = [addr |-> host[t].addr, lines |-> host[t].lines,
                           next |-> host[t].next, dm_encoded |-> host[t].dm_encoded]
  BY <1>1, ReadTlpsAssumption DEF TypeOK, HostReads, LineIdxs
<1>5. CASE choice.kind # "answer"
  <2>1. \A t : ~Finishes(choice, t) /\ Packed(choice, t) = 0
    BY <1>5 DEF Finishes, Answers, Packed
  <2>2. BooksAfter(choice) = host
    BY <1>5 DEF BooksAfter
  <2> QED
    BY <1>3, <1>4, <2>1, <2>2
<1>6. CASE choice.kind = "answer"
  <2> DEFINE x == choice.tag
             k == choice.lines
  <2>1. x \in DOMAIN host /\ k \in 1..MAX_PAYLOAD_LINES
    BY <1>6, ChoiceCases
  <2>2. BooksAfter(choice) = IF host[x].next + k = host[x].lines
                             THEN [u \in DOMAIN host \ {x} |-> host[u]]
                             ELSE [host EXCEPT ![x].next = @ + k]
    BY <1>6 DEF BooksAfter, HostSends
  <2>3. \A t : /\ Finishes(choice, t) <=> t = x /\ host[x].next + k = host[x].lines
               /\ Packed(choice, t) = IF t = x THEN k ELSE 0
    BY <1>6 DEF Finishes, Answers, Packed
  <2> HIDE DEF x, k
  <2>4. CASE host[x].next + k = host[x].lines
    BY <1>3, <1>4, <2>1, <2>2, <2>3, <2>4
  <2>5. CASE host[x].next + k # host[x].lines
    <3>1. [host EXCEPT ![x].next = @ + k] =
            [u \in DOMAIN host |->
               IF u = x THEN [host[x] EXCEPT !.next = @ + k] ELSE host[u]]
      BY <1>1 DEF TypeOK
    <3>2. [host[x] EXCEPT !.next = @ + k] =
            [addr |-> host[x].addr, lines |-> host[x].lines,
             next |-> host[x].next + k, dm_encoded |-> host[x].dm_encoded]
      BY <1>4, <2>1
    <3> DEFINE books == BooksAfter(choice)
    <3>3. books = [u \in DOMAIN host |->
                     IF u = x THEN [addr |-> host[x].addr, lines |-> host[x].lines,
                                    next |-> host[x].next + k,
                                    dm_encoded |-> host[x].dm_encoded]
                     ELSE host[u]]
      BY <2>2, <2>5, <3>1, <3>2
    <3> HIDE DEF books
    <3>4. \A t : t \in DOMAIN books <=> t \in DOMAIN host /\ ~Finishes(choice, t)
      BY <2>3, <2>5, <3>3
    <3>5. \A t \in DOMAIN host :
            books[t] = [addr |-> host[t].addr, lines |-> host[t].lines,
                        next |-> host[t].next + Packed(choice, t),
                        dm_encoded |-> host[t].dm_encoded]
      <4> TAKE t \in DOMAIN host
      <4>1. CASE t = x
        BY <2>3, <3>3, <4>1
      <4>2. CASE t # x
        BY <1>4, <2>3, <3>3, <4>2
      <4> QED
        BY <4>1, <4>2
    <3> QED
      BY <1>3, <3>4, <3>5 DEF books
  <2> QED
    BY <2>4, <2>5
<1> QED
  BY <1>5, <1>6

\* The host's books after an edge: what it has put into a packet is counted, a
\* read that is answered in full leaves, a read that was at TX or with the write
\* engine comes when it is taken from there.
LEMMA HostBooks ==
    ASSUME NEW req, NEW tr, NEW at, NEW ar, NEW room, NEW choice, NEW dm,
           Edge(req, tr, at, ar, room, choice, dm)
    PROVE  /\ \A t : t \in DOMAIN host' <=>
                       \/ t \in DOMAIN host /\ ~Finishes(choice, t)
                       \/ tr /\ AtTx(t)
                       \/ at /\ AtAtomic(t)
           /\ \A t \in DOMAIN host : ~Finishes(choice, t) =>
                host'[t] = [addr |-> host[t].addr, lines |-> host[t].lines,
                            next |-> host[t].next + Packed(choice, t),
                            dm_encoded |-> host[t].dm_encoded]
           /\ \A t : (tr /\ AtTx(t)) \/ (at /\ AtAtomic(t)) =>
                /\ t \in held /\ t \in Issuable /\ t \notin DOMAIN host
                /\ \E d \in BOOLEAN :
                     host'[t] = [addr |-> Addr(t), lines |-> Lines(t), next |-> 0,
                                 dm_encoded |-> d]
           /\ host' = [t \in DOMAIN host' |-> host'[t]]
<1>1. /\ RInv /\ TypeOK /\ OnTheWay /\ tr \in BOOLEAN /\ at \in BOOLEAN /\ dm \in BOOLEAN
      /\ (tr => tx_rd_tlps # NoTlp) /\ (at => atomic_cpl_tag # NoTlp)
  BY DEF Edge, RInv
<1> DEFINE books == BooksAfter(choice)
           reads == Sent(tx_rd_tlps, tr)
           all == reads \union Sent(atomic_cpl_tag, at)
<1>2. host' = [t \in DOMAIN books \union {r.tag : r \in all} |->
                 IF t \in DOMAIN books THEN books[t]
                 ELSE LET r == CHOOSE r \in all : r.tag = t
                      IN [addr |-> r.addr, lines |-> r.lines, next |-> 0,
                          dm_encoded |-> dm /\ r \in reads]]
  <2>1. host' = HostAccepts(books, tr, at, dm)
    BY BooksSend
  <2> HIDE DEF books
  <2> QED
    BY <2>1 DEF HostAccepts
<1>3. \A r : r \in all <=> (tr /\ r = tx_rd_tlps) \/ (at /\ r = atomic_cpl_tag)
  BY <1>1 DEF Sent
<1> HIDE DEF reads, all
<1>4. \A t : t \in {r.tag : r \in all} <=> (tr /\ AtTx(t)) \/ (at /\ AtAtomic(t))
  <2>1. \A t : t \in {r.tag : r \in all} <=> \E r \in all : t = r.tag
    OBVIOUS
  <2> QED
    BY <1>1, <1>3, <2>1 DEF AtTx, AtAtomic
<1>5. \A t : AtTx(t) \/ AtAtomic(t) => t \in t_uid /\ t \in Issuable
  BY <1>1, UidAssumption DEF TypeOK, Tlps, AtTx, AtAtomic, t_uid, Issuable
<1>6. \A t : t \in DOMAIN books <=> t \in DOMAIN host /\ ~Finishes(choice, t)
  BY BooksSend
<1>7. \A t \in DOMAIN host : ~Finishes(choice, t) =>
        books[t] = [addr |-> host[t].addr, lines |-> host[t].lines,
                    next |-> host[t].next + Packed(choice, t),
                    dm_encoded |-> host[t].dm_encoded]
  BY BooksSend
<1> HIDE DEF books
<1>8. ASSUME NEW t, (tr /\ AtTx(t)) \/ (at /\ AtAtomic(t))
      PROVE  /\ t \in held /\ t \in Issuable /\ t \notin DOMAIN host
             /\ \E d \in BOOLEAN :
                  host'[t] = [addr |-> Addr(t), lines |-> Lines(t), next |-> 0,
                              dm_encoded |-> d]
  <2>1. t \in t_uid /\ t \in Issuable /\ t \in held /\ t \notin DOMAIN host
    BY <1>1, <1>5, <1>8 DEF OnTheWay
  <2> DEFINE c == CHOOSE r \in all : r.tag = t
  <2>2. /\ c \in all /\ c.tag = t
    <3>1. \E r \in all : r.tag = t
      BY <1>4, <1>8
    <3> QED
      BY <3>1
  <2>3. host'[t] = [addr |-> c.addr, lines |-> c.lines, next |-> 0,
                    dm_encoded |-> dm /\ c \in reads]
    BY <1>2, <1>4, <1>6, <1>8, <2>1
  <2> HIDE DEF c
  <2>4. c.addr = Addr(t) /\ c.lines = Lines(t)
    BY <1>1, <1>3, <2>1, <2>2 DEF OnTheWay, AtTx, AtAtomic
  <2> QED
    BY <2>1, <2>3, <2>4
<1>9. \A t : t \in DOMAIN host' <=> \/ t \in DOMAIN host /\ ~Finishes(choice, t)
                                    \/ tr /\ AtTx(t)
                                    \/ at /\ AtAtomic(t)
  BY <1>2, <1>4, <1>6
<1>10. \A t \in DOMAIN host : ~Finishes(choice, t) => host'[t] = books[t]
  BY <1>2, <1>6
<1>11. host' = [t \in DOMAIN host' |-> host'[t]]
  BY <1>2
<1> QED
  BY <1>7, <1>8, <1>9, <1>10, <1>11

\* A read leaves TX and the write engine's register when it is taken, and comes
\* there with its PCIe tag.
LEMMA TxMoves ==
    ASSUME NEW req, NEW tr, NEW at, NEW ar, NEW room, NEW choice, NEW dm,
           Edge(req, tr, at, ar, room, choice, dm)
    PROVE  /\ \A t \in held : /\ AtTx(t)' <=> AtTx(t) /\ ~tr
                              /\ AtAtomic(t)' <=> AtAtomic(t) /\ ~at
           /\ rd_req_deq(tr, at) =>
                \A t : t = alloc_uid => /\ AtTx(t)' <=> ~rd_req.is_atomic
                                        /\ AtAtomic(t)' <=> rd_req.is_atomic
           /\ \A t : AtTx(t)' \/ AtAtomic(t)' => t \in held'
<1>1. RInv /\ OnTheWay /\ TypeOK
  BY DEF Edge, RInv
<1> DEFINE deq == rd_req_deq(tr, at)
           tx == tx_rd_tlps
           ac == atomic_cpl_tag
           a == alloc_uid
           isa == rd_req.is_atomic
<1>2. /\ tx' # NoTlp => \/ tx # NoTlp /\ ~tr /\ tx' = tx
                        \/ deq /\ ~isa /\ tx'.tag = a
      /\ ac' # NoTlp => \/ ac # NoTlp /\ ~at /\ ac' = ac
                        \/ deq /\ isa /\ ac'.tag = a
      /\ tx # NoTlp /\ ~tr => tx' = tx
      /\ ac # NoTlp /\ ~at => ac' = ac
      /\ deq => IF isa THEN ac' # NoTlp /\ ac'.tag = a ELSE tx' # NoTlp /\ tx'.tag = a
  <2>1. tx' # NoTlp => \/ tx # NoTlp /\ ~tr /\ tx' = tx
                       \/ /\ deq /\ ~isa
                          /\ tx' = [tag |-> a, addr |-> rd_req.tag,
                                    lines |-> rd_req.line_count]
    BY TxEdge
  <2>2. ac' # NoTlp => \/ ac # NoTlp /\ ~at /\ ac' = ac
                       \/ /\ deq /\ isa
                          /\ ac' = [tag |-> a, addr |-> rd_req.tag,
                                    lines |-> rd_req.line_count]
    BY TxEdge
  <2>3. /\ tx # NoTlp /\ ~tr => tx' = tx
        /\ ac # NoTlp /\ ~at => ac' = ac
        /\ deq => IF isa THEN ac' # NoTlp /\ ac'.tag = a ELSE tx' # NoTlp /\ tx'.tag = a
    BY TxEdge
  <2> HIDE DEF deq
  <2> QED
    BY <2>1, <2>2, <2>3
<1>3. deq => a \notin held
  BY TagEdge
<1>4. /\ tx # NoTlp => tx.tag \in held
      /\ ac # NoTlp => ac.tag \in held
  <2>1. \A t : AtTx(t) \/ AtAtomic(t) => t \in t_uid
    BY <1>1, UidAssumption DEF TypeOK, Tlps, AtTx, AtAtomic, t_uid, Issuable
  <2> QED
    BY <1>1, <2>1 DEF OnTheWay, AtTx, AtAtomic
<1>5. tr \in BOOLEAN /\ at \in BOOLEAN /\ deq \in BOOLEAN
  BY TagEdge DEF Edge
<1>6. deq => isa \in BOOLEAN
  BY <1>1, HeadRequest DEF rd_req_deq
<1>7. \A t : /\ AtTx(t)' <=> tx' # NoTlp /\ tx'.tag = t
             /\ AtAtomic(t)' <=> ac' # NoTlp /\ ac'.tag = t
             /\ AtTx(t) <=> tx # NoTlp /\ tx.tag = t
             /\ AtAtomic(t) <=> ac # NoTlp /\ ac.tag = t
  BY DEF AtTx, AtAtomic
<1> HIDE DEF deq, tx, ac, a, isa
<1>8. \A t \in held : /\ AtTx(t)' <=> AtTx(t) /\ ~tr
                      /\ AtAtomic(t)' <=> AtAtomic(t) /\ ~at
  BY <1>2, <1>3, <1>5, <1>7
<1>9. deq => \A t : t = a => (AtTx(t)' <=> ~isa) /\ (AtAtomic(t)' <=> isa)
  BY <1>2, <1>3, <1>4, <1>5, <1>6, <1>7
<1>10. \A t : AtTx(t)' \/ AtAtomic(t)' => t \in held'
  <2>1. ASSUME NEW t \in held, AtTx(t) \/ AtAtomic(t) PROVE t \in held'
    <3>1. ~(free_tlp_tag(ar) /\ t = RspTag)
      BY <2>1, FreedRead
    <3> QED
      BY <3>1, TagEdge DEF Live
  <2>2. deq => a \in held'
    BY TagEdge DEF deq, a
  <2> QED
    BY <1>2, <1>4, <1>7, <2>1, <2>2
<1> QED
  BY <1>8, <1>9, <1>10 DEF deq, a, isa

\* What the host has put into packets of a read grows by the packet it begins,
\* wherever the read is; a read that gets a PCIe tag has no answer.
LEMMA AnsweredEdge ==
    ASSUME NEW req, NEW tr, NEW at, NEW ar, NEW room, NEW choice, NEW dm,
           Edge(req, tr, at, ar, room, choice, dm)
    PROVE  /\ \A t : Live(ar, t) => Answered(t)' = Answered(t) + Packed(choice, t)
           /\ rd_req_deq(tr, at) =>
                \A t : t = alloc_uid => Answered(t)' = 0 /\ Packed(choice, t) = 0
<1>1. /\ RInv /\ OnTheWay /\ TypeOK /\ tr \in BOOLEAN /\ at \in BOOLEAN
  BY DEF Edge, RInv
<1>2. ASSUME NEW t, Live(ar, t) PROVE Answered(t)' = Answered(t) + Packed(choice, t)
  <2>1. t \in held /\ Lines(t)' = Lines(t)
    BY <1>2, LiveRead
  <2>2. /\ AtTx(t)' <=> AtTx(t) /\ ~tr
        /\ AtAtomic(t)' <=> AtAtomic(t) /\ ~at
    BY <2>1, TxMoves
  <2>3. t \in DOMAIN host' <=> \/ t \in DOMAIN host /\ ~Finishes(choice, t)
                               \/ tr /\ AtTx(t)
                               \/ at /\ AtAtomic(t)
    BY HostBooks
  <2>4. /\ t \in DOMAIN host => ~AtTx(t) /\ ~AtAtomic(t) /\ Answered(t) = host[t].next
        /\ AtTx(t) => ~AtAtomic(t)
        /\ AtTx(t) \/ AtAtomic(t) => Answered(t) = 0
    BY <1>1, <2>1, HeldRead DEF OnTheWay
  <2>5. /\ t \notin DOMAIN host => Packed(choice, t) = 0
        /\ t \in DOMAIN host /\ Finishes(choice, t) =>
             host[t].next + Packed(choice, t) = host[t].lines
    BY ChoiceCases DEF Packed, Answers, Finishes
  <2>6. t \in DOMAIN host => host[t].lines = Lines(t)
    BY <1>1 DEF OnTheWay
  <2>7. Answered(t)' = IF AtTx(t)' \/ AtAtomic(t)' THEN 0
                       ELSE IF t \in DOMAIN host' THEN host'[t].next ELSE Lines(t)
    BY <2>1 DEF Answered
  <2>8. Answered(t) = IF AtTx(t) \/ AtAtomic(t) THEN 0
                      ELSE IF t \in DOMAIN host THEN host[t].next ELSE Lines(t)
    BY DEF Answered
  <2>9. Lines(t) \in Nat
    BY <1>1, <2>1, HeldRead
  <2>10. CASE t \in DOMAIN host
    <3>1. ~Finishes(choice, t) => host'[t].next = host[t].next + Packed(choice, t)
      <4>1. ~Finishes(choice, t) =>
              host'[t] = [addr |-> host[t].addr, lines |-> host[t].lines,
                          next |-> host[t].next + Packed(choice, t),
                          dm_encoded |-> host[t].dm_encoded]
        BY <2>10, HostBooks
      <4> QED
        BY <4>1
    <3> QED
      BY <2>2, <2>3, <2>4, <2>5, <2>6, <2>7, <2>10, <3>1
  <2>11. CASE AtTx(t) \/ AtAtomic(t)
    <3>1. (tr /\ AtTx(t)) \/ (at /\ AtAtomic(t)) => host'[t].next = 0
      <4>1. (tr /\ AtTx(t)) \/ (at /\ AtAtomic(t)) =>
              \E d \in BOOLEAN :
                 host'[t] = [addr |-> Addr(t), lines |-> Lines(t), next |-> 0,
                             dm_encoded |-> d]
        BY HostBooks
      <4>2. \A d : [addr |-> Addr(t), lines |-> Lines(t), next |-> 0,
                    dm_encoded |-> d].next = 0
        OBVIOUS
      <4> QED
        BY <4>1, <4>2
    <3> QED
      BY <1>1, <2>2, <2>3, <2>4, <2>5, <2>7, <2>11, <3>1
  <2>12. CASE t \notin DOMAIN host /\ ~AtTx(t) /\ ~AtAtomic(t)
    BY <2>2, <2>3, <2>5, <2>7, <2>8, <2>9, <2>12
  <2> QED
    BY <2>10, <2>11, <2>12
<1>3. ASSUME rd_req_deq(tr, at), NEW t, t = alloc_uid
      PROVE  Answered(t)' = 0 /\ Packed(choice, t) = 0
  <2>1. (AtTx(t)' <=> ~rd_req.is_atomic) /\ (AtAtomic(t)' <=> rd_req.is_atomic)
    BY <1>3, TxMoves
  <2>2. t \notin DOMAIN host
    BY <1>1, <1>3, TagEdge DEF OnTheWay
  <2> QED
    BY <2>1, <2>2, ChoiceCases DEF Answered, Packed, Answers
<1> QED
  BY <1>2, <1>3

\* A read is in one place on its way to the host.
LEMMA OnTheWayEdge ==
    ASSUME NEW req, NEW tr, NEW at, NEW ar, NEW room, NEW choice, NEW dm,
           Edge(req, tr, at, ar, room, choice, dm)
    PROVE  /\ OnTheWay'
           /\ DOMAIN host' \subseteq Issuable /\ host' \in [DOMAIN host' -> HostReads]
<1>1. /\ RInv /\ OnTheWay /\ TypeOK /\ tr \in BOOLEAN /\ at \in BOOLEAN
  BY DEF Edge, RInv
<1>2. ASSUME NEW t \in held, AtTx(t) \/ AtAtomic(t) \/ t \in DOMAIN host
      PROVE  Live(ar, t) /\ t \in held' /\ Addr(t)' = Addr(t) /\ Lines(t)' = Lines(t)
  <2>1. ~(free_tlp_tag(ar) /\ t = RspTag)
    BY <1>2, FreedRead
  <2> QED
    BY <2>1, LiveRead DEF Live
<1>3. ASSUME rd_req_deq(tr, at), NEW t, t = alloc_uid
      PROVE  t \in held' /\ t \notin DOMAIN host'
  <2>1. t \in held' /\ t \notin held
    BY <1>3, TagEdge
  <2>2. t \notin DOMAIN host /\ ~(tr /\ AtTx(t)) /\ ~(at /\ AtAtomic(t))
    BY <1>1, <2>1, HostBooks DEF OnTheWay
  <2> QED
    BY <2>1, <2>2, HostBooks
<1>4. ASSUME NEW t \in t_uid, AtTx(t)'
      PROVE  /\ t \in held' /\ ~AtAtomic(t)' /\ t \notin DOMAIN host'
             /\ tx_rd_tlps'.addr = Addr(t)' /\ tx_rd_tlps'.lines = Lines(t)'
  <2>1. CASE t \in held
    <3>1. AtTx(t) /\ ~tr /\ tx_rd_tlps' = tx_rd_tlps
      BY <1>4, <2>1, TxMoves, TxEdge DEF AtTx
    <3>2. /\ ~AtAtomic(t) /\ t \notin DOMAIN host
          /\ tx_rd_tlps.addr = Addr(t) /\ tx_rd_tlps.lines = Lines(t)
      BY <1>1, <3>1 DEF OnTheWay
    <3>3. ~AtAtomic(t)' /\ t \notin DOMAIN host'
      BY <2>1, <3>1, <3>2, TxMoves, HostBooks
    <3> QED
      BY <1>2, <2>1, <3>1, <3>2, <3>3
  <2>2. CASE t \notin held
    <3>1. rd_req_deq(tr, at) /\ t = alloc_uid
      <4>1. t \in held'
        BY <1>4, TxMoves
      <4> QED
        BY <2>2, <4>1, HeldAfter DEF Live
    <3>2. Addr(t)' = rd_req.tag /\ Lines(t)' = rd_req.line_count
      BY <3>1, NewRead
    <3>3. tx_rd_tlps' = [tag |-> alloc_uid, addr |-> rd_req.tag,
                         lines |-> rd_req.line_count]
      <4>1. tx_rd_tlps' # NoTlp /\ tx_rd_tlps'.tag = t
        BY <1>4 DEF AtTx
      <4>2. ~(tx_rd_tlps # NoTlp /\ ~tr /\ tx_rd_tlps' = tx_rd_tlps)
        BY <1>1, <2>2, <4>1 DEF OnTheWay, AtTx
      <4> QED
        BY <4>1, <4>2, TxEdge
    <3>4. ~AtAtomic(t)'
      BY <1>4, <3>1, TxMoves
    <3> QED
      BY <1>3, <3>1, <3>2, <3>3, <3>4
  <2> QED
    BY <2>1, <2>2
<1>5. ASSUME NEW t \in t_uid, AtAtomic(t)'
      PROVE  /\ t \in held' /\ t \notin DOMAIN host'
             /\ atomic_cpl_tag'.addr = Addr(t)' /\ atomic_cpl_tag'.lines = Lines(t)'
  <2>1. CASE t \in held
    <3>1. AtAtomic(t) /\ ~at /\ atomic_cpl_tag' = atomic_cpl_tag
      BY <1>5, <2>1, TxMoves, TxEdge DEF AtAtomic
    <3>2. /\ ~AtTx(t) /\ t \notin DOMAIN host
          /\ atomic_cpl_tag.addr = Addr(t) /\ atomic_cpl_tag.lines = Lines(t)
      BY <1>1, <3>1 DEF OnTheWay
    <3>3. t \notin DOMAIN host'
      BY <3>1, <3>2, HostBooks
    <3> QED
      BY <1>2, <2>1, <3>1, <3>2, <3>3
  <2>2. CASE t \notin held
    <3>1. rd_req_deq(tr, at) /\ t = alloc_uid
      <4>1. t \in held'
        BY <1>5, TxMoves
      <4> QED
        BY <2>2, <4>1, HeldAfter DEF Live
    <3>2. Addr(t)' = rd_req.tag /\ Lines(t)' = rd_req.line_count
      BY <3>1, NewRead
    <3>3. atomic_cpl_tag' = [tag |-> alloc_uid, addr |-> rd_req.tag,
                             lines |-> rd_req.line_count]
      <4>1. atomic_cpl_tag' # NoTlp /\ atomic_cpl_tag'.tag = t
        BY <1>5 DEF AtAtomic
      <4>2. ~(atomic_cpl_tag # NoTlp /\ ~at /\ atomic_cpl_tag' = atomic_cpl_tag)
        BY <1>1, <2>2, <4>1 DEF OnTheWay, AtAtomic
      <4> QED
        BY <4>1, <4>2, TxEdge
    <3> QED
      BY <1>3, <3>1, <3>2, <3>3
  <2> QED
    BY <2>1, <2>2
<1>6. ASSUME NEW t \in DOMAIN host'
      PROVE  /\ t \in held' /\ host'[t].next < host'[t].lines
             /\ host'[t].addr = Addr(t)' /\ host'[t].lines = Lines(t)'
             /\ t \in Issuable /\ host'[t] \in HostReads
  <2>1. CASE t \in DOMAIN host /\ ~Finishes(choice, t)
    <3>1. /\ t \in held /\ host[t].next < host[t].lines
          /\ host[t].addr = Addr(t) /\ host[t].lines = Lines(t)
          /\ host[t] \in HostReads /\ t \in Issuable
      BY <1>1, <2>1 DEF OnTheWay, TypeOK
    <3>2. host'[t] = [addr |-> host[t].addr, lines |-> host[t].lines,
                      next |-> host[t].next + Packed(choice, t),
                      dm_encoded |-> host[t].dm_encoded]
      <4>1. \A u \in DOMAIN host : ~Finishes(choice, u) =>
              host'[u] = [addr |-> host[u].addr, lines |-> host[u].lines,
                          next |-> host[u].next + Packed(choice, u),
                          dm_encoded |-> host[u].dm_encoded]
        BY HostBooks
      <4> QED
        BY <2>1, <4>1
    <3>3. /\ host[t].lines \in 1..MAX_PAYLOAD_LINES /\ host[t].next \in Nat
          /\ host[t].addr \in AfuTags /\ host[t].lines \in Lengths
          /\ host[t].dm_encoded \in BOOLEAN
      BY <3>1, LengthsInRange DEF HostReads, LineIdxs
    <3>4. /\ host[t].next + Packed(choice, t) \in Nat
          /\ host[t].next + Packed(choice, t) < host[t].lines
      <4>1. CASE Answers(choice, t)
        <5>1. /\ choice.lines \in 1..MAX_PAYLOAD_LINES
              /\ choice.lines <= host[t].lines - host[t].next
              /\ Packed(choice, t) = choice.lines
              /\ host[t].next + choice.lines # host[t].lines
          BY <2>1, <4>1, ChoiceCases DEF Answers, Packed, Finishes
        <5> QED
          BY <3>3, <5>1
      <4>2. CASE ~Answers(choice, t)
        BY <3>1, <3>3, <4>2 DEF Packed
      <4> QED
        BY <4>1, <4>2
    <3>5. host[t].next + Packed(choice, t) \in LineIdxs
      BY <3>3, <3>4, LengthsInRange DEF LineIdxs
    <3>6. host'[t] \in HostReads
      BY <3>2, <3>3, <3>5 DEF HostReads
    <3> QED
      BY <1>2, <2>1, <3>1, <3>2, <3>4, <3>6
  <2>2. CASE (tr /\ AtTx(t)) \/ (at /\ AtAtomic(t))
    <3>1. /\ t \in held /\ t \in Issuable
          /\ \E d \in BOOLEAN :
               host'[t] = [addr |-> Addr(t), lines |-> Lines(t), next |-> 0,
                           dm_encoded |-> d]
      BY <2>2, HostBooks
    <3>2. /\ Addr(t) \in AfuTags /\ Lines(t) \in Lengths /\ Lines(t) \in 1..MAX_PAYLOAD_LINES
      BY <1>1, <3>1, HeldRead
    <3>3. t \in held' /\ Addr(t)' = Addr(t) /\ Lines(t)' = Lines(t)
      BY <1>2, <2>2, <3>1
    <3> QED
      BY <3>1, <3>2, <3>3, LengthsInRange DEF HostReads
  <2> QED
    BY <2>1, <2>2, HostBooks
<1>7. host' \in [DOMAIN host' -> HostReads]
  <2>1. host' = [t \in DOMAIN host' |-> host'[t]]
    BY HostBooks
  <2> QED
    BY <1>6, <2>1
<1> QED
  BY <1>4, <1>5, <1>6, <1>7 DEF OnTheWay

-----------------------------------------------------------------------------
(* Lines and their numbers.                                                *)

\* Remainders, for the width of a line index and of the length in a header.
LEMMA SmallRemainder ==
    ASSUME NEW m \in Nat \ {0}, NEW n \in 0..m - 1
    PROVE  n % m = n
  OBVIOUS

\* A multiple of the modulus does not change a remainder.
LEMMA AddMultiple ==
    ASSUME NEW m \in Nat \ {0}, NEW w \in Nat, w % m = 0, NEW n \in 0..m - 1
    PROVE  (w + n) % m = n
  OBVIOUS

\* The modulus itself and its double leave none.
LEMMA AddModulus ==
    ASSUME NEW m \in Nat \ {0}
    PROVE  (m + m) % m = 0 /\ m % m = 0
  OBVIOUS

\* A 10-bit length wraps no earlier than after the longest packet.
LEMMA WrapAtLeastPayload == LEN_WRAP \in Nat /\ LEN_WRAP >= MAX_PAYLOAD_LINES
<1>1. LEN_WRAP \in Nat \ {0} /\ MAX_PAYLOAD_LINES \in Nat \ {0}
      /\ LEN_WRAP % MAX_PAYLOAD_LINES = 0
  BY ReadTlpsAssumption
<1>2. LEN_WRAP < MAX_PAYLOAD_LINES => LEN_WRAP % MAX_PAYLOAD_LINES = LEN_WRAP
  BY <1>1, SmallRemainder
<1> QED
  BY <1>1, <1>2

\* Both encodings of the header give the index of the line: from the count of
\* the lines before, and from the bytes that remain, whose number is 0 when it
\* is too large for its field.
LEMMA LineIndex ==
    ASSUME NEW lines \in 1..MAX_PAYLOAD_LINES, NEW line \in LineIdxs, line < lines
    PROVE  /\ LineIdx(line) = line
           /\ LineIdx(lines + LEN_WRAP - ((lines - line) % LEN_WRAP)) = line
<1>1. /\ MAX_PAYLOAD_LINES \in Nat \ {0} /\ LEN_WRAP \in Nat \ {0}
      /\ LEN_WRAP % MAX_PAYLOAD_LINES = 0 /\ LEN_WRAP >= MAX_PAYLOAD_LINES
  BY ReadTlpsAssumption, WrapAtLeastPayload
<1>2. line \in 0..MAX_PAYLOAD_LINES - 1 /\ line % MAX_PAYLOAD_LINES = line
  BY <1>1, SmallRemainder DEF LineIdxs
<1>3. CASE lines - line = LEN_WRAP
  <2>1. line = 0 /\ lines = LEN_WRAP /\ lines = MAX_PAYLOAD_LINES
    BY <1>1, <1>2, <1>3
  <2>2. (lines - line) % LEN_WRAP = 0
    BY <1>1, <1>3, AddModulus
  <2>3. lines + LEN_WRAP - ((lines - line) % LEN_WRAP) = MAX_PAYLOAD_LINES + MAX_PAYLOAD_LINES
    <3>1. lines + LEN_WRAP - ((lines - line) % LEN_WRAP) = lines + LEN_WRAP - 0
      BY <2>2
    <3> QED
      BY <1>1, <2>1, <3>1
  <2> QED
    BY <1>1, <1>2, <2>1, <2>3, AddModulus DEF LineIdx
<1>4. CASE lines - line # LEN_WRAP
  <2>1. lines - line \in 0..LEN_WRAP - 1
    BY <1>1, <1>2, <1>4
  <2>2. (lines - line) % LEN_WRAP = lines - line
    BY <1>1, <2>1, SmallRemainder
  <2>3. lines + LEN_WRAP - ((lines - line) % LEN_WRAP) = LEN_WRAP + line
    BY <1>1, <1>2, <2>2
  <2>4. (LEN_WRAP + line) % MAX_PAYLOAD_LINES = line
    BY <1>1, <1>2, AddMultiple
  <2> QED
    BY <1>2, <2>3, <2>4 DEF LineIdx
<1> QED
  BY <1>3, <1>4

\* The engine gives each line on the stream the AFU's tag and the index of the
\* line it carries, and knows when it is in the last packet of its read.
LEMMA DecodedLine ==
    ASSUME RInv
    PROVE  /\ ~IsLine => Decoded = NoCpl
           /\ IsLine =>
                /\ Decoded = [is_last |-> RxTag \notin DOMAIN host, tag |-> Addr(RxTag),
                              line_idx |-> rx_cpl_tlps.payload.line]
                /\ Decoded \in Cpls /\ Decoded # NoCpl
<1>1. /\ TypeOK /\ IInv /\ Together /\ OnTheWay /\ BeatIsNext /\ Header /\ InProgress
      /\ Counts
  BY DEF RInv
<1>2. ~IsLine => Decoded = NoCpl
  BY DEF IsLine, Decoded
<1>3. ASSUME IsLine
      PROVE  Decoded = [is_last |-> RxTag \notin DOMAIN host, tag |-> Addr(RxTag),
                        line_idx |-> rx_cpl_tlps.payload.line]
  <2> DEFINE t == RxTag
             line == rx_cpl_tlps.payload.line
  <2>1. /\ t \in held /\ line \in LineIdxs /\ line = Given(t) + InRsp(t)
        /\ rx_cpl_tlps # NoBeat
    BY <1>1, <1>3 DEF BeatIsNext, Payloads, IsLine
  <2>2. rx_cpl_tlps.sop \in BOOLEAN
    BY <1>1, <2>1 DEF TypeOK, Beats
  <2>3. CASE ~rx_cpl_tlps.sop
    <3>1. /\ reg_afu_rd_rsp # NoCpl /\ (reg_afu_rd_rsp.is_last <=> RspTag \notin DOMAIN host)
          /\ reg_afu_rd_rsp.tag = Addr(RspTag) /\ reg_afu_rd_rsp.line_idx + 1 = line
      BY <1>1, <2>1, <2>3 DEF InProgress, Open, OpenLine
    <3>2. reg_afu_rd_rsp \in Cpls /\ t = RspTag
      BY <1>1, <2>3, <3>1 DEF TypeOK, RxTag
    <3>3. LineIdx(reg_afu_rd_rsp.line_idx + 1) = line
      BY <2>1, <3>1, ReadTlpsAssumption, SmallRemainder DEF LineIdxs, LineIdx
    <3>4. Decoded = [reg_afu_rd_rsp EXCEPT !.line_idx = LineIdx(@ + 1)]
      BY <2>1, <2>3, <3>1 DEF Decoded
    <3>5. reg_afu_rd_rsp.is_last = (t \notin DOMAIN host)
      BY <3>1, <3>2 DEF Cpls
    <3> HIDE DEF t, line
    <3>6. Decoded = [is_last |-> t \notin DOMAIN host, tag |-> Addr(t), line_idx |-> line]
      BY <3>1, <3>2, <3>3, <3>4, <3>5 DEF Cpls
    <3> QED
      BY <3>6 DEF t, line
  <2>4. CASE rx_cpl_tlps.sop
    <3>1. /\ t = rx_cpl_tlps.tag /\ ~IsWrFence(rx_cpl_tlps.tag)
          /\ rx_cpl_tlps \in Beats
      BY <1>1, <1>3, <2>1, <2>4 DEF RxTag, IsLine, TypeOK
    <3>2. /\ Lines(t) \in 1..MAX_PAYLOAD_LINES /\ line < Lines(t) /\ t \in t_uid
      <4>1. /\ Lines(t) \in 1..MAX_PAYLOAD_LINES /\ t \in t_uid
            /\ Given(t) \in Nat /\ InRsp(t) \in 0..1 /\ InRx(t) \in 0..1
            /\ InPacket(t) \in Nat /\ Answered(t) \in Nat
            /\ Given(t) + InRsp(t) + InRx(t) + InPacket(t) = Answered(t)
            /\ Answered(t) <= Lines(t)
        BY <2>1, HeldRead
      <4>2. InRx(t) = 1
        BY <1>3 DEF InRx
      <4> HIDE DEF t, line
      <4> QED
        BY <2>1, <4>1, <4>2, LengthsInRange
    <3>3. track_ready
      BY <1>1, <2>1 DEF IInv, Clearing, Together
    <3>4. rd_rsp_tracker[t] = line
      BY <1>1, <1>3, <2>4, <3>1, <3>2, <3>3 DEF Counts, Counted
    <3>5. /\ rx_cpl_tlps.fc <=> t \notin DOMAIN host
          /\ ~rx_cpl_tlps.dm_encoded =>
               rx_cpl_tlps.byte_count = (Lines(t) - line) % LEN_WRAP
      BY <1>1, <1>3, <2>4 DEF Header
    <3>6. rx_cpl_tlps.fc = (t \notin DOMAIN host) /\ rx_cpl_tlps.dm_encoded \in BOOLEAN
      BY <3>1, <3>5 DEF Beats
    <3>7. Decoded = [is_last |-> rx_cpl_tlps.fc, tag |-> Addr(t),
                     line_idx |-> IF rx_cpl_tlps.dm_encoded THEN LineIdx(rd_rsp_tracker[t])
                                  ELSE LineIdx(Lines(t) + LEN_WRAP - rx_cpl_tlps.byte_count)]
      BY <2>1, <2>4, <3>1 DEF Decoded, Addr, Lines
    <3>8. /\ LineIdx(line) = line
          /\ LineIdx(Lines(t) + LEN_WRAP - ((Lines(t) - line) % LEN_WRAP)) = line
      BY <2>1, <3>2, LineIndex
    <3> HIDE DEF t, line
    <3>9. Decoded = [is_last |-> t \notin DOMAIN host, tag |-> Addr(t), line_idx |-> line]
      <4>1. CASE rx_cpl_tlps.dm_encoded
        BY <3>4, <3>6, <3>7, <3>8, <4>1
      <4>2. CASE ~rx_cpl_tlps.dm_encoded
        BY <3>5, <3>6, <3>7, <3>8, <4>2
      <4> QED
        BY <4>1, <4>2
    <3> QED
      BY <3>9 DEF t, line
  <2> QED
    BY <2>2, <2>3, <2>4
<1>4. IsLine => Decoded \in Cpls /\ Decoded # NoCpl
  <2>1. IsLine => /\ Addr(RxTag) \in AfuTags /\ rx_cpl_tlps.payload.line \in LineIdxs
    BY <1>1, HeldRead DEF BeatIsNext, Payloads
  <2>2. IsLine => Decoded \in Cpls
    <3> DEFINE last == RxTag \notin DOMAIN host
    <3>1. last \in BOOLEAN
      OBVIOUS
    <3>2. IsLine => Decoded = [is_last |-> last, tag |-> Addr(RxTag),
                               line_idx |-> rx_cpl_tlps.payload.line]
      BY <1>3
    <3> HIDE DEF last
    <3> QED
      BY <2>1, <3>1, <3>2 DEF Cpls
  <2> QED
    BY <2>2, NothingAssumption
<1> QED
  BY <1>2, <1>3, <1>4

\* The stream moves when it is empty or the engine takes its beat.
Free(ar) == rx_cpl_tlps = NoBeat \/ rx_tready(ar)

\* What an edge does to the stream, to the packet under way and to the tag of
\* the response.
LEMMA StreamEdge ==
    ASSUME NEW req, NEW tr, NEW at, NEW ar, NEW room, NEW choice, NEW dm,
           Edge(req, tr, at, ar, room, choice, dm)
    PROVE  /\ rx_tready(ar) \in BOOLEAN /\ (ar => rx_tready(ar))
           /\ BeatAccepted(ar) <=> rx_cpl_tlps # NoBeat /\ Free(ar)
           /\ rx_tready(ar) => (ar <=> afu_rd_rsp # NoRsp)
           /\ ~Free(ar) => /\ ~ar /\ ~rx_tready(ar) /\ choice = Idle
                           /\ rx_cpl_tlps' = rx_cpl_tlps /\ packet' = packet
           /\ choice = Idle /\ Free(ar) => rx_cpl_tlps' = NoBeat /\ packet' = packet
           /\ choice = Continue =>
                /\ Free(ar) /\ packet # NoBeat /\ rx_cpl_tlps' = NextBeat
                /\ packet' = IF packet.left = 1 THEN NoBeat
                             ELSE [packet EXCEPT !.left = @ - 1, !.line = @ + 1]
           /\ choice = Fence =>
                /\ Free(ar) /\ packet = NoBeat /\ packet' = NoBeat
                /\ rx_cpl_tlps' = FenceBeat(0)
           /\ choice.kind = "answer" =>
                /\ Free(ar) /\ packet = NoBeat
                /\ rx_cpl_tlps' = FirstBeat(choice.tag, choice.lines)
                /\ packet' = IF choice.lines = 1 THEN NoBeat
                             ELSE [left |-> choice.lines - 1,
                                   addr |-> host[choice.tag].addr,
                                   line |-> host[choice.tag].next + 1]
           /\ RspTag' = IF Free(ar) THEN PacketTag ELSE RspTag
<1>1. /\ RInv /\ TypeOK /\ NoResponseBehindFence /\ ar \in BOOLEAN
      /\ (ar => afu_rd_rsp # NoRsp)
  BY DEF Edge, RInv
<1>2. /\ rx_tready(ar) \in BOOLEAN /\ (ar => rx_tready(ar))
      /\ rx_tready(ar) => (ar <=> afu_rd_rsp # NoRsp)
  BY <1>1 DEF rx_tready, NoResponseBehindFence, TypeOK
<1>3. BeatAccepted(ar) <=> rx_cpl_tlps # NoBeat /\ Free(ar)
  BY DEF BeatAccepted, Free
<1>4. RspTag' = IF BeatAccepted(ar) /\ rx_cpl_tlps.sop THEN rx_cpl_tlps.tag ELSE RspTag
  BY DEF Edge, Engine, ResponseRegs, CplTagNext, RspTag
<1>5. RspTag' = IF Free(ar) THEN PacketTag ELSE RspTag
  BY <1>3, <1>4 DEF PacketTag, RxTag
<1>6. HostEdge(tr, at, ar, choice, dm)
  BY DEF Edge
<1>7. ~Free(ar) => choice = Idle
  BY <1>6 DEF HostEdge, Free
<1>8. choice = Idle => /\ packet' = packet
                       /\ rx_cpl_tlps' = IF Free(ar) THEN NoBeat ELSE rx_cpl_tlps
  BY <1>6, ChoiceCases DEF HostEdge, Free
<1>9. choice = Continue => HostContinues
  BY <1>6, ChoiceCases DEF HostEdge
<1>10. choice = Fence => HostSendsFence
  BY <1>6, ChoiceCases DEF HostEdge
<1>11. choice.kind = "answer" => HostAnswers(choice.tag, choice.lines)
  BY <1>6, ChoiceCases DEF HostEdge
<1>12. choice # Idle => Free(ar)
  BY <1>7
<1>13. ~Free(ar) => ~ar /\ ~rx_tready(ar)
  BY <1>1, <1>2 DEF Free
<1>14. choice = Continue =>
         /\ Free(ar) /\ packet # NoBeat /\ rx_cpl_tlps' = NextBeat
         /\ packet' = IF packet.left = 1 THEN NoBeat
                      ELSE [packet EXCEPT !.left = @ - 1, !.line = @ + 1]
  BY <1>9, <1>12, ChoiceCases DEF HostContinues
<1>15. choice = Fence =>
         /\ Free(ar) /\ packet = NoBeat /\ packet' = NoBeat
         /\ rx_cpl_tlps' = FenceBeat(0)
  BY <1>10, <1>12, ChoiceCases DEF HostSendsFence
<1>16. choice.kind = "answer" =>
         /\ Free(ar) /\ packet = NoBeat
         /\ rx_cpl_tlps' = FirstBeat(choice.tag, choice.lines)
         /\ packet' = IF choice.lines = 1 THEN NoBeat
                      ELSE [left |-> choice.lines - 1,
                            addr |-> host[choice.tag].addr,
                            line |-> host[choice.tag].next + 1]
  BY <1>11, <1>12, ChoiceCases DEF HostAnswers
<1> QED
  BY <1>2, <1>3, <1>5, <1>7, <1>8, <1>13, <1>14, <1>15, <1>16

\* The read of the packet under way.
LEMMA PacketRead ==
    ASSUME RInv, packet # NoBeat, NEW t, t = PacketTag
    PROVE  /\ t \in held /\ packet \in Packets /\ InPacket(t) = packet.left
           /\ packet.addr = Addr(t) /\ packet.addr \in AfuTags
           /\ packet.line \in LineIdxs /\ packet.left \in LineIdxs \ {0}
           /\ packet.line = Given(t) + InRsp(t) + InRx(t)
           /\ packet.line + packet.left = Answered(t)
           /\ packet.line + packet.left <= MAX_PAYLOAD_LINES
<1>1. TypeOK /\ PacketIsNext
  BY DEF RInv
<1>2. /\ t \in held /\ packet.addr = Addr(t)
      /\ packet.line = Given(t) + InRsp(t) + InRx(t)
  BY <1>1 DEF PacketIsNext
<1>3. packet \in Packets /\ InPacket(t) = packet.left
  BY <1>1 DEF TypeOK, InPacket
<1>4. /\ packet.addr \in AfuTags /\ packet.line \in LineIdxs /\ packet.left \in LineIdxs \ {0}
  BY <1>3 DEF Packets
<1>5. /\ Given(t) + InRsp(t) + InRx(t) + InPacket(t) = Answered(t)
      /\ Answered(t) <= Lines(t) /\ Lines(t) \in 1..MAX_PAYLOAD_LINES /\ Answered(t) \in Nat
      /\ Given(t) \in Nat /\ InRsp(t) \in 0..1 /\ InRx(t) \in 0..1 /\ InPacket(t) \in Nat
  BY <1>2, HeldRead
<1>6. packet.line + packet.left = Answered(t) /\ packet.line + packet.left <= MAX_PAYLOAD_LINES
  BY <1>2, <1>3, <1>5, LengthsInRange
<1> QED
  BY <1>2, <1>3, <1>4, <1>6

\* The read that the host begins a packet for.
LEMMA AnswerRead ==
    ASSUME NEW req, NEW tr, NEW at, NEW ar, NEW room, NEW choice, NEW dm,
           Edge(req, tr, at, ar, room, choice, dm), choice.kind = "answer",
           NEW t, t = choice.tag, NEW k, k = choice.lines
    PROVE  /\ t \in held /\ t \in DOMAIN host /\ t \in t_uid /\ ~IsWrFence(t)
           /\ host[t] \in HostReads /\ host[t].addr = Addr(t) /\ host[t].lines = Lines(t)
           /\ k \in 1..MAX_PAYLOAD_LINES /\ Lines(t) \in 1..MAX_PAYLOAD_LINES
           /\ host[t].next \in LineIdxs /\ host[t].next \in Nat
           /\ k <= Lines(t) - host[t].next
           /\ host[t].next = Answered(t) /\ InPacket(t) = 0
           /\ Given(t) + InRsp(t) + InRx(t) = host[t].next
<1>1. /\ RInv /\ OnTheWay /\ TypeOK
  BY DEF Edge, RInv
<1>2. /\ t \in DOMAIN host /\ k \in 1..MAX_PAYLOAD_LINES /\ packet = NoBeat
      /\ k <= host[t].lines - host[t].next
  BY ChoiceCases
<1>3. /\ t \in held /\ host[t].addr = Addr(t) /\ host[t].lines = Lines(t)
      /\ host[t] \in HostReads
  BY <1>1, <1>2 DEF OnTheWay, TypeOK
<1>4. /\ t \in t_uid /\ ~IsWrFence(t) /\ Lines(t) \in 1..MAX_PAYLOAD_LINES
      /\ host[t].next = Answered(t)
      /\ Given(t) + InRsp(t) + InRx(t) + InPacket(t) = Answered(t)
      /\ Given(t) \in Nat /\ InRsp(t) \in 0..1 /\ InRx(t) \in 0..1
  BY <1>1, <1>2, <1>3, HeldRead
<1>5. InPacket(t) = 0
  BY <1>2 DEF InPacket
<1>6. host[t].next \in LineIdxs /\ host[t].next \in Nat
  BY <1>3 DEF HostReads, LineIdxs
<1> QED
  BY <1>2, <1>3, <1>4, <1>5, <1>6

\* What the host puts on the stream has the form of a beat, and what remains of
\* a packet the form of a packet.
LEMMA BeatTypes ==
    ASSUME NEW req, NEW tr, NEW at, NEW ar, NEW room, NEW choice, NEW dm,
           Edge(req, tr, at, ar, room, choice, dm)
    PROVE  /\ rx_cpl_tlps' \in Beats \union {NoBeat}
           /\ packet' \in Packets \union {NoBeat}
           /\ choice = Continue \/ choice = Fence \/ choice.kind = "answer" =>
                rx_cpl_tlps' \in Beats /\ rx_cpl_tlps' # NoBeat
           /\ choice = Continue => (packet' = NoBeat <=> packet.left = 1)
           /\ choice.kind = "answer" => (packet' = NoBeat <=> choice.lines = 1)
<1>1. /\ RInv /\ TypeOK
  BY DEF Edge, RInv
<1>2. 0 \in t_uid /\ 1 \in 0..LEN_WRAP /\ LEN_WRAP \in Nat \ {0} /\ MAX_PAYLOAD_LINES \in Nat
  BY UidAssumption, ReadTlpsAssumption DEF t_uid
<1>3. ASSUME choice = Continue
      PROVE  /\ rx_cpl_tlps' \in Beats /\ packet' \in Packets \union {NoBeat}
             /\ packet' = NoBeat <=> packet.left = 1
  <2>1. /\ rx_cpl_tlps' = NextBeat /\ packet # NoBeat
        /\ packet' = IF packet.left = 1 THEN NoBeat
                     ELSE [packet EXCEPT !.left = @ - 1, !.line = @ + 1]
    BY <1>3, StreamEdge
  <2>2. /\ packet \in Packets /\ packet.addr \in AfuTags /\ packet.line \in LineIdxs
        /\ packet.left \in LineIdxs \ {0}
        /\ packet.line + packet.left <= MAX_PAYLOAD_LINES
    BY <1>1, <2>1, PacketRead
  <2>3. NextBeat \in Beats
    BY <1>2, <2>2 DEF NextBeat, HeaderlessBeat, Beats, Payloads
  <2>4. packet.left # 1 => /\ packet.left - 1 \in LineIdxs \ {0}
                           /\ packet.line + 1 \in LineIdxs
    BY <1>2, <2>2 DEF LineIdxs
  <2>5. packet.left # 1 => [packet EXCEPT !.left = @ - 1, !.line = @ + 1] \in Packets
    BY <2>2, <2>4 DEF Packets
  <2> QED
    BY <2>1, <2>3, <2>5, NothingAssumption
<1>4. choice = Fence => rx_cpl_tlps' \in Beats
  <2>1. FenceBeat(0) \in Beats
    BY <1>2 DEF FenceBeat, Beats
  <2> QED
    BY <2>1, StreamEdge
<1>5. ASSUME choice.kind = "answer"
      PROVE  /\ rx_cpl_tlps' \in Beats /\ packet' \in Packets \union {NoBeat}
             /\ packet' = NoBeat <=> choice.lines = 1
  <2> DEFINE t == choice.tag
             k == choice.lines
  <2>1. /\ rx_cpl_tlps' = FirstBeat(t, k)
        /\ packet' = IF k = 1 THEN NoBeat
                     ELSE [left |-> k - 1, addr |-> host[t].addr, line |-> host[t].next + 1]
    BY <1>5, StreamEdge
  <2>2. /\ t \in t_uid /\ host[t] \in HostReads /\ k \in 1..MAX_PAYLOAD_LINES
        /\ Lines(t) \in 1..MAX_PAYLOAD_LINES /\ host[t].lines = Lines(t)
        /\ host[t].next \in LineIdxs /\ host[t].next \in Nat
        /\ k <= Lines(t) - host[t].next
    BY <1>5, AnswerRead
  <2> HIDE DEF t, k
  <2>3. host[t].addr \in AfuTags /\ host[t].dm_encoded \in BOOLEAN
    BY <2>2 DEF HostReads
  <2> DEFINE remaining == host[t].lines - host[t].next
  <2>4. remaining \in Nat
    BY <2>2
  <2> HIDE DEF remaining
  <2>5. remaining % LEN_WRAP \in 0..LEN_WRAP /\ k % LEN_WRAP \in 0..LEN_WRAP
    BY <1>2, <2>2, <2>4
  <2>6. FirstBeat(t, k) =
          [sop |-> TRUE, eop |-> k = 1, tag |-> t,
           dm_encoded |-> host[t].dm_encoded, fc |-> k = remaining,
           byte_count |-> IF host[t].dm_encoded THEN 0 ELSE remaining % LEN_WRAP,
           length |-> k % LEN_WRAP,
           payload |-> [addr |-> host[t].addr, line |-> host[t].next]]
    BY DEF FirstBeat, remaining
  <2>7. [addr |-> host[t].addr, line |-> host[t].next] \in Payloads
    BY <2>2, <2>3 DEF Payloads
  <2>8. (IF host[t].dm_encoded THEN 0 ELSE remaining % LEN_WRAP) \in 0..LEN_WRAP
    BY <1>2, <2>5
  <2>9. FirstBeat(t, k) \in Beats
    BY <2>2, <2>3, <2>5, <2>6, <2>7, <2>8 DEF Beats
  <2>10. k # 1 => k - 1 \in LineIdxs \ {0} /\ host[t].next + 1 \in LineIdxs
    BY <1>2, <2>2 DEF LineIdxs
  <2>11. k # 1 => [left |-> k - 1, addr |-> host[t].addr, line |-> host[t].next + 1] \in Packets
    BY <2>3, <2>10 DEF Packets
  <2>12. k # 1 => packet' \in Packets /\ packet' # NoBeat
    BY <2>1, <2>11, NothingAssumption
  <2> QED
    BY <2>1, <2>9, <2>12 DEF k
<1>6. choice = Idle =>
        rx_cpl_tlps' \in Beats \union {NoBeat} /\ packet' \in Packets \union {NoBeat}
  BY <1>1, StreamEdge DEF TypeOK
<1>7. choice = Fence => packet' = NoBeat
  BY StreamEdge
<1>8. NoBeat \notin Beats
  BY NothingAssumption
<1> QED
  BY <1>3, <1>4, <1>5, <1>6, <1>7, <1>8, ChoiceCases

\* The read that the line on the stream and the packet belong to after an edge.
LEMMA PlacesEdge ==
    ASSUME NEW req, NEW tr, NEW at, NEW ar, NEW room, NEW choice, NEW dm,
           Edge(req, tr, at, ar, room, choice, dm)
    PROVE  /\ ~Free(ar) => RxTag' = RxTag /\ (IsLine' <=> IsLine) /\ PacketTag' = PacketTag
           /\ choice = Idle /\ Free(ar) => ~IsLine' /\ PacketTag' = PacketTag
           /\ choice = Continue => /\ IsLine' /\ ~rx_cpl_tlps'.sop
                                   /\ RxTag' = PacketTag /\ PacketTag' = PacketTag
           /\ choice = Fence => ~IsLine' /\ rx_cpl_tlps'.sop /\ rx_cpl_tlps'.eop
           /\ choice.kind = "answer" =>
                /\ IsLine' /\ rx_cpl_tlps'.sop
                /\ RxTag' = choice.tag /\ PacketTag' = choice.tag
<1>1. /\ ~Free(ar) => rx_cpl_tlps' = rx_cpl_tlps /\ RspTag' = RspTag
      /\ Free(ar) => RspTag' = PacketTag
  BY StreamEdge
<1>2. ~Free(ar) => RxTag' = RxTag /\ (IsLine' <=> IsLine) /\ PacketTag' = PacketTag
  BY <1>1 DEF RxTag, IsLine, PacketTag
<1>3. choice = Idle /\ Free(ar) => ~IsLine' /\ PacketTag' = PacketTag
  BY <1>1, StreamEdge DEF IsLine, PacketTag
<1>4. choice = Continue => /\ IsLine' /\ ~rx_cpl_tlps'.sop
                           /\ RxTag' = PacketTag /\ PacketTag' = PacketTag
  <2>1. choice = Continue => /\ rx_cpl_tlps' = NextBeat /\ rx_cpl_tlps' # NoBeat
                             /\ RspTag' = PacketTag
    BY <1>1, StreamEdge, BeatTypes
  <2>2. ~NextBeat.sop
    BY DEF NextBeat, HeaderlessBeat
  <2>3. choice = Continue => ~rx_cpl_tlps'.sop
    BY <2>1, <2>2
  <2> QED
    BY <2>1, <2>3 DEF IsLine, RxTag, PacketTag
<1>5. choice = Fence => ~IsLine' /\ rx_cpl_tlps'.sop /\ rx_cpl_tlps'.eop
  <2>1. choice = Fence => rx_cpl_tlps' = FenceBeat(0)
    BY StreamEdge
  <2>2. FenceBeat(0).sop /\ FenceBeat(0).eop /\ FenceBeat(0).tag = 0
    BY DEF FenceBeat
  <2>3. 0 < N_RESERVED
    BY UidAssumption, ReadTlpsAssumption
  <2>4. choice = Fence => /\ rx_cpl_tlps'.sop /\ rx_cpl_tlps'.eop /\ rx_cpl_tlps'.tag = 0
    BY <2>1, <2>2
  <2> QED
    BY <2>3, <2>4 DEF IsLine, IsWrFence
<1>6. choice.kind = "answer" =>
        /\ IsLine' /\ rx_cpl_tlps'.sop
        /\ RxTag' = choice.tag /\ PacketTag' = choice.tag
  <2>1. choice.kind = "answer" =>
          /\ rx_cpl_tlps' = FirstBeat(choice.tag, choice.lines) /\ rx_cpl_tlps' # NoBeat
          /\ ~IsWrFence(choice.tag)
    BY StreamEdge, BeatTypes, AnswerRead
  <2>2. /\ FirstBeat(choice.tag, choice.lines).sop
        /\ FirstBeat(choice.tag, choice.lines).tag = choice.tag
    BY DEF FirstBeat
  <2>3. choice.kind = "answer" =>
          /\ rx_cpl_tlps' # NoBeat /\ rx_cpl_tlps'.sop /\ rx_cpl_tlps'.tag = choice.tag
          /\ ~IsWrFence(choice.tag)
    BY <2>1, <2>2
  <2> QED
    BY <2>3 DEF IsLine, IsWrFence, RxTag, PacketTag
<1> QED
  BY <1>2, <1>3, <1>4, <1>5, <1>6

\* The lines of a read move from the packet to the stream, to the port and to
\* the AFU, and none is lost or repeated.
LEMMA Flows ==
    ASSUME NEW req, NEW tr, NEW at, NEW ar, NEW room, NEW choice, NEW dm,
           Edge(req, tr, at, ar, room, choice, dm), NEW t
    PROVE  /\ InRsp(t)' = InRsp(t) - Took(ar, t) + Passed(ar, t)
           /\ InRx(t)' = InRx(t) - Passed(ar, t) + Came(choice, t)
           /\ InPacket(t)' = InPacket(t) - Came(choice, t) + Packed(choice, t)
           /\ rx_tready(ar) => InRsp(t) = Took(ar, t)
           /\ ~rx_tready(ar) => Took(ar, t) = 0 /\ Passed(ar, t) = 0
           /\ Free(ar) => InRx(t) = Passed(ar, t)
           /\ ~Free(ar) => Passed(ar, t) = 0 /\ Came(choice, t) = 0
           /\ Took(ar, t) \in 0..1 /\ Passed(ar, t) \in 0..1 /\ Came(choice, t) \in 0..1
           /\ InRsp(t) \in 0..1 /\ InRx(t) \in 0..1 /\ InPacket(t) \in Nat
           /\ Packed(choice, t) \in Nat
<1>1. /\ RInv /\ TypeOK /\ ar \in BOOLEAN
  BY DEF Edge, RInv
<1> DEFINE free == Free(ar)
           ready == rx_tready(ar)
           acc == BeatAccepted(ar)
<1>2. /\ ready \in BOOLEAN /\ (ar => ready)
      /\ acc <=> rx_cpl_tlps # NoBeat /\ free
      /\ ready => (ar <=> afu_rd_rsp # NoRsp)
      /\ ~free => ~ar /\ ~ready /\ choice = Idle
      /\ RspTag' = IF free THEN PacketTag ELSE RspTag
      /\ ready => free
  BY StreamEdge DEF Free
<1>3. acc => ready
  BY DEF BeatAccepted
<1>4. /\ Took(ar, t) \in 0..1 /\ Passed(ar, t) \in 0..1 /\ Came(choice, t) \in 0..1
      /\ InRsp(t) \in 0..1 /\ InRx(t) \in 0..1
  BY DEF Took, Passed, Came, InRsp, InRx
<1>5. InPacket(t) \in Nat
  BY <1>1, LengthsInRange DEF TypeOK, Packets, LineIdxs, InPacket
<1>6. Packed(choice, t) \in Nat
  BY ChoiceCases DEF Packed, Answers
<1>7. ready => InRsp(t) = Took(ar, t)
  BY <1>2 DEF InRsp, Took
<1>8. ~ready => Took(ar, t) = 0 /\ Passed(ar, t) = 0
  BY <1>2, <1>3 DEF Took, Passed
<1>9. free => InRx(t) = Passed(ar, t)
  BY <1>2 DEF InRx, Passed, IsLine
<1>10. ~free => Passed(ar, t) = 0 /\ Came(choice, t) = 0
  BY <1>2, ChoiceCases DEF Passed, Came, Answers
<1>11. afu_rd_rsp' # NoRsp <=> IF ready THEN acc /\ IsLine ELSE afu_rd_rsp # NoRsp
  <2>1. afu_rd_rsp' =
          IF ~ready THEN afu_rd_rsp
          ELSE IF Decoded = NoCpl THEN NoRsp
          ELSE [tag |-> Decoded.tag, line_idx |-> Decoded.line_idx,
                last |-> Decoded.is_last /\ rx_cpl_tlps.eop,
                payload |-> rx_cpl_tlps.payload]
    BY DEF Edge, Engine, ResponseRegs, AfuRdRspNext, RspHolds
  <2>2. Decoded = NoCpl <=> ~IsLine
    BY <1>1, DecodedLine
  <2>3. IsLine => rx_cpl_tlps # NoBeat
    BY DEF IsLine
  <2>4. ready /\ IsLine => afu_rd_rsp' # NoRsp
    <3>1. SUFFICES ASSUME ready, IsLine PROVE afu_rd_rsp' # NoRsp
      OBVIOUS
    <3> DEFINE r == [tag |-> Decoded.tag, line_idx |-> Decoded.line_idx,
                     last |-> Decoded.is_last /\ rx_cpl_tlps.eop,
                     payload |-> rx_cpl_tlps.payload]
    <3>2. /\ Decoded \in Cpls /\ rx_cpl_tlps.payload \in Payloads
          /\ rx_cpl_tlps \in Beats
      BY <1>1, <2>3, <3>1, DecodedLine DEF RInv, BeatIsNext, TypeOK
    <3>3. /\ Decoded.tag \in AfuTags /\ Decoded.line_idx \in LineIdxs
          /\ Decoded.is_last \in BOOLEAN /\ rx_cpl_tlps.eop \in BOOLEAN
      BY <3>2 DEF Cpls, Beats
    <3>4. r \in Rsps
      BY <3>2, <3>3 DEF Rsps
    <3>5. afu_rd_rsp' = r
      BY <2>1, <2>2, <3>1
    <3> QED
      BY <3>4, <3>5, NothingAssumption
  <2> QED
    BY <1>2, <2>1, <2>2, <2>3, <2>4
<1>12. InRsp(t)' = IF afu_rd_rsp' # NoRsp /\ t = RspTag' THEN 1 ELSE 0
  BY DEF InRsp
<1>13. acc => PacketTag = RxTag
  BY <1>2 DEF PacketTag
<1> HIDE DEF free, ready, acc
<1>14. InRsp(t)' = InRsp(t) - Took(ar, t) + Passed(ar, t)
  <2>1. CASE ready
    <3>1. InRsp(t)' = Passed(ar, t)
      BY <1>2, <1>11, <1>12, <1>13, <2>1 DEF Passed, acc
    <3> QED
      BY <1>4, <1>7, <2>1, <3>1
  <2>2. CASE ~ready
    <3>1. InRsp(t)' = InRsp(t)
      <4>1. afu_rd_rsp' # NoRsp <=> afu_rd_rsp # NoRsp
        BY <1>11, <2>2
      <4>2. RspTag' = RspTag
        BY <1>2, <2>2 DEF free, Free, ready, PacketTag
      <4> QED
        BY <1>12, <4>1, <4>2 DEF InRsp
    <3> QED
      BY <1>4, <1>8, <2>2, <3>1
  <2> QED
    BY <2>1, <2>2
<1>15. InRx(t)' = InRx(t) - Passed(ar, t) + Came(choice, t)
  <2>1. InRx(t)' = IF IsLine' /\ t = RxTag' THEN 1 ELSE 0
    BY DEF InRx
  <2>2. CASE ~free
    <3>1. (IsLine' <=> IsLine) /\ RxTag' = RxTag
      BY <2>2, PlacesEdge DEF free
    <3>2. InRx(t)' = InRx(t)
      BY <2>1, <3>1 DEF InRx
    <3> QED
      BY <1>4, <1>10, <2>2, <3>2
  <2>3. CASE free
    <3>1. InRx(t)' = Came(choice, t)
      BY <2>1, <2>3, PlacesEdge, ChoiceCases DEF Came, Answers, free
    <3> QED
      BY <1>4, <1>9, <2>3, <3>1
  <2> QED
    BY <2>2, <2>3
<1>16. InPacket(t)' = InPacket(t) - Came(choice, t) + Packed(choice, t)
  <2>1. InPacket(t)' = IF packet' # NoBeat /\ t = PacketTag' THEN packet'.left ELSE 0
    BY DEF InPacket
  <2>2. CASE choice = Idle
    <3>1. packet' = packet /\ PacketTag' = PacketTag
      BY <2>2, StreamEdge, PlacesEdge
    <3>2. Came(choice, t) = 0 /\ Packed(choice, t) = 0
      BY <2>2, ChoiceCases DEF Came, Packed, Answers
    <3> QED
      BY <1>5, <2>1, <3>1, <3>2 DEF InPacket
  <2>3. CASE choice = Fence
    <3>1. packet' = NoBeat /\ packet = NoBeat
      BY <2>3, StreamEdge
    <3>2. Came(choice, t) = 0 /\ Packed(choice, t) = 0
      BY <2>3, ChoiceCases DEF Came, Packed, Answers
    <3> QED
      BY <2>1, <3>1, <3>2 DEF InPacket
  <2>4. CASE choice = Continue
    <3>1. /\ packet # NoBeat /\ PacketTag' = PacketTag
          /\ packet' = IF packet.left = 1 THEN NoBeat
                       ELSE [packet EXCEPT !.left = @ - 1, !.line = @ + 1]
          /\ packet' = NoBeat <=> packet.left = 1
      BY <2>4, StreamEdge, PlacesEdge, BeatTypes
    <3>2. packet \in Packets /\ packet.left \in Nat
      BY <1>1, <3>1, LengthsInRange DEF TypeOK, Packets, LineIdxs
    <3>3. packet' # NoBeat => packet'.left = packet.left - 1
      BY <3>1, <3>2 DEF Packets
    <3>4. Packed(choice, t) = 0 /\ Came(choice, t) = IF t = PacketTag THEN 1 ELSE 0
      BY <2>4, ChoiceCases DEF Came, Packed, Answers
    <3>5. InPacket(t) = IF t = PacketTag THEN packet.left ELSE 0
      BY <3>1 DEF InPacket
    <3> QED
      BY <2>1, <3>1, <3>2, <3>3, <3>4, <3>5
  <2>5. CASE choice.kind = "answer"
    <3>1. /\ packet = NoBeat /\ PacketTag' = choice.tag
          /\ choice.lines \in 1..MAX_PAYLOAD_LINES
          /\ packet' = IF choice.lines = 1 THEN NoBeat
                       ELSE [left |-> choice.lines - 1,
                             addr |-> host[choice.tag].addr,
                             line |-> host[choice.tag].next + 1]
          /\ packet' = NoBeat <=> choice.lines = 1
      BY <2>5, StreamEdge, PlacesEdge, BeatTypes, ChoiceCases
    <3>2. packet' # NoBeat => packet'.left = choice.lines - 1
      BY <3>1
    <3>3. /\ Packed(choice, t) = IF t = choice.tag THEN choice.lines ELSE 0
          /\ Came(choice, t) = IF t = choice.tag THEN 1 ELSE 0
      BY <2>5, ChoiceCases DEF Came, Packed, Answers
    <3>4. InPacket(t) = 0
      BY <3>1 DEF InPacket
    <3> QED
      BY <2>1, <3>1, <3>2, <3>3, <3>4, LengthsInRange
  <2> QED
    BY <2>2, <2>3, <2>4, <2>5, ChoiceCases
<1> QED
  BY <1>4, <1>5, <1>6, <1>7, <1>8, <1>9, <1>10, <1>14, <1>15, <1>16 DEF free, ready, acc

\* A read with a line on the stream or in a packet, or at the host, is not the
\* one that is freed.
LEMMA PlacesLive ==
    ASSUME NEW req, NEW tr, NEW at, NEW ar, NEW room, NEW choice, NEW dm,
           Edge(req, tr, at, ar, room, choice, dm), NEW t
    PROVE  /\ IsLine /\ t = RxTag => Live(ar, t) /\ InRx(t) = 1
           /\ packet # NoBeat /\ t = PacketTag => Live(ar, t)
           /\ choice.kind = "answer" /\ t = choice.tag => Live(ar, t)
           /\ t \in DOMAIN host => Live(ar, t)
           /\ ~ar /\ afu_rd_rsp # NoRsp /\ t = RspTag => Live(ar, t)
<1>1. /\ RInv /\ BeatIsNext /\ RspIsNext /\ OnTheWay
  BY DEF Edge, RInv
<1>2. /\ free_tlp_tag(ar) => ar
      /\ free_tlp_tag(ar) /\ t = RspTag =>
           InRx(t) = 0 /\ InPacket(t) = 0 /\ t \notin DOMAIN host
  BY FreedRead
<1>3. IsLine /\ t = RxTag => t \in held /\ InRx(t) = 1
  BY <1>1 DEF BeatIsNext, InRx
<1>4. packet # NoBeat /\ t = PacketTag => t \in held /\ InPacket(t) # 0
  <2>1. packet # NoBeat /\ t = PacketTag =>
          t \in held /\ InPacket(t) = packet.left /\ packet.left \in LineIdxs \ {0}
    BY <1>1, PacketRead
  <2> QED
    BY <2>1
<1>5. choice.kind = "answer" => choice.tag \in DOMAIN host
  BY ChoiceCases
<1>6. t \in DOMAIN host => t \in held
  BY <1>1 DEF OnTheWay
<1>7. afu_rd_rsp # NoRsp /\ t = RspTag => t \in held
  BY <1>1 DEF RspIsNext
<1> QED
  BY <1>2, <1>3, <1>4, <1>5, <1>6, <1>7 DEF Live

-----------------------------------------------------------------------------
(* Each part of the invariant about lines.                                 *)

\* The lines the host has sent are all on their way, in their order.
LEMMA InOrderEdge ==
    ASSUME NEW req, NEW tr, NEW at, NEW ar, NEW room, NEW choice, NEW dm,
           Edge(req, tr, at, ar, room, choice, dm)
    PROVE  InOrder'
<1>1. RInv /\ RspIsNext /\ BeatIsNext /\ OnTheWay
  BY DEF Edge, RInv
<1>2. ASSUME NEW t \in held'
      PROVE  Given(t)' + InRsp(t)' + InRx(t)' + InPacket(t)' = Answered(t)'
  <2>1. /\ InRsp(t)' = InRsp(t) - Took(ar, t) + Passed(ar, t)
        /\ InRx(t)' = InRx(t) - Passed(ar, t) + Came(choice, t)
        /\ InPacket(t)' = InPacket(t) - Came(choice, t) + Packed(choice, t)
        /\ Took(ar, t) \in 0..1 /\ Passed(ar, t) \in 0..1 /\ Came(choice, t) \in 0..1
        /\ InRsp(t) \in 0..1 /\ InRx(t) \in 0..1 /\ InPacket(t) \in Nat
        /\ Packed(choice, t) \in Nat
    BY Flows
  <2>2. CASE Live(ar, t)
    <3>1. /\ Given(t)' = Given(t) + Took(ar, t)
          /\ Answered(t)' = Answered(t) + Packed(choice, t)
      BY <2>2, LiveRead, AnsweredEdge
    <3>2. /\ Given(t) \in Nat /\ Answered(t) \in Nat
          /\ Given(t) + InRsp(t) + InRx(t) + InPacket(t) = Answered(t)
      BY <1>1, <2>2, HeldRead DEF Live
    <3> QED
      BY <2>1, <3>1, <3>2
  <2>3. CASE rd_req_deq(tr, at) /\ t = alloc_uid
    <3>1. t \notin held /\ Given(t)' = 0 /\ Answered(t)' = 0 /\ Packed(choice, t) = 0
      BY <2>3, NewRead, AnsweredEdge
    <3>2. InRsp(t) = 0 /\ InRx(t) = 0 /\ InPacket(t) = 0
      BY <1>1, <3>1, PacketRead DEF RspIsNext, BeatIsNext, InRsp, InRx, InPacket
    <3>3. Took(ar, t) = 0
      BY <3>1, FreedRead DEF Took
    <3>4. Passed(ar, t) = 0
      BY <1>1, <3>1 DEF Passed, BeatIsNext
    <3>5. Came(choice, t) = 0
      <4>1. choice = Continue => PacketTag \in held
        BY <1>1, StreamEdge, PacketRead
      <4>2. Answers(choice, t) => t \in held
        BY <1>1, ChoiceCases DEF Answers, OnTheWay
      <4> QED
        BY <3>1, <4>1, <4>2 DEF Came
    <3> QED
      BY <2>1, <3>1, <3>2, <3>3, <3>4, <3>5
  <2> QED
    BY <2>2, <2>3, HeldAfter
<1> QED
  BY <1>2 DEF InOrder

\* The AFU is offered the next line of a read.
LEMMA RspEdge ==
    ASSUME NEW req, NEW tr, NEW at, NEW ar, NEW room, NEW choice, NEW dm,
           Edge(req, tr, at, ar, room, choice, dm)
    PROVE  /\ RspIsNext' /\ afu_rd_rsp' \in Rsps \union {NoRsp} /\ RspTag' \in t_uid
           /\ afu_rd_rsp # NoRsp /\ ~ar => afu_rd_rsp' = afu_rd_rsp
           /\ afu_rd_rsp' # NoRsp => \E t : t = RspTag' /\ Live(ar, t)
<1>1. /\ RInv /\ TypeOK /\ RspIsNext /\ BeatIsNext /\ ar \in BOOLEAN
      /\ NoResponseBehindFence /\ IInv
  BY DEF Edge, RInv
<1>2. /\ rx_tready(ar) \in BOOLEAN /\ (ar => rx_tready(ar))
      /\ RspTag' = IF Free(ar) THEN PacketTag ELSE RspTag
      /\ rx_tready(ar) => Free(ar)
      /\ rx_tready(ar) => (ar <=> afu_rd_rsp # NoRsp)
  BY StreamEdge DEF Free
<1>3. afu_rd_rsp' =
        IF ~rx_tready(ar) THEN afu_rd_rsp
        ELSE IF Decoded = NoCpl THEN NoRsp
        ELSE [tag |-> Decoded.tag, line_idx |-> Decoded.line_idx,
              last |-> Decoded.is_last /\ rx_cpl_tlps.eop,
              payload |-> rx_cpl_tlps.payload]
  BY DEF Edge, Engine, ResponseRegs, AfuRdRspNext, RspHolds
<1>4. RspTag' \in t_uid
  <2>1. rx_cpl_tlps # NoBeat => rx_cpl_tlps.tag \in t_uid
    BY <1>1 DEF TypeOK, Beats
  <2> QED
    BY <1>1, <1>2, <2>1 DEF PacketTag, RxTag, RspTag, TypeOK
<1> DEFINE NextRsp(t) == [tag |-> Addr(t)', line_idx |-> Given(t)',
                       last |-> Given(t)' + 1 = Lines(t)',
                       payload |-> [addr |-> Addr(t)', line |-> Given(t)']]
<1>5. ASSUME NEW t, Live(ar, t), afu_rd_rsp' = NextRsp(t) PROVE afu_rd_rsp' \in Rsps
  <2>1. /\ Addr(t) \in AfuTags /\ Addr(t)' = Addr(t) /\ Lines(t)' = Lines(t)
        /\ Given(t)' = Given(t) + Took(ar, t) /\ Given(t)' < Lines(t)
        /\ Given(t) \in Nat /\ Took(ar, t) \in 0..1 /\ Lines(t) \in 1..MAX_PAYLOAD_LINES
    BY <1>1, <1>5, LiveRead, HeldRead, Flows DEF Live
  <2>2. Given(t)' \in LineIdxs
    BY <2>1, LengthsInRange DEF LineIdxs
  <2> DEFINE last == Given(t)' + 1 = Lines(t)'
  <2>3. last \in BOOLEAN
    OBVIOUS
  <2>4. afu_rd_rsp' = [tag |-> Addr(t)', line_idx |-> Given(t)', last |-> last,
                       payload |-> [addr |-> Addr(t)', line |-> Given(t)']]
    BY <1>5
  <2> HIDE DEF last
  <2> QED
    BY <2>1, <2>2, <2>3, <2>4 DEF Rsps, Payloads
<1>6. CASE ~rx_tready(ar)
  <2>1. afu_rd_rsp' = afu_rd_rsp /\ RspTag' = RspTag /\ ~ar
    BY <1>2, <1>3, <1>6 DEF Free, PacketTag
  <2>2. ASSUME afu_rd_rsp # NoRsp, NEW t, t = RspTag
        PROVE  Live(ar, t) /\ t \in held' /\ afu_rd_rsp' = NextRsp(t)
    <3>1. Live(ar, t)
      BY <2>1, <2>2, PlacesLive
    <3>2. /\ t \in held' /\ Addr(t)' = Addr(t) /\ Lines(t)' = Lines(t)
          /\ Given(t)' = Given(t) + Took(ar, t) /\ Given(t) \in Nat
      BY <1>1, <3>1, LiveRead, HeldRead DEF Live
    <3>3. Took(ar, t) = 0
      BY <2>1 DEF Took
    <3>4. Given(t)' = Given(t)
      BY <3>2, <3>3
    <3>5. afu_rd_rsp = [tag |-> Addr(t), line_idx |-> Given(t),
                        last |-> Given(t) + 1 = Lines(t),
                        payload |-> [addr |-> Addr(t), line |-> Given(t)]]
      BY <1>1, <2>2 DEF RspIsNext
    <3>6. afu_rd_rsp' = NextRsp(t)
      BY <2>1, <3>2, <3>4, <3>5
    <3> QED
      BY <3>1, <3>2, <3>6
  <2>3. ASSUME afu_rd_rsp' # NoRsp, NEW t, t = RspTag'
        PROVE  Live(ar, t) /\ t \in held' /\ afu_rd_rsp' = NextRsp(t)
    BY <2>1, <2>2, <2>3
  <2>4. afu_rd_rsp' \in Rsps \union {NoRsp}
    BY <1>1, <2>1 DEF TypeOK
  <2>5. RspIsNext'
    BY <2>3 DEF RspIsNext
  <2> QED
    BY <1>4, <2>1, <2>3, <2>4, <2>5
<1>7. CASE rx_tready(ar) /\ ~IsLine
  <2>1. afu_rd_rsp' = NoRsp
    BY <1>1, <1>3, <1>7, DecodedLine
  <2> QED
    BY <1>2, <1>4, <1>7, <2>1 DEF RspIsNext
<1>8. CASE rx_tready(ar) /\ IsLine
  <2>1. /\ RspTag' = RxTag
    BY <1>2, <1>8 DEF PacketTag, IsLine
  <2>2. ASSUME NEW t, t = RxTag
        PROVE  Live(ar, t) /\ t \in held' /\ afu_rd_rsp' = NextRsp(t)
    <3>1. Live(ar, t) /\ t \in held /\ InRx(t) = 1
      BY <1>8, <2>2, PlacesLive DEF Live
    <3>2. /\ t \in held' /\ Addr(t)' = Addr(t) /\ Lines(t)' = Lines(t)
          /\ Given(t)' = Given(t) + Took(ar, t)
      BY <3>1, LiveRead
    <3>3. /\ Given(t) \in Nat /\ InRsp(t) \in 0..1 /\ InPacket(t) \in Nat
          /\ Given(t) + InRsp(t) + InRx(t) + InPacket(t) = Answered(t)
          /\ t \in DOMAIN host => Answered(t) < Lines(t)
          /\ (AtTx(t) \/ AtAtomic(t)) => Answered(t) = 0
          /\ Lines(t) \in 1..MAX_PAYLOAD_LINES /\ Answered(t) \in Nat
          /\ Answered(t) <= Lines(t)
      BY <1>1, <3>1, HeldRead
    <3>4. InRsp(t) = Took(ar, t)
      BY <1>8, Flows
    <3>5. /\ rx_cpl_tlps.payload = [addr |-> Addr(t), line |-> Given(t)']
      <4>1. /\ rx_cpl_tlps.payload \in Payloads /\ rx_cpl_tlps.payload.addr = Addr(t)
            /\ rx_cpl_tlps.payload.line = Given(t) + InRsp(t)
        BY <1>1, <1>8, <2>2 DEF BeatIsNext
      <4>2. rx_cpl_tlps.payload.line = Given(t)'
        BY <3>2, <3>4, <4>1
      <4> QED
        BY <4>1, <4>2 DEF Payloads
    <3>6. (t \notin DOMAIN host /\ rx_cpl_tlps.eop) <=> Given(t)' + 1 = Lines(t)'
      <4>1. rx_cpl_tlps.eop <=> packet = NoBeat
        BY <1>1, <1>8 DEF BeatIsNext, IsLine
      <4>2. t = PacketTag
        BY <1>8, <2>2 DEF PacketTag, IsLine
      <4>3. packet = NoBeat => InPacket(t) = 0
        BY DEF InPacket
      <4>4. packet # NoBeat => InPacket(t) # 0
        <5>1. packet # NoBeat => InPacket(t) = packet.left /\ packet.left \in LineIdxs \ {0}
          BY <1>1, <4>2, PacketRead
        <5> QED
          BY <5>1
      <4>5. t \notin DOMAIN host /\ ~AtTx(t) /\ ~AtAtomic(t) => Answered(t) = Lines(t)
        BY DEF Answered
      <4> QED
        BY <3>1, <3>2, <3>3, <3>4, <4>1, <4>3, <4>4, <4>5, LengthsInRange
    <3>7. Decoded = [is_last |-> t \notin DOMAIN host, tag |-> Addr(t),
                     line_idx |-> rx_cpl_tlps.payload.line] /\ Decoded # NoCpl
      BY <1>1, <1>8, <2>2, DecodedLine
    <3>8. afu_rd_rsp' = [tag |-> Addr(t), line_idx |-> Given(t)',
                         last |-> t \notin DOMAIN host /\ rx_cpl_tlps.eop,
                         payload |-> [addr |-> Addr(t), line |-> Given(t)']]
      <4> DEFINE final == t \notin DOMAIN host
      <4>1. Decoded # NoCpl /\ Decoded = [is_last |-> final, tag |-> Addr(t),
                                         line_idx |-> rx_cpl_tlps.payload.line]
        BY <3>7
      <4> HIDE DEF final
      <4>2. Decoded.is_last = final /\ Decoded.tag = Addr(t)
            /\ Decoded.line_idx = Given(t)'
        BY <3>5, <4>1
      <4>3. afu_rd_rsp' = [tag |-> Addr(t), line_idx |-> Given(t)',
                           last |-> final /\ rx_cpl_tlps.eop,
                           payload |-> [addr |-> Addr(t), line |-> Given(t)']]
        BY <1>3, <1>8, <3>5, <4>1, <4>2
      <4> QED
        BY <4>3 DEF final
    <3>9. afu_rd_rsp' = NextRsp(t)
      BY <3>2, <3>6, <3>8
    <3> QED
      BY <3>1, <3>2, <3>9
  <2>3. afu_rd_rsp' \in Rsps
    BY <1>5, <2>2
  <2>4. RspIsNext'
    BY <2>1, <2>2 DEF RspIsNext
  <2> QED
    BY <1>2, <1>4, <1>8, <2>1, <2>2, <2>3, <2>4
<1> QED
  BY <1>2, <1>6, <1>7, <1>8

\* The line on the stream is the next one after the one on the port, and begins
\* or continues a packet.
LEMMA BeatEdge ==
    ASSUME NEW req, NEW tr, NEW at, NEW ar, NEW room, NEW choice, NEW dm,
           Edge(req, tr, at, ar, room, choice, dm)
    PROVE  BeatIsNext'
<1>1. RInv /\ BeatIsNext
  BY DEF Edge, RInv
<1> DEFINE IsNext(t) == /\ t \in held' /\ rx_cpl_tlps'.payload.addr = Addr(t)'
                        /\ rx_cpl_tlps'.payload \in Payloads
                        /\ rx_cpl_tlps'.payload.line = Given(t)' + InRsp(t)'
<1>2. ASSUME NEW t, Live(ar, t)
      PROVE  /\ t \in held /\ t \in held' /\ Addr(t)' = Addr(t) /\ Given(t) \in Nat
             /\ Given(t)' + InRsp(t)' = Given(t) + InRsp(t) + Passed(ar, t)
  <2>1. /\ t \in held /\ t \in held' /\ Addr(t)' = Addr(t)
        /\ Given(t)' = Given(t) + Took(ar, t)
    BY <1>2, LiveRead
  <2>2. Given(t) \in Nat
    BY <1>1, <2>1, HeldRead
  <2>3. /\ InRsp(t)' = InRsp(t) - Took(ar, t) + Passed(ar, t)
        /\ Took(ar, t) \in 0..1 /\ Passed(ar, t) \in 0..1 /\ InRsp(t) \in 0..1
    BY Flows
  <2> QED
    BY <2>1, <2>2, <2>3
<1>3. CASE ~Free(ar)
  <2>1. /\ rx_cpl_tlps' = rx_cpl_tlps /\ packet' = packet /\ RxTag' = RxTag
        /\ (IsLine' <=> IsLine)
    BY <1>3, StreamEdge, PlacesEdge
  <2>2. ASSUME IsLine, NEW t, t = RxTag PROVE IsNext(t)
    <3>1. Live(ar, t) /\ Passed(ar, t) = 0 /\ InRsp(t) \in 0..1
      BY <1>3, <2>2, PlacesLive, Flows
    <3>2. /\ rx_cpl_tlps.payload.addr = Addr(t) /\ rx_cpl_tlps.payload \in Payloads
          /\ rx_cpl_tlps.payload.line = Given(t) + InRsp(t)
      BY <1>1, <2>2 DEF BeatIsNext
    <3>3. /\ t \in held' /\ Addr(t)' = Addr(t) /\ Given(t) \in Nat
          /\ Given(t)' + InRsp(t)' = Given(t) + InRsp(t) + Passed(ar, t)
      BY <1>2, <3>1
    <3> QED
      BY <2>1, <3>1, <3>2, <3>3
  <2>3. /\ rx_cpl_tlps # NoBeat => (rx_cpl_tlps.eop <=> packet = NoBeat)
        /\ rx_cpl_tlps # NoBeat /\ ~IsLine => rx_cpl_tlps.eop
    BY <1>1 DEF BeatIsNext
  <2>4. IsLine' => IsNext(RxTag)
    BY <2>1, <2>2
  <2> HIDE DEF IsNext
  <2> QED
    BY <2>1, <2>3, <2>4 DEF BeatIsNext, IsNext
<1>4. CASE Free(ar) /\ choice = Idle
  BY <1>4, StreamEdge, PlacesEdge DEF BeatIsNext
<1>5. CASE choice = Fence
  BY <1>5, StreamEdge, PlacesEdge DEF BeatIsNext
<1>6. CASE choice = Continue
  <2>1. /\ Free(ar) /\ packet # NoBeat /\ rx_cpl_tlps' = NextBeat /\ IsLine'
        /\ RxTag' = PacketTag /\ PacketTag' = PacketTag
        /\ packet' = NoBeat <=> packet.left = 1
    BY <1>6, StreamEdge, PlacesEdge, BeatTypes
  <2>2. /\ NextBeat.payload = [addr |-> packet.addr, line |-> packet.line]
        /\ NextBeat.eop = (packet.left = 1)
    BY DEF NextBeat, HeaderlessBeat
  <2>3. ASSUME NEW t, t = PacketTag PROVE IsNext(t)
    <3>1. Live(ar, t) /\ Passed(ar, t) = InRx(t) /\ InRsp(t) \in 0..1 /\ InRx(t) \in 0..1
      BY <2>1, <2>3, PlacesLive, Flows
    <3>2. /\ packet.addr = Addr(t) /\ packet.addr \in AfuTags /\ packet.line \in LineIdxs
          /\ packet.line = Given(t) + InRsp(t) + InRx(t)
      BY <1>1, <2>1, <2>3, PacketRead
    <3>3. /\ t \in held' /\ Addr(t)' = Addr(t)
          /\ Given(t)' + InRsp(t)' = Given(t) + InRsp(t) + Passed(ar, t)
      BY <1>2, <3>1
    <3>4. /\ rx_cpl_tlps'.payload = [addr |-> packet.addr, line |-> packet.line]
      BY <2>1, <2>2
    <3> QED
      BY <3>1, <3>2, <3>3, <3>4 DEF Payloads
  <2>4. IsNext(PacketTag)
    BY <2>1, <2>3
  <2>5. rx_cpl_tlps'.eop <=> packet' = NoBeat
    BY <2>1, <2>2
  <2> HIDE DEF IsNext
  <2> QED
    BY <2>1, <2>4, <2>5 DEF BeatIsNext, IsNext
<1>7. CASE choice.kind = "answer"
  <2> DEFINE x == choice.tag
             k == choice.lines
  <2>1. /\ Free(ar) /\ rx_cpl_tlps' = FirstBeat(x, k) /\ IsLine' /\ RxTag' = x
        /\ packet' = NoBeat <=> k = 1
    BY <1>7, StreamEdge, PlacesEdge, BeatTypes
  <2>2. /\ FirstBeat(x, k).payload = [addr |-> host[x].addr, line |-> host[x].next]
        /\ FirstBeat(x, k).eop = (k = 1)
    BY DEF FirstBeat
  <2>3. ASSUME NEW t, t = x PROVE IsNext(t)
    <3>1. Live(ar, t) /\ Passed(ar, t) = InRx(t) /\ InRsp(t) \in 0..1 /\ InRx(t) \in 0..1
      BY <1>7, <2>1, <2>3, PlacesLive, Flows
    <3>2. /\ host[t].addr = Addr(t) /\ host[t] \in HostReads /\ host[t].next \in LineIdxs
          /\ Given(t) + InRsp(t) + InRx(t) = host[t].next
      BY <1>7, <2>3, AnswerRead
    <3>3. /\ t \in held' /\ Addr(t)' = Addr(t)
          /\ Given(t)' + InRsp(t)' = Given(t) + InRsp(t) + Passed(ar, t)
      BY <1>2, <3>1
    <3>4. rx_cpl_tlps'.payload = [addr |-> host[t].addr, line |-> host[t].next]
      BY <2>1, <2>2, <2>3
    <3>5. host[t].addr \in AfuTags
      BY <3>2 DEF HostReads
    <3> HIDE DEF x
    <3> QED
      BY <3>1, <3>2, <3>3, <3>4, <3>5 DEF Payloads
  <2>4. IsNext(x)
    BY <2>3
  <2>5. rx_cpl_tlps'.eop <=> packet' = NoBeat
    BY <2>1, <2>2
  <2> HIDE DEF IsNext, x
  <2> QED
    BY <2>1, <2>4, <2>5 DEF BeatIsNext, IsNext
<1> QED
  BY <1>3, <1>4, <1>5, <1>6, <1>7, ChoiceCases

\* What remains of the packet comes after the line on the stream.
LEMMA PacketEdge ==
    ASSUME NEW req, NEW tr, NEW at, NEW ar, NEW room, NEW choice, NEW dm,
           Edge(req, tr, at, ar, room, choice, dm)
    PROVE  PacketIsNext'
<1>1. RInv
  BY DEF Edge
<1> DEFINE IsNext(t) == /\ t \in held' /\ packet'.addr = Addr(t)'
                        /\ packet'.line = Given(t)' + InRsp(t)' + InRx(t)'
<1>2. ASSUME NEW t, Live(ar, t)
      PROVE  /\ t \in held /\ t \in held' /\ Addr(t)' = Addr(t) /\ Given(t) \in Nat
             /\ InRsp(t) \in 0..1 /\ InRx(t) \in 0..1 /\ Came(choice, t) \in 0..1
             /\ Given(t)' + InRsp(t)' + InRx(t)'
                  = Given(t) + InRsp(t) + InRx(t) + Came(choice, t)
  <2>1. /\ t \in held /\ t \in held' /\ Addr(t)' = Addr(t)
        /\ Given(t)' = Given(t) + Took(ar, t)
    BY <1>2, LiveRead
  <2>2. Given(t) \in Nat
    BY <1>1, <2>1, HeldRead
  <2>3. /\ InRsp(t)' = InRsp(t) - Took(ar, t) + Passed(ar, t)
        /\ InRx(t)' = InRx(t) - Passed(ar, t) + Came(choice, t)
        /\ Took(ar, t) \in 0..1 /\ Passed(ar, t) \in 0..1 /\ InRsp(t) \in 0..1
        /\ InRx(t) \in 0..1 /\ Came(choice, t) \in 0..1
    BY Flows
  <2> QED
    BY <2>1, <2>2, <2>3
<1>3. CASE choice = Idle
  <2>1. packet' = packet /\ PacketTag' = PacketTag
    BY <1>3, StreamEdge, PlacesEdge
  <2>2. ASSUME packet # NoBeat, NEW t, t = PacketTag PROVE IsNext(t)
    <3>1. Live(ar, t)
      BY <2>2, PlacesLive
    <3>2. Came(choice, t) = 0
      BY <1>3, ChoiceCases DEF Came, Answers
    <3>3. packet.addr = Addr(t) /\ packet.line = Given(t) + InRsp(t) + InRx(t)
      BY <1>1, <2>2, PacketRead
    <3>4. /\ t \in held' /\ Addr(t)' = Addr(t) /\ Given(t) \in Nat
          /\ InRsp(t) \in 0..1 /\ InRx(t) \in 0..1
          /\ Given(t)' + InRsp(t)' + InRx(t)'
               = Given(t) + InRsp(t) + InRx(t) + Came(choice, t)
      BY <1>2, <3>1
    <3> QED
      BY <2>1, <3>2, <3>3, <3>4
  <2>3. packet' # NoBeat => IsNext(PacketTag)
    BY <2>1, <2>2
  <2> HIDE DEF IsNext
  <2> QED
    BY <2>1, <2>3 DEF PacketIsNext, IsNext
<1>4. CASE choice = Fence
  BY <1>4, StreamEdge DEF PacketIsNext
<1>5. CASE choice = Continue
  <2>1. /\ packet # NoBeat /\ PacketTag' = PacketTag
        /\ packet' = IF packet.left = 1 THEN NoBeat
                     ELSE [packet EXCEPT !.left = @ - 1, !.line = @ + 1]
        /\ packet' = NoBeat <=> packet.left = 1
    BY <1>5, StreamEdge, PlacesEdge, BeatTypes
  <2>2. ASSUME packet' # NoBeat, NEW t, t = PacketTag PROVE IsNext(t)
    <3>1. Live(ar, t)
      BY <2>1, <2>2, PlacesLive
    <3>2. Came(choice, t) = 1
      BY <1>5, <2>2, ChoiceCases DEF Came, Answers
    <3>3. /\ packet \in Packets /\ packet.addr = Addr(t)
          /\ packet.line = Given(t) + InRsp(t) + InRx(t)
      BY <1>1, <2>1, <2>2, PacketRead
    <3>4. packet'.addr = packet.addr /\ packet'.line = packet.line + 1
      BY <2>1, <2>2, <3>3 DEF Packets
    <3>5. /\ t \in held' /\ Addr(t)' = Addr(t) /\ Given(t) \in Nat
          /\ InRsp(t) \in 0..1 /\ InRx(t) \in 0..1
          /\ Given(t)' + InRsp(t)' + InRx(t)'
               = Given(t) + InRsp(t) + InRx(t) + Came(choice, t)
      BY <1>2, <3>1
    <3> QED
      BY <3>2, <3>3, <3>4, <3>5
  <2>3. packet' # NoBeat => IsNext(PacketTag)
    BY <2>1, <2>2
  <2> HIDE DEF IsNext
  <2> QED
    BY <2>1, <2>3 DEF PacketIsNext, IsNext
<1>6. CASE choice.kind = "answer"
  <2> DEFINE x == choice.tag
             k == choice.lines
  <2>1. /\ PacketTag' = x
        /\ packet' = IF k = 1 THEN NoBeat
                     ELSE [left |-> k - 1, addr |-> host[x].addr, line |-> host[x].next + 1]
        /\ packet' = NoBeat <=> k = 1
    BY <1>6, StreamEdge, PlacesEdge, BeatTypes
  <2>2. ASSUME packet' # NoBeat, NEW t, t = x PROVE IsNext(t)
    <3>1. Live(ar, t)
      BY <1>6, <2>2, PlacesLive
    <3>2. Came(choice, t) = 1
      BY <1>6, <2>2 DEF Came, Answers
    <3>3. /\ host[t].addr = Addr(t)
          /\ Given(t) + InRsp(t) + InRx(t) = host[t].next
      BY <1>6, <2>2, AnswerRead
    <3>4. packet'.addr = host[t].addr /\ packet'.line = host[t].next + 1
      BY <2>1, <2>2
    <3>5. /\ t \in held' /\ Addr(t)' = Addr(t) /\ Given(t) \in Nat
          /\ InRsp(t) \in 0..1 /\ InRx(t) \in 0..1
          /\ Given(t)' + InRsp(t)' + InRx(t)'
               = Given(t) + InRsp(t) + InRx(t) + Came(choice, t)
      BY <1>2, <3>1
    <3> QED
      BY <3>2, <3>3, <3>4, <3>5
  <2>3. packet' # NoBeat => IsNext(x)
    BY <2>2
  <2> HIDE DEF IsNext, x
  <2> QED
    BY <2>1, <2>3 DEF PacketIsNext, IsNext
<1> QED
  BY <1>3, <1>4, <1>5, <1>6, ChoiceCases

\* A read with a line that the host has sent stays with the host or away from it
\* unless the host begins a packet for it.
LEMMA HostStays ==
    ASSUME NEW req, NEW tr, NEW at, NEW ar, NEW room, NEW choice, NEW dm,
           Edge(req, tr, at, ar, room, choice, dm), NEW t
    PROVE  /\ ~Answers(choice, t) /\ t \in DOMAIN host =>
                t \in DOMAIN host' /\ host'[t].next = host[t].next
           /\ t \in DOMAIN host' /\ t \notin DOMAIN host => host'[t].next = 0
           /\ Answers(choice, t) =>
                (t \in DOMAIN host' <=> host[t].next + choice.lines # host[t].lines)
           /\ t \in held /\ Answered(t) # 0 /\ ~Answers(choice, t) =>
                (t \in DOMAIN host' <=> t \in DOMAIN host)
<1>1. RInv /\ OnTheWay /\ TypeOK
  BY DEF Edge, RInv
<1>2. t \in DOMAIN host' <=> \/ t \in DOMAIN host /\ ~Finishes(choice, t)
                             \/ tr /\ AtTx(t)
                             \/ at /\ AtAtomic(t)
  BY HostBooks
<1>3. t \in DOMAIN host => /\ t \in held /\ host[t].next \in Nat /\ ~AtTx(t) /\ ~AtAtomic(t)
  BY <1>1, HeldRead, LengthsInRange DEF OnTheWay, TypeOK, HostReads, LineIdxs
<1>4. ASSUME ~Answers(choice, t), t \in DOMAIN host
      PROVE  t \in DOMAIN host' /\ host'[t].next = host[t].next
  <2>1. ~Finishes(choice, t) /\ Packed(choice, t) = 0
    BY <1>4 DEF Finishes, Packed
  <2>2. host'[t] = [addr |-> host[t].addr, lines |-> host[t].lines,
                    next |-> host[t].next + Packed(choice, t),
                    dm_encoded |-> host[t].dm_encoded]
    BY <1>4, <2>1, HostBooks
  <2> QED
    BY <1>2, <1>3, <1>4, <2>1, <2>2
<1>5. ASSUME t \in DOMAIN host', t \notin DOMAIN host PROVE host'[t].next = 0
  <2>1. \E d \in BOOLEAN :
          host'[t] = [addr |-> Addr(t), lines |-> Lines(t), next |-> 0, dm_encoded |-> d]
    BY <1>2, <1>5, HostBooks
  <2>2. \A d : [addr |-> Addr(t), lines |-> Lines(t), next |-> 0, dm_encoded |-> d].next = 0
    OBVIOUS
  <2> QED
    BY <2>1, <2>2
<1>6. Answers(choice, t) => t \in DOMAIN host
  BY ChoiceCases DEF Answers
<1>7. Answers(choice, t) =>
        (t \in DOMAIN host' <=> host[t].next + choice.lines # host[t].lines)
  BY <1>2, <1>3, <1>6 DEF Finishes
<1>8. t \in held /\ Answered(t) # 0 => ~AtTx(t) /\ ~AtAtomic(t)
  BY <1>1, HeldRead
<1> QED
  BY <1>2, <1>4, <1>5, <1>7, <1>8 DEF Finishes

\* The header of a packet says how many lines it has and whether it is the last
\* one of its read.
LEMMA HeaderEdge ==
    ASSUME NEW req, NEW tr, NEW at, NEW ar, NEW room, NEW choice, NEW dm,
           Edge(req, tr, at, ar, room, choice, dm)
    PROVE  Header'
<1>1. RInv /\ Header /\ TypeOK
  BY DEF Edge, RInv
<1> DEFINE Says(t) ==
      /\ rx_cpl_tlps'.fc <=> t \notin DOMAIN host'
      /\ ~rx_cpl_tlps'.dm_encoded =>
           rx_cpl_tlps'.byte_count = (Lines(t)' - rx_cpl_tlps'.payload.line) % LEN_WRAP
      /\ ~rx_cpl_tlps'.fc => rx_cpl_tlps'.length = 1 + InPacket(t)'
<1>2. CASE ~Free(ar)
  <2>1. /\ rx_cpl_tlps' = rx_cpl_tlps /\ RxTag' = RxTag /\ (IsLine' <=> IsLine)
        /\ choice = Idle
    BY <1>2, StreamEdge, PlacesEdge
  <2>2. ASSUME IsLine, rx_cpl_tlps.sop, NEW t, t = RxTag PROVE Says(t)
    <3>1. Live(ar, t) /\ InRx(t) = 1 /\ t \in held
      BY <2>2, PlacesLive DEF Live
    <3>2. Lines(t)' = Lines(t)
      BY <3>1, LiveRead
    <3>3. ~Answers(choice, t) /\ Packed(choice, t) = 0 /\ Came(choice, t) = 0
      BY <2>1, ChoiceCases DEF Answers, Packed, Came
    <3>4. InPacket(t)' = InPacket(t)
      BY <3>3, Flows
    <3>5. Answered(t) # 0
      BY <1>1, <3>1, HeldRead
    <3>6. t \in DOMAIN host' <=> t \in DOMAIN host
      BY <3>1, <3>3, <3>5, HostStays
    <3>7. /\ rx_cpl_tlps.fc <=> t \notin DOMAIN host
          /\ ~rx_cpl_tlps.dm_encoded =>
               rx_cpl_tlps.byte_count = (Lines(t) - rx_cpl_tlps.payload.line) % LEN_WRAP
          /\ ~rx_cpl_tlps.fc => rx_cpl_tlps.length = 1 + InPacket(t)
      BY <1>1, <2>2 DEF Header
    <3> QED
      BY <2>1, <3>2, <3>4, <3>6, <3>7
  <2>3. IsLine' /\ rx_cpl_tlps'.sop => Says(RxTag)
    BY <2>1, <2>2
  <2> HIDE DEF Says
  <2> QED
    BY <2>1, <2>3 DEF Header, Says
<1>3. CASE Free(ar) /\ choice = Idle
  BY <1>3, PlacesEdge DEF Header
<1>4. CASE choice = Fence
  BY <1>4, PlacesEdge DEF Header
<1>5. CASE choice = Continue
  BY <1>5, PlacesEdge DEF Header
<1>6. CASE choice.kind = "answer"
  <2> DEFINE x == choice.tag
             k == choice.lines
  <2>1. rx_cpl_tlps' = FirstBeat(x, k) /\ RxTag' = x
    BY <1>6, StreamEdge, PlacesEdge
  <2>2. ASSUME NEW t, t = x PROVE Says(t)
    <3>1. Live(ar, t) /\ Answers(choice, t)
      BY <1>6, <2>2, PlacesLive DEF Answers
    <3>2. /\ host[t].lines = Lines(t) /\ k \in 1..MAX_PAYLOAD_LINES
          /\ Lines(t) \in 1..MAX_PAYLOAD_LINES
          /\ host[t].next \in Nat /\ k <= Lines(t) - host[t].next
          /\ InPacket(t) = 0
      BY <1>6, <2>2, AnswerRead
    <3>3. Lines(t)' = Lines(t)
      BY <3>1, LiveRead
    <3>4. t \in DOMAIN host' <=> host[t].next + k # host[t].lines
      BY <3>1, HostStays
    <3>5. InPacket(t)' = k - 1
      <4>1. Came(choice, t) = 1 /\ Packed(choice, t) = k
        BY <3>1 DEF Came, Packed
      <4>2. InPacket(t)' = InPacket(t) - Came(choice, t) + Packed(choice, t)
        BY Flows
      <4> HIDE DEF k
      <4> QED
        BY <3>2, <4>1, <4>2, LengthsInRange
    <3> DEFINE remaining == host[t].lines - host[t].next
    <3>6. FirstBeat(t, k) =
            [sop |-> TRUE, eop |-> k = 1, tag |-> t,
             dm_encoded |-> host[t].dm_encoded, fc |-> k = remaining,
             byte_count |-> IF host[t].dm_encoded THEN 0 ELSE remaining % LEN_WRAP,
             length |-> k % LEN_WRAP,
             payload |-> [addr |-> host[t].addr, line |-> host[t].next]]
      BY DEF FirstBeat
    <3> HIDE DEF remaining, k
    <3>7. /\ rx_cpl_tlps'.fc = (k = remaining) /\ rx_cpl_tlps'.length = k % LEN_WRAP
          /\ rx_cpl_tlps'.payload.line = host[t].next
          /\ rx_cpl_tlps'.dm_encoded = host[t].dm_encoded
          /\ rx_cpl_tlps'.byte_count =
               IF host[t].dm_encoded THEN 0 ELSE remaining % LEN_WRAP
      BY <2>1, <2>2, <3>6
    <3>8. k # remaining => k % LEN_WRAP = k
      <4>1. k # remaining => k \in 0..LEN_WRAP - 1
        BY <3>2, LengthsInRange, WrapAtLeastPayload DEF remaining
      <4>2. LEN_WRAP \in Nat \ {0}
        BY ReadTlpsAssumption
      <4> QED
        BY <4>1, <4>2, SmallRemainder
    <3>9. (k = remaining) <=> t \notin DOMAIN host'
      BY <3>2, <3>4, LengthsInRange DEF remaining
    <3>10. remaining = Lines(t)' - rx_cpl_tlps'.payload.line
      BY <3>2, <3>3, <3>7 DEF remaining
    <3>11. ~rx_cpl_tlps'.dm_encoded =>
             rx_cpl_tlps'.byte_count = (Lines(t)' - rx_cpl_tlps'.payload.line) % LEN_WRAP
      BY <3>7, <3>10
    <3>12. ~rx_cpl_tlps'.fc => rx_cpl_tlps'.length = 1 + InPacket(t)'
      <4>1. 1 + InPacket(t)' = k
        BY <3>2, <3>5
      <4>2. ~rx_cpl_tlps'.fc => rx_cpl_tlps'.length = k
        BY <3>7, <3>8
      <4> QED
        BY <4>1, <4>2
    <3> QED
      BY <3>7, <3>9, <3>11, <3>12
  <2>3. Says(x)
    BY <2>2
  <2> HIDE DEF Says, x
  <2> QED
    BY <2>1, <2>3 DEF Header, Says
<1> QED
  BY <1>2, <1>3, <1>4, <1>5, <1>6, ChoiceCases

\* The engine keeps what it needs for the beats without a header.
LEMMA InProgressEdge ==
    ASSUME NEW req, NEW tr, NEW at, NEW ar, NEW room, NEW choice, NEW dm,
           Edge(req, tr, at, ar, room, choice, dm)
    PROVE  InProgress' /\ reg_afu_rd_rsp' \in Cpls \union {NoCpl}
<1>1. RInv /\ InProgress /\ TypeOK /\ BeatIsNext
  BY DEF Edge, RInv
<1>2. reg_afu_rd_rsp' = IF ~BeatAccepted(ar) THEN reg_afu_rd_rsp
                        ELSE IF rx_cpl_tlps.eop THEN NoCpl ELSE Decoded
  BY DEF Edge, Engine, ResponseRegs, CplInProgressNext
<1>3. BeatAccepted(ar) <=> rx_cpl_tlps # NoBeat /\ Free(ar)
  BY StreamEdge
<1>4. rx_cpl_tlps # NoBeat => /\ rx_cpl_tlps.eop <=> packet = NoBeat
                              /\ ~rx_cpl_tlps.eop => IsLine
  BY <1>1 DEF BeatIsNext
<1>5. reg_afu_rd_rsp' \in Cpls \union {NoCpl}
  <2>1. BeatAccepted(ar) /\ ~rx_cpl_tlps.eop => Decoded \in Cpls
    BY <1>1, <1>3, <1>4, DecodedLine
  <2> QED
    BY <1>1, <1>2, <2>1 DEF TypeOK
<1> DEFINE Holds(t, line) == /\ reg_afu_rd_rsp' # NoCpl
                             /\ reg_afu_rd_rsp'.is_last <=> t \notin DOMAIN host'
                             /\ reg_afu_rd_rsp'.tag = Addr(t)'
                             /\ reg_afu_rd_rsp'.line_idx + 1 = line
\* The read of an open packet is known to the host as before.
<1>6. ASSUME NEW t, Live(ar, t), InRx(t) = 1 \/ InPacket(t) # 0, ~Answers(choice, t)
      PROVE  Addr(t)' = Addr(t) /\ (t \in DOMAIN host' <=> t \in DOMAIN host)
  <2>1. t \in held /\ Addr(t)' = Addr(t)
    BY <1>6, LiveRead
  <2>2. Answered(t) # 0
    BY <1>1, <1>6, <2>1, HeldRead
  <2> QED
    BY <1>6, <2>1, <2>2, HostStays
<1>7. CASE ~Free(ar)
  <2>1. /\ rx_cpl_tlps' = rx_cpl_tlps /\ packet' = packet /\ rx_cpl_tlps # NoBeat
        /\ RspTag' = RspTag /\ choice = Idle
    BY <1>7, StreamEdge DEF Free
  <2>2. reg_afu_rd_rsp' = reg_afu_rd_rsp
    BY <1>2, <1>3, <1>7
  <2>3. (Open' <=> Open) /\ OpenLine' = OpenLine
    BY <2>1 DEF Open, OpenLine
  <2>4. ASSUME Open, NEW t, t = RspTag PROVE Holds(t, OpenLine)
    <3>1. ~rx_cpl_tlps.sop /\ IsLine /\ t = RxTag
      BY <2>1, <2>4 DEF Open, IsLine, RxTag
    <3>2. Live(ar, t) /\ InRx(t) = 1 /\ ~Answers(choice, t)
      BY <2>1, <3>1, PlacesLive, ChoiceCases DEF Answers
    <3>3. Addr(t)' = Addr(t) /\ (t \in DOMAIN host' <=> t \in DOMAIN host)
      BY <1>6, <3>2
    <3>4. /\ reg_afu_rd_rsp # NoCpl /\ (reg_afu_rd_rsp.is_last <=> t \notin DOMAIN host)
          /\ reg_afu_rd_rsp.tag = Addr(t) /\ reg_afu_rd_rsp.line_idx + 1 = OpenLine
      BY <1>1, <2>4 DEF InProgress
    <3> QED
      BY <2>2, <2>3, <3>3, <3>4
  <2>5. Open' => Holds(RspTag, OpenLine')
    BY <2>1, <2>3, <2>4
  <2>6. ~Open' => reg_afu_rd_rsp' = NoCpl
    BY <1>1, <2>2, <2>3 DEF InProgress
  <2> HIDE DEF Holds
  <2> QED
    BY <1>5, <2>1, <2>5, <2>6 DEF InProgress, Holds
<1>8. ASSUME Free(ar), packet = NoBeat PROVE reg_afu_rd_rsp' = NoCpl
  <2>1. CASE rx_cpl_tlps = NoBeat
    BY <1>1, <1>2, <1>3, <1>8, <2>1 DEF InProgress, Open
  <2>2. CASE rx_cpl_tlps # NoBeat
    BY <1>2, <1>3, <1>4, <1>8, <2>2
  <2> QED
    BY <2>1, <2>2
<1>9. ASSUME Free(ar), packet # NoBeat, choice = Idle \/ choice = Continue,
             NEW t, t = PacketTag
      PROVE  Holds(t, packet.line)
  <2>1. Live(ar, t) /\ InPacket(t) # 0 /\ t \in held
    <3>1. InPacket(t) = packet.left /\ packet.left \in LineIdxs \ {0}
      BY <1>1, <1>9, PacketRead
    <3> QED
      BY <1>9, <3>1, PlacesLive DEF Live
  <2>2. Addr(t)' = Addr(t) /\ (t \in DOMAIN host' <=> t \in DOMAIN host)
    <3>1. ~Answers(choice, t)
      BY <1>9, ChoiceCases DEF Answers
    <3> QED
      BY <1>6, <2>1, <3>1
  <2>3. CASE rx_cpl_tlps = NoBeat
    <3>1. Open /\ OpenLine = packet.line /\ t = RspTag
      BY <1>9, <2>3 DEF Open, OpenLine, PacketTag
    <3>2. /\ reg_afu_rd_rsp # NoCpl /\ (reg_afu_rd_rsp.is_last <=> t \notin DOMAIN host)
          /\ reg_afu_rd_rsp.tag = Addr(t) /\ reg_afu_rd_rsp.line_idx + 1 = packet.line
      BY <1>1, <3>1 DEF InProgress
    <3>3. reg_afu_rd_rsp' = reg_afu_rd_rsp
      BY <1>2, <1>3, <2>3
    <3> QED
      BY <2>2, <3>2, <3>3
  <2>4. CASE rx_cpl_tlps # NoBeat
    <3>1. IsLine /\ t = RxTag /\ reg_afu_rd_rsp' = Decoded
      BY <1>2, <1>3, <1>4, <1>9, <2>4 DEF PacketTag
    <3>2. /\ Decoded = [is_last |-> t \notin DOMAIN host, tag |-> Addr(t),
                        line_idx |-> rx_cpl_tlps.payload.line]
          /\ Decoded # NoCpl
      BY <1>1, <3>1, DecodedLine
    <3>3. /\ reg_afu_rd_rsp' # NoCpl /\ (reg_afu_rd_rsp'.is_last <=> t \notin DOMAIN host)
          /\ reg_afu_rd_rsp'.tag = Addr(t)
          /\ reg_afu_rd_rsp'.line_idx = rx_cpl_tlps.payload.line
      BY <3>1, <3>2
    <3>4. rx_cpl_tlps.payload.line + 1 = packet.line
      <4>1. packet.line = Given(t) + InRsp(t) + InRx(t)
        BY <1>1, <1>9, PacketRead
      <4>2. rx_cpl_tlps.payload.line = Given(t) + InRsp(t) /\ InRx(t) = 1
        BY <1>1, <3>1 DEF BeatIsNext, InRx
      <4> QED
        BY <4>1, <4>2
    <3> QED
      BY <2>2, <3>3, <3>4
  <2> QED
    BY <2>3, <2>4
<1>10. CASE Free(ar) /\ choice = Idle
  <2>1. /\ rx_cpl_tlps' = NoBeat /\ packet' = packet /\ RspTag' = PacketTag
        /\ PacketTag' = PacketTag
    BY <1>10, StreamEdge, PlacesEdge
  <2>2. /\ Open' <=> packet # NoBeat
        /\ OpenLine' = packet.line
    BY <2>1 DEF Open, OpenLine
  <2>3. packet # NoBeat => Holds(PacketTag, packet.line)
    BY <1>9, <1>10, <2>1
  <2> HIDE DEF Holds
  <2> QED
    BY <1>5, <1>8, <1>10, <2>1, <2>2, <2>3 DEF InProgress, Holds
<1>11. CASE choice = Continue
  <2>1. /\ Free(ar) /\ packet # NoBeat /\ rx_cpl_tlps' = NextBeat /\ RspTag' = PacketTag
        /\ PacketTag' = PacketTag /\ ~rx_cpl_tlps'.sop /\ rx_cpl_tlps' # NoBeat
    BY <1>11, StreamEdge, PlacesEdge, BeatTypes
  <2>2. NextBeat.payload.line = packet.line
    BY DEF NextBeat, HeaderlessBeat
  <2>3. Open' /\ OpenLine' = packet.line
    BY <2>1, <2>2 DEF Open, OpenLine
  <2>4. Holds(PacketTag, packet.line)
    BY <1>9, <1>11, <2>1
  <2> HIDE DEF Holds
  <2> QED
    BY <1>5, <2>1, <2>3, <2>4 DEF InProgress, Holds
<1>12. CASE choice = Fence \/ choice.kind = "answer"
  <2>1. /\ Free(ar) /\ packet = NoBeat /\ rx_cpl_tlps' # NoBeat /\ rx_cpl_tlps'.sop
    BY <1>12, StreamEdge, PlacesEdge, BeatTypes
  <2>2. ~Open'
    BY <2>1 DEF Open
  <2> QED
    BY <1>5, <1>8, <2>1, <2>2 DEF InProgress
<1> QED
  BY <1>7, <1>10, <1>11, <1>12, ChoiceCases

\* While the memory of the counts is initialized no read has a tag.
LEMMA NothingBegun ==
    ASSUME RInv, ~track_ready
    PROVE  held = {} /\ DOMAIN host = {} /\ ~IsLine /\ \A t \in t_uid : Counted(t) = 0
<1>1. IInv /\ Together /\ OnTheWay /\ BeatIsNext
  BY DEF RInv
<1>2. held = {}
  BY <1>1 DEF IInv, Clearing, Together
<1>3. DOMAIN host = {} /\ ~IsLine
  BY <1>1, <1>2 DEF OnTheWay, BeatIsNext
<1> QED
  BY <1>2, <1>3 DEF Counted

\* An accepted header adds its lines to the count of its tag, or clears it when
\* no more are to come.
LEMMA HeaderCounted ==
    ASSUME RInv, track_ready, IsLine, rx_cpl_tlps.sop, NEW t, t = RxTag
    PROVE  TrackerWrite = IF t \in DOMAIN host THEN host[t].next ELSE 0
<1>1. RInv /\ Header /\ Counts /\ BeatIsNext /\ TypeOK
  BY DEF RInv
<1>2. t = rx_cpl_tlps.tag /\ t \in held
  BY <1>1 DEF RxTag, BeatIsNext
<1>3. /\ t \in t_uid /\ Given(t) \in Nat /\ InRsp(t) \in 0..1 /\ InPacket(t) \in Nat
      /\ Given(t) + InRsp(t) + InRx(t) + InPacket(t) = Answered(t)
      /\ t \in DOMAIN host => Answered(t) = host[t].next
  BY <1>1, <1>2, HeldRead
<1>4. /\ rx_cpl_tlps.fc <=> t \notin DOMAIN host
      /\ ~rx_cpl_tlps.fc => rx_cpl_tlps.length = 1 + InPacket(t)
  BY <1>1 DEF Header
<1>5. rx_cpl_tlps.payload.line = Given(t) + InRsp(t) /\ InRx(t) = 1
  BY <1>1 DEF BeatIsNext, InRx
<1>6. rd_rsp_tracker[t] = rx_cpl_tlps.payload.line
  BY <1>1, <1>2, <1>3 DEF Counts, Counted
<1>7. TrackerWrite = IF rx_cpl_tlps.fc THEN 0 ELSE rd_rsp_tracker[t] + rx_cpl_tlps.length
  BY <1>2 DEF TrackerWrite
<1>8. t \in DOMAIN host => TrackerWrite = host[t].next
  BY <1>3, <1>4, <1>5, <1>6, <1>7
<1> QED
  BY <1>4, <1>7, <1>8

\* The counts are what the host has sent of each read up to the header that
\* waits.
LEMMA CountsEdge ==
    ASSUME NEW req, NEW tr, NEW at, NEW ar, NEW room, NEW choice, NEW dm,
           Edge(req, tr, at, ar, room, choice, dm)
    PROVE  Counts' /\ rd_rsp_tracker' \in [t_uid -> 0..MAX_PAYLOAD_LINES]
<1>1. RInv /\ TypeOK /\ Counts /\ OnTheWay /\ BeatIsNext
  BY DEF Edge, RInv
<1>2. /\ rd_rsp_tracker \in [t_uid -> 0..MAX_PAYLOAD_LINES] /\ track_waddr \in t_uid
      /\ track_ready \in BOOLEAN /\ MAX_PAYLOAD_LINES \in Nat
  BY <1>1, LengthsInRange DEF TypeOK
<1>3. rd_rsp_tracker' = RdRspTrackerNext(ar)
  BY DEF Edge, Engine
<1>4. /\ track_ready' = (track_ready \/ track_waddr = N_ENTRIES - 1)
      /\ track_waddr' = IF track_ready \/ track_waddr = N_ENTRIES - 1
                        THEN 0 ELSE track_waddr + 1
  BY DEF Edge, Engine
\* What the new header and the host's books say of each tag.
<1>5. ASSUME NEW t
      PROVE  Counted(t)' = IF t \in DOMAIN host /\ choice.kind = "answer" /\ t = choice.tag
                           THEN host[t].next
                           ELSE IF ~Free(ar) /\ IsLine /\ rx_cpl_tlps.sop /\ t = rx_cpl_tlps.tag
                           THEN rx_cpl_tlps.payload.line
                           ELSE IF t \in DOMAIN host THEN host[t].next ELSE 0
  <2>1. Counted(t)' = IF IsLine' /\ rx_cpl_tlps'.sop /\ t = rx_cpl_tlps'.tag
                      THEN rx_cpl_tlps'.payload.line
                      ELSE IF t \in DOMAIN host' THEN host'[t].next ELSE 0
    BY DEF Counted
  <2>2. ~Answers(choice, t) =>
          (IF t \in DOMAIN host' THEN host'[t].next ELSE 0) =
            (IF t \in DOMAIN host THEN host[t].next ELSE 0)
    <3>1. /\ ~Answers(choice, t) /\ t \in DOMAIN host =>
               t \in DOMAIN host' /\ host'[t].next = host[t].next
          /\ t \in DOMAIN host' /\ t \notin DOMAIN host => host'[t].next = 0
      BY HostStays
    <3> QED
      BY <3>1
  <2>3. CASE ~Free(ar)
    <3>1. /\ rx_cpl_tlps' = rx_cpl_tlps /\ (IsLine' <=> IsLine)
          /\ choice = Idle /\ choice.kind # "answer"
      BY <2>3, StreamEdge, PlacesEdge, ChoiceCases
    <3>2. ~Answers(choice, t)
      BY <3>1 DEF Answers
    <3> QED
      BY <2>1, <2>2, <2>3, <3>1, <3>2
  <2>4. CASE Free(ar) /\ choice.kind # "answer"
    <3>1. ~(IsLine' /\ rx_cpl_tlps'.sop) /\ ~Answers(choice, t)
      BY <2>4, PlacesEdge, ChoiceCases DEF Answers
    <3> QED
      BY <2>1, <2>2, <2>4, <3>1
  <2>5. CASE Free(ar) /\ choice.kind = "answer"
    <3> DEFINE x == choice.tag
               k == choice.lines
    <3>1. /\ rx_cpl_tlps' = FirstBeat(x, k) /\ IsLine' /\ rx_cpl_tlps'.sop /\ x \in DOMAIN host
      BY <2>5, StreamEdge, PlacesEdge, ChoiceCases
    <3>2. FirstBeat(x, k).tag = x /\ FirstBeat(x, k).payload.line = host[x].next
      BY DEF FirstBeat
    <3>3. rx_cpl_tlps'.tag = x /\ rx_cpl_tlps'.payload.line = host[x].next
      BY <3>1, <3>2
    <3>4. t # x => ~Answers(choice, t)
      BY DEF Answers
    <3> HIDE DEF k
    <3> QED
      BY <2>1, <2>2, <2>5, <3>1, <3>3, <3>4
  <2> QED
    BY <2>3, <2>4, <2>5, StreamEdge
<1>6. CASE ~track_ready
  <2>1. rd_rsp_tracker' = [rd_rsp_tracker EXCEPT ![track_waddr] = 0]
    BY <1>3, <1>6 DEF RdRspTrackerNext
  <2>2. DOMAIN host = {} /\ ~IsLine /\ \A t \in t_uid : Counted(t) = 0
    BY <1>1, <1>6, NothingBegun
  <2>3. \A t \in t_uid : Counted(t)' = 0
    BY <1>5, <2>2
  <2>4. ASSUME NEW t \in t_uid, track_ready' \/ t < track_waddr'
        PROVE  rd_rsp_tracker'[t] = 0
    <3>1. t = track_waddr \/ t < track_waddr
      BY <1>2, <1>4, <1>6, <2>4, UidAssumption DEF t_uid
    <3>2. t < track_waddr => rd_rsp_tracker[t] = 0
      BY <1>1, <2>2 DEF Counts
    <3> QED
      BY <1>2, <2>1, <3>1, <3>2
  <2>5. rd_rsp_tracker' \in [t_uid -> 0..MAX_PAYLOAD_LINES]
    BY <1>2, <2>1
  <2> QED
    BY <2>3, <2>4, <2>5 DEF Counts
<1>7. CASE track_ready
  <2>1. Decoded # NoCpl <=> IsLine
    BY <1>1, DecodedLine
  <2>2. rd_rsp_tracker' =
          IF BeatAccepted(ar) /\ IsLine /\ rx_cpl_tlps.sop
          THEN [rd_rsp_tracker EXCEPT ![rx_cpl_tlps.tag] = TrackerWrite]
          ELSE rd_rsp_tracker
    BY <1>3, <1>7, <2>1 DEF RdRspTrackerNext, BeatAccepted, IsLine
  <2>3. BeatAccepted(ar) <=> rx_cpl_tlps # NoBeat /\ Free(ar)
    BY StreamEdge
  <2>4. \A t \in t_uid : rd_rsp_tracker[t] = Counted(t)
    BY <1>1, <1>7 DEF Counts
  <2>5. \A t \in DOMAIN host : host[t].next \in 0..MAX_PAYLOAD_LINES
    BY <1>1, LengthsInRange DEF TypeOK, HostReads, LineIdxs
  <2>6. CASE BeatAccepted(ar) /\ IsLine /\ rx_cpl_tlps.sop
    <3> DEFINE x == rx_cpl_tlps.tag
    <3>1. x = RxTag /\ x \in t_uid /\ Free(ar)
      BY <1>1, <2>3, <2>6 DEF RxTag, IsLine, TypeOK, Beats
    <3>2. TrackerWrite = IF x \in DOMAIN host THEN host[x].next ELSE 0
      BY <1>1, <1>7, <2>6, <3>1, HeaderCounted
    <3>3. rd_rsp_tracker' = [rd_rsp_tracker EXCEPT ![x] = TrackerWrite]
      BY <2>2, <2>6
    <3>4. ASSUME NEW t \in t_uid, t = x PROVE rd_rsp_tracker'[t] = Counted(t)'
      BY <1>2, <1>5, <3>1, <3>2, <3>3, <3>4
    <3>5. ASSUME NEW t \in t_uid, t # x PROVE rd_rsp_tracker'[t] = Counted(t)'
      <4>1. Counted(t) = IF t \in DOMAIN host THEN host[t].next ELSE 0
        BY <3>5 DEF Counted
      <4> QED
        BY <1>2, <1>5, <2>4, <3>1, <3>3, <3>5, <4>1
    <3>6. TrackerWrite \in 0..MAX_PAYLOAD_LINES
      BY <1>2, <2>5, <3>2
    <3>7. rd_rsp_tracker' \in [t_uid -> 0..MAX_PAYLOAD_LINES]
      BY <1>2, <3>3, <3>6
    <3> HIDE DEF x
    <3> QED
      BY <3>4, <3>5, <3>7 DEF Counts
  <2>7. CASE ~(BeatAccepted(ar) /\ IsLine /\ rx_cpl_tlps.sop)
    <3>1. rd_rsp_tracker' = rd_rsp_tracker
      BY <2>2, <2>7
    <3>2. ASSUME NEW t \in t_uid PROVE Counted(t)' = Counted(t)
      <4>1. IsLine => rx_cpl_tlps # NoBeat
        BY DEF IsLine
      <4>2. CASE Free(ar)
        <5>1. Counted(t) = IF t \in DOMAIN host THEN host[t].next ELSE 0
          BY <2>3, <2>7, <4>1, <4>2 DEF Counted
        <5> QED
          BY <1>5, <4>2, <5>1
      <4>3. CASE ~Free(ar)
        <5>1. choice.kind # "answer"
          BY <4>3, StreamEdge, ChoiceCases
        <5> QED
          BY <1>5, <4>3, <5>1 DEF Counted
      <4> QED
        BY <4>2, <4>3
    <3> QED
      BY <1>2, <2>4, <3>1, <3>2 DEF Counts
  <2> QED
    BY <2>6, <2>7
<1> QED
  BY <1>2, <1>6, <1>7

\* A fence completion that waits leaves the port empty behind it.
LEMMA FenceEdge ==
    ASSUME NEW req, NEW tr, NEW at, NEW ar, NEW room, NEW choice, NEW dm,
           Edge(req, tr, at, ar, room, choice, dm)
    PROVE  NoResponseBehindFence' /\ wr_fence_cpl_reg_valid' \in BOOLEAN
<1>1. RInv /\ TypeOK /\ NoResponseBehindFence /\ room \in BOOLEAN
  BY DEF Edge, RInv
<1>2. wr_fence_cpl_reg_valid' = IF wr_fence_cpl_reg_valid THEN ~room
                                ELSE wr_fence_cpl_tvalid(ar)
  BY DEF Edge, Engine, FenceReg
<1>3. afu_rd_rsp' =
        IF ~rx_tready(ar) THEN afu_rd_rsp
        ELSE IF Decoded = NoCpl THEN NoRsp
        ELSE [tag |-> Decoded.tag, line_idx |-> Decoded.line_idx,
              last |-> Decoded.is_last /\ rx_cpl_tlps.eop,
              payload |-> rx_cpl_tlps.payload]
  BY DEF Edge, Engine, ResponseRegs, AfuRdRspNext, RspHolds
<1>4. wr_fence_cpl_tvalid(ar) \in BOOLEAN
  <2>1. rx_cpl_tlps # NoBeat => rx_cpl_tlps.sop \in BOOLEAN
    BY <1>1 DEF TypeOK, Beats
  <2>2. rx_tready(ar) \in BOOLEAN
    BY StreamEdge
  <2> QED
    BY <2>1, <2>2 DEF wr_fence_cpl_tvalid, IsWrFence
<1>5. wr_fence_cpl_reg_valid' \in BOOLEAN
  BY <1>1, <1>2, <1>4
<1>6. wr_fence_cpl_reg_valid => afu_rd_rsp' = NoRsp
  BY <1>1, <1>3 DEF NoResponseBehindFence, rx_tready
<1>7. wr_fence_cpl_tvalid(ar) => afu_rd_rsp' = NoRsp
  <2>1. wr_fence_cpl_tvalid(ar) => rx_tready(ar) /\ ~IsLine
    BY DEF wr_fence_cpl_tvalid, IsLine
  <2>2. ~IsLine => Decoded = NoCpl
    BY <1>1, DecodedLine
  <2> QED
    BY <1>3, <2>1, <2>2
<1> QED
  BY <1>1, <1>2, <1>5, <1>6, <1>7 DEF NoResponseBehindFence, TypeOK

\* The PCIe tags in use are as many as the reads that have left the FIFO.
LEMMA OneTagEdge ==
    ASSUME NEW req, NEW tr, NEW at, NEW ar, NEW room, NEW choice, NEW dm,
           Edge(req, tr, at, ar, room, choice, dm)
    PROVE  OneTagPerRead'
<1>1. RInv /\ TypeOK /\ OneTagPerRead /\ Reads
  BY DEF Edge, RInv
<1> DEFINE deq == rd_req_deq(tr, at)
           free == free_tlp_tag(ar)
           enq == req # NoReq
           kept == held \ (IF free THEN {RspTag} ELSE {})
           left == DOMAIN owed \ (IF free THEN {Addr(RspTag)} ELSE {})
<1>2. IsFiniteSet(held) /\ IsFiniteSet(DOMAIN owed)
  <2>1. IsFiniteSet(t_uid) /\ held \subseteq t_uid
    <3>1. 0 \in Int /\ N_ENTRIES - 1 \in Int
      BY UidAssumption
    <3> QED
      BY <1>1, <3>1, FS_Interval DEF t_uid, TypeOK, UidTypeOK
  <2> QED
    BY <1>1, <2>1, FS_Subset DEF Reads
<1>3. /\ free \in BOOLEAN /\ deq \in BOOLEAN
      /\ free => RspTag \in held /\ Addr(RspTag) \in DOMAIN owed
  BY <1>1, FreedRead, TagEdge, HeldRead
<1>4. /\ held' = kept \union (IF deq THEN {alloc_uid} ELSE {})
      /\ deq => alloc_uid \notin kept
  <2>1. \A t : t \in held' <=> Live(ar, t) \/ (deq /\ t = alloc_uid)
    BY TagEdge
  <2>2. \A t : t \in kept <=> Live(ar, t)
    BY <1>3 DEF Live
  <2>3. deq => alloc_uid \notin held
    BY TagEdge
  <2> HIDE DEF deq, kept
  <2>4. \A t : t \in held' <=> t \in kept \/ (deq /\ t = alloc_uid)
    BY <2>1, <2>2
  <2>5. held' = kept \union (IF deq THEN {alloc_uid} ELSE {})
    BY <1>3, <2>4
  <2>6. kept \subseteq held
    BY DEF kept
  <2> QED
    BY <2>3, <2>5, <2>6
<1>5. /\ DOMAIN owed' = left \union (IF enq THEN {req.tag} ELSE {})
      /\ enq => req.tag \notin left
  <2>1. \A a : a \in DOMAIN owed' <=>
                 \/ a \in DOMAIN owed /\ ~(free /\ a = Addr(RspTag))
                 \/ enq /\ a = req.tag
    BY OwedEdge
  <2>2. \A a : a \in left <=> a \in DOMAIN owed /\ ~(free /\ a = Addr(RspTag))
    BY <1>3
  <2>3. enq => req.tag \notin DOMAIN owed
    BY OwedEdge
  <2> HIDE DEF free, left, enq
  <2>4. \A a : a \in DOMAIN owed' <=> a \in left \/ (enq /\ a = req.tag)
    BY <2>1, <2>2
  <2>5. DOMAIN owed' = left \union (IF enq THEN {req.tag} ELSE {})
    BY <2>4
  <2> QED
    BY <2>2, <2>3, <2>5
<1>6. ASSUME NEW S, NEW x, NEW b \in BOOLEAN, IsFiniteSet(S), b => x \in S
      PROVE  /\ IsFiniteSet(S \ (IF b THEN {x} ELSE {})) /\ Cardinality(S) \in Nat
             /\ Cardinality(S \ (IF b THEN {x} ELSE {})) = Cardinality(S) - (IF b THEN 1 ELSE 0)
  <2>1. CASE b
    BY <1>6, <2>1, FS_RemoveElement, FS_CardinalityType
  <2>2. CASE ~b
    <3>1. S \ {} = S
      OBVIOUS
    <3> QED
      BY <1>6, <2>2, <3>1, FS_CardinalityType
  <2> QED
    BY <2>1, <2>2
<1>7. ASSUME NEW S, NEW x, NEW b \in BOOLEAN, IsFiniteSet(S), b => x \notin S
      PROVE  Cardinality(S \union (IF b THEN {x} ELSE {})) =
               Cardinality(S) + (IF b THEN 1 ELSE 0) /\ Cardinality(S) \in Nat
  <2>1. CASE b
    BY <1>7, <2>1, FS_AddElement, FS_CardinalityType
  <2>2. CASE ~b
    <3>1. S \union {} = S
      OBVIOUS
    <3> QED
      BY <1>7, <2>2, <3>1, FS_CardinalityType
  <2> QED
    BY <2>1, <2>2
<1>8. enq \in BOOLEAN
  OBVIOUS
<1>9. /\ Len(Fifo2Contents(afu_req_fifo)) \in Nat
      /\ Len(Fifo2Contents(afu_req_fifo')) = Len(Fifo2Contents(afu_req_fifo))
           - (IF deq THEN 1 ELSE 0) + (IF enq THEN 1 ELSE 0)
  BY QueueEdge
<1> HIDE DEF deq, free, enq
<1>10. /\ IsFiniteSet(kept) /\ Cardinality(held) \in Nat
       /\ Cardinality(kept) = Cardinality(held) - (IF free THEN 1 ELSE 0)
       /\ IsFiniteSet(left) /\ Cardinality(DOMAIN owed) \in Nat
       /\ Cardinality(left) = Cardinality(DOMAIN owed) - (IF free THEN 1 ELSE 0)
  BY <1>2, <1>3, <1>6
<1> HIDE DEF kept, left
<1>11. Cardinality(held') = Cardinality(kept) + (IF deq THEN 1 ELSE 0)
  BY <1>3, <1>4, <1>7, <1>10
<1>12. Cardinality(DOMAIN owed') = Cardinality(left) + (IF enq THEN 1 ELSE 0)
  BY <1>5, <1>7, <1>8, <1>10
<1>13. OneTagPerRead' <=>
         Cardinality(held') = Cardinality(DOMAIN owed') - Len(Fifo2Contents(afu_req_fifo'))
  BY DEF OneTagPerRead, Fifo2Contents
<1>14. Cardinality(held) = Cardinality(DOMAIN owed) - Len(Fifo2Contents(afu_req_fifo))
  BY <1>1 DEF OneTagPerRead
<1> DEFINE tags == Cardinality(held)
           reads == Cardinality(DOMAIN owed)
           queue == Len(Fifo2Contents(afu_req_fifo))
           tagsAfter == Cardinality(held')
           readsAfter == Cardinality(DOMAIN owed')
           queueAfter == Len(Fifo2Contents(afu_req_fifo'))
           freed == IF free THEN 1 ELSE 0
           begun == IF deq THEN 1 ELSE 0
           asked == IF enq THEN 1 ELSE 0
<1>15. /\ tags \in Nat /\ reads \in Nat /\ queue \in Nat
       /\ freed \in 0..1 /\ begun \in 0..1 /\ asked \in 0..1
  BY <1>9, <1>10
<1>16. tagsAfter = tags - freed + begun
  BY <1>10, <1>11
<1>17. readsAfter = reads - freed + asked
  BY <1>10, <1>12
<1>18. queueAfter = queue - begun + asked
  BY <1>9
<1>19. tags = reads - queue
  BY <1>14
<1> HIDE DEF tags, reads, queue, tagsAfter, readsAfter, queueAfter, freed, begun, asked
<1>20. tagsAfter = readsAfter - queueAfter
  BY <1>15, <1>16, <1>17, <1>18, <1>19
<1> QED
  BY <1>13, <1>20 DEF tagsAfter, readsAfter, queueAfter

-----------------------------------------------------------------------------
(* The whole invariant.                                                    *)

\* An edge in operation keeps the invariant.
LEMMA EdgeKeepsInvariant ==
    ASSUME NEW req, NEW tr, NEW at, NEW ar, NEW room, NEW choice, NEW dm,
           Edge(req, tr, at, ar, room, choice, dm)
    PROVE  RInv'
<1>1. /\ IInv' /\ Together' /\ Reads' /\ RequestQueue' /\ OnTheWay' /\ InOrder'
      /\ RspIsNext' /\ BeatIsNext' /\ PacketIsNext' /\ Header' /\ InProgress' /\ Counts'
      /\ NoResponseBehindFence' /\ OneTagPerRead'
  BY TagEdge, ReadsEdge, QueueEdge, OnTheWayEdge, InOrderEdge, RspEdge, BeatEdge,
     PacketEdge, HeaderEdge, InProgressEdge, CountsEdge, FenceEdge, OneTagEdge
<1>2. TypeOK'
  <2>1. UidTypeOK' /\ track_ready' \in BOOLEAN /\ track_waddr' \in t_uid
    BY <1>1 DEF IInv, UidTypeOK, Together
  <2>2. /\ afu_req_fifo' \in Fifo2States(Requests \union {NoReq})
        /\ rd_meta' \in [t_uid -> Metas \union {NoReq}]
        /\ rd_rsp_tracker' \in [t_uid -> 0..MAX_PAYLOAD_LINES]
        /\ tx_rd_tlps' \in Tlps \union {NoTlp} /\ atomic_cpl_tag' \in Tlps \union {NoTlp}
    BY QueueEdge, TagEdge, CountsEdge, TxEdge
  <2>3. /\ reg_afu_rd_rsp' \in Cpls \union {NoCpl} /\ reg_afu_rd_rsp_tlp_tag' \in t_uid
        /\ afu_rd_rsp' \in Rsps \union {NoRsp} /\ wr_fence_cpl_reg_valid' \in BOOLEAN
    BY InProgressEdge, RspEdge, FenceEdge DEF RspTag
  <2>4. rx_cpl_tlps' \in Beats \union {NoBeat} /\ packet' \in Packets \union {NoBeat}
    BY BeatTypes
  <2>5. /\ DOMAIN host' \subseteq Issuable /\ host' \in [DOMAIN host' -> HostReads]
        /\ DOMAIN owed' \subseteq AfuTags /\ owed' \in [DOMAIN owed' -> Owed]
    BY OnTheWayEdge, ReadsEdge
  <2> QED
    BY <2>1, <2>2, <2>3, <2>4, <2>5 DEF TypeOK
<1> QED
  BY <1>1, <1>2 DEF RInv

-----------------------------------------------------------------------------
(* Nothing under way: at the start and after a reset.                      *)

NothingUnderWay ==
    /\ test_ready = FALSE /\ waddr_init = 0
    /\ track_ready = FALSE /\ track_waddr = 0
    /\ afu_req_fifo = Fifo2Empty(NoReq)
    /\ tx_rd_tlps = NoTlp /\ atomic_cpl_tag = NoTlp
    /\ reg_afu_rd_rsp = NoCpl /\ afu_rd_rsp = NoRsp /\ wr_fence_cpl_reg_valid = FALSE
    /\ rx_cpl_tlps = NoBeat /\ packet = NoBeat
    /\ host = [t \in {} |-> NoReq] /\ owed = [t \in {} |-> NoReq] /\ held = {}

\* What is not reset has a value of its type.
Memories ==
    /\ rd_meta \in [t_uid -> Metas \union {NoReq}]
    /\ rd_rsp_tracker \in [t_uid -> 0..MAX_PAYLOAD_LINES]
    /\ reg_afu_rd_rsp_tlp_tag \in t_uid

\* With nothing under way the invariant holds, whatever is in the memories.
LEMMA IdleInvariant == IInv /\ Memories /\ NothingUnderWay => RInv
<1> SUFFICES ASSUME IInv, Memories, NothingUnderWay PROVE RInv
  OBVIOUS
<1>1. LET f == afu_req_fifo
      IN /\ f \in Fifo2States(Requests \union {NoReq}) /\ Fifo2InOrder(f)
         /\ ~f.valid[0] /\ ~f.valid[1]
  <2>1. NoReq \in Requests \union {NoReq}
    OBVIOUS
  <2> QED
    BY <2>1, Fifo2EmptyState DEF NothingUnderWay
<1>2. DOMAIN host = {} /\ DOMAIN owed = {} /\ held = {}
  BY DEF NothingUnderWay
<1>3. TypeOK
  <2>1. UidTypeOK /\ track_ready \in BOOLEAN /\ track_waddr \in t_uid
    BY DEF NothingUnderWay, IInv, UidTypeOK
  <2>2. host \in [DOMAIN host -> HostReads] /\ owed \in [DOMAIN owed -> Owed]
    BY DEF NothingUnderWay
  <2> QED
    BY <1>1, <1>2, <2>1, <2>2 DEF NothingUnderWay, Memories, TypeOK
<1>4. Together /\ NoResponseBehindFence
  BY DEF NothingUnderWay, Together, NoResponseBehindFence
<1>5. RequestQueue
  BY <1>1 DEF RequestQueue
<1>6. Reads /\ InOrder
  BY <1>2, FS_EmptySet DEF Reads, InOrder
<1>7. OnTheWay
  BY <1>2 DEF NothingUnderWay, OnTheWay, AtTx, AtAtomic
<1>8. ~IsLine /\ ~Open
  BY DEF NothingUnderWay, IsLine, Open
<1>9. RspIsNext /\ BeatIsNext /\ PacketIsNext /\ Header /\ InProgress
  BY <1>8 DEF NothingUnderWay, RspIsNext, BeatIsNext, PacketIsNext, Header, InProgress
<1>10. Counts
  BY <1>3 DEF NothingUnderWay, Counts, t_uid
<1>11. OneTagPerRead
  <2>1. Len(Fifo2Contents(afu_req_fifo)) = 0
    BY <1>1 DEF Fifo2Contents
  <2> QED
    BY <1>2, <2>1, FS_EmptySet DEF OneTagPerRead
<1> QED
  BY <1>3, <1>4, <1>5, <1>6, <1>7, <1>9, <1>10, <1>11 DEF RInv

\* A reset, with what the engine still does to its memories.
LEMMA ResetKeepsInvariant ==
    ASSUME RInv, Reset
    PROVE  RInv'
<1>1. IInv /\ TypeOK /\ Together /\ RspIsNext
  BY DEF RInv
<1>2. PICK tr \in BOOLEAN, at \in BOOLEAN, ar \in BOOLEAN :
        /\ UidReset(free_tlp_tag(ar), reg_afu_rd_rsp_tlp_tag)
        /\ rd_meta' = RdMetaNext(rd_req_deq(tr, at))
        /\ rd_rsp_tracker' = RdRspTrackerNext(ar)
        /\ reg_afu_rd_rsp_tlp_tag' = CplTagNext(ar)
  BY DEF Reset
<1>3. IInv'
  <2>1. free_tlp_tag(ar) \in BOOLEAN
    BY <1>1 DEF free_tlp_tag, RspIsNext
  <2>2. free_tlp_tag(ar) => reg_afu_rd_rsp_tlp_tag \in held
    BY <1>1 DEF free_tlp_tag, RspIsNext, RspTag
  <2>3. reg_afu_rd_rsp_tlp_tag \in t_uid
    BY <1>1 DEF TypeOK
  <2> QED
    BY <1>1, <1>2, <2>1, <2>2, <2>3, ResetEdgeInvariant
<1>4. Memories'
  <2>1. rd_meta' \in [t_uid -> Metas \union {NoReq}]
    <3>1. CASE rd_req_deq(tr, at)
      <4>1. rd_req_notEmpty /\ alloc_ready
        BY <3>1 DEF rd_req_deq
      <4>2. [tag |-> rd_req.tag, line_count |-> rd_req.line_count] \in Metas
        BY <4>1, HeadRequest DEF Metas
      <4>3. alloc_uid \in t_uid
        BY <1>1, <4>1, OfferedUid
      <4> QED
        BY <1>1, <1>2, <3>1, <4>2, <4>3 DEF RdMetaNext, TypeOK
    <3>2. CASE ~rd_req_deq(tr, at)
      BY <1>1, <1>2, <3>2 DEF RdMetaNext, TypeOK
    <3> QED
      BY <3>1, <3>2
  <2>2. rd_rsp_tracker' \in [t_uid -> 0..MAX_PAYLOAD_LINES]
    <3>1. rd_rsp_tracker \in [t_uid -> 0..MAX_PAYLOAD_LINES] /\ 0 \in 0..MAX_PAYLOAD_LINES
      BY <1>1, LengthsInRange DEF TypeOK
    <3>2. CASE ~track_ready
      BY <1>2, <3>1, <3>2 DEF RdRspTrackerNext
    <3>3. CASE track_ready /\ rx_tready(ar) /\ Decoded # NoCpl /\ rx_cpl_tlps.sop
      <4>1. IsLine
        BY <3>3, DecodedLine
      <4>2. TrackerWrite = IF RxTag \in DOMAIN host THEN host[RxTag].next ELSE 0
        BY <3>3, <4>1, HeaderCounted
      <4>3. RxTag \in DOMAIN host => host[RxTag].next \in LineIdxs
        BY <1>1 DEF TypeOK, HostReads
      <4>4. TrackerWrite \in 0..MAX_PAYLOAD_LINES
        BY <3>1, <4>2, <4>3, LengthsInRange DEF LineIdxs
      <4> HIDE DEF TrackerWrite
      <4> QED
        BY <1>2, <3>1, <3>3, <4>4 DEF RdRspTrackerNext
    <3>4. CASE track_ready /\ ~(rx_tready(ar) /\ Decoded # NoCpl /\ rx_cpl_tlps.sop)
      BY <1>2, <3>1, <3>4 DEF RdRspTrackerNext
    <3> QED
      BY <3>2, <3>3, <3>4
  <2>3. reg_afu_rd_rsp_tlp_tag' \in t_uid
    BY <1>1, <1>2 DEF CplTagNext, BeatAccepted, TypeOK, Beats
  <2> QED
    BY <2>1, <2>2, <2>3 DEF Memories
<1>5. NothingUnderWay'
  BY DEF Reset, UidReset, NothingUnderWay
<1>6. (IInv /\ Memories /\ NothingUnderWay => RInv)'
  BY IdleInvariant, PTL
<1> QED
  BY <1>3, <1>4, <1>5, <1>6

\* The engine starts with nothing under way.
LEMMA ReadInit ==
    ASSUME Init
    PROVE  RInv
<1>1. IInv
  BY InitInvariant DEF Init
<1>2. Memories
  <2>1. 0 \in t_uid /\ MAX_PAYLOAD_LINES \in 0..MAX_PAYLOAD_LINES
    BY UidAssumption, LengthsInRange DEF t_uid
  <2> QED
    BY <2>1 DEF Init, Memories
<1>3. NothingUnderWay
  BY DEF Init, UidInit, NothingUnderWay
<1> QED
  BY <1>1, <1>2, <1>3, IdleInvariant

-----------------------------------------------------------------------------
(* The theorems.                                                           *)

\* A cycle is an edge with some inputs.
LEMMA CycleIsEdge ==
    ASSUME RInv, Cycle
    PROVE  \E req, tr, at, ar, room, choice, dm : Edge(req, tr, at, ar, room, choice, dm)
<1>1. PICK tr \in BOOLEAN, at \in BOOLEAN, ar \in BOOLEAN, room \in BOOLEAN,
           choice \in HostChoices :
        /\ tx_rd_tlps = NoTlp => ~tr
        /\ atomic_cpl_tag = NoTlp => ~at
        /\ afu_rd_rsp = NoRsp => ~ar
        /\ EdgeWith(tr, at, ar, room, choice)
  BY DEF Cycle
<1>2. PICK dm \in BOOLEAN : HostEdge(tr, at, ar, choice, dm)
  BY <1>1 DEF EdgeWith
<1>3. PICK req \in Requests \union {NoReq} :
        /\ req # NoReq => Fifo2NotFull(afu_req_fifo) /\ req.tag \notin DOMAIN owed
        /\ Engine(req, tr, at, ar, room)
        /\ AfuBooks(req, ar)
  BY <1>1 DEF EdgeWith
<1>4. Edge(req, tr, at, ar, room, choice, dm)
  BY <1>1, <1>2, <1>3 DEF Edge
<1> QED
  BY <1>4

\* A step that changes nothing keeps the invariant.
LEMMA StutterKeepsInvariant ==
    ASSUME RInv, UNCHANGED vars
    PROVE  RInv'
<1> USE DEF vars, uidVars, requestVars, memoryVars, responseVars, hostVars, RInv
<1>1. IInv'
  BY DEF IInv, UidTypeOK, Clearing, UidsAreExclusive, NoUidIsLost, Waiting, Releasing
<1>2. TypeOK'
  BY DEF TypeOK, UidTypeOK
<1>3. Together' /\ NoResponseBehindFence' /\ OneTagPerRead'
  BY DEF Together, NoResponseBehindFence, OneTagPerRead
<1>4. RequestQueue' /\ Reads'
  BY DEF RequestQueue, Queued, Reads, Addr, Lines
<1>5. OnTheWay'
  BY DEF OnTheWay, AtTx, AtAtomic, Addr, Lines
<1>6. InOrder'
  BY DEF InOrder, Given, Addr, Lines, InRsp, InRx, InPacket, Answered, AtTx, AtAtomic,
         RspTag, IsLine, RxTag, PacketTag
<1>7. RspIsNext' /\ BeatIsNext'
  BY DEF RspIsNext, BeatIsNext, Given, Addr, Lines, InRsp, RspTag, IsLine, RxTag
<1>8. PacketIsNext' /\ Header'
  BY DEF PacketIsNext, Header, Given, Addr, Lines, InRsp, InRx, InPacket, RspTag, IsLine,
         RxTag, PacketTag
<1>9. InProgress' /\ Counts'
  BY DEF InProgress, Open, OpenLine, Addr, RspTag, Counts, Counted, IsLine
<1> QED
  BY <1>1, <1>2, <1>3, <1>4, <1>5, <1>6, <1>7, <1>8, <1>9

\* The inductive invariant holds throughout, for any number of PCIe tags, AFU
\* tags and fence tags, any packet size, any answers of the host, any timing
\* and any resets.
THEOREM ReadInvariant == Spec => []RInv
<1>1. Init => RInv
  BY ReadInit
<1>2. RInv /\ [Next]_vars => RInv'
  <2> SUFFICES ASSUME RInv, [Next]_vars PROVE RInv'
    OBVIOUS
  <2>1. CASE Cycle
    <3>1. PICK req, tr, at, ar, room, choice, dm :
            Edge(req, tr, at, ar, room, choice, dm)
      BY <2>1, CycleIsEdge
    <3> QED
      BY <3>1, EdgeKeepsInvariant
  <2>2. CASE Reset
    BY <2>2, ResetKeepsInvariant
  <2>3. CASE UNCHANGED vars
    BY <2>3, StutterKeepsInvariant
  <2> QED
    BY <2>1, <2>2, <2>3 DEF Next
<1> QED
  BY <1>1, <1>2, PTL DEF Spec

\* Type correctness of the read engine.
THEOREM ReadTypeCorrect == Spec => []TypeOK
<1>1. RInv => TypeOK
  BY DEF RInv
<1> QED
  BY <1>1, ReadInvariant, PTL

\* The read engine holds exactly one PCIe tag for each read that left the
\* request FIFO and is not finished: none leaks, whatever the host does.
THEOREM OneTagCorrect == Spec => []OneTagPerRead
<1>1. RInv => OneTagPerRead
  BY DEF RInv
<1> QED
  BY <1>1, ReadInvariant, PTL

\* The read engine never has a response on its port while a write fence's
\* completion blocks the stream.
THEOREM FenceAloneCorrect == Spec => []NoResponseBehindFence
<1>1. RInv => NoResponseBehindFence
  BY DEF RInv
<1> QED
  BY <1>1, ReadInvariant, PTL

\* A PCIe tag that is not in use has a line count of 0 once the memory is
\* initialized, so DM encoded completions of its next read are numbered from 0.
THEOREM CountsCorrect == Spec => []CountsStartFromZero
<1>1. ASSUME RInv, track_ready, NEW t \in t_uid \ held
      PROVE  rd_rsp_tracker[t] = 0
  <2>1. Counts /\ OnTheWay /\ BeatIsNext
    BY <1>1 DEF RInv
  <2>2. Counted(t) = 0
    BY <2>1 DEF Counted, OnTheWay, BeatIsNext, RxTag
  <2> QED
    BY <1>1, <2>1, <2>2 DEF Counts
<1>2. RInv => CountsStartFromZero
  BY <1>1 DEF CountsStartFromZero
<1> QED
  BY <1>2, ReadInvariant, PTL

\* The read engine gives up a PCIe tag only when the host has sent the whole
\* answer, and until the AFU takes the final line the register with the tag to
\* release still names it.
THEOREM TagsOutlive == Spec => []TagsOutliveCompletions
<1>1. ASSUME RInv
      PROVE  TagsOutliveCompletions
  <2>1. TypeOK /\ OnTheWay /\ RspIsNext
    BY <1>1 DEF RInv
  <2>2. ASSUME NEW t, t \in {r.tag : r \in {tx_rd_tlps, atomic_cpl_tag} \ {NoTlp}}
        PROVE  (AtTx(t) \/ AtAtomic(t)) /\ t \in held /\ t \notin DOMAIN host
    <3>1. AtTx(t) \/ AtAtomic(t)
      BY <2>2 DEF AtTx, AtAtomic
    <3>2. t \in t_uid
      BY <2>1, <3>1, UidAssumption DEF TypeOK, Tlps, AtTx, AtAtomic, Issuable, t_uid
    <3> QED
      BY <2>1, <3>1, <3>2 DEF OnTheWay
  <2>3. Unanswered \subseteq held
    BY <2>1, <2>2 DEF Unanswered, OnTheWay
  <2>4. {r.tag : r \in {tx_rd_tlps, atomic_cpl_tag} \ {NoTlp}} \intersect DOMAIN host = {}
    BY <2>2
  <2>5. tx_rd_tlps # NoTlp /\ atomic_cpl_tag # NoTlp => tx_rd_tlps.tag # atomic_cpl_tag.tag
    <3>1. tx_rd_tlps # NoTlp => tx_rd_tlps.tag \in t_uid
      BY <2>1, UidAssumption DEF TypeOK, Tlps, Issuable, t_uid
    <3> QED
      BY <2>1, <3>1 DEF OnTheWay, AtTx, AtAtomic
  <2>6. afu_rd_rsp # NoRsp => /\ RspTag \in held
                              /\ afu_rd_rsp.tag = Addr(RspTag)
                              /\ afu_rd_rsp.last = (Given(RspTag) + 1 = Lines(RspTag))
    BY <2>1 DEF RspIsNext
  <2>7. ASSUME afu_rd_rsp # NoRsp, afu_rd_rsp.last, NEW t, t = reg_afu_rd_rsp_tlp_tag
        PROVE  t \in held /\ t \notin Unanswered /\ rd_meta[t].tag = afu_rd_rsp.tag
    <3>1. t \in held /\ Given(t) + 1 = Lines(t) /\ rd_meta[t].tag = afu_rd_rsp.tag
      <4>1. /\ RspTag \in held
            /\ afu_rd_rsp.tag = Addr(RspTag)
            /\ Given(RspTag) + 1 = Lines(RspTag)
        BY <2>7, <2>6
      <4>2. t = RspTag
        BY <2>7 DEF RspTag
      <4>3. Addr(t) = rd_meta[t].tag
        BY DEF Addr
      <4> QED
        BY <2>7, <4>1, <4>2, <4>3
    <3>2. InRsp(t) = 1
      BY <2>7 DEF InRsp, RspTag
    <3>3. /\ Given(t) \in Nat /\ Lines(t) \in 1..MAX_PAYLOAD_LINES /\ Answered(t) \in Nat
          /\ InRx(t) \in 0..1 /\ InPacket(t) \in Nat
          /\ Given(t) + InRsp(t) + InRx(t) + InPacket(t) = Answered(t)
          /\ t \in DOMAIN host => Answered(t) < Lines(t)
          /\ (AtTx(t) \/ AtAtomic(t)) => Answered(t) = 0
      BY <1>1, <3>1, HeldRead
    <3>4. t \notin DOMAIN host /\ ~AtTx(t) /\ ~AtAtomic(t)
      BY <3>1, <3>2, <3>3, LengthsInRange
    <3> QED
      BY <2>2, <3>1, <3>4 DEF Unanswered
  <2> QED
    BY <2>3, <2>4, <2>5, <2>7 DEF TagsOutliveCompletions
<1>2. RInv => TagsOutliveCompletions
  BY <1>1
<1> QED
  BY <1>2, ReadInvariant, PTL

\* An edge in operation keeps the promise of the port.
LEMMA PortEdge ==
    ASSUME NEW req, NEW tr, NEW at, NEW ar, NEW room, NEW choice, NEW dm,
           Edge(req, tr, at, ar, room, choice, dm)
    PROVE  Port!PortCycle
<1>1. RInv /\ ar \in BOOLEAN /\ (ar => afu_rd_rsp # NoRsp)
  BY DEF Edge
<1> DEFINE books == IF ar THEN Port!Received(owed, afu_rd_rsp.tag) ELSE owed
<1>2. \/ owed' = books
      \/ \E a \in AfuTags \ DOMAIN owed, n \in 1..MAX_PAYLOAD_LINES :
           owed' = Port!Requested(books, a, n)
  <2>1. owed' = IF req = NoReq THEN books
                ELSE Port!Requested(books, req.tag, req.line_count)
    BY <1>1 DEF Edge, AfuBooks, Port!Received, Port!Requested
  <2>2. req # NoReq => /\ req.tag \in AfuTags \ DOMAIN owed
                       /\ req.line_count \in 1..MAX_PAYLOAD_LINES
    <3>1. req # NoReq => req \in Requests /\ req.tag \in AfuTags \ DOMAIN owed
      BY OwedEdge
    <3>2. \A r \in Requests : r.line_count \in Lengths
      BY DEF Requests, Lengths
    <3> QED
      BY <3>1, <3>2, LengthsInRange
  <2> HIDE DEF books
  <2> QED
    BY <2>1, <2>2
<1>3. afu_rd_rsp # NoRsp /\ ~ar => afu_rd_rsp' = afu_rd_rsp
  BY RspEdge
<1>4. ASSUME afu_rd_rsp' # NoRsp
      PROVE  \E a \in DOMAIN books : afu_rd_rsp' = Port!Response(a, books[a])
  <2>1. PICK t : t = RspTag' /\ Live(ar, t)
    BY <1>4, RspEdge
  <2> DEFINE a == Addr(t)
  <2>2. /\ t \in held /\ a \in DOMAIN owed /\ owed[a].lines = Lines(t)
        /\ a \in DOMAIN owed' /\ owed'[a].lines = Lines(t)
        /\ Addr(t)' = a /\ Lines(t)' = Lines(t)
    BY <1>1, <2>1, HeldRead, LiveRead
  <2>3. Given(t)' = owed'[a].next
    BY <2>2 DEF Given
  <2>4. afu_rd_rsp' = [tag |-> a, line_idx |-> owed'[a].next,
                       last |-> owed'[a].next + 1 = owed'[a].lines,
                       payload |-> [addr |-> a, line |-> owed'[a].next]]
    <3>1. RspIsNext'
      BY RspEdge
    <3>2. afu_rd_rsp' = [tag |-> Addr(t)', line_idx |-> Given(t)',
                         last |-> Given(t)' + 1 = Lines(t)',
                         payload |-> [addr |-> Addr(t)', line |-> Given(t)']]
      BY <1>4, <2>1, <3>1 DEF RspIsNext
    <3> QED
      BY <2>2, <2>3, <3>2
  <2>5. afu_rd_rsp' = Port!Response(a, owed'[a])
    BY <2>4 DEF Port!Response
  <2>6. req # NoReq => a # req.tag
    BY <2>2, OwedEdge
  <2>7. a \in DOMAIN books /\ owed'[a] = books[a]
    <3>1. owed' = IF req = NoReq THEN books
                  ELSE [u \in DOMAIN books \union {req.tag} |->
                          IF u = req.tag THEN [lines |-> req.line_count, next |-> 0]
                          ELSE books[u]]
      BY <1>1 DEF Edge, AfuBooks, Port!Received
    <3> HIDE DEF books, a
    <3> QED
      BY <2>2, <2>6, <3>1
  <2> HIDE DEF books, a
  <2> QED
    BY <2>5, <2>7
<1> HIDE DEF books
<1>5. IF afu_rd_rsp # NoRsp /\ ~ar THEN afu_rd_rsp' = afu_rd_rsp
      ELSE \/ afu_rd_rsp' = NoRsp
           \/ \E a \in DOMAIN books : afu_rd_rsp' = Port!Response(a, books[a])
  BY <1>3, <1>4
<1> QED
  BY <1>1, <1>2, <1>5 DEF Port!PortCycle, books

\* The read engine keeps the promise of its port to the AFU: the lines of each
\* read arrive in order, each once and with its own data, and the final one is
\* marked, however the host splits, interleaves and encodes its answers.
THEOREM LinesArriveInOrder == Spec => LinesInOrder
<1>1. Init => Port!PortInit
  BY DEF Init, Port!PortInit
<1>2. RInv /\ [Next]_vars => [Port!PortNext]_<<owed, afu_rd_rsp>>
  <2> SUFFICES ASSUME RInv, [Next]_vars
               PROVE  [Port!PortNext]_<<owed, afu_rd_rsp>>
    OBVIOUS
  <2>1. CASE Cycle
    <3>1. PICK req, tr, at, ar, room, choice, dm :
            Edge(req, tr, at, ar, room, choice, dm)
      BY <2>1, CycleIsEdge
    <3> QED
      BY <3>1, PortEdge DEF Port!PortNext
  <2>2. CASE Reset
    BY <2>2 DEF Reset, Port!PortNext, Port!PortReset
  <2>3. CASE UNCHANGED vars
    BY <2>3 DEF vars, responseVars
  <2> QED
    BY <2>1, <2>2, <2>3 DEF Next
<1> QED
  BY <1>1, <1>2, ReadInvariant, PTL DEF Spec, LinesInOrder, Port!PortSpec, Port!portVars

=============================================================================
