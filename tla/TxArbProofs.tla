---------------------------- MODULE TxArbProofs -----------------------------
(***************************************************************************)
(* Proofs about the TLP Tx arbitration, for packets of any length, either  *)
(* form of the read stream and any timeout: one stream wins at a time, the *)
(* packets that reach the FIM are whole, and of the beats of a stream none *)
(* is lost, repeated or overtaken between its engine and the FIM.          *)
(***************************************************************************)
EXTENDS TxArb, FiniteSetTheorems, SequenceTheorems, TLAPS

-----------------------------------------------------------------------------
(* The inductive invariant.                                                *)

RegTypes ==
    /\ tlps \in [Streams -> Beats \union {NoTlp}]
    /\ \A s \in Valid : tlps[s].stream = s
    /\ arb_state \in {"none", "mmio", "wr"} /\ base \in 0..2
    /\ skid \in Fifo2States(Beats \union {NoTlp})
    /\ mid \in [Streams -> 0..MAX_BEATS - 1]
    /\ fim \in Beats \union {NoTlp}

SkidInv ==
    /\ Fifo2InOrder(skid)
    /\ \A i \in 0..1 : skid.valid[i] => skid.data[i] # NoTlp

\* The beat that entered the skid buffer last, or left it last.
LastBeat == IF skid.valid[0] THEN skid.data[0]
            ELSE IF skid.valid[1] THEN skid.data[1] ELSE fim

\* The lock names the stream whose packet is open at the last beat.
LockInv ==
    IF arb_state = "none" THEN LastBeat = NoTlp \/ LastBeat.last
    ELSE LastBeat # NoTlp /\ ~LastBeat.last /\ LastBeat.stream = arb_state

\* The number of the beat that stream s has to send next.
Expected(s) == IF arb_state = s THEN LastBeat.n + 1 ELSE 1

\* Each engine offers that beat, or nothing.
EngineInv ==
    \A s \in Streams :
      IF tlps[s] = NoTlp THEN mid[s] = Expected(s) - 1
      ELSE /\ tlps[s].n = Expected(s)
           /\ mid[s] = IF tlps[s].last THEN 0 ELSE tlps[s].n

\* The beats in the skid buffer follow each other and the last one taken.
ChainInv ==
    /\ skid.valid[1] => Follows(fim, skid.data[1])
    /\ skid.valid[0] => Follows(skid.data[1], skid.data[0])

PInv == RegTypes /\ SkidInv /\ LockInv /\ EngineInv /\ ChainInv

-----------------------------------------------------------------------------
(* Lemmas.                                                                 *)

\* What the fields of a beat can be.
LEMMA BeatFields ==
    ASSUME NEW b \in Beats
    PROVE  /\ b.stream \in Streams /\ b.n \in 1..MAX_BEATS
           /\ b.last \in BOOLEAN /\ b.poison \in BOOLEAN
           /\ b.stream = "rd" => b.n = 1 /\ b.last
           /\ b.poison => b.n = 1 /\ b.last
           /\ ~b.last => b.n \in 1..MAX_BEATS - 1
           /\ b # NoTlp
  BY TxArbAssumption, NoTlpAssumption DEF Beats

\* The arbiter grants at most one of the streams that ask for it.
LEMMA OneGrant ==
    ASSUME base \in 0..2, NEW req \in SUBSET Streams
    PROVE  arb_grant(req) = {} \/ \E s \in req : arb_grant(req) = {s}
<1>1. \A s, t \in Streams : Distance(s) <= Distance(t) /\ Distance(t) <= Distance(s) => s = t
  BY DEF Distance, Slot, Streams
<1>2. arb_grant(req) \subseteq req
  BY DEF arb_grant
<1>3. \A s, t \in arb_grant(req) : s = t
  BY <1>1 DEF arb_grant
<1> QED
  BY <1>2, <1>3

\* The streams that win with the inputs of an edge.
Winners(rd_tag, allow) == arb_grant(arb_req(rd_tag, allow)) \union LockGrant

\* A winner offers a beat, has the lock if there is one, and is alone; with a
\* stream of their own reads do not win.
LEMMA WinnersAre ==
    ASSUME PInv, NEW rd_tag \in BOOLEAN, NEW allow \in SUBSET Streams
    PROVE  LET w == Winners(rd_tag, allow)
           IN \/ w = {}
              \/ \E s \in Valid : /\ w = {s} /\ to_fiu_tx_st_tready
                                  /\ arb_state \in {"none", s}
                                  /\ s = "rd" => ~FIM_HAS_SEPARATE_READ_STREAM
<1> DEFINE grant == arb_grant(arb_req(rd_tag, allow))
<1>1. arb_req(rd_tag, allow) \in SUBSET Streams /\ arb_req(rd_tag, allow) \subseteq Valid
  BY DEF arb_req, Valid
<1>2. grant = {} \/ \E s \in arb_req(rd_tag, allow) : grant = {s}
  BY <1>1, OneGrant DEF PInv, RegTypes
<1>3. grant # {} => to_fiu_tx_st_tready /\ arb_state = "none"
  BY DEF arb_grant, arb_ena
<1>4. LockGrant # {} => /\ to_fiu_tx_st_tready /\ arb_state \in Valid \ {"rd"}
                        /\ LockGrant = {arb_state}
  BY DEF LockGrant, PInv, RegTypes
<1>5. "none" \notin Valid
  BY DEF Valid, Streams
<1>6. \A s \in arb_req(rd_tag, allow) : s = "rd" => ~FIM_HAS_SEPARATE_READ_STREAM
  BY DEF arb_req
<1> HIDE DEF grant
<1>7. CASE LockGrant # {}
  BY <1>3, <1>4, <1>5, <1>7 DEF Winners, grant
<1>8. CASE LockGrant = {}
  BY <1>1, <1>2, <1>3, <1>6, <1>8 DEF Winners, grant
<1> QED
  BY <1>7, <1>8

\* What a winner sends may follow the last beat.
LEMMA WinnerFollows ==
    ASSUME PInv, NEW s \in Valid, arb_state \in {"none", s}
    PROVE  tlps[s] \in Beats /\ tlps[s].stream = s /\ Follows(LastBeat, tlps[s])
<1>1. s \in Streams /\ tlps[s] # NoTlp /\ tlps[s] \in Beats /\ tlps[s].stream = s
  BY DEF Valid, PInv, RegTypes
<1>2. tlps[s].n = Expected(s)
  BY <1>1 DEF PInv, EngineInv
<1>3. s # "none"
  BY <1>1 DEF Streams
<1> QED
  BY <1>1, <1>2, <1>3 DEF PInv, LockInv, Expected, Follows

\* The beat given to the skid buffer is the winner's.
LEMMA WinnerIsSent ==
    ASSUME NEW s \in Streams PROVE to_fiu_tx_st({s}) = tlps[s]
  BY DEF to_fiu_tx_st, Streams

\* The last beat is a beat, or there has been none.
LEMMA LastBeatType == PInv => LastBeat \in Beats \union {NoTlp}
<1> SUFFICES ASSUME PInv PROVE LastBeat \in Beats \union {NoTlp}
  OBVIOUS
<1>1. skid.data[0] \in Beats \union {NoTlp} /\ skid.data[1] \in Beats \union {NoTlp}
  BY DEF PInv, RegTypes, Fifo2States
<1> QED
  BY <1>1 DEF LastBeat, PInv, RegTypes

\* A beat that is dropped leaves no gap.
LEMMA DroppedBeat ==
    ASSUME NEW a \in Beats \union {NoTlp}, NEW p \in Beats, p.poison, Follows(a, p)
    PROVE  /\ a = NoTlp \/ a.last
           /\ \A b : Follows(p, b) => Follows(a, b)
<1>1. p.n = 1 /\ p.last /\ p # NoTlp
  BY BeatFields
<1>2. a = NoTlp \/ a.last
  <2>1. SUFFICES ASSUME a # NoTlp, ~a.last PROVE FALSE
    OBVIOUS
  <2>2. a.n \in 1..MAX_BEATS /\ p.n = a.n + 1
    BY <2>1, BeatFields DEF Follows
  <2> QED
    BY <1>1, <2>2, TxArbAssumption
<1> QED
  BY <1>1, <1>2 DEF Follows

-----------------------------------------------------------------------------
(* The skid buffer at an edge.                                             *)

\* Whether a beat enters and whether one leaves.
Enq(w) == w # {} /\ to_fiu_tx_st_tready
Deq(fim_tready) == OutBeat # NoTlp /\ fim_tready

\* The beat that enters is the winner's and follows the last one.
LEMMA BeatEnters ==
    ASSUME PInv, NEW rd_tag \in BOOLEAN, NEW allow \in SUBSET Streams
    PROVE  LET w == Winners(rd_tag, allow)
               d == to_fiu_tx_st(w)
           IN \/ w = {} /\ d = NoTlp /\ ~Enq(w)
              \/ \E s \in Valid : /\ w = {s} /\ d = tlps[s] /\ Enq(w)
                                  /\ d \in Beats /\ Follows(LastBeat, d)
<1> DEFINE w == Winners(rd_tag, allow)
           d == to_fiu_tx_st(w)
<1>1. CASE w = {}
  BY <1>1 DEF to_fiu_tx_st, Enq
<1>2. ASSUME NEW s \in Valid, w = {s}, to_fiu_tx_st_tready, arb_state \in {"none", s}
      PROVE  w = {s} /\ d = tlps[s] /\ Enq(w) /\ d \in Beats /\ Follows(LastBeat, d)
  BY <1>2, WinnerFollows, WinnerIsSent DEF Valid, Enq
<1> QED
  BY <1>1, <1>2, WinnersAre

\* The skid buffer is an ofs_plat_prim_fifo2: its record after an edge, field by
\* field.
LEMMA SkidRecord ==
    ASSUME NEW Data, NEW f \in Fifo2States(Data), Fifo2InOrder(f),
           NEW enq \in BOOLEAN, NEW d \in Data, NEW deq \in BOOLEAN,
           deq => Fifo2NotEmpty(f)
    PROVE  LET g == Fifo2Next(f, enq, d, deq)
           IN /\ g \in Fifo2States(Data)
              /\ Fifo2InOrder(g)
              /\ g.valid[0] = (f.valid[1] /\ ~deq /\ (f.valid[0] \/ enq))
              /\ g.valid[1] = (f.valid[0] \/ enq \/ (f.valid[1] /\ ~deq))
              /\ g.data[0] = IF f.valid[0] THEN f.data[0] ELSE d
              /\ g.data[1] = IF f.valid[1] /\ ~deq THEN f.data[1]
                             ELSE IF f.valid[0] THEN f.data[0] ELSE d
  BY DEF Fifo2Next, Fifo2States, Fifo2InOrder, Fifo2NotEmpty

\* The registers of the skid buffer after an edge, one by one.
LEMMA SkidFields ==
    ASSUME PInv, NEW rd_tag \in BOOLEAN, NEW allow \in SUBSET Streams,
           NEW fim_tready \in BOOLEAN, NEW mrd_tready \in BOOLEAN,
           EdgeWith(rd_tag, allow, fim_tready, mrd_tready)
    PROVE  LET w == Winners(rd_tag, allow)
               enq == Enq(w)
               deq == Deq(fim_tready)
               d == to_fiu_tx_st(w)
               D == Beats \union {NoTlp}
           IN /\ skid.valid[0] \in BOOLEAN /\ skid.valid[1] \in BOOLEAN
              /\ skid.data[0] \in D /\ skid.data[1] \in D
              /\ skid.valid[0] => skid.valid[1] /\ skid.data[0] # NoTlp
              /\ skid.valid[1] => skid.data[1] # NoTlp
              /\ enq \in BOOLEAN /\ deq \in BOOLEAN
              /\ enq => ~skid.valid[0]
              /\ deq => skid.valid[1] /\ OutBeat = skid.data[1]
              /\ fim' = IF deq /\ ~Poisoned THEN OutBeat ELSE fim
              /\ skid' \in Fifo2States(D) /\ Fifo2InOrder(skid')
              /\ skid'.valid[0] = (skid.valid[1] /\ ~deq /\ (skid.valid[0] \/ enq))
              /\ skid'.valid[1] = (skid.valid[0] \/ enq \/ (skid.valid[1] /\ ~deq))
              /\ skid'.data[0] = IF skid.valid[0] THEN skid.data[0] ELSE d
              /\ skid.valid[1] /\ ~deq => skid'.data[1] = skid.data[1]
              /\ ~(skid.valid[1] /\ ~deq)
                   => skid'.data[1] = IF skid.valid[0] THEN skid.data[0] ELSE d
<1> DEFINE w == Winners(rd_tag, allow)
           enq == Enq(w)
           deq == Deq(fim_tready)
           d == to_fiu_tx_st(w)
           D == Beats \union {NoTlp}
<1>1. /\ skid' = Fifo2Next(skid, enq, d, deq)
      /\ fim' = IF deq /\ ~Poisoned THEN OutBeat ELSE fim
  BY DEF EdgeWith, Winners, Enq, Deq
<1>2. \/ w = {} /\ d = NoTlp /\ ~enq
      \/ \E s \in Valid : /\ w = {s} /\ d = tlps[s] /\ enq
                          /\ d \in Beats /\ Follows(LastBeat, d)
  BY BeatEnters
<1>3. /\ skid \in Fifo2States(D) /\ Fifo2InOrder(skid)
      /\ skid.valid[0] \in BOOLEAN /\ skid.valid[1] \in BOOLEAN
      /\ skid.data[0] \in D /\ skid.data[1] \in D
      /\ skid.valid[0] => skid.valid[1] /\ skid.data[0] # NoTlp
      /\ skid.valid[1] => skid.data[1] # NoTlp
      /\ enq => ~skid.valid[0]
      /\ enq \in BOOLEAN /\ deq \in BOOLEAN /\ d \in D
      /\ deq => skid.valid[1] /\ OutBeat = skid.data[1]
  BY <1>2 DEF PInv, RegTypes, SkidInv, Fifo2States, Fifo2InOrder, to_fiu_tx_st_tready,
              Fifo2NotFull, Fifo2NotEmpty, Fifo2First, OutBeat, Enq, Deq
<1>4. deq => Fifo2NotEmpty(skid)
  BY <1>3 DEF Fifo2NotEmpty
<1> HIDE DEF w, enq, d, deq, D
<1> DEFINE g == Fifo2Next(skid, enq, d, deq)
<1>5. /\ g \in Fifo2States(D) /\ Fifo2InOrder(g)
      /\ g.valid[0] = (skid.valid[1] /\ ~deq /\ (skid.valid[0] \/ enq))
      /\ g.valid[1] = (skid.valid[0] \/ enq \/ (skid.valid[1] /\ ~deq))
      /\ g.data[0] = IF skid.valid[0] THEN skid.data[0] ELSE d
      /\ skid.valid[1] /\ ~deq => g.data[1] = skid.data[1]
      /\ ~(skid.valid[1] /\ ~deq)
           => g.data[1] = IF skid.valid[0] THEN skid.data[0] ELSE d
  <2> HIDE DEF g
  <2> QED
    BY <1>3, <1>4, SkidRecord DEF g
<1> HIDE DEF g
<1>6. skid' = g
  BY <1>1 DEF g
<1> QED
  BY <1>1, <1>3, <1>5, <1>6 DEF w, enq, d, deq, D

\* An edge keeps the skid buffer's part of the invariant, and the last beat is
\* the winner's, if there is a winner.
LEMMA SkidEdge ==
    ASSUME PInv, NEW rd_tag \in BOOLEAN, NEW allow \in SUBSET Streams,
           NEW fim_tready \in BOOLEAN, NEW mrd_tready \in BOOLEAN,
           EdgeWith(rd_tag, allow, fim_tready, mrd_tready)
    PROVE  LET w == Winners(rd_tag, allow)
           IN /\ skid' \in Fifo2States(Beats \union {NoTlp})
              /\ fim' \in Beats \union {NoTlp}
              /\ SkidInv' /\ ChainInv'
              /\ \A s \in Valid : w = {s} => LastBeat' = tlps[s]
              /\ w = {} => \/ LastBeat' = LastBeat
                           \/ /\ LastBeat = NoTlp \/ LastBeat.last
                              /\ LastBeat' = NoTlp \/ LastBeat'.last
<1> DEFINE w == Winners(rd_tag, allow)
           enq == Enq(w)
           d == to_fiu_tx_st(w)
           deq == Deq(fim_tready)
           D == Beats \union {NoTlp}
           first == skid.data[1]
<1>1. \/ w = {} /\ d = NoTlp /\ ~enq
      \/ \E s \in Valid : /\ w = {s} /\ d = tlps[s] /\ enq
                          /\ d \in Beats /\ Follows(LastBeat, d)
  BY BeatEnters
<1>2. /\ skid.valid[0] \in BOOLEAN /\ skid.valid[1] \in BOOLEAN
      /\ skid.data[0] \in D /\ first \in D /\ fim \in D
      /\ skid.valid[0] => skid.valid[1] /\ skid.data[0] # NoTlp
      /\ skid.valid[1] => first # NoTlp
      /\ enq => ~skid.valid[0]
      /\ enq \in BOOLEAN /\ deq \in BOOLEAN
      /\ deq => skid.valid[1]
  <2>1. /\ skid.valid[0] \in BOOLEAN /\ skid.valid[1] \in BOOLEAN
        /\ skid.data[0] \in D /\ first \in D
        /\ skid.valid[0] => skid.valid[1] /\ skid.data[0] # NoTlp
        /\ skid.valid[1] => first # NoTlp
    BY SkidFields, Zenon
  <2>2. /\ enq => ~skid.valid[0]
        /\ enq \in BOOLEAN /\ deq \in BOOLEAN
        /\ deq => skid.valid[1]
    BY SkidFields, Zenon
  <2>3. fim \in D
    BY DEF PInv, RegTypes
  <2> QED
    BY <2>1, <2>2, <2>3
<1>3. /\ deq => OutBeat = first /\ fim' = IF first.poison THEN fim ELSE first
      /\ ~deq => fim' = fim
  <2>1. deq => OutBeat # NoTlp /\ OutBeat = first
    BY SkidFields DEF Deq
  <2>2. fim' = IF deq /\ ~Poisoned THEN OutBeat ELSE fim
    BY SkidFields
  <2> QED
    BY <2>1, <2>2 DEF Poisoned
<1>4. /\ skid' \in Fifo2States(D) /\ Fifo2InOrder(skid')
      /\ skid'.valid[0] = (skid.valid[1] /\ ~deq /\ (skid.valid[0] \/ enq))
      /\ skid'.valid[1] = (skid.valid[0] \/ enq \/ (skid.valid[1] /\ ~deq))
  <2>1. skid' \in Fifo2States(D) /\ Fifo2InOrder(skid')
    BY SkidFields, Zenon
  <2>2. skid'.valid[0] = (skid.valid[1] /\ ~deq /\ (skid.valid[0] \/ enq))
    BY SkidFields, Zenon
  <2>3. skid'.valid[1] = (skid.valid[0] \/ enq \/ (skid.valid[1] /\ ~deq))
    BY SkidFields, Zenon
  <2> QED
    BY <2>1, <2>2, <2>3
<1>5. /\ skid'.data[0] = IF skid.valid[0] THEN skid.data[0] ELSE d
      /\ skid.valid[1] /\ ~deq => skid'.data[1] = first
      /\ ~(skid.valid[1] /\ ~deq)
           => skid'.data[1] = IF skid.valid[0] THEN skid.data[0] ELSE d
  <2>1. skid'.data[0] = IF skid.valid[0] THEN skid.data[0] ELSE d
    BY SkidFields, Zenon
  <2>2. skid.valid[1] /\ ~deq => skid'.data[1] = first
    BY SkidFields, Zenon
  <2>3. ~(skid.valid[1] /\ ~deq)
           => skid'.data[1] = IF skid.valid[0] THEN skid.data[0] ELSE d
    BY SkidFields, Zenon
  <2> QED
    BY <2>1, <2>2, <2>3
<1> HIDE DEF w, enq, d, deq, D, first
<1>6. /\ skid.valid[1] => Follows(fim, first)
      /\ skid.valid[0] => Follows(first, skid.data[0])
      /\ LastBeat = IF skid.valid[0] THEN skid.data[0]
                    ELSE IF skid.valid[1] THEN first ELSE fim
      /\ LastBeat' = IF skid'.valid[0] THEN skid'.data[0]
                     ELSE IF skid'.valid[1] THEN skid'.data[1] ELSE fim'
  BY DEF PInv, ChainInv, LastBeat, first
<1>7. enq => d \in Beats /\ d # NoTlp /\ Follows(LastBeat, d)
  BY <1>1, BeatFields
<1>8. ASSUME deq
      PROVE  /\ \A b : Follows(first, b) => Follows(fim', b)
             /\ first.poison => (fim = NoTlp \/ fim.last) /\ fim' = fim /\ first.last
  <2>1. first \in Beats /\ Follows(fim, first)
    BY <1>2, <1>6, <1>8 DEF D
  <2>2. CASE first.poison
    BY <1>2, <1>3, <1>8, <2>1, <2>2, DroppedBeat, BeatFields DEF D
  <2>3. CASE ~first.poison
    BY <1>3, <1>8, <2>3
  <2> QED
    BY <2>2, <2>3
<1>9. fim' \in D
  BY <1>2, <1>3 DEF D
<1>10. SkidInv'
  BY <1>2, <1>4, <1>5, <1>7 DEF SkidInv
<1>11. ChainInv'
  BY <1>2, <1>3, <1>4, <1>5, <1>6, <1>7, <1>8 DEF ChainInv
<1>12. enq => LastBeat' = d
  BY <1>2, <1>4, <1>5, <1>6
<1>13. ASSUME ~enq
       PROVE  \/ LastBeat' = LastBeat
              \/ /\ LastBeat = NoTlp \/ LastBeat.last
                 /\ LastBeat' = NoTlp \/ LastBeat'.last
  BY <1>2, <1>3, <1>4, <1>5, <1>6, <1>8, <1>13
<1> QED
  BY <1>1, <1>4, <1>5, <1>9, <1>10, <1>11, <1>12, <1>13 DEF w, D

-----------------------------------------------------------------------------
(* The lock and the engines at an edge.                                    *)

\* The lock names the open packet after an edge.
LEMMA LockEdge ==
    ASSUME PInv, NEW rd_tag \in BOOLEAN, NEW allow \in SUBSET Streams,
           NEW fim_tready \in BOOLEAN, NEW mrd_tready \in BOOLEAN,
           EdgeWith(rd_tag, allow, fim_tready, mrd_tready)
    PROVE  /\ arb_state' \in {"none", "mmio", "wr"} /\ base' \in 0..2
           /\ LockInv'
<1> DEFINE w == Winners(rd_tag, allow)
           grant == arb_grant(arb_req(rd_tag, allow))
<1>1. arb_state' = ArbStateNext(w) /\ base' = BaseNext(grant)
  BY DEF EdgeWith, Winners
<1>2. base' \in 0..2
  <2>1. arb_req(rd_tag, allow) \in SUBSET Streams
    BY DEF arb_req, Valid
  <2>2. grant = {} \/ \E s \in Streams : grant = {s}
    BY <2>1, OneGrant DEF PInv, RegTypes
  <2> HIDE DEF grant
  <2>3. base \in 0..2 /\ \A s \in Streams : (Slot[s] + 1) % 3 \in 0..2
    BY DEF Slot, Streams, PInv, RegTypes
  <2>4. CASE grant = {}
    BY <1>1, <2>3, <2>4 DEF BaseNext
  <2>5. CASE grant # {}
    <3>1. (CHOOSE s \in grant : TRUE) \in Streams
      BY <2>2, <2>5
    <3> QED
      BY <1>1, <2>3, <2>5, <3>1 DEF BaseNext
  <2> QED
    BY <2>4, <2>5
<1>3. CASE w = {}
  <2>1. arb_state' = arb_state
    BY <1>1, <1>3 DEF ArbStateNext
  <2>2. \/ LastBeat' = LastBeat
        \/ /\ LastBeat = NoTlp \/ LastBeat.last
           /\ LastBeat' = NoTlp \/ LastBeat'.last
    BY <1>3, SkidEdge
  <2>3. LockInv'
    BY <2>1, <2>2 DEF PInv, LockInv
  <2> QED
    BY <1>2, <2>1, <2>3 DEF PInv, RegTypes
<1>4. ASSUME NEW s \in Valid, w = {s}, arb_state \in {"none", s}
      PROVE  /\ arb_state' \in {"none", "mmio", "wr"}
             /\ LockInv'
  <2>1. LastBeat' = tlps[s]
    BY <1>4, SkidEdge
  <2>2. tlps[s] \in Beats /\ tlps[s].stream = s /\ s \in Streams
    BY <1>4, WinnerFollows DEF Valid
  <2>3. tlps[s] # NoTlp /\ tlps[s].last \in BOOLEAN /\ (s = "rd" => tlps[s].last)
    BY <2>2, BeatFields
  <2>4. arb_state' = IF tlps[s].last THEN "none" ELSE s
    BY <1>1, <1>4, <2>2, <2>3 DEF ArbStateNext, Streams
  <2> QED
    BY <2>1, <2>2, <2>3, <2>4 DEF LockInv, Streams
<1> QED
  BY <1>2, <1>3, <1>4, WinnersAre

\* The number that stream s has to send next does not change unless it wins.
LEMMA ExpectedEdge ==
    ASSUME PInv, NEW rd_tag \in BOOLEAN, NEW allow \in SUBSET Streams,
           NEW fim_tready \in BOOLEAN, NEW mrd_tready \in BOOLEAN,
           EdgeWith(rd_tag, allow, fim_tready, mrd_tready),
           NEW s \in Streams
    PROVE  LET w == Winners(rd_tag, allow)
           IN /\ s \notin w => Expected(s)' = Expected(s)
              /\ s \in w => s \in Valid /\ Expected(s)' = mid[s] + 1
<1> DEFINE w == Winners(rd_tag, allow)
<1>1. arb_state' = ArbStateNext(w)
  BY DEF EdgeWith, Winners
<1>2. s # "none"
  BY DEF Streams
<1>3. CASE w = {}
  <2>1. arb_state' = arb_state
    BY <1>1, <1>3 DEF ArbStateNext
  <2>2. \/ LastBeat' = LastBeat
        \/ LastBeat = NoTlp \/ LastBeat.last
    BY <1>3, SkidEdge
  <2> QED
    BY <1>2, <1>3, <2>1, <2>2 DEF PInv, LockInv, Expected
<1>4. ASSUME NEW u \in Valid, w = {u}, arb_state \in {"none", u}
      PROVE  /\ s \notin w => Expected(s)' = Expected(s)
             /\ s \in w => s \in Valid /\ Expected(s)' = mid[s] + 1
  <2>1. LastBeat' = tlps[u]
    BY <1>4, SkidEdge
  <2>2. tlps[u] \in Beats /\ u \in Streams /\ tlps[u] # NoTlp
    BY <1>4, WinnerFollows DEF Valid
  <2>3. /\ tlps[u].n \in 1..MAX_BEATS /\ tlps[u].last \in BOOLEAN
        /\ u = "rd" => tlps[u].last
    BY <1>4, <2>2, WinnerFollows, BeatFields
  <2>4. arb_state' = IF tlps[u].last THEN "none" ELSE u
    BY <1>1, <1>4, <2>2, <2>3 DEF ArbStateNext, Streams
  <2>5. mid[u] = IF tlps[u].last THEN 0 ELSE tlps[u].n
    BY <2>2 DEF PInv, EngineInv
  <2>6. CASE s # u
    BY <1>2, <1>4, <2>4, <2>6 DEF Expected
  <2>7. CASE s = u
    BY <1>2, <1>4, <2>1, <2>3, <2>4, <2>5, <2>7 DEF Expected
  <2> QED
    BY <1>4, <2>6, <2>7
<1> QED
  BY <1>3, <1>4, WinnersAre

\* The engines offer the beats that are expected after an edge.
LEMMA EngineEdge ==
    ASSUME PInv, NEW rd_tag \in BOOLEAN, NEW allow \in SUBSET Streams,
           NEW fim_tready \in BOOLEAN, NEW mrd_tready \in BOOLEAN,
           EdgeWith(rd_tag, allow, fim_tready, mrd_tready)
    PROVE  /\ tlps' \in [Streams -> Beats \union {NoTlp}]
           /\ \A s \in Valid' : tlps'[s].stream = s
           /\ mid' \in [Streams -> 0..MAX_BEATS - 1]
           /\ EngineInv'
<1> DEFINE w == Winners(rd_tag, allow)
           direct == {s \in Valid : /\ FIM_HAS_SEPARATE_READ_STREAM
                                    /\ s = "rd" /\ mrd_tready}
           taken == w \union direct
<1> DEFINE leaves == OutBeat # NoTlp /\ fim_tready /\ ~Poisoned
           left == direct \union (IF leaves THEN {OutBeat.stream} ELSE {})
<1>1. EnginesEdge(taken, left)
  BY DEF EdgeWith, Winners
<1> HIDE DEF w, direct, taken, left
<1>2. tlps' \in {[mmio |-> m, rd |-> r, wr |-> x] : m \in Offers("mmio", taken),
                   r \in Offers("rd", taken), x \in Offers("wr", taken)}
  BY <1>1 DEF EnginesEdge
<1>3. /\ DOMAIN tlps' = Streams
      /\ \A s \in Streams : tlps'[s] \in Offers(s, taken)
      /\ tlps' = [s \in Streams |-> tlps'[s]]
  BY <1>2 DEF Streams
<1>4. mid' = [s \in Streams |->
                IF s \in Valid \ taken \/ tlps'[s] = NoTlp THEN mid[s]
                ELSE IF tlps'[s].last THEN 0 ELSE tlps'[s].n]
  BY <1>1 DEF EnginesEdge
\* What becomes of one stream.
<1>5. ASSUME NEW s \in Streams
      PROVE  /\ tlps'[s] \in Beats \union {NoTlp}
             /\ tlps'[s] # NoTlp => tlps'[s].stream = s
             /\ mid'[s] \in 0..MAX_BEATS - 1
             /\ IF tlps'[s] = NoTlp THEN mid'[s] = Expected(s)' - 1
                ELSE /\ tlps'[s].n = Expected(s)'
                     /\ mid'[s] = IF tlps'[s].last THEN 0 ELSE tlps'[s].n
  <2>1. /\ tlps[s] \in Beats \union {NoTlp}
        /\ mid[s] \in 0..MAX_BEATS - 1
        /\ tlps[s] # NoTlp => s \in Valid /\ tlps[s].stream = s
        /\ s \in Valid => tlps[s] # NoTlp
    BY DEF PInv, RegTypes, Valid
  <2>2. /\ s \notin w => Expected(s)' = Expected(s)
        /\ s \in w => s \in Valid /\ Expected(s)' = mid[s] + 1
    BY ExpectedEdge DEF w
  <2>3. IF tlps[s] = NoTlp THEN mid[s] = Expected(s) - 1
        ELSE /\ tlps[s].n = Expected(s)
             /\ mid[s] = IF tlps[s].last THEN 0 ELSE tlps[s].n
    BY DEF PInv, EngineInv
  <2>4. CASE s \in Valid \ taken
    <3>1. tlps'[s] = tlps[s] /\ mid'[s] = mid[s]
      BY <1>3, <1>4, <2>4 DEF Offers
    <3> QED
      BY <2>1, <2>2, <2>3, <2>4, <3>1 DEF taken
  <2>5. CASE s \notin Valid \ taken
    <3>1. Expected(s)' = mid[s] + 1
      <4>1. CASE s \in w
        BY <2>2, <4>1
      <4>2. CASE s \notin w /\ s \in direct
        <5>1. s = "rd" /\ tlps[s] \in Beats /\ tlps[s].stream = "rd"
          BY <2>1, <4>2 DEF direct
        <5>2. tlps[s].last /\ arb_state # "rd"
          BY <5>1, BeatFields DEF PInv, RegTypes
        <5>3. Expected(s) = 1 /\ tlps[s] # NoTlp
          BY <2>1, <4>2, <5>1, <5>2 DEF Expected, direct
        <5> QED
          BY <2>2, <2>3, <4>2, <5>2, <5>3
      <4>3. CASE s \notin Valid
        <5>1. tlps[s] = NoTlp /\ s \notin w
          BY <2>1, <2>2, <4>3
        <5>2. mid[s] = Expected(s) - 1 /\ Expected(s)' = Expected(s)
          BY <2>2, <2>3, <5>1
        <5>3. Expected(s) \in Nat
          <6>1. CASE arb_state = s
            <7>1. LastBeat # NoTlp /\ arb_state # "none"
              BY <6>1 DEF PInv, LockInv, Streams
            <7>2. LastBeat.n \in 1..MAX_BEATS
              BY <7>1, LastBeatType, BeatFields
            <7> QED
              BY <6>1, <7>2, TxArbAssumption DEF Expected
          <6>2. CASE arb_state # s
            BY <6>2 DEF Expected
          <6> QED
            BY <6>1, <6>2
        <5> QED
          BY <5>2, <5>3
      <4> QED
        BY <2>5, <4>1, <4>2, <4>3 DEF taken
    <3>2. tlps'[s] \in {NoTlp} \union {b \in Beats : b.stream = s /\ b.n = mid[s] + 1}
      BY <1>3, <2>5 DEF Offers
    <3>3. CASE tlps'[s] = NoTlp
      <4>1. mid'[s] = mid[s]
        BY <1>4, <3>3
      <4> QED
        BY <2>1, <3>1, <3>3, <4>1
    <3>4. CASE tlps'[s] # NoTlp
      <4>1. /\ tlps'[s] \in Beats /\ tlps'[s].stream = s
            /\ tlps'[s].n = Expected(s)'
        BY <3>1, <3>2, <3>4
      <4>2. mid'[s] = IF tlps'[s].last THEN 0 ELSE tlps'[s].n
        BY <1>4, <2>5, <3>4
      <4>3. mid'[s] \in 0..MAX_BEATS - 1
        BY <4>1, <4>2, BeatFields, TxArbAssumption
      <4> QED
        BY <3>4, <4>1, <4>2, <4>3
    <3> QED
      BY <3>3, <3>4
  <2> QED
    BY <2>4, <2>5
<1>6. tlps' \in [Streams -> Beats \union {NoTlp}] /\ mid' \in [Streams -> 0..MAX_BEATS - 1]
  BY <1>3, <1>4, <1>5
<1>7. \A s \in Valid' : tlps'[s].stream = s
  BY <1>5 DEF Valid
<1>8. EngineInv'
  BY <1>5 DEF EngineInv
<1> QED
  BY <1>6, <1>7, <1>8

-----------------------------------------------------------------------------
(* The theorems.                                                           *)

\* Nothing is under way and nothing is locked.
Idle ==
    /\ tlps = [s \in Streams |-> NoTlp] /\ arb_state = "none" /\ base = 0
    /\ skid = Fifo2Empty(NoTlp) /\ mid = [s \in Streams |-> 0] /\ fim = NoTlp

\* The invariant holds at the start and after a reset edge.
LEMMA IdleInvariant == Idle => PInv
<1> SUFFICES ASSUME Idle PROVE PInv
  OBVIOUS
<1> USE DEF Idle
<1>1. RegTypes
  <2>1. skid \in Fifo2States(Beats \union {NoTlp})
    BY DEF Fifo2Empty, Fifo2States
  <2>2. mid \in [Streams -> 0..MAX_BEATS - 1]
    BY TxArbAssumption
  <2> QED
    BY <2>1, <2>2 DEF RegTypes, Valid
<1>2. ~skid.valid[0] /\ ~skid.valid[1]
  BY DEF Fifo2Empty
<1>3. SkidInv /\ ChainInv /\ LastBeat = NoTlp
  BY <1>2 DEF SkidInv, ChainInv, LastBeat, Fifo2InOrder
<1>4. LockInv
  BY <1>3 DEF LockInv
<1>5. EngineInv
  BY DEF EngineInv, Expected, Streams
<1> QED
  BY <1>1, <1>3, <1>4, <1>5 DEF PInv

\* An edge in operation, as the lemmas above take it.
LEMMA CycleIsEdge ==
    Cycle => \E rd_tag, fim_tready, mrd_tready \in BOOLEAN, allow \in SUBSET Streams :
               EdgeWith(rd_tag, allow, fim_tready, mrd_tready)
<1>1. Weights \subseteq SUBSET Streams
  BY DEF Weights, Streams
<1> QED
  BY <1>1 DEF Cycle

\* Every step keeps the invariant.
LEMMA StepInvariant == PInv /\ [Next]_vars => PInv'
<1> SUFFICES ASSUME PInv, [Next]_vars PROVE PInv'
  OBVIOUS
<1>1. ASSUME NEW rd_tag \in BOOLEAN, NEW allow \in SUBSET Streams,
             NEW fim_tready \in BOOLEAN, NEW mrd_tready \in BOOLEAN,
             EdgeWith(rd_tag, allow, fim_tready, mrd_tready)
      PROVE  PInv'
  <2>1. RegTypes'
    <3>1. Streams' = Streams /\ Beats' = Beats
      OBVIOUS
    <3> QED
      BY <1>1, <3>1, SkidEdge, LockEdge, EngineEdge DEF RegTypes
  <2>2. SkidInv' /\ ChainInv'
    BY <1>1, SkidEdge
  <2>3. LockInv' /\ EngineInv'
    BY <1>1, LockEdge, EngineEdge
  <2> QED
    BY <2>1, <2>2, <2>3 DEF PInv
<1>2. CASE Cycle
  BY <1>1, <1>2, CycleIsEdge
<1>3. CASE Reset
  <2>1. Idle'
    BY <1>3 DEF Reset, Idle
  <2> QED
    BY <2>1, IdleInvariant, PTL
<1>4. CASE UNCHANGED vars
  BY <1>4 DEF vars, PInv, RegTypes, SkidInv, LockInv, EngineInv, ChainInv,
              LastBeat, Expected, Valid
<1> QED
  BY <1>2, <1>3, <1>4 DEF Next

\* The invariant that the theorems below rest on.
THEOREM TxInvariant == Spec => []PInv
<1>1. Init => PInv
  BY IdleInvariant DEF Init, Idle
<1> QED
  BY <1>1, StepInvariant, PTL DEF Spec

\* "Only one winner is allowed!", for any packets, weights and back-pressure.
THEOREM TxOneWinner == Spec => []OneWinner
<1>1. Cardinality({}) <= 1
  BY FS_EmptySet
<1>2. ASSUME NEW s PROVE Cardinality({s}) <= 1
  <2>1. Cardinality({s}) = 1
    BY FS_Singleton, Zenon
  <2> QED
    BY <2>1
<1>3. Init => OneWinner
  BY <1>1 DEF Init, OneWinner
<1>4. PInv /\ OneWinner /\ [Next]_vars => OneWinner'
  <2> SUFFICES ASSUME PInv, OneWinner, [Next]_vars PROVE OneWinner'
    OBVIOUS
  <2>1. CASE Cycle
    <3> PICK rd_tag \in BOOLEAN, fim_tready \in BOOLEAN, mrd_tready \in BOOLEAN,
             allow \in SUBSET Streams : EdgeWith(rd_tag, allow, fim_tready, mrd_tready)
      BY <2>1, CycleIsEdge
    <3>1. won' = Winners(rd_tag, allow)
      BY DEF EdgeWith, Winners
    <3>2. won' = {} \/ \E s \in Valid : won' = {s}
      BY <3>1, WinnersAre
    <3> QED
      BY <1>1, <1>2, <3>2 DEF OneWinner
  <2>2. CASE Reset
    BY <1>1, <2>2 DEF Reset, OneWinner
  <2>3. CASE UNCHANGED vars
    BY <2>3 DEF vars, OneWinner
  <2> QED
    BY <2>1, <2>2, <2>3 DEF Next
<1> QED
  BY <1>3, <1>4, TxInvariant, PTL DEF Spec

\* The FIM never sees the beats of a packet separated by another stream's,
\* for packets of any length.
THEOREM TxPacketsStayWhole == Spec => PacketsStayWhole
<1>1. PInv /\ [Next]_vars
        => [fim' # fim /\ fim' # NoTlp => Follows(fim, fim')]_fim
  <2> SUFFICES ASSUME PInv, [Next]_vars, fim' # fim, fim' # NoTlp
               PROVE  Follows(fim, fim')
    OBVIOUS
  <2>1. CASE Cycle
    <3> PICK rd_tag \in BOOLEAN, fim_tready \in BOOLEAN, mrd_tready \in BOOLEAN,
             allow \in SUBSET Streams : EdgeWith(rd_tag, allow, fim_tready, mrd_tready)
      BY <2>1, CycleIsEdge
    <3>1. fim' = OutBeat /\ OutBeat # NoTlp
      BY DEF EdgeWith
    <3>2. skid.valid[1] /\ OutBeat = skid.data[1]
      BY <3>1 DEF OutBeat, Fifo2NotEmpty, Fifo2First
    <3> QED
      BY <3>1, <3>2 DEF PInv, ChainInv
  <2>2. CASE Reset
    BY <2>2 DEF Reset
  <2>3. CASE UNCHANGED vars
    BY <2>3 DEF vars
  <2> QED
    BY <2>1, <2>2, <2>3 DEF Next
<1> QED
  BY <1>1, TxInvariant, PTL DEF Spec, PacketsStayWhole

-----------------------------------------------------------------------------
(* The beats on their way.                                                 *)

\* The rest of a sequence that begins with b.
LEMMA TailOfConcat ==
    ASSUME NEW S, NEW b \in S, NEW q \in Seq(S)
    PROVE  Tail(<<b>> \o q) = q
<1> DEFINE t == Tail(<<b>> \o q)
<1>1. /\ <<b>> \in Seq(S) /\ Len(<<b>>) = 1
      /\ <<b>> \o q \in Seq(S) /\ Len(<<b>> \o q) = 1 + Len(q)
      /\ \A i \in 1..Len(<<b>> \o q) :
           (<<b>> \o q)[i] = IF i <= 1 THEN <<b>>[i] ELSE q[i - 1]
  BY ConcatProperties
<1>2. Len(q) \in Nat /\ q = [i \in 1..Len(q) |-> q[i]]
  BY LenProperties
<1>3. <<b>> \o q # <<>>
  BY <1>1, <1>2, EmptySeq
<1>4. /\ t \in Seq(S) /\ Len(t) = Len(q)
      /\ \A i \in 1..Len(t) : t[i] = (<<b>> \o q)[i + 1]
  BY <1>1, <1>2, <1>3, HeadTailProperties
<1>5. t = [i \in 1..Len(t) |-> t[i]]
  BY <1>4, LenProperties
<1>6. \A i \in 1..Len(q) : t[i] = q[i]
  BY <1>1, <1>2, <1>4
<1> HIDE DEF t
<1>7. t = q
  BY <1>2, <1>4, <1>5, <1>6
<1> QED
  BY <1>7 DEF t

\* The beats of stream s in the skid buffer, oldest first.
InSkid(s) == Mine(s, skid.valid[1], skid.data[1]) \o Mine(s, skid.valid[0], skid.data[0])

\* The beat the engine of s offers, if the FIM is to get it.
Offered(s) == Mine(s, s \in Valid, tlps[s])

\* Reads with a stream of their own do not go through the skid buffer.
ReadsApart ==
    FIM_HAS_SEPARATE_READ_STREAM =>
      \A i \in 0..1 : skid.valid[i] => skid.data[i].stream # "rd"

\* StreamsKeepTheirBeats as an inductive invariant.
OwedInv == PInv /\ ReadsApart /\ owed = [s \in Streams |-> InSkid(s) \o Offered(s)]

\* The pieces of a stream are sequences of beats.
LEMMA MineType ==
    ASSUME NEW s, NEW present \in BOOLEAN, NEW b, present => b \in Beats
    PROVE  Mine(s, present, b) \in Seq(Beats)
<1>1. CASE present /\ b.stream = s /\ ~b.poison
  BY <1>1 DEF Mine
<1>2. CASE ~(present /\ b.stream = s /\ ~b.poison)
  BY <1>2 DEF Mine
<1> QED
  BY <1>1, <1>2

\* The pieces of a stream in the arbitration.
LEMMA StreamTypes ==
    ASSUME PInv, NEW s
    PROVE  /\ Mine(s, skid.valid[1], skid.data[1]) \in Seq(Beats)
           /\ Mine(s, skid.valid[0], skid.data[0]) \in Seq(Beats)
           /\ InSkid(s) \in Seq(Beats)
           /\ Offered(s) \in Seq(Beats)
<1>1. \A i \in 0..1 : /\ skid.valid[i] \in BOOLEAN
                      /\ skid.valid[i] => skid.data[i] \in Beats
  BY DEF PInv, RegTypes, SkidInv, Fifo2States
<1>2. s \in Valid => tlps[s] \in Beats
  BY DEF PInv, RegTypes, Valid
<1>3. /\ Mine(s, skid.valid[1], skid.data[1]) \in Seq(Beats)
      /\ Mine(s, skid.valid[0], skid.data[0]) \in Seq(Beats)
  BY <1>1, MineType
<1>4. (s \in Valid) \in BOOLEAN
  OBVIOUS
<1>5. Offered(s) \in Seq(Beats)
  BY <1>2, <1>4, MineType DEF Offered
<1>6. InSkid(s) \in Seq(Beats)
  BY <1>3, ConcatProperties DEF InSkid
<1> QED
  BY <1>3, <1>5, <1>6

\* The skid buffer at an edge, seen from one stream.
LEMMA SkidStream ==
    ASSUME PInv, NEW rd_tag \in BOOLEAN, NEW allow \in SUBSET Streams,
           NEW fim_tready \in BOOLEAN, NEW mrd_tready \in BOOLEAN,
           EdgeWith(rd_tag, allow, fim_tready, mrd_tready),
           NEW s \in Streams
    PROVE  LET w == Winners(rd_tag, allow)
           IN InSkid(s)' =
                (IF Deq(fim_tready) THEN Mine(s, skid.valid[0], skid.data[0])
                 ELSE InSkid(s)) \o Mine(s, Enq(w), to_fiu_tx_st(w))
<1> DEFINE w == Winners(rd_tag, allow)
           enq == Enq(w)
           deq == Deq(fim_tready)
           d == to_fiu_tx_st(w)
           A == Mine(s, skid.valid[1], skid.data[1])
           B == Mine(s, skid.valid[0], skid.data[0])
           E == Mine(s, enq, d)
<1>1. /\ skid.valid[0] \in BOOLEAN /\ skid.valid[1] \in BOOLEAN
      /\ skid.valid[0] => skid.valid[1]
  BY SkidFields, Zenon
<1>2. /\ enq \in BOOLEAN /\ deq \in BOOLEAN
      /\ enq => ~skid.valid[0]
      /\ deq => skid.valid[1]
  BY SkidFields, Zenon
<1>3. enq => d \in Beats
  BY BeatEnters
<1>4. /\ skid'.valid[0] = (skid.valid[1] /\ ~deq /\ (skid.valid[0] \/ enq))
      /\ skid'.valid[1] = (skid.valid[0] \/ enq \/ (skid.valid[1] /\ ~deq))
  <2>1. skid'.valid[0] = (skid.valid[1] /\ ~deq /\ (skid.valid[0] \/ enq))
    BY SkidFields, Zenon
  <2>2. skid'.valid[1] = (skid.valid[0] \/ enq \/ (skid.valid[1] /\ ~deq))
    BY SkidFields, Zenon
  <2> QED
    BY <2>1, <2>2
<1>5. skid'.data[0] = IF skid.valid[0] THEN skid.data[0] ELSE d
  BY SkidFields, Zenon
<1>6. skid.valid[1] /\ ~deq => skid'.data[1] = skid.data[1]
  BY SkidFields, Zenon
<1>7. ~(skid.valid[1] /\ ~deq)
         => skid'.data[1] = IF skid.valid[0] THEN skid.data[0] ELSE d
  BY SkidFields, Zenon
<1>8. A \in Seq(Beats) /\ B \in Seq(Beats)
  BY StreamTypes
<1> HIDE DEF w, enq, d, deq
<1>9. E \in Seq(Beats)
  BY <1>2, <1>3, MineType
<1>10. ~skid.valid[1] => A = <<>>
  BY DEF Mine
<1>11. ~skid.valid[0] => B = <<>>
  BY DEF Mine
<1>12. ~enq => E = <<>>
  BY DEF Mine
<1>13. InSkid(s) = A \o B
  BY DEF InSkid
<1>14. InSkid(s)' = Mine(s, skid'.valid[1], skid'.data[1])
                      \o Mine(s, skid'.valid[0], skid'.data[0])
  BY DEF InSkid, Mine
<1> DEFINE A1 == Mine(s, skid'.valid[1], skid'.data[1])
           B1 == Mine(s, skid'.valid[0], skid'.data[0])
<1>15. InSkid(s)' = (IF deq THEN B ELSE A \o B) \o E
  <2>1. CASE deq /\ skid.valid[0]
    <3>1. skid'.valid[1] /\ ~skid'.valid[0] /\ ~enq /\ skid'.data[1] = skid.data[0]
      BY <1>1, <1>2, <1>4, <1>7, <2>1
    <3>2. A1 = B /\ B1 = <<>> /\ E = <<>>
      BY <2>1, <3>1 DEF Mine
    <3> HIDE DEF A, B, E, A1, B1
    <3> QED
      BY <1>8, <1>14, <2>1, <3>2, ConcatEmptySeq DEF A1, B1
  <2>2. CASE deq /\ ~skid.valid[0]
    <3>1. skid'.valid[1] = enq /\ ~skid'.valid[0] /\ skid'.data[1] = d
      BY <1>1, <1>2, <1>4, <1>7, <2>2
    <3>2. A1 = E /\ B1 = <<>> /\ B = <<>>
      BY <2>2, <3>1 DEF Mine
    <3> HIDE DEF A, B, E, A1, B1
    <3> QED
      BY <1>9, <1>14, <2>2, <3>2, ConcatEmptySeq DEF A1, B1
  <2>3. CASE ~deq /\ skid.valid[0]
    <3>1. /\ skid'.valid[1] /\ skid'.valid[0] /\ ~enq
          /\ skid'.data[1] = skid.data[1] /\ skid'.data[0] = skid.data[0]
      BY <1>1, <1>2, <1>4, <1>5, <1>6, <2>3
    <3>2. A1 = A /\ B1 = B /\ E = <<>>
      BY <1>1, <2>3, <3>1 DEF Mine
    <3>3. A \o B \in Seq(Beats)
      BY <1>8, ConcatProperties
    <3> HIDE DEF A, B, E, A1, B1
    <3> QED
      BY <1>14, <2>3, <3>2, <3>3, ConcatEmptySeq DEF A1, B1
  <2>4. CASE ~deq /\ ~skid.valid[0] /\ skid.valid[1]
    <3>1. /\ skid'.valid[1] /\ skid'.valid[0] = enq
          /\ skid'.data[1] = skid.data[1] /\ skid'.data[0] = d
      BY <1>1, <1>2, <1>4, <1>5, <1>6, <2>4
    <3>2. A1 = A /\ B1 = E /\ B = <<>>
      BY <2>4, <3>1 DEF Mine
    <3> HIDE DEF A, B, E, A1, B1
    <3> QED
      BY <1>8, <1>14, <2>4, <3>2, ConcatEmptySeq DEF A1, B1
  <2>5. CASE ~deq /\ ~skid.valid[1]
    <3>1. /\ ~skid.valid[0] /\ skid'.valid[1] = enq /\ ~skid'.valid[0]
          /\ skid'.data[1] = d
      BY <1>1, <1>2, <1>4, <1>7, <2>5
    <3>2. A1 = E /\ B1 = <<>> /\ A = <<>> /\ B = <<>>
      BY <2>5, <3>1 DEF Mine
    <3> HIDE DEF A, B, E, A1, B1
    <3> QED
      BY <1>8, <1>9, <1>14, <2>5, <3>2, ConcatEmptySeq DEF A1, B1
  <2> QED
    BY <1>1, <1>2, <2>1, <2>2, <2>3, <2>4, <2>5
<1> QED
  BY <1>13, <1>15 DEF w, enq, deq, d

\* The streams whose beat goes to the FIM on the stream of the reads, and those
\* of which a beat that is owed goes to the FIM.
Direct(mrd_tready) ==
    {s \in Valid : FIM_HAS_SEPARATE_READ_STREAM /\ s = "rd" /\ mrd_tready}
Leaves(fim_tready) == OutBeat # NoTlp /\ fim_tready /\ ~Poisoned
Left(fim_tready, mrd_tready) ==
    Direct(mrd_tready) \union (IF Leaves(fim_tready) THEN {OutBeat.stream} ELSE {})

\* What goes from the engine of s to the skid buffer, and what is left of the
\* beats it owes.
Sent(rd_tag, allow, s) ==
    LET w == Winners(rd_tag, allow) IN Mine(s, Enq(w), to_fiu_tx_st(w))
Kept(fim_tready, mrd_tready, s) ==
    IF s \in Left(fim_tready, mrd_tready) THEN Tail(owed[s]) ELSE owed[s]

\* Two pieces of a stream, as one: the lemma below is about pieces whatever a
\* sequence is made of.
Joined(q, r) == q \o r

\* The beat that the engine of s offers for the first time after the edge.
NewBeat(rd_tag, allow, mrd_tready, s) ==
    LET taken == Winners(rd_tag, allow) \union Direct(mrd_tready)
    IN Mine(s, s \notin Valid \ taken /\ tlps'[s] # NoTlp, tlps'[s])

\* What an engine offers at an edge is also what it owes from then on.
LEMMA EngineStream ==
    ASSUME PInv, NEW rd_tag \in BOOLEAN, NEW allow \in SUBSET Streams,
           NEW fim_tready \in BOOLEAN, NEW mrd_tready \in BOOLEAN,
           EdgeWith(rd_tag, allow, fim_tready, mrd_tready),
           NEW s \in Streams
    PROVE  LET O == Mine(s, tlps'[s] # NoTlp, tlps'[s])
               N == NewBeat(rd_tag, allow, mrd_tready, s)
           IN /\ N \in Seq(Beats)
              /\ owed'[s] = Joined(Kept(fim_tready, mrd_tready, s), N)
              /\ s \in Direct(mrd_tready) => Sent(rd_tag, allow, s) = <<>> /\ O = N
              /\ s \notin Direct(mrd_tready)
                   => Joined(Sent(rd_tag, allow, s), O) = Joined(Offered(s), N)
<1> DEFINE w == Winners(rd_tag, allow)
           enq == Enq(w)
           d == to_fiu_tx_st(w)
           E == Mine(s, enq, d)
           direct == Direct(mrd_tready)
           left == Left(fim_tready, mrd_tready)
           taken == w \union direct
           new == s \notin Valid \ taken /\ tlps'[s] # NoTlp
           N == Mine(s, new, tlps'[s])
           O == Mine(s, tlps'[s] # NoTlp, tlps'[s])
<1>1. EnginesEdge(taken, left)
  BY DEF EdgeWith, Winners, Direct, Left, Leaves
<1>2. \/ w = {} /\ ~enq
      \/ \E u \in Valid : w = {u} /\ d = tlps[u] /\ enq
  BY BeatEnters
<1> HIDE DEF w, direct, left, taken
<1>3. tlps'[s] \in Offers(s, taken)
  <2>1. tlps' \in {[mmio |-> m, rd |-> r, wr |-> x] : m \in Offers("mmio", taken),
                     r \in Offers("rd", taken), x \in Offers("wr", taken)}
    BY <1>1 DEF EnginesEdge
  <2> QED
    BY <2>1 DEF Streams
<1>4. owed'[s] = (IF s \in left THEN Tail(owed[s]) ELSE owed[s])
                   \o IF new /\ ~tlps'[s].poison THEN <<tlps'[s]>> ELSE <<>>
  BY <1>1 DEF EnginesEdge
<1> HIDE DEF w, enq, d, direct, left, new
<1>5. /\ tlps[s] \in Beats \union {NoTlp}
      /\ s \in Valid <=> tlps[s] # NoTlp
      /\ s \in Valid => tlps[s].stream = s
  BY DEF PInv, RegTypes, Valid
<1>6. /\ tlps'[s] \in Beats \union {NoTlp}
      /\ new => tlps'[s] \in Beats /\ tlps'[s].stream = s
  BY <1>3, <1>5 DEF Offers, new
<1>7. N \in Seq(Beats)
  BY <1>6, MineType DEF new
<1>8. owed'[s] = (IF s \in left THEN Tail(owed[s]) ELSE owed[s]) \o N
  BY <1>4, <1>6 DEF Mine
\* The beat that enters the skid buffer is of the stream that wins.
<1>9. IF s \in w THEN s \in Valid /\ E = Offered(s) ELSE E = <<>>
  <2>1. \/ w = {} /\ ~enq
        \/ \E u \in Valid : w = {u} /\ d = tlps[u] /\ enq
    BY <1>2
  <2>2. \A u \in Valid : tlps[u].stream = u
    BY DEF PInv, RegTypes
  <2> QED
    BY <2>1, <2>2 DEF Mine, Offered
<1>10. IF s \in Valid \ taken THEN O = Offered(s) /\ N = <<>> ELSE O = N
  <2>1. CASE s \in Valid \ taken
    <3>1. tlps'[s] = tlps[s] /\ ~new /\ tlps'[s] # NoTlp /\ s \in Valid
      BY <1>3, <1>5, <2>1 DEF Offers, new
    <3> QED
      BY <2>1, <3>1 DEF Mine, Offered
  <2>2. CASE s \notin Valid \ taken
    <3>1. new <=> tlps'[s] # NoTlp
      BY <2>2 DEF new
    <3> QED
      BY <2>2, <3>1 DEF Mine
  <2> QED
    BY <2>1, <2>2
<1>11. s \in direct => s \in Valid /\ s \notin w
  BY WinnersAre DEF w, direct, Direct
<1>12. IF s \in direct THEN E = <<>> /\ O = N
       ELSE E \o O = Offered(s) \o N
  <2> HIDE DEF E, N, O
  <2>1. CASE s \in direct
    BY <1>9, <1>10, <1>11, <2>1 DEF taken
  <2>2. CASE s \notin direct /\ s \in w
    BY <1>9, <1>10, <2>2 DEF taken
  <2>3. CASE s \notin direct /\ s \notin w /\ s \in Valid
    <3>1. Offered(s) \in Seq(Beats)
      BY StreamTypes
    <3>2. E = <<>> /\ N = <<>> /\ O = Offered(s)
      BY <1>9, <1>10, <2>3 DEF taken
    <3> QED
      BY <2>3, <3>1, <3>2, ConcatEmptySeq
  <2>4. CASE s \notin direct /\ s \notin Valid
    <3>1. Offered(s) = <<>>
      BY <2>4 DEF Offered, Mine
    <3>2. E = <<>> /\ O = N
      BY <1>9, <1>10, <2>4
    <3> QED
      BY <2>4, <3>1, <3>2
  <2> QED
    BY <2>1, <2>2, <2>3, <2>4
<1>13. E = Sent(rd_tag, allow, s)
  BY DEF Sent, w, enq, d
<1>14. owed'[s] = Kept(fim_tready, mrd_tready, s) \o N
  BY <1>8 DEF Kept, left
<1>15. N = NewBeat(rd_tag, allow, mrd_tready, s)
  BY DEF NewBeat, new, taken, direct, w
<1> HIDE DEF E, N
<1> QED
  BY <1>7, <1>12, <1>13, <1>14, <1>15 DEF direct, Joined

\* One stream at an edge: what was in flight and not taken by the FIM, then
\* what is new, is in flight.
LEMMA OwedEdge ==
    ASSUME OwedInv, NEW rd_tag \in BOOLEAN, NEW allow \in SUBSET Streams,
           NEW fim_tready \in BOOLEAN, NEW mrd_tready \in BOOLEAN,
           EdgeWith(rd_tag, allow, fim_tready, mrd_tready),
           NEW s \in Streams
    PROVE  owed'[s] = InSkid(s)' \o Offered(s)'
<1>1. PInv
  BY DEF OwedInv
<1> DEFINE O == Mine(s, tlps'[s] # NoTlp, tlps'[s])
<1> DEFINE N == NewBeat(rd_tag, allow, mrd_tready, s)
<1>2. /\ N \in Seq(Beats)
      /\ owed'[s] = Joined(Kept(fim_tready, mrd_tready, s), N)
      /\ s \in Direct(mrd_tready) => Sent(rd_tag, allow, s) = <<>> /\ O = N
      /\ s \notin Direct(mrd_tready)
           => Joined(Sent(rd_tag, allow, s), O) = Joined(Offered(s), N)
  BY <1>1, EngineStream
<1> DEFINE w == Winners(rd_tag, allow)
           E == Sent(rd_tag, allow, s)
           A == Mine(s, skid.valid[1], skid.data[1])
           B == Mine(s, skid.valid[0], skid.data[0])
           C == Offered(s)
           deq == Deq(fim_tready)
           X == IF deq THEN B ELSE A \o B
           T == Kept(fim_tready, mrd_tready, s)
<1>3. PInv /\ ReadsApart /\ owed[s] = (A \o B) \o C /\ InSkid(s) = A \o B
  BY DEF OwedInv, InSkid
<1>4. A \in Seq(Beats) /\ B \in Seq(Beats) /\ C \in Seq(Beats)
  BY <1>3, StreamTypes
<1>5. InSkid(s)' = X \o E
  BY <1>3, SkidStream DEF Sent
<1>6. /\ skid.valid[1] \in BOOLEAN /\ deq \in BOOLEAN
      /\ skid.valid[1] => skid.data[1] \in Beats /\ skid.data[1] # NoTlp
  <2>1. /\ skid.valid[1] \in BOOLEAN /\ skid.data[1] \in Beats \union {NoTlp}
        /\ skid.valid[1] => skid.data[1] # NoTlp
    BY <1>3 DEF PInv, RegTypes, SkidInv, Fifo2States
  <2>2. deq \in BOOLEAN
    BY DEF Deq
  <2> QED
    BY <2>1, <2>2
<1>7. OutBeat = IF skid.valid[1] THEN skid.data[1] ELSE NoTlp
  BY DEF OutBeat, Fifo2NotEmpty, Fifo2First
<1>8. /\ deq => skid.valid[1] /\ OutBeat = skid.data[1]
      /\ Leaves(fim_tready) <=> deq /\ ~OutBeat.poison
  BY <1>6, <1>7 DEF Deq, Leaves, Poisoned
<1>9. E \in Seq(Beats)
  <2>1. (Enq(w)) \in BOOLEAN /\ (Enq(w) => to_fiu_tx_st(w) \in Beats)
    BY <1>3, BeatEnters DEF Enq, to_fiu_tx_st_tready, Fifo2NotFull
  <2> QED
    BY <2>1, MineType DEF Sent
<1>10. Offered(s)' = O /\ O \in Seq(Beats)
  <2>1. Offered(s)' = O
    BY DEF Offered, Mine, Valid
  <2>2. tlps'[s] \in Beats \union {NoTlp} /\ (tlps'[s] # NoTlp) \in BOOLEAN
    BY <1>3, EngineEdge
  <2> QED
    BY <2>1, <2>2, MineType
<1>11. CASE s \in Direct(mrd_tready)
  <2>1. /\ s = "rd" /\ FIM_HAS_SEPARATE_READ_STREAM /\ s \in Valid
        /\ s \in Left(fim_tready, mrd_tready)
    BY <1>11 DEF Direct, Left
  <2>2. A = <<>> /\ B = <<>>
    BY <1>3, <2>1 DEF ReadsApart, Mine
  <2>3. tlps[s] \in Beats /\ tlps[s].stream = s
    BY <1>3, <2>1 DEF PInv, RegTypes, Valid
  <2>4. ~tlps[s].poison
    BY <2>1, <2>3 DEF Beats
  <2>5. C = <<tlps[s]>>
    BY <2>1, <2>3, <2>4 DEF Offered, Mine
  <2>6. owed'[s] = Tail((A \o B) \o C) \o N /\ E = <<>> /\ O = N
    BY <1>3, <1>2, <1>11, <2>1 DEF Kept, Joined
  <2>7. X = <<>> \/ X = A \o B
    BY <2>2
  <2> HIDE DEF A, B, C, E, X, O, N
  <2>8. <<>> \in Seq(Beats)
    BY <1>4, <2>2
  <2>9. (A \o B) \o C = C /\ A \o B = <<>> /\ C = C \o <<>>
    BY <1>4, <2>2, <2>8, ConcatEmptySeq
  <2>10. Tail(C) = <<>>
    BY <2>3, <2>5, <2>8, <2>9, TailOfConcat
  <2>11. X = <<>>
    BY <2>7, <2>9
  <2> QED
    BY <1>5, <1>10, <2>6, <2>8, <2>9, <2>10, <2>11, ConcatEmptySeq
<1>12. CASE s \notin Direct(mrd_tready)
  <2>1. T = X \o C
    <3>1. s \in Left(fim_tready, mrd_tready) <=> deq /\ A # <<>>
      BY <1>6, <1>8, <1>12 DEF Left, Mine
    <3>2. CASE ~deq
      BY <1>3, <3>1, <3>2 DEF Kept
    <3>3. CASE deq /\ A = <<>>
      <4>1. T = (<<>> \o B) \o C /\ X = B
        BY <1>3, <3>1, <3>3 DEF Kept
      <4> HIDE DEF A, B, C, X, T
      <4> QED
        BY <1>4, <4>1, ConcatEmptySeq
    <3>4. CASE deq /\ A # <<>>
      <4>1. A = <<skid.data[1]>> /\ skid.data[1] \in Beats
        BY <1>6, <1>8, <3>4 DEF Mine
      <4>2. T = Tail((A \o B) \o C) /\ X = B
        BY <1>3, <3>1, <3>4 DEF Kept
      <4> HIDE DEF A, B, C, X, T
      <4>3. (A \o B) \o C = A \o (B \o C) /\ B \o C \in Seq(Beats)
        BY <1>4, ConcatAssociative, ConcatProperties
      <4> QED
        BY <4>1, <4>2, <4>3, TailOfConcat
    <3> QED
      BY <1>6, <3>2, <3>3, <3>4
  <2>2. N \in Seq(Beats) /\ X \in Seq(Beats)
    <3>1. A \o B \in Seq(Beats)
      BY <1>4, ConcatProperties
    <3> HIDE DEF A, B
    <3> QED
      BY <1>4, <1>2, <3>1
  <2>3. owed'[s] = T \o N /\ E \o O = C \o N
    BY <1>2, <1>12 DEF Joined
  <2> HIDE DEF T, X, E, C, O, N
  <2>4. (X \o C) \o N = X \o (C \o N)
    BY <1>4, <2>2, ConcatAssociative
  <2>5. (X \o E) \o O = X \o (E \o O)
    BY <1>9, <1>10, <2>2, ConcatAssociative
  <2> QED
    BY <1>5, <1>10, <2>1, <2>3, <2>4, <2>5
<1> QED
  BY <1>11, <1>12

\* An edge puts no read in the skid buffer if reads have their own stream.
LEMMA ReadsApartEdge ==
    ASSUME PInv, ReadsApart, NEW rd_tag \in BOOLEAN, NEW allow \in SUBSET Streams,
           NEW fim_tready \in BOOLEAN, NEW mrd_tready \in BOOLEAN,
           EdgeWith(rd_tag, allow, fim_tready, mrd_tready)
    PROVE  ReadsApart'
<1> DEFINE w == Winners(rd_tag, allow)
           enq == Enq(w)
           d == to_fiu_tx_st(w)
           deq == Deq(fim_tready)
<1>1. /\ skid.valid[0] \in BOOLEAN /\ skid.valid[1] \in BOOLEAN
      /\ skid.valid[0] => skid.valid[1]
  BY SkidFields, Zenon
<1>2. enq \in BOOLEAN /\ deq \in BOOLEAN
  BY SkidFields, Zenon
<1>3. skid'.valid[0] = (skid.valid[1] /\ ~deq /\ (skid.valid[0] \/ enq))
  BY SkidFields, Zenon
<1>4. skid'.valid[1] = (skid.valid[0] \/ enq \/ (skid.valid[1] /\ ~deq))
  BY SkidFields, Zenon
<1>5. skid'.data[0] = IF skid.valid[0] THEN skid.data[0] ELSE d
  BY SkidFields, Zenon
<1>6. skid.valid[1] /\ ~deq => skid'.data[1] = skid.data[1]
  BY SkidFields, Zenon
<1>7. ~(skid.valid[1] /\ ~deq)
         => skid'.data[1] = IF skid.valid[0] THEN skid.data[0] ELSE d
  BY SkidFields, Zenon
<1>8. enq /\ FIM_HAS_SEPARATE_READ_STREAM => d.stream # "rd"
  <2>1. enq => \E u \in Valid : w = {u} /\ d = tlps[u]
    BY BeatEnters
  <2>2. \A u \in Valid : tlps[u].stream = u
    BY DEF PInv, RegTypes
  <2>3. \A u : w = {u} /\ u = "rd" => ~FIM_HAS_SEPARATE_READ_STREAM
    BY WinnersAre
  <2> QED
    BY <2>1, <2>2, <2>3
<1> HIDE DEF w, enq, d, deq
<1> QED
  BY <1>1, <1>2, <1>3, <1>4, <1>5, <1>6, <1>7, <1>8 DEF ReadsApart

\* Nothing is under way and nothing is owed.
AllIdle == Idle /\ owed = [s \in Streams |-> <<>>]

\* The invariant holds at the start and after a reset edge.
LEMMA AllIdleOwes == AllIdle => OwedInv
<1> SUFFICES ASSUME Idle, owed = [s \in Streams |-> <<>>] PROVE OwedInv
  BY DEF AllIdle
<1>1. PInv
  BY IdleInvariant
<1>2. ~skid.valid[0] /\ ~skid.valid[1] /\ Valid = {}
  BY DEF Idle, Fifo2Empty, Valid
<1>3. <<>> \o <<>> = <<>>
  <2>1. <<>> \in Seq(Beats)
    OBVIOUS
  <2> QED
    BY <2>1, ConcatEmptySeq
<1>4. \A s : InSkid(s) = <<>> \o <<>> /\ Offered(s) = <<>>
  BY <1>2 DEF InSkid, Offered, Mine
<1>5. \A s : InSkid(s) \o Offered(s) = <<>>
  BY <1>3, <1>4
<1> QED
  BY <1>1, <1>2, <1>5 DEF OwedInv, ReadsApart

\* Every step keeps the invariant.
LEMMA OwedStep == OwedInv /\ [Next]_vars => OwedInv'
<1> SUFFICES ASSUME OwedInv, [Next]_vars PROVE OwedInv'
  OBVIOUS
<1>1. PInv'
  BY StepInvariant DEF OwedInv
<1>2. CASE Cycle
  <2> PICK rd_tag \in BOOLEAN, fim_tready \in BOOLEAN, mrd_tready \in BOOLEAN,
           allow \in SUBSET Streams : EdgeWith(rd_tag, allow, fim_tready, mrd_tready)
    BY <1>2, CycleIsEdge
  <2>1. ReadsApart'
    BY ReadsApartEdge DEF OwedInv
  <2>2. owed' = [s \in Streams |-> owed'[s]]
    BY DEF EdgeWith, EnginesEdge
  <2>3. \A s \in Streams : owed'[s] = InSkid(s)' \o Offered(s)'
    BY OwedEdge
  <2> QED
    BY <1>1, <2>1, <2>2, <2>3 DEF OwedInv
<1>3. CASE Reset
  <2>1. AllIdle'
    BY <1>3 DEF Reset, AllIdle, Idle
  <2> QED
    BY <2>1, AllIdleOwes, PTL
<1>4. CASE UNCHANGED vars
  BY <1>1, <1>4 DEF vars, OwedInv, ReadsApart, InSkid, Offered, Mine, Valid
<1> QED
  BY <1>2, <1>3, <1>4 DEF Next

\* The invariant of the streams.
THEOREM TxOwed == Spec => []OwedInv
<1>1. Init => OwedInv
  BY AllIdleOwes DEF Init, AllIdle, Idle
<1> QED
  BY <1>1, OwedStep, PTL DEF Spec

\* What the FIM has yet to take of a stream is what is between its engine and
\* the FIM: nothing is lost, repeated or out of order, for packets of any length.
THEOREM TxStreamsKeepTheirBeats == Spec => []StreamsKeepTheirBeats
<1>1. OwedInv => StreamsKeepTheirBeats
  BY DEF OwedInv, StreamsKeepTheirBeats, InFlight, InSkid, Offered
<1> QED
  BY <1>1, TxOwed, PTL

\* Every register of the arbitration keeps its range; the write timeout counter
\* in particular wraps within its width.
THEOREM TxTypeCorrect == Spec => []TypeOK
<1> DEFINE RestTypes == /\ non_wr_ctr \in 0..2 * WR_TIMEOUT - 1
                        /\ force_allow_wr \in BOOLEAN /\ won \subseteq Streams
<1>1. 0 \in 0..2 * WR_TIMEOUT - 1
  BY TxArbAssumption
<1>2. Init => RestTypes
  BY <1>1 DEF Init
<1>3. OwedInv /\ RestTypes /\ [Next]_vars => RestTypes'
  <2> SUFFICES ASSUME OwedInv, RestTypes, [Next]_vars PROVE RestTypes'
    OBVIOUS
  <2>1. CASE Cycle
    <3> PICK rd_tag \in BOOLEAN, fim_tready \in BOOLEAN, mrd_tready \in BOOLEAN,
             allow \in SUBSET Streams : EdgeWith(rd_tag, allow, fim_tready, mrd_tready)
      BY <2>1, CycleIsEdge
    <3> DEFINE w == Winners(rd_tag, allow)
    <3>1. /\ non_wr_ctr' = NonWrCtrNext(w) /\ force_allow_wr' = ForceAllowWrNext(w)
          /\ won' = w
      BY DEF EdgeWith, Winners
    <3>2. w \subseteq Streams
      BY DEF Winners, arb_grant, arb_req, LockGrant, Valid
    <3> HIDE DEF w
    <3>3. NonWrCtrNext(w) \in 0..2 * WR_TIMEOUT - 1
      BY TxArbAssumption DEF NonWrCtrNext
    <3>4. ForceAllowWrNext(w) \in BOOLEAN
      BY DEF ForceAllowWrNext
    <3> QED
      BY <3>1, <3>2, <3>3, <3>4
  <2>2. CASE Reset
    BY <1>1, <2>2 DEF Reset
  <2>3. CASE UNCHANGED vars
    BY <2>3 DEF vars
  <2> QED
    BY <2>1, <2>2, <2>3 DEF Next
<1>4. OwedInv /\ RestTypes => TypeOK
  <2> SUFFICES ASSUME OwedInv, RestTypes PROVE TypeOK
    OBVIOUS
  <2>1. \A s : InSkid(s) \in Seq(Beats) /\ Offered(s) \in Seq(Beats)
    BY StreamTypes DEF OwedInv
  <2>2. \A s : InSkid(s) \o Offered(s) \in Seq(Beats)
    BY <2>1, ConcatProperties
  <2>3. owed \in [Streams -> Seq(Beats)]
    BY <2>2 DEF OwedInv
  <2> QED
    BY <2>3 DEF OwedInv, PInv, RegTypes, TypeOK
<1> QED
  BY <1>2, <1>3, <1>4, TxOwed, PTL DEF Spec

=============================================================================
