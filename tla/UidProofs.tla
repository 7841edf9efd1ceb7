----------------------------- MODULE UidProofs ------------------------------
(***************************************************************************)
(* Proofs about the id generator, for any number of ids and any number of  *)
(* reserved ids: no id is given to two requests and no id is lost.         *)
(***************************************************************************)
EXTENDS Uid, TLAPS

-----------------------------------------------------------------------------
(* One edge of ofs_plat_prim_fifo2, for any data.                          *)

\* The record after one edge of ofs_plat_prim_fifo2, field by field.
LEMMA Fifo2Fields ==
    ASSUME NEW Data, NEW f \in Fifo2States(Data), Fifo2InOrder(f),
           NEW enq \in BOOLEAN, NEW d \in Data, NEW deq \in BOOLEAN,
           deq => Fifo2NotEmpty(f)
    PROVE  LET g == Fifo2Next(f, enq, d, deq)
           IN /\ g \in Fifo2States(Data)
              /\ Fifo2InOrder(g)
              /\ g.valid[0] = (f.valid[1] /\ ~deq /\ (f.valid[0] \/ enq))
              /\ g.valid[1] = (f.valid[0] \/ enq \/ (f.valid[1] /\ ~deq))
              /\ g.data[0] = IF f.valid[0] THEN f.data[0] ELSE d
              /\ g.data[1] = IF f.valid[1] /\ ~deq THEN f.data[1]
                             ELSE IF f.valid[0] THEN f.data[0] ELSE d
  BY DEF Fifo2Next, Fifo2States, Fifo2InOrder, Fifo2NotEmpty

\* The FIFO out of reset.
LEMMA Fifo2EmptyState ==
    ASSUME NEW Data, NEW d \in Data
    PROVE  LET f == Fifo2Empty(d)
           IN /\ f \in Fifo2States(Data) /\ Fifo2InOrder(f) /\ Fifo2Distinct(f)
              /\ ~f.valid[0] /\ ~f.valid[1] /\ Fifo2Members(f) = {}
<1>1. Fifo2Empty(d) \in Fifo2States(Data)
  BY DEF Fifo2Empty, Fifo2States
<1>2. ~Fifo2Empty(d).valid[0] /\ ~Fifo2Empty(d).valid[1]
  BY DEF Fifo2Empty
<1> QED
  BY <1>1, <1>2 DEF Fifo2InOrder, Fifo2Distinct, Fifo2Members

\* What an edge does to the values held: one is added when enq, and the
\* first one leaves when deq.
LEMMA Fifo2Step ==
    ASSUME NEW Data, NEW f \in Fifo2States(Data), Fifo2InOrder(f),
           NEW enq \in BOOLEAN, NEW d \in Data, NEW deq \in BOOLEAN,
           enq => Fifo2NotFull(f), deq => Fifo2NotEmpty(f),
           Fifo2Distinct(f), enq => d \notin Fifo2Members(f)
    PROVE  LET g == Fifo2Next(f, enq, d, deq)
           IN /\ Fifo2Distinct(g)
              /\ Fifo2Members(g) =
                   (Fifo2Members(f) \ (IF deq THEN {Fifo2First(f)} ELSE {}))
                     \union (IF enq THEN {d} ELSE {})
<1> DEFINE g == Fifo2Next(f, enq, d, deq)
<1> HIDE DEF g
<1>1. /\ g.valid[0] = (f.valid[1] /\ ~deq /\ (f.valid[0] \/ enq))
      /\ g.valid[1] = (f.valid[0] \/ enq \/ (f.valid[1] /\ ~deq))
      /\ g.data[0] = IF f.valid[0] THEN f.data[0] ELSE d
      /\ g.data[1] = IF f.valid[1] /\ ~deq THEN f.data[1]
                     ELSE IF f.valid[0] THEN f.data[0] ELSE d
  BY Fifo2Fields DEF g
<1>2. \A x : x \in Fifo2Members(f) <=>
        ((f.valid[0] /\ x = f.data[0]) \/ (f.valid[1] /\ x = f.data[1]))
  BY DEF Fifo2Members
<1>3. \A x : x \in Fifo2Members(g) <=>
        ((g.valid[0] /\ x = g.data[0]) \/ (g.valid[1] /\ x = g.data[1]))
  BY DEF Fifo2Members
<1> USE DEF Fifo2InOrder, Fifo2NotFull, Fifo2NotEmpty, Fifo2First, Fifo2Distinct
<1>4. f.valid[0] \in BOOLEAN /\ f.valid[1] \in BOOLEAN
  BY DEF Fifo2States
<1>5. Fifo2Distinct(g)
  BY <1>1, <1>2, <1>4
<1>6. ASSUME NEW x
      PROVE  x \in Fifo2Members(g) <=>
               \/ x \in Fifo2Members(f) /\ ~(deq /\ x = Fifo2First(f))
               \/ enq /\ x = d
  BY <1>1, <1>2, <1>3, <1>4
<1> QED
  BY <1>5, <1>6 DEF g

\* How many values are held after an edge.
LEMMA Fifo2Length ==
    ASSUME NEW Data, NEW f \in Fifo2States(Data), Fifo2InOrder(f),
           NEW enq \in BOOLEAN, NEW d \in Data, NEW deq \in BOOLEAN,
           enq => Fifo2NotFull(f), deq => Fifo2NotEmpty(f)
    PROVE  LET g == Fifo2Next(f, enq, d, deq)
           IN /\ Len(Fifo2Contents(f)) \in Nat
              /\ Len(Fifo2Contents(g)) = Len(Fifo2Contents(f))
                   - (IF deq THEN 1 ELSE 0) + (IF enq THEN 1 ELSE 0)
<1> DEFINE g == Fifo2Next(f, enq, d, deq)
<1>1. ASSUME NEW h, h.valid[0] \in BOOLEAN, h.valid[1] \in BOOLEAN
      PROVE  Len(Fifo2Contents(h)) =
               (IF h.valid[0] THEN 1 ELSE 0) + (IF h.valid[1] THEN 1 ELSE 0)
  <2>1. CASE h.valid[0] /\ h.valid[1]
    BY <2>1 DEF Fifo2Contents
  <2>2. CASE h.valid[0] /\ ~h.valid[1]
    BY <2>2 DEF Fifo2Contents
  <2>3. CASE ~h.valid[0] /\ h.valid[1]
    BY <2>3 DEF Fifo2Contents
  <2>4. CASE ~h.valid[0] /\ ~h.valid[1]
    BY <2>4 DEF Fifo2Contents
  <2> QED
    BY <1>1, <2>1, <2>2, <2>3, <2>4
<1>2. /\ f.valid[0] \in BOOLEAN /\ f.valid[1] \in BOOLEAN
      /\ g.valid[0] \in BOOLEAN /\ g.valid[1] \in BOOLEAN
      /\ g.valid[0] = (f.valid[1] /\ ~deq /\ (f.valid[0] \/ enq))
      /\ g.valid[1] = (f.valid[0] \/ enq \/ (f.valid[1] /\ ~deq))
  BY Fifo2Fields DEF Fifo2States
<1> HIDE DEF g
<1>3. /\ Len(Fifo2Contents(f)) =
            (IF f.valid[0] THEN 1 ELSE 0) + (IF f.valid[1] THEN 1 ELSE 0)
      /\ Len(Fifo2Contents(g)) =
            (IF g.valid[0] THEN 1 ELSE 0) + (IF g.valid[1] THEN 1 ELSE 0)
  <2>1. /\ f.valid[0] \in BOOLEAN /\ f.valid[1] \in BOOLEAN
        /\ g.valid[0] \in BOOLEAN /\ g.valid[1] \in BOOLEAN
    BY <1>2
  <2>2. Len(Fifo2Contents(f)) =
            (IF f.valid[0] THEN 1 ELSE 0) + (IF f.valid[1] THEN 1 ELSE 0)
    BY <1>1, <2>1
  <2>3. Len(Fifo2Contents(g)) =
            (IF g.valid[0] THEN 1 ELSE 0) + (IF g.valid[1] THEN 1 ELSE 0)
    BY <1>1, <2>1
  <2> QED
    BY <2>2, <2>3
<1>4. /\ Len(Fifo2Contents(f)) \in Nat
      /\ Len(Fifo2Contents(g)) = Len(Fifo2Contents(f))
           - (IF deq THEN 1 ELSE 0) + (IF enq THEN 1 ELSE 0)
  BY <1>2, <1>3 DEF Fifo2InOrder, Fifo2NotFull, Fifo2NotEmpty
<1> QED
  BY <1>4 DEF g

-----------------------------------------------------------------------------
(* The inductive invariant.  While the tracker memory is being cleared     *)
(* nothing is issued, and the ids below waddr_init are clear already.      *)

Clearing ==
    ~test_ready =>
      /\ held = {}
      /\ ~out_fifo.valid[0] /\ ~out_fifo.valid[1]
      /\ \A uid \in 0..waddr_init - 1 : ~tracker[uid]

IInv ==
    /\ UidTypeOK
    /\ Fifo2InOrder(out_fifo)
    /\ Clearing
    /\ UidsAreExclusive
    /\ NoUidIsLost

\* Out of reset nothing is issued.
LEMMA EmptyInvariant ==
    ASSUME test_ready = FALSE, waddr_init = 0, tracker \in [t_uid -> BOOLEAN],
           test_uid = N_RESERVED, free_q = FALSE, free_uid_q = 0,
           out_fifo = Fifo2Empty(0), held = {}
    PROVE  IInv
<1>1. 0 \in t_uid /\ N_RESERVED \in Issuable
  BY UidAssumption DEF t_uid, Issuable
<1>2. /\ out_fifo \in Fifo2States(t_uid) /\ Fifo2InOrder(out_fifo)
      /\ Fifo2Distinct(out_fifo) /\ ~out_fifo.valid[0] /\ ~out_fifo.valid[1]
      /\ Fifo2Members(out_fifo) = {}
  BY <1>1, Fifo2EmptyState
<1>3. UidTypeOK
  BY <1>1, <1>2 DEF UidTypeOK
<1>4. Clearing
  BY <1>2 DEF Clearing
<1>5. UidsAreExclusive /\ NoUidIsLost
  BY <1>2 DEF UidsAreExclusive, NoUidIsLost, Waiting, Releasing
<1> QED
  BY <1>2, <1>3, <1>4, <1>5 DEF IInv

\* The invariant holds at the start,
LEMMA InitInvariant == UidInit => IInv
  BY EmptyInvariant DEF UidInit

\* it is kept by an edge in reset, whatever the memory holds and whatever is on
\* the input for the id while none is released,
LEMMA ResetEdgeInvariant ==
    ASSUME IInv, NEW free \in BOOLEAN, NEW uid \in t_uid,
           free => uid \in held, UidReset(free, uid)
    PROVE  IInv'
<1>1. tracker' \in [t_uid -> BOOLEAN]
  BY DEF UidReset, TrackerNext, IInv, UidTypeOK
<1>2. 0 \in t_uid /\ N_RESERVED \in Issuable
  BY UidAssumption DEF t_uid, Issuable
<1>3. /\ out_fifo' \in Fifo2States(t_uid) /\ Fifo2InOrder(out_fifo')
      /\ Fifo2Distinct(out_fifo') /\ ~out_fifo'.valid[0] /\ ~out_fifo'.valid[1]
      /\ Fifo2Members(out_fifo') = {}
  BY <1>2, Fifo2EmptyState DEF UidReset
<1>4. UidTypeOK'
  BY <1>1, <1>2, <1>3 DEF UidTypeOK, UidReset, Issuable, t_uid
<1>5. Clearing'
  BY <1>3 DEF Clearing, UidReset
<1>6. UidsAreExclusive' /\ NoUidIsLost'
  <2>1. Releasing' \subseteq Issuable
    BY DEF Releasing, UidReset, IInv, UidsAreExclusive
  <2> QED
    BY <1>3, <2>1 DEF UidsAreExclusive, NoUidIsLost, Waiting, UidReset, Issuable
<1> QED
  BY <1>3, <1>4, <1>5, <1>6 DEF IInv

\* What one edge in operation does to the id FIFO.
LEMMA FifoEdge ==
    ASSUME IInv, NEW alloc \in BOOLEAN, NEW free \in BOOLEAN, NEW uid \in t_uid,
           UidEdge(alloc, free, uid)
    PROVE  /\ EnqUid \in BOOLEAN /\ EnqUidData \in t_uid
           /\ EnqUid => EnqUidData \notin held \union Waiting /\ EnqUidData \in Issuable
           /\ out_fifo' \in Fifo2States(t_uid)
           /\ Fifo2InOrder(out_fifo') /\ Fifo2Distinct(out_fifo')
           /\ Waiting' = (Waiting \ (IF alloc /\ alloc_ready THEN {alloc_uid} ELSE {}))
                           \union (IF EnqUid THEN {EnqUidData} ELSE {})
           /\ alloc_ready => alloc_uid \in Waiting
<1> DEFINE deq == alloc /\ alloc_ready
<1>1. /\ EnqUid \in BOOLEAN /\ EnqUidData \in t_uid /\ deq \in BOOLEAN
      /\ alloc_ready => alloc_uid \in Waiting
  <2>1. test_uid \in t_uid
    BY UidAssumption DEF IInv, UidTypeOK, Issuable, t_uid
  <2>2. EnqUidData \in t_uid
    BY <2>1 DEF IInv, UidTypeOK, EnqUidData
  <2>3. EnqUid \in BOOLEAN
    BY DEF EnqUid
  <2>4. deq \in BOOLEAN /\ (alloc_ready => alloc_uid \in Waiting)
    BY DEF alloc_ready, alloc_uid, Fifo2NotEmpty, Fifo2First, Fifo2Members, Waiting
  <2> QED
    BY <2>2, <2>3, <2>4
<1>2. EnqUid => EnqUidData \notin held \union Waiting /\ EnqUidData \in Issuable
  <2>1. CASE free_q
    BY <2>1 DEF IInv, UidsAreExclusive, Releasing, EnqUidData
  <2>2. CASE ~free_q
    <3>1. test_uid \in Issuable /\ test_uid \in t_uid
      BY UidAssumption DEF IInv, UidTypeOK, Issuable, t_uid
    <3>2. EnqUid => ~tracker[test_uid] /\ test_ready
      BY <2>2 DEF EnqUid, test_uid_busy
    <3> QED
      BY <2>2, <3>1, <3>2 DEF IInv, NoUidIsLost, EnqUidData
  <2> QED
    BY <2>1, <2>2
<1>3. /\ out_fifo' = Fifo2Next(out_fifo, EnqUid, EnqUidData, deq)
      /\ out_fifo \in Fifo2States(t_uid) /\ Fifo2InOrder(out_fifo)
      /\ Fifo2Distinct(out_fifo)
  BY DEF UidEdge, IInv, UidTypeOK, UidsAreExclusive
<1>4. EnqUid => Fifo2NotFull(out_fifo)
  BY DEF EnqUid, need_uid
<1>5. deq => Fifo2NotEmpty(out_fifo)
  BY DEF alloc_ready
<1>6. out_fifo' \in Fifo2States(t_uid) /\ Fifo2InOrder(out_fifo')
  BY <1>1, <1>3, <1>5, Fifo2Fields
<1>7. EnqUid => EnqUidData \notin Fifo2Members(out_fifo)
  BY <1>2 DEF Waiting
<1>8. /\ Fifo2Distinct(out_fifo')
      /\ Fifo2Members(out_fifo') =
           (Fifo2Members(out_fifo) \ (IF deq THEN {Fifo2First(out_fifo)} ELSE {}))
             \union (IF EnqUid THEN {EnqUidData} ELSE {})
  <2> HIDE DEF deq
  <2> QED
    BY <1>1, <1>3, <1>4, <1>5, <1>7, Fifo2Step
<1> QED
  BY <1>1, <1>2, <1>6, <1>8 DEF Waiting, alloc_uid

\* and by an edge in operation.
LEMMA EdgeInvariant ==
    ASSUME IInv, NEW alloc \in BOOLEAN, NEW free \in BOOLEAN, NEW uid \in t_uid,
           free => uid \in held, UidEdge(alloc, free, uid)
    PROVE  IInv'
<1> DEFINE deq == alloc /\ alloc_ready
<1>1. /\ EnqUid \in BOOLEAN /\ EnqUidData \in t_uid
      /\ EnqUid => EnqUidData \notin held \union Waiting /\ EnqUidData \in Issuable
      /\ out_fifo' \in Fifo2States(t_uid)
      /\ Fifo2InOrder(out_fifo') /\ Fifo2Distinct(out_fifo')
      /\ Waiting' = (Waiting \ (IF deq THEN {alloc_uid} ELSE {}))
                      \union (IF EnqUid THEN {EnqUidData} ELSE {})
      /\ alloc_ready => alloc_uid \in Waiting
  BY FifoEdge
<1>2. /\ held' = (held \ (IF free THEN {uid} ELSE {}))
                   \union (IF deq THEN {alloc_uid} ELSE {})
      /\ Releasing' = IF free THEN {uid} ELSE {}
  BY DEF UidEdge, Releasing
<1>3. UidTypeOK'
  <2>1. Waiting \subseteq t_uid
    BY DEF IInv, UidTypeOK, Waiting, Fifo2Members, Fifo2States
  <2>2. tracker' \in [t_uid -> BOOLEAN]
    BY DEF IInv, UidTypeOK, UidEdge, TrackerNext, Issuable, t_uid
  <2>3. test_uid' \in Issuable
    BY UidAssumption DEF IInv, UidTypeOK, UidEdge, TestUidNext, Issuable
  <2>4. waddr_init' \in t_uid /\ test_ready' \in BOOLEAN
    BY UidAssumption DEF IInv, UidTypeOK, UidEdge, t_uid
  <2> QED
    BY <1>1, <1>2, <2>1, <2>2, <2>3, <2>4 DEF UidTypeOK, UidEdge, IInv
<1>4. UidsAreExclusive'
  <2>1. (held \intersect Waiting)' = {}
    BY <1>1, <1>2 DEF IInv, UidsAreExclusive
  <2>2. (Releasing \intersect (held \union Waiting))' = {}
    BY <1>1, <1>2 DEF IInv, UidsAreExclusive
  <2>3. (held \union Waiting \union Releasing)' \subseteq Issuable
    BY <1>1, <1>2 DEF IInv, UidsAreExclusive
  <2> QED
    BY <1>1, <2>1, <2>2, <2>3 DEF UidsAreExclusive, Issuable
<1>5. CASE ~test_ready
  <2>1. held' = {} /\ Waiting' = {} /\ Releasing' = {} /\ ~EnqUid /\ ~deq
    BY <1>1, <1>2, <1>5
       DEF IInv, Clearing, EnqUid, Waiting, Fifo2Members, alloc_ready, Fifo2NotEmpty
  <2>2. tracker' = [tracker EXCEPT ![waddr_init] = FALSE]
    BY <1>5 DEF UidEdge, TrackerNext
  <2>3. \A u \in 0..waddr_init : ~tracker'[u]
    BY <1>5, <2>2 DEF IInv, Clearing, UidTypeOK, t_uid
  <2>4. Clearing'
    <3>1. ~test_ready' => waddr_init' = waddr_init + 1
      BY <1>5 DEF UidEdge
    <3>2. ~out_fifo'.valid[0] /\ ~out_fifo'.valid[1]
      BY <2>1 DEF Waiting, Fifo2Members
    <3> QED
      BY <2>1, <2>3, <3>1, <3>2 DEF Clearing, IInv, UidTypeOK, t_uid
  <2>5. NoUidIsLost'
    BY <1>5, <2>1, <2>3 DEF NoUidIsLost, UidEdge, t_uid
  <2> QED
    BY <1>1, <1>3, <1>4, <2>4, <2>5 DEF IInv
<1>6. CASE test_ready
  <2>1. Clearing'
    BY <1>6 DEF Clearing, UidEdge
  <2>2. NoUidIsLost'
    <3> DEFINE Busy == held \union Waiting \union Releasing
    <3>0. /\ \A u \in t_uid : tracker[u] <=> u \in Busy
          /\ tracker \in [t_uid -> BOOLEAN] /\ test_uid \in t_uid
      BY <1>6, UidAssumption DEF IInv, NoUidIsLost, UidTypeOK, Issuable, t_uid
    <3>1. Busy' = (IF EnqUid THEN Busy \union {EnqUidData} ELSE Busy \ Releasing)
      <4>1. (held \union Waiting)' \union Releasing' =
               held \union Waiting \union (IF EnqUid THEN {EnqUidData} ELSE {})
        BY <1>1, <1>2
      <4>2. EnqUid => Releasing \subseteq {EnqUidData}
        BY DEF EnqUidData, Releasing
      <4>3. Releasing \intersect (held \union Waiting) = {}
        BY DEF IInv, UidsAreExclusive
      <4> QED
        BY <4>1, <4>2, <4>3
    <3>2. CASE EnqUid /\ free_q
      BY <1>6, <3>0, <3>1, <3>2
         DEF NoUidIsLost, UidEdge, TrackerNext, EnqUid, EnqUidData, Releasing
    <3>3. CASE EnqUid /\ ~free_q
      BY <1>6, <3>0, <3>1, <3>3
         DEF NoUidIsLost, UidEdge, TrackerNext, EnqUid, EnqUidData
    <3>4. CASE ~EnqUid
      BY <1>6, <3>0, <3>1, <3>4
         DEF NoUidIsLost, UidEdge, TrackerNext, EnqUid, Releasing, test_uid_busy
    <3> QED
      BY <1>1, <3>2, <3>3, <3>4
  <2> QED
    BY <1>1, <1>3, <1>4, <2>1, <2>2 DEF IInv
<1> QED
  BY <1>5, <1>6 DEF IInv, UidTypeOK

\* The id on offer is one the client does not hold yet.
LEMMA OfferedUid ==
    ASSUME IInv, alloc_ready
    PROVE  alloc_uid \in Issuable /\ alloc_uid \in t_uid /\ alloc_uid \notin held
<1>1. alloc_uid \in Waiting
  BY DEF alloc_ready, alloc_uid, Fifo2NotEmpty, Fifo2First, Fifo2Members, Waiting
<1> QED
  BY <1>1, UidAssumption DEF IInv, UidsAreExclusive, Issuable, t_uid

\* The inductive invariant holds throughout.
THEOREM UidInvariant == UidSpec => []IInv
<1>1. IInv /\ UNCHANGED uidVars => IInv'
  BY DEF IInv, uidVars, UidTypeOK, Clearing, UidsAreExclusive, NoUidIsLost,
         Waiting, Releasing, Issuable
<1>2. IInv /\ [UidNext]_uidVars => IInv'
  BY <1>1, EdgeInvariant, ResetEdgeInvariant
  DEF UidNext, UidCycle, UidResetEdge, MayRelease
<1> QED
  BY <1>2, InitInvariant, PTL DEF UidSpec

\* Type correctness of the id generator.
THEOREM UidTypeCorrect == UidSpec => []UidTypeOK
  BY UidInvariant, PTL DEF IInv

\* ofs_plat_prim_uid never gives an id to two requests, for any number of
\* ids, any allocation and release pattern and any resets.
THEOREM UidExclusion == UidSpec => []UidsAreExclusive
  BY UidInvariant, PTL DEF IInv

\* ofs_plat_prim_uid never loses an id: what the tracker calls busy is in use.
THEOREM UidConservation == UidSpec => []NoUidIsLost
  BY UidInvariant, PTL DEF IInv

=============================================================================
