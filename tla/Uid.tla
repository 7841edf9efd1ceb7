-------------------------------- MODULE Uid ---------------------------------
(***************************************************************************)
(* ofs_plat_prim_uid: the generator of the unique ids (PCIe tags, AXI ids) *)
(* that name the requests in flight.  One action is one rising edge of     *)
(* clk; a variable has the name of the register it stands for.             *)
(***************************************************************************)
EXTENDS Naturals, Fifo2

CONSTANTS N_ENTRIES,    \* ids are 0..N_ENTRIES-1
          N_RESERVED    \* the low ids that are never issued

ASSUME UidAssumption ==
    /\ N_ENTRIES \in Nat \ {0}
    /\ N_RESERVED \in 0..N_ENTRIES - 1

VARIABLES
    test_ready, waddr_init,  \* tracker memory: initialization after reset
    tracker,                 \* tracker memory: is the id busy?
    test_uid,                \* search pointer
    free_q, free_uid_q,      \* the id released in the last cycle
    out_fifo,                \* ids waiting for the client
    held                     \* ids the client holds

uidVars == <<test_ready, waddr_init, tracker, test_uid, free_q, free_uid_q,
             out_fifo, held>>

t_uid == 0..N_ENTRIES - 1
Issuable == N_RESERVED..N_ENTRIES - 1

-----------------------------------------------------------------------------
(* Combinational logic.                                                    *)

need_uid == Fifo2NotFull(out_fifo)
alloc_ready == Fifo2NotEmpty(out_fifo)
alloc_uid == Fifo2First(out_fifo)
test_uid_busy == tracker[test_uid]

\* Mutant of EnqUid: ids are issued while the tracker is initialized.
EnqUidEarly == need_uid /\ (free_q \/ ~test_uid_busy)

\* An id goes to the FIFO: the one being released, else the one under test.
EnqUid == need_uid /\ test_ready /\ (free_q \/ ~test_uid_busy)
EnqUidData == IF free_q THEN free_uid_q ELSE test_uid

\* Mutant of TrackerNext: a search result takes the write port from a release
\* that passes its id to the FIFO.
TrackerNextSearchWins ==
    IF ~test_ready THEN [tracker EXCEPT ![waddr_init] = FALSE]
    ELSE IF need_uid THEN [tracker EXCEPT ![test_uid] = TRUE]
    ELSE IF free_q THEN [tracker EXCEPT ![free_uid_q] = FALSE]
    ELSE tracker

\* The single write port of the tracker.  An id released in the cycle in
\* which one is needed passes straight to the FIFO and stays busy.
TrackerNext ==
    IF ~test_ready THEN [tracker EXCEPT ![waddr_init] = FALSE]
    ELSE IF need_uid /\ free_q THEN tracker
    ELSE IF free_q THEN [tracker EXCEPT ![free_uid_q] = FALSE]
    ELSE IF need_uid THEN [tracker EXCEPT ![test_uid] = TRUE]
    ELSE tracker

\* Mutant of TestUidNext: the search stops at the last id.
TestUidNextNoWrap ==
    IF ~test_ready THEN N_RESERVED
    ELSE IF (test_uid_busy \/ (need_uid /\ ~free_q)) /\ test_uid # N_ENTRIES - 1
    THEN test_uid + 1 ELSE test_uid

\* Mutant of TestUidNext: the search wraps to 0, into the reserved ids.
TestUidNextIntoReserved ==
    IF ~test_ready THEN N_RESERVED
    ELSE IF test_uid_busy \/ (need_uid /\ ~free_q)
    THEN IF test_uid = N_ENTRIES - 1 THEN 0 ELSE test_uid + 1
    ELSE test_uid

\* Mutant of TestUidNext: the last id is one too many.
TestUidNextPastEnd ==
    IF ~test_ready THEN N_RESERVED
    ELSE IF test_uid_busy \/ (need_uid /\ ~free_q)
    THEN IF test_uid = N_ENTRIES THEN N_RESERVED ELSE test_uid + 1
    ELSE test_uid

\* Move on when the id under test is busy or was just taken.
TestUidNext ==
    IF ~test_ready THEN N_RESERVED
    ELSE IF test_uid_busy \/ (need_uid /\ ~free_q)
    THEN IF test_uid = N_ENTRIES - 1 THEN N_RESERVED ELSE test_uid + 1
    ELSE test_uid

-----------------------------------------------------------------------------

\* Reset leaves the tracker memory with whatever it held.
UidInit ==
    /\ test_ready = FALSE /\ waddr_init = 0
    /\ tracker \in [t_uid -> BOOLEAN]
    /\ test_uid = N_RESERVED
    /\ free_q = FALSE /\ free_uid_q = 0
    /\ out_fifo = Fifo2Empty(0)
    /\ held = {}

\* An edge in operation; the client takes an id when alloc is set and one is
\* ready, and releases the id uid when free is set.
UidEdge(alloc, free, uid) ==
    LET deq == alloc /\ alloc_ready
    IN /\ test_ready' = (test_ready \/ waddr_init = N_ENTRIES - 1)
       /\ waddr_init' = IF test_ready \/ waddr_init = N_ENTRIES - 1
                        THEN 0 ELSE waddr_init + 1
       /\ tracker' = TrackerNext
       /\ test_uid' = TestUidNext
       /\ free_q' = free /\ free_uid_q' = uid
       /\ out_fifo' = Fifo2Next(out_fifo, EnqUid, EnqUidData, deq)
       /\ held' = (held \ (IF free THEN {uid} ELSE {}))
                    \union (IF deq THEN {alloc_uid} ELSE {})

\* An edge with reset_n low; the client is reset with the generator.  The
\* register of the released id has no reset: at the first such edge it still
\* takes what the client releases.
UidReset(free, uid) ==
    /\ test_ready' = FALSE /\ waddr_init' = 0
    /\ tracker' = TrackerNext
    /\ test_uid' = N_RESERVED
    /\ free_q' = free /\ free_uid_q' = uid
    /\ out_fifo' = Fifo2Empty(0)
    /\ held' = {}

\* The client releases only ids it holds.
MayRelease(free, uid) == IF free THEN uid \in held ELSE uid = free_uid_q

UidCycle ==
    \E alloc, free \in BOOLEAN, uid \in t_uid :
      MayRelease(free, uid) /\ UidEdge(alloc, free, uid)

UidResetEdge ==
    \E free \in BOOLEAN, uid \in t_uid : MayRelease(free, uid) /\ UidReset(free, uid)

UidNext == UidCycle \/ UidResetEdge

UidSpec == UidInit /\ [][UidNext]_uidVars

-----------------------------------------------------------------------------
(* Where an id can be when it is not available.                            *)

Waiting == Fifo2Members(out_fifo)
Releasing == IF free_q THEN {free_uid_q} ELSE {}

UidTypeOK ==
    /\ test_ready \in BOOLEAN /\ waddr_init \in t_uid
    /\ tracker \in [t_uid -> BOOLEAN]
    /\ test_uid \in Issuable
    /\ free_q \in BOOLEAN /\ free_uid_q \in t_uid
    /\ out_fifo \in Fifo2States(t_uid)
    /\ held \subseteq t_uid

\* No id is given to two requests, not even when one is released in the cycle
\* in which the search finds another: the ids the client holds, the ids in
\* the FIFO and the id being released are all different, and none of them is
\* reserved.
UidsAreExclusive ==
    /\ Fifo2Distinct(out_fifo)
    /\ held \intersect Waiting = {}
    /\ Releasing \intersect (held \union Waiting) = {}
    /\ held \union Waiting \union Releasing \subseteq Issuable

\* No id is lost: after initialization the tracker says busy for exactly the
\* ids that are held, waiting in the FIFO or being released.
NoUidIsLost ==
    test_ready =>
      \A uid \in t_uid : tracker[uid] <=> uid \in held \union Waiting \union Releasing

\* While some issuable id is free or waits, the client is eventually offered
\* one, wherever the search pointer stands.
FreeUidIsOffered ==
    (Issuable \ held # {} /\ test_ready) ~> (alloc_ready \/ ~test_ready)

=============================================================================
