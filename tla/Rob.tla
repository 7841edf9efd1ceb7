-------------------------------- MODULE Rob ---------------------------------
(***************************************************************************)
(* ofs_plat_prim_rob and ofs_plat_prim_rob_ctrl: the reorder buffer that   *)
(* sorts read responses.  One action is one rising edge of clk: every      *)
(* register takes its next value from the registers and inputs before the  *)
(* edge.  A variable has the name of the register it stands for.           *)
(*                                                                         *)
(* The data memory holds one of Data per entry.  The meta-data memory,     *)
(* which is written when the entry is allocated and read with the same     *)
(* address and latency as the data, is left out.                           *)
(***************************************************************************)
EXTENDS Integers, Sequences

CONSTANTS N_ENTRIES,            \* entries, a power of 2
          MAX_ALLOC_PER_CYCLE,  \* most entries one cycle allocates
          MIN_FREE_SLOTS,       \* slack kept when notFull is computed
          NUM_VALID_MAX,        \* largest value of num_valid (7: 3 bits)
          RESET_CYCLES,         \* edges for which reset_n is held low
          Data, NoData,
          Response(_)           \* payloads that may answer the request at an index

ASSUME RobAssumption ==
    /\ N_ENTRIES \in Nat /\ N_ENTRIES % 2 = 0 /\ N_ENTRIES >= 2
    /\ MAX_ALLOC_PER_CYCLE \in Nat \ {0}
    /\ MIN_FREE_SLOTS \in Nat /\ MIN_FREE_SLOTS >= MAX_ALLOC_PER_CYCLE
    /\ MAX_ALLOC_PER_CYCLE + MIN_FREE_SLOTS < N_ENTRIES
    /\ NUM_VALID_MAX \in Nat \ {0}
    /\ RESET_CYCLES \in Nat /\ RESET_CYCLES >= 2
    /\ NoData \notin Data
    /\ \A e \in 0..2 * N_ENTRIES - 1 : Response(e) \subseteq Data

VARIABLES
    rst,                \* edges for which reset_n stays low (0: not in reset)
    newest, oldest,     \* t_epoch_idx: an index and an epoch bit above it
    oldest_q,
    in_space_avail, notFull,
    valid_tag, valid_tag_q,
    enq_q,              \* the payload write registered for one cycle
    validBits, rdy, waddr_init,          \* the two banks of valid bits
    test_valid_idx, test_valid_idx_q, test_valid_value_q,
    test_valid_tgt, test_valid_bank,
    num_valid, notEmpty,
    memData,
    T2_first,           \* what the entry dequeued at the last edge reads
    outstanding         \* entries whose response the environment still owes

allocVars == <<newest, oldest, oldest_q, in_space_avail, notFull>>
validVars == <<valid_tag, valid_tag_q, enq_q, validBits, rdy, waddr_init>>
testVars  == <<test_valid_idx, test_valid_idx_q, test_valid_value_q,
               test_valid_tgt, test_valid_bank, num_valid, notEmpty>>
vars == <<rst, allocVars, validVars, testVars, memData, T2_first, outstanding>>

-----------------------------------------------------------------------------
(* Indices.  Registers wrap at their width: 2 * N_ENTRIES values for an    *)
(* index with its epoch bit, N_ENTRIES without it.                         *)

t_idx == 0..N_ENTRIES - 1
t_epoch_idx == 0..2 * N_ENTRIES - 1
Banks == 0..1
BankIdx == 0..(N_ENTRIES \div 2) - 1

\* Mutant of EpochAdd: the index does not wrap at its width.
EpochAddUnwrapped(e, n) == e + n

EpochAdd(e, n) == IF e + n >= 2 * N_ENTRIES THEN e + n - 2 * N_ENTRIES ELSE e + n
EpochSub(a, b) == IF a >= b THEN a - b ELSE a - b + 2 * N_ENTRIES
IdxOf(e) == IF e >= N_ENTRIES THEN e - N_ENTRIES ELSE e
Flip(bit) == 1 - bit

NoEnq == [en |-> FALSE, idx |-> 0, data |-> NoData]
Enqs == {NoEnq} \union [en : {TRUE}, idx : t_idx, data : Data]

InFlight == EpochSub(newest, oldest)

-----------------------------------------------------------------------------
(* Combinational logic.                                                    *)

\* Mutant of SpaceAvailNext: oldest's epoch bit is not inverted.
SpaceAvailNextSameEpoch(cnt) == EpochSub(EpochSub(oldest, newest), cnt)

\* Room left: { ~oldest_epoch, oldest_idx } - newest - allocCnt.
SpaceAvailNext(cnt) ==
    EpochSub(EpochSub(EpochAdd(oldest, N_ENTRIES), newest), cnt)

\* Mutant of NotFullNext: no slack for the cycles notFull is late.
NotFullNextNoSlack == rdy /\ in_space_avail >= MAX_ALLOC_PER_CYCLE

NotFullNext ==
    rdy /\ in_space_avail > MAX_ALLOC_PER_CYCLE + MIN_FREE_SLOTS

\* Mutant of ValidWData: every entry is written with oldest's meaning.
ValidWDataNoTrip == valid_tag_q

\* An index below oldest belongs to the next trip around the ring.
ValidWData ==
    IF enq_q.idx >= IdxOf(oldest_q) THEN valid_tag_q ELSE Flip(valid_tag_q)

\* The valid-bit memories after this edge: initialization owns the write
\* port until rdy.  A read in the same cycle sees the new data.
ValidBitsNext ==
    IF ~rdy THEN [i \in t_idx |-> IF i \div 2 = waddr_init THEN 0 ELSE validBits[i]]
    ELSE IF enq_q.en THEN [validBits EXCEPT ![enq_q.idx] = ValidWData]
    ELSE validBits

TestValidBypass(bank) ==
    /\ enq_q.en
    /\ enq_q.idx % 2 = bank
    /\ enq_q.idx \div 2 = test_valid_idx_q[bank]

\* Mutant of TestIsValid: counts on when num_valid is saturated.
TestIsValidUnbounded ==
    \/ test_valid_tgt = test_valid_value_q[test_valid_bank]
    \/ TestValidBypass(test_valid_bank)

TestIsValid ==
    /\ \/ test_valid_tgt = test_valid_value_q[test_valid_bank]
       \/ TestValidBypass(test_valid_bank)
    /\ num_valid # NUM_VALID_MAX

-----------------------------------------------------------------------------
(* The always_ff blocks.                                                   *)

\* Allocation and release pointers, and the registered notFull.
AllocRegs(reset_n, cnt, deq) ==
    /\ newest' = IF reset_n THEN EpochAdd(newest, cnt) ELSE 0
    /\ oldest' = IF ~reset_n THEN 0
                 ELSE IF deq THEN EpochAdd(oldest, 1) ELSE oldest
    /\ oldest_q' = oldest
    /\ in_space_avail' = SpaceAvailNext(cnt)
    /\ notFull' = NotFullNext

\* The meaning of a valid bit flips when oldest leaves the last entry.
ValidTagRegs(reset_n, deq) ==
    /\ valid_tag' = IF ~reset_n THEN 1
                    ELSE IF deq /\ IdxOf(oldest) = N_ENTRIES - 1
                         THEN Flip(valid_tag) ELSE valid_tag
    /\ valid_tag_q' = valid_tag

\* Valid bits: a response is recorded one cycle after it arrives.
ValidBitRegs(reset_n, enq) ==
    /\ enq_q' = enq
    /\ validBits' = ValidBitsNext
    /\ rdy' = (reset_n /\ (rdy \/ waddr_init = (N_ENTRIES \div 2) - 1))
    /\ waddr_init' = IF ~reset_n \/ waddr_init = (N_ENTRIES \div 2) - 1 THEN 0
                     ELSE IF rdy THEN waddr_init ELSE waddr_init + 1

\* The pointer that looks for the next valid entry, in alternate banks.
TestRegs(reset_n) ==
    /\ test_valid_idx_q' = test_valid_idx
    /\ test_valid_value_q' =
         [b \in Banks |-> ValidBitsNext[2 * test_valid_idx[b] + b]]
    /\ IF ~reset_n \/ ~rdy
         THEN /\ test_valid_idx' = [b \in Banks |-> 0]
              /\ test_valid_bank' = 0
              /\ test_valid_tgt' = 1
         ELSE IF TestIsValid
         THEN LET b == test_valid_bank
                  last == test_valid_idx[b] = (N_ENTRIES \div 2) - 1
              IN /\ test_valid_idx' =
                      [test_valid_idx EXCEPT ![b] = IF last THEN 0 ELSE @ + 1]
                 /\ test_valid_bank' = Flip(b)
                 /\ test_valid_tgt' = IF b = 1 /\ last THEN Flip(test_valid_tgt)
                                      ELSE test_valid_tgt
         ELSE UNCHANGED <<test_valid_idx, test_valid_bank, test_valid_tgt>>

\* Count of entries known to be ready at the head, and notEmpty.
CountRegs(reset_n, deq) ==
    LET minus == IF deq THEN 1 ELSE 0
        plus == IF TestIsValid THEN 1 ELSE 0
    IN /\ num_valid' = IF reset_n
                       THEN (num_valid - minus + plus) % (NUM_VALID_MAX + 1) ELSE 0
       /\ notEmpty' = /\ reset_n
                      /\ \/ TestIsValid
                         \/ num_valid > 1
                         \/ num_valid % 2 = 1 /\ ~deq

\* Payload memory: writes are registered, without a bypass, and a read in
\* the cycle of the write returns the old data.
MemDataRegs(deq) ==
    /\ memData' = IF enq_q.en THEN [memData EXCEPT ![enq_q.idx] = enq_q.data]
                  ELSE memData
    /\ T2_first' = IF deq THEN memData[IdxOf(oldest)] ELSE NoData

Edge(reset_n, cnt, enq, deq) ==
    /\ AllocRegs(reset_n, cnt, deq)
    /\ ValidTagRegs(reset_n, deq)
    /\ ValidBitRegs(reset_n, enq)
    /\ TestRegs(reset_n)
    /\ CountRegs(reset_n, deq)
    /\ MemDataRegs(deq)

-----------------------------------------------------------------------------
(* The state after the memories are initialized, and the environment: it   *)
(* allocates only when notFull, dequeues only when notEmpty and answers    *)
(* each allocated entry once, in any order.                                *)

Init ==
    /\ rst = 0
    /\ newest = 0 /\ oldest = 0 /\ oldest_q = 0
    /\ in_space_avail = N_ENTRIES /\ notFull = TRUE
    /\ valid_tag = 1 /\ valid_tag_q = 1
    /\ enq_q = NoEnq
    /\ validBits = [i \in t_idx |-> 0] /\ rdy = TRUE /\ waddr_init = 0
    /\ test_valid_idx = [b \in Banks |-> 0]
    /\ test_valid_idx_q = [b \in Banks |-> 0]
    /\ test_valid_value_q = [b \in Banks |-> 0]
    /\ test_valid_tgt = 1 /\ test_valid_bank = 0
    /\ num_valid = 0 /\ notEmpty = FALSE
    /\ memData = [i \in t_idx |-> NoData]
    /\ T2_first = NoData
    /\ outstanding = {}

\* The entries allocated by this edge.
Allocated(cnt) == {EpochAdd(newest, k) : k \in 0..cnt - 1}

\* An edge in operation.
Cycle ==
    /\ rst = 0
    /\ UNCHANGED rst
    /\ \E cnt \in 0..MAX_ALLOC_PER_CYCLE, deq \in BOOLEAN :
         /\ cnt > 0 => notFull
         /\ deq => notEmpty
         /\ \/ /\ Edge(TRUE, cnt, NoEnq, deq)
               /\ outstanding' = outstanding \union Allocated(cnt)
            \/ \E e \in outstanding : \E d \in Response(e) :
                 /\ Edge(TRUE, cnt, [en |-> TRUE, idx |-> IdxOf(e), data |-> d], deq)
                 /\ outstanding' = (outstanding \ {e}) \union Allocated(cnt)

\* reset_n falls at any time and is held.  The environment is reset with it,
\* but what it gives at the first edge may still reach the registers that
\* have no reset.
ResetEdge ==
    \/ /\ rst = 0 /\ rst' = RESET_CYCLES - 1
       /\ outstanding' = {}
       /\ \/ Edge(FALSE, 0, NoEnq, FALSE)
          \/ \E e \in outstanding : \E d \in Response(e) :
               Edge(FALSE, 0, [en |-> TRUE, idx |-> IdxOf(e), data |-> d], FALSE)
    \/ /\ rst > 0 /\ rst' = rst - 1
       /\ UNCHANGED outstanding
       /\ Edge(FALSE, 0, NoEnq, FALSE)

Next == Cycle \/ ResetEdge

Spec == Init /\ [][Next]_vars

\* The clock ticks when nothing is asked of the buffer.  A buffer whose head
\* is not ready is soon asked nothing: no entry leaves, none can be allocated
\* once it is full and each is answered once.
QuietCycle ==
    /\ rst = 0
    /\ UNCHANGED <<rst, outstanding>>
    /\ Edge(TRUE, 0, NoEnq, FALSE)

FairSpec == Spec /\ WF_vars(QuietCycle)

-----------------------------------------------------------------------------
(* The refinement mapping to OrderedResponses: the entries from oldest to  *)
(* newest; one is filled when its valid bit has this trip's meaning, or    *)
(* its payload is in the write register.                                   *)

TagFor(e) == IF e < N_ENTRIES THEN 1 ELSE 0

SlotOf(e) ==
    IF enq_q.en /\ enq_q.idx = IdxOf(e) THEN enq_q.data
    ELSE IF validBits[IdxOf(e)] = TagFor(e) THEN memData[IdxOf(e)]
    ELSE NoData

Slots == [k \in 1..InFlight |-> SlotOf(EpochAdd(oldest, k - 1))]

Abstract == INSTANCE OrderedResponses WITH
    Capacity <- N_ENTRIES, MaxAlloc <- MAX_ALLOC_PER_CYCLE,
    slots <- Slots, delivered <- T2_first

\* The reorder buffer implements the queue of slots: responses leave in the
\* order of the requests, each with its own data, exactly once, although the
\* payload is written late, valid bits change meaning on every trip and the
\* data RAM has no bypass.
OrderedDelivery == Abstract!AbsSpec

-----------------------------------------------------------------------------
(* Properties.                                                             *)

TypeOK ==
    /\ rst \in 0..RESET_CYCLES - 1
    /\ newest \in t_epoch_idx /\ oldest \in t_epoch_idx /\ oldest_q \in t_epoch_idx
    /\ in_space_avail \in t_epoch_idx /\ notFull \in BOOLEAN
    /\ valid_tag \in 0..1 /\ valid_tag_q \in 0..1
    /\ enq_q \in Enqs
    /\ validBits \in [t_idx -> 0..1] /\ rdy \in BOOLEAN /\ waddr_init \in BankIdx
    /\ test_valid_idx \in [Banks -> BankIdx]
    /\ test_valid_idx_q \in [Banks -> BankIdx]
    /\ test_valid_value_q \in [Banks -> 0..1]
    /\ test_valid_tgt \in 0..1 /\ test_valid_bank \in 0..1
    /\ num_valid \in 0..NUM_VALID_MAX /\ notEmpty \in BOOLEAN
    /\ memData \in [t_idx -> Data \union {NoData}]
    /\ T2_first \in Data \union {NoData}
    /\ outstanding \subseteq t_epoch_idx

\* notFull is two registers behind the pointers.  When it is set there is
\* still room for the largest allocation, by the true pointers and by the
\* in_space_avail that the code asserts on.
AllocNeverOverruns ==
    notFull /\ rst = 0 => /\ InFlight + MAX_ALLOC_PER_CYCLE <= N_ENTRIES
                          /\ MAX_ALLOC_PER_CYCLE <= in_space_avail

\* notEmpty, computed on its own for timing, agrees with the ready count, and
\* the count covers only entries in flight whose payload has reached the
\* data memory: a dequeue never reads the RAM ahead of the delayed write.
ReadyEntriesAreReadable ==
    rst = 0 =>
      /\ notEmpty = (num_valid > 0)
      /\ num_valid <= InFlight
      /\ \A k \in 0..num_valid - 1 :
           LET e == EpochAdd(oldest, k)
           IN e \notin outstanding /\ ~(enq_q.en /\ enq_q.idx = IdxOf(e))

\* Once the response to the oldest request has arrived it becomes ready, even
\* when it arrived between a read of its valid bit and the test of it.
OldestBecomesReady ==
    (InFlight > 0 /\ oldest \notin outstanding) ~> (notEmpty \/ rst > 0)

\* An idle buffer accepts requests again, after a reset too.
EmptyBecomesAvailable == (InFlight = 0) ~> (notFull \/ rst > 0)

=============================================================================
