------------------------------ MODULE RobProofs ------------------------------
(***************************************************************************)
(* Theorems about the reorder buffer, for every size, allocation, slack,   *)
(* width of the count and any payloads.  The invariant IInv has one part   *)
(* for each thing that is late or kept twice: Space for the pointers and   *)
(* notFull, Trip for the meaning of valid bits, Search for the pointer     *)
(* that looks for ready entries, Count for the ready entries and Entries   *)
(* for what is in the memories.  While the valid bits are initialized      *)
(* Starting takes their place.  Then every edge is a cycle or a reset of   *)
(* the queue of slots (StepImplements).                                    *)
(***************************************************************************)
EXTENDS Rob, TLAPS

\* The entries of a bank.
H == N_ENTRIES \div 2

\* Halves and banks of an index.
LEMMA Halves ==
    /\ N_ENTRIES \in Nat /\ H \in Nat \ {0} /\ N_ENTRIES = 2 * H
    /\ BankIdx = 0..H - 1
    /\ \A i \in t_idx : i \div 2 \in BankIdx /\ i % 2 \in Banks /\ i = 2 * (i \div 2) + (i % 2)
    /\ \A j \in BankIdx, b \in Banks :
         2 * j + b \in t_idx /\ (2 * j + b) \div 2 = j /\ (2 * j + b) % 2 = b
<1>1. N_ENTRIES \in Nat /\ H \in Nat \ {0} /\ N_ENTRIES = 2 * H
    BY RobAssumption DEF RobAssumption, H
<1>2. BankIdx = 0..H - 1
    BY DEF BankIdx, H
<1>. HIDE DEF H
<1>3. \A i \in t_idx : i \div 2 \in BankIdx /\ i % 2 \in Banks /\ i = 2 * (i \div 2) + (i % 2)
    BY <1>1, <1>2 DEF t_idx, Banks
<1>4. \A j \in BankIdx, b \in Banks :
         2 * j + b \in t_idx /\ (2 * j + b) \div 2 = j /\ (2 * j + b) % 2 = b
    BY <1>1, <1>2 DEF t_idx, Banks
<1>. QED BY <1>1, <1>2, <1>3, <1>4

\* The constants, as far as sizes matter.
LEMMA Sizes ==
    /\ N_ENTRIES \in Nat /\ N_ENTRIES >= 4
    /\ MAX_ALLOC_PER_CYCLE \in Nat \ {0} /\ MIN_FREE_SLOTS \in Nat
    /\ MIN_FREE_SLOTS >= MAX_ALLOC_PER_CYCLE
    /\ MAX_ALLOC_PER_CYCLE + MIN_FREE_SLOTS < N_ENTRIES
    /\ NUM_VALID_MAX \in Nat \ {0} /\ RESET_CYCLES \in Nat /\ RESET_CYCLES >= 2
BY RobAssumption DEF RobAssumption

\* Each value of t_epoch_idx is a distance from any other, and back.
LEMMA Distances ==
    ASSUME NEW a \in t_epoch_idx, NEW n \in t_epoch_idx
    PROVE  /\ EpochAdd(a, n) \in t_epoch_idx /\ EpochSub(n, a) \in t_epoch_idx
           /\ EpochSub(EpochAdd(a, n), a) = n
           /\ EpochAdd(a, EpochSub(n, a)) = n
           /\ IdxOf(a) \in t_idx /\ TagFor(a) \in 0..1
BY Sizes DEF t_epoch_idx, t_idx, EpochAdd, EpochSub, IdxOf, TagFor

\* Two indices less than a trip apart have different places in the memory.
LEMMA Places ==
    ASSUME NEW a \in t_epoch_idx, NEW e \in t_epoch_idx, NEW f \in t_epoch_idx,
           EpochSub(e, a) < N_ENTRIES, EpochSub(f, a) < N_ENTRIES, IdxOf(e) = IdxOf(f)
    PROVE  e = f
BY Sizes DEF t_epoch_idx, EpochSub, IdxOf

\* How the distance changes when the reference moves by one.
LEMMA Moves ==
    ASSUME NEW a \in t_epoch_idx, NEW e \in t_epoch_idx
    PROVE  EpochSub(e, EpochAdd(a, 1)) =
             IF e = a THEN 2 * N_ENTRIES - 1 ELSE EpochSub(e, a) - 1
BY Sizes DEF t_epoch_idx, EpochSub, EpochAdd

\* Steps add up.
LEMMA Sums ==
    ASSUME NEW a \in t_epoch_idx, NEW m \in 0..N_ENTRIES, NEW n \in 0..N_ENTRIES
    PROVE  EpochAdd(EpochAdd(a, m), n) = EpochAdd(a, m + n)
BY Sizes DEF t_epoch_idx, EpochAdd

\* A trip later the place is the same and the tag is the other one.
LEMMA Trips ==
    ASSUME NEW a \in t_epoch_idx
    PROVE  /\ EpochAdd(a, N_ENTRIES) \in t_epoch_idx
           /\ EpochSub(EpochAdd(a, N_ENTRIES), a) = N_ENTRIES
           /\ IdxOf(EpochAdd(a, N_ENTRIES)) = IdxOf(a)
           /\ TagFor(EpochAdd(a, N_ENTRIES)) # TagFor(a)
BY Sizes DEF t_epoch_idx, EpochSub, EpochAdd, IdxOf, TagFor

\* The tag of an entry, from where the trip of the oldest stands.
LEMMA TagsOfTrip ==
    ASSUME NEW a \in t_epoch_idx, NEW e \in t_epoch_idx, EpochSub(e, a) < N_ENTRIES
    PROVE  TagFor(e) = IF IdxOf(e) >= IdxOf(a) THEN TagFor(a) ELSE Flip(TagFor(a))
BY Sizes DEF t_epoch_idx, EpochSub, IdxOf, TagFor, Flip

-----------------------------------------------------------------------------
(* Types                                                                   *)

\* The answers that may come.
LEMMA Answers ==
    ASSUME NEW e \in t_epoch_idx, NEW d \in Response(e)
    PROVE  /\ d \in Data /\ IdxOf(e) \in t_idx
           /\ [en |-> TRUE, idx |-> IdxOf(e), data |-> d] \in Enqs
<1>1. d \in Data
    BY RobAssumption DEF RobAssumption, t_epoch_idx
<1>2. IdxOf(e) \in t_idx
    BY Sizes DEF t_epoch_idx, t_idx, IdxOf
<1>. QED BY <1>1, <1>2 DEF Enqs

\* What is in the write register is an answer.
LEMMA Writes ==
    ASSUME NEW q \in Enqs, q.en
    PROVE  q.idx \in t_idx /\ q.data \in Data
<1>1. q # NoEnq
    BY DEF NoEnq
<1>2. q \in [en : {TRUE}, idx : t_idx, data : Data]
    BY <1>1 DEF Enqs
<1>. QED BY <1>2

\* The registers and memories, without the environment.
Registers ==
    /\ newest \in t_epoch_idx /\ oldest \in t_epoch_idx /\ oldest_q \in t_epoch_idx
    /\ in_space_avail \in t_epoch_idx /\ notFull \in BOOLEAN
    /\ valid_tag \in 0..1 /\ valid_tag_q \in 0..1
    /\ enq_q \in Enqs
    /\ validBits \in [t_idx -> 0..1] /\ rdy \in BOOLEAN /\ waddr_init \in BankIdx
    /\ test_valid_idx \in [Banks -> BankIdx]
    /\ test_valid_idx_q \in [Banks -> BankIdx]
    /\ test_valid_value_q \in [Banks -> 0..1]
    /\ test_valid_tgt \in 0..1 /\ test_valid_bank \in 0..1
    /\ num_valid \in 0..NUM_VALID_MAX /\ notEmpty \in BOOLEAN
    /\ memData \in [t_idx -> Data \union {NoData}]
    /\ T2_first \in Data \union {NoData}

\* An edge keeps the registers and memories in their ranges.
LEMMA EdgeTypes ==
    ASSUME Registers, NEW reset_n \in BOOLEAN, NEW cnt \in 0..MAX_ALLOC_PER_CYCLE,
           NEW enq \in Enqs, NEW deq \in BOOLEAN, Edge(reset_n, cnt, enq, deq)
    PROVE  Registers'
<1>1. /\ newest' \in t_epoch_idx /\ oldest' \in t_epoch_idx /\ oldest_q' \in t_epoch_idx
      /\ in_space_avail' \in t_epoch_idx
    BY Sizes DEF Registers, Edge, AllocRegs, t_epoch_idx, EpochAdd, EpochSub, SpaceAvailNext
<1>2. notFull' \in BOOLEAN /\ rdy' \in BOOLEAN /\ notEmpty' \in BOOLEAN
  <2>1. notFull' \in BOOLEAN
      BY Sizes DEF Registers, Edge, AllocRegs, NotFullNext
  <2>2. rdy' \in BOOLEAN
      BY DEF Edge, ValidBitRegs
  <2>3. notEmpty' \in BOOLEAN
      BY DEF Edge, CountRegs
  <2>. QED BY <2>1, <2>2, <2>3
<1>3. valid_tag' \in 0..1 /\ valid_tag_q' \in 0..1
    BY DEF Registers, Edge, ValidTagRegs, Flip
<1>4. enq_q' \in Enqs
    BY DEF Edge, ValidBitRegs
<1>5. ValidBitsNext \in [t_idx -> 0..1]
  <2>1. ValidWData \in 0..1
      BY DEF Registers, ValidWData, Flip
  <2>2. CASE ~rdy
      BY <2>2 DEF Registers, ValidBitsNext
  <2>3. CASE rdy /\ enq_q.en
    <3>1. ValidBitsNext = [validBits EXCEPT ![enq_q.idx] = ValidWData]
        BY <2>3 DEF ValidBitsNext
    <3>. QED BY <2>1, <3>1 DEF Registers
  <2>4. CASE rdy /\ ~enq_q.en
      BY <2>4 DEF Registers, ValidBitsNext
  <2>. QED BY <2>2, <2>3, <2>4
<1>6. validBits' \in [t_idx -> 0..1]
    BY <1>5 DEF Edge, ValidBitRegs
<1>7. waddr_init' \in BankIdx
    BY Halves DEF Registers, Edge, ValidBitRegs, H
<1>8. test_valid_idx_q' \in [Banks -> BankIdx]
    BY DEF Registers, Edge, TestRegs
<1>9. test_valid_value_q' \in [Banks -> 0..1]
  <2>1. \A b \in Banks : ValidBitsNext[2 * test_valid_idx[b] + b] \in 0..1
      BY <1>5, Halves DEF Registers
  <2>. QED BY <2>1 DEF Edge, TestRegs
<1>10. /\ test_valid_idx' \in [Banks -> BankIdx]
       /\ test_valid_bank' \in 0..1 /\ test_valid_tgt' \in 0..1
  <2>1. CASE ~reset_n \/ ~rdy
      BY <2>1, Halves DEF Edge, TestRegs, Banks
  <2>2. CASE ~(~reset_n \/ ~rdy) /\ TestIsValid
    <3>. DEFINE b == test_valid_bank
    <3>. DEFINE last == test_valid_idx[b] = (N_ENTRIES \div 2) - 1
    <3>1. /\ test_valid_idx' =
                 [test_valid_idx EXCEPT ![b] = IF last THEN 0 ELSE @ + 1]
          /\ test_valid_bank' = Flip(b)
          /\ test_valid_tgt' = IF b = 1 /\ last THEN Flip(test_valid_tgt) ELSE test_valid_tgt
        BY <2>2 DEF Edge, TestRegs
    <3>2. b \in Banks /\ test_valid_idx[b] \in BankIdx
        BY DEF Registers, Banks
    <3>3. (IF last THEN 0 ELSE test_valid_idx[b] + 1) \in BankIdx
        BY <3>2, Halves DEF BankIdx
    <3>4. test_valid_idx' \in [Banks -> BankIdx]
        BY <3>1, <3>2, <3>3 DEF Registers
    <3>5. test_valid_bank' \in 0..1 /\ test_valid_tgt' \in 0..1
        BY <3>1 DEF Registers, Flip
    <3>. QED BY <3>4, <3>5
  <2>3. CASE ~(~reset_n \/ ~rdy) /\ ~TestIsValid
      BY <2>3 DEF Registers, Edge, TestRegs
  <2>. QED BY <2>1, <2>2, <2>3
<1>11. num_valid' \in 0..NUM_VALID_MAX
    BY Sizes DEF Registers, Edge, CountRegs
<1>12. memData' \in [t_idx -> Data \union {NoData}] /\ T2_first' \in Data \union {NoData}
  <2>1. enq_q.en => enq_q.idx \in t_idx /\ enq_q.data \in Data
      BY Writes DEF Registers
  <2>2. IdxOf(oldest) \in t_idx
      BY Distances DEF Registers
  <2>. QED BY <2>1, <2>2 DEF Registers, Edge, MemDataRegs
<1>. QED BY <1>1, <1>2, <1>3, <1>4, <1>6, <1>7, <1>8, <1>9, <1>10, <1>11, <1>12 DEF Registers

-----------------------------------------------------------------------------
(* The invariant                                                           *)

\* How far an entry is from the oldest, and where its response is: its valid
\* bit is set, or it is in the write register.
Distance(e) == EpochSub(e, oldest)
Filled(e) == validBits[IdxOf(e)] = TagFor(e)
Written(e) == enq_q.en /\ enq_q.idx = IdxOf(e)

\* in_space_avail leaves out what was released at the last edge, and notFull is
\* one edge behind it.
Space ==
    /\ EpochSub(newest, oldest_q) <= N_ENTRIES
    /\ in_space_avail = N_ENTRIES - EpochSub(newest, oldest_q)
    /\ \/ oldest = oldest_q
       \/ oldest = EpochAdd(oldest_q, 1) /\ newest # oldest_q
    /\ notFull => in_space_avail > MIN_FREE_SLOTS

\* The meaning of valid bits follows oldest.
Trip == valid_tag = TagFor(oldest) /\ valid_tag_q = TagFor(oldest_q)

\* The pointer of the test is behind the entries counted, in the two banks in
\* turn, and the value read for it is the valid bit as it is now.
Tested == EpochAdd(oldest, num_valid)

Search ==
    /\ IdxOf(Tested) = 2 * test_valid_idx[test_valid_bank] + test_valid_bank
    /\ test_valid_tgt = TagFor(Tested)
    /\ test_valid_idx[0] =
         IF test_valid_bank = 1
           THEN IF test_valid_idx[1] = H - 1 THEN 0 ELSE test_valid_idx[1] + 1
           ELSE test_valid_idx[1]
    /\ test_valid_idx_q[test_valid_bank] = test_valid_idx[test_valid_bank]
    /\ test_valid_value_q[test_valid_bank] = validBits[IdxOf(Tested)]

\* The ready count covers entries in flight, and notEmpty agrees with it.
Count == num_valid <= InFlight /\ (notEmpty <=> num_valid > 0)

\* An entry is empty and unasked for, or waits for its response, or has it.
Entry(e) ==
    /\ e \in outstanding \/ Filled(e) \/ Written(e) => Distance(e) < InFlight
    /\ e \in outstanding => ~Filled(e) /\ ~Written(e)
    /\ Filled(e) => ~Written(e) /\ memData[IdxOf(e)] \in Data
    /\ Distance(e) < num_valid => Filled(e)

Entries ==
    /\ \A e \in outstanding : Distance(e) < N_ENTRIES
    /\ \A e \in t_epoch_idx : Distance(e) < N_ENTRIES => Entry(e)

Running == Space /\ Trip /\ Search /\ Count /\ Entries

\* While the valid bits are initialized nothing is in flight.  The registers
\* without a reset follow one edge later.
Zero == [b \in Banks |-> 0]
Starting ==
    /\ newest = 0 /\ oldest = 0 /\ valid_tag = 1 /\ num_valid = 0 /\ ~notEmpty
    /\ outstanding = {}
    /\ test_valid_idx = Zero /\ test_valid_bank = 0 /\ test_valid_tgt = 1
    /\ rst > 0 => waddr_init = 0
    /\ rst < RESET_CYCLES - 1 =>
         /\ oldest_q = 0 /\ valid_tag_q = 1 /\ enq_q = NoEnq
         /\ in_space_avail = N_ENTRIES /\ ~notFull
         /\ test_valid_idx_q = Zero /\ test_valid_value_q = Zero
         /\ validBits[0] = 0 /\ validBits[1] = 0
         /\ \A i \in t_idx : i \div 2 < waddr_init => validBits[i] = 0

IInv ==
    /\ TypeOK
    /\ rst > 0 => ~rdy
    /\ rdy => Running
    /\ ~rdy => Starting

-----------------------------------------------------------------------------
(* An edge in operation, with what the environment gives at it             *)

EnvCycle(cnt, enq, deq) ==
    /\ rst = 0 /\ rst' = 0
    /\ cnt \in 0..MAX_ALLOC_PER_CYCLE /\ deq \in BOOLEAN /\ enq \in Enqs
    /\ cnt > 0 => notFull
    /\ deq => notEmpty
    /\ \/ enq = NoEnq /\ outstanding' = outstanding \union Allocated(cnt)
       \/ \E e \in outstanding :
             /\ enq.en /\ enq.idx = IdxOf(e)
             /\ outstanding' = (outstanding \ {e}) \union Allocated(cnt)

\* A cycle is such an edge.
LEMMA CycleIsEdge ==
    ASSUME TypeOK, Cycle
    PROVE  \E cnt \in 0..MAX_ALLOC_PER_CYCLE, deq \in BOOLEAN, enq \in Enqs :
               EnvCycle(cnt, enq, deq) /\ Edge(TRUE, cnt, enq, deq)
<1>1. PICK cnt \in 0..MAX_ALLOC_PER_CYCLE, deq \in BOOLEAN :
         /\ cnt > 0 => notFull
         /\ deq => notEmpty
         /\ \/ /\ Edge(TRUE, cnt, NoEnq, deq)
               /\ outstanding' = outstanding \union Allocated(cnt)
            \/ \E e \in outstanding : \E d \in Response(e) :
                 /\ Edge(TRUE, cnt, [en |-> TRUE, idx |-> IdxOf(e), data |-> d], deq)
                 /\ outstanding' = (outstanding \ {e}) \union Allocated(cnt)
    BY DEF Cycle
<1>2. rst = 0 /\ rst' = 0
    BY DEF Cycle
<1>3. CASE Edge(TRUE, cnt, NoEnq, deq) /\ outstanding' = outstanding \union Allocated(cnt)
  <2>1. NoEnq \in Enqs
      BY DEF Enqs
  <2>. QED BY <1>1, <1>2, <1>3, <2>1 DEF EnvCycle
<1>4. CASE \E e \in outstanding : \E d \in Response(e) :
                 /\ Edge(TRUE, cnt, [en |-> TRUE, idx |-> IdxOf(e), data |-> d], deq)
                 /\ outstanding' = (outstanding \ {e}) \union Allocated(cnt)
  <2>1. PICK e \in outstanding : \E d \in Response(e) :
                 /\ Edge(TRUE, cnt, [en |-> TRUE, idx |-> IdxOf(e), data |-> d], deq)
                 /\ outstanding' = (outstanding \ {e}) \union Allocated(cnt)
      BY <1>4
  <2>2. PICK d \in Response(e) :
                 Edge(TRUE, cnt, [en |-> TRUE, idx |-> IdxOf(e), data |-> d], deq)
      BY <2>1
  <2>. DEFINE enq == [en |-> TRUE, idx |-> IdxOf(e), data |-> d]
  <2>3. enq \in Enqs
      BY Answers DEF TypeOK
  <2>4. enq.en /\ enq.idx = IdxOf(e)
      OBVIOUS
  <2>5. EnvCycle(cnt, enq, deq)
    <3>. HIDE DEF enq
    <3>. QED BY <1>1, <1>2, <2>1, <2>3, <2>4 DEF EnvCycle
  <2>6. Edge(TRUE, cnt, enq, deq)
      BY <2>2
  <2>. HIDE DEF enq
  <2>. QED BY <2>3, <2>5, <2>6
<1>. QED BY <1>1, <1>3, <1>4

\* A step of the buffer in operation.
Step(cnt, enq, deq) ==
    IInv /\ rdy /\ EnvCycle(cnt, enq, deq) /\ Edge(TRUE, cnt, enq, deq)

\* A bit as a number.
One(bit) == IF bit THEN 1 ELSE 0

\* The pointers, and how many entries are in flight after the edge.
LEMMA Flight ==
    ASSUME NEW cnt, NEW enq, NEW deq, Step(cnt, enq, deq)
    PROVE  /\ InFlight \in 0..N_ENTRIES
           /\ cnt \in 0..MAX_ALLOC_PER_CYCLE
           /\ deq => InFlight > 0
           /\ InFlight + cnt <= N_ENTRIES
           /\ newest' = EpochAdd(newest, cnt)
           /\ oldest' = IF deq THEN EpochAdd(oldest, 1) ELSE oldest
           /\ oldest_q' = oldest
           /\ EpochSub(newest', oldest) = InFlight + cnt
           /\ InFlight' = InFlight + cnt - One(deq)
           /\ Space'
<1>1. /\ newest \in t_epoch_idx /\ oldest \in t_epoch_idx /\ oldest_q \in t_epoch_idx
      /\ num_valid \in Nat /\ Space /\ Count
    BY DEF Step, IInv, TypeOK, Running
<1>2. cnt \in 0..MAX_ALLOC_PER_CYCLE /\ deq \in BOOLEAN /\ (cnt > 0 => notFull) /\ (deq => notEmpty)
    BY DEF Step, EnvCycle
<1>3. /\ newest' = EpochAdd(newest, cnt)
      /\ oldest' = IF deq THEN EpochAdd(oldest, 1) ELSE oldest
      /\ oldest_q' = oldest
      /\ in_space_avail' = SpaceAvailNext(cnt)
      /\ notFull' = NotFullNext
    BY DEF Step, Edge, AllocRegs
<1>4. InFlight \in Nat /\ InFlight <= EpochSub(newest, oldest_q)
    BY <1>1, Sizes DEF Space, InFlight, t_epoch_idx, EpochSub, EpochAdd
<1>5. InFlight <= N_ENTRIES - in_space_avail /\ in_space_avail >= 0
    BY <1>1, <1>4, Sizes DEF Space, t_epoch_idx, EpochSub
<1>6. cnt > 0 => InFlight + cnt <= N_ENTRIES
    BY <1>1, <1>2, <1>4, <1>5, Sizes DEF Space, t_epoch_idx, EpochSub
<1>7. InFlight + cnt <= N_ENTRIES
    BY <1>1, <1>2, <1>4, <1>6, Sizes DEF Space, t_epoch_idx, EpochSub
<1>8. deq => InFlight > 0
    BY <1>1, <1>2, <1>4 DEF Count
<1>9. EpochSub(newest', oldest) = InFlight + cnt
    BY <1>1, <1>2, <1>3, <1>4, <1>7, Sizes DEF InFlight, t_epoch_idx, EpochSub, EpochAdd
<1>10. InFlight' = EpochSub(newest', oldest')
    BY DEF InFlight, EpochSub
<1>11. newest' \in t_epoch_idx
    BY <1>1, <1>2, <1>3, Sizes DEF t_epoch_idx, EpochAdd
<1>12. InFlight' = InFlight + cnt - One(deq)
    BY <1>1, <1>2, <1>3, <1>4, <1>8, <1>9, <1>10, <1>11, Sizes
    DEF t_epoch_idx, EpochSub, EpochAdd, One
<1>13. in_space_avail' = N_ENTRIES - (InFlight + cnt)
    BY <1>1, <1>2, <1>3, <1>4, <1>7, Sizes
    DEF InFlight, SpaceAvailNext, t_epoch_idx, EpochSub, EpochAdd
<1>14. notFull' => in_space_avail' > MIN_FREE_SLOTS
  <2>1. notFull' => in_space_avail > MAX_ALLOC_PER_CYCLE + MIN_FREE_SLOTS
      BY <1>3 DEF NotFullNext
  <2>2. in_space_avail' >= in_space_avail - cnt
      BY <1>1, <1>2, <1>4, <1>5, <1>13, Sizes DEF Space, t_epoch_idx, EpochSub
  <2>3. in_space_avail \in Int /\ in_space_avail' \in Int
      BY <1>1, <1>2, <1>4, <1>13, Sizes DEF Space, t_epoch_idx, EpochSub
  <2>. QED BY <1>2, <2>1, <2>2, <2>3, Sizes
<1>15. Space'
  <2>1. EpochSub(newest', oldest_q') <= N_ENTRIES
        /\ in_space_avail' = N_ENTRIES - EpochSub(newest', oldest_q')
      BY <1>3, <1>7, <1>9, <1>13
  <2>2. deq => newest' # oldest
    <3>1. EpochSub(oldest, oldest) = 0
        BY <1>1 DEF EpochSub, t_epoch_idx
    <3>2. deq => InFlight + cnt > 0
        BY <1>2, <1>4, <1>8
    <3>. QED BY <1>9, <3>1, <3>2
  <2>3. EpochSub(newest, oldest_q)' = EpochSub(newest', oldest_q')
        /\ EpochAdd(oldest_q, 1)' = EpochAdd(oldest_q', 1)
      BY DEF EpochSub, EpochAdd
  <2>. QED BY <1>2, <1>3, <1>14, <2>1, <2>2, <2>3 DEF Space
<1>. QED BY <1>2, <1>3, <1>4, <1>7, <1>8, <1>9, <1>12, <1>15, Sizes

\* The valid bit written for an entry in flight has the entry's own meaning,
\* although oldest may have left the last place since the response came.
LEMMA WriteMeans ==
    ASSUME TypeOK, Space, Trip, NEW e \in t_epoch_idx, Written(e), Distance(e) < InFlight
    PROVE  ValidWData = TagFor(e)
<1>1. EpochSub(e, oldest_q) < N_ENTRIES
    BY Sizes DEF TypeOK, Space, Distance, InFlight, EpochSub, EpochAdd, t_epoch_idx
<1>2. TagFor(e) = IF IdxOf(e) >= IdxOf(oldest_q) THEN TagFor(oldest_q) ELSE Flip(TagFor(oldest_q))
    BY <1>1, TagsOfTrip DEF TypeOK
<1>. QED BY <1>2 DEF Written, Trip, ValidWData

\* Entries that are near enough are entries of the invariant.
LEMMA TestedTypes ==
    ASSUME IInv, rdy
    PROVE  /\ num_valid \in Nat /\ num_valid <= InFlight /\ InFlight \in 0..N_ENTRIES
           /\ Tested \in t_epoch_idx /\ Distance(Tested) = num_valid
           /\ test_valid_bank \in Banks /\ test_valid_idx[test_valid_bank] \in BankIdx
           /\ IdxOf(Tested) \in t_idx /\ oldest \in t_epoch_idx /\ newest \in t_epoch_idx
<1>1. /\ newest \in t_epoch_idx /\ oldest \in t_epoch_idx /\ oldest_q \in t_epoch_idx
      /\ num_valid \in Nat /\ Space /\ Count
    BY Sizes DEF IInv, TypeOK, Running
<1>2. InFlight \in 0..N_ENTRIES
    BY <1>1, Sizes DEF Space, InFlight, t_epoch_idx, EpochSub, EpochAdd
<1>3. num_valid <= InFlight /\ num_valid \in t_epoch_idx
    BY <1>1, <1>2, Sizes DEF Count, t_epoch_idx
<1>4. Tested \in t_epoch_idx /\ Distance(Tested) = num_valid /\ IdxOf(Tested) \in t_idx
    BY <1>1, <1>3, Distances DEF Tested, Distance
<1>5. test_valid_bank \in Banks /\ test_valid_idx[test_valid_bank] \in BankIdx
    BY DEF IInv, TypeOK, Banks
<1>. QED BY <1>1, <1>2, <1>3, <1>4, <1>5

\* The test succeeds only for the first entry that is not counted, if its
\* response is there.
LEMMA TestFinds ==
    ASSUME IInv, rdy, TestIsValid
    PROVE  /\ num_valid < InFlight /\ num_valid < NUM_VALID_MAX
           /\ Distance(Tested) < N_ENTRIES
           /\ Filled(Tested) \/ Written(Tested)
<1>1. Search /\ Entries
    BY DEF IInv, Running
<1>2. num_valid < NUM_VALID_MAX
    BY Sizes DEF TestIsValid, IInv, TypeOK
<1>3. Filled(Tested) \/ Written(Tested)
  <2>1. CASE test_valid_tgt = test_valid_value_q[test_valid_bank]
      BY <1>1, <2>1 DEF Search, Filled
  <2>2. CASE TestValidBypass(test_valid_bank)
    <3>1. /\ enq_q.en /\ enq_q.idx % 2 = test_valid_bank
          /\ enq_q.idx \div 2 = test_valid_idx[test_valid_bank]
        BY <1>1, <2>2 DEF Search, TestValidBypass
    <3>2. enq_q.idx \in t_idx
        BY <3>1, Writes DEF IInv, TypeOK
    <3>3. enq_q.idx = 2 * (enq_q.idx \div 2) + (enq_q.idx % 2)
        BY <3>2, Halves
    <3>4. enq_q.idx = IdxOf(Tested)
        BY <1>1, <3>1, <3>3 DEF Search
    <3>. QED BY <3>1, <3>4 DEF Written
  <2>. QED BY <2>1, <2>2 DEF TestIsValid
<1>4. num_valid < InFlight /\ Distance(Tested) < N_ENTRIES
  <2>1. CASE num_valid < N_ENTRIES
    <3>1. Entry(Tested)
        BY <1>1, <2>1, TestedTypes DEF Entries
    <3>. QED BY <1>3, <2>1, <3>1, TestedTypes DEF Entry
  <2>2. CASE num_valid = N_ENTRIES
    <3>1. Tested = EpochAdd(oldest, N_ENTRIES)
        BY <2>2 DEF Tested
    <3>2. IdxOf(Tested) = IdxOf(oldest) /\ TagFor(Tested) # TagFor(oldest)
        BY <3>1, Trips, TestedTypes
    <3>3. Distance(oldest) = 0 /\ 0 < N_ENTRIES
        BY TestedTypes, Sizes DEF Distance, EpochSub, t_epoch_idx
    <3>4. Entry(oldest)
        BY <1>1, <3>3, TestedTypes DEF Entries
    <3>5. Filled(oldest) /\ ~Written(oldest)
        BY <2>2, <3>3, <3>4 DEF Entry
    <3>. QED BY <1>3, <3>2, <3>5 DEF Filled, Written
  <2>. QED BY <2>1, <2>2, TestedTypes, Sizes
<1>. QED BY <1>2, <1>3, <1>4

\* The count of ready entries, and notEmpty, which is computed apart from it.
LEMMA CountStep ==
    ASSUME NEW cnt, NEW enq, NEW deq, Step(cnt, enq, deq)
    PROVE  /\ num_valid' = num_valid - One(deq) + One(TestIsValid)
           /\ deq => num_valid > 0
           /\ Count'
<1>1. /\ IInv /\ rdy /\ Count /\ num_valid \in 0..NUM_VALID_MAX
    BY DEF Step, IInv, TypeOK, Running
<1>2. deq \in BOOLEAN /\ (deq => num_valid > 0)
    BY <1>1 DEF Step, EnvCycle, Count
<1>. DEFINE n == num_valid - One(deq) + One(TestIsValid)
<1>3. n \in 0..NUM_VALID_MAX
    BY <1>1, <1>2, TestFinds, Sizes DEF One
<1>4. num_valid' = n % (NUM_VALID_MAX + 1)
    BY DEF Step, Edge, CountRegs, One
<1>5. num_valid' = n
  <2>. HIDE DEF n
  <2>. QED BY <1>3, <1>4, Sizes
<1>6. num_valid' <= InFlight'
  <2>1. InFlight' = InFlight + cnt - One(deq) /\ InFlight \in Nat /\ cnt \in Nat
      BY Flight, Sizes
  <2>2. num_valid + One(TestIsValid) <= InFlight
      BY <1>1, <2>1, TestFinds DEF One, Count
  <2>. QED BY <1>1, <1>5, <2>1, <2>2 DEF One
<1>7. notEmpty' <=> num_valid' > 0
  <2>1. notEmpty' <=> TestIsValid \/ num_valid > 1 \/ (num_valid % 2 = 1 /\ ~deq)
      BY DEF Step, Edge, CountRegs
  <2>2. num_valid = 1 \/ num_valid = 0 \/ num_valid > 1
      BY <1>1
  <2>3. CASE num_valid > 1
      BY <1>1, <1>5, <2>1, <2>3 DEF One
  <2>4. CASE num_valid = 1
      BY <1>5, <2>1, <2>4 DEF One
  <2>5. CASE num_valid = 0
      BY <1>2, <1>5, <2>1, <2>5 DEF One
  <2>. QED BY <2>2, <2>3, <2>4, <2>5
<1>. QED BY <1>2, <1>5, <1>6, <1>7 DEF Count

\* The meaning of valid bits changes when oldest passes the last place.
LEMMA TripStep ==
    ASSUME NEW cnt, NEW enq, NEW deq, Step(cnt, enq, deq)
    PROVE  Trip'
<1>1. Trip /\ oldest \in t_epoch_idx
    BY DEF Step, IInv, TypeOK, Running
<1>2. oldest' = (IF deq THEN EpochAdd(oldest, 1) ELSE oldest) /\ oldest_q' = oldest
    BY Flight
<1>3. /\ valid_tag' = IF deq /\ IdxOf(oldest) = N_ENTRIES - 1 THEN Flip(valid_tag) ELSE valid_tag
      /\ valid_tag_q' = valid_tag
    BY DEF Step, Edge, ValidTagRegs
<1>4. TagFor(EpochAdd(oldest, 1)) =
          IF IdxOf(oldest) = N_ENTRIES - 1 THEN Flip(TagFor(oldest)) ELSE TagFor(oldest)
    BY <1>1, Sizes DEF t_epoch_idx, TagFor, EpochAdd, IdxOf, Flip
<1>5. TagFor(oldest)' = TagFor(oldest') /\ TagFor(oldest_q)' = TagFor(oldest_q')
    BY DEF TagFor
<1>. QED BY <1>1, <1>2, <1>3, <1>4, <1>5 DEF Trip

\* The next entry to test, after the edge.
LEMMA TestedMoves ==
    ASSUME NEW cnt, NEW enq, NEW deq, Step(cnt, enq, deq)
    PROVE  Tested' = IF TestIsValid THEN EpochAdd(Tested, 1) ELSE Tested
<1>1. IInv /\ rdy /\ deq \in BOOLEAN
    BY DEF Step, EnvCycle
<1>2. Tested' = EpochAdd(oldest', num_valid')
    BY DEF Tested, EpochAdd
<1>3. num_valid + One(TestIsValid) <= N_ENTRIES /\ num_valid \in Nat /\ oldest \in t_epoch_idx
  <2>1. TestIsValid => num_valid < InFlight
      BY <1>1, TestFinds
  <2>2. num_valid \in Nat /\ num_valid <= InFlight /\ InFlight \in 0..N_ENTRIES
        /\ oldest \in t_epoch_idx
      BY <1>1, TestedTypes
  <2>3. One(TestIsValid) = IF TestIsValid THEN 1 ELSE 0
      BY DEF One
  <2>. QED BY <2>1, <2>2, <2>3, Sizes
<1>4. oldest' = IF deq THEN EpochAdd(oldest, 1) ELSE oldest
    BY Flight
<1>5. num_valid' = num_valid - One(deq) + One(TestIsValid) /\ (deq => num_valid > 0)
    BY CountStep
<1>6. EpochAdd(oldest, num_valid + One(TestIsValid)) =
          IF TestIsValid THEN EpochAdd(Tested, 1) ELSE Tested
    BY <1>3, Sums, Sizes DEF Tested, One
<1>7. CASE deq
  <2>1. num_valid - 1 \in 0..N_ENTRIES /\ num_valid' = num_valid - 1 + One(TestIsValid)
      BY <1>3, <1>5, <1>7, Sizes DEF One
  <2>2. num_valid' \in 0..N_ENTRIES /\ 1 + num_valid' = num_valid + One(TestIsValid)
      BY <1>3, <2>1, Sizes DEF One
  <2>3. Tested' = EpochAdd(oldest, 1 + num_valid')
      BY <1>2, <1>3, <1>4, <1>7, <2>2, Sums, Sizes
  <2>. QED BY <1>6, <2>2, <2>3
<1>8. CASE ~deq
    BY <1>2, <1>3, <1>4, <1>5, <1>6, <1>8 DEF One
<1>. QED BY <1>7, <1>8

\* The two banks take turns, so the value read one edge ago is for the entry
\* that is tested now.
LEMMA SearchStep ==
    ASSUME NEW cnt, NEW enq, NEW deq, Step(cnt, enq, deq)
    PROVE  Search'
<1>. DEFINE b == test_valid_bank
<1>. DEFINE idx == test_valid_idx
<1>1. /\ IInv /\ rdy /\ Search /\ b \in Banks /\ idx \in [Banks -> BankIdx]
      /\ Tested \in t_epoch_idx
    BY TestedTypes DEF Step, IInv, TypeOK, Running
<1>2. /\ test_valid_idx_q' = idx
      /\ test_valid_value_q' = [x \in Banks |-> ValidBitsNext[2 * idx[x] + x]]
      /\ validBits' = ValidBitsNext
    BY DEF Step, Edge, TestRegs, ValidBitRegs
<1>3. /\ IdxOf(Tested') = 2 * test_valid_idx'[test_valid_bank'] + test_valid_bank'
      /\ test_valid_tgt' = TagFor(Tested')
      /\ test_valid_idx'[0] =
           IF test_valid_bank' = 1
             THEN IF test_valid_idx'[1] = H - 1 THEN 0 ELSE test_valid_idx'[1] + 1
             ELSE test_valid_idx'[1]
      /\ test_valid_bank' \in Banks
      /\ test_valid_idx'[test_valid_bank'] = idx[test_valid_bank']
  <2>1. CASE TestIsValid
    <3>. DEFINE last == idx[b] = H - 1
    <3>1. /\ test_valid_idx' = [idx EXCEPT ![b] = IF last THEN 0 ELSE @ + 1]
          /\ test_valid_bank' = Flip(b)
          /\ test_valid_tgt' = IF b = 1 /\ last THEN Flip(test_valid_tgt) ELSE test_valid_tgt
        BY <1>1, <2>1 DEF Step, Edge, TestRegs, H
    <3>2. Tested' = EpochAdd(Tested, 1)
        BY <2>1, TestedMoves
    <3>3. /\ IdxOf(EpochAdd(Tested, 1)) =
                 IF IdxOf(Tested) = N_ENTRIES - 1 THEN 0 ELSE IdxOf(Tested) + 1
          /\ TagFor(EpochAdd(Tested, 1)) =
                 IF IdxOf(Tested) = N_ENTRIES - 1 THEN Flip(TagFor(Tested)) ELSE TagFor(Tested)
        BY <1>1, Sizes DEF t_epoch_idx, IdxOf, EpochAdd, TagFor, Flip
    <3>4. /\ IdxOf(Tested) = 2 * idx[b] + b /\ test_valid_tgt = TagFor(Tested)
          /\ idx[0] = IF b = 1 THEN IF idx[1] = H - 1 THEN 0 ELSE idx[1] + 1 ELSE idx[1]
        BY <1>1 DEF Search
    <3>5. idx[0] \in 0..H - 1 /\ idx[1] \in 0..H - 1 /\ N_ENTRIES = 2 * H /\ H \in Nat
        BY <1>1, Halves DEF Banks
    <3>6. CASE b = 0
      <4>1. /\ test_valid_bank' = 1 /\ test_valid_idx'[1] = idx[1]
            /\ test_valid_idx'[0] = IF idx[0] = H - 1 THEN 0 ELSE idx[0] + 1
            /\ test_valid_tgt' = test_valid_tgt
          BY <1>1, <3>1, <3>6 DEF Flip, Banks
      <4>2. IdxOf(Tested) = 2 * idx[0] /\ idx[0] = idx[1]
          BY <3>4, <3>5, <3>6
      <4>3. IdxOf(Tested) # N_ENTRIES - 1
          BY <3>5, <4>2
      <4>4. IdxOf(Tested') = 2 * idx[1] + 1 /\ TagFor(Tested') = TagFor(Tested)
          BY <3>2, <3>3, <4>2, <4>3
      <4>. HIDE DEF b, idx
      <4>. QED BY <3>4, <4>1, <4>2, <4>4 DEF Banks
    <3>7. CASE b = 1
      <4>1. /\ test_valid_bank' = 0 /\ test_valid_idx'[0] = idx[0]
            /\ test_valid_idx'[1] = IF idx[1] = H - 1 THEN 0 ELSE idx[1] + 1
            /\ test_valid_tgt' = IF idx[1] = H - 1 THEN Flip(test_valid_tgt) ELSE test_valid_tgt
          BY <1>1, <3>1, <3>7 DEF Flip, Banks
      <4>2. IdxOf(Tested) = 2 * idx[1] + 1
            /\ idx[0] = IF idx[1] = H - 1 THEN 0 ELSE idx[1] + 1
          BY <3>4, <3>7
      <4>3. IdxOf(Tested) = N_ENTRIES - 1 <=> idx[1] = H - 1
          BY <3>5, <4>2
      <4>4. IdxOf(Tested') = 2 * idx[0]
          BY <3>2, <3>3, <3>5, <4>2, <4>3
      <4>5. test_valid_tgt' = TagFor(Tested')
          BY <3>2, <3>3, <3>4, <4>1, <4>3
      <4>. HIDE DEF b, idx
      <4>. QED BY <3>5, <4>1, <4>2, <4>4, <4>5 DEF Banks
    <3>. QED BY <1>1, <3>6, <3>7 DEF Banks
  <2>2. CASE ~TestIsValid
    <3>1. UNCHANGED <<test_valid_idx, test_valid_bank, test_valid_tgt>>
        BY <1>1, <2>2 DEF Step, Edge, TestRegs
    <3>2. Tested' = Tested
        BY <2>2, TestedMoves
    <3>. QED BY <1>1, <3>1, <3>2 DEF Search
  <2>. QED BY <2>1, <2>2
<1>4. test_valid_value_q'[test_valid_bank'] = validBits'[IdxOf(Tested')]
    BY <1>2, <1>3
<1>5. IdxOf(Tested)' = IdxOf(Tested') /\ TagFor(Tested)' = TagFor(Tested') /\ H' = H
    BY DEF IdxOf, TagFor, H
<1>. QED BY <1>2, <1>3, <1>4, <1>5 DEF Search

\* Where the entries are that are allocated at the edge.
LEMMA AllocatedEntries ==
    ASSUME NEW cnt, NEW enq, NEW deq, Step(cnt, enq, deq), NEW e \in Allocated(cnt)
    PROVE  e \in t_epoch_idx /\ InFlight <= Distance(e) /\ Distance(e) < InFlight + cnt
<1>1. newest \in t_epoch_idx /\ oldest \in t_epoch_idx
    BY DEF Step, IInv, TypeOK
<1>2. InFlight \in Nat /\ cnt \in Nat /\ InFlight + cnt <= N_ENTRIES
    BY Flight, Sizes
<1>3. PICK k \in 0..cnt - 1 : e = EpochAdd(newest, k)
    BY DEF Allocated
<1>4. Distance(e) = InFlight + k
    BY <1>1, <1>2, <1>3, Sizes DEF Distance, InFlight, EpochSub, EpochAdd, t_epoch_idx
<1>5. e \in t_epoch_idx
    BY <1>1, <1>2, <1>3, Sizes DEF EpochAdd, t_epoch_idx
<1>. QED BY <1>2, <1>4, <1>5

\* The entry that is answered at the edge, if there is one, waits for it, and
\* after the edge it is the one in the write register.
LEMMA Answered ==
    ASSUME NEW cnt, NEW enq, NEW deq, Step(cnt, enq, deq),
           NEW e \in t_epoch_idx, Distance(e) < N_ENTRIES
    PROVE  /\ Written(e)' => e \in outstanding /\ e \notin outstanding'
           /\ e \in outstanding' => e \in outstanding \/ e \in Allocated(cnt)
<1>1. /\ \A f \in outstanding : f \in t_epoch_idx /\ Distance(f) < N_ENTRIES
      /\ oldest \in t_epoch_idx /\ Entries
    BY DEF Step, IInv, TypeOK, Running, Entries
<1>2. \/ enq = NoEnq /\ outstanding' = outstanding \union Allocated(cnt)
      \/ \E f \in outstanding :
             /\ enq.en /\ enq.idx = IdxOf(f)
             /\ outstanding' = (outstanding \ {f}) \union Allocated(cnt)
    BY DEF Step, EnvCycle
<1>3. Written(e)' <=> enq.en /\ enq.idx = IdxOf(e)
  <2>1. enq_q' = enq
      BY DEF Step, Edge, ValidBitRegs
  <2>2. IdxOf(e)' = IdxOf(e)
      BY DEF IdxOf
  <2>. QED BY <2>1, <2>2 DEF Written
<1>4. ASSUME Written(e)' PROVE e \in outstanding /\ e \notin outstanding'
  <2>1. PICK f \in outstanding :
             /\ enq.en /\ enq.idx = IdxOf(f)
             /\ outstanding' = (outstanding \ {f}) \union Allocated(cnt)
      BY <1>2, <1>3, <1>4 DEF NoEnq
  <2>2. f = e
      BY <1>1, <1>3, <1>4, <2>1, Places DEF Distance
  <2>3. Distance(e) < InFlight
      BY <1>1, <2>1, <2>2 DEF Entries, Entry
  <2>4. e \notin Allocated(cnt)
    <3>1. InFlight \in Nat /\ Distance(e) \in Int
        BY <1>1, Flight, Sizes DEF Distance, EpochSub, t_epoch_idx
    <3>. QED BY <2>3, <3>1, AllocatedEntries
  <2>. QED BY <2>1, <2>2, <2>4
<1>. QED BY <1>2, <1>4

\* The valid bit of an entry of this trip after the edge.
LEMMA FilledNext ==
    ASSUME NEW cnt, NEW enq, NEW deq, Step(cnt, enq, deq),
           NEW e \in t_epoch_idx, Distance(e) < N_ENTRIES
    PROVE  Filled(e)' <=> Filled(e) \/ Written(e)
<1>1. /\ TypeOK /\ Space /\ Trip /\ Entry(e) /\ rdy /\ oldest \in t_epoch_idx
    BY DEF Step, IInv, TypeOK, Running, Entries
<1>2. validBits' = IF enq_q.en THEN [validBits EXCEPT ![enq_q.idx] = ValidWData] ELSE validBits
    BY <1>1 DEF Step, Edge, ValidBitRegs, ValidBitsNext
<1>3. IdxOf(e) \in t_idx
    BY Sizes DEF t_epoch_idx, t_idx, IdxOf
<1>4. Filled(e)' <=> validBits'[IdxOf(e)] = TagFor(e)
    BY DEF Filled, IdxOf, TagFor
<1>5. CASE Written(e)
  <2>1. ValidWData = TagFor(e)
      BY <1>1, <1>5, WriteMeans DEF Entry
  <2>2. validBits'[IdxOf(e)] = ValidWData
      BY <1>1, <1>2, <1>3, <1>5 DEF Written, TypeOK
  <2>. QED BY <1>4, <1>5, <2>1, <2>2
<1>6. CASE ~Written(e)
  <2>1. validBits'[IdxOf(e)] = validBits[IdxOf(e)]
      BY <1>1, <1>2, <1>3, <1>6 DEF Written, TypeOK
  <2>. QED BY <1>4, <1>6, <2>1 DEF Filled
<1>. QED BY <1>5, <1>6

\* An entry that is dequeued has its response, in the memory.
LEMMA OldestFilled ==
    ASSUME NEW cnt, NEW enq, NEW deq, Step(cnt, enq, deq), deq
    PROVE  /\ Filled(oldest) /\ ~Written(oldest) /\ oldest \notin outstanding
           /\ oldest \in t_epoch_idx /\ Distance(oldest) = 0
           /\ memData[IdxOf(oldest)] \in Data
<1>1. Entries /\ oldest \in t_epoch_idx /\ num_valid > 0
    BY CountStep DEF Step, IInv, TypeOK, Running
<1>2. Distance(oldest) = 0
    BY <1>1, Sizes DEF Distance, EpochSub, t_epoch_idx
<1>3. Entry(oldest)
    BY <1>1, <1>2, Sizes DEF Entries
<1>. QED BY <1>1, <1>2, <1>3 DEF Entry

\* How far an entry is after the edge.
LEMMA DistanceNext ==
    ASSUME NEW cnt, NEW enq, NEW deq, Step(cnt, enq, deq), NEW e \in t_epoch_idx
    PROVE  /\ Distance(e) \in t_epoch_idx
           /\ Distance(e)' = IF deq THEN IF e = oldest THEN 2 * N_ENTRIES - 1 ELSE Distance(e) - 1
                             ELSE Distance(e)
<1>1. oldest \in t_epoch_idx
    BY DEF Step, IInv, TypeOK
<1>2. oldest' = IF deq THEN EpochAdd(oldest, 1) ELSE oldest
    BY Flight
<1>3. Distance(e)' = EpochSub(e, oldest')
    BY DEF Distance, EpochSub
<1>. QED BY <1>1, <1>2, <1>3, Moves, Distances DEF Distance

\* An entry of this trip stays as the invariant says.
LEMMA EntryStep ==
    ASSUME NEW cnt, NEW enq, NEW deq, Step(cnt, enq, deq),
           NEW e \in t_epoch_idx, Distance(e) < N_ENTRIES, Distance(e)' < N_ENTRIES
    PROVE  Entry(e)'
<1>1. IInv /\ rdy /\ Entry(e) /\ oldest \in t_epoch_idx /\ deq \in BOOLEAN
    BY DEF Step, EnvCycle, IInv, TypeOK, Running, Entries
<1>2. Distance(e) \in Nat /\ Distance(e)' = Distance(e) - One(deq)
    BY <1>1, DistanceNext, Sizes DEF One, t_epoch_idx
<1>3. InFlight' = InFlight + cnt - One(deq) /\ InFlight \in Nat /\ cnt \in Nat
    BY Flight, Sizes
<1>4. Filled(e)' <=> Filled(e) \/ Written(e)
    BY FilledNext
<1>5. /\ Written(e)' => e \in outstanding /\ e \notin outstanding'
      /\ e \in outstanding' => e \in outstanding \/ e \in Allocated(cnt)
    BY Answered
<1>6. e \in Allocated(cnt) => InFlight <= Distance(e) /\ Distance(e) < InFlight + cnt
    BY AllocatedEntries
<1>7. e \in outstanding' \/ Filled(e)' \/ Written(e)' => Distance(e)' < InFlight'
  <2>1. e \in outstanding \/ Filled(e) \/ Written(e) => Distance(e) < InFlight
      BY <1>1 DEF Entry
  <2>2. e \in outstanding' \/ Filled(e)' \/ Written(e)' => Distance(e) < InFlight + cnt
      BY <1>2, <1>3, <1>4, <1>5, <1>6, <2>1
  <2>. QED BY <1>2, <1>3, <2>2 DEF One
<1>8. e \in outstanding' => ~Filled(e)' /\ ~Written(e)'
  <2>1. e \in outstanding => ~Filled(e) /\ ~Written(e)
      BY <1>1 DEF Entry
  <2>2. e \in Allocated(cnt) => ~Filled(e) /\ ~Written(e)
      BY <1>1, <1>2, <1>3, <1>6 DEF Entry
  <2>. QED BY <1>4, <1>5, <2>1, <2>2
<1>9. Filled(e)' => ~Written(e)' /\ memData'[IdxOf(e)] \in Data
  <2>1. ASSUME Filled(e)' PROVE ~Written(e)'
      BY <1>1, <1>4, <1>5, <2>1 DEF Entry
  <2>2. memData' = IF enq_q.en THEN [memData EXCEPT ![enq_q.idx] = enq_q.data] ELSE memData
      BY DEF Step, Edge, MemDataRegs
  <2>3. IdxOf(e) \in t_idx /\ memData \in [t_idx -> Data \union {NoData}] /\ enq_q \in Enqs
      BY <1>1, Sizes DEF t_epoch_idx, t_idx, IdxOf, IInv, TypeOK
  <2>4. CASE Written(e)
    <3>1. enq_q.data \in Data
        BY <2>3, <2>4, Writes DEF Written
    <3>. QED BY <2>1, <2>2, <2>3, <2>4, <3>1 DEF Written
  <2>5. CASE ~Written(e)
    <3>1. memData'[IdxOf(e)] = memData[IdxOf(e)]
        BY <2>2, <2>3, <2>5 DEF Written
    <3>. QED BY <1>1, <1>4, <2>1, <2>5, <3>1 DEF Entry
  <2>. QED BY <2>4, <2>5
<1>10. Distance(e)' < num_valid' => Filled(e)'
  <2>1. num_valid' = num_valid - One(deq) + One(TestIsValid) /\ num_valid \in Nat
      BY <1>1, CountStep, TestedTypes
  <2>2. CASE Distance(e) < num_valid
      BY <1>1, <1>4, <2>2 DEF Entry
  <2>3. CASE TestIsValid /\ Distance(e) = num_valid
    <3>1. e = Tested
        BY <1>1, <2>3, Distances DEF Distance, Tested
    <3>. QED BY <1>1, <1>4, <2>3, <3>1, TestFinds
  <2>4. Distance(e)' < num_valid' =>
          Distance(e) < num_valid \/ (TestIsValid /\ Distance(e) = num_valid)
      BY <1>2, <2>1 DEF One
  <2>. QED BY <2>2, <2>3, <2>4
<1>11. IdxOf(e)' = IdxOf(e)
    BY DEF IdxOf
<1>. QED BY <1>7, <1>8, <1>9, <1>10, <1>11 DEF Entry

\* The place of a dequeued entry is free for the next trip: the bit it leaves
\* behind has the other meaning.
LEMMA NextTripStep ==
    ASSUME NEW cnt, NEW enq, NEW deq, Step(cnt, enq, deq), deq,
           NEW e \in t_epoch_idx, Distance(e) = N_ENTRIES
    PROVE  Entry(e)'
<1>1. IInv /\ rdy /\ oldest \in t_epoch_idx /\ Entries
    BY DEF Step, IInv, TypeOK, Running
<1>2. IdxOf(e) = IdxOf(oldest) /\ TagFor(e) # TagFor(oldest)
    BY <1>1, Trips, Distances DEF Distance
<1>3. /\ Filled(oldest) /\ ~Written(oldest) /\ oldest \notin outstanding
      /\ Distance(oldest) = 0
    BY OldestFilled
<1>4. One(deq) = 1 /\ One(TestIsValid) \in 0..1 /\ e # oldest
    BY <1>3, Sizes DEF One
<1>5. ~Filled(e)'
  <2>1. /\ Filled(e)' <=> validBits'[IdxOf(e)] = TagFor(e)
        /\ validBits'[IdxOf(oldest)] = TagFor(oldest)
    <3>1. Filled(e)' <=> validBits'[IdxOf(e)] = TagFor(e)
        BY DEF Filled, IdxOf, TagFor
    <3>2. validBits' = IF enq_q.en THEN [validBits EXCEPT ![enq_q.idx] = ValidWData] ELSE validBits
        BY <1>1 DEF Step, Edge, ValidBitRegs, ValidBitsNext
    <3>3. IdxOf(oldest) \in t_idx /\ validBits \in [t_idx -> 0..1]
        BY <1>1, Distances DEF IInv, TypeOK
    <3>4. validBits'[IdxOf(oldest)] = validBits[IdxOf(oldest)]
        BY <1>3, <3>2, <3>3 DEF Written
    <3>. QED BY <1>3, <3>1, <3>4 DEF Filled
  <2>. QED BY <1>2, <2>1
<1>6. e \notin outstanding
    BY <1>1, Sizes DEF Entries
<1>7. ~Written(e)'
  <2>1. \/ enq = NoEnq
        \/ \E f \in outstanding : enq.en /\ enq.idx = IdxOf(f)
      BY DEF Step, EnvCycle
  <2>2. Written(e)' <=> enq.en /\ enq.idx = IdxOf(e)
    <3>1. enq_q' = enq
        BY DEF Step, Edge, ValidBitRegs
    <3>2. IdxOf(e)' = IdxOf(e)
        BY DEF IdxOf
    <3>. QED BY <3>1, <3>2 DEF Written
  <2>3. \A f \in outstanding : IdxOf(f) # IdxOf(oldest)
    <3>1. \A f \in outstanding : f \in t_epoch_idx /\ EpochSub(f, oldest) < N_ENTRIES
        BY <1>1 DEF Entries, Distance, IInv, TypeOK
    <3>2. EpochSub(oldest, oldest) < N_ENTRIES
        BY <1>3, Sizes DEF Distance
    <3>. QED BY <1>1, <1>3, <3>1, <3>2, Places
  <2>. QED BY <1>2, <2>1, <2>2, <2>3 DEF NoEnq
<1>8. Distance(e)' = N_ENTRIES - 1
    BY <1>4, DistanceNext, Sizes
<1>9. e \in outstanding' => Distance(e)' < InFlight'
  <2>1. e \in outstanding' => e \in Allocated(cnt)
      BY <1>6 DEF Step, EnvCycle
  <2>2. e \in Allocated(cnt) => Distance(e) < InFlight + cnt
      BY AllocatedEntries
  <2>3. InFlight' = InFlight + cnt - 1 /\ InFlight \in Nat /\ cnt \in Nat
    <3>1. InFlight' = InFlight + cnt - One(deq) /\ InFlight \in 0..N_ENTRIES
          /\ cnt \in 0..MAX_ALLOC_PER_CYCLE
        BY Flight
    <3>. QED BY <1>4, <3>1, Sizes
  <2>. QED BY <1>8, <2>1, <2>2, <2>3, Sizes
<1>10. num_valid' <= N_ENTRIES - 1 /\ num_valid' \in Int
  <2>1. num_valid' = num_valid - 1 + One(TestIsValid)
      BY <1>4, CountStep
  <2>2. TestIsValid => num_valid < InFlight
      BY <1>1, TestFinds
  <2>3. num_valid \in Nat /\ num_valid <= InFlight /\ InFlight \in 0..N_ENTRIES
      BY <1>1, TestedTypes
  <2>4. TestIsValid \/ One(TestIsValid) = 0
      BY DEF One
  <2>. QED BY <1>4, <2>1, <2>2, <2>3, <2>4, Sizes
<1>. QED BY <1>5, <1>7, <1>8, <1>9, <1>10, Sizes DEF Entry

\* All entries.
LEMMA EntriesStep ==
    ASSUME NEW cnt, NEW enq, NEW deq, Step(cnt, enq, deq)
    PROVE  Entries'
<1>1. IInv /\ rdy /\ oldest \in t_epoch_idx /\ Entries /\ outstanding \subseteq t_epoch_idx
    BY DEF Step, IInv, TypeOK, Running
<1>2. ASSUME NEW e \in t_epoch_idx, Distance(e)' < N_ENTRIES PROVE Entry(e)'
  <2>1. Distance(e) \in t_epoch_idx
        /\ Distance(e)' = IF deq THEN IF e = oldest THEN 2 * N_ENTRIES - 1 ELSE Distance(e) - 1
                          ELSE Distance(e)
      BY DistanceNext
  <2>2. Distance(e) < N_ENTRIES \/ (deq /\ Distance(e) = N_ENTRIES)
      BY <1>2, <2>1, Sizes DEF t_epoch_idx
  <2>. QED BY <1>2, <2>2, EntryStep, NextTripStep
<1>3. ASSUME NEW e \in outstanding' PROVE Distance(e)' < N_ENTRIES
  <2>1. /\ InFlight \in Nat /\ cnt \in Nat /\ InFlight + cnt <= N_ENTRIES
      BY Flight, Sizes
  <2>2. CASE e \in Allocated(cnt)
    <3>1. e \in t_epoch_idx /\ InFlight <= Distance(e) /\ Distance(e) < InFlight + cnt
        BY <2>2, AllocatedEntries
    <3>2. e = oldest => ~deq
      <4>1. deq => InFlight > 0 /\ Distance(oldest) = 0
          BY Flight, OldestFilled
      <4>. QED BY <2>1, <3>1, <4>1
    <3>. QED BY <2>1, <3>1, <3>2, DistanceNext, Sizes DEF t_epoch_idx
  <2>3. CASE e \in outstanding
    <3>1. e \in t_epoch_idx /\ Distance(e) < N_ENTRIES
        BY <1>1, <2>3 DEF Entries
    <3>2. e = oldest => ~deq
        BY <2>3, OldestFilled
    <3>. QED BY <3>1, <3>2, DistanceNext, Sizes DEF t_epoch_idx
  <2>4. e \in outstanding \/ e \in Allocated(cnt)
      BY <1>3 DEF Step, EnvCycle
  <2>. QED BY <2>2, <2>3, <2>4
<1>. QED BY <1>2, <1>3 DEF Entries

-----------------------------------------------------------------------------
(* All steps                                                               *)

\* After an edge with reset_n low.
LEMMA ResetStep ==
    ASSUME IInv, ResetEdge
    PROVE  IInv'
<1>1. TypeOK /\ (rst > 0 => ~rdy)
    BY DEF IInv
<1>2. PICK enq \in Enqs :
        /\ Edge(FALSE, 0, enq, FALSE)
        /\ \/ rst = 0 /\ rst' = RESET_CYCLES - 1 /\ outstanding' = {}
           \/ rst > 0 /\ rst' = rst - 1 /\ outstanding' = outstanding /\ enq = NoEnq
  <2>1. NoEnq \in Enqs
      BY DEF Enqs
  <2>2. CASE /\ rst = 0 /\ rst' = RESET_CYCLES - 1 /\ outstanding' = {}
             /\ Edge(FALSE, 0, NoEnq, FALSE)
      BY <2>1, <2>2
  <2>3. CASE /\ rst = 0 /\ rst' = RESET_CYCLES - 1 /\ outstanding' = {}
             /\ \E e \in outstanding : \E d \in Response(e) :
                  Edge(FALSE, 0, [en |-> TRUE, idx |-> IdxOf(e), data |-> d], FALSE)
    <3>0. PICK e \in outstanding : \E d \in Response(e) :
                  Edge(FALSE, 0, [en |-> TRUE, idx |-> IdxOf(e), data |-> d], FALSE)
        BY <2>3
    <3>1. PICK d \in Response(e) :
                  Edge(FALSE, 0, [en |-> TRUE, idx |-> IdxOf(e), data |-> d], FALSE)
        BY <3>0
    <3>2. [en |-> TRUE, idx |-> IdxOf(e), data |-> d] \in Enqs
        BY <1>1, Answers DEF TypeOK
    <3>. QED BY <2>3, <3>1, <3>2
  <2>4. CASE rst > 0 /\ rst' = rst - 1 /\ outstanding' = outstanding
             /\ Edge(FALSE, 0, NoEnq, FALSE)
      BY <2>1, <2>4
  <2>. QED BY <2>2, <2>3, <2>4 DEF ResetEdge
<1>3. TypeOK'
  <2>1. Registers'
    <3>1. Registers /\ 0 \in 0..MAX_ALLOC_PER_CYCLE
        BY <1>1, Sizes DEF TypeOK, Registers
    <3>. QED BY <1>2, <3>1, EdgeTypes
  <2>2. rst' \in 0..RESET_CYCLES - 1 /\ outstanding' \subseteq t_epoch_idx
      BY <1>1, <1>2, Sizes DEF TypeOK
  <2>. QED BY <2>1, <2>2 DEF TypeOK, Registers
<1>4. ~rdy'
    BY <1>2 DEF Edge, ValidBitRegs
<1>5. Starting'
  <2>1. /\ newest' = 0 /\ oldest' = 0 /\ valid_tag' = 1 /\ num_valid' = 0 /\ ~notEmpty'
        /\ test_valid_idx' = Zero /\ test_valid_bank' = 0 /\ test_valid_tgt' = 1
        /\ waddr_init' = 0
      BY <1>2 DEF Edge, AllocRegs, ValidTagRegs, ValidBitRegs, TestRegs, CountRegs, Zero
  <2>2. outstanding' = {}
      BY <1>1, <1>2 DEF IInv, Starting
  <2>3. CASE rst = 0
      BY <1>2, <2>1, <2>2, <2>3, Sizes DEF Starting, Zero
  <2>4. CASE rst > 0
    <3>1. Starting /\ ~rdy /\ enq = NoEnq
        BY <1>1, <1>2, <2>4 DEF IInv
    <3>2. oldest_q' = 0 /\ valid_tag_q' = 1 /\ enq_q' = NoEnq
        BY <1>2, <3>1 DEF Edge, AllocRegs, ValidTagRegs, ValidBitRegs, Starting
    <3>3. in_space_avail' = N_ENTRIES
        BY <1>2, <3>1, Sizes
        DEF Edge, AllocRegs, Starting, SpaceAvailNext, EpochAdd, EpochSub
    <3>4. ~notFull'
        BY <1>2, <3>1 DEF Edge, AllocRegs, NotFullNext
    <3>5. validBits' = [i \in t_idx |-> IF i \div 2 = 0 THEN 0 ELSE validBits[i]]
        BY <1>2, <2>4, <3>1 DEF Edge, ValidBitRegs, ValidBitsNext, Starting
    <3>6. 0 \in t_idx /\ 1 \in t_idx /\ 0 \div 2 = 0 /\ 1 \div 2 = 0
        BY Sizes DEF t_idx
    <3>7. validBits'[0] = 0 /\ validBits'[1] = 0
        BY <3>5, <3>6
    <3>8. test_valid_idx_q' = Zero
        BY <1>2, <3>1 DEF Edge, TestRegs, Starting
    <3>9. test_valid_value_q' = Zero
      <4>1. /\ test_valid_value_q' = [b \in Banks |-> ValidBitsNext[2 * test_valid_idx[b] + b]]
            /\ validBits' = ValidBitsNext
          BY <1>2 DEF Edge, TestRegs, ValidBitRegs
      <4>2. \A b \in Banks : 2 * test_valid_idx[b] + b = b
          BY <3>1 DEF Starting, Zero, Banks
      <4>3. \A b \in Banks : validBits'[b] = 0
          BY <3>7 DEF Banks
      <4>. QED BY <4>1, <4>2, <4>3 DEF Zero
    <3>10. \A i \in t_idx : ~(i \div 2 < waddr_init')
        BY <2>1, Sizes DEF t_idx
    <3>11. Zero' = Zero
        BY DEF Zero
    <3>. QED BY <2>1, <2>2, <3>2, <3>3, <3>4, <3>7, <3>8, <3>9, <3>10, <3>11 DEF Starting
  <2>. QED BY <1>1, <2>3, <2>4, Sizes DEF TypeOK
<1>. QED BY <1>3, <1>4, <1>5 DEF IInv

\* While the valid bits are initialized no request comes, and when they are
\* done the buffer is empty and every bit says so.
LEMMA StartStep ==
    ASSUME IInv, ~rdy, NEW cnt \in 0..MAX_ALLOC_PER_CYCLE, NEW enq \in Enqs, NEW deq \in BOOLEAN,
           EnvCycle(cnt, enq, deq), Edge(TRUE, cnt, enq, deq)
    PROVE  (rdy' => Running') /\ (~rdy' => Starting')
<1>1. Starting /\ rst = 0 /\ rst' = 0 /\ TypeOK
    BY DEF IInv, EnvCycle
<1>2. /\ newest = 0 /\ oldest = 0 /\ valid_tag = 1 /\ num_valid = 0 /\ ~notEmpty
      /\ outstanding = {}
      /\ test_valid_idx = Zero /\ test_valid_bank = 0 /\ test_valid_tgt = 1
      /\ oldest_q = 0 /\ valid_tag_q = 1 /\ enq_q = NoEnq
      /\ in_space_avail = N_ENTRIES /\ ~notFull
      /\ test_valid_idx_q = Zero /\ test_valid_value_q = Zero
      /\ validBits[0] = 0 /\ validBits[1] = 0
      /\ \A i \in t_idx : i \div 2 < waddr_init => validBits[i] = 0
    BY <1>1, Sizes DEF Starting
<1>3. cnt = 0 /\ deq = FALSE /\ enq = NoEnq /\ outstanding' = {}
  <2>1. cnt = 0 /\ deq = FALSE
      BY <1>2 DEF EnvCycle
  <2>2. enq = NoEnq /\ outstanding' = outstanding \union Allocated(cnt)
      BY <1>2 DEF EnvCycle
  <2>3. Allocated(cnt) = {}
      BY <2>1 DEF Allocated
  <2>. QED BY <1>2, <2>1, <2>2, <2>3
<1>4. ~TestIsValid
  <2>1. test_valid_tgt # test_valid_value_q[test_valid_bank]
      BY <1>2 DEF Zero, Banks
  <2>2. ~TestValidBypass(test_valid_bank)
      BY <1>2 DEF TestValidBypass, NoEnq
  <2>. QED BY <2>1, <2>2 DEF TestIsValid
<1>5. /\ newest' = 0 /\ oldest' = 0 /\ oldest_q' = 0 /\ in_space_avail' = N_ENTRIES /\ ~notFull'
    BY <1>2, <1>3, Sizes
    DEF Edge, AllocRegs, SpaceAvailNext, NotFullNext, EpochAdd, EpochSub
<1>6. valid_tag' = 1 /\ valid_tag_q' = 1
    BY <1>2, <1>3 DEF Edge, ValidTagRegs
<1>7. /\ test_valid_idx' = Zero /\ test_valid_bank' = 0 /\ test_valid_tgt' = 1
      /\ test_valid_idx_q' = Zero
    BY <1>2 DEF Edge, TestRegs, Zero
<1>8. num_valid' = 0 /\ ~notEmpty'
  <2>1. num_valid' = 0 % (NUM_VALID_MAX + 1)
      BY <1>2, <1>3, <1>4 DEF Edge, CountRegs
  <2>2. notEmpty' <=> 0 % 2 = 1
      BY <1>2, <1>3, <1>4 DEF Edge, CountRegs
  <2>. QED BY <2>1, <2>2, Sizes
<1>9. /\ enq_q' = NoEnq
      /\ validBits' = [i \in t_idx |-> IF i \div 2 = waddr_init THEN 0 ELSE validBits[i]]
      /\ rdy' <=> waddr_init = (N_ENTRIES \div 2) - 1
      /\ ~rdy' => waddr_init' = waddr_init + 1
    BY <1>3 DEF Edge, ValidBitRegs, ValidBitsNext
<1>10. 0 \in t_idx /\ 1 \in t_idx /\ waddr_init \in 0..H - 1
    BY <1>1, Halves, Sizes DEF t_idx, TypeOK
<1>11. validBits'[0] = 0 /\ validBits'[1] = 0
    BY <1>2, <1>9, <1>10
<1>12. test_valid_value_q' = Zero
  <2>1. /\ test_valid_value_q' = [b \in Banks |-> ValidBitsNext[2 * test_valid_idx[b] + b]]
        /\ validBits' = ValidBitsNext
      BY DEF Edge, TestRegs, ValidBitRegs
  <2>2. \A b \in Banks : 2 * test_valid_idx[b] + b = b
      BY <1>2 DEF Zero, Banks
  <2>3. \A b \in Banks : validBits'[b] = 0
      BY <1>11 DEF Banks
  <2>. QED BY <2>1, <2>2, <2>3 DEF Zero
<1>13. \A i \in t_idx : i \div 2 < waddr_init + 1 => validBits'[i] = 0
    BY <1>2, <1>9, <1>10 DEF t_idx
<1>14. Zero' = Zero
    BY DEF Zero
<1>15. ~rdy' => Starting'
    BY <1>1, <1>3, <1>5, <1>6, <1>7, <1>8, <1>9, <1>11, <1>12, <1>13, <1>14, Sizes DEF Starting
<1>16. ASSUME rdy' PROVE Running'
  <2>1. \A i \in t_idx : validBits'[i] = 0
    <3>1. \A i \in t_idx : i \div 2 < H
        BY Halves
    <3>2. waddr_init + 1 = H
        BY <1>9, <1>10, <1>16, Halves DEF H
    <3>. QED BY <1>13, <3>1, <3>2
  <2>2. Space' /\ Trip' /\ Count'
    <3>1. EpochSub(0, 0) = 0 /\ TagFor(0) = 1
        BY Sizes DEF EpochSub, TagFor
    <3>2. /\ InFlight' = EpochSub(newest', oldest')
          /\ EpochSub(newest, oldest_q)' = EpochSub(newest', oldest_q')
          /\ TagFor(oldest)' = TagFor(oldest') /\ TagFor(oldest_q)' = TagFor(oldest_q')
        BY DEF InFlight, EpochSub, TagFor
    <3>. QED BY <1>5, <1>6, <1>8, <3>1, <3>2, Sizes DEF Space, Trip, Count
  <2>3. Search'
    <3>1. Tested' = 0
      <4>1. Tested' = EpochAdd(oldest', num_valid')
          BY DEF Tested, EpochAdd
      <4>. QED BY <1>5, <1>8, <4>1, Sizes DEF EpochAdd
    <3>2. IdxOf(Tested)' = 0 /\ TagFor(Tested)' = 1
        BY <3>1, Sizes DEF IdxOf, TagFor
    <3>3. Zero[0] = 0 /\ Zero[1] = 0
        BY DEF Zero, Banks
    <3>. QED BY <1>7, <1>11, <1>12, <3>2, <3>3 DEF Search
  <2>4. Entries'
    <3>1. \A e \in t_epoch_idx : Distance(e)' = e
      <4>1. \A e \in t_epoch_idx : Distance(e)' = EpochSub(e, oldest')
          BY DEF Distance, EpochSub
      <4>. QED BY <1>5, <4>1 DEF EpochSub, t_epoch_idx
    <3>2. ASSUME NEW e \in t_epoch_idx, e < N_ENTRIES PROVE Entry(e)'
      <4>1. TagFor(e)' = 1 /\ IdxOf(e)' = e /\ e \in t_idx
        <5>1. TagFor(e) = 1 /\ IdxOf(e) = e /\ e \in t_idx
            BY <3>2, Sizes DEF TagFor, IdxOf, t_idx, t_epoch_idx
        <5>2. TagFor(e)' = TagFor(e) /\ IdxOf(e)' = IdxOf(e)
            BY DEF TagFor, IdxOf
        <5>. QED BY <5>1, <5>2
      <4>2. ~Filled(e)'
          BY <2>1, <4>1 DEF Filled
      <4>3. ~Written(e)'
          BY <1>9 DEF Written, NoEnq
      <4>4. ~(Distance(e)' < num_valid')
          BY <1>8, <3>1 DEF t_epoch_idx
      <4>. QED BY <1>3, <4>2, <4>3, <4>4 DEF Entry
    <3>. QED BY <1>3, <3>1, <3>2 DEF Entries
  <2>. QED BY <2>2, <2>3, <2>4 DEF Running
<1>. QED BY <1>15, <1>16

\* The invariant holds after the memories are initialized.
LEMMA InitInv == Init => IInv
<1>. SUFFICES ASSUME Init PROVE IInv
    OBVIOUS
<1>1. TypeOK
  <2>1. NoEnq \in Enqs
      BY DEF Enqs
  <2>2. 0 \in BankIdx
      BY Halves
  <2>3. /\ rst \in 0..RESET_CYCLES - 1
        /\ newest \in t_epoch_idx /\ oldest \in t_epoch_idx /\ oldest_q \in t_epoch_idx
        /\ in_space_avail \in t_epoch_idx /\ num_valid \in 0..NUM_VALID_MAX
      BY Sizes DEF Init, t_epoch_idx
  <2>4. /\ validBits \in [t_idx -> 0..1]
        /\ test_valid_idx \in [Banks -> BankIdx] /\ test_valid_idx_q \in [Banks -> BankIdx]
        /\ test_valid_value_q \in [Banks -> 0..1]
        /\ memData \in [t_idx -> Data \union {NoData}]
      BY <2>2 DEF Init
  <2>5. /\ valid_tag \in 0..1 /\ valid_tag_q \in 0..1 /\ enq_q \in Enqs
        /\ waddr_init \in BankIdx /\ test_valid_tgt \in 0..1 /\ test_valid_bank \in 0..1
        /\ T2_first \in Data \union {NoData} /\ outstanding \subseteq t_epoch_idx
      BY <2>1, <2>2 DEF Init
  <2>6. notFull \in BOOLEAN /\ rdy \in BOOLEAN /\ notEmpty \in BOOLEAN
      BY DEF Init
  <2>. QED BY <2>3, <2>4, <2>5, <2>6 DEF TypeOK
<1>2. newest = 0 /\ oldest = 0 /\ oldest_q = 0 /\ num_valid = 0 /\ outstanding = {}
    BY DEF Init
<1>3. EpochSub(0, 0) = 0 /\ TagFor(0) = 1 /\ InFlight = 0 /\ Tested = 0 /\ IdxOf(0) = 0
    BY <1>2, Sizes DEF EpochSub, TagFor, InFlight, Tested, EpochAdd, IdxOf
<1>4. Space /\ Trip /\ Count
    BY <1>2, <1>3, Sizes DEF Init, Space, Trip, Count
<1>5. Search
  <2>1. 0 \in t_idx
      BY Sizes DEF t_idx
  <2>. QED BY <1>3, <2>1 DEF Init, Search, Banks
<1>6. Entries
  <2>1. ASSUME NEW e \in t_epoch_idx, Distance(e) < N_ENTRIES PROVE Entry(e)
    <3>1. Distance(e) = e
        BY <1>2 DEF Distance, EpochSub, t_epoch_idx
    <3>2. TagFor(e) = 1 /\ IdxOf(e) \in t_idx
        BY <2>1, <3>1, Sizes DEF TagFor, IdxOf, t_idx, t_epoch_idx
    <3>3. ~Filled(e) /\ ~Written(e)
        BY <3>2 DEF Init, Filled, Written, NoEnq
    <3>4. ~(Distance(e) < num_valid)
        BY <1>2, <3>1 DEF t_epoch_idx
    <3>. QED BY <1>2, <3>3, <3>4 DEF Entry
  <2>. QED BY <1>2, <2>1 DEF Entries
<1>. QED BY <1>1, <1>4, <1>5, <1>6 DEF Init, IInv, Running

\* A cycle in operation keeps the invariant.
LEMMA CycleStep ==
    ASSUME IInv, Cycle
    PROVE  IInv'
<1>1. TypeOK
    BY DEF IInv
<1>2. PICK cnt \in 0..MAX_ALLOC_PER_CYCLE, deq \in BOOLEAN, enq \in Enqs :
          EnvCycle(cnt, enq, deq) /\ Edge(TRUE, cnt, enq, deq)
    BY <1>1, CycleIsEdge
<1>3. Registers'
  <2>1. Registers
      BY <1>1 DEF TypeOK, Registers
  <2>. QED BY <1>2, <2>1, EdgeTypes
<1>4. rst' = 0
    BY <1>2 DEF EnvCycle
<1>5. CASE rdy
  <2>1. Step(cnt, enq, deq)
      BY <1>2, <1>5 DEF Step
  <2>2. rdy'
      BY <1>2, <1>5 DEF Edge, ValidBitRegs
  <2>3. outstanding' \subseteq t_epoch_idx
    <3>1. outstanding' \subseteq outstanding \union Allocated(cnt)
        BY <1>2 DEF EnvCycle
    <3>. QED BY <1>1, <2>1, <3>1, AllocatedEntries DEF TypeOK
  <2>4. TypeOK'
      BY <1>3, <1>4, <2>3, Sizes DEF TypeOK, Registers
  <2>5. Running'
      BY <2>1, Flight, TripStep, SearchStep, CountStep, EntriesStep DEF Running
  <2>. QED BY <1>4, <2>2, <2>4, <2>5 DEF IInv
<1>6. CASE ~rdy
  <2>1. (rdy' => Running') /\ (~rdy' => Starting')
      BY <1>2, <1>6, StartStep
  <2>2. outstanding' = {}
    <3>1. ~notFull /\ outstanding = {}
        BY <1>2, <1>6, Sizes DEF IInv, Starting, EnvCycle
    <3>2. cnt = 0 /\ Allocated(0) = {}
        BY <1>2, <3>1 DEF EnvCycle, Allocated
    <3>. QED BY <1>2, <3>1, <3>2 DEF EnvCycle
  <2>3. TypeOK'
      BY <1>3, <1>4, <2>2, Sizes DEF TypeOK, Registers
  <2>. QED BY <1>4, <2>1, <2>3 DEF IInv
<1>. QED BY <1>5, <1>6

\* Every step keeps the invariant.
LEMMA NextInv == IInv /\ [Next]_vars => IInv'
<1>1. ASSUME IInv, UNCHANGED vars PROVE IInv'
  <2>1. UNCHANGED <<rst, newest, oldest, oldest_q, in_space_avail, notFull, valid_tag,
                    valid_tag_q, enq_q, validBits, rdy, waddr_init, test_valid_idx,
                    test_valid_idx_q, test_valid_value_q, test_valid_tgt, test_valid_bank,
                    num_valid, notEmpty, memData, T2_first, outstanding>>
      BY <1>1 DEF vars, allocVars, validVars, testVars
  <2>2. TypeOK'
      BY <1>1, <2>1 DEF IInv, TypeOK
  <2>3. Starting' <=> Starting
      BY <2>1 DEF Starting, Zero
  <2>4. (Space' <=> Space) /\ (Trip' <=> Trip) /\ (Count' <=> Count)
      BY <2>1 DEF Space, Trip, Count, InFlight, EpochSub, EpochAdd, TagFor
  <2>5. Search' <=> Search
      BY <2>1 DEF Search, Tested, EpochAdd, IdxOf, TagFor, H
  <2>6. Entries' <=> Entries
      BY <2>1
      DEF Entries, Entry, Distance, Filled, Written, InFlight, EpochSub, IdxOf, TagFor
  <2>. QED BY <1>1, <2>1, <2>2, <2>3, <2>4, <2>5, <2>6 DEF IInv, Running
<1>. QED BY <1>1, CycleStep, ResetStep DEF Next

\* The invariant holds always.
LEMMA Invariance == Spec => []IInv
BY InitInv, NextInv, PTL DEF Spec

-----------------------------------------------------------------------------
(* The theorems                                                            *)

\* Every register and memory of the buffer keeps its range.
THEOREM TypesHold == Spec => []TypeOK
<1>1. IInv => TypeOK
    BY DEF IInv
<1>. QED BY <1>1, Invariance, PTL

\* A requester that obeys notFull, late as it is, never overruns the buffer:
\* there is room for the largest allocation (ofs_plat_prim_rob_ctrl).
THEOREM RoomWhenNotFull == Spec => []AllocNeverOverruns
<1>1. IInv => AllocNeverOverruns
  <2>. SUFFICES ASSUME IInv, notFull, rst = 0
                PROVE  /\ InFlight + MAX_ALLOC_PER_CYCLE <= N_ENTRIES
                       /\ MAX_ALLOC_PER_CYCLE <= in_space_avail
      BY DEF AllocNeverOverruns
  <2>1. rdy /\ TypeOK /\ Space
      BY Sizes DEF IInv, Starting, Running
  <2>2. in_space_avail > MIN_FREE_SLOTS /\ in_space_avail \in Int
      BY <2>1 DEF Space, TypeOK, t_epoch_idx
  <2>3. InFlight <= N_ENTRIES - in_space_avail /\ InFlight \in Int
      BY <2>1, Sizes DEF TypeOK, Space, InFlight, EpochSub, EpochAdd, t_epoch_idx
  <2>. QED BY <2>2, <2>3, Sizes
<1>. QED BY <1>1, Invariance, PTL

\* notEmpty agrees with the count of ready entries, and what is counted is in
\* the data memory: a dequeue never reads ahead of the delayed write.
THEOREM ReadyIsReadable == Spec => []ReadyEntriesAreReadable
<1>1. IInv => ReadyEntriesAreReadable
  <2>. SUFFICES ASSUME IInv, rst = 0
                PROVE  /\ notEmpty = (num_valid > 0)
                       /\ num_valid <= InFlight
                       /\ \A k \in 0..num_valid - 1 :
                            /\ EpochAdd(oldest, k) \notin outstanding
                            /\ ~(enq_q.en /\ enq_q.idx = IdxOf(EpochAdd(oldest, k)))
      BY DEF ReadyEntriesAreReadable
  <2>1. notEmpty \in BOOLEAN /\ oldest \in t_epoch_idx
      BY DEF IInv, TypeOK
  <2>2. CASE rdy
    <3>1. Count /\ Entries /\ num_valid \in Nat /\ num_valid <= InFlight
          /\ InFlight \in 0..N_ENTRIES
        BY <2>2, TestedTypes DEF IInv, Running
    <3>2. notEmpty = (num_valid > 0)
        BY <2>1, <3>1 DEF Count
    <3>3. ASSUME NEW k \in 0..num_valid - 1
          PROVE  /\ EpochAdd(oldest, k) \notin outstanding
                 /\ ~(enq_q.en /\ enq_q.idx = IdxOf(EpochAdd(oldest, k)))
      <4>1. k \in t_epoch_idx /\ k < N_ENTRIES /\ k < num_valid
          BY <3>1, Sizes DEF t_epoch_idx
      <4>2. EpochAdd(oldest, k) \in t_epoch_idx /\ Distance(EpochAdd(oldest, k)) = k
          BY <2>1, <4>1, Distances DEF Distance
      <4>3. Entry(EpochAdd(oldest, k)) /\ Filled(EpochAdd(oldest, k))
          BY <3>1, <4>1, <4>2 DEF Entries, Entry
      <4>. QED BY <4>3 DEF Entry, Written
    <3>. QED BY <3>1, <3>2, <3>3
  <2>3. CASE ~rdy
    <3>1. num_valid = 0 /\ ~notEmpty /\ newest = 0 /\ oldest = 0
        BY <2>3 DEF IInv, Starting
    <3>2. InFlight = 0
        BY <3>1 DEF InFlight, EpochSub
    <3>. QED BY <2>1, <3>1, <3>2
  <2>. QED BY <2>2, <2>3
<1>. QED BY <1>1, Invariance, PTL

-----------------------------------------------------------------------------
(* The refinement                                                          *)

\* An entry that stays in flight keeps its response, or receives it.
LEMMA SlotStep ==
    ASSUME NEW cnt, NEW enq, NEW deq, Step(cnt, enq, deq),
           NEW e \in t_epoch_idx, Distance(e) < N_ENTRIES
    PROVE  /\ SlotOf(e)' = SlotOf(e) \/ (SlotOf(e) = NoData /\ SlotOf(e)' \in Data)
           /\ Distance(e) >= InFlight => SlotOf(e)' = NoData
<1>1. IInv /\ rdy /\ Entry(e)
    BY DEF Step, IInv, Running, Entries
<1>2. SlotOf(e) = IF Written(e) THEN enq_q.data ELSE IF Filled(e) THEN memData[IdxOf(e)] ELSE NoData
    BY DEF SlotOf, Written, Filled
<1>3. SlotOf(e)' = IF Written(e)' THEN enq_q'.data
                   ELSE IF Filled(e)' THEN memData'[IdxOf(e)] ELSE NoData
  <2>1. IdxOf(e)' = IdxOf(e)
      BY DEF IdxOf
  <2>. QED BY <2>1 DEF SlotOf, Written, Filled
<1>4. Filled(e)' <=> Filled(e) \/ Written(e)
    BY FilledNext
<1>5. Written(e)' => e \in outstanding /\ enq_q'.data \in Data
  <2>1. enq_q' = enq /\ enq \in Enqs
      BY DEF Step, EnvCycle, Edge, ValidBitRegs
  <2>2. Written(e)' => enq_q'.en
      BY DEF Written
  <2>. QED BY <2>1, <2>2, Answered, Writes
<1>6. /\ memData' = IF enq_q.en THEN [memData EXCEPT ![enq_q.idx] = enq_q.data] ELSE memData
      /\ IdxOf(e) \in t_idx /\ memData \in [t_idx -> Data \union {NoData}]
    BY <1>1, Sizes DEF Step, Edge, MemDataRegs, IInv, TypeOK, t_epoch_idx, t_idx, IdxOf
<1>7. CASE Written(e)
  <2>1. memData'[IdxOf(e)] = enq_q.data
      BY <1>6, <1>7 DEF Written
  <2>2. ~Written(e)'
      BY <1>1, <1>5, <1>7 DEF Entry
  <2>3. ~(Distance(e) >= InFlight)
      BY <1>1, <1>7, Flight, DistanceNext, Sizes DEF Entry, t_epoch_idx
  <2>. QED BY <1>2, <1>3, <1>4, <1>7, <2>1, <2>2, <2>3
<1>8. CASE ~Written(e) /\ Filled(e)
  <2>1. memData'[IdxOf(e)] = memData[IdxOf(e)]
      BY <1>6, <1>8 DEF Written
  <2>2. ~Written(e)'
      BY <1>1, <1>5, <1>8 DEF Entry
  <2>3. ~(Distance(e) >= InFlight)
      BY <1>1, <1>8, Flight, DistanceNext, Sizes DEF Entry, t_epoch_idx
  <2>. QED BY <1>2, <1>3, <1>4, <1>8, <2>1, <2>2, <2>3
<1>9. CASE ~Written(e) /\ ~Filled(e)
  <2>1. Distance(e) >= InFlight => ~Written(e)'
      BY <1>1, <1>5, Flight, DistanceNext, Sizes DEF Entry, t_epoch_idx
  <2>. QED BY <1>2, <1>3, <1>4, <1>5, <1>9, <2>1
<1>. QED BY <1>7, <1>8, <1>9

\* The queue of slots before and after an edge, by the entries.
LEMMA SlotsNext ==
    ASSUME InFlight \in Nat, InFlight' \in Nat
    PROVE  /\ Len(Slots) = InFlight
           /\ DOMAIN Slots = 1..InFlight
           /\ \A k \in 1..InFlight : Slots[k] = SlotOf(EpochAdd(oldest, k - 1))
           /\ Len(Slots') = InFlight'
           /\ \A k \in 1..InFlight', e \in t_epoch_idx :
                 e = EpochAdd(oldest', k - 1) => Slots'[k] = SlotOf(e)'
<1>1. Slots' = [k \in 1..InFlight' |-> SlotOf(EpochAdd(oldest, k - 1))']
    BY DEF Slots
<1>2. ASSUME NEW k, NEW e, e = EpochAdd(oldest', k - 1)
      PROVE  SlotOf(EpochAdd(oldest, k - 1))' = SlotOf(e)'
    BY <1>2 DEF SlotOf, IdxOf, TagFor, EpochAdd
<1>3. \A k \in 1..InFlight', e \in t_epoch_idx :
          e = EpochAdd(oldest', k - 1) => Slots'[k] = SlotOf(e)'
    BY <1>1, <1>2
<1>4. Len(Slots) = InFlight /\ DOMAIN Slots = 1..InFlight
    BY DEF Slots
<1>5. Len(Slots') = InFlight'
    BY <1>1
<1>6. \A k \in 1..InFlight : Slots[k] = SlotOf(EpochAdd(oldest, k - 1))
    BY DEF Slots
<1>. QED BY <1>3, <1>4, <1>5, <1>6

\* An empty buffer is an empty queue.
LEMMA NoSlots == ASSUME InFlight = 0 PROVE Slots = <<>>
BY DEF Slots

\* An edge in operation is a cycle of the queue of slots.
LEMMA StepImplements ==
    ASSUME NEW cnt, NEW enq, NEW deq, Step(cnt, enq, deq)
    PROVE  Abstract!AbsCycle
<1>. DEFINE gone == One(deq)
<1>1. /\ IInv /\ rdy /\ deq \in BOOLEAN /\ oldest \in t_epoch_idx
      /\ gone \in 0..1 /\ (gone = 1 <=> deq)
    BY DEF Step, EnvCycle, IInv, TypeOK, One
<1>2. /\ InFlight \in Nat /\ InFlight' \in Nat /\ cnt \in 0..MAX_ALLOC_PER_CYCLE
      /\ InFlight + cnt <= N_ENTRIES /\ (deq => InFlight > 0)
      /\ InFlight' = InFlight - gone + cnt
      /\ oldest' = IF deq THEN EpochAdd(oldest, 1) ELSE oldest
  <2>1. /\ InFlight \in 0..N_ENTRIES /\ cnt \in 0..MAX_ALLOC_PER_CYCLE
        /\ InFlight + cnt <= N_ENTRIES /\ (deq => InFlight > 0)
        /\ InFlight' = InFlight + cnt - gone
        /\ oldest' = IF deq THEN EpochAdd(oldest, 1) ELSE oldest
      BY Flight
  <2>. HIDE DEF gone
  <2>. QED BY <1>1, <2>1, Sizes
<1>. HIDE DEF gone
<1>3. /\ Len(Slots) = InFlight /\ DOMAIN Slots = 1..InFlight
      /\ \A k \in 1..InFlight : Slots[k] = SlotOf(EpochAdd(oldest, k - 1))
      /\ Len(Slots') = InFlight'
      /\ \A k \in 1..InFlight', e \in t_epoch_idx :
            e = EpochAdd(oldest', k - 1) => Slots'[k] = SlotOf(e)'
    BY <1>2, SlotsNext
<1>4. ASSUME deq
      PROVE  /\ Slots # <<>> /\ Head(Slots) = memData[IdxOf(oldest)] /\ Head(Slots) # NoData
  <2>1. 1 \in 1..InFlight
      BY <1>2, <1>4
  <2>2. EpochAdd(oldest, 1 - 1) = oldest
      BY <1>1, Sizes DEF EpochAdd, t_epoch_idx
  <2>3. Slots[1] = SlotOf(oldest)
      BY <1>3, <2>1, <2>2
  <2>4. SlotOf(oldest) = memData[IdxOf(oldest)] /\ memData[IdxOf(oldest)] \in Data
      BY <1>4, OldestFilled DEF SlotOf, Filled, Written
  <2>5. Slots # <<>> /\ Head(Slots) = Slots[1]
      BY <1>3, <2>1
  <2>6. NoData \notin Data
      BY RobAssumption DEF RobAssumption
  <2>. QED BY <2>3, <2>4, <2>5, <2>6
<1>5. T2_first' = IF gone = 1 THEN Head(Slots) ELSE NoData
  <2>1. T2_first' = IF deq THEN memData[IdxOf(oldest)] ELSE NoData
      BY DEF Step, Edge, MemDataRegs
  <2>. QED BY <1>1, <1>4, <2>1
<1>6. ASSUME NEW k \in 1..Len(Slots')
      PROVE  LET was == IF k + gone <= Len(Slots) THEN Slots[k + gone] ELSE NoData
             IN  \/ Slots'[k] = was
                 \/ was = NoData /\ k + gone <= Len(Slots) /\ Slots'[k] \in Data
  <2>. DEFINE d == k - 1 + gone
  <2>1. /\ k \in Nat /\ k >= 1 /\ k <= InFlight'
        /\ d \in 0..N_ENTRIES - 1 /\ (gone = 1 => d >= 1)
      BY <1>1, <1>2, <1>3, Sizes
  <2>2. PICK e \in t_epoch_idx : e = EpochAdd(oldest, d) /\ Distance(e) = d
    <3>1. d \in t_epoch_idx
        BY <2>1, Sizes DEF t_epoch_idx
    <3>. HIDE DEF d
    <3>. QED BY <1>1, <3>1, Distances DEF Distance
  <2>3. e = EpochAdd(oldest', k - 1)
    <3>1. CASE deq
      <4>1. /\ k - 1 \in 0..N_ENTRIES /\ 1 \in 0..N_ENTRIES /\ 1 + (k - 1) = d
            /\ oldest' = EpochAdd(oldest, 1)
          BY <1>1, <1>2, <2>1, <3>1, Sizes
      <4>2. EpochAdd(EpochAdd(oldest, 1), k - 1) = EpochAdd(oldest, 1 + (k - 1))
          BY <1>1, <4>1, Sums
      <4>. QED BY <2>2, <4>1, <4>2
    <3>2. CASE ~deq
      <4>1. gone = 0 /\ oldest' = oldest
          BY <1>1, <1>2, <3>2
      <4>2. d = k - 1
          BY <2>1, <4>1
      <4>. QED BY <2>2, <4>1, <4>2
    <3>. QED BY <3>1, <3>2
  <2>4. Slots'[k] = SlotOf(e)'
      BY <1>3, <2>2, <2>3
  <2>5. /\ SlotOf(e)' = SlotOf(e) \/ (SlotOf(e) = NoData /\ SlotOf(e)' \in Data)
        /\ d >= InFlight => SlotOf(e)' = NoData
    <3>1. Distance(e) < N_ENTRIES
        BY <2>1, <2>2, Sizes
    <3>. QED BY <2>2, <3>1, SlotStep
  <2>6. CASE k + gone <= Len(Slots)
    <3>1. k + gone \in 1..InFlight /\ (k + gone) - 1 = d
        BY <1>1, <1>3, <2>1, <2>6
    <3>2. Slots[k + gone] = SlotOf(e)
        BY <1>3, <2>2, <3>1
    <3>. QED BY <2>4, <2>5, <2>6, <3>2
  <2>7. CASE ~(k + gone <= Len(Slots))
    <3>1. d >= InFlight
        BY <1>1, <1>2, <1>3, <2>1, <2>7
    <3>. QED BY <2>4, <2>5, <2>7, <3>1
  <2>. QED BY <2>6, <2>7
<1>7. Len(Slots') = Len(Slots) - gone + cnt /\ Len(Slots) + cnt <= N_ENTRIES
    BY <1>2, <1>3
<1>8. gone = 1 => Slots # <<>> /\ Head(Slots) # NoData
    BY <1>1, <1>4
<1>. QED BY <1>1, <1>2, <1>5, <1>6, <1>7, <1>8 DEF Abstract!AbsCycle

\* The buffer delivers the responses in the order of the requests, each with
\* its own data and once, as the queue of slots does.
THEOREM DeliversInOrder == Spec => OrderedDelivery
<1>1. Init => Abstract!AbsInit
  <2>. SUFFICES ASSUME Init PROVE Abstract!AbsInit
      OBVIOUS
  <2>1. InFlight = 0
      BY DEF Init, InFlight, EpochSub
  <2>. QED BY <2>1, NoSlots DEF Init, Abstract!AbsInit
<1>2. IInv /\ [Next]_vars => [Abstract!AbsNext]_(Abstract!absVars)
  <2>. SUFFICES ASSUME IInv, [Next]_vars PROVE Abstract!AbsNext \/ UNCHANGED Abstract!absVars
      OBVIOUS
  <2>1. CASE Cycle
    <3>1. PICK cnt \in 0..MAX_ALLOC_PER_CYCLE, deq \in BOOLEAN, enq \in Enqs :
              EnvCycle(cnt, enq, deq) /\ Edge(TRUE, cnt, enq, deq)
        BY <2>1, CycleIsEdge DEF IInv
    <3>2. CASE rdy
        BY <3>1, <3>2, StepImplements DEF Step, Abstract!AbsNext
    <3>3. CASE ~rdy
      <4>1. ~notFull /\ ~notEmpty /\ newest = 0 /\ oldest = 0
          BY <3>1, <3>3, Sizes DEF IInv, Starting, EnvCycle
      <4>2. newest' = 0 /\ oldest' = 0 /\ T2_first' = NoData
          BY <3>1, <4>1, Sizes DEF EnvCycle, Edge, AllocRegs, MemDataRegs, EpochAdd
      <4>3. InFlight' = 0
          BY <4>2 DEF InFlight, EpochSub
      <4>4. Slots' = <<>>
          BY <4>3 DEF Slots
      <4>. QED BY <4>2, <4>4 DEF Abstract!AbsNext, Abstract!AbsReset
    <3>. QED BY <3>2, <3>3
  <2>2. CASE ResetEdge
    <3>1. newest' = 0 /\ oldest' = 0 /\ T2_first' = NoData
        BY <2>2 DEF ResetEdge, Edge, AllocRegs, MemDataRegs
    <3>2. InFlight' = 0
        BY <3>1 DEF InFlight, EpochSub
    <3>3. Slots' = <<>>
        BY <3>2 DEF Slots
    <3>. QED BY <3>1, <3>3 DEF Abstract!AbsNext, Abstract!AbsReset
  <2>3. CASE UNCHANGED vars
    <3>1. UNCHANGED <<newest, oldest, enq_q, validBits, memData, T2_first>>
        BY <2>3 DEF vars, allocVars, validVars, testVars
    <3>2. Slots' = Slots
        BY <3>1 DEF Slots, SlotOf, InFlight, EpochAdd, EpochSub, IdxOf, TagFor
    <3>. QED BY <3>1, <3>2 DEF Abstract!absVars
  <2>. QED BY <2>1, <2>2, <2>3 DEF Next
<1>. QED BY <1>1, <1>2, Invariance, PTL DEF Spec, OrderedDelivery, Abstract!AbsSpec
=============================================================================
