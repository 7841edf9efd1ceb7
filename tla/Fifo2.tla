------------------------------- MODULE Fifo2 --------------------------------
(***************************************************************************)
(* ofs_plat_prim_fifo2: a FIFO of two registers, the skid buffer of most   *)
(* ready/enable interfaces.  Slot 1 is the output, slot 0 holds a second   *)
(* value while the output waits.  A state is a record of the two arrays.   *)
(***************************************************************************)
EXTENDS Naturals, Sequences

Fifo2States(Data) == [valid : [0..1 -> BOOLEAN], data : [0..1 -> Data]]

Fifo2Empty(d) == [valid |-> [s \in 0..1 |-> FALSE], data |-> [s \in 0..1 |-> d]]

Fifo2NotFull(f) == ~f.valid[0]
Fifo2NotEmpty(f) == f.valid[1]
Fifo2First(f) == f.data[1]

\* The values held, oldest first.
Fifo2Contents(f) ==
    (IF f.valid[1] THEN <<f.data[1]>> ELSE <<>>)
      \o (IF f.valid[0] THEN <<f.data[0]>> ELSE <<>>)

Fifo2Members(f) == {f.data[s] : s \in {s \in 0..1 : f.valid[s]}}

Fifo2Distinct(f) == f.valid[0] /\ f.valid[1] => f.data[0] # f.data[1]

\* Slot 0 is used only while slot 1 is.
Fifo2InOrder(f) == f.valid[0] => f.valid[1]

\* One rising edge out of reset.  The output slot is the target when it is
\* empty or dequeued; slot 0 stores whatever is on its input while it is free.
Fifo2Next(f, enq_en, enq_data, deq_en) ==
    LET load == ~f.valid[1] \/ deq_en
    IN [valid |-> [s \in 0..1 |->
                     IF s = 0 THEN ~load /\ (f.valid[0] \/ enq_en)
                     ELSE f.valid[0] \/ enq_en \/ ~load],
        data  |-> [s \in 0..1 |->
                     IF s = 0 THEN IF f.valid[0] THEN f.data[0] ELSE enq_data
                     ELSE IF ~load THEN f.data[1]
                     ELSE IF f.valid[0] THEN f.data[0] ELSE enq_data]]

=============================================================================
