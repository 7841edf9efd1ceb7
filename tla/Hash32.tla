-------------------------------- MODULE Hash32 --------------------------------
(***************************************************************************)
(* The hash by which a test compares what an engine has read with what was *)
(* in memory: common/sw/hash32.c, and register by register the same as     *)
(* common/hw/rtl/hash32.sv.  A word is its 32 bits.                        *)
(***************************************************************************)
EXTENDS Integers

Bits == 0..31
Word == [Bits -> {0, 1}]
Xor(a, b) == IF a = b THEN 0 ELSE 1

\* HASH32_DEFAULT_INIT and the INITIAL_VALUE of the hardware, 0x14d6.
HASH32_DEFAULT_INIT == [i \in Bits |-> IF i \in {1, 2, 4, 6, 7, 10, 12} THEN 1 ELSE 0]

\* The bits into which bit 0 of the old hash goes, besides bit 31.
Taps == {0, 1, 2, 4, 6}

\* The old hash moves down by a bit and the new data is added.
Rotated(value) ==
    [i \in Bits |-> IF i = 31 THEN value[0]
                    ELSE IF i \in Taps THEN Xor(value[i + 1], value[0])
                    ELSE value[i + 1]]
hash32(cur_hash, data) == [i \in Bits |-> Xor(data[i], Rotated(cur_hash)[i])]
=============================================================================
