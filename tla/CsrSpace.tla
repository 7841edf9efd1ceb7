------------------------------- MODULE CsrSpace -------------------------------
(***************************************************************************)
(* The CSR space of a test AFU, as software names it (plat_if_tests/common/ *)
(* sw/csr_mgr.h, csr_mgr.c) and as hardware decodes it (common/hw/rtl/     *)
(* csr_mgr.sv).  Indices are in units of 64 bits.                          *)
(***************************************************************************)
EXTENDS Integers

\* t_csr_enum
CSR_RD_CTRL_CONFIG_INFO == 16
CSR_RD_CTRL_ENG_RUN_MASK == 17
CSR_RD_CTRL_ENG_ACTIVE_MASK == 18
CSR_RD_CTRL_ENG_CYCLES == 19
CSR_RD_CTRL_ENG_PCLK_CYCLES == 20
CSR_WR_CTRL_ENG_ENABLE_MASK == 16
CSR_WR_CTRL_ENG_DISABLE_MASK == 17
CSR_ENG_GLOB_BASE == 32
CSR_ENG_BASE == 1024

MAX_NUM_ENGINES == 64
CsrIdx == 0..15      \* the registers of an engine, and the global ones

\* csrEngRead and csrEngWrite: what they accept, and the index they compute,
\* CSR_ENG_BASE | (eng_num << 4) | idx.
EngAccepted(e, idx) == e <= 64 /\ idx <= 16
OrBit0(n, bit) == IF bit = 1 /\ n % 2 = 0 THEN n + 1 ELSE n
EngIndex(e, idx) ==
    CSR_ENG_BASE + 16 * OrBit0(e % 64, idx \div 16) + (idx % 16)

\* csrEngGlobRead accepts only idx <= 16, csrEngGlobWrite anything.
GlobAccepted(idx) == idx <= 16
GlobIndex(idx) == CSR_ENG_GLOB_BASE + idx

\* The hardware: 12 bits of the index, then one of its four spaces.
Space(index) ==
    LET i == index % 4096
    IN  IF i \div 16 = 0 THEN "dfh"
        ELSE IF i \div 16 = 1 THEN "control"
        ELSE IF i \div 16 = 2 THEN "global"
        ELSE IF i \div 1024 = 1 THEN "engine"
        ELSE "none"
EngineOf(index) == (index \div 16) % 64
RegisterOf(index) == index % 16
=============================================================================
