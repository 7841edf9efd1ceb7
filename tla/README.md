# Verification of the OFS platform interface manager

The repository generates the *platform interface manager* (PIM): SystemVerilog
that stands between an FPGA interface manager (FIM), which talks PCIe TLPs, and
the user's accelerator (AFU), which talks AXI, Avalon or CCI-P.  It also holds
*test programs*: C programs that open accelerators through the OPAE library and
drive test AFUs made to exercise the PIM.  This directory holds TLA+ models of
the PIM's concurrent hardware and of the test programs with the AFUs they
control, the TLC configurations that check them, and TLAPS proofs.  Paths of the
PIM are relative to `src/plat_if_develop/ofs_plat_if/src/rtl/`, those of the tests
(`common/`, `host_chan_params/`, `host_chan_intr/`...) to `src/plat_if_tests/`.

1. [The system](#the-system): inventory of components
2. [The models](#the-models): which module stands for which code
3. [What the runs check](#what-the-runs-check): runs, bounds, fairness
4. [What is proved](#what-is-proved)
5. [What is not modelled](#what-is-not-modelled)
6. [Plan](#plan)

Run a model with `tlc -config MCRob.cfg MCRob`, a proof with `tlapm UidProofs.tla`.

## The system

A memory request of the AFU passes a chain of AXI (or Avalon) shims, reaches one
of the TLP engines, is arbitrated onto the PCIe stream of the FIM, and its
response comes back through the engine and the shims:

    AFU --> bursts, atomics, reorder buffer --> read / write / MMIO engine --> arbiter --> FIM
        <-- clock crossing, credits         <-- (tags, completions)        <---------  host

In the PIM, all communication is by *valid/ready* (or *en/notFull*) handshakes: nothing is
shared but wires.  The concurrency is that of pipelines: every register changes
at each clock edge, decisions are taken on values that are one or two cycles
old, and the AFU, the FIM and the host answer whenever and in whichever order
they like.  The PIM has no crash recovery, no persistence and no retry; its one
exceptional event is reset, at any time.

A test program finds accelerators by their identity and place (`connect.c`),
opens them, and controls the AFU in each through the CSR manager: posted writes
and reads of 64-bit registers (`csr_mgr.c`, `csr_mgr.sv`):

    main: arguments --> connect --> CSR handles --> test --> close
                          |                          |  enable, poll, disable, read results
                     OPAE, other programs       CSR manager --> engines --> PIM

Here the concurrency is between programs, which compete for accelerators;
between a program and hardware that it sees only through registers that lag
behind; and between threads, interrupts and timeouts (`test_host_chan_intr.c`).
Calls fail, processes die from assertions, and what was under way then arrives
in the next run.

### Components

| Component | State | Operations | Hard behaviour | Correct when |
|---|---|---|---|---|
| Reorder buffer `utils/prims/..rob.sv` | pointers with epoch bits, two banks of valid bits, search pointer, count of ready entries, payload RAM | allocate n entries, write a response, dequeue the oldest | `notFull` two registers late; valid bits change meaning on each trip; payload written a cycle late | responses leave in request order, once, each with its own payload; the ring never overruns; the head becomes ready |
| Id generator `uid.sv` | busy memory, its initialization, search pointer, output FIFO, release register | allocate, free | memory with one write port; search, release and reset race | no id given twice, none lost, free ones are found |
| Two-entry FIFO, skids `fifo2.sv`, `ready_enable_skid.sv` | two registers | enqueue, dequeue | both in one cycle | order, nothing lost |
| Tagged RAM `tagged_ram.sv` | ids, write register, RAM, read pipeline | store a value and get a tag; read; free | registered write against the tag of the next cycle | the tag returns the value stored under it |
| Read engine `..gen_rd_tlps.sv` | request FIFO, tags, meta-data by tag, count of completed lines by tag, response register | request, completion, fence completion, atomic tag, release | split and interleaved completions in two encodings; the stream is shared with fences; back-pressure | each read gets its lines in order and once; tags outlive their completions; every read is answered |
| Write engine `..gen_wr_tlps.sv` | request register, fence tags and meta-data, four sources of responses | write, atomic, fence, interrupt, and their completions | four sources race for one FIFO; fences without an address are answered locally | one answer per request, of its own tag and kind |
| TX arbitration `..map_to_tlps.sv`, `arb_rr.sv` | round-robin base, lock, write timeout, skid | grant, lock, drop poisoned packets | packets of many beats against back-pressure; throttle on writes against deadlock | packets whole, no beat lost, writes and MMIO proceed |
| Bandwidth weights `..learning_weight.sv`, `lfsr.sv` | counters, random bits | decide who may compete | none that correctness rests on | a heuristic |
| MMIO engine `..gen_mmio_tlps.sv` | outstanding reads by tag, response FIFOs | host read/write, AFU response | tag reuse, RAM latency against response order | each MMIO read is answered to its requester with its data |
| FIM gaskets `gasket_pcie_ss`, `gasket_ea_ofs_fim` | alignment registers | pack and unpack headers | a packet ends in the middle of a bus word | streams keep packets and headers together |
| Buffered FIFOs `fifo_buffer.sv`, `fifo_lutram.sv` | RAM, counters, registered `almostFull` | enqueue, dequeue | slack against latency | no overflow |
| Dual clock FIFO, reorder buffer `fifo_dc.sv`, `rob_dc.sv` | Gray pointers (vendor cell), index FIFO | as above on two clocks | index and payload cross the clocks apart | a ready entry has its payload |
| AXI reorder/crossing `base_ifcs/axi/prims/..async_rob.sv`, `..rsp_credits.sv` | credits, two reorder buffers | take credits, return them | credits come back registers after their response; widths by cast | no response without room, credits conserved |
| Burst mapping `..map_bursts.sv`, gearboxes | burst under way, `NO_REPLY` flags | split, merge responses | page and size boundaries | the pieces cover the burst, one response each |
| AXI request shims: atomics, wlast, meta-data | pairing flags, beat counters, tagged RAM | forward, add a dummy read | two channels that must step together | pairs and packets stay together |
| Connection `common/sw/connect.c` | handles, tokens, `num_handles`, the recorded answer about simulation; in OPAE, who has which accelerator open | search, open some, connect to one, probe | another program opens an accelerator between search and open; some opens fail; an assertion ends the process | a test runs on accelerators that are its own and wanted, and none is left open |
| Mains and command lines `*/sw/main.c` | target, mode, number of accelerators, CSR handles | parse, connect, allocate, test, close | many ways out | status 0 means tested; each run ends |
| CSR manager `common/hw/rtl/csr_mgr.sv`, `common/sw/csr_mgr.c` | state machine, masks of engines in reset and running, pipelines, cycle counters | enable, disable, configure, read masks and counters | commands are ignored while engines start; masks lag behind | no command lost; counters read while they stand still; each index reaches the register it names |
| Engine runs `host_chan_params/sw/test_host_chan_params.c` | the test under way, engines of all accelerators | configure, start, poll, stop, read | the *active* mask is low before engines start and after they end, and for two cycles in between | results are read when final; engines idle when reset; every test ends |
| Interrupt test `host_chan_intr/` | a thread and an event per vector, the AFU's sender and counter | create, trigger, join, count responses | timeouts, late interrupts and responses of an earlier run | the verdict is true |
| Read hash `common/sw/hash32.c`, `hash32.sv` | none | hash of 32 bits of a line onto a hash | none | equal hashes mean what the test concludes from them |
| Virtual channel muxes, CCI-P shims, bridges, local memory, clocks, HSSI | see `PROJECT.json` | | | |

The hazards (the places where these behaviours bite, with the properties that
watch them) are listed in `PROJECT.json`, each at its line.

## The models

In the modules of the PIM one action is one rising edge of `clk`: each register takes its next value from
registers and inputs before the edge, as in the `always_ff` blocks, and each
combinational signal is an operator of the signal's name.  Inputs are chosen
under `\E` in the action `Cycle`; `Reset` (`ResetEdge` in `Rob`) is an edge with
`reset_n` low.  Memories and registers that the code does not reset keep what
they had or take what the inputs of that edge give them, so that what an
interrupted run leaves behind is there when operation begins again.

| Module | Code | Contents |
|---|---|---|
| `Rob` | `rob.sv`, `lutram.sv`, `ram_simple.sv` | every register of the buffer and its controller, the two banks of valid bits with their initialization, the RAM's write register |
| `OrderedResponses` | what `Rob` promises | a queue of slots: append, fill any, deliver the oldest |
| `Fifo2` | `fifo2.sv` | operators on the two registers; used by all others |
| `Uid` | `uid.sv`, `lutram.sv` | operators and variables of the generator; a module that extends it supplies the inputs of `UidEdge` |
| `TaggedRam` | `tagged_ram.sv` | `Uid` plus the registered write and the read; the simplest user of `Uid` |
| `TaggedStore` | what `TaggedRam` promises | values under tags |
| `ReadTlps` | `..gen_rd_tlps.sv`, header mapping of the gasket | `Uid` with the engine's registers and memories, composed with the AFU, the host and the write engine's fence register |
| `ReadPort` | what the AFU's read port promises | lines owed per tag; deliver the next line of any |
| `WriteTlps` | `..gen_wr_tlps.sv` | `Uid` for fence tags, the engine's registers, the AFU, the FIM and the host |
| `WritePort` | what the AFU's write port promises | a set of answers owed, each given once |
| `TxArb` | `..map_to_tlps.sv`, `arb_rr.sv` | arbiter, lock, throttle, skid, poison drop, with three engines that offer packets |
| `Connect` | `connect.c`, over OPAE | `connectToMatchingAccels` step by step for each of several processes, OPAE's tokens and owners |
| `HostPrograms` | the five `main.c` | `parse_args` of each and `main`, from start to return, over `Connect` |
| `CsrSpace` | `csr_mgr.h`, `csr_mgr.c`, `csr_mgr.sv` | the indices software computes and hardware decodes |
| `CsrMgr` | `csr_mgr.sv`, `csr_mgr.c`, `clock_counter.sv`, the engine's state of `host_mem_rdwr_engine_axi.sv`, `counter_multicycle.sv` | commands, state machine, pipelines, counters, engines and what they know of their requests; the accessors |
| `EngineRuns` | `test_host_chan_params.c`, `csrGetClockMHz` | the program's tests of small regions and of bandwidth, over `CsrMgr` |
| `IntrTest` | `test_host_chan_intr.c`, `host_chan_intr/hw/rtl/axi/afu.sv` | main thread, waiting threads, AFU, interrupts and responses under way |
| `Hash32` | `hash32.c`, `hash32.sv` | the hash of a word, bit by bit |
| `RobProofs` | | theorems about `Rob`, refinement included |
| `TestSwProofs` | | theorems about `Hash32`, `CsrSpace`, `IntrTest` and `EngineRuns` |
| `HostProgramsProofs` | | theorems about `HostPrograms` and `Connect` |
| `UidProofs` | | lemmas about `Fifo2`; theorems about `Uid` in any environment |
| `TaggedRamProofs` | | theorems about `TaggedRam`, refinement included |
| `TxArbProofs` | | theorems about `TxArb`: winners and packets; the beats of each stream |
| `ReadTlpsProofs` | | theorems about `ReadTlps`, refinement included |
| `WriteTlpsProofs` | | theorems about `WriteTlps`, refinement included |
| `MC*` | | instances for TLC |

`ReadTlps` and `WriteTlps` are joined by two signals, and each models the other's
side of them: the fence completion register of the write engine is a variable of
`ReadTlps`, and the tag of an atomic request is the input `atomic_tvalid` of
`WriteTlps`.  The operators of `WriteTlps` and `TxArb` are joined by the beat in
`tx_wr_tlps`, and by the drop of poisoned packets, which `WriteTlps` does in
`FimEdge` and `TxArb` does in detail.

Environments.  The AFU keeps the handshakes and does not use a tag again before
it is answered.  The host may split each read into packets at any line, begin a
packet for any read when the previous packet is out, encode completions either
way, and complete fences and interrupts in any order.  A reset resets the AFU,
the host and the FIM with the PIM, so no completion of the time before arrives
after it; the code assumes the same.

In the modules of the test programs an action is a call that another actor can
interleave with (a library call, a CSR read, a thread's step) together with what
the program does up to the next one.  `CsrMgr` has the accelerator's clock as the
action `Tick`: a cycle in which memory accepts the requests of some engines that
ask and answers some that wait.  Writes arrive between cycles.

* `Connect`: OPAE hands out tokens for accelerators in use as well, opens an
  accelerator for one process at a time, and closes what a dead process had
  open.  Whether an accelerator is a simulated one comes from two property calls
  whose results the code does not look at (connect.c:142-146), and in
  `probeForASE` from a management engine that may be missing: any answer may be
  recorded, and `TestRunsOnItsAccels` says that a test goes by the recorded one.
  Every call whose result the code tests can fail.  When a search fails,
  `num_matches` has not been written (connect.c:119), so any value may be read.
* `CsrMgr`: a program has one outstanding CSR read, which follows the writes
  before it, and two of its reads are at least `RoundTrip` cycles apart.  Sleeping
  (`usleep`, a tenth of a second) is modelled by what it makes sure of: the
  registers have settled (`Settled`).

Two history variables, which nothing reads but properties, belong to the engines'
*active* flags.  The flag (host_mem_rdwr_engine_axi.sv:706-713) is set while
requests are left to make or counters of requests and responses differ.  The
counters are late: a register (`incr`), then two in `counter_multicycle`
(`low`, `value`), while *left* is counted at the edge that accepts a request.  An
engine is `Hidden` when its flag is low although its counters have something on
the way to them.  `hiddenPipe` carries `Hidden` beside the flags through the
registers to the CSR, and `misled` remembers that a wait of the program ended on
such a flag.

Where data is abstracted:
* `Rob`: the meta-data RAM (same address, write and latency as the payload) is
  left out.  `num_valid` has 2 bits in the run and 3 in the code, so that it
  saturates within 8 entries.
* `ReadTlps`: an address is the AFU tag of its request, so a line is known by
  request and index.  Byte counts are counted in lines and wrap where the 10-bit
  length in dwords wraps.  The RCB fields (a bus wider than a read completion
  boundary) and virtual channels are left out.
* `WriteTlps`: payloads, addresses, byte enables and the operand order of atomics
  are left out; whether an address is known (`last_wr_addr_valid`) is kept.
* `HostPrograms`: an argument is an option with a number, with something that is
  not a number, or with nothing; a test's verdict is a free choice.
* `CsrMgr`, `EngineRuns`: masks are sets, the cycle counters are whether they have
  moved since they were last read, and an engine is one stream of requests: what it
  has left, what it has in flight, which test configured it, and what its counters
  show, as the difference of requests and responses.  (The code has such
  counters for reads, in bursts and in lines, and for writes, all of the same
  delay.  A response comes in one piece, and the fence that ends a
  series of writes is left out.)  The engines of a test are
  configured in an order that is left open: each has a register of its own.
* `TxArb`: the learned weights and the presence of read tags are free inputs, and
  a beat is its stream, its number, *last* and *poison*.

## What the runs check

| Run | Instance | Shows |
|---|---|---|
| `rob` | 8 entries, 2 per cycle, slack 4, reset of 2 edges | `AllocNeverOverruns`: `notFull`, late as it is, leaves room for the largest allocation. `ReadyEntriesAreReadable`: no entry is ready before its payload is in the RAM. `OrderedDelivery`: refines `OrderedResponses`. `OldestBecomesReady`, `EmptyBecomesAvailable`: progress |
| `tagged_ram` | 4 ids, 1 reserved, 2 values | `UidsAreExclusive`, `NoUidIsLost`, `FreeUidIsOffered`; `ReadsReturnWhatWasStored`: refines `TaggedStore` |
| `read_tlps` | 3 AFU tags, 2 PCIe tags and 1 fence tag, reads of 1 and 4 lines, atomics | `TagsOutliveCompletions`, `OneTagPerRead`, `NoResponseBehindFence`, `CountsStartFromZero`; `LinesInOrder`: refines `ReadPort` |
| `read_tlps_live` | 2 AFU tags, 1 PCIe tag | `EveryReadIsAnswered` |
| `write_tlps` | 2 fence tags, 2 AFU tags, 3 answers waited for | `FenceTagsNameTheirFence`, `OneAnswerUnderWay`; `EachAnsweredOnce`: refines `WritePort` |
| `tx_arb_shared` | one stream, timeout 2, packets of 1 and 2 beats | `OneWinner` (the code's own assertion), `StreamsKeepTheirBeats`, `PacketsStayWhole` |
| `tx_arb_separate` | separate read stream, timeout 1 | `WritesProceed`, `MmioProceeds` |
| `host_programs` | 2 processes, 3 accelerators at 2 buses, at most 2 tokens, 3 accelerators allowed | `TestRunsOnItsAccels`, `NothingLeftBehind`, `ZeroStatusMeansTested`; `EveryRunEnds` |
| `engine_runs` | accelerators of 2 engines and of 1, of which one is left out; small regions of the first, bandwidth of both | `ResetFindsEngineIdle`, `ResultsAreFinal`, `ClockReadsAgree` and `RunsEnd`, each unless a late counter has misled the program; `NoCommandIsLost` |
| `engine_flag` | one accelerator of 2 engines, small regions, `RoundTrip` 12 | `LowFlagMeansDone` is violated: a finding, below |
| `engine_mask` | two accelerators of one engine, mask of the second | `RunsEnd` is violated: a finding, below |
| `intr_test` | 3 vectors, 2 tests, 2 polls for responses | `VerdictIsTrue`, and that nothing waits for ever on anything (deadlock is checked) |

Each run also checks the module's `TypeOK` (the liveness runs leave it to the
safety run of the same module, and `IntrTest` has none).  For every property there is a
mutated operator next to the original (`\* Mutant of ...`) with which the
property fails: it stands for a plausible slip in the RTL.

### Why the bounds are enough

* `rob`: 8 entries are the fewest that leave room for an allocation of 2 above a
  slack of 4.  The pointers go round twice before the epoch bits repeat, and the
  state space has every alignment of the pointers, both meanings of a valid bit
  in both banks, and a saturated `num_valid`.  A payload is its entry's index
  with the epoch bit, so a payload of an earlier trip is noticed.
* `tagged_ram`: with three ids to issue and four to search, the search can be on
  a busy, free or just released id, one id can wait in the FIFO while another is
  allocated, and the pointer wraps to 1 above the reserved id.
* `read_tlps`: two tags are what interleaving needs; a third request then waits
  for a tag.  Four lines can be split in one to four packets, and
  4 lines are the length that wraps.  AFU tags are interchangeable, so the run
  uses their permutations as a symmetry set; `LinesInOrder` is a safety property
  (initial states and steps), for which the reduction is sound.
  `read_tlps_live` checks liveness and uses none.
* `write_tlps`: two fences can be outstanding and complete in either order, while
  a write, an atomic or an interrupt competes.
* `tx_arb_*`: two beats make a packet that has to hold the lock, with a gap
  before its second beat.  The timeout is 16 in the code.  With 1 and 2 the
  counter reaches its top bit and wraps many times.

* `host_programs`: two processes are what a race between search and open needs,
  one of them running any of the five programs with every kind of argument.  At
  two buses, a target selects one, two or no accelerators; with at most 2 tokens
  (16 in the code) and 3 accelerators both limits cut in.  Processes run again
  and again.
* `engine_runs`: the mask's bits are beyond the engines of the first accelerator,
  and one of its engines is left out; its engine has other settings in the next
  test.  Pipelines have 2 stages or 1, where the code has 4 and 3: more stages
  only delay what the program sees, and the assumption ties `RoundTrip` to them.
  `HoldCycles` is 3 for 15.  An engine has one request in flight at a time
  (`MaxOut`), which is when its flag can be low too early.  The run does not follow
  a program that was misled (`CONSTRAINT NotMisled`): apart from `TypeOK` and
  `NoCommandIsLost`, its properties hold of any state with `misled` and of
  any behaviour that reaches one, and of a behaviour that never does all states are
  kept.  For the safety properties the theorems of `TestSwProofs` have neither
  these bounds nor the constraint.
* `engine_flag`: a `RoundTrip` of 12 cycles has the engine start well before the
  second read of a poll, as in hardware, where a round trip is hundreds of cycles.
  `engine_runs` meets such programs as well, with its short `RoundTrip`.
* `intr_test`: the count has the width the AFU gives it (`$clog2` of the vectors,
  plus one), which holds the responses of two tests.  Two tests are what a late
  interrupt or response needs.

### Fairness

* The clock ticks.  In `Rob` this is weak fairness of `QuietCycle`, an edge at
  which nothing is asked of the buffer; in `TaggedRam` and `ReadTlps` it is weak
  fairness of `Cycle`.  A reset is always possible and never forced: progress
  has to come from the clock, and properties that a reset may cut short say so.
* `ReadTlps`: the arbiter accepts a TLP, the write engine an atomic tag or a
  fence completion, the AFU a response (weak fairness of the edges on which they
  do): all three consumers are registers or FIFOs whose own progress is required
  by the valid/ready protocol.  The host finishes a packet it has begun (weak)
  and answers every read, whatever else it sends (strong, per tag): PCIe
  guarantees completions of accepted reads, and the host's choice is not
  continuously enabled while the stream is busy with other packets.
* `TxArb`: the FIM does not refuse a beat for ever, and MMIO and write engines
  finish packets they have begun.  Nothing is assumed of read tags or weights:
  that is why `WritesProceed` needs `force_allow_wr`.  With a shared stream the
  weights may, as far as the model knows, hold back a stream for ever, so
  liveness is checked for the separate read stream, where they are not used.

* `HostPrograms`: a process goes on running (weak fairness of its next step) and
  its command line ends.  Nothing is assumed about other processes, so
  `EveryRunEnds` says that none waits for another: an open accelerator makes
  `fpgaOpen` fail, it does not block.
* `EngineRuns`: the program runs, clocks tick, posted writes arrive, and the
  memory system takes requests and answers them (weak fairness of `Accepts` and
  `Answers`, for each engine): the PIM and the host owe these.  The choice to give
  up is never forced, so `RunsEnd` does
  not hold because tests time out.
* `IntrTest` states none: deadlock is what could go wrong, since every wait in it
  has a limit or waits for a thread that has one.

### Findings

* **A mask that skips an accelerator hangs `host_chan_params`** (run
  `engine_mask`).  `runBandwidth` sends the engine mask, whose bits are global
  engine numbers, unshifted to every accelerator, and waits until the last one
  has an engine enabled (test_host_chan_params.c:862-876).  With one engine per
  accelerator, `--latency=2 --max-accels=2` enables none and waits for ever; the
  help says that the mask selects engines (host_chan_params/sw/main.c:47).
  `configBandwidth` does map a global number to the accelerator's own.
* **An engine's *active* flag goes low while its last request is in flight** (run
  `engine_flag`).  The flag compares counters that are three registers late
  (host_mem_rdwr_engine_axi.sv:708-712, 766-778; counter_multicycle.sv:24-31),
  but `rd_done`, by which it knows that nothing is left to request, is set at the
  edge that accepts the last request (357).  With nothing else outstanding, as in
  every test of a single burst, the flag is low for two cycles.  The comment in
  `testSmallRegions` says that execution is done when the active flag goes low
  (test_host_chan_params.c:691-692); a poll whose read meets these
  cycles (697-698, 901) ends the wait with the request in flight.  The results,
  or the clock counters, are then read early.  If the program then starts the
  next test before the response comes, an engine is reset with a request in
  flight, whose response is counted after the reset and keeps the flag set for
  ever.  A poll has to meet two cycles out of a run, so this is rare.  The code
  knows that the counters are late (634-637), in a check for simulation only.
  The other properties of the engine runs therefore say what holds of a program that
  was not misled in this way, and `NoCommandIsLost` of any.

What the models show beyond their properties:

* `ResultsAreFinal` rests on the time an MMIO read takes.  After the CSR manager
  shows an engine as enabled, its *active* flag follows `RunStages +
  ActiveStages` cycles later.  With `RoundTrip` below that, TLC finds a
  program that sees an engine enabled and not yet active, and reads results
  before the engine has begun.  The code says that reading the enabled mask
  "resolves a race" (test_host_chan_params.c:689-692): it does, with that time.
  The assumption is named `CsrMgrAssumption`.
* `csrEngRead` and its like accept the register number 16, one too many
  (csr_mgr.c:89, 105, 114); theorem `IndexSixteenIsRegisterZero` says where it
  leads.  No caller uses it.
* Differences between the help texts and the programs that no property is about:
  mask 6 is said to select engines 2 and 3 (host_chan_params/sw/main.c:48; bits 1
  and 2 are set); `--max-accels` opens that many accelerators without `--latency`
  too; `--verbose` of `host_chan_atomic` takes an argument although the help shows
  none (host_chan_atomic/sw/main.c:38, 56).
* `connectToMatchingAccels` does not destroy `accel_props` (connect.c:140-144),
  and the label `out_destroy` of `probeForASE` is never reached (204-206).

## What is proved

### Ids

`UidProofs.tla` proves three theorems about the id generator for every number of
ids and of reserved ids, in every environment that respects the interface (it
takes an id only when `alloc_ready` and releases only ids it holds).  `Uid` is
the base of `TaggedRam`, `ReadTlps` and `WriteTlps`, so all tags in the design
rest on it.

* `UidTypeCorrect`: registers keep their ranges; in particular the search
  pointer never points at a reserved id.
* `UidExclusion`: `[]UidsAreExclusive`: an id is never held twice, nor waits for
  a second user while held, nor is a reserved one issued.
* `UidConservation`: `[]NoUidIsLost`: after initialization the busy bits are
  exactly the ids held, waiting in the FIFO, or on their way back.

Neither property is inductive.  The invariant is `UidTypeOK`, with
`Fifo2InOrder` (the FIFO's second register is full only when its first is),
`Clearing` (while the memory is being initialized nothing is issued or held, no
release is pending, and all bits below the initialization pointer are clear),
`UidsAreExclusive` and `NoUidIsLost` together.  `Clearing` is what carries the
argument across a reset, when the memory is still full of old bits.  A step is
an edge (allocation, search, release, each with or without the others) or a
reset edge; the proof has one lemma for each memory update and FIFO transition
and one step per conjunct.

### Tagged RAM

`TaggedRamProofs.tla` first shows that every step of `TaggedRam` is a step of the
generator in such an environment (`TaggedRamUsesUid`), which gives
`TagsAreExclusive` without a new invariant.  On that rest `TaggedRamTypeCorrect`
and `TaggedRamImplementsStore`: `Spec => ReadsReturnWhatWasStored`, the
refinement of `TaggedStore` that the run checks, for every number of tags and
any set of values.  The refinement mapping takes the value of a tag from the
write register when the write of that tag is still in it and from the RAM
otherwise.  Exclusion of tags is what the step needs: the tag of the next value
cannot be one whose value is still read.

### Read engine

`ReadTlpsProofs.tla` proves every safety property that `read_tlps` checks, for any
number of PCIe tags, AFU tags and fence tags, any packet size, and any way in
which the host splits reads, interleaves their packets and encodes them:

* `ReadTypeCorrect`: `[]TypeOK`.
* `TagsOutlive`: `[]TagsOutliveCompletions`.
* `OneTagCorrect`: `[]OneTagPerRead`.
* `FenceAloneCorrect`: `[]NoResponseBehindFence`.
* `CountsCorrect`: `[]CountsStartFromZero`.
* `LinesArriveInOrder`: `Spec => LinesInOrder`, the refinement of `ReadPort`.

`OneTagPerRead` and `NoResponseBehindFence` are parts of the invariant `RInv`; the
others follow from it.  For a read with a PCIe tag it says where its lines are.
`InOrder`: what the host has put into packets (`Answered`) is what the AFU has
taken (`Given`) and what is in the response register, on the stream and in the
packet under way (`InRsp`, `InRx`, `InPacket`).  As the final line is only taken
when `Given` is one less than the length, nothing else of the read is anywhere
when its tag is released (`FreedRead`): this is why the tag may go to another
read in the same cycle.  `RspIsNext`, `BeatIsNext` and `PacketIsNext` say which
line is in each place; `Header`, `Counts` and `InProgress` say that what the
engine computes line numbers from agrees with it, in the header of either
encoding, in the memory of counts and in the register of an open packet.
`Reads`, `RequestQueue` and `OnTheWay` say that a PCIe tag in use leads to one
read of the AFU, which is in one place on its way to the host.  `Together` says
that the memory of counts is initialized in step with the generator's: the code
has two counters, and the valid bit of `tx_rd_tlps` looks at one of them while
the request leaves its FIFO by both.  `IInv` of the generator gives that the tag
on offer is not in use.

An edge moves a line from one place to the next.  `Flows` says how many lines an
edge moves for each read, and `AnsweredEdge` how many the host adds; the sums
are `InOrderEdge`.  `DecodedLine` shows that the engine finds the right line
number, which is where the widths come in: a length in dwords wraps at
`LEN_WRAP`, a line index at `MAX_PAYLOAD_LINES`, and the difference is still
right because the first is a multiple of the second (`LineIndex`).  `HostStays`
is why a flag read from the header of a packet may be kept for its later lines.
There is one lemma per part of the invariant.  For the refinement, `PortEdge`
shows that the next response is the next line of a read that the AFU still waits
for after the response it takes.

### Write engine

`WriteTlpsProofs.tla` proves every property that `write_tlps` checks, for any
number of fence tags, AFU tags and answers waited for:

* `WriteTypeCorrect`: `[]TypeOK`.
* `FenceTagsCorrect`: `[]FenceTagsNameTheirFence`.
* `OneAnswerCorrect`: `[]OneAnswerUnderWay`.
* `WritesAnsweredOnce`: `Spec => EachAnsweredOnce`, the refinement of `WritePort`.

None of them is inductive: the response to a fence comes from `fence_meta` by a
tag, so that it is one the AFU waits for depends on all the registers the fence
has passed.  The invariant `WInv` says where each answer is: `InOnePlace` counts
for every answer the places it can be in (request register, `tx_wr_tlps`, the
FIM's commits, fences and interrupts, the two completion registers and the three
FIFOs), and there is one if the AFU waits for it and none if not.  It needs
`Packets` (the beats of a packet stay together, so that the last beat, which has
no tag, belongs to the first beat's), `Queues` (nothing is twice in a queue) and
`FenceTags` (a fence tag in use is in one place, and its entry in `fence_meta`
is the fence's own).  `IInv` of the generator gives that the next fence tag is
not in use.

For each place a lemma says which answers an edge brings and takes away
(`ReqFlow`, `TxFlow`, `CommitsFlow`, `IrqsFlow`, `FencesFlow`, `FenceRegFlow`,
`IrqRegFlow`, `FakeFlow`, `StdFlow`, `AfuFlow`), and `InOnePlaceEdge` adds them
up: what leaves one place enters another.  Their counts, added up in `CountEdge`,
give `OneAnswerUnderWay`.  For the refinement, `ResponseEdge` shows that the next
response on the port is one still waited for.

### TX arbitration

`TxArbProofs.tla` proves the safety properties of `tx_arb_shared`, for packets of any length, any timeout, and with a separate read
stream as well as without:

* `TxOneWinner`: `[]OneWinner`, the code's own assertion;
* `TxPacketsStayWhole`: `PacketsStayWhole`;
* `TxStreamsKeepTheirBeats`: `[]StreamsKeepTheirBeats`;
* `TxTypeCorrect`: `[]TypeOK`.

The invariant `PInv` is about `LastBeat`, the beat that entered the skid buffer
last, or left it last.  `LockInv`: the lock names the stream of `LastBeat` if its
packet is open, and nothing otherwise.  `EngineInv`: each engine offers the beat
that its stream has to send next, which is the first unless it has the lock.
`ChainInv`: the beats in the skid buffer follow each other and the last beat the
FIM took.  A winner's beat then follows `LastBeat` (`WinnerFollows`), and a
poisoned beat can be dropped because a beat that may follow it may also follow
the one before it (`DroppedBeat`).  Locks and grants cannot coincide because a
grant needs the arbiter, which is off while there is a lock (`WinnersAre`).

For the beats of each stream the invariant `OwedInv` adds that reads with a
stream of their own never enter the skid buffer.  `SkidStream` says what an edge
does to the beats of a stream in the buffer, `EngineStream` what it does to those
of the engine, and `OwedEdge` puts the two together.

### Reorder buffer

`RobProofs.tla` proves every safety property of `Rob`, for every even number of
entries, every allocation and slack that leave room (`RobAssumption`), every
width of the ready count and any payloads:

* `TypesHold`: `[]TypeOK`.
* `RoomWhenNotFull`: `[]AllocNeverOverruns`.
* `ReadyIsReadable`: `[]ReadyEntriesAreReadable`.
* `DeliversInOrder`: `Spec => OrderedDelivery`, the refinement of
  `OrderedResponses`.

The invariant `IInv` relates what is late, or kept twice, to the pointers:

* `Space`: `in_space_avail` is the room as it was before the last release, and a
  set `notFull` means that it is still above `MIN_FREE_SLOTS`: one edge late, it
  can be off by one largest allocation, which the slack covers.
* `Trip`: `valid_tag` is the meaning of the oldest entry's valid bit.  An entry in
  flight whose index is below the oldest's belongs to the next trip
  (`TagsOfTrip`), so the bit written for a late response is its own entry's
  (`WriteMeans`), even when the oldest has left the last entry in between.
* `Search`: the tested bank and index name the first entry that is not counted,
  and the value read for it an edge ago is still its valid bit, unless the write
  register shows otherwise (`TestFinds`).
* `Count` and `Entries`: an entry has its response in the memory, or in the write
  register, or is owed one, or is not in flight, never two of these; what is
  counted is in the memory.  `num_valid`, which wraps at its width, never does
  (`CountStep`).  The bit that a dequeued entry leaves behind has the other
  meaning for the next trip (`NextTripStep`), and the search does not go round a
  full buffer a second time (`TestFinds`).

`Starting` takes the place of these from a reset until the valid bits are
initialized; some registers have no reset and follow an edge later.  For the
refinement, `SlotStep` shows that an entry keeps its response or receives it
while others enter and leave, and `StepImplements` that an edge is a cycle of the
queue of slots.

### Test programs

`TestSwProofs.tla` proves what the pure functions of the test programs give, that
the verdict of the interrupt test is true, and that the results which
`host_chan_params` reads from its engines are those of the test it has run, unless
late counters misled it.

* The hash of what an engine read is compared with that of memory.  Of each line
  32 bits are hashed, the highest and the lowest 16
  (host_mem_rdwr_engine_axi.sv:412-414): a *beat* here is this word, and a difference
  in the rest of a line shows in no hash.
  `WrongBeatShows`: different beats give different hashes.  `DifferenceStays`:
  `hash32` is one-to-one in the old hash, so a difference is carried through equal
  beats to the end.  `ExchangeShows`: two neighbouring beats that differ and
  arrive in the wrong order give a different hash, which is what the test of
  ordered responses is about.  For the last one, the difference of the two
  hashes would be a word that the rotation maps to itself, and the taps leave
  only zero (`OnlyZeroIsFixed`).
* `EngineCsrReached`, `GlobalCsrReached`: for every engine and register number in
  range, the hardware decodes the index that software computes as the same engine
  and register.  `IndexSixteenIsRegisterZero` is about the one number too many.
* `VerdictHolds`: `[]VerdictIsTrue` of `IntrTest` for every number of vectors.
  The verdict looks at counts at the end; the invariant `IntrInv` says how they
  come about.  `FailuresAreSeen`: what gave up is counted, or its thread is
  still to be joined.  `Undisturbed`: as long as nothing gave up, the interrupt
  of a vector is to be sent, under way, or signalled and read (`SignalledOnce`),
  and its response is to come, under way, or in the mask (`AnsweredOnce`), each
  exactly once.  So a thread finds one signal, the count of responses is that of
  the mask and does not wrap, because it has one bit more than an id, and when
  all have been counted nothing is left to disturb the next test.

The safety properties of `EngineRuns` are proved for any number of accelerators,
engines, tests, requests in flight and registers between them:

* `EngineTypes`: `[]TypeOK`.
* `CommandsTaken`: `NoCommandIsLost`, an action property.
* `ResetsOfIdleEngines`: `[]ResetFindsEngineIdle`.
* `ResultsFinal`: `[]ResultsAreFinal`, if `MaskAgrees` holds of every test: each
  engine that is configured is in the mask that all accelerators are sent.  For
  one accelerator it is so by definition; with several it may not be, which is
  the finding of run `engine_mask` seen from the other side.
* `ClockReads`: `[]ClockReadsAgree`.

The last three speak of a program that was not misled, and so the invariant has two
layers.  `OrderInv` (theorem `OrderInvariant`) holds of every program: types, and
the order of its commands at each accelerator (`Orderly`: none, sent, in the hands
of the state machine, on, told to stop).  It does not depend on the flags, because
the program disables engines only after it has seen them enabled, or has slept, and
enables again only after a CSR read behind the command that disables them;
this is what `CommandsTaken` rests on.  `Sound` (theorem `EngineRunsInvariant`:
`[](misled \/ Sound)`) adds what the program may conclude from flags.  `misled`
never becomes false again, so a step has to keep `Sound` only where a wait ends
on a flag that was not `Hidden`.

`Conserved` is what makes the counters usable: what an engine has in flight is
what the first two registers of its counters add up to, and the third, which the
flag looks at, is the second a cycle ago.  An engine that is neither shown active
nor `Hidden` has all three at zero, so nothing is in flight.  `Phase` says what
holds of an accelerator when the program is at each label: at rest; commands on
the wire, engines in reset, engines enabled (`Coming`); seen enabled (`Watched`);
done, slowing down or stopped.  `Watched` counts the cycles since the last read:
after `RunStages` of them the engines have the mask that was seen, and after
`ActiveStages` more an engine that is neither shown active nor too late to be has
nothing left to do, so that a program that reads again a round trip later and sees no
activity is right or misled (`DoneWhenIdle`).  `Slowing` says that after a command
to stop each register shows at most what the next one shows, too late ones
counted, so that an idle last register means idle engines (`StoppedWhenIdle`).
`ResetsAreSafe` says at which registers a reset may follow which run mask.
`Clock` counts the cycles in which the counters of the first accelerator are
still driven.

`RunAt(a, k)` is what register `k` holds, with the state machine itself as
register 0, and `ShownAt` the same for the flags, so that a cycle is one equation
for all registers (`TickStages`).  There is a lemma per phase about a step of
the hardware, two lemmas per action of the program (what it does to the order of
commands, and to the phase), and `Untouched` for the accelerators that a step
does not concern.  That every selected engine is configured rests on `InOrder`: a
finite set put in order loses none of its elements.

`HostProgramsProofs.tla` proves the four safety properties of `HostPrograms` for
any number of processes, accelerators and arguments, whichever process runs
which programs:

* `TypesHold`: `[]TypeOK`, in particular that no array is overrun.
* `TestsRunOnTheirAccels`: `[]TestRunsOnItsAccels`.
* `NothingIsLeftBehind`: `[]NothingLeftBehind`.
* `ZeroStatusIsEarned`: `[]ZeroStatusMeansTested`.

None of the four is inductive.  `IInv` says of each process at each point what it
holds (`Owns`, `Wanted`, `Holds`), how many of them (`Counted`, `Bounded`), and
what it has learnt (`Probed`, `Judged`).  Two facts make it inductive: an
accelerator belongs to a process exactly if it is among its handles, so one that
opens is not among them yet; and a loop that opened nothing has failed in every
round, so that the result says so.  A step leaves the other processes alone and
takes only accelerators that are nobody's or its own (`Others`), so each action
is looked at for its own process only (`OneProcess`).  There is one lemma per
action.

### Assumptions and limits

The assumptions are those of the modules on their constants (`UidAssumption`,
`RobAssumption`, `ReadTlpsAssumption`, `WriteTlpsAssumption`, `TxArbAssumption`,
`NoTlpAssumption`, `ConnectAssumption`, `HostAssumption`, `IntrAssumption`,
`CsrMgrAssumption`, `EngineRunsAssumption`, and `NothingAssumption` of each engine).  `NothingAssumption` says that the values for an empty register
(`NoReq`, `NoTlp`, `NoRsp` and so on), for which the code has valid bits, are not
values a register can hold.  Of `ReadTlpsAssumption`, the code has that the
lengths of an AFU's reads do not exceed the largest packet and that the largest
packet is a power of 2, which divides the 1024 dwords at which a length wraps.
Of `EngineRunsAssumption`, the code has that a test runs on distinct accelerators
(`connectToMatchingAccels` opens each once), and that only a test of small
regions, which has one accelerator, limits how much an engine is to request
(test_host_chan_params.c:840-843).  `CsrMgrAssumption` holds what is assumed of
time: between two reads of a program from one accelerator pass at least the cycles
of the registers to an engine and back, and of those to the counters.

All safety properties and action properties that the passing runs check are
proved; `LowFlagMeansDone`, which the code's comment claims, does not hold, and
`ResultsAreFinal` is what is left of it.  Only model-checked, because out of reach of the prover: liveness under
fairness and `ENABLED` (`RunsEnd` and its finding, `EveryRunEnds`, the progress
properties of the engines, the reorder buffer and the arbiter); anything that
needs induction over data, such as what a fold returns, of which the proofs use
only what one step of the program gives.

## What is not modelled

* `learning_weight` and `lfsr`: a bandwidth heuristic.  `TxArb` takes its outputs
  as free inputs, so its safety properties hold for any weights.
* Vendor IP (`utils/quartus_ip`), clock and reset cells, HSSI and interface
  bundles: wires, analog behaviour, or not this project's logic.
* The configuration scripts that expand the templates.
* The MMIO engine, the alignment of the gaskets, the buffered and dual clock
  FIFOs, clock crossing and credits, burst mapping, atomics and the other AXI
  shims: not reached.  They are next in the plan, and their hazards are listed
  without a property.
* `test_host_chan_atomic.c`, `test_host_chan_mmio.c`, `test_local_mem_params.c`,
  `test_data.c`: they fill memory, run one engine at a time and compare values.
  `HostPrograms` takes their verdict as a free choice.  Buffers, bursts and
  expected values of `test_host_chan_params.c` are left out as well.
* An MMIO read that fails: `csrRead` returns all ones (csr_mgr.c:129), which the
  callers take for a mask or a count; OPAE checks addresses when a region is
  mapped, so it happens only with an accelerator that is gone.  The result of
  `pthread_create` (test_host_chan_intr.c:135) is taken to be success.
* The Avalon and CCI-P forms of the shims: same primitives under another
  protocol; behind the AXI forms in the plan.
* Timing, synthesis and metastability.

## Plan

Done: the core of the PIM: its primitives (`Rob`, `Uid`, `Fifo2`, `TaggedRam`),
the read and write engines, the arbitration, and the proofs about all of
these; the test programs: connection and mains, engine runs over the CSR
manager, the interrupt test, and the proofs about all of these.

Next, in this order:

1. `MmioTlps` (`..gen_mmio_tlps.sv`): outstanding host reads by tag, the RAM
   latency against the response FIFO, responses of one and several beats.
   Abstract specification: each host read is answered once, to its requester.
2. `FifoBuffer` (`fifo_buffer.sv`) and `AsyncRob` (`..async_rob.sv`,
   `..rsp_credits.sv`): credits and reorder buffers; conservation of credits, no
   response without room.  `AsyncRob` composes `OrderedResponses` for its buffers.
3. `MapBursts` (`..map_bursts.sv` and the gearboxes): the split as a recursive
   function against a definition by sets of lines; one response per burst.
4. `ForkAtomics`, `FixupWlast` (AXI request shims): two channels in step.
5. `AlignRx`, `AlignTx` (the gasket): packets across bus words.
6. `RobDc` and the dual clock FIFO: one action per clock.
7. Virtual channel muxes, then CCI-P.

Runs stay at one per question: a safety run per new module, a liveness run where
the module waits on others (write engine: every request is answered; credits).

Theorems: the new modules' conservation laws (credits, outstanding MMIO reads).
