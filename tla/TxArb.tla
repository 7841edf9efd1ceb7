------------------------------- MODULE TxArb --------------------------------
(***************************************************************************)
(* The TLP Tx arbitration of ofs_plat_host_chan_@group@_map_to_tlps: the   *)
(* MMIO, read and write engines share one stream to the FIM through a      *)
(* round-robin arbiter, a lock for packets of several beats and a skid     *)
(* buffer that drops poisoned packets.  With FIM_HAS_SEPARATE_READ_STREAM  *)
(* reads have a stream of their own.                                       *)
(*                                                                         *)
(* One action is one rising edge of clk.  The bandwidth weights of         *)
(* learning_weight and the availability of read tags are inputs that may   *)
(* do anything.                                                            *)
(***************************************************************************)
EXTENDS Naturals, Sequences, FiniteSets, Fifo2

CONSTANTS FIM_HAS_SEPARATE_READ_STREAM,
          WR_TIMEOUT,    \* cycles without a write that force one (16 in the code)
          MAX_BEATS,     \* length of the longest packet (a bound)
          NoTlp

ASSUME TxArbAssumption ==
    /\ FIM_HAS_SEPARATE_READ_STREAM \in BOOLEAN
    /\ WR_TIMEOUT \in Nat \ {0}
    /\ MAX_BEATS \in Nat \ {0}

Streams == {"mmio", "rd", "wr"}

\* A beat is the n-th of its packet; only a fence without an address, which is
\* a single beat of the write engine, is poisoned.
Beats ==
    {b \in [stream : Streams, n : 1..MAX_BEATS, last : BOOLEAN, poison : BOOLEAN] :
       /\ b.n = MAX_BEATS => b.last
       /\ b.stream = "rd" => b.n = 1 /\ b.last
       /\ b.poison => b.stream = "wr" /\ b.n = 1 /\ b.last}

ASSUME NoTlpAssumption == NoTlp \notin Beats

VARIABLES
    tlps,            \* the beat each engine offers, or NoTlp
    arb_state,       \* "none", or the stream that holds the lock
    base,            \* arb_rr: the client with priority
    non_wr_ctr,      \* cycles since the last write
    force_allow_wr,  \* writes may go although reads have no tag
    skid,            \* outbound skid buffer
    mid,             \* engines: beats of the current packet already offered
    owed,            \* engines: beats offered that the FIM has not taken
    fim,             \* FIM: last beat taken from the shared stream
    won              \* streams granted at the last edge

vars == <<tlps, arb_state, base, non_wr_ctr, force_allow_wr, skid, mid, owed,
          fim, won>>

-----------------------------------------------------------------------------
(* Arbitration.                                                            *)

to_fiu_tx_st_tready == Fifo2NotFull(skid)
Valid == {s \in Streams : tlps[s] # NoTlp}

\* Mutant of arb_req: no override of the throttle on writes.
arb_reqNoForce(rd_tag, allow) ==
    {s \in Valid : /\ s = "rd" => ~FIM_HAS_SEPARATE_READ_STREAM /\ "rd" \in allow
                   /\ s = "wr" => "wr" \in allow /\ rd_tag}

\* Writes are throttled while reads wait for a tag, unless none was sent for
\* a while.
arb_req(rd_tag, allow) ==
    {s \in Valid : /\ s = "rd" => ~FIM_HAS_SEPARATE_READ_STREAM /\ "rd" \in allow
                   /\ s = "wr" => "wr" \in allow /\ (rd_tag \/ force_allow_wr)}

\* The clients of arb_rr and the distance of one from the priority.
Slot == [mmio |-> 0, rd |-> 1, wr |-> 2]
Distance(s) == (Slot[s] + 3 - base) % 3

\* Mutant of arb_ena: a new winner is picked in the middle of a packet.
arb_enaAlways == to_fiu_tx_st_tready

arb_ena == to_fiu_tx_st_tready /\ arb_state = "none"

arb_grant(req) ==
    IF arb_ena THEN {s \in req : \A t \in req : Distance(s) <= Distance(t)} ELSE {}

\* Mutant of BaseNext: the winner keeps the priority.
BaseNextSticky(grant) ==
    IF grant = {} THEN base ELSE Slot[CHOOSE s \in grant : TRUE]

BaseNext(grant) ==
    IF grant = {} THEN base ELSE (Slot[CHOOSE s \in grant : TRUE] + 1) % 3

\* Mutant of LockGrant: the lock ignores a full skid buffer.
LockGrantBlind == {s \in Valid : arb_state = s}

\* The stream with the lock goes on as soon as it can.
LockGrant == {s \in Valid : arb_state = s /\ to_fiu_tx_st_tready}

\* Mutant of ArbStateNext: packets of writes do not take the lock.
ArbStateNextNoWr(w) ==
    IF "mmio" \in w /\ ~tlps["mmio"].last THEN "mmio"
    ELSE IF w # {} THEN "none" ELSE arb_state

ArbStateNext(w) ==
    IF "mmio" \in w /\ ~tlps["mmio"].last THEN "mmio"
    ELSE IF "wr" \in w /\ ~tlps["wr"].last THEN "wr"
    ELSE IF w # {} THEN "none" ELSE arb_state

\* Mutant of NonWrCtrNext: the counter does not wrap.
NonWrCtrNextNoWrap(w) == IF "wr" \in w THEN 0 ELSE non_wr_ctr + 1

\* The counter has one bit more than it takes to count to WR_TIMEOUT.
NonWrCtrNext(w) ==
    IF "wr" \in w THEN 0 ELSE (non_wr_ctr + 1) % (2 * WR_TIMEOUT)
ForceAllowWrNext(w) ==
    "wr" \notin w /\ (force_allow_wr \/ non_wr_ctr >= WR_TIMEOUT)

\* The beat for the skid buffer.
to_fiu_tx_st(w) ==
    IF w = {} THEN NoTlp
    ELSE IF "mmio" \in w THEN tlps["mmio"]
    ELSE IF "rd" \in w THEN tlps["rd"] ELSE tlps["wr"]

\* What leaves the skid buffer for the FIM when it is ready.
OutBeat == IF Fifo2NotEmpty(skid) THEN Fifo2First(skid) ELSE NoTlp
Poisoned == OutBeat # NoTlp /\ OutBeat.poison

-----------------------------------------------------------------------------
(* Engines.                                                                *)

\* What the engine of a stream may offer at an edge: the beat that was not
\* taken, else nothing or the next beat.
Offers(s, taken) ==
    IF s \in Valid \ taken THEN {tlps[s]}
    ELSE {NoTlp} \union {b \in Beats : b.stream = s /\ b.n = mid[s] + 1}

\* A poisoned packet is not owed to the FIM.
EnginesEdge(taken, left) ==
    LET new == {s \in Streams : s \notin Valid \ taken /\ tlps'[s] # NoTlp}
    IN /\ tlps' \in {[mmio |-> m, rd |-> r, wr |-> w] : m \in Offers("mmio", taken),
                       r \in Offers("rd", taken), w \in Offers("wr", taken)}
       /\ mid' = [s \in Streams |-> IF s \notin new THEN mid[s]
                                    ELSE IF tlps'[s].last THEN 0 ELSE tlps'[s].n]
       /\ owed' = [s \in Streams |->
                    (IF s \in left THEN Tail(owed[s]) ELSE owed[s])
                      \o IF s \in new /\ ~tlps'[s].poison THEN <<tlps'[s]>> ELSE <<>>]

-----------------------------------------------------------------------------

Init ==
    /\ tlps = [s \in Streams |-> NoTlp]
    /\ arb_state = "none" /\ base = 0
    /\ non_wr_ctr = 0 /\ force_allow_wr = FALSE
    /\ skid = Fifo2Empty(NoTlp)
    /\ mid = [s \in Streams |-> 0] /\ owed = [s \in Streams |-> <<>>]
    /\ fim = NoTlp /\ won = {}

\* An edge in operation: whether read tags are there, the streams the weights
\* let through, and the ready signals of the FIM for the two streams.
EdgeWith(rd_tag, allow, fim_tready, mrd_tready) ==
    LET grant == arb_grant(arb_req(rd_tag, allow))
        w == grant \union LockGrant
        direct == {s \in Valid : /\ FIM_HAS_SEPARATE_READ_STREAM
                                 /\ s = "rd" /\ mrd_tready}
        leaves == OutBeat # NoTlp /\ fim_tready /\ ~Poisoned
    IN /\ arb_state' = ArbStateNext(w)
       /\ base' = BaseNext(grant)
       /\ non_wr_ctr' = NonWrCtrNext(w)
       /\ force_allow_wr' = ForceAllowWrNext(w)
       /\ skid' = Fifo2Next(skid, w # {} /\ to_fiu_tx_st_tready, to_fiu_tx_st(w),
                            OutBeat # NoTlp /\ fim_tready)
       /\ fim' = IF leaves THEN OutBeat ELSE fim
       /\ won' = w
       /\ EnginesEdge(w \union direct,
                      direct \union (IF leaves THEN {OutBeat.stream} ELSE {}))

\* With a separate stream the weights are not used.
Weights == IF FIM_HAS_SEPARATE_READ_STREAM THEN {{"rd", "wr"}} ELSE SUBSET {"rd", "wr"}

\* A signal with nothing to go with it has no effect and is fixed.
Cycle ==
    \E rd_tag, fim_tready, mrd_tready \in BOOLEAN, allow \in Weights :
      /\ ~arb_ena => allow = {"rd", "wr"}
      /\ ~arb_ena \/ tlps["wr"] = NoTlp => ~rd_tag
      /\ OutBeat = NoTlp => ~fim_tready
      /\ ~FIM_HAS_SEPARATE_READ_STREAM \/ tlps["rd"] = NoTlp => ~mrd_tready
      /\ EdgeWith(rd_tag, allow, fim_tready, mrd_tready)

\* An edge with reset_n low: the engines and the FIM are reset too.
Reset ==
    /\ tlps' = [s \in Streams |-> NoTlp]
    /\ arb_state' = "none" /\ base' = 0
    /\ non_wr_ctr' = 0 /\ force_allow_wr' = FALSE
    /\ skid' = Fifo2Empty(NoTlp)
    /\ mid' = [s \in Streams |-> 0] /\ owed' = [s \in Streams |-> <<>>]
    /\ fim' = NoTlp /\ won' = {}

Next == Cycle \/ Reset

Spec == Init /\ [][Next]_vars

\* The FIM takes the beat in the skid buffer if there is one.
FimReady ==
    \E rd_tag, mrd_tready \in BOOLEAN, allow \in Weights :
      EdgeWith(rd_tag, allow, OutBeat # NoTlp, mrd_tready)

\* An engine sends the rest of a packet it has begun.
EngineContinues(s) ==
    /\ mid[s] # 0 /\ tlps[s] = NoTlp
    /\ Cycle /\ tlps'[s] # NoTlp

\* The clock runs, the FIM does not refuse a beat for ever and packets end.
\* Nothing is assumed of read tags or of the weights.
Fairness ==
    /\ WF_vars(FimReady)
    /\ WF_vars(EngineContinues("mmio")) /\ WF_vars(EngineContinues("wr"))

FairSpec == Spec /\ Fairness

-----------------------------------------------------------------------------
(* Properties.                                                             *)

TypeOK ==
    /\ tlps \in [Streams -> Beats \union {NoTlp}]
    /\ \A s \in Valid : tlps[s].stream = s
    /\ arb_state \in {"none", "mmio", "wr"} /\ base \in 0..2
    /\ non_wr_ctr \in 0..2 * WR_TIMEOUT - 1 /\ force_allow_wr \in BOOLEAN
    /\ skid \in Fifo2States(Beats \union {NoTlp})
    /\ mid \in [Streams -> 0..MAX_BEATS - 1]
    /\ owed \in [Streams -> Seq(Beats)]
    /\ fim \in Beats \union {NoTlp} /\ won \subseteq Streams

\* "Only one winner is allowed!": whatever asks, locks and waits, no two
\* streams are granted at the same edge.
OneWinner == Cardinality(won) <= 1

\* The beat b, if it is there, as a sequence of beats the FIM will get from s.
Mine(s, present, b) == IF present /\ b.stream = s /\ ~b.poison THEN <<b>> ELSE <<>>

\* The beats of stream s between its engine and the FIM, oldest first.
InFlight(s) ==
    Mine(s, skid.valid[1], skid.data[1])
      \o Mine(s, skid.valid[0], skid.data[0])
      \o Mine(s, s \in Valid, tlps[s])

\* Arbitration, locks and the skid buffer lose, repeat and reorder nothing: of
\* each stream, what the FIM has yet to take is what the engine offered and
\* the FIM did not get, except for the poisoned packets.
StreamsKeepTheirBeats == \A s \in Streams : owed[s] = InFlight(s)

\* b may come after a on the shared stream.
Follows(a, b) ==
    IF a = NoTlp \/ a.last THEN b.n = 1
    ELSE b.stream = a.stream /\ b.n = a.n + 1

\* The FIM gets packets that are whole: the beats of one are never separated
\* by a beat of another stream, however long the engine takes for the next.
PacketsStayWhole == [][fim' # fim /\ fim' # NoTlp => Follows(fim, fim')]_fim

\* A write is not blocked for ever by reads that have run out of tags, and so
\* reads that wait for a write to complete cannot deadlock with it.
WritesProceed == tlps["wr"] # NoTlp ~> ("wr" \in won \/ tlps["wr"] = NoTlp)

\* MMIO responses get their turn whatever the weights do for reads and writes.
MmioProceeds == tlps["mmio"] # NoTlp ~> ("mmio" \in won \/ tlps["mmio"] = NoTlp)

=============================================================================
