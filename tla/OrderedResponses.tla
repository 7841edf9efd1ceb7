-------------------------- MODULE OrderedResponses --------------------------
(***************************************************************************)
(* What a reorder buffer promises, with no memories, tags or pipelines: a  *)
(* queue of slots.  A request appends empty slots, a response fills any    *)
(* empty slot, and only the oldest slot leaves, once it is filled, with    *)
(* the data it was filled with.  Any of the three may happen in the same   *)
(* clock cycle.                                                            *)
(***************************************************************************)
EXTENDS Naturals, Sequences

CONSTANTS Capacity,   \* most slots that may ever be in flight
          MaxAlloc,   \* most slots one cycle may append
          Data,       \* response payloads
          NoData      \* "no payload": an empty slot, or nothing delivered

VARIABLES slots,      \* the slots in flight, oldest first
          delivered   \* what the last cycle delivered

absVars == <<slots, delivered>>

AbsInit == slots = <<>> /\ delivered = NoData

\* One clock cycle: responses fill empty slots, the head leaves if it was
\* filled before the cycle, and n empty slots join at the tail.
AbsCycle ==
    \E n \in 0..MaxAlloc, gone \in 0..1 :
      LET old == slots
          new == slots'
      IN /\ Len(new) = Len(old) - gone + n
         /\ Len(old) + n <= Capacity
         /\ gone = 1 => old # <<>> /\ Head(old) # NoData
         /\ delivered' = IF gone = 1 THEN Head(old) ELSE NoData
         /\ \A k \in 1..Len(new) :
              LET was == IF k + gone <= Len(old) THEN old[k + gone] ELSE NoData
              IN \/ new[k] = was
                 \/ was = NoData /\ k + gone <= Len(old) /\ new[k] \in Data

\* A reset forgets every slot.
AbsReset == slots' = <<>> /\ delivered' = NoData

AbsNext == AbsCycle \/ AbsReset

AbsSpec == AbsInit /\ [][AbsNext]_absVars

=============================================================================
