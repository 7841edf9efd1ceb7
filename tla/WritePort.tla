----------------------------- MODULE WritePort ------------------------------
(***************************************************************************)
(* What the AFU is promised on its write port: each write, fence and       *)
(* interrupt is answered once, after its last beat, with its own tag and   *)
(* kind, in any order.  A response that is not taken stays as it is.       *)
(***************************************************************************)
CONSTANTS Answers,    \* the answers there may be: a kind and a tag
          NoRsp       \* "no response is valid"

VARIABLES waiting,    \* answers the AFU waits for
          rsp         \* the response on the port

PortInit == waiting = {} /\ rsp = NoRsp

PortCycle ==
    \E taken \in BOOLEAN :
      /\ taken => rsp # NoRsp
      /\ LET left == IF taken THEN waiting \ {rsp} ELSE waiting
         IN /\ waiting' = left \/ \E a \in Answers \ waiting : waiting' = left \union {a}
            /\ IF rsp # NoRsp /\ ~taken THEN rsp' = rsp
               ELSE rsp' \in left \union {NoRsp}

PortReset == waiting' = {} /\ rsp' = NoRsp

PortNext == PortCycle \/ PortReset

PortSpec == PortInit /\ [][PortNext]_<<waiting, rsp>>

=============================================================================
