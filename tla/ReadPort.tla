------------------------------ MODULE ReadPort ------------------------------
(***************************************************************************)
(* What the AFU is promised on its read port, with no PCIe tags, packets   *)
(* or encodings: the lines of each request come back in order, each once   *)
(* and with its own data, and the final one is marked last.  Requests may  *)
(* be answered in any order and interleave.  A response that is not taken  *)
(* stays as it is.                                                         *)
(***************************************************************************)
EXTENDS Naturals

CONSTANTS AfuTags,    \* the tags the AFU gives its requests
          MaxLines,   \* most lines in a request
          NoRsp       \* "no response is valid"

VARIABLES owed,       \* per tag in use: lines requested, index of the next one
          rsp         \* the response on the port

portVars == <<owed, rsp>>

Response(t, o) ==
    [tag |-> t, line_idx |-> o.next, last |-> o.next + 1 = o.lines,
     payload |-> [addr |-> t, line |-> o.next]]

\* The books after the response to tag t has been taken.
Received(books, t) ==
    IF books[t].next + 1 = books[t].lines
    THEN [u \in DOMAIN books \ {t} |-> books[u]]
    ELSE [books EXCEPT ![t].next = @ + 1]

\* The books after a request with tag t for n lines.
Requested(books, t, n) ==
    [u \in DOMAIN books \union {t} |->
       IF u = t THEN [lines |-> n, next |-> 0] ELSE books[u]]

PortInit == owed = [t \in {} |-> 0] /\ rsp = NoRsp

PortCycle ==
    \E taken \in BOOLEAN :
      /\ taken => rsp # NoRsp
      /\ LET books == IF taken THEN Received(owed, rsp.tag) ELSE owed
         IN /\ \/ owed' = books
               \/ \E t \in AfuTags \ DOMAIN owed, n \in 1..MaxLines :
                    owed' = Requested(books, t, n)
            /\ IF rsp # NoRsp /\ ~taken THEN rsp' = rsp
               ELSE \/ rsp' = NoRsp
                    \/ \E t \in DOMAIN books : rsp' = Response(t, books[t])

PortReset == owed' = [t \in {} |-> 0] /\ rsp' = NoRsp

PortNext == PortCycle \/ PortReset

PortSpec == PortInit /\ [][PortNext]_portVars

=============================================================================
