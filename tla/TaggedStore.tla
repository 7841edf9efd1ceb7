---------------------------- MODULE TaggedStore -----------------------------
(***************************************************************************)
(* What a tagged memory promises: a store of values under tags that the    *)
(* store picks, none of them in use; a read returns the value stored under *)
(* the tag.  All three operations may fall in one clock cycle.             *)
(***************************************************************************)
EXTENDS Naturals

CONSTANTS Tags, Values, NoValue

VARIABLES store,    \* the values of the tags in use
          answer    \* what the last cycle's read returned

storeVars == <<store, answer>>

NoAnswer == [tag |-> NoValue, value |-> NoValue]

Answers == {NoAnswer} \union {[tag |-> t, value |-> store[t]] : t \in DOMAIN store}

StoreInit == store = [t \in {} |-> NoValue] /\ answer = NoAnswer

StoreCycle ==
    LET used == DOMAIN store
    IN \E added, freed \in SUBSET Tags :
         /\ \A t, u \in added : t = u
         /\ added \intersect used = {} /\ freed \subseteq used
         /\ DOMAIN store' = (used \ freed) \union added
         /\ \A t \in used \ freed : store'[t] = store[t]
         /\ \A t \in added : store'[t] \in Values
         /\ answer' \in Answers

\* A reset empties the store; a read may be answered on the way.
StoreReset == store' = [t \in {} |-> NoValue] /\ answer' \in Answers

StoreNext == StoreCycle \/ StoreReset

StoreSpec == StoreInit /\ [][StoreNext]_storeVars

=============================================================================
