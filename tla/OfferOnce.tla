----------------------------- MODULE OfferOnce -----------------------------
(***************************************************************************)
(* What the batch journal promises, without the journal: a reviewed item is *)
(* offered to the market, and once a request for it may land or has landed  *)
(* it is not offered again.  A request that is known to have died may be.   *)
(***************************************************************************)
CONSTANT Offers
VARIABLES flying, landed

Init == flying = {} /\ landed = {}

Offer(o) == o \notin flying \cup landed /\ flying' = flying \cup {o} /\ landed' = landed
Land(o)  == o \in flying /\ flying' = flying \ {o} /\ landed' = landed \cup {o}
Die(o)   == o \in flying /\ flying' = flying \ {o} /\ landed' = landed

Next == \E o \in Offers : Offer(o) \/ Land(o) \/ Die(o)
Spec == Init /\ [][Next]_<<flying, landed>>

=============================================================================
