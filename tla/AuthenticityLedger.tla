------------------------- MODULE AuthenticityLedger -------------------------
(***************************************************************************)
(* What the product registry contract promises to anybody who asks it: for *)
(* each manufacturer's address a set of product identifiers that verify as *)
(* authentic.  An identifier enters the set by the act of the manufacturer *)
(* that owns it, one at a time, and never leaves it.                       *)
(***************************************************************************)
CONSTANTS Address, ProductId

VARIABLE authentic    \* authentic[a]: the identifiers that a vouches for

Init == authentic = [a \in Address |-> {}]

Vouch(a, id) == authentic' = [authentic EXCEPT ![a] = @ \cup {id}]

Next == \E a \in Address, id \in ProductId : Vouch(a, id)

Spec == Init /\ [][Next]_authentic
=============================================================================
