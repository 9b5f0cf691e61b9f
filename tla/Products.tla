------------------------------ MODULE Products ------------------------------
(***************************************************************************)
(* The data of the Move module product_registry::registry: the Product     *)
(* struct, and what it means for a vector of products to vouch for an      *)
(* identifier.                                                             *)
(***************************************************************************)
EXTENDS Naturals, Sequences

CONSTANTS
    Address,      \* account addresses
    ProductId,    \* product identifiers (Move strings, compared by equality)
    Name          \* product names

Product == [id : ProductId, name : Name, manufacturer : Address,
            timestamp : Nat, is_authentic : BOOLEAN]

(***************************************************************************)
(* The reference for verify_product: the flag of the first product with    *)
(* the identifier, FALSE when there is none.                               *)
(***************************************************************************)
FirstMatch(v, id, i) ==
    /\ v[i].id = id
    /\ \A j \in 1..(i - 1) : v[j].id # id

Verdict(v, id) ==
    \E i \in 1..Len(v) : FirstMatch(v, id, i) /\ v[i].is_authentic
=============================================================================
