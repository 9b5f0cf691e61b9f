------------------------------ MODULE Registry ------------------------------
(***************************************************************************)
(* The Move module product_registry::registry                              *)
(* (blockchain/contracts/sources/product_registry.move).  Each account may *)
(* hold one ProductRegistry resource, a vector of products, in its own     *)
(* storage.  Transactions run one at a time: a transaction either applies  *)
(* all of its effects or aborts and applies none.                          *)
(***************************************************************************)
EXTENDS Products

CONSTANTS
    MaxProducts,  \* bound: products in one registry
    MaxTime       \* bound: the chain's clock, in seconds

ASSUME BoundsAssumption == MaxProducts \in Nat /\ MaxTime \in Nat

VARIABLES
    published,    \* the addresses that hold a ProductRegistry resource
    products,     \* products[a]: the vector stored under a
    now,          \* aptos_framework::timestamp::now_seconds()
    receipt       \* the last transaction: its sender and how it ended

vars == <<published, products, now, receipt>>

Outcome == {"none", "success", "resource_already_exists", "missing_data"}

None == "none"    \* no sender yet, or no product in the transaction

Receipt(a, id, o) == [sender |-> a, id |-> id, outcome |-> o]

Init ==
    /\ published = {}
    /\ products = [a \in Address |-> <<>>]
    /\ now = 0
    /\ receipt = Receipt(None, None, "none")
-----------------------------------------------------------------------------
(***************************************************************************)
(* init_registry: move_to stores an empty registry under the signer, and   *)
(* aborts when the signer holds one already.                               *)
(***************************************************************************)
init_registry_overwrites(a) ==
    /\ published' = published \cup {a}
    /\ products' = [products EXCEPT ![a] = <<>>]
    /\ receipt' = Receipt(a, None, "success")
    /\ UNCHANGED now

init_registry(a) ==
    /\ a \notin published
    /\ published' = published \cup {a}
    /\ products' = [products EXCEPT ![a] = <<>>]
    /\ receipt' = Receipt(a, None, "success")
    /\ UNCHANGED now

init_registry_abort(a) ==
    /\ a \in published
    /\ receipt' = Receipt(a, None, "resource_already_exists")
    /\ UNCHANGED <<published, products, now>>

NewProduct(a, id, name) ==
    [id |-> id, name |-> name, manufacturer |-> a,
     timestamp |-> now, is_authentic |-> TRUE]

(***************************************************************************)
(* register_product: borrow_global_mut finds the signer's own registry, or *)
(* aborts; the product is pushed at the back.  No other check is made.     *)
(***************************************************************************)
register_product_anywhere(a, id, name) ==
    LET b == CHOOSE b \in Address : b \in published IN
    /\ published # {}
    /\ Len(products[b]) < MaxProducts
    /\ products' = [products EXCEPT ![b] = Append(@, NewProduct(a, id, name))]
    /\ receipt' = Receipt(a, id, "success")
    /\ UNCHANGED <<published, now>>

register_product(a, id, name) ==
    /\ a \in published
    /\ Len(products[a]) < MaxProducts
    /\ products' = [products EXCEPT ![a] = Append(@, NewProduct(a, id, name))]
    /\ receipt' = Receipt(a, id, "success")
    /\ UNCHANGED <<published, now>>

register_product_abort(a, id) ==
    /\ a \notin published
    /\ receipt' = Receipt(a, id, "missing_data")
    /\ UNCHANGED <<published, products, now>>

(***************************************************************************)
(* The block prologue moves the chain's clock forward between blocks.      *)
(***************************************************************************)
AdvanceTime ==
    /\ now < MaxTime
    /\ now' = now + 1
    /\ UNCHANGED <<published, products, receipt>>

Next ==
    \/ \E a \in Address :
          \/ init_registry(a)
          \/ init_registry_abort(a)
          \/ \E id \in ProductId : register_product_abort(a, id)
          \/ \E id \in ProductId, name \in Name : register_product(a, id, name)
    \/ AdvanceTime

Spec == Init /\ [][Next]_vars
-----------------------------------------------------------------------------
(***************************************************************************)
(* The view verify_product.  Module VerifyProduct models its loop and      *)
(* shows that it computes Verdict.  The view aborts for an address without *)
(* a registry, so it is asked of published ones only.                      *)
(***************************************************************************)
verify_product(a, id) == Verdict(products[a], id)
-----------------------------------------------------------------------------
(***************************************************************************)
(* Type invariant: the shape of global storage and of the last receipt     *)
(* (struct Product and ProductRegistry of the contract).                   *)
(***************************************************************************)
TypeOK ==
    /\ published \subseteq Address
    /\ products \in [Address -> Seq(Product)]
    /\ now \in Nat
    /\ receipt \in [sender : Address \cup {None}, id : ProductId \cup {None},
                    outcome : Outcome]

(***************************************************************************)
(* Each stored product was registered by the account that stores it, which *)
(* holds a registry, and is marked authentic: register_product reaches no  *)
(* registry but the signer's own.                                          *)
(***************************************************************************)
OwnProducts ==
    \A a \in Address : \A i \in 1..Len(products[a]) :
        /\ a \in published
        /\ products[a][i].manufacturer = a
        /\ products[a][i].is_authentic

(***************************************************************************)
(* A registry is in the order of registration: timestamps never decrease   *)
(* along the vector and none is later than the chain's clock, because      *)
(* register_product stamps with now_seconds() and pushes at the back.      *)
(***************************************************************************)
Chronological ==
    \A a \in Address : \A i \in 1..Len(products[a]) :
        /\ products[a][i].timestamp <= now
        /\ \A j \in i..Len(products[a]) :
              products[a][i].timestamp <= products[a][j].timestamp

(***************************************************************************)
(* A registration that succeeded is visible to verify_product at once,     *)
(* whatever was registered before under the same identifier: the scan      *)
(* stops at the oldest match and still answers true.                       *)
(***************************************************************************)
RegisteredVerifies ==
    receipt.outcome = "success" /\ receipt.id # None
        => verify_product(receipt.sender, receipt.id)

(***************************************************************************)
(* The verdict on (a, id) changes only in the step in which a itself       *)
(* registers id with success: no other account, no aborted transaction and *)
(* no passage of time alters what verify_product answers.                  *)
(***************************************************************************)
OwnerDecides ==
    [][\A a \in Address, id \in ProductId :
          verify_product(a, id)' # verify_product(a, id)
              => receipt' = Receipt(a, id, "success")]_vars

(***************************************************************************)
(* The registry implements the ledger of module AuthenticityLedger: per    *)
(* manufacturer a set of verified identifiers that grows by one and never  *)
(* shrinks, whatever mixture of calls and aborts the accounts submit.      *)
(***************************************************************************)
Ledger == INSTANCE AuthenticityLedger WITH
    authentic <- [a \in Address |-> {id \in ProductId : verify_product(a, id)}]

LedgerSpec == Ledger!Spec
=============================================================================
