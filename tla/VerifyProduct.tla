--------------------------- MODULE VerifyProduct ---------------------------
(***************************************************************************)
(* The loop of the view verify_product                                     *)
(* (blockchain/contracts/sources/product_registry.move:54-71), one step    *)
(* per iteration.  A view reads one committed version of the registry, so  *)
(* the vector does not change while the loop runs.                         *)
(***************************************************************************)
EXTENDS Products

CONSTANT Vectors    \* the vectors that a registry may hold when it is read

ASSUME VectorsAssumption == Vectors \subseteq Seq(Product)

VARIABLES
    vector,         \* registry.products
    product_id,     \* the argument
    index,          \* i, the index, counted from 0 as in Move
    at,             \* "while" in the loop, "done" after the return
    answer          \* the value returned

scan_vars == <<vector, product_id, index, at, answer>>

len == Len(vector)

ScanInit ==
    /\ vector \in Vectors
    /\ product_id \in ProductId
    /\ index = 0
    /\ at = "while"
    /\ answer = FALSE

Return(b) == at' = "done" /\ answer' = b /\ UNCHANGED <<vector, product_id, index>>

\* vector::borrow(&registry.products, i): Move counts from 0, TLA+ from 1
borrow(k) == vector[k + 1]

Found_any ==
    /\ at = "while" /\ index < len
    /\ borrow(index).id = product_id
    /\ Return(TRUE)

Found ==
    /\ at = "while" /\ index < len
    /\ borrow(index).id = product_id
    /\ Return(borrow(index).is_authentic)

Skip_stuck ==
    /\ at = "while" /\ index < len
    /\ borrow(index).id # product_id
    /\ index' = IF index + 1 < len THEN index + 1 ELSE index
    /\ UNCHANGED <<vector, product_id, at, answer>>

Skip ==
    /\ at = "while" /\ index < len
    /\ borrow(index).id # product_id
    /\ index' = index + 1
    /\ UNCHANGED <<vector, product_id, at, answer>>

Exhausted ==
    /\ at = "while" /\ ~(index < len)
    /\ Return(FALSE)

ScanNext == Found \/ Skip \/ Exhausted

ScanSpec == ScanInit /\ [][ScanNext]_scan_vars /\ WF_scan_vars(ScanNext)
-----------------------------------------------------------------------------
(***************************************************************************)
(* Type invariant of the loop, with the bound that keeps vector::borrow    *)
(* within the vector (product_registry.move:63-64).                        *)
(***************************************************************************)
ScanTypeOK ==
    /\ vector \in Seq(Product)
    /\ product_id \in ProductId
    /\ index \in 0..len
    /\ at \in {"while", "done"}
    /\ answer \in BOOLEAN

(***************************************************************************)
(* The value the loop returns is the flag of the first product with the    *)
(* identifier, and false when no product has it, for vectors with repeated *)
(* identifiers and with unmarked products (product_registry.move:63-70).   *)
(***************************************************************************)
PartialCorrectness == at = "done" => answer = Verdict(vector, product_id)

(***************************************************************************)
(* What the loop maintains: no product before the index has the            *)
(* identifier, so the first hit is the first match.                        *)
(***************************************************************************)
LoopInvariant ==
    at = "while" => \A k \in 1..index : vector[k].id # product_id

(***************************************************************************)
(* The loop ends for every vector and identifier: the index moves on every *)
(* iteration that does not return (product_registry.move:68).              *)
(***************************************************************************)
Termination == <>(at = "done")
=============================================================================
