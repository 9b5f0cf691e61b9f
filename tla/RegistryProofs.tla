--------------------------- MODULE RegistryProofs ---------------------------
(***************************************************************************)
(* The registry contract's invariants for any accounts, identifiers, names *)
(* and bounds, those of the script that deploys it again and again, the    *)
(* loop of verify_product for every vector and every identifier, and what  *)
(* the page that calls it shows, for every set of texts, codes and         *)
(* products and any number of overlapping calls.                           *)
(***************************************************************************)
EXTENDS Deployment, VerifyProduct, ProductVerification, SequenceTheorems,
        WellFoundedInduction, TLAPS

(***************************************************************************)
(* A registration extends one vector by one product and leaves the entries *)
(* that were there in place (vector::push_back).                           *)
(***************************************************************************)
LEMMA PushBack ==
  ASSUME TypeOK, NEW a \in Address, NEW id \in ProductId, NEW name \in Name,
         register_product(a, id, name)
  PROVE  /\ NewProduct(a, id, name) \in Product
         /\ products'[a] = Append(products[a], NewProduct(a, id, name))
         /\ Len(products'[a]) = Len(products[a]) + 1
         /\ products'[a][Len(products[a]) + 1] = NewProduct(a, id, name)
         /\ \A i \in 1..Len(products[a]) : products'[a][i] = products[a][i]
         /\ \A b \in Address \ {a} : products'[b] = products[b]
  <1>1. NewProduct(a, id, name) \in Product
    BY DEF NewProduct, Product, TypeOK
  <1>2. products[a] \in Seq(Product)
    BY DEF TypeOK
  <1>3. products'[a] = Append(products[a], NewProduct(a, id, name))
    BY DEF register_product, TypeOK
  <1>4. \A b \in Address \ {a} : products'[b] = products[b]
    BY DEF register_product, TypeOK
  <1> QED
    BY <1>1, <1>2, <1>3, <1>4

(***************************************************************************)
(* After a registration an entry is the new product, at the back of the    *)
(* signer's vector, or one that was there before.                          *)
(***************************************************************************)
LEMMA NewOrOld ==
  ASSUME TypeOK, NEW a \in Address, NEW id \in ProductId, NEW name \in Name,
         register_product(a, id, name),
         NEW b \in Address, NEW i \in 1..Len(products'[b])
  PROVE  \/ /\ b = a /\ i = Len(products[a]) + 1
            /\ products'[b][i] = NewProduct(a, id, name)
         \/ /\ i \in 1..Len(products[b])
            /\ products'[b][i] = products[b][i]
  <1>1. Len(products[a]) \in Nat /\ Len(products[b]) \in Nat
    BY DEF TypeOK
  <1> QED
    BY <1>1, PushBack, SMTT(40)

(***************************************************************************)
(* The entries of the vectors are products.                                *)
(***************************************************************************)
LEMMA EntriesTyped ==
  ASSUME TypeOK, NEW b \in Address, NEW i \in 1..Len(products[b])
  PROVE  products[b][i] \in Product
  <1>1. products[b] \in Seq(Product)
    BY DEF TypeOK
  <1> QED
    BY <1>1

(***************************************************************************)
(* The type invariant of the contract's storage, for every instance.       *)
(***************************************************************************)
THEOREM TypeCorrect == Spec => []TypeOK
  <1>1. Init => TypeOK
    BY DEF Init, TypeOK, Receipt, Outcome, None
  <1>2. TypeOK /\ [Next]_vars => TypeOK'
    <2> SUFFICES ASSUME TypeOK, [Next]_vars PROVE TypeOK'
      OBVIOUS
    <2>1. ASSUME NEW a \in Address, init_registry(a) PROVE TypeOK'
      BY <2>1 DEF TypeOK, init_registry, Receipt, Outcome
    <2>2. ASSUME NEW a \in Address, init_registry_abort(a) PROVE TypeOK'
      BY <2>2 DEF TypeOK, init_registry_abort, Receipt, Outcome
    <2>3. ASSUME NEW a \in Address, NEW id \in ProductId, NEW name \in Name,
                 register_product(a, id, name)
          PROVE  TypeOK'
      <3>1. NewProduct(a, id, name) \in Product
        BY <2>3, PushBack
      <3>2. Append(products[a], NewProduct(a, id, name)) \in Seq(Product)
        BY <3>1 DEF TypeOK
      <3>3. products' \in [Address -> Seq(Product)]
        BY <2>3, <3>2 DEF TypeOK, register_product
      <3> QED
        BY <2>3, <3>3 DEF TypeOK, register_product, Receipt, Outcome
    <2>4. ASSUME NEW a \in Address, NEW id \in ProductId,
                 register_product_abort(a, id)
          PROVE  TypeOK'
      BY <2>4 DEF TypeOK, register_product_abort, Receipt, Outcome
    <2>5. CASE AdvanceTime
      BY <2>5 DEF TypeOK, AdvanceTime
    <2>6. CASE UNCHANGED vars
      BY <2>6 DEF TypeOK, vars
    <2> QED
      BY <2>1, <2>2, <2>3, <2>4, <2>5, <2>6 DEF Next
  <1> QED
    BY <1>1, <1>2, PTL DEF Spec

(***************************************************************************)
(* Only the account that stores a product registered it, and it holds a    *)
(* registry (register_product writes under signer::address_of).            *)
(***************************************************************************)
THEOREM OwnProductsInvariant == Spec => []OwnProducts
  <1>1. Init => OwnProducts
    BY DEF Init, OwnProducts
  <1>2. TypeOK /\ OwnProducts /\ [Next]_vars => OwnProducts'
    <2> SUFFICES ASSUME TypeOK, OwnProducts, [Next]_vars PROVE OwnProducts'
      OBVIOUS
    <2>1. ASSUME NEW a \in Address, init_registry(a) PROVE OwnProducts'
      <3>1. /\ published \subseteq published'
            /\ products'[a] = <<>>
            /\ \A b \in Address \ {a} : products'[b] = products[b]
        BY <2>1 DEF init_registry, TypeOK
      <3> QED
        BY <3>1 DEF OwnProducts
    <2>2. ASSUME NEW a \in Address, NEW id \in ProductId, NEW name \in Name,
                 register_product(a, id, name)
          PROVE  OwnProducts'
      <3>1. a \in published /\ published' = published
        BY <2>2 DEF register_product
      <3>2. /\ NewProduct(a, id, name).manufacturer = a
            /\ NewProduct(a, id, name).is_authentic
        BY DEF NewProduct
      <3> SUFFICES ASSUME NEW b \in Address, NEW i \in 1..Len(products'[b])
                   PROVE  /\ b \in published'
                          /\ products'[b][i].manufacturer = b
                          /\ products'[b][i].is_authentic
        BY DEF OwnProducts
      <3> QED
        BY <2>2, <3>1, <3>2, NewOrOld DEF OwnProducts
    <2>3. CASE UNCHANGED <<published, products>>
      BY <2>3 DEF OwnProducts
    <2> QED
      BY <2>1, <2>2, <2>3
      DEF Next, vars, init_registry_abort, register_product_abort, AdvanceTime
  <1> QED
    BY <1>1, <1>2, TypeCorrect, PTL DEF Spec

(***************************************************************************)
(* A registry is in the order of registration (timestamp::now_seconds and  *)
(* vector::push_back in register_product).                                 *)
(***************************************************************************)
THEOREM ChronologicalInvariant == Spec => []Chronological
  <1>1. Init => Chronological
    BY DEF Init, Chronological
  <1>2. TypeOK /\ Chronological /\ [Next]_vars => Chronological'
    <2> SUFFICES ASSUME TypeOK, Chronological, [Next]_vars
                 PROVE  Chronological'
      OBVIOUS
    <2>1. ASSUME NEW a \in Address, init_registry(a) PROVE Chronological'
      <3>1. /\ now' = now
            /\ products'[a] = <<>>
            /\ \A b \in Address \ {a} : products'[b] = products[b]
        BY <2>1 DEF init_registry, TypeOK
      <3> QED
        BY <3>1 DEF Chronological
    <2>2. ASSUME NEW a \in Address, NEW id \in ProductId, NEW name \in Name,
                 register_product(a, id, name)
          PROVE  Chronological'
      <3>1. now' = now /\ now \in Nat
        BY <2>2 DEF register_product, TypeOK
      <3>2. NewProduct(a, id, name).timestamp = now
        BY DEF NewProduct
      <3>3. Len(products[a]) \in Nat
        BY DEF TypeOK
      <3>4. \A b \in Address : \A i \in 1..Len(products'[b]) :
               products'[b][i].timestamp <= now
        BY <2>2, <3>1, <3>2, NewOrOld DEF Chronological
      <3>5. ASSUME NEW b \in Address, NEW i \in 1..Len(products'[b]),
                   NEW j \in i..Len(products'[b])
            PROVE  products'[b][i].timestamp <= products'[b][j].timestamp
        <4>1. CASE b = a /\ j = Len(products[a]) + 1
          BY <2>2, <3>2, <3>4, <4>1, PushBack
        <4>2. CASE b = a /\ j # Len(products[a]) + 1
          <5>1. i \in 1..Len(products[a]) /\ j \in i..Len(products[a])
            BY <2>2, <3>3, <4>2, PushBack
          <5> QED
            BY <2>2, <4>2, <5>1, PushBack, SMTT(40) DEF Chronological
        <4>3. CASE b # a
          BY <2>2, <4>3, PushBack DEF Chronological
        <4> QED
          BY <4>1, <4>2, <4>3
      <3> QED
        BY <3>1, <3>4, <3>5 DEF Chronological
    <2>3. CASE AdvanceTime
      <3>1. \A b \in Address : \A i \in 1..Len(products[b]) :
               products[b][i].timestamp \in Nat
        BY EntriesTyped DEF Product
      <3> QED
        BY <2>3, <3>1 DEF AdvanceTime, Chronological, TypeOK
    <2>4. CASE UNCHANGED <<products, now>>
      BY <2>4 DEF Chronological
    <2> QED
      BY <2>1, <2>2, <2>3, <2>4
      DEF Next, vars, init_registry_abort, register_product_abort
  <1> QED
    BY <1>1, <1>2, TypeCorrect, PTL DEF Spec
-----------------------------------------------------------------------------
\* Some product of the vector stored under a has the identifier.
Stored(a, id) == \E i \in 1..Len(products[a]) : products[a][i].id = id

(***************************************************************************)
(* A vector that holds an identifier has a first product with it, the one  *)
(* at which the scan of verify_product stops.                              *)
(***************************************************************************)
LEMMA StoredHasFirst ==
  ASSUME TypeOK, NEW a \in Address, NEW id, Stored(a, id)
  PROVE  \E i \in 1..Len(products[a]) : FirstMatch(products[a], id, i)
  <1> DEFINE T == {i \in 1..Len(products[a]) : products[a][i].id = id}
             R == OpToRel(<, Nat)
  <1>1. Len(products[a]) \in Nat
    BY DEF TypeOK
  <1>2. T \subseteq Nat /\ T # {}
    BY <1>1 DEF Stored
  <1>3. PICK i \in T : \A j \in T : ~(<<j, i>> \in R)
    <2> HIDE DEF T
    <2> QED
      BY <1>2, NatLessThanWellFounded, WFMin
  <1>4. \A j \in T : ~(j < i)
    BY <1>2, <1>3, Zenon DEF OpToRel
  <1>5. i \in 1..Len(products[a]) /\ products[a][i].id = id
    OBVIOUS
  <1>6. ASSUME NEW j \in 1..(i - 1) PROVE products[a][j].id # id
    <2>1. j \in 1..Len(products[a]) /\ j < i
      BY <1>1, <1>5
    <2> QED
      BY <1>4, <2>1
  <1> QED
    BY <1>5, <1>6 DEF FirstMatch

(***************************************************************************)
(* In a registry whose products are all marked, the view answers whether   *)
(* the identifier was ever registered, repeated or not.                    *)
(***************************************************************************)
LEMMA VerdictIsStored ==
  ASSUME TypeOK, OwnProducts, NEW a \in Address, NEW id
  PROVE  verify_product(a, id) <=> Stored(a, id)
  <1>1. ASSUME Stored(a, id) PROVE verify_product(a, id)
    BY <1>1, StoredHasFirst DEF verify_product, Verdict, OwnProducts
  <1>2. ASSUME verify_product(a, id) PROVE Stored(a, id)
    BY <1>2 DEF verify_product, Verdict, FirstMatch, Stored
  <1> QED
    BY <1>1, <1>2

(***************************************************************************)
(* The same for all accounts and identifiers at once, as a formula to      *)
(* which temporal steps can be applied (product_registry.move:54-71).      *)
(***************************************************************************)
LEMMA VerdictsAreStored ==
  TypeOK /\ OwnProducts
    => \A a \in Address, id \in ProductId :
          verify_product(a, id) <=> Stored(a, id)
  BY VerdictIsStored

(***************************************************************************)
(* What a step does to the identifiers a registry holds: nothing, unless   *)
(* it registers one of them under the account that signs.                  *)
(***************************************************************************)
LEMMA StepStores ==
  ASSUME TypeOK, OwnProducts, [Next]_vars
  PROVE  \/ \A a \in Address, id \in ProductId :
               Stored(a, id)' <=> Stored(a, id)
         \/ \E b \in Address, new \in ProductId :
               /\ receipt' = Receipt(b, new, "success")
               /\ \A a \in Address, id \in ProductId :
                     Stored(a, id)' <=> Stored(a, id) \/ (a = b /\ id = new)
  <1>1. ASSUME NEW a \in Address, init_registry(a)
        PROVE  \A b \in Address : Len(products'[b]) = Len(products[b])
                                   /\ products'[b] = products[b]
    <2>1. products[a] = <<>>
      <3>1. a \notin published /\ products[a] \in Seq(Product)
        BY <1>1 DEF init_registry, TypeOK
      <3>2. Len(products[a]) = 0
        BY <3>1 DEF OwnProducts
      <3> QED
        BY <3>1, <3>2, EmptySeq
    <2> QED
      BY <1>1, <2>1 DEF init_registry, TypeOK
  <1>2. ASSUME NEW b \in Address, NEW new \in ProductId, NEW name \in Name,
               register_product(b, new, name),
               NEW a \in Address, NEW id \in ProductId
        PROVE  Stored(a, id)' <=> Stored(a, id) \/ (a = b /\ id = new)
    <2>1. NewProduct(b, new, name).id = new
      BY DEF NewProduct
    <2>2. ASSUME Stored(a, id)' PROVE Stored(a, id) \/ (a = b /\ id = new)
      BY <1>2, <2>1, <2>2, NewOrOld DEF Stored
    <2>3. ASSUME Stored(a, id) PROVE Stored(a, id)'
      <3>1. PICK i \in 1..Len(products[a]) : products[a][i].id = id
        BY <2>3 DEF Stored
      <3>2. i \in 1..Len(products'[a]) /\ products'[a][i] = products[a][i]
        <4>1. Len(products[a]) \in Nat
          BY DEF TypeOK
        <4> QED
          BY <1>2, <4>1, PushBack
      <3> QED
        BY <3>1, <3>2 DEF Stored
    <2>4. ASSUME a = b, id = new PROVE Stored(a, id)'
      <3>1. Len(products[b]) \in Nat
        BY DEF TypeOK
      <3>2. Len(products[b]) + 1 \in 1..Len(products'[b])
        BY <1>2, <3>1, PushBack
      <3> QED
        BY <1>2, <2>1, <2>4, <3>2, PushBack DEF Stored
    <2> QED
      BY <2>2, <2>3, <2>4
  <1>3. ASSUME UNCHANGED products, NEW a \in Address, NEW id \in ProductId
        PROVE  Stored(a, id)' <=> Stored(a, id)
    BY <1>3 DEF Stored
  <1>4. CASE \E b \in Address, new \in ProductId, name \in Name :
               register_product(b, new, name)
    <2>1. PICK b \in Address, new \in ProductId, name \in Name :
              register_product(b, new, name)
      BY <1>4
    <2>2. receipt' = Receipt(b, new, "success")
      BY <2>1 DEF register_product
    <2>3. \A a \in Address, id \in ProductId :
             Stored(a, id)' <=> Stored(a, id) \/ (a = b /\ id = new)
      BY <1>2, <2>1
    <2> QED
      BY <2>2, <2>3
  <1>5. CASE \E a \in Address : init_registry(a)
    BY <1>1, <1>5 DEF Stored
  <1>6. CASE UNCHANGED products
    BY <1>3, <1>6
  <1> QED
    BY <1>4, <1>5, <1>6
    DEF Next, vars, init_registry_abort, register_product_abort, AdvanceTime
-----------------------------------------------------------------------------
(***************************************************************************)
(* The facts about the view, in both states of a step.                     *)
(***************************************************************************)
LEMMA VerdictStep ==
  ASSUME TypeOK, TypeOK', OwnProducts, OwnProducts', [Next]_vars
  PROVE  \/ \A a \in Address, id \in ProductId :
               verify_product(a, id)' <=> verify_product(a, id)
         \/ \E b \in Address, new \in ProductId :
               /\ receipt' = Receipt(b, new, "success")
               /\ \A a \in Address, id \in ProductId :
                     verify_product(a, id)'
                         <=> verify_product(a, id) \/ (a = b /\ id = new)
  <1>1. \A a \in Address, id \in ProductId :
           verify_product(a, id) <=> Stored(a, id)
    BY VerdictsAreStored
  <1>2. (\A a \in Address, id \in ProductId :
            verify_product(a, id) <=> Stored(a, id))'
    BY VerdictsAreStored, PTL
  <1> QED
    BY <1>1, <1>2, StepStores

(***************************************************************************)
(* Only the registration of id by a changes the verdict on (a, id).        *)
(***************************************************************************)
THEOREM OwnerDecidesTheorem == Spec => OwnerDecides
  <1>1. TypeOK /\ TypeOK' /\ OwnProducts /\ OwnProducts' /\ [Next]_vars
          => [\A a \in Address, id \in ProductId :
                verify_product(a, id)' # verify_product(a, id)
                    => receipt' = Receipt(a, id, "success")]_vars
    <2> SUFFICES ASSUME TypeOK, TypeOK', OwnProducts, OwnProducts', [Next]_vars,
                        NEW a \in Address, NEW id \in ProductId,
                        verify_product(a, id)' # verify_product(a, id)
                 PROVE  receipt' = Receipt(a, id, "success")
      OBVIOUS
    <2>1. ~(verify_product(a, id)' <=> verify_product(a, id))
      BY Zenon DEF verify_product, Verdict
    <2> QED
      BY <2>1, VerdictStep
  <1> QED
    BY <1>1, TypeCorrect, OwnProductsInvariant, PTL DEF Spec, OwnerDecides

(***************************************************************************)
(* The contract implements the grow-only ledger of AuthenticityLedger.     *)
(***************************************************************************)
THEOREM ImplementsLedger == Spec => LedgerSpec
  <1> DEFINE abs == [a \in Address |-> {id \in ProductId : verify_product(a, id)}]
  <1>1. Init => Ledger!Init
    BY DEF Init, Ledger!Init, verify_product, Verdict
  <1>2. TypeOK /\ TypeOK' /\ OwnProducts /\ OwnProducts' /\ [Next]_vars
          => [Ledger!Next]_abs
    <2> SUFFICES ASSUME TypeOK, TypeOK', OwnProducts, OwnProducts', [Next]_vars
                 PROVE  [Ledger!Next]_abs
      OBVIOUS
    <2>1. CASE \A a \in Address, id \in ProductId :
                  verify_product(a, id)' <=> verify_product(a, id)
      BY <2>1
    <2>2. CASE \E b \in Address, new \in ProductId :
                  \A a \in Address, id \in ProductId :
                     verify_product(a, id)'
                         <=> verify_product(a, id) \/ (a = b /\ id = new)
      <3>1. PICK b \in Address, new \in ProductId :
                  \A a \in Address, id \in ProductId :
                     verify_product(a, id)'
                         <=> verify_product(a, id) \/ (a = b /\ id = new)
        BY <2>2
      <3>2. abs' = [abs EXCEPT ![b] = @ \cup {new}]
        BY <3>1, Zenon
      <3> QED
        BY <3>2, Zenon DEF Ledger!Next, Ledger!Vouch
    <2> QED
      BY <2>1, <2>2, VerdictStep
  <1> QED
    BY <1>1, <1>2, TypeCorrect, OwnProductsInvariant, PTL
    DEF Spec, LedgerSpec, Ledger!Spec

(***************************************************************************)
(* A registration that succeeded verifies as soon as it has run.           *)
(***************************************************************************)
THEOREM RegisteredVerifiesInvariant == Spec => []RegisteredVerifies
  <1> DEFINE Recorded == receipt.outcome = "success" /\ receipt.id # None
                            => /\ receipt.sender \in Address
                               /\ Stored(receipt.sender, receipt.id)
  <1>1. Init => Recorded
    BY DEF Init, Receipt
  <1>2. TypeOK /\ OwnProducts /\ Recorded /\ [Next]_vars => Recorded'
    <2> SUFFICES ASSUME TypeOK, OwnProducts, Recorded, [Next]_vars
                 PROVE  Recorded'
      BY ZenonT(40)
    <2>1. ASSUME NEW a \in Address, NEW id \in ProductId, NEW name \in Name,
                 register_product(a, id, name)
          PROVE  Recorded'
      <3>1. receipt'.sender = a /\ receipt'.id = id
        BY <2>1 DEF register_product, Receipt
      <3>2. Stored(a, id)'
        <4>1. Len(products[a]) \in Nat
          BY SMTT(40) DEF TypeOK
        <4>2. Len(products[a]) + 1 \in 1..Len(products'[a])
          BY <2>1, <4>1, PushBack
        <4>3. NewProduct(a, id, name).id = id
          BY DEF NewProduct
        <4> QED
          BY <2>1, <4>2, <4>3, PushBack, ZenonT(40) DEF Stored
      <3> QED
        BY <3>1, <3>2 DEF Stored
    <2>2. ASSUME NEW a \in Address,
                 \/ init_registry(a)
                 \/ init_registry_abort(a)
                 \/ \E id \in ProductId : register_product_abort(a, id)
          PROVE  Recorded'
      BY <2>2 DEF init_registry, init_registry_abort, register_product_abort,
                  Receipt
    <2>3. CASE AdvanceTime
      BY <2>3 DEF AdvanceTime, Stored
    <2>4. CASE UNCHANGED vars
      BY <2>4 DEF vars, Stored
    <2> QED
      BY <2>1, <2>2, <2>3, <2>4, ZenonT(40) DEF Next
  <1>3. TypeOK /\ OwnProducts /\ Recorded => RegisteredVerifies
    BY VerdictIsStored DEF RegisteredVerifies
  <1> QED
    BY <1>1, <1>2, <1>3, TypeCorrect, OwnProductsInvariant, PTL DEF Spec
-----------------------------------------------------------------------------
(***************************************************************************)
(* Where the script stands: before the key is saved there is no key file,  *)
(* and afterwards the run works with the account of that file              *)
(* (deploy.ts:20-28).  KeyIsKept is not inductive without it: a request    *)
(* might be made for an account that is not in the file.                   *)
(***************************************************************************)
RunIsKeyed ==
  /\ pc = "unsaved" => key = <<>>
  /\ pc \in {"saved", "funded"} => key = account
  /\ pc # "idle" => \E a \in Address : account = <<a>>

ScriptInvariant == DeploymentTypeOK /\ RunIsKeyed /\ KeyIsKept

(***************************************************************************)
(* As long as there is no key file nothing is known to the chain under a   *)
(* key of the developer (deploy.ts:20-28).                                 *)
(***************************************************************************)
LEMMA NothingWithoutKey ==
  ASSUME KeyIsKept, key = <<>>
  PROVE  rich = {} /\ touched = {} /\ published \ Others = {}
  <1>1. \A a : <<>> # <<a>>
    OBVIOUS
  <1> QED
    BY <1>1 DEF KeyIsKept

(***************************************************************************)
(* A transaction adds no holder of a registry but its sender, and the      *)
(* clock none (product_registry.move:24-29).                               *)
(***************************************************************************)
LEMMA PublishedBySender ==
  ASSUME Next
  PROVE  /\ published' \subseteq published \cup {receipt'.sender}
         /\ now' # now => published' = published
  <1>1. ASSUME NEW a \in Address, init_registry(a)
        PROVE  published' = published \cup {receipt'.sender} /\ now' = now
    BY <1>1 DEF init_registry, Receipt
  <1>2. CASE published' = published
    BY <1>2
  <1> QED
    BY <1>1, <1>2 DEF Next, init_registry_abort, register_product_abort,
                      register_product, AdvanceTime

(***************************************************************************)
(* The invariant of the script under every interleaving of its steps with  *)
(* crashes, failed requests and transactions of others (deploy.ts).        *)
(***************************************************************************)
THEOREM ScriptInvariantTheorem == DeploymentSpec => []ScriptInvariant
  <1>1. DeploymentInit => ScriptInvariant
    BY DEF DeploymentInit, Init, ScriptInvariant, DeploymentTypeOK, RunIsKeyed, KeyIsKept
  <1>2. ScriptInvariant /\ [DeploymentNext]_<<chain, script>> => ScriptInvariant'
    <2> SUFFICES ASSUME ScriptInvariant, [DeploymentNext]_<<chain, script>>
                 PROVE  ScriptInvariant'
      OBVIOUS
    <2> USE DEF ScriptInvariant
    <2> DEFINE Keys == {<<>>, Empty} \cup {<<a>> : a \in Address}
    <2>0. key \in Keys /\ account \in {<<>>} \cup {<<a>> : a \in Address}
          /\ rich \subseteq Address /\ touched \subseteq Address
      BY DEF DeploymentTypeOK
    <2>1. CASE LoadAccount
      BY <2>0, <2>1 DEF LoadAccount, chain, DeploymentTypeOK, RunIsKeyed, KeyIsKept
    <2>2. CASE LoadFails
      BY <2>2 DEF LoadFails, Exit, chain, DeploymentTypeOK, RunIsKeyed, KeyIsKept
    <2>3. CASE CreateAccount
      BY <2>3 DEF CreateAccount, chain, DeploymentTypeOK, RunIsKeyed, KeyIsKept
    <2>4. CASE SaveKey
      <3>1. rich = {} /\ touched = {} /\ published \ Others = {}
        BY <2>4, NothingWithoutKey DEF SaveKey, RunIsKeyed
      <3>2. /\ key' = account /\ pc' = "saved" /\ \E a \in Address : account = <<a>>
            /\ UNCHANGED <<published, account, rich, touched>>
        BY <2>4 DEF SaveKey, RunIsKeyed, chain
      <3> QED
        BY <3>1, <3>2 DEF DeploymentTypeOK, RunIsKeyed, KeyIsKept
    <2>5. ASSUME pc \in {"saved", "funded"}
          PROVE  \E a \in Address : account = <<a>> /\ key = <<a>> /\ account[1] = a
      BY <2>5 DEF RunIsKeyed
    <2>6. CASE BalanceSuffices \/ FundAccount \/ RequestFails
      <3>1. PICK a \in Address : account = <<a>> /\ key = <<a>> /\ account[1] = a
        BY <2>5, <2>6, Zenon DEF BalanceSuffices, FundAccount, RequestFails
      <3>2. /\ touched' = touched \cup {a} /\ rich' \in {rich, rich \cup {a}}
            /\ UNCHANGED <<key, published>>
            /\ \/ pc' = "funded" /\ account' = account
               \/ pc' = "idle" /\ account' = <<>>
        BY <2>6, <3>1, Zenon DEF BalanceSuffices, FundAccount, RequestFails, Exit, chain
      <3> QED
        BY <3>1, <3>2 DEF DeploymentTypeOK, RunIsKeyed, KeyIsKept
    <2>7. CASE PublishPackage
      <3>1. PICK a \in Address : account = <<a>> /\ key = <<a>> /\ account[1] = a
        BY <2>5, <2>7 DEF PublishPackage
      <3>2. /\ published' \in {published, published \cup {a}}
            /\ UNCHANGED <<key, rich, touched>>
            /\ pc' = "idle" /\ account' = <<>>
        BY <2>7, <3>1 DEF PublishPackage, Exit, chain, init_registry, init_registry_abort
      <3> QED
        BY <3>1, <3>2 DEF DeploymentTypeOK, RunIsKeyed, KeyIsKept
    <2>8. CASE Crash
      <3>1. /\ pc' = "idle" /\ account' = <<>>
            /\ key' = key \/ (pc = "unsaved" /\ key' = Empty)
            /\ UNCHANGED <<published, rich, touched>>
        BY <2>8 DEF Crash, Exit, chain
      <3>2. CASE key' = key
        BY <3>1, <3>2 DEF DeploymentTypeOK, RunIsKeyed, KeyIsKept
      <3>3. CASE pc = "unsaved" /\ key' = Empty
        <4>1. rich = {} /\ touched = {} /\ published \ Others = {}
          BY <3>3, NothingWithoutKey, SMTT(40) DEF RunIsKeyed
        <4> QED
          BY <3>1, <3>3, <4>1 DEF DeploymentTypeOK, RunIsKeyed, KeyIsKept
      <3> QED
        BY <3>1, <3>2, <3>3
    <2>9. CASE DeveloperFunds
      <3>1. PICK a \in Address : key = <<a>> /\ key[1] = a
        BY <2>0, <2>9 DEF DeveloperFunds
      <3>2. rich' = rich \cup {a} /\ UNCHANGED <<published, key, pc, account, touched>>
        BY <2>9, <3>1 DEF DeveloperFunds, chain
      <3> QED
        BY <3>1, <3>2 DEF DeploymentTypeOK, RunIsKeyed, KeyIsKept
    <2>10. CASE ChainStep
      <3>1. UNCHANGED <<key, pc, account, rich, touched>>
        BY <2>10 DEF ChainStep, script
      <3>2. \A a \in published' \ Others : a \in published \/ key = <<a>>
        BY <2>10, PublishedBySender DEF ChainStep
      <3> QED
        BY <3>1, <3>2 DEF DeploymentTypeOK, RunIsKeyed, KeyIsKept
    <2>11. CASE UNCHANGED <<chain, script>>
      BY <2>11 DEF chain, script, DeploymentTypeOK, RunIsKeyed, KeyIsKept
    <2> QED
      BY <2>1, <2>2, <2>3, <2>4, <2>6, <2>7, <2>8, <2>9, <2>10, <2>11, SMTT(40)
         DEF DeploymentNext
  <1> QED
    BY <1>1, <1>2, PTL DEF DeploymentSpec

(***************************************************************************)
(* No crash or failed request strands coins or a registry under a key that *)
(* nobody has (deploy.ts:20-52).                                           *)
(***************************************************************************)
THEOREM KeyIsKeptInvariant == DeploymentSpec => []KeyIsKept
  <1>1. ScriptInvariant => KeyIsKept
    BY DEF ScriptInvariant
  <1> QED
    BY <1>1, ScriptInvariantTheorem, PTL

(***************************************************************************)
(* Deployments are nothing new to the contract: with the script's own      *)
(* variables hidden, every behaviour of script and accounts is one of the  *)
(* contract, so its theorems hold beside any number of redeployments.      *)
(***************************************************************************)
THEOREM DeploymentImplementsRegistry == DeploymentSpec => Spec
  <1>1. DeploymentInit => Init
    BY DEF DeploymentInit
  <1>2. ScriptInvariant /\ [DeploymentNext]_<<chain, script>> => [Next]_vars
    <2> SUFFICES ASSUME ScriptInvariant, [DeploymentNext]_<<chain, script>>
                 PROVE  [Next]_vars
      OBVIOUS
    <2>1. CASE UNCHANGED chain
      BY <2>1 DEF chain, vars
    <2>2. CASE PublishPackage
      <3>1. account[1] \in Address
        BY <2>2 DEF PublishPackage, ScriptInvariant, RunIsKeyed
      <3> QED
        BY <2>1, <2>2, <3>1 DEF PublishPackage, Next
    <2> QED
      BY <2>1, <2>2, Zenon
      DEF DeploymentNext, ChainStep, LoadAccount, LoadFails, CreateAccount, SaveKey,
          BalanceSuffices, FundAccount, RequestFails, Crash, DeveloperFunds
  <1> QED
    BY <1>1, <1>2, ScriptInvariantTheorem, PTL DEF DeploymentSpec, Spec

(***************************************************************************)
(* Running the script again never takes a product off the chain: only      *)
(* init_registry empties a vector, and it aborts for an account that has   *)
(* a registry (product_registry.move:24-29, deploy.ts:44-52).              *)
(***************************************************************************)
THEOREM RedeployKeepsProductsTheorem == DeploymentSpec => RedeployKeepsProducts
  <1> DEFINE Kept == \A a \in Address :
                        /\ Len(products'[a]) >= Len(products[a])
                        /\ SubSeq(products'[a], 1, Len(products[a])) = products[a]
  <1>1. TypeOK /\ OwnProducts /\ [Next]_vars => Kept
    <2> SUFFICES ASSUME TypeOK, OwnProducts, [Next]_vars, NEW b \in Address
                 PROVE  /\ Len(products'[b]) >= Len(products[b])
                        /\ SubSeq(products'[b], 1, Len(products[b])) = products[b]
      OBVIOUS
    <2>0. products[b] \in Seq(Product) /\ Len(products[b]) \in Nat
      BY DEF TypeOK
    <2>1. CASE products'[b] = products[b]
      <3>1. SubSeq(products[b], 1, Len(products[b])) = products[b]
        BY <2>0
      <3> QED
        BY <2>0, <2>1, <3>1
    <2>2. ASSUME NEW a \in Address, init_registry(a)
          PROVE  products'[b] = products[b]
      <3>1. CASE a = b
        <4>1. Len(products[b]) = 0
          BY <2>0, <2>2, <3>1 DEF init_registry, OwnProducts
        <4>2. products[b] = <<>>
          BY <2>0, <4>1
        <4> QED
          BY <2>2, <3>1, <4>2, SMTT(40) DEF init_registry, TypeOK
      <3>2. CASE a # b
        BY <2>2, <3>2, SMTT(40) DEF init_registry, TypeOK
      <3> QED
        BY <3>1, <3>2, SMTT(40)
    <2>3. ASSUME NEW a \in Address, NEW id \in ProductId, NEW name \in Name,
                 register_product(a, id, name), a = b
          PROVE  /\ Len(products'[b]) >= Len(products[b])
                 /\ SubSeq(products'[b], 1, Len(products[b])) = products[b]
      <3>1. /\ Len(products'[b]) = Len(products[b]) + 1
            /\ \A i \in 1..Len(products[b]) : products'[b][i] = products[b][i]
        BY <2>3, PushBack, ZenonT(40)
      <3>2. \A i \in 1..Len(products[b]) : products'[b][i] \in Product
        BY <2>0, <3>1
      <3>3. SubSeq(products'[b], 1, Len(products[b])) = products[b]
        BY <2>0, <3>1, <3>2, SubSeqProperties, SeqEqual, SMTT(40)
      <3> QED
        BY <2>0, <3>1, <3>3, SMTT(40)
    <2>4. ASSUME NEW a \in Address, NEW id \in ProductId, NEW name \in Name,
                 register_product(a, id, name), a # b
          PROVE  products'[b] = products[b]
      BY <2>4, PushBack, ZenonT(40)
    <2> QED
      BY <2>1, <2>2, <2>3, <2>4
      DEF Next, vars, init_registry_abort, register_product_abort, AdvanceTime
  <1>2. TypeOK /\ OwnProducts /\ [Next]_vars => [Kept]_<<chain, script>>
    BY <1>1
  <1> QED
    BY <1>2, DeploymentImplementsRegistry, TypeCorrect, OwnProductsInvariant, PTL
    DEF Spec, RedeployKeepsProducts
-----------------------------------------------------------------------------
(***************************************************************************)
(* The loop never borrows outside the vector (product_registry.move:64).   *)
(***************************************************************************)
THEOREM LoopTypeCorrect == ScanSpec => []ScanTypeOK
  <1>1. ScanInit => ScanTypeOK
    <2> SUFFICES ASSUME ScanInit PROVE ScanTypeOK
      OBVIOUS
    <2>1. vector \in Seq(Product)
      BY VectorsAssumption DEF ScanInit
    <2>2. index \in 0..len
      BY <2>1 DEF ScanInit, len
    <2>3. answer \in BOOLEAN
      BY Zenon DEF ScanInit
    <2> QED
      BY <2>1, <2>2, <2>3 DEF ScanInit, ScanTypeOK
  <1>2. ScanTypeOK /\ [ScanNext]_scan_vars => ScanTypeOK'
    <2> SUFFICES ASSUME ScanTypeOK, [ScanNext]_scan_vars PROVE ScanTypeOK'
      OBVIOUS
    <2>1. CASE Found
      <3>1. borrow(index) \in Product
        BY <2>1 DEF Found, ScanTypeOK, borrow, len
      <3> QED
        BY <2>1, <3>1 DEF Found, Return, ScanTypeOK, len, Product
    <2>2. CASE Skip
      BY <2>2 DEF Skip, ScanTypeOK, len
    <2>3. CASE Exhausted
      BY <2>3, Zenon DEF Exhausted, Return, ScanTypeOK, len
    <2>4. CASE UNCHANGED scan_vars
      BY <2>4 DEF scan_vars, ScanTypeOK, len
    <2> QED
      BY <2>1, <2>2, <2>3, <2>4, SMTT(40) DEF ScanNext
  <1> QED
    BY <1>1, <1>2, PTL DEF ScanSpec

(***************************************************************************)
(* No product before the index has the identifier while the loop runs.     *)
(***************************************************************************)
THEOREM LoopInvariantHolds == ScanSpec => []LoopInvariant
  <1>1. ScanInit => LoopInvariant
    BY DEF ScanInit, LoopInvariant
  <1>2. ScanTypeOK /\ LoopInvariant /\ [ScanNext]_scan_vars => LoopInvariant'
    BY DEF ScanTypeOK, LoopInvariant, ScanNext, Found, Skip, Exhausted, Return, scan_vars,
           borrow, len
  <1> QED
    BY <1>1, <1>2, LoopTypeCorrect, PTL DEF ScanSpec

(***************************************************************************)
(* The answer returned is the flag of the first product with the           *)
(* identifier, false when there is none (product_registry.move:63-70).     *)
(***************************************************************************)
THEOREM LoopComputesVerdict == ScanSpec => []PartialCorrectness
  <1>1. ScanInit => PartialCorrectness
    BY DEF ScanInit, PartialCorrectness
  <1>2. ScanTypeOK /\ LoopInvariant /\ PartialCorrectness /\ [ScanNext]_scan_vars
           => PartialCorrectness'
    <2> SUFFICES ASSUME ScanTypeOK, LoopInvariant, PartialCorrectness, [ScanNext]_scan_vars
                 PROVE  PartialCorrectness'
      OBVIOUS
    <2>1. CASE Found
      <3>1. /\ index + 1 \in 1..Len(vector)
            /\ FirstMatch(vector, product_id, index + 1)
        BY <2>1 DEF Found, ScanTypeOK, LoopInvariant, FirstMatch, borrow, len
      <3>2. \A k \in 1..Len(vector) :
               FirstMatch(vector, product_id, k) => k = index + 1
        BY <3>1 DEF FirstMatch, ScanTypeOK, len
      <3>3. Verdict(vector, product_id) = vector[index + 1].is_authentic
        <4>1. vector[index + 1] \in Product
          BY <3>1 DEF ScanTypeOK
        <4> QED
          BY <3>1, <3>2, <4>1, Zenon DEF Verdict, Product
      <3> QED
        BY <2>1, <3>3, Zenon DEF Found, Return, PartialCorrectness, Verdict,
                          FirstMatch, borrow
    <2>2. CASE Skip
      BY <2>2 DEF Skip, PartialCorrectness
    <2>3. CASE Exhausted
      <3>1. \A k \in 1..Len(vector) : vector[k].id # product_id
        BY <2>3 DEF Exhausted, LoopInvariant, ScanTypeOK, len
      <3>2. Verdict(vector, product_id) = FALSE
        BY <3>1 DEF Verdict, FirstMatch
      <3> QED
        BY <2>3, <3>2, Zenon DEF Exhausted, Return, PartialCorrectness, Verdict,
                          FirstMatch
    <2>4. CASE UNCHANGED scan_vars
      BY <2>4 DEF scan_vars, PartialCorrectness, Verdict, FirstMatch
    <2> QED
      BY <2>1, <2>2, <2>3, <2>4 DEF ScanNext
  <1> QED
    BY <1>1, <1>2, LoopTypeCorrect, LoopInvariantHolds, PTL DEF ScanSpec
-----------------------------------------------------------------------------
Results == [kind : {"null", "sample", "chain", "qr"},
            isAuthentic : BOOLEAN, serialNumber : STRING, product : Nat]

Verifications == [ticket : 1..MaxVerifications, serial : Numeric,
                  stage : {"connection", "view"}]

(***************************************************************************)
(* The empty page's verdict has the type of verdicts (App.tsx:41-47).      *)
(***************************************************************************)
LEMMA NullType == null \in Results
<1>1. FALSE \in BOOLEAN
    OBVIOUS
<1>2. "null" \in {"null", "sample", "chain", "qr"} /\ 0 \in Nat
    OBVIOUS
<1>3. "" \in STRING
    BY VerificationAssumption, Zenon
<1> QED
    BY <1>1, <1>2, <1>3, Zenon DEF null, ProductResult, Results

(***************************************************************************)
(* handleVerify keeps the types of what it changes, whichever text its     *)
(* closure holds and whatever verdict is queued (App.tsx:155-173).         *)
(***************************************************************************)
LEMMA HandleVerifyTypes ==
    ASSUME VerifyTypeOK, NEW text \in Text, NEW shown \in Results,
           handleVerify(text, shown)
    PROVE  /\ result' \in Results /\ pending' \subseteq Verifications
           /\ error' \in {"", "bad input"} /\ started' \in 0..MaxVerifications
<1>1. CASE Rejected(shown)
    BY <1>1 DEF Rejected, VerifyTypeOK, Results, Verifications
<1>2. CASE /\ Clean[text] \in Numeric /\ started < MaxVerifications
           /\ error' = "" /\ result' = null /\ started' = started + 1
           /\ pending' = pending \cup
                  {Verification(started + 1, Clean[text], "connection")}
    <2>0. /\ MaxVerifications \in Nat /\ started \in 0..MaxVerifications
          /\ started < MaxVerifications
        BY <1>2, VerificationAssumption, Zenon DEF VerifyTypeOK
    <2>1. started + 1 \in 1..MaxVerifications
        BY <2>0
    <2>2. Verification(started + 1, Clean[text], "connection") \in Verifications
        BY <1>2, <2>1 DEF Verification, Verifications
    <2>3. pending \subseteq Verifications
        BY DEF VerifyTypeOK, Verifications
    <2>4. started' = started + 1
        BY <1>2, Zenon
    <2>5. started' \in 0..MaxVerifications
        BY <2>0, <2>4, SMTT(40)
    <2> QED
        BY <1>2, <2>2, <2>3, <2>5, NullType
<1> QED
    BY <1>1, <1>2 DEF handleVerify

(***************************************************************************)
(* An answer to a verification keeps the types of what it changes          *)
(* (App.tsx:172-221).                                                      *)
(***************************************************************************)
LEMMA AnswerTypes ==
    ASSUME VerifyTypeOK, NEW v \in pending, Answer(v)
    PROVE  /\ result' \in Results /\ pending' \subseteq Verifications
           /\ error' \in {"", "bad input", "not verified", "bad code"}
           /\ UNCHANGED Page
<1> USE DEF Page
<1>0. v \in Verifications /\ pending \subseteq Verifications /\ result \in Results
    BY DEF VerifyTypeOK, Verifications, Results
<1>1. null \in Results
    BY NullType
<1>2. ParseInt[v.serial] \in Nat /\ v.serial \in STRING
    BY <1>0, VerificationAssumption DEF Verifications
<1>3. CASE Fail(v) /\ UNCHANGED Page
    BY <1>0, <1>1, <1>3 DEF Fail, End
<1>4. CASE MockVerdict(v)
    BY <1>0, <1>2, <1>4 DEF MockVerdict, Display, End, ProductResult, Results, VerifyTypeOK
<1>5. CASE CallView(v)
    <2>1. Verification(v.ticket, v.serial, "view") \in Verifications
        BY <1>0, SMTT(40) DEF Verification, Verifications
    <2> QED
        BY <1>0, <1>5, <2>1 DEF CallView, VerifyTypeOK
<1>6. CASE ChainVerdict(v)
    <2>1. (Chain[ParseInt[v.serial]] = "authentic") \in BOOLEAN
        OBVIOUS
    <2> QED
        BY <1>0, <1>2, <1>6, <2>1, ZenonT(40)
        DEF ChainVerdict, Display, End, ProductResult, Results, VerifyTypeOK
<1> QED
    BY <1>3, <1>4, <1>5, <1>6, ZenonT(40)
    DEF Answer, ConnectionRefused, ViewFailed, ProductNotFound

(***************************************************************************)
(* Closing the scanners only lowers their flags (App.tsx:146-153).         *)
(***************************************************************************)
LEMMA ClosingClosed ==
    ASSUME scanners \subseteq [held : Text, open : BOOLEAN]
    PROVE  /\ Closing \subseteq [held : Text, open : BOOLEAN]
           /\ \A s \in Closing : ~s.open
BY Zenon DEF Closing

(***************************************************************************)
(* The page's state keeps its type (App.tsx:57-61).                        *)
(***************************************************************************)
THEOREM PageTypeCorrect == VerifySpec => []VerifyTypeOK
<1>1. VerifyInit => VerifyTypeOK
    <2> SUFFICES ASSUME VerifyInit PROVE VerifyTypeOK
        OBVIOUS
    <2>1. productId \in Text /\ showScanner \in BOOLEAN /\ dev \in BOOLEAN
        BY VerificationAssumption, Zenon DEF VerifyInit
    <2>2. result \in Results
        BY NullType, Zenon DEF VerifyInit
    <2>3. started = 0 /\ MaxVerifications \in Nat
        BY VerificationAssumption, Zenon DEF VerifyInit
    <2>4. started \in 0..MaxVerifications
        BY <2>3
    <2>5. scanners = {} /\ pending = {} /\ error = ""
        BY Zenon DEF VerifyInit
    <2> QED
        BY <2>1, <2>2, <2>4, <2>5 DEF VerifyTypeOK, Results
<1>2. VerifyTypeOK /\ [VerifyNext]_verify_vars => VerifyTypeOK'
    <2> SUFFICES ASSUME VerifyTypeOK, [VerifyNext]_verify_vars PROVE VerifyTypeOK'
        OBVIOUS
    <2> USE VerificationAssumption
    <2>1. CASE EditProductId
        BY <2>1 DEF EditProductId, VerifyTypeOK
    <2>2. CASE ClickVerify
        <3>1. result \in Results
            BY DEF VerifyTypeOK, Results
        <3>2. productId \in Text /\ handleVerify(productId, result)
            BY <2>2 DEF ClickVerify, VerifyTypeOK
        <3> QED
            BY <2>2, <3>1, <3>2, HandleVerifyTypes, ZenonT(40)
            DEF ClickVerify, VerifyTypeOK, Results, Verifications
    <2>3. ASSUME NEW v \in pending, Answer(v) PROVE VerifyTypeOK'
        BY <2>3, AnswerTypes, ZenonT(40) DEF VerifyTypeOK, Page, Results, Verifications
    <2>4. CASE handleScanQR
        <3>1. [held |-> productId, open |-> TRUE] \in [held : Text, open : BOOLEAN]
            BY Zenon DEF VerifyTypeOK
        <3>2. showScanner' \in BOOLEAN
            BY <2>4, Zenon DEF handleScanQR
        <3> QED
            BY <2>4, <3>1, <3>2, ZenonT(40) DEF handleScanQR, VerifyTypeOK
    <2>5. CASE CancelScanning
        BY <2>5, ClosingClosed DEF CancelScanning, VerifyTypeOK
    <2>6. CASE ScanRejected
        BY <2>6, ClosingClosed DEF ScanRejected, VerifyTypeOK
    <2>7. ASSUME NEW s \in scanners, ScannerCleared(s) PROVE VerifyTypeOK'
        BY <2>7, ZenonT(40) DEF ScannerCleared, VerifyTypeOK
    <2>8. ASSUME NEW s \in scanners, NEW c \in Code, ScanAccepted(s, c)
          PROVE  VerifyTypeOK'
        <3> DEFINE shown == ProductResult("qr", TRUE, CodeId[c], 0)
        <3>1. shown \in Results /\ s.held \in Text
            BY ZenonT(40) DEF ProductResult, Results, VerifyTypeOK
        <3>2. handleVerify(s.held, shown)
            BY <2>8 DEF ScanAccepted
        <3>3. /\ result' \in Results /\ pending' \subseteq Verifications
              /\ error' \in {"", "bad input"} /\ started' \in 0..MaxVerifications
            BY <3>1, <3>2, HandleVerifyTypes
        <3> QED
            BY <2>8, <3>3, ClosingClosed, ZenonT(40)
            DEF ScanAccepted, VerifyTypeOK, Results, Verifications
    <2>9. CASE UNCHANGED verify_vars
        BY <2>9 DEF verify_vars, VerifyTypeOK
    <2> QED
        BY <2>1, <2>2, <2>3, <2>4, <2>5, <2>6, <2>7, <2>8, <2>9 DEF VerifyNext
<1> QED
    BY <1>1, <1>2, PTL DEF VerifySpec

(***************************************************************************)
(* A chain verdict names its own product, however the field was edited     *)
(* meanwhile: the serial number shown is the one of the call that asked    *)
(* (App.tsx:157, 193, 208-214).  Inductive relative to the type.           *)
(***************************************************************************)
THEOREM VerdictNamesItsProductInvariant == VerifySpec => []VerdictNamesItsProduct
<1>1. VerifyInit => VerdictNamesItsProduct
    <2>1. null.kind # "chain"
        BY SMTT(40) DEF null, ProductResult
    <2> QED
        BY <2>1, Zenon DEF VerifyInit, VerdictNamesItsProduct
<1>2. VerifyTypeOK /\ VerdictNamesItsProduct /\ [VerifyNext]_verify_vars
         => VerdictNamesItsProduct'
    <2> SUFFICES ASSUME VerifyTypeOK, VerdictNamesItsProduct, [VerifyNext]_verify_vars
                 PROVE  VerdictNamesItsProduct'
        OBVIOUS
    <2>1. CASE UNCHANGED result
        BY <2>1 DEF VerdictNamesItsProduct
    <2>2. CASE result' # result /\ result'.kind # "chain"
        BY <2>2 DEF VerdictNamesItsProduct
    <2>3. null.kind # "chain"
        BY SMTT(40) DEF null, ProductResult
    <2>4. ASSUME NEW v \in pending, Answer(v) PROVE VerdictNamesItsProduct'
        <3>1. CASE Fail(v)
            BY <2>3, <3>1 DEF Fail, VerdictNamesItsProduct
        <3>2. CASE MockVerdict(v)
            BY <3>2, ZenonT(40) DEF MockVerdict, Display, ProductResult, VerdictNamesItsProduct
        <3>3. CASE CallView(v)
            BY <2>1, <3>3 DEF CallView
        <3>4. CASE ChainVerdict(v)
            <4>1. v.serial \in Numeric
                BY ZenonT(40) DEF VerifyTypeOK
            <4>2. result' = [kind |-> "chain",
                             isAuthentic |-> Chain[ParseInt[v.serial]] = "authentic",
                             serialNumber |-> v.serial, product |-> ParseInt[v.serial]]
                BY <3>4, Zenon DEF ChainVerdict, Display, ProductResult
            <4> QED
                BY <4>1, <4>2, Zenon DEF VerdictNamesItsProduct
        <3> QED
            BY <2>4, <3>1, <3>2, <3>3, <3>4, ZenonT(40)
            DEF Answer, ConnectionRefused, ViewFailed, ProductNotFound
    <2>5. ASSUME NEW text, NEW shown, handleVerify(text, shown),
                 shown = result \/ shown.kind # "chain"
          PROVE  VerdictNamesItsProduct'
        BY <2>1, <2>3, <2>5, ZenonT(40) DEF handleVerify, Rejected, VerdictNamesItsProduct
    <2>6. CASE ClickVerify
        BY <2>5, <2>6 DEF ClickVerify
    <2>7. ASSUME NEW s \in scanners, NEW c \in Code, ScanAccepted(s, c)
          PROVE  VerdictNamesItsProduct'
        <3>1. ProductResult("qr", TRUE, CodeId[c], 0).kind # "chain"
            BY DEF ProductResult
        <3> QED
            BY <2>5, <2>7, <3>1, Zenon DEF ScanAccepted
    <2> QED
        BY <2>1, <2>4, <2>6, <2>7, ZenonT(40)
        DEF VerifyNext, verify_vars, EditProductId, handleScanQR, CancelScanning, ScanRejected,
            ScannerCleared
<1> QED
    BY <1>1, <1>2, PageTypeCorrect, PTL DEF VerifySpec

(***************************************************************************)
(* When nothing is awaited the page shows a verdict or a message: a call   *)
(* that ends leaves one of them, and one that clears both is awaited from  *)
(* then on (App.tsx:169-170, 216-220).                                     *)
(***************************************************************************)
THEOREM AlwaysAnsweredInvariant == VerifySpec => []AlwaysAnswered
<1>1. VerifyInit => AlwaysAnswered
    <2>1. ~(0 > 0)
        OBVIOUS
    <2> QED
        BY <2>1, Zenon DEF VerifyInit, AlwaysAnswered
<1>2. AlwaysAnswered /\ [VerifyNext]_verify_vars => AlwaysAnswered'
    <2> SUFFICES ASSUME AlwaysAnswered, [VerifyNext]_verify_vars PROVE AlwaysAnswered'
        OBVIOUS
    <2>1. CASE UNCHANGED <<result, error, pending, started>>
        BY <2>1 DEF AlwaysAnswered
    <2>2. CASE error' # ""
        BY <2>2 DEF AlwaysAnswered
    <2>3. ASSUME NEW v \in pending, Answer(v) PROVE AlwaysAnswered'
        <3>1. CASE Fail(v)
            BY <2>2, <3>1 DEF Fail
        <3>2. ASSUME NEW kind \in {"sample", "chain"}, NEW flag, NEW serial, NEW product,
                     Display(v, ProductResult(kind, flag, serial, product))
              PROVE  AlwaysAnswered'
            <4>1. ProductResult(kind, flag, serial, product) # null
                BY ZenonT(40) DEF ProductResult, null
            <4> QED
                BY <3>2, <4>1 DEF Display, AlwaysAnswered
        <3>3. CASE CallView(v)
            BY <3>3 DEF CallView, AlwaysAnswered
        <3> QED
            BY <2>3, <3>1, <3>2, <3>3, Zenon
            DEF Answer, ConnectionRefused, ViewFailed, ProductNotFound, MockVerdict,
                ChainVerdict
    <2>4. ASSUME NEW text, NEW shown, handleVerify(text, shown) PROVE AlwaysAnswered'
        BY <2>2, <2>4 DEF handleVerify, Rejected, AlwaysAnswered
    <2>5. CASE ScanRejected
        BY <2>2, <2>5 DEF ScanRejected
    <2> QED
        BY <2>1, <2>3, <2>4, <2>5, Zenon
           DEF VerifyNext, verify_vars, EditProductId, ClickVerify, handleScanQR, CancelScanning,
            ScannerCleared, ScanAccepted
<1> QED
    BY <1>1, <1>2, PTL DEF VerifySpec

(***************************************************************************)
(* One scanner is open while the page shows it, and none otherwise, also   *)
(* when a callback of an older instance comes late (App.tsx:99-153): every *)
(* way to close the section closes all instances.                          *)
(***************************************************************************)
THEOREM OneOpenScannerInvariant == VerifySpec => []OneOpenScanner
<1>1. VerifyInit => OneOpenScanner
    BY DEF VerifyInit, OneOpenScanner
<1>2. VerifyTypeOK /\ OneOpenScanner /\ [VerifyNext]_verify_vars => OneOpenScanner'
    <2> SUFFICES ASSUME VerifyTypeOK, OneOpenScanner, [VerifyNext]_verify_vars
                 PROVE  OneOpenScanner'
        OBVIOUS
    <2>0. scanners \subseteq [held : Text, open : BOOLEAN]
        BY DEF VerifyTypeOK
    <2>1. CASE UNCHANGED <<showScanner, scanners>>
        BY <2>1 DEF OneOpenScanner
    <2>2. CASE showScanner' = FALSE /\ scanners' = Closing
        BY <2>0, <2>2, ClosingClosed DEF OneOpenScanner
    <2>3. CASE handleScanQR
        <3>1. showScanner' = TRUE /\ ~showScanner
              /\ scanners' = scanners \cup {[held |-> productId, open |-> TRUE]}
            BY <2>3, Zenon DEF handleScanQR
        <3>2. \A s \in scanners : ~s.open
            BY <3>1, Zenon DEF OneOpenScanner
        <3>3. [held |-> productId, open |-> TRUE].open = TRUE
            BY Zenon
        <3> QED
            BY <3>1, <3>2, <3>3, Zenon DEF OneOpenScanner
    <2>4. ASSUME NEW s \in scanners, ScannerCleared(s) PROVE OneOpenScanner'
        BY <2>4 DEF ScannerCleared, OneOpenScanner
    <2> QED
        BY <2>1, <2>2, <2>3, <2>4, ZenonT(40)
        DEF VerifyNext, verify_vars, EditProductId, ClickVerify, Answer, ConnectionRefused,
            MockVerdict, CallView, ViewFailed, ProductNotFound, ChainVerdict, Page,
            CancelScanning, ScanRejected, ScanAccepted
<1> QED
    BY <1>1, <1>2, PageTypeCorrect, PTL DEF VerifySpec
=============================================================================
