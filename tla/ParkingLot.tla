----------------------------- MODULE ParkingLot -----------------------------
(***************************************************************************)
(* The parking lot of the vendored Aptos mempool (ParkingLotIndex in       *)
(* core_mempool/index.rs): the non-ready transactions of each account in a *)
(* vector, so that one can be drawn at random, and a map from accounts to  *)
(* places in the vector.  Mempool sees of it the set of its entries;       *)
(* ParkingLotConsistent says that this is all there is to see.             *)
(*                                                                         *)
(* An entry is what the index keeps of a transaction: sender, sequence     *)
(* number and hash.                                                        *)
(***************************************************************************)
EXTENDS Integers, Sequences, FiniteSets, FiniteSetsExt

CONSTANT Parkable       \* the entries that may be parked

ASSUME ParkingAssumption ==
    /\ IsFiniteSet(Parkable)
    /\ \A e \in Parkable : e.seq \in Nat

VARIABLES
    data,               \* vector of accounts and their entries
    account_indices,    \* account -> its place in data
    size,
    contents            \* the entries inserted and not removed since

lot_vars == <<data, account_indices, size, contents>>

(* ParkingLotIndex::new *)
LotInit ==
    /\ data = <<>>
    /\ account_indices = <<>>
    /\ size = 0
    /\ contents = {}

Index(f, x, v) == [y \in DOMAIN f \cup {x} |-> IF y = x THEN v ELSE f[y]]
Unindex(f, x) == [y \in DOMAIN f \ {x} |-> f[y]]

(* ParkingLotIndex::insert, for an account with entries and for another *)
parking_insert(e) ==
    /\ contents' = contents \cup {e}
    /\ \/ /\ e.sender \in DOMAIN account_indices
          /\ LET i == account_indices[e.sender]
             IN  /\ data' = [data EXCEPT ![i].txns = @ \cup {e}]
                 /\ size' = IF e \in data[i].txns THEN size ELSE size + 1
          /\ UNCHANGED account_indices
       \/ /\ e.sender \notin DOMAIN account_indices
          /\ data' = Append(data, [account |-> e.sender, txns |-> {e}])
          /\ account_indices' = Index(account_indices, e.sender, Len(data) + 1)
          /\ size' = size + 1

swap_remove(s, i) == SubSeq([s EXCEPT ![i] = s[Len(s)]], 1, Len(s) - 1)

Reindexed_not(indices, vec, i) == indices

(* The account whose entry swap_remove moved is indexed again. *)
Reindexed(indices, vec, i) ==
    IF i \in DOMAIN vec THEN Index(indices, vec[i].account, i) ELSE indices

(* ParkingLotIndex::remove, of any transaction that leaves the mempool or
   becomes ready, parked or not *)
parking_remove(e) ==
    /\ contents' = contents \ {e}
    /\ \/ /\ e.sender \notin DOMAIN account_indices
          /\ UNCHANGED <<data, account_indices, size>>
       \/ /\ e.sender \in DOMAIN account_indices
          /\ LET i == account_indices[e.sender]
                 rest == data[i].txns \ {e}
             IN  /\ size' = IF e \in data[i].txns THEN size - 1 ELSE size
                 /\ \/ /\ rest # {}
                       /\ data' = [data EXCEPT ![i].txns = rest]
                       /\ UNCHANGED account_indices
                    \/ /\ rest = {}
                       /\ data' = swap_remove(data, i)
                       /\ account_indices' =
                              Reindexed(Unindex(account_indices, e.sender), data', i)

LotNext == \E e \in Parkable : parking_insert(e) \/ parking_remove(e)

LotSpec == LotInit /\ [][LotNext]_lot_vars
-----------------------------------------------------------------------------
(* What get_poppable may draw: of a random place of the vector, an entry with
   the highest sequence number. *)
Poppable(vec) ==
    UNION {{e \in vec[i].txns : \A f \in vec[i].txns : f.seq <= e.seq} :
               i \in DOMAIN vec}

(***************************************************************************)
(* The invariants that ParkingLotIndex states of its data (index.rs:416):  *)
(* no account has an empty entry, and account_indices leads from each      *)
(* account to its own entry and no further.  The lot then holds what was   *)
(* inserted and not removed, its size counts that, and a draw gives the    *)
(* highest sequence number of some account, as the eviction expects.       *)
(***************************************************************************)
ParkingLotConsistent ==
    /\ DOMAIN account_indices = {data[i].account : i \in DOMAIN data}
    /\ \A i \in DOMAIN data :
        /\ data[i].txns # {}
        /\ data[i].txns = {e \in contents : e.sender = data[i].account}
        /\ account_indices[data[i].account] = i
    /\ contents = UNION {data[i].txns : i \in DOMAIN data}
    /\ size = Cardinality(contents)
    /\ Poppable(data) =
           {e \in contents : \A f \in contents : f.sender = e.sender => f.seq <= e.seq}
=============================================================================
