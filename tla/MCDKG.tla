------------------------------- MODULE MCDKG -------------------------------
(***************************************************************************)
(* The three parts of distributed key generation on small instances: the   *)
(* validator transaction pool, the broadcast that collects transcripts,    *)
(* and the node with its epoch manager.  In each behaviour one part runs   *)
(* and the other two are at rest, in a state in which they have stopped.   *)
(***************************************************************************)
EXTENDS VTxnPool, TranscriptBroadcast, DKGNode, TLC

CONSTANTS dkg, jwk, small, large, me, big, odd   \* model values

VARIABLE part

Sizes == small :> 1 @@ large :> 2
Powers == me :> 1 @@ big :> 3 @@ odd :> 1

(* The dealing of one validator, or an aggregate of all. *)
DealerSets == {{me}, {big}, Validator}

(* What one honest round leaves: each validator's own transcript. *)
OwnParts == {[peer |-> v, dealers |-> {v}] : v \in Validator}

all_vars == <<part, pool_vars, broadcast_vars, node_vars>>

BroadcastRests ==
    /\ rpc = {} /\ tasks = {} /\ results = {}
    /\ contributors = Validator /\ trx = OwnParts
    /\ failures = [v \in Validator |-> 0]
    /\ returned = <<OwnParts>>

NodeRests ==
    /\ chain = [epoch |-> MaxEpoch, session |-> MaxEpoch]
    /\ starts = <<>> /\ reconfigs = <<>> /\ payload = <<>>
    /\ em = "panicked" /\ epoch = MaxEpoch
    /\ close_tx = "none" /\ start_tx = MaxEpoch /\ mgr = <<>>
    /\ producer = {} /\ pool = {} /\ crashes = MaxCrashes

Init ==
    /\ PoolInit
    /\ \/ part = "pool" /\ BroadcastRests /\ NodeRests
       \/ part = "broadcast" /\ BroadcastInit /\ NodeRests
       \/ part = "node" /\ BroadcastRests /\ NodeInit

Next ==
    \/ part = "pool" /\ PoolNext /\ UNCHANGED <<part, broadcast_vars, node_vars>>
    \/ part = "broadcast" /\ BroadcastNext /\ UNCHANGED <<part, pool_vars, node_vars>>
    \/ part = "node" /\ NodeNext /\ UNCHANGED <<part, pool_vars, broadcast_vars>>

Spec == Init /\ [][Next]_all_vars /\ BroadcastFairness /\ NodeFairness
=============================================================================
