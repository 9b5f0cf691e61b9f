----------------------------- MODULE MCMempool -----------------------------
(***************************************************************************)
(* A mempool of three transactions for two accounts, and a parking lot for *)
(* three accounts.  In each behaviour one of the two runs and the other is *)
(* empty.                                                                  *)
(***************************************************************************)
EXTENDS MempoolQueries, ParkingLot, TLC

CONSTANTS brief, lasting

VARIABLE part

MCBytes == brief :> 2 @@ lasting :> 1
MCExpiration == brief :> 0 @@ lasting :> 1
MCBucketMins == <<0, 2>>

Arrival(a, n, g, b, s) ==
    [txn |-> [sender |-> a, seq |-> n, gas |-> g, body |-> b], state |-> s]

MCArrivals ==
    {Arrival(1, 0, 1, lasting, NotReady), Arrival(1, 0, 2, lasting, NotReady),
     Arrival(1, 1, 2, brief, NotReady), Arrival(1, 2, 1, lasting, NonQualified),
     Arrival(2, 0, 2, brief, NonQualified), Arrival(2, 1, 1, lasting, NotReady)}

Entry(a, n, h) == [sender |-> a, seq |-> n, hash |-> h]

(* Two accounts with several entries, one of them in two versions. *)
MCParkable ==
    {Entry(1, 0, brief), Entry(1, 1, brief), Entry(1, 1, lasting),
     Entry(2, 0, brief), Entry(2, 1, brief), Entry(3, 0, brief)}

Init == MempoolInit /\ LotInit /\ part \in {"mempool", "lot"}

Next ==
    \/ part = "mempool" /\ MempoolNext /\ UNCHANGED <<part, lot_vars>>
    \/ part = "lot" /\ LotNext /\ UNCHANGED <<part, mempool_vars>>

Spec == Init /\ [][Next]_<<part, mempool_vars, lot_vars>>
=============================================================================
