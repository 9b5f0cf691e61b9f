------------------------------ MODULE DKGNode ------------------------------
(***************************************************************************)
(* Distributed key generation in one validator: the epoch manager          *)
(* (aptos-core/dkg/src/epoch_manager.rs), the DKG manager it spawns in     *)
(* each epoch (dkg_manager/mod.rs), the producer task that manager starts  *)
(* (agg_trx_producer.rs), and the topic Topic::DKG of the validator        *)
(* transaction pool (module VTxnPool).  They are tasks of one runtime and  *)
(* talk through channels.  The chain is external: it changes epoch and     *)
(* starts sessions, and the node learns of both through two notification   *)
(* channels (state-sync/inter-component/event-notifications), between      *)
(* which nothing keeps the order.                                          *)
(***************************************************************************)
EXTENDS Naturals, Sequences

CONSTANTS
    MaxEpoch,     \* bound: epochs of the chain
    MaxCrashes    \* bound: restarts of the node

ASSUME NodeAssumption == MaxEpoch \in Nat \ {0} /\ MaxCrashes \in Nat

VARIABLES
    chain,        \* [epoch, session]: session is in_progress.dealer_epoch, or 0
    starts,       \* DKGStart notifications not taken yet: dealer epochs
    reconfigs,    \* the reconfiguration notification not taken yet; it keeps the last
    em,           \* the epoch manager: "awaiting", "running", "closing", "panicked"
    epoch,        \* its epoch_state, 0 before the first
    payload,      \* the notification on_new_epoch works on, <<>> for none
    close_tx,     \* dkg_manager_close_tx: "none", "live", "dangling"
    start_tx,     \* the epoch dkg_start_event_tx was made in, 0 for none
    mgr,          \* <<>>, or <<the DKG manager>>
    producer,     \* epochs whose producer task runs
    pool,         \* epochs of DKG transactions in the pool
    crashes

node_vars == <<chain, starts, reconfigs, em, epoch, payload, close_tx, start_tx, mgr,
               producer, pool, crashes>>

Epoch == 1..MaxEpoch

(***************************************************************************)
(* A manager: its epoch; its state, where Spawned is before run() has      *)
(* looked at in_progress_session; that session; and what waits in its      *)
(* channels, each of which keeps one message, the last.                    *)
(***************************************************************************)
Manager(e, s) ==
    [epoch |-> e, state |-> "Spawned", session |-> s, start |-> 0,
     agg |-> FALSE, notify |-> FALSE, close |-> FALSE, proposed |-> FALSE]

M == mgr[1]
Alive == mgr # <<>>
InLoop == Alive /\ M.state # "Spawned"

NodeInit ==
    /\ chain = [epoch |-> 1, session |-> 0]
    /\ starts = <<>>
    /\ reconfigs = <<chain>>
    /\ em = "awaiting"
    /\ epoch = 0
    /\ payload = <<>>
    /\ close_tx = "none"
    /\ start_tx = 0
    /\ mgr = <<>>
    /\ producer = {}
    /\ pool = {}
    /\ crashes = 0
-----------------------------------------------------------------------------
(* The chain.  A session starts at most once in an epoch. *)
ChainStartsSession ==
    /\ chain.session # chain.epoch
    /\ chain' = [chain EXCEPT !.session = chain.epoch]
    /\ starts' = Append(starts, chain.epoch)
    /\ UNCHANGED <<reconfigs, em, epoch, payload, close_tx, start_tx, mgr,
                   producer, pool, crashes>>

(* A new epoch; a session may be left unfinished behind it. *)
ChainReconfigures ==
    /\ chain.epoch < MaxEpoch
    /\ \E s \in {0, chain.session} :
          chain' = [epoch |-> chain.epoch + 1, session |-> s]
    /\ reconfigs' = <<chain'>>
    /\ UNCHANGED <<starts, em, epoch, payload, close_tx, start_tx, mgr,
                   producer, pool, crashes>>

(* consensus pulls the transaction, and the pool notifies its manager. *)
ConsensusPulls ==
    /\ pool # {}
    /\ mgr' = IF Alive /\ M.epoch \in pool
              THEN <<[M EXCEPT !.notify = TRUE]>> ELSE mgr
    /\ UNCHANGED <<chain, starts, reconfigs, em, epoch, payload, close_tx,
                   start_tx, producer, pool, crashes>>

(* The process dies and starts over with the configuration in its database. *)
Crash ==
    /\ crashes < MaxCrashes
    /\ crashes' = crashes + 1
    /\ starts' = <<>>
    /\ reconfigs' = <<chain>>
    /\ em' = "awaiting"
    /\ epoch' = 0
    /\ payload' = <<>>
    /\ close_tx' = "none"
    /\ start_tx' = 0
    /\ mgr' = <<>>
    /\ producer' = {}
    /\ pool' = {}
    /\ UNCHANGED chain
-----------------------------------------------------------------------------
(* on_dkg_start_notification: into the channel of the epoch it was made in. *)
on_dkg_start_notification ==
    /\ em = "running"
    /\ starts # <<>>
    /\ starts' = Tail(starts)
    /\ mgr' = IF Alive /\ start_tx = M.epoch
              THEN <<[M EXCEPT !.start = Head(starts)]>> ELSE mgr
    /\ UNCHANGED <<chain, reconfigs, em, epoch, payload, close_tx, start_tx,
                   producer, pool, crashes>>

(***************************************************************************)
(* on_new_epoch, up to the await of shutdown_current_processor.            *)
(* tx.send(..).unwrap() panics when nobody holds the receiver.             *)
(***************************************************************************)
shutdown_current_processor ==
    /\ em \in {"awaiting", "running"}
    /\ reconfigs # <<>>
    /\ reconfigs' = <<>>
    /\ payload' = reconfigs
    /\ em' = IF close_tx = "dangling" THEN "panicked" ELSE "closing"
    /\ close_tx' = "none"
    /\ mgr' = IF close_tx = "live" THEN <<[M EXCEPT !.close = TRUE]>> ELSE mgr
    /\ UNCHANGED <<chain, starts, epoch, start_tx, producer, pool, crashes>>

Acknowledged_at_once == em = "closing"

(* ack_rx.await: the manager has gone, or there was none to close. *)
Acknowledged == em = "closing" /\ ~ (Alive /\ M.close)

(* start_new_epoch for a validator of the new set, with randomness on. *)
start_new_epoch_spawns ==
    /\ Acknowledged
    /\ epoch' = payload[1].epoch
    /\ start_tx' = epoch'
    /\ close_tx' = "live"
    /\ mgr' = <<Manager(epoch', payload[1].session)>>
    /\ em' = "running"
    /\ payload' = <<>>
    /\ UNCHANGED <<chain, starts, reconfigs, producer, pool, crashes>>

(* Not in the set, or randomness off: only epoch_state changes. *)
start_new_epoch_idle ==
    /\ Acknowledged
    /\ epoch' = payload[1].epoch
    /\ em' = "running"
    /\ payload' = <<>>
    /\ UNCHANGED <<chain, starts, reconfigs, close_tx, start_tx, mgr, producer,
                   pool, crashes>>

(***************************************************************************)
(* The consensus key is not in storage: the senders have been stored, the  *)
(* function returns early and their receivers are dropped.  The first call *)
(* is unwrapped by await_reconfig_notification.                            *)
(***************************************************************************)
start_new_epoch_no_key ==
    /\ Acknowledged
    /\ em' = IF epoch = 0 THEN "panicked" ELSE "running"
    /\ epoch' = payload[1].epoch
    /\ start_tx' = epoch'
    /\ close_tx' = "dangling"
    /\ payload' = <<>>
    /\ UNCHANGED <<chain, starts, reconfigs, mgr, producer, pool, crashes>>
-----------------------------------------------------------------------------
(* The manager's handlers leave the chain and the epoch manager alone. *)
Outside == <<chain, starts, reconfigs, em, epoch, payload, close_tx, start_tx, crashes>>

(* setup_deal_broadcast: the producer task starts, the state is InProgress. *)
Dealt(m) == [m EXCEPT !.state = "InProgress"]

(* run() up to its loop: a session of this epoch is resumed. *)
Resume_never ==
    /\ Alive /\ M.state = "Spawned"
    /\ mgr' = <<[M EXCEPT !.state = "NotStarted"]>>
    /\ UNCHANGED <<Outside, producer, pool>>

Resume ==
    /\ Alive /\ M.state = "Spawned"
    /\ IF M.session = M.epoch
          THEN mgr' = <<Dealt(M)>> /\ producer' = producer \cup {M.epoch}
          ELSE mgr' = <<[M EXCEPT !.state = "NotStarted"]>> /\ UNCHANGED producer
    /\ UNCHANGED <<Outside, pool>>

process_dkg_start_event ==
    /\ InLoop /\ M.start # 0
    /\ IF M.state = "NotStarted" /\ M.start = M.epoch
          THEN mgr' = <<Dealt([M EXCEPT !.start = 0])>> /\ producer' = producer \cup {M.epoch}
          ELSE mgr' = <<[M EXCEPT !.start = 0]>> /\ UNCHANGED producer
    /\ UNCHANGED <<Outside, pool>>

(* The task of start_produce ends: the channel takes its transcript. *)
ProducerEnds(e) ==
    /\ e \in producer
    /\ producer' = producer \ {e}
    /\ mgr' = IF Alive /\ M.epoch = e THEN <<[M EXCEPT !.agg = TRUE]>> ELSE mgr
    /\ UNCHANGED <<Outside, pool>>

(***************************************************************************)
(* process_aggregated_transcript.  mem::take leaves NotStarted behind when *)
(* the handler bails, and drops the guard of a finished session.           *)
(***************************************************************************)
process_aggregated_transcript ==
    /\ InLoop /\ M.agg
    /\ IF M.state = "InProgress"
          THEN /\ mgr' = <<[M EXCEPT !.agg = FALSE, !.state = "Finished"]>>
               /\ pool' = {M.epoch}
          ELSE /\ mgr' = <<[M EXCEPT !.agg = FALSE, !.state = "NotStarted"]>>
               /\ pool' = IF M.state = "Finished" THEN pool \ {M.epoch} ELSE pool
    /\ UNCHANGED <<Outside, producer>>

process_dkg_txn_pulled_notification ==
    /\ InLoop /\ M.notify
    /\ mgr' = <<[M EXCEPT !.notify = FALSE,
                         !.proposed = (@ \/ M.state = "Finished")]>>
    /\ UNCHANGED <<Outside, producer, pool>>

process_close_cmd_keeps_guard ==
    /\ InLoop /\ M.close
    /\ mgr' = <<>>
    /\ producer' = IF M.state = "InProgress" THEN producer \ {M.epoch} ELSE producer
    /\ UNCHANGED <<Outside, pool>>

process_close_cmd_no_abort ==
    /\ InLoop /\ M.close
    /\ mgr' = <<>>
    /\ pool' = IF M.state = "Finished" THEN pool \ {M.epoch} ELSE pool
    /\ UNCHANGED <<Outside, producer>>

process_close_cmd_when_dealt ==
    /\ InLoop /\ M.close
    /\ M.state # "NotStarted"
    /\ mgr' = <<>>
    /\ producer' = IF M.state = "InProgress" THEN producer \ {M.epoch} ELSE producer
    /\ pool' = IF M.state = "Finished" THEN pool \ {M.epoch} ELSE pool
    /\ UNCHANGED Outside

(* process_close_cmd: abort the producer or drop the guard, acknowledge, stop. *)
process_close_cmd ==
    /\ InLoop /\ M.close
    /\ mgr' = <<>>
    /\ producer' = IF M.state = "InProgress" THEN producer \ {M.epoch} ELSE producer
    /\ pool' = IF M.state = "Finished" THEN pool \ {M.epoch} ELSE pool
    /\ UNCHANGED Outside

StartNewEpoch ==
    start_new_epoch_spawns \/ start_new_epoch_idle \/ start_new_epoch_no_key

NodeNext ==
    \/ ChainStartsSession \/ ChainReconfigures \/ ConsensusPulls \/ Crash
    \/ on_dkg_start_notification \/ shutdown_current_processor \/ StartNewEpoch
    \/ Resume \/ process_dkg_start_event \/ process_aggregated_transcript
    \/ process_dkg_txn_pulled_notification \/ process_close_cmd
    \/ \E e \in Epoch : ProducerEnds(e)

(***************************************************************************)
(* The runtime polls every ready task, and select! picks a ready branch at *)
(* random, so none that stays ready is passed over for ever.  A broadcast  *)
(* ends (module TranscriptBroadcast).  The chain owes nothing.             *)
(***************************************************************************)
NodeFairness ==
    /\ WF_node_vars(on_dkg_start_notification) /\ WF_node_vars(shutdown_current_processor)
    /\ WF_node_vars(StartNewEpoch)
    /\ WF_node_vars(Resume) /\ WF_node_vars(process_dkg_start_event)
    /\ WF_node_vars(process_aggregated_transcript)
    /\ WF_node_vars(process_dkg_txn_pulled_notification) /\ WF_node_vars(process_close_cmd)
    /\ \A e \in Epoch : WF_node_vars(ProducerEnds(e))

NodeSpec == NodeInit /\ [][NodeNext]_node_vars /\ NodeFairness
-----------------------------------------------------------------------------
(* Type invariant: the state of the two managers and their channels. *)
NodeTypeOK ==
    /\ chain \in [epoch : Epoch, session : 0..MaxEpoch]
    /\ em \in {"awaiting", "running", "closing", "panicked"}
    /\ epoch \in 0..MaxEpoch
    /\ em = "closing" => payload # <<>>
    /\ close_tx \in {"none", "live", "dangling"}
    /\ Len(mgr) <= 1
    /\ Alive => /\ M.state \in {"Spawned", "NotStarted", "InProgress", "Finished"}
                /\ M.epoch \in Epoch /\ M.start \in 0..MaxEpoch
    /\ producer \subseteq Epoch
    /\ pool \subseteq Epoch

(***************************************************************************)
(* The pool holds a DKG result only while the manager of that very epoch   *)
(* is finished with it: no result outlives its epoch, however closing,     *)
(* aggregation and start events interleave ("this allows the pool to be    *)
(* emptied on epoch boundaries", validator-transaction-pool lib.rs:129).   *)
(***************************************************************************)
PoolIsCurrent ==
    \A e \in pool : Alive /\ M.epoch = e /\ M.state = "Finished"

(***************************************************************************)
(* A producer runs only for the live manager, while it is InProgress and   *)
(* has no transcript waiting: none is leaked by an epoch change, and two   *)
(* never run.                                                              *)
(***************************************************************************)
ProducerHasOwner ==
    \A e \in producer :
        Alive /\ M.epoch = e /\ M.state = "InProgress" /\ ~M.agg

(***************************************************************************)
(* One manager's session moves one way, from NotStarted over InProgress to *)
(* Finished, and a successor starts only after its predecessor has gone:   *)
(* a live manager is never replaced, it is closed and then there is none.  *)
(* So process_aggregated_transcript never bails on a finished session      *)
(* (dkg_manager/mod.rs:418), which would throw the session away.           *)
(***************************************************************************)
Rank(s) == CASE s = "Spawned" -> 0 [] s = "NotStarted" -> 1
             [] s = "InProgress" -> 2 [] s = "Finished" -> 3

SessionMovesForward ==
    [][Alive /\ mgr' # <<>> =>
          mgr'[1].epoch = M.epoch /\ Rank(mgr'[1].state) >= Rank(M.state)]_node_vars

(***************************************************************************)
(* After the last epoch change and the last restart the epoch manager      *)
(* arrives at the chain's epoch, unless it has panicked: the handshake     *)
(* with the old manager never hangs.                                       *)
(***************************************************************************)
ReachesEpoch == <>[](em = "panicked" \/ (em = "running" /\ epoch = chain.epoch))

NoManager(e) == em = "panicked" \/ (em = "running" /\ epoch = e /\ ~Alive)

(***************************************************************************)
(* A node that restarts while its chain's session runs deals in it again   *)
(* and ends with a result in the pool ("Found unfinished and current DKG   *)
(* session. Continuing it."), unless the chain moves on, it restarts once  *)
(* more, or it is no validator any longer.                                 *)
(***************************************************************************)
ResumesAfterRestart ==
    \A e \in Epoch, n \in 0..MaxCrashes :
        (em = "awaiting" /\ chain.epoch = e /\ chain.session = e /\ crashes = n)
            ~> (chain.epoch # e \/ crashes # n \/ NoManager(e) \/ pool = {e})
=============================================================================
