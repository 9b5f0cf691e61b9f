------------------------------ MODULE VTxnPool ------------------------------
(***************************************************************************)
(* The validator transaction pool of the Aptos node                        *)
(* (aptos-core/crates/validator-transaction-pool/src/lib.rs): one pending  *)
(* validator transaction per topic, each deleted when a guard of it is     *)
(* dropped, pulled by consensus in the order of arrival.  Every operation  *)
(* holds the pool's lock from beginning to end, so each is one step; the   *)
(* threads that hold guards interleave between them.                       *)
(***************************************************************************)
EXTENDS Integers, FiniteSets, FiniteSetsExt

CONSTANTS
    Topic, Txn,      \* topics, and transactions (a transaction is its hash)
    SizeInBytes,     \* SizeInBytes[t]: what a transaction takes of max_bytes
    MaxPuts,         \* bound: puts in one behaviour
    MaxClones,       \* bound: guards of one transaction at a time
    MaxItems,        \* largest max_items and max_bytes a pull is called with
    MaxBytes

ASSUME PoolAssumption ==
    /\ SizeInBytes \in [Txn -> Nat \ {0}]
    /\ MaxPuts \in Nat /\ MaxClones \in Nat /\ MaxItems \in Nat /\ MaxBytes \in Nat

VARIABLES
    next_seq_num,
    seq_nums_by_topic,   \* the map, as a set of [topic, seq]
    txn_queue,           \* the ordered map, as a set of [seq, topic, txn]
    guards,              \* guards[i]: the live TxnGuards with seq_num i
    pulled               \* the pull that has just run: arguments and answer

pool_vars == <<next_seq_num, seq_nums_by_topic, txn_queue, guards, pulled>>

SeqNum == 0..(MaxPuts - 1)
Item == [seq : SeqNum, topic : Topic, txn : Txn]

NoPull == [items |-> 0, bytes |-> 0, filter |-> {}, queue |-> {}, ret |-> {},
           late |-> FALSE]

PoolInit ==
    /\ next_seq_num = 0
    /\ seq_nums_by_topic = {}
    /\ txn_queue = {}
    /\ guards = [i \in SeqNum |-> 0]
    /\ pulled = NoPull
-----------------------------------------------------------------------------
put_keeps_old(T, t) ==
    /\ next_seq_num < MaxPuts
    /\ next_seq_num' = next_seq_num + 1
    /\ txn_queue' = txn_queue \cup {[seq |-> next_seq_num, topic |-> T, txn |-> t]}
    /\ seq_nums_by_topic' = {e \in seq_nums_by_topic : e.topic # T}
                               \cup {[topic |-> T, seq |-> next_seq_num]}
    /\ guards' = [guards EXCEPT ![next_seq_num] = 1]
    /\ pulled' = NoPull

(***************************************************************************)
(* put: a fresh sequence number; the topic's earlier transaction, if any,  *)
(* leaves the queue, and its guards live on without it.                    *)
(***************************************************************************)
put(T, t) ==
    LET old == {e.seq : e \in {f \in seq_nums_by_topic : f.topic = T}} IN
    /\ next_seq_num < MaxPuts
    /\ next_seq_num' = next_seq_num + 1
    /\ txn_queue' = {e \in txn_queue : e.seq \notin old}
                       \cup {[seq |-> next_seq_num, topic |-> T, txn |-> t]}
    /\ seq_nums_by_topic' = {e \in seq_nums_by_topic : e.topic # T}
                               \cup {[topic |-> T, seq |-> next_seq_num]}
    /\ guards' = [guards EXCEPT ![next_seq_num] = 1]
    /\ pulled' = NoPull

(* TxnGuard derives Clone. *)
clone(i) ==
    /\ guards[i] \in 1..(MaxClones - 1)
    /\ guards' = [guards EXCEPT ![i] = @ + 1]
    /\ pulled' = NoPull
    /\ UNCHANGED <<next_seq_num, seq_nums_by_topic, txn_queue>>

try_delete_newest(i) ==
    LET items == {e \in txn_queue : \A f \in txn_queue : f.seq <= e.seq} IN
    /\ txn_queue' = txn_queue \ items
    /\ seq_nums_by_topic' =
           {e \in seq_nums_by_topic : \A f \in items : e.topic # f.topic}

(***************************************************************************)
(* try_delete, called by Drop: the item goes, and with it the topic's      *)
(* entry, whatever number that entry holds.                                *)
(***************************************************************************)
try_delete(i) ==
    LET items == {e \in txn_queue : e.seq = i} IN
    /\ txn_queue' = txn_queue \ items
    /\ seq_nums_by_topic' =
           {e \in seq_nums_by_topic : \A f \in items : e.topic # f.topic}

drop(i) ==
    /\ guards[i] > 0
    /\ try_delete(i)
    /\ guards' = [guards EXCEPT ![i] = @ - 1]
    /\ pulled' = NoPull
    /\ UNCHANGED next_seq_num
-----------------------------------------------------------------------------
Fits_any(e, quota, filter) == quota.items >= 1 /\ e.txn \notin filter

Fits(e, quota, filter) ==
    /\ quota.items >= 1 /\ quota.bytes >= 1
    /\ SizeInBytes[e.txn] <= quota.bytes
    /\ e.txn \notin filter

(***************************************************************************)
(* The loop of pull.  Quota[i] is what is left of max_items and max_bytes  *)
(* before sequence number i: as both only shrink, looking again for the    *)
(* first item that fits is one pass over the queue.                        *)
(***************************************************************************)
Taken(items, bytes, filter) ==
    LET Quota[i \in 0..MaxPuts] ==
            IF i = 0 THEN [items |-> items, bytes |-> bytes]
            ELSE LET fit == {e \in txn_queue : e.seq = i - 1 /\ Fits(e, Quota[i-1], filter)}
                 IN IF fit = {} THEN Quota[i-1]
                    ELSE [items |-> Quota[i-1].items - 1,
                          bytes |-> Quota[i-1].bytes
                                      - SizeInBytes[(CHOOSE e \in fit : TRUE).txn]]
    IN {e \in txn_queue : Fits(e, Quota[e.seq], filter)}

(* pull; the deadline may cut the loop after any item but not before one. *)
pull(items, bytes, filter) ==
    LET all == Taken(items, bytes, filter)
        First(k) == {e \in all : Cardinality({f \in all : f.seq < e.seq}) < k}
    IN \E k \in 1..(MaxPuts + 1) :
          /\ pulled = NoPull
          /\ pulled' = [items |-> items, bytes |-> bytes, filter |-> filter,
                        queue |-> txn_queue, ret |-> First(k),
                        late |-> First(k) # all]
          /\ UNCHANGED <<next_seq_num, seq_nums_by_topic, txn_queue, guards>>

(* The caller of pull has its answer. *)
pull_returns ==
    /\ pulled # NoPull
    /\ pulled' = NoPull
    /\ UNCHANGED <<next_seq_num, seq_nums_by_topic, txn_queue, guards>>

PoolNext ==
    \/ pull_returns
    \/ \E T \in Topic, t \in Txn : put(T, t)
    \/ \E i \in SeqNum : clone(i) \/ drop(i)
    \/ \E items \in 0..MaxItems, bytes \in 0..MaxBytes, filter \in SUBSET Txn :
          pull(items, bytes, filter)

PoolSpec == PoolInit /\ [][PoolNext]_pool_vars
-----------------------------------------------------------------------------
(* Type invariant: the two maps of PoolStateInner, and the guards handed out. *)
PoolTypeOK ==
    /\ next_seq_num \in 0..MaxPuts
    /\ seq_nums_by_topic \subseteq [topic : Topic, seq : SeqNum]
    /\ txn_queue \subseteq Item
    /\ guards \in [SeqNum -> Nat]

(***************************************************************************)
(* "(seq_num=i, topic=T) exists in txn_queue if and only if it exists in   *)
(* seq_nums_by_topic" (lib.rs:112), with one transaction per topic and per *)
(* number: what try_delete's assert_eq and the replacement in put rely on, *)
(* in whatever order threads put and drop guards of replaced transactions. *)
(***************************************************************************)
MapsAgree ==
    /\ {[topic |-> e.topic, seq |-> e.seq] : e \in txn_queue} = seq_nums_by_topic
    /\ \A e, f \in txn_queue : e.topic = f.topic \/ e.seq = f.seq => e = f

(***************************************************************************)
(* Nothing outlives its guards: a transaction in the pool has a live guard *)
(* (lib.rs:126-129, the pool is emptied on epoch boundaries by dropping    *)
(* the guards).                                                            *)
(***************************************************************************)
GuardedOnly == \A e \in txn_queue : guards[e.seq] > 0

(***************************************************************************)
(* A transaction leaves the pool only when a guard of its own is dropped   *)
(* or its topic is put again: dropping the guard of a transaction that was *)
(* replaced does not take away the one that replaced it.                   *)
(***************************************************************************)
LeavesByOwnGuard ==
    [][\A e \in txn_queue \ txn_queue' :
          \/ guards'[e.seq] < guards[e.seq]
          \/ \E f \in txn_queue' : f.topic = e.topic /\ f.seq > e.seq]_pool_vars

(***************************************************************************)
(* What a pull hands to consensus: it keeps within both quotas and the     *)
(* filter, and unless the deadline cut it short nothing more would fit.    *)
(***************************************************************************)
PullFillsTheQuota ==
    LET size == [e \in pulled.queue |-> SizeInBytes[e.txn]]
        used == MapThenSumSet(LAMBDA e : size[e], pulled.ret)
    IN /\ Cardinality(pulled.ret) <= pulled.items
       /\ used <= pulled.bytes
       /\ \A e \in pulled.ret : e.txn \notin pulled.filter
       /\ \A e \in pulled.queue \ pulled.ret :
             \/ pulled.late
             \/ e.txn \in pulled.filter
             \/ Cardinality(pulled.ret) = pulled.items
             \/ used + size[e] > pulled.bytes
=============================================================================
