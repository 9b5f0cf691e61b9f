------------------------------ MODULE Mempool ------------------------------
(***************************************************************************)
(* The core mempool of the vendored Aptos node (mempool/src/core_mempool): *)
(* the transaction store with its indexes, and the handlers of             *)
(* shared_mempool/tasks.rs that call it under the mempool's lock.  A       *)
(* handler is one step.  The store is a record, and each function of the   *)
(* source that changes it is an operator from stores to stores.            *)
(*                                                                         *)
(* A signed transaction is its sender, sequence number, gas price and      *)
(* body; the body stands for payload, expiration and maximal gas, which    *)
(* an update may not change.  The committed hash is taken as injective, so *)
(* a transaction is its own hash.  The ranking score is the gas price.     *)
(***************************************************************************)
EXTENDS Integers, Sequences, FiniteSets, FiniteSetsExt

CONSTANTS
    Address,               \* accounts, naturals: indexes order by address
    Arrivals,              \* transactions that clients (NotReady) and peers
                           \* (NonQualified) send, each with its state
    Bytes,                 \* body -> size in bytes
    Expiration,            \* body -> expiration_timestamp_secs
    BucketMins,            \* gas prices at which fee buckets start, ascending
    capacity,
    capacity_bytes,
    capacity_per_user,
    max_batch_bytes,
    system_transaction_timeout,
    eager_expire_threshold,
    eager_expire_time,
    MaxSeq,                \* bound: an account's sequence number on the chain
    MaxTime,               \* bound: the clock
    MaxTimeline            \* bound: identifiers a timeline hands out

Body == DOMAIN Bytes

ASSUME MempoolAssumption ==
    /\ Address \subseteq Nat
    /\ Arrivals \subseteq
         [txn : [sender : Address, seq : Nat, gas : Nat, body : Body],
          state : {0, -1}]
    /\ Bytes \in [Body -> Nat]
    /\ Expiration \in [Body -> Nat]
    /\ BucketMins \in Seq(Nat) /\ BucketMins # <<>> /\ BucketMins[1] = 0
    /\ capacity \in Nat /\ max_batch_bytes \in Nat

VARIABLES
    store,      \* the TransactionStore
    chain,      \* account -> sequence number in the node's storage
    notified,   \* account -> commits that the mempool has been told of
    now

mempool_vars == <<store, chain, notified, now>>

Bucket == DOMAIN BucketMins

(* MultiBucketTimelineIndex::get_timeline *)
bucket(gas) == Max({b \in Bucket : BucketMins[b] <= gas})

(* TimelineState: Ready(n) is n, n > 0. *)
NotReady == 0
NonQualified == -1

hash(t) == [sender |-> t.sender, seq |-> t.seq, gas |-> t.gas, body |-> t.body]

(* PriorityIndex::make_key, by what Ord compares *)
priority_key(t) == [hash |-> hash(t), inserted |-> t.inserted]

(* TTLIndex::make_key *)
ttl_key(t, time) == [time |-> time, sender |-> t.sender, seq |-> t.seq]
system_key(t) == ttl_key(t, t.inserted + system_transaction_timeout)
client_key(t) == ttl_key(t, Expiration[t.body])

timeline_entry(t) ==
    [bucket |-> bucket(t.gas), id |-> t.state, sender |-> t.sender, seq |-> t.seq]

(* ParkingLotIndex's entries, and the pointer it hands out. *)
parking_entry(t) == [sender |-> t.sender, seq |-> t.seq, hash |-> hash(t)]

(* TransactionStore::get_mempool_txn, as a set of at most one *)
get_mempool_txn(st, a, n) == {t \in st.transactions : t.sender = a /\ t.seq = n}

(* TransactionStore::new *)
EmptyStore ==
    [transactions |-> {}, sequence_numbers |-> <<>>,
     priority |-> {}, system_ttl |-> {}, expiration |-> {}, hashes |-> {},
     timeline |-> {}, timeline_id |-> [b \in Bucket |-> 1],
     parked |-> {}, size_bytes |-> 0]

Assign(f, x, v) == [y \in DOMAIN f \cup {x} |-> IF y = x THEN v ELSE f[y]]

(* get_estimated_bytes, of all of X *)
estimated_bytes(X) ==
    LET size == [t \in X |-> Bytes[t.body]]
    IN  MapThenSumSet(LAMBDA t : size[t], X)

ReadyIn(X) == {t \in X : t.state > 0}
-----------------------------------------------------------------------------
(* TransactionStore::index_remove of each of X, once it has left transactions;
   the order in which a loop of the source takes them makes no difference. *)
index_remove(st, X) ==
    LET rest == st.transactions \ X
        gone == {t.sender : t \in X} \ {t.sender : t \in rest}
    IN  [st EXCEPT
           !.transactions = rest,
           !.system_ttl = @ \ {system_key(t) : t \in X},
           !.expiration = @ \ {client_key(t) : t \in X},
           !.priority = @ \ {priority_key(t) : t \in X},
           !.timeline = @ \ {timeline_entry(t) : t \in ReadyIn(X)},
           !.parked = @ \ {parking_entry(t) : t \in X},
           !.hashes = @ \ {hash(t) : t \in X},
           !.size_bytes = @ - estimated_bytes(X),
           !.sequence_numbers = [a \in DOMAIN @ \ gone |-> @[a]]]

clean_committed_transactions_bare(st, a, n) ==
    [st EXCEPT !.transactions = {t \in @ : t.sender # a \/ t.seq >= n}]

clean_committed_transactions(st, a, n) ==
    index_remove(st, {t \in st.transactions : t.sender = a /\ t.seq < n})

(* What process_ready_transactions parks of those it has not reached. *)
ToPark(t) == t.state <= 0

(* The transactions of a that follow n without a gap. *)
Run(st, a, n) ==
    LET mine == {t \in st.transactions : t.sender = a}
    IN  {t \in mine : t.seq >= n /\ \A m \in n..t.seq : \E u \in mine : u.seq = m}

(* Those of the run get into the queue and leave the parking lot, and the
   NotReady ones get the next identifiers of their timelines, in order.  Those
   past the gap that ends the run are parked. *)
process_ready_transactions(st, a, n) ==
    LET run == Run(st, a, n)
        fresh == {t \in run : t.state = NotReady}
        beyond == {t \in st.transactions \ run :
                      t.sender = a /\ t.seq >= n /\ ToPark(t)}
        InBucket(b) == {t \in fresh : bucket(t.gas) = b}
        Earlier(t) == {u \in InBucket(bucket(t.gas)) : u.seq < t.seq}
        Ready(t) ==
            [t EXCEPT !.state = st.timeline_id[bucket(t.gas)] + Cardinality(Earlier(t))]
        Parked(t) == [t EXCEPT !.was_parked = TRUE]
    IN  [st EXCEPT
           !.transactions = (@ \ (fresh \cup beyond))
                                \cup {Ready(t) : t \in fresh}
                                \cup {Parked(t) : t \in beyond},
           !.priority = @ \cup {priority_key(t) : t \in run},
           !.timeline = @ \cup {timeline_entry(Ready(t)) : t \in fresh},
           !.timeline_id = [b \in Bucket |-> @[b] + Cardinality(InBucket(b))],
           !.parked = (@ \ {parking_entry(t) : t \in run})
                          \cup {parking_entry(t) : t \in beyond}]
-----------------------------------------------------------------------------
is_full(st) ==
    \/ Cardinality(st.system_ttl) >= capacity
    \/ st.size_bytes >= capacity_bytes

check_txn_ready(st, t, acc) ==
    \/ t.seq = acc
    \/ \E prev \in get_mempool_txn(st, t.sender, t.seq - 1) : prev.state > 0

(* ParkingLotIndex::get_poppable: of a random account, the highest sequence
   number (see ParkingLot). *)
get_poppable(entries) ==
    {e \in entries : \A f \in entries : f.sender = e.sender => f.seq <= e.seq}

(* One round of the loop that frees space: the stores it may leave.  It ends
   when the mempool is no longer full, when nothing is parked, or when the
   pointer leads to no transaction. *)
Evict(st) ==
    IF ~is_full(st) \/ st.parked = {} THEN {st}
    ELSE {index_remove(st, get_mempool_txn(st, e.sender, e.seq)) :
              e \in get_poppable(st.parked)}

check_is_full_after_eviction(st, t, acc) ==
    LET Round[n \in 0..Cardinality(st.transactions)] ==
            IF n = 0 THEN {st} ELSE UNION {Evict(s) : s \in Round[n - 1]}
    IN  IF check_txn_ready(st, t, acc)
        THEN Round[Cardinality(st.transactions)] ELSE {st}

(* From the capacity check of insert on. *)
admit(st, t, acc) ==
    LET clean == clean_committed_transactions(st, t.sender, acc)
        indexed ==
            [clean EXCEPT
               !.transactions = @ \cup {t},
               !.system_ttl = @ \cup {system_key(t)},
               !.expiration = @ \cup {client_key(t)},
               !.hashes = @ \cup {hash(t)},
               !.sequence_numbers = Assign(@, t.sender, acc),
               !.size_bytes = @ + Bytes[t.body]]
    IN  IF Cardinality({u \in clean.transactions : u.sender = t.sender})
             >= capacity_per_user
        THEN clean
        ELSE process_ready_transactions(indexed, t.sender, acc)

(* TransactionStore::insert: the stores it may end in.  Another body or a
   price that is no higher than the current one changes nothing. *)
insert(st, t, acc) ==
    LET current == get_mempool_txn(st, t.sender, t.seq)
        base == IF current = {} THEN st ELSE index_remove(st, current)
    IN  IF \E u \in current : u.body # t.body \/ u.gas >= t.gas THEN {st}
        ELSE {IF is_full(s) THEN s ELSE admit(s, t, acc) :
                  s \in check_is_full_after_eviction(base, t, acc)}
-----------------------------------------------------------------------------
commit_transaction_no_promotion(st, a, n) ==
    LET known == IF a \in DOMAIN st.sequence_numbers
                 THEN st.sequence_numbers[a] ELSE 0
        next == Max({known, n + 1})
        counted == [st EXCEPT !.sequence_numbers = Assign(@, a, next)]
    IN  clean_committed_transactions(counted, a, next)

commit_transaction(st, a, n) ==
    LET known == IF a \in DOMAIN st.sequence_numbers
                 THEN st.sequence_numbers[a] ELSE 0
        next == Max({known, n + 1})
        counted == [st EXCEPT !.sequence_numbers = Assign(@, a, next)]
    IN  process_ready_transactions(
            clean_committed_transactions(counted, a, next), a, next)

(* reject_transaction, for a hash that hash_index may know *)
reject_transaction(st, h) ==
    IF h \notin st.hashes THEN st
    ELSE index_remove(st, get_mempool_txn(st, h.sender, h.seq))

(* The body of gc's inner loop, for each of X: it becomes non-ready. *)
park(st, X) ==
    LET Parked(t) == [t EXCEPT !.state = IF t.state > 0 THEN NotReady ELSE @,
                               !.was_parked = TRUE]
    IN  [st EXCEPT
           !.transactions = (@ \ X) \cup {Parked(t) : t \in X},
           !.priority = @ \ {priority_key(t) : t \in X},
           !.timeline = @ \ {timeline_entry(t) : t \in ReadyIn(X)},
           !.parked = @ \cup {parking_entry(t) : t \in X}]

(* TransactionStore::gc, of the keys that TTLIndex::gc has taken out: what
   follows an expired transaction, up to the next expired one, is parked. *)
gc(st, expired) ==
    LET Key(t, k) == k.sender = t.sender /\ k.seq = t.seq
        dead == {t \in st.transactions : \E k \in expired : Key(t, k)}
        waiting == {t \in st.transactions \ dead :
                       \E k \in expired : k.sender = t.sender /\ k.seq < t.seq}
    IN  index_remove(park(st, waiting), dead)

gc_by_system_ttl(st, time) ==
    LET expired == {k \in st.system_ttl : k.time < time}
    IN  gc([st EXCEPT !.system_ttl = @ \ expired], expired)

(* The order of a TTLIndex *)
Precedes(k, l) ==
    \/ k.time < l.time
    \/ k.time = l.time /\ k.sender < l.sender
    \/ k.time = l.time /\ k.sender = l.sender /\ k.seq < l.seq

(* eager_expire_time: the first never parked transaction among the first
   twenty of system_ttl is the oldest of them. *)
eager(st, time) ==
    LET Place(k) == Cardinality({l \in st.system_ttl : Precedes(l, k)})
        fresh == {t \in st.transactions : ~t.was_parked /\ Place(system_key(t)) < 20}
    IN  IF fresh # {} /\ now - Min({t.inserted : t \in fresh}) > eager_expire_threshold
        THEN time + eager_expire_time ELSE time

gc_by_expiration_time(st, time) ==
    LET expired == {k \in st.expiration : k.time < eager(st, time)}
    IN  gc([st EXCEPT !.expiration = @ \ expired], expired)
-----------------------------------------------------------------------------
MempoolInit ==
    /\ store = EmptyStore
    /\ chain = [a \in Address |-> 0]
    /\ notified = [a \in Address |-> 0]
    /\ now = 0

(***************************************************************************)
(* process_incoming_transactions and Mempool::add_txn.  The sequence       *)
(* number acc was read from storage before the mempool was locked, so it   *)
(* may be an old one by now.                                               *)
(***************************************************************************)
add_txn ==
    \E arrival \in Arrivals :
        \E acc \in 0..chain[arrival.txn.sender] :
            /\ arrival.txn.seq >= acc
            /\ \A b \in Bucket : store.timeline_id[b] <= MaxTimeline
            /\ LET h == arrival.txn
                   t == [sender |-> h.sender, seq |-> h.seq, gas |-> h.gas,
                         body |-> h.body, inserted |-> now,
                         state |-> arrival.state, was_parked |-> FALSE]
               IN  store' \in insert(store, t, acc)
            /\ UNCHANGED <<chain, notified, now>>

(* The node executes and stores a transaction of a; the mempool hears of it
   by process_committed_transactions, with the time of its block. *)
ChainCommits ==
    \E a \in Address :
        /\ chain[a] < MaxSeq
        /\ chain' = [chain EXCEPT ![a] = @ + 1]
        /\ UNCHANGED <<store, notified, now>>

process_committed_transactions ==
    \E a \in Address, block_time \in 0..now :
        /\ notified[a] < chain[a]
        /\ notified' = [notified EXCEPT ![a] = @ + 1]
        /\ LET st == commit_transaction(store, a, notified[a])
           IN  store' = IF block_time > 0 THEN gc_by_expiration_time(st, block_time)
                                          ELSE st
        /\ UNCHANGED <<chain, now>>

process_rejected_transactions ==
    \E arrival \in Arrivals :
        /\ store' = reject_transaction(store, arrival.txn)
        /\ UNCHANGED <<chain, notified, now>>

(* The collection that precedes get_batch in process_quorum_store_request. *)
process_quorum_store_request ==
    /\ store' = gc_by_expiration_time(store, now)
    /\ UNCHANGED <<chain, notified, now>>

gc_coordinator ==
    /\ store' = gc_by_system_ttl(store, now)
    /\ UNCHANGED <<chain, notified, now>>

Tick ==
    /\ now < MaxTime
    /\ now' = now + 1
    /\ UNCHANGED <<store, chain, notified>>

MempoolNext ==
    \/ add_txn
    \/ ChainCommits
    \/ process_committed_transactions
    \/ process_rejected_transactions
    \/ process_quorum_store_request
    \/ gc_coordinator
    \/ Tick

MempoolSpec == MempoolInit /\ [][MempoolNext]_mempool_vars
-----------------------------------------------------------------------------
(***************************************************************************)
(* The store and its indexes describe the same transactions: one per       *)
(* account and sequence number, each under both of its expiration times    *)
(* and its hash, and counted in size_bytes; the timelines hold exactly the *)
(* ready ones, the priority queue and the parking lot know of no other     *)
(* transaction, and sequence_numbers misses none of the accounts           *)
(* (index_remove and insert, transaction_store.rs).                        *)
(***************************************************************************)
IndexesAgree ==
    LET all == store.transactions
    IN  /\ \A t, u \in all : t.sender = u.sender /\ t.seq = u.seq => t = u
        /\ store.system_ttl = {system_key(t) : t \in all}
        /\ store.expiration = {client_key(t) : t \in all}
        /\ store.hashes = {hash(t) : t \in all}
        /\ store.size_bytes = estimated_bytes(all)
        /\ store.timeline = {timeline_entry(t) : t \in {t \in all : t.state > 0}}
        /\ store.priority \subseteq {priority_key(t) : t \in all}
        /\ store.parked \subseteq {parking_entry(t) : t \in all}
        /\ {t.sender : t \in all} \subseteq DOMAIN store.sequence_numbers

(***************************************************************************)
(* What process_ready_transactions is for (transaction_store.rs:479-548),  *)
(* after any handler: a transaction that follows its account's sequence    *)
(* number without a gap is in the priority queue, is not parked and is not *)
(* left NotReady; one that is NotReady is parked and out of the queue; one *)
(* ready for broadcast is in the queue and not parked, so eviction never   *)
(* takes it; and none is out of reach of both.  The converse of the first  *)
(* part fails: what follows a rejected transaction keeps its place in the  *)
(* queue (lines 531-532 and 606), until the gap closes or it expires.      *)
(***************************************************************************)
InSequenceIsReady ==
    \A t \in store.transactions :
        LET queued == priority_key(t) \in store.priority
            parked == parking_entry(t) \in store.parked
        IN  /\ t \in Run(store, t.sender, store.sequence_numbers[t.sender])
                  => queued /\ ~parked /\ t.state # NotReady
            /\ t.state = NotReady => parked /\ ~queued
            /\ t.state > 0 => queued /\ ~parked
            /\ queued \/ parked

=============================================================================
