--------------------------- MODULE MempoolQueries ---------------------------
(***************************************************************************)
(* The two questions asked of the mempool, which change nothing: what      *)
(* consensus may have next (Mempool::get_batch) and what a peer is sent    *)
(* next (TransactionStore::read_timeline).                                 *)
(***************************************************************************)
EXTENDS Mempool

(* OrderedQueueKey::cmp, from the end that the iterator starts at: highest
   price first, then oldest, then by address (descending) and sequence number. *)
Outranks(k, l) ==
    \/ k.hash.gas > l.hash.gas
    \/ k.hash.gas = l.hash.gas /\ k.inserted < l.inserted
    \/ k.hash.gas = l.hash.gas /\ k.inserted = l.inserted
       /\ \/ k.hash.sender > l.hash.sender
          \/ k.hash.sender = l.hash.sender /\ k.hash.seq < l.hash.seq

Rank(st, k) == Cardinality({l \in st.priority : Outranks(l, k)})

iter_queue(st) ==
    [i \in 1..Cardinality(st.priority) |->
        CHOOSE k \in st.priority : Rank(st, k) = i - 1]

Unblocked_none(skipped, a, n) == n + 1

(* Where the loop that takes up what was skipped stops: the first number
   after n that is not among the skipped of a. *)
Unblocked(skipped, a, n) ==
    CHOOSE m \in n + 1..n + 1 + Cardinality(skipped) :
        /\ <<a, m>> \notin skipped
        /\ \A i \in n + 1..m - 1 : <<a, i>> \in skipped

(* txn_was_chosen of the predecessor, or the account's next; inserted holds
   what the walk has drawn so far and exclude what is in progress in consensus.
   After a gas upgrade the version in progress has another hash, but its
   successor is in sequence all the same. *)
InSequence(st, exclude, inserted, a, n) ==
    \/ n > 0 /\ <<a, n - 1>> \in inserted
    \/ n > 0 /\ \E h \in exclude : h.sender = a /\ h.seq = n - 1
    \/ a \in DOMAIN st.sequence_numbers /\ st.sequence_numbers[a] = n

(* One turn of get_batch's loop; with no room left the loop has ended.  The
   handler raises max_txns to at least one (tasks.rs:571). *)
Visit(st, max_txns, exclude, batch, k) ==
    LET a == k.hash.sender
        n == k.hash.seq
        room == max_txns - Len(batch.result)
        run == Unblocked(batch.skipped, a, n) - n
        taken == [i \in 1..(IF run < room THEN run ELSE room) |-> <<a, n + i - 1>>]
    IN  IF room = 0 \/ k.hash \in exclude THEN batch
        ELSE IF InSequence(st, exclude, Range(batch.result), a, n)
        THEN [result |-> batch.result \o taken,
              skipped |-> batch.skipped \ Range(taken)]
        ELSE [batch EXCEPT !.skipped = @ \cup {<<a, n>>}]

Walk(st, max_txns, exclude) ==
    LET queue == iter_queue(st)
        length == Cardinality(st.priority)
        Batch[i \in 0..length] ==
            IF i = 0 THEN [result |-> <<>>, skipped |-> {}]
            ELSE Visit(st, max_txns, exclude, Batch[i - 1], queue[i])
    IN  Batch[length].result

(* The bytes of the first n of a result *)
Weight(st, result, n) ==
    estimated_bytes({t \in st.transactions :
                        <<t.sender, t.seq>> \in Range(SubSeq(result, 1, n))})

(* The prefix of the walk that fits in max_bytes; nothing when the caller
   wants full blocks only and this is not one. *)
get_batch(st, max_txns, max_bytes, return_non_full, exclude) ==
    LET result == Walk(st, max_txns, exclude)
        fit == Max({n \in 0..Len(result) : Weight(st, result, n) <= max_bytes})
        full_bytes == fit < Len(result) \/ Weight(st, result, fit) = max_bytes
    IN  IF ~return_non_full /\ ~full_bytes /\ fit < max_txns THEN <<>>
        ELSE SubSeq(result, 1, fit)
-----------------------------------------------------------------------------
(* TimelineIndex::read_timeline: the first count identifiers past the peer's
   cursor, up to the first that is younger than the broadcast delay (before). *)
timeline(st, b, from, count, before) ==
    LET ids == {e.id : e \in {e \in st.timeline : e.bucket = b
                                 /\ e.id > from /\ e.id < before}}
    IN  {id \in ids : Cardinality({i \in ids : i < id}) < count}

(* The transactions that identifiers of bucket b stand for *)
Listed(st, b, ids) ==
    {t \in st.transactions :
        \E e \in st.timeline : /\ e.bucket = b /\ e.id \in ids
                               /\ e.sender = t.sender /\ e.seq = t.seq}

(* Those of ids that are taken before the first that exceeds the bytes left *)
Fitting(st, b, ids, bytes) ==
    {id \in ids : estimated_bytes(Listed(st, b, {i \in ids : i <= id})) <= bytes}

Advance_past_limit(cursor, b, ids, fit) ==
    IF ids = {} THEN cursor ELSE [cursor EXCEPT ![b] = Max(ids)]

(* last_timeline_id[i] = timeline_id, for each transaction in the batch *)
Advance(cursor, b, ids, fit) ==
    IF fit = {} THEN cursor ELSE [cursor EXCEPT ![b] = Max(fit)]

(* One turn of the loops over the buckets *)
ReadBucket(st, cursor, count, before, acc, b) ==
    LET ids == timeline(st, b, cursor[b], count - acc.added, before[b])
        fit == Fitting(st, b, ids, max_batch_bytes - acc.bytes)
    IN  [added |-> acc.added + Cardinality(ids),
         bytes |-> acc.bytes + estimated_bytes(Listed(st, b, fit)),
         batch |-> acc.batch \cup {<<b, id>> : id \in fit},
         cursor |-> Advance(acc.cursor, b, ids, fit)]

(* What a peer with this cursor is sent, and its new cursor.  Buckets are
   read from the highest fee down; a bucket that runs out of bytes leaves
   what is left of them to the lower ones. *)
read_timeline(st, cursor, count, before) ==
    LET n == Len(BucketMins)
        Read[i \in 0..n] ==
            IF i = 0
            THEN [added |-> 0, bytes |-> 0, batch |-> {}, cursor |-> cursor]
            ELSE ReadBucket(st, cursor, count, before, Read[i - 1], n + 1 - i)
    IN  Read[n]
-----------------------------------------------------------------------------
(* What get_batch returns is in sequence: nothing is drawn twice or drawn
   while in progress, each transaction is the account's next or follows one
   that is in progress or earlier in the batch.  None that could have been
   drawn at once is left for one that it outranks, and when neither limit cut
   the batch short none is left that could follow. *)
BatchInSequence(max_txns, max_bytes, return_non_full, exclude) ==
    LET batch == get_batch(store, max_txns, max_bytes, return_non_full, exclude)
        queued == {k \in store.priority : k.hash \notin exclude}
        drawn == {k \in queued : <<k.hash.sender, k.hash.seq>> \in Range(batch)}
        CanFollow(a, n, earlier) ==
            \/ store.sequence_numbers[a] = n
            \/ \E h \in exclude : h.sender = a /\ h.seq = n - 1
            \/ <<a, n - 1>> \in Range(earlier)
    IN  /\ Len(batch) <= max_txns
        /\ IsInjective(batch)
        /\ \A i \in DOMAIN batch :
            /\ \E k \in queued : batch[i] = <<k.hash.sender, k.hash.seq>>
            /\ CanFollow(batch[i][1], batch[i][2], SubSeq(batch, 1, i - 1))
        /\ \A k \in queued \ drawn, l \in drawn :
            CanFollow(k.hash.sender, k.hash.seq, <<>>) => Outranks(l, k)
        /\ return_non_full /\ store.size_bytes <= max_bytes /\ Len(batch) < max_txns =>
            \A k \in queued \ drawn : ~CanFollow(k.hash.sender, k.hash.seq, batch)

(***************************************************************************)
(* get_batch draws in sequence and by priority, and leaves nothing behind  *)
(* that could follow, whatever is in progress in consensus, with limits    *)
(* that cut the batch short and limits that do not.                        *)
(***************************************************************************)
PullInSequence ==
    LET versions == {h \in {arrival.txn : arrival \in Arrivals} :
                        get_mempool_txn(store, h.sender, h.seq) # {}}
    IN  \A max_txns \in {1, capacity + 1}, max_bytes \in {2, store.size_bytes},
           return_non_full \in BOOLEAN, exclude \in SUBSET versions :
            BatchInSequence(max_txns, max_bytes, return_non_full, exclude)

(* A peer that reads the timelines with this cursor is sent exactly the ready
   transactions that its cursor passes, no more than it may be sent. *)
ReadSkipsNothing(cursor, count, before) ==
    LET read == read_timeline(store, cursor, count, before)
        passed == {e \in store.timeline :
                      cursor[e.bucket] < e.id /\ e.id <= read.cursor[e.bucket]}
    IN  /\ read.batch = {<<e.bucket, e.id>> : e \in passed}
        /\ read.bytes <= max_batch_bytes
        /\ Cardinality(read.batch) <= count

(***************************************************************************)
(* The identifiers of a timeline are distinct and below the next one, and  *)
(* a read of the timelines skips nothing and stays within its limits,      *)
(* whatever cursor the peer has, under each limit of count and bytes and   *)
(* each broadcast delay.                                                   *)
(***************************************************************************)
BroadcastSkipsNothing ==
    LET Id(b) == 0..store.timeline_id[b] - 1
        Cursors == {c \in [Bucket -> 0..Max(Range(store.timeline_id))] :
                        \A b \in Bucket : c[b] \in Id(b)}
        Delays == {store.timeline_id, [b \in Bucket |-> store.timeline_id[b] - 1]}
    IN  /\ \A e \in store.timeline :
            /\ e.id \in Id(e.bucket)
            /\ \A f \in store.timeline : e.bucket = f.bucket /\ e.id = f.id => e = f
        /\ \A cursor \in Cursors, count \in {1, capacity}, before \in Delays :
            ReadSkipsNothing(cursor, count, before)
=============================================================================
