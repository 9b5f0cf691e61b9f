----------------------------- MODULE DKGProofs -----------------------------
(***************************************************************************)
(* Proofs about distributed key generation: the validator transaction      *)
(* pool, for any topics, transactions, sizes and number of puts, guards    *)
(* and threads; the broadcast that collects transcripts, for any           *)
(* validators, voting powers and failures; and the node, for any number of *)
(* epochs and restarts: the epoch manager, the DKG managers it spawns and  *)
(* closes, their producers and the results in the pool.                    *)
(***************************************************************************)
EXTENDS VTxnPool, TranscriptBroadcast, DKGNode, Sums

(* The entry of seq_nums_by_topic that belongs to an item of the queue. *)
Entry(e) == [topic |-> e.topic, seq |-> e.seq]

(***************************************************************************)
(* The inductive invariant: the types, the agreement of the two maps       *)
(* spelled out in both directions, a live guard for every item, and        *)
(* numbers that are all below the next one.                                *)
(***************************************************************************)
EntryOfEach == \A e \in txn_queue : Entry(e) \in seq_nums_by_topic
ItemOfEach == \A n \in seq_nums_by_topic : \E e \in txn_queue : Entry(e) = n
OneOfEach == \A e, f \in txn_queue : e.topic = f.topic \/ e.seq = f.seq => e = f
Issued == \A e \in txn_queue : e.seq < next_seq_num

PoolInvariant ==
    PoolTypeOK /\ EntryOfEach /\ ItemOfEach /\ OneOfEach /\ GuardedOnly /\ Issued

(***************************************************************************)
(* Taken together the two directions are the agreement that lib.rs:112     *)
(* promises.                                                               *)
(***************************************************************************)
LEMMA Agreement == EntryOfEach /\ ItemOfEach /\ OneOfEach => MapsAgree
BY SMTT(40) DEF EntryOfEach, ItemOfEach, OneOfEach, MapsAgree, Entry

(***************************************************************************)
(* What put removes from the queue by number is exactly the topic's own    *)
(* transaction (lib.rs:74-76): the number that seq_nums_by_topic holds     *)
(* for a topic belongs to no transaction of another topic.                 *)
(***************************************************************************)
LEMMA ReplacedByTopic ==
    ASSUME PoolInvariant, NEW T \in Topic, NEW e \in txn_queue
    PROVE  e.seq \in {g.seq : g \in {f \in seq_nums_by_topic : f.topic = T}}
              <=> e.topic = T
<1> USE DEF PoolInvariant
<1>1. Entry(e).topic = e.topic /\ Entry(e).seq = e.seq
    BY DEF Entry
<1>2. ASSUME e.topic = T
      PROVE  e.seq \in {g.seq : g \in {f \in seq_nums_by_topic : f.topic = T}}
    BY <1>1, <1>2, SMTT(40) DEF EntryOfEach
<1>3. ASSUME NEW n \in seq_nums_by_topic, n.topic = T, n.seq = e.seq PROVE e.topic = T
    <2>1. PICK f \in txn_queue : Entry(f) = n
        BY SMTT(40) DEF ItemOfEach
    <2>2. f.topic = T /\ f.seq = e.seq
        BY <1>3, <2>1, SMTT(40) DEF Entry
    <2> QED
        BY <2>2, SMTT(40) DEF OneOfEach
<1> QED
    BY <1>2, <1>3, SMTT(40)

(***************************************************************************)
(* put keeps the invariant (lib.rs:58-82).                                 *)
(***************************************************************************)
LEMMA PutKeeps ==
    ASSUME PoolInvariant, NEW T \in Topic, NEW t \in Txn, put(T, t)
    PROVE  PoolInvariant'
<1> DEFINE new == [seq |-> next_seq_num, topic |-> T, txn |-> t]
           kept == {e \in txn_queue : e.topic # T}
<1>0. MaxPuts \in Nat /\ next_seq_num \in 0..MaxPuts
    BY PoolAssumption, SMTT(40) DEF PoolInvariant, PoolTypeOK
<1>1. /\ next_seq_num < MaxPuts
      /\ next_seq_num' = next_seq_num + 1
      /\ seq_nums_by_topic' = {e \in seq_nums_by_topic : e.topic # T}
                                 \cup {[topic |-> T, seq |-> next_seq_num]}
      /\ guards' = [guards EXCEPT ![next_seq_num] = 1]
    BY SMTT(40) DEF put
<1>2. txn_queue' = kept \cup {new}
    BY ReplacedByTopic, SMTT(40) DEF put
<1>3. next_seq_num \in SeqNum /\ next_seq_num' \in 0..MaxPuts
    BY <1>0, <1>1, SMTT(40) DEF SeqNum
<1>4. new \in Item /\ [topic |-> T, seq |-> next_seq_num] \in [topic : Topic, seq : SeqNum]
    BY <1>3, SMTT(40) DEF Item
<1>5. PoolTypeOK'
    BY <1>1, <1>2, <1>3, <1>4, SMTT(40) DEF PoolInvariant, PoolTypeOK
<1>6. \A e \in kept : e \in txn_queue /\ e.topic # T /\ e.seq # next_seq_num
                      /\ e.seq \in SeqNum
    BY <1>0, SMTT(40) DEF PoolInvariant, Issued, PoolTypeOK, Item, SeqNum
<1>7. Entry(new) = [topic |-> T, seq |-> next_seq_num]
      /\ \A e \in txn_queue : Entry(e).topic = e.topic
    BY SMTT(40) DEF Entry
<1>8. EntryOfEach'
    BY <1>1, <1>2, <1>6, <1>7, SMTT(40) DEF PoolInvariant, EntryOfEach
<1>9. ItemOfEach'
    BY <1>1, <1>2, <1>7, SMTT(40) DEF PoolInvariant, ItemOfEach
<1>10. OneOfEach'
    BY <1>2, <1>6, SMTT(40) DEF PoolInvariant, OneOfEach
<1>11. GuardedOnly'
    <2>1. guards'[next_seq_num] = 1
        BY <1>1, <1>3, SMTT(40) DEF PoolInvariant, PoolTypeOK
    <2>2. \A e \in kept : guards'[e.seq] = guards[e.seq]
        BY <1>1, <1>6, SMTT(40) DEF PoolInvariant, PoolTypeOK
    <2>3. \A e \in kept : guards'[e.seq] > 0
        BY <1>6, <2>2, SMTT(40) DEF PoolInvariant, GuardedOnly
    <2> QED
        BY <1>2, <2>1, <2>3, SMTT(40) DEF GuardedOnly
<1>12. Issued'
    <2>1. \A e \in kept : e.seq < next_seq_num + 1
        BY <1>0, <1>6, SMTT(40) DEF PoolInvariant, Issued, SeqNum
    <2>2. new.seq < next_seq_num + 1
        BY <1>0, SMTT(40)
    <2> QED
        BY <1>1, <1>2, <2>1, <2>2, SMTT(40) DEF Issued
<1> QED
    BY <1>5, <1>8, <1>9, <1>10, <1>11, <1>12, SMTT(40) DEF PoolInvariant

(***************************************************************************)
(* Dropping a guard keeps the invariant, also the guard of a transaction   *)
(* that was replaced or deleted before (lib.rs:145-150).                   *)
(***************************************************************************)
LEMMA DropKeeps ==
    ASSUME PoolInvariant, NEW i \in SeqNum, drop(i)
    PROVE  PoolInvariant'
<1>1. /\ guards[i] > 0
      /\ txn_queue' = {e \in txn_queue : e.seq # i}
      /\ guards' = [guards EXCEPT ![i] = @ - 1]
      /\ next_seq_num' = next_seq_num
    BY SMTT(40) DEF drop, try_delete
<1>2. seq_nums_by_topic' = {n \in seq_nums_by_topic : n.seq # i}
    <2>1. \A n \in seq_nums_by_topic :
              (\A f \in {e \in txn_queue : e.seq = i} : n.topic # f.topic) <=> n.seq # i
        <3> TAKE n \in seq_nums_by_topic
        <3>1. PICK e \in txn_queue : Entry(e) = n
            BY SMTT(40) DEF PoolInvariant, ItemOfEach
        <3>2. n.topic = e.topic /\ n.seq = e.seq
            BY <3>1, SMTT(40) DEF Entry
        <3> QED
            BY <3>2, SMTT(40) DEF PoolInvariant, OneOfEach
    <2> QED
        BY <2>1, SMTT(40) DEF drop, try_delete
<1>3. PoolTypeOK'
    BY <1>1, <1>2, SMTT(40) DEF PoolInvariant, PoolTypeOK
<1>4. \A e \in txn_queue : Entry(e).seq = e.seq
    BY SMTT(40) DEF Entry
<1>5. EntryOfEach' /\ ItemOfEach' /\ OneOfEach'
    BY <1>1, <1>2, <1>4, SMTT(40) DEF PoolInvariant, EntryOfEach, ItemOfEach, OneOfEach
<1>6. GuardedOnly'
    BY <1>1, SMTT(40) DEF PoolInvariant, GuardedOnly, PoolTypeOK, Item
<1>7. Issued'
    BY <1>1, SMTT(40) DEF PoolInvariant, Issued
<1> QED
    BY <1>3, <1>5, <1>6, <1>7, SMTT(40) DEF PoolInvariant

(***************************************************************************)
(* The pool's invariant holds in every reachable state, in whatever order  *)
(* threads put, clone, drop and pull (lib.rs:58-207).                      *)
(***************************************************************************)
THEOREM PoolInvariantTheorem == PoolSpec => []PoolInvariant
<1>1. PoolInit => PoolInvariant
    <2>1. PoolInit => PoolTypeOK
        BY PoolAssumption, SMTT(40) DEF PoolInit, PoolTypeOK
    <2> QED
        BY <2>1, SMTT(40)
           DEF PoolInit, PoolInvariant, EntryOfEach, ItemOfEach, OneOfEach, GuardedOnly,
                    Issued
<1>2. PoolInvariant /\ [PoolNext]_pool_vars => PoolInvariant'
    <2> SUFFICES ASSUME PoolInvariant, [PoolNext]_pool_vars PROVE PoolInvariant'
        BY SMTT(40)
    <2>1. CASE UNCHANGED <<next_seq_num, seq_nums_by_topic, txn_queue, guards>>
        BY <2>1, SMTT(40)
           DEF PoolInvariant, PoolTypeOK, EntryOfEach, ItemOfEach, OneOfEach,
                    GuardedOnly, Issued
    <2>2. ASSUME NEW i \in SeqNum, clone(i) PROVE PoolInvariant'
        <3>1. /\ guards[i] \in Nat
              /\ guards' = [guards EXCEPT ![i] = @ + 1]
              /\ UNCHANGED <<next_seq_num, seq_nums_by_topic, txn_queue>>
            BY <2>2, SMTT(40) DEF clone, PoolInvariant, PoolTypeOK
        <3>2. PoolTypeOK' /\ GuardedOnly'
            BY <3>1 DEF PoolInvariant, PoolTypeOK, GuardedOnly, Item
        <3> QED
            BY <3>1, <3>2, SMTT(40)
               DEF PoolInvariant, EntryOfEach, ItemOfEach, OneOfEach, Issued
    <2> QED
        BY <2>1, <2>2, PutKeeps, DropKeeps, SMTT(40)
           DEF PoolNext, pool_vars, pull, pull_returns
<1> QED
    BY <1>1, <1>2, PTL DEF PoolSpec

(***************************************************************************)
(* "(seq_num=i, topic=T) exists in txn_queue if and only if it exists in   *)
(* seq_nums_by_topic" (lib.rs:112), so that try_delete's assertion on the  *)
(* number it removes (lib.rs:148) never fails.                             *)
(***************************************************************************)
THEOREM MapsAgreeInvariant == PoolSpec => []MapsAgree
<1>1. PoolInvariant => MapsAgree
    BY Agreement, SMTT(40) DEF PoolInvariant
<1> QED
    BY <1>1, PoolInvariantTheorem, PTL

(***************************************************************************)
(* Nothing outlives its guards: when an epoch ends and the managers drop   *)
(* theirs, the pool is empty (lib.rs:126-129).                             *)
(***************************************************************************)
THEOREM GuardedOnlyInvariant == PoolSpec => []GuardedOnly
<1>1. PoolInvariant => GuardedOnly
    BY DEF PoolInvariant
<1> QED
    BY <1>1, PoolInvariantTheorem, PTL

(***************************************************************************)
(* A transaction leaves only by a guard of its own or by a later one of    *)
(* its topic: a late drop of a replaced transaction's guard takes nothing  *)
(* else away (lib.rs:74-76, 145-150).                                      *)
(***************************************************************************)
THEOREM LeavesByOwnGuardTheorem == PoolSpec => LeavesByOwnGuard
<1> DEFINE Own == \A e \in txn_queue \ txn_queue' :
                     \/ guards'[e.seq] < guards[e.seq]
                     \/ \E f \in txn_queue' : f.topic = e.topic /\ f.seq > e.seq
<1>1. PoolInvariant /\ [PoolNext]_pool_vars => [Own]_pool_vars
    <2> SUFFICES ASSUME PoolInvariant, [PoolNext]_pool_vars PROVE Own
        OBVIOUS
    <2>1. CASE UNCHANGED txn_queue
        BY <2>1
    <2>2. ASSUME NEW T \in Topic, NEW t \in Txn, put(T, t) PROVE Own
        <3> DEFINE new == [seq |-> next_seq_num, topic |-> T, txn |-> t]
        <3>1. txn_queue' = {e \in txn_queue : e.topic # T} \cup {new}
            BY <2>2, ReplacedByTopic, SMTT(40) DEF put
        <3>2. \A e \in txn_queue : e.seq < next_seq_num /\ e.seq \in SeqNum
            BY SMTT(40) DEF PoolInvariant, Issued, PoolTypeOK, Item
        <3>3. \A e \in txn_queue \ txn_queue' : new.topic = e.topic /\ new.seq > e.seq
            BY <3>1, <3>2, SMTT(40) DEF SeqNum, PoolInvariant, PoolTypeOK
        <3> QED
            BY <3>1, <3>3, ZenonT(40)
    <2>3. ASSUME NEW i \in SeqNum, drop(i) PROVE Own
        <3>1. /\ txn_queue' = {e \in txn_queue : e.seq # i}
              /\ guards' = [guards EXCEPT ![i] = @ - 1]
            BY <2>3, SMTT(40) DEF drop, try_delete
        <3>2. guards'[i] < guards[i]
            BY <3>1, SMTT(40) DEF PoolInvariant, PoolTypeOK
        <3> QED
            BY <3>1, <3>2, SMTT(40)
    <2> QED
        BY <2>1, <2>2, <2>3, SMTT(40) DEF PoolNext, pool_vars, clone, pull, pull_returns
<1> QED
    BY <1>1, PoolInvariantTheorem, PTL DEF PoolSpec, LeavesByOwnGuard

(***************************************************************************)
(* The loop of pull (lib.rs:152-199), as the function it computes: what is *)
(* left of both quotas after the item with sequence number i - 1.          *)
(***************************************************************************)
QuotaAfter(q, i, filter) ==
    LET fit == {e \in txn_queue : e.seq = i - 1 /\ Fits(e, q, filter)}
    IN IF fit = {} THEN q
       ELSE [items |-> q.items - 1,
             bytes |-> q.bytes - SizeInBytes[(CHOOSE e \in fit : TRUE).txn]]

IsQuota(g, n, items, bytes, filter) ==
    g = [i \in 0..n |-> IF i = 0 THEN [items |-> items, bytes |-> bytes]
                        ELSE QuotaAfter(g[i-1], i, filter)]

(***************************************************************************)
(* The loop ends: after every number of items there is something left, or  *)
(* nothing.                                                                *)
(***************************************************************************)
LEMMA QuotaExists ==
    ASSUME NEW items, NEW bytes, NEW filter, NEW k \in Nat
    PROVE  \E g : IsQuota(g, k, items, bytes, filter)
<1> DEFINE B == {n \in Nat : ~\E g : IsQuota(g, n, items, bytes, filter)}
<1>1. ASSUME B # {} PROVE FALSE
    <2>1. PICK n \in B : \A m \in B : n <= m
        <3>1. B \subseteq Nat
            BY SMTT(40)
        <3> HIDE DEF B
        <3> QED
            BY <1>1, <3>1, SmallestNumber, ZenonT(40)
    <2>2. n \in Nat /\ ~\E g : IsQuota(g, n, items, bytes, filter)
        BY SMTT(40)
    <2>3. CASE n = 0
        <3> DEFINE g == [i \in 0..0 |-> [items |-> items, bytes |-> bytes]]
        <3>1. IsQuota(g, 0, items, bytes, filter)
            BY SMTT(40) DEF IsQuota
        <3> QED
            BY <2>2, <2>3, <3>1, SMTT(40)
    <2>4. CASE n # 0
        <3>1. n - 1 \in Nat /\ n - 1 \notin B
            BY <2>1, <2>2, <2>4, SMTT(40)
        <3>2. PICK h : IsQuota(h, n - 1, items, bytes, filter)
            BY <3>1, SMTT(40)
        <3> DEFINE g == [i \in 0..n |-> IF i = n THEN QuotaAfter(h[n-1], n, filter) ELSE h[i]]
        <3>3. g[0] = [items |-> items, bytes |-> bytes]
            BY <2>2, <2>4, <3>1, <3>2, SMTT(40) DEF IsQuota
        <3>4. ASSUME NEW i \in 0..n, i # 0 PROVE g[i] = QuotaAfter(g[i-1], i, filter)
            <4>1. i - 1 \in 0..n /\ i - 1 # n /\ g[i-1] = h[i-1]
                BY <2>2, <3>4, SMTT(40)
            <4>2. CASE i = n
                BY <4>1, <4>2, <2>2, SMTT(40)
            <4>3. CASE i # n
                <5>1. i \in 0..(n - 1)
                    BY <2>2, <3>4, <4>3, SMTT(40)
                <5>2. h[i] = QuotaAfter(h[i-1], i, filter)
                    BY <3>2, <3>4, <5>1, SMTT(40) DEF IsQuota
                <5> QED
                    BY <4>1, <4>3, <5>2, SMTT(40)
            <4> QED
                BY <4>2, <4>3, SMTT(40)
        <3>5. IsQuota(g, n, items, bytes, filter)
            <4>1. g = [i \in 0..n |-> g[i]]
                OBVIOUS
            <4> HIDE DEF g
            <4> QED
                BY <3>3, <3>4, <4>1, ZenonT(40) DEF IsQuota
        <3> QED
            BY <2>2, <3>5, SMTT(40)
    <2> QED
        BY <2>3, <2>4, SMTT(40)
<1> QED
    BY <1>1, SMTT(40)

(***************************************************************************)
(* What pull takes, in the order of arrival, is what fits into what the    *)
(* loop has left before it.                                                *)
(***************************************************************************)
LEMMA TakenByQuota ==
    ASSUME NEW items, NEW bytes, NEW filter
    PROVE  \E g : /\ IsQuota(g, MaxPuts, items, bytes, filter)
                  /\ Taken(items, bytes, filter)
                       = {e \in txn_queue : Fits(e, g[e.seq], filter)}
<1> DEFINE c == CHOOSE g : IsQuota(g, MaxPuts, items, bytes, filter)
<1>1. IsQuota(c, MaxPuts, items, bytes, filter)
    BY QuotaExists, PoolAssumption, SMTT(40)
<1>2. Taken(items, bytes, filter) = {e \in txn_queue : Fits(e, c[e.seq], filter)}
    BY DEF Taken, IsQuota, QuotaAfter
<1> HIDE DEF c
<1> QED
    BY <1>1, <1>2, SMTT(40)

(* The sizes of what is queued, and what all holds below a sequence number. *)
Sizes == [e \in txn_queue |-> SizeInBytes[e.txn]]
Below(all, i) == {e \in all : e.seq < i}

(***************************************************************************)
(* The loop keeps account: before each sequence number what is left and    *)
(* what was taken add up to what pull was called with, in items and in     *)
(* bytes.                                                                  *)
(***************************************************************************)
LEMMA QuotaAddsUp ==
    ASSUME PoolInvariant, IsFiniteSet(txn_queue),
           NEW items \in Nat, NEW bytes \in Nat, NEW filter,
           NEW g, IsQuota(g, MaxPuts, items, bytes, filter),
           NEW all, all = {e \in txn_queue : Fits(e, g[e.seq], filter)},
           NEW k \in 0..MaxPuts
    PROVE  /\ g[k].items \in Nat /\ g[k].bytes \in Nat
           /\ g[k].items + Cardinality(Below(all, k)) = items
           /\ g[k].bytes + SumOver(Sizes, Below(all, k)) = bytes
<1> DEFINE Good(n) == /\ g[n].items \in Nat /\ g[n].bytes \in Nat
                      /\ g[n].items + Cardinality(Below(all, n)) = items
                      /\ g[n].bytes + SumOver(Sizes, Below(all, n)) = bytes
           B == {n \in 0..MaxPuts : ~Good(n)}
<1>0. /\ \A e \in txn_queue : Sizes[e] \in Nat /\ Sizes[e] = SizeInBytes[e.txn]
      /\ \A e \in txn_queue : e.seq \in 0..(MaxPuts - 1) /\ e \in Item
      /\ MaxPuts \in Nat
    BY PoolAssumption, SMTT(40) DEF PoolInvariant, PoolTypeOK, Item, Sizes, SeqNum
<1>1. \A n : IsFiniteSet(Below(all, n)) /\ Below(all, n) \subseteq txn_queue
    BY FS_Subset, SMTT(40) DEF Below
<1>2. ASSUME B # {} PROVE FALSE
    <2>1. PICK n \in B : \A m \in B : n <= m
        <3>1. B \subseteq Nat
            BY <1>0, SMTT(40)
        <3> HIDE DEF B
        <3> QED
            BY <1>2, <3>1, SmallestNumber, ZenonT(40)
    <2>2. n \in 0..MaxPuts /\ ~Good(n)
        BY ZenonT(40)
    <2>3. CASE n = 0
        <3>1. Below(all, 0) = {}
            BY <1>0, SMTT(40) DEF Below
        <3>2. Cardinality(Below(all, 0)) = 0 /\ SumOver(Sizes, Below(all, 0)) = 0
            BY <3>1, FS_EmptySet, SumEmpty, ZenonT(40)
        <3>3. g[0] = [items |-> items, bytes |-> bytes]
            BY <1>0, SMTT(40) DEF IsQuota
        <3>4. Good(0)
            BY <3>2, <3>3, SMTT(40)
        <3> QED
            BY <2>2, <2>3, <3>4, ZenonT(40)
    <2>4. CASE n # 0
        <3> DEFINE fit == {e \in txn_queue : e.seq = n - 1 /\ Fits(e, g[n-1], filter)}
        <3>1. n - 1 \in 0..MaxPuts /\ n \in Nat /\ n - 1 \notin B
            <4>1. n \in 0..MaxPuts
                BY <2>2, ZenonT(40)
            <4> HIDE DEF B, Good
            <4>2. n \in Nat /\ n - 1 \in 0..MaxPuts /\ ~(n <= n - 1)
                BY <1>0, <2>4, <4>1, SMTT(40)
            <4> QED
                BY <2>1, <4>2, ZenonT(40)
        <3>2. Good(n - 1)
            BY <3>1, ZenonT(40)
        <3>3. g[n] = QuotaAfter(g[n-1], n, filter)
            BY <2>2, <2>4, ZenonT(40) DEF IsQuota
        <3>4. Below(all, n) = Below(all, n - 1) \cup fit
            <4>1. \A e \in txn_queue : e.seq < n <=> e.seq < n - 1 \/ e.seq = n - 1
                BY <1>0, <3>1, SMTT(40)
            <4> QED
                BY <4>1, ZenonT(40) DEF Below
        <3>5. CASE fit = {}
            <4>1. g[n] = g[n-1] /\ Below(all, n) = Below(all, n - 1)
                BY <3>3, <3>4, <3>5, ZenonT(40) DEF QuotaAfter
            <4> QED
                BY <2>2, <3>2, <4>1, ZenonT(40)
        <3>6. CASE fit # {}
            <4> DEFINE x == CHOOSE e \in fit : TRUE
            <4>1. x \in fit
                BY <3>6, ZenonT(40)
            <4>2. x \in txn_queue /\ x.seq = n - 1 /\ Fits(x, g[n-1], filter)
                BY <4>1, ZenonT(40)
            <4>3. fit = {x}
                BY <4>2, ZenonT(40) DEF PoolInvariant, OneOfEach
            <4>4. g[n] = [items |-> g[n-1].items - 1,
                          bytes |-> g[n-1].bytes - SizeInBytes[x.txn]]
                BY <3>3, <3>6, ZenonT(40) DEF QuotaAfter
            <4> HIDE DEF x, fit, B, Good
            <4>5. g[n-1].items >= 1 /\ Sizes[x] <= g[n-1].bytes /\ Sizes[x] \in Nat
                BY <1>0, <4>2, ZenonT(40) DEF Fits
            <4>6. g[n].items = g[n-1].items - 1 /\ g[n].bytes = g[n-1].bytes - Sizes[x]
                BY <1>0, <4>2, <4>4, SMTT(40)
            <4>7. x \notin Below(all, n - 1)
                <5>1. ~(n - 1 < n - 1)
                    BY <3>1, SMTT(40)
                <5> QED
                    BY <4>2, <5>1, ZenonT(40) DEF Below
            <4>8. Cardinality(Below(all, n)) = Cardinality(Below(all, n - 1)) + 1
                BY <1>1, <3>4, <4>3, <4>7, FS_AddElement, ZenonT(40)
            <4>9. SumOver(Sizes, Below(all, n)) = SumOver(Sizes, Below(all, n - 1)) + Sizes[x]
                <5>1. IsFiniteSet({x}) /\ Below(all, n - 1) \cap {x} = {}
                    BY <4>7, FS_Singleton, ZenonT(40)
                <5>2. \A e \in Below(all, n - 1) \cup {x} : Sizes[e] \in Nat
                    BY <1>0, <1>1, <4>2, ZenonT(40)
                <5>3. SumOver(Sizes, Below(all, n - 1) \cup {x})
                         = SumOver(Sizes, Below(all, n - 1)) + SumOver(Sizes, {x})
                    BY <1>1, <5>1, <5>2, SumOfSplit, ZenonT(40)
                <5> QED
                    BY <3>4, <4>3, <4>5, <5>3, SumOfOne, ZenonT(40)
            <4>10. Cardinality(Below(all, n - 1)) \in Nat
                   /\ SumOver(Sizes, Below(all, n - 1)) \in Nat
                <5>1. Cardinality(Below(all, n - 1)) \in Nat
                    BY <1>1, FS_CardinalityType, ZenonT(40)
                <5> QED
                    BY <1>0, <1>1, <5>1, SumIsNatural, ZenonT(40)
            <4>11. Good(n)
                <5>1. /\ g[n-1].items \in Nat /\ g[n-1].bytes \in Nat
                      /\ g[n-1].items + Cardinality(Below(all, n - 1)) = items
                      /\ g[n-1].bytes + SumOver(Sizes, Below(all, n - 1)) = bytes
                    BY <3>2, ZenonT(40) DEF Good
                <5>2. g[n].items \in Nat /\ g[n].bytes \in Nat
                    BY <4>5, <4>6, <5>1, SMTT(40)
                <5>3. g[n].items + Cardinality(Below(all, n)) = items
                    BY <4>6, <4>8, <4>10, <5>1, SMTT(40)
                <5>4. g[n].bytes + SumOver(Sizes, Below(all, n)) = bytes
                    BY <4>5, <4>6, <4>9, <4>10, <5>1, SMTT(40)
                <5> QED
                    BY <5>2, <5>3, <5>4, ZenonT(40) DEF Good
            <4> QED
                BY <2>2, <4>11, ZenonT(40)
        <3> QED
            BY <3>5, <3>6, ZenonT(40)
    <2> QED
        BY <2>3, <2>4, SMTT(40)
<1> QED
    BY <1>2, ZenonT(40)

(***************************************************************************)
(* The queue is finite: sequence numbers are handed out one by one.        *)
(***************************************************************************)
LEMMA FiniteQueue ==
    ASSUME PoolInvariant
    PROVE  IsFiniteSet(txn_queue)
<1> DEFINE f == [e \in txn_queue |-> e.seq]
<1>1. f \in Injection(txn_queue, SeqNum)
    BY SMTT(40) DEF PoolInvariant, PoolTypeOK, Item, OneOfEach, Injection, IsInjective
<1>2. MaxPuts - 1 \in Int /\ 0 \in Int
    BY PoolAssumption, SMTT(40)
<1>3. IsFiniteSet(SeqNum)
    BY <1>2, FS_Interval, SMTT(40) DEF SeqNum
<1> HIDE DEF f
<1> QED
    BY <1>1, <1>3, FS_Injection, SMTT(40)

(***************************************************************************)
(* What pull takes when no deadline cuts it short keeps within both quotas *)
(* and the filter, and nothing that was left would have fitted.            *)
(***************************************************************************)
LEMMA TakenFillsTheQuota ==
    ASSUME PoolInvariant, NEW items \in Nat, NEW bytes \in Nat, NEW filter,
           NEW all, all = Taken(items, bytes, filter)
    PROVE  /\ all \subseteq txn_queue /\ IsFiniteSet(txn_queue)
           /\ \A e \in txn_queue : Sizes[e] \in Nat
           /\ Cardinality(all) \in Nat /\ Cardinality(all) <= items
           /\ SumOver(Sizes, all) \in Nat /\ SumOver(Sizes, all) <= bytes
           /\ \A e \in all : e.txn \notin filter
           /\ \A e \in txn_queue \ all :
                 \/ e.txn \in filter
                 \/ Cardinality(all) = items
                 \/ SumOver(Sizes, all) + Sizes[e] > bytes
<1>1. PICK g : /\ IsQuota(g, MaxPuts, items, bytes, filter)
               /\ all = {e \in txn_queue : Fits(e, g[e.seq], filter)}
    BY TakenByQuota, SMTT(40)
<1>2. /\ \A e \in txn_queue : Sizes[e] \in Nat \ {0} /\ Sizes[e] = SizeInBytes[e.txn]
      /\ \A e \in txn_queue : e.seq \in 0..MaxPuts /\ e.seq < MaxPuts
      /\ MaxPuts \in 0..MaxPuts
    BY PoolAssumption, SMTT(40) DEF PoolInvariant, PoolTypeOK, Item, Sizes, SeqNum
<1>3. IsFiniteSet(txn_queue) /\ all \subseteq txn_queue /\ IsFiniteSet(all)
    BY <1>1, FiniteQueue, FS_Subset, ZenonT(40)
<1>4. \A k \in 0..MaxPuts :
         /\ g[k].items \in Nat /\ g[k].bytes \in Nat
         /\ g[k].items + Cardinality(Below(all, k)) = items
         /\ g[k].bytes + SumOver(Sizes, Below(all, k)) = bytes
    <2> SUFFICES ASSUME NEW k \in 0..MaxPuts
                 PROVE  /\ g[k].items \in Nat /\ g[k].bytes \in Nat
                        /\ g[k].items + Cardinality(Below(all, k)) = items
                        /\ g[k].bytes + SumOver(Sizes, Below(all, k)) = bytes
        BY ZenonT(40)
    <2> QED
        BY <1>1, <1>3, QuotaAddsUp, SMTT(40)
<1>5. Below(all, MaxPuts) = all
    BY <1>2, <1>3, SMTT(40) DEF Below
<1>6. Cardinality(all) \in Nat /\ SumOver(Sizes, all) \in Nat
    BY <1>2, <1>3, FS_CardinalityType, SumIsNatural, ZenonT(40)
<1>7. Cardinality(all) <= items /\ SumOver(Sizes, all) <= bytes
    BY <1>2, <1>4, <1>5, <1>6, SMTT(40)
<1>8. \A e \in all : e.txn \notin filter
    BY <1>1, SMTT(40) DEF Fits
<1>9. ASSUME NEW e \in txn_queue \ all, e.txn \notin filter, Cardinality(all) # items
      PROVE  SumOver(Sizes, all) + Sizes[e] > bytes
    <2> DEFINE b == Below(all, e.seq)
    <2>1. b \subseteq all /\ IsFiniteSet(b) /\ e.seq \in 0..MaxPuts
        BY <1>2, <1>3, FS_Subset, ZenonT(40) DEF Below
    <2>2. Cardinality(b) <= Cardinality(all) /\ Cardinality(b) \in Nat
        BY <1>3, <2>1, FS_Subset, FS_CardinalityType, SMTT(40)
    <2>3. /\ SumOver(Sizes, b) \in Nat /\ SumOver(Sizes, all \ b) \in Nat
          /\ SumOver(Sizes, all) = SumOver(Sizes, b) + SumOver(Sizes, all \ b)
        BY <1>2, <1>3, <2>1, SumOfPart, ZenonT(40)
    <2>4. /\ g[e.seq].items \in Nat /\ g[e.seq].bytes \in Nat
          /\ g[e.seq].items + Cardinality(b) = items
          /\ g[e.seq].bytes + SumOver(Sizes, b) = bytes
        BY <1>4, <2>1, ZenonT(40)
    <2> HIDE DEF b
    <2>5. g[e.seq].items >= 1
        BY <1>6, <1>7, <1>9, <2>2, <2>4, SMTT(40)
    <2>6. ~(g[e.seq].bytes >= 1) \/ ~(Sizes[e] <= g[e.seq].bytes)
        BY <1>1, <1>2, <1>9, <2>5, ZenonT(40) DEF Fits
    <2>7. Sizes[e] \in Nat \ {0}
        BY <1>2, SMTT(40)
    <2>8. Sizes[e] > g[e.seq].bytes
        BY <2>4, <2>6, <2>7, SMTT(40)
    <2> QED
        BY <2>3, <2>4, <2>7, <2>8, SMTT(40)
<1> QED
    BY <1>2, <1>3, <1>6, <1>7, <1>8, <1>9, ZenonT(40)

(***************************************************************************)
(* PullFillsTheQuota says of the last pull that its answer p fills the     *)
(* quota it was given.                                                     *)
(***************************************************************************)
FillsTheQuota(p) ==
    LET size == [e \in p.queue |-> SizeInBytes[e.txn]]
        used == SumOver(size, p.ret)
    IN /\ Cardinality(p.ret) <= p.items
       /\ used <= p.bytes
       /\ \A e \in p.ret : e.txn \notin p.filter
       /\ \A e \in p.queue \ p.ret :
             \/ p.late
             \/ e.txn \in p.filter
             \/ Cardinality(p.ret) = p.items
             \/ used + size[e] > p.bytes

(***************************************************************************)
(* The property of the run, in these terms.                                *)
(***************************************************************************)
LEMMA QuotaOfLastPull == PullFillsTheQuota <=> FillsTheQuota(pulled)
BY DEF PullFillsTheQuota, FillsTheQuota, SumOver

(***************************************************************************)
(* pull, also when the deadline cuts its loop (lib.rs:152-199).            *)
(***************************************************************************)
LEMMA PullAnswers ==
    ASSUME PoolInvariant, NEW items \in 0..MaxItems, NEW bytes \in 0..MaxBytes,
           NEW filter \in SUBSET Txn, pull(items, bytes, filter)
    PROVE  FillsTheQuota(pulled')
<1> DEFINE all == Taken(items, bytes, filter)
           First(k) == {e \in all : Cardinality({f \in all : f.seq < e.seq}) < k}
<1>1. PICK k \in 1..(MaxPuts + 1) :
         pulled' = [items |-> items, bytes |-> bytes, filter |-> filter,
                    queue |-> txn_queue, ret |-> First(k), late |-> First(k) # all]
    BY ZenonT(40) DEF pull
<1> DEFINE ret == First(k)
<1>2. /\ pulled'.items = items /\ pulled'.bytes = bytes /\ pulled'.filter = filter
      /\ pulled'.queue = txn_queue /\ pulled'.ret = ret /\ pulled'.late = (ret # all)
    BY <1>1, ZenonT(40)
<1>3. ret \subseteq all
    BY SMTT(40)
<1>4. items \in Nat /\ bytes \in Nat
    BY PoolAssumption, SMTT(40)
<1> HIDE DEF ret, all
<1>5. /\ all \subseteq txn_queue /\ IsFiniteSet(txn_queue)
      /\ \A e \in txn_queue : Sizes[e] \in Nat
      /\ Cardinality(all) \in Nat /\ Cardinality(all) <= items
      /\ SumOver(Sizes, all) \in Nat /\ SumOver(Sizes, all) <= bytes
      /\ \A e \in all : e.txn \notin filter
      /\ \A e \in txn_queue \ all :
            \/ e.txn \in filter
            \/ Cardinality(all) = items
            \/ SumOver(Sizes, all) + Sizes[e] > bytes
    BY <1>4, TakenFillsTheQuota, ZenonT(40) DEF all
<1>6. IsFiniteSet(all) /\ \A e \in all : Sizes[e] \in Nat
    BY <1>5, FS_Subset, ZenonT(40)
<1>7. Cardinality(ret) <= Cardinality(all) /\ Cardinality(ret) \in Nat
    BY <1>3, <1>6, FS_Subset, FS_CardinalityType, SMTT(40)
<1>8. /\ SumOver(Sizes, ret) \in Nat /\ SumOver(Sizes, all \ ret) \in Nat
      /\ SumOver(Sizes, all) = SumOver(Sizes, ret) + SumOver(Sizes, all \ ret)
    BY <1>3, <1>6, SumOfPart, ZenonT(40)
<1>9. Cardinality(ret) <= items /\ SumOver(Sizes, ret) <= bytes
    BY <1>4, <1>5, <1>7, <1>8, SMTT(40)
<1>10. \A e \in txn_queue \ ret :
          \/ ret # all
          \/ e.txn \in filter
          \/ Cardinality(ret) = items
          \/ SumOver(Sizes, ret) + Sizes[e] > bytes
    BY <1>5, ZenonT(40)
<1>11. [e \in pulled'.queue |-> SizeInBytes[e.txn]] = Sizes
    BY <1>2, SMTT(40) DEF Sizes
<1> HIDE DEF First
<1> QED
    BY <1>2, <1>3, <1>5, <1>9, <1>10, <1>11, ZenonT(40) DEF FillsTheQuota

(***************************************************************************)
(* Every pull keeps within max_items, max_bytes and the filter, and leaves *)
(* out nothing that fits unless its deadline passed (lib.rs:152-199), for  *)
(* any queue and any sizes.                                                *)
(***************************************************************************)
THEOREM PullFillsTheQuotaInvariant == PoolSpec => []PullFillsTheQuota
<1> DEFINE LastFills == FillsTheQuota(pulled)
<1>1. FillsTheQuota(NoPull)
    <2>1. /\ NoPull.ret = {} /\ NoPull.queue = {} /\ NoPull.items = 0 /\ NoPull.bytes = 0
        BY SMTT(40) DEF NoPull
    <2>2. Cardinality({}) = 0 /\ \A w : SumOver(w, {}) = 0
        BY FS_EmptySet, SumEmpty, SMTT(40)
    <2> QED
        BY <2>1, <2>2, SMTT(40) DEF FillsTheQuota
<1>2. PoolInvariant /\ LastFills /\ [PoolNext]_pool_vars => LastFills'
    <2> SUFFICES ASSUME PoolInvariant, FillsTheQuota(pulled), [PoolNext]_pool_vars
                 PROVE  FillsTheQuota(pulled')
        BY SMTT(40) DEF LastFills
    <2>1. CASE UNCHANGED pool_vars
        BY <2>1, SMTT(40) DEF pool_vars
    <2>2. CASE \/ pull_returns
               \/ \E T \in Topic, t \in Txn : put(T, t)
               \/ \E i \in SeqNum : clone(i) \/ drop(i)
        BY <1>1, <2>2, ZenonT(40) DEF pull_returns, put, clone, drop
    <2> QED
        BY <2>1, <2>2, PullAnswers, SMTT(40) DEF PoolNext
<1>3. PoolInit => LastFills
    BY <1>1, SMTT(40) DEF PoolInit, LastFills
<1>4. LastFills => PullFillsTheQuota
    BY QuotaOfLastPull, SMTT(40) DEF LastFills
<1> HIDE DEF LastFills
<1> QED
    BY <1>2, <1>3, <1>4, PoolInvariantTheorem, PTL DEF PoolSpec
-----------------------------------------------------------------------------
(***************************************************************************)
(* The broadcast.  An answer of add that ends it carries an aggregate of   *)
(* one transcript per sender, whose senders have a quorum.                 *)
(***************************************************************************)
OnePerSender(agg) == \A p, q \in agg : p.peer = q.peer => p = q

Whole(agg) ==
    agg \subseteq Part /\ OnePerSender(agg) /\ PowerOf(Senders(agg)) >= Quorum

HasQuorum(answer) == \E A \in SUBSET Part : answer = <<A>> /\ Whole(A)

(***************************************************************************)
(* The inductive invariant of the broadcast: the types; the aggregate has  *)
(* one part per contributor, the authors of good results among them; each  *)
(* aggregate on its way is whole; once the contributors have a quorum, an  *)
(* aggregate is on its way; a contributor that an aggregate on its way     *)
(* lacks came later, so that its own answer, an aggregate too, is also     *)
(* still on its way; and each validator is in one place.                   *)
(***************************************************************************)
Counted ==
    /\ trx \subseteq Part /\ OnePerSender(trx) /\ Senders(trx) = contributors
    /\ \A r \in results : r.ok => r.peer \in contributors

AggregatesHaveQuorum ==
    /\ \A r \in results : r.aggregated = <<>> \/ (r.ok /\ HasQuorum(r.aggregated))
    /\ returned = <<>> \/ HasQuorum(returned)

LateOnesFollow ==
    \A r \in results : r.aggregated # <<>> =>
        /\ PowerOf(contributors) >= Quorum
        /\ r.peer \in Senders(r.aggregated[1])
        /\ returned = <<>> =>
              \A v \in contributors \ Senders(r.aggregated[1]) :
                  \E q \in results : q.peer = v /\ q.aggregated # <<>>

NoneMissing ==
    returned # <<>> =>
        \A v \in Validator : \/ v \in Senders(returned[1]) \/ v \in rpc
                             \/ \E t \in tasks : t.peer = v
                             \/ \E r \in results : r.peer = v

QuorumIsOnItsWay ==
    returned = <<>> /\ PowerOf(contributors) >= Quorum =>
        \E r \in results : r.ok /\ r.aggregated # <<>>

OnePlace ==
    returned = <<>> =>
        /\ \A v \in Validator :
              \/ v \in rpc \/ v \in contributors
              \/ \E t \in tasks : t.peer = v
              \/ \E r \in results : r.peer = v
        /\ \A t \in tasks : t.peer \notin rpc /\ \A u \in tasks : u.peer = t.peer => u = t
        /\ \A r \in results : /\ r.peer \notin rpc
                              /\ \A q \in results : q.peer = r.peer => q = r
                              /\ \A t \in tasks : t.peer # r.peer

Members ==
    /\ rpc \subseteq Validator
    /\ tasks \subseteq [peer : Validator, answer : Answer]
    /\ \A r \in results : r.peer \in Validator /\ r.ok \in BOOLEAN
    /\ contributors \subseteq Validator

BroadcastInvariant ==
    /\ Members /\ Counted /\ AggregatesHaveQuorum /\ QuorumIsOnItsWay /\ OnePlace
    /\ LateOnesFollow /\ NoneMissing

(***************************************************************************)
(* ValidatorVerifier sums voting power over a set of validators; nobody    *)
(* has none of it, and a quorum is never zero.                             *)
(***************************************************************************)
LEMMA PowerFacts ==
    PowerOf({}) = 0 /\ PowerOf(Validator) \in Nat /\ Quorum \in Nat /\ Quorum > 0
<1>1. \A S : PowerOf(S) = SumOver(Power, S)
    BY SMTT(40) DEF PowerOf, SumOver
<1>2. PowerOf({}) = 0
    BY <1>1, SumEmpty, SMTT(40)
<1>3. PowerOf(Validator) \in Nat
    BY <1>1, SumIsNatural, BroadcastAssumption, SMTT(40)
<1> QED
    BY <1>2, <1>3, SMTT(40) DEF Quorum

(***************************************************************************)
(* More validators have no less voting power                               *)
(* (validator_verifier.rs:452-482).                                        *)
(***************************************************************************)
LEMMA PowerGrows ==
    ASSUME NEW T \in SUBSET Validator, NEW S \in SUBSET T
    PROVE  PowerOf(S) >= Quorum => PowerOf(T) >= Quorum
<1>1. \A U : PowerOf(U) = SumOver(Power, U)
    BY SMTT(40) DEF PowerOf, SumOver
<1>2. IsFiniteSet(T) /\ \A v \in T : Power[v] \in Nat
    BY BroadcastAssumption, FS_Subset
<1>3. /\ SumOver(Power, S) \in Nat /\ SumOver(Power, T \ S) \in Nat
      /\ SumOver(Power, T) = SumOver(Power, S) + SumOver(Power, T \ S)
    BY <1>2, SumOfPart
<1>4. PowerOf(S) \in Nat /\ PowerOf(T) >= PowerOf(S) /\ PowerOf(T) \in Nat
    BY <1>1, <1>3
<1> QED
    BY <1>4, PowerFacts

(***************************************************************************)
(* Respond: an answer goes from the request to a task, or waits.           *)
(***************************************************************************)
LEMMA RespondKeeps ==
    ASSUME BroadcastInvariant, NEW v \in Validator, NEW a \in Answer, Respond(v, a)
    PROVE  BroadcastInvariant'
<1> DEFINE t0 == [peer |-> v, answer |-> a]
<1>1. /\ v \in rpc /\ rpc' = rpc \ {v} /\ tasks' = tasks \cup {t0} /\ returned = <<>>
      /\ UNCHANGED <<results, contributors, trx, failures, returned>>
    BY SMTT(40) DEF Respond
<1>2. t0 \in [peer : Validator, answer : Answer] /\ t0.peer = v
    BY SMTT(40)
<1> HIDE DEF t0
<1>3. Members' /\ Counted'
    BY <1>1, <1>2, SMTT(40) DEF BroadcastInvariant, Members, Counted
<1>4. AggregatesHaveQuorum' /\ QuorumIsOnItsWay'
    BY <1>1, ZenonT(40) DEF BroadcastInvariant, AggregatesHaveQuorum, QuorumIsOnItsWay
<1>6. LateOnesFollow' /\ NoneMissing'
    BY <1>1, ZenonT(40) DEF BroadcastInvariant, LateOnesFollow, NoneMissing
<1>5. OnePlace'
    BY <1>1, <1>2, SMTT(40) DEF BroadcastInvariant, OnePlace
<1> QED
    BY <1>3, <1>4, <1>5, <1>6, ZenonT(40) DEF BroadcastInvariant

(***************************************************************************)
(* One more transcript, of a sender that has none in the aggregate yet     *)
(* (transcript_aggregation/mod.rs:110-117).                                *)
(***************************************************************************)
LEMMA OneMorePart ==
    ASSUME NEW agg \in SUBSET Part, OnePerSender(agg), NEW p \in Part,
           p.peer \notin Senders(agg)
    PROVE  /\ agg \cup {p} \in SUBSET Part /\ OnePerSender(agg \cup {p})
           /\ Senders(agg \cup {p}) = Senders(agg) \cup {p.peer}
<1>1. \A x \in agg : x.peer # p.peer
    BY ZenonT(40) DEF Senders
<1>2. OnePerSender(agg \cup {p})
    BY <1>1, ZenonT(40) DEF OnePerSender
<1>3. Senders(agg \cup {p}) = Senders(agg) \cup {p.peer}
    BY ZenonT(40) DEF Senders
<1> QED
    BY <1>2, <1>3

(***************************************************************************)
(* add, in whatever order the tasks take the lock: only a first transcript *)
(* of its sender that verifies is counted, and it is aggregated with it    *)
(* (transcript_aggregation/mod.rs:65-150).                                 *)
(***************************************************************************)
LEMMA AddKeeps ==
    ASSUME BroadcastInvariant, NEW t \in tasks, add(t)
    PROVE  BroadcastInvariant'
<1> DEFINE part == [peer |-> t.peer, dealers |-> t.answer.dealers]
           new == contributors \cup {t.peer}
           repeated == t.peer \in contributors /\ t.answer.kind # "refused"
           ok == t.answer.kind = "verified" /\ ~repeated
           r0 == [peer |-> t.peer, ok |-> ok \/ repeated,
                  aggregated |-> IF ok /\ PowerOf(new) >= Quorum THEN <<trx'>> ELSE <<>>]
<1>1. /\ tasks' = tasks \ {t} /\ results' = results \cup {r0}
      /\ contributors' = (IF ok THEN new ELSE contributors)
      /\ trx' = (IF ok THEN trx \cup {part} ELSE trx)
      /\ UNCHANGED <<rpc, failures, returned>>
    BY ZenonT(40) DEF add
<1>2. t.peer \in Validator /\ t.answer \in Answer
    BY SMTT(40) DEF BroadcastInvariant, Members
<1>3. /\ r0.peer = t.peer /\ r0.ok \in BOOLEAN /\ (ok => r0.ok)
      /\ r0.ok => ok \/ t.peer \in contributors
    BY ZenonT(40)
<1>4. /\ ok /\ PowerOf(new) >= Quorum => r0.aggregated = <<trx'>>
      /\ ~(ok /\ PowerOf(new) >= Quorum) => r0.aggregated = <<>>
    BY ZenonT(40)
<1>5. ok => /\ contributors' = new /\ trx' \in SUBSET Part
            /\ OnePerSender(trx') /\ Senders(trx') = new
    <2> SUFFICES ASSUME ok PROVE /\ contributors' = new /\ trx' \in SUBSET Part
                                 /\ OnePerSender(trx') /\ Senders(trx') = new
        OBVIOUS
    <2>1. contributors' = new /\ trx' = trx \cup {part}
        BY <1>1, ZenonT(40)
    <2>2. "verified" \notin {"refused", "unverified"} /\ "verified" # "refused"
        OBVIOUS
    <2>3. t.answer \in [kind : {"verified"}, dealers : Dealers]
        BY <1>2, <2>2, SMTT(40) DEF Answer
    <2>4. part \in Part /\ part.peer = t.peer
        BY <1>2, <2>3, SMTT(40) DEF Part
    <2>5. t.peer \notin contributors
        BY <2>2, ZenonT(40)
    <2>6. trx \in SUBSET Part /\ OnePerSender(trx) /\ Senders(trx) = contributors
        BY ZenonT(40) DEF BroadcastInvariant, Counted
    <2> HIDE DEF part
    <2> QED
        BY <2>1, <2>4, <2>5, <2>6, OneMorePart, ZenonT(40)
<1>6. ~ok => contributors' = contributors /\ trx' = trx
    BY <1>1, ZenonT(40)
<1>7. new \in SUBSET Validator /\ contributors \subseteq new /\ t.peer \in new
    BY <1>2, SMTT(40) DEF BroadcastInvariant, Members
<1> HIDE DEF r0, ok, new
<1>8. Members' /\ Counted'
    BY <1>1, <1>2, <1>3, <1>5, <1>6, <1>7, ZenonT(40)
       DEF BroadcastInvariant, Members, Counted
<1>9. AggregatesHaveQuorum'
    <2>1. r0.aggregated = <<>> \/ (r0.ok /\ HasQuorum(r0.aggregated))
        BY <1>3, <1>4, <1>5, <1>7, ZenonT(40) DEF HasQuorum, Whole
    <2> QED
        BY <1>1, <2>1, ZenonT(40) DEF BroadcastInvariant, AggregatesHaveQuorum
<1>10. QuorumIsOnItsWay'
    <2>1. CASE ok
        <3>1. r0 \in results' /\ r0.ok
            BY <1>1, <1>3, <2>1, ZenonT(40)
        <3>2. PowerOf(contributors') >= Quorum => r0.aggregated = <<trx'>>
            BY <1>4, <1>5, <2>1, ZenonT(40)
        <3>3. <<trx'>> # <<>>
            BY ZenonT(40)
        <3> QED
            BY <3>1, <3>2, <3>3, ZenonT(40) DEF QuorumIsOnItsWay
    <2>2. CASE ~ok
        BY <1>1, <1>6, <2>2, SMTT(40) DEF BroadcastInvariant, QuorumIsOnItsWay
    <2> QED
        BY <2>1, <2>2, SMTT(40)
<1>11. OnePlace'
    <2> SUFFICES ASSUME returned = <<>> PROVE OnePlace'
        BY <1>1, ZenonT(40) DEF OnePlace
    <2>1. contributors \subseteq contributors'
        BY <1>5, <1>6, <1>7, SMTT(40)
    <2>2. \A v \in Validator : \/ v \in rpc' \/ v \in contributors'
                               \/ \E u \in tasks' : u.peer = v
                               \/ \E r \in results' : r.peer = v
        BY <1>1, <1>3, <2>1, ZenonT(40) DEF BroadcastInvariant, OnePlace
    <2>3. /\ \A u \in tasks : u.peer \notin rpc /\ (u.peer = t.peer => u = t)
          /\ \A r \in results : r.peer # t.peer
        BY ZenonT(40) DEF BroadcastInvariant, OnePlace
    <2>4. \A u \in tasks' : u.peer \notin rpc' /\ \A w \in tasks' : w.peer = u.peer => w = u
        BY <1>1, ZenonT(40) DEF BroadcastInvariant, OnePlace
    <2>5. \A r \in results' : /\ r.peer \notin rpc'
                              /\ \A q \in results' : q.peer = r.peer => q = r
                              /\ \A u \in tasks' : u.peer # r.peer
        BY <1>1, <1>3, <2>3, ZenonT(40) DEF BroadcastInvariant, OnePlace
    <2> QED
        BY <2>2, <2>4, <2>5, ZenonT(40) DEF OnePlace
<1>12. LateOnesFollow'
    <2>1. ASSUME r0.aggregated # <<>>
          PROVE  /\ PowerOf(contributors') >= Quorum /\ r0.aggregated[1] = trx'
                 /\ Senders(trx') = contributors' /\ r0.peer \in Senders(trx')
        <3>1. ok /\ PowerOf(new) >= Quorum /\ r0.aggregated = <<trx'>>
            BY <1>4, <2>1, ZenonT(40)
        <3>2. r0.aggregated[1] = trx'
            BY <3>1, SMTT(40)
        <3>3. contributors' = new /\ Senders(trx') = new
            BY <1>5, <3>1, ZenonT(40)
        <3>4. PowerOf(contributors') >= Quorum
            BY <3>1, <3>3, ZenonT(40)
        <3>5. r0.peer \in Senders(trx')
            BY <1>3, <1>7, <3>3, ZenonT(40)
        <3> QED
            BY <3>2, <3>3, <3>4, <3>5, ZenonT(40)
    <2>2. ASSUME NEW r \in results, r.aggregated # <<>>
          PROVE  /\ PowerOf(contributors') >= Quorum
                 /\ ok => r0.aggregated # <<>>
        <3>1. PowerOf(contributors) >= Quorum
            BY <2>2, ZenonT(40) DEF BroadcastInvariant, LateOnesFollow
        <3>2. PowerOf(new) >= Quorum
            BY <1>7, <3>1, PowerGrows, ZenonT(40)
        <3>3. <<trx'>> # <<>>
            BY ZenonT(40)
        <3> QED
            BY <1>4, <1>5, <1>6, <3>1, <3>2, <3>3, ZenonT(40)
    <2>3. ASSUME NEW r \in results, r.aggregated # <<>>, returned = <<>>,
                 NEW v \in contributors' \ Senders(r.aggregated[1])
          PROVE  \E q \in results' : q.peer = v /\ q.aggregated # <<>>
        <3>1. CASE v \in contributors
            BY <1>1, <2>3, <3>1, ZenonT(40) DEF BroadcastInvariant, LateOnesFollow
        <3>2. CASE v \notin contributors
            <4>1. ok /\ v = t.peer
                BY <1>5, <1>6, <2>3, <3>2, ZenonT(40) DEF new
            <4> QED
                BY <1>1, <1>3, <2>2, <2>3, <4>1, ZenonT(40)
        <3> QED
            BY <3>1, <3>2
    <2>4. \A r \in results : r.aggregated # <<>> => r.peer \in Senders(r.aggregated[1])
        BY ZenonT(40) DEF BroadcastInvariant, LateOnesFollow
    <2>5. ASSUME NEW r \in results', r.aggregated # <<>>
          PROVE  /\ PowerOf(contributors') >= Quorum
                 /\ r.peer \in Senders(r.aggregated[1])
                 /\ returned' = <<>> =>
                       \A v \in contributors' \ Senders(r.aggregated[1]) :
                           \E q \in results' : q.peer = v /\ q.aggregated # <<>>
        <3>1. CASE r = r0
            BY <2>1, <2>5, <3>1, ZenonT(40)
        <3>2. CASE r # r0
            <4>1. r \in results /\ returned' = returned
                BY <1>1, <3>2, ZenonT(40)
            <4> QED
                BY <2>2, <2>3, <2>4, <2>5, <4>1, ZenonT(40)
        <3> QED
            BY <3>1, <3>2
    <2> QED
        BY <2>5, ZenonT(40) DEF LateOnesFollow
<1>13. NoneMissing'
    BY <1>1, <1>3, ZenonT(40) DEF BroadcastInvariant, NoneMissing
<1> QED
    BY <1>8, <1>9, <1>10, <1>11, <1>12, <1>13, ZenonT(40) DEF BroadcastInvariant

(***************************************************************************)
(* Collect: a result returns the aggregate, counts, or is asked again      *)
(* (reliable-broadcast lib.rs:183-202).                                    *)
(***************************************************************************)
LEMMA CollectKeeps ==
    ASSUME BroadcastInvariant, NEW r \in results, Collect(r)
    PROVE  BroadcastInvariant'
<1>1. /\ returned = <<>> /\ results' = results \ {r}
      /\ returned' = (IF r.ok THEN r.aggregated ELSE <<>>)
      /\ rpc' = (IF r.ok THEN rpc ELSE rpc \cup {r.peer})
      /\ UNCHANGED <<tasks, contributors, trx>>
    BY ZenonT(40) DEF Collect
<1>2. r.aggregated # <<>> => r.ok /\ HasQuorum(r.aggregated)
    BY SMTT(40) DEF BroadcastInvariant, AggregatesHaveQuorum
<1>3. returned' = r.aggregated
    BY <1>1, <1>2, SMTT(40)
<1>4. Members' /\ Counted'
    BY <1>1, ZenonT(40) DEF BroadcastInvariant, Members, Counted
<1>5. AggregatesHaveQuorum'
    BY <1>1, <1>2, <1>3, ZenonT(40) DEF BroadcastInvariant, AggregatesHaveQuorum
<1>6. QuorumIsOnItsWay'
    BY <1>1, <1>3, ZenonT(40) DEF BroadcastInvariant, QuorumIsOnItsWay
<1>7. OnePlace'
    <2>1. r.ok => r.peer \in contributors
        BY SMTT(40) DEF BroadcastInvariant, Counted
    <2> QED
        BY <1>1, <2>1, ZenonT(40) DEF BroadcastInvariant, OnePlace
<1>8. LateOnesFollow'
    <2> SUFFICES ASSUME NEW s \in results, s # r, s.aggregated # <<>>
                 PROVE  /\ PowerOf(contributors) >= Quorum
                        /\ s.peer \in Senders(s.aggregated[1])
                        /\ returned' = <<>> =>
                              \A v \in contributors \ Senders(s.aggregated[1]) :
                                  \E q \in results' : q.peer = v /\ q.aggregated # <<>>
        BY <1>1, ZenonT(40) DEF LateOnesFollow
    <2>1. /\ PowerOf(contributors) >= Quorum
          /\ s.peer \in Senders(s.aggregated[1])
          /\ \A v \in contributors \ Senders(s.aggregated[1]) :
                \E q \in results : q.peer = v /\ q.aggregated # <<>>
        BY <1>1, ZenonT(40) DEF BroadcastInvariant, LateOnesFollow
    <2> QED
        BY <1>1, <1>3, <2>1, ZenonT(40)
<1>9. NoneMissing'
    <2> SUFFICES ASSUME r.aggregated # <<>>, NEW v \in Validator
                 PROVE  \/ v \in Senders(r.aggregated[1]) \/ v \in rpc'
                        \/ \E t \in tasks' : t.peer = v
                        \/ \E q \in results' : q.peer = v
        BY <1>3, ZenonT(40) DEF NoneMissing
    <2>1. \/ v \in rpc \/ v \in contributors
          \/ \E t \in tasks : t.peer = v
          \/ \E q \in results : q.peer = v
        BY <1>1, ZenonT(40) DEF BroadcastInvariant, OnePlace
    <2>2. /\ r.peer \in Senders(r.aggregated[1])
          /\ v \in contributors => \/ v \in Senders(r.aggregated[1])
                                   \/ \E q \in results : q.peer = v
        BY <1>1, ZenonT(40) DEF BroadcastInvariant, LateOnesFollow
    <2>3. rpc \subseteq rpc' /\ tasks' = tasks
        BY <1>1, ZenonT(40)
    <2>4. (\E q \in results : q.peer = v) => v = r.peer \/ \E q \in results' : q.peer = v
        BY <1>1, ZenonT(40)
    <2> QED
        BY <2>1, <2>2, <2>3, <2>4, ZenonT(40)
<1> QED
    BY <1>4, <1>5, <1>6, <1>7, <1>8, <1>9, ZenonT(40) DEF BroadcastInvariant

(***************************************************************************)
(* The invariant of the broadcast holds in every reachable state, for any  *)
(* validators, any voting power and any order of answers and tasks.        *)
(***************************************************************************)
THEOREM BroadcastInvariantTheorem == BroadcastSpec => []BroadcastInvariant
<1>1. BroadcastInit => BroadcastInvariant
    <2> SUFFICES ASSUME BroadcastInit PROVE BroadcastInvariant
        BY SMTT(40)
    <2>3. QuorumIsOnItsWay
        <3>1. ~(PowerOf({}) >= Quorum)
            BY PowerFacts, SMTT(40)
        <3> QED
            BY <3>1, ZenonT(40) DEF BroadcastInit, QuorumIsOnItsWay
    <2>4. Counted
        <3>1. Senders({}) = {} /\ OnePerSender({})
            BY ZenonT(40) DEF Senders, OnePerSender
        <3> QED
            BY <3>1, ZenonT(40) DEF BroadcastInit, Counted
    <2> QED
        BY <2>3, <2>4, ZenonT(40) DEF BroadcastInit, BroadcastInvariant, Members,
                    AggregatesHaveQuorum, OnePlace, LateOnesFollow, NoneMissing
<1>2. BroadcastInvariant /\ [BroadcastNext]_broadcast_vars => BroadcastInvariant'
    <2> SUFFICES ASSUME BroadcastInvariant, [BroadcastNext]_broadcast_vars
                 PROVE  BroadcastInvariant'
        OBVIOUS
    <2>1. CASE UNCHANGED broadcast_vars
        <3>1. /\ rpc' = rpc /\ tasks' = tasks /\ results' = results
              /\ contributors' = contributors /\ trx' = trx /\ returned' = returned
            BY <2>1, SMTT(40) DEF broadcast_vars
        <3>2. Members' /\ Counted'
            BY <3>1, SMTT(40) DEF BroadcastInvariant, Members, Counted
        <3>3. AggregatesHaveQuorum'
            BY <3>1, SMTT(40) DEF BroadcastInvariant, AggregatesHaveQuorum
        <3>4. QuorumIsOnItsWay'
            BY <3>1, SMTT(40) DEF BroadcastInvariant, QuorumIsOnItsWay
        <3>5. OnePlace'
            BY <3>1, ZenonT(40) DEF BroadcastInvariant, OnePlace
        <3>6. LateOnesFollow' /\ NoneMissing'
            BY <3>1, ZenonT(40) DEF BroadcastInvariant, LateOnesFollow, NoneMissing
        <3> QED
            BY <3>2, <3>3, <3>4, <3>5, <3>6, ZenonT(40) DEF BroadcastInvariant
    <2> QED
        BY <2>1, RespondKeeps, AddKeeps, CollectKeeps, SMTT(40) DEF BroadcastNext
<1> QED
    BY <1>1, <1>2, PTL DEF BroadcastSpec

(***************************************************************************)
(* What multicast returns, for any validators and voting powers and        *)
(* whatever dealers the transcripts name: one verified transcript per      *)
(* sender, senders with a quorum, nobody left out whose answer was taken   *)
(* as Ok(None); and dealers with a quorum, if each transcript names its    *)
(* sender among them (transcript_aggregation/mod.rs:65-150,                *)
(* reliable-broadcast lib.rs:167-204).                                     *)
(***************************************************************************)
THEOREM ReturnedAggregateIsWholeInvariant == BroadcastSpec => []ReturnedAggregateIsWhole
<1>1. BroadcastInvariant => ReturnedAggregateIsWhole
    <2> SUFFICES ASSUME BroadcastInvariant, returned # <<>>
                 PROVE  ReturnedAggregateIsWhole
        BY ZenonT(40) DEF ReturnedAggregateIsWhole
    <2>1. HasQuorum(returned)
        BY ZenonT(40) DEF BroadcastInvariant, AggregatesHaveQuorum
    <2>2. PICK A \in SUBSET Part : returned = <<A>> /\ Whole(A)
        BY <2>1, ZenonT(40) DEF HasQuorum
    <2>3. returned[1] = A
        BY <2>2, SMTT(40)
    <2>4. (\A p, q \in A : p.peer = q.peer => p = q) /\ PowerOf(Senders(A)) >= Quorum
        BY <2>2, ZenonT(40) DEF Whole, OnePerSender
    <2>5. \A v \in Validator : \/ v \in Senders(A) \/ v \in rpc
                               \/ \E f \in tasks \cup results : f.peer = v
        BY <2>3, ZenonT(40) DEF BroadcastInvariant, NoneMissing
    <2>6. ASSUME \A p \in A : p.peer \in p.dealers
          PROVE  PowerOf(DealersOf(A)) >= Quorum
        <3>1. \A p \in A : p.dealers \in SUBSET Validator
            BY BroadcastAssumption, SMTT(40) DEF Part
        <3>2. DealersOf(A) \in SUBSET Validator
            BY <3>1, ZenonT(40) DEF DealersOf
        <3>3. Senders(A) \in SUBSET DealersOf(A)
            BY <2>6, ZenonT(40) DEF Senders, DealersOf
        <3> QED
            BY <2>4, <3>2, <3>3, PowerGrows, ZenonT(40)
    <2> QED
        BY <2>3, <2>4, <2>5, <2>6, ZenonT(40) DEF ReturnedAggregateIsWhole
<1> QED
    BY <1>1, BroadcastInvariantTheorem, PTL

(***************************************************************************)
(* Nobody is asked twice at once and nobody is forgotten, and "unreachable!*)
(* (Should aggregate with all responses)" (reliable-broadcast lib.rs:203)  *)
(* is unreachable, provided the validators together have a quorum.         *)
(***************************************************************************)
THEOREM NobodyForgottenInvariant == BroadcastSpec => []NobodyForgotten
<1>1. BroadcastInvariant => NobodyForgotten
    <2> SUFFICES ASSUME BroadcastInvariant, returned = <<>> PROVE NobodyForgotten
        BY ZenonT(40) DEF NobodyForgotten
    <2> USE DEF BroadcastInvariant
    <2>1. ASSUME NEW v \in Validator
          PROVE  LET places == (IF v \in rpc THEN 1 ELSE 0)
                                 + Cardinality({t \in tasks : t.peer = v})
                                 + Cardinality({r \in results : r.peer = v})
                 IN places = 1 \/ (places = 0 /\ v \in contributors)
        <3> DEFINE Tv == {t \in tasks : t.peer = v}
                   Rv == {r \in results : r.peer = v}
        <3>0. /\ \A t \in Tv : v \notin rpc /\ Tv = {t} /\ Rv = {}
              /\ \A r \in Rv : v \notin rpc /\ Tv = {} /\ Rv = {r}
              /\ Tv = {} /\ Rv = {} => v \in rpc \/ v \in contributors
            <4>1. \A t \in Tv : v \notin rpc /\ Tv = {t} /\ Rv = {}
                BY ZenonT(40) DEF OnePlace
            <4>2. \A r \in Rv : v \notin rpc /\ Tv = {} /\ Rv = {r}
                BY ZenonT(40) DEF OnePlace
            <4>3. Tv = {} /\ Rv = {} => v \in rpc \/ v \in contributors
                BY ZenonT(40) DEF OnePlace
            <4> QED
                BY <4>1, <4>2, <4>3, ZenonT(40)
        <3>1. /\ Tv = {} => Cardinality(Tv) = 0
              /\ Rv = {} => Cardinality(Rv) = 0
              /\ Tv # {} => Cardinality(Tv) = 1
              /\ Rv # {} => Cardinality(Rv) = 1
            BY <3>0, FS_EmptySet, FS_Singleton, ZenonT(40)
        <3> HIDE DEF Tv, Rv
        <3>2. \/ v \in rpc /\ Tv = {} /\ Rv = {}
              \/ v \notin rpc /\ Tv # {} /\ Rv = {}
              \/ v \notin rpc /\ Tv = {} /\ Rv # {}
              \/ v \notin rpc /\ Tv = {} /\ Rv = {} /\ v \in contributors
            BY <3>0, SMTT(40)
        <3>3. (IF v \in rpc THEN 1 ELSE 0) + Cardinality(Tv) + Cardinality(Rv) = 1
              \/ ((IF v \in rpc THEN 1 ELSE 0) + Cardinality(Tv) + Cardinality(Rv) = 0
                    /\ v \in contributors)
            BY <3>1, <3>2, SMTT(40)
        <3> QED
            BY <3>3, SMTT(40) DEF Tv, Rv
    <2>2. rpc \cup tasks \cup results # {} \/ PowerOf(Validator) < Quorum
        <3> SUFFICES ASSUME rpc \cup tasks \cup results = {}
                     PROVE  PowerOf(Validator) < Quorum
            BY SMTT(40)
        <3>1. contributors = Validator
            BY SMTT(40) DEF OnePlace, Members
        <3>2. ~(PowerOf(Validator) >= Quorum)
            BY <3>1, SMTT(40) DEF QuorumIsOnItsWay
        <3> QED
            BY <3>2, PowerFacts, SMTT(40)
    <2> QED
        BY <2>1, <2>2, ZenonT(40) DEF NobodyForgotten
<1> QED
    BY <1>1, BroadcastInvariantTheorem, PTL

(***************************************************************************)
(* The types, and that no more add calls are spawned at once than the      *)
(* bounded executor has permits (bounded-executor, reliable-broadcast      *)
(* lib.rs:152-199), however many requests are answered together.           *)
(***************************************************************************)
THEOREM BroadcastTypeCorrect == BroadcastSpec => []BroadcastTypeOK
<1> DEFINE Typed == BroadcastTypeOK /\ IsFiniteSet(tasks)
<1>1. BroadcastInit => Typed
    BY FS_EmptySet, BroadcastAssumption, SMTT(40) DEF BroadcastInit, BroadcastTypeOK
<1>2. Typed /\ [BroadcastNext]_broadcast_vars => Typed'
    <2> SUFFICES ASSUME Typed, [BroadcastNext]_broadcast_vars PROVE Typed'
        BY SMTT(40)
    <2>1. ASSUME NEW v \in Validator, NEW a \in Answer, Respond(v, a) PROVE Typed'
        <3> DEFINE t == [peer |-> v, answer |-> a]
        <3>1. /\ rpc' = rpc \ {v} /\ tasks' = tasks \cup {t}
              /\ Cardinality(tasks) < Permits
              /\ UNCHANGED <<results, contributors, trx, failures, returned>>
            BY <2>1, SMTT(40) DEF Respond
        <3>2. t \in [peer : Validator, answer : Answer]
            OBVIOUS
        <3> HIDE DEF t
        <3>3. /\ IsFiniteSet(tasks') /\ Cardinality(tasks) \in Nat
              /\ Cardinality(tasks') \in {Cardinality(tasks), Cardinality(tasks) + 1}
            BY <3>1, FS_AddElement, FS_CardinalityType, ZenonT(40)
        <3>4. Cardinality(tasks') <= Permits
            BY <3>1, <3>3, BroadcastAssumption, SMTT(40)
        <3> QED
            BY <3>1, <3>2, <3>3, <3>4, ZenonT(40) DEF BroadcastTypeOK
    <2>2. ASSUME NEW t \in tasks, add(t) PROVE Typed'
        <3>1. /\ tasks' = tasks \ {t} /\ UNCHANGED <<rpc, failures>>
              /\ contributors' \in {contributors, contributors \cup {t.peer}}
            BY <2>2, ZenonT(40) DEF add
        <3>2. PICK res :
                  results' = results \cup {res} /\ res.peer = t.peer /\ res.ok \in BOOLEAN
            <4> DEFINE new == contributors \cup {t.peer}
                       repeated == t.peer \in contributors /\ t.answer.kind # "refused"
                       ok == t.answer.kind = "verified" /\ ~repeated
                       r0 == [peer |-> t.peer, ok |-> ok \/ repeated,
                              aggregated |-> IF ok /\ PowerOf(new) >= Quorum
                                             THEN <<trx'>> ELSE <<>>]
            <4>1. results' = results \cup {r0}
                BY <2>2, ZenonT(40) DEF add
            <4>2. r0.peer = t.peer /\ r0.ok \in BOOLEAN
                BY ZenonT(40)
            <4> QED
                BY <4>1, <4>2, ZenonT(40)
        <3>3. t.peer \in Validator /\ t.answer \in Answer
            BY DEF BroadcastTypeOK
        <3>7. trx' \subseteq Part
            <4> DEFINE part == [peer |-> t.peer, dealers |-> t.answer.dealers]
            <4>1. \/ trx' = trx
                  \/ t.answer.kind = "verified" /\ trx' = trx \cup {part}
                BY <2>2, ZenonT(40) DEF add
            <4>2. t.answer.kind = "verified" => part \in Part
                BY <3>3, SMTT(40) DEF Answer, Part
            <4> HIDE DEF part
            <4> QED
                BY <4>1, <4>2, ZenonT(40) DEF BroadcastTypeOK
        <3>4. /\ IsFiniteSet(tasks') /\ Cardinality(tasks) \in Nat
              /\ Cardinality(tasks') = Cardinality(tasks) - 1
            BY <3>1, FS_RemoveElement, FS_CardinalityType, ZenonT(40)
        <3>5. Cardinality(tasks') <= Permits
            <4>1. Cardinality(tasks) <= Permits
                BY ZenonT(40) DEF BroadcastTypeOK
            <4> QED
                BY <3>4, <4>1, BroadcastAssumption, SMTT(40)
        <3>6. \A r \in results' : r.peer \in Validator /\ r.ok \in BOOLEAN
            BY <3>2, <3>3, ZenonT(40) DEF BroadcastTypeOK
        <3> QED
            BY <3>1, <3>3, <3>4, <3>5, <3>6, <3>7, ZenonT(40) DEF BroadcastTypeOK
    <2>3. ASSUME NEW r \in results, Collect(r) PROVE Typed'
        <3>1. /\ results' = results \ {r} /\ UNCHANGED <<tasks, contributors, trx>>
              /\ rpc' \in {rpc, rpc \cup {r.peer}}
              /\ \/ failures' = failures
                 \/ /\ failures[r.peer] # MaxFailures
                    /\ failures' = [failures EXCEPT ![r.peer] = @ + 1]
            BY <2>3, ZenonT(40) DEF Collect
        <3>2. r.peer \in Validator
            BY SMTT(40) DEF BroadcastTypeOK
        <3>3. failures' \in [Validator -> 0..MaxFailures]
            <4>1. failures \in [Validator -> 0..MaxFailures] /\ MaxFailures \in Nat
                BY BroadcastAssumption, ZenonT(40) DEF BroadcastTypeOK
            <4> QED
                BY <3>1, <3>2, <4>1, SMTT(40)
        <3> QED
            BY <3>1, <3>2, <3>3, ZenonT(40) DEF BroadcastTypeOK
    <2>4. CASE UNCHANGED broadcast_vars
        BY <2>4, ZenonT(40) DEF broadcast_vars, BroadcastTypeOK
    <2> QED
        BY <2>1, <2>2, <2>3, <2>4, SMTT(40) DEF BroadcastNext
<1> QED
    BY <1>1, <1>2, PTL DEF BroadcastSpec
-----------------------------------------------------------------------------
(***************************************************************************)
(* A notification is a configuration; a manager is what start_new_epoch    *)
(* spawns, with what waits in its channels.                                *)
(***************************************************************************)
Notice == [epoch : Epoch, session : 0..MaxEpoch]

ManagerState ==
    [epoch : Epoch, state : {"Spawned", "NotStarted", "InProgress", "Finished"},
     session : 0..MaxEpoch, start : 0..MaxEpoch,
     agg : BOOLEAN, notify : BOOLEAN, close : BOOLEAN, proposed : BOOLEAN]

AtMostOne(s, S) == s = <<>> \/ \E x \in S : s = <<x>>

(***************************************************************************)
(* The inductive invariant of the node: the shape of its state; the close  *)
(* handshake, in which the epoch manager holds a live sender exactly while *)
(* a manager runs that has not been told to close; a transcript that waits *)
(* in the channel of a manager only while that manager is InProgress; and  *)
(* the two properties themselves.                                          *)
(***************************************************************************)
NodeShape ==
    /\ chain \in Notice
    /\ starts \in Seq(Epoch)
    /\ AtMostOne(reconfigs, Notice)
    /\ AtMostOne(payload, Notice)
    /\ AtMostOne(mgr, ManagerState)
    /\ em \in {"awaiting", "running", "closing", "panicked"}
    /\ em = "closing" => payload # <<>>
    /\ epoch \in 0..MaxEpoch
    /\ close_tx \in {"none", "live", "dangling"}
    /\ producer \subseteq Epoch
    /\ pool \subseteq Epoch

Handshake ==
    /\ close_tx = "live" <=> Alive /\ ~M.close
    /\ close_tx = "dangling" => ~Alive
    /\ em = "closing" => close_tx = "none"

AggInProgress == Alive /\ M.agg => M.state = "InProgress"

NodeInvariant ==
    NodeShape /\ Handshake /\ AggInProgress /\ PoolIsCurrent /\ ProducerHasOwner

(***************************************************************************)
(* There is at most one DKG manager, and its state is one run() reaches    *)
(* (dkg_manager/mod.rs:117-206).                                           *)
(***************************************************************************)
LEMMA OneManager ==
    ASSUME NodeShape, Alive
    PROVE  mgr = <<M>> /\ M \in ManagerState
BY SMTT(40) DEF NodeShape, AtMostOne, Alive, M

(***************************************************************************)
(* When the epoch manager goes on after shutdown_current_processor, the    *)
(* old manager is gone and has left neither a producer task nor a result   *)
(* in the pool (epoch_manager.rs, on_new_epoch).                           *)
(***************************************************************************)
LEMMA ClosedFirst ==
    ASSUME NodeInvariant, Acknowledged
    PROVE  mgr = <<>> /\ producer = {} /\ pool = {} /\ payload[1] \in Notice
<1>1. ~Alive
    BY SMTT(40) DEF NodeInvariant, Handshake, Acknowledged
<1>2. mgr = <<>> /\ producer = {} /\ pool = {}
    BY <1>1, SMTT(40) DEF NodeInvariant, PoolIsCurrent, ProducerHasOwner, Alive
<1>3. payload[1] \in Notice
    BY SMTT(40) DEF NodeInvariant, NodeShape, AtMostOne, Acknowledged
<1> QED
    BY <1>2, <1>3, SMTT(40)

(***************************************************************************)
(* A handler of the manager keeps the invariant when it leaves the epoch   *)
(* and the close channel alone and the pool, the producers and the waiting *)
(* transcript agree with the state it ends in.                             *)
(***************************************************************************)
LEMMA HandlerKeeps ==
    ASSUME NodeInvariant, Alive, UNCHANGED Outside,
           NEW m \in ManagerState, mgr' = <<m>>,
           m.epoch = M.epoch, m.close = M.close,
           m.agg => m.state = "InProgress",
           \A e \in pool' : e = m.epoch /\ m.state = "Finished",
           \A e \in producer' : e = m.epoch /\ m.state = "InProgress" /\ ~m.agg
    PROVE  NodeInvariant'
<1>1. mgr'[1] = m /\ mgr' # <<>>
    BY SMTT(40)
<1>2. pool' \subseteq Epoch /\ producer' \subseteq Epoch
    BY SMTT(40) DEF ManagerState
<1>3. AtMostOne(mgr', ManagerState)
    BY ZenonT(40) DEF AtMostOne
<1>4. NodeShape'
    BY <1>2, <1>3, ZenonT(40) DEF NodeInvariant, NodeShape, AtMostOne, Outside
<1>5. Handshake'
    BY <1>1, ZenonT(40) DEF NodeInvariant, Handshake, Alive, M, Outside
<1> QED
    BY <1>1, <1>4, <1>5, ZenonT(40)
    DEF NodeInvariant, AggInProgress, PoolIsCurrent, ProducerHasOwner, Alive, M

(***************************************************************************)
(* Nothing of the invariant but its shape depends on the chain and on the  *)
(* notification channels, so a step that leaves the node's own variables   *)
(* alone keeps it.                                                         *)
(***************************************************************************)
LEMMA ChainKeeps ==
    ASSUME NodeInvariant, NodeShape',
           UNCHANGED <<em, close_tx, mgr, producer, pool>>
    PROVE  NodeInvariant'
BY ZenonT(40)
   DEF NodeInvariant, Handshake, AggInProgress, PoolIsCurrent, ProducerHasOwner, Alive, M

(***************************************************************************)
(* The handlers of the DKG manager, and the messages that reach it: a      *)
(* start event, the end of its producer, a pull (dkg_manager/mod.rs,       *)
(* agg_trx_producer.rs).                                                   *)
(***************************************************************************)
LEMMA ManagerKeeps ==
    ASSUME NodeInvariant,
           \/ Resume \/ process_dkg_start_event \/ process_aggregated_transcript
           \/ process_dkg_txn_pulled_notification
           \/ \E e \in Epoch : ProducerEnds(e)
    PROVE  NodeInvariant'
<1> USE DEF NodeInvariant
<1>0. ASSUME Alive
      PROVE  /\ mgr = <<M>> /\ M \in ManagerState
             /\ \A e \in pool : e = M.epoch /\ M.state = "Finished"
             /\ \A e \in producer : e = M.epoch /\ M.state = "InProgress" /\ ~M.agg
             /\ M.agg => M.state = "InProgress"
    BY <1>0, OneManager, SMTT(40) DEF PoolIsCurrent, ProducerHasOwner, AggInProgress
<1>1. CASE Resume
    <2>1. Alive /\ M.state = "Spawned" /\ UNCHANGED Outside /\ pool' = pool
        BY <1>1, SMTT(40) DEF Resume
    <2>2. CASE M.session = M.epoch
        <3> DEFINE m == [M EXCEPT !.state = "InProgress"]
        <3>1. mgr' = <<m>> /\ producer' = producer \cup {M.epoch}
            BY <1>1, <2>2, SMTT(40) DEF Resume, Dealt
        <3> QED
            BY <1>0, <2>1, <3>1, HandlerKeeps, SMTT(40) DEF ManagerState
    <2>3. CASE M.session # M.epoch
        <3> DEFINE m == [M EXCEPT !.state = "NotStarted"]
        <3>1. mgr' = <<m>> /\ producer' = producer
            BY <1>1, <2>3, SMTT(40) DEF Resume
        <3> QED
            BY <1>0, <2>1, <3>1, HandlerKeeps, SMTT(40) DEF ManagerState
    <2> QED
        BY <2>2, <2>3, ZenonT(40)
<1>2. CASE process_dkg_start_event
    <2>1. Alive /\ UNCHANGED Outside /\ pool' = pool
        BY <1>2, SMTT(40) DEF process_dkg_start_event, InLoop
    <2>2. CASE M.state = "NotStarted" /\ M.start = M.epoch
        <3> DEFINE n == [M EXCEPT !.start = 0]
                   m == Dealt(n)
        <3>1. mgr' = <<m>> /\ producer' = producer \cup {M.epoch}
            BY <1>2, <2>2, SMTT(40) DEF process_dkg_start_event
        <3>2. /\ n \in ManagerState /\ n.epoch = M.epoch /\ n.close = M.close
              /\ n.agg = M.agg
            BY <1>0, <2>1, NodeAssumption, SMTT(40) DEF ManagerState
        <3> HIDE DEF n
        <3>3. /\ m \in ManagerState /\ m.epoch = n.epoch /\ m.close = n.close
              /\ m.state = "InProgress" /\ m.agg = n.agg
            BY <3>2, SMTT(40) DEF Dealt, ManagerState
        <3>4. producer = {} /\ pool = {} /\ ~M.agg
            BY <1>0, <2>1, <2>2, ZenonT(40)
        <3> HIDE DEF m
        <3> QED
            BY <2>1, <3>1, <3>2, <3>3, <3>4, HandlerKeeps, ZenonT(40)
    <2>3. CASE ~(M.state = "NotStarted" /\ M.start = M.epoch)
        <3> DEFINE m == [M EXCEPT !.start = 0]
        <3>1. mgr' = <<m>> /\ producer' = producer
            BY <1>2, <2>3, SMTT(40) DEF process_dkg_start_event
        <3>2. m \in ManagerState
            BY <1>0, <2>1, NodeAssumption, SMTT(40) DEF ManagerState
        <3> QED
            BY <1>0, <2>1, <3>1, <3>2, HandlerKeeps, SMTT(40) DEF ManagerState
    <2> QED
        BY <2>2, <2>3, ZenonT(40)
<1>3. CASE process_aggregated_transcript
    <2> DEFINE m == [M EXCEPT !.agg = FALSE, !.state = "Finished"]
    <2>1. Alive /\ M.agg /\ UNCHANGED Outside /\ producer' = producer
        BY <1>3, SMTT(40) DEF process_aggregated_transcript, InLoop
    <2>2. M.state = "InProgress" /\ producer = {}
        BY <1>0, <2>1, SMTT(40)
    <2>3. mgr' = <<m>> /\ pool' = {M.epoch}
        BY <1>3, <2>2, SMTT(40) DEF process_aggregated_transcript
    <2>4. m \in ManagerState /\ m.epoch = M.epoch /\ m.close = M.close
          /\ m.state = "Finished" /\ ~m.agg
        BY <1>0, <2>1, ZenonT(40) DEF ManagerState
    <2> QED
        BY <2>1, <2>2, <2>3, <2>4, HandlerKeeps, ZenonT(40)
<1>4. CASE process_dkg_txn_pulled_notification
    <2> DEFINE m == [M EXCEPT !.notify = FALSE,
                              !.proposed = (M.proposed \/ M.state = "Finished")]
    <2>1. Alive /\ UNCHANGED Outside /\ producer' = producer /\ pool' = pool
        BY <1>4, SMTT(40) DEF process_dkg_txn_pulled_notification, InLoop
    <2>2. mgr' = <<m>>
        BY <1>0, <1>4, <2>1, SMTT(40)
           DEF process_dkg_txn_pulled_notification, ManagerState
    <2>3. /\ m \in ManagerState /\ m.epoch = M.epoch /\ m.close = M.close
          /\ m.state = M.state /\ m.agg = M.agg
        BY <1>0, <2>1, ZenonT(40) DEF ManagerState
    <2> HIDE DEF m
    <2> QED
        BY <1>0, <2>1, <2>2, <2>3, HandlerKeeps, ZenonT(40)
<1>5. ASSUME NEW e \in Epoch, ProducerEnds(e) PROVE NodeInvariant'
    <2> DEFINE m == [M EXCEPT !.agg = TRUE]
    <2>1. e \in producer /\ producer' = producer \ {e} /\ pool' = pool /\ UNCHANGED Outside
        BY <1>5, SMTT(40) DEF ProducerEnds
    <2>2. Alive /\ M.epoch = e /\ M.state = "InProgress"
        BY <2>1, SMTT(40) DEF ProducerHasOwner
    <2>3. mgr' = <<m>> /\ producer' = {}
        BY <1>0, <1>5, <2>1, <2>2, ZenonT(40) DEF ProducerEnds
    <2> QED
        BY <1>0, <2>1, <2>2, <2>3, HandlerKeeps, ZenonT(40) DEF ManagerState
<1> QED
    BY <1>1, <1>2, <1>3, <1>4, <1>5, ZenonT(40)

(***************************************************************************)
(* The epoch manager: the close handshake and the start of the next epoch  *)
(* in its three outcomes, the start event it passes on, and the manager's  *)
(* answer to the close command (epoch_manager.rs, dkg_manager/mod.rs).     *)
(***************************************************************************)
LEMMA EpochManagerKeeps ==
    ASSUME NodeInvariant,
           \/ on_dkg_start_notification \/ shutdown_current_processor
           \/ StartNewEpoch \/ process_close_cmd
    PROVE  NodeInvariant'
<1>1. CASE on_dkg_start_notification
    <2>1. starts # <<>> /\ starts' = Tail(starts)
          /\ UNCHANGED <<chain, reconfigs, em, epoch, payload, close_tx, producer, pool>>
        BY <1>1, SMTT(40) DEF on_dkg_start_notification
    <2>2. starts' \in Seq(Epoch) /\ Head(starts) \in 0..MaxEpoch
        BY <2>1, NodeAssumption, SMTT(40) DEF NodeInvariant, NodeShape, Epoch
    <2>3. CASE mgr' = mgr
        BY <2>1, <2>2, <2>3, ChainKeeps, ZenonT(40)
           DEF NodeInvariant, NodeShape, AtMostOne
    <2>4. CASE Alive /\ mgr' = <<[M EXCEPT !.start = Head(starts)]>>
        <3> DEFINE m == [M EXCEPT !.start = Head(starts)]
        <3>1. M \in ManagerState
            BY <2>4, OneManager, SMTT(40) DEF NodeInvariant
        <3>2. /\ m \in ManagerState /\ m.epoch = M.epoch /\ m.close = M.close
              /\ m.agg = M.agg /\ m.state = M.state
            BY <2>2, <3>1, SMTT(40) DEF ManagerState
        <3>3. mgr'[1] = m /\ mgr' # <<>>
            BY <2>4, SMTT(40)
        <3> HIDE DEF m
        <3>4. NodeShape'
            BY <2>1, <2>2, <2>4, <3>2, SMTT(40)
               DEF NodeInvariant, NodeShape, AtMostOne, m
        <3> QED
            BY <2>1, <2>4, <3>2, <3>3, <3>4, SMTT(40)
            DEF NodeInvariant, Handshake, AggInProgress, PoolIsCurrent,
                ProducerHasOwner, Alive, M
    <2> QED
        BY <1>1, <2>3, <2>4, SMTT(40) DEF on_dkg_start_notification
<1>2. CASE shutdown_current_processor
    <2>1. /\ reconfigs # <<>> /\ reconfigs' = <<>> /\ payload' = reconfigs
          /\ em' \in {"closing", "panicked"} /\ close_tx' = "none"
          /\ UNCHANGED <<chain, starts, epoch, producer, pool>>
        BY <1>2, SMTT(40) DEF shutdown_current_processor
    <2>2. CASE close_tx # "live"
        <3>1. mgr' = mgr /\ (Alive => M.close)
            BY <1>2, <2>2, SMTT(40)
               DEF shutdown_current_processor, NodeInvariant, Handshake
        <3>2. NodeShape'
            BY <2>1, <3>1, ZenonT(40) DEF NodeInvariant, NodeShape, AtMostOne
        <3> QED
            BY <2>1, <3>1, <3>2, ZenonT(40)
            DEF NodeInvariant, Handshake, AggInProgress, PoolIsCurrent,
                ProducerHasOwner, Alive, M
    <2>3. CASE close_tx = "live"
        <3> DEFINE m == [M EXCEPT !.close = TRUE]
        <3>1. Alive /\ M \in ManagerState
            BY <2>3, OneManager, SMTT(40) DEF NodeInvariant, Handshake
        <3>2. /\ m \in ManagerState /\ m.epoch = M.epoch /\ m.close
              /\ m.agg = M.agg /\ m.state = M.state
            BY <3>1, ZenonT(40) DEF ManagerState
        <3>3. mgr' = <<m>> /\ mgr'[1] = m /\ mgr' # <<>>
            BY <1>2, <2>3, SMTT(40) DEF shutdown_current_processor
        <3> HIDE DEF m
        <3>4. NodeShape'
            BY <2>1, <3>2, <3>3, ZenonT(40) DEF NodeInvariant, NodeShape, AtMostOne
        <3> QED
            BY <2>1, <3>1, <3>2, <3>3, <3>4, ZenonT(40)
            DEF NodeInvariant, Handshake, AggInProgress, PoolIsCurrent,
                ProducerHasOwner, Alive, M
    <2> QED
        BY <2>2, <2>3, SMTT(40)
<1>3. CASE start_new_epoch_spawns
    <2> DEFINE m == Manager(payload[1].epoch, payload[1].session)
    <2>1. mgr = <<>> /\ producer = {} /\ pool = {} /\ payload[1] \in Notice
        BY <1>3, ClosedFirst, ZenonT(40) DEF start_new_epoch_spawns
    <2>2. /\ m \in ManagerState /\ ~m.close /\ ~m.agg
        <3>1. payload[1].epoch \in Epoch /\ payload[1].session \in 0..MaxEpoch
            BY <2>1, ZenonT(40) DEF Notice
        <3>2. 0 \in 0..MaxEpoch
            BY NodeAssumption, SMTT(40)
        <3> QED
            BY <3>1, <3>2, ZenonT(40) DEF Manager, ManagerState
    <2>3. /\ mgr' = <<m>> /\ close_tx' = "live" /\ em' = "running" /\ payload' = <<>>
          /\ epoch' = payload[1].epoch
          /\ UNCHANGED <<chain, starts, reconfigs, producer, pool>>
        BY <1>3, ZenonT(40) DEF start_new_epoch_spawns
    <2>4. mgr'[1] = m /\ mgr' # <<>> /\ epoch' \in 0..MaxEpoch
        BY <2>1, <2>3, SMTT(40) DEF Notice, Epoch
    <2> HIDE DEF m
    <2>5. NodeShape'
        BY <2>1, <2>2, <2>3, <2>4, ZenonT(40) DEF NodeInvariant, NodeShape, AtMostOne
    <2> QED
        BY <2>1, <2>2, <2>3, <2>4, <2>5, ZenonT(40)
           DEF NodeInvariant, Handshake, AggInProgress, PoolIsCurrent, ProducerHasOwner, Alive, M
<1>4. CASE start_new_epoch_idle \/ start_new_epoch_no_key
    <2>1. mgr = <<>> /\ producer = {} /\ pool = {} /\ payload[1] \in Notice
        BY <1>4, ClosedFirst, ZenonT(40) DEF start_new_epoch_idle, start_new_epoch_no_key
    <2>2. /\ close_tx' \in {"none", "dangling"} /\ em' \in {"running", "panicked"}
          /\ payload' = <<>> /\ epoch' = payload[1].epoch
          /\ UNCHANGED <<chain, starts, reconfigs, mgr, producer, pool>>
        BY <1>4, ZenonT(40)
           DEF start_new_epoch_idle, start_new_epoch_no_key, Acknowledged,
                    NodeInvariant, Handshake
    <2>3. epoch' \in 0..MaxEpoch
        BY <2>1, <2>2, SMTT(40) DEF Notice, Epoch
    <2>4. NodeShape'
        BY <2>2, <2>3, ZenonT(40) DEF NodeInvariant, NodeShape, AtMostOne
    <2> QED
        BY <2>1, <2>2, <2>4, ZenonT(40)
           DEF NodeInvariant, Handshake, AggInProgress, PoolIsCurrent, ProducerHasOwner, Alive
<1>5. CASE process_close_cmd
    <2>1. Alive /\ M.close /\ mgr' = <<>> /\ UNCHANGED Outside
        BY <1>5, ZenonT(40) DEF process_close_cmd, InLoop
    <2>2. producer' = {} /\ pool' = {}
        BY <1>5, ZenonT(40)
           DEF process_close_cmd, NodeInvariant, PoolIsCurrent, ProducerHasOwner
    <2>3. NodeShape'
        BY <2>1, <2>2, ZenonT(40) DEF NodeInvariant, NodeShape, AtMostOne, Outside
    <2>4. Handshake'
        BY <2>1, SMTT(40) DEF NodeInvariant, Handshake, Alive, Outside
    <2> QED
        BY <2>1, <2>2, <2>3, <2>4, ZenonT(40)
        DEF NodeInvariant, AggInProgress, PoolIsCurrent, ProducerHasOwner, Alive
<1> QED
    BY <1>1, <1>2, <1>3, <1>4, <1>5, SMTT(40) DEF StartNewEpoch

(***************************************************************************)
(* The invariant of the node holds in every reachable state, however epoch *)
(* changes, sessions, producers, pulls and restarts interleave.            *)
(***************************************************************************)
THEOREM NodeInvariantTheorem == NodeSpec => []NodeInvariant
<1>1. NodeInit => NodeInvariant
    <2> SUFFICES ASSUME NodeInit PROVE NodeInvariant
        OBVIOUS
    <2>1. chain \in Notice /\ epoch \in 0..MaxEpoch
        BY NodeAssumption, SMTT(40) DEF NodeInit, Notice, Epoch
    <2>2. NodeShape
        BY <2>1, SMTT(40) DEF NodeInit, NodeShape, AtMostOne
    <2> QED
        BY <2>2, ZenonT(40)
           DEF NodeInit, NodeInvariant, Handshake, AggInProgress, PoolIsCurrent,
                    ProducerHasOwner, Alive
<1>2. NodeInvariant /\ [NodeNext]_node_vars => NodeInvariant'
    <2> SUFFICES ASSUME NodeInvariant, [NodeNext]_node_vars PROVE NodeInvariant'
        OBVIOUS
    <2>1. CASE ChainStartsSession \/ ChainReconfigures \/ UNCHANGED node_vars
        <3>1. /\ chain' \in Notice /\ starts' \in Seq(Epoch)
              /\ AtMostOne(reconfigs', Notice)
            <4>1. CASE ChainStartsSession
                <5>1. chain.epoch \in Epoch /\ chain.epoch \in 0..MaxEpoch
                    BY SMTT(40) DEF NodeInvariant, NodeShape, Notice, Epoch
                <5> QED
                    BY <4>1, <5>1, SMTT(40)
                       DEF ChainStartsSession, NodeInvariant, NodeShape, Notice,
                                      AtMostOne
            <4>2. CASE ChainReconfigures
                <5>1. /\ chain.epoch \in 1..MaxEpoch /\ chain.session \in 0..MaxEpoch
                      /\ starts \in Seq(Epoch)
                    BY ZenonT(40) DEF NodeInvariant, NodeShape, Notice, Epoch
                <5>2. chain.epoch + 1 \in 1..MaxEpoch /\ 0 \in 0..MaxEpoch
                    BY <4>2, <5>1, NodeAssumption, SMTT(40) DEF ChainReconfigures
                <5>3. chain' \in Notice
                    <6>1. PICK s \in {0, chain.session} :
                                 chain' = [epoch |-> chain.epoch + 1, session |-> s]
                        BY <4>2, ZenonT(40) DEF ChainReconfigures
                    <6>2. s \in 0..MaxEpoch
                        BY <5>1, <5>2, <6>1, ZenonT(40)
                    <6> QED
                        BY <5>2, <6>1, <6>2, SMTT(40) DEF Notice, Epoch
                <5> QED
                    BY <4>2, <5>1, <5>3, ZenonT(40) DEF ChainReconfigures, AtMostOne
            <4>3. CASE UNCHANGED node_vars
                BY <4>3, ZenonT(40) DEF node_vars, NodeInvariant, NodeShape
            <4> QED
                BY <2>1, <4>1, <4>2, <4>3, SMTT(40)
        <3>2. UNCHANGED <<em, epoch, payload, close_tx, mgr, producer, pool>>
            BY <2>1, SMTT(40) DEF ChainStartsSession, ChainReconfigures, node_vars
        <3>3. NodeShape'
            BY <3>1, <3>2, ZenonT(40) DEF NodeInvariant, NodeShape, AtMostOne
        <3> QED
            BY <3>2, <3>3, ChainKeeps, SMTT(40)
    <2>2. CASE Crash
        <3>1. chain' \in Notice /\ epoch' \in 0..MaxEpoch
            BY <2>2, NodeAssumption, SMTT(40) DEF Crash, NodeInvariant, NodeShape
        <3>2. NodeShape'
            BY <2>2, <3>1, SMTT(40) DEF Crash, NodeShape, AtMostOne
        <3> QED
            BY <2>2, <3>2, ZenonT(40) DEF Crash, NodeInvariant, Handshake, AggInProgress,
                              PoolIsCurrent, ProducerHasOwner, Alive
    <2>3. CASE ConsensusPulls
        <3> DEFINE m == [M EXCEPT !.notify = TRUE]
        <3>1. UNCHANGED Outside /\ producer' = producer /\ pool' = pool /\ pool # {}
            BY <2>3, SMTT(40) DEF ConsensusPulls, Outside
        <3>2. Alive /\ M.epoch \in pool /\ producer = {} /\ M \in ManagerState
            BY <3>1, OneManager, SMTT(40)
               DEF NodeInvariant, PoolIsCurrent, ProducerHasOwner
        <3>3. mgr' = <<m>>
            BY <2>3, <3>2, ZenonT(40) DEF ConsensusPulls
        <3>4. /\ m \in ManagerState /\ m.epoch = M.epoch /\ m.close = M.close
              /\ m.state = M.state /\ m.agg = M.agg
            BY <3>2, ZenonT(40) DEF ManagerState
        <3> HIDE DEF m
        <3> QED
            BY <3>1, <3>2, <3>3, <3>4, HandlerKeeps, ZenonT(40)
            DEF NodeInvariant, AggInProgress, PoolIsCurrent
    <2> QED
        BY <2>1, <2>2, <2>3, ManagerKeeps, EpochManagerKeeps, SMTT(40) DEF NodeNext
<1> QED
    BY <1>1, <1>2, PTL DEF NodeSpec

(***************************************************************************)
(* No DKG result outlives its epoch: what is in the pool belongs to the    *)
(* live manager's finished session ("this allows the pool to be emptied on *)
(* epoch boundaries", validator-transaction-pool lib.rs:129).              *)
(***************************************************************************)
THEOREM PoolIsCurrentInvariant == NodeSpec => []PoolIsCurrent
<1>1. NodeInvariant => PoolIsCurrent
    BY SMTT(40) DEF NodeInvariant
<1> QED
    BY <1>1, NodeInvariantTheorem, PTL

(***************************************************************************)
(* process_close_cmd and process_aggregated_transcript leave no producer   *)
(* task behind: one runs only for the live manager that waits for it       *)
(* (dkg_manager/mod.rs, agg_trx_producer.rs).                              *)
(***************************************************************************)
THEOREM ProducerHasOwnerInvariant == NodeSpec => []ProducerHasOwner
<1>1. NodeInvariant => ProducerHasOwner
    BY DEF NodeInvariant
<1> QED
    BY <1>1, NodeInvariantTheorem, PTL

(***************************************************************************)
(* A session moves from NotStarted over InProgress to Finished and a live  *)
(* manager is never replaced, so the arm of process_aggregated_transcript  *)
(* that throws a session away (dkg_manager/mod.rs:418) is never taken.     *)
(***************************************************************************)
THEOREM SessionMovesForwardTheorem == NodeSpec => SessionMovesForward
<1> DEFINE Forward == Alive /\ mgr' # <<>> =>
                        mgr'[1].epoch = M.epoch /\ Rank(mgr'[1].state) >= Rank(M.state)
<1>1. NodeInvariant /\ [NodeNext]_node_vars => [Forward]_node_vars
    <2> SUFFICES ASSUME NodeInvariant, NodeNext, Alive, mgr' # <<>>
                 PROVE  mgr'[1].epoch = M.epoch /\ Rank(mgr'[1].state) >= Rank(M.state)
        BY SMTT(40)
    <2>0. mgr = <<M>> /\ M \in ManagerState
        BY OneManager, SMTT(40) DEF NodeInvariant
    <2>1. /\ Rank("Spawned") = 0 /\ Rank("NotStarted") = 1
          /\ Rank("InProgress") = 2 /\ Rank("Finished") = 3
        BY SMTT(40) DEF Rank
    <2>2. ASSUME mgr'[1].epoch = M.epoch, mgr'[1].state = M.state
          PROVE  mgr'[1].epoch = M.epoch /\ Rank(mgr'[1].state) >= Rank(M.state)
        <3>1. Rank(M.state) \in 0..3
            BY <2>0, <2>1, SMTT(40) DEF ManagerState
        <3> QED
            BY <2>2, <3>1, SMTT(40)
    <2>3. CASE mgr' = mgr
        BY <2>2, <2>3, SMTT(40) DEF M
    <2>4. CASE \/ ChainStartsSession \/ ChainReconfigures \/ ConsensusPulls \/ Crash
               \/ on_dkg_start_notification \/ shutdown_current_processor
               \/ process_dkg_txn_pulled_notification
               \/ \E e \in Epoch : ProducerEnds(e)
        <3>1. CASE process_dkg_txn_pulled_notification
            <4> DEFINE m == [M EXCEPT !.notify = FALSE,
                                      !.proposed = (@ \/ M.state = "Finished")]
            <4>1. mgr' = <<m>>
                BY <3>1, SMTT(40) DEF process_dkg_txn_pulled_notification
            <4>2. m.epoch = M.epoch /\ m.state = M.state
                BY <2>0, SMTT(40) DEF ManagerState
            <4> HIDE DEF m
            <4> QED
                BY <2>2, <4>1, <4>2, ZenonT(40)
        <3>2. CASE ~process_dkg_txn_pulled_notification
            <4>1. mgr' = mgr \/ (mgr'[1].epoch = M.epoch /\ mgr'[1].state = M.state)
                BY <2>0, <2>4, <3>2, SMTT(40)
                DEF ChainStartsSession, ChainReconfigures, ConsensusPulls, Crash,
                    on_dkg_start_notification, shutdown_current_processor, ProducerEnds,
                    ManagerState
            <4> QED
                BY <2>2, <2>3, <4>1, ZenonT(40)
        <3> QED
            BY <3>1, <3>2, SMTT(40)
    <2>5. CASE StartNewEpoch \/ process_close_cmd
        BY <2>3, <2>5, ClosedFirst, ZenonT(40) DEF StartNewEpoch, start_new_epoch_spawns,
            start_new_epoch_idle, start_new_epoch_no_key, process_close_cmd, Alive
    <2>6. CASE Resume
        <3>1. /\ M.state = "Spawned" /\ mgr'[1].epoch = M.epoch
              /\ mgr'[1].state \in {"NotStarted", "InProgress"}
            BY <2>0, <2>6, SMTT(40) DEF Resume, Dealt, ManagerState
        <3> QED
            BY <2>1, <3>1, SMTT(40)
    <2>7. CASE process_dkg_start_event
        <3> DEFINE m == [M EXCEPT !.start = 0]
        <3>1. \/ mgr' = <<m>>
              \/ M.state = "NotStarted" /\ mgr' = <<Dealt(m)>>
            BY <2>7, SMTT(40) DEF process_dkg_start_event
        <3>2. m \in ManagerState /\ m.epoch = M.epoch /\ m.state = M.state
            BY <2>0, NodeAssumption, SMTT(40) DEF ManagerState
        <3> HIDE DEF m
        <3>3. Dealt(m).epoch = m.epoch /\ Dealt(m).state = "InProgress"
            BY <3>2, SMTT(40) DEF Dealt, ManagerState
        <3> QED
            <4>1. CASE mgr' = <<m>>
                BY <2>2, <3>2, <4>1, ZenonT(40)
            <4>2. CASE M.state = "NotStarted" /\ mgr' = <<Dealt(m)>>
                <5>1. mgr'[1].epoch = M.epoch /\ mgr'[1].state = "InProgress"
                    BY <3>2, <3>3, <4>2, ZenonT(40)
                <5> QED
                    BY <2>1, <4>2, <5>1, SMTT(40)
            <4> QED
                BY <3>1, <4>1, <4>2, ZenonT(40)
    <2>8. CASE process_aggregated_transcript
        <3>1. M.state = "InProgress"
            BY <2>8, SMTT(40)
               DEF process_aggregated_transcript, InLoop, NodeInvariant, AggInProgress
        <3> DEFINE m == [M EXCEPT !.agg = FALSE, !.state = "Finished"]
        <3>2. mgr' = <<m>>
            BY <2>8, <3>1, SMTT(40) DEF process_aggregated_transcript
        <3>3. m.epoch = M.epoch /\ m.state = "Finished"
            BY <2>0, SMTT(40) DEF ManagerState
        <3> HIDE DEF m
        <3> QED
            BY <2>1, <3>1, <3>2, <3>3, SMTT(40)
    <2> QED
        BY <2>4, <2>5, <2>6, <2>7, <2>8, ZenonT(40) DEF NodeNext
<1> QED
    BY <1>1, NodeInvariantTheorem, PTL DEF NodeSpec, SessionMovesForward

(***************************************************************************)
(* Type correctness of the node, the epochs of its managers and producers  *)
(* among the chain's (epoch_manager.rs, dkg_manager/mod.rs).               *)
(***************************************************************************)
THEOREM NodeTypeCorrect == NodeSpec => []NodeTypeOK
<1>1. NodeInvariant => NodeTypeOK
    <2> SUFFICES ASSUME NodeInvariant PROVE NodeTypeOK
        OBVIOUS
    <2>1. Len(mgr) <= 1
        <3>1. mgr = <<>> \/ \E x \in ManagerState : mgr = <<x>>
            BY SMTT(40) DEF NodeInvariant, NodeShape, AtMostOne
        <3>2. CASE mgr = <<>>
            BY <3>2, SMTT(40)
        <3>3. ASSUME NEW x \in ManagerState, mgr = <<x>> PROVE Len(mgr) <= 1
            <4>1. Len(<<x>>) = 1
                BY SMTT(40)
            <4> QED
                BY <3>3, <4>1, SMTT(40)
        <3> QED
            BY <3>1, <3>2, <3>3, ZenonT(40)
    <2>2. Alive => M \in ManagerState
        BY OneManager, SMTT(40) DEF NodeInvariant
    <2>3. Alive => /\ M.state \in {"Spawned", "NotStarted", "InProgress", "Finished"}
                   /\ M.epoch \in Epoch /\ M.start \in 0..MaxEpoch
        BY <2>2, SMTT(40) DEF ManagerState
    <2>4. chain \in [epoch : Epoch, session : 0..MaxEpoch]
        BY DEF NodeInvariant, NodeShape, Notice
    <2> QED
        BY <2>1, <2>3, <2>4, ZenonT(40) DEF NodeInvariant, NodeShape, NodeTypeOK
<1> QED
    BY <1>1, NodeInvariantTheorem, PTL
=============================================================================
