------------------------ MODULE MempoolQueriesProofs ------------------------
(***************************************************************************)
(* Proofs about what the mempool answers at any time. A peer's cursor is a *)
(* number, so the numbering of the timelines is proved first; that what    *)
(* get_batch and read_timeline return is right then follows, since every   *)
(* store of the mempool is Readable (MempoolReadProofs).                   *)
(***************************************************************************)
EXTENDS MempoolProofs, MempoolReadProofs

(***************************************************************************)
(* The identifiers of ready transactions are below the next one of their   *)
(* bucket, and distinct within it.                                         *)
(***************************************************************************)
Numbered(st) ==
    /\ \A t \in ReadyIn(st.transactions) : t.state < st.timeline_id[bucket(t.gas)]
    /\ \A t, u \in ReadyIn(st.transactions) :
           bucket(t.gas) = bucket(u.gas) /\ t.state = u.state => t = u

(***************************************************************************)
(* What a function of the store may do to the timelines: a transaction     *)
(* that becomes ready gets an identifier that was not handed out before.   *)
(***************************************************************************)
Continues(st, s) ==
    /\ \A b \in Bucket : st.timeline_id[b] <= s.timeline_id[b]
    /\ \A t \in ReadyIn(s.transactions) :
           t \in ReadyIn(st.transactions) \/ st.timeline_id[bucket(t.gas)] <= t.state
    /\ Numbered(st) => Numbered(s)

(***************************************************************************)
(* A function of the store that hands out no identifier.                   *)
(***************************************************************************)
Shrinks(st, s) ==
    /\ s.timeline_id = st.timeline_id
    /\ ReadyIn(s.transactions) \subseteq ReadyIn(st.transactions)

(***************************************************************************)
(* Removing or parking transactions leaves the numbering as it is.         *)
(***************************************************************************)
LEMMA ShrinkContinues ==
  ASSUME NEW st, NEW s, Shape(st), Shrinks(st, s)
  PROVE  Continues(st, s)
  <1>1. \A b \in Bucket : st.timeline_id[b] <= s.timeline_id[b]
    BY SMTT(40) DEF Shape, Shrinks
  <1>2. Numbered(st) => Numbered(s)
    BY ZenonT(40) DEF Numbered, Shrinks
  <1> QED BY <1>1, <1>2, ZenonT(40) DEF Continues, Shrinks

(***************************************************************************)
(* A handler calls several functions of the store: each continues the      *)
(* numbering where the one before left it.                                 *)
(***************************************************************************)
LEMMA ThenContinues ==
  ASSUME NEW r, NEW s, NEW u, Shape(r), Shape(s), Shape(u),
         Continues(r, s), Continues(s, u)
  PROVE  Continues(r, u)
  <1>1. \A b \in Bucket : /\ r.timeline_id[b] \in Nat /\ s.timeline_id[b] \in Nat
                          /\ u.timeline_id[b] \in Nat
                          /\ r.timeline_id[b] <= s.timeline_id[b]
                          /\ s.timeline_id[b] <= u.timeline_id[b]
    BY Zenon DEF Shape, Continues
  <1>2. ASSUME NEW t \in ReadyIn(u.transactions)
        PROVE  t \in ReadyIn(r.transactions) \/ r.timeline_id[bucket(t.gas)] <= t.state
    <2>1. t \in TxnRecord
      BY DEF Shape, ReadyIn
    <2>2. bucket(t.gas) \in Bucket /\ t.state \in Int
      BY <2>1, BucketOf DEF TxnRecord
    <2>3. \/ t \in ReadyIn(r.transactions)
          \/ r.timeline_id[bucket(t.gas)] <= t.state
          \/ s.timeline_id[bucket(t.gas)] <= t.state
      BY ZenonT(40) DEF Continues
    <2> QED BY <1>1, <2>2, <2>3
  <1>3. Numbered(r) => Numbered(u)
    BY ZenonT(40) DEF Continues
  <1>4. \A b \in Bucket : r.timeline_id[b] <= u.timeline_id[b]
    BY <1>1, SMTT(40)
  <1> QED BY <1>2, <1>3, <1>4, ZenonT(40) DEF Continues

(***************************************************************************)
(* A record with the fields of a store.                                    *)
(***************************************************************************)
Fields(st) == st = [f \in Field |-> st[f]]

(***************************************************************************)
(* index_remove hands out no identifier (transaction_store.rs:621-651).    *)
(***************************************************************************)
LEMMA RemoveShrinks ==
  ASSUME NEW st, Fields(st), NEW X
  PROVE  Shrinks(st, index_remove(st, X))
  <1>1. /\ index_remove(st, X).timeline_id = st.timeline_id
        /\ index_remove(st, X).transactions = st.transactions \ X
    BY SMTT(40) DEF index_remove, Fields, Field
  <1> QED BY <1>1, ZenonT(40) DEF Shrinks, ReadyIn

(***************************************************************************)
(* Nor does the inner loop of gc (transaction_store.rs:832-849): what it   *)
(* parks is no longer ready.                                               *)
(***************************************************************************)
LEMMA ParkShrinks ==
  ASSUME NEW st, Fields(st), NEW W, W \subseteq st.transactions \cap TxnRecord
  PROVE  Fields(park(st, W)) /\ Shrinks(st, park(st, W))
  <1> DEFINE p == park(st, W)
  <1>0. Fields(p)
    BY ZenonT(40) DEF park, Fields, Field
  <1>1. /\ p.timeline_id = st.timeline_id
        /\ p.transactions = (st.transactions \ W) \cup {Waiting(t) : t \in W}
    BY ZenonT(40) DEF park, Fields, Field, Waiting
  <1>2. ASSUME NEW t \in W PROVE ~(Waiting(t).state > 0)
    <2>1. t \in TxnRecord
      BY SMTT(40)
    <2> QED BY <2>1, SMTT(40) DEF Waiting, TxnRecord, NotReady
  <1> HIDE DEF p
  <1>3. ReadyIn(p.transactions) \subseteq ReadyIn(st.transactions)
    BY <1>1, <1>2, ZenonT(40) DEF ReadyIn
  <1> QED BY <1>0, <1>1, <1>3, ZenonT(40) DEF Shrinks, p

(***************************************************************************)
(* process_ready_transactions numbers on (transaction_store.rs:479-548):   *)
(* the NotReady ones of the run get the next identifiers of their buckets, *)
(* one each.                                                               *)
(***************************************************************************)
LEMMA RunContinues ==
  ASSUME NEW st, NEW a, NEW n \in Nat, Shape(st)
  PROVE  Continues(st, process_ready_transactions(st, a, n))
  <1> DEFINE T == st.transactions
             m == process_ready_transactions(st, a, n)
             run == Run(st, a, n)
             fresh == {t \in run : t.state = NotReady}
             beyond == {t \in T \ run : t.sender = a /\ t.seq >= n /\ ToPark(t)}
             InBucket(b) == {t \in fresh : bucket(t.gas) = b}
             Earlier(t) == {u \in InBucket(bucket(t.gas)) : u.seq < t.seq}
             id(t) == st.timeline_id[bucket(t.gas)] + Cardinality(Earlier(t))
             R(t) == [t EXCEPT !.state = id(t)]
             P(t) == [t EXCEPT !.was_parked = TRUE]
  <1>1. /\ m.transactions = (T \ (fresh \cup beyond)) \cup {R(t) : t \in fresh}
                                \cup {P(t) : t \in beyond}
        /\ m.timeline_id = [b \in Bucket |-> st.timeline_id[b] + Cardinality(InBucket(b))]
    BY ZenonT(40) DEF Shape, Field, process_ready_transactions
  <1>2. /\ T \subseteq TxnRecord /\ IsFiniteSet(T) /\ Unique(T)
        /\ st.timeline_id \in [Bucket -> Nat \ {0}]
    BY ZenonT(40) DEF Shape
  <1>3. /\ fresh \subseteq T /\ beyond \subseteq T
        /\ \A t \in fresh : t.sender = a /\ t.state = 0
        /\ \A t \in beyond : t.state <= 0
    BY ZenonT(40) DEF Run, NotReady, ToPark
  <1> HIDE DEF m, run, beyond, fresh
  <1>4. ASSUME NEW t \in fresh
        PROVE  t \in TxnRecord /\ bucket(t.gas) \in Bucket /\ t.seq \in Nat
    BY <1>2, <1>3, BucketOf, SMTT(40) DEF TxnRecord
  <1>5. ASSUME NEW b \in Bucket
        PROVE  /\ IsFiniteSet(InBucket(b)) /\ Cardinality(InBucket(b)) \in Nat
               /\ st.timeline_id[b] \in Nat
               /\ m.timeline_id[b] = st.timeline_id[b] + Cardinality(InBucket(b))
    <2>1. InBucket(b) \subseteq T
      BY <1>3, SMTT(40)
    <2> HIDE DEF InBucket
    <2>2. IsFiniteSet(InBucket(b)) /\ Cardinality(InBucket(b)) \in Nat
      BY <1>2, <2>1, FewerMembers, SMTT(40)
    <2> QED BY <1>1, <1>2, <2>2, SMTT(40)
  <1>6. ASSUME NEW t \in fresh
        PROVE  /\ Cardinality(Earlier(t)) \in Nat
               /\ Cardinality(Earlier(t)) < Cardinality(InBucket(bucket(t.gas)))
    <2>1. /\ Earlier(t) \subseteq InBucket(bucket(t.gas))
          /\ t \in InBucket(bucket(t.gas)) /\ t \notin Earlier(t)
      BY <1>4, SMTT(40)
    <2> HIDE DEF Earlier, InBucket
    <2> QED BY <1>4, <1>5, <2>1, FewerMembers, SMTT(40)
  <1>7. ASSUME NEW t \in fresh, NEW u \in fresh, bucket(t.gas) = bucket(u.gas),
               t.seq < u.seq
        PROVE  Cardinality(Earlier(t)) < Cardinality(Earlier(u))
    <2>1. /\ Earlier(t) \subseteq Earlier(u)
          /\ t \in Earlier(u) /\ t \notin Earlier(t)
      BY <1>4, <1>7, SMTT(40)
    <2>2. Earlier(u) \subseteq InBucket(bucket(u.gas))
      BY SMTT(40)
    <2> HIDE DEF Earlier, InBucket
    <2>3. IsFiniteSet(Earlier(u))
      BY <1>4, <1>5, <2>2, FewerMembers, SMTT(40)
    <2> QED BY <2>1, <2>3, FewerMembers, SMTT(40)
  <1> HIDE DEF Earlier, InBucket
  <1>8. ASSUME NEW t \in fresh
        PROVE  /\ id(t) \in Nat /\ st.timeline_id[bucket(t.gas)] <= id(t)
               /\ id(t) < m.timeline_id[bucket(t.gas)]
    BY <1>4, <1>5, <1>6, SMTT(40)
  <1>9. ASSUME NEW t \in fresh, NEW u \in fresh, bucket(t.gas) = bucket(u.gas),
               id(t) = id(u)
        PROVE  t = u
    <2>1. Cardinality(Earlier(t)) = Cardinality(Earlier(u))
      BY <1>4, <1>5, <1>6, <1>9, SMTT(40)
    <2>2. ~(t.seq < u.seq) /\ ~(u.seq < t.seq)
      BY <1>6, <1>7, <1>9, <2>1, SMTT(40)
    <2>3. t.seq = u.seq
      BY <1>4, <2>2, SMTT(40)
    <2> QED BY <1>2, <1>3, <2>3, ZenonT(40) DEF Unique
  <1> HIDE DEF id
  <1>10. ASSUME NEW t \in fresh
         PROVE  R(t).gas = t.gas /\ R(t).state = id(t)
    BY <1>4, ZenonT(40) DEF TxnRecord
  <1>11. ASSUME NEW u \in ReadyIn(m.transactions), u \notin ReadyIn(T)
         PROVE  \E t \in fresh : u = R(t)
    <2>1. u \in m.transactions /\ u.state > 0
      BY ZenonT(40) DEF ReadyIn
    <2>2. ASSUME NEW t \in beyond, u = P(t) PROVE FALSE
      <3>1. u.state = t.state
        BY <1>2, <1>3, <2>2, ZenonT(40) DEF TxnRecord
      <3>2. t.state \in Int /\ t.state <= 0
        BY <1>2, <1>3, SMTT(40) DEF TxnRecord
      <3> QED BY <2>1, <3>1, <3>2, SMTT(40)
    <2>3. u \in T \/ (\E t \in fresh : u = R(t)) \/ \E t \in beyond : u = P(t)
      BY <1>1, <2>1, ZenonT(40)
    <2> QED BY <1>11, <2>1, <2>2, <2>3, ZenonT(40) DEF ReadyIn
  <1>12. \A b \in Bucket : st.timeline_id[b] <= m.timeline_id[b]
    BY <1>5, SMTT(40)
  <1>13. ASSUME NEW u \in ReadyIn(m.transactions)
         PROVE  u \in ReadyIn(T) \/ st.timeline_id[bucket(u.gas)] <= u.state
    <2>1. CASE u \notin ReadyIn(T)
      <3>1. PICK t \in fresh : u = R(t)
        BY <1>11, <2>1, ZenonT(40)
      <3> HIDE DEF R
      <3> QED BY <1>8, <1>10, <3>1, ZenonT(40)
    <2> QED BY <2>1, SMTT(40)
  <1>14. ASSUME NEW u \in ReadyIn(T)
         PROVE  u \in TxnRecord /\ bucket(u.gas) \in Bucket /\ u.state \in Int
    BY <1>2, BucketOf, SMTT(40) DEF TxnRecord, ReadyIn
  <1>15. ASSUME Numbered(st) PROVE Numbered(m)
    <2>1. ASSUME NEW u \in ReadyIn(m.transactions)
          PROVE  u.state < m.timeline_id[bucket(u.gas)]
      <3>1. CASE u \in ReadyIn(T)
        <4>1. u.state < st.timeline_id[bucket(u.gas)]
          BY <1>15, <3>1, ZenonT(40) DEF Numbered
        <4>2. /\ m.timeline_id[bucket(u.gas)] \in Nat /\ st.timeline_id[bucket(u.gas)] \in Nat
              /\ st.timeline_id[bucket(u.gas)] <= m.timeline_id[bucket(u.gas)]
          BY <1>5, <1>12, <1>14, <3>1, SMTT(40)
        <4> QED BY <1>14, <3>1, <4>1, <4>2, SMTT(40)
      <3>2. CASE u \notin ReadyIn(T)
        <4>1. PICK t \in fresh : u = R(t)
          BY <1>11, <3>2, Zenon
        <4> QED BY <1>8, <1>10, <4>1, ZenonT(40)
      <3> QED BY <3>1, <3>2, SMTT(40)
    <2>2. ASSUME NEW u \in ReadyIn(T), NEW t \in fresh, bucket(u.gas) = bucket(t.gas)
          PROVE  u.state # id(t)
      <3>1. u.state < st.timeline_id[bucket(t.gas)]
        BY <1>15, <2>2, ZenonT(40) DEF Numbered
      <3> QED BY <1>4, <1>5, <1>8, <1>14, <3>1, SMTT(40)
    <2>3. ASSUME NEW u \in ReadyIn(m.transactions), NEW v \in ReadyIn(m.transactions),
                 bucket(u.gas) = bucket(v.gas), u.state = v.state
          PROVE  u = v
      <3>1. CASE u \in ReadyIn(T) /\ v \in ReadyIn(T)
        BY <1>15, <2>3, <3>1, ZenonT(40) DEF Numbered
      <3>2. CASE u \in ReadyIn(T) /\ v \notin ReadyIn(T)
        <4>1. PICK t \in fresh : v = R(t)
          BY <1>11, <3>2, ZenonT(40)
        <4> HIDE DEF R
        <4> QED BY <1>10, <2>2, <2>3, <3>2, <4>1, ZenonT(40)
      <3>3. CASE u \notin ReadyIn(T) /\ v \in ReadyIn(T)
        <4>1. PICK t \in fresh : u = R(t)
          BY <1>11, <3>3, ZenonT(40)
        <4> HIDE DEF R
        <4> QED BY <1>10, <2>2, <2>3, <3>3, <4>1, ZenonT(40)
      <3>4. CASE u \notin ReadyIn(T) /\ v \notin ReadyIn(T)
        <4>1. PICK t \in fresh : u = R(t)
          BY <1>11, <3>4, ZenonT(40)
        <4>2. PICK x \in fresh : v = R(x)
          BY <1>11, <3>4, ZenonT(40)
        <4> HIDE DEF R
        <4>3. t = x
          BY <1>9, <1>10, <2>3, <4>1, <4>2, ZenonT(40)
        <4> QED BY <4>1, <4>2, <4>3, SMTT(40)
      <3> QED BY <3>1, <3>2, <3>3, <3>4, ZenonT(40)
    <2> QED BY <2>1, <2>3, ZenonT(40) DEF Numbered
  <1>16. Continues(st, m)
    BY <1>12, <1>13, <1>15, Zenon DEF Continues
  <1> QED BY <1>16, SMTT(40) DEF m

(***************************************************************************)
(* clean_committed_transactions hands out no identifier                    *)
(* (transaction_store.rs:550-579).                                         *)
(***************************************************************************)
LEMMA CleanShrinks ==
  ASSUME NEW st, Sound(st, {}), NEW a, NEW n
  PROVE  Shrinks(st, clean_committed_transactions(st, a, n))
  BY RemoveShrinks, ZenonT(40) DEF Sound, Shape, Fields, clean_committed_transactions

(***************************************************************************)
(* commit_transaction numbers on (transaction_store.rs:581-590).           *)
(***************************************************************************)
LEMMA CommitContinues ==
  ASSUME NEW st, Sound(st, {}), NEW a, NEW n \in Nat
  PROVE  Continues(st, commit_transaction(st, a, n))
  <1> DEFINE known == IF a \in DOMAIN st.sequence_numbers
                      THEN st.sequence_numbers[a] ELSE 0
             next == Max({known, n + 1})
             counted == [st EXCEPT !.sequence_numbers = Assign(@, a, next)]
             clean == clean_committed_transactions(counted, a, next)
             end == process_ready_transactions(clean, a, next)
  <1>1. next \in Nat
    <2>1. known \in Nat
      BY SMTT(40) DEF Sound, Shape
    <2> HIDE DEF known
    <2>2. \E x \in {known, n + 1} : \A y \in {known, n + 1} : x >= y
      BY <2>1, SMTT(40)
    <2>3. next \in {known, n + 1}
      BY <2>2, SMTT(40) DEF Max
    <2> QED BY <2>1, <2>3, SMTT(40)
  <1>2. end = commit_transaction(st, a, n)
    BY DEF commit_transaction
  <1> HIDE DEF next
  <1>3. /\ counted.timeline_id = st.timeline_id
        /\ counted.transactions = st.transactions
    BY ZenonT(40) DEF Sound, Shape, Field
  <1>4. Sound(counted, {})
    BY <1>1, CountKeeps, ZenonT(40)
  <1> HIDE DEF counted
  <1>5. Sound(clean, {})
    BY <1>1, <1>4, CleanKeeps
  <1>6. Shrinks(counted, clean)
    BY <1>4, CleanShrinks, SMTT(40)
  <1> HIDE DEF clean
  <1>7. Shrinks(st, clean)
    BY <1>3, <1>6, ZenonT(40) DEF Shrinks
  <1>8. Continues(st, clean)
    BY <1>7, ShrinkContinues, ZenonT(40) DEF Sound
  <1>9. Continues(clean, end)
    BY <1>1, <1>5, RunContinues, ZenonT(40) DEF Sound
  <1>10. Sound(end, {})
    BY <1>2, CommitKeeps, ZenonT(40)
  <1> HIDE DEF end
  <1>11. Continues(st, end)
    BY <1>5, <1>8, <1>9, <1>10, ThenContinues, ZenonT(40) DEF Sound
  <1> QED BY <1>2, <1>11, SMTT(40)

(***************************************************************************)
(* reject_transaction hands out no identifier                              *)
(* (transaction_store.rs:592-619).                                         *)
(***************************************************************************)
LEMMA RejectShrinks ==
  ASSUME NEW st, Sound(st, {}), NEW h
  PROVE  Shrinks(st, reject_transaction(st, h))
  <1> DEFINE r == index_remove(st, get_mempool_txn(st, h.sender, h.seq))
  <1>1. Shrinks(st, r)
    BY RemoveShrinks, ZenonT(40) DEF Sound, Shape, Fields
  <1>2. Shrinks(st, st)
    BY ZenonT(40) DEF Shrinks
  <1>3. reject_transaction(st, h) = st \/ reject_transaction(st, h) = r
    BY ZenonT(40) DEF reject_transaction
  <1> QED BY <1>1, <1>2, <1>3, ZenonT(40)

(***************************************************************************)
(* gc hands out no identifier, whatever keys have expired                  *)
(* (transaction_store.rs:814-872).                                         *)
(***************************************************************************)
LEMMA CollectShrinks ==
  ASSUME NEW st, Fields(st), st.transactions \subseteq TxnRecord, NEW expired
  PROVE  Shrinks(st, gc(st, expired))
  <1> DEFINE dead == {t \in st.transactions :
                        \E k \in expired : k.sender = t.sender /\ k.seq = t.seq}
             W == {t \in st.transactions \ dead :
                      \E k \in expired : k.sender = t.sender /\ k.seq < t.seq}
             p == park(st, W)
  <1>1. W \subseteq st.transactions \cap TxnRecord
    BY SMTT(40)
  <1>2. gc(st, expired) = index_remove(p, dead)
    BY SMTT(40) DEF gc
  <1> HIDE DEF W, dead
  <1>3. Fields(p) /\ Shrinks(st, p)
    BY <1>1, ParkShrinks, SMTT(40)
  <1> HIDE DEF p
  <1>4. Shrinks(p, index_remove(p, dead))
    BY <1>3, RemoveShrinks, ZenonT(40)
  <1> QED BY <1>2, <1>3, <1>4, ZenonT(40) DEF Shrinks

(***************************************************************************)
(* gc_by_system_ttl hands out no identifier (index.rs:151-164).            *)
(***************************************************************************)
LEMMA SystemShrinks ==
  ASSUME NEW st, Sound(st, {}), NEW time
  PROVE  Shrinks(st, gc_by_system_ttl(st, time))
  <1> DEFINE expired == {k \in st.system_ttl : k.time < time}
             s == [st EXCEPT !.system_ttl = @ \ expired]
  <1>1. /\ Fields(s) /\ s.transactions = st.transactions
        /\ s.timeline_id = st.timeline_id
    BY ZenonT(40) DEF Sound, Shape, Fields, Field
  <1>2. gc_by_system_ttl(st, time) = gc(s, expired)
    BY SMTT(40) DEF gc_by_system_ttl
  <1> HIDE DEF s, expired
  <1>3. s.transactions \subseteq TxnRecord
    BY <1>1, ZenonT(40) DEF Sound, Shape
  <1>4. Shrinks(s, gc(s, expired))
    BY <1>1, <1>3, CollectShrinks, SMTT(40)
  <1> QED BY <1>1, <1>2, <1>4, ZenonT(40) DEF Shrinks

(***************************************************************************)
(* Nor does gc_by_expiration_time, eager or not                            *)
(* (transaction_store.rs:791-812).                                         *)
(***************************************************************************)
LEMMA ExpirationShrinks ==
  ASSUME NEW st, Sound(st, {}), NEW time
  PROVE  Shrinks(st, gc_by_expiration_time(st, time))
  <1> DEFINE expired == {k \in st.expiration : k.time < eager(st, time)}
             s == [st EXCEPT !.expiration = @ \ expired]
  <1>1. /\ Fields(s) /\ s.transactions = st.transactions
        /\ s.timeline_id = st.timeline_id
    BY ZenonT(40) DEF Sound, Shape, Fields, Field
  <1>2. gc_by_expiration_time(st, time) = gc(s, expired)
    BY SMTT(40) DEF gc_by_expiration_time
  <1> HIDE DEF s, expired
  <1>3. s.transactions \subseteq TxnRecord
    BY <1>1, ZenonT(40) DEF Sound, Shape
  <1>4. Shrinks(s, gc(s, expired))
    BY <1>1, <1>3, CollectShrinks, SMTT(40)
  <1> QED BY <1>1, <1>2, <1>4, ZenonT(40) DEF Shrinks

(***************************************************************************)
(* The loop that frees space hands out no identifier, however often it     *)
(* goes round (transaction_store.rs:360-386).                              *)
(***************************************************************************)
LEMMA RoundsShrink ==
  ASSUME NEW st, Sound(st, {}), NEW N \in Nat, NEW r, IsRounds(r, st, N), NEW s \in r[N]
  PROVE  Shrinks(st, s)
  <1> DEFINE Fine(x) == Sound(x, {}) /\ Shrinks(st, x)
             B == {n \in 0..N : \E x \in r[n] : ~Fine(x)}
  <1>1. ASSUME NEW x, NEW y \in Evict(x), Fine(x) PROVE Fine(y)
    <2>1. Sound(y, {})
      BY <1>1, EvictKeeps, SMTT(40)
    <2>2. Shrinks(x, y)
      <3>1. y = x \/ \E e \in get_poppable(x.parked) :
                        y = index_remove(x, get_mempool_txn(x, e.sender, e.seq))
        BY ZenonT(40) DEF Evict
      <3>2. \A X : Shrinks(x, index_remove(x, X))
        BY <1>1, RemoveShrinks, ZenonT(40) DEF Sound, Shape, Fields
      <3>3. Shrinks(x, x)
        BY ZenonT(40) DEF Shrinks
      <3> QED BY <3>1, <3>2, <3>3, ZenonT(40)
    <2> QED BY <1>1, <2>1, <2>2, ZenonT(40) DEF Shrinks
  <1>2. Fine(st)
    BY ZenonT(40) DEF Shrinks
  <1> HIDE DEF Fine
  <1>3. ASSUME B # {} PROVE FALSE
    <2>1. PICK n \in B : \A m \in B : n <= m
      <3>1. B \subseteq Nat
        BY SMTT(40)
      <3> HIDE DEF B
      <3> QED BY <1>3, <3>1, SmallestNumber, ZenonT(40)
    <2>2. n \in 0..N
      BY SMTT(40)
    <2>3. PICK x \in r[n] : ~Fine(x)
      BY SMTT(40)
    <2>4. CASE n = 0
      BY <1>2, <2>3, <2>4, SMTT(40) DEF IsRounds
    <2>5. CASE n # 0
      <3>1. n - 1 \in 0..N /\ n - 1 \notin B
        BY <2>1, <2>2, <2>5, SMTT(40)
      <3>2. r[n] = UNION {Evict(y) : y \in r[n - 1]}
        BY <2>2, <2>5, ZenonT(40) DEF IsRounds
      <3>3. PICK y \in r[n - 1] : x \in Evict(y)
        BY <2>3, <3>2, SMTT(40)
      <3>4. Fine(y)
        BY <3>1, <3>3, SMTT(40)
      <3> QED BY <1>1, <2>3, <3>3, <3>4, ZenonT(40)
    <2> QED BY <2>4, <2>5, SMTT(40)
  <1>4. Fine(s)
    BY <1>3, SMTT(40)
  <1> QED BY <1>4, ZenonT(40) DEF Fine

(***************************************************************************)
(* So check_is_full_after_eviction hands out none                          *)
(* (transaction_store.rs:351-395).                                         *)
(***************************************************************************)
LEMMA EvictionShrinks ==
  ASSUME NEW st, Sound(st, {}), NEW t, NEW acc,
         NEW s \in check_is_full_after_eviction(st, t, acc)
  PROVE  Shrinks(st, s)
  <1> DEFINE N == Cardinality(st.transactions)
             c == CHOOSE r : IsRounds(r, st, N)
  <1>1. N \in Nat
    BY FS_CardinalityType, SMTT(40) DEF Sound, Shape
  <1>2. IsRounds(c, st, N)
    <2> HIDE DEF N
    <2> QED BY <1>1, RoundsExist, SMTT(40)
  <1>3. s \in c[N] \/ s = st
    BY SMTT(40) DEF check_is_full_after_eviction, IsRounds
  <1> HIDE DEF c, N
  <1>4. CASE s = st
    BY <1>4, ZenonT(40) DEF Shrinks
  <1>5. CASE s \in c[N]
    BY <1>1, <1>2, <1>5, RoundsShrink, SMTT(40)
  <1> QED BY <1>3, <1>4, <1>5, SMTT(40)

(***************************************************************************)
(* insert numbers on from the capacity check on                            *)
(* (transaction_store.rs:279-307): the new transaction is not ready when   *)
(* it is indexed, and process_ready_transactions numbers it or not.        *)
(***************************************************************************)
LEMMA AdmitContinues ==
  ASSUME NEW st, Sound(st, {}), NEW acc \in Nat,
         NEW t \in TxnRecord, t.state <= 0, t.seq >= acc,
         get_mempool_txn(st, t.sender, t.seq) = {}
  PROVE  Continues(st, admit(st, t, acc))
  <1> DEFINE c == clean_committed_transactions(st, t.sender, acc)
             i == [c EXCEPT
                     !.transactions = @ \cup {t},
                     !.system_ttl = @ \cup {system_key(t)},
                     !.expiration = @ \cup {client_key(t)},
                     !.hashes = @ \cup {hash(t)},
                     !.sequence_numbers = Assign(@, t.sender, acc),
                     !.size_bytes = @ + Bytes[t.body]]
             T == c.transactions
             q == Assign(c.sequence_numbers, t.sender, acc)
             end == process_ready_transactions(i, t.sender, acc)
  <1>1. Sound(c, {}) /\ T \subseteq st.transactions
    BY CleanKeeps, SMTT(40)
  <1>2. Shrinks(st, c)
    BY CleanShrinks, SMTT(40)
  <1>3. admit(st, t, acc) = c \/ admit(st, t, acc) = end
    BY SMTT(40) DEF admit
  <1>4. \A u \in T : u.sender # t.sender \/ u.seq # t.seq
    BY <1>1, ZenonT(40) DEF get_mempool_txn
  <1> HIDE DEF c
  <1>5. /\ i = [f \in Field |-> i[f]]
        /\ i.transactions = T \cup {t}
        /\ i.sequence_numbers = q
        /\ i.timeline_id = c.timeline_id
    BY <1>1, ZenonT(40) DEF Sound, Shape, Field
  <1>6. q \in [DOMAIN q -> Nat]
    BY <1>1, ZenonT(40) DEF Sound, Shape, Assign
  <1>7. /\ T \subseteq TxnRecord /\ IsFiniteSet(T) /\ Unique(T)
        /\ c.timeline_id \in [Bucket -> Nat \ {0}]
    BY <1>1, ZenonT(40) DEF Sound, Shape
  <1> HIDE DEF i, q
  <1>8. Shape(i)
    <2>1. IsFiniteSet(T \cup {t})
      BY <1>7, FS_AddElement, ZenonT(40)
    <2>2. Unique(T \cup {t})
      BY <1>4, <1>7, ZenonT(40) DEF Unique
    <2> QED BY <1>5, <1>6, <1>7, <2>1, <2>2, ZenonT(40) DEF Shape
  <1>9. Shrinks(st, i)
    <2>1. ReadyIn(T \cup {t}) = ReadyIn(T)
      <3>1. ~(t.state > 0)
        BY DEF TxnRecord
      <3> QED BY <3>1, ZenonT(40) DEF ReadyIn
    <2> QED BY <1>2, <1>5, <2>1, ZenonT(40) DEF Shrinks
  <1>10. Shape(st)
    BY ZenonT(40) DEF Sound
  <1>11. Continues(st, i) /\ Continues(st, c)
    BY <1>2, <1>9, <1>10, ShrinkContinues, ZenonT(40)
  <1>12. Continues(i, end)
    BY <1>8, RunContinues, ZenonT(40)
  <1>13. CASE admit(st, t, acc) = end
    <2>1. Sound(end, {})
      BY <1>13, AdmitKeeps, ZenonT(40)
    <2> HIDE DEF end
    <2> QED BY <1>8, <1>10, <1>11, <1>12, <1>13, <2>1, ThenContinues, ZenonT(40)
               DEF Sound
  <1>14. CASE admit(st, t, acc) = c
    BY <1>11, <1>14, ZenonT(40)
  <1> QED BY <1>3, <1>13, <1>14, ZenonT(40)

(***************************************************************************)
(* insert numbers on, on every path (transaction_store.rs:224-307).        *)
(***************************************************************************)
LEMMA InsertContinues ==
  ASSUME NEW st, Sound(st, {}), NEW acc \in Nat,
         NEW t \in TxnRecord, t.state <= 0, t.seq >= acc, NEW s \in insert(st, t, acc)
  PROVE  Continues(st, s)
  <1> DEFINE current == get_mempool_txn(st, t.sender, t.seq)
             base == IF current = {} THEN st ELSE index_remove(st, current)
  <1>1. CASE s = st
    <2>1. Shrinks(st, s)
      BY <1>1, ZenonT(40) DEF Shrinks
    <2> QED BY <2>1, ShrinkContinues, ZenonT(40) DEF Sound
  <1>2. CASE s # st
    <2>1. PICK b \in check_is_full_after_eviction(base, t, acc) :
              s = IF is_full(b) THEN b ELSE admit(b, t, acc)
      BY <1>2, SMTT(40) DEF insert
    <2>2. /\ Sound(base, {}) /\ base.transactions = st.transactions \ current
          /\ Shrinks(st, base)
      <3>1. current \subseteq st.transactions
        BY ZenonT(40) DEF get_mempool_txn
      <3> HIDE DEF current
      <3>2. CASE current = {}
        BY <3>2, SMTT(40) DEF Shrinks
      <3>3. CASE current # {}
        <4>1. Sound(index_remove(st, current), {})
          BY <3>1, MoreMissing, RemoveKeeps, SMTT(40)
        <4>2. index_remove(st, current).transactions = st.transactions \ current
          BY RemoveLeaves, ZenonT(40) DEF Sound
        <4>3. Shrinks(st, index_remove(st, current))
          BY RemoveShrinks, ZenonT(40) DEF Sound, Shape, Fields
        <4> QED BY <3>3, <4>1, <4>2, <4>3, ZenonT(40)
      <3> QED BY <3>2, <3>3, ZenonT(40)
    <2> HIDE DEF base
    <2>3. Sound(b, {}) /\ b.transactions \subseteq base.transactions
      BY <2>1, <2>2, EvictionKeeps, SMTT(40)
    <2>4. Shrinks(base, b)
      BY <2>1, <2>2, EvictionShrinks, SMTT(40)
    <2>5. Continues(st, b)
      <3>1. Shrinks(st, b)
        BY <2>2, <2>4, ZenonT(40) DEF Shrinks
      <3> QED BY <3>1, ShrinkContinues, ZenonT(40) DEF Sound
    <2>6. get_mempool_txn(b, t.sender, t.seq) = {}
      BY <2>2, <2>3, ZenonT(40) DEF get_mempool_txn
    <2>7. Sound(admit(b, t, acc), {}) /\ Continues(b, admit(b, t, acc))
      BY <2>3, <2>6, AdmitKeeps, AdmitContinues, ZenonT(40)
    <2>8. Continues(st, admit(b, t, acc))
      BY <2>3, <2>5, <2>7, ThenContinues, ZenonT(40) DEF Sound
    <2> QED BY <2>1, <2>5, <2>8, ZenonT(40)
  <1> QED BY <1>1, <1>2, SMTT(40)

(***************************************************************************)
(* Every handler of shared_mempool/tasks.rs numbers on.                    *)
(***************************************************************************)
LEMMA StepContinues ==
  ASSUME MempoolInvariant, [MempoolNext]_mempool_vars
  PROVE  Continues(store, store')
  <1> USE DEF MempoolInvariant
  <1>0. Sound(store, {}) /\ Shape(store) /\ now \in Nat
    BY ZenonT(40) DEF Sound
  <1>1. CASE add_txn
    <2>0. PICK arrival \in Arrivals :
            \E acc \in 0..chain[arrival.txn.sender] :
              /\ arrival.txn.seq >= acc
              /\ LET h == arrival.txn
                     t == [sender |-> h.sender, seq |-> h.seq, gas |-> h.gas,
                           body |-> h.body, inserted |-> now,
                           state |-> arrival.state, was_parked |-> FALSE]
                 IN  store' \in insert(store, t, acc)
      BY <1>1, ZenonT(40) DEF add_txn
    <2>1. PICK acc \in 0..chain[arrival.txn.sender] :
              /\ arrival.txn.seq >= acc
              /\ LET h == arrival.txn
                     t == [sender |-> h.sender, seq |-> h.seq, gas |-> h.gas,
                           body |-> h.body, inserted |-> now,
                           state |-> arrival.state, was_parked |-> FALSE]
                 IN  store' \in insert(store, t, acc)
      BY <2>0, ZenonT(40)
    <2> DEFINE h == arrival.txn
               t == [sender |-> h.sender, seq |-> h.seq, gas |-> h.gas,
                     body |-> h.body, inserted |-> now,
                     state |-> arrival.state, was_parked |-> FALSE]
    <2>2. /\ h.sender \in Address /\ h.seq \in Nat /\ h.gas \in Nat
          /\ h.body \in Body /\ arrival.state \in {0, -1}
      BY MempoolAssumption, ZenonT(40)
    <2>3. arrival.state \in Int /\ arrival.state <= 0
      BY <2>2, SMTT(40)
    <2>4. t \in TxnRecord
      BY <1>0, <2>2, <2>3, ZenonT(40) DEF TxnRecord
    <2>5. t.state = arrival.state /\ t.seq = arrival.txn.seq
      BY ZenonT(40)
    <2>6. acc \in Nat
      BY <2>2, SMTT(40)
    <2>7. store' \in insert(store, t, acc) /\ arrival.txn.seq >= acc
      BY <2>1, ZenonT(40)
    <2> HIDE DEF t
    <2>8. t.state <= 0 /\ t.seq >= acc
      BY <2>3, <2>5, <2>7, ZenonT(40)
    <2> QED BY <1>0, <2>4, <2>6, <2>7, <2>8, InsertContinues, ZenonT(40)
  <1>2. CASE process_committed_transactions
    <2>1. PICK a \in Address, block_time \in 0..now :
              LET st == commit_transaction(store, a, notified[a])
              IN  store' = IF block_time > 0 THEN gc_by_expiration_time(st, block_time)
                                             ELSE st
      BY <1>2, ZenonT(40) DEF process_committed_transactions
    <2> DEFINE c == commit_transaction(store, a, notified[a])
    <2>2. notified[a] \in Nat
      BY SMTT(40)
    <2>3. Sound(c, {}) /\ Continues(store, c)
      BY <1>0, <2>2, CommitKeeps, CommitContinues, SMTT(40)
    <2>4. store' = c \/ store' = gc_by_expiration_time(c, block_time)
      BY <2>1, ZenonT(40)
    <2> HIDE DEF c
    <2>5. /\ Sound(gc_by_expiration_time(c, block_time), {})
          /\ Shrinks(c, gc_by_expiration_time(c, block_time))
      BY <2>3, ExpirationKeeps, ExpirationShrinks, SMTT(40)
    <2>6. Continues(c, gc_by_expiration_time(c, block_time))
      BY <2>3, <2>5, ShrinkContinues, ZenonT(40) DEF Sound
    <2>7. Continues(store, gc_by_expiration_time(c, block_time))
      BY <1>0, <2>3, <2>5, <2>6, ThenContinues, ZenonT(40) DEF Sound
    <2> QED BY <2>3, <2>4, <2>7, ZenonT(40)
  <1>3. CASE process_rejected_transactions
    <2>1. Shrinks(store, store')
      BY <1>0, <1>3, RejectShrinks, ZenonT(40) DEF process_rejected_transactions
    <2> QED BY <1>0, <2>1, ShrinkContinues, ZenonT(40)
  <1>4. CASE process_quorum_store_request
    <2>1. Shrinks(store, store')
      BY <1>0, <1>4, ExpirationShrinks, ZenonT(40) DEF process_quorum_store_request
    <2> QED BY <1>0, <2>1, ShrinkContinues, Zenon
  <1>5. CASE gc_coordinator
    <2>1. Shrinks(store, store')
      BY <1>0, <1>5, SystemShrinks, ZenonT(40) DEF gc_coordinator
    <2> QED BY <1>0, <2>1, ShrinkContinues, Zenon
  <1>6. CASE store' = store
    <2>1. Shrinks(store, store')
      BY <1>6, ZenonT(40) DEF Shrinks
    <2> QED BY <1>0, <2>1, ShrinkContinues, Zenon
  <1>7. ChainCommits \/ Tick \/ UNCHANGED mempool_vars => store' = store
    BY ZenonT(40) DEF ChainCommits, Tick, mempool_vars
  <1> QED BY <1>1, <1>2, <1>3, <1>4, <1>5, <1>6, <1>7, ZenonT(40) DEF MempoolNext

(***************************************************************************)
(* The numbering holds whatever reaches the mempool, in any order, for any *)
(* fee buckets and capacities.                                             *)
(***************************************************************************)
THEOREM NumberedTheorem == MempoolSpec => [](MempoolInvariant /\ Numbered(store))
  <1>1. MempoolInit => Numbered(store)
    <2> SUFFICES ASSUME MempoolInit PROVE Numbered(store)
      BY ZenonT(40)
    <2>1. store.transactions = {}
      BY ZenonT(40) DEF MempoolInit, EmptyStore
    <2> QED BY <2>1, ZenonT(40) DEF Numbered, ReadyIn
  <1>2. MempoolInvariant /\ Numbered(store) /\ [MempoolNext]_mempool_vars
          => Numbered(store)'
    BY StepContinues, ZenonT(40) DEF Continues
  <1> QED BY <1>1, <1>2, MempoolInvariantTheorem, PTL DEF MempoolSpec

(***************************************************************************)
(* An entry that appears in a timeline gets an identifier that was not     *)
(* handed out before, and the next identifier of a bucket never goes back. *)
(***************************************************************************)
TimelineAppends ==
    /\ \A e \in store'.timeline :
           e \in store.timeline \/ store.timeline_id[e.bucket] <= e.id
    /\ \A b \in Bucket : store.timeline_id[b] <= store'.timeline_id[b]

(***************************************************************************)
(* Timelines only grow at their end (index.rs:260-271). What becomes ready *)
(* after a read is past the cursor that the read left, so that a peer that *)
(* keeps its cursor misses nothing that is inserted later.                 *)
(***************************************************************************)
THEOREM TimelineAppendsTheorem == MempoolSpec => [][TimelineAppends]_mempool_vars
  <1>1. MempoolInvariant /\ MempoolInvariant' /\ [MempoolNext]_mempool_vars
          => TimelineAppends
    <2> SUFFICES ASSUME MempoolInvariant, MempoolInvariant', [MempoolNext]_mempool_vars
                 PROVE  TimelineAppends
      BY SMTT(40)
    <2>1. Continues(store, store')
      BY StepContinues, SMTT(40)
    <2>2. /\ store.timeline = {timeline_entry(t) : t \in ReadyIn(store.transactions)}
          /\ store'.timeline = {timeline_entry(t) : t \in ReadyIn(store'.transactions)}
      BY ZenonT(40) DEF MempoolInvariant, Sound, Indexed
    <2>3. ASSUME NEW e \in store'.timeline
          PROVE  e \in store.timeline \/ store.timeline_id[e.bucket] <= e.id
      <3>1. PICK t \in ReadyIn(store'.transactions) : e = timeline_entry(t)
        BY <2>2, ZenonT(40)
      <3>2. e.bucket = bucket(t.gas) /\ e.id = t.state
        BY <3>1, ZenonT(40) DEF timeline_entry
      <3> QED BY <2>1, <2>2, <3>1, <3>2, ZenonT(40) DEF Continues
    <2> QED BY <2>1, <2>3, ZenonT(40) DEF Continues, TimelineAppends
  <1> QED BY <1>1, MempoolInvariantTheorem, PTL DEF MempoolSpec
-----------------------------------------------------------------------------
(***************************************************************************)
(* The timelines of a sound store hold the entries of its ready            *)
(* transactions.                                                           *)
(***************************************************************************)
LEMMA SoundTimelines ==
  ASSUME NEW st, Sound(st, {})
  PROVE  Timelines(st)
  <1> DEFINE R == ReadyIn(st.transactions)
             f == [t \in R |-> timeline_entry(t)]
  <1>1. st.timeline = {timeline_entry(t) : t \in R}
    BY ZenonT(40) DEF Sound, Indexed
  <1>2. R \subseteq st.transactions /\ IsFiniteSet(st.transactions)
    BY ZenonT(40) DEF ReadyIn, Sound, Shape
  <1>3. IsFiniteSet(R)
    BY <1>2, FewerMembers, ZenonT(40)
  <1>4. f \in Surjection(R, st.timeline)
    BY <1>1, ZenonT(40) DEF Surjection
  <1>5. IsFiniteSet(st.timeline)
    <2> HIDE DEF f, R
    <2> QED BY <1>3, <1>4, FS_Surjection, SMTT(40)
  <1>6. ASSUME NEW e \in st.timeline PROVE e.bucket \in Bucket /\ e.id \in Nat
    <2>1. PICK t \in R : e = timeline_entry(t)
      BY <1>1, ZenonT(40)
    <2>2. t \in TxnRecord /\ t.state > 0
      BY ZenonT(40) DEF ReadyIn, Sound, Shape
    <2>3. e.bucket = bucket(t.gas) /\ e.id = t.state
      BY <2>1, ZenonT(40) DEF timeline_entry
    <2>4. t.gas \in Nat /\ t.state \in Nat
      BY <2>2, SMTT(40) DEF TxnRecord
    <2> QED BY <2>3, <2>4, BucketOf, ZenonT(40)
  <1> QED BY <1>5, <1>6, ZenonT(40) DEF Timelines

(***************************************************************************)
(* The priority index of a sound store holds keys of its transactions.     *)
(***************************************************************************)
LEMMA SoundPriorityKeys ==
  ASSUME NEW st, Sound(st, {})
  PROVE  PriorityKeys(st)
  <1> DEFINE T == st.transactions
             K == {priority_key(t) : t \in T}
             f == [t \in T |-> priority_key(t)]
  <1>1. /\ IsFiniteSet(T) /\ T \subseteq TxnRecord /\ Unique(T)
        /\ st.priority \subseteq K
        /\ {t.sender : t \in T} \subseteq DOMAIN st.sequence_numbers
    BY ZenonT(40) DEF Sound, Shape, Indexed
  <1>2. f \in Surjection(T, K)
    BY ZenonT(40) DEF Surjection
  <1>3. IsFiniteSet(st.priority)
    <2> HIDE DEF f, T, K
    <2>1. IsFiniteSet(K)
      BY <1>1, <1>2, FS_Surjection, ZenonT(40)
    <2> QED BY <1>1, <2>1, FewerMembers, SMTT(40)
  <1>4. \A k \in st.priority : \E t \in T : k = priority_key(t)
    BY <1>1, ZenonT(40)
  <1>5. \A t : /\ priority_key(t).hash.sender = t.sender /\ priority_key(t).hash.seq = t.seq
               /\ priority_key(t).hash.gas = t.gas /\ priority_key(t).inserted = t.inserted
    BY SMTT(40) DEF priority_key, hash
  <1>6. ASSUME NEW k \in st.priority
        PROVE  /\ k.hash.sender \in Nat /\ k.hash.seq \in Nat /\ k.hash.gas \in Nat
               /\ k.inserted \in Nat /\ k.hash.sender \in DOMAIN st.sequence_numbers
    <2>1. PICK t \in T : k = priority_key(t)
      BY <1>4, SMTT(40)
    <2>2. t.sender \in Address /\ t.seq \in Nat /\ t.gas \in Nat /\ t.inserted \in Nat
      BY <1>1, SMTT(40) DEF TxnRecord
    <2>3. t.sender \in Nat
      <3>1. Address \subseteq Nat
        BY MempoolAssumption, ZenonT(40)
      <3> QED BY <2>2, <3>1, ZenonT(40)
    <2>4. t.sender \in DOMAIN st.sequence_numbers
      BY <1>1, ZenonT(40)
    <2> QED BY <1>5, <2>1, <2>2, <2>3, <2>4, ZenonT(40)
  <1>7. ASSUME NEW k \in st.priority, NEW l \in st.priority, Pair(k) = Pair(l)
        PROVE  k = l
    <2>1. PICK t \in T : k = priority_key(t)
      BY <1>4, ZenonT(40)
    <2>2. PICK u \in T : l = priority_key(u)
      BY <1>4, SMTT(40)
    <2>3. t.sender = u.sender /\ t.seq = u.seq
      BY <1>5, <1>7, <2>1, <2>2, ZenonT(40) DEF Pair
    <2>4. t = u
      BY <1>1, <2>3, ZenonT(40) DEF Unique
    <2> QED BY <2>1, <2>2, <2>4, ZenonT(40)
  <1> QED BY <1>3, <1>6, <1>7, ZenonT(40) DEF PriorityKeys

(***************************************************************************)
(* What the mempool keeps is enough for what it answers.                   *)
(***************************************************************************)
LEMMA SoundIsReadable ==
  ASSUME NEW st, Sound(st, {})
  PROVE  Readable(st)
  <1>1. IsFiniteSet(st.transactions) /\ st.size_bytes = estimated_bytes(st.transactions)
    BY ZenonT(40) DEF Sound, Shape, Indexed
  <1>2. \A t \in st.transactions : Bytes[t.body] \in Nat
    <2> TAKE t \in st.transactions
    <2>1. t \in TxnRecord
      BY ZenonT(40) DEF Sound, Shape
    <2> QED BY <2>1, MempoolAssumption, SMTT(40) DEF TxnRecord
  <1>3. Timelines(st) /\ PriorityKeys(st)
    BY SoundTimelines, SoundPriorityKeys, SMTT(40)
  <1> QED BY <1>1, <1>2, <1>3, ZenonT(40) DEF Readable, Weighed

(***************************************************************************)
(* A peer is sent exactly the ready transactions that its cursor passes,   *)
(* within the limits, whatever cursor it has and however many transactions *)
(* it may be sent.                                                         *)
(***************************************************************************)
EveryReadSkipsNothing ==
    \A cursor \in [Bucket -> Nat], count \in Nat, before \in [Bucket -> Int] :
        ReadSkipsNothing(cursor, count, before)

(***************************************************************************)
(* read_timeline skips nothing, for every cursor and limit: the same as    *)
(* BroadcastSkipsNothing says of a few (transaction_store.rs:657-721).     *)
(***************************************************************************)
THEOREM EveryReadSkipsNothingTheorem == MempoolSpec => []EveryReadSkipsNothing
  <1>1. MempoolInvariant => EveryReadSkipsNothing
    <2> SUFFICES ASSUME Sound(store, {}), NEW cursor \in [Bucket -> Nat],
                        NEW count \in Nat, NEW before \in [Bucket -> Int]
                 PROVE  ReadSkipsNothing(cursor, count, before)
      BY ZenonT(40) DEF MempoolInvariant, EveryReadSkipsNothing
    <2> QED BY SoundIsReadable, ReadIsComplete, SMTT(40)
  <1> QED BY <1>1, MempoolInvariantTheorem, PTL

(***************************************************************************)
(* What the run checks for the peers' cursors, limits and delays: a read   *)
(* of the timelines skips nothing and sends nothing twice.                 *)
(***************************************************************************)
THEOREM BroadcastSkipsNothingInvariant == MempoolSpec => []BroadcastSkipsNothing
  <1>1. MempoolInvariant /\ Numbered(store) /\ EveryReadSkipsNothing
          => BroadcastSkipsNothing
    <2> SUFFICES ASSUME Sound(store, {}), Numbered(store), EveryReadSkipsNothing
                 PROVE  BroadcastSkipsNothing
      BY ZenonT(40) DEF MempoolInvariant
    <2> DEFINE Id(b) == 0..store.timeline_id[b] - 1
               M == Max(Range(store.timeline_id))
               Cursors == {c \in [Bucket -> 0..M] : \A b \in Bucket : c[b] \in Id(b)}
               Delays == {store.timeline_id, [b \in Bucket |-> store.timeline_id[b] - 1]}
    <2>1. store.timeline = {timeline_entry(t) : t \in ReadyIn(store.transactions)}
      BY ZenonT(40) DEF Sound, Indexed
    <2>2. store.timeline_id \in [Bucket -> Nat \ {0}]
      BY ZenonT(40) DEF Sound, Shape
    <2>3. ASSUME NEW e \in store.timeline PROVE e.id \in Id(e.bucket)
      <3>1. PICK t \in ReadyIn(store.transactions) : e = timeline_entry(t)
        BY <2>1, ZenonT(40)
      <3>2. e.bucket = bucket(t.gas) /\ e.id = t.state
        BY <3>1, ZenonT(40) DEF timeline_entry
      <3>3. e.id < store.timeline_id[e.bucket]
        BY <3>2, ZenonT(40) DEF Numbered
      <3>4. e.bucket \in Bucket /\ e.id \in Nat
        BY SoundIsReadable, ZenonT(40) DEF Readable, Timelines
      <3>5. store.timeline_id[e.bucket] \in Nat
        BY <2>2, <3>4, SMTT(40)
      <3> QED BY <3>3, <3>4, <3>5, SMTT(40)
    <2>4. ASSUME NEW e \in store.timeline, NEW f \in store.timeline,
                 e.bucket = f.bucket, e.id = f.id
          PROVE  e = f
      <3>1. PICK t \in ReadyIn(store.transactions) : e = timeline_entry(t)
        BY <2>1, ZenonT(40)
      <3>2. PICK u \in ReadyIn(store.transactions) : f = timeline_entry(u)
        BY <2>1, ZenonT(40)
      <3>3. /\ e.bucket = bucket(t.gas) /\ e.id = t.state
            /\ f.bucket = bucket(u.gas) /\ f.id = u.state
        BY <3>1, <3>2, ZenonT(40) DEF timeline_entry
      <3>4. t = u
        BY <2>4, <3>3, ZenonT(40) DEF Numbered
      <3> QED BY <3>1, <3>2, <3>4, ZenonT(40)
    <2>5. ASSUME NEW cursor \in Cursors, NEW count \in {1, capacity},
                 NEW before \in Delays
          PROVE  ReadSkipsNothing(cursor, count, before)
      <3>1. cursor \in [Bucket -> Nat]
        <4>1. cursor \in [Bucket -> 0..M] /\ \A b \in Bucket : cursor[b] \in Id(b)
          BY ZenonT(40)
        <4>2. \A b \in Bucket : cursor[b] \in Nat
          BY <2>2, <4>1, SMTT(40)
        <4> QED BY <4>1, <4>2, SMTT(40)
      <3>2. count \in Nat
        BY MempoolAssumption, SMTT(40)
      <3>3. before \in [Bucket -> Int]
        BY <2>2, SMTT(40)
      <3> QED BY <3>1, <3>2, <3>3, ZenonT(40) DEF EveryReadSkipsNothing
    <2> QED BY <2>3, <2>4, <2>5, ZenonT(40) DEF BroadcastSkipsNothing
  <1> QED BY <1>1, NumberedTheorem, EveryReadSkipsNothingTheorem, PTL

(***************************************************************************)
(* get_batch draws in sequence and by priority, whatever it is limited to  *)
(* (at least one transaction, tasks.rs:571) and whatever is in progress in *)
(* consensus.                                                              *)
(***************************************************************************)
EveryBatchInSequence ==
    \A max_txns \in Nat \ {0}, max_bytes \in Nat, return_non_full \in BOOLEAN,
       exclude \in SUBSET [sender : Address, seq : Nat, gas : Nat, body : Body] :
        BatchInSequence(max_txns, max_bytes, return_non_full, exclude)

(***************************************************************************)
(* get_batch is right for every limit and everything that consensus may    *)
(* have in progress, known to the mempool or not: the same as              *)
(* PullInSequence says of a few (mempool.rs:389-526).                      *)
(***************************************************************************)
THEOREM EveryBatchInSequenceTheorem == MempoolSpec => []EveryBatchInSequence
  <1>1. MempoolInvariant => EveryBatchInSequence
    <2> SUFFICES ASSUME Sound(store, {}), NEW max_txns \in Nat \ {0}, NEW max_bytes \in Nat,
                        NEW return_non_full \in BOOLEAN,
                        NEW exclude \in SUBSET [sender : Address, seq : Nat,
                                                gas : Nat, body : Body]
                 PROVE  BatchInSequence(max_txns, max_bytes, return_non_full, exclude)
      BY ZenonT(40) DEF MempoolInvariant, EveryBatchInSequence
    <2>1. max_txns \in Nat /\ \A h \in exclude : h.seq \in Nat
      BY SMTT(40)
    <2> QED BY <2>1, SoundIsReadable, BatchIsInSequence, SMTT(40)
  <1> QED BY <1>1, MempoolInvariantTheorem, PTL

(***************************************************************************)
(* What the run checks for some limits and for every set of queued         *)
(* transactions in progress: a pull is in sequence and by priority.        *)
(***************************************************************************)
THEOREM PullInSequenceInvariant == MempoolSpec => []PullInSequence
  <1>1. MempoolInvariant /\ EveryBatchInSequence => PullInSequence
    <2> SUFFICES ASSUME Sound(store, {}), EveryBatchInSequence PROVE PullInSequence
      BY ZenonT(40) DEF MempoolInvariant
    <2> DEFINE versions == {h \in {arrival.txn : arrival \in Arrivals} :
                               get_mempool_txn(store, h.sender, h.seq) # {}}
               H == [sender : Address, seq : Nat, gas : Nat, body : Body]
    <2>1. versions \subseteq H
      <3>1. \A arrival \in Arrivals : arrival.txn \in H
        BY MempoolAssumption, SMTT(40)
      <3> HIDE DEF H
      <3> QED BY <3>1, ZenonT(40)
    <2>2. store.size_bytes \in Nat
      <3>1. Weighed(store)
        BY SoundIsReadable, ZenonT(40) DEF Readable
      <3>2. /\ IsFiniteSet(store.transactions)
            /\ \A t \in store.transactions : Bytes[t.body] \in Nat
            /\ store.size_bytes = estimated_bytes(store.transactions)
        BY <3>1, ZenonT(40) DEF Weighed
      <3> QED BY <3>2, FewerBytes, SMTT(40)
    <2> HIDE DEF versions
    <2>3. ASSUME NEW max_txns \in {1, capacity + 1}, NEW max_bytes \in {2, store.size_bytes},
                 NEW return_non_full \in BOOLEAN, NEW exclude \in SUBSET versions
          PROVE  BatchInSequence(max_txns, max_bytes, return_non_full, exclude)
      <3>1. max_txns \in Nat \ {0} /\ max_bytes \in Nat
        BY <2>2, MempoolAssumption, SMTT(40)
      <3>2. exclude \in SUBSET H
        BY <2>1, ZenonT(40)
      <3> QED BY <3>1, <3>2, ZenonT(40) DEF EveryBatchInSequence
    <2> QED BY <2>3, ZenonT(40) DEF PullInSequence, versions
  <1> QED BY <1>1, MempoolInvariantTheorem, EveryBatchInSequenceTheorem, PTL
=============================================================================
