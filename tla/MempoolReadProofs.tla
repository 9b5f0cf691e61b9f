------------------------- MODULE MempoolReadProofs -------------------------
(***************************************************************************)
(* Proofs about what the mempool answers from a store: read_timeline,      *)
(* which hands transactions to a peer, and get_batch, which hands them to  *)
(* consensus. They read a store and change nothing, so they are about any  *)
(* store that is Readable, whatever led to it.                             *)
(***************************************************************************)
EXTENDS MempoolQueries, Sums

(***************************************************************************)
(* A smaller set has fewer members.                                        *)
(***************************************************************************)
LEMMA FewerMembers ==
  ASSUME NEW S, IsFiniteSet(S), NEW T, T \subseteq S
  PROVE  /\ IsFiniteSet(T) /\ Cardinality(T) \in Nat /\ Cardinality(S) \in Nat
         /\ Cardinality(T) <= Cardinality(S)
         /\ \A x \in S : x \notin T => Cardinality(T) < Cardinality(S)
  <1>1. /\ IsFiniteSet(T) /\ Cardinality(T) <= Cardinality(S)
        /\ Cardinality(S) = Cardinality(T) => S = T
    BY FS_Subset
  <1>2. Cardinality(T) \in Nat /\ Cardinality(S) \in Nat
    BY <1>1, FS_CardinalityType
  <1> QED BY <1>1, <1>2

(***************************************************************************)
(* A finite set of numbers has a largest one, which Max gives.             *)
(***************************************************************************)
LEMMA MaxIsLargest ==
  ASSUME NEW S, IsFiniteSet(S), S \subseteq Nat, S # {}
  PROVE  Max(S) \in S /\ \A x \in S : x <= Max(S)
  <1> DEFINE Above(x) == {y \in S : y > x}
             B == {n \in Nat : \E x \in S : n = Cardinality(Above(x))}
  <1>0. \A x : Above(x) \subseteq S
    OBVIOUS
  <1>1. ASSUME NEW x \in S, NEW y \in S, y > x
        PROVE  Cardinality(Above(y)) < Cardinality(Above(x))
    <2>0. x \in Nat /\ y \in Nat /\ \A z \in S : z \in Nat
      OBVIOUS
    <2>1. Above(y) \subseteq Above(x)
      <3> SUFFICES ASSUME NEW z \in S, z > y PROVE z > x
        BY Zenon
      <3>1. z \in Nat
        BY <2>0
      <3> QED BY <1>1, <2>0, <3>1
    <2>2. y \in Above(x) /\ y \notin Above(y)
      BY <1>1, <2>0
    <2> HIDE DEF Above
    <2>3. IsFiniteSet(Above(x))
      BY <1>0, FS_Subset
    <2> QED BY <2>1, <2>2, <2>3, FewerMembers, SMTT(40)
  <1> HIDE DEF Above
  <1>2. \E x \in S : \A y \in S : x >= y
    <2>1. \A x : Cardinality(Above(x)) \in Nat
      BY <1>0, FewerMembers
    <2>2. B \subseteq Nat /\ B # {}
      BY <2>1, Zenon
    <2>3. PICK n \in B : \A k \in B : n <= k
      <3> HIDE DEF B
      <3> QED BY <2>2, SmallestNumber, ZenonT(40)
    <2>4. PICK x \in S : n = Cardinality(Above(x))
      OBVIOUS
    <2>5. ASSUME NEW y \in S, y > x PROVE FALSE
      <3>1. Cardinality(Above(y)) \in B
        BY <2>1
      <3> QED BY <1>1, <2>1, <2>3, <2>4, <2>5, <3>1
    <2> QED BY <2>5
  <1>3. Max(S) \in S /\ \A y \in S : Max(S) >= y
    BY <1>2, Zenon DEF Max
  <1> QED BY <1>3

(***************************************************************************)
(* Fewer transactions have no more bytes.                                  *)
(***************************************************************************)
LEMMA FewerBytes ==
  ASSUME NEW T, IsFiniteSet(T), \A t \in T : Bytes[t.body] \in Nat, NEW X, X \subseteq T
  PROVE  /\ estimated_bytes(X) \in Nat /\ estimated_bytes(T) \in Nat
         /\ estimated_bytes(X) <= estimated_bytes(T)
         /\ estimated_bytes({}) = 0
  <1> DEFINE w == [t \in T |-> Bytes[t.body]]
             v(S) == [t \in S |-> w[t]]
  <1>1. \A t \in T : w[t] \in Nat /\ w[t] = Bytes[t.body]
    OBVIOUS
  <1>2. ASSUME NEW S, S \subseteq T PROVE estimated_bytes(S) = SumOver(w, S)
    <2>1. v(S) = [t \in S |-> Bytes[t.body]]
      BY <1>2
    <2>2. estimated_bytes(S) = SumOver([t \in S |-> Bytes[t.body]], S)
      BY DEF estimated_bytes, SumOver
    <2> HIDE DEF w
    <2>3. IsFiniteSet(S) /\ \A t \in S : w[t] \in Nat
      BY <1>1, <1>2, FewerMembers
    <2>4. SumOver(v(S), S) = SumOver(w, S)
      BY <2>3, SumOfRestriction
    <2> HIDE DEF v
    <2> QED BY <2>1, <2>2, <2>4, Zenon
  <1> HIDE DEF w, v
  <1>3. /\ SumOver(w, X) \in Nat /\ SumOver(w, T \ X) \in Nat
        /\ SumOver(w, T) = SumOver(w, X) + SumOver(w, T \ X)
    BY <1>1, SumOfPart, Zenon
  <1>4. /\ estimated_bytes(X) = SumOver(w, X) /\ estimated_bytes(T) = SumOver(w, T)
        /\ estimated_bytes({}) = SumOver(w, {})
    BY <1>2
  <1> QED BY <1>3, <1>4, SumEmpty
-----------------------------------------------------------------------------
(***************************************************************************)
(* Account and sequence number, by which get_batch knows a transaction.    *)
(***************************************************************************)
Pair(k) == <<k.hash.sender, k.hash.seq>>

(***************************************************************************)
(* Transactions that can be weighed: finitely many, with their bytes in    *)
(* size_bytes.                                                             *)
(***************************************************************************)
Weighed(st) ==
    /\ IsFiniteSet(st.transactions)
    /\ \A t \in st.transactions : Bytes[t.body] \in Nat
    /\ st.size_bytes = estimated_bytes(st.transactions)

(***************************************************************************)
(* The entries of the timelines: finitely many, each in a bucket.          *)
(***************************************************************************)
Timelines(st) ==
    /\ IsFiniteSet(st.timeline)
    /\ \A e \in st.timeline : e.bucket \in Bucket /\ e.id \in Nat

(***************************************************************************)
(* The keys of the priority index: finitely many, one per account and      *)
(* sequence number, of accounts with a known sequence number.              *)
(***************************************************************************)
PriorityKeys(st) ==
    /\ IsFiniteSet(st.priority)
    /\ \A k \in st.priority :
           /\ k.hash.sender \in Nat /\ k.hash.seq \in Nat /\ k.hash.gas \in Nat
           /\ k.inserted \in Nat /\ k.hash.sender \in DOMAIN st.sequence_numbers
    /\ \A k, l \in st.priority : Pair(k) = Pair(l) => k = l

(***************************************************************************)
(* A store that the two functions can read.                                *)
(***************************************************************************)
Readable(st) == Weighed(st) /\ Timelines(st) /\ PriorityKeys(st)

(***************************************************************************)
(* The k smallest of some numbers.                                         *)
(***************************************************************************)
FirstOf(S, k) == {x \in S : Cardinality({i \in S : i < x}) < k}

(***************************************************************************)
(* Whatever is below one of the k smallest is one of them, and they are at *)
(* most k.                                                                 *)
(***************************************************************************)
LEMMA FirstOnes ==
  ASSUME NEW S, IsFiniteSet(S), S \subseteq Nat, NEW k \in Nat
  PROVE  /\ FirstOf(S, k) \subseteq S /\ IsFiniteSet(FirstOf(S, k))
         /\ Cardinality(FirstOf(S, k)) \in 0..k
         /\ \A x \in FirstOf(S, k), y \in S : y <= x => y \in FirstOf(S, k)
  <1> DEFINE Below(x) == {i \in S : i < x}
             F == {x \in S : Cardinality(Below(x)) < k}
  <1>0. F = FirstOf(S, k)
    BY DEF FirstOf
  <1>1. \A x : IsFiniteSet(Below(x)) /\ Cardinality(Below(x)) \in Nat
    <2> SUFFICES ASSUME NEW x PROVE IsFiniteSet(Below(x)) /\ Cardinality(Below(x)) \in Nat
      OBVIOUS
    <2>1. Below(x) \subseteq S
      OBVIOUS
    <2> HIDE DEF Below
    <2> QED BY <2>1, FewerMembers
  <1>2. F \subseteq S
    OBVIOUS
  <1>3. IsFiniteSet(F) /\ Cardinality(F) \in Nat
    BY <1>2, FewerMembers, Zenon
  <1>4. ASSUME NEW x \in F, NEW y \in S, y <= x PROVE y \in F
    <2>1. x \in Nat /\ y \in Nat
      OBVIOUS
    <2>2. Below(y) \subseteq Below(x)
      <3> SUFFICES ASSUME NEW i \in S, i < y PROVE i < x
        BY ZenonT(40)
      <3>1. i \in Nat
        OBVIOUS
      <3> QED BY <1>4, <2>1, <3>1
    <2>3. Cardinality(Below(x)) < k
      OBVIOUS
    <2>4. Cardinality(Below(y)) < k
      <3> HIDE DEF Below
      <3> QED BY <1>1, <2>2, <2>3, FewerMembers
    <2> QED BY <2>4
  <1> HIDE DEF F
  <1>5. CASE F = {}
    <2>1. Cardinality(F) = 0
      BY <1>5, FS_EmptySet
    <2> QED BY <1>0, <1>2, <1>3, <1>4, <2>1
  <1>6. CASE F # {}
    <2> DEFINE m == Max(F)
    <2>1. m \in F /\ \A x \in F : x <= m
      <3>1. F \subseteq Nat
        BY <1>2, Zenon
      <3> QED BY <1>3, <1>6, <3>1, MaxIsLargest, Zenon
    <2> HIDE DEF m
    <2>2. F = Below(m) \cup {m}
      <3>1. m \in Nat /\ \A x \in S : x \in Nat
        BY <1>2, <2>1
      <3>2. ASSUME NEW x \in F PROVE x \in Below(m) \cup {m}
        BY <1>2, <2>1, <3>1
      <3>3. ASSUME NEW x \in Below(m) \cup {m} PROVE x \in F
        BY <1>4, <2>1, <3>1, SMTT(40)
      <3> QED BY <3>2, <3>3, Zenon
    <2>3. m \notin Below(m) /\ Cardinality(Below(m)) < k
      <3>1. m \in Nat
        BY <1>2, <2>1, SMTT(40)
      <3> QED BY <2>1, <3>1 DEF F
    <2>4. Cardinality(F) = Cardinality(Below(m)) + 1
      <3> HIDE DEF Below
      <3> QED BY <1>1, <2>2, <2>3, FS_AddElement, Zenon
    <2> HIDE DEF Below
    <2>5. Cardinality(F) \in 0..k
      BY <1>1, <2>3, <2>4
    <2> QED BY <1>0, <1>2, <1>3, <1>4, <2>5, SMTT(40)
  <1> QED BY <1>0, <1>5, <1>6

(***************************************************************************)
(* The entries between two cursors.                                        *)
(***************************************************************************)
Passed(st, from, to) ==
    {<<e.bucket, e.id>> :
        e \in {e \in st.timeline : from[e.bucket] < e.id /\ e.id <= to[e.bucket]}}

(***************************************************************************)
(* A read from a cursor, once it is past the buckets done: it has sent     *)
(* exactly what the new cursor passes, within its limits.                  *)
(***************************************************************************)
Reading(st, cursor, count, acc, done) ==
    /\ acc.added \in 0..count
    /\ acc.bytes \in 0..max_batch_bytes
    /\ acc.cursor \in [Bucket -> Nat]
    /\ \A b \in Bucket \ done : acc.cursor[b] = cursor[b]
    /\ acc.batch = Passed(st, cursor, acc.cursor)
    /\ IsFiniteSet(acc.batch)
    /\ Cardinality(acc.batch) <= acc.added

(***************************************************************************)
(* The entries of fit are those of ids up to some identifier, and their    *)
(* transactions have room bytes at most.                                   *)
(***************************************************************************)
PrefixWithin(st, b, ids, room, fit) ==
    /\ fit \subseteq ids
    /\ \A x \in fit, y \in ids : y <= x => y \in fit
    /\ estimated_bytes(Listed(st, b, fit)) \in 0..room

(***************************************************************************)
(* What the byte limit lets through: the transactions of the entries up to *)
(* some identifier (transaction_store.rs:685-698).                         *)
(***************************************************************************)
LEMMA FittingIsPrefix ==
  ASSUME NEW st, Weighed(st), NEW b, NEW ids, ids \subseteq Nat, IsFiniteSet(ids),
         NEW room \in Nat, NEW fit, fit = Fitting(st, b, ids, room)
  PROVE  PrefixWithin(st, b, ids, room, fit)
  <1> DEFINE UpTo(x) == {i \in ids : i <= x}
             Size(X) == estimated_bytes(Listed(st, b, X))
  <1>1. ASSUME NEW X, NEW Y, X \subseteq Y
        PROVE  Size(X) \in Nat /\ Size(Y) \in Nat /\ Size(X) <= Size(Y)
    <2>1. Listed(st, b, X) \subseteq Listed(st, b, Y)
          /\ Listed(st, b, Y) \subseteq st.transactions
      BY <1>1, Zenon DEF Listed
    <2>2. IsFiniteSet(st.transactions) /\ \A t \in st.transactions : Bytes[t.body] \in Nat
      BY ZenonT(40) DEF Weighed
    <2>3. /\ IsFiniteSet(Listed(st, b, Y))
          /\ \A t \in Listed(st, b, Y) : Bytes[t.body] \in Nat
      BY <2>1, <2>2, FewerMembers, SMTT(40)
    <2> QED BY <2>1, <2>3, FewerBytes
  <1>2. fit = {x \in ids : Size(UpTo(x)) <= room}
    BY DEF Fitting
  <1> HIDE DEF Size
  <1>3. ASSUME NEW x \in fit, NEW y \in ids, y <= x PROVE y \in fit
    <2>1. x \in Nat /\ y \in Nat /\ \A i \in ids : i \in Nat
      BY <1>2
    <2>2. UpTo(y) \subseteq UpTo(x)
      <3> SUFFICES ASSUME NEW i \in ids, i <= y PROVE i <= x
        BY Zenon
      <3>1. i \in Nat
        BY <2>1
      <3> QED BY <1>3, <2>1, <3>1, SMTT(40)
    <2>3. Size(UpTo(x)) <= room
      BY <1>2
    <2> HIDE DEF UpTo
    <2>4. Size(UpTo(y)) <= room
      BY <1>1, <2>2, <2>3
    <2> QED BY <1>2, <2>4
  <1>4. fit \subseteq ids
    BY <1>2, Zenon
  <1>5. Size(fit) \in 0..room
    <2>1. CASE fit = {}
      <3>1. Listed(st, b, fit) = {}
        BY <2>1, Zenon DEF Listed
      <3>2. IsFiniteSet({}) /\ {} \subseteq {} /\ \A t \in {} : Bytes[t.body] \in Nat
        BY FS_EmptySet
      <3>3. estimated_bytes({}) = 0
        BY <3>2, FewerBytes
      <3> QED BY <3>1, <3>3 DEF Size
    <2>2. CASE fit # {}
      <3> DEFINE m == Max(fit)
      <3>1. m \in fit /\ \A x \in fit : x <= m
        <4>1. fit \subseteq Nat
          BY <1>4, Zenon
        <4>2. IsFiniteSet(fit)
          BY <1>4, FewerMembers
        <4> QED BY <2>2, <4>1, <4>2, MaxIsLargest
      <3> HIDE DEF m
      <3>2. UpTo(m) = fit
        BY <1>3, <1>4, <3>1, Zenon
      <3>3. Size(UpTo(m)) <= room
        BY <1>2, <3>1
      <3>4. Size(fit) <= room
        BY <3>2, <3>3
      <3>5. Size(fit) \in Nat
        BY <1>1
      <3> QED BY <3>4, <3>5
    <2> QED BY <2>1, <2>2
  <1> QED BY <1>3, <1>4, <1>5, ZenonT(40) DEF Size, PrefixWithin

(***************************************************************************)
(* One bucket is read as it should be (transaction_store.rs:675-717),      *)
(* after any buckets before it: its cursor moves to the last entry that    *)
(* was sent and past nothing else.                                         *)
(***************************************************************************)
LEMMA BucketRead ==
  ASSUME NEW st, Weighed(st), Timelines(st), NEW cursor \in [Bucket -> Nat], NEW count \in Nat,
         NEW before \in [Bucket -> Int], NEW acc, NEW done,
         Reading(st, cursor, count, acc, done), NEW b \in Bucket, b \notin done
  PROVE  Reading(st, cursor, count, ReadBucket(st, cursor, count, before, acc, b),
                 done \cup {b})
  <1> DEFINE new == ReadBucket(st, cursor, count, before, acc, b)
             mine == {e \in st.timeline :
                         e.bucket = b /\ e.id > cursor[b] /\ e.id < before[b]}
             all == {e.id : e \in mine}
             left == count - acc.added
             ids == timeline(st, b, cursor[b], left, before[b])
             room == max_batch_bytes - acc.bytes
             fit == Fitting(st, b, ids, room)
             sent == {<<b, id>> : id \in fit}
  <1> SUFFICES Reading(st, cursor, count, new, done \cup {b})
    OBVIOUS
  <1>1. /\ acc.added \in 0..count /\ acc.bytes \in 0..max_batch_bytes
        /\ acc.cursor \in [Bucket -> Nat] /\ acc.cursor[b] = cursor[b]
        /\ acc.batch = Passed(st, cursor, acc.cursor) /\ IsFiniteSet(acc.batch)
        /\ Cardinality(acc.batch) <= acc.added
        /\ \A c \in Bucket \ done : acc.cursor[c] = cursor[c]
    BY ZenonT(40) DEF Reading
  <1>2. left \in Nat /\ room \in Nat /\ max_batch_bytes \in Nat
    <2>1. acc.added \in 0..count /\ acc.bytes \in 0..max_batch_bytes
      BY <1>1, Zenon
    <2> QED BY <2>1, MempoolAssumption, SMTT(40)
  <1>3. /\ new.added = acc.added + Cardinality(ids)
        /\ new.bytes = acc.bytes + estimated_bytes(Listed(st, b, fit))
        /\ new.batch = acc.batch \cup sent
        /\ new.cursor = Advance(acc.cursor, b, ids, fit)
    BY Zenon DEF ReadBucket
  <1>4. /\ IsFiniteSet(st.timeline)
        /\ \A e \in st.timeline : e.bucket \in Bucket /\ e.id \in Nat
    BY Zenon DEF Timelines
  <1>5. all \subseteq Nat /\ IsFiniteSet(all)
    <2> DEFINE f == [e \in mine |-> e.id]
    <2>1. mine \subseteq st.timeline
      OBVIOUS
    <2>2. f \in Surjection(mine, all)
      BY Zenon DEF Surjection
    <2>3. all \subseteq Nat
      BY <1>4, ZenonT(40)
    <2> HIDE DEF mine, all, f
    <2>4. IsFiniteSet(mine)
      BY <1>4, <2>1, FewerMembers, SMTT(40)
    <2> QED BY <2>2, <2>3, <2>4, FS_Surjection
  <1>6. ids = FirstOf(all, left)
    BY ZenonT(40) DEF timeline, FirstOf
  <1>7. /\ ids \subseteq all /\ IsFiniteSet(ids) /\ Cardinality(ids) \in 0..left
        /\ \A x \in ids, y \in all : y <= x => y \in ids
    <2> HIDE DEF ids, all, left
    <2> QED BY <1>2, <1>5, <1>6, FirstOnes, ZenonT(40)
  <1>8. \A x : x \in all <=> \E e \in st.timeline : /\ e.bucket = b /\ e.id > cursor[b]
                                                    /\ e.id < before[b] /\ x = e.id
    BY Zenon
  <1> HIDE DEF new, ids, all, left, room, mine
  <1>9. /\ fit \subseteq ids
        /\ \A x \in fit, y \in ids : y <= x => y \in fit
        /\ estimated_bytes(Listed(st, b, fit)) \in 0..room
    <2>1. ids \subseteq Nat
      BY <1>5, <1>7, Zenon
    <2>2. fit = Fitting(st, b, ids, room)
      OBVIOUS
    <2>3. Weighed(st) /\ room \in Nat /\ IsFiniteSet(ids)
      BY <1>2, <1>7, Zenon
    <2> HIDE DEF fit
    <2>4. PrefixWithin(st, b, ids, room, fit)
      BY <2>1, <2>2, <2>3, FittingIsPrefix, ZenonT(40)
    <2> QED BY <2>4, ZenonT(40) DEF PrefixWithin
  <1>10. /\ IsFiniteSet(fit) /\ Cardinality(fit) \in Nat
         /\ Cardinality(fit) <= Cardinality(ids)
    <2> HIDE DEF fit
    <2> QED BY <1>7, <1>9, FewerMembers, SMTT(40)
  <1>11. fit \subseteq Nat
    BY <1>5, <1>7, <1>9, ZenonT(40)
  <1> HIDE DEF fit
  <1>12. new.added \in 0..count /\ new.bytes \in 0..max_batch_bytes
    <2>1. Cardinality(ids) \in 0..left /\ estimated_bytes(Listed(st, b, fit)) \in 0..room
      BY <1>7, <1>9, ZenonT(40)
    <2> QED BY <1>1, <1>2, <1>3, <2>1, SMTT(40) DEF left, room
  <1>13. /\ IsFiniteSet(new.batch)
         /\ Cardinality(new.batch) <= new.added
    <2> DEFINE f == [id \in fit |-> <<b, id>>]
    <2>1. f \in Surjection(fit, sent)
      BY ZenonT(40) DEF Surjection
    <2> HIDE DEF f, sent
    <2>2. IsFiniteSet(sent) /\ Cardinality(sent) <= Cardinality(fit)
      BY <1>10, <2>1, FS_Surjection, SMTT(40)
    <2>3. /\ IsFiniteSet(acc.batch \cup sent)
          /\ Cardinality(acc.batch \cup sent)
               = Cardinality(acc.batch) + Cardinality(sent) - Cardinality(acc.batch \cap sent)
      BY <1>1, <2>2, FS_Union, SMTT(40)
    <2>4. acc.batch \cap sent \subseteq sent
      BY SMTT(40)
    <2>5. /\ Cardinality(acc.batch) \in Nat /\ Cardinality(sent) \in Nat
          /\ Cardinality(acc.batch \cap sent) \in Nat
      BY <1>1, <2>2, <2>4, FewerMembers, FS_CardinalityType, SMTT(40)
    <2>6. Cardinality(ids) \in Nat /\ acc.added \in Nat
      BY <1>1, <1>7, FS_CardinalityType, SMTT(40)
    <2>7. Cardinality(acc.batch \cup sent) <= acc.added + Cardinality(ids)
      BY <1>1, <1>10, <2>2, <2>3, <2>5, <2>6, SMTT(40)
    <2> QED BY <1>3, <2>3, <2>7, ZenonT(40)
  <1>14. CASE fit = {}
    <2>1. new.cursor = acc.cursor /\ new.batch = acc.batch
      BY <1>3, <1>14 DEF Advance
    <2> QED BY <1>1, <1>12, <1>13, <2>1, ZenonT(40) DEF Reading
  <1>15. CASE fit # {}
    <2> DEFINE m == Max(fit)
    <2>1. m \in fit /\ (\A x \in fit : x <= m) /\ m \in Nat
      BY <1>10, <1>11, <1>15, MaxIsLargest, ZenonT(40)
    <2>2. new.cursor = [acc.cursor EXCEPT ![b] = m]
      BY <1>3, <1>15, Zenon DEF Advance
    <2> HIDE DEF m
    <2>3. /\ new.cursor \in [Bucket -> Nat] /\ new.cursor[b] = m
          /\ \A c \in Bucket : c # b => new.cursor[c] = acc.cursor[c]
      BY <1>1, <2>1, <2>2
    <2>4. \A c \in Bucket \ (done \cup {b}) : new.cursor[c] = cursor[c]
      BY <1>1, <2>3, Zenon
    <2>5. cursor[b] \in Nat /\ before[b] \in Int
      BY SMTT(40)
    <2>6. ASSUME NEW e \in st.timeline, e.bucket = b
          PROVE  cursor[b] < e.id /\ e.id <= m <=> e.id \in fit
      <3>1. e.id \in Nat
        BY <1>4
      <3>2. ASSUME cursor[b] < e.id, e.id <= m PROVE e.id \in fit
        <4>1. m \in ids /\ m \in all
          BY <1>7, <1>9, <2>1, ZenonT(40)
        <4>2. m < before[b]
          <5>1. PICK f \in st.timeline : f.id < before[b] /\ m = f.id
            BY <1>8, <4>1, ZenonT(40)
          <5> QED BY <5>1
        <4>3. e.id < before[b] /\ e.id > cursor[b]
          BY <2>1, <2>5, <3>1, <3>2, <4>2, SMTT(40)
        <4>4. e.id \in all
          BY <1>8, <2>6, <4>3, ZenonT(40)
        <4>5. e.id \in ids
          BY <1>7, <3>2, <4>1, <4>4, ZenonT(40)
        <4> QED BY <1>9, <2>1, <3>2, <4>5, ZenonT(40)
      <3>3. ASSUME e.id \in fit PROVE cursor[b] < e.id /\ e.id <= m
        <4>1. e.id \in all /\ e.id <= m
          BY <1>7, <1>9, <2>1, <3>3, ZenonT(40)
        <4>2. PICK f \in st.timeline : f.id > cursor[b] /\ e.id = f.id
          BY <1>8, <4>1, ZenonT(40)
        <4> QED BY <2>5, <3>1, <4>1, <4>2, SMTT(40)
      <3> QED BY <3>2, <3>3, SMTT(40)
    <2>7. new.batch = Passed(st, cursor, new.cursor)
      <3>1. ASSUME NEW p \in Passed(st, cursor, new.cursor) PROVE p \in new.batch
        <4>1. PICK e \in st.timeline : /\ cursor[e.bucket] < e.id
                                       /\ e.id <= new.cursor[e.bucket]
                                       /\ p = <<e.bucket, e.id>>
          BY Zenon DEF Passed
        <4>2. CASE e.bucket = b
          <5>1. e.id \in fit
            BY <2>3, <2>6, <4>1, <4>2, Zenon
          <5> QED BY <1>3, <4>1, <4>2, <5>1, Zenon
        <4>3. CASE e.bucket # b
          <5>1. e.id <= acc.cursor[e.bucket]
            BY <1>4, <2>3, <4>1, <4>3, ZenonT(40)
          <5>2. p \in Passed(st, cursor, acc.cursor)
            BY <4>1, <5>1, ZenonT(40) DEF Passed
          <5> QED BY <1>1, <1>3, <5>2, ZenonT(40)
        <4> QED BY <4>2, <4>3
      <3>2. ASSUME NEW p \in new.batch PROVE p \in Passed(st, cursor, new.cursor)
        <4>1. CASE p \in acc.batch
          <5>1. PICK e \in st.timeline : /\ cursor[e.bucket] < e.id
                                         /\ e.id <= acc.cursor[e.bucket]
                                         /\ p = <<e.bucket, e.id>>
            BY <1>1, <4>1, ZenonT(40) DEF Passed
          <5>2. e.bucket # b
            <6>1. e.id \in Nat
              BY <1>4
            <6> QED BY <1>1, <2>5, <5>1, <6>1, SMTT(40)
          <5>3. e.id <= new.cursor[e.bucket]
            BY <1>4, <2>3, <5>1, <5>2, ZenonT(40)
          <5> QED BY <5>1, <5>3, ZenonT(40) DEF Passed
        <4>2. CASE p \in sent
          <5>1. PICK id \in fit : p = <<b, id>>
            BY <4>2, ZenonT(40)
          <5>2. id \in all
            BY <1>7, <1>9, ZenonT(40)
          <5>3. PICK e \in st.timeline : e.bucket = b /\ id = e.id
            BY <1>8, <5>2, ZenonT(40)
          <5>4. cursor[e.bucket] < e.id /\ e.id <= new.cursor[e.bucket]
            BY <2>3, <2>6, <5>3, ZenonT(40)
          <5> QED BY <5>1, <5>3, <5>4, ZenonT(40) DEF Passed
        <4> QED BY <1>3, <4>1, <4>2, ZenonT(40)
      <3> QED BY <3>1, <3>2, ZenonT(40)
    <2> QED BY <1>12, <1>13, <2>3, <2>4, <2>7, ZenonT(40) DEF Reading
  <1> QED BY <1>14, <1>15

(***************************************************************************)
(* The states of a read, bucket after bucket, from the highest one down.   *)
(***************************************************************************)
IsReads(r, st, cursor, count, before, n) ==
    r = [i \in 0..n |->
            IF i = 0
            THEN [added |-> 0, bytes |-> 0, batch |-> {}, cursor |-> cursor]
            ELSE ReadBucket(st, cursor, count, before, r[i - 1],
                            Len(BucketMins) + 1 - i)]

(***************************************************************************)
(* The loop over the buckets has such a function.                          *)
(***************************************************************************)
LEMMA ReadsExist ==
  ASSUME NEW st, NEW cursor, NEW count, NEW before, NEW k \in Nat
  PROVE  \E r : IsReads(r, st, cursor, count, before, k)
  <1> DEFINE Ok(r, n) == IsReads(r, st, cursor, count, before, n)
             B == {n \in Nat : ~\E r : Ok(r, n)}
             start == [added |-> 0, bytes |-> 0, batch |-> {}, cursor |-> cursor]
             After(acc, i) == ReadBucket(st, cursor, count, before, acc,
                                         Len(BucketMins) + 1 - i)
  <1>1. \A r, n : Ok(r, n)
                    <=> r = [i \in 0..n |-> IF i = 0 THEN start ELSE After(r[i - 1], i)]
    BY Zenon DEF IsReads
  <1> HIDE DEF After, start, Ok
  <1>2. ASSUME B # {} PROVE FALSE
    <2>1. PICK n \in B : \A m \in B : n <= m
      <3>1. B \subseteq Nat
        OBVIOUS
      <3> HIDE DEF B
      <3> QED BY <1>2, <3>1, SmallestNumber, ZenonT(40)
    <2>2. n \in Nat /\ ~\E r : Ok(r, n)
      OBVIOUS
    <2>3. CASE n = 0
      <3> DEFINE r == [i \in 0..0 |-> start]
      <3>1. r = [i \in 0..0 |-> IF i = 0 THEN start ELSE After(r[i - 1], i)]
        OBVIOUS
      <3> QED BY <1>1, <2>2, <2>3, <3>1, ZenonT(40)
    <2>4. CASE n # 0
      <3>1. n - 1 \in Nat /\ n - 1 \notin B
        BY <2>1, <2>2, <2>4, SMTT(40)
      <3>2. PICK h : Ok(h, n - 1)
        BY <3>1
      <3>3. h = [i \in 0..(n - 1) |-> IF i = 0 THEN start ELSE After(h[i - 1], i)]
        BY <1>1, <3>2, ZenonT(40)
      <3> DEFINE r == [i \in 0..n |-> IF i = n THEN After(h[n - 1], n) ELSE h[i]]
      <3>4. r[0] = start
        BY <2>2, <2>4, <3>1, <3>3, SMTT(40)
      <3>5. ASSUME NEW i \in 0..n, i # 0 PROVE r[i] = After(r[i - 1], i)
        <4>1. i - 1 \in 0..n /\ i - 1 # n /\ r[i - 1] = h[i - 1]
          BY <2>2, <3>5, SMTT(40)
        <4>2. CASE i = n
          BY <2>2, <4>1, <4>2, SMTT(40)
        <4>3. CASE i # n
          <5>1. i \in 0..(n - 1)
            BY <2>2, <3>5, <4>3, SMTT(40)
          <5>2. h[i] = After(h[i - 1], i)
            BY <3>3, <3>5, <5>1, ZenonT(40)
          <5> QED BY <4>1, <4>3, <5>2, SMTT(40)
        <4> QED BY <4>2, <4>3, SMTT(40)
      <3>6. r = [i \in 0..n |-> IF i = 0 THEN start ELSE After(r[i - 1], i)]
        <4>1. r = [i \in 0..n |-> r[i]]
          OBVIOUS
        <4> HIDE DEF r
        <4> QED BY <3>4, <3>5, <4>1, ZenonT(40)
      <3> QED BY <1>1, <2>2, <3>6, ZenonT(40)
    <2> QED BY <2>3, <2>4
  <1> QED BY <1>2 DEF Ok

(***************************************************************************)
(* The whole read is as it should be, whatever the cursor that the peer    *)
(* has, the count it may be sent and the delay (transaction_store.rs:657). *)
(***************************************************************************)
LEMMA ReadIsExact ==
  ASSUME NEW st, Weighed(st), Timelines(st), NEW cursor \in [Bucket -> Nat], NEW count \in Nat,
         NEW before \in [Bucket -> Int]
  PROVE  Reading(st, cursor, count, read_timeline(st, cursor, count, before), Bucket)
  <1> DEFINE N == Len(BucketMins)
             r == CHOOSE g : IsReads(g, st, cursor, count, before, N)
             Done(i) == {b \in Bucket : b > N - i}
             Fine(i) == Reading(st, cursor, count, r[i], Done(i))
             B == {n \in 0..N : ~Fine(n)}
  <1>1. N \in Nat /\ Bucket = 1..N
    BY MempoolAssumption, SMTT(40) DEF Bucket
  <1>2. IsReads(r, st, cursor, count, before, N)
    <2> HIDE DEF N
    <2> QED BY <1>1, ReadsExist, ZenonT(40)
  <1>3. read_timeline(st, cursor, count, before) = r[N]
    BY DEF read_timeline, IsReads
  <1> HIDE DEF r, N
  <1>4. Fine(0)
    <2>1. r[0] = [added |-> 0, bytes |-> 0, batch |-> {}, cursor |-> cursor]
      BY <1>1, <1>2, SMTT(40) DEF IsReads
    <2>2. /\ r[0].added = 0 /\ r[0].bytes = 0 /\ r[0].batch = {} /\ r[0].cursor = cursor
      BY <2>1
    <2>3. Passed(st, cursor, cursor) = {}
      <3>1. ASSUME NEW e \in st.timeline, cursor[e.bucket] < e.id, e.id <= cursor[e.bucket]
            PROVE  FALSE
        <4>1. e.id \in Nat /\ cursor[e.bucket] \in Nat
          BY DEF Timelines
        <4> QED BY <3>1, <4>1, SMTT(40)
      <3> QED BY <3>1, ZenonT(40) DEF Passed
    <2>4. IsFiniteSet({}) /\ Cardinality({}) = 0
      BY FS_EmptySet, SMTT(40)
    <2>5. max_batch_bytes \in Nat
      BY MempoolAssumption
    <2>6. 0 \in 0..count /\ 0 \in 0..max_batch_bytes /\ 0 <= 0
      BY <2>5, SMTT(40)
    <2> QED BY <2>2, <2>3, <2>4, <2>6, Zenon DEF Reading
  <1>5. ASSUME NEW n \in 1..N, Fine(n - 1) PROVE Fine(n)
    <2> DEFINE b == N + 1 - n
    <2>1. r[n] = ReadBucket(st, cursor, count, before, r[n - 1], b)
      <3>1. n \in 0..N /\ n # 0
        BY <1>1, SMTT(40)
      <3> QED BY <1>2, <3>1, ZenonT(40) DEF IsReads, N
    <2>2. b \in Bucket /\ b \notin Done(n - 1)
      BY <1>1
    <2>3. Done(n) = Done(n - 1) \cup {b}
      BY <1>1, SMTT(40)
    <2> HIDE DEF b, Done
    <2> QED BY <1>5, <2>1, <2>2, <2>3, BucketRead, SMTT(40)
  <1>6. Done(N) = Bucket
    BY <1>1
  <1> HIDE DEF Fine
  <1>7. ASSUME B # {} PROVE FALSE
    <2>1. B \subseteq Nat
      BY <1>1
    <2>2. PICK n \in B : \A m \in B : n <= m
      <3> HIDE DEF B
      <3> QED BY <1>7, <2>1, SmallestNumber, ZenonT(40)
    <2>3. n \in 1..N
      BY <1>1, <1>4
    <2>4. n - 1 \in 0..N /\ n - 1 \notin B
      BY <1>1, <2>2, <2>3
    <2> QED BY <1>5, <2>3, <2>4
  <1>8. Fine(N)
    BY <1>1, <1>7, SMTT(40)
  <1> QED BY <1>3, <1>6, <1>8, ZenonT(40) DEF Fine
-----------------------------------------------------------------------------
(***************************************************************************)
(* OrderedQueueKey::cmp orders them totally (index.rs:95-120).             *)
(***************************************************************************)
LEMMA OutranksOrders ==
  ASSUME NEW st, PriorityKeys(st), NEW k \in st.priority, NEW l \in st.priority
  PROVE  /\ ~Outranks(k, k)
         /\ Outranks(k, l) => ~Outranks(l, k)
         /\ k # l => Outranks(k, l) \/ Outranks(l, k)
         /\ \A m \in st.priority : Outranks(m, k) /\ Outranks(k, l) => Outranks(m, l)
  <1>1. \A x \in st.priority :
            /\ x.hash.sender \in Nat /\ x.hash.seq \in Nat /\ x.hash.gas \in Nat
            /\ x.inserted \in Nat
    BY DEF PriorityKeys
  <1>2. ~Outranks(k, k)
    BY <1>1, SMTT(40) DEF Outranks
  <1>3. Outranks(k, l) => ~Outranks(l, k)
    BY <1>1, SMTT(40) DEF Outranks
  <1>4. ASSUME k # l PROVE Outranks(k, l) \/ Outranks(l, k)
    <2>1. k.hash.sender # l.hash.sender \/ k.hash.seq # l.hash.seq
      BY <1>4, ZenonT(40) DEF PriorityKeys, Pair
    <2> QED BY <1>1, <2>1, SMTT(40) DEF Outranks
  <1>5. ASSUME NEW m \in st.priority, Outranks(m, k), Outranks(k, l)
        PROVE  Outranks(m, l)
    BY <1>1, <1>5, SMTT(40) DEF Outranks
  <1> QED BY <1>2, <1>3, <1>4, <1>5, SMTT(40)

(***************************************************************************)
(* What outranks another is ahead of it, and ranks count from zero.        *)
(***************************************************************************)
LEMMA RankOrders ==
  ASSUME NEW st, PriorityKeys(st), NEW k \in st.priority
  PROVE  /\ Rank(st, k) \in 0..Cardinality(st.priority) - 1
         /\ \A l \in st.priority : Outranks(k, l) => Rank(st, k) < Rank(st, l)
  <1> DEFINE Ahead(x) == {y \in st.priority : Outranks(y, x)}
  <1>1. IsFiniteSet(st.priority)
    BY SMTT(40) DEF PriorityKeys
  <1>2. \A x : Ahead(x) \subseteq st.priority /\ Rank(st, x) = Cardinality(Ahead(x))
    BY DEF Rank
  <1>3. k \notin Ahead(k)
    BY OutranksOrders
  <1>4. ASSUME NEW l \in st.priority, Outranks(k, l)
        PROVE  Ahead(k) \subseteq Ahead(l) /\ k \in Ahead(l)
    BY <1>4, OutranksOrders, ZenonT(40)
  <1> HIDE DEF Ahead
  <1>5. \A x : IsFiniteSet(Ahead(x)) /\ Cardinality(Ahead(x)) \in Nat
    BY <1>1, <1>2, FewerMembers, SMTT(40)
  <1>6. /\ Cardinality(Ahead(k)) < Cardinality(st.priority)
        /\ Cardinality(st.priority) \in Nat
    BY <1>1, <1>2, <1>3, FewerMembers, SMTT(40)
  <1>7. ASSUME NEW l \in st.priority, Outranks(k, l)
        PROVE  Cardinality(Ahead(k)) < Cardinality(Ahead(l))
    BY <1>3, <1>4, <1>5, <1>7, FewerMembers, SMTT(40)
  <1>8. Cardinality(Ahead(k)) \in 0..Cardinality(st.priority) - 1
    BY <1>5, <1>6, SMTT(40)
  <1> QED BY <1>2, <1>7, <1>8, SMTT(40)

(***************************************************************************)
(* The queue that get_batch walks holds every key once, each ahead of      *)
(* those that it outranks (PriorityIndex::iter).                           *)
(***************************************************************************)
LEMMA QueueIsOrdered ==
  ASSUME NEW st, PriorityKeys(st), NEW q, q = iter_queue(st),
         NEW N, N = Cardinality(st.priority)
  PROVE  /\ N \in Nat /\ DOMAIN q = 1..N
         /\ \A i \in 1..N : q[i] \in st.priority
         /\ \A k \in st.priority : \E i \in 1..N : q[i] = k
         /\ \A i, j \in 1..N : i < j => Outranks(q[i], q[j])
  <1> DEFINE P == st.priority
             f == [k \in P |-> Rank(st, k)]
  <1>1. IsFiniteSet(P) /\ N \in Nat
    BY FS_CardinalityType, SMTT(40) DEF PriorityKeys
  <1>2. \A k \in P : Rank(st, k) \in 0..N - 1
    BY RankOrders, SMTT(40)
  <1>3. \A k, l \in P : Outranks(k, l) => Rank(st, k) < Rank(st, l)
    BY RankOrders, SMTT(40)
  <1>4. \A k, l \in P : Rank(st, k) = Rank(st, l) => k = l
    <2> SUFFICES ASSUME NEW k \in P, NEW l \in P, k # l PROVE Rank(st, k) # Rank(st, l)
      BY SMTT(40)
    <2>1. Outranks(k, l) \/ Outranks(l, k)
      BY OutranksOrders, SMTT(40)
    <2>2. Rank(st, k) < Rank(st, l) \/ Rank(st, l) < Rank(st, k)
      BY <1>3, <2>1, SMTT(40)
    <2>3. Rank(st, k) \in Int /\ Rank(st, l) \in Int
      BY <1>1, <1>2, SMTT(40)
    <2> QED BY <2>2, <2>3, SMTT(40)
  <1>5. \A i \in 0..N - 1 : \E k \in P : Rank(st, k) = i
    <2>1. f \in Injection(P, 0..N - 1)
      BY <1>2, <1>4, SMTT(40) DEF Injection, IsInjective
    <2>2. IsFiniteSet(0..N - 1) /\ Cardinality(0..N - 1) = N
      <3>1. 0 \in Int /\ N - 1 \in Int
        BY <1>1
      <3>2. /\ IsFiniteSet(0..N - 1)
            /\ Cardinality(0..N - 1) = IF 0 > N - 1 THEN 0 ELSE N - 1 - 0 + 1
        BY <3>1, FS_Interval, ZenonT(40)
      <3> QED BY <1>1, <3>2, SMTT(40)
    <2> HIDE DEF f
    <2>3. f \in Surjection(P, 0..N - 1)
      BY <2>1, <2>2, FS_Injection, SMTT(40)
    <2> QED BY <2>3, ZenonT(40) DEF Surjection, f
  <1>6. q = [i \in 1..N |-> CHOOSE k \in P : Rank(st, k) = i - 1]
    BY ZenonT(40) DEF iter_queue
  <1> HIDE DEF P
  <1>7. DOMAIN q = 1..N
    BY <1>1, <1>6, SMTT(40)
  <1>8. ASSUME NEW i \in 1..N PROVE q[i] \in P /\ Rank(st, q[i]) = i - 1
    <2>1. i - 1 \in 0..N - 1
      BY <1>1, SMTT(40)
    <2>2. q[i] = CHOOSE k \in P : Rank(st, k) = i - 1
      BY <1>6, SMTT(40)
    <2> QED BY <1>5, <2>1, <2>2, ZenonT(40)
  <1>9. ASSUME NEW k \in P PROVE \E i \in 1..N : q[i] = k
    <2>1. Rank(st, k) + 1 \in 1..N
      BY <1>1, <1>2, SMTT(40)
    <2>2. Rank(st, q[Rank(st, k) + 1]) = Rank(st, k)
      BY <1>1, <1>2, <1>8, <2>1, SMTT(40)
    <2> QED BY <1>4, <1>8, <2>1, <2>2, ZenonT(40)
  <1>10. ASSUME NEW i \in 1..N, NEW j \in 1..N, i < j PROVE Outranks(q[i], q[j])
    <2>1. q[i] \in P /\ q[j] \in P /\ Rank(st, q[i]) = i - 1 /\ Rank(st, q[j]) = j - 1
      BY <1>8, SMTT(40)
    <2>2. q[i] # q[j]
      BY <1>1, <1>10, <2>1, SMTT(40)
    <2>3. ~Outranks(q[j], q[i])
      BY <1>1, <1>3, <1>10, <2>1, SMTT(40)
    <2> QED BY <2>1, <2>2, <2>3, OutranksOrders, SMTT(40) DEF P
  <1> QED BY <1>1, <1>7, <1>8, <1>9, <1>10, SMTT(40) DEF P

(***************************************************************************)
(* The loop that takes up what was skipped ends, after the skipped numbers *)
(* that follow n without a gap (mempool.rs:434-444).                       *)
(***************************************************************************)
LEMMA UnblockedStops ==
  ASSUME NEW skipped, IsFiniteSet(skipped), NEW a, NEW n \in Nat,
         NEW m, m = Unblocked(skipped, a, n)
  PROVE  /\ m \in Nat /\ m > n /\ <<a, m>> \notin skipped
         /\ \A i \in n + 1..m - 1 : <<a, i>> \in skipped
  <1> DEFINE c == Cardinality(skipped)
             I == n + 1..n + 1 + c
             B == {i \in I : <<a, i>> \notin skipped}
             f == [i \in I |-> <<a, i>>]
  <1>1. c \in Nat
    BY FS_CardinalityType, SMTT(40)
  <1>2. ASSUME B = {} PROVE FALSE
    <2>1. f \in Injection(I, skipped)
      BY <1>2 DEF Injection, IsInjective
    <2>2. IsFiniteSet(I) /\ Cardinality(I) = c + 1
      <3> HIDE DEF c
      <3> QED BY <1>1, FS_Interval, SMTT(40)
    <2> HIDE DEF f, I
    <2>3. Cardinality(I) <= c
      BY <2>1, FS_Injection
    <2> QED BY <1>1, <2>2, <2>3, SMTT(40)
  <1> HIDE DEF c
  <1>3. PICK k \in B : \A j \in B : k <= j
    <2>1. B \subseteq Nat
      BY <1>1, SMTT(40)
    <2> HIDE DEF B
    <2> QED BY <1>2, <2>1, SmallestNumber, ZenonT(40)
  <1>4. k \in I /\ <<a, k>> \notin skipped /\ \A i \in n + 1..k - 1 : <<a, i>> \in skipped
    <2>1. k \in I /\ <<a, k>> \notin skipped
      BY SMTT(40)
    <2>2. ASSUME NEW i \in n + 1..k - 1, <<a, i>> \notin skipped PROVE FALSE
      <3>1. i \in I /\ i < k
        BY <1>1, <2>1, SMTT(40)
      <3>2. i \in B
        BY <2>2, <3>1, SMTT(40)
      <3> QED BY <1>1, <1>3, <2>1, <3>1, <3>2, SMTT(40)
    <2> QED BY <2>1, <2>2, SMTT(40)
  <1>5. m \in I /\ <<a, m>> \notin skipped /\ \A i \in n + 1..m - 1 : <<a, i>> \in skipped
    BY <1>4, ZenonT(40) DEF Unblocked, c
  <1>6. m \in Nat /\ m > n
    BY <1>1, <1>5, SMTT(40)
  <1> QED BY <1>5, <1>6, SMTT(40)

(***************************************************************************)
(* What a walk has drawn with its first i draws.                           *)
(***************************************************************************)
Drawn(result, i) == {result[j] : j \in 1..i}

(***************************************************************************)
(* The shape of a walk's result, and what it may hold once the keys V have *)
(* been visited: nothing twice, and nothing that is in progress.           *)
(***************************************************************************)
Draws(max_txns, exclude, batch, V) ==
    /\ batch = [result |-> batch.result, skipped |-> batch.skipped]
    /\ batch.result \in Seq(Nat \X Nat)
    /\ Len(batch.result) <= max_txns
    /\ \A i, j \in 1..Len(batch.result) : batch.result[i] = batch.result[j] => i = j
    /\ IsFiniteSet(batch.skipped)
    /\ \A i \in 1..Len(batch.result) : batch.result[i] \notin batch.skipped
    /\ \A i \in 1..Len(batch.result) :
           \E k \in V : k.hash \notin exclude /\ batch.result[i] = Pair(k)
    /\ \A p \in batch.skipped : \E k \in V : k.hash \notin exclude /\ p = Pair(k)

(***************************************************************************)
(* Each draw is in sequence after the ones before it.                      *)
(***************************************************************************)
Follows(st, exclude, result) ==
    \A i \in 1..Len(result), a, n \in Nat :
        result[i] = <<a, n>> => InSequence(st, exclude, Drawn(result, i - 1), a, n)

(***************************************************************************)
(* As long as there is room, what was visited is drawn, or skipped and     *)
(* still not in sequence.                                                  *)
(***************************************************************************)
LeavesNothing(st, max_txns, exclude, batch, V) ==
    Len(batch.result) < max_txns =>
        /\ \A k \in V : \/ k.hash \in exclude
                        \/ Pair(k) \in Drawn(batch.result, Len(batch.result))
                        \/ Pair(k) \in batch.skipped
        /\ \A a, n \in Nat : <<a, n>> \in batch.skipped =>
               ~InSequence(st, exclude, Drawn(batch.result, Len(batch.result)), a, n)

(***************************************************************************)
(* What could have been drawn at once is outranked by all that was drawn   *)
(* before it.                                                              *)
(***************************************************************************)
ByPriority(st, exclude, result) ==
    \A i \in 1..Len(result), k, l \in st.priority :
        /\ Pair(l) = result[i] /\ k.hash \notin exclude
        /\ InSequence(st, exclude, {}, k.hash.sender, k.hash.seq)
        /\ Pair(k) \notin Drawn(result, i)
        => Outranks(l, k)

(***************************************************************************)
(* A walk that has visited the keys V.                                     *)
(***************************************************************************)
Walked(st, max_txns, exclude, batch, V) ==
    /\ Draws(max_txns, exclude, batch, V)
    /\ Follows(st, exclude, batch.result)
    /\ LeavesNothing(st, max_txns, exclude, batch, V)
    /\ ByPriority(st, exclude, batch.result)

(***************************************************************************)
(* What follows what was drawn earlier also follows what is drawn by now.  *)
(***************************************************************************)
LEMMA MoreDrawn ==
  ASSUME NEW st, NEW exclude, NEW D, NEW E, D \subseteq E, NEW a, NEW n,
         InSequence(st, exclude, D, a, n)
  PROVE  InSequence(st, exclude, E, a, n)
  BY Zenon DEF InSequence

(***************************************************************************)
(* The keys W are the first of the queue.                                  *)
(***************************************************************************)
Lead(st, W) ==
    W \subseteq st.priority /\ \A l \in W, k \in st.priority \ W : Outranks(l, k)

(***************************************************************************)
(* A turn that draws the transaction of key k0, and t - 1 skipped ones     *)
(* that follow it. The run ends at the limit, or where nothing skipped     *)
(* follows it (mempool.rs:425-444).                                        *)
(***************************************************************************)
Takes(st, max_txns, exclude, batch, k0, t, new) ==
    LET L == Len(batch.result)
        a == k0.hash.sender
        n == k0.hash.seq
    IN  /\ k0.hash \notin exclude
        /\ InSequence(st, exclude, Drawn(batch.result, L), a, n)
        /\ t \in Nat /\ t > 0 /\ L + t <= max_txns
        /\ \A i \in 1..t - 1 : <<a, n + i>> \in batch.skipped
        /\ L + t < max_txns => <<a, n + t>> \notin batch.skipped
        /\ new = [result |-> new.result, skipped |-> new.skipped]
        /\ new.result \in Seq(Nat \X Nat) /\ Len(new.result) = L + t
        /\ \A i \in 1..L : new.result[i] = batch.result[i]
        /\ \A i \in 1..t : new.result[L + i] = <<a, n + i - 1>>
        /\ new.skipped = batch.skipped \ {<<a, n + i - 1>> : i \in 1..t}

(***************************************************************************)
(* Such a turn keeps the walk as it should be.                             *)
(***************************************************************************)
LEMMA TakeKeeps ==
  ASSUME NEW st, PriorityKeys(st), NEW max_txns \in Nat, NEW exclude, NEW batch,
         NEW V, Walked(st, max_txns, exclude, batch, V),
         NEW k0 \in st.priority, k0 \notin V, Lead(st, V \cup {k0}),
         NEW t, NEW new, Takes(st, max_txns, exclude, batch, k0, t, new)
  PROVE  Walked(st, max_txns, exclude, new, V \cup {k0})
  <1> DEFINE res == batch.result
             r == new.result
             old == batch.skipped
             L == Len(res)
             a == k0.hash.sender
             n == k0.hash.seq
             d(i) == <<a, n + i - 1>>
             T == {d(i) : i \in 1..t}
             U == V \cup {k0}
  <1>0. t \in Nat /\ t > 0 /\ L + t <= max_txns
    BY Zenon DEF Takes
  <1>1. /\ k0.hash \notin exclude
        /\ InSequence(st, exclude, Drawn(res, L), a, n)
        /\ \A i \in 1..t - 1 : <<a, n + i>> \in old
        /\ L + t < max_txns => <<a, n + t>> \notin old
        /\ new = [result |-> r, skipped |-> new.skipped]
        /\ r \in Seq(Nat \X Nat) /\ Len(r) = L + t
        /\ \A i \in 1..L : r[i] = res[i]
        /\ \A i \in 1..t : r[L + i] = d(i)
        /\ new.skipped = old \ T
    BY ZenonT(40) DEF Takes
  <1>2. /\ Draws(max_txns, exclude, batch, V) /\ Follows(st, exclude, res)
        /\ LeavesNothing(st, max_txns, exclude, batch, V) /\ ByPriority(st, exclude, res)
    BY ZenonT(40) DEF Walked
  <1>3. /\ \A i, j \in 1..L : res[i] = res[j] => i = j
        /\ IsFiniteSet(old)
        /\ \A i \in 1..L : res[i] \notin old
        /\ \A i \in 1..L : \E k \in V : k.hash \notin exclude /\ res[i] = Pair(k)
        /\ \A p \in old : \E k \in V : k.hash \notin exclude /\ p = Pair(k)
    BY <1>2, ZenonT(40) DEF Draws
  <1>4. /\ L < max_txns => \A k \in V : k.hash \in exclude \/ Pair(k) \in Drawn(res, L)
                                        \/ Pair(k) \in old
        /\ L < max_txns => \A b, c \in Nat :
               <<b, c>> \in old => ~InSequence(st, exclude, Drawn(res, L), b, c)
    BY <1>2, ZenonT(40) DEF LeavesNothing
  <1>5. L \in Nat /\ a \in Nat /\ n \in Nat /\ Pair(k0) = <<a, n>>
    BY <1>2, SMTT(40) DEF PriorityKeys, Draws, Pair
  <1>6. V \subseteq st.priority /\ \A l \in U, k \in st.priority \ U : Outranks(l, k)
    BY ZenonT(40) DEF Lead
  <1>7. \A k, l \in st.priority : Pair(k) = Pair(l) => k = l
    BY ZenonT(40) DEF PriorityKeys
  <1> HIDE DEF res, r, old, L, a, n
  <1>8. \A x, y \in Nat : d(x) = d(y) => x = y
    BY <1>5, SMTT(40)
  <1>9. d(1) = <<a, n>> /\ 1 \in 1..t
    BY <1>0, <1>5, SMTT(40)
  <1>10. ASSUME NEW i \in 1..t PROVE d(i) = <<a, n>> \/ d(i) \in old
    <2>1. CASE i = 1
      BY <1>9, <2>1, SMTT(40)
    <2>2. CASE i # 1
      <3>1. i - 1 \in 1..t - 1 /\ n + (i - 1) = n + i - 1
        BY <1>0, <1>5, <2>2, SMTT(40)
      <3> QED BY <1>1, <3>1, ZenonT(40)
    <2> QED BY <2>1, <2>2, SMTT(40)
  <1>11. \A c : d(c) = <<a, n + c - 1>>
    OBVIOUS
  <1> HIDE DEF d
  <1>12. ASSUME NEW k \in V PROVE Pair(k) # <<a, n>>
    BY <1>5, <1>6, <1>7, ZenonT(40)
  <1>13. ASSUME NEW j \in 1..L, NEW i \in 1..t PROVE res[j] # d(i)
    BY <1>3, <1>10, <1>12, ZenonT(40)
  <1>14. ASSUME NEW i \in 1..L + t, i \notin 1..L
         PROVE  \E x \in 1..t : i = L + x /\ r[i] = d(x)
    <2>1. i - L \in 1..t /\ i = L + (i - L)
      BY <1>0, <1>5, <1>14, SMTT(40)
    <2> QED BY <1>1, <2>1, ZenonT(40)
  <1>15. Draws(max_txns, exclude, new, U)
    <2>1. ASSUME NEW i \in 1..L + t, NEW j \in 1..L + t, r[i] = r[j] PROVE i = j
      <3>1. CASE i \in 1..L /\ j \in 1..L
        <4>1. r[i] = res[i] /\ r[j] = res[j]
          BY <1>1, <3>1, ZenonT(40)
        <4> QED BY <1>3, <2>1, <3>1, <4>1, ZenonT(40)
      <3>2. CASE i \in 1..L /\ j \notin 1..L
        <4>1. r[i] = res[i]
          BY <1>1, <3>2, ZenonT(40)
        <4>2. PICK x \in 1..t : r[j] = d(x)
          BY <1>14, <3>2, ZenonT(40)
        <4> QED BY <1>13, <2>1, <3>2, <4>1, <4>2, ZenonT(40)
      <3>3. CASE i \notin 1..L /\ j \in 1..L
        <4>1. r[j] = res[j]
          BY <1>1, <3>3, ZenonT(40)
        <4>2. PICK x \in 1..t : r[i] = d(x)
          BY <1>14, <3>3, ZenonT(40)
        <4> QED BY <1>13, <2>1, <3>3, <4>1, <4>2, ZenonT(40)
      <3>4. CASE i \notin 1..L /\ j \notin 1..L
        <4>1. PICK x \in 1..t : i = L + x /\ r[i] = d(x)
          BY <1>14, <3>4, ZenonT(40)
        <4>2. PICK y \in 1..t : j = L + y /\ r[j] = d(y)
          BY <1>14, <3>4, ZenonT(40)
        <4>3. x \in Nat /\ y \in Nat
          BY <1>0, SMTT(40)
        <4>4. x = y
          BY <1>8, <2>1, <4>1, <4>2, <4>3, ZenonT(40)
        <4> QED BY <4>1, <4>2, <4>4, ZenonT(40)
      <3> QED BY <3>1, <3>2, <3>3, <3>4, SMTT(40)
    <2>2. IsFiniteSet(new.skipped)
      <3>1. new.skipped \subseteq old
        BY <1>1, ZenonT(40)
      <3> QED BY <1>3, <3>1, FewerMembers, SMTT(40)
    <2>3. ASSUME NEW i \in 1..L + t
          PROVE  /\ r[i] \notin new.skipped
                 /\ \E k \in U : k.hash \notin exclude /\ r[i] = Pair(k)
      <3>1. CASE i \in 1..L
        <4>1. r[i] = res[i] /\ r[i] \notin old
          BY <1>1, <1>3, <3>1, Zenon
        <4> QED BY <1>1, <1>3, <3>1, <4>1, ZenonT(40)
      <3>2. CASE i \notin 1..L
        <4>1. PICK x \in 1..t : r[i] = d(x)
          BY <1>14, <3>2, ZenonT(40)
        <4>2. r[i] \in T /\ (r[i] = <<a, n>> \/ r[i] \in old)
          BY <1>10, <4>1, ZenonT(40)
        <4>3. \E k \in U : k.hash \notin exclude /\ r[i] = Pair(k)
          BY <1>1, <1>3, <1>5, <4>2, ZenonT(40)
        <4> QED BY <1>1, <4>2, <4>3, ZenonT(40)
      <3> QED BY <3>1, <3>2, SMTT(40)
    <2>4. ASSUME NEW p \in new.skipped
          PROVE  \E k \in U : k.hash \notin exclude /\ p = Pair(k)
      BY <1>1, <1>3, ZenonT(40)
    <2> QED BY <1>0, <1>1, <2>1, <2>2, <2>3, <2>4, ZenonT(40) DEF Draws, r
  <1>16. ASSUME NEW i \in 0..L PROVE Drawn(r, i) = Drawn(res, i)
    <2>1. \A j \in 1..i : j \in 1..L
      BY <1>5, SMTT(40)
    <2>2. \A j \in 1..i : r[j] = res[j]
      BY <1>1, <2>1, ZenonT(40)
    <2> QED BY <2>2, ZenonT(40) DEF Drawn
  <1>17. Drawn(r, L + t) = Drawn(res, L) \cup T
    <2>1. ASSUME NEW p \in Drawn(r, L + t) PROVE p \in Drawn(res, L) \cup T
      <3>1. PICK i \in 1..L + t : p = r[i]
        BY ZenonT(40) DEF Drawn
      <3>2. CASE i \in 1..L
        BY <1>1, <3>1, <3>2, ZenonT(40) DEF Drawn
      <3>3. CASE i \notin 1..L
        BY <1>14, <3>1, <3>3, ZenonT(40)
      <3> QED BY <3>2, <3>3, SMTT(40)
    <2>2. ASSUME NEW p \in Drawn(res, L) PROVE p \in Drawn(r, L + t)
      <3>1. \A j \in 1..L : j \in 1..L + t
        BY <1>0, <1>5, SMTT(40)
      <3> QED BY <1>1, <3>1, ZenonT(40) DEF Drawn
    <2>3. ASSUME NEW p \in T PROVE p \in Drawn(r, L + t)
      <3>1. \A x \in 1..t : L + x \in 1..L + t
        BY <1>0, <1>5, SMTT(40)
      <3> QED BY <1>1, <3>1, ZenonT(40) DEF Drawn
    <2> QED BY <2>1, <2>2, <2>3, ZenonT(40)
  <1>18. Follows(st, exclude, r)
    <2> SUFFICES ASSUME NEW i \in 1..L + t, NEW b \in Nat, NEW c \in Nat, r[i] = <<b, c>>
                 PROVE  InSequence(st, exclude, Drawn(r, i - 1), b, c)
      BY <1>1, ZenonT(40) DEF Follows
    <2>1. CASE i \in 1..L
      <3>1. i - 1 \in 0..L
        BY <1>5, <2>1, SMTT(40)
      <3>2. Drawn(r, i - 1) = Drawn(res, i - 1)
        BY <1>16, <3>1, ZenonT(40)
      <3>3. res[i] = <<b, c>>
        BY <1>1, <2>1, ZenonT(40)
      <3> QED BY <1>2, <2>1, <3>2, <3>3, ZenonT(40) DEF Follows, L
    <2>2. CASE i \notin 1..L
      <3>1. PICK x \in 1..t : i = L + x /\ r[i] = d(x)
        BY <1>14, <2>2, ZenonT(40)
      <3>2. b = a /\ c = n + x - 1
        BY <1>11, <3>1, SMTT(40)
      <3>3. CASE x = 1
        <4>1. i - 1 = L /\ L \in 0..L /\ c = n
          BY <1>5, <3>1, <3>2, <3>3, SMTT(40)
        <4> QED BY <1>1, <1>16, <3>2, <4>1, ZenonT(40)
      <3>4. CASE x # 1
        <4>1. x \in Nat /\ x > 1 /\ x <= t
          BY <1>0, <3>4, SMTT(40)
        <4>2. i - 1 = L + (x - 1) /\ x - 1 \in 1..t
          BY <1>0, <1>5, <3>1, <4>1, SMTT(40)
        <4>3. i - 1 \in 1..i - 1
          BY <1>5, <3>1, <4>1, SMTT(40)
        <4>4. c > 0 /\ n + (x - 1) - 1 = c - 1
          BY <1>5, <3>2, <4>1, SMTT(40)
        <4>5. r[i - 1] = <<a, c - 1>>
          BY <1>1, <1>11, <4>2, <4>4, ZenonT(40)
        <4>6. <<a, c - 1>> \in Drawn(r, i - 1)
          BY <4>3, <4>5, ZenonT(40) DEF Drawn
        <4> QED BY <3>2, <4>4, <4>6, ZenonT(40) DEF InSequence
      <3> QED BY <3>3, <3>4, ZenonT(40)
    <2> QED BY <2>1, <2>2, ZenonT(40)
  <1>19. LeavesNothing(st, max_txns, exclude, new, U)
    <2> SUFFICES ASSUME L + t < max_txns
                 PROVE  /\ \A k \in U : \/ k.hash \in exclude
                                        \/ Pair(k) \in Drawn(res, L) \cup T
                                        \/ Pair(k) \in new.skipped
                        /\ \A b, c \in Nat : <<b, c>> \in new.skipped =>
                               ~InSequence(st, exclude, Drawn(res, L) \cup T, b, c)
      BY <1>1, <1>17, ZenonT(40) DEF LeavesNothing, r
    <2>1. L < max_txns
      BY <1>0, <1>5
    <2>2. ASSUME NEW k \in U
          PROVE  \/ k.hash \in exclude
                 \/ Pair(k) \in Drawn(res, L) \cup T
                 \/ Pair(k) \in new.skipped
      <3>1. CASE k = k0
        BY <1>5, <1>9, <3>1, Zenon
      <3>2. CASE k \in V
        BY <1>1, <1>4, <2>1, <3>2, Zenon
      <3> QED BY <3>1, <3>2, Zenon
    <2>3. ASSUME NEW b \in Nat, NEW c \in Nat, <<b, c>> \in new.skipped,
                 InSequence(st, exclude, Drawn(res, L) \cup T, b, c)
          PROVE  FALSE
      <3>1. <<b, c>> \in old /\ <<b, c>> \notin T
        BY <1>1, <2>3, ZenonT(40)
      <3>2. ~InSequence(st, exclude, Drawn(res, L), b, c)
        BY <1>4, <2>1, <3>1, ZenonT(40)
      <3>3. c > 0 /\ <<b, c - 1>> \in T
        BY <2>3, <3>2, ZenonT(40) DEF InSequence
      <3>4. PICK x \in 1..t : <<b, c - 1>> = <<a, n + x - 1>>
        BY <1>11, <3>3, ZenonT(40)
      <3>5. b = a /\ c - 1 = n + x - 1 /\ x \in Nat
        BY <1>0, <3>4, SMTT(40)
      <3>6. c = n + x
        BY <1>5, <3>5, SMTT(40)
      <3>7. CASE x = t
        BY <1>1, <3>1, <3>5, <3>6, <3>7, ZenonT(40)
      <3>8. CASE x # t
        <4>1. x + 1 \in 1..t /\ c = n + (x + 1) - 1
          BY <1>0, <1>5, <3>6, <3>8, SMTT(40)
        <4>2. d(x + 1) = <<b, c>>
          BY <1>11, <3>5, <4>1, ZenonT(40)
        <4> QED BY <3>1, <4>1, <4>2, ZenonT(40)
      <3> QED BY <3>7, <3>8, SMTT(40)
    <2> QED BY <2>2, <2>3, ZenonT(40)
  <1>20. ByPriority(st, exclude, r)
    <2> SUFFICES ASSUME NEW i \in 1..L + t, NEW k \in st.priority, NEW l \in st.priority,
                        Pair(l) = r[i], k.hash \notin exclude,
                        InSequence(st, exclude, {}, k.hash.sender, k.hash.seq),
                        Pair(k) \notin Drawn(r, i)
                 PROVE  Outranks(l, k)
      BY <1>1, ZenonT(40) DEF ByPriority
    <2>1. CASE i \in 1..L
      <3>1. i \in 0..L
        BY <1>5, <2>1, SMTT(40)
      <3>2. Drawn(r, i) = Drawn(res, i) /\ r[i] = res[i]
        BY <1>1, <1>16, <2>1, <3>1, ZenonT(40)
      <3>3. Pair(k) \notin Drawn(res, i) /\ Pair(l) = res[i]
        BY <3>2, ZenonT(40)
      <3> QED BY <1>2, <2>1, <3>3, ZenonT(40) DEF ByPriority, L
    <2>2. CASE i \notin 1..L
      <3>1. PICK x \in 1..t : i = L + x /\ r[i] = d(x)
        BY <1>14, <2>2, ZenonT(40)
      <3>2. l \in U
        <4>1. Pair(l) = Pair(k0) \/ Pair(l) \in old
          BY <1>5, <1>10, <3>1, ZenonT(40)
        <4>2. ASSUME Pair(l) \in old PROVE l \in V
          BY <1>3, <1>6, <1>7, <4>2, ZenonT(40)
        <4> QED BY <1>7, <4>1, <4>2, ZenonT(40)
      <3>3. Pair(k) \notin Drawn(res, L) /\ Pair(k) # <<a, n>>
        <4>1. \A j \in 1..L : j \in 1..i
          BY <1>0, <1>5, <3>1, SMTT(40)
        <4>2. L + 1 \in 1..i
          BY <1>0, <1>5, <3>1, SMTT(40)
        <4>3. r[L + 1] = <<a, n>>
          BY <1>1, <1>9, ZenonT(40)
        <4>4. Pair(k) # <<a, n>>
          BY <4>2, <4>3, ZenonT(40) DEF Drawn
        <4>5. Pair(k) \notin Drawn(res, L)
          BY <1>1, <4>1, ZenonT(40) DEF Drawn
        <4> QED BY <4>4, <4>5, ZenonT(40)
      <3>4. ASSUME k \in V PROVE FALSE
        <4>1. L < max_txns
          BY <1>0, <1>5, SMTT(40)
        <4>2. Pair(k) \in old
          BY <1>4, <3>3, <3>4, <4>1, ZenonT(40)
        <4>3. /\ Pair(k) = <<k.hash.sender, k.hash.seq>>
              /\ k.hash.sender \in Nat /\ k.hash.seq \in Nat
          BY ZenonT(40) DEF PriorityKeys, Pair
        <4>4. ~InSequence(st, exclude, Drawn(res, L), k.hash.sender, k.hash.seq)
          BY <1>4, <4>1, <4>2, <4>3, ZenonT(40)
        <4>5. {} \subseteq Drawn(res, L)
          BY ZenonT(40)
        <4> QED BY <4>4, <4>5, MoreDrawn, ZenonT(40)
      <3>5. k # k0
        BY <1>5, <3>3, ZenonT(40)
      <3>6. k \in st.priority \ U
        BY <3>4, <3>5, ZenonT(40)
      <3> QED BY <1>6, <3>2, <3>6, ZenonT(40)
    <2> QED BY <2>1, <2>2, ZenonT(40)
  <1> QED BY <1>15, <1>18, <1>19, <1>20, ZenonT(40) DEF Walked, r

(***************************************************************************)
(* A turn that skips the transaction of key k0, which is not in sequence,  *)
(* keeps the walk as it should be (mempool.rs:445-447).                    *)
(***************************************************************************)
LEMMA SkipKeeps ==
  ASSUME NEW st, PriorityKeys(st), NEW max_txns, NEW exclude, NEW batch,
         NEW V, Walked(st, max_txns, exclude, batch, V),
         NEW k0 \in st.priority, k0 \notin V, Lead(st, V \cup {k0}),
         k0.hash \notin exclude,
         ~InSequence(st, exclude, Drawn(batch.result, Len(batch.result)),
                     k0.hash.sender, k0.hash.seq),
         NEW new, new = [result |-> batch.result, skipped |-> batch.skipped \cup {Pair(k0)}]
  PROVE  Walked(st, max_txns, exclude, new, V \cup {k0})
  <1> DEFINE res == batch.result
             old == batch.skipped
             L == Len(res)
             U == V \cup {k0}
  <1>1. new.result = res /\ new.skipped = old \cup {Pair(k0)}
        /\ new = [result |-> new.result, skipped |-> new.skipped]
    BY ZenonT(40)
  <1>2. /\ Draws(max_txns, exclude, batch, V) /\ Follows(st, exclude, res)
        /\ LeavesNothing(st, max_txns, exclude, batch, V) /\ ByPriority(st, exclude, res)
    BY ZenonT(40) DEF Walked
  <1>3. Draws(max_txns, exclude, new, U)
    <2>1. /\ res \in Seq(Nat \X Nat) /\ Len(res) <= max_txns
          /\ \A i, j \in 1..Len(res) : res[i] = res[j] => i = j
      BY <1>2, ZenonT(40) DEF Draws
    <2>2. IsFiniteSet(old \cup {Pair(k0)})
      <3>1. IsFiniteSet(old)
        BY <1>2, ZenonT(40) DEF Draws
      <3> QED BY <3>1, FS_AddElement, ZenonT(40)
    <2>3. /\ \A i \in 1..L : \E k \in V : k.hash \notin exclude /\ res[i] = Pair(k)
          /\ \A i \in 1..L : res[i] \notin old
          /\ \A p \in old : \E k \in V : k.hash \notin exclude /\ p = Pair(k)
      BY <1>2, ZenonT(40) DEF Draws
    <2>4. \A k \in V : Pair(k) # Pair(k0)
      BY ZenonT(40) DEF Lead, PriorityKeys
    <2>5. /\ \A i \in 1..L : res[i] \notin old \cup {Pair(k0)}
          /\ \A i \in 1..L : \E k \in U : k.hash \notin exclude /\ res[i] = Pair(k)
      BY <2>3, <2>4, ZenonT(40)
    <2>6. \A p \in old \cup {Pair(k0)} : \E k \in U : k.hash \notin exclude /\ p = Pair(k)
      BY <2>3, Zenon
    <2> QED BY <1>1, <2>1, <2>2, <2>5, <2>6, ZenonT(40) DEF Draws
  <1>4. LeavesNothing(st, max_txns, exclude, new, U)
    <2> SUFFICES ASSUME L < max_txns
                 PROVE  /\ \A k \in U : \/ k.hash \in exclude
                                        \/ Pair(k) \in Drawn(res, L)
                                        \/ Pair(k) \in old \cup {Pair(k0)}
                        /\ \A a, n \in Nat : <<a, n>> \in old \cup {Pair(k0)} =>
                               ~InSequence(st, exclude, Drawn(res, L), a, n)
      BY <1>1, ZenonT(40) DEF LeavesNothing
    <2>1. /\ \A k \in V : k.hash \in exclude \/ Pair(k) \in Drawn(res, L) \/ Pair(k) \in old
          /\ \A a, n \in Nat : <<a, n>> \in old =>
                 ~InSequence(st, exclude, Drawn(res, L), a, n)
      BY <1>2, ZenonT(40) DEF LeavesNothing
    <2>2. ASSUME NEW a \in Nat, NEW n \in Nat, <<a, n>> = Pair(k0)
          PROVE  ~InSequence(st, exclude, Drawn(res, L), a, n)
      <3>1. a = k0.hash.sender /\ n = k0.hash.seq
        BY <2>2, ZenonT(40) DEF Pair
      <3> QED BY <3>1, ZenonT(40)
    <2> QED BY <2>1, <2>2, ZenonT(40)
  <1>5. Follows(st, exclude, new.result) /\ ByPriority(st, exclude, new.result)
    BY <1>1, <1>2, ZenonT(40)
  <1> QED BY <1>3, <1>4, <1>5, ZenonT(40) DEF Walked

(***************************************************************************)
(* One turn of get_batch's loop keeps the walk as it should be             *)
(* (mempool.rs:415-448).                                                   *)
(***************************************************************************)
LEMMA VisitKeeps ==
  ASSUME NEW st, PriorityKeys(st), NEW max_txns \in Nat, NEW exclude, NEW batch,
         NEW V, Walked(st, max_txns, exclude, batch, V),
         NEW k0 \in st.priority, k0 \notin V, Lead(st, V \cup {k0})
  PROVE  Walked(st, max_txns, exclude, Visit(st, max_txns, exclude, batch, k0), V \cup {k0})
  <1> DEFINE res == batch.result
             old == batch.skipped
             L == Len(res)
             a == k0.hash.sender
             n == k0.hash.seq
             room == max_txns - L
             m == Unblocked(old, a, n)
             run == m - n
             t == IF run < room THEN run ELSE room
             taken == [i \in 1..t |-> <<a, n + i - 1>>]
             next == Visit(st, max_txns, exclude, batch, k0)
  <1>1. Draws(max_txns, exclude, batch, V)
    BY ZenonT(40) DEF Walked
  <1>2. /\ batch = [result |-> res, skipped |-> old] /\ res \in Seq(Nat \X Nat)
        /\ IsFiniteSet(old) /\ L <= max_txns
    BY <1>1, ZenonT(40) DEF Draws
  <1>3. L \in Nat /\ a \in Nat /\ n \in Nat /\ Pair(k0) = <<a, n>>
    BY <1>2 DEF PriorityKeys, Pair
  <1>4. Range(res) = Drawn(res, L)
    <2>1. DOMAIN res = 1..L
      BY <1>2
    <2> QED BY <2>1, ZenonT(40) DEF Range, Drawn
  <1>5. next = IF room = 0 \/ k0.hash \in exclude THEN batch
               ELSE IF InSequence(st, exclude, Range(res), a, n)
               THEN [result |-> res \o taken, skipped |-> old \ Range(taken)]
               ELSE [batch EXCEPT !.skipped = @ \cup {<<a, n>>}]
    BY Zenon DEF Visit
  <1>6. CASE room = 0 \/ k0.hash \in exclude
    <2>1. next = batch
      BY <1>5, <1>6, ZenonT(40)
    <2>2. Draws(max_txns, exclude, batch, V \cup {k0})
      BY <1>1, ZenonT(40) DEF Draws
    <2>3. room = 0 => ~(L < max_txns)
      BY <1>3, SMTT(40)
    <2>4. LeavesNothing(st, max_txns, exclude, batch, V \cup {k0})
      BY <1>6, <2>3, ZenonT(40) DEF LeavesNothing, Walked
    <2>5. Walked(st, max_txns, exclude, batch, V \cup {k0})
      BY <2>2, <2>4, ZenonT(40) DEF Walked
    <2> QED BY <2>1, <2>5, ZenonT(40)
  <1>7. CASE /\ ~(room = 0 \/ k0.hash \in exclude)
             /\ ~InSequence(st, exclude, Range(res), a, n)
    <2>1. next = [batch EXCEPT !.skipped = @ \cup {<<a, n>>}]
      BY <1>5, <1>7, ZenonT(40)
    <2>2. next = [result |-> res, skipped |-> old \cup {Pair(k0)}]
      <3> HIDE DEF next, res, old
      <3> QED BY <1>2, <1>3, <2>1, Zenon
    <2>3. ~InSequence(st, exclude, Drawn(res, L), a, n) /\ k0.hash \notin exclude
      BY <1>4, <1>7, Zenon
    <2> HIDE DEF next
    <2>4. Walked(st, max_txns, exclude, next, V \cup {k0})
      BY <2>2, <2>3, SkipKeeps, ZenonT(40)
    <2> QED BY <2>4, ZenonT(40) DEF next
  <1>8. CASE /\ ~(room = 0 \/ k0.hash \in exclude)
             /\ InSequence(st, exclude, Range(res), a, n)
    <2>1. next = [result |-> res \o taken, skipped |-> old \ Range(taken)]
      BY <1>5, <1>8, Zenon
    <2>2. m \in Nat /\ m > n /\ <<a, m>> \notin old
          /\ \A i \in n + 1..m - 1 : <<a, i>> \in old
      <3> HIDE DEF a, n, old
      <3> QED BY <1>2, <1>3, UnblockedStops
    <2> HIDE DEF m, next, res, old, a, n, L
    <2>3. room \in Nat /\ room # 0
      BY <1>2, <1>3, <1>8, SMTT(40)
    <2>4. run \in Nat /\ run > 0
      BY <1>3, <2>2, SMTT(40)
    <2>5. /\ t \in Nat /\ t > 0 /\ t <= run /\ t <= room /\ (t < room => t = run)
      BY <2>3, <2>4, SMTT(40)
    <2> HIDE DEF t
    <2>6. /\ taken \in Seq(Nat \X Nat) /\ Len(taken) = t /\ DOMAIN taken = 1..t
      BY <1>3, <2>5, SMTT(40)
    <2>7. /\ res \o taken \in Seq(Nat \X Nat) /\ Len(res \o taken) = L + t
          /\ \A i \in 1..L : (res \o taken)[i] = res[i]
          /\ \A i \in 1..t : (res \o taken)[L + i] = taken[i]
      <3> HIDE DEF taken
      <3>1. res \o taken \in Seq(Nat \X Nat)
        BY <1>2, <2>6
      <3>2. Len(res \o taken) = L + t
        <4>1. res \in Seq(Nat \X Nat) /\ taken \in Seq(Nat \X Nat)
          BY <1>2, <2>6, ZenonT(40)
        <4>2. Len(res \o taken) = Len(res) + Len(taken)
          BY <4>1, SMTT(40)
        <4> QED BY <2>6, <4>2, SMTT(40) DEF L
      <3>3. ASSUME NEW i \in 1..L PROVE (res \o taken)[i] = res[i]
        BY <1>2, <1>3, <2>5, <2>6, SMTT(40) DEF L
      <3>4. ASSUME NEW i \in 1..t PROVE (res \o taken)[L + i] = taken[i]
        <4>1. i \in Nat /\ i > 0 /\ i <= t /\ L + i - L = i
          BY <1>3, <2>5, SMTT(40)
        <4> QED BY <1>2, <1>3, <2>5, <2>6, <4>1, SMTT(40) DEF L
      <3> QED BY <3>1, <3>2, <3>3, <3>4, ZenonT(40)
    <2>8. \A i \in 1..t : (res \o taken)[L + i] = <<a, n + i - 1>>
      BY <2>7, ZenonT(40)
    <2>9. Range(taken) = {<<a, n + i - 1>> : i \in 1..t}
      BY <2>6, Zenon DEF Range
    <2> HIDE DEF taken
    <2>10. next.result = res \o taken /\ next.skipped = old \ Range(taken)
           /\ next = [result |-> next.result, skipped |-> next.skipped]
      BY <2>1, ZenonT(40)
    <2>11. L + t <= max_txns
      BY <1>3, <2>5
    <2>12. \A i \in 1..t - 1 : <<a, n + i>> \in old
      <3>1. \A i \in 1..t - 1 : n + i \in n + 1..m - 1
        BY <1>3, <2>2, <2>5, SMTT(40)
      <3> QED BY <2>2, <3>1, ZenonT(40)
    <2>13. L + t < max_txns => <<a, n + t>> \notin old
      <3>1. L + t < max_txns => n + t = m
        BY <1>3, <2>2, <2>5, SMTT(40)
      <3> QED BY <2>2, <3>1, ZenonT(40)
    <2>14. Takes(st, max_txns, exclude, batch, k0, t, next)
      <3>1. k0.hash \notin exclude /\ InSequence(st, exclude, Drawn(res, L), a, n)
        BY <1>4, <1>8, ZenonT(40)
      <3>2. /\ next.result \in Seq(Nat \X Nat) /\ Len(next.result) = L + t
            /\ \A i \in 1..L : next.result[i] = res[i]
            /\ \A i \in 1..t : next.result[L + i] = <<a, n + i - 1>>
            /\ next.skipped = old \ {<<a, n + i - 1>> : i \in 1..t}
        BY <2>7, <2>8, <2>9, <2>10, ZenonT(40)
      <3>3. next = [result |-> next.result, skipped |-> next.skipped]
        BY <2>10, ZenonT(40)
      <3> QED BY <2>5, <2>11, <2>12, <2>13, <3>1, <3>2, <3>3, ZenonT(40)
              DEF Takes, res, old, L, a, n
    <2>15. Walked(st, max_txns, exclude, next, V \cup {k0})
      BY <2>14, TakeKeeps, ZenonT(40)
    <2> QED BY <2>15 DEF next
  <1> QED BY <1>6, <1>7, <1>8, ZenonT(40)

(***************************************************************************)
(* The states of a walk over the keys q, turn after turn.                  *)
(***************************************************************************)
IsWalk(g, st, max_txns, exclude, q, n) ==
    g = [i \in 0..n |-> IF i = 0 THEN [result |-> <<>>, skipped |-> {}]
                        ELSE Visit(st, max_txns, exclude, g[i - 1], q[i])]

(***************************************************************************)
(* The loop over the queue has such a function.                            *)
(***************************************************************************)
LEMMA WalkExists ==
  ASSUME NEW st, NEW max_txns, NEW exclude, NEW q, NEW k \in Nat
  PROVE  \E g : IsWalk(g, st, max_txns, exclude, q, k)
  <1> DEFINE Ok(g, n) == IsWalk(g, st, max_txns, exclude, q, n)
             B == {n \in Nat : ~\E g : Ok(g, n)}
             start == [result |-> <<>>, skipped |-> {}]
             After(b, i) == Visit(st, max_txns, exclude, b, q[i])
  <1>1. \A g, n : Ok(g, n)
                    <=> g = [i \in 0..n |-> IF i = 0 THEN start ELSE After(g[i - 1], i)]
    BY ZenonT(40) DEF IsWalk
  <1> HIDE DEF After, start, Ok
  <1>2. ASSUME B # {} PROVE FALSE
    <2>1. PICK n \in B : \A m \in B : n <= m
      <3>1. B \subseteq Nat
        OBVIOUS
      <3> HIDE DEF B
      <3> QED BY <1>2, <3>1, SmallestNumber, ZenonT(40)
    <2>2. n \in Nat /\ ~\E g : Ok(g, n)
      OBVIOUS
    <2>3. CASE n = 0
      <3> DEFINE g == [i \in 0..0 |-> start]
      <3>1. g = [i \in 0..0 |-> IF i = 0 THEN start ELSE After(g[i - 1], i)]
        OBVIOUS
      <3> QED BY <1>1, <2>2, <2>3, <3>1, ZenonT(40)
    <2>4. CASE n # 0
      <3>1. n - 1 \in Nat /\ n - 1 \notin B
        BY <2>1, <2>2, <2>4
      <3>2. PICK h : Ok(h, n - 1)
        BY <3>1
      <3>3. h = [i \in 0..(n - 1) |-> IF i = 0 THEN start ELSE After(h[i - 1], i)]
        BY <1>1, <3>2, Zenon
      <3> DEFINE g == [i \in 0..n |-> IF i = n THEN After(h[n - 1], n) ELSE h[i]]
      <3>4. g[0] = start
        BY <2>2, <2>4, <3>1, <3>3
      <3>5. ASSUME NEW i \in 0..n, i # 0 PROVE g[i] = After(g[i - 1], i)
        <4>1. i - 1 \in 0..n /\ i - 1 # n /\ g[i - 1] = h[i - 1]
          BY <2>2, <3>5
        <4>2. CASE i = n
          BY <2>2, <4>1, <4>2
        <4>3. CASE i # n
          <5>1. i \in 0..(n - 1)
            BY <2>2, <3>5, <4>3
          <5>2. h[i] = After(h[i - 1], i)
            BY <3>3, <3>5, <5>1, ZenonT(40)
          <5> QED BY <4>1, <4>3, <5>2
        <4> QED BY <4>2, <4>3
      <3>6. g = [i \in 0..n |-> IF i = 0 THEN start ELSE After(g[i - 1], i)]
        <4>1. g = [i \in 0..n |-> g[i]]
          OBVIOUS
        <4> HIDE DEF g
        <4> QED BY <3>4, <3>5, <4>1, ZenonT(40)
      <3> QED BY <1>1, <2>2, <3>6, ZenonT(40)
    <2> QED BY <2>3, <2>4
  <1> QED BY <1>2 DEF Ok

(***************************************************************************)
(* The whole walk is as it should be, for any limit and whatever is in     *)
(* progress in consensus (mempool.rs:389-448).                             *)
(***************************************************************************)
LEMMA WalkIsSound ==
  ASSUME NEW st, PriorityKeys(st), NEW max_txns \in Nat, NEW exclude
  PROVE  \E batch : /\ Walked(st, max_txns, exclude, batch, st.priority)
                    /\ Walk(st, max_txns, exclude) = batch.result
  <1> DEFINE q == iter_queue(st)
             N == Cardinality(st.priority)
             g == CHOOSE f : IsWalk(f, st, max_txns, exclude, q, N)
             Seen(i) == {q[j] : j \in 1..i}
             Fine(i) == Walked(st, max_txns, exclude, g[i], Seen(i))
             B == {i \in 0..N : ~Fine(i)}
  <1>1. /\ N \in Nat
        /\ \A i \in 1..N : q[i] \in st.priority
        /\ \A k \in st.priority : \E i \in 1..N : q[i] = k
        /\ \A i, j \in 1..N : i < j => Outranks(q[i], q[j])
    BY QueueIsOrdered, SMTT(40)
  <1>2. Walk(st, max_txns, exclude) = g[N].result
    BY ZenonT(40) DEF Walk, IsWalk
  <1>3. IsWalk(g, st, max_txns, exclude, q, N)
    <2> HIDE DEF N, q
    <2> QED BY <1>1, WalkExists, ZenonT(40)
  <1> HIDE DEF g, N, q
  <1>4. Fine(0)
    <2>1. g[0] = [result |-> <<>>, skipped |-> {}]
      BY <1>1, <1>3, SMTT(40) DEF IsWalk
    <2>2. /\ g[0].result = <<>> /\ g[0].skipped = {} /\ Len(<<>>) = 0
          /\ g[0] = [result |-> g[0].result, skipped |-> g[0].skipped]
          /\ <<>> \in Seq(Nat \X Nat) /\ 0 <= max_txns
      BY <2>1, SMTT(40)
    <2>3. 1..0 = {} /\ Seen(0) = {} /\ IsFiniteSet({})
      BY FS_EmptySet, SMTT(40)
    <2>4. Draws(max_txns, exclude, g[0], {})
      BY <2>2, <2>3, ZenonT(40) DEF Draws
    <2>5. LeavesNothing(st, max_txns, exclude, g[0], {})
      BY <2>2, ZenonT(40) DEF LeavesNothing
    <2>6. Follows(st, exclude, <<>>) /\ ByPriority(st, exclude, <<>>)
      BY <2>2, <2>3, ZenonT(40) DEF Follows, ByPriority
    <2> QED BY <2>2, <2>3, <2>4, <2>5, <2>6, ZenonT(40) DEF Walked
  <1>5. ASSUME NEW i \in 1..N, Fine(i - 1) PROVE Fine(i)
    <2>1. g[i] = Visit(st, max_txns, exclude, g[i - 1], q[i])
      <3>1. i \in 0..N /\ i # 0
        BY <1>1
      <3> QED BY <1>3, <3>1, ZenonT(40) DEF IsWalk
    <2>2. Seen(i) = Seen(i - 1) \cup {q[i]}
      <3>1. \A j : j \in 1..i <=> j \in 1..i - 1 \/ j = i
        BY <1>1
      <3> QED BY <3>1, ZenonT(40)
    <2>3. q[i] \notin Seen(i - 1)
      <3> SUFFICES ASSUME NEW j \in 1..i - 1, q[i] = q[j] PROVE FALSE
        BY ZenonT(40)
      <3>1. j \in 1..N /\ j < i
        BY <1>1
      <3> QED BY <1>1, <3>1, OutranksOrders, ZenonT(40)
    <2>4. Lead(st, Seen(i))
      <3>1. Seen(i) \subseteq st.priority
        <4>1. \A j \in 1..i : j \in 1..N
          BY <1>1, SMTT(40)
        <4> QED BY <1>1, <4>1, ZenonT(40)
      <3>2. ASSUME NEW l \in Seen(i), NEW k \in st.priority \ Seen(i) PROVE Outranks(l, k)
        <4>1. PICK x \in 1..i : l = q[x]
          BY ZenonT(40)
        <4>2. PICK y \in 1..N : q[y] = k
          BY <1>1, ZenonT(40)
        <4>3. y \notin 1..i
          BY <4>2, ZenonT(40)
        <4>4. x \in 1..N /\ x < y
          BY <1>1, <4>3, SMTT(40)
        <4> QED BY <1>1, <4>1, <4>2, <4>4, ZenonT(40)
      <3> QED BY <3>1, <3>2, ZenonT(40) DEF Lead
    <2>5. q[i] \in st.priority
      BY <1>1, SMTT(40)
    <2> HIDE DEF Seen
    <2>6. Walked(st, max_txns, exclude, g[i], Seen(i))
      BY <1>5, <2>1, <2>2, <2>3, <2>4, <2>5, VisitKeeps, SMTT(40)
    <2> QED BY <2>6, SMTT(40)
  <1>6. Seen(N) = st.priority
    BY <1>1, ZenonT(40)
  <1> HIDE DEF Fine
  <1>7. ASSUME B # {} PROVE FALSE
    <2>1. B \subseteq Nat
      BY <1>1, SMTT(40)
    <2>2. PICK i \in B : \A m \in B : i <= m
      <3> HIDE DEF B
      <3> QED BY <1>7, <2>1, SmallestNumber, ZenonT(40)
    <2>3. i \in 1..N
      BY <1>1, <1>4, SMTT(40)
    <2>4. i - 1 \in 0..N /\ i - 1 \notin B
      BY <1>1, <2>2, <2>3, SMTT(40)
    <2> QED BY <1>5, <2>3, <2>4, SMTT(40)
  <1>8. Fine(N)
    BY <1>1, <1>7, SMTT(40)
  <1> QED BY <1>2, <1>6, <1>8, ZenonT(40) DEF Fine

(***************************************************************************)
(* A prefix of a result holds its first draws.                             *)
(***************************************************************************)
LEMMA PrefixOfResult ==
  ASSUME NEW s \in Seq(Nat \X Nat), NEW n \in 0..Len(s), NEW p, p = SubSeq(s, 1, n)
  PROVE  /\ p \in Seq(Nat \X Nat) /\ Len(p) = n /\ DOMAIN p = 1..n
         /\ \A i \in 1..n : p[i] = s[i]
         /\ Range(p) = Drawn(s, n)
  <1>1. Len(s) \in Nat /\ n \in Nat /\ n <= Len(s)
    OBVIOUS
  <1>2. p \in Seq(Nat \X Nat) /\ Len(p) = n
    BY <1>1, SMTT(40)
  <1>3. DOMAIN p = 1..n
    BY <1>2, SMTT(40)
  <1>4. ASSUME NEW i \in 1..n PROVE p[i] = s[i]
    BY <1>1, SMTT(40)
  <1>5. Range(p) = Drawn(s, n)
    BY <1>3, <1>4, ZenonT(40) DEF Range, Drawn
  <1> QED BY <1>2, <1>3, <1>4, <1>5, ZenonT(40)

(***************************************************************************)
(* No part of a result weighs more than the store (size_bytes), and the    *)
(* empty one weighs nothing.                                               *)
(***************************************************************************)
LEMMA WeightIsBounded ==
  ASSUME NEW st, Weighed(st), NEW result \in Seq(Nat \X Nat), NEW n \in 0..Len(result)
  PROVE  /\ Weight(st, result, n) \in Nat /\ st.size_bytes \in Nat
         /\ Weight(st, result, n) <= st.size_bytes
         /\ n = 0 => Weight(st, result, n) = 0
  <1> DEFINE X == {t \in st.transactions :
                      <<t.sender, t.seq>> \in Range(SubSeq(result, 1, n))}
  <1>1. Weight(st, result, n) = estimated_bytes(X) /\ X \subseteq st.transactions
    BY ZenonT(40) DEF Weight
  <1>2. ASSUME n = 0 PROVE X = {}
    <2>1. Range(SubSeq(result, 1, n)) = Drawn(result, n)
      BY PrefixOfResult, ZenonT(40)
    <2>2. 1..n = {}
      BY <1>2
    <2> QED BY <2>1, <2>2, ZenonT(40) DEF Drawn
  <1> HIDE DEF X
  <1>3. /\ IsFiniteSet(st.transactions)
        /\ \A t \in st.transactions : Bytes[t.body] \in Nat
        /\ st.size_bytes = estimated_bytes(st.transactions)
    BY Zenon DEF Weighed
  <1>4. /\ estimated_bytes(X) \in Nat /\ estimated_bytes(st.transactions) \in Nat
        /\ estimated_bytes(X) <= estimated_bytes(st.transactions)
        /\ estimated_bytes({}) = 0
    BY <1>1, <1>3, FewerBytes, ZenonT(40)
  <1> QED BY <1>1, <1>2, <1>3, <1>4, ZenonT(40)

(***************************************************************************)
(* The byte limit and return_non_full cut the walk short and do no more    *)
(* (mempool.rs:453-526): with room for everything that is queued, all of   *)
(* it is returned.                                                         *)
(***************************************************************************)
LEMMA BatchIsPrefix ==
  ASSUME NEW st, Weighed(st), NEW max_txns, NEW max_bytes \in Nat,
         NEW return_non_full \in BOOLEAN, NEW exclude,
         NEW result \in Seq(Nat \X Nat), result = Walk(st, max_txns, exclude),
         NEW batch, batch = get_batch(st, max_txns, max_bytes, return_non_full, exclude)
  PROVE  \E f \in 0..Len(result) :
            /\ batch = SubSeq(result, 1, f)
            /\ return_non_full /\ st.size_bytes <= max_bytes => f = Len(result)
  <1> DEFINE S == {n \in 0..Len(result) : Weight(st, result, n) <= max_bytes}
             fit == Max(S)
  <1>0. Len(result) \in Nat
    OBVIOUS
  <1>1. S # {} /\ S \subseteq Nat /\ IsFiniteSet(S)
    <2>1. 0 \in S
      <3>1. 0 \in 0..Len(result)
        BY <1>0, SMTT(40)
      <3>2. Weight(st, result, 0) = 0
        BY <3>1, WeightIsBounded, SMTT(40)
      <3> QED BY <3>1, <3>2, SMTT(40)
    <2>2. S \subseteq 0..Len(result) /\ IsFiniteSet(0..Len(result))
      BY <1>0, FS_Interval, SMTT(40)
    <2>3. IsFiniteSet(S)
      <3> HIDE DEF S
      <3> QED BY <2>2, FewerMembers, Zenon
    <2>4. S \subseteq Nat
      BY <1>0
    <2> QED BY <2>1, <2>3, <2>4, ZenonT(40)
  <1>2. fit \in S /\ \A n \in S : n <= fit
    <2> HIDE DEF S
    <2> QED BY <1>1, MaxIsLargest, ZenonT(40)
  <1>3. \/ batch = SubSeq(result, 1, fit)
        \/ batch = <<>> /\ ~return_non_full
    BY Zenon DEF get_batch
  <1> HIDE DEF fit
  <1>4. ASSUME st.size_bytes <= max_bytes PROVE fit = Len(result)
    <2>1. Len(result) \in 0..Len(result)
      BY <1>0, SMTT(40)
    <2>2. /\ Weight(st, result, Len(result)) \in Nat /\ st.size_bytes \in Nat
          /\ Weight(st, result, Len(result)) <= st.size_bytes
      BY <2>1, WeightIsBounded, SMTT(40)
    <2>3. Weight(st, result, Len(result)) <= max_bytes
      BY <1>4, <2>2, SMTT(40)
    <2>4. Len(result) <= fit /\ fit \in 0..Len(result)
      BY <1>2, <2>1, <2>3, ZenonT(40)
    <2> QED BY <1>0, <2>4
  <1>5. CASE batch = SubSeq(result, 1, fit)
    BY <1>2, <1>4, <1>5, ZenonT(40)
  <1>6. CASE batch = <<>> /\ ~return_non_full
    <2>1. 0 \in 0..Len(result)
      BY <1>0
    <2>2. SubSeq(result, 1, 0) = <<>>
      OBVIOUS
    <2> QED BY <1>6, <2>1, <2>2, ZenonT(40)
  <1> QED BY <1>3, <1>5, <1>6, SMTT(40)

(***************************************************************************)
(* What get_batch returns is in sequence, for every limit and whatever is  *)
(* in progress (mempool.rs:389-526).                                       *)
(***************************************************************************)
LEMMA BatchIsInSequence ==
  ASSUME Readable(store), NEW max_txns \in Nat, NEW max_bytes \in Nat,
         NEW return_non_full \in BOOLEAN, NEW exclude, \A h \in exclude : h.seq \in Nat
  PROVE  BatchInSequence(max_txns, max_bytes, return_non_full, exclude)
  <1> DEFINE result == Walk(store, max_txns, exclude)
             batch == get_batch(store, max_txns, max_bytes, return_non_full, exclude)
             queued == {k \in store.priority : k.hash \notin exclude}
             drawn == {k \in queued : <<k.hash.sender, k.hash.seq>> \in Range(batch)}
             CanFollow(a, n, earlier) ==
                 \/ store.sequence_numbers[a] = n
                 \/ \E h \in exclude : h.sender = a /\ h.seq = n - 1
                 \/ <<a, n - 1>> \in Range(earlier)
             N == Len(result)
  <1>0. Weighed(store) /\ PriorityKeys(store)
    BY ZenonT(40) DEF Readable
  <1>1. PICK w : Walked(store, max_txns, exclude, w, store.priority) /\ result = w.result
    BY <1>0, WalkIsSound, SMTT(40)
  <1>2. /\ Draws(max_txns, exclude, w, store.priority)
        /\ Follows(store, exclude, result)
        /\ LeavesNothing(store, max_txns, exclude, w, store.priority)
        /\ ByPriority(store, exclude, result)
    BY <1>1, ZenonT(40) DEF Walked
  <1>3. /\ result \in Seq(Nat \X Nat) /\ N <= max_txns
        /\ \A i, j \in 1..N : result[i] = result[j] => i = j
        /\ \A i \in 1..N : \E k \in store.priority : k.hash \notin exclude
                                                     /\ result[i] = Pair(k)
    BY <1>1, <1>2, ZenonT(40) DEF Draws
  <1>4. PICK f \in 0..N :
            /\ batch = SubSeq(result, 1, f)
            /\ return_non_full /\ store.size_bytes <= max_bytes => f = N
    <2> HIDE DEF result, batch
    <2> QED BY <1>0, <1>3, BatchIsPrefix, SMTT(40) DEF result, batch
  <1> HIDE DEF result, batch
  <1>5. N \in Nat /\ f \in Nat /\ f <= N /\ \A i \in 1..f : i \in 1..N
    BY <1>3, SMTT(40)
  <1>6. /\ batch \in Seq(Nat \X Nat) /\ Len(batch) = f /\ DOMAIN batch = 1..f
        /\ \A i \in 1..f : batch[i] = result[i]
        /\ Range(batch) = Drawn(result, f)
    <2> HIDE DEF N
    <2>1. f \in 0..Len(result)
      BY DEF N
    <2>2. result \in Seq(Nat \X Nat) /\ batch = SubSeq(result, 1, f)
      BY <1>3, <1>4, ZenonT(40)
    <2> HIDE DEF queued, drawn, CanFollow
    <2>3. \A p : p = SubSeq(result, 1, f) =>
              /\ p \in Seq(Nat \X Nat) /\ Len(p) = f /\ DOMAIN p = 1..f
              /\ \A i \in 1..f : p[i] = result[i]
              /\ Range(p) = Drawn(result, f)
      BY <2>1, <2>2, PrefixOfResult, ZenonT(40)
    <2> QED BY <2>2, <2>3, ZenonT(40)
  <1>7. \A k \in store.priority :
            /\ k.hash.sender \in Nat /\ k.hash.seq \in Nat
            /\ k.hash.sender \in DOMAIN store.sequence_numbers
            /\ Pair(k) = <<k.hash.sender, k.hash.seq>>
    BY <1>0, ZenonT(40) DEF PriorityKeys, Pair
  <1>8. Len(batch) <= max_txns /\ IsInjective(batch)
    <2>1. Len(batch) <= max_txns
      BY <1>3, <1>5, <1>6, SMTT(40)
    <2>2. IsInjective(batch)
      BY <1>3, <1>5, <1>6, ZenonT(40) DEF IsInjective
    <2> QED BY <2>1, <2>2, SMTT(40)
  <1> HIDE DEF N
  <1>9. ASSUME NEW i \in DOMAIN batch
        PROVE  /\ \E k \in queued : batch[i] = <<k.hash.sender, k.hash.seq>>
               /\ CanFollow(batch[i][1], batch[i][2], SubSeq(batch, 1, i - 1))
    <2>1. i \in 1..f /\ i \in 1..N /\ batch[i] = result[i]
      BY <1>5, <1>6, ZenonT(40)
    <2>2. PICK k \in store.priority : k.hash \notin exclude /\ result[i] = Pair(k)
      BY <1>3, <2>1, ZenonT(40)
    <2> DEFINE a == k.hash.sender
               n == k.hash.seq
    <2>3. a \in Nat /\ n \in Nat /\ result[i] = <<a, n>>
      BY <1>7, <2>2, ZenonT(40)
    <2> HIDE DEF a, n
    <2>4. batch[i][1] = a /\ batch[i][2] = n
      BY <2>1, <2>3, SMTT(40)
    <2>5. InSequence(store, exclude, Drawn(result, i - 1), a, n)
      BY <1>2, <2>1, <2>3, ZenonT(40) DEF Follows, N
    <2>6. Range(SubSeq(batch, 1, i - 1)) = Drawn(result, i - 1)
      <3>1. i - 1 \in 0..Len(batch)
        BY <1>5, <1>6, <2>1, SMTT(40)
      <3>2. Range(SubSeq(batch, 1, i - 1)) = Drawn(batch, i - 1)
        <4>1. batch \in Seq(Nat \X Nat)
          BY <1>6, Zenon
        <4> QED BY <3>1, <4>1, PrefixOfResult, ZenonT(40)
      <3>3. \A j \in 1..i - 1 : j \in 1..f
        BY <1>5, <2>1
      <3>4. Drawn(batch, i - 1) = Drawn(result, i - 1)
        BY <1>6, <3>3, Zenon DEF Drawn
      <3> QED BY <3>2, <3>4, ZenonT(40)
    <2>7. CanFollow(a, n, SubSeq(batch, 1, i - 1))
      BY <2>5, <2>6, Zenon DEF InSequence
    <2>8. \E l \in queued : batch[i] = <<l.hash.sender, l.hash.seq>>
      BY <1>7, <2>1, <2>2, ZenonT(40)
    <2> HIDE DEF CanFollow, queued
    <2> QED BY <2>4, <2>7, <2>8, ZenonT(40)
  <1>10. ASSUME NEW k \in queued \ drawn PROVE Pair(k) \notin Drawn(result, f)
    BY <1>6, <1>7, ZenonT(40)
  <1>11. ASSUME NEW k \in store.priority, NEW earlier, NEW D, Range(earlier) \subseteq D,
                D \subseteq Nat \X Nat,
                CanFollow(k.hash.sender, k.hash.seq, earlier)
         PROVE  InSequence(store, exclude, D, k.hash.sender, k.hash.seq)
    <2> DEFINE a == k.hash.sender
               n == k.hash.seq
    <2>1. a \in Nat /\ n \in Nat /\ a \in DOMAIN store.sequence_numbers
      BY <1>7, ZenonT(40)
    <2> HIDE DEF a, n
    <2>2. CASE store.sequence_numbers[a] = n
      BY <2>1, <2>2, ZenonT(40) DEF InSequence, a, n
    <2>3. CASE \E h \in exclude : h.sender = a /\ h.seq = n - 1
      <3>1. n - 1 \in Nat
        BY <2>3, ZenonT(40)
      <3>2. n > 0
        BY <2>1, <3>1, SMTT(40)
      <3> QED BY <2>3, <3>2, ZenonT(40) DEF InSequence, a, n
    <2>4. CASE <<a, n - 1>> \in Range(earlier)
      <3>1. <<a, n - 1>> \in D /\ <<a, n - 1>> \in Nat \X Nat
        BY <1>11, <2>4, ZenonT(40)
      <3>2. n - 1 \in Nat
        BY <3>1, SMTT(40)
      <3>3. n > 0
        BY <2>1, <3>2
      <3> QED BY <3>1, <3>3, ZenonT(40) DEF InSequence, a, n
    <2> QED BY <1>11, <2>2, <2>3, <2>4, ZenonT(40) DEF a, n
  <1>12. ASSUME NEW k \in queued \ drawn, NEW l \in drawn,
                CanFollow(k.hash.sender, k.hash.seq, <<>>)
         PROVE  Outranks(l, k)
    <2>1. Range(<<>>) \subseteq {}
      BY DEF Range
    <2>2. k \in store.priority /\ l \in store.priority /\ k.hash \notin exclude
      BY Zenon
    <2>3. InSequence(store, exclude, {}, k.hash.sender, k.hash.seq)
      <3>1. {} \subseteq Nat \X Nat
        OBVIOUS
      <3> HIDE DEF CanFollow
      <3> QED BY <1>11, <1>12, <2>1, <2>2, <3>1, ZenonT(40)
    <2>4. PICK i \in 1..f : Pair(l) = result[i]
      BY <1>6, <1>7, ZenonT(40) DEF Drawn
    <2>5. Pair(k) \notin Drawn(result, i)
      <3>1. \A j \in 1..i : j \in 1..f
        BY <1>5, SMTT(40)
      <3>2. Pair(k) \notin Drawn(result, f)
        BY <1>10, SMTT(40)
      <3> QED BY <3>1, <3>2, Zenon DEF Drawn
    <2>6. i \in 1..Len(result)
      BY <1>5, ZenonT(40) DEF N
    <2> HIDE DEF CanFollow, queued, drawn
    <2> QED BY <1>2, <2>2, <2>3, <2>4, <2>5, <2>6, ZenonT(40) DEF ByPriority
  <1>13. ASSUME return_non_full, store.size_bytes <= max_bytes, Len(batch) < max_txns,
                NEW k \in queued \ drawn, CanFollow(k.hash.sender, k.hash.seq, batch)
         PROVE  FALSE
    <2>1. f = N /\ N = Len(w.result) /\ Len(w.result) < max_txns
      BY <1>1, <1>4, <1>6, <1>13, ZenonT(40) DEF N
    <2>2. k \in store.priority /\ k.hash \notin exclude
      BY ZenonT(40)
    <2>3. Pair(k) \notin Drawn(w.result, Len(w.result))
      BY <1>1, <1>10, <2>1, ZenonT(40)
    <2>4. Pair(k) \in w.skipped
      BY <1>2, <2>1, <2>2, <2>3, ZenonT(40) DEF LeavesNothing
    <2>5. ~InSequence(store, exclude, Drawn(result, f), k.hash.sender, k.hash.seq)
      BY <1>1, <1>2, <1>7, <2>1, <2>2, <2>4, ZenonT(40) DEF LeavesNothing
    <2>6. Range(batch) \subseteq Drawn(result, f) /\ Drawn(result, f) \subseteq Nat \X Nat
      <3>1. \A i \in 1..Len(result) : result[i] \in Nat \X Nat
        BY <1>3, SMTT(40)
      <3>2. \A i \in 1..f : result[i] \in Nat \X Nat
        BY <1>5, <3>1, ZenonT(40) DEF N
      <3>3. Drawn(result, f) \subseteq Nat \X Nat
        <4> SUFFICES ASSUME NEW p \in Drawn(result, f) PROVE p \in Nat \X Nat
          BY ZenonT(40)
        <4>1. PICK i \in 1..f : p = result[i]
          BY ZenonT(40) DEF Drawn
        <4> QED BY <3>2, <4>1, ZenonT(40)
      <3> QED BY <1>6, <3>3, ZenonT(40)
    <2> HIDE DEF CanFollow
    <2> QED BY <1>11, <1>13, <2>2, <2>5, <2>6, ZenonT(40)
  <1> QED BY <1>8, <1>9, <1>12, <1>13, ZenonT(40) DEF BatchInSequence, batch

(***************************************************************************)
(* What a peer is sent from a readable store, for every cursor, limit and  *)
(* delay (transaction_store.rs:657-721).                                   *)
(***************************************************************************)
LEMMA ReadIsComplete ==
  ASSUME Readable(store), NEW cursor \in [Bucket -> Nat], NEW count \in Nat,
         NEW before \in [Bucket -> Int]
  PROVE  ReadSkipsNothing(cursor, count, before)
  <1> DEFINE read == read_timeline(store, cursor, count, before)
  <1>1. Reading(store, cursor, count, read, Bucket)
    BY ReadIsExact, SMTT(40) DEF Readable
  <1> HIDE DEF read
  <1>2. /\ read.batch = Passed(store, cursor, read.cursor)
        /\ IsFiniteSet(read.batch) /\ read.added \in 0..count
        /\ read.bytes \in 0..max_batch_bytes
        /\ Cardinality(read.batch) <= read.added
    BY <1>1, ZenonT(40) DEF Reading
  <1>3. max_batch_bytes \in Nat /\ Cardinality(read.batch) \in Nat
    BY <1>2, MempoolAssumption, FS_CardinalityType, SMTT(40)
  <1>4. read.bytes <= max_batch_bytes /\ Cardinality(read.batch) <= count
    BY <1>2, <1>3
  <1> QED BY <1>2, <1>4, ZenonT(40) DEF ReadSkipsNothing, Passed, read
=============================================================================
