--------------------------- MODULE MempoolProofs ---------------------------
(***************************************************************************)
(* Proofs about the core mempool. The parking lot keeps its vector and its *)
(* map consistent; the transaction store keeps its indexes in agreement    *)
(* and every transaction within reach of consensus or of eviction. The     *)
(* store's functions are proved one by one to keep a store Sound, the      *)
(* invariant of a store as an operator of it; a handler is a composition   *)
(* of them. Sums over transactions, which size_bytes keeps, come from      *)
(* Sums, and the loop that frees space is reasoned about by its smallest   *)
(* counterexample.                                                         *)
(***************************************************************************)
EXTENDS Mempool, ParkingLot, Sums

(***************************************************************************)
(* A place of the vector: an account and its entries.                      *)
(***************************************************************************)
Place == [account : {e.sender : e \in Parkable}, txns : SUBSET Parkable]

(***************************************************************************)
(* data and account_indices as ParkingLotIndex describes them              *)
(* (index.rs:416): account_indices leads from each account to its own      *)
(* place, and every place is that of an account it knows.                  *)
(***************************************************************************)
Vector(vec, indices) ==
    /\ vec \in Seq(Place)
    /\ indices = [a \in DOMAIN indices |-> indices[a]]
    /\ \A a \in DOMAIN indices :
           indices[a] \in 1..Len(vec) /\ vec[indices[a]].account = a
    /\ \A i \in 1..Len(vec) :
           vec[i].account \in DOMAIN indices /\ indices[vec[i].account] = i

(***************************************************************************)
(* The vector holds exactly the entries of a set, each at the place of its *)
(* account, and no place is empty.                                         *)
(***************************************************************************)
Holds(vec, indices, set) ==
    /\ set \subseteq Parkable
    /\ \A e \in set : e.sender \in DOMAIN indices
    /\ \A i \in 1..Len(vec) :
           vec[i].txns # {} /\ vec[i].txns = {e \in set : e.sender = vec[i].account}

(***************************************************************************)
(* The inductive invariant of the parking lot.                             *)
(***************************************************************************)
LotInvariant ==
    /\ Vector(data, account_indices)
    /\ Holds(data, account_indices, contents)
    /\ size = Cardinality(contents)

(***************************************************************************)
(* What adding and removing one entry does to the number of entries, as    *)
(* size counts it (index.rs:465, 477).                                     *)
(***************************************************************************)
LEMMA Counting ==
  ASSUME NEW S, S \subseteq Parkable, NEW e
  PROVE  /\ Cardinality(S) \in Nat
         /\ Cardinality(S \cup {e}) = IF e \in S THEN Cardinality(S) ELSE Cardinality(S) + 1
         /\ Cardinality(S \ {e}) = IF e \in S THEN Cardinality(S) - 1 ELSE Cardinality(S)
  <1>1. IsFiniteSet(S)
    BY ParkingAssumption, FS_Subset, SMTT(40)
  <1>2. Cardinality(S) \in Nat
    BY <1>1, FS_CardinalityType, SMTT(40)
  <1> QED BY <1>1, <1>2, FS_AddElement, FS_RemoveElement, ZenonT(40)

(***************************************************************************)
(* What account_indices.get finds for an account with entries: its own     *)
(* place, which holds what was parked for it.                              *)
(***************************************************************************)
LEMMA FoundPlace ==
  ASSUME LotInvariant, NEW e \in Parkable, e.sender \in DOMAIN account_indices,
         NEW i, i = account_indices[e.sender]
  PROVE  /\ i \in 1..Len(data) /\ Len(data) \in Nat /\ data[i] \in Place
         /\ data[i].account = e.sender
         /\ data[i].txns = {f \in contents : f.sender = e.sender}
         /\ e \in data[i].txns <=> e \in contents
  <1>1. i \in 1..Len(data) /\ data[i].account = e.sender /\ data \in Seq(Place)
    BY DEF LotInvariant, Vector
  <1>2. data[i].txns = {f \in contents : f.sender = data[i].account}
    BY <1>1, SMTT(40) DEF LotInvariant, Holds
  <1> QED BY <1>1, <1>2, SMTT(40)

(***************************************************************************)
(* A place with other entries.                                             *)
(***************************************************************************)
Refilled(vec, i, X) == [vec EXCEPT ![i].txns = X]

(***************************************************************************)
(* Changing the entries of one place leaves the vector in order.           *)
(***************************************************************************)
LEMMA InPlace ==
  ASSUME LotInvariant, NEW i \in 1..Len(data), NEW X \in SUBSET Parkable,
         NEW vec, vec = Refilled(data, i, X)
  PROVE  /\ vec \in Seq(Place) /\ Len(vec) = Len(data)
         /\ \A j \in 1..Len(data) :
                /\ vec[j].account = data[j].account
                /\ vec[j].txns = IF j = i THEN X ELSE data[j].txns
         /\ Vector(vec, account_indices)
  <1>1. data \in Seq(Place) /\ Len(data) \in Nat /\ DOMAIN data = 1..Len(data)
    BY DEF LotInvariant, Vector
  <1> DEFINE p == [data[i] EXCEPT !.txns = X]
  <1>2. p \in Place /\ p.account = data[i].account /\ p.txns = X
    <2>1. data[i] \in Place
      BY <1>1
    <2> QED BY <2>1 DEF Place
  <1>3. vec = [data EXCEPT ![i] = p]
    BY DEF Refilled
  <1> HIDE DEF p
  <1>4. vec \in Seq(Place) /\ Len(vec) = Len(data)
    BY <1>1, <1>2, <1>3, SMTT(40)
  <1>5. \A j \in 1..Len(data) : vec[j] = IF j = i THEN p ELSE data[j]
    BY <1>1, <1>3, SMTT(40)
  <1>6. \A j \in 1..Len(data) :
            /\ vec[j].account = data[j].account
            /\ vec[j].txns = IF j = i THEN X ELSE data[j].txns
    BY <1>2, <1>5, SMTT(40)
  <1>7. Vector(vec, account_indices)
    BY <1>4, <1>6, ZenonT(40) DEF LotInvariant, Vector
  <1> QED BY <1>4, <1>6, <1>7, SMTT(40)

(***************************************************************************)
(* ParkingLotIndex::insert keeps the invariant (index.rs:433-469), for an  *)
(* account that has entries and for one that has none.                     *)
(***************************************************************************)
LEMMA ParkInsertKeeps ==
  ASSUME LotInvariant, NEW e \in Parkable, parking_insert(e)
  PROVE  LotInvariant'
  <1>0. /\ data \in Seq(Place) /\ Len(data) \in Nat /\ DOMAIN data = 1..Len(data)
        /\ contents \subseteq Parkable
    BY SMTT(40) DEF LotInvariant, Vector, Holds
  <1>1. contents' = contents \cup {e} /\ contents' \subseteq Parkable
    BY <1>0, SMTT(40) DEF parking_insert
  <1>2. CASE e.sender \in DOMAIN account_indices
    <2> DEFINE i == account_indices[e.sender]
               X == data[i].txns \cup {e}
    <2>1. /\ data' = Refilled(data, i, X)
          /\ size' = IF e \in data[i].txns THEN size ELSE size + 1
          /\ account_indices' = account_indices
      BY <1>2, SMTT(40) DEF parking_insert, Refilled
    <2>2. /\ i \in 1..Len(data) /\ data[i].account = e.sender /\ data[i] \in Place
          /\ data[i].txns = {f \in contents : f.sender = e.sender}
          /\ e \in data[i].txns <=> e \in contents
      BY <1>2, FoundPlace, SMTT(40)
    <2>3. X \in SUBSET Parkable
      BY <2>2, SMTT(40) DEF Place
    <2>4. /\ Len(data') = Len(data)
          /\ \A j \in 1..Len(data) :
                /\ data'[j].account = data[j].account
                /\ data'[j].txns = IF j = i THEN X ELSE data[j].txns
          /\ Vector(data', account_indices')
      <3> HIDE DEF i, X
      <3> QED BY <2>1, <2>2, <2>3, InPlace, SMTT(40)
    <2>5. ASSUME NEW j \in 1..Len(data)
          PROVE  /\ data'[j].txns # {}
                 /\ data'[j].txns = {f \in contents' : f.sender = data'[j].account}
      <3>1. CASE j = i
        BY <1>1, <2>2, <2>4, <3>1, ZenonT(40)
      <3>2. CASE j # i
        <4>1. data[j].account # e.sender
          BY <3>2 DEF LotInvariant, Vector
        <4>2. data[j].txns # {}
              /\ data[j].txns = {f \in contents : f.sender = data[j].account}
          BY DEF LotInvariant, Holds
        <4> HIDE DEF i, X
        <4> QED BY <1>1, <2>4, <3>2, <4>1, <4>2
      <3> QED BY <3>1, <3>2, SMTT(40)
    <2>6. Holds(data, account_indices, contents)'
      <3>1. \A f \in contents' : f.sender \in DOMAIN account_indices'
        BY <1>1, <1>2, <2>1 DEF LotInvariant, Holds
      <3> HIDE DEF i, X
      <3> QED BY <1>1, <2>4, <2>5, <3>1 DEF Holds
    <2>7. (size = Cardinality(contents))'
      <3> HIDE DEF i, X
      <3> QED BY <1>0, <1>1, <2>1, <2>2, Counting, Zenon DEF LotInvariant
    <2> QED BY <2>4, <2>6, <2>7, SMTT(40) DEF LotInvariant
  <1>3. CASE e.sender \notin DOMAIN account_indices
    <2> DEFINE p == [account |-> e.sender, txns |-> {e}]
               n == Len(data) + 1
    <2>1. /\ data' = Append(data, p)
          /\ account_indices' = Index(account_indices, e.sender, n)
          /\ size' = size + 1
      BY <1>3 DEF parking_insert
    <2>2. p \in Place /\ p.account = e.sender /\ p.txns = {e}
      BY DEF Place
    <2> HIDE DEF p
    <2>3. /\ data' \in Seq(Place) /\ Len(data') = n
          /\ data'[n] = p
          /\ \A j \in 1..Len(data) : data'[j] = data[j]
      BY <1>0, <2>1, <2>2, SMTT(40)
    <2>4. /\ DOMAIN account_indices' = DOMAIN account_indices \cup {e.sender}
          /\ account_indices' = [a \in DOMAIN account_indices' |-> account_indices'[a]]
          /\ account_indices'[e.sender] = n
          /\ \A a \in DOMAIN account_indices : account_indices'[a] = account_indices[a]
      BY <1>3, <2>1, SMTT(40) DEF Index
    <2>5. \A j \in 1..Len(data') : j \in 1..Len(data) \/ j = n
      BY <1>0, <2>3, SMTT(40)
    <2>6. Vector(data, account_indices)'
      <3>1. ASSUME NEW a \in DOMAIN account_indices'
            PROVE  account_indices'[a] \in 1..Len(data')
                   /\ data'[account_indices'[a]].account = a
        <4>1. CASE a = e.sender
          BY <1>0, <2>2, <2>3, <2>4, <4>1, SMTT(40)
        <4>2. CASE a # e.sender
          <5>1. a \in DOMAIN account_indices /\ account_indices'[a] = account_indices[a]
            BY <2>4, <4>2, SMTT(40)
          <5>2. account_indices[a] \in 1..Len(data) /\ data[account_indices[a]].account = a
            BY <5>1, SMTT(40) DEF LotInvariant, Vector
          <5> QED BY <1>0, <2>3, <5>1, <5>2, SMTT(40)
        <4> QED BY <4>1, <4>2, SMTT(40)
      <3>2. ASSUME NEW j \in 1..Len(data')
            PROVE  data'[j].account \in DOMAIN account_indices'
                   /\ account_indices'[data'[j].account] = j
        <4>1. CASE j = n
          BY <2>2, <2>3, <2>4, <4>1, SMTT(40)
        <4>2. CASE j \in 1..Len(data)
          <5>1. data[j].account \in DOMAIN account_indices
                /\ account_indices[data[j].account] = j
            BY <4>2, SMTT(40) DEF LotInvariant, Vector
          <5> QED BY <2>3, <2>4, <4>2, <5>1, SMTT(40)
        <4> QED BY <2>5, <4>1, <4>2, SMTT(40)
      <3> QED BY <2>3, <2>4, <3>1, <3>2, SMTT(40) DEF Vector
    <2>7. Holds(data, account_indices, contents)'
      <3>1. \A f \in contents : f.sender \in DOMAIN account_indices
        BY DEF LotInvariant, Holds
      <3>2. ASSUME NEW j \in 1..Len(data')
            PROVE  data'[j].txns # {}
                   /\ data'[j].txns = {f \in contents' : f.sender = data'[j].account}
        <4>1. CASE j = n
          BY <1>1, <1>3, <2>2, <2>3, <3>1, <4>1, ZenonT(40)
        <4>2. CASE j \in 1..Len(data)
          <5>1. data[j].txns # {}
                /\ data[j].txns = {f \in contents : f.sender = data[j].account}
                /\ data[j].account # e.sender
            BY <1>3, <4>2 DEF LotInvariant, Holds, Vector
          <5> QED BY <1>1, <2>3, <4>2, <5>1
        <4> QED BY <2>5, <4>1, <4>2, SMTT(40)
      <3> QED BY <1>1, <2>4, <3>1, <3>2, SMTT(40) DEF Holds
    <2>8. (size = Cardinality(contents))'
      <3>1. e \notin contents
        BY <1>3 DEF LotInvariant, Holds
      <3> QED BY <1>0, <1>1, <2>1, <3>1, Counting DEF LotInvariant
    <2> QED BY <2>6, <2>7, <2>8 DEF LotInvariant
  <1> QED BY <1>2, <1>3

(***************************************************************************)
(* Vec::swap_remove shortens the vector by one and moves its last place    *)
(* into the gap.                                                           *)
(***************************************************************************)
LEMMA SwapRemoved ==
  ASSUME NEW s \in Seq(Place), NEW i \in 1..Len(s)
  PROVE  /\ swap_remove(s, i) \in Seq(Place) /\ Len(swap_remove(s, i)) = Len(s) - 1
         /\ \A j \in 1..(Len(s) - 1) :
                swap_remove(s, i)[j] = IF j = i THEN s[Len(s)] ELSE s[j]
  <1> DEFINE N == Len(s)
             u == [s EXCEPT ![i] = s[N]]
  <1>1. N \in Nat /\ N >= 1 /\ DOMAIN s = 1..N /\ s[N] \in Place
    OBVIOUS
  <1>2. u \in Seq(Place) /\ Len(u) = N /\ \A j \in 1..N : u[j] = IF j = i THEN s[N] ELSE s[j]
    BY <1>1
  <1>3. swap_remove(s, i) = SubSeq(u, 1, N - 1)
    BY DEF swap_remove
  <1> HIDE DEF u
  <1> QED BY <1>1, <1>2, <1>3, SMTT(40)

(***************************************************************************)
(* ParkingLotIndex::remove keeps the invariant (index.rs:471-492). The     *)
(* last entry of an account takes its place away: the account whose place  *)
(* moved into the gap is indexed again, and where the place removed was    *)
(* the last one there is nothing to index.                                 *)
(***************************************************************************)
LEMMA ParkRemoveKeeps ==
  ASSUME LotInvariant, NEW e \in Parkable, parking_remove(e)
  PROVE  LotInvariant'
  <1>0. /\ data \in Seq(Place) /\ Len(data) \in Nat /\ DOMAIN data = 1..Len(data)
        /\ contents \subseteq Parkable
    BY DEF LotInvariant, Vector, Holds
  <1>1. contents' = contents \ {e} /\ contents' \subseteq Parkable
    BY <1>0, ZenonT(40) DEF parking_remove
  <1>2. CASE e.sender \notin DOMAIN account_indices
    <2>1. e \notin contents
      BY <1>2 DEF LotInvariant, Holds
    <2>2. contents' = contents
      BY <1>1, <2>1, SMTT(40)
    <2>3. UNCHANGED <<data, account_indices, size>>
      BY <1>2, SMTT(40) DEF parking_remove
    <2> QED BY <2>2, <2>3, SMTT(40) DEF LotInvariant, Vector, Holds
  <1>3. CASE e.sender \in DOMAIN account_indices
    <2> DEFINE i == account_indices[e.sender]
               rest == data[i].txns \ {e}
    <2>1. /\ size' = IF e \in data[i].txns THEN size - 1 ELSE size
          /\ \/ /\ rest # {}
                /\ data' = Refilled(data, i, rest)
                /\ account_indices' = account_indices
             \/ /\ rest = {}
                /\ data' = swap_remove(data, i)
                /\ account_indices' = Reindexed(Unindex(account_indices, e.sender), data', i)
      BY <1>3, SMTT(40) DEF parking_remove, Refilled
    <2>2. /\ i \in 1..Len(data) /\ data[i].account = e.sender /\ data[i] \in Place
          /\ data[i].txns = {f \in contents : f.sender = e.sender}
          /\ e \in data[i].txns <=> e \in contents
      BY <1>3, FoundPlace
    <2>3. rest \in SUBSET Parkable /\ rest = {f \in contents' : f.sender = e.sender}
      BY <1>1, <2>2, SMTT(40) DEF Place
    <2>4. \A j \in 1..Len(data) :
              /\ j # i => data[j].account # e.sender
              /\ data[j].txns # {}
              /\ data[j].txns = {f \in contents : f.sender = data[j].account}
      BY DEF LotInvariant, Vector, Holds
    <2>5. \A f \in contents' : f.sender \in DOMAIN account_indices
      BY <1>1 DEF LotInvariant, Holds
    <2>6. (size = Cardinality(contents))'
      <3> HIDE DEF i, rest
      <3> QED BY <1>0, <1>1, <2>1, <2>2, Counting, ZenonT(40) DEF LotInvariant
    <2>7. ASSUME NEW j \in 1..Len(data), j # i
          PROVE  data[j].txns # {} /\ data[j].txns = {f \in contents' : f.sender = data[j].account}
      BY <1>1, <2>4, <2>7, SMTT(40)
    <2> HIDE DEF i, rest
    <2>8. CASE rest # {}
      <3>1. data' = Refilled(data, i, rest) /\ account_indices' = account_indices
        BY <2>1, <2>8, SMTT(40)
      <3>2. /\ Len(data') = Len(data)
            /\ \A j \in 1..Len(data) :
                  /\ data'[j].account = data[j].account
                  /\ data'[j].txns = IF j = i THEN rest ELSE data[j].txns
            /\ Vector(data', account_indices')
        BY <2>2, <2>3, <3>1, InPlace, SMTT(40)
      <3>3. ASSUME NEW j \in 1..Len(data')
            PROVE  data'[j].txns # {}
                   /\ data'[j].txns = {f \in contents' : f.sender = data'[j].account}
        <4>1. CASE j = i
          BY <2>2, <2>3, <2>8, <3>2, <4>1, ZenonT(40)
        <4>2. CASE j # i
          BY <2>7, <3>2, <4>2, SMTT(40)
        <4> QED BY <4>1, <4>2, SMTT(40)
      <3>4. Holds(data, account_indices, contents)'
        BY <1>1, <2>5, <3>1, <3>3, SMTT(40) DEF Holds
      <3> QED BY <2>6, <3>2, <3>4, SMTT(40) DEF LotInvariant
    <2>9. CASE rest = {}
      <3> DEFINE N == Len(data)
                 last == data[N].account
                 old == Unindex(account_indices, e.sender)
      <3>1. data' = swap_remove(data, i) /\ account_indices' = Reindexed(old, data', i)
        BY <2>1, <2>9, SMTT(40)
      <3>2. /\ data' \in Seq(Place) /\ Len(data') = N - 1
            /\ \A j \in 1..(N - 1) : data'[j] = IF j = i THEN data[N] ELSE data[j]
        BY <1>0, <2>2, <3>1, SwapRemoved, ZenonT(40)
      <3>3. /\ DOMAIN old = DOMAIN account_indices \ {e.sender}
            /\ old = [a \in DOMAIN old |-> old[a]]
            /\ \A a \in DOMAIN old : old[a] = account_indices[a]
        BY DEF Unindex
      <3>4. N \in Nat /\ N >= 1 /\ N \in 1..N /\ DOMAIN data' = 1..(N - 1)
        BY <1>0, <2>2, <3>2
      <3>5. i # N => last # e.sender /\ last \in DOMAIN account_indices
                     /\ account_indices[last] = N
        BY <2>4, <3>4, ZenonT(40) DEF LotInvariant, Vector
      <3> HIDE DEF last, old
      <3>6. /\ DOMAIN account_indices' = DOMAIN account_indices \ {e.sender}
            /\ account_indices' = [a \in DOMAIN account_indices' |-> account_indices'[a]]
            /\ \A a \in DOMAIN account_indices' :
                   account_indices'[a] = IF a = last /\ i # N THEN i ELSE account_indices[a]
        <4>1. CASE i = N
          <5>1. i \notin DOMAIN data'
            BY <3>4, <4>1
          <5>2. account_indices' = old
            BY <3>1, <5>1, SMTT(40) DEF Reindexed
          <5> QED BY <3>3, <4>1, <5>2
        <4>2. CASE i # N
          <5>1. i \in DOMAIN data'
            BY <2>2, <3>4, <4>2, SMTT(40)
          <5>2. data'[i].account = last
            BY <3>2, <3>4, <5>1, SMTT(40) DEF last
          <5>3. account_indices' = Index(old, last, i)
            BY <3>1, <5>1, <5>2, SMTT(40) DEF Reindexed
          <5> QED BY <3>3, <3>5, <4>2, <5>3, SMTT(40) DEF Index
        <4> QED BY <4>1, <4>2
      <3>7. ASSUME NEW j \in 1..Len(data')
            PROVE  /\ data'[j].account \in DOMAIN account_indices'
                   /\ account_indices'[data'[j].account] = j
                   /\ data'[j].txns # {}
                   /\ data'[j].txns = {f \in contents' : f.sender = data'[j].account}
        <4>0. j \in 1..(N - 1) /\ j \in 1..N /\ j # N
          BY <3>2, <3>4, SMTT(40)
        <4>1. CASE j = i
          <5>1. data'[j] = data[N] /\ i # N
            BY <3>2, <4>0, <4>1, SMTT(40)
          <5>2. data[N].txns # {} /\ data[N].txns = {f \in contents' : f.sender = data[N].account}
            BY <2>7, <3>4, <5>1, SMTT(40)
          <5> QED BY <3>5, <3>6, <4>1, <5>1, <5>2, SMTT(40) DEF last
        <4>2. CASE j # i
          <5>1. data'[j] = data[j]
            BY <3>2, <4>0, <4>2, SMTT(40)
          <5>2. /\ data[j].account \in DOMAIN account_indices
                /\ account_indices[data[j].account] = j /\ data[j].account # e.sender
            BY <2>4, <4>0, <4>2, SMTT(40) DEF LotInvariant, Vector
          <5>3. data[j].account = last => i = N
            BY <3>5, <4>0, <5>2, SMTT(40)
          <5>4. data[j].txns # {} /\ data[j].txns = {f \in contents' : f.sender = data[j].account}
            BY <2>7, <4>0, <4>2, SMTT(40)
          <5> QED BY <3>6, <5>1, <5>2, <5>3, <5>4, SMTT(40)
        <4> QED BY <4>1, <4>2, SMTT(40)
      <3>8. ASSUME NEW a \in DOMAIN account_indices'
            PROVE  account_indices'[a] \in 1..Len(data')
                   /\ data'[account_indices'[a]].account = a
        <4>0. /\ a \in DOMAIN account_indices /\ a # e.sender
              /\ account_indices[a] \in 1..N /\ data[account_indices[a]].account = a
              /\ account_indices[a] # i
          BY <2>2, <3>6, SMTT(40) DEF LotInvariant, Vector
        <4>1. CASE a = last /\ i # N
          <5>1. account_indices'[a] = i /\ i \in 1..(N - 1)
            BY <2>2, <3>4, <3>6, <4>1, SMTT(40)
          <5> QED BY <3>2, <4>1, <5>1, SMTT(40) DEF last
        <4>2. CASE ~(a = last /\ i # N)
          <5>1. account_indices'[a] = account_indices[a]
            BY <3>6, <4>2, SMTT(40)
          <5>2. account_indices[a] # N
            BY <4>0, <4>2, SMTT(40) DEF last
          <5>3. account_indices[a] \in 1..(N - 1)
            BY <3>4, <4>0, <5>2, SMTT(40)
          <5> QED BY <3>2, <4>0, <5>1, <5>3, SMTT(40)
        <4> QED BY <4>1, <4>2, SMTT(40)
      <3>9. Vector(data, account_indices)'
        BY <3>2, <3>6, <3>7, <3>8, SMTT(40) DEF Vector
      <3>10. Holds(data, account_indices, contents)'
        <4>1. \A f \in contents' : f.sender # e.sender
          BY <2>3, <2>9, SMTT(40)
        <4> QED BY <1>1, <2>5, <3>6, <3>7, <4>1, SMTT(40) DEF Holds
      <3> QED BY <2>6, <3>9, <3>10, SMTT(40) DEF LotInvariant
    <2> QED BY <2>8, <2>9, SMTT(40)
  <1> QED BY <1>2, <1>3, SMTT(40)

(***************************************************************************)
(* The parking lot holds what was inserted and not removed, at places that *)
(* account_indices knows, counts it in size, and lets get_poppable draw    *)
(* the highest sequence number of an account (index.rs:416-511), for any   *)
(* accounts and entries and any order of insertions and removals.          *)
(***************************************************************************)
THEOREM ParkingLotInvariant == LotSpec => []ParkingLotConsistent
  <1>1. LotInit => LotInvariant
    <2> SUFFICES ASSUME LotInit PROVE LotInvariant
      OBVIOUS
    <2>1. data = <<>> /\ account_indices = <<>> /\ size = 0 /\ contents = {}
      BY DEF LotInit
    <2>2. data \in Seq(Place) /\ Len(data) = 0 /\ DOMAIN account_indices = {}
          /\ account_indices = [a \in DOMAIN account_indices |-> account_indices[a]]
      BY <2>1, SMTT(40)
    <2>3. Cardinality({}) = 0
      BY FS_EmptySet, SMTT(40)
    <2> QED BY <2>1, <2>2, <2>3, SMTT(40) DEF LotInvariant, Vector, Holds
  <1>2. LotInvariant /\ [LotNext]_lot_vars => LotInvariant'
    <2>1. ASSUME LotInvariant, LotNext PROVE LotInvariant'
      BY <2>1, ParkInsertKeeps, ParkRemoveKeeps, SMTT(40) DEF LotNext
    <2>2. ASSUME LotInvariant, UNCHANGED lot_vars PROVE LotInvariant'
      BY <2>2, SMTT(40) DEF lot_vars, LotInvariant, Vector, Holds
    <2> QED BY <2>1, <2>2, SMTT(40)
  <1>3. LotInvariant => ParkingLotConsistent
    <2> SUFFICES ASSUME LotInvariant PROVE ParkingLotConsistent
      BY SMTT(40)
    <2>1. /\ data \in Seq(Place) /\ DOMAIN data = 1..Len(data) /\ contents \subseteq Parkable
          /\ \A i \in DOMAIN data : data[i].account \in DOMAIN account_indices
                                    /\ account_indices[data[i].account] = i
          /\ \A i \in DOMAIN data :
                 data[i].txns # {} /\ data[i].txns = {e \in contents : e.sender = data[i].account}
          /\ \A a \in DOMAIN account_indices :
                 account_indices[a] \in DOMAIN data /\ data[account_indices[a]].account = a
          /\ \A e \in contents : e.sender \in DOMAIN account_indices
      <3>1. data \in Seq(Place) /\ DOMAIN data = 1..Len(data)
        BY DEF LotInvariant, Vector
      <3> QED BY <3>1, SMTT(40) DEF LotInvariant, Vector, Holds
    <2>2. DOMAIN account_indices = {data[i].account : i \in DOMAIN data}
      <3>1. ASSUME NEW a \in DOMAIN account_indices
            PROVE  a \in {data[i].account : i \in DOMAIN data}
        BY <2>1, SMTT(40)
      <3>2. ASSUME NEW i \in DOMAIN data PROVE data[i].account \in DOMAIN account_indices
        BY <2>1, SMTT(40)
      <3> QED BY <3>1, <3>2, ZenonT(40)
    <2>3. \A e \in contents : \E i \in DOMAIN data :
              data[i].account = e.sender /\ e \in data[i].txns
      <3> TAKE e \in contents
      <3>1. account_indices[e.sender] \in DOMAIN data
            /\ data[account_indices[e.sender]].account = e.sender
        BY <2>1, SMTT(40)
      <3> QED BY <2>1, <3>1, SMTT(40)
    <2>4. contents = UNION {data[i].txns : i \in DOMAIN data}
      BY <2>1, <2>3, SMTT(40)
    <2>5. ASSUME NEW e \in Poppable(data)
          PROVE  e \in contents /\ \A f \in contents : f.sender = e.sender => f.seq <= e.seq
      <3>1. PICK i \in DOMAIN data :
                e \in data[i].txns /\ \A f \in data[i].txns : f.seq <= e.seq
        BY SMTT(40) DEF Poppable
      <3> QED BY <2>1, <3>1, SMTT(40)
    <2>6. ASSUME NEW e \in contents, \A f \in contents : f.sender = e.sender => f.seq <= e.seq
          PROVE  e \in Poppable(data)
      <3>1. PICK i \in DOMAIN data : data[i].account = e.sender /\ e \in data[i].txns
        BY <2>3, SMTT(40)
      <3>2. \A f \in data[i].txns : f.seq <= e.seq
        BY <2>1, <2>6, <3>1, SMTT(40)
      <3> QED BY <3>1, <3>2, SMTT(40) DEF Poppable
    <2> QED BY <2>1, <2>2, <2>4, <2>5, <2>6, SMTT(40)
               DEF ParkingLotConsistent, LotInvariant
  <1> QED BY <1>1, <1>2, <1>3, PTL DEF LotSpec
-----------------------------------------------------------------------------
(***************************************************************************)
(* A MempoolTransaction.                                                   *)
(***************************************************************************)
TxnRecord ==
    [sender : Address, seq : Nat, gas : Nat, body : Body, inserted : Nat,
     state : Int, was_parked : BOOLEAN]

(***************************************************************************)
(* One transaction per account and sequence number.                        *)
(***************************************************************************)
Unique(T) == \A t, u \in T : t.sender = u.sender /\ t.seq = u.seq => t = u

(***************************************************************************)
(* The fields of a TransactionStore.                                       *)
(***************************************************************************)
Field ==
    {"transactions", "sequence_numbers", "priority", "system_ttl", "expiration",
     "hashes", "timeline", "timeline_id", "parked", "size_bytes"}

(***************************************************************************)
(* A store is a record of these fields, with finitely many transactions,   *)
(* one per account and sequence number, and timelines that number from     *)
(* one.                                                                    *)
(***************************************************************************)
Shape(st) ==
    /\ st = [f \in Field |-> st[f]]
    /\ st.transactions \subseteq TxnRecord
    /\ IsFiniteSet(st.transactions)
    /\ Unique(st.transactions)
    /\ st.sequence_numbers \in [DOMAIN st.sequence_numbers -> Nat]
    /\ st.timeline_id \in [Bucket -> Nat \ {0}]

(***************************************************************************)
(* Both expiration indexes hold the keys of the transactions. Those of X   *)
(* may be missing: TTLIndex::gc takes expired keys out before the store    *)
(* removes their transactions.                                             *)
(***************************************************************************)
Covered(st, X) ==
    /\ \A t \in st.transactions \ X :
           system_key(t) \in st.system_ttl /\ client_key(t) \in st.expiration
    /\ st.system_ttl \subseteq {system_key(t) : t \in st.transactions}
    /\ st.expiration \subseteq {client_key(t) : t \in st.transactions}

(***************************************************************************)
(* The other indexes know of no other transactions, and hashes, size_bytes *)
(* and the timelines of exactly these.                                     *)
(***************************************************************************)
Indexed(st) ==
    /\ st.hashes = {hash(t) : t \in st.transactions}
    /\ st.size_bytes = estimated_bytes(st.transactions)
    /\ st.timeline = {timeline_entry(t) : t \in ReadyIn(st.transactions)}
    /\ st.priority \subseteq {priority_key(t) : t \in st.transactions}
    /\ st.parked \subseteq {parking_entry(t) : t \in st.transactions}
    /\ {t.sender : t \in st.transactions} \subseteq DOMAIN st.sequence_numbers

(***************************************************************************)
(* A transaction is in reach of the queue or of the parking lot.           *)
(***************************************************************************)
Placed(st, t) == priority_key(t) \in st.priority \/ parking_entry(t) \in st.parked

(***************************************************************************)
(* A ready transaction is queued and not parked, and one that is NotReady  *)
(* is not queued.                                                          *)
(***************************************************************************)
Queued(st, t) ==
    /\ t.state > 0 => priority_key(t) \in st.priority /\ parking_entry(t) \notin st.parked
    /\ t.state = NotReady => priority_key(t) \notin st.priority

(***************************************************************************)
(* What every function of the store keeps, up to the keys that a           *)
(* collection has taken out.                                               *)
(***************************************************************************)
Sound(st, X) ==
    /\ Shape(st) /\ Covered(st, X) /\ Indexed(st)
    /\ \A t \in st.transactions : Placed(st, t) /\ Queued(st, t)

(***************************************************************************)
(* The store has every transaction of a from n up to k.                    *)
(***************************************************************************)
NoGap(st, a, n, k) ==
    \A m \in n..k : \E u \in st.transactions : u.sender = a /\ u.seq = m

(***************************************************************************)
(* A transaction has not been passed by its account's sequence number, and *)
(* is queued and not parked if it follows that number without a gap.       *)
(***************************************************************************)
InTurn(st, t) ==
    LET n == st.sequence_numbers[t.sender]
    IN  /\ t.seq >= n
        /\ NoGap(st, t.sender, n, t.seq)
              => priority_key(t) \in st.priority /\ parking_entry(t) \notin st.parked

(***************************************************************************)
(* What every handler keeps besides: between the functions of a handler,   *)
(* as between the new number of a commit and the promotion, it may fail.   *)
(***************************************************************************)
InOrder(st) == \A t \in st.transactions : InTurn(st, t)

(***************************************************************************)
(* size_bytes: the bytes of a set without some of its members.             *)
(***************************************************************************)
LEMMA BytesOfPart ==
  ASSUME NEW T, IsFiniteSet(T), T \subseteq TxnRecord, NEW X, X \subseteq T
  PROVE  /\ estimated_bytes(T) \in Nat /\ estimated_bytes(X) \in Nat
         /\ estimated_bytes(T \ X) = estimated_bytes(T) - estimated_bytes(X)
  <1> DEFINE w(S) == [t \in S |-> Bytes[t.body]]
  <1>1. \A S : estimated_bytes(S) = SumOver(w(S), S)
    BY SMTT(40) DEF estimated_bytes, SumOver
  <1>2. \A t \in TxnRecord : Bytes[t.body] \in Nat
    BY MempoolAssumption, SMTT(40) DEF TxnRecord
  <1>3. ASSUME NEW S, S \subseteq T PROVE SumOver(w(S), S) = SumOver(w(T), S)
    <2> DEFINE i == [t \in S |-> t]
    <2>1. i \in Bijection(S, S)
      BY SMTT(40) DEF Bijection, Injection, Surjection, IsInjective
    <2>2. \A t \in S : w(T)[t] \in Nat /\ w(S)[i[t]] = w(T)[t]
      BY <1>2, <1>3, SMTT(40)
    <2>3. IsFiniteSet(S)
      BY <1>3, FS_Subset, SMTT(40)
    <2> HIDE DEF i, w
    <2> QED BY <2>1, <2>2, <2>3, SumOfImage, SMTT(40)
  <1>4. \A t \in T : w(T)[t] \in Nat
    BY <1>2, SMTT(40)
  <1>5. T \ X \subseteq T
    BY SMTT(40)
  <1> HIDE DEF w
  <1>6. /\ SumOver(w(T), X) \in Nat /\ SumOver(w(T), T \ X) \in Nat
        /\ SumOver(w(T), T) = SumOver(w(T), X) + SumOver(w(T), T \ X)
    BY <1>4, SumOfPart, SMTT(40)
  <1>7. /\ estimated_bytes(T) = SumOver(w(T), T)
        /\ estimated_bytes(X) = SumOver(w(T), X)
        /\ estimated_bytes(T \ X) = SumOver(w(T), T \ X)
    BY <1>1, <1>3, <1>5
  <1> QED BY <1>6, <1>7, SMTT(40)

(***************************************************************************)
(* size_bytes: the bytes of one transaction.                               *)
(***************************************************************************)
LEMMA BytesOfOne ==
  ASSUME NEW t \in TxnRecord
  PROVE  estimated_bytes({t}) = Bytes[t.body]
  <1> DEFINE w == [u \in {t} |-> Bytes[u.body]]
  <1>1. estimated_bytes({t}) = SumOver(w, {t})
    BY SMTT(40) DEF estimated_bytes, SumOver
  <1>2. w[t] = Bytes[t.body] /\ w[t] \in Nat
    BY MempoolAssumption, SMTT(40) DEF TxnRecord
  <1> HIDE DEF w
  <1> QED BY <1>1, <1>2, SumOfOne, SMTT(40)

(***************************************************************************)
(* The same transaction, whatever its state and whether it was parked.     *)
(***************************************************************************)
SameTxn(t, u) ==
    /\ u.sender = t.sender /\ u.seq = t.seq /\ u.gas = t.gas
    /\ u.body = t.body /\ u.inserted = t.inserted

(***************************************************************************)
(* No index key but the timeline's depends on the state of a transaction.  *)
(***************************************************************************)
LEMMA SameKeys ==
  ASSUME NEW t, NEW u, SameTxn(t, u)
  PROVE  /\ hash(u) = hash(t) /\ priority_key(u) = priority_key(t)
         /\ system_key(u) = system_key(t) /\ client_key(u) = client_key(t)
         /\ parking_entry(u) = parking_entry(t)
  BY SMTT(40)
     DEF SameTxn, hash, priority_key, system_key, client_key, ttl_key, parking_entry

(***************************************************************************)
(* Two transactions of a store share no key of any index.                  *)
(***************************************************************************)
LEMMA KeysDiffer ==
  ASSUME NEW T, Unique(T), NEW t \in T, NEW u \in T,
         \/ hash(u) = hash(t)
         \/ priority_key(u) = priority_key(t)
         \/ system_key(u) = system_key(t)
         \/ client_key(u) = client_key(t)
         \/ timeline_entry(u) = timeline_entry(t)
         \/ parking_entry(u) = parking_entry(t)
  PROVE  u = t
  <1>1. u.sender = t.sender /\ u.seq = t.seq
    BY DEF hash, priority_key, system_key, client_key, ttl_key, parking_entry, timeline_entry
  <1> QED BY <1>1, SMTT(40) DEF Unique

(***************************************************************************)
(* The transactions that index_remove leaves.                              *)
(***************************************************************************)
LEMMA RemoveLeaves ==
  ASSUME NEW st, Shape(st), NEW X
  PROVE  index_remove(st, X).transactions = st.transactions \ X
  BY SMTT(40) DEF index_remove, Shape, Field

(***************************************************************************)
(* index_remove keeps the store sound (transaction_store.rs:621-651), and  *)
(* completes a collection: the transactions whose keys were taken out      *)
(* before are gone with the rest of their keys.                            *)
(***************************************************************************)
LEMMA RemoveKeeps ==
  ASSUME NEW st, NEW X, X \subseteq st.transactions, Sound(st, X)
  PROVE  Sound(index_remove(st, X), {})
  <1> DEFINE r == index_remove(st, X)
             T == st.transactions
             gone == {t.sender : t \in X} \ {t.sender : t \in T \ X}
  <1>1. /\ r = [f \in Field |-> r[f]]
        /\ r.transactions = T \ X
        /\ r.system_ttl = st.system_ttl \ {system_key(t) : t \in X}
        /\ r.expiration = st.expiration \ {client_key(t) : t \in X}
        /\ r.priority = st.priority \ {priority_key(t) : t \in X}
        /\ r.timeline = st.timeline \ {timeline_entry(t) : t \in ReadyIn(X)}
        /\ r.parked = st.parked \ {parking_entry(t) : t \in X}
        /\ r.hashes = st.hashes \ {hash(t) : t \in X}
        /\ r.size_bytes = st.size_bytes - estimated_bytes(X)
        /\ r.sequence_numbers = [a \in DOMAIN st.sequence_numbers \ gone |->
                                    st.sequence_numbers[a]]
        /\ r.timeline_id = st.timeline_id
    <2>1. Shape(st)
      BY ZenonT(40) DEF Sound
    <2> QED BY <2>1, ZenonT(40) DEF index_remove, Shape, Field
  <1>2. /\ Unique(T) /\ T \subseteq TxnRecord /\ IsFiniteSet(T)
        /\ st.sequence_numbers \in [DOMAIN st.sequence_numbers -> Nat]
        /\ st.timeline_id \in [Bucket -> Nat \ {0}]
    BY SMTT(40) DEF Sound, Shape
  <1>3. \A t \in T \ X, u \in X :
            /\ hash(u) # hash(t) /\ priority_key(u) # priority_key(t)
            /\ system_key(u) # system_key(t) /\ client_key(u) # client_key(t)
            /\ timeline_entry(u) # timeline_entry(t)
            /\ parking_entry(u) # parking_entry(t)
    BY <1>2, KeysDiffer, SMTT(40)
  <1> HIDE DEF r
  <1>4. Shape(r)
    <2>1. IsFiniteSet(T \ X)
      BY <1>2, FS_Subset, SMTT(40)
    <2>2. Unique(T \ X)
      BY <1>2, SMTT(40) DEF Unique
    <2>3. /\ DOMAIN r.sequence_numbers = DOMAIN st.sequence_numbers \ gone
          /\ r.sequence_numbers \in [DOMAIN st.sequence_numbers \ gone -> Nat]
      BY <1>1, <1>2, ZenonT(40)
    <2> QED BY <1>1, <1>2, <2>1, <2>2, <2>3, ZenonT(40) DEF Shape
  <1>5. Covered(r, {})
    <2>1. ASSUME NEW t \in T \ X
          PROVE  system_key(t) \in r.system_ttl /\ client_key(t) \in r.expiration
      <3>1. system_key(t) \in st.system_ttl /\ client_key(t) \in st.expiration
        BY SMTT(40) DEF Sound, Covered
      <3> QED BY <1>1, <1>3, <3>1, SMTT(40)
    <2>2. ASSUME NEW k \in r.system_ttl PROVE k \in {system_key(t) : t \in T \ X}
      <3>1. k \in st.system_ttl /\ k \notin {system_key(t) : t \in X}
        BY <1>1, SMTT(40)
      <3>2. PICK t \in T : k = system_key(t)
        BY <3>1, SMTT(40) DEF Sound, Covered
      <3> QED BY <3>1, <3>2, SMTT(40)
    <2>3. ASSUME NEW k \in r.expiration PROVE k \in {client_key(t) : t \in T \ X}
      <3>1. k \in st.expiration /\ k \notin {client_key(t) : t \in X}
        BY <1>1, SMTT(40)
      <3>2. PICK t \in T : k = client_key(t)
        BY <3>1, SMTT(40) DEF Sound, Covered
      <3> QED BY <3>1, <3>2, SMTT(40)
    <2>4. r.transactions = T \ X
      BY <1>1, SMTT(40)
    <2> QED BY <2>1, <2>2, <2>3, <2>4, SMTT(40) DEF Covered
  <1>6. Indexed(r)
    <2>1. r.hashes = {hash(t) : t \in T \ X}
      BY <1>1, <1>3, SMTT(40) DEF Sound, Indexed
    <2>2. r.size_bytes = estimated_bytes(T \ X)
      BY <1>1, <1>2, BytesOfPart, SMTT(40) DEF Sound, Indexed
    <2>3. r.timeline = {timeline_entry(t) : t \in ReadyIn(T \ X)}
      <3>1. st.timeline = {timeline_entry(t) : t \in ReadyIn(T)}
        BY SMTT(40) DEF Sound, Indexed
      <3>2. \A t : t \in ReadyIn(T) <=> t \in ReadyIn(X) \/ t \in ReadyIn(T \ X)
        BY SMTT(40) DEF ReadyIn
      <3>3. \A t \in ReadyIn(T \ X), u \in ReadyIn(X) :
                timeline_entry(u) # timeline_entry(t)
        BY <1>3 DEF ReadyIn
      <3>4. ASSUME NEW k \in r.timeline
            PROVE  k \in {timeline_entry(t) : t \in ReadyIn(T \ X)}
        BY <1>1, <3>1, <3>2, ZenonT(40)
      <3>5. ASSUME NEW t \in ReadyIn(T \ X) PROVE timeline_entry(t) \in r.timeline
        BY <1>1, <3>1, <3>2, <3>3, ZenonT(40)
      <3> QED BY <3>4, <3>5, SMTT(40)
    <2>4. /\ r.priority \subseteq {priority_key(t) : t \in T \ X}
          /\ r.parked \subseteq {parking_entry(t) : t \in T \ X}
      <3>1. ASSUME NEW k \in r.priority PROVE k \in {priority_key(t) : t \in T \ X}
        BY <1>1, SMTT(40) DEF Sound, Indexed
      <3>2. ASSUME NEW k \in r.parked PROVE k \in {parking_entry(t) : t \in T \ X}
        BY <1>1, SMTT(40) DEF Sound, Indexed
      <3> QED BY <3>1, <3>2
    <2>5. {t.sender : t \in T \ X} \subseteq DOMAIN r.sequence_numbers
      BY <1>1, SMTT(40) DEF Sound, Indexed
    <2> QED BY <1>1, <2>1, <2>2, <2>3, <2>4, <2>5, ZenonT(40) DEF Indexed
  <1>7. \A t \in T \ X : Placed(r, t) /\ Queued(r, t)
    BY <1>1, <1>3, SMTT(40) DEF Sound, Placed, Queued
  <1> QED BY <1>1, <1>4, <1>5, <1>6, <1>7, SMTT(40) DEF Sound, r

(***************************************************************************)
(* A transaction u stays in turn as t was, in a store where nothing is new *)
(* in its account.                                                         *)
(***************************************************************************)
LEMMA StaysInTurn ==
  ASSUME NEW st, NEW s, NEW t, NEW u, SameTxn(t, u), InTurn(st, t),
         s.sequence_numbers[t.sender] = st.sequence_numbers[t.sender],
         \A v \in s.transactions : v.sender = t.sender
             => \E w \in st.transactions : w.sender = t.sender /\ w.seq = v.seq,
         priority_key(t) \in st.priority => priority_key(t) \in s.priority,
         parking_entry(t) \in s.parked => parking_entry(t) \in st.parked
  PROVE  InTurn(s, u)
  <1> DEFINE n == st.sequence_numbers[t.sender]
  <1>1. /\ u.sender = t.sender /\ u.seq = t.seq
        /\ priority_key(u) = priority_key(t) /\ parking_entry(u) = parking_entry(t)
    BY SameKeys, Zenon DEF SameTxn
  <1>2. NoGap(s, t.sender, n, t.seq) => NoGap(st, t.sender, n, t.seq)
    <2> SUFFICES ASSUME NoGap(s, t.sender, n, t.seq), NEW m \in n..t.seq
                 PROVE  \E w \in st.transactions : w.sender = t.sender /\ w.seq = m
      BY Zenon DEF NoGap
    <2>1. PICK v \in s.transactions : v.sender = t.sender /\ v.seq = m
      BY Zenon DEF NoGap
    <2>2. PICK w \in st.transactions : w.sender = t.sender /\ w.seq = v.seq
      BY <2>1, Zenon
    <2> QED BY <2>1, <2>2, Zenon
  <1>3. s.sequence_numbers[t.sender] = n
    BY Zenon
  <1>4. /\ t.seq >= n
        /\ NoGap(st, t.sender, n, t.seq)
             => priority_key(t) \in st.priority /\ parking_entry(t) \notin st.parked
    BY Zenon DEF InTurn
  <1> HIDE DEF n
  <1> QED BY <1>1, <1>2, <1>3, <1>4, Zenon DEF InTurn

(***************************************************************************)
(* index_remove keeps the accounts in order (transaction_store.rs:         *)
(* 621-651): a removal can only shorten what follows a number without a    *)
(* gap.                                                                    *)
(***************************************************************************)
LEMMA RemoveOrder ==
  ASSUME NEW st, NEW X, X \subseteq st.transactions, Sound(st, X), InOrder(st)
  PROVE  InOrder(index_remove(st, X))
  <1> DEFINE r == index_remove(st, X)
             T == st.transactions
             gone == {t.sender : t \in X} \ {t.sender : t \in T \ X}
  <1>1. /\ r.transactions = T \ X
        /\ r.priority = st.priority \ {priority_key(t) : t \in X}
        /\ r.parked = st.parked \ {parking_entry(t) : t \in X}
        /\ r.sequence_numbers = [a \in DOMAIN st.sequence_numbers \ gone |->
                                    st.sequence_numbers[a]]
    <2>1. Shape(st)
      BY Zenon DEF Sound
    <2> QED BY <2>1, ZenonT(40) DEF index_remove, Shape, Field
  <1>2. Unique(T) /\ {t.sender : t \in T} \subseteq DOMAIN st.sequence_numbers
    BY Zenon DEF Sound, Shape, Indexed
  <1> HIDE DEF r
  <1>3. ASSUME NEW t \in r.transactions PROVE InTurn(r, t)
    <2>1. t \in T \ X /\ InTurn(st, t) /\ SameTxn(t, t)
      BY <1>1, <1>3, Zenon DEF InOrder, SameTxn
    <2>2. t.sender \in DOMAIN st.sequence_numbers \ gone
      BY <1>2, <2>1, Zenon
    <2>3. r.sequence_numbers[t.sender] = st.sequence_numbers[t.sender]
      BY <1>1, <2>2, Zenon
    <2>4. \A v \in r.transactions : v.sender = t.sender
              => \E w \in T : w.sender = t.sender /\ w.seq = v.seq
      BY <1>1, Zenon
    <2>5. \A x \in X : priority_key(x) # priority_key(t)
      BY <1>2, <2>1, KeysDiffer, Zenon
    <2>6. /\ priority_key(t) \in st.priority => priority_key(t) \in r.priority
          /\ parking_entry(t) \in r.parked => parking_entry(t) \in st.parked
      BY <1>1, <2>5, Zenon
    <2> QED BY <2>1, <2>3, <2>4, <2>6, StaysInTurn, Zenon
  <1> QED BY <1>3, Zenon DEF InOrder, r

(***************************************************************************)
(* A change of the state and was_parked of transactions in place.          *)
(***************************************************************************)
Marks(g, T) ==
    g \in [T -> TxnRecord] /\ \A t \in T : SameTxn(t, g[t])

(***************************************************************************)
(* The transactions after such a change.                                   *)
(***************************************************************************)
Marked(g, T) == {g[t] : t \in T}

(***************************************************************************)
(* A change in place keeps the transactions apart, their bytes, and all    *)
(* their keys but the timeline's.                                          *)
(***************************************************************************)
LEMMA MarkKeeps ==
  ASSUME NEW T, T \subseteq TxnRecord, IsFiniteSet(T), Unique(T), NEW g, Marks(g, T),
         NEW M, M = Marked(g, T)
  PROVE  /\ M \subseteq TxnRecord /\ IsFiniteSet(M) /\ Unique(M)
         /\ estimated_bytes(M) = estimated_bytes(T)
         /\ \A t \in T : /\ hash(g[t]) = hash(t)
                         /\ priority_key(g[t]) = priority_key(t)
                         /\ system_key(g[t]) = system_key(t)
                         /\ client_key(g[t]) = client_key(t)
                         /\ parking_entry(g[t]) = parking_entry(t)
                         /\ g[t].sender = t.sender
  <1> DEFINE w(S) == [t \in S |-> Bytes[t.body]]
  <1>1. M \subseteq TxnRecord /\ Unique(M)
    BY SMTT(40) DEF Marks, Unique, SameTxn, Marked
  <1>2. g \in Bijection(T, M)
    <2>1. g \in [T -> M] /\ \A y \in M : \E x \in T : g[x] = y
      BY SMTT(40) DEF Marks, Marked
    <2>2. \A x, y \in T : g[x] = g[y] => x = y
      BY SMTT(40) DEF Marks, Unique, SameTxn
    <2> QED BY <2>1, <2>2, SMTT(40) DEF Bijection, Injection, Surjection, IsInjective
  <1>3. \A t \in T : w(T)[t] \in Nat /\ w(M)[g[t]] = w(T)[t]
    <2>1. \A t \in TxnRecord : Bytes[t.body] \in Nat
      BY MempoolAssumption, SMTT(40) DEF TxnRecord
    <2> QED BY <2>1, SMTT(40) DEF Marks, SameTxn, Marked
  <1>4. \A S : estimated_bytes(S) = SumOver(w(S), S)
    BY SMTT(40) DEF estimated_bytes, SumOver
  <1>5. IsFiniteSet(M) /\ SumOver(w(M), M) = SumOver(w(T), T)
    <2> HIDE DEF w
    <2> QED BY <1>2, <1>3, SumOfImage, SMTT(40)
  <1>6. \A t \in T : /\ hash(g[t]) = hash(t)
                     /\ priority_key(g[t]) = priority_key(t)
                     /\ system_key(g[t]) = system_key(t)
                     /\ client_key(g[t]) = client_key(t)
                     /\ parking_entry(g[t]) = parking_entry(t)
                     /\ g[t].sender = t.sender
    BY SameKeys, SMTT(40) DEF Marks, SameTxn
  <1> QED BY <1>1, <1>4, <1>5, <1>6, ZenonT(40)

(***************************************************************************)
(* So it leaves the store as sound as it was, the timelines, the priority  *)
(* queue and the parking lot aside.                                        *)
(***************************************************************************)
LEMMA MarkedStore ==
  ASSUME NEW st, NEW X, Shape(st), Covered(st, X), Indexed(st),
         NEW g, Marks(g, st.transactions), \A t \in X \cap st.transactions : g[t] = t,
         NEW m, m = [f \in Field |-> m[f]],
         m.transactions = Marked(g, st.transactions),
         m.system_ttl = st.system_ttl, m.expiration = st.expiration,
         m.hashes = st.hashes, m.size_bytes = st.size_bytes,
         m.sequence_numbers = st.sequence_numbers,
         m.timeline_id \in [Bucket -> Nat \ {0}]
  PROVE  /\ Shape(m) /\ Covered(m, X)
         /\ m.hashes = {hash(u) : u \in m.transactions}
         /\ m.size_bytes = estimated_bytes(m.transactions)
         /\ {u.sender : u \in m.transactions} \subseteq DOMAIN m.sequence_numbers
  <1> DEFINE T == st.transactions
             M == m.transactions
  <1>1. T \subseteq TxnRecord /\ IsFiniteSet(T) /\ Unique(T)
    BY SMTT(40) DEF Shape
  <1>2. /\ M \subseteq TxnRecord /\ IsFiniteSet(M) /\ Unique(M)
        /\ estimated_bytes(M) = estimated_bytes(T)
        /\ \A t \in T : /\ hash(g[t]) = hash(t)
                        /\ system_key(g[t]) = system_key(t)
                        /\ client_key(g[t]) = client_key(t)
                        /\ g[t].sender = t.sender
    <2>1. M = Marked(g, T) /\ Marks(g, T)
      BY SMTT(40)
    <2> HIDE DEF M, T
    <2> QED BY <1>1, <2>1, MarkKeeps, SMTT(40)
  <1>3. \A u \in M : \E t \in T : u = g[t]
    BY SMTT(40) DEF Marked
  <1>4. \A t \in T : g[t] \in M
    BY SMTT(40) DEF Marked
  <1>5. Shape(m)
    BY <1>2, ZenonT(40) DEF Shape
  <1>6. Covered(m, X)
    <2>1. ASSUME NEW u \in M \ X
          PROVE  system_key(u) \in m.system_ttl /\ client_key(u) \in m.expiration
      <3>1. PICK t \in T : u = g[t]
        BY <1>3, SMTT(40)
      <3>2. t \notin X
        BY <3>1, <2>1, SMTT(40)
      <3> QED BY <1>2, <3>1, <3>2, SMTT(40) DEF Covered
    <2>2. ASSUME NEW k \in m.system_ttl PROVE k \in {system_key(u) : u \in M}
      <3>1. PICK t \in T : k = system_key(t)
        BY SMTT(40) DEF Covered
      <3> QED BY <1>2, <1>4, <3>1, SMTT(40)
    <2>3. ASSUME NEW k \in m.expiration PROVE k \in {client_key(u) : u \in M}
      <3>1. PICK t \in T : k = client_key(t)
        BY SMTT(40) DEF Covered
      <3> QED BY <1>2, <1>4, <3>1, SMTT(40)
    <2> QED BY <2>1, <2>2, <2>3, Zenon DEF Covered
  <1>7. m.hashes = {hash(u) : u \in M}
    <2>1. m.hashes = {hash(t) : t \in T}
      BY SMTT(40) DEF Indexed
    <2>2. ASSUME NEW k \in m.hashes PROVE k \in {hash(u) : u \in M}
      BY <1>2, <1>4, <2>1, SMTT(40)
    <2>3. ASSUME NEW u \in M PROVE hash(u) \in m.hashes
      <3>1. PICK t \in T : u = g[t]
        BY <1>3, SMTT(40)
      <3>2. hash(u) = hash(t)
        BY <1>2, <3>1, SMTT(40)
      <3> QED BY <2>1, <3>2, SMTT(40)
    <2> QED BY <2>2, <2>3, SMTT(40)
  <1>8. {u.sender : u \in M} \subseteq DOMAIN m.sequence_numbers
    BY <1>2, <1>3, SMTT(40) DEF Indexed
  <1> QED BY <1>2, <1>5, <1>6, <1>7, <1>8, ZenonT(40) DEF Indexed

(***************************************************************************)
(* A transaction as gc parks it.                                           *)
(***************************************************************************)
Waiting(t) == [t EXCEPT !.state = IF t.state > 0 THEN NotReady ELSE @,
                        !.was_parked = TRUE]

(***************************************************************************)
(* The inner loop of gc keeps the store sound                              *)
(* (transaction_store.rs:832-849): what it takes out of the queue it       *)
(* parks, and what it takes out of the timelines is no longer ready.       *)
(***************************************************************************)
LEMMA ParkKeeps ==
  ASSUME NEW st, NEW X, Sound(st, X), NEW W, W \subseteq st.transactions \ X
  PROVE  /\ Sound(park(st, W), X)
         /\ park(st, W).transactions = (st.transactions \ W) \cup {Waiting(t) : t \in W}
  <1> DEFINE T == st.transactions
             g == [t \in T |-> IF t \in W THEN Waiting(t) ELSE t]
             m == park(st, W)
  <1>1. /\ m = [f \in Field |-> m[f]]
        /\ m.transactions = (T \ W) \cup {Waiting(t) : t \in W}
        /\ m.system_ttl = st.system_ttl /\ m.expiration = st.expiration
        /\ m.hashes = st.hashes /\ m.size_bytes = st.size_bytes
        /\ m.sequence_numbers = st.sequence_numbers
        /\ m.timeline_id = st.timeline_id
        /\ m.priority = st.priority \ {priority_key(t) : t \in W}
        /\ m.timeline = st.timeline \ {timeline_entry(t) : t \in ReadyIn(W)}
        /\ m.parked = st.parked \cup {parking_entry(t) : t \in W}
    BY ZenonT(40) DEF Sound, Shape, Field, park, Waiting
  <1>2. /\ Shape(st) /\ Covered(st, X) /\ Indexed(st)
        /\ T \subseteq TxnRecord /\ IsFiniteSet(T) /\ Unique(T)
        /\ m.timeline_id \in [Bucket -> Nat \ {0}]
    BY <1>1, ZenonT(40) DEF Sound, Shape
  <1> HIDE DEF m
  <1>3. \A t \in TxnRecord : Waiting(t) \in TxnRecord /\ SameTxn(t, Waiting(t))
                             /\ Waiting(t).state <= 0
    <2> SUFFICES ASSUME NEW t \in TxnRecord
                 PROVE  Waiting(t) \in TxnRecord /\ SameTxn(t, Waiting(t))
                        /\ Waiting(t).state <= 0
      OBVIOUS
    <2> DEFINE w == Waiting(t)
    <2>1. /\ w = [f \in DOMAIN t |-> w[f]]
          /\ w.sender = t.sender /\ w.seq = t.seq /\ w.gas = t.gas /\ w.body = t.body
          /\ w.inserted = t.inserted /\ w.was_parked = TRUE
          /\ w.state = IF t.state > 0 THEN NotReady ELSE t.state
      BY ZenonT(40) DEF TxnRecord, Waiting
    <2> HIDE DEF w
    <2>2. w.state \in Int /\ w.state <= 0
      BY <2>1 DEF TxnRecord, NotReady
    <2>3. w \in TxnRecord
      BY <2>1, <2>2, ZenonT(40) DEF TxnRecord
    <2> QED BY <2>1, <2>2, <2>3, SMTT(40) DEF SameTxn, w
  <1>4. Marks(g, T)
    <2>1. \A t \in TxnRecord : SameTxn(t, t)
      BY DEF SameTxn
    <2> QED BY <1>2, <1>3, <2>1, ZenonT(40) DEF Marks
  <1>5. m.transactions = {g[t] : t \in T}
    BY <1>1, ZenonT(40)
  <1>6. \A t \in X \cap T : g[t] = t
    OBVIOUS
  <1>7. \A t \in T : priority_key(g[t]) = priority_key(t)
                     /\ parking_entry(g[t]) = parking_entry(t)
    <2> HIDE DEF g
    <2> QED BY <1>4, SameKeys DEF Marks
  <1>8. \A t \in T \ W : g[t] = t
    BY SMTT(40)
  <1>9. \A t \in W : g[t].state <= 0
    BY <1>2, <1>3, SMTT(40)
  <1> HIDE DEF g
  <1>10. /\ Shape(m) /\ Covered(m, X)
         /\ m.hashes = {hash(u) : u \in m.transactions}
         /\ m.size_bytes = estimated_bytes(m.transactions)
         /\ {u.sender : u \in m.transactions} \subseteq DOMAIN m.sequence_numbers
    <2>1. m.transactions = Marked(g, T)
      BY <1>5, SMTT(40) DEF Marked
    <2> QED BY <1>1, <1>2, <1>4, <1>6, <2>1, MarkedStore, SMTT(40)
  <1>11. \A t \in T \ W, u \in W :
            /\ priority_key(u) # priority_key(t)
            /\ timeline_entry(u) # timeline_entry(t)
            /\ parking_entry(u) # parking_entry(t)
    BY <1>2, KeysDiffer, ZenonT(40)
  <1>12. m.timeline = {timeline_entry(u) : u \in ReadyIn(m.transactions)}
    <2>1. \A u : u \in ReadyIn(m.transactions) <=> u \in ReadyIn(T \ W)
      <3>1. \A t \in W : g[t].state \in Int
        BY <1>2, <1>4, ZenonT(40) DEF Marks, TxnRecord
      <3> QED BY <1>5, <1>8, <1>9, <3>1, SMTT(40) DEF ReadyIn
    <2>2. st.timeline = {timeline_entry(t) : t \in ReadyIn(T)}
      BY <1>2, SMTT(40) DEF Indexed
    <2>3. \A t : t \in ReadyIn(T) <=> t \in ReadyIn(W) \/ t \in ReadyIn(T \ W)
      BY SMTT(40) DEF ReadyIn
    <2>4. \A t \in ReadyIn(T \ W), u \in ReadyIn(W) :
              timeline_entry(u) # timeline_entry(t)
      BY <1>11, SMTT(40) DEF ReadyIn
    <2>5. ASSUME NEW k \in m.timeline
          PROVE  k \in {timeline_entry(t) : t \in ReadyIn(T \ W)}
      BY <1>1, <2>2, <2>3, ZenonT(40)
    <2>6. ASSUME NEW t \in ReadyIn(T \ W) PROVE timeline_entry(t) \in m.timeline
      BY <1>1, <2>2, <2>3, <2>4, SMTT(40)
    <2>7. ReadyIn(m.transactions) = ReadyIn(T \ W)
      BY <2>1, Zenon
    <2> QED BY <2>5, <2>6, <2>7, ZenonT(40)
  <1>13. ASSUME NEW k \in m.priority PROVE k \in {priority_key(u) : u \in m.transactions}
    <2>1. PICK t \in T : k = priority_key(t)
      BY <1>1, <1>2, ZenonT(40) DEF Indexed
    <2> QED BY <1>5, <1>7, <2>1
  <1>14. ASSUME NEW k \in m.parked PROVE k \in {parking_entry(u) : u \in m.transactions}
    <2>1. PICK t \in T : k = parking_entry(t)
      BY <1>1, <1>2, ZenonT(40) DEF Indexed
    <2> QED BY <1>5, <1>7, <2>1, SMTT(40)
  <1>15. Indexed(m)
    BY <1>10, <1>12, <1>13, <1>14, ZenonT(40) DEF Indexed
  <1>16. ASSUME NEW t \in T PROVE Placed(m, g[t]) /\ Queued(m, g[t])
    <2>1. CASE t \in W
      <3>1. parking_entry(t) \in m.parked /\ priority_key(t) \notin m.priority
        BY <1>1, <2>1, Zenon
      <3>2. ~(g[t].state > 0)
        BY <1>4, <1>9, <2>1, SMTT(40) DEF Marks, TxnRecord
      <3> QED BY <1>7, <3>1, <3>2, Zenon DEF Placed, Queued
    <2>2. CASE t \notin W
      <3>1. Placed(st, t) /\ Queued(st, t)
        BY ZenonT(40) DEF Sound
      <3>2. /\ priority_key(t) \in st.priority <=> priority_key(t) \in m.priority
            /\ parking_entry(t) \in st.parked <=> parking_entry(t) \in m.parked
        BY <1>1, <1>11, <2>2, ZenonT(40)
      <3>3. g[t] = t
        BY <1>8, <2>2, SMTT(40)
      <3> QED BY <3>1, <3>2, <3>3, ZenonT(40) DEF Placed, Queued
    <2> QED BY <2>1, <2>2, SMTT(40)
  <1>17. Sound(m, X)
    <2>1. \A u \in m.transactions : Placed(m, u) /\ Queued(m, u)
      BY <1>5, <1>16, SMTT(40)
    <2> QED BY <1>10, <1>15, <2>1, ZenonT(40) DEF Sound
  <1> QED BY <1>1, <1>17, ZenonT(40) DEF m

(***************************************************************************)
(* Every gas price has a fee bucket, since the first one starts at zero    *)
(* (index.rs:369-376).                                                     *)
(***************************************************************************)
LEMMA BucketOf ==
  ASSUME NEW gas \in Nat
  PROVE  bucket(gas) \in Bucket
  <1> DEFINE S == {b \in Bucket : BucketMins[b] <= gas}
             N == Len(BucketMins)
             B == {n \in Nat : \E b \in S : n = N - b}
  <1>1. N \in Nat /\ Bucket = 1..N /\ 1 \in S
    BY MempoolAssumption DEF Bucket
  <1>2. B \subseteq Nat /\ B # {}
    <2>1. N - 1 \in B
      BY <1>1, SMTT(40)
    <2> QED BY <2>1, ZenonT(40)
  <1>3. PICK n \in B : \A m \in B : n <= m
    <2> HIDE DEF B
    <2> QED BY <1>2, SmallestNumber, ZenonT(40)
  <1>4. PICK b \in S : n = N - b
    BY <1>3, SMTT(40)
  <1>5. \A c \in S : b >= c
    <2> SUFFICES ASSUME NEW c \in S PROVE b >= c
      BY SMTT(40)
    <2>1. c \in 1..N /\ b \in 1..N
      BY <1>1, SMTT(40)
    <2>2. N - c \in Nat
      BY <1>1, <2>1, SMTT(40)
    <2>3. N - c \in B
      BY <2>2, SMTT(40)
    <2>4. n <= N - c
      BY <1>3, <2>3, SMTT(40)
    <2> HIDE DEF B, S, N
    <2> QED BY <1>1, <1>4, <2>1, <2>4, SMTT(40)
  <1>6. Max(S) \in S
    BY <1>4, <1>5, SMTT(40) DEF Max
  <1> QED BY <1>6, SMTT(40) DEF bucket

(***************************************************************************)
(* The stores on which process_ready_transactions is called: only the      *)
(* account in question may have a transaction that is neither queued nor   *)
(* parked, and it has none below the given number.                         *)
(***************************************************************************)
ReadyToRun(st, a, n) ==
    /\ Shape(st) /\ Covered(st, {}) /\ Indexed(st)
    /\ \A t \in st.transactions :
        /\ Queued(st, t)
        /\ t.sender # a => Placed(st, t)
        /\ t.sender = a => t.seq >= n

(***************************************************************************)
(* process_ready_transactions makes such a store sound                     *)
(* (transaction_store.rs:479-548). The account's run is queued, the        *)
(* NotReady ones of it are numbered and enter the timelines, and what is   *)
(* past the gap is parked unless it is ready; a ready one is in the queue  *)
(* already.                                                                *)
(***************************************************************************)
LEMMA RunKeeps ==
  ASSUME NEW st, NEW a, NEW n \in Nat, ReadyToRun(st, a, n)
  PROVE  Sound(process_ready_transactions(st, a, n), {})
  <1> DEFINE T == st.transactions
             m == process_ready_transactions(st, a, n)
             run == Run(st, a, n)
             fresh == {t \in run : t.state = NotReady}
             beyond == {t \in T \ run : t.sender = a /\ t.seq >= n /\ ToPark(t)}
             InBucket(b) == {t \in fresh : bucket(t.gas) = b}
             Earlier(t) == {u \in InBucket(bucket(t.gas)) : u.seq < t.seq}
             id(t) == st.timeline_id[bucket(t.gas)] + Cardinality(Earlier(t))
             R(t) == [t EXCEPT !.state = id(t)]
             P(t) == [t EXCEPT !.was_parked = TRUE]
             g == [t \in T |-> IF t \in fresh THEN R(t) ELSE IF t \in beyond THEN P(t) ELSE t]
  <1>1. /\ m = [f \in Field |-> m[f]]
        /\ m.transactions = (T \ (fresh \cup beyond)) \cup {R(t) : t \in fresh}
                                \cup {P(t) : t \in beyond}
        /\ m.system_ttl = st.system_ttl /\ m.expiration = st.expiration
        /\ m.hashes = st.hashes /\ m.size_bytes = st.size_bytes
        /\ m.sequence_numbers = st.sequence_numbers
        /\ m.timeline_id = [b \in Bucket |-> st.timeline_id[b] + Cardinality(InBucket(b))]
        /\ m.priority = st.priority \cup {priority_key(t) : t \in run}
        /\ m.timeline = st.timeline \cup {timeline_entry(R(t)) : t \in fresh}
        /\ m.parked = (st.parked \ {parking_entry(t) : t \in run})
                          \cup {parking_entry(t) : t \in beyond}
    BY ZenonT(40) DEF ReadyToRun, Shape, Field, process_ready_transactions
  <1>2. /\ Shape(st) /\ Covered(st, {}) /\ Indexed(st)
        /\ T \subseteq TxnRecord /\ IsFiniteSet(T) /\ Unique(T)
        /\ st.timeline_id \in [Bucket -> Nat \ {0}]
    BY DEF ReadyToRun, Shape
  <1> HIDE DEF m
  <1>3. /\ run \subseteq T /\ fresh \subseteq run /\ beyond \subseteq T \ run
        /\ \A t \in fresh : t.state = 0
        /\ \A t \in beyond : t.state <= 0
    BY ZenonT(40) DEF Run, NotReady, ToPark
  <1>4. \A t \in T : t.sender = a /\ t \notin run /\ t \notin beyond => t.state > 0
    BY <1>2, SMTT(40) DEF ReadyToRun, ToPark, TxnRecord
  <1> HIDE DEF run, beyond
  <1>5. ASSUME NEW t \in fresh PROVE id(t) \in Nat \ {0}
    <2>1. bucket(t.gas) \in Bucket
      BY <1>2, <1>3, BucketOf, ZenonT(40) DEF TxnRecord
    <2>2. Earlier(t) \subseteq T
      BY <1>3, SMTT(40)
    <2>3. Cardinality(Earlier(t)) \in Nat
      <3> HIDE DEF Earlier
      <3> QED BY <1>2, <2>2, FS_Subset, FS_CardinalityType, ZenonT(40)
    <2> QED BY <1>2, <2>1, <2>3, SMTT(40)
  <1>6. m.timeline_id \in [Bucket -> Nat \ {0}]
    <2>1. ASSUME NEW b \in Bucket PROVE Cardinality(InBucket(b)) \in Nat
      <3>1. InBucket(b) \subseteq T
        BY <1>3, SMTT(40)
      <3> HIDE DEF InBucket
      <3> QED BY <1>2, <3>1, FS_Subset, FS_CardinalityType, ZenonT(40)
    <2> HIDE DEF InBucket
    <2> QED BY <1>1, <1>2, <2>1, SMTT(40)
  <1> HIDE DEF id
  <1>7. \A t \in T : /\ g[t] \in TxnRecord /\ SameTxn(t, g[t])
                     /\ t \in fresh => g[t] = R(t) /\ g[t].state = id(t)
                     /\ t \notin fresh => g[t].state = t.state
                     /\ t \notin fresh \cup beyond => g[t] = t
    <2>1. ASSUME NEW t \in fresh
          PROVE  R(t) \in TxnRecord /\ SameTxn(t, R(t)) /\ R(t).state = id(t)
      <3>1. t \in TxnRecord /\ id(t) \in Int
        <4>1. t \in TxnRecord
          BY <1>2, <1>3, Zenon
        <4>2. id(t) \in Nat \ {0}
          BY <1>5, Zenon
        <4> QED BY <4>1, <4>2
      <3> QED BY <3>1, SMTT(40) DEF TxnRecord, SameTxn
    <2>2. ASSUME NEW t \in T
          PROVE  P(t) \in TxnRecord /\ SameTxn(t, P(t)) /\ P(t).state = t.state
      BY <1>2, ZenonT(40) DEF TxnRecord, SameTxn
    <2>3. \A t \in T : t \in TxnRecord /\ SameTxn(t, t)
      BY <1>2, ZenonT(40) DEF SameTxn
    <2> HIDE DEF R, P
    <2> QED BY <2>1, <2>2, <2>3, ZenonT(40)
  <1>8. m.transactions = {g[t] : t \in T}
    <2>1. \A t \in T : g[t] = IF t \in fresh THEN R(t) ELSE IF t \in beyond THEN P(t) ELSE t
      BY SMTT(40)
    <2>2. fresh \subseteq T /\ beyond \subseteq T /\ fresh \cap beyond = {}
      BY <1>3, SMTT(40)
    <2> HIDE DEF g, R, P, fresh
    <2>3. ASSUME NEW u \in m.transactions PROVE u \in {g[t] : t \in T}
      BY <1>1, <2>1, <2>2, SMTT(40)
    <2>4. ASSUME NEW t \in T PROVE g[t] \in m.transactions
      BY <1>1, <2>1, <2>2, SMTT(40)
    <2> QED BY <2>3, <2>4, ZenonT(40)
  <1>9. Marks(g, T)
    <2>1. g \in [T -> TxnRecord]
      BY <1>7, ZenonT(40)
    <2> HIDE DEF g
    <2> QED BY <1>7, <2>1, ZenonT(40) DEF Marks
  <1> HIDE DEF g
  <1>10. \A t \in T : priority_key(g[t]) = priority_key(t)
                      /\ parking_entry(g[t]) = parking_entry(t)
    BY <1>9, SameKeys, ZenonT(40) DEF Marks
  <1>11. /\ Shape(m) /\ Covered(m, {})
         /\ m.hashes = {hash(u) : u \in m.transactions}
         /\ m.size_bytes = estimated_bytes(m.transactions)
         /\ {u.sender : u \in m.transactions} \subseteq DOMAIN m.sequence_numbers
    <2> DEFINE none == {}
    <2>1. Covered(st, none) /\ \A t \in none \cap T : g[t] = t
      BY <1>2, SMTT(40)
    <2>2. /\ m = [f \in Field |-> m[f]]
          /\ m.system_ttl = st.system_ttl /\ m.expiration = st.expiration
          /\ m.hashes = st.hashes /\ m.size_bytes = st.size_bytes
          /\ m.sequence_numbers = st.sequence_numbers
      BY <1>1, SMTT(40)
    <2> HIDE DEF none
    <2>3. /\ Shape(m) /\ Covered(m, none)
          /\ m.hashes = {hash(u) : u \in m.transactions}
          /\ m.size_bytes = estimated_bytes(m.transactions)
          /\ {u.sender : u \in m.transactions} \subseteq DOMAIN m.sequence_numbers
      <3>1. m.transactions = Marked(g, T)
        BY <1>8, SMTT(40) DEF Marked
      <3> QED BY <1>2, <1>6, <1>9, <2>1, <2>2, <3>1, MarkedStore, SMTT(40)
    <2> QED BY <2>3, ZenonT(40) DEF none
  <1>12. m.timeline = {timeline_entry(u) : u \in ReadyIn(m.transactions)}
    <2>1. st.timeline = {timeline_entry(t) : t \in ReadyIn(T)}
      BY <1>2, ZenonT(40) DEF Indexed
    <2>2. \A t \in ReadyIn(T) : t \in T /\ g[t] = t /\ t \in ReadyIn(m.transactions)
      <3>1. \A t \in ReadyIn(T) : t \in T /\ t.state > 0 /\ t \notin fresh \cup beyond
        BY <1>2, <1>3, SMTT(40) DEF ReadyIn, TxnRecord
      <3> QED BY <1>7, <1>8, <3>1, ZenonT(40) DEF ReadyIn
    <2>3. \A t \in fresh : R(t) \in ReadyIn(m.transactions)
      <3>1. \A t \in fresh : t \in T /\ g[t] = R(t) /\ g[t].state > 0
        BY <1>3, <1>5, <1>7, SMTT(40)
      <3> HIDE DEF R, fresh
      <3> QED BY <1>8, <3>1, SMTT(40) DEF ReadyIn
    <2>4. ASSUME NEW u \in ReadyIn(m.transactions)
          PROVE  u \in ReadyIn(T) \/ \E t \in fresh : u = R(t)
      <3>1. PICK t \in T : u = g[t] /\ u.state > 0
        BY <1>8, SMTT(40) DEF ReadyIn
      <3>2. CASE t \in fresh
        BY <1>7, <3>1, <3>2, SMTT(40)
      <3>3. CASE t \notin fresh
        <4>1. t.state > 0
          BY <1>7, <3>1, <3>3, Zenon
        <4>2. t \notin beyond
          BY <1>2, <1>3, <4>1, SMTT(40) DEF TxnRecord
        <4> QED BY <1>7, <3>1, <3>3, <4>1, <4>2, ZenonT(40) DEF ReadyIn
      <3> QED BY <3>2, <3>3, SMTT(40)
    <2> HIDE DEF R, fresh
    <2>5. ASSUME NEW k \in m.timeline
          PROVE  k \in {timeline_entry(u) : u \in ReadyIn(m.transactions)}
      BY <1>1, <2>1, <2>2, <2>3, SMTT(40)
    <2>6. ASSUME NEW u \in ReadyIn(m.transactions) PROVE timeline_entry(u) \in m.timeline
      BY <1>1, <2>1, <2>4
    <2> QED BY <2>5, <2>6, SMTT(40)
  <1>13. ASSUME NEW k \in m.priority PROVE k \in {priority_key(u) : u \in m.transactions}
    <2>1. PICK t \in T : k = priority_key(t)
      BY <1>1, <1>2, <1>3, ZenonT(40) DEF Indexed
    <2> QED BY <1>8, <1>10, <2>1, SMTT(40)
  <1>14. ASSUME NEW k \in m.parked PROVE k \in {parking_entry(u) : u \in m.transactions}
    <2>1. PICK t \in T : k = parking_entry(t)
      BY <1>1, <1>2, <1>3, ZenonT(40) DEF Indexed
    <2> QED BY <1>8, <1>10, <2>1
  <1>15. Indexed(m)
    BY <1>11, <1>12, <1>13, <1>14, ZenonT(40) DEF Indexed
  <1>16. ASSUME NEW t \in T PROVE Placed(m, g[t]) /\ Queued(m, g[t])
    <2>1. /\ Queued(st, t)
          /\ t.sender # a => Placed(st, t)
          /\ priority_key(t) \in st.priority => priority_key(t) \in m.priority
      BY <1>1, SMTT(40) DEF ReadyToRun
    <2>2. \A u \in T : parking_entry(u) = parking_entry(t) => u = t
      BY <1>2, KeysDiffer, ZenonT(40)
    <2>3. parking_entry(t) \in m.parked
            <=> t \in beyond \/ (parking_entry(t) \in st.parked /\ t \notin run)
      BY <1>1, <1>3, <2>2, ZenonT(40)
    <2>7. t \notin run => (priority_key(t) \in m.priority <=> priority_key(t) \in st.priority)
      <3>1. \A u \in T : priority_key(u) = priority_key(t) => u = t
        BY <1>2, KeysDiffer, ZenonT(40)
      <3> QED BY <1>1, <1>3, <3>1, ZenonT(40)
    <2>4. CASE t \in run
      <3>1. priority_key(t) \in m.priority /\ parking_entry(t) \notin m.parked
        BY <1>1, <1>3, <2>3, <2>4, SMTT(40)
      <3>2. g[t].state # NotReady
        <4>1. CASE t \in fresh
          <5>1. g[t].state = id(t) /\ id(t) \in Nat \ {0}
            BY <1>5, <1>7, <4>1, Zenon
          <5> QED BY <5>1 DEF NotReady
        <4>2. CASE t \notin fresh
          BY <1>7, <2>4, <4>2, Zenon
        <4> QED BY <4>1, <4>2, Zenon
      <3> QED BY <1>10, <3>1, <3>2, ZenonT(40) DEF Placed, Queued
    <2>5. CASE t \in beyond
      <3>1. g[t].state <= 0 /\ g[t].state \in Int /\ g[t].state = t.state /\ t \notin run
        BY <1>2, <1>3, <1>7, <2>5, ZenonT(40) DEF TxnRecord
      <3>2. parking_entry(t) \in m.parked
        BY <2>3, <2>5, SMTT(40)
      <3>3. ~(g[t].state > 0)
        BY <3>1
      <3> QED BY <1>10, <2>1, <2>7, <3>1, <3>2, <3>3, Zenon DEF Placed, Queued
    <2>6. CASE t \notin run /\ t \notin beyond
      <3>1. g[t] = t
        BY <1>3, <1>7, <2>6, ZenonT(40)
      <3>2. parking_entry(t) \in m.parked <=> parking_entry(t) \in st.parked
        BY <2>3, <2>6, SMTT(40)
      <3>3. Placed(st, t)
        BY <1>4, <2>1, <2>6, ZenonT(40) DEF Placed, Queued
      <3> QED BY <2>1, <2>6, <2>7, <3>1, <3>2, <3>3, ZenonT(40) DEF Placed, Queued
    <2> QED BY <2>4, <2>5, <2>6, ZenonT(40)
  <1>17. Sound(m, {})
    <2>1. \A u \in m.transactions : Placed(m, u) /\ Queued(m, u)
      BY <1>8, <1>16, SMTT(40)
    <2> QED BY <1>11, <1>15, <2>1, SMTT(40) DEF Sound
  <1> QED BY <1>17, SMTT(40) DEF m

(***************************************************************************)
(* process_ready_transactions puts the account in order when it starts     *)
(* from its sequence number (transaction_store.rs:479-548), and leaves the *)
(* others as they are.                                                     *)
(***************************************************************************)
LEMMA RunOrder ==
  ASSUME NEW st, NEW a, NEW n \in Nat, ReadyToRun(st, a, n),
         \A t \in st.transactions :
             IF t.sender = a THEN st.sequence_numbers[a] = n ELSE InTurn(st, t)
  PROVE  InOrder(process_ready_transactions(st, a, n))
  <1> DEFINE T == st.transactions
             m == process_ready_transactions(st, a, n)
             run == Run(st, a, n)
             fresh == {t \in run : t.state = NotReady}
             beyond == {t \in T \ run : t.sender = a /\ t.seq >= n /\ ToPark(t)}
             InBucket(b) == {t \in fresh : bucket(t.gas) = b}
             Earlier(t) == {u \in InBucket(bucket(t.gas)) : u.seq < t.seq}
             id(t) == st.timeline_id[bucket(t.gas)] + Cardinality(Earlier(t))
             R(t) == [t EXCEPT !.state = id(t)]
             P(t) == [t EXCEPT !.was_parked = TRUE]
  <1>1. /\ m.transactions = (T \ (fresh \cup beyond)) \cup {R(t) : t \in fresh}
                                \cup {P(t) : t \in beyond}
        /\ m.sequence_numbers = st.sequence_numbers
        /\ m.priority = st.priority \cup {priority_key(t) : t \in run}
        /\ m.parked = (st.parked \ {parking_entry(t) : t \in run})
                          \cup {parking_entry(t) : t \in beyond}
    BY ZenonT(40) DEF ReadyToRun, Shape, Field, process_ready_transactions
  <1>2. T \subseteq TxnRecord /\ Unique(T) /\ \A t \in T : t.sender = a => t.seq >= n
    BY Zenon DEF ReadyToRun, Shape
  <1> HIDE DEF m, id
  <1>3. run \subseteq T /\ fresh \subseteq T /\ beyond \subseteq T \ run
    BY Zenon DEF Run
  <1>4. \A t \in T : SameTxn(t, t) /\ SameTxn(t, R(t)) /\ SameTxn(t, P(t))
    BY <1>2, ZenonT(40) DEF TxnRecord, SameTxn
  <1> HIDE DEF R, P
  <1>5. ASSUME NEW u \in m.transactions PROVE \E t \in T : SameTxn(t, u)
    <2> HIDE DEF fresh, beyond
    <2>1. CASE u \in T
      BY <1>4, <2>1, Zenon
    <2>2. CASE \E t \in fresh : u = R(t)
      BY <1>3, <1>4, <2>2, Zenon
    <2>3. CASE \E t \in beyond : u = P(t)
      BY <1>3, <1>4, <2>3, Zenon
    <2>4. u \in T \/ (\E t \in fresh : u = R(t)) \/ \E t \in beyond : u = P(t)
      BY <1>1, <1>5, Zenon
    <2> QED BY <2>1, <2>2, <2>3, <2>4, Zenon
  <1>6. \A t \in beyond : t.sender = a
    BY Zenon
  <1>7. \A t \in T : t.sender = a /\ NoGap(st, a, n, t.seq) => t \in run
    BY <1>2, Zenon DEF NoGap, Run
  <1>8. \A t \in T \ beyond : parking_entry(t) \in m.parked
                             => parking_entry(t) \in st.parked /\ t \notin run
    <2>1. \A t \in T \ beyond, x \in beyond : parking_entry(t) # parking_entry(x)
      BY <1>2, <1>3, KeysDiffer, Zenon
    <2> QED BY <1>1, <2>1, Zenon
  <1> HIDE DEF fresh, beyond, run
  <1>9. ASSUME NEW u \in m.transactions PROVE InTurn(m, u)
    <2>1. PICK t \in T : SameTxn(t, u)
      BY <1>5
    <2>2. \A v \in m.transactions : v.sender = t.sender
              => \E w \in T : w.sender = t.sender /\ w.seq = v.seq
      <3> SUFFICES ASSUME NEW v \in m.transactions, v.sender = t.sender
                   PROVE  \E w \in T : w.sender = t.sender /\ w.seq = v.seq
        BY Zenon
      <3>1. PICK w \in T : SameTxn(w, v)
        BY <1>5, Zenon
      <3> QED BY <3>1, Zenon DEF SameTxn
    <2>3. m.sequence_numbers[t.sender] = st.sequence_numbers[t.sender]
      BY <1>1, Zenon
    <2>4. CASE t.sender # a
      <3>1. InTurn(st, t) /\ t \in T \ beyond
        BY <1>6, <2>4, Zenon
      <3>2. /\ priority_key(t) \in st.priority => priority_key(t) \in m.priority
            /\ parking_entry(t) \in m.parked => parking_entry(t) \in st.parked
        BY <1>1, <1>8, <3>1, Zenon
      <3> QED BY <2>1, <2>2, <2>3, <3>1, <3>2, StaysInTurn, Zenon
    <2>5. CASE t.sender = a
      <3>1. /\ m.sequence_numbers[u.sender] = n /\ u.seq >= n
            /\ u.sender = a /\ u.seq = t.seq
            /\ priority_key(u) = priority_key(t) /\ parking_entry(u) = parking_entry(t)
        BY <1>2, <2>1, <2>3, <2>5, SameKeys, Zenon DEF SameTxn
      <3>2. ASSUME NoGap(m, a, n, t.seq)
            PROVE  priority_key(t) \in m.priority /\ parking_entry(t) \notin m.parked
        <4>1. NoGap(st, a, n, t.seq)
          <5> SUFFICES ASSUME NEW k \in n..t.seq
                       PROVE  \E w \in T : w.sender = a /\ w.seq = k
            BY Zenon DEF NoGap
          <5>1. PICK v \in m.transactions : v.sender = a /\ v.seq = k
            BY <3>2, Zenon DEF NoGap
          <5>2. PICK w \in T : w.sender = t.sender /\ w.seq = v.seq
            BY <2>2, <2>5, <5>1, Zenon
          <5> QED BY <2>5, <5>1, <5>2, Zenon
        <4>2. t \in run
          BY <1>7, <2>5, <4>1, Zenon
        <4> QED BY <1>1, <1>3, <1>8, <4>2, Zenon
      <3> QED BY <3>1, <3>2, Zenon DEF InTurn
    <2> QED BY <2>4, <2>5, Zenon
  <1> QED BY <1>9, Zenon DEF InOrder, m

(***************************************************************************)
(* A store that misses no keys is one that may miss some.                  *)
(***************************************************************************)
LEMMA MoreMissing ==
  ASSUME NEW st, Sound(st, {}), NEW X
  PROVE  Sound(st, X)
  BY ZenonT(40) DEF Sound, Covered

(***************************************************************************)
(* clean_committed_transactions keeps the store sound, and leaves the      *)
(* account nothing below the given number (transaction_store.rs:550-579);  *)
(* accounts in order stay so.                                              *)
(***************************************************************************)
LEMMA CleanKeeps ==
  ASSUME NEW st, Sound(st, {}), NEW a, NEW n \in Nat
  PROVE  LET c == clean_committed_transactions(st, a, n)
         IN  /\ Sound(c, {}) /\ c.transactions \subseteq st.transactions
             /\ \A t \in c.transactions : t.sender = a => t.seq >= n
             /\ InOrder(st) => InOrder(c)
  <1> DEFINE X == {t \in st.transactions : t.sender = a /\ t.seq < n}
             c == index_remove(st, X)
  <1>1. /\ Sound(c, {}) /\ c.transactions = st.transactions \ X
        /\ InOrder(st) => InOrder(c)
    <2>1. X \subseteq st.transactions
      BY SMTT(40)
    <2> HIDE DEF X
    <2>2. Sound(c, {})
      BY <2>1, MoreMissing, RemoveKeeps, SMTT(40)
    <2>3. c.transactions = st.transactions \ X
      BY RemoveLeaves, ZenonT(40) DEF Sound
    <2>4. InOrder(st) => InOrder(c)
      BY <2>1, MoreMissing, RemoveOrder, Zenon
    <2> QED BY <2>2, <2>3, <2>4, Zenon
  <1>2. \A t \in st.transactions : t.seq \in Nat
    BY SMTT(40) DEF Sound, Shape, TxnRecord
  <1>3. c = clean_committed_transactions(st, a, n)
    BY SMTT(40) DEF clean_committed_transactions
  <1>4. \A t \in c.transactions : t.sender = a => t.seq >= n
    <2> HIDE DEF c
    <2> QED BY <1>1, <1>2, SMTT(40)
  <1> HIDE DEF c, X
  <1> QED BY <1>1, <1>3, <1>4, ZenonT(40)

(***************************************************************************)
(* Storing an account's sequence number keeps the store sound.             *)
(***************************************************************************)
LEMMA CountKeeps ==
  ASSUME NEW st, Sound(st, {}), NEW a, NEW n \in Nat,
         NEW c, c = [st EXCEPT !.sequence_numbers = Assign(@, a, n)]
  PROVE  Sound(c, {}) /\ c.transactions = st.transactions
  <1> DEFINE q == Assign(st.sequence_numbers, a, n)
  <1>1. /\ c = [f \in Field |-> c[f]]
        /\ c.sequence_numbers = q /\ c.transactions = st.transactions
        /\ c.system_ttl = st.system_ttl /\ c.expiration = st.expiration
        /\ c.hashes = st.hashes /\ c.size_bytes = st.size_bytes
        /\ c.timeline_id = st.timeline_id /\ c.timeline = st.timeline
        /\ c.priority = st.priority /\ c.parked = st.parked
    BY SMTT(40) DEF Sound, Shape, Field
  <1>2. q \in [DOMAIN q -> Nat] /\ DOMAIN st.sequence_numbers \subseteq DOMAIN q
    BY SMTT(40) DEF Sound, Shape, Assign
  <1> HIDE DEF q
  <1>3. Shape(c)
    BY <1>1, <1>2, SMTT(40) DEF Sound, Shape
  <1>4. Covered(c, {})
    BY <1>1, SMTT(40) DEF Sound, Covered
  <1>5. Indexed(c)
    BY <1>1, <1>2, SMTT(40) DEF Sound, Indexed
  <1>6. \A t \in c.transactions : Placed(c, t) /\ Queued(c, t)
    BY <1>1, SMTT(40) DEF Sound, Placed, Queued
  <1> QED BY <1>1, <1>3, <1>4, <1>5, <1>6, SMTT(40) DEF Sound

(***************************************************************************)
(* Between the new number of a commit and the promotion, the other         *)
(* accounts are in order, and the number is known for what is left of the  *)
(* account (transaction_store.rs:581-590).                                 *)
(***************************************************************************)
LEMMA CommitOthers ==
  ASSUME NEW st, Sound(st, {}), InOrder(st), NEW a, NEW n \in Nat,
         NEW c, c = [st EXCEPT !.sequence_numbers = Assign(@, a, n)], Sound(c, {}),
         NEW r, r = clean_committed_transactions(c, a, n),
         NEW t \in r.transactions
  PROVE  IF t.sender = a THEN r.sequence_numbers[a] = n ELSE InTurn(r, t)
  <1> DEFINE q == Assign(st.sequence_numbers, a, n)
             T == st.transactions
             X == {x \in T : x.sender = a /\ x.seq < n}
             gone == {x.sender : x \in X} \ {x.sender : x \in T \ X}
  <1>1. /\ c.sequence_numbers = q /\ c.transactions = T
        /\ c.priority = st.priority /\ c.parked = st.parked
    BY ZenonT(40) DEF Sound, Shape, Field
  <1>2. r = index_remove(c, X)
    BY <1>1, Zenon DEF clean_committed_transactions
  <1> HIDE DEF X, q
  <1>3. /\ r.transactions = T \ X
        /\ r.priority = st.priority \ {priority_key(x) : x \in X}
        /\ r.parked = st.parked \ {parking_entry(x) : x \in X}
        /\ r.sequence_numbers = [b \in DOMAIN q \ gone |-> q[b]]
    <2>1. Shape(c)
      BY Zenon DEF Sound
    <2>2. /\ r.transactions = c.transactions \ X
          /\ r.priority = c.priority \ {priority_key(x) : x \in X}
          /\ r.parked = c.parked \ {parking_entry(x) : x \in X}
          /\ r.sequence_numbers
               = [b \in DOMAIN c.sequence_numbers
                           \ ({x.sender : x \in X} \ {x.sender : x \in c.transactions \ X})
                     |-> c.sequence_numbers[b]]
      BY <1>2, <2>1, ZenonT(40) DEF index_remove, Shape, Field
    <2> QED BY <1>1, <2>2, ZenonT(40)
  <1>4. t \in T \ X /\ t.sender \in DOMAIN q
    BY <1>1, <1>3, Zenon DEF Sound, Indexed
  <1>5. r.sequence_numbers[t.sender] = q[t.sender]
    <2>1. t.sender \in DOMAIN q \ gone
      BY <1>4, Zenon
    <2> HIDE DEF gone
    <2> QED BY <1>3, <2>1, Zenon
  <1>6. CASE t.sender = a
    <2>1. q[a] = n
      BY <1>4, <1>6, Zenon DEF q, Assign
    <2> QED BY <1>5, <1>6, <2>1, Zenon
  <1>7. CASE t.sender # a
    <2>1. r.sequence_numbers[t.sender] = st.sequence_numbers[t.sender]
      <3>1. t.sender \in DOMAIN st.sequence_numbers
        BY <1>4, Zenon DEF Sound, Indexed
      <3>2. q[t.sender] = st.sequence_numbers[t.sender]
        BY <1>7, <3>1, ZenonT(40) DEF q, Assign
      <3> QED BY <1>5, <3>2, Zenon
    <2>2. \A x \in X : priority_key(x) # priority_key(t)
      <3>1. Unique(T) /\ X \subseteq T
        BY Zenon DEF Sound, Shape, X
      <3> QED BY <1>4, <3>1, KeysDiffer, Zenon
    <2>3. /\ priority_key(t) \in st.priority => priority_key(t) \in r.priority
          /\ parking_entry(t) \in r.parked => parking_entry(t) \in st.parked
      BY <1>3, <2>2, Zenon
    <2>4. \A v \in r.transactions : v.sender = t.sender
              => \E w \in T : w.sender = t.sender /\ w.seq = v.seq
      BY <1>3, Zenon
    <2>5. InTurn(st, t) /\ SameTxn(t, t)
      BY <1>4, Zenon DEF InOrder, SameTxn
    <2>6. InTurn(r, t)
      BY <2>1, <2>3, <2>4, <2>5, StaysInTurn, Zenon
    <2> QED BY <1>7, <2>6, Zenon
  <1> QED BY <1>6, <1>7, Zenon

(***************************************************************************)
(* commit_transaction keeps the store sound and the accounts in order,     *)
(* also when the commit is older than the number stored                    *)
(* (transaction_store.rs:581-590).                                         *)
(***************************************************************************)
LEMMA CommitKeeps ==
  ASSUME NEW st, Sound(st, {}), NEW a, NEW n \in Nat
  PROVE  /\ Sound(commit_transaction(st, a, n), {})
         /\ InOrder(st) => InOrder(commit_transaction(st, a, n))
  <1> DEFINE known == IF a \in DOMAIN st.sequence_numbers
                      THEN st.sequence_numbers[a] ELSE 0
             next == Max({known, n + 1})
             counted == [st EXCEPT !.sequence_numbers = Assign(@, a, next)]
             clean == clean_committed_transactions(counted, a, next)
  <1>1. known \in Nat
    BY SMTT(40) DEF Sound, Shape
  <1>2. next \in Nat
    <2> HIDE DEF known
    <2>1. \E x \in {known, n + 1} : \A y \in {known, n + 1} : x >= y
      BY <1>1, SMTT(40)
    <2>2. next \in {known, n + 1}
      BY <2>1, SMTT(40) DEF Max
    <2> QED BY <1>1, <2>2, SMTT(40)
  <1> HIDE DEF next
  <1>3. Sound(counted, {})
    BY <1>2, CountKeeps, ZenonT(40)
  <1>8. ASSUME InOrder(st), NEW t \in clean.transactions
        PROVE  IF t.sender = a THEN clean.sequence_numbers[a] = next ELSE InTurn(clean, t)
    BY <1>2, <1>3, <1>8, CommitOthers, Zenon
  <1> HIDE DEF counted
  <1>4. Sound(clean, {}) /\ \A t \in clean.transactions : t.sender = a => t.seq >= next
    BY <1>2, <1>3, CleanKeeps, Zenon
  <1> HIDE DEF clean
  <1>5. ReadyToRun(clean, a, next)
    BY <1>4, ZenonT(40) DEF ReadyToRun, Sound
  <1>6. Sound(process_ready_transactions(clean, a, next), {})
    BY <1>2, <1>5, RunKeeps
  <1>7. commit_transaction(st, a, n) = process_ready_transactions(clean, a, next)
    BY SMTT(40) DEF commit_transaction, clean, counted, next
  <1>9. InOrder(st) => InOrder(process_ready_transactions(clean, a, next))
    BY <1>2, <1>5, <1>8, RunOrder, Zenon
  <1> QED BY <1>6, <1>7, <1>9, Zenon

(***************************************************************************)
(* reject_transaction keeps the store sound and the accounts in order      *)
(* (transaction_store.rs:592-619).                                         *)
(***************************************************************************)
LEMMA RejectKeeps ==
  ASSUME NEW st, Sound(st, {}), NEW h
  PROVE  /\ Sound(reject_transaction(st, h), {})
         /\ InOrder(st) => InOrder(reject_transaction(st, h))
  <1> DEFINE X == get_mempool_txn(st, h.sender, h.seq)
  <1>1. X \subseteq st.transactions
    BY SMTT(40) DEF get_mempool_txn
  <1> HIDE DEF X
  <1>2. Sound(index_remove(st, X), {})
    BY <1>1, MoreMissing, RemoveKeeps, SMTT(40)
  <1>3. InOrder(st) => InOrder(index_remove(st, X))
    BY <1>1, MoreMissing, RemoveOrder, Zenon
  <1> QED BY <1>2, <1>3, SMTT(40) DEF reject_transaction, X

(***************************************************************************)
(* gc makes a store sound whose expired keys have been taken out of one of *)
(* the two expiration indexes (transaction_store.rs:814-872).              *)
(***************************************************************************)
LEMMA CollectKeeps ==
  ASSUME NEW st, NEW expired, NEW dead,
         dead = {t \in st.transactions :
                    \E k \in expired : k.sender = t.sender /\ k.seq = t.seq},
         Sound(st, dead)
  PROVE  Sound(gc(st, expired), {})
  <1> DEFINE W == {t \in st.transactions \ dead :
                      \E k \in expired : k.sender = t.sender /\ k.seq < t.seq}
             p == park(st, W)
  <1>1. W \subseteq st.transactions \ dead
    BY SMTT(40)
  <1>2. gc(st, expired) = index_remove(p, dead)
    BY ZenonT(40) DEF gc
  <1> HIDE DEF W
  <1>3. Sound(p, dead) /\ p.transactions = (st.transactions \ W) \cup {Waiting(t) : t \in W}
    BY <1>1, ParkKeeps, SMTT(40)
  <1> HIDE DEF p
  <1>4. dead \subseteq p.transactions
    BY <1>1, <1>3, SMTT(40)
  <1> QED BY <1>2, <1>3, <1>4, RemoveKeeps, SMTT(40)

(***************************************************************************)
(* gc keeps the accounts in order (transaction_store.rs:814-872): what it  *)
(* parks follows a transaction that it removes, and so is past a gap.      *)
(***************************************************************************)
LEMMA CollectOrder ==
  ASSUME NEW st, NEW expired, NEW dead,
         dead = {t \in st.transactions :
                    \E k \in expired : k.sender = t.sender /\ k.seq = t.seq},
         Sound(st, dead), InOrder(st),
         \A k \in expired : \E d \in st.transactions : d.sender = k.sender /\ d.seq = k.seq
  PROVE  InOrder(gc(st, expired))
  <1> DEFINE T == st.transactions
             W == {t \in T \ dead : \E k \in expired : k.sender = t.sender /\ k.seq < t.seq}
             p == park(st, W)
             r == index_remove(p, dead)
             gone == {t.sender : t \in dead} \ {t.sender : t \in p.transactions \ dead}
  <1>1. W \subseteq T \ dead /\ gc(st, expired) = r
    BY ZenonT(40) DEF gc
  <1>2. /\ T \subseteq TxnRecord /\ Unique(T)
        /\ {t.sender : t \in T} \subseteq DOMAIN st.sequence_numbers
    BY Zenon DEF Sound, Shape, Indexed
  <1>3. ASSUME NEW w \in W
        PROVE  \E d \in dead : d.sender = w.sender /\ d.seq < w.seq
    <2>1. PICK k \in expired : k.sender = w.sender /\ k.seq < w.seq
      BY Zenon
    <2>2. PICK d \in T : d.sender = k.sender /\ d.seq = k.seq
      BY Zenon
    <2> QED BY <2>1, <2>2, Zenon
  <1>4. /\ p.transactions = (T \ W) \cup {Waiting(t) : t \in W}
        /\ p.sequence_numbers = st.sequence_numbers
        /\ p.priority = st.priority \ {priority_key(t) : t \in W}
        /\ p.parked = st.parked \cup {parking_entry(t) : t \in W}
    BY ZenonT(40) DEF Sound, Shape, Field, park, Waiting
  <1> HIDE DEF W
  <1>5. Shape(p)
    BY <1>1, ParkKeeps, Zenon DEF Sound
  <1> HIDE DEF p
  <1>6. /\ r.transactions = p.transactions \ dead
        /\ r.priority = p.priority \ {priority_key(t) : t \in dead}
        /\ r.parked = p.parked \ {parking_entry(t) : t \in dead}
        /\ r.sequence_numbers = [a \in DOMAIN st.sequence_numbers \ gone |->
                                    st.sequence_numbers[a]]
    BY <1>4, <1>5, ZenonT(40) DEF index_remove, Shape, Field
  <1> HIDE DEF r
  <1>7. \A t \in T : SameTxn(t, t) /\ SameTxn(t, Waiting(t))
    BY <1>2, ZenonT(40) DEF TxnRecord, SameTxn, Waiting
  <1>8. ASSUME NEW u \in r.transactions
        PROVE  \E t \in T \ dead : SameTxn(t, u) /\ (t \in W \/ u = t)
    <2>1. (u \in T \ W /\ u \notin dead) \/ \E t \in W : u = Waiting(t)
      BY <1>4, <1>6, <1>8, Zenon
    <2>2. CASE u \in T \ W /\ u \notin dead
      BY <1>7, <2>2, Zenon
    <2>3. CASE \E t \in W : u = Waiting(t)
      BY <1>1, <1>7, <2>3, Zenon
    <2> QED BY <2>1, <2>2, <2>3, Zenon
  <1>9. ASSUME NEW u \in r.transactions PROVE InTurn(r, u)
    <2>1. PICK t \in T \ dead : SameTxn(t, u) /\ (t \in W \/ u = t)
      BY <1>8
    <2>2. InTurn(st, t)
      BY Zenon DEF InOrder
    <2>3. r.sequence_numbers[t.sender] = st.sequence_numbers[t.sender]
      <3>1. u \in p.transactions \ dead /\ u.sender = t.sender
        BY <1>6, <1>9, <2>1, Zenon DEF SameTxn
      <3>2. t.sender \in DOMAIN st.sequence_numbers \ gone
        BY <1>2, <3>1, Zenon
      <3> QED BY <1>6, <3>2, Zenon
    <2>4. \A v \in r.transactions : v.sender = t.sender
              => \E w \in T \ dead : w.sender = t.sender /\ w.seq = v.seq
      <3> SUFFICES ASSUME NEW v \in r.transactions, v.sender = t.sender
                   PROVE  \E w \in T \ dead : w.sender = t.sender /\ w.seq = v.seq
        BY Zenon
      <3>1. PICK w \in T \ dead : SameTxn(w, v)
        BY <1>8, Zenon
      <3> QED BY <3>1, Zenon DEF SameTxn
    <2>5. CASE t \notin W
      <3>1. /\ \A x \in W : priority_key(x) # priority_key(t)
                           /\ parking_entry(x) # parking_entry(t)
            /\ \A x \in dead : priority_key(x) # priority_key(t)
        BY <1>1, <1>2, <2>5, KeysDiffer, Zenon
      <3>2. /\ priority_key(t) \in st.priority => priority_key(t) \in r.priority
            /\ parking_entry(t) \in r.parked => parking_entry(t) \in st.parked
        <4>0. /\ priority_key(t) \notin {priority_key(x) : x \in W}
              /\ priority_key(t) \notin {priority_key(x) : x \in dead}
              /\ parking_entry(t) \notin {parking_entry(x) : x \in W}
          BY <3>1, SMTT(40)
        <4>1. ASSUME priority_key(t) \in st.priority PROVE priority_key(t) \in r.priority
          BY <1>4, <1>6, <4>0, <4>1, Zenon
        <4>2. ASSUME parking_entry(t) \in r.parked PROVE parking_entry(t) \in st.parked
          BY <1>4, <1>6, <4>0, <4>2, Zenon
        <4> QED BY <4>1, <4>2, Zenon
      <3>3. \A v \in r.transactions : v.sender = t.sender
                => \E w \in T : w.sender = t.sender /\ w.seq = v.seq
        BY <2>4, Zenon
      <3> QED BY <2>1, <2>2, <2>3, <3>2, <3>3, StaysInTurn, Zenon
    <2>6. CASE t \in W
      <3> DEFINE n == st.sequence_numbers[t.sender]
      <3>1. PICK d \in dead : d.sender = t.sender /\ d.seq < t.seq
        BY <1>3, <2>6
      <3>2. d \in T /\ d.seq \in Nat /\ t.seq \in Nat /\ n \in Nat
        <4>1. d \in T /\ t.sender \in DOMAIN st.sequence_numbers
          BY <1>2, Zenon
        <4>2. n \in Nat
          BY <4>1, Zenon DEF Sound, Shape
        <4> QED BY <1>2, <4>1, <4>2, Zenon DEF TxnRecord
      <3>3. t.seq >= n /\ d.seq >= n
        <4>1. InTurn(st, d)
          BY <3>2, Zenon DEF InOrder
        <4> QED BY <2>2, <3>1, <4>1, Zenon DEF InTurn
      <3> HIDE DEF n
      <3>4. d.seq \in n..t.seq
        BY <3>1, <3>2, <3>3
      <3>5. ~NoGap(r, t.sender, n, t.seq)
        <4> SUFFICES ASSUME NoGap(r, t.sender, n, t.seq) PROVE FALSE
          BY Zenon
        <4>1. PICK v \in r.transactions : v.sender = t.sender /\ v.seq = d.seq
          BY <3>4, Zenon DEF NoGap
        <4>2. PICK w \in T \ dead : w.sender = t.sender /\ w.seq = v.seq
          BY <2>4, <4>1, Zenon
        <4>3. w = d
          BY <1>2, <3>1, <3>2, <4>1, <4>2, Zenon DEF Unique
        <4> QED BY <4>2, <4>3, Zenon
      <3>6. r.sequence_numbers[u.sender] = n /\ u.sender = t.sender /\ u.seq = t.seq
        BY <2>1, <2>3, Zenon DEF SameTxn, n
      <3> QED BY <3>3, <3>5, <3>6, Zenon DEF InTurn
    <2> QED BY <2>5, <2>6, Zenon
  <1> QED BY <1>1, <1>9, Zenon DEF InOrder

(***************************************************************************)
(* gc_by_system_ttl keeps the store sound and the accounts in order        *)
(* (index.rs:151-164).                                                     *)
(***************************************************************************)
LEMMA SystemKeeps ==
  ASSUME NEW st, Sound(st, {}), NEW time
  PROVE  /\ Sound(gc_by_system_ttl(st, time), {})
         /\ InOrder(st) => InOrder(gc_by_system_ttl(st, time))
  <1> DEFINE expired == {k \in st.system_ttl : k.time < time}
             s == [st EXCEPT !.system_ttl = @ \ expired]
             dead == {t \in s.transactions :
                        \E k \in expired : k.sender = t.sender /\ k.seq = t.seq}
  <1>1. /\ s = [f \in Field |-> s[f]]
        /\ s.system_ttl = st.system_ttl \ expired
        /\ s.sequence_numbers = st.sequence_numbers /\ s.transactions = st.transactions
        /\ s.expiration = st.expiration
        /\ s.hashes = st.hashes /\ s.size_bytes = st.size_bytes
        /\ s.timeline_id = st.timeline_id /\ s.timeline = st.timeline
        /\ s.priority = st.priority /\ s.parked = st.parked
    BY ZenonT(40) DEF Sound, Shape, Field
  <1>2. \A t \in st.transactions : system_key(t) \in expired => t \in dead
    <2>1. \A t : system_key(t).sender = t.sender /\ system_key(t).seq = t.seq
      BY SMTT(40) DEF system_key, ttl_key
    <2> HIDE DEF expired
    <2> QED BY <1>1, <2>1, SMTT(40)
  <1>6. \A k \in expired : \E d \in s.transactions : d.sender = k.sender /\ d.seq = k.seq
    <2> SUFFICES ASSUME NEW k \in expired
                 PROVE  \E d \in st.transactions : d.sender = k.sender /\ d.seq = k.seq
      BY <1>1, Zenon
    <2>1. PICK d \in st.transactions : k = system_key(d)
      BY Zenon DEF Sound, Covered
    <2> QED BY <2>1 DEF system_key, ttl_key
  <1>3. gc_by_system_ttl(st, time) = gc(s, expired)
    BY DEF gc_by_system_ttl
  <1>4. dead = {t \in s.transactions :
                  \E k \in expired : k.sender = t.sender /\ k.seq = t.seq}
    BY SMTT(40)
  <1> HIDE DEF s, expired, dead
  <1>5. Sound(s, dead)
    <2>1. Shape(s)
      BY <1>1, SMTT(40) DEF Sound, Shape
    <2>2. Indexed(s)
      BY <1>1, ZenonT(40) DEF Sound, Indexed
    <2>3. Covered(s, dead)
      <3>1. \A t \in st.transactions : system_key(t) \in st.system_ttl
                                       /\ client_key(t) \in st.expiration
        BY ZenonT(40) DEF Sound, Covered
      <3>2. \A t \in s.transactions \ dead : system_key(t) \in s.system_ttl
                                             /\ client_key(t) \in s.expiration
        BY <1>1, <1>2, <3>1, SMTT(40)
      <3> QED BY <1>1, <3>2, ZenonT(40) DEF Sound, Covered
    <2>4. \A t \in s.transactions : Placed(s, t) /\ Queued(s, t)
      BY <1>1, SMTT(40) DEF Sound, Placed, Queued
    <2> QED BY <2>1, <2>2, <2>3, <2>4, SMTT(40) DEF Sound
  <1>7. InOrder(st) => InOrder(s)
    BY <1>1, Zenon DEF InOrder, InTurn, NoGap
  <1>8. InOrder(st) => InOrder(gc(s, expired))
    BY <1>4, <1>5, <1>6, <1>7, CollectOrder, Zenon
  <1> QED BY <1>3, <1>4, <1>5, <1>8, CollectKeeps, ZenonT(40)

(***************************************************************************)
(* gc_by_expiration_time keeps the store sound and the accounts in order,  *)
(* eager or not (transaction_store.rs:791-812).                            *)
(***************************************************************************)
LEMMA ExpirationKeeps ==
  ASSUME NEW st, Sound(st, {}), NEW time
  PROVE  /\ Sound(gc_by_expiration_time(st, time), {})
         /\ InOrder(st) => InOrder(gc_by_expiration_time(st, time))
  <1> DEFINE expired == {k \in st.expiration : k.time < eager(st, time)}
             s == [st EXCEPT !.expiration = @ \ expired]
             dead == {t \in s.transactions :
                        \E k \in expired : k.sender = t.sender /\ k.seq = t.seq}
  <1>1. /\ s = [f \in Field |-> s[f]]
        /\ s.expiration = st.expiration \ expired
        /\ s.sequence_numbers = st.sequence_numbers /\ s.transactions = st.transactions
        /\ s.system_ttl = st.system_ttl
        /\ s.hashes = st.hashes /\ s.size_bytes = st.size_bytes
        /\ s.timeline_id = st.timeline_id /\ s.timeline = st.timeline
        /\ s.priority = st.priority /\ s.parked = st.parked
    BY ZenonT(40) DEF Sound, Shape, Field
  <1>2. \A t \in st.transactions : client_key(t) \in expired => t \in dead
    <2>1. \A t : client_key(t).sender = t.sender /\ client_key(t).seq = t.seq
      BY SMTT(40) DEF client_key, ttl_key
    <2> HIDE DEF expired
    <2> QED BY <1>1, <2>1, SMTT(40)
  <1>6. \A k \in expired : \E d \in s.transactions : d.sender = k.sender /\ d.seq = k.seq
    <2> SUFFICES ASSUME NEW k \in expired
                 PROVE  \E d \in st.transactions : d.sender = k.sender /\ d.seq = k.seq
      BY <1>1, Zenon
    <2>1. PICK d \in st.transactions : k = client_key(d)
      BY Zenon DEF Sound, Covered
    <2> QED BY <2>1 DEF client_key, ttl_key
  <1>3. gc_by_expiration_time(st, time) = gc(s, expired)
    BY DEF gc_by_expiration_time
  <1>4. dead = {t \in s.transactions :
                  \E k \in expired : k.sender = t.sender /\ k.seq = t.seq}
    BY SMTT(40)
  <1> HIDE DEF s, expired, dead
  <1>5. Sound(s, dead)
    <2>1. Shape(s)
      BY <1>1, SMTT(40) DEF Sound, Shape
    <2>2. Indexed(s)
      BY <1>1, ZenonT(40) DEF Sound, Indexed
    <2>3. Covered(s, dead)
      <3>1. \A t \in st.transactions : system_key(t) \in st.system_ttl
                                       /\ client_key(t) \in st.expiration
        BY DEF Sound, Covered
      <3>2. \A t \in s.transactions \ dead : system_key(t) \in s.system_ttl
                                             /\ client_key(t) \in s.expiration
        BY <1>1, <1>2, <3>1, SMTT(40)
      <3> QED BY <1>1, <3>2, Zenon DEF Sound, Covered
    <2>4. \A t \in s.transactions : Placed(s, t) /\ Queued(s, t)
      BY <1>1, SMTT(40) DEF Sound, Placed, Queued
    <2> QED BY <2>1, <2>2, <2>3, <2>4, ZenonT(40) DEF Sound
  <1>7. InOrder(st) => InOrder(s)
    BY <1>1, Zenon DEF InOrder, InTurn, NoGap
  <1>8. InOrder(st) => InOrder(gc(s, expired))
    BY <1>4, <1>5, <1>6, <1>7, CollectOrder, Zenon
  <1> QED BY <1>3, <1>4, <1>5, <1>8, CollectKeeps, ZenonT(40)

(***************************************************************************)
(* A round of eviction keeps the store sound and the accounts in order     *)
(* (transaction_store.rs:360-386).                                         *)
(***************************************************************************)
LEMMA EvictKeeps ==
  ASSUME NEW st, Sound(st, {}), NEW s \in Evict(st)
  PROVE  /\ Sound(s, {}) /\ s.transactions \subseteq st.transactions
         /\ InOrder(st) => InOrder(s)
  <1>1. CASE ~is_full(st) \/ st.parked = {}
    BY <1>1, SMTT(40) DEF Evict
  <1>2. CASE ~(~is_full(st) \/ st.parked = {})
    <2>1. PICK e \in get_poppable(st.parked) :
              s = index_remove(st, get_mempool_txn(st, e.sender, e.seq))
      BY <1>2, SMTT(40) DEF Evict
    <2> DEFINE X == get_mempool_txn(st, e.sender, e.seq)
    <2>2. X \subseteq st.transactions
      BY SMTT(40) DEF get_mempool_txn
    <2>3. s = index_remove(st, X)
      BY <2>1, SMTT(40)
    <2> HIDE DEF X
    <2>4. Sound(s, {})
      BY <2>2, <2>3, MoreMissing, RemoveKeeps, SMTT(40)
    <2>5. s.transactions = st.transactions \ X
      BY <2>3, RemoveLeaves, SMTT(40) DEF Sound
    <2>6. InOrder(st) => InOrder(s)
      BY <2>2, <2>3, MoreMissing, RemoveOrder, Zenon
    <2> QED BY <2>4, <2>5, <2>6, SMTT(40)
  <1> QED BY <1>1, <1>2, SMTT(40)

(***************************************************************************)
(* The stores after each round of the loop that frees space.               *)
(***************************************************************************)
IsRounds(r, st, n) ==
    r = [i \in 0..n |-> IF i = 0 THEN {st} ELSE UNION {Evict(s) : s \in r[i - 1]}]

(***************************************************************************)
(* The loop has such a function, for any number of rounds: the least       *)
(* number for which it had none would have one.                            *)
(***************************************************************************)
LEMMA RoundsExist ==
  ASSUME NEW st, NEW k \in Nat
  PROVE  \E r : IsRounds(r, st, k)
  <1> DEFINE B == {n \in Nat : ~\E r : IsRounds(r, st, n)}
             After(S) == UNION {Evict(s) : s \in S}
  <1>1. \A r, n : IsRounds(r, st, n)
                    <=> r = [i \in 0..n |-> IF i = 0 THEN {st} ELSE After(r[i - 1])]
    BY SMTT(40) DEF IsRounds
  <1> HIDE DEF After
  <1>2. ASSUME B # {} PROVE FALSE
    <2>1. PICK n \in B : \A m \in B : n <= m
      <3>1. B \subseteq Nat
        BY SMTT(40)
      <3> HIDE DEF B
      <3> QED BY <1>2, <3>1, SmallestNumber, ZenonT(40)
    <2>2. n \in Nat /\ ~\E r : IsRounds(r, st, n)
      OBVIOUS
    <2>3. CASE n = 0
      <3> DEFINE r == [i \in 0..0 |-> {st}]
      <3>1. r = [i \in 0..0 |-> IF i = 0 THEN {st} ELSE After(r[i - 1])]
        OBVIOUS
      <3> QED BY <1>1, <2>2, <2>3, <3>1, ZenonT(40)
    <2>4. CASE n # 0
      <3>1. n - 1 \in Nat /\ n - 1 \notin B
        BY <2>1, <2>2, <2>4, SMTT(40)
      <3>2. PICK h : IsRounds(h, st, n - 1)
        BY <3>1, SMTT(40)
      <3>3. h = [i \in 0..(n - 1) |-> IF i = 0 THEN {st} ELSE After(h[i - 1])]
        BY <1>1, <3>2, SMTT(40)
      <3> DEFINE r == [i \in 0..n |-> IF i = n THEN After(h[n - 1]) ELSE h[i]]
      <3>4. r[0] = {st}
        BY <2>2, <2>4, <3>1, <3>3, SMTT(40)
      <3>5. ASSUME NEW i \in 0..n, i # 0 PROVE r[i] = After(r[i - 1])
        <4>1. i - 1 \in 0..n /\ i - 1 # n /\ r[i - 1] = h[i - 1]
          BY <2>2, <3>5, SMTT(40)
        <4>2. CASE i = n
          BY <2>2, <4>1, <4>2, SMTT(40)
        <4>3. CASE i # n
          <5>1. i \in 0..(n - 1)
            BY <2>2, <3>5, <4>3, SMTT(40)
          <5>2. h[i] = After(h[i - 1])
            BY <3>3, <3>5, <5>1, ZenonT(40)
          <5> QED BY <4>1, <4>3, <5>2, SMTT(40)
        <4> QED BY <4>2, <4>3, SMTT(40)
      <3>6. r = [i \in 0..n |-> IF i = 0 THEN {st} ELSE After(r[i - 1])]
        <4>1. r = [i \in 0..n |-> r[i]]
          BY SMTT(40)
        <4> HIDE DEF r
        <4> QED BY <3>4, <3>5, <4>1, ZenonT(40)
      <3> QED BY <1>1, <2>2, <3>6, ZenonT(40)
    <2> QED BY <2>3, <2>4, SMTT(40)
  <1> QED BY <1>2, SMTT(40)

(***************************************************************************)
(* Every store that the loop may reach is sound, has no new transactions   *)
(* and keeps the accounts in order.                                        *)
(***************************************************************************)
LEMMA RoundsKeep ==
  ASSUME NEW st, Sound(st, {}), NEW N \in Nat, NEW r, IsRounds(r, st, N), NEW s \in r[N]
  PROVE  /\ Sound(s, {}) /\ s.transactions \subseteq st.transactions
         /\ InOrder(st) => InOrder(s)
  <1> DEFINE Fine(x) == /\ Sound(x, {}) /\ x.transactions \subseteq st.transactions
                        /\ InOrder(st) => InOrder(x)
             B == {n \in 0..N : \E x \in r[n] : ~Fine(x)}
  <1>1. \A x, y : Fine(x) /\ y \in Evict(x) => Fine(y)
    BY EvictKeeps, SMTT(40)
  <1>2. Fine(st)
    BY SMTT(40)
  <1> HIDE DEF Fine
  <1>3. ASSUME B # {} PROVE FALSE
    <2>1. PICK n \in B : \A m \in B : n <= m
      <3>1. B \subseteq Nat
        BY SMTT(40)
      <3> HIDE DEF B
      <3> QED BY <1>3, <3>1, SmallestNumber, ZenonT(40)
    <2>2. n \in 0..N
      BY SMTT(40)
    <2>3. PICK x \in r[n] : ~Fine(x)
      BY SMTT(40)
    <2>4. CASE n = 0
      BY <1>2, <2>3, <2>4, SMTT(40) DEF IsRounds
    <2>5. CASE n # 0
      <3>1. n - 1 \in 0..N /\ n - 1 \notin B
        BY <2>1, <2>2, <2>5, SMTT(40)
      <3>2. r[n] = UNION {Evict(y) : y \in r[n - 1]}
        BY <2>2, <2>5, ZenonT(40) DEF IsRounds
      <3>3. PICK y \in r[n - 1] : x \in Evict(y)
        BY <2>3, <3>2, SMTT(40)
      <3> QED BY <1>1, <2>3, <3>1, <3>3, ZenonT(40)
    <2> QED BY <2>4, <2>5, SMTT(40)
  <1>4. Fine(s)
    BY <1>3, SMTT(40)
  <1> QED BY <1>4, SMTT(40) DEF Fine

(***************************************************************************)
(* So is what check_is_full_after_eviction leaves                          *)
(* (transaction_store.rs:351-395).                                         *)
(***************************************************************************)
LEMMA EvictionKeeps ==
  ASSUME NEW st, Sound(st, {}), NEW t, NEW acc,
         NEW s \in check_is_full_after_eviction(st, t, acc)
  PROVE  /\ Sound(s, {}) /\ s.transactions \subseteq st.transactions
         /\ InOrder(st) => InOrder(s)
  <1> DEFINE N == Cardinality(st.transactions)
             c == CHOOSE r : IsRounds(r, st, N)
  <1>1. N \in Nat
    BY FS_CardinalityType, SMTT(40) DEF Sound, Shape
  <1>2. IsRounds(c, st, N)
    <2> HIDE DEF N
    <2> QED BY <1>1, RoundsExist, SMTT(40)
  <1>3. s \in c[N] \/ s = st
    BY SMTT(40) DEF check_is_full_after_eviction, IsRounds
  <1> HIDE DEF c, N
  <1> QED BY <1>1, <1>2, <1>3, RoundsKeep, SMTT(40)

(***************************************************************************)
(* insert keeps the store sound from the capacity check on                 *)
(* (transaction_store.rs:279-307), whatever sequence number was read for   *)
(* the account: the new transaction is indexed before                      *)
(* process_ready_transactions queues or parks it. It starts from the       *)
(* number just stored, so the accounts stay in order.                      *)
(***************************************************************************)
LEMMA AdmitKeeps ==
  ASSUME NEW st, Sound(st, {}), NEW acc \in Nat,
         NEW t \in TxnRecord, t.state <= 0, t.seq >= acc,
         get_mempool_txn(st, t.sender, t.seq) = {}
  PROVE  /\ Sound(admit(st, t, acc), {})
         /\ InOrder(st) => InOrder(admit(st, t, acc))
  <1> DEFINE c == clean_committed_transactions(st, t.sender, acc)
             i == [c EXCEPT
                     !.transactions = @ \cup {t},
                     !.system_ttl = @ \cup {system_key(t)},
                     !.expiration = @ \cup {client_key(t)},
                     !.hashes = @ \cup {hash(t)},
                     !.sequence_numbers = Assign(@, t.sender, acc),
                     !.size_bytes = @ + Bytes[t.body]]
             T == c.transactions
             q == Assign(c.sequence_numbers, t.sender, acc)
  <1>1. /\ Sound(c, {}) /\ T \subseteq st.transactions
        /\ \A u \in T : u.sender = t.sender => u.seq >= acc
        /\ InOrder(st) => InOrder(c)
    BY CleanKeeps, ZenonT(40)
  <1>2. \A u \in T : u.sender # t.sender \/ u.seq # t.seq
    BY <1>1, ZenonT(40) DEF get_mempool_txn
  <1>3. \/ admit(st, t, acc) = c
        \/ admit(st, t, acc) = process_ready_transactions(i, t.sender, acc)
    BY SMTT(40) DEF admit
  <1> HIDE DEF c
  <1>4. /\ i = [f \in Field |-> i[f]]
        /\ i.transactions = T \cup {t}
        /\ i.system_ttl = c.system_ttl \cup {system_key(t)}
        /\ i.expiration = c.expiration \cup {client_key(t)}
        /\ i.hashes = c.hashes \cup {hash(t)}
        /\ i.sequence_numbers = q
        /\ i.size_bytes = c.size_bytes + Bytes[t.body]
        /\ i.timeline_id = c.timeline_id /\ i.timeline = c.timeline
        /\ i.priority = c.priority /\ i.parked = c.parked
    BY <1>1, ZenonT(40) DEF Sound, Shape, Field
  <1>5. /\ q \in [DOMAIN q -> Nat] /\ DOMAIN c.sequence_numbers \subseteq DOMAIN q
        /\ t.sender \in DOMAIN q
    BY <1>1, ZenonT(40) DEF Sound, Shape, Assign
  <1>6. /\ T \subseteq TxnRecord /\ IsFiniteSet(T) /\ Unique(T)
        /\ c.timeline_id \in [Bucket -> Nat \ {0}]
    BY <1>1, ZenonT(40) DEF Sound, Shape
  <1> HIDE DEF i, q
  <1>7. Shape(i)
    <2>1. IsFiniteSet(T \cup {t})
      BY <1>6, FS_AddElement, ZenonT(40)
    <2>2. Unique(T \cup {t})
      BY <1>2, <1>6, SMTT(40) DEF Unique
    <2> QED BY <1>4, <1>5, <1>6, <2>1, <2>2, ZenonT(40) DEF Shape
  <1>8. Covered(i, {})
    BY <1>1, <1>4, ZenonT(40) DEF Sound, Covered
  <1>9. Indexed(i)
    <2>1. i.hashes = {hash(u) : u \in T \cup {t}}
      BY <1>1, <1>4, ZenonT(40) DEF Sound, Indexed
    <2>2. i.size_bytes = estimated_bytes(T \cup {t})
      <3>1. /\ t \notin T /\ (T \cup {t}) \ {t} = T /\ {t} \subseteq T \cup {t}
            /\ T \cup {t} \subseteq TxnRecord
        BY <1>2, <1>6, SMTT(40)
      <3>2. IsFiniteSet(T \cup {t})
        BY <1>6, FS_AddElement
      <3>3. /\ estimated_bytes(T \cup {t}) \in Nat /\ estimated_bytes({t}) \in Nat
            /\ estimated_bytes((T \cup {t}) \ {t})
                 = estimated_bytes(T \cup {t}) - estimated_bytes({t})
        BY <3>1, <3>2, BytesOfPart, ZenonT(40)
      <3>4. estimated_bytes({t}) = Bytes[t.body]
        BY BytesOfOne, SMTT(40)
      <3>5. c.size_bytes = estimated_bytes(T)
        BY <1>1, ZenonT(40) DEF Sound, Indexed
      <3>6. estimated_bytes((T \cup {t}) \ {t}) = estimated_bytes(T)
        BY <3>1, ZenonT(40)
      <3>7. i.size_bytes = c.size_bytes + Bytes[t.body]
        BY <1>4, SMTT(40)
      <3> HIDE DEF T
      <3> QED BY <3>3, <3>4, <3>5, <3>6, <3>7
    <2>3. i.timeline = {timeline_entry(u) : u \in ReadyIn(T \cup {t})}
      <3>1. ReadyIn(T \cup {t}) = ReadyIn(T)
        BY SMTT(40) DEF ReadyIn, TxnRecord
      <3> QED BY <1>1, <1>4, <3>1, ZenonT(40) DEF Sound, Indexed
    <2>4. /\ i.priority \subseteq {priority_key(u) : u \in T \cup {t}}
          /\ i.parked \subseteq {parking_entry(u) : u \in T \cup {t}}
      BY <1>1, <1>4, SMTT(40) DEF Sound, Indexed
    <2>5. {u.sender : u \in T \cup {t}} \subseteq DOMAIN q
      BY <1>1, <1>5, ZenonT(40) DEF Sound, Indexed
    <2> QED BY <1>4, <2>1, <2>2, <2>3, <2>4, <2>5, ZenonT(40) DEF Indexed
  <1>10. ReadyToRun(i, t.sender, acc)
    <2>1. ASSUME NEW u \in T
          PROVE  /\ Queued(i, u)
                 /\ u.sender # t.sender => Placed(i, u)
                 /\ u.sender = t.sender => u.seq >= acc
      BY <1>1, <1>4, ZenonT(40) DEF Sound, Placed, Queued
    <2>2. Queued(i, t)
      <3>1. ~(t.state > 0)
        BY SMTT(40) DEF TxnRecord
      <3>2. \A u \in T : priority_key(u) # priority_key(t)
        <4>1. Unique(T \cup {t}) /\ t \notin T
          BY <1>2, <1>4, <1>7, Zenon DEF Shape
        <4>2. ASSUME NEW u \in T, priority_key(u) = priority_key(t) PROVE FALSE
          <5>1. u \in T \cup {t} /\ t \in T \cup {t}
            BY Zenon
          <5>2. u = t
            BY <4>1, <4>2, <5>1, KeysDiffer, Zenon
          <5> QED BY <4>1, <5>2, Zenon
        <4> QED BY <4>2, Zenon
      <3>3. c.priority \subseteq {priority_key(u) : u \in T}
        BY <1>1, Zenon DEF Sound, Indexed
      <3>4. priority_key(t) \notin i.priority
        <4>1. i.priority = c.priority
          BY <1>4, Zenon
        <4>2. ASSUME priority_key(t) \in i.priority PROVE FALSE
          <5>1. PICK u \in T : priority_key(t) = priority_key(u)
            BY <3>3, <4>1, <4>2, Zenon
          <5> QED BY <3>2, <5>1, Zenon
        <4> QED BY <4>2, Zenon
      <3> QED BY <3>1, <3>4, Zenon DEF Queued
    <2> QED BY <1>4, <1>7, <1>8, <1>9, <2>1, <2>2, ZenonT(40) DEF ReadyToRun
  <1>11. Sound(process_ready_transactions(i, t.sender, acc), {})
    BY <1>10, RunKeeps, SMTT(40)
  <1>12. ASSUME InOrder(c)
         PROVE  InOrder(process_ready_transactions(i, t.sender, acc))
    <2>1. ASSUME NEW u \in i.transactions
          PROVE  IF u.sender = t.sender THEN i.sequence_numbers[t.sender] = acc
                                        ELSE InTurn(i, u)
      <3>1. CASE u.sender = t.sender
        <4>1. q[t.sender] = acc
          BY Zenon DEF q, Assign
        <4> QED BY <1>4, <3>1, <4>1, Zenon
      <3>2. CASE u.sender # t.sender
        <4>1. u \in T /\ SameTxn(u, u) /\ InTurn(c, u)
          BY <1>4, <1>12, <2>1, <3>2, Zenon DEF InOrder, SameTxn
        <4>2. u.sender \in DOMAIN c.sequence_numbers
          BY <1>1, <4>1, Zenon DEF Sound, Indexed
        <4>3. i.sequence_numbers[u.sender] = c.sequence_numbers[u.sender]
          <5>1. q[u.sender] = c.sequence_numbers[u.sender]
            BY <3>2, <4>2, ZenonT(40) DEF q, Assign
          <5> QED BY <1>4, <5>1, Zenon
        <4>4. \A v \in i.transactions : v.sender = u.sender
                  => \E w \in T : w.sender = u.sender /\ w.seq = v.seq
          BY <1>4, <3>2, Zenon
        <4>5. /\ priority_key(u) \in c.priority => priority_key(u) \in i.priority
              /\ parking_entry(u) \in i.parked => parking_entry(u) \in c.parked
          BY <1>4, Zenon
        <4>6. InTurn(i, u)
          BY <4>1, <4>3, <4>4, <4>5, StaysInTurn, Zenon
        <4> QED BY <3>2, <4>6, Zenon
      <3> QED BY <3>1, <3>2, Zenon
    <2> QED BY <1>10, <2>1, RunOrder, Zenon
  <1> QED BY <1>1, <1>3, <1>11, <1>12, ZenonT(40)

(***************************************************************************)
(* insert keeps the store sound and the accounts in order on every path    *)
(* (transaction_store.rs:224-307): an update that is refused, one that     *)
(* removes the old version and then finds no room, and one that is         *)
(* admitted.                                                               *)
(***************************************************************************)
LEMMA InsertKeeps ==
  ASSUME NEW st, Sound(st, {}), NEW acc \in Nat,
         NEW t \in TxnRecord, t.state <= 0, t.seq >= acc, NEW s \in insert(st, t, acc)
  PROVE  Sound(s, {}) /\ (InOrder(st) => InOrder(s))
  <1> DEFINE current == get_mempool_txn(st, t.sender, t.seq)
             base == IF current = {} THEN st ELSE index_remove(st, current)
  <1>1. CASE s = st
    BY <1>1, SMTT(40)
  <1>2. CASE s # st
    <2>1. PICK b \in check_is_full_after_eviction(base, t, acc) :
              s = IF is_full(b) THEN b ELSE admit(b, t, acc)
      BY <1>2, SMTT(40) DEF insert
    <2>2. /\ Sound(base, {}) /\ base.transactions = st.transactions \ current
          /\ InOrder(st) => InOrder(base)
      <3>1. current \subseteq st.transactions
        BY SMTT(40) DEF get_mempool_txn
      <3> HIDE DEF current
      <3>2. CASE current = {}
        BY <3>2, SMTT(40)
      <3>3. CASE current # {}
        <4>1. Sound(index_remove(st, current), {})
          BY <3>1, MoreMissing, RemoveKeeps, ZenonT(40)
        <4>2. index_remove(st, current).transactions = st.transactions \ current
          BY RemoveLeaves, ZenonT(40) DEF Sound
        <4>3. InOrder(st) => InOrder(index_remove(st, current))
          BY <3>1, MoreMissing, RemoveOrder, Zenon
        <4> QED BY <3>3, <4>1, <4>2, <4>3, ZenonT(40)
      <3> QED BY <3>2, <3>3, ZenonT(40)
    <2> HIDE DEF base
    <2>3. /\ Sound(b, {}) /\ b.transactions \subseteq base.transactions
          /\ InOrder(base) => InOrder(b)
      BY <2>1, <2>2, EvictionKeeps, ZenonT(40)
    <2>4. get_mempool_txn(b, t.sender, t.seq) = {}
      BY <2>2, <2>3, SMTT(40) DEF get_mempool_txn
    <2>5. Sound(admit(b, t, acc), {}) /\ (InOrder(b) => InOrder(admit(b, t, acc)))
      BY <2>3, <2>4, AdmitKeeps, ZenonT(40)
    <2> QED BY <2>1, <2>2, <2>3, <2>5, ZenonT(40)
  <1> QED BY <1>1, <1>2, SMTT(40)

(***************************************************************************)
(* The inductive invariant of the mempool.                                 *)
(***************************************************************************)
MempoolInvariant ==
    /\ Sound(store, {})
    /\ InOrder(store)
    /\ chain \in [Address -> Nat]
    /\ notified \in [Address -> Nat]
    /\ now \in Nat

(***************************************************************************)
(* The invariant holds whatever order submissions, commits, rejections and *)
(* collections reach the mempool in, for any capacities, fee buckets,      *)
(* timeouts and transactions.                                              *)
(***************************************************************************)
THEOREM MempoolInvariantTheorem == MempoolSpec => []MempoolInvariant
  <1>1. MempoolInit => MempoolInvariant
    <2> SUFFICES ASSUME MempoolInit PROVE Sound(store, {}) /\ InOrder(store)
      BY SMTT(40) DEF MempoolInit, MempoolInvariant
    <2>1. /\ store = [f \in Field |-> store[f]] /\ store.transactions = {}
          /\ store.sequence_numbers = <<>> /\ store.timeline_id = [b \in Bucket |-> 1]
          /\ store.size_bytes = 0 /\ store.timeline = {} /\ store.hashes = {}
          /\ store.system_ttl = {} /\ store.expiration = {}
          /\ store.priority = {} /\ store.parked = {}
      BY ZenonT(40) DEF MempoolInit, EmptyStore, Field
    <2>2. Shape(store)
      <3>1. IsFiniteSet({})
        BY FS_EmptySet, SMTT(40)
      <3>2. <<>> \in [DOMAIN <<>> -> Nat]
        BY SMTT(40)
      <3>3. store.timeline_id \in [Bucket -> Nat \ {0}]
        BY <2>1, SMTT(40)
      <3>4. store.sequence_numbers \in [DOMAIN store.sequence_numbers -> Nat]
        BY <2>1, <3>2, ZenonT(40)
      <3> QED BY <2>1, <3>1, <3>3, <3>4, ZenonT(40) DEF Shape, Unique
    <2>3. Covered(store, {})
      BY <2>1, ZenonT(40) DEF Covered
    <2>4. Indexed(store)
      <3>1. estimated_bytes({}) = 0
        <4> DEFINE w == [t \in {} |-> Bytes[t.body]]
        <4>1. estimated_bytes({}) = SumOver(w, {})
          BY SMTT(40) DEF estimated_bytes, SumOver
        <4> QED BY <4>1, SumEmpty, SMTT(40)
      <3> QED BY <2>1, <3>1, ZenonT(40) DEF Indexed, ReadyIn
    <2> QED BY <2>1, <2>2, <2>3, <2>4, SMTT(40) DEF Sound, InOrder
  <1>2. MempoolInvariant /\ [MempoolNext]_mempool_vars => MempoolInvariant'
    <2> SUFFICES ASSUME MempoolInvariant, [MempoolNext]_mempool_vars
                 PROVE  MempoolInvariant'
      BY SMTT(40)
    <2> USE DEF MempoolInvariant
    <2>1. CASE add_txn
      <3>0. PICK arrival \in Arrivals :
              \E acc \in 0..chain[arrival.txn.sender] :
                /\ arrival.txn.seq >= acc
                /\ LET h == arrival.txn
                       t == [sender |-> h.sender, seq |-> h.seq, gas |-> h.gas,
                             body |-> h.body, inserted |-> now,
                             state |-> arrival.state, was_parked |-> FALSE]
                   IN  store' \in insert(store, t, acc)
                /\ UNCHANGED <<chain, notified, now>>
        BY <2>1, ZenonT(40) DEF add_txn
      <3>1. PICK acc \in 0..chain[arrival.txn.sender] :
                /\ arrival.txn.seq >= acc
                /\ LET h == arrival.txn
                       t == [sender |-> h.sender, seq |-> h.seq, gas |-> h.gas,
                             body |-> h.body, inserted |-> now,
                             state |-> arrival.state, was_parked |-> FALSE]
                   IN  store' \in insert(store, t, acc)
                /\ UNCHANGED <<chain, notified, now>>
        BY <3>0, ZenonT(40)
      <3> DEFINE h == arrival.txn
                 t == [sender |-> h.sender, seq |-> h.seq, gas |-> h.gas,
                       body |-> h.body, inserted |-> now,
                       state |-> arrival.state, was_parked |-> FALSE]
      <3>2. /\ h.sender \in Address /\ h.seq \in Nat /\ h.gas \in Nat
            /\ h.body \in Body /\ arrival.state \in {0, -1}
        BY MempoolAssumption, SMTT(40)
      <3>3. t \in TxnRecord /\ t.state <= 0 /\ t.seq >= acc
        <4>1. arrival.state \in Int /\ arrival.state <= 0 /\ now \in Nat
          BY <3>2, SMTT(40)
        <4>2. t \in TxnRecord
          BY <3>2, <4>1, ZenonT(40) DEF TxnRecord
        <4>3. t.state = arrival.state /\ t.seq = arrival.txn.seq
          BY Zenon
        <4>4. arrival.txn.seq >= acc
          BY <3>1, Zenon
        <4> HIDE DEF t
        <4> QED BY <4>1, <4>2, <4>3, <4>4, Zenon
      <3>4. acc \in Nat
        BY <3>2, SMTT(40)
      <3>5. store' \in insert(store, t, acc)
        BY <3>1, ZenonT(40)
      <3> HIDE DEF t
      <3> QED BY <3>1, <3>3, <3>4, <3>5, InsertKeeps, ZenonT(40)
    <2>2. CASE ChainCommits
      BY <2>2, SMTT(40) DEF ChainCommits
    <2>3. CASE process_committed_transactions
      <3>1. PICK a \in Address, block_time \in 0..now :
                /\ notified' = [notified EXCEPT ![a] = @ + 1]
                /\ LET st == commit_transaction(store, a, notified[a])
                   IN  store' = IF block_time > 0 THEN gc_by_expiration_time(st, block_time)
                                                  ELSE st
                /\ UNCHANGED <<chain, now>>
        BY <2>3, ZenonT(40) DEF process_committed_transactions
      <3>2. /\ Sound(commit_transaction(store, a, notified[a]), {})
            /\ InOrder(commit_transaction(store, a, notified[a]))
        BY CommitKeeps, SMTT(40)
      <3>3. Sound(store', {}) /\ InOrder(store')
        BY <3>1, <3>2, ExpirationKeeps, SMTT(40)
      <3> QED BY <3>1, <3>3, SMTT(40)
    <2>4. CASE process_rejected_transactions
      BY <2>4, RejectKeeps, SMTT(40) DEF process_rejected_transactions
    <2>5. CASE process_quorum_store_request
      BY <2>5, ExpirationKeeps, SMTT(40) DEF process_quorum_store_request
    <2>6. CASE gc_coordinator
      BY <2>6, SystemKeeps, SMTT(40) DEF gc_coordinator
    <2>7. CASE Tick
      BY <2>7, SMTT(40) DEF Tick
    <2>8. CASE UNCHANGED mempool_vars
      BY <2>8, SMTT(40) DEF mempool_vars
    <2> QED BY <2>1, <2>2, <2>3, <2>4, <2>5, <2>6, <2>7, <2>8, ZenonT(40) DEF MempoolNext
  <1> QED BY <1>1, <1>2, PTL DEF MempoolSpec

(***************************************************************************)
(* The store and its indexes describe the same transactions after every    *)
(* handler (transaction_store.rs).                                         *)
(***************************************************************************)
THEOREM IndexesAgreeInvariant == MempoolSpec => []IndexesAgree
  <1>1. MempoolInvariant => IndexesAgree
    <2> SUFFICES ASSUME Sound(store, {}) PROVE IndexesAgree
      BY SMTT(40) DEF MempoolInvariant
    <2>1. /\ store.system_ttl = {system_key(t) : t \in store.transactions}
          /\ store.expiration = {client_key(t) : t \in store.transactions}
      BY ZenonT(40) DEF Sound, Covered
    <2>2. \A t, u \in store.transactions : t.sender = u.sender /\ t.seq = u.seq => t = u
      BY ZenonT(40) DEF Sound, Shape, Unique
    <2>3. Indexed(store)
      BY Zenon DEF Sound
    <2> QED BY <2>1, <2>2, <2>3, ZenonT(40) DEF Indexed, IndexesAgree, ReadyIn
  <1> QED BY <1>1, MempoolInvariantTheorem, PTL

(***************************************************************************)
(* A transaction that follows its account's sequence number without a gap  *)
(* is in the queue, out of the parking lot and not left NotReady after     *)
(* every handler: process_ready_transactions                               *)
(* (transaction_store.rs:479-548) runs wherever the number or the gap      *)
(* changes. A NotReady one is parked only, a ready one queued only, so     *)
(* that eviction (360-386) never takes it, and none is in neither.         *)
(***************************************************************************)
THEOREM InSequenceIsReadyInvariant == MempoolSpec => []InSequenceIsReady
  <1>1. MempoolInvariant => InSequenceIsReady
    <2> SUFFICES ASSUME Sound(store, {}), InOrder(store), NEW t \in store.transactions
                 PROVE  LET queued == priority_key(t) \in store.priority
                            parked == parking_entry(t) \in store.parked
                        IN  /\ t \in Run(store, t.sender, store.sequence_numbers[t.sender])
                                 => queued /\ ~parked /\ t.state # NotReady
                            /\ t.state = NotReady => parked /\ ~queued
                            /\ t.state > 0 => queued /\ ~parked
                            /\ queued \/ parked
      BY Zenon DEF MempoolInvariant, InSequenceIsReady
    <2>1. Placed(store, t) /\ Queued(store, t) /\ InTurn(store, t)
      BY Zenon DEF Sound, InOrder
    <2>2. t \in Run(store, t.sender, store.sequence_numbers[t.sender])
            => NoGap(store, t.sender, store.sequence_numbers[t.sender], t.seq)
      BY Zenon DEF Run, NoGap
    <2> QED BY <2>1, <2>2, Zenon DEF Placed, Queued, InTurn
  <1> QED BY <1>1, MempoolInvariantTheorem, PTL
=============================================================================
