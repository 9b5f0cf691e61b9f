------------------------- MODULE AptosChannelProofs -------------------------
(***************************************************************************)
(* Proofs about the channel between tasks, for any finite set of keys, any *)
(* queue size, garbage-collection interval and number of messages and      *)
(* senders.                                                                *)
(***************************************************************************)
EXTENDS AptosChannel, FiniteSetTheorems, SequenceTheorems, TLAPS

(***************************************************************************)
(* PerKeyQueue::push leaves a queue of messages that is not empty and      *)
(* within its size (message_queues.rs:113-153).                            *)
(***************************************************************************)
LEMMA PushedTypes ==
    ASSUME NEW q \in Seq(Message), Len(q) <= MaxQueueSize, NEW m \in Message
    PROVE  /\ Pushed(q, m) \in Seq(Message) /\ Pushed(q, m) # <<>>
           /\ Len(Pushed(q, m)) <= MaxQueueSize
<1>1. MaxQueueSize \in Nat \ {0}
    BY ChannelAssumption
<1>2. CASE Len(q) < MaxQueueSize
    BY <1>1, <1>2 DEF Pushed
<1>3. CASE ~(Len(q) < MaxQueueSize) /\ queue_style = "FIFO"
    BY <1>1, <1>3 DEF Pushed
<1>4. CASE ~(Len(q) < MaxQueueSize) /\ queue_style # "FIFO"
    <2>1. q # <<>> /\ Len(q) = MaxQueueSize
        BY <1>1, <1>4
    <2>2. Tail(q) \in Seq(Message) /\ Len(Tail(q)) = Len(q) - 1
        BY <2>1
    <2> QED
        BY <1>1, <1>4, <2>1, <2>2 DEF Pushed
<1> QED
    BY <1>2, <1>3, <1>4

(***************************************************************************)
(* pop_from_key_queue takes one message of a queue that has some           *)
(* (message_queues.rs:97-109).                                             *)
(***************************************************************************)
LEMMA PoppedTypes ==
    ASSUME NEW q \in Seq(Message), q # <<>>
    PROVE  /\ Popped(q).msg \in Message
           /\ Popped(q).rest \in Seq(Message)
           /\ Len(Popped(q).rest) = Len(q) - 1
<1>1. Len(q) \in Nat \ {0} /\ \A i \in 1..Len(q) : q[i] \in Message
    OBVIOUS
<1>2. CASE queue_style = "LIFO"
    <2>1. SubSeq(q, 1, Len(q) - 1) \in Seq(Message)
          /\ Len(SubSeq(q, 1, Len(q) - 1)) = Len(q) - 1
        <3>1. 1 \in Int /\ Len(q) - 1 \in Int /\ \A i \in 1..(Len(q) - 1) : q[i] \in Message
            BY <1>1
        <3>2. /\ SubSeq(q, 1, Len(q) - 1) \in Seq(Message)
              /\ Len(SubSeq(q, 1, Len(q) - 1)) =
                    IF 1 <= Len(q) - 1 THEN Len(q) - 1 - 1 + 1 ELSE 0
            BY <3>1, SubSeqProperties
        <3>3. \A n \in Nat \ {0} : (IF 1 <= n - 1 THEN n - 1 - 1 + 1 ELSE 0) = n - 1
            OBVIOUS
        <3> QED
            BY <1>1, <3>2, <3>3, Zenon
    <2> QED
        BY <1>1, <1>2, <2>1 DEF Popped
<1>3. CASE queue_style # "LIFO"
    BY <1>1, <1>3 DEF Popped
<1> QED
    BY <1>2, <1>3

(***************************************************************************)
(* The first key of the line has messages (message_queues.rs:157-170).     *)
(***************************************************************************)
LEMMA HeadHasMessages ==
    ASSUME TypeOK, LineIsExact, round_robin_queue # <<>>
    PROVE  /\ Head(round_robin_queue) \in Key
           /\ per_key_queue[Head(round_robin_queue)] \in Seq(Message)
           /\ per_key_queue[Head(round_robin_queue)] # <<>>
<1>1. 1 \in DOMAIN round_robin_queue /\ Head(round_robin_queue) = round_robin_queue[1]
      /\ round_robin_queue[1] \in Key
    BY DEF TypeOK
<1> QED
    BY <1>1 DEF TypeOK, LineIsExact

(***************************************************************************)
(* The number of pops until a message is served is an integer              *)
(* (message_queues.rs:157-203).                                            *)
(***************************************************************************)
LEMMA PopsUntilType ==
    ASSUME NEW i \in Int, NEW j \in Int
    PROVE  PopsUntil(i, j) \in Int
<1>1. Cardinality(Key) \in Nat
    BY ChannelAssumption, FS_CardinalityType
<1> QED
    BY <1>1 DEF PopsUntil

(***************************************************************************)
(* A key that is in the line is at its place (message_queues.rs:53-57).    *)
(***************************************************************************)
LEMMA PlaceInLine ==
    ASSUME NEW line \in Seq(Key), NEW k \in Key
    PROVE  /\ Place(k, line) \in Nat
           /\ (\E j \in DOMAIN line : line[j] = k) =>
                 Place(k, line) \in DOMAIN line /\ line[Place(k, line)] = k
<1>1. DOMAIN line = 1..Len(line) /\ Len(line) \in Nat
    OBVIOUS
<1>2. CASE \E j \in DOMAIN line : line[j] = k
    <2>1. Place(k, line) \in DOMAIN line /\ line[Place(k, line)] = k
        BY <1>2 DEF Place
    <2> QED
        BY <1>1, <2>1
<1>3. CASE ~ \E j \in DOMAIN line : line[j] = k
    BY <1>3 DEF Place
<1> QED
    BY <1>2, <1>3

(***************************************************************************)
(* push keeps the types and the line (message_queues.rs:113-153).          *)
(***************************************************************************)
LEMMA PushKeepsLine ==
    ASSUME TypeOK, LineIsExact, NEW k \in Key, push(k)
    PROVE  TypeOK' /\ LineIsExact'
<1> DEFINE q == per_key_queue[k]
           m == Len(sent) + 1
           line == round_robin_queue
<1>1. /\ m \in Message
      /\ sent' = Append(sent, k)
      /\ keys' = keys \cup {k}
      /\ round_robin_queue' = LinedUp(k)
      /\ per_key_queue' = [per_key_queue EXCEPT ![k] = Pushed(q, m)]
    BY ChannelAssumption DEF push, Message, TypeOK
<1>2. /\ Pushed(q, m) \in Seq(Message) /\ Pushed(q, m) # <<>>
      /\ Len(Pushed(q, m)) <= MaxQueueSize
    BY <1>1, PushedTypes DEF TypeOK
<1>3. TypeOK'
    <2>1. /\ per_key_queue' \in [Key -> Seq(Message)]
          /\ \A j \in Key : Len(per_key_queue'[j]) <= MaxQueueSize
          /\ keys' \subseteq Key /\ sent' \in Seq(Key)
        BY <1>1, <1>2 DEF TypeOK
    <2>2. round_robin_queue' \in Seq(Key)
        BY <1>1 DEF LinedUp, TypeOK
    <2>3. status' \in [Message -> Status]
        BY DEF push, TypeOK, Status
    <2>4. passed' \in [Key -> SUBSET Key]
        BY DEF push, TypeOK
    <2>7. due' \in [Message -> Int]
        <3>1. due' = [due EXCEPT ![m] = PopsUntil(Len(per_key_queue'[k]),
                                                  Place(k, round_robin_queue'))]
            BY DEF push
        <3>2. per_key_queue'[k] \in Seq(Message)
            BY <2>1
        <3>3. PopsUntil(Len(per_key_queue'[k]), Place(k, round_robin_queue')) \in Int
            <4>1. Len(per_key_queue'[k]) \in Int
                BY <3>2
            <4>2. Place(k, round_robin_queue') \in Int
                BY <2>2, PlaceInLine
            <4> QED
                BY <4>1, <4>2, PopsUntilType, Zenon
        <3> QED
            BY <1>1, <3>1, <3>3 DEF TypeOK
    <2>5. waker' \in BOOLEAN /\ receiver' \in {"ready", "asleep", "done", "dropped"}
        BY Zenon DEF push, Wake, TypeOK
    <2>6. UNCHANGED <<queue_style, num_popped_since_gc, num_senders>>
        BY DEF push
    <2> QED
        BY <2>1, <2>2, <2>3, <2>4, <2>5, <2>6, <2>7 DEF TypeOK
<1>4. \A j \in Key : per_key_queue'[j] # <<>> <=> j = k \/ per_key_queue[j] # <<>>
    BY <1>1, <1>2 DEF TypeOK
<1>5. CASE q = <<>>
    <2>1. round_robin_queue' = Append(line, k) /\ line \in Seq(Key)
        BY <1>1, <1>5 DEF LinedUp, TypeOK
    <2>2. \A i \in DOMAIN line : line[i] # k
        BY <1>5 DEF LineIsExact
    <2>3. /\ Len(line) \in Nat /\ DOMAIN line = 1..Len(line)
          /\ DOMAIN round_robin_queue' = 1..(Len(line) + 1)
          /\ \A i \in 1..Len(line) : round_robin_queue'[i] = line[i]
          /\ round_robin_queue'[Len(line) + 1] = k
        BY <2>1
    <2>4. \A i, j \in DOMAIN round_robin_queue' :
              round_robin_queue'[i] = round_robin_queue'[j] => i = j
        BY <2>2, <2>3 DEF LineIsExact
    <2>5. \A j \in Key : per_key_queue'[j] # <<>> <=>
              \E i \in DOMAIN round_robin_queue' : round_robin_queue'[i] = j
        <3> TAKE j \in Key
        <3>1. per_key_queue[j] # <<>> <=> \E i \in 1..Len(line) : line[i] = j
            BY <2>3 DEF LineIsExact
        <3>2. 1..(Len(line) + 1) = 1..Len(line) \cup {Len(line) + 1}
            BY <2>3
        <3> QED
            BY <1>4, <2>3, <3>1, <3>2
    <2> QED
        BY <1>1, <1>3, <1>4, <2>4, <2>5, SMTT(40) DEF LineIsExact
<1>6. CASE q # <<>>
    <2>1. round_robin_queue' = line
        BY <1>1, <1>6 DEF LinedUp
    <2> QED
        BY <1>1, <1>3, <1>4, <1>6, <2>1 DEF LineIsExact
<1> QED
    BY <1>5, <1>6

(***************************************************************************)
(* pop keeps the types and the line (message_queues.rs:157-203): the key   *)
(* served leaves the front, and comes back at the end if it has more.      *)
(***************************************************************************)
LEMMA PopKeepsLine ==
    ASSUME TypeOK, LineIsExact, poll_next
    PROVE  TypeOK' /\ LineIsExact'
<1> DEFINE line == round_robin_queue
           k == Head(line)
           p == Popped(per_key_queue[k])
<1>1. /\ line # <<>> /\ line \in Seq(Key)
      /\ per_key_queue' = [per_key_queue EXCEPT ![k] = p.rest]
      /\ round_robin_queue' = NextTurns(p.rest)
      /\ passed' = [j \in Key |-> IF j = k \/ per_key_queue[j] = <<>> THEN {}
                                   ELSE passed[j] \cup {k}]
    BY DEF poll_next, TypeOK
<1>2. k \in Key /\ per_key_queue[k] \in Seq(Message) /\ per_key_queue[k] # <<>>
    BY <1>1, HeadHasMessages
<1>3. /\ p.msg \in Message /\ p.rest \in Seq(Message)
      /\ Len(p.rest) = Len(per_key_queue[k]) - 1
    BY <1>2, PoppedTypes
<1>4. /\ Len(line) \in Nat \ {0} /\ DOMAIN line = 1..Len(line)
      /\ Tail(line) \in Seq(Key) /\ Len(Tail(line)) = Len(line) - 1
      /\ line[1] = k
      /\ \A i \in 1..(Len(line) - 1) : Tail(line)[i] = line[i + 1]
    BY <1>1
<1>5. TypeOK'
    <2>1. per_key_queue' \in [Key -> Seq(Message)]
        BY <1>1, <1>2, <1>3 DEF TypeOK
    <2>2. \A j \in Key : Len(per_key_queue'[j]) <= MaxQueueSize
        BY <1>1, <1>2, <1>3, ChannelAssumption, SMTT(40) DEF TypeOK
    <2>3. round_robin_queue' \in Seq(Key)
        BY <1>1, <1>2, <1>4 DEF NextTurns
    <2>4. num_popped_since_gc' \in 0..(POPS_PER_GC - 1)
        BY ChannelAssumption DEF poll_next, TypeOK
    <2>5. keys' \subseteq Key
        BY DEF poll_next, TypeOK
    <2>6. status' \in [Message -> Status]
        BY Zenon DEF poll_next, TypeOK, Status
    <2>7. passed' \in [Key -> SUBSET Key]
        BY <1>1, <1>2, SMTT(40) DEF TypeOK
    <2>9. due' \in [Message -> Int]
        BY DEF poll_next, TypeOK
    <2>8. UNCHANGED <<queue_style, waker, num_senders, receiver, sent>>
        BY DEF poll_next
    <2> QED
        BY <2>1, <2>2, <2>3, <2>4, <2>5, <2>6, <2>7, <2>8, <2>9, SMTT(40)
           DEF TypeOK
<1>6. \A j \in Key : per_key_queue'[j] = IF j = k THEN p.rest ELSE per_key_queue[j]
    BY <1>1 DEF TypeOK
<1>7. \A j \in Key : per_key_queue'[j] # <<>> => j \in keys'
    <2>1. \A j \in Key : per_key_queue'[j] # <<>> => j \in keys
        BY <1>2, <1>6 DEF LineIsExact
    <2> QED
        BY <2>1 DEF poll_next
<1>8. \A j \in Key : j # k => (per_key_queue[j] # <<>> <=>
                                 \E i \in 2..Len(line) : line[i] = j)
    <2> SUFFICES ASSUME NEW j \in Key, j # k
                 PROVE  per_key_queue[j] # <<>> <=> \E i \in 2..Len(line) : line[i] = j
        OBVIOUS
    <2>1. per_key_queue[j] # <<>> <=> \E i \in 1..Len(line) : line[i] = j
        BY <1>4 DEF LineIsExact
    <2>2. 1..Len(line) = {1} \cup 2..Len(line)
        BY <1>4
    <2> QED
        BY <1>4, <2>1, <2>2
<1>9. \A i \in 2..Len(line) : line[i] # k
    BY <1>4 DEF LineIsExact
<1>10. \A i, j \in 1..Len(line) : line[i] = line[j] => i = j
    BY <1>4 DEF LineIsExact
<1>11. CASE p.rest = <<>>
    <2>1. round_robin_queue' = Tail(line) /\ DOMAIN Tail(line) = 1..(Len(line) - 1)
        BY <1>1, <1>4, <1>11 DEF NextTurns
    <2>2. \A i, j \in DOMAIN round_robin_queue' :
              round_robin_queue'[i] = round_robin_queue'[j] => i = j
        <3> SUFFICES ASSUME NEW i \in 1..(Len(line) - 1), NEW j \in 1..(Len(line) - 1),
                            line[i + 1] = line[j + 1]
                     PROVE  i = j
            BY <1>4, <2>1
        <3>1. i + 1 \in 1..Len(line) /\ j + 1 \in 1..Len(line)
            BY <1>4
        <3>2. i + 1 = j + 1
            BY <1>10, <3>1
        <3> QED
            BY <1>4, <3>2
    <2>3. \A j \in Key : per_key_queue'[j] # <<>> <=>
              \E i \in DOMAIN round_robin_queue' : round_robin_queue'[i] = j
        <3> TAKE j \in Key
        <3>1. (\E i \in 1..(Len(line) - 1) : Tail(line)[i] = j)
                 <=> \E i \in 2..Len(line) : line[i] = j
            <4>1. ASSUME NEW i \in 2..Len(line), line[i] = j
                  PROVE  i - 1 \in 1..(Len(line) - 1) /\ Tail(line)[i - 1] = j
                <5>1. i - 1 \in 1..(Len(line) - 1) /\ (i - 1) + 1 = i
                    BY <1>4
                <5> QED
                    BY <1>4, <4>1, <5>1
            <4>2. ASSUME NEW i \in 1..(Len(line) - 1), Tail(line)[i] = j
                  PROVE  i + 1 \in 2..Len(line) /\ line[i + 1] = j
                BY <1>4, <4>2
            <4> QED
                BY <4>1, <4>2
        <3> QED
            BY <1>6, <1>8, <1>9, <1>11, <2>1, <3>1, Zenon
    <2> QED
        BY <1>5, <1>7, <2>2, <2>3 DEF LineIsExact
<1>12. CASE p.rest # <<>>
    <2> DEFINE n == Len(line)
    <2>1. /\ round_robin_queue' = Append(Tail(line), k)
          /\ DOMAIN round_robin_queue' = 1..n
          /\ round_robin_queue'[n] = k
          /\ \A i \in 1..(n - 1) : round_robin_queue'[i] = line[i + 1]
        BY <1>1, <1>2, <1>4, <1>12 DEF NextTurns
    <2>2. /\ 1..n = 1..(n - 1) \cup {n} /\ n \notin 1..(n - 1)
          /\ \A i \in 1..(n - 1) : i + 1 \in 2..n /\ i + 1 \in 1..n
          /\ \A i \in 2..n : i - 1 \in 1..(n - 1) /\ (i - 1) + 1 = i
        BY <1>4
    <2>3. \A i, j \in DOMAIN round_robin_queue' :
              round_robin_queue'[i] = round_robin_queue'[j] => i = j
        <3> SUFFICES ASSUME NEW i \in 1..n, NEW j \in 1..n,
                            round_robin_queue'[i] = round_robin_queue'[j]
                     PROVE  i = j
            BY <2>1, SMTT(40)
        <3>1. CASE i = n \/ j = n
            BY <1>9, <2>1, <2>2, <3>1
        <3>2. CASE i # n /\ j # n
            <4>1. i \in 1..(n - 1) /\ j \in 1..(n - 1)
                BY <2>2, <3>2
            <4>2. i + 1 = j + 1
                BY <1>10, <2>1, <2>2, <4>1
            <4> QED
                BY <4>1, <4>2
        <3> QED
            BY <3>1, <3>2
    <2>4. \A j \in Key : per_key_queue'[j] # <<>> <=>
              \E i \in DOMAIN round_robin_queue' : round_robin_queue'[i] = j
        <3> TAKE j \in Key
        <3>1. CASE j = k
            <4>1. n \in DOMAIN round_robin_queue'
                BY <2>1, <2>2
            <4> QED
                BY <1>6, <1>12, <2>1, <3>1, <4>1, SMTT(40)
        <3>2. CASE j # k
            <4>1. (\E i \in 2..n : line[i] = j)
                     <=> \E i \in DOMAIN round_robin_queue' : round_robin_queue'[i] = j
                <5>1. ASSUME NEW i \in 2..n, line[i] = j
                      PROVE  i - 1 \in DOMAIN round_robin_queue'
                             /\ round_robin_queue'[i - 1] = j
                    BY <2>1, <2>2, <5>1
                <5>2. ASSUME NEW i \in 1..n, round_robin_queue'[i] = j
                      PROVE  i + 1 \in 2..n /\ line[i + 1] = j
                    BY <2>1, <2>2, <3>2, <5>2
                <5> QED
                    BY <2>1, <5>1, <5>2, Zenon
            <4> QED
                BY <1>6, <1>8, <3>2, <4>1, SMTT(40)
        <3> QED
            BY <3>1, <3>2
    <2> QED
        BY <1>5, <1>7, <2>3, <2>4 DEF LineIsExact
<1> QED
    BY <1>11, <1>12

(***************************************************************************)
(* Emptying the queue (message_queues.rs:210-213) keeps the types and the  *)
(* line, and so does a step that leaves the queue alone.                   *)
(***************************************************************************)
LEMMA FreeKeepsLine ==
    ASSUME TypeOK, LineIsExact, NEW last \in BOOLEAN, FreeIf(last)
    PROVE  /\ per_key_queue' \in [Key -> Seq(Message)]
           /\ \A k \in Key : Len(per_key_queue'[k]) <= MaxQueueSize
           /\ keys' \subseteq Key /\ round_robin_queue' \in Seq(Key)
           /\ status' \in [Message -> Status]
           /\ passed' \in [Key -> SUBSET Key] /\ due' \in [Message -> Int]
           /\ LineIsExact'
<1>1. CASE last
    <2>1. Discard
        BY <1>1 DEF FreeIf
    <2>2. /\ per_key_queue' = [k \in Key |-> <<>>] /\ round_robin_queue' = <<>>
          /\ keys' = {} /\ passed' = [k \in Key |-> {}] /\ due' = [m \in Message |-> 0]
        BY <2>1 DEF Discard
    <2>3. \A k \in Key : per_key_queue'[k] = <<>> /\ Len(per_key_queue'[k]) <= MaxQueueSize
        BY <2>2, ChannelAssumption
    <2>4. status' \in [Message -> Status]
        BY <2>1 DEF Discard, TypeOK, Status
    <2>5. LineIsExact'
        BY <2>2, <2>3 DEF LineIsExact
    <2> QED
        BY <2>2, <2>3, <2>4, <2>5
<1>2. CASE ~last
    <2>1. UNCHANGED <<per_key_queue, round_robin_queue, keys, status, passed, due>>
        BY <1>2 DEF FreeIf
    <2> QED
        BY <2>1 DEF TypeOK, LineIsExact
<1> QED
    BY <1>1, <1>2

(***************************************************************************)
(* The channel's state has its types, each queue is within its size, and   *)
(* the line holds exactly the keys with messages, each once                *)
(* (message_queues.rs:113-213, aptos_channel.rs:86-187).  The two are      *)
(* proved together: pop takes a message off the queue of the first key,    *)
(* which is only sound because that queue is not empty.                    *)
(***************************************************************************)
THEOREM LineInvariant == Spec => [](TypeOK /\ LineIsExact)
<1>1. Init => TypeOK /\ LineIsExact
    <2> SUFFICES ASSUME Init PROVE TypeOK /\ LineIsExact
        OBVIOUS
    <2>1. /\ per_key_queue \in [Key -> Seq(Message)]
          /\ \A k \in Key : Len(per_key_queue[k]) <= MaxQueueSize
          /\ keys \subseteq Key /\ round_robin_queue \in Seq(Key) /\ sent \in Seq(Key)
          /\ num_popped_since_gc \in 0..(POPS_PER_GC - 1)
          /\ num_senders \in 0..MaxSenders
          /\ passed \in [Key -> SUBSET Key] /\ due \in [Message -> Int]
        BY ChannelAssumption DEF Init
    <2>2. status \in [Message -> Status]
        BY DEF Init, Status
    <2>3. /\ queue_style \in {"FIFO", "LIFO", "KLAST"} /\ waker \in BOOLEAN
          /\ receiver \in {"ready", "asleep", "done", "dropped"}
        BY Zenon DEF Init
    <2>4. LineIsExact
        BY DEF Init, LineIsExact
    <2> QED
        BY <2>1, <2>2, <2>3, <2>4 DEF TypeOK
<1>2. TypeOK /\ LineIsExact /\ [Next]_vars => (TypeOK /\ LineIsExact)'
    <2> SUFFICES ASSUME TypeOK, LineIsExact, [Next]_vars PROVE TypeOK' /\ LineIsExact'
        OBVIOUS
    <2>1. CASE UNCHANGED <<per_key_queue, round_robin_queue, keys, status, passed, due,
                           queue_style, num_popped_since_gc, sent>>
               /\ waker' \in BOOLEAN /\ num_senders' \in 0..MaxSenders
               /\ receiver' \in {"ready", "asleep", "done", "dropped"}
        BY <2>1 DEF TypeOK, LineIsExact
    <2>2. ASSUME NEW last \in BOOLEAN, FreeIf(last),
                 UNCHANGED <<queue_style, num_popped_since_gc, sent>>,
                 waker' \in BOOLEAN, num_senders' \in 0..MaxSenders,
                 receiver' \in {"ready", "asleep", "done", "dropped"}
          PROVE  TypeOK' /\ LineIsExact'
        BY <2>2, FreeKeepsLine, Zenon DEF TypeOK
    <2>3. CASE clone_sender
        <3>1. num_senders \in 1..(MaxSenders - 1) /\ num_senders' = num_senders + 1
            BY <2>3 DEF clone_sender
        <3>2. num_senders' \in 0..MaxSenders
            BY <3>1, ChannelAssumption
        <3> QED
            BY <2>1, <2>3, <3>2 DEF clone_sender, TypeOK
    <2>4. CASE drop_sender
        <3>1. num_senders > 0 /\ num_senders' = num_senders - 1
            BY <2>4 DEF drop_sender
        <3>2. num_senders' \in 0..MaxSenders
            BY <3>1, ChannelAssumption DEF TypeOK
        <3>3. waker' \in BOOLEAN /\ receiver' \in {"ready", "asleep", "done", "dropped"}
            BY <2>4, Zenon DEF drop_sender, Wake, TypeOK
        <3>4. (num_senders' = 0 /\ receiver = "dropped") \in BOOLEAN
            BY Zenon
        <3> QED
            BY <2>2, <2>4, <3>2, <3>3, <3>4, Zenon DEF drop_sender
    <2>5. CASE poll_next_empty
        <3>1. waker' \in BOOLEAN /\ receiver' \in {"ready", "asleep", "done", "dropped"}
            BY <2>5, Zenon DEF poll_next_empty, TypeOK
        <3> QED
            BY <2>1, <2>5, <3>1 DEF poll_next_empty, TypeOK
    <2>6. CASE task_runs
        <3>1. receiver' \in {"ready", "asleep", "done", "dropped"}
            BY <2>6, Zenon DEF task_runs
        <3> QED
            BY <2>1, <2>6, <3>1 DEF task_runs, TypeOK
    <2>7. CASE clear
        <3>1. FreeIf(TRUE)
            BY <2>7, Zenon DEF clear, FreeIf
        <3>2. TRUE \in BOOLEAN
            BY Zenon
        <3> QED
            BY <2>2, <2>7, <3>1, <3>2, Zenon DEF clear, TypeOK
    <2>8. CASE drop_receiver
        <3>1. receiver' \in {"ready", "asleep", "done", "dropped"}
            BY <2>8, Zenon DEF drop_receiver
        <3>2. (num_senders = 0) \in BOOLEAN
            BY Zenon
        <3> QED
            BY <2>2, <2>8, <3>1, <3>2, Zenon DEF drop_receiver, TypeOK
    <2>9. CASE UNCHANGED vars
        BY <2>1, <2>9 DEF vars, TypeOK
    <2> QED
        BY <2>3, <2>4, <2>5, <2>6, <2>7, <2>8, <2>9, PushKeepsLine, PopKeepsLine, SMTT(40)
           DEF Next
<1> QED
    BY <1>1, <1>2, PTL DEF Spec

(***************************************************************************)
(* No lost wake-up: a receiver that sleeps has its waker registered,       *)
(* nothing to receive, and a sender left that will wake it                 *)
(* (aptos_channel.rs:92-113, 128-141, 172-187). A push and the drop of the *)
(* last sender take the waker and end the sleep in the same step.          *)
(***************************************************************************)
THEOREM NoLostWakeupInvariant == Spec => []NoLostWakeup
<1>1. Init => NoLostWakeup
    BY DEF Init, NoLostWakeup
<1>2. TypeOK /\ NoLostWakeup /\ [Next]_vars => NoLostWakeup'
    <2> SUFFICES ASSUME TypeOK, NoLostWakeup, [Next]_vars, receiver' = "asleep"
                 PROVE  waker' /\ round_robin_queue' = <<>> /\ num_senders' > 0
        BY DEF NoLostWakeup
    <2>0. num_senders \in Nat
        BY ChannelAssumption DEF TypeOK
    <2>1. ASSUME Wake PROVE FALSE
        BY <2>1, Zenon DEF Wake, NoLostWakeup
    <2>2. CASE UNCHANGED <<waker, receiver, round_robin_queue, num_senders>>
        BY <2>2 DEF NoLostWakeup
    <2>3. CASE clone_sender
        BY <2>0, <2>3 DEF clone_sender, NoLostWakeup
    <2>4. CASE drop_sender
        <3>1. num_senders' # 0 /\ UNCHANGED <<waker, receiver>>
            BY <2>1, <2>4, Zenon DEF drop_sender
        <3>2. num_senders' = num_senders - 1 /\ num_senders > 0
            BY <2>4 DEF drop_sender
        <3>3. UNCHANGED round_robin_queue
            <4>1. FreeIf(num_senders' = 0 /\ receiver = "dropped")
                BY <2>4, Zenon DEF drop_sender
            <4> QED
                BY <3>1, <4>1, Zenon DEF FreeIf
        <3> QED
            BY <2>0, <3>1, <3>2, <3>3 DEF NoLostWakeup
    <2>5. CASE poll_next_empty
        <3>1. "done" # "asleep"
            OBVIOUS
        <3>2. num_senders # 0 /\ waker' /\ UNCHANGED num_senders
              /\ round_robin_queue' = <<>>
            BY <2>5, <3>1, ZenonT(40) DEF poll_next_empty
        <3> QED
            BY <2>0, <3>2
    <2>6. CASE poll_next \/ task_runs \/ clear \/ drop_receiver
        BY <2>6 DEF poll_next, task_runs, clear, drop_receiver
    <2> QED
        BY <2>1, <2>2, <2>3, <2>4, <2>5, <2>6, SMTT(40) DEF Next, vars, push
<1> QED
    BY <1>1, <1>2, LineInvariant, PTL DEF Spec

(***************************************************************************)
(* The line is no longer than there are keys, since no key is in it twice  *)
(* (message_queues.rs:53-57).                                              *)
(***************************************************************************)
LEMMA LineFits ==
    ASSUME NEW line \in Seq(Key), \A i, j \in DOMAIN line : line[i] = line[j] => i = j
    PROVE  Len(line) \in Nat /\ Cardinality(Key) \in Nat /\ Len(line) <= Cardinality(Key)
<1>1. IsFiniteSet(Key)
    BY ChannelAssumption
<1>2. Len(line) \in Nat /\ DOMAIN line = 1..Len(line) /\ line \in [1..Len(line) -> Key]
    OBVIOUS
<1>3. line \in Injection(1..Len(line), Key)
    BY <1>2 DEF Injection, IsInjective
<1>4. Cardinality(1..Len(line)) <= Cardinality(Key)
    BY <1>1, <1>3, FS_Injection
<1>5. Cardinality(1..Len(line)) = Len(line)
    BY <1>2, FS_Interval, SMTT(40)
<1> QED
    BY <1>1, <1>2, <1>4, <1>5, FS_CardinalityType

(***************************************************************************)
(* The line after a pop: who was second is first, and so on, and the key   *)
(* served is last if it has more (message_queues.rs:157-203).              *)
(***************************************************************************)
LEMMA LineAfterPop ==
    ASSUME TypeOK, LineIsExact, poll_next
    PROVE  LET line == round_robin_queue
               k == Head(line)
               rest == Popped(per_key_queue[k]).rest
               n == Len(line)
           IN  /\ n \in Nat \ {0} /\ k \in Key /\ k = line[1]
               /\ DOMAIN line = 1..n /\ \A i \in 1..n : line[i] \in Key
               /\ \A i \in 1..(n - 1) : /\ i + 1 \in 1..n /\ line[i + 1] # k
                                         /\ round_robin_queue'[i] = line[i + 1]
               /\ rest = <<>> => DOMAIN round_robin_queue' = 1..(n - 1)
               /\ rest # <<>> => /\ DOMAIN round_robin_queue' = 1..n
                                 /\ round_robin_queue'[n] = k
<1> DEFINE line == round_robin_queue
           k == Head(line)
           rest == Popped(per_key_queue[k]).rest
           n == Len(line)
<1>1. line \in Seq(Key) /\ line # <<>> /\ round_robin_queue' = NextTurns(rest)
    BY DEF poll_next, TypeOK
<1>2. /\ n \in Nat \ {0} /\ k \in Key /\ k = line[1]
      /\ DOMAIN line = 1..n /\ \A i \in 1..n : line[i] \in Key
      /\ Tail(line) \in Seq(Key) /\ Len(Tail(line)) = n - 1
      /\ \A i \in 1..(n - 1) : Tail(line)[i] = line[i + 1]
    BY <1>1
<1>3. \A i \in 1..(n - 1) : i + 1 \in 1..n /\ i + 1 # 1 /\ 1 \in 1..n
    BY <1>2
<1>4. \A i \in 1..(n - 1) : line[i + 1] # k
    BY <1>2, <1>3 DEF LineIsExact
<1>5. CASE rest = <<>>
    <2>1. round_robin_queue' = Tail(line)
        BY <1>1, <1>5 DEF NextTurns
    <2> QED
        BY <1>2, <1>3, <1>4, <1>5, <2>1
<1>6. CASE rest # <<>>
    <2>1. round_robin_queue' = Append(Tail(line), k)
        BY <1>1, <1>6 DEF NextTurns
    <2>2. /\ DOMAIN Append(Tail(line), k) = 1..n /\ Append(Tail(line), k)[n] = k
          /\ \A i \in 1..(n - 1) : Append(Tail(line), k)[i] = line[i + 1]
        BY <1>2
    <2>3. /\ DOMAIN round_robin_queue' = 1..n /\ round_robin_queue'[n] = k
          /\ \A i \in 1..(n - 1) : round_robin_queue'[i] = line[i + 1]
        BY <2>1, <2>2, Zenon
    <2> QED
        BY <1>2, <1>3, <1>4, <1>6, <2>3, Zenon
<1> QED
    BY <1>5, <1>6

(***************************************************************************)
(* The line after a push: the key is at its end if it had no message, and  *)
(* nobody else moves (message_queues.rs:113-133).                          *)
(***************************************************************************)
LEMMA LineAfterPush ==
    ASSUME TypeOK, LineIsExact, NEW k \in Key, push(k)
    PROVE  LET line == round_robin_queue
               n == Len(line)
           IN  /\ n \in Nat /\ DOMAIN line = 1..n /\ \A i \in 1..n : line[i] \in Key
               /\ \A i \in 1..n : round_robin_queue'[i] = line[i]
               /\ per_key_queue[k] # <<>> => DOMAIN round_robin_queue' = 1..n
               /\ per_key_queue[k] = <<>> => /\ DOMAIN round_robin_queue' = 1..n \cup {n + 1}
                                             /\ round_robin_queue'[n + 1] = k
                                             /\ \A i \in 1..n : line[i] # k
<1> DEFINE line == round_robin_queue
           n == Len(line)
<1>1. line \in Seq(Key) /\ round_robin_queue' = LinedUp(k)
    BY DEF push, TypeOK
<1>2. n \in Nat /\ DOMAIN line = 1..n /\ \A i \in 1..n : line[i] \in Key
    BY <1>1
<1>3. CASE per_key_queue[k] # <<>>
    BY <1>1, <1>2, <1>3 DEF LinedUp
<1>4. CASE per_key_queue[k] = <<>>
    <2>1. round_robin_queue' = Append(line, k)
        BY <1>1, <1>4 DEF LinedUp
    <2>2. /\ DOMAIN Append(line, k) = 1..(n + 1) /\ Append(line, k)[n + 1] = k
          /\ \A i \in 1..n : Append(line, k)[i] = line[i]
        BY <1>1
    <2>3. 1..(n + 1) = 1..n \cup {n + 1}
        BY <1>2
    <2>4. \A i \in 1..n : line[i] # k
        BY <1>2, <1>4 DEF LineIsExact
    <2> QED
        BY <1>2, <1>4, <2>1, <2>2, <2>3, <2>4
<1> QED
    BY <1>3, <1>4

(***************************************************************************)
(* Round robin for any number of keys: whoever is served goes behind all   *)
(* who wait, so nobody ahead of a key in the line has been served since    *)
(* that key lined up, and no other key is served twice before it           *)
(* (message_queues.rs:157-203).                                            *)
(***************************************************************************)
THEOREM ServedInTurnInvariant == Spec => []ServedInTurn
<1>1. Init => ServedInTurn
    BY DEF Init, ServedInTurn
<1>2. TypeOK /\ LineIsExact /\ ServedInTurn /\ [Next]_vars => ServedInTurn'
    <2> SUFFICES ASSUME TypeOK, LineIsExact, ServedInTurn, [Next]_vars
                 PROVE  ServedInTurn'
        OBVIOUS
    <2> DEFINE line == round_robin_queue
               n == Len(line)
    <2>1. CASE UNCHANGED <<round_robin_queue, passed>>
        BY <2>1 DEF ServedInTurn
    <2>2. CASE round_robin_queue' = <<>>
        BY <2>2 DEF ServedInTurn
    <2>3. ASSUME NEW k \in Key, push(k), NEW i \in DOMAIN round_robin_queue',
                 NEW j \in DOMAIN round_robin_queue', i < j
          PROVE  round_robin_queue'[i] \notin passed'[round_robin_queue'[j]]
        <3>1. /\ n \in Nat /\ DOMAIN line = 1..n
              /\ \A x \in 1..n : line[x] \in Key /\ round_robin_queue'[x] = line[x]
              /\ per_key_queue[k] # <<>> => DOMAIN round_robin_queue' = 1..n
              /\ per_key_queue[k] = <<>> => /\ DOMAIN round_robin_queue' = 1..n \cup {n + 1}
                                            /\ round_robin_queue'[n + 1] = k
            BY <2>3, LineAfterPush, ZenonT(40)
        <3>2. /\ per_key_queue[k] = <<>> => passed'[k] = {}
              /\ \A y \in Key : passed'[y] \subseteq passed[y]
            <4>1. passed' = [passed EXCEPT ![k] = IF per_key_queue[k] = <<>> THEN {}
                                                  ELSE passed[k]]
                BY <2>3 DEF push
            <4> QED
                BY <4>1 DEF TypeOK
        <3>3. CASE j \in 1..n
            <4>1. i \in 1..n
                BY <3>1, <3>3, <2>3
            <4>2. line[i] \notin passed[line[j]]
                BY <2>3, <3>1, <3>3, <4>1 DEF ServedInTurn
            <4> QED
                BY <3>1, <3>2, <3>3, <4>1, <4>2
        <3>4. CASE j \notin 1..n
            BY <3>1, <3>2, <3>4
        <3> QED
            BY <3>3, <3>4
    <2>4. ASSUME poll_next, NEW i \in DOMAIN round_robin_queue',
                 NEW j \in DOMAIN round_robin_queue', i < j
          PROVE  round_robin_queue'[i] \notin passed'[round_robin_queue'[j]]
        <3> DEFINE k == Head(line)
                   rest == Popped(per_key_queue[k]).rest
        <3>1. /\ n \in Nat \ {0} /\ k \in Key /\ k = line[1]
              /\ DOMAIN line = 1..n /\ \A x \in 1..n : line[x] \in Key
              /\ \A x \in 1..(n - 1) : /\ x + 1 \in 1..n /\ line[x + 1] # k
                                        /\ round_robin_queue'[x] = line[x + 1]
              /\ rest = <<>> => DOMAIN round_robin_queue' = 1..(n - 1)
              /\ rest # <<>> => /\ DOMAIN round_robin_queue' = 1..n
                                /\ round_robin_queue'[n] = k
            BY <2>4, LineAfterPop
        <3>2. /\ passed'[k] = {}
              /\ \A y \in Key : passed'[y] \subseteq passed[y] \cup {k}
            BY <2>4, <3>1 DEF poll_next
        <3>3. CASE j \in 1..(n - 1)
            <4>1. i \in 1..(n - 1) /\ i + 1 < j + 1
                BY <2>4, <3>1, <3>3
            <4>2. line[i + 1] \notin passed[line[j + 1]]
                BY <3>1, <3>3, <4>1 DEF ServedInTurn
            <4> QED
                BY <3>1, <3>2, <3>3, <4>1, <4>2
        <3>4. CASE j \notin 1..(n - 1)
            <4>1. rest # <<>> /\ j = n
                BY <2>4, <3>1, <3>4
            <4> QED
                BY <3>1, <3>2, <4>1
        <3> QED
            BY <3>3, <3>4
    <2>5. ASSUME NEW last, FreeIf(last) PROVE ServedInTurn'
        BY <2>1, <2>2, <2>5, ZenonT(40) DEF FreeIf, Discard
    <2>6. ASSUME NEW k \in Key, push(k) PROVE ServedInTurn'
        BY <2>3, <2>6 DEF ServedInTurn
    <2>7. CASE poll_next
        BY <2>4, <2>7 DEF ServedInTurn
    <2> QED
        BY <2>1, <2>2, <2>5, <2>6, <2>7
        DEF Next, vars, clone_sender, drop_sender, poll_next_empty, task_runs, clear,
            Discard, drop_receiver
<1> QED
    BY <1>1, <1>2, LineInvariant, PTL DEF Spec
-----------------------------------------------------------------------------
(* What a queue holds, and that it holds it oldest first. *)
Held(q) == {q[i] : i \in 1..Len(q)}
Oldest(q) == \A i, j \in 1..Len(q) : i < j => q[i] < q[j]

(***************************************************************************)
(* PerKeyQueue::push by its effect on what a queue holds: the new message  *)
(* comes, the dropped one goes; when the style drops an old message it is  *)
(* the oldest (message_queues.rs:134-152).                                 *)
(***************************************************************************)
LEMMA PushedHolds ==
    ASSUME NEW q \in Seq(Message), Oldest(q), Len(q) <= MaxQueueSize,
           NEW m \in Message, \A x \in Held(q) : x < m
    PROVE  /\ Held(Pushed(q, m)) = (Held(q) \cup {m}) \ Dropped(q, m)
           /\ Oldest(Pushed(q, m))
           /\ Dropped(q, m) \subseteq Held(q) \cup {m}
           /\ queue_style # "FIFO" =>
                 /\ Dropped(q, m) \subseteq Held(q)
                 /\ \A x \in Dropped(q, m), y \in Held(Pushed(q, m)) : x < y
<1> DEFINE n == Len(q)
<1>1. /\ n \in Nat /\ MaxQueueSize \in Nat \ {0}
      /\ \A i \in 1..n : q[i] \in Message /\ q[i] \in Nat
      /\ m \in Nat /\ \A i \in 1..n : q[i] < m
    BY ChannelAssumption DEF Message, Held
<1>2. CASE n < MaxQueueSize
    <2>1. /\ Pushed(q, m) = Append(q, m) /\ Dropped(q, m) = {}
          /\ Len(Append(q, m)) = n + 1 /\ Append(q, m)[n + 1] = m
          /\ \A i \in 1..n : Append(q, m)[i] = q[i]
        BY <1>1, <1>2 DEF Pushed, Dropped
    <2>2. 1..(n + 1) = 1..n \cup {n + 1}
        BY <1>1
    <2>3. Held(Append(q, m)) = Held(q) \cup {m}
        BY <2>1, <2>2 DEF Held
    <2>4. Oldest(Append(q, m))
        BY <1>1, <2>1, <2>2 DEF Oldest
    <2> QED
        BY <2>1, <2>3, <2>4, SMTT(40)
<1>3. CASE ~(n < MaxQueueSize) /\ queue_style = "FIFO"
    <2>1. Pushed(q, m) = q /\ Dropped(q, m) = {m}
        BY <1>3 DEF Pushed, Dropped
    <2>2. m \notin Held(q)
        BY <1>1 DEF Held
    <2> QED
        BY <1>3, <2>1, <2>2
<1>4. CASE ~(n < MaxQueueSize) /\ queue_style # "FIFO"
    <2> DEFINE r == Append(Tail(q), m)
    <2>1. n \in Nat \ {0} /\ q # <<>> /\ 1 \in 1..n
        BY <1>1, <1>4
    <2>2. Tail(q) \in Seq(Message) /\ Len(Tail(q)) = n - 1
          /\ \A i \in 1..(n - 1) : Tail(q)[i] = q[i + 1]
        BY <2>1
    <2>3. /\ Pushed(q, m) = r /\ Dropped(q, m) = {q[1]}
          /\ Len(r) = n /\ r[n] = m
          /\ \A i \in 1..(n - 1) : r[i] = q[i + 1]
        BY <1>4, <2>1, <2>2 DEF Pushed, Dropped
    <2>4. /\ 1..n = 1..(n - 1) \cup {n}
          /\ \A i \in 1..(n - 1) : i + 1 \in 1..n /\ 1 < i + 1
          /\ \A i \in 1..n : i # 1 => i - 1 \in 1..(n - 1) /\ (i - 1) + 1 = i
        BY <2>1
    <2>5. \A i \in 1..(n - 1) : q[1] < q[i + 1]
        BY <2>1, <2>4 DEF Oldest
    <2>6. q[1] \notin Held(r) /\ \A y \in Held(r) : q[1] < y
        <3>1. \A i \in 1..n : q[1] < r[i]
            <4>1. \A i \in 1..(n - 1) : q[1] < r[i]
                BY <2>3, <2>5
            <4>2. q[1] < r[n]
                BY <1>1, <2>1, <2>3
            <4> QED
                BY <2>4, <4>1, <4>2
        <3>2. q[1] \in Nat /\ ~(q[1] < q[1])
            BY <1>1, <2>1, SMTT(40)
        <3> QED
            BY <2>3, <3>1, <3>2, SMTT(40) DEF Held
    <2>7. \A x \in Held(r) : x \in Held(q) \cup {m}
        BY <2>3, <2>4 DEF Held
    <2>8. m \in Held(r) /\ \A x \in Held(q) : x # q[1] => x \in Held(r)
        <3>1. m \in Held(r)
            BY <2>1, <2>3, <2>4, ZenonT(40) DEF Held
        <3>2. ASSUME NEW i \in 1..n, q[i] # q[1] PROVE q[i] \in Held(r)
            <4>1. i - 1 \in 1..n /\ r[i - 1] = q[i]
                BY <2>3, <2>4, <3>2
            <4> QED
                BY <2>3, <4>1, Zenon DEF Held
        <3> QED
            BY <3>1, <3>2, Zenon DEF Held
    <2>9. Held(r) = (Held(q) \cup {m}) \ {q[1]}
        BY <2>6, <2>7, <2>8
    <2>10. Oldest(r)
        <3> SUFFICES ASSUME NEW i \in 1..n, NEW j \in 1..n, i < j PROVE r[i] < r[j]
            BY <2>3 DEF Oldest
        <3>1. i \in 1..(n - 1)
            BY <2>1
        <3>2. CASE j = n
            BY <1>1, <2>3, <2>4, <3>1, <3>2, SMTT(40)
        <3>3. CASE j # n
            <4>1. j \in 1..(n - 1) /\ i + 1 < j + 1
                BY <2>4, <3>3
            <4> QED
                BY <2>3, <2>4, <3>1, <4>1, SMTT(40) DEF Oldest
        <3> QED
            BY <3>2, <3>3
    <2>11. q[1] \in Held(q)
        BY <2>1, SMTT(40) DEF Held
    <2> QED
        BY <2>3, <2>6, <2>9, <2>10, <2>11, SMTT(40)
<1> QED
    BY <1>2, <1>3, <1>4

(***************************************************************************)
(* pop_from_key_queue by its effect on what a queue holds: one message     *)
(* goes, and unless the style is LIFO it is the oldest                     *)
(* (message_queues.rs:97-109).                                             *)
(***************************************************************************)
LEMMA PoppedHolds ==
    ASSUME NEW q \in Seq(Message), Oldest(q), q # <<>>
    PROVE  /\ Popped(q).msg \in Held(q)
           /\ Held(Popped(q).rest) = Held(q) \ {Popped(q).msg}
           /\ Oldest(Popped(q).rest)
           /\ queue_style # "LIFO" => \A x \in Held(Popped(q).rest) : Popped(q).msg < x
<1> DEFINE n == Len(q)
<1>1. /\ n \in Nat \ {0} /\ 1 \in 1..n /\ n \in 1..n
      /\ \A i \in 1..n : q[i] \in Message /\ q[i] \in Nat
    BY ChannelAssumption DEF Message
<1>2. \A i, j \in 1..n : q[i] = q[j] => i = j
    BY <1>1, SMTT(40) DEF Oldest
<1>3. CASE queue_style = "LIFO"
    <2> DEFINE r == SubSeq(q, 1, n - 1)
    <2>1. Popped(q).msg = q[n] /\ Popped(q).rest = r
        BY <1>3 DEF Popped
    <2>2. Len(r) = n - 1
        BY <1>3, <2>1, PoppedTypes, Zenon
    <2>3. \A i \in 1..(n - 1) : r[i] = q[i]
        BY <1>1
    <2>4. 1..n = 1..(n - 1) \cup {n} /\ n \notin 1..(n - 1)
        BY <1>1
    <2>5. Held(r) = Held(q) \ {q[n]}
        BY <1>2, <2>2, <2>3, <2>4, SMTT(40) DEF Held
    <2>6. Oldest(r)
        BY <2>2, <2>3, <2>4, SMTT(40) DEF Oldest
    <2> QED
        BY <1>1, <1>3, <2>1, <2>5, <2>6, ZenonT(40) DEF Held
<1>4. CASE queue_style # "LIFO"
    <2> DEFINE r == Tail(q)
    <2>1. Popped(q).msg = q[1] /\ Popped(q).rest = r
        BY <1>4 DEF Popped
    <2>2. Len(r) = n - 1 /\ \A i \in 1..(n - 1) : r[i] = q[i + 1]
        BY <1>1
    <2>3. /\ \A i \in 1..(n - 1) : i + 1 \in 1..n /\ 1 < i + 1
          /\ \A i \in 1..n : i # 1 => i - 1 \in 1..(n - 1) /\ (i - 1) + 1 = i
          /\ \A i, j \in 1..(n - 1) : i < j => i + 1 < j + 1
        BY <1>1
    <2>4. \A x \in Held(r) : x \in Held(q) /\ q[1] < x
        BY <1>1, <2>2, <2>3 DEF Held, Oldest
    <2>5. \A x \in Held(q) : x # q[1] => x \in Held(r)
        <3> SUFFICES ASSUME NEW i \in 1..n, q[i] # q[1] PROVE q[i] \in Held(r)
            BY DEF Held
        <3>1. i - 1 \in 1..(n - 1) /\ r[i - 1] = q[i]
            BY <2>2, <2>3
        <3> QED
            BY <2>2, <3>1 DEF Held
    <2>6. q[1] \in Nat /\ ~(q[1] < q[1])
        BY <1>1
    <2>7. Held(r) = Held(q) \ {q[1]}
        BY <2>4, <2>5, <2>6
    <2>8. Oldest(r)
        BY <2>2, <2>3 DEF Oldest
    <2> QED
        BY <1>1, <2>1, <2>4, <2>7, <2>8, ZenonT(40) DEF Held
<1> QED
    BY <1>3, <1>4

(***************************************************************************)
(* The books of the channel: messages are numbered in the order they are   *)
(* sent, the queue of a key holds exactly the messages of that key that    *)
(* are queued, oldest first, and each style keeps its order.               *)
(***************************************************************************)
Numbered ==
    /\ Len(sent) <= MaxPushes
    /\ \A m \in Message : m > Len(sent) <=> status[m] = "unsent"
HeldIsQueued ==
    \A k \in Key :
        /\ Held(per_key_queue[k]) = {m \in Message : status[m] = "queued" /\ sent[m] = k}
        /\ Oldest(per_key_queue[k])
Books == Numbered /\ HeldIsQueued /\ StyleKeepsOrder

(***************************************************************************)
(* push keeps the books (aptos_channel.rs:92-113).                         *)
(***************************************************************************)
LEMMA PushKeepsBooks ==
    ASSUME TypeOK, Books, NEW k \in Key, push(k)
    PROVE  Books'
<1> USE DEF Books
<1> DEFINE q == per_key_queue[k]
           n == Len(sent)
           m == n + 1
           D == Dropped(q, m)
<1>1. n \in Nat /\ m \in Message /\ Message \subseteq Nat /\ MaxPushes \in Nat
      /\ m <= MaxPushes /\ DOMAIN sent = 1..n
    BY ChannelAssumption, SMTT(40) DEF push, Message, TypeOK
<1>2. /\ sent' = Append(sent, k)
      /\ per_key_queue' = [per_key_queue EXCEPT ![k] = Pushed(q, m)]
      /\ status' = [x \in Message |-> IF x \in D THEN "dropped"
                                      ELSE IF x = m THEN "queued" ELSE status[x]]
      /\ queue_style' = queue_style
    BY DEF push
<1>3. Len(sent') = m /\ sent'[m] = k /\ \A x \in 1..n : sent'[x] = sent[x]
    BY <1>1, <1>2 DEF TypeOK
<1>4. \A x \in Message : x \in 1..n \/ x = m \/ x > m
    BY <1>1 DEF Message
<1>5. \A x \in Message : status[x] # "unsent" <=> x \in 1..n
    BY <1>1 DEF Numbered, Message
<1>6. q \in Seq(Message) /\ Len(q) <= MaxQueueSize /\ Oldest(q)
      /\ Held(q) = {x \in Message : status[x] = "queued" /\ sent[x] = k}
    BY SMTT(40) DEF TypeOK, HeldIsQueued
<1>7. \A x \in Held(q) : x \in 1..n /\ x < m
    BY <1>1, <1>5, <1>6, SMTT(40)
<1>8. /\ Held(Pushed(q, m)) = (Held(q) \cup {m}) \ D /\ Oldest(Pushed(q, m))
      /\ D \subseteq Held(q) \cup {m}
      /\ queue_style # "FIFO" =>
            D \subseteq Held(q) /\ \A x \in D, y \in Held(Pushed(q, m)) : x < y
    BY <1>1, <1>6, <1>7, PushedHolds, SMTT(40)
<1>9. /\ \A x \in D : status'[x] = "dropped" /\ x \in Message
      /\ m \notin D => status'[m] = "queued"
      /\ \A x \in Message : x \notin D /\ x # m => status'[x] = status[x]
    BY <1>1, <1>2, <1>6, <1>8, SMTT(40)
<1>10. Numbered'
    <2>1. \A x \in Message : x \in 1..m <=> status'[x] # "unsent"
        <3> TAKE x \in Message
        <3>1. CASE x \in D
            BY <1>1, <1>7, <1>8, <1>9, <3>1, SMTT(40)
        <3>2. CASE x = m /\ x \notin D
            BY <1>1, <1>9, <3>2, SMTT(40)
        <3>3. CASE x # m /\ x \notin D
            BY <1>1, <1>5, <1>9, <3>3, SMTT(40)
        <3> QED
            BY <3>1, <3>2, <3>3, SMTT(40)
    <2> QED
        BY <1>1, <1>3, <2>1, SMTT(40) DEF Numbered, Message
<1>11. ASSUME NEW j \in Key
       PROVE  /\ Held(per_key_queue'[j]) =
                    {x \in Message : status'[x] = "queued" /\ sent'[x] = j}
              /\ Oldest(per_key_queue'[j])
    <2>1. \A x \in Message : x \in 1..n \/ status[x] = "unsent"
        BY <1>5, SMTT(40)
    <2>2. CASE j = k
        <3>1. per_key_queue'[j] = Pushed(q, m)
            BY <1>2, <2>2, SMTT(40) DEF TypeOK
        <3>2. \A x \in Message : x \in (Held(q) \cup {m}) \ D <=>
                                  status'[x] = "queued" /\ sent'[x] = k
            <4> TAKE x \in Message
            <4>1. CASE x \in D
                BY <1>9, <4>1, SMTT(40)
            <4>2. CASE x \notin D /\ x = m
                BY <1>3, <1>9, <4>2, SMTT(40)
            <4>3. CASE x \notin D /\ x # m
                BY <1>3, <1>6, <1>9, <2>1, <4>3, SMTT(40)
            <4> QED
                BY <4>1, <4>2, <4>3
        <3>3. (Held(q) \cup {m}) \ D \subseteq Message
            BY <1>1, <1>6, SMTT(40)
        <3> QED
            BY <1>8, <2>2, <3>1, <3>2, <3>3, SMTT(40)
    <2>3. CASE j # k
        <3>1. per_key_queue'[j] = per_key_queue[j]
            BY <1>2, <2>3, SMTT(40) DEF TypeOK
        <3>2. \A x \in Message : status[x] = "queued" /\ sent[x] = j <=>
                                  status'[x] = "queued" /\ sent'[x] = j
            <4> TAKE x \in Message
            <4>1. CASE x = m
                BY <1>1, <1>3, <1>5, <2>3, <4>1, SMTT(40)
            <4>2. CASE x \in D /\ x # m
                BY <1>6, <1>8, <1>9, <2>3, <4>2, SMTT(40)
            <4>3. CASE x \notin D /\ x # m
                BY <1>3, <1>9, <2>1, <4>3, SMTT(40)
            <4> QED
                BY <4>1, <4>2, <4>3, SMTT(40)
        <3> QED
            BY <3>1, <3>2, SMTT(40) DEF HeldIsQueued
    <2> QED
        BY <2>2, <2>3
<1>12. StyleKeepsOrder'
    <2> SUFFICES ASSUME NEW a \in 1..m, NEW b \in 1..m, sent'[a] = sent'[b],
                        status'[b] = "queued",
                        \/ status'[a] = "dequeued" /\ queue_style # "LIFO"
                        \/ status'[a] = "dropped" /\ queue_style # "FIFO"
                 PROVE  a < b
        BY <1>2, <1>3, SMTT(40) DEF StyleKeepsOrder
    <2>1. a # b /\ a \in Message /\ b \in Message /\ b \notin D
        BY <1>1, <1>9 DEF Message
    <2>2. CASE b = m
        BY <1>1, <2>1, <2>2
    <2>3. CASE b # m
        <3>1. b \in 1..n /\ status[b] = "queued" /\ sent'[b] = sent[b]
            BY <1>1, <1>3, <1>9, <2>1, <2>3, SMTT(40)
        <3>2. CASE a \in D
            <4>1. queue_style # "FIFO"
                BY <1>9, <3>2, SMTT(40)
            <4>2. b \in Held(Pushed(q, m))
                <5>1. a \in Held(q)
                    BY <1>8, <3>2, <4>1, SMTT(40)
                <5>2. sent[b] = k
                    BY <1>3, <1>6, <1>7, <3>1, <5>1, SMTT(40)
                <5> QED
                    BY <1>6, <1>8, <2>1, <3>1, <5>2, SMTT(40)
            <4> QED
                BY <1>8, <3>2, <4>1, <4>2, SMTT(40)
        <3>3. CASE a \notin D
            <4>1. a # m
                BY <1>9, <3>3, SMTT(40)
            <4>2. a \in 1..n /\ status'[a] = status[a] /\ sent'[a] = sent[a]
                BY <1>1, <1>3, <1>9, <2>1, <3>3, <4>1, SMTT(40)
            <4> QED
                BY <3>1, <4>2, SMTT(40) DEF StyleKeepsOrder
        <3> QED
            BY <3>2, <3>3, SMTT(40)
    <2> QED
        BY <2>2, <2>3, SMTT(40)
<1> QED
    BY <1>10, <1>11, <1>12, SMTT(40) DEF HeldIsQueued

(***************************************************************************)
(* Delivering a message keeps the books (aptos_channel.rs:172-178).        *)
(***************************************************************************)
LEMMA PopKeepsBooks ==
    ASSUME TypeOK, LineIsExact, Books, poll_next
    PROVE  Books'
<1> USE DEF Books
<1> DEFINE k == Head(round_robin_queue)
           q == per_key_queue[k]
           p == Popped(q)
<1>1. k \in Key /\ q \in Seq(Message) /\ q # <<>>
    BY HeadHasMessages, SMTT(40) DEF poll_next
<1>2. /\ per_key_queue' = [per_key_queue EXCEPT ![k] = p.rest]
      /\ status' = [status EXCEPT ![p.msg] = "dequeued"]
      /\ UNCHANGED <<queue_style, sent>>
    BY DEF poll_next
<1>3. Oldest(q) /\ Held(q) = {x \in Message : status[x] = "queued" /\ sent[x] = k}
    BY <1>1, SMTT(40) DEF HeldIsQueued
<1>4. /\ p.msg \in Held(q) /\ Held(p.rest) = Held(q) \ {p.msg} /\ Oldest(p.rest)
      /\ queue_style # "LIFO" => \A x \in Held(p.rest) : p.msg < x
    BY <1>1, <1>3, PoppedHolds, SMTT(40)
<1>5. /\ p.msg \in Message /\ status[p.msg] = "queued" /\ sent[p.msg] = k
      /\ status'[p.msg] = "dequeued"
      /\ \A x \in Message : x # p.msg => status'[x] = status[x]
    BY <1>2, <1>3, <1>4, ZenonT(40) DEF TypeOK
<1>6. Numbered'
    BY <1>2, <1>5 DEF Numbered
<1>7. ASSUME NEW j \in Key
      PROVE  /\ Held(per_key_queue'[j]) =
                   {x \in Message : status'[x] = "queued" /\ sent'[x] = j}
             /\ Oldest(per_key_queue'[j])
    <2>1. CASE j = k
        <3>1. per_key_queue'[j] = p.rest
            BY <1>1, <1>2, <2>1, SMTT(40) DEF TypeOK
        <3> QED
            BY <1>2, <1>3, <1>4, <1>5, <2>1, <3>1, SMTT(40)
    <2>2. CASE j # k
        <3>1. per_key_queue'[j] = per_key_queue[j]
            BY <1>2, <2>2, SMTT(40) DEF TypeOK
        <3> QED
            BY <1>2, <1>5, <2>2, <3>1, SMTT(40) DEF HeldIsQueued
    <2> QED
        BY <2>1, <2>2
<1>8. StyleKeepsOrder'
    <2> SUFFICES ASSUME NEW a \in 1..Len(sent), NEW b \in 1..Len(sent), sent[a] = sent[b],
                        status'[b] = "queued",
                        \/ status'[a] = "dequeued" /\ queue_style # "LIFO"
                        \/ status'[a] = "dropped" /\ queue_style # "FIFO"
                 PROVE  a < b
        BY <1>2, SMTT(40) DEF StyleKeepsOrder
    <2>1. a \in Message /\ b \in Message
        BY ChannelAssumption, SMTT(40) DEF Numbered, Message, TypeOK
    <2>2. b # p.msg /\ status[b] = "queued"
        BY <1>5, <2>1, SMTT(40)
    <2>3. CASE a = p.msg
        BY <1>3, <1>4, <1>5, <2>1, <2>2, <2>3, SMTT(40)
    <2>4. CASE a # p.msg
        BY <1>5, <2>1, <2>2, <2>4, SMTT(40) DEF StyleKeepsOrder
    <2> QED
        BY <2>3, <2>4, SMTT(40)
<1> QED
    BY <1>6, <1>7, <1>8, SMTT(40) DEF HeldIsQueued

(***************************************************************************)
(* The books hold in every reachable state, with any number of senders     *)
(* and any queue style (aptos_channel.rs:86-187).                          *)
(***************************************************************************)
THEOREM BooksInvariant == Spec => []Books
<1>1. Init => Books
    <2> SUFFICES ASSUME Init PROVE Books
        OBVIOUS
    <2>1. /\ Len(sent) = 0 /\ \A m \in Message : status[m] = "unsent" /\ m > 0
          /\ MaxPushes \in Nat
        BY ChannelAssumption DEF Init, Message
    <2>2. Numbered
        BY <2>1 DEF Numbered
    <2>3. \A k \in Key : per_key_queue[k] = <<>>
        BY DEF Init
    <2>4. HeldIsQueued
        BY <2>1, <2>3, SMTT(40) DEF HeldIsQueued, Held, Oldest
    <2>5. StyleKeepsOrder
        BY <2>1, SMTT(40) DEF StyleKeepsOrder
    <2> QED
        BY <2>2, <2>4, <2>5 DEF Books
<1>2. TypeOK /\ LineIsExact /\ Books /\ [Next]_vars => Books'
    <2> SUFFICES ASSUME TypeOK, LineIsExact, Books, [Next]_vars PROVE Books'
        BY SMTT(40)
    <2>1. CASE UNCHANGED <<per_key_queue, status, sent, queue_style>>
        BY <2>1 DEF Books, Numbered, HeldIsQueued, StyleKeepsOrder
    <2>2. ASSUME Discard, UNCHANGED <<sent, queue_style>> PROVE Books'
        <3>1. /\ \A k \in Key : per_key_queue'[k] = <<>>
              /\ \A m \in Message :
                    /\ status'[m] # "queued"
                    /\ status'[m] # "destroyed" => status'[m] = status[m]
                    /\ status'[m] = "unsent" <=> status[m] = "unsent"
            BY <2>2, SMTT(40) DEF Discard
        <3>2. Numbered'
            BY <2>2, <3>1, SMTT(40) DEF Books, Numbered
        <3>3. HeldIsQueued'
            BY <3>1, SMTT(40) DEF HeldIsQueued, Held, Oldest
        <3>4. \A m \in 1..Len(sent) : m \in Message
            BY ChannelAssumption, SMTT(40) DEF Books, Numbered, Message, TypeOK
        <3>5. StyleKeepsOrder'
            BY <2>2, <3>1, <3>4, SMTT(40) DEF StyleKeepsOrder
        <3> QED
            BY <3>2, <3>3, <3>5, SMTT(40) DEF Books
    <2>3. ASSUME NEW last, FreeIf(last), UNCHANGED <<sent, queue_style>> PROVE Books'
        <3>1. Discard \/ UNCHANGED <<per_key_queue, status>>
            BY <2>3, Zenon DEF FreeIf
        <3> QED
            BY <2>1, <2>2, <2>3, <3>1, SMTT(40)
    <2> QED
        BY <2>1, <2>2, <2>3, PushKeepsBooks, PopKeepsBooks, SMTT(40)
        DEF Next, vars, clone_sender, drop_sender, poll_next_empty, task_runs, clear,
            drop_receiver
<1> QED
    BY <1>1, <1>2, LineInvariant, PTL DEF Spec

(***************************************************************************)
(* A message further back in its queue waits no less, and one round is at  *)
(* least as long as the line (message_queues.rs:157-203).                  *)
(***************************************************************************)
LEMMA PopsUntilGrows ==
    ASSUME NEW i \in Nat, NEW x \in Nat, NEW j \in Nat
    PROVE  /\ i <= x => PopsUntil(i, j) <= PopsUntil(x, j)
           /\ PopsUntil(i, j + 1) = PopsUntil(i, j) + 1
           /\ j <= Cardinality(Key) => PopsUntil(i, j) <= PopsUntil(i + 1, 1) - 1
<1> DEFINE c == Cardinality(Key)
<1>1. c \in Nat
    BY ChannelAssumption, FS_CardinalityType
<1>2. \A a, b \in Int : (a + b) * c = a * c + b * c
    BY <1>1
<1>3. \A d \in Nat : d * c \in Nat
    BY <1>1
<1>4. (i - 1) * c \in Int /\ (x - 1) * c \in Int /\ i * c \in Int
    BY <1>1
<1>5. ASSUME i <= x PROVE (i - 1) * c <= (x - 1) * c
    <2>1. x - i \in Nat /\ x - 1 = (i - 1) + (x - i)
        BY <1>5
    <2>2. (x - 1) * c = (i - 1) * c + (x - i) * c
        BY <1>2, <2>1
    <2> HIDE DEF c
    <2> QED
        BY <1>3, <1>4, <2>1, <2>2
<1>6. i * c = (i - 1) * c + c
    <2>1. i = (i - 1) + 1 /\ i - 1 \in Int
        OBVIOUS
    <2>2. i * c = (i - 1) * c + 1 * c
        BY <1>2, <2>1
    <2> QED
        BY <1>1, <2>2
<1>7. PopsUntil(i, j) = (i - 1) * c + j /\ PopsUntil(x, j) = (x - 1) * c + j
      /\ PopsUntil(i, j + 1) = (i - 1) * c + (j + 1)
    BY DEF PopsUntil
<1>8. PopsUntil(i + 1, 1) = i * c + 1
    <2>1. (i + 1) - 1 = i
        OBVIOUS
    <2> QED
        BY <2>1 DEF PopsUntil
<1> HIDE DEF c
<1>9. j <= c => PopsUntil(i, j) <= PopsUntil(i + 1, 1) - 1
    BY <1>1, <1>4, <1>6, <1>7, <1>8
<1>10. /\ i <= x => PopsUntil(i, j) <= PopsUntil(x, j)
       /\ PopsUntil(i, j + 1) = PopsUntil(i, j) + 1
    BY <1>4, <1>5, <1>7
<1> QED
    BY <1>9, <1>10 DEF c

(***************************************************************************)
(* push puts the new message last and moves no other back                  *)
(* (message_queues.rs:134-152).                                            *)
(***************************************************************************)
LEMMA PushedPlaces ==
    ASSUME NEW q \in Seq(Message), Len(q) <= MaxQueueSize, NEW m \in Message,
           NEW i \in 1..Len(Pushed(q, m))
    PROVE  \/ i = Len(Pushed(q, m)) /\ Pushed(q, m)[i] = m
           \/ \E x \in 1..Len(q) : i <= x /\ Pushed(q, m)[i] = q[x]
<1> DEFINE n == Len(q)
<1>1. n \in Nat /\ MaxQueueSize \in Nat \ {0}
    BY ChannelAssumption
<1>2. CASE n < MaxQueueSize
    <2>1. /\ Pushed(q, m) = Append(q, m)
          /\ Len(Append(q, m)) = n + 1 /\ Append(q, m)[n + 1] = m
          /\ \A x \in 1..n : Append(q, m)[x] = q[x]
        BY <1>1, <1>2 DEF Pushed
    <2>2. i = n + 1 \/ (i \in 1..n /\ i <= i)
        BY <1>1, <2>1
    <2> QED
        BY <2>1, <2>2, Zenon
<1>3. CASE ~(n < MaxQueueSize) /\ queue_style = "FIFO"
    <2>1. Pushed(q, m) = q
        BY <1>3 DEF Pushed
    <2>2. i \in 1..n /\ i <= i
        BY <1>1, <2>1
    <2> QED
        BY <2>1, <2>2, Zenon
<1>4. CASE ~(n < MaxQueueSize) /\ queue_style # "FIFO"
    <2>1. q # <<>> /\ n \in Nat \ {0}
        BY <1>1, <1>4
    <2>2. Tail(q) \in Seq(Message) /\ Len(Tail(q)) = n - 1
          /\ \A x \in 1..(n - 1) : Tail(q)[x] = q[x + 1]
        BY <2>1
    <2>3. /\ Pushed(q, m) = Append(Tail(q), m)
          /\ Len(Append(Tail(q), m)) = n /\ Append(Tail(q), m)[n] = m
          /\ \A x \in 1..(n - 1) : Append(Tail(q), m)[x] = q[x + 1]
        BY <1>4, <2>1, <2>2 DEF Pushed
    <2>4. i = n \/ (i \in 1..(n - 1) /\ i + 1 \in 1..n /\ i <= i + 1)
        <3>1. i \in 1..n
            BY <2>3, Zenon
        <3> QED
            BY <2>1, <3>1
    <2>5. CASE i = n
        BY <2>3, <2>5, Zenon
    <2>6. ASSUME i \in 1..(n - 1), i + 1 \in 1..n, i <= i + 1
          PROVE  \E x \in 1..n : i <= x /\ Pushed(q, m)[i] = q[x]
        <3>1. Pushed(q, m)[i] = q[i + 1]
            BY <2>3, <2>6, Zenon
        <3> QED
            BY <2>6, <3>1, Zenon
    <2> QED
        BY <2>4, <2>5, <2>6, Zenon
<1> QED
    BY <1>2, <1>3, <1>4

(***************************************************************************)
(* A push makes nobody wait longer, and the new message exactly as long as *)
(* its place in queue and line says (message_queues.rs:113-153).           *)
(***************************************************************************)
LEMMA PushKeepsWait ==
    ASSUME TypeOK, LineIsExact, Books, WaitIsBounded, NEW k \in Key, push(k),
           TypeOK', LineIsExact', queue_style # "LIFO",
           NEW j \in DOMAIN round_robin_queue',
           NEW i \in DOMAIN per_key_queue'[round_robin_queue'[j]]
    PROVE  PopsUntil(i, j) <= due'[per_key_queue'[round_robin_queue'[j]][i]]
<1> DEFINE q == per_key_queue[k]
           m == Len(sent) + 1
           line == round_robin_queue
           n == Len(line)
           y == round_robin_queue'[j]
           c == Place(k, round_robin_queue')
<1>1. /\ m \in Message /\ Message \subseteq Nat
      /\ per_key_queue' = [per_key_queue EXCEPT ![k] = Pushed(q, m)]
      /\ due' = [due EXCEPT ![m] = PopsUntil(Len(per_key_queue'[k]), c)]
    BY ChannelAssumption DEF push, Message, TypeOK
<1>2. /\ n \in Nat /\ DOMAIN line = 1..n
      /\ \A x \in 1..n : line[x] \in Key /\ round_robin_queue'[x] = line[x]
      /\ per_key_queue[k] # <<>> => DOMAIN round_robin_queue' = 1..n
      /\ per_key_queue[k] = <<>> => /\ DOMAIN round_robin_queue' = 1..n \cup {n + 1}
                                    /\ round_robin_queue'[n + 1] = k
    BY LineAfterPush, ZenonT(40)
<1>3. j \in 1..n \/ (y = k /\ q = <<>>)
    BY <1>2
<1>4. y \in Key /\ j \in Nat
    BY <1>2
<1>5. \A x \in Key : \A z \in 1..Len(per_key_queue[x]) :
          per_key_queue[x][z] \in Message /\ per_key_queue[x][z] # m
    <2> TAKE x \in Key
    <2> TAKE z \in 1..Len(per_key_queue[x])
    <2>1. per_key_queue[x][z] \in Held(per_key_queue[x])
        BY DEF Held
    <2>2. per_key_queue[x][z] \in Message /\ status[per_key_queue[x][z]] = "queued"
        BY <2>1 DEF Books, HeldIsQueued
    <2>3. Len(sent) \in Nat /\ m > Len(sent)
        <3>1. sent \in Seq(Key)
            BY DEF TypeOK
        <3> QED
            BY <3>1
    <2>4. \A w \in Message : w > Len(sent) => status[w] = "unsent"
        BY DEF Books, Numbered
    <2>5. status[m] = "unsent"
        BY <1>1, <2>3, <2>4, Zenon
    <2> QED
        BY <2>2, <2>5
<1>6. ASSUME j \in 1..n, NEW z \in 1..Len(per_key_queue[y]), i <= z, i \in Nat,
             per_key_queue'[y][i] = per_key_queue[y][z]
      PROVE  PopsUntil(i, j) <= due'[per_key_queue'[y][i]]
    <2>1. y = line[j] /\ j \in DOMAIN line
        BY <1>2, <1>6
    <2>2. z \in DOMAIN per_key_queue[y] /\ z \in Nat
        BY <1>4 DEF TypeOK
    <2>3. PopsUntil(z, j) <= due[per_key_queue[y][z]]
        BY <2>1, <2>2 DEF WaitIsBounded
    <2>4. due'[per_key_queue[y][z]] = due[per_key_queue[y][z]]
        BY <1>1, <1>4, <1>5 DEF TypeOK
    <2>5. due[per_key_queue[y][z]] \in Int
        BY <1>4, <1>5 DEF TypeOK
    <2>6. PopsUntil(i, j) <= PopsUntil(z, j)
        BY <1>4, <1>6, <2>2, PopsUntilGrows
    <2>7. PopsUntil(i, j) \in Int /\ PopsUntil(z, j) \in Int
        <3>1. i \in Int /\ z \in Int /\ j \in Int
            BY <1>4, <1>6, <2>2
        <3> QED
            BY <3>1, PopsUntilType, Zenon
    <2>8. PopsUntil(i, j) <= due[per_key_queue[y][z]]
        <3> HIDE DEF y
        <3> QED
            BY <2>3, <2>5, <2>6, <2>7
    <2> QED
        BY <1>6, <2>4, <2>8, Zenon
<1>7. CASE y # k
    <2>1. per_key_queue'[y] = per_key_queue[y] /\ j \in 1..n
        BY <1>1, <1>3, <1>4, <1>7 DEF TypeOK
    <2>2. i \in 1..Len(per_key_queue[y]) /\ i <= i /\ i \in Nat
        <3>1. per_key_queue[y] \in Seq(Message)
            BY <1>4 DEF TypeOK
        <3>2. i \in DOMAIN per_key_queue[y]
            BY <2>1, Zenon
        <3> QED
            BY <3>1, <3>2
    <2> QED
        BY <1>6, <2>1, <2>2, Zenon
<1>8. CASE y = k
    <2>1. per_key_queue'[y] = Pushed(q, m) /\ q \in Seq(Message) /\ Len(q) <= MaxQueueSize
        BY <1>1, <1>8 DEF TypeOK
    <2>2. Pushed(q, m) \in Seq(Message)
        BY <1>1, <2>1, PushedTypes
    <2>3. i \in 1..Len(Pushed(q, m)) /\ i \in Nat
        BY <2>1, <2>2
    <2>4. CASE i = Len(Pushed(q, m)) /\ Pushed(q, m)[i] = m
        <3>1. round_robin_queue' \in Seq(Key) /\ \E x \in DOMAIN round_robin_queue' :
                                                     round_robin_queue'[x] = k
            BY <1>8 DEF TypeOK
        <3>2. c \in DOMAIN round_robin_queue' /\ round_robin_queue'[c] = k
            BY <3>1, PlaceInLine
        <3>3. j = c
            BY <1>8, <3>2 DEF LineIsExact
        <3>4. due'[m] = PopsUntil(i, j)
            BY <1>1, <1>8, <2>1, <2>4, <3>3 DEF TypeOK
        <3>5. PopsUntil(i, j) \in Int
            BY <1>4, <2>3, PopsUntilType
        <3> QED
            BY <2>1, <2>4, <3>4, <3>5
    <2>5. CASE \E x \in 1..Len(q) : i <= x /\ Pushed(q, m)[i] = q[x]
        <3>1. PICK x \in 1..Len(q) : i <= x /\ Pushed(q, m)[i] = q[x]
            BY <2>5
        <3>2. q # <<>>
            BY <2>1, <3>1
        <3>3. j \in 1..n
            BY <1>3, <3>2
        <3> QED
            BY <1>6, <1>8, <2>1, <2>3, <3>1, <3>3
    <2> QED
        BY <1>1, <2>1, <2>3, <2>4, <2>5, PushedPlaces, Zenon
<1> QED
    BY <1>7, <1>8

(***************************************************************************)
(* A pop brings every message that waits one pop nearer: a key further in  *)
(* line moves up, and the key served waits no longer than the line for its *)
(* next message, which has moved up in its queue                           *)
(* (message_queues.rs:157-203).                                            *)
(***************************************************************************)
LEMMA PopKeepsWait ==
    ASSUME TypeOK, LineIsExact, WaitIsBounded, poll_next,
           TypeOK', LineIsExact', Books', queue_style # "LIFO",
           NEW j \in DOMAIN round_robin_queue',
           NEW i \in DOMAIN per_key_queue'[round_robin_queue'[j]]
    PROVE  PopsUntil(i, j) <= due'[per_key_queue'[round_robin_queue'[j]][i]]
<1> DEFINE line == round_robin_queue
           n == Len(line)
           k == Head(line)
           q == per_key_queue[k]
           rest == Popped(q).rest
           y == round_robin_queue'[j]
           m == per_key_queue'[y][i]
<1>1. /\ n \in Nat \ {0} /\ k \in Key /\ k = line[1]
      /\ DOMAIN line = 1..n /\ \A x \in 1..n : line[x] \in Key
      /\ \A x \in 1..(n - 1) : /\ x + 1 \in 1..n /\ line[x + 1] # k
                                /\ round_robin_queue'[x] = line[x + 1]
      /\ rest = <<>> => DOMAIN round_robin_queue' = 1..(n - 1)
      /\ rest # <<>> => /\ DOMAIN round_robin_queue' = 1..n
                        /\ round_robin_queue'[n] = k
    BY LineAfterPop, ZenonT(40)
<1>2. /\ per_key_queue' = [per_key_queue EXCEPT ![k] = rest]
      /\ due' = [x \in Message |-> IF status'[x] = "queued" THEN due[x] - 1 ELSE 0]
    BY DEF poll_next
<1>3. /\ round_robin_queue' \in Seq(Key) /\ y \in Key
      /\ j \in Nat /\ per_key_queue'[y] \in Seq(Message)
    <2>1. round_robin_queue' \in Seq(Key) /\ per_key_queue' \in [Key -> Seq(Message)]
        BY DEF TypeOK
    <2>2. y \in Key /\ j \in Nat
        BY <2>1
    <2> QED
        BY <2>1, <2>2
<1>4. i \in 1..Len(per_key_queue'[y]) /\ i \in Nat /\ m \in Message
    <2>1. i \in DOMAIN per_key_queue'[y]
        OBVIOUS
    <2> HIDE DEF y
    <2> QED
        BY <1>3, <2>1
<1>5. due'[m] = due[m] - 1 /\ due[m] \in Int
    <2>1. m \in Held(per_key_queue'[y])
        BY <1>4, Zenon DEF Held
    <2>2. Held(per_key_queue'[y]) = {x \in Message : status'[x] = "queued" /\ sent'[x] = y}
        BY <1>3, Zenon DEF Books, HeldIsQueued
    <2>3. status'[m] = "queued"
        BY <2>1, <2>2, Zenon
    <2> QED
        BY <1>2, <1>4, <2>3 DEF TypeOK
<1>6. /\ PopsUntil(i, j) \in Int
      /\ PopsUntil(i, j + 1) = PopsUntil(i, j) + 1
      /\ j <= Cardinality(Key) => PopsUntil(i, j) <= PopsUntil(i + 1, 1) - 1
    <2>1. i \in Int /\ j \in Int
        BY <1>3, <1>4
    <2>2. PopsUntil(i, j) \in Int
        BY <2>1, PopsUntilType, Zenon
    <2> QED
        BY <1>3, <1>4, <2>2, PopsUntilGrows, Zenon
<1>7. CASE j \in 1..(n - 1)
    <2>1. y = line[j + 1] /\ y # k /\ j + 1 \in DOMAIN line
        BY <1>1, <1>7
    <2>2. per_key_queue'[y] = per_key_queue[y]
        BY <1>2, <1>3, <2>1 DEF TypeOK
    <2>3. PopsUntil(i, j + 1) <= due[m]
        BY <2>1, <2>2, Zenon DEF WaitIsBounded
    <2>4. PopsUntil(i, j) <= due'[m]
        <3> HIDE DEF m
        <3> QED
            BY <1>5, <1>6, <2>3
    <2> QED
        BY <2>4
<1>8. CASE j \notin 1..(n - 1)
    <2>1. rest # <<>> /\ j = n /\ y = k
        BY <1>1, <1>8
    <2>2. q \in Seq(Message) /\ q # <<>>
        BY HeadHasMessages DEF poll_next
    <2>3. per_key_queue'[y] = Tail(q)
        BY <1>2, <1>3, <2>1 DEF TypeOK, Popped
    <2>4. i + 1 \in DOMAIN q /\ m = q[i + 1]
        BY <1>4, <2>2, <2>3
    <2>5. 1 \in DOMAIN line /\ line[1] = k
        BY <1>1
    <2>6. PopsUntil(i + 1, 1) <= due[m]
        BY <2>4, <2>5, Zenon DEF WaitIsBounded
    <2>7. j <= Cardinality(Key)
        <3>1. Len(line) <= Cardinality(Key)
            BY LineFits DEF TypeOK, LineIsExact
        <3> QED
            BY <2>1, <3>1
    <2>8. PopsUntil(i + 1, 1) \in Int
        BY <1>4, PopsUntilType
    <2>9. PopsUntil(i, j) <= due'[m]
        <3> HIDE DEF m
        <3> QED
            BY <1>5, <1>6, <2>6, <2>7, <2>8
    <2> QED
        BY <2>9
<1> QED
    BY <1>7, <1>8

(***************************************************************************)
(* A bounded wait for any number of keys, any queue size and any rate of   *)
(* sending: with FIFO and KLAST what is ahead of a message, in its queue   *)
(* and in the line of keys, is always within the pops it had left when it  *)
(* was pushed, less those that have happened (message_queues.rs:113-203).  *)
(***************************************************************************)
THEOREM WaitIsBoundedInvariant == Spec => []WaitIsBounded
<1>1. Init => WaitIsBounded
    BY DEF Init, WaitIsBounded
<1>2. /\ TypeOK /\ LineIsExact /\ Books /\ TypeOK' /\ LineIsExact' /\ Books'
      /\ WaitIsBounded /\ [Next]_vars
      => WaitIsBounded'
    <2> SUFFICES ASSUME TypeOK, LineIsExact, Books, TypeOK', LineIsExact', Books',
                        WaitIsBounded, [Next]_vars
                 PROVE  WaitIsBounded'
        OBVIOUS
    <2>1. CASE UNCHANGED <<queue_style, per_key_queue, round_robin_queue, due>>
        BY <2>1 DEF WaitIsBounded
    <2>2. CASE round_robin_queue' = <<>>
        BY <2>2 DEF WaitIsBounded
    <2>3. ASSUME NEW k \in Key, push(k) PROVE WaitIsBounded'
        <3>1. queue_style' = queue_style
            BY <2>3 DEF push
        <3> QED
            BY <2>3, <3>1, PushKeepsWait, Zenon DEF WaitIsBounded
    <2>4. CASE poll_next
        <3>1. queue_style' = queue_style
            BY <2>4 DEF poll_next
        <3> QED
            BY <2>4, <3>1, PopKeepsWait, Zenon DEF WaitIsBounded
    <2>5. ASSUME NEW last, FreeIf(last), UNCHANGED queue_style PROVE WaitIsBounded'
        BY <2>1, <2>2, <2>5, ZenonT(40) DEF FreeIf, Discard
    <2> QED
        BY <2>1, <2>2, <2>3, <2>4, <2>5
        DEF Next, vars, clone_sender, drop_sender, poll_next_empty, task_runs, clear,
            Discard, drop_receiver
<1> QED
    BY <1>1, <1>2, LineInvariant, BooksInvariant, PTL DEF Spec

(***************************************************************************)
(* What each style promises a key, for any size and number of messages:    *)
(* FIFO and KLAST deliver in order, LIFO and KLAST drop the oldest         *)
(* (message_queues.rs:16-28).                                              *)
(***************************************************************************)
THEOREM StyleKeepsOrderInvariant == Spec => []StyleKeepsOrder
<1>1. Books => StyleKeepsOrder
    BY DEF Books
<1> QED
    BY <1>1, BooksInvariant, PTL

(***************************************************************************)
(* Every message sent is in its key's queue, once, exactly as long as      *)
(* nothing has become of it: none is lost without a status and none is     *)
(* delivered twice (aptos_channel.rs:56-62, 92-113, 172-178).              *)
(***************************************************************************)
THEOREM EveryMessageAccountedInvariant == Spec => []EveryMessageAccounted
<1>1. TypeOK /\ Books => EveryMessageAccounted
    <2> SUFFICES ASSUME TypeOK, Books, NEW m \in Message
                 PROVE  /\ m > Len(sent) <=> status[m] = "unsent"
                        /\ \A k \in Key, i \in Message :
                              (i \in DOMAIN per_key_queue[k] /\ per_key_queue[k][i] = m)
                                 => status[m] = "queued" /\ sent[m] = k
                        /\ status[m] = "queued" =>
                              Cardinality({i \in DOMAIN per_key_queue[sent[m]] :
                                              per_key_queue[sent[m]][i] = m}) = 1
        BY DEF EveryMessageAccounted
    <2>1. \A k \in Key : DOMAIN per_key_queue[k] = 1..Len(per_key_queue[k])
                          /\ per_key_queue[k] \in Seq(Message)
        BY SMTT(40) DEF TypeOK
    <2>2. \A k \in Key : m \in Held(per_key_queue[k]) <=>
                             status[m] = "queued" /\ sent[m] = k
        BY SMTT(40) DEF Books, HeldIsQueued
    <2>3. ASSUME status[m] = "queued"
          PROVE  Cardinality({i \in DOMAIN per_key_queue[sent[m]] :
                                 per_key_queue[sent[m]][i] = m}) = 1
        <3> DEFINE q == per_key_queue[sent[m]]
        <3>1. m \in 1..Len(sent)
            BY <2>3, ChannelAssumption DEF Books, Numbered, Message, TypeOK
        <3>2. sent[m] \in Key
            BY <3>1 DEF TypeOK
        <3>3. PICK i \in 1..Len(q) : q[i] = m
            BY <2>2, <2>3, <3>2 DEF Held
        <3>4. \A j \in 1..Len(q) : q[j] = m => j = i
            <4>1. Oldest(q) /\ Len(q) \in Nat /\ m \in Nat
                BY <2>1, <3>2, ChannelAssumption, SMTT(40)
                   DEF Books, HeldIsQueued, Message
            <4> QED
                BY <3>3, <4>1 DEF Oldest
        <3>5. {j \in DOMAIN q : q[j] = m} = {i}
            BY <2>1, <3>2, <3>3, <3>4
        <3> QED
            BY <3>5, FS_Singleton, ZenonT(40)
    <2> QED
        BY <2>1, <2>2, <2>3, SMTT(40) DEF Books, Numbered, Held
<1> QED
    BY <1>1, LineInvariant, BooksInvariant, PTL
=============================================================================
