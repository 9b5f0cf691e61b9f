---------------------------- MODULE AptosChannel ----------------------------
(***************************************************************************)
(* The channel between tasks of the Aptos node                             *)
(* (aptos-core/crates/channel/src/aptos_channel.rs) and the queue inside   *)
(* it (message_queues.rs): a bounded queue per key, keys served in turn,   *)
(* many senders, one receiver that sleeps until it is woken.  Every call   *)
(* holds the mutex of SharedState, so every call is one step.  A message   *)
(* is the number of the push that sent it.                                 *)
(***************************************************************************)
EXTENDS Integers, Sequences, FiniteSets

CONSTANTS
    Key,
    MaxQueueSize,      \* max_queue_size, NonZeroUsize
    POPS_PER_GC,       \* dequeues between removals of empty queues
    MaxPushes,         \* bound: messages in one behaviour
    MaxSenders         \* bound: senders alive at once

ASSUME ChannelAssumption ==
    /\ IsFiniteSet(Key)
    /\ MaxQueueSize \in Nat \ {0}
    /\ POPS_PER_GC \in Nat \ {0}
    /\ MaxPushes \in Nat /\ MaxSenders \in Nat \ {0}

VARIABLES
    queue_style,           \* chosen when the channel is built
    per_key_queue,         \* per_key_queue[k]: its messages, oldest first
    keys,                  \* the keys for which per_key_queue has an entry
    round_robin_queue,     \* the keys with messages, in the order they are served
    num_popped_since_gc,
    waker,                 \* a waker is registered
    num_senders,
    receiver,              \* "ready" to poll, "asleep", "done" (saw None), "dropped"
    sent,                  \* sent[m]: the key of message m
    status,                \* status[m]: what became of message m
    passed,                \* history: passed[k] were served since k lined up
    due                    \* history: the pops within which message m is to leave

vars == <<queue_style, per_key_queue, keys, round_robin_queue, num_popped_since_gc,
          waker, num_senders, receiver, sent, status, passed, due>>

Message == 1..MaxPushes
Status == {"unsent", "queued", "dequeued", "dropped", "destroyed"}

Init ==
    /\ queue_style \in {"FIFO", "LIFO", "KLAST"}
    /\ per_key_queue = [k \in Key |-> <<>>]
    /\ keys = {}
    /\ round_robin_queue = <<>>
    /\ num_popped_since_gc = 0
    /\ waker = FALSE
    /\ num_senders = 1
    /\ receiver = "ready"
    /\ sent = <<>>
    /\ status = [m \in Message |-> "unsent"]
    /\ passed = [k \in Key |-> {}]
    /\ due = [m \in Message |-> 0]
-----------------------------------------------------------------------------
(***************************************************************************)
(* PerKeyQueue::push: a full queue drops the new message (FIFO) or its     *)
(* oldest (LIFO, KLAST).                                                   *)
(***************************************************************************)
Pushed(q, m) ==
    IF Len(q) < MaxQueueSize THEN Append(q, m)
    ELSE IF queue_style = "FIFO" THEN q
    ELSE Append(Tail(q), m)

Dropped_newest(q, m) == IF Len(q) < MaxQueueSize THEN {} ELSE {m}

Dropped(q, m) ==
    IF Len(q) < MaxQueueSize THEN {}
    ELSE IF queue_style = "FIFO" THEN {m}
    ELSE {Head(q)}

LinedUp_new_keys(k) ==
    IF k \notin keys THEN Append(round_robin_queue, k) ELSE round_robin_queue

LinedUp_in_front(k) ==
    IF per_key_queue[k] = <<>> THEN <<k>> \o round_robin_queue ELSE round_robin_queue

(* A key with no message so far joins the line. *)
LinedUp(k) ==
    IF per_key_queue[k] = <<>> THEN Append(round_robin_queue, k)
    ELSE round_robin_queue

(* The place of a key in a line. *)
Place(k, line) ==
    IF \E j \in DOMAIN line : line[j] = k THEN CHOOSE j \in DOMAIN line : line[j] = k
    ELSE 0

(* The pops until the i-th message of the j-th key is served: i - 1 whole *)
(* rounds of at most one message of each key, and the keys ahead.         *)
PopsUntil(i, j) == (i - 1) * Cardinality(Key) + j

Wake_nobody == UNCHANGED <<waker, receiver>>

(* waker.take(), and the receiver's task is scheduled again. *)
Wake ==
    /\ waker' = FALSE
    /\ receiver' = IF waker /\ receiver = "asleep" THEN "ready" ELSE receiver

(***************************************************************************)
(* Sender::push: the sender of the message dropped is told, and a sleeping *)
(* receiver is woken.                                                      *)
(***************************************************************************)
push(k) ==
    LET q == per_key_queue[k]
        m == Len(sent) + 1
    IN /\ num_senders > 0 /\ receiver # "dropped" /\ m <= MaxPushes
       /\ sent' = Append(sent, k)
       /\ keys' = keys \cup {k}
       /\ round_robin_queue' = LinedUp(k)
       /\ per_key_queue' = [per_key_queue EXCEPT ![k] = Pushed(q, m)]
       /\ status' = [x \in Message |-> IF x \in Dropped(q, m) THEN "dropped"
                                       ELSE IF x = m THEN "queued" ELSE status[x]]
       /\ passed' = [passed EXCEPT ![k] = IF q = <<>> THEN {} ELSE @]
       /\ due' = [due EXCEPT ![m] = PopsUntil(Len(per_key_queue'[k]),
                                             Place(k, round_robin_queue'))]
       /\ Wake
       /\ UNCHANGED <<queue_style, num_popped_since_gc, num_senders>>

(* What is queued is destroyed; its senders get no status. *)
Discard ==
    /\ per_key_queue' = [k \in Key |-> <<>>]
    /\ round_robin_queue' = <<>>
    /\ keys' = {}
    /\ status' = [m \in Message |-> IF status[m] = "queued" THEN "destroyed"
                                    ELSE status[m]]
    /\ passed' = [k \in Key |-> {}]
    /\ due' = [m \in Message |-> 0]

(* The last handle on the shared state frees it with all that is in it. *)
FreeIf(last) ==
    IF last THEN Discard
    ELSE UNCHANGED <<per_key_queue, round_robin_queue, keys, status, passed, due>>

(* Sender::clone, and Drop for Sender: the last one wakes the receiver. *)
clone_sender ==
    /\ num_senders \in 1..(MaxSenders - 1)
    /\ num_senders' = num_senders + 1
    /\ UNCHANGED <<queue_style, per_key_queue, keys, round_robin_queue,
                   num_popped_since_gc, waker, receiver, sent, status, passed, due>>

drop_sender ==
    /\ num_senders > 0
    /\ num_senders' = num_senders - 1
    /\ IF num_senders' = 0 THEN Wake ELSE UNCHANGED <<waker, receiver>>
    /\ FreeIf(num_senders' = 0 /\ receiver = "dropped")
    /\ UNCHANGED <<queue_style, num_popped_since_gc, sent>>
-----------------------------------------------------------------------------
Popped_newest(q) == [msg |-> q[Len(q)], rest |-> SubSeq(q, 1, Len(q) - 1)]

(* pop_from_key_queue *)
Popped(q) ==
    IF queue_style = "LIFO" THEN [msg |-> q[Len(q)], rest |-> SubSeq(q, 1, Len(q) - 1)]
    ELSE [msg |-> Head(q), rest |-> Tail(q)]

NextTurns_same_key(rest) ==
    IF rest = <<>> THEN Tail(round_robin_queue) ELSE round_robin_queue

(* The key served goes to the back of the line if it has more. *)
NextTurns(rest) ==
    IF rest = <<>> THEN Tail(round_robin_queue)
    ELSE Append(Tail(round_robin_queue), Head(round_robin_queue))

(***************************************************************************)
(* poll_next with a message in the queue: PerKeyQueue::pop serves the      *)
(* first key of the line; every POPS_PER_GC pops the empty queues are      *)
(* removed; the message's sender is told.                                  *)
(***************************************************************************)
poll_next ==
    LET k == Head(round_robin_queue)
        p == Popped(per_key_queue[k])
        gc == num_popped_since_gc + 1 >= POPS_PER_GC
    IN /\ receiver = "ready"
       /\ round_robin_queue # <<>>
       /\ per_key_queue' = [per_key_queue EXCEPT ![k] = p.rest]
       /\ round_robin_queue' = NextTurns(p.rest)
       /\ num_popped_since_gc' = IF gc THEN 0 ELSE num_popped_since_gc + 1
       /\ keys' = IF gc THEN {j \in keys : per_key_queue'[j] # <<>>} ELSE keys
       /\ status' = [status EXCEPT ![p.msg] = "dequeued"]
       /\ passed' = [j \in Key |-> IF j = k \/ per_key_queue[j] = <<>> THEN {}
                                   ELSE passed[j] \cup {k}]
       /\ due' = [m \in Message |-> IF status'[m] = "queued" THEN due[m] - 1 ELSE 0]
       /\ UNCHANGED <<queue_style, waker, num_senders, receiver, sent>>

(* poll_next with none: None after the last sender is gone, else sleep. *)
poll_next_empty ==
    /\ receiver = "ready"
    /\ round_robin_queue = <<>>
    /\ IF num_senders = 0 THEN receiver' = "done" /\ UNCHANGED waker
       ELSE receiver' = "asleep" /\ waker' = TRUE
    /\ UNCHANGED <<queue_style, per_key_queue, keys, round_robin_queue,
                   num_popped_since_gc, num_senders, sent, status, passed, due>>

(* The receiver's task runs for another reason, its waker still in place. *)
task_runs ==
    /\ receiver = "asleep"
    /\ receiver' = "ready"
    /\ UNCHANGED <<queue_style, per_key_queue, keys, round_robin_queue, waker,
                   num_popped_since_gc, num_senders, sent, status, passed, due>>

(* Receiver::clear *)
clear ==
    /\ receiver \in {"ready", "done"}
    /\ Discard
    /\ UNCHANGED <<queue_style, num_popped_since_gc, waker, num_senders, receiver, sent>>

(* Drop for Receiver: what is queued stays with the senders. *)
drop_receiver ==
    /\ receiver # "dropped"
    /\ receiver' = "dropped"
    /\ FreeIf(num_senders = 0)
    /\ UNCHANGED <<queue_style, num_popped_since_gc, waker, num_senders, sent>>

Next ==
    \/ \E k \in Key : push(k)
    \/ clone_sender \/ drop_sender
    \/ poll_next \/ poll_next_empty \/ task_runs \/ clear \/ drop_receiver

Spec == Init /\ [][Next]_vars
-----------------------------------------------------------------------------
(* Type invariant: SharedState and PerKeyQueue, each queue within its size. *)
TypeOK ==
    /\ queue_style \in {"FIFO", "LIFO", "KLAST"}
    /\ per_key_queue \in [Key -> Seq(Message)]
    /\ \A k \in Key : Len(per_key_queue[k]) <= MaxQueueSize
    /\ keys \subseteq Key
    /\ round_robin_queue \in Seq(Key)
    /\ num_popped_since_gc \in 0..(POPS_PER_GC - 1)
    /\ waker \in BOOLEAN
    /\ num_senders \in 0..MaxSenders
    /\ receiver \in {"ready", "asleep", "done", "dropped"}
    /\ sent \in Seq(Key)
    /\ status \in [Message -> Status]
    /\ passed \in [Key -> SUBSET Key]
    /\ due \in [Message -> Int]

(***************************************************************************)
(* The line holds exactly the keys that have messages, each once: pop      *)
(* neither skips a key nor finds an empty queue, whatever the garbage      *)
(* collection and clear have removed in between.                           *)
(***************************************************************************)
LineIsExact ==
    /\ \A k \in Key : per_key_queue[k] # <<>>
                        <=> \E i \in DOMAIN round_robin_queue : round_robin_queue[i] = k
    /\ \A i, j \in DOMAIN round_robin_queue :
          round_robin_queue[i] = round_robin_queue[j] => i = j
    /\ \A k \in Key : per_key_queue[k] # <<>> => k \in keys

(***************************************************************************)
(* No lost wake-up: a sleeping receiver has its waker registered, nothing  *)
(* to receive and a sender that can still wake it.                         *)
(***************************************************************************)
NoLostWakeup ==
    receiver = "asleep" => waker /\ round_robin_queue = <<>> /\ num_senders > 0

(***************************************************************************)
(* Round robin: whoever is ahead of a key in the line has not been served  *)
(* since that key lined up, so no key waits for more than one message of   *)
(* each other key.                                                         *)
(***************************************************************************)
ServedInTurn ==
    \A i, j \in DOMAIN round_robin_queue :
        i < j => round_robin_queue[i] \notin passed[round_robin_queue[j]]

(***************************************************************************)
(* Every message sent is in exactly one place: in its key's queue, once,   *)
(* if and only if nothing has become of it yet.                            *)
(***************************************************************************)
EveryMessageAccounted ==
    \A m \in Message :
        /\ m > Len(sent) <=> status[m] = "unsent"
        /\ \A k \in Key, i \in Message :
              (i \in DOMAIN per_key_queue[k] /\ per_key_queue[k][i] = m)
                 => status[m] = "queued" /\ sent[m] = k
        /\ status[m] = "queued" =>
              Cardinality({i \in DOMAIN per_key_queue[sent[m]] :
                              per_key_queue[sent[m]][i] = m}) = 1

(***************************************************************************)
(* What each style promises a key: with FIFO and KLAST whatever was        *)
(* delivered is older than all that is queued; with LIFO and KLAST         *)
(* whatever was dropped is; so KLAST keeps the newest, in order.           *)
(***************************************************************************)
StyleKeepsOrder ==
    \A m, n \in 1..Len(sent) :
        /\ sent[m] = sent[n] /\ status[n] = "queued"
        /\ \/ status[m] = "dequeued" /\ queue_style # "LIFO"
           \/ status[m] = "dropped" /\ queue_style # "FIFO"
        => m < n

(***************************************************************************)
(* A bounded wait, however fast others send: with FIFO and KLAST a message *)
(* pushed to place i of the queue of the j-th key in line is delivered, or *)
(* pushed out, within PopsUntil(i, j) pops; what is still ahead of it is   *)
(* always within the pops it has left.  With LIFO newer messages of its    *)
(* key can keep a message back for ever.                                   *)
(***************************************************************************)
WaitIsBounded ==
    queue_style # "LIFO" =>
        \A j \in DOMAIN round_robin_queue :
            LET q == per_key_queue[round_robin_queue[j]]
            IN  \A i \in DOMAIN q : PopsUntil(i, j) <= due[q[i]]
=============================================================================
