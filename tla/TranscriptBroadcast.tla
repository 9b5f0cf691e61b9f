------------------------- MODULE TranscriptBroadcast -------------------------
(***************************************************************************)
(* How a validator collects DKG transcripts: ReliableBroadcast::multicast  *)
(* (aptos-core/crates/reliable-broadcast/src/lib.rs) with the DKG          *)
(* aggregator (aptos-core/dkg/src/transcript_aggregation/mod.rs) as its    *)
(* status.  One request per validator is out at a time; each answer is     *)
(* handed to a task of a bounded executor, which calls add under the       *)
(* aggregator's lock; a failure of any kind is retried after a backoff.    *)
(***************************************************************************)
EXTENDS Integers, FiniteSets, FiniteSetsExt

CONSTANTS
    Validator,      \* the receivers, the sender among them
    Power,          \* Power[v]: voting power
    Dealers,        \* the sets of dealers a transcript can name
    Correct,        \* validators that in the end send a transcript that verifies
    Permits,        \* tasks the executor runs at once
    MaxFailures     \* bound: failed requests per validator

ASSUME BroadcastAssumption ==
    /\ IsFiniteSet(Validator) /\ Validator # {} /\ Power \in [Validator -> Nat]
    /\ Dealers \subseteq SUBSET Validator
    /\ Correct \subseteq Validator
    /\ Permits \in Nat /\ MaxFailures \in Nat

PowerOf(S) == MapThenSumSet(LAMBDA v : Power[v], S)

(* ValidatorVerifier: quorum_voting_power = total * 2 / 3 + 1; there is at *)
(* least one validator, the sender.                                        *)
Quorum == (PowerOf(Validator) * 2) \div 3 + 1

(***************************************************************************)
(* What comes back.  "refused": a transport error or timeout, a peer that  *)
(* has not dealt yet (process_peer_rpc_msg answers Err), a transcript of   *)
(* another epoch or author or one that cannot be decoded; add is not       *)
(* called, or fails before it takes the lock.  "unverified": it fails      *)
(* verify_transcript.  "verified": it passes, with the dealers it names,   *)
(* which verify_transcript requires to be validators and does not compare  *)
(* with the sender.                                                        *)
(***************************************************************************)
Answer ==
    [kind : {"refused", "unverified"}, dealers : {{}}]
        \cup [kind : {"verified"}, dealers : Dealers]

(* A transcript that was aggregated: who sent it and whose dealings it is. *)
Part == [peer : Validator, dealers : Dealers]

Senders(agg) == {p.peer : p \in agg}
DealersOf(agg) == UNION {p.dealers : p \in agg}

VARIABLES
    rpc,            \* rpc_futures: validators with a request or backoff pending
    tasks,          \* spawned add calls that have not run: [peer, answer]
    results,        \* aggregate_futures that have ended: [peer, ok, aggregated]
    contributors,   \* TranscriptAggregator.contributors
    trx,            \* TranscriptAggregator.trx: the parts it was aggregated from
    failures,       \* failures[v]: failed requests so far
    returned        \* <<>>, or <<the aggregate that was returned>>

broadcast_vars == <<rpc, tasks, results, contributors, trx, failures, returned>>

BroadcastInit ==
    /\ rpc = Validator
    /\ tasks = {}
    /\ results = {}
    /\ contributors = {}
    /\ trx = {}
    /\ failures = [v \in Validator |-> 0]
    /\ returned = <<>>
-----------------------------------------------------------------------------
(* rpc_futures.next(), then executor.spawn, which waits for a permit. *)
Respond(v, answer) ==
    /\ returned = <<>>
    /\ v \in rpc
    /\ Cardinality(tasks) < Permits
    /\ answer.kind # "verified" => v \notin Correct \/ failures[v] < MaxFailures
    /\ rpc' = rpc \ {v}
    /\ tasks' = tasks \cup {[peer |-> v, answer |-> answer]}
    /\ UNCHANGED <<results, contributors, trx, failures, returned>>

add_returns_once(t) ==
    LET part == [peer |-> t.peer, dealers |-> t.answer.dealers]
        new == contributors \cup {t.peer}
        repeated == t.peer \in contributors /\ t.answer.kind # "refused"
        ok == t.answer.kind = "verified" /\ ~repeated
        reached == PowerOf(contributors) < Quorum /\ PowerOf(new) >= Quorum
    IN /\ t \in tasks
       /\ tasks' = tasks \ {t}
       /\ contributors' = IF ok THEN new ELSE contributors
       /\ trx' = IF ok THEN trx \cup {part} ELSE trx
       /\ results' = results \cup
             {[peer |-> t.peer, ok |-> ok \/ repeated,
               aggregated |-> IF ok /\ reached THEN <<trx'>> ELSE <<>>]}
       /\ UNCHANGED <<rpc, failures, returned>>

add_counts_heads(t) ==
    LET part == [peer |-> t.peer, dealers |-> t.answer.dealers]
        new == contributors \cup {t.peer}
        ok == t.answer.kind = "verified"
    IN /\ t \in tasks
       /\ tasks' = tasks \ {t}
       /\ contributors' = IF ok THEN new ELSE contributors
       /\ trx' = IF ok THEN trx \cup {part} ELSE trx
       /\ results' = results \cup
             {[peer |-> t.peer, ok |-> ok,
               aggregated |-> IF ok /\ Cardinality(new) * 3 > 2 * Cardinality(Validator)
                              THEN <<trx'>> ELSE <<>>]}
       /\ UNCHANGED <<rpc, failures, returned>>

(***************************************************************************)
(* A task calls add, or passes an error on.  A second transcript of one    *)
(* author is Ok(None), before it is verified; a first one that verifies    *)
(* is aggregated, and the answer is the aggregate when the senders so far  *)
(* have a quorum.                                                          *)
(***************************************************************************)
add(t) ==
    LET part == [peer |-> t.peer, dealers |-> t.answer.dealers]
        new == contributors \cup {t.peer}
        repeated == t.peer \in contributors /\ t.answer.kind # "refused"
        ok == t.answer.kind = "verified" /\ ~repeated
    IN /\ t \in tasks
       /\ tasks' = tasks \ {t}
       /\ contributors' = IF ok THEN new ELSE contributors
       /\ trx' = IF ok THEN trx \cup {part} ELSE trx
       /\ results' = results \cup
             {[peer |-> t.peer, ok |-> ok \/ repeated,
               aggregated |-> IF ok /\ PowerOf(new) >= Quorum THEN <<trx'>> ELSE <<>>]}
       /\ UNCHANGED <<rpc, failures, returned>>

(* aggregate_futures.next(): return, go on, or back off and send again. *)
Collect_without_retry(r) ==
    /\ returned = <<>>
    /\ r \in results
    /\ results' = results \ {r}
    /\ returned' = IF r.ok THEN r.aggregated ELSE <<>>
    /\ UNCHANGED <<rpc, tasks, contributors, trx, failures>>

Collect(r) ==
    /\ returned = <<>>
    /\ r \in results
    /\ results' = results \ {r}
    /\ returned' = IF r.ok THEN r.aggregated ELSE <<>>
    /\ rpc' = IF r.ok THEN rpc ELSE rpc \cup {r.peer}
    /\ failures' = IF r.ok \/ failures[r.peer] = MaxFailures THEN failures
                   ELSE [failures EXCEPT ![r.peer] = @ + 1]
    /\ UNCHANGED <<tasks, contributors, trx>>

BroadcastNext ==
    \/ \E v \in Validator, a \in Answer : Respond(v, a)
    \/ \E t \in tasks : add(t)
    \/ \E r \in results : Collect(r)

(***************************************************************************)
(* Every request is answered or times out; the executor's semaphore hands  *)
(* out permits in turn and its threads run every task; and the loop takes  *)
(* each result that is ready.                                              *)
(***************************************************************************)
BroadcastFairness ==
    \A v \in Validator :
        /\ SF_broadcast_vars(\E a \in Answer : Respond(v, a))
        /\ WF_broadcast_vars(\E t \in tasks : t.peer = v /\ add(t))
        /\ WF_broadcast_vars(\E r \in results : r.peer = v /\ Collect(r))

BroadcastSpec == BroadcastInit /\ [][BroadcastNext]_broadcast_vars /\ BroadcastFairness
-----------------------------------------------------------------------------
(* Type invariant: the futures of the loop and the aggregator. *)
BroadcastTypeOK ==
    /\ rpc \subseteq Validator
    /\ tasks \subseteq [peer : Validator, answer : Answer]
    /\ \A r \in results : r.peer \in Validator /\ r.ok \in BOOLEAN
    /\ contributors \subseteq Validator
    /\ trx \subseteq Part
    /\ failures \in [Validator -> 0..MaxFailures]
    /\ Cardinality(tasks) <= Permits

(***************************************************************************)
(* The aggregate that multicast returns, though the add calls of several   *)
(* tasks race for the lock and their results are taken in any order: it    *)
(* has one transcript per sender, from senders with a quorum of the power; *)
(* nobody whose answer the loop took without an aggregate is missing from  *)
(* it, so a caller that was told Ok(None) was counted; and if each         *)
(* transcript names its sender as a dealer, the dealers have a quorum too. *)
(* (Nothing in add says that it does: see Answer.)                         *)
(***************************************************************************)
ReturnedAggregateIsWhole ==
    returned # <<>> =>
        LET agg == returned[1]
        IN  /\ \A p, q \in agg : p.peer = q.peer => p = q
            /\ PowerOf(Senders(agg)) >= Quorum
            /\ \A v \in Validator :
                  \/ v \in Senders(agg) \/ v \in rpc
                  \/ \E f \in tasks \cup results : f.peer = v
            /\ (\A p \in agg : p.peer \in p.dealers) => PowerOf(DealersOf(agg)) >= Quorum

(***************************************************************************)
(* Nobody is asked twice at once and nobody is forgotten: until the        *)
(* broadcast returns, each validator has one request, task or result under *)
(* way, or its transcript is in the aggregate.  The arm "unreachable!      *)
(* (Should aggregate with all responses)" (reliable-broadcast lib.rs:203)  *)
(* is therefore never taken.                                               *)
(***************************************************************************)
NobodyForgotten ==
    returned = <<>> =>
        /\ \A v \in Validator :
              LET places == (IF v \in rpc THEN 1 ELSE 0)
                              + Cardinality({t \in tasks : t.peer = v})
                              + Cardinality({r \in results : r.peer = v})
              IN places = 1 \/ (places = 0 /\ v \in contributors)
        /\ \/ rpc \cup tasks \cup results # {}
           \/ PowerOf(Validator) < Quorum

(***************************************************************************)
(* When validators with a quorum of the power answer in the end, the       *)
(* broadcast returns, however many requests fail first and whatever the    *)
(* others send: start_produce's task does not wait for ever.               *)
(***************************************************************************)
Returns == PowerOf(Correct) >= Quorum => <>(returned # <<>>)
=============================================================================
