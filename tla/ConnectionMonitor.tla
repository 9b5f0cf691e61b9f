------------------------- MODULE ConnectionMonitor -------------------------
(***************************************************************************)
(* How the customer app watches the blockchain node                        *)
(* (frontend/user-app/src/App.tsx:62-97): checkBlockchainConnection, its   *)
(* retry timer, and the two effects that call it.                          *)
(*                                                                         *)
(* checkBlockchainConnection is recreated by useCallback whenever          *)
(* retryCount changes, and each copy keeps the retryCount of its render.   *)
(* Requests, timers and the scanner keep the copy that started them, so    *)
(* each of them is counted here under the retryCount it captured.          *)
(*                                                                         *)
(* Time runs in ticks of the retry delay's unit.  Timers are punctual:     *)
(* time passes only when nothing is due.                                   *)
(***************************************************************************)
EXTENDS Naturals, FiniteSetsExt

CONSTANTS
    maxRetries,       \* App.tsx:63
    RetryDelay,       \* ticks before a retry (5000 ms, App.tsx:81)
    CheckPeriod,      \* ticks between periodic checks (30000 ms, App.tsx:94)
    MaxRetryCount,    \* bound: the retryCount reached
    MaxOutstanding    \* bound: requests in flight and retries waiting

ASSUME MonitorAssumption ==
    /\ maxRetries \in Nat /\ RetryDelay \in Nat \ {0}
    /\ CheckPeriod \in Nat \ {0}
    /\ MaxRetryCount \in Nat /\ MaxOutstanding \in Nat

Closure == 0..MaxRetryCount      \* the values of retryCount that are captured
Network == {"up", "down", "empty"}

VARIABLES
    network,          \* how the node answers: it does, it does not, or with no body
    retryCount,       \* the React state, with the queued updates applied
    rendered,         \* the retryCount of the render whose effects ran last
    inflight,         \* inflight[k]: getLedgerInfo calls of copy k under way
    timers,           \* timers[k][d]: retries of copy k that are due in d ticks
    intervalLeft,     \* ticks until the interval fires
    scanner,          \* the copy that an open scanner's callback holds, if one is open
    sinceCheck        \* ticks since a check was last started

monitor_vars == <<network, retryCount, rendered, inflight, timers, intervalLeft,
                  scanner, sinceCheck>>

NoTimers == [k \in Closure |-> [d \in 0..RetryDelay |-> 0]]

(***************************************************************************)
(* Mounting runs both effects: a check, and an interval of CheckPeriod.    *)
(* In a development build StrictMode (main.tsx) runs them twice: a second  *)
(* check, and an interval in place of the first.                           *)
(***************************************************************************)
MonitorInit ==
    /\ network \in Network
    /\ retryCount = 0 /\ rendered = 0
    /\ \E n \in {1, 2} : inflight = [k \in Closure |-> IF k = 0 THEN n ELSE 0]
    /\ timers = NoTimers
    /\ intervalLeft = CheckPeriod
    /\ scanner = {}
    /\ sinceCheck = 0

Outstanding ==
    MapThenSumSet(LAMBDA k : inflight[k] + SumFunction(timers[k]), Closure)

\* checkBlockchainConnection up to its await
StartCheck(k) ==
    /\ inflight' = [inflight EXCEPT ![k] = @ + 1]
    /\ sinceCheck' = 0

EndCheck(k) ==
    /\ inflight[k] > 0
    /\ inflight' = [inflight EXCEPT ![k] = @ - 1]
    /\ UNCHANGED <<network, rendered, intervalLeft, scanner, sinceCheck>>
-----------------------------------------------------------------------------
CheckSucceeds_keeps_count(k) ==
    /\ network = "up"
    /\ EndCheck(k)
    /\ UNCHANGED <<retryCount, timers>>

\* The node answered: the count is reset.
CheckSucceeds(k) ==
    /\ network = "up"
    /\ EndCheck(k)
    /\ retryCount' = 0
    /\ UNCHANGED timers

\* The node answered without a body: false, and nothing else.
CheckEmpty(k) ==
    /\ network = "empty"
    /\ EndCheck(k)
    /\ UNCHANGED <<retryCount, timers>>

\* The call threw and the count that copy k captured allows a retry.
CheckFails(k) ==
    /\ network = "down"
    /\ k < maxRetries
    /\ retryCount < MaxRetryCount /\ Outstanding < MaxOutstanding
    /\ EndCheck(k)
    /\ retryCount' = retryCount + 1
    /\ timers' = [timers EXCEPT ![k][RetryDelay] = @ + 1]

\* The call threw and copy k has no retry left.
CheckGivesUp(k) ==
    /\ network = "down"
    /\ ~(k < maxRetries)
    /\ EndCheck(k)
    /\ UNCHANGED <<retryCount, timers>>

\* The timer calls the copy that armed it, not the newest one.
RetryFires(k) ==
    /\ timers[k][0] > 0
    /\ timers' = [timers EXCEPT ![k][0] = @ - 1]
    /\ StartCheck(k)
    /\ UNCHANGED <<network, retryCount, rendered, intervalLeft, scanner>>

Render_no_check ==
    /\ rendered # retryCount
    /\ rendered' = retryCount
    /\ intervalLeft' = CheckPeriod
    /\ UNCHANGED <<network, retryCount, inflight, timers, scanner, sinceCheck>>

(***************************************************************************)
(* React renders the queued updates.  When the count differs from the last *)
(* render's, useCallback makes a new copy and both effects run again: a    *)
(* check, and a fresh interval in place of the old one.                    *)
(***************************************************************************)
Render ==
    /\ rendered # retryCount
    /\ rendered' = retryCount
    /\ StartCheck(retryCount)
    /\ intervalLeft' = CheckPeriod
    /\ UNCHANGED <<network, retryCount, timers, scanner>>

IntervalFires ==
    /\ intervalLeft = 0
    /\ Outstanding < MaxOutstanding
    /\ StartCheck(rendered)
    /\ intervalLeft' = CheckPeriod
    /\ UNCHANGED <<network, retryCount, rendered, timers, scanner>>

\* handleVerify, from the button, checks with the copy of the last render.
HandleVerify ==
    /\ Outstanding + 1 < MaxOutstanding
    /\ StartCheck(rendered)
    /\ UNCHANGED <<network, retryCount, rendered, timers, intervalLeft, scanner>>

\* The scanner's callback keeps the handleVerify of the render that opened it.
OpenScanner ==
    /\ scanner = {}
    /\ scanner' = {rendered}
    /\ UNCHANGED <<network, retryCount, rendered, inflight, timers, intervalLeft, sinceCheck>>

CloseScanner ==
    /\ scanner # {}
    /\ scanner' = {}
    /\ UNCHANGED <<network, retryCount, rendered, inflight, timers, intervalLeft, sinceCheck>>

VerifyFromScan ==
    /\ Outstanding + 1 < MaxOutstanding
    /\ \E k \in scanner : StartCheck(k)
    /\ scanner' = {}
    /\ UNCHANGED <<network, retryCount, rendered, timers, intervalLeft>>

NetworkChanges ==
    /\ network' \in Network \ {network}
    /\ UNCHANGED <<retryCount, rendered, inflight, timers, intervalLeft,
                   scanner, sinceCheck>>

MonitorTick ==
    /\ rendered = retryCount
    /\ intervalLeft > 0
    /\ \A k \in Closure : timers[k][0] = 0
    /\ timers' = [k \in Closure |-> [d \in 0..RetryDelay |->
                     IF d < RetryDelay THEN timers[k][d + 1] ELSE 0]]
    /\ intervalLeft' = intervalLeft - 1
    /\ sinceCheck' = sinceCheck + 1
    /\ UNCHANGED <<network, retryCount, rendered, inflight, scanner>>

CheckReturns(k) == CheckSucceeds(k) \/ CheckEmpty(k) \/ CheckFails(k) \/ CheckGivesUp(k)

MonitorNext ==
    \/ \E k \in Closure : CheckReturns(k) \/ RetryFires(k)
    \/ Render \/ IntervalFires
    \/ HandleVerify \/ OpenScanner \/ CloseScanner \/ VerifyFromScan
    \/ NetworkChanges
    \/ MonitorTick

(***************************************************************************)
(* Fairness: a request is answered or fails, React renders a queued        *)
(* update, and the browser's clock and timers run.  Nothing is assumed of  *)
(* the user or of the network.                                             *)
(***************************************************************************)
MonitorFairness ==
    /\ \A k \in Closure : WF_monitor_vars(CheckReturns(k)) /\ WF_monitor_vars(RetryFires(k))
    /\ WF_monitor_vars(Render) /\ WF_monitor_vars(IntervalFires)
    /\ WF_monitor_vars(MonitorTick)

MonitorSpec == MonitorInit /\ [][MonitorNext]_monitor_vars /\ MonitorFairness
-----------------------------------------------------------------------------
(***************************************************************************)
(* Type invariant of the monitor (App.tsx:62-97).                          *)
(***************************************************************************)
MonitorTypeOK ==
    /\ network \in Network
    /\ retryCount \in Closure /\ rendered \in Closure
    /\ inflight \in [Closure -> Nat]
    /\ timers \in [Closure -> [0..RetryDelay -> Nat]]
    /\ intervalLeft \in 0..CheckPeriod
    /\ scanner \subseteq Closure
    /\ sinceCheck \in Nat

(***************************************************************************)
(* "Check every 30 seconds" (App.tsx:94): a check starts at least every    *)
(* CheckPeriod ticks, although every change of retryCount clears the       *)
(* interval and starts it afresh.  What saves it is the other effect,      *)
(* which checks whenever the interval is replaced.                         *)
(***************************************************************************)
CheckedEveryPeriod == sinceCheck <= CheckPeriod

(***************************************************************************)
(* Why it holds: the time gone without a check and the time left to the    *)
(* interval never exceed one period together (App.tsx:91-97).              *)
(***************************************************************************)
PeriodBudget == sinceCheck + intervalLeft <= CheckPeriod

(***************************************************************************)
(* Once the node stays reachable the monitor settles: the count is back to *)
(* 0 and no retry is left, whatever mixture of requests, stale timers and  *)
(* renders the outage left behind (App.tsx:69, 77-85).                     *)
(***************************************************************************)
Settled == retryCount = 0 /\ rendered = 0 /\ timers = NoTimers

RecoversFromOutage == <>[](network = "up") => <>[]Settled

(***************************************************************************)
(* What maxRetries (App.tsx:63) and the guard "retryCount < maxRetries"    *)
(* (App.tsx:77) announce: at most maxRetries retries are counted between   *)
(* two successful checks.                                                  *)
(***************************************************************************)
RetriesBounded == retryCount <= maxRetries
=============================================================================
