--------------------------- MODULE FrontendProofs ---------------------------
(***************************************************************************)
(* Proofs about the two web applications: the customer app's monitor       *)
(* checks the node at least once a period, for every retry limit, delay,   *)
(* period and bound; a label that the app accepts was issued by the        *)
(* dashboard within the window, for every age limit and skew and every set *)
(* of products and secrets; and the dashboard's registry page, for any     *)
(* drafts and any number of calls under way at once.                       *)
(***************************************************************************)
EXTENDS ConnectionMonitor, QRCodeExchange, RegistryPage, FiniteSetTheorems,
        SequenceTheorems, TLAPS

(***************************************************************************)
(* Starting and ending a check keep the counters of requests natural.      *)
(***************************************************************************)
LEMMA StartCheckTyped ==
  ASSUME MonitorTypeOK, NEW k \in Closure, StartCheck(k)
  PROVE  inflight' \in [Closure -> Nat] /\ sinceCheck' \in Nat
  BY DEF StartCheck, MonitorTypeOK

(***************************************************************************)
(* The end of a check keeps the type of the requests under way             *)
(* (App.tsx:67-84).                                                        *)
(***************************************************************************)
LEMMA EndCheckTyped ==
  ASSUME MonitorTypeOK, NEW k \in Closure, EndCheck(k)
  PROVE  inflight' \in [Closure -> Nat]
  BY DEF EndCheck, MonitorTypeOK

(***************************************************************************)
(* Arming, firing and advancing the retry timers keep their counters       *)
(* natural.                                                                *)
(***************************************************************************)
LEMMA TimersTyped ==
  ASSUME MonitorTypeOK, NEW k \in Closure, NEW d \in 0..RetryDelay, NEW n \in Nat
  PROVE  [timers EXCEPT ![k][d] = n] \in [Closure -> [0..RetryDelay -> Nat]]
  <1>1. [timers[k] EXCEPT ![d] = n] \in [0..RetryDelay -> Nat]
    BY DEF MonitorTypeOK
  <1> QED
    BY <1>1 DEF MonitorTypeOK

(***************************************************************************)
(* Type correctness of the monitor (App.tsx:62-97).                        *)
(***************************************************************************)
THEOREM MonitorTypeCorrect == MonitorSpec => []MonitorTypeOK
  <1> USE MonitorAssumption
  <1>1. MonitorInit => MonitorTypeOK
    BY DEF MonitorInit, MonitorTypeOK, Closure, NoTimers
  <1>2. MonitorTypeOK /\ [MonitorNext]_monitor_vars => MonitorTypeOK'
    <2> SUFFICES ASSUME MonitorTypeOK, [MonitorNext]_monitor_vars PROVE MonitorTypeOK'
      OBVIOUS
    <2>1. ASSUME NEW k \in Closure, CheckSucceeds(k) PROVE MonitorTypeOK'
      <3>1. retryCount' \in Closure
        BY <2>1 DEF CheckSucceeds, Closure
      <3>2. inflight' \in [Closure -> Nat]
        BY <2>1, EndCheckTyped DEF CheckSucceeds
      <3> QED
        BY <2>1, <3>1, <3>2, Zenon DEF CheckSucceeds, EndCheck, MonitorTypeOK
    <2>2. ASSUME NEW k \in Closure, CheckEmpty(k) PROVE MonitorTypeOK'
      BY <2>2, EndCheckTyped, Zenon DEF CheckEmpty, EndCheck, MonitorTypeOK
    <2>3. ASSUME NEW k \in Closure, CheckFails(k) PROVE MonitorTypeOK'
      <3>1. retryCount' \in Closure
        BY <2>3 DEF CheckFails, MonitorTypeOK, Closure
      <3>2. RetryDelay \in 0..RetryDelay /\ timers[k][RetryDelay] + 1 \in Nat
        BY SMTT(40) DEF MonitorTypeOK
      <3>3. timers' \in [Closure -> [0..RetryDelay -> Nat]]
        BY <2>3, <3>2, TimersTyped DEF CheckFails
      <3> QED
        BY <2>3, <3>1, <3>3, EndCheckTyped, Zenon
           DEF CheckFails, EndCheck, MonitorTypeOK
    <2>4. ASSUME NEW k \in Closure, CheckGivesUp(k) PROVE MonitorTypeOK'
      BY <2>4, EndCheckTyped, Zenon DEF CheckGivesUp, EndCheck, MonitorTypeOK
    <2>5. ASSUME NEW k \in Closure, RetryFires(k) PROVE MonitorTypeOK'
      <3>1. 0 \in 0..RetryDelay /\ timers[k][0] - 1 \in Nat
        BY <2>5, SMTT(40) DEF RetryFires, MonitorTypeOK
      <3>2. timers' \in [Closure -> [0..RetryDelay -> Nat]]
        BY <2>5, <3>1, TimersTyped, SMTT(40) DEF RetryFires
      <3> QED
        BY <2>5, <3>2, StartCheckTyped, Zenon DEF RetryFires, MonitorTypeOK
    <2>6. CASE Render
      <3>1. inflight' \in [Closure -> Nat] /\ sinceCheck' \in Nat
        BY <2>6, StartCheckTyped DEF Render, MonitorTypeOK
      <3>2. intervalLeft' \in 0..CheckPeriod
        BY <2>6 DEF Render
      <3> QED
        BY <2>6, <3>1, <3>2, SMTT(40) DEF Render, MonitorTypeOK
    <2>7. CASE IntervalFires
      <3>1. inflight' \in [Closure -> Nat] /\ sinceCheck' \in Nat
        BY <2>7, StartCheckTyped DEF IntervalFires, MonitorTypeOK
      <3>2. intervalLeft' \in 0..CheckPeriod
        BY <2>7 DEF IntervalFires
      <3> QED
        BY <2>7, <3>1, <3>2, Zenon DEF IntervalFires, MonitorTypeOK
    <2>8. CASE HandleVerify
      BY <2>8, StartCheckTyped, Zenon DEF HandleVerify, MonitorTypeOK
    <2>9. CASE OpenScanner \/ CloseScanner
      BY <2>9, SMTT(40) DEF OpenScanner, CloseScanner, MonitorTypeOK
    <2>10. CASE VerifyFromScan
      <3>1. PICK k \in Closure : StartCheck(k)
        BY <2>10 DEF VerifyFromScan, MonitorTypeOK
      <3> QED
        BY <2>10, <3>1, StartCheckTyped, Zenon DEF VerifyFromScan, MonitorTypeOK
    <2>11. CASE NetworkChanges
      BY <2>11 DEF NetworkChanges, MonitorTypeOK
    <2>12. CASE MonitorTick
      <3>1. timers' \in [Closure -> [0..RetryDelay -> Nat]]
        BY <2>12 DEF MonitorTick, MonitorTypeOK
      <3> QED
        BY <2>12, <3>1 DEF MonitorTick, MonitorTypeOK
    <2>13. CASE UNCHANGED monitor_vars
      BY <2>13 DEF monitor_vars, MonitorTypeOK
    <2> QED
      BY <2>1, <2>2, <2>3, <2>4, <2>5, <2>6, <2>7, <2>8, <2>9, <2>10, <2>11,
         <2>12, <2>13 DEF MonitorNext, CheckReturns
  <1> QED
    BY <1>1, <1>2, PTL DEF MonitorSpec

(***************************************************************************)
(* Time gone without a check and time left to the interval add up to at    *)
(* most one period: whatever replaces the interval also checks.            *)
(***************************************************************************)
THEOREM PeriodBudgetInvariant == MonitorSpec => []PeriodBudget
  <1> USE MonitorAssumption
  <1>1. MonitorInit => PeriodBudget
    BY DEF MonitorInit, PeriodBudget
  <1>2. MonitorTypeOK /\ PeriodBudget /\ [MonitorNext]_monitor_vars => PeriodBudget'
    <2> SUFFICES ASSUME MonitorTypeOK, PeriodBudget, [MonitorNext]_monitor_vars
                 PROVE  PeriodBudget'
      OBVIOUS
    <2> USE DEF PeriodBudget, MonitorTypeOK
    <2>1. CASE \E k \in Closure : CheckReturns(k)
      BY <2>1, Zenon
         DEF CheckReturns, CheckSucceeds, CheckEmpty, CheckFails, CheckGivesUp,
                  EndCheck
    <2>2. CASE \E k \in Closure : RetryFires(k)
      BY <2>2 DEF RetryFires, StartCheck
    <2>3. CASE Render \/ IntervalFires
      BY <2>3 DEF Render, IntervalFires, StartCheck
    <2>4. CASE HandleVerify \/ VerifyFromScan
      BY <2>4 DEF HandleVerify, VerifyFromScan, StartCheck
    <2>5. CASE OpenScanner \/ CloseScanner \/ NetworkChanges
      BY <2>5 DEF OpenScanner, CloseScanner, NetworkChanges
    <2>6. CASE MonitorTick
      BY <2>6 DEF MonitorTick
    <2>7. CASE UNCHANGED monitor_vars
      BY <2>7 DEF monitor_vars
    <2> QED
      BY <2>1, <2>2, <2>3, <2>4, <2>5, <2>6, <2>7 DEF MonitorNext
  <1> QED
    BY <1>1, <1>2, MonitorTypeCorrect, PTL DEF MonitorSpec

(***************************************************************************)
(* "Check every 30 seconds" (App.tsx:94), for every period.                *)
(***************************************************************************)
THEOREM CheckedEveryPeriodInvariant == MonitorSpec => []CheckedEveryPeriod
  <1>1. MonitorTypeOK /\ PeriodBudget => CheckedEveryPeriod
    BY MonitorAssumption DEF MonitorTypeOK, PeriodBudget, CheckedEveryPeriod
  <1> QED
    BY <1>1, MonitorTypeCorrect, PeriodBudgetInvariant, PTL
-----------------------------------------------------------------------------
(***************************************************************************)
(* Type correctness of the exchange (App.tsx:49-55).                       *)
(***************************************************************************)
THEOREM ExchangeTypeCorrect == ExchangeSpec => []ExchangeTypeOK
  <1> USE ExchangeAssumption
  <1>1. ExchangeInit => ExchangeTypeOK
    BY DEF ExchangeInit, ExchangeTypeOK
  <1>2. ExchangeTypeOK /\ [ExchangeNext]_exchange_vars => ExchangeTypeOK'
    <2> SUFFICES ASSUME ExchangeTypeOK, [ExchangeNext]_exchange_vars PROVE ExchangeTypeOK'
      BY SMTT(40)
    <2>1. ASSUME NEW p \in Product, generateQRCode(p) PROVE ExchangeTypeOK'
      <3> DEFINE data == [product |-> p, timestamp |-> now + dashboardSkew]
      <3>1. data \in QRCodeData
        BY DEF QRCodeData, ExchangeTypeOK
      <3> HIDE DEF data
      <3>2. [data |-> data, complete |-> TRUE,
             signature |-> HmacSHA256(data, dashboardSecret)] \in Label
        BY <3>1 DEF Label, HmacSHA256, ExchangeTypeOK
      <3>3. [data |-> data, at |-> now] \in [data : QRCodeData, at : Nat \ {0}]
        BY <3>1, SMTT(40) DEF ExchangeTypeOK
      <3>4. labels' \subseteq Label
            /\ issued' \subseteq [data : QRCodeData, at : Nat \ {0}]
        BY <2>1, <3>2, <3>3, Zenon DEF generateQRCode, ExchangeTypeOK, data
      <3> QED
        BY <2>1, <3>4 DEF generateQRCode, ExchangeTypeOK, settings
    <2>2. ASSUME NEW label \in labels, Alter(label) PROVE ExchangeTypeOK'
      <3>1. PICK p \in Product, t \in {label.data.timestamp, now}, c \in BOOLEAN :
                labels' = (labels \ {label}) \cup
                            {[label EXCEPT !.data = [product |-> p, timestamp |-> t],
                                           !.complete = c]}
        BY <2>2, Zenon DEF Alter
      <3>2. label \in Label /\ t \in Nat
        BY DEF ExchangeTypeOK, Label, QRCodeData
      <3>3. [label EXCEPT !.data = [product |-> p, timestamp |-> t],
                          !.complete = c] \in Label
        BY <3>2, ZenonT(40) DEF Label, QRCodeData
      <3>4. labels' \subseteq Label
        BY <3>1, <3>3 DEF ExchangeTypeOK
      <3> QED
        BY <2>2, <3>4 DEF Alter, ExchangeTypeOK, settings
    <2>3. CASE ExchangeTick
      BY <2>3 DEF ExchangeTick, ExchangeTypeOK, settings
    <2>4. CASE UNCHANGED exchange_vars
      BY <2>4 DEF exchange_vars, ExchangeTypeOK, settings
    <2> QED
      BY <2>1, <2>2, <2>3, <2>4 DEF ExchangeNext
  <1> QED
    BY <1>1, <1>2, PTL DEF ExchangeSpec

(***************************************************************************)
(* Every signature in circulation is over data the dashboard issued; no    *)
(* alteration of a label makes a new one (ProductRegistry.tsx:215-220).    *)
(***************************************************************************)
THEOREM SignaturesAreIssuedInvariant == ExchangeSpec => []SignaturesAreIssued
  <1> USE ExchangeAssumption
  <1>1. ExchangeInit => SignaturesAreIssued
    BY DEF ExchangeInit, SignaturesAreIssued
  <1>2. ExchangeTypeOK /\ SignaturesAreIssued /\ [ExchangeNext]_exchange_vars
          => SignaturesAreIssued'
    <2> SUFFICES ASSUME ExchangeTypeOK, SignaturesAreIssued, [ExchangeNext]_exchange_vars
                 PROVE  SignaturesAreIssued'
      OBVIOUS
    <2>1. ASSUME NEW p \in Product, generateQRCode(p)
          PROVE  SignaturesAreIssued'
      <3> DEFINE data == [product |-> p, timestamp |-> now + dashboardSkew]
                 new == [data |-> data, complete |-> TRUE,
                         signature |-> HmacSHA256(data, dashboardSecret)]
                 entry == [data |-> data, at |-> now]
      <3>1. /\ labels' = labels \cup {new}
            /\ issued' = issued \cup {entry}
            /\ now' = now /\ dashboardSkew' = dashboardSkew
            /\ dashboardSecret' = dashboardSecret
        BY <2>1, SMTT(40) DEF generateQRCode, settings
      <3>2. /\ new.signature.secret = dashboardSecret
            /\ new.signature.data = entry.data
            /\ entry.at <= now /\ entry.data.timestamp = entry.at + dashboardSkew
        BY SMTT(40) DEF HmacSHA256, ExchangeTypeOK
      <3> HIDE DEF new, entry
      <3> QED
        BY <3>1, <3>2 DEF SignaturesAreIssued
    <2>2. ASSUME NEW label \in labels, Alter(label) PROVE SignaturesAreIssued'
      <3>1. PICK p \in Product, t \in {label.data.timestamp, now}, c \in BOOLEAN :
                labels' = (labels \ {label}) \cup
                            {[label EXCEPT !.data = [product |-> p, timestamp |-> t],
                                           !.complete = c]}
        BY <2>2, Zenon DEF Alter
      <3> DEFINE altered == [label EXCEPT !.data = [product |-> p, timestamp |-> t],
                                          !.complete = c]
      <3>2. altered.signature = label.signature
        BY DEF ExchangeTypeOK, Label
      <3>3. labels' = (labels \ {label}) \cup {altered}
        BY <3>1
      <3> HIDE DEF altered
      <3>4. issued' = issued /\ now' = now /\ dashboardSkew' = dashboardSkew
            /\ dashboardSecret' = dashboardSecret
        BY <2>2 DEF Alter, settings
      <3> QED
        BY <3>2, <3>3, <3>4, SMTT(40) DEF SignaturesAreIssued
    <2>3. CASE ExchangeTick
      BY <2>3 DEF ExchangeTick, SignaturesAreIssued, settings, ExchangeTypeOK
    <2>4. CASE UNCHANGED exchange_vars
      BY <2>4 DEF exchange_vars, SignaturesAreIssued, settings
    <2> QED
      BY <2>1, <2>2, <2>3, <2>4 DEF ExchangeNext
  <1> QED
    BY <1>1, <1>2, ExchangeTypeCorrect, PTL DEF ExchangeSpec
-----------------------------------------------------------------------------
(***************************************************************************)
(* What verifyQRCode accepts: the age by the app's clock is within the     *)
(* window and the signature is the app's own over the data.                *)
(***************************************************************************)
LEMMA ValidMeans ==
  ASSUME ExchangeTypeOK, NEW label \in labels, NEW t \in Nat,
         verifyQRCode(label, t) = "valid"
  PROVE  /\ (t + appSkew) - label.data.timestamp \in 0..MAX_QR_AGE
         /\ label.signature = HmacSHA256(label.data, appSecret)
  <1>1. label.data.timestamp \in Nat
    BY DEF ExchangeTypeOK, Label, QRCodeData
  <1> QED
    BY <1>1, ExchangeAssumption
    DEF verifyQRCode, age, SignatureMatches, ExchangeTypeOK

(***************************************************************************)
(* An accepted label was issued as it is, under the shared secret, within  *)
(* the window shifted by the skew (App.tsx:237-254).                       *)
(***************************************************************************)
THEOREM AcceptedWasIssuedInvariant == ExchangeSpec => []AcceptedWasIssued
  <1>1. ExchangeTypeOK /\ SignaturesAreIssued => AcceptedWasIssued
    <2> SUFFICES ASSUME ExchangeTypeOK, SignaturesAreIssued, NEW label \in labels,
                        verifyQRCode(label, now) = "valid"
                 PROVE  /\ appSecret = dashboardSecret
                        /\ \E i \in issued :
                              /\ i.data = label.data
                              /\ now - i.at <= MAX_QR_AGE + dashboardSkew - appSkew
                              /\ now - i.at >= dashboardSkew - appSkew
      BY SMTT(40) DEF AcceptedWasIssued
    <2>1. /\ (now + appSkew) - label.data.timestamp \in 0..MAX_QR_AGE
          /\ label.signature = HmacSHA256(label.data, appSecret)
      <3>1. now \in Nat
        BY DEF ExchangeTypeOK
      <3> QED
        BY <3>1, ValidMeans
    <2>2. label.signature.secret = appSecret /\ label.signature.data = label.data
      BY <2>1 DEF HmacSHA256
    <2>3. PICK i \in issued : i.data = label.data
      BY <2>2, SMTT(40) DEF SignaturesAreIssued
    <2>4. i.at \in Nat /\ label.data.timestamp = i.at + dashboardSkew
      BY <2>3 DEF SignaturesAreIssued, ExchangeTypeOK
    <2>5. /\ now - i.at <= MAX_QR_AGE + dashboardSkew - appSkew
          /\ now - i.at >= dashboardSkew - appSkew
      BY <2>1, <2>4, ExchangeAssumption, SMTT(40) DEF ExchangeTypeOK
    <2> QED
      BY <2>2, <2>3, <2>5 DEF SignaturesAreIssued
  <1> QED
    BY <1>1, ExchangeTypeCorrect, SignaturesAreIssuedInvariant, PTL

(***************************************************************************)
(* A label as issued is accepted through the whole window, both ends       *)
(* included (App.tsx:239-245).                                             *)
(***************************************************************************)
THEOREM IssuedIsAcceptedInvariant == ExchangeSpec => []IssuedIsAccepted
  <1>1. ExchangeTypeOK /\ SignaturesAreIssued => IssuedIsAccepted
    <2> SUFFICES ASSUME ExchangeTypeOK, SignaturesAreIssued,
                        NEW label \in labels, NEW i \in issued,
                        label.complete, label.data = i.data,
                        label.signature = HmacSHA256(i.data, dashboardSecret),
                        appSecret = dashboardSecret,
                        (now + appSkew) - (i.at + dashboardSkew) \in 0..MAX_QR_AGE
                 PROVE  verifyQRCode(label, now) = "valid"
      BY SMTT(40) DEF IssuedIsAccepted
    <2>1. age(label, now) \in 0..MAX_QR_AGE
      BY DEF SignaturesAreIssued, age
    <2> QED
      BY <2>1, ExchangeAssumption, SMTT(40) DEF verifyQRCode, SignatureMatches
  <1> QED
    BY <1>1, ExchangeTypeCorrect, SignaturesAreIssuedInvariant, PTL

(***************************************************************************)
(* A label that expired stays expired, and one that was accepted is later  *)
(* refused for its age alone (App.tsx:237-245).                            *)
(***************************************************************************)
THEOREM VerdictMovesForwardTheorem == ExchangeSpec => VerdictMovesForward
  <1>1. ExchangeTypeOK /\ ExchangeTypeOK' /\ [ExchangeNext]_exchange_vars
          => [\A label \in labels :
                /\ verifyQRCode(label, now) = "expired"
                      => verifyQRCode(label, now)' = "expired"
                /\ verifyQRCode(label, now) = "valid"
                      => verifyQRCode(label, now)' \in {"valid", "expired"}]_exchange_vars
    <2> SUFFICES ASSUME ExchangeTypeOK, ExchangeTypeOK', [ExchangeNext]_exchange_vars,
                        NEW label \in labels
                 PROVE  /\ verifyQRCode(label, now) = "expired"
                              => verifyQRCode(label, now)' = "expired"
                        /\ verifyQRCode(label, now) = "valid"
                              => verifyQRCode(label, now)' \in {"valid", "expired"}
      OBVIOUS
    <2>1. now' >= now /\ appSkew' = appSkew /\ appSecret' = appSecret
      <3>1. now' = now \/ now' = now + 1
        BY ZenonT(40)
           DEF ExchangeNext, exchange_vars, generateQRCode, Alter, ExchangeTick
      <3>2. UNCHANGED settings
        BY Zenon DEF ExchangeNext, exchange_vars, generateQRCode, Alter, ExchangeTick
      <3> QED
        BY <3>1, <3>2, SMTT(40) DEF settings, ExchangeTypeOK
    <2>2. label.data.timestamp \in Nat
      BY DEF ExchangeTypeOK, Label, QRCodeData
    <2>3. age(label, now)' >= age(label, now)
      BY <2>1, <2>2, ExchangeAssumption, SMTT(40) DEF age, ExchangeTypeOK
    <2>4. /\ age(label, now) \in Int /\ age(label, now)' \in Int
          /\ SignatureMatches(label)' <=> SignatureMatches(label)
      BY <2>1, <2>2, ExchangeAssumption DEF age, ExchangeTypeOK, SignatureMatches, HmacSHA256
    <2> QED
      BY <2>3, <2>4, ExchangeAssumption DEF verifyQRCode
  <1> QED
    BY <1>1, ExchangeTypeCorrect, PTL DEF ExchangeSpec, VerdictMovesForward
-----------------------------------------------------------------------------
(***************************************************************************)
(* The type together with the finiteness of the calls under way, which the *)
(* choice of a ticket for a new call (ProductRegistry.tsx:146, 200) needs. *)
(***************************************************************************)
FiniteCalls == IsFiniteSet(adding) /\ IsFiniteSet(generating)

(***************************************************************************)
(* While fewer calls than the bound are under way, a ticket is left for    *)
(* the next call of handleAddProduct or generateQRCode: otherwise the      *)
(* tickets of the calls would be onto 1..MaxCalls.                         *)
(***************************************************************************)
LEMMA TicketLeft ==
    ASSUME NEW calls, IsFiniteSet(calls), \A c \in calls : c.ticket \in 1..MaxCalls,
           Cardinality(calls) < MaxCalls
    PROVE  Unused(calls) \in 1..MaxCalls
<1>0. MaxCalls \in Nat /\ Cardinality(calls) \in Nat
    BY PageAssumption, FS_CardinalityType
<1>1. \E t \in 1..MaxCalls : \A c \in calls : c.ticket # t
    <2> SUFFICES ASSUME \A t \in 1..MaxCalls : \E c \in calls : c.ticket = t
                 PROVE  FALSE
        OBVIOUS
    <2> DEFINE f == [c \in calls |-> c.ticket]
    <2>1. f \in Surjection(calls, 1..MaxCalls)
        BY DEF Surjection
    <2>2. Cardinality(1..MaxCalls) <= Cardinality(calls)
        BY <2>1, FS_Surjection DEF ExistsSurjection
    <2>3. Cardinality(1..MaxCalls) = MaxCalls
        BY <1>0, FS_Interval
    <2> QED
        BY <1>0, <2>2, <2>3
<1> QED
    BY <1>1 DEF Unused

(***************************************************************************)
(* generateQRCode up to its await (ProductRegistry.tsx:200-205) keeps the  *)
(* types of what it changes.                                               *)
(***************************************************************************)
LEMMA StartQRCodeTypes ==
    ASSUME TypeOK, FiniteCalls, NEW p \in Rows, StartQRCode(p)
    PROVE  /\ generating' \subseteq [ticket : 1..MaxCalls, product : Rows]
           /\ IsFiniteSet(generating')
           /\ loading' \in BOOLEAN /\ error' \in BOOLEAN
<1> DEFINE g == [ticket |-> Unused(generating), product |-> p]
<1>1. generating \subseteq [ticket : 1..MaxCalls, product : Rows]
    BY Zenon DEF TypeOK
<1>2. /\ Cardinality(generating) < MaxCalls
      /\ generating' = generating \cup {g}
      /\ loading' \in BOOLEAN /\ error' \in BOOLEAN
    BY Zenon DEF StartQRCode
<1>3. Unused(generating) \in 1..MaxCalls
    BY <1>1, <1>2, TicketLeft DEF FiniteCalls
<1>4. g \in [ticket : 1..MaxCalls, product : Rows]
    BY <1>3
<1> QED
    BY <1>1, <1>2, <1>4, FS_AddElement, Zenon DEF FiniteCalls

(***************************************************************************)
(* Type correctness of the page's state (ProductRegistry.tsx:99-113).      *)
(***************************************************************************)
THEOREM RegistryPageTypeCorrect == Spec => [](TypeOK /\ FiniteCalls)
<1>1. Init => TypeOK /\ FiniteCalls
    <2> SUFFICES ASSUME Init PROVE TypeOK /\ FiniteCalls
        OBVIOUS
    <2>1. none \in Rows /\ initialProducts \in Seq(Rows)
        BY DEF none, initialProducts, Row, Rows
    <2>2. 0 \in Nat
        OBVIOUS
    <2>3. IsFiniteSet({})
        BY FS_EmptySet
    <2> QED
        BY <2>1, <2>2, <2>3, ZenonT(40) DEF Init, TypeOK, FiniteCalls, Form
<1>2. TypeOK /\ FiniteCalls /\ [Next]_vars => (TypeOK /\ FiniteCalls)'
    <2> SUFFICES ASSUME TypeOK, FiniteCalls, [Next]_vars PROVE (TypeOK /\ FiniteCalls)'
        OBVIOUS
    <2> USE DEF TypeOK, FiniteCalls
    <2>1. CASE handleOpen
        BY <2>1, Zenon DEF handleOpen, dialog
    <2>2. CASE EditForm
        BY <2>2, Zenon DEF EditForm, dialog
    <2>3. CASE handleClose
        BY <2>3, Zenon DEF handleClose, dialog, Form
    <2>4. CASE AddInvalid \/ AddUndefined
        BY <2>4, Zenon DEF AddInvalid, AddUndefined, dialog, form
    <2>5. CASE AddAsksCount
        <3> DEFINE a == [ticket |-> Unused(adding), draft |-> newProduct]
        <3>1. /\ Cardinality(adding) < MaxCalls
              /\ newProduct # "incomplete" /\ newProduct # "invalid"
              /\ adding' = adding \cup {a}
            BY <2>5, Zenon DEF AddAsksCount, CanAdd
        <3>2. Unused(adding) \in 1..MaxCalls
            BY <3>1, TicketLeft
        <3>3. a \in [ticket : 1..MaxCalls, draft : Draft]
            BY <3>1, <3>2 DEF Form
        <3>4. /\ adding' \subseteq [ticket : 1..MaxCalls, draft : Draft]
              /\ IsFiniteSet(adding')
            BY <3>1, <3>3, FS_AddElement, Zenon
        <3> QED
            BY <2>5, <3>4, Zenon DEF AddAsksCount, dialog, form
    <2>6. ASSUME NEW a \in adding, CountFailed(a) PROVE (TypeOK /\ FiniteCalls)'
        <3>1. IsFiniteSet(adding \ {a})
            BY FS_RemoveElement
        <3> QED
            BY <2>6, <3>1, Zenon DEF CountFailed, dialog, form
    <2>7. ASSUME NEW a \in adding, CountAnswered(a) PROVE (TypeOK /\ FiniteCalls)'
        <3>1. IsFiniteSet(adding \ {a})
            BY FS_RemoveElement
        <3>2. Row(count, a.draft) \in Rows
            BY DEF Row, Rows
        <3>3. /\ adding' = adding \ {a} /\ StartQRCode(Row(count, a.draft))
              /\ products' = Append(products, Row(count, a.draft))
            BY <2>7, Zenon DEF CountAnswered
        <3>4. products' \in Seq(Rows)
            BY <3>2, <3>3
        <3>5. /\ generating' \subseteq [ticket : 1..MaxCalls, product : Rows]
              /\ IsFiniteSet(generating')
              /\ loading' \in BOOLEAN /\ error' \in BOOLEAN
            BY <3>2, <3>3, StartQRCodeTypes
        <3> QED
            BY <2>7, <3>1, <3>3, <3>4, <3>5, ZenonT(40) DEF CountAnswered, dialog, Form
    <2>8. ASSUME NEW i \in 1..Len(products), ClickGenerate(products[i])
          PROVE  (TypeOK /\ FiniteCalls)'
        <3>1. products[i] \in Rows
            OBVIOUS
        <3>2. /\ generating' \subseteq [ticket : 1..MaxCalls, product : Rows]
              /\ IsFiniteSet(generating')
              /\ loading' \in BOOLEAN /\ error' \in BOOLEAN
            BY <2>8, <3>1, StartQRCodeTypes DEF ClickGenerate
        <3> QED
            BY <2>8, <3>2, Zenon DEF ClickGenerate, dialog, form
    <2>9. ASSUME NEW g \in generating, QRCodeReady(g) \/ QRCodeFailed(g)
          PROVE  (TypeOK /\ FiniteCalls)'
        <3>1. IsFiniteSet(generating \ {g})
            BY FS_RemoveElement
        <3>2. g.product \in Rows
            OBVIOUS
        <3> QED
            BY <2>9, <3>1, <3>2, Zenon DEF QRCodeReady, QRCodeFailed, dialog, form
    <2>10. CASE CloseQRDialog
        <3>1. none \in Rows
            BY DEF none, Row, Rows
        <3> QED
            BY <2>10, <3>1, Zenon DEF CloseQRDialog, form
    <2>11. CASE CloseSnackbar
        BY <2>11, Zenon DEF CloseSnackbar, dialog, form
    <2>12. CASE ChainGrows
        <3>1. count' = count + 1
            BY <2>12, Zenon DEF ChainGrows
        <3>2. count' \in Nat
            BY <3>1
        <3> QED
            BY <2>12, <3>2, Zenon DEF ChainGrows, dialog, form
    <2>13. CASE UNCHANGED vars
        BY <2>13, Zenon DEF vars, dialog, form
    <2> QED
        BY <2>1, <2>2, <2>3, <2>4, <2>5, <2>6, <2>7, <2>8, <2>9, <2>10, <2>11, <2>12,
           <2>13, ZenonT(40) DEF Next, handleAddProduct
<1> QED
    BY <1>1, <1>2, PTL DEF Spec

(***************************************************************************)
(* The QR dialog shows the code of the product it was opened for, however  *)
(* many images are awaited and in whatever order they come                 *)
(* (ProductRegistry.tsx:228-230): the one step that sets the selection     *)
(* sets the image with it.                                                 *)
(***************************************************************************)
THEOREM DialogShowsItsOwnCodeInvariant == Spec => []DialogShowsItsOwnCode
<1>1. Init => DialogShowsItsOwnCode
    BY Zenon DEF Init, DialogShowsItsOwnCode
<1>2. DialogShowsItsOwnCode /\ [Next]_vars => DialogShowsItsOwnCode'
    <2> SUFFICES ASSUME DialogShowsItsOwnCode, [Next]_vars PROVE DialogShowsItsOwnCode'
        OBVIOUS
    <2>1. CASE UNCHANGED dialog
        BY <2>1 DEF dialog, DialogShowsItsOwnCode
    <2>2. ASSUME NEW g \in generating, QRCodeReady(g) PROVE DialogShowsItsOwnCode'
        BY <2>2, Zenon DEF QRCodeReady, DialogShowsItsOwnCode
    <2>3. CASE CloseQRDialog
        BY <2>3, Zenon DEF CloseQRDialog, DialogShowsItsOwnCode
    <2> QED
        BY <2>1, <2>2, <2>3, Zenon
        DEF Next, vars, dialog, handleOpen, EditForm, handleClose, handleAddProduct,
            AddInvalid, AddUndefined, AddAsksCount, CountFailed, CountAnswered,
            ClickGenerate, QRCodeFailed, CloseSnackbar, ChainGrows
<1> QED
    BY <1>1, <1>2, PTL DEF Spec

(***************************************************************************)
(* "Add Product" never stays disabled: every call that raises the loading  *)
(* flag is under way from then on, and a call that ends lowers it, also    *)
(* under the feet of the others (ProductRegistry.tsx:195, 234, 444).       *)
(***************************************************************************)
THEOREM LoadingMeansBusyInvariant == Spec => []LoadingMeansBusy
<1>1. Init => LoadingMeansBusy
    BY Zenon DEF Init, LoadingMeansBusy
<1>2. LoadingMeansBusy /\ [Next]_vars => LoadingMeansBusy'
    <2> SUFFICES ASSUME LoadingMeansBusy, [Next]_vars PROVE LoadingMeansBusy'
        OBVIOUS
    <2>1. CASE UNCHANGED <<loading, adding, generating>>
        BY <2>1, Zenon DEF LoadingMeansBusy
    <2>2. CASE loading' = FALSE
        BY <2>2, Zenon DEF LoadingMeansBusy
    <2>3. ASSUME NEW p, StartQRCode(p) PROVE LoadingMeansBusy'
        BY <2>3, Zenon DEF StartQRCode, LoadingMeansBusy
    <2>4. CASE AddAsksCount
        BY <2>4, Zenon DEF AddAsksCount, LoadingMeansBusy
    <2> QED
        BY <2>1, <2>2, <2>3, <2>4, ZenonT(40)
        DEF Next, vars, handleOpen, EditForm, handleClose, handleAddProduct, AddInvalid,
            AddUndefined, CountFailed, CountAnswered, ClickGenerate, QRCodeReady,
            QRCodeFailed, CloseQRDialog, CloseSnackbar, ChainGrows
<1> QED
    BY <1>1, <1>2, PTL DEF Spec

(***************************************************************************)
(* The rows of the table stay where they are and a step adds rows only at  *)
(* the end, also when two additions overlap (ProductRegistry.tsx:187).     *)
(***************************************************************************)
THEOREM TableOnlyGrowsTheorem == Spec => TableOnlyGrows
<1> DEFINE Grows == /\ Len(products') >= Len(products)
                    /\ SubSeq(products', 1, Len(products)) = products
<1>1. TypeOK /\ [Next]_vars => Grows
    <2> SUFFICES ASSUME TypeOK, [Next]_vars PROVE Grows
        OBVIOUS
    <2>0. products \in Seq(Rows)
        BY DEF TypeOK
    <2>1. CASE UNCHANGED products
        <3>1. SubSeq(products, 1, Len(products)) = products
            BY <2>0
        <3> QED
            BY <2>0, <2>1, <3>1
    <2>2. ASSUME NEW a \in adding, CountAnswered(a) PROVE Grows
        <3>1. Row(count, a.draft) \in Rows
            BY DEF TypeOK, Row, Rows
        <3>2. products' = Append(products, Row(count, a.draft))
            BY <2>2, Zenon DEF CountAnswered
        <3>3. /\ Len(products') = Len(products) + 1
              /\ \A i \in 1..Len(products) : products'[i] = products[i]
            BY <2>0, <3>1, <3>2
        <3>4. \A i \in 1..Len(products) : products'[i] \in Rows
            BY <2>0, <3>3
        <3>5. SubSeq(products', 1, Len(products)) = products
            BY <2>0, <3>3, <3>4, SubSeqProperties, SeqEqual
        <3> QED
            BY <2>0, <3>3, <3>5
    <2> QED
        BY <2>1, <2>2, ZenonT(40)
        DEF Next, vars, handleOpen, EditForm, handleClose, handleAddProduct, AddInvalid,
            AddUndefined, AddAsksCount, CountFailed, ClickGenerate, QRCodeReady,
            QRCodeFailed, CloseQRDialog, CloseSnackbar, ChainGrows
<1>2. TypeOK /\ [Next]_vars => [Grows]_vars
    BY <1>1
<1> QED
    BY <1>2, RegistryPageTypeCorrect, PTL DEF Spec, TableOnlyGrows
=============================================================================
