--------------------------- MODULE QRCodeExchange ---------------------------
(***************************************************************************)
(* The QR label that carries a product from the dashboard, which signs it  *)
(* (generateQRCode, frontend/dashboard/src/pages/ProductRegistry.tsx:200), *)
(* to the customer app, which checks it offline (verifyQRCode,             *)
(* frontend/user-app/src/App.tsx:227).  The two are built separately, each *)
(* with its own VITE_SIGNING_SECRET, and run on machines with clocks of    *)
(* their own.  A label may reach the app altered or incomplete.            *)
(***************************************************************************)
EXTENDS Integers, FiniteSets

CONSTANTS
    Product,       \* products: their id, name, manufacturer and details
    Secret,        \* values of VITE_SIGNING_SECRET
    MAX_QR_AGE,    \* App.tsx:39
    MaxSkew,       \* bound: how far a machine's clock is ahead of true time
    MaxTime,       \* bound: true time
    MaxLabels      \* bound: labels in circulation

ASSUME ExchangeAssumption ==
    /\ MAX_QR_AGE \in Nat /\ MaxSkew \in Nat /\ MaxTime \in Nat
    /\ MaxLabels \in Nat

VARIABLES
    now,              \* true time
    dashboardSkew,    \* the dashboard's clock minus true time
    appSkew,          \* the app's clock minus true time
    dashboardSecret, appSecret,
    labels,           \* the labels in circulation
    issued            \* what the dashboard signed, and at which true time

settings == <<dashboardSkew, appSkew, dashboardSecret, appSecret>>
exchange_vars == <<now, settings, labels, issued>>

QRCodeData == [product : Product, timestamp : Nat]

\* HMAC-SHA256: equal only for equal data and equal secrets
HmacSHA256(data, secret) == [data |-> data, secret |-> secret]

Label == [data : QRCodeData, complete : BOOLEAN,
          signature : [data : QRCodeData, secret : Secret]]

ExchangeInit ==
    /\ now = 1
    /\ dashboardSkew \in 0..MaxSkew /\ appSkew \in 0..MaxSkew
    /\ dashboardSecret \in Secret /\ appSecret \in Secret
    /\ labels = {} /\ issued = {}
-----------------------------------------------------------------------------
(***************************************************************************)
(* verifyQRCode at true time t: the required fields, the age by the app's  *)
(* clock, and the signature over everything else, in this order.           *)
(***************************************************************************)
age(label, t) == (t + appSkew) - label.data.timestamp

SignatureMatches(label) == label.signature = HmacSHA256(label.data, appSecret)

verifyQRCode_off_by_one(label, t) ==
    IF ~label.complete THEN "missing field"
    ELSE IF age(label, t) >= MAX_QR_AGE THEN "expired"
    ELSE IF age(label, t) < 0 THEN "invalid timestamp"
    ELSE IF ~SignatureMatches(label) THEN "invalid signature"
    ELSE "valid"

verifyQRCode_no_expiry(label, t) ==
    IF ~label.complete THEN "missing field"
    ELSE IF age(label, t) < 0 THEN "invalid timestamp"
    ELSE IF ~SignatureMatches(label) THEN "invalid signature"
    ELSE "valid"

verifyQRCode_distance(label, t) ==
    IF ~label.complete THEN "missing field"
    ELSE IF age(label, t) > MAX_QR_AGE THEN "invalid timestamp"
    ELSE IF age(label, t) < 0 THEN "expired"
    ELSE IF ~SignatureMatches(label) THEN "invalid signature"
    ELSE "valid"

verifyQRCode(label, t) ==
    IF ~label.complete THEN "missing field"
    ELSE IF age(label, t) > MAX_QR_AGE THEN "expired"
    ELSE IF age(label, t) < 0 THEN "invalid timestamp"
    ELSE IF ~SignatureMatches(label) THEN "invalid signature"
    ELSE "valid"

(***************************************************************************)
(* generateQRCode: the data with the dashboard's time, signed.             *)
(***************************************************************************)
generateQRCode(p) ==
    LET data == [product |-> p, timestamp |-> now + dashboardSkew] IN
    /\ Cardinality(labels) < MaxLabels
    /\ labels' = labels \cup {[data |-> data, complete |-> TRUE,
                    signature |-> HmacSHA256(data, dashboardSecret)]}
    /\ issued' = issued \cup {[data |-> data, at |-> now]}
    /\ UNCHANGED <<now, settings>>

\* A label is misread, defaced or reprinted: the signature is kept.
Alter(label) ==
    /\ \E p \in Product, t \in {label.data.timestamp, now}, c \in BOOLEAN :
          labels' = (labels \ {label}) \cup
                       {[label EXCEPT !.data = [product |-> p, timestamp |-> t],
                                      !.complete = c]}
    /\ UNCHANGED <<now, settings, issued>>

ExchangeTick ==
    /\ now < MaxTime
    /\ now' = now + 1
    /\ UNCHANGED <<settings, labels, issued>>

ExchangeNext ==
    \/ \E p \in Product : generateQRCode(p)
    \/ \E label \in labels : Alter(label)
    \/ ExchangeTick

ExchangeSpec == ExchangeInit /\ [][ExchangeNext]_exchange_vars
-----------------------------------------------------------------------------
(***************************************************************************)
(* Type invariant of the exchange (interface QRCodeData, App.tsx:49-55).   *)
(***************************************************************************)
ExchangeTypeOK ==
    /\ now \in Nat \ {0}
    /\ dashboardSkew \in 0..MaxSkew /\ appSkew \in 0..MaxSkew
    /\ dashboardSecret \in Secret /\ appSecret \in Secret
    /\ labels \subseteq Label
    /\ issued \subseteq [data : QRCodeData, at : Nat \ {0}]

(***************************************************************************)
(* Every signature in circulation was made by the dashboard, with its      *)
(* secret and its clock, over data it issued (ProductRegistry.tsx:215-220).*)
(***************************************************************************)
SignaturesAreIssued ==
    /\ \A label \in labels :
          /\ label.signature.secret = dashboardSecret
          /\ \E i \in issued : i.data = label.signature.data
    /\ \A i \in issued : i.at <= now /\ i.data.timestamp = i.at + dashboardSkew

(***************************************************************************)
(* What the app accepts the dashboard issued, as it is, under the same     *)
(* secret, and not longer ago than MAX_QR_AGE corrected by the difference  *)
(* of the two clocks (App.tsx:237-254): an altered label is refused, and   *)
(* skew moves the window but does not widen it.                            *)
(***************************************************************************)
AcceptedWasIssued ==
    \A label \in labels : verifyQRCode(label, now) = "valid" =>
        /\ appSecret = dashboardSecret
        /\ \E i \in issued :
              /\ i.data = label.data
              /\ now - i.at <= MAX_QR_AGE + dashboardSkew - appSkew
              /\ now - i.at >= dashboardSkew - appSkew

(***************************************************************************)
(* The converse: a complete label as the dashboard issued it is accepted   *)
(* through the whole window, both of its ends included, when the two share *)
(* the secret.                                                             *)
(***************************************************************************)
IssuedIsAccepted ==
    \A label \in labels, i \in issued :
        /\ label.complete /\ label.data = i.data
        /\ label.signature = HmacSHA256(i.data, dashboardSecret)
        /\ appSecret = dashboardSecret
        /\ (now + appSkew) - (i.at + dashboardSkew) \in 0..MAX_QR_AGE
        => verifyQRCode(label, now) = "valid"

(***************************************************************************)
(* The verdict on a label moves one way only, from "invalid timestamp"     *)
(* over "valid" to "expired": an expired label never becomes valid again   *)
(* and an accepted one is refused later for its age alone                  *)
(* (App.tsx:237-245).                                                      *)
(***************************************************************************)
VerdictMovesForward ==
    [][\A label \in labels :
          /\ verifyQRCode(label, now) = "expired"
                => verifyQRCode(label, now)' = "expired"
          /\ verifyQRCode(label, now) = "valid"
                => verifyQRCode(label, now)' \in {"valid", "expired"}]_exchange_vars
=============================================================================
