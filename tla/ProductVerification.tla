------------------------ MODULE ProductVerification ------------------------
(***************************************************************************)
(* How the customer app verifies a product                                 *)
(* (frontend/user-app/src/App.tsx:57-61, 99-225): handleVerify, which the  *)
(* button and the QR scanner call, and which may be under way several      *)
(* times at once.                                                          *)
(*                                                                         *)
(* The code between two awaits runs to its end before anything else does,  *)
(* and React applies its state updates together, so it is one step here.   *)
(* The scanner is created by an effect that runs only when showScanner     *)
(* changes: its callback keeps the handleVerify, and with it the           *)
(* productId, of the render that opened it.                                *)
(***************************************************************************)
EXTENDS Naturals, FiniteSets

CONSTANTS
    Text,              \* what the product field may hold
    BlankText,         \* the texts that trim() empties
    Clean,             \* Clean[t]: t without whitespace, braces and quotes
    Numeric,           \* the cleaned texts that are digits only
    ParseInt,          \* ParseInt[n]: the number a numeric text denotes
    Chain,             \* Chain[i]: what the chain answers about product i
    Code,              \* the QR codes that verifyQRCode accepts
    CodeId,            \* CodeId[c]: the id that code c carries
    MaxVerifications,  \* bound: verifications started
    MaxScanners        \* bound: scanner instances alive at once

ASSUME VerificationAssumption ==
    /\ "" \in BlankText /\ BlankText \subseteq Text /\ Text \subseteq STRING
    /\ Clean \in [Text -> STRING] /\ Numeric \subseteq STRING \ {""}
    /\ \A t \in BlankText : Clean[t] = ""
    /\ ParseInt \in [Numeric -> DOMAIN Chain] /\ DOMAIN Chain \subseteq Nat
    /\ Chain \in [DOMAIN Chain -> {"authentic", "counterfeit", "absent"}]
    /\ CodeId \in [Code -> Text]
    /\ MaxVerifications \in Nat /\ MaxScanners \in Nat

VARIABLES
    dev,           \* import.meta.env.DEV, fixed by the build
    productId,     \* the product field
    result,        \* the verdict on display
    error,         \* the message on display, by what it is about
    showScanner,   \* the scanner is on the page
    scanners,      \* the scanner instances that may still call back
    pending,       \* the verifications that await an answer
    started        \* how many were started

verify_vars == <<dev, productId, result, error, showScanner, scanners, pending, started>>

(***************************************************************************)
(* A verdict: where it comes from, the flag and the serial number shown,   *)
(* and the product on the chain whose name and manufacturer are shown.     *)
(***************************************************************************)
ProductResult(kind, flag, serial, product) ==
    [kind |-> kind, isAuthentic |-> flag, serialNumber |-> serial, product |-> product]

null == ProductResult("null", FALSE, "", 0)

Verification(t, serial, stage) == [ticket |-> t, serial |-> serial, stage |-> stage]

VerifyInit ==
    /\ dev \in BOOLEAN
    /\ productId = "" /\ result = null /\ error = ""
    /\ showScanner = FALSE /\ scanners = {}
    /\ pending = {} /\ started = 0
-----------------------------------------------------------------------------
(***************************************************************************)
(* handleVerify up to its first await, with the productId its closure      *)
(* holds.  shown is the verdict already queued for display.                *)
(***************************************************************************)
Rejected(shown) ==
    /\ error' = "bad input"
    /\ result' = shown
    /\ UNCHANGED <<pending, started>>

handleVerify(text, shown) ==
    \/ Clean[text] = "" /\ Rejected(shown)
    \/ Clean[text] \notin Numeric \cup {""} /\ Rejected(shown)
    \/ /\ Clean[text] \in Numeric
       /\ started < MaxVerifications
       /\ error' = "" /\ result' = null
       /\ started' = started + 1
       /\ pending' = pending \cup
                        {Verification(started + 1, Clean[text], "connection")}

\* The button, disabled while the field is blank, uses the current productId.
ClickVerify ==
    /\ productId \notin BlankText
    /\ handleVerify(productId, result)
    /\ UNCHANGED <<dev, productId, showScanner, scanners>>

EditProductId ==
    /\ productId' \in Text \ {productId}
    /\ UNCHANGED <<dev, result, error, showScanner, scanners, pending, started>>
-----------------------------------------------------------------------------
End(v) == pending' = pending \ {v}

Fail(v) == End(v) /\ error' = "not verified" /\ result' = null

Display(v, r) == End(v) /\ result' = r /\ UNCHANGED error

Page == <<dev, productId, showScanner, scanners, started>>

ConnectionRefused_silent(v) ==
    /\ v.stage = "connection"
    /\ End(v)
    /\ UNCHANGED <<Page, result, error>>

\* checkBlockchainConnection answered false.
ConnectionRefused(v) ==
    /\ v.stage = "connection"
    /\ Fail(v)
    /\ UNCHANGED Page

\* It answered true, in a development build: a sample verdict.
MockVerdict(v) ==
    /\ v.stage = "connection" /\ dev
    /\ Display(v, ProductResult("sample", TRUE, v.serial, 0))
    /\ UNCHANGED Page

\* It answered true, in a production build: the view is called.
CallView(v) ==
    /\ v.stage = "connection" /\ ~dev
    /\ pending' = (pending \ {v}) \cup {Verification(v.ticket, v.serial, "view")}
    /\ UNCHANGED <<Page, result, error>>

ViewFailed_starts_over(v) ==
    /\ v.stage = "view"
    /\ pending' = (pending \ {v}) \cup {Verification(v.ticket, v.serial, "connection")}
    /\ UNCHANGED <<Page, result, error>>

\* The view threw, or its answer is not a triple.
ViewFailed(v) ==
    /\ v.stage = "view"
    /\ Fail(v)
    /\ UNCHANGED Page

\* The answer names no product.
ProductNotFound(v) ==
    /\ v.stage = "view"
    /\ Chain[ParseInt[v.serial]] = "absent"
    /\ Fail(v)
    /\ UNCHANGED Page

ChainVerdict_current_field(v) ==
    LET i == ParseInt[v.serial] IN
    /\ v.stage = "view"
    /\ Chain[i] # "absent"
    /\ Display(v, ProductResult("chain", Chain[i] = "authentic",
                                Clean[productId], i))
    /\ UNCHANGED Page

\* The serial number shown is the one captured before the awaits.
ChainVerdict(v) ==
    LET i == ParseInt[v.serial] IN
    /\ v.stage = "view"
    /\ Chain[i] # "absent"
    /\ Display(v, ProductResult("chain", Chain[i] = "authentic", v.serial, i))
    /\ UNCHANGED Page
-----------------------------------------------------------------------------
Closing == {[s EXCEPT !.open = FALSE] : s \in scanners}

\* The effect creates a scanner whose callback holds the current productId.
handleScanQR ==
    /\ ~showScanner
    /\ Cardinality(scanners) < MaxScanners
    /\ showScanner' = TRUE
    /\ scanners' = scanners \cup {[held |-> productId, open |-> TRUE]}
    /\ UNCHANGED <<dev, productId, result, error, pending, started>>

CancelScanning ==
    /\ showScanner
    /\ showScanner' = FALSE /\ scanners' = Closing
    /\ UNCHANGED <<dev, productId, result, error, pending, started>>

ScanAccepted_keeps_scanner(s, c) ==
    /\ productId' = CodeId[c]
    /\ showScanner' = FALSE /\ UNCHANGED scanners
    /\ handleVerify(s.held, ProductResult("qr", TRUE, CodeId[c], 0))
    /\ UNCHANGED dev

(***************************************************************************)
(* The scanner read a valid code.  The id goes into the field, the offline *)
(* verdict is queued, and handleVerify runs with the productId that the    *)
(* callback holds.                                                         *)
(***************************************************************************)
ScanAccepted(s, c) ==
    /\ productId' = CodeId[c]
    /\ showScanner' = FALSE /\ scanners' = Closing
    /\ handleVerify(s.held, ProductResult("qr", TRUE, CodeId[c], 0))
    /\ UNCHANGED dev

ScanRejected ==
    /\ scanners # {}
    /\ error' = "bad code"
    /\ showScanner' = FALSE /\ scanners' = Closing
    /\ UNCHANGED <<dev, productId, result, pending, started>>

\* clear() is asynchronous: until it is done a frame in hand may call back.
ScannerCleared(s) ==
    /\ ~s.open
    /\ scanners' = scanners \ {s}
    /\ UNCHANGED <<dev, productId, result, error, showScanner, pending, started>>

Answer(v) ==
    \/ ConnectionRefused(v) \/ MockVerdict(v) \/ CallView(v)
    \/ ViewFailed(v) \/ ProductNotFound(v) \/ ChainVerdict(v)

VerifyNext ==
    \/ EditProductId \/ ClickVerify
    \/ \E v \in pending : Answer(v)
    \/ handleScanQR \/ CancelScanning \/ ScanRejected
    \/ \E s \in scanners : ScannerCleared(s) \/ \E c \in Code : ScanAccepted(s, c)

(***************************************************************************)
(* Fairness: every call that is awaited returns or throws.                 *)
(***************************************************************************)
VerifySpec ==
    /\ VerifyInit /\ [][VerifyNext]_verify_vars
    /\ \A t \in 1..MaxVerifications :
          WF_verify_vars(\E v \in pending : v.ticket = t /\ Answer(v))
-----------------------------------------------------------------------------
(***************************************************************************)
(* Type invariant of the page's state (App.tsx:58-61).                     *)
(***************************************************************************)
VerifyTypeOK ==
    /\ dev \in BOOLEAN
    /\ productId \in Text
    /\ result \in [kind : {"null", "sample", "chain", "qr"},
                   isAuthentic : BOOLEAN, serialNumber : STRING, product : Nat]
    /\ error \in {"", "bad input", "not verified", "bad code"}
    /\ showScanner \in BOOLEAN
    /\ scanners \subseteq [held : Text, open : BOOLEAN]
    /\ pending \subseteq [ticket : 1..MaxVerifications, serial : Numeric,
                          stage : {"connection", "view"}]
    /\ started \in 0..MaxVerifications

(***************************************************************************)
(* A verdict that came from the chain names the product it is about: its   *)
(* serial number denotes the product that the view was asked for, and the  *)
(* flag is what the chain holds for it, although the field may have been   *)
(* edited, or another verification started, between the two awaits         *)
(* (App.tsx:157, 193, 208-214).                                            *)
(***************************************************************************)
VerdictNamesItsProduct ==
    result.kind = "chain" =>
        /\ result.serialNumber \in Numeric
        /\ ParseInt[result.serialNumber] = result.product
        /\ result.isAuthentic <=> Chain[result.product] = "authentic"

(***************************************************************************)
(* When nothing is awaited any more and a verification was ever started,   *)
(* the page says something: a verdict or a message.  Overlapping           *)
(* verifications clear and overwrite each other's verdicts and messages,   *)
(* and never leave the page blank (App.tsx:169-170, 216-220).              *)
(***************************************************************************)
AlwaysAnswered ==
    started > 0 /\ pending = {} => result # null \/ error # ""

(***************************************************************************)
(* A scanner whose page section is gone is on its way out: only while      *)
(* showScanner is set is an instance left open, and then exactly one, also *)
(* when a late callback of an older instance closes the newer one          *)
(* (App.tsx:99-153).                                                       *)
(***************************************************************************)
OneOpenScanner ==
    /\ showScanner <=> \E s \in scanners : s.open
    /\ \A s, t \in scanners : s.open /\ t.open => s = t

(***************************************************************************)
(* Every verification ends (App.tsx:172-220).                              *)
(***************************************************************************)
EveryVerificationEnds ==
    \A t \in 1..MaxVerifications :
        (\E v \in pending : v.ticket = t) ~> ~(\E v \in pending : v.ticket = t)

(***************************************************************************)
(* "Then verify on blockchain for complete check" (App.tsx:131): a valid   *)
(* code starts a verification of the product that the code names.          *)
(***************************************************************************)
ScanVerifiesOnChain ==
    [][\A s \in scanners, c \in Code :
          ScanAccepted(s, c) =>
              \E v \in pending' \ pending : v.serial = Clean[CodeId[c]]]_verify_vars

(***************************************************************************)
(* "Show immediate offline verification result" (App.tsx:122): a valid     *)
(* code puts the offline verdict on display.                               *)
(***************************************************************************)
ScanShowsOfflineResult ==
    [][\A s \in scanners, c \in Code :
          ScanAccepted(s, c) => result'.kind = "qr"]_verify_vars
=============================================================================
