---------------------------- MODULE RegistryPage ----------------------------
(***************************************************************************)
(* The dashboard page that adds products and prints their QR labels        *)
(* (frontend/dashboard/src/pages/ProductRegistry.tsx:98-237 and the event  *)
(* handlers of 239-506).  Both of its asynchronous functions may be under  *)
(* way several times at once: nothing disables the "Generate QR" buttons,  *)
(* and "Add Product" is disabled only while the shared loading flag is up. *)
(*                                                                         *)
(* handleAddProduct reads the identifiers config and client, which the     *)
(* file neither declares nor imports.  globals says whether the page that  *)
(* hosts the bundle defines them; the repository's own does not.           *)
(***************************************************************************)
EXTENDS Naturals, Sequences, FiniteSets

CONSTANTS
    Draft,            \* contents of the form that validateProduct accepts
    MaxProducts,      \* bound: rows of the table
    MaxCalls          \* bound: calls of one asynchronous function under way

ASSUME PageAssumption ==
    /\ MaxProducts \in Nat /\ MaxCalls \in Nat
    /\ Draft \cap {"initial", "none", "incomplete", "invalid"} = {}

VARIABLES
    globals,           \* config and client resolve (FALSE as shipped)
    products,          \* the rows
    open, newProduct,  \* the form's dialog and its content
    loading,           \* the flag that disables "Add Product"
    error,             \* a message is on display
    selectedProduct,   \* the product whose QR dialog is open
    qrCodeUrl,         \* the product that the QR image encodes
    adding,            \* handleAddProduct calls that await the product count
    generating,        \* generateQRCode calls that await the image
    count              \* get_product_count on the chain

form == <<open, newProduct>>
dialog == <<selectedProduct, qrCodeUrl>>
vars == <<globals, products, form, loading, error, dialog, adding, generating, count>>

Row(id, draft) == [id |-> id, draft |-> draft]
none == Row(0, "none")

\* "incomplete" keeps the button disabled, "invalid" fails validateProduct
Form == Draft \cup {"incomplete", "invalid"}

initialProducts == <<Row(1, "initial"), Row(2, "initial")>>

Init ==
    /\ globals \in BOOLEAN
    /\ products = initialProducts
    /\ open = FALSE /\ newProduct = "incomplete"
    /\ loading = FALSE /\ error = FALSE
    /\ selectedProduct = none /\ qrCodeUrl = none
    /\ adding = {} /\ generating = {}
    /\ count = 0

\* A ticket that tells a new call from the calls under way
Unused(calls) == CHOOSE t \in 1..MaxCalls : \A c \in calls : c.ticket # t

\* An open dialog is modal: the page behind it takes no clicks.
NoDialog == ~open /\ selectedProduct = none
-----------------------------------------------------------------------------
handleOpen ==
    /\ NoDialog
    /\ open' = TRUE /\ error' = FALSE
    /\ UNCHANGED <<globals, products, newProduct, loading, dialog, adding, generating, count>>

EditForm ==
    /\ open
    /\ newProduct' \in Form \ {newProduct}
    /\ UNCHANGED <<globals, products, open, loading, error, dialog, adding, generating, count>>

handleClose ==
    /\ open
    /\ open' = FALSE /\ error' = FALSE /\ newProduct' = "incomplete"
    /\ UNCHANGED <<globals, products, loading, dialog, adding, generating, count>>

CanAdd == open /\ newProduct # "incomplete" /\ ~loading

(***************************************************************************)
(* handleAddProduct up to its first await, or to its end: a form that is   *)
(* not valid, or an identifier that is not defined, ends in the message,   *)
(* and the finally block lowers the flag.                                  *)
(***************************************************************************)
AddInvalid_no_finally ==
    /\ CanAdd /\ newProduct = "invalid"
    /\ error' = TRUE /\ loading' = TRUE
    /\ UNCHANGED <<globals, products, form, dialog, adding, generating, count>>

AddInvalid ==
    /\ CanAdd /\ newProduct = "invalid"
    /\ error' = TRUE /\ loading' = FALSE
    /\ UNCHANGED <<globals, products, form, dialog, adding, generating, count>>

AddUndefined ==
    /\ CanAdd /\ newProduct # "invalid" /\ ~globals
    /\ error' = TRUE /\ loading' = FALSE
    /\ UNCHANGED <<globals, products, form, dialog, adding, generating, count>>

AddAsksCount ==
    /\ CanAdd /\ newProduct # "invalid" /\ globals
    /\ Cardinality(adding) < MaxCalls
    /\ error' = FALSE /\ loading' = TRUE
    /\ adding' = adding \cup {[ticket |-> Unused(adding), draft |-> newProduct]}
    /\ UNCHANGED <<globals, products, form, dialog, generating, count>>

handleAddProduct == AddInvalid \/ AddUndefined \/ AddAsksCount

CountFailed(a) ==
    /\ adding' = adding \ {a}
    /\ error' = TRUE /\ loading' = FALSE
    /\ UNCHANGED <<globals, products, form, dialog, generating, count>>

\* generateQRCode up to its await
StartQRCode(p) ==
    /\ Cardinality(generating) < MaxCalls
    /\ loading' = TRUE /\ error' = FALSE
    /\ generating' = generating \cup {[ticket |-> Unused(generating), product |-> p]}

CountAnswered_stale(a) ==
    LET p == Row(count, a.draft) IN
    /\ Len(products) < MaxProducts
    /\ adding' = adding \ {a}
    /\ products' = Append(initialProducts, p)
    /\ open' = FALSE /\ newProduct' = "incomplete"
    /\ StartQRCode(p)
    /\ UNCHANGED <<globals, dialog, count>>

\* The count is the new row's id; the form is closed and its label generated.
CountAnswered(a) ==
    LET p == Row(count, a.draft) IN
    /\ Len(products) < MaxProducts
    /\ adding' = adding \ {a}
    /\ products' = Append(products, p)
    /\ open' = FALSE /\ newProduct' = "incomplete"
    /\ StartQRCode(p)
    /\ UNCHANGED <<globals, dialog, count>>
-----------------------------------------------------------------------------
ClickGenerate_selects_first(p) ==
    /\ NoDialog
    /\ StartQRCode(p)
    /\ selectedProduct' = p
    /\ UNCHANGED <<globals, products, form, qrCodeUrl, adding, count>>

ClickGenerate(p) ==
    /\ NoDialog
    /\ StartQRCode(p)
    /\ UNCHANGED <<globals, products, form, dialog, adding, count>>

\* After the await the image and the selection change together.
QRCodeReady(g) ==
    /\ generating' = generating \ {g}
    /\ qrCodeUrl' = g.product /\ selectedProduct' = g.product
    /\ loading' = FALSE
    /\ UNCHANGED <<globals, products, form, error, adding, count>>

QRCodeFailed(g) ==
    /\ generating' = generating \ {g}
    /\ error' = TRUE /\ loading' = FALSE
    /\ UNCHANGED <<globals, products, form, dialog, adding, count>>

CloseQRDialog ==
    /\ selectedProduct # none
    /\ selectedProduct' = none
    /\ UNCHANGED <<globals, products, form, loading, error, qrCodeUrl, adding, generating, count>>

CloseSnackbar ==
    /\ error
    /\ error' = FALSE
    /\ UNCHANGED <<globals, products, form, loading, dialog, adding, generating, count>>

\* Somebody registers a product on the chain; the page itself submits nothing.
ChainGrows ==
    /\ globals
    /\ count < MaxProducts
    /\ count' = count + 1
    /\ UNCHANGED <<globals, products, form, loading, error, dialog, adding, generating>>

Next ==
    \/ handleOpen \/ EditForm \/ handleClose
    \/ handleAddProduct
    \/ \E a \in adding : CountFailed(a) \/ CountAnswered(a)
    \/ \E i \in 1..Len(products) : ClickGenerate(products[i])
    \/ \E g \in generating : QRCodeReady(g) \/ QRCodeFailed(g)
    \/ CloseQRDialog \/ CloseSnackbar \/ ChainGrows

Spec == Init /\ [][Next]_vars
-----------------------------------------------------------------------------
Rows == [id : Nat, draft : Draft \cup {"initial", "none"}]

(***************************************************************************)
(* Type invariant of the page's state (ProductRegistry.tsx:99-113).        *)
(***************************************************************************)
TypeOK ==
    /\ globals \in BOOLEAN
    /\ products \in Seq(Rows)
    /\ open \in BOOLEAN /\ newProduct \in Form
    /\ loading \in BOOLEAN /\ error \in BOOLEAN
    /\ selectedProduct \in Rows /\ qrCodeUrl \in Rows
    /\ adding \subseteq [ticket : 1..MaxCalls, draft : Draft]
    /\ generating \subseteq [ticket : 1..MaxCalls, product : Rows]
    /\ count \in Nat

(***************************************************************************)
(* The QR dialog shows, and the download button saves under the product's  *)
(* name, the code of the product it was opened for, in whatever order the  *)
(* images of several requests arrive (ProductRegistry.tsx:228-230, 462-483)*)
(***************************************************************************)
DialogShowsItsOwnCode == selectedProduct # none => qrCodeUrl = selectedProduct

(***************************************************************************)
(* The loading flag, shared by all calls, is up only while some call is    *)
(* under way: "Add Product" never stays disabled (ProductRegistry.tsx:195, *)
(* 234, 444).                                                              *)
(***************************************************************************)
LoadingMeansBusy == loading => adding # {} \/ generating # {}

(***************************************************************************)
(* The table only grows at its end: a row added while another addition     *)
(* was under way is not lost (ProductRegistry.tsx:187).                    *)
(***************************************************************************)
TableOnlyGrows ==
    [][/\ Len(products') >= Len(products)
       /\ SubSeq(products', 1, Len(products)) = products]_vars
=============================================================================
