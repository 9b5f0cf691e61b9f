--------------------------- MODULE MCRegistryPage ---------------------------
(***************************************************************************)
(* The registry page with two calls of each kind under way at once, as     *)
(* shipped and with its two undeclared identifiers defined by the host.    *)
(***************************************************************************)
EXTENDS RegistryPage
=============================================================================
