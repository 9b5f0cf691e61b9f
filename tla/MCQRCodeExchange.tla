-------------------------- MODULE MCQRCodeExchange --------------------------
(***************************************************************************)
(* Labels of two products under two secrets, with clocks that agree, lead  *)
(* and lag, over a time longer than the age limit.                         *)
(***************************************************************************)
EXTENDS QRCodeExchange
=============================================================================
