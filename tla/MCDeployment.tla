---------------------------- MODULE MCDeployment ----------------------------
(***************************************************************************)
(* The contract, the script that deploys it and the accounts that use it:  *)
(* a developer who deploys again and again, another manufacturer, product  *)
(* identifiers that collide, and a moving clock.                           *)
(***************************************************************************)
EXTENDS Deployment
=============================================================================
