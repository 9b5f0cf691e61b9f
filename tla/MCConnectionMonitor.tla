------------------------ MODULE MCConnectionMonitor ------------------------
(***************************************************************************)
(* The connection monitor on small instances: outages of every length,     *)
(* late answers, renders that lag behind the updates, and a user who       *)
(* verifies and scans at any time.                                         *)
(***************************************************************************)
EXTENDS ConnectionMonitor
=============================================================================
