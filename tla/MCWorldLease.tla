------------------------------ MODULE MCWorldLease ------------------------------
(***************************************************************************)
(* Small instances of WorldLease: two processes started on one world.      *)
(***************************************************************************)
EXTENDS WorldLease

CONSTANTS a, b
===============================================================================
