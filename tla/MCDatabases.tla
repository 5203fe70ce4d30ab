------------------------------ MODULE MCDatabases ------------------------------
(* One database, whose name is used again after a purge. *)
EXTENDS Databases

CONSTANTS orders
================================================================================
