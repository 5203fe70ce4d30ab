----------------------------- MODULE MCStackPurge -----------------------------
(* A container, the database and the volume it uses, a generated file. *)
EXTENDS StackPurge

CONSTANTS container, database, volume, file
================================================================================
