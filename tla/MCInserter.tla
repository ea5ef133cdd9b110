------------------------------ MODULE MCInserter ------------------------------
(* One file name, on the host and in the system.                           *)
EXTENDS Inserter

CONSTANTS n1, e1
=============================================================================
