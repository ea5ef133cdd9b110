------------------------------- MODULE MCAtaDisk -------------------------------
(* Two clusters of two blocks, the first block for the signature, and the  *)
(* cluster behind the end.                                                 *)
EXTENDS AtaDisk

CONSTANTS x, y

MCAddresses == 0 .. 3
MCReads == {[lba |-> 0, count |-> 1], [lba |-> 0, count |-> 2],
            [lba |-> 2, count |-> 2], [lba |-> 4, count |-> 2]}
MCWrites == {[lba |-> 0, data |-> <<x>>], [lba |-> 0, data |-> <<y, x>>],
             [lba |-> 2, data |-> <<x, y>>], [lba |-> 2, data |-> <<y, y>>],
             [lba |-> 4, data |-> <<x, y>>]}
=============================================================================
