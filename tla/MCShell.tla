-------------------------------- MODULE MCShell --------------------------------
(* One of main's files, of two clusters, with the name of a folder.        *)
EXTENDS Shell

CONSTANTS a, b, uwu

MCStartFiles ==
  << [name |-> a, ext |-> uwu, buffer_size |-> 2 * ClusterSize] >>
=============================================================================
