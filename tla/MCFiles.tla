-------------------------------- MODULE MCFiles --------------------------------
(* One file without an extension and two with, one of which is larger.     *)
EXTENDS FileCommands

CONSTANTS a, b, uwu, txt

MCStartFiles ==
  << [name |-> a, ext |-> NoExt, buffer_size |-> ClusterSize],
     [name |-> b, ext |-> uwu, buffer_size |-> ClusterSize + 1],
     [name |-> b, ext |-> txt, buffer_size |-> ClusterSize] >>
=============================================================================
