-------------------------------- MODULE MCClock --------------------------------
(* Two seconds before the end of a century, of February in a leap *)
(* year and in another, of a month, and of an hour.                        *)
EXTENDS Clock

MCStarts ==
  { <<19, 99, 12, 31, 23, 59, 58>>,
    <<20, 24, 2, 28, 23, 59, 58>>,
    <<20, 23, 2, 28, 23, 59, 58>>,
    <<20, 23, 6, 30, 23, 59, 58>>,
    <<20, 23, 6, 17, 9, 59, 58>> }
=============================================================================
