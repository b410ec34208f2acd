------------------------------ MODULE MCUnitGC ------------------------------
(***************************************************************************)
(* Three units, of which a may have c for its OnSuccess= or OnFailure=.    *)
(* gc_marker has five bits and is 24 in the first round, 1 in the second,  *)
(* 5 in the third: it wraps around once units are labelled, and goes on.   *)
(***************************************************************************)
EXTENDS UnitGC

CONSTANTS a, b, c

MCOnResult == {<<a, c>>}

=============================================================================
