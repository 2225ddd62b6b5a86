---------------------------- MODULE MCUniqueName ----------------------------
(* Values for the constants of UniqueName: two workers, and little to try.   *)
EXTENDS UniqueName

CONSTANTS first, second
MCWorkers == {first, second}
=============================================================================
