-------------------------- MODULE MCUpdateProcessor --------------------------
(* UpdateProcessor for TLC.  The handlers are interchangeable in the runs    *)
(* that check no liveness property.                                          *)
EXTENDS UpdateProcessor, TLC

TaskSymmetry == Permutations(Tasks)
=============================================================================
