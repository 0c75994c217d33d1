----------------------------- MODULE MCBroadcast -----------------------------
(* Broadcast for TLC.  No symmetry: a liveness property does not allow it, and  *)
(* the choice of the next recipient (To) is not symmetric in the recipients.    *)
EXTENDS Broadcast, TLC
=============================================================================
