---------------------------- MODULE MCRateLimits ----------------------------
(* Two callers of one process share a key. *)
EXTENDS RateLimits

CONSTANTS c1, c2, process

TwoCallers == {c1, c2}
OneProcess == [c \in TwoCallers |-> process]
AllLimiters == {"advanced", "basic", "counter", "active"}
LightAndHeavy == {1, 2}
=============================================================================
