----------------------------- MODULE MCTurboHold -----------------------------
(* Instances of TurboHold: two pumps, one of them a stranger at any time.  *)
EXTENDS TurboHold

CONSTANTS p1, p2
MCPumps == {p1, p2}
=============================================================================
