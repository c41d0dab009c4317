------------------------- MODULE MCHeaterInterlock -------------------------
(* Instances of HeaterInterlock.  Temperatures are four plausible values   *)
(* in order: 1 below the band, 2 and 3 in it, 4 above it (in the band      *)
(* after a bakeout limit); the surrogates are 0 and 9.                     *)
EXTENDS HeaterInterlock

MCTemps    == 1 .. 4
MCBand     == [min |-> 2, max |-> 3]
MCBakeout  == [min |-> 2, max |-> 4]
MCOneBand  == {MCBand}
MCTwoBands == {MCBand, MCBakeout}
MCOneBad   == {2, 4}
MCNaNReadings == {4, NaN}
MCSetpoint == {3}
MCExternal == {2}
MCNone     == {}
MCNoExpr   == {NoExpr}
MCSpOnly   == {NoExpr, Num(3)}
MCPvExprs  == {NoExpr, [kind |-> "rtd", arg |-> 1]}
MCHuge     == {NoExpr, Num(3), [kind |-> "huge", arg |-> 0]}
MCSpExprs  == MCHuge \cup MCPvExprs
=============================================================================
