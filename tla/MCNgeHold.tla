----------------------------- MODULE MCNgeHold ------------------------------
(* Instances of NgeHold.  Of three settings the supply can hold 1 and 2;   *)
(* asked for 3 it holds 2, as it caps a current limit to 33.6 W / V.       *)
EXTENDS NgeHold

MCSettings    == 1 .. 3
MCHeld        == 1 .. 2
MCCapped      == [s \in MCSettings |-> IF s = 3 THEN 2 ELSE s]
MCOneSetting  == {1}
MCOneAnswer   == [s \in {1} |-> s]
MCBoth        == {"opp", "fuse"}
MCNone        == {}
=============================================================================
