------------------------------ MODULE MCService ------------------------------
(***************************************************************************)
(* Service on a small instance: two drivers, a watchdog of one tick, the   *)
(* ratio of the times as in the unit file and config.yaml: Burst times     *)
(* (Watchdog + RestartSec) is Interval.                                    *)
(***************************************************************************)
EXTENDS Service, TLC

CONSTANTS plc, omega, pi, other, none, elsewhere, low, high

MCRatio   == Burst * (Watchdog + RestartSec) = Interval
ASSUME RatioAssumption == MCRatio
Symmetric == Permutations(Drivers) \cup Permutations(Samples)
=============================================================================
