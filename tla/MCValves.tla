------------------------------ MODULE MCValves -------------------------------
(* One vessel, a normally open and a normally closed gas valve, one RTD    *)
(* and one heater zone.                                                    *)
EXTENDS Valves

MCLimits == [c \in {"rtd", "tank"} |-> IF c = "rtd" THEN 0 ELSE 1]
MCCommands ==
  {StateMsg("tank", TRUE), StateMsg("tank", FALSE)}
  \cup {[topic |-> "auto", vessel |-> "tank", which |-> w, on |-> TRUE] : w \in {"open", "close"}}
  \cup {[topic |-> "gas", gas |-> g, open |-> TRUE] : g \in {"ballast", "pump"}}
  \cup {[topic |-> "enable", on |-> b] : b \in BOOLEAN}
=============================================================================
