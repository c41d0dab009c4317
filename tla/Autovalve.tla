------------------------------ MODULE Autovalve ------------------------------
(***************************************************************************)
(* The autovalve controller (src/slowcontrol/controllers/autovalve.py),    *)
(* which opens and closes the LN2 solenoids by commands to the PLC driver. *)
(* It hears its own commands, and its own readings: it republishes every   *)
(* level reading on the topic it subscribes to, so that a reading, once    *)
(* heard, is delivered again and again as long as the process lives.       *)
(***************************************************************************)
EXTENDS Broker

CONSTANTS
  Vessels,
  Low, High,     \* level_low and level_high: thresholds among the levels
  Levels,        \* readings, and values of the filter
  Timeout,       \* fill_timeout_s, in periods of the watchdog
  Never          \* no fill_start_time

ASSUME LevelsAssumption == Levels \subseteq Nat /\ 0 \in Levels /\ Timeout \in Nat
(* config.yaml: each vessel's level_low is below its level_high.           *)
ASSUME ThresholdsAssumption == {Low, High} \subseteq Int /\ Low <= High
ASSUME NeverAssumption == Never \notin Nat

VARIABLES
  fill,          \* vessel -> VesselState
  air,           \* vessel -> readings under way on its topic
  call,          \* what is left of a callback, on the client's thread
  watch,         \* the watchdog's thread
  alarms         \* vessels with an alert fill_timeout, which the broker keeps

autovalve == <<fill, air, call, watch, alarms>>

Fresh == [open |-> FALSE, since |-> Never, autoOpen |-> FALSE, autoClose |-> FALSE,
          level |-> 0, heard |-> FALSE]
Resting == [at |-> "rest"]
NoCall  == [at |-> "none"]

AutovalveInit ==
  /\ fill = [v \in Vessels |-> Fresh]
  /\ air = [v \in Vessels |-> {}]
  /\ call = NoCall /\ watch = Resting
  /\ alarms = {}
(* Every vessel is taken to be shut, whatever its valve is.                *)
AutovalveStart ==
  /\ fill' = [v \in Vessels |-> Fresh]
  /\ air' = [v \in Vessels |-> {}]
  /\ call' = NoCall /\ watch' = Resting
  /\ UNCHANGED alarms

SetValve_Untimed(s, open) == [s EXCEPT !.open = open]     \* mutant
(* _set_valve and _on_manual_state.                                        *)
SetValve(s, open) == [s EXCEPT !.open = open, !.since = IF open THEN 0 ELSE Never]

StateMsg(v, open) == [topic |-> "state", vessel |-> v, open |-> open]

(* What _evaluate finds in a vessel with state s.                          *)
Full_Above(s) == s.autoClose /\ s.open /\ s.level > High     \* mutant
Full(s)  == s.autoClose /\ s.open /\ s.level >= High
Empty(s) == s.autoOpen /\ ~s.open /\ s.level < Low

(* The filter moves by a hundredth of the difference: to a level between   *)
(* where it was and the reading.                                           *)
Filtered(s, raw) ==
  IF ~s.heard THEN {raw}
  ELSE {l \in Levels : (s.level <= l /\ l <= raw) \/ (raw <= l /\ l <= s.level)}

-----------------------------------------------------------------------------
(* Callbacks.                                                              *)

(* A reading a board sends.                                                *)
BoardSends(v, raw) ==
  /\ raw \notin air[v] /\ air' = [air EXCEPT ![v] = @ \cup {raw}]
  /\ UNCHANGED <<fill, call, watch, alarms>>

(* _on_level and _on_auto_cmd, up to their call of _evaluate.  The reading *)
(* goes back on the topic; one is taken when the broker has room.          *)
Evaluates(v) == call' = [at |-> "evaluate", vessel |-> v]
OnLevel(v) ==
  /\ Len(bus) < MaxBus
  /\ \E raw \in air[v] : \E l \in Filtered(fill[v], raw) :
       fill' = [fill EXCEPT ![v].level = l, ![v].heard = TRUE]
  /\ Evaluates(v)
  /\ UNCHANGED <<bus, air, watch, alarms>>

OnAutoCmd ==
  /\ fill' = IF Msg.which = "open" THEN [fill EXCEPT ![Msg.vessel].autoOpen = Msg.on]
             ELSE [fill EXCEPT ![Msg.vessel].autoClose = Msg.on]
  /\ Evaluates(Msg.vessel)
  /\ Reply(<<>>)
  /\ UNCHANGED <<air, watch, alarms>>

(* _evaluate looks under the lock, _set_valve acts under it again, and     *)
(* publishes outside it.                                                   *)
Look ==
  LET v == call.vessel
  IN /\ call.at = "evaluate"
     /\ call' = IF Full(fill[v]) THEN [at |-> "set", vessel |-> v, open |-> FALSE]
                ELSE IF Empty(fill[v]) THEN [at |-> "set", vessel |-> v, open |-> TRUE]
                ELSE NoCall
     /\ UNCHANGED <<bus, fill, air, watch, alarms>>
Act ==
  /\ call.at = "set"
  /\ fill' = [fill EXCEPT ![call.vessel] = SetValve(@, call.open)]
  /\ call' = [call EXCEPT !.at = "say"]
  /\ UNCHANGED <<bus, air, watch, alarms>>
Say ==
  /\ call.at = "say"
  /\ bus' = bus \o <<StateMsg(call.vessel, call.open)>>
  /\ call' = NoCall
  /\ UNCHANGED <<fill, air, watch, alarms>>
Evaluate == Look \/ Act \/ Say

(* Mutant: only the controller's own openings are timed.                   *)
OnManualState_Untimed ==
  /\ fill' = [fill EXCEPT ![Msg.vessel].open = Msg.open]
  /\ Reply(<<>>)
  /\ UNCHANGED <<air, call, watch, alarms>>
(* _on_manual_state: an operator's command or the controller's own.        *)
OnManualState ==
  /\ fill' = [fill EXCEPT ![Msg.vessel] = SetValve(@, Msg.open)]
  /\ Reply(<<>>)
  /\ UNCHANGED <<air, call, watch, alarms>>

-----------------------------------------------------------------------------
(* The watchdog: what it finds under the lock, it acts on outside it.      *)

Judge ==
  /\ watch.at = "judge" /\ watch.left # {}
  /\ \E v \in watch.left :
       watch' = IF fill[v].open /\ fill[v].since # Never /\ fill[v].since > Timeout
                THEN [at |-> "force", vessel |-> v, left |-> watch.left \ {v}]
                ELSE [watch EXCEPT !.left = @ \ {v}]
  /\ UNCHANGED <<bus, fill, air, call, alarms>>
ForceClosed ==
  /\ watch.at = "force"
  /\ fill' = [fill EXCEPT ![watch.vessel] = SetValve(@, FALSE)]
  /\ watch' = [watch EXCEPT !.at = "tell"]
  /\ UNCHANGED <<bus, air, call, alarms>>
Tell ==
  /\ watch.at = "tell"
  /\ Publish(<<StateMsg(watch.vessel, FALSE)>>)
  /\ watch' = [watch EXCEPT !.at = "alert"]
  /\ UNCHANGED <<fill, air, call, alarms>>
Alert ==
  /\ watch.at = "alert"
  /\ alarms' = alarms \cup {watch.vessel}
  /\ watch' = [at |-> "judge", left |-> watch.left]
  /\ UNCHANGED <<bus, fill, air, call>>
Watch == Judge \/ ForceClosed \/ Tell \/ Alert

WatchDone == watch.at = "rest" \/ (watch.at = "judge" /\ watch.left = {})
Older(s)  == IF s.since = Never \/ s.since > Timeout THEN s ELSE [s EXCEPT !.since = @ + 1]
WatchTick ==
  /\ WatchDone
  /\ fill' = [v \in Vessels |-> Older(fill[v])]
  /\ watch' = [at |-> "judge", left |-> Vessels]
  /\ UNCHANGED <<air, call, alarms>>
=============================================================================
