----------------------------- MODULE Interlocks ------------------------------
(***************************************************************************)
(* The alert controller (src/slowcontrol/controllers/interlocks.py): the   *)
(* health of every channel heard of since the start, kept by callbacks,    *)
(* and a thread that looks at it every 15 s, raises and clears retained    *)
(* alerts and publishes the list of rules that are active.                 *)
(***************************************************************************)
EXTENDS Integers, FiniteSets

CONSTANTS
  Temps,         \* temperature channels
  Tanks,         \* level channels
  Zones,         \* heater zones
  StaleLimit,    \* channel -> TEMP_STALE_S or LEVEL_STALE_S, in ticks
  SatLimit,      \* PID_SAT_DURATION_S, in ticks
  NotHeard       \* a channel or zone without an entry

ASSUME LimitsAssumption ==
  StaleLimit \in [Temps \cup Tanks -> Nat] /\ SatLimit \in Nat
ASSUME NotHeardAssumption ==
  NotHeard \notin [age : Int, bad : BOOLEAN] \cup [sat : Int, alerted : BOOLEAN]

VARIABLES
  health,        \* _temps and _levels: channel -> [age, bad]
  pid,           \* _pids: zone -> [sat, alerted]
  active,        \* _active_alerts
  round,         \* what the watchdog does next
  raised,        \* alerts the broker keeps
  rules          \* status/interlocks: rules_active

interlocks == <<health, pid, active, round, raised, rules>>

Channels == Temps \cup Tanks
NotSat   == -1              \* sat_start is None
Oldest(c) == StaleLimit[c] + 1

Rule(kind, c) == [kind |-> kind, of |-> c]
ChannelRules  == {Rule("stale", c) : c \in Channels} \cup {Rule("range", c) : c \in Temps}
PidRules      == {Rule("saturated", z) : z \in Zones}

InterlocksInit ==
  /\ health = [c \in Channels |-> NotHeard] /\ pid = [z \in Zones |-> NotHeard]
  /\ active = {} /\ round = [at |-> "new"]
  /\ raised = {} /\ rules = {}
(* A restart: what the broker keeps, it keeps.                             *)
InterlocksStart ==
  /\ health' = [c \in Channels |-> NotHeard] /\ pid' = [z \in Zones |-> NotHeard]
  /\ active' = {} /\ round' = [at |-> "new"]
  /\ UNCHANGED <<raised, rules>>

-----------------------------------------------------------------------------
(* Callbacks: _on_temp and _on_level, _on_pid.                             *)
OnReading(c, bad) ==
  /\ health' = [health EXCEPT ![c] = [age |-> 0, bad |-> bad]]
  /\ UNCHANGED <<pid, active, round, raised, rules>>

OnPid(z, saturated) ==
  LET h == IF pid[z] = NotHeard THEN [sat |-> NotSat, alerted |-> FALSE] ELSE pid[z]
  IN /\ pid' = [pid EXCEPT ![z] =
                  IF saturated THEN [h EXCEPT !.sat = IF @ = NotSat THEN 0 ELSE @]
                  ELSE [sat |-> NotSat, alerted |-> FALSE]]
     /\ UNCHANGED <<health, active, round, raised, rules>>

-----------------------------------------------------------------------------
(* A round of the watchdog: the rules of the channels it has heard of, one *)
(* by one, each by the health of that moment, and then the zones.          *)

Holds(r) == IF r.kind = "stale" THEN health[r.of].age > StaleLimit[r.of] ELSE health[r.of].bad
Checkable ==
  LET heard == {c \in Channels : health[c] # NotHeard}
  IN {Rule("stale", c) : c \in heard} \cup {Rule("range", c) : c \in heard \cap Temps}

(* Mutant: a cleared alert is forgotten, the one the broker keeps stays.   *)
CheckRule_Kept(r) ==
  LET now == IF Holds(r) THEN {r} ELSE {}
  IN /\ active' = (active \ {r}) \cup now
     /\ raised' = raised \cup (now \ active)
     /\ round' = [round EXCEPT !.rules = @ \ {r}, !.now = @ \cup now]
     /\ UNCHANGED <<health, pid, rules>>
CheckRule(r) ==
  LET now == IF Holds(r) THEN {r} ELSE {}
  IN /\ active' = (active \ {r}) \cup now
     /\ raised' = (raised \ ((active \cap {r}) \ now)) \cup (now \ active)
     /\ round' = [round EXCEPT !.rules = @ \ {r}, !.now = @ \cup now]
     /\ UNCHANGED <<health, pid, rules>>

Saturated(z) == pid[z].sat # NotSat /\ pid[z].sat > SatLimit /\ ~pid[z].alerted
CheckPid ==
  /\ round.at = "check" /\ round.rules = {}
  /\ \E z \in round.zones :
       round' = IF Saturated(z)
                THEN [at |-> "mark", zone |-> z, zones |-> round.zones \ {z}, rules |-> {},
                      now |-> round.now \cup {Rule("saturated", z)}]
                ELSE [round EXCEPT !.zones = @ \ {z}]
  /\ UNCHANGED <<health, pid, active, raised, rules>>

(* The zone is marked under the lock and reported outside it.  A report    *)
(* that finds sat_start gone (it is subtracted again for the text) raises, *)
(* and the thread is no more.                                              *)
MarkPid ==
  /\ round.at = "mark"
  /\ pid' = [pid EXCEPT ![round.zone].alerted = TRUE]
  /\ round' = [round EXCEPT !.at = "report"]
  /\ UNCHANGED <<health, active, raised, rules>>
ReportPid ==
  /\ round.at = "report"
  /\ \/ /\ pid[round.zone].sat # NotSat
        /\ active' = active \cup {Rule("saturated", round.zone)}
        /\ raised' = raised \cup {Rule("saturated", round.zone)}
        /\ round' = [at |-> "check", rules |-> {}, zones |-> round.zones, now |-> round.now]
     \/ /\ pid[round.zone].sat = NotSat
        /\ round' = [at |-> "dead"]
        /\ UNCHANGED <<active, raised>>
  /\ UNCHANGED <<health, pid, rules>>

PublishRules ==
  /\ round.at = "check" /\ round.rules = {} /\ round.zones = {}
  /\ rules' = round.now
  /\ round' = [at |-> "rest"]
  /\ UNCHANGED <<health, pid, active, raised>>

Rest == CheckPid \/ MarkPid \/ ReportPid \/ PublishRules     \* of a round

RoundDone == round.at \in {"new", "rest", "dead"}
InterlocksTick ==
  /\ RoundDone
  /\ health' = [c \in Channels |->
       IF health[c] = NotHeard \/ health[c].age = Oldest(c) THEN health[c]
       ELSE [health[c] EXCEPT !.age = @ + 1]]
  /\ pid' = [z \in Zones |->
       IF pid[z] = NotHeard \/ pid[z].sat \in {NotSat, SatLimit + 1} THEN pid[z]
       ELSE [pid[z] EXCEPT !.sat = @ + 1]]
  /\ round' = IF round.at = "dead" THEN round
              ELSE [at |-> "check", rules |-> Checkable,
                    zones |-> {z \in Zones : pid[z] # NotHeard}, now |-> {}]
  /\ UNCHANGED <<active, raised, rules>>
=============================================================================
