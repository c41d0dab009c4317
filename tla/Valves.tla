------------------------------- MODULE Valves --------------------------------
(***************************************************************************)
(* The PLC driver's valves, the autovalve controller and the alert         *)
(* controller composed: operators and the autovalve command valves over    *)
(* the broker, level readings feed both controllers, three threads next to *)
(* the MQTT client's look at what its callbacks leave, and the process may *)
(* be restarted at any point.                                              *)
(***************************************************************************)
EXTENDS PlcValves, Autovalve, Interlocks

CONSTANTS
  Commands,      \* messages operators send
  MaxEvents      \* bound on commands, readings, failing reads and restarts

ASSUME VesselsAssumption == Solenoids = Vessels /\ Tanks = Vessels
ASSUME CommandsAssumption ==
  \A m \in Commands : /\ m.topic \in {"state", "auto", "gas", "enable"}
                      /\ m.topic \in {"state", "auto"} => m.vessel \in Vessels
                      /\ m.topic = "state" => m.open \in BOOLEAN
                      /\ m.topic \in {"auto", "enable"} => m.on \in BOOLEAN

ASSUME EventsAssumption == MaxEvents \in Nat

VARIABLES
  \* history
  known,         \* vessels shut when the process started or commanded since, if
                 \* the last command was written
  openFor,       \* ticks since the last command that opened the valve
  settled,       \* vessels whose level has arrived after all else they heard
  granted,       \* the last word on the gate operators sent in this session
  unseen,        \* has a gas valve or the gate changed since the poll began
  found,         \* what held in the alert controller's last round
  kept,          \* alerts of earlier processes that have not held since
  events

driver   == <<plcRegs, plcSays, plcGate>>
fills    == <<known, openFor, settled>>
alerting == <<found, kept>>
vars == <<bus, driver, autovalve, interlocks, fills, granted, unseen, alerting, events>>

Event == events < MaxEvents /\ events' = events + 1

Init ==
  /\ bus = <<>>
  /\ ValvesInit /\ AutovalveInit /\ InterlocksInit
  /\ known = {v \in Vessels : ~desired[v]} /\ settled = {}
  /\ openFor = [v \in Vessels |-> 0]
  /\ granted = FALSE /\ unseen = TRUE
  /\ found = {} /\ kept = {}
  /\ events = 0

-----------------------------------------------------------------------------
(* An operator's command; that of a gas valve with the word it follows.    *)
Marked(m) ==
  IF m.topic = "gas"
  THEN [topic |-> "gas", gas |-> m.gas, open |-> m.open, granted |-> granted]
  ELSE m
Sends(m) ==
  /\ Event
  /\ Publish(<<Marked(m)>>)
  /\ granted' = IF m.topic = "enable" THEN m.on ELSE granted
  /\ UNCHANGED <<driver, autovalve, interlocks, fills, unseen, alerting>>

StateArrives ==
  /\ Arrives("state")
  /\ OnManualState
  /\ \E written \in BOOLEAN :
       /\ OnValveState(written)
       /\ known' = IF written THEN known \cup {Msg.vessel} ELSE known \ {Msg.vessel}
       /\ openFor' = IF written /\ Msg.open THEN [openFor EXCEPT ![Msg.vessel] = 0] ELSE openFor
  /\ settled' = settled \ {Msg.vessel}
  /\ UNCHANGED <<interlocks, granted, unseen, alerting, events>>

AutoArrives ==
  /\ Arrives("auto")
  /\ OnAutoCmd /\ \E written \in BOOLEAN : OnValveAuto(written)
  /\ UNCHANGED <<interlocks, fills, granted, unseen, alerting, events>>

GasArrives ==
  /\ \/ Arrives("gas") /\ \E written \in BOOLEAN : OnPneumaticState(written)
     \/ Arrives("enable") /\ OnPneumaticControlEnable
  /\ Reply(<<>>) /\ unseen' = TRUE
  /\ UNCHANGED <<autovalve, interlocks, fills, granted, alerting, events>>

LevelArrives(v) ==
  /\ OnLevel(v) /\ OnReading(v, FALSE)
  /\ settled' = settled \cup {v}
  /\ UNCHANGED <<driver, known, openFor, granted, unseen, alerting, events>>

(* One callback is over before the next begins.                            *)
Deliver ==
  /\ call = NoCall
  /\ StateArrives \/ AutoArrives \/ GasArrives \/ \E v \in Vessels : LevelArrives(v)
CallStep ==
  /\ Evaluate
  /\ UNCHANGED <<driver, interlocks, fills, granted, unseen, alerting, events>>

Senses ==
  /\ Event
  /\ \/ /\ \E v \in Vessels, raw \in Levels : BoardSends(v, raw)
        /\ UNCHANGED interlocks
     \/ /\ \E c \in Temps, bad \in BOOLEAN : OnReading(c, bad)
        /\ UNCHANGED autovalve
     \/ /\ \E z \in Zones, saturated \in BOOLEAN : OnPid(z, saturated)
        /\ UNCHANGED autovalve
  /\ UNCHANGED <<bus, driver, fills, granted, unseen, alerting>>

(* Threads that share nothing are taken in turn: what is left of a         *)
(* callback next to the autovalve's watchdog only, the end of the poll,    *)
(* then that watchdog, then the alert controller's.                        *)
PlcStep ==
  /\ call = NoCall
  /\ \/ Scan /\ unseen' = TRUE /\ UNCHANGED events
     \/ Poll /\ UNCHANGED <<unseen, events>>
     \/ PollFails /\ Event /\ UNCHANGED unseen
  /\ UNCHANGED <<bus, autovalve, interlocks, fills, granted, alerting>>

WatchStep ==
  /\ PollDone /\ Watch
  /\ settled' = IF watch.at = "force" THEN settled \ {watch.vessel} ELSE settled
  /\ UNCHANGED <<driver, interlocks, known, openFor, granted, unseen, alerting, events>>

RoundStep ==
  /\ PollDone /\ WatchDone /\ call = NoCall
  /\ \/ /\ round.at = "check"
        /\ \E r \in round.rules :
             /\ CheckRule(r)
             /\ found' = IF Holds(r) THEN found \cup {r} ELSE found \ {r}
             /\ kept' = IF Holds(r) THEN kept \ {r} ELSE kept
     \/ Rest /\ UNCHANGED <<found, kept>>
  /\ UNCHANGED <<bus, driver, autovalve, fills, granted, unseen, events>>

(* What every thread does in a period, and what was sent, is over.         *)
Tick ==
  /\ bus = <<>> /\ call = NoCall /\ relay = relayReg
  /\ \A v \in Vessels : air[v] # {} => v \in settled
  /\ PollTick /\ WatchTick /\ InterlocksTick
  /\ openFor' = [v \in Vessels |->
       IF desired[v] /\ openFor[v] <= Timeout + 1 THEN openFor[v] + 1 ELSE openFor[v]]
  /\ settled' = {} /\ unseen' = FALSE
  /\ UNCHANGED <<bus, known, granted, alerting, events>>

Restart ==
  /\ Event
  /\ bus' = <<>>
  /\ ValvesStart /\ AutovalveStart /\ InterlocksStart
  /\ known' = {v \in Vessels : ~desired[v]} /\ settled' = {}
  /\ granted' = FALSE /\ unseen' = TRUE
  /\ found' = {} /\ kept' = raised
  /\ UNCHANGED openFor

Next == \/ \E m \in Commands : Sends(m)
        \/ Deliver \/ CallStep \/ Senses \/ PlcStep \/ WatchStep \/ RoundStep \/ Tick \/ Restart
Spec == Init /\ [][Next]_vars

-----------------------------------------------------------------------------
(* Properties.                                                             *)

TypeOK ==
  /\ desired \in [Vessels -> BOOLEAN]
  /\ autofill \in [Vessels -> [open : BOOLEAN, close : BOOLEAN]]
  /\ {relayReg, relay} \subseteq [Gases -> BOOLEAN]
  /\ shown \in [Gases -> [desired : BOOLEAN \cup {Unread}, state : BOOLEAN \cup {Unread}]]
  /\ gate \in BOOLEAN /\ refused \in 0 .. MaxEvents
  /\ said \in [enabled : BOOLEAN, refused : 0 .. MaxEvents]
  /\ \A v \in Vessels : /\ fill[v].since \in (0 .. Timeout + 1) \cup {Never}
                        /\ fill[v].open = (fill[v].since # Never)
                        /\ fill[v].level \in Levels /\ air[v] \subseteq Levels
  /\ \A c \in Channels : health[c] # NotHeard => health[c].age \in 0 .. Oldest(c)
  /\ \A z \in Zones : pid[z] # NotHeard => pid[z].sat \in NotSat .. SatLimit + 1
  /\ active \subseteq raised /\ raised \subseteq ChannelRules \cup PidRules
  /\ alarms \subseteq Vessels

(* A valve that was shut when the process started, or has been commanded   *)
(* since, and whose last command reached the PLC, is not left open for     *)
(* longer than the timeout and a period of the watchdog after the last     *)
(* command that opened it, the controller's own or an operator's ("if a    *)
(* valve has been open for longer than fill_timeout_s ... force it         *)
(* closed").  A valve that is open when the process starts is not known to *)
(* the controller, which takes it to be shut (VesselState): nothing times  *)
(* or closes it, and nothing is claimed of it here.                        *)
FillEnds == \A v \in known : desired[v] => openFor[v] <= Timeout + 1

(* When a level has arrived after everything else a vessel has heard, and  *)
(* no command of the controller is still to come, the PLC's register is    *)
(* what the autofill wants: closed when full, open when low.  Not so of a  *)
(* valve whose last command was not written, nor of one that is open when  *)
(* the process starts and has had no command since: the controller takes   *)
(* it to be shut, and does not close it at any level.                      *)
Quiet(v) == /\ \A n \in DOMAIN bus : bus[n].topic = "state" => bus[n].vessel # v
            /\ watch.at \in {"force", "tell"} => watch.vessel # v
            /\ call # NoCall => call.vessel # v
AutofillObeyed ==
  \A v \in settled \cap known : Quiet(v) =>
    /\ fill[v].autoClose /\ fill[v].level >= High => ~desired[v]
    /\ fill[v].autoOpen /\ fill[v].level < Low => desired[v]

(* A gas valve's register changes only for a command that was sent after   *)
(* the gate had been opened in the life of this process ("a stray click    *)
(* can only move a valve after someone has enabled control ... within this *)
(* service's lifetime", "nothing is queued for later").                    *)
OnlyAfterEnable == [][relayReg' # relayReg => Msg.granted]_vars

(* After a poll in which every read was answered and no gas valve or gate  *)
(* changed, and though callbacks publish the same statuses as the poll and *)
(* polls before it left fields out, what the broker keeps of the gate and  *)
(* of each gas valve is so (_publish_pneumatic_control_status).  A status  *)
(* a callback's publication overtakes stays as it is until such a poll.    *)
ShownIsTrue ==
  polling = Idle /\ ~unseen =>
    /\ said = Control
    /\ \A g \in Gases : shown[g] = [desired |-> Opens(g, relayReg[g]), state |-> IsOpen(g)]

(* The alerts of channels the broker keeps are those that held when the    *)
(* controller last looked and, of processes before this one, those that    *)
(* have not held since (_alert, _clear_alert); from the first round to the *)
(* end of its thread the list published between rounds agrees.  Nothing is *)
(* claimed of the zones' alerts, which the code never clears.              *)
AlertsTell ==
  /\ raised \cap ChannelRules = (found \cup kept) \cap ChannelRules
  /\ round.at = "rest" => rules \cap ChannelRules = found
=============================================================================
