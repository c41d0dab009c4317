------------------------------ MODULE PlcValves ------------------------------
(***************************************************************************)
(* The valves of the PLC driver (src/slowcontrol/drivers/plc.py): the      *)
(* registers of the LN2 solenoids and of the pneumatic gas valves, the     *)
(* gate on the commands of the latter, and what the driver's poll thread   *)
(* says of them while commands arrive on the thread of the MQTT client.    *)
(***************************************************************************)
EXTENDS Broker

CONSTANTS
  Solenoids,     \* of the LN2 vessels
  Gases,         \* pneumatic gas valves
  NormallyOpen,  \* those whose relay closes them
  Unread         \* a field left out of a status

ASSUME SenseAssumption == NormallyOpen \subseteq Gases
ASSUME UnreadAssumption == Unread \notin BOOLEAN

VARIABLES
  \* registers of the PLC
  desired,       \* vessel -> is its solenoid asked to be open
  autofill,      \* vessel -> the ladder's own autofill, [open, close]
  relayReg,      \* gas valve -> is its relay asked to be energised
  relay,         \* gas valve -> is it energised
  \* the driver
  gate,          \* _pneumatic_enabled
  refused,       \* _pneumatic_refused
  \* the poll thread, and what the broker keeps
  polling,       \* what it does next
  shown,         \* status/pneumatic: gas valve -> [desired, state], in valve terms
  said           \* status/pneumatic_control

plcRegs  == <<desired, autofill, relayReg, relay>>
plcSays  == <<polling, shown, said>>
plcGate  == <<gate, refused>>

(* The relay of a normally open valve closes it.                           *)
Opens(g, on) == on # (g \in NormallyOpen)
IsOpen(g)    == Opens(g, relay[g])
Control      == [enabled |-> gate, refused |-> refused]
Idle         == [at |-> "done"]     \* after a poll in which every read was answered
Broken       == [at |-> "failed"]

ValvesInit ==
  /\ desired \in [Solenoids -> BOOLEAN]
  /\ autofill = [v \in Solenoids |-> [open |-> FALSE, close |-> FALSE]]
  /\ relayReg \in [Gases -> BOOLEAN] /\ relay = relayReg
  /\ gate = FALSE /\ refused = 0
  /\ polling = Idle
  /\ shown = [g \in Gases |-> [desired |-> Opens(g, relayReg[g]), state |-> IsOpen(g)]]
  /\ said = Control

(* Mutant: the gate is remembered.                                         *)
ValvesStart_Kept ==
  /\ said' = Control /\ polling' = Idle
  /\ UNCHANGED <<plcRegs, plcGate, shown>>
(* connect: shut, and said so before the first poll.                       *)
ValvesStart ==
  /\ gate' = FALSE /\ refused' = 0
  /\ said' = [enabled |-> FALSE, refused |-> 0]
  /\ polling' = Idle
  /\ UNCHANGED <<plcRegs, shown>>

-----------------------------------------------------------------------------
(* Callbacks.  A write to the PLC may fail, which is only logged.          *)

OnValveState(written) ==
  /\ desired' = IF written THEN [desired EXCEPT ![Msg.vessel] = Msg.open] ELSE desired
  /\ UNCHANGED <<autofill, relayReg, relay, plcGate, plcSays>>

OnValveAuto(written) ==
  /\ autofill' = IF written THEN [autofill EXCEPT ![Msg.vessel][Msg.which] = Msg.on]
                 ELSE autofill
  /\ UNCHANGED <<desired, relayReg, relay, plcGate, plcSays>>

OnPneumaticState(written) ==
  \/ /\ gate
     /\ relayReg' = IF written
                    THEN [relayReg EXCEPT ![Msg.gas] = Msg.open # (Msg.gas \in NormallyOpen)]
                    ELSE relayReg
     /\ UNCHANGED <<desired, autofill, relay, plcGate, plcSays>>
  \/ /\ ~gate
     /\ refused' = refused + 1
     /\ said' = [enabled |-> FALSE, refused |-> refused + 1]
     /\ UNCHANGED <<gate, plcRegs, polling, shown>>

OnPneumaticControlEnable ==
  /\ gate' = Msg.on
  /\ said' = [enabled |-> Msg.on, refused |-> refused]
  /\ UNCHANGED <<refused, plcRegs, polling, shown>>

-----------------------------------------------------------------------------
(* The ladder: the relay follows its register.                             *)
Scan ==
  /\ relay # relayReg /\ relay' = relayReg
  /\ UNCHANGED <<desired, autofill, relayReg, plcGate, plcSays>>

(* The end of a poll (_publish_pneumatic_status and                        *)
(* _publish_pneumatic_control_status): a read, or the payload of a status, *)
(* and the publication that follows it are not one step.                   *)
(* A read answered with an error leaves its field out; when neither is     *)
(* answered nothing is published.                                          *)
ReadReg(answered) ==
  /\ polling.at = "gas" /\ polling.left # {}
  /\ \E g \in polling.left :
       polling' = [polling EXCEPT !.at = "coil",
                     !.read = <<g, IF answered THEN Opens(g, relayReg[g]) ELSE Unread>>,
                     !.left = @ \ {g}, !.whole = @ /\ answered]
  /\ UNCHANGED <<shown, said>>
Shows(s) ==
  shown' = IF s = Unread /\ polling.read[2] = Unread THEN shown
           ELSE [shown EXCEPT ![polling.read[1]] = [desired |-> polling.read[2], state |-> s]]
ReadCoil_NoSense(answered) ==       \* mutant: the relay is taken for the valve
  /\ polling.at = "coil"
  /\ Shows(IF answered THEN relay[polling.read[1]] ELSE Unread)
  /\ polling' = [polling EXCEPT !.at = "gas", !.whole = @ /\ answered]
  /\ UNCHANGED said
ReadCoil(answered) ==
  /\ polling.at = "coil"
  /\ Shows(IF answered THEN IsOpen(polling.read[1]) ELSE Unread)
  /\ polling' = [polling EXCEPT !.at = "gas", !.whole = @ /\ answered]
  /\ UNCHANGED said
MakeStatus ==
  /\ polling.at = "gas" /\ polling.left = {}
  /\ polling' = [polling EXCEPT !.at = "say", !.read = Control]
  /\ UNCHANGED <<shown, said>>
SayStatus ==
  /\ polling.at = "say"
  /\ said' = polling.read
  /\ polling' = IF polling.whole THEN Idle ELSE Broken
  /\ UNCHANGED shown
(* A read that raises, fenced off, ends the poll.                          *)
ReadRaises ==
  /\ polling.at = "coil" \/ (polling.at = "gas" /\ polling.left # {})
  /\ polling' = Broken
  /\ UNCHANGED <<shown, said>>

Poll ==
  /\ ReadReg(TRUE) \/ ReadCoil(TRUE) \/ MakeStatus \/ SayStatus
  /\ UNCHANGED <<plcRegs, plcGate>>
PollFails ==
  /\ ReadReg(FALSE) \/ ReadCoil(FALSE) \/ ReadRaises
  /\ UNCHANGED <<plcRegs, plcGate>>

PollDone == polling.at \in {"done", "failed"}
PollTick == /\ PollDone
            /\ polling' = [at |-> "gas", left |-> Gases, read |-> <<>>, whole |-> TRUE]
            /\ UNCHANGED <<plcRegs, plcGate, shown, said>>
=============================================================================
