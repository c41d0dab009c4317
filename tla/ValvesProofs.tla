---------------------------- MODULE ValvesProofs -----------------------------
(***************************************************************************)
(* What is proved of Valves, for any vessels, gas valves, levels, commands,*)
(* times and number of messages under way and of events.                   *)
(***************************************************************************)
EXTENDS Valves, FiniteSetTheorems, SequenceTheorems, TLAPS

-----------------------------------------------------------------------------
(* The gate.  w is the word on the gate that stands before the i-th of the *)
(* messages b, when it is now g.                                           *)
Follows(b, g, i, w) ==
  /\ (\A j \in 1 .. i - 1 : b[j].topic # "enable") => w = g
  /\ \A j \in 1 .. i - 1 :
       /\ b[j].topic = "enable"
       /\ \A k \in j + 1 .. i - 1 : b[k].topic # "enable"
       => w = b[j].on

(* What the broker carries.                                                *)
Words == {StateMsg(v, open) : v \in Vessels, open \in BOOLEAN}
MarkedAs(m, w) ==
  IF m.topic = "gas"
  THEN [topic |-> "gas", gas |-> m.gas, open |-> m.open, granted |-> w]
  ELSE m
Messages == Words \cup {MarkedAs(m, w) : m \in Commands, w \in BOOLEAN}

(* Each command of a gas valve carries the word it will find in force.     *)
Agree(b, g, w) ==
  /\ Follows(b, g, Len(b) + 1, w)
  /\ \A i \in 1 .. Len(b) : b[i].topic = "gas" => Follows(b, g, i, b[i].granted)
(* What may be left of a callback.                                         *)
Calls == {NoCall}
         \cup [at : {"evaluate"}, vessel : Vessels]
         \cup [at : {"set", "say"}, vessel : Vessels, open : BOOLEAN]
GrantInv ==
  /\ bus \in Seq(Messages)
  /\ {gate, granted} \subseteq BOOLEAN
  /\ watch.at = "judge" =>
       watch = [at |-> "judge", left |-> watch.left] /\ watch.left \subseteq Vessels
  /\ watch.at \in {"force", "tell", "alert"} =>
       /\ watch = [at |-> watch.at, vessel |-> watch.vessel, left |-> watch.left]
       /\ watch.vessel \in Vessels /\ watch.left \subseteq Vessels
  /\ call \in Calls
  /\ Agree(bus, gate, granted)

LEMMA MessageKinds ==
  ASSUME NEW m \in Messages
  PROVE  /\ m.topic \in {"state", "auto", "gas", "enable"}
         /\ m.topic \in {"state", "auto"} => m.vessel \in Vessels
         /\ m.topic \in {"auto", "enable"} => m.on \in BOOLEAN
         /\ m.topic = "state" => m.open \in BOOLEAN
<1>1. CASE m \in Words BY <1>1 DEF Words, StateMsg
<1>2. ASSUME NEW c \in Commands, NEW w \in BOOLEAN, m = MarkedAs(c, w)
      PROVE  /\ m.topic \in {"state", "auto", "gas", "enable"}
             /\ m.topic \in {"state", "auto"} => m.vessel \in Vessels
             /\ m.topic \in {"auto", "enable"} => m.on \in BOOLEAN
             /\ m.topic = "state" => m.open \in BOOLEAN
  <2>1. CASE c.topic = "gas" BY <1>2, <2>1 DEF MarkedAs
  <2>2. CASE c.topic # "gas" BY <1>2, <2>2, CommandsAssumption DEF MarkedAs
  <2> QED BY <2>1, <2>2
<1> QED BY <1>1, <1>2 DEF Messages

(* A message that is no word on the gate, and one that is, join the rest.  *)
LEMMA Joins ==
  ASSUME NEW S, NEW b \in Seq(S), NEW m \in S, NEW g, NEW w, NEW w2,
         Agree(b, g, w),
         m.topic = "gas" => m.granted = w,
         w2 = IF m.topic = "enable" THEN m.on ELSE w
  PROVE  Agree(b \o <<m>>, g, w2)
<1> DEFINE c == b \o <<m>>
<1>1. /\ c \in Seq(S) /\ Len(c) = Len(b) + 1 /\ Len(b) \in Nat
      /\ \A i \in 1 .. Len(b) : c[i] = b[i]
      /\ c[Len(b) + 1] = m
  BY ConcatProperties
<1> HIDE DEF c
<1>2. \A i \in 1 .. Len(b) + 1 : \A x : Follows(b, g, i, x) => Follows(c, g, i, x)
  <2> SUFFICES ASSUME NEW i \in 1 .. Len(b) + 1, NEW x, Follows(b, g, i, x)
               PROVE  Follows(c, g, i, x)
    OBVIOUS
  <2>1. \A j \in 1 .. i - 1 : c[j] = b[j] BY <1>1
  <2>2. \A j \in 1 .. i - 1 : j + 1 \in Nat /\ \A k \in j + 1 .. i - 1 : k \in 1 .. i - 1
    BY <1>1
  <2> QED BY <2>1, <2>2 DEF Follows
<1>3. Follows(c, g, Len(b) + 1, w) BY <1>1, <1>2 DEF Agree
<1>4. Follows(c, g, Len(c) + 1, w2)
  <2>1. CASE m.topic = "enable" BY <1>1, <2>1 DEF Follows
  <2>2. CASE m.topic # "enable" BY <1>1, <1>3, <2>2 DEF Follows
  <2> QED BY <2>1, <2>2
<1>5. ASSUME NEW i \in 1 .. Len(c), c[i].topic = "gas"
      PROVE  Follows(c, g, i, c[i].granted)
  <2>1. CASE i = Len(b) + 1 BY <1>1, <1>3, <1>5, <2>1
  <2>2. CASE i \in 1 .. Len(b)
    <3>1. Follows(b, g, i, b[i].granted) BY <1>1, <1>5, <2>2 DEF Agree
    <3> QED BY <1>1, <1>2, <2>2, <3>1
  <2> QED BY <1>1, <2>1, <2>2
<1> QED BY <1>4, <1>5 DEF Agree, c

(* The oldest message is delivered.                                        *)
LEMMA Leaves ==
  ASSUME NEW S, NEW b \in Seq(S), b # <<>>, NEW g, NEW g2, NEW w,
         Agree(b, g, w),
         g2 = IF Head(b).topic = "enable" THEN Head(b).on ELSE g
  PROVE  /\ Agree(Tail(b), g2, w)
         /\ Head(b).topic = "gas" => Head(b).granted = g
<1> DEFINE c == Tail(b)
<1>1. /\ c \in Seq(S) /\ Len(c) = Len(b) - 1 /\ Len(b) \in Nat \ {0}
      /\ \A i \in 1 .. Len(c) : c[i] = b[i + 1]
      /\ Head(b) = b[1]
  BY HeadTailProperties
<1> HIDE DEF c
<1>2. ASSUME NEW i \in 1 .. Len(b), NEW x, Follows(b, g, i + 1, x)
      PROVE  Follows(c, g2, i, x)
  <2>1. ASSUME \A j \in 1 .. i - 1 : c[j].topic # "enable"
        PROVE  x = g2
    <3>1. \A k \in 2 .. i : b[k].topic # "enable"
      <4> SUFFICES ASSUME NEW k \in 2 .. i PROVE b[k].topic # "enable" OBVIOUS
      <4>1. k - 1 \in 1 .. i - 1 /\ k - 1 \in 1 .. Len(c) /\ (k - 1) + 1 = k BY <1>1
      <4> QED BY <1>1, <2>1, <4>1
    <3>2. CASE b[1].topic = "enable"
      <4>1. x = b[1].on BY <1>1, <1>2, <3>1, <3>2 DEF Follows
      <4> QED BY <1>1, <3>2, <4>1
    <3>3. CASE b[1].topic # "enable"
      <4>1. x = g BY <1>1, <1>2, <3>1, <3>3 DEF Follows
      <4> QED BY <1>1, <3>3, <4>1
    <3> QED BY <3>2, <3>3
  <2>2. ASSUME NEW j \in 1 .. i - 1, c[j].topic = "enable",
               \A k \in j + 1 .. i - 1 : c[k].topic # "enable"
        PROVE  x = c[j].on
    <3>1. j + 1 \in 1 .. i /\ j \in 1 .. Len(c) /\ c[j] = b[j + 1] BY <1>1
    <3>2. \A k \in j + 2 .. i : b[k].topic # "enable"
      <4> SUFFICES ASSUME NEW k \in j + 2 .. i PROVE b[k].topic # "enable" OBVIOUS
      <4>1. k - 1 \in j + 1 .. i - 1 /\ k - 1 \in 1 .. Len(c) /\ (k - 1) + 1 = k BY <1>1
      <4> QED BY <1>1, <2>2, <4>1
    <3>3. x = b[j + 1].on BY <1>1, <1>2, <2>2, <3>1, <3>2 DEF Follows
    <3> QED BY <3>1, <3>3
  <2> QED BY <2>1, <2>2 DEF Follows
<1>3. Follows(c, g2, Len(c) + 1, w)
  <2>1. Len(b) \in 1 .. Len(b) /\ Len(c) + 1 = Len(b) BY <1>1
  <2> QED BY <1>2, <2>1 DEF Agree
<1>4. ASSUME NEW i \in 1 .. Len(c), c[i].topic = "gas"
      PROVE  Follows(c, g2, i, c[i].granted)
  <2>1. i + 1 \in 1 .. Len(b) /\ i \in 1 .. Len(b) /\ c[i] = b[i + 1] BY <1>1
  <2>2. Follows(b, g, i + 1, b[i + 1].granted) BY <1>4, <2>1 DEF Agree
  <2> QED BY <1>2, <2>1, <2>2
<1>5. Head(b).topic = "gas" => Head(b).granted = g
  BY <1>1 DEF Agree, Follows
<1> QED BY <1>3, <1>4, <1>5 DEF Agree, c

LEMMA InitGrant == Init => GrantInv
<1> SUFFICES ASSUME Init PROVE GrantInv OBVIOUS
<1>1. bus = <<>> /\ gate = FALSE /\ granted = FALSE /\ watch.at = "rest" /\ call = NoCall
  BY DEF Init, ValvesInit, AutovalveInit, Resting
<1>2. Agree(<<>>, FALSE, FALSE) BY DEF Agree, Follows
<1>3. <<>> \in Seq(Messages) BY EmptySeq
<1>4. bus \in Seq(Messages) /\ Agree(bus, gate, granted) BY <1>1, <1>2, <1>3
<1> QED BY <1>1, <1>4 DEF GrantInv, Calls

(* The controllers publish nothing but commands of solenoids.              *)
LEMMA StateJoins ==
  ASSUME GrantInv, NEW v \in Vessels, NEW open \in BOOLEAN
  PROVE  /\ StateMsg(v, open) \in Messages
         /\ bus \o <<StateMsg(v, open)>> \in Seq(Messages)
         /\ Agree(bus \o <<StateMsg(v, open)>>, gate, granted)
<1>1. bus \in Seq(Messages) /\ Agree(bus, gate, granted) BY DEF GrantInv
<1>2. StateMsg(v, open) \in Messages /\ StateMsg(v, open).topic = "state"
  BY DEF Messages, Words, StateMsg
<1>3. bus \o <<StateMsg(v, open)>> \in Seq(Messages) BY <1>1, <1>2, ConcatProperties
<1>4. Agree(bus \o <<StateMsg(v, open)>>, gate, granted) BY <1>1, <1>2, Joins
<1> QED BY <1>2, <1>3, <1>4

(* A message arrives.                                                      *)
LEMMA Arrived ==
  ASSUME GrantInv, NEW topic, Arrives(topic)
  PROVE  /\ Msg \in Messages /\ Msg.topic = topic
         /\ Tail(bus) \in Seq(Messages)
         /\ topic = "gas" => Msg.granted = gate
         /\ topic = "enable" => Agree(Tail(bus), Msg.on, granted)
         /\ topic # "enable" => Agree(Tail(bus), gate, granted)
<1>1. bus \in Seq(Messages) /\ bus # <<>> /\ Head(bus).topic = topic
  BY DEF GrantInv, Arrives
<1>2. Msg \in Messages /\ Tail(bus) \in Seq(Messages)
  BY <1>1, HeadTailProperties DEF Msg
<1>3. Agree(bus, gate, granted) BY DEF GrantInv
<1>4. CASE topic = "enable"
  <2>1. Agree(Tail(bus), Head(bus).on, granted) BY <1>1, <1>3, <1>4, Leaves
  <2> QED BY <1>1, <1>2, <1>4, <2>1 DEF Msg
<1>5. CASE topic # "enable"
  <2>1. Agree(Tail(bus), gate, granted) /\ (Head(bus).topic = "gas" => Head(bus).granted = gate)
    BY <1>1, <1>3, <1>5, Leaves
  <2> QED BY <1>1, <1>2, <1>5, <2>1 DEF Msg
<1> QED BY <1>4, <1>5

LEMMA SendsGrant ==
  ASSUME GrantInv, NEW m \in Commands, Sends(m)
  PROVE  GrantInv'
<1>1. /\ bus' = bus \o <<Marked(m)>>
      /\ granted' = IF m.topic = "enable" THEN m.on ELSE granted
      /\ gate' = gate /\ watch' = watch /\ call' = call
  BY DEF Sends, Publish, driver, plcGate, autovalve
<1>2. Marked(m) = MarkedAs(m, granted) BY DEF Marked, MarkedAs
<1>3. Marked(m) \in Messages BY <1>2 DEF Messages, GrantInv
<1>4. /\ Marked(m).topic = m.topic
      /\ m.topic = "gas" => Marked(m).granted = granted
      /\ m.topic # "gas" => Marked(m) = m
  BY DEF Marked
<1>5. Agree(bus', gate, granted')
  BY <1>1, <1>3, <1>4, Joins DEF GrantInv
<1>6. bus' \in Seq(Messages) BY <1>1, <1>3, ConcatProperties DEF GrantInv
<1>7. granted' \in BOOLEAN BY <1>1, CommandsAssumption DEF GrantInv
<1> QED BY <1>1, <1>5, <1>6, <1>7 DEF GrantInv

LEMMA DeliverGrant ==
  ASSUME GrantInv, Deliver
  PROVE  GrantInv'
<1> USE DEF driver, plcGate
<1>1. CASE StateArrives
  <2>1. Arrives("state") /\ bus' = Tail(bus) \o <<>> /\ UNCHANGED <<gate, granted, watch, call>>
    BY <1>1 DEF StateArrives, OnManualState, OnValveState, Reply
  <2>2. bus' = Tail(bus) BY <2>1, Arrived, ConcatEmptySeq
  <2> QED BY <2>1, <2>2, Arrived DEF GrantInv
<1>2. CASE AutoArrives
  <2>1. /\ Arrives("auto") /\ bus' = Tail(bus) \o <<>> /\ UNCHANGED <<gate, granted, watch>>
        /\ call' = [at |-> "evaluate", vessel |-> Msg.vessel]
    BY <1>2 DEF AutoArrives, OnAutoCmd, OnValveAuto, Reply, Evaluates
  <2>2. Msg.vessel \in Vessels BY <2>1, Arrived, MessageKinds
  <2>3. call' \in Calls BY <2>1, <2>2 DEF Calls
  <2>4. bus' = Tail(bus) BY <2>1, Arrived, ConcatEmptySeq
  <2> QED BY <2>1, <2>3, <2>4, Arrived DEF GrantInv
<1>3. CASE GasArrives
  <2>1. bus' = Tail(bus) \o <<>> /\ UNCHANGED <<granted, watch, call>>
    BY <1>3 DEF GasArrives, Reply, autovalve
  <2>2. CASE Arrives("gas") /\ \E written \in BOOLEAN : OnPneumaticState(written)
    <3>1. gate' = gate BY <2>2 DEF OnPneumaticState
    <3>2. bus' = Tail(bus) BY <2>1, <2>2, Arrived, ConcatEmptySeq
    <3> QED BY <2>1, <2>2, <3>1, <3>2, Arrived DEF GrantInv
  <2>3. CASE Arrives("enable") /\ OnPneumaticControlEnable
    <3>1. gate' = Msg.on BY <2>3 DEF OnPneumaticControlEnable
    <3>2. bus' = Tail(bus) BY <2>1, <2>3, Arrived, ConcatEmptySeq
    <3>3. Msg.on \in BOOLEAN BY <2>3, Arrived, MessageKinds
    <3> QED BY <2>1, <2>3, <3>1, <3>2, <3>3, Arrived DEF GrantInv
  <2> QED BY <1>3, <2>2, <2>3 DEF GasArrives
<1>4. ASSUME NEW v \in Vessels, LevelArrives(v)
      PROVE  GrantInv'
  <2>1. /\ UNCHANGED <<bus, gate, granted, watch>>
        /\ call' = [at |-> "evaluate", vessel |-> v]
    BY <1>4 DEF LevelArrives, OnLevel, Evaluates
  <2>2. call' \in Calls BY <2>1 DEF Calls
  <2> QED BY <2>1, <2>2 DEF GrantInv
<1> QED BY <1>1, <1>2, <1>3, <1>4 DEF Deliver

(* The three parts of a call.                                              *)
LEMMA CallKinds ==
  ASSUME GrantInv
  PROVE  /\ call # NoCall => call.vessel \in Vessels
         /\ call.at \in {"set", "say"} =>
              /\ call = [at |-> call.at, vessel |-> call.vessel, open |-> call.open]
              /\ call.vessel \in Vessels /\ call.open \in BOOLEAN
         /\ call.at = "evaluate" => call.vessel \in Vessels
         /\ call = NoCall => call.at = "none"
BY DEF GrantInv, Calls, NoCall

LEMMA CallGrant ==
  ASSUME GrantInv, CallStep
  PROVE  GrantInv'
<1>1. UNCHANGED <<gate, granted, watch>>
  BY DEF CallStep, Evaluate, Look, Act, Say, driver, plcGate
<1>2. CASE Look
  <2>1. bus' = bus /\ call.vessel \in Vessels BY <1>2, CallKinds DEF Look
  <2>2. call' \in Calls BY <1>2, <2>1 DEF Look, Calls
  <2> QED BY <1>1, <2>1, <2>2 DEF GrantInv
<1>3. CASE Act
  <2>1. bus' = bus /\ call.at = "set" /\ call' = [call EXCEPT !.at = "say"]
    BY <1>3 DEF Act
  <2>2. call' = [at |-> "say", vessel |-> call.vessel, open |-> call.open]
    BY <2>1, CallKinds
  <2>3. call' \in Calls BY <2>1, <2>2, CallKinds DEF Calls
  <2> QED BY <1>1, <2>1, <2>3 DEF GrantInv
<1>4. CASE Say
  <2>1. /\ call.at = "say" /\ bus' = bus \o <<StateMsg(call.vessel, call.open)>>
        /\ call' = NoCall
    BY <1>4 DEF Say
  <2>2. bus' \in Seq(Messages) /\ Agree(bus', gate, granted)
    BY <2>1, CallKinds, StateJoins
  <2> QED BY <1>1, <2>1, <2>2 DEF GrantInv, Calls
<1> QED BY <1>2, <1>3, <1>4 DEF CallStep, Evaluate

LEMMA StepGrant == GrantInv /\ [Next]_vars => GrantInv'
<1> SUFFICES ASSUME GrantInv, [Next]_vars PROVE GrantInv' OBVIOUS
<1> USE DEF driver, plcGate, autovalve
<1>1. ASSUME NEW m \in Commands, Sends(m) PROVE GrantInv' BY <1>1, SendsGrant
<1>2. CASE Deliver BY <1>2, DeliverGrant
<1>3. CASE Senses
  BY <1>3 DEF Senses, BoardSends, GrantInv
<1>4. CASE PlcStep BY <1>4 DEF PlcStep, Scan, Poll, PollFails, GrantInv
<1>5. CASE WatchStep
  <2>1. UNCHANGED <<gate, granted, call>>
    BY <1>5 DEF WatchStep, Watch, Judge, ForceClosed, Tell, Alert
  <2>2. CASE Judge \/ ForceClosed
    <3>1. bus' = bus BY <2>2 DEF Judge, ForceClosed
    <3>2. /\ watch'.at = "judge" =>
               watch' = [at |-> "judge", left |-> watch'.left] /\ watch'.left \subseteq Vessels
          /\ watch'.at \in {"force", "tell", "alert"} =>
               /\ watch' = [at |-> watch'.at, vessel |-> watch'.vessel, left |-> watch'.left]
               /\ watch'.vessel \in Vessels /\ watch'.left \subseteq Vessels
      <4>1. CASE Judge
        <5>1. PICK v \in watch.left :
                \/ watch' = [at |-> "force", vessel |-> v, left |-> watch.left \ {v}]
                \/ watch' = [watch EXCEPT !.left = @ \ {v}]
          BY <4>1 DEF Judge
        <5>2. watch = [at |-> "judge", left |-> watch.left] /\ watch.left \subseteq Vessels
          BY <4>1 DEF Judge, GrantInv
        <5>3. CASE watch' = [at |-> "force", vessel |-> v, left |-> watch.left \ {v}]
          BY <5>2, <5>3
        <5>4. CASE watch' = [watch EXCEPT !.left = @ \ {v}]
          <6>1. watch' = [at |-> "judge", left |-> watch.left \ {v}] BY <5>2, <5>4
          <6> QED BY <5>2, <6>1
        <5> QED BY <5>1, <5>3, <5>4
      <4>2. CASE ForceClosed
        <5>1. watch.vessel \in Vessels /\ watch.left \subseteq Vessels
              /\ watch' = [watch EXCEPT !.at = "tell"]
          BY <4>2 DEF ForceClosed, GrantInv
        <5>2. watch = [at |-> "force", vessel |-> watch.vessel, left |-> watch.left]
          BY <4>2 DEF ForceClosed, GrantInv
        <5>3. watch' = [at |-> "tell", vessel |-> watch.vessel, left |-> watch.left]
          BY <5>1, <5>2
        <5> QED BY <5>1, <5>3
      <4> QED BY <2>2, <4>1, <4>2
    <3> QED BY <2>1, <3>1, <3>2 DEF GrantInv
  <2>3. CASE Tell
    <3>1. /\ watch.vessel \in Vessels /\ watch.left \subseteq Vessels
          /\ watch = [at |-> "tell", vessel |-> watch.vessel, left |-> watch.left]
          /\ bus' = bus \o <<StateMsg(watch.vessel, FALSE)>>
          /\ watch' = [watch EXCEPT !.at = "alert"]
      BY <2>3 DEF Tell, Publish, GrantInv
    <3>2. watch' = [at |-> "alert", vessel |-> watch.vessel, left |-> watch.left] BY <3>1
    <3>3. bus' \in Seq(Messages) /\ Agree(bus', gate, granted) BY <3>1, StateJoins
    <3> QED BY <2>1, <3>1, <3>2, <3>3 DEF GrantInv
  <2>4. CASE Alert
    <3>1. watch.left \subseteq Vessels /\ bus' = bus
          /\ watch' = [at |-> "judge", left |-> watch.left]
      BY <2>4 DEF Alert, GrantInv
    <3> QED BY <2>1, <3>1 DEF GrantInv
  <2> QED BY <1>5, <2>2, <2>3, <2>4 DEF WatchStep, Watch
<1>6. CASE RoundStep BY <1>6 DEF RoundStep, GrantInv
<1>7. CASE Tick
  <2>1. UNCHANGED <<bus, gate, granted, call>> /\ watch' = [at |-> "judge", left |-> Vessels]
    BY <1>7 DEF Tick, PollTick, WatchTick
  <2> QED BY <2>1 DEF GrantInv
<1>8. CASE Restart
  <2>1. /\ bus' = <<>> /\ gate' = FALSE /\ granted' = FALSE /\ watch'.at = "rest"
        /\ call' = NoCall
    BY <1>8 DEF Restart, ValvesStart, AutovalveStart, Resting
  <2>2. Agree(<<>>, FALSE, FALSE) BY DEF Agree, Follows
  <2>3. <<>> \in Seq(Messages) BY EmptySeq
  <2>4. bus' \in Seq(Messages) /\ Agree(bus', gate', granted') BY <2>1, <2>2, <2>3
  <2> QED BY <2>1, <2>4 DEF GrantInv, Calls
<1>9. CASE CallStep BY <1>9, CallGrant
<1>10. CASE UNCHANGED vars BY <1>10 DEF vars, GrantInv
<1> QED BY <1>1, <1>2, <1>3, <1>4, <1>5, <1>6, <1>7, <1>8, <1>9, <1>10 DEF Next

(* A gas valve's register changes only for a command that was sent after   *)
(* the gate had been opened in the life of this process, whatever has been *)
(* refused, restarted or queued (OnlyAfterEnable).                         *)
THEOREM GateHolds == Spec => OnlyAfterEnable
<1>1. GrantInv /\ [Next]_vars => [relayReg' # relayReg => Msg.granted]_vars
  <2> SUFFICES ASSUME GrantInv, Next, relayReg' # relayReg PROVE Msg.granted
    OBVIOUS
  <2> USE DEF driver, plcRegs
  <2>1. CASE GasArrives
    <3>1. PICK written \in BOOLEAN : Arrives("gas") /\ OnPneumaticState(written) /\ gate
      BY <2>1 DEF GasArrives, OnPneumaticState, OnPneumaticControlEnable
    <3>2. gate = TRUE BY <3>1 DEF GrantInv
    <3> QED BY <3>1, <3>2, Arrived
  <2>2. relayReg' = relayReg \/ GasArrives
    BY DEF Next, Sends, Deliver, StateArrives, AutoArrives, OnValveState, OnValveAuto,
           LevelArrives, CallStep, Senses, PlcStep, Scan, Poll, PollFails, WatchStep,
           RoundStep, Tick, PollTick, Restart, ValvesStart
  <2> QED BY <2>1, <2>2
<1> QED BY <1>1, InitGrant, StepGrant, PTL DEF Spec, OnlyAfterEnable
-----------------------------------------------------------------------------
(* What the other invariants rest on.                                      *)

(* A command of v's solenoid is on its way, or will be before its thread   *)
(* does anything else.                                                     *)
HasWord(b, v) == \E n \in 1 .. Len(b) : b[n].topic = "state" /\ b[n].vessel = v
Pending(v) == \/ HasWord(bus, v)
              \/ watch.at = "tell" /\ watch.vessel = v
              \/ call.at = "say" /\ call.vessel = v
(* A callback has still to make up its mind on v, or to act on it.         *)
Evaluating(v) == call.at \in {"evaluate", "set"} /\ call.vessel = v
(* The watchdog has looked at v since the last tick, and is through.       *)
Judged(v)  == /\ watch.at # "rest" => v \notin watch.left
              /\ ~(watch.at = "force" /\ watch.vessel = v)

Times == (0 .. Timeout + 1) \cup {Never}
States == [open : BOOLEAN, since : Times, autoOpen : BOOLEAN, autoClose : BOOLEAN,
           level : Levels, heard : BOOLEAN]
FillTypes ==
  /\ fill \in [Vessels -> States]
  /\ \A v \in Vessels : fill[v].open <=> fill[v].since # Never
  /\ air \in [Vessels -> SUBSET Levels]
  /\ desired \in [Vessels -> BOOLEAN]
  /\ autofill \in [Vessels -> [open : BOOLEAN, close : BOOLEAN]]
  /\ known \subseteq Vessels /\ settled \subseteq Vessels
  /\ openFor \in [Vessels -> Nat]
  /\ watch.at \in {"rest", "judge", "force", "tell", "alert"}
  /\ alarms \subseteq Vessels

(* Where nothing is pending for a vessel that is known, the controller     *)
(* knows what the register says, and has timed it for as long.             *)
TimesInv ==
  /\ \A v \in known : ~Pending(v) =>
       /\ fill[v].open <=> desired[v]
       /\ desired[v] => openFor[v] <= fill[v].since
  /\ \A v \in Vessels : fill[v].open /\ Judged(v) => fill[v].since <= Timeout
  /\ FillEnds

(* What a level that arrived last left behind, when it has been looked at; *)
(* what a callback acts on still holds.                                    *)
SettledInv ==
  /\ \A v \in settled : ~Evaluating(v) =>
       /\ fill[v].autoClose /\ fill[v].level >= High => ~fill[v].open
       /\ fill[v].autoOpen /\ fill[v].level < Low => fill[v].open
  /\ call.at = "set" =>
       IF call.open THEN fill[call.vessel].autoOpen /\ fill[call.vessel].level < Low
       ELSE fill[call.vessel].autoClose /\ fill[call.vessel].level >= High

FillInv == FillTypes /\ TimesInv /\ SettledInv

(* A gas valve's status is what its registers say; what a poll in which    *)
(* nothing has changed has said so far.                                    *)
Status(g) == [desired |-> Opens(g, relayReg[g]), state |-> IsOpen(g)]
Answers   == BOOLEAN \cup {Unread}
Statuses  == [desired : Answers, state : Answers]
PollTypes ==
  /\ relayReg \in [Gases -> BOOLEAN] /\ relay \in [Gases -> BOOLEAN]
  /\ shown \in [Gases -> Statuses]
  /\ \/ polling \in {Idle, Broken}
     \/ /\ polling = [at |-> polling.at, left |-> polling.left, read |-> polling.read,
                      whole |-> polling.whole]
        /\ polling.at \in {"gas", "coil", "say"}
        /\ polling.left \subseteq Gases
        /\ polling.at = "coil" =>
             \E g \in Gases \ polling.left, on \in Answers : polling.read = <<g, on>>
        /\ polling.whole \in BOOLEAN
Seen(g) ==
  IF polling.at = "coil" /\ polling.read[1] = g
  THEN polling.read[2] = Opens(g, relayReg[g])
  ELSE (polling.at \in {"gas", "coil"} /\ g \in polling.left) \/ shown[g] = Status(g)
PollInv ==
  /\ PollTypes
  /\ ~unseen /\ polling # Broken /\ (polling = Idle \/ polling.whole) =>
       /\ \A g \in Gases : Seen(g)
       /\ polling.at = "say" => polling.read = Control
       /\ polling.at = "done" => said = Control

(* What is refused was sent, and is no longer on its way.                  *)
GasIn(b) == {i \in 1 .. Len(b) : b[i].topic = "gas"}
RefusedInv ==
  /\ events \in 0 .. MaxEvents
  /\ refused \in Nat
  /\ refused + Cardinality(GasIn(bus)) <= events
  /\ said \in [enabled : BOOLEAN, refused : 0 .. MaxEvents]
  /\ polling.at = "say" => polling.read \in [enabled : BOOLEAN, refused : 0 .. MaxEvents]

(* The alerts that are active are those of the last round, of channels     *)
(* heard of; those of earlier processes are others.                        *)
AlertInv ==
  /\ found \subseteq ChannelRules /\ found \subseteq Checkable
  /\ active \cap ChannelRules = found
  /\ found \cap kept = {}
  /\ round.at \in {"check", "mark", "report"} =>
       /\ round.now \cap ChannelRules = found \ round.rules
       /\ round.rules \subseteq Checkable
  /\ round.at \in {"mark", "report"} => round.rules = {}
  /\ AlertsTell
Clocks == [sat : NotSat .. SatLimit + 1, alerted : BOOLEAN]
ClockInv ==
  /\ health \in [Channels -> [age : Int, bad : BOOLEAN] \cup {NotHeard}]
  /\ pid \in [Zones -> Clocks \cup {NotHeard}]
  /\ \A c \in Channels : health[c] # NotHeard => health[c].age \in 0 .. Oldest(c)
  /\ round.at = "check" =>
       round = [at |-> "check", rules |-> round.rules, zones |-> round.zones, now |-> round.now]
  /\ round.at \in {"mark", "report"} =>
       /\ round = [at |-> round.at, zone |-> round.zone, zones |-> round.zones, rules |-> {},
                   now |-> round.now]
       /\ round.zone \in Zones /\ pid[round.zone] # NotHeard
  /\ round.at \in {"check", "mark", "report"} =>
       round.zones \subseteq {z \in Zones : pid[z] # NotHeard}
  /\ active \subseteq raised /\ raised \subseteq ChannelRules \cup PidRules

LEMMA WordStays ==
  ASSUME NEW b \in Seq(Messages), NEW m \in Messages, NEW v, HasWord(b, v)
  PROVE  HasWord(b \o <<m>>, v)
<1>1. PICK n \in 1 .. Len(b) : b[n].topic = "state" /\ b[n].vessel = v BY DEF HasWord
<1>2. n \in 1 .. Len(b \o <<m>>) /\ (b \o <<m>>)[n] = b[n] BY ConcatProperties
<1> QED BY <1>1, <1>2 DEF HasWord

LEMMA WordJoins ==
  ASSUME NEW b \in Seq(Messages), NEW v \in Vessels, NEW open \in BOOLEAN
  PROVE  HasWord(b \o <<StateMsg(v, open)>>, v)
<1>1. StateMsg(v, open) \in Messages BY DEF Messages, Words
<1>2. /\ Len(b) + 1 \in 1 .. Len(b \o <<StateMsg(v, open)>>)
      /\ (b \o <<StateMsg(v, open)>>)[Len(b) + 1] = StateMsg(v, open)
  BY <1>1, ConcatProperties
<1> QED BY <1>2 DEF HasWord, StateMsg

LEMMA WordWaits ==
  ASSUME NEW b \in Seq(Messages), b # <<>>, NEW v, HasWord(b, v),
         ~(Head(b).topic = "state" /\ Head(b).vessel = v)
  PROVE  HasWord(Tail(b), v)
<1>1. PICK n \in 1 .. Len(b) : b[n].topic = "state" /\ b[n].vessel = v BY DEF HasWord
<1>2. n # 1 BY <1>1, HeadTailProperties
<1>3. /\ n - 1 \in 1 .. Len(Tail(b)) /\ Tail(b)[n - 1] = b[n]
  BY <1>2, HeadTailProperties
<1> QED BY <1>1, <1>3 DEF HasWord

(* What the controller makes of a vessel.                                  *)
LEMMA SetKinds ==
  ASSUME NEW s \in States, NEW open \in BOOLEAN, NEW q, q = SetValve(s, open)
  PROVE  /\ q \in States
         /\ q.open = open
         /\ q.since = IF open THEN 0 ELSE Never
         /\ q.open <=> q.since # Never
         /\ q.level = s.level
         /\ q.autoOpen = s.autoOpen /\ q.autoClose = s.autoClose
<1> DEFINE t == IF open THEN 0 ELSE Never
<1>1. q = [s EXCEPT !.open = open, !.since = t] BY DEF SetValve
<1>2. t \in Times /\ Never # 0
  BY LevelsAssumption, NeverAssumption DEF Times
<1> HIDE DEF t
<1>3. /\ q.open = open /\ q.since = t /\ q.level = s.level
      /\ q.autoOpen = s.autoOpen /\ q.autoClose = s.autoClose /\ q.heard = s.heard
      /\ q = [open |-> q.open, since |-> q.since, autoOpen |-> q.autoOpen,
              autoClose |-> q.autoClose, level |-> q.level, heard |-> q.heard]
  BY <1>1 DEF States
<1>4. /\ q.open \in BOOLEAN /\ q.since \in Times /\ q.autoOpen \in BOOLEAN
      /\ q.autoClose \in BOOLEAN /\ q.level \in Levels /\ q.heard \in BOOLEAN
  BY <1>2, <1>3 DEF States
<1>5. q \in States BY <1>3, <1>4 DEF States
<1> QED BY <1>2, <1>3, <1>5 DEF t

(* One vessel's state changes, and a word of it is on its way unless the   *)
(* valve is as it was.                                                     *)
LEMMA TouchedTimes ==
  ASSUME FillTypes, TimesInv, NEW u \in Vessels, NEW s \in States,
         fill' = [fill EXCEPT ![u] = s],
         UNCHANGED <<watch, desired, known, openFor>>,
         \A v \in Vessels : Pending(v) => Pending(v)',
         \/ (s.open <=> fill[u].open) /\ s.since = fill[u].since
         \/ Pending(u)',
         s.open => s.since = 0 \/ (fill[u].open /\ s.since = fill[u].since)
  PROVE  TimesInv'
<1>1. \A v \in known : (~Pending(v) => /\ fill[v].open <=> desired[v]
                                       /\ desired[v] => openFor[v] <= fill[v].since)'
  <2> SUFFICES ASSUME NEW v \in known, ~Pending(v)'
               PROVE  /\ fill'[v].open <=> desired[v]
                      /\ desired[v] => openFor[v] <= fill'[v].since
    OBVIOUS
  <2>1. v \in Vessels BY DEF FillTypes
  <2>2. ~Pending(v) BY <2>1
  <2>3. /\ fill[v].open <=> desired[v]
        /\ desired[v] => openFor[v] <= fill[v].since
    BY <2>2 DEF TimesInv
  <2>4. (fill'[v].open <=> fill[v].open) /\ fill'[v].since = fill[v].since
    <3>1. CASE v = u
      <4>1. fill'[v] = s BY <2>1, <3>1 DEF FillTypes
      <4>2. ~Pending(u)' BY <3>1
      <4> QED BY <3>1, <4>1, <4>2
    <3>2. CASE v # u BY <2>1, <3>2 DEF FillTypes
    <3> QED BY <3>1, <3>2
  <2> QED BY <2>3, <2>4
<1>2. \A v \in Vessels : (fill[v].open /\ Judged(v) => fill[v].since <= Timeout)'
  <2> SUFFICES ASSUME NEW v \in Vessels, fill'[v].open, Judged(v)'
               PROVE  fill'[v].since <= Timeout
    OBVIOUS
  <2>1. Judged(v) BY DEF Judged
  <2>2. CASE v # u BY <2>1, <2>2 DEF FillTypes, TimesInv
  <2>3. CASE v = u
    <3>1. fill'[v] = s BY <2>3 DEF FillTypes
    <3> QED BY <2>1, <2>3, <3>1, LevelsAssumption DEF TimesInv
  <2> QED BY <2>2, <2>3
<1> QED BY <1>1, <1>2 DEF TimesInv, FillEnds

LEMMA UntouchedTimes ==
  ASSUME FillTypes, TimesInv, UNCHANGED <<fill, watch, desired, known, openFor>>,
         \A v \in Vessels : Pending(v) => Pending(v)'
  PROVE  TimesInv'
<1>1. \A v \in known : Pending(v) => Pending(v)' BY DEF FillTypes
<1>2. \A v \in Vessels : Judged(v)' <=> Judged(v) BY DEF Judged
<1> QED BY <1>1, <1>2 DEF TimesInv, FillEnds

(* A state with a flag or the level changed.                               *)
LEMMA FlagKinds ==
  ASSUME NEW s \in States, NEW b \in BOOLEAN, NEW q,
         q = [s EXCEPT !.autoOpen = b] \/ q = [s EXCEPT !.autoClose = b]
  PROVE  q \in States /\ q.open = s.open /\ q.since = s.since
<1>1. /\ q = [open |-> q.open, since |-> q.since, autoOpen |-> q.autoOpen,
              autoClose |-> q.autoClose, level |-> q.level, heard |-> q.heard]
      /\ q.open = s.open /\ q.since = s.since
      /\ q.level = s.level /\ q.heard = s.heard
      /\ q.autoOpen \in {b, s.autoOpen} /\ q.autoClose \in {b, s.autoClose}
  BY DEF States
<1>2. /\ q.open \in BOOLEAN /\ q.since \in Times /\ q.autoOpen \in BOOLEAN
      /\ q.autoClose \in BOOLEAN /\ q.level \in Levels /\ q.heard \in BOOLEAN
  BY <1>1 DEF States
<1>3. q \in States BY <1>1, <1>2 DEF States
<1> QED BY <1>1, <1>3

LEMMA LevelKinds ==
  ASSUME NEW s \in States, NEW l \in Levels, NEW q,
         q = [s EXCEPT !.level = l, !.heard = TRUE]
  PROVE  q \in States /\ q.open = s.open /\ q.since = s.since
<1>1. /\ q = [open |-> q.open, since |-> q.since, autoOpen |-> q.autoOpen,
              autoClose |-> q.autoClose, level |-> q.level, heard |-> q.heard]
      /\ q.open = s.open /\ q.since = s.since
      /\ q.level = l /\ q.heard = TRUE
      /\ q.autoOpen = s.autoOpen /\ q.autoClose = s.autoClose
  BY DEF States
<1>2. /\ q.open \in BOOLEAN /\ q.since \in Times /\ q.autoOpen \in BOOLEAN
      /\ q.autoClose \in BOOLEAN /\ q.level \in Levels /\ q.heard \in BOOLEAN
  BY <1>1 DEF States
<1>3. q \in States BY <1>1, <1>2 DEF States
<1> QED BY <1>1, <1>3

LEMMA InitFill == Init => FillInv
<1> SUFFICES ASSUME Init PROVE FillInv OBVIOUS
<1>1. /\ fill = [v \in Vessels |-> Fresh] /\ air = [v \in Vessels |-> {}]
      /\ watch = [at |-> "rest"] /\ desired \in [Vessels -> BOOLEAN]
      /\ autofill = [v \in Vessels |-> [open |-> FALSE, close |-> FALSE]]
      /\ known = {v \in Vessels : ~desired[v]} /\ settled = {}
      /\ openFor = [v \in Vessels |-> 0] /\ call = [at |-> "none"] /\ alarms = {}
  BY VesselsAssumption DEF Init, ValvesInit, AutovalveInit, Resting, NoCall
<1>2. /\ Fresh \in States
      /\ Fresh.open = FALSE /\ Fresh.since = Never
  BY LevelsAssumption DEF Fresh, States, Times
<1>3. [open |-> FALSE, close |-> FALSE] \in [open : BOOLEAN, close : BOOLEAN] OBVIOUS
<1>4. FillTypes BY <1>1, <1>2, <1>3 DEF FillTypes
<1>5. \A v \in known : v \in Vessels /\ ~desired[v] /\ fill[v] = Fresh BY <1>1
<1>6. TimesInv BY <1>1, <1>2, <1>5 DEF TimesInv, FillEnds
<1> QED BY <1>1, <1>4, <1>6 DEF FillInv, SettledInv

LEMMA StateFill ==
  ASSUME GrantInv, FillInv, StateArrives, call = NoCall
  PROVE  FillInv'
<1> DEFINE u == Msg.vessel
           q == SetValve(fill[u], Msg.open)
<1>1. Arrives("state") /\ bus # <<>> /\ bus \in Seq(Messages)
  BY DEF StateArrives, Arrives, GrantInv
<1>2. u \in Vessels /\ Msg.open \in BOOLEAN /\ Tail(bus) \in Seq(Messages)
  BY <1>1, Arrived, MessageKinds
<1>3. /\ fill' = [fill EXCEPT ![u] = q]
      /\ bus' = Tail(bus) /\ UNCHANGED <<air, call, watch, alarms, autofill>>
      /\ settled' = settled \ {u}
  <2>1. bus' = Tail(bus) \o <<>> BY DEF StateArrives, OnManualState, Reply
  <2> QED BY <1>2, <2>1, ConcatEmptySeq DEF StateArrives, OnManualState, OnValveState
<1>4. PICK written \in BOOLEAN :
        /\ desired' = IF written THEN [desired EXCEPT ![u] = Msg.open] ELSE desired
        /\ known' = IF written THEN known \cup {u} ELSE known \ {u}
        /\ openFor' = IF written /\ Msg.open THEN [openFor EXCEPT ![u] = 0] ELSE openFor
  BY DEF StateArrives, OnValveState
<1>5. FillTypes BY DEF FillInv
<1>6. /\ q \in States /\ q.open = Msg.open
      /\ q.since = IF Msg.open THEN 0 ELSE Never
      /\ q.open <=> q.since # Never
  <2>1. fill[u] \in States BY <1>2, <1>5 DEF FillTypes
  <2>2. q = SetValve(fill[u], Msg.open) OBVIOUS
  <2> HIDE DEF q
  <2> QED BY <1>2, <2>1, <2>2, SetKinds
<1>7. \A v \in Vessels : v # u /\ Pending(v) => Pending(v)'
  BY <1>1, <1>3, WordWaits DEF Pending, Msg
<1>8. /\ fill'[u] = q
      /\ \A v \in Vessels : v # u => /\ fill'[v] = fill[v] /\ desired'[v] = desired[v]
                                     /\ openFor'[v] = openFor[v]
  BY <1>2, <1>3, <1>4, <1>5 DEF FillTypes
<1>9. u \in known' => desired'[u] = Msg.open /\ (Msg.open => openFor'[u] = 0)
  BY <1>2, <1>4, <1>5 DEF FillTypes
<1> HIDE DEF u, q
<1>10. FillTypes' BY <1>2, <1>3, <1>4, <1>5, <1>6, <1>8 DEF FillTypes
<1>11. TimesInv'
  <2>1. \A v \in known' : ~Pending(v)' =>
          /\ fill'[v].open <=> desired'[v]
          /\ desired'[v] => openFor'[v] <= fill'[v].since
    <3> SUFFICES ASSUME NEW v \in known', ~Pending(v)'
                 PROVE  /\ fill'[v].open <=> desired'[v]
                        /\ desired'[v] => openFor'[v] <= fill'[v].since
      OBVIOUS
    <3>1. CASE v = u BY <1>6, <1>8, <1>9, <3>1
    <3>2. CASE v # u
      <4>1. v \in known /\ v \in Vessels BY <1>4, <1>5, <3>2 DEF FillTypes
      <4>2. ~Pending(v) BY <1>7, <3>2, <4>1
      <4> QED BY <1>8, <3>2, <4>1, <4>2 DEF FillInv, TimesInv
    <3> QED BY <3>1, <3>2
  <2>2. \A v \in Vessels : fill'[v].open /\ Judged(v)' => fill'[v].since <= Timeout
    <3> SUFFICES ASSUME NEW v \in Vessels, fill'[v].open, Judged(v)'
                 PROVE  fill'[v].since <= Timeout
      OBVIOUS
    <3>1. CASE v = u BY <1>6, <1>8, <3>1, LevelsAssumption
    <3>2. CASE v # u
      <4>1. Judged(v) BY <1>3 DEF Judged
      <4> QED BY <1>8, <3>2, <4>1 DEF FillInv, TimesInv
    <3> QED BY <3>1, <3>2
  <2>3. \A v \in known' : desired'[v] => openFor'[v] <= Timeout + 1
    <3> SUFFICES ASSUME NEW v \in known', desired'[v] PROVE openFor'[v] <= Timeout + 1
      OBVIOUS
    <3>1. CASE v = u BY <1>9, <3>1, LevelsAssumption
    <3>2. CASE v # u
      <4>1. v \in known /\ v \in Vessels BY <1>4, <1>5, <3>2 DEF FillTypes
      <4> QED BY <1>8, <3>2, <4>1 DEF FillInv, TimesInv, FillEnds
    <3> QED BY <3>1, <3>2
  <2> QED BY <2>1, <2>2, <2>3 DEF TimesInv, FillEnds
<1>12. SettledInv' BY <1>3, <1>5, <1>8 DEF FillInv, SettledInv, FillTypes, Evaluating, NoCall
<1> QED BY <1>10, <1>11, <1>12 DEF FillInv

(* A callback has changed a level or a flag, and is yet to evaluate it.    *)
LEMMA ToEvaluate ==
  ASSUME GrantInv, FillInv, call = NoCall, NEW u \in Vessels, NEW s \in States,
         fill' = [fill EXCEPT ![u] = s], s.open = fill[u].open, s.since = fill[u].since,
         call' = [at |-> "evaluate", vessel |-> u],
         UNCHANGED <<air, watch, alarms, desired, known, openFor>>,
         autofill' \in [Vessels -> [open : BOOLEAN, close : BOOLEAN]],
         settled' \in {settled, settled \cup {u}},
         \A v \in Vessels : HasWord(bus, v) => HasWord(bus', v)
  PROVE  FillInv'
<1>1. FillTypes /\ TimesInv /\ SettledInv BY DEF FillInv
<1>2. FillTypes' BY <1>1 DEF FillTypes
<1>3. \A v \in Vessels : Pending(v) => Pending(v)' BY DEF Pending, NoCall
<1>4. s.open => s.since = 0 \/ (fill[u].open /\ s.since = fill[u].since) OBVIOUS
<1>5. TimesInv' BY <1>1, <1>3, <1>4, TouchedTimes
<1>6. \A v \in settled' : ~Evaluating(v)' =>
        v \in settled /\ fill'[v] = fill[v] /\ ~Evaluating(v)
  BY <1>1 DEF Evaluating, NoCall, FillTypes
<1>7. SettledInv' BY <1>1, <1>6 DEF SettledInv
<1> QED BY <1>2, <1>5, <1>7 DEF FillInv

LEMMA AutoFill ==
  ASSUME GrantInv, FillInv, AutoArrives, call = NoCall
  PROVE  FillInv'
<1> DEFINE u == Msg.vessel
<1>1. Arrives("auto") /\ bus # <<>> /\ bus \in Seq(Messages)
  BY DEF AutoArrives, Arrives, GrantInv
<1>2. u \in Vessels /\ Msg.on \in BOOLEAN /\ Tail(bus) \in Seq(Messages) /\ Msg.topic = "auto"
  BY <1>1, Arrived, MessageKinds
<1>3. /\ fill' = IF Msg.which = "open" THEN [fill EXCEPT ![u].autoOpen = Msg.on]
                 ELSE [fill EXCEPT ![u].autoClose = Msg.on]
      /\ call' = [at |-> "evaluate", vessel |-> u]
      /\ bus' = Tail(bus) \o <<>>
      /\ UNCHANGED <<air, watch, alarms, desired, known, openFor, settled>>
  BY DEF AutoArrives, OnAutoCmd, OnValveAuto, Reply, Evaluates, fills
<1>4. FillTypes BY DEF FillInv
<1>5. autofill' \in [Vessels -> [open : BOOLEAN, close : BOOLEAN]]
  <2>1. PICK written \in BOOLEAN :
          autofill' = IF written THEN [autofill EXCEPT ![u][Msg.which] = Msg.on] ELSE autofill
    BY DEF AutoArrives, OnValveAuto
  <2>2. \A w : [autofill[u] EXCEPT ![w] = Msg.on] \in [open : BOOLEAN, close : BOOLEAN]
    BY <1>2, <1>4 DEF FillTypes
  <2> QED BY <1>2, <1>4, <2>1, <2>2 DEF FillTypes
<1>6. fill[u] \in States BY <1>2, <1>4 DEF FillTypes
<1>7. PICK s : s = IF Msg.which = "open" THEN [fill[u] EXCEPT !.autoOpen = Msg.on]
                   ELSE [fill[u] EXCEPT !.autoClose = Msg.on]
  OBVIOUS
<1>8. s \in States /\ s.open = fill[u].open /\ s.since = fill[u].since
  BY <1>2, <1>6, <1>7, FlagKinds
<1>9. fill' = [fill EXCEPT ![u] = s] BY <1>3, <1>7
<1>10. \A v \in Vessels : HasWord(bus, v) => HasWord(bus', v)
  <2>1. bus' = Tail(bus) BY <1>2, <1>3, ConcatEmptySeq
  <2> QED BY <1>1, <1>2, <2>1, WordWaits DEF Msg
<1> HIDE DEF u
<1> QED BY <1>2, <1>3, <1>5, <1>8, <1>9, <1>10, ToEvaluate

LEMMA LevelFill ==
  ASSUME GrantInv, FillInv, NEW u \in Vessels, LevelArrives(u), call = NoCall
  PROVE  FillInv'
<1>1. FillTypes BY DEF FillInv
<1>2. PICK l \in Levels : fill' = [fill EXCEPT ![u].level = l, ![u].heard = TRUE]
  <2>1. PICK raw \in air[u] : \E l \in Filtered(fill[u], raw) :
          fill' = [fill EXCEPT ![u].level = l, ![u].heard = TRUE]
    BY DEF LevelArrives, OnLevel
  <2>2. Filtered(fill[u], raw) \subseteq Levels BY <1>1 DEF Filtered, FillTypes
  <2> QED BY <2>1, <2>2
<1>3. /\ UNCHANGED <<bus, air, watch, alarms, desired, autofill, known, openFor>>
      /\ settled' = settled \cup {u}
      /\ call' = [at |-> "evaluate", vessel |-> u]
  BY DEF LevelArrives, OnLevel, Evaluates, driver, plcRegs
<1>4. fill[u] \in States BY <1>1 DEF FillTypes
<1>5. PICK s : s = [fill[u] EXCEPT !.level = l, !.heard = TRUE] OBVIOUS
<1>6. s \in States /\ s.open = fill[u].open /\ s.since = fill[u].since
  BY <1>4, <1>5, LevelKinds
<1>7. fill' = [fill EXCEPT ![u] = s] BY <1>1, <1>2, <1>5 DEF FillTypes
<1>8. autofill' \in [Vessels -> [open : BOOLEAN, close : BOOLEAN]]
  BY <1>1, <1>3 DEF FillTypes
<1> QED BY <1>3, <1>6, <1>7, <1>8, ToEvaluate

(* What is left of a callback: it looks, acts and says so.                 *)
LEMMA CallFill ==
  ASSUME GrantInv, FillInv, CallStep
  PROVE  FillInv'
<1>1. FillTypes /\ TimesInv /\ SettledInv BY DEF FillInv
<1>2. UNCHANGED <<air, watch, alarms, desired, autofill, known, openFor, settled>>
  BY DEF CallStep, Evaluate, Look, Act, Say, driver, plcRegs, fills
<1>3. CASE Look
  <2> DEFINE u == call.vessel
  <2>1. /\ UNCHANGED <<bus, fill>> /\ call.at = "evaluate" /\ u \in Vessels
        /\ \/ call' = [at |-> "set", vessel |-> u, open |-> FALSE] /\ Full(fill[u])
           \/ call' = [at |-> "set", vessel |-> u, open |-> TRUE] /\ Empty(fill[u])
           \/ call' = [at |-> "none"] /\ ~Full(fill[u]) /\ ~Empty(fill[u])
    BY <1>3, CallKinds DEF Look, NoCall
  <2> HIDE DEF u
  <2>2. FillTypes' BY <1>1, <1>2, <2>1 DEF FillTypes
  <2>3. \A v \in Vessels : Pending(v) => Pending(v)' BY <1>2, <2>1 DEF Pending
  <2>4. TimesInv' BY <1>1, <1>2, <2>1, <2>3, UntouchedTimes
  <2>5. \A v : Evaluating(v) <=> v = u BY <2>1 DEF Evaluating, u
  <2>6. \A v \in settled : ~Evaluating(v)' =>
          /\ fill[v].autoClose /\ fill[v].level >= High => ~fill[v].open
          /\ fill[v].autoOpen /\ fill[v].level < Low => fill[v].open
    <3> SUFFICES ASSUME NEW v \in settled, ~Evaluating(v)'
                 PROVE  /\ fill[v].autoClose /\ fill[v].level >= High => ~fill[v].open
                        /\ fill[v].autoOpen /\ fill[v].level < Low => fill[v].open
      OBVIOUS
    <3>1. CASE v # u BY <1>1, <2>5, <3>1 DEF SettledInv
    <3>2. CASE v = u
      <4>1. ~Full(fill[u]) /\ ~Empty(fill[u]) BY <2>1, <3>2 DEF Evaluating
      <4> QED BY <3>2, <4>1 DEF Full, Empty
    <3> QED BY <3>1, <3>2
  <2>7. (call.at = "set" =>
           IF call.open THEN fill[call.vessel].autoOpen /\ fill[call.vessel].level < Low
           ELSE fill[call.vessel].autoClose /\ fill[call.vessel].level >= High)'
    BY <2>1 DEF Full, Empty
  <2>8. SettledInv' BY <1>2, <2>1, <2>6, <2>7 DEF SettledInv
  <2> QED BY <2>2, <2>4, <2>8 DEF FillInv
<1>4. CASE Act
  <2>0. PICK u, q : u = call.vessel /\ q = SetValve(fill[u], call.open) OBVIOUS
  <2>1. /\ bus' = bus /\ call.at = "set" /\ u \in Vessels /\ call.open \in BOOLEAN
        /\ call = [at |-> "set", vessel |-> u, open |-> call.open]
        /\ fill' = [fill EXCEPT ![u] = q] /\ call' = [call EXCEPT !.at = "say"]
    BY <1>4, <2>0, CallKinds DEF Act
  <2>2. call' = [at |-> "say", vessel |-> u, open |-> call.open] BY <2>1
  <2>3. /\ q \in States /\ q.open = call.open
        /\ q.since = IF call.open THEN 0 ELSE Never
        /\ q.open <=> q.since # Never
        /\ q.level = fill[u].level
        /\ q.autoOpen = fill[u].autoOpen /\ q.autoClose = fill[u].autoClose
    <3>1. PICK f \in States : f = fill[u] BY <1>1, <2>1 DEF FillTypes
    <3>2. PICK p : p = SetValve(f, call.open) OBVIOUS
    <3>3. /\ p \in States /\ p.open = call.open
          /\ p.since = IF call.open THEN 0 ELSE Never
          /\ p.open <=> p.since # Never
          /\ p.level = f.level
          /\ p.autoOpen = f.autoOpen /\ p.autoClose = f.autoClose
      BY <2>1, <3>2, SetKinds
    <3>4. p = q BY <2>0, <3>1, <3>2
    <3> QED BY <3>1, <3>3, <3>4
  <2>4. /\ IF call.open THEN fill[u].autoOpen /\ fill[u].level < Low
           ELSE fill[u].autoClose /\ fill[u].level >= High
        /\ fill[u].level \in Nat /\ Low \in Int /\ High \in Int /\ Low <= High
    BY <1>1, <2>0, <2>1, LevelsAssumption, ThresholdsAssumption DEF SettledInv, FillTypes, States
  <2>5. fill'[u] = q /\ \A v \in Vessels : v # u => fill'[v] = fill[v]
    BY <1>1, <2>1 DEF FillTypes
  <2>6. FillTypes' BY <1>1, <1>2, <2>1, <2>3, <2>5 DEF FillTypes
  <2>7. (\A v \in Vessels : Pending(v) => Pending(v)') /\ Pending(u)'
    <3>1. bus' = bus /\ watch' = watch /\ call.at # "say" BY <1>2, <2>1
    <3>2. call'.at = "say" /\ call'.vessel = u BY <2>2
    <3> QED BY <3>1, <3>2 DEF Pending
  <2>8. q.open => q.since = 0 BY <2>3
  <2>9. TimesInv'
    <3>1. u \in Vessels /\ q \in States /\ fill' = [fill EXCEPT ![u] = q] BY <2>1, <2>3
    <3> QED BY <1>1, <1>2, <2>7, <2>8, <3>1, TouchedTimes
  <2>10. \A v : Evaluating(v) <=> v = u BY <2>1 DEF Evaluating
  <2>11. \A v \in settled : v \in Vessels BY <1>1 DEF FillTypes
  <2>12. \A v \in settled :
           /\ fill'[v].autoClose /\ fill'[v].level >= High => ~fill'[v].open
           /\ fill'[v].autoOpen /\ fill'[v].level < Low => fill'[v].open
    BY <1>1, <2>3, <2>4, <2>5, <2>10, <2>11 DEF SettledInv
  <2>13. SettledInv' BY <1>2, <2>2, <2>12 DEF SettledInv
  <2> QED BY <2>6, <2>9, <2>13 DEF FillInv
<1>5. CASE Say
  <2>1. /\ fill' = fill /\ call.at = "say" /\ call' = [at |-> "none"]
        /\ bus' = bus \o <<StateMsg(call.vessel, call.open)>>
        /\ call.vessel \in Vessels /\ call.open \in BOOLEAN
        /\ bus \in Seq(Messages) /\ StateMsg(call.vessel, call.open) \in Messages
    BY <1>5, CallKinds, StateJoins DEF Say, NoCall, GrantInv
  <2>2. FillTypes' BY <1>1, <1>2, <2>1 DEF FillTypes
  <2>3. (\A v : HasWord(bus, v) => HasWord(bus', v)) /\ HasWord(bus', call.vessel)
    BY <2>1, WordStays, WordJoins
  <2>4. \A v \in Vessels : Pending(v) => Pending(v)' BY <1>2, <2>1, <2>3 DEF Pending
  <2>5. TimesInv' BY <1>1, <1>2, <2>1, <2>4, UntouchedTimes
  <2>6. \A v : ~Evaluating(v) BY <2>1 DEF Evaluating
  <2>7. SettledInv' BY <1>1, <1>2, <2>1, <2>6 DEF SettledInv
  <2> QED BY <2>2, <2>5, <2>7 DEF FillInv
<1> QED BY <1>3, <1>4, <1>5 DEF CallStep, Evaluate

(* The watchdog: it finds a vessel open for too long, closes it, and says  *)
(* so.                                                                     *)
LEMMA WatchFill ==
  ASSUME GrantInv, FillInv, WatchStep
  PROVE  FillInv'
<1>1. FillTypes /\ TimesInv /\ SettledInv BY DEF FillInv
<1>2. UNCHANGED <<call, desired, autofill, known, openFor>>
      /\ settled' = IF watch.at = "force" THEN settled \ {watch.vessel} ELSE settled
  BY DEF WatchStep, Watch, Judge, ForceClosed, Tell, Alert, driver, plcRegs
<1>3. CASE Judge
  <2>1. PICK u \in watch.left :
          watch' = IF fill[u].open /\ fill[u].since # Never /\ fill[u].since > Timeout
                   THEN [at |-> "force", vessel |-> u, left |-> watch.left \ {u}]
                   ELSE [watch EXCEPT !.left = @ \ {u}]
    BY <1>3 DEF Judge
  <2>2. /\ UNCHANGED <<fill, air, bus, alarms, settled>> /\ watch.at = "judge"
        /\ watch = [at |-> "judge", left |-> watch.left] /\ watch.left \subseteq Vessels
    BY <1>2, <1>3 DEF Judge, GrantInv
  <2>3. \/ /\ watch' = [at |-> "force", vessel |-> u, left |-> watch.left \ {u}]
        \/ /\ watch' = [at |-> "judge", left |-> watch.left \ {u}]
           /\ fill[u].open => fill[u].since <= Timeout
    <3>1. CASE fill[u].open /\ fill[u].since # Never /\ fill[u].since > Timeout
      BY <2>1, <3>1
    <3>2. CASE ~(fill[u].open /\ fill[u].since # Never /\ fill[u].since > Timeout)
      <4>1. watch' = [watch EXCEPT !.left = @ \ {u}] BY <2>1, <3>2
      <4>2. watch' = [at |-> "judge", left |-> watch.left \ {u}] BY <2>2, <4>1
      <4>3. fill[u].open => fill[u].since \in 0 .. Timeout + 1
        BY <1>1, <2>2 DEF FillTypes, States, Times
      <4> QED BY <3>2, <4>2, <4>3, <1>1, <2>2, LevelsAssumption DEF FillTypes
    <3> QED BY <3>1, <3>2
  <2>4. FillTypes' BY <1>1, <1>2, <2>2, <2>3 DEF FillTypes
  <2>5. \A v \in known : Pending(v) => Pending(v)' BY <1>2, <2>2 DEF Pending
  <2>6. \A v \in Vessels : Judged(v)' => Judged(v) \/ (v = u /\ watch'.at = "judge")
    BY <2>2, <2>3 DEF Judged
  <2>7. TimesInv' BY <1>1, <1>2, <2>2, <2>3, <2>5, <2>6 DEF TimesInv, FillEnds
  <2>8. SettledInv' BY <1>1, <1>2, <2>2 DEF SettledInv, Evaluating
  <2> QED BY <2>4, <2>7, <2>8 DEF FillInv
<1>4. CASE ForceClosed
  <2> DEFINE u == watch.vessel
             q == SetValve(fill[u], FALSE)
  <2>1. /\ u \in Vessels /\ watch.at = "force"
        /\ fill' = [fill EXCEPT ![u] = q] /\ UNCHANGED <<bus, air, alarms>>
        /\ watch' = [watch EXCEPT !.at = "tell"]
        /\ settled' = settled \ {u}
    BY <1>2, <1>4 DEF ForceClosed, GrantInv
  <2>2. /\ watch' = [at |-> "tell", vessel |-> u, left |-> watch.left]
    BY <2>1 DEF GrantInv
  <2>3. /\ q \in States /\ q.open = FALSE /\ q.since = Never
        /\ q.level = fill[u].level
        /\ q.autoOpen = fill[u].autoOpen /\ q.autoClose = fill[u].autoClose
    <3>1. fill[u] \in States BY <1>1, <2>1 DEF FillTypes
    <3>2. PICK f \in States : f = fill[u] BY <3>1
    <3>3. PICK p : p = SetValve(f, FALSE) OBVIOUS
    <3>4. /\ p \in States /\ p.open = FALSE /\ p.since = Never /\ p.level = f.level
          /\ p.autoOpen = f.autoOpen /\ p.autoClose = f.autoClose
      BY <3>3, SetKinds
    <3>5. q = p BY <3>2, <3>3
    <3> HIDE DEF q
    <3> QED BY <3>2, <3>4, <3>5
  <2> HIDE DEF u, q
  <2>4. FillTypes' BY <1>1, <1>2, <2>1, <2>2, <2>3 DEF FillTypes
  <2>5. \A v : Pending(v)' <=> (\/ HasWord(bus, v) \/ v = u
                               \/ (call.at = "say" /\ call.vessel = v))
    BY <1>2, <2>1, <2>2 DEF Pending
  <2>6. \A v \in Vessels : v # u => (Judged(v)' <=> Judged(v)) BY <2>1, <2>2 DEF Judged, u
  <2>7. fill'[u].open = FALSE /\ \A v \in Vessels : v # u => fill'[v] = fill[v]
    BY <1>1, <2>1, <2>3 DEF FillTypes
  <2>8. \A v \in known : ~Pending(v)' => v # u /\ v \in Vessels /\ ~Pending(v)
    BY <1>1, <2>1, <2>5 DEF Pending, FillTypes
  <2>9. \A v \in known : ~Pending(v)' =>
          /\ fill'[v].open <=> desired[v]
          /\ desired[v] => openFor[v] <= fill'[v].since
    BY <1>1, <2>7, <2>8 DEF TimesInv
  <2>10. \A v \in Vessels : fill'[v].open /\ Judged(v)' => fill'[v].since <= Timeout
    BY <1>1, <2>6, <2>7 DEF TimesInv
  <2>11. TimesInv' BY <1>1, <1>2, <2>9, <2>10 DEF TimesInv, FillEnds
  <2>12. SettledInv'
    <3>1. \A v \in settled' : v \in settled /\ v # u /\ fill'[v] = fill[v]
      BY <1>1, <2>1, <2>7 DEF FillTypes
    <3>2. \A v \in Vessels : /\ fill'[v].level = fill[v].level
                             /\ fill'[v].autoOpen = fill[v].autoOpen
                             /\ fill'[v].autoClose = fill[v].autoClose
      BY <1>1, <2>1, <2>3, <2>7 DEF FillTypes
    <3>3. call.at = "set" => call.vessel \in Vessels BY CallKinds
    <3>4. \A v : Evaluating(v)' <=> Evaluating(v) BY <1>2 DEF Evaluating
    <3> QED BY <1>1, <1>2, <3>1, <3>2, <3>3, <3>4 DEF SettledInv
  <2> QED BY <2>4, <2>11, <2>12 DEF FillInv
<1>5. CASE Tell
  <2>1. /\ UNCHANGED <<fill, air, alarms, settled>> /\ watch.at = "tell"
        /\ watch.vessel \in Vessels
        /\ watch' = [at |-> "alert", vessel |-> watch.vessel, left |-> watch.left]
        /\ bus' = bus \o <<StateMsg(watch.vessel, FALSE)>> /\ bus \in Seq(Messages)
    <3>1. watch = [at |-> "tell", vessel |-> watch.vessel, left |-> watch.left]
          /\ watch' = [watch EXCEPT !.at = "alert"]
      BY <1>5 DEF Tell, GrantInv
    <3>2. watch' = [at |-> "alert", vessel |-> watch.vessel, left |-> watch.left] BY <3>1
    <3> QED BY <1>2, <1>5, <3>2 DEF Tell, Publish, GrantInv
  <2>2. FillTypes' BY <1>1, <1>2, <2>1 DEF FillTypes
  <2>3. \A v : Pending(v) => Pending(v)'
    <3>1. \A open \in BOOLEAN : StateMsg(watch.vessel, open) \in Messages
      BY <2>1 DEF Messages, Words
    <3> QED BY <1>2, <2>1, <3>1, WordStays, WordJoins DEF Pending
  <2>4. \A v : Judged(v)' <=> Judged(v) BY <2>1 DEF Judged
  <2>5. TimesInv' BY <1>1, <1>2, <2>1, <2>3, <2>4 DEF TimesInv, FillEnds
  <2>6. SettledInv' BY <1>1, <1>2, <2>1 DEF SettledInv, Evaluating
  <2> QED BY <2>2, <2>5, <2>6 DEF FillInv
<1>6. CASE Alert
  <2>1. /\ UNCHANGED <<bus, fill, air, settled>> /\ watch.at = "alert"
        /\ watch' = [at |-> "judge", left |-> watch.left]
        /\ alarms' \subseteq Vessels
    BY <1>1, <1>2, <1>6 DEF Alert, GrantInv, FillTypes
  <2>2. FillTypes' BY <1>1, <1>2, <2>1 DEF FillTypes
  <2>3. \A v : Pending(v) => Pending(v)' BY <1>2, <2>1 DEF Pending
  <2>4. \A v : Judged(v)' <=> Judged(v) BY <2>1 DEF Judged
  <2>5. TimesInv' BY <1>1, <1>2, <2>1, <2>3, <2>4 DEF TimesInv, FillEnds
  <2>6. SettledInv' BY <1>1, <1>2, <2>1 DEF SettledInv, Evaluating
  <2> QED BY <2>2, <2>5, <2>6 DEF FillInv
<1> QED BY <1>3, <1>4, <1>5, <1>6 DEF WatchStep, Watch

(* A period passes: nothing is pending, and every vessel has been judged.  *)
LEMMA TickFill ==
  ASSUME GrantInv, FillInv, Tick
  PROVE  FillInv'
<1>1. FillTypes /\ TimesInv BY DEF FillInv
<1>2. /\ bus = <<>> /\ bus' = bus /\ WatchDone /\ call = NoCall /\ call' = call
      /\ fill' = [v \in Vessels |-> Older(fill[v])]
      /\ watch' = [at |-> "judge", left |-> Vessels]
      /\ UNCHANGED <<air, alarms, desired, autofill, known>> /\ settled' = {}
      /\ openFor' = [v \in Vessels |->
           IF desired[v] /\ openFor[v] <= Timeout + 1 THEN openFor[v] + 1 ELSE openFor[v]]
  BY DEF Tick, WatchTick, PollTick, plcRegs
<1>3. \A v \in Vessels : ~Pending(v) /\ Judged(v)
  <2>1. ~\E n \in 1 .. Len(bus) : TRUE BY <1>2
  <2> QED BY <1>2, <2>1 DEF Pending, HasWord, Judged, WatchDone, NoCall
<1>4. \A v \in Vessels :
        /\ fill'[v] \in States
        /\ fill'[v].open = fill[v].open
        /\ fill'[v].open <=> fill'[v].since # Never
        /\ fill[v].open => fill'[v].since = fill[v].since + 1
  <2> SUFFICES ASSUME NEW v \in Vessels
               PROVE  /\ fill'[v] \in States
                      /\ fill'[v].open = fill[v].open
                      /\ fill'[v].open <=> fill'[v].since # Never
                      /\ fill[v].open => fill'[v].since = fill[v].since + 1
    OBVIOUS
  <2>1. fill[v] \in States /\ (fill[v].open <=> fill[v].since # Never) BY <1>1 DEF FillTypes
  <2>2. PICK r : r = fill[v] OBVIOUS
  <2>3. PICK q : q = fill'[v] OBVIOUS
  <2>4. q = Older(r) BY <1>2, <2>2, <2>3
  <2>5. CASE ~r.open
    BY <2>1, <2>2, <2>3, <2>4, <2>5 DEF Older
  <2>6. CASE r.open
    <3>1. r.since <= Timeout /\ r.since \in Nat
      <4>1. r.since \in 0 .. Timeout + 1 BY <2>1, <2>2, <2>6 DEF States, Times
      <4> QED BY <1>1, <1>3, <2>2, <2>6, <4>1, LevelsAssumption DEF TimesInv
    <3>2. q = [r EXCEPT !.since = @ + 1]
      <4>1. r.since # Never BY <2>1, <2>2, <2>6
      <4>2. ~(r.since > Timeout) BY <3>1, LevelsAssumption
      <4> QED BY <2>4, <4>1, <4>2 DEF Older
    <3>3. /\ q = [open |-> q.open, since |-> q.since, autoOpen |-> q.autoOpen,
                  autoClose |-> q.autoClose, level |-> q.level, heard |-> q.heard]
          /\ q.open = r.open /\ q.since = r.since + 1 /\ q.level = r.level
          /\ q.autoOpen = r.autoOpen /\ q.autoClose = r.autoClose /\ q.heard = r.heard
      BY <2>1, <2>2, <3>2 DEF States
    <3>4. q.since \in 0 .. Timeout + 1 /\ q.since # Never
      BY <3>1, <3>3, LevelsAssumption, NeverAssumption
    <3>5. q \in States BY <2>1, <2>2, <3>3, <3>4 DEF States, Times
    <3> QED BY <2>2, <2>3, <2>6, <3>3, <3>4, <3>5
  <2> QED BY <2>5, <2>6
<1>5. \A v \in Vessels : openFor'[v] \in Nat
  BY <1>1, <1>2 DEF FillTypes
<1>6. openFor' \in [Vessels -> Nat] BY <1>2, <1>5
<1>7. fill' \in [Vessels -> States] BY <1>2, <1>4
<1>8. FillTypes' BY <1>1, <1>2, <1>4, <1>6, <1>7 DEF FillTypes
<1>9. ASSUME NEW v \in known, desired[v]
      PROVE  /\ fill'[v].open
             /\ openFor'[v] <= fill'[v].since /\ openFor'[v] <= Timeout + 1
  <2>1. v \in Vessels BY <1>1 DEF FillTypes
  <2>2. fill[v].open /\ openFor[v] <= fill[v].since /\ fill[v].since <= Timeout
    BY <1>1, <1>3, <1>9, <2>1 DEF TimesInv
  <2>3. fill[v].since \in Nat /\ openFor[v] \in Nat
    <3>1. fill[v].since \in 0 .. Timeout + 1
      BY <1>1, <2>1, <2>2 DEF FillTypes, States, Times
    <3> QED BY <1>1, <2>1, <3>1, LevelsAssumption DEF FillTypes
  <2>4. openFor'[v] = openFor[v] + 1 BY <1>2, <1>9, <2>1, <2>2, <2>3, LevelsAssumption
  <2> QED BY <1>4, <2>1, <2>2, <2>3, <2>4, LevelsAssumption
<1>10. \A v \in known : fill'[v].open <=> desired[v]
  BY <1>1, <1>3, <1>4 DEF TimesInv, FillTypes
<1>11. \A v \in Vessels : ~Judged(v)' BY <1>2 DEF Judged
<1>12. TimesInv' BY <1>2, <1>9, <1>10, <1>11 DEF TimesInv, FillEnds
<1> QED BY <1>2, <1>8, <1>12 DEF FillInv, SettledInv, NoCall

LEMMA RestartFill ==
  ASSUME GrantInv, FillInv, Restart
  PROVE  FillInv'
<1>1. /\ fill' = [v \in Vessels |-> Fresh] /\ air' = [v \in Vessels |-> {}]
      /\ watch' = [at |-> "rest"] /\ call' = [at |-> "none"]
      /\ UNCHANGED <<alarms, desired, autofill, openFor>>
      /\ known' = {v \in Vessels : ~desired[v]} /\ settled' = {}
  BY DEF Restart, ValvesStart, AutovalveStart, Resting, NoCall, plcRegs
<1>2. /\ Fresh \in States
      /\ Fresh.open = FALSE /\ Fresh.since = Never
  BY LevelsAssumption DEF Fresh, States, Times
<1>3. FillTypes' BY <1>1, <1>2 DEF FillInv, FillTypes
<1>4. \A v \in known' : v \in Vessels /\ ~desired'[v] /\ fill'[v] = Fresh BY <1>1
<1>5. TimesInv' BY <1>1, <1>2, <1>4 DEF TimesInv, FillEnds
<1> QED BY <1>1, <1>3, <1>5 DEF FillInv, SettledInv

LEMMA StepFill == GrantInv /\ FillInv /\ [Next]_vars => FillInv'
<1> SUFFICES ASSUME GrantInv, FillInv, [Next]_vars PROVE FillInv' OBVIOUS
<1> DEFINE Kept == UNCHANGED <<fill, call, watch, alarms, desired, autofill, known, openFor,
                              settled>>
<1>1. FillTypes /\ TimesInv /\ SettledInv BY DEF FillInv
<1>2. ASSUME Kept, air' \in [Vessels -> SUBSET Levels],
             \A v \in Vessels : HasWord(bus, v) => HasWord(bus', v)
      PROVE  FillInv'
  <2>1. FillTypes' BY <1>1, <1>2 DEF FillTypes
  <2>2. \A v \in Vessels : Pending(v) => Pending(v)' BY <1>2 DEF Pending
  <2>3. TimesInv' BY <1>1, <1>2, <2>2, UntouchedTimes
  <2>4. SettledInv' BY <1>1, <1>2 DEF SettledInv, Evaluating
  <2> QED BY <2>1, <2>3, <2>4 DEF FillInv
<1>3. air \in [Vessels -> SUBSET Levels] BY <1>1 DEF FillTypes
<1> USE DEF driver, plcRegs, autovalve, fills
<1>4. ASSUME NEW m \in Commands, Sends(m) PROVE FillInv'
  <2>1. bus' = bus \o <<Marked(m)>> /\ bus \in Seq(Messages)
    BY <1>4 DEF Sends, Publish, GrantInv
  <2>2. Marked(m) \in Messages
    <3>1. Marked(m) = MarkedAs(m, granted) BY DEF Marked, MarkedAs
    <3> QED BY <3>1 DEF Messages, GrantInv
  <2>3. \A v : HasWord(bus, v) => HasWord(bus', v) BY <2>1, <2>2, WordStays
  <2>4. Kept /\ air' = air BY <1>4 DEF Sends
  <2> QED BY <1>2, <1>3, <2>3, <2>4
<1>5. CASE StateArrives /\ call = NoCall BY <1>5, StateFill
<1>6. CASE AutoArrives /\ call = NoCall BY <1>6, AutoFill
<1>7. CASE GasArrives
  <2>1. /\ bus' = Tail(bus) \o <<>>
        /\ Kept /\ air' = air
    BY <1>7 DEF GasArrives, Reply, OnPneumaticState, OnPneumaticControlEnable
  <2>2. PICK topic \in {"gas", "enable"} : Arrives(topic) BY <1>7 DEF GasArrives
  <2>3. bus \in Seq(Messages) /\ bus # <<>> /\ Head(bus).topic # "state"
    BY <2>2 DEF Arrives, GrantInv
  <2>4. bus' = Tail(bus) BY <2>1, <2>2, Arrived, ConcatEmptySeq
  <2>5. \A v : HasWord(bus, v) => HasWord(bus', v) BY <2>3, <2>4, WordWaits
  <2> QED BY <1>2, <1>3, <2>1, <2>5
<1>8. ASSUME NEW v \in Vessels, LevelArrives(v), call = NoCall PROVE FillInv'
  BY <1>8, LevelFill
<1>9. CASE Senses
  <2>1. Kept /\ bus' = bus BY <1>9 DEF Senses, BoardSends
  <2>2. air' \in [Vessels -> SUBSET Levels]
    <3>1. \/ air' = air
          \/ \E v \in Vessels, raw \in Levels : air' = [air EXCEPT ![v] = @ \cup {raw}]
      BY <1>9 DEF Senses, BoardSends
    <3> QED BY <1>3, <3>1
  <2> QED BY <1>2, <2>1, <2>2
<1>10. CASE PlcStep
  <2>1. Kept /\ bus' = bus /\ air' = air BY <1>10 DEF PlcStep, Scan, Poll, PollFails
  <2> QED BY <1>2, <1>3, <2>1
<1>11. CASE WatchStep BY <1>11, WatchFill
<1>12. CASE RoundStep
  <2>1. Kept /\ bus' = bus /\ air' = air BY <1>12 DEF RoundStep
  <2> QED BY <1>2, <1>3, <2>1
<1>13. CASE Tick BY <1>13, TickFill
<1>14. CASE Restart BY <1>14, RestartFill
<1>15. CASE UNCHANGED vars
  <2>1. Kept /\ bus' = bus /\ air' = air BY <1>15 DEF vars
  <2> QED BY <1>2, <1>3, <2>1
<1>16. CASE CallStep BY <1>16, CallFill
<1> HIDE DEF Kept
<1> QED BY <1>4, <1>5, <1>6, <1>7, <1>8, <1>9, <1>10, <1>11, <1>12, <1>13, <1>14, <1>15, <1>16
        DEF Next, Deliver

(* A valve that was shut when the process started, or has been commanded   *)
(* since, and whose last command reached the PLC, is not left open for     *)
(* longer than the timeout and a period after the last command that opened *)
(* it, however operators, levels and the watchdog cross (FillEnds).  Of a  *)
(* valve that is open when the process starts it says nothing.             *)
THEOREM FillsEnd == Spec => []FillEnds
<1>1. FillInv => FillEnds BY DEF FillInv, TimesInv
<1> QED BY <1>1, InitGrant, StepGrant, InitFill, StepFill, PTL DEF Spec

(* When a level has arrived after all else a vessel has heard, and no      *)
(* command of the controller is still to come, the register is what the    *)
(* autofill wants, if its last command was written, and unless it was open *)
(* when the process started and has not been commanded since               *)
(* (AutofillObeyed).                                                       *)
THEOREM FillsObey == Spec => []AutofillObeyed
<1>1. GrantInv /\ FillInv => AutofillObeyed
  <2> SUFFICES ASSUME GrantInv, FillInv, NEW v \in settled \cap known, Quiet(v)
               PROVE  /\ fill[v].autoClose /\ fill[v].level >= High => ~desired[v]
                      /\ fill[v].autoOpen /\ fill[v].level < Low => desired[v]
    BY DEF AutofillObeyed
  <2>1. DOMAIN bus = 1 .. Len(bus) BY DEF GrantInv
  <2>2. ~Pending(v) /\ ~Evaluating(v)
    BY <2>1 DEF Quiet, Pending, Evaluating, HasWord, NoCall
  <2>3. fill[v].open <=> desired[v] BY <2>2 DEF FillInv, TimesInv
  <2> QED BY <2>2, <2>3 DEF FillInv, SettledInv
<1> QED BY <1>1, InitGrant, StepGrant, InitFill, StepFill, PTL DEF Spec

(* What the poll has said of the gas valves.                               *)
LEMMA InitPoll == Init => PollInv
BY DEF Init, ValvesInit, PollInv, PollTypes, Statuses, Answers, Idle, Opens, IsOpen, Seen,
       Status

LEMMA StepPoll == PollInv /\ [Next]_vars => PollInv'
<1> SUFFICES ASSUME PollInv, [Next]_vars PROVE PollInv' OBVIOUS
<1>1. PollTypes BY DEF PollInv
<1>2. CASE UNCHANGED <<relayReg, relay, shown, said, polling, gate, refused, unseen>>
  BY <1>2 DEF PollInv, PollTypes, Seen, Status, IsOpen, Opens, Control
<1>3. ASSUME PollTypes', unseen' PROVE PollInv' BY <1>3 DEF PollInv
<1> USE DEF driver, plcRegs, plcSays, plcGate
<1>4. ASSUME NEW m \in Commands, Sends(m) PROVE PollInv' BY <1>2, <1>4 DEF Sends
<1>5. CASE StateArrives BY <1>2, <1>5 DEF StateArrives, OnValveState
<1>6. CASE AutoArrives BY <1>2, <1>6 DEF AutoArrives, OnValveAuto
<1>7. CASE GasArrives
  <2>1. /\ UNCHANGED <<relay, shown, polling>> /\ unseen' = TRUE
    BY <1>7 DEF GasArrives, OnPneumaticState, OnPneumaticControlEnable
  <2>2. relayReg' \in [Gases -> BOOLEAN]
    <3>1. \/ relayReg' = relayReg
          \/ relayReg' = [relayReg EXCEPT ![Msg.gas] = Msg.open # (Msg.gas \in NormallyOpen)]
      BY <1>7 DEF GasArrives, OnPneumaticState, OnPneumaticControlEnable
    <3> QED BY <1>1, <3>1 DEF PollTypes
  <2>3. PollTypes' BY <1>1, <2>1, <2>2 DEF PollTypes
  <2> QED BY <1>3, <2>1, <2>3
<1>8. ASSUME NEW v \in Vessels, LevelArrives(v) PROVE PollInv' BY <1>2, <1>8 DEF LevelArrives
<1>9. CASE Senses BY <1>2, <1>9 DEF Senses
<1>10. CASE Scan /\ unseen' = TRUE
  <2>1. PollTypes' BY <1>1, <1>10 DEF PollTypes, Scan
  <2> QED BY <1>3, <1>10, <2>1
<1>11. CASE (Poll \/ PollFails) /\ unseen' = unseen
  <2>1. UNCHANGED <<relayReg, relay, gate, refused, unseen>> BY <1>11 DEF Poll, PollFails
  <2>2. \A g : Opens(g, relayReg[g]) \in BOOLEAN /\ IsOpen(g) \in BOOLEAN
    BY DEF Opens, IsOpen
  <2>3. \A g : Status(g)' = Status(g) /\ Opens(g, relayReg[g])' = Opens(g, relayReg[g])
    BY <2>1 DEF Status, IsOpen, Opens
  <2>4. polling.at \in {"gas", "coil", "say"} =>
          /\ polling = [at |-> polling.at, left |-> polling.left, read |-> polling.read,
                        whole |-> polling.whole]
          /\ polling.left \subseteq Gases
          /\ polling # Broken /\ polling # Idle
    BY <1>1 DEF PollTypes, Idle, Broken
  <2>5. ASSUME NEW answered \in BOOLEAN, ReadReg(answered) PROVE PollInv'
    <3>1. PICK g \in polling.left : \E r :
            /\ r = IF answered THEN Opens(g, relayReg[g]) ELSE Unread
            /\ polling' = [polling EXCEPT !.at = "coil", !.read = <<g, r>>,
                                         !.left = @ \ {g}, !.whole = @ /\ answered]
      BY <2>5 DEF ReadReg
    <3>0. PICK r :
            /\ r = IF answered THEN Opens(g, relayReg[g]) ELSE Unread
            /\ polling' = [polling EXCEPT !.at = "coil", !.read = <<g, r>>,
                                         !.left = @ \ {g}, !.whole = @ /\ answered]
      BY <3>1
    <3>2. polling.at = "gas" /\ UNCHANGED <<shown, said>> BY <2>5 DEF ReadReg
    <3>3. polling' = [at |-> "coil", left |-> polling.left \ {g}, read |-> <<g, r>>,
                      whole |-> polling.whole /\ answered]
      BY <2>4, <3>0, <3>2
    <3>4. PollTypes'
      <4>1. g \in Gases \ polling'.left /\ polling'.read = <<g, r>> /\ r \in Answers
        BY <2>2, <2>4, <3>0, <3>2, <3>3 DEF Answers
      <4>2. polling'.whole \in BOOLEAN BY <3>3
      <4> QED BY <1>1, <2>1, <2>4, <3>2, <3>3, <4>1, <4>2 DEF PollTypes
    <3>5. ASSUME ~unseen', polling' # Broken, polling' = Idle \/ polling'.whole
          PROVE  \A h \in Gases : Seen(h)'
      <4>1. polling.whole /\ answered BY <3>3, <3>5 DEF Idle
      <4>2. \A h \in Gases : h \in polling.left \/ shown[h] = Status(h)
        BY <2>1, <2>4, <3>2, <3>5, <4>1 DEF PollInv, Seen
      <4>3. r = Opens(g, relayReg[g]) BY <3>0, <4>1
      <4> QED BY <2>3, <3>2, <3>3, <4>2, <4>3 DEF Seen
    <3> QED BY <3>3, <3>4, <3>5 DEF PollInv
  <2>6. ASSUME NEW answered \in BOOLEAN, ReadCoil(answered) PROVE PollInv'
    <3>1. PICK g \in Gases \ polling.left, on \in Answers : polling.read = <<g, on>>
      BY <1>1, <2>6 DEF ReadCoil, PollTypes, Idle, Broken
    <3>2. PICK s : s = IF answered THEN IsOpen(g) ELSE Unread OBVIOUS
    <3>3. /\ polling.at = "coil" /\ said' = said
          /\ shown' = IF s = Unread /\ on = Unread THEN shown
                      ELSE [shown EXCEPT ![g] = [desired |-> on, state |-> s]]
          /\ polling' = [polling EXCEPT !.at = "gas", !.whole = @ /\ answered]
      BY <2>6, <3>1, <3>2 DEF ReadCoil, Shows
    <3>4. polling' = [at |-> "gas", left |-> polling.left, read |-> polling.read,
                      whole |-> polling.whole /\ answered]
      BY <2>4, <3>3
    <3>5. PollTypes'
      <4>1. [desired |-> on, state |-> s] \in Statuses BY <2>2, <3>1, <3>2 DEF Statuses, Answers
      <4>2. shown' \in [Gases -> Statuses] BY <1>1, <3>1, <3>3, <4>1 DEF PollTypes
      <4>3. polling.left \subseteq Gases /\ polling'.whole \in BOOLEAN BY <2>4, <3>3, <3>4
      <4> QED BY <1>1, <2>1, <3>4, <4>2, <4>3 DEF PollTypes
    <3>6. ASSUME ~unseen', polling' # Broken, polling' = Idle \/ polling'.whole
          PROVE  \A h \in Gases : Seen(h)'
      <4>1. polling.whole /\ answered BY <3>4, <3>6 DEF Idle
      <4>2. \A h \in Gases : Seen(h) BY <2>1, <2>4, <3>3, <3>6, <4>1 DEF PollInv
      <4>3. on = Opens(g, relayReg[g]) BY <3>1, <3>3, <4>2 DEF Seen
      <4>4. s = IsOpen(g) /\ s # Unread BY <2>2, <3>2, <4>1, UnreadAssumption
      <4>5. shown' = [shown EXCEPT ![g] = [desired |-> on, state |-> s]] BY <3>3, <4>4
      <4>6. shown'[g] = Status(g) BY <1>1, <3>1, <4>3, <4>4, <4>5 DEF PollTypes, Status
      <4>7. \A h \in Gases : h # g => h \in polling.left \/ shown'[h] = Status(h)
        BY <1>1, <3>1, <3>3, <4>2, <4>5 DEF PollTypes, Seen
      <4> QED BY <2>3, <3>4, <4>6, <4>7 DEF Seen
    <3> QED BY <3>4, <3>5, <3>6 DEF PollInv
  <2>7. CASE MakeStatus
    <3>1. /\ polling.at = "gas" /\ polling.left = {} /\ UNCHANGED <<shown, said>>
          /\ polling' = [polling EXCEPT !.at = "say", !.read = Control]
      BY <2>7 DEF MakeStatus
    <3>2. polling' = [at |-> "say", left |-> {}, read |-> Control, whole |-> polling.whole]
      BY <2>4, <3>1
    <3>3. PollTypes'
      <4>1. polling'.whole \in BOOLEAN BY <1>1, <3>1, <3>2 DEF PollTypes, Idle, Broken
      <4> QED BY <1>1, <2>1, <3>1, <3>2, <4>1 DEF PollTypes
    <3>4. ASSUME ~unseen', polling' # Broken, polling' = Idle \/ polling'.whole
          PROVE  \A h \in Gases : Seen(h)'
      <4>1. polling.whole BY <3>2, <3>4 DEF Idle
      <4>2. \A h \in Gases : shown[h] = Status(h)
        BY <2>1, <2>4, <3>1, <3>4, <4>1 DEF PollInv, Seen
      <4> QED BY <2>3, <3>1, <3>2, <4>2 DEF Seen
    <3>5. Control' = Control BY <2>1 DEF Control
    <3> QED BY <3>2, <3>3, <3>4, <3>5 DEF PollInv
  <2>8. CASE SayStatus
    <3>1. /\ polling.at = "say" /\ said' = polling.read /\ shown' = shown
          /\ polling' = IF polling.whole THEN Idle ELSE Broken
      BY <2>8 DEF SayStatus
    <3>2. PollTypes' BY <1>1, <2>1, <3>1 DEF PollTypes
    <3>3. ASSUME ~unseen', polling' # Broken
          PROVE  /\ \A h \in Gases : Seen(h)'
                 /\ said' = Control'
      <4>1. polling.whole /\ polling' = Idle BY <3>1, <3>3
      <4>2. /\ \A h \in Gases : shown[h] = Status(h)
            /\ polling.read = Control
        BY <2>1, <2>4, <3>1, <3>3, <4>1 DEF PollInv, Seen
      <4> QED BY <2>1, <2>3, <3>1, <4>1, <4>2 DEF Seen, Idle, Control
    <3>4. polling' \in {Idle, Broken} BY <3>1
    <3> QED BY <3>2, <3>3, <3>4 DEF PollInv, Idle, Broken
  <2>9. CASE ReadRaises
    <3>1. polling' = Broken /\ UNCHANGED <<shown, said>> BY <2>9 DEF ReadRaises
    <3>2. PollTypes' BY <1>1, <2>1, <3>1 DEF PollTypes
    <3> QED BY <3>1, <3>2 DEF PollInv
  <2> QED BY <1>11, <2>5, <2>6, <2>7, <2>8, <2>9 DEF Poll, PollFails
<1>12. CASE WatchStep BY <1>2, <1>12 DEF WatchStep
<1>13. CASE RoundStep BY <1>2, <1>13 DEF RoundStep
<1>14. CASE Tick
  <2>1. /\ polling' = [at |-> "gas", left |-> Gases, read |-> <<>>, whole |-> TRUE]
        /\ UNCHANGED <<relayReg, relay, shown, said>>
    BY <1>14 DEF Tick, PollTick
  <2>2. PollTypes' BY <1>1, <2>1 DEF PollTypes
  <2> QED BY <2>1, <2>2 DEF PollInv, Seen
<1>15. CASE Restart
  <2>1. /\ polling' = Idle /\ UNCHANGED <<relayReg, relay, shown>> /\ unseen' = TRUE
    BY <1>15 DEF Restart, ValvesStart
  <2>2. PollTypes' BY <1>1, <2>1 DEF PollTypes
  <2> QED BY <1>3, <2>1, <2>2
<1>16. CASE UNCHANGED vars BY <1>2, <1>16 DEF vars
<1>17. CASE CallStep BY <1>2, <1>17 DEF CallStep
<1> QED BY <1>4, <1>5, <1>6, <1>7, <1>8, <1>9, <1>10, <1>11, <1>12, <1>13, <1>14, <1>15, <1>16,
           <1>17
        DEF Next, Deliver, PlcStep

(* After a poll in which every read was answered and nothing changed, what *)
(* the broker keeps of the gate and of each gas valve is so, although      *)
(* callbacks publish the same statuses as the poll and earlier polls left  *)
(* fields out (ShownIsTrue).                                               *)
THEOREM StatusTrue == Spec => []ShownIsTrue
<1>1. PollInv => ShownIsTrue
  BY DEF PollInv, ShownIsTrue, Seen, Status, Idle, Broken
<1> QED BY <1>1, InitPoll, StepPoll, PTL DEF Spec

(* Commands of gas valves on their way, and refused.                       *)
LEMMA GasCount ==
  ASSUME NEW b \in Seq(Messages)
  PROVE  IsFiniteSet(GasIn(b)) /\ Cardinality(GasIn(b)) \in Nat
<1>1. GasIn(b) \in SUBSET (1 .. Len(b)) /\ IsFiniteSet(1 .. Len(b))
  BY FS_Interval DEF GasIn
<1>2. IsFiniteSet(GasIn(b)) BY <1>1, FS_Subset
<1> QED BY <1>2, FS_CardinalityType

LEMMA GasJoins ==
  ASSUME NEW b \in Seq(Messages), NEW m \in Messages
  PROVE  /\ Cardinality(GasIn(b \o <<m>>)) <= Cardinality(GasIn(b)) + 1
         /\ m.topic # "gas" => GasIn(b \o <<m>>) = GasIn(b)
<1> DEFINE c == b \o <<m>>
<1>1. /\ Len(c) = Len(b) + 1 /\ Len(b) \in Nat
      /\ \A i \in 1 .. Len(b) : c[i] = b[i]
      /\ c[Len(b) + 1] = m
  BY ConcatProperties
<1> HIDE DEF c
<1>2. CASE m.topic = "gas"
  <2>1. GasIn(c) = GasIn(b) \cup {Len(b) + 1} BY <1>1, <1>2 DEF GasIn
  <2>2. IsFiniteSet(GasIn(b)) /\ Cardinality(GasIn(b)) \in Nat BY GasCount
  <2>3. Cardinality(GasIn(c)) <= Cardinality(GasIn(b)) + 1
    <3>1. Cardinality(GasIn(b) \cup {Len(b) + 1}) \in {Cardinality(GasIn(b)), Cardinality(GasIn(b)) + 1}
      BY <2>2, FS_AddElement
    <3> QED BY <2>1, <2>2, <3>1
  <2> QED BY <1>2, <2>3 DEF c
<1>3. CASE m.topic # "gas"
  <2>1. GasIn(c) = GasIn(b) BY <1>1, <1>3 DEF GasIn
  <2>2. Cardinality(GasIn(b)) \in Nat BY GasCount
  <2> QED BY <2>1, <2>2 DEF c
<1> QED BY <1>2, <1>3

LEMMA GasLeaves ==
  ASSUME NEW b \in Seq(Messages), b # <<>>
  PROVE  /\ Cardinality(GasIn(Tail(b))) <= Cardinality(GasIn(b))
         /\ Head(b).topic = "gas" =>
              Cardinality(GasIn(Tail(b))) <= Cardinality(GasIn(b)) - 1
<1> DEFINE c == Tail(b)
           S == GasIn(b) \ {1}
           f == [i \in S |-> i - 1]
<1>1. /\ Len(c) = Len(b) - 1 /\ Len(b) \in Nat \ {0}
      /\ \A i \in 1 .. Len(c) : c[i] = b[i + 1]
      /\ Head(b) = b[1]
  BY HeadTailProperties
<1> HIDE DEF c
<1>2. f \in Surjection(S, GasIn(c))
  <2>1. ASSUME NEW i \in S PROVE i - 1 \in GasIn(c)
    <3>1. i \in 2 .. Len(b) /\ b[i].topic = "gas" BY <1>1 DEF GasIn
    <3>2. i - 1 \in 1 .. Len(c) /\ c[i - 1] = b[i] BY <1>1, <3>1
    <3> QED BY <3>1, <3>2 DEF GasIn
  <2>2. ASSUME NEW j \in GasIn(c) PROVE \E i \in S : f[i] = j
    <3>1. j \in 1 .. Len(c) /\ c[j].topic = "gas" BY DEF GasIn
    <3>2. j + 1 \in S /\ (j + 1) - 1 = j BY <1>1, <3>1 DEF GasIn
    <3> QED BY <3>2
  <2>3. f \in [S -> GasIn(c)] BY <2>1
  <2> QED BY <2>2, <2>3 DEF Surjection
<1>3. /\ IsFiniteSet(S)
      /\ Cardinality(S) = IF 1 \in GasIn(b) THEN Cardinality(GasIn(b)) - 1
                          ELSE Cardinality(GasIn(b))
      /\ Cardinality(GasIn(b)) \in Nat
  BY GasCount, FS_RemoveElement
<1> HIDE DEF f, S
<1>4. Cardinality(GasIn(c)) <= Cardinality(S) /\ Cardinality(GasIn(c)) \in Nat
  BY <1>2, <1>3, FS_Surjection, FS_CardinalityType
<1>5. Head(b).topic = "gas" <=> 1 \in GasIn(b) BY <1>1 DEF GasIn
<1> QED BY <1>3, <1>4, <1>5 DEF c

LEMMA GasKeeps ==
  ASSUME GrantInv, NEW v \in Vessels, NEW open \in BOOLEAN
  PROVE  GasIn(bus \o <<StateMsg(v, open)>>) = GasIn(bus)
<1>1. StateMsg(v, open) \in Messages /\ StateMsg(v, open).topic # "gas"
  BY DEF Messages, Words, StateMsg
<1> QED BY <1>1, GasJoins DEF GrantInv

LEMMA InitRefused == Init => RefusedInv
<1> SUFFICES ASSUME Init PROVE RefusedInv OBVIOUS
<1>1. /\ bus = <<>> /\ events = 0 /\ refused = 0
      /\ said = [enabled |-> FALSE, refused |-> 0] /\ polling = Idle
  BY DEF Init, ValvesInit, Control
<1>2. GasIn(bus) = {} BY <1>1 DEF GasIn
<1>3. Cardinality(GasIn(bus)) = 0 BY <1>2, FS_EmptySet
<1>4. said \in [enabled : BOOLEAN, refused : 0 .. MaxEvents] BY <1>1, EventsAssumption
<1> QED BY <1>1, <1>3, <1>4, EventsAssumption DEF RefusedInv, Idle

LEMMA StepRefused == GrantInv /\ PollInv /\ RefusedInv /\ [Next]_vars => RefusedInv'
<1> SUFFICES ASSUME GrantInv, PollInv, RefusedInv, [Next]_vars PROVE RefusedInv'
  OBVIOUS
<1> DEFINE Reports == [enabled : BOOLEAN, refused : 0 .. MaxEvents]
<1>1. /\ bus \in Seq(Messages) /\ gate \in BOOLEAN
      /\ events \in 0 .. MaxEvents /\ refused \in Nat
      /\ refused + Cardinality(GasIn(bus)) <= events
      /\ Cardinality(GasIn(bus)) \in Nat
      /\ MaxEvents \in Nat
  BY GasCount, EventsAssumption DEF GrantInv, RefusedInv
<1>2. ASSUME UNCHANGED <<refused, said, polling>>, GasIn(bus') = GasIn(bus),
             events' = events \/ Event
      PROVE  RefusedInv'
  BY <1>1, <1>2 DEF RefusedInv, Event
<1>3. refused \in 0 .. MaxEvents BY <1>1
<1> USE DEF driver, plcRegs, plcSays, plcGate
<1>4. ASSUME NEW m \in Commands, Sends(m) PROVE RefusedInv'
  <2>1. /\ bus' = bus \o <<Marked(m)>> /\ events' = events + 1 /\ events < MaxEvents
        /\ UNCHANGED <<refused, said, polling>>
    BY <1>4 DEF Sends, Publish, Event
  <2>2. Marked(m) \in Messages
    <3>1. Marked(m) = MarkedAs(m, granted) BY DEF Marked, MarkedAs
    <3> QED BY <3>1 DEF Messages, GrantInv
  <2>3. Cardinality(GasIn(bus')) <= Cardinality(GasIn(bus)) + 1
    BY <1>1, <2>1, <2>2, GasJoins
  <2>4. Cardinality(GasIn(bus')) \in Nat
    <3>1. bus' \in Seq(Messages) BY <1>1, <2>1, <2>2, ConcatProperties
    <3> QED BY <3>1, GasCount
  <2> QED BY <1>1, <2>1, <2>3, <2>4 DEF RefusedInv
<1>5. ASSUME NEW topic \in {"state", "auto", "gas", "enable"}, Arrives(topic)
      PROVE  /\ Tail(bus) \in Seq(Messages)
             /\ Cardinality(GasIn(Tail(bus))) \in Nat
             /\ Cardinality(GasIn(Tail(bus))) <= Cardinality(GasIn(bus))
             /\ topic = "gas" =>
                  Cardinality(GasIn(Tail(bus))) <= Cardinality(GasIn(bus)) - 1
  BY <1>1, <1>5, Arrived, GasLeaves, GasCount DEF Arrives
<1>6. CASE StateArrives
  <2>1. Arrives("state") /\ bus' = Tail(bus) \o <<>> /\ UNCHANGED <<refused, said, polling, events>>
    BY <1>6 DEF StateArrives, OnManualState, OnValveState, Reply
  <2>2. bus' = Tail(bus) BY <1>5, <2>1, ConcatEmptySeq
  <2> QED BY <1>1, <1>5, <2>1, <2>2 DEF RefusedInv
<1>7. CASE AutoArrives
  <2>1. /\ Arrives("auto") /\ bus' = Tail(bus) \o <<>>
        /\ UNCHANGED <<refused, said, polling, events>>
    BY <1>7 DEF AutoArrives, OnAutoCmd, OnValveAuto, Reply
  <2>2. bus' = Tail(bus) BY <1>5, <2>1, ConcatEmptySeq
  <2> QED BY <1>1, <1>5, <2>1, <2>2 DEF RefusedInv
<1>8. CASE GasArrives
  <2>1. bus' = Tail(bus) \o <<>> /\ UNCHANGED <<polling, events>>
    BY <1>8 DEF GasArrives, Reply, OnPneumaticState, OnPneumaticControlEnable
  <2>2. ASSUME NEW topic \in {"gas", "enable"}, Arrives(topic)
        PROVE  bus' = Tail(bus)
    BY <1>5, <2>1, <2>2, ConcatEmptySeq
  <2>3. CASE Arrives("gas") /\ \E written \in BOOLEAN : OnPneumaticState(written)
    <3>1. CASE UNCHANGED <<refused, said>>
      BY <1>1, <1>5, <2>1, <2>2, <2>3, <3>1 DEF RefusedInv
    <3>2. CASE refused' = refused + 1 /\ said' = [enabled |-> FALSE, refused |-> refused + 1]
      <4>1. refused + 1 \in 0 .. MaxEvents /\ refused + 1 + Cardinality(GasIn(bus')) <= events
        <5>1. bus' = Tail(bus) BY <2>2, <2>3
        <5>2. /\ Cardinality(GasIn(Tail(bus))) \in Nat
              /\ Cardinality(GasIn(Tail(bus))) <= Cardinality(GasIn(bus)) - 1
          BY <1>5, <2>3
        <5> HIDE <1>5
        <5> QED BY <1>1, <5>1, <5>2
      <4>2. said' \in Reports BY <3>2, <4>1
      <4> QED BY <1>1, <2>1, <3>2, <4>1, <4>2 DEF RefusedInv
    <3> QED BY <2>3, <3>1, <3>2 DEF OnPneumaticState
  <2>4. CASE Arrives("enable") /\ OnPneumaticControlEnable
    <3>1. refused' = refused /\ said' = [enabled |-> Msg.on, refused |-> refused]
      BY <2>4 DEF OnPneumaticControlEnable
    <3>2. Msg.on \in BOOLEAN BY <2>4, Arrived, MessageKinds
    <3>3. said' \in Reports BY <1>3, <3>1, <3>2
    <3> QED BY <1>1, <1>5, <2>1, <2>2, <2>4, <3>1, <3>3 DEF RefusedInv
  <2> QED BY <1>8, <2>3, <2>4 DEF GasArrives
<1>9. ASSUME NEW v \in Vessels, LevelArrives(v) PROVE RefusedInv'
  <2>1. UNCHANGED <<bus, refused, said, polling, events>> BY <1>9 DEF LevelArrives, OnLevel
  <2> QED BY <1>2, <2>1
<1>10. CASE Senses BY <1>2, <1>10 DEF Senses
<1>11. CASE PlcStep
  <2>1. /\ UNCHANGED <<bus, refused, gate>>
        /\ events' = events \/ (events' = events + 1 /\ events < MaxEvents)
    BY <1>11 DEF PlcStep, Scan, Poll, PollFails, Event
  <2>2. Control \in Reports BY <1>1, <1>3 DEF Control
  <2>3. CASE SayStatus
    BY <1>1, <2>1, <2>3 DEF SayStatus, RefusedInv, Idle, Broken
  <2>4. CASE MakeStatus
    <3>1. said' = said /\ polling'.at = "say" => polling'.read = Control
      <4>1. polling = [at |-> polling.at, left |-> polling.left, read |-> polling.read,
                       whole |-> polling.whole]
        BY <2>4 DEF MakeStatus, PollInv, PollTypes, Idle, Broken
      <4> QED BY <2>4, <4>1 DEF MakeStatus
    <3>2. said' = said BY <2>4 DEF MakeStatus
    <3> QED BY <1>1, <2>1, <2>2, <3>1, <3>2 DEF RefusedInv
  <2>5. ASSUME NEW answered \in BOOLEAN,
               ReadReg(answered) \/ ReadCoil(answered) \/ ReadRaises \/ Scan
        PROVE  RefusedInv'
    <3>1. said' = said /\ (polling' = polling \/ polling'.at # "say")
      <4>1. CASE Scan BY <4>1 DEF Scan
      <4>2. CASE ReadReg(answered) \/ ReadCoil(answered)
        <5>1. polling = [at |-> polling.at, left |-> polling.left, read |-> polling.read,
                         whole |-> polling.whole]
          <6>1. polling.at \in {"gas", "coil"} BY <4>2 DEF ReadReg, ReadCoil
          <6> QED BY <6>1 DEF PollInv, PollTypes, Idle, Broken
        <5>2. CASE ReadReg(answered)
          <6>1. PICK g \in polling.left : \E r :
                  polling' = [polling EXCEPT !.at = "coil", !.read = <<g, r>>,
                                             !.left = @ \ {g}, !.whole = @ /\ answered]
            BY <5>2 DEF ReadReg
          <6>2. polling'.at = "coil" BY <5>1, <6>1
          <6> QED BY <5>2, <6>2 DEF ReadReg
        <5>3. CASE ReadCoil(answered)
          <6>1. polling' = [polling EXCEPT !.at = "gas", !.whole = @ /\ answered]
            BY <5>3 DEF ReadCoil
          <6>2. polling'.at = "gas" BY <5>1, <6>1
          <6> QED BY <5>3, <6>2 DEF ReadCoil
        <5> QED BY <4>2, <5>2, <5>3
      <4>3. CASE ReadRaises BY <4>3 DEF ReadRaises, Broken
      <4> QED BY <2>5, <4>1, <4>2, <4>3
    <3> QED BY <1>1, <2>1, <3>1 DEF RefusedInv
  <2> QED BY <1>11, <2>3, <2>4, <2>5 DEF PlcStep, Poll, PollFails
<1>12. CASE WatchStep
  <2>1. UNCHANGED <<refused, said, polling, events>> BY <1>12 DEF WatchStep
  <2>2. CASE Judge \/ ForceClosed \/ Alert
    <3>1. bus' = bus BY <2>2 DEF Judge, ForceClosed, Alert
    <3> QED BY <1>2, <2>1, <3>1
  <2>3. CASE Tell
    <3>1. watch.vessel \in Vessels /\ bus' = bus \o <<StateMsg(watch.vessel, FALSE)>>
      BY <2>3 DEF Tell, Publish, GrantInv
    <3>2. GasIn(bus') = GasIn(bus) BY <1>1, <3>1, GasKeeps
    <3> QED BY <1>2, <2>1, <3>2
  <2> QED BY <1>12, <2>2, <2>3 DEF WatchStep, Watch
<1>13. CASE RoundStep BY <1>2, <1>13 DEF RoundStep
<1>14. CASE Tick
  <2>1. /\ polling'.at = "gas" /\ UNCHANGED <<bus, refused, said, events>>
    BY <1>14 DEF Tick, PollTick
  <2> QED BY <1>1, <2>1 DEF RefusedInv
<1>15. CASE Restart
  <2>1. /\ bus' = <<>> /\ refused' = 0 /\ said' = [enabled |-> FALSE, refused |-> 0]
        /\ polling' = Idle /\ events' = events + 1 /\ events < MaxEvents
    BY <1>15 DEF Restart, ValvesStart, Event
  <2>2. GasIn(bus') = {} BY <2>1 DEF GasIn
  <2>3. Cardinality(GasIn(bus')) = 0 BY <2>2, FS_EmptySet
  <2>4. said' \in Reports BY <1>1, <2>1
  <2> QED BY <1>1, <2>1, <2>3, <2>4 DEF RefusedInv, Idle
<1>16. CASE UNCHANGED vars BY <1>2, <1>16 DEF vars
<1>17. CASE CallStep
  <2>1. UNCHANGED <<refused, said, polling, events>> BY <1>17 DEF CallStep
  <2>2. CASE Look \/ Act
    <3>1. bus' = bus BY <2>2 DEF Look, Act
    <3> QED BY <1>2, <2>1, <3>1
  <2>3. CASE Say
    <3>1. /\ bus' = bus \o <<StateMsg(call.vessel, call.open)>>
          /\ call.vessel \in Vessels /\ call.open \in BOOLEAN
      BY <2>3, CallKinds DEF Say
    <3>2. GasIn(bus') = GasIn(bus) BY <3>1, GasKeeps
    <3> QED BY <1>2, <2>1, <3>2
  <2> QED BY <1>17, <2>2, <2>3 DEF CallStep, Evaluate
<1> QED BY <1>4, <1>6, <1>7, <1>8, <1>9, <1>10, <1>11, <1>12, <1>13, <1>14, <1>15, <1>16, <1>17
        DEF Next, Deliver

(* Alerts.                                                                 *)
LEMMA Kinds ==
  /\ Checkable \subseteq ChannelRules
  /\ \A z : Rule("saturated", z) \notin ChannelRules
<1>1. Checkable \subseteq ChannelRules BY DEF Checkable, ChannelRules, Channels
<1>2. \A z : Rule("saturated", z) \notin ChannelRules
  <2>1. \A r \in ChannelRules : r.kind \in {"stale", "range"} BY DEF ChannelRules, Rule
  <2>2. \A z : Rule("saturated", z).kind = "saturated" BY DEF Rule
  <2> QED BY <2>1, <2>2
<1> QED BY <1>1, <1>2

LEMMA Heard ==
  /\ \A a \in Int, b \in BOOLEAN : [age |-> a, bad |-> b] # NotHeard
  /\ \A p \in Clocks : p # NotHeard
<1>1. NotSat .. SatLimit + 1 \subseteq Int BY LimitsAssumption DEF NotSat
<1> QED BY <1>1, NotHeardAssumption DEF Clocks

LEMMA InitAlerts == Init => AlertInv /\ ClockInv
<1> SUFFICES ASSUME Init PROVE AlertInv /\ ClockInv OBVIOUS
<1>1. /\ health = [c \in Channels |-> NotHeard] /\ pid = [z \in Zones |-> NotHeard]
      /\ active = {} /\ round = [at |-> "new"] /\ raised = {} /\ found = {} /\ kept = {}
  BY DEF Init, InterlocksInit
<1> QED BY <1>1 DEF AlertInv, AlertsTell, ClockInv

(* A channel or a zone is heard of.                                        *)
LEMMA ReadingAlerts ==
  ASSUME AlertInv, ClockInv, NEW c \in Channels, NEW bad \in BOOLEAN, OnReading(c, bad),
         UNCHANGED <<found, kept>>
  PROVE  AlertInv' /\ ClockInv'
<1>1. /\ health' = [health EXCEPT ![c] = [age |-> 0, bad |-> bad]]
      /\ UNCHANGED <<pid, active, round, raised, rules>>
  BY DEF OnReading
<1>2. [age |-> 0, bad |-> bad] \in [age : Int, bad : BOOLEAN]
      /\ [age |-> 0, bad |-> bad] # NotHeard
  BY Heard
<1>3. \A d \in Channels : health[d] # NotHeard => health'[d] # NotHeard
  BY <1>1, <1>2 DEF ClockInv
<1>4. Checkable \subseteq Checkable' BY <1>3 DEF Checkable
<1>5. 0 \in 0 .. Oldest(c)
  BY LimitsAssumption DEF Oldest, Channels
<1>6. \A d \in Channels : health'[d] # NotHeard => health'[d].age \in 0 .. Oldest(d)
  <2> SUFFICES ASSUME NEW d \in Channels, health'[d] # NotHeard
               PROVE  health'[d].age \in 0 .. Oldest(d)
    OBVIOUS
  <2>1. CASE d = c
    <3>1. health'[d] = [age |-> 0, bad |-> bad] BY <1>1, <2>1 DEF ClockInv
    <3> QED BY <1>5, <2>1, <3>1
  <2>2. CASE d # c BY <1>1, <2>2 DEF ClockInv
  <2> QED BY <2>1, <2>2
<1>7. AlertInv' BY <1>1, <1>4 DEF AlertInv, AlertsTell
<1>8. ClockInv' BY <1>1, <1>2, <1>6 DEF ClockInv, Oldest
<1> QED BY <1>7, <1>8

LEMMA PidAlerts ==
  ASSUME AlertInv, ClockInv, NEW z \in Zones, NEW saturated \in BOOLEAN, OnPid(z, saturated),
         UNCHANGED <<found, kept>>
  PROVE  AlertInv' /\ ClockInv'
<1>0. 0 \in NotSat .. SatLimit + 1 /\ NotSat \in NotSat .. SatLimit + 1
  BY LimitsAssumption DEF NotSat
<1>1. PICK h, p :
        /\ h = IF pid[z] = NotHeard THEN [sat |-> NotSat, alerted |-> FALSE] ELSE pid[z]
        /\ p = IF saturated THEN [h EXCEPT !.sat = IF @ = NotSat THEN 0 ELSE @]
               ELSE [sat |-> NotSat, alerted |-> FALSE]
        /\ pid' = [pid EXCEPT ![z] = p]
        /\ UNCHANGED <<health, active, round, raised, rules>>
  BY DEF OnPid
<1>2. [sat |-> NotSat, alerted |-> FALSE] \in Clocks BY <1>0 DEF Clocks
<1>3. h \in Clocks
  <2>1. CASE pid[z] = NotHeard BY <1>1, <1>2, <2>1
  <2>2. CASE pid[z] # NotHeard BY <1>1, <2>2 DEF ClockInv
  <2> QED BY <2>1, <2>2
<1>4. p \in Clocks
  <2>1. CASE ~saturated BY <1>1, <1>2, <2>1
  <2>2. CASE saturated
    <3>1. p = [h EXCEPT !.sat = IF @ = NotSat THEN 0 ELSE @] BY <1>1, <2>2
    <3>2. /\ p = [sat |-> p.sat, alerted |-> p.alerted]
          /\ p.sat = (IF h.sat = NotSat THEN 0 ELSE h.sat) /\ p.alerted = h.alerted
      BY <1>3, <3>1 DEF Clocks
    <3>3. p.sat \in NotSat .. SatLimit + 1 /\ p.alerted \in BOOLEAN
      BY <1>0, <1>3, <3>2 DEF Clocks
    <3> QED BY <3>2, <3>3 DEF Clocks
  <2> QED BY <2>1, <2>2
<1>5. p # NotHeard BY <1>4, Heard
<1>6. AlertInv' BY <1>1 DEF AlertInv, AlertsTell, Checkable
<1>7. ClockInv' BY <1>1, <1>4, <1>5 DEF ClockInv, Oldest
<1> QED BY <1>6, <1>7

(* What the alert controller and the broker keep after its look at rule x: *)
(* H is {x} if it holds; a is active, r raised, f found, k kept, n what    *)
(* the round found so far and R what it has still to look at.              *)
LEMMA Judgement ==
  ASSUME NEW CR, NEW x \in CR, NEW H, H = {x} \/ H = {},
         NEW a, NEW r, NEW f, NEW k, NEW n, NEW R, x \in R,
         f \subseteq CR, a \cap CR = f, f \cap k = {}, a \subseteq r,
         r \cap CR = (f \cup k) \cap CR, n \cap CR = f \ R,
         NEW a2, NEW r2, NEW f2, NEW k2,
         a2 = (a \ {x}) \cup H, r2 = (r \ ((a \cap {x}) \ H)) \cup (H \ a),
         f2 = (f \ {x}) \cup H, k2 = k \ H
  PROVE  /\ f2 \subseteq CR /\ a2 \cap CR = f2 /\ f2 \cap k2 = {}
         /\ a2 \subseteq r2 /\ r2 \subseteq r \cup {x}
         /\ r2 \cap CR = (f2 \cup k2) \cap CR
         /\ (n \cup H) \cap CR = f2 \ (R \ {x})
<1>1. \A y \in CR : /\ y \in r <=> y \in f \/ y \in k
                    /\ y \in a <=> y \in f
                    /\ y \in n <=> y \in f /\ y \notin R
                    /\ y \in f => y \notin k
  OBVIOUS
<1>2. CASE H = {x}
  <2>1. /\ \A y : y \in a2 <=> y \in a \/ y = x
        /\ \A y : y \in f2 <=> y \in f \/ y = x
        /\ \A y : y \in k2 <=> y \in k /\ y # x
        /\ \A y : y \in n \cup H <=> y \in n \/ y = x
    BY <1>2
  <2>2. \A y : y \in r2 <=> y \in r \/ y = x BY <1>2
  <2> QED BY <1>1, <2>1, <2>2
<1>3. CASE H = {}
  <2>1. /\ \A y : y \in a2 <=> y \in a /\ y # x
        /\ \A y : y \in f2 <=> y \in f /\ y # x
        /\ k2 = k /\ n \cup H = n
    BY <1>3
  <2>2. \A y : y \in r2 <=> y \in r /\ ~(y \in a /\ y = x) BY <1>3
  <2> QED BY <1>1, <2>1, <2>2
<1> QED BY <1>2, <1>3

LEMMA RuleAlerts ==
  ASSUME AlertInv, ClockInv, round.at = "check", NEW r \in round.rules, CheckRule(r),
         found' = IF Holds(r) THEN found \cup {r} ELSE found \ {r},
         kept' = IF Holds(r) THEN kept \ {r} ELSE kept
  PROVE  AlertInv' /\ ClockInv'
<1> DEFINE now == IF Holds(r) THEN {r} ELSE {}
<1>1. /\ active' = (active \ {r}) \cup now
      /\ raised' = (raised \ ((active \cap {r}) \ now)) \cup (now \ active)
      /\ round' = [round EXCEPT !.rules = @ \ {r}, !.now = @ \cup now]
      /\ UNCHANGED <<health, pid, rules>>
  BY DEF CheckRule
<1>2. found' = (found \ {r}) \cup now /\ kept' = kept \ now OBVIOUS
<1>3. now = {r} \/ now = {} OBVIOUS
<1> HIDE DEF now
<1>4. round = [at |-> "check", rules |-> round.rules, zones |-> round.zones, now |-> round.now]
  BY DEF ClockInv
<1>5. round' = [at |-> "check", rules |-> round.rules \ {r}, zones |-> round.zones,
                now |-> round.now \cup now]
  BY <1>1, <1>4
<1>6. r \in Checkable /\ r \in ChannelRules BY Kinds DEF AlertInv
<1>7. /\ found' \subseteq ChannelRules /\ active' \cap ChannelRules = found'
      /\ found' \cap kept' = {}
      /\ active' \subseteq raised' /\ raised' \subseteq raised \cup {r}
      /\ raised' \cap ChannelRules = (found' \cup kept') \cap ChannelRules
      /\ (round.now \cup now) \cap ChannelRules = found' \ (round.rules \ {r})
  <2>1. /\ found \subseteq ChannelRules /\ active \cap ChannelRules = found
        /\ found \cap kept = {} /\ active \subseteq raised
        /\ raised \cap ChannelRules = (found \cup kept) \cap ChannelRules
        /\ round.now \cap ChannelRules = found \ round.rules
    BY DEF AlertInv, AlertsTell, ClockInv
  <2> HIDE DEF ChannelRules
  <2> QED BY <1>1, <1>2, <1>3, <1>6, <2>1, Judgement
<1>8. /\ ChannelRules' = ChannelRules /\ PidRules' = PidRules /\ Checkable' = Checkable
  BY <1>1 DEF ChannelRules, PidRules, Checkable
<1>9. found' \subseteq Checkable BY <1>2, <1>3, <1>6 DEF AlertInv
<1>10. AlertInv'
  <2>1. round.rules \ {r} \subseteq Checkable BY DEF AlertInv
  <2> QED BY <1>5, <1>7, <1>8, <1>9, <2>1 DEF AlertInv, AlertsTell
<1>11. ClockInv'
  <2>1. raised' \subseteq ChannelRules \cup PidRules BY <1>6, <1>7 DEF ClockInv
  <2> QED BY <1>1, <1>5, <1>7, <1>8, <2>1 DEF ClockInv, Oldest
<1> QED BY <1>10, <1>11

LEMMA RestAlerts ==
  ASSUME AlertInv, ClockInv, Rest, UNCHANGED <<found, kept>>
  PROVE  AlertInv' /\ ClockInv'
<1>1. /\ ChannelRules' = ChannelRules /\ PidRules' = PidRules
  BY DEF ChannelRules, PidRules
<1>2. UNCHANGED health /\ Checkable' = Checkable
  BY DEF Rest, CheckPid, MarkPid, ReportPid, PublishRules, Checkable
<1>3. CASE CheckPid
  <2>1. /\ UNCHANGED <<pid, active, raised, rules>>
        /\ round.at = "check" /\ round.rules = {}
        /\ round = [at |-> "check", rules |-> {}, zones |-> round.zones, now |-> round.now]
        /\ round.zones \subseteq {z \in Zones : pid[z] # NotHeard}
        /\ round.now \cap ChannelRules = found
    BY <1>3 DEF CheckPid, ClockInv, AlertInv
  <2>2. PICK z \in round.zones :
          \/ round' = [at |-> "mark", zone |-> z, zones |-> round.zones \ {z}, rules |-> {},
                       now |-> round.now \cup {Rule("saturated", z)}]
          \/ round' = [round EXCEPT !.zones = @ \ {z}]
    BY <1>3 DEF CheckPid
  <2>3. CASE round' = [at |-> "mark", zone |-> z, zones |-> round.zones \ {z}, rules |-> {},
                       now |-> round.now \cup {Rule("saturated", z)}]
    <3>1. round'.now \cap ChannelRules = round.now \cap ChannelRules BY <2>3, Kinds
    <3>2. AlertInv'
      <4> HIDE DEF ChannelRules
      <4> QED BY <1>1, <1>2, <2>1, <2>3, <3>1 DEF AlertInv, AlertsTell
    <3>3. ClockInv' BY <1>1, <1>2, <2>1, <2>2, <2>3 DEF ClockInv, Oldest
    <3> QED BY <3>2, <3>3
  <2>4. CASE round' = [round EXCEPT !.zones = @ \ {z}]
    <3>1. round' = [at |-> "check", rules |-> {}, zones |-> round.zones \ {z},
                    now |-> round.now]
      BY <2>1, <2>4
    <3>2. AlertInv' BY <1>1, <1>2, <2>1, <3>1 DEF AlertInv, AlertsTell
    <3>3. ClockInv' BY <1>1, <1>2, <2>1, <3>1 DEF ClockInv, Oldest
    <3> QED BY <3>2, <3>3
  <2> QED BY <2>2, <2>3, <2>4
<1>4. CASE MarkPid
  <2>1. /\ UNCHANGED <<active, raised, rules>> /\ round.at = "mark"
        /\ pid' = [pid EXCEPT ![round.zone].alerted = TRUE]
        /\ round = [at |-> "mark", zone |-> round.zone, zones |-> round.zones, rules |-> {},
                    now |-> round.now]
        /\ round' = [round EXCEPT !.at = "report"]
        /\ round.zone \in Zones /\ pid[round.zone] # NotHeard
    BY <1>4 DEF MarkPid, ClockInv
  <2>2. round' = [at |-> "report", zone |-> round.zone, zones |-> round.zones, rules |-> {},
                  now |-> round.now]
    BY <2>1
  <2>3. PICK p : p = [pid[round.zone] EXCEPT !.alerted = TRUE] OBVIOUS
  <2>4. p \in Clocks /\ p # NotHeard
    <3>1. pid[round.zone] \in Clocks BY <2>1 DEF ClockInv
    <3>2. /\ p = [sat |-> p.sat, alerted |-> p.alerted]
          /\ p.sat = pid[round.zone].sat /\ p.alerted = TRUE
      BY <2>3, <3>1 DEF Clocks
    <3>3. p.alerted \in BOOLEAN BY <3>2
    <3>4. p \in Clocks BY <3>1, <3>2, <3>3 DEF Clocks
    <3> QED BY <3>4, Heard
  <2>5. pid' = [pid EXCEPT ![round.zone] = p] BY <2>1, <2>3
  <2>6. /\ pid' \in [Zones -> Clocks \cup {NotHeard}]
        /\ \A z \in Zones : pid[z] # NotHeard => pid'[z] # NotHeard
    BY <2>1, <2>4, <2>5 DEF ClockInv
  <2>7. AlertInv' BY <1>1, <1>2, <2>1, <2>2 DEF AlertInv, AlertsTell
  <2>8. ClockInv' BY <1>1, <1>2, <2>1, <2>2, <2>6 DEF ClockInv, Oldest
  <2> QED BY <2>7, <2>8
<1>5. CASE ReportPid
  <2>1. /\ UNCHANGED <<pid, rules>> /\ round.at = "report"
        /\ round.zone \in Zones /\ round.rules = {}
        /\ round.now \cap ChannelRules = found
        /\ round.zones \subseteq {z \in Zones : pid[z] # NotHeard}
    BY <1>5 DEF ReportPid, ClockInv, AlertInv
  <2>2. CASE /\ active' = active \cup {Rule("saturated", round.zone)}
             /\ raised' = raised \cup {Rule("saturated", round.zone)}
             /\ round' = [at |-> "check", rules |-> {}, zones |-> round.zones,
                          now |-> round.now]
    <3>1. Rule("saturated", round.zone) \in PidRules BY <2>1 DEF PidRules
    <3>2. /\ active' \cap ChannelRules = active \cap ChannelRules
          /\ raised' \cap ChannelRules = raised \cap ChannelRules
      BY <2>2, Kinds
    <3>3. active' \subseteq raised' /\ raised' \subseteq ChannelRules \cup PidRules
      BY <2>2, <3>1 DEF ClockInv
    <3>4. AlertInv'
      <4> HIDE DEF ChannelRules
      <4> QED BY <1>1, <1>2, <2>1, <2>2, <3>2 DEF AlertInv, AlertsTell
    <3>5. ClockInv' BY <1>1, <1>2, <2>1, <2>2, <3>3 DEF ClockInv, Oldest
    <3> QED BY <3>4, <3>5
  <2>3. CASE round' = [at |-> "dead"] /\ UNCHANGED <<active, raised>>
    <3>1. AlertInv' BY <1>1, <1>2, <2>1, <2>3 DEF AlertInv, AlertsTell
    <3>2. ClockInv' BY <1>1, <1>2, <2>1, <2>3 DEF ClockInv, Oldest
    <3> QED BY <3>1, <3>2
  <2> QED BY <1>5, <2>2, <2>3 DEF ReportPid
<1>6. CASE PublishRules
  <2>1. /\ UNCHANGED <<pid, active, raised>> /\ round.at = "check" /\ round.rules = {}
        /\ rules' = round.now /\ round' = [at |-> "rest"]
    BY <1>6 DEF PublishRules
  <2>2. AlertInv' BY <1>1, <1>2, <2>1 DEF AlertInv, AlertsTell
  <2>3. ClockInv' BY <1>1, <1>2, <2>1 DEF ClockInv, Oldest
  <2> QED BY <2>2, <2>3
<1> QED BY <1>3, <1>4, <1>5, <1>6 DEF Rest

LEMMA TickAlerts ==
  ASSUME AlertInv, ClockInv, InterlocksTick, UNCHANGED <<found, kept>>
  PROVE  AlertInv' /\ ClockInv'
<1>1. /\ health' = [c \in Channels |->
           IF health[c] = NotHeard \/ health[c].age = Oldest(c) THEN health[c]
           ELSE [health[c] EXCEPT !.age = @ + 1]]
      /\ pid' = [z \in Zones |->
           IF pid[z] = NotHeard \/ pid[z].sat \in {NotSat, SatLimit + 1} THEN pid[z]
           ELSE [pid[z] EXCEPT !.sat = @ + 1]]
      /\ round' = IF round.at = "dead" THEN round
                  ELSE [at |-> "check", rules |-> Checkable,
                        zones |-> {z \in Zones : pid[z] # NotHeard}, now |-> {}]
      /\ UNCHANGED <<active, raised, rules>>
  BY DEF InterlocksTick
<1>2. \A c \in Channels :
        /\ health'[c] \in [age : Int, bad : BOOLEAN] \cup {NotHeard}
        /\ health[c] # NotHeard => health'[c] # NotHeard
        /\ health'[c] # NotHeard => health'[c].age \in 0 .. Oldest(c)
  <2> SUFFICES ASSUME NEW c \in Channels
               PROVE  /\ health'[c] \in [age : Int, bad : BOOLEAN] \cup {NotHeard}
                      /\ health[c] # NotHeard => health'[c] # NotHeard
                      /\ health'[c] # NotHeard => health'[c].age \in 0 .. Oldest(c)
    OBVIOUS
  <2>1. CASE health[c] = NotHeard \/ health[c].age = Oldest(c)
    <3>1. health'[c] = health[c] BY <1>1, <2>1
    <3> QED BY <3>1 DEF ClockInv
  <2>2. CASE ~(health[c] = NotHeard \/ health[c].age = Oldest(c))
    <3>1. PICK h : h = health'[c] OBVIOUS
    <3>2. h = [health[c] EXCEPT !.age = @ + 1] BY <1>1, <2>2, <3>1
    <3>3. health[c] \in [age : Int, bad : BOOLEAN] /\ health[c].age \in 0 .. Oldest(c)
      BY <2>2 DEF ClockInv
    <3>4. /\ h = [age |-> h.age, bad |-> h.bad]
          /\ h.age = health[c].age + 1 /\ h.bad = health[c].bad
      BY <3>2, <3>3
    <3>5. Oldest(c) \in Nat BY LimitsAssumption DEF Oldest, Channels
    <3>6. h.age \in 0 .. Oldest(c) /\ h.age \in Int /\ h.bad \in BOOLEAN
      BY <2>2, <3>3, <3>4, <3>5
    <3> QED BY <3>1, <3>4, <3>6, Heard
  <2> QED BY <2>1, <2>2
<1>3. \A z \in Zones : pid'[z] \in Clocks \cup {NotHeard}
  <2> SUFFICES ASSUME NEW z \in Zones PROVE pid'[z] \in Clocks \cup {NotHeard}
    OBVIOUS
  <2>1. CASE pid[z] = NotHeard \/ pid[z].sat \in {NotSat, SatLimit + 1}
    <3>1. pid'[z] = pid[z] BY <1>1, <2>1
    <3> QED BY <3>1 DEF ClockInv
  <2>2. CASE ~(pid[z] = NotHeard \/ pid[z].sat \in {NotSat, SatLimit + 1})
    <3>1. PICK p : p = pid'[z] OBVIOUS
    <3>2. p = [pid[z] EXCEPT !.sat = @ + 1] BY <1>1, <2>2, <3>1
    <3>3. pid[z] \in Clocks BY <2>2 DEF ClockInv
    <3>4. /\ p = [sat |-> p.sat, alerted |-> p.alerted]
          /\ p.sat = pid[z].sat + 1 /\ p.alerted = pid[z].alerted
      BY <3>2, <3>3 DEF Clocks
    <3>5. p.sat \in NotSat .. SatLimit + 1 /\ p.alerted \in BOOLEAN
      BY <2>2, <3>3, <3>4, LimitsAssumption DEF Clocks, NotSat
    <3> QED BY <3>1, <3>4, <3>5 DEF Clocks
  <2> QED BY <2>1, <2>2
<1>4. Checkable \subseteq Checkable' BY <1>2 DEF Checkable
<1>5. \A z \in Zones : pid[z] # NotHeard => pid'[z] # NotHeard
  <2> SUFFICES ASSUME NEW z \in Zones, pid[z] # NotHeard PROVE pid'[z] # NotHeard
    OBVIOUS
  <2>1. CASE pid[z].sat \in {NotSat, SatLimit + 1} BY <1>1, <2>1
  <2>2. CASE pid[z].sat \notin {NotSat, SatLimit + 1}
    <3>1. PICK p : p = pid'[z] OBVIOUS
    <3>2. p = [pid[z] EXCEPT !.sat = @ + 1] BY <1>1, <2>2, <3>1
    <3>3. pid[z] \in Clocks BY DEF ClockInv
    <3>4. /\ p = [sat |-> p.sat, alerted |-> p.alerted]
          /\ p.sat = pid[z].sat + 1 /\ p.alerted = pid[z].alerted
      BY <3>2, <3>3 DEF Clocks
    <3>5. p.sat \in NotSat .. SatLimit + 1 /\ p.alerted \in BOOLEAN
      BY <2>2, <3>3, <3>4, LimitsAssumption DEF Clocks, NotSat
    <3>6. p \in Clocks BY <3>4, <3>5 DEF Clocks
    <3> QED BY <3>1, <3>6, Heard
  <2> QED BY <2>1, <2>2
<1>6. /\ health' \in [Channels -> [age : Int, bad : BOOLEAN] \cup {NotHeard}]
      /\ pid' \in [Zones -> Clocks \cup {NotHeard}]
  BY <1>1, <1>2, <1>3
<1>7. ChannelRules' = ChannelRules /\ PidRules' = PidRules BY DEF ChannelRules, PidRules
<1>8. CASE round.at = "dead"
  <2>1. round' = round BY <1>1, <1>8
  <2>2. AlertInv' BY <1>1, <1>4, <1>7, <1>8, <2>1 DEF AlertInv, AlertsTell
  <2>3. ClockInv' BY <1>1, <1>2, <1>6, <1>7, <1>8, <2>1 DEF ClockInv, Oldest
  <2> QED BY <2>2, <2>3
<1>9. CASE round.at # "dead"
  <2>1. round' = [at |-> "check", rules |-> Checkable,
                  zones |-> {z \in Zones : pid[z] # NotHeard}, now |-> {}]
    BY <1>1, <1>9
  <2>2. /\ round'.at = "check" /\ round'.rules = Checkable /\ round'.now = {}
        /\ round'.zones = {z \in Zones : pid[z] # NotHeard}
    BY <2>1
  <2>3. AlertInv'
    <3>1. found \subseteq Checkable /\ found \subseteq ChannelRules
          /\ active \cap ChannelRules = found /\ found \cap kept = {}
          /\ raised \cap ChannelRules = (found \cup kept) \cap ChannelRules
      BY DEF AlertInv, AlertsTell
    <3> HIDE DEF ChannelRules, Checkable
    <3> QED BY <1>1, <1>4, <1>7, <2>2, <3>1 DEF AlertInv, AlertsTell
  <2>4. ClockInv'
    <3>1. round'.zones \subseteq {z \in Zones : pid'[z] # NotHeard} BY <1>5, <2>2
    <3>2. round' = [at |-> "check", rules |-> round'.rules, zones |-> round'.zones,
                    now |-> round'.now]
      BY <2>1
    <3> QED BY <1>1, <1>2, <1>6, <1>7, <2>2, <3>1, <3>2 DEF ClockInv, Oldest
  <2> QED BY <2>3, <2>4
<1> QED BY <1>8, <1>9

LEMMA StepAlerts == AlertInv /\ ClockInv /\ [Next]_vars => AlertInv' /\ ClockInv'
<1> SUFFICES ASSUME AlertInv, ClockInv, [Next]_vars PROVE AlertInv' /\ ClockInv'
  OBVIOUS
<1>1. CASE UNCHANGED <<health, pid, active, round, raised, rules, found, kept>>
  <2>1. Checkable' = Checkable BY <1>1 DEF Checkable
  <2>2. AlertInv' BY <1>1, <2>1 DEF AlertInv, AlertsTell
  <2>3. ClockInv' BY <1>1 DEF ClockInv, Oldest
  <2> QED BY <2>2, <2>3
<1>2. CASE Deliver
  <2>1. CASE StateArrives BY <1>1, <2>1 DEF StateArrives, interlocks, alerting
  <2>2. CASE AutoArrives BY <1>1, <2>2 DEF AutoArrives, interlocks, alerting
  <2>3. CASE GasArrives BY <1>1, <2>3 DEF GasArrives, interlocks, alerting
  <2>4. ASSUME NEW v \in Vessels, LevelArrives(v) PROVE AlertInv' /\ ClockInv'
    <3>1. v \in Channels BY VesselsAssumption DEF Channels
    <3>2. OnReading(v, FALSE) /\ UNCHANGED <<found, kept>>
      BY <2>4 DEF LevelArrives, alerting
    <3> QED BY <3>1, <3>2, ReadingAlerts
  <2> QED BY <1>2, <2>1, <2>2, <2>3, <2>4 DEF Deliver
<1>3. CASE Senses
  <2>1. UNCHANGED <<found, kept>> BY <1>3 DEF Senses, alerting
  <2>2. CASE UNCHANGED interlocks BY <1>1, <2>1, <2>2 DEF interlocks
  <2>3. ASSUME NEW c \in Temps, NEW bad \in BOOLEAN, OnReading(c, bad)
        PROVE  AlertInv' /\ ClockInv'
    BY <2>1, <2>3, ReadingAlerts DEF Channels
  <2>4. ASSUME NEW z \in Zones, NEW saturated \in BOOLEAN, OnPid(z, saturated)
        PROVE  AlertInv' /\ ClockInv'
    BY <2>1, <2>4, PidAlerts
  <2> QED BY <1>3, <2>2, <2>3, <2>4 DEF Senses
<1>4. CASE RoundStep
  <2>1. CASE /\ round.at = "check"
             /\ \E r \in round.rules :
                  /\ CheckRule(r)
                  /\ found' = IF Holds(r) THEN found \cup {r} ELSE found \ {r}
                  /\ kept' = IF Holds(r) THEN kept \ {r} ELSE kept
    BY <2>1, RuleAlerts
  <2>2. CASE Rest /\ UNCHANGED <<found, kept>> BY <2>2, RestAlerts
  <2> QED BY <1>4, <2>1, <2>2 DEF RoundStep
<1>5. CASE Tick BY <1>5, TickAlerts DEF Tick, alerting
<1>6. CASE Restart
  <2>1. /\ health' = [c \in Channels |-> NotHeard] /\ pid' = [z \in Zones |-> NotHeard]
        /\ active' = {} /\ round' = [at |-> "new"] /\ UNCHANGED <<raised, rules>>
        /\ found' = {} /\ kept' = raised
    BY <1>6 DEF Restart, InterlocksStart
  <2>2. AlertInv' BY <2>1 DEF AlertInv, AlertsTell
  <2>3. ClockInv' BY <2>1 DEF ClockInv
  <2> QED BY <2>2, <2>3
<1>7. ASSUME NEW m \in Commands, Sends(m) PROVE AlertInv' /\ ClockInv'
  BY <1>1, <1>7 DEF Sends, interlocks, alerting
<1>8. CASE PlcStep BY <1>1, <1>8 DEF PlcStep, interlocks, alerting
<1>9. CASE WatchStep BY <1>1, <1>9 DEF WatchStep, interlocks, alerting
<1>10. CASE UNCHANGED vars BY <1>1, <1>10 DEF vars, interlocks, alerting
<1>11. CASE CallStep BY <1>1, <1>11 DEF CallStep, interlocks, alerting
<1> QED BY <1>2, <1>3, <1>4, <1>5, <1>6, <1>7, <1>8, <1>9, <1>10, <1>11 DEF Next

(* The alerts of channels the broker keeps are those that held in the last *)
(* round and those of earlier processes that have not held since; between  *)
(* rounds the published list agrees (AlertsTell).                          *)
THEOREM AlertsTrue == Spec => []AlertsTell
<1>1. AlertInv => AlertsTell BY DEF AlertInv
<1> QED BY <1>1, InitAlerts, StepAlerts, PTL DEF Spec

(* Each variable has its type: registers, statuses, timers of fills, ages  *)
(* of readings, and the count of refused commands, never more than were    *)
(* sent.                                                                   *)
THEOREM TypeCorrect == Spec => []TypeOK
<1>1. GrantInv /\ FillInv /\ PollInv /\ RefusedInv /\ AlertInv /\ ClockInv => TypeOK
  <2> SUFFICES ASSUME GrantInv, FillInv, PollInv, RefusedInv, ClockInv PROVE TypeOK
    OBVIOUS
  <2>1. refused \in 0 .. MaxEvents
    <3>1. Cardinality(GasIn(bus)) \in Nat BY GasCount DEF GrantInv
    <3> QED BY <3>1, EventsAssumption DEF RefusedInv
  <2>2. \A v \in Vessels : /\ fill[v].since \in (0 .. Timeout + 1) \cup {Never}
                           /\ fill[v].open = (fill[v].since # Never)
                           /\ fill[v].level \in Levels /\ air[v] \subseteq Levels
    <3> SUFFICES ASSUME NEW v \in Vessels
                 PROVE  /\ fill[v].since \in (0 .. Timeout + 1) \cup {Never}
                        /\ fill[v].open = (fill[v].since # Never)
                        /\ fill[v].level \in Levels /\ air[v] \subseteq Levels
      OBVIOUS
    <3>1. fill[v] \in States /\ air[v] \subseteq Levels BY DEF FillInv, FillTypes
    <3>2. fill[v].open \in BOOLEAN BY <3>1 DEF States
    <3>3. fill[v].open <=> fill[v].since # Never BY DEF FillInv, FillTypes
    <3>4. fill[v].open = (fill[v].since # Never) BY <3>2, <3>3
    <3> QED BY <3>1, <3>4 DEF States, Times
  <2>3. \A z \in Zones : pid[z] # NotHeard => pid[z].sat \in NotSat .. SatLimit + 1
    BY DEF ClockInv, Clocks
  <2>4. {relayReg, relay} \subseteq [Gases -> BOOLEAN]
        /\ shown \in [Gases -> [desired : BOOLEAN \cup {Unread}, state : BOOLEAN \cup {Unread}]]
    BY DEF PollInv, PollTypes, Statuses, Answers
  <2> QED BY <2>1, <2>2, <2>3, <2>4 DEF TypeOK, GrantInv, FillInv, FillTypes, RefusedInv, ClockInv
<1> QED BY <1>1, InitGrant, StepGrant, InitFill, StepFill, InitPoll, StepPoll,
        InitRefused, StepRefused, InitAlerts, StepAlerts, PTL DEF Spec
=============================================================================
