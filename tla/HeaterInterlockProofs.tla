----------------------- MODULE HeaterInterlockProofs -----------------------
(* Proofs about HeaterInterlock, for any number of zones and channels, any *)
(* plausible temperatures, bands, expressions and staleness limit.         *)
EXTENDS HeaterInterlock, TLAPS

(* Every value the program can put into a register is a plausible          *)
(* temperature, a surrogate or not a number, and none of them is the mark  *)
(* of a missing reading.                                                   *)
LEMMA Values ==
  /\ Temps \subseteq Reg /\ PvSafe \in Reg /\ SpSafe \in Reg
  /\ Readings \subseteq Reg /\ NoReading \notin Reg
  /\ Setpoints \subseteq Reg /\ PvValues \subseteq Reg
  /\ \A v \in Reg : v = NaN \/ v \in Int
<1>1. Temps \subseteq Reg /\ PvSafe \in Reg /\ SpSafe \in Reg
  BY DEF Reg
<1>2. Readings \subseteq Reg /\ Setpoints \subseteq Reg /\ PvValues \subseteq Reg
  BY InputAssumption DEF Reg
<1>3. NoReading \notin Reg /\ \A v \in Reg : v = NaN \/ v \in Int
  BY TempsAssumption, SurrogateAssumption, NaNAssumption DEF Reg
<1>4. QED
  BY <1>1, <1>2, <1>3

(* The first zone and channel exist, and ages stay in their range.         *)
LEMMA Ranges ==
  /\ 1 \in Zone /\ 1 \in Rtd
  /\ StaleS \in Nat /\ Never = StaleS + 1
  /\ 0 \in 0 .. Never /\ Never \in 0 .. Never
  BY CountsAssumption DEF Zone, Rtd, Never

(* What an expression evaluates to fits a register.                        *)
LEMMA EvaluateInReg ==
  ASSUME rtd \in [Rtd -> Readings \cup {NoReading}],
         NEW e \in SpExprs \cup PvExprs, NEW v \in Evaluate(e)
  PROVE  v \in Reg /\ v # NoReading
<1>1. CASE e.kind = "num"
  BY <1>1, InputAssumption, Values DEF Evaluate
<1>2. CASE e.kind = "rtd"
  <2>1. v = rtd[e.arg] /\ v # NoReading
    BY <1>2 DEF Evaluate
  <2>2. e.arg \in Rtd
    BY <1>2, InputAssumption
  <2>3. QED
    BY <2>1, <2>2, Values
<1>3. CASE e.kind \notin {"num", "rtd"}
  BY <1>3 DEF Evaluate
<1>4. QED
  BY <1>1, <1>2, <1>3

LEMMA TypeInit == Init => TypeOK
<1> SUFFICES ASSUME Init PROVE TypeOK
  OBVIOUS
<1>1. NoExpr \in SpExprs /\ NoExpr \in PvExprs /\ DefaultBand \in Bands
  BY BandAssumption, InputAssumption
<1>2. PlcOK
  BY Values DEF Init, PlcOK
<1>3. DriverOK
  BY <1>1, Ranges DEF Init, DriverOK
<1>4. PollOK /\ HistoryOK
  BY <1>1 DEF Init, PollOK, HistoryOK, Ops, OnZones, OnRtds
<1>5. QED
  BY <1>2, <1>3, <1>4 DEF TypeOK

(* A register write keeps a register file's type.                          *)
LEMMA Put ==
  ASSUME NEW S, NEW T, NEW f \in [S -> T], NEW i \in S, NEW v \in T
  PROVE  [f EXCEPT ![i] = v] \in [S -> T]
  OBVIOUS

(* The poll moves only where AfterExpr, AfterMirror and the legs send it.  *)
LEMMA TypeExprs ==
  ASSUME TypeOK, NEW k \in {"sp", "pv"}, EvalExpr(k) \/ WriteExpr(k)
  PROVE  TypeOK'
<1> USE DEF TypeOK
<1>1. AfterExpr(k, at) => \/ pc' \in {"sp", "pv"} /\ at' \in Zone
                          \/ pc' = "judge" /\ at' = 1
  <2>1. at \in Zone
    BY DEF PollOK, OnZones, EvalExpr, WriteExpr, WriterOf
  <2>2. QED
    BY <2>1, CountsAssumption DEF AfterExpr, Goto, Zone
<1>2. CASE EvalExpr(k)
  <2>1. PlcOK' /\ DriverOK' /\ HistoryOK'
    BY <1>2 DEF EvalExpr, EndPoll, PlcOK, DriverOK, HistoryOK, plc, comms,
                cache, exprs, limits, hist, ended
  <2>2. at \in Zone /\ ExprOf(k, at) \in SpExprs \cup PvExprs
    BY <1>2 DEF EvalExpr, PollOK, OnZones, DriverOK, ExprOf
  <2>3. \A v \in Evaluate(ExprOf(k, at)) : v \in Reg /\ v # NoReading
    BY <2>2, EvaluateInReg DEF DriverOK
  <2>4. CASE EndPoll("error")
    BY <2>1, <2>4, BandAssumption DEF EndPoll, Goto, PollOK, Ops, OnZones, OnRtds
  <2>5. CASE AfterExpr(k, at) /\ UNCHANGED <<val, pollBand, reason>>
    BY <1>1, <2>1, <2>5, Ranges DEF PollOK, Ops, OnZones, OnRtds
  <2>6. CASE /\ \E v \in Evaluate(ExprOf(k, at)) : val' = v
             /\ Goto(WriterOf(k), at)
             /\ UNCHANGED <<pollBand, reason>>
    BY <2>1, <2>2, <2>3, <2>6 DEF PollOK, Ops, OnZones, OnRtds, Goto, WriterOf
  <2>7. QED
    BY <1>2, <2>1, <2>4, <2>5, <2>6 DEF EvalExpr
<1>3. CASE WriteExpr(k)
  <2>1. at \in Zone /\ val \in Reg
    BY <1>3 DEF WriteExpr, WriterOf, PollOK, OnZones
  <2>2. PlcOK'
    BY <1>3, <2>1 DEF WriteExpr, Lands_Lost, PlcOK, plc
  <2>3. DriverOK'
    BY <1>3 DEF WriteExpr, DriverOK, comms, cache, exprs, limits
  <2>4. HistoryOK'
    BY <1>3 DEF WriteExpr, Lands_Lost, HistoryOK
  <2>5. PollOK'
    BY <1>3, <1>1, Ranges DEF WriteExpr, PollOK, Ops, OnZones, OnRtds
  <2>6. QED
    BY <2>2, <2>3, <2>4, <2>5
<1>4. QED
  BY <1>2, <1>3

LEMMA TypeMirror == ASSUME TypeOK, WriteMirror PROVE TypeOK'
<1> USE DEF TypeOK
<1>1. at \in Rtd /\ MirrorValue(at) \in Reg \cup {NoReading}
  BY Values DEF WriteMirror, MirrorValue, PollOK, OnRtds, DriverOK
<1>2. \/ pc' = "mirror" /\ at' \in Rtd
      \/ pc' \in {"finish", "pvLeg"} /\ at' = 1
  BY <1>1, CountsAssumption DEF WriteMirror, AfterMirror, Goto, Rtd
<1>3. PlcOK'
  BY <1>1 DEF WriteMirror, Lands_Lost, PlcOK, plc
<1>4. DriverOK'
  BY DEF WriteMirror, DriverOK, comms, cache, exprs, limits
<1>5. HistoryOK'
  BY DEF WriteMirror, Lands_Lost, HistoryOK
<1>6. PollOK'
  BY <1>2, Ranges DEF WriteMirror, PollOK, Ops, OnZones, OnRtds
<1>7. QED
  BY <1>3, <1>4, <1>5, <1>6

LEMMA TypeLegs == ASSUME TypeOK, PvLeg \/ SpLeg \/ OutLeg PROVE TypeOK'
<1> USE DEF TypeOK
<1>1. at \in Zone
  BY DEF PvLeg, SpLeg, OutLeg, PollOK, OnZones
<1>2. \/ pc' \in {"pvLeg", "spLeg", "outLeg"} /\ at' \in Zone
      \/ pc' = "finish" /\ at' = 1
  BY <1>1, CountsAssumption DEF PvLeg, SpLeg, OutLeg, Goto, Zone
<1>3. PlcOK'
  BY <1>1, Values DEF PvLeg, SpLeg, OutLeg, Lands_Lost, PlcOK, plc
<1>4. DriverOK'
  BY DEF PvLeg, SpLeg, OutLeg, DriverOK, comms, cache, exprs, limits
<1>5. HistoryOK'
  BY <1>1 DEF PvLeg, SpLeg, OutLeg, Lands_Lost, HistoryOK
<1>6. PollOK'
  BY <1>2, Ranges DEF PvLeg, SpLeg, OutLeg, PollOK, Ops, OnZones, OnRtds
<1>7. QED
  BY <1>3, <1>4, <1>5, <1>6

LEMMA TypePoll == ASSUME TypeOK, PollStep PROVE TypeOK'
<1> USE Ranges, BandAssumption
    DEF TypeOK, Goto, EndPoll, plc, comms, cache, exprs, limits, hist, ended
<1>1. CASE PollStart \/ ReadAndPublish
  <2>1. PlcOK' /\ DriverOK' /\ HistoryOK'
    BY <1>1 DEF PollStart, ReadAndPublish, PlcOK, DriverOK, HistoryOK
  <2>2. PollOK'
    BY <1>1 DEF PollStart, ReadAndPublish, PollOK, Ops, OnZones, OnRtds
  <2>3. QED
    BY <2>1, <2>2
<1>2. CASE JudgeValue \/ JudgeAge
  <2>1. PlcOK' /\ DriverOK' /\ HistoryOK'
    BY <1>2 DEF JudgeValue, JudgeAge, PlcOK, DriverOK, HistoryOK
  <2>2. at \in Rtd /\ rtd[at] \in Reg \cup {NoReading} /\ band \in Bands
    BY <1>2, Values DEF JudgeValue, JudgeAge, PollOK, OnRtds, DriverOK
  <2>3. at < NumRtd => at + 1 \in Rtd
    BY <2>2, CountsAssumption DEF Rtd
  <2>4. PollOK'
    BY <1>2, <2>2, <2>3 DEF JudgeValue, JudgeAge, PollOK, Ops, OnZones, OnRtds
  <2>5. QED
    BY <2>1, <2>4
<1>3. CASE Finish \/ PollLoses
  <2>1. PlcOK' /\ DriverOK' /\ HistoryOK'
    BY <1>3 DEF Finish, PollLoses, PollFails, PlcOK, DriverOK, HistoryOK
  <2>2. PollOK'
    BY <1>3 DEF Finish, PollLoses, PollFails, PollOK, Ops, OnZones, OnRtds
  <2>3. QED
    BY <2>1, <2>2
<1>4. QED
  BY <1>1, <1>2, <1>3, TypeExprs, TypeMirror, TypeLegs DEF PollStep

LEMMA TypeCommand == ASSUME TypeOK, Command \/ LabJack PROVE TypeOK'
<1> USE Values, Ranges
    DEF TypeOK, PlcOK, DriverOK, HistoryOK, PollOK, plc, comms, cache, exprs,
        limits, hist, ended, poll, Commanded
<1>1. ASSUME NEW z \in Zone, NEW v \in Setpoints, OnPidSetpoint(z, v)
      PROVE  TypeOK'
  BY <1>1, InputAssumption DEF OnPidSetpoint
<1>2. ASSUME NEW z \in Zone, NEW e \in SpExprs, OnPidSetpointExpr(z, e)
      PROVE  TypeOK'
  BY <1>2 DEF OnPidSetpointExpr
<1>3. ASSUME NEW z \in Zone, NEW e \in PvExprs, OnPidPvExprSet(z, e)
      PROVE  TypeOK'
  BY <1>3 DEF OnPidPvExprSet
<1>4. ASSUME NEW z \in Zone, NEW v \in PvValues, OnPidPvWrite(z, v)
      PROVE  TypeOK'
  BY <1>4 DEF OnPidPvWrite
<1>5. ASSUME NEW z \in Zone, NEW b \in BOOLEAN, OnPidOutput(z, b) \/ OnPidMode(z, b)
      PROVE  TypeOK'
  BY <1>5 DEF OnPidOutput, OnPidMode
<1>6. ASSUME NEW z \in Zone, OnPidAutotune(z)
      PROVE  TypeOK'
  BY <1>6 DEF OnPidAutotune
<1>7. ASSUME NEW b \in Bands, OnPvInterlockLimits(b)
      PROVE  TypeOK'
  BY <1>7 DEF OnPvInterlockLimits
<1>8. ASSUME NEW c \in Rtd, NEW v \in Readings, LabJackRtd(c, v)
      PROVE  TypeOK'
  BY <1>8 DEF LabJackRtd
<1>9. QED
  BY <1>1, <1>2, <1>3, <1>4, <1>5, <1>6, <1>7, <1>8 DEF Command, LabJack

LEMMA TypeEnvironment == ASSUME TypeOK, Environment PROVE TypeOK'
<1> USE DEF TypeOK, PlcOK, DriverOK, HistoryOK, PollOK, plc, comms, cache,
            exprs, limits, hist, ended, poll
<1>1. ASSUME NEW z \in Zone, PlcScan(z)
      PROVE  TypeOK'
  <2>1. PICK on \in BOOLEAN : out' = [out EXCEPT ![z] = on]
    BY <1>1 DEF PlcScan
  <2>2. out' \in [Zone -> BOOLEAN]
    BY <2>1, Put
  <2>3. QED
    BY <1>1, <2>2 DEF PlcScan
<1>2. ASSUME NEW z \in Zone, AutotuneEnds(z)
      PROVE  TypeOK'
  BY <1>2 DEF AutotuneEnds
<1>3. CASE LinkDown \/ LinkUp
  <2>1. PlcOK' /\ HistoryOK' /\ PollOK'
    BY <1>3 DEF LinkDown, LinkUp
  <2>2. DriverOK'
    BY <1>3 DEF LinkDown, LinkUp
  <2>3. QED
    BY <2>1, <2>2
<1>4. CASE Exit
  <2>1. age' \in [Rtd -> 0 .. Never] /\ rtd' \in [Rtd -> Readings \cup {NoReading}]
    BY <1>4, Ranges DEF Exit
  <2>2. spExpr' \in [Zone -> SpExprs] /\ pvExpr' \in [Zone -> PvExprs]
    BY <1>4, InputAssumption DEF Exit
  <2>3. QED
    BY <1>4, <2>1, <2>2, BandAssumption DEF Exit, Goto, Ops, OnZones, OnRtds
<1>5. CASE Start
  <2>1. UNCHANGED <<plc, link, cache, exprs, saved, tripped, poll, hist, ended>>
    BY <1>5 DEF Start
  <2>2. /\ proc' \in {"polling", "disabled"} /\ conn' \in {"up", conn} /\ due' \in {TRUE, due}
        /\ band' = saved
    BY <1>5 DEF Start, LoadLimits
  <2>3. PlcOK' /\ HistoryOK' /\ PollOK' BY <2>1
  <2>4. DriverOK' BY <2>1, <2>2
  <2> QED BY <2>3, <2>4
<1>6. CASE Tick
  <2>1. age' \in [Rtd -> 0 .. Never]
    BY <1>6, CountsAssumption DEF Tick, Never
  <2>2. QED
    BY <1>6, <2>1 DEF Tick
<1>7. QED
  BY <1>1, <1>2, <1>3, <1>4, <1>5, <1>6 DEF Environment

(* Type correctness of the interlock: every register, cache, local and     *)
(* cursor keeps its type, whatever the commands, faults and restarts.      *)
(* (plc.py poll, its callbacks and the reconnect path.)                    *)
THEOREM TypeCorrect == Spec => []TypeOK
<1>1. TypeOK /\ [Next]_vars => TypeOK'
  <2>1. TypeOK /\ UNCHANGED vars => TypeOK'
    BY DEF TypeOK, PlcOK, DriverOK, HistoryOK, PollOK, vars, plc, comms, cache,
           exprs, limits, hist, ended, poll
  <2>2. QED
    BY <2>1, TypePoll, TypeCommand, TypeEnvironment DEF Next
<1>2. QED
  BY <1>1, TypeInit, PTL DEF Spec

-----------------------------------------------------------------------------
(* A zeroed zone stays zeroed: the invariant needs to know of the two legs *)
(* already written when the third one makes the zone held.                 *)

(* The poll's own steps, the three legs apart.                             *)
LEMMA HeldPoll ==
  ASSUME TypeOK, HeldMeansZeroed, LegsInv, PollStep, ~PvLeg, ~SpLeg, ~OutLeg
  PROVE  HeldMeansZeroed' /\ LegsInv'
<1>1. ASSUME UNCHANGED <<sp, pvRaw, out, held>>, pc' \notin {"spLeg", "outLeg"}
      PROVE  HeldMeansZeroed' /\ LegsInv'
  BY <1>1 DEF HeldMeansZeroed, Zeroed, LegsInv
<1> USE DEF plc, hist, Goto, EndPoll
<1>2. CASE PollStart
  <2>1. pc' \notin {"spLeg", "outLeg"}
    BY <1>2 DEF PollStart
  <2>2. QED
    BY <1>1, <1>2, <2>1 DEF PollStart
<1>3. CASE ReadAndPublish \/ JudgeValue \/ JudgeAge \/ Finish \/ PollLoses
  BY <1>1, <1>3 DEF ReadAndPublish, JudgeValue, JudgeAge, Finish, PollLoses, PollFails
<1>4. ASSUME NEW k \in {"sp", "pv"}, EvalExpr(k)
      PROVE  HeldMeansZeroed' /\ LegsInv'
  <2>1. pc' \notin {"spLeg", "outLeg"}
    BY <1>4 DEF EvalExpr, AfterExpr, WriterOf
  <2>2. QED
    BY <1>1, <1>4, <2>1 DEF EvalExpr
<1>5. ASSUME NEW k \in {"sp", "pv"}, WriteExpr(k)
      PROVE  HeldMeansZeroed' /\ LegsInv'
  <2>1. pc' \notin {"spLeg", "outLeg"}
    BY <1>5 DEF WriteExpr, AfterExpr
  <2>2. CASE Lands_Lost
    BY <1>1, <1>5, <2>1, <2>2 DEF Lands_Lost
  <2>3. CASE ~Lands_Lost
    <3>1. /\ held' = held \ {at} /\ out' = out
          /\ \A z \in Zone \ {at} : sp'[z] = sp[z] /\ pvRaw'[z] = pvRaw[z]
      BY <1>5, <2>3 DEF WriteExpr, TypeOK, PlcOK
    <3>2. QED
      BY <2>1, <3>1 DEF HeldMeansZeroed, Zeroed, LegsInv, TypeOK, HistoryOK
  <2>4. QED
    BY <2>2, <2>3
<1>6. CASE WriteMirror
  <2>1. pc' \notin {"spLeg", "outLeg"}
    BY <1>6 DEF WriteMirror, AfterMirror
  <2>2. UNCHANGED <<sp, pvRaw, out, held>>
    BY <1>6 DEF WriteMirror, Lands_Lost
  <2>3. QED
    BY <1>1, <2>1, <2>2
<1>7. QED
  BY <1>2, <1>3, <1>4, <1>5, <1>6 DEF PollStep

(* The legs, in their order.                                               *)
LEMMA HeldLegs ==
  ASSUME TypeOK, HeldMeansZeroed, LegsInv, PvLeg \/ SpLeg \/ OutLeg
  PROVE  HeldMeansZeroed' /\ LegsInv'
<1> USE DEF TypeOK, PlcOK, HistoryOK, HeldMeansZeroed, Zeroed, Goto, plc
<1>1. at \in Zone
  BY DEF PollOK, OnZones, PvLeg, SpLeg, OutLeg
<1>2. CASE PvLeg
  <2>1. CASE Lands_Lost
    BY <1>2, <2>1 DEF PvLeg, Lands_Lost, LegsInv
  <2>2. CASE ~Lands_Lost
    <3>1. pc' = "spLeg" /\ at' = at /\ pvRaw'[at] = PvSafe
      BY <1>1, <1>2, <2>2 DEF PvLeg
    <3>2. HeldMeansZeroed'
      BY <1>1, <1>2, <2>2 DEF PvLeg
    <3>3. QED
      BY <3>1, <3>2 DEF LegsInv
  <2>3. QED
    BY <2>1, <2>2
<1>3. CASE SpLeg
  <2>1. CASE Lands_Lost
    BY <1>3, <2>1 DEF SpLeg, Lands_Lost, LegsInv
  <2>2. CASE ~Lands_Lost
    <3>1. /\ pc' = "outLeg" /\ at' = at /\ sp'[at] = SpSafe
          /\ UNCHANGED <<pvRaw, cmdLegs, missed>>
      BY <1>1, <1>3, <2>2 DEF SpLeg
    <3>2. HeldMeansZeroed'
      BY <1>1, <1>3, <2>2 DEF SpLeg
    <3>3. QED
      BY <1>3, <3>1, <3>2 DEF LegsInv, SpLeg
  <2>3. QED
    BY <2>1, <2>2
<1>4. CASE OutLeg
  <2>1. LegsInv'
    BY <1>4 DEF OutLeg, LegsInv
  <2>2. CASE Lands_Lost
    BY <1>4, <2>1, <2>2 DEF OutLeg, Lands_Lost
  <2>3. CASE ~Lands_Lost
    <3>1. /\ UNCHANGED <<sp, pvRaw>> /\ ~out'[at]
          /\ \A z \in Zone \ {at} : out'[z] = out[z]
      BY <1>1, <1>4, <2>3 DEF OutLeg
    <3>2. held' = held \/ (held' = held \cup {at} /\ ~missed /\ at \notin cmdLegs)
      BY <1>4, <2>3 DEF OutLeg
    <3>3. QED
      BY <1>4, <2>1, <3>1, <3>2 DEF OutLeg, LegsInv
  <2>4. QED
    BY <2>2, <2>3
<1>5. QED
  BY <1>2, <1>3, <1>4

(* A command releases the zone it writes to.                               *)
LEMMA HeldCommand ==
  ASSUME TypeOK, HeldMeansZeroed, LegsInv, Command \/ LabJack
  PROVE  HeldMeansZeroed' /\ LegsInv'
<1>1. ASSUME UNCHANGED <<sp, pvRaw, out, held, pc, at, cmdLegs, missed>>
      PROVE  HeldMeansZeroed' /\ LegsInv'
  BY <1>1 DEF HeldMeansZeroed, Zeroed, LegsInv
<1>2. ASSUME NEW z \in Zone, held' = held \ {z}, cmdLegs' = cmdLegs \cup {z},
             \A y \in Zone \ {z} :
               sp'[y] = sp[y] /\ pvRaw'[y] = pvRaw[y] /\ out'[y] = out[y],
             UNCHANGED <<pc, at, missed>>
      PROVE  HeldMeansZeroed' /\ LegsInv'
  <2>1. HeldMeansZeroed'
    BY <1>2 DEF HeldMeansZeroed, Zeroed, TypeOK, HistoryOK
  <2>2. pc \in {"spLeg", "outLeg"} => at \in Zone
    BY DEF TypeOK, PollOK, OnZones
  <2>3. LegsInv'
    BY <1>2, <2>2 DEF LegsInv
  <2>4. QED
    BY <2>1, <2>3
<1> USE DEF TypeOK, PlcOK, plc, comms, limits, hist, ended, poll, Commanded
<1>3. ASSUME NEW z \in Zone, NEW v \in Setpoints, OnPidSetpoint(z, v)
      PROVE  HeldMeansZeroed' /\ LegsInv'
  <2>1. CASE /\ sp' = [sp EXCEPT ![z] = v]
             /\ cmdLegs' = cmdLegs \cup {z} /\ held' = held \ {z}
    BY <1>2, <1>3, <2>1 DEF OnPidSetpoint
  <2>2. CASE UNCHANGED <<sp, cmdLegs, held>>
    BY <1>1, <1>3, <2>2 DEF OnPidSetpoint
  <2>3. QED
    BY <1>3, <2>1, <2>2 DEF OnPidSetpoint
<1>4. ASSUME NEW z \in Zone, NEW v \in PvValues, OnPidPvWrite(z, v)
      PROVE  HeldMeansZeroed' /\ LegsInv'
  BY <1>2, <1>4 DEF OnPidPvWrite
<1>5. ASSUME NEW z \in Zone, NEW b \in BOOLEAN, OnPidOutput(z, b)
      PROVE  HeldMeansZeroed' /\ LegsInv'
  BY <1>2, <1>5 DEF OnPidOutput
<1>6. ASSUME NEW z \in Zone, NEW e, OnPidSetpointExpr(z, e) \/ OnPidPvExprSet(z, e)
      PROVE  HeldMeansZeroed' /\ LegsInv'
  BY <1>1, <1>6 DEF OnPidSetpointExpr, OnPidPvExprSet
<1>7. ASSUME NEW z \in Zone, NEW b \in BOOLEAN, OnPidMode(z, b) \/ OnPidAutotune(z)
      PROVE  HeldMeansZeroed' /\ LegsInv'
  BY <1>1, <1>7 DEF OnPidMode, OnPidAutotune
<1>8. ASSUME NEW b \in Bands, OnPvInterlockLimits(b)
      PROVE  HeldMeansZeroed' /\ LegsInv'
  BY <1>1, <1>8 DEF OnPvInterlockLimits
<1>9. ASSUME NEW c \in Rtd, NEW v \in Readings, LabJackRtd(c, v)
      PROVE  HeldMeansZeroed' /\ LegsInv'
  BY <1>1, <1>9 DEF LabJackRtd
<1>10. QED
  BY <1>3, <1>4, <1>5, <1>6, <1>7, <1>8, <1>9 DEF Command, LabJack

(* A PID of a held zone sees a PV that is not below its setpoint, whatever *)
(* register the PV comes from, and so leaves the output at zero.           *)
LEMMA HeldEnvironment ==
  ASSUME TypeOK, HeldMeansZeroed, LegsInv, Environment
  PROVE  HeldMeansZeroed' /\ LegsInv'
<1> USE DEF HeldMeansZeroed, Zeroed, plc, comms, limits, hist, ended, poll
<1>1. ASSUME NEW z \in Zone, PlcScan(z)
      PROVE  HeldMeansZeroed' /\ LegsInv'
  <2>1. PICK p \in PvSeen(z), on \in BOOLEAN :
          Demands(sp[z], p, on) /\ out' = [out EXCEPT ![z] = on]
    BY <1>1 DEF PlcScan
  <2>2. ASSUME z \in held PROVE ~on
    <3>1. sp[z] = SpSafe /\ p \in {PvSafe} \cup ExternalPv
      BY <2>1, <2>2 DEF PvSeen
    <3>2. p \in Int /\ SpSafe \in Int /\ SpSafe < p
      BY <3>1, SurrogateAssumption, InputAssumption, TempsAssumption
    <3>3. sp[z] # NaN /\ p # NaN /\ ~(p < sp[z])
      BY <3>1, <3>2, NaNAssumption
    <3>4. QED
      BY <2>1, <3>3, Zenon DEF Demands
  <2>3. HeldMeansZeroed'
    BY <1>1, <2>1, <2>2 DEF PlcScan, TypeOK, PlcOK, HistoryOK
  <2>4. LegsInv'
    BY <1>1 DEF PlcScan, LegsInv
  <2>5. QED
    BY <2>3, <2>4
<1>2. ASSUME NEW z \in Zone, AutotuneEnds(z)
      PROVE  HeldMeansZeroed' /\ LegsInv'
  BY <1>2 DEF AutotuneEnds, LegsInv
<1>3. CASE Exit
  BY <1>3 DEF Exit, LegsInv, Goto
<1>4. CASE LinkDown \/ LinkUp \/ Start \/ Tick
  BY <1>4 DEF LinkDown, LinkUp, Start, LoadLimits, Tick, LegsInv
<1>5. QED
  BY <1>1, <1>2, <1>3, <1>4 DEF Environment

(* From the third leg on a zone's setpoint, PV and output stay at their    *)
(* safe values until a command or an expression writes to that zone again: *)
(* for any number of zones and whatever the PID, the link and the process  *)
(* do in between.  (plc.py _write_labjack_to_plc.)                         *)
THEOREM HeldSafe == Spec => []HeldMeansZeroed
<1>1. Init => HeldMeansZeroed /\ LegsInv
  BY DEF Init, HeldMeansZeroed, LegsInv
<1>2. TypeOK /\ HeldMeansZeroed /\ LegsInv /\ [Next]_vars
        => HeldMeansZeroed' /\ LegsInv'
  <2>1. ASSUME HeldMeansZeroed, LegsInv, UNCHANGED vars
        PROVE  HeldMeansZeroed' /\ LegsInv'
    BY <2>1 DEF HeldMeansZeroed, Zeroed, LegsInv, vars, plc, hist, ended, poll
  <2>2. QED
    BY <2>1, HeldPoll, HeldLegs, HeldCommand, HeldEnvironment DEF Next, PollStep
<1>3. QED
  BY <1>1, <1>2, TypeCorrect, PTL DEF Spec
-----------------------------------------------------------------------------
(* A heater is not turned back on unasked.                                 *)

LEMMA AskedStep ==
  ASSUME TypeOK, AskedInv, [Next]_vars
  PROVE  /\ AskedInv'
         /\ \A z \in Zone : sp[z] = SpSafe /\ sp'[z] # SpSafe => z \in asked'
<1> DEFINE Fresh == \A z \in Zone : sp[z] = SpSafe /\ sp'[z] # SpSafe => z \in asked'
<1>1. ASSUME UNCHANGED <<sp, spExpr, asked>>, pc' \in {"spWrite"} => UNCHANGED <<pc, at>>
      PROVE  AskedInv' /\ Fresh
  BY <1>1 DEF AskedInv
<1> USE DEF plc, exprs, hist, Goto, EndPoll
<1>2. CASE PollStep
  <2>1. CASE PollStart
    BY <1>1, <2>1 DEF PollStart
  <2>2. CASE ReadAndPublish \/ JudgeValue \/ JudgeAge \/ Finish \/ PollLoses
    BY <1>1, <2>2 DEF ReadAndPublish, JudgeValue, JudgeAge, Finish, PollLoses, PollFails
  <2>3. ASSUME NEW k \in {"sp", "pv"}, EvalExpr(k)
        PROVE  AskedInv' /\ Fresh
    <3>1. at \in Zone
      BY <2>3 DEF EvalExpr, TypeOK, PollOK, OnZones
    <3>2. pc' = "spWrite" => at' = at /\ spExpr[at].kind # "none"
      BY <2>3 DEF EvalExpr, AfterExpr, WriterOf, ExprOf, Evaluate
    <3>3. QED
      BY <2>3, <3>1, <3>2 DEF EvalExpr, AskedInv
  <2>4. ASSUME NEW k \in {"sp", "pv"}, WriteExpr(k)
        PROVE  AskedInv' /\ Fresh
    <3>1. pc' # "spWrite" /\ UNCHANGED <<spExpr, asked>>
      BY <2>4 DEF WriteExpr, AfterExpr
    <3>2. k = "sp" => at \in asked
      BY <2>4 DEF WriteExpr, WriterOf, AskedInv
    <3>3. \A z \in Zone : sp'[z] # sp[z] => z = at /\ k = "sp"
      BY <2>4 DEF WriteExpr, Lands_Lost, TypeOK, PlcOK
    <3>4. QED
      BY <3>1, <3>2, <3>3 DEF AskedInv
  <2>5. CASE WriteMirror \/ PvLeg \/ OutLeg
    <3>1. pc' # "spWrite" /\ UNCHANGED <<spExpr, asked, sp>>
      BY <2>5 DEF WriteMirror, PvLeg, OutLeg, AfterMirror, Lands_Lost
    <3>2. QED
      BY <1>1, <3>1
  <2>6. CASE SpLeg
    <3>1. pc' # "spWrite" /\ UNCHANGED <<spExpr, asked>>
      BY <2>6 DEF SpLeg
    <3>2. \A z \in Zone : sp'[z] # sp[z] => sp'[z] = SpSafe
      BY <2>6 DEF SpLeg, Lands_Lost, TypeOK, PlcOK
    <3>3. QED
      BY <3>1, <3>2 DEF AskedInv
  <2>7. QED
    BY <1>2, <2>1, <2>2, <2>3, <2>4, <2>5, <2>6 DEF PollStep
<1>3. CASE Command \/ LabJack
  <2> USE DEF poll, ended
  <2>1. ASSUME NEW z \in Zone, NEW v \in Setpoints, OnPidSetpoint(z, v)
        PROVE  AskedInv' /\ Fresh
    BY <2>1 DEF OnPidSetpoint, AskedInv, TypeOK, PlcOK, DriverOK
  <2>2. ASSUME NEW z \in Zone, NEW e \in SpExprs, OnPidSetpointExpr(z, e)
        PROVE  AskedInv' /\ Fresh
    BY <2>2 DEF OnPidSetpointExpr, AskedInv, TypeOK, DriverOK
  <2>3. ASSUME NEW z \in Zone, NEW v \in PvExprs, OnPidPvExprSet(z, v)
        PROVE  AskedInv' /\ Fresh
    BY <1>1, <2>3 DEF OnPidPvExprSet
  <2>4. ASSUME NEW z \in Zone, NEW v \in PvValues, OnPidPvWrite(z, v)
        PROVE  AskedInv' /\ Fresh
    BY <1>1, <2>4 DEF OnPidPvWrite
  <2>5. ASSUME NEW z \in Zone, NEW b \in BOOLEAN,
               OnPidOutput(z, b) \/ OnPidMode(z, b) \/ OnPidAutotune(z)
        PROVE  AskedInv' /\ Fresh
    BY <1>1, <2>5 DEF OnPidOutput, OnPidMode, OnPidAutotune
  <2>6. ASSUME NEW b \in Bands, OnPvInterlockLimits(b)
        PROVE  AskedInv' /\ Fresh
    BY <1>1, <2>6 DEF OnPvInterlockLimits
  <2>7. ASSUME NEW c \in Rtd, NEW v \in Readings, LabJackRtd(c, v)
        PROVE  AskedInv' /\ Fresh
    BY <1>1, <2>7 DEF LabJackRtd
  <2>8. QED
    BY <1>3, <2>1, <2>2, <2>3, <2>4, <2>5, <2>6, <2>7 DEF Command, LabJack
<1>4. CASE Environment
  <2> USE DEF poll
  <2>1. CASE Exit
    BY <2>1 DEF Exit, AskedInv, NoExpr
  <2>2. ASSUME NEW z \in Zone, PlcScan(z) \/ AutotuneEnds(z)
        PROVE  AskedInv' /\ Fresh
    BY <1>1, <2>2 DEF PlcScan, AutotuneEnds
  <2>3. CASE LinkDown \/ LinkUp \/ Start \/ Tick
    BY <1>1, <2>3 DEF LinkDown, LinkUp, Start, LoadLimits, Tick
  <2>4. QED
    BY <1>4, <2>1, <2>2, <2>3 DEF Environment
<1>5. CASE UNCHANGED vars
  BY <1>1, <1>5 DEF vars, poll
<1>6. QED
  BY <1>2, <1>3, <1>4, <1>5 DEF Next

(* No setpoint leaves the surrogate for a zone nobody gave a setpoint or   *)
(* an expression since the service started.  (plc.py __init__.)            *)
THEOREM ReleaseAsked == Spec => ReleaseNeedsCommand
<1>1. Init => AskedInv
  BY DEF Init, AskedInv, NoExpr
<1>2. TypeOK /\ AskedInv /\ [Next]_vars => AskedInv'
  BY AskedStep
<1>3. TypeOK /\ AskedInv /\ [Next]_vars
        => [\A z \in Zone : sp[z] = SpSafe /\ sp'[z] # SpSafe => z \in asked']_vars
  BY AskedStep
<1>4. QED
  BY <1>1, <1>2, <1>3, TypeCorrect, PTL DEF Spec, ReleaseNeedsCommand

-----------------------------------------------------------------------------
(* Bad data zero the heaters.  Three facts are kept from step to step: a   *)
(* poll belongs to a live driver, a channel passed over is still good or   *)
(* in reason (and, the poll over, tripped), and a zone the interlock is    *)
(* done with is held or commanded since.                                   *)

LEMMA PollingStep == ASSUME TypeOK, PollingInv, [Next]_vars PROVE PollingInv'
<1> USE DEF PollingInv
<1>1. CASE PollStep
  <2>1. UNCHANGED proc
    BY <1>1 DEF PollStep, PollStart, ReadAndPublish, EvalExpr, WriteExpr,
                JudgeValue, JudgeAge, WriteMirror, PvLeg, SpLeg, OutLeg, Finish,
                PollLoses, PollFails
  <2>2. proc = "polling"
    <3>1. ~PollStart => pc # "idle"
      BY <1>1 DEF PollStep, ReadAndPublish, EvalExpr, WriteExpr, WriterOf,
                  JudgeValue, JudgeAge, WriteMirror, PvLeg, SpLeg, OutLeg, Finish,
                  PollLoses, InModbus
    <3>2. QED
      BY <3>1 DEF PollStart
  <2>3. QED
    BY <2>1, <2>2
<1>2. CASE Command \/ LabJack
  BY <1>2 DEF Command, LabJack, LabJackRtd, OnPidSetpoint, OnPidSetpointExpr,
              OnPidPvExprSet, OnPidPvWrite, OnPidOutput, OnPidMode,
              OnPidAutotune, OnPvInterlockLimits
<1>3. CASE Environment
  <2>1. CASE Exit
    BY <2>1 DEF Exit, Goto
  <2>2. CASE Start \/ Tick \/ LinkDown \/ LinkUp
    BY <2>2 DEF Start, LoadLimits, Tick, LinkDown, LinkUp, poll, ended
  <2>3. ASSUME NEW z \in Zone, PlcScan(z) \/ AutotuneEnds(z)
        PROVE  PollingInv'
    BY <2>3 DEF PlcScan, AutotuneEnds, poll, ended
  <2>4. QED
    BY <1>3, <2>1, <2>2, <2>3 DEF Environment
<1>4. CASE UNCHANGED vars
  BY <1>4 DEF vars, poll, ended
<1>5. QED
  BY <1>1, <1>2, <1>3, <1>4 DEF Next

(* What IsBad says of a channel makes the code's test find it bad.         *)
LEMMA BadJudged ==
  ASSUME TypeOK, NEW c \in Rtd, IsBad(c)
  PROVE  Bad(c, rtd[c], band)
<1>1. CASE age[c] > StaleS \/ rtd[c] = NoReading
  BY <1>1 DEF Bad, OutOfBand
<1>2. CASE rtd[c] # NaN /\ rtd[c] # NoReading /\ rtd[c] \notin band.min .. band.max
  <2>1. rtd[c] \in Int
    BY <1>2, InputAssumption, TempsAssumption DEF TypeOK, DriverOK
  <2>2. band.min \in Int /\ band.max \in Int
    BY BandAssumption DEF TypeOK, DriverOK
  <2>3. rtd[c] < band.min \/ band.max < rtd[c]
    BY <1>2, <2>1, <2>2
  <2>4. band.min # NaN /\ band.max # NaN
    BY <2>2, NaNAssumption
  <2>5. QED
    BY <1>2, <2>3, <2>4 DEF Bad, OutOfBand, Lt
<1>3. QED
  BY <1>1, <1>2 DEF IsBad

LEMMA JudgePoll ==
  ASSUME TypeOK, JudgeInv, VerdictInv, PollStep
  PROVE  JudgeInv' /\ VerdictInv'
<1> USE DEF cache, limits, hist, EndPoll, Goto
<1>1. ASSUME \A c \in Rtd : ~Passed(c)', pc' \notin {"age", "idle"},
             pc' = "judge" => at' = 1
      PROVE  JudgeInv' /\ VerdictInv'
  BY <1>1 DEF JudgeInv, VerdictInv, Settled
<1>2. ASSUME pc' = "idle", pollEnd' # "done"
      PROVE  JudgeInv' /\ VerdictInv'
  BY <1>2 DEF JudgeInv, VerdictInv, Settled, Passed
<1>3. ASSUME UNCHANGED <<rtd, age, band, late, reason>>,
             pc \in {"mirror", "pvLeg", "spLeg", "outLeg"},
             pc' \in {"mirror", "pvLeg", "spLeg", "outLeg", "finish"}
      PROVE  JudgeInv' /\ VerdictInv'
  BY <1>3 DEF JudgeInv, VerdictInv, Settled, Passed, IsBad
<1>4. CASE PollStart
  <2>1. CASE pc' = "read"
    BY <1>1, <2>1 DEF Passed
  <2>2. CASE pc' = pc
    BY <1>2, <1>4, <2>2 DEF PollStart
  <2>3. QED
    BY <1>4, <2>1, <2>2 DEF PollStart
<1>5. CASE ReadAndPublish
  <2>1. CASE pc' = "idle"
    BY <1>2, <1>5, <2>1 DEF ReadAndPublish
  <2>2. CASE pc' # "idle"
    BY <1>1, <1>5, <2>2 DEF ReadAndPublish, Passed
  <2>3. QED
    BY <2>1, <2>2
<1>6. ASSUME NEW k \in {"sp", "pv"}, EvalExpr(k) \/ WriteExpr(k)
      PROVE  JudgeInv' /\ VerdictInv'
  <2>1. CASE pc' = "idle"
    BY <1>2, <1>6, <2>1 DEF EvalExpr, WriteExpr, AfterExpr, WriterOf
  <2>2. CASE pc' # "idle"
    <3>1. pc' \in {"sp", "pv", "spWrite", "pvWrite"} \/ (pc' = "judge" /\ at' = 1)
      BY <1>6, <2>2 DEF EvalExpr, WriteExpr, AfterExpr, WriterOf
    <3>2. \A c \in Rtd : ~Passed(c)'
      BY <3>1, CountsAssumption DEF Passed, Rtd
    <3>3. QED
      BY <1>1, <3>1, <3>2
  <2>3. QED
    BY <2>1, <2>2
<1>7. CASE JudgeValue
  <2>1. /\ pc = "judge" /\ pc' = "age" /\ at \in Rtd
        /\ UNCHANGED <<rtd, age, band, late, reason, at>>
        /\ val' = rtd[at]
        /\ pollBand' = IF at = 1 THEN band ELSE pollBand
    BY <1>7 DEF JudgeValue, TypeOK, PollOK, OnRtds
  <2>2. at = 1 \/ at > 1
    BY <2>1, CountsAssumption DEF Rtd
  <2>3. QED
    BY <2>1, <2>2 DEF JudgeInv, VerdictInv, Settled, Passed, IsBad
<1>8. CASE JudgeAge
  <2>1. /\ pc = "age" /\ at \in Rtd
        /\ UNCHANGED <<rtd, age, band, late>>
        /\ reason' = IF Bad(at, val, pollBand) THEN reason \cup {at} ELSE reason
        /\ \/ pc' = "judge" /\ at' = at + 1 /\ pollBand' = pollBand
           \/ pc' = "mirror" /\ at = NumRtd
    BY <1>8, CountsAssumption DEF JudgeAge, TypeOK, PollOK, OnRtds, Rtd
  <2>2. ASSUME NEW c \in Rtd, c \notin late, Passed(c)', IsBad(c)
        PROVE  c \in reason'
    <3>1. CASE c = at
      BY <2>1, <2>2, <3>1, BadJudged DEF JudgeInv
    <3>2. CASE c # at
      <4>1. c < at
        BY <2>1, <2>2, <3>2, CountsAssumption DEF Passed, Rtd
      <4>2. QED
        BY <2>1, <2>2, <4>1 DEF JudgeInv, Passed
    <3>3. QED
      BY <3>1, <3>2
  <2>3. \A c \in Rtd : IsBad(c)' <=> IsBad(c)
    BY <2>1 DEF IsBad
  <2>4. JudgeInv'
    BY <2>1, <2>2, <2>3 DEF JudgeInv
  <2>5. QED
    BY <2>1, <2>4 DEF VerdictInv, Settled
<1>9. CASE WriteMirror \/ PvLeg \/ SpLeg \/ OutLeg
  BY <1>3, <1>9 DEF WriteMirror, AfterMirror, PvLeg, SpLeg, OutLeg
<1>10. CASE Finish
  <2>1. \A c \in Rtd \ late : IsBad(c) => tripped'
    BY <1>10 DEF Finish, JudgeInv, Passed
  <2>2. QED
    BY <1>10, <2>1 DEF Finish, JudgeInv, VerdictInv, Passed, IsBad
<1>11. CASE PollLoses
  BY <1>2, <1>11 DEF PollLoses, PollFails
<1>12. QED
  BY <1>4, <1>5, <1>6, <1>7, <1>8, <1>9, <1>10, <1>11 DEF PollStep

LEMMA JudgeOthers ==
  ASSUME TypeOK, PollingInv, JudgeInv, VerdictInv,
         Command \/ LabJack \/ Environment \/ UNCHANGED vars
  PROVE  JudgeInv' /\ VerdictInv'
<1> USE DEF cache, limits, hist, ended, poll
<1>1. ASSUME UNCHANGED <<cache, band, late, poll, tripped, due, pollEnd, missed>>
      PROVE  JudgeInv' /\ VerdictInv'
  BY <1>1 DEF JudgeInv, VerdictInv, Settled, Passed, IsBad
<1>2. ASSUME pc' = "idle", pollEnd' # "done"
      PROVE  JudgeInv' /\ VerdictInv'
  BY <1>2 DEF JudgeInv, VerdictInv, Settled, Passed
<1>3. CASE Command
  <2>1. ASSUME NEW b \in Bands, OnPvInterlockLimits(b)
        PROVE  JudgeInv' /\ VerdictInv'
    BY <2>1 DEF OnPvInterlockLimits, JudgeInv, VerdictInv
  <2>2. CASE UNCHANGED <<cache, band, late, poll, tripped, due, pollEnd, missed>>
    BY <1>1, <2>2
  <2>3. QED
    BY <1>3, <2>1, <2>2 DEF Command, OnPidSetpoint, OnPidSetpointExpr,
       OnPidPvExprSet, OnPidPvWrite, OnPidOutput, OnPidMode, OnPidAutotune
<1>4. ASSUME NEW c \in Rtd, NEW v \in Readings, LabJackRtd(c, v)
      PROVE  JudgeInv' /\ VerdictInv'
  <2>1. /\ \A d \in Rtd \ {c} : rtd'[d] = rtd[d] /\ age'[d] = age[d]
        /\ late' = late \cup {c}
        /\ UNCHANGED <<band, poll, tripped, due, pollEnd, missed>>
    BY <1>4 DEF LabJackRtd, TypeOK, DriverOK
  <2>2. \A d \in Rtd \ late' : IsBad(d)' <=> IsBad(d)
    BY <2>1 DEF IsBad
  <2>3. QED
    BY <2>1, <2>2 DEF JudgeInv, VerdictInv, Settled, Passed
<1>5. CASE Environment
  <2>1. CASE Exit
    BY <1>2, <2>1 DEF Exit, Goto
  <2>2. CASE Start
    BY <1>2, <2>2 DEF Start, LoadLimits, PollingInv
  <2>3. CASE Tick
    <3>1. CASE proc = "polling"
      BY <2>3, <3>1 DEF Tick, JudgeInv, VerdictInv, Settled, Passed
    <3>2. CASE proc # "polling"
      BY <1>2, <2>3, <3>2 DEF Tick, PollingInv
    <3>3. QED
      BY <3>1, <3>2
  <2>4. CASE LinkDown \/ LinkUp \/ (\E z \in Zone : PlcScan(z) \/ AutotuneEnds(z))
    BY <1>1, <2>4 DEF LinkDown, LinkUp, PlcScan, AutotuneEnds
  <2>5. QED
    BY <1>5, <2>1, <2>2, <2>3, <2>4 DEF Environment
<1>6. CASE UNCHANGED vars
  BY <1>1, <1>6 DEF vars
<1>7. QED
  BY <1>3, <1>4, <1>5, <1>6 DEF LabJack

LEMMA ZonesPoll == ASSUME TypeOK, ZonesInv, PollStep PROVE ZonesInv'
<1> USE DEF hist, EndPoll, Goto
<1>1. ASSUME pc' \notin {"pvLeg", "spLeg", "outLeg", "finish", "idle"}
      PROVE  ZonesInv'
  BY <1>1 DEF ZonesInv, Done, Settled
<1>2. ASSUME pc' = "idle", pollEnd' # "done"
      PROVE  ZonesInv'
  BY <1>2 DEF ZonesInv, Done, Settled
<1>3. CASE PollStart \/ ReadAndPublish \/ JudgeValue \/ JudgeAge \/ PollLoses
  BY <1>1, <1>2, <1>3 DEF PollStart, ReadAndPublish, JudgeValue, JudgeAge,
                          PollLoses, PollFails
<1>4. ASSUME NEW k \in {"sp", "pv"}, EvalExpr(k) \/ WriteExpr(k)
      PROVE  ZonesInv'
  BY <1>1, <1>2, <1>4 DEF EvalExpr, WriteExpr, AfterExpr, WriterOf
<1>5. CASE WriteMirror
  <2>1. \/ pc' = "mirror"
        \/ pc' = "finish" /\ reason' = {}
        \/ pc' = "pvLeg" /\ at' = 1
    BY <1>5 DEF WriteMirror, AfterMirror
  <2>2. \A z \in Zone : ~(z < 1)
    BY CountsAssumption DEF Zone
  <2>3. QED
    BY <2>1, <2>2 DEF ZonesInv, Done, Settled
<1>6. CASE PvLeg \/ SpLeg
  <2>1. /\ pc \in {"pvLeg", "spLeg"} /\ pc' \in {"spLeg", "outLeg"}
        /\ UNCHANGED <<at, reason, cmdLegs, held>>
        /\ missed => missed'
    BY <1>6 DEF PvLeg, SpLeg, Lands_Lost
  <2>2. QED
    BY <2>1 DEF ZonesInv, Done, Settled
<1>7. CASE OutLeg
  <2>1. /\ pc = "outLeg" /\ at \in Zone /\ cmdLegs' = cmdLegs
        /\ \/ pc' = "pvLeg" /\ at' = at + 1
           \/ pc' = "finish" /\ at = NumZone
    BY <1>7, CountsAssumption DEF OutLeg, TypeOK, PollOK, OnZones, Zone
  <2>2. CASE missed'
    BY <2>2 DEF ZonesInv
  <2>3. CASE ~missed'
    <3>1. ~missed /\ held \subseteq held' /\ at \in cmdLegs \cup held'
      BY <1>7, <2>3 DEF OutLeg, Lands_Lost
    <3>2. ASSUME NEW z \in Zone, Done(z)'
          PROVE  z < at \/ z = at
      BY <2>1, <3>2, CountsAssumption DEF Done, Settled, Zone
    <3>3. QED
      BY <2>1, <3>1, <3>2 DEF ZonesInv, Done
  <2>4. QED
    BY <2>2, <2>3
<1>8. CASE Finish
  BY <1>8 DEF Finish, ZonesInv, Done, Settled
<1>9. QED
  BY <1>3, <1>4, <1>5, <1>6, <1>7, <1>8 DEF PollStep

LEMMA ZonesOthers ==
  ASSUME TypeOK, PollingInv, ZonesInv,
         Command \/ LabJack \/ Environment \/ UNCHANGED vars
  PROVE  ZonesInv'
<1> USE DEF hist, ended, poll, Commanded
<1>1. ASSUME cmdLegs \cup held \subseteq cmdLegs' \cup held',
             UNCHANGED <<poll, ended, due, tripped>>
      PROVE  ZonesInv'
  BY <1>1 DEF ZonesInv, Done, Settled
<1>2. CASE Command \/ LabJack
  <2>1. cmdLegs \cup held \subseteq cmdLegs' \cup held'
    BY <1>2 DEF Command, LabJack, LabJackRtd, OnPidSetpoint, OnPidSetpointExpr,
       OnPidPvExprSet, OnPidPvWrite, OnPidOutput, OnPidMode, OnPidAutotune,
       OnPvInterlockLimits
  <2>2. UNCHANGED <<poll, ended, due, tripped>>
    BY <1>2 DEF Command, LabJack, LabJackRtd, OnPidSetpoint, OnPidSetpointExpr,
       OnPidPvExprSet, OnPidPvWrite, OnPidOutput, OnPidMode, OnPidAutotune,
       OnPvInterlockLimits
  <2>3. QED
    BY <1>1, <2>1, <2>2
<1>3. CASE Environment
  <2>1. CASE Exit
    BY <2>1 DEF Exit, Goto, ZonesInv, Done, Settled
  <2>2. CASE Start
    BY <2>2 DEF Start, LoadLimits, PollingInv, ZonesInv, Done, Settled
  <2>3. CASE Tick
    BY <2>3 DEF Tick, PollingInv, ZonesInv, Done, Settled
  <2>4. CASE LinkDown \/ LinkUp \/ (\E z \in Zone : PlcScan(z) \/ AutotuneEnds(z))
    BY <1>1, <2>4 DEF LinkDown, LinkUp, PlcScan, AutotuneEnds
  <2>5. QED
    BY <1>3, <2>1, <2>2, <2>3, <2>4 DEF Environment
<1>4. CASE UNCHANGED vars
  BY <1>1, <1>4 DEF vars
<1>5. QED
  BY <1>2, <1>3, <1>4

(* Along every behaviour: a poll belongs to a live driver, and what it     *)
(* has passed over was judged by what is still true.                       *)
LEMMA JudgedRight == Spec => [](PollingInv /\ JudgeInv /\ VerdictInv)
<1> DEFINE Inv == PollingInv /\ JudgeInv /\ VerdictInv
<1>1. Init => Inv
  BY DEF Init, PollingInv, JudgeInv, VerdictInv, Passed, Settled
<1>2. TypeOK /\ Inv /\ [Next]_vars => Inv'
  <2> SUFFICES ASSUME TypeOK, Inv, [Next]_vars PROVE Inv'
    OBVIOUS
  <2>1. PollingInv'
    BY PollingStep
  <2>2. JudgeInv' /\ VerdictInv'
    BY JudgePoll, JudgeOthers DEF Next
  <2>3. QED
    BY <2>1, <2>2
<1>3. QED
  BY <1>1, <1>2, TypeCorrect, PTL DEF Spec

(* The interlock's promise: after a poll in which some channel was stale   *)
(* or out of band throughout, the trip is reported and every zone is       *)
(* zeroed or commanded since, for any number of zones and channels.        *)
(* (plc.py _write_labjack_to_plc.)                                         *)
THEOREM BadDataSafe == Spec => []BadDataZeroes
<1>1. Init => ZonesInv
  BY DEF Init, ZonesInv, Done, Settled
<1>2. TypeOK /\ PollingInv /\ ZonesInv /\ [Next]_vars => ZonesInv'
  BY ZonesPoll, ZonesOthers DEF Next
<1>3. VerdictInv /\ ZonesInv /\ HeldMeansZeroed => BadDataZeroes
  BY DEF BadDataZeroes, VerdictInv, ZonesInv, Done, HeldMeansZeroed, Settled
<1>4. QED
  BY <1>1, <1>2, <1>3, TypeCorrect, JudgedRight, HeldSafe, PTL DEF Spec

-----------------------------------------------------------------------------
(* Good data pass.  The converse of the above, and its invariant needs one *)
(* fact more: what a poll can have found bad by the operation it is at.    *)

(* What every operation that is not the poll's leaves alone, but for an    *)
(* exit, a start and the clock.                                            *)
LEMMA Callbacks ==
  ASSUME Command \/ LabJack
  PROVE  UNCHANGED <<poll, ended, due, tripped, mirror, proc>>
<1> USE DEF poll, ended, plc, hist
<1>1. CASE Command
  BY <1>1 DEF Command, OnPidSetpoint, OnPidSetpointExpr, OnPidPvExprSet,
     OnPidPvWrite, OnPidOutput, OnPidMode, OnPidAutotune, OnPvInterlockLimits
<1>2. CASE LabJack
  BY <1>2 DEF LabJack, LabJackRtd
<1>3. QED
  BY <1>1, <1>2

LEMMA ReasonStep == ASSUME TypeOK, ReasonInv, [Next]_vars PROVE ReasonInv'
<1> USE DEF ReasonInv, Legs, Goto, EndPoll
<1>1. CASE UNCHANGED poll
  BY <1>1 DEF poll
<1>2. CASE PollStart \/ ReadAndPublish \/ JudgeValue \/ Finish \/ PollLoses
  BY <1>2 DEF PollStart, ReadAndPublish, JudgeValue, Finish, PollLoses, PollFails
<1>3. ASSUME NEW k \in {"sp", "pv"}, EvalExpr(k) \/ WriteExpr(k)
      PROVE  ReasonInv'
  BY <1>3 DEF EvalExpr, WriteExpr, AfterExpr, WriterOf
<1>4. CASE JudgeAge
  <2>1. pc' \in {"judge", "mirror"} /\ (pc' = "judge" => at' = at + 1 /\ at \in Rtd)
    BY <1>4 DEF JudgeAge, TypeOK, PollOK, OnRtds
  <2>2. pc' = "judge" => at' # 1
    BY <2>1, CountsAssumption DEF Rtd
  <2>3. QED
    BY <2>1, <2>2
<1>5. CASE WriteMirror
  BY <1>5 DEF WriteMirror, AfterMirror
<1>6. CASE PvLeg \/ SpLeg \/ OutLeg
  BY <1>6 DEF PvLeg, SpLeg, OutLeg
<1>7. CASE Environment
  BY <1>1, <1>7 DEF Environment, PlcScan, AutotuneEnds, LinkDown, LinkUp, Exit,
     Start, Tick, LoadLimits
<1>8. QED
  BY <1>1, <1>2, <1>3, <1>4, <1>5, <1>6, <1>7, Callbacks DEF Next, PollStep, vars

LEMMA Reasons == Spec => []ReasonInv
<1>1. Init => ReasonInv
  BY DEF Init, ReasonInv, Legs
<1>2. QED
  BY <1>1, ReasonStep, TypeCorrect, PTL DEF Spec

(* A channel that is not bad passes the code's test.                       *)
LEMMA GoodJudged ==
  ASSUME TypeOK, NEW c \in Rtd, ~IsBad(c)
  PROVE  ~Bad(c, rtd[c], band)
<1>1. ~(age[c] > StaleS) /\ rtd[c] # NoReading
  BY DEF IsBad
<1>2. CASE rtd[c] = NaN
  BY <1>1, <1>2 DEF Bad, OutOfBand, Lt
<1>3. CASE rtd[c] # NaN
  <2>1. rtd[c] \in Int /\ rtd[c] \in band.min .. band.max
    BY <1>1, <1>3, InputAssumption, TempsAssumption DEF IsBad, TypeOK, DriverOK
  <2>2. band.min \in Int /\ band.max \in Int
    BY BandAssumption DEF TypeOK, DriverOK
  <2>3. ~(rtd[c] < band.min) /\ ~(band.max < rtd[c])
    BY <2>1, <2>2
  <2>4. QED
    BY <1>1, <2>3 DEF Bad, OutOfBand, Lt
<1>4. QED
  BY <1>2, <1>3

LEMMA GoodPoll ==
  ASSUME TypeOK, JudgeInv, ReasonInv, GoodInv, PollStep
  PROVE  GoodInv'
<1> DEFINE Good == \A c \in Rtd : c \notin late /\ ~IsBad(c)
<1> USE DEF cache, limits, hist, ended, EndPoll, Goto, Legs
<1>1. ASSUME reason' = {}, pc' \notin {"mirror", "finish"}, ~Settled'
      PROVE  GoodInv'
  BY <1>1 DEF GoodInv, Mirrored
<1>2. ASSUME UNCHANGED <<rtd, age, band, late>>
      PROVE  Good' <=> Good
  BY <1>2 DEF IsBad
<1>3. CASE PollStart \/ ReadAndPublish \/ PollLoses
  <2>1. reason' = {} /\ pc' \notin {"mirror", "finish"}
    BY <1>3 DEF PollStart, ReadAndPublish, PollLoses, PollFails, ReasonInv
  <2>2. pc' = "idle" => pollEnd' # "done"
    BY <1>3 DEF PollStart, ReadAndPublish, PollLoses, PollFails
  <2>3. QED
    BY <1>1, <2>1, <2>2 DEF Settled
<1>4. ASSUME NEW k \in {"sp", "pv"}, EvalExpr(k) \/ WriteExpr(k)
      PROVE  GoodInv'
  <2>1. reason = {}
    BY <1>4 DEF EvalExpr, WriteExpr, WriterOf, ReasonInv
  <2>2. /\ reason' = {}
        /\ pc' \in {"idle", "sp", "spWrite", "pv", "pvWrite", "judge"}
        /\ pc' = "idle" => pollEnd' = "error"
    BY <1>4, <2>1 DEF EvalExpr, WriteExpr, AfterExpr, WriterOf
  <2>3. QED
    BY <1>1, <2>2 DEF Settled
<1>5. CASE JudgeValue \/ JudgeAge
  <2>1. /\ UNCHANGED <<rtd, age, band, late, missed>>
        /\ pc \in {"judge", "age"} /\ at \in Rtd
        /\ pc' \in {"judge", "age"} \/ (pc' = "mirror" /\ at' = 1)
    BY <1>5 DEF JudgeValue, JudgeAge, TypeOK, PollOK, OnRtds
  <2>2. ASSUME Good PROVE reason' = {}
    <3>1. reason = {}
      BY <2>2 DEF GoodInv
    <3>2. CASE JudgeValue
      BY <3>1, <3>2 DEF JudgeValue
    <3>3. CASE JudgeAge
      <4>1. val = rtd[at] /\ pollBand = band
        BY <2>1, <2>2, <3>3 DEF JudgeAge, JudgeInv
      <4>2. ~Bad(at, val, pollBand)
        BY <2>1, <2>2, <4>1, GoodJudged
      <4>3. QED
        BY <3>1, <3>3, <4>2 DEF JudgeAge
    <3>4. QED
      BY <1>5, <3>2, <3>3
  <2>3. \A c \in Rtd : ~Mirrored(c)'
    BY <2>1, CountsAssumption DEF Mirrored, Settled, Rtd
  <2>4. ~Settled'
    BY <2>1 DEF Settled
  <2>5. QED
    BY <1>2, <2>1, <2>2, <2>3, <2>4 DEF GoodInv
<1>6. CASE WriteMirror
  <2>1. /\ UNCHANGED <<rtd, age, band, late, reason>>
        /\ pc = "mirror" /\ at \in Rtd
    BY <1>6 DEF WriteMirror, TypeOK, PollOK, OnRtds
  <2>2. pc' \in {"mirror", "finish", "pvLeg"}
    BY <1>6 DEF WriteMirror, AfterMirror
  <2>3. ASSUME Good, ~missed', NEW c \in Rtd, Mirrored(c)'
        PROVE  mirror'[c] = rtd[c]
    <3>1. reason = {}
      BY <2>3 DEF GoodInv
    <3>2. ~missed /\ mirror' = [mirror EXCEPT ![at] = rtd[at]]
      BY <1>6, <2>3, <3>1 DEF WriteMirror, Lands_Lost, MirrorValue
    <3>3. c = at \/ c < at
      BY <1>6, <2>1, <2>2, <2>3, CountsAssumption
      DEF WriteMirror, AfterMirror, Mirrored, Settled, Rtd
    <3>4. c < at => mirror[c] = rtd[c]
      BY <2>1, <2>3, <3>2 DEF GoodInv, Mirrored
    <3>5. QED
      BY <2>1, <3>2, <3>3, <3>4 DEF TypeOK, PlcOK
  <2>4. ~Settled'
    BY <2>2 DEF Settled
  <2>5. Good => reason' = {}
    BY <2>1 DEF GoodInv
  <2>6. QED
    BY <1>2, <2>1, <2>3, <2>4, <2>5 DEF GoodInv
<1>7. CASE PvLeg \/ SpLeg \/ OutLeg
  <2>1. ~Good
    BY <1>7 DEF PvLeg, SpLeg, OutLeg, ReasonInv, GoodInv
  <2>2. UNCHANGED <<rtd, age, band, late>>
    BY <1>7 DEF PvLeg, SpLeg, OutLeg
  <2>3. QED
    BY <1>2, <2>1, <2>2 DEF GoodInv
<1>8. CASE Finish
  <2>1. /\ UNCHANGED <<rtd, age, band, late, mirror, missed>>
        /\ pc = "finish" /\ reason' = {} /\ tripped' = (reason # {})
    BY <1>8 DEF Finish, plc
  <2>2. \A c \in Rtd : Mirrored(c)
    BY <2>1 DEF Mirrored
  <2>3. QED
    BY <1>2, <2>1, <2>2 DEF GoodInv
<1>9. QED
  BY <1>3, <1>4, <1>5, <1>6, <1>7, <1>8 DEF PollStep

LEMMA GoodOthers ==
  ASSUME TypeOK, PollingInv, ReasonInv, GoodInv,
         Command \/ LabJack \/ Environment \/ UNCHANGED vars
  PROVE  GoodInv'
<1> USE DEF poll, ended, plc, cache, limits, hist, Goto
<1>1. ASSUME UNCHANGED <<poll, ended, due, tripped, mirror, rtd, age, band, late>>
      PROVE  GoodInv'
  BY <1>1 DEF GoodInv, Mirrored, Settled, IsBad
<1>2. ASSUME pc' = "idle", reason' = {}, ~Settled'
      PROVE  GoodInv'
  BY <1>2 DEF GoodInv, Mirrored
<1>3. CASE Command
  <2>1. ASSUME NEW b \in Bands, OnPvInterlockLimits(b)
        PROVE  GoodInv'
    BY <2>1, Ranges DEF OnPvInterlockLimits, GoodInv
  <2>2. CASE UNCHANGED <<rtd, age, band, late>>
    BY <1>1, <1>3, <2>2, Callbacks
  <2>3. QED
    BY <1>3, <2>1, <2>2 DEF Command, OnPidSetpoint, OnPidSetpointExpr,
       OnPidPvExprSet, OnPidPvWrite, OnPidOutput, OnPidMode, OnPidAutotune
<1>4. ASSUME NEW c \in Rtd, NEW v \in Readings, LabJackRtd(c, v)
      PROVE  GoodInv'
  BY <1>4 DEF LabJackRtd, GoodInv
<1>5. CASE Environment
  <2>1. CASE Exit
    BY <1>2, <2>1 DEF Exit, Settled
  <2>2. CASE Start
    BY <1>2, <2>2 DEF Start, LoadLimits, PollingInv, ReasonInv, Settled, Legs
  <2>3. CASE Tick
    BY <1>2, <2>3 DEF Tick, PollingInv, ReasonInv, Settled, Legs
  <2>4. CASE LinkDown \/ LinkUp \/ (\E z \in Zone : PlcScan(z) \/ AutotuneEnds(z))
    BY <1>1, <2>4 DEF LinkDown, LinkUp, PlcScan, AutotuneEnds
  <2>5. QED
    BY <1>5, <2>1, <2>2, <2>3, <2>4 DEF Environment
<1>6. CASE UNCHANGED vars
  BY <1>1, <1>6 DEF vars
<1>7. QED
  BY <1>3, <1>4, <1>5, <1>6 DEF LabJack

(* No trip without a cause: a poll during which every channel was fresh,   *)
(* in the band and unchanged clears the trip and mirrors the values, for   *)
(* any number of channels.  (plc.py _write_labjack_to_plc, normal path.)   *)
THEOREM GoodDataSafe == Spec => []GoodDataPasses
<1>1. Init => GoodInv
  BY DEF Init, GoodInv, Mirrored, Settled
<1>2. TypeOK /\ PollingInv /\ JudgeInv /\ ReasonInv /\ GoodInv /\ [Next]_vars
        => GoodInv'
  BY GoodPoll, GoodOthers DEF Next
<1>3. TypeOK /\ GoodInv => GoodDataPasses
  <2> SUFFICES ASSUME TypeOK, GoodInv, Settled,
                      \A c \in Rtd : c \notin late /\ ~IsBad(c)
               PROVE  ~tripped /\ mirror = rtd
    BY DEF GoodDataPasses
  <2>1. ~tripped /\ \A c \in Rtd : mirror[c] = rtd[c]
    BY DEF GoodInv, Mirrored, Settled
  <2>2. QED
    BY <2>1 DEF TypeOK, PlcOK, DriverOK
<1>4. QED
  BY <1>1, <1>2, <1>3, TypeCorrect, JudgedRight, Reasons, PTL DEF Spec

-----------------------------------------------------------------------------
(* The last setpoint command wins.                                         *)

LEMMA WrittenPoll ==
  ASSUME TypeOK, ReasonInv, WrittenInv, PollStep
  PROVE  WrittenInv'
<1> USE DEF exprs, hist, ended, plc, EndPoll, Goto, Legs
<1>1. ASSUME pc' \notin {"sp", "spWrite", "pv", "pvWrite", "judge", "age", "mirror", "finish"},
             pc' = "idle" => pollEnd' # "done"
      PROVE  WrittenInv'
  BY <1>1 DEF WrittenInv, Written
<1>2. CASE PollStart \/ PollLoses
  BY <1>1, <1>2 DEF PollStart, PollLoses, PollFails
<1>3. CASE ReadAndPublish
  <2>1. \A z \in Zone : ~(z < 1)
    BY CountsAssumption DEF Zone
  <2>2. CASE pc' = "idle"
    BY <1>1, <1>3, <2>2 DEF ReadAndPublish
  <2>3. CASE pc' # "idle"
    BY <1>3, <2>1, <2>3 DEF ReadAndPublish, WrittenInv, Written
  <2>4. QED
    BY <2>2, <2>3
<1>4. ASSUME NEW k \in {"sp", "pv"}, AfterExpr(k, at), at \in Zone,
             pc \in {k, WriterOf(k)}, UNCHANGED <<spExpr, cmdPoll>>,
             missed => missed',
             \A z \in Zone \ {at} : sp'[z] = sp[z],
             k = "pv" => sp' = sp,
             ~missed' /\ k = "sp" /\ at \notin cmdPoll /\ spExpr[at].kind = "num"
               => sp'[at] = spExpr[at].arg
      PROVE  WrittenInv'
  <2>1. CASE k = "sp"
    <3>1. pc' = "pv" /\ at' = at
      BY <1>4, <2>1 DEF AfterExpr
    <3>2. \A z \in Zone : z <= at <=> z = at \/ z < at
      BY <1>4, CountsAssumption DEF Zone
    <3>3. pc \in {"sp", "spWrite"}
      BY <1>4, <2>1 DEF WriterOf
    <3>4. QED
      BY <1>4, <2>1, <3>1, <3>2, <3>3 DEF WrittenInv, Written
  <2>2. CASE k = "pv"
    <3>1. pc \in {"pv", "pvWrite"} /\ sp' = sp
      BY <1>4, <2>2 DEF WriterOf
    <3>2. \/ pc' = "sp" /\ at' = at + 1
          \/ pc' = "judge" /\ at = NumZone
      BY <1>4, <2>2, CountsAssumption DEF AfterExpr, Zone
    <3>3. \A z \in Zone : z <= NumZone /\ (z < at + 1 => z <= at)
      BY <1>4, CountsAssumption DEF Zone
    <3>4. QED
      BY <1>4, <3>1, <3>2, <3>3 DEF WrittenInv, Written
  <2>3. QED
    BY <2>1, <2>2
<1>5. ASSUME NEW k \in {"sp", "pv"}, EvalExpr(k)
      PROVE  WrittenInv'
  <2>1. at \in Zone /\ pc = k /\ UNCHANGED <<sp, spExpr, cmdPoll>>
    BY <1>5 DEF EvalExpr, TypeOK, PollOK, OnZones
  <2>2. spExpr[at].kind = "num" => Evaluate(spExpr[at]) = {spExpr[at].arg}
    BY DEF Evaluate
  <2>3. CASE EndPoll("error")
    BY <1>1, <2>3
  <2>4. CASE Evaluate(ExprOf(k, at)) = {} /\ AfterExpr(k, at) /\ UNCHANGED ended
    <3>1. k = "sp" => spExpr[at].kind # "num"
      BY <2>2, <2>4 DEF ExprOf
    <3>2. QED
      BY <1>4, <2>1, <2>4, <3>1 DEF WriterOf
  <2>5. CASE /\ \E v \in Evaluate(ExprOf(k, at)) : val' = v
             /\ Goto(WriterOf(k), at) /\ UNCHANGED ended
    <3>1. k = "sp" /\ spExpr[at].kind = "num" => val' = spExpr[at].arg
      BY <2>2, <2>5 DEF ExprOf
    <3>2. \/ k = "sp" /\ pc = "sp" /\ pc' = "spWrite"
          \/ k = "pv" /\ pc = "pv" /\ pc' = "pvWrite"
      BY <2>1, <2>5 DEF WriterOf
    <3>3. QED
      BY <2>1, <2>5, <3>1, <3>2 DEF WrittenInv, Written
  <2>6. QED
    BY <1>5, <2>3, <2>4, <2>5 DEF EvalExpr
<1>6. ASSUME NEW k \in {"sp", "pv"}, WriteExpr(k)
      PROVE  WrittenInv'
  <2>1. /\ at \in Zone /\ pc = WriterOf(k) /\ AfterExpr(k, at)
        /\ UNCHANGED <<spExpr, cmdPoll>>
    BY <1>6 DEF WriteExpr, WriterOf, TypeOK, PollOK, OnZones
  <2>2. /\ missed => missed'
        /\ \A z \in Zone \ {at} : sp'[z] = sp[z]
        /\ k = "pv" => sp' = sp
    BY <1>6 DEF WriteExpr, Lands_Lost, TypeOK, PlcOK
  <2>3. ~missed' /\ k = "sp" => ~missed /\ sp'[at] = val
    BY <1>6, <2>1 DEF WriteExpr, Lands_Lost, TypeOK, PlcOK
  <2>4. ~missed' /\ k = "sp" /\ at \notin cmdPoll /\ spExpr[at].kind = "num"
          => sp'[at] = spExpr[at].arg
    BY <2>1, <2>3 DEF WrittenInv, WriterOf
  <2>5. QED
    BY <1>4, <2>1, <2>2, <2>4
<1>7. CASE JudgeValue \/ JudgeAge
  <2>1. /\ pc \in {"judge", "age"} /\ pc' \in {"judge", "age", "mirror"}
        /\ UNCHANGED <<sp, spExpr, cmdPoll, missed>>
    BY <1>7 DEF JudgeValue, JudgeAge
  <2>2. QED
    BY <2>1 DEF WrittenInv, Written
<1>8. CASE WriteMirror
  <2>1. /\ pc = "mirror" /\ pc' \in {"mirror", "finish", "pvLeg"}
        /\ UNCHANGED <<sp, spExpr, cmdPoll>> /\ (missed => missed')
    BY <1>8 DEF WriteMirror, AfterMirror, Lands_Lost
  <2>2. QED
    BY <2>1 DEF WrittenInv, Written
<1>9. CASE PvLeg \/ SpLeg \/ OutLeg
  <2>1. /\ pc' \in {"pvLeg", "spLeg", "outLeg"} \/ (pc' = "finish" /\ reason' # {})
    BY <1>9 DEF PvLeg, SpLeg, OutLeg, ReasonInv
  <2>2. QED
    BY <2>1 DEF WrittenInv, Written
<1>10. CASE Finish
  BY <1>10 DEF Finish, WrittenInv, Written
<1>11. QED
  BY <1>2, <1>3, <1>5, <1>6, <1>7, <1>8, <1>9, <1>10 DEF PollStep

LEMMA WrittenOthers ==
  ASSUME TypeOK, PollingInv, WrittenInv,
         Command \/ LabJack \/ Environment \/ UNCHANGED vars
  PROVE  WrittenInv'
<1> USE DEF poll, ended, plc, exprs, hist, Goto, Commanded
<1>1. ASSUME UNCHANGED <<poll, ended, tripped>>, cmdPoll \subseteq cmdPoll',
             \A z \in Zone \ cmdPoll' : sp'[z] = sp[z] /\ spExpr'[z] = spExpr[z]
      PROVE  WrittenInv'
  BY <1>1 DEF WrittenInv, Written
<1>2. ASSUME pc' = "idle", pollEnd' = "none"
      PROVE  WrittenInv'
  BY <1>2 DEF WrittenInv, Written
<1>3. CASE Command
  <2>1. ASSUME NEW z \in Zone, NEW v \in Setpoints, OnPidSetpoint(z, v)
        PROVE  WrittenInv'
    <3>1. /\ cmdPoll' = cmdPoll \cup {z}
          /\ \A y \in Zone \ {z} : sp'[y] = sp[y] /\ spExpr'[y] = spExpr[y]
      BY <2>1 DEF OnPidSetpoint, TypeOK, PlcOK, DriverOK
    <3>2. QED
      BY <1>1, <1>3, <3>1, Callbacks
  <2>2. ASSUME NEW z \in Zone, NEW e \in SpExprs, OnPidSetpointExpr(z, e)
        PROVE  WrittenInv'
    <3>1. /\ cmdPoll' = cmdPoll \cup {z} /\ sp' = sp
          /\ \A y \in Zone \ {z} : spExpr'[y] = spExpr[y]
      BY <2>2 DEF OnPidSetpointExpr, TypeOK, DriverOK
    <3>2. QED
      BY <1>1, <1>3, <3>1, Callbacks
  <2>3. CASE UNCHANGED <<sp, spExpr>> /\ cmdPoll \subseteq cmdPoll'
    BY <1>1, <1>3, <2>3, Callbacks
  <2>4. QED
    BY <1>3, <2>1, <2>2, <2>3 DEF Command, OnPidPvExprSet, OnPidPvWrite,
       OnPidOutput, OnPidMode, OnPidAutotune, OnPvInterlockLimits
<1>4. CASE LabJack
  BY <1>1, <1>4 DEF LabJack, LabJackRtd
<1>5. CASE Environment
  <2>1. CASE Exit
    BY <1>2, <2>1 DEF Exit
  <2>2. CASE Start
    BY <1>2, <2>2 DEF Start, PollingInv
  <2>3. CASE Tick \/ LinkDown \/ LinkUp \/ (\E z \in Zone : PlcScan(z) \/ AutotuneEnds(z))
    BY <1>1, <2>3 DEF Tick, LinkDown, LinkUp, PlcScan, AutotuneEnds
  <2>4. QED
    BY <1>5, <2>1, <2>2, <2>3 DEF Environment
<1>6. CASE UNCHANGED vars
  BY <1>1, <1>6 DEF vars
<1>7. QED
  BY <1>3, <1>4, <1>5, <1>6

(* After a poll that did not trip, every SP register holds the number last *)
(* commanded for its zone, unless that command came during the poll - a    *)
(* poll that had evaluated the one before does not bring it back.          *)
(* (plc.py _on_pid_setpoint, _write_pid_expressions.)                      *)
THEOREM SetpointSafe == Spec => []SetpointAsserted
<1>1. Init => WrittenInv
  BY DEF Init, WrittenInv, Written
<1>2. TypeOK /\ PollingInv /\ ReasonInv /\ WrittenInv /\ [Next]_vars => WrittenInv'
  BY WrittenPoll, WrittenOthers DEF Next
<1>3. WrittenInv => SetpointAsserted
  BY DEF WrittenInv, Written, SetpointAsserted
<1>4. QED
  BY <1>1, <1>2, <1>3, TypeCorrect, JudgedRight, Reasons, PTL DEF Spec
=============================================================================
