--------------------------- MODULE HeaterInterlock ---------------------------
(***************************************************************************)
(* The PV safety interlock of the PLC driver                               *)
(* (src/slowcontrol/drivers/plc.py).                                       *)
(*                                                                         *)
(* Two threads of the service reach the PLC over one Modbus socket: the    *)
(* poll thread (PlcDriver.poll, once per poll interval) and the thread     *)
(* that runs the MQTT callbacks.  Only single Modbus operations are        *)
(* serialised, so a callback may run between any two of them.  The PLC     *)
(* scans its three PID blocks all the time.                                *)
(*                                                                         *)
(* A poll reads and publishes, writes the setpoint and PV expressions,     *)
(* and then judges the LabJack RTDs: if any of them is stale or outside    *)
(* the band, every zone gets PV <- PvSafe, SP <- SpSafe, output <- 0;      *)
(* otherwise the RTDs are mirrored into the PLC.                           *)
(***************************************************************************)
EXTENDS Integers

CONSTANTS
  NumRtd,       \* LabJack RTDs mirrored into the PLC (three in the code)
  NumZone,      \* heater zones, in the order top, bottom, nozzle
  StaleS,       \* pv_stale_s, in polls
  Temps,        \* plausible temperatures: readings, setpoints, PVs
  NaN,          \* a reading that is not a number
  NoReading,    \* nothing received since the service started
  PvSafe,       \* pv_safe_surrogate_k
  SpSafe,       \* sp_safe_surrogate_k
  Bands,        \* the bands in use, the configured one first of all
  DefaultBand,  \* pv_min_k and pv_max_k of config.yaml
  ExternalPv,   \* PVs a PID may see when it does not use its pv_raw register
  Readings,     \* what the LabJack may report
  Setpoints,    \* what pid/{zone}/setpoint may carry
  PvValues,     \* what pid/{zone}/pv may carry
  SpExprs,      \* what pid/{zone}/setpoint_expr may carry
  PvExprs,      \* what pid/{zone}/pv_expr may carry
  LevelOverflows, \* a level forwarded to the PLC may be beyond float32
  HandControl,  \* operators may use Manual, manual output and autotune
  LinkMayFail,  \* the PLC may become unreachable, a write may go unanswered
  MayRestart    \* the service may exit and be started again

Rtd   == 1 .. NumRtd
Zone  == 1 .. NumZone
Never == StaleS + 1      \* the age of a reading too old to use

(* The forms an expression can take, by what evaluating it gives: nothing  *)
(* (empty), a number, the latest value of an RTD, or a number the float32  *)
(* register cannot hold.                                                   *)
Expr  == [kind : {"none", "num", "rtd", "huge"}, arg : Int]
NoExpr == [kind |-> "none", arg |-> 0]
Num(v) == [kind |-> "num", arg |-> v]

Reg == Temps \cup {NaN, PvSafe, SpSafe}

ASSUME CountsAssumption ==
  /\ NumRtd \in Nat \ {0}
  /\ NumZone \in Nat \ {0}
  /\ StaleS \in Nat
ASSUME TempsAssumption == Temps \subseteq Int
(* "must exceed any plausible setpoint", "must be below any plausible PV"  *)
ASSUME SurrogateAssumption ==
  /\ PvSafe \in Int /\ SpSafe \in Int
  /\ SpSafe < PvSafe
  /\ \A t \in Temps : SpSafe < t /\ t < PvSafe
ASSUME NaNAssumption ==
  NaN \notin Int /\ NoReading \notin Int /\ NaN # NoReading
ASSUME BandAssumption ==
  DefaultBand \in Bands /\ Bands \subseteq [min : Int, max : Int]
ASSUME InputAssumption ==
  /\ ExternalPv \subseteq Temps
  /\ Readings \subseteq Temps \cup {NaN}
  /\ Setpoints \subseteq Temps /\ PvValues \subseteq Temps
  /\ NoExpr \in SpExprs \cap PvExprs
  /\ \A e \in SpExprs \cup PvExprs :
       /\ e \in Expr
       /\ e.kind = "num" => e.arg \in Temps
       /\ e.kind = "rtd" => e.arg \in Rtd
  /\ \A v \in Setpoints : Num(v) \in SpExprs
  /\ LevelOverflows \in BOOLEAN
  /\ HandControl \in BOOLEAN /\ LinkMayFail \in BOOLEAN /\ MayRestart \in BOOLEAN

VARIABLES
  \* the PLC
  sp, pvRaw,    \* SP and RawPV register of each zone
  out,          \* is the zone's output above 0 %?
  auto, hung,   \* PID in Auto; PID not computing (autotune hung)
  mirror,       \* DF210.. : the RTD mirrors
  \* the link
  link, conn,   \* is the PLC reachable; the driver's Modbus client
  \* the driver
  proc,         \* "polling", "disabled" (connect failed at start) or "down"
  rtd, age,     \* latest LabJack value per channel, polls since it came
  spExpr, pvExpr,
  band, saved,  \* the band in use, the band in pv_interlock.json
  tripped,      \* _interlock_tripped_was
  \* the poll thread
  due,          \* a poll interval has passed since the last poll
  pc, at,       \* the operation the poll has reached, its zone or channel
  val,          \* the value an expression or a channel was read as
  pollBand,     \* the band this poll judges by
  reason,       \* rtd_trip_reason: the channels found bad
  \* history
  pollEnd,      \* how the last poll ended
  missed,       \* a write of this poll went unanswered
  late,         \* channels heard from, or judged by new limits, since
                \* this poll began
  cmdPoll,      \* zones written by a command since this poll began
  cmdLegs,      \* zones written by a command since this poll judged
  held,         \* zones on which nothing was written after the interlock
  asked         \* zones given a setpoint or an expression since the start

plc   == <<sp, pvRaw, out, auto, hung, mirror>>
comms == <<link, conn>>
cache == <<rtd, age>>
exprs == <<spExpr, pvExpr>>
limits == <<band, saved>>
poll  == <<pc, at, val, pollBand, reason>>
hist  == <<late, cmdPoll, cmdLegs, held, asked>>
ended == <<pollEnd, missed>>
vars  == <<plc, comms, proc, cache, exprs, limits, tripped, due, poll, hist, ended>>
-----------------------------------------------------------------------------
(* What the code computes.                                                 *)

(* Python's < on floats: false when either side is not a number.           *)
Lt(a, b) == a # NaN /\ b # NaN /\ a < b

(* The values an expression gives, {} for None (nothing is written).       *)
Evaluate(e) ==
  CASE e.kind = "num" -> {e.arg}
    [] e.kind = "rtd" -> {rtd[e.arg]} \ {NoReading}
    [] OTHER          -> {}

(* A channel is bad when it is stale, or its value missing or outside the  *)
(* band.                                                                   *)
OutOfBand(v, b) == v = NoReading \/ Lt(v, b.min) \/ Lt(b.max, v)
Bad_NoStale(ch, v, b) == OutOfBand(v, b)             \* mutant: no age check
Bad_Early(ch, v, b) ==                                \* mutant: >= for >
  age[ch] >= StaleS \/ OutOfBand(v, b)
Bad(ch, v, b)   == age[ch] > StaleS \/ OutOfBand(v, b)

(* What a PID may take as its PV, and whether it may drive its output (on) *)
(* with it: below the setpoint it heats, what it makes of a NaN is open.   *)
PvSeen(z)    == {pvRaw[z]} \cup ExternalPv
Demands(s, p, on) == s # NaN /\ p # NaN => (on <=> p < s)

Zeroed(z) == sp[z] = SpSafe /\ pvRaw[z] = PvSafe /\ ~out[z]

-----------------------------------------------------------------------------
(* The process is started with connect() having reached the PLC, whose     *)
(* registers hold whatever an earlier service left in them.                *)
Init ==
  /\ sp \in [Zone -> Setpoints \cup {SpSafe}]
  /\ pvRaw \in [Zone -> PvValues \cup {PvSafe}]
  /\ out \in [Zone -> BOOLEAN]
  /\ auto = [z \in Zone |-> TRUE]
  /\ hung = [z \in Zone |-> FALSE]
  /\ mirror = [c \in Rtd |-> PvSafe]
  /\ link = TRUE /\ conn = "up"
  /\ proc = "polling"
  /\ rtd = [c \in Rtd |-> NoReading]
  /\ age = [c \in Rtd |-> Never]
  /\ spExpr = [z \in Zone |-> NoExpr]
  /\ pvExpr = [z \in Zone |-> NoExpr]
  /\ band = DefaultBand /\ saved = DefaultBand
  /\ tripped = FALSE
  /\ due = TRUE
  /\ pc = "idle" /\ at = 1 /\ val = NoReading
  /\ pollBand = DefaultBand /\ reason = {}
  /\ pollEnd = "none" /\ missed = FALSE
  /\ late = {} /\ cmdPoll = {} /\ cmdLegs = {} /\ held = {} /\ asked = {}

-----------------------------------------------------------------------------
(* The poll thread.  Goto(l, i) moves it to operation l, at zone or        *)
(* channel i; the locals that a later operation no longer needs are        *)
(* forgotten.                                                              *)

Goto(l, i) == pc' = l /\ at' = i

(* poll() returned.  An unexpected exception leaves the client open; a     *)
(* Modbus or socket error has it closed and thrown away.                   *)
EndPoll(how) ==
  /\ Goto("idle", 1)
  /\ val' = NoReading /\ reason' = {} /\ pollBand' = DefaultBand
  /\ pollEnd' = how
  /\ UNCHANGED missed

PollFails_KeepsClient ==                \* mutant: the dead client is kept
  /\ conn = "broken"
  /\ EndPoll("link")
  /\ UNCHANGED <<plc, comms, proc, cache, exprs, limits, tripped, due, hist>>

PollFails ==
  /\ conn = "broken"
  /\ EndPoll("link")
  /\ conn' = "none"
  /\ UNCHANGED <<plc, link, proc, cache, exprs, limits, tripped, due, hist>>

(* One register write of the poll: it lands, or it comes back as an error  *)
(* answer, which _write_float reports and its callers here ignore.         *)
Lands == conn = "up"
Lands_Lost == conn = "up" /\ LinkMayFail /\ missed' = TRUE /\ UNCHANGED <<plc, held>>

(* _ensure_modbus: a client that is open is used as it is, otherwise a     *)
(* new one is tried, and the poll is over when that fails.                 *)
PollStart ==
  /\ proc = "polling" /\ pc = "idle" /\ due
  /\ due' = FALSE
  /\ missed' = FALSE
  /\ late' = {} /\ cmdPoll' = {}
  /\ IF conn = "none" /\ ~link
       THEN /\ pollEnd' = "link"
            /\ UNCHANGED <<conn, pc>>
       ELSE /\ conn' = (IF conn = "none" THEN "up" ELSE conn)
            /\ pc' = "read"
            /\ pollEnd' = "none"
  /\ UNCHANGED <<plc, link, proc, cache, exprs, limits, tripped,
                 at, val, pollBand, reason, cmdLegs, held, asked>>

(* The registers are read and published, the levels written to registers   *)
(* that no PID uses: one the register cannot hold makes struct.pack raise, *)
(* and the poll is over.                                                   *)
ReadAndPublish ==
  /\ pc = "read"
  /\ conn = "up"
  /\ \/ Goto("sp", 1) /\ UNCHANGED <<val, pollBand, reason, ended>>
     \/ LevelOverflows /\ EndPoll("error")
  /\ UNCHANGED <<plc, comms, proc, cache, exprs, limits, tripped, due, hist>>

(* _write_pid_expressions, one expression at a time: first read and        *)
(* evaluated, then written - a command may come between the two.           *)
AfterExpr_PastEnd(k, z) ==                       \* mutant: one zone too many
  IF k = "sp" THEN Goto("pv", z)
  ELSE IF z <= NumZone THEN Goto("sp", z + 1) ELSE Goto("judge", 1)

AfterExpr(k, z) ==
  IF k = "sp"        THEN Goto("pv", z)
  ELSE IF z < NumZone THEN Goto("sp", z + 1)
                      ELSE Goto("judge", 1)

ExprOf_Swapped(k, z) == IF k = "sp" THEN pvExpr[z] ELSE spExpr[z]     \* mutant
ExprOf(k, z) == IF k = "sp" THEN spExpr[z] ELSE pvExpr[z]
WriterOf(k)  == IF k = "sp" THEN "spWrite" ELSE "pvWrite"

EvalExpr(k) ==
  /\ pc = k
  /\ LET e == ExprOf(k, at) IN
       \/ /\ e.kind = "huge"     \* struct.pack raises OverflowError
          /\ EndPoll("error")
       \/ /\ e.kind # "huge" /\ Evaluate(e) = {}
          /\ AfterExpr(k, at)
          /\ UNCHANGED <<val, pollBand, reason, ended>>
       \/ /\ \E v \in Evaluate(e) : val' = v
          /\ Goto(WriterOf(k), at)
          /\ UNCHANGED <<pollBand, reason, ended>>
  /\ UNCHANGED <<plc, comms, proc, cache, exprs, limits, tripped, due, hist>>

WriteExpr(k) ==
  /\ pc = WriterOf(k)
  /\ \/ /\ Lands
        /\ IF k = "sp" THEN sp' = [sp EXCEPT ![at] = val] /\ UNCHANGED pvRaw
                       ELSE pvRaw' = [pvRaw EXCEPT ![at] = val] /\ UNCHANGED sp
        /\ held' = held \ {at}
        /\ UNCHANGED <<out, auto, hung, mirror, missed>>
     \/ Lands_Lost
  /\ AfterExpr(k, at)
  /\ val' = NoReading
  /\ UNCHANGED <<comms, proc, cache, exprs, limits, tripped, due, pollBand,
                 reason, late, cmdPoll, cmdLegs, asked, pollEnd>>

(* _write_labjack_to_plc, detection: the band is taken once, then of each  *)
(* channel the value is read and, after it, the time it came.              *)
JudgeValue ==
  /\ pc = "judge"
  /\ val' = rtd[at]
  /\ pollBand' = (IF at = 1 THEN band ELSE pollBand)
  /\ cmdLegs' = (IF at = 1 THEN {} ELSE cmdLegs)
  /\ Goto("age", at)
  /\ UNCHANGED <<plc, comms, proc, cache, exprs, limits, tripped, due,
                 reason, late, cmdPoll, held, asked, ended>>

JudgeAge ==
  /\ pc = "age"
  /\ reason' = (IF Bad(at, val, pollBand) THEN reason \cup {at} ELSE reason)
  /\ val' = NoReading
  /\ IF at < NumRtd THEN Goto("judge", at + 1) /\ UNCHANGED pollBand
                    ELSE Goto("mirror", 1) /\ pollBand' = DefaultBand
  /\ UNCHANGED <<plc, comms, proc, cache, exprs, limits, tripped, due,
                 hist, ended>>

(* Action: with no channel bad the mirrors get the latest values, read     *)
(* anew; otherwise the surrogate, and then the zones their three legs.     *)
MirrorValue(c) == IF reason = {} THEN rtd[c] ELSE PvSafe

AfterMirror ==
  IF at < NumRtd      THEN Goto("mirror", at + 1)
  ELSE IF reason = {} THEN Goto("finish", 1)
                      ELSE Goto("pvLeg", 1)

WriteMirror ==
  /\ pc = "mirror"
  /\ \/ /\ Lands
        /\ mirror' = [mirror EXCEPT ![at] = MirrorValue(at)]
        /\ UNCHANGED <<sp, pvRaw, out, auto, hung, held, missed>>
     \/ Lands_Lost
  /\ AfterMirror
  /\ UNCHANGED <<comms, proc, cache, exprs, limits, tripped, due, val,
                 pollBand, reason, late, cmdPoll, cmdLegs, asked, pollEnd>>

(* (1) pv_raw, above any setpoint; (2) the setpoint, below any PV; (3) the *)
(* output, which a PID that does not compute leaves as it is.              *)
PvLeg ==
  /\ pc = "pvLeg"
  /\ \/ /\ Lands
        /\ pvRaw' = [pvRaw EXCEPT ![at] = PvSafe]
        /\ UNCHANGED <<sp, out, auto, hung, mirror, held, missed>>
     \/ Lands_Lost
  /\ Goto("spLeg", at)
  /\ UNCHANGED <<comms, proc, cache, exprs, limits, tripped, due, val,
                 pollBand, reason, late, cmdPoll, cmdLegs, asked, pollEnd>>

SpLeg ==
  /\ pc = "spLeg"
  /\ \/ /\ Lands
        /\ sp' = [sp EXCEPT ![at] = SpSafe]
        /\ UNCHANGED <<pvRaw, out, auto, hung, mirror, held, missed>>
     \/ Lands_Lost
  /\ Goto("outLeg", at)
  /\ UNCHANGED <<comms, proc, cache, exprs, limits, tripped, due, val,
                 pollBand, reason, late, cmdPoll, cmdLegs, asked, pollEnd>>

OutLeg_NotWritten ==                     \* mutant: two legs, not three
  /\ pc = "outLeg"
  /\ held' = (IF missed \/ at \in cmdLegs THEN held ELSE held \cup {at})
  /\ IF at < NumZone THEN Goto("pvLeg", at + 1) ELSE Goto("finish", 1)
  /\ UNCHANGED <<plc, comms, proc, cache, exprs, limits, tripped, due, val,
                 pollBand, reason, late, cmdPoll, cmdLegs, asked, ended>>

OutLeg ==
  /\ pc = "outLeg"
  /\ \/ /\ Lands
        /\ out' = [out EXCEPT ![at] = FALSE]
        /\ held' = (IF missed \/ at \in cmdLegs THEN held ELSE held \cup {at})
        /\ UNCHANGED <<sp, pvRaw, auto, hung, mirror, missed>>
     \/ Lands_Lost
  /\ IF at < NumZone THEN Goto("pvLeg", at + 1) ELSE Goto("finish", 1)
  /\ UNCHANGED <<comms, proc, cache, exprs, limits, tripped, due, val,
                 pollBand, reason, late, cmdPoll, cmdLegs, asked, pollEnd>>

(* The aggregate state is kept for the edge; the pneumatic readback that   *)
(* follows is fenced off and changes nothing here.                         *)
Finish ==
  /\ pc = "finish"
  /\ tripped' = (reason # {})
  /\ EndPoll("done")
  /\ UNCHANGED <<plc, comms, proc, cache, exprs, limits, due, hist>>

(* A write that the socket refuses ends the poll where it stands.          *)
InModbus == pc \in {"read", "spWrite", "pvWrite", "mirror", "pvLeg", "spLeg", "outLeg"}
PollLoses == InModbus /\ PollFails

PollStep ==
  \/ PollStart \/ ReadAndPublish
  \/ \E k \in {"sp", "pv"} : EvalExpr(k) \/ WriteExpr(k)
  \/ JudgeValue \/ JudgeAge
  \/ WriteMirror \/ PvLeg \/ SpLeg \/ OutLeg
  \/ Finish \/ PollLoses

-----------------------------------------------------------------------------
(* The MQTT callbacks: each runs between two operations of the poll.  An   *)
(* exception in one, as from a client that is closed, is logged by the     *)
(* MQTT client and forgotten.                                              *)

LabJackRtd(c, v) ==
  /\ proc = "polling"
  /\ rtd' = [rtd EXCEPT ![c] = v]
  /\ age' = [age EXCEPT ![c] = 0]
  /\ late' = late \cup {c}
  /\ UNCHANGED <<plc, comms, proc, exprs, limits, tripped, due, poll,
                 cmdPoll, cmdLegs, held, asked, ended>>

(* A command's own register write, when the client works and it lands.     *)
Reached == conn = "up"
Commanded(z) ==
  /\ cmdPoll' = cmdPoll \cup {z}
  /\ cmdLegs' = cmdLegs \cup {z}
  /\ held' = held \ {z}
Uncommanded == UNCHANGED <<cmdPoll, cmdLegs, held>>

(* A setpoint is stored as an expression and written once; should that     *)
(* write fail, the next poll's will do.                                    *)
OnPidSetpoint(z, v) ==
  /\ proc = "polling"
  /\ spExpr' = [spExpr EXCEPT ![z] = Num(v)]
  /\ asked' = asked \cup {z}
  /\ cmdPoll' = cmdPoll \cup {z}
  /\ \/ /\ Reached
        /\ sp' = [sp EXCEPT ![z] = v]
        /\ cmdLegs' = cmdLegs \cup {z}
        /\ held' = held \ {z}
     \/ /\ ~Reached \/ LinkMayFail
        /\ UNCHANGED <<sp, cmdLegs, held>>
  /\ UNCHANGED <<pvRaw, out, auto, hung, mirror, comms, proc, cache, pvExpr,
                 limits, tripped, due, poll, late, ended>>

OnPidSetpointExpr(z, e) ==
  /\ proc = "polling"
  /\ spExpr' = [spExpr EXCEPT ![z] = e]
  /\ asked' = asked \cup {z}
  /\ cmdPoll' = cmdPoll \cup {z}
  /\ UNCHANGED <<plc, comms, proc, cache, pvExpr, limits, tripped, due, poll,
                 late, cmdLegs, held, ended>>

OnPidPvExprSet(z, e) ==
  /\ proc = "polling"
  /\ pvExpr' = [pvExpr EXCEPT ![z] = e]
  /\ UNCHANGED <<plc, comms, proc, cache, spExpr, limits, tripped, due, poll,
                 hist, ended>>

OnPidPvWrite(z, v) ==
  /\ proc = "polling" /\ Reached
  /\ pvRaw' = [pvRaw EXCEPT ![z] = v]
  /\ Commanded(z)
  /\ UNCHANGED <<sp, out, auto, hung, mirror, comms, proc, cache, exprs,
                 limits, tripped, due, poll, late, asked, ended>>

(* value_pct, clamped to 0..100: zero, or above it.                        *)
OnPidOutput(z, on) ==
  /\ proc = "polling" /\ Reached
  /\ out' = [out EXCEPT ![z] = on]
  /\ Commanded(z)
  /\ UNCHANGED <<sp, pvRaw, auto, hung, mirror, comms, proc, cache, exprs,
                 limits, tripped, due, poll, late, asked, ended>>

OnPidMode(z, toAuto) ==
  /\ proc = "polling" /\ Reached
  /\ auto' = [auto EXCEPT ![z] = toAuto]
  /\ UNCHANGED <<sp, pvRaw, out, hung, mirror, comms, proc, cache, exprs,
                 limits, tripped, due, poll, hist, ended>>

(* Autotune is started; while it hangs the PID does not compute.           *)
OnPidAutotune(z) ==
  /\ proc = "polling" /\ Reached
  /\ hung' = [hung EXCEPT ![z] = TRUE]
  /\ UNCHANGED <<sp, pvRaw, out, auto, mirror, comms, proc, cache, exprs,
                 limits, tripped, due, poll, hist, ended>>

(* Limits are taken when 0 < min < max, and saved under the same lock; a   *)
(* failing save is only logged.                                            *)
OnPvInterlockLimits(b) ==
  /\ proc = "polling"
  /\ 0 < b.min /\ b.min < b.max
  /\ band' = b
  /\ saved' \in {b, saved}
  /\ late' = Rtd
  /\ UNCHANGED <<plc, comms, proc, cache, exprs, tripped, due, poll,
                 cmdPoll, cmdLegs, held, asked, ended>>

Command ==
  \/ \E z \in Zone :
       \/ \E v \in Setpoints : OnPidSetpoint(z, v)
       \/ \E e \in SpExprs : OnPidSetpointExpr(z, e)
       \/ \E e \in PvExprs : OnPidPvExprSet(z, e)
       \/ \E v \in PvValues : OnPidPvWrite(z, v)
       \/ HandControl /\ \E b \in BOOLEAN : OnPidOutput(z, b) \/ OnPidMode(z, b)
       \/ HandControl /\ OnPidAutotune(z)
  \/ \E b \in Bands : OnPvInterlockLimits(b)

LabJack == \E c \in Rtd, v \in Readings : LabJackRtd(c, v)

-----------------------------------------------------------------------------
(* The PLC, the network, the process and the clock.                        *)

(* One scan of a zone's PID block: it computes in Auto and unless hung.    *)
PlcScan(z) ==
  /\ auto[z] /\ ~hung[z]
  /\ \E p \in PvSeen(z), on \in BOOLEAN :
       Demands(sp[z], p, on) /\ out' = [out EXCEPT ![z] = on]
  /\ UNCHANGED <<sp, pvRaw, auto, hung, mirror, comms, proc, cache, exprs,
                 limits, tripped, due, poll, hist, ended>>

AutotuneEnds(z) ==
  /\ hung[z]
  /\ hung' = [hung EXCEPT ![z] = FALSE]
  /\ UNCHANGED <<sp, pvRaw, out, auto, mirror, comms, proc, cache, exprs,
                 limits, tripped, due, poll, hist, ended>>

LinkDown ==
  /\ LinkMayFail /\ link
  /\ link' = FALSE
  /\ conn' = (IF conn = "up" THEN "broken" ELSE conn)
  /\ UNCHANGED <<plc, proc, cache, exprs, limits, tripped, due, poll, hist, ended>>

LinkUp ==
  /\ ~link
  /\ link' = TRUE
  /\ UNCHANGED <<plc, conn, proc, cache, exprs, limits, tripped, due, poll,
                 hist, ended>>

Exit_KeepsExprs ==       \* mutant: expressions outlive the process
  /\ MayRestart /\ proc # "down"
  /\ proc' = "down"
  /\ conn' = "none"
  /\ rtd' = [c \in Rtd |-> NoReading] /\ age' = [c \in Rtd |-> Never]
  /\ band' = DefaultBand /\ tripped' = FALSE /\ due' = FALSE
  /\ Goto("idle", 1)
  /\ val' = NoReading /\ reason' = {} /\ pollBand' = DefaultBand
  /\ pollEnd' = "none" /\ missed' = FALSE
  /\ late' = {} /\ cmdPoll' = {} /\ cmdLegs' = {} /\ asked' = {}
  /\ UNCHANGED <<plc, link, exprs, saved, held>>

(* The process ends, by a watchdog or a stop, wherever the poll is: the    *)
(* PLC keeps its registers and goes on.                                    *)
Exit ==
  /\ MayRestart /\ proc # "down"
  /\ proc' = "down"
  /\ conn' = "none"
  /\ rtd' = [c \in Rtd |-> NoReading] /\ age' = [c \in Rtd |-> Never]
  /\ spExpr' = [z \in Zone |-> NoExpr] /\ pvExpr' = [z \in Zone |-> NoExpr]
  /\ band' = DefaultBand /\ tripped' = FALSE /\ due' = FALSE
  /\ Goto("idle", 1)
  /\ val' = NoReading /\ reason' = {} /\ pollBand' = DefaultBand
  /\ pollEnd' = "none" /\ missed' = FALSE
  /\ late' = {} /\ cmdPoll' = {} /\ cmdLegs' = {} /\ asked' = {}
  /\ UNCHANGED <<plc, link, saved, held>>

(* __init__: the limits of the file, or those of the configuration.        *)
LoadLimits == band' = saved

(* SensorDriver.start: a connect() that raises leaves the driver disabled  *)
(* for the life of the process; otherwise the first poll is due at once.   *)
Start ==
  /\ proc = "down"
  /\ LoadLimits
  /\ IF link THEN proc' = "polling" /\ conn' = "up" /\ due' = TRUE
             ELSE proc' = "disabled" /\ UNCHANGED <<conn, due>>
  /\ UNCHANGED <<plc, link, cache, exprs, saved, tripped, poll, hist, ended>>

(* The clock moves by one poll interval once the poll it called for is     *)
(* over; a process that does not poll holds nothing up.                    *)
Tick ==
  /\ proc = "polling" => pc = "idle" /\ ~due
  /\ age' = [c \in Rtd |-> IF age[c] < Never THEN age[c] + 1 ELSE Never]
  /\ due' = (proc = "polling")
  /\ UNCHANGED <<plc, comms, proc, rtd, exprs, limits, tripped, poll, hist, ended>>

Environment ==
  \/ \E z \in Zone : PlcScan(z) \/ AutotuneEnds(z)
  \/ LinkDown \/ LinkUp \/ Exit \/ Start \/ Tick

Next == PollStep \/ Command \/ LabJack \/ Environment

Spec == Init /\ [][Next]_vars

(* The poll thread keeps running and so does the clock.                    *)
Fairness == WF_vars(PollStep) /\ WF_vars(Tick)
FairSpec == Spec /\ Fairness

-----------------------------------------------------------------------------
Ops == {"idle", "read", "sp", "spWrite", "pv", "pvWrite", "judge", "age",
        "mirror", "pvLeg", "spLeg", "outLeg", "finish"}
OnZones == {"sp", "spWrite", "pv", "pvWrite", "pvLeg", "spLeg", "outLeg"}
OnRtds  == {"judge", "age", "mirror"}

PlcOK ==
  /\ sp \in [Zone -> Reg] /\ pvRaw \in [Zone -> Reg]
  /\ out \in [Zone -> BOOLEAN] /\ auto \in [Zone -> BOOLEAN]
  /\ hung \in [Zone -> BOOLEAN]
  /\ mirror \in [Rtd -> Reg \cup {NoReading}]

DriverOK ==
  /\ link \in BOOLEAN /\ conn \in {"up", "broken", "none"}
  /\ proc \in {"polling", "disabled", "down"}
  /\ rtd \in [Rtd -> Readings \cup {NoReading}] /\ age \in [Rtd -> 0 .. Never]
  /\ spExpr \in [Zone -> SpExprs] /\ pvExpr \in [Zone -> PvExprs]
  /\ band \in Bands /\ saved \in Bands
  /\ tripped \in BOOLEAN /\ due \in BOOLEAN

PollOK ==
  /\ pc \in Ops
  /\ pc \in OnZones => at \in Zone
  /\ pc \in OnRtds => at \in Rtd
  /\ pc \notin OnZones \cup OnRtds => at = 1
  /\ val \in Reg \cup {NoReading}
  /\ pc \in {"spWrite", "pvWrite"} => val # NoReading
  /\ pollBand \in Bands
  /\ reason \in SUBSET Rtd

HistoryOK ==
  /\ pollEnd \in {"none", "done", "error", "link"} /\ missed \in BOOLEAN
  /\ late \in SUBSET Rtd
  /\ cmdPoll \in SUBSET Zone /\ cmdLegs \in SUBSET Zone
  /\ held \in SUBSET Zone /\ asked \in SUBSET Zone

(* Every variable has its type, and the poll's cursor stays on a zone or a *)
(* channel that exists while an operation uses it.                         *)
TypeOK == PlcOK /\ DriverOK /\ PollOK /\ HistoryOK

(* A poll has come to its end, every write of it answered, and the clock   *)
(* has not moved since.                                                    *)
Settled == pc = "idle" /\ ~due /\ pollEnd = "done" /\ ~missed

(* What a channel must not be: out of date, or a number outside the band.  *)
IsBad(c) ==
  \/ age[c] > StaleS
  \/ rtd[c] = NoReading
  \/ rtd[c] # NaN /\ rtd[c] \notin band.min .. band.max

(* Three legs, one promise: from the third leg of a zone until a command   *)
(* or an expression writes to that zone again, its setpoint and PV stay at *)
(* the surrogates and its output at zero - with the PID computing, hung or *)
(* in Manual, whatever PV it really uses, across lost links and restarts.  *)
(* (plc.py _write_labjack_to_plc, "three redundant writes".)               *)
HeldMeansZeroed == \A z \in held : Zeroed(z)

(* No heater outlives bad data by more than a poll: once a poll has gone   *)
(* through, a channel that was stale or out of band all along has every    *)
(* zone zeroed, but for zones commanded while the poll was judging.        *)
(* (plc.py _write_labjack_to_plc, trip rules and system-wide response.)    *)
BadDataZeroes ==
  Settled /\ (\E c \in Rtd \ late : IsBad(c))
    => tripped /\ \A z \in Zone : z \in cmdLegs \/ Zeroed(z)

(* The other way about: a trip has a cause, and without one the PLC gets   *)
(* each channel's latest value.  (plc.py _write_labjack_to_plc, normal     *)
(* path; the clearing of a trip.)                                          *)
GoodDataPasses ==
  Settled /\ (\A c \in Rtd : c \notin late /\ ~IsBad(c))
    => ~tripped /\ mirror = rtd

(* A numeric setpoint is what the SP register holds after any poll that    *)
(* did not trip and during which the setpoint was not changed: the last    *)
(* command wins over a poll that had already evaluated the one before.     *)
(* (plc.py _on_pid_setpoint, "a single per-poll writer of the SP".)        *)
SetpointAsserted ==
  pc = "idle" /\ pollEnd = "done" /\ ~missed /\ ~tripped =>
    \A z \in Zone \ cmdPoll :
      spExpr[z].kind = "num" => sp[z] = spExpr[z].arg

(* An SP register leaves the surrogate only for a zone that was given a    *)
(* setpoint or an expression since the service started: neither the end of *)
(* a trip nor a restart turns a heater back on by itself.                  *)
(* (plc.py __init__: expressions start empty, nothing restores SP.)        *)
ReleaseNeedsCommand ==
  [][\A z \in Zone : sp[z] = SpSafe /\ sp'[z] # SpSafe => z \in asked']_vars

(* With the driver polling, the PLC in reach and answering, data that stay *)
(* stale zero every zone again and again, however often the link failed    *)
(* before - unless polls keep raising before they judge, which a level or  *)
(* an expression beyond float32 makes them do (OverridesAnyExpr, below).   *)
(* (plc.py poll and _ensure_modbus.)                                       *)
StaleDataZeroes ==
  <>[](/\ proc = "polling" /\ link /\ ~missed /\ pollEnd # "error"
       /\ \E c \in Rtd : age[c] = Never)
    => []<>(\A z \in Zone : z \in cmdLegs \/ Zeroed(z))

-----------------------------------------------------------------------------
(* The strengthenings the proofs of these properties rest on.              *)

(* A poll under way is the poll of a live driver.                          *)
PollingInv == proc # "polling" => pc = "idle" /\ pollEnd = "none"

(* The legs already written on the zone at hand still stand.               *)
LegsInv ==
  at \notin cmdLegs /\ ~missed =>
    /\ pc \in {"spLeg", "outLeg"} => pvRaw[at] = PvSafe
    /\ pc = "outLeg" => sp[at] = SpSafe

(* Channels the poll has passed were judged by what is still true of them. *)
Passed(c) ==
  \/ pc \in {"judge", "age"} /\ c < at
  \/ pc \in {"mirror", "pvLeg", "spLeg", "outLeg", "finish"}

JudgeInv ==
  \A c \in Rtd \ late :
    /\ Passed(c) /\ IsBad(c) => c \in reason
    /\ pc = "age" \/ (pc = "judge" /\ at > 1) => pollBand = band
    /\ pc = "age" /\ c = at => val = rtd[at]

(* Zones the interlock is done with are zeroed or commanded since.         *)
Done(z) ==
  \/ pc \in {"pvLeg", "spLeg", "outLeg"} /\ z < at
  \/ pc = "finish" /\ reason # {}
  \/ Settled /\ tripped

ZonesInv ==
  ~missed => \A z \in Zone : Done(z) => z \in cmdLegs \cup held

(* And after the poll the verdict stands as long as the data do.           *)
VerdictInv == Settled /\ (\E c \in Rtd \ late : IsBad(c)) => tripped

(* A setpoint about to be written comes from a command.                    *)
AskedInv ==
  /\ \A z \in Zone : spExpr[z].kind # "none" => z \in asked
  /\ pc = "spWrite" => at \in asked

(* A poll has found nothing bad before it judges, something once it writes *)
(* the legs.                                                               *)
Legs == {"pvLeg", "spLeg", "outLeg"}

ReasonInv ==
  /\ pc \notin {"judge", "age", "mirror", "finish"} \cup Legs => reason = {}
  /\ pc = "judge" /\ at = 1 => reason = {}
  /\ pc \in Legs => reason # {}

(* While all channels are good and nothing new is heard of them, none is   *)
(* judged bad, and the mirrors written are the channels' latest values.    *)
Mirrored(c) ==
  \/ pc = "mirror" /\ c < at
  \/ pc = "finish"
  \/ Settled

GoodInv ==
  (\A c \in Rtd : c \notin late /\ ~IsBad(c)) =>
    /\ reason = {}
    /\ ~missed => \A c \in Rtd : Mirrored(c) => mirror[c] = rtd[c]
    /\ Settled => ~tripped

(* Of the zones the poll has passed and no command has written to, a       *)
(* numeric setpoint is in the register, and stays until the legs.          *)
Written(z) ==
  \/ pc \in {"sp", "spWrite"} /\ z < at
  \/ pc \in {"pv", "pvWrite"} /\ z <= at
  \/ pc \in {"judge", "age", "mirror"}
  \/ pc = "finish" /\ reason = {}
  \/ pc = "idle" /\ pollEnd = "done" /\ ~tripped

WrittenInv ==
  ~missed => \A z \in Zone \ cmdPoll : spExpr[z].kind = "num" =>
    /\ Written(z) => sp[z] = spExpr[z].arg
    /\ pc = "spWrite" /\ z = at => val = spExpr[z].arg

-----------------------------------------------------------------------------
(* What the repository says of the interlock, and the code does not do:    *)
(* each is refuted by a run of its own.                                    *)

(* "the surrogate writes override any active pv_expr / sp_expr on trip"    *)
(* (plc.py): no expression keeps a poll that reached the PLC from zeroing  *)
(* the zones on bad data.                                                  *)
OverridesAnyExpr ==
  /\ pc = "idle" /\ ~due /\ pollEnd \in {"done", "error"} /\ ~missed
  /\ \E c \in Rtd \ late : IsBad(c)
  => \A z \in Zone : z \in cmdLegs \/ Zeroed(z)

(* "a service restart can't release a runaway heater (the interlock trips  *)
(* immediately on startup because no LJ data has arrived yet)"             *)
(* (core/service.py): with the service up, the PLC in reach and no data,   *)
(* the zones get zeroed.                                                   *)
RestartZeroes ==
  <>[](proc # "down" /\ link /\ ~missed /\ \E c \in Rtd : age[c] = Never)
    => []<>(\A z \in Zone : z \in cmdLegs \/ Zeroed(z))
=============================================================================
