------------------------------ MODULE Gradient ------------------------------
(***************************************************************************)
(* The gradient controller (src/slowcontrol/controllers/gradient.py) and   *)
(* the part of the PLC driver it talks to: the setpoint registers, written *)
(* by a command's callback and by every poll, and the status each poll     *)
(* publishes of them before it writes.                                     *)
(***************************************************************************)
EXTENDS Broker, FiniteSets

CONSTANTS
  Zones,       \* ZONES
  Top,         \* the zone the others are offset from
  Default,     \* DEFAULT_BASE_K
  SpSafe       \* sp_safe_surrogate_k

ASSUME ZonesAssumption ==
  IsFiniteSet(Zones) /\ Top \in Zones /\ {Default, SpSafe} \subseteq Int

VARIABLES
  mode,        \* _mode
  base,        \* _base_k
  delta,       \* _delta_v_k and _delta_l_k, by zone
  abs,         \* _abs_setpoints
  reg,         \* the PLC's setpoint registers
  expr,        \* _pid_sp_expr, each as what evaluating it gives
  reportDue,   \* the PLC driver's poll interval has passed
  retained     \* the status the broker keeps of each zone

gradient == <<mode, base, delta, abs>>
plc      == <<reg, expr, reportDue, retained>>

(* A setpoint expression may give any of the values `of', or none.         *)
Expression == [of : SUBSET Int, fails : BOOLEAN]
NoExpr == [of |-> {}, fails |-> TRUE]
Num(v) == [of |-> {v}, fails |-> FALSE]

GradientInit == /\ mode = "gradient" /\ base = Default
                /\ delta = [z \in Zones |-> 0]
                /\ abs = [z \in Zones |-> Default]
GradientStart == /\ mode' = "gradient" /\ base' = Default
                 /\ delta' = [z \in Zones |-> 0]
                 /\ abs' = [z \in Zones |-> Default]

(* _apply: all zones are commanded, whatever the command was.              *)
Setpoints(m, b, d) == IF m = "gradient" THEN [z \in Zones |-> b + d[z]] ELSE abs
ZoneSeq == CHOOSE q \in [1 .. Cardinality(Zones) -> Zones] : \A z \in Zones : \E n \in DOMAIN q : q[n] = z
Apply(m, b, d) ==
  /\ mode' = m /\ base' = b /\ delta' = d
  /\ Reply([n \in DOMAIN ZoneSeq |-> [topic |-> "pid/setpoint", zone |-> ZoneSeq[n],
              value |-> Setpoints(m, b, d)[ZoneSeq[n]], by |-> "gradient"]])
  /\ UNCHANGED <<abs, plc>>

OnMode  == Arrives("gradient/mode") /\ Apply(Msg.mode, base, delta)
OnBase  == Arrives("gradient/base") /\ Apply(mode, Msg.value, delta)
OnDelta == Arrives("gradient/delta")          \* _on_vertical, _on_longitudinal
           /\ Apply(mode, base, [delta EXCEPT ![Msg.zone] = Msg.value])

(* A setpoint: the PLC driver writes it and keeps it as the expression of  *)
(* the zone, and in absolute mode the gradient controller takes it for its *)
(* own.  An expression is only kept.                                       *)
OnSetpoint ==
  /\ Arrives("pid/setpoint")
  /\ reg' = [reg EXCEPT ![Msg.zone] = Msg.value]
  /\ expr' = [expr EXCEPT ![Msg.zone] = Num(Msg.value)]
  /\ abs' = IF mode = "absolute" THEN [abs EXCEPT ![Msg.zone] = Msg.value] ELSE abs
  /\ Reply(<<>>)
  /\ UNCHANGED <<mode, base, delta, reportDue, retained>>

OnSetpointExpr ==
  /\ Arrives("pid/setpoint_expr")
  /\ expr' = [expr EXCEPT ![Msg.zone] = Msg.expr]
  /\ Reply(<<>>)
  /\ UNCHANGED <<gradient, reg, reportDue, retained>>

(* _on_plc_pid_status: what the PLC reports is adopted, never written back.*)
Adopt_BaseOnly(a) == base' = a[Top] /\ UNCHANGED delta             \* mutant
Adopt(a) == /\ base' = a[Top]
            /\ delta' = [z \in Zones |-> a[z] - a[Top]]
OnPidStatus ==
  /\ Arrives("pid/status")
  /\ abs' = [abs EXCEPT ![Msg.zone] = Msg.value]
  /\ Adopt(abs')
  /\ Reply(<<>>)
  /\ UNCHANGED <<mode, plc>>

Status(F) == [n \in DOMAIN ZoneSeq |-> [topic |-> "pid/status", zone |-> ZoneSeq[n],
                                        value |-> F[ZoneSeq[n]]]]

(* A poll of the PLC driver reads and publishes the zones, and only then   *)
(* writes to each what its expression gives - or, when the interlock trips *)
(* (HeaterInterlock, where the steps of a poll are told apart), the        *)
(* surrogate over it.                                                      *)
Leaves(z) == expr[z].of \cup (IF expr[z].fails THEN {reg[z]} ELSE {})
Report ==
  /\ reportDue
  /\ reportDue' = FALSE
  /\ retained' = reg
  /\ Publish(Status(reg))
  /\ UNCHANGED <<gradient, expr>>
WriteExpressions == reg' \in [Zones -> UNION {Leaves(z) : z \in Zones}]
                    /\ \A z \in Zones : reg'[z] \in Leaves(z)
WriteSurrogates  == reg' = [z \in Zones |-> SpSafe]

PollTick == ~reportDue /\ reportDue' = TRUE /\ UNCHANGED <<reg, expr, retained>>
=============================================================================
