---------------------------- MODULE ServiceProofs ----------------------------
(***************************************************************************)
(* What is proved of Service, for any drivers, times, hosts and number of  *)
(* events: the diagnostic and the service do not share the LabJack, a      *)
(* diagnostic that is over has brought the service back, and the watchdogs *)
(* end a process that is of no use in time.                                *)
(***************************************************************************)
EXTENDS Service, SequenceTheorems, TLAPS

(* The unit has a process only while systemd says so.                      *)
UnitInv ==
  /\ unit \in {"inactive", "active", "activating", "deactivating", "failed"}
  /\ Alive => unit \in {"active", "deactivating"}
  /\ main = "ending" => unit = "deactivating"
  /\ queued \in BOOLEAN /\ (queued => unit = "deactivating")

Diags == [active : BOOLEAN, handle : BOOLEAN, leaked : BOOLEAN, late : BOOLEAN]
(* A handle is a running diagnostic's, or one that is being closed.        *)
DiagInv ==
  /\ diag \in Diags
  /\ req \in {"none", "stop", "stopping", "open", "reset", "start", "close"}
  /\ diag.active => req \in {"none", "reset", "start"}
  /\ diag.handle => (diag.active /\ req = "none") \/ req = "close"

Asleep == unit \in {"inactive", "failed"}
Up     == \/ unit \in {"active", "activating", "failed"}
          \/ unit = "deactivating" /\ queued

(* From the stop that was asked for to the start, nothing starts the       *)
(* service but the operator.                                               *)
SessionInv == (diag.handle \/ req = "open") /\ "started" \notin excused => Asleep

(* Before the stop and after the start nothing stops it but the operator.  *)
UpInv ==
  ~diag.active /\ req \in {"none", "stop"} /\ excused \cap {"stopped", "unstarted"} = {} => Up

Inv == UnitInv /\ DiagInv /\ SessionInv /\ UpInv

-----------------------------------------------------------------------------
(* systemd.                                                                *)

LEMMA Starts ==
  ASSUME UnitInv, UnitStart \/ UnitRestart
  PROVE  UnitInv' /\ Up'
BY DEF UnitInv, Up, Alive, UnitStart, UnitRestart, Launched, Launch

LEMMA Forgets ==
  ASSUME UnitInv, UnitForget
  PROVE  UnitInv'
BY DEF UnitInv, Alive, UnitForget

LEMMA Stops ==
  ASSUME UnitInv, UnitStop
  PROVE  UnitInv' /\ (Asleep => Asleep')
<1>1. unit' \in {"inactive", "active", "activating", "deactivating", "failed"}
      /\ (unit = "active" => unit' = "deactivating")
      /\ (unit = "deactivating" => unit' = "deactivating")
      /\ (Asleep => unit' = unit)
      /\ main' = main /\ queued' = FALSE
  BY DEF UnitInv, UnitStop, Asleep
<1> QED BY <1>1 DEF UnitInv, Asleep, Alive

(* The process itself, and systemd for it, keep a unit up and asleep.      *)
LEMMA Runs ==
  ASSUME UnitInv, UnitStep
  PROVE  UnitInv' /\ (Asleep => Asleep') /\ (Up => Up')
<1> USE DEF UnitInv, Asleep, Up, Alive
<1>1. CASE AutoRestart
  BY <1>1 DEF AutoRestart, Launched, Launch
<1>2. ASSUME NEW bad \in BOOLEAN, Alive, Ended(bad), bad \/ unit = "deactivating"
      PROVE  UnitInv' /\ (Asleep => Asleep') /\ (Up => Up')
  <2>1. CASE queued
    BY <1>2, <2>1 DEF Ended, Launched, Launch
  <2>2. CASE ~queued
    <3>1. /\ main' = "none" /\ queued' = queued
          /\ unit = "active" => unit' \in {"activating", "inactive"}
          /\ unit # "active" => unit' \in {"failed", "inactive"}
      BY <1>2, <2>2 DEF Ended
    <3>2. unit = "active" \/ (unit = "deactivating" /\ ~queued) BY <1>2, <2>2
    <3>3. unit = "active" => unit' = "activating" BY <1>2, <2>2 DEF Ended
    <3> QED BY <3>1, <3>2, <3>3
  <2> QED BY <2>1, <2>2
<1>3. CASE Connects
  <2>1. CASE Ended(TRUE)
    <3>1. Alive BY <1>3 DEF Connects
    <3> QED BY <2>1, <3>1, <1>2
  <2>2. CASE main' = "drivers" /\ UNCHANGED systemd
    BY <1>3, <2>2 DEF Connects, systemd
  <2> QED BY <1>3, <2>1, <2>2 DEF Connects
<1>4. CASE StartDrivers
  BY <1>4 DEF StartDrivers, systemd
<1>5. CASE Heartbeat
  <2>1. Alive BY <1>5 DEF Heartbeat
  <2>2. CASE unit = "deactivating" /\ Ending
    BY <2>2 DEF Ending, systemd
  <2>3. CASE Ended(TRUE) BY <2>1, <2>3, <1>2
  <2>4. CASE UNCHANGED systemd /\ main' = main
    BY <2>4 DEF systemd
  <2> QED BY <1>5, <2>2, <2>3, <2>4 DEF Heartbeat
<1>6. CASE Signalled
  BY <1>6 DEF Signalled, Ending, systemd
<1>7. ASSUME NEW d \in Drivers, PollOf(d)
      PROVE  UnitInv' /\ (Asleep => Asleep') /\ (Up => Up')
  BY <1>7 DEF PollOf, systemd
<1>8. CASE Exits
  <2>1. PICK bad \in BOOLEAN : Ended(bad) BY <1>8 DEF Exits
  <2>2. Alive /\ unit = "deactivating" BY <1>8 DEF Exits
  <2> QED BY <1>2, <2>1, <2>2
<1> QED BY <1>1, <1>3, <1>4, <1>5, <1>6, <1>7, <1>8 DEF UnitStep

-----------------------------------------------------------------------------
LEMMA InitInv == Init => Inv
<1> SUFFICES ASSUME Init PROVE Inv OBVIOUS
<1>1. diag \in Diags /\ ~diag.active /\ ~diag.handle /\ req = "none"
  BY DEF Init, DiagInit, NoDiag, Diags
<1>2. unit = "active" /\ queued = FALSE /\ main = "starting"
  BY DEF Init, UnitInit
<1> QED BY <1>1, <1>2 DEF Inv, UnitInv, DiagInv, SessionInv, UpInv, Asleep, Up, Alive

(* Steps that touch neither the unit nor the diagnostic.                   *)
LEMMA Still ==
  ASSUME Inv, UNCHANGED <<unit, queued, main, diag, req, excused>>
  PROVE  Inv'
BY DEF Inv, UnitInv, DiagInv, SessionInv, UpInv, Asleep, Up, Alive

LEMMA DiagKeeps ==
  ASSUME Inv, DiagRuns \/ DiagFault
  PROVE  Inv'
<1> USE DEF Inv, DiagInv, SessionInv, UpInv, Diags
<1>0. excused' = excused BY DEF DiagRuns, DiagFault
<1>1. CASE StopService
  <2>1. CASE UnitStop /\ req' = "stopping"
    BY <1>1, <2>1, Stops DEF StopService, UnitInv
  <2>2. CASE SystemdKept /\ req' \in {"none", "reset"}
    BY <1>0, <1>1, <2>2 DEF StopService, SystemdKept, systemd, UnitInv, Up, Asleep, Alive
  <2> QED BY <1>1, <2>1, <2>2 DEF StopService, Turn
<1>2. CASE StopReturns
  <2>1. UNCHANGED <<unit, queued, main, diag>> /\ req = "stopping"
    BY <1>2 DEF StopReturns, SystemdKept, systemd
  <2>2. CASE unit \in {"inactive", "failed"} /\ req' = "open"
    BY <1>0, <2>1, <2>2 DEF UnitInv, Asleep, Alive
  <2>3. CASE req' = "reset"
    BY <1>0, <2>1, <2>3 DEF UnitInv, Asleep, Alive
  <2>4. CASE (queued \/ unit \in {"active", "activating"}) /\ req' = "none"
    <3>1. UnitInv' BY <2>1 DEF UnitInv, Alive
    <3>2. Up' BY <2>1, <2>4 DEF Up, UnitInv
    <3> QED BY <1>0, <2>1, <2>4, <3>1, <3>2
  <2> QED BY <1>2, <2>2, <2>3, <2>4 DEF StopReturns, Turn
<1>3. CASE OpenLabjack
  <2>1. ~diag.handle /\ ~diag.active /\ UNCHANGED <<unit, queued, main, excused>>
    BY <1>0, <1>3 DEF OpenLabjack, SystemdKept, systemd
  <2>2. CASE diag' = [diag EXCEPT !.active = TRUE, !.handle = TRUE] /\ Turn("none")
    <3>1. diag'.active /\ diag'.handle /\ diag' \in Diags
      BY <2>2
    <3> QED BY <1>3, <2>1, <2>2, <3>1 DEF OpenLabjack, Turn, UnitInv, Asleep, Alive
  <2>3. CASE Turn("reset") /\ UNCHANGED diag
    BY <2>1, <2>3 DEF Turn, UnitInv, Asleep, Alive
  <2> QED BY <1>3, <2>2, <2>3 DEF OpenLabjack
<1>4. CASE OpenFails
  <2>1. /\ ~diag.handle /\ UNCHANGED <<unit, queued, main>> /\ req' = "reset"
        /\ diag' \in Diags /\ ~diag'.handle
    BY <1>4 DEF OpenFails, SystemdKept, systemd, Turn
  <2> QED BY <1>0, <2>1 DEF UnitInv, Alive
<1>5. CASE CloseLabjack \/ CloseFails
  <2>1. /\ req = "close" /\ req' = "reset" /\ UNCHANGED <<unit, queued, main>>
        /\ diag' \in Diags /\ diag'.active = diag.active /\ ~diag'.handle
    BY <1>5 DEF CloseLabjack, CloseFails, SystemdKept, systemd, Turn
  <2> QED BY <1>0, <2>1 DEF UnitInv, Alive
<1>6. CASE ResetFailed
  <2>1. UnitInv' /\ req = "reset" /\ req' = "start" /\ diag' = diag
    BY <1>6, Forgets DEF ResetFailed, Turn
  <2> QED BY <1>0, <2>1
<1>7. CASE LateEnds
  <2>1. /\ UNCHANGED <<unit, queued, main, req>>
        /\ diag' \in Diags /\ diag'.active = diag.active /\ diag'.handle = diag.handle
    BY <1>7 DEF LateEnds, SystemdKept, systemd
  <2> QED BY <1>0, <2>1 DEF UnitInv, Alive, Asleep, Up
<1> QED BY <1>1, <1>2, <1>3, <1>4, <1>5, <1>6, <1>7
        DEF DiagRuns, DiagFault, DiagStep, DiagLeaks

(* The end of a diagnostic: the service was started, or it says it was not.*)
LEMMA OverKeeps ==
  ASSUME Inv, DiagOver
  PROVE  Inv'
<1> USE DEF Inv, DiagInv, SessionInv, UpInv, Diags
<1>1. CASE StartService /\ excused' = {}
  <2>1. UnitInv' /\ Up' BY <1>1, Starts DEF StartService
  <2>2. req = "start" /\ req' = "none" /\ ~diag'.active /\ ~diag'.handle /\ diag' \in Diags
    BY <1>1 DEF StartService, Turn, Inactive
  <2> QED BY <2>1, <2>2
<1>2. CASE DiagFails /\ "unstarted" \in excused'
  <2>1. /\ req' = "none" /\ ~diag.handle /\ diag' \in Diags /\ ~diag'.handle
    BY <1>2 DEF DiagFails, JoinRaises, ResetRaises, StartFails, Turn, Inactive
  <2>2. UnitForget \/ UNCHANGED <<unit, queued, main>>
    BY <1>2 DEF DiagFails, JoinRaises, ResetRaises, StartFails, SystemdKept, systemd
  <2>3. UnitInv' BY <2>2, Forgets DEF UnitInv, Alive
  <2> QED BY <1>2, <2>1, <2>3
<1> QED BY <1>1, <1>2 DEF DiagOver, Blame, Excuse

LEMMA OperatorKeeps ==
  ASSUME Inv, Operator
  PROVE  Inv'
<1> USE DEF Inv, DiagInv, SessionInv, UpInv
<1>0. diag' = diag /\ req' = req BY DEF Operator, DiagKept
<1>1. CASE OperatorStops
  <2>1. UnitInv' /\ (Asleep => Asleep') BY <1>1, Stops DEF OperatorStops
  <2>2. excused' = excused \cup {"stopped"} BY <1>1 DEF OperatorStops, Excuse
  <2> QED BY <1>0, <2>1, <2>2
<1>2. CASE OperatorStarts \/ OperatorRestarts
  <2>1. UnitInv' /\ Up' BY <1>2, Starts DEF OperatorStarts, OperatorRestarts
  <2>2. InDiag => "started" \in excused'
    BY <1>2 DEF OperatorStarts, OperatorRestarts, Excuse
  <2>3. ~InDiag => ~diag.handle /\ req = "none" BY DEF InDiag
  <2> QED BY <1>0, <2>1, <2>2, <2>3
<1> QED BY <1>1, <1>2 DEF Operator

LEMMA StepInv == Inv /\ [Next]_vars => Inv'
<1> SUFFICES ASSUME Inv, [Next]_vars PROVE Inv' OBVIOUS
<1>1. CASE RunStep
  <2>1. UnitInv' /\ (Asleep => Asleep') /\ (Up => Up') BY <1>1, Runs DEF RunStep, Inv
  <2>2. UNCHANGED <<diag, req, excused>> BY <1>1 DEF RunStep, DiagKept
  <2> QED BY <2>1, <2>2 DEF Inv, DiagInv, SessionInv, UpInv
<1>2. CASE DiagRuns \/ DiagFault \/ DiagOver BY <1>2, DiagKeeps, OverKeeps
<1>3. CASE DiagAsked
  <2> USE DEF Inv, UnitInv, DiagInv, SessionInv, UpInv, Asleep, Up, Alive
  <2>1. UNCHANGED <<unit, queued, main, excused>> /\ req = "none"
    BY <1>3 DEF DiagAsked, StartAsked, StopAsked, SystemdKept, systemd
  <2>2. CASE StartAsked
    BY <2>1, <2>2 DEF StartAsked, Turn
  <2>3. CASE StopAsked
    <3>1. ~diag'.active /\ diag'.handle = diag.handle /\ req' = "close"
          /\ diag' \in Diags
      BY <2>1, <2>3 DEF StopAsked, Turn, Diags
    <3> QED BY <2>1, <3>1
  <2> QED BY <1>3, <2>2, <2>3 DEF DiagAsked
<1>4. CASE PanelEnds
  BY <1>4 DEF PanelEnds, WebEnds, NoDiag, InDiag, Excuse, Turn, SystemdKept, systemd,
              Inv, UnitInv, DiagInv, SessionInv, UpInv, Asleep, Up, Alive, Diags
<1>5. CASE Operator BY <1>5, OperatorKeeps
<1>6. CASE Faults
  BY <1>6, Still DEF Faults, Changes, DiagKept, systemd, process
<1>7. CASE Shows
  BY <1>7, Still DEF Shows, UnitKept, DiagKept, systemd, process
<1>8. CASE LinkDies
  BY <1>8, Still DEF LinkDies, UnitKept, DiagKept, systemd, process
<1>9. CASE Tick
  BY <1>9, Still DEF Tick, UnitTick, DiagKept
<1>10. CASE Sampled
  <2>1. UNCHANGED <<unit, queued, main, req, excused>>
        /\ diag.active /\ diag' \in {diag, [diag EXCEPT !.late = FALSE]}
    BY <1>10 DEF Sampled, Sample, SystemdKept, systemd
  <2>2. CASE diag' = diag BY <2>1, <2>2, Still
  <2>3. CASE diag' = [diag EXCEPT !.late = FALSE]
    <3>1. diag' \in Diags /\ diag'.active = diag.active /\ diag'.handle = diag.handle
      BY <2>3 DEF Inv, DiagInv, Diags
    <3> QED BY <2>1, <3>1
        DEF Inv, UnitInv, DiagInv, SessionInv, UpInv, Asleep, Up, Alive
  <2> QED BY <2>1, <2>2, <2>3
<1>11. CASE UNCHANGED vars
  BY <1>11, Still DEF vars, systemd, process, history
<1> QED
  BY <1>1, <1>2, <1>3, <1>4, <1>5, <1>6, <1>7, <1>8, <1>9, <1>10, <1>11 DEF Next

(* The service and the diagnostic never hold the LabJack together, unless  *)
(* the operator starts the service by hand (OneSession).                   *)
THEOREM SessionAlone == Spec => []OneSession
<1>1. Inv => OneSession
  BY DEF Inv, UnitInv, SessionInv, OneSession, Asleep
<1> QED BY <1>1, InitInv, StepInv, PTL DEF Spec

(* Whatever step of a diagnostic fails, when it is over the service is up, *)
(* or coming back, or given up by systemd (ServiceBack).                   *)
THEOREM ServiceReturns == Spec => []ServiceBack
<1>1. Inv => ServiceBack
  BY DEF Inv, UpInv, ServiceBack, InDiag, Up
<1> QED BY <1>1, InitInv, StepInv, PTL DEF Spec
-----------------------------------------------------------------------------
(* The watchdogs.  A blocked poll was stamped before it blocked, so it has *)
(* been blocked no longer than its stamp is old; a heartbeat that has let  *)
(* the process go on has seen every stamp within the limit, and no tick    *)
(* passes without a heartbeat.                                             *)

States == {"off", "idle", "stuck"}
Known  == Drivers \cup {"mqtt"}

StampInv ==
  /\ thread \in [Drivers -> States]
  /\ age \in [Drivers -> 0..(Watchdog + 1)]
  /\ pubAge \in 0..(Watchdog + 1)
  /\ main # "running" => \A d \in Drivers : thread[d] = "off"

CheckedInv ==
  main = "running" /\ "main" \notin due =>
    pubAge <= Watchdog /\ \A d \in Drivers : Polling(d) => age[d] <= Watchdog

Stamp(x) == IF x = "mqtt" THEN pubAge ELSE age[x]
BlockedInv ==
  /\ blocked \in [Known -> Nat]
  /\ \A x \in Known : blocked[x] <= IF Useless(x) THEN Stamp(x) ELSE 0

DogInv == StampInv /\ CheckedInv /\ BlockedInv

LEMMA WatchdogNat == Watchdog \in Nat /\ Watchdog > 0
BY TimesAssumption

LEMMA InitDog == Init => DogInv
BY WatchdogNat DEF Init, DogInv, StampInv, CheckedInv, BlockedInv, UnitInit, States,
   Known, Useless, Stamp

LEMMA DogBound ==
  ASSUME DogInv
  PROVE  StuckGone
<1> SUFFICES ASSUME NEW x \in Known PROVE blocked[x] <= Watchdog + 1
  BY DEF DogInv, BlockedInv, StuckGone, Known
<1>1. blocked[x] \in Nat /\ blocked[x] <= IF Useless(x) THEN Stamp(x) ELSE 0
  BY DEF DogInv, BlockedInv
<1>2. Stamp(x) \in 0..(Watchdog + 1)
  BY WatchdogNat DEF DogInv, StampInv, Stamp, Known
<1> QED BY <1>1, <1>2, WatchdogNat


LEMMA BlockedIs ==
  ASSUME BlockedInv, NEW step \in 0..1, Blocked(step)
  PROVE  /\ blocked' \in [Known -> Nat]
         /\ \A x \in Known : /\ ~Useless(x)' => blocked'[x] = 0
                             /\ Useless(x)' => blocked'[x] <= blocked[x] + step
<1>1. /\ blocked' = [x \in Known |->
                      IF ~Useless(x)' THEN 0
                      ELSE IF blocked[x] <= Over(Watchdog) THEN blocked[x] + step ELSE blocked[x]]
      /\ blocked \in [Known -> Nat]
  BY DEF BlockedInv, Blocked
<1>2. ASSUME NEW x \in Known
      PROVE  /\ blocked'[x] \in Nat
             /\ ~Useless(x)' => blocked'[x] = 0
             /\ Useless(x)' => blocked'[x] <= blocked[x] + step
  <2>1. blocked[x] \in Nat BY <1>1
  <2>2. blocked'[x] \in {0, blocked[x] + step, blocked[x]} BY <1>1
  <2>3. ~Useless(x)' => blocked'[x] = 0 BY <1>1
  <2> QED BY <2>1, <2>2, <2>3
<1> QED BY <1>1, <1>2

(* A step that is no tick keeps the stamps of what is of no use.           *)
LEMMA NoTick ==
  ASSUME BlockedInv, StampInv, StampInv', Blocked(0),
         \A x \in Known : Useless(x) /\ Useless(x)' => Stamp(x)' = Stamp(x)
  PROVE  BlockedInv'
<1> SUFFICES ASSUME NEW x \in Known
             PROVE  blocked'[x] <= IF Useless(x)' THEN Stamp(x)' ELSE 0
  BY BlockedIs DEF BlockedInv
<1>1. blocked'[x] \in Nat /\ blocked[x] \in Nat
  BY BlockedIs DEF BlockedInv
<1>2. Stamp(x)' \in 0..(Watchdog + 1)
  BY DEF StampInv, Stamp, Known
<1>3. /\ ~Useless(x)' => blocked'[x] = 0
      /\ Useless(x)' => blocked'[x] <= blocked[x]
  BY <1>1, BlockedIs
<1>4. blocked[x] <= IF Useless(x) THEN Stamp(x) ELSE 0 BY DEF BlockedInv
<1>5. CASE Useless(x)' /\ Useless(x)
  <2>1. blocked[x] <= Stamp(x) /\ Stamp(x)' = Stamp(x) BY <1>4, <1>5
  <2>2. Stamp(x) \in Nat BY <1>2, <2>1, WatchdogNat
  <2>3. blocked'[x] <= Stamp(x)' BY <1>1, <1>3, <1>5, <2>1, <2>2
  <2> QED BY <1>5, <2>3
<1>6. CASE Useless(x)' /\ ~Useless(x) BY <1>1, <1>2, <1>3, <1>4, <1>6, WatchdogNat
<1> QED BY <1>3, <1>5, <1>6, WatchdogNat

(* What the diagnostic does to the unit.                                   *)
LEMMA DiagUnit ==
  ASSUME DiagRuns \/ DiagFault \/ DiagOver
  PROVE  Rest /\ (UNCHANGED <<systemd, main>> \/ UnitStop \/ UnitForget \/ UnitStart)
BY DEF DiagRuns, DiagFault, DiagOver, DiagStep, DiagLeaks, DiagFails, StopService, StopReturns,
       OpenLabjack, OpenFails, CloseLabjack, CloseFails, ResetFailed, LateEnds, JoinRaises,
       ResetRaises, StartFails, StartService, SystemdKept

(* Steps of others than the process.                                       *)
LEMMA Aside ==
  ASSUME DogInv, Blocked(0), UNCHANGED <<thread, age, pubAge, due>>,
         main' = "running" <=> main = "running"
  PROVE  DogInv'
<1>1. StampInv' BY DEF DogInv, StampInv, States
<1>2. CheckedInv' BY DEF DogInv, CheckedInv, Polling
<1>3. \A x \in Known : Stamp(x)' = Stamp(x) BY DEF Stamp
<1> QED BY <1>1, <1>2, <1>3, NoTick DEF DogInv

(* The commands of systemctl.                                              *)
LEMMA Commands ==
  ASSUME UnitInv, UnitStart \/ UnitStop \/ UnitRestart \/ UnitForget
  PROVE  main' = "running" <=> main = "running"
BY DEF UnitInv, Alive, UnitStart, UnitStop, UnitRestart, UnitForget, Launched, Launch

LEMMA RunDog ==
  ASSUME UnitInv, DogInv, UnitStep, Blocked(0)
  PROVE  DogInv'
<1> DEFINE Same == \A x \in Known : Useless(x) /\ Useless(x)' => Stamp(x)' = Stamp(x)
<1> SUFFICES StampInv' /\ CheckedInv' /\ Same BY NoTick DEF DogInv
<1>1. CASE AutoRestart
  <2>1. main' # "running" /\ main # "running" /\ UNCHANGED <<thread, age, pubAge>>
    BY <1>1 DEF AutoRestart, Launched, Launch, UnitInv, Alive
  <2> QED BY <2>1 DEF DogInv, StampInv, CheckedInv, Stamp
<1>2. ASSUME Silent, main' # "running"
      PROVE  StampInv' /\ CheckedInv' /\ Same
  <2>1. /\ thread' = [d \in Drivers |-> "off"]
        /\ age' = [d \in Drivers |-> 0] /\ pubAge' = 0
    BY <1>2 DEF Silent
  <2>2. StampInv' BY <1>2, <2>1, WatchdogNat DEF StampInv, States
  <2>3. \A x \in Known : ~Useless(x)' BY <1>2, <2>1 DEF Useless, Known
  <2> QED BY <1>2, <2>2, <2>3 DEF CheckedInv
<1>9. ASSUME NEW bad \in BOOLEAN, Ended(bad)
      PROVE  StampInv' /\ CheckedInv' /\ Same
  BY <1>2, <1>9 DEF Ended, Launched, Launch
<1>3. CASE Connects
  <2>1. CASE Ended(TRUE) BY <2>1, <1>9
  <2>2. CASE main' = "drivers" /\ pubAge' = 0 /\ UNCHANGED <<thread, age>>
    <3>1. main = "starting" BY <1>3 DEF Connects
    <3>2. StampInv' BY <2>2, <3>1, WatchdogNat DEF DogInv, StampInv
    <3>3. Same BY <2>2, <3>1 DEF Useless, Stamp
    <3> QED BY <2>2, <3>2, <3>3 DEF CheckedInv
  <2> QED BY <1>3, <2>1, <2>2 DEF Connects
<1>4. CASE StartDrivers
  <2>1. main = "drivers" /\ "main" \in due' /\ pubAge' = pubAge
        /\ age' = [d \in Drivers |-> 0] /\ main' = "running"
    BY <1>4 DEF StartDrivers
  <2>2. thread' \in [Drivers -> States] BY <1>4 DEF StartDrivers, States
  <2>3. age' \in [Drivers -> 0..(Watchdog + 1)] BY <2>1, WatchdogNat
  <2>4. \A d \in Drivers : thread[d] # "stuck" BY <2>1 DEF DogInv, StampInv
  <2>5. Same BY <2>1, <2>4 DEF Useless, Known
  <2> QED BY <2>1, <2>2, <2>3, <2>5 DEF DogInv, StampInv, CheckedInv
<1>5. CASE Heartbeat
  <2>1. CASE Ending \/ Ended(TRUE) BY <2>1, <1>2, <1>9 DEF Ending
  <2>2. CASE /\ broker = "up" \/ pubAge <= Watchdog
             /\ \A d \in Drivers : ~Stale(d)
             /\ Published /\ UNCHANGED <<main, thread, age, outside>>
    <3>1. pubAge' \in 0..Watchdog BY <2>2, WatchdogNat DEF Published, DogInv, StampInv
    <3>2. StampInv' BY <2>2, <3>1, WatchdogNat DEF DogInv, StampInv
    <3>3. \A d \in Drivers : Polling(d)' => age'[d] <= Watchdog
      <4> SUFFICES ASSUME NEW d \in Drivers, Polling(d)' PROVE age[d] <= Watchdog
        BY <2>2
      <4>1. Polling(d) BY <2>2 DEF Polling
      <4>2. ~(age[d] > Watchdog) BY <2>2, <4>1 DEF Stale
      <4>3. age[d] \in 0..(Watchdog + 1) BY DEF DogInv, StampInv
      <4> QED BY <4>2, <4>3, WatchdogNat
    <3>4. CheckedInv' BY <3>1, <3>3, WatchdogNat DEF CheckedInv
    <3>5. Same BY <2>2 DEF Useless, Stamp, Published, outside
    <3> QED BY <3>2, <3>4, <3>5
  <2> QED BY <1>5, <2>1, <2>2 DEF Heartbeat
<1>6. CASE Signalled BY <1>2, <1>6 DEF Signalled, Ending
<1>8. CASE Exits BY <1>8, <1>9 DEF Exits
<1>7. ASSUME NEW d \in Drivers, PollOf(d)
      PROVE  StampInv' /\ CheckedInv' /\ Same
  <2>1. /\ thread[d] = "idle" /\ main' = main /\ UNCHANGED outside
        /\ age' \in {age, [age EXCEPT ![d] = 0]}
        /\ pubAge' = pubAge \/ Published
        /\ thread' \in {thread, [thread EXCEPT ![d] = "stuck"]}
    BY <1>7 DEF PollOf
  <2>2. main = "running" BY <2>1 DEF DogInv, StampInv
  <2>3. thread' \in [Drivers -> States] BY <2>1 DEF DogInv, StampInv, States
  <2>4. age' \in [Drivers -> 0..(Watchdog + 1)] BY <2>1, WatchdogNat DEF DogInv, StampInv
  <2>5. pubAge' \in {0, pubAge} BY <2>1 DEF Published
  <2>6. StampInv' BY <2>1, <2>2, <2>3, <2>4, <2>5, WatchdogNat DEF DogInv, StampInv
  <2>7. "main" \notin due' => "main" \notin due
    BY <1>7, NamesAssumption DEF PollOf
  <2>8. CheckedInv'
    <3> SUFFICES ASSUME "main" \notin due
                 PROVE  pubAge' <= Watchdog
                        /\ \A e \in Drivers : Polling(e)' => age'[e] <= Watchdog
      BY <2>7 DEF CheckedInv
    <3>1. pubAge <= Watchdog /\ \A e \in Drivers : Polling(e) => age[e] <= Watchdog
      BY <2>2 DEF DogInv, CheckedInv
    <3>2. ASSUME NEW e \in Drivers, Polling(e)' PROVE age'[e] <= Watchdog
      <4>1. Polling(e) BY <2>1, <3>2 DEF Polling, DogInv, StampInv
      <4>2. age'[e] \in {0, age[e]} BY <2>1 DEF DogInv, StampInv
      <4> QED BY <3>1, <4>1, <4>2, WatchdogNat
    <3> QED BY <2>5, <3>1, <3>2, WatchdogNat
  <2>9. Same
    <3> SUFFICES ASSUME NEW x \in Known, Useless(x) PROVE Stamp(x)' = Stamp(x) OBVIOUS
    <3>1. CASE x = "mqtt" BY <2>1, <3>1 DEF Useless, Stamp, Published
    <3>2. CASE x # "mqtt"
      <4>1. x \in Drivers /\ x # d BY <2>1, <3>2 DEF Useless, Known
      <4> QED BY <2>1, <3>2, <4>1 DEF Stamp, DogInv, StampInv
    <3> QED BY <3>1, <3>2
  <2> QED BY <2>6, <2>8, <2>9
<1> QED BY <1>1, <1>3, <1>4, <1>5, <1>6, <1>7, <1>8 DEF UnitStep

(* A tick, which only passes when the heartbeat has let the process go on. *)
LEMMA TickDog ==
  ASSUME DogInv, UnitTick, Blocked(1)
  PROVE  DogInv'
<1>1. "main" \notin due /\ UNCHANGED <<main, thread, outside>> BY DEF UnitTick
<1>2. /\ age' = [d \in Drivers |-> IF Polling(d) /\ age[d] <= Watchdog THEN age[d] + 1 ELSE age[d]]
      /\ pubAge' = IF Alive /\ pubAge <= Watchdog THEN pubAge + 1 ELSE pubAge
      /\ due' = IF Alive THEN {"main"} \cup {d \in Drivers : Polling(d)} ELSE {}
  BY DEF UnitTick
<1>3. \A d \in Drivers : age[d] \in 0..(Watchdog + 1) BY DEF DogInv, StampInv
<1>4. age' \in [Drivers -> 0..(Watchdog + 1)]
  <2>1. ASSUME NEW d \in Drivers
        PROVE  (IF Polling(d) /\ age[d] <= Watchdog THEN age[d] + 1 ELSE age[d]) \in 0..(Watchdog + 1)
    BY <1>3, WatchdogNat
  <2> QED BY <1>2, <2>1
<1>5. pubAge' \in 0..(Watchdog + 1) BY <1>2, WatchdogNat DEF DogInv, StampInv
<1>6. StampInv' BY <1>1, <1>4, <1>5 DEF DogInv, StampInv
<1>7. CheckedInv' BY <1>1, <1>2 DEF CheckedInv, Alive
<1>8. ASSUME NEW x \in Known
      PROVE  blocked'[x] <= IF Useless(x)' THEN Stamp(x)' ELSE 0
  <2>1. /\ blocked'[x] \in Nat /\ blocked[x] \in Nat
        /\ ~Useless(x)' => blocked'[x] = 0
        /\ Useless(x)' => blocked'[x] <= blocked[x] + 1
    BY BlockedIs DEF DogInv, BlockedInv
  <2>2. Useless(x)' <=> Useless(x) BY <1>1 DEF Useless, outside
  <2>3. CASE Useless(x)
    <3>1. blocked[x] <= Stamp(x) BY <2>3 DEF DogInv, BlockedInv
    <3>2. CASE x = "mqtt"
      <4>1. main = "running" BY <2>3, <3>2 DEF Useless
      <4>2. pubAge <= Watchdog BY <1>1, <4>1 DEF DogInv, CheckedInv
      <4>3. Stamp(x)' = Stamp(x) + 1 BY <1>2, <3>2, <4>1, <4>2 DEF Stamp, Alive
      <4>4. Stamp(x) \in Nat BY <3>2, WatchdogNat DEF Stamp, DogInv, StampInv
      <4> QED BY <2>1, <2>2, <2>3, <3>1, <4>3, <4>4
    <3>3. CASE x # "mqtt"
      <4>1. x \in Drivers /\ thread[x] = "stuck" BY <2>3, <3>3 DEF Useless, Known
      <4>2. main = "running" BY <4>1 DEF DogInv, StampInv
      <4>3. age[x] <= Watchdog BY <1>1, <4>1, <4>2 DEF DogInv, CheckedInv, Polling
      <4>4. Stamp(x)' = Stamp(x) + 1 BY <1>2, <3>3, <4>1, <4>3 DEF Stamp, Polling
      <4>5. Stamp(x) \in Nat BY <1>3, <3>3, <4>1, WatchdogNat DEF Stamp
      <4> QED BY <2>1, <2>2, <2>3, <3>1, <4>4, <4>5
    <3> QED BY <3>2, <3>3
  <2> QED BY <2>1, <2>2, <2>3
<1>9. BlockedInv' BY <1>8, BlockedIs DEF BlockedInv, DogInv
<1> QED BY <1>6, <1>7, <1>9 DEF DogInv

LEMMA StepDog == Inv /\ DogInv /\ [Next]_vars => DogInv'
<1> SUFFICES ASSUME Inv, DogInv, [Next]_vars PROVE DogInv' OBVIOUS
<1>0. UnitInv BY DEF Inv
<1>1. CASE RunStep /\ Blocked(0) BY <1>0, <1>1, RunDog DEF RunStep
<1>2. CASE Tick /\ Blocked(1) BY <1>2, TickDog DEF Tick
<1>3. CASE (DiagRuns \/ DiagFault \/ DiagOver) /\ Blocked(0)
  <2>1. UNCHANGED <<thread, age, pubAge, due>> BY <1>3 DEF DiagRuns, DiagFault, DiagOver, Rest
  <2>2. main' = main \/ UnitStop \/ UnitForget \/ UnitStart
    BY <1>3, DiagUnit
  <2> QED BY <1>0, <1>3, <2>1, <2>2, Commands, Aside
<1>4. CASE Operator /\ Blocked(0)
  <2>1. UNCHANGED <<thread, age, pubAge, due>>
        /\ (UnitStart \/ UnitStop \/ UnitRestart)
    BY <1>4 DEF Operator, OperatorStops, OperatorStarts, OperatorRestarts, Rest
  <2> QED BY <1>0, <1>4, <2>1, Commands, Aside
<1>5. CASE (DiagAsked \/ PanelEnds \/ Sampled) /\ Blocked(0)
  <2>1. UNCHANGED <<thread, age, pubAge, due, main>>
    BY <1>5 DEF DiagAsked, StartAsked, StopAsked, PanelEnds, WebEnds, Sampled, Sample,
                SystemdKept, Rest
  <2> QED BY <1>5, <2>1, Aside
<1>6. CASE (Faults \/ LinkDies \/ Shows) /\ Blocked(0)
  <2>1. UNCHANGED <<thread, age, pubAge, due, main>>
    BY <1>6 DEF Faults, Changes, LinkDies, Shows, UnitKept, process
  <2> QED BY <1>6, <2>1, Aside
<1>7. CASE UNCHANGED vars
  BY <1>7 DEF vars, systemd, process, outside, history, DogInv, StampInv, CheckedInv,
              BlockedInv, Polling, Useless, Stamp
<1> QED BY <1>1, <1>2, <1>3, <1>4, <1>5, <1>6, <1>7 DEF Next

(* A poll that blocks, or a broker that takes nothing, ends the process     *)
(* within a heartbeat of the watchdog's time (StuckGone).                   *)
THEOREM WatchdogsBite == Spec => []StuckGone
<1> QED BY InitInv, StepInv, InitDog, StepDog, DogBound, PTL DEF Spec
-----------------------------------------------------------------------------
(* The types, and what else systemd knows: only a stop that is under way   *)
(* has a start waiting for it.                                             *)

FieldInv ==
  /\ queued \in BOOLEAN /\ (queued => unit = "deactivating")
  /\ delay \in 0..RestartSec
  /\ starts \in 0..Burst /\ window \in 0..Over(Interval)
  /\ main \in {"none", "starting", "drivers", "running", "ending"}
  /\ due \subseteq Drivers \cup {"main"}

LEMMA TimesNat ==
  /\ Watchdog \in Nat \ {0} /\ RestartSec \in Nat \ {0}
  /\ Interval \in Nat \ {0} /\ Burst \in Nat \ {0}
BY TimesAssumption

UnitCommand == UnitStart \/ UnitStop \/ UnitRestart \/ UnitForget

(* What a step may do to the unit and the process.                         *)
LEMMA UnitSteps ==
  ASSUME [Next]_vars
  PROVE  \/ UnitStep \/ UnitTick
         \/ UnitCommand /\ Rest
         \/ UNCHANGED <<systemd, process>>
<1> USE DEF systemd, process, UnitCommand
<1>1. CASE RunStep \/ Tick
  BY <1>1 DEF RunStep, Tick
<1>2. CASE DiagRuns \/ DiagFault \/ DiagOver
  BY <1>2, DiagUnit DEF Rest
<1>3. CASE Operator
  BY <1>3 DEF Operator, OperatorStops, OperatorStarts, OperatorRestarts
<1>4. CASE DiagAsked \/ PanelEnds \/ Sampled
  BY <1>4 DEF DiagAsked, StartAsked, StopAsked, PanelEnds, WebEnds, Sampled, Sample,
              SystemdKept, Rest
<1>5. CASE Faults \/ LinkDies \/ Shows
  BY <1>5 DEF Faults, Changes, LinkDies, Shows, UnitKept
<1>6. CASE UNCHANGED vars
  BY <1>6 DEF vars
<1> QED BY <1>1, <1>2, <1>3, <1>4, <1>5, <1>6 DEF Next

LEMMA LaunchedFields ==
  ASSUME FieldInv, Launched
  PROVE  /\ queued' = FALSE /\ delay' \in 0..RestartSec
         /\ starts' \in 0..Burst /\ window' \in 0..Over(Interval)
         /\ main' \in {"none", "starting"}
<1>1. 0 \in 0..RestartSec /\ 1 \in 0..Burst /\ 0 \in 0..Over(Interval)
  BY TimesNat DEF Over
<1>2. CASE Limited
  BY <1>1, <1>2 DEF FieldInv, Launched, Launch
<1>3. CASE ~Limited
  <2>1. window > Interval \/ starts + 1 \in 0..Burst
    BY <1>3, TimesNat DEF FieldInv, Limited, Over
  <2> QED BY <1>1, <1>3, <2>1 DEF FieldInv, Launched, Launch
<1> QED BY <1>2, <1>3

LEMMA CommandFields ==
  ASSUME FieldInv, UnitCommand, Rest
  PROVE  FieldInv'
<1> USE DEF UnitCommand, Rest
<1>1. 0 \in 0..RestartSec /\ 1 \in 0..Burst /\ 0 \in 0..Burst
      /\ 0 \in 0..Over(Interval) /\ Over(Interval) \in 0..Over(Interval)
  BY TimesNat DEF Over
<1>2. CASE Launched
  BY <1>2, LaunchedFields DEF FieldInv
<1>3. CASE UnitStop
  BY <1>1, <1>3 DEF UnitStop, FieldInv
<1>4. CASE ~Launched /\ (UnitStart \/ UnitRestart)
  BY <1>4 DEF UnitStart, UnitRestart, FieldInv
<1>5. CASE UnitForget
  BY <1>1, <1>5 DEF UnitForget, FieldInv
<1> QED BY <1>2, <1>3, <1>4, <1>5

LEMMA RunFields ==
  ASSUME FieldInv, UnitStep
  PROVE  FieldInv'
<1>1. CASE AutoRestart
  <2>1. Launched /\ due' = due BY <1>1 DEF AutoRestart
  <2> QED BY <2>1, LaunchedFields DEF FieldInv
<1>2. ASSUME NEW bad \in BOOLEAN, Ended(bad)
      PROVE  FieldInv'
  <2>1. due' = {} BY <1>2 DEF Ended, Silent
  <2>2. CASE queued
    BY <1>2, <2>1, <2>2, LaunchedFields DEF Ended, FieldInv
  <2>3. CASE ~queued
    <3>1. /\ main' = "none" /\ delay' \in {RestartSec, 0}
          /\ UNCHANGED <<queued, starts, window>>
      BY <1>2, <2>3 DEF Ended
    <3>2. 0 \in 0..RestartSec /\ RestartSec \in 0..RestartSec BY TimesNat
    <3> QED BY <2>1, <2>3, <3>1, <3>2 DEF FieldInv
  <2> QED BY <2>2, <2>3
<1>3. CASE Connects
  <2>1. CASE Ended(TRUE) BY <1>2, <2>1
  <2>2. CASE main' = "drivers" /\ UNCHANGED <<systemd, due>>
    BY <2>2 DEF FieldInv, systemd
  <2> QED BY <1>3, <2>1, <2>2 DEF Connects
<1>4. CASE StartDrivers
  BY <1>4 DEF StartDrivers, FieldInv, systemd
<1>8. ASSUME Ending
      PROVE  FieldInv'
  BY <1>8 DEF Ending, Silent, FieldInv, systemd
<1>5. CASE Heartbeat
  <2>1. CASE UNCHANGED systemd /\ main' = main /\ due' = due \ {"main"}
    BY <2>1 DEF FieldInv, systemd
  <2> QED BY <1>2, <1>5, <1>8, <2>1 DEF Heartbeat
<1>6. CASE Signalled
  BY <1>6, <1>8 DEF Signalled
<1>9. CASE Exits
  BY <1>2, <1>9 DEF Exits
<1>7. ASSUME NEW d \in Drivers, PollOf(d)
      PROVE  FieldInv'
  BY <1>7 DEF PollOf, FieldInv, systemd
<1> QED BY <1>1, <1>3, <1>4, <1>5, <1>6, <1>7, <1>9 DEF UnitStep

LEMMA TickFields ==
  ASSUME FieldInv, UnitTick
  PROVE  FieldInv'
<1>1. delay' \in 0..RestartSec
  BY TimesNat DEF FieldInv, UnitTick
<1>2. window' \in 0..Over(Interval)
  BY TimesNat DEF FieldInv, UnitTick, Over
<1>3. due' \subseteq Drivers \cup {"main"}
  BY DEF UnitTick
<1> QED BY <1>1, <1>2, <1>3 DEF FieldInv, UnitTick

LEMMA StepFields == FieldInv /\ [Next]_vars => FieldInv'
<1>1. FieldInv /\ UNCHANGED <<systemd, process>> => FieldInv'
  BY DEF FieldInv, systemd, process
<1> QED BY <1>1, UnitSteps, CommandFields, RunFields, TickFields

LEMMA FieldsHold == Spec => []FieldInv
<1>1. Init => FieldInv
  <2>1. 0 \in 0..RestartSec /\ 1 \in 0..Burst /\ 0 \in 0..Over(Interval)
    BY TimesNat DEF Over
  <2> QED BY <2>1 DEF Init, UnitInit, FieldInv
<1> QED BY <1>1, StepFields, PTL DEF Spec

-----------------------------------------------------------------------------
(* The status line.  Between polls no query is under way; a poll that      *)
(* waits has sent one, on a connection to the host it asks, and what has   *)
(* come back of it was so at some moment since.                            *)

UnitStates == {"inactive", "active", "activating", "deactivating", "failed"}
Replied    == {<<a>> : a \in UnitStates \cup {Elsewhere}}
Connection == [host : Hosts, asked : 0..1, lines : {<<>>} \cup Replied, alive : BOOLEAN]
Polls      == [at : {"ask", "wait", "fail"}, host : Hosts, reused : BOOLEAN]

Quiet    == conn.asked = 0 /\ conn.lines = <<>>
OneAsked == conn.asked = 1 => conn.lines = <<>>
TrueOf(a) == IF conn.host = Pi THEN a \in seen ELSE a = Elsewhere

PanelInv ==
  /\ poll = NoPoll \/ poll \in Polls
  /\ conn # NoConn => conn \in Connection /\ OneAsked
  /\ conn # NoConn /\ poll.at \in {"none", "ask"} => Quiet
  /\ conn # NoConn /\ poll.at = "ask" => conn.host = poll.host
  /\ poll.at = "wait" =>
       /\ conn \in Connection /\ OneAsked /\ conn.host = poll.host
       /\ unit \in seen
       /\ conn.lines # <<>> => TrueOf(Head(conn.lines))

LEMMA OneLine ==
  /\ \A a : Head(<<a>>) = a /\ Tail(<<a>>) = <<>> /\ Append(<<>>, a) = <<a>>
  /\ \A a : Len(<<a>>) = 1 /\ <<a>> # <<>>
  /\ Len(<<>>) = 0
OBVIOUS

LEMMA Shown ==
  ASSUME UnitInv, PanelInv, PanelStep \/ Replies(unit) \/ \E h \in Hosts : PollStart(h),
         Follow, unit' = unit
  PROVE  /\ PanelInv'
         /\ result' \notin {result, NoResult} /\ result'.active # "unreachable" =>
              IF result'.host = Pi THEN result'.active \in seen
                                   ELSE result'.active = Elsewhere
<1> DEFINE Told == result' \notin {result, NoResult} /\ result'.active # "unreachable" =>
                     IF result'.host = Pi THEN result'.active \in seen
                                          ELSE result'.active = Elsewhere
<1>1. unit \in UnitStates BY DEF UnitInv, UnitStates
<1>2. poll'.at = "wait" => unit' \in seen' /\ (poll.at = "wait" => seen \subseteq seen')
  BY DEF Follow
<1>3. NoPoll.at = "none" /\ (poll \in Polls => poll.at # "none")
  BY DEF NoPoll, Polls
<1>4. CASE Ask
  <2>1. poll \in Polls /\ poll.at = "ask" BY <1>3, <1>4 DEF Ask, PanelInv
  <2>2. CASE /\ conn = NoConn /\ conn' = [Fresh(poll.host) EXCEPT !.asked = 1]
             /\ poll' = [poll EXCEPT !.at = "wait"] /\ UNCHANGED result
    <3>1. conn' \in Connection /\ conn'.asked = 1 /\ conn'.lines = <<>>
          /\ conn'.host = poll.host
      <4>1. conn' = [host |-> poll.host, asked |-> 1, lines |-> <<>>, alive |-> TRUE]
        BY <2>2 DEF Fresh
      <4>2. poll.host \in Hosts /\ 1 \in 0..1 /\ <<>> \in {<<>>} \cup Replied
        BY <2>1 DEF Polls
      <4> QED BY <4>1, <4>2 DEF Connection
    <3>2. poll' \in Polls /\ poll'.at = "wait" /\ poll'.host = poll.host
      BY <2>1, <2>2 DEF Polls
    <3> QED BY <1>2, <2>2, <3>1, <3>2 DEF PanelInv, OneAsked
  <2>3. CASE conn = NoConn /\ GiveUp /\ UNCHANGED conn
    BY <1>3, <2>3 DEF GiveUp, PanelInv
  <2>4. CASE /\ conn # NoConn /\ conn' = [conn EXCEPT !.asked = @ + 1]
             /\ poll' = [poll EXCEPT !.at = "wait"] /\ UNCHANGED result
    <3>1. conn \in Connection /\ Quiet /\ conn.host = poll.host
      BY <2>1, <2>4 DEF PanelInv
    <3>2. conn' \in Connection /\ conn'.asked = 1 /\ conn'.lines = <<>>
          /\ conn'.host = poll.host
      BY <2>4, <3>1 DEF Connection, Quiet
    <3>3. poll' \in Polls /\ poll'.at = "wait" /\ poll'.host = poll.host
      BY <2>1, <2>4 DEF Polls
    <3> QED BY <1>2, <2>4, <3>2, <3>3 DEF PanelInv, OneAsked
  <2>5. CASE poll' = [poll EXCEPT !.at = "fail"] /\ UNCHANGED <<conn, result>>
    <3>1. poll' \in Polls /\ poll'.at = "fail" BY <2>1, <2>5 DEF Polls
    <3> QED BY <2>5, <3>1 DEF PanelInv, OneAsked
  <2> QED BY <1>4, <2>2, <2>3, <2>4, <2>5 DEF Ask
<1>5. CASE Answered
  <2>1. poll \in Polls /\ poll.at = "wait" /\ conn.lines # <<>> /\ conn \in Connection
        /\ OneAsked /\ conn.host = poll.host /\ TrueOf(Head(conn.lines))
    BY <1>3, <1>5 DEF Answered, PanelInv
  <2>2. PICK a \in UnitStates \cup {Elsewhere} : conn.lines = <<a>>
    BY <2>1 DEF Connection, Replied
  <2>3. conn' \in Connection /\ conn'.asked = 0 /\ conn'.lines = <<>>
    BY <1>5, <2>1, <2>2, OneLine DEF Answered, Connection, OneAsked
  <2>4. result' = [host |-> conn.host, active |-> a] /\ TrueOf(a)
    BY <1>5, <2>1, <2>2, OneLine DEF Answered
  <2>5. poll' = NoPoll BY <1>5 DEF Answered
  <2> QED BY <1>3, <2>3, <2>4, <2>5 DEF PanelInv, Quiet, OneAsked, TrueOf
<1>6. CASE NotAnswered
  <2>1. poll \in Polls /\ conn' = conn /\ result' = result
        /\ poll' = [poll EXCEPT !.at = "fail"]
    BY <1>3, <1>6 DEF NotAnswered, PanelInv
  <2>2. poll' \in Polls /\ poll'.at = "fail" BY <2>1 DEF Polls
  <2> QED BY <2>1, <2>2 DEF PanelInv, OneAsked
<1>7. CASE Drop
  <2>1. poll \in Polls /\ conn' = NoConn
    BY <1>3, <1>7 DEF Drop, PanelInv
  <2>2. CASE poll' = [poll EXCEPT !.at = "ask", !.reused = FALSE] /\ UNCHANGED result
    <3>1. poll' \in Polls /\ poll'.at = "ask" BY <2>1, <2>2 DEF Polls
    <3> QED BY <2>1, <2>2, <3>1 DEF PanelInv
  <2>3. CASE GiveUp
    BY <1>3, <2>1, <2>3 DEF GiveUp, PanelInv
  <2> QED BY <1>7, <2>2, <2>3 DEF Drop
<1>8. CASE Drain
  BY <1>2, <1>8 DEF Drain, PanelInv, Quiet, OneAsked, TrueOf
<1>9. CASE Replies(unit)
  <2>1. conn # NoConn /\ conn.asked = 1 /\ conn \in Connection /\ conn.lines = <<>>
        /\ ~(poll.at \in {"none", "ask"}) /\ UNCHANGED <<poll, result>>
    BY <1>9 DEF Replies, PanelInv, Connection, Quiet, OneAsked
  <2>2. PICK a \in UnitStates \cup {Elsewhere} :
          /\ a = IF conn.host = Pi THEN unit ELSE Elsewhere
          /\ conn' = [conn EXCEPT !.asked = @ - 1, !.lines = Append(@, a)]
    BY <1>1, <1>9 DEF Replies
  <2>3. conn' = [conn EXCEPT !.asked = 0, !.lines = <<a>>]
    BY <2>1, <2>2, OneLine DEF Connection
  <2>4. conn' \in Connection /\ conn'.asked = 0 /\ conn'.lines = <<a>>
        /\ conn'.host = conn.host
    <3>1. <<a>> \in {<<>>} \cup Replied /\ 0 \in 0..1 BY DEF Replied
    <3>2. /\ conn' = [host |-> conn.host, asked |-> 0, lines |-> <<a>>, alive |-> conn.alive]
          /\ conn.host \in Hosts /\ conn.alive \in BOOLEAN
      BY <2>1, <2>3 DEF Connection
    <3> QED BY <3>1, <3>2 DEF Connection
  <2>5. poll.at = "wait" => TrueOf(a)'
    BY <1>2, <2>1, <2>2, <2>4 DEF TrueOf
  <2> QED BY <1>2, <2>1, <2>4, <2>5, OneLine DEF PanelInv, OneAsked
<1>10. ASSUME NEW h \in Hosts, PollStart(h)
       PROVE  PanelInv' /\ Told
  <2>1. /\ poll' \in Polls /\ poll'.at = "ask" /\ poll'.host = h /\ result' = result
        /\ poll.at = "none"
        /\ conn' = NoConn \/ (conn' = conn /\ conn # NoConn /\ conn.host = h)
    BY <1>3, <1>10 DEF PollStart, Polls
  <2> QED BY <2>1 DEF PanelInv, Quiet, OneAsked
<1> QED BY <1>4, <1>5, <1>6, <1>7, <1>8, <1>9, <1>10 DEF PanelStep

(* Steps that leave the panel alone only add to what was seen.             *)
LEMMA PanelIdle ==
  ASSUME PanelInv, Follow, UNCHANGED panel
  PROVE  PanelInv'
<1>1. poll.at = "wait" => unit' \in seen' /\ seen \subseteq seen'
  BY DEF Follow, panel
<1> QED BY <1>1 DEF PanelInv, Quiet, OneAsked, TrueOf, panel

LEMMA StepPanel ==
  ASSUME UnitInv, PanelInv, [Next]_vars
  PROVE  /\ PanelInv'
         /\ result' \notin {result, NoResult} /\ result'.active # "unreachable" =>
              IF result'.host = Pi THEN result'.active \in seen
                                   ELSE result'.active = Elsewhere
<1>1. CASE Shows /\ Follow
  BY <1>1, Shown DEF Shows, UnitKept, systemd
<1>2. CASE LinkDies /\ Follow
  <2>1. conn' = [conn EXCEPT !.alive = FALSE] /\ conn # NoConn /\ UNCHANGED <<poll, result>>
    BY <1>2 DEF LinkDies, ConnDies
  <2>2. conn \in Connection BY <2>1 DEF PanelInv
  <2>3. conn' \in Connection /\ conn'.asked = conn.asked /\ conn'.lines = conn.lines
        /\ conn'.host = conn.host
    BY <2>1, <2>2 DEF Connection
  <2>4. poll.at = "wait" => unit' \in seen' /\ seen \subseteq seen'
    BY <1>2, <2>1 DEF Follow
  <2> QED BY <2>1, <2>3, <2>4 DEF PanelInv, Quiet, OneAsked, TrueOf
<1>3. CASE UNCHANGED panel /\ Follow
  BY <1>3, PanelIdle DEF panel
<1>4. CASE UNCHANGED vars
  BY <1>4 DEF vars, panel, systemd, history, PanelInv, Quiet, OneAsked, TrueOf
<1> QED BY <1>1, <1>2, <1>3, <1>4
        DEF Next, RunStep, DiagRuns, DiagFault, DiagOver, DiagAsked, Sampled, PanelEnds, Operator, Faults,
            Tick, PanelKept

LEMMA PanelHolds == Spec => []PanelInv
<1>1. Init => PanelInv
  BY DEF Init, PanelInit, NoPoll, PanelInv
<1>2. Inv /\ PanelInv /\ [Next]_vars => PanelInv'
  BY StepPanel DEF Inv
<1> QED BY <1>1, <1>2, InitInv, StepInv, PTL DEF Spec

(* What the control panel shows of a host was so at some moment after it   *)
(* asked, whatever answers are late, lost or from the host before, for any *)
(* number of hosts (ShownWasSo).                                           *)
THEOREM ShownIsSo == Spec => ShownWasSo
<1>1. Inv /\ PanelInv /\ [Next]_vars =>
        [result' \notin {result, NoResult} /\ result'.active # "unreachable" =>
           IF result'.host = Pi THEN result'.active \in seen
                                ELSE result'.active = Elsewhere]_vars
  BY StepPanel DEF Inv
<1> QED BY <1>1, InitInv, StepInv, PanelHolds, PTL DEF Spec, ShownWasSo

-----------------------------------------------------------------------------
(* The ring.  The k-th of the samples still there is where Place says.     *)

Cell == Samples \cup {0}
Ring == [cells : [0..(Capacity - 1) -> Cell], next : 0..(Capacity - 1), filled : 0..Capacity]

Place(r, k) ==
  IF r.filled < Capacity THEN k - 1
  ELSE IF k <= Capacity - r.next THEN r.next + k - 1 ELSE k - 1 - (Capacity - r.next)

Holds(r, s) == Len(s) = r.filled /\ \A k \in 1..r.filled : s[k] = r.cells[Place(r, k)]

RingInv ==
  /\ ring \in Ring
  /\ ring.filled < Capacity => ring.next = ring.filled
  /\ taken \in Seq(Samples)
  /\ diag.active => Holds(ring, taken)
  /\ ~diag.active => taken = <<>>

LEMMA Turned ==
  ASSUME NEW n \in 0..(Capacity - 1)
  PROVE  (n + 1) % Capacity = IF n + 1 = Capacity THEN 0 ELSE n + 1
BY CapacityAssumption

LEMMA ZerosHold ==
  /\ Zeros \in Ring /\ Zeros.filled = 0 /\ Zeros.next = 0
  /\ Holds(Zeros, <<>>)
<1>1. [i \in 0..(Capacity - 1) |-> 0] \in [0..(Capacity - 1) -> Cell]
  BY DEF Cell
<1>2. 0 \in 0..(Capacity - 1) /\ 0 \in 0..Capacity
  BY CapacityAssumption
<1> QED BY <1>1, <1>2 DEF Zeros, Ring, Holds

(* A sample more: the oldest makes room for it when the ring is full.      *)
LEMMA Sampling ==
  ASSUME RingInv, NEW x \in Samples, Sample(x), taken' = LastOf(Append(taken, x))
  PROVE  /\ ring' \in Ring
         /\ ring'.filled < Capacity => ring'.next = ring'.filled
         /\ taken' \in Seq(Samples)
         /\ Holds(ring', taken')
<1> DEFINE n == ring.next
           f == ring.filled
           c == ring.cells
<1>1. /\ n \in 0..(Capacity - 1) /\ f \in 0..Capacity /\ Capacity \in Nat \ {0}
      /\ c \in [0..(Capacity - 1) -> Cell]
      /\ f < Capacity => n = f
  BY CapacityAssumption DEF RingInv, Ring
<1>2. /\ taken \in Seq(Samples) /\ Len(taken) = f
      /\ \A k \in 1..f : taken[k] = c[Place(ring, k)]
  BY DEF RingInv, Holds, Sample
<1>3. /\ ring'.cells = [c EXCEPT ![n] = x]
      /\ ring'.next = IF n + 1 = Capacity THEN 0 ELSE n + 1
      /\ ring'.filled = IF f < Capacity THEN f + 1 ELSE f
      /\ ring' = [cells |-> ring'.cells, next |-> ring'.next, filled |-> ring'.filled]
  BY <1>1, Turned DEF Sample, Put
<1>4. ring' \in Ring
  <2>1. ring'.cells \in [0..(Capacity - 1) -> Cell] BY <1>1, <1>3 DEF Cell
  <2>2. ring'.next \in 0..(Capacity - 1) /\ ring'.filled \in 0..Capacity BY <1>1, <1>3
  <2> QED BY <1>3, <2>1, <2>2 DEF Ring
<1>5. ring'.filled < Capacity => ring'.next = ring'.filled
  BY <1>1, <1>3
<1>6. /\ Append(taken, x) \in Seq(Samples) /\ Len(Append(taken, x)) = f + 1
      /\ \A k \in 1..(f + 1) : Append(taken, x)[k] = IF k = f + 1 THEN x ELSE taken[k]
  BY <1>1, <1>2
<1>7. CASE f < Capacity
  <2>1. taken' = Append(taken, x) BY <1>1, <1>6, <1>7 DEF LastOf
  <2>2. ring'.filled = f + 1 /\ n = f BY <1>1, <1>3, <1>7
  <2>3. ASSUME NEW k \in 1..(f + 1)
        PROVE  taken'[k] = ring'.cells[Place(ring', k)]
    <3>1. Place(ring', k) = k - 1
      BY <1>1, <1>3, <1>7, <2>2 DEF Place
    <3>2. CASE k = f + 1
      BY <1>1, <1>3, <1>6, <2>1, <2>2, <3>1, <3>2
    <3>3. CASE k # f + 1
      <4>1. k \in 1..f /\ k - 1 \in 0..(Capacity - 1) /\ k - 1 # n
        BY <1>1, <1>7, <2>2, <3>3
      <4>2. taken[k] = c[k - 1] BY <1>2, <1>7, <4>1 DEF Place
      <4> QED BY <1>1, <1>3, <1>6, <2>1, <3>1, <3>3, <4>1, <4>2
    <3> QED BY <3>2, <3>3
  <2> QED BY <1>4, <1>5, <1>6, <2>1, <2>2, <2>3 DEF Holds
<1>8. CASE f = Capacity
  <2>1. taken' = Tail(Append(taken, x)) BY <1>1, <1>6, <1>8 DEF LastOf
  <2>2. /\ taken' \in Seq(Samples) /\ Len(taken') = f
        /\ \A k \in 1..f : taken'[k] = Append(taken, x)[k + 1]
    BY <1>1, <1>6, <2>1
  <2>3. ring'.filled = Capacity BY <1>1, <1>3, <1>8
  <2>4. ASSUME NEW k \in 1..f
        PROVE  taken'[k] = ring'.cells[Place(ring', k)]
    <3>1. taken'[k] = IF k = f THEN x ELSE taken[k + 1]
      BY <1>1, <1>6, <2>2
    <3>2. CASE k = f
      <4>1. Place(ring', k) = n BY <1>1, <1>3, <1>8, <2>3, <3>2 DEF Place
      <4> QED BY <1>1, <1>3, <3>1, <3>2, <4>1
    <3>3. CASE k # f
      <4>1. k + 1 \in 1..f BY <1>1, <3>3
      <4>2. /\ Place(ring', k) = Place(ring, k + 1)
            /\ Place(ring, k + 1) \in 0..(Capacity - 1) /\ Place(ring, k + 1) # n
        <5>1. Place(ring, k + 1) = IF k + 1 <= Capacity - n THEN n + k ELSE k - (Capacity - n)
          BY <1>1, <1>8, <4>1 DEF Place
        <5>2. Place(ring', k) = IF k <= Capacity - ring'.next THEN ring'.next + k - 1
                                ELSE k - 1 - (Capacity - ring'.next)
          BY <1>1, <2>3 DEF Place
        <5>3. CASE n + 1 = Capacity
          <6>1. ring'.next = 0 /\ Capacity - n = 1 /\ n = Capacity - 1
            BY <1>1, <1>3, <5>3
          <6>2. Place(ring, k + 1) = k - 1
            BY <1>1, <4>1, <5>1, <6>1
          <6>3. Place(ring', k) = k - 1
            BY <1>1, <1>8, <4>1, <5>2, <6>1
          <6> QED BY <1>1, <1>8, <4>1, <6>1, <6>2, <6>3
        <5>4. CASE n + 1 # Capacity
          BY <1>1, <1>3, <1>8, <4>1, <5>1, <5>2, <5>4
        <5> QED BY <5>3, <5>4
      <4> QED BY <1>1, <1>2, <1>3, <3>1, <3>3, <4>1, <4>2
    <3> QED BY <3>2, <3>3
  <2> QED BY <1>4, <1>5, <1>8, <2>2, <2>3, <2>4 DEF Holds
<1> QED BY <1>1, <1>7, <1>8

LEMMA StepRing == Inv /\ RingInv /\ [Next]_vars => RingInv'
<1> SUFFICES ASSUME Inv, RingInv, [Next]_vars PROVE RingInv' OBVIOUS
<1>1. ASSUME UNCHANGED <<ring, taken>>, diag'.active <=> diag.active
      PROVE  RingInv'
  BY <1>1 DEF RingInv
<1>2. ASSUME ring' = Zeros, taken' = IF diag'.active THEN taken ELSE <<>>,
             ~diag.active \/ ~diag'.active
      PROVE  RingInv'
  <2>1. taken' = <<>> BY <1>2 DEF RingInv
  <2> QED BY <1>2, <2>1, ZerosHold DEF RingInv
<1>3. CASE Sampled
  <2>1. PICK x \in Samples : Sample(x) /\ taken' = LastOf(Append(taken, x))
    BY <1>3 DEF Sampled
  <2>2. diag.active /\ diag'.active
    BY <2>1 DEF Sample, Inv, DiagInv, Diags
  <2> QED BY <2>1, <2>2, Sampling DEF RingInv
<1>4. CASE taken' = taken /\ (Shows \/ Tick)
  BY <1>1, <1>4 DEF Shows, Tick, DiagKept
<1>5. CASE /\ taken' = IF diag'.active THEN taken ELSE <<>>
           /\ RunStep \/ DiagRuns \/ DiagFault \/ DiagOver \/ DiagAsked \/ PanelEnds \/ Operator \/ Faults \/ LinkDies
  <2>1. ASSUME UNCHANGED ring, diag'.active <=> diag.active
        PROVE  RingInv'
    BY <1>1, <1>5, <2>1 DEF RingInv
  <2>2. CASE RunStep \/ Operator \/ Faults \/ LinkDies
    BY <2>1, <2>2 DEF RunStep, Operator, Faults, LinkDies, DiagKept
  <2>3. CASE DiagRuns \/ DiagFault \/ DiagOver
    <3>1. CASE OpenLabjack \/ OpenFails
      <4>1. ~diag.active /\ ring' = Zeros
        BY <3>1 DEF OpenLabjack, OpenFails, Inv, DiagInv
      <4> QED BY <1>2, <1>5, <4>1
    <3>2. CASE StopService \/ StopReturns \/ ResetFailed \/ LateEnds \/ CloseLabjack \/ CloseFails
      <4>1. diag'.active = diag.active /\ ring' = ring
        BY <3>2 DEF StopService, StopReturns, ResetFailed, LateEnds, CloseLabjack, CloseFails,
                    Inv, DiagInv, Diags
      <4> QED BY <2>1, <4>1
    <3>3. CASE JoinRaises \/ ResetRaises \/ StartFails \/ StartService
      <4>1. ring' = ring /\ (diag' = diag \/ ~diag'.active)
        BY <3>3 DEF JoinRaises, ResetRaises, StartFails, StartService, Inactive,
                    Inv, DiagInv, Diags
      <4>2. CASE diag' = diag BY <2>1, <4>1, <4>2
      <4>3. CASE ~diag'.active
        BY <1>5, <4>1, <4>3, ZerosHold DEF RingInv
      <4> QED BY <4>1, <4>2, <4>3
    <3> QED BY <2>3, <3>1, <3>2, <3>3
            DEF DiagRuns, DiagFault, DiagOver, DiagStep, DiagLeaks, DiagFails
  <2>4. CASE DiagAsked
    <3>1. CASE StartAsked
      BY <2>1, <3>1 DEF StartAsked
    <3>2. CASE StopAsked
      <4>1. ~diag'.active /\ ring' = Zeros BY <3>2 DEF StopAsked, Inv, DiagInv
      <4> QED BY <1>2, <1>5, <4>1
    <3> QED BY <2>4, <3>1, <3>2 DEF DiagAsked
  <2>5. CASE PanelEnds
    BY <1>2, <1>5, <2>5 DEF PanelEnds, WebEnds, NoDiag
  <2> QED BY <1>5, <2>2, <2>3, <2>4, <2>5
<1>6. CASE UNCHANGED vars
  BY <1>1, <1>6 DEF vars, history
<1> QED BY <1>3, <1>4, <1>5, <1>6 DEF Next

LEMMA RingHolds == Spec => []RingInv
<1>1. Init => RingInv
  BY ZerosHold DEF Init, DiagInit, NoDiag, RingInv
<1> QED BY <1>1, InitInv, StepInv, StepRing, PTL DEF Spec

LEMMA DataIs ==
  ASSUME RingInv, diag.active
  PROVE  Data = taken
<1>1. /\ ring.next \in 0..(Capacity - 1) /\ ring.filled \in 0..Capacity
      /\ Capacity \in Nat \ {0}
  BY CapacityAssumption DEF RingInv, Ring
<1>2. /\ taken \in Seq(Samples) /\ Len(taken) = ring.filled
      /\ taken = [k \in 1..ring.filled |-> taken[k]]
      /\ \A k \in 1..ring.filled : taken[k] = ring.cells[Place(ring, k)]
  BY DEF RingInv, Holds
<1>3. CASE ring.filled < Capacity
  <2>1. ASSUME NEW k \in 1..ring.filled
        PROVE  taken[k] = ring.cells[0 + k - 1]
    <3>1. Place(ring, k) = k - 1 /\ 0 + k - 1 = k - 1 BY <1>1, <1>3 DEF Place
    <3> QED BY <1>2, <3>1
  <2> QED BY <1>2, <1>3, <2>1 DEF Data, Cells
<1>4. CASE ring.filled = Capacity
  <2> DEFINE older == Cells(ring.next, Capacity - ring.next)
             newer == Cells(0, ring.next)
  <2>1. Capacity - ring.next \in Nat /\ ring.next \in Nat
    BY <1>1
  <2>2. /\ older = [k \in 1..(Capacity - ring.next) |-> ring.cells[ring.next + k - 1]]
        /\ newer = [k \in 1..ring.next |-> ring.cells[0 + k - 1]]
    BY DEF Cells
  <2>3. /\ Len(older) = Capacity - ring.next /\ Len(newer) = ring.next
    BY <2>1, <2>2
  <2>4. older \o newer =
          [k \in 1..Capacity |-> IF k <= Capacity - ring.next THEN older[k]
                                 ELSE newer[k - (Capacity - ring.next)]]
    <3>1. \A i \in 0..(Capacity - 1) : ring.cells[i] \in Cell
      BY DEF RingInv, Ring
    <3>2. older \in Seq(Cell)
      <4>1. \A k \in 1..(Capacity - ring.next) : ring.next + k - 1 \in 0..(Capacity - 1)
        BY <1>1
      <4>2. older \in [1..(Capacity - ring.next) -> Cell] BY <2>2, <3>1, <4>1
      <4> QED BY <2>1, <4>2
    <3>3. newer \in Seq(Cell)
      <4>1. \A k \in 1..ring.next : 0 + k - 1 \in 0..(Capacity - 1)
        BY <1>1
      <4>2. newer \in [1..ring.next -> Cell] BY <2>2, <3>1, <4>1
      <4> QED BY <2>1, <4>2
    <3> HIDE DEF older, newer
    <3> DEFINE both == older \o newer
    <3>4. /\ both \in Seq(Cell) /\ Len(both) = Len(older) + Len(newer)
          /\ \A k \in 1..(Len(older) + Len(newer)) : both[k] =
               IF k <= Len(older) THEN older[k] ELSE newer[k - Len(older)]
      BY <3>2, <3>3, ConcatProperties
    <3>5. Len(older) + Len(newer) = Capacity BY <1>1, <2>3
    <3> HIDE DEF both
    <3>6. both = [k \in 1..Capacity |-> both[k]] BY <1>1, <3>4, <3>5
    <3>7. \A k \in 1..Capacity : both[k] =
            IF k <= Capacity - ring.next THEN older[k]
            ELSE newer[k - (Capacity - ring.next)]
      BY <2>3, <3>4, <3>5
    <3> QED BY <3>6, <3>7 DEF both
  <2>5. ASSUME NEW k \in 1..Capacity
        PROVE  taken[k] = IF k <= Capacity - ring.next THEN older[k]
                          ELSE newer[k - (Capacity - ring.next)]
    <3>1. taken[k] = ring.cells[Place(ring, k)] BY <1>2, <1>4
    <3>2. CASE k <= Capacity - ring.next
      BY <1>1, <1>4, <2>2, <3>1, <3>2 DEF Place
    <3>3. CASE ~(k <= Capacity - ring.next)
      <4>1. k - (Capacity - ring.next) \in 1..ring.next BY <1>1, <3>3
      <4>2. newer[k - (Capacity - ring.next)] = ring.cells[0 + (k - (Capacity - ring.next)) - 1]
        BY <2>2, <4>1
      <4>3. Place(ring, k) = 0 + (k - (Capacity - ring.next)) - 1
        BY <1>1, <1>4, <3>3 DEF Place
      <4> QED BY <3>1, <3>3, <4>2, <4>3
    <3> QED BY <3>2, <3>3
  <2>6. Data = older \o newer BY <1>1, <1>4 DEF Data
  <2> HIDE DEF older, newer
  <2> QED BY <1>2, <1>4, <2>4, <2>5, <2>6
<1> QED BY <1>1, <1>3, <1>4

(* However long a diagnostic runs, the page gets its last samples, oldest  *)
(* first, for any capacity of the ring (DataInOrder).                      *)
THEOREM LastSamples == Spec => []DataInOrder
<1>1. RingInv => DataInOrder
  BY DataIs DEF DataInOrder, Page
<1> QED BY <1>1, RingHolds, PTL

-----------------------------------------------------------------------------
(* The start limit.  As long as no run was short, the time since the first *)
(* of the starts counted pays for them: each has taken the watchdog's time *)
(* and the pause that follows.                                             *)

Cycle   == Watchdog + 1 + RestartSec
Runtime == window - (starts - 1) * Cycle     \* what is left for the last start

LimitInv ==
  ~short /\ window <= Interval =>
    /\ unit \notin {"deactivating", "failed"}
    /\ unit = "inactive" => Runtime >= Cycle
    /\ unit = "activating" => Runtime >= Cycle - delay
    /\ unit = "active" =>
         /\ Runtime >= 0
         /\ main \in {"drivers", "running"} => pubAge <= Runtime
         /\ main = "running" => \A d \in Drivers : age[d] <= Runtime

LEMMA CycleNat == Cycle \in Nat /\ Cycle > 0
BY TimesNat DEF Cycle

LEMMA RuntimeInt == ASSUME FieldInv PROVE Runtime \in Int
<1>1. starts - 1 \in Int /\ window \in Int BY TimesNat DEF FieldInv, Over
<1>2. (starts - 1) * Cycle \in Int BY <1>1, CycleNat
<1> QED BY <1>1, <1>2 DEF Runtime

(* Burst starts take more than the interval.                               *)
LEMMA LimitFar == ASSUME NEW n \in Nat, n >= Burst PROVE n * Cycle > Interval
<1>1. \A a, b, c \in Nat : a <= b => a * c <= b * c
  <2> SUFFICES ASSUME NEW a \in Nat, NEW b \in Nat, NEW c \in Nat, a <= b
               PROVE  a * c <= b * c
    OBVIOUS
  <2>1. (b - a) \in Nat OBVIOUS
  <2>2. (b - a) * c >= 0 BY <2>1
  <2>3. (b - a) * c = b * c - a * c OBVIOUS
  <2>4. a * c \in Int /\ b * c \in Int OBVIOUS
  <2> QED BY <2>2, <2>3, <2>4
<1>2. Burst * Cycle <= n * Cycle BY <1>1, TimesNat, CycleNat
<1>3. Burst * Cycle = Burst * (Watchdog + RestartSec) + Burst
  BY TimesNat DEF Cycle
<1>4. Burst * (Watchdog + RestartSec) \in Int /\ Burst * Cycle \in Int /\ n * Cycle \in Int
  BY TimesNat, CycleNat
<1> QED BY <1>2, <1>3, <1>4, LimitAssumption, TimesNat

(* Follow, when the count of starts does not begin anew.                   *)
LEMMA ShortStays ==
  ASSUME FieldInv, Follow, starts' \in Nat, window' \in Nat,
         starts' >= starts, window' >= window
  PROVE  short' <=> short \/ ShortRun
<1>1. starts \in Nat /\ window \in Nat BY TimesNat DEF FieldInv, Over
<1>2. ~(starts' < starts \/ window' < window) BY <1>1
<1>3. short' = IF starts' < starts \/ window' < window THEN FALSE ELSE short \/ ShortRun
  BY DEF Follow
<1> QED BY <1>2, <1>3, Zenon

(* A start that is counted: by hand, after a run that was not short, or    *)
(* automatically, or after a stop.                                         *)
LEMMA LaunchedLimit ==
  ASSUME FieldInv, LimitInv, Launched, Follow,
         ~short /\ ~short' /\ window <= Interval =>
           unit = "inactive" \/ (unit = "activating" /\ delay = 0)
  PROVE  LimitInv' /\ (~short' => unit' # "failed")
<1>1. starts \in Nat /\ window \in Nat /\ Interval \in Nat /\ Runtime \in Int
  BY TimesNat, RuntimeInt DEF FieldInv, Over
<1>2. CASE window > Interval
  <2>1. unit' = "active" /\ main' = "starting" /\ starts' = 1 /\ window' = 0
    BY <1>1, <1>2 DEF Launched, Launch, Limited
  <2>2. Runtime' = 0 BY <2>1, CycleNat DEF Runtime, Cycle
  <2> QED BY <2>1, <2>2 DEF LimitInv
<1>3. CASE window <= Interval
  <2>1. window' = window /\ starts' \in {starts, starts + 1}
    BY <1>1, <1>3 DEF Launched, Launch, Limited
  <2>2. short' <=> short \/ ShortRun BY <1>1, <2>1, ShortStays
  <2>3. CASE short' BY <2>3 DEF LimitInv
  <2>4. CASE ~short'
    <3>1. Runtime >= Cycle BY <1>1, <1>3, <2>2, <2>4, CycleNat DEF LimitInv
    <3>2. window >= starts * Cycle
      <4>1. (starts - 1) * Cycle = starts * Cycle - Cycle BY <1>1, CycleNat
      <4>2. starts * Cycle \in Int BY <1>1, CycleNat
      <4> QED BY <1>1, <3>1, <4>1, <4>2, CycleNat DEF Runtime
    <3>3. ~(starts >= Burst)
      <4>1. starts * Cycle \in Int BY <1>1, CycleNat
      <4> QED BY <1>1, <1>3, <3>2, <4>1, LimitFar
    <3>4. unit' = "active" /\ main' = "starting" /\ starts' = starts + 1
      BY <1>1, <1>3, <3>3 DEF Launched, Launch, Limited
    <3>5. Runtime' = window - starts * Cycle
      BY <1>1, <2>1, <3>4 DEF Runtime, Cycle
    <3>6. Runtime' >= 0
      <4>1. starts * Cycle \in Int BY <1>1, CycleNat
      <4> QED BY <1>1, <3>2, <3>5, <4>1
    <3> QED BY <3>4, <3>6 DEF LimitInv
  <2> QED BY <2>3, <2>4
<1> QED BY <1>1, <1>2, <1>3

LEMMA CommandLimit ==
  ASSUME UnitInv, FieldInv, LimitInv, UnitCommand, Rest, Follow
  PROVE  LimitInv' /\ (unit = "activating" /\ unit' = "failed" => short')
<1> DEFINE Given == unit = "activating" /\ unit' = "failed" => short'
<1> USE DEF UnitCommand
<1>0. starts \in Nat /\ window \in Nat /\ delay \in Nat /\ Runtime \in Int
  BY TimesNat, RuntimeInt DEF FieldInv, Over
<1>1. CASE Launched /\ unit \notin {"active", "deactivating"}
  <2>1. starts' \in Nat /\ window' \in Nat BY <1>0, <1>1 DEF Launched, Launch
  <2>2. ASSUME ~short, ~short', window <= Interval
        PROVE  unit = "inactive" \/ (unit = "activating" /\ delay = 0)
    <3>1. unit \in {"inactive", "activating"} BY <1>1, <2>2 DEF LimitInv, UnitInv
    <3>2. starts' >= starts /\ window' >= window
      BY <1>0, <1>1, <2>2, TimesNat DEF Launched, Launch
    <3>3. ~ShortRun BY <2>1, <2>2, <3>2, ShortStays
    <3>4. unit' # "activating" BY <1>1 DEF Launched, Launch
    <3> QED BY <1>0, <3>1, <3>3, <3>4 DEF ShortRun
  <2> QED BY <1>1, <2>2, LaunchedLimit
<1>2. CASE UnitStop
  <2>1. short' <=> short \/ ShortRun BY <1>0, <1>2, ShortStays DEF UnitStop
  <2>2. /\ unit = "active" => unit' = "deactivating"
        /\ unit = "activating" => unit' = "inactive"
        /\ unit \notin {"active", "activating"} => unit' = unit
        /\ UNCHANGED <<starts, window, main>>
    BY <1>2 DEF UnitStop
  <2>3. Runtime' = Runtime BY <2>2 DEF Runtime, Cycle
  <2>4. CASE short' BY <2>2, <2>4 DEF LimitInv
  <2>5. CASE ~short'
    <3>1. ~short /\ unit' # "deactivating" /\ (unit = "activating" => delay = 0)
      BY <1>0, <2>1, <2>2, <2>5 DEF ShortRun
    <3>2. CASE window <= Interval
      <4>1. unit \in {"inactive", "activating"} BY <2>2, <3>1, <3>2 DEF LimitInv, UnitInv
      <4>2. unit' = "inactive" /\ Runtime >= Cycle
        BY <1>0, <2>2, <3>1, <3>2, <4>1, CycleNat DEF LimitInv
      <4> QED BY <2>3, <4>2 DEF LimitInv, Cycle
    <3>3. CASE ~(window <= Interval) BY <2>2, <3>3 DEF LimitInv
    <3> QED BY <2>2, <3>2, <3>3
  <2> QED BY <2>4, <2>5
<1>3. CASE UnitForget
  BY <1>3, TimesNat DEF UnitForget, LimitInv, Over
<1>4. CASE UNCHANGED <<unit, delay, starts, window, main>>
  <2>1. short' <=> short \/ ShortRun BY <1>0, <1>4, ShortStays
  <2>2. Runtime' = Runtime BY <1>4 DEF Runtime, Cycle
  <2> QED BY <1>4, <2>1, <2>2 DEF LimitInv, Rest, Cycle
<1>5. CASE /\ unit \in {"active", "deactivating"} /\ unit' = "deactivating"
           /\ UNCHANGED <<delay, starts, window, main>>
  <2>1. short' BY <1>0, <1>5, ShortStays DEF ShortRun
  <2> QED BY <2>1 DEF LimitInv
<1> QED BY <1>1, <1>2, <1>3, <1>4, <1>5 DEF UnitStart, UnitRestart

(* The end of a process: a watchdog's is not short.                        *)
LEMMA EndedLimit ==
  ASSUME UnitInv, FieldInv, LimitInv, Follow, Alive, NEW bad \in BOOLEAN, Ended(bad),
         unit = "active" => \/ main = "starting"
                            \/ bad /\ (~short /\ window <= Interval => Runtime >= Watchdog + 1)
  PROVE  LimitInv' /\ (unit = "activating" /\ unit' = "failed" => short')
<1>0. starts \in Nat /\ window \in Nat /\ Runtime \in Int
  BY TimesNat, RuntimeInt DEF FieldInv, Over
<1>1. unit \in {"active", "deactivating"} BY DEF UnitInv
<1>2. CASE queued
  <2>1. unit = "deactivating" /\ Launched BY <1>2 DEF FieldInv, Ended
  <2>2. ~(~short /\ window <= Interval) BY <2>1 DEF LimitInv
  <2> QED BY <2>1, <2>2, LaunchedLimit
<1>3. CASE ~queued
  <2>1. /\ main' = "none" /\ UNCHANGED <<starts, window>>
        /\ unit = "active" /\ bad => unit' = "activating" /\ delay' = RestartSec
    BY <1>3 DEF Ended
  <2>2. short' <=> short \/ ShortRun BY <1>0, <2>1, ShortStays
  <2>3. CASE short' BY <1>1, <2>3 DEF LimitInv
  <2>4. CASE ~short'
    <3>1. ~short /\ main # "starting" BY <2>1, <2>2, <2>4 DEF ShortRun
    <3>2. CASE window <= Interval
      <4>1. unit = "active" /\ bad /\ Runtime >= Watchdog + 1
        BY <1>1, <3>1, <3>2 DEF LimitInv
      <4>2. Runtime' = Runtime BY <2>1 DEF Runtime, Cycle
      <4>3. Runtime >= Cycle - RestartSec
        BY <1>0, <4>1, TimesNat DEF Cycle
      <4> QED BY <2>1, <4>1, <4>2, <4>3 DEF LimitInv, Cycle
    <3>3. CASE ~(window <= Interval) BY <1>1, <2>1, <3>3 DEF LimitInv
    <3> QED BY <3>2, <3>3
  <2> QED BY <2>3, <2>4
<1> QED BY <1>2, <1>3

LEMMA RunLimit ==
  ASSUME UnitInv, FieldInv, DogInv, LimitInv, UnitStep, Follow
  PROVE  LimitInv' /\ (unit = "activating" /\ unit' = "failed" => short')
<1>0. starts \in Nat /\ window \in Nat /\ Runtime \in Int
  BY TimesNat, RuntimeInt DEF FieldInv, Over
<1>1. CASE AutoRestart
  BY <1>1, LaunchedLimit DEF AutoRestart
<1>2. ASSUME UNCHANGED systemd, main # "starting" => main' \in {main, "running", "ending"},
             unit = "active" /\ Runtime >= 0 /\ ~short /\ window <= Interval =>
                /\ main' \in {"drivers", "running"} => pubAge' <= Runtime
                /\ main' = "running" => \A d \in Drivers : age'[d] <= Runtime
      PROVE  LimitInv' /\ (unit = "activating" /\ unit' = "failed" => short')
  <2>1. Runtime' = Runtime /\ UNCHANGED <<unit, delay, starts, window>>
    BY <1>2 DEF Runtime, Cycle, systemd
  <2>2. short' <=> short \/ ShortRun BY <1>0, <2>1, ShortStays
  <2>3. CASE short' BY <2>3 DEF LimitInv
  <2>4. CASE ~short'
    BY <1>2, <2>1, <2>2, <2>4 DEF LimitInv, Cycle
  <2> QED BY <2>3, <2>4
<1>3. CASE Connects
  <2>1. CASE Ended(TRUE) BY <1>3, <2>1, EndedLimit DEF Connects, Alive
  <2>2. CASE main' = "drivers" /\ pubAge' = 0 /\ UNCHANGED systemd
    BY <1>2, <1>3, <2>2 DEF Connects
  <2> QED BY <1>3, <2>1, <2>2 DEF Connects
<1>4. CASE StartDrivers
  <2>1. UNCHANGED <<systemd, pubAge>> /\ main = "drivers" /\ main' = "running"
        /\ \A d \in Drivers : age'[d] = 0
    BY <1>4 DEF StartDrivers
  <2> QED BY <1>2, <2>1 DEF LimitInv
<1>8. ASSUME unit = "deactivating", Ending
      PROVE  LimitInv' /\ (unit = "activating" /\ unit' = "failed" => short')
  BY <1>2, <1>8 DEF Ending
<1>5. CASE Heartbeat
  <2>1. main = "running" /\ Alive BY <1>5 DEF Heartbeat, Alive
  <2>2. CASE unit = "deactivating" /\ Ending BY <2>2, <1>8
  <2>3. CASE /\ unit = "active" /\ Ended(TRUE)
             /\ (broker # "up" /\ pubAge > Watchdog) \/ \E d \in Drivers : Stale(d)
    <3>1. ASSUME ~short, window <= Interval PROVE Runtime >= Watchdog + 1
      <4>1. pubAge \in Nat /\ (\A d \in Drivers : age[d] \in Nat)
        BY TimesNat DEF DogInv, StampInv
      <4>2. PICK n \in Nat : n > Watchdog /\ n <= Runtime
        BY <2>1, <2>3, <3>1, <4>1 DEF LimitInv, Stale
      <4> QED BY <1>0, <4>2, TimesNat
    <3> QED BY <2>1, <2>3, <3>1, EndedLimit
  <2>4. CASE /\ unit = "active" /\ Published
             /\ UNCHANGED <<systemd, main, thread, age>>
    <3>1. pubAge' \in {0, pubAge} BY <2>4 DEF Published
    <3> QED BY <1>2, <2>1, <2>4, <3>1 DEF LimitInv
  <2> QED BY <1>5, <2>2, <2>3, <2>4 DEF Heartbeat
<1>6. CASE Signalled
  BY <1>6, <1>8 DEF Signalled
<1>9. CASE Exits
  <2>1. Alive /\ unit = "deactivating" BY <1>9 DEF Exits, Alive, UnitInv
  <2> QED BY <1>9, <2>1, EndedLimit DEF Exits
<1>7. ASSUME NEW d \in Drivers, PollOf(d)
      PROVE  LimitInv' /\ (unit = "activating" /\ unit' = "failed" => short')
  <2>1. /\ UNCHANGED <<systemd, main>> /\ thread[d] = "idle"
        /\ age' \in {age, [age EXCEPT ![d] = 0]}
        /\ pubAge' = pubAge \/ Published
    BY <1>7 DEF PollOf
  <2>2. main = "running" BY <2>1 DEF DogInv, StampInv
  <2>3. pubAge' \in {0, pubAge} BY <2>1 DEF Published
  <2>4. \A e \in Drivers : age'[e] \in {0, age[e]} BY <2>1 DEF DogInv, StampInv
  <2> QED BY <1>2, <2>1, <2>2, <2>3, <2>4 DEF LimitInv
<1> QED BY <1>1, <1>3, <1>4, <1>5, <1>6, <1>7, <1>9 DEF UnitStep

LEMMA TickLimit ==
  ASSUME UnitInv, FieldInv, DogInv, LimitInv, UnitTick, Follow
  PROVE  LimitInv' /\ (unit = "activating" /\ unit' = "failed" => short')
<1>0. starts \in Nat /\ window \in Nat /\ delay \in Nat /\ Runtime \in Int
      /\ pubAge \in Nat /\ (\A d \in Drivers : age[d] \in Nat) /\ Cycle \in Nat
  BY TimesNat, RuntimeInt, CycleNat DEF FieldInv, Over, DogInv, StampInv
<1>1. /\ UNCHANGED <<unit, starts, main>>
      /\ window' = IF window > Interval THEN window ELSE window + 1
      /\ delay' = IF delay > 0 THEN delay - 1 ELSE 0
  BY DEF UnitTick
<1>2. pubAge' <= pubAge + 1
  BY <1>0 DEF UnitTick
<1>3. ASSUME NEW d \in Drivers PROVE age'[d] <= age[d] + 1
  BY <1>0 DEF UnitTick
<1>4. pubAge' \in Int /\ \A d \in Drivers : age'[d] \in Int
  BY <1>0 DEF UnitTick
<1>5. short' <=> short \/ ShortRun BY <1>0, <1>1, ShortStays, TimesNat
<1>6. CASE window > Interval \/ short'
  BY <1>0, <1>1, <1>6, TimesNat DEF LimitInv
<1>7. CASE ~(window > Interval) /\ ~short'
  <2>1. ~short /\ window <= Interval BY <1>0, <1>5, <1>7, TimesNat
  <2>2. Runtime' = Runtime + 1
    <3>1. (starts - 1) * Cycle \in Int BY <1>0
    <3>2. window' = window + 1 /\ Cycle' = Cycle BY <1>1, <1>7 DEF Cycle
    <3>3. Runtime' = window' - (starts' - 1) * Cycle BY DEF Runtime, Cycle
    <3> QED BY <1>0, <1>1, <3>1, <3>2, <3>3 DEF Runtime
  <2>3. unit = "activating" => delay > 0 BY <1>0 DEF UnitTick
  <2>4. unit = "inactive" => Runtime' >= Cycle BY <1>0, <2>1, <2>2 DEF LimitInv
  <2>5. unit = "activating" => Runtime' >= Cycle - delay'
    BY <1>0, <1>1, <2>1, <2>2, <2>3 DEF LimitInv
  <2>6. unit = "active" => Runtime' >= 0 BY <1>0, <2>1, <2>2 DEF LimitInv
  <2>7. unit = "active" /\ main \in {"drivers", "running"} => pubAge' <= Runtime'
    BY <1>0, <1>2, <1>4, <2>1, <2>2 DEF LimitInv
  <2>8. ASSUME unit = "active", main = "running", NEW d \in Drivers
        PROVE  age'[d] <= Runtime'
    BY <1>0, <1>3, <1>4, <2>1, <2>2, <2>8 DEF LimitInv
  <2>9. Cycle' = Cycle BY DEF Cycle
  <2> QED BY <1>1, <2>1, <2>4, <2>5, <2>6, <2>7, <2>8, <2>9 DEF LimitInv
<1> QED BY <1>1, <1>6, <1>7

LEMMA StepLimit ==
  ASSUME UnitInv, FieldInv, DogInv, LimitInv, [Next]_vars
  PROVE  LimitInv' /\ (unit = "activating" /\ unit' = "failed" => short')
<1>1. CASE UNCHANGED vars
  BY <1>1 DEF vars, systemd, process, history, LimitInv, Runtime, Cycle
<1>2. CASE Follow
  <2>1. CASE UNCHANGED <<systemd, process>>
    <3>1. short' <=> short \/ ShortRun
      BY <1>2, <2>1, ShortStays, TimesNat DEF FieldInv, systemd, Over
    <3> QED BY <2>1, <3>1 DEF systemd, process, LimitInv, Runtime, Cycle
  <2> QED BY <1>2, <2>1, UnitSteps, RunLimit, TickLimit, CommandLimit
<1> QED BY <1>1, <1>2 DEF Next

(* systemd gives up only on runs that did not connect or were ended or     *)
(* started by hand: processes that a watchdog ends are started again for   *)
(* ever, whatever the times, if the limit's interval is no longer than the *)
(* starts it allows take (LimitNeedsShortRuns).                            *)
THEOREM StartedForEver == Spec => LimitNeedsShortRuns
<1>1. Init => LimitInv
  BY CycleNat DEF Init, UnitInit, LimitInv, Runtime, Cycle
<1>2. Inv /\ FieldInv /\ DogInv /\ LimitInv /\ [Next]_vars => LimitInv'
  BY StepLimit DEF Inv
<1>3. Inv /\ FieldInv /\ DogInv /\ LimitInv /\ [Next]_vars
        => [unit = "activating" /\ unit' = "failed" => short']_vars
  BY StepLimit DEF Inv
<1> QED
  BY <1>1, <1>2, <1>3, InitInv, StepInv, InitDog, StepDog, FieldsHold, PTL
  DEF Spec, LimitNeedsShortRuns

-----------------------------------------------------------------------------
(* Every variable of systemd, of the process, of the diagnostic and of the *)
(* status line keeps its type, and no more than one answer is under way in *)
(* a connection (TypeOK).                                                  *)
THEOREM TypeCorrect == Spec => []TypeOK
<1>1. Inv /\ FieldInv /\ DogInv /\ RingInv /\ PanelInv => TypeOK
  <2> SUFFICES ASSUME Inv, FieldInv, DogInv, RingInv, PanelInv PROVE TypeOK OBVIOUS
  <2>1. conn # NoConn => Len(conn.lines) + conn.asked <= 1
    <3> SUFFICES ASSUME conn # NoConn PROVE Len(conn.lines) + conn.asked <= 1 OBVIOUS
    <3>1. conn \in Connection /\ OneAsked BY DEF PanelInv
    <3>2. Len(conn.lines) \in 0..1 /\ (conn.lines = <<>> => Len(conn.lines) = 0)
      BY <3>1, OneLine DEF Connection, Replied
    <3>3. conn.asked \in 0..1 BY <3>1 DEF Connection
    <3>4. CASE conn.asked = 1 BY <3>1, <3>2, <3>4 DEF OneAsked
    <3>5. CASE conn.asked = 0
      <4> DEFINE n == Len(conn.lines)
      <4>1. n \in 0..1 BY <3>2
      <4> HIDE DEF n
      <4>2. n + 0 <= 1 BY <4>1
      <4> QED BY <3>5, <4>2 DEF n
    <3> QED BY <3>3, <3>4, <3>5
  <2>2. ring.next \in 0..(Capacity - 1) /\ ring.filled \in 0..Capacity
    BY DEF RingInv, Ring
  <2>3. /\ thread \in [Drivers -> {"off", "idle", "stuck"}]
        /\ age \in [Drivers -> 0..Over(Watchdog)] /\ pubAge \in 0..Over(Watchdog)
    BY DEF DogInv, StampInv, States, Over
  <2> QED BY <2>1, <2>2, <2>3 DEF TypeOK, Inv, UnitInv, DiagInv, Diags, FieldInv
<1> QED BY <1>1, InitInv, StepInv, FieldsHold, InitDog, StepDog, RingHolds, PanelHolds, PTL DEF Spec
=============================================================================
