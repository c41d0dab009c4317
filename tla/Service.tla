------------------------------- MODULE Service -------------------------------
(***************************************************************************)
(* The service under systemd, the web panel that stops it for a            *)
(* diagnostic, and the control panel that shows what it does.              *)
(***************************************************************************)
EXTENDS Diag, StatusPanel

CONSTANT MaxEvents                 \* faults, requests and commands in a run

(* xsphere-slowcontrol.service: the starts allowed, each the watchdog's    *)
(* time and the pause before the next, take the interval at least.         *)
ASSUME LimitAssumption == Burst * (Watchdog + RestartSec) >= Interval

VARIABLES
  events,
  (* History.                                                              *)
  blocked,       \* driver or "mqtt" -> ticks it has been of no use
  short,         \* since the count of starts began, a process did not connect,
                 \* or one was ended or started by hand
  seen,          \* states of the unit since the query under way was sent
  excused,       \* the operator stopped it, or started it in a diagnostic,
                 \* or the diagnostic could not start it
  taken          \* the last samples of the diagnostic that runs

history == <<blocked, short, seen, excused, taken>>
vars == <<systemd, process, outside, diag, ring, req, panel, events, history>>

Init ==
  /\ UnitInit /\ DiagInit /\ PanelInit
  /\ events = 0
  /\ blocked = [x \in Drivers \cup {"mqtt"} |-> 0]
  /\ short = FALSE /\ seen = {} /\ excused = {} /\ taken = <<>>

-----------------------------------------------------------------------------
InDiag == diag.active \/ req # "none"

Counted == events < MaxEvents /\ events' = events + 1
Free    == events' = events
Excuse(x) == excused' = excused \cup x
Blame     == excused' = {}

UnitKept  == UNCHANGED <<systemd, process, outside>>
DiagKept  == UNCHANGED <<diag, ring, req>>
PanelKept == UNCHANGED panel
Rest      == UNCHANGED <<thread, age, pubAge, due, outside>>

(* A poll that is blocked, and a broker that takes nothing.                *)
Useless(x) == IF x = "mqtt" THEN main = "running" /\ broker # "up" ELSE thread[x] = "stuck"
Blocked(step) ==
  blocked' = [x \in DOMAIN blocked |->
                IF ~Useless(x)' THEN 0
                ELSE IF blocked[x] <= Over(Watchdog) THEN blocked[x] + step ELSE blocked[x]]
ShortRun ==
  \/ main = "starting" /\ main' = "none"
  \/ unit' = "deactivating" \/ (unit = "activating" /\ delay > 0 /\ unit' # unit)
LastOf(s) == IF Len(s) > Capacity THEN Tail(s) ELSE s
Follow ==
  /\ short' = IF starts' < starts \/ window' < window THEN FALSE ELSE short \/ ShortRun
  /\ seen' = IF poll'.at # "wait" THEN {}
             ELSE (IF poll.at = "wait" THEN seen ELSE {}) \cup {unit'}

(* The operator's commands, from the control panel.                        *)
OperatorStops    == UnitStop /\ Rest /\ Excuse({"stopped"})
OperatorStarts   == UnitStart /\ Rest
                    /\ IF InDiag THEN Excuse({"started"}) ELSE Blame
OperatorRestarts == UnitRestart /\ Rest
                    /\ IF InDiag THEN Excuse({"started"}) ELSE Blame

RunStep   == UnitStep /\ Free /\ DiagKept /\ PanelKept /\ UNCHANGED excused
DiagRuns  == DiagStep /\ Rest /\ Free /\ PanelKept /\ UNCHANGED excused
DiagFault == DiagLeaks /\ Rest /\ Counted /\ PanelKept /\ UNCHANGED excused
DiagOver  == /\ Rest /\ Free /\ PanelKept
             /\ \/ StartService /\ Blame
                \/ DiagFails /\ Excuse({"unstarted"})
DiagAsked == (StartAsked \/ StopAsked) /\ Rest /\ Counted /\ PanelKept /\ UNCHANGED excused
Sampled   == /\ ~PanelBusy /\ Rest /\ Free /\ PanelKept /\ UNCHANGED excused
             /\ \E x \in Samples : Sample(x) /\ taken' = LastOf(Append(taken, x))
PanelEnds == /\ WebEnds /\ Rest /\ Counted /\ PanelKept
             /\ IF InDiag THEN Excuse({"stopped"}) ELSE UNCHANGED excused
Operator  == /\ OperatorStops \/ OperatorStarts \/ OperatorRestarts
             /\ Counted /\ DiagKept /\ PanelKept
Faults    == Changes /\ Counted /\ DiagKept /\ PanelKept /\ UNCHANGED excused
Shows     == /\ \/ PanelStep
                \/ ~PanelBusy /\ (Replies(unit) \/ \E h \in Hosts : PollStart(h))
             /\ UnitKept /\ Free /\ DiagKept /\ UNCHANGED excused
LinkDies  == ConnDies /\ UnitKept /\ Counted /\ DiagKept /\ UNCHANGED excused
Tick      == UnitTick /\ Free /\ DiagKept /\ PanelKept /\ UNCHANGED excused

Next ==
  /\ \/ Sampled /\ Blocked(0)
     \/ Shows /\ taken' = taken /\ Blocked(0)
     \/ ~PanelBusy /\ Tick /\ taken' = taken /\ Blocked(1)
     \/ /\ ~PanelBusy
        /\ RunStep \/ DiagRuns \/ DiagOver \/ DiagFault \/ DiagAsked \/ PanelEnds \/ Operator \/ Faults \/ LinkDies
        /\ taken' = IF diag'.active THEN taken ELSE <<>>
        /\ Blocked(0)
  /\ Follow

Spec == Init /\ [][Next]_vars
-----------------------------------------------------------------------------
TypeOK ==
  /\ unit \in {"inactive", "active", "activating", "deactivating", "failed"}
  /\ queued \in BOOLEAN /\ delay \in 0..RestartSec
  /\ starts \in 0..Burst /\ window \in 0..Over(Interval)
  /\ main \in {"none", "starting", "drivers", "running", "ending"}
  /\ thread \in [Drivers -> {"off", "idle", "stuck"}]
  /\ age \in [Drivers -> 0..Over(Watchdog)] /\ pubAge \in 0..Over(Watchdog)
  /\ due \subseteq Drivers \cup {"main"}
  /\ ring.next \in 0..(Capacity - 1) /\ ring.filled \in 0..Capacity
  /\ diag \in [active : BOOLEAN, handle : BOOLEAN, leaked : BOOLEAN, late : BOOLEAN]
  /\ Alive => unit \in {"active", "deactivating"}
  /\ conn # NoConn => Len(conn.lines) + conn.asked <= 1

(* A poll that blocks, or a broker that takes nothing, ends the process     *)
(* within a heartbeat of the watchdog's time, whatever the other drivers do *)
(* (service.py, _heartbeat_loop; drivers/base.py, _loop).                   *)
StuckGone ==
  main = "running" => \A x \in DOMAIN blocked : blocked[x] <= Watchdog + 1

(* systemd gives the service up only if one of the starts it counts did not  *)
(* connect or was made by hand: processes that a watchdog ended are started *)
(* again for ever (xsphere-slowcontrol.service, StartLimitBurst).           *)
LimitNeedsShortRuns == [][unit = "activating" /\ unit' = "failed" => short']_vars

(* The service does not run while the diagnostic has its LabJack session,  *)
(* from openS until it is closed, unless the operator starts it meanwhile  *)
(* (webcontrol, diag_start and the teardown).  Excepted are sessions the   *)
(* code leaves open: when it cannot make the buffers or the thread after   *)
(* openS, or when close fails, it starts the service all the same.         *)
OneSession == diag.handle /\ "started" \notin excused => ~Alive

(* What the page shows are the last samples of the diagnostic that runs,   *)
(* as many as the window has, oldest first and each step-th of them,       *)
(* however far the ring has turned.  One that a late thread of the         *)
(* diagnostic before puts there counts as a sample (webcontrol,            *)
(* _diag_poll_loop and diag_data).                                         *)
DataInOrder ==
  diag.active => \A n \in 0..Len(taken) : Page(n) = Thinned(LastOnes(taken, n))

(* When no diagnostic runs or is being started or ended, the service is up, *)
(* or will be started again, or systemd has given it up.  Excepted: the    *)
(* operator stopped it; the web panel ended in a diagnostic; or, what the  *)
(* code does not make good, reset-failed, start or the join that come      *)
(* before it failed or took too long (webcontrol, diag_start, diag_stop).  *)
ServiceBack ==
  ~InDiag /\ excused \cap {"stopped", "unstarted"} = {} =>
    \/ unit \in {"active", "activating", "failed"} \/ (unit = "deactivating" /\ queued)

(* What the control panel shows of a host was so at some moment after it    *)
(* asked, and is of that host: neither a late answer nor one from the host  *)
(* before is shown (servicectl.py, StatusSession.poll).                     *)
ShownWasSo ==
  [][result' \notin {result, NoResult} /\ result'.active # "unreachable" =>
       IF result'.host = Pi THEN result'.active \in seen ELSE result'.active = Elsewhere]_vars
=============================================================================
