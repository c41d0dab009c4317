------------------------------ MODULE Setpoints ------------------------------
(***************************************************************************)
(* Who sets the heaters' setpoints: operators, trackers, the sequencer and *)
(* the gradient controller, which hear of each other, of the readings and  *)
(* of the PLC only through the broker.  Every second the store publishes,  *)
(* the trackers are evaluated and the PLC driver reports, in any order;    *)
(* within the second every message reaches the callbacks.                  *)
(***************************************************************************)
EXTENDS Sequencer, Gradient

CONSTANTS
  First,         \* readings at the start
  Items,         \* steps and sweeps a program is made of
  Programs,      \* what sequencer.json may hold
  Tables,        \* what trackers.json may hold
  Commands,      \* messages operators send
  Eager,         \* may they send a second run before the first has begun
  Moving,        \* bound: inputs of which a reading arrives after the first
  MaxReads,      \* bound on the readings that arrive
  MaxEvents      \* bound on commands and restarts

(* What the files hold and the topics carry.                               *)
Tracker == [target : Zones, source : STRING, offset : Int, on : BOOLEAN,
            lo : Int, hi : Int, sent : Int \cup {Never}, to : Zones \cup {Never}]
Command ==
  [topic : {"trackers/set"}, id : STRING, spec : Tracker]
  \cup [topic : {"trackers/remove"}, id : STRING]
  \cup [topic : {"trackers/enable"}, id : STRING, on : BOOLEAN]
  \cup [topic : {"sequencer/set"}, items : Seq(Items)]
  \cup [topic : {"sequencer/append"}, item : Items]
  \cup [topic : {"sequencer/clear", "sequencer/run", "sequencer/stop"}]
  \cup [topic : {"gradient/mode"}, mode : {"gradient", "absolute"}]
  \cup [topic : {"gradient/base"}, value : Int]
  \cup [topic : {"gradient/delta"}, zone : Zones, value : Int]
  \cup [topic : {"pid/setpoint"}, zone : Zones, value : Int, by : STRING]
  \cup [topic : {"pid/setpoint_expr"}, zone : Zones, expr : Expression]

ASSUME ItemsAssumption == \A i \in Items :
  /\ i.hold \in Nat
  /\ \/ /\ i.kind = "step"
        /\ DOMAIN i.tracks \subseteq Zones /\ i.tracks \in [DOMAIN i.tracks -> Tracker]
        /\ DOMAIN i.writes \subseteq Zones /\ i.writes \in [DOMAIN i.writes -> Int]
     \/ i.kind = "sweep" /\ i.targets \subseteq Zones /\ {i.from, i.to, i.by} \subseteq Int
ASSUME InputsAssumption ==
  /\ Moving \subseteq Inputs
  /\ First \subseteq [Inputs -> Readings \cup {NoValue}]
  /\ Programs \subseteq Seq(Items)
  /\ \A t \in Tables : /\ DOMAIN t \subseteq STRING /\ t \in [DOMAIN t -> Tracker]
                       /\ \A id \in DOMAIN t : t[id].sent = Never /\ t[id].to = Never
  /\ Commands \subseteq Command
  /\ Never \notin Zones /\ \A z \in Zones : SeqId(z) \in STRING

VARIABLES
  \* history
  leftover,      \* the sequencer's trackers from before this run
  snapAge,       \* ticks since `snap' was built
  lastSnap,      \* `snap' when this second began
  touched,       \* trackers changed since then
  ranFor,        \* ticks since the run under way was begun
  unseen,        \* setpoints commanded, or registers given another value,
                 \*   since the zones were last reported
  events, reads

second == <<lastSnap, touched, ranFor>>
vars == <<bus, store, tracking, sequencing, gradient, plc, leftover, snapAge, second, unseen, events, reads>>

SeqIds == {SeqId(z) : z \in Zones}
Event  == events < MaxEvents /\ events' = events + 1

Init ==
  /\ bus = <<>>
  /\ \E e \in First : StoreInit(e)         \* the first readings have come
  /\ TrackersInit /\ trackers \in Tables
  /\ SequencerInit /\ items \in Programs
  /\ GradientInit
  /\ reg = [z \in Zones |-> Default] /\ reportDue = FALSE /\ retained = reg
  /\ expr = [z \in Zones |-> NoExpr]
  /\ leftover = Ids \cap SeqIds
  /\ snapAge = 0 /\ unseen = TRUE
  /\ lastSnap = <<>> /\ touched = {} /\ ranFor = 0
  /\ events = 0 /\ reads = 0

-----------------------------------------------------------------------------
Reads(i, v) ==
  /\ storeDue /\ (i \in Timed => age[i] > 0)
  /\ Ingest(i, v)
  /\ reads < MaxReads /\ reads' = reads + 1
  /\ UNCHANGED <<bus, tracking, sequencing, gradient, plc, leftover, snapAge, second, unseen, events>>
ReadsAgain(i) ==
  /\ Redelivered(i)
  /\ UNCHANGED <<bus, tracking, sequencing, gradient, plc, leftover, snapAge, second, unseen, events, reads>>

Patient(m) == m.topic = "sequencer/run" =>
  /\ \A n \in DOMAIN bus : bus[n].topic # "sequencer/run"
  /\ \A r \in Runners : ~At(r, "starting")
Sends(m) ==
  /\ Event /\ (Eager \/ Patient(m))
  /\ Publish(<<m>>)
  /\ UNCHANGED <<store, tracking, sequencing, gradient, plc, leftover, snapAge, second, unseen, reads>>

(* The callbacks of the oldest message.                                    *)
ForTrackers ==
  /\ OnSnapshot \/ OnSet \/ OnRemove \/ OnEnable
  /\ snapAge' = IF Msg.topic = "snapshot" THEN Msg.lag ELSE snapAge
  /\ touched' = IF Msg.topic = "snapshot" THEN touched ELSE touched \cup {Msg.id}
  /\ UNCHANGED <<store, sequencing, gradient, plc, leftover, lastSnap, ranFor, unseen, events, reads>>

ForSequencer ==
  /\ OnSetProgram \/ OnAppend \/ OnClear \/ OnRun \/ OnStop
  /\ UNCHANGED <<store, tracking, gradient, plc, leftover, snapAge, second, unseen, events, reads>>

ForGradient ==
  /\ \/ (OnMode \/ OnBase \/ OnDelta \/ OnSetpoint) /\ unseen' = TRUE
     \/ (OnPidStatus \/ OnSetpointExpr) /\ UNCHANGED unseen
  /\ UNCHANGED <<store, tracking, sequencing, leftover, snapAge, second, events, reads>>

Deliver == ForTrackers \/ ForSequencer \/ ForGradient

StoreStep ==
  /\ PublishSnapshot
  /\ UNCHANGED <<tracking, sequencing, gradient, plc, leftover, snapAge, second, unseen, events, reads>>

TrackersStep ==
  /\ StartRound \/ Note \/ \E id \in DOMAIN round : EvalOne(id)
  /\ UNCHANGED <<store, sequencing, gradient, plc, leftover, snapAge, second, unseen, events, reads>>

OnTheWay == {bus[n].id : n \in {m \in DOMAIN bus : bus[m].topic = "trackers/set"}}
RunnerStep(r) ==
  /\ Runs(r)
  /\ leftover' = IF At(r, "starting") THEN (Ids \cup OnTheWay) \cap SeqIds
                 ELSE IF At(r, "next") /\ ~Over(r) /\ Item(r).kind = "step"
                 THEN leftover \ Wanted(Item(r)) ELSE leftover
  /\ ranFor' = IF At(r, "starting") THEN 0 ELSE ranFor
  /\ UNCHANGED <<store, tracking, gradient, plc, snapAge, lastSnap, touched, unseen, events, reads>>

(* A poll that trips the interlock counts as an event.                     *)
PollStep ==
  /\ Report
  /\ \/ WriteExpressions /\ UNCHANGED events
     \/ WriteSurrogates /\ Event
  /\ unseen' = (reg' # reg)
  /\ UNCHANGED <<store, tracking, sequencing, leftover, snapAge, second, reads>>

Tick ==
  /\ bus = <<>>
  /\ StoreTick /\ TrackersTick /\ SequencerTick /\ PollTick
  /\ snapAge' = IF snapAge < Old THEN snapAge + 1 ELSE snapAge
  /\ lastSnap' = snap /\ touched' = {}
  /\ ranFor' = IF running THEN ranFor + 1 ELSE 0
  /\ UNCHANGED <<bus, gradient, leftover, unseen, events, reads>>

(* The service is started again: what it keeps is in its two files and     *)
(* with the broker, whose retained messages reach the new callbacks first. *)
LastSnapshot ==
  LET N == {n \in DOMAIN bus : bus[n].topic = "snapshot"}
  IN IF N # {} THEN <<bus[CHOOSE n \in N : \A m \in N : m <= n]>>
     ELSE IF snap # <<>> THEN <<SnapshotMsg(snap, snapAge)>> ELSE <<>>
Restart ==
  /\ Event
  /\ bus' = LastSnapshot \o Status(retained)
  /\ StoreStart /\ TrackersStart /\ SequencerStart /\ GradientStart
  /\ reportDue' = FALSE /\ unseen' = TRUE
  /\ expr' = [z \in Zones |-> NoExpr]
  /\ leftover' = Ids \cap SeqIds
  /\ lastSnap' = <<>> /\ touched' = Ids /\ ranFor' = 0
  /\ UNCHANGED <<reg, retained, snapAge, reads>>

Next ==
  \/ \E i \in Moving, v \in Readings : Reads(i, v)
  \/ \E i \in Kept : ReadsAgain(i)
  \/ \E m \in Commands : Sends(m)
  \/ Deliver \/ StoreStep \/ TrackersStep \/ PollStep \/ Tick \/ Restart
  \/ \E r \in Runners : RunnerStep(r)

Spec == Init /\ [][Next]_vars

(* Every thread goes on, messages arrive, time passes.                     *)
Fairness == /\ WF_vars(Deliver) /\ \A i \in Kept : WF_vars(ReadsAgain(i))
            /\ /\ WF_vars(StoreStep) /\ WF_vars(TrackersStep)
            /\ WF_vars(PollStep) /\ WF_vars(Tick)
            /\ \A r \in Runners : WF_vars(RunnerStep(r))
FairSpec == Spec /\ Fairness

-----------------------------------------------------------------------------
(* Properties.                                                             *)

TypeOK ==
  /\ \A i \in Inputs : entry[i] \in Readings \cup {NoValue} /\ age[i] \in 0 .. Old
  /\ \A id \in Ids : trackers[id].target \in Zones /\ trackers[id].sent \in Int \cup {Never}
  /\ DOMAIN round \subseteq Ids \cup {id \in DOMAIN round : round[id] # <<>>}
  /\ \A id \in Ids : trackers[id].to = Never <=> trackers[id].sent = Never
  /\ writing # Nothing => writing.id \in DOMAIN round
  /\ {running, abort, evalDue, storeDue} \subseteq BOOLEAN
  /\ active \subseteq SeqIds /\ leftover \subseteq SeqIds
  /\ \A r \in Runners : runner[r].pc \in {"none", "starting", "next", "track", "hold"}
  /\ mode \in {"gradient", "absolute"} /\ base \in Int
  /\ \A z \in Zones : {delta[z], abs[z], reg[z], retained[z]} \subseteq Int
  /\ expr \in [Zones -> Expression]
  /\ {reportDue, unseen} \subseteq BOOLEAN

(* While a step holds and its commands have arrived, the sequencer's       *)
(* trackers are the step's own and those a run before this one has left    *)
(* (_apply_step_actions: "this step's track actions become the             *)
(* authoritative set").                                                    *)
Pending == {bus[n].topic : n \in DOMAIN bus}
StepOwnsTrackers ==
  \A r \in Runners :
    /\ At(r, "hold") /\ Item(r).kind = "step"
    /\ Pending \cap {"trackers/set", "trackers/remove"} = {}
    => Ids \cap SeqIds \subseteq Wanted(Item(r)) \cup leftover

(* Once everything said has arrived, the gradient controller holds what    *)
(* the PLC's registers hold, as setpoints and as base and offsets - unless *)
(* a command came, or an expression or the interlock gave a register       *)
(* another value, since the zones were last reported: a poll writes after  *)
(* it reports, so a register that moves is one report ahead ("our          *)
(* published state mirrors reality").                                      *)
MirrorsPLC ==
  bus = <<>> /\ ~unseen =>
    /\ abs = reg /\ base = reg[Top]
    /\ \A z \in Zones : delta[z] = reg[z] - reg[Top]

(* No tracker is evaluated with a reading the store received so long ago   *)
(* that it had become invalid more than a tick before, be it behind a      *)
(* derived state or in the snapshot the broker kept over a restart ("we    *)
(* skip the write if the source is INVALID").  Two kinds of old readings   *)
(* are not excluded, since the store takes them for fresh: a status the    *)
(* broker kept, received anew at a restart, and states without a period_s. *)
AgeOf(s) == {snap[i].age : i \in Timed \cap (IF s \in Inputs THEN {s} ELSE Derived[s])}
NoOldReadings ==
  [][(round = <<>> /\ round' # <<>>) =>
       \A id \in Ids : trackers[id].on /\ Usable(trackers[id], snap) =>
         \A a \in AgeOf(trackers[id].source) : a + snapAge <= InvalidAfter + 1]_vars

(* Since it began, a run has taken no more than the time its items hold    *)
(* (_wait_until, Held): no item is run twice, no point is waited for twice *)
(* and no wait is longer than its hold.                                    *)
HoldsUpTo(prog) ==
  LET t[n \in 0 .. Len(prog)] == IF n = 0 THEN 0 ELSE t[n - 1] + Points(prog[n]) * prog[n].hold
  IN t
RunOnTime == \A r \in Runners : runner[r].pc \notin {"none", "starting"} =>
  ranFor <= HoldsUpTo(runner[r].prog)[Len(runner[r].prog)]

(* When a second's work is done, an enabled tracker nobody has touched in  *)
(* it has last sent, to its target, a value within the deadband of what it *)
(* wants, by this second's snapshot or the one before ("target_value =     *)
(* source_value + offset", "on every tick").  Excepted is a tracker that   *)
(* was given another target: it inherits what it sent to the old one       *)
(* (_on_set) and leaves the new one alone until its value moves.           *)
Rested == bus = <<>> /\ round = <<>> /\ ~storeDue /\ ~evalDue
Retargeted(t) == t.to \notin {Never, t.target}
Follows ==
  Rested => \A id \in Ids \ touched : trackers[id].on /\ ~Retargeted(trackers[id]) =>
    \E S \in {lastSnap, snap} :
      \/ S = <<>>
      \/ ~Usable(trackers[id], S)
      \/ /\ trackers[id].sent # Never /\ trackers[id].to = trackers[id].target
         /\ Within(Goal(trackers[id], S), trackers[id].sent)
=============================================================================
