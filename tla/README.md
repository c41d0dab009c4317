# A verification project for xsphere-slow-control

The slow control of the xsphere cryostat is a Python service
(`src/slowcontrol`) between an MQTT broker and the hardware: a CLICK PLC that
runs the heater PIDs, the heaters' bench supply, turbo pumps, level probes and
thermometers.  This project models the parts of it in which several actors
(threads, MQTT callbacks, the devices, operators at a front panel, the network,
restarts) meet, checks the models with TLC and proves the main results with
TLAPS.

## 1. Inventory

State is what a part keeps between two of its operations.

| Part | State | Operations | Interacts by | Hard behaviour | Correct when |
|---|---|---|---|---|---|
| **PLC driver, interlock and heaters** `drivers/plc.py` | latest RTD value and time per channel, expressions, PV band, trip flag, Modbus client | poll (read, publish, expressions, judge, mirror or trip), MQTT commands | Modbus to the PLC, MQTT callbacks on another thread, `pv_interlock.json` | callbacks between any two registers of a poll; the link lost within the three writes of a trip; stale data; restart with a PLC that goes on alone | bad data zero every zone; a zeroed zone stays so until it is commanded; good data pass; the last setpoint wins |
| **PLC driver, valves and gate** `drivers/plc.py` | gate flag, registers of the ladder | solenoid and gas valve commands, gate, readback | Modbus, MQTT | gate that is not persisted, writes refused, relays that are normally open | no gas valve is commanded unless the gate was opened in this process; what is published ends up true |
| PLC driver, interlock status | trip flag, limits, alerts | publication by the poll and by a limits command | retained MQTT messages | two threads publish the same topic | (display only) |
| **Heater supply driver** `drivers/nge.py` | hold, targets, what was applied, contact time, back-off per channel, session, `nge_state.json` | poll, output / setpoint / hold commands, stop, start | USB-TMC exchanges under one lock; panel, mains and protections act on the supply at any time | snapshot decisions, partial writes, dead sessions, restarts, power cuts, repeated trips | nothing comes on unasked; OFF stays OFF; setpoints before outputs; retries spaced; the supply settles on its targets |
| **Turbo pump driver** `drivers/turbovac.py` | mode per pump, ports, watchdog value, last contact, `turbovac_state.json` | poll, scan and bind, mode commands, control gate | serial telegrams, the pump's own 10 s watchdog | resume after a lost link, pumps swapped between ports, gate shut at start | a pump is driven only by the order in force for it, and goes back to its stand when that is over |
| Level probe, Omega drivers | open port, parser state | poll | serial lines | partial lines, port changes | readings belong to their probe |
| **Driver base, service, unit** `drivers/base.py`, `core/service.py`, `xsphere-slowcontrol.service` | thread, last good poll, last good publication; systemd's count of starts | start, poll loop, heartbeat, watchdogs, exit, restart | threads, signals, systemd | polls that block, brokers that hang, exits that race a stop, a limit on starts | what is stuck ends the process in time, and systemd starts it again |
| **Trackers, gradient** `controllers/trackers.py`, `gradient.py` | trackers, last value sent; base, offsets | set, enable, remove, tick; mode, base, offset | setpoint commands over MQTT, snapshots of the store, reports of the PLC | deadband against a value sent long ago, copies of a table that changes, old snapshots, reports older than commands | a target follows its source, never an invalid one; base and offsets are what the PLC reported last |
| **Sequencer** `controllers/sequencer.py` | items, running flag, step, deadline | set, append, clear, run, stop, runner thread | trackers and commands over MQTT | two threads, a stop between two actions of a step, two runs at once | a step's trackers are the step's; a run takes its time |
| **Interlock and autovalve controllers** `controllers/interlocks.py`, `autovalve.py` | rules, active alerts; fill state | readings, reports, commands, watchdog loops | MQTT alerts, valve commands | decisions after the lock is given back, alerts of a process before, a controller that hears its own readings | a channel's alert has a cause; a fill that a command of this process began ends |
| **State store** `state/store.py` | values, times | ingest, tick, publish | MQTT in and out | freshness of derived values and of the broker's last snapshot | a value is usable only while it is fresh |
| **Web panel's diagnostic** `webcontrol/app.py` | active, LabJack handle, ring of samples | start, stop, data | systemctl, the LabJack | steps that fail half way, a service that must come back | one user of the LabJack, and the service back when it is over, but for failures the code does not make good |
| **Control panel's status** `servicectl.py` | ssh connection, poll under way | poll, start / stop / restart | ssh, systemctl | late answers, a host changed while one is awaited | what is shown was so |
| Calibration, configuration, GUI, tools, dashboards | curves, settings | - | - | arithmetic, I/O | - |

## 2. Modules

| Module | Models | With |
|---|---|---|
| `HeaterInterlock`, `HeaterInterlockProofs` | the interlock and heater part of `drivers/plc.py`, the PLC's PIDs, link, process and clock | `MCHeaterInterlock` |
| `NgeHold`, `NgeHoldProofs` | `drivers/nge.py`, the supply, its panel, mains and cable, process and clock | `MCNgeHold` |
| `PumpCommand` | abstract: what the turbo pump driver promises | |
| `TurboHold`, `TurboHoldProofs` | `drivers/turbovac.py` and the pumps; implements `PumpCommand` | `MCTurboHold` |
| `Broker` | messages under way and retained ones | |
| `StateStore`, `Trackers`, `Sequencer`, `Gradient` | the four parts that make setpoints, each on top of the one before | |
| `Setpoints`, `SetpointsProofs`, `SequencerProofs` | their composition with operators and the PLC's registers | `MCSetpoints` |
| `PlcValves`, `Autovalve`, `Interlocks` | the valve part of `drivers/plc.py` and the two controllers next to it | |
| `Valves`, `ValvesProofs` | their composition with operators, level boards and restarts | `MCValves` |
| `ServiceUnit` | `core/service.py`, `drivers/base.py`, the unit file, the stamp of `core/mqtt.py` | |
| `Diag` | the diagnostic of `webcontrol/app.py` | |
| `StatusPanel` | `StatusSession` of `servicectl.py` | |
| `Service`, `ServiceProofs` | their composition with faults and the operator's commands | `MCService` |

A composition's events (commands, faults, restarts) share one budget,
`MaxEvents`; everything else is free.  A name with an underscore and a second
name (`SetValve_Untimed`) is the definition before it with a likely mistake in it: it
is used by no specification and shows that a property can fail.

### Plan

Next, in this order: the level registers of `drivers/plc.py` with
`drivers/levelprobe.py` (an age that the ladder trusts); subscriptions of
`core/mqtt.py` over a lost connection; two requests at once in `Diag`.

## 3. HeaterInterlock

**State.**  PLC: `sp`, `pvRaw`, `out` (is the output above zero), `auto`,
`hung` (PID not computing), `mirror`.  Driver: `rtd`/`age` are `_labjack_rtd`
and `_labjack_rtd_ts`, `spExpr`/`pvExpr` the expression tables, `band`/`saved`
the limits in memory and in `pv_interlock.json`, `tripped` the flag
`_interlock_tripped_was`, `conn` the Modbus client (`broken`: dead and not
found out), `proc` the driver's thread.  `pc`, `at`, `val`, `pollBand`, `reason`
are the locals of a poll.  `late`, `cmdPoll`, `cmdLegs`, `held`, `asked`,
`pollEnd`, `missed` are history: they are read by properties only.

**Actions.**  One per Modbus operation or unguarded read of the poll, in the
code's order: `PollStart`, `ReadAndPublish`, `EvalExpr`/`WriteExpr` (per zone and
kind), `JudgeValue`, `JudgeAge` (the value and its time are read one after the
other), `WriteMirror`, `PvLeg`, `SpLeg`, `OutLeg`, `Finish`; `PollFails` and
`PollLoses` end a poll on a dead link.  Commands (`OnPidSetpoint` and the others)
are one action each: between two Modbus operations of the poll any of them may
run.  `PlcScan` is the PLC's PID: below the setpoint it drives its output, what
it does with a NaN is left open.  `Exit`, `Start`, `Tick`, `LinkDown`, `LinkUp`
are the process, the clock and the network.

Abstractions: a temperature is a small integer; the two heater clamps, their
gains and biases are not modelled; an expression is what evaluating it gives;
reading, publishing and forwarding the levels is one step without effect on
the registers of the PIDs, which may raise on a level beyond float32
(`LevelOverflows`) and so end the poll before the interlock; TC mirrors and level
registers, which no PID uses, are left out.

**Runs.**

| Run | Instance | Shows |
|---|---|---|
| `heater_faults` | one zone, one channel, staleness after one poll, Manual and autotune, link faults, restarts | `TypeOK`, `HeldMeansZeroed`, `BadDataZeroes`, `ReleaseNeedsCommand` |
| `heater_live` | fairness, links that come and go, NaN, setpoint expressions, values beyond float32 among them, two bands | `StaleDataZeroes`, `GoodDataPasses`, `SetpointAsserted` |
| `heater_restart` | start with the PLC out of reach | refutes "the interlock trips immediately on startup" (`core/service.py`) |
| `heater_overflow` | an expression too large for a register | refutes "the surrogate writes override any active pv_expr / sp_expr" (`plc.py`) |

Four temperatures suffice: one below, two within and one above the band (the
second band takes the last one in), the surrogates outside all of them; the
interlock compares temperatures with the band and nothing else.  Ages run to
one poll beyond the limit, where they stay.  Zones and channels are handled by
loops over them; the instances have one of each, and that several do not disturb
each other is what the theorems show, which hold for any number.

**Fairness.**  `WF(PollStep)`: the poll thread is a loop around `poll()` and
every Modbus operation returns or raises within its timeout.  `WF(Tick)`: time
passes.  None is assumed of commands, the LabJack, the PLC or the link; the
liveness property assumes instead that the PLC stays in reach and answers, and
that polls do not keep raising before they judge: an expression or a level
beyond float32 does just that, in every poll, and bad data then zero nothing
(run `heater_overflow`).

## 4. NgeHold

**State.**  Supply: `armed` (OUTP:SEL), `master` (OUTP:GEN), `setting` (voltage
and current limit of a channel as one value), `prot`.  A channel delivers power
when armed with the master on.  Driver: `hold`, `desired`, `applied`, `contact`,
`dirty`, `fresh`, `openIn`, `tries`, `down`, `retryIn`, `delay`, `upFor` are the
attributes of `NgeDriver` with times as polls to go or gone by; `saved` is
`nge_state.json` (no contact in it: no file); `conn` the session.  `pc`, `at`,
`op`, `seen`, `want`, `changed` are the operation under the lock.  `touched`,
`offs`, `tried`, `disturbed` are history.

**Actions.**  A poll or a command goes through `ReadMaster`, `ReadChannel` (per
channel), `OnConnected` or `Change`/`HoldNow`, `RemoveAutoOff`, `WatchOnly` or
`SetSetpoints`, `Decide`, `Disarm`, `Arm`, `SwitchMaster`, `Finish`; a step that
needs the supply waits for nothing, it happens or the operation ends with
`Fails`.  Commands begin between operations because they wait for `_io`.  Between
any two steps somebody may press a key (`PressOutput`, `PressChannel`,
`TurnKnob`), a protection may `Trip`, the mains or the cable may fail
(`PowerCut`, `UsbLost`, which can leave half a setting), the process may `Crash`;
`Stop` saves first.

Abstractions: the supply is `nge_sim.py` without over-voltage protection, linked
fuses and SCPI; the queries about one channel are one step; a trip's latch is only
a text for the operator, since switching on clears it; wrong serial numbers,
unparsable state files and internal errors other than link errors are left out;
times are measured in polls and the wall clock does not jump.

**Runs.**

| Run | Instance | Shows |
|---|---|---|
| `nge_hold` | two channels, one setting, restarts, failing saves, three commands or disturbances at any point | `TypeOK`, `NothingUnasked`, `OffStaysOff`, `RetriesSpaced` |
| `nge_live` | one channel, three settings of which the supply caps one, both protections with any number of trips, two commands or disturbances, fairness | `SetpointsFirst`, `NoIdleWrites`, `HoldRestores` |
| `nge_off` | one channel | refutes "While the supply is unreachable, off is remembered" (`src/README.md`) |

`MaxEvents` bounds commands, key presses, outages and restarts together.  All
states of the supply are initial, so an event is one that happens on top of
whatever happened before; the hazards listed need at most two of them (a key
pressed and a command, an outage and a command), and `HoldRestores` needs them to
stop.  Two channels are enough for one to wake the other.

**Fairness.**  `WF(OpStep)`: an operation in progress goes on and polls begin.
`WF(Tick)`: time passes.  `HoldRestores` assumes that from some time on the
process is alive, hold is on, the supply is in reach and the driver has not given
up on a channel's protections.  The last is a result of the model: `tries` also
counts attempts that were overtaken by a hand at the panel, and after three of
them the driver leaves the fuse on until the link is opened anew.

## 5. TurboHold

**State.**  Pumps: `wiring` (which is on which port), `word` (what the bus told it
last), `heard` (ticks since), `keeps` (parameter 182 is 0).  Driver: `mode`, `held`,
`contact`, `conn`, `live`, `control`, `strangers`, `scanIn`, `sinceSave`, `gate` are the
attributes of `TurbovacDriver` and its pumps' slots, `saved` is
`turbovac_state.json`; `pinned` and `keep` are the entries of `config.yaml`.  `pc`,
`at`, `port`, `kept` are the operation under the lock.  `order`, `unmet`, `quiet` are
history: the order in force for a pump, whether it was given over a dead link,
and how long ago it was given or heard.

**Actions.**  A poll goes through `Probe` (a port of an unknown pump), `Match`,
`Open`, `Ask` (the serial number, once more), `Resume`, `Tell`, `Sync` (parameter 182),
`Read`, `EndPoll`; a command is `SetMode`, the telegram, and `Sync`; every exchange may
lose its reply (`OpenFails`, `PollFails`), and between two of them a cable is
pulled or plugged elsewhere, a supply is cycled, or the process dies.

**Refinement.**  `OrdersObeyed` is `PumpCommand!Spec` under `driven <- word`: through
swapped cables, lost replies, crashes and another `config.yaml` a pump is driven
only as the order in force for that very pump says, and an order that was given
up is never taken up again.

**Runs.**  `turbo`: one entry of `config.yaml` of any content, two pumps and two
ports, so that a pump can be mistaken for the other one; four events.  Times in
ticks of 10 s: patience 1, `resume_max_s` 2 (12 in the code; the properties compare
ages with it and nothing else).  `turbo_late` refutes "Nothing should start or stop
later because of a click made while there was no pump to obey it"
(`turbovac.py:1244`).

**Fairness.**  `WF(Operation)`, `WF(Tick)`, `WF(Start)`: exchanges return or time out,
time passes, systemd starts the service.  `ReleasedLetsGo` assumes the pump in
reach of its entry.

**Assumed.**  `allow_control` is true, the state file can be written, the wall clock
does not go back, a pump accepts the write of parameter 182.

## 6. Setpoints

**State.**  `bus` is the broker.  `StateStore`: `entry` and `age` per input, `kept`
(what the broker retains of them) and the snapshot; `Trackers`: the table, the copy
an evaluation works through (`round`), the snapshot it uses, the value it has
published and not yet noted as `last_sent` (`writing`); `Sequencer`: items,
`running`, `abort`, and the runner threads with their own program counter;
`Gradient`: mode, base, offsets and absolute setpoints; `reg` are the PLC's
registers, `expr` what evaluating each zone's expression may give, `retained` the
status of each zone the broker keeps.

**Actions.**  One per callback, in the order the client's thread calls them for a
message, and one per iteration of each thread's loop; within an evaluation each
tracker is a step, since the lock is not held from one to the next, and one that
writes is two: the value is published, then noted.  A poll is one step here, in
the code's order: it reports the zones, then writes to each what its expression
gives, or the interlock's surrogate (`HeaterInterlock` tells its operations apart;
a trip counts as an event).  `Restart` ends the process at any point: tables come
back from their files, the broker keeps what is retained, and hands it to the
store that was started, which takes it for a reading of that moment (`ReadsAgain`;
`store.py:252-274`).

**Run.**  `setpoints`: two zones, one tracker of an operator and the sequencer's own,
programs of two items of every kind.  Two inputs: the process value of a zone, with
a period and retained, which may move once by more than the deadband; and the value
of its expression, retained and without a period, so always fresh (`store.py:310`); and
a state derived from both.  Any two commands, trips or restarts.  10.4 million
states.  At most two messages are under way (`MaxBus`): who would send a third waits,
as with a client that publishes faster than it is served.  A second ends when its
messages are delivered and its work is done, so a callback slower than a second is
not covered.

What the properties do not say, since the code does not do it:

- `MirrorsPLC` speaks of the time from the first report after the last change on.  A
  poll writes after it reports, so while an expression or a trip gives a register
  another value in every poll, base and offsets are a poll behind.
- `NoOldReadings` counts from when this process received a reading.  A retained
  status counts from the restart, and an input without a period has no age.
- `Follows` excepts a tracker that was given another target (`Retargeted`): it
  inherits `last_sent` (`trackers.py:202`) and leaves the new target alone until its
  value moves by more than the deadband, although `src/README.md:126` says that the
  target is written on every tick.
- `RunOnTime` counts from the moment a run begins: its clock, `ranFor`, restarts then,
  so a thread that has been created and has not taken its first step is left out.
  Jumps of the wall clock are not modelled, and the instance's sweep holds for no
  time at its points; how many points a sweep has, and that each is waited for once,
  rests on the theorems `SweepAsLooped`, `RunsOnTime` and `RunsToTheEnd`.

**Assumed.**  The broker stays up; files can be written; the PLC answers.  Operators
wait for the status before they start a second run (`Eager = FALSE`): with two
starts in a row two runners can pass `SequencerController`'s test, and
`StepOwnsTrackers` does not hold.

## 7. Valves

**State.**  `PlcValves`: the ladder's command registers and relays, the gate, the
statuses retained, in which a field whose read was answered with an error is missing
(`Unread`); `Autovalve`: level, state, automatic flag and start of the fill per vessel,
what is left of a callback (`call`), what the watchdog has found and not yet done
(`watch`), and the vessels whose alert `fill_timeout` the broker keeps (`alarms`);
`Interlocks`: ages and PID health, rules held, alerts raised (by this process) and
retained (by any).

**Actions.**  Commands and readings as they are delivered; a callback of the
autovalve is up to four steps: the change, the look of `_evaluate`, the change of
`_set_valve`, each under the lock, and the publication outside it.  The poll's readback,
register by register, each followed by its publication; a read may be answered with
an error or raise, which ends the readback (an event).  The autovalve's watchdog in
its four stages: judge under the lock, force, tell, alert.  The alert loop rule by rule,
each by the health of that moment, then zone by zone.  The readback, the watchdog and
the alert loop share nothing, so they are taken one after the other, each interleaved
with the callbacks.  `Scan` is the ladder.

**Run.**  `valves`: one vessel, one normally open and one normally closed gas valve,
one thermometer, one zone, three levels (below, between, above the thresholds),
a fill time of one watchdog period, three events.  13.3 million states.  A tick is
one period of both watchdogs (10 s and 15 s in the code), within which all that
was sent is delivered.

What the properties do not say, since the code does not do it:

- `FillEnds` and `AutofillObeyed` speak of the vessels in `known`: those that were shut
  when the process started or have been commanded since, and whose last command was
  written.  A valve that is open at a start or restart is unknown to the controller:
  `VesselState` says it is shut (`autovalve.py:63-98`) and no status of it is subscribed
  to.  Nothing times it and nothing closes it at any level until somebody commands it,
  although the docstring promises that of any valve that has been open for longer than
  `fill_timeout_s` (`autovalve.py:17-19`).
- `ShownIsTrue` speaks of the end of a poll in which every read was answered and nothing
  changed.  A status that was overtaken by a callback's publication stays wrong until
  such a poll.
- `AlertsTell` speaks of channels.  The code never clears a zone's alert; and once its
  thread has died (below) the list of rules is no longer published.

**Seen on the way**, without a run of their own: the autovalve controller
republishes a reading on the topic it subscribes to, so readings go round for
ever and a silent level board is not reported while it is enabled (it is not, in
`config.yaml`); the rule `fill_while_level_unknown` of the comment in
`interlocks.py:14` is not in the code; autofill that is switched on before a first
reading opens the valve; a fill the watchdog ended is begun again by the next low
reading; the alert thread dies if a zone leaves saturation between its test and
its report.

## 8. Service

**State.**  `ServiceUnit`: systemd's `unit`, `queued`, `delay`, `starts`, `window`; the
process's `main` and poll `thread`s, `age` (`seconds_since_poll_ok`) and `pubAge`
(`seconds_since_publish_ok`); the `broker` and the `device`s.  `Diag`: `diag` and `ring`
are `_diag`, with a session nothing closes any more (`leaked`) and a poll thread that
outlived its join (`late`); `req` is how far a request has come.  `StatusPanel`: the ssh
connection `conn`, the `poll` that holds the lock, the `result` on its way to the window.
`blocked`, `short`, `seen`, `excused`, `taken` are history.

**Actions.**  One per step of `run`, per poll, per heartbeat; one per line written to
or read from ssh; one per call in `diag_start` and the teardown, with what may become
of it:

| Call | May |
|---|---|
| `systemctl stop` | be refused, raise, time out while the unit stops, or be cancelled by an operator's start |
| `openS`, buffers, thread | fail before the session is open; or after it, which leaves it open and starts the service (`OpenFails`) |
| `join` | time out, the thread going on until its reading returns; or raise, for a thread never started, which ends the teardown there (`JoinRaises`) |
| `ljm.close` | fail, which is swallowed and leaves the session open (`CloseFails`) |
| `systemctl reset-failed` | raise, done or not, which ends the teardown before the start (`ResetRaises`) |
| `systemctl start` | fail or time out, which nobody looks at (`StartFails`) |

Steps of the status poll that nobody else can see are taken at once (`PanelBusy`).
`UnitStart` and its like are systemd, modelled from the unit file and how the code
calls it: a start while a restart is pending waits for it, `reset-failed` forgets the
starts counted.  A process that was told to stop joins its threads (`ending`) before it
exits, or is killed when that takes longer than systemd's stop timeout; requests, the
operator and the panel go on meanwhile, but no tick passes while a process starts or
ends, so the joins take no part of the times.

**Run.**  `service`: two drivers, so that one can be stuck while the other polls; the
times in the ratio of the code: 60 s watchdog, 60 s `RestartSec`, 5 starts in 600 s
are here 1, 1, and 2 starts in 4 ticks.  Five times the shortest life and pause of
a process that a watchdog ends is not less than the interval, which is all
`LimitNeedsShortRuns` needs.  Three events: a request to start and one to stop a
diagnostic and one thing that goes wrong.  A ring of two cells wraps round, and a page
of one point thins it.  7.9 million states.

What the properties do not say:

- `OneSession` is about the session `_diag` knows.  One that `OpenFails` or `CloseFails` left
  open stays open beside the service that is started (`app.py:289-293, 365-412`); and an
  operator may start the service during a diagnostic.
- `ServiceBack` excepts, besides an operator's stop and a web panel that ends in a
  diagnostic, the teardown that does not get as far as a start that works: `join` or
  `reset-failed` raised, or `start` failed (`app.py:284-298, 405-408`).  The service then stays
  stopped.
- `DataInOrder` is about the page: the last samples, as many as are within the window
  (any number of them in the model), and each step-th of these.  Since the step is
  rounded down, up to about twice `display_points` are shown, which the docstring calls
  the maximum.  The histograms are made of the whole window.
- `StuckGone` takes a broker that takes no publication as one for which `publish` returns an
  error; paho may queue a message with success until its keepalive is over, which adds
  to the time.

**Seen on the way**: the unit file's comment says that after about ten minutes of
futile retries the unit is failed.  What a watchdog ends never reaches that limit, its
cycles are too long for it.  And `StartLimitIntervalSec` stands in `[Service]`, where
systemd does not read it: the interval in force is the default of 10 s, which with
`RestartSec=60` no automatic restart reaches, not even when the broker refuses
connections.  `LimitNeedsShortRuns` is about any interval; the run has the one meant,
which is the harder case.  The handler registered with `atexit` (`app.py:301`) is not
run when systemd stops the panel.  Two requests at once pass the check at `app.py:324`;
the model has one request at a time.

## 9. Proofs

`HeaterInterlockProofs` proves, for any number of zones and channels, any
staleness limit, bands, readings and expressions, and with every fault switched
on or off:

| Theorem | Property |
|---|---|
| `TypeCorrect` | `TypeOK` |
| `HeldSafe` | `HeldMeansZeroed` |
| `ReleaseAsked` | `ReleaseNeedsCommand` |
| `BadDataSafe` | `BadDataZeroes` |
| `GoodDataSafe` | `GoodDataPasses` |
| `SetpointSafe` | `SetpointAsserted` |

Assumed are only the named assumptions of the module: surrogates beyond every
plausible temperature, NaN and "no reading" not numbers, inputs within their
sets.  `TypeOK` is inductive as it stands.  The others are not: that a zone stays
zeroed needs to know of the legs already written in the poll under way
(`LegsInv`), that a setpoint leaves the surrogate only when asked needs to know
where expressions come from (`AskedInv`), and that bad data zero the zones needs
the chain `JudgeInv` (what the poll has passed is judged by what is still true),
`ZonesInv` (zones the interlock is done with are held or commanded) and
`VerdictInv` (the verdict stands as long as the data do).  The converse, that good
data pass, needs `GoodInv` with `ReasonInv`: what a poll can have found bad by the
operation it is at, and the lemma `GoodJudged` that turns good data into a good
verdict.  `SetpointSafe` rests on `WrittenInv`: a numeric setpoint of a zone the
poll has passed stays written until the legs are.  Each is proved inductive
relative to the ones before it, one step per action.

`NgeHoldProofs` proves, for any number of channels, any settings and any way the
supply answers them, any protections, times, and number of events:

| Theorem | Property | Rests on |
|---|---|---|
| `TypeCorrect` | `TypeOK` | `OpInv`: an operation has a session, and a session that is not fresh has a target for every channel |
| `OnlyAsked` | `NothingUnasked` | `WantInv`, `ArmInv`: what is armed is wanted, as far as disarmed |
| `SetBeforeOn` | `SetpointsFirst` | `AppliedInv`, `ReadInv`, `SetInv`: an answer is the answer to its request, what was read is still there, what was to be set is set |
| `OffIsKept` | `OffStaysOff` | `KeptInv`: a kept OFF is in the file and, under hold, in the targets; and `OnlyAsked` |
| `NotHammered` | `RetriesSpaced` | `SeenInv`, `DueInv`, `SpacedInv`: a retry is of a drop-out that was seen and is still there, and is not due until the last one is `RETRY_MIN_S` old |
| `NothingRewritten` | `NoIdleWrites` | `AgreedInv`, `PlacedInv`: after a complete poll the supply has the settings it answered with and the switches wanted, but for channels noted as dropping out; `QuietInv`, `ShownInv`: until something happens only polls run, and what they read is so |

All of them need to know who else acts: `touched` names the channels that panel,
mains or protections changed since the operation began, and each invariant
speaks of the others; `disturbed`, for `NothingRewritten`, says when anything
happened last.  `OnlySwitches` is the step they share: only the last two
writes of `set_outputs` make a channel deliver power.  Assumed are the named
assumptions of `NgeHold`: a setting the supply holds is answered by itself, and
`RETRY_MIN_S` is at most `RETRY_MAX_S` and `STABLE_S` (2 s, 60 s, 60 s in the code).
The last is needed: with a shorter `STABLE_S` the back-off would be forgotten
before it is over.

`ServiceProofs` proves, for any drivers, times, hosts and number of events:

| Theorem | Property | Rests on |
|---|---|---|
| `SessionAlone` | `OneSession` | `UnitInv` (a process only while the unit is active or stopping), `DiagInv` (when `_diag` has a handle), `SessionInv`: from the moment the stop has returned until the handle is closed the unit sleeps, unless an operator starts it; sessions the code leaves open are not meant |
| `ServiceReturns` | `ServiceBack` | `UpInv`: outside a request and a diagnostic it is up, coming, or given up, unless `excused` says who stopped it or which call of the teardown failed |
| `WatchdogsBite` | `StuckGone` | `StampInv`, `CheckedInv`: a heartbeat that let the process go on saw every stamp within the limit; `BlockedInv`: what is blocked has been no longer than its stamp is old |
| `ShownIsSo` | `ShownWasSo` | `PanelInv`: a poll that waits has one query under way, on a connection to its host, whose answer was so at some moment since |
| `LastSamples` | `DataInOrder` | `RingInv`: which sample each place of the ring holds, however often it has turned, whichever thread put it there; the window and the thinning are the same of both |
| `StartedForEver` | `LimitNeedsShortRuns` | `LimitInv`: as long as no run was short, the time since the first start that counts pays for all that count |
| `TypeCorrect` | `TypeOK` | `FieldInv` and the above |

Each is inductive with those before it; the lemmas `Starts`, `Stops` and `Runs` say
what systemd and the process do to the unit, one step per action, and `RunDog` and
`TickDog` what they do to the stamps.  Assumed are that the times are positive,
that no driver has the name of the main thread, that the ring has a place, and
that starts no run of which was short fit the limit: `Burst` times (`Watchdog` +
`RestartSec`) is at least `Interval` (5 times 120 s and 600 s in the unit file).

`ValvesProofs` proves, for any vessels, gas valves, commands, levels, faults and
number of messages under way:

| Theorem | Property | Rests on |
|---|---|---|
| `GateHolds` | `OnlyAfterEnable` | `GrantInv` |
| `FillsEnd` | `FillEnds` | `TimesInv`: for a vessel in `known`, where nothing is pending (no word under way, none to be said by a callback or the watchdog), controller and register agree on a fill and the controller has timed it for as long as it has lasted; a vessel that was judged is within its time |
| `FillsObey` | `AutofillObeyed` | `TimesInv`, `SettledInv`: what the level that came last made the controller want, once no callback has still to look at it; what a callback is about to do is still wanted |
| `StatusTrue` | `ShownIsTrue` | `PollInv`: what the poll has read and published by the operation it is at, as long as nothing changed and every read was answered |
| `AlertsTrue` | `AlertsTell` | `AlertInv`: the rules of channels that are active are those found when each was last looked at, apart from those of earlier processes; what the round under way has found is these but for the rules it has still to look at |
| `TypeCorrect` | `TypeOK` | all of these, `ClockInv`, and `RefusedInv`: commands that were refused or may be are no more than were sent |

`OnlyAfterEnable` speaks of a message when it is delivered and of the word on the
gate when it was sent; `GrantInv` says of everything in between that each command
of a gas valve carries the word it will find in force: that of the last gate
message before it in the queue or, when there is none, the gate as it is
(`Follows`, `Agree`).  `Joins` and `Leaves` keep that when a message is sent or
delivered, and the restart keeps it because the gate starts shut and the queue of
the old connection is gone.  Assumed are the form of an operator's command, that
the low level of a vessel is at most the high one, and that "no value" is no
value.

`SetpointsProofs` proves, for any zones, states, derived expressions, trackers,
programs, commands, readings and number of threads and of messages under way:

| Theorem | Property | Rests on |
|---|---|---|
| `TypeCorrect` | `TypeOK` | `TypeInv`: also of snapshots, messages and an evaluation's objects; a runner is at an item and a point of its program |
| `GradientMirrors` | `MirrorsPLC` | `MirrorInv`: unless a register has moved since, the last report under way of each zone, or what the controller holds when there is none, is of what its register holds |
| `ReadingsAreRecent` | `NoOldReadings` | `AgeInv`: no snapshot shows as valid an input with a period that was too old when it was built, and the last one under way is of this tick once the tick's is published |
| `TrackersFollow` | `Follows` | `SnapInv`: in a second the snapshot changes once at most; `DoneInv`: a tracker nobody touched is still to be evaluated, was given another target, or is within the deadband; `WriteInv`: what has been published and not yet noted is what will be noted |
| `StepOwns` | `StepOwnsTrackers` | `RunInv`: one thread runs, and the flag is up from its first step; `OwnInv`: a tracker the step does not want will be gone when the messages have arrived, or its removal is still to be sent |

What several of them say of the messages under way has one form, `Settles`: once
they are delivered, the last of a kind decides, and when there is none it is
already so.  `SettlesStays`, `SettlesNew` and `SettlesLater` keep that when a
message is sent or delivered, whatever the kind; `ToTrackers`, `ToSequencer`,
`ToGradient`, `EvalSends` and `RunnerSends` say what each step does to the bus.
`StepOwns` has two hypotheses, on the operators: they use ids of their own for
their trackers, and wait for a run to begin before they send another.  Without the
second, two threads can run (`sequencer.py:379`).  Assumed are the forms of what
the files hold and the topics carry (`ItemsAssumption`, `InputsAssumption`), that
`DEADBAND` is not negative, and that the markers for "no value" and "never sent"
are no numbers.  What a derived state's expression computes is left open: `Expr` is
any function of the readings that gives a number or fails.

`TurboHoldProofs` proves, for any number of pumps, ports and entries of
`config.yaml`, any times and number of events:

| Theorem | Property | Rests on |
|---|---|---|
| `TypeCorrect` | `TypeOK` | `LinkInv`: no two cables or links meet, and a pinned entry's live link leads to its pump; `HoldInv`: mode, pump held, file and the word on the link agree |
| `Fits` | `WatchdogFits` | `FitInv`: how far parameter 182 and the pump's word have got within an operation |
| `SavedBefore` | `SavedFirst` | `HoldInv`: while the process runs the file holds what the entries hold |
| `ResumesInTime` | `ResumeInTime` | `AwayInv`: a hold is never younger, in memory or on disk, than its pump has been silent; `FreshInv`: a pump under a hold was told in the last poll or is told in this one |
| `SameEntries`, `OneEntry` | `OrdersObeyed` (the refinement of `PumpCommand`), `KeepsOnlyOrders` | `OrdersHeld`, `KeepsOnly`: `OrderInv`, what an entry holds its pump for is the order in force for it |

The layers are conjuncts of one invariant, `DriveInv`; `WordSteps` says what any
step may do to the words the pumps obey and to the orders (a hold is given up, a
pump is told what its entry says, pumps fall back, a command is taken), from
which the action properties and the refinement follow step by step.  Assumed are
the named assumptions of `TurboHold`; that `resume_max_s` is at least one tick is
new among them and needed, since a hold just polled is a tick old.

The refinement needs one thing that is not an assumption on constants: no two
entries may come to hold one pump (`HoldsDiffer`).  With one entry, or as long as
each entry keeps its serial number, they do not.  They can when `config.yaml` is
edited twice: entry A holds a pump ON; the pump is given to entry B and A is left
without one; the operator turns it OFF through B; the pump is given back to A.
`turbovac_state.json` has holds by entry, so A's ON is resumed if it is young
enough, or, with `keep_command`, as long as the pump has kept it.  TLC finds that
behaviour with two entries and six events; `OrdersObeyed` speaks of it only in
the instance with one entry.

`SequencerProofs` proves what needs an induction, over the items of a program and
over the points of a sweep:

| Theorem | Property | Rests on |
|---|---|---|
| `RunsOnTime` | `RunOnTime` | `TimeInv`: a run that has begun has taken no more than `Spent`, the holds of the items and points before this one and what has passed of this one |
| `RunsToTheEnd` | `TakesItsTime`: a run that ends without having been stopped has taken exactly the time its items hold | `FullInv`: until it is stopped a run has taken all of `Spent`; with `RunInv`, since of two runs at once each restarts the clock of the other |
| `SweepAsLooped` | | `GoesWhile`: the loop goes on at the k-th increment as long as k increments are no more than the distance |

`SweepAsLooped` compares the model with the code: `Values(i)` is a closed form, and
`Sweep.values` a loop that appends and adds.  A sequence is what the loop leaves
(`Looped`) exactly when it is `Values(i)`, for any ends and any increment of either
sign but zero; the rounding to six decimals, and the tolerance the loop adds to the
end, are left out of the model.  `RunsToTheEnd` has the second hypothesis of
`StepOwns`; without it TLC finds a run that ends early by the clock.

Induction rests on `ByInduction`: a set that has 0 and the successor of each of its
numbers has them all, since the least one it lacked would have a predecessor in it
(`NatLessThanWellFounded` and `WFMin` of the library give the least one).  With it
`HoldsAdd` shows that the recursive function `HoldsUpTo` exists and obeys its
equation, and `HoldsGrow` that it grows.  `SpentGoes` and `TickSpends` say what a
step of a thread and a tick do to `Spent`; both invariants follow from them.

Model-checked only: liveness (`StaleDataZeroes`, `HoldRestores`, `ReleasedLetsGo`),
which is out of the prover's reach.  Every invariant, every action property and the
refinement that the passing runs check are proved.

## 10. Findings

- A service started while the PLC is out of reach never trips the interlock
  (`heater_restart`): `SensorDriver.start` disables a driver whose first
  `connect()` raises, and nothing retries.
- An expression whose value no float32 register holds ends every poll before the
  interlock runs (`heater_overflow`).
- A turbo pump's ON accepted over a link that is dead but not found out is kept as
  its mode and saved, and starts the pump when it is found again (`turbo_late`).
- An OFF for a heater channel given between the loss of the supply and the
  exchange that finds it out is dropped, and hold switches the channel back on
  when the supply returns (`nge_off`).

## 11. Not modelled, and why

Arithmetic on readings (calibration curves, unit conversion, PID gains), text
(topics, payload formatting, logs, dashboards), pure I/O (USB lookup, serial
readers, the HTTP handlers that pass a command on) and one-shot tools have no
interleaving to check.  The expression language's parser and the schema's are left
out: what an expression gives is an input.  The retained status of the PLC driver's
interlock is display only.  The level registers of the PLC, lost connections in
`core/mqtt.py` and concurrent requests of the web panel could be modelled and are
in the plan.
