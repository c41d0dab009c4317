----------------------------- MODULE ServiceUnit -----------------------------
(***************************************************************************)
(* The slow control service as a process (src/slowcontrol/core/service.py, *)
(* drivers/base.py, core/mqtt.py): its start, the poll threads of its      *)
(* drivers, the heartbeat loop whose two watchdogs end the process, and    *)
(* the systemd unit that starts it again (xsphere-slowcontrol.service).    *)
(* A tick is a heartbeat interval.                                         *)
(***************************************************************************)
EXTENDS Integers, FiniteSets

CONSTANTS
  Drivers,
  Watchdog,      \* watchdog_timeout_s and driver_poll_watchdog_s, in ticks
  RestartSec,    \* the unit's, in ticks
  Interval,      \* of the limit on starts, in ticks: 10 s in force, 600 s meant
  Burst          \* StartLimitBurst

ASSUME TimesAssumption == {Watchdog, RestartSec, Interval, Burst} \subseteq Nat \ {0}
ASSUME NamesAssumption == "main" \notin Drivers      \* "main" is a thread of its own

VARIABLES
  \* systemd
  unit,          \* ActiveState
  queued,        \* a start waits for a stop to end
  delay,         \* ticks until the next automatic restart
  starts,        \* starts counted against the limit
  window,        \* ticks since the first of them
  \* the process
  main,          \* what its main thread is at
  thread,        \* driver -> its poll thread
  age,           \* driver -> seconds_since_poll_ok
  pubAge,        \* seconds_since_publish_ok
  due,           \* threads that have still to run in this tick
  \* what it depends on
  broker,        \* "up", "stuck" (publishes fail) or "down"
  device         \* driver -> "up", "down" or "hangs"

systemd == <<unit, queued, delay, starts, window>>
process == <<main, thread, age, pubAge, due>>
outside == <<broker, device>>

Alive     == main # "none"
Polling(d) == thread[d] \in {"idle", "stuck"}        \* is_polling
Over(n)   == n + 1        \* where a count of ticks stops

UnitInit ==
  /\ unit = "active" /\ queued = FALSE /\ delay = 0      \* at boot
  /\ starts = 1 /\ window = 0
  /\ main = "starting" /\ thread = [d \in Drivers |-> "off"]
  /\ age = [d \in Drivers |-> 0] /\ pubAge = 0 /\ due = {}
  /\ broker = "up" /\ device = [d \in Drivers |-> "up"]

-----------------------------------------------------------------------------
(* systemd.                                                                *)

(* The unit file sets the interval in [Service], where systemd does not    *)
(* read it: its default holds.  The properties are about any interval.     *)
Limited == window <= Interval /\ starts >= Burst
(* A start of the unit, asked for or automatic.                            *)
Launch ==
  IF Limited
  THEN /\ unit' = "failed" /\ UNCHANGED <<starts, window>>
       /\ main' = "none"
  ELSE /\ unit' = "active" /\ main' = "starting"
       /\ starts' = IF window > Interval THEN 1 ELSE starts + 1
       /\ window' = IF window > Interval THEN 0 ELSE window
Launched == Launch /\ queued' = FALSE /\ delay' = 0

(* systemctl start: one that is to be restarted is waited for.             *)
UnitStart ==
  \/ /\ unit \in {"inactive", "failed"} /\ Launched
  \/ /\ unit \notin {"inactive", "failed"} /\ queued' = (unit = "deactivating")
     /\ UNCHANGED <<unit, delay, starts, window, main>>
(* systemctl stop: SIGTERM, which the heartbeat loop looks for.            *)
UnitStop ==
  /\ unit' = CASE unit = "active" -> "deactivating" [] unit = "activating" -> "inactive"
               [] OTHER -> unit
  /\ queued' = FALSE /\ delay' = 0
  /\ UNCHANGED <<starts, window, main>>
UnitRestart ==
  \/ /\ unit \in {"active", "deactivating"}
     /\ unit' = "deactivating" /\ queued' = TRUE
     /\ UNCHANGED <<delay, starts, window, main>>
  \/ unit \notin {"active", "deactivating"} /\ Launched
(* systemctl reset-failed, which forgets the starts.                       *)
UnitForget ==
  /\ unit' = IF unit = "failed" THEN "inactive" ELSE unit
  /\ starts' = 0 /\ window' = Over(Interval)
  /\ UNCHANGED <<queued, delay, main>>

AutoRestart ==
  /\ unit = "activating" /\ delay = 0 /\ Launched
  /\ UNCHANGED <<thread, age, pubAge, due, outside>>

(* The process has ended: with an error, or because it was told to.  The   *)
(* stamps of its threads are gone with them.                               *)
Silent ==
  /\ thread' = [d \in Drivers |-> "off"] /\ due' = {}
  /\ age' = [d \in Drivers |-> 0] /\ pubAge' = 0 /\ UNCHANGED outside
Ended(bad) ==
  /\ Silent
  /\ IF queued THEN Launched
     ELSE /\ main' = "none"
          /\ unit' = IF unit = "active" THEN IF bad THEN "activating" ELSE "inactive"
                     ELSE IF bad THEN "failed" ELSE "inactive"
          /\ delay' = IF bad THEN RestartSec ELSE 0
          /\ UNCHANGED <<queued, starts, window>>

-----------------------------------------------------------------------------
(* The process.                                                            *)

(* run: the connection to the broker, of which a failure is raised, then   *)
(* the drivers, of which a failure to connect is logged, then the loop.    *)
Connects ==
  /\ main = "starting"
  /\ \/ broker = "down" /\ Ended(TRUE)
     \/ /\ broker # "down"
        /\ main' = "drivers" /\ pubAge' = 0
        /\ UNCHANGED <<systemd, thread, age, due, outside>>

(* Mutant: a poll thread starts without a stamp.                           *)
StartDrivers_Unseeded ==
  /\ main = "drivers" /\ main' = "running"
  /\ thread' = [d \in Drivers |-> IF device[d] = "down" THEN "off" ELSE "idle"]
  /\ age' = [d \in Drivers |-> Over(Watchdog)]
  /\ due' = {"main"}
  /\ UNCHANGED <<systemd, pubAge, outside>>
StartDrivers ==
  /\ main = "drivers" /\ main' = "running"
  /\ thread' = [d \in Drivers |-> IF device[d] = "down" THEN "off" ELSE "idle"]
  /\ age' = [d \in Drivers |-> 0]
  /\ due' = {"main"} \cup {d \in Drivers : device[d] # "down"}
  /\ UNCHANGED <<systemd, pubAge, outside>>

Published == pubAge' = IF broker = "up" THEN 0 ELSE pubAge

(* Mutant: the stamp is one of all drivers.                                *)
PollOf_Shared(d) ==
  /\ d \in due /\ thread[d] = "idle" /\ due' = due \ {d}
  /\ \/ /\ device[d] # "hangs"
        /\ age' = [e \in Drivers |-> 0] /\ Published /\ UNCHANGED thread
     \/ device[d] = "down" /\ UNCHANGED <<age, pubAge, thread>>
     \/ /\ device[d] = "hangs"
        /\ thread' = [thread EXCEPT ![d] = "stuck"] /\ UNCHANGED <<age, pubAge>>
  /\ UNCHANGED <<systemd, main, outside>>
(* _loop.  A poll that returns is stamped; one that raises is logged; one  *)
(* that blocks, blocks until the process ends.                             *)
PollOf(d) ==
  /\ d \in due /\ thread[d] = "idle" /\ due' = due \ {d}
  /\ \/ /\ device[d] # "hangs"
        /\ age' = [age EXCEPT ![d] = 0] /\ Published /\ UNCHANGED thread
     \/ device[d] = "down" /\ UNCHANGED <<age, pubAge, thread>>
     \/ /\ device[d] = "hangs"
        /\ thread' = [thread EXCEPT ![d] = "stuck"] /\ UNCHANGED <<age, pubAge>>
  /\ UNCHANGED <<systemd, main, outside>>

(* _heartbeat_loop.  A watchdog ends the process at once; one that was told *)
(* to stop joins its threads first.                                        *)
Ending == main' = "ending" /\ Silent /\ UNCHANGED systemd
Stale(d) == Polling(d) /\ age[d] > Watchdog
Heartbeat ==
  /\ main = "running" /\ "main" \in due
  /\ \/ unit = "deactivating" /\ Ending
     \/ /\ unit = "active"
        /\ (broker # "up" /\ pubAge > Watchdog) \/ \E d \in Drivers : Stale(d)
        /\ Ended(TRUE)
     \/ /\ unit = "active"
        /\ broker = "up" \/ pubAge <= Watchdog
        /\ \A d \in Drivers : ~Stale(d)
        /\ Published /\ due' = due \ {"main"}
        /\ UNCHANGED <<systemd, main, thread, age, outside>>
(* The signal ends the wait between two heartbeats.                        *)
Signalled ==
  /\ main = "running" /\ "main" \notin due /\ unit = "deactivating"
  /\ Ending
(* It ends, or systemd kills it when the joins take longer than the unit's *)
(* stop timeout.                                                           *)
Exits == main = "ending" /\ \E killed \in BOOLEAN : Ended(killed)

UnitStep == \/ AutoRestart \/ Connects \/ StartDrivers \/ Heartbeat \/ Signalled \/ Exits
            \/ \E d \in Drivers : PollOf(d)

UnitTick ==
  /\ due \cap ({"main"} \cup {d \in Drivers : thread[d] = "idle"}) = {}
  /\ main \in {"none", "running"} /\ unit # "deactivating"
  /\ ~(unit = "activating" /\ delay = 0)
  /\ delay' = IF delay > 0 THEN delay - 1 ELSE 0
  /\ window' = IF window > Interval THEN window ELSE window + 1
  /\ age' = [d \in Drivers |-> IF Polling(d) /\ age[d] <= Watchdog THEN age[d] + 1 ELSE age[d]]
  /\ pubAge' = IF Alive /\ pubAge <= Watchdog THEN pubAge + 1 ELSE pubAge
  /\ due' = IF Alive THEN {"main"} \cup {d \in Drivers : Polling(d)} ELSE {}
  /\ UNCHANGED <<unit, queued, starts, main, thread, outside>>

(* The broker, a device or the way to it.                                  *)
Changes ==
  /\ \/ /\ broker' \in {"up", "stuck", "down"} \ {broker} /\ UNCHANGED device
     \/ /\ \E d \in Drivers : device' \in {[device EXCEPT ![d] = s] : s \in {"up", "down", "hangs"} \ {device[d]}}
        /\ UNCHANGED broker
  /\ UNCHANGED <<systemd, process>>
=============================================================================
