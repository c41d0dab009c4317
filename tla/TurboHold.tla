------------------------------ MODULE TurboHold ------------------------------
(***************************************************************************)
(* The turbo pump driver (src/slowcontrol/drivers/turbovac.py) and the     *)
(* pumps it reads and drives (drivers/turbovac_sim.py).                    *)
(*                                                                         *)
(* The poll and the commands run under one lock, so an operation is one    *)
(* sequence of exchanges with the pumps; between any two of them a cable   *)
(* is pulled or moved, a supply is cycled, a reply is lost or the process  *)
(* dies.  A telegram carries the word the pump is told: "on" (0x0401),     *)
(* "off" (0x0400) or "local" (0x0000, a bare read, which tells nothing).   *)
(* Time goes by in ticks of 10 s.  turbovac.allow_control is true.         *)
(***************************************************************************)
EXTENDS Integers, FiniteSets

CONSTANTS
  Pumps,       \* serial numbers
  NoPump,      \* none: an empty port, an empty serial in config.yaml
  NumPorts,    \* USB ports of the Pi
  NumSlots,    \* entries of turbovac.pumps in config.yaml
  Patience,    \* the factory value of parameter 182, in ticks
  ResumeMax,   \* turbovac.resume_max_s
  SaveEvery,   \* SAVE_EVERY_S
  Stranger,    \* STRANGER_S
  Backoff,     \* BACKOFF_S
  MaxEvents    \* bound on the commands and disturbances of a behaviour

Ports == 1 .. NumPorts
Slots == 1 .. NumSlots
Words == {"local", "on", "off"}          \* MODES

ASSUME NamesAssumption ==
  /\ NoPump \notin Pumps /\ IsFiniteSet(Pumps)
  /\ NumPorts \in Nat \ {0} /\ NumSlots \in Nat \ {0}
ASSUME TimesAssumption ==
  /\ {Patience, ResumeMax, SaveEvery, Stranger, Backoff, MaxEvents} \subseteq Nat
  /\ ResumeMax >= 1

NoPort  == 0
NoHold  == [mode |-> "local", pump |-> NoPump, age |-> 0]
Unknown == [pump |-> NoPump, left |-> 0]

VARIABLES
  \* the pumps and their cables
  wiring,     \* the pump on each port
  word,       \* what the bus told each pump last, "local" if it let go of it
  heard,      \* ticks since it heard that
  keeps,      \* parameter 182 is 0: it never lets go
  \* config.yaml
  pinned,     \* the serial number of each entry
  keep,       \* its keep_command
  \* the driver
  alive, gate,                 \* does the process run; _control_enabled
  mode, held, contact,         \* mode, held_serial, ticks since last_contact
  conn, live, control,         \* the port of tv, does it still work, tv.control
  strangers,                   \* _strangers
  scanIn, sinceSave,           \* ticks until _next_scan, since _last_save
  due,                         \* a poll interval has passed since the last poll
  saved,                       \* turbovac_state.json
  \* the operation under way
  pc, at, port, kept,
  \* history
  order,      \* the order in force for each pump
  unmet,      \* was it given while the link to the pump was dead
  quiet,      \* ticks since it was given or the pump last heard it
  events

cables  == wiring
pumps   == <<word, heard, keeps>>
config  == <<pinned, keep>>
holds   == <<mode, held, contact>>
links   == <<conn, live, control>>
disk    == <<saved, sinceSave>>
finding == <<strangers, scanIn>>
cursor  == <<pc, at, port, kept>>
history == <<order, unmet, quiet>>
vars == <<cables, pumps, config, alive, gate, holds, links, finding, disk, due,
          cursor, history, events>>

-----------------------------------------------------------------------------
(* The pump: what one telegram does to it.                                 *)

Event == /\ events < MaxEvents
         /\ events' = events + 1

On(q)   == wiring[q]                      \* whoever is on the port
Pump(s) == On(conn[s])                    \* ... behind a link that is live

(* exchange: a word other than "local" takes effect and starts the pump's  *)
(* patience afresh; a bare read does neither.                              *)
Hears(p, w) ==
  IF w = "local" THEN UNCHANGED <<word, heard, quiet>>
  ELSE /\ word' = [word EXCEPT ![p] = w]
       /\ heard' = [heard EXCEPT ![p] = 0]
       /\ quiet' = [quiet EXCEPT ![p] = 0]

(* settle: parameter 182 after it last heard a word, the pump lets go.     *)
LetsGo(p, h) == ~keeps[p] /\ h > Patience

Keeps(p, b) == keeps' = [keeps EXCEPT ![p] = b]

-----------------------------------------------------------------------------
(* The driver's helpers.                                                   *)

(* _save_state.                                                            *)
Save(m, h, c) ==
  /\ sinceSave' = 0
  /\ saved' = [s \in Slots |-> IF m[s] = "local" THEN NoHold
                               ELSE [mode |-> m[s], pump |-> h[s], age |-> c[s]]]

(* _drop: the link goes, the mode stays.                                   *)
Close(s) == /\ conn' = [conn EXCEPT ![s] = NoPort]
            /\ live' = [live EXCEPT ![s] = FALSE]
            /\ control' = [control EXCEPT ![s] = "local"]

Unbound(s)  == conn[s] = NoPort
Taken       == {conn[s] : s \in Slots}
PinnedSet   == {pinned[s] : s \in Slots} \ {NoPump}

(* _watchdog_wanted: is the pump to keep its last command.  An entry       *)
(* without keep_command is never written to.                               *)
Wanted_Always(s) == TRUE                 \* mutant: set and never taken back
Wanted(s) == mode[s] # "local"

(* What follows once the exchanges with slot s are over.                   *)
Done(s) ==
  IF pc \in {"open", "ask", "tell", "bindSync"}
  THEN /\ pc' = IF pinned[s] = NoPump THEN "read" ELSE "match"
       /\ at' = IF pinned[s] = NoPump THEN 1 ELSE s + 1
  ELSE IF pc \in {"read", "slowSync"} THEN pc' = "read" /\ at' = s + 1
  ELSE pc' = "idle" /\ at' = 1

Binding == pc \in {"open", "ask", "tell", "bindSync"}
Forget(q) == strangers' = [strangers EXCEPT ![q] = Unknown]

(* A telegram that is not answered: the link is dead, or telegram or reply *)
(* got lost.  The pump may have heard it, and the write that follows it.   *)
LinkError ==
  /\ pc \in {"ask", "tell", "bindSync", "read", "slowSync", "told", "release", "holdSync"}
  /\ (pc = "read" => at \in Slots /\ ~Unbound(at))
  /\ IF live[at]
     THEN /\ Event
          /\ \/ Hears(Pump(at), control[at]) /\ UNCHANGED keeps
             \/ /\ pc \in {"bindSync", "slowSync", "release", "holdSync"} /\ keep[at]
                /\ Hears(Pump(at), control[at]) /\ Keeps(Pump(at), Wanted(at))
             \/ UNCHANGED <<pumps, quiet>>
     ELSE UNCHANGED <<pumps, quiet, events>>
  /\ Close(at) /\ Done(at)
  /\ IF Binding THEN Forget(port) ELSE UNCHANGED strangers
  /\ UNCHANGED <<cables, config, alive, gate, holds, scanIn, disk, due, port, kept, order,
                 unmet>>

-----------------------------------------------------------------------------
(* poll.                                                                   *)

Poll ==
  /\ alive /\ pc = "idle" /\ due
  /\ due' = FALSE
  /\ pc' = IF scanIn = 0 /\ \E s \in Slots : Unbound(s) THEN "scan" ELSE "read"
  /\ at' = 1 /\ port' = 1
  /\ UNCHANGED <<cables, pumps, config, alive, gate, holds, links, finding, disk, kept,
                 history, events>>

(* _scan, the ports one after the other: a pump on a free port is asked    *)
(* for its serial number unless it is known as a stranger.                 *)
Probe ==
  /\ pc = "scan" /\ port \in Ports
  /\ port' = port + 1
  /\ LET known == strangers[port].left > 0 /\ On(port) # NoPump /\ port \notin Taken
     IN \/ known /\ UNCHANGED <<strangers, events>>
        \/ /\ ~known /\ UNCHANGED events
           /\ strangers' = [strangers EXCEPT ![port] =
                IF On(port) = NoPump \/ port \in Taken THEN Unknown
                ELSE [pump |-> On(port), left |-> Stranger]]
        \/ ~known /\ On(port) # NoPump /\ port \notin Taken /\ Event /\ Forget(port)
  /\ UNCHANGED <<cables, pumps, config, alive, gate, holds, links, scanIn, disk, due,
                 pc, at, kept, history>>

Probed ==
  /\ pc = "scan" /\ port \notin Ports
  /\ pc' = "match" /\ at' = 1
  /\ UNCHANGED <<cables, pumps, config, alive, gate, holds, links, finding, disk, due,
                 port, kept, history, events>>

(* A pinned entry takes the port that reports its serial number; the one   *)
(* entry that is not pinned takes the one port nobody is pinned to.        *)
Reports(s) == {q \in Ports \ Taken : pinned[s] # NoPump /\ strangers[q].pump = pinned[s]}
Loose == {s \in Slots : Unbound(s) /\ pinned[s] = NoPump}
Free  == {q \in Ports \ Taken : strangers[q].pump \notin PinnedSet \cup {NoPump}}

Match ==
  /\ pc = "match"
  /\ IF at \in Slots
     THEN IF Unbound(at) /\ Reports(at) # {}
          THEN port' \in {q \in Reports(at) : \A r \in Reports(at) : q <= r}
               /\ pc' = "open" /\ at' = at
          ELSE at' = at + 1 /\ UNCHANGED <<pc, port>>
     ELSE IF Cardinality(Loose) = 1 /\ Cardinality(Free) = 1
          THEN /\ at' \in Loose /\ port' \in Free
               /\ pc' = "open"
          ELSE pc' = "read" /\ at' = 1 /\ UNCHANGED port
  /\ UNCHANGED <<cables, pumps, config, alive, gate, holds, links, finding, disk, due,
                 kept, history, events>>

(* _bind: the serial number is read again on the link that will be used.   *)
IsIts_Trusted(s, p) == TRUE              \* mutant: what _scan read is believed
IsIts(s, p) == IF pinned[s] # NoPump THEN p = pinned[s] ELSE p \notin PinnedSet

Open ==
  /\ pc = "open" /\ On(port) # NoPump
  /\ IF IsIts(at, On(port))
     THEN /\ conn' = [conn EXCEPT ![at] = port]
          /\ live' = [live EXCEPT ![at] = TRUE]
          /\ kept' = FALSE /\ UNCHANGED <<control, strangers, at>>
          /\ pc' = IF mode[at] # "local" /\ keep[at] THEN "ask" ELSE "resume"
     ELSE Done(at) /\ Forget(port) /\ UNCHANGED <<links, kept>>
  /\ UNCHANGED <<cables, pumps, config, alive, gate, holds, scanIn, disk, due, port,
                 history, events>>

OpenFails ==
  /\ pc = "open"
  /\ IF On(port) = NoPump THEN UNCHANGED events ELSE Event
  /\ Done(at) /\ Forget(port)
  /\ UNCHANGED <<cables, pumps, config, alive, gate, holds, links, scanIn, disk, due, port,
                 kept, history>>

(* Does a pump that keeps its command still report the bus in control.     *)
Ask ==
  /\ pc = "ask" /\ live[at]
  /\ kept' = (word[Pump(at)] # "local")
  /\ pc' = "resume"
  /\ UNCHANGED <<cables, pumps, config, alive, gate, holds, links, finding, disk, due,
                 at, port, history, events>>

(* _resume: does the hold from before the link was lost still stand.       *)
Resumes(s, p) == held[s] = p /\ (contact[s] <= ResumeMax \/ kept)

Resume ==
  /\ pc = "resume"
  /\ pc' = "tell"
  /\ IF mode[at] = "local" THEN UNCHANGED <<holds, control, disk, order>>
     ELSE IF Resumes(at, Pump(at))
     THEN control' = [control EXCEPT ![at] = mode[at]] /\ UNCHANGED <<holds, disk, order>>
     ELSE /\ mode' = [mode EXCEPT ![at] = "local"]
          /\ held' = [held EXCEPT ![at] = NoPump]
          /\ order' = [order EXCEPT ![held[at]] = "local"]
          /\ Save(mode', held', contact)
          /\ UNCHANGED <<contact, control>>
  /\ UNCHANGED <<cables, pumps, config, alive, gate, conn, live, finding, due,
                 at, port, kept, unmet, quiet, events>>

(* identify: the first telegram that carries the word.                     *)
Tell_Unsynced ==                         \* mutant: 182 is not looked at
  /\ pc = "tell" /\ live[at]
  /\ Hears(Pump(at), control[at])
  /\ Done(at) /\ Forget(port)
  /\ UNCHANGED <<cables, keeps, config, alive, gate, holds, links, scanIn, disk, due,
                 port, kept, order, unmet, events>>
Tell ==
  /\ pc = "tell" /\ live[at]
  /\ Hears(Pump(at), control[at])
  /\ pc' = "bindSync"
  /\ UNCHANGED <<cables, keeps, config, alive, gate, holds, links, finding, disk, due,
                 at, port, kept, order, unmet, events>>

(* _sync_watchdog, at the end of a bind, with the slow values of a poll,   *)
(* before a release and after an on or off: read 182, write it if it is    *)
(* not as wanted, read it back.                                            *)
Sync ==
  /\ pc \in {"bindSync", "slowSync", "release", "holdSync"} /\ live[at]
  /\ Hears(Pump(at), control[at])
  /\ IF keep[at] THEN Keeps(Pump(at), Wanted(at)) ELSE UNCHANGED keeps
  /\ IF pc = "release"
     THEN /\ control' = [control EXCEPT ![at] = "local"]
          /\ pc' = "told" /\ UNCHANGED at
     ELSE Done(at) /\ UNCHANGED control
  /\ IF Binding THEN Forget(port) ELSE UNCHANGED strangers
  /\ UNCHANGED <<cables, config, alive, gate, holds, conn, live, scanIn, disk, due,
                 port, kept, order, unmet, events>>

(* _read and _measure; the slow values now and then.                       *)
Read ==
  /\ pc = "read" /\ at \in Slots
  /\ IF Unbound(at)
     THEN at' = at + 1 /\ UNCHANGED <<pc, word, heard, contact, quiet>>
     ELSE /\ live[at]
          /\ Hears(Pump(at), control[at])
          /\ IF mode[at] # "local" THEN contact' = [contact EXCEPT ![at] = 0]
             ELSE UNCHANGED contact
          /\ \/ pc' = "slowSync" /\ UNCHANGED at
             \/ Done(at)
  /\ UNCHANGED <<cables, keeps, config, alive, gate, mode, held, links, finding, disk, due,
                 port, kept, order, unmet, events>>

EndPoll ==
  /\ pc = "read" /\ at \notin Slots
  /\ IF sinceSave > SaveEvery /\ \E s \in Slots : mode[s] # "local"
     THEN Save(mode, held, contact) ELSE UNCHANGED disk
  /\ pc' = "idle" /\ at' = 1
  /\ UNCHANGED <<cables, pumps, config, alive, gate, holds, links, finding, due, port, kept,
                 history, events>>

(* A fault of the driver itself ends the poll, with every link dropped.    *)
PollFails ==
  /\ pc \notin {"idle", "told", "release", "holdSync"} /\ Event
  /\ conn' = [s \in Slots |-> NoPort] /\ live' = [s \in Slots |-> FALSE]
  /\ control' = [s \in Slots |-> "local"]
  /\ scanIn' = Backoff
  /\ pc' = "idle" /\ at' = 1
  /\ UNCHANGED <<cables, pumps, config, alive, gate, holds, strangers, disk, due, port, kept,
                 history>>

-----------------------------------------------------------------------------
(* Commands.                                                               *)

Enable ==
  /\ alive /\ pc = "idle"
  /\ gate' = ~gate
  /\ UNCHANGED <<cables, pumps, config, alive, holds, links, finding, disk, due, cursor,
                 history, events>>

(* _on_mode and the first part of _set_mode: the command is taken, and     *)
(* saved, before the pump is told.                                         *)
Accepts_Unpinned(s, m) == gate /\ (m # "local" => ~Unbound(s))  \* mutant: whoever it is
Accepts(s, m) == gate /\ (m # "local" => ~Unbound(s) /\ pinned[s] # NoPump)

Saves_Later(m, h, c) == UNCHANGED disk   \* mutant: saved by the next poll
Saves(m, h, c) == Save(m, h, c)

SetMode(s, m) ==
  /\ alive /\ pc = "idle" /\ Event /\ Accepts(s, m)
  /\ mode' = [mode EXCEPT ![s] = m]
  /\ held' = [held EXCEPT ![s] = IF m = "local" THEN NoPump ELSE pinned[s]]
  /\ contact' = [contact EXCEPT ![s] = 0]
  /\ Saves(mode', held', contact')
  /\ LET p == IF m = "local" THEN held[s] ELSE pinned[s]
     IN IF p = NoPump THEN UNCHANGED history
        ELSE /\ order' = [order EXCEPT ![p] = m]
             /\ unmet' = [unmet EXCEPT ![p] = m # "local" /\ ~live[s]]
             /\ quiet' = [quiet EXCEPT ![p] = 0]
  /\ at' = s
  /\ IF Unbound(s) THEN pc' = "idle" /\ UNCHANGED control
     ELSE IF m = "local" /\ keep[s] THEN pc' = "release" /\ UNCHANGED control
     ELSE pc' = "told" /\ control' = [control EXCEPT ![s] = m]
  /\ UNCHANGED <<cables, pumps, config, alive, gate, conn, live, finding, due, port, kept>>

(* ... and the rest: the pump is told at once.                             *)
Told ==
  /\ pc = "told" /\ live[at]
  /\ Hears(Pump(at), control[at])
  /\ IF mode[at] # "local" /\ keep[at] THEN pc' = "holdSync" ELSE pc' = "idle"
  /\ UNCHANGED <<cables, keeps, config, alive, gate, holds, links, finding, disk, due,
                 at, port, kept, order, unmet, events>>

-----------------------------------------------------------------------------
(* The process.                                                            *)

Down == /\ alive' = FALSE /\ gate' = FALSE /\ due' = FALSE
        /\ mode' = [s \in Slots |-> "local"] /\ held' = [s \in Slots |-> NoPump]
        /\ contact' = [s \in Slots |-> 0]
        /\ conn' = [s \in Slots |-> NoPort] /\ live' = [s \in Slots |-> FALSE]
        /\ control' = [s \in Slots |-> "local"]
        /\ strangers' = [q \in Ports |-> Unknown] /\ scanIn' = 0
        /\ pc' = "idle" /\ at' = 1 /\ port' = 1 /\ kept' = FALSE

Crash == /\ alive /\ Event /\ Down
         /\ UNCHANGED <<cables, pumps, config, disk, history>>

Stop == /\ alive /\ pc = "idle" /\ Event /\ Down
        /\ Save(mode, held, contact)
        /\ UNCHANGED <<cables, pumps, config, history>>

(* __init__ and _load_state, perhaps with another config.yaml.             *)
Distinct(f) == \A s, t \in Slots : f[s] = f[t] /\ s # t => f[s] = NoPump
Load_Now(f) ==                           \* mutant: the time of contact is not kept
  /\ mode' = [s \in Slots |-> f[s].mode]
  /\ held' = [s \in Slots |-> f[s].pump]
  /\ contact' = [s \in Slots |-> 0]
Load(f) ==
  /\ mode' = [s \in Slots |-> f[s].mode]
  /\ held' = [s \in Slots |-> f[s].pump]
  /\ contact' = [s \in Slots |-> f[s].age]

Start ==
  /\ ~alive /\ alive' = TRUE /\ due' = TRUE /\ sinceSave' = 0
  /\ Load(saved)
  /\ UNCHANGED <<cables, pumps, config, gate, links, finding, saved, cursor, history, events>>

Configure ==
  /\ ~alive /\ Event
  /\ \E f \in [Slots -> Pumps \cup {NoPump}] : Distinct(f) /\ pinned' = f
  /\ UNCHANGED <<cables, pumps, keep, alive, gate, holds, links, finding, disk, due,
                 cursor, history>>

-----------------------------------------------------------------------------
(* The world.                                                              *)

DeadOn(q) == [s \in Slots |-> live[s] /\ conn[s] # q]

Unplug(q) ==
  /\ wiring[q] # NoPump /\ Event
  /\ wiring' = [wiring EXCEPT ![q] = NoPump]
  /\ live' = DeadOn(q)
  /\ UNCHANGED <<pumps, config, alive, gate, holds, conn, control, finding, disk, due,
                 cursor, history>>

Plug(p, q) ==
  /\ wiring[q] = NoPump /\ Event
  /\ \A r \in Ports : wiring[r] # p
  /\ wiring' = [wiring EXCEPT ![q] = p]
  /\ UNCHANGED <<pumps, config, alive, gate, holds, links, finding, disk, due, cursor,
                 history>>

(* power_off and power_on: the command is gone, 182 is as saved, and the   *)
(* port has been away.                                                     *)
SupplyCycle(p) ==
  /\ Event
  /\ word' = [word EXCEPT ![p] = "local"] /\ Keeps(p, FALSE)
  /\ live' = [s \in Slots |-> live[s] /\ Pump(s) # p]
  /\ UNCHANGED <<cables, heard, config, alive, gate, holds, conn, control, finding, disk,
                 due, cursor, history>>

Capped(n, max) == IF n < max THEN n + 1 ELSE n
Less(n) == IF n > 0 THEN n - 1 ELSE 0

(* Ten seconds go by, in which a running service polls at least once.      *)
Tick ==
  /\ pc = "idle" /\ ~due
  /\ due' = alive
  /\ heard' = [p \in Pumps |-> Capped(heard[p], Patience + 1)]
  /\ word' = [p \in Pumps |-> IF LetsGo(p, heard'[p]) THEN "local" ELSE word[p]]
  /\ quiet' = [p \in Pumps |-> Capped(quiet[p], ResumeMax + 1)]
  /\ contact' = [s \in Slots |-> IF mode[s] = "local" THEN contact[s]
                                 ELSE Capped(contact[s], ResumeMax + 1)]
  /\ saved' = [s \in Slots |-> IF saved[s].mode = "local" THEN saved[s]
                 ELSE [saved[s] EXCEPT !.age = Capped(@, ResumeMax + 1)]]
  /\ sinceSave' = Capped(sinceSave, SaveEvery + 1)
  /\ strangers' = [q \in Ports |-> [strangers[q] EXCEPT !.left = Less(@)]]
  /\ scanIn' = Less(scanIn)
  /\ UNCHANGED <<cables, keeps, config, alive, gate, mode, held, links, cursor, order,
                 unmet, events>>

-----------------------------------------------------------------------------
Init ==
  /\ wiring \in [Ports -> Pumps \cup {NoPump}]
  /\ \A q, r \in Ports : wiring[q] = wiring[r] /\ q # r => wiring[q] = NoPump
  /\ word = [p \in Pumps |-> "local"]
  /\ heard = [p \in Pumps |-> Patience + 1]
  /\ keeps = [p \in Pumps |-> FALSE]
  /\ pinned \in [Slots -> Pumps \cup {NoPump}] /\ Distinct(pinned)
  /\ keep \in [Slots -> BOOLEAN]
  /\ alive = TRUE /\ gate = FALSE
  /\ mode = [s \in Slots |-> "local"] /\ held = [s \in Slots |-> NoPump]
  /\ contact = [s \in Slots |-> 0]
  /\ conn = [s \in Slots |-> NoPort] /\ live = [s \in Slots |-> FALSE]
  /\ control = [s \in Slots |-> "local"]
  /\ strangers = [q \in Ports |-> Unknown]
  /\ scanIn = 0 /\ sinceSave = 0 /\ due = TRUE
  /\ saved = [s \in Slots |-> NoHold]
  /\ pc = "idle" /\ at = 1 /\ port = 1 /\ kept = FALSE
  /\ order = [p \in Pumps |-> "local"]
  /\ unmet = [p \in Pumps |-> FALSE]
  /\ quiet = [p \in Pumps |-> ResumeMax + 1]
  /\ events = 0

Operation == \/ Poll \/ Probe \/ Probed \/ Match \/ Open \/ OpenFails \/ Ask \/ Resume \/ Tell
             \/ Sync \/ Read \/ EndPoll \/ Told \/ LinkError
Command   == Enable \/ \E s \in Slots, m \in Words : SetMode(s, m)
World     == \/ \E q \in Ports : Unplug(q) \/ \E p \in Pumps : Plug(p, q)
             \/ \E p \in Pumps : SupplyCycle(p)
Process   == Crash \/ Stop \/ Start \/ Configure \/ PollFails

Next == Operation \/ Command \/ World \/ Process \/ Tick

Spec == Init /\ [][Next]_vars

(* The poll loop and an operation go on, time passes, and systemd starts   *)
(* the service again.                                                      *)
FairSpec == Spec /\ WF_vars(Operation) /\ WF_vars(Tick) /\ WF_vars(Start)

-----------------------------------------------------------------------------
(* Properties.                                                             *)

PumpsOK ==
  /\ wiring \in [Ports -> Pumps \cup {NoPump}]
  /\ word \in [Pumps -> Words] /\ heard \in [Pumps -> 0 .. Patience + 1]
  /\ keeps \in [Pumps -> BOOLEAN]
HoldsOK ==
  /\ mode \in [Slots -> Words] /\ held \in [Slots -> Pumps \cup {NoPump}]
  /\ contact \in [Slots -> 0 .. ResumeMax + 1]
  /\ saved \in [Slots -> [mode : Words, pump : Pumps \cup {NoPump},
                          age : 0 .. ResumeMax + 1]]
  /\ sinceSave \in 0 .. SaveEvery + 1
LinksOK ==
  /\ pinned \in [Slots -> Pumps \cup {NoPump}] /\ keep \in [Slots -> BOOLEAN]
  /\ conn \in [Slots -> Ports \cup {NoPort}] /\ live \in [Slots -> BOOLEAN]
  /\ control \in [Slots -> Words]
  /\ strangers \in [Ports -> [pump : Pumps \cup {NoPump}, left : 0 .. Stranger]]
  /\ scanIn \in 0 .. Backoff
CursorOK ==
  /\ alive \in BOOLEAN /\ gate \in BOOLEAN /\ due \in BOOLEAN /\ kept \in BOOLEAN
  /\ pc \in {"idle", "scan", "match", "open", "ask", "resume", "tell", "bindSync",
             "read", "slowSync", "told", "release", "holdSync"}
  /\ at \in 1 .. NumSlots + 1 /\ port \in 1 .. NumPorts + 1
HistoryOK ==
  /\ order \in [Pumps -> Words] /\ unmet \in [Pumps -> BOOLEAN]
  /\ quiet \in [Pumps -> 0 .. ResumeMax + 1] /\ events \in 0 .. MaxEvents
TypeOK ==
  /\ PumpsOK /\ HoldsOK /\ LinksOK /\ CursorOK /\ HistoryOK
  \* a mode other than "local" is always some pump's, a link that works too
  /\ \A s \in Slots : mode[s] # "local" => held[s] # NoPump
  /\ \A s \in Slots : live[s] => conn[s] \in Ports /\ Pump(s) # NoPump

(* Each pump is driven only as the order in force for that pump says,      *)
(* through cable swaps, lost replies, crashes and another config.yaml: the *)
(* driver and its pumps implement PumpCommand.                             *)
Abstract == INSTANCE PumpCommand WITH driven <- word
OrdersObeyed == Abstract!Spec

(* A pump that has let go of its command is driven again only within       *)
(* turbovac.resume_max_s of the command or of the last time it heard it.   *)
ResumeInTime ==
  [][\A p \in Pumps : word[p] = "local" /\ word'[p] # "local" => quiet[p] <= ResumeMax]_vars

(* Between operations a connected keep_command pump has the patience that  *)
(* suits its mode: held it never lets go, released it has its 10 s back.   *)
WatchdogFits ==
  pc = "idle" => \A s \in Slots : live[s] /\ keep[s] => keeps[Pump(s)] = (mode[s] # "local")

(* A pump is told to never let go only while an order for it is in force.  *)
KeepsOnlyOrders ==
  [][\A p \in Pumps : ~keeps[p] /\ keeps'[p] => order[p] # "local"]_vars

(* What a pump is made to do is on disk before it hears of it, so that the *)
(* service restarted after a crash knows whom it holds.                    *)
SavedFirst ==
  [][\A p \in Pumps : word'[p] # word[p] /\ word'[p] # "local"
       => \E s \in Slots : saved[s].mode = word'[p] /\ saved[s].pump = p]_vars

(* A pump whose order is over goes back to its stand once the entry of a   *)
(* keep_command pump can reach it, even one that was told to never let go  *)
(* and was released, or whose hold was given up, while it was away.        *)
Reached(p) == (\E q \in Ports : wiring[q] = p) /\ (\E s \in Slots : pinned[s] = p /\ keep[s])
ReleasedLetsGo ==
  \A p \in Pumps : (order[p] = "local" /\ Reached(p))
                     ~> (word[p] = "local" \/ order[p] # "local" \/ ~Reached(p))

(* _set_mode: "Nothing should start or stop later because of a click made  *)
(* while there was no pump to obey it": a pump does not begin to do what   *)
(* an order says that was given over a dead link.                          *)
NoLateStart ==
  [][\A p \in Pumps : word'[p] # word[p] /\ word'[p] # "local" => ~unmet[p]]_vars
=============================================================================
