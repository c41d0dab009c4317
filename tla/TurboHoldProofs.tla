--------------------------- MODULE TurboHoldProofs ---------------------------
(***************************************************************************)
(* Proofs about TurboHold, for any number of pumps, ports and entries of   *)
(* config.yaml and any times.                                              *)
(*                                                                         *)
(* The inductive invariant, DriveInv, is built in layers: the types; the   *)
(* cables and links (LinkInv); who holds what, in memory and on disk       *)
(* (HoldInv); how parameter 182 and the word of a pump fit its mode        *)
(* (FitInv); that a hold is never older than it is taken for (AwayInv);    *)
(* and that a pump which has not heard its word lately is going to in the  *)
(* poll under way (FreshInv).  The layers are shown one after the other,   *)
(* each with the help of those before it.                                  *)
(***************************************************************************)
EXTENDS TurboHold, TLAPS

(* Elements of the ranges the types are built from.                        *)
LEMMA Basics ==
  /\ NumSlots \in Nat /\ NumPorts \in Nat /\ 1 \in Slots /\ 1 \in Ports
  /\ 1 \in 1 .. NumSlots + 1 /\ 1 \in 1 .. NumPorts + 1
  /\ 0 \in 0 .. ResumeMax + 1 /\ 0 \in 0 .. Backoff
  /\ NoPump \notin Pumps /\ NoPort \notin Ports
  /\ Patience \in Nat /\ ResumeMax \in Nat /\ SaveEvery \in Nat /\ Stranger \in Nat
  /\ Backoff \in Nat /\ MaxEvents \in Nat
BY NamesAssumption, TimesAssumption DEF Slots, Ports, NoPort

(* An operation on one entry has that entry, and one that opens a port has *)
(* that port.                                                              *)
OnEntry == /\ pc \notin {"idle", "scan", "match", "read"} => at \in Slots
           /\ pc = "open" => port \in Ports
Sane == PumpsOK /\ HoldsOK /\ LinksOK /\ CursorOK /\ HistoryOK /\ OnEntry

(* The types hold at first ...                                             *)
LEMMA SaneInit == Init => Sane
<1> SUFFICES ASSUME Init PROVE Sane OBVIOUS
<1> USE Basics DEF Init, Words
<1>1. PumpsOK
  BY DEF PumpsOK
<1>2. HoldsOK
  BY DEF HoldsOK, NoHold
<1>3. LinksOK
  BY DEF LinksOK, Unknown
<1>4. CursorOK /\ OnEntry
  BY DEF CursorOK, OnEntry
<1>5. HistoryOK
  BY DEF HistoryOK
<1> QED BY <1>1, <1>2, <1>3, <1>4, <1>5 DEF Sane

(* The bound on the disturbances.                                          *)
LEMMA EventsGo == ASSUME HistoryOK, Event PROVE events' \in 0 .. MaxEvents
BY Basics DEF HistoryOK, Event

(* A telegram leaves the types of what it changes.                         *)
LEMMA HearsTypes ==
  ASSUME Sane, NEW p, NEW w \in Words, Hears(p, w)
  PROVE  /\ word' \in [Pumps -> Words] /\ heard' \in [Pumps -> 0 .. Patience + 1]
         /\ quiet' \in [Pumps -> 0 .. ResumeMax + 1]
BY Basics DEF Hears, Sane, PumpsOK, HistoryOK

(* What _save_state writes has its type,                                   *)
LEMMA SaveTypes ==
  ASSUME NEW m, NEW h, NEW c, Save(m, h, c), m \in [Slots -> Words],
         h \in [Slots -> Pumps \cup {NoPump}], c \in [Slots -> 0 .. ResumeMax + 1]
  PROVE  /\ saved' \in [Slots -> [mode : Words, pump : Pumps \cup {NoPump},
                                  age : 0 .. ResumeMax + 1]]
         /\ sinceSave' \in 0 .. SaveEvery + 1
BY Basics DEF Save, NoHold, Words

(* so has the point an operation goes on from,                             *)
LEMMA DoneTypes ==
  ASSUME Sane, NEW s \in Slots, Done(s)
  PROVE  /\ pc' \in {"idle", "match", "read"}
         /\ at' \in 1 .. NumSlots + 1
BY Basics DEF Done, Slots

(* a link that is dropped,                                                 *)
LEMMA CloseTypes ==
  ASSUME Sane, NEW s \in Slots, Close(s)
  PROVE  /\ conn' \in [Slots -> Ports \cup {NoPort}] /\ live' \in [Slots -> BOOLEAN]
         /\ control' \in [Slots -> Words]
BY Basics DEF Close, Sane, LinksOK, Words

(* a port that is forgotten,                                               *)
LEMMA ForgetTypes ==
  ASSUME Sane, NEW q, Forget(q)
  PROVE  strangers' \in [Ports -> [pump : Pumps \cup {NoPump}, left : 0 .. Stranger]]
<1>1. Unknown \in [pump : Pumps \cup {NoPump}, left : 0 .. Stranger]
  BY Basics DEF Unknown
<1> QED BY <1>1 DEF Forget, Sane, LinksOK

(* and parameter 182.                                                      *)
LEMMA KeepsTypes ==
  ASSUME Sane, NEW p, NEW b \in BOOLEAN, Keeps(p, b)
  PROVE  keeps' \in [Pumps -> BOOLEAN]
BY DEF Keeps, Sane, PumpsOK

(* ... and every step keeps them: the exchanges of an operation,           *)
LEMMA SaneOperation == ASSUME Sane, Operation PROVE Sane'
<1> USE DEF cables, pumps, config, holds, links, disk, finding, cursor, history
<1> USE Basics DEF Sane, PumpsOK, HoldsOK, LinksOK, CursorOK, HistoryOK, OnEntry
<1>1. CASE Poll BY <1>1 DEF Poll
<1>2. CASE Probe
  <2>1. port' \in 1 .. NumPorts + 1 BY <1>2 DEF Probe, Ports
  <2>2. strangers' \in [Ports -> [pump : Pumps \cup {NoPump}, left : 0 .. Stranger]]
    BY <1>2, ForgetTypes DEF Probe, On, Unknown
  <2>3. events' \in 0 .. MaxEvents BY <1>2, EventsGo DEF Probe
  <2> QED BY <1>2, <2>1, <2>2, <2>3 DEF Probe
<1>3. CASE Probed BY <1>3 DEF Probed
<1>4. CASE Match
  <2>1. /\ at' \in 1 .. NumSlots + 1
        /\ port' \in 1 .. NumPorts + 1
        /\ (pc' = "open" => port' \in Ports /\ at' \in Slots)
    <3>1. CASE at \in Slots
      <4>1. CASE Unbound(at) /\ Reports(at) # {}
        <5>1. port' \in Ports BY <1>4, <3>1, <4>1 DEF Match, Reports
        <5> QED BY <1>4, <3>1, <4>1, <5>1 DEF Match, Ports
      <4>2. CASE ~(Unbound(at) /\ Reports(at) # {})
        BY <1>4, <3>1, <4>2 DEF Match, Slots
      <4> QED BY <4>1, <4>2
    <3>2. CASE at \notin Slots BY <1>4, <3>2 DEF Match, Slots, Ports, Loose, Free
    <3> QED BY <3>1, <3>2
  <2>2. /\ UNCHANGED <<cables, pumps, config, alive, gate, holds, links, finding, disk, due,
                        kept, history, events>>
        /\ pc' \in {"open", "match", "read"}
    BY <1>4 DEF Match
  <2> QED BY <2>1, <2>2
<1>5. CASE Open
  <2>1. at \in Slots /\ port \in Ports BY <1>5 DEF Open
  <2>2. CASE IsIts(at, On(port))
    <3>1. /\ conn' = [conn EXCEPT ![at] = port] /\ live' = [live EXCEPT ![at] = TRUE]
          /\ kept' = FALSE /\ UNCHANGED <<control, strangers, at>>
          /\ pc' \in {"ask", "resume"}
      BY <1>5, <2>2 DEF Open
    <3> QED BY <1>5, <2>1, <3>1 DEF Open
  <2>3. CASE ~IsIts(at, On(port))
    BY <1>5, <2>1, <2>3, DoneTypes, ForgetTypes DEF Open
  <2> QED BY <2>2, <2>3
<1>6. CASE OpenFails
  BY <1>6, DoneTypes, ForgetTypes, EventsGo DEF OpenFails
<1>7. CASE Ask BY <1>7 DEF Ask
<1>8. CASE Resume
  <2>1. mode[at] \in Words /\ at \in Slots BY <1>8 DEF Resume
  <2>2. CASE mode[at] = "local" \/ Resumes(at, Pump(at))
    BY <1>8, <2>1, <2>2 DEF Resume
  <2>3. CASE mode[at] # "local" /\ ~Resumes(at, Pump(at))
    <3>1. mode' \in [Slots -> Words] /\ held' \in [Slots -> Pumps \cup {NoPump}]
          /\ order' \in [Pumps -> Words] /\ Save(mode', held', contact)
      BY <1>8, <2>3 DEF Resume, Words
    <3>2. /\ saved' \in [Slots -> [mode : Words, pump : Pumps \cup {NoPump},
                                      age : 0 .. ResumeMax + 1]]
          /\ sinceSave' \in 0 .. SaveEvery + 1
      BY <3>1, SaveTypes
    <3> QED BY <1>8, <2>3, <3>1, <3>2 DEF Resume
  <2> QED BY <2>2, <2>3
<1>9. CASE Tell
  <2>1. control[at] \in Words BY <1>9 DEF Tell
  <2> QED BY <1>9, <2>1, HearsTypes DEF Tell
<1>10. CASE Sync
  <2>1. at \in Slots /\ control[at] \in Words /\ Wanted(at) \in BOOLEAN
    BY <1>10 DEF Sync, Wanted
  <2>2. /\ Hears(Pump(at), control[at])
        /\ UNCHANGED <<cables, config, alive, gate, holds, conn, live, scanIn, disk, due,
                 port, kept, order, unmet, events>> BY <1>10 DEF Sync
  <2>3. keeps' \in [Pumps -> BOOLEAN] BY <1>10, <2>1, KeepsTypes DEF Sync
  <2>4. control' \in [Slots -> Words] BY <1>10 DEF Sync, Words
  <2>5. strangers' \in [Ports -> [pump : Pumps \cup {NoPump}, left : 0 .. Stranger]]
    BY <1>10, ForgetTypes DEF Sync
  <2>6. /\ pc' \in {"idle", "match", "read", "told"}
        /\ at' \in 1 .. NumSlots + 1
        /\ (pc' = "told" => at' = at)
    BY <1>10, <2>1, DoneTypes DEF Sync
  <2> QED BY <2>1, <2>2, <2>3, <2>4, <2>5, <2>6, HearsTypes
<1>11. CASE Read
  <2>1. at \in Slots /\ control[at] \in Words BY <1>11 DEF Read
  <2>2. CASE Unbound(at) BY <1>11, <2>1, <2>2 DEF Read, Slots
  <2>3. CASE ~Unbound(at)
    <3>1. contact' \in [Slots -> 0 .. ResumeMax + 1] BY <1>11, <2>3 DEF Read
    <3>2. /\ pc' \in {"idle", "match", "read", "slowSync"}
          /\ at' \in 1 .. NumSlots + 1
          /\ (pc' = "slowSync" => at' = at)
      BY <1>11, <2>1, <2>3, DoneTypes DEF Read
    <3> QED BY <1>11, <2>1, <2>3, <3>1, <3>2, HearsTypes DEF Read
  <2> QED BY <2>2, <2>3
<1>12. CASE EndPoll
  BY <1>12, SaveTypes DEF EndPoll
<1>13. CASE Told
  <2>1. control[at] \in Words BY <1>13 DEF Told
  <2> QED BY <1>13, <2>1, HearsTypes DEF Told
<1>14. CASE LinkError
  <2>1. at \in Slots /\ control[at] \in Words /\ Wanted(at) \in BOOLEAN
    BY <1>14 DEF LinkError, Wanted
  <2>2. /\ word' \in [Pumps -> Words]
        /\ heard' \in [Pumps -> 0 .. Patience + 1]
        /\ quiet' \in [Pumps -> 0 .. ResumeMax + 1]
        /\ keeps' \in [Pumps -> BOOLEAN]
    BY <1>14, <2>1, HearsTypes, KeepsTypes DEF LinkError
  <2>3. events' \in 0 .. MaxEvents BY <1>14, EventsGo DEF LinkError
  <2>4. strangers' \in [Ports -> [pump : Pumps \cup {NoPump}, left : 0 .. Stranger]]
    BY <1>14, ForgetTypes DEF LinkError
  <2>5. pc' \in {"idle", "match", "read"} /\ at' \in 1 .. NumSlots + 1
    BY <1>14, <2>1, DoneTypes DEF LinkError
  <2>6. /\ conn' \in [Slots -> Ports \cup {NoPort}]
        /\ live' \in [Slots -> BOOLEAN]
        /\ control' \in [Slots -> Words]
     BY <1>14, <2>1, CloseTypes DEF LinkError
  <2>7. UNCHANGED <<cables, config, alive, gate, holds, scanIn, disk, due, port, kept, order,
                    unmet>>
     BY <1>14 DEF LinkError
  <2> QED BY <2>2, <2>3, <2>4, <2>5, <2>6, <2>7
<1> QED BY <1>1, <1>2, <1>3, <1>4, <1>5, <1>6, <1>7, <1>8, <1>9, <1>10, <1>11, <1>12,
           <1>13, <1>14 DEF Operation

(* the commands,                                                           *)
LEMMA SaneCommand == ASSUME Sane, Command PROVE Sane'
<1> USE DEF cables, pumps, config, holds, links, disk, finding, cursor, history
<1> USE Basics DEF Sane, PumpsOK, HoldsOK, LinksOK, CursorOK, HistoryOK, OnEntry
<1>1. CASE Enable BY <1>1 DEF Enable
<1>2. ASSUME NEW s \in Slots, NEW m \in Words, SetMode(s, m) PROVE Sane'
  <2>1. mode' \in [Slots -> Words] /\ held' \in [Slots -> Pumps \cup {NoPump}]
        /\ contact' \in [Slots -> 0 .. ResumeMax + 1] /\ Save(mode', held', contact')
    BY <1>2 DEF SetMode, Saves
  <2>2. /\ saved' \in [Slots -> [mode : Words, pump : Pumps \cup {NoPump},
                                      age : 0 .. ResumeMax + 1]]
        /\ sinceSave' \in 0 .. SaveEvery + 1
    BY <2>1, SaveTypes
  <2>3. /\ order' \in [Pumps -> Words]
        /\ unmet' \in [Pumps -> BOOLEAN]
        /\ quiet' \in [Pumps -> 0 .. ResumeMax + 1]
    <3> DEFINE p == IF m = "local" THEN held[s] ELSE pinned[s]
    <3>1. CASE p = NoPump BY <1>2, <3>1 DEF SetMode
    <3>2. CASE p # NoPump
      <4>1. /\ order' = [order EXCEPT ![p] = m]
            /\ unmet' = [unmet EXCEPT ![p] = (m # "local" /\ ~live[s])]
            /\ quiet' = [quiet EXCEPT ![p] = 0]
        BY <1>2, <3>2 DEF SetMode
      <4> QED BY <4>1
    <3> QED BY <3>1, <3>2
  <2>4. events' \in 0 .. MaxEvents BY <1>2, EventsGo DEF SetMode
  <2>5. control' \in [Slots -> Words] BY <1>2 DEF SetMode
  <2>6. pc' \in {"idle", "release", "told"} /\ at' \in Slots BY <1>2 DEF SetMode
  <2>7. at' \in 1 .. NumSlots + 1 BY <2>6 DEF Slots
  <2> QED BY <1>2, <2>1, <2>2, <2>3, <2>4, <2>5, <2>6, <2>7 DEF SetMode
<1> QED BY <1>1, <1>2 DEF Command

(* cables and supplies,                                                    *)
LEMMA SaneWorld == ASSUME Sane, World PROVE Sane'
<1> USE DEF cables, pumps, config, holds, links, disk, finding, cursor, history
<1> USE Basics DEF Sane, PumpsOK, HoldsOK, LinksOK, CursorOK, HistoryOK, OnEntry
<1>1. ASSUME NEW q \in Ports, Unplug(q) PROVE Sane'
  BY <1>1, EventsGo DEF Unplug, DeadOn
<1>2. ASSUME NEW q \in Ports, NEW p \in Pumps, Plug(p, q) PROVE Sane'
  BY <1>2, EventsGo DEF Plug
<1>3. ASSUME NEW p \in Pumps, SupplyCycle(p) PROVE Sane'
  BY <1>3, EventsGo, KeepsTypes DEF SupplyCycle, Words
<1> QED BY <1>1, <1>2, <1>3 DEF World

(* what a process that has gone leaves behind,                             *)
LEMMA DownTypes ==
  ASSUME Sane, Down
  PROVE  /\ alive' \in BOOLEAN /\ gate' \in BOOLEAN /\ due' \in BOOLEAN /\ kept' \in BOOLEAN
         /\ pc' = "idle" /\ at' = 1 /\ port' = 1
         /\ mode' \in [Slots -> Words] /\ held' \in [Slots -> Pumps \cup {NoPump}]
         /\ contact' \in [Slots -> 0 .. ResumeMax + 1]
         /\ conn' \in [Slots -> Ports \cup {NoPort}] /\ live' \in [Slots -> BOOLEAN]
         /\ control' \in [Slots -> Words]
         /\ strangers' \in [Ports -> [pump : Pumps \cup {NoPump}, left : 0 .. Stranger]]
         /\ scanIn' \in 0 .. Backoff
<1>1. Unknown \in [pump : Pumps \cup {NoPump}, left : 0 .. Stranger]
  BY Basics DEF Unknown
<1>2. 0 \in 0 .. ResumeMax + 1 /\ 0 \in 0 .. Backoff BY Basics
<1> QED BY <1>1, <1>2 DEF Down, Words

(* the end and the start of the process,                                   *)
LEMMA SaneProcess == ASSUME Sane, Process PROVE Sane'
<1> USE DEF cables, pumps, config, holds, links, disk, finding, cursor, history
<1> USE Basics DEF Sane, PumpsOK, HoldsOK, LinksOK, CursorOK, HistoryOK, OnEntry
<1>1. CASE Crash BY <1>1, DownTypes, EventsGo DEF Crash
<1>2. CASE Stop BY <1>2, DownTypes, EventsGo, SaveTypes DEF Stop
<1>3. CASE Start
  <2>1. mode' \in [Slots -> Words] /\ held' \in [Slots -> Pumps \cup {NoPump}]
        /\ contact' \in [Slots -> 0 .. ResumeMax + 1]
    BY <1>3 DEF Start, Load
  <2> QED BY <1>3, <2>1 DEF Start
<1>4. CASE Configure BY <1>4, EventsGo DEF Configure
<1>5. CASE PollFails BY <1>5, EventsGo DEF PollFails, Words
<1> QED BY <1>1, <1>2, <1>3, <1>4, <1>5 DEF Process

(* and ten seconds going by.                                               *)
LEMMA SaneTick == ASSUME Sane, Tick PROVE Sane'
<1> USE DEF cables, pumps, config, holds, links, disk, finding, cursor, history
<1> USE Basics DEF Sane, PumpsOK, HoldsOK, LinksOK, CursorOK, HistoryOK, OnEntry
<1>1. /\ \A n \in 0 .. Patience + 1 : Capped(n, Patience + 1) \in 0 .. Patience + 1
      /\ \A n \in 0 .. ResumeMax + 1 : Capped(n, ResumeMax + 1) \in 0 .. ResumeMax + 1
      /\ \A n \in 0 .. SaveEvery + 1 : Capped(n, SaveEvery + 1) \in 0 .. SaveEvery + 1
      /\ \A n \in 0 .. Backoff : Less(n) \in 0 .. Backoff
      /\ \A n \in 0 .. Stranger : Less(n) \in 0 .. Stranger
  BY DEF Capped, Less
<1> HIDE DEF Capped, Less
<1>2. heard' \in [Pumps -> 0 .. Patience + 1]
  BY <1>1 DEF Tick
<1>3. word' \in [Pumps -> Words]
  BY DEF Tick, Words
<1>4. quiet' \in [Pumps -> 0 .. ResumeMax + 1]
  BY <1>1 DEF Tick
<1>5. contact' \in [Slots -> 0 .. ResumeMax + 1]
  BY <1>1 DEF Tick
<1>6. sinceSave' \in 0 .. SaveEvery + 1 /\ scanIn' \in 0 .. Backoff
  BY <1>1 DEF Tick
<1>7. saved' \in [Slots -> [mode : Words, pump : Pumps \cup {NoPump}, age : 0 .. ResumeMax + 1]]
  <2>1. \A s \in Slots : Capped(saved[s].age, ResumeMax + 1) \in 0 .. ResumeMax + 1
    BY <1>1
  <2> QED BY <2>1 DEF Tick
<1>8. strangers' \in [Ports -> [pump : Pumps \cup {NoPump}, left : 0 .. Stranger]]
  <2>1. \A q \in Ports : Less(strangers[q].left) \in 0 .. Stranger
    BY <1>1
  <2> QED BY <2>1 DEF Tick
<1> QED BY <1>2, <1>3, <1>4, <1>5, <1>6, <1>7, <1>8 DEF Tick

-----------------------------------------------------------------------------
(* Cables and links.                                                       *)

(* The exchanges with one entry before it is known whether its hold stands, *)
(* and after.                                                              *)
Asking  == {"ask", "resume"}
Telling == {"tell", "bindSync", "told", "release", "holdSync"}
Midway(s) == s = at /\ pc \in Asking \cup Telling
Held(s) == mode[s] # "local"

(* Cables and links: no two of them meet, a pinned entry's live link leads *)
(* to its pump, and a process that is down has none.                       *)
LinkInv ==
  /\ \A q, r \in Ports : wiring[q] = wiring[r] /\ q # r => wiring[q] = NoPump
  /\ \A s, t \in Slots : conn[s] = conn[t] /\ s # t => Unbound(s)
  /\ \A s \in Slots : Unbound(s) => ~live[s] /\ control[s] = "local"
  /\ \A s \in Slots : live[s] => Pump(s) # NoPump /\ IsIts(s, Pump(s))
  /\ pc = "open" => Unbound(at) /\ port \notin Taken
  /\ pc \in Asking \cup Telling \cup {"slowSync"} => ~Unbound(at)
  /\ ~alive => pc = "idle" /\ ~due /\ \A s \in Slots : Unbound(s) /\ ~Held(s)

(* No link is open at first.                                               *)
LEMMA InitLink == Init => LinkInv
BY Basics DEF Init, LinkInv, Unbound, Taken, Held, Asking, Telling

(* A link that is dropped leaves the others alone.                         *)
LEMMA CloseLinks ==
  ASSUME Sane, LinkInv, NEW s \in Slots, Close(s)
  PROVE  /\ Unbound(s)' /\ live'[s] = FALSE /\ control'[s] = "local"
         /\ \A t \in Slots \ {s} :
               conn'[t] = conn[t] /\ live'[t] = live[t] /\ control'[t] = control[t]
BY DEF Close, Sane, LinksOK, Unbound

(* Where an operation goes on after the last exchange with an entry.       *)
LEMMA DonePc ==
  ASSUME NEW s, Done(s)
  PROVE  pc' \in {"idle", "match", "read"}
BY DEF Done

(* The exchanges keep links apart, and let a pinned entry bind only its    *)
(* own pump.                                                               *)
LEMMA LinkOperation == ASSUME Sane, LinkInv, Operation PROVE LinkInv'
<1> USE DEF cables, pumps, config, holds, links, disk, finding, cursor, history
<1> USE Basics DEF LinkInv, Unbound, Pump, On, IsIts, PinnedSet, Taken, Asking, Telling, Held
<1>1. CASE Poll BY <1>1 DEF Poll
<1>2. CASE Probe BY <1>2 DEF Probe
<1>3. CASE Probed BY <1>3 DEF Probed
<1>4. CASE Match
  <2>1. pc' = "open" => Unbound(at') /\ port' \notin Taken
    <3>1. CASE at \in Slots BY <1>4, <3>1 DEF Match, Reports
    <3>2. CASE at \notin Slots BY <1>4, <3>2 DEF Match, Loose, Free
    <3> QED BY <3>1, <3>2
  <2>2. /\ UNCHANGED <<cables, pumps, config, alive, gate, holds, links, finding, disk, due,
                        kept, history, events>>
        /\ pc' \in {"open", "match", "read"} /\ alive
    BY <1>4 DEF Match
  <2> QED BY <2>1, <2>2
<1>5. CASE Open
  <2>1. at \in Slots /\ port \in Ports /\ Unbound(at) /\ port \notin Taken /\ On(port) # NoPump
    BY <1>5 DEF Open, Sane, OnEntry
  <2>2. CASE IsIts(at, On(port))
    <3>1. /\ conn' = [conn EXCEPT ![at] = port] /\ live' = [live EXCEPT ![at] = TRUE]
          /\ at' = at /\ pc' \in {"ask", "resume"}
          /\ UNCHANGED <<wiring, pinned, mode, control, alive, due>>
      BY <1>5, <2>2 DEF Open
    <3>2. conn'[at] = port /\ live'[at] /\ port # NoPort
          /\ \A t \in Slots \ {at} : conn'[t] = conn[t] /\ live'[t] = live[t] /\ conn[t] # port
      BY <2>1, <3>1 DEF Sane, LinksOK
    <3>3. control[at] = "local" /\ alive BY <2>1, <1>5 DEF Open
    <3> QED BY <2>1, <2>2, <3>1, <3>2, <3>3
  <2>3. CASE ~IsIts(at, On(port))
    BY <1>5, <2>1, <2>3, DonePc DEF Open
  <2> QED BY <2>2, <2>3
<1>6. CASE OpenFails BY <1>6, DonePc DEF OpenFails
<1>7. CASE Ask BY <1>7 DEF Ask
<1>8. CASE Resume
  <2>1. /\ UNCHANGED <<wiring, pinned, conn, live, alive, due, at>>
        /\ pc' = "tell"
        /\ pc = "resume"
        /\ \A t \in Slots : t # at => control'[t] = control[t]
    BY <1>8 DEF Resume, Sane, LinksOK
  <2> QED BY <2>1
<1>9. CASE Tell BY <1>9 DEF Tell
<1>10. CASE Sync
  <2>1. /\ UNCHANGED <<wiring, pinned, conn, live, alive, due, mode>>
        /\ (pc' \in {"idle", "match", "read"} \/ (pc' = "told" /\ pc = "release" /\ at' = at))
        /\ \A t \in Slots : control'[t] = control[t] \/ control'[t] = "local"
        /\ pc # "idle"
    <3>1. at \in Slots BY <1>10 DEF Sync, Sane, OnEntry
    <3>2. CASE pc = "release" BY <1>10, <3>1, <3>2 DEF Sync, Sane, LinksOK
    <3>3. CASE pc # "release" BY <1>10, <3>1, <3>3, DonePc DEF Sync
    <3> QED BY <3>2, <3>3
  <2> QED BY <2>1
<1>11. CASE Read
  <2>1. /\ UNCHANGED <<wiring, pinned, conn, live, alive, due, mode, control>>
        /\ (pc' \in {"idle", "match", "read"} \/ (pc' = "slowSync" /\ at' = at /\ ~Unbound(at)))
        /\ pc = "read"
    <3>1. CASE Unbound(at) BY <1>11, <3>1 DEF Read
    <3>2. CASE ~Unbound(at) BY <1>11, <3>2, DonePc DEF Read
    <3> QED BY <3>1, <3>2
  <2> QED BY <2>1
<1>12. CASE EndPoll BY <1>12 DEF EndPoll
<1>13. CASE Told BY <1>13 DEF Told
<1>14. CASE LinkError
  <2>1. at \in Slots /\ Close(at) /\ pc' \in {"idle", "match", "read"}
        /\ UNCHANGED <<wiring, pinned, alive, due, mode>> /\ pc # "idle"
    BY <1>14, DonePc DEF LinkError, Sane, OnEntry
  <2>2. /\ conn'[at] = NoPort /\ live'[at] = FALSE /\ control'[at] = "local"
        /\ \A t \in Slots \ {at} :
              conn'[t] = conn[t] /\ live'[t] = live[t] /\ control'[t] = control[t]
    BY <2>1, CloseLinks
  <2> QED BY <2>1, <2>2
<1> QED BY <1>1, <1>2, <1>3, <1>4, <1>5, <1>6, <1>7, <1>8, <1>9, <1>10, <1>11, <1>12,
           <1>13, <1>14 DEF Operation

(* So do commands, cables, supplies, the process and time.                 *)
LEMMA LinkOther == ASSUME Sane, LinkInv, Command \/ World \/ Process \/ Tick PROVE LinkInv'
<1> USE DEF cables, pumps, config, holds, links, disk, finding, cursor, history
<1> USE Basics DEF LinkInv, Unbound, Pump, On, IsIts, PinnedSet, Taken, Asking, Telling, Held
<1>1. CASE Enable BY <1>1 DEF Enable
<1>2. ASSUME NEW s \in Slots, NEW m \in Words, SetMode(s, m) PROVE LinkInv'
  <2>1. /\ UNCHANGED <<wiring, pinned, conn, live, alive, due>> /\ alive
        /\ at' = s /\ pc' \in {"idle", "release", "told"} /\ (Unbound(s) => pc' = "idle")
        /\ \A t \in Slots : Unbound(t) => control'[t] = control[t]
    BY <1>2 DEF SetMode, Sane, LinksOK
  <2> QED BY <2>1
<1>3. ASSUME NEW q \in Ports, Unplug(q) PROVE LinkInv'
  <2>1. /\ UNCHANGED <<pinned, conn, control, alive, due, pc, at, port, mode>>
        /\ wiring'[q] = NoPump /\ \A r \in Ports : r # q => wiring'[r] = wiring[r]
        /\ \A s \in Slots : live'[s] = (live[s] /\ conn[s] # q)
    BY <1>3 DEF Unplug, DeadOn, Sane, PumpsOK
  <2>2. \A s \in Slots : live'[s] => Pump(s)' = Pump(s) /\ live[s]
    BY <2>1 DEF Sane, LinksOK
  <2> QED BY <2>1, <2>2
<1>4. ASSUME NEW q \in Ports, NEW p \in Pumps, Plug(p, q) PROVE LinkInv'
  <2>1. /\ UNCHANGED <<pinned, conn, live, control, alive, due, pc, at, port, mode>>
        /\ wiring'[q] = p /\ \A r \in Ports : r # q => wiring'[r] = wiring[r]
        /\ \A r \in Ports : wiring[r] # p
        /\ wiring[q] = NoPump
    BY <1>4 DEF Plug, Sane, PumpsOK
  <2>2. \A s \in Slots : live[s] => conn[s] \in Ports /\ conn[s] # q /\ Pump(s)' = Pump(s)
    BY <2>1 DEF Sane, LinksOK
  <2> QED BY <2>1, <2>2
<1>5. ASSUME NEW p \in Pumps, SupplyCycle(p) PROVE LinkInv'
  <2>1. /\ UNCHANGED <<wiring, pinned, conn, control, alive, due, pc, at, port, mode>>
        /\ \A s \in Slots : live'[s] => live[s]
    BY <1>5 DEF SupplyCycle
  <2> QED BY <2>1
<1>6. CASE Crash BY <1>6 DEF Crash, Down
<1>7. CASE Stop BY <1>7 DEF Stop, Down
<1>8. CASE Start BY <1>8 DEF Start
<1>9. CASE Configure BY <1>9 DEF Configure
<1>10. CASE PollFails BY <1>10 DEF PollFails
<1>11. CASE Tick BY <1>11 DEF Tick
<1> QED BY <1>1, <1>2, <1>3, <1>4, <1>5, <1>6, <1>7, <1>8, <1>9, <1>10, <1>11
           DEF Command, World, Process

-----------------------------------------------------------------------------
(* Who holds what.                                                         *)

(* A mode and the pump held go together, in memory and on disk, and while  *)
(* the process runs the two agree; a link that is open carries the word of *)
(* its mode, except while the hold is looked into or a release is under way, *)
(* and leads to the pump that is held.                                     *)
HoldInv ==
  /\ \A s \in Slots : Held(s) <=> held[s] # NoPump
  /\ \A s \in Slots : saved[s].mode # "local" <=> saved[s].pump # NoPump
  /\ alive => \A s \in Slots : saved[s].mode = mode[s] /\ saved[s].pump = held[s]
  /\ \A s \in Slots : ~Unbound(s) =>
       IF s = at /\ pc \in Asking THEN control[s] = "local"
       ELSE (s = at /\ pc = "release") \/ control[s] = mode[s]
  /\ \A s \in Slots : live[s] /\ Held(s) /\ ~(s = at /\ pc \in Asking) => held[s] = Pump(s)
  /\ pc = "release" => keep[at] /\ ~Held(at)
  /\ pc = "holdSync" => keep[at] /\ Held(at)

(* Nothing is held at first.                                               *)
LEMMA InitHold == Init => HoldInv
BY Basics DEF Init, HoldInv, Unbound, Held, Asking, NoHold

(* What _save_state writes.                                                *)
LEMMA SavedIs ==
  ASSUME NEW m, NEW h, NEW c, Save(m, h, c), NEW s \in Slots
  PROVE  /\ saved'[s].mode = m[s]
         /\ saved'[s].pump = IF m[s] = "local" THEN NoPump ELSE h[s]
         /\ saved'[s].age = IF m[s] = "local" THEN 0 ELSE c[s]
<1>1. CASE m[s] = "local" BY <1>1 DEF Save, NoHold
<1>2. CASE m[s] # "local" BY <1>2 DEF Save
<1> QED BY <1>1, <1>2

(* An exchange keeps it; _resume gives a hold up in memory and on disk.    *)
LEMMA HoldOperation == ASSUME Sane, LinkInv, HoldInv, Operation PROVE HoldInv'
<1> USE DEF cables, pumps, config, holds, links, disk, finding, cursor, history
<1> USE Basics DEF HoldInv, Unbound, Pump, On, Asking, Held
<1>1. CASE Poll BY <1>1 DEF Poll
<1>2. CASE Probe BY <1>2 DEF Probe
<1>3. CASE Probed BY <1>3 DEF Probed
<1>4. CASE Match
  <2>1. /\ UNCHANGED <<cables, pumps, config, alive, gate, holds, links, finding, disk, due,
                        kept, history, events>>
        /\ pc' \in {"open", "match", "read"} /\ pc = "match"
    BY <1>4 DEF Match
  <2> QED BY <2>1
<1>5. CASE Open
  <2>1. at \in Slots /\ Unbound(at) /\ pc = "open"
    BY <1>5 DEF Open, Sane, OnEntry, LinkInv
  <2>2. CASE IsIts(at, On(port))
    <3>1. /\ conn' = [conn EXCEPT ![at] = port] /\ live' = [live EXCEPT ![at] = TRUE]
          /\ at' = at /\ pc' \in {"ask", "resume"}
          /\ UNCHANGED <<wiring, pinned, mode, held, saved, keep, control, alive>>
      BY <1>5, <2>2 DEF Open
    <3>2. \A t \in Slots \ {at} : conn'[t] = conn[t] /\ live'[t] = live[t]
      BY <2>1, <3>1 DEF Sane, LinksOK
    <3>3. control[at] = "local" BY <2>1 DEF LinkInv
    <3> QED BY <2>1, <3>1, <3>2, <3>3
  <2>3. CASE ~IsIts(at, On(port))
    BY <1>5, <2>1, <2>3, DonePc DEF Open
  <2> QED BY <2>2, <2>3
<1>6. CASE OpenFails BY <1>6, DonePc DEF OpenFails
<1>7. CASE Ask BY <1>7 DEF Ask
<1>8. CASE Resume
  <2>1. /\ at \in Slots /\ pc = "resume" /\ pc' = "tell" /\ alive
        /\ ~Unbound(at) /\ control[at] = "local"
        /\ UNCHANGED <<wiring, pinned, keep, conn, live, alive, at>>
    BY <1>8 DEF Resume, Sane, OnEntry, LinkInv
  <2>2. CASE mode[at] = "local"
    <3>1. UNCHANGED <<mode, held, saved, control>> BY <1>8, <2>2 DEF Resume
    <3> QED BY <2>1, <2>2, <3>1
  <2>3. CASE mode[at] # "local" /\ Resumes(at, Pump(at))
    <3>1. UNCHANGED <<mode, held, saved>> /\ held[at] = Pump(at)
      BY <1>8, <2>3 DEF Resume, Resumes
    <3>2. control'[at] = mode[at] /\ \A t \in Slots \ {at} : control'[t] = control[t]
      BY <1>8, <2>1, <2>3 DEF Resume, Sane, LinksOK
    <3> QED BY <2>1, <2>3, <3>1, <3>2
  <2>4. CASE mode[at] # "local" /\ ~Resumes(at, Pump(at))
    <3>1. UNCHANGED control /\ Save(mode', held', contact) BY <1>8, <2>4 DEF Resume
    <3>2. /\ mode'[at] = "local" /\ held'[at] = NoPump
          /\ \A t \in Slots \ {at} : mode'[t] = mode[t] /\ held'[t] = held[t]
      BY <1>8, <2>1, <2>4 DEF Resume, Sane, HoldsOK
    <3>3. \A t \in Slots :
             /\ saved'[t].mode = mode'[t]
             /\ saved'[t].pump = IF mode'[t] = "local" THEN NoPump ELSE held'[t]
      BY <3>1, SavedIs
    <3> QED BY <2>1, <3>1, <3>2, <3>3
  <2> QED BY <2>2, <2>3, <2>4
<1>9. CASE Tell BY <1>9 DEF Tell
<1>10. CASE Sync
  <2>1. /\ UNCHANGED <<wiring, pinned, keep, conn, live, alive, mode, held, saved>>
        /\ at \in Slots
    BY <1>10 DEF Sync, Sane, OnEntry
  <2>2. CASE pc = "release"
    <3>1. /\ pc' = "told" /\ at' = at /\ control'[at] = "local"
          /\ \A t \in Slots \ {at} : control'[t] = control[t]
      BY <1>10, <2>1, <2>2 DEF Sync, Sane, LinksOK
    <3> QED BY <2>1, <2>2, <3>1
  <2>3. CASE pc # "release"
    <3>1. /\ pc' \in {"idle", "match", "read"}
          /\ UNCHANGED control
          /\ pc \in {"bindSync", "slowSync", "holdSync"}
      BY <1>10, <2>3, DonePc DEF Sync
    <3> QED BY <2>1, <3>1
  <2> QED BY <2>2, <2>3
<1>11. CASE Read
  <2>1. pc' \in {"idle", "match", "read", "slowSync"} /\ pc = "read"
    <3>1. CASE Unbound(at) BY <1>11, <3>1 DEF Read
    <3>2. CASE ~Unbound(at) BY <1>11, <3>2, DonePc DEF Read
    <3> QED BY <3>1, <3>2
  <2>2. UNCHANGED <<wiring, pinned, keep, conn, live, alive, mode, held, saved, control>>
    BY <1>11 DEF Read
  <2> QED BY <2>1, <2>2
<1>12. CASE EndPoll
  <2>1. /\ UNCHANGED <<wiring, pinned, keep, conn, live, alive, mode, held, control>>
        /\ pc = "read" /\ pc' = "idle" /\ (Save(mode, held, contact) \/ UNCHANGED saved)
    BY <1>12 DEF EndPoll
  <2>2. CASE Save(mode, held, contact)
    <3>1. \A t \in Slots :
             /\ saved'[t].mode = mode[t]
             /\ saved'[t].pump = IF mode[t] = "local" THEN NoPump ELSE held[t]
      BY <2>2, SavedIs
    <3> QED BY <2>1, <3>1
  <2> QED BY <2>1, <2>2
<1>13. CASE Told
  <2>1. /\ UNCHANGED <<wiring, pinned, keep, conn, live, alive, mode, held, saved, control, at>>
        /\ pc = "told"
        /\ (pc' = "idle" \/ (pc' = "holdSync" /\ Held(at) /\ keep[at]))
    BY <1>13 DEF Told
  <2> QED BY <2>1
<1>14. CASE LinkError
  <2>1. at \in Slots /\ Close(at) /\ pc' \in {"idle", "match", "read"}
        /\ UNCHANGED <<wiring, pinned, keep, alive, mode, held, saved>>
    BY <1>14, DonePc DEF LinkError, Sane, OnEntry
  <2>2. /\ conn'[at] = NoPort /\ live'[at] = FALSE /\ control'[at] = "local"
        /\ \A t \in Slots \ {at} :
              conn'[t] = conn[t] /\ live'[t] = live[t] /\ control'[t] = control[t]
    BY <2>1, CloseLinks
  <2> QED BY <2>1, <2>2
<1> QED BY <1>1, <1>2, <1>3, <1>4, <1>5, <1>6, <1>7, <1>8, <1>9, <1>10, <1>11, <1>12,
           <1>13, <1>14 DEF Operation

(* A command is saved as it is taken, and a start takes what was saved.    *)
LEMMA HoldOther ==
  ASSUME Sane, LinkInv, HoldInv, Command \/ World \/ Process \/ Tick
  PROVE  HoldInv'
<1> USE DEF cables, pumps, config, holds, links, disk, finding, cursor, history
<1> USE Basics DEF HoldInv, Unbound, Pump, On, Asking, Held
<1>1. CASE Enable BY <1>1 DEF Enable
<1>2. ASSUME NEW s \in Slots, NEW m \in Words, SetMode(s, m) PROVE HoldInv'
  <2>1. /\ UNCHANGED <<wiring, pinned, keep, conn, live, alive>> /\ alive /\ pc = "idle"
        /\ at' = s /\ Accepts(s, m) /\ Save(mode', held', contact')
    BY <1>2 DEF SetMode, Saves
  <2>2. /\ mode'[s] = m /\ held'[s] = IF m = "local" THEN NoPump ELSE pinned[s]
        /\ \A t \in Slots \ {s} : mode'[t] = mode[t] /\ held'[t] = held[t]
    BY <1>2 DEF SetMode, Sane, HoldsOK
  <2>3. \A t \in Slots :
           /\ saved'[t].mode = mode'[t]
           /\ saved'[t].pump = IF mode'[t] = "local" THEN NoPump ELSE held'[t]
    BY <2>1, SavedIs
  <2>4. /\ \A t \in Slots \ {s} : control'[t] = control[t]
        /\ \/ Unbound(s) /\ pc' = "idle"
           \/ pc' = "release" /\ keep[s] /\ m = "local"
           \/ pc' = "told" /\ control'[s] = m
    BY <1>2 DEF SetMode, Sane, LinksOK
  <2>5. m # "local" => pinned[s] # NoPump /\ (live[s] => Pump(s) = pinned[s])
    BY <2>1 DEF Accepts, LinkInv, IsIts
  <2>6. Unbound(s) => ~live[s] BY DEF LinkInv
  <2> QED BY <2>1, <2>2, <2>3, <2>4, <2>5, <2>6
<1>3. ASSUME NEW q \in Ports, Unplug(q) PROVE HoldInv'
  <2>1. /\ UNCHANGED <<pinned, keep, conn, control, alive, pc, at, mode, held, saved>>
        /\ \A r \in Ports : r # q => wiring'[r] = wiring[r]
        /\ \A s \in Slots : live'[s] = (live[s] /\ conn[s] # q)
    BY <1>3 DEF Unplug, DeadOn, Sane, PumpsOK
  <2>2. \A s \in Slots : live'[s] => Pump(s)' = Pump(s) /\ live[s]
    BY <2>1 DEF Sane, LinksOK, LinkInv
  <2> QED BY <2>1, <2>2
<1>4. ASSUME NEW q \in Ports, NEW p \in Pumps, Plug(p, q) PROVE HoldInv'
  <2>1. /\ UNCHANGED <<pinned, keep, conn, live, control, alive, pc, at, mode, held, saved>>
        /\ \A r \in Ports : r # q => wiring'[r] = wiring[r]
        /\ wiring[q] = NoPump
    BY <1>4 DEF Plug, Sane, PumpsOK
  <2>2. \A s \in Slots : live[s] => Pump(s)' = Pump(s)
    BY <2>1 DEF Sane, LinksOK, LinkInv
  <2> QED BY <2>1, <2>2
<1>5. ASSUME NEW p \in Pumps, SupplyCycle(p) PROVE HoldInv'
  <2>1. /\ UNCHANGED <<wiring, pinned, keep, conn, control, alive, pc, at, mode, held, saved>>
        /\ \A s \in Slots : live'[s] => live[s]
    BY <1>5 DEF SupplyCycle
  <2> QED BY <2>1
<1>6. CASE Crash
  <2>1. UNCHANGED saved /\ Down BY <1>6 DEF Crash
  <2> QED BY <2>1 DEF Down
<1>7. CASE Stop
  <2>1. Down /\ Save(mode, held, contact) BY <1>7 DEF Stop
  <2>2. \A t \in Slots :
           /\ saved'[t].mode = mode[t]
           /\ saved'[t].pump = IF mode[t] = "local" THEN NoPump ELSE held[t]
    BY <2>1, SavedIs
  <2> QED BY <2>1, <2>2 DEF Down
<1>8. CASE Start
  <2>1. /\ UNCHANGED <<wiring, pinned, keep, conn, live, control, pc, at, saved>> /\ ~alive
        /\ \A s \in Slots : mode'[s] = saved[s].mode /\ held'[s] = saved[s].pump
    BY <1>8 DEF Start, Load
  <2> QED BY <2>1 DEF LinkInv
<1>9. CASE Configure
  <2>1. /\ UNCHANGED <<wiring, keep, conn, live, control, pc, at, saved, mode, held, alive>>
    BY <1>9 DEF Configure
  <2> QED BY <2>1
<1>10. CASE PollFails BY <1>10 DEF PollFails
<1>11. CASE Tick
  <2>1. /\ UNCHANGED <<wiring, pinned, keep, conn, live, control, pc, at, mode, held, alive>>
    BY <1>11 DEF Tick
  <2>2. \A s \in Slots : saved'[s].mode = saved[s].mode /\ saved'[s].pump = saved[s].pump
    BY <1>11 DEF Tick, Sane, HoldsOK
  <2> QED BY <2>1, <2>2
<1> QED BY <1>1, <1>2, <1>3, <1>4, <1>5, <1>6, <1>7, <1>8, <1>9, <1>10, <1>11
           DEF Command, World, Process

-----------------------------------------------------------------------------
(* What the pumps do, and how long they are to keep doing it.              *)

(* Between exchanges with an entry its keep_command pump has the patience  *)
(* and the word that suit the mode; half way through them the pump has heard *)
(* the word before 182 is written, and a release has handed 182 back before *)
(* the word is taken away.                                                 *)
FitInv ==
  /\ \A s \in Slots : live[s] /\ keep[s] /\ ~Midway(s) =>
       /\ keeps[Pump(s)] = Held(s)
       /\ Held(s) => word[Pump(s)] = mode[s]
  /\ pc \in {"bindSync", "holdSync"} /\ live[at] /\ Held(at) => word[Pump(at)] = mode[at]
  /\ pc = "release" /\ live[at] /\ control[at] # "local" => word[Pump(at)] = control[at]
  /\ pc = "told" /\ live[at] /\ keep[at] /\ ~Held(at) => ~keeps[Pump(at)]

(* Nothing is linked at first.                                             *)
LEMMA InitFit == Init => FitInv
BY Basics DEF Init, FitInv

(* Two live links lead to two pumps.                                       *)
LEMMA Apart ==
  ASSUME Sane, LinkInv, NEW s \in Slots, NEW t \in Slots, s # t, live[s], live[t]
  PROVE  Pump(s) # Pump(t)
BY Basics DEF Sane, LinksOK, LinkInv, Pump, On, Unbound

(* A live link leads to a pump.                                            *)
LEMMA LivePump ==
  ASSUME Sane, LinkInv, NEW s \in Slots, live[s]
  PROVE  Pump(s) \in Pumps /\ conn[s] \in Ports /\ ~Unbound(s)
BY Basics DEF Sane, LinksOK, PumpsOK, LinkInv, Pump, On, Unbound

(* What a telegram does to each pump.                                      *)
LEMMA HearsIs ==
  ASSUME Sane, NEW p, NEW w, Hears(p, w), NEW q \in Pumps
  PROVE  /\ word'[q] = IF q = p /\ w # "local" THEN w ELSE word[q]
         /\ quiet'[q] = IF q = p /\ w # "local" THEN 0 ELSE quiet[q]
BY DEF Hears, Sane, PumpsOK, HistoryOK

(* What a write of 182 does to each pump.                                  *)
LEMMA KeepsIs ==
  ASSUME Sane, NEW p, NEW b, Keeps(p, b), NEW q \in Pumps
  PROVE  keeps'[q] = IF q = p THEN b ELSE keeps[q]
BY DEF Keeps, Sane, PumpsOK

(* The exchanges keep pumps and modes together.                            *)
LEMMA FitOperation == ASSUME Sane, LinkInv, HoldInv, FitInv, Operation PROVE FitInv'
<1> USE DEF cables, pumps, config, holds, links, disk, finding, cursor, history
<1> USE Basics DEF FitInv, Asking, Telling, Held, Midway
<1>a. \A s \in Slots : live[s] => Pump(s) \in Pumps /\ ~Unbound(s)
  BY LivePump
<1>b. \A s, t \in Slots : s # t /\ live[s] /\ live[t] => Pump(s) # Pump(t)
  BY Apart
<1>1. CASE Poll BY <1>1 DEF Poll, Pump, On
<1>2. CASE Probe BY <1>2 DEF Probe, Pump, On
<1>3. CASE Probed BY <1>3 DEF Probed, Pump, On
<1>4. CASE Match
  <2>1. UNCHANGED <<wiring, word, keeps, keep, mode, conn, live, control>>
        /\ pc' \in {"open", "match", "read"} /\ pc = "match"
    BY <1>4 DEF Match
  <2> QED BY <2>1 DEF Pump, On
<1>5. CASE Open
  <2>1. at \in Slots /\ Unbound(at) /\ pc = "open"
        /\ UNCHANGED <<wiring, word, keeps, keep, mode>>
    BY <1>5 DEF Open, Sane, OnEntry, LinkInv
  <2>2. CASE IsIts(at, On(port))
    <3>1. at' = at /\ pc' \in {"ask", "resume"}
      BY <1>5, <2>2 DEF Open
    <3>2. \A t \in Slots \ {at} : conn'[t] = conn[t] /\ live'[t] = live[t]
      BY <1>5, <2>1, <2>2 DEF Open, Sane, LinksOK
    <3> QED BY <2>1, <3>1, <3>2 DEF Pump, On
  <2>3. CASE ~IsIts(at, On(port))
    <3>1. pc' \in {"idle", "match", "read"} /\ UNCHANGED <<conn, live, control>>
      BY <1>5, <2>1, <2>3, DonePc DEF Open
    <3> QED BY <2>1, <3>1 DEF Pump, On
  <2> QED BY <2>2, <2>3
<1>6. CASE OpenFails
  <2>1. /\ UNCHANGED <<wiring, word, keeps, keep, mode, conn, live, control>>
        /\ pc' \in {"idle", "match", "read"} /\ pc = "open"
    BY <1>6, DonePc DEF OpenFails
  <2> QED BY <2>1 DEF Pump, On
<1>7. CASE Ask BY <1>7 DEF Ask, Pump, On
<1>8. CASE Resume
  <2>1. /\ at \in Slots /\ pc = "resume" /\ pc' = "tell"
        /\ UNCHANGED <<wiring, word, keeps, keep, conn, live, at>>
        /\ \A t \in Slots \ {at} : mode'[t] = mode[t]
    BY <1>8 DEF Resume, Sane, OnEntry, HoldsOK
  <2> QED BY <2>1 DEF Pump, On
<1>9. CASE Tell
  <2>1. /\ at \in Slots /\ pc = "tell" /\ pc' = "bindSync" /\ live[at]
        /\ UNCHANGED <<wiring, keeps, keep, mode, conn, live, control, at>>
        /\ Hears(Pump(at), control[at])
    BY <1>9 DEF Tell, Sane, OnEntry
  <2>2. control[at] = mode[at] BY <2>1, <1>a DEF HoldInv
  <2>3. \A q \in Pumps :
           word'[q] = IF q = Pump(at) /\ control[at] # "local" THEN control[at] ELSE word[q]
    BY <2>1, HearsIs
  <2>4. \A s \in Slots : Pump(s)' = Pump(s) BY <2>1 DEF Pump, On
  <2> QED BY <1>a, <1>b, <2>1, <2>2, <2>3, <2>4
<1>10. CASE Sync
  <2>1. /\ at \in Slots /\ live[at] /\ Hears(Pump(at), control[at])
        /\ UNCHANGED <<wiring, keep, mode, conn, live>>
        /\ pc \in {"bindSync", "slowSync", "release", "holdSync"}
        /\ IF keep[at] THEN Keeps(Pump(at), Wanted(at)) ELSE UNCHANGED keeps
    BY <1>10 DEF Sync, Sane, OnEntry
  <2>2. \A q \in Pumps :
           word'[q] = IF q = Pump(at) /\ control[at] # "local" THEN control[at] ELSE word[q]
    BY <2>1, HearsIs
  <2>3. \A q \in Pumps : keeps'[q] = IF q = Pump(at) /\ keep[at] THEN Held(at) ELSE keeps[q]
    BY <2>1, KeepsIs DEF Wanted
  <2>4. \A s \in Slots : Pump(s)' = Pump(s) BY <2>1 DEF Pump, On
  <2>5. CASE pc = "release"
    <3>1. pc' = "told" /\ at' = at BY <1>10, <2>5 DEF Sync
    <3>2. ~Held(at) BY <2>5 DEF HoldInv
    <3>3. \A s \in Slots :
             live[s] /\ s # at => /\ word'[Pump(s)] = word[Pump(s)]
                                  /\ keeps'[Pump(s)] = keeps[Pump(s)]
      BY <1>a, <1>b, <2>1, <2>2, <2>3
    <3>4. keep[at] => ~keeps'[Pump(at)] BY <1>a, <2>1, <2>3, <3>2
    <3> QED BY <2>1, <2>4, <2>5, <3>1, <3>2, <3>3, <3>4
  <2>6. CASE pc # "release"
    <3>1. pc' \in {"idle", "match", "read"} BY <1>10, <2>6, DonePc DEF Sync
    <3>2. control[at] = mode[at] BY <2>1, <2>6, <1>a DEF HoldInv
    <3>3. \A s \in Slots :
             live[s] /\ s # at => /\ word'[Pump(s)] = word[Pump(s)]
                                  /\ keeps'[Pump(s)] = keeps[Pump(s)]
      BY <1>a, <1>b, <2>1, <2>2, <2>3
    <3>4. keep[at] => keeps'[Pump(at)] = Held(at) BY <1>a, <2>1, <2>3
    <3>5. Held(at) => word'[Pump(at)] = mode[at] BY <1>a, <2>1, <2>2, <3>2
    <3> QED BY <2>1, <2>4, <2>6, <3>1, <3>3, <3>4, <3>5
  <2> QED BY <2>5, <2>6
<1>11. CASE Read
  <2>1. /\ pc = "read"
        /\ at \in Slots
        /\ UNCHANGED <<wiring, keeps, keep, mode, conn, live, control>>
    BY <1>11 DEF Read
  <2>2. CASE Unbound(at) BY <1>11, <2>1, <2>2 DEF Read, Pump, On
  <2>3. CASE ~Unbound(at)
    <3>1. /\ pc' \in {"idle", "match", "read", "slowSync"}
          /\ live[at]
          /\ Hears(Pump(at), control[at])
      BY <1>11, <2>3, DonePc DEF Read
    <3>2. control[at] = mode[at] BY <2>1, <2>3 DEF HoldInv
    <3>3. \A q \in Pumps :
             word'[q] = IF q = Pump(at) /\ control[at] # "local" THEN control[at] ELSE word[q]
      BY <3>1, HearsIs
    <3>4. \A s \in Slots : Pump(s)' = Pump(s) BY <2>1 DEF Pump, On
    <3>5. \A s \in Slots : live[s] /\ s # at => word'[Pump(s)] = word[Pump(s)]
      BY <1>a, <1>b, <2>1, <3>1, <3>3
    <3>6. Held(at) => word'[Pump(at)] = mode[at] BY <1>a, <2>1, <3>1, <3>2, <3>3
    <3> QED BY <2>1, <3>1, <3>4, <3>5, <3>6
  <2> QED BY <2>2, <2>3
<1>12. CASE EndPoll
  <2>1. /\ UNCHANGED <<wiring, word, keeps, keep, mode, conn, live, control>>
        /\ pc = "read" /\ pc' = "idle"
    BY <1>12 DEF EndPoll
  <2> QED BY <2>1 DEF Pump, On
<1>13. CASE Told
  <2>1. /\ UNCHANGED <<wiring, keeps, keep, mode, conn, live, control, at>> /\ pc = "told"
        /\ (IF Held(at) /\ keep[at] THEN pc' = "holdSync" ELSE pc' = "idle")
        /\ live[at] /\ at \in Slots /\ Hears(Pump(at), control[at])
    BY <1>13 DEF Told, Sane, OnEntry
  <2>2. control[at] = mode[at] BY <2>1, <1>a DEF HoldInv
  <2>3. \A q \in Pumps :
           word'[q] = IF q = Pump(at) /\ control[at] # "local" THEN control[at] ELSE word[q]
    BY <2>1, HearsIs
  <2>4. \A s \in Slots : Pump(s)' = Pump(s) BY <2>1 DEF Pump, On
  <2>5. \A s \in Slots : live[s] /\ s # at => word'[Pump(s)] = word[Pump(s)]
    BY <1>a, <1>b, <2>1, <2>3
  <2>6. Held(at) => word'[Pump(at)] = mode[at] BY <1>a, <2>1, <2>2, <2>3
  <2>7. ~Held(at) /\ keep[at] => keeps[Pump(at)] = FALSE
    BY <1>a, <2>1 DEF Sane, PumpsOK
  <2> QED BY <2>1, <2>4, <2>5, <2>6, <2>7
<1>14. CASE LinkError
  <2>1. at \in Slots /\ Close(at) /\ pc' \in {"idle", "match", "read"}
        /\ UNCHANGED <<wiring, keep, mode>>
    BY <1>14, DonePc DEF LinkError, Sane, OnEntry
  <2>2. /\ conn'[at] = NoPort /\ live'[at] = FALSE
        /\ \A t \in Slots \ {at} : conn'[t] = conn[t] /\ live'[t] = live[t]
    BY <2>1, CloseLinks DEF Unbound
  <2>3. \A q \in Pumps :
           (live[at] => q # Pump(at)) => word'[q] = word[q] /\ keeps'[q] = keeps[q]
    <3>1. CASE live[at]
      <4>1. \/ Hears(Pump(at), control[at]) /\ UNCHANGED keeps
            \/ Hears(Pump(at), control[at]) /\ Keeps(Pump(at), Wanted(at))
            \/ UNCHANGED <<word, keeps>>
        BY <1>14, <3>1 DEF LinkError
      <4>2. Hears(Pump(at), control[at]) => \A q \in Pumps : q # Pump(at) => word'[q] = word[q]
        BY HearsIs
      <4>3. Keeps(Pump(at), Wanted(at)) => \A q \in Pumps : q # Pump(at) => keeps'[q] = keeps[q]
        BY KeepsIs
      <4> QED BY <3>1, <4>1, <4>2, <4>3
    <3>2. CASE ~live[at] BY <1>14, <3>2 DEF LinkError
    <3> QED BY <3>1, <3>2
  <2>4. \A s \in Slots :
           live[s] /\ s # at => /\ word'[Pump(s)] = word[Pump(s)]
                                /\ keeps'[Pump(s)] = keeps[Pump(s)]
      BY <1>a, <1>b, <2>1, <2>3
  <2>5. \A s \in Slots : s # at => Pump(s)' = Pump(s) BY <2>1, <2>2 DEF Pump, On
  <2> QED BY <2>1, <2>2, <2>4, <2>5
<1> QED BY <1>1, <1>2, <1>3, <1>4, <1>5, <1>6, <1>7, <1>8, <1>9, <1>10, <1>11, <1>12,
           <1>13, <1>14 DEF Operation

(* So does everything between them.                                        *)
LEMMA FitOther ==
  ASSUME Sane, LinkInv, HoldInv, FitInv, Command \/ World \/ Process \/ Tick
  PROVE  FitInv'
<1> USE DEF cables, pumps, config, holds, links, disk, finding, cursor, history
<1> USE Basics DEF FitInv, Asking, Telling, Held, Midway
<1>a. \A s \in Slots : live[s] => Pump(s) \in Pumps /\ ~Unbound(s) /\ conn[s] \in Ports
  BY LivePump
<1>1. CASE Enable BY <1>1 DEF Enable, Pump, On
<1>2. ASSUME NEW s \in Slots, NEW m \in Words, SetMode(s, m) PROVE FitInv'
  <2>1. /\ UNCHANGED <<wiring, word, keeps, keep, conn, live>> /\ pc = "idle" /\ at' = s
    BY <1>2 DEF SetMode
  <2>2. mode'[s] = m /\ \A t \in Slots \ {s} : mode'[t] = mode[t]
    BY <1>2 DEF SetMode, Sane, HoldsOK
  <2>4. \/ Unbound(s) /\ pc' = "idle"
        \/ pc' = "release" /\ keep[s] /\ m = "local" /\ control' = control
        \/ pc' = "told" /\ (m = "local" => ~keep[s])
    BY <1>2 DEF SetMode
  <2>5. live[s] => control[s] = mode[s] BY <1>a, <2>1 DEF HoldInv
  <2>6. \A t \in Slots : Pump(t)' = Pump(t) BY <2>1 DEF Pump, On
  <2> QED BY <1>a, <2>1, <2>2, <2>4, <2>5, <2>6
<1>3. ASSUME NEW q \in Ports, Unplug(q) PROVE FitInv'
  <2>1. /\ UNCHANGED <<word, keeps, keep, conn, control, pc, at, mode>>
        /\ \A r \in Ports : r # q => wiring'[r] = wiring[r]
        /\ \A s \in Slots : live'[s] = (live[s] /\ conn[s] # q)
    BY <1>3 DEF Unplug, DeadOn, Sane, PumpsOK
  <2>2. \A s \in Slots : live'[s] => Pump(s)' = Pump(s) /\ live[s]
    BY <1>a, <2>1 DEF Pump, On
  <2>3. pc \in {"bindSync", "holdSync", "release", "told"} => at \in Slots BY DEF Sane, OnEntry
  <2> QED BY <2>1, <2>2, <2>3
<1>4. ASSUME NEW q \in Ports, NEW p \in Pumps, Plug(p, q) PROVE FitInv'
  <2>1. /\ UNCHANGED <<word, keeps, keep, conn, live, control, pc, at, mode>>
        /\ \A r \in Ports : r # q => wiring'[r] = wiring[r]
        /\ wiring[q] = NoPump
    BY <1>4 DEF Plug, Sane, PumpsOK
  <2>2. \A s \in Slots : live[s] => Pump(s)' = Pump(s)
    BY <1>a, <2>1 DEF LinkInv, Pump, On
  <2>3. pc \in {"bindSync", "holdSync", "release", "told"} => at \in Slots BY DEF Sane, OnEntry
  <2> QED BY <2>1, <2>2, <2>3
<1>5. ASSUME NEW p \in Pumps, SupplyCycle(p) PROVE FitInv'
  <2>1. /\ UNCHANGED <<wiring, conn, keep, control, pc, at, mode>> /\ Keeps(p, FALSE)
        /\ \A s \in Slots : live'[s] => live[s] /\ Pump(s) # p
        /\ \A q \in Pumps : q # p => word'[q] = word[q]
    BY <1>5 DEF SupplyCycle, Sane, PumpsOK
  <2>2. \A q \in Pumps : q # p => keeps'[q] = keeps[q] BY <2>1, KeepsIs
  <2>3. \A s \in Slots :
           live'[s] => /\ word'[Pump(s)] = word[Pump(s)] /\ keeps'[Pump(s)] = keeps[Pump(s)]
                       /\ Pump(s)' = Pump(s) /\ live[s]
    BY <1>a, <2>1, <2>2 DEF Pump, On
  <2>4. pc \in {"bindSync", "holdSync", "release", "told"} => at \in Slots BY DEF Sane, OnEntry
  <2> QED BY <2>1, <2>3, <2>4
<1>6. CASE Crash BY <1>6 DEF Crash, Down
<1>7. CASE Stop BY <1>7 DEF Stop, Down
<1>8. CASE Start
  <2>1. UNCHANGED <<live, pc, at>> /\ ~alive BY <1>8 DEF Start
  <2> QED BY <2>1 DEF LinkInv
<1>9. CASE Configure BY <1>9 DEF Configure, Pump, On
<1>10. CASE PollFails BY <1>10 DEF PollFails
<1>11. CASE Tick
  <2>1. /\ UNCHANGED <<wiring, keeps, keep, conn, live, control, pc, at, mode>> /\ pc = "idle"
    BY <1>11 DEF Tick
  <2>2. \A q \in Pumps : keeps[q] => word'[q] = word[q]
    BY <1>11 DEF Tick, LetsGo
  <2>3. \A s \in Slots : Pump(s)' = Pump(s) BY <2>1 DEF Pump, On
  <2> QED BY <1>a, <2>1, <2>2, <2>3
<1> QED BY <1>1, <1>2, <1>3, <1>4, <1>5, <1>6, <1>7, <1>8, <1>9, <1>10, <1>11
           DEF Command, World, Process

-----------------------------------------------------------------------------
(* How long a hold has been on its own.                                    *)

(* The time since last_contact, in memory or on disk, is never shorter than *)
(* the time since the pump under the hold last heard from anyone.          *)
AwayInv ==
  /\ \A s \in Slots : Held(s) => quiet[held[s]] <= contact[s]
  /\ \A s \in Slots : saved[s].mode # "local" => quiet[saved[s].pump] <= saved[s].age

(* There is no hold at first.                                              *)
LEMMA InitAway == Init => AwayInv
BY Basics DEF Init, AwayInv, NoHold, Held

(* Pumps hear more, and nothing else changes.                              *)
LEMMA AwayStays ==
  ASSUME Sane, HoldInv, AwayInv, UNCHANGED <<mode, held, contact, saved>>,
         \A q \in Pumps : quiet'[q] = quiet[q] \/ quiet'[q] = 0
  PROVE  AwayInv'
<1>1. \A s \in Slots : Held(s) => held[s] \in Pumps
  BY DEF Sane, HoldsOK, HoldInv
<1>2. \A s \in Slots : saved[s].mode # "local" => saved[s].pump \in Pumps
  BY DEF Sane, HoldsOK, HoldInv
<1>3. \A s \in Slots : contact[s] \in Nat /\ saved[s].age \in Nat
  BY Basics DEF Sane, HoldsOK
<1>4. ASSUME NEW s \in Slots, Held(s)' PROVE quiet'[held'[s]] <= contact'[s]
  <2>1. Held(s) /\ held[s] \in Pumps /\ held'[s] = held[s] /\ contact'[s] = contact[s]
    BY <1>1, <1>4 DEF Held
  <2> QED BY <1>3, <2>1 DEF AwayInv
<1>5. ASSUME NEW s \in Slots, saved'[s].mode # "local"
      PROVE  quiet'[saved'[s].pump] <= saved'[s].age
  <2>1. saved'[s] = saved[s] /\ saved[s].pump \in Pumps
    BY <1>2, <1>5
  <2> QED BY <1>3, <1>5, <2>1 DEF AwayInv
<1> QED BY <1>4, <1>5 DEF AwayInv

(* What is saved is as old as what is saved of.                            *)
LEMMA AwaySaved ==
  ASSUME Save(mode', held', contact'),
         \A s \in Slots : mode'[s] # "local" => quiet'[held'[s]] <= contact'[s]
  PROVE  AwayInv'
BY SavedIs DEF AwayInv, Held

(* Every step keeps it.                                                    *)
LEMMA AwayNext == ASSUME Sane, LinkInv, HoldInv, AwayInv, [Next]_vars PROVE AwayInv'
<1> USE DEF cables, pumps, config, holds, links, disk, finding, cursor, history
<1> USE Basics
<1>a. \A s \in Slots : live[s] => Pump(s) \in Pumps /\ ~Unbound(s)
  BY LivePump
<1>b. \A p, w : Hears(p, w) => \A q \in Pumps : quiet'[q] = quiet[q] \/ quiet'[q] = 0
  BY HearsIs
<1>1. CASE UNCHANGED <<mode, held, contact, saved, quiet>> BY <1>1, AwayStays
<1>2. CASE Resume
  <2>1. at \in Slots /\ UNCHANGED <<contact, quiet>> BY <1>2 DEF Resume, Sane, OnEntry
  <2>2. CASE mode[at] = "local" \/ Resumes(at, Pump(at))
    BY <1>1, <1>2, <2>2 DEF Resume
  <2>3. CASE mode[at] # "local" /\ ~Resumes(at, Pump(at))
    <3>1. Save(mode', held', contact') BY <1>2, <2>1, <2>3 DEF Resume
    <3>2. mode'[at] = "local" /\ \A s \in Slots \ {at} : mode'[s] = mode[s] /\ held'[s] = held[s]
      BY <1>2, <2>1, <2>3 DEF Resume, Sane, HoldsOK
    <3> QED BY <2>1, <3>1, <3>2, AwaySaved DEF AwayInv, Held
  <2> QED BY <2>2, <2>3
<1>3. CASE Tell BY <1>3, <1>b, AwayStays DEF Tell
<1>4. CASE Sync BY <1>4, <1>b, AwayStays DEF Sync
<1>5. CASE Told BY <1>5, <1>b, AwayStays DEF Told
<1>6. CASE LinkError
  <2>1. \A q \in Pumps : quiet'[q] = quiet[q] \/ quiet'[q] = 0
    BY <1>6, <1>b DEF LinkError
  <2> QED BY <1>6, <2>1, AwayStays DEF LinkError
<1>7. CASE Read
  <2>1. CASE Unbound(at) BY <1>1, <1>7, <2>1 DEF Read
  <2>2. CASE ~Unbound(at) /\ mode[at] = "local" BY <1>b, <1>7, <2>2, AwayStays DEF Read
  <2>3. CASE ~Unbound(at) /\ mode[at] # "local"
    <3>1. /\ pc = "read" /\ at \in Slots /\ live[at] /\ UNCHANGED <<mode, held, saved>>
          /\ Hears(Pump(at), control[at])
          /\ contact' = [contact EXCEPT ![at] = 0]
      BY <1>7, <2>3 DEF Read
    <3>2. control[at] # "local" /\ held[at] = Pump(at) BY <2>3, <3>1 DEF HoldInv, Held, Asking
    <3>3. quiet'[held[at]] = 0 /\ contact'[at] = 0
      BY <1>a, <3>1, <3>2, HearsIs DEF Sane, HoldsOK
    <3>4. \A q \in Pumps : quiet'[q] = quiet[q] \/ quiet'[q] = 0 BY <1>b, <3>1
    <3>5. \A s \in Slots : mode[s] # "local" => held[s] \in Pumps /\ contact[s] \in Nat
      BY DEF Sane, HoldsOK, HoldInv, Held
    <3>6. \A s \in Slots :
             saved[s].mode # "local" => saved[s].pump \in Pumps /\ saved[s].age \in Nat
      BY DEF Sane, HoldsOK, HoldInv
    <3>7. \A s \in Slots : s # at => contact'[s] = contact[s]
      BY <3>1 DEF Sane, HoldsOK
    <3>8. ASSUME NEW s \in Slots, Held(s)' PROVE quiet'[held'[s]] <= contact'[s]
      <4>1. CASE s = at BY <3>1, <3>3, <4>1
      <4>2. CASE s # at
        <5>1. Held(s) /\ quiet[held[s]] <= contact[s] BY <3>1, <3>8 DEF AwayInv, Held
        <5> QED BY <3>1, <3>4, <3>5, <3>7, <4>2, <5>1 DEF Held
      <4> QED BY <4>1, <4>2
    <3>9. ASSUME NEW s \in Slots, saved'[s].mode # "local"
          PROVE  quiet'[saved'[s].pump] <= saved'[s].age
      BY <3>1, <3>4, <3>6, <3>9 DEF AwayInv
    <3> QED BY <3>8, <3>9 DEF AwayInv
  <2> QED BY <2>1, <2>2, <2>3
<1>8. CASE EndPoll
  <2>1. /\ UNCHANGED <<mode, held, contact, quiet>>
        /\ (Save(mode, held, contact) \/ UNCHANGED saved)
    BY <1>8 DEF EndPoll
  <2>2. CASE Save(mode, held, contact)
    <3>1. Save(mode', held', contact') BY <2>1, <2>2
    <3> QED BY <2>1, <3>1, AwaySaved DEF AwayInv, Held
  <2> QED BY <1>1, <2>1, <2>2
<1>9. ASSUME NEW s \in Slots, NEW m \in Words, SetMode(s, m) PROVE AwayInv'
  <2> DEFINE p == IF m = "local" THEN held[s] ELSE pinned[s]
  <2>1. /\ Save(mode', held', contact') /\ Accepts(s, m)
        /\ mode'[s] = m /\ contact'[s] = 0 /\ (m # "local" => held'[s] = pinned[s])
        /\ \A t \in Slots \ {s} :
              mode'[t] = mode[t] /\ held'[t] = held[t] /\ contact'[t] = contact[t]
    BY <1>9 DEF SetMode, Saves, Sane, HoldsOK
  <2>2. \A q \in Pumps : quiet'[q] = quiet[q] \/ quiet'[q] = 0
    BY <1>9 DEF SetMode, Sane, HistoryOK
  <2>3. m # "local" => p \in Pumps /\ quiet'[p] = 0
    <3> SUFFICES ASSUME m # "local" PROVE p \in Pumps /\ quiet'[p] = 0 OBVIOUS
    <3>1. p = pinned[s] /\ p \in Pumps BY <2>1 DEF Accepts, Sane, LinksOK
    <3>2. quiet' = [quiet EXCEPT ![p] = 0] BY <1>9, <3>1 DEF SetMode
    <3> QED BY <3>1, <3>2 DEF Sane, HistoryOK
  <2>4. ASSUME NEW t \in Slots, mode'[t] # "local" PROVE quiet'[held'[t]] <= contact'[t]
    <3>1. CASE t = s BY <2>1, <2>3, <2>4, <3>1
    <3>2. CASE t # s
      <4>1. /\ mode[t] # "local"
            /\ held[t] \in Pumps
            /\ quiet[held[t]] <= contact[t]
            /\ contact[t] \in Nat
        BY <2>1, <2>4, <3>2 DEF AwayInv, Held, HoldInv, Sane, HoldsOK
      <4> QED BY <2>1, <2>2, <3>2, <4>1
    <3> QED BY <3>1, <3>2
  <2> QED BY <2>1, <2>4, AwaySaved
<1>10. CASE Crash
  <2>1. UNCHANGED <<saved, quiet>> /\ \A s \in Slots : mode'[s] = "local"
    BY <1>10 DEF Crash, Down
  <2> QED BY <2>1 DEF AwayInv, Held
<1>11. CASE Stop
  <2>1. UNCHANGED quiet /\ Save(mode, held, contact) /\ \A s \in Slots : mode'[s] = "local"
    BY <1>11 DEF Stop, Down
  <2> QED BY <2>1, SavedIs DEF AwayInv, Held
<1>12. CASE Start
  <2>1. /\ UNCHANGED <<saved, quiet>>
        /\ \A s \in Slots : /\ mode'[s] = saved[s].mode /\ held'[s] = saved[s].pump
                            /\ contact'[s] = saved[s].age
    BY <1>12 DEF Start, Load
  <2> QED BY <2>1 DEF AwayInv, Held
<1>13. CASE Tick
  <2>1. UNCHANGED <<mode, held>> BY <1>13 DEF Tick
  <2>2. \A q \in Pumps : quiet'[q] = Capped(quiet[q], ResumeMax + 1) BY <1>13 DEF Tick
  <2>3. \A s \in Slots : mode[s] # "local" => contact'[s] = Capped(contact[s], ResumeMax + 1)
    BY <1>13 DEF Tick
  <2>4. \A s \in Slots : /\ saved'[s].mode = saved[s].mode /\ saved'[s].pump = saved[s].pump
                         /\ saved[s].mode # "local"
                              => saved'[s].age = Capped(saved[s].age, ResumeMax + 1)
    BY <1>13 DEF Tick, Sane, HoldsOK
  <2>5. \A a, b \in 0 .. ResumeMax + 1 :
           a <= b => Capped(a, ResumeMax + 1) <= Capped(b, ResumeMax + 1)
    BY DEF Capped
  <2>6. ASSUME NEW s \in Slots, Held(s)' PROVE quiet'[held'[s]] <= contact'[s]
    <3>1. Held(s) /\ held[s] \in Pumps /\ quiet[held[s]] <= contact[s]
      BY <2>1, <2>6 DEF AwayInv, Held, HoldInv, Sane, HoldsOK
    <3>2. quiet[held[s]] \in 0 .. ResumeMax + 1 /\ contact[s] \in 0 .. ResumeMax + 1
      BY <3>1 DEF Sane, HoldsOK, HistoryOK
    <3> QED BY <2>1, <2>2, <2>3, <2>5, <3>1, <3>2 DEF Held
  <2>7. ASSUME NEW s \in Slots, saved'[s].mode # "local"
        PROVE  quiet'[saved'[s].pump] <= saved'[s].age
    <3>1. /\ saved[s].mode # "local"
          /\ saved[s].pump \in Pumps
          /\ quiet[saved[s].pump] <= saved[s].age
      BY <2>4, <2>7 DEF AwayInv, HoldInv, Sane, HoldsOK
    <3>2. quiet[saved[s].pump] \in 0 .. ResumeMax + 1 /\ saved[s].age \in 0 .. ResumeMax + 1
      BY <3>1 DEF Sane, HoldsOK, HistoryOK
    <3> QED BY <2>2, <2>4, <2>5, <3>1, <3>2
  <2> QED BY <2>6, <2>7 DEF AwayInv
<1> QED
  BY <1>1, <1>2, <1>3, <1>4, <1>5, <1>6, <1>7, <1>8, <1>9, <1>10, <1>11, <1>12, <1>13
  DEF Next, Operation, Command, World, Process, vars, Poll, Probe, Probed, Match,
      Open, OpenFails, Ask, Enable, Unplug, Plug, SupplyCycle, Configure, PollFails

-----------------------------------------------------------------------------
(* What a pump under a hold has heard.                                     *)

(* The entry is still to be told in the poll under way, or a poll is due.  *)
Pending(s) == \/ due \/ pc \in {"scan", "match", "open", "tell", "bindSync"} \cup Asking
              \/ pc = "read" /\ at <= s
              \/ pc = "slowSync" /\ at < s
(* A pump under a hold has just heard its word, or is about to; a hold that *)
(* is about to be resumed is young enough, or its pump still obeys it.     *)
FreshInv ==
  /\ \A s \in Slots : live[s] /\ Held(s) /\ ~Midway(s) =>
       quiet[Pump(s)] = 0 \/ (quiet[Pump(s)] = 1 /\ Pending(s))
  /\ pc = "resume" /\ kept /\ live[at] => word[Pump(at)] # "local"
  /\ pc = "tell" /\ live[at] /\ Held(at) =>
       word[Pump(at)] # "local" \/ quiet[Pump(at)] <= ResumeMax
  /\ pc = "told" /\ live[at] /\ Held(at) => quiet[Pump(at)] = 0

(* No link is open at first.                                               *)
LEMMA InitFresh == Init => FreshInv
BY Basics DEF Init, FreshInv

(* The word for slot at is heard; that of nobody else's pump changes.      *)
LEMMA HeardOnly ==
  ASSUME Sane, LinkInv, at \in Slots, live[at], Hears(Pump(at), control[at]),
         UNCHANGED <<wiring, conn>>
  PROVE  /\ \A s \in Slots : s # at /\ live[s] =>
              word'[Pump(s)] = word[Pump(s)] /\ quiet'[Pump(s)] = quiet[Pump(s)]
         /\ control[at] # "local" => word'[Pump(at)] = control[at] /\ quiet'[Pump(at)] = 0
         /\ control[at] = "local" => UNCHANGED <<word, quiet>>
         /\ \A s \in Slots : Pump(s)' = Pump(s)
<1>1. \A s \in Slots : live[s] => Pump(s) \in Pumps BY LivePump
<1>2. \A s \in Slots : s # at /\ live[s] => Pump(s) # Pump(at) BY Apart
<1>3. \A q \in Pumps :
        /\ word'[q] = IF q = Pump(at) /\ control[at] # "local" THEN control[at] ELSE word[q]
        /\ quiet'[q] = IF q = Pump(at) /\ control[at] # "local" THEN 0 ELSE quiet[q]
  BY HearsIs
<1>4. control[at] = "local" => UNCHANGED <<word, quiet>> BY DEF Hears
<1> QED BY <1>1, <1>2, <1>3, <1>4 DEF Pump, On

(* A loop over the slots goes on with the next one.                        *)
LEMMA NextSlot ==
  ASSUME NEW n \in Slots
  PROVE  \A s \in Slots : s # n => (n <= s <=> n + 1 <= s) /\ (n <= s <=> n < s)
BY DEF Slots

(* The exchanges of a poll tell every pump under a hold its word.          *)
LEMMA FreshOperation ==
  ASSUME Sane, LinkInv, HoldInv, FitInv, AwayInv, FreshInv, Operation PROVE FreshInv'
<1> USE DEF cables, pumps, config, holds, links, disk, finding, cursor, history
<1> USE Basics DEF FreshInv, Asking, Telling, Held, Midway, Pending
<1>s. Slots \subseteq Nat /\ \A s \in Slots : 1 <= s BY DEF Slots
<1>1. CASE Poll BY <1>1, <1>s DEF Poll, Pump, On
<1>2. CASE Probe BY <1>2 DEF Probe, Pump, On
<1>3. CASE Probed BY <1>3 DEF Probed, Pump, On
<1>4. CASE Match
  <2>1. UNCHANGED <<wiring, word, quiet, mode, conn, live, due>>
        /\ pc = "match" /\ (pc' \in {"open", "match"} \/ (pc' = "read" /\ at' = 1))
    BY <1>4 DEF Match
  <2> QED BY <1>s, <2>1 DEF Pump, On
<1>5. CASE Open
  <2>1. at \in Slots /\ Unbound(at) /\ pc = "open" /\ ~live[at]
        /\ UNCHANGED <<wiring, word, quiet, mode, due>>
    BY <1>5 DEF Open, Sane, OnEntry, LinkInv
  <2>2. CASE IsIts(at, On(port))
    <3>1. at' = at /\ pc' \in {"ask", "resume"} /\ kept' = FALSE
      BY <1>5, <2>2 DEF Open
    <3>2. \A t \in Slots \ {at} : conn'[t] = conn[t] /\ live'[t] = live[t]
      BY <1>5, <2>1, <2>2 DEF Open, Sane, LinksOK
    <3> QED BY <2>1, <3>1, <3>2 DEF Pump, On
  <2>3. CASE ~IsIts(at, On(port))
    <3>1. (pc' = "match" \/ (pc' = "read" /\ at' = 1)) /\ UNCHANGED <<conn, live>>
      BY <1>5, <2>1, <2>3 DEF Open, Done
    <3> QED BY <1>s, <2>1, <3>1 DEF Pump, On
  <2> QED BY <2>2, <2>3
<1>6. CASE OpenFails
  <2>1. /\ UNCHANGED <<wiring, word, quiet, mode, conn, live, due>>
        /\ pc = "open" /\ (pc' = "match" \/ (pc' = "read" /\ at' = 1))
    BY <1>6 DEF OpenFails, Done
  <2> QED BY <1>s, <2>1 DEF Pump, On
<1>7. CASE Ask
  <2>1. /\ UNCHANGED <<wiring, word, quiet, mode, conn, live, due, at>>
        /\ pc = "ask" /\ pc' = "resume" /\ kept' = (word[Pump(at)] # "local")
    BY <1>7 DEF Ask
  <2> QED BY <2>1 DEF Pump, On
<1>8. CASE Resume
  <2>1. /\ at \in Slots /\ pc = "resume" /\ pc' = "tell"
        /\ UNCHANGED <<wiring, word, quiet, conn, live, due, at>>
        /\ \A t \in Slots \ {at} : mode'[t] = mode[t]
    BY <1>8 DEF Resume, Sane, OnEntry, HoldsOK
  <2>2. ASSUME live[at], mode'[at] # "local"
        PROVE  word[Pump(at)] # "local" \/ quiet[Pump(at)] <= ResumeMax
    <3>1. mode[at] # "local" /\ Resumes(at, Pump(at))
      BY <1>8, <2>1, <2>2 DEF Resume, Sane, HoldsOK
    <3>2. CASE kept BY <2>1, <2>2, <3>2
    <3>3. CASE contact[at] <= ResumeMax
      <4>1. held[at] = Pump(at) /\ quiet[held[at]] <= contact[at]
        BY <2>1, <3>1 DEF Resumes, AwayInv
      <4>2. Pump(at) \in Pumps BY <2>1, <2>2, LivePump
      <4> QED BY <2>1, <3>3, <4>1, <4>2 DEF Sane, HoldsOK, HistoryOK
    <3> QED BY <3>1, <3>2, <3>3 DEF Resumes
  <2> QED BY <2>1, <2>2 DEF Pump, On
<1>9. CASE Tell
  <2>1. /\ at \in Slots /\ pc = "tell" /\ pc' = "bindSync" /\ live[at]
        /\ UNCHANGED <<wiring, mode, conn, live, at, due>>
        /\ Hears(Pump(at), control[at])
    BY <1>9 DEF Tell, Sane, OnEntry
  <2> QED BY <2>1, HeardOnly
<1>10. CASE Sync
  <2>1. /\ at \in Slots /\ live[at] /\ Hears(Pump(at), control[at])
        /\ UNCHANGED <<wiring, mode, conn, live, due>>
        /\ pc \in {"bindSync", "slowSync", "release", "holdSync"}
    BY <1>10 DEF Sync, Sane, OnEntry
  <2>2. CASE pc = "release"
    <3>1. pc' = "told" /\ at' = at BY <1>10, <2>2 DEF Sync
    <3>2. ~Held(at) BY <2>2 DEF HoldInv
    <3> QED BY <2>1, <2>2, <3>1, <3>2, HeardOnly
  <2>3. CASE pc # "release"
    <3>1. Held(at) => control[at] # "local"
      BY <2>1, <2>3, LivePump DEF HoldInv
    <3>2. \/ pc = "bindSync" /\ (pc' = "match" \/ (pc' = "read" /\ at' = 1))
          \/ pc = "slowSync" /\ pc' = "read" /\ at' = at + 1
          \/ pc = "holdSync" /\ pc' = "idle"
      BY <1>10, <2>1, <2>3 DEF Sync, Done
    <3>5. /\ \A s \in Slots : s # at /\ live[s] => quiet'[Pump(s)] = quiet[Pump(s)]
          /\ Held(at) => quiet'[Pump(at)] = 0
          /\ \A s \in Slots : Pump(s)' = Pump(s)
      BY <2>1, <3>1, <3>2, HeardOnly
    <3>6. \A s \in Slots : s # at => (Pending(s)' <=> Pending(s))
      BY <1>s, <2>1, <3>1, <3>2
    <3> QED BY <2>1, <3>1, <3>2, <3>5, <3>6
  <2> QED BY <2>2, <2>3
<1>11. CASE Read
  <2>1. pc = "read" /\ at \in Slots /\ UNCHANGED <<wiring, mode, conn, live, due>>
    BY <1>11 DEF Read
  <2>4. \A s \in Slots : s # at => (at <= s <=> at + 1 <= s) /\ (at <= s <=> at < s)
    BY <2>1, NextSlot
  <2>2. CASE Unbound(at)
    <3>1. UNCHANGED <<word, quiet, pc>> /\ at' = at + 1 /\ ~live[at]
      BY <1>11, <2>1, <2>2 DEF Read, LinkInv
    <3>2. \A s \in Slots : s # at => (Pending(s)' <=> Pending(s))
      BY <2>1, <2>4, <3>1
    <3> QED BY <2>1, <3>1, <3>2 DEF Pump, On
  <2>3. CASE ~Unbound(at)
    <3>1. /\ live[at] /\ Hears(Pump(at), control[at])
          /\ \/ pc' = "read" /\ at' = at + 1
             \/ pc' = "slowSync" /\ at' = at
      BY <1>11, <2>1, <2>3 DEF Read, Done
    <3>2. Held(at) => control[at] # "local" BY <2>1, <2>3 DEF HoldInv
    <3>5. /\ \A s \in Slots : s # at /\ live[s] => quiet'[Pump(s)] = quiet[Pump(s)]
          /\ Held(at) => quiet'[Pump(at)] = 0
          /\ \A s \in Slots : Pump(s)' = Pump(s)
      BY <2>1, <3>1, <3>2, HeardOnly
    <3>6. \A s \in Slots : s # at => (Pending(s)' <=> Pending(s))
      BY <2>1, <2>4, <3>1
    <3> QED BY <2>1, <3>1, <3>2, <3>5, <3>6
  <2> QED BY <2>2, <2>3
<1>12. CASE EndPoll
  <2>1. /\ UNCHANGED <<wiring, word, quiet, mode, conn, live, due>>
        /\ pc = "read" /\ pc' = "idle" /\ \A s \in Slots : s < at
    BY <1>12 DEF EndPoll, Sane, CursorOK, Slots
  <2> QED BY <1>s, <2>1 DEF Pump, On, Sane, CursorOK
<1>13. CASE Told
  <2>1. /\ UNCHANGED <<wiring, mode, conn, live, at, due>> /\ pc = "told"
        /\ pc' \in {"holdSync", "idle"}
        /\ live[at] /\ at \in Slots /\ Hears(Pump(at), control[at])
    BY <1>13 DEF Told, Sane, OnEntry
  <2>2. Held(at) => control[at] # "local" BY <2>1, LivePump DEF HoldInv
  <2> QED BY <2>1, <2>2, HeardOnly
<1>14. CASE LinkError
  <2>1. at \in Slots /\ Close(at) /\ UNCHANGED <<wiring, mode, due>>
    BY <1>14 DEF LinkError, Sane, OnEntry
  <2>2. /\ conn'[at] = NoPort /\ live'[at] = FALSE
        /\ \A t \in Slots \ {at} : conn'[t] = conn[t] /\ live'[t] = live[t]
    BY <2>1, CloseLinks DEF Unbound
  <2>3. \A q \in Pumps : (live[at] => q # Pump(at)) => quiet'[q] = quiet[q]
    <3>1. CASE live[at]
      <4>1. Hears(Pump(at), control[at]) \/ UNCHANGED quiet
        BY <1>14, <3>1 DEF LinkError
      <4> QED BY <3>1, <4>1, HearsIs
    <3>2. CASE ~live[at] BY <1>14, <3>2 DEF LinkError
    <3> QED BY <3>1, <3>2
  <2>4. \A s \in Slots :
           live[s] /\ s # at => quiet'[Pump(s)] = quiet[Pump(s)] /\ Pump(s)' = Pump(s)
    BY <2>1, <2>2, <2>3, Apart, LivePump DEF Pump, On
  <2>5. \/ pc \in {"ask", "tell", "bindSync"} /\ (pc' = "match" \/ (pc' = "read" /\ at' = 1))
        \/ pc \in {"read", "slowSync"} /\ pc' = "read" /\ at' = at + 1
        \/ pc \in {"told", "release", "holdSync"} /\ pc' = "idle"
    BY <1>14 DEF LinkError, Done
  <2> QED BY <1>s, <2>1, <2>2, <2>4, <2>5
<1> QED BY <1>1, <1>2, <1>3, <1>4, <1>5, <1>6, <1>7, <1>8, <1>9, <1>10, <1>11, <1>12,
           <1>13, <1>14 DEF Operation

(* A tick without a poll in between is the only way to fall silent.        *)
LEMMA FreshOther ==
  ASSUME Sane, LinkInv, HoldInv, FitInv, FreshInv, Command \/ World \/ Process \/ Tick
  PROVE  FreshInv'
<1> USE DEF cables, pumps, config, holds, links, disk, finding, cursor, history
<1> USE Basics DEF FreshInv, Asking, Telling, Held, Midway, Pending
<1>a. \A s \in Slots : live[s] => Pump(s) \in Pumps /\ ~Unbound(s) /\ conn[s] \in Ports
  BY LivePump
<1>e. pc \in Asking \cup Telling => at \in Slots BY DEF Sane, OnEntry
<1>1. CASE Enable BY <1>1 DEF Enable, Pump, On
<1>2. ASSUME NEW s \in Slots, NEW m \in Words, SetMode(s, m) PROVE FreshInv'
  <2>1. /\ UNCHANGED <<wiring, word, conn, live, due>> /\ pc = "idle" /\ at' = s
        /\ Accepts(s, m) /\ pc' \in {"idle", "told", "release"} /\ (Unbound(s) \/ pc' # "idle")
        /\ (pc' = "release" => m = "local")
    BY <1>2 DEF SetMode
  <2>2. mode'[s] = m /\ \A t \in Slots \ {s} : mode'[t] = mode[t]
    BY <1>2 DEF SetMode, Sane, HoldsOK
  <2>3. \A q \in Pumps : quiet'[q] = quiet[q] \/ quiet'[q] = 0
    BY <1>2 DEF SetMode, Sane, HistoryOK
  <2>4. \A t \in Slots : Pump(t)' = Pump(t) BY <2>1 DEF Pump, On
  <2>5. live[s] /\ m # "local" => quiet'[Pump(s)] = 0
    <3> SUFFICES ASSUME live[s], m # "local" PROVE quiet'[Pump(s)] = 0 OBVIOUS
    <3>1. Pump(s) = pinned[s] /\ pinned[s] \in Pumps /\ pinned[s] # NoPump
      BY <1>a, <2>1 DEF Accepts, LinkInv, IsIts
    <3>2. quiet' = [quiet EXCEPT ![pinned[s]] = 0] BY <1>2, <3>1 DEF SetMode
    <3> QED BY <3>1, <3>2 DEF Sane, HistoryOK
  <2> QED BY <1>a, <2>1, <2>2, <2>3, <2>4, <2>5
<1>3. ASSUME NEW q \in Ports, Unplug(q) PROVE FreshInv'
  <2>1. /\ UNCHANGED <<word, quiet, conn, pc, at, mode, due, kept>>
        /\ \A r \in Ports : r # q => wiring'[r] = wiring[r]
        /\ \A s \in Slots : live'[s] = (live[s] /\ conn[s] # q)
    BY <1>3 DEF Unplug, DeadOn, Sane, PumpsOK
  <2>2. \A s \in Slots : live'[s] => Pump(s)' = Pump(s) /\ live[s]
    BY <1>a, <2>1 DEF Pump, On
  <2> QED BY <1>e, <2>1, <2>2
<1>4. ASSUME NEW q \in Ports, NEW p \in Pumps, Plug(p, q) PROVE FreshInv'
  <2>1. /\ UNCHANGED <<word, quiet, conn, live, pc, at, mode, due, kept>>
        /\ \A r \in Ports : r # q => wiring'[r] = wiring[r]
        /\ wiring[q] = NoPump
    BY <1>4 DEF Plug, Sane, PumpsOK
  <2>2. \A s \in Slots : live[s] => Pump(s)' = Pump(s)
    BY <1>a, <2>1 DEF LinkInv, Pump, On
  <2> QED BY <1>e, <2>1, <2>2
<1>5. ASSUME NEW p \in Pumps, SupplyCycle(p) PROVE FreshInv'
  <2>1. /\ UNCHANGED <<wiring, quiet, conn, pc, at, mode, due, kept>>
        /\ \A s \in Slots : live'[s] => live[s] /\ Pump(s) # p
        /\ \A q \in Pumps : q # p => word'[q] = word[q]
    BY <1>5 DEF SupplyCycle, Sane, PumpsOK
  <2>2. \A s \in Slots :
           live'[s] => word'[Pump(s)] = word[Pump(s)] /\ Pump(s)' = Pump(s) /\ live[s]
    BY <1>a, <2>1 DEF Pump, On
  <2> QED BY <1>e, <2>1, <2>2
<1>6. CASE Crash BY <1>6 DEF Crash, Down
<1>7. CASE Stop BY <1>7 DEF Stop, Down
<1>8. CASE Start
  <2>1. UNCHANGED <<live, pc, at>> /\ ~alive BY <1>8 DEF Start
  <2> QED BY <2>1 DEF LinkInv
<1>9. CASE Configure BY <1>9 DEF Configure, Pump, On
<1>10. CASE PollFails BY <1>10 DEF PollFails
<1>11. CASE Tick
  <2>1. /\ UNCHANGED <<wiring, conn, live, pc, at, mode>>
        /\ pc = "idle"
        /\ ~due
        /\ due' = alive
    BY <1>11 DEF Tick
  <2>2. \A q \in Pumps : quiet[q] = 0 => quiet'[q] = 1
    BY <1>11 DEF Tick, Capped
  <2>3. \A s \in Slots : Pump(s)' = Pump(s) BY <2>1 DEF Pump, On
  <2>4. \A s \in Slots : live[s] => due' BY <1>a, <2>1 DEF LinkInv, Sane, CursorOK
  <2> QED BY <1>a, <2>1, <2>2, <2>3, <2>4
<1> QED BY <1>1, <1>2, <1>3, <1>4, <1>5, <1>6, <1>7, <1>8, <1>9, <1>10, <1>11
           DEF Command, World, Process

-----------------------------------------------------------------------------
(* The whole, and what follows from it.                                    *)

(* The inductive invariant.                                                *)
DriveInv == Sane /\ LinkInv /\ HoldInv /\ FitInv /\ AwayInv /\ FreshInv

(* It holds at first,                                                      *)
LEMMA DriveInit == Init => DriveInv
BY SaneInit, InitLink, InitHold, InitFit, InitAway, InitFresh DEF DriveInv

(* every step keeps it,                                                    *)
LEMMA DriveNext == DriveInv /\ [Next]_vars => DriveInv'
<1> SUFFICES ASSUME DriveInv, [Next]_vars PROVE DriveInv' OBVIOUS
<1> USE DEF DriveInv
<1>1. CASE Operation
  <2>1. Sane' /\ LinkInv' /\ HoldInv' BY <1>1, SaneOperation, LinkOperation, HoldOperation
  <2>2. FitInv' BY <1>1, FitOperation
  <2>3. FreshInv' BY <1>1, FreshOperation
  <2>4. AwayInv' BY AwayNext
  <2> QED BY <2>1, <2>2, <2>3, <2>4
<1>2. CASE Command \/ World \/ Process \/ Tick
  <2>1. Sane' BY <1>2, SaneCommand, SaneWorld, SaneProcess, SaneTick
  <2>2. LinkInv' /\ HoldInv' BY <1>2, LinkOther, HoldOther
  <2>3. FitInv' BY <1>2, FitOther
  <2>4. FreshInv' BY <1>2, FreshOther
  <2>5. AwayInv' BY AwayNext
  <2> QED BY <2>1, <2>2, <2>3, <2>4, <2>5
<1>3. CASE UNCHANGED vars
  BY <1>3 DEF vars, cables, pumps, config, holds, links, disk, finding, cursor, history,
      Sane, PumpsOK, HoldsOK, LinksOK, CursorOK, HistoryOK, OnEntry, LinkInv, HoldInv, FitInv,
      AwayInv, FreshInv, Pump, On, Unbound, IsIts, PinnedSet, Taken, Held, Midway, Pending
<1> QED BY <1>1, <1>2, <1>3 DEF Next

(* and so it always holds.                                                 *)
LEMMA DriveAlways == Spec => []DriveInv
BY DriveInit, DriveNext, PTL DEF Spec

(* Every variable has its type, a mode other than "local" is always some   *)
(* pump's, and a link that works leads to a pump (_set_mode, _bind, _drop). *)
THEOREM TypeCorrect == Spec => []TypeOK
<1>1. DriveInv => TypeOK
  BY LivePump DEF DriveInv, TypeOK, Sane, HoldInv, LinkInv, Held
<1> QED BY <1>1, DriveAlways, PTL

(* Between operations parameter 182 of a connected keep_command pump is 0  *)
(* exactly while the entry holds it (_sync_watchdog, at every place it is  *)
(* called from), whatever exchange was lost, and however the pump came back. *)
THEOREM Fits == Spec => []WatchdogFits
<1>1. DriveInv => WatchdogFits
  BY DEF DriveInv, FitInv, WatchdogFits, Held, Midway, Asking, Telling
<1> QED BY <1>1, DriveAlways, PTL

(* A telegram of an operation either tells nothing or tells the pump under *)
(* the entry's hold the word of its mode, which is on disk, and wakes a pump *)
(* that had let go only while the hold is young enough.                    *)
LEMMA Spoken ==
  ASSUME DriveInv, at \in Slots, live[at], Hears(Pump(at), control[at]),
         pc \in {"ask", "tell", "bindSync", "read", "slowSync", "told", "release", "holdSync"}
  PROVE  \/ word' = word
         \/ /\ Held(at) /\ Pump(at) \in Pumps
            /\ word' = [word EXCEPT ![Pump(at)] = mode[at]]
            /\ saved[at].mode = mode[at] /\ saved[at].pump = Pump(at)
            /\ word[Pump(at)] = "local" => quiet[Pump(at)] <= ResumeMax
<1> USE DEF DriveInv
<1>1. Pump(at) \in Pumps /\ ~Unbound(at) BY LivePump
<1>2. CASE control[at] = "local" BY <1>2 DEF Hears
<1>3. CASE control[at] # "local"
  <2>1. word' = [word EXCEPT ![Pump(at)] = control[at]] BY <1>3 DEF Hears
  <2>2. CASE pc = "release"
    <3>1. word[Pump(at)] = control[at] BY <1>3, <2>2 DEF FitInv
    <3> QED BY <1>1, <2>1, <3>1 DEF Sane, PumpsOK
  <2>3. CASE pc # "release"
    <3>1. pc \notin Asking BY <1>1, <1>3 DEF HoldInv, Asking
    <3>2. control[at] = mode[at] /\ Held(at) BY <1>1, <1>3, <2>3, <3>1 DEF HoldInv, Held
    <3>3. held[at] = Pump(at) /\ saved[at].mode = mode[at] /\ saved[at].pump = held[at]
      BY <3>1, <3>2 DEF HoldInv, LinkInv, Sane, CursorOK
    <3>4. word[Pump(at)] = "local" => quiet[Pump(at)] <= ResumeMax
      <4>1. CASE pc \in {"bindSync", "holdSync"} BY <3>2, <4>1 DEF FitInv, Held
      <4>2. CASE pc = "tell" BY <3>2, <4>2 DEF FreshInv
      <4>3. CASE pc = "told" BY <3>2, <4>3, Basics DEF FreshInv
      <4>4. CASE pc \in {"read", "slowSync"}
        <5>1. quiet[Pump(at)] \in {0, 1} BY <3>2, <4>4 DEF FreshInv, Midway, Asking, Telling
        <5> QED BY <5>1, Basics, TimesAssumption
      <4> QED BY <2>3, <3>1, <4>1, <4>2, <4>3, <4>4 DEF Asking
    <3> QED BY <1>1, <2>1, <3>2, <3>3, <3>4
  <2> QED BY <2>2, <2>3
<1> QED BY <1>2, <1>3

(* What a step may do to the pumps' words and to the orders: a hold is given *)
(* up, a pump is told what its entry says, pumps fall back, or a command is *)
(* taken.                                                                  *)
GivesUp == /\ pc = "resume" /\ at \in Slots /\ Held(at) /\ alive
           /\ saved'[at].mode = "local" /\ word' = word
           /\ order' = [order EXCEPT ![held[at]] = "local"]
Speaks  == /\ at \in Slots /\ live[at] /\ Held(at) /\ Pump(at) \in Pumps
           /\ word' = [word EXCEPT ![Pump(at)] = mode[at]]
           /\ saved[at].mode = mode[at] /\ saved[at].pump = Pump(at)
           /\ word[Pump(at)] = "local" => quiet[Pump(at)] <= ResumeMax
           /\ order' = order
Silenced == /\ \E P \in SUBSET Pumps :
                  word' = [p \in Pumps |-> IF p \in P THEN "local" ELSE word[p]]
            /\ order' = order
Ordered == \E s \in Slots, m \in Words, p \in Pumps :
             SetMode(s, m) /\ p = (IF m = "local" THEN held[s] ELSE pinned[s])
             /\ order' = [order EXCEPT ![p] = m] /\ word' = word

(* There is nothing else a step may do to them.                            *)
LEMMA WordSteps ==
  ASSUME DriveInv, [Next]_vars
  PROVE  (UNCHANGED <<word, order>>) \/ GivesUp \/ Speaks \/ Silenced \/ Ordered
<1> USE DEF cables, pumps, config, holds, links, disk, finding, cursor, history
<1>1. CASE Resume
  <2>1. pc = "resume" /\ at \in Slots /\ alive
    BY <1>1 DEF Resume, DriveInv, Sane, OnEntry, LinkInv, CursorOK
  <2>2. CASE mode[at] = "local" \/ Resumes(at, Pump(at)) BY <1>1, <2>2 DEF Resume
  <2>3. CASE mode[at] # "local" /\ ~Resumes(at, Pump(at))
    <3>1. Save(mode', held', contact) /\ mode'[at] = "local" /\ word' = word
          /\ order' = [order EXCEPT ![held[at]] = "local"]
      BY <1>1, <2>1, <2>3 DEF Resume, DriveInv, Sane, HoldsOK
    <3> QED BY <2>1, <2>3, <3>1, SavedIs DEF GivesUp, Held
  <2> QED BY <2>2, <2>3
<1>2. CASE Tell
  BY <1>2, Spoken DEF Tell, Speaks, DriveInv, Sane, OnEntry
<1>3. CASE Sync
  BY <1>3, Spoken DEF Sync, Speaks, DriveInv, Sane, OnEntry
<1>4. CASE Told
  BY <1>4, Spoken DEF Told, Speaks, DriveInv, Sane, OnEntry
<1>5. CASE Read
  BY <1>5, Spoken DEF Read, Speaks
<1>6. CASE LinkError
  <2>1. /\ at \in Slots /\ UNCHANGED order
        /\ pc \in {"ask", "tell", "bindSync", "read", "slowSync", "told", "release", "holdSync"}
    BY <1>6 DEF LinkError, DriveInv, Sane, OnEntry
  <2>2. (live[at] /\ Hears(Pump(at), control[at])) \/ UNCHANGED word
    BY <1>6 DEF LinkError
  <2> QED BY <2>1, <2>2, Spoken DEF Speaks
<1>7. ASSUME NEW s \in Slots, NEW m \in Words, SetMode(s, m)
      PROVE  Ordered \/ UNCHANGED <<word, order>>
  <2> DEFINE p == IF m = "local" THEN held[s] ELSE pinned[s]
  <2>1. CASE p = NoPump BY <1>7, <2>1 DEF SetMode
  <2>2. CASE p # NoPump
    <3>1. p \in Pumps BY <2>2 DEF DriveInv, Sane, HoldsOK, LinksOK
    <3>2. order' = [order EXCEPT ![p] = m] /\ word' = word BY <1>7, <2>2 DEF SetMode
    <3> QED BY <1>7, <3>1, <3>2 DEF Ordered
  <2> QED BY <2>1, <2>2
<1>8. ASSUME NEW p \in Pumps, SupplyCycle(p) PROVE Silenced
  <2>1. word' = [q \in Pumps |-> IF q \in {p} THEN "local" ELSE word[q]] /\ order' = order
    BY <1>8 DEF SupplyCycle, DriveInv, Sane, PumpsOK
  <2> QED BY <2>1 DEF Silenced
<1>9. CASE Tick
  <2> DEFINE P == {p \in Pumps : LetsGo(p, heard'[p])}
  <2>1. word' = [q \in Pumps |-> IF q \in P THEN "local" ELSE word[q]] /\ order' = order
    BY <1>9 DEF Tick
  <2> QED BY <2>1 DEF Silenced
<1> QED
  BY <1>1, <1>2, <1>3, <1>4, <1>5, <1>6, <1>7, <1>8, <1>9
  DEF Next, Operation, Command, World, Process, vars, Poll, Probe, Probed, Match,
      Open, OpenFails, Ask, EndPoll, Enable, Unplug, Plug, Crash, Stop, Start,
      Configure, PollFails

(* Whatever a pump is made to do is on disk before the pump hears of it    *)
(* (_set_mode saves before it tells), so that no crash leaves a pump running *)
(* that the next process knows nothing of.                                 *)
THEOREM SavedBefore == Spec => SavedFirst
<1>1. DriveInv /\ [Next]_vars =>
        [\A p \in Pumps : word'[p] # word[p] /\ word'[p] # "local"
           => \E s \in Slots : saved[s].mode = word'[p] /\ saved[s].pump = p]_vars
  <2> SUFFICES ASSUME DriveInv, [Next]_vars, NEW p \in Pumps,
                      word'[p] # word[p], word'[p] # "local"
               PROVE  \E s \in Slots : saved[s].mode = word'[p] /\ saved[s].pump = p
    OBVIOUS
  <2>1. Speaks BY WordSteps DEF GivesUp, Silenced, Ordered
  <2> QED BY <2>1 DEF Speaks, DriveInv, Sane, PumpsOK
<1> QED BY <1>1, DriveAlways, PTL DEF Spec, SavedFirst

(* A pump that has let go of its command, because its supply was cycled or *)
(* it heard nothing for its patience, is driven again only within          *)
(* resume_max_s of the last time it heard the command or of the command    *)
(* itself (_resume, last_contact in turbovac_state.json), through any number *)
(* of restarts, moved cables and edits of config.yaml.                     *)
THEOREM ResumesInTime == Spec => ResumeInTime
<1>1. DriveInv /\ [Next]_vars =>
        [\A p \in Pumps : word[p] = "local" /\ word'[p] # "local" => quiet[p] <= ResumeMax]_vars
  <2> SUFFICES ASSUME DriveInv, [Next]_vars, NEW p \in Pumps,
                      word[p] = "local", word'[p] # "local"
               PROVE  quiet[p] <= ResumeMax
    OBVIOUS
  <2>1. Speaks BY WordSteps DEF GivesUp, Silenced, Ordered
  <2> QED BY <2>1 DEF Speaks, DriveInv, Sane, PumpsOK
<1> QED BY <1>1, DriveAlways, PTL DEF Spec, ResumeInTime

(* No two entries have a hold of one pump on disk.  They may once a pump   *)
(* has been moved, in config.yaml, from an entry to another and back while *)
(* the first had no pump: holds are saved by entry, so the older of the    *)
(* two can then be resumed over the newer order.                           *)
HoldsDiffer ==
  \A s, t \in Slots : saved[s].mode # "local" /\ saved[s].pump = saved[t].pump => s = t

(* What an entry holds its pump for is the order in force for that pump.   *)
OrderInv == \A s \in Slots : saved[s].mode # "local" => order[saved[s].pump] = saved[s].mode

(* Nothing is held at first.                                               *)
LEMMA InitOrder == Init => OrderInv
BY DEF Init, OrderInv, NoHold

(* A hold on disk is an old one or one a command has just made.            *)
LEMMA SavedSteps ==
  ASSUME DriveInv, [Next]_vars, NEW s \in Slots, saved'[s].mode # "local"
  PROVE  \/ saved'[s].mode = saved[s].mode /\ saved'[s].pump = saved[s].pump
         \/ \E m \in Words : SetMode(s, m) /\ saved'[s].mode = m /\ saved'[s].pump = pinned[s]
<1> DEFINE Same == saved'[s].mode = saved[s].mode /\ saved'[s].pump = saved[s].pump
<1> DEFINE New(m) == SetMode(s, m) /\ saved'[s].mode = m /\ saved'[s].pump = pinned[s]
<1> USE DEF cables, pumps, config, holds, links, disk, finding, cursor, history
<1>1. CASE Resume
  <2>1. at \in Slots /\ pc = "resume" /\ alive
    BY <1>1 DEF Resume, DriveInv, Sane, OnEntry, LinkInv, CursorOK
  <2>2. CASE mode[at] = "local" \/ Resumes(at, Pump(at)) BY <1>1, <2>2 DEF Resume
  <2>3. CASE mode[at] # "local" /\ ~Resumes(at, Pump(at))
    <3>1. /\ Save(mode', held', contact)
          /\ \A t \in Slots \ {at} : mode'[t] = mode[t] /\ held'[t] = held[t]
      BY <1>1, <2>1, <2>3 DEF Resume, DriveInv, Sane, HoldsOK
    <3>2. mode'[at] = "local" BY <1>1, <2>1, <2>3 DEF Resume, DriveInv, Sane, HoldsOK
    <3> QED BY <2>1, <3>1, <3>2, SavedIs DEF DriveInv, HoldInv, LinkInv
  <2> QED BY <2>2, <2>3
<1>2. CASE EndPoll
  <2>1. Save(mode, held, contact) \/ UNCHANGED saved BY <1>2 DEF EndPoll
  <2>2. alive BY <1>2 DEF EndPoll, DriveInv, LinkInv, Sane, CursorOK
  <2> QED BY <2>1, <2>2, SavedIs DEF DriveInv, HoldInv
<1>3. CASE Stop
  <2>1. Save(mode, held, contact) /\ alive BY <1>3 DEF Stop
  <2> QED BY <2>1, SavedIs DEF DriveInv, HoldInv
<1>4. ASSUME NEW t \in Slots, NEW m \in Words, SetMode(t, m)
      PROVE  Same \/ New(m)
  <2>1. Save(mode', held', contact') /\ alive BY <1>4 DEF SetMode, Saves
  <2>2. saved'[s].mode = mode'[s] /\ saved'[s].pump = held'[s] BY <1>4, <2>1, SavedIs
  <2>3. CASE s = t BY <1>4, <2>2, <2>3 DEF SetMode, DriveInv, Sane, HoldsOK
  <2>4. CASE s # t
    <3>1. mode'[s] = mode[s] /\ held'[s] = held[s]
      BY <1>4, <2>4 DEF SetMode, DriveInv, Sane, HoldsOK
    <3> QED BY <2>1, <2>2, <3>1 DEF DriveInv, HoldInv
  <2> QED BY <2>3, <2>4
<1>5. CASE Tick BY <1>5 DEF Tick, DriveInv, Sane, HoldsOK
<1>6. CASE UNCHANGED saved BY <1>6
<1>7. CASE Command
  <2>1. CASE Enable BY <2>1, <1>6 DEF Enable
  <2>2. CASE \E t \in Slots, m \in Words : SetMode(t, m) BY <2>2, <1>4
  <2> QED BY <1>7, <2>1, <2>2 DEF Command
<1>8. CASE Operation \/ World \/ Process \/ UNCHANGED vars
  BY <1>1, <1>2, <1>3, <1>6, <1>8
  DEF Operation, World, Process, vars, Poll, Probe, Probed, Match,
      Open, OpenFails, Ask, Tell, Sync, Read, Told, LinkError, Unplug, Plug,
      SupplyCycle, Crash, Start,
      Configure, PollFails
<1> QED BY <1>5, <1>7, <1>8 DEF Next

(* Every step keeps hold and order together as long as holds differ.       *)
LEMMA OrderNext ==
  ASSUME DriveInv, OrderInv, HoldsDiffer, HoldsDiffer', [Next]_vars
  PROVE  OrderInv'
<1> SUFFICES ASSUME NEW s \in Slots, saved'[s].mode # "local"
             PROVE  order'[saved'[s].pump] = saved'[s].mode
  BY DEF OrderInv
<1> USE DEF DriveInv
<1>1. ASSUME NEW m \in Words, SetMode(s, m), saved'[s].mode = m, saved'[s].pump = pinned[s]
      PROVE  order'[saved'[s].pump] = saved'[s].mode
  <2>1. m # "local" /\ pinned[s] \in Pumps /\ pinned[s] # NoPump
    BY <1>1, Basics DEF SetMode, Accepts, Sane, LinksOK
  <2>2. order' = [order EXCEPT ![pinned[s]] = m] BY <1>1, <2>1 DEF SetMode
  <2> QED BY <1>1, <2>1, <2>2 DEF Sane, HistoryOK
<1>2. CASE saved'[s].mode = saved[s].mode /\ saved'[s].pump = saved[s].pump
  <2>1. /\ saved[s].mode # "local"
        /\ saved[s].pump \in Pumps
        /\ order[saved[s].pump] = saved[s].mode
    BY <1>2 DEF OrderInv, HoldInv, Sane, HoldsOK
  <2>2. CASE order' = order BY <1>2, <2>1, <2>2
  <2>3. CASE GivesUp
    <3>1. saved[at].pump = held[at] /\ saved[at].mode # "local" /\ at \in Slots
      BY <2>3 DEF GivesUp, HoldInv, Held
    <3>2. s # at BY <2>3 DEF GivesUp
    <3>3. saved[s].pump # held[at] BY <2>1, <3>1, <3>2 DEF HoldsDiffer
    <3> QED BY <1>2, <2>1, <2>3, <3>3 DEF GivesUp, Sane, HistoryOK
  <2>4. CASE Ordered
    <3>1. PICK t \in Slots, m \in Words, p \in Pumps :
             SetMode(t, m) /\ p = (IF m = "local" THEN held[t] ELSE pinned[t])
             /\ order' = [order EXCEPT ![p] = m]
      BY <2>4 DEF Ordered
    <3>2. CASE p # saved[s].pump BY <1>2, <2>1, <3>1, <3>2 DEF Sane, HistoryOK
    <3>3. CASE p = saved[s].pump
      <4>1. Save(mode', held', contact') /\ alive BY <3>1 DEF SetMode, Saves
      <4>5. mode'[t] = m /\ held'[t] = (IF m = "local" THEN NoPump ELSE pinned[t])
        BY <3>1 DEF SetMode, Sane, HoldsOK
      <4>2. saved'[t].mode = m /\ (m # "local" => saved'[t].pump = pinned[t])
        BY <4>1, <4>5, SavedIs
      <4>3. CASE m # "local"
        <5>1. s = t BY <1>2, <2>1, <3>1, <3>3, <4>2, <4>3 DEF HoldsDiffer
        <5> QED BY <1>2, <2>1, <3>1, <3>3, <4>2, <5>1 DEF Sane, HistoryOK
      <4>4. CASE m = "local"
        <5>1. saved[t].pump = p BY <3>1, <4>1, <4>4 DEF HoldInv
        <5>2. s = t BY <2>1, <3>3, <5>1 DEF HoldsDiffer
        <5> QED BY <1>2, <2>1, <4>2, <4>4, <5>2
      <4> QED BY <4>3, <4>4
    <3> QED BY <3>2, <3>3
  <2> QED BY <2>2, <2>3, <2>4, WordSteps DEF Speaks, Silenced
<1> QED BY <1>1, <1>2, SavedSteps

(* So they stay together in a behaviour in which holds always differ.      *)
LEMMA OrderAlways == Spec /\ []HoldsDiffer => []OrderInv
BY InitOrder, OrderNext, DriveAlways, PTL DEF Spec

(* The driver and its pumps implement PumpCommand: a pump is driven only as *)
(* the order in force for that very pump says, through moved cables, lost  *)
(* replies, crashes and edits of config.yaml, as long as no two entries come *)
(* to hold one pump.                                                       *)
THEOREM OrdersHeld == Spec /\ []HoldsDiffer => OrdersObeyed
<1>1. Init => Abstract!Init BY DEF Init, Abstract!Init
<1>2. DriveInv /\ OrderInv /\ [Next]_vars => [Abstract!Next]_<<order, word>>
  <2> SUFFICES ASSUME DriveInv, OrderInv, [Next]_vars
               PROVE  Abstract!Next \/ UNCHANGED <<order, word>>
    OBVIOUS
  <2>1. CASE GivesUp
    <3>1. held[at] \in Pumps /\ "local" \in Abstract!Words
      BY <2>1 DEF GivesUp, DriveInv, HoldInv, Sane, HoldsOK, Abstract!Words
    <3> QED BY <2>1, <3>1 DEF GivesUp, Abstract!Next, Abstract!Order
  <2>2. CASE Speaks
    <3>1. order[Pump(at)] = mode[at] /\ mode[at] # "local" BY <2>2 DEF Speaks, OrderInv, Held
    <3> QED BY <2>2, <3>1 DEF Speaks, Abstract!Next, Abstract!Obey
  <2>3. CASE Silenced BY <2>3 DEF Silenced, Abstract!Next, Abstract!LetGo
  <2>4. CASE Ordered
    BY <2>4 DEF Ordered, Words, Abstract!Next, Abstract!Order, Abstract!Words
  <2> QED BY <2>1, <2>2, <2>3, <2>4, WordSteps
<1> QED BY <1>1, <1>2, DriveAlways, OrderAlways, PTL DEF Spec, OrdersObeyed, Abstract!Spec

(* A pump is told to never let go only by the entry that holds it.         *)
LEMMA KeepSteps ==
  ASSUME DriveInv, OrderInv, [Next]_vars, NEW p \in Pumps, ~keeps[p], keeps'[p]
  PROVE  order[p] # "local"
<1> USE DEF cables, pumps, config, holds, links, disk, finding, cursor, history
<1>1. ASSUME pc \in {"bindSync", "slowSync", "release", "holdSync"}, at \in Slots, live[at],
             Keeps(Pump(at), Wanted(at))
      PROVE  order[p] # "local"
  <2>1. p = Pump(at) /\ mode[at] # "local" BY <1>1 DEF Keeps, Wanted, DriveInv, Sane, PumpsOK
  <2>2. held[at] = p BY <1>1, <2>1 DEF DriveInv, HoldInv, Held, Asking
  <2>3. saved[at].mode = mode[at] /\ saved[at].pump = p
    BY <1>1, <2>1, <2>2 DEF DriveInv, HoldInv, LinkInv, Sane, CursorOK
  <2> QED BY <1>1, <2>1, <2>3 DEF OrderInv
<1>2. CASE Sync BY <1>1, <1>2 DEF Sync, DriveInv, Sane, OnEntry
<1>3. CASE LinkError
  <2>1. pc \notin {"idle", "scan", "match"} /\ at \in Slots
    BY <1>3 DEF LinkError, DriveInv, Sane, OnEntry
  <2> QED BY <1>1, <1>3, <2>1 DEF LinkError
<1>4. ASSUME NEW q \in Pumps, SupplyCycle(q) PROVE FALSE
  BY <1>4 DEF SupplyCycle, Keeps, DriveInv, Sane, PumpsOK
<1>5. CASE UNCHANGED keeps BY <1>5
<1> QED
  BY <1>2, <1>3, <1>4, <1>5
  DEF Next, Operation, Command, World, Process, vars, Poll, Probe, Probed, Match,
      Open, OpenFails, Ask, Resume, Tell, Read, Told, EndPoll, Enable, SetMode,
      Unplug, Plug, Crash, Stop, Start,
      Configure, PollFails, Tick

(* A pump is told to never let go (182 set to 0) only while an order for it *)
(* is in force, as long as no two entries come to hold one pump.           *)
THEOREM KeepsOnly == Spec /\ []HoldsDiffer => KeepsOnlyOrders
<1>1. DriveInv /\ OrderInv /\ [Next]_vars =>
        [\A p \in Pumps : ~keeps[p] /\ keeps'[p] => order[p] # "local"]_vars
  BY KeepSteps
<1> QED BY <1>1, DriveAlways, OrderAlways, PTL DEF Spec, KeepsOnlyOrders

(* One entry holds one pump.                                               *)
LEMMA OneHold == ASSUME NumSlots = 1, DriveInv PROVE HoldsDiffer
BY DEF HoldsDiffer, Slots

(* With one entry in config.yaml, as in the runs, both promises need no    *)
(* further assumption.                                                     *)
THEOREM OneEntry == ASSUME NumSlots = 1 PROVE Spec => OrdersObeyed /\ KeepsOnlyOrders
<1>1. DriveInv => HoldsDiffer BY OneHold
<1> QED BY <1>1, DriveAlways, OrdersHeld, KeepsOnly, PTL

(* Entries that keep their pumps hold no others.                           *)
PinInv == /\ Distinct(pinned)
          /\ \A s \in Slots : saved[s].mode # "local" => saved[s].pump = pinned[s]

(* Then no two of them hold one pump,                                      *)
LEMMA PinHolds == ASSUME DriveInv, PinInv PROVE HoldsDiffer
<1> SUFFICES ASSUME NEW s \in Slots, NEW t \in Slots, saved[s].mode # "local",
                    saved[s].pump = saved[t].pump
             PROVE  s = t
  BY DEF HoldsDiffer
<1>1. saved[t].mode # "local" /\ saved[s].pump # NoPump BY DEF DriveInv, HoldInv
<1> QED BY <1>1 DEF PinInv, Distinct

(* and no step changes that.                                               *)
LEMMA PinNext == ASSUME DriveInv, PinInv, [Next]_vars, [UNCHANGED pinned]_vars PROVE PinInv'
<1>1. pinned' = pinned BY DEF vars, config
<1>2. ASSUME NEW s \in Slots, saved'[s].mode # "local" PROVE saved'[s].pump = pinned[s]
  BY <1>2, SavedSteps DEF PinInv
<1> QED BY <1>1, <1>2 DEF PinInv, Distinct

(* With any number of entries, two in the repository's config.yaml, both   *)
(* promises hold as long as each entry keeps its serial number.            *)
THEOREM SameEntries == Spec /\ [][UNCHANGED pinned]_vars => OrdersObeyed /\ KeepsOnlyOrders
<1>1. Init => PinInv BY DEF Init, PinInv, NoHold
<1>2. DriveInv /\ PinInv /\ [Next]_vars /\ [UNCHANGED pinned]_vars => PinInv' BY PinNext
<1>3. DriveInv /\ PinInv => HoldsDiffer BY PinHolds
<1> QED BY <1>1, <1>2, <1>3, DriveAlways, OrdersHeld, KeepsOnly, PTL DEF Spec
=============================================================================
