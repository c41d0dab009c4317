--------------------------- MODULE SetpointsProofs ---------------------------
(***************************************************************************)
(* What is proved of Setpoints, for any zones, states, expressions,        *)
(* trackers, programs, commands, readings, runners and number of messages  *)
(* under way and of events.                                                *)
(***************************************************************************)
EXTENDS Setpoints, FiniteSetTheorems, SequenceTheorems, TLAPS

-----------------------------------------------------------------------------
(* What the variables hold.                                                *)

Snaps == [States -> [value : Int \cup {NoValue}, fresh : {"fresh", "stale", "invalid"}, age : Nat]]
Callers == STRING \cup {"gradient", "sequencer"}
Messages ==
  Command
  \cup [topic : {"pid/setpoint"}, zone : Zones, value : Int, by : Callers]
  \cup [topic : {"snapshot"}, states : Snaps, lag : Nat]
  \cup [topic : {"pid/status"}, zone : Zones, value : Int]

StoreTypes ==
  /\ entry \in [Inputs -> Readings \cup {NoValue}] /\ age \in [Inputs -> 0 .. Old]
  /\ kept \in [Kept -> Readings \cup {NoValue}]
  /\ storeDue \in BOOLEAN
Paired(t) == t.to = Never <=> t.sent = Never
TrackersTypes ==
  /\ trackers \in [Ids -> Tracker] /\ Ids \subseteq STRING
  /\ \A id \in Ids : Paired(trackers[id])
  /\ snap \in Snaps \cup {<<>>} /\ seen \in Snaps \cup {<<>>}
  /\ evalDue \in BOOLEAN
  /\ DOMAIN round \subseteq STRING
  /\ \A id \in DOMAIN round : (round[id] = <<>> /\ id \in Ids) \/ round[id] \in Tracker
  /\ writing # Nothing => /\ writing.id \in DOMAIN round
                          /\ writing.to \in Zones /\ writing.value \in Int
(* A runner at an item is at one of its points.                            *)
Runner == [pc : {"none", "starting", "next", "track", "hold"}, prog : Seq(Items), idx : Nat,
           sub : Nat, todo : Seq(Messages), left : Nat]
Begun == {"next", "track", "hold"}
SequencerTypes ==
  /\ items \in Seq(Items)
  /\ running \in BOOLEAN /\ abort \in BOOLEAN
  /\ active \subseteq SeqIds /\ leftover \subseteq SeqIds
  /\ runner \in [Runners -> Runner]
  /\ \A r \in Runners :
       /\ runner[r].pc \in Begun => runner[r].idx \in 1 .. Len(runner[r].prog) + 1
       /\ runner[r].pc \in {"track", "hold"} => runner[r].idx <= Len(runner[r].prog)
       /\ runner[r].pc \in Begun /\ runner[r].idx <= Len(runner[r].prog)
            => runner[r].sub \in 1 .. Points(Item(r))
       /\ runner[r].pc = "track" => Item(r).kind = "step"
GradientTypes ==
  /\ mode \in {"gradient", "absolute"} /\ base \in Int
  /\ {delta, abs, reg, retained} \subseteq [Zones -> Int]
  /\ expr \in [Zones -> Expression]
  /\ reportDue \in BOOLEAN
TypeInv ==
  /\ StoreTypes /\ TrackersTypes /\ SequencerTypes /\ GradientTypes
  /\ bus \in Seq(Messages)
  /\ snapAge \in Nat /\ unseen \in BOOLEAN

-----------------------------------------------------------------------------
(* Once the messages b are delivered, the last of them in M is in L; when  *)
(* none of them is in M, it is so that p.                                  *)
Settles(b, M, L, p) ==
  /\ \A n \in 1 .. Len(b) : b[n] \in M /\ (\A m \in n + 1 .. Len(b) : b[m] \notin M) => b[n] \in L
  /\ (\A n \in 1 .. Len(b) : b[n] \notin M) => p

(* The gradient controller.  While no setpoint has been commanded and no   *)
(* register moved since a report, each zone's last report is of what its   *)
(* register holds, and base and offsets follow the last report of any zone.*)
Reports(z)  == [topic : {"pid/status"}, zone : {z}, value : Int]
AllReports  == [topic : {"pid/status"}, zone : Zones, value : Int]
RightOne(z) == [topic : {"pid/status"}, zone : {z}, value : {reg[z]}]
Adopted == base = abs[Top] /\ delta = [z \in Zones |-> abs[z] - abs[Top]]
MirrorInv ==
  ~unseen =>
    /\ \A z \in Zones : Settles(bus, Reports(z), RightOne(z), abs[z] = reg[z])
    /\ Settles(bus, AllReports, AllReports, Adopted)

(* The store.  A snapshot is at most a tick old when it is delivered; once *)
(* a tick's snapshot is published, the last to come is of this tick.       *)
SnapMsgs    == [topic : {"snapshot"}, states : Snaps, lag : Nat]
ThisTick    == [topic : {"snapshot"}, states : Snaps, lag : {0}]
Honest(S)   == S # <<>> => \A s \in States : S[s].fresh # "invalid" =>
  \A i \in Timed \cap (IF s \in Inputs THEN {s} ELSE Derived[s]) : S[i].age <= InvalidAfter
Fine == {m \in Messages : m.topic = "snapshot" => m.lag <= 1 /\ Honest(m.states)}
AgeInv ==
  /\ bus \in Seq(Fine)
  /\ snap # <<>> => snapAge <= 1 /\ Honest(snap)
  /\ ~storeDue => Settles(bus, SnapMsgs, ThisTick, snapAge = 0)

None(topic)   == \A n \in 1 .. Len(bus) : bus[n].topic # topic
Single(topic) == \A n, m \in 1 .. Len(bus) : bus[n].topic = topic /\ bus[m].topic = topic => n = m

(* The trackers.  In a second in which the service was not started the     *)
(* snapshot changes once at most, and an evaluation goes by the one before *)
(* or the one after.  What it has published and not yet noted is what the  *)
(* tracker, untouched, wants by it.                                        *)
SnapInv ==
  /\ \/ Ids \subseteq touched
     \/ snap = lastSnap /\ None("snapshot")
     \/ ~storeDue /\ (None("snapshot") \/ (snap = lastSnap /\ Single("snapshot")))
  /\ DOMAIN round # {} => ~evalDue /\ (Ids \subseteq touched \/ seen \in {lastSnap, snap})
Good(t, S) == \/ S = <<>>
              \/ ~Usable(t, S)
              \/ t.sent # Never /\ t.to = t.target /\ Within(Goal(t, S), t.sent)
Listed(id) == id \in DOMAIN round /\ round[id] = <<>> /\ seen \in {lastSnap, snap}
DoneInv ==
  ~evalDue => \A id \in Ids \ touched : trackers[id].on /\ ~Retargeted(trackers[id]) =>
    Listed(id) \/ \E S \in {lastSnap, snap} : Good(trackers[id], S)
WriteInv ==
  /\ writing # Nothing
  /\ writing.id \in Ids \ touched
  /\ round[writing.id] = <<>>
  => /\ writing.to = trackers[writing.id].target
     /\ writing.value = Goal(trackers[writing.id], seen)
FollowInv == SnapInv /\ DoneInv /\ WriteInv

(* The sequencer, when nobody sends a run before the last one has begun:   *)
(* one thread runs, and the flag is up from its first step on.             *)
RunInv ==
  /\ \A r, q \in Runners : ~At(r, "none") /\ ~At(q, "none") => r = q
  /\ running <=> \E r \in Runners : runner[r].pc \in Begun
  /\ Single("sequencer/run")
  /\ None("sequencer/run") \/ \A r \in Runners : ~At(r, "starting")

(* A tracker of the sequencer's that is not the run's own will be gone     *)
(* once the bus is empty, or has still to be removed by this step.         *)
Sets(x)    == [topic : {"trackers/set"}, id : {x}, spec : Tracker]
Removes(x) == [topic : {"trackers/remove"}, id : {x}]
Gone(x)    == Settles(bus, Sets(x) \cup Removes(x), Removes(x), x \notin Ids)
Leaving(q, x) == \E n \in 1 .. Len(q) : q[n] \in Removes(x)
ForItem(m, i) == \/ m.topic = "trackers/set" /\ m.id \in Wanted(i)
                 \/ m.topic = "trackers/remove" /\ m.id \notin Wanted(i)
Owns(r) ==
  /\ runner[r].pc \notin {"track", "hold"} => runner[r].todo = <<>>
  /\ runner[r].pc \in {"next", "hold"} => \A x \in SeqIds \ (active \cup leftover) : Gone(x)
  /\ At(r, "track") =>
       /\ \A x \in SeqIds \ (Wanted(Item(r)) \cup leftover) : Gone(x) \/ Leaving(runner[r].todo, x)
       /\ \A n \in 1 .. Len(runner[r].todo) : ForItem(runner[r].todo[n], Item(r))
  /\ At(r, "hold") =>
       /\ Item(r).kind = "step" => active = Wanted(Item(r))
       /\ \A n \in 1 .. Len(runner[r].todo) : runner[r].todo[n].topic = "pid/setpoint"
OwnInv == \A r \in Runners : Owns(r)

-----------------------------------------------------------------------------
(* Sequences of what a finite set holds, and of messages.                  *)

LEMMA Enumerated ==
  ASSUME NEW S, IsFiniteSet(S)
  PROVE  /\ Cardinality(S) \in Nat
         /\ \E q \in [1 .. Cardinality(S) -> S] : \A x \in S : \E n \in DOMAIN q : q[n] = x
<1>1. Cardinality(S) \in Nat /\ ExistsBijection(1 .. Cardinality(S), S)
  BY FS_CardinalityType
<1>2. PICK q : q \in Bijection(1 .. Cardinality(S), S) BY <1>1 DEF ExistsBijection
<1>3. /\ q \in [1 .. Cardinality(S) -> S]
      /\ \A x \in S : \E n \in 1 .. Cardinality(S) : q[n] = x
  BY <1>2 DEF Bijection, Surjection, Injection
<1>4. DOMAIN q = 1 .. Cardinality(S) BY <1>3
<1> QED BY <1>1, <1>3, <1>4

LEMMA AsSeqLists ==
  ASSUME NEW S, IsFiniteSet(S)
  PROVE  /\ Cardinality(S) \in Nat
         /\ AsSeq(S) \in [1 .. Cardinality(S) -> S]
         /\ DOMAIN AsSeq(S) = 1 .. Cardinality(S)
         /\ \A x \in S : \E n \in 1 .. Cardinality(S) : AsSeq(S)[n] = x
<1>1. /\ AsSeq(S) \in [1 .. Cardinality(S) -> S]
      /\ \A x \in S : \E n \in DOMAIN AsSeq(S) : AsSeq(S)[n] = x
  BY Enumerated DEF AsSeq
<1> QED BY <1>1, Enumerated

LEMMA ZonesListed ==
  /\ Cardinality(Zones) \in Nat
  /\ ZoneSeq \in [1 .. Cardinality(Zones) -> Zones]
  /\ DOMAIN ZoneSeq = 1 .. Cardinality(Zones)
  /\ \A z \in Zones : \E n \in 1 .. Cardinality(Zones) : ZoneSeq[n] = z
<1>1. /\ ZoneSeq \in [1 .. Cardinality(Zones) -> Zones]
      /\ \A z \in Zones : \E n \in DOMAIN ZoneSeq : ZoneSeq[n] = z
  BY Enumerated, ZonesAssumption DEF ZoneSeq
<1> QED BY <1>1, Enumerated, ZonesAssumption

(* A function on 1 .. n is a sequence.                                     *)
LEMMA Listing ==
  ASSUME NEW n \in Nat, NEW S, NEW f \in [1 .. n -> S]
  PROVE  f \in Seq(S) /\ Len(f) = n /\ DOMAIN f = 1 .. n
<1>1. f \in Seq(S) BY SeqDef
<1>2. DOMAIN f = 1 .. n /\ DOMAIN f = 1 .. Len(f) /\ Len(f) \in Nat BY <1>1, LenProperties
<1> QED BY <1>1, <1>2

LEMMA SettlesStays ==
  ASSUME NEW S, NEW b \in Seq(S), NEW c \in Seq(S), NEW M, NEW L, NEW p,
         Settles(b, M, L, p), \A n \in 1 .. Len(c) : c[n] \notin M
  PROVE  Settles(b \o c, M, L, p)
<1> DEFINE d == b \o c
<1>1. /\ Len(d) = Len(b) + Len(c) /\ Len(b) \in Nat /\ Len(c) \in Nat
      /\ \A i \in 1 .. Len(b) : d[i] = b[i]
      /\ \A i \in Len(b) + 1 .. Len(d) : d[i] \notin M
  <2>1. /\ Len(d) = Len(b) + Len(c) /\ Len(b) \in Nat /\ Len(c) \in Nat
        /\ \A i \in 1 .. Len(b) + Len(c) : d[i] = IF i <= Len(b) THEN b[i] ELSE c[i - Len(b)]
    BY ConcatProperties, LenProperties
  <2> HIDE DEF d
  <2>2. \A i \in Len(b) + 1 .. Len(d) : i - Len(b) \in 1 .. Len(c) /\ d[i] = c[i - Len(b)] BY <2>1
  <2> QED BY <2>1, <2>2
<1> HIDE DEF d
<1>2. ASSUME NEW n \in 1 .. Len(d), d[n] \in M, \A m \in n + 1 .. Len(d) : d[m] \notin M
      PROVE  d[n] \in L
  <2>1. n \in 1 .. Len(b) BY <1>1, <1>2
  <2>2. \A m \in n + 1 .. Len(b) : b[m] \notin M BY <1>1, <1>2, <2>1
  <2> QED BY <1>1, <1>2, <2>1, <2>2 DEF Settles
<1>3. ASSUME \A n \in 1 .. Len(d) : d[n] \notin M PROVE p
  BY <1>1, <1>3 DEF Settles
<1> QED BY <1>2, <1>3 DEF Settles, d

LEMMA SettlesNew ==
  ASSUME NEW S, NEW b \in Seq(S), NEW c \in Seq(S), NEW M, NEW L, NEW p,
         NEW k \in 1 .. Len(c), c[k] \in M, \A n \in 1 .. Len(c) : c[n] \in M => c[n] \in L
  PROVE  Settles(b \o c, M, L, p)
<1> DEFINE d == b \o c
<1>1. /\ Len(d) = Len(b) + Len(c) /\ Len(b) \in Nat /\ Len(c) \in Nat
      /\ \A i \in 1 .. Len(b) + Len(c) : d[i] = IF i <= Len(b) THEN b[i] ELSE c[i - Len(b)]
  BY ConcatProperties, LenProperties
<1> HIDE DEF d
<1>2. Len(b) + k \in 1 .. Len(d) /\ d[Len(b) + k] \in M BY <1>1
<1>3. ASSUME NEW n \in 1 .. Len(d), d[n] \in M, \A m \in n + 1 .. Len(d) : d[m] \notin M
      PROVE  d[n] \in L
  <2>1. ~(n < Len(b) + k) BY <1>1, <1>2, <1>3
  <2>2. n - Len(b) \in 1 .. Len(c) /\ d[n] = c[n - Len(b)] BY <1>1, <2>1
  <2> QED BY <1>3, <2>2
<1> QED BY <1>2, <1>3 DEF Settles, d

LEMMA SettlesLater ==
  ASSUME NEW S, NEW b \in Seq(S), b # <<>>, NEW M, NEW L, NEW p, NEW q, Settles(b, M, L, p),
         Head(b) \in L => q, Head(b) \notin M => (p => q)
  PROVE  Settles(Tail(b), M, L, q)
<1> DEFINE c == Tail(b)
<1>1. /\ Len(c) = Len(b) - 1 /\ Len(b) \in Nat \ {0}
      /\ \A i \in 1 .. Len(c) : c[i] = b[i + 1]
      /\ Head(b) = b[1]
  BY HeadTailProperties, EmptySeq
<1> HIDE DEF c
<1>2. \A i \in 2 .. Len(b) : b[i] = c[i - 1] /\ i - 1 \in 1 .. Len(c) BY <1>1
<1>3. ASSUME NEW n \in 1 .. Len(c), c[n] \in M, \A m \in n + 1 .. Len(c) : c[m] \notin M
      PROVE  c[n] \in L
  <2>1. \A m \in n + 2 .. Len(b) : b[m] \notin M
    <3> SUFFICES ASSUME NEW m \in n + 2 .. Len(b) PROVE b[m] \notin M OBVIOUS
    <3>1. m - 1 \in n + 1 .. Len(c) /\ b[m] = c[m - 1] BY <1>1, <1>2
    <3> QED BY <1>3, <3>1
  <2>2. n + 1 \in 1 .. Len(b) /\ c[n] = b[n + 1] /\ (n + 1) + 1 = n + 2 BY <1>1
  <2> QED BY <1>3, <2>1, <2>2 DEF Settles
<1>4. ASSUME \A n \in 1 .. Len(c) : c[n] \notin M PROVE q
  <2>1. \A m \in 2 .. Len(b) : b[m] \notin M BY <1>2, <1>4
  <2>2. CASE Head(b) \in M
    <3>1. 1 \in 1 .. Len(b) /\ \A m \in 1 + 1 .. Len(b) : b[m] \notin M BY <1>1, <2>1
    <3>2. b[1] \in L BY <1>1, <2>2, <3>1 DEF Settles
    <3> QED BY <1>1, <3>2
  <2>3. CASE Head(b) \notin M
    <3>1. \A n \in 1 .. Len(b) : b[n] \notin M BY <1>1, <2>1, <2>3
    <3> QED BY <2>3, <3>1 DEF Settles
  <2> QED BY <2>2, <2>3
<1> QED BY <1>3, <1>4 DEF Settles, c

LEMMA SettlesEmpty ==
  ASSUME NEW M, NEW L, NEW p
  PROVE  Settles(<<>>, M, L, p) <=> p
BY DEF Settles

-----------------------------------------------------------------------------
(* Types: messages, snapshots, trackers, programs.                         *)

LEMMA MessageKinds ==
  ASSUME NEW m \in Messages
  PROVE  /\ m.topic = "trackers/set" => m.id \in STRING /\ m.spec \in Tracker
         /\ m.topic = "trackers/remove" => m.id \in STRING
         /\ m.topic = "trackers/enable" => m.id \in STRING /\ m.on \in BOOLEAN
         /\ m.topic = "sequencer/set" => m.items \in Seq(Items)
         /\ m.topic = "sequencer/append" => m.item \in Items
         /\ m.topic = "gradient/mode" => m.mode \in {"gradient", "absolute"}
         /\ m.topic = "gradient/base" => m.value \in Int
         /\ m.topic = "gradient/delta" => m.zone \in Zones /\ m.value \in Int
         /\ m.topic = "pid/setpoint" => m.zone \in Zones /\ m.value \in Int
         /\ m.topic = "pid/setpoint_expr" => m.zone \in Zones /\ m.expr \in Expression
         /\ m.topic = "pid/status" => m.zone \in Zones /\ m.value \in Int
         /\ m.topic = "snapshot" => m.states \in Snaps /\ m.lag \in Nat
BY DEF Messages, Command

LEMMA Arrived ==
  ASSUME bus \in Seq(Messages), NEW topic, Arrives(topic)
  PROVE  /\ bus # <<>> /\ Msg \in Messages /\ Msg.topic = topic /\ Msg = Head(bus)
         /\ Tail(bus) \in Seq(Messages) /\ Tail(bus) \o <<>> = Tail(bus)
<1>1. bus # <<>> /\ Head(bus).topic = topic BY DEF Arrives
<1>2. Head(bus) \in Messages /\ Tail(bus) \in Seq(Messages) BY <1>1, HeadTailProperties
<1> QED BY <1>1, <1>2, ConcatEmptySeq DEF Msg

LEMMA OneSent ==
  ASSUME bus \in Seq(Messages), NEW m \in Messages
  PROVE  bus \o <<m>> \in Seq(Messages)
BY ConcatProperties

LEMMA OldIs == Old \in Nat /\ InvalidAfter \in Nat /\ Old = InvalidAfter + 1
BY StoreAssumption DEF Old

(* A snapshot shows no state as valid whose readings are too old.          *)
LEMMA SnapshotIs ==
  ASSUME StoreTypes
  PROVE  /\ Snapshot \in Snaps /\ Honest(Snapshot)
         /\ SnapshotMsg(Snapshot, 0) \in Messages
<1>1. \A d \in DOMAIN Derived : Value(d) \in Int \cup {NoValue}
  <2> SUFFICES ASSUME NEW d \in DOMAIN Derived, \A i \in Derived[d] : entry[i] # NoValue
               PROVE  Value(d) \in Int \cup {NoValue}
    BY DEF Value
  <2>1. [i \in Derived[d] |-> entry[i]] \in [Derived[d] -> Readings]
    BY StoreAssumption DEF StoreTypes
  <2> QED BY <2>1, StoreAssumption DEF Value
<1>2. \A i \in Inputs : /\ Freshness(i) \in {"fresh", "stale", "invalid"}
                        /\ Freshness(i) # "invalid" /\ i \in Timed => age[i] <= InvalidAfter
                        /\ age[i] \in Nat /\ entry[i] \in Int \cup {NoValue}
  <2> SUFFICES ASSUME NEW i \in Inputs
               PROVE  /\ Freshness(i) \in {"fresh", "stale", "invalid"}
                      /\ Freshness(i) # "invalid" /\ i \in Timed => age[i] <= InvalidAfter
                      /\ age[i] \in Nat /\ entry[i] \in Int \cup {NoValue}
    OBVIOUS
  <2>1. age[i] \in Nat /\ entry[i] \in Int \cup {NoValue}
    <3>1. age[i] \in 0 .. Old /\ entry[i] \in Readings \cup {NoValue} BY DEF StoreTypes
    <3>2. Readings \subseteq Int BY StoreAssumption
    <3>3. age[i] \in Nat BY <3>1, OldIs
    <3>4. entry[i] \in Int \cup {NoValue} BY <3>1, <3>2
    <3> QED BY <3>3, <3>4
  <2>2. Freshness(i) # "invalid" /\ i \in Timed => age[i] <= InvalidAfter
    BY <2>1, OldIs, StoreAssumption DEF Freshness
  <2> QED BY <2>1, <2>2 DEF Freshness
<1>3. \A d \in DOMAIN Derived : /\ Worst(Derived[d]) \in {"fresh", "stale", "invalid"}
                                /\ Worst(Derived[d]) # "invalid" =>
                                     \A i \in Derived[d] : Freshness(i) # "invalid"
  BY DEF Worst
<1>4. ASSUME NEW s \in States
      PROVE  Snapshot[s] \in [value : Int \cup {NoValue}, fresh : {"fresh", "stale", "invalid"},
                              age : Nat]
  <2>1. CASE s \in Inputs BY <1>2, <2>1 DEF Snapshot
  <2>2. CASE s \notin Inputs /\ Value(s) = NoValue BY <1>4, <2>2, OldIs DEF Snapshot
  <2>3. CASE s \notin Inputs /\ Value(s) # NoValue
    BY <1>1, <1>3, <1>4, <2>3 DEF Snapshot, States
  <2> QED BY <2>1, <2>2, <2>3
<1>5. Snapshot \in Snaps BY <1>4 DEF Snaps, Snapshot
<1>6. ASSUME NEW s \in States, Snapshot[s].fresh # "invalid",
             NEW i \in Timed \cap (IF s \in Inputs THEN {s} ELSE Derived[s])
      PROVE  Snapshot[i].age <= InvalidAfter
  <2>1. i \in Inputs \cap Timed /\ Freshness(i) # "invalid"
    <3>1. CASE s \in Inputs BY <1>6, <3>1 DEF Snapshot
    <3>2. CASE s \notin Inputs
      <4>1. s \in DOMAIN Derived /\ i \in Derived[s] /\ i \in Inputs
        BY <1>6, <3>2, StoreAssumption DEF States
      <4>2. Value(s) # NoValue /\ Worst(Derived[s]) # "invalid" BY <1>6, <3>2 DEF Snapshot
      <4> QED BY <1>3, <4>1, <4>2
    <3> QED BY <3>1, <3>2
  <2>2. Snapshot[i].age = age[i] BY <2>1 DEF Snapshot, States
  <2> QED BY <1>2, <2>1, <2>2
<1> QED BY <1>5, <1>6 DEF Honest, Messages, SnapshotMsg

(* A tracker that is as another, but for what it has sent and where to.    *)
Resent(q, t, v, z) ==
  /\ q \in Tracker /\ q.sent = v /\ q.to = z
  /\ q.source = t.source /\ q.offset = t.offset /\ q.lo = t.lo /\ q.hi = t.hi
  /\ q.target = t.target /\ q.on = t.on

LEMMA TrackerSent ==
  ASSUME NEW t \in Tracker, NEW v \in Int \cup {Never}, NEW z \in Zones \cup {Never}
  PROVE  Resent([t EXCEPT !.sent = v, !.to = z], t, v, z)
<1>1. PICK q : q = [t EXCEPT !.sent = v, !.to = z] OBVIOUS
<1>2. Resent(q, t, v, z) BY <1>1 DEF Tracker, Resent
<1> QED BY <1>1, <1>2

LEMMA TrackerEnabled ==
  ASSUME NEW t \in Tracker, NEW on \in BOOLEAN
  PROVE  \E q \in Tracker : q = [t EXCEPT !.on = on] /\ q.sent = t.sent /\ q.to = t.to
<1>1. PICK q : q = [t EXCEPT !.on = on] OBVIOUS
<1>2. q \in Tracker /\ q.sent = t.sent /\ q.to = t.to BY <1>1 DEF Tracker
<1> QED BY <1>1, <1>2

(* What a usable tracker wants is a value it can be given.                 *)
LEMMA GoalIs ==
  ASSUME NEW t \in Tracker, NEW S \in Snaps \cup {<<>>}, Usable(t, S)
  PROVE  Goal(t, S) \in Int /\ S # <<>> /\ t.source \in States
<1>1. t.source \in DOMAIN S /\ S # <<>> BY DEF Usable
<1>2. S \in Snaps /\ t.source \in States BY <1>1 DEF Snaps
<1>3. S[t.source].value \in Int BY <1>2 DEF Usable, Snaps
<1> QED BY <1>1, <1>2, <1>3 DEF Goal, Clamp, Tracker

LEMMA ItemKinds ==
  ASSUME NEW i \in Items
  PROVE  /\ i.hold \in Nat /\ i.kind \in {"step", "sweep"}
         /\ Points(i) \in Nat \ {0}
         /\ i.kind = "step" =>
              /\ DOMAIN i.tracks \subseteq Zones /\ i.tracks \in [DOMAIN i.tracks -> Tracker]
              /\ DOMAIN i.writes \subseteq Zones /\ i.writes \in [DOMAIN i.writes -> Int]
              /\ Wanted(i) \subseteq SeqIds
         /\ i.kind = "sweep" =>
              i.targets \subseteq Zones /\ \A n \in 1 .. Points(i) : Values(i)[n] \in Int
<1>1. CASE i.kind = "step"
  BY <1>1, ItemsAssumption DEF Points, Wanted, SeqIds
<1>2. CASE i.kind = "sweep"
  <2>1. i.hold \in Nat /\ i.targets \subseteq Zones /\ i.from \in Int /\ i.to \in Int /\ i.by \in Int
    BY <1>2, ItemsAssumption
  <2>2. CASE i.by = 0 \/ i.from = i.to
    <3>1. Values(i) = <<i.from>> BY <2>2 DEF Values
    <3> QED BY <1>2, <2>1, <3>1 DEF Points
  <2>3. CASE ~(i.by = 0 \/ i.from = i.to)
    <3> DEFINE a == Abs(i.to - i.from)
               b == Abs(i.by)
               k == 1 + a \div b
               g == [n \in 1 .. k |-> i.from + (n - 1) * (IF i.to < i.from THEN -b ELSE b)]
    <3>1. Values(i) = g BY <2>3 DEF Values
    <3>2. a \in Nat /\ b \in Nat \ {0} BY <2>1, <2>3 DEF Abs
    <3> HIDE DEF a, b
    <3>3. k \in Nat \ {0}
      <4>1. a \div b \in Nat BY <3>2
      <4> QED BY <4>1
    <3> HIDE DEF k
    <3>4. g \in [1 .. k -> Int]
      <4> SUFFICES ASSUME NEW n \in 1 .. k
                   PROVE  i.from + (n - 1) * (IF i.to < i.from THEN -b ELSE b) \in Int
        OBVIOUS
      <4>1. (n - 1) * (IF i.to < i.from THEN -b ELSE b) \in Int
        <5>1. n - 1 \in Int /\ (IF i.to < i.from THEN -b ELSE b) \in Int BY <3>2, <3>3
        <5> QED BY <5>1
      <4> QED BY <2>1, <4>1
    <3> HIDE DEF g
    <3>5. Len(g) = k BY <3>3, <3>4, Listing
    <3> QED BY <1>2, <2>1, <3>1, <3>3, <3>4, <3>5 DEF Points
  <2> QED BY <2>2, <2>3
<1> QED BY <1>1, <1>2, ItemsAssumption

LEMMA SetpointIs ==
  ASSUME NEW z \in Zones, NEW v \in Int, NEW by \in Callers
  PROVE  [topic |-> "pid/setpoint", zone |-> z, value |-> v, by |-> by] \in Messages
<1>1. [topic |-> "pid/setpoint", zone |-> z, value |-> v, by |-> by]
        \in [topic : {"pid/setpoint"}, zone : Zones, value : Int, by : Callers]
  OBVIOUS
<1>2. [topic : {"pid/setpoint"}, zone : Zones, value : Int, by : Callers] \subseteq Messages
  BY DEF Messages
<1> QED BY <1>1, <1>2

(* What the controllers publish.                                           *)
LEMMA StatusIs ==
  ASSUME NEW F \in [Zones -> Int]
  PROVE  /\ Status(F) \in Seq(Messages) /\ Len(Status(F)) = Cardinality(Zones)
         /\ \A n \in 1 .. Cardinality(Zones) :
              Status(F)[n] = [topic |-> "pid/status", zone |-> ZoneSeq[n], value |-> F[ZoneSeq[n]]]
<1>1. \A n \in 1 .. Cardinality(Zones) : ZoneSeq[n] \in Zones /\ F[ZoneSeq[n]] \in Int
  BY ZonesListed
<1>2. /\ Status(F) \in [1 .. Cardinality(Zones) -> Messages]
      /\ \A n \in 1 .. Cardinality(Zones) :
           Status(F)[n] = [topic |-> "pid/status", zone |-> ZoneSeq[n], value |-> F[ZoneSeq[n]]]
  BY <1>1, ZonesListed DEF Status, Messages
<1> QED BY <1>2, ZonesListed, Listing

Commanded(m, b, d) ==
  [n \in DOMAIN ZoneSeq |-> [topic |-> "pid/setpoint", zone |-> ZoneSeq[n],
                             value |-> Setpoints(m, b, d)[ZoneSeq[n]], by |-> "gradient"]]
LEMMA CommandedIs ==
  ASSUME GradientTypes, NEW m, NEW b \in Int, NEW d \in [Zones -> Int]
  PROVE  /\ Commanded(m, b, d) \in Seq(Messages)
         /\ \A n \in 1 .. Len(Commanded(m, b, d)) : Commanded(m, b, d)[n].topic = "pid/setpoint"
<1>1. Setpoints(m, b, d) \in [Zones -> Int]
  <2>1. [z \in Zones |-> b + d[z]] \in [Zones -> Int] OBVIOUS
  <2>2. abs \in [Zones -> Int] BY DEF GradientTypes
  <2> QED BY <2>1, <2>2 DEF Setpoints
<1> DEFINE s == Setpoints(m, b, d)
<1> HIDE DEF s
<1>2. \A n \in 1 .. Cardinality(Zones) : ZoneSeq[n] \in Zones /\ s[ZoneSeq[n]] \in Int
  BY <1>1, ZonesListed DEF s
<1>3. /\ Commanded(m, b, d) \in [1 .. Cardinality(Zones) -> Messages]
      /\ \A n \in 1 .. Cardinality(Zones) : Commanded(m, b, d)[n].topic = "pid/setpoint"
  <2>1. \A z \in Zones, v \in Int :
          [topic |-> "pid/setpoint", zone |-> z, value |-> v, by |-> "gradient"] \in Messages
    BY SetpointIs DEF Callers
  <2>2. Commanded(m, b, d) =
          [n \in 1 .. Cardinality(Zones) |-> [topic |-> "pid/setpoint", zone |-> ZoneSeq[n],
                                              value |-> s[ZoneSeq[n]], by |-> "gradient"]]
    BY ZonesListed DEF Commanded, s
  <2> QED BY <1>2, <2>1, <2>2
<1>4. /\ Commanded(m, b, d) \in Seq(Messages)
      /\ Len(Commanded(m, b, d)) = Cardinality(Zones)
  BY <1>3, ZonesListed, Listing
<1> QED BY <1>3, <1>4

LEMMA WritesIs ==
  ASSUME NEW F, DOMAIN F \subseteq Zones, F \in [DOMAIN F -> Int]
  PROVE  /\ Writes(F) \in Seq(Messages)
         /\ \A n \in 1 .. Len(Writes(F)) : Writes(F)[n].topic = "pid/setpoint"
<1>1. CASE snap = <<>>
  <2>1. Writes(F) = <<>> BY <1>1 DEF Writes
  <2>2. <<>> \in Seq(Messages) /\ Len(<<>>) = 0 BY EmptySeq
  <2>3. 1 .. 0 = {} OBVIOUS
  <2> QED BY <2>1, <2>2, <2>3
<1>2. CASE snap # <<>>
  <2> DEFINE q == AsSeq(DOMAIN F)
             k == Cardinality(DOMAIN F)
             w == [n \in DOMAIN q |-> [topic |-> "pid/setpoint", zone |-> q[n],
                                       value |-> F[q[n]], by |-> "sequencer"]]
  <2>1. Writes(F) = w BY <1>2 DEF Writes, MapSeq
  <2>2. IsFiniteSet(DOMAIN F) BY ZonesAssumption, FS_Subset
  <2>3. k \in Nat /\ q \in [1 .. k -> DOMAIN F] /\ DOMAIN q = 1 .. k BY <2>2, AsSeqLists
  <2> HIDE DEF q, k
  <2>4. w \in [1 .. k -> Messages] /\ \A n \in 1 .. k : w[n].topic = "pid/setpoint"
    <3>1. \A z \in Zones, v \in Int :
            [topic |-> "pid/setpoint", zone |-> z, value |-> v, by |-> "sequencer"] \in Messages
      BY SetpointIs DEF Callers
    <3>2. \A n \in 1 .. k : q[n] \in Zones /\ F[q[n]] \in Int BY <2>3
    <3> QED BY <2>3, <3>1, <3>2
  <2> HIDE DEF w
  <2>5. w \in Seq(Messages) /\ Len(w) = k BY <2>3, <2>4, Listing
  <2> QED BY <2>1, <2>4, <2>5
<1> QED BY <1>1, <1>2

LEMMA SeqIdsFinite == IsFiniteSet(SeqIds)
<1> DEFINE f == [z \in Zones |-> SeqId(z)]
<1>1. f \in Surjection(Zones, SeqIds) BY DEF Surjection, SeqIds
<1> QED BY <1>1, ZonesAssumption, FS_Surjection

(* A step's messages: it removes what it does not want, and sets the rest. *)
LEMMA ReconcileIs ==
  ASSUME NEW i \in Items, i.kind = "step", active \subseteq SeqIds, NEW q, q = Reconcile(i)
  PROVE  /\ q \in Seq(Messages)
         /\ \A n \in 1 .. Len(q) :
              \/ q[n].topic = "trackers/set" /\ q[n].id \in Wanted(i)
              \/ q[n].topic = "trackers/remove" /\ q[n].id \notin Wanted(i)
         /\ \A x \in Dropped(i) : Leaving(q, x)
<1> DEFINE D == Dropped(i)
           T == DOMAIN i.tracks
           a == AsSeq(D)
           t == AsSeq(T)
           removes == [n \in DOMAIN a |-> [topic |-> "trackers/remove", id |-> a[n]]]
           sets == [n \in DOMAIN t |-> [topic |-> "trackers/set", id |-> SeqId(t[n]),
                                        spec |-> i.tracks[t[n]]]]
<1>1. q = removes \o sets BY DEF Reconcile, MapSeq
<1>2. /\ D \subseteq SeqIds /\ IsFiniteSet(D) /\ IsFiniteSet(T)
      /\ T \subseteq Zones /\ i.tracks \in [T -> Tracker]
  BY ItemKinds, SeqIdsFinite, ZonesAssumption, FS_Subset DEF Dropped
<1>3. /\ Cardinality(D) \in Nat /\ a \in [1 .. Cardinality(D) -> D]
      /\ DOMAIN a = 1 .. Cardinality(D)
      /\ \A x \in D : \E n \in 1 .. Cardinality(D) : a[n] = x
  BY <1>2, AsSeqLists
<1>4. Cardinality(T) \in Nat /\ t \in [1 .. Cardinality(T) -> T] /\ DOMAIN t = 1 .. Cardinality(T)
  BY <1>2, AsSeqLists
<1>5. SeqIds \subseteq STRING BY InputsAssumption DEF SeqIds
<1>6. D \cap Wanted(i) = {} BY DEF Dropped
<1>7. \A z \in T : SeqId(z) \in Wanted(i) BY DEF Wanted
<1> HIDE DEF D, T, a, t
<1>8. /\ removes \in [1 .. Cardinality(D) -> Messages]
      /\ \A n \in 1 .. Cardinality(D) : removes[n] = [topic |-> "trackers/remove", id |-> a[n]]
  BY <1>2, <1>3, <1>5 DEF Messages, Command
<1>9. /\ sets \in [1 .. Cardinality(T) -> Messages]
      /\ \A n \in 1 .. Cardinality(T) :
           sets[n].topic = "trackers/set" /\ sets[n].id = SeqId(t[n])
  BY <1>2, <1>4, InputsAssumption DEF Messages, Command
<1> HIDE DEF removes, sets
<1>10. /\ removes \in Seq(Messages) /\ Len(removes) = Cardinality(D)
       /\ sets \in Seq(Messages) /\ Len(sets) = Cardinality(T)
  BY <1>3, <1>4, <1>8, <1>9, Listing
<1>11. /\ q \in Seq(Messages) /\ Len(q) = Cardinality(D) + Cardinality(T)
       /\ \A n \in 1 .. Cardinality(D) + Cardinality(T) :
            q[n] = IF n <= Cardinality(D) THEN removes[n] ELSE sets[n - Cardinality(D)]
  <2>1. PICK p : p = removes \o sets OBVIOUS
  <2>2. p \in Seq(Messages) BY <1>10, <2>1, ConcatProperties
  <2>3. /\ Len(p) = Len(removes) + Len(sets)
        /\ \A n \in 1 .. Len(removes) + Len(sets) :
             p[n] = IF n <= Len(removes) THEN removes[n] ELSE sets[n - Len(removes)]
    BY <1>10, <2>1, ConcatProperties
  <2> QED BY <1>1, <1>10, <2>1, <2>2, <2>3
<1>12. ASSUME NEW n \in 1 .. Len(q)
       PROVE  \/ q[n].topic = "trackers/set" /\ q[n].id \in Wanted(i)
              \/ q[n].topic = "trackers/remove" /\ q[n].id \notin Wanted(i)
  <2>1. CASE n <= Cardinality(D)
    <3>1. n \in 1 .. Cardinality(D) /\ q[n] = removes[n] BY <1>3, <1>11, <2>1
    <3>2. a[n] \in D BY <1>3, <3>1
    <3> QED BY <1>6, <1>8, <3>1, <3>2
  <2>2. CASE ~(n <= Cardinality(D))
    <3>1. n - Cardinality(D) \in 1 .. Cardinality(T) /\ q[n] = sets[n - Cardinality(D)]
      BY <1>3, <1>4, <1>11, <2>2
    <3> QED BY <1>4, <1>7, <1>9, <3>1
  <2> QED BY <2>1, <2>2
<1>13. ASSUME NEW x \in Dropped(i) PROVE Leaving(q, x)
  <2>1. PICK n \in 1 .. Cardinality(D) : a[n] = x BY <1>3, <1>13 DEF D
  <2>2. n \in 1 .. Len(q) /\ q[n] = [topic |-> "trackers/remove", id |-> x]
    BY <1>3, <1>4, <1>8, <1>11, <2>1
  <2> QED BY <2>2 DEF Leaving, Removes
<1> QED BY <1>11, <1>12, <1>13

-----------------------------------------------------------------------------
(* The types are kept, one lemma per thread or callback.                   *)

LEMMA NoTracker == <<>> \notin Tracker
<1>1. \A t \in Tracker : "on" \in DOMAIN t BY DEF Tracker
<1>2. DOMAIN <<>> = {} OBVIOUS
<1> QED BY <1>1, <1>2

LEMMA SameStore == StoreTypes /\ UNCHANGED store => StoreTypes'
BY DEF StoreTypes, store
LEMMA SameTrackers == TrackersTypes /\ UNCHANGED tracking => TrackersTypes'
BY DEF TrackersTypes, tracking, Ids
LEMMA SameSequencer == SequencerTypes /\ UNCHANGED <<sequencing, leftover>> => SequencerTypes'
BY DEF SequencerTypes, sequencing, Item
LEMMA SameGradient == GradientTypes /\ UNCHANGED <<gradient, plc>> => GradientTypes'
BY DEF GradientTypes, gradient, plc

LEMMA NoExprIs == NoExpr \in Expression /\ [z \in Zones |-> NoExpr] \in [Zones -> Expression]
BY DEF NoExpr, Expression

LEMMA InitTypes == Init => TypeInv
<1> SUFFICES ASSUME Init PROVE TypeInv OBVIOUS
<1>1. StoreTypes
  BY InputsAssumption, StoreAssumption, OldIs DEF Init, StoreInit, StoreTypes
<1>2. TrackersTypes
  <2>1. PICK t \in Tables : trackers = t BY DEF Init
  <2>2. /\ trackers \in [Ids -> Tracker] /\ Ids \subseteq STRING
        /\ \A id \in Ids : Paired(trackers[id])
    BY <2>1, InputsAssumption DEF Ids, Paired
  <2>3. DOMAIN <<>> = {} OBVIOUS
  <2> QED BY <2>2, <2>3 DEF Init, TrackersInit, TrackersTypes
<1>3. SequencerTypes
  <2>1. items \in Seq(Items) BY InputsAssumption DEF Init
  <2>2. Idle \in Runner BY EmptySeq DEF Idle, Runner
  <2>3. Idle.pc = "none" BY DEF Idle
  <2>4. runner = [r \in Runners |-> Idle] /\ active = {} /\ leftover \subseteq SeqIds
        /\ running = FALSE /\ abort = FALSE
    BY DEF Init, SequencerInit
  <2> QED BY <2>1, <2>2, <2>3, <2>4 DEF SequencerTypes, Begun
<1>4. GradientTypes
  <2>1. /\ delta = [z \in Zones |-> 0] /\ abs = [z \in Zones |-> Default]
        /\ reg = [z \in Zones |-> Default] /\ retained = reg /\ base = Default
        /\ mode = "gradient" /\ reportDue = FALSE
    BY DEF Init, GradientInit
  <2>2. Default \in Int BY ZonesAssumption
  <2>3. delta \in [Zones -> Int] /\ abs \in [Zones -> Int] /\ reg \in [Zones -> Int]
    BY <2>1, <2>2
  <2>4. expr = [z \in Zones |-> NoExpr] BY DEF Init
  <2> QED BY <2>1, <2>2, <2>3, <2>4, NoExprIs DEF GradientTypes
<1>5. bus \in Seq(Messages) BY EmptySeq DEF Init
<1> QED BY <1>1, <1>2, <1>3, <1>4, <1>5 DEF Init, TypeInv

(* What a change of the table leaves of an evaluation under way.           *)
LEMMA ReplacesIs ==
  ASSUME TrackersTypes, NEW id, Replaces(id)
  PROVE  /\ DOMAIN round' = DOMAIN round
         /\ \A x \in DOMAIN round : x # id => round'[x] = round[x]
         /\ id \in DOMAIN round => round'[id] \in Tracker
         /\ round = <<>> => round' = <<>>
<1>1. CASE id \in DOMAIN round /\ round[id] = <<>>
  <2>1. id \in Ids /\ trackers[id] \in Tracker BY <1>1, NoTracker DEF TrackersTypes
  <2>2. round # <<>> BY <1>1
  <2> QED BY <1>1, <2>1, <2>2 DEF Replaces
<1>2. CASE ~(id \in DOMAIN round /\ round[id] = <<>>)
  BY <1>2 DEF Replaces, TrackersTypes
<1> QED BY <1>1, <1>2

LEMMA TrackersHear ==
  ASSUME TypeInv, ForTrackers PROVE TypeInv'
<1> USE DEF TypeInv
<1>1. StoreTypes' /\ GradientTypes' /\ UNCHANGED unseen
  BY SameStore, SameGradient DEF ForTrackers
<1>2. SequencerTypes' BY SameSequencer DEF ForTrackers
<1>3. CASE OnSnapshot
  <2>1. Arrives("snapshot") /\ snap' = Msg.states /\ bus' = Tail(bus) \o <<>>
        /\ UNCHANGED <<trackers, evalDue, round, seen, writing>>
    BY <1>3 DEF OnSnapshot, Reply
  <2>2. Msg.topic = "snapshot" /\ Msg.states \in Snaps /\ Msg.lag \in Nat /\ bus' \in Seq(Messages)
    BY <2>1, Arrived, MessageKinds
  <2>3. snapAge' \in Nat BY <2>2 DEF ForTrackers
  <2>4. TrackersTypes' BY <2>1, <2>2 DEF TrackersTypes, Ids
  <2> QED BY <1>1, <1>2, <2>2, <2>3, <2>4
<1>4. CASE OnSet
  <2> DEFINE i == Msg.id
  <2>1. /\ Arrives("trackers/set") /\ bus' = Tail(bus) \o <<>>
        /\ trackers' = [x \in Ids \cup {i} |->
                          IF x = i THEN [Msg.spec EXCEPT !.sent = Sent(i), !.to = SentTo(i)]
                          ELSE trackers[x]]
        /\ Replaces(i) /\ UNCHANGED <<snap, evalDue, seen, writing>>
    BY <1>4 DEF OnSet, Reply
  <2>2. Msg.topic = "trackers/set" /\ i \in STRING /\ Msg.spec \in Tracker /\ bus' \in Seq(Messages)
    BY <2>1, Arrived, MessageKinds
  <2>3. /\ Sent(i) \in Int \cup {Never} /\ SentTo(i) \in Zones \cup {Never}
        /\ SentTo(i) = Never <=> Sent(i) = Never
    BY DEF Sent, SentTo, TrackersTypes, Tracker, Paired
  <2>4. PICK q \in Tracker : /\ q = [Msg.spec EXCEPT !.sent = Sent(i), !.to = SentTo(i)]
                             /\ Paired(q)
    <3>1. Resent([Msg.spec EXCEPT !.sent = Sent(i), !.to = SentTo(i)], Msg.spec,
                 Sent(i), SentTo(i))
      BY <2>2, <2>3, TrackerSent
    <3>2. PICK q : q = [Msg.spec EXCEPT !.sent = Sent(i), !.to = SentTo(i)] OBVIOUS
    <3>3. q \in Tracker /\ Paired(q) BY <2>3, <3>1, <3>2 DEF Resent, Paired
    <3> QED BY <3>2, <3>3
  <2> HIDE DEF i
  <2>5. /\ Ids' = Ids \cup {i} /\ trackers' \in [Ids' -> Tracker] /\ Ids' \subseteq STRING
        /\ \A x \in Ids' : Paired(trackers'[x])
    BY <2>1, <2>2, <2>4 DEF Ids, TrackersTypes
  <2>6. TrackersTypes'
    BY <2>1, <2>5, ReplacesIs DEF TrackersTypes
  <2>7. snapAge' = snapAge BY <2>2 DEF ForTrackers
  <2> QED BY <1>1, <1>2, <2>2, <2>6, <2>7
<1>5. CASE OnRemove
  <2> DEFINE i == Msg.id
  <2>1. /\ Arrives("trackers/remove") /\ bus' = Tail(bus) \o <<>>
        /\ trackers' = [x \in Ids \ {i} |-> trackers[x]]
        /\ Replaces(i) /\ UNCHANGED <<snap, evalDue, seen, writing>>
    BY <1>5 DEF OnRemove, Reply
  <2>2. Msg.topic = "trackers/remove" /\ bus' \in Seq(Messages)
    BY <2>1, Arrived
  <2> HIDE DEF i
  <2>5. /\ Ids' = Ids \ {i} /\ trackers' \in [Ids' -> Tracker] /\ Ids' \subseteq STRING
        /\ \A x \in Ids' : Paired(trackers'[x])
    BY <2>1 DEF Ids, TrackersTypes
  <2>6. TrackersTypes'
    BY <2>1, <2>5, ReplacesIs DEF TrackersTypes
  <2>7. snapAge' = snapAge BY <2>2 DEF ForTrackers
  <2> QED BY <1>1, <1>2, <2>2, <2>6, <2>7
<1>6. CASE OnEnable
  <2> DEFINE i == Msg.id
  <2>1. /\ Arrives("trackers/enable") /\ bus' = Tail(bus) \o <<>>
        /\ trackers' = IF i \in Ids THEN [trackers EXCEPT ![i].on = Msg.on] ELSE trackers
        /\ UNCHANGED <<snap, evalDue, round, seen, writing>>
    BY <1>6 DEF OnEnable, Reply
  <2>2. Msg.topic = "trackers/enable" /\ Msg.on \in BOOLEAN /\ bus' \in Seq(Messages)
    BY <2>1, Arrived, MessageKinds
  <2> HIDE DEF i
  <2>5. /\ Ids' = Ids /\ trackers' \in [Ids -> Tracker]
        /\ \A x \in Ids : Paired(trackers'[x])
    <3>1. \A x \in Ids : trackers[x] \in Tracker /\ Paired(trackers[x]) BY DEF TrackersTypes
    <3>2. CASE i \in Ids
      <4>1. PICK q \in Tracker : q = [trackers[i] EXCEPT !.on = Msg.on] /\ Paired(q)
        BY <2>2, <3>1, <3>2, TrackerEnabled DEF Paired
      <4>2. trackers' = [trackers EXCEPT ![i] = q] BY <2>1, <3>2, <4>1
      <4> QED BY <3>1, <4>1, <4>2 DEF Ids, TrackersTypes
    <3>3. CASE i \notin Ids BY <2>1, <3>1, <3>3 DEF Ids, TrackersTypes
    <3> QED BY <3>2, <3>3
  <2>6. TrackersTypes' BY <2>1, <2>5 DEF TrackersTypes
  <2>7. snapAge' = snapAge BY <2>2 DEF ForTrackers
  <2> QED BY <1>1, <1>2, <2>2, <2>6, <2>7
<1> QED BY <1>3, <1>4, <1>5, <1>6 DEF ForTrackers

LEMMA TrackersGo ==
  ASSUME TypeInv, TrackersStep PROVE TypeInv'
<1> USE DEF TypeInv
<1>1. StoreTypes' /\ GradientTypes' /\ SequencerTypes' /\ UNCHANGED <<unseen, snapAge>>
  BY SameStore, SameGradient, SameSequencer DEF TrackersStep
<1>2. CASE StartRound
  <2>1. DOMAIN <<>> = {} OBVIOUS
  <2>2. bus' = bus /\ TrackersTypes'
    BY <1>2, <2>1 DEF StartRound, TrackersTypes, Ids
  <2> QED BY <1>1, <2>2
<1>3. ASSUME NEW id \in DOMAIN round, EvalOne(id) PROVE TypeInv'
  <2> DEFINE t == Object(id)
             m == [topic |-> "pid/setpoint", zone |-> t.target, value |-> Goal(t, seen), by |-> id]
  <2>1. /\ t \in Tracker /\ id \in STRING /\ writing = Nothing
        /\ UNCHANGED <<trackers, snap, evalDue>> /\ Ids' = Ids
    BY <1>3, NoTracker DEF EvalOne, Object, TrackersTypes, Ids
  <2>2. CASE Moves(t, seen)
    <3>1. /\ bus' = bus \o <<m>> /\ UNCHANGED <<round, seen>>
          /\ writing' = [id |-> id, to |-> t.target, value |-> Goal(t, seen)]
      BY <1>3, <2>2 DEF EvalOne, Publish
    <3>2. Goal(t, seen) \in Int BY <2>1, <2>2, GoalIs DEF Moves, TrackersTypes
    <3>3. t.target \in Zones BY <2>1 DEF Tracker
    <3>4. m \in Messages BY <2>1, <3>2, <3>3, SetpointIs DEF Callers
    <3> HIDE DEF t, m
    <3>5. bus' \in Seq(Messages) BY <3>1, <3>4, OneSent
    <3>6. TrackersTypes' BY <2>1, <3>1, <3>2, <3>3 DEF TrackersTypes
    <3> QED BY <1>1, <3>5, <3>6
  <2>3. CASE ~Moves(t, seen)
    <3>1. UNCHANGED <<bus, writing>> /\ Leave(id) BY <1>3, <2>3 DEF EvalOne
    <3>2. TrackersTypes' BY <2>1, <3>1 DEF Leave, TrackersTypes
    <3> QED BY <1>1, <3>1, <3>2
  <2> QED BY <2>2, <2>3
<1>4. CASE Note
  <2> DEFINE id == writing.id
  <2>1. /\ id \in DOMAIN round /\ writing.to \in Zones /\ writing.value \in Int
        /\ writing' = Nothing /\ Leave(id) /\ UNCHANGED <<snap, evalDue, bus>>
        /\ trackers' = IF round[id] = <<>>
                       THEN [trackers EXCEPT ![id].sent = writing.value, ![id].to = writing.to]
                       ELSE trackers
    BY <1>4 DEF Note, TrackersTypes
  <2> HIDE DEF id
  <2>2. /\ Ids' = Ids /\ trackers' \in [Ids -> Tracker]
        /\ \A x \in Ids : Paired(trackers'[x])
    <3>1. CASE round[id] = <<>>
      <4>1. id \in Ids /\ trackers[id] \in Tracker
        BY <2>1, <3>1, NoTracker DEF TrackersTypes
      <4>2. PICK q : q = [trackers[id] EXCEPT !.sent = writing.value, !.to = writing.to]
        OBVIOUS
      <4>3. Resent(q, trackers[id], writing.value, writing.to)
        BY <2>1, <4>1, <4>2, TrackerSent
      <4>4. q \in Tracker /\ q.sent = writing.value /\ q.to = writing.to BY <4>3 DEF Resent
      <4>5. Paired(q) BY <2>1, <4>4, SentAssumption, InputsAssumption DEF Paired
      <4>6. trackers' = [trackers EXCEPT ![id] = q] BY <2>1, <3>1, <4>1, <4>2
      <4> QED BY <4>1, <4>4, <4>5, <4>6 DEF Ids, TrackersTypes
    <3>2. CASE round[id] # <<>> BY <2>1, <3>2 DEF Ids, TrackersTypes
    <3> QED BY <3>1, <3>2
  <2>3. TrackersTypes' BY <2>1, <2>2 DEF Leave, TrackersTypes
  <2> QED BY <1>1, <2>1, <2>3
<1> QED BY <1>2, <1>3, <1>4 DEF TrackersStep

LEMMA SequencerHears ==
  ASSUME TypeInv, ForSequencer PROVE TypeInv'
<1> USE DEF TypeInv
<1>1. /\ StoreTypes' /\ GradientTypes' /\ TrackersTypes'
      /\ UNCHANGED <<unseen, snapAge, leftover>>
  BY SameStore, SameGradient, SameTrackers DEF ForSequencer
<1>2. ASSUME NEW new \in Seq(Items), bus' = Tail(bus) \o <<>>, bus # <<>>,
             items' = IF running THEN items ELSE new, UNCHANGED <<running, abort, active, runner>>
      PROVE  TypeInv'
  <2>1. bus' \in Seq(Messages) BY <1>2, HeadTailProperties, ConcatEmptySeq
  <2>2. SequencerTypes' BY <1>1, <1>2 DEF SequencerTypes, Item
  <2> QED BY <1>1, <2>1, <2>2
<1>3. CASE OnSetProgram
  <2>1. Arrives("sequencer/set") BY <1>3 DEF OnSetProgram, Edits
  <2>2. Msg.items \in Seq(Items) /\ bus # <<>> BY <2>1, Arrived, MessageKinds
  <2> QED BY <1>2, <1>3, <2>2 DEF OnSetProgram, Edits, Reply
<1>4. CASE OnAppend
  <2>1. Arrives("sequencer/append") BY <1>4 DEF OnAppend, Edits
  <2>2. Msg.item \in Items /\ bus # <<>> BY <2>1, Arrived, MessageKinds
  <2>3. Append(items, Msg.item) \in Seq(Items) BY <2>2, AppendProperties DEF SequencerTypes
  <2> QED BY <1>2, <1>4, <2>2, <2>3 DEF OnAppend, Edits, Reply
<1>5. CASE OnClear
  <2>1. <<>> \in Seq(Items) /\ bus # <<>> BY <1>5, EmptySeq DEF OnClear, Edits, Arrives
  <2> QED BY <1>2, <1>5, <2>1 DEF OnClear, Edits, Reply
<1>6. CASE OnRun
  <2>1. /\ Arrives("sequencer/run") /\ bus' = Tail(bus) \o <<>>
        /\ UNCHANGED <<items, running, active>>
    BY <1>6 DEF OnRun, Reply
  <2>2. bus' \in Seq(Messages) BY <2>1, Arrived
  <2>3. CASE Startable
    <3>1. PICK r \in Runners : Spawn(r) /\ abort' = FALSE BY <1>6, <2>3 DEF OnRun
    <3>2. PICK q : q = [Idle EXCEPT !.pc = "starting", !.prog = items] OBVIOUS
    <3>3. q = [pc |-> "starting", prog |-> items, idx |-> 0, sub |-> 0, todo |-> <<>>, left |-> 0]
      BY <3>2 DEF Idle
    <3>4. q \in Runner /\ q.pc = "starting" BY <3>3, EmptySeq DEF Runner, SequencerTypes
    <3>5. runner' = [runner EXCEPT ![r] = q] BY <3>1, <3>2 DEF Spawn
    <3>6. SequencerTypes' BY <1>1, <2>1, <3>1, <3>4, <3>5 DEF SequencerTypes, Begun, Item
    <3> QED BY <1>1, <2>2, <3>6
  <2>4. CASE ~Startable
    <3>1. UNCHANGED sequencing BY <1>6, <2>1, <2>4 DEF OnRun, sequencing
    <3> QED BY <1>1, <2>2, <3>1, SameSequencer
  <2> QED BY <2>3, <2>4
<1>7. CASE OnStop
  <2>1. Arrives("sequencer/stop") /\ bus' = Tail(bus) \o <<>>
        /\ abort' = (abort \/ running) /\ UNCHANGED <<items, running, active, runner>>
    BY <1>7 DEF OnStop, Reply
  <2>2. bus' \in Seq(Messages) BY <2>1, Arrived
  <2>3. SequencerTypes' BY <1>1, <2>1 DEF SequencerTypes, Item
  <2> QED BY <1>1, <2>2, <2>3
<1> QED BY <1>3, <1>4, <1>5, <1>6, <1>7 DEF ForSequencer

LEMMA GradientHears ==
  ASSUME TypeInv, ForGradient PROVE TypeInv'
<1> USE DEF TypeInv
<1>1. /\ StoreTypes' /\ SequencerTypes' /\ TrackersTypes' /\ UNCHANGED snapAge
  BY SameStore, SameSequencer, SameTrackers DEF ForGradient
<1>2. unseen' \in BOOLEAN BY DEF ForGradient
<1>3. ASSUME NEW topic, Arrives(topic), NEW m \in {"gradient", "absolute"}, NEW b \in Int,
             NEW d \in [Zones -> Int], Apply(m, b, d)
      PROVE  TypeInv'
  <2>1. /\ mode' = m /\ base' = b /\ delta' = d /\ bus' = Tail(bus) \o Commanded(m, b, d)
        /\ UNCHANGED <<abs, plc>>
    BY <1>3 DEF Apply, Reply, Commanded
  <2>2. bus' \in Seq(Messages) BY <1>3, <2>1, Arrived, CommandedIs, ConcatProperties
  <2>3. GradientTypes' BY <2>1 DEF GradientTypes, plc
  <2> QED BY <1>1, <1>2, <2>2, <2>3
<1>4. CASE OnMode
  <2>1. Arrives("gradient/mode") /\ Msg.mode \in {"gradient", "absolute"}
    BY <1>4, Arrived, MessageKinds DEF OnMode
  <2> QED BY <1>3, <1>4, <2>1 DEF OnMode, GradientTypes
<1>5. CASE OnBase
  <2>1. Arrives("gradient/base") /\ Msg.value \in Int BY <1>5, Arrived, MessageKinds DEF OnBase
  <2> QED BY <1>3, <1>5, <2>1 DEF OnBase, GradientTypes
<1>6. CASE OnDelta
  <2>1. Arrives("gradient/delta") /\ Msg.value \in Int BY <1>6, Arrived, MessageKinds DEF OnDelta
  <2>2. [delta EXCEPT ![Msg.zone] = Msg.value] \in [Zones -> Int] BY <2>1 DEF GradientTypes
  <2> QED BY <1>3, <1>6, <2>1, <2>2 DEF OnDelta, GradientTypes
<1>7. CASE OnSetpoint
  <2>1. Arrives("pid/setpoint") /\ bus' = Tail(bus) \o <<>>
        /\ UNCHANGED <<mode, base, delta, reportDue, retained>>
        /\ reg' = [reg EXCEPT ![Msg.zone] = Msg.value]
        /\ expr' = [expr EXCEPT ![Msg.zone] = Num(Msg.value)]
        /\ abs' \in {abs, [abs EXCEPT ![Msg.zone] = Msg.value]}
    BY <1>7 DEF OnSetpoint, Reply
  <2>2. Msg.value \in Int /\ bus' \in Seq(Messages) BY <2>1, Arrived, MessageKinds
  <2>3. reg' \in [Zones -> Int] /\ abs' \in [Zones -> Int] BY <2>1, <2>2 DEF GradientTypes
  <2>4. Num(Msg.value) \in Expression BY <2>2 DEF Num, Expression
  <2>5. expr' \in [Zones -> Expression] BY <2>1, <2>4 DEF GradientTypes
  <2>6. GradientTypes' BY <2>1, <2>3, <2>5 DEF GradientTypes
  <2> QED BY <1>1, <1>2, <2>2, <2>6
<1>8. CASE OnPidStatus
  <2>1. Arrives("pid/status") /\ bus' = Tail(bus) \o <<>> /\ UNCHANGED <<mode, plc>>
        /\ abs' = [abs EXCEPT ![Msg.zone] = Msg.value] /\ Adopt(abs')
    BY <1>8 DEF OnPidStatus, Reply
  <2>2. Msg.value \in Int /\ bus' \in Seq(Messages) BY <2>1, Arrived, MessageKinds
  <2>3. abs' \in [Zones -> Int] BY <2>1, <2>2 DEF GradientTypes
  <2>4. base' \in Int /\ delta' \in [Zones -> Int]
    BY <2>1, <2>3, ZonesAssumption DEF Adopt
  <2>5. GradientTypes' BY <2>1, <2>3, <2>4 DEF GradientTypes, plc
  <2> QED BY <1>1, <1>2, <2>2, <2>5
<1>9. CASE OnSetpointExpr
  <2>1. Arrives("pid/setpoint_expr") /\ bus' = Tail(bus) \o <<>>
        /\ UNCHANGED <<gradient, reg, reportDue, retained>>
        /\ expr' = [expr EXCEPT ![Msg.zone] = Msg.expr]
    BY <1>9 DEF OnSetpointExpr, Reply
  <2>2. Msg.expr \in Expression /\ bus' \in Seq(Messages) BY <2>1, Arrived, MessageKinds
  <2>3. expr' \in [Zones -> Expression] BY <2>1, <2>2 DEF GradientTypes
  <2>4. GradientTypes' BY <2>1, <2>3 DEF GradientTypes, gradient
  <2> QED BY <1>1, <1>2, <2>2, <2>4
<1> QED BY <1>4, <1>5, <1>6, <1>7, <1>8, <1>9 DEF ForGradient

(* A runner q in place of the one r was.                                   *)
Sound(q) ==
  /\ q \in Runner
  /\ q.pc \in Begun => q.idx \in 1 .. Len(q.prog) + 1
  /\ q.pc \in {"track", "hold"} => q.idx <= Len(q.prog)
  /\ q.pc \in Begun /\ q.idx <= Len(q.prog) => q.sub \in 1 .. Points(q.prog[q.idx])
  /\ q.pc = "track" => q.prog[q.idx].kind = "step"

LEMMA RunnerIs ==
  ASSUME SequencerTypes, NEW r \in Runners
  PROVE  /\ Sound(runner[r]) /\ runner[r].prog \in Seq(Items) /\ Len(runner[r].prog) \in Nat
         /\ runner[r].idx \in Nat /\ runner[r].sub \in Nat /\ runner[r].left \in Nat
         /\ runner[r].todo \in Seq(Messages)
         /\ runner[r].pc \in Begun /\ runner[r].idx <= Len(runner[r].prog) => Item(r) \in Items
<1>1. runner[r] \in Runner /\ Sound(runner[r]) BY DEF SequencerTypes, Sound, Item
<1>2. /\ runner[r].prog \in Seq(Items) /\ runner[r].idx \in Nat /\ runner[r].sub \in Nat
      /\ runner[r].todo \in Seq(Messages) /\ runner[r].left \in Nat
  BY <1>1 DEF Runner
<1>3. Len(runner[r].prog) \in Nat BY <1>2, LenProperties
<1>4. ASSUME runner[r].pc \in Begun, runner[r].idx <= Len(runner[r].prog) PROVE Item(r) \in Items
  <2>1. runner[r].idx \in 1 .. Len(runner[r].prog) BY <1>1, <1>2, <1>3, <1>4 DEF Sound
  <2> QED BY <1>2, <2>1, ElementOfSeq DEF Item
<1> QED BY <1>1, <1>2, <1>3, <1>4

LEMMA RunnerChanges ==
  ASSUME SequencerTypes, NEW r \in Runners, NEW q, Sound(q), runner' = [runner EXCEPT ![r] = q],
         items' = items, running' \in BOOLEAN, abort' = abort, active' \subseteq SeqIds,
         leftover' \subseteq SeqIds
  PROVE  SequencerTypes'
<1>1. /\ runner' \in [Runners -> Runner] /\ runner'[r] = q
      /\ \A s \in Runners \ {r} : runner'[s] = runner[s]
  BY DEF SequencerTypes, Sound
<1>2. \A s \in Runners : Sound(runner'[s])
  BY <1>1, RunnerIs
<1> QED BY <1>1, <1>2 DEF SequencerTypes, Sound, Item

LEMMA RunnerGoes ==
  ASSUME TypeInv, NEW r \in Runners, RunnerStep(r) PROVE TypeInv'
<1> USE DEF TypeInv
<1>1. /\ StoreTypes' /\ GradientTypes' /\ TrackersTypes' /\ UNCHANGED <<snapAge, unseen, snap>>
  BY SameStore, SameGradient, SameTrackers DEF RunnerStep, tracking
<1>2. leftover' \subseteq SeqIds BY DEF RunnerStep, SequencerTypes
<1> DEFINE o == runner[r]
<1>3. /\ Sound(o) /\ o.prog \in Seq(Items) /\ Len(o.prog) \in Nat /\ o.idx \in Nat
      /\ o.sub \in Nat /\ o.todo \in Seq(Messages) /\ o.left \in Nat
      /\ o.pc \in Begun /\ o.idx <= Len(o.prog) => Item(r) \in Items
      /\ o = [pc |-> o.pc, prog |-> o.prog, idx |-> o.idx, sub |-> o.sub, todo |-> o.todo,
              left |-> o.left]
  BY RunnerIs DEF Sound, Runner
<1>4. /\ running \in BOOLEAN /\ active \subseteq SeqIds /\ runner \in [Runners -> Runner]
  BY DEF SequencerTypes
<1>5. Item(r) = o.prog[o.idx] BY DEF Item
<1>6. CASE Begin(r)
  <2>0. PICK q : q = [o EXCEPT !.pc = "next", !.idx = 1, !.sub = 1] OBVIOUS
  <2>1. q = [pc |-> "next", prog |-> o.prog, idx |-> 1, sub |-> 1, todo |-> o.todo,
             left |-> o.left]
    BY <1>3, <2>0
  <2>2. /\ runner' = [runner EXCEPT ![r] = q] /\ running' = TRUE /\ active' = {}
        /\ UNCHANGED <<items, abort, bus>>
    BY <1>6, <2>0 DEF Begin
  <2>3. 1 <= Len(o.prog) => 1 \in 1 .. Points(o.prog[1])
    <3> SUFFICES ASSUME 1 <= Len(o.prog) PROVE 1 \in 1 .. Points(o.prog[1]) OBVIOUS
    <3>1. o.prog[1] \in Items BY <1>3, ElementOfSeq
    <3> QED BY <3>1, ItemKinds
  <2>4. Sound(q) BY <1>3, <2>1, <2>3 DEF Sound, Runner, Begun
  <2> QED BY <1>1, <1>2, <2>2, <2>4, RunnerChanges
<1>7. CASE End(r)
  <2>1. Sound(Idle)
    <3>1. Idle \in Runner /\ Idle.pc = "none" BY EmptySeq DEF Idle, Runner
    <3> QED BY <3>1 DEF Sound, Begun
  <2>2. /\ runner' = [runner EXCEPT ![r] = Idle] /\ running' = FALSE /\ active' = {}
        /\ UNCHANGED <<items, abort, bus>>
    BY <1>7 DEF End
  <2> QED BY <1>1, <1>2, <2>1, <2>2, RunnerChanges
<1>8. CASE Enter(r)
  <2> DEFINE i == Item(r)
             new == IF i.kind = "step" THEN Reconcile(i)
                    ELSE Writes([z \in i.targets |-> Values(i)[o.sub]])
             p == IF i.kind = "step" THEN "track" ELSE "hold"
  <2>1. o.pc = "next" /\ o.idx <= Len(o.prog) BY <1>3, <1>8 DEF Enter, At, Over
  <2>2. i \in Items /\ o.idx \in 1 .. Len(o.prog) /\ o.sub \in 1 .. Points(i)
    BY <1>3, <1>5, <2>1 DEF Sound, Begun
  <2>3. new \in Seq(Messages)
    <3>1. CASE i.kind = "step" BY <2>2, <3>1, <1>4, ReconcileIs
    <3>2. CASE i.kind # "step"
      <4> DEFINE F == [z \in i.targets |-> Values(i)[o.sub]]
      <4>1. DOMAIN F \subseteq Zones /\ F \in [DOMAIN F -> Int] BY <2>2, <3>2, ItemKinds
      <4> HIDE DEF F
      <4>2. Writes(F) \in Seq(Messages) BY <4>1, WritesIs
      <4> QED BY <3>2, <4>2 DEF F
    <3> QED BY <3>1, <3>2
  <2>0. PICK q : q = [o EXCEPT !.pc = p, !.left = i.hold, !.todo = new] OBVIOUS
  <2>4. q = [pc |-> p, prog |-> o.prog, idx |-> o.idx, sub |-> o.sub, todo |-> new,
             left |-> i.hold]
    BY <1>3, <2>0
  <2>5. /\ runner' = [runner EXCEPT ![r] = q] /\ UNCHANGED <<items, running, abort, active, bus>>
    BY <1>8, <2>0 DEF Enter
  <2>6. i.hold \in Nat BY <2>2, ItemKinds
  <2> HIDE DEF new
  <2>7. Sound(q) BY <1>3, <1>5, <2>2, <2>3, <2>4, <2>6 DEF Sound, Runner, Begun
  <2> QED BY <1>1, <1>2, <1>4, <2>5, <2>7, RunnerChanges
<1>9. CASE Send(r)
  <2>1. o.todo # <<>> /\ bus' = bus \o <<Head(o.todo)>> BY <1>9 DEF Send, Publish
  <2>2. Head(o.todo) \in Messages /\ Tail(o.todo) \in Seq(Messages)
    BY <1>3, <2>1, HeadTailProperties
  <2>0. PICK q : q = [o EXCEPT !.todo = Tail(o.todo)] OBVIOUS
  <2>3. q = [pc |-> o.pc, prog |-> o.prog, idx |-> o.idx, sub |-> o.sub,
             todo |-> Tail(o.todo), left |-> o.left]
    BY <1>3, <2>0
  <2>4. runner' = [runner EXCEPT ![r] = q] /\ UNCHANGED <<items, running, abort, active>>
    BY <1>9, <2>0 DEF Send
  <2>5. Sound(q) BY <1>3, <2>2, <2>3 DEF Sound, Runner
  <2>6. bus' \in Seq(Messages) BY <2>1, <2>2, OneSent
  <2> QED BY <1>1, <1>2, <1>4, <2>4, <2>5, <2>6, RunnerChanges
<1>10. CASE Tracked(r)
  <2>1. o.pc = "track" /\ active' = Wanted(Item(r)) /\ UNCHANGED <<items, running, abort, bus>>
    BY <1>10 DEF Tracked, At
  <2>2. Item(r) \in Items /\ Item(r).kind = "step" BY <1>3, <1>5, <2>1 DEF Sound, Begun
  <2>3. active' \subseteq SeqIds /\ Writes(Item(r).writes) \in Seq(Messages)
    BY <2>1, <2>2, ItemKinds, WritesIs
  <2>0. PICK q : q = [o EXCEPT !.pc = "hold", !.todo = Writes(Item(r).writes)] OBVIOUS
  <2>4. q = [pc |-> "hold", prog |-> o.prog, idx |-> o.idx, sub |-> o.sub,
             todo |-> Writes(Item(r).writes), left |-> o.left]
    BY <1>3, <2>0
  <2>5. runner' = [runner EXCEPT ![r] = q]
    BY <1>10, <2>0 DEF Tracked
  <2>6. Sound(q) BY <1>3, <2>1, <2>3, <2>4 DEF Sound, Runner, Begun
  <2> QED BY <1>1, <1>2, <1>4, <2>1, <2>3, <2>5, <2>6, RunnerChanges
<1>11. CASE Held(r)
  <2>1. o.pc = "hold" /\ UNCHANGED <<items, running, abort, active, bus>>
    BY <1>11 DEF Held, At
  <2>2. /\ Item(r) \in Items /\ o.idx \in 1 .. Len(o.prog) /\ o.sub \in 1 .. Points(Item(r))
        /\ Points(Item(r)) \in Nat
    BY <1>3, <1>5, <2>1, ItemKinds DEF Sound, Begun
  <2>0. PICK q : q = [o EXCEPT !.pc = "next", !.left = 0,
                               !.sub = IF Further(r) THEN o.sub + 1 ELSE 1,
                               !.idx = IF Further(r) THEN o.idx ELSE o.idx + 1]
    OBVIOUS
  <2>3. q = [pc |-> "next", prog |-> o.prog,
             idx |-> IF Further(r) THEN o.idx ELSE o.idx + 1,
             sub |-> IF Further(r) THEN o.sub + 1 ELSE 1,
             todo |-> o.todo, left |-> 0]
    BY <1>3, <2>0
  <2>4. runner' = [runner EXCEPT ![r] = q]
    BY <1>3, <1>4, <1>11, <2>3 DEF Held
  <2>5. Sound(q)
    <3>1. CASE Further(r)
      <4>1. o.sub < Points(Item(r)) BY <3>1 DEF Further
      <4>2. o.sub + 1 \in 1 .. Points(Item(r)) BY <2>2, <4>1
      <4> QED BY <1>3, <1>5, <2>2, <2>3, <3>1, <4>2 DEF Sound, Runner, Begun
    <3>2. CASE ~Further(r)
      <4>1. o.idx + 1 <= Len(o.prog) => 1 \in 1 .. Points(o.prog[o.idx + 1])
        <5> SUFFICES ASSUME o.idx + 1 <= Len(o.prog) PROVE 1 \in 1 .. Points(o.prog[o.idx + 1])
          OBVIOUS
        <5>1. o.prog[o.idx + 1] \in Items BY <1>3, <2>2, ElementOfSeq
        <5> QED BY <5>1, ItemKinds
      <4> QED BY <1>3, <2>2, <2>3, <3>2, <4>1 DEF Sound, Runner, Begun
    <3> QED BY <3>1, <3>2
  <2> QED BY <1>1, <1>2, <1>4, <2>1, <2>4, <2>5, RunnerChanges
<1> QED BY <1>6, <1>7, <1>8, <1>9, <1>10, <1>11 DEF RunnerStep, Runs

LEMMA TickTypes ==
  ASSUME TypeInv, Tick PROVE TypeInv'
<1> USE DEF TypeInv
<1>1. StoreTypes'
  <2>1. /\ storeDue' = TRUE /\ entry' = entry
        /\ age' = [i \in Inputs |-> IF i \in Timed /\ age[i] < Old THEN age[i] + 1 ELSE age[i]]
        /\ kept' = kept
    BY DEF Tick, StoreTick
  <2>2. \A i \in Inputs : age[i] \in 0 .. Old BY DEF StoreTypes
  <2>3. \A i \in Inputs :
          (IF i \in Timed /\ age[i] < Old THEN age[i] + 1 ELSE age[i]) \in 0 .. Old
    BY <2>2, OldIs
  <2>4. age' \in [Inputs -> 0 .. Old] BY <2>1, <2>3
  <2> QED BY <2>1, <2>4 DEF StoreTypes
<1>2. TrackersTypes' BY DEF Tick, TrackersTick, TrackersTypes, Ids
<1>3. SequencerTypes'
  <2>1. /\ runner' = [r \in Runners |-> IF Waits(r) THEN [runner[r] EXCEPT !.left = @ - 1]
                                        ELSE runner[r]]
        /\ UNCHANGED <<items, running, abort, active, leftover>>
    BY DEF Tick, SequencerTick
  <2>2. ASSUME NEW r \in Runners PROVE Sound(runner'[r])
    <3>1. CASE Waits(r)
      <4>1. /\ Sound(runner[r]) /\ runner[r].left \in Nat /\ runner[r].left > 0
        BY <3>1, RunnerIs DEF Waits
      <4>2. PICK o : o = runner[r] OBVIOUS
      <4>3. PICK q : q = [o EXCEPT !.left = o.left - 1] OBVIOUS
      <4>4. o \in Runner BY <4>1, <4>2 DEF Sound
      <4>5. /\ q = [pc |-> o.pc, prog |-> o.prog, idx |-> o.idx, sub |-> o.sub, todo |-> o.todo,
                    left |-> o.left - 1]
            /\ o.pc \in {"none", "starting", "next", "track", "hold"} /\ o.prog \in Seq(Items)
            /\ o.idx \in Nat /\ o.sub \in Nat /\ o.todo \in Seq(Messages)
        BY <4>3, <4>4 DEF Runner
      <4>6. q \in Runner BY <4>1, <4>2, <4>5 DEF Runner
      <4>7. Sound(q) BY <4>1, <4>2, <4>5, <4>6 DEF Sound
      <4>8. runner'[r] = q BY <2>1, <3>1, <4>2, <4>3
      <4> QED BY <4>7, <4>8
    <3>2. CASE ~Waits(r) BY <2>1, <3>2, RunnerIs
    <3> QED BY <3>1, <3>2
  <2>3. runner' \in [Runners -> Runner] BY <2>1, <2>2 DEF Sound
  <2> QED BY <2>1, <2>2, <2>3 DEF SequencerTypes, Sound, Item
<1>4. GradientTypes' BY DEF Tick, PollTick, GradientTypes, gradient
<1> QED BY <1>1, <1>2, <1>3, <1>4 DEF Tick

(* A non-empty set of places in a sequence has a last one.                 *)
LEMMA Topmost ==
  ASSUME NEW k \in Nat, NEW N, N \subseteq 1 .. k, N # {}
  PROVE  \E n \in N : \A m \in N : m <= n
<1> DEFINE R == OpToRel(<, Nat)
           T == {k - n : n \in N}
<1>1. IsWellFoundedOn(R, Nat) BY NatLessThanWellFounded
<1>2. T \subseteq Nat
  <2>1. \A n \in N : k - n \in Nat OBVIOUS
  <2> QED BY <2>1
<1>3. T # {}
  <2>1. PICK n \in N : TRUE OBVIOUS
  <2>2. k - n \in T OBVIOUS
  <2> QED BY <2>2
<1>4. \A x, y \in Nat : x < y => <<x, y>> \in R BY DEF OpToRel
<1> HIDE DEF R
<1>5. PICK x \in T : \A y \in T : <<y, x>> \notin R BY <1>1, <1>2, <1>3, WFMin
<1>6. PICK n \in N : x = k - n BY <1>5
<1>7. ASSUME NEW m \in N PROVE m <= n
  <2>1. k - m \in T /\ <<k - m, x>> \notin R BY <1>5
  <2>2. ~(k - m < x) BY <1>2, <1>4, <2>1
  <2> QED BY <1>6, <2>2
<1> QED BY <1>7

LEMMA LastSnapshotIs ==
  ASSUME TypeInv
  PROVE  /\ LastSnapshot \in Seq(Messages)
         /\ LastSnapshot = <<>> \/ \E m \in Messages : LastSnapshot = <<m>> /\
              \/ m.topic = "snapshot" /\ \E n \in 1 .. Len(bus) : m = bus[n]
              \/ snap # <<>> /\ m = SnapshotMsg(snap, snapAge)
<1> USE DEF TypeInv
<1> DEFINE N == {n \in DOMAIN bus : bus[n].topic = "snapshot"}
<1>1. DOMAIN bus = 1 .. Len(bus) /\ Len(bus) \in Nat /\ \A n \in 1 .. Len(bus) : bus[n] \in Messages
  BY LenProperties, ElementOfSeq
<1>2. CASE N = {} /\ snap = <<>> BY <1>2, EmptySeq DEF LastSnapshot
<1>3. CASE N = {} /\ snap # <<>>
  <2>1. SnapshotMsg(snap, snapAge) \in Messages
    BY <1>3 DEF SnapshotMsg, Messages, TrackersTypes
  <2>2. LastSnapshot = <<SnapshotMsg(snap, snapAge)>> BY <1>3 DEF LastSnapshot
  <2> QED BY <1>3, <2>1, <2>2
<1>4. CASE N # {}
  <2>1. \E k \in N : \A m \in N : m <= k
    <3>1. N \subseteq 1 .. Len(bus) BY <1>1
    <3> HIDE DEF N
    <3> QED BY <1>1, <1>4, <3>1, Topmost
  <2>2. PICK k \in N : k = CHOOSE n \in N : \A m \in N : m <= n BY <2>1
  <2>3. LastSnapshot = <<bus[k]>> BY <1>4, <2>2 DEF LastSnapshot
  <2>4. k \in 1 .. Len(bus) /\ bus[k].topic = "snapshot" BY <1>1
  <2> QED BY <1>1, <2>3, <2>4
<1> QED BY <1>2, <1>3, <1>4

LEMMA RestartTypes ==
  ASSUME TypeInv, Restart PROVE TypeInv'
<1> USE DEF TypeInv
<1>1. StoreTypes'
  <2>1. Old \in 0 .. Old BY OldIs
  <2> QED BY <2>1 DEF Restart, StoreStart, StoreTypes
<1>2. TrackersTypes' /\ Ids' = Ids
  <2>1. /\ trackers' = [id \in Ids |-> [trackers[id] EXCEPT !.sent = Never, !.to = Never]]
        /\ snap' = <<>> /\ seen' = <<>> /\ evalDue' = FALSE /\ round' = <<>>
        /\ writing' = Nothing
    BY DEF Restart, TrackersStart
  <2>2. ASSUME NEW id \in Ids PROVE trackers'[id] \in Tracker /\ Paired(trackers'[id])
    <3>1. trackers[id] \in Tracker BY DEF TrackersTypes
    <3>2. Resent(trackers'[id], trackers[id], Never, Never) BY <2>1, <3>1, TrackerSent
    <3> QED BY <3>2 DEF Paired, Resent
  <2>3. /\ Ids' = Ids /\ trackers' \in [Ids' -> Tracker]
        /\ \A id \in Ids' : Paired(trackers'[id])
    BY <2>1, <2>2 DEF Ids
  <2>4. DOMAIN <<>> = {} OBVIOUS
  <2> QED BY <2>1, <2>3, <2>4 DEF TrackersTypes
<1>3. SequencerTypes'
  <2>1. Idle \in Runner /\ Idle.pc = "none" BY EmptySeq DEF Idle, Runner
  <2>2. /\ runner' = [r \in Runners |-> Idle] /\ active' = {} /\ leftover' \subseteq SeqIds
        /\ running' = FALSE /\ abort' = FALSE /\ items' = items
    BY DEF Restart, SequencerStart
  <2> QED BY <2>1, <2>2 DEF SequencerTypes, Begun
<1>4. GradientTypes'
  <2>1. Default \in Int BY ZonesAssumption
  <2>2. [z \in Zones |-> 0] \in [Zones -> Int] /\ [z \in Zones |-> Default] \in [Zones -> Int]
    BY <2>1
  <2> QED BY <2>1, <2>2, NoExprIs DEF Restart, GradientStart, GradientTypes
<1>5. bus' \in Seq(Messages)
  <2>1. bus' = LastSnapshot \o Status(retained) BY DEF Restart
  <2>2. Status(retained) \in Seq(Messages) BY StatusIs DEF GradientTypes
  <2> QED BY <2>1, <2>2, LastSnapshotIs, ConcatProperties
<1> QED BY <1>1, <1>2, <1>3, <1>4, <1>5 DEF Restart

LEMMA StepTypes ==
  ASSUME TypeInv, [Next]_vars PROVE TypeInv'
<1> USE DEF TypeInv
<1>0. ASSUME NEW i \in Inputs, NEW v \in Readings \cup {NoValue}, Ingest(i, v)
      PROVE  StoreTypes'
  <2>1. 0 \in 0 .. Old BY OldIs
  <2> QED BY <1>0, <2>1 DEF Ingest, StoreTypes
<1>1. ASSUME NEW i \in Moving, NEW v \in Readings, Reads(i, v) PROVE TypeInv'
  <2>1. /\ TrackersTypes' /\ SequencerTypes' /\ GradientTypes'
        /\ UNCHANGED <<bus, snapAge, unseen>>
    BY <1>1, SameTrackers, SameSequencer, SameGradient DEF Reads
  <2>2. StoreTypes' BY <1>0, <1>1, InputsAssumption DEF Reads
  <2> QED BY <2>1, <2>2
<1>11. ASSUME NEW i \in Kept, ReadsAgain(i) PROVE TypeInv'
  <2>1. /\ TrackersTypes' /\ SequencerTypes' /\ GradientTypes'
        /\ UNCHANGED <<bus, snapAge, unseen>>
    BY <1>11, SameTrackers, SameSequencer, SameGradient DEF ReadsAgain
  <2>2. kept[i] \in Readings \cup {NoValue} /\ i \in Inputs
    BY StoreAssumption DEF StoreTypes
  <2>3. StoreTypes' BY <1>0, <1>11, <2>2 DEF ReadsAgain, Redelivered
  <2> QED BY <2>1, <2>3
<1>2. ASSUME NEW m \in Commands, Sends(m) PROVE TypeInv'
  <2>1. /\ StoreTypes' /\ TrackersTypes' /\ SequencerTypes' /\ GradientTypes'
        /\ UNCHANGED <<snapAge, unseen>>
    BY <1>2, SameStore, SameTrackers, SameSequencer, SameGradient DEF Sends
  <2>2. m \in Messages BY InputsAssumption DEF Messages
  <2>3. bus' = bus \o <<m>> BY <1>2 DEF Sends, Publish
  <2> QED BY <2>1, <2>2, <2>3, OneSent
<1>3. CASE StoreStep
  <2>1. /\ TrackersTypes' /\ SequencerTypes' /\ GradientTypes' /\ UNCHANGED <<snapAge, unseen>>
    BY <1>3, SameTrackers, SameSequencer, SameGradient DEF StoreStep
  <2>2. /\ storeDue' = FALSE /\ UNCHANGED <<entry, age, kept>>
        /\ bus' = bus \o <<SnapshotMsg(Snapshot, 0)>>
    BY <1>3 DEF StoreStep, PublishSnapshot, Publish
  <2>3. StoreTypes' BY <2>2 DEF StoreTypes
  <2> QED BY <2>1, <2>2, <2>3, SnapshotIs, OneSent
<1>4. CASE PollStep
  <2>1. /\ StoreTypes' /\ TrackersTypes' /\ SequencerTypes' /\ snapAge' = snapAge
        /\ unseen' \in BOOLEAN
    BY <1>4, SameStore, SameTrackers, SameSequencer DEF PollStep
  <2>2. /\ reportDue' = FALSE /\ retained' = reg /\ UNCHANGED <<gradient, expr>>
        /\ bus' = bus \o Status(reg)
    BY <1>4 DEF PollStep, Report, Publish
  <2>3. bus' \in Seq(Messages) BY <2>2, StatusIs, ConcatProperties DEF GradientTypes
  <2>4. reg' \in [Zones -> Int]
    <3>1. CASE WriteExpressions
      <4>1. \A z \in Zones : Leaves(z) \subseteq Int BY DEF Leaves, GradientTypes, Expression
      <4> QED BY <3>1, <4>1 DEF WriteExpressions
    <3>2. CASE WriteSurrogates BY <3>2, ZonesAssumption DEF WriteSurrogates
    <3> QED BY <1>4, <3>1, <3>2 DEF PollStep
  <2>5. GradientTypes' BY <2>2, <2>4 DEF GradientTypes, gradient
  <2> QED BY <2>1, <2>3, <2>5
<1>5. CASE Tick BY <1>5, TickTypes
<1>6. CASE Restart BY <1>6, RestartTypes
<1>7. CASE Deliver BY <1>7, TrackersHear, SequencerHears, GradientHears DEF Deliver
<1>8. CASE TrackersStep BY <1>8, TrackersGo
<1>9. ASSUME NEW r \in Runners, RunnerStep(r) PROVE TypeInv' BY <1>9, RunnerGoes
<1>10. CASE UNCHANGED vars
  <2>1. /\ StoreTypes' /\ TrackersTypes' /\ SequencerTypes' /\ GradientTypes'
    BY <1>10, SameStore, SameTrackers, SameSequencer, SameGradient DEF vars
  <2> QED BY <1>10, <2>1 DEF vars
<1> QED BY <1>1, <1>2, <1>3, <1>4, <1>5, <1>6, <1>7, <1>8, <1>9, <1>10, <1>11 DEF Next

(* What every variable holds: readings and ages within their bounds,       *)
(* trackers of zones, trackers of the sequencer's own ids, runners in one  *)
(* of their states, setpoints that are numbers.                            *)
LEMMA TypesAlways == Spec => []TypeInv
BY InitTypes, StepTypes, PTL DEF Spec

LEMMA TypesSuffice == TypeInv => TypeOK
<1> SUFFICES ASSUME TypeInv PROVE TypeOK OBVIOUS
<1>1. \A i \in Inputs : entry[i] \in Readings \cup {NoValue} /\ age[i] \in 0 .. Old
  BY DEF TypeInv, StoreTypes
<1>2. /\ \A id \in Ids : trackers[id].target \in Zones /\ trackers[id].sent \in Int \cup {Never}
      /\ DOMAIN round \subseteq Ids \cup {id \in DOMAIN round : round[id] # <<>>}
      /\ \A id \in Ids : trackers[id].to = Never <=> trackers[id].sent = Never
      /\ writing # Nothing => writing.id \in DOMAIN round
  <2>1. \A id \in Ids : trackers[id] \in Tracker BY DEF TypeInv, TrackersTypes
  <2>2. \A id \in DOMAIN round : id \in Ids \/ round[id] # <<>>
    BY NoTracker DEF TypeInv, TrackersTypes
  <2>3. /\ \A id \in Ids : trackers[id].to = Never <=> trackers[id].sent = Never
        /\ writing # Nothing => writing.id \in DOMAIN round
    BY DEF TypeInv, TrackersTypes, Paired
  <2> QED BY <2>1, <2>2, <2>3 DEF Tracker
<1>3. {running, abort, evalDue, storeDue} \subseteq BOOLEAN
  BY DEF TypeInv, StoreTypes, TrackersTypes, SequencerTypes
<1>4. /\ active \subseteq SeqIds /\ leftover \subseteq SeqIds
      /\ \A r \in Runners : runner[r].pc \in {"none", "starting", "next", "track", "hold"}
  BY DEF TypeInv, SequencerTypes, Runner
<1>5. /\ mode \in {"gradient", "absolute"} /\ base \in Int
      /\ \A z \in Zones : {delta[z], abs[z], reg[z], retained[z]} \subseteq Int
  BY DEF TypeInv, GradientTypes
<1>6. {reportDue, unseen} \subseteq BOOLEAN /\ expr \in [Zones -> Expression]
  BY DEF TypeInv, GradientTypes
<1> QED BY <1>1, <1>2, <1>3, <1>4, <1>5, <1>6 DEF TypeOK

THEOREM TypeCorrect == Spec => []TypeOK
BY TypesAlways, TypesSuffice, PTL

-----------------------------------------------------------------------------
(* What a step does to the messages under way.                             *)

(* A runner has only trackers and setpoints to send.                       *)
Orders == {"trackers/set", "trackers/remove", "pid/setpoint"}
TodoInv == \A r \in Runners : \A n \in 1 .. Len(runner[r].todo) : runner[r].todo[n].topic \in Orders

LEMMA TodoIs ==
  ASSUME TypeInv, TodoInv, NEW r \in Runners, RunnerStep(r) PROVE TodoInv'
<1> USE DEF TypeInv
<1> DEFINE o == runner[r]
<1>1. runner \in [Runners -> Runner] BY DEF SequencerTypes
<1>2. /\ o.todo \in Seq(Messages)
      /\ o.pc = "next" /\ ~Over(r) => o.idx \in 1 .. Len(o.prog) /\ o.sub \in 1 .. Points(Item(r))
      /\ o.pc \in Begun /\ o.idx <= Len(o.prog) => Item(r) \in Items
  BY RunnerIs DEF Over, Sound, Begun, Item
<1>3. ASSUME NEW q, runner' = [runner EXCEPT ![r] = q],
             \A n \in 1 .. Len(q.todo) : q.todo[n].topic \in Orders
      PROVE  TodoInv'
  BY <1>1, <1>3 DEF TodoInv
<1>4. CASE Begin(r)
  <2>1. PICK q : q = [o EXCEPT !.pc = "next", !.idx = 1, !.sub = 1] OBVIOUS
  <2>2. runner' = [runner EXCEPT ![r] = q] /\ q.todo = o.todo
    BY <1>1, <1>4, <2>1 DEF Begin, Runner
  <2> QED BY <1>3, <2>2 DEF TodoInv
<1>5. CASE End(r)
  <2>1. runner' = [runner EXCEPT ![r] = Idle] /\ Idle.todo = <<>> BY <1>5 DEF End, Idle
  <2>2. Len(<<>>) = 0 /\ 1 .. 0 = {} BY EmptySeq
  <2> QED BY <1>3, <2>1, <2>2
<1>6. CASE Enter(r)
  <2> DEFINE i == Item(r)
             F == [z \in i.targets |-> Values(i)[o.sub]]
             new == IF i.kind = "step" THEN Reconcile(i) ELSE Writes(F)
  <2>1. o.pc = "next" /\ i \in Items /\ o.sub \in 1 .. Points(i)
    BY <1>1, <1>2, <1>6, RunnerIs DEF Enter, At, Over, Begun
  <2>2. \A n \in 1 .. Len(new) : new[n].topic \in Orders
    <3>1. CASE i.kind = "step"
      <4>1. active \subseteq SeqIds BY DEF SequencerTypes
      <4>2. PICK q : q = Reconcile(i) OBVIOUS
      <4> QED BY <2>1, <3>1, <4>1, <4>2, ReconcileIs DEF Orders
    <3>2. CASE i.kind # "step"
      <4>1. DOMAIN F \subseteq Zones /\ F \in [DOMAIN F -> Int] BY <2>1, <3>2, ItemKinds
      <4> HIDE DEF F
      <4>2. \A n \in 1 .. Len(Writes(F)) : Writes(F)[n].topic = "pid/setpoint" BY <4>1, WritesIs
      <4> QED BY <3>2, <4>2 DEF Orders
    <3> QED BY <3>1, <3>2
  <2>3. PICK q : q = [o EXCEPT !.pc = IF i.kind = "step" THEN "track" ELSE "hold",
                               !.left = i.hold, !.todo = new]
    OBVIOUS
  <2>4. runner' = [runner EXCEPT ![r] = q] BY <1>6, <2>3 DEF Enter
  <2>5. q.todo = new BY <1>1, <2>3 DEF Runner
  <2> HIDE DEF new
  <2> QED BY <1>3, <2>2, <2>4, <2>5
<1>7. CASE Send(r)
  <2>1. o.todo # <<>> BY <1>7 DEF Send
  <2>2. PICK q : q = [o EXCEPT !.todo = Tail(o.todo)] OBVIOUS
  <2>3. runner' = [runner EXCEPT ![r] = q] /\ q.todo = Tail(o.todo)
    BY <1>1, <1>7, <2>2 DEF Send, Runner
  <2>4. /\ Len(Tail(o.todo)) = Len(o.todo) - 1 /\ Len(o.todo) \in Nat
        /\ \A n \in 1 .. Len(Tail(o.todo)) : Tail(o.todo)[n] = o.todo[n + 1]
    BY <1>2, <2>1, HeadTailProperties, LenProperties
  <2>5. \A n \in 1 .. Len(Tail(o.todo)) : n + 1 \in 1 .. Len(o.todo) BY <2>4
  <2>6. \A n \in 1 .. Len(o.todo) : o.todo[n].topic \in Orders BY DEF TodoInv
  <2>7. \A n \in 1 .. Len(Tail(o.todo)) : Tail(o.todo)[n].topic \in Orders BY <2>4, <2>5, <2>6
  <2> QED BY <1>3, <2>3, <2>7
<1>8. CASE Tracked(r)
  <2>1. o.pc = "track" /\ o.idx <= Len(o.prog) /\ Item(r) \in Items /\ Item(r).kind = "step"
    BY <1>2, <1>8, RunnerIs DEF Tracked, At, Sound, Begun, Item
  <2>2. PICK q : q = [o EXCEPT !.pc = "hold", !.todo = Writes(Item(r).writes)] OBVIOUS
  <2>3. runner' = [runner EXCEPT ![r] = q] /\ q.todo = Writes(Item(r).writes)
    BY <1>1, <1>8, <2>2 DEF Tracked, Runner
  <2>4. \A n \in 1 .. Len(Writes(Item(r).writes)) :
          Writes(Item(r).writes)[n].topic = "pid/setpoint"
    BY <2>1, ItemKinds, WritesIs
  <2> QED BY <1>3, <2>3, <2>4 DEF Orders
<1>9. CASE Held(r)
  <2>1. PICK q : q = [o EXCEPT !.pc = "next", !.left = 0,
                               !.sub = IF Further(r) THEN @ + 1 ELSE 1,
                               !.idx = IF Further(r) THEN @ ELSE @ + 1]
    OBVIOUS
  <2>2. q.todo = o.todo BY <1>1, <2>1 DEF Runner
  <2>3. runner'[r].todo = o.todo /\ \A s \in Runners \ {r} : runner'[s] = runner[s]
    BY <1>1, <1>9 DEF Held, Runner
  <2> QED BY <2>3 DEF TodoInv
<1> QED BY <1>4, <1>5, <1>6, <1>7, <1>8, <1>9 DEF RunnerStep, Runs

LEMMA TodoStays ==
  ASSUME TypeInv, TodoInv, [Next]_vars PROVE TodoInv'
<1> USE DEF TypeInv
<1>1. Idle.todo = <<>> /\ Len(<<>>) = 0 /\ 1 .. 0 = {} BY EmptySeq DEF Idle
<1>2. CASE UNCHANGED runner BY <1>2 DEF TodoInv
<1>3. CASE ForSequencer
  <2>1. CASE OnRun
    <3>1. CASE Startable
      <4>1. PICK r \in Runners : Spawn(r) BY <2>1, <3>1 DEF OnRun
      <4>2. PICK q : q = [Idle EXCEPT !.pc = "starting", !.prog = items] OBVIOUS
      <4>3. q.todo = <<>> BY <4>2 DEF Idle
      <4>4. runner' = [runner EXCEPT ![r] = q] BY <4>1, <4>2 DEF Spawn
      <4> QED BY <1>1, <4>3, <4>4 DEF TodoInv, SequencerTypes
    <3>2. CASE ~Startable BY <1>2, <2>1, <3>2 DEF OnRun
    <3> QED BY <3>1, <3>2
  <2> QED BY <1>2, <1>3, <2>1 DEF ForSequencer, OnSetProgram, OnAppend, OnClear, OnStop, Edits
<1>4. CASE Restart BY <1>1, <1>4 DEF Restart, SequencerStart, TodoInv
<1>5. CASE Tick
  <2>1. runner' = [r \in Runners |-> IF Waits(r) THEN [runner[r] EXCEPT !.left = @ - 1]
                                     ELSE runner[r]]
    BY <1>5 DEF Tick, SequencerTick
  <2>2. \A r \in Runners : runner'[r].todo = runner[r].todo
    BY <2>1 DEF SequencerTypes, Runner
  <2> QED BY <2>2 DEF TodoInv
<1>6. ASSUME NEW r \in Runners, RunnerStep(r) PROVE TodoInv' BY <1>6, TodoIs
<1> QED BY <1>2, <1>3, <1>4, <1>5, <1>6 DEF Next, vars, sequencing, Reads, ReadsAgain, Sends, Deliver,
           ForTrackers, ForGradient, StoreStep, TrackersStep, PollStep

LEMMA TodoStarts == Init => TodoInv
<1>1. Idle.todo = <<>> /\ Len(<<>>) = 0 /\ 1 .. 0 = {} BY EmptySeq DEF Idle
<1> QED BY <1>1 DEF Init, SequencerInit, TodoInv

(* The callbacks take the oldest message; the gradient controller's answer *)
(* with setpoints.                                                         *)
LEMMA ToTrackers ==
  ASSUME TypeInv, ForTrackers
  PROVE  /\ bus # <<>> /\ Msg = Head(bus) /\ Msg \in Messages /\ bus' = Tail(bus)
         /\ \/ OnSnapshot /\ Msg.topic = "snapshot"
            \/ OnSet /\ Msg.topic = "trackers/set"
            \/ OnRemove /\ Msg.topic = "trackers/remove"
            \/ OnEnable /\ Msg.topic = "trackers/enable"
<1> USE DEF TypeInv
<1>1. CASE OnSnapshot
  <2>1. Arrives("snapshot") BY <1>1 DEF OnSnapshot
  <2> QED BY <1>1, <2>1, Arrived DEF OnSnapshot, Reply
<1>2. CASE OnSet
  <2>1. Arrives("trackers/set") BY <1>2 DEF OnSet
  <2> QED BY <1>2, <2>1, Arrived DEF OnSet, Reply
<1>3. CASE OnRemove
  <2>1. Arrives("trackers/remove") BY <1>3 DEF OnRemove
  <2> QED BY <1>3, <2>1, Arrived DEF OnRemove, Reply
<1>4. CASE OnEnable
  <2>1. Arrives("trackers/enable") BY <1>4 DEF OnEnable
  <2> QED BY <1>4, <2>1, Arrived DEF OnEnable, Reply
<1> QED BY <1>1, <1>2, <1>3, <1>4 DEF ForTrackers

LEMMA ToSequencer ==
  ASSUME TypeInv, ForSequencer
  PROVE  /\ bus # <<>> /\ Msg = Head(bus) /\ Msg \in Messages /\ bus' = Tail(bus)
         /\ \/ OnRun /\ Msg.topic = "sequencer/run"
            \/ ~OnRun /\ UNCHANGED <<running, active, runner>>
               /\ Msg.topic \in {"sequencer/set", "sequencer/append", "sequencer/clear",
                                 "sequencer/stop"}
<1> USE DEF TypeInv
<1>1. ASSUME NEW topic, NEW new, Edits(topic, new)
      PROVE  /\ bus # <<>> /\ Msg = Head(bus) /\ Msg \in Messages /\ bus' = Tail(bus)
             /\ Msg.topic = topic /\ UNCHANGED <<running, active, runner>>
  <2>1. Arrives(topic) BY <1>1 DEF Edits
  <2> QED BY <1>1, <2>1, Arrived DEF Edits, Reply
<1>2. OnRun => Msg.topic = "sequencer/run" BY DEF OnRun, Arrives, Msg
<1>3. CASE OnSetProgram BY <1>1, <1>2, <1>3 DEF OnSetProgram
<1>4. CASE OnAppend BY <1>1, <1>2, <1>4 DEF OnAppend
<1>5. CASE OnClear BY <1>1, <1>2, <1>5 DEF OnClear
<1>6. CASE OnRun
  <2>1. Arrives("sequencer/run") BY <1>6 DEF OnRun
  <2> QED BY <1>6, <2>1, Arrived DEF OnRun, Reply
<1>7. CASE OnStop
  <2>1. Arrives("sequencer/stop") BY <1>7 DEF OnStop
  <2> QED BY <1>2, <1>7, <2>1, Arrived DEF OnStop, Reply
<1> QED BY <1>3, <1>4, <1>5, <1>6, <1>7 DEF ForSequencer

LEMMA ToGradient ==
  ASSUME TypeInv, ForGradient
  PROVE  /\ bus # <<>> /\ Msg = Head(bus) /\ Msg \in Messages
         /\ \/ /\ OnPidStatus /\ unseen' = unseen
               /\ Msg.topic = "pid/status" /\ bus' = Tail(bus)
            \/ /\ OnSetpoint /\ unseen' = TRUE
               /\ Msg.topic = "pid/setpoint" /\ bus' = Tail(bus)
            \/ /\ OnSetpointExpr /\ unseen' = unseen
               /\ Msg.topic = "pid/setpoint_expr" /\ bus' = Tail(bus)
            \/ /\ unseen' = TRUE
               /\ Msg.topic \in {"gradient/mode", "gradient/base", "gradient/delta"}
               /\ \E c \in Seq(Messages) : /\ bus' = Tail(bus) \o c
                                           /\ \A n \in 1 .. Len(c) : c[n].topic = "pid/setpoint"
<1> USE DEF TypeInv
<1>1. ASSUME NEW topic, Arrives(topic), NEW m, NEW b \in Int, NEW d \in [Zones -> Int],
             Apply(m, b, d)
      PROVE  /\ bus # <<>> /\ Msg = Head(bus) /\ Msg \in Messages /\ Msg.topic = topic
             /\ \E c \in Seq(Messages) : /\ bus' = Tail(bus) \o c
                                         /\ \A n \in 1 .. Len(c) : c[n].topic = "pid/setpoint"
  <2>1. bus' = Tail(bus) \o Commanded(m, b, d) BY <1>1 DEF Apply, Reply, Commanded
  <2> QED BY <1>1, <2>1, Arrived, CommandedIs
<1>2. CASE OnMode /\ unseen' = TRUE
  <2>1. Arrives("gradient/mode") BY <1>2 DEF OnMode
  <2> QED BY <1>1, <1>2, <2>1 DEF OnMode, GradientTypes
<1>3. CASE OnBase /\ unseen' = TRUE
  <2>1. Arrives("gradient/base") /\ Msg.value \in Int
    BY <1>3, Arrived, MessageKinds DEF OnBase
  <2> QED BY <1>1, <1>3, <2>1 DEF OnBase, GradientTypes
<1>4. CASE OnDelta /\ unseen' = TRUE
  <2>1. Arrives("gradient/delta") /\ Msg.value \in Int
    BY <1>4, Arrived, MessageKinds DEF OnDelta
  <2>2. [delta EXCEPT ![Msg.zone] = Msg.value] \in [Zones -> Int] BY <2>1 DEF GradientTypes
  <2> QED BY <1>1, <1>4, <2>1, <2>2 DEF OnDelta, GradientTypes
<1>5. CASE OnSetpoint /\ unseen' = TRUE
  <2>1. Arrives("pid/setpoint") BY <1>5 DEF OnSetpoint
  <2> QED BY <1>5, <2>1, Arrived DEF OnSetpoint, Reply
<1>6. CASE OnPidStatus /\ unseen' = unseen
  <2>1. Arrives("pid/status") BY <1>6 DEF OnPidStatus
  <2> QED BY <1>6, <2>1, Arrived DEF OnPidStatus, Reply
<1>7. CASE OnSetpointExpr /\ unseen' = unseen
  <2>1. Arrives("pid/setpoint_expr") BY <1>7 DEF OnSetpointExpr
  <2> QED BY <1>7, <2>1, Arrived DEF OnSetpointExpr, Reply
<1> QED BY <1>2, <1>3, <1>4, <1>5, <1>6, <1>7 DEF ForGradient

LEMMA EvalSends ==
  ASSUME TypeInv, TrackersStep
  PROVE  bus' = bus \/ \E m \in Messages : m.topic = "pid/setpoint" /\ bus' = bus \o <<m>>
<1> USE DEF TypeInv
<1>1. CASE StartRound BY <1>1 DEF StartRound
<1>2. ASSUME NEW id \in DOMAIN round, EvalOne(id)
      PROVE  bus' = bus \/ \E m \in Messages : m.topic = "pid/setpoint" /\ bus' = bus \o <<m>>
  <2> DEFINE t == Object(id)
             m == [topic |-> "pid/setpoint", zone |-> t.target, value |-> Goal(t, seen), by |-> id]
  <2>1. t \in Tracker /\ id \in STRING
    BY <1>2, NoTracker DEF EvalOne, Object, TrackersTypes
  <2>2. IF Moves(t, seen) THEN bus' = bus \o <<m>> ELSE bus' = bus
    BY <1>2 DEF EvalOne, Publish
  <2>3. Moves(t, seen) => Goal(t, seen) \in Int
    BY <2>1, GoalIs DEF Moves, TrackersTypes
  <2>4. t.target \in Zones BY <2>1 DEF Tracker
  <2> HIDE DEF t
  <2>5. Moves(t, seen) => m \in Messages BY <2>1, <2>3, <2>4, SetpointIs DEF Callers
  <2>6. m.topic = "pid/setpoint" OBVIOUS
  <2> HIDE DEF m
  <2> QED BY <2>2, <2>5, <2>6
<1>3. CASE Note BY <1>3 DEF Note
<1> QED BY <1>1, <1>2, <1>3 DEF TrackersStep

LEMMA RunnerSends ==
  ASSUME TypeInv, TodoInv, NEW r \in Runners, RunnerStep(r)
  PROVE  bus' = bus \/ \E m \in Messages : m.topic \in Orders /\ bus' = bus \o <<m>>
<1> USE DEF TypeInv
<1>1. CASE Send(r)
  <2>1. runner[r].todo \in Seq(Messages) /\ runner[r].todo # <<>> BY <1>1, RunnerIs DEF Send
  <2>2. /\ Head(runner[r].todo) \in Messages
        /\ Head(runner[r].todo) = runner[r].todo[1] /\ 1 \in 1 .. Len(runner[r].todo)
    BY <2>1, HeadTailProperties, EmptySeq, LenProperties
  <2>3. Head(runner[r].todo).topic \in Orders BY <2>2 DEF TodoInv
  <2> QED BY <1>1, <2>2, <2>3 DEF Send, Publish
<1>2. CASE ~Send(r) BY <1>2 DEF RunnerStep, Runs, Begin, End, Enter, Tracked, Held
<1> QED BY <1>1, <1>2

-----------------------------------------------------------------------------
(* The gradient controller mirrors the PLC.                                *)

LEMMA OneMore ==
  ASSUME bus \in Seq(Messages), NEW m \in Messages, NEW M, NEW L, NEW p,
         m \notin M, Settles(bus, M, L, p)
  PROVE  Settles(bus \o <<m>>, M, L, p)
<1> DEFINE c == <<m>>
<1>1. c \in Seq(Messages) /\ Len(c) = 1 /\ c[1] = m OBVIOUS
<1> HIDE DEF c
<1>2. \A n \in 1 .. Len(c) : c[n] \notin M BY <1>1
<1> QED BY <1>1, <1>2, SettlesStays DEF c

LEMMA MirrorKept ==
  ASSUME TypeInv, MirrorInv, unseen' = unseen, UNCHANGED <<base, delta, abs, reg>>,
         \/ bus' = bus
         \/ bus # <<>> /\ bus' = Tail(bus) /\ Head(bus).topic # "pid/status"
         \/ \E m \in Messages : m.topic # "pid/status" /\ bus' = bus \o <<m>>
  PROVE  MirrorInv'
<1> SUFFICES ASSUME ~unseen
             PROVE  /\ \A z \in Zones : Settles(bus', Reports(z), RightOne(z), abs[z] = reg[z])
                    /\ Settles(bus', AllReports, AllReports, Adopted)
  BY DEF MirrorInv, RightOne, Adopted
<1>0. bus \in Seq(Messages) BY DEF TypeInv
<1>1. /\ \A z \in Zones : Settles(bus, Reports(z), RightOne(z), abs[z] = reg[z])
      /\ Settles(bus, AllReports, AllReports, Adopted)
  BY DEF MirrorInv
<1>2. \A m : m.topic # "pid/status" =>
        /\ \A z \in Zones : m \notin Reports(z) /\ m \notin RightOne(z)
        /\ m \notin AllReports
  BY DEF Reports, RightOne, AllReports
<1>3. CASE bus' = bus BY <1>1, <1>3
<1>4. CASE bus # <<>> /\ bus' = Tail(bus) /\ Head(bus).topic # "pid/status"
  <2>1. \A z \in Zones : Settles(Tail(bus), Reports(z), RightOne(z), abs[z] = reg[z])
    <3> SUFFICES ASSUME NEW z \in Zones
                 PROVE  Settles(Tail(bus), Reports(z), RightOne(z), abs[z] = reg[z])
      OBVIOUS
    <3>1. Head(bus) \notin Reports(z) /\ Head(bus) \notin RightOne(z) BY <1>2, <1>4
    <3> QED BY <1>0, <1>1, <1>4, <3>1, SettlesLater
  <2>2. Settles(Tail(bus), AllReports, AllReports, Adopted)
    <3>1. Head(bus) \notin AllReports BY <1>2, <1>4
    <3> QED BY <1>0, <1>1, <1>4, <3>1, SettlesLater
  <2> QED BY <1>4, <2>1, <2>2
<1>5. ASSUME NEW m \in Messages, m.topic # "pid/status", bus' = bus \o <<m>>
      PROVE  /\ \A z \in Zones : Settles(bus', Reports(z), RightOne(z), abs[z] = reg[z])
             /\ Settles(bus', AllReports, AllReports, Adopted)
  BY <1>0, <1>1, <1>2, <1>5, OneMore
<1> QED BY <1>3, <1>4, <1>5

(* A report of a zone is adopted.                                          *)
LEMMA MirrorHears ==
  ASSUME TypeInv, MirrorInv, ForGradient, OnPidStatus, unseen' = unseen PROVE MirrorInv'
<1> SUFFICES ASSUME ~unseen
             PROVE  /\ \A z \in Zones : Settles(bus', Reports(z), RightOne(z), abs'[z] = reg[z])
                    /\ Settles(bus', AllReports, AllReports, Adopted')
  <2>1. reg' = reg BY DEF OnPidStatus, plc
  <2> QED BY <2>1 DEF MirrorInv, RightOne, Adopted
<1>1. /\ \A z \in Zones : Settles(bus, Reports(z), RightOne(z), abs[z] = reg[z])
      /\ Settles(bus, AllReports, AllReports, Adopted)
  BY DEF MirrorInv
<1>2. Arrives("pid/status") BY DEF OnPidStatus
<1>3. /\ bus # <<>> /\ Msg = Head(bus) /\ bus' = Tail(bus) /\ bus \in Seq(Messages)
      /\ Msg.topic = "pid/status" /\ Msg.zone \in Zones /\ abs \in [Zones -> Int]
  BY <1>2, Arrived, MessageKinds DEF OnPidStatus, Reply, TypeInv, GradientTypes
<1>4. abs' = [abs EXCEPT ![Msg.zone] = Msg.value] /\ Adopt(abs') BY DEF OnPidStatus
<1>5. ASSUME NEW z \in Zones PROVE Settles(Tail(bus), Reports(z), RightOne(z), abs'[z] = reg[z])
  <2>1. CASE z = Msg.zone
    <3>1. Head(bus) \in Reports(z)
      <4>1. Head(bus) \in [topic : {"pid/status"}, zone : Zones, value : Int]
        BY <1>2, <1>3, Arrived DEF Messages, Command
      <4> QED BY <1>3, <2>1, <4>1 DEF Reports
    <3>2. Head(bus) \in RightOne(z) => abs'[z] = reg[z]
      <4>1. abs'[z] = Head(bus).value BY <1>3, <1>4, <2>1
      <4> QED BY <4>1 DEF RightOne
    <3> QED BY <1>1, <1>3, <3>1, <3>2, SettlesLater
  <2>2. CASE z # Msg.zone
    <3>1. Head(bus) \notin RightOne(z) BY <1>3, <2>2 DEF RightOne
    <3>2. abs'[z] = abs[z] BY <1>3, <1>4, <2>2
    <3> QED BY <1>1, <1>3, <3>1, <3>2, SettlesLater
  <2> QED BY <2>1, <2>2
<1>6. Settles(Tail(bus), AllReports, AllReports, Adopted')
  <2>1. Adopted' BY <1>4 DEF Adopted, Adopt
  <2> QED BY <1>1, <1>3, <2>1, SettlesLater
<1> QED BY <1>3, <1>5, <1>6

(* A poll reports every zone as its register is, and then leaves the       *)
(* registers as they are, or else they have not been reported.             *)
LEMMA MirrorReports ==
  ASSUME TypeInv, PollStep PROVE MirrorInv'
<1> DEFINE s == Status(reg)
<1>0. SUFFICES ASSUME ~unseen' PROVE MirrorInv' BY DEF MirrorInv
<1>1. bus' = bus \o s /\ UNCHANGED <<base, delta, abs, reg>>
  BY <1>0 DEF PollStep, Report, Publish, gradient
<1>2. bus \in Seq(Messages) /\ reg \in [Zones -> Int] BY DEF TypeInv, GradientTypes
<1>3. /\ s \in Seq(Messages) /\ Len(s) = Cardinality(Zones)
      /\ \A n \in 1 .. Cardinality(Zones) :
           s[n] = [topic |-> "pid/status", zone |-> ZoneSeq[n], value |-> reg[ZoneSeq[n]]]
  BY <1>2, StatusIs
<1> HIDE DEF s
<1>4. \A n \in 1 .. Len(s) : ZoneSeq[n] \in Zones BY <1>3, ZonesListed
<1>5. ASSUME NEW z \in Zones PROVE Settles(bus \o s, Reports(z), RightOne(z), abs[z] = reg[z])
  <2>1. PICK k \in 1 .. Len(s) : ZoneSeq[k] = z BY <1>3, ZonesListed
  <2>2. s[k] \in Reports(z)
    <3>1. reg[z] \in Int BY <1>2
    <3> QED BY <1>3, <2>1, <3>1 DEF Reports
  <2>3. \A n \in 1 .. Len(s) : s[n] \in Reports(z) => s[n] \in RightOne(z)
    BY <1>3 DEF Reports, RightOne
  <2> QED BY <1>2, <1>3, <2>2, <2>3, SettlesNew
<1>6. Settles(bus \o s, AllReports, AllReports, Adopted)
  <2>1. PICK k \in 1 .. Len(s) : ZoneSeq[k] = Top BY <1>3, ZonesListed, ZonesAssumption
  <2>2. s[k] \in AllReports
    <3>1. Top \in Zones /\ reg[Top] \in Int BY <1>2, ZonesAssumption
    <3> QED BY <1>3, <2>1, <3>1 DEF AllReports
  <2> QED BY <1>2, <1>3, <2>2, SettlesNew
<1> QED BY <1>1, <1>5, <1>6 DEF MirrorInv, RightOne, Adopted

LEMMA MirrorStays ==
  ASSUME TypeInv, TodoInv, MirrorInv, [Next]_vars PROVE MirrorInv'
<1>1. CASE unseen' = TRUE BY <1>1 DEF MirrorInv
<1>2. ASSUME NEW i \in Moving, NEW v \in Readings, Reads(i, v) PROVE MirrorInv'
  BY <1>2, MirrorKept DEF Reads, gradient, plc
<1>17. ASSUME NEW i \in Kept, ReadsAgain(i) PROVE MirrorInv'
  BY <1>17, MirrorKept DEF ReadsAgain, gradient, plc
<1>3. ASSUME NEW m \in Commands, Sends(m) PROVE MirrorInv'
  <2>1. m \in Messages /\ m.topic # "pid/status"
    <3>1. m \in Command BY InputsAssumption
    <3> QED BY <3>1 DEF Messages, Command
  <2> QED BY <1>3, <2>1, MirrorKept DEF Sends, Publish, gradient, plc
<1>4. CASE StoreStep
  <2>1. SnapshotMsg(Snapshot, 0) \in Messages BY SnapshotIs DEF TypeInv
  <2>2. SnapshotMsg(Snapshot, 0).topic # "pid/status" BY DEF SnapshotMsg
  <2> QED BY <1>4, <2>1, <2>2, MirrorKept DEF StoreStep, PublishSnapshot, Publish, gradient, plc
<1>5. CASE ForTrackers
  BY <1>5, ToTrackers, MirrorKept DEF ForTrackers, gradient, plc
<1>6. CASE ForSequencer
  <2>1. Msg.topic # "pid/status" BY <1>6, ToSequencer
  <2> QED BY <1>6, <2>1, ToSequencer, MirrorKept DEF ForSequencer, gradient, plc
<1>7. CASE ForGradient
  <2>1. CASE /\ OnSetpointExpr /\ unseen' = unseen
             /\ bus # <<>> /\ bus' = Tail(bus) /\ Head(bus).topic # "pid/status"
    BY <2>1, MirrorKept DEF OnSetpointExpr, gradient
  <2> QED BY <1>1, <1>7, <2>1, ToGradient, MirrorHears
<1>8. CASE TrackersStep BY <1>8, EvalSends, MirrorKept DEF TrackersStep, gradient, plc
<1>9. ASSUME NEW r \in Runners, RunnerStep(r) PROVE MirrorInv'
  BY <1>9, RunnerSends, MirrorKept DEF RunnerStep, Orders, gradient, plc
<1>10. CASE PollStep BY <1>10, MirrorReports
<1>11. CASE Tick BY <1>11, MirrorKept DEF Tick, PollTick, gradient
<1>12. CASE Restart BY <1>1, <1>12 DEF Restart
<1>13. CASE UNCHANGED vars BY <1>13, MirrorKept DEF vars, gradient, plc
<1> QED BY <1>2, <1>3, <1>4, <1>5, <1>6, <1>7, <1>8, <1>9, <1>10, <1>11, <1>12, <1>13,
           <1>17 DEF Next, Deliver

LEMMA TodoAlways == Spec => [](TypeInv /\ TodoInv)
<1>1. Init => TypeInv /\ TodoInv BY InitTypes, TodoStarts
<1>2. TypeInv /\ TodoInv /\ [Next]_vars => TypeInv' /\ TodoInv' BY StepTypes, TodoStays
<1> QED BY <1>1, <1>2, PTL DEF Spec

(* When nothing is under way and every zone has been reported since the    *)
(* last setpoint was commanded and since a poll, with an expression or the *)
(* interlock's surrogate, last gave a register another value, the gradient *)
(* controller holds what the PLC's registers hold, however commands, polls *)
(* and restarts came.                                                      *)
THEOREM GradientMirrors == Spec => []MirrorsPLC
<1>1. Init => MirrorInv BY DEF Init, MirrorInv
<1>2. TypeInv /\ TodoInv /\ MirrorInv /\ [Next]_vars => MirrorInv' BY MirrorStays
<1>3. TypeInv /\ MirrorInv => MirrorsPLC
  <2> SUFFICES ASSUME TypeInv, MirrorInv, bus = <<>>, ~unseen
               PROVE  /\ abs = reg /\ base = reg[Top]
                      /\ \A z \in Zones : delta[z] = reg[z] - reg[Top]
    BY DEF MirrorsPLC
  <2>1. \A z \in Zones : Settles(<<>>, Reports(z), RightOne(z), abs[z] = reg[z])
    BY DEF MirrorInv
  <2>2. Settles(<<>>, AllReports, AllReports, Adopted) BY DEF MirrorInv
  <2>3. \A z \in Zones : abs[z] = reg[z] BY <2>1, SettlesEmpty
  <2>4. Adopted BY <2>2, SettlesEmpty
  <2>5. abs \in [Zones -> Int] /\ reg \in [Zones -> Int] BY DEF TypeInv, GradientTypes
  <2>6. abs = reg BY <2>3, <2>5
  <2> QED BY <2>4, <2>6 DEF Adopted
<1> QED BY <1>1, <1>2, <1>3, TodoAlways, PTL DEF Spec

-----------------------------------------------------------------------------
(* The age of what the trackers are evaluated with.                        *)

(* A sequence of one message.                                             *)
LEMMA Alone ==
  ASSUME NEW S, NEW m \in S
  PROVE  <<m>> \in Seq(S) /\ Len(<<m>>) = 1 /\ \A n \in 1 .. 1 : <<m>>[n] = m
OBVIOUS

LEMMA StatusTopic ==
  ASSUME NEW F \in [Zones -> Int]
  PROVE  /\ Status(F) \in Seq(Messages)
         /\ \A n \in 1 .. Len(Status(F)) : Status(F)[n].topic = "pid/status"
<1>1. PICK c : c = Status(F) OBVIOUS
<1>2. /\ c \in Seq(Messages) /\ Len(c) = Cardinality(Zones)
      /\ \A n \in 1 .. Cardinality(Zones) :
           c[n] = [topic |-> "pid/status", zone |-> ZoneSeq[n], value |-> F[ZoneSeq[n]]]
  BY <1>1, StatusIs
<1>3. \A n \in 1 .. Len(c) : c[n].topic = "pid/status" BY <1>2
<1> QED BY <1>1, <1>2, <1>3

LEMMA AgeKept ==
  ASSUME TypeInv, AgeInv, UNCHANGED <<snap, snapAge, storeDue>>, NEW b,
         b = bus \/ (bus # <<>> /\ b = Tail(bus) /\ Head(bus).topic # "snapshot"),
         \/ bus' = b
         \/ \E c \in Seq(Messages) : /\ bus' = b \o c
                                     /\ \A n \in 1 .. Len(c) : c[n].topic # "snapshot"
  PROVE  AgeInv'
<1>1. bus \in Seq(Messages) /\ bus \in Seq(Fine) BY DEF TypeInv, AgeInv
<1>2. b \in Seq(Fine) /\ b \in Seq(Messages)
  BY <1>1, HeadTailProperties
<1>3. ~storeDue => Settles(b, SnapMsgs, ThisTick, snapAge = 0)
  <2> SUFFICES ASSUME ~storeDue, b # bus PROVE Settles(b, SnapMsgs, ThisTick, snapAge = 0)
    BY DEF AgeInv
  <2>1. Head(bus) \notin SnapMsgs /\ Head(bus) \notin ThisTick BY DEF SnapMsgs, ThisTick
  <2>2. Settles(bus, SnapMsgs, ThisTick, snapAge = 0) BY DEF AgeInv
  <2> QED BY <1>1, <2>1, <2>2, SettlesLater
<1>4. CASE bus' = b BY <1>2, <1>3, <1>4 DEF AgeInv, ThisTick
<1>5. ASSUME NEW c \in Seq(Messages), bus' = b \o c,
             \A n \in 1 .. Len(c) : c[n].topic # "snapshot"
      PROVE  AgeInv'
  <2>1. c \in Seq(Fine)
    <3>1. \A n \in 1 .. Len(c) : c[n] \in Fine BY <1>5, ElementOfSeq DEF Fine
    <3>2. Len(c) \in Nat /\ DOMAIN c = 1 .. Len(c) /\ c \in [1 .. Len(c) -> Messages]
      BY LenProperties
    <3>3. c \in [1 .. Len(c) -> Fine] BY <3>1, <3>2
    <3> QED BY <3>2, <3>3, Listing
  <2>2. bus' \in Seq(Fine) BY <1>2, <1>5, <2>1, ConcatProperties
  <2>3. \A n \in 1 .. Len(c) : c[n] \notin SnapMsgs BY <1>5 DEF SnapMsgs
  <2>4. ~storeDue => Settles(b \o c, SnapMsgs, ThisTick, snapAge = 0)
    BY <1>2, <1>3, <2>3, SettlesStays
  <2> QED BY <1>5, <2>2, <2>4 DEF AgeInv
<1> QED BY <1>4, <1>5

LEMMA AgeStays ==
  ASSUME TypeInv, TodoInv, AgeInv, [Next]_vars PROVE AgeInv'
<1> USE DEF TypeInv
<1>0. bus \in Seq(Messages) /\ bus \in Seq(Fine) BY DEF AgeInv
<1>1. ASSUME NEW m \in Messages, m.topic # "snapshot", bus' = bus \o <<m>>,
             UNCHANGED <<snap, snapAge, storeDue>>
      PROVE  AgeInv'
  <2>1. \E c \in Seq(Messages) : /\ bus' = bus \o c
                                 /\ \A n \in 1 .. Len(c) : c[n].topic # "snapshot"
    <3>1. PICK c : c = <<m>> OBVIOUS
    <3>2. c \in Seq(Messages) /\ \A n \in 1 .. Len(c) : c[n] = m BY <3>1, Alone
    <3>3. \A n \in 1 .. Len(c) : c[n].topic # "snapshot" BY <1>1, <3>2
    <3> QED BY <1>1, <3>1, <3>2, <3>3
  <2> QED BY <1>1, <2>1, AgeKept
<1>2. ASSUME NEW i \in Moving, NEW v \in Readings, Reads(i, v) PROVE AgeInv'
  BY <1>2, AgeKept DEF Reads, Ingest, tracking
<1>17. ASSUME NEW i \in Kept, ReadsAgain(i) PROVE AgeInv'
  BY <1>17, AgeKept DEF ReadsAgain, Redelivered, Ingest, tracking
<1>3. ASSUME NEW m \in Commands, Sends(m) PROVE AgeInv'
  <2>1. m \in Messages /\ m.topic # "snapshot"
    <3>1. m \in Command BY InputsAssumption
    <3> QED BY <3>1 DEF Messages, Command
  <2> QED BY <1>1, <1>3, <2>1 DEF Sends, Publish, store, tracking
<1>4. CASE StoreStep
  <2> DEFINE m == SnapshotMsg(Snapshot, 0)
  <2>1. /\ storeDue' = FALSE /\ UNCHANGED <<snap, snapAge>> /\ bus' = bus \o <<m>>
    BY <1>4 DEF StoreStep, PublishSnapshot, Publish, tracking
  <2>2. m \in Fine /\ m \in ThisTick /\ m \in SnapMsgs
    BY SnapshotIs DEF Fine, ThisTick, SnapMsgs, SnapshotMsg
  <2> HIDE DEF m
  <2>3. <<m>> \in Seq(Fine) /\ <<m>> \in Seq(Messages) /\ Len(<<m>>) = 1
        /\ \A n \in 1 .. 1 : <<m>>[n] = m
    BY <2>2, Alone DEF Fine
  <2>4. bus' \in Seq(Fine) BY <1>0, <2>1, <2>3, ConcatProperties
  <2>5. Settles(bus \o <<m>>, SnapMsgs, ThisTick, snapAge = 0)
    <3>1. PICK c : c = <<m>> OBVIOUS
    <3>2. /\ c \in Seq(Messages) /\ 1 \in 1 .. Len(c) /\ c[1] \in SnapMsgs
          /\ \A n \in 1 .. Len(c) : c[n] \in SnapMsgs => c[n] \in ThisTick
      BY <2>2, <2>3, <3>1
    <3>3. Settles(bus \o c, SnapMsgs, ThisTick, snapAge = 0) BY <1>0, <3>2, SettlesNew
    <3> QED BY <3>1, <3>3
  <2> QED BY <2>1, <2>4, <2>5 DEF AgeInv
<1>5. CASE ForTrackers
  <2>1. storeDue' = storeDue BY <1>5 DEF ForTrackers, store
  <2>2. CASE Msg.topic = "snapshot"
    <3>1. /\ bus # <<>> /\ Msg = Head(bus) /\ Msg \in Fine /\ bus' = Tail(bus)
          /\ snap' = Msg.states /\ snapAge' = Msg.lag
      BY <1>0, <1>5, <2>2, ToTrackers, HeadTailProperties DEF ForTrackers, OnSnapshot
    <3>2. bus' \in Seq(Fine) BY <1>0, <3>1, HeadTailProperties
    <3>3. Msg.states \in Snaps /\ Msg \in SnapMsgs
      BY <2>2, <3>1, MessageKinds DEF Fine, SnapMsgs, Messages, Command
    <3>4. ~storeDue => Settles(Tail(bus), SnapMsgs, ThisTick, snapAge' = 0)
      <4> SUFFICES ASSUME ~storeDue PROVE Settles(Tail(bus), SnapMsgs, ThisTick, snapAge' = 0)
        OBVIOUS
      <4>1. Settles(bus, SnapMsgs, ThisTick, snapAge = 0) BY DEF AgeInv
      <4>2. Head(bus) \in ThisTick => snapAge' = 0 BY <3>1 DEF ThisTick
      <4>3. Head(bus) \in SnapMsgs BY <3>1, <3>3
      <4> QED BY <1>0, <3>1, <4>1, <4>2, <4>3, SettlesLater
    <3>5. snapAge' <= 1 /\ Honest(snap') BY <2>2, <3>1 DEF Fine
    <3> QED BY <2>1, <3>1, <3>2, <3>4, <3>5 DEF AgeInv, Honest
  <2>3. CASE Msg.topic # "snapshot"
    <3>1. UNCHANGED <<snap, snapAge>>
      BY <1>5, <2>3, ToTrackers DEF ForTrackers, OnSet, OnRemove, OnEnable
    <3> QED BY <1>5, <2>1, <2>3, <3>1, ToTrackers, AgeKept
  <2> QED BY <2>2, <2>3
<1>6. CASE ForSequencer
  <2>1. Msg.topic # "snapshot" BY <1>6, ToSequencer
  <2> QED BY <1>6, <2>1, ToSequencer, AgeKept DEF ForSequencer, store, tracking
<1>7. CASE ForGradient
  <2>1. Msg.topic # "snapshot" /\ Msg = Head(bus) /\ bus # <<>>
        /\ \/ bus' = Tail(bus)
           \/ \E c \in Seq(Messages) : /\ bus' = Tail(bus) \o c
                                       /\ \A n \in 1 .. Len(c) : c[n].topic # "snapshot"
    <3>1. \A c \in Seq(Messages) : (\A n \in 1 .. Len(c) : c[n].topic = "pid/setpoint")
            => \A n \in 1 .. Len(c) : c[n].topic # "snapshot"
      OBVIOUS
    <3> QED BY <1>7, <3>1, ToGradient
  <2> QED BY <1>7, <2>1, AgeKept DEF ForGradient, store, tracking
<1>8. CASE TrackersStep
  <2>1. UNCHANGED <<snap, snapAge, storeDue>>
    BY <1>8 DEF TrackersStep, StartRound, EvalOne, Note, store
  <2> QED BY <1>1, <1>8, <2>1, EvalSends, AgeKept
<1>9. ASSUME NEW r \in Runners, RunnerStep(r) PROVE AgeInv'
  <2>1. UNCHANGED <<snap, snapAge, storeDue>> BY <1>9 DEF RunnerStep, store, tracking
  <2>2. "snapshot" \notin Orders BY DEF Orders
  <2> QED BY <1>1, <1>9, <2>1, <2>2, RunnerSends, AgeKept
<1>10. CASE PollStep
  <2>1. bus' = bus \o Status(reg) /\ UNCHANGED <<snap, snapAge, storeDue>>
    BY <1>10 DEF PollStep, Report, Publish, store, tracking
  <2>2. Status(reg) \in Seq(Messages)
        /\ \A n \in 1 .. Len(Status(reg)) : Status(reg)[n].topic # "snapshot"
    BY StatusTopic DEF GradientTypes
  <2> QED BY <2>1, <2>2, AgeKept
<1>11. CASE Tick
  <2>1. /\ bus = <<>> /\ bus' = <<>> /\ ~storeDue /\ storeDue' = TRUE /\ snap' = snap
        /\ snapAge' = IF snapAge < Old THEN snapAge + 1 ELSE snapAge
    BY <1>11 DEF Tick, StoreTick, TrackersTick
  <2>2. snapAge = 0 BY <2>1, SettlesEmpty DEF AgeInv
  <2>3. snapAge' = 1 BY <2>1, <2>2, OldIs
  <2> QED BY <1>0, <2>1, <2>3 DEF AgeInv, Honest
<1>12. CASE Restart
  <2>1. /\ snap' = <<>> /\ storeDue' = TRUE /\ bus' = LastSnapshot \o Status(retained)
    BY <1>12 DEF Restart, StoreStart, TrackersStart
  <2>2. LastSnapshot \in Seq(Fine)
    <3>1. ASSUME NEW n \in 1 .. Len(bus) PROVE bus[n] \in Fine BY <1>0, ElementOfSeq
    <3>2. snap # <<>> => /\ SnapshotMsg(snap, snapAge).lag <= 1
                         /\ Honest(SnapshotMsg(snap, snapAge).states)
      BY DEF AgeInv, SnapshotMsg
    <3>3. CASE LastSnapshot = <<>> BY <3>3, EmptySeq
    <3>4. ASSUME NEW m \in Messages, LastSnapshot = <<m>>,
                 \/ m.topic = "snapshot" /\ \E n \in 1 .. Len(bus) : m = bus[n]
                 \/ snap # <<>> /\ m = SnapshotMsg(snap, snapAge)
          PROVE  LastSnapshot \in Seq(Fine)
      <4>1. m \in Fine BY <3>1, <3>2, <3>4 DEF Fine
      <4> QED BY <3>4, <4>1, Alone
    <3> QED BY <3>3, <3>4, LastSnapshotIs
  <2>3. Status(retained) \in Seq(Fine)
    <3>1. /\ Status(retained) \in Seq(Messages)
          /\ \A n \in 1 .. Len(Status(retained)) : Status(retained)[n].topic # "snapshot"
      BY StatusTopic DEF GradientTypes
    <3>2. PICK c : c = Status(retained) OBVIOUS
    <3>3. /\ Len(c) \in Nat /\ DOMAIN c = 1 .. Len(c) /\ c \in [1 .. Len(c) -> Messages]
          /\ \A n \in 1 .. Len(c) : c[n] \in Messages /\ c[n].topic # "snapshot"
      BY <3>1, <3>2, LenProperties, ElementOfSeq
    <3>4. c \in [1 .. Len(c) -> Fine] BY <3>3 DEF Fine
    <3> QED BY <3>2, <3>3, <3>4, Listing
  <2>4. bus' \in Seq(Fine) BY <2>1, <2>2, <2>3, ConcatProperties
  <2> QED BY <2>1, <2>4 DEF AgeInv
<1>13. CASE UNCHANGED vars BY <1>13, AgeKept DEF vars, store, tracking
<1> QED BY <1>2, <1>3, <1>4, <1>5, <1>6, <1>7, <1>8, <1>9, <1>10, <1>11, <1>12, <1>13,
           <1>17 DEF Next, Deliver

LEMMA AgeAlways == Spec => [](TypeInv /\ TodoInv /\ AgeInv)
<1>1. Init => AgeInv
  <2>1. Init => bus = <<>> /\ snap = <<>> /\ storeDue = TRUE
    BY DEF Init, StoreInit, TrackersInit
  <2>2. <<>> \in Seq(Fine) BY EmptySeq
  <2> QED BY <2>1, <2>2 DEF AgeInv
<1>2. TypeInv /\ TodoInv /\ AgeInv /\ [Next]_vars => AgeInv' BY AgeStays
<1> QED BY <1>1, <1>2, TodoAlways, PTL DEF Spec

(* No tracker is evaluated with a reading of an input with a period that   *)
(* the store received so long ago that it had been invalid for more than a *)
(* tick, behind a derived state or in the snapshot that the broker hands   *)
(* to the started service.  A status the broker retained counts from when  *)
(* the started store received it, whenever it was read.                    *)
THEOREM ReadingsAreRecent == Spec => NoOldReadings
<1> DEFINE Recent ==
      (round = <<>> /\ round' # <<>>) =>
         \A id \in Ids : trackers[id].on /\ Usable(trackers[id], snap) =>
           \A a \in AgeOf(trackers[id].source) : a + snapAge <= InvalidAfter + 1
<1>1. TypeInv /\ TodoInv /\ AgeInv /\ [Next]_vars => [Recent]_vars
  <2> SUFFICES ASSUME TypeInv, AgeInv, [Next]_vars, round = <<>>, round' # <<>>,
                      NEW id \in Ids, Usable(trackers[id], snap),
                      NEW a \in AgeOf(trackers[id].source)
               PROVE  a + snapAge <= InvalidAfter + 1
    OBVIOUS
  <2>1. trackers[id].source \in DOMAIN snap /\ snap[trackers[id].source].fresh # "invalid"
    BY DEF Usable
  <2>2. snap # <<>>
    <3>1. DOMAIN <<>> = {} OBVIOUS
    <3> QED BY <2>1, <3>1
  <2>3. snap \in Snaps /\ snapAge <= 1 /\ Honest(snap) /\ snapAge \in Nat
    BY <2>2 DEF TypeInv, TrackersTypes, AgeInv
  <2> DEFINE s == trackers[id].source
  <2>4. s \in States BY <2>1, <2>3 DEF Snaps
  <2> HIDE DEF s
  <2>5. PICK i \in Timed \cap (IF s \in Inputs THEN {s} ELSE Derived[s]) : a = snap[i].age
    BY DEF AgeOf, s
  <2>6. snap[i].age <= InvalidAfter BY <2>1, <2>2, <2>3, <2>4, <2>5 DEF Honest, s
  <2>7. i \in States /\ snap[i].age \in Nat
    <3>1. i \in States BY <2>4, <2>5, StoreAssumption DEF States
    <3> QED BY <2>3, <3>1 DEF Snaps
  <2> QED BY <2>3, <2>5, <2>6, <2>7, OldIs
<1> QED BY <1>1, AgeAlways, PTL DEF Spec, NoOldReadings

-----------------------------------------------------------------------------
(* The trackers follow.                                                    *)

(* What none of the new messages is stays as scarce as it was.             *)
LEMMA Scarce ==
  ASSUME bus \in Seq(Messages), NEW topic, NEW b,
         b = bus \/ (bus # <<>> /\ b = Tail(bus)),
         \/ bus' = b
         \/ \E c \in Seq(Messages) : /\ bus' = b \o c
                                     /\ \A n \in 1 .. Len(c) : c[n].topic # topic
  PROVE  /\ None(topic) => None(topic)'
         /\ Single(topic) => Single(topic)'
         /\ bus # <<>> /\ b = Tail(bus) /\ Head(bus).topic = topic /\ Single(topic) => None(topic)'
<1>1. PICK k \in {0, 1} :
        /\ b \in Seq(Messages) /\ Len(b) = Len(bus) - k /\ Len(bus) \in Nat
        /\ \A n \in 1 .. Len(b) : b[n] = bus[n + k]
        /\ bus # <<>> /\ b = Tail(bus) => k = 1 /\ Head(bus) = bus[1]
  <2>1. CASE bus # <<>> /\ b = Tail(bus)
    <3>1. /\ b \in Seq(Messages) /\ Len(b) = Len(bus) - 1 /\ Len(bus) \in Nat
          /\ \A n \in 1 .. Len(b) : b[n] = bus[n + 1]
          /\ Head(bus) = bus[1]
      BY <2>1, HeadTailProperties, LenProperties
    <3> QED BY <2>1, <3>1
  <2>2. CASE b = bus /\ ~(bus # <<>> /\ b = Tail(bus))
    <3>1. Len(bus) \in Nat BY LenProperties
    <3>2. \A n \in 1 .. Len(b) : n + 0 = n BY <2>2, <3>1
    <3> QED BY <2>2, <3>1, <3>2
  <2> QED BY <2>1, <2>2
<1>2. \A n \in 1 .. Len(bus') : bus'[n].topic = topic => n \in 1 .. Len(b) /\ bus'[n] = b[n]
  <2>1. CASE bus' = b BY <2>1
  <2>2. ASSUME NEW c \in Seq(Messages), bus' = b \o c, \A n \in 1 .. Len(c) : c[n].topic # topic
        PROVE  \A n \in 1 .. Len(bus') : bus'[n].topic = topic => n \in 1 .. Len(b) /\ bus'[n] = b[n]
    <3>1. /\ Len(bus') = Len(b) + Len(c) /\ Len(b) \in Nat /\ Len(c) \in Nat
          /\ \A n \in 1 .. Len(b) + Len(c) : bus'[n] = IF n <= Len(b) THEN b[n] ELSE c[n - Len(b)]
      BY <1>1, <2>2, ConcatProperties, LenProperties
    <3>2. \A n \in 1 .. Len(bus') : n > Len(b) => n - Len(b) \in 1 .. Len(c) BY <3>1
    <3> QED BY <2>2, <3>1, <3>2
  <2> QED BY <2>1, <2>2
<1>3. \A n \in 1 .. Len(bus') : bus'[n].topic = topic =>
        n + k \in 1 .. Len(bus) /\ bus[n + k].topic = topic /\ n \in Nat
  BY <1>1, <1>2
<1>4. None(topic) => None(topic)' BY <1>3 DEF None
<1>5. Single(topic) => Single(topic)'
  <2> SUFFICES ASSUME Single(topic), NEW n \in 1 .. Len(bus'), NEW m \in 1 .. Len(bus'),
                      bus'[n].topic = topic, bus'[m].topic = topic
               PROVE  n = m
    BY DEF Single
  <2>1. n + k = m + k BY <1>3 DEF Single
  <2> QED BY <2>1
<1>6. bus # <<>> /\ b = Tail(bus) /\ Head(bus).topic = topic /\ Single(topic) => None(topic)'
  <2> SUFFICES ASSUME bus # <<>>, b = Tail(bus), Head(bus).topic = topic, Single(topic),
                      NEW n \in 1 .. Len(bus'), bus'[n].topic = topic
               PROVE  FALSE
    BY DEF None
  <2>1. 1 \in 1 .. Len(bus) /\ bus[1].topic = topic
    <3>1. Len(b) \in Nat /\ Len(b) = Len(bus) - 1 /\ Head(bus) = bus[1] BY <1>1, LenProperties
    <3>2. Len(bus) \in Nat BY <1>1
    <3>3. Len(bus) - 1 \in Nat BY <3>1
    <3>4. 1 \in 1 .. Len(bus) BY <3>2, <3>3
    <3> QED BY <3>1, <3>4
  <2>2. n + 1 \in 1 .. Len(bus) /\ bus[n + 1].topic = topic BY <1>1, <1>3
  <2>3. n + 1 = 1 BY <2>1, <2>2 DEF Single
  <2> QED BY <2>3
<1> QED BY <1>4, <1>5, <1>6

LEMMA ScarceOne ==
  ASSUME bus \in Seq(Messages), NEW topic, NEW m \in Messages, bus' = bus \o <<m>>
  PROVE  /\ m.topic # topic => (None(topic) => None(topic)') /\ (Single(topic) => Single(topic)')
         /\ None(topic) => Single(topic)'
<1>1. PICK c : c = <<m>> OBVIOUS
<1>2. c \in Seq(Messages) /\ Len(c) = 1 /\ c[1] = m BY <1>1, Alone
<1>3. ASSUME m.topic # topic
      PROVE  (None(topic) => None(topic)') /\ (Single(topic) => Single(topic)')
  <2>1. \A n \in 1 .. Len(c) : c[n].topic # topic BY <1>2, <1>3
  <2> QED BY <1>1, <1>2, <2>1, Scarce
<1>4. ASSUME None(topic) PROVE Single(topic)'
  <2>1. /\ Len(bus') = Len(bus) + 1 /\ Len(bus) \in Nat
        /\ \A n \in 1 .. Len(bus) : bus'[n] = bus[n]
    BY <1>1, <1>2, ConcatProperties, LenProperties
  <2>2. \A n \in 1 .. Len(bus') : bus'[n].topic = topic => n = Len(bus) + 1
    BY <1>4, <2>1 DEF None
  <2> QED BY <2>2 DEF Single
<1> QED BY <1>3, <1>4

(* All but a snapshot's arrival, a round, a second's end and a restart.    *)
LEMMA FollowKept ==
  ASSUME TypeInv, FollowInv, UNCHANGED <<snap, lastSnap, storeDue, evalDue, seen, writing>>,
         None("snapshot") => None("snapshot")', Single("snapshot") => Single("snapshot")',
         touched \subseteq touched', Ids' \ touched' \subseteq Ids \ touched,
         Ids \subseteq touched => Ids' \subseteq touched',
         DOMAIN round' = DOMAIN round,
         \A id \in Ids' \ touched' :
           trackers'[id] = trackers[id] /\ (id \in DOMAIN round => round'[id] = round[id])
  PROVE  FollowInv'
<1>1. SnapInv' BY DEF FollowInv, SnapInv
<1>2. DoneInv'
  <2> SUFFICES ASSUME ~evalDue, NEW id \in Ids' \ touched', trackers'[id].on,
                      ~Retargeted(trackers'[id])
               PROVE  Listed(id)' \/ \E S \in {lastSnap, snap} : Good(trackers'[id], S)
    BY DEF DoneInv, Good, Retargeted
  <2>1. trackers'[id] = trackers[id] /\ (id \in DOMAIN round => round'[id] = round[id]) OBVIOUS
  <2>2. Listed(id) \/ \E S \in {lastSnap, snap} : Good(trackers[id], S)
    BY <2>1 DEF FollowInv, DoneInv
  <2> QED BY <2>1, <2>2 DEF Listed
<1>3. WriteInv'
  <2> SUFFICES ASSUME writing # Nothing, writing.id \in Ids' \ touched',
                      round'[writing.id] = <<>>
               PROVE  /\ writing.to = trackers'[writing.id].target
                      /\ writing.value = Goal(trackers'[writing.id], seen)
    BY DEF WriteInv, Goal
  <2>1. writing.id \in DOMAIN round BY DEF TypeInv, TrackersTypes
  <2> QED BY <2>1 DEF FollowInv, WriteInv
<1> QED BY <1>1, <1>2, <1>3 DEF FollowInv

LEMMA FollowHears ==
  ASSUME TypeInv, FollowInv, ForTrackers PROVE FollowInv'
<1> USE DEF TypeInv
<1>0. /\ bus \in Seq(Messages) /\ bus # <<>> /\ bus' = Tail(bus) /\ Msg = Head(bus)
      /\ UNCHANGED <<storeDue, lastSnap>>
  BY ToTrackers DEF ForTrackers, store
<1>1. /\ None("snapshot") => None("snapshot")'
      /\ Single("snapshot") => Single("snapshot")'
      /\ Msg.topic = "snapshot" /\ Single("snapshot") => None("snapshot")'
  BY <1>0, Scarce
<1>2. CASE OnSnapshot /\ Msg.topic = "snapshot"
  <2>1. UNCHANGED <<trackers, evalDue, round, seen, writing, touched>> /\ Ids' = Ids
    BY <1>2 DEF ForTrackers, OnSnapshot, Ids
  <2>5. WriteInv' BY <2>1 DEF FollowInv, WriteInv
  <2>2. ~None("snapshot")
    <3>1. 1 \in 1 .. Len(bus) /\ bus[1] = Head(bus) BY <1>0, HeadTailProperties, EmptySeq
    <3> QED BY <1>0, <1>2, <3>1 DEF None
  <2>3. CASE Ids \subseteq touched
    <3>1. SnapInv' BY <2>1, <2>3 DEF FollowInv, SnapInv
    <3>2. DoneInv' BY <2>1, <2>3 DEF DoneInv
    <3> QED BY <2>5, <3>1, <3>2 DEF FollowInv
  <2>4. CASE ~(Ids \subseteq touched)
    <3>1. ~storeDue /\ snap = lastSnap /\ Single("snapshot")
      BY <2>2, <2>4 DEF FollowInv, SnapInv
    <3>2. SnapInv' BY <1>0, <1>1, <1>2, <2>1, <2>4, <3>1 DEF FollowInv, SnapInv
    <3>3. DoneInv'
      <4> SUFFICES ASSUME ~evalDue, NEW id \in Ids \ touched, trackers[id].on,
                          ~Retargeted(trackers[id])
                   PROVE  Listed(id)' \/ Good(trackers[id], lastSnap)
        BY <1>0, <2>1 DEF DoneInv, Good, Retargeted
      <4>1. Listed(id) \/ Good(trackers[id], lastSnap) BY <3>1 DEF FollowInv, DoneInv
      <4> QED BY <1>0, <2>1, <3>1, <4>1 DEF Listed
    <3> QED BY <2>5, <3>2, <3>3 DEF FollowInv
  <2> QED BY <2>3, <2>4
<1>3. CASE Msg.topic # "snapshot"
  <2> DEFINE i == Msg.id
  <2>1. touched' = touched \cup {i} BY <1>3 DEF ForTrackers
  <2>2. CASE OnSet
    <3>1. /\ UNCHANGED <<snap, evalDue, seen, writing>> /\ Replaces(i)
          /\ trackers' = [x \in Ids \cup {i} |->
                            IF x = i THEN [Msg.spec EXCEPT !.sent = Sent(i), !.to = SentTo(i)]
                            ELSE trackers[x]]
      BY <2>2 DEF OnSet
    <3> HIDE DEF i
    <3>2. Ids' = Ids \cup {i} /\ \A x \in Ids' \ {i} : trackers'[x] = trackers[x]
      BY <3>1 DEF Ids
    <3>3. /\ DOMAIN round' = DOMAIN round
          /\ \A x \in DOMAIN round : x # i => round'[x] = round[x]
      BY <3>1, ReplacesIs
    <3> QED BY <1>0, <1>1, <2>1, <3>1, <3>2, <3>3, FollowKept
  <2>3. CASE OnRemove
    <3>1. /\ UNCHANGED <<snap, evalDue, seen, writing>> /\ Replaces(i)
          /\ trackers' = [x \in Ids \ {i} |-> trackers[x]]
      BY <2>3 DEF OnRemove
    <3> HIDE DEF i
    <3>2. Ids' = Ids \ {i} /\ \A x \in Ids' \ {i} : trackers'[x] = trackers[x]
      BY <3>1 DEF Ids
    <3>3. /\ DOMAIN round' = DOMAIN round
          /\ \A x \in DOMAIN round : x # i => round'[x] = round[x]
      BY <3>1, ReplacesIs
    <3> QED BY <1>0, <1>1, <2>1, <3>1, <3>2, <3>3, FollowKept
  <2>4. CASE OnEnable
    <3>1. /\ UNCHANGED <<snap, evalDue, seen, round, writing>>
          /\ trackers' = IF i \in Ids THEN [trackers EXCEPT ![i].on = Msg.on] ELSE trackers
      BY <2>4 DEF OnEnable
    <3> HIDE DEF i
    <3>2. Ids' = Ids /\ \A x \in Ids' \ {i} : trackers'[x] = trackers[x]
      BY <3>1 DEF Ids, TrackersTypes
    <3> QED BY <1>0, <1>1, <2>1, <3>1, <3>2, FollowKept
  <2> QED BY <1>3, <2>2, <2>3, <2>4, ToTrackers
<1> QED BY <1>2, <1>3, ToTrackers

(* A tracker that need not write has sent to its target, and so has one    *)
(* that wrote and noted it.                                                *)
LEMMA Evaluated ==
  ASSUME NEW t \in Tracker, Paired(t), NEW S \in Snaps \cup {<<>>}, t.on, ~Retargeted(t),
         ~Moves(t, S)
  PROVE  Good(t, S)
<1>1. Usable(t, S) => t.sent # Never /\ Within(Goal(t, S), t.sent) BY DEF Moves
<1>2. t.sent # Never => t.to = t.target BY DEF Paired, Retargeted
<1> QED BY <1>1, <1>2 DEF Good

LEMMA Noted ==
  ASSUME NEW q \in Tracker, NEW S \in Snaps \cup {<<>>}, q.sent \in Int, q.sent = Goal(q, S),
         q.to = q.target
  PROVE  Good(q, S)
<1>1. q.sent # Never /\ Within(Goal(q, S), q.sent) BY SentAssumption DEF Within
<1> QED BY <1>1 DEF Good

(* What the evaluation leaves when a tracker of the round is done with.    *)
LEMMA FollowLeaves ==
  ASSUME TypeInv, FollowInv, NEW id \in DOMAIN round, Leave(id), writing' = Nothing,
         UNCHANGED <<snap, lastSnap, touched, storeDue, evalDue>>, Ids' = Ids,
         None("snapshot") => None("snapshot")', Single("snapshot") => Single("snapshot")',
         \A x \in Ids : x # id \/ round[id] # <<>> => trackers'[x] = trackers[x],
         round[id] = <<>> /\ id \notin touched /\ seen \in {lastSnap, snap}
           /\ trackers'[id].on /\ ~Retargeted(trackers'[id])
           => Good(trackers'[id], seen)
  PROVE  FollowInv'
<1> USE DEF TypeInv
<1>1. /\ DOMAIN round' = DOMAIN round \ {id} /\ \A x \in DOMAIN round' : round'[x] = round[x]
      /\ seen' = IF DOMAIN round = {id} THEN <<>> ELSE seen
  BY DEF Leave
<1>2. SnapInv' BY <1>1 DEF FollowInv, SnapInv
<1>3. DoneInv'
  <2> SUFFICES ASSUME ~evalDue, NEW x \in Ids \ touched, trackers'[x].on,
                      ~Retargeted(trackers'[x])
               PROVE  Listed(x)' \/ \E S \in {lastSnap, snap} : Good(trackers'[x], S)
    BY DEF DoneInv, Retargeted
  <2>1. CASE x # id
    <3>1. trackers'[x] = trackers[x] BY <2>1
    <3>2. Listed(x) => Listed(x)' BY <1>1, <2>1 DEF Listed
    <3> QED BY <3>1, <3>2 DEF FollowInv, DoneInv
  <2>2. CASE x = id /\ round[id] # <<>>
    <3>1. trackers'[x] = trackers[x] /\ ~Listed(x) BY <2>2 DEF Listed
    <3> QED BY <3>1 DEF FollowInv, DoneInv
  <2>3. CASE x = id /\ round[id] = <<>>
    <3>1. seen \in {lastSnap, snap} BY <2>3 DEF FollowInv, SnapInv
    <3> QED BY <2>3, <3>1
  <2> QED BY <2>1, <2>2, <2>3
<1>4. WriteInv' BY DEF WriteInv
<1> QED BY <1>2, <1>3, <1>4 DEF FollowInv

LEMMA FollowGoes ==
  ASSUME TypeInv, FollowInv, TrackersStep PROVE FollowInv'
<1> USE DEF TypeInv
<1>0. UNCHANGED <<snap, lastSnap, touched, storeDue>>
  BY DEF TrackersStep, StartRound, EvalOne, Note, store, second
<1>1. (None("snapshot") => None("snapshot")') /\ (Single("snapshot") => Single("snapshot")')
  <2>1. CASE bus' = bus BY <2>1 DEF None, Single
  <2>2. ASSUME NEW m \in Messages, m.topic = "pid/setpoint", bus' = bus \o <<m>>
        PROVE  (None("snapshot") => None("snapshot")') /\ (Single("snapshot") => Single("snapshot")')
    <3>1. m.topic # "snapshot" BY <2>2
    <3> QED BY <2>2, <3>1, ScarceOne
  <2> QED BY <2>1, <2>2, EvalSends
<1>2. CASE StartRound
  <2>1. /\ evalDue' = FALSE /\ trackers' = trackers /\ Ids' = Ids
        /\ round' = IF snap = <<>> THEN <<>> ELSE [id \in Ids |-> <<>>]
        /\ seen' = IF Ids = {} THEN <<>> ELSE snap
        /\ writing' = writing /\ round = <<>>
    BY <1>2 DEF StartRound, Ids
  <2>2. SnapInv'
    <3>1. DOMAIN round' # {} => seen' = snap
      <4>1. DOMAIN <<>> = {} OBVIOUS
      <4> QED BY <2>1, <4>1
    <3> QED BY <1>0, <1>1, <2>1, <3>1 DEF FollowInv, SnapInv
  <2>3. DoneInv'
    <3> SUFFICES ASSUME NEW id \in Ids PROVE Listed(id)' \/ Good(trackers[id], snap)
      BY <1>0, <2>1 DEF DoneInv
    <3>1. snap = <<>> => Good(trackers[id], snap) BY DEF Good
    <3> QED BY <1>0, <2>1, <3>1 DEF Listed
  <2>4. WriteInv'
    <3>1. DOMAIN <<>> = {} OBVIOUS
    <3>2. writing = Nothing BY <2>1, <3>1 DEF TrackersTypes
    <3> QED BY <2>1, <3>2 DEF WriteInv
  <2> QED BY <2>2, <2>3, <2>4 DEF FollowInv
<1>3. ASSUME NEW id \in DOMAIN round, EvalOne(id) PROVE FollowInv'
  <2> DEFINE t == Object(id)
  <2>1. /\ writing = Nothing /\ UNCHANGED <<trackers, snap, evalDue>> /\ Ids' = Ids
        /\ (round[id] = <<>> => id \in Ids /\ t = trackers[id])
    BY <1>3, NoTracker DEF EvalOne, Object, TrackersTypes, Ids
  <2>2. CASE Moves(t, seen)
    <3>1. /\ UNCHANGED <<round, seen>>
          /\ writing' = [id |-> id, to |-> t.target, value |-> Goal(t, seen)]
      BY <1>3, <2>2 DEF EvalOne
    <3> HIDE DEF t
    <3>2. SnapInv' BY <1>0, <1>1, <2>1, <3>1 DEF FollowInv, SnapInv
    <3>3. DoneInv' BY <1>0, <2>1, <3>1 DEF FollowInv, DoneInv, Listed, Good, Retargeted
    <3>4. WriteInv' BY <1>0, <2>1, <3>1 DEF WriteInv
    <3> QED BY <3>2, <3>3, <3>4 DEF FollowInv
  <2>3. CASE ~Moves(t, seen)
    <3>1. Leave(id) /\ writing' = Nothing BY <1>3, <2>1, <2>3 DEF EvalOne
    <3>2. ASSUME round[id] = <<>>, trackers'[id].on, ~Retargeted(trackers'[id])
          PROVE  Good(trackers'[id], seen)
      <4>1. /\ trackers'[id] = t /\ t \in Tracker /\ Paired(t) /\ seen \in Snaps \cup {<<>>}
        BY <2>1, <3>2 DEF TrackersTypes
      <4> HIDE DEF t
      <4> QED BY <2>3, <3>2, <4>1, Evaluated
    <3> QED BY <1>0, <1>1, <2>1, <3>1, <3>2, FollowLeaves
  <2> QED BY <2>2, <2>3
<1>4. CASE Note
  <2> DEFINE id == writing.id
  <2>1. /\ id \in DOMAIN round /\ writing.to \in Zones /\ writing.value \in Int
        /\ writing # Nothing /\ writing' = Nothing /\ Leave(id) /\ UNCHANGED <<snap, evalDue>>
        /\ trackers' = IF round[id] = <<>>
                       THEN [trackers EXCEPT ![id].sent = writing.value, ![id].to = writing.to]
                       ELSE trackers
        /\ (round[id] = <<>> => id \in Ids)
    BY <1>4, NoTracker DEF Note, TrackersTypes
  <2>2. WriteInv BY DEF FollowInv
  <2> HIDE DEF id
  <2>3. Ids' = Ids /\ \A x \in Ids : x # id \/ round[id] # <<>> => trackers'[x] = trackers[x]
    BY <2>1 DEF Ids, TrackersTypes
  <2>4. ASSUME round[id] = <<>>, id \notin touched PROVE Good(trackers'[id], seen)
    <3>1. trackers[id] \in Tracker /\ seen \in Snaps \cup {<<>>}
      BY <2>1, <2>4 DEF TrackersTypes
    <3>2. PICK q : q = [trackers[id] EXCEPT !.sent = writing.value, !.to = writing.to] OBVIOUS
    <3>6. Resent(q, trackers[id], writing.value, writing.to) BY <2>1, <3>1, <3>2, TrackerSent
    <3>3. writing.to = trackers[id].target /\ writing.value = Goal(trackers[id], seen)
      BY <2>1, <2>2, <2>4 DEF WriteInv, id
    <3>4. Goal(q, seen) = Goal(trackers[id], seen) BY <3>6 DEF Goal, Resent
    <3>5. trackers'[id] = q BY <2>1, <2>4, <3>2 DEF Ids
    <3> QED BY <2>1, <3>1, <3>3, <3>4, <3>5, <3>6, Noted DEF Resent
  <2> QED BY <1>0, <1>1, <2>1, <2>3, <2>4, FollowLeaves
<1> QED BY <1>2, <1>3, <1>4 DEF TrackersStep

LEMMA FollowStays ==
  ASSUME TypeInv, TodoInv, FollowInv, [Next]_vars PROVE FollowInv'
<1> USE DEF TypeInv
<1>0. bus \in Seq(Messages) OBVIOUS
<1> DEFINE Apart == UNCHANGED <<tracking, touched, lastSnap, storeDue>>
           NoMore == /\ None("snapshot") => None("snapshot")'
                     /\ Single("snapshot") => Single("snapshot")'
<1>1. ASSUME Apart, NoMore PROVE FollowInv'
  <2>1. /\ UNCHANGED <<snap, lastSnap, storeDue, evalDue, seen, writing, trackers, round,
                       touched>>
        /\ Ids' = Ids
    BY <1>1 DEF tracking, Ids
  <2> QED BY <1>1, <2>1, FollowKept
<1>2. ASSUME bus' = bus PROVE NoMore BY <1>2 DEF None, Single
<1>3. ASSUME NEW m \in Messages, m.topic # "snapshot", bus' = bus \o <<m>> PROVE NoMore
  BY <1>3, ScarceOne
<1>4. ASSUME bus # <<>>,
             \/ bus' = Tail(bus)
             \/ \E c \in Seq(Messages) : /\ bus' = Tail(bus) \o c
                                         /\ \A n \in 1 .. Len(c) : c[n].topic # "snapshot"
      PROVE  NoMore
  BY <1>4, Scarce
<1> HIDE DEF NoMore
<1>5. ASSUME NEW i \in Moving, NEW v \in Readings, Reads(i, v) PROVE FollowInv'
  BY <1>1, <1>2, <1>5 DEF Reads, Ingest, second
<1>17. ASSUME NEW i \in Kept, ReadsAgain(i) PROVE FollowInv'
  BY <1>1, <1>2, <1>17 DEF ReadsAgain, Redelivered, Ingest, second
<1>6. ASSUME NEW m \in Commands, Sends(m) PROVE FollowInv'
  <2>1. m \in Messages /\ m.topic # "snapshot"
    <3>1. m \in Command BY InputsAssumption
    <3> QED BY <3>1 DEF Messages, Command
  <2> QED BY <1>1, <1>3, <1>6, <2>1 DEF Sends, Publish, second, store
<1>7. CASE StoreStep
  <2>1. /\ storeDue /\ storeDue' = FALSE /\ UNCHANGED <<tracking, touched, lastSnap>>
        /\ bus' = bus \o <<SnapshotMsg(Snapshot, 0)>>
    BY <1>7 DEF StoreStep, PublishSnapshot, Publish, second
  <2>2. UNCHANGED <<snap, evalDue, seen, writing, trackers, round>> /\ Ids' = Ids
    BY <2>1 DEF tracking, Ids
  <2>3. None("snapshot") => Single("snapshot")' BY <2>1, SnapshotIs, ScarceOne
  <2>4. SnapInv' BY <2>1, <2>2, <2>3 DEF FollowInv, SnapInv
  <2>5. DoneInv' BY <2>1, <2>2 DEF FollowInv, DoneInv, Listed, Good, Retargeted
  <2>6. WriteInv' BY <2>1, <2>2 DEF FollowInv, WriteInv
  <2> QED BY <2>4, <2>5, <2>6 DEF FollowInv
<1>8. CASE ForTrackers BY <1>8, FollowHears
<1>9. CASE ForSequencer BY <1>1, <1>4, <1>9, ToSequencer DEF ForSequencer, second, store
<1>10. CASE ForGradient
  <2>1. \A c \in Seq(Messages) : (\A n \in 1 .. Len(c) : c[n].topic = "pid/setpoint")
          => \A n \in 1 .. Len(c) : c[n].topic # "snapshot"
    OBVIOUS
  <2>2. NoMore BY <1>4, <1>10, <2>1, ToGradient
  <2> QED BY <1>1, <1>10, <2>2 DEF ForGradient, second, store
<1>11. CASE TrackersStep BY <1>11, FollowGoes
<1>12. ASSUME NEW r \in Runners, RunnerStep(r) PROVE FollowInv'
  <2>1. "snapshot" \notin Orders BY DEF Orders
  <2>2. NoMore BY <1>2, <1>3, <1>12, <2>1, RunnerSends
  <2> QED BY <1>1, <1>12, <2>2 DEF RunnerStep, store
<1>13. CASE PollStep
  <2>1. bus' = bus \o Status(reg) /\ Apart BY <1>13 DEF PollStep, Report, Publish, second, store
  <2>2. Status(reg) \in Seq(Messages)
        /\ \A n \in 1 .. Len(Status(reg)) : Status(reg)[n].topic # "snapshot"
    BY StatusTopic DEF GradientTypes
  <2>3. NoMore BY <1>0, <2>1, <2>2, Scarce DEF NoMore
  <2> QED BY <1>1, <2>1, <2>3
<1>14. CASE Tick
  <2>1. /\ bus' = <<>> /\ evalDue' = TRUE /\ snap' = snap /\ lastSnap' = snap
        /\ round = <<>> /\ round' = <<>> /\ writing' = writing
    BY <1>14 DEF Tick, TrackersTick
  <2>2. Len(<<>>) = 0 /\ 1 .. 0 = {} /\ DOMAIN <<>> = {} BY EmptySeq
  <2>3. None("snapshot")' BY <2>1, <2>2 DEF None
  <2>4. SnapInv' BY <2>1, <2>2, <2>3 DEF SnapInv
  <2>5. DoneInv' BY <2>1 DEF DoneInv
  <2>6. WriteInv'
    <3>1. writing = Nothing BY <2>1, <2>2 DEF TrackersTypes
    <3> QED BY <2>1, <3>1 DEF WriteInv
  <2> QED BY <2>4, <2>5, <2>6 DEF FollowInv
<1>15. CASE Restart
  <2>1. /\ trackers' = [id \in Ids |-> [trackers[id] EXCEPT !.sent = Never, !.to = Never]]
        /\ touched' = Ids /\ round' = <<>> /\ writing' = Nothing
    BY <1>15 DEF Restart, TrackersStart
  <2>2. Ids' = Ids /\ Ids' \subseteq touched' BY <2>1 DEF Ids
  <2>3. DOMAIN <<>> = {} OBVIOUS
  <2>4. SnapInv' BY <2>1, <2>2, <2>3 DEF SnapInv
  <2>5. DoneInv' BY <2>2 DEF DoneInv
  <2>6. WriteInv' BY <2>1 DEF WriteInv
  <2> QED BY <2>4, <2>5, <2>6 DEF FollowInv
<1>16. CASE UNCHANGED vars BY <1>1, <1>2, <1>16 DEF vars, second, store
<1> QED BY <1>5, <1>6, <1>7, <1>8, <1>9, <1>10, <1>11, <1>12, <1>13, <1>14, <1>15, <1>16,
           <1>17 DEF Next, Deliver

(* When a second's work is done, every enabled tracker that nobody touched *)
(* in it has last sent, to its target, what it wants, within the deadband, *)
(* by the snapshot of this second or by the one before - unless what it    *)
(* sent last went to another target, which it was given in place of.       *)
THEOREM TrackersFollow == Spec => []Follows
<1>1. Init => FollowInv
  <2> SUFFICES ASSUME Init PROVE FollowInv OBVIOUS
  <2>1. bus = <<>> /\ snap = <<>> /\ lastSnap = <<>> /\ round = <<>> /\ writing = Nothing
    BY DEF Init, TrackersInit
  <2>2. Len(<<>>) = 0 /\ 1 .. 0 = {} /\ DOMAIN <<>> = {} BY EmptySeq
  <2>3. SnapInv BY <2>1, <2>2 DEF SnapInv, None
  <2>4. DoneInv BY <2>1 DEF DoneInv, Good
  <2>5. WriteInv BY <2>1 DEF WriteInv
  <2> QED BY <2>3, <2>4, <2>5 DEF FollowInv
<1>2. TypeInv /\ TodoInv /\ FollowInv /\ [Next]_vars => FollowInv' BY FollowStays
<1>3. TypeInv /\ FollowInv => Follows
  <2>1. DOMAIN <<>> = {} OBVIOUS
  <2> QED BY <2>1 DEF FollowInv, DoneInv, Follows, Rested, Listed, Good
<1> QED BY <1>1, <1>2, <1>3, TodoAlways, PTL DEF Spec

-----------------------------------------------------------------------------
(* A step's trackers, when no run is sent before the last one has begun.   *)

LEMMA RunKept ==
  ASSUME TypeInv, RunInv, running' = running,
         \A r \in Runners : runner'[r].pc = runner[r].pc,
         None("sequencer/run") => None("sequencer/run")',
         Single("sequencer/run") => Single("sequencer/run")'
  PROVE  RunInv'
<1>1. \A pc : \A r \in Runners : At(r, pc)' <=> At(r, pc) BY DEF At
<1> QED BY <1>1 DEF RunInv

(* A runner's step takes it from a state to another.                       *)
LEMMA RunnerAt ==
  ASSUME TypeInv, NEW r \in Runners, RunnerStep(r)
  PROVE  /\ \A s \in Runners \ {r} : runner'[s] = runner[s]
         /\ \/ Begin(r) /\ runner[r].pc = "starting" /\ runner'[r].pc = "next" /\ running' = TRUE
            \/ End(r) /\ runner[r].pc = "next" /\ runner'[r].pc = "none" /\ running' = FALSE
            \/ /\ Enter(r) \/ Tracked(r) \/ Held(r)
               /\ runner[r].pc \in Begun /\ runner'[r].pc \in Begun /\ running' = running
            \/ Send(r) /\ runner'[r].pc = runner[r].pc /\ running' = running
<1> USE DEF TypeInv
<1>1. runner \in [Runners -> Runner] BY DEF SequencerTypes
<1>2. CASE Begin(r) BY <1>1, <1>2 DEF Begin, At, Runner
<1>3. CASE End(r) BY <1>1, <1>3 DEF End, At, Idle
<1>4. CASE Enter(r) BY <1>1, <1>4 DEF Enter, At, Runner, Begun
<1>5. CASE Send(r) BY <1>1, <1>5 DEF Send, Runner
<1>6. CASE Tracked(r) BY <1>1, <1>6 DEF Tracked, At, Runner, Begun
<1>7. CASE Held(r) BY <1>1, <1>7 DEF Held, At, Runner, Begun
<1> QED BY <1>2, <1>3, <1>4, <1>5, <1>6, <1>7 DEF RunnerStep, Runs

LEMMA RunGoes ==
  ASSUME TypeInv, TodoInv, RunInv, NEW r \in Runners, RunnerStep(r) PROVE RunInv'
<1> USE DEF TypeInv
<1>1. /\ None("sequencer/run") => None("sequencer/run")'
      /\ Single("sequencer/run") => Single("sequencer/run")'
  <2>1. "sequencer/run" \notin Orders BY DEF Orders
  <2>2. CASE bus' = bus BY <2>2 DEF None, Single
  <2>3. ASSUME NEW m \in Messages, m.topic \in Orders, bus' = bus \o <<m>>
        PROVE  /\ None("sequencer/run") => None("sequencer/run")'
               /\ Single("sequencer/run") => Single("sequencer/run")'
    <3>1. m.topic # "sequencer/run" BY <2>1, <2>3
    <3> QED BY <2>3, <3>1, ScarceOne
  <2> QED BY <2>2, <2>3, RunnerSends
<1>2. \A s \in Runners \ {r} : runner'[s] = runner[s] BY RunnerAt
<1>3. CASE runner'[r].pc = runner[r].pc /\ running' = running
  BY <1>1, <1>2, <1>3, RunKept
<1>4. CASE runner[r].pc \in Begun \cup {"starting"}
  <2>1. \A s \in Runners \ {r} : runner[s].pc = "none" /\ runner'[s].pc = "none"
    BY <1>2, <1>4 DEF RunInv, At, Begun
  <2>2. CASE runner'[r].pc \in Begun /\ running' = TRUE
    <3>1. None("sequencer/run")' \/ \A q \in Runners : ~At(q, "starting")'
      BY <2>1, <2>2 DEF At, Begun
    <3> QED BY <1>1, <2>1, <2>2, <3>1 DEF RunInv, At, Begun
  <2>3. CASE runner'[r].pc = "none" /\ running' = FALSE
    BY <1>1, <2>1, <2>3 DEF RunInv, At, Begun
  <2>4. CASE runner[r].pc \in Begun /\ runner'[r].pc \in Begun /\ running' = running
    <3>1. running' = TRUE BY <2>4 DEF RunInv, SequencerTypes
    <3> QED BY <2>2, <2>4, <3>1
  <2> QED BY <1>3, <2>2, <2>3, <2>4, RunnerAt DEF Begun
<1> QED BY <1>3, <1>4, RunnerAt DEF Begun

LEMMA RunStays ==
  ASSUME ~Eager, TypeInv, TodoInv, RunInv, [Next]_vars PROVE RunInv'
<1> USE DEF TypeInv
<1>0. bus \in Seq(Messages) OBVIOUS
<1> DEFINE NoMore == /\ None("sequencer/run") => None("sequencer/run")'
                     /\ Single("sequencer/run") => Single("sequencer/run")'
<1>1. ASSUME UNCHANGED sequencing, NoMore PROVE RunInv'
  BY <1>1, RunKept DEF sequencing
<1>2. ASSUME bus' = bus PROVE NoMore BY <1>2 DEF None, Single
<1>3. ASSUME NEW m \in Messages, m.topic # "sequencer/run", bus' = bus \o <<m>> PROVE NoMore
  BY <1>3, ScarceOne
<1>4. ASSUME bus # <<>>,
             \/ bus' = Tail(bus)
             \/ \E c \in Seq(Messages) : /\ bus' = Tail(bus) \o c
                                         /\ \A n \in 1 .. Len(c) : c[n].topic # "sequencer/run"
      PROVE  NoMore
  BY <1>4, Scarce
<1> HIDE DEF NoMore
<1>5. ASSUME NEW i \in Moving, NEW v \in Readings, Reads(i, v) PROVE RunInv'
  BY <1>1, <1>2, <1>5 DEF Reads
<1>17. ASSUME NEW i \in Kept, ReadsAgain(i) PROVE RunInv'
  BY <1>1, <1>2, <1>17 DEF ReadsAgain
<1>6. ASSUME NEW m \in Commands, Sends(m) PROVE RunInv'
  <2>1. m \in Messages BY InputsAssumption DEF Messages
  <2>2. bus' = bus \o <<m>> /\ UNCHANGED sequencing BY <1>6 DEF Sends, Publish
  <2>3. CASE m.topic # "sequencer/run" BY <1>1, <1>3, <2>1, <2>2, <2>3
  <2>4. CASE m.topic = "sequencer/run"
    <3>1. /\ \A n \in DOMAIN bus : bus[n].topic # "sequencer/run"
          /\ \A r \in Runners : ~At(r, "starting")
      BY <1>6, <2>4 DEF Sends, Patient
    <3>2. None("sequencer/run")
      <4>1. DOMAIN bus = 1 .. Len(bus) BY LenProperties
      <4> QED BY <3>1, <4>1 DEF None
    <3>3. Single("sequencer/run")' BY <2>1, <2>2, <3>2, ScarceOne
    <3> QED BY <2>2, <3>1, <3>3 DEF RunInv, At, sequencing
  <2> QED BY <2>3, <2>4
<1>7. CASE StoreStep
  <2>1. SnapshotMsg(Snapshot, 0).topic # "sequencer/run" BY DEF SnapshotMsg
  <2> QED BY <1>1, <1>3, <1>7, <2>1, SnapshotIs DEF StoreStep, PublishSnapshot, Publish
<1>8. CASE ForTrackers BY <1>1, <1>4, <1>8, ToTrackers DEF ForTrackers
<1>9. CASE ForSequencer
  <2>1. NoMore BY <1>4, <1>9, ToSequencer
  <2>2. CASE ~OnRun BY <1>9, <2>1, <2>2, ToSequencer, RunKept DEF NoMore
  <2>3. CASE OnRun /\ ~Startable
    BY <2>1, <2>3, RunKept DEF NoMore, OnRun
  <2>4. CASE OnRun /\ Startable
    <3>1. None("sequencer/run")' /\ Single("sequencer/run")'
      <4>1. bus # <<>> /\ bus' = Tail(bus) /\ Head(bus).topic = "sequencer/run"
        BY <1>9, <2>4, ToSequencer DEF OnRun, Arrives
      <4>2. Single("sequencer/run") BY DEF RunInv
      <4> QED BY <1>0, <4>1, <4>2, Scarce
    <3>2. \A r \in Runners : runner[r].pc = "none"
      <4>1. ~None("sequencer/run")
        <5>1. bus # <<>> /\ Head(bus).topic = "sequencer/run" BY <2>4 DEF OnRun, Arrives
        <5>2. 1 \in 1 .. Len(bus) /\ bus[1] = Head(bus)
          BY <5>1, HeadTailProperties, EmptySeq
        <5> QED BY <5>1, <5>2 DEF None
      <4>2. \A r \in Runners : runner[r].pc \notin Begun /\ runner[r].pc # "starting"
        BY <2>4, <4>1 DEF Startable, RunInv, At
      <4>3. \A r \in Runners : runner[r].pc \in {"none", "starting", "next", "track", "hold"}
        BY DEF SequencerTypes, Runner
      <4> QED BY <4>2, <4>3 DEF Begun
    <3>3. PICK r \in Runners : Spawn(r) BY <2>4 DEF OnRun
    <3>4. /\ runner'[r].pc = "starting" /\ \A s \in Runners \ {r} : runner'[s].pc = "none"
          /\ running' = running
      BY <2>4, <3>2, <3>3 DEF Spawn, Idle, OnRun, SequencerTypes
    <3>5. running <=> \E s \in Runners : runner[s].pc \in Begun BY DEF RunInv
    <3> QED BY <3>1, <3>2, <3>4, <3>5 DEF RunInv, At, Begun
  <2> QED BY <2>2, <2>3, <2>4
<1>10. CASE ForGradient
  <2>1. \A c \in Seq(Messages) : (\A n \in 1 .. Len(c) : c[n].topic = "pid/setpoint")
          => \A n \in 1 .. Len(c) : c[n].topic # "sequencer/run"
    OBVIOUS
  <2>2. NoMore BY <1>4, <1>10, <2>1, ToGradient
  <2> QED BY <1>1, <1>10, <2>2 DEF ForGradient
<1>11. CASE TrackersStep
  <2>1. NoMore
    <3>1. ASSUME NEW m \in Messages, m.topic = "pid/setpoint", bus' = bus \o <<m>> PROVE NoMore
      <4>1. m.topic # "sequencer/run" BY <3>1
      <4> QED BY <1>3, <3>1, <4>1
    <3> QED BY <1>2, <1>11, <3>1, EvalSends
  <2> QED BY <1>1, <1>11, <2>1 DEF TrackersStep
<1>12. ASSUME NEW r \in Runners, RunnerStep(r) PROVE RunInv' BY <1>12, RunGoes
<1>13. CASE PollStep
  <2>1. bus' = bus \o Status(reg) /\ UNCHANGED sequencing
    BY <1>13 DEF PollStep, Report, Publish
  <2>2. Status(reg) \in Seq(Messages)
        /\ \A n \in 1 .. Len(Status(reg)) : Status(reg)[n].topic # "sequencer/run"
    BY StatusTopic DEF GradientTypes
  <2>3. NoMore BY <1>0, <2>1, <2>2, Scarce DEF NoMore
  <2> QED BY <1>1, <2>1, <2>3
<1>14. CASE Tick
  <2>1. /\ bus' = bus /\ running' = running
        /\ runner' = [r \in Runners |-> IF Waits(r) THEN [runner[r] EXCEPT !.left = @ - 1]
                                        ELSE runner[r]]
    BY <1>14 DEF Tick, SequencerTick
  <2>2. \A r \in Runners : runner'[r].pc = runner[r].pc BY <2>1 DEF SequencerTypes, Runner
  <2> QED BY <1>2, <2>1, <2>2, RunKept DEF NoMore
<1>15. CASE Restart
  <2>1. /\ \A r \in Runners : runner'[r].pc = "none"
        /\ running' = FALSE /\ bus' = LastSnapshot \o Status(retained)
    BY <1>15 DEF Restart, SequencerStart, Idle
  <2>2. None("sequencer/run")'
    <3>1. PICK b \in Seq(Messages) : b = LastSnapshot BY LastSnapshotIs
    <3>2. PICK c \in Seq(Messages) : /\ c = Status(retained)
                                     /\ \A n \in 1 .. Len(c) : c[n].topic = "pid/status"
      BY StatusTopic DEF GradientTypes
    <3>3. \A n \in 1 .. Len(b) : b[n].topic = "snapshot"
      <4>1. CASE b = <<>>
        <5>1. Len(<<>>) = 0 /\ 1 .. 0 = {} BY EmptySeq
        <5> QED BY <4>1, <5>1
      <4>2. ASSUME NEW m \in Messages, b = <<m>>, m.topic = "snapshot"
            PROVE  \A n \in 1 .. Len(b) : b[n].topic = "snapshot"
        BY <4>2, Alone
      <4>3. SnapshotMsg(snap, snapAge).topic = "snapshot" BY DEF SnapshotMsg
      <4> QED BY <3>1, <4>1, <4>2, <4>3, LastSnapshotIs
    <3>4. /\ Len(bus') = Len(b) + Len(c) /\ Len(b) \in Nat /\ Len(c) \in Nat
          /\ \A n \in 1 .. Len(b) + Len(c) : bus'[n] = IF n <= Len(b) THEN b[n] ELSE c[n - Len(b)]
      BY <2>1, <3>1, <3>2, ConcatProperties, LenProperties
    <3>5. \A n \in 1 .. Len(bus') : n > Len(b) => n - Len(b) \in 1 .. Len(c) BY <3>4
    <3>6. \A n \in 1 .. Len(bus') : bus'[n].topic \in {"snapshot", "pid/status"}
      <4> SUFFICES ASSUME NEW n \in 1 .. Len(bus')
                   PROVE  bus'[n].topic \in {"snapshot", "pid/status"}
        OBVIOUS
      <4>1. CASE n <= Len(b)
        <5>1. n \in 1 .. Len(b) /\ bus'[n] = b[n] BY <3>4, <4>1
        <5> QED BY <3>3, <5>1
      <4>2. CASE ~(n <= Len(b))
        <5>1. n - Len(b) \in 1 .. Len(c) /\ bus'[n] = c[n - Len(b)] BY <3>4, <3>5, <4>2
        <5> QED BY <3>2, <5>1
      <4> QED BY <4>1, <4>2
    <3> QED BY <3>6 DEF None
  <2>3. Single("sequencer/run")' BY <2>2 DEF None, Single
  <2> QED BY <2>1, <2>2, <2>3 DEF RunInv, At, Begun
<1>16. CASE UNCHANGED vars BY <1>1, <1>2, <1>16 DEF vars
<1> QED BY <1>5, <1>6, <1>7, <1>8, <1>9, <1>10, <1>11, <1>12, <1>13, <1>14, <1>15, <1>16,
           <1>17 DEF Next, Deliver

LEMMA RunStarts == Init => RunInv
<1> SUFFICES ASSUME Init PROVE RunInv OBVIOUS
<1>1. /\ bus = <<>> /\ running = FALSE /\ \A r \in Runners : runner[r].pc = "none"
  BY DEF Init, SequencerInit, Idle
<1>2. Len(<<>>) = 0 /\ 1 .. 0 = {} BY EmptySeq
<1> QED BY <1>1, <1>2 DEF RunInv, None, Single, At, Begun

LEMMA SettlesMore ==
  ASSUME NEW S, NEW b \in Seq(S), NEW c \in Seq(S), NEW M, NEW L, NEW p,
         Settles(b, M, L, p), \A n \in 1 .. Len(c) : c[n] \in M => c[n] \in L
  PROVE  Settles(b \o c, M, L, p)
<1>1. CASE \A n \in 1 .. Len(c) : c[n] \notin M BY <1>1, SettlesStays
<1>2. ASSUME NEW k \in 1 .. Len(c), c[k] \in M PROVE Settles(b \o c, M, L, p)
  BY <1>2, SettlesNew
<1> QED BY <1>1, <1>2

(* Nothing but a message that sets x, or the start of a service, brings a  *)
(* tracker x back.                                                         *)
LEMMA GoneKept ==
  ASSUME bus \in Seq(Messages), NEW x, Gone(x), NEW b,
         \/ b = bus /\ (x \in Ids' => x \in Ids)
         \/ /\ bus # <<>> /\ b = Tail(bus)
            /\ Head(bus) \in Removes(x) => x \notin Ids'
            /\ Head(bus) \notin Sets(x) => (x \in Ids' => x \in Ids),
         \/ bus' = b
         \/ \E c \in Seq(Messages) : bus' = b \o c /\ \A n \in 1 .. Len(c) : c[n] \notin Sets(x)
  PROVE  Gone(x)'
<1> DEFINE M == Sets(x) \cup Removes(x)
           L == Removes(x)
<1>1. Settles(bus, M, L, x \notin Ids) BY DEF Gone
<1>2. b \in Seq(Messages) /\ Settles(b, M, L, x \notin Ids')
  <2>1. CASE b = bus /\ (x \in Ids' => x \in Ids)
    BY <1>1, <2>1 DEF Settles
  <2>2. CASE /\ bus # <<>> /\ b = Tail(bus)
             /\ Head(bus) \in Removes(x) => x \notin Ids'
             /\ Head(bus) \notin Sets(x) => (x \in Ids' => x \in Ids)
    <3>1. Head(bus) \in L => x \notin Ids' BY <2>2
    <3>2. Head(bus) \notin M => (x \notin Ids => x \notin Ids') BY <2>2
    <3>3. Tail(bus) \in Seq(Messages) BY <2>2, HeadTailProperties
    <3> HIDE DEF M, L
    <3> QED BY <1>1, <2>2, <3>1, <3>2, <3>3, SettlesLater
  <2> QED BY <2>1, <2>2
<1>3. Settles(bus', M, L, x \notin Ids') => Gone(x)' BY DEF Gone, Sets, Removes
<1>4. CASE bus' = b BY <1>2, <1>3, <1>4
<1>5. ASSUME NEW c \in Seq(Messages), bus' = b \o c, \A n \in 1 .. Len(c) : c[n] \notin Sets(x)
      PROVE  Gone(x)'
  <2>1. \A n \in 1 .. Len(c) : c[n] \in M => c[n] \in L BY <1>5
  <2> HIDE DEF M, L
  <2>2. Settles(b \o c, M, L, x \notin Ids') BY <1>2, <1>5, <2>1, SettlesMore
  <2> QED BY <1>3, <1>5, <2>2
<1> QED BY <1>4, <1>5

LEMMA GoneOneMore ==
  ASSUME bus \in Seq(Messages), NEW x, Gone(x), x \in Ids' => x \in Ids,
         NEW m \in Messages, m \notin Sets(x), bus' = bus \o <<m>>
  PROVE  Gone(x)'
<1>1. PICK c : c = <<m>> OBVIOUS
<1>2. c \in Seq(Messages) /\ \A n \in 1 .. Len(c) : c[n] = m BY <1>1, Alone
<1>3. \A n \in 1 .. Len(c) : c[n] \notin Sets(x) BY <1>2
<1> QED BY <1>1, <1>2, <1>3, GoneKept

(* A message that removes x is the last word on x.                         *)
LEMMA GoneRemoved ==
  ASSUME bus \in Seq(Messages), NEW x, NEW m \in Messages, m \in Removes(x), bus' = bus \o <<m>>
  PROVE  Gone(x)'
<1> DEFINE M == Sets(x) \cup Removes(x)
           L == Removes(x)
<1>1. PICK c : c = <<m>> OBVIOUS
<1>2. c \in Seq(Messages) /\ Len(c) = 1 /\ \A n \in 1 .. Len(c) : c[n] = m BY <1>1, Alone
<1>3. /\ 1 \in 1 .. Len(c) /\ c[1] \in M
      /\ \A n \in 1 .. Len(c) : c[n] \in M => c[n] \in L
  BY <1>2
<1>4. Settles(bus', M, L, x \notin Ids') => Gone(x)' BY DEF Gone, Sets, Removes
<1> HIDE DEF M, L
<1>5. Settles(bus \o c, M, L, x \notin Ids') BY <1>2, <1>3, SettlesNew
<1> QED BY <1>1, <1>4, <1>5

LEMMA OwnsKept ==
  ASSUME NEW r \in Runners, Owns(r), UNCHANGED <<active, leftover>>,
         /\ runner'[r].pc = runner[r].pc /\ runner'[r].prog = runner[r].prog
         /\ runner'[r].idx = runner[r].idx /\ runner'[r].todo = runner[r].todo,
         \A x \in SeqIds : Gone(x) => Gone(x)'
  PROVE  Owns(r)'
<1>1. Item(r)' = Item(r) /\ \A pc : At(r, pc)' <=> At(r, pc) BY DEF Item, At
<1>2. (runner[r].pc \in {"next", "hold"} => \A x \in SeqIds \ (active \cup leftover) : Gone(x))'
  BY DEF Owns
<1>3. At(r, "track")' =>
        /\ (\A x \in SeqIds \ (Wanted(Item(r)) \cup leftover) :
              Gone(x) \/ Leaving(runner[r].todo, x))'
        /\ (\A n \in 1 .. Len(runner[r].todo) : ForItem(runner[r].todo[n], Item(r)))'
  BY <1>1 DEF Owns, Leaving, Removes, ForItem, Wanted
<1> QED BY <1>1, <1>2, <1>3 DEF Owns, Wanted

LEMMA OwnGoes ==
  ASSUME TypeInv, TodoInv, RunInv, OwnInv, NEW r \in Runners, RunnerStep(r) PROVE OwnInv'
<1> USE DEF TypeInv
<1> DEFINE o == runner[r]
           i == Item(r)
<1>0. /\ bus \in Seq(Messages) /\ runner \in [Runners -> Runner] /\ o.todo \in Seq(Messages)
      /\ active \subseteq SeqIds /\ o \in Runner /\ Sound(o)
      /\ o.pc \in Begun /\ o.idx <= Len(o.prog) => i \in Items
      /\ UNCHANGED trackers /\ Ids' = Ids /\ Owns(r)
  BY RunnerIs DEF SequencerTypes, RunnerStep, tracking, Ids, OwnInv
<1>1. o.pc # "none"
  <2>1. Send(r) => o.pc \in {"track", "hold"} BY <1>0 DEF Send, Owns
  <2> QED BY <2>1, RunnerAt DEF Begun
<1>2. \A s \in Runners \ {r} : Owns(s)'
  <2> SUFFICES ASSUME NEW s \in Runners \ {r} PROVE Owns(s)' OBVIOUS
  <2>1. runner'[s] = runner[s] /\ runner[s].pc = "none" BY <1>1, RunnerAt DEF RunInv, At
  <2>2. runner[s].todo = <<>> BY <2>1 DEF OwnInv, Owns
  <2> QED BY <2>1, <2>2 DEF Owns, At
<1>3. SUFFICES Owns(r)' BY <1>2 DEF OwnInv
<1>4. ASSUME bus' = bus, NEW x, Gone(x) PROVE Gone(x)'
  BY <1>0, <1>4, GoneKept
<1>5. CASE Begin(r)
  <2>1. PICK q : q = [o EXCEPT !.pc = "next", !.idx = 1, !.sub = 1] OBVIOUS
  <2>2. runner'[r] = q /\ q.pc = "next" /\ q.todo = o.todo BY <1>0, <1>5, <2>1 DEF Begin, Runner
  <2>3. /\ o.pc = "starting" /\ leftover' = (Ids \cup OnTheWay) \cap SeqIds /\ bus' = bus
    BY <1>5 DEF Begin, RunnerStep, At
  <2>4. o.todo = <<>> BY <1>0, <2>3 DEF Owns
  <2>5. ASSUME NEW x \in SeqIds \ leftover' PROVE Gone(x)'
    <3>1. x \notin Ids /\ x \notin OnTheWay BY <2>3, <2>5
    <3>2. \A n \in 1 .. Len(bus) : bus[n] \notin Sets(x)
      <4>1. DOMAIN bus = 1 .. Len(bus) BY <1>0, LenProperties
      <4> QED BY <3>1, <4>1 DEF OnTheWay, Sets
    <3>3. Gone(x) BY <3>1, <3>2 DEF Gone, Settles
    <3> QED BY <1>4, <2>3, <3>3
  <2> QED BY <2>2, <2>4, <2>5 DEF Owns, At
<1>6. CASE End(r)
  <2>1. runner'[r].pc = "none" /\ runner'[r].todo = <<>> BY <1>0, <1>6 DEF End, Idle
  <2> QED BY <2>1 DEF Owns, At
<1>7. CASE Enter(r)
  <2> DEFINE F == [z \in i.targets |-> Values(i)[o.sub]]
             new == IF i.kind = "step" THEN Reconcile(i) ELSE Writes(F)
  <2>1. /\ o.pc = "next" /\ o.idx <= Len(o.prog) /\ i \in Items /\ o.sub \in 1 .. Points(i)
        /\ bus' = bus /\ active' = active
        /\ leftover' = IF i.kind = "step" THEN leftover \ Wanted(i) ELSE leftover
    <3>1. o.pc = "next" /\ ~Over(r) BY <1>7 DEF Enter, At
    <3>2. o.idx <= Len(o.prog) BY <3>1, RunnerIs DEF Over
    <3> QED BY <1>0, <1>7, <3>1, <3>2 DEF Enter, At, RunnerStep, Sound, Begun, Item
  <2>2. PICK q : q = [o EXCEPT !.pc = IF i.kind = "step" THEN "track" ELSE "hold",
                               !.left = i.hold, !.todo = new]
    OBVIOUS
  <2>3. runner' = [runner EXCEPT ![r] = q] BY <1>7, <2>2 DEF Enter
  <2>4. /\ runner'[r] = q /\ q.pc = (IF i.kind = "step" THEN "track" ELSE "hold")
        /\ q.todo = new /\ q.idx = o.idx /\ q.prog = o.prog
    BY <1>0, <2>2, <2>3 DEF Runner
  <2>5. Item(r)' = i BY <2>4 DEF Item
  <2>6. \A x \in SeqIds \ (active \cup leftover) : Gone(x) /\ Gone(x)'
    BY <1>0, <1>4, <2>1 DEF Owns
  <2>7. CASE i.kind = "step"
    <3>1. PICK p : p = Reconcile(i) OBVIOUS
    <3>2. /\ \A n \in 1 .. Len(p) : ForItem(p[n], i)
          /\ \A x \in active \ Wanted(i) : Leaving(p, x)
      BY <1>0, <2>1, <2>7, <3>1, ReconcileIs DEF ForItem, Dropped
    <3>3. runner'[r].todo = p /\ runner'[r].pc = "track" /\ leftover' = leftover \ Wanted(i)
      BY <2>1, <2>4, <2>7, <3>1
    <3> HIDE DEF i, new
    <3>4. \A x \in SeqIds \ (Wanted(i) \cup leftover') : Gone(x)' \/ Leaving(p, x)
      BY <2>6, <3>2, <3>3
    <3> QED BY <2>5, <3>2, <3>3, <3>4 DEF Owns, At, Leaving, Removes, ForItem, Wanted
  <2>8. CASE i.kind # "step"
    <3>1. DOMAIN F \subseteq Zones /\ F \in [DOMAIN F -> Int] BY <2>1, <2>8, ItemKinds
    <3> HIDE DEF F
    <3>2. \A n \in 1 .. Len(Writes(F)) : Writes(F)[n].topic = "pid/setpoint" BY <3>1, WritesIs
    <3>3. runner'[r].todo = Writes(F) /\ runner'[r].pc = "hold" /\ leftover' = leftover
      BY <2>1, <2>4, <2>8
    <3> HIDE DEF i, new
    <3> QED BY <2>1, <2>5, <2>6, <2>8, <3>2, <3>3 DEF Owns, At
  <2> QED BY <2>7, <2>8
<1>8. CASE Tracked(r)
  <2>1. /\ o.pc = "track" /\ o.todo = <<>> /\ active' = Wanted(i) /\ bus' = bus
        /\ leftover' = leftover
    BY <1>8 DEF Tracked, At, RunnerStep
  <2>2. i \in Items /\ i.kind = "step" BY <1>0, <2>1 DEF Sound, Begun, Item
  <2>3. PICK q : q = [o EXCEPT !.pc = "hold", !.todo = Writes(i.writes)] OBVIOUS
  <2>4. runner' = [runner EXCEPT ![r] = q] BY <1>8, <2>3 DEF Tracked
  <2>5. runner'[r] = q /\ q.pc = "hold" /\ q.todo = Writes(i.writes) /\ q.idx = o.idx
        /\ q.prog = o.prog
    BY <1>0, <2>3, <2>4 DEF Runner
  <2>6. Item(r)' = i BY <2>5 DEF Item
  <2>7. \A n \in 1 .. Len(Writes(i.writes)) : Writes(i.writes)[n].topic = "pid/setpoint"
    BY <2>2, ItemKinds, WritesIs
  <2>8. ASSUME NEW x \in SeqIds \ (Wanted(i) \cup leftover) PROVE Gone(x)'
    <3>1. Gone(x) \/ Leaving(<<>>, x) BY <1>0, <2>1, <2>8 DEF Owns, At
    <3>2. Len(<<>>) = 0 /\ 1 .. 0 = {} BY EmptySeq
    <3> QED BY <1>4, <2>1, <3>1, <3>2 DEF Leaving
  <2> HIDE DEF i
  <2> QED BY <2>1, <2>5, <2>6, <2>7, <2>8 DEF Owns, At, Wanted
<1>9. CASE Held(r)
  <2>1. o.pc = "hold" /\ o.todo = <<>> /\ bus' = bus /\ active' = active /\ leftover' = leftover
    BY <1>9 DEF Held, At, RunnerStep
  <2>2. runner'[r].pc = "next" /\ runner'[r].todo = o.todo BY <1>0, <1>9 DEF Held, Runner
  <2>3. \A x \in SeqIds \ (active \cup leftover) : Gone(x)' BY <1>0, <1>4, <2>1 DEF Owns
  <2> QED BY <2>1, <2>2, <2>3 DEF Owns, At
<1>10. CASE Send(r)
  <2> DEFINE m == Head(o.todo)
             t == Tail(o.todo)
  <2>1. /\ o.todo # <<>> /\ bus' = bus \o <<m>> /\ active' = active
        /\ runner' = [runner EXCEPT ![r].todo = t]
    BY <1>10 DEF Send, Publish
  <2>2. /\ runner'[r].todo = t /\ runner'[r].pc = o.pc /\ runner'[r].idx = o.idx
        /\ runner'[r].prog = o.prog
    BY <1>0, <2>1 DEF Runner
  <2>3. /\ m \in Messages /\ m = o.todo[1] /\ 1 \in 1 .. Len(o.todo) /\ Len(t) = Len(o.todo) - 1
        /\ Len(o.todo) \in Nat /\ \A n \in 1 .. Len(t) : t[n] = o.todo[n + 1]
    BY <1>0, <2>1, HeadTailProperties, EmptySeq, LenProperties
  <2>4. \A n \in 1 .. Len(t) : n + 1 \in 1 .. Len(o.todo) BY <2>3
  <2>5. o.pc \in {"track", "hold"} BY <1>0, <2>1 DEF Owns
  <2>6. leftover' = leftover /\ Item(r)' = i BY <1>10, <2>2, <2>5 DEF RunnerStep, At, Item
  <2> HIDE DEF m, t, i
  <2>7. CASE o.pc = "hold"
    <3>1. m.topic = "pid/setpoint" /\ \A n \in 1 .. Len(t) : t[n].topic = "pid/setpoint"
      BY <1>0, <2>3, <2>4, <2>7 DEF Owns, At
    <3>2. \A x : m \notin Sets(x) BY <3>1 DEF Sets
    <3>3. \A x \in SeqIds \ (active \cup leftover) : Gone(x)'
      BY <1>0, <2>1, <2>3, <2>7, <3>2, GoneOneMore DEF Owns
    <3>4. i.kind = "step" => active = Wanted(i) BY <1>0, <2>7 DEF Owns, At, i
    <3> QED BY <2>1, <2>2, <2>6, <2>7, <3>1, <3>3, <3>4 DEF Owns, At, Wanted
  <2>8. CASE o.pc = "track"
    <3>1. /\ \A n \in 1 .. Len(o.todo) : ForItem(o.todo[n], i)
          /\ \A x \in SeqIds \ (Wanted(i) \cup leftover) : Gone(x) \/ Leaving(o.todo, x)
      BY <1>0, <2>8 DEF Owns, At, i
    <3>2. ForItem(m, i) /\ \A n \in 1 .. Len(t) : ForItem(t[n], i) BY <2>3, <2>4, <3>1
    <3>3. ASSUME NEW x \in SeqIds \ (Wanted(i) \cup leftover) PROVE Gone(x)' \/ Leaving(t, x)
      <4>1. m \notin Sets(x) BY <3>2, <3>3 DEF ForItem, Sets
      <4>2. CASE Gone(x) BY <1>0, <2>1, <2>3, <4>1, <4>2, GoneOneMore
      <4>3. CASE m \in Removes(x) BY <1>0, <2>1, <2>3, <4>3, GoneRemoved
      <4>4. CASE Leaving(o.todo, x) /\ m \notin Removes(x)
        <5>1. PICK n \in 1 .. Len(o.todo) : o.todo[n] \in Removes(x) BY <4>4 DEF Leaving
        <5>2. n # 1 BY <2>3, <4>4, <5>1
        <5>3. n - 1 \in 1 .. Len(t) /\ (n - 1) + 1 = n BY <2>3, <5>1, <5>2
        <5>4. t[n - 1] = o.todo[n] BY <2>3, <5>3
        <5> QED BY <5>1, <5>3, <5>4 DEF Leaving
      <4> QED BY <3>1, <3>3, <4>2, <4>3, <4>4
    <3> QED BY <2>1, <2>2, <2>6, <2>8, <3>2, <3>3 DEF Owns, At, Leaving, Removes, ForItem, Wanted
  <2> QED BY <2>5, <2>7, <2>8
<1> QED BY <1>5, <1>6, <1>7, <1>8, <1>9, <1>10 DEF RunnerStep, Runs

(* Operators set no tracker by an id of the sequencer's.                   *)
OperatorsApart == \A m \in Commands : m.topic = "trackers/set" => m.id \notin SeqIds

LEMMA GoneHears ==
  ASSUME TypeInv, ForTrackers, NEW x, Gone(x) PROVE Gone(x)'
<1> USE DEF TypeInv
<1>1. /\ bus \in Seq(Messages) /\ bus # <<>> /\ bus' = Tail(bus) /\ Msg = Head(bus)
      /\ Head(bus) \in Messages
  BY ToTrackers
<1>2. /\ Head(bus) \in Removes(x) => x \notin Ids'
      /\ Head(bus) \notin Sets(x) => (x \in Ids' => x \in Ids)
  <2>1. CASE OnSnapshot /\ Msg.topic = "snapshot"
    <3>1. Ids' = Ids /\ Head(bus) \notin Removes(x)
      BY <1>1, <2>1 DEF OnSnapshot, Ids, Removes
    <3> QED BY <3>1
  <2>2. CASE OnSet /\ Msg.topic = "trackers/set"
    <3>1. Ids' = Ids \cup {Msg.id} BY <2>2 DEF OnSet, Ids
    <3>2. Msg.id = x => Head(bus) \in Sets(x)
      BY <1>1, <2>2, MessageKinds DEF Messages, Command, Sets
    <3>3. Head(bus) \notin Removes(x) BY <1>1, <2>2 DEF Removes
    <3> QED BY <3>1, <3>2, <3>3
  <2>3. CASE OnRemove /\ Msg.topic = "trackers/remove"
    <3>1. Ids' = Ids \ {Msg.id} BY <2>3 DEF OnRemove, Ids
    <3>2. Head(bus) \in Removes(x) => Msg.id = x BY <1>1 DEF Removes
    <3> QED BY <3>1, <3>2
  <2>4. CASE OnEnable /\ Msg.topic = "trackers/enable"
    <3>1. Ids' = Ids BY <2>4 DEF OnEnable, Ids, TrackersTypes
    <3>2. Head(bus) \notin Removes(x) BY <1>1, <2>4 DEF Removes
    <3> QED BY <3>1, <3>2
  <2> QED BY <2>1, <2>2, <2>3, <2>4, ToTrackers
<1> QED BY <1>1, <1>2, GoneKept

LEMMA OwnStays ==
  ASSUME OperatorsApart, TypeInv, TodoInv, RunInv, OwnInv, [Next]_vars PROVE OwnInv'
<1> USE DEF TypeInv
<1>0. bus \in Seq(Messages) OBVIOUS
<1> DEFINE AllGone == \A x \in SeqIds : Gone(x) => Gone(x)'
<1>1. ASSUME UNCHANGED <<sequencing, leftover>>, AllGone PROVE OwnInv'
  BY <1>1, OwnsKept DEF sequencing, OwnInv
<1>2. ASSUME bus' = bus, Ids' = Ids PROVE AllGone BY <1>0, <1>2, GoneKept
<1>3. ASSUME NEW m \in Messages, m.topic # "trackers/set", bus' = bus \o <<m>>, Ids' = Ids
      PROVE  AllGone
  <2>1. \A x : m \notin Sets(x) BY <1>3 DEF Sets
  <2> QED BY <1>0, <1>3, <2>1, GoneOneMore
<1>4. ASSUME NEW b, b = bus \/ (bus # <<>> /\ b = Tail(bus)), Ids' = Ids,
             bus # <<>> /\ b = Tail(bus) => Head(bus).topic # "trackers/remove",
             \/ bus' = b
             \/ \E c \in Seq(Messages) : /\ bus' = b \o c
                                         /\ \A n \in 1 .. Len(c) : c[n].topic # "trackers/set"
      PROVE  AllGone
  <2> SUFFICES ASSUME NEW x \in SeqIds, Gone(x) PROVE Gone(x)' OBVIOUS
  <2>1. \A m : (m.topic # "trackers/set" => m \notin Sets(x))
               /\ (m.topic # "trackers/remove" => m \notin Removes(x))
    BY DEF Sets, Removes
  <2> QED BY <1>0, <1>4, <2>1, GoneKept
<1> HIDE DEF AllGone
<1>5. ASSUME NEW i \in Moving, NEW v \in Readings, Reads(i, v) PROVE OwnInv'
  BY <1>1, <1>2, <1>5 DEF Reads, tracking, Ids
<1>17. ASSUME NEW i \in Kept, ReadsAgain(i) PROVE OwnInv'
  BY <1>1, <1>2, <1>17 DEF ReadsAgain, tracking, Ids
<1>6. ASSUME NEW m \in Commands, Sends(m) PROVE OwnInv'
  <2>1. m \in Messages BY InputsAssumption DEF Messages
  <2>2. bus' = bus \o <<m>> /\ Ids' = Ids /\ UNCHANGED <<sequencing, leftover>>
    BY <1>6 DEF Sends, Publish, tracking, Ids
  <2>3. \A x \in SeqIds : m \notin Sets(x) BY DEF OperatorsApart, Sets
  <2>4. AllGone BY <1>0, <2>1, <2>2, <2>3, GoneOneMore DEF AllGone
  <2> QED BY <1>1, <2>2, <2>4
<1>7. CASE StoreStep
  <2>1. SnapshotMsg(Snapshot, 0).topic # "trackers/set" BY DEF SnapshotMsg
  <2>2. bus' = bus \o <<SnapshotMsg(Snapshot, 0)>> /\ Ids' = Ids
        /\ UNCHANGED <<sequencing, leftover>>
    BY <1>7 DEF StoreStep, PublishSnapshot, Publish, tracking, Ids
  <2>3. SnapshotMsg(Snapshot, 0) \in Messages BY SnapshotIs
  <2> QED BY <1>1, <1>3, <2>1, <2>2, <2>3
<1>8. CASE ForTrackers BY <1>1, <1>8, GoneHears DEF ForTrackers, AllGone
<1>9. CASE ForSequencer
  <2>1. /\ bus # <<>> /\ bus' = Tail(bus) /\ Head(bus).topic # "trackers/remove"
        /\ Ids' = Ids /\ leftover' = leftover
    BY <1>9, ToSequencer DEF ForSequencer, tracking, Ids
  <2>2. AllGone BY <1>4, <2>1
  <2>3. CASE OnRun /\ Startable
    <3>1. PICK r \in Runners : Spawn(r) BY <2>3 DEF OnRun
    <3>2. /\ runner'[r].pc = "starting" /\ runner'[r].todo = <<>>
          /\ \A s \in Runners \ {r} : runner'[s] = runner[s]
      BY <3>1 DEF Spawn, Idle, SequencerTypes
    <3>3. Owns(r)' BY <3>2 DEF Owns, At
    <3>4. \A s \in Runners \ {r} : Owns(s)'
      <4>1. UNCHANGED <<active, leftover>> BY <2>1, <2>3 DEF OnRun
      <4> QED BY <2>2, <3>2, <4>1, OwnsKept DEF OwnInv, AllGone
    <3> QED BY <3>3, <3>4 DEF OwnInv
  <2>4. CASE ~(OnRun /\ Startable)
    <3>1. UNCHANGED <<active, runner>> BY <1>9, <2>4, ToSequencer DEF OnRun
    <3> QED BY <2>1, <2>2, <3>1, OwnsKept DEF OwnInv, AllGone
  <2> QED BY <2>3, <2>4
<1>10. CASE ForGradient
  <2>1. \A c \in Seq(Messages) : (\A n \in 1 .. Len(c) : c[n].topic = "pid/setpoint")
          => \A n \in 1 .. Len(c) : c[n].topic # "trackers/set"
    OBVIOUS
  <2>2. /\ bus # <<>> /\ Head(bus).topic # "trackers/remove"
        /\ Ids' = Ids /\ UNCHANGED <<sequencing, leftover>>
    BY <1>10, ToGradient DEF ForGradient, tracking, Ids
  <2>3. AllGone BY <1>4, <1>10, <2>1, <2>2, ToGradient
  <2> QED BY <1>1, <2>2, <2>3
<1>11. CASE TrackersStep
  <2>1. Ids' = Ids BY <1>11 DEF TrackersStep, StartRound, EvalOne, Note, Ids, TrackersTypes
  <2>2. AllGone
    <3>1. ASSUME NEW m \in Messages, m.topic = "pid/setpoint", bus' = bus \o <<m>> PROVE AllGone
      <4>1. m.topic # "trackers/set" BY <3>1
      <4> QED BY <1>3, <2>1, <3>1, <4>1
    <3> QED BY <1>2, <1>11, <2>1, <3>1, EvalSends
  <2> QED BY <1>1, <1>11, <2>2 DEF TrackersStep
<1>12. ASSUME NEW r \in Runners, RunnerStep(r) PROVE OwnInv' BY <1>12, OwnGoes
<1>13. CASE PollStep
  <2>1. bus' = bus \o Status(reg) /\ Ids' = Ids /\ UNCHANGED <<sequencing, leftover>>
    BY <1>13 DEF PollStep, Report, Publish, tracking, Ids
  <2>2. Status(reg) \in Seq(Messages)
        /\ \A n \in 1 .. Len(Status(reg)) : Status(reg)[n].topic # "trackers/set"
    BY StatusTopic DEF GradientTypes
  <2>3. ASSUME NEW x \in SeqIds, Gone(x) PROVE Gone(x)'
    <3>1. \A n \in 1 .. Len(Status(reg)) : Status(reg)[n] \notin Sets(x) BY <2>2 DEF Sets
    <3> QED BY <1>0, <2>1, <2>2, <2>3, <3>1, GoneKept
  <2> QED BY <1>1, <2>1, <2>3 DEF AllGone
<1>14. CASE Tick
  <2>1. /\ bus' = bus /\ Ids' = Ids /\ UNCHANGED <<active, leftover>>
        /\ runner' = [r \in Runners |-> IF Waits(r) THEN [runner[r] EXCEPT !.left = @ - 1]
                                        ELSE runner[r]]
    BY <1>14 DEF Tick, SequencerTick, TrackersTick, Ids
  <2>2. \A r \in Runners :
          /\ runner'[r].pc = runner[r].pc /\ runner'[r].prog = runner[r].prog
          /\ runner'[r].idx = runner[r].idx /\ runner'[r].todo = runner[r].todo
    BY <2>1 DEF SequencerTypes, Runner
  <2>3. AllGone BY <1>2, <2>1
  <2> QED BY <2>1, <2>2, <2>3, OwnsKept DEF OwnInv, AllGone
<1>15. CASE Restart
  <2>1. \A r \in Runners : runner'[r].pc = "none" /\ runner'[r].todo = <<>>
    BY <1>15 DEF Restart, SequencerStart, Idle
  <2> QED BY <2>1 DEF OwnInv, Owns, At
<1>16. CASE UNCHANGED vars BY <1>1, <1>2, <1>16 DEF vars, tracking, Ids
<1> QED BY <1>5, <1>6, <1>7, <1>8, <1>9, <1>10, <1>11, <1>12, <1>13, <1>14, <1>15, <1>16,
           <1>17 DEF Next, Deliver

(* While a step holds and its commands have arrived, the sequencer's       *)
(* trackers are the step's own and those left by an earlier run, whatever  *)
(* the operators send in between, provided they use ids of their own and   *)
(* send no second run before the first has begun.                          *)
THEOREM StepOwns ==
  ASSUME ~Eager, OperatorsApart
  PROVE  Spec => []StepOwnsTrackers
<1>1. Init => RunInv /\ OwnInv
  <2>1. Init => \A r \in Runners : runner[r].pc = "none" /\ runner[r].todo = <<>>
    BY DEF Init, SequencerInit, Idle
  <2> QED BY <2>1, RunStarts DEF OwnInv, Owns, At
<1>2. TypeInv /\ TodoInv /\ RunInv /\ OwnInv /\ [Next]_vars => RunInv' /\ OwnInv'
  BY RunStays, OwnStays
<1>3. TypeInv /\ OwnInv => StepOwnsTrackers
  <2> SUFFICES ASSUME TypeInv, OwnInv, NEW r \in Runners, At(r, "hold"), Item(r).kind = "step",
                      Pending \cap {"trackers/set", "trackers/remove"} = {},
                      NEW x \in Ids \cap SeqIds, x \notin Wanted(Item(r)), x \notin leftover
               PROVE  FALSE
    BY DEF StepOwnsTrackers
  <2>1. active = Wanted(Item(r)) /\ runner[r].pc = "hold" BY DEF OwnInv, Owns, At
  <2>2. Gone(x) BY <2>1 DEF OwnInv, Owns
  <2>3. \A n \in 1 .. Len(bus) : bus[n] \notin Sets(x) \cup Removes(x)
    <3>1. DOMAIN bus = 1 .. Len(bus) BY LenProperties DEF TypeInv
    <3>2. \A n \in 1 .. Len(bus) : bus[n].topic \in Pending BY <3>1 DEF Pending
    <3> QED BY <3>2 DEF Sets, Removes
  <2> QED BY <2>2, <2>3 DEF Gone, Settles
<1> QED BY <1>1, <1>2, <1>3, TodoAlways, PTL DEF Spec
=============================================================================
