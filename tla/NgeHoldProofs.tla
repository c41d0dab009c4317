---------------------------- MODULE NgeHoldProofs ----------------------------
(* Proofs about NgeHold, for any number of channels, any settings and any  *)
(* answer of the supply to them, any protections and any times.            *)
EXTENDS NgeHold, TLAPS

(* The first channel exists, no setting is the mark of a missing one, and  *)
(* a channel without a target is not a channel with one.                   *)
LEMMA Basics ==
  /\ NumCh \in Nat /\ 1 \in Ch /\ \A c \in Ch : c \in Nat /\ c <= NumCh
  /\ Held \subseteq Settings /\ M1 \in Held /\ -1 \notin Settings
  /\ \A s \in Settings : Answer[s] \in Held
  /\ \A s \in Held : Answer[s] = s
<1>1. NumCh \in Nat /\ 1 \in Ch /\ \A c \in Ch : c \in Nat /\ c <= NumCh
  BY SupplyAssumption DEF Ch
<1>2. -1 \notin Settings
  BY SupplyAssumption
<1>3. QED
  BY <1>1, <1>2, SupplyAssumption

(* Counters start in their ranges, and end there.                          *)
LEMMA Times ==
  /\ RetryMin \in Nat /\ RetryMax \in Nat /\ Stable \in Nat /\ Reconnect \in Nat
  /\ ResumeMax \in Nat /\ SaveEvery \in Nat /\ MaxEvents \in Nat
  /\ RetryMin <= RetryMax /\ RetryMin <= Stable
  /\ 0 \in 0 .. RetryMax /\ 0 \in 0 .. Stable /\ 0 \in 0 .. SaveEvery + 1
  /\ 0 \in 0 .. Reconnect /\ Reconnect \in 0 .. Reconnect /\ 0 \in 0 .. MaxEvents
  /\ RetryMin \in 0 .. RetryMin /\ 0 \in 0 .. RetryMin
  /\ NoContact \in Ages /\ 0 \in Ages
  BY TimesAssumption DEF Ages

LEMMA NoTargets == /\ NoTarget \notin Target
                   /\ \A t \in Target : t # NoTarget /\ t.set \in Settings
                                          /\ t.output \in BOOLEAN
<1>1. \A t \in Target : t.set \in Settings /\ t.output \in BOOLEAN
  BY DEF Target
<1>2. NoTarget.set = -1
  BY DEF NoTarget
<1>3. QED
  BY <1>1, <1>2, Basics

(* Types, and what operations need of their session, are kept together.    *)
Sane ==
  /\ SupplyOK /\ SessionOK /\ TargetsOK /\ KnownOK /\ BackoffOK
  /\ CursorOK /\ LocalsOK /\ HistoryOK /\ OpInv

LEMMA SaneInit == Init => Sane
<1> SUFFICES ASSUME Init PROVE Sane
  OBVIOUS
<1> USE Basics, Times DEF Init
<1>1. SupplyOK /\ SessionOK
  <2>1. tries \in [Ch -> 0 .. 3]
    OBVIOUS
  <2>2. QED
    BY <2>1 DEF SupplyOK, SessionOK
<1>2. TargetsOK /\ KnownOK
  <2>1. desired \in Targets /\ saved \in [hold : BOOLEAN, contact : Ages, desired : Targets]
    BY DEF Targets
  <2>2. QED
    BY <2>1 DEF TargetsOK, KnownOK
<1>3. BackoffOK
  BY DEF BackoffOK, Nothing
<1>4. CursorOK
  BY DEF CursorOK, Poll, Kinds, Ops
<1>5. LocalsOK
  BY DEF LocalsOK, Unseen, Nothing
<1>6. HistoryOK /\ OpInv
  BY DEF HistoryOK, NoOffs, OpInv, Poll
<1>7. QED
  BY <1>1, <1>2, <1>3, <1>4, <1>5, <1>6 DEF Sane

(* What an action leaves alone keeps its type.                             *)
LEMMA Frame ==
  ASSUME Sane
  PROVE  /\ UNCHANGED supply => SupplyOK'
         /\ UNCHANGED <<link, alive, session, due>> => SessionOK'
         /\ UNCHANGED targets => TargetsOK'
         /\ UNCHANGED known => KnownOK'
         /\ UNCHANGED backoff => BackoffOK'
         /\ UNCHANGED cursor => CursorOK'
         /\ UNCHANGED locals => LocalsOK'
         /\ UNCHANGED <<touched, offs, tried, disturbed, events>> => HistoryOK'
<1> USE DEF Sane
<1>1. UNCHANGED supply => SupplyOK'
  BY DEF SupplyOK, supply
<1>2. UNCHANGED <<link, alive, session, due>> => SessionOK'
  BY DEF SessionOK, link, session
<1>3. UNCHANGED targets => TargetsOK'
  BY DEF TargetsOK, targets
<1>4. UNCHANGED known => KnownOK'
  BY DEF KnownOK, known
<1>5. UNCHANGED backoff => BackoffOK'
  BY DEF BackoffOK, backoff
<1>6. UNCHANGED cursor => CursorOK'
  BY DEF CursorOK, cursor
<1>7. UNCHANGED locals => LocalsOK'
  BY DEF LocalsOK, locals
<1>8. UNCHANGED <<touched, offs, tried, disturbed, events>> => HistoryOK'
  BY DEF HistoryOK
<1>9. QED
  BY <1>1, <1>2, <1>3, <1>4, <1>5, <1>6, <1>7, <1>8

(* The targets taken from the supply are complete.                         *)
LEMMA AdoptedType ==
  ASSUME Sane
  PROVE  /\ Adopted \in [Ch -> Target] /\ Adopted \in Targets
         /\ \A c \in Ch : Adopted[c] # NoTarget /\ Adopted[c].set = seen.ch[c].set
<1>1. \A c \in Ch : seen.ch[c].output \in BOOLEAN /\ seen.ch[c].set \in Settings
  BY Basics DEF Sane, LocalsOK
<1>2. Adopted \in [Ch -> Target]
  BY <1>1 DEF Adopted, Target
<1>3. QED
  BY <1>2, NoTargets DEF Targets, Adopted

LEMMA AdoptType ==
  ASSUME Sane, Adopt
  PROVE  /\ desired' \in Targets /\ \A c \in Ch : desired'[c] # NoTarget
         /\ applied' \in [Ch -> [asked : Settings, answered : Held] \cup {NoApplied}]
         /\ down' \in [Ch -> BOOLEAN]
<1>1. \A c \in Ch : seen.ch[c].set \in Settings /\ seen.ch[c].set \in Held
  BY Basics DEF Sane, LocalsOK
<1>2. QED
  BY <1>1, AdoptedType DEF Adopt, Nothing

(* A save keeps the file's type.                                           *)
LEMMA SaveType ==
  ASSUME Sane, NEW h \in BOOLEAN, NEW c \in Ages, NEW d \in Targets, Save(h, c, d)
  PROVE  /\ saved' \in [hold : BOOLEAN, contact : Ages, desired : Targets]
         /\ dirty' \in BOOLEAN /\ sinceSave' \in 0 .. SaveEvery + 1
<1>1. saved' \in [hold : BOOLEAN, contact : Ages, desired : Targets]
  BY DEF Save, Sane, KnownOK
<1>2. QED
  BY <1>1, Times DEF Save

(* Nor do an OFF and the end of an operation break any.                    *)
LEMMA OffType ==
  ASSUME Sane, NEW c, NEW d, ToldOff(c) \/ OffDone(c, d)
  PROVE  offs' \in [Ch -> {"no", "told", "kept"}]
  BY DEF Sane, HistoryOK, ToldOff, OffDone

LEMMA OverType ==
  ASSUME Over
  PROVE  CursorOK' /\ LocalsOK' /\ touched' = {}
<1>1. CursorOK'
  BY Basics DEF Over, Goto, CursorOK, Poll, Kinds, Ops
<1>2. LocalsOK'
  BY Basics DEF Over, LocalsOK, Unseen, Nothing
<1>3. QED
  BY <1>1, <1>2 DEF Over

(* An operation takes the channels one after the other.                    *)
LEMMA Advance ==
  ASSUME Sane, NEW l, NEW next, EachCh(l, next)
  PROVE  /\ at \in Ch /\ at' \in Ch
         /\ \/ at < NumCh /\ pc' = l /\ at' = at + 1
            \/ at = NumCh /\ pc' = next /\ at' = 1
<1>1. at \in Ch /\ (at < NumCh \/ at = NumCh)
  BY SupplyAssumption DEF Sane, CursorOK, Ch
<1>2. at < NumCh => at + 1 \in Ch
  BY <1>1, SupplyAssumption DEF Ch
<1>3. QED
  BY <1>1, <1>2, Basics DEF EachCh, Goto

LEMMA SanePollStart == ASSUME Sane, PollStart PROVE Sane'
<1> USE DEF PollStart, Begin, Goto
<1>1. SupplyOK' /\ TargetsOK' /\ KnownOK' /\ BackoffOK'
  BY Frame
<1>2. SessionOK'
  <2>1. tries' \in [Ch -> 0 .. 3]
    BY DEF Sane, SessionOK, session
  <2>2. openIn' \in 0 .. Reconnect
    BY Times DEF Sane, SessionOK, session
  <2>3. QED
    BY <2>1, <2>2 DEF Sane, SessionOK, session
<1>3. CursorOK' /\ LocalsOK'
  <2>1. CursorOK'
    BY Basics DEF Sane, CursorOK, Poll, Kinds, Ops, cursor
  <2>2. LocalsOK'
    BY Frame DEF locals
  <2>3. QED
    BY <2>1, <2>2
<1>4. HistoryOK'
  BY DEF Sane, HistoryOK
<1>5. OpInv'
  BY DEF Sane, OpInv, Poll, targets, session, cursor
<1>6. QED
  BY <1>1, <1>2, <1>3, <1>4, <1>5 DEF Sane

LEMMA SaneRead == ASSUME Sane, ReadMaster \/ ReadChannel PROVE Sane'
<1>1. /\ SupplyOK' /\ SessionOK' /\ TargetsOK' /\ KnownOK' /\ BackoffOK'
      /\ HistoryOK'
  BY Frame DEF ReadMaster, ReadChannel
<1>2. CASE ReadMaster
  <2>1. CursorOK' /\ LocalsOK'
    BY <1>2, Basics DEF ReadMaster, Goto, Sane, SupplyOK, CursorOK, LocalsOK, Ops
  <2>2. OpInv'
    BY <1>2 DEF ReadMaster, Goto, Sane, OpInv, link, session, targets
  <2>3. QED
    BY <1>1, <2>1, <2>2 DEF Sane
<1>3. CASE ReadChannel
  <2>1. /\ at \in Ch /\ at' \in Ch
        /\ pc' \in {"read", "connected", "change"}
        /\ pc' = "connected" => op.kind = "poll"
        /\ pc' = "change" => op.kind # "poll"
    BY <1>3, Advance DEF ReadChannel
  <2>2. CursorOK'
    BY <1>3, <2>1 DEF ReadChannel, Sane, CursorOK, Ops
  <2>3. LocalsOK'
    BY <1>3, <2>1 DEF ReadChannel, Sane, SupplyOK, LocalsOK, On
  <2>4. OpInv'
    BY <1>3, <2>1 DEF ReadChannel, Sane, OpInv, link, session, targets
  <2>5. QED
    BY <1>1, <2>2, <2>3, <2>4 DEF Sane
<1>4. QED
  BY <1>2, <1>3

LEMMA SaneConnected == ASSUME Sane, OnConnected \/ WatchOnly PROVE Sane'
<1>1. SupplyOK' /\ LocalsOK'
  BY Frame DEF OnConnected, WatchOnly
<1>2. SessionOK'
  BY DEF OnConnected, WatchOnly, Sane, SessionOK, link, session
<1>3. \/ Adopt
      \/ desired' = desired /\ applied' \in {applied, [c \in Ch |-> NoApplied]}
  BY DEF OnConnected, WatchOnly
<1>4. TargetsOK'
  <2>1. hold' = hold
    BY DEF OnConnected, WatchOnly
  <2>2. QED
    BY <1>3, <2>1, AdoptType DEF Sane, TargetsOK
<1>5. KnownOK'
  <2>1. dirty' \in BOOLEAN
    BY DEF OnConnected, WatchOnly, Sane, KnownOK
  <2>2. QED
    BY <2>1 DEF OnConnected, WatchOnly, Sane, KnownOK
<1>6. BackoffOK'
  <2>1. down' = down \/ Adopt
    BY DEF OnConnected, WatchOnly
  <2>2. QED
    BY <2>1, AdoptType DEF OnConnected, WatchOnly, Sane, BackoffOK
<1>7. CursorOK'
  BY Basics DEF OnConnected, WatchOnly, Goto, Sane, CursorOK, Ops
<1>8. HistoryOK'
  BY Times DEF OnConnected, WatchOnly, NoOffs, Sane, HistoryOK
<1>9. OpInv'
  <2>1. CASE OnConnected
    <3>1. \A c \in Ch : desired'[c] # NoTarget
      BY <2>1, AdoptType DEF OnConnected, CarriesOn, Sane, OpInv
    <3>2. QED
      BY <2>1, <3>1 DEF OnConnected, Goto, Sane, OpInv, link
  <2>2. CASE WatchOnly
    <3>1. \A c \in Ch : desired'[c] # NoTarget
      BY <2>2, AdoptType DEF WatchOnly
    <3>2. QED
      BY <2>2, <3>1 DEF WatchOnly, Goto, Sane, OpInv, link, session
  <2>3. QED
    BY <2>1, <2>2
<1>10. QED
  BY <1>1, <1>2, <1>4, <1>5, <1>6, <1>7, <1>8, <1>9 DEF Sane

LEMMA SaneProtections == ASSUME Sane, RemoveAutoOff PROVE Sane'
<1>1. TargetsOK' /\ KnownOK' /\ BackoffOK' /\ HistoryOK'
  BY Frame DEF RemoveAutoOff
<1>2. at \in Ch /\ at' \in Ch /\ pc' \in {"prot", "set", "adopt"}
  BY Advance DEF RemoveAutoOff
<1>3. SupplyOK'
  BY <1>2 DEF RemoveAutoOff, Sane, SupplyOK
<1>4. SessionOK'
  <2> DEFINE n == IF tries[at] >= 3 THEN 3
                  ELSE IF ToRemove(at) = {} THEN 0 ELSE tries[at] + 1
  <2>1. tries[at] \in 0 .. 3
    BY <1>2 DEF Sane, SessionOK
  <2>2. n \in 0 .. 3
    BY <2>1
  <2>3. tries' \in [Ch -> 0 .. 3]
    BY <2>2 DEF RemoveAutoOff, Sane, SessionOK
  <2>4. QED
    BY <2>3 DEF RemoveAutoOff, Sane, SessionOK, link
<1>5. CursorOK'
  BY <1>2 DEF RemoveAutoOff, Sane, CursorOK, Ops
<1>6. LocalsOK'
  <2>1. changed' \in BOOLEAN
    BY DEF RemoveAutoOff, Sane, LocalsOK
  <2>2. QED
    BY <2>1 DEF RemoveAutoOff, Sane, LocalsOK
<1>7. OpInv'
  BY <1>2 DEF RemoveAutoOff, Sane, OpInv, link, targets
<1>8. QED
  BY <1>1, <1>3, <1>4, <1>5, <1>6, <1>7 DEF Sane

LEMMA SaneSetSetpoints == ASSUME Sane, SetSetpoints PROVE Sane'
<1>1. SessionOK' /\ KnownOK' /\ BackoffOK' /\ HistoryOK'
  BY Frame DEF SetSetpoints
<1>2. at \in Ch /\ at' \in Ch /\ pc' \in {"set", "decide"}
  BY Advance DEF SetSetpoints
<1>3. desired[at].set \in Settings
  BY <1>2, NoTargets DEF SetSetpoints, Sane, OpInv, TargetsOK, Targets
<1>4. SupplyOK' /\ TargetsOK'
  BY <1>2, <1>3, Basics DEF SetSetpoints, Sane, SupplyOK, TargetsOK
<1>5. CursorOK' /\ LocalsOK'
  BY <1>2 DEF SetSetpoints, Sane, CursorOK, LocalsOK, Ops
<1>6. OpInv'
  BY <1>2 DEF SetSetpoints, Sane, OpInv, link, session
<1>7. QED
  BY <1>1, <1>4, <1>5, <1>6 DEF Sane

LEMMA SaneDecide == ASSUME Sane, Decide PROVE Sane'
<1>1. /\ SupplyOK' /\ SessionOK' /\ TargetsOK' /\ KnownOK' /\ HistoryOK'
  BY Frame DEF Decide
<1>2. at \in Ch /\ at' \in Ch /\ pc' \in {"decide", "disarm", "finish"}
  <2>1. PICK next \in {"disarm", "finish"} : EachCh("decide", next)
    BY DEF Decide
  <2>2. QED
    BY <2>1, Advance
<1>3. BackoffOK'
  <2> DEFINE next == Smaller(RetryMax, Larger(RetryMin, 2 * delay[at]))
  <2>1. delay[at] \in Nat
    BY <1>2, Times DEF Sane, BackoffOK
  <2>2. next \in 0 .. RetryMax
    BY <2>1, Times DEF Smaller, Larger
  <2>3. down' \in [Ch -> BOOLEAN] /\ upFor' \in [Ch -> 0 .. Stable]
    BY Times DEF Decide, Decided, Sane, BackoffOK, backoff
  <2>4. retryIn' \in [Ch -> 0 .. RetryMax] /\ delay' \in [Ch -> 0 .. RetryMax]
    BY <2>2, Times DEF Decide, Decided, Sane, BackoffOK, backoff
  <2>5. QED
    BY <2>3, <2>4 DEF BackoffOK
<1>4. CursorOK'
  BY <1>2 DEF Decide, Sane, CursorOK, Ops
<1>5. LocalsOK'
  <2>1. desired[at].output \in BOOLEAN
    BY <1>2, NoTargets DEF Decide, Sane, OpInv, TargetsOK, Targets
  <2>2. want' \in [Ch -> BOOLEAN]
    BY <2>1 DEF Decide, Decided, Sane, LocalsOK
  <2>3. QED
    BY <2>2 DEF Decide, Sane, LocalsOK
<1>6. OpInv'
  BY <1>2 DEF Decide, Sane, OpInv, link, session, targets
<1>7. QED
  BY <1>1, <1>3, <1>4, <1>5, <1>6 DEF Sane

LEMMA SaneSwitches == ASSUME Sane, Disarm \/ Arm \/ SwitchMaster PROVE Sane'
<1>1. /\ SessionOK' /\ TargetsOK' /\ KnownOK' /\ BackoffOK'
  BY Frame DEF Disarm, Arm, SwitchMaster, Switched
<1>2. at \in Ch /\ at' \in Ch /\ pc' \in {"disarm", "arm", "master", "finish"}
  <2>1. CASE Disarm \/ Arm
    BY <2>1, Advance DEF Disarm, Arm
  <2>2. CASE SwitchMaster
    BY <2>2, Basics DEF SwitchMaster, Goto, Sane, CursorOK
  <2>3. QED
    BY <2>1, <2>2
<1>3. SupplyOK'
  BY <1>2 DEF Disarm, Arm, SwitchMaster, Switched, Sane, SupplyOK
<1>4. CursorOK' /\ LocalsOK'
  BY <1>2 DEF Disarm, Arm, SwitchMaster, Switched, Sane, CursorOK, LocalsOK, Ops
<1>5. HistoryOK'
  <2>1. tried' \in [Ch -> 0 .. RetryMin]
    BY Times DEF Disarm, Arm, SwitchMaster, Switched, Sane, HistoryOK
  <2>2. QED
    BY <2>1 DEF Disarm, Arm, SwitchMaster, Switched, Sane, HistoryOK
<1>6. OpInv'
  <2>1. /\ pc \in {"disarm", "arm", "master"}
        /\ UNCHANGED <<conn, alive, fresh, desired, op>>
    BY DEF Disarm, Arm, SwitchMaster, Switched, link, session, targets
  <2>2. QED
    BY <1>2, <2>1 DEF Sane, OpInv
<1>7. QED
  BY <1>1, <1>3, <1>4, <1>5, <1>6 DEF Sane

(* The end of an operation, whether it finishes or fails.                  *)
LEMMA SaneEnds == ASSUME Sane, Finish \/ Fails PROVE Sane'
<1>1. /\ SupplyOK' /\ TargetsOK'
  BY Frame DEF Finish, Fails
<1>2. SessionOK'
  BY Times DEF Finish, Fails, Sane, SessionOK, link, session
<1>3. KnownOK'
  <2>1. /\ hold \in BOOLEAN /\ desired \in Targets /\ contact \in Ages /\ 0 \in Ages
    BY Times DEF Sane, TargetsOK, KnownOK
  <2>2. CASE Finish
    <3>1. contact' = 0 /\ (Save(hold, 0, desired) \/ UNCHANGED <<dirty, sinceSave, saved>>)
      BY <2>2 DEF Finish
    <3>2. QED
      BY <2>1, <3>1, SaveType DEF Sane, KnownOK
  <2>3. CASE Fails
    <3>1. /\ contact' \in Ages
          /\ Save(hold, contact', desired) \/ UNCHANGED <<dirty, sinceSave, saved>>
      BY <2>1, <2>3 DEF Fails
    <3>2. QED
      BY <2>1, <3>1, SaveType DEF Sane, KnownOK
  <2>4. QED
    BY <2>2, <2>3
<1>4. BackoffOK'
  <2>1. CASE Finish
    BY <2>1, Frame DEF Finish
  <2>2. CASE Fails
    BY <2>2, Times DEF Fails, Sane, BackoffOK
  <2>3. QED
    BY <2>1, <2>2
<1>5. CursorOK' /\ LocalsOK' /\ touched' = {}
  BY OverType DEF Finish, Fails
<1>6. HistoryOK'
  <2>1. offs' \in [Ch -> {"no", "told", "kept"}]
    BY OffType DEF Finish, Fails, Sane, HistoryOK
  <2>2. QED
    BY <1>5, <2>1 DEF Finish, Fails, Sane, HistoryOK
<1>7. OpInv'
  <2>1. pc' = "idle" /\ op' = Poll
    BY DEF Finish, Fails, Over, Goto
  <2>2. CASE Finish
    BY <2>1, <2>2 DEF Finish, Poll, Sane, OpInv, link, session, targets
  <2>3. CASE Fails
    BY <2>1, <2>3 DEF Fails, Poll, Sane, OpInv
  <2>4. QED
    BY <2>2, <2>3
<1>8. QED
  BY <1>1, <1>2, <1>3, <1>4, <1>5, <1>6, <1>7 DEF Sane

(* A command has been carried into the targets.                            *)
LEMMA SaneChange == ASSUME Sane, Change PROVE Sane'
<1>1. SupplyOK' /\ SessionOK' /\ LocalsOK'
  BY Frame DEF Change
<1> DEFINE level == IF hold THEN desired ELSE Adopted
           old   == level[op.ch]
           new   == IF op.kind = "set" THEN [old EXCEPT !.set = op.val]
                                       ELSE [old EXCEPT !.output = (op.kind = "on")]
<1>2. op.ch \in Ch /\ (op.kind = "set" => op.val \in Settings)
  BY DEF Change, Sane, CursorOK, Kinds, OpInv
<1>3. \A c \in Ch : level[c] \in Target
  <2>1. \A c \in Ch : desired[c] # NoTarget
    BY DEF Change, Sane, OpInv
  <2>2. QED
    BY <2>1, AdoptedType DEF Sane, TargetsOK, Targets
<1>4. level \in Targets /\ new \in Target
  <2>1. old \in Target
    BY <1>2, <1>3
  <2>2. new \in Target
    BY <1>2, <2>1 DEF Target
  <2>3. QED
    BY <2>2, AdoptedType DEF Sane, TargetsOK
<1>5. desired' = [level EXCEPT ![op.ch] = new]
  BY DEF Change
<1>6. desired' \in Targets /\ \A c \in Ch : desired'[c] # NoTarget
  <2>1. \A c \in Ch : desired'[c] \in Target
    BY <1>3, <1>4, <1>5 DEF Targets
  <2>2. QED
    BY <1>4, <1>5, <2>1, NoTargets DEF Targets
<1>7. TargetsOK'
  <2>1. \A c \in Ch : seen.ch[c].set \in Settings /\ seen.ch[c].set \in Held
    BY Basics DEF Sane, LocalsOK
  <2>2. applied' \in [Ch -> [asked : Settings, answered : Held] \cup {NoApplied}]
    BY <2>1 DEF Change, Sane, TargetsOK
  <2>3. QED
    BY <1>6, <2>2 DEF Change, Sane, TargetsOK
<1>8. KnownOK' /\ BackoffOK'
  BY DEF Change, Nothing, Sane, KnownOK, BackoffOK
<1>9. CursorOK'
  BY Basics DEF Change, Goto, Sane, CursorOK, Ops
<1>10. HistoryOK'
  <2>1. tried' \in [Ch -> 0 .. RetryMin]
    BY Times DEF Change, Sane, HistoryOK
  <2>2. offs' \in [Ch -> {"no", "told", "kept"}]
    BY DEF Change, NoOffs, Sane, HistoryOK
  <2>3. QED
    BY <2>1, <2>2 DEF Change, Sane, HistoryOK
<1>11. OpInv'
  BY <1>6 DEF Change, Goto, Sane, OpInv, link, session
<1>12. QED
  BY <1>1, <1>7, <1>8, <1>9, <1>10, <1>11 DEF Sane

LEMMA SaneHoldNow == ASSUME Sane, HoldNow PROVE Sane'
<1>1. SupplyOK' /\ SessionOK'
  BY Frame DEF HoldNow
<1>2. TargetsOK' /\ BackoffOK' /\ \A c \in Ch : desired'[c] # NoTarget
  BY AdoptType DEF HoldNow, Sane, TargetsOK, BackoffOK
<1>3. KnownOK'
  <2>1. contact' \in Ages /\ hold \in BOOLEAN /\ desired' \in Targets
    BY <1>2, Times DEF HoldNow, Sane, KnownOK, TargetsOK
  <2>2. QED
    BY <2>1, SaveType DEF HoldNow, Sane, KnownOK
<1>4. CursorOK' /\ LocalsOK' /\ HistoryOK'
  BY OverType DEF HoldNow, Sane, HistoryOK
<1>5. OpInv'
  BY <1>2 DEF HoldNow, Over, Goto, Poll, Sane, OpInv, link, session
<1>6. QED
  BY <1>1, <1>2, <1>3, <1>4, <1>5 DEF Sane

(* A command begins: it has a channel, and a setting if it sets one.       *)
LEMMA SaneBegins ==
  ASSUME Sane, pc = "idle",
         NEW o \in [kind : Kinds \ {"poll"}, ch : 0 .. NumCh, val : Settings \cup {0}],
         o.kind \in {"on", "off", "set"} => o.ch \in Ch,
         o.kind = "set" => o.val \in Settings,
         CommandBegins(o)
  PROVE  /\ SupplyOK' /\ SessionOK' /\ KnownOK' /\ BackoffOK' /\ CursorOK'
         /\ LocalsOK' /\ touched' = {} /\ OpInv'
         /\ UNCHANGED <<desired, applied>>
<1>1. SupplyOK' /\ SessionOK' /\ KnownOK' /\ BackoffOK' /\ LocalsOK'
  BY Frame DEF CommandBegins, Begin
<1>2. CursorOK'
  BY Basics DEF CommandBegins, Begin, Goto, CursorOK, Kinds, Ops
<1>3. OpInv'
  BY DEF CommandBegins, Begin, Goto, Sane, OpInv, link, session
<1>4. QED
  BY <1>1, <1>2, <1>3 DEF CommandBegins, Begin

LEMMA SaneEvent == ASSUME Sane, Event PROVE events' \in 0 .. MaxEvents
  BY Times DEF Event, Sane, HistoryOK

LEMMA SaneOutput ==
  ASSUME Sane, NEW c \in Ch, NEW on \in BOOLEAN, OnOutput(c, on) PROVE Sane'
<1>1. touched' \in SUBSET Ch => HistoryOK'
  <2>1. offs' \in [Ch -> {"no", "told", "kept"}]
    BY OffType DEF OnOutput, Sane, HistoryOK
  <2>2. QED
    BY <2>1, SaneEvent DEF OnOutput, Sane, HistoryOK
<1> DEFINE o == [kind |-> IF on THEN "on" ELSE "off", ch |-> c, val |-> 0]
<1>2. CASE CommandBegins(o)
  <2>1. /\ o \in [kind : Kinds \ {"poll"}, ch : 0 .. NumCh, val : Settings \cup {0}]
        /\ o.kind \in {"on", "off"} /\ o.ch = c
    BY SupplyAssumption DEF Kinds, Ch
  <2>2. /\ SupplyOK' /\ SessionOK' /\ KnownOK' /\ BackoffOK' /\ CursorOK'
        /\ LocalsOK' /\ touched' = {} /\ OpInv'
        /\ UNCHANGED <<desired, applied>>
    BY <1>2, <2>1, SaneBegins DEF OnOutput
  <2>3. TargetsOK'
    BY <2>2 DEF OnOutput, Sane, TargetsOK
  <2>4. QED
    BY <1>1, <2>2, <2>3 DEF Sane
<1>3. CASE ~CommandBegins(o)
  <2>1. /\ conn = "none"
        /\ UNCHANGED <<supply, link, alive, session, applied, contact, backoff,
                       due, cursor, locals, touched, hold>>
        /\ \/ UNCHANGED <<desired, dirty, sinceSave, saved>>
           \/ /\ desired[c].output
              /\ desired' = [desired EXCEPT ![c].output = FALSE]
              /\ Save(hold, contact, desired')
    BY <1>3 DEF OnOutput
  <2>2. SupplyOK' /\ SessionOK' /\ BackoffOK' /\ CursorOK' /\ LocalsOK'
    BY <2>1, Frame
  <2>3. desired' \in Targets
    <3>1. desired[c].output => desired[c] \in Target
      BY DEF Sane, TargetsOK, Targets, NoTarget
    <3>2. desired[c] \in Target => [desired[c] EXCEPT !.output = FALSE] \in Target
      BY DEF Target
    <3>3. QED
      BY <2>1, <3>1, <3>2 DEF Sane, TargetsOK, Targets
  <2>4. TargetsOK'
    BY <2>1, <2>3 DEF Sane, TargetsOK
  <2>5. KnownOK'
    BY <2>1, <2>3, SaveType DEF Sane, TargetsOK, KnownOK
  <2>6. OpInv'
    BY <2>1 DEF Sane, OpInv, link, session, cursor
  <2>7. HistoryOK'
    BY <1>1, <2>1 DEF Sane, HistoryOK
  <2>8. QED
    BY <2>2, <2>4, <2>5, <2>6, <2>7 DEF Sane
<1>4. QED
  BY <1>2, <1>3

LEMMA SaneSetpoint ==
  ASSUME Sane, NEW c \in Ch, NEW s \in Settings, OnSetpoint(c, s) PROVE Sane'
<1> DEFINE o == [kind |-> "set", ch |-> c, val |-> s]
<1>1. o \in [kind : Kinds \ {"poll"}, ch : 0 .. NumCh, val : Settings \cup {0}]
  BY SupplyAssumption DEF Kinds, Ch
<1>2. /\ SupplyOK' /\ SessionOK' /\ KnownOK' /\ BackoffOK' /\ CursorOK'
      /\ LocalsOK' /\ touched' = {} /\ OpInv'
      /\ UNCHANGED <<desired, applied>>
  BY <1>1, SaneBegins DEF OnSetpoint
<1>3. TargetsOK' /\ HistoryOK'
  BY <1>2, SaneEvent DEF OnSetpoint, Sane, TargetsOK, HistoryOK
<1>4. QED
  BY <1>2, <1>3 DEF Sane

LEMMA SaneHold == ASSUME Sane, NEW b \in BOOLEAN, OnHold(b) PROVE Sane'
<1>1. touched' \in SUBSET Ch => HistoryOK'
  BY SaneEvent, Times DEF OnHold, NoOffs, Sane, HistoryOK
<1> DEFINE o == [kind |-> "hold", ch |-> 0, val |-> 0]
<1>2. CASE CommandBegins(o)
  <2>1. o \in [kind : Kinds \ {"poll"}, ch : 0 .. NumCh, val : Settings \cup {0}]
    BY SupplyAssumption DEF Kinds
  <2>2. /\ SupplyOK' /\ SessionOK' /\ KnownOK' /\ BackoffOK' /\ CursorOK'
        /\ LocalsOK' /\ touched' = {} /\ OpInv'
        /\ UNCHANGED <<desired, applied>>
    BY <1>2, <2>1, SaneBegins DEF OnHold
  <2>3. TargetsOK'
    BY <2>2 DEF OnHold, Sane, TargetsOK
  <2>4. QED
    BY <1>1, <2>2, <2>3 DEF Sane
<1>3. CASE ~CommandBegins(o)
  <2>1. /\ b => conn = "none"
        /\ desired' = (IF b THEN [c \in Ch |-> NoTarget] ELSE desired)
        /\ contact' = (IF contact = NoContact THEN 0 ELSE contact)
        /\ Save(b, contact', desired')
        /\ UNCHANGED <<supply, link, alive, session, applied, backoff, due,
                       cursor, locals, touched>>
    BY <1>3 DEF OnHold
  <2>2. SupplyOK' /\ SessionOK' /\ BackoffOK' /\ CursorOK' /\ LocalsOK'
    BY <2>1, Frame
  <2>3. desired' \in Targets /\ contact' \in Ages
    BY <2>1, Times DEF Sane, TargetsOK, KnownOK, Targets
  <2>4. TargetsOK' /\ KnownOK'
    BY <2>1, <2>3, SaveType DEF OnHold, Sane, TargetsOK, KnownOK
  <2>5. OpInv'
    BY <2>1 DEF OnHold, Sane, OpInv, link, session, cursor
  <2>6. HistoryOK'
    BY <1>1, <2>1 DEF Sane, HistoryOK
  <2>7. QED
    BY <2>2, <2>4, <2>5, <2>6 DEF Sane
<1>4. QED
  BY <1>2, <1>3

(* The supply's own changes touch only its state and the link.             *)
LEMMA SaneDisturbs ==
  ASSUME Sane, NEW cs \in SUBSET Ch, Disturbs(cs), SupplyOK', events' \in 0 .. MaxEvents,
         usb' \in BOOLEAN, conn' \in {"none", "up", "broken"},
         conn' = "none" <=> conn = "none"
  PROVE  Sane'
<1>1. /\ TargetsOK' /\ KnownOK' /\ BackoffOK' /\ CursorOK' /\ LocalsOK'
  BY Frame DEF Disturbs
<1>2. SessionOK' /\ HistoryOK'
  BY DEF Disturbs, Sane, SessionOK, HistoryOK, session
<1>3. OpInv'
  BY DEF Disturbs, Sane, OpInv, session, targets, cursor
<1>4. QED
  BY <1>1, <1>2, <1>3 DEF Sane

LEMMA SaneOutside == ASSUME Sane, Panel \/ Outage PROVE Sane'
<1> USE SaneEvent, SaneDisturbs DEF link
<1>1. CASE PressOutput
  <2>1. SupplyOK'
    BY <1>1 DEF PressOutput, Sane, SupplyOK
  <2>2. QED
    BY <1>1, <2>1 DEF PressOutput, Sane, SessionOK
<1>2. ASSUME NEW c \in Ch, PressChannel(c) \/ Trip(c) PROVE Sane'
  <2>1. SupplyOK' /\ {c} \in SUBSET Ch
    BY <1>2 DEF PressChannel, Trip, Sane, SupplyOK
  <2>2. QED
    BY <1>2, <2>1 DEF PressChannel, Trip, Sane, SessionOK, HistoryOK
<1>3. ASSUME NEW c \in Ch, NEW s \in Held, TurnKnob(c, s) PROVE Sane'
  <2>1. SupplyOK' /\ {c} \in SUBSET Ch
    BY <1>3 DEF TurnKnob, Sane, SupplyOK
  <2>2. QED
    BY <1>3, <2>1 DEF TurnKnob, Sane, SessionOK
<1>4. CASE UsbLost
  <2>1. SupplyOK' /\ {} \in SUBSET Ch
    BY <1>4 DEF UsbLost, Sane, SupplyOK
  <2>2. QED
    BY <1>4, <2>1 DEF UsbLost, Breaks, Sane, SessionOK
<1>5. CASE PowerCut
  <2>1. SupplyOK'
    BY <1>5, Basics DEF PowerCut, Nothing, SupplyOK
  <2>2. QED
    BY <1>5, <2>1 DEF PowerCut, Breaks, Sane, SessionOK
<1>6. CASE UsbBack
  <2>1. SupplyOK' /\ {} \in SUBSET Ch
    BY <1>6, Frame DEF UsbBack
  <2>2. QED
    BY <1>6, <2>1 DEF UsbBack, Sane, SessionOK, HistoryOK
<1>7. QED
  BY <1>1, <1>2, <1>3, <1>4, <1>5, <1>6 DEF Panel, Outage

(* A process that ends leaves nothing but its file.                        *)
LEMMA SaneGone ==
  ASSUME Sane, Gone, events' \in 0 .. MaxEvents,
         saved' \in [hold : BOOLEAN, contact : Ages, desired : Targets]
  PROVE  Sane'
<1>1. SupplyOK'
  BY Frame DEF Gone
<1>2. SessionOK'
  <2>1. tries' \in [Ch -> 0 .. 3]
    BY DEF Gone
  <2>2. QED
    BY <2>1, Times DEF Gone, Sane, SessionOK
<1>3. TargetsOK' /\ KnownOK'
  <2>1. desired' \in Targets
    BY DEF Gone, Targets
  <2>2. QED
    BY <2>1, Times DEF Gone, TargetsOK, KnownOK
<1>4. BackoffOK'
  BY Times DEF Gone, Nothing, BackoffOK
<1>5. CursorOK' /\ LocalsOK' /\ touched' = {}
  BY OverType DEF Gone
<1>6. HistoryOK'
  BY <1>5, Times DEF Gone, Sane, HistoryOK
<1>7. OpInv'
  BY DEF Gone, Over, Goto, Poll, OpInv
<1>8. QED
  BY <1>1, <1>2, <1>3, <1>4, <1>5, <1>6, <1>7 DEF Sane

LEMMA SaneProcess == ASSUME Sane, Crash \/ Stop \/ Start PROVE Sane'
<1>1. CASE Crash
  BY <1>1, SaneEvent, SaneGone DEF Crash, Sane, KnownOK
<1>2. CASE Stop
  <2>1. saved' \in [hold : BOOLEAN, contact : Ages, desired : Targets]
    BY <1>2 DEF Stop, Sane, KnownOK, TargetsOK
  <2>2. QED
    BY <1>2, <2>1, SaneEvent, SaneGone DEF Stop
<1>3. CASE Start
  <2>1. /\ SupplyOK' /\ BackoffOK' /\ CursorOK' /\ LocalsOK' /\ HistoryOK'
    BY <1>3, Frame DEF Start
  <2>2. SessionOK' /\ TargetsOK' /\ KnownOK'
    BY <1>3 DEF Start, Sane, SessionOK, TargetsOK, KnownOK, link, session
  <2>3. OpInv'
    BY <1>3 DEF Start, Sane, OpInv, link, session, cursor
  <2>4. QED
    BY <2>1, <2>2, <2>3 DEF Sane
<1>4. QED
  BY <1>1, <1>2, <1>3

LEMMA OlderType == ASSUME NEW c \in Ages PROVE Older(c) \in Ages
  BY Times DEF Older, Ages, Smaller, NoContact

LEMMA SaneTick == ASSUME Sane, Tick PROVE Sane'
<1>1. SupplyOK' /\ TargetsOK' /\ CursorOK' /\ LocalsOK'
  BY Frame DEF Tick
<1>2. SessionOK'
  <2>1. openIn' \in 0 .. Reconnect
    BY Times DEF Tick, Larger, Sane, SessionOK
  <2>2. QED
    BY <2>1 DEF Tick, Sane, SessionOK, link
<1>3. KnownOK'
  <2>1. sinceSave' \in 0 .. SaveEvery + 1
    BY Times DEF Tick, Smaller, Sane, KnownOK
  <2>2. contact' \in Ages /\ saved' \in [hold : BOOLEAN, contact : Ages, desired : Targets]
    BY OlderType DEF Tick, Sane, KnownOK
  <2>3. QED
    BY <2>1, <2>2 DEF Tick, Sane, KnownOK
<1>4. BackoffOK'
  <2>1. \A n \in 0 .. RetryMax : Larger(0, n - 1) \in 0 .. RetryMax
    BY Times DEF Larger
  <2>2. \A n \in 0 .. Stable : Smaller(Stable, n + 1) \in 0 .. Stable
    BY Times DEF Smaller
  <2>3. retryIn' \in [Ch -> 0 .. RetryMax]
    BY <2>1 DEF Tick, Sane, BackoffOK
  <2>4. upFor' \in [Ch -> 0 .. Stable]
    BY <2>2 DEF Tick, Sane, BackoffOK
  <2>5. QED
    BY <2>3, <2>4 DEF Tick, Sane, BackoffOK
<1>5. HistoryOK'
  <2>1. \A n \in 0 .. RetryMin : Smaller(RetryMin, n + 1) \in 0 .. RetryMin
    BY Times DEF Smaller
  <2>2. tried' \in [Ch -> 0 .. RetryMin]
    BY <2>1 DEF Tick, Sane, HistoryOK
  <2>3. QED
    BY <2>2 DEF Tick, Sane, HistoryOK
<1>6. OpInv'
  BY DEF Tick, Sane, OpInv, link, targets, cursor
<1>7. QED
  BY <1>1, <1>2, <1>3, <1>4, <1>5, <1>6 DEF Sane

LEMMA SaneNext == ASSUME Sane, [Next]_vars PROVE Sane'
<1>1. CASE OpStep
  BY <1>1, SanePollStart, SaneRead, SaneConnected, SaneProtections, SaneChange,
     SaneHoldNow, SaneSetSetpoints, SaneDecide, SaneSwitches, SaneEnds DEF OpStep
<1>2. CASE Command
  BY <1>2, SaneOutput, SaneSetpoint, SaneHold DEF Command
<1>3. CASE UNCHANGED vars
  <2>1. OpInv'
    BY <1>3 DEF vars, link, session, targets, cursor, Sane, OpInv
  <2>2. QED
    BY <1>3, <2>1, Frame DEF vars, Sane
<1>4. QED
  BY <1>1, <1>2, <1>3, SaneOutside, SaneProcess, SaneTick DEF Next

LEMMA SaneAlways == Spec => []Sane
  BY SaneInit, SaneNext, PTL DEF Spec

(* Type correctness of the driver, and that an operation which carries out *)
(* targets finds one for every channel, whatever the supply, its operators *)
(* and the process do in between.  (nge.py _in_sync, _enforce, _command.)  *)
THEOREM TypeCorrect == Spec => []TypeOK
<1>1. Sane => TypeOK
  BY DEF Sane, OpInv, TypeOK
<1>2. QED
  BY <1>1, SaneAlways, PTL
-----------------------------------------------------------------------------
(* Who makes a channel deliver power: of the driver's steps only the last  *)
(* two of set_outputs, and all others than the driver do not move it on.   *)
LEMMA OnlySwitches ==
  ASSUME Sane, [Next]_vars, NEW c \in Ch, SwitchesOn(c)
  PROVE  Arm \/ SwitchMaster
<1> SUFFICES ASSUME ~Arm, ~SwitchMaster
             PROVE  (On(c)' => On(c)) \/ UNCHANGED <<pc, at>>
  BY DEF SwitchesOn
<1>1. ASSUME UNCHANGED <<armed, master>> PROVE On(c)' => On(c)
  BY <1>1 DEF On
<1>2. CASE OpStep
  <2>1. CASE Disarm
    BY <2>1 DEF Disarm, On, Sane, SupplyOK
  <2>2. CASE ~Disarm
    BY <1>1, <1>2, <2>2 DEF OpStep, PollStart, ReadMaster, ReadChannel, OnConnected,
       RemoveAutoOff, WatchOnly, Change, HoldNow, SetSetpoints, Decide, Finish,
       Fails, supply
  <2>3. QED
    BY <2>1, <2>2
<1>3. CASE Command
  <2>1. UNCHANGED supply
    BY <1>3 DEF Command, OnOutput, OnSetpoint, OnHold, CommandBegins
  <2>2. QED
    BY <1>1, <2>1 DEF supply
<1>4. CASE Panel \/ Outage
  <2>1. UNCHANGED cursor
    BY <1>4 DEF Panel, Outage, PressOutput, PressChannel, Trip, TurnKnob, UsbLost,
       PowerCut, UsbBack, Disturbs
  <2>2. QED
    BY <2>1 DEF cursor
<1>5. CASE Crash \/ Stop \/ Start \/ Tick
  BY <1>1, <1>5 DEF Crash, Stop, Gone, Start, Tick, supply
<1>6. CASE UNCHANGED vars
  BY <1>6 DEF vars, cursor
<1>7. QED
  BY <1>2, <1>3, <1>4, <1>5, <1>6 DEF Next

(* The channel switched on is wanted on, and if the master wakes it it was *)
(* armed.                                                                  *)
LEMMA SwitchesWanted ==
  ASSUME Sane, ArmInv, [Next]_vars, NEW c \in Ch, SwitchesOn(c)
  PROVE  /\ pc \in {"arm", "master"} /\ want[c]
         /\ c \notin touched /\ UNCHANGED <<setting, desired, offs>>
<1>1. CASE Arm
  <2>1. want[c]
    BY <1>1 DEF Arm, SwitchesOn, On, Sane, SupplyOK
  <2>2. QED
    BY <1>1, <2>1 DEF Arm, Switched, SwitchesOn, targets
<1>2. CASE SwitchMaster
  <2>1. armed[c] /\ c \notin touched
    BY <1>2 DEF SwitchMaster, SwitchesOn, On
  <2>2. want[c]
    BY <1>2, <2>1 DEF SwitchMaster, ArmInv, Disarmed
  <2>3. QED
    BY <1>2, <2>1, <2>2 DEF SwitchMaster, Switched, targets
<1>3. QED
  BY <1>1, <1>2, OnlySwitches

(* Where an operation decides on switches and makes them; most steps leave *)
(* it elsewhere.                                                           *)
Switching == {"decide", "disarm", "arm", "master"}

LEMMA OutsideSwitching ==
  ASSUME Sane, Command \/ Crash \/ Stop \/ Start \/ Tick
  PROVE  pc' \in {"idle", "gen"}
<1>1. CASE Command
  BY <1>1 DEF Command, OnOutput, OnSetpoint, OnHold, CommandBegins, Begin, Goto, cursor
<1>2. CASE Crash \/ Stop
  BY <1>2 DEF Crash, Stop, Gone, Over, Goto
<1>3. CASE Start \/ Tick
  BY <1>3 DEF Start, Tick, cursor, Sane, OpInv
<1>4. QED
  BY <1>1, <1>2, <1>3

LEMMA BeforeSwitching ==
  ASSUME Sane, PollStart \/ ReadMaster \/ ReadChannel \/ OnConnected \/ RemoveAutoOff
                 \/ WatchOnly \/ Change \/ HoldNow \/ SwitchMaster \/ Finish \/ Fails
  PROVE  pc' \notin Switching
<1>1. CASE ReadChannel \/ RemoveAutoOff
  BY <1>1 DEF ReadChannel, RemoveAutoOff, EachCh, Goto, Switching
<1>2. CASE PollStart
  BY <1>2 DEF PollStart, Begin, Goto, cursor, Switching
<1>3. CASE ReadMaster \/ OnConnected \/ WatchOnly \/ Change \/ SwitchMaster
  BY <1>3 DEF ReadMaster, OnConnected, WatchOnly, Change, SwitchMaster, Goto, Switching
<1>4. CASE HoldNow \/ Finish \/ Fails
  BY <1>4 DEF HoldNow, Finish, Fails, Over, Goto, Switching
<1>5. QED
  BY <1>1, <1>2, <1>3, <1>4

LEMMA WantStep == ASSUME Sane, WantInv, ArmInv, [Next]_vars PROVE WantInv' /\ ArmInv'
<1>1. ASSUME pc' \notin Switching PROVE WantInv' /\ ArmInv'
  BY <1>1 DEF WantInv, ArmInv, WantKnown, Disarmed, Switching
<1>2. CASE SetSetpoints
  <2>1. pc' = "set" \/ (pc' = "decide" /\ at' = 1)
    BY <1>2, Advance DEF SetSetpoints
  <2>2. QED
    BY <2>1, Basics DEF WantInv, ArmInv, WantKnown, Disarmed, Ch
<1>3. CASE Decide
  <2>1. PICK next \in {"disarm", "finish"} : EachCh("decide", next)
    BY <1>3 DEF Decide
  <2>2. /\ at \in Ch
        /\ (pc' = "decide" /\ at' = at + 1)
             \/ (at = NumCh /\ pc' \in {"disarm", "finish"} /\ at' = 1)
    BY <2>1, Advance
  <2>3. \A c \in Ch : WantKnown(c)' => c < at \/ c = at
    BY <2>2, Basics DEF WantKnown, Ch
  <2>4. /\ \A c \in Ch : want'[c] => (c # at /\ want[c]) \/ desired[c].output
        /\ desired' = desired
    BY <1>3 DEF Decide, Decided, targets, Sane, LocalsOK
  <2>5. WantInv'
    BY <1>3, <2>3, <2>4 DEF WantInv, WantKnown, Decide
  <2>6. ArmInv'
    BY <2>2, Basics DEF ArmInv, Disarmed, Ch
  <2>7. QED
    BY <2>5, <2>6
<1>4. CASE Disarm \/ Arm
  <2>1. /\ UNCHANGED <<want, desired, touched>>
        /\ pc \in {"disarm", "arm"} /\ pc' \in {"disarm", "arm", "master"}
    BY <1>4, Advance DEF Disarm, Arm, Switched, targets
  <2>2. WantInv'
    BY <2>1 DEF WantInv, WantKnown
  <2>3. CASE Disarm
    <3>1. /\ at \in Ch
          /\ (pc' = "disarm" /\ at' = at + 1) \/ (at = NumCh /\ pc' = "arm")
      BY <2>3, Advance DEF Disarm
    <3>2. \A c \in Ch : Disarmed(c)' => c = at \/ Disarmed(c)
      BY <2>3, <3>1, Basics DEF Disarm, Disarmed, Ch
    <3>3. \A c \in Ch : armed'[c] => armed[c] /\ (c = at => want[c])
      BY <2>3 DEF Disarm, Sane, SupplyOK
    <3>4. QED
      BY <2>1, <2>2, <3>2, <3>3 DEF ArmInv
  <2>4. CASE Arm
    <3>1. \A c \in Ch : armed'[c] => armed[c] \/ want[c]
      BY <2>4 DEF Arm, Sane, SupplyOK
    <3>2. QED
      BY <2>1, <2>2, <2>4, <3>1 DEF Arm, ArmInv, Disarmed
  <2>5. QED
    BY <1>4, <2>3, <2>4
<1>5. CASE Panel \/ Outage
  <2>1. /\ UNCHANGED <<pc, at, want, desired>>
        /\ pc # "idle" => touched \subseteq touched'
        /\ pc # "idle" => \A c \in Ch \ touched' : armed'[c] => armed[c]
    BY <1>5 DEF Panel, Outage, PressOutput, PressChannel, Trip, TurnKnob, UsbLost,
       PowerCut, UsbBack, Disturbs, cursor, locals, targets, supply, Nothing,
       Sane, SupplyOK
  <2>2. QED
    BY <2>1 DEF WantInv, ArmInv, WantKnown, Disarmed
<1>6. CASE UNCHANGED vars
  BY <1>6 DEF vars, cursor, locals, targets, supply, WantInv, ArmInv, WantKnown, Disarmed
<1>7. QED
  BY <1>1, <1>2, <1>3, <1>4, <1>5, <1>6, OutsideSwitching, BeforeSwitching
     DEF Next, OpStep, Switching

(* Nothing comes on unasked: of the channels nobody touches, the driver    *)
(* only switches on those whose target is on, whoever armed them before    *)
(* and wherever an operation breaks off, for any number of channels.       *)
(* (nge.py set_outputs.)                                                   *)
THEOREM OnlyAsked == Spec => NothingUnasked
<1>1. Init => WantInv /\ ArmInv
  BY DEF Init, WantInv, ArmInv, WantKnown, Disarmed
<1>2. Sane /\ WantInv /\ ArmInv /\ [Next]_vars
        => [\A c \in Ch : SwitchesOn(c) => desired[c].output]_vars
  BY SwitchesWanted DEF WantInv, WantKnown
<1>3. QED
  BY <1>1, <1>2, WantStep, SaneAlways, PTL DEF Spec, NothingUnasked
-----------------------------------------------------------------------------
(* Setpoints before outputs: what the supply answered is remembered, what  *)
(* was read is still there, and what was to be set has been set.           *)

LEMMA AppliedStep == ASSUME Sane, AppliedInv, [Next]_vars PROVE AppliedInv'
<1>1. CASE UNCHANGED applied
  BY <1>1 DEF AppliedInv
<1>2. \A c \in Ch : seen.ch[c].set \in Held
  BY DEF Sane, LocalsOK
<1>3. CASE applied' = [c \in Ch |-> [asked |-> seen.ch[c].set,
                                     answered |-> seen.ch[c].set]]
  BY <1>2, <1>3, Basics DEF AppliedInv
<1>4. CASE applied' = [c \in Ch |-> NoApplied]
  BY <1>4 DEF AppliedInv
<1>5. CASE SetSetpoints
  <2>1. ASSUME NEW c \in Ch, c # at PROVE applied'[c] = applied[c]
    BY <1>5, <2>1 DEF SetSetpoints, Sane, TargetsOK
  <2>2. at \in Ch => \/ applied'[at] = applied[at]
                     \/ applied'[at].answered = Answer[applied'[at].asked]
    BY <1>5 DEF SetSetpoints, Sane, TargetsOK
  <2>3. QED
    BY <2>1, <2>2 DEF AppliedInv
<1>6. CASE OpStep
  BY <1>1, <1>3, <1>4, <1>5, <1>6 DEF OpStep, PollStart, ReadMaster, ReadChannel,
     OnConnected, RemoveAutoOff, WatchOnly, Adopt, Change, HoldNow, Decide, Disarm,
     Arm, SwitchMaster, Switched, Finish, Fails, targets
<1>7. CASE Command
  BY <1>1, <1>7 DEF Command, OnOutput, OnSetpoint, OnHold, CommandBegins
<1>8. CASE Panel \/ Outage
  BY <1>1, <1>8 DEF Panel, Outage, PressOutput, PressChannel, Trip, TurnKnob, UsbLost,
     PowerCut, UsbBack, Disturbs, targets
<1>9. CASE Crash \/ Stop \/ Start \/ Tick
  BY <1>1, <1>4, <1>9 DEF Crash, Stop, Gone, Start, Tick, targets
<1>10. CASE UNCHANGED vars
  BY <1>1, <1>10 DEF vars, targets
<1>11. QED
  BY <1>6, <1>7, <1>8, <1>9, <1>10 DEF Next

(* The reading part of an operation.                                       *)
LEMMA ReadStep ==
  ASSUME Sane, ReadInv, SetInv,
         PollStart \/ ReadMaster \/ ReadChannel \/ OnConnected \/ RemoveAutoOff
           \/ WatchOnly \/ Change \/ HoldNow \/ Finish \/ Fails
  PROVE  ReadInv' /\ SetInv'
<1>1. ASSUME pc' \in {"idle", "gen", "finish"} PROVE ReadInv' /\ SetInv'
  BY <1>1 DEF ReadInv, SetInv, AsRead, AsSet
<1>2. CASE PollStart
  BY <1>1, <1>2 DEF PollStart, Begin, Goto, cursor
<1>3. CASE WatchOnly \/ HoldNow \/ Finish \/ Fails
  BY <1>1, <1>3 DEF WatchOnly, HoldNow, Finish, Fails, Over, Goto
<1>4. CASE ReadMaster
  BY <1>4, Basics DEF ReadMaster, Goto, ReadInv, SetInv, AsRead, AsSet, Ch
<1>5. CASE ReadChannel
  <2>1. /\ at \in Ch
        /\ (pc' = "read" /\ at' = at + 1)
             \/ (at = NumCh /\ pc' \in {"connected", "change"})
    BY <1>5, Advance DEF ReadChannel
  <2>2. \A c \in Ch : AsRead(c)' => c = at \/ AsRead(c)
    BY <1>5, <2>1, Basics DEF ReadChannel, AsRead, Ch
  <2>3. /\ UNCHANGED <<touched, setting>>
        /\ \A c \in Ch : seen'.ch[c].set = IF c = at THEN setting[c] ELSE seen.ch[c].set
    BY <1>5 DEF ReadChannel, supply, Sane, LocalsOK
  <2>4. ReadInv'
    BY <2>2, <2>3 DEF ReadInv
  <2>5. QED
    BY <2>1, <2>4 DEF SetInv, AsSet
<1>6. CASE OnConnected \/ RemoveAutoOff \/ Change
  <2>1. /\ UNCHANGED <<setting, touched, seen>>
        /\ pc \in {"connected", "prot", "change"}
        /\ pc' \in {"prot", "adopt"} \/ (pc' = "set" /\ at' = 1)
    <3>1. CASE OnConnected \/ Change
      BY <3>1 DEF OnConnected, Change, Goto, supply, locals
    <3>2. CASE RemoveAutoOff
      BY <3>2, Advance DEF RemoveAutoOff
    <3>3. QED
      BY <1>6, <3>1, <3>2
  <2>2. ReadInv'
    BY <2>1 DEF ReadInv, AsRead
  <2>3. SetInv'
    BY <2>1, Basics DEF SetInv, AsSet, Ch
  <2>4. QED
    BY <2>2, <2>3
<1>7. QED
  BY <1>2, <1>3, <1>4, <1>5, <1>6

(* The setpoints: those not written are in sync, because the supply shows  *)
(* what it answered to the same request.                                   *)
LEMMA SetStep ==
  ASSUME Sane, AppliedInv, ReadInv, SetInv, SetSetpoints PROVE ReadInv' /\ SetInv'
<1>1. /\ at \in Ch /\ pc = "set" /\ (NeedsLink => conn = "up")
      /\ (pc' = "set" /\ at' = at + 1) \/ (at = NumCh /\ pc' = "decide")
      /\ UNCHANGED <<seen, touched, desired>>
  BY Advance DEF SetSetpoints, Ready
<1>2. ASSUME NEW c \in Ch, c # at PROVE setting'[c] = setting[c]
  BY <1>1, <1>2 DEF SetSetpoints, Sane, SupplyOK
<1>3. at \notin touched => setting'[at] = Answer[desired[at].set]
  <2>1. CASE InSync(at, desired)
    <3>1. at \notin touched => seen.ch[at].set = setting[at]
      BY <1>1, <2>1, Basics DEF ReadInv, AsRead, HalfWritten, Ch
    <3>2. seen.ch[at].set = Answer[desired[at].set]
      BY <1>1, <2>1 DEF InSync, AppliedInv
    <3>3. setting' = setting
      BY <2>1 DEF SetSetpoints
    <3>4. QED
      BY <3>1, <3>2, <3>3
  <2>2. CASE ~InSync(at, desired)
    BY <1>1, <2>2 DEF SetSetpoints, Sane, SupplyOK
  <2>3. QED
    BY <2>1, <2>2
<1>4. ReadInv'
  <2>1. ASSUME NEW c \in Ch, AsRead(c)' PROVE c # at /\ AsRead(c)
    BY <1>1, <2>1, Basics DEF AsRead, HalfWritten, Ch
  <2>2. QED
    BY <1>1, <1>2, <2>1 DEF ReadInv
<1>5. SetInv'
  <2>1. ASSUME NEW c \in Ch, AsSet(c)' PROVE c = at \/ AsSet(c)
    BY <1>1, <2>1, Basics DEF AsSet, Ch
  <2>2. QED
    BY <1>1, <1>2, <1>3, <2>1 DEF SetInv
<1>6. QED
  BY <1>4, <1>5

(* A hand at the panel touches the channel; a lost link the one being set. *)
LEMMA SettingOutside ==
  ASSUME Sane, ReadInv, SetInv, Panel \/ Outage PROVE ReadInv' /\ SetInv'
<1>1. /\ UNCHANGED <<pc, at, seen, applied, desired>>
      /\ pc # "idle" => touched \subseteq touched'
      /\ conn' = conn \/ conn' = "broken"
  BY DEF Panel, Outage, PressOutput, PressChannel, Trip, TurnKnob, UsbLost, PowerCut,
     UsbBack, Breaks, Disturbs, cursor, locals, targets, link
<1>2. pc # "idle" =>
        \A c \in Ch \ touched' :
          \/ setting'[c] = setting[c]
          \/ pc = "set" /\ c = at /\ ~InSync(c, desired) /\ conn' = "broken"
  <2>1. CASE Panel
    BY <2>1 DEF Panel, PressOutput, PressChannel, Trip, TurnKnob, Disturbs, Sane, SupplyOK
  <2>2. CASE UsbLost
    BY <2>2 DEF UsbLost, Breaks, Sane, SupplyOK
  <2>3. CASE PowerCut \/ UsbBack
    BY <2>3 DEF PowerCut, UsbBack, Disturbs, supply
  <2>4. QED
    BY <2>1, <2>2, <2>3 DEF Outage
<1>3. \A c \in Ch : InSync(c, desired)' <=> InSync(c, desired)
  BY <1>1 DEF InSync
<1>4. ASSUME NEW c \in Ch, AsRead(c)'
      PROVE  AsRead(c) /\ pc # "idle"
             /\ ~(pc = "set" /\ c = at /\ ~InSync(c, desired) /\ conn' = "broken")
  BY <1>1, <1>3, <1>4 DEF AsRead, HalfWritten
<1>5. ASSUME NEW c \in Ch, AsSet(c)'
      PROVE  AsSet(c) /\ pc # "idle" /\ ~(pc = "set" /\ c = at)
  BY <1>1, <1>5, Basics DEF AsSet, Ch
<1>6. ReadInv'
  BY <1>1, <1>2, <1>4 DEF ReadInv
<1>7. SetInv'
  BY <1>1, <1>2, <1>5 DEF SetInv
<1>8. QED
  BY <1>6, <1>7

LEMMA SettingStep ==
  ASSUME Sane, AppliedInv, ReadInv, SetInv, [Next]_vars PROVE ReadInv' /\ SetInv'
<1>1. CASE Decide \/ Disarm \/ Arm \/ SwitchMaster
  <2>1. /\ pc \in Switching /\ pc' \in Switching \cup {"finish"}
        /\ UNCHANGED <<setting, desired, touched>>
    <3>1. CASE Decide
      <4>1. PICK next \in {"disarm", "finish"} : EachCh("decide", next)
        BY <3>1 DEF Decide
      <4>2. QED
        BY <3>1, <4>1, Advance DEF Decide, Switching, supply, targets
    <3>2. CASE Disarm \/ Arm
      BY <3>2, Advance DEF Disarm, Arm, Switched, Switching, targets
    <3>3. CASE SwitchMaster
      BY <3>3 DEF SwitchMaster, Switched, Goto, Switching, targets
    <3>4. QED
      BY <1>1, <3>1, <3>2, <3>3
  <2>2. QED
    BY <2>1 DEF ReadInv, SetInv, AsRead, AsSet, Switching
<1>2. CASE Command \/ Crash \/ Stop \/ Start \/ Tick
  BY <1>2, OutsideSwitching DEF ReadInv, SetInv, AsRead, AsSet
<1>3. CASE UNCHANGED vars
  BY <1>3 DEF vars, cursor, locals, targets, supply, link, ReadInv, SetInv, AsRead,
     AsSet, HalfWritten, InSync
<1>4. QED
  BY <1>1, <1>2, <1>3, ReadStep, SetStep, SettingOutside DEF Next, OpStep

(* Setpoints come first: a channel nobody touches is switched on with what *)
(* the supply makes of its target's setpoints, after any power cut, lost   *)
(* link or half-written setting, for any settings and any way the supply   *)
(* rounds or caps them.  (nge.py _enforce, _in_sync.)                      *)
THEOREM SetBeforeOn == Spec => SetpointsFirst
<1>1. Init => WantInv /\ ArmInv /\ AppliedInv /\ ReadInv /\ SetInv
  BY DEF Init, WantInv, ArmInv, WantKnown, Disarmed, AppliedInv, ReadInv, SetInv,
         AsRead, AsSet
<1>2. Sane /\ ArmInv /\ SetInv /\ [Next]_vars
        => [\A c \in Ch : SwitchesOn(c) => setting[c] = Answer[desired[c].set]]_vars
  BY SwitchesWanted DEF SetInv, AsSet
<1>3. QED
  BY <1>1, <1>2, WantStep, AppliedStep, SettingStep, SaneAlways, PTL
     DEF Spec, SetpointsFirst
-----------------------------------------------------------------------------
(* OFF stays OFF.                                                          *)

(* A channel is told, not kept, unless its OFF is in targets and file.     *)
LEMMA OffKept ==
  ASSUME NEW c \in Ch, NEW d, ToldOff(c) \/ OffDone(c, d), Sane
  PROVE  /\ \A x \in Ch : offs'[x] = "kept" => offs[x] = "kept" \/ x = c
         /\ offs'[c] = "kept" =>
              \/ offs[c] = "kept"
              \/ hold /\ IsOff(d, c) /\ IsOff(saved'.desired, c) /\ saved'.hold
         /\ OffDone(c, d) /\ ~hold => offs'[c] = "no"
<1>1. CASE ToldOff(c)
  BY <1>1 DEF ToldOff, Sane, HistoryOK, OffDone
<1>2. CASE OffDone(c, d)
  BY <1>2 DEF OffDone, Sane, HistoryOK
<1>3. QED
  BY <1>1, <1>2

(* What a save of the present targets writes has every kept OFF in it.     *)
LEMMA SaveKept ==
  ASSUME Sane, KeptInv, alive, NEW c, Save(hold, c, desired)
  PROVE  \A x \in Ch : offs[x] = "kept" => IsOff(saved'.desired, x) /\ saved'.hold
<1>1. \/ saved' = saved
      \/ saved'.hold = hold /\ saved'.desired = desired
  BY DEF Save
<1>2. QED
  BY <1>1 DEF KeptInv

(* Forgetting all OFFs, or leaving them and all they rest on as they are.  *)
LEMMA KeptTrivially ==
  ASSUME KeptInv,
         \/ offs' = NoOffs
         \/ /\ UNCHANGED <<saved, alive, hold, desired, offs>>
            /\ op'.kind = "hold" => op.kind = "hold"
  PROVE  KeptInv'
<1>1. CASE offs' = NoOffs
  BY <1>1 DEF KeptInv, NoOffs
<1>2. CASE UNCHANGED <<saved, alive, hold, desired, offs>>
             /\ (op'.kind = "hold" => op.kind = "hold")
  BY <1>2 DEF KeptInv, IsOff
<1>3. QED
  BY <1>1, <1>2

LEMMA KeptPoll ==
  ASSUME Sane, KeptInv, PollStart \/ ReadMaster \/ ReadChannel \/ OnConnected
           \/ RemoveAutoOff \/ WatchOnly \/ SetSetpoints \/ Decide \/ Disarm
           \/ Arm \/ SwitchMaster \/ HoldNow
  PROVE  KeptInv'
<1>1. CASE PollStart
  BY <1>1, KeptTrivially DEF PollStart, Begin, known, targets, Poll, cursor
<1>2. CASE OnConnected \/ WatchOnly
  BY <1>2, KeptTrivially DEF OnConnected, WatchOnly
<1>3. CASE HoldNow
  BY <1>3, KeptTrivially DEF HoldNow, KeptInv
<1>4. CASE ReadMaster \/ ReadChannel \/ RemoveAutoOff \/ SetSetpoints \/ Decide
             \/ Disarm \/ Arm \/ SwitchMaster
  BY <1>4, KeptTrivially DEF ReadMaster, ReadChannel, RemoveAutoOff, SetSetpoints,
     Decide, Disarm, Arm, SwitchMaster, Switched, known, targets
<1>5. QED
  BY <1>1, <1>2, <1>3, <1>4

LEMMA KeptEnds == ASSUME Sane, KeptInv, Finish \/ Fails PROVE KeptInv'
<1>1. /\ alive /\ UNCHANGED <<alive, hold, desired>>
      /\ \/ UNCHANGED saved
         \/ \E c \in Ages : Save(hold, c, desired)
      /\ \/ offs' = offs
         \/ op.ch \in Ch /\ OffDone(op.ch, desired)
  <2>1. pc # "idle"
    BY DEF Finish, Fails, NeedsLink
  <2>2. alive /\ contact \in Ages /\ 0 \in Ages /\ (op.kind = "off" => op.ch \in Ch)
    BY <2>1, Times DEF Sane, OpInv, KnownOK, CursorOK
  <2>3. CASE Finish
    BY <2>2, <2>3 DEF Finish, targets
  <2>4. CASE Fails
    <3>1. contact' \in Ages
      BY <2>2, <2>4 DEF Fails
    <3>2. QED
      BY <2>2, <2>4, <3>1 DEF Fails, targets
  <2>5. QED
    BY <2>3, <2>4
<1>2. ASSUME NEW x \in Ch, offs[x] = "kept"
      PROVE  IsOff(saved'.desired, x) /\ saved'.hold /\ hold /\ IsOff(desired, x)
  BY <1>1, <1>2, SaveKept DEF KeptInv
<1>3. ASSUME NEW x \in Ch, offs'[x] = "kept"
      PROVE  IsOff(saved'.desired, x) /\ saved'.hold /\ hold /\ IsOff(desired, x)
  BY <1>1, <1>2, <1>3, OffKept
<1>4. op'.kind # "hold"
  BY DEF Finish, Fails, Over, Poll
<1>5. QED
  BY <1>1, <1>3, <1>4 DEF KeptInv, IsOff

LEMMA KeptChange == ASSUME Sane, KeptInv, Change PROVE KeptInv'
<1>1. CASE ~hold
  BY <1>1, KeptTrivially DEF Change
<1>2. CASE hold
  <2>1. op.ch \in Ch /\ op.kind \in {"on", "off", "set"}
    BY DEF Change, Sane, CursorOK, Kinds, OpInv
  <2>2. /\ UNCHANGED <<saved, alive, hold, op>> /\ hold
        /\ \A x \in Ch : offs'[x] = "kept" =>
             offs[x] = "kept" /\ (x = op.ch => op.kind # "on")
    BY <1>2, <2>1 DEF Change, Sane, HistoryOK
  <2>3. ASSUME NEW x \in Ch, offs'[x] = "kept"
        PROVE  IsOff(desired', x) /\ IsOff(saved.desired, x) /\ saved.hold
    <3>1. IsOff(desired, x) /\ IsOff(saved.desired, x) /\ saved.hold
      BY <2>2, <2>3 DEF KeptInv, Change, Sane, OpInv
    <3>2. x # op.ch => desired'[x] = desired[x]
      BY <1>2, <2>1 DEF Change, Sane, TargetsOK, Targets
    <3>3. x = op.ch => ~desired'[x].output
      <4>1. desired[op.ch] \in Target /\ (x = op.ch => ~desired[op.ch].output)
        BY <2>1, <3>1 DEF IsOff, Sane, OpInv, TargetsOK, Targets, Change
      <4>2. QED
        BY <1>2, <2>1, <2>2, <2>3, <4>1 DEF Change, Sane, TargetsOK, Targets, Target
    <3>4. desired'[x] # NoTarget
      BY SaneChange DEF Change, Goto, Sane, OpInv, link, session
    <3>5. QED
      BY <3>1, <3>2, <3>3, <3>4 DEF IsOff
  <2>4. QED
    BY <2>2, <2>3 DEF KeptInv, IsOff, Change
<1>3. QED
  BY <1>1, <1>2 DEF Sane, TargetsOK

LEMMA KeptOutput ==
  ASSUME Sane, KeptInv, NEW c \in Ch, NEW on \in BOOLEAN, OnOutput(c, on) PROVE KeptInv'
<1> DEFINE o == [kind |-> IF on THEN "on" ELSE "off", ch |-> c, val |-> 0]
<1>1. CASE CommandBegins(o)
  <2>1. /\ UNCHANGED <<saved, alive, hold, desired>> /\ op'.kind # "hold" /\ alive
    BY <1>1 DEF OnOutput, CommandBegins, Begin, known
  <2>2. offs' = offs \/ ToldOff(c)
    BY <1>1 DEF OnOutput, CommandBegins
  <2>3. \A x \in Ch : offs'[x] = "kept" => offs[x] = "kept"
    BY <2>2 DEF ToldOff, Sane, HistoryOK
  <2>4. QED
    BY <2>1, <2>3 DEF KeptInv, IsOff
<1>2. CASE ~CommandBegins(o)
  <2>1. /\ alive /\ UNCHANGED <<alive, hold, op>> /\ OffDone(c, desired')
        /\ pc = "idle"
        /\ \/ UNCHANGED <<desired, saved>>
           \/ /\ desired[c].output
              /\ desired' = [desired EXCEPT ![c].output = FALSE]
              /\ Save(hold, contact, desired')
    BY <1>2 DEF OnOutput, cursor
  <2>2. op.kind # "hold"
    BY <2>1 DEF Sane, OpInv
  <2>3. \A x \in Ch : IsOff(desired, x) => IsOff(desired', x)
    BY <2>1 DEF IsOff, Sane, TargetsOK, Targets
  <2>4. saved' = saved \/ (saved'.hold = hold /\ saved'.desired = desired')
    BY <2>1 DEF Save
  <2>5. ASSUME NEW x \in Ch, offs[x] = "kept"
        PROVE  IsOff(saved'.desired, x) /\ saved'.hold /\ hold /\ IsOff(desired', x)
    BY <2>1, <2>3, <2>4, <2>5 DEF KeptInv
  <2>6. ASSUME NEW x \in Ch, offs'[x] = "kept"
        PROVE  IsOff(saved'.desired, x) /\ saved'.hold /\ hold /\ IsOff(desired', x)
    BY <2>1, <2>5, <2>6, OffKept
  <2>7. QED
    BY <2>1, <2>2, <2>6 DEF KeptInv, IsOff
<1>3. QED
  BY <1>1, <1>2

LEMMA KeptOthers ==
  ASSUME Sane, KeptInv, \/ \E c \in Ch, s \in Settings : OnSetpoint(c, s)
                        \/ \E b \in BOOLEAN : OnHold(b)
                        \/ Panel \/ Outage
  PROVE  KeptInv'
<1>1. ASSUME NEW c \in Ch, NEW s \in Settings, OnSetpoint(c, s) PROVE KeptInv'
  BY <1>1, KeptTrivially DEF OnSetpoint, CommandBegins, Begin, known
<1>2. ASSUME NEW b \in BOOLEAN, OnHold(b) PROVE KeptInv'
  BY <1>2, KeptTrivially DEF OnHold
<1>3. CASE Panel \/ Outage
  BY <1>3, KeptTrivially DEF Panel, Outage, PressOutput, PressChannel, Trip, TurnKnob,
     UsbLost, PowerCut, UsbBack, Disturbs, known, targets, cursor
<1>4. QED
  BY <1>1, <1>2, <1>3

(* A process that ends leaves the file, and the next one reads it.         *)
LEMMA KeptProcess == ASSUME Sane, KeptInv, Crash \/ Stop \/ Start PROVE KeptInv'
<1>1. CASE Crash \/ Stop
  <2>1. /\ ~alive' /\ op'.kind # "hold"
        /\ \A x \in Ch : offs'[x] = "kept" => offs[x] = "kept"
    BY <1>1 DEF Crash, Stop, Gone, Over, Poll
  <2>2. saved' = saved \/ (alive /\ saved'.hold = hold /\ saved'.desired = desired)
    BY <1>1 DEF Crash, Stop
  <2>3. QED
    BY <2>1, <2>2 DEF KeptInv
<1>2. CASE Start
  <2>1. /\ hold' = saved.hold /\ desired' = saved.desired
        /\ UNCHANGED <<saved, offs, op>>
    BY <1>2 DEF Start, cursor
  <2>2. QED
    BY <2>1 DEF KeptInv, IsOff
<1>3. QED
  BY <1>1, <1>2

LEMMA KeptTick == ASSUME Sane, KeptInv, Tick PROVE KeptInv'
<1>1. /\ UNCHANGED <<alive, hold, desired, offs, op>>
      /\ saved'.hold = saved.hold /\ saved'.desired = saved.desired
  BY DEF Tick, targets, cursor, Sane, KnownOK
<1>2. QED
  BY <1>1 DEF KeptInv, IsOff

LEMMA KeptStep == ASSUME Sane, KeptInv, [Next]_vars PROVE KeptInv'
<1>1. CASE UNCHANGED vars
  BY <1>1, KeptTrivially DEF vars, known, targets, cursor
<1>2. CASE OpStep
  BY <1>2, KeptPoll, KeptEnds, KeptChange DEF OpStep
<1>3. CASE Command
  BY <1>3, KeptOutput, KeptOthers DEF Command
<1>4. QED
  BY <1>1, <1>2, <1>3, KeptOthers, KeptProcess, KeptTick DEF Next

(* OFF stays OFF: a channel whose OFF was carried out under hold and is on *)
(* disk is not switched on by the driver, across crashes, restarts, power  *)
(* cuts, failing saves and commands on other channels, until it is told ON *)
(* or the state of the supply is adopted.  (nge.py _on_output, _save_state,*)
(* _load_state, _on_connected.)                                            *)
THEOREM OffIsKept == Spec => OffStaysOff
<1>1. Init => WantInv /\ ArmInv /\ KeptInv
  BY DEF Init, WantInv, ArmInv, WantKnown, Disarmed, KeptInv, NoOffs, Poll
<1>2. Sane /\ WantInv /\ ArmInv /\ KeptInv /\ [Next]_vars
        => [\A c \in Ch : SwitchesOn(c) => offs[c] # "kept"]_vars
  <2> SUFFICES ASSUME Sane, WantInv, ArmInv, KeptInv, [Next]_vars,
                      NEW c \in Ch, SwitchesOn(c)
               PROVE  offs[c] # "kept"
    OBVIOUS
  <2>1. alive /\ desired[c].output
    BY SwitchesWanted DEF WantInv, WantKnown, Sane, OpInv
  <2>2. QED
    BY <2>1 DEF KeptInv, IsOff
<1>3. QED
  BY <1>1, <1>2, WantStep, KeptStep, SaneAlways, PTL DEF Spec, OffStaysOff
-----------------------------------------------------------------------------
(* Retries are spaced.                                                     *)

(* Nothing outside moves a channel within an operation without touching it.*)
LEMMA OnOutside ==
  ASSUME Sane, Panel \/ Outage
  PROVE  /\ UNCHANGED <<pc, at, op, seen, want>>
         /\ pc # "idle" => touched \subseteq touched'
         /\ pc # "idle" => \A c \in Ch \ touched' : On(c)' = On(c)
<1>1. CASE PressOutput \/ PowerCut
  BY <1>1 DEF PressOutput, PowerCut, Disturbs, cursor, locals, Sane, HistoryOK
<1>2. ASSUME NEW c \in Ch, PressChannel(c) \/ Trip(c)
      PROVE  /\ UNCHANGED <<pc, at, op, seen, want, master>>
             /\ pc # "idle" => touched' = touched \cup {c}
             /\ \A x \in Ch \ {c} : armed'[x] = armed[x]
  BY <1>2 DEF PressChannel, Trip, Disturbs, cursor, locals, Sane, SupplyOK
<1>3. CASE UsbLost \/ UsbBack \/ \E c \in Ch, s \in Held : TurnKnob(c, s)
  BY <1>3 DEF UsbLost, UsbBack, TurnKnob, Disturbs, cursor, locals, supply, On
<1>4. QED
  BY <1>1, <1>2, <1>3 DEF Panel, Outage, On

(* What was seen of a channel's output stays true while nobody touches it, *)
(* until the operation switches.                                           *)
LEMMA SeenStep == ASSUME Sane, SeenInv, [Next]_vars PROVE SeenInv'
<1>1. ASSUME pc' \in {"idle", "gen", "disarm", "arm", "master", "finish"} PROVE SeenInv'
  BY <1>1 DEF SeenInv, AsSeen
<1>2. ASSUME UNCHANGED <<armed, master, seen, touched>>,
             \A c \in Ch : AsSeen(c)' => AsSeen(c)
      PROVE  SeenInv'
  BY <1>2 DEF SeenInv, On
<1>3. CASE PollStart \/ WatchOnly \/ HoldNow \/ Finish \/ Fails
  BY <1>1, <1>3 DEF PollStart, Begin, cursor, WatchOnly, HoldNow, Finish, Fails, Over, Goto
<1>4. CASE ReadMaster
  BY <1>4, Basics DEF ReadMaster, Goto, SeenInv, AsSeen, Ch
<1>5. CASE ReadChannel
  <2>1. /\ at \in Ch
        /\ (pc' = "read" /\ at' = at + 1)
             \/ (at = NumCh /\ pc' \in {"connected", "change"})
    BY <1>5, Advance DEF ReadChannel
  <2>2. \A c \in Ch : AsSeen(c)' => c = at \/ AsSeen(c)
    BY <1>5, <2>1, Basics DEF ReadChannel, AsSeen, Ch
  <2>3. /\ UNCHANGED <<touched, armed, master>>
        /\ \A c \in Ch : seen'.ch[c].output = IF c = at THEN On(c) ELSE seen.ch[c].output
    BY <1>5 DEF ReadChannel, supply, Sane, LocalsOK
  <2>4. QED
    BY <2>2, <2>3 DEF SeenInv, On
<1>6. CASE OnConnected \/ Change
  <2>1. pc \in {"connected", "change"}
    BY <1>6 DEF OnConnected, Change
  <2>2. UNCHANGED <<armed, master, seen, touched>>
    BY <1>6 DEF OnConnected, Change, supply, locals
  <2>3. QED
    BY <1>2, <2>1, <2>2 DEF AsSeen
<1>7. CASE RemoveAutoOff \/ SetSetpoints
  <2>1. pc \in {"prot", "set"}
    BY <1>7 DEF RemoveAutoOff, SetSetpoints
  <2>2. UNCHANGED <<armed, master, seen, touched>>
    BY <1>7 DEF RemoveAutoOff, SetSetpoints
  <2>3. QED
    BY <1>2, <2>1, <2>2 DEF AsSeen
<1>8. CASE Decide
  <2>1. PICK next \in {"disarm", "finish"} : EachCh("decide", next)
    BY <1>8 DEF Decide
  <2>2. \A c \in Ch : AsSeen(c)' => AsSeen(c)
    BY <1>8, <2>1, Advance, Basics DEF Decide, AsSeen, Ch
  <2>3. QED
    BY <1>2, <1>8, <2>2 DEF Decide, supply
<1>9. CASE Disarm \/ Arm
  BY <1>1, <1>9, Advance DEF Disarm, Arm
<1>10. CASE SwitchMaster
  BY <1>1, <1>10 DEF SwitchMaster, Goto
<1>11. CASE Panel \/ Outage
  <2>1. /\ UNCHANGED <<pc, at, seen>>
        /\ pc # "idle" => touched \subseteq touched'
        /\ pc # "idle" => \A c \in Ch \ touched' : On(c)' = On(c)
    BY <1>11, OnOutside
  <2>2. \A c \in Ch : AsSeen(c)' => AsSeen(c) /\ pc # "idle"
    BY <2>1 DEF AsSeen
  <2>3. QED
    BY <2>1, <2>2 DEF SeenInv
<1>12. CASE UNCHANGED vars
  BY <1>2, <1>12 DEF vars, cursor, locals, supply, AsSeen
<1>13. QED
  BY <1>1, <1>3, <1>4, <1>5, <1>6, <1>7, <1>8, <1>9, <1>10, <1>11, <1>12,
     OutsideSwitching DEF Next, OpStep

(* A channel the driver switches on by itself has paid its wait.           *)
LEMMA DuePaid ==
  ASSUME Sane, ArmInv, DueInv, [Next]_vars, NEW c \in Ch, SwitchesOn(c), ~ByOperator(c)
  PROVE  down[c] /\ retryIn[c] >= RetryMin /\ tried[c] = RetryMin
<1>1. pc \in {"arm", "master"} /\ want[c] /\ c \notin touched
  BY SwitchesWanted
<1>2. ~On(c)
  BY DEF SwitchesOn
<1>3. QED
  BY <1>1, <1>2 DEF DueInv, WantKnown

LEMMA DueStep ==
  ASSUME Sane, SeenInv, DueInv, SpacedInv, [Next]_vars PROVE DueInv'
<1>1. ASSUME pc' \notin Switching PROVE DueInv'
  BY <1>1 DEF DueInv, WantKnown, Switching
<1>2. CASE SetSetpoints
  <2>1. pc' = "set" \/ (pc' = "decide" /\ at' = 1)
    BY <1>2, Advance DEF SetSetpoints
  <2>2. QED
    BY <2>1, Basics DEF DueInv, WantKnown, Ch
<1>3. CASE Decide
  <2>1. PICK next \in {"disarm", "finish"} : EachCh("decide", next)
    BY <1>3 DEF Decide
  <2>2. at \in Ch /\ \A c \in Ch : WantKnown(c)' => c = at \/ c < at
    BY <2>1, Advance, Basics DEF WantKnown, Ch
  <2>3. UNCHANGED <<armed, master, touched, tried, op>>
    BY <1>3 DEF Decide, supply
  <2>4. ASSUME NEW c \in Ch, c # at
        PROVE  want'[c] = want[c] /\ down'[c] = down[c] /\ retryIn'[c] = retryIn[c]
    BY <1>3, <2>4 DEF Sane, BackoffOK, LocalsOK, Decide, Decided, backoff
  <2>5. ASSUME at \notin touched, want'[at], ~On(at), ~ByOperator(at)
        PROVE  down'[at] /\ retryIn'[at] >= RetryMin /\ tried[at] = RetryMin
    <3>1. desired[at].output /\ ~seen.ch[at].output
      BY <1>3, <2>2, <2>5, Basics DEF Decide, Decided, Sane, LocalsOK, SeenInv, AsSeen
    <3>2. Dropped(at) /\ Retries(at)
      BY <1>3, <2>2, <2>5, <3>1 DEF Decide, Decided, Dropped, Sane, LocalsOK
    <3>3. tried[at] = RetryMin
      BY <2>2, <3>2, Times DEF Retries, SpacedInv, Sane, HistoryOK
    <3> DEFINE wait == Smaller(RetryMax, Larger(RetryMin, 2 * delay[at]))
    <3>4. delay[at] \in Nat
      BY <2>2, Times DEF Sane, BackoffOK
    <3>5. wait >= RetryMin
      BY <3>4, Times DEF Smaller, Larger
    <3>6. /\ down' = [down EXCEPT ![at] = TRUE]
          /\ retryIn' = [retryIn EXCEPT ![at] = IF Retries(at) THEN wait ELSE @]
      BY <1>3, <2>5, <3>2 DEF Decide, Decided, Dropped, Stays
    <3>7. down'[at] /\ retryIn'[at] = wait
      BY <2>2, <3>2, <3>6 DEF Sane, BackoffOK
    <3>8. QED
      BY <3>3, <3>5, <3>7
  <2>6. ASSUME NEW c \in Ch \ touched, WantKnown(c)', want'[c], ~On(c), ~ByOperator(c)
        PROVE  down'[c] /\ retryIn'[c] >= RetryMin /\ tried[c] = RetryMin
    <3>1. CASE c = at
      BY <2>5, <2>6, <3>1
    <3>2. CASE c # at
      BY <1>3, <2>2, <2>4, <2>6, <3>2 DEF Decide, DueInv, WantKnown
    <3>3. QED
      BY <3>1, <3>2
  <2>7. QED
    BY <2>3, <2>6 DEF DueInv, On, ByOperator
<1>4. CASE Disarm \/ Arm
  <2>1. /\ pc \in {"disarm", "arm"}
        /\ UNCHANGED <<want, touched, op, down, retryIn, master>>
    BY <1>4 DEF Disarm, Arm, Switched, backoff
  <2>2. ASSUME NEW c \in Ch, want[c], ~On(c)' PROVE ~On(c) /\ tried'[c] = tried[c]
    <3>1. armed[c] => armed'[c]
      BY <1>4, <2>2 DEF Disarm, Arm, Sane, SupplyOK
    <3>2. QED
      BY <1>4, <2>1, <2>2, <3>1 DEF Disarm, Arm, Switched, On
  <2>3. QED
    BY <2>1, <2>2 DEF DueInv, WantKnown, ByOperator
<1>5. CASE Panel \/ Outage
  <2>1. UNCHANGED <<down, retryIn, tried>>
    BY <1>5 DEF Panel, Outage, PressOutput, PressChannel, Trip, TurnKnob, UsbLost,
       PowerCut, UsbBack, Disturbs, backoff
  <2>2. QED
    BY <1>5, <2>1, OnOutside DEF DueInv, WantKnown, ByOperator
<1>6. CASE UNCHANGED vars
  BY <1>6 DEF vars, cursor, locals, supply, backoff, DueInv, WantKnown, On, ByOperator
<1>7. QED
  BY <1>1, <1>2, <1>3, <1>4, <1>5, <1>6, OutsideSwitching, BeforeSwitching
     DEF Next, OpStep, Switching

(* What keeps SpacedInv, step by step.                                     *)
LEMMA SpacedFrame ==
  ASSUME SpacedInv, UNCHANGED <<down, retryIn, upFor, tried>>,
         \/ UNCHANGED op /\ (pc' \in {"gen", "read", "change"} \/ UNCHANGED pc
                              \/ pc \notin {"gen", "read", "change"})
         \/ pc' = "gen" /\ op'.kind # "hold"
         \/ op'.kind = "poll"
  PROVE  SpacedInv'
  BY DEF SpacedInv, ByOperator

LEMMA SpacedReset ==
  ASSUME tried' = [c \in Ch |-> RetryMin], Sane'
  PROVE  SpacedInv'
<1>1. \A c \in Ch : retryIn'[c] \in Nat /\ upFor'[c] \in Nat
  BY Times DEF Sane, BackoffOK
<1>2. QED
  BY <1>1, Times DEF SpacedInv, ByOperator

LEMMA SpacedRead ==
  ASSUME Sane, SpacedInv,
         PollStart \/ ReadMaster \/ ReadChannel \/ OnConnected \/ RemoveAutoOff
           \/ WatchOnly \/ HoldNow \/ SetSetpoints \/ Finish
  PROVE  SpacedInv'
<1>1. CASE PollStart
  BY <1>1, SpacedFrame DEF PollStart, Begin, Poll, cursor, backoff
<1>2. CASE ReadMaster
  BY <1>2, SpacedFrame DEF ReadMaster, Goto, backoff
<1>3. CASE ReadChannel
  <2>1. pc' \in {"read", "change"} \/ op.kind = "poll"
    BY <1>3, Advance DEF ReadChannel
  <2>2. QED
    BY <1>3, <2>1, SpacedFrame DEF ReadChannel, backoff
<1>4. CASE OnConnected \/ WatchOnly
  <2>1. CASE tried' = [c \in Ch |-> RetryMin]
    BY <1>4, <2>1, SpacedReset, SaneConnected
  <2>2. CASE UNCHANGED <<down, tried>>
    <3>1. pc = "connected" \/ pc = "adopt"
      BY <1>4 DEF OnConnected, WatchOnly
    <3>2. QED
      BY <1>4, <2>2, <3>1, SpacedFrame DEF OnConnected, WatchOnly
  <2>3. QED
    BY <1>4, <2>1, <2>2 DEF OnConnected, WatchOnly
<1>5. CASE RemoveAutoOff \/ SetSetpoints
  BY <1>5, SpacedFrame DEF RemoveAutoOff, SetSetpoints, backoff
<1>6. CASE HoldNow
  <2>1. /\ \A c \in Ch : tried[c] = RetryMin
        /\ UNCHANGED <<retryIn, upFor, tried>> /\ op' = Poll
    BY <1>6 DEF HoldNow, Over, SpacedInv
  <2>2. \A c \in Ch : retryIn[c] + RetryMin >= RetryMin
    BY <2>1 DEF SpacedInv
  <2>3. QED
    BY <2>1, <2>2, Times DEF SpacedInv, ByOperator, Poll
<1>7. CASE Finish
  BY <1>7, SpacedFrame DEF Finish, Over, Poll, backoff
<1>8. QED
  BY <1>1, <1>2, <1>3, <1>4, <1>5, <1>6, <1>7

LEMMA SpacedChange == ASSUME Sane, SpacedInv, Change PROVE SpacedInv'
<1>1. CASE ~hold
  <2>1. tried' = [c \in Ch |-> RetryMin]
    BY <1>1 DEF Change
  <2>2. QED
    BY <2>1, SpacedReset, SaneChange
<1>2. CASE hold
  <2>1. /\ UNCHANGED <<retryIn, upFor, down, op>> /\ op.kind # "hold"
        /\ \A c \in Ch : tried'[c] = IF ByOperator(c) THEN RetryMin ELSE tried[c]
    BY <1>2 DEF Change
  <2>2. \A c \in Ch : tried[c] <= RetryMin /\ tried[c] \in Nat /\ retryIn[c] \in Nat
    BY Times DEF Sane, HistoryOK, BackoffOK
  <2>3. QED
    BY <2>1, <2>2, Times DEF SpacedInv, ByOperator
<1>3. QED
  BY <1>1, <1>2 DEF Sane, TargetsOK

(* A decision makes a retry due no earlier, or after it was paid for.      *)
LEMMA SpacedDecide == ASSUME Sane, SpacedInv, Decide PROVE SpacedInv'
<1> DEFINE wait == Smaller(RetryMax, Larger(RetryMin, 2 * delay[at]))
<1>1. /\ at \in Ch /\ retryIn[at] \in Nat /\ upFor[at] \in Nat /\ delay[at] \in Nat
      /\ tried[at] \in Nat /\ tried[at] <= RetryMin
  BY Times DEF Sane, CursorOK, BackoffOK, HistoryOK
<1>2. wait \in Nat /\ wait >= RetryMin
  BY <1>1, Times DEF Smaller, Larger
<1>3. UNCHANGED <<op, tried>> /\ pc = "decide"
  BY DEF Decide
<1>4. ASSUME NEW c \in Ch, c # at
      PROVE  down'[c] = down[c] /\ retryIn'[c] = retryIn[c] /\ upFor'[c] = upFor[c]
  BY <1>4 DEF Sane, BackoffOK, Decide, Decided, backoff
<1>5. /\ retryIn'[at] + tried[at] >= RetryMin
      /\ ~down'[at] /\ tried[at] < RetryMin => upFor'[at] <= tried[at]
  <2>1. CASE ByOperator(at)
    <3>1. tried[at] = RetryMin
      BY <1>1, <1>3, <2>1 DEF SpacedInv
    <3>2. retryIn'[at] = 0
      BY <1>1, <2>1 DEF Decide, Decided, Dropped, Stays, Sane, BackoffOK
    <3>3. QED
      BY <3>1, <3>2, Times
  <2>2. CASE Dropped(at)
    <3>1. /\ down' = [down EXCEPT ![at] = TRUE]
          /\ retryIn' = [retryIn EXCEPT ![at] = IF Retries(at) THEN wait ELSE @]
      BY <2>2 DEF Decide, Decided, Dropped, Stays
    <3>2. down'[at] /\ retryIn'[at] = IF Retries(at) THEN wait ELSE retryIn[at]
      BY <1>1, <3>1 DEF Sane, BackoffOK
    <3>3. QED
      BY <1>1, <1>2, <3>2, Times DEF SpacedInv
  <2>3. CASE Stays(at) /\ down[at]
    <3>1. upFor' = [upFor EXCEPT ![at] = 0] /\ retryIn' = retryIn
      BY <2>3 DEF Decide, Decided, Dropped, Stays
    <3>2. QED
      BY <1>1, <3>1 DEF SpacedInv, Sane, BackoffOK
  <2>4. CASE Stays(at) /\ ~down[at] /\ upFor[at] >= Stable
    <3>1. tried[at] = RetryMin
      BY <1>1, <2>4, Times DEF SpacedInv
    <3>2. retryIn' = [retryIn EXCEPT ![at] = 0]
      BY <2>4 DEF Decide, Decided, Dropped, Stays
    <3>3. QED
      BY <1>1, <3>1, <3>2, Times DEF Sane, BackoffOK
  <2>5. CASE ~ByOperator(at) /\ ~Dropped(at) /\ ~(Stays(at) /\ down[at])
               /\ ~(Stays(at) /\ ~down[at] /\ upFor[at] >= Stable)
    <3>1. UNCHANGED backoff
      BY <2>5 DEF Decide, Decided
    <3>2. QED
      BY <1>1, <3>1 DEF SpacedInv, backoff
  <2>6. QED
    BY <2>1, <2>2, <2>3, <2>4, <2>5
<1>6. QED
  BY <1>1, <1>3, <1>4, <1>5 DEF SpacedInv, ByOperator

(* The switches: what is switched on has its next retry RETRY_MIN_S away.  *)
LEMMA SpacedSwitch ==
  ASSUME Sane, ArmInv, DueInv, SpacedInv, Disarm \/ Arm \/ SwitchMaster
  PROVE  SpacedInv'
<1>1. /\ pc \in {"disarm", "arm", "master"}
      /\ UNCHANGED <<op, down, retryIn, upFor>>
      /\ tried' = [c \in Ch |->
                     IF On(c)' /\ ~On(c) /\ ~ByOperator(c) /\ c \notin touched
                     THEN 0 ELSE tried[c]]
  BY DEF Disarm, Arm, SwitchMaster, Switched, backoff
<1>2. <<pc, at>>' # <<pc, at>>
  <2>1. CASE Disarm \/ Arm
    <3>1. \/ pc = "disarm" /\ EachCh("disarm", "arm")
          \/ pc = "arm" /\ EachCh("arm", "master")
      BY <2>1 DEF Disarm, Arm
    <3>2. at \in Nat /\ (pc' # pc \/ at' = at + 1)
      <4>1. at \in Nat
        BY Basics DEF Sane, CursorOK
      <4>2. QED
        BY <3>1, <4>1 DEF EachCh, Goto
    <3>3. QED
      BY <3>2
  <2>2. CASE SwitchMaster
    BY <2>2 DEF SwitchMaster, Goto
  <2>3. QED
    BY <2>1, <2>2
<1>3. [Next]_vars
  BY DEF Next, OpStep
<1>4. ASSUME NEW c \in Ch, tried'[c] # tried[c]
      PROVE  tried'[c] = 0 /\ down[c] /\ retryIn[c] >= RetryMin /\ ~ByOperator(c)
  <2>1. SwitchesOn(c) /\ ~ByOperator(c) /\ tried'[c] = 0
    BY <1>1, <1>2, <1>4 DEF SwitchesOn
  <2>2. QED
    BY <1>3, <2>1, DuePaid
<1>5. op.kind # "hold"
  BY <1>1 DEF Sane, OpInv
<1>6. \A c \in Ch : retryIn[c] \in Nat
  BY Times DEF Sane, BackoffOK
<1>7. QED
  BY <1>1, <1>4, <1>5, <1>6 DEF SpacedInv, ByOperator

LEMMA SpacedFails == ASSUME Sane, SpacedInv, Fails PROVE SpacedInv'
<1>1. op' = Poll /\ UNCHANGED <<upFor, tried>>
  BY DEF Fails, Over
<1>2. CASE pc # "decide"
  BY <1>1, <1>2, SpacedFrame DEF Fails, Poll
<1>3. CASE pc = "decide"
  <2>1. at \in Ch /\ Clears(at)
    BY <1>3 DEF Fails, NeedsLink, Sane, CursorOK
  <2>2. /\ down' = [down EXCEPT ![at] = ~ByOperator(at)]
        /\ retryIn' = [retryIn EXCEPT ![at] = IF ByOperator(at) THEN 0 ELSE @]
    BY <1>3 DEF Fails
  <2>3. ByOperator(at) => tried[at] = RetryMin
    BY <1>3, <2>1 DEF SpacedInv
  <2>4. ASSUME NEW c \in Ch
        PROVE  /\ retryIn'[c] + tried[c] >= RetryMin
               /\ ~down'[c] /\ tried[c] < RetryMin => upFor[c] <= tried[c]
    <3>1. CASE c = at
      BY <2>1, <2>2, <2>3, <3>1, Times DEF SpacedInv, Sane, BackoffOK
    <3>2. CASE c # at
      BY <2>1, <2>2, <3>2 DEF SpacedInv, Sane, BackoffOK
    <3>3. QED
      BY <3>1, <3>2
  <2>5. QED
    BY <1>1, <2>4 DEF SpacedInv, ByOperator, Poll
<1>4. QED
  BY <1>2, <1>3

LEMMA SpacedTick == ASSUME Sane, SpacedInv, Tick PROVE SpacedInv'
<1>1. /\ UNCHANGED <<pc, op, down>>
      /\ \A c \in Ch : /\ retryIn'[c] = Larger(0, retryIn[c] - 1)
                       /\ upFor'[c] = Smaller(Stable, upFor[c] + 1)
                       /\ tried'[c] = Smaller(RetryMin, tried[c] + 1)
  BY DEF Tick, cursor
<1>2. \A c \in Ch : /\ retryIn[c] \in Nat /\ upFor[c] \in Nat /\ tried[c] \in Nat
                    /\ tried[c] <= RetryMin
  BY Times DEF Sane, BackoffOK, HistoryOK
<1>3. QED
  BY <1>1, <1>2, Times DEF SpacedInv, ByOperator, Larger, Smaller

LEMMA SpacedStep ==
  ASSUME Sane, ArmInv, DueInv, SpacedInv, [Next]_vars PROVE SpacedInv'
<1>1. ASSUME NEW c \in Ch, NEW on \in BOOLEAN, OnOutput(c, on) PROVE SpacedInv'
  <2>1. UNCHANGED <<backoff, tried>>
    BY <1>1 DEF OnOutput, CommandBegins
  <2>2. UNCHANGED cursor \/ (pc' = "gen" /\ op'.kind # "hold")
    <3> DEFINE o == [kind |-> IF on THEN "on" ELSE "off", ch |-> c, val |-> 0]
    <3>1. UNCHANGED cursor \/ (pc' = "gen" /\ op' = o)
      BY <1>1 DEF OnOutput, CommandBegins, Begin, Goto
    <3>2. o.kind # "hold"
      OBVIOUS
    <3>3. QED
      BY <3>1, <3>2
  <2>3. QED
    BY <2>1, <2>2, SpacedFrame DEF backoff, cursor
<1>2. ASSUME NEW c \in Ch, NEW s \in Settings, OnSetpoint(c, s) PROVE SpacedInv'
  BY <1>2, SpacedFrame DEF OnSetpoint, CommandBegins, Begin, Goto, backoff
<1>3. ASSUME NEW b \in BOOLEAN, OnHold(b) PROVE SpacedInv'
  BY <1>3, SpacedReset, SaneHold DEF OnHold
<1>4. CASE Panel \/ Outage
  BY <1>4, SpacedFrame DEF Panel, Outage, PressOutput, PressChannel, Trip, TurnKnob,
     UsbLost, PowerCut, UsbBack, Disturbs, backoff, cursor
<1>5. CASE Crash \/ Stop
  BY <1>5, SpacedReset, SaneProcess DEF Crash, Stop, Gone
<1>6. CASE Start
  BY <1>6, SpacedFrame DEF Start, backoff, cursor
<1>7. CASE UNCHANGED vars
  BY <1>7, SpacedFrame DEF vars, backoff, cursor
<1>8. QED
  BY <1>1, <1>2, <1>3, <1>4, <1>5, <1>6, <1>7, SpacedRead, SpacedChange, SpacedDecide,
     SpacedSwitch, SpacedFails, SpacedTick DEF Next, OpStep, Command

(* A channel that will not stay on is not hammered: on its own the driver  *)
(* switches it on at most once in RETRY_MIN_S, for any back-off that is    *)
(* not longer than the time after which it is forgotten.                   *)
(* (nge.py _enforce.)                                                      *)
THEOREM NotHammered == Spec => RetriesSpaced
<1> DEFINE Inv == WantInv /\ ArmInv /\ SeenInv /\ DueInv /\ SpacedInv
<1>1. Init => Inv
  <2>1. Init => WantInv /\ ArmInv /\ SeenInv /\ DueInv
    BY DEF Init, WantInv, ArmInv, WantKnown, Disarmed, SeenInv, AsSeen, DueInv
  <2>2. Init => SpacedInv
    BY Times DEF Init, SpacedInv, ByOperator, Poll, Nothing
  <2>3. QED
    BY <2>1, <2>2
<1>2. Sane /\ Inv /\ [Next]_vars => Inv'
  BY WantStep, SeenStep, DueStep, SpacedStep
<1>3. Sane /\ Inv /\ [Next]_vars
        => [\A c \in Ch : SwitchesOn(c) /\ ~ByOperator(c) => tried[c] = RetryMin]_vars
  BY DuePaid
<1>4. QED
  BY <1>1, <1>2, <1>3, SaneAlways, PTL DEF Spec, RetriesSpaced
-----------------------------------------------------------------------------
(* On target, the driver is quiet.                                         *)

(* While nothing happens only polls run, and they are not interrupted.     *)
LEMMA OnlyPolls ==
  ASSUME Sane, QuietInv, [Next]_vars, Quiet'
  PROVE  \/ PollStart
         \/ /\ Quiet
            /\ \/ ReadMaster \/ ReadChannel \/ OnConnected \/ RemoveAutoOff \/ WatchOnly
               \/ SetSetpoints \/ Decide \/ Disarm \/ Arm \/ SwitchMaster \/ Finish
               \/ Tick \/ UNCHANGED vars
<1>1. disturbed' # 2
  BY DEF Quiet
<1>2. ~Command
  BY <1>1 DEF Command, OnOutput, OnSetpoint, OnHold
<1>3. ~Panel /\ ~Outage
  BY <1>1 DEF Panel, Outage, PressOutput, PressChannel, Trip, TurnKnob, UsbLost,
     PowerCut, UsbBack, Disturbs
<1>4. ~Crash /\ ~Stop
  BY <1>1 DEF Crash, Stop, Gone
<1>5. ~Start
  BY DEF Start, Quiet, QuietInv
<1>6. ~Fails
  BY <1>1 DEF Fails
<1>7. CASE Change \/ HoldNow
  <2>1. Quiet /\ pc = "change"
    BY <1>7 DEF Change, HoldNow, Quiet
  <2>2. QED
    BY <2>1 DEF QuietInv, Sane, OpInv
<1>8. CASE Finish
  <2>1. disturbed \in 0 .. 2
    BY DEF Sane, HistoryOK
  <2>2. Quiet
    BY <1>1, <1>8, <2>1 DEF Finish, Quiet
  <2>3. QED
    BY <1>8, <2>2
<1>9. CASE ReadMaster \/ ReadChannel \/ OnConnected \/ RemoveAutoOff \/ WatchOnly
             \/ SetSetpoints \/ Decide \/ Disarm \/ Arm \/ SwitchMaster \/ Tick
             \/ UNCHANGED vars
  <2>1. disturbed' = disturbed
    BY <1>9 DEF ReadMaster, ReadChannel, OnConnected, RemoveAutoOff, WatchOnly,
       SetSetpoints, Decide, Disarm, Arm, SwitchMaster, Switched, Tick, vars
  <2>2. QED
    BY <1>9, <2>1 DEF Quiet
<1>10. QED
  BY <1>2, <1>3, <1>4, <1>5, <1>6, <1>7, <1>8, <1>9 DEF Next, OpStep

(* The steps of a poll, and where each leads.                              *)
LEMMA PollPath ==
  ASSUME Sane
  PROVE  /\ ReadMaster => pc = "gen" /\ pc' = "read" /\ at' = 1
         /\ ReadChannel /\ op.kind = "poll" =>
              /\ pc = "read"
              /\ \/ pc' = "read" /\ at' = at + 1
                 \/ pc' = "connected" /\ at = NumCh
         /\ OnConnected => /\ pc = "connected"
                           /\ pc' = "prot" \/ pc' = IF hold THEN "set" ELSE "adopt"
                           /\ at' = 1
         /\ RemoveAutoOff => /\ pc = "prot"
                             /\ pc' = "prot" \/ (pc' = (IF hold THEN "set" ELSE "adopt")
                                                   /\ at' = 1)
         /\ WatchOnly => pc = "adopt" /\ pc' = "finish"
         /\ SetSetpoints => /\ pc = "set"
                            /\ \/ pc' = "set" /\ at' = at + 1
                               \/ pc' = "decide" /\ at' = 1 /\ at = NumCh
         /\ Decide => /\ pc = "decide"
                      /\ \/ pc' = "decide" /\ at' = at + 1
                         \/ pc' \in {"disarm", "finish"} /\ at' = 1 /\ at = NumCh
         /\ Disarm => /\ pc = "disarm"
                      /\ \/ pc' = "disarm" /\ at' = at + 1
                         \/ pc' = "arm" /\ at' = 1 /\ at = NumCh
         /\ Arm => /\ pc = "arm"
                   /\ \/ pc' = "arm" /\ at' = at + 1
                      \/ pc' = "master" /\ at' = 1 /\ at = NumCh
         /\ SwitchMaster => pc = "master" /\ pc' = "finish"
         /\ Finish => pc = "finish" /\ pc' = "idle"
<1>1. ReadMaster => pc = "gen" /\ pc' = "read" /\ at' = 1
  BY DEF ReadMaster, Goto
<1>2. ASSUME ReadChannel, op.kind = "poll"
      PROVE  /\ pc = "read"
             /\ \/ pc' = "read" /\ at' = at + 1
                \/ pc' = "connected" /\ at = NumCh
  <2>1. pc = "read" /\ EachCh("read", "connected")
    BY <1>2 DEF ReadChannel
  <2>2. QED
    BY <2>1, Advance
<1>3. OnConnected => /\ pc = "connected"
                     /\ pc' = "prot" \/ pc' = IF hold THEN "set" ELSE "adopt"
                     /\ at' = 1
  BY DEF OnConnected, Goto
<1>4. ASSUME RemoveAutoOff
      PROVE  /\ pc = "prot"
             /\ pc' = "prot" \/ (pc' = (IF hold THEN "set" ELSE "adopt") /\ at' = 1)
  BY <1>4, Advance DEF RemoveAutoOff
<1>5. WatchOnly => pc = "adopt" /\ pc' = "finish"
  BY DEF WatchOnly, Goto
<1>6. ASSUME SetSetpoints
      PROVE  /\ pc = "set"
             /\ \/ pc' = "set" /\ at' = at + 1
                \/ pc' = "decide" /\ at' = 1 /\ at = NumCh
  BY <1>6, Advance DEF SetSetpoints
<1>7. ASSUME Decide
      PROVE  /\ pc = "decide"
             /\ \/ pc' = "decide" /\ at' = at + 1
                \/ pc' \in {"disarm", "finish"} /\ at' = 1 /\ at = NumCh
  <2>1. PICK next \in {"disarm", "finish"} : EachCh("decide", next)
    BY <1>7 DEF Decide
  <2>2. QED
    BY <1>7, <2>1, Advance DEF Decide
<1>8. ASSUME Disarm
      PROVE  /\ pc = "disarm"
             /\ \/ pc' = "disarm" /\ at' = at + 1
                \/ pc' = "arm" /\ at' = 1 /\ at = NumCh
  BY <1>8, Advance DEF Disarm
<1>9. ASSUME Arm
      PROVE  /\ pc = "arm"
             /\ \/ pc' = "arm" /\ at' = at + 1
                \/ pc' = "master" /\ at' = 1 /\ at = NumCh
  BY <1>9, Advance DEF Arm
<1>10. SwitchMaster => pc = "master" /\ pc' = "finish"
  BY DEF SwitchMaster, Goto
<1>11. Finish => pc = "finish" /\ pc' = "idle"
  BY DEF Finish, Over, Goto
<1>12. QED
  BY <1>1, <1>2, <1>3, <1>4, <1>5, <1>6, <1>7, <1>8, <1>9, <1>10, <1>11

LEMMA QuietStep == ASSUME Sane, QuietInv, [Next]_vars PROVE QuietInv'
<1> SUFFICES ASSUME Quiet' PROVE QuietInv'
  BY DEF QuietInv
<1>1. CASE PollStart
  <2>1. alive' /\ (disturbed' = 0 => disturbed = 0) /\ disturbed' # 2
    BY <1>1 DEF PollStart, Quiet
  <2>2. CASE Begin(Poll)
    <3>1. pc' = "gen" /\ touched' = {} /\ op'.kind = "poll"
      BY <2>2 DEF Begin, Goto, Poll
    <3>2. disturbed = 0 => conn # "none" /\ ~fresh
      BY DEF QuietInv, Quiet
    <3>3. disturbed' = 0 => conn' # "none" /\ ~fresh'
      BY <1>1, <2>1, <3>2 DEF PollStart, session
    <3>4. QED
      BY <2>1, <3>1, <3>3 DEF QuietInv
  <2>3. CASE ~Begin(Poll)
    <3>1. pc' = "idle" /\ conn = "none"
      BY <1>1, <2>3 DEF PollStart, cursor
    <3>2. disturbed # 0
      BY <3>1 DEF QuietInv, Quiet
    <3>3. QED
      BY <2>1, <3>1, <3>2 DEF QuietInv
  <2>4. QED
    BY <2>2, <2>3
<1>2. CASE Quiet /\ (ReadMaster \/ ReadChannel \/ OnConnected \/ RemoveAutoOff
                       \/ WatchOnly \/ SetSetpoints \/ Decide \/ Disarm \/ Arm
                       \/ SwitchMaster)
  <2>1. UNCHANGED <<alive, touched, op, conn, hold, disturbed>> /\ (fresh' => fresh)
    <3>1. CASE ReadMaster \/ ReadChannel \/ OnConnected \/ RemoveAutoOff \/ WatchOnly
      BY <3>1 DEF ReadMaster, ReadChannel, OnConnected, RemoveAutoOff, WatchOnly,
         session, link, targets
    <3>2. CASE SetSetpoints
      BY <3>2 DEF SetSetpoints, session, link
    <3>3. CASE Decide
      BY <3>3 DEF Decide, session, link, targets
    <3>4. CASE Disarm \/ Arm \/ SwitchMaster
      <4>1. Switched
        BY <3>4 DEF Disarm, Arm, SwitchMaster
      <4>2. QED
        BY <4>1 DEF Switched, session, link, targets
    <3>5. QED
      BY <1>2, <3>1, <3>2, <3>3, <3>4
  <2>2. pc # "idle" /\ (pc = "gen" => conn = "up")
    <3>1. CASE ReadMaster
      BY <3>1 DEF ReadMaster, Ready, NeedsLink
    <3>2. CASE ~ReadMaster
      BY <1>2, <3>2 DEF ReadChannel, OnConnected, RemoveAutoOff, WatchOnly,
         SetSetpoints, Decide, Disarm, Arm, SwitchMaster
    <3>3. QED
      BY <3>1, <3>2
  <2>3. op.kind = "poll" /\ touched = {} /\ conn = "up"
    BY <1>2, <2>2 DEF QuietInv
  <2>4. /\ pc' \in {"set", "decide", "disarm", "arm", "master"} => hold
        /\ pc' = "adopt" => ~hold
    BY <1>2, <2>3, PollPath DEF QuietInv
  <2>5. QED
    BY <1>2, <2>1, <2>3, <2>4 DEF QuietInv
<1>3. CASE Quiet /\ Finish
  <2>1. pc = "finish" /\ pc' = "idle" /\ UNCHANGED <<alive, conn, fresh>>
    BY <1>3, PollPath DEF Finish, link, session
  <2>2. conn # "none" /\ ~fresh
    BY <2>1 DEF Sane, OpInv
  <2>3. QED
    BY <1>3, <2>1, <2>2 DEF QuietInv
<1>4. CASE Quiet /\ (Tick \/ UNCHANGED vars)
  <2>1. UNCHANGED <<alive, pc, op, touched, conn, hold, disturbed, fresh>>
    BY <1>4 DEF Tick, vars, cursor, link, targets, session
  <2>2. QED
    BY <1>4, <2>1 DEF QuietInv
<1>5. QED
  BY <1>1, <1>2, <1>3, <1>4, OnlyPolls

(* What a poll saw of the switches stays so until it writes them.          *)
LEMMA ShownStep ==
  ASSUME Sane, QuietInv, ShownInv, [Next]_vars PROVE ShownInv'
<1> SUFFICES ASSUME Quiet' PROVE ShownInv'
  BY DEF ShownInv
<1> DEFINE Shown(c) == (pc = "read" /\ c < at)
                         \/ pc \in {"connected", "prot", "set", "decide"}
           Master   == pc \in {"read", "connected", "prot", "set", "decide"}
<1>1. ASSUME pc' \notin {"read", "connected", "prot", "set", "decide"} PROVE ShownInv'
  BY <1>1 DEF ShownInv
<1>2. ASSUME Quiet, UNCHANGED <<armed, master, seen>>,
             \A c \in Ch : Shown(c)' => Shown(c), Master' => Master
      PROVE  ShownInv'
  BY <1>2 DEF ShownInv
<1>3. CASE PollStart
  BY <1>1, <1>3 DEF PollStart, Begin, Goto, cursor
<1>4. CASE Quiet /\ ReadMaster
  <2>1. pc' = "read" /\ at' = 1 /\ \A c \in Ch : ~(c < at')
    BY <1>4, PollPath, Basics DEF Ch
  <2>2. seen'.master = master /\ master' = master
    BY <1>4 DEF ReadMaster, supply, Sane, LocalsOK
  <2>3. QED
    BY <2>1, <2>2 DEF ShownInv
<1>5. CASE Quiet /\ ReadChannel
  <2>1. /\ at \in Ch /\ pc = "read"
        /\ \/ pc' = "read" /\ at' = at + 1
           \/ pc' = "connected" /\ at = NumCh
    <3>1. pc = "read" /\ op.kind = "poll"
      BY <1>5 DEF ReadChannel, QuietInv
    <3>2. QED
      BY <1>5, <3>1, PollPath DEF Sane, CursorOK
  <2>2. \A c \in Ch : Shown(c)' => c = at \/ Shown(c)
    BY <2>1, Basics DEF Ch
  <2>3. /\ UNCHANGED <<armed, master>> /\ seen'.master = seen.master
        /\ \A c \in Ch : seen'.ch[c].armed = IF c = at THEN armed[c] ELSE seen.ch[c].armed
    BY <1>5 DEF ReadChannel, supply, Sane, LocalsOK
  <2>4. QED
    BY <1>5, <2>1, <2>2, <2>3 DEF ShownInv
<1>6. CASE Quiet /\ (OnConnected \/ RemoveAutoOff)
  <2>1. UNCHANGED <<armed, master, seen>>
    BY <1>6 DEF OnConnected, RemoveAutoOff, supply, locals
  <2>2. pc \in {"connected", "prot"} /\ pc' # "read"
    BY <1>6, PollPath
  <2>3. QED
    BY <1>2, <1>6, <2>1, <2>2
<1>7. CASE Quiet /\ (SetSetpoints \/ Decide)
  <2>1. UNCHANGED <<armed, master, seen>>
    BY <1>7 DEF SetSetpoints, Decide, supply
  <2>2. pc \in {"set", "decide"} /\ pc' # "read"
    BY <1>7, PollPath
  <2>3. QED
    BY <1>2, <1>7, <2>1, <2>2
<1>8. CASE WatchOnly \/ Disarm \/ Arm \/ SwitchMaster \/ Finish
  BY <1>1, <1>8, PollPath
<1>9. CASE Quiet /\ (Tick \/ UNCHANGED vars)
  BY <1>2, <1>9 DEF Tick, vars, cursor, locals, supply
<1>10. QED
  BY <1>3, <1>4, <1>5, <1>6, <1>7, <1>8, <1>9, OnlyPolls

(* The setpoints a poll has not to write it finds as they are.             *)
LEMMA SetAgrees ==
  ASSUME Sane, AppliedInv, ReadInv, QuietInv, Quiet, pc = "set", Agreed(at)
  PROVE  InSync(at, desired)
<1>1. conn = "up" /\ touched = {} /\ at \in Ch
  BY DEF QuietInv, Sane, CursorOK
<1>2. seen.ch[at].set = setting[at]
  BY <1>1, Basics DEF ReadInv, AsRead, HalfWritten, Ch
<1>3. QED
  BY <1>1, <1>2 DEF Agreed, AppliedInv, InSync

LEMMA AgreedStep ==
  ASSUME Sane, AppliedInv, ReadInv, SetInv, QuietInv, AgreedInv, [Next]_vars
  PROVE  AgreedInv'
<1> SUFFICES ASSUME Quiet', hold' PROVE AgreedInv'
  BY DEF AgreedInv
<1> DEFINE Due(c) == AsSet(c) \/ pc = "finish" \/ disturbed = 0
<1>1. ASSUME Quiet, hold, UNCHANGED <<applied, desired, setting>>,
             \A c \in Ch : Due(c)' => Due(c)
      PROVE  AgreedInv'
  BY <1>1 DEF AgreedInv, Agreed
<1>2. CASE PollStart
  <2>1. UNCHANGED <<applied, desired, setting, hold>>
    BY <1>2 DEF PollStart, targets, supply
  <2>2. pc' \in {"idle", "gen"} /\ (disturbed' = 0 => disturbed = 0)
    BY <1>2 DEF PollStart, Begin, Goto, cursor
  <2>3. CASE Quiet
    BY <1>1, <2>1, <2>2, <2>3 DEF AsSet
  <2>4. CASE ~Quiet
    BY <2>2, <2>4 DEF AgreedInv, AsSet, Quiet
  <2>5. QED
    BY <2>3, <2>4
<1>3. CASE Quiet /\ OnConnected
  <2>1. pc' \in {"prot", "set", "adopt"} /\ at' = 1
        /\ UNCHANGED <<setting, hold, disturbed>>
    BY <1>3, PollPath DEF OnConnected, supply
  <2>2. disturbed = 0 => UNCHANGED <<applied, desired>>
    BY <1>3 DEF QuietInv, OnConnected
  <2>3. \A c \in Ch : ~AsSet(c)'
    BY <2>1, Basics DEF AsSet, Ch
  <2>4. QED
    BY <1>3, <2>1, <2>2, <2>3 DEF AgreedInv, Agreed
<1>4. CASE Quiet /\ SetSetpoints
  <2>1. /\ at \in Ch /\ pc = "set" /\ touched = {} /\ op.kind = "poll"
        /\ \/ pc' = "set" /\ at' = at + 1
           \/ pc' = "decide" /\ at' = 1 /\ at = NumCh
        /\ UNCHANGED <<desired, hold, disturbed>>
    BY <1>4, PollPath DEF SetSetpoints, QuietInv, Sane, CursorOK
  <2>2. ASSUME NEW c \in Ch, AsSet(c)' PROVE c = at \/ AsSet(c)
    BY <2>1, <2>2, Basics DEF AsSet, Ch
  <2>3. ASSUME NEW c \in Ch, c # at, Agreed(c) PROVE Agreed(c)'
    <3>1. applied'[c] = applied[c] /\ setting'[c] = setting[c]
      BY <1>4, <2>3 DEF SetSetpoints, Sane, TargetsOK, SupplyOK
    <3>2. QED
      BY <2>1, <2>3, <3>1 DEF Agreed
  <2>4. ASSUME NEW c \in Ch, c = at PROVE Agreed(c)'
    <3>1. CASE InSync(at, desired)
      <4>1. UNCHANGED <<setting, applied>>
        BY <1>4, <3>1 DEF SetSetpoints
      <4>2. seen.ch[at].set = setting[at]
        BY <1>4, <2>1, <3>1, Basics DEF ReadInv, AsRead, HalfWritten, Ch
      <4>3. QED
        BY <2>1, <2>4, <3>1, <4>1, <4>2 DEF InSync, AppliedInv, Agreed
    <3>2. CASE ~InSync(at, desired)
      <4>1. desired[at] # NoTarget
        BY <1>4, <2>1 DEF Sane, OpInv
      <4>2. desired[at].set \in Settings
        BY <2>1, <4>1, NoTargets DEF Sane, TargetsOK, Targets
      <4>3. applied'[at] = [asked |-> desired[at].set, answered |-> Answer[desired[at].set]]
            /\ setting'[at] = Answer[desired[at].set]
        BY <1>4, <2>1, <3>2 DEF SetSetpoints, Sane, TargetsOK, SupplyOK
      <4>4. applied'[at].asked = desired[at].set /\ NoApplied.asked = -1
        BY <4>3 DEF NoApplied
      <4>5. applied'[at] # NoApplied
        BY <4>2, <4>4, Basics
      <4>6. QED
        BY <2>1, <2>4, <4>3, <4>4, <4>5 DEF Agreed
    <3>3. QED
      BY <3>1, <3>2
  <2>5. QED
    BY <1>4, <2>1, <2>2, <2>3, <2>4 DEF AgreedInv
<1>5. CASE Quiet /\ (ReadMaster \/ ReadChannel \/ RemoveAutoOff)
  <2>1. UNCHANGED <<applied, desired, setting, hold, disturbed>>
    BY <1>5 DEF ReadMaster, ReadChannel, RemoveAutoOff, supply, targets
  <2>2. pc \in {"gen", "read", "prot"}
    BY <1>5 DEF ReadMaster, ReadChannel, RemoveAutoOff
  <2>3. op.kind = "poll"
    BY <1>5, <2>2 DEF QuietInv
  <2>4. pc' \in {"read", "connected", "prot", "adopt"} \/ (pc' = "set" /\ at' = 1)
    BY <1>5, <2>3, PollPath
  <2>5. \A c \in Ch : ~AsSet(c)'
    BY <2>4, Basics DEF AsSet, Ch
  <2>6. QED
    BY <1>1, <1>5, <2>1, <2>4, <2>5
<1>6. CASE Quiet /\ WatchOnly
  <2>1. UNCHANGED hold /\ pc = "adopt"
    BY <1>6 DEF WatchOnly
  <2>2. QED
    BY <1>6, <2>1 DEF QuietInv
<1>7. CASE Quiet /\ (Decide \/ Disarm \/ Arm \/ SwitchMaster)
  <2>1. UNCHANGED <<applied, desired, setting, hold, disturbed>>
    <3>1. CASE Decide
      BY <3>1 DEF Decide, supply, targets
    <3>2. CASE Switched
      BY <3>2 DEF Switched, targets
    <3>3. QED
      BY <1>7, <3>1, <3>2 DEF Disarm, Arm, SwitchMaster
  <2>2. \A c \in Ch : AsSet(c)
    BY <1>7, PollPath DEF AsSet
  <2>3. QED
    BY <1>1, <1>7, <2>1, <2>2
<1>8. CASE Quiet /\ Finish
  <2>1. UNCHANGED <<applied, desired, setting, hold>> /\ pc = "finish"
    BY <1>8 DEF Finish, targets, supply
  <2>2. QED
    BY <1>1, <1>8, <2>1
<1>9. CASE Quiet /\ (Tick \/ UNCHANGED vars)
  <2>1. UNCHANGED <<applied, desired, setting, hold, pc, at, disturbed>>
    BY <1>9 DEF Tick, vars, cursor, targets, supply
  <2>2. QED
    BY <1>1, <1>9, <2>1 DEF AsSet
<1>10. QED
  BY <1>2, <1>3, <1>4, <1>5, <1>6, <1>7, <1>8, <1>9, OnlyPolls

(* With the switches as they are wanted, the armed channels deliver power. *)
LEMMA PlacedOn ==
  ASSUME Sane, Placed, NEW c \in Ch PROVE On(c) = armed[c]
<1>1. armed[c] \in BOOLEAN /\ master \in BOOLEAN
  BY DEF Sane, SupplyOK
<1>2. QED
  BY <1>1 DEF Placed, On

(* A decision: what is wanted is the target, or the channel drops out, and *)
(* a channel that is off stays noted as dropping out.                      *)
LEMMA PlacedDecide ==
  ASSUME Sane, Quiet, QuietInv, Decide
  PROVE  /\ at \in Ch /\ op.kind = "poll" /\ touched = {}
         /\ \A c \in Ch : c # at => want'[c] = want[c] /\ down'[c] = down[c]
         /\ desired[at].output /\ ~want'[at] => down'[at]
         /\ want'[at] => desired[at].output
         /\ desired[at].output /\ ~seen.ch[at].output => down'[at]
<1>1. at \in Ch /\ op.kind = "poll" /\ touched = {}
  BY DEF Decide, QuietInv, Sane, CursorOK
<1>2. ASSUME NEW c \in Ch, c # at PROVE want'[c] = want[c] /\ down'[c] = down[c]
  BY <1>2 DEF Sane, BackoffOK, LocalsOK, Decide, Decided, backoff
<1>3. want'[at] = (desired[at].output /\ (Dropped(at) => Retries(at)))
  BY <1>1 DEF Decide, Decided, Sane, LocalsOK
<1>4. ~ByOperator(at)
  BY <1>1 DEF ByOperator
<1>5. Dropped(at) => down'[at]
  <2>1. ASSUME Dropped(at) PROVE down' = [down EXCEPT ![at] = TRUE]
    BY <1>4, <2>1 DEF Decide, Decided, Dropped, Stays
  <2>2. QED
    BY <1>1, <2>1 DEF Sane, BackoffOK
<1>6. desired[at].output /\ ~seen.ch[at].output => Dropped(at)
  BY <1>4 DEF Dropped
<1>7. QED
  BY <1>1, <1>2, <1>3, <1>5, <1>6

LEMMA PlacedStep ==
  ASSUME Sane, WantInv, ArmInv, SeenInv, QuietInv, ShownInv, PlacedInv, [Next]_vars
  PROVE  PlacedInv'
<1> SUFFICES ASSUME Quiet', hold' PROVE PlacedInv'
  BY DEF PlacedInv
<1> DEFINE Rearmed(c) == (pc = "arm" /\ c < at) \/ pc = "master"
<1>1. ASSUME Quiet, hold, UNCHANGED <<armed, master, desired, down, disturbed>>,
             pc \notin {"disarm", "arm", "master"}, pc' # "finish",
             pc' \notin {"disarm", "arm", "master"}, \A c \in Ch : ~WantKnown(c)'
      PROVE  PlacedInv'
  BY <1>1 DEF PlacedInv, Placed
<1>2. CASE PollStart
  <2>1. UNCHANGED <<armed, master, desired, down, hold>> /\ pc = "idle"
    BY <1>2 DEF PollStart, targets, supply, backoff
  <2>2. pc' \in {"idle", "gen"} /\ (disturbed' = 0 => disturbed = 0)
    BY <1>2 DEF PollStart, Begin, Goto, cursor
  <2>3. QED
    BY <2>1, <2>2 DEF PlacedInv, Placed, WantKnown, Quiet
<1>3. CASE Quiet /\ (ReadMaster \/ ReadChannel)
  <2>1. UNCHANGED <<armed, master, desired, down, disturbed, hold>>
    BY <1>3 DEF ReadMaster, ReadChannel, supply, targets, backoff
  <2>2. pc \in {"gen", "read"}
    BY <1>3 DEF ReadMaster, ReadChannel
  <2>3. pc' \in {"read", "connected"}
    BY <1>3, <2>2, PollPath DEF QuietInv
  <2>4. QED
    BY <1>1, <1>3, <2>1, <2>2, <2>3 DEF WantKnown
<1>4. CASE Quiet /\ (OnConnected \/ RemoveAutoOff)
  <2>1. UNCHANGED <<armed, master, disturbed, hold>>
        /\ (disturbed = 0 => UNCHANGED <<desired, down>>)
    <3>1. CASE OnConnected
      BY <1>4, <3>1 DEF OnConnected, QuietInv, supply
    <3>2. CASE RemoveAutoOff
      BY <3>2 DEF RemoveAutoOff, targets, backoff
    <3>3. QED
      BY <1>4, <3>1, <3>2
  <2>2. pc \in {"connected", "prot"} /\ pc' \in {"prot", "set", "adopt"}
    BY <1>4, PollPath
  <2>3. QED
    BY <1>4, <2>1, <2>2 DEF PlacedInv, Placed, WantKnown
<1>5. CASE Quiet /\ WatchOnly
  <2>1. UNCHANGED hold /\ pc = "adopt"
    BY <1>5 DEF WatchOnly
  <2>2. QED
    BY <1>5, <2>1 DEF QuietInv
<1>6. CASE Quiet /\ SetSetpoints
  <2>1. UNCHANGED <<armed, master, desired, down, disturbed, hold>>
    BY <1>6 DEF SetSetpoints, backoff
  <2>2. pc = "set" /\ (pc' = "set" \/ (pc' = "decide" /\ at' = 1))
    BY <1>6, PollPath
  <2>3. \A c \in Ch : ~WantKnown(c)'
    BY <2>2, Basics DEF WantKnown, Ch
  <2>4. QED
    BY <1>1, <1>6, <2>1, <2>2, <2>3
<1>7. CASE Quiet /\ Decide
  <2>1. UNCHANGED <<armed, master, desired, disturbed, hold, seen>> /\ pc = "decide"
    BY <1>7 DEF Decide, supply, targets
  <2>2. /\ at \in Ch
        /\ \/ pc' = "decide" /\ at' = at + 1
           \/ pc' \in {"disarm", "finish"} /\ at' = 1 /\ at = NumCh
    BY <1>7, PollPath DEF Sane, CursorOK
  <2>3. \A c \in Ch : c = at \/ c < at \/ c > at
    BY <2>2, Basics
  <2>4. ASSUME NEW c \in Ch, c = at \/ c < at
        PROVE  /\ desired[c].output /\ ~want'[c] => down'[c]
               /\ want'[c] => desired[c].output
    <3>1. CASE c = at
      BY <1>7, <3>1, PlacedDecide
    <3>2. CASE c # at
      <4>1. WantKnown(c) /\ want'[c] = want[c] /\ down'[c] = down[c]
        BY <1>7, <2>1, <2>4, <3>2, PlacedDecide DEF WantKnown
      <4>2. QED
        BY <1>7, <2>1, <4>1 DEF PlacedInv, WantInv
    <3>3. QED
      BY <3>1, <3>2
  <2>5. ASSUME disturbed = 0 PROVE Placed'
    <3>1. Placed
      BY <1>7, <2>1, <2>5 DEF PlacedInv
    <3>2. ASSUME NEW c \in Ch, desired[c].output, ~armed[c] PROVE down'[c]
      <4>1. CASE c = at
        <5>1. ~seen.ch[c].output
          BY <1>7, <2>1, <3>1, <3>2, <4>1, Basics, PlacedOn, PlacedDecide
             DEF SeenInv, AsSeen, Ch
        <5>2. QED
          BY <1>7, <3>2, <4>1, <5>1, PlacedDecide
      <4>2. CASE c # at
        BY <1>7, <3>1, <3>2, <4>2, PlacedDecide DEF Placed
      <4>3. QED
        BY <4>1, <4>2
    <3>3. QED
      BY <2>1, <3>1, <3>2 DEF Placed
  <2>6. seen.master = master /\ \A c \in Ch : seen.ch[c].armed = armed[c]
    BY <1>7, <2>1 DEF ShownInv
  <2>7. ASSUME pc' # "decide"
        PROVE  \A c \in Ch : /\ desired[c].output /\ ~want'[c] => down'[c]
                             /\ want'[c] => desired[c].output
    BY <2>2, <2>4, <2>7, Basics DEF Ch
  <2>8. CASE pc' = "decide"
    <3>1. \A c \in Ch : WantKnown(c)' => c = at \/ c < at
      BY <2>2, <2>8, Basics DEF WantKnown, Ch
    <3>2. QED
      BY <2>1, <2>4, <2>5, <2>8, <3>1 DEF PlacedInv
  <2>9. CASE pc' = "finish"
    <3>1. /\ seen.master = (\E c \in Ch : want'[c])
          /\ \A c \in Ch : seen.ch[c].armed = want'[c]
      BY <1>7, <2>9 DEF Decide, EachCh, Goto
    <3>2. Placed'
      BY <2>1, <2>6, <2>7, <2>9, <3>1 DEF Placed
    <3>3. QED
      BY <2>9, <3>2 DEF PlacedInv, WantKnown
  <2>10. CASE pc' = "disarm"
    <3>1. \/ seen.master # (\E c \in Ch : want'[c])
          \/ \E c \in Ch : seen.ch[c].armed # want'[c]
      BY <1>7, <2>10 DEF Decide, EachCh, Goto
    <3>2. ASSUME disturbed = 0, \A c \in Ch : ~down'[c] PROVE FALSE
      <4>1. Placed'
        BY <2>5, <3>2
      <4>2. \A c \in Ch : /\ armed[c] \in BOOLEAN /\ want'[c] \in BOOLEAN
                          /\ armed[c] => desired[c].output
                          /\ desired[c].output => armed[c] /\ want'[c]
                          /\ want'[c] => desired[c].output
        BY <2>1, <2>7, <2>10, <3>2, <4>1, SaneNext DEF Placed, Sane, SupplyOK, LocalsOK
      <4>3. \A c \in Ch : armed[c] = want'[c]
        BY <4>2
      <4>4. master = (\E c \in Ch : armed[c])
        BY <2>1, <4>1 DEF Placed
      <4>5. QED
        BY <2>6, <3>1, <4>3, <4>4
    <3>3. QED
      BY <2>1, <2>7, <2>10, <3>2 DEF PlacedInv
  <2>11. QED
    BY <2>2, <2>8, <2>9, <2>10
<1>8. CASE Quiet /\ (Disarm \/ Arm)
  <2>1. /\ UNCHANGED <<desired, down, disturbed, hold, want>>
        /\ at \in Ch
        /\ \/ pc = "disarm" /\ pc' = "disarm"
           \/ pc = "disarm" /\ pc' = "arm" /\ at' = 1
           \/ pc = "arm" /\ pc' = "arm" /\ at' = at + 1
           \/ pc = "arm" /\ pc' = "master" /\ at = NumCh
    BY <1>8, PollPath DEF Disarm, Arm, Switched, targets, backoff, Sane, CursorOK
  <2>2. ASSUME NEW c \in Ch, Rearmed(c)', want[c] PROVE armed'[c]
    <3>1. Arm /\ (c = at \/ Rearmed(c))
      <4>1. pc = "arm"
        BY <2>1, <2>2, Basics DEF Ch
      <4>2. Arm
        BY <1>8, <4>1 DEF Disarm
      <4>3. QED
        BY <2>1, <2>2, <4>1, <4>2, Basics DEF Ch
    <3>2. c # at => armed[c]
      BY <1>8, <2>1, <2>2, <3>1 DEF PlacedInv
    <3>3. QED
      BY <2>1, <2>2, <3>1, <3>2 DEF Arm, Sane, SupplyOK
  <2>3. QED
    BY <1>8, <2>1, <2>2 DEF PlacedInv, WantKnown
<1>9. CASE Quiet /\ SwitchMaster
  <2>1. /\ UNCHANGED <<desired, down, disturbed, hold, want, armed>>
        /\ pc = "master" /\ pc' = "finish" /\ touched = {}
        /\ master' = (\E c \in Ch : want[c])
    BY <1>9, PollPath DEF SwitchMaster, Switched, targets, backoff, QuietInv
  <2>2. \A c \in Ch : /\ armed[c] => want[c]
                      /\ want[c] => armed[c] /\ desired[c].output
                      /\ desired[c].output /\ ~want[c] => down[c]
    BY <1>9, <2>1 DEF ArmInv, Disarmed, WantInv, WantKnown, PlacedInv
  <2>3. Placed'
    BY <2>1, <2>2 DEF Placed
  <2>4. QED
    BY <2>1, <2>3 DEF PlacedInv, WantKnown
<1>10. CASE Quiet /\ Finish
  <2>1. UNCHANGED <<armed, master, desired, down, hold>> /\ pc = "finish" /\ pc' = "idle"
    BY <1>10, PollPath DEF Finish, targets, supply, backoff
  <2>2. QED
    BY <1>10, <2>1 DEF PlacedInv, Placed, WantKnown
<1>11. CASE Quiet /\ (Tick \/ UNCHANGED vars)
  <2>1. UNCHANGED <<armed, master, desired, down, hold, pc, at, disturbed, want>>
    BY <1>11 DEF Tick, vars, cursor, targets, supply, locals, backoff
  <2>2. QED
    BY <1>11, <2>1 DEF PlacedInv, Placed, WantKnown
<1>12. QED
  BY <1>2, <1>3, <1>4, <1>5, <1>6, <1>7, <1>8, <1>9, <1>10, <1>11, OnlyPolls

(* On target, the driver is quiet: unless something happened since the     *)
(* last complete poll began, or a channel is dropping out, a poll writes   *)
(* neither setpoints nor switches, for any number of channels and whatever *)
(* the supply makes of the settings it is asked for.                       *)
(* (nge.py _in_sync, _enforce.)                                            *)
THEOREM NothingRewritten == Spec => []NoIdleWrites
<1> DEFINE Inv == /\ WantInv /\ ArmInv /\ AppliedInv /\ ReadInv /\ SetInv /\ SeenInv
                  /\ QuietInv /\ ShownInv /\ AgreedInv /\ PlacedInv
<1>1. Init => Inv
  <2>1. Init => WantInv /\ ArmInv /\ AppliedInv /\ ReadInv /\ SetInv /\ SeenInv
    BY DEF Init, WantInv, ArmInv, WantKnown, Disarmed, AppliedInv, ReadInv, SetInv,
           AsRead, AsSet, SeenInv, AsSeen
  <2>2. Init => ~Quiet
    BY DEF Init, Quiet
  <2>3. QED
    BY <2>1, <2>2 DEF QuietInv, ShownInv, AgreedInv, PlacedInv
<1>2. Sane /\ Inv /\ [Next]_vars => Inv'
  BY WantStep, AppliedStep, SettingStep, SeenStep, QuietStep, ShownStep, AgreedStep,
     PlacedStep
<1>3. Sane /\ Inv => NoIdleWrites
  <2> SUFFICES ASSUME Sane, Inv, op.kind = "poll",
                      pc = "disarm" \/ (pc = "set" /\ ~InSync(at, desired)),
                      ~(disturbed > 0)
               PROVE  \E c \in Ch : down[c]
    BY DEF NoIdleWrites
  <2>1. disturbed = 0
    BY DEF Sane, HistoryOK
  <2>2. Quiet
    BY <2>1 DEF Quiet
  <2>3. hold
    BY <2>2 DEF QuietInv
  <2>4. CASE pc = "disarm"
    BY <2>1, <2>2, <2>3, <2>4 DEF PlacedInv
  <2>5. CASE pc = "set"
    <3>1. Agreed(at)
      BY <2>1, <2>2, <2>3 DEF AgreedInv, Sane, CursorOK
    <3>2. InSync(at, desired)
      BY <2>2, <2>5, <3>1, SetAgrees
    <3>3. QED
      BY <2>5, <3>2
  <2>6. QED
    BY <2>4, <2>5
<1>4. QED
  BY <1>1, <1>2, <1>3, SaneAlways, PTL DEF Spec
=============================================================================
