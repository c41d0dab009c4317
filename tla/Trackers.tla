------------------------------ MODULE Trackers ------------------------------
(***************************************************************************)
(* The trackers (src/slowcontrol/controllers/trackers.py).  A handler runs *)
(* on the client's thread, an evaluation on the controller's own: it takes *)
(* the snapshot and a copy of the list of trackers, and goes through it    *)
(* while handlers change the trackers.  A tracker that is set again is a   *)
(* new object, and the evaluation goes on with the old one.                *)
(*                                                                         *)
(* trackers.json holds what the table holds, last_sent apart: a handler    *)
(* that changes the table saves it before it returns.                      *)
(***************************************************************************)
EXTENDS StateStore

CONSTANTS
  Never,       \* last_sent: None
  Deadband     \* DEADBAND: a write that moves the target by no more is left out

ASSUME SentAssumption == Deadband \in Nat /\ Never \notin Int

VARIABLES
  trackers,    \* _trackers: tracker by id
  snap,        \* _snapshot; <<>> before the first
  evalDue,     \* TICK_S has passed since the last evaluation
  round,       \* what the evaluation under way has still to go through, by id:
               \*   the object, <<>> while it is the one in the table
  seen,        \* the snapshot it goes by
  writing      \* the value it has published and not yet noted, and of whom

tracking == <<trackers, snap, evalDue, round, seen, writing>>

Nothing == [id |-> Never, to |-> Never, value |-> Never]

Ids == DOMAIN trackers

(* start: from trackers.json, where nothing has been sent yet.             *)
TrackersInit == /\ snap = <<>> /\ seen = <<>>
                /\ evalDue = FALSE
                /\ round = <<>> /\ writing = Nothing
TrackersStart == /\ trackers' = [id \in Ids |-> [trackers[id] EXCEPT !.sent = Never, !.to = Never]]
                 /\ snap' = <<>> /\ seen' = <<>>
                 /\ evalDue' = FALSE
                 /\ round' = <<>> /\ writing' = Nothing

(* _on_snapshot (the sequencer's own callback keeps the same message).     *)
OnSnapshot == /\ Arrives("snapshot")
              /\ snap' = Msg.states
              /\ Reply(<<>>)
              /\ UNCHANGED <<trackers, evalDue, round, seen, writing>>

(* The table changes; an object of the round that is no longer in it keeps *)
(* the state it had.                                                       *)
Replaces_Not(id) == UNCHANGED round                                \* mutant
Replaces(id) ==
  round' = IF id \in DOMAIN round /\ round[id] = <<>>
           THEN [round EXCEPT ![id] = trackers[id]] ELSE round

(* _on_set: a new tracker, that inherits what the old one of this id sent  *)
(* (and, as history, where it sent it).                                    *)
Sent(id) == IF id \in Ids THEN trackers[id].sent ELSE Never
SentTo(id) == IF id \in Ids THEN trackers[id].to ELSE Never
OnSet ==
  /\ Arrives("trackers/set")
  /\ LET id == Msg.id
         new == [Msg.spec EXCEPT !.sent = Sent(id), !.to = SentTo(id)]
     IN trackers' = [x \in Ids \cup {id} |-> IF x = id THEN new ELSE trackers[x]]
  /\ Replaces(Msg.id)
  /\ Reply(<<>>)
  /\ UNCHANGED <<snap, evalDue, seen, writing>>

OnRemove ==
  /\ Arrives("trackers/remove")
  /\ trackers' = [x \in Ids \ {Msg.id} |-> trackers[x]]
  /\ Replaces(Msg.id)
  /\ Reply(<<>>)
  /\ UNCHANGED <<snap, evalDue, seen, writing>>

(* _on_enable changes the object itself.                                   *)
OnEnable ==
  /\ Arrives("trackers/enable")
  /\ trackers' = IF Msg.id \in Ids
                 THEN [trackers EXCEPT ![Msg.id].on = Msg.on] ELSE trackers
  /\ Reply(<<>>)
  /\ UNCHANGED <<snap, evalDue, round, seen, writing>>

(* _evaluate begins; without a snapshot it is over.                        *)
StartRound ==
  /\ evalDue /\ round = <<>>
  /\ evalDue' = FALSE
  /\ round' = IF snap = <<>> THEN <<>> ELSE [id \in Ids |-> <<>>]
  /\ seen' = IF Ids = {} THEN <<>> ELSE snap
  /\ UNCHANGED <<trackers, snap, writing, bus>>

Clamp(x, lo, hi) == IF x < lo THEN lo ELSE IF x > hi THEN hi ELSE x
Within(x, y)     == x - y <= Deadband /\ y - x <= Deadband

(* What a tracker wants, by the snapshot S, and whether S can say it.      *)
Usable(t, S) ==
  /\ t.source \in DOMAIN S
  /\ S[t.source].fresh # "invalid"
  /\ S[t.source].value # NoValue
Goal(t, S) == Clamp(S[t.source].value + t.offset, t.lo, t.hi)

(* Is there a new value to send.                                           *)
Moves_Once(t, S) == t.on /\ Usable(t, S) /\ t.sent = Never          \* mutant
Moves(t, S) ==
  /\ t.on
  /\ Usable(t, S)
  /\ t.sent = Never \/ ~Within(Goal(t, S), t.sent)

(* One tracker of the round, in any order: a value it is to send is        *)
(* published first, and then noted in the object as last_sent.             *)
Object(id) == IF round[id] = <<>> THEN trackers[id] ELSE round[id]
Leave(id) == /\ round' = [x \in DOMAIN round \ {id} |-> round[x]]
             /\ seen' = IF DOMAIN round = {id} THEN <<>> ELSE seen
EvalOne(id) ==
  /\ writing = Nothing /\ id \in DOMAIN round
  /\ LET t == Object(id)
     IN IF Moves(t, seen)
        THEN /\ Publish(<<[topic |-> "pid/setpoint", zone |-> t.target,
                           value |-> Goal(t, seen), by |-> id]>>)
             /\ writing' = [id |-> id, to |-> t.target, value |-> Goal(t, seen)]
             /\ UNCHANGED <<round, seen>>
        ELSE Leave(id) /\ UNCHANGED <<bus, writing>>
  /\ UNCHANGED <<trackers, snap, evalDue>>

Note ==
  /\ writing # Nothing
  /\ LET id == writing.id
     IN /\ trackers' = IF round[id] = <<>>
                       THEN [trackers EXCEPT ![id].sent = writing.value, ![id].to = writing.to]
                       ELSE trackers
        /\ Leave(id)
  /\ writing' = Nothing
  /\ UNCHANGED <<snap, evalDue, bus>>

TrackersTick == /\ ~evalDue /\ round = <<>>
                /\ evalDue' = TRUE
                /\ UNCHANGED <<trackers, snap, round, seen, writing>>
=============================================================================
