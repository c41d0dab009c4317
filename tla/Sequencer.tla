------------------------------ MODULE Sequencer ------------------------------
(***************************************************************************)
(* The sequencer (src/slowcontrol/controllers/sequencer.py): a program of  *)
(* steps and sweeps, and the thread that runs a copy of it.  A program is  *)
(* saved by every handler that changes it, so sequencer.json holds `items'.*)
(* A step has `tracks', the tracker of each target it follows, and         *)
(* `writes', its one-shot values; a sweep takes its `targets' from `from'  *)
(* to `to' by `by'.  Either holds every point for `hold' ticks.            *)
(***************************************************************************)
EXTENDS Trackers

CONSTANTS
  Runners,     \* threads that may run a program
  SeqId(_)     \* _TRACK_PREFIX: the id of the sequencer's tracker of a target

VARIABLES
  items,       \* _items
  running,     \* _running
  abort,       \* _abort_event
  active,      \* _run_active_trackers
  runner       \* by thread: where it is, the program it copied, item, point,
               \*   messages of this item still to publish, time to hold

sequencing == <<items, running, abort, active, runner>>

Idle == [pc |-> "none", prog |-> <<>>, idx |-> 0, sub |-> 0, todo |-> <<>>, left |-> 0]

SequencerInit == /\ running = FALSE /\ abort = FALSE
                 /\ active = {}
                 /\ runner = [r \in Runners |-> Idle]
SequencerStart == /\ running' = FALSE /\ abort' = FALSE
                  /\ active' = {}
                  /\ runner' = [r \in Runners |-> Idle]
                  /\ UNCHANGED items

-----------------------------------------------------------------------------
(* Commands.  The program changes while nothing runs.                      *)

Edits(topic, new) ==
  /\ Arrives(topic)
  /\ items' = IF running THEN items ELSE new
  /\ Reply(<<>>)
  /\ UNCHANGED <<running, abort, active, runner>>

OnSetProgram == bus # <<>> /\ Edits("sequencer/set", Msg.items)
OnAppend     == bus # <<>> /\ Edits("sequencer/append", Append(items, Msg.item))
OnClear      == Edits("sequencer/clear", <<>>)

(* _on_run: a thread of its own is started with a copy of the program.     *)
Startable == ~running /\ items # <<>>
Spawn(r) == runner' = [runner EXCEPT ![r] = [Idle EXCEPT !.pc = "starting", !.prog = items]]
OnRun ==
  /\ Arrives("sequencer/run")
  /\ IF Startable
     THEN /\ abort' = FALSE
          /\ \E r \in Runners : runner[r].pc = "none" /\ Spawn(r)
     ELSE UNCHANGED <<abort, runner>>
  /\ Reply(<<>>)
  /\ UNCHANGED <<items, running, active>>

OnStop ==
  /\ Arrives("sequencer/stop")
  /\ abort' = (abort \/ running)
  /\ Reply(<<>>)
  /\ UNCHANGED <<items, running, active, runner>>

-----------------------------------------------------------------------------
(* The runner thread r.                                                    *)

At(r, pc) == runner[r].pc = pc
Item(r)   == runner[r].prog[runner[r].idx]

(* Sweep.values: from `from' towards `to', both included, whichever the    *)
(* sign of the increment.                                                  *)
Abs(x) == IF x < 0 THEN -x ELSE x
Values(i) ==
  IF i.by = 0 \/ i.from = i.to THEN <<i.from>>
  ELSE [n \in 1 .. 1 + Abs(i.to - i.from) \div Abs(i.by) |->
          i.from + (n - 1) * (IF i.to < i.from THEN -Abs(i.by) ELSE Abs(i.by))]

Points(i) == IF i.kind = "step" THEN 1 ELSE Len(Values(i))

AsSeq(S) == CHOOSE q \in [1 .. Cardinality(S) -> S] : \A x \in S : \E n \in DOMAIN q : q[n] = x
MapSeq(S, Op(_)) == LET q == AsSeq(S) IN [n \in DOMAIN q |-> Op(q[n])]

(* _apply_step_actions: the step's trackers take the place of those this   *)
(* run has set so far.                                                     *)
Wanted(i) == {SeqId(z) : z \in DOMAIN i.tracks}
Dropped_None(i) == {}                                              \* mutant
Dropped(i) == active \ Wanted(i)
Reconcile(i) ==
  MapSeq(Dropped(i), LAMBDA id : [topic |-> "trackers/remove", id |-> id])
  \o MapSeq(DOMAIN i.tracks, LAMBDA z : [topic |-> "trackers/set", id |-> SeqId(z),
                                         spec |-> i.tracks[z]])

(* _write_set; without a snapshot the target's topic is unknown.           *)
Writes(F) ==
  IF snap = <<>> THEN <<>>
  ELSE MapSeq(DOMAIN F, LAMBDA z : [topic |-> "pid/setpoint", zone |-> z,
                                    value |-> F[z], by |-> "sequencer"])

(* _run_sequence: the flag goes up only now.                               *)
Begin(r) ==
  /\ At(r, "starting")
  /\ running' = TRUE /\ active' = {}
  /\ runner' = [runner EXCEPT ![r].pc = "next", ![r].idx = 1, ![r].sub = 1]
  /\ UNCHANGED <<items, abort, bus>>

Over(r) == abort \/ runner[r].idx > Len(runner[r].prog)

(* The program is done or stopped.  Its last trackers stay.                *)
End(r) ==
  /\ At(r, "next") /\ Over(r)
  /\ running' = FALSE /\ active' = {}
  /\ runner' = [runner EXCEPT ![r] = Idle]
  /\ UNCHANGED <<items, abort, bus>>

(* A step sends its trackers first, then its values; a sweep only values.  *)
Enter(r) ==
  /\ At(r, "next") /\ ~Over(r)
  /\ LET i == Item(r) IN
     runner' = [runner EXCEPT
       ![r].pc   = IF i.kind = "step" THEN "track" ELSE "hold",
       ![r].left = i.hold,
       ![r].todo = IF i.kind = "step" THEN Reconcile(i)
                   ELSE Writes([z \in i.targets |-> Values(i)[runner[r].sub]])]
  /\ UNCHANGED <<items, running, abort, active, bus>>

Send(r) ==
  /\ runner[r].todo # <<>>
  /\ Publish(<<Head(runner[r].todo)>>)
  /\ runner' = [runner EXCEPT ![r].todo = Tail(runner[r].todo)]
  /\ UNCHANGED <<items, running, abort, active>>

Tracked(r) ==
  /\ At(r, "track") /\ runner[r].todo = <<>>
  /\ active' = Wanted(Item(r))
  /\ runner' = [runner EXCEPT ![r].pc = "hold", ![r].todo = Writes(Item(r).writes)]
  /\ UNCHANGED <<items, running, abort, bus>>

(* Has the item another point.                                             *)
Further_TooFar(r) == ~abort /\ runner[r].sub <= Points(Item(r))     \* mutant
Further(r) == ~abort /\ runner[r].sub < Points(Item(r))

(* _wait_until is over; a stop ends it early.                              *)
Held(r) ==
  /\ At(r, "hold") /\ runner[r].todo = <<>>
  /\ abort \/ runner[r].left = 0
  /\ runner' = [runner EXCEPT ![r].pc = "next", ![r].left = 0,
       ![r].sub = IF Further(r) THEN @ + 1 ELSE 1,
       ![r].idx = IF Further(r) THEN @ ELSE @ + 1]
  /\ UNCHANGED <<items, running, abort, active, bus>>

Runs(r) == Begin(r) \/ End(r) \/ Enter(r) \/ Send(r) \/ Tracked(r) \/ Held(r)

(* Time passes for the threads that wait; what they do takes none.         *)
Waits(r) == At(r, "hold") /\ ~abort /\ runner[r].todo = <<>> /\ runner[r].left > 0
SequencerTick == /\ \A r \in Runners : At(r, "none") \/ Waits(r)
                 /\ runner' = [r \in Runners |->
                      IF Waits(r) THEN [runner[r] EXCEPT !.left = @ - 1] ELSE runner[r]]
                 /\ UNCHANGED <<items, running, abort, active>>
=============================================================================
