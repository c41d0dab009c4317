------------------------------- MODULE NgeHold -------------------------------
(***************************************************************************)
(* The heater supply driver (src/slowcontrol/drivers/nge.py): it keeps a   *)
(* target (output and setpoints) for each channel of an R&S NGE100 and     *)
(* puts the supply back on it, while operators press the supply's keys,    *)
(* its protections trip, its mains or its USB fail and the service is      *)
(* restarted.                                                              *)
(*                                                                         *)
(* The poll and the MQTT callbacks run under one lock, so an operation     *)
(* (poll, output, setpoint or hold command) is one sequence of reads and   *)
(* writes; the supply changes under it between any two of them.            *)
(***************************************************************************)
EXTENDS Integers

CONSTANTS
  NumCh,           \* channels of the supply (two or three)
  Settings,        \* setpoints (voltage and current limit) one can ask for
  Held,            \* ... and those the supply can hold
  Answer,          \* what the supply holds when asked for a setting
  M1,              \* the setting it starts with (memory M1)
  Protections,     \* protections M1 switches on: "opp", "fuse" or both
  DisableAutoOff,  \* nge.disable_auto_off of config.yaml
  RetryMin, RetryMax, Stable,  \* RETRY_MIN_S, RETRY_MAX_S, STABLE_S, in polls
  Reconnect,       \* RECONNECT_S, in polls
  ResumeMax,       \* nge.resume_max_age_s, in polls
  SaveEvery,       \* SAVE_EVERY_S, in polls
  DiskMayFail,     \* saving the state may fail
  MaxEvents        \* bound on the commands and disturbances of a behaviour

Ch == 1 .. NumCh

ASSUME SupplyAssumption ==
  /\ NumCh \in Nat \ {0}
  /\ Settings \subseteq Nat /\ Held \subseteq Settings /\ M1 \in Held
  /\ Answer \in [Settings -> Held]
  /\ \A s \in Held : Answer[s] = s
  /\ Protections \subseteq {"opp", "fuse"}
ASSUME TimesAssumption ==
  /\ RetryMin \in Nat /\ RetryMax \in Nat /\ RetryMin <= RetryMax
  /\ Stable \in Nat /\ RetryMin <= Stable /\ Reconnect \in Nat /\ ResumeMax \in Nat
  /\ SaveEvery \in Nat /\ MaxEvents \in Nat
  /\ {DisableAutoOff, DiskMayFail} \subseteq BOOLEAN

Target   == [output : BOOLEAN, set : Settings]
NoTarget == [output |-> FALSE, set |-> -1]       \* no entry in _desired
NoApplied == [asked |-> -1, answered |-> -1]     \* no entry in _applied
NoContact == -1                                  \* _last_contact is None

VARIABLES
  \* the supply
  armed,        \* OUTP:SEL of each channel
  master,       \* OUTP:GEN
  setting,      \* VOLT and CURR of each channel
  prot,         \* the protections each channel has on
  usb,          \* is the supply on USB and powered
  \* the driver
  alive,        \* does the process run
  conn,         \* the session: "none", "up", or "broken" and not found out
  fresh,        \* _fresh_link
  openIn,       \* polls until _next_open
  hold, desired, applied, contact, dirty,
  sinceSave,    \* polls since _last_save
  tries,        \* _auto_off_pending
  down,         \* _down: a drop-out under way
  retryIn,      \* polls until _retry_at
  delay,        \* _retry_delay
  upFor,        \* polls since _up_since
  saved,        \* nge_state.json
  due,          \* a poll interval has passed since the last poll
  \* the operation under way
  pc, at,       \* its next exchange with the supply, and the channel
  op,           \* what it is: [kind, ch, val]
  seen,         \* what it has read: the master and the channels
  want,         \* the switches it wants
  changed,      \* has it written anything
  \* history
  touched,      \* channels that changed by themselves since it began
  offs,         \* channels told to be off: "told", "kept" once on disk
  tried,        \* polls since the driver switched a channel on by itself
  disturbed,    \* 2: something happened, 1: before the poll under way,
                \* 0: before the last complete poll
  events

supply  == <<armed, master, setting, prot>>
link    == <<usb, conn>>
session == <<fresh, openIn, tries>>
targets == <<hold, desired, applied>>
known   == <<contact, dirty, sinceSave, saved>>
backoff == <<down, retryIn, delay, upFor>>
cursor  == <<pc, at, op>>
locals  == <<seen, want, changed>>
vars == <<supply, link, alive, session, targets, known, backoff, due, cursor,
          locals, touched, offs, tried, disturbed, events>>

-----------------------------------------------------------------------------
(* What the code computes.                                                 *)

Larger(a, b)  == IF a > b THEN a ELSE b
Smaller(a, b) == IF a < b THEN a ELSE b

On(c) == armed[c] /\ master      \* the channel delivers power

Unseen == [master |-> FALSE,
           ch |-> [c \in Ch |-> [output |-> FALSE, armed |-> FALSE,
                                 set |-> M1, prot |-> {}]]]
Nothing == [c \in Ch |-> FALSE]
Poll    == [kind |-> "poll", ch |-> 0, val |-> 0]

(* The channel whose target the operator has just changed.                 *)
ByOperator(c) == op.kind \in {"on", "off", "set"} /\ op.ch = c

(* Whether the supply still shows what it answered when it was last given  *)
(* the present target.                                                     *)
InSync_AnswerOnly(c, d) ==               \* mutant: the target may have changed
  applied[c] # NoApplied /\ seen.ch[c].set = applied[c].answered
InSync_Request(c, d) == seen.ch[c].set = d[c].set     \* mutant: asked, not got
InSync(c, d) ==
  /\ applied[c] # NoApplied
  /\ applied[c].asked = d[c].set
  /\ seen.ch[c].set = applied[c].answered

(* What remove_auto_off takes away: over-power protection, and the fuse of *)
(* a channel that is off; nothing once it was tried three times.           *)
ToRemove_OppOnly(c) ==                   \* mutant: the fuse is forgotten
  IF tries[c] < 3 THEN seen.ch[c].prot \ {"fuse"} ELSE {}
ToRemove(c) ==
  IF tries[c] >= 3 THEN {}
  ELSE {p \in seen.ch[c].prot : p = "fuse" => ~seen.ch[c].output}

(* A drop-out: on by target, off at the supply, and not an operator's.     *)
Dropped(c)  == desired[c].output /\ ~seen.ch[c].output /\ ~ByOperator(c)
Stays(c)    == desired[c].output /\ seen.ch[c].output /\ ~ByOperator(c)
Retries_Always(c) == Dropped(c)          \* mutant: no waiting
Retries(c)  == Dropped(c) /\ retryIn[c] = 0
Clears(c)   == desired[c].output /\ ~seen.ch[c].output
                 /\ (ByOperator(c) \/ Retries(c))

(* _adopt: the targets become what the supply was seen to do.              *)
Adopted == [c \in Ch |-> [output |-> seen.ch[c].output, set |-> seen.ch[c].set]]
Adopt ==
  /\ desired' = Adopted
  /\ applied' = [c \in Ch |-> [asked |-> seen.ch[c].set,
                               answered |-> seen.ch[c].set]]
  /\ down' = Nothing

(* _save_state, of these: nothing to save before the first contact.        *)
Save(h, c, d) ==
  /\ dirty' = FALSE /\ sinceSave' = 0
  /\ IF c = NoContact THEN UNCHANGED saved
     ELSE \/ saved' = [hold |-> h, contact |-> c, desired |-> d]
          \/ DiskMayFail /\ UNCHANGED saved

(* The history of OFF commands given under hold: one given while the       *)
(* supply is out of reach, and one that is on disk once it is over.        *)
NoOffs == [c \in Ch |-> "no"]
IsOff(d, c) == d[c] # NoTarget /\ ~d[c].output
ToldOff(c) ==
  offs' = [offs EXCEPT ![c] = IF hold /\ ~usb /\ @ = "no" THEN "told" ELSE @]
OffDone(c, d) ==
  offs' = [offs EXCEPT ![c] =
             IF ~hold THEN "no"
             ELSE IF IsOff(d, c) /\ IsOff(saved'.desired, c) /\ saved'.hold
                  THEN "kept" ELSE IF conn = "none" THEN "told" ELSE @]

-----------------------------------------------------------------------------
(* The service starts for the first time, with the supply in any state.    *)
Init ==
  /\ armed \in [Ch -> BOOLEAN] /\ master \in BOOLEAN
  /\ setting \in [Ch -> Held] /\ prot \in [Ch -> SUBSET Protections]
  /\ usb = TRUE /\ conn = "none"
  /\ alive = TRUE
  /\ fresh = FALSE /\ openIn = 0 /\ tries = [c \in Ch |-> 0]
  /\ hold \in BOOLEAN
  /\ desired = [c \in Ch |-> NoTarget] /\ applied = [c \in Ch |-> NoApplied]
  /\ contact = NoContact /\ dirty = FALSE /\ sinceSave = 0
  /\ saved = [hold |-> hold, contact |-> NoContact, desired |-> desired]
  /\ down = Nothing /\ retryIn = [c \in Ch |-> 0]
  /\ delay = [c \in Ch |-> 0] /\ upFor = [c \in Ch |-> 0]
  /\ due = TRUE
  /\ pc = "idle" /\ at = 1 /\ op = Poll
  /\ seen = Unseen /\ want = Nothing /\ changed = FALSE
  /\ touched = {} /\ offs = NoOffs /\ tried = [c \in Ch |-> RetryMin]
  /\ disturbed = 2 /\ events = 0

(* One more command or disturbance.                                        *)
Event == events < MaxEvents /\ events' = events + 1

-----------------------------------------------------------------------------
(* An operation's exchanges with the supply.                               *)

Goto(l, i) == pc' = l /\ at' = i
EachCh(l, next) == IF at < NumCh THEN Goto(l, at + 1) ELSE Goto(next, 1)

(* The operation is over; its locals are forgotten.                        *)
Over ==
  /\ Goto("idle", 1) /\ op' = Poll
  /\ seen' = Unseen /\ want' = Nothing /\ changed' = FALSE /\ touched' = {}

(* Whether the next step of the operation talks to the supply.             *)
NeedsLink ==
  CASE pc \in {"gen", "read", "master"} -> TRUE
    [] pc = "prot"   -> ToRemove(at) # {}
    [] pc = "set"    -> ~InSync(at, desired)
    [] pc = "decide" -> Clears(at)
    [] pc = "disarm" -> ~want[at]
    [] pc = "arm"    -> want[at]
    [] pc = "finish" -> changed \/ op.kind # "poll"
    [] OTHER         -> FALSE
Ready == NeedsLink => conn = "up"

Begin(o) ==
  /\ Goto("gen", 1) /\ op' = o /\ touched' = {}
  /\ UNCHANGED locals

(* poll and _open: without a session one is opened, when its time has come *)
(* and the supply is there; a failing attempt sets the time of the next.   *)
PollStart ==
  /\ alive /\ pc = "idle" /\ due
  /\ due' = FALSE
  /\ disturbed' = (IF disturbed = 2 THEN 1 ELSE disturbed)
  /\ IF conn # "none" THEN Begin(Poll) /\ UNCHANGED <<conn, session>>
     ELSE IF openIn = 0 /\ usb
       THEN /\ Begin(Poll)
            /\ conn' = "up" /\ fresh' = TRUE /\ openIn' = Reconnect
            /\ tries' = [c \in Ch |-> 0]
       ELSE /\ openIn' = (IF openIn = 0 THEN Reconnect ELSE openIn)
            /\ UNCHANGED <<conn, fresh, tries, cursor, locals, touched>>
  /\ UNCHANGED <<supply, usb, alive, targets, known, backoff, offs, tried, events>>

(* _read_all: the master, then the channels one after the other.           *)
ReadMaster ==
  /\ pc = "gen" /\ Ready
  /\ seen' = [seen EXCEPT !.master = master]
  /\ Goto("read", 1)
  /\ UNCHANGED <<supply, link, alive, session, targets, known, backoff, due,
                 op, want, changed, touched, offs, tried, disturbed, events>>

ReadChannel ==
  /\ pc = "read" /\ Ready
  /\ seen' = [seen EXCEPT !.ch[at] =
                [output |-> On(at), armed |-> armed[at], set |-> setting[at],
                 prot |-> prot[at]]]
  /\ EachCh("read", IF op.kind = "poll" THEN "connected" ELSE "change")
  /\ UNCHANGED <<supply, link, alive, session, targets, known, backoff, due,
                 op, want, changed, touched, offs, tried, disturbed, events>>

(* _on_connected: carry on with the remembered targets, if they are held,  *)
(* complete and recent; otherwise adopt the state of the supply.           *)
CarriesOn_Incomplete ==                  \* mutant: whether complete or not
  hold /\ contact # NoContact /\ contact <= ResumeMax
CarriesOn ==
  /\ hold /\ \A c \in Ch : desired[c] # NoTarget
  /\ contact # NoContact /\ contact <= ResumeMax

OnConnected ==
  /\ pc = "connected"
  /\ fresh' = FALSE
  /\ IF ~fresh THEN UNCHANGED <<desired, applied, down, dirty, offs, tried>>
     ELSE IF CarriesOn
       THEN /\ applied' = [c \in Ch |-> NoApplied]
            /\ UNCHANGED <<desired, down, dirty, offs, tried>>
       ELSE /\ Adopt /\ dirty' = (dirty \/ Adopted # desired)
            /\ offs' = NoOffs /\ tried' = [c \in Ch |-> RetryMin]
  /\ Goto(IF DisableAutoOff THEN "prot" ELSE IF hold THEN "set" ELSE "adopt", 1)
  /\ UNCHANGED <<supply, link, alive, openIn, tries, hold, contact, sinceSave,
                 saved, retryIn, delay, upFor, due, op, locals, touched,
                 disturbed, events>>

(* The supply refuses to change the fuse of a channel that is on.          *)
RemoveAutoOff ==
  /\ pc = "prot" /\ Ready
  /\ prot' = [prot EXCEPT ![at] =
                {p \in @ : p \in ToRemove(at) => p = "fuse" /\ On(at)}]
  /\ tries' = [tries EXCEPT ![at] =
                 IF tries[at] >= 3 THEN 3
                 ELSE IF ToRemove(at) = {} THEN 0 ELSE @ + 1]
  /\ changed' = (changed \/ ToRemove(at) # {})
  /\ EachCh("prot", IF hold THEN "set" ELSE "adopt")
  /\ UNCHANGED <<armed, master, setting, link, alive, fresh, openIn, targets,
                 known, backoff, due, op, seen, want, touched, offs, tried,
                 disturbed, events>>

(* Without hold a poll only watches.                                       *)
WatchOnly ==
  /\ pc = "adopt"
  /\ Adopt /\ dirty' = (dirty \/ Adopted # desired)
  /\ offs' = NoOffs /\ tried' = [c \in Ch |-> RetryMin]
  /\ Goto("finish", 1)
  /\ UNCHANGED <<supply, link, alive, session, hold, contact, sinceSave, saved,
                 retryIn, delay, upFor, due, op, locals, touched, disturbed,
                 events>>

(* _enforce, setpoints first.                                              *)
SetSetpoints ==
  /\ pc = "set" /\ Ready
  /\ IF InSync(at, desired) THEN UNCHANGED <<setting, applied, changed>>
     ELSE LET asked == desired[at].set IN
          /\ setting' = [setting EXCEPT ![at] = Answer[asked]]
          /\ applied' = [applied EXCEPT ![at] =
                           [asked |-> asked, answered |-> Answer[asked]]]
          /\ changed' = TRUE
  /\ EachCh("set", "decide")
  /\ UNCHANGED <<armed, master, prot, link, alive, session, hold, desired,
                 known, backoff, due, op, seen, want, touched, offs, tried,
                 disturbed, events>>

(* ... then, channel by channel, what its switch should be: the target's,  *)
(* unless the channel dropped out again and is being left off for a while. *)
Decided ==
  /\ want' = [want EXCEPT ![at] = desired[at].output /\ (Dropped(at) => Retries(at))]
  /\ CASE ByOperator(at) ->
            /\ down' = [down EXCEPT ![at] = FALSE]
            /\ retryIn' = [retryIn EXCEPT ![at] = 0]
            /\ delay' = [delay EXCEPT ![at] = 0]
            /\ UNCHANGED upFor
       [] Dropped(at) ->
            LET next == Smaller(RetryMax, Larger(RetryMin, 2 * delay[at])) IN
            /\ down' = [down EXCEPT ![at] = TRUE]
            /\ delay' = [delay EXCEPT ![at] = IF Retries(at) THEN next ELSE @]
            /\ retryIn' = [retryIn EXCEPT ![at] = IF Retries(at) THEN next ELSE @]
            /\ UNCHANGED upFor
       [] Stays(at) /\ down[at] ->
            /\ down' = [down EXCEPT ![at] = FALSE]
            /\ upFor' = [upFor EXCEPT ![at] = 0]
            /\ UNCHANGED <<retryIn, delay>>
       [] Stays(at) /\ ~down[at] /\ upFor[at] >= Stable ->
            /\ retryIn' = [retryIn EXCEPT ![at] = 0]
            /\ delay' = [delay EXCEPT ![at] = 0]
            /\ UNCHANGED <<down, upFor>>
       [] OTHER -> UNCHANGED backoff

Decide ==
  /\ pc = "decide" /\ Ready
  /\ Decided
  /\ EachCh("decide",
       IF seen.master # (\E c \in Ch : want'[c])
            \/ \E c \in Ch : seen.ch[c].armed # want'[c]
       THEN "disarm" ELSE "finish")
  /\ UNCHANGED <<supply, link, alive, session, targets, known, due, op, seen,
                 changed, touched, offs, tried, disturbed, events>>

(* set_outputs: all that should be off, all that should be on, the master. *)
(* The history notes a channel the driver switches on by itself.           *)
Switched ==
  /\ changed' = TRUE
  /\ tried' = [c \in Ch |->
                 IF On(c)' /\ ~On(c) /\ ~ByOperator(c) /\ c \notin touched
                 THEN 0 ELSE tried[c]]
  /\ UNCHANGED <<setting, prot, link, alive, session, targets, known, backoff,
                 due, op, seen, want, touched, offs, disturbed, events>>

Disarm_Skipped ==                        \* mutant: channels left armed
  /\ pc = "disarm" /\ Ready
  /\ EachCh("disarm", "arm")
  /\ UNCHANGED <<armed, master>>
  /\ Switched
Disarm ==
  /\ pc = "disarm" /\ Ready
  /\ armed' = [armed EXCEPT ![at] = IF want[at] THEN @ ELSE FALSE]
  /\ EachCh("disarm", "arm")
  /\ UNCHANGED master
  /\ Switched

Arm ==
  /\ pc = "arm" /\ Ready
  /\ armed' = [armed EXCEPT ![at] = IF want[at] THEN TRUE ELSE @]
  /\ EachCh("arm", "master")
  /\ UNCHANGED master
  /\ Switched

SwitchMaster ==
  /\ pc = "master" /\ Ready
  /\ master' = (\E c \in Ch : want[c])
  /\ Goto("finish", 1)
  /\ UNCHANGED armed
  /\ Switched

(* The rest of _cycle and of _command: what was changed is read back, the  *)
(* supply was in contact, and the targets are saved - by a poll when they  *)
(* changed or were not saved for a while.                                  *)
Finish ==
  /\ pc = "finish" /\ Ready
  /\ contact' = 0
  /\ IF op.kind # "poll" \/ dirty \/ sinceSave > SaveEvery
       THEN Save(hold, 0, desired)
       ELSE UNCHANGED <<dirty, sinceSave, saved>>
  /\ IF op.kind = "off" THEN OffDone(op.ch, desired) ELSE UNCHANGED offs
  /\ disturbed' = (IF op.kind = "poll" /\ disturbed = 1 THEN 0 ELSE disturbed)
  /\ Over
  /\ UNCHANGED <<supply, link, alive, session, targets, backoff, due, tried, events>>

(* An exchange fails: the session is closed, to be opened anew later.  A   *)
(* command saves the targets all the same; a drop-out just seen is noted.  *)
Fails ==
  /\ conn = "broken" /\ NeedsLink
  /\ conn' = "none" /\ openIn' = Reconnect
  /\ contact' = (IF op.kind = "hold" /\ contact = NoContact THEN 0 ELSE contact)
  /\ IF op.kind = "poll" THEN UNCHANGED <<dirty, sinceSave, saved>>
                         ELSE Save(hold, contact', desired)
  /\ IF op.kind = "off" THEN OffDone(op.ch, desired) ELSE UNCHANGED offs
  /\ IF pc = "decide"
       THEN /\ down' = [down EXCEPT ![at] = ~ByOperator(at)]
            /\ retryIn' = [retryIn EXCEPT ![at] = IF ByOperator(at) THEN 0 ELSE @]
            /\ delay' = [delay EXCEPT ![at] = IF ByOperator(at) THEN 0 ELSE @]
       ELSE UNCHANGED <<down, retryIn, delay>>
  /\ Over /\ disturbed' = 2
  /\ UNCHANGED <<supply, usb, alive, fresh, tries, targets, upFor, due, tried,
                 events>>

-----------------------------------------------------------------------------
(* Commands.  They wait for the lock, so they begin between operations.    *)

CommandBegins(o) ==
  /\ conn # "none"
  /\ Begin(o)
  /\ UNCHANGED <<supply, link, alive, session, desired, applied, known, backoff,
                 due>>

OnOutput_Queued(c, on) ==                \* mutant: ON is remembered as well
  /\ alive /\ pc = "idle" /\ Event
  /\ \/ /\ CommandBegins([kind |-> IF on THEN "on" ELSE "off", ch |-> c, val |-> 0])
        /\ IF on THEN UNCHANGED offs ELSE ToldOff(c)
     \/ /\ conn = "none" /\ desired[c] # NoTarget
        /\ desired' = [desired EXCEPT ![c].output = on]
        /\ Save(hold, contact, desired')
        /\ IF on THEN UNCHANGED offs ELSE OffDone(c, desired')
        /\ UNCHANGED <<supply, link, alive, session, applied, contact, backoff,
                       due, cursor, locals, touched>>
  /\ disturbed' = 2
  /\ UNCHANGED <<hold, tried>>

(* On needs a session; off without one only changes the target.            *)
OnOutput(c, on) ==
  /\ alive /\ pc = "idle" /\ Event
  /\ \/ /\ CommandBegins([kind |-> IF on THEN "on" ELSE "off", ch |-> c, val |-> 0])
        /\ IF on THEN UNCHANGED offs ELSE ToldOff(c)
     \/ /\ conn = "none" /\ ~on
        /\ IF desired[c].output
             THEN /\ desired' = [desired EXCEPT ![c].output = FALSE]
                  /\ Save(hold, contact, desired')
             ELSE UNCHANGED <<desired, dirty, sinceSave, saved>>
        /\ OffDone(c, desired')
        /\ UNCHANGED <<supply, link, alive, session, applied, contact, backoff,
                       due, cursor, locals, touched>>
  /\ disturbed' = 2
  /\ UNCHANGED <<hold, tried>>

OnSetpoint(c, s) ==
  /\ alive /\ pc = "idle" /\ Event
  /\ CommandBegins([kind |-> "set", ch |-> c, val |-> s])
  /\ disturbed' = 2
  /\ UNCHANGED <<hold, offs, tried>>

(* Switching hold on holds the supply as it is: as it is read, or as it    *)
(* will be found.                                                          *)
OnHold(b) ==
  /\ alive /\ pc = "idle" /\ Event
  /\ hold' = b
  /\ \/ b /\ CommandBegins([kind |-> "hold", ch |-> 0, val |-> 0])
     \/ /\ b => conn = "none"
        /\ desired' = (IF b THEN [c \in Ch |-> NoTarget] ELSE desired)
        /\ contact' = (IF contact = NoContact THEN 0 ELSE contact)
        /\ Save(b, contact', desired')
        /\ UNCHANGED <<supply, link, alive, session, applied, backoff, due,
                       cursor, locals, touched>>
  /\ offs' = NoOffs /\ tried' = [c \in Ch |-> RetryMin] /\ disturbed' = 2

(* A command has read the supply: without hold the targets are first       *)
(* brought level with it, then the command's own is changed.               *)
Change ==
  /\ pc = "change" /\ op.kind # "hold"
  /\ LET level == IF hold THEN desired ELSE Adopted
         old == level[op.ch]
         new == IF op.kind = "set" THEN [old EXCEPT !.set = op.val]
                                   ELSE [old EXCEPT !.output = (op.kind = "on")]
     IN desired' = [level EXCEPT ![op.ch] = new]
  /\ IF hold THEN UNCHANGED <<applied, down>>
     ELSE /\ applied' = [c \in Ch |-> [asked |-> seen.ch[c].set,
                                       answered |-> seen.ch[c].set]]
          /\ down' = Nothing
  /\ dirty' = TRUE
  /\ offs' = (IF ~hold THEN NoOffs
              ELSE IF op.kind = "on" THEN [offs EXCEPT ![op.ch] = "no"] ELSE offs)
  /\ tried' = [c \in Ch |-> IF ByOperator(c) \/ ~hold THEN RetryMin ELSE tried[c]]
  /\ Goto("set", 1)
  /\ UNCHANGED <<supply, link, alive, session, hold, contact, sinceSave, saved,
                 retryIn, delay, upFor, due, op, locals, touched, disturbed,
                 events>>

HoldNow ==
  /\ pc = "change" /\ op.kind = "hold"
  /\ Adopt
  /\ contact' = (IF contact = NoContact THEN 0 ELSE contact)
  /\ Save(hold, contact', desired')
  /\ Over
  /\ UNCHANGED <<supply, link, alive, session, hold, retryIn, delay, upFor, due,
                 offs, tried, disturbed, events>>

OpStep ==
  \/ PollStart \/ ReadMaster \/ ReadChannel \/ OnConnected \/ RemoveAutoOff
  \/ WatchOnly \/ Change \/ HoldNow \/ SetSetpoints \/ Decide \/ Disarm \/ Arm
  \/ SwitchMaster \/ Finish \/ Fails

Command ==
  \/ \E c \in Ch, on \in BOOLEAN : OnOutput(c, on)
  \/ \E c \in Ch, s \in Settings : OnSetpoint(c, s)
  \/ \E b \in BOOLEAN : OnHold(b)

-----------------------------------------------------------------------------
(* The supply, its front panel, its mains and its cable.                   *)

Disturbs(cs) ==
  /\ touched' = (IF pc = "idle" THEN touched ELSE touched \cup cs)
  /\ disturbed' = 2
  /\ UNCHANGED <<alive, session, targets, known, backoff, due, cursor, locals,
                 offs, tried>>

PressOutput ==
  /\ Event
  /\ master' = ~master
  /\ UNCHANGED <<armed, setting, prot, link>>
  /\ Disturbs(Ch)

PressChannel(c) ==
  /\ Event
  /\ armed' = [armed EXCEPT ![c] = ~@]
  /\ UNCHANGED <<master, setting, prot, link>>
  /\ Disturbs({c})

TurnKnob(c, s) ==
  /\ Event
  /\ s # setting[c]
  /\ setting' = [setting EXCEPT ![c] = s]
  /\ UNCHANGED <<armed, master, prot, link>>
  /\ Disturbs({c})

(* A protection that is on may trip a channel that is, whatever the load.  *)
Trip(c) ==
  /\ On(c) /\ prot[c] # {}
  /\ armed' = [armed EXCEPT ![c] = FALSE]
  /\ UNCHANGED <<master, setting, prot, link, events>>
  /\ Disturbs({c})

Breaks ==
  /\ usb' = FALSE
  /\ conn' = (IF conn = "up" THEN "broken" ELSE conn)

(* Between the two writes of a setting, the one without the other is left. *)
UsbLost ==
  /\ usb /\ Event
  /\ Breaks
  /\ \/ UNCHANGED setting
     \/ /\ pc = "set" /\ ~InSync(at, desired) /\ conn = "up"
        /\ \E s \in Held : setting' = [setting EXCEPT ![at] = s]
  /\ UNCHANGED <<armed, master, prot>>
  /\ Disturbs({})

(* Mains off and on: everything off, settings and protections of M1.       *)
PowerCut ==
  /\ usb /\ Event
  /\ Breaks
  /\ armed' = Nothing /\ master' = FALSE
  /\ setting' = [c \in Ch |-> M1] /\ prot' = [c \in Ch |-> Protections]
  /\ Disturbs(Ch)

UsbBack ==
  /\ ~usb
  /\ usb' = TRUE
  /\ UNCHANGED <<supply, conn, events>>
  /\ Disturbs({})

Panel ==
  \/ PressOutput
  \/ \E c \in Ch : PressChannel(c) \/ Trip(c) \/ \E s \in Held : TurnKnob(c, s)
Outage == UsbLost \/ PowerCut \/ UsbBack

-----------------------------------------------------------------------------
(* The process and the clock.  What a process knew is gone with it, but    *)
(* for the file; the supply stays as it is.                                *)

Gone ==
  /\ alive' = FALSE /\ conn' = "none" /\ due' = FALSE
  /\ fresh' = FALSE /\ openIn' = 0 /\ tries' = [c \in Ch |-> 0]
  /\ hold' = FALSE
  /\ desired' = [c \in Ch |-> NoTarget] /\ applied' = [c \in Ch |-> NoApplied]
  /\ contact' = NoContact /\ dirty' = FALSE /\ sinceSave' = 0
  /\ down' = Nothing /\ retryIn' = [c \in Ch |-> 0]
  /\ delay' = [c \in Ch |-> 0] /\ upFor' = [c \in Ch |-> 0]
  /\ Over
  /\ offs' = [c \in Ch |-> IF offs[c] = "kept" THEN "kept" ELSE "no"]
  /\ tried' = [c \in Ch |-> RetryMin] /\ disturbed' = 2
  /\ UNCHANGED <<supply, usb>>

Crash == alive /\ Event /\ Gone /\ UNCHANGED saved

(* disconnect: the targets are saved a last time.                          *)
Stop ==
  /\ alive /\ pc = "idle" /\ Event
  /\ \/ saved' = (IF contact = NoContact THEN saved
                  ELSE [hold |-> hold, contact |-> contact, desired |-> desired])
     \/ DiskMayFail /\ UNCHANGED saved
  /\ Gone

Start ==
  /\ ~alive
  /\ alive' = TRUE /\ due' = TRUE
  /\ hold' = saved.hold /\ contact' = saved.contact /\ desired' = saved.desired
  /\ UNCHANGED <<supply, link, session, applied, dirty, sinceSave, saved, backoff,
                 cursor, locals, touched, offs, tried, disturbed, events>>

Older(c) == IF c = NoContact THEN c ELSE Smaller(c + 1, ResumeMax + 1)
Tick ==
  /\ alive => pc = "idle" /\ ~due
  /\ due' = alive
  /\ contact' = Older(contact) /\ saved' = [saved EXCEPT !.contact = Older(@)]
  /\ retryIn' = [c \in Ch |-> Larger(0, retryIn[c] - 1)]
  /\ upFor' = [c \in Ch |-> Smaller(Stable, upFor[c] + 1)]
  /\ tried' = [c \in Ch |-> Smaller(RetryMin, tried[c] + 1)]
  /\ openIn' = Larger(0, openIn - 1)
  /\ sinceSave' = Smaller(SaveEvery + 1, sinceSave + 1)
  /\ UNCHANGED <<supply, link, alive, fresh, tries, targets, dirty, down, delay,
                 cursor, locals, touched, offs, disturbed, events>>

Next == OpStep \/ Command \/ Panel \/ Outage \/ Crash \/ Stop \/ Start \/ Tick

Spec == Init /\ [][Next]_vars

(* The poll thread goes on, an operation comes to its end, time passes.    *)
FairSpec == Spec /\ WF_vars(OpStep) /\ WF_vars(Tick)

-----------------------------------------------------------------------------
Kinds == {"poll", "on", "off", "set", "hold"}
Ops   == {"idle", "gen", "read", "connected", "change", "prot", "adopt", "set",
          "decide", "disarm", "arm", "master", "finish"}
Targets == [Ch -> Target \cup {NoTarget}]
Ages    == {NoContact} \cup 0 .. ResumeMax + 1

SupplyOK ==
  /\ armed \in [Ch -> BOOLEAN] /\ master \in BOOLEAN /\ setting \in [Ch -> Held]
  /\ prot \in [Ch -> SUBSET Protections]

SessionOK ==
  /\ usb \in BOOLEAN /\ conn \in {"none", "up", "broken"}
  /\ alive \in BOOLEAN /\ due \in BOOLEAN
  /\ fresh \in BOOLEAN /\ openIn \in 0 .. Reconnect /\ tries \in [Ch -> 0 .. 3]

TargetsOK ==
  /\ hold \in BOOLEAN /\ desired \in Targets
  /\ applied \in [Ch -> [asked : Settings, answered : Held] \cup {NoApplied}]

KnownOK ==
  /\ contact \in Ages /\ dirty \in BOOLEAN /\ sinceSave \in 0 .. SaveEvery + 1
  /\ saved \in [hold : BOOLEAN, contact : Ages, desired : Targets]

BackoffOK ==
  /\ down \in [Ch -> BOOLEAN] /\ upFor \in [Ch -> 0 .. Stable]
  /\ retryIn \in [Ch -> 0 .. RetryMax] /\ delay \in [Ch -> 0 .. RetryMax]

CursorOK ==
  /\ pc \in Ops /\ at \in Ch
  /\ op \in [kind : Kinds, ch : 0 .. NumCh, val : Settings \cup {0}]
  /\ op.kind \in {"on", "off", "set"} => op.ch \in Ch

LocalsOK ==
  /\ seen \in [master : BOOLEAN,
               ch : [Ch -> [output : BOOLEAN, armed : BOOLEAN, set : Held,
                            prot : SUBSET Protections]]]
  /\ want \in [Ch -> BOOLEAN] /\ changed \in BOOLEAN

HistoryOK ==
  /\ touched \in SUBSET Ch /\ offs \in [Ch -> {"no", "told", "kept"}]
  /\ tried \in [Ch -> 0 .. RetryMin] /\ disturbed \in 0 .. 2
  /\ events \in 0 .. MaxEvents

(* Every variable has its type; above all, an operation that carries out   *)
(* targets has one for every channel, so that none of its lookups fails    *)
(* (nge.py _in_sync, _enforce, _command: self._desired[ch]).               *)
TypeOK ==
  /\ SupplyOK /\ SessionOK /\ TargetsOK /\ KnownOK /\ BackoffOK
  /\ CursorOK /\ LocalsOK /\ HistoryOK
  /\ pc \in {"set", "decide", "disarm", "arm", "master"} =>
       \A c \in Ch : desired[c] # NoTarget

(* An exchange of the driver makes channel c deliver power, and c did not  *)
(* change by itself since the operation began.                             *)
SwitchesOn(c) ==
  <<pc, at>>' # <<pc, at>> /\ On(c)' /\ ~On(c) /\ c \notin touched

(* The master switch feeds every armed channel, so switching one on must   *)
(* never wake another: the driver only makes channels deliver power whose  *)
(* target is on, whoever armed them and wherever an operation broke off.   *)
(* (nge.py set_outputs, "Never OUTP ON".)                                  *)
NothingUnasked == [][\A c \in Ch : SwitchesOn(c) => desired[c].output]_vars

(* A channel the driver switches on has its target's setpoints by then:    *)
(* not those of memory M1, of the panel or of the target before, after any *)
(* power cut, lost link or half-written setting.                           *)
(* (nge.py _enforce and _in_sync, setpoints before outputs.)               *)
SetpointsFirst ==
  [][\A c \in Ch : SwitchesOn(c) => setting[c] = Answer[desired[c].set]]_vars

(* A channel whose OFF was carried out or remembered under hold, and is on *)
(* disk, is not switched on by the driver until it is told ON or the state *)
(* of the supply is adopted: across crashes, restarts, power cuts, failing *)
(* saves and commands on other channels.  (nge.py _on_output, _save_state, *)
(* _load_state, _on_connected.)                                            *)
OffStaysOff == [][\A c \in Ch : SwitchesOn(c) => offs[c] # "kept"]_vars

(* A channel that will not stay on is not hammered: the driver switches it *)
(* on by itself at most once in RETRY_MIN_S, whatever the panel, the link  *)
(* and commands on other channels do.  (nge.py _enforce, back-off.)        *)
RetriesSpaced ==
  [][\A c \in Ch : SwitchesOn(c) /\ ~ByOperator(c) => tried[c] = RetryMin]_vars

(* On target, the driver is quiet: a poll writes setpoints or switches     *)
(* only if something happened since the last complete poll began, or a     *)
(* channel is dropping out; a request the supply caps is not sent again    *)
(* and again.                                                              *)
(* (nge.py _in_sync, "would otherwise be rewritten every poll".)           *)
NoIdleWrites ==
  op.kind = "poll" /\ (pc = "disarm" \/ (pc = "set" /\ ~InSync(at, desired)))
    => disturbed > 0 \/ \E c \in Ch : down[c]

(* Every channel is as its target says.                                    *)
OnTarget ==
  \A c \in Ch :
    /\ desired[c] # NoTarget
    /\ On(c) = desired[c].output
    /\ setting[c] = Answer[desired[c].set]

(* Hold restores: once commands and disturbances stop, with the supply in  *)
(* reach, it comes to stay on its targets - trips included, because the    *)
(* protections that cause them are taken away, the fuse when the channel   *)
(* is next off - unless the driver has given up on a channel's protections *)
(* after three tries, which a hand at the panel can bring about as well as *)
(* a fault.  (nge.py _enforce, _remove_auto_off, _open.)                   *)
GivenUp == \E c \in Ch : tries[c] = 3
HoldRestores == <>[](alive /\ hold /\ usb /\ ~GivenUp) => <>[]OnTarget

-----------------------------------------------------------------------------
(* What the proofs need besides.                                           *)

(* An operation needs a session and belongs to its command; a session that *)
(* is not fresh has a target for every channel.                            *)
OpInv ==
  /\ pc # "idle" => conn # "none"
  /\ conn # "none" => alive
  /\ conn # "none" /\ fresh => pc \in {"gen", "read", "connected"} /\ op.kind = "poll"
  /\ conn # "none" /\ ~fresh => \A c \in Ch : desired[c] # NoTarget
  /\ pc = "connected" => op.kind = "poll"
  /\ pc = "change" => op.kind # "poll"
  /\ op.kind = "set" => op.val \in Settings
  /\ op.kind = "hold" => pc \in {"gen", "read", "change"}

(* The switches wanted are those of the targets, as far as decided; and    *)
(* the channels armed are wanted, as far as disarmed.                      *)
WantKnown(c) == (pc = "decide" /\ c < at) \/ pc \in {"disarm", "arm", "master"}
WantInv == \A c \in Ch : WantKnown(c) /\ want[c] => desired[c].output

Disarmed(c) == (pc = "disarm" /\ c < at) \/ pc \in {"arm", "master"}
ArmInv == \A c \in Ch \ touched : Disarmed(c) /\ armed[c] => want[c]

(* Left alone, a channel has the setting that was read until the setpoints *)
(* are written - unless the link was lost between the two writes - and     *)
(* that of its target from then on.                                        *)
HalfWritten(c) == c = at /\ conn = "broken" /\ ~InSync(c, desired)
AsRead(c) ==
  \/ pc = "read" /\ c < at
  \/ pc \in {"connected", "change", "prot", "adopt"}
  \/ pc = "set" /\ c >= at /\ ~HalfWritten(c)
ReadInv == \A c \in Ch \ touched : AsRead(c) => seen.ch[c].set = setting[c]

AsSet(c) == (pc = "set" /\ c < at) \/ pc \in {"decide", "disarm", "arm", "master"}
SetInv == \A c \in Ch \ touched : AsSet(c) => setting[c] = Answer[desired[c].set]

AppliedInv ==
  \A c \in Ch : applied[c] # NoApplied => applied[c].answered = Answer[applied[c].asked]

(* Left alone, a channel delivers power as it was seen to; one wanted on   *)
(* that does not is a drop-out whose retry is due, and has been paid for.  *)
AsSeen(c) ==
  \/ pc = "read" /\ c < at
  \/ pc \in {"connected", "change", "prot", "adopt", "set"}
  \/ pc = "decide" /\ c >= at
SeenInv == \A c \in Ch \ touched : AsSeen(c) => seen.ch[c].output = On(c)
DueInv ==
  \A c \in Ch \ touched : WantKnown(c) /\ want[c] /\ ~On(c) /\ ~ByOperator(c) =>
    down[c] /\ retryIn[c] >= RetryMin /\ tried[c] = RetryMin

(* Until RETRY_MIN_S are over a retry is not due, and not forgotten.       *)
SpacedInv ==
  /\ \A c \in Ch : /\ retryIn[c] + tried[c] >= RetryMin
                   /\ ~down[c] /\ tried[c] < RetryMin => upFor[c] <= tried[c]
  /\ \A c \in Ch : ByOperator(c) /\ pc \notin {"gen", "read", "change"}
                     => tried[c] = RetryMin
  /\ op.kind = "hold" => \A c \in Ch : tried[c] = RetryMin

(* An OFF that was kept is in the file and, under hold, in the targets.    *)
KeptInv ==
  /\ \A c \in Ch : offs[c] = "kept" =>
       /\ IsOff(saved.desired, c) /\ saved.hold
       /\ alive => hold /\ IsOff(desired, c)
  /\ op.kind = "hold" => offs = NoOffs

(* While nothing happens - no command, no disturbance, no failing exchange *)
(* since before the poll under way - only polls run, on a sound session.   *)
Quiet == disturbed < 2
QuietInv ==
  Quiet =>
    /\ alive
    /\ pc # "idle" => touched = {} /\ op.kind = "poll"
    /\ pc \notin {"idle", "gen"} => conn = "up"
    /\ pc \in {"set", "decide", "disarm", "arm", "master"} => hold
    /\ pc = "adopt" => ~hold
    /\ disturbed = 0 => conn # "none" /\ ~fresh

(* What they saw of the switches is so until they write them.              *)
ShownInv ==
  Quiet =>
    /\ pc \in {"read", "connected", "prot", "set", "decide"} => seen.master = master
    /\ \A c \in Ch : (pc = "read" /\ c < at)
                       \/ pc \in {"connected", "prot", "set", "decide"}
                     => seen.ch[c].armed = armed[c]

(* A poll that has written the setpoints leaves what it asked for last,    *)
(* and what the supply makes of it; so it is after a complete poll.        *)
Agreed(c) ==
  /\ applied[c] # NoApplied /\ applied[c].asked = desired[c].set
  /\ setting[c] = Answer[desired[c].set]
AgreedInv ==
  Quiet /\ hold =>
    \A c \in Ch : AsSet(c) \/ pc = "finish" \/ disturbed = 0 => Agreed(c)

(* The switches are as it wants them, which is as their targets say, but   *)
(* for channels that are dropping out.                                     *)
Placed ==
  /\ master = (\E c \in Ch : armed[c])
  /\ \A c \in Ch : IF armed[c] THEN desired[c].output ELSE (desired[c].output => down[c])
PlacedInv ==
  Quiet /\ hold =>
    /\ pc = "finish" \/ (disturbed = 0 /\ pc \notin {"disarm", "arm", "master"})
         => Placed
    /\ disturbed = 0 /\ pc = "disarm" => \E c \in Ch : down[c]
    /\ \A c \in Ch : /\ WantKnown(c) /\ desired[c].output /\ ~want[c] => down[c]
                     /\ (pc = "arm" /\ c < at) \/ pc = "master" => (want[c] => armed[c])

-----------------------------------------------------------------------------
(* What the repository says of the driver, and the code does not do.       *)

(* "While the supply is unreachable, off is remembered - the channel stays *)
(* off when the supply returns" (README): a channel told OFF under hold    *)
(* with the supply unreachable has an OFF target once that is over.        *)
OffRemembered ==
  alive /\ pc = "idle" =>
    \A c \in Ch : offs[c] # "no" /\ desired[c] # NoTarget => ~desired[c].output
=============================================================================
