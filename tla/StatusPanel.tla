----------------------------- MODULE StatusPanel -----------------------------
(***************************************************************************)
(* The status line of the control panel (StatusSession of                  *)
(* src/slowcontrol/servicectl.py): one ssh process answers query after     *)
(* query, and is replaced when it dies, when an answer takes too long and  *)
(* when the panel is pointed at another host.                              *)
(***************************************************************************)
EXTENDS Integers, Sequences

CONSTANTS
  Hosts,
  Pi,            \* the one that runs the service
  NoConn,        \* _proc is None
  Elsewhere      \* the answer of another host

ASSUME PiAssumption == Pi \in Hosts

VARIABLES
  conn,          \* the connection: its host, and lines under way in it
  poll,          \* the poll that holds the lock
  result        \* what the poll has put in the queue of the panel

panel == <<conn, poll, result>>
NoPoll == [at |-> "none"]
NoResult == [host |-> NoConn, active |-> "none"]

PanelInit ==
  /\ conn = NoConn /\ poll = NoPoll
  /\ result = NoResult

(* _connect: with a queue of its own.                                      *)
Fresh(h) == [host |-> h, asked |-> 0, lines |-> <<>>, alive |-> TRUE]

(* poll, for the host set when it was submitted: a connection to another   *)
(* is dropped.                                                             *)
PollStart(h) ==
  /\ poll = NoPoll
  /\ poll' = [at |-> "ask", host |-> h, reused |-> conn # NoConn /\ conn.host = h]
  /\ conn' = IF conn # NoConn /\ conn.host = h THEN conn ELSE NoConn
  /\ UNCHANGED result

GiveUp == /\ poll' = NoPoll
          /\ result' = [host |-> poll.host, active |-> "unreachable"]
(* _ask: a line is written; to a dead connection it cannot be.             *)
Ask ==
  /\ poll.at = "ask"
  /\ \/ /\ conn = NoConn
        /\ \/ /\ conn' = [Fresh(poll.host) EXCEPT !.asked = 1]
              /\ poll' = [poll EXCEPT !.at = "wait"] /\ UNCHANGED result
           \/ GiveUp /\ UNCHANGED conn
     \/ /\ conn # NoConn /\ conn.alive
        /\ conn' = [conn EXCEPT !.asked = @ + 1]
        /\ poll' = [poll EXCEPT !.at = "wait"] /\ UNCHANGED result
     \/ /\ conn # NoConn /\ ~conn.alive
        /\ poll' = [poll EXCEPT !.at = "fail"] /\ UNCHANGED <<conn, result>>

(* The answer; the end of ssh; or neither within the timeout.              *)
Answered ==
  /\ poll.at = "wait" /\ conn.lines # <<>>
  /\ result' = [host |-> poll.host, active |-> Head(conn.lines)]
  /\ conn' = [conn EXCEPT !.lines = Tail(@)]
  /\ poll' = NoPoll
NotAnswered ==
  /\ poll.at = "wait" /\ conn.lines = <<>>
  /\ poll' = [poll EXCEPT !.at = "fail"]
  /\ UNCHANGED <<conn, result>>

(* _drop, and once more if the connection was an old one.                  *)
Drop_Keep ==                        \* mutant: the connection is asked again
  /\ poll.at = "fail"
  /\ UNCHANGED conn
  /\ \/ poll.reused /\ poll' = [poll EXCEPT !.at = "ask", !.reused = FALSE] /\ UNCHANGED result
     \/ ~poll.reused /\ GiveUp
Drop ==
  /\ poll.at = "fail"
  /\ conn' = NoConn
  /\ \/ poll.reused /\ poll' = [poll EXCEPT !.at = "ask", !.reused = FALSE] /\ UNCHANGED result
     \/ ~poll.reused /\ GiveUp

(* _drain: the result is shown.                                            *)
Drain ==
  /\ result # NoResult /\ result' = NoResult
  /\ UNCHANGED <<conn, poll>>

PanelStep == Ask \/ Answered \/ NotAnswered \/ Drop \/ Drain
(* Steps that no other part of the system can see, or be seen by.          *)
PanelBusy == poll.at \in {"ask", "fail"} \/ result # NoResult

(* The other end: _STATUS_LOOP, which may be late, and may die.            *)
Replies(active) ==
  /\ conn # NoConn /\ conn.alive /\ conn.asked > 0
  /\ conn' = [conn EXCEPT !.asked = @ - 1,
                          !.lines = Append(@, IF conn.host = Pi THEN active ELSE Elsewhere)]
  /\ UNCHANGED <<poll, result>>
ConnDies ==
  /\ conn # NoConn /\ conn.alive
  /\ conn' = [conn EXCEPT !.alive = FALSE]
  /\ UNCHANGED <<poll, result>>
=============================================================================
