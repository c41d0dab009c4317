-------------------------------- MODULE Diag ---------------------------------
(***************************************************************************)
(* The thermometry diagnostic of the web panel (src/webcontrol/app.py):    *)
(* /diag/start stops the service, whose LabJack session it needs, and      *)
(* /diag/stop, or a start that fails, starts it again.  While it runs a    *)
(* thread fills a ring of samples, of which /diag/data shows a part.       *)
(* Requests are handled one at a time.                                     *)
(***************************************************************************)
EXTENDS ServiceUnit, Sequences

CONSTANTS
  Capacity,      \* buf_capacity
  Display,       \* n_disp
  Samples        \* what the channels read

ASSUME CapacityAssumption == Capacity \in Nat \ {0} /\ Display \in Nat \ {0}

VARIABLES
  diag,          \* active; handle: ljm_handle, open; leaked: a session that
                 \* stays open; late: a poll thread that outlived its join
  ring,          \* [cells, next, filled]: buffer_*, buf_next, buf_filled
  req            \* what the handler of a request is at

NoDiag == [active |-> FALSE, handle |-> FALSE, leaked |-> FALSE, late |-> FALSE]
(* The buffers as they are allocated.  Those of a diagnostic that is over  *)
(* are not read again.                                                     *)
Zeros == [cells |-> [i \in 0..(Capacity - 1) |-> 0], next |-> 0, filled |-> 0]
Turn(where) == req' = where
SystemdKept == UNCHANGED <<systemd, main>>

DiagInit == diag = NoDiag /\ ring = Zeros /\ req = "none"

(* diag_start.  A diagnostic that runs is answered with 409.               *)
StartAsked ==
  /\ req = "none" /\ ~diag.active
  /\ Turn("stop") /\ SystemdKept /\ UNCHANGED <<diag, ring>>
StopService ==
  /\ req = "stop"
  /\ \/ UnitStop /\ Turn("stopping")
     \/ SystemdKept /\ req' \in {"none", "reset"}      \* refused; no channels; raised
  /\ UNCHANGED <<diag, ring>>
(* The stop is done, takes too long (TimeoutExpired), or was cancelled by  *)
(* the operator's start, which is answered with 500.                       *)
StopReturns ==
  /\ req = "stopping"
  /\ \/ unit \in {"inactive", "failed"} /\ Turn("open")
     \/ unit = "deactivating" /\ Turn("reset")
     \/ (queued \/ unit \in {"active", "activating"}) /\ Turn("none")
  /\ SystemdKept /\ UNCHANGED <<diag, ring>>
(* openS needs the session the service has while it runs.                  *)
OpenLabjack ==
  /\ req = "open"
  /\ \/ ~Alive /\ diag' = [diag EXCEPT !.active = TRUE, !.handle = TRUE] /\ Turn("none")
     \/ Turn("reset") /\ UNCHANGED diag
  /\ ring' = Zeros /\ SystemdKept
(* The session is open, but the buffers, or after them the thread, cannot  *)
(* be made: nothing closes it any more.                                    *)
OpenFails ==
  /\ req = "open" /\ ~Alive
  /\ \E begun \in BOOLEAN : diag' = [diag EXCEPT !.active = begun, !.leaked = TRUE]
  /\ ring' = Zeros /\ Turn("reset") /\ SystemdKept

(* _diag_poll_loop: a reading that fails leaves no sample.                 *)
Put(x) ==
  ring' = [cells  |-> [ring.cells EXCEPT ![ring.next] = x],
           next   |-> (ring.next + 1) % Capacity,
           filled |-> IF ring.filled < Capacity THEN ring.filled + 1 ELSE ring.filled]
(* A late thread ends with the reading it waits for, whosever the ring now *)
(* is: _diag has one.                                                      *)
Sample(x) ==
  /\ diag.active /\ Put(x)
  /\ \/ diag.handle /\ UNCHANGED diag
     \/ diag.late /\ diag' = [diag EXCEPT !.late = FALSE]
  /\ SystemdKept /\ UNCHANGED req
LateEnds ==
  /\ diag.late /\ diag' = [diag EXCEPT !.late = FALSE]
  /\ SystemdKept /\ UNCHANGED <<ring, req>>

(* diag_data: the ring, oldest first.                                      *)
Cells(from, n) == [k \in 1..n |-> ring.cells[from + k - 1]]
Data_Unrolled ==                    \* mutant: a full ring is not turned
  Cells(0, ring.filled)
Data ==
  IF ring.filled < Capacity THEN Cells(0, ring.filled)
  ELSE Cells(ring.next, Capacity - ring.next) \o Cells(0, ring.next)
(* What it shows of it: the last n, which are as old as the window allows, *)
(* and of these each step-th, from the oldest.                             *)
Thinned(s) ==
  LET step == IF Len(s) > Display THEN Len(s) \div Display ELSE 1
  IN  [j \in 1..((Len(s) + step - 1) \div step) |-> s[(j - 1) * step + 1]]
LastOnes(s, n) == SubSeq(s, Len(s) - n + 1, Len(s))
Page(n) == Thinned(LastOnes(Data, n))

(* diag_stop and _diag_teardown_and_restart_slowcontrol.                   *)
StopAsked ==
  /\ req = "none" /\ diag.active
  /\ diag' = [diag EXCEPT !.active = FALSE] /\ ring' = Zeros
  /\ Turn("close") /\ SystemdKept
CloseLabjack_Leaked ==              \* mutant: the handle is forgotten first
  /\ req = "close" /\ diag.handle
  /\ Turn("reset") /\ SystemdKept /\ UNCHANGED <<diag, ring>>
(* The thread is joined for three seconds; an error of close is swallowed. *)
CloseLabjack ==
  /\ req = "close" /\ diag.handle
  /\ \E late \in {diag.late, TRUE} : diag' = [diag EXCEPT !.handle = FALSE, !.late = late]
  /\ Turn("reset") /\ SystemdKept /\ UNCHANGED ring
CloseFails ==
  /\ req = "close" /\ diag.handle
  /\ \E late \in {diag.late, TRUE} :
        diag' = [diag EXCEPT !.handle = FALSE, !.leaked = TRUE, !.late = late]
  /\ Turn("reset") /\ SystemdKept /\ UNCHANGED ring
(* join raises for a thread that was never started.                        *)
JoinRaises ==
  /\ req = "close" /\ ~diag.handle
  /\ Turn("none") /\ SystemdKept /\ UNCHANGED <<diag, ring>>

(* What both a stop and a start that failed end with.  A command that      *)
(* takes too long raises; what start returns is not looked at.             *)
Inactive == diag' = [diag EXCEPT !.active = FALSE]
ResetFailed ==
  /\ req = "reset" /\ UnitForget
  /\ Turn("start") /\ UNCHANGED <<diag, ring>>
ResetRaises ==
  /\ req = "reset" /\ (UnitForget \/ SystemdKept)
  /\ Turn("none") /\ UNCHANGED <<diag, ring>>
StartService_Left ==                \* mutant: it is not started
  /\ req = "start" /\ SystemdKept
  /\ Turn("none") /\ Inactive /\ UNCHANGED ring
StartService ==
  /\ req = "start" /\ UnitStart
  /\ Turn("none") /\ Inactive /\ UNCHANGED ring
StartFails ==
  /\ req = "start" /\ SystemdKept
  /\ Turn("none") /\ (Inactive \/ UNCHANGED diag) /\ UNCHANGED ring

DiagStep == \/ StopService \/ StopReturns \/ OpenLabjack \/ CloseLabjack
            \/ ResetFailed \/ LateEnds
DiagLeaks == OpenFails \/ CloseFails
DiagFails == JoinRaises \/ ResetRaises \/ StartFails

(* The panel is killed or stopped: SIGTERM runs no atexit handler.         *)
WebEnds ==
  /\ diag' = NoDiag /\ ring' = Zeros /\ Turn("none") /\ SystemdKept
=============================================================================
