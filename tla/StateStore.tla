----------------------------- MODULE StateStore -----------------------------
(***************************************************************************)
(* The state store (src/slowcontrol/state/store.py): the latest reading of *)
(* every input and its age, and once per tick the retained snapshot of all *)
(* states with their freshness.  A derived state's expression is an input  *)
(* of the model; averages, presence states and texts are left out.         *)
(*                                                                         *)
(* The age of a reading is the time since this process received it: a      *)
(* status the broker keeps comes again when the store is started, as new.  *)
(***************************************************************************)
EXTENDS Broker, FiniteSets

CONSTANTS
  Inputs,       \* states with a topic of their own
  Derived,      \* derived states, each with the set of inputs it is made from
  Expr(_, _),   \* what a derived state's expression gives with values of them,
                \*   NoValue when it fails (a division by zero)
  Timed,        \* inputs with a period_s; the others are always fresh
  Kept,         \* inputs whose topic the broker retains
  Readings,     \* values an input reports
  NoValue,      \* nothing received yet
  StaleAfter,   \* stale_factor * period_s, in ticks
  InvalidAfter  \* invalid_factor * period_s

States == Inputs \cup DOMAIN Derived

ASSUME StoreAssumption ==
  /\ StaleAfter \in Nat /\ InvalidAfter \in Nat /\ StaleAfter <= InvalidAfter
  /\ Readings \subseteq Int /\ NoValue \notin Int
  /\ Timed \subseteq Inputs /\ Kept \subseteq Inputs
  /\ \A d \in DOMAIN Derived :
       /\ d \notin Inputs /\ Derived[d] \subseteq Inputs
       /\ \A e \in [Derived[d] -> Readings] : Expr(d, e) \in Int \cup {NoValue}

VARIABLES
  entry,      \* _entries: the value of each input
  age,        \* ticks since it arrived, for those with a period
  kept,       \* what the broker retains of the inputs
  storeDue    \* a tick has passed since the last snapshot

store == <<entry, age, kept, storeDue>>

Old == InvalidAfter + 1                 \* MaxAge: ages are not told apart beyond it

StoreInit(e) == /\ entry = e /\ age = [i \in Inputs |-> 0]
                /\ kept = [i \in Kept |-> e[i]]
                /\ storeDue = TRUE

StoreStart_Quiet ==                     \* mutant: not before the first tick
  /\ entry' = [i \in Inputs |-> NoValue]
  /\ age' = [i \in Inputs |-> Old]
  /\ storeDue' = FALSE
  /\ UNCHANGED kept

(* start: the first snapshot goes out at once, with every state invalid    *)
(* but those whose retained status has come by then.                       *)
StoreStart == /\ entry' = [i \in Inputs |-> NoValue]
              /\ age' = [i \in Inputs |-> Old]
              /\ storeDue' = TRUE
              /\ UNCHANGED kept

(* _freshness of an input, and of a derived state: its worst reference's.  *)
Freshness(i) ==
  IF entry[i] = NoValue THEN "invalid"
  ELSE IF i \notin Timed \/ age[i] <= StaleAfter THEN "fresh"
  ELSE IF age[i] <= InvalidAfter THEN "stale" ELSE "invalid"

Worst(S) ==
  IF \E i \in S : Freshness(i) = "invalid" THEN "invalid"
  ELSE IF \E i \in S : Freshness(i) = "stale" THEN "stale" ELSE "fresh"

Value(d) == IF \E i \in Derived[d] : entry[i] = NoValue THEN NoValue
            ELSE Expr(d, [i \in Derived[d] |-> entry[i]])

(* _build_snapshot: an invalid input keeps its last value; a derived state *)
(* has none while an input it needs was never received or its expression   *)
(* fails.                                                                  *)
Snapshot ==
  [s \in States |->
     IF s \in Inputs THEN [value |-> entry[s], fresh |-> Freshness(s), age |-> age[s]]
     ELSE IF Value(s) = NoValue
          THEN [value |-> NoValue, fresh |-> "invalid", age |-> Old]
          ELSE [value |-> Value(s), fresh |-> Worst(Derived[s]), age |-> 0]]
SnapshotMsg(S, a) == [topic |-> "snapshot", states |-> S,
                      lag |-> a]        \* history: ticks since it was built

(* _on_message: a reading that does not parse leaves the entry to age.     *)
Ingest(i, v) ==
  /\ entry' = [entry EXCEPT ![i] = v]
  /\ age' = [age EXCEPT ![i] = 0]
  /\ kept' = IF i \in Kept THEN [kept EXCEPT ![i] = v] ELSE kept
  /\ UNCHANGED storeDue

(* What the broker retains reaches the store that was started: it is taken *)
(* for a reading of this moment, however old it is.                        *)
ToCome(i) == i \in Kept /\ entry[i] = NoValue /\ kept[i] # NoValue
Redelivered(i) == ToCome(i) /\ Ingest(i, kept[i])

PublishSnapshot ==
  /\ storeDue
  /\ storeDue' = FALSE
  /\ Publish(<<SnapshotMsg(Snapshot, 0)>>)
  /\ UNCHANGED <<entry, age, kept>>

StoreTick ==
  /\ ~storeDue /\ \A i \in Inputs : ~ToCome(i)
  /\ storeDue' = TRUE
  /\ age' = [i \in Inputs |-> IF i \in Timed /\ age[i] < Old THEN age[i] + 1 ELSE age[i]]
  /\ UNCHANGED <<entry, kept>>
=============================================================================
