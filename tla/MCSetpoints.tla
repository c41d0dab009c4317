----------------------------- MODULE MCSetpoints -----------------------------
(* Instances of Setpoints: two zones, the PV of one (a retained status),   *)
(* the value of its expression (retained and without a period), a state    *)
(* derived of both, one operator's tracker and programs of two items.      *)
EXTENDS Setpoints

MCSeqId(z) == "seq:" \o z
MCZones == {"top", "bottom"}
MCSpSafe == -9
MCInputs == {"pv", "aim"}
MCTimed == {"pv"}
MCMoving == {"pv"}
MCKept == {"pv", "aim"}
MCFirst == {[pv |-> 1, aim |-> 1]}
MCDerived == [mean |-> {"pv", "aim"}]
MCExpr(d, e) == (e["pv"] + e["aim"]) \div 2

T(target, source, offset, hi) == [target |-> target, source |-> source, offset |-> offset,
                                  on |-> TRUE, lo |-> 0, hi |-> hi, sent |-> Never, to |-> Never]
TopTracker == [t |-> T("top", "pv", 0, 9)]
MCTables == {TopTracker}

One(z, v) == [x \in {z} |-> v]
Follow(z, s, h) == [kind |-> "step", tracks |-> One(z, T(z, s, 1, 9)), writes |-> <<>>, hold |-> h]
Write(z, v)  == [kind |-> "step", tracks |-> <<>>, writes |-> One(z, v), hold |-> 0]
Scan(z)      == [kind |-> "sweep", targets |-> {z}, from |-> 3, to |-> 1, by |-> 2, hold |-> 0]
MCItems == {Follow("top", "pv", 1), Follow("bottom", "mean", 0), Write("top", 2), Scan("top")}
MCPrograms == {<<Follow("top", "pv", 1), Follow("bottom", "mean", 0)>>}

Set(spec) == [topic |-> "trackers/set", id |-> "t", spec |-> spec]
Do(what)  == [topic |-> "sequencer/" \o what]
MCCommands ==
  {Set(T("bottom", "mean", 0, 3)), [topic |-> "trackers/remove", id |-> "seq:top"],
   [topic |-> "trackers/enable", id |-> "t", on |-> FALSE],
   Do("run"), Do("stop"), Do("clear"),
   [topic |-> "sequencer/set", items |-> <<Write("top", 2)>>],
   [topic |-> "sequencer/append", item |-> Scan("top")],
   [topic |-> "gradient/mode", mode |-> "absolute"],
   [topic |-> "gradient/base", value |-> 2],
   [topic |-> "gradient/delta", zone |-> "bottom", value |-> 1],
   [topic |-> "pid/setpoint_expr", zone |-> "top", expr |-> [of |-> {3}, fails |-> TRUE]]}
=============================================================================
