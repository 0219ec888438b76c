------------------------------ MODULE Registry ------------------------------
(***************************************************************************)
(* What the storage promises to the code above it: a table of metrics that *)
(* changes by whole batches. A batch is one indivisible step, whatever     *)
(* other requests are doing; it is cut short only by a metric that cannot  *)
(* be merged with the entry it meets.                                      *)
(***************************************************************************)
EXTENDS Metric, SequencesExt

CONSTANT Batches            \* the batches clients send

VARIABLE reg                \* the table

TypeOK == reg \in [IDs -> Metric \cup {Absent}]

\* One turn of a batch's loop; nothing happens after a metric that panics.
Turn(s, m) ==
    IF s.cut \/ Panics(s.table[m.id], m)
    THEN [s EXCEPT !.cut = TRUE]
    ELSE [s EXCEPT !.table[m.id] = Merge(@, m)]

\* The table after batch b: its metrics merged in order, up to the first one
\* that panics.
Outcome(table, b) == FoldLeft(Turn, [table |-> table, cut |-> FALSE], b).table

Init == reg = [i \in IDs |-> Absent]

Submit(b) == reg' = Outcome(reg, b)

Next == \E b \in Batches : Submit(b)

Spec == Init /\ [][Next]_reg
=============================================================================
