------------------------------- MODULE Metric -------------------------------
(***************************************************************************)
(* The data shared by every part of the harvester: the Metric structure,   *)
(* its validation, and what one incoming metric does to the stored one.    *)
(* Source: internal/metric/metric.go, internal/metric/service/service.go   *)
(* and the loop bodies of internal/storage/memory/memory.go.               *)
(***************************************************************************)
EXTENDS Integers, Sequences

CONSTANTS
    IDs,        \* metric names in use
    NoID,       \* the empty name ""
    Samples,    \* values a gauge can take
    Modulus,    \* number of values of an int64 (2^64 in the program)
    Nil,        \* a pointer field that is not set
    Absent      \* no entry under this name

\* int64 as bit patterns: the sum of two counters wraps, as Go's + does.
Int64 == 0 .. Modulus - 1

AllowedMetricType == {"gauge", "counter"}

Metric == [id    : IDs \cup {NoID},
           mtype : AllowedMetricType \cup {"other"},
           delta : Int64 \cup {Nil},
           value : Samples \cup {Nil}]

ASSUME MetricAssumption ==
    /\ NoID \notin IDs
    /\ Modulus \in Nat \ {0}
    /\ Nil \notin Int64 \cup Samples
    /\ Absent \notin Metric

Add64(a, b) == (a + b) % Modulus
----------------------------------------------------------------------------
(* Validation *)

Valid_AnyType(m) == m.id \in IDs                          \* fault: the type is not checked

\* The service's check of the name and of the type, before the storage is called.
Valid(m) == m.id \in IDs /\ m.mtype \in AllowedMetricType

Malformed_GaugeOnly(m) == m.mtype = "gauge" /\ m.value = Nil    \* fault: one check left out

\* ErrMetricMalformed: the field the type calls for is missing.
Malformed(m) ==
    \/ m.mtype = "counter" /\ m.delta = Nil
    \/ m.mtype = "gauge"   /\ m.value = Nil

\* What the storages keep: each metric under its own name, and no unknown type.
NamedAndTyped(table) ==
    \A i \in IDs :
        table[i] # Absent => table[i].id = i /\ table[i].mtype \in AllowedMetricType
----------------------------------------------------------------------------
(* What one metric does to the entry stored under its name *)

\* The update dereferences a nil pointer, and the goroutine panics.
Panics(old, m) ==
    /\ old # Absent
    /\ \/ m.mtype = "gauge"   /\ m.value = Nil
       \/ m.mtype = "counter" /\ Nil \in {old.delta, m.delta}

\* Fault: a gauge overwrites the entry's type as well.
Merge_Retypes(old, m) ==
    IF old = Absent THEN m
    ELSE IF m.mtype = "gauge" THEN [old EXCEPT !.value = m.value, !.mtype = m.mtype]
    ELSE [old EXCEPT !.delta = Add64(old.delta, m.delta)]

\* A new name takes the metric as it came. A gauge is replaced and a counter
\* grows; the type of the entry is never written again.
Merge(old, m) ==
    IF old = Absent THEN m
    ELSE IF m.mtype = "gauge" THEN [old EXCEPT !.value = m.value]
    ELSE [old EXCEPT !.delta = Add64(old.delta, m.delta)]
=============================================================================
