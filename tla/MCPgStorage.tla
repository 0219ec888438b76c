----------------------------- MODULE MCPgStorage -----------------------------
(* Instances of PgStorage for TLC: the clients' calls. *)
EXTENDS PgStorage, TLC

CONSTANTS g, h, c           \* two gauges' names and a counter's

Gauge(i, s)   == [id |-> i, mtype |-> "gauge",   delta |-> Nil, value |-> s]
Counter(i, d) == [id |-> i, mtype |-> "counter", delta |-> d,   value |-> Nil]
Ask(i, t)     == [id |-> i, mtype |-> t,         delta |-> Nil, value |-> Nil]
Do(op, batch) == [op |-> op, batch |-> batch]

\* The two gauges are always sent together, in either order; the counter grows until
\* it overflows; a name is used with the other type, and a value is left out.
ClientCalls == {
    Do("Update", <<Gauge(g, 1), Counter(c, 1), Gauge(h, 1)>>),
    Do("Update", <<Gauge(h, 2), Gauge(g, 2), Counter(c, 1)>>),
    Do("Update", <<Gauge(c, 1), Ask(c, "counter")>>),
    Do("Set",    <<Counter(c, Modulus - 1)>>),
    Do("Set",    <<Ask(c, "counter")>>),
    Do("Set",    <<Ask(c, "other")>>),
    Do("Get",    <<Ask(c, "counter")>>),
    Do("List",   <<>>) }
=============================================================================
