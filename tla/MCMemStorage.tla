---------------------------- MODULE MCMemStorage ----------------------------
(* Instances of MemStorage for TLC: the clients' calls. *)
EXTENDS MemStorage, TLC

CONSTANTS g, h, c           \* two gauges' names and a counter's

Gauge(i, s)     == [id |-> i, mtype |-> "gauge",   delta |-> Nil, value |-> s]
Counter(i, d)   == [id |-> i, mtype |-> "counter", delta |-> d,   value |-> Nil]
Ask(i, t)       == [id |-> i, mtype |-> t,         delta |-> Nil, value |-> Nil]
Do(handler, batch) == [handler |-> handler, batch |-> batch]

\* Well-formed clients: each name has one type, and the two gauges are always sent
\* together. Counters step by 1 and, as the
\* bit pattern of -1, by Modulus - 1. The refused calls are here as well.
DisciplinedCalls == {
    Do("updateHandlerJSON",    <<Counter(c, 1)>>),
    Do("updateHandlerJSON",    <<Ask(c, "counter")>>),
    Do("updateHandler",        <<Counter(c, Modulus - 1)>>),
    Do("updateHandler",        <<Ask(g, "gauge")>>),
    Do("updatesHandlerJSON",   <<Gauge(g, 1), Counter(c, 1), Gauge(h, 1)>>),
    Do("grpcUpdate",           <<Gauge(h, 2), Gauge(g, 2)>>),
    Do("grpcUpdate",           <<Ask(NoID, "counter")>>),
    Do("updateHandlerJSON",    <<Ask(c, "other")>>),
    Do("getMetricHandler",     <<Ask(c, "counter")>>),
    Do("getMetricHandlerJSON", <<Ask(g, "gauge")>>),
    Do("grpcValue",            <<Ask(c, "other")>>),
    Do("listMetricHandler",    <<>>) }

\* Clients that leave values out and use one name with both types.
UndisciplinedCalls == {
    Do("updatesHandlerJSON",   <<Gauge(g, 1), Ask(c, "counter")>>),
    Do("updatesHandlerJSON",   <<Counter(c, 1), Gauge(g, 2)>>),
    Do("grpcUpdate",           <<Gauge(c, 2), Counter(c, 1)>>),
    Do("updateHandlerJSON",    <<Gauge(c, 1)>>),
    Do("updateHandler",        <<Counter(g, 1)>>),
    Do("getMetricHandler",     <<Ask(c, "counter")>>),
    Do("grpcList",             <<>>) }
=============================================================================
