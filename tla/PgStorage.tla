------------------------------- MODULE PgStorage -------------------------------
(***************************************************************************)
(* The storage on Postgres: what the service's calls do to the table       *)
(* "metric" when they run at the same time. Source:                        *)
(* internal/storage/postgres/postgres.go. The database itself - row locks  *)
(* held to the end of a transaction, READ COMMITTED snapshots, deadlock    *)
(* detection - is modelled from what the storage's statements ask of it.   *)
(***************************************************************************)
EXTENDS Metric, SequencesExt

CONSTANTS
    Reqs,       \* requests served at a time; each takes call after call
    Free,       \* no transaction holds the row
    Calls       \* the service's calls clients make

Ops == {"Set", "Update", "Get", "List"}

ASSUME CallsAssumption ==
    /\ Free \notin Reqs
    /\ Modulus % 2 = 0
    /\ Calls \subseteq [op : Ops, batch : Seq(Metric)]
    /\ \A c \in Calls : c.op \in {"Set", "Get"} => Len(c.batch) = 1

NoCall  == [op |-> "none", batch |-> <<>>]
Nothing == [i \in IDs |-> Absent]

VARIABLES
    table,      \* the committed rows of "metric"
    lock,       \* the transaction that holds each row, or the key of a row it inserts
    dirty,      \* the version of the row its holder has written, or Absent
    pc, call,   \* where each request is, and what it was asked
    todo,       \* the statements of its transaction still to run
    view        \* the rows a reader has got

vars == <<table, lock, dirty, pc, call, todo, view>>

Rows == [IDs -> Metric \cup {Absent}]

\* Type invariant: whatever a call asks for, the rows are metrics of the two types under
\* their own names.
TypeOK ==
    /\ table \in Rows /\ dirty \in Rows /\ NamedAndTyped(table)
    /\ lock \in [IDs -> Reqs \cup {Free}]
    /\ pc \in [Reqs -> {"idle", "begin", "exec", "query", "answered", "failed"}]
    /\ call \in [Reqs -> Calls \cup {NoCall}]
    /\ todo \in [Reqs -> Seq(Metric)]
    /\ view \in [Reqs -> Rows]

Init ==
    /\ table = Nothing /\ dirty = Nothing
    /\ lock = [i \in IDs |-> Free]
    /\ pc = [r \in Reqs |-> "idle"]
    /\ call = [r \in Reqs |-> NoCall]
    /\ todo = [r \in Reqs |-> <<>>]
    /\ view = [r \in Reqs |-> Nothing]
----------------------------------------------------------------------------
(* insertQuery *)

\* A bit pattern read as a signed number, as bigint is.
Signed(p) == IF p < Modulus \div 2 THEN p ELSE p - Modulus

\* "bigint out of range": the statement fails.
Overflows(old, m) ==
    /\ old # Absent /\ Nil \notin {old.delta, m.delta}
    /\ Signed(old.delta) + Signed(m.delta) \notin -(Modulus \div 2) .. (Modulus \div 2) - 1

\* A sum with NULL is NULL.
SqlAdd(a, b) == IF Nil \in {a, b} THEN Nil ELSE Add64(a, b)

\* Insert; on conflict the deltas add up and the value is replaced, whichever type
\* the row and the metric have.
Upsert(old, m) ==
    IF old = Absent THEN m
    ELSE [old EXCEPT !.delta = SqlAdd(m.delta, @), !.value = m.value]

At(r, stage)   == pc[r] = stage
Goto(r, stage) == pc' = [pc EXCEPT ![r] = stage]

\* The row as a transaction sees it when it writes: its own version or the last
\* committed one.
Row(r, i) == IF lock[i] = r THEN dirty[i] ELSE table[i]

Locked_Ignored(r, i) == FALSE                            \* fault: a row in use is not waited for
Locked(r, i) == lock[i] \notin {r, Free}

\* The end of a transaction, whichever.
Unlock(r) ==
    /\ lock'  = [i \in IDs |-> IF lock[i] = r THEN Free ELSE lock[i]]
    /\ dirty' = [i \in IDs |-> IF lock[i] = r THEN Absent ELSE dirty[i]]
----------------------------------------------------------------------------
\* The service's checks, then Set's own.
Passes(c) ==
    /\ c.op \in {"Set", "Update"} => \A k \in DOMAIN c.batch : Valid(c.batch[k])
    /\ c.op = "Set" => ~Malformed(c.batch[1])
    /\ c.op = "Get" => c.batch[1].mtype \in AllowedMetricType

Receive(r, c) ==
    /\ At(r, "idle")
    /\ call' = [call EXCEPT ![r] = c]
    /\ Goto(r, IF ~Passes(c) THEN "failed"
               ELSE IF c.op \in {"Set", "Update"} THEN "begin" ELSE "query")
    /\ UNCHANGED <<table, lock, dirty, todo, view>>

\* Update begins a transaction. Set is one of a single statement.
Begin(r) ==
    /\ At(r, "begin")
    /\ todo' = [todo EXCEPT ![r] = call[r].batch]
    /\ Goto(r, "exec")
    /\ UNCHANGED <<table, lock, dirty, call, view>>

\* Fault: the statement runs on s.db instead of on the transaction, and is committed
\* by itself.
Exec_OnDb(r) ==
    /\ At(r, "exec") /\ todo[r] # <<>>
    /\ LET m == Head(todo[r])
       IN  /\ ~Locked(r, m.id) /\ ~Overflows(Row(r, m.id), m)
           /\ table' = [table EXCEPT ![m.id] = Upsert(Row(r, m.id), m)]
    /\ todo' = [todo EXCEPT ![r] = Tail(@)]
    /\ UNCHANGED <<lock, dirty, pc, call, view>>

\* One statement: it waits for the row, and keeps it.
Exec(r) ==
    /\ At(r, "exec") /\ todo[r] # <<>>
    /\ LET m == Head(todo[r])
       IN  /\ ~Locked(r, m.id) /\ ~Overflows(Row(r, m.id), m)
           /\ dirty' = [dirty EXCEPT ![m.id] = Upsert(Row(r, m.id), m)]
           /\ lock' = [lock EXCEPT ![m.id] = r]
    /\ todo' = [todo EXCEPT ![r] = Tail(@)]
    /\ UNCHANGED <<table, pc, call, view>>

\* Fault: no deferred Rollback; the transaction stays open with its locks.
Rollback_Forgotten(r) ==
    /\ UNCHANGED <<lock, dirty>>
    /\ todo' = [todo EXCEPT ![r] = <<>>]
    /\ Goto(r, "failed")

\* The deferred Rollback.
Rollback(r) ==
    /\ Unlock(r)
    /\ todo' = [todo EXCEPT ![r] = <<>>]
    /\ Goto(r, "failed")

ExecOverflows(r) ==
    /\ At(r, "exec") /\ todo[r] # <<>>
    /\ ~Locked(r, Head(todo[r]).id) /\ Overflows(Row(r, Head(todo[r]).id), Head(todo[r]))
    /\ Rollback(r)
    /\ UNCHANGED <<table, call, view>>

\* The requests that wait for one another in a circle.
Waits(r)  == At(r, "exec") /\ todo[r] # <<>> /\ Locked(r, Head(todo[r]).id)
Holder(r) == lock[Head(todo[r]).id]
Circle(S) == S # {} /\ (\A r \in S : Waits(r)) /\ {Holder(r) : r \in S} = S

\* The database ends one of them.
DeadlockVictim(r) ==
    /\ \E S \in SUBSET Reqs : r \in S /\ Circle(S)
    /\ Rollback(r)
    /\ UNCHANGED <<table, call, view>>

\* The connection breaks, or the database cannot go on.
DbFails(r) ==
    /\ pc[r] \in {"begin", "exec", "query"}
    /\ Rollback(r)
    /\ UNCHANGED <<table, call, view>>

\* All rows of the transaction at once. The outcome may be lost on the way back.
Commit(r) ==
    /\ At(r, "exec") /\ todo[r] = <<>>
    /\ table' = [i \in IDs |-> Row(r, i)]
    /\ Unlock(r)
    /\ \E outcome \in {"answered", "failed"} : Goto(r, outcome)
    /\ UNCHANGED <<call, todo, view>>

\* Get and List: one SELECT, which sees what was committed before it.
Query(r) ==
    /\ At(r, "query")
    /\ view' = [view EXCEPT ![r] =
                  IF call[r].op = "List" THEN table
                  ELSE [Nothing EXCEPT ![call[r].batch[1].id] = table[call[r].batch[1].id]]]
    /\ Goto(r, "answered")
    /\ UNCHANGED <<table, lock, dirty, call, todo>>

Finish(r) ==
    /\ pc[r] \in {"answered", "failed"}
    /\ Goto(r, "idle")
    /\ call' = [call EXCEPT ![r] = NoCall]
    /\ view' = [view EXCEPT ![r] = Nothing]
    /\ UNCHANGED <<table, lock, dirty, todo>>
----------------------------------------------------------------------------
Statement(r) == Exec(r) \/ ExecOverflows(r)
Proceed(r)   == Begin(r) \/ Commit(r) \/ Query(r) \/ Finish(r)

Next == \E r \in Reqs :
    \/ \E c \in Calls : Receive(r, c)
    \/ Proceed(r) \/ Statement(r) \/ DeadlockVictim(r) \/ DbFails(r)

Spec == Init /\ [][Next]_vars

\* The goroutines run; the database queues those that wait for a row and breaks
\* every deadlock. Nothing is assumed of its failures.
FairSpec ==
    /\ Spec
    /\ \A r \in Reqs : WF_vars(Proceed(r)) /\ SF_vars(Statement(r)) /\ WF_vars(DeadlockVictim(r))
----------------------------------------------------------------------------
(* Properties *)

\* The table after a whole batch.
Outcome(rows, b) == FoldLeft(LAMBDA t, m : [t EXCEPT ![m.id] = Upsert(@, m)], rows, b)

\* Committed rows change by whole batches, each on top of all the earlier ones:
\* no update is lost between two transactions that write the same rows in any
\* order, and a batch that fails, overflows or is a deadlock's victim leaves nothing.
WholeBatch ==
    table' # table =>
        \E r \in Reqs : At(r, "exec") /\ pc'[r] # "exec" /\ table' = Outcome(table, call[r].batch)
WholeBatches == [][WholeBatch]_vars

\* A row is held only by a request whose transaction is under way: every way out of
\* Update gives its rows back.
RowsReturned == \A i \in IDs : lock[i] # Free => At(lock[i], "exec")

\* Two names that every batch sends together and with one value, or leaves out both.
SentTogether(i, j) ==
    \A c \in {d \in Calls : d.op \in {"Set", "Update"} /\ Passes(d)} :
        LET of == {k \in DOMAIN c.batch : c.batch[k].id \in {i, j}}
        IN  /\ \A k, l \in of : c.batch[k].value = c.batch[l].value
            /\ of # {} => \A n \in {i, j} : \E k \in of : c.batch[k].id = n

\* Two gauges always sent together are listed with values that were sent together,
\* or not at all: List reads one snapshot, between two commits.
ListedTogether ==
    \A r \in Reqs : At(r, "answered") /\ call[r].op = "List" =>
        \A i, j \in IDs : SentTogether(i, j) =>
            /\ view[r][i] = Absent <=> view[r][j] = Absent
            /\ view[r][i] # Absent => view[r][i].value = view[r][j].value

\* Every call ends, although batches lock the same rows in opposite orders.
EveryCallEnds == \A r \in Reqs : pc[r] # "idle" ~> pc[r] = "idle"
=============================================================================
