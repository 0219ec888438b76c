---------------------------- MODULE PgStorageProofs ----------------------------
(***************************************************************************)
(* What holds of PgStorage for any number of requests, any calls, any set  *)
(* of names and values and any width of the integers.                      *)
(***************************************************************************)
EXTENDS PgStorage, SequenceTheorems, TLAPS

(***************************************************************************)
(* That a row stays a row of the table needs to know that what a           *)
(* transaction still has to write passed the service's checks, which were  *)
(* made before it began (Serving, Pending). That a row in use belongs to a *)
(* transaction is inductive by itself; with Written it says that what a    *)
(* commit puts in the place of a row is one, under its name and of a type. *)
(***************************************************************************)
Serving ==
    \A r \in Reqs :
        /\ pc[r] # "idle" => call[r] \in Calls
        /\ pc[r] = "begin" => Passes(call[r]) /\ call[r].op \in {"Set", "Update"}

Pending == \A r \in Reqs : \A k \in DOMAIN todo[r] : Valid(todo[r][k])

Written ==
    \A i \in IDs : lock[i] # Free =>
        dirty[i] \in Metric /\ dirty[i].id = i /\ dirty[i].mtype \in AllowedMetricType

Inv == TypeOK /\ RowsReturned /\ Serving /\ Pending /\ Written

\* What the statement leaves in a row is a row.
LEMMA UpsertType ==
  ASSUME NEW old \in Metric \cup {Absent}, NEW m \in Metric
  PROVE  Upsert(old, m) \in Metric
<1>1. CASE old = Absent
  BY <1>1 DEF Upsert
<1>2. CASE old # Absent
  <2>1. old.delta \in Int64 \cup {Nil} /\ m.delta \in Int64 \cup {Nil} /\ m.value \in Samples \cup {Nil}
    BY <1>2 DEF Metric
  <2>2. SqlAdd(m.delta, old.delta) \in Int64 \cup {Nil}
    <3>1. \A a, b \in Int64 : Add64(a, b) \in Int64
      BY MetricAssumption DEF Add64, Int64
    <3>. QED
      BY <2>1, <3>1 DEF SqlAdd
  <2>. QED
    BY <1>2, <2>1, <2>2 DEF Upsert, Metric
<1>. QED
  BY <1>1, <1>2

\* It leaves the row under its name and with one of the two types.
LEMMA UpsertNames ==
  ASSUME NEW old \in Metric \cup {Absent}, NEW m \in Metric, Valid(m),
         old # Absent => old.id = m.id /\ old.mtype \in AllowedMetricType
  PROVE  Upsert(old, m).id = m.id /\ Upsert(old, m).mtype \in AllowedMetricType
  BY DEF Upsert, Metric, Valid

\* What a transaction sees of a row is a metric of its name, or nothing.
LEMMA RowNames ==
  ASSUME Inv, NEW r \in Reqs, NEW i \in IDs
  PROVE  /\ Row(r, i) \in Metric \cup {Absent}
         /\ Row(r, i) # Absent => Row(r, i).id = i /\ Row(r, i).mtype \in AllowedMetricType
<1>1. CASE lock[i] = r
  BY <1>1, CallsAssumption DEF Row, Inv, Written
<1>2. CASE lock[i] # r
  BY <1>2 DEF Row, Inv, TypeOK, Rows, NamedAndTyped
<1>. QED
  BY <1>1, <1>2

LEMMA InitInv == Init => Inv
  BY CallsAssumption
     DEF Init, Inv, TypeOK, NamedAndTyped, RowsReturned, Serving, Pending, Written, Nothing, Rows

LEMMA ReceiveInv == ASSUME Inv, NEW r \in Reqs, NEW c \in Calls, Receive(r, c) PROVE Inv'
<1>1. /\ pc' \in [Reqs -> {"idle", "begin", "exec", "query", "answered", "failed"}]
      /\ call' \in [Reqs -> Calls \cup {NoCall}]
      /\ UNCHANGED <<table, lock, dirty, todo, view>>
  BY DEF Receive, Goto, Inv, TypeOK
<1>2. RowsReturned'
  BY <1>1, CallsAssumption DEF Receive, At, Goto, Inv, TypeOK, RowsReturned
<1>3. Serving'
  BY <1>1 DEF Receive, Goto, Inv, TypeOK, Serving
<1>. QED
  BY <1>1, <1>2, <1>3 DEF Inv, TypeOK, Pending, Written

LEMMA BeginInv == ASSUME Inv, NEW r \in Reqs, Begin(r) PROVE Inv'
<1>1. /\ pc' = [pc EXCEPT ![r] = "exec"] /\ todo' = [todo EXCEPT ![r] = call[r].batch]
      /\ UNCHANGED <<table, lock, dirty, call, view>>
  BY DEF Begin, Goto
<1>2. /\ call[r] \in Calls /\ call[r].batch \in Seq(Metric)
      /\ \A k \in DOMAIN call[r].batch : Valid(call[r].batch[k])
  BY CallsAssumption DEF Begin, At, Inv, Serving, Passes
<1>3. TypeOK' /\ Pending'
  BY <1>1, <1>2 DEF Inv, TypeOK, Pending
<1>4. RowsReturned'
  BY <1>1 DEF At, Inv, TypeOK, RowsReturned
<1>5. Serving'
  BY <1>1, <1>2 DEF Inv, TypeOK, Serving
<1>6. Written'
  BY <1>1 DEF Inv, Written
<1>. QED
  BY <1>3, <1>4, <1>5, <1>6 DEF Inv

LEMMA ExecInv == ASSUME Inv, NEW r \in Reqs, Exec(r) PROVE Inv'
<1>. DEFINE m == Head(todo[r])
<1>1. todo[r] \in Seq(Metric) /\ todo[r] # <<>> /\ m = todo[r][1] /\ 1 \in DOMAIN todo[r]
  BY DEF Exec, Inv, TypeOK
<1>2. m \in Metric /\ m.id \in IDs /\ Valid(m)
  BY <1>1 DEF Inv, Pending, Valid
<1>. DEFINE new == Upsert(Row(r, m.id), m)
<1>3. new \in Metric /\ new.id = m.id /\ new.mtype \in AllowedMetricType
  BY <1>2, RowNames, UpsertType, UpsertNames
<1>4. /\ dirty' = [dirty EXCEPT ![m.id] = new]
      /\ lock' = [lock EXCEPT ![m.id] = r]
      /\ todo' = [todo EXCEPT ![r] = Tail(todo[r])]
      /\ UNCHANGED <<table, pc, call, view>> /\ pc[r] = "exec"
  BY DEF Exec, At
<1>5. TypeOK' /\ Pending'
  <2>1. Tail(todo[r]) \in Seq(Metric)
    BY <1>1
  <2>2. \A k \in DOMAIN Tail(todo[r]) : Valid(Tail(todo[r])[k])
    <3>1. \A k \in DOMAIN Tail(todo[r]) : k + 1 \in DOMAIN todo[r] /\ Tail(todo[r])[k] = todo[r][k + 1]
      BY <1>1
    <3>. QED
      BY <3>1 DEF Inv, Pending
  <2>3. TypeOK'
    BY <1>2, <1>3, <1>4, <2>1 DEF Inv, TypeOK, Rows, NamedAndTyped
  <2>4. Pending'
    BY <1>4, <2>2 DEF Inv, TypeOK, Pending
  <2>. QED
    BY <2>3, <2>4
<1>6. RowsReturned' /\ Written'
  BY <1>2, <1>3, <1>4 DEF At, Inv, TypeOK, Rows, RowsReturned, Written
<1>7. Serving'
  BY <1>4 DEF Inv, Serving
<1>. QED
  BY <1>5, <1>6, <1>7 DEF Inv

\* The end of a transaction, whichever: its rows are given back.
LEMMA UnlockInv ==
  ASSUME Inv, NEW r \in Reqs, Unlock(r), pc[r] # "idle",
         NEW stage \in {"answered", "failed"}, Goto(r, stage),
         table' \in Rows, NamedAndTyped(table'), todo' = [todo EXCEPT ![r] = <<>>] \/ UNCHANGED todo,
         UNCHANGED <<call, view>>
  PROVE  Inv'
<1>1. \A i \in IDs : /\ lock'[i] = IF lock[i] = r THEN Free ELSE lock[i]
                     /\ dirty'[i] = IF lock[i] = r THEN Absent ELSE dirty[i]
  BY DEF Unlock
<1>2. /\ lock' \in [IDs -> Reqs \cup {Free}]
      /\ dirty' \in Rows
  BY DEF Unlock, Inv, TypeOK, Rows
<1>3. TypeOK' /\ Pending'
  <2>1. /\ todo' \in [Reqs -> Seq(Metric)]
        /\ \A q \in Reqs : todo'[q] = <<>> \/ todo'[q] = todo[q]
    <3>1. todo \in [Reqs -> Seq(Metric)] /\ <<>> \in Seq(Metric)
      BY DEF Inv, TypeOK
    <3>2. CASE todo' = [todo EXCEPT ![r] = <<>>]
      BY <3>1, <3>2
    <3>3. CASE UNCHANGED todo
      BY <3>1, <3>3
    <3>. QED
      BY <3>2, <3>3
  <2>2. pc' \in [Reqs -> {"idle", "begin", "exec", "query", "answered", "failed"}]
    BY DEF Goto, Inv, TypeOK
  <2>3. TypeOK'
    BY <1>2, <2>1, <2>2 DEF Inv, TypeOK
  <2>4. Pending'
    BY <2>1 DEF Inv, Pending
  <2>. QED
    BY <2>3, <2>4
<1>4. RowsReturned' /\ Written'
  <2>1. RowsReturned'
    BY <1>1, CallsAssumption DEF Goto, At, Inv, TypeOK, RowsReturned
  <2>2. ASSUME NEW i \in IDs, lock'[i] # Free PROVE lock[i] # Free /\ dirty'[i] = dirty[i]
    BY <1>1, <2>2
  <2>3. Written'
    BY <2>2 DEF Inv, Written
  <2>. QED
    BY <2>1, <2>3
<1>5. Serving'
  BY DEF Goto, Inv, TypeOK, Serving
<1>. QED
  BY <1>3, <1>4, <1>5 DEF Inv

LEMMA RollbackInv ==
  ASSUME Inv, NEW r \in Reqs, pc[r] # "idle", Rollback(r), UNCHANGED <<table, call, view>>
  PROVE  Inv'
<1>1. table' \in Rows /\ NamedAndTyped(table')
  BY DEF Inv, TypeOK
<1>. QED
  BY <1>1, UnlockInv DEF Rollback

LEMMA CommitInv == ASSUME Inv, NEW r \in Reqs, Commit(r) PROVE Inv'
<1>1. table' \in Rows /\ NamedAndTyped(table')
  BY RowNames DEF Commit, Rows, NamedAndTyped
<1>2. PICK outcome \in {"answered", "failed"} : Goto(r, outcome)
  BY DEF Commit
<1>. QED
  BY <1>1, <1>2, UnlockInv DEF Commit, At

\* A request that is not in a transaction holds no row.
LEMMA QuietInv == ASSUME Inv, NEW r \in Reqs, Query(r) \/ Finish(r) PROVE Inv'
<1>1. UNCHANGED <<table, lock, dirty, todo>> /\ pc[r] \in {"query", "answered", "failed"}
  BY DEF Query, Finish, At
<1>2. TypeOK'
  <2>1. Nothing \in Rows /\ [Nothing EXCEPT ![call[r].batch[1].id] = table[call[r].batch[1].id]] \in Rows
    <3>1. \A i : i \in IDs => table[i] \in Metric \cup {Absent}
      BY DEF Inv, TypeOK, Rows
    <3>. QED
      BY <3>1 DEF Nothing, Rows
  <2>. QED
    BY <1>1, <2>1 DEF Query, Finish, Goto, Inv, TypeOK
<1>3. RowsReturned' /\ Written' /\ Pending'
  BY <1>1 DEF Query, Finish, Goto, At, Inv, TypeOK, RowsReturned, Written, Pending
<1>4. Serving'
  BY <1>1 DEF Query, Finish, Goto, Inv, TypeOK, Serving
<1>. QED
  BY <1>2, <1>3, <1>4 DEF Inv

LEMMA NextInv == Inv /\ [Next]_vars => Inv'
<1>. SUFFICES ASSUME Inv, [Next]_vars PROVE Inv'
  OBVIOUS
<1>1. ASSUME NEW r \in Reqs, NEW c \in Calls, Receive(r, c) PROVE Inv'
  BY <1>1, ReceiveInv
<1>2. ASSUME NEW r \in Reqs, Proceed(r) \/ Exec(r) PROVE Inv'
  BY <1>2, BeginInv, CommitInv, QuietInv, ExecInv DEF Proceed
<1>3. ASSUME NEW r \in Reqs, ExecOverflows(r) \/ DeadlockVictim(r) \/ DbFails(r) PROVE Inv'
  <2>1. Rollback(r) /\ UNCHANGED <<table, call, view>>
    BY <1>3 DEF ExecOverflows, DeadlockVictim, DbFails
  <2>2. pc[r] # "idle"
    BY <1>3 DEF ExecOverflows, DeadlockVictim, DbFails, Circle, Waits, At
  <2>. QED
    BY <2>1, <2>2, RollbackInv
<1>4. CASE UNCHANGED vars
  BY <1>4 DEF vars, At, Inv, TypeOK, RowsReturned, Serving, Pending, Written
<1>. QED
  BY <1>1, <1>2, <1>3, <1>4 DEF Next, Statement

\* Type correctness: whatever calls come, a row that is committed is a metric under its own
\* name, of one of the two types.
THEOREM TypeCorrect == Spec => []TypeOK
<1>1. Inv => TypeOK
  BY DEF Inv
<1>. QED
  BY <1>1, InitInv, NextInv, PTL DEF Spec

\* A row is held only by a transaction under way: whichever way Update ends, its deferred
\* Rollback or its Commit gives the rows back.
THEOREM RowsGivenBack == Spec => []RowsReturned
<1>1. Inv => RowsReturned
  BY DEF Inv
<1>. QED
  BY <1>1, InitInv, NextInv, PTL DEF Spec

(***************************************************************************)
(* Committed rows                                                          *)
(***************************************************************************)

\* A committed row changes only when the transaction that holds it commits, and never
\* disappears: between a transaction's first statement on a row and its commit nobody
\* else's commit gets in.
ChangesUnderLock ==
    \A i \in IDs : table'[i] # table[i] =>
        /\ table'[i] # Absent
        /\ \E r \in Reqs : lock[i] = r /\ Commit(r)

THEOREM NoCommitInBetween == Spec => [][ChangesUnderLock]_vars
<1>1. ASSUME Inv, Next PROVE ChangesUnderLock
  <2>. SUFFICES ASSUME NEW i \in IDs, table'[i] # table[i]
                PROVE  table'[i] # Absent /\ \E r \in Reqs : lock[i] = r /\ Commit(r)
    BY DEF ChangesUnderLock
  <2>1. PICK r \in Reqs : Commit(r)
    BY <1>1 DEF Next, Receive, Proceed, Statement, Begin, Query, Finish, Exec,
                ExecOverflows, DeadlockVictim, DbFails
  <2>2. table'[i] = Row(r, i)
    BY <2>1 DEF Commit
  <2>3. lock[i] = r /\ table'[i] = dirty[i]
    BY <2>2 DEF Row
  <2>4. dirty[i] \in Metric
    BY <1>1, <2>3, CallsAssumption DEF Inv, Written
  <2>. QED
    BY <2>1, <2>3, <2>4, MetricAssumption
<1>. QED
  BY <1>1, InitInv, NextInv, PTL DEF Spec

(***************************************************************************)
(* Whole batches. A transaction's rows are, at every one of its            *)
(* statements, what the loop over the statements run so far makes of the   *)
(* table as it is committed now: others may commit meanwhile, but not to a *)
(* row this loop has met.                                                  *)
(***************************************************************************)
Turn(t, m) == [t EXCEPT ![m.id] = Upsert(@, m)]

L == INSTANCE Loops WITH Step <- Turn

LEMMA OutcomeIsLoop == \A t, b : Outcome(t, b) = L!Loop(t, b)
  BY DEF Outcome, FoldLeft, MapThenFoldSet, Max,
         L!Loop, L!FoldLeft, L!MapThenFoldSet, L!Max, Turn

\* One statement keeps a table a table, and touches its own row.
LEMMA TurnRows ==
  ASSUME NEW t \in Rows, NEW m \in Metric
  PROVE  /\ Turn(t, m) \in Rows
         /\ \A i \in IDs : Turn(t, m)[i] = IF m.id = i THEN Upsert(t[i], m) ELSE t[i]
<1>1. CASE m.id \in IDs
  <2>1. Upsert(t[m.id], m) \in Metric
    BY <1>1, UpsertType DEF Rows
  <2>. QED
    BY <1>1, <2>1 DEF Turn, Rows
<1>2. CASE m.id \notin IDs
  BY <1>2 DEF Turn, Rows
<1>. QED
  BY <1>1, <1>2

LEMMA OutcomeRows ==
  ASSUME NEW t \in Rows, NEW b \in Seq(Metric) PROVE Outcome(t, b) \in Rows
<1>1. \A s \in Rows : \A k \in DOMAIN b : Turn(s, b[k]) \in Rows
  BY TurnRows
<1>2. L!Loop(t, b) \in Rows
  BY <1>1, L!LoopKeeps
<1>. QED
  BY <1>2, OutcomeIsLoop

\* A row that is not written stays as it was.
LEMMA OutcomeUntouched ==
  ASSUME NEW t \in Rows, NEW b \in Seq(Metric), NEW i \in IDs, \A k \in DOMAIN b : b[k].id # i
  PROVE  Outcome(t, b)[i] = t[i]
<1>. DEFINE S == {s \in Rows : s[i] = t[i]}
<1>1. t \in S /\ \A s \in S : \A k \in DOMAIN b : Turn(s, b[k]) \in S
  <2>. SUFFICES ASSUME NEW s \in S, NEW k \in DOMAIN b PROVE Turn(s, b[k]) \in S
    OBVIOUS
  <2>1. b[k] \in Metric
    OBVIOUS
  <2>. QED
    BY <2>1, TurnRows
<1>2. L!Loop(t, b) \in S
  <2>. HIDE DEF S
  <2>. QED
    BY <1>1, L!LoopKeeps
<1>. QED
  BY <1>2, OutcomeIsLoop

\* What a batch makes of a row depends on that row only.
LEMMA OutcomeByRow ==
  ASSUME NEW t \in Rows, NEW u \in Rows, NEW b \in Seq(Metric), NEW i \in IDs, t[i] = u[i]
  PROVE  Outcome(t, b)[i] = Outcome(u, b)[i]
<1>. DEFINE S == {p \in Rows \X Rows : p[1][i] = p[2][i]}
<1>1. \A x, y \in Rows : x[i] = y[i] => <<x, y>> \in S
  OBVIOUS
<1>2. \A p \in S : \A k \in DOMAIN b : <<Turn(p[1], b[k]), Turn(p[2], b[k])>> \in S
  <2>. SUFFICES ASSUME NEW p \in S, NEW k \in DOMAIN b
                PROVE  <<Turn(p[1], b[k]), Turn(p[2], b[k])>> \in S
    OBVIOUS
  <2>1. b[k] \in Metric /\ p[1] \in Rows /\ p[2] \in Rows /\ p[1][i] = p[2][i]
    OBVIOUS
  <2>2. Turn(p[1], b[k]) \in Rows
        /\ Turn(p[1], b[k])[i] = IF b[k].id = i THEN Upsert(p[1][i], b[k]) ELSE p[1][i]
    BY <2>1, TurnRows
  <2>3. Turn(p[2], b[k]) \in Rows
        /\ Turn(p[2], b[k])[i] = IF b[k].id = i THEN Upsert(p[2][i], b[k]) ELSE p[2][i]
    BY <2>1, TurnRows
  <2>. HIDE DEF S
  <2>. QED
    BY <1>1, <2>1, <2>2, <2>3
<1>3. <<L!Loop(t, b), L!Loop(u, b)>> \in S
  <2>1. <<t, u>> \in S
    BY <1>1
  <2>. HIDE DEF S
  <2>. QED
    BY <1>2, <2>1, L!LoopRelates
<1>. QED
  BY <1>3, OutcomeIsLoop

\* One statement more.
LEMMA OutcomeAppend ==
  ASSUME NEW t \in Rows, NEW b \in Seq(Metric), NEW m \in Metric, NEW i \in IDs
  PROVE  Outcome(t, Append(b, m))[i] =
           IF m.id = i THEN Upsert(Outcome(t, b)[i], m) ELSE Outcome(t, b)[i]
<1>1. L!Loop(t, Append(b, m)) = Turn(L!Loop(t, b), m)
  BY L!LoopAppend
<1>. QED
  BY <1>1, OutcomeIsLoop, OutcomeRows, TurnRows

LEMMA OutcomeEmpty == \A t : Outcome(t, <<>>) = t
  BY L!LoopEmpty, OutcomeIsLoop

\* The statements run so far.
Ran(r, done) ==
  /\ call[r].batch = done \o todo[r]
  /\ \A i \in IDs : lock[i] = r <=> \E k \in DOMAIN done : done[k].id = i
  /\ \A i \in IDs : Row(r, i) = Outcome(table, done)[i]

UnderWay(r) ==
  pc[r] = "exec" =>
    /\ call[r].op \in {"Set", "Update"} /\ Passes(call[r])
    /\ \E done \in Seq(Metric) : Ran(r, done)

BatchInv == Inv /\ \A r \in Reqs : UnderWay(r)

LEMMA InitBatch == Init => BatchInv
  BY InitInv DEF Init, BatchInv, UnderWay

\* Before the first statement the transaction sees the committed table.
LEMMA BeginUnderWay ==
  ASSUME BatchInv, NEW r \in Reqs, Begin(r) PROVE UnderWay(r)'
<1>1. /\ call' = call /\ lock' = lock /\ table' = table /\ todo'[r] = call[r].batch
      /\ call[r] \in Calls /\ call[r].op \in {"Set", "Update"} /\ Passes(call[r])
      /\ \A i \in IDs : lock[i] # r
  BY CallsAssumption DEF Begin, At, BatchInv, Inv, TypeOK, Serving, RowsReturned
<1>2. call[r].batch = <<>> \o call[r].batch
  <2>1. call[r].batch \in Seq(Metric)
    BY <1>1, CallsAssumption
  <2>. QED
    BY <2>1
<1>3. Ran(r, <<>>)'
  BY <1>1, <1>2, OutcomeEmpty DEF Ran, Row
<1>4. <<>> \in Seq(Metric)
  OBVIOUS
<1>. QED
  BY <1>1, <1>3, <1>4 DEF UnderWay, Passes

\* What comes first of the rest may as well come last of what is done.
LEMMA MoveHead ==
  ASSUME NEW M, NEW done \in Seq(M), NEW rest \in Seq(M), rest # <<>>
  PROVE  done \o rest = Append(done, Head(rest)) \o Tail(rest)
<1>1. /\ Len(rest) \in Nat \ {0} /\ Len(done) \in Nat /\ Head(rest) = rest[1] /\ rest[1] \in M
      /\ Tail(rest) \in Seq(M) /\ Len(Tail(rest)) = Len(rest) - 1
      /\ \A k \in 1 .. Len(rest) - 1 : Tail(rest)[k] = rest[k + 1]
  OBVIOUS
<1>2. PICK more \in Seq(M) :
        /\ more = Append(done, Head(rest))
        /\ Len(more) = Len(done) + 1 /\ more[Len(done) + 1] = rest[1]
        /\ \A k \in 1 .. Len(done) : more[k] = done[k]
  <2>1. \A x \in M : /\ Append(done, x) \in Seq(M)
                     /\ Len(Append(done, x)) = Len(done) + 1
                     /\ Append(done, x)[Len(done) + 1] = x
                     /\ \A k \in 1 .. Len(done) : Append(done, x)[k] = done[k]
    OBVIOUS
  <2>. QED
    BY <1>1, <2>1
<1>3. PICK tail \in Seq(M) : tail = Tail(rest)
  BY <1>1
<1>4. /\ done \o rest \in Seq(M) /\ Len(done \o rest) = Len(done) + Len(rest)
      /\ \A k \in 1 .. Len(done) + Len(rest) :
           (done \o rest)[k] = IF k <= Len(done) THEN done[k] ELSE rest[k - Len(done)]
  BY ConcatProperties
<1>5. /\ more \o tail \in Seq(M) /\ Len(more \o tail) = Len(more) + Len(tail)
      /\ \A k \in 1 .. Len(more) + Len(tail) :
           (more \o tail)[k] = IF k <= Len(more) THEN more[k] ELSE tail[k - Len(more)]
  BY ConcatProperties
<1>6. Len(more) + Len(tail) = Len(done) + Len(rest)
  BY <1>1, <1>2, <1>3
<1>7. ASSUME NEW k \in 1 .. Len(done) + Len(rest) PROVE (done \o rest)[k] = (more \o tail)[k]
  <2>0. (done \o rest)[k] = IF k <= Len(done) THEN done[k] ELSE rest[k - Len(done)]
    BY <1>4
  <2>1. (more \o tail)[k] = IF k <= Len(done) + 1 THEN more[k] ELSE tail[k - (Len(done) + 1)]
    BY <1>2, <1>5, <1>6
  <2>2. CASE k <= Len(done)
    <3>1. k \in 1 .. Len(done)
      BY <1>1, <2>2
    <3>. QED
      BY <1>1, <1>2, <2>0, <2>1, <2>2, <3>1
  <2>3. CASE k = Len(done) + 1
    BY <1>1, <1>2, <2>0, <2>1, <2>3
  <2>4. CASE k > Len(done) + 1
    <3>1. /\ k - (Len(done) + 1) \in 1 .. Len(rest) - 1
          /\ (k - (Len(done) + 1)) + 1 = k - Len(done)
          /\ ~(k <= Len(done)) /\ ~(k <= Len(done) + 1)
      BY <1>1, <2>4
    <3>2. tail[k - (Len(done) + 1)] = rest[(k - (Len(done) + 1)) + 1]
      BY <1>1, <1>3, <3>1
    <3>. QED
      BY <2>0, <2>1, <3>1, <3>2
  <2>5. k <= Len(done) \/ k = Len(done) + 1 \/ k > Len(done) + 1
    BY <1>1
  <2>. QED
    BY <2>2, <2>3, <2>4, <2>5
<1>8. done \o rest = more \o tail
  <2>1. Len(done \o rest) = Len(more \o tail)
    BY <1>4, <1>5, <1>6
  <2>. QED
    BY <1>4, <1>5, <1>7, <2>1, SeqEqual
<1>. QED
  BY <1>2, <1>3, <1>8

\* The next statement of the loop.
LEMMA ExecUnderWay ==
  ASSUME BatchInv, NEW r \in Reqs, Exec(r) PROVE UnderWay(r)'
<1>0. PICK m : m = Head(todo[r])
  OBVIOUS
<1>1. PICK done \in Seq(Metric) : Ran(r, done)
  BY DEF BatchInv, UnderWay, Exec, At
<1>2. /\ m = Head(todo[r]) /\ todo[r] \in Seq(Metric) /\ todo[r] # <<>> /\ m \in Metric /\ m.id \in IDs
      /\ table \in Rows /\ todo'[r] = Tail(todo[r]) /\ call' = call /\ table' = table
      /\ call[r].op \in {"Set", "Update"} /\ Passes(call[r])
  <2>1. todo[r] \in Seq(Metric) /\ todo[r] # <<>> /\ m = todo[r][1] /\ 1 \in DOMAIN todo[r]
    BY <1>0 DEF Exec, BatchInv, Inv, TypeOK
  <2>. QED
    BY <1>0, <2>1 DEF Exec, At, BatchInv, UnderWay, Inv, TypeOK, Pending, Valid
<1>3. /\ \A i \in IDs : lock'[i] = IF i = m.id THEN r ELSE lock[i]
      /\ \A i \in IDs : dirty'[i] = IF i = m.id THEN Upsert(Row(r, m.id), m) ELSE dirty[i]
  BY <1>0 DEF Exec, BatchInv, Inv, TypeOK, Rows
<1>4. PICK more \in Seq(Metric) : more = Append(done, m)
  <2>1. Append(done, m) \in Seq(Metric)
    BY <1>2
  <2>. QED
    BY <2>1
<1>5. /\ more \in Seq(Metric) /\ Len(more) = Len(done) + 1 /\ more[Len(done) + 1] = m
      /\ DOMAIN more = DOMAIN done \cup {Len(done) + 1}
      /\ \A k \in DOMAIN done : more[k] = done[k]
  BY <1>2, <1>4
<1>6. call[r].batch = more \o Tail(todo[r])
  BY <1>1, <1>2, <1>4, MoveHead DEF Ran
<1>7. \A i \in IDs : Row(r, i)' = Outcome(table, more)[i]
  BY <1>1, <1>2, <1>3, <1>4, OutcomeAppend DEF Row, Ran
<1>8. Ran(r, more)'
  <2>1. \A i \in IDs : lock'[i] = r <=> \E k \in DOMAIN more : more[k].id = i
    <3>. SUFFICES ASSUME NEW i \in IDs
                  PROVE  lock'[i] = r <=> \E k \in DOMAIN more : more[k].id = i
      OBVIOUS
    <3>1. lock[i] = r <=> \E k \in DOMAIN done : done[k].id = i
      BY <1>1 DEF Ran
    <3>2. (\E k \in DOMAIN more : more[k].id = i) <=> i = m.id \/ \E k \in DOMAIN done : done[k].id = i
      BY <1>5
    <3>. QED
      BY <1>3, <3>1, <3>2
  <2>2. call'[r].batch = more \o todo'[r]
    BY <1>2, <1>6
  <2>3. \A i \in IDs : Row(r, i)' = Outcome(table', more)[i]
    BY <1>2, <1>7
  <2>. QED
    BY <2>1, <2>2, <2>3 DEF Ran
<1>9. \E d \in Seq(Metric) : Ran(r, d)'
  BY <1>8
<1>. QED
  BY <1>2, <1>9 DEF UnderWay, Passes

\* A transaction that ends gives up its own rows and no others.
LEMMA UnlockOthers ==
  ASSUME BatchInv, NEW r \in Reqs, Unlock(r), NEW q \in Reqs, q # r
  PROVE  \A i \in IDs : /\ lock'[i] = q <=> lock[i] = q
                        /\ lock[i] = q => dirty'[i] = dirty[i]
  BY CallsAssumption DEF Unlock, BatchInv, Inv, TypeOK, Rows

\* Another's statement, rollback or commit: this transaction's rows are its own.
LEMMA OtherUnderWay ==
  ASSUME BatchInv, NEW r \in Reqs, NEW q \in Reqs, q # r,
         Exec(r) \/ Commit(r) \/ (Rollback(r) /\ UNCHANGED <<table, call, view>>)
  PROVE  UnderWay(q)'
<1>. SUFFICES ASSUME pc'[q] = "exec" PROVE UnderWay(q)'
  BY DEF UnderWay
<1>1. /\ pc[q] = "exec" /\ call' = call /\ todo'[q] = todo[q]
      /\ table \in Rows /\ table' \in Rows
  <2>1. table' \in Rows
    <3>1. CASE Commit(r)
      <4>1. \A i \in IDs : Row(r, i) \in Metric \cup {Absent}
        BY DEF Row, BatchInv, Inv, TypeOK, Rows
      <4>. QED
        BY <3>1, <4>1 DEF Commit, Rows
    <3>2. CASE ~Commit(r)
      BY <3>2 DEF Exec, BatchInv, Inv, TypeOK
    <3>. QED
      BY <3>1, <3>2
  <2>. QED
    BY <2>1 DEF Exec, Rollback, Commit, Goto, BatchInv, Inv, TypeOK
<1>2. call[q].op \in {"Set", "Update"} /\ Passes(call[q])
  BY <1>1 DEF BatchInv, UnderWay
<1>3. PICK done \in Seq(Metric) : Ran(q, done)
  BY <1>1 DEF BatchInv, UnderWay
<1>4. \A i \in IDs : /\ lock'[i] = q <=> lock[i] = q
                     /\ lock[i] = q => dirty'[i] = dirty[i] /\ table'[i] = table[i]
  <2>1. CASE Exec(r)
    <3>1. lock[Head(todo[r]).id] # q
      BY <2>1, CallsAssumption DEF Exec, Locked
    <3>. QED
      BY <2>1, <3>1 DEF Exec, BatchInv, Inv, TypeOK, Rows
  <2>2. CASE Rollback(r) /\ UNCHANGED <<table, call, view>>
    BY <2>2, UnlockOthers DEF Rollback
  <2>3. CASE Commit(r)
    <3>1. \A i \in IDs : lock[i] = q => table'[i] = table[i]
      BY <2>3 DEF Commit, Row
    <3>. QED
      BY <2>3, <3>1, UnlockOthers DEF Commit
  <2>. QED
    BY <2>1, <2>2, <2>3
<1>5. ASSUME NEW i \in IDs PROVE Row(q, i)' = Outcome(table', done)[i]
  <2>1. CASE lock[i] = q
    <3>1. Row(q, i)' = Row(q, i) /\ table'[i] = table[i]
      BY <1>4, <2>1 DEF Row
    <3>. QED
      BY <1>1, <1>3, <3>1, OutcomeByRow DEF Ran
  <2>2. CASE lock[i] # q
    <3>1. Row(q, i)' = table'[i]
      BY <1>4, <2>2 DEF Row
    <3>2. \A k \in DOMAIN done : done[k].id # i
      BY <1>3, <2>2 DEF Ran
    <3>. QED
      BY <1>1, <3>1, <3>2, OutcomeUntouched
  <2>. QED
    BY <2>1, <2>2
<1>6. Ran(q, done)'
  <2>1. \A i \in IDs : lock'[i] = q <=> \E k \in DOMAIN done : done[k].id = i
    BY <1>3, <1>4 DEF Ran
  <2>2. call'[q].batch = done \o todo'[q]
    BY <1>1, <1>3 DEF Ran
  <2>. QED
    BY <1>5, <2>1, <2>2 DEF Ran
<1>7. \E d \in Seq(Metric) : Ran(q, d)'
  BY <1>6
<1>. QED
  BY <1>1, <1>2, <1>7 DEF UnderWay, Passes

LEMMA NextBatch == BatchInv /\ [Next]_vars => BatchInv'
<1>. SUFFICES ASSUME BatchInv, [Next]_vars PROVE BatchInv'
  OBVIOUS
<1>1. Inv'
  BY NextInv DEF BatchInv
<1>2. ASSUME NEW q \in Reqs, UNCHANGED <<table, lock, dirty, todo>>,
             pc'[q] = "exec" => pc[q] = "exec" /\ call'[q] = call[q]
      PROVE  UnderWay(q)'
  <2>. SUFFICES ASSUME pc'[q] = "exec" PROVE UnderWay(q)'
    BY DEF UnderWay
  <2>1. UnderWay(q) /\ pc[q] = "exec" /\ call'[q] = call[q]
    BY <1>2 DEF BatchInv
  <2>2. PICK done \in Seq(Metric) : Ran(q, done)
    BY <2>1 DEF UnderWay
  <2>3. Ran(q, done)'
    BY <1>2, <2>1, <2>2 DEF Ran, Row
  <2>4. \E d \in Seq(Metric) : Ran(q, d)'
    BY <2>3
  <2>. QED
    BY <2>1, <2>4 DEF UnderWay, Passes
<1>3. CASE UNCHANGED vars
  <2>1. \A q \in Reqs : UnderWay(q)'
    BY <1>3, <1>2 DEF vars
  <2>. QED
    BY <1>1, <2>1 DEF BatchInv
<1>4. ASSUME NEW r \in Reqs, (\E c \in Calls : Receive(r, c)) \/ Query(r) \/ Finish(r)
      PROVE  \A q \in Reqs : UnderWay(q)'
  <2>. SUFFICES ASSUME NEW q \in Reqs PROVE UnderWay(q)'
    OBVIOUS
  <2>1. /\ UNCHANGED <<table, lock, dirty, todo>>
        /\ pc'[q] = "exec" => pc[q] = "exec" /\ call'[q] = call[q]
    BY <1>4 DEF Receive, Query, Finish, Goto, BatchInv, Inv, TypeOK
  <2>. QED
    BY <1>2, <2>1
<1>5. ASSUME NEW r \in Reqs, Begin(r) PROVE \A q \in Reqs : UnderWay(q)'
  <2>. SUFFICES ASSUME NEW q \in Reqs, q # r PROVE UnderWay(q)'
    BY <1>5, BeginUnderWay
  <2>1. /\ UNCHANGED <<table, lock, dirty, call>> /\ todo'[q] = todo[q] /\ pc'[q] = pc[q]
    BY <1>5 DEF Begin, Goto, BatchInv, Inv, TypeOK
  <2>. SUFFICES ASSUME pc'[q] = "exec" PROVE UnderWay(q)'
    BY DEF UnderWay
  <2>2. PICK done \in Seq(Metric) : Ran(q, done)
    BY <2>1 DEF BatchInv, UnderWay
  <2>3. Ran(q, done)'
    BY <2>1, <2>2 DEF Ran, Row
  <2>4. \E d \in Seq(Metric) : Ran(q, d)'
    BY <2>3
  <2>. QED
    BY <2>1, <2>4 DEF BatchInv, UnderWay, Passes
<1>6. ASSUME NEW r \in Reqs, Exec(r) PROVE \A q \in Reqs : UnderWay(q)'
  <2>1. UnderWay(r)'
    BY <1>6, ExecUnderWay
  <2>2. \A q \in Reqs : q # r => UnderWay(q)'
    BY <1>6, OtherUnderWay
  <2>. QED
    BY <2>1, <2>2
<1>7. ASSUME NEW r \in Reqs,
             Commit(r) \/ ExecOverflows(r) \/ DeadlockVictim(r) \/ DbFails(r)
      PROVE  \A q \in Reqs : UnderWay(q)'
  <2>1. Commit(r) \/ (Rollback(r) /\ UNCHANGED <<table, call, view>>)
    <3>1. ExecOverflows(r) => Rollback(r) /\ UNCHANGED <<table, call, view>>
      BY DEF ExecOverflows
    <3>2. DeadlockVictim(r) => Rollback(r) /\ UNCHANGED <<table, call, view>>
      BY DEF DeadlockVictim
    <3>3. DbFails(r) => Rollback(r) /\ UNCHANGED <<table, call, view>>
      BY DEF DbFails
    <3>. QED
      BY <1>7, <3>1, <3>2, <3>3
  <2>2. pc'[r] # "exec"
    BY <2>1 DEF Commit, Rollback, Goto, BatchInv, Inv, TypeOK
  <2>3. UnderWay(r)'
    BY <2>2 DEF UnderWay
  <2>4. \A q \in Reqs : q # r => UnderWay(q)'
    BY <2>1, OtherUnderWay
  <2>. QED
    BY <2>3, <2>4
<1>8. CASE Next
  <2>1. \A q \in Reqs : UnderWay(q)'
    BY <1>4, <1>5, <1>6, <1>7, <1>8 DEF Next, Proceed, Statement
  <2>. QED
    BY <1>1, <2>1 DEF BatchInv
<1>. QED
  BY <1>3, <1>8

\* A commit is the whole of its batch, done to the table as it was just before.
LEMMA CommitIsWhole ==
  ASSUME BatchInv, NEW r \in Reqs, Commit(r)
  PROVE  /\ call[r].op \in {"Set", "Update"} /\ Passes(call[r])
         /\ table' = Outcome(table, call[r].batch)
<1>1. PICK done \in Seq(Metric) : Ran(r, done)
  BY DEF BatchInv, UnderWay, Commit, At
<1>2. call[r].batch = done
  <2>1. call[r].batch = done \o <<>>
    BY <1>1 DEF Ran, Commit
  <2>. QED
    BY <2>1
<1>3. Outcome(table, done) \in Rows
  BY OutcomeRows DEF BatchInv, Inv, TypeOK
<1>4. table' = Outcome(table, done)
  BY <1>1, <1>3 DEF Ran, Rows, Commit
<1>. QED
  BY <1>2, <1>4 DEF BatchInv, UnderWay, Commit, At

\* Committed rows change by whole batches, each on top of all the earlier ones, in
\* whatever order the statements of concurrent transactions ran.
THEOREM BatchesAreWhole == Spec => WholeBatches
<1>1. ASSUME BatchInv, [Next]_vars PROVE WholeBatch
  <2>. SUFFICES ASSUME table' # table
                PROVE  \E r \in Reqs : /\ At(r, "exec") /\ pc'[r] # "exec"
                                       /\ table' = Outcome(table, call[r].batch)
    BY DEF WholeBatch
  <2>1. PICK r \in Reqs : Commit(r)
    BY <1>1 DEF Next, Receive, Proceed, Statement, Begin, Query, Finish, Exec,
                ExecOverflows, DeadlockVictim, DbFails, vars
  <2>2. At(r, "exec") /\ pc'[r] # "exec"
    BY <1>1, <2>1 DEF Commit, Goto, BatchInv, Inv, TypeOK
  <2>. QED
    BY <1>1, <2>1, <2>2, CommitIsWhole
<1>2. BatchInv /\ [Next]_vars => [WholeBatch]_vars
  BY <1>1
<1>. QED
  BY <1>2, InitBatch, NextBatch, PTL DEF Spec, WholeBatches

(***************************************************************************)
(* Listings. Two names that are always sent together are level in every    *)
(* committed table, because a commit is a whole batch; a listing is one    *)
(* such table.                                                             *)
(***************************************************************************)
Level(t, i, j) ==
  /\ t[i] = Absent <=> t[j] = Absent
  /\ t[i] # Absent => t[i].value = t[j].value

\* A row that is written ends up with a value it was written with.
LEMMA OutcomeBrings ==
  ASSUME NEW t \in Rows, NEW b \in Seq(Metric), NEW i \in IDs, NEW k \in DOMAIN b, b[k].id = i
  PROVE  /\ Outcome(t, b)[i] # Absent
         /\ \E l \in DOMAIN b : b[l].id = i /\ Outcome(t, b)[i].value = b[l].value
<1>. DEFINE S == {s \in Rows : /\ s[i] # Absent
                               /\ \E l \in DOMAIN b : b[l].id = i /\ s[i].value = b[l].value}
<1>1. ASSUME NEW s \in Rows, NEW l \in DOMAIN b, b[l].id = i PROVE Turn(s, b[l]) \in S
  <2>1. b[l] \in Metric /\ s[i] \in Metric \cup {Absent}
    BY DEF Rows
  <2>2. Turn(s, b[l]) \in Rows /\ Turn(s, b[l])[i] = Upsert(s[i], b[l])
    BY <1>1, <2>1, TurnRows
  <2>3. Upsert(s[i], b[l]) # Absent
    BY <2>1, UpsertType, MetricAssumption
  <2>4. Upsert(s[i], b[l]).value = b[l].value
    BY <2>1 DEF Upsert, Metric
  <2>. QED
    BY <1>1, <2>2, <2>3, <2>4
<1>2. ASSUME NEW s \in S, NEW l \in DOMAIN b PROVE Turn(s, b[l]) \in S
  <2>1. CASE b[l].id = i
    BY <1>1, <2>1
  <2>2. CASE b[l].id # i
    <3>1. b[l] \in Metric
      OBVIOUS
    <3>2. Turn(s, b[l]) \in Rows /\ Turn(s, b[l])[i] = s[i]
      BY <2>2, <3>1, TurnRows
    <3>. QED
      BY <3>2
  <2>. QED
    BY <2>1, <2>2
<1>3. \A s \in Rows : \A l \in DOMAIN b : Turn(s, b[l]) \in Rows
  BY TurnRows
<1>4. L!Loop(t, b) \in S
  <2>1. \A s \in Rows : Turn(s, b[k]) \in S
    BY <1>1
  <2>. HIDE DEF S
  <2>. QED
    BY <1>2, <1>3, <2>1, L!LoopReaches
<1>. QED
  BY <1>4, OutcomeIsLoop

\* A batch that sends both, or leaves out both, keeps them level.
LEMMA OutcomeLevel ==
  ASSUME NEW i \in IDs, NEW j \in IDs, SentTogether(i, j), NEW t \in Rows, Level(t, i, j),
         NEW c \in Calls, c.op \in {"Set", "Update"}, Passes(c)
  PROVE  Level(Outcome(t, c.batch), i, j)
<1>. DEFINE b == c.batch
            of == {k \in DOMAIN b : b[k].id \in {i, j}}
<1>1. b \in Seq(Metric)
  BY CallsAssumption
<1>2. /\ \A k, l \in of : b[k].value = b[l].value
      /\ of # {} => (\E k \in of : b[k].id = i) /\ (\E k \in of : b[k].id = j)
  BY DEF SentTogether
<1>3. CASE of = {}
  <2>1. Outcome(t, b)[i] = t[i] /\ Outcome(t, b)[j] = t[j]
    BY <1>1, <1>3, OutcomeUntouched
  <2>. QED
    BY <2>1 DEF Level
<1>4. CASE of # {}
  <2>1. PICK k \in DOMAIN b : b[k].id = i
    BY <1>2, <1>4
  <2>2. PICK l \in DOMAIN b : b[l].id = j
    BY <1>2, <1>4
  <2>3. /\ Outcome(t, b)[i] # Absent
        /\ \E n \in DOMAIN b : b[n].id = i /\ Outcome(t, b)[i].value = b[n].value
    BY <1>1, <2>1, OutcomeBrings
  <2>4. /\ Outcome(t, b)[j] # Absent
        /\ \E n \in DOMAIN b : b[n].id = j /\ Outcome(t, b)[j].value = b[n].value
    BY <1>1, <2>2, OutcomeBrings
  <2>5. \A m, n \in DOMAIN b : b[m].id = i /\ b[n].id = j => b[m].value = b[n].value
    BY <1>2
  <2>6. Outcome(t, b)[i].value = Outcome(t, b)[j].value
    BY <2>3, <2>4, <2>5
  <2>. QED
    BY <2>3, <2>4, <2>6 DEF Level
<1>. QED
  BY <1>3, <1>4

TogetherInv(i, j) ==
  /\ Level(table, i, j)
  /\ \A r \in Reqs : pc[r] = "answered" /\ call[r].op = "List" => Level(view[r], i, j)

LEMMA NextTogether ==
  ASSUME NEW i \in IDs, NEW j \in IDs, SentTogether(i, j)
  PROVE  BatchInv /\ TogetherInv(i, j) /\ [Next]_vars => TogetherInv(i, j)'
<1>. SUFFICES ASSUME BatchInv, TogetherInv(i, j), [Next]_vars PROVE TogetherInv(i, j)'
  OBVIOUS
<1>1. ASSUME NEW r \in Reqs, Commit(r) PROVE TogetherInv(i, j)'
  <2>1. /\ call[r] \in Calls /\ table \in Rows /\ call[r].op \in {"Set", "Update"}
        /\ Passes(call[r]) /\ table' = Outcome(table, call[r].batch)
    BY <1>1, CommitIsWhole DEF BatchInv, Inv, TypeOK, Serving, Commit, At
  <2>2. Level(table, i, j)'
    BY <2>1, OutcomeLevel DEF TogetherInv, Level
  <2>3. \A q \in Reqs : q # r => pc'[q] = pc[q]
    BY <1>1 DEF Commit, Goto, BatchInv, Inv, TypeOK
  <2>4. call' = call /\ view' = view
    BY <1>1 DEF Commit
  <2>. QED
    BY <2>1, <2>2, <2>3, <2>4 DEF TogetherInv, Level
<1>2. ASSUME NEW r \in Reqs, Query(r) PROVE TogetherInv(i, j)'
  <2>1. table' = table /\ call' = call /\ (call[r].op = "List" => view'[r] = table)
    BY <1>2 DEF Query, BatchInv, Inv, TypeOK
  <2>2. \A q \in Reqs : q # r => pc'[q] = pc[q] /\ view'[q] = view[q]
    BY <1>2 DEF Query, Goto, BatchInv, Inv, TypeOK
  <2>. QED
    BY <2>1, <2>2 DEF TogetherInv, Level
<1>3. ASSUME NEW r \in Reqs,
             \/ \E c \in Calls : Receive(r, c)
             \/ Begin(r) \/ Finish(r) \/ Exec(r)
             \/ ExecOverflows(r) \/ DeadlockVictim(r) \/ DbFails(r)
      PROVE  TogetherInv(i, j)'
  <2>1. /\ table' = table /\ pc'[r] # "answered"
        /\ \A q \in Reqs : q # r => pc'[q] = pc[q] /\ call'[q] = call[q] /\ view'[q] = view[q]
    <3>1. CASE (\E c \in Calls : Receive(r, c)) \/ Begin(r) \/ Finish(r)
      BY <3>1 DEF Receive, Begin, Finish, Goto, BatchInv, Inv, TypeOK
    <3>2. CASE Exec(r)
      BY <3>2 DEF Exec, At
    <3>3. CASE ExecOverflows(r)
      BY <3>3 DEF ExecOverflows, Rollback, Goto, BatchInv, Inv, TypeOK
    <3>4. CASE DeadlockVictim(r)
      BY <3>4 DEF DeadlockVictim, Rollback, Goto, BatchInv, Inv, TypeOK
    <3>5. CASE DbFails(r)
      BY <3>5 DEF DbFails, Rollback, Goto, BatchInv, Inv, TypeOK
    <3>. QED
      BY <1>3, <3>1, <3>2, <3>3, <3>4, <3>5
  <2>. QED
    BY <2>1 DEF TogetherInv, Level
<1>4. CASE UNCHANGED vars
  BY <1>4 DEF TogetherInv, Level, vars
<1>. QED
  BY <1>1, <1>2, <1>3, <1>4 DEF Next, Proceed, Statement

\* A listing shows two gauges that are always sent together with values that were sent
\* together, or shows neither, however the transactions that write them interleave.
THEOREM ListsTogether == Spec => []ListedTogether
<1>. DEFINE Together == \A i, j \in IDs : SentTogether(i, j) => TogetherInv(i, j)
<1>1. Init => Together
  BY DEF Init, TogetherInv, Level, Nothing
<1>2. BatchInv /\ Together /\ [Next]_vars => Together'
  <2>. SUFFICES ASSUME BatchInv, Together, [Next]_vars, NEW i \in IDs, NEW j \in IDs,
                       SentTogether(i, j)
                PROVE  TogetherInv(i, j)'
    BY DEF SentTogether
  <2>. QED
    BY NextTogether
<1>3. Together => ListedTogether
  BY DEF TogetherInv, ListedTogether, At, Level
<1>. HIDE DEF Together
<1>. QED
  BY <1>1, <1>2, <1>3, InitBatch, NextBatch, PTL DEF Spec
=============================================================================
