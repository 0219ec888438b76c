-------------------------- MODULE MemStorageProofs --------------------------
(***************************************************************************)
(* What holds of MemStorage for any number of requests, any calls, any set *)
(* of names and values and any width of the integers.                      *)
(***************************************************************************)
EXTENDS MemStorage, SequenceTheorems, TLAPS

\* A sum of two int64 bit patterns is one: the counter wraps.
LEMMA Add64Type == \A a, b \in Int64 : Add64(a, b) \in Int64
  BY MetricAssumption DEF Add64, Int64

\* Merging a metric that passed validation into an entry, when it does not panic,
\* leaves a metric.
LEMMA MergeType ==
  ASSUME NEW old \in Metric \cup {Absent}, NEW m \in Metric, Valid(m), ~Panics(old, m)
  PROVE  Merge(old, m) \in Metric
<1>1. CASE old = Absent
  BY <1>1 DEF Merge
<1>2. CASE old # Absent /\ m.mtype = "gauge"
  BY <1>2 DEF Merge, Panics, Metric
<1>3. CASE old # Absent /\ m.mtype # "gauge"
  <2>1. m.mtype = "counter"
    BY <1>3 DEF Valid, AllowedMetricType
  <2>2. old.delta \in Int64 /\ m.delta \in Int64
    BY <1>3, <2>1 DEF Panics, Metric
  <2>3. Add64(old.delta, m.delta) \in Int64
    BY <2>2, Add64Type
  <2>. QED
    BY <1>3, <2>3 DEF Merge, Metric
<1>. QED
  BY <1>1, <1>2, <1>3

\* It leaves the entry under its name and with one of the two types.
LEMMA MergeNames ==
  ASSUME NEW old \in Metric \cup {Absent}, NEW m \in Metric, Valid(m),
         old # Absent => old.id = m.id /\ old.mtype \in AllowedMetricType
  PROVE  Merge(old, m).id = m.id /\ Merge(old, m).mtype \in AllowedMetricType
  BY DEF Merge, Metric, Valid

\* Merging never touches the type of an entry, nor whether it has a delta.
LEMMA MergeKeeps ==
  ASSUME NEW old \in Metric, NEW m \in Metric, Valid(m), ~Panics(old, m)
  PROVE  /\ Merge(old, m).mtype = old.mtype
         /\ (Merge(old, m).delta = Nil) = (old.delta = Nil)
<1>0. old # Absent
  BY MetricAssumption
<1>1. CASE m.mtype = "gauge"
  BY <1>0, <1>1 DEF Merge, Metric
<1>2. CASE m.mtype # "gauge"
  <2>1. m.mtype = "counter"
    BY <1>2 DEF Valid, AllowedMetricType
  <2>2. old.delta \in Int64 /\ m.delta \in Int64
    BY <1>0, <2>1 DEF Panics, Metric
  <2>3. Add64(old.delta, m.delta) # Nil
    BY <2>2, Add64Type, MetricAssumption
  <2>4. old.delta # Nil
    BY <2>2, MetricAssumption
  <2>. QED
    BY <1>0, <1>2, <2>3, <2>4 DEF Merge, Metric
<1>. QED
  BY <1>1, <1>2

\* Whatever gets as far as the map has passed the service's validation.
LEMMA WrittenValid == \A m \in Written : m \in Metric /\ Valid(m)
<1>. SUFFICES ASSUME NEW c \in Calls, Accepted(c), NEW k \in DOMAIN c.batch
              PROVE  c.batch[k] \in Metric /\ Valid(c.batch[k])
  BY DEF Written
<1>1. c.batch \in Seq(Metric)
  BY CallsAssumption
<1>2. c.batch[k] \in Metric
  BY <1>1
<1>3. Valid(c.batch[k])
  BY DEF Accepted, Passes
<1>. QED
  BY <1>2, <1>3

\* Every metric of an accepted call is among the written ones.
LEMMA AcceptedWritten ==
  ASSUME NEW c \in Calls, Accepted(c), NEW k \in DOMAIN c.batch
  PROVE  c.batch[k] \in Written
  BY DEF Written
----------------------------------------------------------------------------
(***************************************************************************)
(* The inductive invariant. TypeOK alone is not inductive: Apply keeps the *)
(* map's type only because the metrics a writer still has to apply passed  *)
(* the validation, which was done before the call waited for the lock.     *)
(***************************************************************************)

\* What is known of the call a request is serving, by the stage it has reached.
Serving ==
  \A r \in Reqs :
    /\ pc[r] # "idle" => call[r] \in Calls
    /\ pc[r] \in {"lock", "get"} => Passes(call[r])
    /\ pc[r] = "lock" => call[r].handler \notin GetHandlers
    /\ pc[r] = "get"  => call[r].handler \in SetHandlers \cup GetHandlers
    /\ pc[r] = "apply" => Accepted(call[r])

\* What a writer has left to do was accepted.
Pending == \A r \in Reqs : \A k \in DOMAIN todo[r] : todo[r][k] \in Written

Inv == TypeOK /\ LockHeld /\ Serving /\ Pending

LEMMA CallShape ==
  ASSUME NEW c \in Calls
  PROVE  /\ c.handler \in Handlers
         /\ c.batch \in Seq(Metric)
         /\ c.handler \in SetHandlers \cup GetHandlers =>
              Len(c.batch) = 1 /\ Head(c.batch) = c.batch[1] /\ c.batch[1] \in Metric
  BY CallsAssumption

LEMMA InitInv == Init => Inv
  BY MetricAssumption, CallsAssumption
     DEF Init, Inv, TypeOK, LockHeld, Serving, Pending, Nothing, Stages, NamedAndTyped

LEMMA ApplyInv == ASSUME Inv, NEW r \in Reqs, Apply(r) PROVE Inv'
<1>. DEFINE m == Head(todo[r])
<1>1. todo[r] \in Seq(Metric) /\ todo[r] # <<>> /\ m = todo[r][1] /\ 1 \in DOMAIN todo[r]
  BY DEF Inv, TypeOK, Apply
<1>2. m \in Metric /\ Valid(m) /\ m.id \in IDs
  BY <1>1, WrittenValid DEF Inv, Pending, Valid
<1>3. Merge(storage[m.id], m) \in Metric
  <2>1. storage[m.id] \in Metric \cup {Absent} /\ ~Panics(storage[m.id], m)
    BY <1>2 DEF Inv, TypeOK, Apply
  <2>. QED
    BY <1>2, <2>1, MergeType
<1>4. TypeOK'
  <2>1. storage' \in [IDs -> Metric \cup {Absent}]
    BY <1>2, <1>3 DEF Inv, TypeOK, Apply, Put
  <2>2. todo' \in [Reqs -> Seq(Metric)]
    BY <1>1 DEF Inv, TypeOK, Apply
  <2>3. NamedAndTyped(storage)'
    <3>1. storage[m.id] \in Metric \cup {Absent} /\ NamedAndTyped(storage)
      BY <1>2 DEF Inv, TypeOK
    <3>2. Merge(storage[m.id], m).id = m.id /\ Merge(storage[m.id], m).mtype \in AllowedMetricType
      BY <1>2, <3>1, MergeNames DEF NamedAndTyped
    <3>3. storage' = [storage EXCEPT ![m.id] = Merge(storage[m.id], m)]
      BY <1>2 DEF Apply, Put, Inv, TypeOK
    <3>. QED
      BY <1>2, <3>1, <3>2, <3>3 DEF NamedAndTyped, Inv, TypeOK
  <2>. QED
    BY <2>1, <2>2, <2>3 DEF Inv, TypeOK, Apply
<1>5. LockHeld' /\ Serving'
  BY DEF Inv, LockHeld, Serving, Apply
<1>6. Pending'
  <2>1. \A k \in DOMAIN Tail(todo[r]) : k + 1 \in DOMAIN todo[r] /\ Tail(todo[r])[k] = todo[r][k + 1]
    BY <1>1
  <2>. QED
    BY <2>1 DEF Inv, TypeOK, Pending, Apply
<1>. QED
  BY <1>4, <1>5, <1>6 DEF Inv

\* The checks on the way to the lock are those that make a call an accepted one.
LEMMA LockWriteAccepted ==
  ASSUME Inv, NEW r \in Reqs, LockWrite(r) PROVE call[r] \in Calls /\ Accepted(call[r])
<1>1. call[r] \in Calls /\ Passes(call[r])
  BY DEF Inv, Serving, LockWrite, At
<1>2. Malformed(call[r].batch[1]) /\ call[r].handler \in SetHandlers => Malformed(Asked(r))
  BY <1>1, CallShape DEF Asked
<1>. QED
  BY <1>1, <1>2 DEF LockWrite, Accepted

LEMMA LockWriteInv == ASSUME Inv, NEW r \in Reqs, LockWrite(r) PROVE Inv'
<1>1. call[r] \in Calls /\ Accepted(call[r])
  BY LockWriteAccepted
<1>2. TypeOK'
  BY <1>1, CallShape DEF Inv, TypeOK, LockWrite, Goto, Stages
<1>3. LockHeld'
  BY MetricAssumption, CallsAssumption DEF Inv, TypeOK, LockHeld, LockWrite, Goto, At, Unlocked
<1>4. Serving'
  BY <1>1 DEF Inv, TypeOK, Serving, LockWrite, Goto
<1>5. Pending'
  BY <1>1, AcceptedWritten DEF Inv, TypeOK, Pending, LockWrite
<1>. QED
  BY <1>2, <1>3, <1>4, <1>5 DEF Inv

LEMMA UnlockWriteInv == ASSUME Inv, NEW r \in Reqs, UnlockWrite(r) PROVE Inv'
<1>1. TypeOK'
  BY DEF Inv, TypeOK, UnlockWrite, Goto, Stages
<1>2. LockHeld'
  BY CallsAssumption DEF Inv, TypeOK, LockHeld, UnlockWrite, Goto, At
<1>3. Serving'
  BY DEF Inv, TypeOK, Serving, UnlockWrite, Goto, At, Accepted, SetHandlers
<1>4. Pending'
  BY DEF Inv, Pending, UnlockWrite
<1>. QED
  BY <1>1, <1>2, <1>3, <1>4 DEF Inv

LEMMA PanicInv == ASSUME Inv, NEW r \in Reqs, Panic(r) PROVE Inv'
<1>1. TypeOK'
  BY DEF Inv, TypeOK, Panic, Goto, Stages
<1>2. LockHeld'
  BY CallsAssumption DEF Inv, TypeOK, LockHeld, Panic, Goto, At
<1>3. Serving'
  BY DEF Inv, TypeOK, Serving, Panic, Goto, At
<1>4. Pending'
  BY DEF Inv, TypeOK, Pending, Panic
<1>. QED
  BY <1>1, <1>2, <1>3, <1>4 DEF Inv

LEMMA ReceiveInv ==
  ASSUME Inv, NEW r \in Reqs, NEW c \in Calls, Receive(r, c) PROVE Inv'
<1>1. TypeOK'
  BY DEF Inv, TypeOK, Receive, Goto, FirstStage, Stages
<1>2. LockHeld'
  BY DEF Inv, TypeOK, LockHeld, Receive, Goto, FirstStage, At
<1>3. Serving'
  BY DEF Inv, TypeOK, Serving, Receive, Goto, FirstStage
<1>4. Pending'
  BY DEF Inv, Pending, Receive
<1>. QED
  BY <1>1, <1>2, <1>3, <1>4 DEF Inv

LEMMA LockListInv == ASSUME Inv, NEW r \in Reqs, LockList(r) PROVE Inv'
<1>1. TypeOK'
  BY DEF Inv, TypeOK, LockList, Goto, Stages
<1>2. LockHeld'
  BY CallsAssumption DEF Inv, TypeOK, LockHeld, LockList, Goto, At, Unlocked
<1>3. Serving'
  BY DEF Inv, TypeOK, Serving, LockList, Goto, At
<1>4. Pending'
  BY DEF Inv, Pending, LockList
<1>. QED
  BY <1>1, <1>2, <1>3, <1>4 DEF Inv

\* The steps that move a request on without touching the map.
LEMMA QuietInv ==
  ASSUME Inv, NEW r \in Reqs,
         \/ RefuseMalformed(r) \/ CopyOne(r) \/ UnlockList(r) \/ GetFound(r)
         \/ GetMissing(r) \/ Render(r) \/ Finish(r)
  PROVE  Inv'
<1>1. CASE RefuseMalformed(r)
  BY <1>1 DEF Inv, TypeOK, LockHeld, Serving, Pending, RefuseMalformed, Goto, At, Stages
<1>2. CASE CopyOne(r)
  <2>1. TypeOK'
    BY <1>2 DEF Inv, TypeOK, CopyOne
  <2>. QED
    BY <1>2, <2>1 DEF Inv, LockHeld, Serving, Pending, CopyOne
<1>3. CASE UnlockList(r)
  BY <1>3, CallsAssumption
     DEF Inv, TypeOK, LockHeld, Serving, Pending, UnlockList, Goto, At, Stages
<1>4. CASE GetFound(r)
  <2>1. TypeOK'
    BY <1>4 DEF Inv, TypeOK, GetFound, Goto, Found, Stages
  <2>. QED
    BY <1>4, <2>1 DEF Inv, TypeOK, LockHeld, Serving, Pending, GetFound, Goto, At
<1>5. CASE GetMissing(r)
  BY <1>5 DEF Inv, TypeOK, LockHeld, Serving, Pending, GetMissing, Goto, At, Stages
<1>6. CASE Render(r)
  BY <1>6 DEF Inv, TypeOK, LockHeld, Serving, Pending, Render, Goto, At, Stages
<1>7. CASE Finish(r)
  <2>1. TypeOK'
    BY <1>7 DEF Inv, TypeOK, Finish, Goto, Nothing, Stages
  <2>. QED
    BY <1>7, <2>1 DEF Inv, TypeOK, LockHeld, Serving, Pending, Finish, Goto, Done
<1>. QED
  BY <1>1, <1>2, <1>3, <1>4, <1>5, <1>6, <1>7

LEMMA NextInv == Inv /\ [Next]_vars => Inv'
<1>. SUFFICES ASSUME Inv, [Next]_vars PROVE Inv'
  OBVIOUS
<1>1. CASE UNCHANGED vars
  BY <1>1 DEF Inv, TypeOK, LockHeld, Serving, Pending, vars
<1>2. CASE Next
  <2>1. PICK r \in Reqs :
          (\E c \in Calls : Receive(r, c)) \/ Acquire(r) \/ Proceed(r)
    BY <1>2 DEF Next
  <2>2. CASE \E c \in Calls : Receive(r, c)
    BY <2>2, ReceiveInv
  <2>3. CASE Acquire(r)
    BY <2>3, LockWriteInv, LockListInv, QuietInv DEF Acquire
  <2>4. CASE Proceed(r)
    BY <2>4, ApplyInv, UnlockWriteInv, PanicInv, QuietInv DEF Proceed
  <2>. QED
    BY <2>1, <2>2, <2>3, <2>4
<1>. QED
  BY <1>1, <1>2

THEOREM Invariance == Spec => []Inv
<1>. QED
  BY InitInv, NextInv, PTL DEF Spec

\* Type correctness: in particular a counter stays an int64 and never becomes nil.
THEOREM TypeCorrect == Spec => []TypeOK
<1>1. Inv => TypeOK
  BY DEF Inv
<1>. QED
  BY <1>1, Invariance, PTL

\* The lock has exactly one owner, and every path out of the storage releases it.
THEOREM LockDiscipline == Spec => []LockHeld
<1>1. Inv => LockHeld
  BY DEF Inv
<1>. QED
  BY <1>1, Invariance, PTL
----------------------------------------------------------------------------
(* What a step may never do *)

\* Only a turn of a writer's loop changes the map.
LEMMA OnlyApplyWrites ==
  ASSUME [Next]_vars, storage' # storage
  PROVE  \E r \in Reqs : Apply(r)
<1>1. Next
  BY DEF vars
<1>2. PICK r \in Reqs : (\E c \in Calls : Receive(r, c)) \/ Acquire(r) \/ Proceed(r)
  BY <1>1 DEF Next
<1>. QED
  BY <1>2 DEF Receive, Acquire, RefuseMalformed, LockWrite, LockList, GetFound, GetMissing,
              Proceed, UnlockWrite, Panic, CopyOne, UnlockList, Render, Finish

\* An applied metric has passed validation, and the step merges it.
LEMMA ApplyMerges ==
  ASSUME Inv, NEW r \in Reqs, Apply(r)
  PROVE  \E m \in Written :
           /\ m = Head(todo[r])
           /\ m \in Metric /\ Valid(m)
           /\ ~Panics(storage[m.id], m)
           /\ storage' = [storage EXCEPT ![m.id] = Merge(storage[m.id], m)]
<1>1. Head(todo[r]) = todo[r][1] /\ 1 \in DOMAIN todo[r]
  BY DEF Inv, TypeOK, Apply
<1>2. Head(todo[r]) \in Written
  BY <1>1 DEF Inv, Pending
<1>. QED
  BY <1>2, WrittenValid DEF Apply, Put

\* Entries never go away, never change type, and keep their delta cell.
THEOREM CellsAreFixed == Spec => CellFixed
<1>1. ASSUME Inv, [Next]_vars, NEW i \in IDs PROVE CellKept(i)
  <2>1. CASE storage' = storage
    BY <2>1 DEF CellKept
  <2>2. CASE storage' # storage
    <3>1. PICK r \in Reqs : Apply(r)
      BY <1>1, <2>2, OnlyApplyWrites
    <3>2. PICK m \in Written :
            /\ m \in Metric /\ Valid(m)
            /\ ~Panics(storage[m.id], m)
            /\ storage' = [storage EXCEPT ![m.id] = Merge(storage[m.id], m)]
      BY <1>1, <3>1, ApplyMerges
    <3>3. CASE m.id # i
      BY <1>1, <3>2, <3>3 DEF CellKept, Inv, TypeOK
    <3>4. CASE m.id = i /\ storage[i] # Absent
      <4>1. storage[i] \in Metric /\ storage'[i] = Merge(storage[i], m)
        BY <1>1, <3>2, <3>4 DEF Inv, TypeOK
      <4>2. storage'[i] \in Metric
        BY <3>2, <3>4, <4>1, MergeType
      <4>3. storage'[i] # Absent
        BY <4>2, MetricAssumption
      <4>. QED
        BY <3>2, <3>4, <4>1, <4>3, MergeKeeps DEF CellKept
    <3>. QED
      BY <3>3, <3>4 DEF CellKept
  <2>. QED
    BY <2>1, <2>2
<1>2. Inv /\ [Next]_vars => [\A i \in IDs : CellKept(i)]_vars
  BY <1>1
<1>. QED
  BY <1>2, Invariance, PTL DEF Spec, CellFixed

\* Nobody writes the map under a listing or between two turns of a batch.
THEOREM BatchesAreIsolated == Spec => Isolated
<1>1. ASSUME Inv, [Next]_vars, NEW r \in Reqs PROVE OnlyOwner(r)
  <2>. SUFFICES ASSUME pc[r] \in {"apply", "copy"}, storage' # storage
                PROVE  pc[r] = "apply" /\ todo'[r] = Tail(todo[r])
    BY DEF OnlyOwner
  <2>1. PICK q \in Reqs : Apply(q)
    BY <1>1, OnlyApplyWrites
  <2>2. mu = q /\ mu = r
    BY <1>1, <2>1 DEF Inv, LockHeld, Apply, At
  <2>. QED
    BY <1>1, <2>1, <2>2 DEF Apply, At, Inv, TypeOK
<1>2. Inv /\ [Next]_vars => [\A r \in Reqs : OnlyOwner(r)]_vars
  BY <1>1
<1>. QED
  BY <1>2, Invariance, PTL DEF Spec, Isolated
----------------------------------------------------------------------------
(***************************************************************************)
(* Disciplined clients. Storage.Update has no nil checks; that no handler  *)
(* panics rests on every entry of the map, and every copy of one, carrying *)
(* its value, and on every name keeping the one type it is sent with.      *)
(***************************************************************************)

StoredWell ==
  \A i \in IDs : storage[i] # Absent =>
    /\ ~Malformed(storage[i])
    /\ \E n \in Written : n.id = i /\ n.mtype = storage[i].mtype

CopiedWell ==
  \A r \in Reqs : \A i \in IDs : view[r][i] # Absent => ~Malformed(view[r][i])

\* A single metric is either still to be stored, or stored and there to be found.
TracedOf(r) ==
  call[r].handler \in SetHandlers =>
    /\ pc[r] = "apply" => (todo[r] = call[r].batch \/ (todo[r] = <<>> /\ Found(Asked(r))))
    /\ pc[r] = "get" => Found(Asked(r))
Traced == \A r \in Reqs : TracedOf(r)

WellInv == Inv /\ StoredWell /\ CopiedWell /\ Traced /\ NoAbort

LEMMA InitWell == Init => WellInv
  BY InitInv DEF Init, WellInv, StoredWell, CopiedWell, Traced, TracedOf, NoAbort, Nothing,
                 NoCall, SetHandlers

\* Two well-formed metrics of one type merge into a third.
LEMMA MergeWell ==
  ASSUME NEW old \in Metric, NEW m \in Metric, Valid(m),
         ~Malformed(old), ~Malformed(m), old.mtype = m.mtype
  PROVE  ~Panics(old, m) /\ ~Malformed(Merge(old, m))
<1>1. ~Panics(old, m)
  BY DEF Panics, Malformed
<1>2. Merge(old, m) \in Metric /\ Merge(old, m).mtype = old.mtype
      /\ (Merge(old, m).delta = Nil) = (old.delta = Nil)
  BY <1>1, MergeType, MergeKeeps
<1>3. CASE m.mtype = "gauge"
  <2>1. Merge(old, m).value = m.value
    BY <1>3, MetricAssumption DEF Merge, Metric
  <2>. QED
    BY <1>1, <1>2, <1>3, <2>1 DEF Malformed
<1>4. CASE m.mtype # "gauge"
  BY <1>1, <1>2, <1>4 DEF Malformed
<1>. QED
  BY <1>3, <1>4

\* Under the discipline the head of a batch never meets an entry it cannot merge with.
LEMMA NoPanic ==
  ASSUME Disciplined, WellInv, NEW r \in Reqs, todo[r] # <<>>
  PROVE  LET m == Head(todo[r])
         IN  /\ m \in Written /\ m \in Metric /\ Valid(m) /\ ~Malformed(m)
             /\ ~Panics(storage[m.id], m)
             /\ ~Malformed(Merge(storage[m.id], m))
             /\ Merge(storage[m.id], m).mtype = m.mtype
<1>. DEFINE m == Head(todo[r])
<1>1. m \in Written
  <2>1. todo[r] \in Seq(Metric) /\ m = todo[r][1] /\ 1 \in DOMAIN todo[r]
    BY DEF WellInv, Inv, TypeOK
  <2>. QED
    BY <2>1 DEF WellInv, Inv, Pending
<1>2. m \in Metric /\ Valid(m) /\ ~Malformed(m) /\ m.id \in IDs
  BY <1>1, WrittenValid DEF Disciplined, Valid
<1>3. CASE storage[m.id] = Absent
  BY <1>1, <1>2, <1>3 DEF Panics, Merge
<1>4. CASE storage[m.id] # Absent
  <2>1. storage[m.id] \in Metric /\ ~Malformed(storage[m.id])
    BY <1>2, <1>4 DEF WellInv, Inv, TypeOK, StoredWell
  <2>2. storage[m.id].mtype = m.mtype
    BY <1>1, <1>2, <1>4 DEF WellInv, StoredWell, Disciplined
  <2>3. ~Panics(storage[m.id], m) /\ ~Malformed(Merge(storage[m.id], m))
    BY <1>2, <2>1, <2>2, MergeWell
  <2>4. Merge(storage[m.id], m).mtype = m.mtype
    BY <1>2, <2>1, <2>2, <2>3, MergeKeeps
  <2>. QED
    BY <1>1, <1>2, <2>3, <2>4
<1>. QED
  BY <1>3, <1>4

LEMMA ApplyWell ==
  ASSUME Disciplined, WellInv, NEW r \in Reqs, Apply(r), Inv'
  PROVE  WellInv'
<1>. DEFINE m == Head(todo[r])
<1>1. /\ m \in Written /\ m \in Metric /\ Valid(m) /\ m.id \in IDs
      /\ ~Malformed(Merge(storage[m.id], m))
      /\ Merge(storage[m.id], m).mtype = m.mtype
      /\ Merge(storage[m.id], m) \in Metric
  <2>1. storage[Head(todo[r]).id] \in Metric \cup {Absent}
    BY NoPanic DEF Apply, WellInv, Inv, TypeOK, Valid
  <2>. QED
    BY <2>1, NoPanic, MergeType DEF Apply, Valid
<1>2. storage \in [IDs -> Metric \cup {Absent}]
      /\ storage' = [storage EXCEPT ![m.id] = Merge(storage[m.id], m)]
  BY DEF Apply, Put, WellInv, Inv, TypeOK
<1>3. StoredWell'
  BY <1>1, <1>2 DEF WellInv, StoredWell
<1>4. CopiedWell' /\ NoAbort'
  BY DEF WellInv, CopiedWell, NoAbort, Apply
<1>5. \A i \in IDs : storage[i] # Absent =>
        storage'[i] # Absent /\ storage'[i].mtype = storage[i].mtype
  BY <1>1, <1>2, MetricAssumption DEF WellInv, StoredWell, Disciplined
<1>6. ASSUME NEW q \in Reqs, Found(Asked(q)) PROVE Found(Asked(q))'
  BY <1>5, <1>6 DEF Found, Asked, Apply
<1>7. ASSUME NEW q \in Reqs PROVE TracedOf(q)'
  <2>1. call' = call /\ pc' = pc
    BY DEF Apply
  <2>2. CASE q # r
    <3>1. todo'[q] = todo[q]
      BY <2>2 DEF Apply, WellInv, Inv, TypeOK
    <3>2. TracedOf(q)
      BY DEF WellInv, Traced
    <3>. QED
      BY <1>6, <2>1, <3>1, <3>2 DEF TracedOf
  <2>3. CASE q = r /\ call[r].handler \in SetHandlers
    <3>1. todo[r] = call[r].batch /\ pc[r] = "apply" /\ call[r] \in Calls
      BY <2>3 DEF WellInv, Traced, TracedOf, Apply, At, Inv, Serving
    <3>2. Len(call[r].batch) = 1 /\ call[r].batch \in Seq(Metric)
      BY <2>3, <3>1, CallShape
    <3>3. Tail(call[r].batch) = <<>>
      <4>1. call[r].batch # <<>>
        BY <3>1 DEF Apply
      <4>2. Tail(call[r].batch) \in Seq(Metric) /\ Len(Tail(call[r].batch)) = 0
        BY <3>2, <4>1
      <4>. QED
        BY <4>2, EmptySeq
    <3>4. todo'[r] = <<>>
      BY <3>1, <3>3 DEF Apply, WellInv, Inv, TypeOK
    <3>5. storage'[m.id] = Merge(storage[m.id], m) /\ m = Asked(r)
      BY <1>1, <1>2, <3>1 DEF Asked
    <3>6. Found(Asked(r))'
      BY <1>1, <3>5, MetricAssumption DEF Found, Asked, Apply
    <3>. QED
      BY <2>1, <2>3, <3>1, <3>4, <3>6 DEF TracedOf
  <2>. QED
    BY <2>1, <2>2, <2>3 DEF TracedOf
<1>. QED
  BY <1>3, <1>4, <1>7 DEF WellInv, Traced

\* A request that takes the lock to write starts on its whole batch.
LEMMA LockWriteWell ==
  ASSUME Disciplined, WellInv, NEW r \in Reqs, LockWrite(r), Inv'
  PROVE  WellInv'
<1>1. StoredWell' /\ CopiedWell'
  BY DEF WellInv, StoredWell, CopiedWell, LockWrite
<1>2. NoAbort'
  BY DEF WellInv, Inv, TypeOK, NoAbort, LockWrite, Goto
<1>3. ASSUME NEW q \in Reqs PROVE TracedOf(q)'
  <2>1. TracedOf(q)
    BY DEF WellInv, Traced
  <2>2. CASE q = r
    <3>1. pc'[r] = "apply" /\ todo'[r] = call[r].batch /\ call' = call
      BY DEF LockWrite, Goto, WellInv, Inv, TypeOK
    <3>. QED
      BY <2>2, <3>1 DEF TracedOf, Found, Asked
  <2>3. CASE q # r
    <3>1. pc'[q] = pc[q] /\ todo'[q] = todo[q] /\ call' = call /\ storage' = storage
      BY <2>3 DEF LockWrite, Goto, WellInv, Inv, TypeOK
    <3>. QED
      BY <2>1, <3>1 DEF TracedOf, Found, Asked
  <2>. QED
    BY <2>2, <2>3
<1>. QED
  BY <1>1, <1>2, <1>3 DEF WellInv, Traced

\* updateHandlerJSON reads back a metric that its own loop has put in the map.
LEMMA UnlockWriteWell ==
  ASSUME Disciplined, WellInv, NEW r \in Reqs, UnlockWrite(r), Inv'
  PROVE  WellInv'
<1>1. StoredWell' /\ CopiedWell'
  BY DEF WellInv, StoredWell, CopiedWell, UnlockWrite
<1>2. NoAbort'
  BY DEF WellInv, Inv, TypeOK, NoAbort, UnlockWrite, Goto
<1>3. ASSUME NEW q \in Reqs PROVE TracedOf(q)'
  <2>1. CASE q = r /\ call[r].handler \in SetHandlers
    <3>1. call[r] \in Calls /\ todo[r] = <<>> /\ pc[r] = "apply"
      BY DEF WellInv, Inv, Serving, UnlockWrite, At
    <3>2. call[r].batch # <<>>
      BY <2>1, <3>1, CallShape, EmptySeq
    <3>3. Found(Asked(r))
      BY <2>1, <3>1, <3>2 DEF WellInv, Traced, TracedOf
    <3>. QED
      BY <2>1, <3>3 DEF TracedOf, UnlockWrite, Goto, Found, Asked, WellInv, Inv, TypeOK
  <2>2. CASE q = r /\ call[r].handler \notin SetHandlers
    BY <2>2 DEF TracedOf, UnlockWrite
  <2>3. CASE q # r
    BY <2>3 DEF WellInv, Inv, TypeOK, Traced, TracedOf, UnlockWrite, Goto, Found, Asked
  <2>. QED
    BY <2>1, <2>2, <2>3
<1>. QED
  BY <1>1, <1>2, <1>3 DEF WellInv, Traced

\* No panic is taken.
LEMMA PanicWell ==
  ASSUME Disciplined, WellInv, NEW r \in Reqs PROVE ~Panic(r)
  BY NoPanic DEF Panic

\* A copy of a well-formed entry is well-formed.
LEMMA CopyWell ==
  ASSUME WellInv, NEW r \in Reqs, CopyOne(r) \/ GetFound(r), Inv'
  PROVE  WellInv'
<1>1. StoredWell'
  BY DEF WellInv, StoredWell, CopyOne, GetFound
<1>2. CopiedWell'
  <2>1. PICK i \in IDs : view' = [view EXCEPT ![r][i] = storage[i]]
    BY DEF WellInv, Inv, TypeOK, CopyOne, GetFound, Found
  <2>2. \A q \in Reqs : \A j \in IDs :
          view'[q][j] = IF q = r /\ j = i THEN storage[i] ELSE view[q][j]
    BY <2>1 DEF WellInv, Inv, TypeOK
  <2>. QED
    BY <2>2 DEF WellInv, StoredWell, CopiedWell
<1>3. Traced' /\ NoAbort'
  BY DEF WellInv, Inv, TypeOK, Traced, TracedOf, NoAbort, CopyOne, GetFound, Goto, Found, Asked
<1>. QED
  BY <1>1, <1>2, <1>3 DEF WellInv

\* The other steps.
LEMMA QuietWell ==
  ASSUME WellInv, NEW r \in Reqs, Inv',
         \/ \E c \in Calls : Receive(r, c)
         \/ RefuseMalformed(r) \/ LockList(r) \/ UnlockList(r)
         \/ GetMissing(r) \/ Render(r) \/ Finish(r)
  PROVE  WellInv'
<1>1. StoredWell'
  BY DEF WellInv, StoredWell, Receive, RefuseMalformed, LockList, UnlockList, GetMissing, Render, Finish
<1>2. CASE \E c \in Calls : Receive(r, c)
  <2>1. PICK c \in Calls : Receive(r, c)
    BY <1>2
  <2>2. pc'[r] \in {"refused", "get", "lock"} /\ (pc'[r] = "get" => c.handler \notin SetHandlers)
    BY <2>1 DEF Receive, Goto, FirstStage, WellInv, Inv, TypeOK, SetHandlers, GetHandlers
  <2>3. call'[r] = c /\ \A q \in Reqs \ {r} : call'[q] = call[q] /\ pc'[q] = pc[q]
    BY <2>1 DEF Receive, Goto, WellInv, Inv, TypeOK
  <2>4. TracedOf(r)'
    BY <2>2, <2>3 DEF TracedOf
  <2>5. ASSUME NEW q \in Reqs \ {r} PROVE TracedOf(q)'
    <3>1. TracedOf(q)
      BY DEF WellInv, Traced
    <3>2. storage' = storage /\ todo' = todo /\ call'[q] = call[q] /\ pc'[q] = pc[q]
      BY <2>1, <2>3 DEF Receive
    <3>. QED
      BY <3>1, <3>2 DEF TracedOf, Found, Asked
  <2>6. CopiedWell' /\ NoAbort'
    BY <2>1, <2>2, <2>3 DEF WellInv, CopiedWell, NoAbort, Receive
  <2>. QED
    BY <1>1, <2>4, <2>5, <2>6 DEF WellInv, Traced
<1>3. CASE RefuseMalformed(r)
  BY <1>1, <1>3 DEF WellInv, Inv, TypeOK, CopiedWell, Traced, TracedOf, NoAbort,
                    RefuseMalformed, Goto, Found, Asked
<1>4. CASE LockList(r)
  BY <1>1, <1>4 DEF WellInv, Inv, TypeOK, CopiedWell, Traced, TracedOf, NoAbort,
                    LockList, Goto, Found, Asked
<1>5. CASE UnlockList(r)
  BY <1>1, <1>5 DEF WellInv, Inv, TypeOK, CopiedWell, Traced, TracedOf, NoAbort,
                    UnlockList, Goto, Found, Asked
<1>6. CASE GetMissing(r)
  BY <1>1, <1>6 DEF WellInv, Inv, TypeOK, CopiedWell, Traced, TracedOf, NoAbort,
                    GetMissing, Goto, Found, Asked
<1>7. CASE Render(r)
  <2>1. ~Unprintable(r)
    BY DEF Unprintable, WellInv, CopiedWell
  <2>. QED
    BY <1>1, <1>7, <2>1 DEF WellInv, Inv, TypeOK, CopiedWell, Traced, TracedOf, NoAbort,
                            Render, Goto, Found, Asked
<1>8. CASE Finish(r)
  <2>1. CopiedWell'
    BY <1>8 DEF WellInv, Inv, TypeOK, CopiedWell, Finish, Nothing
  <2>2. Traced'
    BY <1>8 DEF WellInv, Inv, TypeOK, Traced, TracedOf, Finish, Goto, Found, Asked
  <2>. QED
    BY <1>1, <1>8, <2>1, <2>2 DEF WellInv, Inv, TypeOK, NoAbort, Finish, Goto
<1>. QED
  BY <1>2, <1>3, <1>4, <1>5, <1>6, <1>7, <1>8

LEMMA NextWell == ASSUME Disciplined PROVE WellInv /\ [Next]_vars => WellInv'
<1>. SUFFICES ASSUME WellInv, [Next]_vars PROVE WellInv'
  OBVIOUS
<1>1. Inv'
  BY NextInv DEF WellInv
<1>2. CASE UNCHANGED vars
  BY <1>1, <1>2
     DEF WellInv, StoredWell, CopiedWell, Traced, TracedOf, NoAbort, Found, Asked, vars
<1>3. CASE Next
  <2>1. PICK r \in Reqs :
          (\E c \in Calls : Receive(r, c)) \/ Acquire(r) \/ Proceed(r)
    BY <1>3 DEF Next
  <2>2. CASE \E c \in Calls : Receive(r, c)
    BY <1>1, <2>2, QuietWell
  <2>3. CASE Acquire(r)
    BY <1>1, <2>3, LockWriteWell, CopyWell, QuietWell DEF Acquire
  <2>4. CASE Proceed(r)
    BY <1>1, <2>4, ApplyWell, UnlockWriteWell, PanicWell, CopyWell, QuietWell DEF Proceed
  <2>. QED
    BY <2>1, <2>2, <2>3, <2>4
<1>. QED
  BY <1>2, <1>3

\* With clients that send every metric with its value and every name with one type,
\* no handler panics and the process stays up.
THEOREM DisciplinedNoAbort == ASSUME Disciplined PROVE Spec => []NoAbort
<1>1. WellInv => NoAbort
  BY DEF WellInv
<1>. QED
  BY <1>1, InitWell, NextWell, PTL DEF Spec

\* With such clients every entry of the map carries the value its type calls for: it takes
\* a metric without one to bring about what the run mem_no_value shows.
THEOREM DisciplinedStoresWhole == ASSUME Disciplined PROVE Spec => []StoredCarriesValue
<1>1. WellInv => StoredCarriesValue
  BY DEF WellInv, StoredWell, StoredCarriesValue
<1>. QED
  BY <1>1, InitWell, NextWell, PTL DEF Spec

\* With such clients updateHandlerJSON never answers null.
THEOREM DisciplinedReadsBack == ASSUME Disciplined PROVE Spec => []ReadsBack
<1>1. WellInv => ReadsBack
  BY DEF WellInv, Traced, TracedOf, ReadsBack, At, SetHandlers
<1>. QED
  BY <1>1, InitWell, NextWell, PTL DEF Spec
----------------------------------------------------------------------------
(***************************************************************************)
(* The storage implements the registry: what is left of the batch that is  *)
(* being applied is seen as applied, so that the writer's turns are steps  *)
(* nobody can tell apart and the whole batch takes effect at the Lock.     *)
(***************************************************************************)
TurnOf(s, m) == R!Turn(s, m)

L == INSTANCE Loops WITH Step <- TurnOf

\* The registry's own words for what is left by a batch, and the loop's.
LEMMA OutcomeIsLoop ==
  \A t, b : /\ R!Outcome(t, b) = L!Loop([table |-> t, cut |-> FALSE], b).table
            /\ Promised!Outcome(t, b) = R!Outcome(t, b)
  BY DEF R!Outcome, R!FoldLeft, R!MapThenFoldSet, R!Max, R!Turn, R!Panics, R!Merge, R!Add64,
         Promised!Outcome, Promised!FoldLeft, Promised!MapThenFoldSet, Promised!Max,
         Promised!Turn, Promised!Panics, Promised!Merge, Promised!Add64,
         L!Loop, L!FoldLeft, L!MapThenFoldSet, L!Max, TurnOf

\* The batch's first metric is merged: what is promised does not change.
LEMMA OutcomeMerges ==
  ASSUME NEW t, NEW b \in Seq(Metric), b # <<>>, ~Panics(t[Head(b).id], Head(b))
  PROVE  R!Outcome(t, b) =
           R!Outcome([t EXCEPT ![Head(b).id] = Merge(@, Head(b))], Tail(b))
<1>. DEFINE s == [table |-> t, cut |-> FALSE]
            u == [t EXCEPT ![Head(b).id] = Merge(@, Head(b))]
<1>1. L!Loop(s, b) = L!Loop(TurnOf(s, Head(b)), Tail(b))
  BY L!LoopHead
<1>2. TurnOf(s, Head(b)) = [table |-> u, cut |-> FALSE]
  BY DEF TurnOf, R!Turn, R!Panics, Panics, R!Merge, Merge, R!Add64, Add64
<1>. QED
  BY <1>1, <1>2, OutcomeIsLoop

\* The batch's first metric panics: nothing is promised of the rest.
LEMMA OutcomePanics ==
  ASSUME NEW t, NEW b \in Seq(Metric), b # <<>>, Panics(t[Head(b).id], Head(b))
  PROVE  R!Outcome(t, b) = t
<1>. DEFINE s == [table |-> t, cut |-> FALSE]
            u == [table |-> t, cut |-> TRUE]
<1>1. L!Loop(s, b) = L!Loop(TurnOf(s, Head(b)), Tail(b))
  BY L!LoopHead
<1>2. TurnOf(s, Head(b)) = u
  BY DEF TurnOf, R!Turn, R!Panics, Panics
<1>3. \A m : TurnOf(u, m) = u
  BY DEF TurnOf, R!Turn
<1>4. Tail(b) \in Seq(Metric)
  OBVIOUS
<1>5. L!Loop(u, Tail(b)) \in {u}
  <2>1. u \in {u} /\ \A x \in {u} : \A k \in DOMAIN Tail(b) : TurnOf(x, Tail(b)[k]) \in {u}
    BY <1>3
  <2>. HIDE DEF u
  <2>. QED
    BY <1>4, <2>1, L!LoopKeeps
<1>. QED
  BY <1>1, <1>2, <1>5, OutcomeIsLoop

\* Who is not applying a batch has nothing left of one.
Spent == \A r \in Reqs : pc[r] # "apply" => todo[r] = <<>>

LEMMA InitSpent == Init => Spent
  BY DEF Init, Spent

LEMMA NextSpent == Inv /\ Spent /\ [Next]_vars => Spent'
<1>. SUFFICES ASSUME Inv, Spent, [Next]_vars PROVE Spent'
  OBVIOUS
<1>1. CASE UNCHANGED vars
  BY <1>1 DEF Spent, vars
<1>2. CASE Next
  <2>1. PICK r \in Reqs :
          (\E c \in Calls : Receive(r, c)) \/ Acquire(r) \/ Proceed(r)
    BY <1>2 DEF Next
  <2>2. ASSUME NEW q \in Reqs, q # r PROVE pc'[q] = pc[q] /\ todo'[q] = todo[q]
    BY <2>1, <2>2
       DEF Inv, TypeOK, Goto, Receive, Acquire, RefuseMalformed, LockWrite, LockList, GetFound,
           GetMissing, Proceed, Apply, UnlockWrite, Panic, CopyOne, UnlockList, Render, Finish
  <2>3. pc'[r] # "apply" => todo'[r] = <<>>
    BY <2>1 DEF Inv, TypeOK, Spent, Goto, At, Done, Receive, Acquire, RefuseMalformed, LockWrite,
           LockList, GetFound, GetMissing, Proceed, Apply, UnlockWrite, Panic, CopyOne,
           UnlockList, Render, Finish
  <2>. QED
    BY <2>2, <2>3 DEF Spent
<1>. QED
  BY <1>1, <1>2

LEMMA OutcomeOfNothing == \A t : R!Outcome(t, <<>>) = t
<1>. SUFFICES ASSUME NEW t PROVE R!Outcome(t, <<>>) = t
  OBVIOUS
<1>. DEFINE s == [table |-> t, cut |-> FALSE]
<1>1. L!Loop(s, <<>>) = s
  BY L!LoopEmpty
<1>2. R!Outcome(t, <<>>) = L!Loop(s, <<>>).table
  BY OutcomeIsLoop
<1>. QED
  BY <1>1, <1>2

\* A step is the whole of a batch, or nothing, to who looks at the table as promised.
LEMMA StepImplements ==
  ASSUME Inv, Spent, [Next]_vars
  PROVE  [Promised!Next]_(R!Outcome(storage, Ahead))
<1>1. CASE storage' = storage /\ Ahead' = Ahead
  BY <1>1
<1>2. ASSUME NEW r \in Reqs, At(r, "apply") \/ At(r, "copy")
      PROVE  mu = r /\ Ahead = todo[r] /\ todo[r] \in Seq(Metric)
  BY <1>2 DEF At, Inv, LockHeld, TypeOK, Ahead
<1>3. Unlocked => Ahead = <<>>
  BY CallsAssumption DEF Unlocked, Ahead
<1>4. ASSUME NEW r \in Reqs, LockWrite(r) PROVE Promised!Next
  <2>1. Ahead = <<>> /\ Ahead' = call[r].batch /\ storage' = storage
    BY <1>3, <1>4 DEF LockWrite, Ahead, Inv, TypeOK
  <2>2. call[r].batch \in Batches
    BY <1>4, LockWriteAccepted DEF Batches
  <2>3. Promised!Submit(call[r].batch)
    BY <2>1, OutcomeOfNothing, OutcomeIsLoop DEF Promised!Submit
  <2>. QED
    BY <2>2, <2>3 DEF Promised!Next
<1>5. ASSUME NEW r \in Reqs, Apply(r) PROVE UNCHANGED R!Outcome(storage, Ahead)
  <2>1. mu' = r /\ Ahead = todo[r] /\ Ahead' = Tail(todo[r]) /\ todo[r] \in Seq(Metric)
    BY <1>2, <1>5 DEF Apply, Ahead, Inv, TypeOK
  <2>2. /\ todo[r] # <<>> /\ ~Panics(storage[Head(todo[r]).id], Head(todo[r]))
        /\ storage' = [storage EXCEPT ![Head(todo[r]).id] = Merge(@, Head(todo[r]))]
    BY <1>5 DEF Apply, Put
  <2>. QED
    BY <2>1, <2>2, OutcomeMerges
<1>6. ASSUME NEW r \in Reqs, Panic(r) PROVE UNCHANGED R!Outcome(storage, Ahead)
  <2>1. Ahead = todo[r] /\ Ahead' = <<>> /\ todo[r] \in Seq(Metric) /\ storage' = storage
    BY <1>2, <1>6, CallsAssumption DEF Panic, Ahead
  <2>2. todo[r] # <<>> /\ Panics(storage[Head(todo[r]).id], Head(todo[r]))
    BY <1>6 DEF Panic
  <2>. QED
    BY <2>1, <2>2, OutcomePanics, OutcomeOfNothing
<1>7. ASSUME NEW r \in Reqs, UnlockWrite(r) \/ UnlockList(r)
      PROVE  storage' = storage /\ Ahead' = Ahead
  BY <1>2, <1>7, CallsAssumption DEF UnlockWrite, UnlockList, Ahead, Spent, At
<1>8. ASSUME NEW r \in Reqs, LockList(r) PROVE storage' = storage /\ Ahead' = Ahead
  BY <1>3, <1>8 DEF LockList, Ahead, Spent, At
<1>9. ASSUME NEW r \in Reqs,
             \/ \E c \in Calls : Receive(r, c)
             \/ RefuseMalformed(r) \/ GetFound(r) \/ GetMissing(r)
             \/ CopyOne(r) \/ Render(r) \/ Finish(r)
      PROVE  storage' = storage /\ Ahead' = Ahead
  BY <1>9 DEF Ahead, Receive, RefuseMalformed, GetFound, GetMissing, CopyOne, Render, Finish
<1>10. CASE Next
  <2>1. PICK r \in Reqs :
          (\E c \in Calls : Receive(r, c)) \/ Acquire(r) \/ Proceed(r)
    BY <1>10 DEF Next
  <2>. QED
    BY <2>1, <1>1, <1>4, <1>5, <1>6, <1>7, <1>8, <1>9 DEF Acquire, Proceed
<1>11. CASE UNCHANGED vars
  BY <1>1, <1>11 DEF vars, Ahead
<1>. QED
  BY <1>10, <1>11

\* Set and Update of concurrent requests take effect one after the other, each in full
\* unless one of its metrics panics: the storage, with its lock, its loops and its
\* panics, implements the registry of indivisible batches.
THEOREM Implements == Spec => IsRegistry
<1>1. Init => Promised!Init
  BY OutcomeOfNothing, CallsAssumption DEF Init, Promised!Init, Ahead, Nothing
<1>2. Inv /\ Spent /\ [Next]_vars => [Promised!Next]_(R!Outcome(storage, Ahead))
  BY StepImplements
<1>. QED
  BY <1>1, <1>2, InitInv, NextInv, InitSpent, NextSpent, PTL DEF Spec, IsRegistry, Promised!Spec
----------------------------------------------------------------------------
(***************************************************************************)
(* Listings. Two gauges that are always sent together are level whenever   *)
(* no batch is being applied; while one is, each of the two is still to    *)
(* come or has the batch's value already. A listing that has the lock sees *)
(* the map stand still.                                                    *)
(***************************************************************************)

\* Both are there, as gauges with one value, or neither is.
Level(t, i, j) ==
  /\ t[i] = Absent <=> t[j] = Absent
  /\ t[i] # Absent => /\ t[i].mtype = "gauge" /\ t[j].mtype = "gauge"
                      /\ t[i].value = t[j].value

Of(b, i, j) == {k \in DOMAIN b : b[k].id \in {i, j}}

\* The name is in what is left of the batch, or has what the batch brought for it.
Met(r, n) ==
  \/ \E k \in DOMAIN todo[r] : todo[r][k].id = n
  \/ /\ storage[n] # Absent
     /\ \E k \in DOMAIN call[r].batch :
          call[r].batch[k].id = n /\ storage[n].value = call[r].batch[k].value

HalfWay(r, i, j) ==
  pc[r] = "apply" =>
    /\ \A k \in DOMAIN todo[r] : \E l \in DOMAIN call[r].batch : todo[r][k] = call[r].batch[l]
    /\ IF Of(call[r].batch, i, j) = {} THEN Level(storage, i, j)
       ELSE Met(r, i) /\ Met(r, j)

Copied(r) == pc[r] = "copy" => \A n \in IDs \ left[r] : view[r][n] = storage[n]

Listed(r, i, j) == pc[r] = "render" /\ call[r].handler \in ListHandlers => Level(view[r], i, j)

TogetherInv(i, j) ==
  /\ (\A r \in Reqs : pc[r] # "apply") => Level(storage, i, j)
  /\ \A r \in Reqs : HalfWay(r, i, j) /\ Copied(r) /\ Listed(r, i, j)

LEMMA InitTogether == ASSUME Init, NEW i \in IDs, NEW j \in IDs PROVE TogetherInv(i, j)
  BY DEF Init, TogetherInv, HalfWay, Copied, Listed, Level, Nothing

\* What it means for a batch that two names are sent together.
LEMMA SentBoth ==
  ASSUME NEW i \in IDs, NEW j \in IDs, SentTogether(i, j), NEW c \in Calls, Accepted(c)
  PROVE  /\ \A k \in Of(c.batch, i, j) : c.batch[k].mtype = "gauge"
         /\ \A k, l \in Of(c.batch, i, j) : c.batch[k].value = c.batch[l].value
         /\ Of(c.batch, i, j) # {} =>
              /\ \E k \in DOMAIN c.batch : c.batch[k].id = i
              /\ \E k \in DOMAIN c.batch : c.batch[k].id = j
  BY DEF SentTogether, Of

\* Such names are only used for gauges.
LEMMA GaugesOnly ==
  ASSUME WellInv, NEW i \in IDs, NEW j \in IDs, SentTogether(i, j), NEW n \in {i, j},
         storage[n] # Absent
  PROVE  storage[n].mtype = "gauge"
<1>1. PICK m \in Written : m.id = n /\ m.mtype = storage[n].mtype
  BY DEF WellInv, StoredWell
<1>2. PICK c \in Calls : Accepted(c) /\ \E k \in DOMAIN c.batch : m = c.batch[k]
  BY DEF Written
<1>3. PICK k \in DOMAIN c.batch : m = c.batch[k]
  BY <1>2
<1>4. k \in Of(c.batch, i, j)
  BY <1>1, <1>3 DEF Of
<1>. QED
  BY <1>1, <1>2, <1>3, <1>4, SentBoth

\* One request moves; the others stay where they are.
StepOf(r) == (\E c \in Calls : Receive(r, c)) \/ Acquire(r) \/ Proceed(r)

LEMMA OthersStay ==
  ASSUME Inv, NEW r \in Reqs, StepOf(r), NEW q \in Reqs, q # r
  PROVE  /\ pc'[q] = pc[q] /\ call'[q] = call[q] /\ todo'[q] = todo[q]
         /\ left'[q] = left[q] /\ view'[q] = view[q]
<1>1. CASE \E c \in Calls : Receive(r, c)
  BY <1>1 DEF Inv, TypeOK, Goto, Receive
<1>2. CASE Acquire(r)
  BY <1>2 DEF Inv, TypeOK, Goto, Acquire, RefuseMalformed, LockWrite, LockList, GetFound, GetMissing
<1>3. CASE Apply(r) \/ UnlockWrite(r) \/ Panic(r) \/ Render(r) \/ Finish(r) \/ UnlockList(r)
  BY <1>3 DEF Inv, TypeOK, Goto, Apply, UnlockWrite, Panic, Render, Finish, UnlockList
<1>4. CASE CopyOne(r)
  <2>1. PICK i \in left[r] : /\ view' = [view EXCEPT ![r][i] = storage[i]]
                             /\ left' = [left EXCEPT ![r] = @ \ {i}]
    BY <1>4 DEF CopyOne
  <2>. QED
    BY <1>4, <2>1 DEF Inv, TypeOK, CopyOne
<1>. QED
  BY <1>1, <1>2, <1>3, <1>4 DEF StepOf, Proceed

\* A turn of the loop brings the batch's value to the name it is about.
LEMMA ApplyTogether ==
  ASSUME Disciplined, WellInv, NEW i \in IDs, NEW j \in IDs, SentTogether(i, j),
         TogetherInv(i, j), NEW r \in Reqs, Apply(r)
  PROVE  TogetherInv(i, j)'
<1>. DEFINE m == Head(todo[r])
            c == call[r]
<1>1. /\ pc[r] = "apply" /\ pc' = pc /\ call' = call /\ view' = view /\ left' = left
      /\ mu = r /\ c \in Calls /\ Accepted(c) /\ c.batch \in Seq(Metric)
      /\ todo[r] \in Seq(Metric) /\ todo[r] # <<>> /\ todo'[r] = Tail(todo[r])
  BY CallShape DEF Apply, At, WellInv, Inv, LockHeld, Serving, TypeOK
<1>2. \A q \in Reqs : q # r => pc[q] \notin {"apply", "copy"}
  BY <1>1 DEF WellInv, Inv, LockHeld, NoAbort
<1>3. /\ m = todo[r][1] /\ 1 \in DOMAIN todo[r]
      /\ \A k \in DOMAIN Tail(todo[r]) : k + 1 \in DOMAIN todo[r] /\ Tail(todo[r])[k] = todo[r][k + 1]
      /\ \A k \in DOMAIN todo[r] : k # 1 => k - 1 \in DOMAIN Tail(todo[r])
                                            /\ todo[r][k] = Tail(todo[r])[k - 1]
  BY <1>1
<1>4. PICK l \in DOMAIN c.batch : m = c.batch[l]
  BY <1>1, <1>3 DEF TogetherInv, HalfWay
<1>5. storage \in [IDs -> Metric \cup {Absent}] /\ m \in Metric /\ m.id \in IDs
      /\ storage' = [storage EXCEPT ![m.id] = Merge(storage[m.id], m)]
      /\ Merge(storage[m.id], m) \in Metric
  <2>1. storage \in [IDs -> Metric \cup {Absent}] /\ ~Panics(storage[m.id], m)
        /\ storage' = [storage EXCEPT ![m.id] = Merge(storage[m.id], m)]
    BY DEF Apply, Put, WellInv, Inv, TypeOK
  <2>2. m \in Metric /\ Valid(m) /\ m.id \in IDs
    BY <1>1, NoPanic DEF Valid
  <2>. QED
    BY <2>1, <2>2, MergeType
<1>6. \A k \in DOMAIN Tail(todo[r]) : \E x \in DOMAIN c.batch : Tail(todo[r])[k] = c.batch[x]
  BY <1>1, <1>3 DEF TogetherInv, HalfWay
<1>7. ASSUME HalfWay(r, i, j)' PROVE TogetherInv(i, j)'
  <2>1. ASSUME NEW q \in Reqs PROVE HalfWay(q, i, j)' /\ Copied(q)' /\ Listed(q, i, j)'
    <3>1. pc[q] # "copy" /\ (pc[q] = "apply" => q = r) /\ Listed(q, i, j)
      BY <1>1, <1>2 DEF TogetherInv
    <3>2. q = r => HalfWay(q, i, j)'
      BY <1>7
    <3>. QED
      BY <1>1, <3>1, <3>2 DEF HalfWay, Copied, Listed
  <2>. QED
    BY <1>1, <2>1 DEF TogetherInv
<1>8. CASE Of(c.batch, i, j) = {}
  <2>1. m.id # i /\ m.id # j
    BY <1>4, <1>8 DEF Of
  <2>2. storage'[i] = storage[i] /\ storage'[j] = storage[j]
    BY <1>5, <2>1
  <2>3. Level(storage, i, j)
    BY <1>1, <1>8 DEF TogetherInv, HalfWay
  <2>4. HalfWay(r, i, j)'
    BY <1>1, <1>6, <1>8, <2>2, <2>3 DEF HalfWay, Level
  <2>. QED
    BY <1>7, <2>4
<1>9. CASE Of(c.batch, i, j) # {}
  <2>1. ASSUME NEW n \in {i, j}, Met(r, n) PROVE Met(r, n)'
    <3>1. CASE m.id = n
      <4>1. l \in Of(c.batch, i, j) /\ m.mtype = "gauge"
        BY <1>1, <1>4, <2>1, <3>1, SentBoth DEF Of
      <4>2. Merge(storage[n], m).value = m.value
        <5>1. storage[n] = Absent \/ storage[n] \in Metric
          BY <1>5, <2>1
        <5>. QED
          BY <4>1, <5>1 DEF Merge, Metric
      <4>3. storage'[n] = Merge(storage[n], m) /\ storage'[n] # Absent
        BY <1>5, <3>1, MetricAssumption
      <4>. QED
        BY <1>1, <1>4, <3>1, <4>2, <4>3 DEF Met
    <3>2. CASE m.id # n
      <4>1. storage'[n] = storage[n]
        BY <1>5, <2>1, <3>2
      <4>2. ASSUME NEW k \in DOMAIN todo[r], todo[r][k].id = n
            PROVE  \E x \in DOMAIN todo'[r] : todo'[r][x].id = n
        <5>1. k # 1
          BY <1>3, <3>2, <4>2
        <5>2. k - 1 \in DOMAIN todo'[r] /\ todo'[r][k - 1] = todo[r][k]
          BY <1>1, <1>3, <5>1
        <5>. QED
          BY <4>2, <5>2
      <4>. QED
        BY <1>1, <2>1, <4>1, <4>2 DEF Met
    <3>. QED
      BY <3>1, <3>2
  <2>2. Met(r, i) /\ Met(r, j)
    BY <1>1, <1>9 DEF HalfWay, TogetherInv
  <2>3. Met(r, i)' /\ Met(r, j)'
    BY <2>1, <2>2
  <2>4. HalfWay(r, i, j)'
    BY <1>1, <1>6, <1>9, <2>3 DEF HalfWay
  <2>. QED
    BY <1>7, <2>4
<1>. QED
  BY <1>8, <1>9

\* The batch is applied: the two have its value.
LEMMA UnlockWriteTogether ==
  ASSUME WellInv, NEW i \in IDs, NEW j \in IDs, SentTogether(i, j),
         TogetherInv(i, j), NEW r \in Reqs, UnlockWrite(r)
  PROVE  TogetherInv(i, j)'
<1>. DEFINE c == call[r]
<1>1. /\ pc[r] = "apply" /\ pc'[r] \in {"get", "answered"} /\ storage' = storage /\ todo[r] = <<>>
      /\ mu = r /\ c \in Calls /\ Accepted(c)
      /\ \A q \in Reqs : q # r => pc[q] \notin {"apply", "copy"}
  BY DEF UnlockWrite, Goto, At, WellInv, Inv, LockHeld, Serving, TypeOK
<1>2. Level(storage, i, j)
  <2>1. CASE Of(c.batch, i, j) = {}
    BY <1>1, <2>1 DEF TogetherInv, HalfWay
  <2>2. CASE Of(c.batch, i, j) # {}
    <3>1. DOMAIN todo[r] = {} /\ Met(r, i) /\ Met(r, j)
      BY <1>1, <2>2 DEF TogetherInv, HalfWay
    <3>2. PICK k \in DOMAIN c.batch : c.batch[k].id = i /\ storage[i].value = c.batch[k].value
      BY <3>1 DEF Met
    <3>3. PICK l \in DOMAIN c.batch : c.batch[l].id = j /\ storage[j].value = c.batch[l].value
      BY <3>1 DEF Met
    <3>4. c.batch[k].value = c.batch[l].value
      BY <1>1, <3>2, <3>3, SentBoth DEF Of
    <3>. QED
      BY <3>1, <3>2, <3>3, <3>4, GaugesOnly DEF Met, Level
  <2>. QED
    BY <2>1, <2>2
<1>3. \A q \in Reqs : q # r => /\ pc'[q] = pc[q] /\ call'[q] = call[q] /\ todo'[q] = todo[q]
                               /\ left'[q] = left[q] /\ view'[q] = view[q]
  BY OthersStay DEF StepOf, Proceed, WellInv
<1>. QED
  BY <1>1, <1>2, <1>3 DEF TogetherInv, HalfWay, Copied, Listed

\* The lock is taken while nobody applies a batch.
LEMMA LockTogether ==
  ASSUME WellInv, NEW i \in IDs, NEW j \in IDs, SentTogether(i, j),
         TogetherInv(i, j), NEW r \in Reqs, LockWrite(r) \/ LockList(r), Inv'
  PROVE  TogetherInv(i, j)'
<1>1. /\ \A q \in Reqs : pc[q] \notin {"apply", "copy"}
      /\ storage' = storage /\ call' = call /\ view' = view
  BY CallsAssumption DEF LockWrite, LockList, Unlocked, At, WellInv, Inv, LockHeld
<1>2. Level(storage, i, j)
  BY <1>1 DEF TogetherInv
<1>3. \A q \in Reqs : q # r => /\ pc'[q] = pc[q] /\ call'[q] = call[q] /\ todo'[q] = todo[q]
                               /\ left'[q] = left[q] /\ view'[q] = view[q]
  BY OthersStay DEF StepOf, Acquire, WellInv
<1>4. HalfWay(r, i, j)'
  <2>1. CASE LockWrite(r)
    <3>1. todo'[r] = call[r].batch /\ pc'[r] = "apply" /\ call[r] \in Calls /\ Accepted(call[r])
      BY <1>1, <2>1 DEF LockWrite, Goto, WellInv, Inv, TypeOK, Serving
    <3>. QED
      BY <1>1, <1>2, <3>1, SentBoth DEF HalfWay, Met
  <2>2. CASE LockList(r)
    BY <2>2 DEF LockList, Goto, WellInv, Inv, TypeOK, HalfWay
  <2>. QED
    BY <2>1, <2>2
<1>5. Copied(r)' /\ Listed(r, i, j)'
  BY DEF LockWrite, LockList, Goto, WellInv, Inv, TypeOK, Copied, Listed
<1>. QED
  BY <1>1, <1>2, <1>3, <1>4, <1>5 DEF TogetherInv, HalfWay, Copied, Listed

\* A listing visits the map while it holds the lock.
LEMMA ListTogether ==
  ASSUME WellInv, NEW i \in IDs, NEW j \in IDs,
         TogetherInv(i, j), NEW r \in Reqs, CopyOne(r) \/ UnlockList(r)
  PROVE  TogetherInv(i, j)'
<1>1. /\ pc[r] = "copy" /\ \A q \in Reqs : pc[q] # "apply"
      /\ storage' = storage /\ call' = call /\ todo' = todo
  BY DEF CopyOne, UnlockList, At, WellInv, Inv, LockHeld
<1>2. Level(storage, i, j) /\ Copied(r)
  BY <1>1 DEF TogetherInv
<1>3. \A q \in Reqs : q # r => /\ pc'[q] = pc[q] /\ call'[q] = call[q] /\ todo'[q] = todo[q]
                               /\ left'[q] = left[q] /\ view'[q] = view[q]
  BY OthersStay DEF StepOf, Proceed, WellInv
<1>4. pc'[r] \in {"copy", "render"}
  BY <1>1 DEF CopyOne, UnlockList, Goto, WellInv, Inv, TypeOK
<1>5. Copied(r)' /\ Listed(r, i, j)'
  <2>1. CASE CopyOne(r)
    <3>1. PICK n \in left[r] : /\ view' = [view EXCEPT ![r][n] = storage[n]]
                               /\ left' = [left EXCEPT ![r] = @ \ {n}]
      BY <2>1 DEF CopyOne
    <3>2. n \in IDs /\ left'[r] = left[r] \ {n}
          /\ \A k \in IDs : view'[r][k] = IF k = n THEN storage[n] ELSE view[r][k]
      BY <3>1 DEF WellInv, Inv, TypeOK
    <3>. QED
      BY <1>1, <1>2, <2>1, <3>2 DEF Copied, Listed, CopyOne
  <2>2. CASE UnlockList(r)
    <3>1. view[r][i] = storage[i] /\ view[r][j] = storage[j] /\ view' = view
      BY <1>1, <1>2, <2>2 DEF Copied, UnlockList
    <3>. QED
      BY <1>2, <2>2, <3>1 DEF Copied, Listed, Level, UnlockList, Goto, WellInv, Inv, TypeOK
  <2>. QED
    BY <2>1, <2>2
<1>. QED
  BY <1>1, <1>2, <1>3, <1>4, <1>5 DEF TogetherInv, HalfWay, Copied, Listed

\* The other steps neither touch the map nor end a listing.
LEMMA QuietTogether ==
  ASSUME WellInv, NEW i \in IDs, NEW j \in IDs,
         TogetherInv(i, j), NEW r \in Reqs,
         \/ \E c \in Calls : Receive(r, c)
         \/ RefuseMalformed(r) \/ GetFound(r) \/ GetMissing(r) \/ Render(r) \/ Finish(r)
  PROVE  TogetherInv(i, j)'
<1>1. /\ pc[r] \in {"idle", "lock", "get", "render", "answered", "refused", "aborted"}
      /\ storage' = storage
  BY DEF Receive, RefuseMalformed, GetFound, GetMissing, Render, Finish, Done, At
<1>2. \A q \in Reqs : q # r => /\ pc'[q] = pc[q] /\ call'[q] = call[q] /\ todo'[q] = todo[q]
                               /\ left'[q] = left[q] /\ view'[q] = view[q]
  BY OthersStay DEF StepOf, Acquire, Proceed, WellInv
<1>3. pc'[r] \notin {"apply", "copy"}
  BY DEF Receive, RefuseMalformed, GetFound, GetMissing, Render, Finish, Goto, FirstStage,
         WellInv, Inv, TypeOK
<1>4. Listed(r, i, j)'
  <2>1. CASE GetFound(r)
    BY <2>1 DEF GetFound, At, WellInv, Inv, Serving, Listed, ListHandlers, SetHandlers, GetHandlers
  <2>2. CASE ~GetFound(r)
    <3>1. pc'[r] # "render"
      BY <2>2 DEF Receive, RefuseMalformed, GetMissing, Render, Finish, Goto, FirstStage,
             WellInv, Inv, TypeOK
    <3>. QED
      BY <3>1 DEF Listed
  <2>. QED
    BY <2>1, <2>2
<1>5. ASSUME NEW q \in Reqs PROVE HalfWay(q, i, j)' /\ Copied(q)' /\ Listed(q, i, j)'
  <2>1. CASE q = r
    BY <1>3, <1>4, <2>1 DEF HalfWay, Copied
  <2>2. CASE q # r
    <3>1. HalfWay(q, i, j) /\ Copied(q) /\ Listed(q, i, j)
      BY DEF TogetherInv
    <3>. QED
      BY <1>1, <1>2, <2>2, <3>1 DEF HalfWay, Copied, Listed, Met
  <2>. QED
    BY <2>1, <2>2
<1>6. (\A q \in Reqs : pc[q] # "apply")' => Level(storage, i, j)'
  BY <1>1, <1>2 DEF TogetherInv, Level
<1>. QED
  BY <1>5, <1>6 DEF TogetherInv

LEMMA NextTogether ==
  ASSUME Disciplined, NEW i \in IDs, NEW j \in IDs, SentTogether(i, j)
  PROVE  WellInv /\ TogetherInv(i, j) /\ [Next]_vars => TogetherInv(i, j)'
<1>. SUFFICES ASSUME WellInv, TogetherInv(i, j), [Next]_vars PROVE TogetherInv(i, j)'
  OBVIOUS
<1>1. CASE UNCHANGED vars
  BY <1>1 DEF TogetherInv, HalfWay, Copied, Listed, Met, vars
<1>2. CASE Next
  <2>1. PICK r \in Reqs :
          (\E c \in Calls : Receive(r, c)) \/ Acquire(r) \/ Proceed(r)
    BY <1>2 DEF Next
  <2>2. Inv'
    BY NextInv DEF WellInv
  <2>3. CASE \E c \in Calls : Receive(r, c)
    BY <2>3, QuietTogether
  <2>4. CASE Acquire(r)
    BY <2>2, <2>4, LockTogether, QuietTogether DEF Acquire
  <2>5. CASE Proceed(r)
    BY <2>5, ApplyTogether, UnlockWriteTogether, PanicWell, ListTogether, QuietTogether DEF Proceed
  <2>. QED
    BY <2>1, <2>3, <2>4, <2>5
<1>. QED
  BY <1>1, <1>2

\* With disciplined clients a listing shows two gauges that are always sent together
\* with values that were sent together, or shows neither, whatever batches were
\* written before, while and after it held the lock.
THEOREM DisciplinedListedTogether == ASSUME Disciplined PROVE Spec => []ListedTogether
<1>. DEFINE Pairs(i, j) == SentTogether(i, j) => TogetherInv(i, j)
            Together == \A i, j \in IDs : Pairs(i, j)
<1>1. Init => Together
  BY InitTogether
<1>2. WellInv /\ Together /\ [Next]_vars => Together'
  <2>. SUFFICES ASSUME WellInv, Together, [Next]_vars, NEW i \in IDs, NEW j \in IDs,
                       SentTogether(i, j)
                PROVE  TogetherInv(i, j)'
    BY DEF SentTogether
  <2>. QED
    BY NextTogether
<1>3. Together => ListedTogether
  <2>. SUFFICES ASSUME Together, NEW r \in Reqs, At(r, "render"), call[r].handler \in ListHandlers,
                       NEW i \in IDs, NEW j \in IDs, SentTogether(i, j)
                PROVE  /\ view[r][i] = Absent <=> view[r][j] = Absent
                       /\ view[r][i] # Absent => Shown(r, i) = Shown(r, j)
    BY DEF ListedTogether
  <2>1. Level(view[r], i, j)
    BY DEF TogetherInv, Listed, At
  <2>. QED
    BY <2>1 DEF Level, Shown
<1>. HIDE DEF Together
<1>. QED
  BY <1>1, <1>2, <1>3, InitWell, NextWell, PTL DEF Spec
=============================================================================
