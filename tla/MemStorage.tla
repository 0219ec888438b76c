----------------------------- MODULE MemStorage -----------------------------
(***************************************************************************)
(* The metrics server on its in-memory storage: every HTTP and gRPC        *)
(* request runs in a goroutine of its own, and all of them share one map   *)
(* guarded by one lock. Source: internal/storage/memory/memory.go, called  *)
(* by internal/metric/service/service.go from internal/server/handlers.go  *)
(* and internal/grpc/metrics/metrics.go.                                   *)
(***************************************************************************)
EXTENDS Metric, FiniteSets

CONSTANTS
    Reqs,       \* goroutines that serve requests; each takes call after call
    Free,       \* nobody holds the lock
    Calls       \* the calls clients make

SetHandlers   == {"updateHandlerJSON", "updateHandler"}
BatchHandlers == {"updatesHandlerJSON", "grpcUpdate"}
GetHandlers   == {"getMetricHandler", "getMetricHandlerJSON", "grpcValue"}
ListHandlers  == {"listMetricHandler", "grpcList"}
Handlers      == SetHandlers \cup BatchHandlers \cup GetHandlers \cup ListHandlers

\* Handlers that print the fields through their pointers; the others hand the
\* pointers to an encoder, which leaves a missing field out.
PrintingHandlers == {"listMetricHandler", "getMetricHandler"}

ASSUME CallsAssumption ==
    /\ Free \notin Reqs
    /\ Calls \subseteq [handler : Handlers, batch : Seq(Metric)]
    /\ \A c \in Calls : c.handler \in SetHandlers \cup GetHandlers => Len(c.batch) = 1

NoCall  == [handler |-> "none", batch |-> <<>>]
Nothing == [i \in IDs |-> Absent]

VARIABLES
    storage,    \* Storage.storage, the map (a live entry's delta is the cell its pointer leads to)
    mu,         \* Storage.mu: the request that holds it for writing, or Free
    pc,         \* where each request is
    call,       \* what each request was asked
    todo,       \* the rest of the batch a writer is applying
    left,       \* the names a listing has yet to visit
    view,       \* the entries a reader has copied out of the map
    alive       \* the process has not crashed

vars == <<storage, mu, pc, call, todo, left, view, alive>>

Stages == {"idle", "lock", "apply", "copy", "get", "render",
           "answered", "refused", "aborted"}

\* Type invariant: whatever a request asks for, the map holds metrics of the two types
\* under their own names, and every request is somewhere in one of the handlers.
TypeOK ==
    /\ storage \in [IDs -> Metric \cup {Absent}] /\ NamedAndTyped(storage)
    /\ mu \in Reqs \cup {Free}
    /\ pc \in [Reqs -> Stages]
    /\ call \in [Reqs -> Calls \cup {NoCall}]
    /\ todo \in [Reqs -> Seq(Metric)]
    /\ left \in [Reqs -> SUBSET IDs]
    /\ view \in [Reqs -> [IDs -> Metric \cup {Absent}]]
    /\ alive \in BOOLEAN

Init ==
    /\ storage = Nothing
    /\ mu = Free
    /\ pc = [r \in Reqs |-> "idle"]
    /\ call = [r \in Reqs |-> NoCall]
    /\ todo = [r \in Reqs |-> <<>>]
    /\ left = [r \in Reqs |-> {}]
    /\ view = [r \in Reqs |-> Nothing]
    /\ alive = TRUE
----------------------------------------------------------------------------
At(r, stage)   == alive /\ pc[r] = stage
Goto(r, stage) == pc' = [pc EXCEPT ![r] = stage]
Asked(r)       == Head(call[r].batch)

\* The checks made before the storage is called. updateHandler also refuses a
\* value that does not parse, which leaves the metric without its field.
Passes(c) ==
    /\ c.handler \in SetHandlers \cup BatchHandlers =>
         \A k \in DOMAIN c.batch : Valid(c.batch[k])
    /\ c.handler = "updateHandler" => ~Malformed(c.batch[1])
    /\ c.handler \in GetHandlers => c.batch[1].mtype \in AllowedMetricType

FirstStage(c) ==
    IF ~Passes(c) THEN "refused"
    ELSE IF c.handler \in GetHandlers THEN "get" ELSE "lock"

Unlocked_Always == TRUE                                  \* fault: the lock is not waited for

\* sync.RWMutex: one writer at a time, and no reader while it is inside.
Unlocked == mu = Free

Put_ExistingOnly(m) ==                                   \* fault: new names are not inserted
    storage' = [storage EXCEPT ![m.id] = IF @ = Absent THEN Absent ELSE Merge(@, m)]
Put_Replaces(m) == storage' = [storage EXCEPT ![m.id] = m]      \* fault: counters do not add up

\* The map entry a metric leaves behind.
Put(m) == storage' = [storage EXCEPT ![m.id] = Merge(@, m)]

\* The server starts to serve a call: it decodes and validates it.
Receive(r, c) ==
    /\ At(r, "idle")
    /\ call' = [call EXCEPT ![r] = c]
    /\ Goto(r, FirstStage(c))
    /\ UNCHANGED <<storage, mu, todo, left, view, alive>>

\* Storage.Set takes the lock, finds its metric malformed and returns.
RefuseMalformed(r) ==
    /\ At(r, "lock") /\ Unlocked
    /\ call[r].handler \in SetHandlers /\ Malformed(Asked(r))
    /\ Goto(r, "refused")
    /\ UNCHANGED <<storage, mu, call, todo, left, view, alive>>

\* Storage.Set or Storage.Update takes the lock for the whole of its batch.
LockWrite(r) ==
    /\ At(r, "lock") /\ Unlocked
    /\ call[r].handler \in SetHandlers \cup BatchHandlers
    /\ ~(call[r].handler \in SetHandlers /\ Malformed(Asked(r)))
    /\ mu' = r
    /\ todo' = [todo EXCEPT ![r] = call[r].batch]
    /\ Goto(r, "apply")
    /\ UNCHANGED <<storage, call, left, view, alive>>

\* One turn of the loop of Storage.Update, or the body of Storage.Set.
Apply(r) ==
    /\ At(r, "apply") /\ todo[r] # <<>>
    /\ LET m == Head(todo[r])
       IN  ~Panics(storage[m.id], m) /\ Put(m)
    /\ todo' = [todo EXCEPT ![r] = Tail(@)]
    /\ UNCHANGED <<mu, pc, call, left, view, alive>>

\* The deferred Unlock. updateHandlerJSON goes on to read the metric back.
UnlockWrite(r) ==
    /\ At(r, "apply") /\ todo[r] = <<>>
    /\ mu' = Free
    /\ Goto(r, IF call[r].handler = "updateHandlerJSON" THEN "get" ELSE "answered")
    /\ UNCHANGED <<storage, call, todo, left, view, alive>>

\* Fault: the Unlock is not deferred, and the panic skips it.
Panic_KeepsLock(r) ==
    /\ At(r, "apply") /\ todo[r] # <<>>
    /\ Panics(storage[Head(todo[r]).id], Head(todo[r]))
    /\ todo' = [todo EXCEPT ![r] = <<>>]
    /\ Goto(r, "aborted")
    /\ alive' = (call[r].handler # "grpcUpdate")
    /\ UNCHANGED <<storage, mu, call, left, view>>

\* A nil pointer in the middle of a batch: the deferred Unlock runs and what the
\* batch did before stays. net/http recovers the panic and drops the connection;
\* the gRPC server has no recovery, and the process exits.
Panic(r) ==
    /\ At(r, "apply") /\ todo[r] # <<>>
    /\ Panics(storage[Head(todo[r]).id], Head(todo[r]))
    /\ mu' = Free
    /\ todo' = [todo EXCEPT ![r] = <<>>]
    /\ Goto(r, "aborted")
    /\ alive' = (call[r].handler # "grpcUpdate")
    /\ UNCHANGED <<storage, call, left, view>>
----------------------------------------------------------------------------
(* Readers *)

\* Fault: the listing walks the map without the lock.
LockList_Unlocked(r) ==
    /\ At(r, "lock") /\ call[r].handler \in ListHandlers
    /\ left' = [left EXCEPT ![r] = IDs]
    /\ Goto(r, "copy")
    /\ UNCHANGED <<storage, mu, call, todo, view, alive>>

LockList(r) ==
    /\ At(r, "lock") /\ Unlocked /\ call[r].handler \in ListHandlers
    /\ mu' = r
    /\ left' = [left EXCEPT ![r] = IDs]
    /\ Goto(r, "copy")
    /\ UNCHANGED <<storage, call, todo, view, alive>>

\* One turn of the loop of Storage.List; a Go map is visited in any order.
CopyOne(r) ==
    /\ At(r, "copy")
    /\ \E i \in left[r] :
         /\ view' = [view EXCEPT ![r][i] = storage[i]]
         /\ left' = [left EXCEPT ![r] = @ \ {i}]
    /\ UNCHANGED <<storage, mu, pc, call, todo, alive>>

UnlockList(r) ==
    /\ At(r, "copy") /\ left[r] = {}
    /\ mu' = Free
    /\ Goto(r, "render")
    /\ UNCHANGED <<storage, call, todo, left, view, alive>>

\* The name is in the map, and under the type that was asked for.
Found(m) == m.id \in IDs /\ storage[m.id] # Absent /\ storage[m.id].mtype = m.mtype

\* Storage.Get: the struct is copied under the read lock, its pointers are shared.
GetFound(r) ==
    /\ At(r, "get") /\ Unlocked /\ Found(Asked(r))
    /\ view' = [view EXCEPT ![r][Asked(r).id] = storage[Asked(r).id]]
    /\ Goto(r, "render")
    /\ UNCHANGED <<storage, mu, call, todo, left, alive>>

\* Service.Get fails: "not found", except that updateHandlerJSON ignores the error
\* and answers null.
GetMissing(r) ==
    /\ At(r, "get") /\ Unlocked /\ ~Found(Asked(r))
    /\ Goto(r, IF call[r].handler \in SetHandlers THEN "answered" ELSE "refused")
    /\ UNCHANGED <<storage, mu, call, todo, left, view, alive>>

\* A copied entry whose printed field is a nil pointer.
Unprintable(r) == \E i \in IDs : view[r][i] # Absent /\ Malformed(view[r][i])

\* The answer is written after the lock was released.
Render(r) ==
    /\ At(r, "render")
    /\ Goto(r, IF call[r].handler \in PrintingHandlers /\ Unprintable(r)
               THEN "aborted" ELSE "answered")
    /\ UNCHANGED <<storage, mu, call, todo, left, view, alive>>

\* What an answer shows for name i: a gauge as it was copied, a counter as it is
\* now, because the copy shares the cell its Delta points to.
Shown(r, i) ==
    IF view[r][i].mtype = "counter" THEN storage[i].delta ELSE view[r][i].value

Done(r) == pc[r] \in {"answered", "refused", "aborted"}

\* The goroutine is done with the call.
Finish(r) ==
    /\ alive /\ Done(r)
    /\ Goto(r, "idle")
    /\ call' = [call EXCEPT ![r] = NoCall]
    /\ view' = [view EXCEPT ![r] = Nothing]
    /\ UNCHANGED <<storage, mu, todo, left, alive>>
----------------------------------------------------------------------------
Acquire(r) == RefuseMalformed(r) \/ LockWrite(r) \/ LockList(r) \/ GetFound(r) \/ GetMissing(r)

Proceed(r) == Apply(r) \/ UnlockWrite(r) \/ Panic(r) \/ CopyOne(r) \/ UnlockList(r)
              \/ Render(r) \/ Finish(r)

Next == \E r \in Reqs : (\E c \in Calls : Receive(r, c)) \/ Acquire(r) \/ Proceed(r)

Spec == Init /\ [][Next]_vars

\* The Go scheduler runs every goroutine that can run, and sync.RWMutex queues
\* its waiters: a goroutine that waits is not passed over for ever.
FairSpec == Spec /\ \A r \in Reqs : WF_vars(Proceed(r)) /\ SF_vars(Acquire(r))
----------------------------------------------------------------------------
(* Properties *)

\* The calls that get as far as writing the map.
Accepted(c) ==
    /\ c.handler \in SetHandlers \cup BatchHandlers /\ Passes(c)
    /\ ~(c.handler \in SetHandlers /\ Malformed(c.batch[1]))

Written == UNION {{c.batch[k] : k \in DOMAIN c.batch} : c \in {d \in Calls : Accepted(d)}}

\* What the agent sends: every metric with its value, every name with one type.
Disciplined ==
    /\ \A m \in Written : ~Malformed(m)
    /\ \A m, n \in Written : m.id = n.id => m.mtype = n.mtype

\* The lock belongs to the request whose loop over the map is running, to no
\* other and at no other time: every return of Set, Update and List gives it back.
LockHeld == alive => \A r \in Reqs : (mu = r) <=> pc[r] \in {"apply", "copy"}

\* With disciplined clients no handler panics and the process does not exit: the
\* nil checks that Update leaves out are not missed.
NoAbort == alive /\ \A r \in Reqs : pc[r] # "aborted"

\* With disciplined clients updateHandlerJSON finds the metric it has just stored,
\* whatever other requests did since it released the lock: ignoring the error of
\* the second service call, it never answers null.
ReadsBack ==
    \A r \in Reqs : At(r, "get") /\ call[r].handler = "updateHandlerJSON" => Found(Asked(r))

\* An entry stays under its name with the type it came with, and its delta pointer
\* is never set or cleared later. A copy taken out of the map therefore keeps
\* the cell that the map goes on counting in.
CellKept(i) ==
    storage[i] # Absent =>
        /\ storage'[i] # Absent
        /\ storage'[i].mtype = storage[i].mtype
        /\ (storage'[i].delta = Nil) = (storage[i].delta = Nil)
CellFixed == [][\A i \in IDs : CellKept(i)]_vars

\* While a request lists or applies, the map changes only by its own next turn.
OnlyOwner(r) ==
    pc[r] \in {"apply", "copy"} /\ storage' # storage =>
        pc[r] = "apply" /\ todo'[r] = Tail(todo[r])
Isolated == [][\A r \in Reqs : OnlyOwner(r)]_vars

\* Two names that are only used for gauges, and that every batch sends together and
\* with one value, or leaves out both.
SentTogether(i, j) ==
    \A c \in {d \in Calls : Accepted(d)} :
        LET of == {k \in DOMAIN c.batch : c.batch[k].id \in {i, j}}
        IN  /\ \A k \in of : c.batch[k].mtype = "gauge"
            /\ \A k, l \in of : c.batch[k].value = c.batch[l].value
            /\ of # {} => \A n \in {i, j} : \E k \in of : c.batch[k].id = n

\* Two gauges always sent together are listed with values that were sent together,
\* or not at all: List copies the map at one instant, between two batches.
ListedTogether ==
    \A r \in Reqs : At(r, "render") /\ call[r].handler \in ListHandlers =>
        \A i, j \in IDs : SentTogether(i, j) =>
            /\ view[r][i] = Absent <=> view[r][j] = Absent
            /\ view[r][i] # Absent => Shown(r, i) = Shown(r, j)

(***************************************************************************)
(* The registry the storage implements. A batch takes effect as a whole    *)
(* when its writer takes the lock: what the writer has yet to do is seen   *)
(* as done, since nobody can look before it is.                            *)
(***************************************************************************)
Batches == {d.batch : d \in {e \in Calls : Accepted(e)}}

Ahead == IF mu \in Reqs THEN todo[mu] ELSE <<>>

R == INSTANCE Registry WITH reg <- storage
Promised == INSTANCE Registry WITH reg <- R!Outcome(storage, Ahead)

\* Batches are indivisible: Set and Update of concurrent requests take effect one
\* after the other, each in full unless one of its metrics panics.
IsRegistry == Promised!Spec

\* Every answer comes: no call waits for ever for a lock that is not given back.
EveryCallEnds == \A r \in Reqs : pc[r] # "idle" ~> (pc[r] = "idle" \/ ~alive)

\* metric.go:53-54: Delta is the value of the metric when a counter is sent, Value
\* when a gauge is. An entry of the map carries the one its type calls for.
StoredCarriesValue == \A i \in IDs : storage[i] # Absent => ~Malformed(storage[i])
=============================================================================
