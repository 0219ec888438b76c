-------------------------------- MODULE Agent --------------------------------
(***************************************************************************)
(* The agent process: a poller that starts two gathering goroutines at     *)
(* every tick, a reporter that puts a job into a channel at every tick,    *)
(* and RateLimit workers that take a job and publish the shared metrics.   *)
(* Source: internal/agent/agent.go, started and awaited by                 *)
(* cmd/agent/main.go.                                                      *)
(***************************************************************************)
EXTENDS Integers, FiniteSets

CONSTANTS
    Workers,     \* the goroutines that publish, one per unit of RateLimit
    NumJobs,     \* the capacity of the channels jobs and results
    MemTasks,    \* slots for requestMemoryMetrics goroutines in flight (bound)
    RtTasks,     \* slots for requestMetrics goroutines in flight (bound)
    MaxTime      \* moments at which a reading can be taken (bound)

Tasks == MemTasks \cup RtTasks

ASSUME AgentAssumption ==
    /\ IsFiniteSet(Workers)
    /\ NumJobs \in Nat \ {0}
    /\ MemTasks \cap RtTasks = {}
    /\ MaxTime \in Nat \ {0}

(***************************************************************************)
(* A gathering goroutine writes many entries, all from one reading. Two of *)
(* them, the first and the last, stand for them all.                       *)
(***************************************************************************)
Samples  == 1 .. MaxTime                                 \* a reading is the moment it was taken
NoSample == 0                                            \* nothing read yet

Kinds  == {"mem", "rt"}
Kind(t) == IF t \in MemTasks THEN "mem" ELSE "rt"
Table  == [Kinds -> [first : Samples \cup {NoSample}, last : Samples \cup {NoSample}]]
Empty  == [k \in Kinds |-> [first |-> NoSample, last |-> NoSample]]

VARIABLES
    now,        \* the moment
    ctx,        \* the context: live, or done after a signal
    poller,     \* the goroutine of agent.go:49
    reporter,   \* the goroutine of agent.go:70; its return closes the channel jobs
    jobs,       \* how many jobs wait in the channel (all are the same pointer)
    results,    \* how many results wait in the channel
    worker,     \* where each worker is
    task,       \* where each gathering goroutine is
    sample,     \* what it has read
    metrics,    \* Metrics.Metrics, the shared map
    list        \* the copy each worker publishes

goroutines == <<poller, reporter, worker, task>>
vars == <<now, ctx, poller, reporter, jobs, results, worker, task, sample, metrics, list>>

\* Type invariant: every goroutine is at one of its blocking points, and the
\* channels hold no more than their capacity.
TypeOK ==
    /\ now \in Samples
    /\ ctx \in {"live", "done"}
    /\ poller \in {"select", "returned"}
    /\ reporter \in {"select", "sending", "returned"}
    /\ jobs \in 0 .. NumJobs
    /\ results \in 0 .. NumJobs
    /\ worker \in [Workers -> {"select", "rlock", "publish", "send", "returned"}]
    /\ task \in [Tasks -> {"free", "read", "lock", "drain", "inside", "half"}]
    /\ sample \in [Tasks -> Samples \cup {NoSample}]
    /\ metrics \in Table
    /\ list \in [Workers -> Table]

Init ==
    /\ now = 1
    /\ ctx = "live"
    /\ poller = "select"
    /\ reporter = "select"
    /\ jobs = 0
    /\ results = 0
    /\ worker = [w \in Workers |-> "select"]
    /\ task = [t \in Tasks |-> "free"]
    /\ sample = [t \in Tasks |-> NoSample]
    /\ metrics = Empty
    /\ list = [w \in Workers |-> Empty]
----------------------------------------------------------------------------
(* Time, the signal and the poller *)

Tick ==
    /\ now < MaxTime
    /\ now' = now + 1
    /\ UNCHANGED <<ctx, goroutines, jobs, results, sample, metrics, list>>

Done == ctx = "done"

Cancel ==
    /\ ctx = "live"
    /\ ctx' = "done"
    /\ UNCHANGED <<now, goroutines, jobs, results, sample, metrics, list>>

\* requestMetrics takes its reading before it asks for the lock, requestMemoryMetrics
\* with the lock held.
EarlyReader_All(t) == TRUE                               \* fault: both before
EarlyReader(t) == t \in RtTasks

\* The poll timer fires: one goroutine of each kind starts, whether or not the
\* earlier ones are done.
Begin(t) == IF EarlyReader(t) THEN "read" ELSE "lock"

PollTick(m, t) ==
    /\ poller = "select"
    /\ task[m] = "free" /\ task[t] = "free"
    /\ task' = [task EXCEPT ![m] = Begin(m), ![t] = Begin(t)]
    /\ UNCHANGED <<now, ctx, poller, reporter, worker, jobs, results, sample, metrics, list>>

PollerReturns ==
    /\ poller = "select" /\ Done
    /\ poller' = "returned"
    /\ UNCHANGED <<now, ctx, reporter, worker, task, jobs, results, sample, metrics, list>>
----------------------------------------------------------------------------
(* Metrics.Mu, a sync.RWMutex: a writer first keeps out the other writers    *)
(* and the readers to come, then waits for the readers inside to leave.      *)

Writing(t) == task[t] \in {"drain", "inside", "half"}
Reading_ForEver(w) == worker[w] \in {"publish", "send", "returned"}  \* fault: no RUnlock
Reading(w) == worker[w] = "publish"

NoWriter_Assumed == TRUE                                 \* fault: the lock is not waited for
NoWriter == \A t \in Tasks : ~Writing(t)
NoReader == \A w \in Workers : ~Reading(w)

Read(t) ==
    /\ task[t] = "read"
    /\ task' = [task EXCEPT ![t] = "lock"]
    /\ sample' = [sample EXCEPT ![t] = now]
    /\ UNCHANGED <<now, ctx, poller, reporter, worker, jobs, results, metrics, list>>

Announce(t) ==
    /\ task[t] = "lock" /\ NoWriter
    /\ task' = [task EXCEPT ![t] = "drain"]
    /\ UNCHANGED <<now, ctx, poller, reporter, worker, jobs, results, sample, metrics, list>>

Enter(t) ==
    /\ task[t] = "drain" /\ NoReader
    /\ task' = [task EXCEPT ![t] = "inside"]
    /\ UNCHANGED <<now, ctx, poller, reporter, worker, jobs, results, sample, metrics, list>>

\* requestMemoryMetrics reads the system with the lock held; when that fails it
\* returns and leaves the map alone.
GatherFails(t) ==
    /\ t \in MemTasks /\ task[t] = "inside"
    /\ task' = [task EXCEPT ![t] = "free"]
    /\ sample' = [sample EXCEPT ![t] = NoSample]
    /\ UNCHANGED <<now, ctx, poller, reporter, worker, jobs, results, metrics, list>>

\* The first of the entries.
WriteFirst(t) ==
    /\ task[t] = "inside"
    /\ task' = [task EXCEPT ![t] = "half"]
    /\ LET s == IF EarlyReader(t) THEN sample[t] ELSE now
       IN  /\ sample' = [sample EXCEPT ![t] = s]
           /\ metrics' = [metrics EXCEPT ![Kind(t)].first = s]
    /\ UNCHANGED <<now, ctx, poller, reporter, worker, jobs, results, list>>

\* The last of the entries, the Unlock and the return.
WriteLast(t) ==
    /\ task[t] = "half"
    /\ task' = [task EXCEPT ![t] = "free"]
    /\ sample' = [sample EXCEPT ![t] = NoSample]
    /\ metrics' = [metrics EXCEPT ![Kind(t)].last = sample[t]]
    /\ UNCHANGED <<now, ctx, poller, reporter, worker, jobs, results, list>>
----------------------------------------------------------------------------
(* The reporter *)

ReportTick ==
    /\ reporter = "select"
    /\ reporter' = "sending"
    /\ UNCHANGED <<now, ctx, poller, worker, task, jobs, results, sample, metrics, list>>

RoomForJob_Always == TRUE                                \* fault: an unbounded channel
RoomForJob == jobs < NumJobs

\* jobs <- metrics: waits for room, and looks at nothing else while it waits.
SendJob ==
    /\ reporter = "sending" /\ RoomForJob
    /\ jobs' = jobs + 1
    /\ reporter' = "select"
    /\ UNCHANGED <<now, ctx, poller, worker, task, results, sample, metrics, list>>

\* err := <-results, which is logged.
DrainResult ==
    /\ reporter = "select" /\ results > 0
    /\ results' = results - 1
    /\ UNCHANGED <<now, ctx, goroutines, jobs, sample, metrics, list>>

ReporterReturns ==
    /\ reporter = "select" /\ Done
    /\ reporter' = "returned"
    /\ UNCHANGED <<now, ctx, poller, worker, task, jobs, results, sample, metrics, list>>
----------------------------------------------------------------------------
(* The workers *)

TakeJob(w) ==
    /\ worker[w] = "select" /\ jobs > 0
    /\ jobs' = jobs - 1
    /\ worker' = [worker EXCEPT ![w] = "rlock"]
    /\ UNCHANGED <<now, ctx, poller, reporter, task, results, sample, metrics, list>>

\* The context is done, or the channel is closed and empty.
WorkerLeaves(w) ==
    /\ worker[w] = "select"
    /\ Done \/ (reporter = "returned" /\ jobs = 0)
    /\ worker' = [worker EXCEPT ![w] = "returned"]
    /\ UNCHANGED <<now, ctx, poller, reporter, task, jobs, results, sample, metrics, list>>

\* publishMetrics takes the read lock, copies the map and calls the client.
BeginPublish(w) ==
    /\ worker[w] = "rlock" /\ NoWriter
    /\ worker' = [worker EXCEPT ![w] = "publish"]
    /\ list' = [list EXCEPT ![w] = metrics]
    /\ UNCHANGED <<now, ctx, poller, reporter, task, jobs, results, sample, metrics>>

\* The client returns, whatever became of the report; then the deferred RUnlock.
EndPublish(w) ==
    /\ worker[w] = "publish"
    /\ worker' = [worker EXCEPT ![w] = "send"]
    /\ UNCHANGED <<now, ctx, poller, reporter, task, jobs, results, sample, metrics, list>>

\* A worker returns after its first job: the return stands inside the loop.
AfterJob_Loops == "select"                               \* another form: the loop goes on
AfterJob == "returned"

SendResult(w) ==
    /\ worker[w] = "send" /\ results < NumJobs
    /\ results' = results + 1
    /\ worker' = [worker EXCEPT ![w] = AfterJob]
    /\ list' = [list EXCEPT ![w] = Empty]
    /\ UNCHANGED <<now, ctx, poller, reporter, task, jobs, sample, metrics>>
----------------------------------------------------------------------------
Gather(t)    == Read(t) \/ Announce(t) \/ Enter(t) \/ GatherFails(t) \/ WriteFirst(t)
                \/ WriteLast(t)
Poller       == PollerReturns \/ \E m \in MemTasks, t \in RtTasks : PollTick(m, t)
Reporter     == ReportTick \/ SendJob \/ DrainResult \/ ReporterReturns
WorkerSteps(w) == TakeJob(w) \/ WorkerLeaves(w) \/ BeginPublish(w) \/ SendResult(w)

Next ==
    \/ Tick \/ Cancel \/ Poller \/ Reporter
    \/ \E t \in Tasks : Gather(t)
    \/ \E w \in Workers : WorkerSteps(w) \/ EndPublish(w)

Spec == Init /\ [][Next]_vars

(***************************************************************************)
(* The scheduler runs what can run; the mutex queues its waiters and lets  *)
(* in the readers that wait when a writer leaves. Timers fire. Nothing is  *)
(* assumed of the signal, nor of EndPublish: the client sets no timeout.   *)
(***************************************************************************)
FairSpec ==
    /\ Spec
    /\ WF_vars(PollerReturns) /\ WF_vars(Reporter) /\ SF_vars(ReportTick)
    /\ \A t \in Tasks : WF_vars(Gather(t)) /\ SF_vars(Announce(t))
    /\ \A w \in Workers : WF_vars(WorkerSteps(w)) /\ SF_vars(BeginPublish(w))
----------------------------------------------------------------------------
(* Properties *)

\* A report never mixes two readings of one kind: gathering goroutines pile up
\* behind a slow publish and overtake one another, but none of them is halfway
\* through the map when it is copied.
NoTornReport ==
    \A w \in Workers : \A k \in Kinds : list[w][k].first = list[w][k].last

\* Gathering goroutines overtake one another at the lock, and an older reading of the
\* runtime may replace a newer one; but the memory's never goes back, in the map and so
\* in one report after another.
MemoryReadingsInOrder == [][metrics'["mem"].last >= metrics["mem"].last]_vars

\* A worker that has a result to deliver never waits for the reporter, which may
\* be gone, as long as RateLimit does not exceed the channel's capacity.
Published == {w \in Workers : worker[w] = "returned"}
Delivering == {w \in Workers : worker[w] = "send"}
RoomForResults == Delivering # {} => results < NumJobs

\* Each of the two ways the agent can be stuck: the reporter waits for room in a
\* channel nobody empties, or workers wait for a reporter that has returned.
ReporterStuck ==
    reporter = "sending" /\ jobs = NumJobs /\ \A w \in Workers : worker[w] # "select"
WorkersStuck == reporter = "returned" /\ results = NumJobs /\ Delivering # {}

\* Once stuck, for ever stuck: no signal and no answer of the server frees it.
StaysStuck == [][(ReporterStuck => ReporterStuck') /\ (WorkersStuck => WorkersStuck')]_vars

Terminated ==
    /\ poller = "returned" /\ reporter = "returned"
    /\ \A w \in Workers : worker[w] = "returned"
    /\ \A t \in Tasks : task[t] = "free"

PublishHangs == \E w \in Workers : <>[](worker[w] = "publish")

\* After a signal every goroutine returns and so does runner.Wait, unless a publish
\* hangs or the agent is stuck in one of the two ways above.
ShutdownUnlessStuck ==
    ~PublishHangs => (ctx = "done" ~> (Terminated \/ ReporterStuck \/ WorkersStuck))

\* A gathering goroutine gets its turn at the map, unless a publish hangs.
GatherEnds == ~PublishHangs => \A t \in Tasks : task[t] # "free" ~> task[t] = "free"

\* config.go:61: reports are sent at an interval. While the agent runs, there is
\* always another report.
KeepsReporting == []<>(ctx = "done" \/ \E w \in Workers : worker[w] = "publish")
=============================================================================
