---------------------------- MODULE AgentProofs ----------------------------
(***************************************************************************)
(* What holds of Agent for any number of workers and gathering goroutines  *)
(* and any capacity of the channels.                                       *)
(***************************************************************************)
EXTENDS Agent, FiniteSetTheorems, TLAPS

LEMMA InitType == Init => TypeOK
  BY AgentAssumption DEF Init, TypeOK, Empty, Table, Samples, NoSample

LEMMA GatherType == ASSUME TypeOK, NEW t \in Tasks, Gather(t) PROVE TypeOK'
<1>1. CASE Read(t) \/ Announce(t) \/ Enter(t) \/ GatherFails(t)
  BY <1>1 DEF TypeOK, Read, Announce, Enter, GatherFails
<1>2. CASE WriteFirst(t)
  <2>1. PICK s \in Samples \cup {NoSample} :
          /\ sample' = [sample EXCEPT ![t] = s]
          /\ metrics' = [metrics EXCEPT ![Kind(t)].first = s]
    BY <1>2 DEF WriteFirst, TypeOK
  <2>2. Kind(t) \in Kinds
    BY DEF Kind, Kinds
  <2>3. metrics' \in Table
    BY <2>1, <2>2 DEF TypeOK, Table
  <2>. QED
    BY <1>2, <2>1, <2>3 DEF TypeOK, WriteFirst
<1>3. CASE WriteLast(t)
  <2>1. Kind(t) \in Kinds
    BY DEF Kind, Kinds
  <2>2. metrics' \in Table
    BY <1>3, <2>1 DEF TypeOK, Table, WriteLast
  <2>. QED
    BY <1>3, <2>2 DEF TypeOK, WriteLast
<1>. QED
  BY <1>1, <1>2, <1>3 DEF Gather

LEMMA WorkerType ==
  ASSUME TypeOK, NEW w \in Workers, WorkerSteps(w) \/ EndPublish(w) PROVE TypeOK'
<1>1. CASE TakeJob(w) \/ WorkerLeaves(w) \/ EndPublish(w)
  BY <1>1, AgentAssumption DEF TypeOK, TakeJob, WorkerLeaves, EndPublish
<1>2. CASE BeginPublish(w)
  BY <1>2 DEF TypeOK, BeginPublish
<1>3. CASE SendResult(w)
  <2>1. Empty \in Table
    BY DEF Empty, Table
  <2>. QED
    BY <1>3, <2>1, AgentAssumption DEF TypeOK, SendResult, AfterJob
<1>. QED
  BY <1>1, <1>2, <1>3 DEF WorkerSteps

LEMMA LoopType == ASSUME TypeOK, Tick \/ Cancel \/ Poller \/ Reporter PROVE TypeOK'
<1>0. CASE Tick
  BY <1>0, AgentAssumption DEF TypeOK, Tick, goroutines, Samples
<1>1. CASE Cancel
  BY <1>1 DEF TypeOK, Cancel, goroutines
<1>2. CASE Poller
  BY <1>2 DEF TypeOK, Poller, PollerReturns, PollTick, Begin, Tasks
<1>3. CASE Reporter
  BY <1>3, AgentAssumption
     DEF TypeOK, Reporter, ReportTick, SendJob, RoomForJob, DrainResult, ReporterReturns, goroutines
<1>. QED
  BY <1>0, <1>1, <1>2, <1>3

LEMMA NextType == TypeOK /\ [Next]_vars => TypeOK'
<1>1. CASE UNCHANGED vars
  BY <1>1 DEF TypeOK, vars, goroutines
<1>2. CASE Next
  BY <1>2, GatherType, WorkerType, LoopType DEF Next
<1>. QED
  BY <1>1, <1>2

\* Type correctness: the channels never hold more than their capacity.
THEOREM TypeCorrect == Spec => []TypeOK
  BY InitType, NextType, PTL DEF Spec
----------------------------------------------------------------------------
(***************************************************************************)
(* No torn report. The reports are whole because the map is whole whenever *)
(* no gathering goroutine is halfway through it, and at most one of them   *)
(* is past Announce, and none is inside while a worker reads.              *)
(***************************************************************************)

OneWriter  == \A t, u \in Tasks : Writing(t) /\ Writing(u) => t = u
NoMix      == \A t \in Tasks : task[t] \in {"inside", "half"} => NoReader
MapWhole   == \A k \in Kinds :
                metrics[k].first = metrics[k].last \/ \E t \in Tasks : task[t] = "half" /\ Kind(t) = k
HalfWritten == \A t \in Tasks : task[t] = "half" => metrics[Kind(t)].first = sample[t]

WholeInv == TypeOK /\ OneWriter /\ NoMix /\ MapWhole /\ HalfWritten /\ NoTornReport

LEMMA InitWhole == Init => WholeInv
  BY InitType DEF Init, WholeInv, OneWriter, NoMix, MapWhole, HalfWritten, NoTornReport,
                  Writing, Empty

LEMMA GatherWhole == ASSUME WholeInv, NEW t \in Tasks, Gather(t) PROVE WholeInv'
<1>0. TypeOK' /\ NoTornReport' /\ (NoReader' <=> NoReader)
  BY GatherType DEF WholeInv, NoTornReport, NoReader, Reading, Gather, Read, Announce, Enter,
                    GatherFails, WriteFirst, WriteLast
<1>6. CASE Read(t)
  BY <1>0, <1>6 DEF WholeInv, TypeOK, OneWriter, NoMix, MapWhole, HalfWritten, Writing, Read
<1>1. CASE Announce(t)
  BY <1>0, <1>1 DEF WholeInv, TypeOK, OneWriter, NoMix, MapWhole, HalfWritten, Writing,
                    NoWriter, Announce
<1>2. CASE Enter(t)
  BY <1>0, <1>2 DEF WholeInv, TypeOK, OneWriter, NoMix, MapWhole, HalfWritten, Writing, Enter
<1>3. CASE GatherFails(t)
  BY <1>0, <1>3 DEF WholeInv, TypeOK, OneWriter, NoMix, MapWhole, HalfWritten, Writing, GatherFails
<1>4. CASE WriteFirst(t)
  <2>1. PICK s : /\ sample' = [sample EXCEPT ![t] = s]
                 /\ metrics' = [metrics EXCEPT ![Kind(t)].first = s]
    BY <1>4 DEF WriteFirst
  <2>2. task' = [task EXCEPT ![t] = "half"] /\ task[t] = "inside"
    BY <1>4 DEF WriteFirst
  <2>3. OneWriter' /\ NoMix'
    BY <1>0, <2>2 DEF WholeInv, TypeOK, OneWriter, NoMix, Writing
  <2>4. \A u \in Tasks \ {t} : task[u] # "half"
    BY <2>2 DEF WholeInv, OneWriter, Writing
  <2>5. Kind(t) \in Kinds
    BY DEF Kind, Kinds
  <2>6. MapWhole'
    BY <2>1, <2>2, <2>4, <2>5 DEF WholeInv, TypeOK, Table, MapWhole
  <2>7. HalfWritten'
    BY <2>1, <2>2, <2>4, <2>5 DEF WholeInv, TypeOK, Table, HalfWritten
  <2>. QED
    BY <1>0, <2>3, <2>6, <2>7 DEF WholeInv
<1>5. CASE WriteLast(t)
  <2>1. task' = [task EXCEPT ![t] = "free"] /\ task[t] = "half"
        /\ sample' = [sample EXCEPT ![t] = NoSample]
        /\ metrics' = [metrics EXCEPT ![Kind(t)].last = sample[t]]
    BY <1>5 DEF WriteLast
  <2>2. OneWriter' /\ NoMix'
    BY <1>0, <2>1 DEF WholeInv, TypeOK, OneWriter, NoMix, Writing
  <2>3. \A u \in Tasks \ {t} : task[u] # "half"
    BY <2>1 DEF WholeInv, OneWriter, Writing
  <2>4. Kind(t) \in Kinds
    BY DEF Kind, Kinds
  <2>5. MapWhole'
    BY <2>1, <2>3, <2>4 DEF WholeInv, TypeOK, Table, MapWhole, HalfWritten
  <2>6. HalfWritten'
    BY <2>1, <2>3 DEF WholeInv, TypeOK, HalfWritten
  <2>. QED
    BY <1>0, <2>2, <2>5, <2>6 DEF WholeInv
<1>. QED
  BY <1>1, <1>2, <1>3, <1>4, <1>5, <1>6 DEF Gather

LEMMA WorkerWhole ==
  ASSUME WholeInv, NEW w \in Workers, WorkerSteps(w) \/ EndPublish(w) PROVE WholeInv'
<1>0. TypeOK' /\ task' = task /\ sample' = sample /\ metrics' = metrics
  BY WorkerType DEF WholeInv, WorkerSteps, TakeJob, WorkerLeaves, BeginPublish, SendResult, EndPublish
<1>1. OneWriter' /\ MapWhole' /\ HalfWritten'
  BY <1>0 DEF WholeInv, OneWriter, MapWhole, HalfWritten, Writing
<1>2. CASE BeginPublish(w)
  <2>1. \A t \in Tasks : ~Writing(t)
    BY <1>2 DEF BeginPublish, NoWriter
  <2>2. \A k \in Kinds : metrics[k].first = metrics[k].last
    BY <2>1 DEF WholeInv, MapWhole, Writing
  <2>3. NoTornReport'
    BY <1>2, <2>2 DEF WholeInv, TypeOK, NoTornReport, BeginPublish
  <2>4. NoMix'
    BY <1>0, <2>1 DEF NoMix, Writing
  <2>. QED
    BY <1>0, <1>1, <2>3, <2>4 DEF WholeInv
<1>3. CASE TakeJob(w) \/ WorkerLeaves(w) \/ EndPublish(w)
  BY <1>0, <1>1, <1>3 DEF WholeInv, TypeOK, NoMix, NoReader, Reading, NoTornReport,
                          TakeJob, WorkerLeaves, EndPublish
<1>4. CASE SendResult(w)
  BY <1>0, <1>1, <1>4 DEF WholeInv, TypeOK, NoMix, NoReader, Reading, NoTornReport,
                          SendResult, AfterJob, Empty
<1>. QED
  BY <1>2, <1>3, <1>4 DEF WorkerSteps

LEMMA LoopWhole == ASSUME WholeInv, Tick \/ Cancel \/ Poller \/ Reporter PROVE WholeInv'
<1>0. TypeOK'
  BY LoopType DEF WholeInv
<1>1. CASE Tick \/ Cancel \/ PollerReturns \/ Reporter
  BY <1>0, <1>1 DEF WholeInv, OneWriter, NoMix, MapWhole, HalfWritten, NoTornReport, Writing,
                    NoReader, Reading, Tick, Cancel, PollerReturns, Reporter, ReportTick, SendJob, RoomForJob,
                    DrainResult, ReporterReturns, goroutines
<1>2. ASSUME NEW m \in MemTasks, NEW t \in RtTasks, PollTick(m, t) PROVE WholeInv'
  <2>1. m \in Tasks /\ t \in Tasks /\ worker' = worker /\ metrics' = metrics /\ list' = list
    BY <1>2 DEF PollTick, Tasks
  <2>2. \A u \in Tasks : \/ task'[u] = task[u] /\ sample'[u] = sample[u]
                         \/ task[u] = "free" /\ task'[u] \in {"read", "lock"}
    BY <1>2, <2>1 DEF PollTick, Begin, WholeInv, TypeOK
  <2>3. OneWriter' /\ NoMix' /\ HalfWritten' /\ NoTornReport'
    BY <2>1, <2>2 DEF WholeInv, OneWriter, NoMix, HalfWritten, NoTornReport, Writing, NoReader, Reading
  <2>4. MapWhole'
    BY <2>1, <2>2 DEF WholeInv, MapWhole
  <2>. QED
    BY <1>0, <2>3, <2>4 DEF WholeInv
<1>. QED
  BY <1>1, <1>2 DEF Poller

LEMMA NextWhole == WholeInv /\ [Next]_vars => WholeInv'
<1>1. CASE UNCHANGED vars
  BY <1>1 DEF WholeInv, TypeOK, OneWriter, NoMix, MapWhole, HalfWritten, NoTornReport,
              Writing, NoReader, Reading, vars, goroutines
<1>2. CASE Next
  BY <1>2, GatherWhole, WorkerWhole, LoopWhole DEF Next
<1>. QED
  BY <1>1, <1>2

LEMMA WholeAlways == Spec => []WholeInv
  BY InitWhole, NextWhole, PTL DEF Spec

\* Reports are whole, however many gathering goroutines wait for the map.
THEOREM ReportsAreWhole == Spec => []NoTornReport
<1>1. WholeInv => NoTornReport
  BY DEF WholeInv
<1>. QED
  BY <1>1, WholeAlways, PTL
----------------------------------------------------------------------------
(***************************************************************************)
(* Readings in order. What the map holds was read in the past, and the     *)
(* goroutine that is halfway through its entries of the memory read them   *)
(* with the lock held, after whatever is in the map.                       *)
(***************************************************************************)

MemRead == metrics["mem"].last

InOrder ==
    /\ MemRead <= now
    /\ \A t \in MemTasks : task[t] = "half" => MemRead <= sample[t] /\ sample[t] <= now

OrderInv == TypeOK /\ OneWriter /\ InOrder

LEMMA MemKind == "mem" \in Kinds /\ \A t \in Tasks : Kind(t) \in Kinds /\ (Kind(t) = "mem" <=> t \in MemTasks)
  BY DEF Kinds, Kind

\* A step of a gathering goroutine leaves the order, and the map's reading does not fall.
LEMMA GatherOrder ==
  ASSUME OrderInv, OneWriter', TypeOK', NEW t \in Tasks, Gather(t)
  PROVE  InOrder' /\ MemRead' >= MemRead
<1>0. now' = now /\ now \in Int /\ MemRead \in Int /\ MemRead' \in Int
      /\ \A u \in Tasks : sample[u] \in Int
  BY MemKind, AgentAssumption
     DEF OrderInv, TypeOK, Table, MemRead, Samples, NoSample, Gather, Read, Announce, Enter,
         GatherFails, WriteFirst, WriteLast
<1>1. CASE Read(t) \/ Announce(t) \/ Enter(t) \/ GatherFails(t)
  <2>1. MemRead' = MemRead
    BY <1>1 DEF MemRead, Read, Announce, Enter, GatherFails
  <2>2. \A u \in Tasks : task'[u] = "half" => task[u] = "half" /\ sample'[u] = sample[u]
    BY <1>1 DEF OrderInv, TypeOK, Read, Announce, Enter, GatherFails
  <2>. QED
    BY <1>0, <2>1, <2>2 DEF OrderInv, InOrder, Tasks
<1>2. CASE WriteFirst(t)
  <2>1. MemRead' = MemRead
    BY <1>2, MemKind DEF WriteFirst, MemRead, OrderInv, TypeOK, Table
  <2>2. t \in MemTasks => sample'[t] = now
    BY <1>2, AgentAssumption DEF WriteFirst, EarlyReader, OrderInv, TypeOK
  <2>3. \A u \in Tasks \ {t} : task'[u] = task[u] /\ sample'[u] = sample[u]
    BY <1>2 DEF WriteFirst, OrderInv, TypeOK
  <2>. QED
    BY <1>0, <2>1, <2>2, <2>3 DEF OrderInv, InOrder, Tasks
<1>3. CASE WriteLast(t)
  <2>1. \A u \in Tasks : task'[u] # "half"
    BY <1>3 DEF WriteLast, OrderInv, TypeOK, OneWriter, Writing
  <2>2. \/ t \in MemTasks /\ MemRead' = sample[t] /\ task[t] = "half"
        \/ MemRead' = MemRead
    BY <1>3, MemKind DEF WriteLast, MemRead, OrderInv, TypeOK, Table
  <2>. QED
    BY <1>0, <2>1, <2>2 DEF OrderInv, InOrder, Tasks
<1>. QED
  BY <1>1, <1>2, <1>3 DEF Gather

\* Nobody else touches the map, and time only goes on.
LEMMA OtherOrder ==
  ASSUME OrderInv, TypeOK', [Next]_vars, \A t \in Tasks : ~Gather(t)
  PROVE  InOrder' /\ MemRead' >= MemRead
<1>1. metrics' = metrics /\ sample' = sample /\ (now' = now \/ now' = now + 1)
  BY DEF Next, vars, goroutines, Tick, Cancel, Poller, PollerReturns, PollTick, Reporter,
         ReportTick, SendJob, DrainResult, ReporterReturns, WorkerSteps, TakeJob, WorkerLeaves,
         BeginPublish, SendResult, EndPublish
<1>2. ASSUME NEW m \in MemTasks, NEW t \in RtTasks, PollTick(m, t), NEW u \in Tasks
      PROVE  task'[u] = "half" => task[u] = "half"
  BY <1>2 DEF PollTick, Begin, OrderInv, TypeOK, Tasks
<1>3. \A u \in Tasks : task'[u] = "half" => task[u] = "half"
  <2>1. CASE task' = task
    BY <2>1
  <2>2. CASE \E m \in MemTasks, t \in RtTasks : PollTick(m, t)
    BY <1>2, <2>2
  <2>3. task' = task \/ \E m \in MemTasks, t \in RtTasks : PollTick(m, t)
    BY DEF Next, vars, goroutines, Tick, Cancel, Poller, PollerReturns, Reporter,
           ReportTick, SendJob, DrainResult, ReporterReturns, WorkerSteps, TakeJob, WorkerLeaves,
           BeginPublish, SendResult, EndPublish
  <2>. QED
    BY <2>1, <2>2, <2>3
<1>4. now \in Int /\ MemRead \in Int /\ \A u \in Tasks : sample[u] \in Int
  BY MemKind, AgentAssumption DEF OrderInv, TypeOK, Table, MemRead, Samples, NoSample
<1>. QED
  BY <1>1, <1>3, <1>4 DEF OrderInv, InOrder, MemRead, Tasks

\* The memory's readings never go back, however many goroutines wait for the map.
THEOREM ReadingsInOrder == Spec => MemoryReadingsInOrder
<1>1. Init => InOrder
  BY AgentAssumption, MemKind DEF Init, InOrder, MemRead, Empty, NoSample, Tasks
<1>2. WholeInv /\ InOrder /\ [Next]_vars /\ WholeInv' => InOrder' /\ MemRead' >= MemRead
  BY GatherOrder, OtherOrder DEF WholeInv, OrderInv
<1>3. WholeInv /\ InOrder /\ [Next]_vars /\ WholeInv'
        => InOrder' /\ [metrics'["mem"].last >= metrics["mem"].last]_vars
  BY <1>2 DEF MemRead
<1>. QED
  BY <1>1, <1>3, WholeAlways, InitWhole, PTL DEF Spec, MemoryReadingsInOrder
----------------------------------------------------------------------------
(***************************************************************************)
(* Room for results. Every result in the channel comes from a worker that  *)
(* has returned, and a worker with a result to deliver has not.            *)
(***************************************************************************)

RoomInv == TypeOK /\ results <= Cardinality(Published)

LEMMA PublishedFinite ==
  /\ IsFiniteSet(Published) /\ Cardinality(Published) \in Nat
  /\ Cardinality(Published) <= Cardinality(Workers)
  BY AgentAssumption, FS_Subset, FS_CardinalityType DEF Published

\* A worker that returns is one more.
LEMMA OneMoreReturned ==
  ASSUME TypeOK, NEW w \in Workers, worker[w] # "returned",
         worker' = [worker EXCEPT ![w] = "returned"]
  PROVE  Cardinality(Published') = Cardinality(Published) + 1
<1>1. Published' = Published \cup {w} /\ w \notin Published
  BY DEF Published, TypeOK
<1>. QED
  BY <1>1, PublishedFinite, FS_AddElement

LEMMA NextRoom == RoomInv /\ [Next]_vars => RoomInv'
<1>. SUFFICES ASSUME RoomInv, [Next]_vars PROVE results' <= Cardinality(Published')
  BY NextType DEF RoomInv
<1>1. ASSUME NEW w \in Workers, SendResult(w) PROVE results' <= Cardinality(Published')
  <2>1. Cardinality(Published') = Cardinality(Published) + 1
    BY <1>1, OneMoreReturned DEF RoomInv, SendResult, AfterJob
  <2>. QED
    BY <1>1, <2>1, PublishedFinite DEF RoomInv, TypeOK, SendResult
<1>2. ASSUME NEW w \in Workers, WorkerLeaves(w) PROVE results' <= Cardinality(Published')
  <2>1. Cardinality(Published') = Cardinality(Published) + 1
    BY <1>2, OneMoreReturned DEF RoomInv, WorkerLeaves
  <2>. QED
    BY <1>2, <2>1, PublishedFinite DEF RoomInv, TypeOK, WorkerLeaves
<1>3. ASSUME NEW w \in Workers, TakeJob(w) \/ BeginPublish(w) \/ EndPublish(w)
      PROVE  results' <= Cardinality(Published')
  <2>1. Published' = Published /\ results' = results
    BY <1>3 DEF RoomInv, TypeOK, Published, TakeJob, BeginPublish, EndPublish
  <2>. QED
    BY <2>1 DEF RoomInv
<1>4. ASSUME \/ UNCHANGED vars \/ Tick \/ Cancel \/ Poller \/ Reporter \/ \E t \in Tasks : Gather(t)
      PROVE  results' <= Cardinality(Published')
  <2>1. worker' = worker
    BY <1>4 DEF vars, goroutines, Tick, Cancel, Poller, PollerReturns, PollTick, Reporter, ReportTick,
                SendJob, RoomForJob, DrainResult, ReporterReturns, Gather, Read, Announce, Enter, GatherFails,
                WriteFirst, WriteLast
  <2>2. results' = results \/ results' = results - 1
    BY <1>4 DEF vars, goroutines, Tick, Cancel, Poller, PollerReturns, PollTick, Reporter, ReportTick,
                SendJob, RoomForJob, DrainResult, ReporterReturns, Gather, Read, Announce, Enter, GatherFails,
                WriteFirst, WriteLast
  <2>3. Published' = Published
    BY <2>1 DEF Published
  <2>. QED
    BY <2>2, <2>3, PublishedFinite DEF RoomInv, TypeOK
<1>. QED
  BY <1>1, <1>2, <1>3, <1>4 DEF Next, WorkerSteps

LEMMA InitRoom == Init => RoomInv
<1>. SUFFICES ASSUME Init PROVE results <= Cardinality(Published)
  BY InitType DEF RoomInv
<1>. QED
  BY PublishedFinite DEF Init

\* A worker never waits for a reporter that has returned, as long as RateLimit is at
\* most the capacity of the channel. The default for both is 1024.
THEOREM ResultsNeverBlock ==
  ASSUME Cardinality(Workers) <= NumJobs PROVE Spec => []RoomForResults
<1>1. ASSUME RoomInv PROVE RoomForResults
  <2>. SUFFICES ASSUME NEW w \in Delivering PROVE results < NumJobs
    BY DEF RoomForResults
  <2>1. w \in Workers /\ w \notin Published
    BY DEF Delivering, Published
  <2>2. Published \subseteq Workers /\ Published # Workers
    BY <2>1 DEF Published
  <2>3. Cardinality(Published) < Cardinality(Workers)
    <3>1. Cardinality(Published) <= Cardinality(Workers)
      BY PublishedFinite
    <3>2. Cardinality(Published) # Cardinality(Workers)
      BY <2>2, AgentAssumption, FS_Subset
    <3>. QED
      BY <3>1, <3>2, PublishedFinite, AgentAssumption, FS_CardinalityType
  <2>. QED
    BY <1>1, <2>3, PublishedFinite, AgentAssumption, FS_CardinalityType DEF RoomInv, TypeOK
<1>2. RoomInv => RoomForResults
  BY <1>1
<1>. QED
  BY <1>2, InitRoom, NextRoom, PTL DEF Spec
----------------------------------------------------------------------------
\* A stuck agent stays stuck: it can only be killed.
THEOREM StuckForEver == Spec => StaysStuck
<1>1. ASSUME TypeOK, [Next]_vars, ReporterStuck PROVE ReporterStuck'
  <2>1. CASE UNCHANGED vars
    BY <1>1, <2>1 DEF ReporterStuck, vars, goroutines
  <2>2. CASE Tick \/ Cancel \/ Poller \/ Reporter
    BY <1>1, <2>2, AgentAssumption
       DEF ReporterStuck, TypeOK, Tick, Cancel, Poller, PollerReturns, PollTick, Reporter, ReportTick,
           SendJob, RoomForJob, DrainResult, ReporterReturns, goroutines
  <2>3. ASSUME NEW t \in Tasks, Gather(t) PROVE ReporterStuck'
    BY <1>1, <2>3 DEF ReporterStuck, Gather, Read, Announce, Enter, GatherFails, WriteFirst, WriteLast
  <2>4. ASSUME NEW w \in Workers, WorkerSteps(w) \/ EndPublish(w) PROVE ReporterStuck'
    BY <1>1, <2>4 DEF ReporterStuck, TypeOK, WorkerSteps, TakeJob, WorkerLeaves, BeginPublish,
                      EndPublish, SendResult, AfterJob
  <2>. QED
    BY <1>1, <2>1, <2>2, <2>3, <2>4 DEF Next
<1>2. ASSUME TypeOK, [Next]_vars, WorkersStuck PROVE WorkersStuck'
  <2>1. CASE UNCHANGED vars \/ Tick \/ Cancel \/ Poller \/ Reporter
    BY <1>2, <2>1
       DEF WorkersStuck, Delivering, vars, goroutines, Tick, Cancel, Poller, PollerReturns, PollTick,
           Reporter, ReportTick, SendJob, RoomForJob, DrainResult, ReporterReturns
  <2>2. ASSUME NEW t \in Tasks, Gather(t) PROVE WorkersStuck'
    BY <1>2, <2>2 DEF WorkersStuck, Delivering, Gather, Read, Announce, Enter, GatherFails, WriteFirst,
                      WriteLast
  <2>3. ASSUME NEW w \in Workers, WorkerSteps(w) \/ EndPublish(w) PROVE WorkersStuck'
    <3>1. ~SendResult(w)
      BY <1>2, AgentAssumption DEF WorkersStuck, SendResult, TypeOK
    <3>2. PICK u \in Workers : worker[u] = "send"
      BY <1>2 DEF WorkersStuck, Delivering
    <3>3. worker'[u] = "send" /\ reporter' = reporter /\ results' = results
      BY <1>2, <2>3, <3>1, <3>2
         DEF TypeOK, WorkerSteps, TakeJob, WorkerLeaves, BeginPublish, EndPublish
    <3>. QED
      BY <1>2, <3>3 DEF WorkersStuck, Delivering
  <2>. QED
    BY <1>2, <2>1, <2>2, <2>3 DEF Next
<1>3. TypeOK /\ [Next]_vars =>
        [(ReporterStuck => ReporterStuck') /\ (WorkersStuck => WorkersStuck')]_vars
  BY <1>1, <1>2
<1>. QED
  BY <1>3, TypeCorrect, PTL DEF Spec, StaysStuck
=============================================================================
