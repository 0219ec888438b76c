# Verification of the metrics harvester

The harvester is two programs. The **agent** reads figures of the machine it runs on
and reports them at an interval; the **server** keeps the last value of every gauge and
the sum of every counter, in memory with a snapshot file or in Postgres, and answers
queries over HTTP and gRPC. This directory holds TLA+ models of both, the TLC
configurations that check them, and theorems about them that TLAPS has checked.

    tlasany M.tla                        parse a module
    tlc -workers 2 -config X.cfg M       check a run (PROJECT.json lists module and cfg)
    tlapm MProofs.tla                    check the proofs of a module

`PROJECT.json` ties every definition to the lines it models, every property to a run
and to a small fault of the code that it catches, and every hazard to the properties
aimed at it.

## 1. The system

| Part | State | Operations | Talks to |
|---|---|---|---|
| `internal/agent` | the shared map of metrics behind an RWMutex; channels `jobs` and `results` (1024 each); the context | poll tick (two gathering goroutines), report tick, worker: copy the map and publish | the clients, through `Publisher` |
| `internal/httpclient`, `internal/grpclient`, `pkg/retry` | settings only | `Publish`: seal the report, three attempts with pauses of 1, 3 and 5 s | the server, over the network |
| `internal/middleware`, `hash`, `compress`, `crypto`, `subnet` | keys | check the signature, gunzip, check the subnet, decrypt | wrap the handlers |
| `internal/server/handlers.go`, `internal/grpc/metrics` | none | update one or many, get, list, ping | `metric/service` |
| `internal/metric/service` | none | validation; `SaveToFile` | a storage |
| `internal/storage/memory` | the map and its RWMutex | `Set`, `Update`, `Get`, `List`, `Persist`, `NewFrom` | the snapshot file |
| `internal/storage/postgres` | the table `metric` | the same | the database |
| `cmd/server`, `server.Run`, `grpc.Run` | the errgroup and its context; the snapshot file | restore at start, two listeners, two save loops, stop on a signal | all of the above |
| `config.go` (both) | settings | `NewConfig`: defaults, flags, environment, file; normalises addresses, picks a temporary file | read once by either `main` |
| `logger`, `staticlint`, generated code | – | – | – |

What is hard about it:

* **Concurrency.** Every request runs in its own goroutine on one map; gathering
  goroutines pile up without limit behind a slow publish, which runs under the read
  lock; saves are started by two loops or by any number of requests.
* **Failure in the middle.** A nil pointer in a batch panics with the lock held; a
  crash cuts a save in half; one server's failure cancels the context of the other.
* **Ordering and stale state.** `updateHandlerJSON` reads back in a second call;
  copies share their delta's cell with the map; transactions lock rows in whichever
  order Go's map iteration gave the agent's list.
* **Unreliable delivery.** A report is sent again after an error, whether or not it
  was counted, and the server may have crashed and started again in between.
* **Restarts.** Whether and what a start restores depends on four settings, the size of
  a file and, on Postgres, on rows it deletes first.
* **Settings.** Four sources override one another field by field, and the two programs
  normalise the same address in opposite directions.
* **Limits.** Two bounded channels whose reader and writer can both be gone; int64
  sums that wrap in memory and fail in Postgres.

What makes each part correct:

* storage: a batch is indivisible for everybody else; entries keep their type; every
  call ends; a listing shows one moment (gauges; see 3.1 for counters);
* agent: a report is one state of the map; goroutines neither block nor leak; the
  agent stops on a signal;
* snapshot: a save never goes backwards; what was saved survives; every update is
  saved some time; a server serves only what was saved in full;
* start and stop: the table goes on from what the settings say is kept, never from more
  and never from an older save;
* delivery: what is stored is what was sent; nothing counts twice without an error;
  Publish ends unless it waits for ever, and a success means something, also after a crash;
* settings: the same address given to both sides joins them.

## 2. Modules

    Metric            data, validation, the merge of one metric
      Registry        abstract: a table that changes by whole batches
      MemStorage      requests on the in-memory storage, step by step under the lock
        MCMemStorage  TLC instance
        MemStorageProofs
      PgStorage       the same calls on Postgres
        MCPgStorage, PgStorageProofs
    Agent             poller, gatherers, reporter, workers, channels, lock, shutdown
      MCAgent, AgentProofs
    Config            pure: NewConfig of both programs, where a table is kept, who reaches whom
      Envelope        pure: what client and middleware do to a request
        Delivery      attempts, lossy network, a server that crashes and restarts
          MCDelivery, DeliveryProofs
        EnvelopeProofs  what is sealed is opened; used by DeliveryProofs
      Persistence     save loops, snapshot file or Postgres, crash, stop, start
        MCPersistence, PersistenceProofs
    Durable           abstract: a table that is saved, and goes on from what was kept
    Loops             lemmas: a fold over a sequence is a loop of one turn per element

`MemStorage` and `PgStorage` are both built on `Metric`; `Delivery` on `Envelope`; `Delivery`
and `Persistence` run under the settings that `Config` makes. Two abstract specifications
carry the links between the others:

* because `MemStorage` implements `Registry`, and `PgStorage` commits whole batches, a table of
  `Persistence` may be a version number (how many batches came before) and one of
  `Delivery` a count per report;
* because `Persistence` implements `Durable`, with its locks, half-written files and two
  phases of a start, `Delivery` may save and restart in one step each; `ServerIsDurable`
  shows that it does nothing that `Durable` forbids.

All three refinements are proved, for any number of requests, savers and reports.

`Agent` reduces `Publish` to a begin and an end, and `Delivery` is what happens in between.

Conventions: an action is one step a goroutine makes between two points where
another could act. Operators named `X_Something` with a comment "fault:" are `X` with a
small mistake; no action uses them, and PROJECT.json says which property catches each.

## 3. Modules and code

### 3.1 Metric, Registry, MemStorage

`Metric` is one metric with its two pointers; `Nil` is the nil pointer. `Add64` is addition of
int64 with `Modulus` in place of 2^64. `Merge` is what `Set` and `Update` make of an entry
and a metric, `Panics` when they follow a nil pointer, `Valid` and `Malformed` the
checks of the service and of `Set`. A request may name a type that there is not; that no such
metric, and none under another's name, ever gets into a table is part of both storages' type
invariant (`NamedAndTyped`).

| Model | Code |
|---|---|
| `storage`, `mu` | the map and the RWMutex of `memory.Storage`. A reader is a holder too when it loops over the map; `Get` needs one step only |
| `pc`, `call`, `todo`, `left`, `view` | the goroutine of a request: where it is, what it was asked, the rest of its batch, the names its listing has not reached, the entries it copied |
| `Receive` | decode and validate; `updateHandler` parses its value here |
| `LockWrite`, `Apply`, `UnlockWrite` | `Set` and `Update`; one `Apply` per turn of the loop |
| `RefuseMalformed`, `Panic` | the two other ways out |
| `LockList`, `CopyOne`, `UnlockList` | `List` |
| `GetFound`, `GetMissing` | `Get`, also as the second half of `updateHandlerJSON` |
| `Render` | the answer, written after the lock was released |

Two things follow the code closely. A copied metric shares its delta's cell with the map,
so an answer shows counters as they are when it is written, not as they were when they
were copied: `Shown`. `ListedTogether` is therefore about gauges, and `CellFixed` says why
the sharing is harmless otherwise. A panic is recovered by `net/http` but by nothing in
the gRPC server, where it ends the process: `alive`.

`RefuseMalformed` needs the lock only for an instant, as the code does. Readers exclude one
another in the model, which the RWMutex does not demand; since neither of two readers
writes, every outcome of overlapping readers is an outcome of readers in turn, except how
long they wait.

`Registry` is the abstract specification: a table to which a whole batch, or the part of
it before a metric that panics, is applied in one step. The mapping (`Promised`)
lets a batch take effect when its writer takes the lock.

### 3.2 Agent

| Model | Code |
|---|---|
| `PollTick`, `PollerReturns` | the goroutine at agent.go:49 |
| `Read`, `Announce`, `Enter`, `WriteFirst`, `WriteLast`, `GatherFails` | `requestMetrics`, `requestMemoryMetrics`: the two stages of `RWMutex.Lock`, the loop over the entries, the early return |
| `ReportTick`, `SendJob`, `DrainResult`, `ReporterReturns` | the goroutine at agent.go:70; its deferred `close(jobs)` is part of the return |
| `TakeJob`, `BeginPublish`, `EndPublish`, `SendResult`, `WorkerLeaves` | `worker` and `publishMetrics` |
| `Cancel` | the signal |

One entry at the beginning and one at the end stand for all a goroutine writes: a
table is torn when the two come from different readings. A reading is the moment it was
taken (`now`): `requestMetrics` takes it before it asks for the lock (`Read`, `EarlyReader`),
`requestMemoryMetrics` with the lock held. So an older reading of the runtime may
replace a newer one in the map; `MemoryReadingsInOrder` says that one of the memory does not.
`MemTasks` and `RtTasks` bound how many goroutines are in flight; the code has no bound.
`metrics` is the pointer every job carries, so `jobs` needs only a count.

### 3.3 Config and Persistence

`Config` is `NewConfig` of both programs as functions from flags, environment and file to
settings, or to `NoConfig` when they return an error. `Empty` is the string
of an option that is not set. `Override` is how flags, then the environment, replace defaults; `OnServerFile` and `OnAgentFile` replace every field a file can
have, set in it or not. `WithStoragePath` is the temporary file; `Bare`, `WithScheme` and `IsURL` what
becomes of an address; `KeptIn` where the settings make `main` keep the table. `Reaches` is when
a client with one address gets to a server with the other.

| Model | Code |
|---|---|
| `Store`, `AnswerAndSave`, `AnswerOnly` | an update through `updateHandlerJSON` (`json`) or any other handler (`other`), and its answer |
| `StoreTick`, `LoopReturns` | the save loops of `Server.Run` and `Grpc.Run` |
| `OpenFails`, `MayCopy`, `Persist`, `EncodeFails`, `WriteHalf`, `WriteRest`, `WriteFails` | `SaveToFile` and `memory.Storage.Persist`, which copies, encodes and writes under the lock |
| `Select`, `SelectFails` | `postgres.Storage.Persist`, which reads the rows without one |
| `ListenFails`, `Signal`, `CloseListeners`, `Exit`, `Crash` | the errgroup, the signal handler and the deaths of the process |
| `Start` | a start without a snapshot: no path, `-r=false`, an empty file, or a new temporary one |
| `Restore`, `RestoreMixed`, `RestoreFails` | the file is decoded, in one way or another or not at all: `memory.NewFrom`, and the second step of `postgres.NewFrom` |
| `Truncate` | its first step: the rows go before the file is decoded |

* The table is its version: the number of updates it holds. `IsRegistry` and `WholeBatches` are
  the reason this loses nothing. Different versions may be equal tables; the properties
  then say more than is needed, never less.
* `Savers` are the two loops when the interval is positive, and slots for the goroutines
  that requests start when it is 0. `cfg` is one of `Settings`, which `MCPersistence` gets from
  `NewServerConfig`, and is the same at every start.
* The code opens the file without truncating it and writes from the start. A shorter
  table leaves the end of a longer one behind, which is harmless: the decoder reads
  the first JSON value and stops. A save cut in half is not. It leaves a file that does not
  decode (`cut`): the start exits, on Postgres with the rows gone (`RestoreFails`). Or, if neither
  the old nor the new table is empty, one that does (`mixed`): the server goes on with a
  table that was never there (`RestoreMixed`), and saves it. `damaged` remembers this;
  `ServesWhatWasSaved` says that it never comes to it, which is false (section 7), and the other
  properties of the file speak of servers to which it has not.
* `odd` is a table with a gauge that is NaN or infinite, which the text of a URL or gRPC may set
  (not JSON, though it may replace it). `Encode` fails before it writes a byte, at every save,
  until the gauge has another value: `EncodeFails`.
* `saved` is the newest version ever written in full, `file.ver` the last. They differ when savers
  on Postgres overtake one another.
* The shutdown: the context that `Server.Shutdown` is given derives from the one just
  cancelled (main.go:101), so it gives up at once when a request is under way; `MayExit`.
* The goroutine that saves for a request has the request's context, which ends with the
  handler: on Postgres its SELECT then fails, `SelectFails`.

`Durable` is the promise without the mechanism. Four ways of keeping a table: in the `snapshot`
alone, in the `database` alone, in both (a start deletes the rows and puts the snapshot in
their place), or nowhere. A server that serves updates, saves or stops; one that was stopped
resumes with what was kept, or, from then on without any promise, with half a save.
`IsDurable` maps the version to its `table`, the version of the last whole save to `saved` and
`Up` to `serving`.

### 3.4 Envelope and Delivery

`Envelope` has the pure part: `SealHTTP` and `SealGRPC` are what the clients make of a
report, `OpenHTTP` and `OpenGRPC` what the middleware and the interceptors make of the
request, in the order `NewServer` and the handler's registration stack them. Encryption is
per block of `KeySize - Overhead` bytes, so that boundaries of blocks are there. A hash is
a record of what it was made from; equal hashes mean equal bodies. JSON is the list itself.
`Sendable` is what grpc-go asks of metadata: the value of a key whose name does not end in
"-bin" must be printable, which the bytes of a hash are not. The library is not in the
repository; its answer is the error `Internal`, without anything being sent.

`Delivery` is `Publish`: `Send`, `SendFails`, `Breaks`, `Succeeds`, `Refused` and `Wake` are the
client and `retry.Do`; `TurnDown`, `Update` and `UpdateFails` the server; `Save`, `Crash` and `Restart` its
process, in the grain of `Durable`; starts on half a save are left to `Persistence`. A report
that the gRPC client signed can only fail (`SendFails`). The network `net` keeps
a request until the server takes it, which may be after the client gave up and after
later attempts, and in any order. A request that is never taken is lost. An answer is lost
when the client is no longer waiting for it. A crash takes the requests that are on their way
with it, and an answer that a client has not read may still reach it. `conf` holds what
`NewConfig` makes of the settings given to either side, chosen at the start. `table` counts
how often each report is in the table and `snapshot` holds the table of the last save, if a
start would read it; `applied` and `got` are histories that no crash touches.

The HTTP client sends its address in `X-Real-IP` (`realIP`), and `WithTrustedSubnet` turns a
request without it down; the gRPC client sends none, and `SubnetInterceptor` lets such a
request pass.

### 3.5 PgStorage

The requests call the service's four operations; `Receive` makes the checks, `Begin`, `Exec`,
`Commit`, `Rollback` are the transaction of `Update` (and the single statement of `Set`),
`Query` the SELECT of `Get` and `List`. `Upsert` is `insertQuery`.

The database is not in the repository. What the model takes of it: a statement that writes a row
waits for the transaction that holds the row and then sees its committed version
(READ COMMITTED); a SELECT sees what was committed before it; a circle of waiting
transactions is broken by ending one of them; a bigint sum out of range is an error;
a sum with NULL is NULL. Any statement may fail, and the outcome of a commit may be lost.

## 4. Runs

| Run | Distinct states | What it asks |
|---|---|---|
| `mem_disciplined` | 36 k | Two requests at a time from clients that send what the agent sends, and single metrics with counters that wrap. The lock is held by whom it should be, nothing panics, `updateHandlerJSON` reads back what it stored, a listing shows gauges of one batch, a table has metrics of known types only, and the storage is a `Registry`. |
| `mem_undisciplined` | 128 k | The same with values left out and names used with both types: which of it survives. `Isolated`, `CellFixed` and `IsRegistry` do, and every call ends, panics included. |
| `mem_no_value` | violated | `StoredCarriesValue`: see 7. |
| `agent_safety` | 1.48 M | Two workers, four gathering goroutines, channels of capacity two, two moments: no torn report, readings of the memory in order, room for results. |
| `agent_liveness` | 48 k | More workers than capacity, so that the agent can get stuck: apart from the two ways named it stops after a signal, gathering goroutines end, and a stuck agent stays stuck. |
| `agent_reports` | violated | `KeepsReporting`: see 7. |
| `persist` | 88 k | Savers, requests, failed writes, tables that cannot be encoded, crashes, stops and starts under 13 settings: intervals 1, 0 and -1, with a file or without, restored or not, in memory and on Postgres, two of them from settings files. `Durable` is implemented, the file never goes back in memory, nothing saved is lost, nothing answered is lost in a database that no snapshot replaces, a save is as new as the table, and every update that can be encoded is saved some time and for good. |
| `persist_torn` | violated | `ServesWhatWasSaved`: see 7. |
| `persist_unattended`, `persist_sync_answer` | violated | `KeepsSaving`, `SavedWhenAnswered`: see 7. |
| `delivery` | 75 k | Every pairing of keys (absent, equal, different), both protocols, all storages, and every pairing of sources and forms of the two addresses; one report, three attempts, any number of crashes and restarts: when a report counts twice, that it arrives whole or not at all, what a nil error means at that moment and after later crashes, that the server's table is `Durable`, that equal addresses meet, that one key on both sides is never found wrong, that `Publish` returns unless it waits for an answer for ever. |
| `pg_storage` | 27 k | Two requests whose batches lock the same rows in opposite orders, overflow, failures: rows are given back, batches are all or nothing, listings show one moment, every call ends. |

### Bounds

* Two requests at a time. The storage's properties are about one request and what any other
  does to it; what two can do in a row, one can do after the other. The proofs of section 6
  are for any number.
* `Modulus` 2, 3 or 4: a counter wraps, or overflows, within two updates.
* Three names, two gauges and a counter: the fewest for which a batch is seen half
  applied. Two samples: the fewest for which two batches differ.
* Channels of capacity 1 or 2, against 1024 in the code: full with the first ticks. One worker
  more than `NumJobs` is the case `results` can be full; as many as `NumJobs` the boundary
  where it cannot.
* `MaxVer` 2 in `persist`: an older and a newer save, by two savers, under 13 settings. One request slot at a time: a version does not say which request made it.
* `MaxTime` 2: an older and a newer reading.
* Settings: in `delivery` three groups, each a full product: keys, subnet, protocol and storage;
  path, `-r`, DSN and protocol; address and source on either side and protocol. A key does
  not touch an address, so the groups are not multiplied with each other.
* One report of five bytes, blocks of two plain bytes: two full blocks and a short one. Reports
  do not meet in `Delivery`: batches are merged one at a time, each after the other, by
  `IsRegistry` and `WholeBatches`.
* `CountUp` stops counting at four, one more than the largest value the property allows.

Deadlock is checked in `mem_disciplined` and `pg_storage`. Elsewhere the system may stop: the
agent and the server return after a signal, a panic ends the process, a report is delivered,
and the agent can get stuck, which `StaysStuck` and `ShutdownUnlessStuck` are about.

## 5. Fairness

* Weak fairness for what a goroutine can do by itself: the Go scheduler is preemptive.
* Strong fairness for taking a lock (`Acquire`, `Announce`, `BeginPublish`, `Persist`):
  `sync.RWMutex` hands over to those who wait, readers after a writer and writers before
  new readers. The same for `Statement` in `PgStorage`: the database queues waiters of a row.
* `SF(ReportTick)`: a `select` picks at random among the ready cases, so a timer that fires again
  and again is chosen some time, although results keep coming.
* None for the signal, crashes and failures, and none for `EndPublish`: the clients set no
  timeout. `ShutdownUnlessStuck` and `GatherEnds` therefore assume `~PublishHangs`.
* `SF(Persist or Select)`, `SF(WriteHalf)`, `SF(WriteRest)`: a disk or a database that is asked again
  and again obliges in the end. Without this `SavedForGood` is plainly false: failed saves are
  only logged. Of a table that cannot be encoded nothing is assumed: `Persist` and `Select` are
  then disabled, and `SavedForGood` exempts it (`odd`).
* `Delivery`: only the client's own steps. The clients set no timeout (httpclient.go:44,
  grpclient.go:64), so nothing says that an answer comes or that the connection breaks, and
  `PublishReturns` lets a client wait for ever. It shows that `retry.Do` ends.
* `PgStorage`: the database ends a transaction of every deadlock.

## 6. Proofs

`tlapm` proves 37 theorems (5054 obligations) in seven modules, for every number of requests,
workers, gathering goroutines, savers and reports, every capacity, every set of calls and every
set of settings. Every invariant and every action property that a passing run checks is among
them, and all three refinements.

**Loops**. `FoldLeft` and `FlattenSeq` are defined by recursion over data, on which the library's
induction theorems, whose argument is an operator, cannot be used here. What they are
needed for is proved from `NatLessThanWellFounded` with sets in the place of predicates
(`UpTo`): a run is the function from the number of turns made to the state reached, there is one for every
sequence (`LoopRun`), and only one (`OneResult`). `LoopHead` and `LoopAppend` take a turn off
either end of a loop; `LoopKeeps`, `LoopReaches` and `LoopRelates` are its three invariance rules.
The module has the operator `Step` as its parameter and is instantiated three times.

**MemStorageProofs** (from `CallsAssumption` and the assumptions of `Metric`). `TypeOK` is not
inductive: that `Apply` leaves a metric in the map needs to know that what is still to do
is valid (`Pending`), and that `UnlockWrite` goes on to the right place needs the handler to
fit the stage (`Serving`). `Inv == TypeOK /\ LockHeld /\ Serving /\ Pending` is. It gives
`TypeCorrect` and `LockDiscipline`; with the lemma that only `Apply` writes the map,
`BatchesAreIsolated`, and with `MergeKeeps`, `CellsAreFixed`.
`DisciplinedNoAbort` and `DisciplinedReadsBack` have a premise on the constant `Calls`
(`Disciplined`, which the agent's reports satisfy) and use `WellInv`, which adds: entries and
copies are well formed (`StoredWell`, `CopiedWell`; hence `DisciplinedStoresWhole`), and each step of a batch leaves its name
in the map under its type (`Traced`).

`Implements` maps the map of metrics to itself with the rest of the batch under way merged in
(`Ahead`). A turn of the loop takes the first metric off the rest and merges it, which by `LoopHead`
leaves the mapped table as it was; a panic leaves it because its metric is where `Outcome`
stops; so only `LockWrite` changes it, by a whole batch. For `DisciplinedListedTogether`, two gauges
that are always sent together are equal in what a batch leaves behind (`LoopReaches`: each is
written by one of the turns and kept by the others) and so in every map that a listing can see
and in every copy it makes of it, half finished or not.

**AgentProofs**. `ReportsAreWhole` needs that one goroutine at a time is inside the lock
and none while a worker copies (`OneWriter`, `NoMix`), that the map is whole unless a goroutine
is halfway (`MapWhole`), and that then its first half is that goroutine's (`HalfWritten`).
`ReadingsInOrder` rests on `InOrder`: what is in the map, and what the goroutine inside has read, is
no newer than now. `ResultsNeverBlock` assumes `Cardinality(Workers) <= NumJobs`: `results` never exceeds
the number of workers that have returned, because each returns with its first result; a worker
that delivers is not among them. `agent_liveness` shows the premise is needed. `StuckForEver` needs
`TypeOK` only.

**PersistenceProofs**. In memory a saver that writes holds the lock (`Holder`), so the table is
still the one it copied, so what it writes is no older than the file. On Postgres it may be older
than the table but never ahead (`CopiesBehind`), and so may be what is being answered
(`OwnBehind`), and the file is not ahead of a table that goes on from it (`FileBehind`). A process that
is not up leaves no saver and no lock (`Quiet`), and only a snapshot empties
a database (`RestoringHasPath`). `SavedIsKept` needs to know where the newest save is while no server
runs (`SavedIsSomewhere`): a snapshot kept alone is the newest there ever was, because saves in memory
do not overtake one another; a database kept alone is not behind it; and a snapshot kept with a
database is the last save, whatever it overtook. The invariant is
the conjunction of these with `TypeOK` and the three properties; every way to begin to serve preserves it by
one lemma (`ServeInv`). `FileNeverGoesBack` follows step by
step, and so does `Implements`: each step is one of `Durable`, or none.

**DeliveryProofs**. `Attempts` ties the number of errors to the attempt a client is at; `Accounts` says
that merged requests and those still on their way are together no more than were sent; `Behind`
that neither table nor snapshot counts a report more often than it was merged. Together they
give `DuplicatesNeedErrors`, which no crash disturbs. `SuccessIsKept` needs `OkIsKept`: an answer "ok" that
is on its way says that the report is in the database. `Implements` counts the pairs of report and
copy (`Counted`): an update adds one pair, and a save of an older table takes a subset. It needs that
requests are on their way only to a server that runs (`Transit`). `SameKeyIsAccepted` needs that
they are such as can be sent: over HTTP the signature is over the very bytes the server checks, and over
gRPC there is none.

`NothingIsGarbled` is `OpensWhatWasSealed` of `EnvelopeProofs` at every `Update`. `NilIsStored` needs `Delivered`:
an answer "ok" says that the report was merged, and so does any answer when settings fit and the
storage cannot fail, because then the chain turns nothing down (`OpensWhatFits`). It and
`AgentAndServerMeet` have a premise on the constant `Settings`, `AllRead`: each member is what
`NewConfig` makes of some flags, environment and file, and the address it records as given is the one
`NewConfig` reads. Nothing is assumed of the flags, the environment and the file otherwise.
`DisciplinedStoresWhole` sets the bound of a finding of section 7: it needs
a client that leaves a value out or uses a name with both types.

**EnvelopeProofs** (from `EnvelopeAssumption`). `EncryptOAEP` concatenates blocks of
`KeySize` bytes, so that position `p` of the result is in block `(p - 1) \div KeySize + 1`
(`BlocksJoined`); the chunks that `DecryptOAEP` cuts are therefore the blocks that `EncryptOAEP` made
(`ChunksOfBlocks`), and the chunks that those were made from, the last of them short, joined
are the message (`ChunksCover`, `ChunksJoined`). This is `DecryptsWhatWasEncrypted`. `HTTPChain` and `GRPCChain`
follow a request through the middleware one link at a time and say when it comes out, and as
what. `BytesRead` shows that a body which comes out as plain bytes after decryption with some
other key, or without one, or with one when none was used, is still the list that was sealed.

**PgStorageProofs**. That a row stays a row needs to know that what a transaction still has to
write passed the service's checks (`Serving`, `Pending`). With `Written`, what a commit puts in the
place of a row it holds is a metric, which gives `NoCommitInBetween`: nobody else's commit
comes between a transaction's first statement on a row and its own commit, and no row ever
disappears. That is what a sum read and written by `insertQuery` relies on. `BatchesAreWhole` adds that
what a transaction sees in the rows it holds is what the committed ones become when its statements
so far are applied to them (`UnderWay`): it holds while others commit, since they
hold none of its rows, and with `LoopAppend` after one more statement. `ListsTogether` rests on the
committed rows alone: between two commits two such gauges are equal (`TogetherInv`).

Only model-checked: liveness (`EveryCallEnds`, `ShutdownUnlessStuck`, `GatherEnds`, `SavedForGood`,
`PublishReturns`), which needs fairness and so ENABLED, out of the prover's reach; and the five
violated properties, for which TLC shows a behaviour.

## 7. What the code does against its own words

* `mem_no_value`: `Update` stores a counter without delta; all later counter updates of that
  name panic (memory.go:124, against metric.go:53 and the tests of `Set`).
* `agent_reports`: a worker returns after its first job (agent.go:220), so an agent sends at most
  `RateLimit` reports, and then its reporter blocks for good (config.go:61).
* `persist_sync_answer`: with interval 0 nothing is saved synchronously (handlers.go:121, against
  config.go:22).
* `persist_unattended`: a gRPC server that cannot listen ends both save loops while HTTP goes on
  (grpc.go:61, against config.go:22).
* `persist_torn`: the snapshot is written in place over the last one (service.go:88,
  memory.go:52). A crash half way leaves new bytes before old ones; if they fit together, the next
  start takes them for a table and serves it (against config.go:24: the metrics are restored).

Observations that have no run of their own:

* The context for a graceful shutdown is already cancelled when `Shutdown` gets it (main.go:101;
  modelled in `MayExit`), and a graceful stop saves nothing: what came after the last save is gone,
  as after a crash.
* The HTTP client takes any status for a success (httpclient.go:99), which is why `NilMeansStored` asks
  of it that the settings fit and that the storage cannot fail.
* `host:port` with the host 127.0.0.1 is an error for `url.Parse`, so the agent exits and its branch for
  that host is dead; with localhost as the host it works, because url.Parse takes it for a scheme.
* The gRPC server listens on the port after the server's, while the agent dials its address as it
  is; `SameAddressMeets` is therefore about HTTP.
* A settings file overrides flags and environment (config.go:98), resets what it leaves out, and its
  trusted subnet and protocol are not read. 500 ms are cut to 0; a negative interval never saves.
* Without a path every start makes a temporary file, which is never restored.
* With a path and Postgres, each start replaces the rows by the last save: committed rows that are
  newer are lost (`FromBoth`). With `-r=false` the first save replaces a newer file by an
  older table, which is why `FileMonotone` is about settings with `Restore`.
* With a key set, no report over gRPC is ever sent: grpclient.go:62 gives raw bytes to a metadata key
  without "-bin", and grpc-go refuses them in the client. If it did not, hash.go:108 would, which
  compares with base64. The agent tries three times and logs the error.
* A gauge that is NaN or infinite (`/update/gauge/x/NaN` passes handlers.go:181) makes every save
  fail until it is replaced.
* With a path and Postgres, a save that started earlier can end later (postgres.go:181); a start
  before the next save then loses what the newer one had written. A file that was cut in half
  makes the start exit after it deleted the rows (postgres.go:69): both are lost.
* Between two polls the delta 1 of `PollCount` is sent with every report, and polls between two reports
  count once (agent.go:141).

## 8. Not modelled

* Logging, `staticlint`, generated code and mocks, `GenerateCert`, `Ping`: no state that a property is about.
* How the server compresses and signs its answers: no client reads them. (`hashWriter` sets its header
  when the body has been written, so only an answer without a body is ever signed.)
* That a storage file cannot be created or opened at the start: the process exits before it serves.
* The log level, the profiler's routes and the validators' textual forms.
* Durations: timers fire at any time, and `retry.Do` sleeps any time. Which interval is positive matters,
  how long it is does not.

## 9. Plan

The order was: storage and its abstract specification; agent; snapshot; proofs of the three;
delivery with its envelope; Postgres; then settings, the server's life on Postgres, `Durable` and the
refinements, crashes under the clients' retries, the proofs of `Delivery` and `PgStorage`; and last the
loops over data, with `Registry`, whole batches, listings and the envelope.
Left, most important first:

1. The agent and the delivery composed: a worker that publishes through a shutdown.
2. `Durable` with several reports at a time, so that `Persistence` and `Registry` compose in one theorem.
