----------------------------- MODULE Persistence -----------------------------
(***************************************************************************)
(* The server process and its snapshot file: who saves the table, in       *)
(* memory or on Postgres, and when, what a crash or a stop leaves behind,  *)
(* and what the next start restores. Source: cmd/server/main.go,           *)
(* Server.Run (server.go), Grpc.Run (grpc.go), updateHandlerJSON           *)
(* (handlers.go), Service.SaveToFile, and Persist and NewFrom of both      *)
(* storages.                                                               *)
(*                                                                         *)
(* The table is reduced to its version, the number of updates in it: by    *)
(* MemStorage an update is one indivisible step under the lock, and by     *)
(* PgStorage one transaction, so a table is determined by how many came    *)
(* before.                                                                 *)
(***************************************************************************)
EXTENDS Config

CONSTANTS
    Settings,   \* the settings the server may be started with, as NewConfig makes them
    Savers,     \* the two save loops; with interval 0, goroutines a request can start (bound)
    Reqs,       \* HTTP requests served at a time (bound)
    Free,       \* nobody holds the lock
    MaxVer      \* updates in a table (bound)

ASSUME PersistenceAssumption ==
    /\ MaxVer \in Nat
    /\ Free \notin Savers
    /\ \A c \in Settings : c.Restore \in BOOLEAN

Versions == 0 .. MaxVer

VARIABLES
    cfg,        \* the settings, the same at every start
    proc,       \* the process
    phase,      \* how far the shutdown is; the context is live only while "serving"
    ver,        \* version of the table
    mu,         \* Storage.mu of the storage in memory, when a saver holds it
    req,        \* the update requests: stored, not yet answered, and to start a save or not
    own,        \* the version each request's update made
    acked,      \* the newest version an answer has confirmed (history)
    saver,      \* where each saver is
    snap,       \* what Persist copied
    file,       \* the file: its state and the last version written to it in full
    saved,      \* the newest version ever written to it in full
    odd,        \* some gauge of the table is NaN or infinite
    damaged     \* the table goes back to a file that no save wrote in full

disk == <<file, saved, odd, damaged>>
vars == <<cfg, proc, phase, ver, mu, req, own, acked, saver, snap, disk>>

\* Type invariant. A process that is "restoring" copies the file into Postgres. Half a
\* save leaves a file that cannot be decoded ("cut"), or one that can, because new bytes
\* and old ones happen to fit together ("mixed").
TypeOK ==
    /\ cfg \in Settings
    /\ proc \in {"up", "restoring", "exited", "crashed"}
    /\ phase \in {"serving", "unattended", "stopping", "closed"}
    /\ ver \in Versions /\ acked \in Versions /\ saved \in Versions
    /\ mu \in Savers \cup {Free}
    /\ req \in [Reqs -> {"idle", "saves", "stored"}]
    /\ own \in [Reqs -> Versions]
    /\ saver \in [Savers -> {"wait", "open", "write", "half", "returned"}]
    /\ snap \in [Savers -> Versions]
    /\ file \in [state : {"empty", "whole", "cut", "mixed"}, ver : Versions]
    /\ odd \in BOOLEAN /\ damaged \in BOOLEAN

Init ==
    /\ cfg \in Settings
    /\ proc = "up" /\ phase = "serving"
    /\ ver = 0 /\ acked = 0 /\ saved = 0
    /\ mu = Free
    /\ req = [r \in Reqs |-> "idle"]
    /\ own = [r \in Reqs |-> 0]
    /\ saver = [s \in Savers |-> "wait"]
    /\ snap = [s \in Savers |-> 0]
    /\ file = [state |-> "empty", ver |-> 0]
    /\ odd = FALSE /\ damaged = FALSE

Up     == proc = "up"
Memory == cfg.DatabaseDSN = Empty
Sync   == cfg.StoreInterval = 0
Timed  == cfg.StoreInterval > 0

\* A start reads the file that an earlier one wrote.
Reloads == cfg.Restore /\ cfg.FileStoragePath # TempFile

\* The table of a start goes on from what was saved in its file or is in the database.
Continues == cfg.Restore \/ ~Memory
----------------------------------------------------------------------------
(* Requests *)

\* An update reaches the table. With interval 0 updateHandlerJSON, and no other handler,
\* will start a save. JSON has no NaN and no infinity, but the text of a URL and gRPC
\* do, and any update may replace them.
Store(r) ==
    /\ Up /\ phase # "closed"
    /\ req[r] = "idle" /\ (Memory => mu = Free) /\ ver < MaxVer
    /\ ver' = ver + 1
    /\ \E h \in {"json", "other"} :
         /\ req' = [req EXCEPT ![r] = IF h = "json" /\ Sync THEN "saves" ELSE "stored"]
         /\ odd' \in (IF h = "json" /\ ~odd THEN {FALSE} ELSE BOOLEAN)
    /\ own' = [own EXCEPT ![r] = ver + 1]
    /\ UNCHANGED <<cfg, proc, phase, mu, acked, saver, snap, file, saved, damaged>>

\* The answer confirms the request's update.
Answered(r) ==
    /\ req' = [req EXCEPT ![r] = "idle"]
    /\ own' = [own EXCEPT ![r] = 0]
    /\ acked' = IF own[r] > acked THEN own[r] ELSE acked

\* updateHandlerJSON starts a goroutine that saves, and answers without waiting for it.
AnswerAndSave(r) ==
    /\ Up /\ req[r] = "saves"
    /\ \E s \in Savers : saver[s] = "wait" /\ saver' = [saver EXCEPT ![s] = "open"]
    /\ Answered(r)
    /\ UNCHANGED <<cfg, proc, phase, ver, mu, snap, disk>>

AnswerOnly(r) ==
    /\ Up /\ req[r] = "stored"
    /\ Answered(r)
    /\ UNCHANGED <<cfg, proc, phase, ver, mu, saver, snap, disk>>
----------------------------------------------------------------------------
(* Savers *)

\* The store timer of the HTTP server's loop or of the gRPC server's.
StoreTick(s) ==
    /\ Up /\ Timed /\ saver[s] = "wait"
    /\ saver' = [saver EXCEPT ![s] = "open"]
    /\ UNCHANGED <<cfg, proc, phase, ver, mu, req, own, acked, snap, disk>>

LoopReturns(s) ==
    /\ Up /\ Timed /\ saver[s] = "wait" /\ phase # "serving"
    /\ saver' = [saver EXCEPT ![s] = "returned"]
    /\ UNCHANGED <<cfg, proc, phase, ver, mu, req, own, acked, snap, disk>>

CanOpen == cfg.FileStoragePath # Empty

\* There is no file without a name, and one may fail to open.
OpenFails(s) ==
    /\ Up /\ saver[s] = "open"
    /\ saver' = [saver EXCEPT ![s] = "wait"]
    /\ UNCHANGED <<cfg, proc, phase, ver, mu, req, own, acked, snap, disk>>

\* The file is open, and the table may be read: in memory under the lock, on Postgres in
\* the group's context or in that of the request.
MayCopy(s) ==
    /\ Up /\ saver[s] = "open" /\ CanOpen
    /\ IF Memory THEN mu = Free ELSE Sync \/ phase = "serving"

\* Fault: the lock is given back before the write.
Persist_Unlocks(s) ==
    /\ MayCopy(s) /\ Memory /\ ~odd
    /\ snap' = [snap EXCEPT ![s] = ver]
    /\ saver' = [saver EXCEPT ![s] = "write"]
    /\ UNCHANGED <<cfg, proc, phase, ver, mu, req, own, acked, disk>>

\* In memory, Persist takes the lock and copies the table; it holds the lock while it
\* writes.
Persist(s) ==
    /\ MayCopy(s) /\ Memory /\ ~odd
    /\ mu' = s
    /\ snap' = [snap EXCEPT ![s] = ver]
    /\ saver' = [saver EXCEPT ![s] = "write"]
    /\ UNCHANGED <<cfg, proc, phase, ver, req, own, acked, disk>>

\* On Postgres it reads the rows that are committed at that moment, without a lock.
Select(s) ==
    /\ MayCopy(s) /\ ~Memory /\ ~odd
    /\ snap' = [snap EXCEPT ![s] = ver]
    /\ saver' = [saver EXCEPT ![s] = "write"]
    /\ UNCHANGED <<cfg, proc, phase, ver, mu, req, own, acked, disk>>

\* JSON cannot say NaN or infinity: Encode fails before it writes a byte, at every save
\* until the gauge is replaced.
EncodeFails(s) ==
    /\ MayCopy(s) /\ odd
    /\ saver' = [saver EXCEPT ![s] = "wait"]
    /\ UNCHANGED <<cfg, proc, phase, ver, mu, req, own, acked, snap, disk>>

\* The database fails, or the context is cancelled: a request's is when its handler has
\* returned, which may be before the SELECT.
SelectFails(s) ==
    /\ Up /\ ~Memory /\ saver[s] = "open" /\ CanOpen
    /\ saver' = [saver EXCEPT ![s] = "wait"]
    /\ UNCHANGED <<cfg, proc, phase, ver, mu, req, own, acked, snap, disk>>

\* The new bytes go over the old ones, from the start and without truncation, in one
\* call of write; the kernel lets one writer at a time into a file. They may fit together
\* with old ones if neither table is empty.
WriteHalf(s) ==
    /\ Up /\ saver[s] = "write" /\ \A t \in Savers : saver[t] # "half"
    /\ saver' = [saver EXCEPT ![s] = "half"]
    /\ \E half \in {"cut", "mixed"} :
         /\ half = "mixed" => saved > 0 /\ snap[s] > 0
         /\ file' = [file EXCEPT !.state = half]
    /\ UNCHANGED <<cfg, proc, phase, ver, mu, req, own, acked, snap, saved, odd, damaged>>

\* Fault: no Unlock.
Release_KeepsLock(s) ==
    mu' = mu /\ saver' = [saver EXCEPT ![s] = "wait"] /\ snap' = [snap EXCEPT ![s] = 0]

\* Persist returns: the deferred Unlock, and the saver's next wait.
Release(s) ==
    mu' = Free /\ saver' = [saver EXCEPT ![s] = "wait"] /\ snap' = [snap EXCEPT ![s] = 0]

\* The write is complete. What an older, longer save left behind the new value is
\* never read: the decoder stops at the end of the first value.
WriteRest(s) ==
    /\ Up /\ saver[s] = "half"
    /\ file' = [state |-> "whole", ver |-> snap[s]]
    /\ saved' = IF snap[s] > saved THEN snap[s] ELSE saved
    /\ Release(s)
    /\ UNCHANGED <<cfg, proc, phase, ver, req, own, acked, odd, damaged>>

\* The disk fails, at once or half way; the error is logged, or dropped when the interval
\* is 0.
WriteFails(s) ==
    /\ Up /\ saver[s] \in {"write", "half"}
    /\ Release(s)
    /\ UNCHANGED <<cfg, proc, phase, ver, req, own, acked, disk>>
----------------------------------------------------------------------------
(* The process *)

\* One of the servers cannot listen, or stops accepting: its error cancels the context
\* of the group, both loops return, and the other server goes on, until it fails too.
ListenFails ==
    /\ Up /\ phase \in {"serving", "unattended"}
    /\ phase' = IF phase = "serving" THEN "unattended" ELSE "closed"
    /\ UNCHANGED <<cfg, proc, ver, mu, req, own, acked, saver, snap, disk>>

\* SIGTERM: the context is cancelled first.
Signal ==
    /\ Up /\ phase \in {"serving", "unattended"}
    /\ phase' = "stopping"
    /\ UNCHANGED <<cfg, proc, ver, mu, req, own, acked, saver, snap, disk>>

\* Then the gRPC server stops, and the HTTP server closes its listener.
CloseListeners ==
    /\ Up /\ phase = "stopping"
    /\ phase' = "closed"
    /\ UNCHANGED <<cfg, proc, ver, mu, req, own, acked, saver, snap, disk>>

\* runner.Wait returns when the loops have, whatever HTTP requests are under way. If
\* there are any, Shutdown fails at once, its context being a child of the cancelled
\* one, and log.Fatal ends the process whatever the loops are doing.
MayExit ==
    \/ ~Timed \/ \A s \in Savers : saver[s] = "returned"
    \/ \E r \in Reqs : req[r] # "idle"

\* What goes with the process. The table in memory stays until the next start makes
\* another.
Gone ==
    /\ phase' = "serving"
    /\ mu' = Free
    /\ req' = [r \in Reqs |-> "idle"]
    /\ own' = [r \in Reqs |-> 0]
    /\ saver' = [s \in Savers |-> "wait"]
    /\ snap' = [s \in Savers |-> 0]

Exit ==
    /\ Up /\ phase = "closed" /\ MayExit
    /\ proc' = "exited"
    /\ Gone
    /\ UNCHANGED <<cfg, ver, acked, disk>>

Crash ==
    /\ proc \in {"up", "restoring"}
    /\ proc' = "crashed"
    /\ Gone
    /\ UNCHANGED <<cfg, ver, acked, disk>>

Restored_Empty == 0                                      \* fault: the file is not read
Restored == file.ver

Down == proc \in {"exited", "crashed"}

HasSnapshot_AnySize == cfg.Restore                       \* fault: an empty file counts
HasSnapshot == Reloads /\ file.state # "empty"

\* The process begins to serve, with a table of version v.
Serve(v) ==
    /\ proc' = "up"
    /\ ver' = v
    /\ UNCHANGED <<cfg, phase, mu, req, own, saver, snap, saved>>

\* A start without a snapshot, or with a temporary file, which is a new one: the table
\* in memory is empty, the one on Postgres as it was.
Start ==
    /\ Down /\ ~HasSnapshot
    /\ Serve(IF Memory THEN 0 ELSE ver)
    /\ acked' = IF Memory THEN 0 ELSE acked
    /\ odd' = (odd /\ ~Memory)
    /\ file' = IF cfg.FileStoragePath = TempFile THEN [state |-> "empty", ver |-> 0] ELSE file
    /\ UNCHANGED damaged

\* On Postgres the table is emptied before the file is decoded,
Truncate ==
    /\ Down /\ HasSnapshot /\ ~Memory
    /\ proc' = "restoring" /\ ver' = 0 /\ odd' = FALSE
    /\ UNCHANGED <<cfg, phase, mu, req, own, acked, saver, snap, file, saved, damaged>>

\* The file is decoded, and on Postgres copied into the table in a transaction.
Decodes == (Down /\ HasSnapshot /\ Memory) \/ proc = "restoring"

\* What was answered after the last save is gone.
Restore ==
    /\ Decodes /\ file.state = "whole"
    /\ Serve(Restored) /\ acked' = Restored
    /\ odd' = FALSE
    /\ UNCHANGED <<file, damaged>>

\* The file decodes to a table that was never there, new entries and old ones side by
\* side, and the server goes on with it.
RestoreMixed ==
    /\ Decodes /\ file.state = "mixed"
    /\ Serve(Restored) /\ acked' = Restored
    /\ odd' = FALSE /\ damaged' = TRUE
    /\ UNCHANGED file

\* It does not decode, or on Postgres it names a row twice or the database fails:
\* log.Fatal, with the rows gone.
RestoreFails ==
    /\ Decodes /\ (file.state = "cut" \/ ~Memory)
    /\ proc' = "exited"
    /\ UNCHANGED <<cfg, phase, ver, mu, req, own, acked, saver, snap, disk>>
----------------------------------------------------------------------------
Request(r) == Store(r) \/ AnswerAndSave(r) \/ AnswerOnly(r)
Save(s)    == StoreTick(s) \/ LoopReturns(s) \/ OpenFails(s) \/ Persist(s)
              \/ Select(s) \/ EncodeFails(s) \/ SelectFails(s) \/ WriteHalf(s) \/ WriteRest(s) \/ WriteFails(s)
Process    == ListenFails \/ Signal \/ CloseListeners \/ Exit \/ Crash
              \/ Start \/ Truncate \/ Restore \/ RestoreMixed \/ RestoreFails

Next == (\E r \in Reqs : Request(r)) \/ (\E s \in Savers : Save(s)) \/ Process

Spec == Init /\ [][Next]_vars

\* The scheduler, the timers and the mutex; and of the disk and the database, that a
\* save that is tried again and again succeeds in the end, if it can be encoded.
FairSpec ==
    /\ Spec
    /\ \A s \in Savers :
         /\ WF_vars(StoreTick(s)) /\ SF_vars(Persist(s) \/ Select(s))
         /\ SF_vars(WriteHalf(s)) /\ SF_vars(WriteRest(s))
----------------------------------------------------------------------------
(* Properties *)

\* Two loops, or any number of goroutines, write the same file without a lock on it,
\* and yet, with the storage in memory, a save never puts an older table over a newer
\* one. With -r=false the first save after a start does.
FileMonotone == [][Memory /\ Continues /\ Up /\ ~damaged => file'.ver >= file.ver]_vars

\* When the table is kept in one place, in the file or in the database, whatever was ever
\* saved in full is in the table of a server that runs. When it is kept in both, the
\* last save is, and a newer one that it overtook may be lost. Nothing is said of a
\* table in memory that no start restores, nor after a start on half a save.
NothingSavedIsLost ==
    Up /\ ~damaged =>
        /\ (Memory <=> Reloads) => saved <= ver
        /\ Reloads => file.ver <= ver

\* On Postgres every update that was answered stays in the table, in every start as
\* well, unless a snapshot is to be restored.
AckedIsKept == ~Memory /\ ~Reloads => acked <= ver

\* While a saver is writing, the table in memory is the one it copied: the file
\* is as new as the table when the save is done.
SavesCurrent ==
    \A s \in Savers : Up /\ Memory /\ saver[s] \in {"write", "half"} => mu = s /\ snap[s] = ver

\* For all its locks, halves and crashes, the server is a table that is saved in one step
\* and goes on from what it kept in one step, unless it starts on half a save.
D == INSTANCE Durable WITH
    keeping <- KeptIn(cfg), serving <- Up, table <- ver, saved <- file.ver, damaged <- damaged

IsDurable == D!Spec

\* The server saves, and no longer does or cannot for the moment.
Saves == Up /\ Timed /\ cfg.FileStoragePath # Empty
Ends  == ~Up \/ phase # "serving" \/ odd

\* With an interval and a file, every update is in the file some time later and is not
\* overwritten by an older table, although the savers on Postgres may overtake one
\* another; and a save that failed half way is followed by one that succeeds. Unless the
\* server goes down, its context is cancelled, or a gauge is NaN or infinite.
SavedForGood ==
    /\ \A v \in 1 .. MaxVer : Saves /\ ver >= v ~> [](file.ver >= v) \/ Ends
    /\ Saves ~> file.state = "whole" \/ Ends

\* config.go:24: a start restores the metrics. What the server serves goes back to a
\* table that was saved in full.
ServesWhatWasSaved == Up => ~damaged

\* config.go:22: the metrics are saved at an interval. As long as the server serves
\* requests, every update is in the file some time later (if it can be encoded).
KeepsSaving ==
    \A v \in 1 .. MaxVer :
        Up /\ Timed /\ ver >= v
            ~> \/ file.state = "whole" /\ file.ver >= v
               \/ ~Up \/ phase \in {"stopping", "closed"} \/ odd

\* config.go:22: with interval 0 the metrics are saved synchronously. An update whose
\* answer was sent is in the file.
SavedWhenAnswered == Sync /\ Up => file.ver >= acked
=============================================================================
