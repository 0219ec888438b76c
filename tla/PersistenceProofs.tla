------------------------- MODULE PersistenceProofs -------------------------
(***************************************************************************)
(* What holds of Persistence for any number of savers, of requests and of  *)
(* updates, with an interval or without.                                   *)
(***************************************************************************)
EXTENDS Persistence, TLAPS

(***************************************************************************)
(* That a save never goes backwards rests on the lock: the copy a saver    *)
(* writes is still the table when the write is done (SavesCurrent), and    *)
(* the table is never behind the file (FileBehind). Savers of Postgres may *)
(* write an older copy, but never one that is ahead of the table           *)
(* (CopiesBehind). What is being answered is in the table (OwnBehind), and *)
(* only a snapshot empties Postgres (RestoringHasPath). That nothing saved *)
(* is lost needs to know, through every stop, where the newest save is     *)
(* (SavedIsSomewhere).                                                     *)
(***************************************************************************)
Holder == \A s \in Savers : Up /\ mu = s => saver[s] \in {"write", "half"}

CopiesBehind == \A s \in Savers : Up /\ saver[s] \in {"write", "half"} => snap[s] <= ver

OwnBehind == \A r \in Reqs : IF Up THEN own[r] <= ver ELSE own[r] = 0

FileBehind == Up /\ Continues /\ ~damaged => file.ver <= ver

\* An empty file was never saved to; a snapshot that is kept alone is the newest; and a
\* database that is kept alone is not behind it.
SavedIsSomewhere ==
    /\ file.ver <= saved
    /\ Reloads /\ file.state = "empty" => saved = 0
    /\ Reloads /\ Memory /\ ~damaged => saved = file.ver
    /\ ~Reloads /\ ~Memory => saved <= ver

Quiet == ~Up => mu = Free /\ \A s \in Savers : saver[s] = "wait"

RestoringHasPath == proc = "restoring" => Reloads /\ ~Memory

Inv == TypeOK /\ NothingSavedIsLost /\ AckedIsKept /\ SavesCurrent
       /\ Holder /\ CopiesBehind /\ OwnBehind /\ RestoringHasPath /\ Quiet
       /\ FileBehind /\ SavedIsSomewhere

\* The settings never change.
LEMMA Fixed ==
    ASSUME UNCHANGED cfg
    PROVE  (Memory' <=> Memory) /\ (Reloads' <=> Reloads) /\ (Continues' <=> Continues)
  BY DEF Memory, Reloads, Continues

LEMMA InitInv == Init => Inv
<1>. SUFFICES ASSUME Init PROVE Inv
  OBVIOUS
<1>1. TypeOK
  <2>1. odd \in BOOLEAN /\ damaged \in BOOLEAN
    BY DEF Init
  <2>2. file \in [state : {"empty", "whole", "cut", "mixed"}, ver : Versions] /\ 0 \in Versions
    BY PersistenceAssumption DEF Init, Versions
  <2>. QED
    BY <2>1, <2>2 DEF Init, TypeOK
<1>2. ver = 0 /\ file.ver = 0 /\ acked = 0 /\ saved = 0 /\ Up
  BY DEF Init, Up
<1>3. NothingSavedIsLost /\ AckedIsKept /\ FileBehind /\ SavedIsSomewhere
  BY <1>2 DEF NothingSavedIsLost, AckedIsKept, FileBehind, SavedIsSomewhere
<1>4. SavesCurrent /\ Holder /\ CopiesBehind /\ OwnBehind /\ RestoringHasPath /\ Quiet
  BY PersistenceAssumption
     DEF Init, SavesCurrent, Holder, CopiesBehind, OwnBehind, RestoringHasPath, Quiet, Up
<1>. QED
  BY <1>1, <1>3, <1>4 DEF Inv

LEMMA RequestInv == ASSUME Inv, NEW r \in Reqs, Request(r) PROVE Inv'
<1>0. (Memory' <=> Memory) /\ (Reloads' <=> Reloads) /\ (Continues' <=> Continues)
  BY Fixed DEF Request, Store, AnswerAndSave, AnswerOnly
<1>. USE <1>0
<1>1. CASE Store(r)
  <2>1. ver' \in Versions /\ ver' = ver + 1 /\ ver \in Int
    BY <1>1, PersistenceAssumption DEF Store, Inv, TypeOK, Versions
  <2>2. odd' \in BOOLEAN /\ req' \in [Reqs -> {"idle", "saves", "stored"}]
    BY <1>1 DEF Store, Inv, TypeOK
  <2>3. TypeOK'
    BY <1>1, <2>1, <2>2 DEF Store, Inv, TypeOK
  <2>4. NothingSavedIsLost' /\ AckedIsKept' /\ FileBehind' /\ SavedIsSomewhere'
    BY <1>1, <2>1, PersistenceAssumption
       DEF Store, Inv, TypeOK, Versions, NothingSavedIsLost, AckedIsKept, FileBehind,
           SavedIsSomewhere, Up
  <2>5. SavesCurrent' /\ Holder' /\ RestoringHasPath'
    BY <1>1, PersistenceAssumption
       DEF Store, Inv, TypeOK, SavesCurrent, Holder, RestoringHasPath, Up
  <2>6. CopiesBehind' /\ OwnBehind' /\ Quiet'
    BY <1>1, <2>1, PersistenceAssumption
       DEF Store, Inv, TypeOK, Versions, CopiesBehind, OwnBehind, Quiet, Up
  <2>. QED
    BY <2>3, <2>4, <2>5, <2>6 DEF Inv
<1>2. CASE AnswerAndSave(r) \/ AnswerOnly(r)
  <2>1. /\ Answered(r) /\ Up /\ UNCHANGED <<cfg, proc, phase, ver, mu, snap, disk>>
        /\ \/ UNCHANGED saver
           \/ \E s \in Savers : saver' = [saver EXCEPT ![s] = "open"] /\ saver[s] = "wait"
    BY <1>2 DEF AnswerAndSave, AnswerOnly
  <2>2. acked' \in Versions /\ (acked' = acked \/ acked' <= ver)
    BY <2>1, PersistenceAssumption DEF Answered, Inv, TypeOK, OwnBehind, Versions
  <2>3. TypeOK'
    BY <2>1, <2>2, PersistenceAssumption DEF Answered, Inv, TypeOK, Versions, disk
  <2>4. /\ NothingSavedIsLost' /\ AckedIsKept' /\ FileBehind' /\ SavedIsSomewhere'
        /\ RestoringHasPath'
    BY <2>1, <2>2
       DEF Inv, NothingSavedIsLost, AckedIsKept, FileBehind, SavedIsSomewhere,
           RestoringHasPath, Up, disk
  <2>5. SavesCurrent' /\ Holder' /\ CopiesBehind'
    BY <2>1 DEF Inv, TypeOK, SavesCurrent, Holder, CopiesBehind, Up
  <2>6. OwnBehind' /\ Quiet'
    BY <2>1, PersistenceAssumption DEF Answered, Inv, TypeOK, Versions, OwnBehind, Quiet, Up
  <2>. QED
    BY <2>3, <2>4, <2>5, <2>6 DEF Inv
<1>. QED
  BY <1>1, <1>2 DEF Request

LEMMA SaveInv == ASSUME Inv, NEW s \in Savers, Save(s) PROVE Inv'
<1>a. UNCHANGED <<cfg, proc, phase, ver, req, own, acked, odd, damaged>> /\ Up
  BY DEF Save, StoreTick, LoopReturns, OpenFails, Persist, Select, EncodeFails, SelectFails,
         MayCopy, WriteHalf, WriteRest, WriteFails, disk
<1>0. (Memory' <=> Memory) /\ (Reloads' <=> Reloads) /\ (Continues' <=> Continues)
  BY <1>a, Fixed
<1>. USE <1>0
<1>1. AckedIsKept' /\ OwnBehind' /\ RestoringHasPath' /\ Quiet'
  BY <1>a DEF Inv, AckedIsKept, OwnBehind, RestoringHasPath, Quiet, Up
<1>2. ASSUME UNCHANGED <<file, saved>> PROVE NothingSavedIsLost' /\ FileBehind' /\ SavedIsSomewhere'
  BY <1>a, <1>2 DEF Inv, NothingSavedIsLost, FileBehind, SavedIsSomewhere, Up
<1>3. CASE StoreTick(s) \/ LoopReturns(s) \/ OpenFails(s) \/ EncodeFails(s) \/ SelectFails(s)
  <2>1. /\ saver' \in [Savers -> {"wait", "open", "write", "half", "returned"}]
        /\ saver[s] \in {"wait", "open"} /\ saver'[s] \in {"wait", "open", "returned"}
        /\ \A t \in Savers : t # s => saver'[t] = saver[t]
        /\ UNCHANGED <<mu, snap, file, saved>>
    BY <1>3 DEF StoreTick, LoopReturns, OpenFails, EncodeFails, SelectFails, MayCopy, disk,
                Inv, TypeOK
  <2>2. TypeOK'
    BY <1>a, <2>1 DEF Inv, TypeOK
  <2>3. SavesCurrent' /\ Holder' /\ CopiesBehind'
    BY <1>a, <2>1 DEF Inv, SavesCurrent, Holder, CopiesBehind, Up
  <2>. QED
    BY <1>1, <1>2, <2>1, <2>2, <2>3 DEF Inv
<1>4. CASE Persist(s)
  <2>1. TypeOK' /\ SavesCurrent' /\ Holder' /\ CopiesBehind'
    BY <1>4, PersistenceAssumption
       DEF Persist, MayCopy, disk, Inv, TypeOK, Versions, SavesCurrent, Holder, CopiesBehind, Up
  <2>. QED
    BY <1>1, <1>2, <1>4, <2>1 DEF Persist, disk, Inv
<1>5. CASE Select(s)
  <2>1. TypeOK' /\ SavesCurrent' /\ Holder' /\ CopiesBehind'
    BY <1>5, PersistenceAssumption
       DEF Select, MayCopy, disk, Inv, TypeOK, Versions, SavesCurrent, Holder, CopiesBehind, Up
  <2>. QED
    BY <1>1, <1>2, <1>5, <2>1 DEF Select, disk, Inv
<1>6. CASE WriteHalf(s)
  <2>1. file'.ver = file.ver /\ file'.state \in {"cut", "mixed"} /\ saved' = saved
    BY <1>6 DEF WriteHalf, Inv, TypeOK
  <2>2. file' \in [state : {"empty", "whole", "cut", "mixed"}, ver : Versions]
    BY <1>6 DEF WriteHalf, Inv, TypeOK
  <2>3. TypeOK'
    BY <1>6, <2>2 DEF WriteHalf, Inv, TypeOK
  <2>4. SavesCurrent' /\ Holder' /\ CopiesBehind'
    BY <1>6 DEF WriteHalf, Inv, TypeOK, SavesCurrent, Holder, CopiesBehind, Up
  <2>5. NothingSavedIsLost' /\ FileBehind' /\ SavedIsSomewhere'
    BY <1>a, <2>1 DEF Inv, NothingSavedIsLost, FileBehind, SavedIsSomewhere, Up
  <2>. QED
    BY <1>1, <2>3, <2>4, <2>5 DEF Inv
<1>7. ASSUME Release(s), saver[s] \in {"write", "half"}
      PROVE  /\ mu' \in Savers \cup {Free} /\ snap' \in [Savers -> Versions]
             /\ saver' \in [Savers -> {"wait", "open", "write", "half", "returned"}]
             /\ SavesCurrent' /\ Holder' /\ CopiesBehind'
  <2>1. Memory => mu = s
    BY <1>a, <1>7 DEF Inv, SavesCurrent
  <2>. QED
    BY <1>a, <1>7, <2>1, PersistenceAssumption
       DEF Release, Inv, TypeOK, Versions, SavesCurrent, Holder, CopiesBehind, Up
<1>8. CASE WriteRest(s)
  <2>1. /\ Memory => snap[s] = ver
        /\ snap[s] <= ver /\ snap[s] \in Versions
    BY <1>8 DEF WriteRest, Inv, TypeOK, SavesCurrent, CopiesBehind, Up
  <2>2. /\ file' = [state |-> "whole", ver |-> snap[s]]
        /\ saved' = IF snap[s] > saved THEN snap[s] ELSE saved
    BY <1>8 DEF WriteRest
  <2>3. TypeOK'
    BY <1>a, <1>7, <1>8, <2>1, <2>2 DEF WriteRest, Inv, TypeOK
  <2>4. /\ ver \in Int /\ saved \in Int /\ file.ver \in Int /\ snap[s] \in Int
        /\ file'.ver = snap[s] /\ file'.state = "whole"
    BY <2>1, <2>2, PersistenceAssumption DEF Inv, TypeOK, Versions
  <2>5. NothingSavedIsLost'
    BY <1>a, <2>1, <2>2, <2>4 DEF Inv, NothingSavedIsLost
  <2>6. FileBehind'
    BY <1>a, <2>1, <2>4 DEF FileBehind
  <2>7. SavedIsSomewhere'
    BY <1>a, <2>1, <2>2, <2>4 DEF Inv, NothingSavedIsLost, SavedIsSomewhere
  <2>. QED
    BY <1>1, <1>7, <1>8, <2>3, <2>5, <2>6, <2>7 DEF WriteRest, Inv
<1>9. CASE WriteFails(s)
  <2>1. TypeOK'
    BY <1>a, <1>7, <1>9 DEF WriteFails, disk, Inv, TypeOK
  <2>. QED
    BY <1>1, <1>2, <1>7, <1>9, <2>1 DEF WriteFails, disk, Inv
<1>. QED
  BY <1>3, <1>4, <1>5, <1>6, <1>8, <1>9 DEF Save

\* A process that is not running holds no lock and has no requests or copies.
LEMMA DownInv ==
    ASSUME Inv, Gone, UNCHANGED <<cfg, ver, acked, disk>>, proc' \in {"exited", "crashed"}
    PROVE  Inv'
<1>1. (Memory' <=> Memory) /\ (Reloads' <=> Reloads) /\ (Continues' <=> Continues)
  BY Fixed
<1>2. TypeOK'
  BY PersistenceAssumption DEF Gone, disk, Inv, TypeOK, Versions
<1>. QED
  BY <1>1, <1>2
     DEF Gone, disk, Inv, NothingSavedIsLost, AckedIsKept, SavesCurrent, Holder, CopiesBehind,
         OwnBehind, RestoringHasPath, Quiet, FileBehind, SavedIsSomewhere, Up

\* A process begins to serve, with savers and requests that have not begun.
LEMMA ServeInv ==
    ASSUME Inv, ~Up, NEW v \in Versions, Serve(v), v >= 0,
           acked' \in Versions, odd' \in BOOLEAN, damaged' \in BOOLEAN,
           file' \in [state : {"empty", "whole", "cut", "mixed"}, ver : Versions]
    PROVE  TypeOK' /\ SavesCurrent' /\ Holder' /\ CopiesBehind' /\ OwnBehind'
           /\ RestoringHasPath' /\ Quiet'
<1>1. /\ mu' = Free /\ proc' = "up" /\ ver' = v
      /\ \A s \in Savers : saver'[s] = "wait"
      /\ \A r \in Reqs : own'[r] = 0
  BY DEF Serve, Inv, Quiet, OwnBehind
<1>2. TypeOK'
  BY <1>1 DEF Serve, Inv, TypeOK
<1>. QED
  BY <1>1, <1>2, PersistenceAssumption
     DEF SavesCurrent, Holder, CopiesBehind, OwnBehind, RestoringHasPath, Quiet, Up

LEMMA ProcessInv == ASSUME Inv, Process PROVE Inv'
<1>0. (Memory' <=> Memory) /\ (Reloads' <=> Reloads) /\ (Continues' <=> Continues)
  BY Fixed DEF Process, ListenFails, Signal, CloseListeners, Exit, Crash, Start, Truncate,
                 Restore, RestoreMixed, RestoreFails, Serve
<1>. USE <1>0
<1>1. CASE ListenFails \/ Signal \/ CloseListeners
  <2>1. /\ phase' \in {"serving", "unattended", "stopping", "closed"}
        /\ UNCHANGED <<cfg, proc, ver, mu, req, own, acked, saver, snap, disk>>
    BY <1>1 DEF ListenFails, Signal, CloseListeners
  <2>2. TypeOK'
    BY <2>1 DEF disk, Inv, TypeOK
  <2>. QED
    BY <2>1, <2>2 DEF disk, Inv, NothingSavedIsLost, AckedIsKept, SavesCurrent, Holder,
       CopiesBehind, OwnBehind, RestoringHasPath, Quiet, FileBehind, SavedIsSomewhere, Up
<1>2. CASE Exit \/ Crash
  BY <1>2, DownInv DEF Exit, Crash
<1>3. CASE Start
  <2>. DEFINE v == IF Memory THEN 0 ELSE ver
  <2>1. /\ ~Up /\ Serve(v) /\ saved' = saved /\ damaged' = damaged /\ ver' = v
        /\ v \in Versions /\ v >= 0 /\ acked' \in Versions /\ odd' \in BOOLEAN
        /\ Memory => v = 0
        /\ ~Memory => v = ver /\ acked' = acked
    BY <1>3, PersistenceAssumption DEF Start, Serve, Down, Up, Inv, TypeOK, Versions
  <2>2. \/ cfg.FileStoragePath = TempFile /\ file' = [state |-> "empty", ver |-> 0]
        \/ cfg.FileStoragePath # TempFile /\ file' = file
    BY <1>3 DEF Start
  <2>. HIDE DEF v
  <2>3. file' \in [state : {"empty", "whole", "cut", "mixed"}, ver : Versions]
        /\ file.ver \in Int /\ saved \in Int /\ ver \in Int /\ v \in Int /\ 0 <= saved
        /\ file'.ver \in Int
    BY <2>1, <2>2, PersistenceAssumption DEF Inv, TypeOK, Versions
  <2>4. Reloads => file' = file /\ saved = 0 /\ file.ver <= saved
    BY <1>3, <2>2 DEF Start, HasSnapshot, Reloads, Inv, SavedIsSomewhere
  <2>5. file'.ver = 0 \/ file'.ver = file.ver
    BY <2>2
  <2>6. AckedIsKept'
    BY <2>1 DEF Inv, AckedIsKept
  <2>7. NothingSavedIsLost'
    BY <2>1, <2>3, <2>4 DEF Inv, SavedIsSomewhere, NothingSavedIsLost
  <2>8. Continues => file'.ver <= v
    <3>1. CASE Reloads
      BY <2>1, <2>3, <2>4, <3>1
    <3>2. CASE ~Reloads /\ Memory
      BY <2>1, <2>2, <3>2 DEF Reloads, Continues
    <3>3. CASE ~Reloads /\ ~Memory
      BY <2>1, <2>3, <2>5, <3>3 DEF Inv, SavedIsSomewhere
    <3>. QED
      BY <3>1, <3>2, <3>3
  <2>9. FileBehind'
    BY <2>1, <2>8 DEF FileBehind
  <2>10. SavedIsSomewhere'
    <3>1. file'.ver <= saved
      BY <2>3, <2>5 DEF Inv, SavedIsSomewhere
    <3>2. ~Reloads /\ ~Memory => saved <= v
      BY <2>1 DEF Inv, SavedIsSomewhere
    <3>3. Reloads /\ Memory => saved = file'.ver
      BY <2>3, <2>4, <2>5, <3>1 DEF Inv, TypeOK, Versions
    <3>. QED
      BY <2>1, <2>4, <3>1, <3>2, <3>3 DEF SavedIsSomewhere
  <2>. QED
    BY <2>1, <2>3, <2>6, <2>7, <2>9, <2>10, ServeInv DEF Inv, TypeOK
<1>4. CASE Restore \/ RestoreMixed
  <2>1. /\ ~Up /\ Reloads /\ Serve(file.ver) /\ UNCHANGED <<saved, file>> /\ ver' = file.ver
        /\ acked' = file.ver /\ odd' \in BOOLEAN /\ damaged' \in BOOLEAN
        /\ damaged => damaged'
    BY <1>4 DEF Restore, RestoreMixed, Restored, Serve, Decodes, Down, HasSnapshot, Up,
                Inv, TypeOK, RestoringHasPath
  <2>2. file.ver \in Versions /\ file.ver \in Int /\ file.ver >= 0
    BY PersistenceAssumption DEF Inv, TypeOK, Versions
  <2>3. AckedIsKept' /\ FileBehind'
    BY <2>1, <2>2 DEF AckedIsKept, FileBehind
  <2>4. NothingSavedIsLost' /\ SavedIsSomewhere'
    BY <2>1, <2>2 DEF Inv, NothingSavedIsLost, SavedIsSomewhere
  <2>. QED
    BY <2>1, <2>2, <2>3, <2>4, ServeInv DEF Inv, TypeOK
<1>5. CASE Truncate
  <2>1. Reloads /\ ~Memory /\ ~Up /\ ~Up' /\ UNCHANGED <<file, saved>>
    BY <1>5 DEF Truncate, Down, HasSnapshot, Up
  <2>2. TypeOK'
    <3>1. odd' \in BOOLEAN
      BY <1>5 DEF Truncate
    <3>2. ver' \in Versions
      BY <1>5, PersistenceAssumption DEF Truncate, Versions
    <3>. QED
      BY <1>5, <3>1, <3>2 DEF Truncate, Inv, TypeOK
  <2>3. /\ NothingSavedIsLost' /\ AckedIsKept' /\ FileBehind' /\ SavedIsSomewhere'
        /\ RestoringHasPath'
    BY <2>1 DEF Inv, NothingSavedIsLost, AckedIsKept, FileBehind, SavedIsSomewhere,
                RestoringHasPath
  <2>4. SavesCurrent' /\ Holder' /\ CopiesBehind' /\ OwnBehind' /\ Quiet'
    BY <1>5, <2>1 DEF Truncate, Inv, SavesCurrent, Holder, CopiesBehind, OwnBehind, Quiet
  <2>. QED
    BY <2>2, <2>3, <2>4 DEF Inv
<1>6. CASE RestoreFails
  <2>1. ~Up /\ ~Up' /\ UNCHANGED <<cfg, phase, ver, mu, req, own, acked, saver, snap, disk>>
        /\ proc' = "exited"
    BY <1>6 DEF RestoreFails, Decodes, Down, Up
  <2>2. TypeOK'
    BY <2>1 DEF disk, Inv, TypeOK
  <2>. QED
    BY <2>1, <2>2 DEF disk, Inv, NothingSavedIsLost, AckedIsKept, SavesCurrent, Holder,
       CopiesBehind, OwnBehind, RestoringHasPath, Quiet, FileBehind, SavedIsSomewhere
<1>. QED
  BY <1>1, <1>2, <1>3, <1>4, <1>5, <1>6 DEF Process

LEMMA NextInv == Inv /\ [Next]_vars => Inv'
<1>1. CASE UNCHANGED vars
  BY <1>1, Fixed DEF vars, disk, Inv, TypeOK, NothingSavedIsLost, AckedIsKept, SavesCurrent,
     Holder, CopiesBehind, OwnBehind, RestoringHasPath, Quiet, FileBehind, SavedIsSomewhere, Up
<1>2. CASE Next
  BY <1>2, RequestInv, SaveInv, ProcessInv DEF Next
<1>. QED
  BY <1>1, <1>2

\* Type correctness: the versions of the table, the copies and the file stay in range.
THEOREM TypeCorrect == Spec => []TypeOK
<1>1. Inv => TypeOK
  BY DEF Inv
<1>. QED
  BY <1>1, InitInv, NextInv, PTL DEF Spec

\* When the table is kept in one place, whatever was ever saved in full is in the table of a
\* running server, across restarts; when it is kept in a file and a database, the last
\* save is. Except after a start on half a save.
THEOREM SavedIsKept == Spec => []NothingSavedIsLost
<1>1. Inv => NothingSavedIsLost
  BY DEF Inv
<1>. QED
  BY <1>1, InitInv, NextInv, PTL DEF Spec

\* A saver writes what the table holds at that moment.
THEOREM SavesAreCurrent == Spec => []SavesCurrent
<1>1. Inv => SavesCurrent
  BY DEF Inv
<1>. QED
  BY <1>1, InitInv, NextInv, PTL DEF Spec

\* On Postgres no answered update is lost, whatever crashes, as long as no snapshot is
\* restored over the table.
THEOREM AnswersAreKept == Spec => []AckedIsKept
<1>1. Inv => AckedIsKept
  BY DEF Inv
<1>. QED
  BY <1>1, InitInv, NextInv, PTL DEF Spec

\* With the storage in memory no save puts an older table over a newer one, however many
\* savers share the file.
THEOREM FileNeverGoesBack == Spec => FileMonotone
<1>1. ASSUME Inv, [Next]_vars, Memory, Continues, Up, ~damaged PROVE file'.ver >= file.ver
  <2>0. file.ver \in Int /\ ver \in Int
    BY <1>1, PersistenceAssumption DEF Inv, TypeOK, Versions
  <2>1. CASE file'.ver = file.ver
    BY <2>0, <2>1
  <2>2. ASSUME NEW s \in Savers, WriteRest(s) PROVE file'.ver >= file.ver
    <3>1. snap[s] = ver /\ file.ver <= ver
      BY <1>1, <2>2 DEF WriteRest, Inv, SavesCurrent, FileBehind
    <3>. QED
      BY <2>0, <2>2, <3>1 DEF WriteRest
  <2>3. ASSUME NEW s \in Savers, WriteHalf(s) PROVE file'.ver = file.ver
    BY <1>1, <2>3 DEF WriteHalf, Inv, TypeOK
  <2>4. ASSUME NEW r \in Reqs, Request(r) PROVE file' = file
    BY <2>4 DEF Request, Store, AnswerAndSave, AnswerOnly, disk
  <2>5. ASSUME NEW s \in Savers, Save(s), ~WriteRest(s), ~WriteHalf(s) PROVE file' = file
    BY <2>5 DEF Save, StoreTick, LoopReturns, OpenFails, Persist, Select, EncodeFails,
                SelectFails, WriteFails, disk
  <2>6. ASSUME Process PROVE file' = file
    BY <1>1, <2>6 DEF Process, ListenFails, Signal, CloseListeners, Exit, Crash, Start, Truncate,
                      Restore, RestoreMixed, RestoreFails, Decodes, Down, Up, disk
  <2>. QED
    BY <1>1, <2>1, <2>2, <2>3, <2>4, <2>5, <2>6 DEF Next, vars, disk
<1>2. Inv /\ [Next]_vars => [Memory /\ Continues /\ Up /\ ~damaged => file'.ver >= file.ver]_vars
  BY <1>1
<1>. QED
  BY <1>2, InitInv, NextInv, PTL DEF Spec, FileMonotone

LEMMA Keeping ==
    /\ Memory /\ Reloads   => KeptIn(cfg) = "snapshot"
    /\ Memory /\ ~Reloads  => KeptIn(cfg) = "nothing"
    /\ ~Memory /\ ~Reloads => KeptIn(cfg) = "database"
    /\ ~Memory /\ Reloads  => KeptIn(cfg) = "database and snapshot"
  BY DEF KeptIn, Memory, Reloads

\* What a step does to the table and to what was saved: it is one of Durable's, or none.
LEMMA StepImplements == ASSUME Inv, [Next]_vars PROVE [D!Next]_(D!vars)
<1>1. KeptIn(cfg)' = KeptIn(cfg) /\ (Memory' <=> Memory) /\ (Reloads' <=> Reloads)
  <2>1. UNCHANGED cfg
    BY DEF Next, vars, Request, Save, Process, Store, AnswerAndSave, AnswerOnly,
       StoreTick, LoopReturns, OpenFails, Persist, Select, EncodeFails, SelectFails, WriteHalf,
       WriteRest, WriteFails, ListenFails, Signal, CloseListeners, Exit, Crash, Start, Truncate,
       Restore, RestoreMixed, RestoreFails, Serve
  <2>. QED
    BY <2>1, Fixed DEF KeptIn
<1>2. ver \in Int /\ file.ver \in Int /\ file.ver >= 0
  BY PersistenceAssumption DEF Inv, TypeOK, Versions
<1>3. CASE Up' = Up /\ ver' = ver /\ file'.ver = file.ver /\ damaged' = damaged
  BY <1>1, <1>3 DEF D!vars
<1>4. ASSUME NEW r \in Reqs, Store(r) PROVE D!Update
  <2>1. Up /\ Up' = Up /\ ver' = ver + 1 /\ file' = file /\ damaged' = damaged
    BY <1>4 DEF Store, Up
  <2>. QED
    BY <1>1, <2>1 DEF D!Update
<1>5. ASSUME NEW s \in Savers, WriteRest(s) PROVE D!Save
  <2>1. /\ snap[s] <= ver /\ snap[s] \in Int /\ snap[s] >= 0
        /\ Memory => snap[s] = ver
    BY <1>5, PersistenceAssumption
       DEF WriteRest, Inv, TypeOK, Versions, SavesCurrent, CopiesBehind
  <2>2. file'.ver = snap[s] /\ ver' = ver /\ Up /\ Up' = Up /\ damaged' = damaged
    BY <1>5 DEF WriteRest, Up
  <2>3. CASE Memory
    <3>1. KeptIn(cfg) \in D!InMemory /\ snap[s] = ver
      BY Keeping, <2>1, <2>3 DEF D!InMemory
    <3>. QED
      BY <1>1, <2>2, <3>1 DEF D!Save
  <2>4. CASE ~Memory
    <3>1. KeptIn(cfg) \notin D!InMemory
      BY Keeping, <2>4 DEF D!InMemory
    <3>2. snap[s] \in 0 .. ver
      BY <1>2, <2>1
    <3>. QED
      BY <1>1, <2>2, <3>1, <3>2 DEF D!Save
  <2>. QED
    BY <2>3, <2>4
<1>6. ASSUME NEW s \in Savers, Save(s), ~WriteRest(s)
      PROVE  Up' = Up /\ ver' = ver /\ file'.ver = file.ver /\ damaged' = damaged
  BY <1>6 DEF Save, StoreTick, LoopReturns, OpenFails, Persist, Select, EncodeFails, SelectFails,
              WriteHalf, WriteFails, disk, Up, Inv, TypeOK
<1>7. ASSUME NEW r \in Reqs, Request(r), ~Store(r)
      PROVE  Up' = Up /\ ver' = ver /\ file'.ver = file.ver /\ damaged' = damaged
  BY <1>7 DEF Request, AnswerAndSave, AnswerOnly, disk, Up
<1>8. CASE Start
  <2>1. Reloads => file.ver = 0 /\ file' = file
    BY <1>2, <1>8, PersistenceAssumption
       DEF Start, HasSnapshot, Reloads, Inv, TypeOK, Versions, SavedIsSomewhere
  <2>2. /\ file'.ver \in {0, file.ver} /\ damaged' = damaged
        /\ Memory => ver' = 0
        /\ ~Memory => ver' = ver
    BY <1>8 DEF Start, Serve
  <2>3. ~Up /\ Up' = TRUE
    BY <1>8 DEF Start, Serve, Down, Up
  <2>4. CASE Memory /\ Reloads
    BY <1>1, Keeping, <2>1, <2>2, <2>3, <2>4 DEF D!Next, D!Resume, D!FromSnapshot
  <2>5. CASE Memory /\ ~Reloads
    BY <1>1, Keeping, <2>2, <2>3, <2>5 DEF D!Next, D!Resume, D!FromNothing
  <2>6. CASE ~Memory /\ ~Reloads
    BY <1>1, Keeping, <2>2, <2>3, <2>6 DEF D!Next, D!Resume, D!FromDatabase
  <2>7. CASE ~Memory /\ Reloads
    BY <1>1, Keeping, <2>1, <2>2, <2>3, <2>7 DEF D!Next, D!Resume, D!FromBoth
  <2>. QED
    BY <2>4, <2>5, <2>6, <2>7
<1>9. CASE Restore \/ RestoreMixed
  <2>1. Reloads /\ file' = file /\ ver' = file.ver
    BY <1>9 DEF Restore, RestoreMixed, Restored, Serve, Decodes, HasSnapshot, Inv,
                RestoringHasPath
  <2>2. ~Up /\ Up' = TRUE
    BY <1>9 DEF Restore, RestoreMixed, Serve, Decodes, Down, Up
  <2>3. \/ Memory /\ KeptIn(cfg) = "snapshot"
        \/ ~Memory /\ KeptIn(cfg) = "database and snapshot"
    BY <2>1, Keeping
  <2>4. CASE Restore
    <3>1. damaged' = damaged
      BY <2>4 DEF Restore
    <3>. QED
      BY <1>1, <2>1, <2>2, <2>3, <3>1 DEF D!Next, D!Resume, D!FromSnapshot, D!FromBoth
  <2>5. CASE RestoreMixed
    <3>1. damaged' = TRUE
      BY <2>5 DEF RestoreMixed
    <3>. QED
      BY <1>1, <2>2, <2>3, <3>1 DEF D!Next, D!ResumeDamaged
  <2>. QED
    BY <1>9, <2>4, <2>5
<1>10. CASE Truncate
  <2>1. ~Memory /\ Reloads /\ file' = file /\ ver' = 0 /\ damaged' = damaged
    BY <1>10 DEF Truncate, HasSnapshot
  <2>2. ~Up /\ Up' = Up
    BY <1>10 DEF Truncate, Down, Up
  <2>. QED
    BY <1>1, Keeping, <2>1, <2>2 DEF D!Next, D!Delete
<1>11. CASE ListenFails \/ Signal \/ CloseListeners \/ RestoreFails
  <2>1. Up' = Up /\ ver' = ver /\ file' = file /\ damaged' = damaged
    BY <1>11 DEF ListenFails, Signal, CloseListeners, RestoreFails, Decodes, Down, disk, Up
  <2>. QED
    BY <1>3, <2>1
<1>12. CASE Exit \/ Crash
  <2>1. ver' = ver /\ file' = file /\ damaged' = damaged /\ Up' = FALSE
    BY <1>12 DEF Exit, Crash, disk, Up
  <2>2. CASE Up
    BY <1>1, <2>1, <2>2 DEF D!Next, D!Stop
  <2>3. CASE ~Up
    <3>1. Up' = Up
      BY <2>1, <2>3 DEF Up
    <3>. QED
      BY <1>3, <2>1, <3>1
  <2>. QED
    BY <2>2, <2>3
<1>13. CASE UNCHANGED vars
  BY <1>3, <1>13 DEF vars, disk, Up
<1>. QED
  BY <1>3, <1>4, <1>5, <1>6, <1>7, <1>8, <1>9, <1>10, <1>11, <1>12, <1>13
     DEF Next, Process, D!Next

\* With all its locks, halves and crashes, the server implements the table of Durable,
\* which is saved, and goes on from what it kept, in one step.
THEOREM Implements == Spec => IsDurable
<1>1. Init => D!Init
  <2>1. KeptIn(cfg) \in D!Keepings
    BY Keeping DEF D!Keepings, D!InMemory
  <2>2. Init => Up \in BOOLEAN
    BY DEF Up
  <2>. QED
    BY <2>1, <2>2 DEF Init, D!Init
<1>2. Inv /\ [Next]_vars => [D!Next]_(D!vars)
  BY StepImplements
<1>. QED
  BY <1>1, <1>2, InitInv, NextInv, PTL DEF Spec, IsDurable, D!Spec
=============================================================================
