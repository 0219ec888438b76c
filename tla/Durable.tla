-------------------------------- MODULE Durable --------------------------------
(***************************************************************************)
(* What the server promises of its table across stops and starts: a save   *)
(* is one step that stores what the table holds, and a start is one step   *)
(* that continues with what was kept. Persistence implements it, with      *)
(* locks, files written in halves, and crashes.                            *)
(***************************************************************************)
EXTENDS Integers

VARIABLES
    keeping,    \* where the table is kept between a stop and a start
    serving,    \* the server runs
    table,      \* the number of updates in it
    saved,      \* the number of updates in what was saved last
    damaged     \* it was started on half a save

vars == <<keeping, serving, table, saved, damaged>>

InMemory == {"snapshot", "nothing"}
Keepings == InMemory \cup {"database", "database and snapshot"}

Init ==
    /\ keeping \in Keepings /\ serving \in BOOLEAN
    /\ table = 0 /\ saved = 0 /\ damaged = FALSE

Update == serving /\ table' = table + 1 /\ UNCHANGED <<keeping, serving, saved, damaged>>

\* The database is read without a lock, so that what is saved may be older.
Save ==
    /\ serving
    /\ IF keeping \in InMemory THEN saved' = table ELSE saved' \in 0 .. table
    /\ UNCHANGED <<keeping, serving, table, damaged>>

Stop == serving /\ serving' = FALSE /\ UNCHANGED <<keeping, table, saved, damaged>>

\* A start deletes the rows, and ends before it has replaced them.
Delete ==
    /\ ~serving /\ keeping = "database and snapshot"
    /\ table' = 0 /\ UNCHANGED <<keeping, serving, saved, damaged>>

FromSnapshot == keeping = "snapshot" /\ table' = saved /\ UNCHANGED saved

\* What was saved is there, but not read, or gone.
FromNothing == keeping = "nothing" /\ table' = 0 /\ saved' \in {0, saved}

FromDatabase == keeping = "database" /\ UNCHANGED table /\ saved' \in {0, saved}

\* The rows are replaced by what was saved, if anything was.
FromBoth ==
    /\ keeping = "database and snapshot"
    /\ table' = saved \/ (saved = 0 /\ UNCHANGED table)
    /\ UNCHANGED saved

Resume ==
    /\ ~serving /\ serving' = TRUE
    /\ FromSnapshot \/ FromNothing \/ FromDatabase \/ FromBoth
    /\ UNCHANGED <<keeping, damaged>>

\* Half a save may read as another table; nothing is promised from then on.
ResumeDamaged ==
    /\ ~serving /\ serving' = TRUE /\ keeping \in {"snapshot", "database and snapshot"}
    /\ damaged' = TRUE /\ UNCHANGED keeping

Adrift == damaged /\ UNCHANGED <<keeping, damaged>>

Next == Update \/ Save \/ Stop \/ Delete \/ Resume \/ ResumeDamaged \/ Adrift

Spec == Init /\ [][Next]_vars
=============================================================================
