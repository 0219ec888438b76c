---------------------------- MODULE MCPersistence ----------------------------
(* Instances of Persistence for TLC: the settings, made by NewServerConfig. *)
EXTENDS Persistence, TLC

CONSTANTS http, grpc, r1, r2

\* Of the flags -i, -f, -r and -d those that are set.
Flags(i, f, r, d) == [StoreInterval |-> i, FileStoragePath |-> f, Restore |-> r, DatabaseDSN |-> d]

\* The settings that the storage and its file depend on.
Of(c) == [f \in {"StoreInterval", "FileStoragePath", "Restore", "DatabaseDSN"} |-> c[f]]

ByFlags(i, f, r, d) == Of(NewServerConfig(Flags(i, f, r, d), Unset, Broken))

\* A file of settings overrides the flags, also with what it does not set, and knows
\* no less than a second: 500 ms are an interval of 0.
ByFile(ms) ==
    Of(NewServerConfig([ConfigFile |-> "json"] @@ Flags(1, "data", FALSE, "dsn"), Unset,
        [Address |-> defaultAddress, Restore |-> TRUE, StoreInterval |-> ms, StoreFile |-> "data",
         DatabaseDSN |-> Empty, CryptoKey |-> NoKey]))

\* With an interval of 0 the loops are off, and with -1 nothing saves at all.
AllSettings ==
    {ByFlags(1, f, r, d) : f \in {Empty, "data"}, r \in BOOLEAN, d \in {Empty, "dsn"}}
    \cup {ByFlags(0, "data", r, d) : r \in BOOLEAN, d \in {Empty, "dsn"}}
    \cup {ByFlags(-1, "data", TRUE, "dsn"), ByFile(500), ByFile(1500)}

MemorySync  == {ByFlags(0, "data", TRUE, Empty)}
MemoryTimed == {ByFlags(1, "data", TRUE, Empty)}

Symmetry == Permutations({http, grpc}) \cup Permutations({r1, r2})
=============================================================================
