--------------------------------- MODULE Config ---------------------------------
(***************************************************************************)
(* Where the agent and the server get their settings from: defaults,       *)
(* command line flags, environment and a JSON file, later ones overriding  *)
(* earlier ones. Source: NewConfig of internal/server/config.go and of     *)
(* internal/agent/config.go.                                               *)
(*                                                                         *)
(* Flags and environment are records of the settings that are given. An    *)
(* address is a record; a host without a scheme is followed by a port.     *)
(***************************************************************************)
EXTENDS Integers

CONSTANTS
    NoKey,      \* a key that is not set
    Broken,     \* a file that cannot be opened, is not JSON or lacks an interval
    NoConfig    \* NewConfig returns an error, and the process exits

Empty == ""                                              \* the string of what is not set
Unset == [f \in {} |-> Empty]                               \* no flags, no environment

\* Flags are parsed into the defaults, and the environment over both.
Override(cfg, given) == [f \in DOMAIN cfg |-> IF f \in DOMAIN given THEN given[f] ELSE cfg[f]]

Parsed(defaults, flags, env) == Override(Override(defaults, flags), env)

\* int64(d.Seconds()), of a duration in milliseconds: what is below a second is lost.
Seconds(ms) == IF ms >= 0 THEN ms \div 1000 ELSE -((-ms) \div 1000)

Addr(scheme, host, port) == [scheme |-> scheme, host |-> host, port |-> port]

defaultAddress == Addr(Empty, "localhost", 8080)

FileFails(cfg, file) == cfg.ConfigFile # Empty /\ file = Broken
----------------------------------------------------------------------------
(* The server *)

ServerDefaults ==
    [Address |-> defaultAddress, StoreInterval |-> 300, FileStoragePath |-> Empty,
     Restore |-> TRUE, DatabaseDSN |-> Empty, Key |-> NoKey, CryptoKey |-> NoKey,
     ConfigFile |-> Empty, TrustedSubnet |-> Empty]

\* Every one of these fields, set in the file or not. The file's subnet is not read.
OnServerFile(cfg, file) ==
    IF cfg.ConfigFile = Empty THEN cfg
    ELSE [cfg EXCEPT
            !.Address = file.Address, !.Restore = file.Restore,
            !.StoreInterval = Seconds(file.StoreInterval), !.FileStoragePath = file.StoreFile,
            !.DatabaseDSN = file.DatabaseDSN, !.CryptoKey = file.CryptoKey]

\* The prefix http:// goes; any other stays.
Bare(cfg) ==
    IF cfg.Address.scheme = "http" THEN [cfg EXCEPT !.Address.scheme = Empty] ELSE cfg

TempFile == "temp"                                       \* a new name, and a new file, every time

WithStoragePath(cfg) ==
    IF cfg.Restore /\ cfg.FileStoragePath = Empty
    THEN [cfg EXCEPT !.FileStoragePath = TempFile] ELSE cfg

\* net.ParseCIDR; "inside" is a subnet that the agent's address is in.
IsSubnet(t) == t \in {"inside", "outside"}

NewServerConfig(flags, env, file) ==
    LET cfg == Parsed(ServerDefaults, flags, env)
    IN  IF (cfg.TrustedSubnet # Empty /\ ~IsSubnet(cfg.TrustedSubnet)) \/ FileFails(cfg, file)
        THEN NoConfig
        ELSE WithStoragePath(Bare(OnServerFile(cfg, file)))

\* Where a server keeps its table between a stop and the next start: in a file that
\* the start reads, in the database, in both, or nowhere.
KeptIn(cfg) ==
    LET reloads == cfg.Restore /\ cfg.FileStoragePath # TempFile
    IN  IF cfg.DatabaseDSN = Empty THEN (IF reloads THEN "snapshot" ELSE "nothing")
        ELSE IF reloads THEN "database and snapshot" ELSE "database"
----------------------------------------------------------------------------
(* The agent *)

AgentDefaults ==
    [Address |-> defaultAddress, ReportInterval |-> 10, PollInterval |-> 2, RateLimit |-> 1024,
     Key |-> NoKey, CryptoKey |-> NoKey, ConfigFile |-> Empty, Protocol |-> "http"]

\* The file's protocol is not read.
OnAgentFile(cfg, file) ==
    IF cfg.ConfigFile = Empty THEN cfg
    ELSE [cfg EXCEPT
            !.Address = file.Address, !.ReportInterval = Seconds(file.ReportInterval),
            !.PollInterval = Seconds(file.PollInterval), !.CryptoKey = file.CryptoKey]

\* url.Parse: what stands before the first colon is a scheme, unless it begins with a
\* digit; then it is a path that must not have a colon.
IsURL(a)  == a.scheme # Empty \/ a.host # "127.0.0.1"
Scheme(a) == IF a.scheme # Empty THEN a.scheme ELSE a.host

WithScheme_URLs(cfg) ==                                  \* fault: looks for URLs only
    IF cfg.Protocol = "http" /\ cfg.Address.scheme \in {"localhost", "127.0.0.1"}
    THEN [cfg EXCEPT !.Address.scheme = "http"] ELSE cfg

WithScheme(cfg) ==
    IF cfg.Protocol = "http" /\ Scheme(cfg.Address) \in {"localhost", "127.0.0.1"}
    THEN [cfg EXCEPT !.Address.scheme = "http"] ELSE cfg

NewAgentConfig(flags, env, file) ==
    LET cfg  == Parsed(AgentDefaults, flags, env)
        read == OnAgentFile(cfg, file)
    IN  IF FileFails(cfg, file) \/ cfg.Protocol \notin {"http", "grpc"} THEN NoConfig
        ELSE IF ~IsURL(read.Address) THEN NoConfig
        ELSE WithScheme(read)
----------------------------------------------------------------------------
(* Where the two meet *)

\* The server listens on its address, and for gRPC on the next port. Neither listener
\* takes an address with a scheme.
Listens(s, protocol) == IF protocol = "http" THEN s.Address.port ELSE s.Address.port + 1

\* An HTTP client needs a URL, a gRPC client the name of a host.
Dials(a) == a.Address.scheme = IF a.Protocol = "http" THEN "http" ELSE Empty

SameHost(h, k) == h = k \/ {h, k} \subseteq {"localhost", "127.0.0.1"}

Reaches(a, s) ==
    /\ a # NoConfig /\ s # NoConfig /\ s.Address.scheme = Empty
    /\ Dials(a) /\ SameHost(a.Address.host, s.Address.host)
    /\ a.Address.port = Listens(s, a.Protocol)
=============================================================================
