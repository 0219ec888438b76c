------------------------------ MODULE MCDelivery ------------------------------
(* Instances of Delivery for TLC: the reports and the settings. *)
EXTENDS Delivery, TLC

CONSTANTS k1, k2, p1, p2, b1, b2, b3, b4, b5, r1

\* A report of two and a half blocks of the RSA key.
ReportContent == r1 :> <<b1, b2, b3, b4, b5>>

\* The gRPC server listens on the next port.
DialAddress(p) == Addr(Empty, "localhost", IF p = "http" THEN 8080 ELSE 8081)

\* Every pairing of flags that differ in whether a key is set and the same, in the subnet
\* and the storage, with an agent that dials where the server listens.
KeySettings ==
    {[agent    |-> NewAgentConfig([Key |-> x[1], CryptoKey |-> x[2], Protocol |-> p,
                                   Address |-> DialAddress(p)], Unset, Broken),
      server   |-> NewServerConfig([Key |-> y[1], CryptoKey |-> y[2], TrustedSubnet |-> y[3],
                                    DatabaseDSN |-> d], Unset, Broken),
      given    |-> [agent |-> DialAddress(p), server |-> defaultAddress]] :
        x \in {NoKey, k1} \X {NoKey, p1},
        y \in {NoKey, k1, k2} \X {NoKey, p1, p2} \X {Empty, "inside", "outside"},
        p \in {"http", "grpc"}, d \in {Empty, "dsn"}}

\* Everywhere a server may keep its table.
StorageSettings ==
    {[agent  |-> NewAgentConfig([Protocol |-> p, Address |-> DialAddress(p)], Unset, Broken),
      server |-> NewServerConfig([FileStoragePath |-> f, Restore |-> r, DatabaseDSN |-> d],
                                 Unset, Broken),
      given  |-> [agent |-> DialAddress(p), server |-> defaultAddress]] :
        f \in {Empty, "data"}, r \in BOOLEAN, d \in {Empty, "dsn"}, p \in {"http", "grpc"}}

Elsewhere == Addr(Empty, "localhost", 1)
Addresses ==
    {Addr(x, h, 8080) : x \in {Empty, "http", "https"},
                        h \in {"localhost", "127.0.0.1", "example.com"}}

\* The sources an address may come from, over another one in a weaker source.
AgentAt(source, a, p) ==
    CASE source = "flag" -> NewAgentConfig([Address |-> a, Protocol |-> p], Unset, Broken)
      [] source = "env"  ->
            NewAgentConfig([Address |-> Elsewhere, Protocol |-> p], [Address |-> a], Broken)
      [] source = "file" ->
            NewAgentConfig([Protocol |-> p, ConfigFile |-> "json"], [Address |-> Elsewhere],
                           [Address |-> a, ReportInterval |-> 10000, PollInterval |-> 2500,
                            CryptoKey |-> NoKey])
      [] source = "none" -> NewAgentConfig([ConfigFile |-> "json"], Unset, Broken)

ServerAt(source, a) ==
    CASE source = "flag" -> NewServerConfig([Address |-> a], Unset, Broken)
      [] source = "env"  -> NewServerConfig([Address |-> Elsewhere], [Address |-> a], Broken)
      [] source = "file" ->
            NewServerConfig([ConfigFile |-> "json"], [Address |-> Elsewhere],
                            [Address |-> a, Restore |-> TRUE, StoreInterval |-> 1500,
                             StoreFile |-> Empty, DatabaseDSN |-> Empty, CryptoKey |-> NoKey])
      [] source = "none" -> NewServerConfig([TrustedSubnet |-> "not a subnet"], Unset, Broken)

\* Every pairing of addresses and sources.
AddressSettings ==
    {[agent |-> AgentAt(x[1], x[2], p), server |-> ServerAt(y[1], y[2]),
      given |-> [agent |-> x[2], server |-> y[2]]] :
        x \in {"flag", "env", "file", "none"} \X Addresses,
        y \in {"flag", "env", "file", "none"} \X Addresses,
        p \in {"http", "grpc", "no protocol"}}

AllSettings == KeySettings \cup (StorageSettings \cup AddressSettings)
=============================================================================
