-------------------------------- MODULE Delivery --------------------------------
(***************************************************************************)
(* A report on its way from the agent into the server's storage: Publish   *)
(* of the HTTP or the gRPC client, the three attempts of retry.Do, a       *)
(* network that loses requests and answers or delivers them after the      *)
(* client gave up, and a server that crashes and is started again, with    *)
(* the table that Durable says it has then. Source: internal/httpclient,   *)
(* internal/grpclient, pkg/retry, and on the server's side                 *)
(* updatesHandlerJSON, Update of internal/grpc/metrics, and main.          *)
(***************************************************************************)
EXTENDS Envelope, FiniteSets

CONSTANTS
    Reports,    \* the reports workers publish
    Content,    \* the list of metrics of each, in bytes
    Settings,   \* what agent and server may be started with
    NoAnswer

Statuses == {"ok", "wrongSignature", "forbidden", "badRequest", "internalError"}

ASSUME DeliveryAssumption ==
    /\ \A r \in Reports : Content[r] \in Seq(Range(Content[r]))
    /\ NoAnswer \notin Statuses
    /\ IsFiniteSet(Reports)

delays == <<1, 3, 5>>                                    \* seconds; not modelled
Tries  == Len(delays)

Tables == [Reports -> 0 .. Tries]
None   == [r \in Reports |-> 0]

VARIABLES
    conf,       \* [agent, server: what NewConfig makes of what each was given; given: the
                \* address given to each]
    at,         \* where each Publish is
    try,        \* which attempt it is at
    net,        \* requests on their way: report and attempt
    answer,     \* the answer to the attempt a client waits for
    errors,     \* attempts that ended in an error, as the client saw it (history)
    applied,    \* how often the storage has merged each report (history)
    got,        \* the lists the storage was given (history)
    up,         \* the server's process runs
    table,      \* how often each report counts in the table
    snapshot    \* the table that a start will restore, if there is one

server == <<up, table, snapshot>>
vars   == <<conf, at, try, net, answer, errors, applied, got, server>>

\* Type invariant: three attempts, and so three errors and three merges, at most.
TypeOK ==
    /\ conf \in Settings
    /\ at \in [Reports -> {"idle", "call", "wait", "sleep", "nil", "error"}]
    /\ try \in [Reports -> 0 .. Tries]
    /\ net \subseteq Reports \X (1 .. Tries)
    /\ answer \in [Reports -> Statuses \cup {NoAnswer}]
    /\ errors \in [Reports -> 0 .. Tries]
    /\ applied \in [Reports -> 0 .. Tries]
    /\ up \in BOOLEAN
    /\ table \in Tables
    /\ snapshot = {} \/ \E t \in Tables : snapshot = {t}

Init ==
    /\ conf \in Settings
    /\ at = [r \in Reports |-> "idle"]
    /\ try = [r \in Reports |-> 0]
    /\ net = {}
    /\ answer = [r \in Reports |-> NoAnswer]
    /\ errors = [r \in Reports |-> 0]
    /\ applied = [r \in Reports |-> 0]
    /\ got = {}
    /\ up = (conf.server # NoConfig)
    /\ table = None
    /\ snapshot = {}

Kept     == IF conf.server = NoConfig THEN "nothing" ELSE KeptIn(conf.server)
Database == Kept \in {"database", "database and snapshot"}
Reloads  == Kept \in {"snapshot", "database and snapshot"}

HTTP == conf.agent # NoConfig /\ conf.agent.Protocol = "http"

\* The histories count up to one more than they ever should (bound).
CountUp(n) == IF n <= Tries THEN n + 1 ELSE n

\* The request as the agent seals it and as the server opens it.
Request(r) ==
    IF HTTP THEN SealHTTP(conf.agent, Content[r]) ELSE SealGRPC(conf.agent, Content[r])
Opened(r) ==
    IF HTTP THEN OpenHTTP(conf.server, Request(r)) ELSE OpenGRPC(conf.server, Request(r))
----------------------------------------------------------------------------
(* The client *)

Publish(r) ==
    /\ at[r] = "idle" /\ conf.agent # NoConfig
    /\ at' = [at EXCEPT ![r] = "call"]
    /\ try' = [try EXCEPT ![r] = 1]
    /\ UNCHANGED <<conf, net, answer, errors, applied, got, server>>

Send(r) ==
    /\ at[r] = "call" /\ up /\ Reaches(conf.agent, conf.server)
    /\ Sendable(Request(r))
    /\ at' = [at EXCEPT ![r] = "wait"]
    /\ net' = net \cup {<<r, try[r]>>}
    /\ UNCHANGED <<conf, try, answer, errors, applied, got, server>>

\* An attempt ended in an error: retry.Do sleeps, after the last attempt as well.
Errs(r) ==
    /\ at' = [at EXCEPT ![r] = "sleep"]
    /\ errors' = [errors EXCEPT ![r] = CountUp(@)]
    /\ answer' = [answer EXCEPT ![r] = NoAnswer]

\* The request cannot be built, or the library refuses to send it (a report that the gRPC
\* client signed, always), or there is no connection, or nobody at its end.
SendFails(r) ==
    /\ at[r] = "call"
    /\ Errs(r)
    /\ UNCHANGED <<conf, try, net, applied, got, server>>

\* The connection breaks while the client waits. The request may have been lost, may
\* be on its way still, or may have been answered in vain.
Breaks(r) ==
    /\ at[r] = "wait"
    /\ Errs(r)
    /\ UNCHANGED <<conf, try, net, applied, got, server>>

IsNil_Any(r) == TRUE                                     \* fault: no client looks at the status

\* The HTTP client takes any answer for a success, the gRPC client only "ok".
IsNil(r) == HTTP \/ answer[r] = "ok"

\* Fault: retry.Do goes on after a success.
Succeeds_NoBreak(r) ==
    /\ at[r] = "wait" /\ answer[r] # NoAnswer /\ IsNil(r)
    /\ at' = [at EXCEPT ![r] = "sleep"]
    /\ answer' = [answer EXCEPT ![r] = NoAnswer]
    /\ UNCHANGED <<conf, try, net, errors, applied, got, server>>

Succeeds(r) ==
    /\ at[r] = "wait" /\ answer[r] # NoAnswer /\ IsNil(r)
    /\ at' = [at EXCEPT ![r] = "nil"]
    /\ answer' = [answer EXCEPT ![r] = NoAnswer]
    /\ UNCHANGED <<conf, try, net, errors, applied, got, server>>

Refused(r) ==
    /\ at[r] = "wait" /\ answer[r] # NoAnswer /\ ~IsNil(r)
    /\ Errs(r)
    /\ UNCHANGED <<conf, try, net, applied, got, server>>

\* Fault: retry.Do never gives up.
GivesUp_Never(r) == FALSE
GivesUp(r) == try[r] = Tries

\* The sleep is over: the next attempt, or the last error is returned.
Wake(r) ==
    /\ at[r] = "sleep"
    /\ IF GivesUp(r)
       THEN at' = [at EXCEPT ![r] = "error"] /\ UNCHANGED try
       ELSE /\ at' = [at EXCEPT ![r] = "call"]
            /\ try' = [try EXCEPT ![r] = IF @ < Tries THEN @ + 1 ELSE @]
    /\ UNCHANGED <<conf, net, answer, errors, applied, got, server>>
----------------------------------------------------------------------------
(* The server *)

\* The answer reaches the client if it still waits for this attempt.
Reply(r, n, status) ==
    answer' = IF at[r] = "wait" /\ try[r] = n THEN [answer EXCEPT ![r] = status] ELSE answer

StorageError == IF HTTP THEN "badRequest" ELSE "internalError"

\* The chain of middleware or of interceptors turns the request down.
TurnDown(r, n) ==
    /\ <<r, n>> \in net /\ Opened(r).status # "ok"
    /\ net' = net \ {<<r, n>>}
    /\ Reply(r, n, Opened(r).status)
    /\ UNCHANGED <<conf, at, try, errors, applied, got, server>>

\* The storage merges the batch. A commit whose outcome the server did not learn is
\* answered with an error.
Update(r, n) ==
    /\ <<r, n>> \in net /\ Opened(r).status = "ok"
    /\ net' = net \ {<<r, n>>}
    /\ applied' = [applied EXCEPT ![r] = CountUp(@)]
    /\ got' = got \cup {Contents(Opened(r))}
    /\ table' = [table EXCEPT ![r] = CountUp(@)]
    /\ Reply(r, n, "ok") \/ (Database /\ Reply(r, n, StorageError))
    /\ UNCHANGED <<conf, at, try, errors, up, snapshot>>

\* The database fails and the batch is rolled back.
UpdateFails(r, n) ==
    /\ <<r, n>> \in net /\ Opened(r).status = "ok" /\ Database
    /\ net' = net \ {<<r, n>>}
    /\ Reply(r, n, StorageError)
    /\ UNCHANGED <<conf, at, try, errors, applied, got, server>>
----------------------------------------------------------------------------
(* The server's process *)

\* A save, of what the table is or, on Postgres, was. Only a snapshot that a start will
\* read is of interest.
Save ==
    /\ up /\ Reloads
    /\ \E t \in Tables :
         /\ \A r \in Reports : t[r] <= table[r]
         /\ Database \/ t = table
         /\ snapshot' = {t}
    /\ UNCHANGED <<conf, at, try, net, answer, errors, applied, got, up, table>>

\* The process ends, and all connections with it.
Crash ==
    /\ up
    /\ up' = FALSE
    /\ net' = {}
    /\ UNCHANGED <<conf, at, try, answer, errors, applied, got, table, snapshot>>

Continued_Deletes ==                                     \* fault: every start deletes the rows
    IF Reloads /\ snapshot # {} THEN snapshot ELSE {None}

\* The table of a start: the snapshot's, or the one in the database, or an empty one.
Continued ==
    IF Reloads /\ snapshot # {} THEN snapshot
    ELSE IF Database THEN {table} ELSE {None}

Restart ==
    /\ ~up /\ conf.server # NoConfig
    /\ up' = TRUE
    /\ table' \in Continued
    /\ UNCHANGED <<conf, at, try, net, answer, errors, applied, got, snapshot>>
----------------------------------------------------------------------------
Client(r)    == Publish(r) \/ Send(r) \/ SendFails(r) \/ Succeeds(r) \/ Refused(r) \/ Wake(r)
Server(r, n) == TurnDown(r, n) \/ Update(r, n) \/ UpdateFails(r, n)

Next ==
    \/ \E r \in Reports : Client(r) \/ Breaks(r) \/ \E n \in 1 .. Tries : Server(r, n)
    \/ Save \/ Crash \/ Restart

Spec == Init /\ [][Next]_vars

\* The agent's goroutines run. Neither client sets a timeout: one whose connection does
\* not break waits as long as no answer comes.
FairSpec == Spec /\ \A r \in Reports : WF_vars(Client(r))
----------------------------------------------------------------------------
(* Properties *)

\* A counter counts twice only after a client saw an error: an attempt that was
\* answered well is the last, no more requests are sent than errors plus one, and a
\* start counts nothing again.
CountedTwiceOnlyAfterError ==
    \A r \in Reports : table[r] <= applied[r] /\ applied[r] <= errors[r] + 1

\* Whatever the settings on the two sides, the storage is given what the agent sent
\* or nothing: a wrong or a missing key never garbles a report or cuts it short.
Intact == got \subseteq {Content[r] : r \in Reports}

\* The settings of the two sides fit.
Fits ==
    /\ NoKey \in {conf.agent.Key, conf.server.Key} \/ conf.agent.Key = conf.server.Key
    /\ conf.agent.CryptoKey = conf.server.CryptoKey
    /\ conf.server.TrustedSubnet # "outside"

\* When the gRPC client returns nil, or the HTTP client with settings that fit and a
\* storage that cannot fail, the report is in the storage.
NilMeansStored ==
    \A r \in Reports :
        at[r] = "nil" /\ (HTTP => Fits /\ ~Database) => applied[r] >= 1

\* When the gRPC client returns nil and the table is kept in the database alone, the
\* report counts in it from then on, however often the server crashes.
NilMeansKept ==
    \A r \in Reports : at[r] = "nil" /\ ~HTTP /\ Kept = "database" => table[r] >= 1

\* The server as it is seen from the network is the one that Persistence implements.
Counted(t) == {x \in Reports \X (1 .. Tries) : x[2] <= t[x[1]]}
Total(t)   == Cardinality(Counted(t))
Saved      == IF snapshot = {} THEN 0 ELSE Total(CHOOSE t \in snapshot : TRUE)

D == INSTANCE Durable WITH
    keeping <- Kept, serving <- up, table <- Total(table), saved <- Saved, damaged <- FALSE

ServerIsDurable == D!Spec

\* Publish returns, after three attempts at the latest, if it does not wait for ever for
\* an answer that does not come: retry.Do itself ends, and an answer ends each attempt.
PublishReturns ==
    \A r \in Reports :
        at[r] = "call" ~> \/ at[r] \in {"nil", "error"}
                         \/ [](at[r] = "wait" /\ answer[r] = NoAnswer)

\* Given the same address, with http:// or with localhost and no scheme, an HTTP agent and
\* a server find each other, whether each took it from its flags, its environment or
\* its file, and whatever the other sources say.
SameAddressMeets ==
    /\ HTTP /\ conf.server # NoConfig
    /\ conf.given.agent = conf.given.server
    /\ \/ conf.given.agent.scheme = "http"
       \/ conf.given.agent.scheme = Empty /\ conf.given.agent.host = "localhost"
    => Reaches(conf.agent, conf.server)

\* hash_test.go:30: a correct hash, made with the server's key, is accepted. The agent
\* makes it over the encrypted and compressed bytes, and so must the server.
SameKeyAccepted ==
    conf.agent # NoConfig /\ conf.server # NoConfig /\ conf.agent.Key = conf.server.Key
    => \A r \in Reports : answer[r] # "wrongSignature"
=============================================================================
