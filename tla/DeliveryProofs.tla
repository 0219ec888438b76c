---------------------------- MODULE DeliveryProofs ----------------------------
(***************************************************************************)
(* What holds of Delivery for any number of reports, of any contents, and  *)
(* whatever agent and server are started with.                             *)
(***************************************************************************)
EXTENDS Delivery, EnvelopeProofs, FiniteSetTheorems, TLAPS

(***************************************************************************)
(* That a report counts at most once more than the client saw errors needs *)
(* to know how attempts and errors go together (Attempts), that every      *)
(* request on its way belongs to an attempt that was made, and that those  *)
(* on their way and those merged are together no more than were sent       *)
(* (Accounts). No snapshot is ahead of the history (Behind).               *)
(***************************************************************************)
Attempts ==
    \A r \in Reports :
        /\ at[r] = "idle" => try[r] = 0 /\ errors[r] = 0
        /\ at[r] \in {"call", "wait", "nil"} => try[r] >= 1 /\ errors[r] = try[r] - 1
        /\ at[r] \in {"sleep", "error"} => try[r] >= 1 /\ errors[r] = try[r]

Sent(r) == IF at[r] = "call" THEN try[r] - 1 ELSE try[r]

OnItsWay(r, n) == IF <<r, n>> \in net THEN 1 ELSE 0

Accounts ==
    \A r \in Reports :
        /\ \A n \in 1 .. Tries : <<r, n>> \in net => n <= Sent(r)
        /\ applied[r] + OnItsWay(r, 1) + OnItsWay(r, 2) + OnItsWay(r, 3) <= Sent(r)

Behind ==
    /\ \A r \in Reports : table[r] <= applied[r]
    /\ \A t \in snapshot : \A r \in Reports : t[r] <= applied[r]

Inv == TypeOK /\ Attempts /\ Accounts /\ Behind

LEMMA ThreeTries == Tries = 3
  BY DEF Tries, delays

(***************************************************************************)
(* The chains of middleware and interceptors leave a status that there is. *)
(***************************************************************************)
HasStatus(x) == "status" \in DOMAIN x /\ x.status \in Statuses

LEMMA CheckStatus ==
    ASSUME NEW x, HasStatus(x), NEW ok, NEW status \in Statuses
    PROVE  HasStatus(Check(ok, status, x))
  BY DEF Check, Answer, HasStatus

LEMMA HashStatus == ASSUME NEW s, NEW x, HasStatus(x) PROVE HasStatus(WithHash(s, x))
  BY CheckStatus DEF WithHash, Statuses

LEMMA SubnetStatus ==
    ASSUME NEW s, NEW x, HasStatus(x)
    PROVE  HasStatus(WithTrustedSubnet(s, x)) /\ HasStatus(SubnetInterceptor(s, x))
  BY CheckStatus DEF WithTrustedSubnet, SubnetInterceptor, Statuses

LEMMA GzipStatus == ASSUME NEW s, NEW x, HasStatus(x) PROVE HasStatus(WithGzip(s, x))
  BY DEF WithGzip, Answer, HasStatus, Statuses

LEMMA DecryptStatus == ASSUME NEW s, NEW x, HasStatus(x) PROVE HasStatus(WithDecrypt(s, x))
  BY DEF WithDecrypt, Answer, HasStatus, Statuses

LEMMA DecodeStatus == ASSUME NEW s, NEW x, HasStatus(x) PROVE HasStatus(Decode(s, x))
  BY CheckStatus DEF Decode, Statuses

LEMMA OpenedStatus == ASSUME NEW r \in Reports PROVE Opened(r).status \in Statuses
<1>1. ASSUME NEW s, NEW req PROVE HasStatus(OpenHTTP(s, req)) /\ HasStatus(OpenGRPC(s, req))
  <2>1. HasStatus(Passed(req))
    BY DEF Passed, HasStatus, Statuses
  <2>. QED
    BY <2>1, HashStatus, SubnetStatus, GzipStatus, DecryptStatus, DecodeStatus
       DEF OpenHTTP, OpenGRPC
<1>. QED
  BY <1>1 DEF Opened, HasStatus

(***************************************************************************)
(* Every step preserves the invariant.                                     *)
(***************************************************************************)
LEMMA InitInv == Init => Inv
  BY ThreeTries
     DEF Init, Inv, TypeOK, Attempts, Accounts, Behind, Sent, OnItsWay, Tables, None

\* A step of a client changes nothing but its own place, attempt, errors and answer.
LEMMA ClientInv == ASSUME Inv, NEW r \in Reports, Client(r) \/ Breaks(r) PROVE Inv'
<1>. USE ThreeTries
<1>1. UNCHANGED <<conf, applied, server>>
  BY DEF Client, Publish, Send, SendFails, Errs, Breaks, Succeeds, Refused, Wake
<1>2. Behind'
  BY <1>1 DEF Inv, Behind, server
<1>3. CASE Publish(r)
  BY <1>1, <1>2, <1>3 DEF Publish, Inv, TypeOK, Attempts, Accounts, Sent, OnItsWay, server
<1>4. CASE Send(r)
  <2>1. net' = net \cup {<<r, try[r]>>} /\ try[r] \in 1 .. 3 /\ <<r, try[r]>> \notin net
    <3>1. at[r] = "call" /\ net' = net \cup {<<r, try[r]>>}
      BY <1>4 DEF Send
    <3>2. try[r] \in 0 .. 3 /\ try[r] >= 1
      BY <3>1 DEF Inv, TypeOK, Attempts
    <3>3. Sent(r) < try[r]
      BY <3>1, <3>2 DEF Sent
    <3>4. <<r, try[r]>> \in net => try[r] <= Sent(r)
      <4>1. try[r] \in 1 .. Tries
        BY <3>2
      <4>. QED
        BY <4>1 DEF Inv, Accounts
    <3>5. Sent(r) \in Int
      BY <3>1, <3>2 DEF Sent
    <3>. QED
      BY <3>1, <3>2, <3>3, <3>4, <3>5
  <2>2. TypeOK' /\ Attempts'
    BY <1>1, <1>4, <2>1 DEF Send, Inv, TypeOK, Attempts, server
  <2>3. ASSUME NEW q \in Reports
        PROVE  /\ \A n \in 1 .. Tries : <<q, n>> \in net' => n <= Sent(q)'
               /\ (applied[q] + OnItsWay(q, 1) + OnItsWay(q, 2) + OnItsWay(q, 3) <= Sent(q))'
    <3>1. CASE q = r
      BY <1>1, <1>4, <2>1, <3>1 DEF Send, Inv, TypeOK, Attempts, Accounts, Sent, OnItsWay
    <3>2. CASE q # r
      BY <1>1, <1>4, <2>1, <3>2 DEF Send, Inv, TypeOK, Accounts, Sent, OnItsWay
    <3>. QED
      BY <3>1, <3>2
  <2>4. Accounts'
    BY <2>3 DEF Accounts
  <2>. QED
    BY <1>2, <2>2, <2>4 DEF Inv
<1>5. CASE SendFails(r) \/ Breaks(r) \/ Refused(r)
  <2>1. Errs(r) /\ UNCHANGED <<try, net>> /\ at[r] \in {"call", "wait"}
    BY <1>5 DEF SendFails, Breaks, Refused
  <2>2. CountUp(errors[r]) = errors[r] + 1 /\ errors[r] + 1 \in 0 .. 3
    BY <2>1 DEF CountUp, Inv, TypeOK, Attempts
  <2>. QED
    BY <1>1, <1>2, <2>1, <2>2
       DEF Errs, Inv, TypeOK, Attempts, Accounts, Sent, OnItsWay, server
<1>6. CASE Succeeds(r)
  BY <1>1, <1>2, <1>6 DEF Succeeds, Inv, TypeOK, Attempts, Accounts, Sent, OnItsWay, server
<1>7. CASE Wake(r)
  BY <1>1, <1>2, <1>7
     DEF Wake, GivesUp, Inv, TypeOK, Attempts, Accounts, Sent, OnItsWay, server
<1>. QED
  BY <1>3, <1>4, <1>5, <1>6, <1>7 DEF Client

\* A request that is on its way was sent and not yet merged, so that there is room to
\* count it.
LEMMA RoomToCount ==
    ASSUME Inv, NEW r \in Reports, NEW n \in 1 .. Tries, <<r, n>> \in net
    PROVE  applied[r] + 1 <= Sent(r) /\ applied[r] \in 0 .. 2 /\ table[r] \in 0 .. 2
<1>. USE ThreeTries
<1>1. OnItsWay(r, n) = 1 /\ n \in {1, 2, 3} /\ \A k \in {1, 2, 3} : OnItsWay(r, k) \in {0, 1}
  BY DEF OnItsWay
<1>2. Sent(r) \in Int /\ Sent(r) <= 3 /\ applied[r] \in 0 .. 3
  BY DEF Inv, TypeOK, Sent
<1>3. applied[r] + OnItsWay(r, 1) + OnItsWay(r, 2) + OnItsWay(r, 3) <= Sent(r)
  BY DEF Inv, Accounts
<1>4. table[r] \in 0 .. 3 /\ table[r] <= applied[r]
  BY DEF Inv, TypeOK, Tables, Behind
<1>. QED
  BY <1>1, <1>2, <1>3, <1>4

LEMMA ServerInv == ASSUME Inv, NEW r \in Reports, NEW n \in 1 .. Tries, Server(r, n) PROVE Inv'
<1>. USE ThreeTries
<1>1. UNCHANGED <<conf, at, try, errors, up, snapshot>> /\ net' = net \ {<<r, n>>}
  BY DEF Server, TurnDown, Update, UpdateFails, server
<1>2. \E status \in Statuses : Reply(r, n, status)
  BY OpenedStatus DEF Server, TurnDown, Update, UpdateFails, StorageError, Statuses
<1>3. answer' \in [Reports -> Statuses \cup {NoAnswer}]
  BY <1>2 DEF Reply, Inv, TypeOK
<1>4. Attempts'
  BY <1>1 DEF Inv, Attempts
<1>5. CASE UNCHANGED <<applied, table>>
  BY <1>1, <1>3, <1>4, <1>5 DEF Inv, TypeOK, Accounts, Behind, Sent, OnItsWay
<1>6. CASE Update(r, n)
  <2>1. n <= Sent(r) /\ OnItsWay(r, n) = 1 /\ n \in {1, 2, 3}
    <3>1. <<r, n>> \in net
      BY <1>6 DEF Update
    <3>2. n <= Sent(r)
      BY <3>1 DEF Inv, Accounts
    <3>. QED
      BY <3>1, <3>2 DEF OnItsWay
  <2>2. applied[r] + 1 <= Sent(r) /\ applied[r] \in 0 .. 2
    BY <1>6, RoomToCount DEF Update
  <2>3. table[r] \in 0 .. 3 /\ table[r] <= applied[r]
    BY DEF Inv, TypeOK, Tables, Behind
  <2>4. /\ applied' = [applied EXCEPT ![r] = applied[r] + 1]
        /\ table' = [table EXCEPT ![r] = table[r] + 1]
    <3>1. CountUp(applied[r]) = applied[r] + 1 /\ CountUp(table[r]) = table[r] + 1
      BY <2>2, <2>3 DEF CountUp
    <3>. QED
      BY <1>6, <3>1 DEF Update
  <2>5. TypeOK'
    <3>1. applied' \in [Reports -> 0 .. 3] /\ table' \in [Reports -> 0 .. 3]
      BY <2>2, <2>3, <2>4 DEF Inv, TypeOK, Tables
    <3>. QED
      BY <1>1, <1>3, <3>1 DEF Inv, TypeOK, Tables
  <2>6. Behind'
    BY <1>1, <2>2, <2>3, <2>4 DEF Inv, TypeOK, Tables, Behind
  <2>7. Accounts'
    <3>1. ASSUME NEW q \in Reports, NEW k \in 1 .. Tries, <<q, k>> \in net' PROVE k <= Sent(q)'
      BY <1>1, <3>1 DEF Inv, Accounts, Sent
    <3>2. ASSUME NEW q \in Reports, q # r
          PROVE  (applied[q] + OnItsWay(q, 1) + OnItsWay(q, 2) + OnItsWay(q, 3) <= Sent(q))'
      BY <1>1, <2>4, <3>2 DEF Inv, TypeOK, Accounts, Sent, OnItsWay
    <3>3. /\ OnItsWay(r, 1)' = IF n = 1 THEN 0 ELSE OnItsWay(r, 1)
          /\ OnItsWay(r, 2)' = IF n = 2 THEN 0 ELSE OnItsWay(r, 2)
          /\ OnItsWay(r, 3)' = IF n = 3 THEN 0 ELSE OnItsWay(r, 3)
      BY <1>1 DEF OnItsWay
    <3>4. (applied[r] + OnItsWay(r, 1) + OnItsWay(r, 2) + OnItsWay(r, 3) <= Sent(r))'
      BY <1>1, <2>1, <2>2, <2>4, <3>3 DEF Inv, TypeOK, Accounts, Sent, OnItsWay
    <3>. QED
      BY <3>1, <3>2, <3>4 DEF Accounts
  <2>. QED
    BY <1>4, <2>5, <2>6, <2>7 DEF Inv
<1>. QED
  BY <1>5, <1>6 DEF Server, TurnDown, UpdateFails, server

LEMMA ProcessInv == ASSUME Inv, Save \/ Crash \/ Restart PROVE Inv'
<1>. USE ThreeTries
<1>1. UNCHANGED <<conf, at, try, answer, errors, applied>>
  BY DEF Save, Crash, Restart
<1>2. Attempts'
  BY <1>1 DEF Inv, Attempts
<1>3. CASE Save
  <2>1. PICK t \in Tables : (\A r \in Reports : t[r] <= table[r]) /\ snapshot' = {t}
    BY <1>3 DEF Save
  <2>2. TypeOK'
    BY <1>1, <1>3, <2>1 DEF Save, Inv, TypeOK
  <2>3. Behind'
    BY <1>1, <1>3, <2>1 DEF Save, Inv, TypeOK, Tables, Behind
  <2>. QED
    BY <1>1, <1>2, <1>3, <2>2, <2>3 DEF Save, Inv, Accounts, Sent, OnItsWay
<1>4. CASE Crash
  <2>1. TypeOK' /\ Behind'
    BY <1>1, <1>4 DEF Crash, Inv, TypeOK, Behind
  <2>2. ASSUME NEW r \in Reports
        PROVE  (applied[r] + OnItsWay(r, 1) + OnItsWay(r, 2) + OnItsWay(r, 3) <= Sent(r))'
    <3>1. applied[r] \in Int /\ Sent(r) \in Int /\ UNCHANGED <<applied[r], Sent(r)>>
      BY <1>1 DEF Inv, TypeOK, Sent
    <3>2. /\ OnItsWay(r, 1)' = 0 /\ OnItsWay(r, 2)' = 0 /\ OnItsWay(r, 3)' = 0
          /\ \A k \in {1, 2, 3} : OnItsWay(r, k) \in {0, 1}
      BY <1>4 DEF Crash, OnItsWay
    <3>3. applied[r] + OnItsWay(r, 1) + OnItsWay(r, 2) + OnItsWay(r, 3) <= Sent(r)
      BY DEF Inv, Accounts
    <3>4. applied[r] <= Sent(r)
      BY <3>1, <3>2, <3>3
    <3>. QED
      BY <3>1, <3>2, <3>4
  <2>. QED
    BY <1>2, <1>4, <2>1, <2>2 DEF Crash, Inv, Accounts
<1>5. CASE Restart
  <2>1. table' \in Continued /\ up' \in BOOLEAN /\ UNCHANGED <<net, snapshot>>
    BY <1>5 DEF Restart
  <2>2. ASSUME NEW t \in Continued PROVE t \in Tables /\ \A r \in Reports : t[r] <= applied[r]
    <3>1. t \in snapshot \cup {table, None}
      BY <2>2 DEF Continued
    <3>2. None \in Tables /\ \A r \in Reports : None[r] <= applied[r]
      BY DEF None, Tables, Inv, TypeOK
    <3>. QED
      BY <3>1, <3>2 DEF Inv, TypeOK, Behind
  <2>3. TypeOK' /\ Behind'
    BY <1>1, <2>1, <2>2 DEF Inv, TypeOK, Behind
  <2>. QED
    BY <1>1, <1>2, <2>1, <2>3 DEF Inv, Accounts, Sent, OnItsWay
<1>. QED
  BY <1>3, <1>4, <1>5

LEMMA NextInv == Inv /\ [Next]_vars => Inv'
<1>1. CASE UNCHANGED vars
  BY <1>1 DEF vars, server, Inv, TypeOK, Attempts, Accounts, Behind, Sent, OnItsWay
<1>. QED
  BY <1>1, ClientInv, ServerInv, ProcessInv DEF Next

\* Type correctness: three attempts, three errors and three merges at most, and every
\* answer has a status there is.
THEOREM TypeCorrect == Spec => []TypeOK
<1>1. Inv => TypeOK
  BY DEF Inv
<1>. QED
  BY <1>1, InitInv, NextInv, PTL DEF Spec

\* A report counts at most once more often than its client saw errors, whatever is lost,
\* late or broken, and however often the server crashes and starts again.
THEOREM DuplicatesNeedErrors == Spec => []CountedTwiceOnlyAfterError
<1>1. Inv => CountedTwiceOnlyAfterError
  <2>. SUFFICES ASSUME Inv, NEW r \in Reports
                PROVE  table[r] <= applied[r] /\ applied[r] <= errors[r] + 1
    BY DEF CountedTwiceOnlyAfterError
  <2>1. Sent(r) <= errors[r] + 1 /\ Sent(r) \in Int
    BY ThreeTries DEF Inv, TypeOK, Attempts, Sent
  <2>2. applied[r] <= Sent(r)
    <3>1. applied[r] \in Int /\ \A k \in {1, 2, 3} : OnItsWay(r, k) \in {0, 1}
      BY ThreeTries DEF Inv, TypeOK, OnItsWay
    <3>. QED
      BY <2>1, <3>1 DEF Inv, Accounts
  <2>. QED
    BY <2>1, <2>2, ThreeTries DEF Inv, TypeOK, Behind
<1>. QED
  BY <1>1, InitInv, NextInv, PTL DEF Spec

(***************************************************************************)
(* An answer "ok" says that the report counts in the database, and only    *)
(* "ok" is a success for the gRPC client.                                  *)
(***************************************************************************)
OkIsKept ==
    Kept = "database" =>
        \A r \in Reports : answer[r] = "ok" \/ (at[r] = "nil" /\ ~HTTP) => table[r] >= 1

\* The settings never change.
LEMMA Fixed == ASSUME UNCHANGED conf PROVE Kept' = Kept /\ (HTTP' <=> HTTP)
  BY DEF Kept, HTTP

LEMMA SettingsFixed == ASSUME [Next]_vars PROVE UNCHANGED conf
<1>1. ASSUME NEW r \in Reports, Client(r) \/ Breaks(r) PROVE UNCHANGED conf
  BY <1>1 DEF Client, Publish, Send, SendFails, Breaks, Succeeds, Refused, Wake
<1>2. ASSUME NEW r \in Reports, NEW n \in 1 .. Tries, Server(r, n) PROVE UNCHANGED conf
  BY <1>2 DEF Server, TurnDown, Update, UpdateFails
<1>3. ASSUME Save \/ Crash \/ Restart \/ UNCHANGED vars PROVE UNCHANGED conf
  BY <1>3 DEF Save, Crash, Restart, vars
<1>. QED
  BY <1>1, <1>2, <1>3 DEF Next

LEMMA OkIsKeptNext == Inv /\ OkIsKept /\ [Next]_vars => OkIsKept'
<1>. SUFFICES ASSUME Inv, OkIsKept, [Next]_vars, Kept = "database", HTTP' <=> HTTP,
                     NEW q \in Reports, (answer[q] = "ok" \/ (at[q] = "nil" /\ ~HTTP))'
              PROVE  (table[q] >= 1)'
  BY SettingsFixed, Fixed DEF OkIsKept
<1>1. table[q] \in Int /\ table[q] >= 0 /\ NoAnswer # "ok"
  <2>1. table \in [Reports -> 0 .. 3]
    BY ThreeTries DEF Inv, TypeOK, Tables
  <2>2. table[q] \in 0 .. 3
    BY <2>1
  <2>3. NoAnswer # "ok"
    BY DeliveryAssumption DEF Statuses
  <2>. QED
    BY <2>2, <2>3
<1>2. table[q] >= 1 \/ ~(answer[q] = "ok" \/ (at[q] = "nil" /\ ~HTTP))
  BY DEF OkIsKept
<1>3. ASSUME NEW r \in Reports, Client(r) \/ Breaks(r) PROVE (table[q] >= 1)'
  <2>1. UNCHANGED table
    BY <1>3 DEF Client, Publish, Send, SendFails, Breaks, Succeeds, Refused, Wake, server
  <2>2. CASE Succeeds(r)
    BY <1>1, <1>2, <2>1, <2>2 DEF Succeeds, IsNil, Inv, TypeOK
  <2>3. CASE ~Succeeds(r)
    BY <1>1, <1>2, <1>3, <2>1, <2>3
       DEF Client, Publish, Send, SendFails, Breaks, Refused, Wake, Errs, Inv, TypeOK
  <2>. QED
    BY <2>2, <2>3
<1>4. ASSUME NEW r \in Reports, NEW n \in 1 .. Tries, Server(r, n) PROVE (table[q] >= 1)'
  <2>1. CASE Update(r, n)
    <3>1. table' = [table EXCEPT ![r] = CountUp(table[r])] /\ UNCHANGED at
      BY <2>1 DEF Update
    <3>2. CASE q = r
      <4>1. table'[q] = CountUp(table[q])
        BY <3>1, <3>2 DEF Inv, TypeOK, Tables
      <4>. QED
        BY <1>1, <4>1, ThreeTries DEF CountUp
    <3>3. CASE q # r
      <4>1. table'[q] = table[q] /\ answer'[q] = answer[q]
        BY <2>1, <3>1, <3>3 DEF Update, Reply, Inv, TypeOK, Tables
      <4>. QED
        BY <1>2, <3>1, <4>1
    <3>. QED
      BY <3>2, <3>3
  <2>2. CASE TurnDown(r, n) \/ UpdateFails(r, n)
    <3>1. PICK status \in Statuses : Reply(r, n, status) /\ status # "ok"
      BY <2>2, OpenedStatus DEF TurnDown, UpdateFails, StorageError, Statuses
    <3>2. UNCHANGED <<at, table>>
      BY <2>2 DEF TurnDown, UpdateFails, server
    <3>. QED
      BY <1>2, <3>1, <3>2 DEF Reply, Inv, TypeOK
  <2>. QED
    BY <1>4, <2>1, <2>2 DEF Server
<1>5. CASE Save \/ Crash
  BY <1>2, <1>5 DEF Save, Crash
<1>6. CASE Restart
  <2>1. UNCHANGED <<at, answer>> /\ table' \in Continued
    BY <1>6 DEF Restart
  <2>2. Continued = {table}
    BY DEF Continued, Reloads, Database
  <2>. QED
    BY <1>2, <2>1, <2>2
<1>7. CASE UNCHANGED vars
  BY <1>2, <1>7 DEF vars, server
<1>. QED
  BY <1>3, <1>4, <1>5, <1>6, <1>7 DEF Next

\* A report that the gRPC client returned nil for counts from then on, if the table is
\* kept in the database alone.
THEOREM SuccessIsKept == Spec => []NilMeansKept
<1>1. Init => OkIsKept
  BY DeliveryAssumption DEF Init, OkIsKept, Statuses
<1>2. OkIsKept => NilMeansKept
  BY DEF OkIsKept, NilMeansKept
<1>. QED
  BY <1>1, <1>2, OkIsKeptNext, InitInv, NextInv, PTL DEF Spec

(***************************************************************************)
(* The server as it is seen from the network: the table of Durable.        *)
(***************************************************************************)
LEMMA TotalType == ASSUME NEW t PROVE IsFiniteSet(Counted(t)) /\ Total(t) \in Nat
<1>1. IsFiniteSet(Reports \X (1 .. Tries))
  <2>1. IsFiniteSet(1 .. Tries)
    <3>1. 1 \in Int /\ Tries \in Int
      BY ThreeTries
    <3>. QED
      BY <3>1, FS_Interval
  <2>. QED
    BY <2>1, DeliveryAssumption, FS_Product
<1>2. Counted(t) \subseteq Reports \X (1 .. Tries)
  BY DEF Counted
<1>3. IsFiniteSet(Counted(t))
  BY <1>1, <1>2, FS_Subset
<1>. QED
  BY <1>3, FS_CardinalityType DEF Total

LEMMA TotalNone == Total(None) = 0
<1>1. Counted(None) = {}
  BY ThreeTries DEF Counted, None
<1>. QED
  BY <1>1, FS_EmptySet DEF Total

\* A smaller table counts no more.
LEMMA TotalBehind ==
    ASSUME NEW t \in Tables, NEW u \in Tables, \A r \in Reports : t[r] <= u[r]
    PROVE  Total(t) <= Total(u)
<1>1. Counted(t) \subseteq Counted(u)
  <2>. SUFFICES ASSUME NEW x \in Counted(t) PROVE x \in Counted(u)
    OBVIOUS
  <2>1. x \in Reports \X (1 .. Tries) /\ x[1] \in Reports /\ x[2] \in 1 .. 3 /\ x[2] <= t[x[1]]
    BY ThreeTries DEF Counted
  <2>2. t[x[1]] \in Int /\ u[x[1]] \in Int /\ t[x[1]] <= u[x[1]]
    BY <2>1, ThreeTries DEF Tables
  <2>. QED
    BY <2>1, <2>2 DEF Counted
<1>. QED
  BY <1>1, TotalType, FS_Subset DEF Total

\* One report more counts one more.
LEMMA TotalUp ==
    ASSUME NEW t \in Tables, NEW r \in Reports, t[r] < Tries
    PROVE  Total([t EXCEPT ![r] = t[r] + 1]) = Total(t) + 1
<1>. DEFINE u == [t EXCEPT ![r] = t[r] + 1]
            x == <<r, t[r] + 1>>
<1>1. t[r] \in 0 .. 2 /\ x \in Reports \X (1 .. Tries) /\ x[1] = r /\ x[2] = t[r] + 1
  BY ThreeTries DEF Tables
<1>2. x \notin Counted(t)
  BY <1>1 DEF Counted
<1>3. Counted(u) = Counted(t) \cup {x}
  <2>1. ASSUME NEW y \in Reports \X (1 .. Tries) PROVE y[2] <= u[y[1]] <=> y[2] <= t[y[1]] \/ y = x
    <3>1. PICK q \in Reports, k \in 1 .. 3 : y = <<q, k>>
      BY ThreeTries
    <3>2. CASE q = r
      BY <1>1, <3>1, <3>2 DEF Tables
    <3>3. CASE q # r
      BY <1>1, <3>1, <3>3 DEF Tables
    <3>. QED
      BY <3>2, <3>3
  <2>. QED
    BY <1>1, <2>1 DEF Counted
<1>. QED
  BY <1>2, <1>3, TotalType, FS_AddElement DEF Total

LEMMA Keeping ==
    /\ Database <=> Kept \notin D!InMemory
    /\ ~Database /\ Reloads  <=> Kept = "snapshot"
    /\ ~Database /\ ~Reloads <=> Kept = "nothing"
    /\ Database /\ ~Reloads  <=> Kept = "database"
    /\ Database /\ Reloads   <=> Kept = "database and snapshot"
<1>1. Kept \in {"snapshot", "nothing", "database", "database and snapshot"}
  BY DEF Kept, KeptIn
<1>. QED
  BY <1>1 DEF Database, Reloads, D!InMemory

(***************************************************************************)
(* A request on its way is one that could be sent, to a server that runs.  *)
(***************************************************************************)
Transit ==
    /\ net # {} => up
    /\ \A r \in Reports : \A n \in 1 .. Tries : <<r, n>> \in net => Sendable(Request(r))

\* A client puts no request on its way but such a one.
LEMMA ClientTransit ==
    ASSUME Inv, Transit, NEW r \in Reports, Client(r) \/ Breaks(r), UNCHANGED conf
    PROVE  Transit'
<1>1. \A q \in Reports : UNCHANGED Request(q)
  BY DEF Request, HTTP
<1>2. CASE Send(r)
  <2>1. up /\ UNCHANGED up /\ Sendable(Request(r)) /\ net' = net \cup {<<r, try[r]>>}
    BY <1>2 DEF Send, server
  <2>2. ASSUME NEW q \in Reports, NEW n \in 1 .. Tries, <<q, n>> \in net'
        PROVE  Sendable(Request(q))
    BY <2>1, <2>2 DEF Transit
  <2>. QED
    BY <1>1, <2>1, <2>2 DEF Transit, Sendable
<1>3. CASE ~Send(r)
  <2>1. UNCHANGED <<net, up>>
    BY <1>3 DEF Client, Publish, SendFails, Breaks, Succeeds, Refused, Wake, server
  <2>. QED
    BY <1>1, <2>1 DEF Transit, Sendable
<1>. QED
  BY <1>2, <1>3

LEMMA TransitNext == Inv /\ Transit /\ [Next]_vars => Transit'
<1>. SUFFICES ASSUME Inv, Transit, [Next]_vars PROVE Transit'
  OBVIOUS
<1>1. UNCHANGED conf /\ \A q \in Reports : UNCHANGED Request(q)
  BY SettingsFixed DEF Request, HTTP
<1>2. ASSUME NEW r \in Reports, Client(r) \/ Breaks(r) PROVE Transit'
  BY <1>1, <1>2, ClientTransit
<1>3. CASE net' \subseteq net /\ UNCHANGED up
  BY <1>1, <1>3 DEF Transit, Sendable
<1>4. CASE net' = {}
  BY <1>4 DEF Transit
<1>5. ASSUME NEW r \in Reports, NEW n \in 1 .. Tries, Server(r, n)
      PROVE  net' \subseteq net /\ UNCHANGED up
  BY <1>5 DEF Server, TurnDown, Update, UpdateFails, server
<1>6. CASE Save \/ UNCHANGED vars
  BY <1>3, <1>6 DEF Save, vars, server
<1>7. CASE Crash
  BY <1>4, <1>7 DEF Crash
<1>8. CASE Restart
  <2>1. net' = {}
    BY <1>8 DEF Restart, Transit
  <2>. QED
    BY <1>4, <2>1
<1>. QED
  BY <1>2, <1>3, <1>5, <1>6, <1>7, <1>8 DEF Next

LEMMA TransitInit == Init => Transit
  BY DEF Init, Transit

\* A step updates the table, saves it, stops the server or starts it with what was kept, or
\* is none of these.
LEMMA StepImplements ==
    ASSUME Inv, Transit, [Next]_vars
    PROVE  [D!Update \/ D!Save \/ D!Stop \/ D!Resume]_<<Kept, up, Total(table), Saved, FALSE>>
<1>0. Kept' = Kept
  BY SettingsFixed, Fixed
<1>1. CASE UNCHANGED <<up, table, snapshot>>
  BY <1>0, <1>1 DEF Saved, Total, Counted
<1>2. ASSUME NEW r \in Reports, NEW n \in 1 .. Tries, Update(r, n) PROVE D!Update
  <2>1. table' = [table EXCEPT ![r] = CountUp(table[r])] /\ UNCHANGED <<up, snapshot>> /\ up
    BY <1>2 DEF Update, Transit
  <2>2. table \in Tables /\ table[r] < Tries
    <3>1. <<r, n>> \in net
      BY <1>2 DEF Update
    <3>2. table[r] \in 0 .. 2
      BY <3>1, RoomToCount
    <3>. QED
      BY <3>2, ThreeTries DEF Inv, TypeOK
  <2>3. CountUp(table[r]) = table[r] + 1
    BY <2>2, ThreeTries DEF CountUp, Tables
  <2>4. Total(table)' = Total(table) + 1
    BY <2>1, <2>2, <2>3, TotalUp DEF Total, Counted
  <2>. QED
    BY <1>0, <2>1, <2>4 DEF D!Update, Saved, Total, Counted
<1>3. CASE Save
  <2>1. PICK t \in Tables : /\ \A r \in Reports : t[r] <= table[r]
                            /\ Database \/ t = table
                            /\ snapshot' = {t}
    BY <1>3 DEF Save
  <2>2. Saved' = Total(t) /\ UNCHANGED <<up, table>> /\ up
    BY <1>3, <2>1 DEF Save, Saved, Total, Counted
  <2>3. Total(t) \in 0 .. Total(table)
    BY <2>1, TotalType, TotalBehind DEF Inv, TypeOK
  <2>. QED
    BY <1>0, <2>1, <2>2, <2>3, Keeping DEF D!Save, Total, Counted
<1>4. CASE Restart
  <2>1. table' \in Continued /\ UNCHANGED snapshot /\ ~up /\ up' = TRUE
    BY <1>4 DEF Restart
  <2>2. UNCHANGED Saved
    BY <2>1 DEF Saved, Total, Counted
  <2>3. CASE Reloads /\ snapshot # {}
    <3>1. PICK t \in Tables : snapshot = {t}
      BY <2>3 DEF Inv, TypeOK
    <3>2. table' = t /\ Saved = Total(t)
      BY <2>1, <2>3, <3>1 DEF Continued, Saved
    <3>3. Total(table)' = Saved
      BY <3>2 DEF Total, Counted
    <3>. QED
      BY <1>0, <2>1, <2>2, <2>3, <3>3, Keeping DEF D!Resume, D!FromSnapshot, D!FromBoth
  <2>4. CASE ~(Reloads /\ snapshot # {}) /\ Database
    <3>1. UNCHANGED Total(table)
      BY <2>1, <2>4 DEF Continued, Total, Counted
    <3>2. Reloads => Saved = 0
      BY <2>4 DEF Saved
    <3>. QED
      BY <1>0, <2>1, <2>2, <2>4, <3>1, <3>2, Keeping DEF D!Resume, D!FromDatabase, D!FromBoth
  <2>5. CASE ~(Reloads /\ snapshot # {}) /\ ~Database
    <3>1. Total(table)' = 0
      BY <2>1, <2>5, TotalNone DEF Continued, Total, Counted
    <3>2. Reloads => Saved = 0
      BY <2>5 DEF Saved
    <3>. QED
      BY <1>0, <2>1, <2>2, <2>5, <3>1, <3>2, Keeping DEF D!Resume, D!FromSnapshot, D!FromNothing
  <2>. QED
    BY <2>3, <2>4, <2>5
<1>5. ASSUME NEW r \in Reports, Client(r) \/ Breaks(r) PROVE UNCHANGED <<up, table, snapshot>>
  BY <1>5 DEF Client, Publish, Send, SendFails, Breaks, Succeeds, Refused, Wake, server
<1>6. ASSUME NEW r \in Reports, NEW n \in 1 .. Tries, TurnDown(r, n) \/ UpdateFails(r, n)
      PROVE  UNCHANGED <<up, table, snapshot>>
  BY <1>6 DEF TurnDown, UpdateFails, server
<1>7. CASE UNCHANGED vars
  BY <1>1, <1>7 DEF vars, server
<1>8. CASE Crash
  BY <1>0, <1>8 DEF Crash, D!Stop, Saved, Total, Counted
<1>. QED
  BY <1>1, <1>2, <1>3, <1>4, <1>5, <1>6, <1>7, <1>8 DEF Next, Server

\* With its clients' retries, its losses and its crashes, the server behaves as Durable
\* says, which Persistence implements with locks and files.
THEOREM Implements == Spec => ServerIsDurable
<1>1. Init => D!Init
  <2>1. Kept \in D!Keepings
    BY DEF Kept, KeptIn, D!Keepings, D!InMemory
  <2>. QED
    BY <2>1, TotalNone DEF Init, Saved, D!Init
<1>2. Inv /\ Transit /\ [Next]_vars => [D!Next]_D!vars
  BY StepImplements DEF D!vars, D!Next
<1>. QED
  BY <1>1, <1>2, InitInv, NextInv, TransitInit, TransitNext, PTL
     DEF Spec, ServerIsDurable, D!Spec

(***************************************************************************)
(* What the settings are: what NewConfig makes of some flags, environment  *)
(* and file, and the address that each side was given is the one it reads. *)
(***************************************************************************)
IsAddress(a) == \E scheme, host, port : a = Addr(scheme, host, port)

AgentRead(x) ==
    \E flags, env, file :
        /\ x.agent = NewAgentConfig(flags, env, file)
        /\ x.given.agent = OnAgentFile(Parsed(AgentDefaults, flags, env), file).Address

ServerRead(x) ==
    \E flags, env, file :
        /\ x.server = NewServerConfig(flags, env, file)
        /\ x.given.server = OnServerFile(Parsed(ServerDefaults, flags, env), file).Address

AllRead ==
    \A x \in Settings :
        /\ x.agent # NoConfig => AgentRead(x) /\ IsAddress(x.given.agent)
        /\ x.server # NoConfig => ServerRead(x) /\ IsAddress(x.given.server)

\* An HTTP agent dials the host and the port it was given, with the scheme http if that
\* was given, or localhost as what url.Parse takes for a scheme.
LEMMA HTTPAgent ==
    ASSUME NEW x, x.agent # NoConfig, AgentRead(x), IsAddress(x.given.agent),
           x.agent.Protocol = "http"
    PROVE  /\ x.agent.Address.host = x.given.agent.host
           /\ x.agent.Address.port = x.given.agent.port
           /\ \/ x.given.agent.scheme = "http"
              \/ x.given.agent.scheme = Empty /\ x.given.agent.host = "localhost"
              => x.agent.Address.scheme = "http"
<1>1. PICK flags, env, file : /\ x.agent = NewAgentConfig(flags, env, file)
                              /\ x.given.agent = OnAgentFile(Parsed(AgentDefaults, flags, env), file).Address
  BY DEF AgentRead
<1>2. PICK read : read = OnAgentFile(Parsed(AgentDefaults, flags, env), file)
  OBVIOUS
<1>3. x.agent = WithScheme(read) /\ x.given.agent = read.Address
  BY <1>1, <1>2 DEF NewAgentConfig
<1>4. "Address" \in DOMAIN read /\ read = [f \in DOMAIN read |-> read[f]]
  <2>1. PICK cfg : cfg = Parsed(AgentDefaults, flags, env)
    OBVIOUS
  <2>2. "Address" \in DOMAIN cfg /\ cfg = [f \in DOMAIN cfg |-> cfg[f]]
    BY <2>1 DEF Parsed, Override, AgentDefaults
  <2>. QED
    BY <1>2, <2>1, <2>2 DEF OnAgentFile
<1>5. PICK scheme, host, port : read.Address = Addr(scheme, host, port)
  BY <1>3 DEF IsAddress
<1>6. read.Protocol = "http"
  BY <1>3, <1>4 DEF WithScheme
<1>7. Empty \notin {"http", "localhost", "127.0.0.1"}
  BY Zenon DEF Empty
<1>8. read.Address.scheme = scheme /\ read.Address.host = host /\ read.Address.port = port
  BY <1>5 DEF Addr
<1>9. CASE x.agent = read
  BY <1>3, <1>6, <1>7, <1>8, <1>9 DEF WithScheme, Scheme
<1>10. CASE x.agent = [read EXCEPT !.Address.scheme = "http"]
  BY <1>3, <1>4, <1>5, <1>10 DEF Addr
<1>. QED
  BY <1>3, <1>9, <1>10 DEF WithScheme

\* A server listens where it was told to, less http://, and its subnet is one.
LEMMA RunningServer ==
    ASSUME NEW x, x.server # NoConfig, ServerRead(x), IsAddress(x.given.server)
    PROVE  /\ x.server.Address.host = x.given.server.host
           /\ x.server.Address.port = x.given.server.port
           /\ x.given.server.scheme \in {Empty, "http"} => x.server.Address.scheme = Empty
           /\ x.server.TrustedSubnet \in {Empty, "inside", "outside"}
<1>1. PICK flags, env, file :
        /\ x.server = NewServerConfig(flags, env, file)
        /\ x.given.server = OnServerFile(Parsed(ServerDefaults, flags, env), file).Address
  BY DEF ServerRead
<1>2. PICK cfg : cfg = Parsed(ServerDefaults, flags, env)
  OBVIOUS
<1>3. PICK read : read = OnServerFile(cfg, file)
  OBVIOUS
<1>4. /\ x.server = WithStoragePath(Bare(read)) /\ x.given.server = read.Address
      /\ cfg.TrustedSubnet \in {Empty, "inside", "outside"}
  BY <1>1, <1>2, <1>3 DEF NewServerConfig, IsSubnet
<1>5. cfg = [f \in DOMAIN ServerDefaults |-> cfg[f]]
  BY <1>2 DEF Parsed, Override
<1>6. /\ {"Address", "TrustedSubnet"} \subseteq DOMAIN read
      /\ read = [f \in DOMAIN read |-> read[f]] /\ read.TrustedSubnet = cfg.TrustedSubnet
  BY <1>3, <1>5 DEF OnServerFile, ServerDefaults
<1>7. PICK scheme, host, port : read.Address = Addr(scheme, host, port)
  BY <1>4 DEF IsAddress
<1>8. PICK bare : bare = Bare(read)
  OBVIOUS
<1>9. /\ {"Address", "TrustedSubnet"} \subseteq DOMAIN bare
      /\ bare.TrustedSubnet = cfg.TrustedSubnet
      /\ bare.Address.host = host /\ bare.Address.port = port
      /\ scheme \in {Empty, "http"} => bare.Address.scheme = Empty
  BY <1>6, <1>7, <1>8 DEF Bare, Addr
<1>10. x.server.Address = bare.Address /\ x.server.TrustedSubnet = bare.TrustedSubnet
  BY <1>4, <1>8, <1>9 DEF WithStoragePath
<1>. QED
  BY <1>4, <1>7, <1>9, <1>10 DEF Addr

\* An HTTP agent and a server that are given the same address meet, from whichever source
\* each takes it, if the address has http:// or is localhost's and has no scheme.
THEOREM AgentAndServerMeet == ASSUME AllRead PROVE Spec => []SameAddressMeets
<1>1. TypeOK => SameAddressMeets
  <2>. SUFFICES ASSUME NEW x \in Settings, x.agent # NoConfig, x.agent.Protocol = "http",
                       x.server # NoConfig, x.given.agent = x.given.server,
                       \/ x.given.agent.scheme = "http"
                       \/ x.given.agent.scheme = Empty /\ x.given.agent.host = "localhost"
                PROVE  Reaches(x.agent, x.server)
    BY DEF TypeOK, SameAddressMeets, HTTP
  <2>1. /\ AgentRead(x) /\ IsAddress(x.given.agent)
        /\ ServerRead(x) /\ IsAddress(x.given.server)
    BY DEF AllRead
  <2>2. /\ x.agent.Address.host = x.server.Address.host
        /\ x.agent.Address.port = x.server.Address.port
        /\ x.agent.Address.scheme = "http" /\ x.server.Address.scheme = Empty
    BY <2>1, HTTPAgent, RunningServer
  <2>. QED
    BY <2>2 DEF Reaches, Dials, SameHost, Listens
<1>. QED
  BY <1>1, TypeCorrect, PTL

(***************************************************************************)
(* What the storage is given: what an agent sealed and the chain opened.   *)
(***************************************************************************)
\* What comes through the server's chain is what the agent published.
LEMMA OpenedIs ==
    ASSUME NEW r \in Reports, Opened(r).status = "ok"
    PROVE  Contents(Opened(r)) = Content[r]
<1>1. Content[r] \in Seq(Range(Content[r]))
  BY DeliveryAssumption
<1>2. CASE HTTP
  <2>1. Opened(r) = OpenHTTP(conf.server, SealHTTP(conf.agent, Content[r]))
    BY <1>2 DEF Opened, Request
  <2>. QED
    BY <1>1, <2>1, OpensWhatWasSealed
<1>3. CASE ~HTTP
  <2>1. Opened(r) = OpenGRPC(conf.server, SealGRPC(conf.agent, Content[r]))
    BY <1>3 DEF Opened, Request
  <2>. QED
    BY <1>1, <2>1, OpensWhatWasSealed
<1>. QED
  BY <1>2, <1>3

LEMMA IntactNext == Intact /\ [Next]_vars => Intact'
<1>. SUFFICES ASSUME Intact, [Next]_vars PROVE Intact'
  OBVIOUS
<1>1. ASSUME NEW r \in Reports, NEW n \in 1 .. Tries, Update(r, n) PROVE Intact'
  BY <1>1, OpenedIs DEF Update, Intact
<1>2. CASE UNCHANGED got
  BY <1>2 DEF Intact
<1>3. ASSUME NEW r \in Reports, Client(r) \/ Breaks(r) PROVE UNCHANGED got
  BY <1>3 DEF Client, Publish, Send, SendFails, Breaks, Succeeds, Refused, Wake
<1>4. ASSUME NEW r \in Reports, NEW n \in 1 .. Tries, TurnDown(r, n) \/ UpdateFails(r, n)
      PROVE  UNCHANGED got
  BY <1>4 DEF TurnDown, UpdateFails
<1>5. CASE Save \/ Crash \/ Restart \/ UNCHANGED vars
  BY <1>2, <1>5 DEF Save, Crash, Restart, vars
<1>. QED
  BY <1>1, <1>2, <1>3, <1>4, <1>5 DEF Next, Server

\* Whatever is set on the two sides, and however long the reports: the storage is given a
\* report as it was published, or not at all.
THEOREM NothingIsGarbled == Spec => []Intact
<1>1. Init => Intact
  BY DEF Init, Intact
<1>. QED
  BY <1>1, IntactNext, PTL DEF Spec

(***************************************************************************)
(* What an answer says. A storage that cannot fail, behind a chain that    *)
(* lets the agent's reports pass, gives no answer but "ok".                *)
(***************************************************************************)
Lossless == HTTP /\ Fits /\ ~Database

Delivered ==
    /\ net # {} => conf.agent # NoConfig /\ conf.server # NoConfig
    /\ \A r \in Reports :
         \/ answer[r] = "ok"
         \/ answer[r] # NoAnswer /\ Lossless
         \/ at[r] = "nil" /\ (HTTP => Lossless)
         => applied[r] >= 1

\* Settings that fit let every report pass.
LEMMA OpenedFits ==
    ASSUME AllRead, TypeOK, Lossless, conf.server # NoConfig, NEW r \in Reports
    PROVE  Opened(r).status = "ok"
<1>1. Content[r] \in Seq(Range(Content[r]))
  BY DeliveryAssumption
<1>2. Opened(r) = OpenHTTP(conf.server, SealHTTP(conf.agent, Content[r]))
  BY DEF Lossless, Opened, Request
<1>3. conf.server.TrustedSubnet \in {Empty, "inside", "outside"}
  <2>1. ServerRead(conf) /\ IsAddress(conf.given.server)
    BY DEF TypeOK, AllRead
  <2>. QED
    BY <2>1, RunningServer
<1>4. Inside(conf.server)
  BY <1>3 DEF Lossless, Fits, Inside
<1>5. /\ NoKey \in {conf.agent.Key, conf.server.Key} \/ conf.agent.Key = conf.server.Key
      /\ conf.agent.CryptoKey = conf.server.CryptoKey
  BY DEF Lossless, Fits
<1>. QED
  BY <1>1, <1>2, <1>4, <1>5, OpensWhatFits

LEMMA LosslessFixed == ASSUME UNCHANGED conf PROVE (Lossless' <=> Lossless) /\ (HTTP' <=> HTTP)
  BY DEF Lossless, HTTP, Fits, Database, Kept

LEMMA DeliveredNext == ASSUME AllRead PROVE Inv /\ Delivered /\ [Next]_vars => Delivered'
<1>. SUFFICES ASSUME Inv, Delivered, [Next]_vars PROVE Delivered'
  OBVIOUS
<1>1. UNCHANGED conf /\ (Lossless' <=> Lossless) /\ (HTTP' <=> HTTP)
  BY SettingsFixed, LosslessFixed
<1>2. NoAnswer # "ok" /\ \A r \in Reports : applied[r] \in 0 .. 3
  BY DeliveryAssumption, ThreeTries DEF Statuses, Inv, TypeOK
<1>3. ASSUME NEW r \in Reports, Client(r) \/ Breaks(r) PROVE Delivered'
  <2>1. UNCHANGED applied
    BY <1>3 DEF Client, Publish, Send, SendFails, Breaks, Succeeds, Refused, Wake
  <2>2. net' # {} => conf.agent # NoConfig /\ conf.server # NoConfig
    BY <1>3 DEF Client, Publish, Send, SendFails, Breaks, Succeeds, Refused, Wake, Reaches, Delivered
  <2>3. ASSUME NEW q \in Reports,
               (\/ answer[q] = "ok"
                \/ answer[q] # NoAnswer /\ Lossless
                \/ at[q] = "nil" /\ (HTTP => Lossless))'
        PROVE  applied[q] >= 1
    <3>1. CASE Succeeds(r)
      BY <1>1, <1>2, <2>3, <3>1 DEF Succeeds, IsNil, Delivered, Inv, TypeOK
    <3>2. CASE ~Succeeds(r)
      BY <1>1, <1>2, <1>3, <2>3, <3>2
         DEF Client, Publish, Send, SendFails, Breaks, Refused, Wake, Errs, Delivered, Inv, TypeOK
    <3>. QED
      BY <3>1, <3>2
  <2>. QED
    BY <1>1, <2>1, <2>2, <2>3 DEF Delivered
<1>4. ASSUME NEW r \in Reports, NEW n \in 1 .. Tries, Server(r, n) PROVE Delivered'
  <2>1. <<r, n>> \in net /\ net' = net \ {<<r, n>>} /\ UNCHANGED at
    BY <1>4 DEF Server, TurnDown, Update, UpdateFails
  <2>2. conf.server # NoConfig /\ (net' # {} => conf.agent # NoConfig /\ conf.server # NoConfig)
    BY <2>1 DEF Delivered
  <2>3. CASE Update(r, n)
    <3>1. applied' = [applied EXCEPT ![r] = CountUp(applied[r])]
      BY <2>3 DEF Update
    <3>2. applied'[r] >= 1
      <4>1. applied'[r] = CountUp(applied[r])
        BY <3>1 DEF Inv, TypeOK
      <4>. QED
        BY <1>2, <4>1, ThreeTries DEF CountUp
    <3>3. ASSUME NEW q \in Reports, q # r
          PROVE  applied'[q] = applied[q] /\ answer'[q] = answer[q]
      BY <2>3, <3>1, <3>3 DEF Update, Reply, Inv, TypeOK
    <3>. QED
      BY <1>1, <2>1, <2>2, <3>2, <3>3 DEF Delivered
  <2>4. CASE TurnDown(r, n) \/ UpdateFails(r, n)
    <3>1. PICK status \in Statuses : Reply(r, n, status) /\ status # "ok"
      BY <2>4, OpenedStatus DEF TurnDown, UpdateFails, StorageError, Statuses
    <3>2. UNCHANGED applied
      BY <2>4 DEF TurnDown, UpdateFails
    <3>3. ~Lossless
      BY <2>2, <2>4, OpenedFits DEF TurnDown, UpdateFails, Lossless, Inv
    <3>4. ASSUME NEW q \in Reports PROVE answer'[q] = "ok" => answer[q] = "ok"
      BY <3>1 DEF Reply, Inv, TypeOK
    <3>. QED
      BY <1>1, <2>1, <2>2, <3>2, <3>3, <3>4 DEF Delivered
  <2>. QED
    BY <1>4, <2>3, <2>4 DEF Server
<1>5. CASE Save \/ Crash \/ Restart \/ UNCHANGED vars
  <2>1. UNCHANGED <<at, answer, applied>> /\ net' \subseteq net
    BY <1>5 DEF Save, Crash, Restart, vars
  <2>. QED
    BY <1>1, <2>1 DEF Delivered
<1>. QED
  BY <1>3, <1>4, <1>5 DEF Next

LEMMA DeliveredInit == Init => Delivered
  BY DeliveryAssumption DEF Init, Delivered, Statuses

\* A nil is the truth from the gRPC client, and from the HTTP client if the settings fit
\* and the storage cannot fail.
THEOREM NilIsStored == ASSUME AllRead PROVE Spec => []NilMeansStored
<1>1. Delivered => NilMeansStored
  BY DEF Delivered, NilMeansStored, Lossless
<1>. QED
  BY <1>1, DeliveredInit, DeliveredNext, InitInv, NextInv, PTL DEF Spec

(***************************************************************************)
(* The signature of the HTTP client is in the form that the server         *)
(* compares, and the gRPC client can send no report with one: with one key *)
(* on both sides no report is refused for it.                              *)
(***************************************************************************)
Unrefused(x) == "status" \in DOMAIN x /\ x.status # "wrongSignature"

LEMMA LaterLinks ==
    ASSUME NEW s, NEW x, Unrefused(x)
    PROVE  /\ Unrefused(WithGzip(s, x)) /\ Unrefused(WithTrustedSubnet(s, x))
           /\ Unrefused(WithDecrypt(s, x)) /\ Unrefused(Decode(s, x))
<1>1. ASSUME NEW ok, NEW t, t # "wrongSignature" PROVE Unrefused(Check(ok, t, x)) /\ Unrefused(Answer(t, x))
  BY <1>1 DEF Unrefused, Check, Answer
<1>2. Unrefused(WithGzip(s, x))
  BY <1>1 DEF WithGzip, Unrefused
<1>3. Unrefused(WithTrustedSubnet(s, x))
  BY <1>1 DEF WithTrustedSubnet
<1>4. Unrefused(WithDecrypt(s, x))
  BY <1>1 DEF WithDecrypt, Unrefused
<1>5. Unrefused(Decode(s, x))
  BY <1>1 DEF Decode
<1>. QED
  BY <1>2, <1>3, <1>4, <1>5

LEMMA SameKeyOpens ==
    ASSUME NEW a, NEW s, NEW list, a.Key = s.Key
    PROVE  OpenHTTP(s, SealHTTP(a, list)).status # "wrongSignature"
<1>1. PICK zipped : zipped = TRUE
  OBVIOUS
<1>2. PICK b : b = IF a.CryptoKey = NoKey THEN Marshal(list)
                   ELSE EncryptOAEP(a.CryptoKey, Marshal(list))
  OBVIOUS
<1>3. PICK g : g = IF a.Key = NoKey THEN NoSign ELSE Base64(Hash(a.Key, Body(zipped, b)))
  OBVIOUS
<1>4. PICK x : x = Link("ok", zipped, b, zipped, g)
  OBVIOUS
<1>5. Passed(SealHTTP(a, list)) = x
  BY <1>1, <1>2, <1>3, <1>4, Zenon DEF SealHTTP, Passed, Link
<1>6. Signed(s, zipped, b, g)
  BY <1>3 DEF Signed
<1>7. WithHash(s, x) = x
  BY <1>4, <1>6, HashLink
<1>8. Unrefused(x)
  BY <1>4 DEF Link, Unrefused
<1>9. Unrefused(OpenHTTP(s, SealHTTP(a, list)))
  BY <1>5, <1>7, <1>8, LaterLinks DEF OpenHTTP
<1>. QED
  BY <1>9 DEF Unrefused

\* What can be sent over gRPC has no signature.
LEMMA UnsignedOpens ==
    ASSUME NEW a, NEW s, NEW list, Sendable(SealGRPC(a, list))
    PROVE  OpenGRPC(s, SealGRPC(a, list)).status # "wrongSignature"
<1>1. PICK req : req = SealGRPC(a, list)
  OBVIOUS
<1>2. req.sign = NoSign
  BY <1>1 DEF SealGRPC, Sendable, Hash
<1>3. WithHash(s, Passed(req)) = Passed(req)
  BY <1>2 DEF WithHash, Check, SignFits, Passed
<1>4. Unrefused(SubnetInterceptor(s, Passed(req)))
  BY DEF SubnetInterceptor, Check, Answer, Unrefused, Passed
<1>. QED
  BY <1>1, <1>3, <1>4 DEF OpenGRPC, Unrefused

\* An answer "wrongSignature" comes from the chain, and to a request that could be sent.
Refusals ==
    \A r \in Reports :
        answer[r] = "wrongSignature"
        => Opened(r).status = "wrongSignature" /\ Sendable(Request(r))

LEMMA RefusalsNext == Inv /\ Transit /\ Refusals /\ [Next]_vars => Refusals'
<1>. SUFFICES ASSUME Inv, Transit, Refusals, [Next]_vars PROVE Refusals'
  OBVIOUS
<1>1. \A q \in Reports : Opened(q)' = Opened(q) /\ Sendable(Request(q))' = Sendable(Request(q))
  BY SettingsFixed DEF Opened, Request, HTTP
<1>2. NoAnswer # "wrongSignature"
  BY DeliveryAssumption DEF Statuses
<1>3. ASSUME NEW r \in Reports, Client(r) \/ Breaks(r) PROVE Refusals'
  <2>1. UNCHANGED answer \/ answer' = [answer EXCEPT ![r] = NoAnswer]
    BY <1>3 DEF Client, Publish, Send, SendFails, Breaks, Succeeds, Refused, Wake, Errs
  <2>. QED
    BY <1>1, <1>2, <2>1 DEF Refusals, Inv, TypeOK
<1>4. ASSUME NEW r \in Reports, NEW n \in 1 .. Tries, Server(r, n) PROVE Refusals'
  <2>1. \/ Reply(r, n, Opened(r).status) /\ Sendable(Request(r))
        \/ \E status \in Statuses : Reply(r, n, status) /\ status # "wrongSignature"
    BY <1>4 DEF Server, TurnDown, Update, UpdateFails, StorageError, Statuses, Transit
  <2>. QED
    BY <1>1, <2>1 DEF Reply, Refusals, Inv, TypeOK
<1>5. CASE Save \/ Crash \/ Restart \/ UNCHANGED vars
  BY <1>1, <1>5 DEF Save, Crash, Restart, vars, Refusals
<1>. QED
  BY <1>3, <1>4, <1>5 DEF Next

\* With the same key on both sides, or none, the server finds no signature wrong, whatever
\* else is set: what one side signs and the other checks are the same bytes.
THEOREM SameKeyIsAccepted == Spec => []SameKeyAccepted
<1>1. Init => Refusals
  BY DeliveryAssumption DEF Init, Refusals, Statuses
<1>2. Refusals => SameKeyAccepted
  BY SameKeyOpens, UnsignedOpens DEF Refusals, SameKeyAccepted, Opened, Request
<1>. QED
  BY <1>1, <1>2, RefusalsNext, InitInv, NextInv, TransitInit, TransitNext, PTL DEF Spec
=============================================================================
