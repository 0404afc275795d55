-------------------------------- MODULE FleetIO --------------------------------
(***************************************************************************)
(* The fleet-io server (ssl_server.cpp, request_handler.cpp), the MySQL    *)
(* tables it shares with the FleetTracker web application, and the two web *)
(* operations that write the Trucker table (FleetController.cs).           *)
(*                                                                         *)
(* fleet-io runs one thread: io_context.run() takes one completion at a    *)
(* time, and handle_read runs the whole request handler, every SQL         *)
(* statement included, before the loop takes another.  The handler is      *)
(* modelled one statement per step, because the web application, a second  *)
(* process, reads and writes the same rows between the statements.         *)
(*                                                                         *)
(* The Connection(false) of a handler raises nothing, so that connect      *)
(* returns false; but its Query is constructed with exceptions on: a       *)
(* statement that fails throws BadQuery, handle_request catches it, and    *)
(* the handler ends there with PARSE_FAIL.  What it executed before stays. *)
(***************************************************************************)
EXTENDS Integers, Sequences

CONSTANTS
    Sessions,      \* session objects the process can have open at once
    Truckers,      \* IDs the Trucker table can hold
    Uuids,         \* UUIDs devices register with
    Logs,          \* contents of a log record
    Batches,       \* contents of the "data" member of UPDATE_LOGS
    WebRequests,   \* requests the web application can serve at once
    NoSession,     \* the loop is in no handler
    NoDevice,      \* AndroidID is NULL, or owner: never registered
    MaxRows,       \* bound: rows of TruckerLog
    MaxFaults      \* bound: SQL statements that fail and kills of the server

ASSUME BatchesAreSequences == Batches \subseteq Seq(Logs)
ASSUME NoSessionIsNone == NoSession \notin Sessions
ASSUME NoDeviceIsNone == NoDevice \notin Uuids
ASSUME BoundsAreNaturals == MaxRows \in Nat /\ MaxFaults \in Nat

VARIABLES
    up,            \* the server process runs
    conn,          \* session -> what its socket waits for
    result,        \* session -> the reply in its result buffer
    active,        \* the session whose handle_read the loop is in
    at,            \* the statement that handler is about to execute
    job,           \* the request it handles
    rest,          \* insert_logs: the values not yet inserted
    faults,        \* how many failures happened (bounded by MaxFaults)
    Trucker,       \* the IDs that have a row, and the columns of the rows:
    Verified,
    AndroidID,
    TruckerLog,    \* rows in insertion order; uuid is history, not a column
    owner,         \* history: the device whose registration committed last
    web            \* web request -> the Trucker row ResetTrucker has loaded

loopVars == <<up, conn, result, active, at, job, rest, faults>>
dbVars == <<Trucker, Verified, AndroidID, TruckerLog, owner>>
vars == <<loopVars, dbVars, web>>

--------------------------------------------------------------------------------
(* Requests and replies *)

IdRequests ==
    [req : {"UPDATE_ID", "VERIFY_ID"}, id : Truckers, uuid : Uuids]

LogRequests ==
    [req : {"UPDATE_LOGS"}, id : Truckers, uuid : Uuids, data : Batches]

(* What nlohmann::json::parse or a member access throws on: async_read_some *)
(* is called once, so a request that came in two TLS records is cut.        *)
Unparsable == [req |-> "UNPARSABLE"]

NoRequest == [req |-> "NONE"]

Requests == IdRequests \cup LogRequests \cup {Unparsable}

(* The codes of REQUEST_RESULT. *)
ResultCodes == {"FAIL", "OK", "INVALID_CREDENTIALS", "DB_CONN_FAILED", "PARSE_FAIL"}

(* handle_read's catch copies the text "OK\n", which is no JSON object. *)
BareOK == "OK text"

NoResult == "none"

SocketStates == {"closed", "handshake", "reading", "handling", "replying"}

Statements ==
    {"idle", "connect", "find", "claim", "profile", "manager", "verify", "insert"}

Row(t, u, l) == [TruckerID |-> t, uuid |-> u, log |-> l]

--------------------------------------------------------------------------------
Init ==
    /\ up = TRUE
    /\ conn = [s \in Sessions |-> "closed"]
    /\ result = [s \in Sessions |-> NoResult]
    /\ active = NoSession
    /\ at = "idle"
    /\ job = NoRequest
    /\ rest = <<>>
    /\ faults = 0
    /\ Trucker = {}
    /\ Verified = [t \in Truckers |-> FALSE]
    /\ AndroidID = [t \in Truckers |-> NoDevice]
    /\ TruckerLog = <<>>
    /\ owner = [t \in Truckers |-> NoDevice]
    /\ web = [w \in WebRequests |-> {}]

--------------------------------------------------------------------------------
(* ssl_server.cpp: the event loop.  A completion is taken only when the    *)
(* loop is not inside handle_read.  An accept that fails deletes its       *)
(* session and accepts again, which changes nothing here.                  *)

(* Mutant: io_context.run() called from several threads. *)
LoopFreeAnyThread == up

LoopFree == up /\ active = NoSession

HandleAccept(s) ==
    /\ LoopFree
    /\ conn[s] = "closed"
    /\ conn' = [conn EXCEPT ![s] = "handshake"]
    /\ UNCHANGED <<up, result, active, at, job, rest, faults, dbVars, web>>

(* The session is deleted when the peer breaks the handshake or leaves. *)
HandleHandshake(s) ==
    /\ LoopFree
    /\ conn[s] = "handshake"
    /\ \E next \in {"reading", "closed"} : conn' = [conn EXCEPT ![s] = next]
    /\ UNCHANGED <<up, result, active, at, job, rest, faults, dbVars, web>>

HandleReadError(s) ==
    /\ LoopFree
    /\ conn[s] = "reading"
    /\ conn' = [conn EXCEPT ![s] = "closed"]
    /\ UNCHANGED <<up, result, active, at, job, rest, faults, dbVars, web>>

(* The request has arrived; its handler is about to be constructed. *)
HandleRead(s, r) ==
    /\ LoopFree
    /\ conn[s] = "reading"
    /\ r.req = "UPDATE_LOGS" => Len(TruckerLog) + Len(r.data) <= MaxRows
    /\ conn' = [conn EXCEPT ![s] = "handling"]
    /\ active' = s
    /\ at' = "connect"
    /\ job' = r
    /\ UNCHANGED <<up, result, rest, faults, dbVars, web>>

(* handle_read leaves its try block: the handler is gone, the reply waits  *)
(* to be written and the loop is free again.                               *)
Reply(code) ==
    /\ result' = [result EXCEPT ![active] = code]
    /\ conn' = [conn EXCEPT ![active] = "replying"]
    /\ active' = NoSession
    /\ at' = "idle"
    /\ job' = NoRequest
    /\ rest' = <<>>
    /\ UNCHANGED up

(* Mutant: the read that handle_write has commented out is back: the session *)
(* waits for another request.                                                *)
HandleWriteKeepAlive(s) ==
    /\ LoopFree
    /\ conn[s] = "replying"
    /\ conn' = [conn EXCEPT ![s] = "reading"]
    /\ result' = [result EXCEPT ![s] = NoResult]
    /\ UNCHANGED <<up, active, at, job, rest, faults, dbVars, web>>

(* handle_write deletes the session whether the reply was sent or not. *)
HandleWrite(s) ==
    /\ LoopFree
    /\ conn[s] = "replying"
    /\ conn' = [conn EXCEPT ![s] = "closed"]
    /\ result' = [result EXCEPT ![s] = NoResult]
    /\ UNCHANGED <<up, active, at, job, rest, faults, dbVars, web>>

--------------------------------------------------------------------------------
(* The process: it ends with everything it held, and nothing restarts it   *)
(* (start_server.sh runs it once): an operator may.                        *)

ProcessEnds ==
    /\ up' = FALSE
    /\ conn' = [s \in Sessions |-> "closed"]
    /\ result' = [s \in Sessions |-> NoResult]
    /\ active' = NoSession
    /\ at' = "idle"
    /\ job' = NoRequest
    /\ rest' = <<>>

Killed ==
    /\ up
    /\ faults < MaxFaults
    /\ faults' = faults + 1
    /\ ProcessEnds
    /\ UNCHANGED <<dbVars, web>>

Restarted ==
    /\ ~up
    /\ up' = TRUE
    /\ UNCHANGED <<conn, result, active, at, job, rest, faults, dbVars, web>>

--------------------------------------------------------------------------------
(* request_handler.cpp: one SQL statement per step *)

Executed == UNCHANGED faults

Failed ==
    /\ faults < MaxFaults
    /\ faults' = faults + 1

(* storein() or execute() throws: the catch of handle_request answers.     *)
BadQuery == Failed /\ Reply("PARSE_FAIL")

Goto(statement) ==
    /\ at' = statement
    /\ UNCHANGED <<up, conn, result, active, job>>

(* handler::handler and the entry of handle_request. *)
Connect ==
    /\ at = "connect"
    /\ \/ /\ Executed
          /\ \/ job.req = "UPDATE_ID" /\ Goto("find")
             \/ job.req \in {"VERIFY_ID", "UPDATE_LOGS"} /\ Goto("verify")
          /\ UNCHANGED rest
       \/ Executed /\ job = Unparsable /\ Reply("PARSE_FAIL")
       \/ Failed /\ Reply(BareOK)
    /\ UNCHANGED <<dbVars, web>>

(* Mutant: the check of the Verified column is dropped. *)
ClaimableAgain(t) == t \in Trucker

(* update_trucker_id: the SELECT and the two early returns after it. *)
Claimable(t) == t \in Trucker /\ ~Verified[t]

(* Mutant: the SELECT finds the row, and its Verified is not looked at. *)
FindTruckerAnyRow ==
    /\ at = "find"
    /\ \/ Executed /\ job.id \in Trucker /\ Goto("claim") /\ UNCHANGED rest
       \/ Executed /\ job.id \notin Trucker /\ Reply("FAIL")
       \/ BadQuery
    /\ UNCHANGED <<dbVars, web>>

FindTrucker ==
    /\ at = "find"
    /\ \/ Executed /\ Claimable(job.id) /\ Goto("claim") /\ UNCHANGED rest
       \/ Executed /\ ~Claimable(job.id) /\ Reply("FAIL")
       \/ BadQuery
    /\ UNCHANGED <<dbVars, web>>

(* update_trucker_id: the UPDATE, which repeats no condition of the SELECT. *)
ClaimTrucker ==
    /\ at = "claim"
    /\ \/ /\ Executed
          /\ Goto("profile")
          /\ Verified' = [Verified EXCEPT ![job.id] = TRUE]
          /\ AndroidID' = [AndroidID EXCEPT ![job.id] = job.uuid]
          /\ owner' = [owner EXCEPT ![job.id] = job.uuid]
          /\ UNCHANGED rest
       \/ BadQuery /\ UNCHANGED <<Verified, AndroidID, owner>>
    /\ UNCHANGED <<Trucker, TruckerLog, web>>

(* handle_request: the trucker's row, read as v[0].  The row is there (rows *)
(* are never deleted).  A SELECT that fails here, or below, answers         *)
(* PARSE_FAIL to a device that is registered all the same.                  *)
ReadProfile ==
    /\ at = "profile"
    /\ \/ Executed /\ Goto("manager") /\ UNCHANGED rest
       \/ BadQuery
    /\ UNCHANGED <<dbVars, web>>

(* handle_request: the manager's row, read as v[0] (ManagerId refers to it). *)
ReadManager ==
    /\ at = "manager"
    /\ \/ Executed /\ Reply("OK")
       \/ BadQuery
    /\ UNCHANGED <<dbVars, web>>

(* Mutant: the SELECT of verify_id without its condition on Verified. *)
MatchesUnverified(r) == r.id \in Trucker /\ AndroidID[r.id] = r.uuid

(* Mutant: the SELECT of verify_id without its condition on AndroidID. *)
MatchesAnyDevice(r) == r.id \in Trucker /\ Verified[r.id]

(* verify_id, for VERIFY_ID and for UPDATE_LOGS. *)
Matches(r) ==
    /\ r.id \in Trucker
    /\ AndroidID[r.id] = r.uuid
    /\ Verified[r.id]

VerifyId ==
    /\ at = "verify"
    /\ \/ Executed /\ Matches(job) /\ job.req = "VERIFY_ID" /\ Reply("OK")
       \/ /\ Executed
          /\ Matches(job)
          /\ job.req = "UPDATE_LOGS"
          /\ rest' = job.data
          /\ Goto("insert")
       \/ Executed /\ ~Matches(job) /\ Reply("INVALID_CREDENTIALS")
       \/ BadQuery
    /\ UNCHANGED <<dbVars, web>>

(* Mutant: the Query comes from Connection::query() and inherits that       *)
(* nothing is thrown: insert_logs passes over an INSERT that failed.        *)
InsertLogUnnoticed ==
    /\ at = "insert"
    /\ rest # <<>>
    /\ rest' = Tail(rest)
    /\ \/ /\ Executed
          /\ TruckerLog' = Append(TruckerLog, Row(job.id, job.uuid, Head(rest)))
       \/ Failed /\ UNCHANGED TruckerLog
    /\ UNCHANGED <<up, conn, result, active, at, job>>
    /\ UNCHANGED <<Trucker, Verified, AndroidID, owner, web>>

(* insert_logs: one INSERT, committed by itself, per value of the batch; one *)
(* that fails leaves the rows before it in the table.                        *)
InsertLog ==
    /\ at = "insert"
    /\ rest # <<>>
    /\ \/ /\ Executed
          /\ rest' = Tail(rest)
          /\ TruckerLog' = Append(TruckerLog, Row(job.id, job.uuid, Head(rest)))
          /\ Goto("insert")
       \/ BadQuery /\ UNCHANGED TruckerLog
    /\ UNCHANGED <<Trucker, Verified, AndroidID, owner, web>>

(* insert_logs returns: every INSERT was executed. *)
InsertDone ==
    /\ at = "insert"
    /\ rest = <<>>
    /\ Reply("OK")
    /\ UNCHANGED <<faults, dbVars, web>>

HandlerStep ==
    \/ Connect
    \/ FindTrucker \/ ClaimTrucker \/ ReadProfile \/ ReadManager
    \/ VerifyId \/ InsertLog \/ InsertDone

--------------------------------------------------------------------------------
(* FleetController.cs *)

AddTrucker(t) ==
    /\ t \notin Trucker
    /\ Trucker' = Trucker \cup {t}
    /\ UNCHANGED <<loopVars, Verified, AndroidID, TruckerLog, owner, web>>

(* ResetTrucker reads the row with Single ... *)
ResetTruckerRead(w, t) ==
    /\ web[w] = {}
    /\ t \in Trucker
    /\ web' = [web EXCEPT ![w] = {[ID |-> t, AndroidID |-> AndroidID[t]]}]
    /\ UNCHANGED <<loopVars, dbVars>>

(* Mutant: the assignment to Verified is dropped from ResetTrucker. *)
ResetTruckerSaveOnly(w) ==
    /\ \E row \in web[w] :
         AndroidID' = [AndroidID EXCEPT ![row.ID] = row.AndroidID]
    /\ web' = [web EXCEPT ![w] = {}]
    /\ UNCHANGED <<loopVars, Trucker, Verified, TruckerLog, owner>>

(* ... and SaveChanges writes every column of it, AndroidID as it was read. *)
ResetTruckerSave(w) ==
    /\ \E row \in web[w] :
         /\ Verified' = [Verified EXCEPT ![row.ID] = FALSE]
         /\ AndroidID' = [AndroidID EXCEPT ![row.ID] = row.AndroidID]
    /\ web' = [web EXCEPT ![w] = {}]
    /\ UNCHANGED <<loopVars, Trucker, TruckerLog, owner>>

(* SaveChanges throws: the request ends with an error page. *)
ResetTruckerFails(w) ==
    /\ web[w] # {}
    /\ web' = [web EXCEPT ![w] = {}]
    /\ UNCHANGED <<loopVars, dbVars>>

--------------------------------------------------------------------------------
SessionStep(s) ==
    \/ HandleAccept(s)
    \/ HandleHandshake(s)
    \/ HandleReadError(s)
    \/ \E r \in Requests : HandleRead(s, r)
    \/ HandleWrite(s)

WebStep ==
    \/ \E t \in Truckers : AddTrucker(t)
    \/ \E w \in WebRequests, t \in Truckers : ResetTruckerRead(w, t)
    \/ \E w \in WebRequests : ResetTruckerSave(w) \/ ResetTruckerFails(w)

Next ==
    \/ \E s \in Sessions : SessionStep(s)
    \/ HandlerStep
    \/ Killed
    \/ Restarted
    \/ WebStep

Spec == Init /\ [][Next]_vars

(* The handler keeps executing: every MySQL call returns, with rows or an   *)
(* error.  A reply is far smaller than the buffer of a socket, so that its  *)
(* write completes whatever the peer does; the loop serves completions in   *)
(* the order they became ready, so that one that stays ready is taken even  *)
(* though the loop is busy in between (strong fairness).  Nothing is assumed *)
(* of a handshake or a read: the server sets no timeout, and a peer that    *)
(* fell silent keeps its session for ever.                                  *)
FairSpec ==
    /\ Spec
    /\ WF_vars(HandlerStep)
    /\ \A s \in Sessions : SF_vars(HandleWrite(s))

--------------------------------------------------------------------------------
(* Properties *)

LoadedRows == [ID : Truckers, AndroidID : Uuids \cup {NoDevice}]

(* The type invariant: the shape of every variable, and which of them go   *)
(* together: the loop is in a handler exactly when a session is being      *)
(* handled, and a reply waits exactly in the sessions being written.       *)
LoopTypeOK ==
    /\ up \in BOOLEAN
    /\ conn \in [Sessions -> SocketStates]
    /\ result \in [Sessions -> ResultCodes \cup {BareOK, NoResult}]
    /\ active \in Sessions \cup {NoSession}
    /\ at \in Statements
    /\ job \in Requests \cup {NoRequest}
    /\ rest \in Seq(Logs)
    /\ faults \in 0 .. MaxFaults

DbTypeOK ==
    /\ Trucker \subseteq Truckers
    /\ Verified \in [Truckers -> BOOLEAN]
    /\ AndroidID \in [Truckers -> Uuids \cup {NoDevice}]
    /\ TruckerLog \in Seq([TruckerID : Truckers, uuid : Uuids, log : Logs])
    /\ owner \in [Truckers -> Uuids \cup {NoDevice}]
    /\ web \in [WebRequests -> SUBSET LoadedRows]

LoopShape ==
    /\ active = NoSession <=> at = "idle"
    /\ \A s \in Sessions : conn[s] = "handling" <=> s = active
    /\ \A s \in Sessions : conn[s] = "replying" <=> result[s] # NoResult

TypeOK == LoopTypeOK /\ DbTypeOK /\ LoopShape

(* A verified row names the device whose registration committed last, so   *)
(* that no other device passes verify_id: whatever AndroidID an overlapping *)
(* ResetTrucker writes back, it is never left beside Verified = TRUE.       *)
HolderIsOwner ==
    \A t \in Truckers : Verified[t] =>
        /\ t \in Trucker
        /\ owner[t] \in Uuids
        /\ AndroidID[t] = owner[t]

(* update_trucker_id decides on a SELECT and acts with a later UPDATE that  *)
(* repeats no condition: in between, nothing else takes the ID.             *)
ClaimIsExclusive ==
    at = "claim" => Claimable(job.id)

(* A batch that passed verify_id belongs to the last device that registered *)
(* until it is stored, however many resets commit meanwhile.                *)
BatchFromOwner ==
    at = "insert" => owner[job.id] = job.uuid

(* The rows a handler has stored are the first logs of its batch, in order, *)
(* with no row of another request between them.                             *)
Stored(n) ==
    /\ n <= Len(TruckerLog)
    /\ \A i \in 1 .. n :
         TruckerLog[Len(TruckerLog) - n + i] = Row(job.id, job.uuid, job.data[i])

BatchContiguous ==
    at = "insert" => Stored(Len(job.data) - Len(rest))

(* A batch is answered OK only when every row of it is in the table, though *)
(* each INSERT commits by itself and the batch may end after any of them.   *)
(* implementation.tex, UPDATE LOGS: "If the incoming ID is valid, the log   *)
(* records for the specific device are added to the database."              *)
AcknowledgedLogsStored ==
    at = "insert" /\ rest = <<>> => Stored(Len(job.data))

(* Nothing of a session survives the process, and a handler runs only in it. *)
DownIsEmpty ==
    ~up => active = NoSession /\ \A s \in Sessions : conn[s] = "closed"

(* The statement a handler is at belongs to its request. *)
StatementFitsJob ==
    /\ at = "idle" => job = NoRequest
    /\ at = "connect" => job \in Requests
    /\ at \in {"find", "claim", "profile", "manager"} =>
          job \in IdRequests /\ job.req = "UPDATE_ID"
    /\ at = "verify" => job \in IdRequests \cup LogRequests
    /\ at = "insert" => job \in LogRequests

(* insert_logs has worked off a first part of the batch. *)
RestIsSuffix ==
    at = "insert" =>
        /\ Len(rest) <= Len(job.data)
        /\ \A i \in 1 .. Len(rest) :
             rest[i] = job.data[Len(job.data) - Len(rest) + i]

(* The inductive invariant of FleetIO_proofs. *)
IInv ==
    /\ TypeOK
    /\ DownIsEmpty
    /\ StatementFitsJob
    /\ HolderIsOwner
    /\ ClaimIsExclusive
    /\ BatchFromOwner
    /\ RestIsSuffix
    /\ BatchContiguous

(* verify_id and insert_logs are not one transaction, and resets and        *)
(* registrations go on: still every row that is stored comes from the       *)
(* device whose registration of that ID committed last.                     *)
RowsFromOwner ==
    [][TruckerLog' # TruckerLog =>
          LET row == TruckerLog'[Len(TruckerLog')]
          IN  row.uuid = owner[row.TruckerID]]_vars

(* A verified device loses its ID only by a reset: no registration, and no  *)
(* reset that writes stale columns, puts another device in its place.       *)
NoDisplacement ==
    [][\A t \in Truckers :
          Verified[t] /\ AndroidID'[t] # AndroidID[t] => ~Verified'[t]]_vars

(* FleetIO implements TruckerRegistry: the holder of an ID is the device in *)
(* its verified row, and the batch being stored is the one in insert_logs.  *)
Holder ==
    [t \in Truckers |-> IF Verified[t] THEN AndroidID[t] ELSE NoDevice]

Admitted ==
    IF at = "insert"
    THEN {[id |-> job.id, uuid |-> job.uuid, rest |-> rest]}
    ELSE {}

Registry == INSTANCE TruckerRegistry
    WITH holder <- Holder, admitted <- Admitted, rows <- TruckerLog,
         Nobody <- NoDevice

ImplementsRegistry == Registry!Spec

(* A request that was read is answered and its session deleted, whatever    *)
(* fails under way and however busy the loop is with other sessions.        *)
RequestsAnswered ==
    \A s \in Sessions : conn[s] \in {"handling", "replying"} ~> conn[s] = "closed"

================================================================================
