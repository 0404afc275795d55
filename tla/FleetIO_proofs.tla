----------------------------- MODULE FleetIO_proofs -----------------------------
(***************************************************************************)
(* Proofs about FleetIO, for any sessions, truckers, devices, batches, web *)
(* requests and bounds: IInv is inductive; from it the safety properties   *)
(* and the refinement of TruckerRegistry.                                  *)
(***************************************************************************)
EXTENDS FleetIO, TLAPS

LEMMA RequestFields ==
    ASSUME NEW r \in Requests
    PROVE  /\ r = Unparsable \/ r \in IdRequests \/ r \in LogRequests
           /\ r \in IdRequests \cup LogRequests => r.id \in Truckers /\ r.uuid \in Uuids
           /\ r \in IdRequests => r.req \in {"UPDATE_ID", "VERIFY_ID"}
           /\ r \in LogRequests => r.req = "UPDATE_LOGS" /\ r.data \in Seq(Logs)
           /\ r = Unparsable => r.req = "UNPARSABLE"
BY BatchesAreSequences DEF Requests, IdRequests, LogRequests, Unparsable

(* Arithmetic on the positions of a batch and of the table. *)
LEMMA Shift ==
    ASSUME NEW a \in Int, NEW b \in Int, NEW i \in Int
    PROVE  /\ a - (b - 1) + i = (a - b) + (i + 1)
           /\ (a + 1) - b + b = a + 1
OBVIOUS

(* The place of row i of a batch of which n rows, the last of L, are stored, *)
(* before and after another row of it is appended.                           *)
LEMMA PlaceKept ==
    ASSUME NEW L \in Nat, NEW n \in Nat, n <= L, NEW i \in 1 .. n + 1, i # n + 1
    PROVE  /\ i \in 1 .. n
           /\ (L + 1) - (n + 1) + i = L - n + i
           /\ L - n + i \in 1 .. L
<1>1. i \in 1 .. n
    OBVIOUS
<1>2. (L + 1) - (n + 1) + i = L - n + i
    OBVIOUS
<1>3. L - n + i \in 1 .. L
    BY <1>1
<1>. QED
    BY <1>1, <1>2, <1>3

LEMMA InitIInv == Init => IInv
<1> SUFFICES ASSUME Init PROVE IInv
    OBVIOUS
<1>1. LoopTypeOK
    <2>1. conn \in [Sessions -> SocketStates]
        BY DEF Init, SocketStates
    <2>2. result \in [Sessions -> ResultCodes \cup {BareOK, NoResult}]
        BY DEF Init
    <2>3. job \in Requests \cup {NoRequest} /\ active \in Sessions \cup {NoSession}
        BY DEF Init
    <2>4. up \in BOOLEAN /\ at \in Statements
        BY DEF Init, Statements
    <2>5. rest \in Seq(Logs)
        BY DEF Init
    <2>6. faults \in 0 .. MaxFaults
        BY BoundsAreNaturals DEF Init
    <2>. QED
        BY <2>1, <2>2, <2>3, <2>4, <2>5, <2>6 DEF LoopTypeOK
<1>2. DbTypeOK
    BY DEF Init, DbTypeOK
<1>3. LoopShape
    BY NoSessionIsNone DEF Init, LoopShape
<1>4. DownIsEmpty /\ StatementFitsJob /\ HolderIsOwner
    BY DEF Init, DownIsEmpty, StatementFitsJob, HolderIsOwner
<1>5. /\ ClaimIsExclusive /\ BatchFromOwner
      /\ RestIsSuffix /\ BatchContiguous
    BY DEF Init, ClaimIsExclusive, BatchFromOwner, RestIsSuffix, BatchContiguous
<1>. QED
    BY <1>1, <1>2, <1>3, <1>4, <1>5 DEF IInv, TypeOK

--------------------------------------------------------------------------------
(* Steps that leave a part of the state alone keep what IInv says of it. *)

LEMMA DbKept ==
    ASSUME IInv, UNCHANGED <<dbVars, web>>
    PROVE  DbTypeOK' /\ HolderIsOwner'
<1>1. DbTypeOK'
    BY DEF IInv, TypeOK, DbTypeOK, dbVars
<1>2. HolderIsOwner'
    BY DEF IInv, HolderIsOwner, dbVars
<1>. QED
    BY <1>1, <1>2

LEMMA HandlerKept ==
    ASSUME IInv, UNCHANGED <<at, job, rest, dbVars>>
    PROVE  /\ StatementFitsJob' /\ ClaimIsExclusive'
           /\ BatchFromOwner' /\ RestIsSuffix' /\ BatchContiguous'
<1>1. StatementFitsJob'
    BY DEF IInv, StatementFitsJob
<1>2. ClaimIsExclusive'
    BY DEF IInv, ClaimIsExclusive, Claimable, dbVars
<1>3. BatchFromOwner'
    BY DEF IInv, BatchFromOwner, dbVars
<1>4. RestIsSuffix' /\ BatchContiguous'
    BY DEF IInv, RestIsSuffix, BatchContiguous, Stored, dbVars
<1>. QED
    BY <1>1, <1>2, <1>3, <1>4

LEMMA NoHandler ==
    ASSUME at' = "idle", job' = NoRequest
    PROVE  /\ StatementFitsJob' /\ ClaimIsExclusive'
           /\ BatchFromOwner' /\ RestIsSuffix' /\ BatchContiguous'
BY DEF StatementFitsJob, ClaimIsExclusive, BatchFromOwner,
       RestIsSuffix, BatchContiguous

(* A handler that is not in insert_logs. *)
LEMMA NotInserting ==
    ASSUME at' # "insert"
    PROVE  BatchFromOwner' /\ RestIsSuffix' /\ BatchContiguous'
BY DEF BatchFromOwner, RestIsSuffix, BatchContiguous

LEMMA FaultsBounded ==
    ASSUME IInv, Executed \/ Failed
    PROVE  faults' \in 0 .. MaxFaults
BY BoundsAreNaturals DEF IInv, TypeOK, LoopTypeOK, Executed, Failed

(* While a handler runs, the process is up and its session is "handling". *)
LEMMA HandlerRuns ==
    ASSUME IInv, at # "idle"
    PROVE  /\ up
           /\ active \in Sessions
           /\ conn[active] = "handling"
BY DEF IInv, TypeOK, LoopShape, LoopTypeOK, DownIsEmpty

--------------------------------------------------------------------------------
(* The ways a step of the server moves the loop. *)

LEMMA ReplyStep ==
    ASSUME IInv, at # "idle",
           NEW code \in ResultCodes \cup {BareOK}, Reply(code),
           faults' \in 0 .. MaxFaults,
           UNCHANGED <<dbVars, web>>
    PROVE  IInv'
<1>1. up /\ active \in Sessions /\ conn[active] = "handling"
    BY HandlerRuns
<1>2. code # NoResult
    BY DEF ResultCodes, BareOK, NoResult
<1>3. LoopTypeOK'
    <2>1. conn' \in [Sessions -> SocketStates]
        BY <1>1 DEF IInv, TypeOK, LoopTypeOK, Reply, SocketStates
    <2>2. result' \in [Sessions -> ResultCodes \cup {BareOK, NoResult}]
        BY <1>1 DEF IInv, TypeOK, LoopTypeOK, Reply
    <2>3. up' \in BOOLEAN /\ at' \in Statements
        BY DEF IInv, TypeOK, LoopTypeOK, Reply, Statements
    <2>4. job' \in Requests \cup {NoRequest} /\ active' \in Sessions \cup {NoSession}
        BY DEF Reply
    <2>5. rest' \in Seq(Logs)
        BY DEF Reply
    <2>. QED
        BY <2>1, <2>2, <2>3, <2>4, <2>5 DEF LoopTypeOK
<1>4. LoopShape'
    BY <1>1, <1>2, NoSessionIsNone DEF IInv, TypeOK, LoopTypeOK, LoopShape, Reply
<1>5. DownIsEmpty'
    BY <1>1 DEF Reply, DownIsEmpty
<1>. QED
    BY <1>3, <1>4, <1>5, DbKept, NoHandler DEF IInv, TypeOK, Reply

(* A statement throws.                                                     *)
LEMMA BadQueryStep ==
    ASSUME IInv, at # "idle", BadQuery, UNCHANGED <<dbVars, web>>
    PROVE  IInv'
<1>1. faults' \in 0 .. MaxFaults
    BY FaultsBounded DEF BadQuery
<1>. QED
    BY <1>1, ReplyStep DEF BadQuery, ResultCodes

LEMMA ProcessEndsStep ==
    ASSUME IInv, ProcessEnds, faults' \in 0 .. MaxFaults, UNCHANGED <<dbVars, web>>
    PROVE  IInv'
<1>1. LoopTypeOK'
    <2>1. conn' \in [Sessions -> SocketStates]
        BY DEF ProcessEnds, SocketStates
    <2>2. result' \in [Sessions -> ResultCodes \cup {BareOK, NoResult}]
        BY DEF ProcessEnds
    <2>3. up' \in BOOLEAN /\ at' \in Statements
        BY DEF ProcessEnds, Statements
    <2>4. job' \in Requests \cup {NoRequest} /\ active' \in Sessions \cup {NoSession}
        BY DEF ProcessEnds
    <2>5. rest' \in Seq(Logs)
        BY DEF ProcessEnds
    <2>. QED
        BY <2>1, <2>2, <2>3, <2>4, <2>5 DEF LoopTypeOK
<1>2. LoopShape'
    BY NoSessionIsNone DEF ProcessEnds, LoopShape
<1>3. DownIsEmpty'
    BY DEF ProcessEnds, DownIsEmpty
<1>. QED
    BY <1>1, <1>2, <1>3, DbKept, NoHandler DEF IInv, TypeOK, ProcessEnds

(* A handler that goes on to another statement. *)
LEMMA GotoStep ==
    ASSUME IInv, at # "idle",
           NEW st \in Statements \ {"idle"}, Goto(st),
           rest' \in Seq(Logs), faults' \in 0 .. MaxFaults
    PROVE  LoopTypeOK' /\ LoopShape' /\ DownIsEmpty'
<1>1. LoopTypeOK'
    BY DEF IInv, TypeOK, LoopTypeOK, Goto
<1>2. LoopShape' /\ DownIsEmpty'
    BY HandlerRuns DEF IInv, TypeOK, LoopShape, DownIsEmpty, Goto, Statements
<1>. QED
    BY <1>1, <1>2

--------------------------------------------------------------------------------
(* IInv is preserved: the event loop *)

LEMMA SocketKept ==
    ASSUME IInv, LoopFree, NEW s \in Sessions,
           NEW next \in {"closed", "handshake", "reading"},
           conn[s] # "replying",
           conn' = [conn EXCEPT ![s] = next],
           UNCHANGED <<up, result, active, at, job, rest, faults, dbVars, web>>
    PROVE  IInv'
<1>1. LoopTypeOK'
    BY DEF IInv, TypeOK, LoopTypeOK, SocketStates
<1>2. LoopShape'
    <2>1. active' = NoSession <=> at' = "idle"
        BY DEF IInv, TypeOK, LoopShape
    <2>2. \A z \in Sessions : conn'[z] = "handling" <=> z = active'
        BY NoSessionIsNone DEF IInv, TypeOK, LoopTypeOK, LoopShape, LoopFree
    <2>3. \A z \in Sessions : conn'[z] = "replying" <=> result'[z] # NoResult
        BY DEF IInv, TypeOK, LoopTypeOK, LoopShape
    <2>. QED
        BY <2>1, <2>2, <2>3 DEF LoopShape
<1>3. DownIsEmpty'
    BY DEF LoopFree, DownIsEmpty
<1>. QED
    BY <1>1, <1>2, <1>3, DbKept, HandlerKept DEF IInv, TypeOK

LEMMA AcceptStep ==
    ASSUME IInv, NEW s \in Sessions, HandleAccept(s)
    PROVE  IInv'
BY SocketKept DEF HandleAccept

LEMMA HandshakeStep ==
    ASSUME IInv, NEW s \in Sessions, HandleHandshake(s)
    PROVE  IInv'
<1>1. PICK next \in {"reading", "closed"} : conn' = [conn EXCEPT ![s] = next]
    BY DEF HandleHandshake
<1>. QED
    BY <1>1, SocketKept DEF HandleHandshake

LEMMA ReadErrorStep ==
    ASSUME IInv, NEW s \in Sessions, HandleReadError(s)
    PROVE  IInv'
BY SocketKept DEF HandleReadError

LEMMA ReadStep ==
    ASSUME IInv, NEW s \in Sessions, NEW r \in Requests, HandleRead(s, r)
    PROVE  IInv'
<1>1. LoopTypeOK'
    BY DEF IInv, TypeOK, LoopTypeOK, HandleRead, SocketStates, Statements
<1>3. LoopShape'
    BY NoSessionIsNone DEF IInv, TypeOK, LoopTypeOK, LoopShape, HandleRead, LoopFree
<1>4. DownIsEmpty'
    BY DEF HandleRead, LoopFree, DownIsEmpty
<1>5. StatementFitsJob' /\ ClaimIsExclusive'
    BY DEF HandleRead, StatementFitsJob, ClaimIsExclusive
<1>. QED
    BY <1>1, <1>3, <1>4, <1>5, DbKept, NotInserting DEF IInv, TypeOK, HandleRead

LEMMA WriteStep ==
    ASSUME IInv, NEW s \in Sessions, HandleWrite(s)
    PROVE  IInv'
<1>1. LoopTypeOK'
    BY DEF IInv, TypeOK, LoopTypeOK, HandleWrite, SocketStates
<1>2. LoopShape'
    BY DEF IInv, TypeOK, LoopTypeOK, LoopShape, HandleWrite, LoopFree
<1>3. DownIsEmpty'
    BY DEF HandleWrite, LoopFree, DownIsEmpty
<1>. QED
    BY <1>1, <1>2, <1>3, DbKept, HandlerKept DEF IInv, TypeOK, HandleWrite

LEMMA KilledStep ==
    ASSUME IInv, Killed
    PROVE  IInv'
<1>1. faults' \in 0 .. MaxFaults
    BY BoundsAreNaturals DEF IInv, TypeOK, LoopTypeOK, Killed
<1>. QED
    BY <1>1, ProcessEndsStep DEF Killed

LEMMA RestartedStep ==
    ASSUME IInv, Restarted
    PROVE  IInv'
<1>1. LoopTypeOK' /\ LoopShape' /\ DownIsEmpty'
    BY DEF IInv, TypeOK, LoopTypeOK, LoopShape, DownIsEmpty, Restarted
<1>. QED
    BY <1>1, DbKept, HandlerKept DEF IInv, TypeOK, Restarted

--------------------------------------------------------------------------------
(* IInv is preserved: the request handler *)

LEMMA ConnectStep ==
    ASSUME IInv, Connect
    PROVE  IInv'
<1>1. at = "connect" /\ at # "idle" /\ job \in Requests
    BY DEF Connect, IInv, StatementFitsJob
<1>2. UNCHANGED <<dbVars, web>>
    BY DEF Connect
<1>3. faults' \in 0 .. MaxFaults
    BY FaultsBounded DEF Connect
<1>4. CASE Executed /\ job.req = "UPDATE_ID" /\ Goto("find") /\ UNCHANGED rest
    <2>1. LoopTypeOK' /\ LoopShape' /\ DownIsEmpty'
        BY <1>1, <1>3, <1>4, GotoStep DEF IInv, TypeOK, LoopTypeOK, Statements
    <2>2. job \in IdRequests
        BY <1>1, <1>4, RequestFields DEF Unparsable
    <2>3. StatementFitsJob' /\ ClaimIsExclusive'
        BY <1>1, <1>4, <2>2
        DEF Goto, StatementFitsJob, ClaimIsExclusive
    <2>. QED
        BY <1>2, <1>4, <2>1, <2>3, DbKept, NotInserting DEF IInv, TypeOK, Goto
<1>5. CASE /\ Executed
           /\ job.req \in {"VERIFY_ID", "UPDATE_LOGS"}
           /\ Goto("verify")
           /\ UNCHANGED rest
    <2>1. LoopTypeOK' /\ LoopShape' /\ DownIsEmpty'
        BY <1>1, <1>3, <1>5, GotoStep DEF IInv, TypeOK, LoopTypeOK, Statements
    <2>2. job \in IdRequests \cup LogRequests
        BY <1>1, <1>5, RequestFields DEF Unparsable
    <2>3. StatementFitsJob' /\ ClaimIsExclusive'
        BY <1>1, <1>5, <2>2
        DEF Goto, StatementFitsJob, ClaimIsExclusive
    <2>. QED
        BY <1>2, <1>5, <2>1, <2>3, DbKept, NotInserting DEF IInv, TypeOK, Goto
<1>6. CASE Reply("PARSE_FAIL") \/ Reply(BareOK)
    BY <1>1, <1>2, <1>3, <1>6, ReplyStep DEF ResultCodes
<1>. QED
    BY <1>4, <1>5, <1>6 DEF Connect

LEMMA FindStep ==
    ASSUME IInv, FindTrucker
    PROVE  IInv'
<1>1. /\ at = "find" /\ at # "idle"
      /\ job \in IdRequests /\ job.req = "UPDATE_ID"
    BY DEF FindTrucker, IInv, StatementFitsJob
<1>2. UNCHANGED <<dbVars, web>>
    BY DEF FindTrucker
<1>3. ASSUME Executed PROVE faults' \in 0 .. MaxFaults
    BY <1>3, FaultsBounded
<1>4. CASE Executed /\ Claimable(job.id) /\ Goto("claim") /\ UNCHANGED rest
    <2>1. LoopTypeOK' /\ LoopShape' /\ DownIsEmpty'
        BY <1>1, <1>3, <1>4, GotoStep DEF IInv, TypeOK, LoopTypeOK, Statements
    <2>2. StatementFitsJob'
        BY <1>1, <1>4 DEF Goto, StatementFitsJob
    <2>3. ClaimIsExclusive'
        BY <1>1, <1>2, <1>4 DEF Goto, ClaimIsExclusive, Claimable, dbVars
    <2>. QED
        BY <1>2, <1>4, <2>1, <2>2, <2>3, DbKept, NotInserting DEF IInv, TypeOK, Goto
<1>5. CASE Executed /\ Reply("FAIL")
    BY <1>1, <1>2, <1>3, <1>5, ReplyStep DEF ResultCodes
<1>6. CASE BadQuery
    BY <1>1, <1>2, <1>6, BadQueryStep
<1>. QED
    BY <1>4, <1>5, <1>6 DEF FindTrucker

LEMMA ClaimStep ==
    ASSUME IInv, ClaimTrucker
    PROVE  IInv'
<1>1. /\ at = "claim" /\ at # "idle"
      /\ job \in IdRequests /\ job.req = "UPDATE_ID"
      /\ job.id \in Trucker /\ job.uuid \in Uuids
    BY DEF ClaimTrucker, IInv, StatementFitsJob, ClaimIsExclusive, Claimable, IdRequests
<1>2. UNCHANGED <<Trucker, TruckerLog, web>>
    BY DEF ClaimTrucker
<1>3. CASE /\ Executed /\ Goto("profile") /\ UNCHANGED rest
           /\ Verified' = [Verified EXCEPT ![job.id] = TRUE]
           /\ AndroidID' = [AndroidID EXCEPT ![job.id] = job.uuid]
           /\ owner' = [owner EXCEPT ![job.id] = job.uuid]
    <2>1. faults' \in 0 .. MaxFaults
        BY <1>3, FaultsBounded
    <2>2. LoopTypeOK' /\ LoopShape' /\ DownIsEmpty'
        BY <1>1, <1>3, <2>1, GotoStep DEF IInv, TypeOK, LoopTypeOK, Statements
    <2>3. StatementFitsJob' /\ ClaimIsExclusive'
        BY <1>1, <1>3 DEF Goto, StatementFitsJob, ClaimIsExclusive
    <2>4. job.id \in Truckers
        BY <1>1 DEF IInv, TypeOK, DbTypeOK
    <2>5. DbTypeOK'
        BY <1>1, <1>2, <1>3 DEF IInv, TypeOK, DbTypeOK
    <2>6. HolderIsOwner'
        BY <1>1, <1>2, <1>3, <2>4 DEF IInv, TypeOK, DbTypeOK, HolderIsOwner
    <2>. QED
        BY <1>3, <2>2, <2>3, <2>5, <2>6, NotInserting DEF IInv, TypeOK, Goto
<1>4. CASE BadQuery /\ UNCHANGED <<Verified, AndroidID, owner>>
    BY <1>1, <1>2, <1>4, BadQueryStep DEF dbVars
<1>. QED
    BY <1>3, <1>4 DEF ClaimTrucker

LEMMA ProfileStep ==
    ASSUME IInv, ReadProfile
    PROVE  IInv'
<1>1. /\ at = "profile" /\ at # "idle"
      /\ job \in IdRequests /\ job.req = "UPDATE_ID"
    BY DEF ReadProfile, IInv, StatementFitsJob
<1>2. UNCHANGED <<dbVars, web>>
    BY DEF ReadProfile
<1>3. CASE Executed /\ Goto("manager") /\ UNCHANGED rest
    <2>1. faults' \in 0 .. MaxFaults
        BY <1>3, FaultsBounded
    <2>2. LoopTypeOK' /\ LoopShape' /\ DownIsEmpty'
        BY <1>1, <1>3, <2>1, GotoStep DEF IInv, TypeOK, LoopTypeOK, Statements
    <2>3. StatementFitsJob' /\ ClaimIsExclusive'
        BY <1>1, <1>3 DEF Goto, StatementFitsJob, ClaimIsExclusive
    <2>. QED
        BY <1>2, <1>3, <2>2, <2>3, DbKept, NotInserting DEF IInv, TypeOK, Goto
<1>4. CASE BadQuery
    BY <1>1, <1>2, <1>4, BadQueryStep
<1>. QED
    BY <1>3, <1>4 DEF ReadProfile

LEMMA ManagerStep ==
    ASSUME IInv, ReadManager
    PROVE  IInv'
<1>1. at # "idle"
    BY DEF ReadManager
<1>2. UNCHANGED <<dbVars, web>>
    BY DEF ReadManager
<1>3. CASE Executed /\ Reply("OK")
    BY <1>1, <1>2, <1>3, FaultsBounded, ReplyStep DEF ResultCodes
<1>4. CASE BadQuery
    BY <1>1, <1>2, <1>4, BadQueryStep
<1>. QED
    BY <1>3, <1>4 DEF ReadManager

LEMMA VerifyStep ==
    ASSUME IInv, VerifyId
    PROVE  IInv'
<1>1. /\ at = "verify" /\ at # "idle"
      /\ job \in IdRequests \cup LogRequests
    BY DEF VerifyId, IInv, StatementFitsJob
<1>2. UNCHANGED <<dbVars, web>>
    BY DEF VerifyId
<1>3. ASSUME Executed PROVE faults' \in 0 .. MaxFaults
    BY <1>3, FaultsBounded
<1>4. CASE /\ Executed /\ Matches(job) /\ job.req = "UPDATE_LOGS"
           /\ rest' = job.data /\ Goto("insert")
    <2>1. job \in LogRequests /\ job.id \in Truckers /\ job.data \in Seq(Logs)
        BY <1>1, <1>4, BatchesAreSequences DEF IdRequests, LogRequests
    <2>2. LoopTypeOK' /\ LoopShape' /\ DownIsEmpty'
        BY <1>1, <1>3, <1>4, <2>1, GotoStep DEF IInv, TypeOK, LoopTypeOK, Statements
    <2>3. StatementFitsJob' /\ ClaimIsExclusive'
        BY <1>1, <1>4, <2>1 DEF Goto, StatementFitsJob, ClaimIsExclusive
    <2>4. BatchFromOwner'
        BY <1>2, <1>4, <2>1 DEF Goto, Matches, IInv, HolderIsOwner, BatchFromOwner, dbVars
    <2>5. RestIsSuffix'
        BY <1>4, <2>1 DEF Goto, RestIsSuffix
    <2>6. BatchContiguous'
        <3>1. TruckerLog \in Seq([TruckerID : Truckers, uuid : Uuids, log : Logs])
            BY DEF IInv, TypeOK, DbTypeOK
        <3>. QED
            BY <1>2, <1>4, <2>1, <3>1 DEF Goto, BatchContiguous, Stored, dbVars
    <2>. QED
        BY <1>2, <2>2, <2>3, <2>4, <2>5, <2>6, DbKept DEF IInv, TypeOK
<1>5. CASE Executed /\ (Reply("OK") \/ Reply("INVALID_CREDENTIALS"))
    BY <1>1, <1>2, <1>3, <1>5, ReplyStep DEF ResultCodes
<1>6. CASE BadQuery
    BY <1>1, <1>2, <1>6, BadQueryStep
<1>. QED
    BY <1>4, <1>5, <1>6 DEF VerifyId

(* An INSERT that executes. *)
LEMMA StoreStep ==
    ASSUME IInv, at = "insert", rest # <<>>, Executed, rest' = Tail(rest), Goto("insert"),
           TruckerLog' = Append(TruckerLog, Row(job.id, job.uuid, Head(rest))),
           UNCHANGED <<Trucker, Verified, AndroidID, owner, web>>
    PROVE  IInv'
<1>1. /\ at = "insert" /\ at # "idle" /\ rest # <<>> /\ rest \in Seq(Logs)
      /\ TruckerLog \in Seq([TruckerID : Truckers, uuid : Uuids, log : Logs])
      /\ job \in LogRequests
    BY DEF IInv, StatementFitsJob, TypeOK, LoopTypeOK, DbTypeOK
<1>2. job.id \in Truckers /\ job.uuid \in Uuids /\ job.data \in Seq(Logs)
    BY <1>1, BatchesAreSequences DEF LogRequests
<1>3. /\ at' = "insert" /\ rest' = Tail(rest)
      /\ UNCHANGED <<up, conn, result, active, at, job, Trucker, Verified, AndroidID, owner, web>>
    BY DEF Goto
<1>4. /\ rest' \in Seq(Logs) /\ Len(rest') = Len(rest) - 1 /\ Len(rest) \in Nat \ {0}
      /\ Head(rest) \in Logs /\ Head(rest) = rest[1]
      /\ \A i \in 1 .. Len(rest) - 1 : rest'[i] = rest[i + 1]
    BY <1>1, <1>3
<1>5. faults' \in 0 .. MaxFaults
    BY FaultsBounded
<1>6. LoopTypeOK' /\ LoopShape' /\ DownIsEmpty'
    BY <1>1, <1>4, <1>5, GotoStep DEF Statements
<1>7. StatementFitsJob' /\ ClaimIsExclusive'
    BY <1>1, <1>3 DEF StatementFitsJob, ClaimIsExclusive
<1>8. BatchFromOwner' /\ HolderIsOwner'
    BY <1>1, <1>3 DEF IInv, BatchFromOwner, HolderIsOwner
<1>9. RestIsSuffix'
    <2>1. /\ Len(rest) <= Len(job.data) /\ Len(job.data) \in Nat
          /\ \A i \in 1 .. Len(rest) : rest[i] = job.data[Len(job.data) - Len(rest) + i]
        BY <1>1, <1>2 DEF IInv, RestIsSuffix
    <2>2. ASSUME NEW i \in 1 .. Len(rest')
          PROVE  rest'[i] = job.data[Len(job.data) - Len(rest') + i]
        <3>1. i \in Nat /\ i + 1 \in 1 .. Len(rest) /\ rest'[i] = rest[i + 1]
            BY <1>4
        <3>2. Len(job.data) - Len(rest') + i = Len(job.data) - Len(rest) + (i + 1)
            <4>1. Len(rest') = Len(rest) - 1 /\ Len(rest) \in Int /\ Len(job.data) \in Int
                BY <1>4, <2>1
            <4>2. i \in Int
                BY <3>1
            <4>3. Len(job.data) - (Len(rest) - 1) + i = (Len(job.data) - Len(rest)) + (i + 1)
                BY <4>1, <4>2, Shift, Zenon
            <4>. QED
                BY <4>1, <4>3, Zenon
        <3>. QED
            BY <2>1, <3>1, <3>2
    <2>. QED
        BY <1>3, <1>4, <2>1, <2>2 DEF RestIsSuffix
<1>10. DbTypeOK'
    <2>1. TruckerLog' \in Seq([TruckerID : Truckers, uuid : Uuids, log : Logs])
        <3>1. Row(job.id, job.uuid, Head(rest)) \in [TruckerID : Truckers, uuid : Uuids, log : Logs]
            BY <1>2, <1>4 DEF Row
        <3>. QED
            BY <1>1, <3>1
    <2>. QED
        BY <1>3, <2>1 DEF IInv, TypeOK, DbTypeOK
<1>11. BatchContiguous'
    <2> DEFINE n == Len(job.data) - Len(rest)
    <2>1. Stored(n) /\ n \in Nat /\ Head(rest) = job.data[n + 1]
        BY <1>1, <1>2, <1>4 DEF IInv, BatchContiguous, RestIsSuffix
    <2>2. /\ Len(TruckerLog') = Len(TruckerLog) + 1 /\ Len(TruckerLog) \in Nat
          /\ n <= Len(TruckerLog)
          /\ TruckerLog'[Len(TruckerLog) + 1] = Row(job.id, job.uuid, job.data[n + 1])
          /\ \A k \in 1 .. Len(TruckerLog) : TruckerLog'[k] = TruckerLog[k]
        BY <1>1, <2>1 DEF Stored
    <2>3. ASSUME NEW i \in 1 .. n + 1
          PROVE  TruckerLog'[Len(TruckerLog') - (n + 1) + i] = Row(job.id, job.uuid, job.data[i])
        <3>1. CASE i = n + 1
            <4>1. Len(TruckerLog) \in Int /\ n + 1 \in Int
                BY <2>1, <2>2
            <4>2. (Len(TruckerLog) + 1) - (n + 1) + (n + 1) = Len(TruckerLog) + 1
                BY <4>1, Shift, Zenon
            <4>3. Len(TruckerLog') - (n + 1) + i = Len(TruckerLog) + 1
                BY <2>2, <3>1, <4>2, Zenon
            <4>. QED
                BY <2>2, <3>1, <4>3
        <3>2. CASE i # n + 1
            <4>1. /\ i \in 1 .. n
                  /\ (Len(TruckerLog) + 1) - (n + 1) + i = Len(TruckerLog) - n + i
                  /\ Len(TruckerLog) - n + i \in 1 .. Len(TruckerLog)
                BY <2>1, <2>2, <3>2, PlaceKept, Zenon
            <4>2. Len(TruckerLog') - (n + 1) + i = Len(TruckerLog) - n + i
                BY <2>2, <4>1, Zenon
            <4>3. TruckerLog'[Len(TruckerLog) - n + i] = Row(job.id, job.uuid, job.data[i])
                BY <2>1, <2>2, <4>1, Zenon DEF Stored
            <4>. QED
                BY <4>2, <4>3, Zenon
        <3>. QED
            BY <3>1, <3>2
    <2>4. Len(job.data) - Len(rest') = n + 1
        BY <1>2, <1>4
    <2>5. n + 1 <= Len(TruckerLog')
        BY <2>1, <2>2
    <2>. QED
        BY <1>3, <2>3, <2>4, <2>5 DEF BatchContiguous, Stored, Row
<1>. QED
    BY <1>6, <1>7, <1>8, <1>9, <1>10, <1>11 DEF IInv, TypeOK

LEMMA InsertStep ==
    ASSUME IInv, InsertLog
    PROVE  IInv'
<1>1. at # "idle" /\ UNCHANGED <<Trucker, Verified, AndroidID, owner, web>>
    BY DEF InsertLog
<1>2. CASE BadQuery /\ UNCHANGED TruckerLog
    BY <1>1, <1>2, BadQueryStep DEF dbVars
<1>. QED
    BY <1>2, StoreStep DEF InsertLog

LEMMA InsertDoneStep ==
    ASSUME IInv, InsertDone
    PROVE  IInv'
<1>1. faults' \in 0 .. MaxFaults
    BY DEF InsertDone, IInv, TypeOK, LoopTypeOK
<1>. QED
    BY <1>1, ReplyStep DEF InsertDone, ResultCodes

--------------------------------------------------------------------------------
(* IInv is preserved: the web application *)

(* The web application leaves the server process and TruckerLog alone. *)
LEMMA LoopKept ==
    ASSUME IInv, UNCHANGED <<loopVars, TruckerLog>>
    PROVE  /\ LoopTypeOK' /\ LoopShape' /\ DownIsEmpty' /\ StatementFitsJob'
           /\ RestIsSuffix' /\ BatchContiguous'
<1>1. LoopTypeOK' /\ LoopShape' /\ DownIsEmpty'
    BY DEF IInv, TypeOK, LoopTypeOK, LoopShape, DownIsEmpty, loopVars
<1>2. StatementFitsJob' /\ RestIsSuffix'
    BY DEF IInv, StatementFitsJob, RestIsSuffix, loopVars
<1>3. BatchContiguous'
    BY DEF IInv, BatchContiguous, Stored, loopVars
<1>. QED
    BY <1>1, <1>2, <1>3

LEMMA AddTruckerStep ==
    ASSUME IInv, NEW t \in Truckers, AddTrucker(t)
    PROVE  IInv'
<1>1. DbTypeOK'
    BY DEF AddTrucker, IInv, TypeOK, DbTypeOK
<1>2. HolderIsOwner'
    BY DEF AddTrucker, IInv, HolderIsOwner
<1>3. ClaimIsExclusive' /\ BatchFromOwner'
    BY DEF AddTrucker, IInv, ClaimIsExclusive, Claimable, BatchFromOwner,
           loopVars
<1>. QED
    BY <1>1, <1>2, <1>3, LoopKept DEF IInv, TypeOK, AddTrucker

LEMMA WebOnlyStep ==
    ASSUME IInv, UNCHANGED <<loopVars, dbVars>>, web' \in [WebRequests -> SUBSET LoadedRows]
    PROVE  IInv'
<1>1. DbTypeOK' /\ HolderIsOwner'
    BY DEF IInv, TypeOK, DbTypeOK, HolderIsOwner, dbVars
<1>2. UNCHANGED <<at, job, rest, dbVars>>
    BY DEF loopVars
<1>3. UNCHANGED <<loopVars, TruckerLog>>
    BY DEF dbVars
<1>. QED
    BY <1>1, <1>2, <1>3, LoopKept, HandlerKept DEF IInv, TypeOK

LEMMA ResetReadStep ==
    ASSUME IInv, NEW w \in WebRequests, NEW t \in Truckers, ResetTruckerRead(w, t)
    PROVE  IInv'
<1>1. [ID |-> t, AndroidID |-> AndroidID[t]] \in LoadedRows
    BY DEF IInv, TypeOK, DbTypeOK, LoadedRows
<1>2. web' \in [WebRequests -> SUBSET LoadedRows]
    BY <1>1 DEF ResetTruckerRead, IInv, TypeOK, DbTypeOK
<1>. QED
    BY <1>2, WebOnlyStep DEF ResetTruckerRead

LEMMA ResetFailsStep ==
    ASSUME IInv, NEW w \in WebRequests, ResetTruckerFails(w)
    PROVE  IInv'
<1>1. web' \in [WebRequests -> SUBSET LoadedRows]
    BY DEF ResetTruckerFails, IInv, TypeOK, DbTypeOK
<1>. QED
    BY <1>1, WebOnlyStep DEF ResetTruckerFails

(* A reset changes AndroidID, perhaps to a stale value, and clears Verified *)
(* in the same statement; owner keeps what the last registration wrote.     *)
LEMMA ResetSaveStep ==
    ASSUME IInv, NEW w \in WebRequests, ResetTruckerSave(w)
    PROVE  IInv'
<1>1. PICK row \in web[w] :
          /\ Verified' = [Verified EXCEPT ![row.ID] = FALSE]
          /\ AndroidID' = [AndroidID EXCEPT ![row.ID] = row.AndroidID]
    BY DEF ResetTruckerSave
<1>2. row.ID \in Truckers /\ row.AndroidID \in Uuids \cup {NoDevice}
    BY DEF IInv, TypeOK, DbTypeOK, LoadedRows
<1>3. /\ web' = [web EXCEPT ![w] = {}]
      /\ UNCHANGED <<loopVars, Trucker, TruckerLog, owner>>
    BY DEF ResetTruckerSave
<1>4. DbTypeOK'
    BY <1>1, <1>2, <1>3 DEF IInv, TypeOK, DbTypeOK
<1>5. HolderIsOwner'
    BY <1>1, <1>2, <1>3 DEF IInv, TypeOK, DbTypeOK, HolderIsOwner
<1>6. \A t \in Truckers : Verified'[t] => Verified[t]
    BY <1>1, <1>2 DEF IInv, TypeOK, DbTypeOK
<1>7. ClaimIsExclusive'
    <2>1. at = "claim" => job.id \in Truckers
        BY DEF IInv, StatementFitsJob, IdRequests
    <2>. QED
        BY <1>3, <1>6, <2>1 DEF IInv, ClaimIsExclusive, Claimable, loopVars
<1>8. BatchFromOwner'
    BY <1>3 DEF IInv, BatchFromOwner, loopVars
<1>. QED
    BY <1>3, <1>4, <1>5, <1>7, <1>8, LoopKept DEF IInv, TypeOK

--------------------------------------------------------------------------------
LEMMA NextIInv ==
    ASSUME IInv, [Next]_vars
    PROVE  IInv'
<1>1. CASE \E s \in Sessions : SessionStep(s)
    BY <1>1, AcceptStep, HandshakeStep, ReadErrorStep, ReadStep, WriteStep DEF SessionStep
<1>2. CASE HandlerStep
    BY <1>2, ConnectStep, FindStep, ClaimStep, ProfileStep, ManagerStep, VerifyStep,
       InsertStep, InsertDoneStep
    DEF HandlerStep
<1>3. CASE Killed \/ Restarted
    BY <1>3, KilledStep, RestartedStep
<1>4. CASE WebStep
    BY <1>4, AddTruckerStep, ResetReadStep, ResetSaveStep, ResetFailsStep DEF WebStep
<1>5. CASE UNCHANGED vars
    <2>1. UNCHANGED <<loopVars, dbVars>> /\ web' = web
        BY <1>5 DEF vars
    <2>2. web' \in [WebRequests -> SUBSET LoadedRows]
        BY <2>1 DEF IInv, TypeOK, DbTypeOK
    <2>. QED
        BY <2>1, <2>2, WebOnlyStep
<1>. QED
    BY <1>1, <1>2, <1>3, <1>4, <1>5 DEF Next

(* The invariant of the server, the tables and the web application holds in *)
(* every reachable state, for any number of sessions, truckers and devices. *)
THEOREM Invariance == Spec => []IInv
<1>1. Init => IInv
    BY InitIInv
<1>2. IInv /\ [Next]_vars => IInv'
    BY NextIInv
<1>. QED
    BY <1>1, <1>2, PTL DEF Spec

(* Every variable keeps its type, and the loop is in at most one handler. *)
THEOREM TypeCorrect == Spec => []TypeOK
<1>1. IInv => TypeOK
    BY DEF IInv
<1>. QED
    BY <1>1, Invariance, PTL

(* A verified row names the device whose registration committed last: the   *)
(* UPDATE of update_trucker_id and the whole-row writes of ResetTrucker can *)
(* interleave in any way without leaving another device verified.           *)
THEOREM VerifiedIsOwner == Spec => []HolderIsOwner
<1>1. IInv => HolderIsOwner
    BY DEF IInv
<1>. QED
    BY <1>1, Invariance, PTL

(* What update_trucker_id decided on its SELECT still holds at its UPDATE. *)
THEOREM ExclusiveClaim == Spec => []ClaimIsExclusive
<1>1. IInv => ClaimIsExclusive
    BY DEF IInv
<1>. QED
    BY <1>1, Invariance, PTL

(* A handler that inserts rows does so for the owner of the ID: a reset     *)
(* between the check of the identity and an INSERT changes no owner.        *)
THEOREM BatchIsOwners == Spec => []BatchFromOwner
<1>1. IInv => BatchFromOwner
    BY DEF IInv
<1>. QED
    BY <1>1, Invariance, PTL

(* OK to a batch means that its rows are in the table, in order and with no *)
(* row of another request in between: insert_logs comes to its end only    *)
(* when each INSERT of it executed, since one that fails throws.            *)
THEOREM AcknowledgedMeansStored == Spec => []AcknowledgedLogsStored
<1>1. IInv => AcknowledgedLogsStored
    <2> SUFFICES ASSUME IInv, at = "insert", rest = <<>>
                 PROVE  Stored(Len(job.data))
        BY DEF AcknowledgedLogsStored
    <2>1. job.data \in Seq(Logs)
        BY BatchesAreSequences DEF IInv, StatementFitsJob, LogRequests
    <2>2. Len(job.data) - Len(rest) = Len(job.data)
        BY <2>1
    <2>. QED
        BY <2>2 DEF IInv, BatchContiguous
<1>. QED
    BY <1>1, Invariance, PTL

--------------------------------------------------------------------------------
(* Action properties *)

(* The only step that changes TruckerLog is an INSERT that executed. *)
LEMMA OnlyInsertStores ==
    ASSUME [Next]_vars, TruckerLog' # TruckerLog
    PROVE  /\ at = "insert"
           /\ TruckerLog' = Append(TruckerLog, Row(job.id, job.uuid, Head(rest)))
<1>1. SUFFICES InsertLog
    BY DEF InsertLog
<1>2. CASE \E s \in Sessions : SessionStep(s)
    BY <1>2 DEF SessionStep, HandleAccept, HandleHandshake, HandleReadError, HandleRead,
                HandleWrite, dbVars
<1>3. CASE HandlerStep
    BY <1>3 DEF HandlerStep, Connect, FindTrucker, ClaimTrucker, ReadProfile, ReadManager,
                VerifyId, InsertDone, dbVars
<1>4. CASE Killed \/ Restarted
    BY <1>4 DEF Killed, Restarted, dbVars
<1>5. CASE WebStep
    BY <1>5 DEF WebStep, AddTrucker, ResetTruckerRead, ResetTruckerSave, ResetTruckerFails, dbVars
<1>6. CASE UNCHANGED vars
    BY <1>6 DEF vars, dbVars
<1>. QED
    BY <1>2, <1>3, <1>4, <1>5, <1>6 DEF Next

(* A row is only stored for the device that registered its ID last, although *)
(* the check of verify_id and the INSERTs are separate statements and resets *)
(* commit between them.                                                      *)
THEOREM RowsComeFromOwner == Spec => RowsFromOwner
<1>1. ASSUME IInv, [Next]_vars, TruckerLog' # TruckerLog
      PROVE  LET row == TruckerLog'[Len(TruckerLog')] IN row.uuid = owner[row.TruckerID]
    <2>1. /\ at = "insert"
          /\ TruckerLog' = Append(TruckerLog, Row(job.id, job.uuid, Head(rest)))
        BY <1>1, OnlyInsertStores
    <2>2. TruckerLog \in Seq([TruckerID : Truckers, uuid : Uuids, log : Logs])
        BY <1>1 DEF IInv, TypeOK, DbTypeOK
    <2>3. TruckerLog'[Len(TruckerLog')] = Row(job.id, job.uuid, Head(rest))
        BY <2>1, <2>2
    <2>4. owner[job.id] = job.uuid
        BY <1>1, <2>1 DEF IInv, BatchFromOwner
    <2>. QED
        BY <2>3, <2>4 DEF Row
<1>2. IInv /\ [Next]_vars =>
          [TruckerLog' # TruckerLog =>
              LET row == TruckerLog'[Len(TruckerLog')]
              IN  row.uuid = owner[row.TruckerID]]_vars
    BY <1>1
<1>. QED
    BY <1>2, Invariance, PTL DEF Spec, RowsFromOwner

(* The steps that write the columns Verified and AndroidID. *)
LEMMA OnlyClaimAndResetWrite ==
    ASSUME [Next]_vars, ~UNCHANGED <<Verified, AndroidID>>
    PROVE  ClaimTrucker \/ \E w \in WebRequests : ResetTruckerSave(w)
<1>1. CASE \E s \in Sessions : SessionStep(s)
    BY <1>1 DEF SessionStep, HandleAccept, HandleHandshake, HandleReadError, HandleRead,
                HandleWrite, dbVars
<1>2. CASE HandlerStep
    BY <1>2 DEF HandlerStep, Connect, FindTrucker, ReadProfile, ReadManager,
                VerifyId, InsertLog, InsertDone, dbVars
<1>3. CASE Killed \/ Restarted
    BY <1>3 DEF Killed, Restarted, dbVars
<1>4. CASE WebStep
    BY <1>4 DEF WebStep, AddTrucker, ResetTruckerRead, ResetTruckerFails, dbVars
<1>5. CASE UNCHANGED vars
    BY <1>5 DEF vars, dbVars
<1>. QED
    BY <1>1, <1>2, <1>3, <1>4, <1>5 DEF Next

(* A verified device loses its ID to nothing but a reset. *)
THEOREM NeverDisplaced == Spec => NoDisplacement
<1>1. ASSUME IInv, [Next]_vars, NEW t \in Truckers, Verified[t], AndroidID'[t] # AndroidID[t]
      PROVE  ~Verified'[t]
    <2>1. CASE ClaimTrucker
        <3>1. t # job.id
            BY <1>1, <2>1 DEF ClaimTrucker, IInv, ClaimIsExclusive, Claimable
        <3>. QED
            BY <1>1, <2>1, <3>1 DEF ClaimTrucker, IInv, TypeOK, DbTypeOK
    <2>2. CASE \E w \in WebRequests : ResetTruckerSave(w)
        <3>1. PICK w \in WebRequests : ResetTruckerSave(w)
            BY <2>2
        <3>2. PICK row \in web[w] :
                  /\ Verified' = [Verified EXCEPT ![row.ID] = FALSE]
                  /\ AndroidID' = [AndroidID EXCEPT ![row.ID] = row.AndroidID]
            BY <3>1 DEF ResetTruckerSave
        <3>. QED
            BY <1>1, <3>2 DEF IInv, TypeOK, DbTypeOK
    <2>. QED
        BY <1>1, <2>1, <2>2, OnlyClaimAndResetWrite
<1>2. IInv /\ [Next]_vars =>
          [\A t \in Truckers :
              Verified[t] /\ AndroidID'[t] # AndroidID[t] => ~Verified'[t]]_vars
    BY <1>1
<1>. QED
    BY <1>2, Invariance, PTL DEF Spec, NoDisplacement

--------------------------------------------------------------------------------
(* FleetIO implements TruckerRegistry *)

(* A step that leaves the tables alone and no batch behind. *)
LEMMA AbandonRefined ==
    ASSUME UNCHANGED <<Verified, AndroidID, TruckerLog>>,
           at' # "insert"
    PROVE  Registry!Abandon
BY DEF Registry!Abandon, Holder, Admitted

LEMMA StutterRefined ==
    ASSUME UNCHANGED <<at, job, rest, Verified, AndroidID, TruckerLog>>
    PROVE  UNCHANGED Registry!registryVars
BY DEF Registry!registryVars, Holder, Admitted

LEMMA ClaimRefined ==
    ASSUME IInv, ClaimTrucker
    PROVE  Registry!Next
<1>1. /\ at = "claim" /\ at' \in {"profile", "idle"} /\ job \in IdRequests
      /\ job.id \in Truckers /\ job.uuid \in Uuids /\ ~Verified[job.id]
      /\ UNCHANGED TruckerLog
    BY DEF ClaimTrucker, BadQuery, Reply, Goto, IInv, StatementFitsJob, ClaimIsExclusive, Claimable, IdRequests
<1>2. CASE /\ Verified' = [Verified EXCEPT ![job.id] = TRUE]
           /\ AndroidID' = [AndroidID EXCEPT ![job.id] = job.uuid]
    <2>1. Holder[job.id] = NoDevice
        BY <1>1 DEF Holder
    <2>2. Holder' = [Holder EXCEPT ![job.id] = job.uuid]
        BY <1>1, <1>2 DEF Holder, IInv, TypeOK, DbTypeOK
    <2>3. UNCHANGED <<Admitted, TruckerLog>>
        BY <1>1 DEF Admitted
    <2>4. Registry!Take(job.id, job.uuid)
        BY <2>1, <2>2, <2>3 DEF Registry!Take
    <2>. QED
        BY <1>1, <2>4 DEF Registry!Next
<1>3. CASE UNCHANGED <<Verified, AndroidID>>
    BY <1>1, <1>3, AbandonRefined DEF Registry!Next
<1>. QED
    BY <1>2, <1>3 DEF ClaimTrucker

LEMMA VerifyRefined ==
    ASSUME IInv, VerifyId
    PROVE  Registry!Next
<1>1. at = "verify" /\ UNCHANGED <<Verified, AndroidID, TruckerLog>>
    BY DEF VerifyId, dbVars
<1>2. CASE /\ Matches(job) /\ job.req = "UPDATE_LOGS" /\ Goto("insert")
           /\ rest' = job.data
    <2>1. job.id \in Truckers /\ job.uuid \in Uuids /\ job.data \in Batches
        BY <1>1, <1>2 DEF IInv, StatementFitsJob, IdRequests, LogRequests
    <2>2. Holder[job.id] = job.uuid /\ UNCHANGED Holder
        BY <1>1, <1>2, <2>1 DEF Holder, Matches
    <2>3. /\ Admitted = {}
          /\ Admitted' = {[id |-> job.id, uuid |-> job.uuid, rest |-> job.data]}
        BY <1>1, <1>2 DEF Admitted, Goto
    <2>4. Registry!Admit(job.id, job.uuid, job.data)
        BY <1>1, <2>2, <2>3 DEF Registry!Admit
    <2>. QED
        BY <2>1, <2>4 DEF Registry!Next
<1>3. CASE at' = "idle"
    BY <1>1, <1>3, AbandonRefined DEF Registry!Next
<1>. QED
    BY <1>2, <1>3 DEF VerifyId, BadQuery, Reply

LEMMA InsertRefined ==
    ASSUME IInv, InsertLog
    PROVE  Registry!Next
<1>1. at = "insert" /\ rest # <<>> /\ UNCHANGED <<Verified, AndroidID>>
    BY DEF InsertLog
<1>2. CASE BadQuery /\ UNCHANGED TruckerLog
    BY <1>1, <1>2, AbandonRefined DEF BadQuery, Reply, Registry!Next
<1>3. CASE /\ rest' = Tail(rest) /\ Goto("insert")
           /\ TruckerLog' = Append(TruckerLog, Row(job.id, job.uuid, Head(rest)))
    <2> DEFINE b == [id |-> job.id, uuid |-> job.uuid, rest |-> rest]
    <2>1. b \in Admitted /\ b.rest # <<>>
        BY <1>1, <1>3 DEF Admitted, Goto
    <2>2. Admitted' = {[b EXCEPT !.rest = Tail(b.rest)]}
        BY <1>1, <1>3 DEF Admitted, Goto
    <2>3. UNCHANGED Holder
        BY <1>1 DEF Holder
    <2>4. TruckerLog' = Append(TruckerLog, [TruckerID |-> b.id, uuid |-> b.uuid, log |-> Head(b.rest)])
        BY <1>3 DEF Row
    <2>5. Registry!Store(b)
        BY <2>1, <2>2, <2>3, <2>4 DEF Registry!Store
    <2>. QED
        BY <2>1, <2>5 DEF Registry!Next
<1>. QED
    BY <1>2, <1>3 DEF InsertLog

LEMMA ResetSaveRefined ==
    ASSUME IInv, NEW w \in WebRequests, ResetTruckerSave(w)
    PROVE  Registry!Next
<1>1. PICK row \in web[w] :
          /\ Verified' = [Verified EXCEPT ![row.ID] = FALSE]
          /\ AndroidID' = [AndroidID EXCEPT ![row.ID] = row.AndroidID]
    BY DEF ResetTruckerSave
<1>2. row.ID \in Truckers
    BY DEF IInv, TypeOK, DbTypeOK, LoadedRows
<1>3. Holder' = [Holder EXCEPT ![row.ID] = NoDevice]
    BY <1>1, <1>2 DEF Holder, IInv, TypeOK, DbTypeOK
<1>4. UNCHANGED <<Admitted, TruckerLog>>
    BY DEF ResetTruckerSave, loopVars, Admitted
<1>5. Registry!Release(row.ID)
    BY <1>3, <1>4 DEF Registry!Release
<1>. QED
    BY <1>2, <1>5 DEF Registry!Next

LEMMA NextRefined ==
    ASSUME IInv, [Next]_vars
    PROVE  [Registry!Next]_Registry!registryVars
<1>1. ASSUME NEW s \in Sessions, SessionStep(s)
      PROVE  [Registry!Next]_Registry!registryVars
    <2>1. UNCHANGED <<Verified, AndroidID, TruckerLog>> /\ at' \in {"idle", "connect"}
        BY <1>1 DEF SessionStep, HandleAccept, HandleHandshake, HandleReadError, HandleRead,
                    HandleWrite, dbVars, LoopFree, IInv, TypeOK, LoopShape
    <2>. QED
        BY <2>1, AbandonRefined DEF Registry!Next
<1>2. CASE Connect \/ FindTrucker \/ ReadProfile \/ ReadManager \/ InsertDone
    <2>1. UNCHANGED <<Verified, AndroidID, TruckerLog>> /\ at' # "insert"
        BY <1>2 DEF Connect, FindTrucker, ReadProfile, ReadManager, InsertDone,
                    Goto, BadQuery, Reply, dbVars
    <2>. QED
        BY <2>1, AbandonRefined DEF Registry!Next
<1>3. CASE ClaimTrucker \/ VerifyId \/ InsertLog
    BY <1>3, ClaimRefined, VerifyRefined, InsertRefined
<1>4. CASE Killed
    BY <1>4, AbandonRefined DEF Killed, ProcessEnds, dbVars, Registry!Next
<1>5. CASE Restarted
    BY <1>5, StutterRefined DEF Restarted, dbVars
<1>6. CASE WebStep
    <2>1. ASSUME NEW t \in Truckers, AddTrucker(t)
          PROVE  [Registry!Next]_Registry!registryVars
        BY <2>1, StutterRefined DEF AddTrucker, loopVars
    <2>2. ASSUME NEW w \in WebRequests, NEW t \in Truckers,
                 ResetTruckerRead(w, t) \/ ResetTruckerFails(w)
          PROVE  [Registry!Next]_Registry!registryVars
        BY <2>2, StutterRefined DEF ResetTruckerRead, ResetTruckerFails, loopVars, dbVars
    <2>3. ASSUME NEW w \in WebRequests, ResetTruckerFails(w)
          PROVE  [Registry!Next]_Registry!registryVars
        BY <2>3, StutterRefined DEF ResetTruckerFails, loopVars, dbVars
    <2>. QED
        BY <1>6, <2>1, <2>2, <2>3, ResetSaveRefined DEF WebStep
<1>7. CASE UNCHANGED vars
    BY <1>7, StutterRefined DEF vars, loopVars, dbVars
<1>. QED
    BY <1>1, <1>2, <1>3, <1>4, <1>5, <1>6, <1>7 DEF Next, HandlerStep

(* The server, statement by statement, beside a web application that writes *)
(* the same rows, behaves like the registry that takes, releases, admits    *)
(* and stores in single steps.                                              *)
THEOREM Refinement == Spec => ImplementsRegistry
<1>1. Init => Registry!Init
    BY DEF Init, Registry!Init, Holder, Admitted
<1>2. IInv /\ [Next]_vars => [Registry!Next]_Registry!registryVars
    BY NextRefined
<1>. QED
    BY <1>1, <1>2, Invariance, PTL DEF Spec, ImplementsRegistry, Registry!Spec

=================================================================================
