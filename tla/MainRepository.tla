---------------------------- MODULE MainRepository ----------------------------
(***************************************************************************)
(* The phone's store-and-forward of log records: MainRepository.kt and the *)
(* calls of it in TrackingService.processLocation and MainActivity, the    *)
(* Room table behind TruckLogDAO, the shared preferences, and the server   *)
(* as the phone sees it.                                                   *)
(*                                                                         *)
(* Every location, every press of a button and every refresh of the screen *)
(* runs beside the others on Dispatchers.IO or the main thread.  What a    *)
(* coroutine still has to do is the sequence todo of its steps.  The       *)
(* repository is a singleton, so that appSettings and the connector's      *)
(* field response are shared by all of them.                               *)
(*                                                                         *)
(* The server handles a request in one step: FleetIO has the statements    *)
(* and the proof that each of them is a step of the registry used here.    *)
(***************************************************************************)
EXTENDS Integers, Sequences, FiniteSets

CONSTANTS
    Coroutines,   \* coroutines that can run at once
    Ids,          \* IDs the manager has added
    NoId,         \* the ID 0 of a phone that never registered
    Uuids,        \* what UUID.randomUUID returns
    NoUuid,       \* the empty UUID, and the NULL of AndroidID
    Limit,        \* LIMIT 70 of getAllTruckLogs
    HourlyCount,  \* the 20 of processLocation
    Frequencies,  \* the upload schedules the driver chooses from
    MaxLogs,      \* bound: locations the device reports
    MaxFaults,    \* bound: lost requests and replies, timeouts, kills of app and
                  \* server, statements of the server that fail
    MaxCopies     \* bound: rows the server stores of one record

ASSUME NotRegisteredYet == NoId \notin Ids /\ NoUuid \notin Uuids
ASSUME NaturalBounds ==
    /\ Limit \in Nat \ {0} /\ HourlyCount \in Nat
    /\ MaxLogs \in Nat /\ MaxFaults \in Nat /\ MaxCopies \in Nat
ASSUME FinitelyManyCoroutines == IsFiniteSet(Coroutines)
ASSUME SomeFrequency ==
    /\ Frequencies \subseteq {"continuously", "hourly", "on request"}
    /\ "continuously" \in Frequencies

VARIABLES
    todo,         \* coroutine -> the steps it still has to take
    sent,         \* coroutine -> the request it made; data: the records it has to delete
    line,         \* coroutine -> its connection: a request, a reply, or nothing any more
    response,     \* the field of the one ServerConnector
    appSettings,  \* the field of the one MainRepository
    prefs,        \* SharedPreferences in memory
    disk,         \* SharedPreferences in the file
    table,        \* tblTruckLogs; a record is named by its autoGenerate'd id
    recorded,     \* records 1..recorded have been inserted
    located,      \* locations the device has reported, in the order of their time
    fix,          \* coroutine -> the location it processes, 0 for none
    tim,          \* record -> the location it was made of
    trucker,      \* server: the rows of Trucker
    copies,       \* server: record -> rows of TruckerLog that hold it
    late,         \* requests whose sender has given up, still to be handled
    faults,       \* how many failures happened
    registered,   \* history: the <<ID, UUID>> whose registration was committed
    asked,        \* the IDs for which the driver was told to ask for a reset
    overlap       \* history: "call" two calls, "send" two calls of sendMessage overlapped

clock == <<located, fix, tim>>
phone == <<todo, sent, line, response, appSettings, prefs, disk, table, recorded, clock>>
server == <<trucker, copies, registered>>
vars == <<phone, server, late, faults, asked, overlap>>

Logs == 1 .. MaxLogs

Codes == {"OK", "FAIL", "INVALID_CREDENTIALS", "PARSE_FAIL", "TIMEOUT"}

Settings ==
    [ID : Ids \cup {NoId}, UUID : Uuids \cup {NoUuid}, VERIFIED : BOOLEAN, FREQ : Frequencies]

Unregistered == [ID |-> NoId, UUID |-> NoUuid, VERIFIED |-> FALSE, FREQ |-> "continuously"]

NoRequest == [req |-> "NONE", id |-> NoId, uuid |-> NoUuid, data |-> {}]

Requests ==
    [req : {"UPDATE_ID", "UPDATE_LOGS"}, id : Ids \cup {NoId},
     uuid : Uuids \cup {NoUuid}, data : SUBSET Logs]

(* The steps of the calls *)

Fetch == <<"fetchID", "fetchRest">>
Exchange == <<"page", "readID", "send", "wait", "return">>
Upload == <<"fetchID", "fetchRest", "page", "readID", "send", "wait", "return">>
Update == <<"fetchID", "fetchRest", "send", "wait", "return">>
ProcessLocation == <<"fetchID", "fetchRest", "insert", "gate">>
Invalidated == <<"invalidate", "fetchID", "fetchRest">>
Registered == <<"store", "fetchID", "fetchRest">>

Steps == {"fetchID", "fetchRest", "insert", "gate", "page", "readID", "send", "wait",
          "return", "delete", "count", "invalidate", "store"}

Running(c) == todo[c] # <<>>
At(c, step) == Running(c) /\ Head(todo[c]) = step
Then(c, steps) == todo' = [todo EXCEPT ![c] = steps \o Tail(@)]
Done(c) == Then(c, <<>>)

(* c is inside sendMessage. *)
Sending(c) == At(c, "wait") \/ At(c, "return")

--------------------------------------------------------------------------------
Init ==
    /\ todo = [c \in Coroutines |-> <<>>]
    /\ sent = [c \in Coroutines |-> NoRequest]
    /\ line = [c \in Coroutines |-> "closed"]
    /\ response = "TIMEOUT"
    /\ appSettings = Unregistered
    /\ prefs = Unregistered
    /\ disk = Unregistered
    /\ table = {}
    /\ recorded = 0
    /\ located = 0
    /\ fix = [c \in Coroutines |-> 0]
    /\ tim = [l \in Logs |-> 0]
    /\ trucker = [i \in Ids |-> [Verified |-> FALSE, AndroidID |-> NoUuid]]
    /\ copies = [l \in Logs |-> 0]
    /\ late = {}
    /\ faults = 0
    /\ registered = {}
    /\ asked = {}
    /\ overlap = {}

--------------------------------------------------------------------------------
(* Calls begin *)

Begin(c, steps, request) ==
    /\ ~Running(c)
    /\ todo' = [todo EXCEPT ![c] = steps]
    /\ sent' = [sent EXCEPT ![c] = request]
    /\ overlap' = IF \E d \in Coroutines : Running(d) THEN overlap \cup {"call"} ELSE overlap
    /\ UNCHANGED <<line, response, appSettings, prefs, disk, table, recorded>>
    /\ UNCHANGED <<trucker, copies, late, faults, asked>>

(* The device reports a location.  They come seconds apart, but nothing     *)
(* orders the coroutines they are handed to.                                *)
Location(c) ==
    /\ located < MaxLogs
    /\ located' = located + 1
    /\ fix' = [fix EXCEPT ![c] = located + 1]
    /\ Begin(c, ProcessLocation, NoRequest)
    /\ UNCHANGED <<tim, registered>>

(* The driver presses UPLOAD. *)
PressUpload(c) ==
    /\ Begin(c, Upload, [NoRequest EXCEPT !.req = "UPDATE_LOGS"])
    /\ UNCHANGED <<clock, registered>>

(* A UUID nobody has; one that has disappeared from everywhere may return. *)
Fresh(u) ==
    /\ u \notin {prefs.UUID, disk.UUID, appSettings.UUID}
    /\ \A c \in Coroutines : sent[c].uuid # u
    /\ \A q \in late : q.request.uuid # u
    /\ \A i \in Ids : trucker[i].AndroidID # u

(* The driver enters an ID; which of the fresh UUIDs it gets is immaterial. *)
EnterId(c, i) ==
    /\ \E u \in Uuids : Fresh(u)
    /\ LET u == CHOOSE u \in Uuids : Fresh(u)
       IN  /\ Begin(c, Update, [req |-> "UPDATE_ID", id |-> i, uuid |-> u, data |-> {}])
           /\ registered' = {r \in registered : r[2] # u}
    /\ UNCHANGED clock

(* updateUI shows the settings. *)
UpdateUI(c) == Begin(c, Fetch, NoRequest) /\ UNCHANGED <<clock, registered>>

(* The driver chooses an upload schedule: apply() on the main thread. *)
OnItemSelected ==
    /\ \E f \in Frequencies \ {prefs.FREQ} : prefs' = [prefs EXCEPT !.FREQ = f]
    /\ UNCHANGED <<todo, sent, line, response, appSettings, disk, table, recorded, clock>>
    /\ UNCHANGED <<server, late, faults, asked, overlap>>

--------------------------------------------------------------------------------
(* The steps of a call *)

FetchID(c) ==
    /\ At(c, "fetchID") /\ Done(c)
    /\ appSettings' = [appSettings EXCEPT !.ID = prefs.ID]
    /\ UNCHANGED <<sent, line, response, prefs, disk, table, recorded, clock>>
    /\ UNCHANGED <<server, late, faults, asked, overlap>>

FetchRest(c) ==
    /\ At(c, "fetchRest") /\ Done(c)
    /\ appSettings' = [prefs EXCEPT !.ID = appSettings.ID]
    /\ UNCHANGED <<sent, line, response, prefs, disk, table, recorded, clock>>
    /\ UNCHANGED <<server, late, faults, asked, overlap>>

(* processLocation: insertTruckingLog, with the time of the location *)
InsertTruckingLog(c) ==
    /\ At(c, "insert") /\ Done(c)
    /\ recorded < MaxLogs
    /\ recorded' = recorded + 1
    /\ table' = table \cup {recorded + 1}
    /\ tim' = [tim EXCEPT ![recorded + 1] = fix[c]]
    /\ fix' = [fix EXCEPT ![c] = 0]
    /\ UNCHANGED <<located, sent, line, response, appSettings, prefs, disk>>
    /\ UNCHANGED <<server, late, faults, asked, overlap>>

UploadsNow ==
    /\ appSettings.VERIFIED
    /\ \/ appSettings.FREQ = "continuously"
       \/ appSettings.FREQ = "hourly" /\ Cardinality(table) > HourlyCount

(* processLocation: the decision to upload. *)
Gate(c) ==
    /\ At(c, "gate")
    /\ \/ /\ UploadsNow
          /\ Then(c, Upload)
          /\ sent' = [sent EXCEPT ![c].req = "UPDATE_LOGS"]
       \/ ~UploadsNow /\ Done(c) /\ UNCHANGED sent
    /\ UNCHANGED <<line, response, appSettings, prefs, disk, table, recorded, clock>>
    /\ UNCHANGED <<server, late, faults, asked, overlap>>

(* Mutant: the page is ordered the other way round. *)
Newest == {l \in table : Cardinality({k \in table : tim[k] > tim[l]}) < Limit}

(* getAllTruckLogs: in the order of tim, the first Limit *)
Oldest == {l \in table : Cardinality({k \in table : tim[k] < tim[l]}) < Limit}

(* uploadLogs: var logs = getAllTruckLogs() *)
TakePage(c) ==
    /\ At(c, "page") /\ Done(c)
    /\ sent' = [sent EXCEPT ![c].data = Oldest]
    /\ UNCHANGED <<line, response, appSettings, prefs, disk, table, recorded, clock>>
    /\ UNCHANGED <<server, late, faults, asked, overlap>>

(* uploadLogs: the ID of the request ... *)
ReadID(c) ==
    /\ At(c, "readID") /\ Done(c)
    /\ sent' = [sent EXCEPT ![c].id = appSettings.ID]
    /\ UNCHANGED <<line, response, appSettings, prefs, disk, table, recorded, clock>>
    /\ UNCHANGED <<server, late, faults, asked, overlap>>

(* ... and its UUID, and sendMessage begins.  The request of updateID was   *)
(* made when the call began.                                                *)
SendMessage(c) ==
    /\ At(c, "send") /\ Done(c)
    /\ line' = [line EXCEPT ![c] = "request"]
    /\ sent' = IF sent[c].req = "UPDATE_ID" THEN sent
               ELSE [sent EXCEPT ![c].uuid = appSettings.UUID]
    /\ overlap' = IF \E d \in Coroutines \ {c} : Sending(d) THEN overlap \cup {"send"} ELSE overlap
    /\ UNCHANGED <<response, appSettings, prefs, disk, table, recorded, clock>>
    /\ UNCHANGED <<server, late, faults, asked>>

(* Mutant: whatever the connection holds is taken for the reply. *)
ReceiveAnything(c) ==
    /\ At(c, "wait") /\ Done(c)
    /\ response' = line[c]
    /\ line' = [line EXCEPT ![c] = "closed"]
    /\ UNCHANGED <<sent, appSettings, prefs, disk, table, recorded, clock>>
    /\ UNCHANGED <<server, late, faults, asked, overlap>>

(* sendMessage: the reply is parsed into response. *)
ReceiveReply(c) ==
    /\ At(c, "wait") /\ Done(c)
    /\ line[c] \in Codes
    /\ response' = line[c]
    /\ line' = [line EXCEPT ![c] = "closed"]
    /\ UNCHANGED <<sent, appSettings, prefs, disk, table, recorded, clock>>
    /\ UNCHANGED <<server, late, faults, asked, overlap>>

Fault == faults < MaxFaults /\ faults' = faults + 1

(* What is left of a request whose sender has given up. *)
GivenUp(c) == [n |-> faults, from |-> c, request |-> sent[c]]

(* sendMessage's catch: nothing will come (the fault is counted already), or *)
(* what was to come is lost, or it is still to be handled.                   *)
TimesOut(c) ==
    /\ At(c, "wait") /\ Done(c)
    /\ response' = "TIMEOUT"
    /\ line' = [line EXCEPT ![c] = "closed"]
    /\ \/ line[c] = "silent" /\ UNCHANGED <<late, faults>>
       \/ /\ line[c] = "request"
          /\ Fault
          /\ late' \in {late, late \cup {GivenUp(c)}}
    /\ UNCHANGED <<sent, appSettings, prefs, disk, table, recorded, clock>>
    /\ UNCHANGED <<server, asked, overlap>>

(* Mutants of uploadLogs: the records are not deleted; a refusal does not   *)
(* invalidate the ID; every failure does.  Of updateID: any answer is taken *)
(* for a registration.                                                      *)
AfterUploadKeep(code) == IF code = "OK" THEN <<"count">> ELSE Fetch
AfterUploadTrusting(code) == IF code = "OK" THEN <<"delete", "count">> ELSE Fetch
AfterUploadStrict(code) ==
    IF code = "OK" THEN <<"delete", "count">> ELSE Invalidated
AfterUpdateAlways(code) == IF code # "TIMEOUT" THEN Registered ELSE Fetch

(* The branches of uploadLogs and updateID on the code of the reply. *)
AfterUpload(code) ==
    CASE code = "OK"                  -> <<"delete", "count">>
      [] code = "INVALID_CREDENTIALS" -> Invalidated
      [] OTHER                        -> Fetch

AfterUpdate(code) == IF code = "OK" THEN Registered ELSE Fetch

(* sendMessage returns the field, and the call looks at the code. *)
Return(c) ==
    /\ At(c, "return")
    /\ \/ sent[c].req = "UPDATE_LOGS" /\ Then(c, AfterUpload(response)) /\ UNCHANGED asked
       \/ /\ sent[c].req = "UPDATE_ID" /\ Then(c, AfterUpdate(response))
          /\ asked' = IF response = "FAIL" THEN asked \cup {sent[c].id} ELSE asked
    /\ sent' = IF response = "OK" THEN sent ELSE [sent EXCEPT ![c] = NoRequest]
    /\ UNCHANGED <<line, response, appSettings, prefs, disk, table, recorded, clock>>
    /\ UNCHANGED <<server, late, faults, overlap>>

(* Mutant: a page is deleted newest first. *)
DeleteNewest(c) ==
    /\ At(c, "delete")
    /\ \/ \E l \in sent[c].data :
            /\ \A k \in sent[c].data : tim[k] <= tim[l]
            /\ table' = table \ {l}
            /\ sent' = [sent EXCEPT ![c].data = @ \ {l}]
            /\ UNCHANGED todo
       \/ sent[c].data = {} /\ Done(c) /\ UNCHANGED <<table, sent>>
    /\ UNCHANGED <<line, response, appSettings, prefs, disk, recorded, clock>>
    /\ UNCHANGED <<server, late, faults, asked, overlap>>

(* Mutant: the table is cleared after a transmission. *)
ClearTable(c) ==
    /\ At(c, "delete") /\ Done(c)
    /\ table' = {}
    /\ sent' = [sent EXCEPT ![c].data = {}]
    /\ UNCHANGED <<line, response, appSettings, prefs, disk, recorded, clock>>
    /\ UNCHANGED <<server, late, faults, asked, overlap>>

(* uploadLogs deletes the records it sent, one by one, oldest first. *)
DeleteTruckingLog(c) ==
    /\ At(c, "delete")
    /\ \/ \E l \in sent[c].data :
            /\ \A k \in sent[c].data : tim[l] <= tim[k]
            /\ table' = table \ {l}
            /\ sent' = [sent EXCEPT ![c].data = @ \ {l}]
            /\ UNCHANGED todo
       \/ sent[c].data = {} /\ Done(c) /\ UNCHANGED <<table, sent>>
    /\ UNCHANGED <<line, response, appSettings, prefs, disk, recorded, clock>>
    /\ UNCHANGED <<server, late, faults, asked, overlap>>

(* ... while ((count > 0) && OK) *)
Count(c) ==
    /\ At(c, "count")
    /\ Then(c, IF table # {} THEN Exchange ELSE Fetch)
    /\ sent' = [sent EXCEPT ![c] = IF table # {} THEN @ ELSE NoRequest]
    /\ UNCHANGED <<line, response, appSettings, prefs, disk, table, recorded, clock>>
    /\ UNCHANGED <<server, late, faults, asked, overlap>>

(* uploadLogs: putBoolean(KEY_TRUCKER_VERIFIED, false) *)
Invalidate(c) ==
    /\ At(c, "invalidate") /\ Done(c)
    /\ prefs' = [prefs EXCEPT !.VERIFIED = FALSE]
    /\ UNCHANGED <<sent, line, response, appSettings, disk, table, recorded, clock>>
    /\ UNCHANGED <<server, late, faults, asked, overlap>>

(* updateID: the edit of the preferences. *)
StoreId(c) ==
    /\ At(c, "store") /\ Done(c)
    /\ prefs' = [prefs EXCEPT !.ID = sent[c].id, !.UUID = sent[c].uuid, !.VERIFIED = TRUE]
    /\ sent' = [sent EXCEPT ![c] = NoRequest]
    /\ UNCHANGED <<line, response, appSettings, disk, table, recorded, clock>>
    /\ UNCHANGED <<server, late, faults, asked, overlap>>

CallStep(c) ==
    \/ FetchID(c) \/ FetchRest(c) \/ InsertTruckingLog(c) \/ Gate(c)
    \/ TakePage(c) \/ ReadID(c) \/ SendMessage(c) \/ ReceiveReply(c) \/ TimesOut(c) \/ Return(c)
    \/ DeleteTruckingLog(c) \/ Count(c) \/ Invalidate(c) \/ StoreId(c)

--------------------------------------------------------------------------------
(* The app *)

(* apply() writes the file some time later. *)
WriteToDisk ==
    /\ disk # prefs
    /\ disk' = prefs
    /\ UNCHANGED <<todo, sent, line, response, appSettings, prefs, table, recorded, clock>>
    /\ UNCHANGED <<server, late, faults, asked, overlap>>

(* The process is killed and started again: only the table and the file are *)
(* left.  Requests that are on their way arrive or do not.                  *)
AppKilled ==
    /\ Fault
    /\ \E C \in SUBSET {c \in Coroutines : line[c] = "request"} :
         late' = late \cup {GivenUp(c) : c \in C}
    /\ todo' = [c \in Coroutines |-> <<>>]
    /\ sent' = [c \in Coroutines |-> NoRequest]
    /\ line' = [c \in Coroutines |-> "closed"]
    /\ response' = "TIMEOUT"
    /\ appSettings' = Unregistered
    /\ prefs' = disk
    /\ fix' = [c \in Coroutines |-> 0]
    /\ UNCHANGED <<disk, table, recorded, located, tim, server, asked, overlap>>

--------------------------------------------------------------------------------
(* The server *)

Matches(r) ==
    r.id \in Ids /\ trucker[r.id] = [Verified |-> TRUE, AndroidID |-> r.uuid]

Stored(data) ==
    /\ \A l \in data : copies[l] < MaxCopies
    /\ copies' = [l \in Logs |-> IF l \in data THEN copies[l] + 1 ELSE copies[l]]

Registers(r) ==
    /\ ~trucker[r.id].Verified
    /\ trucker' = [trucker EXCEPT ![r.id] = [Verified |-> TRUE, AndroidID |-> r.uuid]]
    /\ registered' = registered \cup {<<r.id, r.uuid>>}

(* The records that precede some record in a batch. *)
Prefixes(data) == {{l \in data : tim[l] < tim[k]} : k \in data}

(* request r is handled to its end with the reply code. *)
Handled(r, code) ==
    \/ /\ r.req = "UPDATE_ID"
       /\ \/ code = "OK" /\ Registers(r)
          \/ code = "FAIL" /\ trucker[r.id].Verified /\ UNCHANGED <<trucker, registered>>
       /\ UNCHANGED copies
    \/ /\ r.req = "UPDATE_LOGS"
       /\ \/ code = "OK" /\ Matches(r) /\ Stored(r.data)
          \/ code = "INVALID_CREDENTIALS" /\ ~Matches(r) /\ UNCHANGED copies
       /\ UNCHANGED <<trucker, registered>>

(* The handler of r does not come to its end: a statement throws, or the    *)
(* server ends.  What it executed before stays: nothing, the UPDATE of the  *)
(* registration, or the rows up to the INSERT that failed.                  *)
Abandoned(r) ==
    \/ UNCHANGED server
    \/ r.req = "UPDATE_ID" /\ Registers(r) /\ UNCHANGED copies
    \/ /\ r.req = "UPDATE_LOGS" /\ Matches(r)
       /\ \E stored \in Prefixes(r.data) : Stored(stored)
       /\ UNCHANGED <<trucker, registered>>

Served(c) == line[c] = "request" /\ UNCHANGED <<todo, sent, response, appSettings, prefs, disk,
                                                table, recorded, clock, late, asked, overlap>>

(* The server answers; a statement that fails is answered PARSE_FAIL. *)
Answer(c) ==
    /\ Served(c)
    /\ \/ /\ \E code \in Codes : Handled(sent[c], code) /\ line' = [line EXCEPT ![c] = code]
          /\ UNCHANGED faults
       \/ Fault /\ Abandoned(sent[c]) /\ line' = [line EXCEPT ![c] = "PARSE_FAIL"]

(* The answer is lost, or the server ends amid the statements. *)
AnswerLost(c) ==
    /\ Served(c)
    /\ Fault
    /\ line' = [line EXCEPT ![c] = "silent"]
    /\ (\E code \in Codes : Handled(sent[c], code)) \/ Abandoned(sent[c])

(* The server comes to a request whose sender has given up. *)
HandleLate ==
    /\ \E q \in late :
         /\ late' = late \ {q}
         /\ \/ (\E code \in Codes : Handled(q.request, code)) /\ UNCHANGED faults
            \/ Fault /\ Abandoned(q.request)
    /\ UNCHANGED <<phone, asked, overlap>>

(* The manager resets a trucker. *)
ResetTrucker(i) ==
    /\ trucker[i].Verified \/ i \in asked
    /\ trucker' = [trucker EXCEPT ![i].Verified = FALSE]
    /\ asked' = asked \ {i}
    /\ UNCHANGED <<phone, copies, registered, late, faults, overlap>>

--------------------------------------------------------------------------------
Next ==
    \/ \E c \in Coroutines :
         \/ Location(c) \/ PressUpload(c) \/ UpdateUI(c)
         \/ \E i \in Ids : EnterId(c, i)
         \/ CallStep(c)
         \/ Answer(c) \/ AnswerLost(c)
    \/ OnItemSelected
    \/ WriteToDisk
    \/ AppKilled
    \/ HandleLate
    \/ \E i \in Ids : ResetTrucker(i)

Spec == Init /\ [][Next]_vars

(* Fairness.  Coroutines that can go on do, and the server answers what is *)
(* not lost; apply() reaches the file.  Of the people: the driver uploads  *)
(* again and again, and enters the ID again while it is crossed out; the   *)
(* manager resets the IDs asked for.  From some time on the driver leaves  *)
(* a verified ID alone, and the manager resets only on request.            *)
Reregister == ~prefs.VERIFIED /\ \E c \in Coroutines, i \in Ids : EnterId(c, i)

ResetOnRequest == \E i \in asked : ResetTrucker(i)

Registering(s) == \E c \in Coroutines : s[c].req = "UPDATE_ID"

FairSpec ==
    /\ Spec
    /\ \A c \in Coroutines :
         /\ WF_vars(CallStep(c))
         /\ WF_vars(Answer(c))
         /\ SF_vars(PressUpload(c))
    /\ SF_vars(Reregister)
    /\ WF_vars(WriteToDisk)
    /\ WF_vars(ResetOnRequest)
    /\ <>[][Registering(sent) \/ ~Registering(sent') \/ ~prefs.VERIFIED]_vars
    /\ <>[][\A i \in Ids : trucker[i].Verified /\ ~trucker'[i].Verified => i \in asked]_vars

--------------------------------------------------------------------------------
(* Properties *)

TypeOK ==
    /\ todo \in [Coroutines -> Seq(Steps)]
    /\ sent \in [Coroutines -> Requests \cup {NoRequest}]
    /\ line \in [Coroutines -> Codes \cup {"closed", "request", "silent"}]
    /\ response \in Codes
    /\ {appSettings, prefs, disk} \subseteq Settings
    /\ recorded \in 0 .. MaxLogs
    /\ located \in 0 .. MaxLogs
    /\ fix \in [Coroutines -> 0 .. MaxLogs]
    /\ tim \in [Logs -> 0 .. MaxLogs]
    /\ table \subseteq 1 .. recorded
    /\ trucker \in [Ids -> [Verified : BOOLEAN, AndroidID : Uuids \cup {NoUuid}]]
    /\ copies \in [Logs -> 0 .. MaxCopies]
    /\ \A q \in late : q.from \in Coroutines /\ q.n \in 0 .. MaxFaults /\ q.request \in Requests
    /\ faults \in 0 .. MaxFaults
    /\ registered \subseteq Ids \X Uuids
    /\ asked \subseteq Ids
    /\ overlap \subseteq {"call", "send"}

(* design.tex, the Android application: "Upon successful transmission, the  *)
(* local database (running on the Android device) is cleared.  However, if  *)
(* a connection fails, the local database is not cleared."  A record the    *)
(* phone made is in its table until the server has stored it.               *)
ClearedOnlyWhenTransmitted ==
    \A l \in 1 .. recorded : l \in table \/ copies[l] > 0

(* Records are lost neither to lost messages, timeouts, kills of the app or *)
(* the server nor to calls that interleave, as long as sendMessage itself   *)
(* runs in one call at a time.                                              *)
NothingLost == "send" \notin overlap => ClearedOnlyWhenTransmitted

(* uploadLogs delivers at least once: what is stored twice was paid for by *)
(* a fault or by another call that took the same records, and a fault hits *)
(* every call that is under way.                                           *)
CopiesBounded ==
    "send" \notin overlap =>
        \A l \in 1 .. recorded : copies[l] <= Cardinality(Coroutines) * (1 + faults)

(* The phone counts itself verified only under a pair of ID and UUID that   *)
(* the server once registered, whatever of it was lost on the way.          *)
VerifiedIsBacked ==
    "send" \notin overlap /\ prefs.VERIFIED => <<prefs.ID, prefs.UUID>> \in registered

(* Conversely a phone whose ID and UUID the server recognises knows it, so  *)
(* that it goes on uploading: no crash, stale file or late answer leaves it *)
(* out by itself.  (Overlapping calls do: a refusal of the old ID clears    *)
(* the flag of the new one.)                                                *)
Recognised ==
    /\ "call" \notin overlap
    /\ Matches([id |-> prefs.ID, uuid |-> prefs.UUID])
    => prefs.VERIFIED

(* With one call at a time the repository, the table and the server          *)
(* together implement the abstract store-and-forward: no lost, late or       *)
(* repeated exchange, no page that is cut and no kill lets a record be       *)
(* forgotten before it is stored or stored before one it should follow.      *)
Delivery == INSTANCE LogDelivery WITH
    Records <- Logs,
    Times <- 0 .. MaxLogs,
    made <- 1 .. recorded,
    held <- table,
    delivered <- {l \in Logs : copies[l] > 0}

ImplementsDelivery == Delivery!Spec

(* Several calls do so too, a page that was read long before it is sent and  *)
(* records that are inserted after newer ones included, until two of their   *)
(* exchanges overlap.                                                        *)
DeliversWhileApart ==
    Delivery!Init /\ [][Delivery!Next \/ UNCHANGED Delivery!vars \/ "send" \in overlap]_vars

(* Every record leaves the phone in the end, and it is then on the server:  *)
(* a lost registration, a reset, a refusal, a statement that fails and a    *)
(* kill of the app are all overcome.                                        *)
EventuallyDelivered ==
    \A l \in Logs : l \in table ~> (l \notin table /\ copies[l] > 0)

================================================================================
