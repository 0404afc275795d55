------------------------ MODULE MainRepository_exchange ------------------------
(***************************************************************************)
(* Two more theorems about MainRepository, for any number of coroutines,   *)
(* records, IDs and faults: a phone that makes one call at a time does not *)
(* forget a registration the server still has, and a record is stored no   *)
(* more often than faults and coroutines account for.                      *)
(***************************************************************************)
EXTENDS MainRepository_proofs, FiniteSetTheorems

--------------------------------------------------------------------------------
(* The invariant of the registration *)

(* The server has a verified row for the ID and UUID of the settings s.    *)
Recognises(s) == Matches([id |-> s.ID, uuid |-> s.UUID])

Known(s) == Recognises(s) => s.VERIFIED

OneCall == \A c, d \in Coroutines : Running(c) /\ Running(d) => c = d

(* c registers with a UUID, which it has not given up.                     *)
Claiming(c) == sent[c].req = "UPDATE_ID" /\ ~(At(c, "return") /\ response # "OK")

(* A UUID that may still be registered is nobody's yet.                    *)
Unused(uuid) == uuid \notin {prefs.UUID, disk.UUID}

LateClaims == \A q \in late : q.request.req = "UPDATE_ID" => Unused(q.request.uuid)

Claim(c) ==
    /\ Unused(sent[c].uuid)
    /\ \A q \in late : q.request.req = "UPDATE_ID" => q.request.uuid # sent[c].uuid

(* The shared settings are those of the preferences.                       *)
Mirrored == appSettings.ID = prefs.ID /\ appSettings.UUID = prefs.UUID

(* c was told, or is about to act upon it, that its batch was refused.     *)
Refused(c) ==
    \/ sent[c].req = "UPDATE_LOGS" /\ At(c, "wait") /\ line[c] = "INVALID_CREDENTIALS"
    \/ sent[c].req = "UPDATE_LOGS" /\ At(c, "return") /\ response = "INVALID_CREDENTIALS"
    \/ At(c, "invalidate")

Aware(c) ==
    /\ Claiming(c) => Claim(c)
    /\ At(c, "fetchRest") => appSettings.ID = prefs.ID
    /\ \A step \in {"insert", "gate", "page", "readID", "send", "wait", "return", "delete", "count"} :
          At(c, step) => Mirrored
    /\ sent[c].req = "UPDATE_LOGS" =>
          /\ At(c, "send") \/ Sending(c) => sent[c].id = prefs.ID
          /\ Sending(c) => sent[c].uuid = prefs.UUID
    /\ Refused(c) => ~Recognises(prefs)

(* With one call at a time: what may still be registered is not on the     *)
(* phone yet, and a refusal is about the preferences as they are.          *)
Apprised ==
    "call" \notin overlap =>
        /\ OneCall /\ "send" \notin overlap
        /\ \A c \in Coroutines : Running(c) => Aware(c)
        /\ LateClaims
        /\ Known(prefs) /\ Known(disk)

--------------------------------------------------------------------------------
(* The invariant of the copies *)

(* c may yet have l stored: it has read the page, and nothing has answered  *)
(* its request.                                                            *)
Asking(c, l) ==
    /\ sent[c].req = "UPDATE_LOGS" /\ l \in sent[c].data
    /\ At(c, "readID") \/ At(c, "send") \/ line[c] = "request"

(* c may yet delete l: its request is open, or was answered with OK.       *)
Holding(c, l) ==
    \/ Asking(c, l)
    \/ /\ sent[c].req = "UPDATE_LOGS" /\ l \in sent[c].data
       /\ \/ At(c, "wait") /\ line[c] = "OK"
          \/ At(c, "return") /\ response = "OK"
          \/ At(c, "delete")

Askers(l) == {c \in Coroutines : Asking(c, l)}
Underway(l) == Cardinality(Askers(l))
Holders(l) == {c \in Coroutines : Holding(c, l)}

(* Requests that were given up and still have l stored when they arrive.   *)
Belated(l) == {q \in late : q.request.req = "UPDATE_LOGS" /\ l \in q.request.data}

(* The rows of l, and those that pages and requests can still make.         *)
Due(l) == copies[l] + Cardinality(Belated(l)) + Underway(l)

(* No row of l has been deleted from the table yet.                        *)
Present(l) == l \in table \/ l > recorded

(* A fault costs at most a row for each coroutine; every other row is that *)
(* of a coroutine which will delete the record, until one did.             *)
Allowed(l) ==
    Cardinality(Coroutines) * faults
      + IF Present(l) THEN Cardinality(Holders(l)) ELSE Cardinality(Coroutines)

Counted ==
    /\ \A c \in Coroutines : sent[c].data \subseteq 1 .. recorded
    /\ "send" \notin overlap =>
          /\ IsFiniteSet(late)
          /\ \A l \in Logs : Due(l) <= Allowed(l)

--------------------------------------------------------------------------------
(* A phone that makes one call at a time *)

(* A registration that is handled makes the server recognise nobody else.  *)
LEMMA StillUnknown ==
    ASSUME Typed, NEW r \in Requests,
           (\E code \in Codes : Handled(r, code)) \/ Abandoned(r),
           NEW s \in Settings, r.req = "UPDATE_ID" => r.uuid # s.UUID,
           s.ID \in Ids, trucker'[s.ID] = [Verified |-> TRUE, AndroidID |-> s.UUID]
    PROVE  trucker[s.ID] = [Verified |-> TRUE, AndroidID |-> s.UUID]
<1>1. \/ UNCHANGED trucker
      \/ /\ r.req = "UPDATE_ID"
         /\ trucker' = [trucker EXCEPT ![r.id] = [Verified |-> TRUE, AndroidID |-> r.uuid]]
    BY DEF Handled, Abandoned, Registers, server
<1>2. CASE UNCHANGED trucker
    BY <1>2
<1>3. CASE /\ r.req = "UPDATE_ID"
           /\ trucker' = [trucker EXCEPT ![r.id] = [Verified |-> TRUE, AndroidID |-> r.uuid]]
    <2>1. s.ID # r.id
        <3>1. s.ID = r.id => trucker'[s.ID].AndroidID = r.uuid
            BY <1>3 DEF Typed, TypeOK
        <3>. QED
            BY <3>1, <1>3
    <2>. QED
        BY <2>1, <1>3 DEF Typed, TypeOK
<1>. QED
    BY <1>1, <1>2, <1>3

(* A step of the call that runs, or of the server on its connection.       *)
LEMMA ApprisedStep ==
    ASSUME Typed, Apprised, Grows, NEW c \in Coroutines, Running(c),
           \A d \in Coroutines \ {c} : todo'[d] = todo[d],
           ASSUME Aware(c), LateClaims, Known(prefs), Known(disk),
                  "send" \notin overlap,
                  \A d \in Coroutines \ {c} : ~Running(d)
           PROVE  /\ Running(c)' => Aware(c)'
                  /\ LateClaims' /\ Known(prefs)' /\ Known(disk)' /\ "send" \notin overlap'
    PROVE  Apprised'
<1>. SUFFICES ASSUME "call" \notin overlap'
              PROVE  /\ OneCall' /\ "send" \notin overlap'
                     /\ \A d \in Coroutines : Running(d)' => Aware(d)'
                     /\ LateClaims' /\ Known(prefs)' /\ Known(disk)'
    BY DEF Apprised
<1>1. /\ OneCall /\ "send" \notin overlap /\ Aware(c) /\ LateClaims /\ Known(prefs) /\ Known(disk)
    BY DEF Apprised, Grows
<1>2. \A d \in Coroutines \ {c} : ~Running(d) /\ ~Running(d)'
    BY <1>1 DEF OneCall, Running
<1>3. OneCall'
    BY <1>2 DEF OneCall
<1>4. /\ Running(c)' => Aware(c)'
      /\ LateClaims' /\ Known(prefs)' /\ Known(disk)' /\ "send" \notin overlap'
    BY <1>1, <1>2
<1>. QED
    BY <1>2, <1>3, <1>4

LEMMA ApprisedStarts ==
    ASSUME Typed, Apprised, Grows, NEW c \in Coroutines,
           Location(c) \/ PressUpload(c) \/ UpdateUI(c) \/ \E i \in Ids : EnterId(c, i)
    PROVE  Apprised'
<1>. SUFFICES ASSUME "call" \notin overlap'
              PROVE  /\ OneCall' /\ "send" \notin overlap'
                     /\ \A d \in Coroutines : Running(d)' => Aware(d)'
                     /\ LateClaims' /\ Known(prefs)' /\ Known(disk)'
    BY DEF Apprised
<1>1. PICK steps \in {Fetch, Upload, Update, ProcessLocation} : \E r : Begin(c, steps, r)
    BY DEF Location, PressUpload, UpdateUI, EnterId
<1>2. PICK r : Begin(c, steps, r)
    BY <1>1
<1>3. /\ \A d \in Coroutines : ~Running(d)
      /\ overlap' = overlap /\ "call" \notin overlap
    BY <1>2 DEF Begin, Grows
<1>4. LateClaims /\ Known(prefs) /\ Known(disk) /\ "send" \notin overlap
    BY <1>3 DEF Apprised
<1>5. UNCHANGED <<line, response, appSettings, prefs, disk, trucker, late>>
    BY <1>2 DEF Begin
<1>6. At(c, "fetchID")' /\ \A d \in Coroutines \ {c} : ~Running(d)'
    <2>1. todo' = [todo EXCEPT ![c] = steps]
        BY <1>2 DEF Begin
    <2>. QED
        BY <2>1, <1>3, Starts DEF At, Running, Typed
<1>7. sent'[c].req = "UPDATE_ID" => Claim(c)'
    <2>1. CASE \E i \in Ids : EnterId(c, i)
        <3>. DEFINE u == CHOOSE v \in Uuids : Fresh(v)
        <3>1. PICK i \in Ids : EnterId(c, i)
            BY <2>1
        <3>2. /\ Fresh(u)
              /\ sent' = [sent EXCEPT ![c] = [req |-> "UPDATE_ID", id |-> i, uuid |-> u, data |-> {}]]
            BY <3>1 DEF EnterId, Begin
        <3>. HIDE DEF u
        <3>3. sent'[c].uuid = u
            BY <3>2 DEF Typed, TypeOK
        <3>. QED
            BY <3>2, <3>3, <1>5 DEF Fresh, Claim, Unused
    <2>2. CASE Location(c) \/ PressUpload(c) \/ UpdateUI(c)
        <3>1. sent' \in {[sent EXCEPT ![c] = NoRequest],
                         [sent EXCEPT ![c] = [NoRequest EXCEPT !.req = "UPDATE_LOGS"]]}
            BY <2>2 DEF Location, PressUpload, UpdateUI, Begin
        <3>2. sent'[c].req # "UPDATE_ID"
            BY <3>1 DEF NoRequest, Typed, TypeOK
        <3>. QED
            BY <3>2
    <2>. QED
        BY <2>1, <2>2
<1>8. Aware(c)'
    BY <1>6, <1>7 DEF Aware, Claiming, Refused, Sending, At
<1>. QED
    BY <1>3, <1>4, <1>5, <1>6, <1>8
    DEF OneCall, LateClaims, Unused, Known, Recognises, Matches

LEMMA ApprisedCallStep ==
    ASSUME Typed, Apart, Apprised, Grows, NEW c \in Coroutines, CallStep(c)
    PROVE  Apprised'
<1>0. Running(c)
    BY DEF CallStep, FetchID, FetchRest, InsertTruckingLog, Gate, TakePage, ReadID, SendMessage,
           ReceiveReply, TimesOut, Return, DeleteTruckingLog, Count, Invalidate, StoreId, At
<1>1. todo \in [Coroutines -> Plans] /\ sent \in [Coroutines -> Requests \cup {NoRequest}]
    BY DEF Typed, TypeOK
<1>. DEFINE Before ==
                /\ Aware(c) /\ LateClaims /\ Known(prefs) /\ Known(disk)
                /\ "send" \notin overlap
                /\ \A d \in Coroutines \ {c} : ~Running(d)
            After ==
                /\ Running(c)' => Aware(c)'
                /\ LateClaims' /\ Known(prefs)' /\ Known(disk)' /\ "send" \notin overlap'
<1>2. ASSUME \A d \in Coroutines \ {c} : todo'[d] = todo[d], Before => After
      PROVE  Apprised'
    BY <1>0, <1>2, ApprisedStep
<1>3. ASSUME Before, UNCHANGED <<prefs, disk, late, trucker, overlap>>
      PROVE  LateClaims' /\ Known(prefs)' /\ Known(disk)' /\ "send" \notin overlap'
    BY <1>3 DEF LateClaims, Unused, Known, Recognises, Matches
<1>4. CASE FetchID(c)
    <2>1. /\ \A d \in Coroutines \ {c} : todo'[d] = todo[d]
          /\ Running(c)' => At(c, "fetchRest")'
        BY <1>0, <1>1, <1>4, Advance DEF FetchID
    <2>2. /\ UNCHANGED <<sent, prefs, disk, late, trucker, overlap>> /\ appSettings'.ID = prefs.ID
        BY <1>4 DEF FetchID, server, Typed, TypeOK, Settings
    <2>3. ASSUME Before PROVE Running(c)' => Aware(c)'
        BY <1>4, <2>1, <2>2, <2>3
        DEF FetchID, Aware, Claiming, Claim, Unused, Refused, Sending, At
    <2>. QED
        BY <1>2, <1>3, <2>1, <2>2, <2>3
<1>5. CASE FetchRest(c)
    <2>1. /\ \A d \in Coroutines \ {c} : todo'[d] = todo[d]
          /\ ~At(c, "fetchRest")' /\ ~At(c, "wait")' /\ ~At(c, "return")' /\ ~At(c, "invalidate")'
        BY <1>0, <1>1, <1>5, Advance DEF FetchRest, At
    <2>2. UNCHANGED <<sent, prefs, disk, late, trucker, overlap>>
        BY <1>5 DEF FetchRest, server
    <2>3. ASSUME Before PROVE Running(c)' => Aware(c)'
        <3>1. Mirrored'
            BY <1>5, <2>2, <2>3 DEF FetchRest, Aware, Mirrored, Typed, TypeOK, Settings
        <3>2. Claiming(c)' => Claiming(c)
            BY <1>5, <2>2 DEF FetchRest, Claiming, At
        <3>3. At(c, "send")' => sent[c].req = "UPDATE_ID"
            BY <1>1, <1>5, AsksToRegister DEF FetchRest, Typed
        <3>. QED
            BY <2>1, <2>2, <2>3, <3>1, <3>2, <3>3 DEF Aware, Claim, Unused, Refused, Sending
    <2>. QED
        BY <1>2, <1>3, <2>1, <2>2, <2>3
<1>6. CASE InsertTruckingLog(c)
    <2>1. /\ \A d \in Coroutines \ {c} : todo'[d] = todo[d]
          /\ ~At(c, "fetchRest")' /\ ~At(c, "wait")' /\ ~At(c, "return")' /\ ~At(c, "invalidate")'
          /\ ~At(c, "send")'
        BY <1>0, <1>1, <1>6, Advance DEF InsertTruckingLog, At
    <2>2. UNCHANGED <<sent, appSettings, prefs, disk, late, trucker, overlap>>
        BY <1>6 DEF InsertTruckingLog, server
    <2>3. ASSUME Before PROVE Running(c)' => Aware(c)'
        <3>1. Mirrored'
            BY <1>6, <2>2, <2>3 DEF InsertTruckingLog, Aware, Mirrored
        <3>2. Claiming(c)' => Claiming(c)
            BY <1>6, <2>2 DEF InsertTruckingLog, Claiming, At
        <3>. QED
            BY <2>1, <2>2, <2>3, <3>1, <3>2 DEF Aware, Claim, Unused, Refused, Sending
    <2>. QED
        BY <1>2, <1>3, <2>1, <2>2, <2>3
<1>7. CASE Gate(c)
    <2>1. PICK steps \in {<<>>, Upload} :
              /\ Then(c, steps)
              /\ steps = Upload => sent' = [sent EXCEPT ![c].req = "UPDATE_LOGS"]
        BY <1>7, Starts DEF Gate, Done
    <2>2. todo' = [todo EXCEPT ![c] = steps]
        BY <1>1, <1>7, <2>1, Decide, Starts DEF Gate
    <2>3. UNCHANGED <<appSettings, prefs, disk, late, trucker, overlap>>
        BY <1>7 DEF Gate, server
    <2>4. Running(c)' => At(c, "fetchID")' /\ sent'[c].req = "UPDATE_LOGS"
        BY <1>1, <2>1, <2>2, Starts DEF Running, At, Requests, NoRequest
    <2>5. Running(c)' => Aware(c)'
        BY <2>4 DEF Aware, Claiming, Refused, Sending, At
    <2>. QED
        BY <1>1, <1>2, <1>3, <2>2, <2>3, <2>5
<1>8. CASE SendMessage(c)
    <2>1. /\ \A d \in Coroutines \ {c} : todo'[d] = todo[d]
          /\ ~At(c, "fetchRest")' /\ ~At(c, "return")' /\ ~At(c, "invalidate")'
        BY <1>0, <1>1, <1>8, Advance DEF SendMessage, At
    <2>2. /\ UNCHANGED <<appSettings, prefs, disk, late, trucker>> /\ line'[c] = "request"
          /\ \/ sent[c].req = "UPDATE_ID" /\ sent' = sent
             \/ /\ sent'[c].req = sent[c].req /\ sent[c].req # "UPDATE_ID"
                /\ sent'[c].id = sent[c].id /\ sent'[c].uuid = appSettings.UUID
        BY <1>1, <1>8 DEF SendMessage, server, Typed, TypeOK, Requests, NoRequest
    <2>3. ASSUME Before PROVE (Running(c)' => Aware(c)') /\ overlap' = overlap
        <3>1. overlap' = overlap
            BY <1>8, <2>3 DEF SendMessage, Sending, At
        <3>2. Mirrored
            BY <1>8, <2>3 DEF SendMessage, Aware
        <3>3. Claiming(c)' => Claiming(c) /\ sent' = sent
            BY <1>8, <2>2 DEF SendMessage, Claiming, At
        <3>4. sent[c].req = "UPDATE_LOGS" => sent[c].id = prefs.ID
            BY <1>8, <2>3 DEF SendMessage, Aware
        <3>. QED
            BY <2>1, <2>2, <2>3, <3>1, <3>2, <3>3, <3>4
            DEF Aware, Claim, Unused, Refused, Mirrored
    <2>. QED
        BY <1>2, <1>3, <2>1, <2>2, <2>3
<1>9. CASE ReceiveReply(c)
    <2>1. /\ \A d \in Coroutines \ {c} : todo'[d] = todo[d]
          /\ At(c, "return")' /\ At(c, "wait")
        BY <1>0, <1>1, <1>9, Advance DEF ReceiveReply
    <2>2. UNCHANGED <<sent, appSettings, prefs, disk, late, trucker, overlap>> /\ response' = line[c]
        BY <1>9 DEF ReceiveReply, server
    <2>3. ASSUME Before PROVE Running(c)' => Aware(c)'
        BY <2>1, <2>2, <2>3
        DEF Aware, Claiming, Claim, Unused, Refused, Mirrored, Sending, Recognises, Matches, At
    <2>. QED
        BY <1>2, <1>3, <2>1, <2>2, <2>3
<1>10. CASE TimesOut(c)
    <2>1. /\ \A d \in Coroutines \ {c} : todo'[d] = todo[d]
          /\ At(c, "return")' /\ At(c, "wait")
        BY <1>0, <1>1, <1>10, Advance DEF TimesOut
    <2>2. /\ UNCHANGED <<sent, appSettings, prefs, disk, trucker, overlap>> /\ response' = "TIMEOUT"
          /\ late' \in {late, late \cup {GivenUp(c)}}
        BY <1>10 DEF TimesOut, server
    <2>3. ASSUME Before PROVE Running(c)' => Aware(c)'
        BY <2>1, <2>2, <2>3
        DEF Aware, Claiming, Refused, Mirrored, Sending, At
    <2>4. ASSUME Before PROVE LateClaims' /\ Known(prefs)' /\ Known(disk)' /\ "send" \notin overlap'
        <3>1. sent[c].req = "UPDATE_ID" => Unused(sent[c].uuid)
            BY <2>1, <2>4 DEF Aware, Claiming, Claim, At
        <3>2. GivenUp(c).request = sent[c]
            BY DEF GivenUp
        <3>3. LateClaims'
            BY <2>2, <2>4, <3>1, <3>2 DEF LateClaims, Unused
        <3>. QED
            BY <2>2, <2>4, <3>3 DEF Known, Recognises, Matches
    <2>. QED
        BY <1>2, <2>1, <2>3, <2>4
<1>11. CASE Return(c)
    <2>1. AfterUpload(response) \in Plans /\ AfterUpdate(response) \in Plans
        BY Starts DEF AfterUpload, AfterUpdate
    <2>2. \/ sent[c].req = "UPDATE_LOGS" /\ todo' = [todo EXCEPT ![c] = AfterUpload(response)]
          \/ sent[c].req = "UPDATE_ID" /\ todo' = [todo EXCEPT ![c] = AfterUpdate(response)]
        BY <1>1, <1>11, <2>1, Decide DEF Return
    <2>3. /\ UNCHANGED <<appSettings, prefs, disk, late, trucker, overlap>>
          /\ sent'[c] = IF response = "OK" THEN sent[c] ELSE NoRequest
        BY <1>1, <1>11 DEF Return, server
    <2>4. \A d \in Coroutines \ {c} : todo'[d] = todo[d]
        BY <1>1, <2>2
    <2>5. ASSUME Before PROVE Running(c)' => Aware(c)'
        <3>1. CASE response = "OK" /\ sent[c].req = "UPDATE_LOGS"
            <4>1. At(c, "delete")' /\ sent'[c] = sent[c]
                BY <1>1, <2>2, <2>3, <3>1, Starts DEF AfterUpload, At, Running
            <4>2. Mirrored
                BY <1>11, <2>5 DEF Return, Aware
            <4>. QED
                BY <2>3, <3>1, <4>1, <4>2 DEF Aware, Claiming, Refused, Mirrored, Sending, At
        <3>2. CASE response = "OK" /\ sent[c].req = "UPDATE_ID"
            <4>1. At(c, "store")' /\ sent'[c] = sent[c]
                BY <1>1, <2>2, <2>3, <3>2, Starts DEF AfterUpdate, At, Running
            <4>2. Claim(c)
                BY <2>5, <3>2 DEF Aware, Claiming
            <4>. QED
                BY <2>3, <3>2, <4>1, <4>2 DEF Aware, Claim, Unused, Refused, Sending, At
        <3>3. CASE response = "INVALID_CREDENTIALS" /\ sent[c].req = "UPDATE_LOGS"
            <4>1. At(c, "invalidate")' /\ sent'[c] = NoRequest
                BY <1>1, <2>2, <2>3, <3>3, Starts DEF AfterUpload, At, Running
            <4>2. ~Recognises(prefs)
                BY <1>11, <2>5, <3>3 DEF Return, Aware, Refused
            <4>. QED
                BY <2>3, <4>1, <4>2
                DEF Aware, Claiming, Sending, At, Recognises, Matches, NoRequest
        <3>4. CASE /\ response # "OK"
                   /\ response # "INVALID_CREDENTIALS" \/ sent[c].req = "UPDATE_ID"
            <4>1. At(c, "fetchID")' /\ sent'[c] = NoRequest
                BY <1>1, <2>2, <2>3, <3>4, Starts DEF AfterUpload, AfterUpdate, At, Running
            <4>. QED
                BY <4>1 DEF Aware, Claiming, Refused, Sending, At, NoRequest
        <3>. QED
            BY <2>2, <3>1, <3>2, <3>3, <3>4
    <2>. QED
        BY <1>2, <1>3, <2>3, <2>4, <2>5
<1>12. CASE DeleteTruckingLog(c)
    <2>1. /\ \A d \in Coroutines \ {c} : todo'[d] = todo[d]
          /\ ~At(c, "fetchRest")' /\ ~At(c, "wait")' /\ ~At(c, "return")' /\ ~At(c, "invalidate")'
          /\ ~At(c, "send")'
        <3>1. CASE Done(c)
            BY <1>0, <1>1, <1>12, <3>1, Advance DEF DeleteTruckingLog, At
        <3>2. CASE UNCHANGED todo
            BY <1>12, <3>2 DEF DeleteTruckingLog, At, Running
        <3>. QED
            BY <1>12, <3>1, <3>2 DEF DeleteTruckingLog
    <2>2. UNCHANGED <<appSettings, prefs, disk, late, trucker, overlap>>
        BY <1>12 DEF DeleteTruckingLog, server
    <2>3. ASSUME Before PROVE Running(c)' => Aware(c)'
        <3>1. Mirrored
            BY <1>12, <2>3 DEF DeleteTruckingLog, Aware
        <3>2. sent[c].req = "UPDATE_LOGS"
            BY <1>12, <2>3 DEF DeleteTruckingLog, Apart, Vouched
        <3>3. sent'[c].req = "UPDATE_LOGS"
            BY <1>1, <1>12, <3>2 DEF DeleteTruckingLog, Requests, NoRequest
        <3>. QED
            BY <2>1, <2>2, <3>1, <3>3 DEF Aware, Claiming, Refused, Mirrored, Sending
    <2>. QED
        BY <1>2, <1>3, <2>1, <2>2, <2>3
<1>13. CASE Count(c)
    <2>1. PICK steps \in {Exchange, Fetch} :
              /\ Then(c, steps)
              /\ steps = Exchange \/ sent' = [sent EXCEPT ![c] = NoRequest]
              /\ sent' = sent \/ sent' = [sent EXCEPT ![c] = NoRequest]
        BY <1>1, <1>13 DEF Count
    <2>2. todo' = [todo EXCEPT ![c] = steps]
        BY <1>1, <1>13, <2>1, Decide, Starts DEF Count
    <2>3. UNCHANGED <<appSettings, prefs, disk, late, trucker, overlap>>
        BY <1>13 DEF Count, server
    <2>4. At(c, "page")' \/ At(c, "fetchID")'
        BY <1>1, <2>2, Starts DEF Running, At
    <2>5. ASSUME Before PROVE Running(c)' => Aware(c)'
        <3>1. Mirrored
            BY <1>13, <2>5 DEF Count, Aware
        <3>2. Claiming(c)' => Claiming(c) /\ sent'[c] = sent[c]
            BY <1>1, <1>13, <2>1 DEF Count, Claiming, At, NoRequest
        <3>. QED
            BY <2>3, <2>4, <2>5, <3>1, <3>2
            DEF Aware, Claim, Unused, Refused, Mirrored, Sending, At
    <2>. QED
        BY <1>1, <1>2, <1>3, <2>2, <2>3, <2>5
<1>14. CASE Invalidate(c)
    <2>1. /\ \A d \in Coroutines \ {c} : todo'[d] = todo[d]
          /\ Running(c)' => At(c, "fetchID")'
        BY <1>0, <1>1, <1>14, Advance DEF Invalidate
    <2>2. /\ UNCHANGED <<sent, disk, late, trucker, overlap>>
          /\ prefs'.ID = prefs.ID /\ prefs'.UUID = prefs.UUID
        BY <1>14 DEF Invalidate, server, Typed, TypeOK, Settings
    <2>3. ASSUME Before PROVE After
        <3>1. ~Recognises(prefs)
            BY <1>14, <2>3 DEF Invalidate, Aware, Refused
        <3>2. Known(prefs)' /\ Known(disk)' /\ LateClaims' /\ "send" \notin overlap'
            BY <2>2, <2>3, <3>1 DEF Known, Recognises, Matches, LateClaims, Unused
        <3>3. Claiming(c)' => Claiming(c)
            BY <1>14, <2>2 DEF Invalidate, Claiming, At
        <3>4. Running(c)' => Aware(c)'
            BY <2>1, <2>2, <2>3, <3>3 DEF Aware, Claim, Unused, Refused, Sending, At
        <3>. QED
            BY <3>2, <3>4
    <2>. QED
        BY <1>2, <2>1, <2>3
<1>15. CASE StoreId(c)
    <2>1. /\ \A d \in Coroutines \ {c} : todo'[d] = todo[d]
          /\ Running(c)' => At(c, "fetchID")'
        BY <1>0, <1>1, <1>15, Advance DEF StoreId
    <2>2. /\ UNCHANGED <<disk, late, trucker, overlap>> /\ sent'[c] = NoRequest
          /\ prefs'.UUID = sent[c].uuid /\ prefs'.VERIFIED = TRUE
        BY <1>1, <1>15 DEF StoreId, server, Typed, TypeOK, Settings
    <2>3. ASSUME Before PROVE After
        <3>1. sent[c].req = "UPDATE_ID"
            BY <1>15, <2>3 DEF StoreId, Apart, Vouched
        <3>2. Claim(c)
            BY <1>15, <2>3, <3>1 DEF StoreId, Aware, Claiming, At
        <3>3. Known(prefs)' /\ Known(disk)' /\ LateClaims' /\ "send" \notin overlap'
            BY <2>2, <2>3, <3>2 DEF Known, Recognises, Matches, LateClaims, Unused, Claim
        <3>4. Running(c)' => Aware(c)'
            BY <2>1, <2>2 DEF Aware, Claiming, Refused, Sending, At, NoRequest
        <3>. QED
            BY <3>3, <3>4
    <2>. QED
        BY <1>2, <2>1, <2>3
<1>16. CASE TakePage(c) \/ ReadID(c)
    <2>1. /\ \A d \in Coroutines \ {c} : todo'[d] = todo[d]
          /\ (At(c, "page") /\ At(c, "readID")') \/ (At(c, "readID") /\ At(c, "send")')
        <3>1. Done(c) /\ (At(c, "page") \/ At(c, "readID"))
            BY <1>16 DEF TakePage, ReadID
        <3>. QED
            BY <1>0, <1>1, <3>1, Advance
    <2>2. UNCHANGED <<appSettings, prefs, disk, late, trucker, overlap>>
        BY <1>16 DEF TakePage, ReadID, server
    <2>3. sent[c].req = "UPDATE_LOGS"
        BY <1>1, <2>1, AsksFor DEF Typed
    <2>4. /\ sent'[c].req = "UPDATE_LOGS"
          /\ At(c, "send")' => sent'[c].id = appSettings.ID
        BY <1>1, <1>16, <2>1, <2>3 DEF TakePage, ReadID, At, Requests, NoRequest
    <2>5. ASSUME Before PROVE Running(c)' => Aware(c)'
        <3>1. Mirrored
            BY <2>1, <2>5 DEF Aware
        <3>. QED
            BY <2>1, <2>2, <2>4, <3>1 DEF Aware, Claiming, Refused, Mirrored, Sending, At
    <2>. QED
        BY <1>2, <1>3, <2>1, <2>2, <2>5
<1>. QED
    BY <1>4, <1>5, <1>6, <1>7, <1>8, <1>9, <1>10, <1>11, <1>12, <1>13, <1>14, <1>15, <1>16
    DEF CallStep


(* The server handles a request.                                           *)
LEMMA ApprisedServer ==
    ASSUME Typed, Apprised, Grows, NEW c \in Coroutines, Answer(c) \/ AnswerLost(c)
    PROVE  Apprised'
<1>1. /\ line[c] = "request" /\ At(c, "wait") /\ sent[c] \in Requests /\ Running(c)
      /\ UNCHANGED <<todo, sent, response, appSettings, prefs, disk, late, overlap>>
    BY DEF Answer, AnswerLost, Served, Typed, Connected, At
<1>2. prefs \in Settings /\ disk \in Settings
    BY DEF Typed, TypeOK
<1>3. SUFFICES ASSUME Aware(c), LateClaims, Known(prefs), Known(disk),
                      "send" \notin overlap
               PROVE  /\ Running(c)' => Aware(c)'
                      /\ LateClaims' /\ Known(prefs)' /\ Known(disk)' /\ "send" \notin overlap'
    BY <1>1, ApprisedStep
<1>4. sent[c].req = "UPDATE_ID" => Claim(c)
    BY <1>1, <1>3 DEF Aware, Claiming, At
<1>5. /\ Recognises(prefs)' => Recognises(prefs)
      /\ Recognises(disk)' => Recognises(disk)
    <2>1. (\E code \in Codes : Handled(sent[c], code)) \/ Abandoned(sent[c])
        BY DEF Answer, AnswerLost
    <2>2. ASSUME NEW s \in {prefs, disk},
                 s.ID \in Ids, trucker'[s.ID] = [Verified |-> TRUE, AndroidID |-> s.UUID]
          PROVE  trucker[s.ID] = [Verified |-> TRUE, AndroidID |-> s.UUID]
        <3>1. sent[c].req = "UPDATE_ID" => sent[c].uuid # s.UUID
            BY <1>4, <2>2 DEF Claim, Unused
        <3>2. s \in Settings
            BY <1>2, <2>2
        <3>. QED
            BY <1>1, <2>1, <2>2, <3>1, <3>2, StillUnknown
    <2>. QED
        BY <1>1, <2>2 DEF Recognises, Matches
<1>6. LateClaims' /\ Known(prefs)' /\ Known(disk)' /\ "send" \notin overlap'
    BY <1>1, <1>3, <1>5 DEF LateClaims, Unused, Known
<1>7. Refused(c)' => ~Recognises(prefs)'
    <2>1. SUFFICES ASSUME sent[c].req = "UPDATE_LOGS", line'[c] = "INVALID_CREDENTIALS"
                   PROVE  ~Recognises(prefs)'
        BY <1>1 DEF Refused, At, Running
    <2>3. Handled(sent[c], "INVALID_CREDENTIALS")
        BY <2>1 DEF Answer, AnswerLost, Typed, TypeOK
    <2>4. ~Matches(sent[c])
        BY <2>1, <2>3 DEF Handled
    <2>5. sent[c].id = prefs.ID /\ sent[c].uuid = prefs.UUID
        BY <1>1, <1>3, <2>1 DEF Aware, Sending
    <2>. QED
        BY <1>5, <2>4, <2>5 DEF Recognises, Matches
<1>8. Claiming(c)' => Claim(c)'
    BY <1>1, <1>4 DEF Claiming, Claim, Unused
<1>9. Aware(c)'
    BY <1>1, <1>3, <1>7, <1>8 DEF Aware, Mirrored, Sending, At, Running
<1>. QED
    BY <1>6, <1>9

(* A step that leaves the calls alone and makes the server recognise       *)
(* nobody.                                                                 *)
LEMMA ApprisedQuiet ==
    ASSUME Apprised, Grows,
           UNCHANGED <<todo, sent, line, response, appSettings, overlap>>,
           late' \subseteq late,
           prefs'.ID = prefs.ID, prefs'.UUID = prefs.UUID, prefs'.VERIFIED = prefs.VERIFIED,
           disk' \in {disk, prefs},
           "call" \notin overlap =>
               \A s \in {prefs, disk} :
                   s.ID \in Ids /\ trucker'[s.ID] = [Verified |-> TRUE, AndroidID |-> s.UUID] =>
                       trucker[s.ID] = [Verified |-> TRUE, AndroidID |-> s.UUID]
    PROVE  Apprised'
<1>. SUFFICES ASSUME "call" \notin overlap'
              PROVE  /\ OneCall' /\ "send" \notin overlap'
                     /\ \A d \in Coroutines : Running(d)' => Aware(d)'
                     /\ LateClaims' /\ Known(prefs)' /\ Known(disk)'
    BY DEF Apprised
<1>1. /\ OneCall /\ "send" \notin overlap
      /\ \A d \in Coroutines : Running(d) => Aware(d)
      /\ LateClaims /\ Known(prefs) /\ Known(disk)
    BY DEF Apprised, Grows
<1>2. \A d \in Coroutines : /\ Running(d)' <=> Running(d)
                            /\ \A step : At(d, step)' <=> At(d, step)
    BY DEF Running, At
<1>3. Recognises(prefs)' => Recognises(prefs)
    BY DEF Recognises, Matches, Grows
<1>4. Known(prefs)' /\ Known(disk)'
    BY <1>1, <1>3 DEF Known, Recognises, Matches, Grows
<1>5. LateClaims'
    BY <1>1 DEF LateClaims, Unused
<1>6. ASSUME NEW d \in Coroutines, Running(d)' PROVE Aware(d)'
    <2>1. Aware(d)
        BY <1>1, <1>2, <1>6
    <2>2. Claiming(d)' => Claim(d)'
        BY <1>2, <2>1 DEF Aware, Claiming, Claim, Unused
    <2>3. Refused(d)' => ~Recognises(prefs)'
        BY <1>2, <1>3, <2>1 DEF Aware, Refused
    <2>. QED
        BY <1>2, <2>1, <2>2, <2>3 DEF Aware, Mirrored, Sending
<1>. QED
    BY <1>1, <1>2, <1>4, <1>5, <1>6 DEF OneCall

LEMMA ApprisedRest ==
    ASSUME Typed, Apprised, Grows,
           OnItemSelected \/ WriteToDisk \/ AppKilled \/ HandleLate
             \/ \E i \in Ids : ResetTrucker(i)
    PROVE  Apprised'
<1>1. prefs \in Settings /\ disk \in Settings
    BY DEF Typed, TypeOK
<1>2. CASE OnItemSelected
    <2>1. /\ UNCHANGED <<todo, sent, line, response, appSettings, overlap, late, disk, trucker>>
          /\ prefs'.ID = prefs.ID /\ prefs'.UUID = prefs.UUID /\ prefs'.VERIFIED = prefs.VERIFIED
        BY <1>1, <1>2 DEF OnItemSelected, server, Settings
    <2>. QED
        BY <2>1, ApprisedQuiet
<1>3. CASE WriteToDisk
    <2>1. /\ UNCHANGED <<todo, sent, line, response, appSettings, overlap, late, prefs, trucker>>
          /\ disk' = prefs
        BY <1>3 DEF WriteToDisk, server
    <2>. QED
        BY <2>1, ApprisedQuiet
<1>4. CASE AppKilled
    <2>. SUFFICES ASSUME "call" \notin overlap'
                  PROVE  /\ OneCall' /\ "send" \notin overlap'
                         /\ \A d \in Coroutines : Running(d)' => Aware(d)'
                         /\ LateClaims' /\ Known(prefs)' /\ Known(disk)'
        BY DEF Apprised
    <2>1. /\ "send" \notin overlap
          /\ \A d \in Coroutines : Running(d) => Aware(d)
          /\ LateClaims /\ Known(disk)
        BY DEF Apprised, Grows
    <2>2. \A d \in Coroutines : ~Running(d)'
        BY <1>4 DEF AppKilled, Running
    <2>3. prefs' = disk /\ UNCHANGED <<disk, trucker, overlap>>
        BY <1>4 DEF AppKilled, server
    <2>4. PICK C \in SUBSET {c \in Coroutines : line[c] = "request"} :
              late' = late \cup {GivenUp(c) : c \in C}
        BY <1>4 DEF AppKilled
    <2>5. ASSUME NEW c \in C, sent[c].req = "UPDATE_ID" PROVE Unused(sent[c].uuid)
        <3>1. At(c, "wait")
            BY <2>5 DEF Typed, Connected
        <3>2. Claim(c)
            BY <2>1, <2>5, <3>1 DEF Aware, Claiming, At
        <3>. QED
            BY <3>2 DEF Claim
    <2>6. LateClaims'
        BY <2>1, <2>3, <2>4, <2>5 DEF LateClaims, Unused, GivenUp
    <2>. QED
        BY <2>1, <2>2, <2>3, <2>6 DEF OneCall, Known, Recognises, Matches
<1>5. CASE HandleLate
    <2>1. PICK q \in late :
              /\ late' = late \ {q}
              /\ (\E code \in Codes : Handled(q.request, code)) \/ Abandoned(q.request)
        BY <1>5 DEF HandleLate
    <2>2. UNCHANGED <<todo, sent, line, response, appSettings, overlap, prefs, disk>>
        BY <1>5 DEF HandleLate, phone
    <2>3. ASSUME "call" \notin overlap,
                 NEW s \in {prefs, disk},
                 s.ID \in Ids, trucker'[s.ID] = [Verified |-> TRUE, AndroidID |-> s.UUID]
          PROVE  trucker[s.ID] = [Verified |-> TRUE, AndroidID |-> s.UUID]
        <3>1. q.request.req = "UPDATE_ID" => q.request.uuid # s.UUID
            BY <2>3 DEF Apprised, LateClaims, Unused
        <3>2. q.request \in Requests /\ s \in Settings
            BY <1>1 DEF Typed, TypeOK
        <3>. QED
            BY <2>1, <2>3, <3>1, <3>2, StillUnknown
    <2>. QED
        BY <2>1, <2>2, <2>3, ApprisedQuiet
<1>6. ASSUME NEW i \in Ids, ResetTrucker(i) PROVE Apprised'
    <2>1. UNCHANGED <<todo, sent, line, response, appSettings, overlap, prefs, disk, late>>
        BY <1>6 DEF ResetTrucker, phone
    <2>2. ASSUME NEW s \in {prefs, disk},
                 s.ID \in Ids, trucker'[s.ID] = [Verified |-> TRUE, AndroidID |-> s.UUID]
          PROVE  trucker[s.ID] = [Verified |-> TRUE, AndroidID |-> s.UUID]
        <3>1. trucker' = [trucker EXCEPT ![i].Verified = FALSE]
            BY <1>6 DEF ResetTrucker
        <3>2. s.ID # i
            <4>1. trucker'[i].Verified = FALSE
                BY <3>1 DEF Typed, TypeOK
            <4>. QED
                BY <2>2, <4>1
        <3>. QED
            BY <2>2, <3>1, <3>2 DEF Typed, TypeOK
    <2>. QED
        BY <2>1, <2>2, ApprisedQuiet
<1>. QED
    BY <1>2, <1>3, <1>4, <1>5, <1>6

LEMMA ApprisedNext == Typed /\ Apart /\ Apprised /\ [Next]_vars => Apprised'
<1>. SUFFICES ASSUME Typed, Apart, Apprised, [Next]_vars PROVE Apprised'
    OBVIOUS
<1>1. Grows
    BY Growing
<1>2. CASE UNCHANGED vars
    BY <1>1, <1>2, ApprisedQuiet DEF vars, phone, server
<1>3. CASE Next
    BY <1>1, <1>3, ApprisedStarts, ApprisedCallStep, ApprisedServer, ApprisedRest DEF Next
<1>. QED
    BY <1>2, <1>3

(* As long as one call runs at a time, a phone whose ID and UUID the server *)
(* has as verified knows that it is: neither a kill that restores an old   *)
(* file, a statement of the server that fails, nor a registration or a     *)
(* batch that is handled late leaves it out.                               *)
THEOREM RegistrationNotForgotten == Spec => []Recognised
<1>1. Init => Apprised
    BY DEF Init, Apprised, OneCall, LateClaims, Known, Recognises, Matches, Unregistered, Running
<1>2. IInv /\ Apprised /\ [Next]_vars => Apprised'
    BY ApprisedNext DEF IInv
<1>3. Apprised => Recognised
    BY DEF Apprised, Known, Recognises, Recognised
<1>. QED
    BY <1>1, <1>2, <1>3, Invariance, PTL DEF Spec

--------------------------------------------------------------------------------
(* How often a record is stored *)

(* As many coroutines hold a record as there are at most.                  *)
LEMMA FewCoroutines ==
    ASSUME NEW C \in SUBSET Coroutines
    PROVE  /\ IsFiniteSet(C) /\ Cardinality(C) \in Nat /\ Cardinality(Coroutines) \in Nat
           /\ Cardinality(C) <= Cardinality(Coroutines)
<1>1. IsFiniteSet(C) /\ Cardinality(C) <= Cardinality(Coroutines)
    BY FinitelyManyCoroutines, FS_Subset
<1>. QED
    BY <1>1, FinitelyManyCoroutines, FS_CardinalityType

(* One coroutine more or less counts one more or less.                     *)
LEMMA Headcount ==
    ASSUME NEW C \in SUBSET Coroutines, NEW D \in SUBSET Coroutines
    PROVE  /\ Cardinality(C) \in Nat /\ Cardinality(D) \in Nat
           /\ D \subseteq C => Cardinality(D) <= Cardinality(C)
           /\ \A c \in C : D \subseteq C \ {c} => Cardinality(D) + 1 <= Cardinality(C)
           /\ \A c \in Coroutines :
                 D \subseteq C \cup {c} => Cardinality(D) <= Cardinality(C) + 1
<1>1. /\ IsFiniteSet(C) /\ IsFiniteSet(D)
      /\ Cardinality(C) \in Nat /\ Cardinality(D) \in Nat
    BY FewCoroutines
<1>2. D \subseteq C => Cardinality(D) <= Cardinality(C)
    BY <1>1, FS_Subset
<1>3. ASSUME NEW c \in C, D \subseteq C \ {c}
      PROVE  Cardinality(D) + 1 <= Cardinality(C)
    <2>1. IsFiniteSet(C \ {c}) /\ Cardinality(C \ {c}) = Cardinality(C) - 1
        BY <1>1, <1>3, FS_RemoveElement, ZenonT(20)
    <2>2. Cardinality(D) <= Cardinality(C \ {c})
        BY <1>3, <2>1, FS_Subset
    <2>. QED
        BY <1>1, <2>1, <2>2
<1>4. ASSUME NEW c \in Coroutines, D \subseteq C \cup {c}
      PROVE  Cardinality(D) <= Cardinality(C) + 1
    <2>1. /\ IsFiniteSet(C \cup {c})
          /\ Cardinality(C \cup {c}) = IF c \in C THEN Cardinality(C) ELSE Cardinality(C) + 1
        BY <1>1, FS_AddElement, ZenonT(20)
    <2>2. Cardinality(D) <= Cardinality(C \cup {c})
        BY <1>4, <2>1, FS_Subset
    <2>. QED
        BY <1>1, <2>1, <2>2
<1>. QED
    BY <1>1, <1>2, <1>3, <1>4

LEMMA CountsAreNumbers ==
    ASSUME Typed, IsFiniteSet(late), NEW l \in Logs
    PROVE  /\ Cardinality(Belated(l)) \in Nat /\ copies[l] \in Nat /\ Underway(l) \in Nat
           /\ Due(l) \in Nat /\ faults \in Nat
<1>1. copies[l] \in Nat /\ faults \in Nat
    BY NaturalBounds DEF Typed, TypeOK
<1>2. IsFiniteSet(Belated(l))
    BY FS_Subset DEF Belated
<1>3. Cardinality(Belated(l)) \in Nat
    BY <1>2, FS_CardinalityType
<1>4. Underway(l) \in Nat
    BY FewCoroutines DEF Underway, Askers
<1>. QED
    BY <1>1, <1>3, <1>4 DEF Due

(* The ways a step may change what is due: it costs a fault; it is steady; *)
(* a call takes the record on its page and holds it from then on; or the   *)
(* server refuses a batch, and its sender no longer holds the record.      *)
CostsAFault(l) == faults' = faults + 1 /\ Due(l)' <= Due(l)

Steady(l) ==
    /\ faults' = faults /\ Due(l)' <= Due(l)
    /\ Present(l)' => Present(l) /\ Holders(l) \subseteq Holders(l)'

TakesUp(l) ==
    /\ faults' = faults /\ Due(l)' <= Due(l) + 1
    /\ Present(l)
    /\ \E c \in Coroutines : c \notin Holders(l) /\ Holders(l) \cup {c} \subseteq Holders(l)'

LetsGo(l) ==
    /\ faults' = faults /\ Due(l)' + 1 <= Due(l)
    /\ Present(l)' => Present(l)
    /\ \E c \in Coroutines : Holders(l) \ {c} \subseteq Holders(l)'

LEMMA WithinAllowance ==
    ASSUME Typed, Typed', IsFiniteSet(late), IsFiniteSet(late'), NEW l \in Logs,
           Due(l) <= Allowed(l),
           CostsAFault(l) \/ Steady(l) \/ TakesUp(l) \/ LetsGo(l)
    PROVE  Due(l)' <= Allowed(l)'
<1>. DEFINE N == Cardinality(Coroutines)
            H == Cardinality(Holders(l))
            K == Cardinality(Holders(l)')
<1>1. /\ Holders(l) \in SUBSET Coroutines /\ Holders(l)' \in SUBSET Coroutines
      /\ Coroutines \in SUBSET Coroutines
    BY DEF Holders
<1>2. N \in Nat /\ H \in Nat /\ K \in Nat /\ H <= N /\ K <= N
    BY <1>1, FewCoroutines
<1>3. Due(l) \in Nat /\ faults \in Nat
    BY CountsAreNumbers
<1>4. copies'[l] \in Nat /\ faults' \in Nat
    BY NaturalBounds DEF Typed, TypeOK
<1>5. Cardinality(Belated(l)') \in Nat
    <2>1. IsFiniteSet(Belated(l)')
        BY FS_Subset DEF Belated
    <2>. QED
        BY <2>1, FS_CardinalityType
<1>6. Due(l)' \in Nat
    <2>1. Underway(l)' \in Nat
        BY FewCoroutines DEF Underway, Askers
    <2>. QED
        BY <1>4, <1>5, <2>1 DEF Due
<1>7. /\ Allowed(l) = N * faults + (IF Present(l) THEN H ELSE N)
      /\ Allowed(l)' = N * faults' + (IF Present(l)' THEN K ELSE N)
    BY DEF Allowed
<1>8. N * faults \in Nat /\ N * (faults + 1) = N * faults + N
    BY <1>2, <1>3
<1>. DEFINE M == N * faults
<1>9. CASE CostsAFault(l)
    <2>1. N * faults' = M + N
        BY <1>8, <1>9 DEF CostsAFault
    <2>2. M \in Nat
        BY <1>8
    <2>3. Allowed(l) = M + (IF Present(l) THEN H ELSE N)
        BY <1>7
    <2>4. Allowed(l)' = M + N + (IF Present(l)' THEN K ELSE N)
        BY <1>7, <2>1
    <2>. HIDE DEF M, N, H, K
    <2>. QED
        BY <1>2, <1>3, <1>6, <1>9, <2>2, <2>3, <2>4 DEF CostsAFault
<1>10. CASE Steady(l) \/ TakesUp(l) \/ LetsGo(l)
    <2>1. N * faults' = M
        BY <1>10 DEF Steady, TakesUp, LetsGo
    <2>2. M \in Nat
        BY <1>8
    <2>3. Allowed(l) = M + (IF Present(l) THEN H ELSE N)
        BY <1>7
    <2>4. Allowed(l)' = M + (IF Present(l)' THEN K ELSE N)
        BY <1>7, <2>1
    <2>5. IsFiniteSet(Holders(l)) /\ IsFiniteSet(Holders(l)')
        BY <1>1, FewCoroutines
    <2>6. CASE Steady(l)
        <3>1. Present(l)' => H <= K
            BY <2>5, <2>6, FS_Subset DEF Steady
        <3>. HIDE DEF M, N, H, K
        <3>. QED
            BY <1>2, <1>3, <1>6, <2>2, <2>3, <2>4, <2>6, <3>1 DEF Steady
    <2>7. CASE TakesUp(l)
        <3>1. PICK c \in Coroutines : /\ c \notin Holders(l)
                                      /\ Holders(l) \cup {c} \subseteq Holders(l)'
            BY <2>7 DEF TakesUp
        <3>2. Cardinality(Holders(l) \cup {c}) = H + 1
            BY <2>5, <3>1, FS_AddElement
        <3>3. H + 1 <= K
            BY <2>5, <3>1, <3>2, FS_Subset
        <3>. HIDE DEF M, N, H, K
        <3>. QED
            BY <1>2, <1>3, <1>6, <2>2, <2>3, <2>4, <2>7, <3>3 DEF TakesUp
    <2>8. CASE LetsGo(l)
        <3>1. PICK c \in Coroutines : Holders(l) \ {c} \subseteq Holders(l)'
            BY <2>8 DEF LetsGo
        <3>2. Cardinality(Holders(l) \ {c}) = IF c \in Holders(l) THEN H - 1 ELSE H
            BY <2>5, FS_RemoveElement
        <3>3. Cardinality(Holders(l) \ {c}) <= K
            BY <2>5, <3>1, FS_Subset
        <3>4. H - 1 <= K
            BY <1>2, <3>2, <3>3
        <3>. HIDE DEF M, N, H, K
        <3>. QED
            BY <1>2, <1>3, <1>6, <2>2, <2>3, <2>4, <2>8, <3>4 DEF LetsGo
    <2>. QED
        BY <1>10, <2>6, <2>7, <2>8
<1>. QED
    BY <1>9, <1>10

(* What a step means for the rest of the invariant.                        *)
LEMMA CountedStep ==
    ASSUME Typed, Typed', Apart, Counted, Grows,
           \A c \in Coroutines : sent'[c].data \subseteq 1 .. recorded',
           ASSUME "send" \notin overlap', "send" \notin overlap, OneSender, IsFiniteSet(late)
           PROVE  /\ IsFiniteSet(late')
                  /\ \A l \in Logs : CostsAFault(l) \/ Steady(l) \/ TakesUp(l) \/ LetsGo(l)
    PROVE  Counted'
<1>. SUFFICES ASSUME "send" \notin overlap'
              PROVE  IsFiniteSet(late') /\ \A l \in Logs : Due(l)' <= Allowed(l)'
    BY DEF Counted
<1>1. "send" \notin overlap /\ OneSender /\ IsFiniteSet(late) /\ \A l \in Logs : Due(l) <= Allowed(l)
    BY DEF Counted, Apart, Grows
<1>. QED
    BY <1>1, WithinAllowance

(* A coroutine that a step does not touch.                                 *)
LEMMA HoldingFrame ==
    ASSUME NEW d \in Coroutines,
           todo'[d] = todo[d], sent'[d] = sent[d], line'[d] = line[d],
           response' = response \/ ~At(d, "return"),
           NEW l
    PROVE  (Holding(d, l)' <=> Holding(d, l)) /\ (Asking(d, l)' <=> Asking(d, l))
BY DEF Holding, Asking, At, Running

(* A step of c that asks for nothing new and lets go of nothing.           *)
LEMMA SteadyStep ==
    ASSUME Typed, IsFiniteSet(late), NEW c \in Coroutines,
           \A d \in Coroutines \ {c} :
               /\ todo'[d] = todo[d] /\ sent'[d] = sent[d] /\ line'[d] = line[d]
               /\ response' = response \/ ~At(d, "return"),
           UNCHANGED <<late, faults, copies>>,
           NEW l \in Logs,
           Present(l)' => Present(l) /\ (Holding(c, l) => Holding(c, l)'),
           Asking(c, l)' => Asking(c, l)
    PROVE  Steady(l)
<1>1. \A d \in Coroutines \ {c} : (Holding(d, l)' <=> Holding(d, l)) /\ (Asking(d, l)' <=> Asking(d, l))
    BY HoldingFrame
<1>2. Present(l)' => Holders(l) \subseteq Holders(l)'
    BY <1>1 DEF Holders
<1>3. Underway(l)' <= Underway(l) /\ Underway(l)' \in Nat
    <2>1. Askers(l)' \subseteq Askers(l) /\ Askers(l) \in SUBSET Coroutines
        BY <1>1 DEF Askers
    <2>. QED
        BY <2>1, Headcount DEF Underway
<1>4. Belated(l)' = Belated(l) /\ copies'[l] = copies[l]
    BY DEF Belated
<1>6. Due(l)' <= Due(l)
    BY <1>3, <1>4, CountsAreNumbers DEF Due
<1>. QED
    BY <1>2, <1>6 DEF Steady

(* A step between the count of the records and the next page.              *)
LEMMA CountedIdle ==
    ASSUME Typed, Typed', Apart, Counted, Grows, NEW c \in Coroutines,
           ~Sending(c), ~At(c, "delete"), ~At(c, "readID"), ~At(c, "send"),
           \A l : ~Asking(c, l)',
           \A d \in Coroutines \ {c} : todo'[d] = todo[d] /\ sent'[d] = sent[d],
           UNCHANGED <<line, response, late, faults, copies>>,
           recorded \in Nat, recorded' \in Nat, recorded <= recorded',
           sent'[c].data \subseteq 1 .. recorded',
           \A l \in Logs : Present(l)' => Present(l)
    PROVE  Counted'
<1>1. \A d \in Coroutines : sent'[d].data \subseteq 1 .. recorded'
    BY DEF Counted
<1>2. line[c] = "closed"
    BY DEF Typed, Connected, Sending
<1>3. \A l \in Logs : ~Holding(c, l)
    BY <1>2 DEF Holding, Asking, Sending
<1>4. ASSUME "send" \notin overlap', "send" \notin overlap, OneSender, IsFiniteSet(late)
      PROVE  IsFiniteSet(late') /\ \A l \in Logs : Steady(l)
    BY <1>3, <1>4, SteadyStep
<1>. QED
    BY <1>1, <1>4, CountedStep

LEMMA CountedStarts ==
    ASSUME Typed, Typed', Apart, Counted, Grows, NEW c \in Coroutines,
           Location(c) \/ PressUpload(c) \/ UpdateUI(c) \/ \E i \in Ids : EnterId(c, i)
    PROVE  Counted'
<1>1. PICK r : (\E steps : Begin(c, steps, r)) /\ r.data = {}
    <2>1. CASE Location(c) \/ UpdateUI(c)
        <3>1. \E steps : Begin(c, steps, NoRequest)
            BY <2>1 DEF Location, UpdateUI
        <3>. QED
            BY <3>1 DEF NoRequest
    <2>2. CASE PressUpload(c)
        <3>1. Begin(c, Upload, [NoRequest EXCEPT !.req = "UPDATE_LOGS"])
            BY <2>2 DEF PressUpload
        <3>2. [NoRequest EXCEPT !.req = "UPDATE_LOGS"].data = {}
            BY DEF NoRequest
        <3>. QED
            BY <3>1, <3>2
    <2>3. ASSUME NEW i \in Ids, EnterId(c, i)
          PROVE  \E r : (\E steps : Begin(c, steps, r)) /\ r.data = {}
        <3>. DEFINE r == [req |-> "UPDATE_ID", id |-> i, uuid |-> CHOOSE u \in Uuids : Fresh(u),
                          data |-> {}]
        <3>1. Begin(c, Update, r)
            BY <2>3 DEF EnterId
        <3>2. r.data = {}
            OBVIOUS
        <3>. HIDE DEF r
        <3>. QED
            BY <3>1, <3>2
    <2>. QED
        BY <2>1, <2>2, <2>3
<1>2. /\ ~Sending(c) /\ ~At(c, "delete") /\ ~At(c, "readID") /\ ~At(c, "send")
      /\ \A d \in Coroutines \ {c} : todo'[d] = todo[d] /\ sent'[d] = sent[d]
      /\ sent'[c].data = {} /\ \A l : ~Asking(c, l)'
      /\ UNCHANGED <<line, response, late, faults, copies, table, recorded>>
    BY <1>1 DEF Begin, Sending, At, Typed, TypeOK, Asking
<1>3. recorded \in Nat
    BY NaturalBounds DEF Typed, TypeOK
<1>4. \A l \in Logs : Present(l)' => Present(l)
    BY <1>2 DEF Present
<1>. QED
    BY <1>2, <1>3, <1>4, CountedIdle

(* The coroutine that sends is the only one with an open request.          *)
LEMMA OneRequest ==
    ASSUME Typed, OneSender, NEW c \in Coroutines, Sending(c)
    PROVE  \A d \in Coroutines \ {c} : ~Sending(d) /\ line[d] = "closed"
BY DEF OneSender, Typed, Connected, Sending

(* A request that is given up counts as one under way as long as it may    *)
(* still be handled.                                                       *)
LEMMA GivenUpIsDue ==
    ASSUME Typed, OneSender, IsFiniteSet(late),
           NEW C \in SUBSET {c \in Coroutines : line[c] = "request"},
           late' = late \cup {GivenUp(c) : c \in C},
           UNCHANGED copies,
           NEW l \in Logs,
           \A d \in Coroutines : Asking(d, l)' => Asking(d, l) /\ d \notin C
    PROVE  IsFiniteSet(late') /\ Due(l)' <= Due(l)
<1>1. /\ Askers(l)' \subseteq Askers(l) \ C
      /\ Askers(l) \in SUBSET Coroutines /\ Askers(l)' \in SUBSET Coroutines
    BY DEF Askers
<1>2. /\ copies'[l] = copies[l]
      /\ Cardinality(Belated(l)) \in Nat /\ copies[l] \in Nat /\ Underway(l) \in Nat
    BY CountsAreNumbers
<1>3. IsFiniteSet(Belated(l))
    BY FS_Subset DEF Belated
<1>4. Underway(l)' <= Underway(l) /\ Underway(l)' \in Nat
    BY <1>1, Headcount DEF Underway
<1>5. CASE C = {}
    <2>1. late' = late
        BY <1>5
    <2>2. Belated(l)' = Belated(l)
        BY <2>1 DEF Belated
    <2>3. Due(l)' <= Due(l)
        BY <1>2, <1>4, <2>2 DEF Due
    <2>. QED
        BY <2>1, <2>3
<1>6. CASE C # {}
    <2>1. PICK c \in C : TRUE
        BY <1>6
    <2>2. \A d \in C : d = c
        BY <2>1 DEF OneSender, Typed, Connected, Sending
    <2>. DEFINE g == GivenUp(c)
    <2>3. late' = late \cup {g}
        BY <2>1, <2>2
    <2>4. IsFiniteSet(late')
        <3>1. IsFiniteSet(late \cup {g})
            BY FS_AddElement, ZenonT(20)
        <3>. QED
            BY <2>3, <3>1
    <2>5. g.request = sent[c]
        BY DEF GivenUp
    <2>. HIDE DEF g
    <2>6. CASE Asking(c, l)
        <3>1. Belated(l)' \subseteq Belated(l) \cup {g}
            BY <2>3 DEF Belated
        <3>2. /\ IsFiniteSet(Belated(l) \cup {g})
              /\ Cardinality(Belated(l) \cup {g}) <= Cardinality(Belated(l)) + 1
            <4>. DEFINE B == Belated(l)
            <4>1. IsFiniteSet(B) /\ Cardinality(B) \in Nat
                BY <1>2, <1>3
            <4>. HIDE DEF B
            <4>2. /\ IsFiniteSet(B \cup {g})
                  /\ Cardinality(B \cup {g}) = IF g \in B THEN Cardinality(B) ELSE Cardinality(B) + 1
                BY <4>1, FS_AddElement, ZenonT(20)
            <4>3. Cardinality(B \cup {g}) <= Cardinality(B) + 1
                BY <4>1, <4>2
            <4>. QED
                BY <4>2, <4>3 DEF B
        <3>3. IsFiniteSet(Belated(l)') /\ Cardinality(Belated(l)') <= Cardinality(Belated(l) \cup {g})
            BY <3>1, <3>2, FS_Subset
        <3>4. Cardinality(Belated(l)') \in Nat /\ Cardinality(Belated(l) \cup {g}) \in Nat
            BY <3>2, <3>3, FS_CardinalityType
        <3>5. Underway(l)' + 1 <= Underway(l)
            <4>1. c \in Askers(l) /\ Askers(l)' \subseteq Askers(l) \ {c}
                BY <1>1, <2>1, <2>6 DEF Askers
            <4>. QED
                BY <1>1, <4>1, Headcount DEF Underway
        <3>. QED
            BY <1>2, <1>4, <2>4, <3>2, <3>3, <3>4, <3>5 DEF Due
    <2>7. CASE ~Asking(c, l)
        <3>1. Belated(l)' = Belated(l)
            BY <2>1, <2>3, <2>5, <2>7 DEF Belated, Asking
        <3>. QED
            BY <1>2, <1>4, <2>4, <3>1 DEF Due
    <2>. QED
        BY <2>6, <2>7
<1>. QED
    BY <1>5, <1>6

(* The rows that the server adds when it handles all or part of a request. *)
LEMMA RowsOfRequest ==
    ASSUME Typed, NEW r \in Requests,
           (\E code \in Codes : Handled(r, code)) \/ Abandoned(r),
           NEW l \in Logs
    PROVE  /\ copies[l] \in Nat /\ copies'[l] \in Nat
           /\ copies'[l] <= copies[l] + 1
           /\ r.req # "UPDATE_LOGS" \/ l \notin r.data => copies'[l] = copies[l]
<1>1. copies[l] \in Nat
    BY NaturalBounds DEF Typed, TypeOK
<1>2. \/ copies' = copies
      \/ r.req = "UPDATE_LOGS" /\ \E data \in SUBSET r.data : Stored(data)
    BY DEF Handled, Abandoned, Registers, Prefixes, server
<1>. QED
    BY <1>1, <1>2 DEF Stored

(* The calls outside sendMessage and the deletions.                        *)
LEMMA CountedOther ==
    ASSUME Typed, Typed', Apart, Counted, Grows, NEW c \in Coroutines,
           \/ FetchID(c) \/ FetchRest(c) \/ InsertTruckingLog(c) \/ Gate(c) \/ Count(c)
           \/ Invalidate(c) \/ StoreId(c)
    PROVE  Counted'
<1>1. /\ Running(c) /\ ~Sending(c) /\ ~At(c, "delete") /\ ~At(c, "readID") /\ ~At(c, "send")
      /\ ~At(c, "page") /\ ~At(c, "wait")
      /\ UNCHANGED <<line, response, late, faults, copies>>
    BY DEF FetchID, FetchRest, InsertTruckingLog, Gate, Count, Invalidate, StoreId,
           Sending, At, server
<1>2. todo \in [Coroutines -> Plans] /\ sent \in [Coroutines -> Requests \cup {NoRequest}]
    BY DEF Typed, TypeOK
<1>3. \A d \in Coroutines \ {c} : todo'[d] = todo[d]
    BY <1>2 DEF FetchID, FetchRest, InsertTruckingLog, Gate, Count, Invalidate, StoreId, Done, Then
<1>4. /\ \A d \in Coroutines \ {c} : sent'[d] = sent[d]
      /\ sent'[c].data = sent[c].data \/ sent'[c].data = {}
    <2>1. sent' \in {sent, [sent EXCEPT ![c].req = "UPDATE_LOGS"], [sent EXCEPT ![c] = NoRequest]}
        BY <1>2 DEF FetchID, FetchRest, InsertTruckingLog, Gate, Count, Invalidate, StoreId
    <2>. QED
        BY <1>2, <2>1 DEF Requests, NoRequest
<1>5. recorded \in Nat /\ recorded' \in {recorded, recorded + 1}
    BY NaturalBounds
    DEF Typed, TypeOK, FetchID, FetchRest, InsertTruckingLog, Gate, Count, Invalidate, StoreId
<1>6. sent'[c].data \subseteq 1 .. recorded'
    BY <1>4, <1>5 DEF Counted
<1>7. \/ table' = table /\ recorded' = recorded
      \/ table' = table \cup {recorded + 1} /\ recorded' = recorded + 1
    BY DEF FetchID, FetchRest, InsertTruckingLog, Gate, Count, Invalidate, StoreId
<1>8. \A l \in Logs : Present(l)' => Present(l)
    BY <1>5, <1>7 DEF Present, Logs
<1>9. line'[c] = "closed"
    BY <1>1 DEF Typed, Connected
<1>10. \A l : ~Asking(c, l)'
    <2>1. CASE Gate(c) \/ Count(c)
        <3>1. todo'[c] \in {<<>>, Upload, Fetch, Exchange}
            <4>1. PICK steps \in {<<>>, Upload, Fetch, Exchange} : Then(c, steps)
                BY <2>1 DEF Gate, Count, Done
            <4>2. todo' = [todo EXCEPT ![c] = steps]
                BY <1>2, <2>1, <4>1, Decide, Starts DEF Gate, Count
            <4>. QED
                BY <1>2, <4>2
        <3>2. ~At(c, "readID")' /\ ~At(c, "send")'
            BY <3>1, Starts DEF At, Running
        <3>. QED
            BY <1>9, <3>2 DEF Asking
    <2>2. CASE FetchRest(c)
        <3>1. sent' = sent /\ ~At(c, "readID")'
            BY <1>1, <1>2, <2>2, Advance DEF FetchRest
        <3>2. At(c, "send")' => sent[c].req = "UPDATE_ID"
            BY <1>2, <2>2, AsksToRegister DEF FetchRest, Typed
        <3>. QED
            BY <1>9, <3>1, <3>2 DEF Asking
    <2>3. CASE FetchID(c) \/ InsertTruckingLog(c) \/ Invalidate(c) \/ StoreId(c)
        <3>1. Done(c) /\ ~At(c, "fetchRest")
            BY <2>3 DEF FetchID, InsertTruckingLog, Invalidate, StoreId, At
        <3>2. ~At(c, "readID")' /\ ~At(c, "send")'
            BY <1>1, <1>2, <3>1, Advance
        <3>. QED
            BY <1>9, <3>2 DEF Asking
    <2>. QED
        BY <2>1, <2>2, <2>3
<1>. QED
    BY <1>1, <1>3, <1>4, <1>5, <1>6, <1>8, <1>10, CountedIdle

(* A page is read: its reader holds the records.                           *)
LEMMA CountedPage ==
    ASSUME Typed, Typed', Apart, Counted, Grows, NEW c \in Coroutines, TakePage(c)
    PROVE  Counted'
<1>1. Running(c) /\ At(c, "page") /\ ~Sending(c) /\ line[c] = "closed"
    BY DEF TakePage, Sending, At, Typed, Connected
<1>2. todo \in [Coroutines -> Plans] /\ sent \in [Coroutines -> Requests \cup {NoRequest}]
    BY DEF Typed, TypeOK
<1>3. sent[c].req = "UPDATE_LOGS"
    BY <1>1, <1>2, AsksFor DEF Typed
<1>4. /\ UNCHANGED <<line, response, table, recorded, late, faults, copies>>
      /\ \A d \in Coroutines \ {c} : todo'[d] = todo[d] /\ sent'[d] = sent[d]
      /\ sent'[c].req = "UPDATE_LOGS" /\ sent'[c].data = Oldest
    BY <1>2, <1>3 DEF TakePage, Done, Then, server, Requests, NoRequest
<1>5. At(c, "readID")'
    BY <1>1, <1>2, Advance DEF TakePage
<1>6. Oldest \subseteq table /\ table \subseteq 1 .. recorded
    BY DEF Oldest, Typed, TypeOK
<1>7. \A d \in Coroutines : sent'[d].data \subseteq 1 .. recorded'
    BY <1>4, <1>6 DEF Counted
<1>8. ASSUME "send" \notin overlap', "send" \notin overlap, OneSender, IsFiniteSet(late),
             NEW l \in Logs
      PROVE  Steady(l) \/ TakesUp(l)
    <2>1. ~Holding(c, l) /\ ~Asking(c, l)
        BY <1>1 DEF Holding, Asking, Sending, At
    <2>2. Present(l)' <=> Present(l)
        BY <1>4 DEF Present
    <2>3. CASE l \in Oldest
        <3>1. Present(l)
            BY <1>6, <2>3 DEF Present
        <3>2. Holding(c, l)'
            BY <1>4, <1>5, <2>3 DEF Asking, Holding
        <3>3. \A d \in Coroutines \ {c} : /\ Holding(d, l)' <=> Holding(d, l)
                                          /\ Asking(d, l)' <=> Asking(d, l)
            BY <1>4, HoldingFrame
        <3>4. c \notin Holders(l) /\ Holders(l) \cup {c} \subseteq Holders(l)'
            BY <2>1, <3>2, <3>3 DEF Holders
        <3>5. Due(l)' <= Due(l) + 1
            <4>1. /\ Askers(l)' \subseteq Askers(l) \cup {c}
                  /\ Askers(l) \in SUBSET Coroutines /\ Askers(l)' \in SUBSET Coroutines
                BY <3>3 DEF Askers
            <4>2. Underway(l)' <= Underway(l) + 1 /\ Underway(l)' \in Nat
                BY <4>1, Headcount DEF Underway
            <4>3. Belated(l)' = Belated(l) /\ copies'[l] = copies[l]
                BY <1>4 DEF Belated
            <4>. QED
                BY <1>8, <4>2, <4>3, CountsAreNumbers DEF Due
        <3>. QED
            BY <1>4, <3>1, <3>4, <3>5 DEF TakesUp
    <2>4. CASE l \notin Oldest
        <3>1. ~Asking(c, l)'
            BY <1>4, <2>4 DEF Asking
        <3>. QED
            BY <1>4, <1>8, <2>1, <2>2, <3>1, SteadyStep
    <2>. QED
        BY <2>3, <2>4
<1>9. ASSUME "send" \notin overlap', "send" \notin overlap, OneSender, IsFiniteSet(late)
      PROVE  /\ IsFiniteSet(late')
             /\ \A l \in Logs : CostsAFault(l) \/ Steady(l) \/ TakesUp(l) \/ LetsGo(l)
    BY <1>4, <1>8, <1>9
<1>. QED
    BY <1>7, <1>9, CountedStep

(* The page leaves as it was read.                                         *)
LEMMA CountedSend ==
    ASSUME Typed, Typed', Apart, Counted, Grows, NEW c \in Coroutines,
           ReadID(c) \/ SendMessage(c)
    PROVE  Counted'
<1>1. /\ Running(c) /\ ~Sending(c) /\ line[c] = "closed" /\ ~At(c, "delete")
      /\ Done(c) /\ (At(c, "readID") \/ At(c, "send"))
    BY DEF ReadID, SendMessage, Sending, At, Typed, Connected
<1>2. todo \in [Coroutines -> Plans] /\ sent \in [Coroutines -> Requests \cup {NoRequest}]
    BY DEF Typed, TypeOK
<1>3. /\ UNCHANGED <<response, table, recorded, late, faults, copies>>
      /\ \A d \in Coroutines \ {c} : /\ todo'[d] = todo[d] /\ sent'[d] = sent[d]
                                     /\ line'[d] = line[d]
      /\ sent'[c].req = sent[c].req /\ sent'[c].data = sent[c].data
    <2>1. /\ UNCHANGED <<response, table, recorded, late, faults, copies>>
          /\ \A d \in Coroutines \ {c} : /\ todo'[d] = todo[d] /\ sent'[d] = sent[d]
                                         /\ line'[d] = line[d]
        BY <1>2 DEF ReadID, SendMessage, Done, Then, server, Typed, TypeOK
    <2>2. \/ sent' = sent
          \/ sent' = [sent EXCEPT ![c] = [sent[c] EXCEPT !.id = appSettings.ID]]
          \/ sent' = [sent EXCEPT ![c] = [sent[c] EXCEPT !.uuid = appSettings.UUID]]
        BY DEF ReadID, SendMessage
    <2>3. sent[c] \in Requests \/ sent[c] = NoRequest
        BY <1>2
    <2>4. sent'[c].req = sent[c].req /\ sent'[c].data = sent[c].data
        BY <1>2, <2>2, <2>3 DEF Requests, NoRequest
    <2>. QED
        BY <2>1, <2>4
<1>4. \A d \in Coroutines : sent'[d].data \subseteq 1 .. recorded'
    BY <1>3 DEF Counted
<1>5. At(c, "send")' \/ line'[c] = "request"
    <2>1. CASE ReadID(c)
        BY <1>1, <1>2, <2>1, Advance DEF ReadID
    <2>2. CASE SendMessage(c)
        BY <2>2 DEF SendMessage, Typed, TypeOK
    <2>. QED
        BY <2>1, <2>2
<1>6. \A l : (Asking(c, l)' <=> Asking(c, l)) /\ (Holding(c, l) => Asking(c, l))
    BY <1>1, <1>3, <1>5 DEF Asking, Holding, Sending
<1>7. \A l \in Logs : Present(l)' => Present(l) /\ (Holding(c, l) => Holding(c, l)')
    BY <1>3, <1>6 DEF Present, Holding
<1>8. ASSUME "send" \notin overlap', "send" \notin overlap, OneSender, IsFiniteSet(late)
      PROVE  IsFiniteSet(late') /\ \A l \in Logs : Steady(l)
    BY <1>3, <1>6, <1>7, <1>8, SteadyStep
<1>. QED
    BY <1>4, <1>8, CountedStep

(* A reply arrives, or the sender gives up.                                *)
LEMMA CountedReply ==
    ASSUME Typed, Typed', Apart, Counted, Grows, NEW c \in Coroutines,
           ReceiveReply(c) \/ TimesOut(c)
    PROVE  Counted'
<1>1. Running(c) /\ At(c, "wait") /\ ~At(c, "return") /\ ~At(c, "delete") /\ Sending(c)
    BY DEF ReceiveReply, TimesOut, At, Sending
<1>2. todo \in [Coroutines -> Plans] /\ At(c, "return")'
    BY <1>1, Advance DEF ReceiveReply, TimesOut, Typed
<1>3. /\ UNCHANGED <<sent, table, recorded, copies>>
      /\ \A d \in Coroutines \ {c} : todo'[d] = todo[d] /\ line'[d] = line[d]
      /\ line'[c] = "closed"
    BY <1>2 DEF ReceiveReply, TimesOut, Done, Then, server, Typed, TypeOK
<1>4. \A d \in Coroutines : sent'[d].data \subseteq 1 .. recorded'
    BY <1>3 DEF Counted
<1>5. \A l \in Logs : ~Asking(c, l)' /\ (Present(l)' <=> Present(l))
    BY <1>2, <1>3 DEF Asking, Present, At
<1>6. ASSUME "send" \notin overlap', "send" \notin overlap, OneSender, IsFiniteSet(late)
      PROVE  /\ IsFiniteSet(late')
             /\ \A l \in Logs : CostsAFault(l) \/ Steady(l) \/ TakesUp(l) \/ LetsGo(l)
    <2>1. \A d \in Coroutines \ {c} : ~At(d, "return") /\ line[d] = "closed"
        BY <1>1, <1>6, OneRequest DEF Sending
    <2>2. CASE line[c] # "request"
        <3>1. UNCHANGED <<late, faults>>
            BY <2>2 DEF ReceiveReply, TimesOut, server
        <3>2. response' = IF line[c] \in Codes THEN line[c] ELSE "TIMEOUT"
            BY <2>2 DEF ReceiveReply, TimesOut, Codes
        <3>3. \A l : Holding(c, l) => Holding(c, l)'
            BY <1>1, <1>2, <1>3, <2>2, <3>2 DEF Holding, Asking, At, Codes
        <3>4. \A l \in Logs : Steady(l)
            BY <1>3, <1>5, <1>6, <2>1, <3>1, <3>3, SteadyStep
        <3>. QED
            BY <1>6, <3>1, <3>4
    <2>3. CASE line[c] = "request"
        <3>1. faults' = faults + 1 /\ late' \in {late, late \cup {GivenUp(c)}}
            BY <2>3 DEF ReceiveReply, TimesOut, Fault, Codes
        <3>2. PICK C \in SUBSET {c} : late' = late \cup {GivenUp(d) : d \in C}
            <4>1. {c} \in SUBSET {c} /\ {} \in SUBSET {c}
                OBVIOUS
            <4>2. {GivenUp(d) : d \in {c}} = {GivenUp(c)} /\ {GivenUp(d) : d \in {}} = {}
                OBVIOUS
            <4>3. CASE late' = late
                BY <4>1, <4>2, <4>3
            <4>4. CASE late' = late \cup {GivenUp(c)}
                BY <4>1, <4>2, <4>4
            <4>. QED
                BY <3>1, <4>3, <4>4
        <3>3. \A l \in Logs, d \in Coroutines : Asking(d, l)' => Asking(d, l) /\ d \notin C
            <4>1. \A l \in Logs, d \in Coroutines \ {c} : Asking(d, l)' <=> Asking(d, l)
                BY <1>3, <2>1, HoldingFrame
            <4>. QED
                BY <1>5, <4>1
        <3>4. IsFiniteSet(late')
            <4>. DEFINE g == GivenUp(c)
            <4>1. late' = late \/ late' = late \cup {g}
                BY <3>1
            <4>. HIDE DEF g
            <4>2. IsFiniteSet(late \cup {g})
                BY <1>6, FS_AddElement, ZenonT(20)
            <4>. QED
                BY <1>6, <4>1, <4>2
        <3>5. \A l \in Logs : CostsAFault(l)
            <4>1. C \in SUBSET {d \in Coroutines : line[d] = "request"}
                BY <2>3
            <4>. QED
                BY <1>3, <1>6, <3>1, <3>2, <3>3, <4>1, GivenUpIsDue DEF CostsAFault
        <3>. QED
            BY <3>4, <3>5
    <2>. QED
        BY <2>2, <2>3
<1>. QED
    BY <1>4, <1>6, CountedStep

(* sendMessage returns: after an OK the records are held until they are    *)
(* deleted.                                                                *)
LEMMA CountedReturn ==
    ASSUME Typed, Typed', Apart, Counted, Grows, NEW c \in Coroutines, Return(c)
    PROVE  Counted'
<1>1. At(c, "return") /\ ~At(c, "wait") /\ ~At(c, "delete") /\ line[c] = "closed"
    BY DEF Return, At, Typed, Connected
<1>2. todo \in [Coroutines -> Plans] /\ sent \in [Coroutines -> Requests \cup {NoRequest}]
    BY DEF Typed, TypeOK
<1>3. AfterUpload(response) \in Plans /\ AfterUpdate(response) \in Plans
    BY Starts DEF AfterUpload, AfterUpdate
<1>4. \/ sent[c].req = "UPDATE_LOGS" /\ todo' = [todo EXCEPT ![c] = AfterUpload(response)]
      \/ sent[c].req = "UPDATE_ID" /\ todo' = [todo EXCEPT ![c] = AfterUpdate(response)]
    BY <1>1, <1>2, <1>3, Decide DEF Return
<1>5. /\ UNCHANGED <<line, response, table, recorded, late, faults, copies>>
      /\ \A d \in Coroutines \ {c} : todo'[d] = todo[d] /\ sent'[d] = sent[d]
      /\ sent'[c] = IF response = "OK" THEN sent[c] ELSE NoRequest
    BY <1>2, <1>4 DEF Return, server
<1>6. \A d \in Coroutines : sent'[d].data \subseteq 1 .. recorded'
    BY <1>5 DEF Counted, NoRequest
<1>7. \A l \in Logs : ~Asking(c, l)' /\ (Present(l)' <=> Present(l))
    <2>1. todo'[c] \in {<<"delete", "count">>, Invalidated, Fetch, Registered}
        BY <1>2, <1>4 DEF AfterUpload, AfterUpdate
    <2>2. ~At(c, "readID")' /\ ~At(c, "send")'
        BY <2>1, Starts DEF At, Running
    <2>. QED
        BY <1>1, <1>5, <2>2 DEF Asking, Present
<1>8. \A l : Holding(c, l) => Holding(c, l)'
    <2>1. SUFFICES ASSUME NEW l, Holding(c, l) PROVE Holding(c, l)'
        OBVIOUS
    <2>2. sent[c].req = "UPDATE_LOGS" /\ response = "OK"
        BY <1>1, <2>1 DEF Holding, Asking, At
    <2>3. todo'[c] = <<"delete", "count">>
        BY <1>2, <1>4, <2>2 DEF AfterUpload
    <2>. QED
        BY <1>1, <1>5, <2>1, <2>2, <2>3, Starts DEF Holding, Asking, At, Running
<1>9. ASSUME "send" \notin overlap', "send" \notin overlap, OneSender, IsFiniteSet(late)
      PROVE  IsFiniteSet(late') /\ \A l \in Logs : Steady(l)
    BY <1>5, <1>7, <1>8, <1>9, SteadyStep
<1>. QED
    BY <1>6, <1>9, CountedStep

(* A record is deleted: from then on nobody sends it any more, and the     *)
(* rows of it are those of the coroutines that held it.                    *)
LEMMA CountedDelete ==
    ASSUME Typed, Typed', Apart, Counted, Grows, NEW c \in Coroutines, DeleteTruckingLog(c)
    PROVE  Counted'
<1>1. At(c, "delete") /\ ~Sending(c) /\ line[c] = "closed"
    BY DEF DeleteTruckingLog, Sending, At, Typed, Connected
<1>2. todo \in [Coroutines -> Plans] /\ sent \in [Coroutines -> Requests \cup {NoRequest}]
    BY DEF Typed, TypeOK
<1>3. recorded \in Nat /\ \A d \in Coroutines : sent[d].data \subseteq 1 .. recorded
    BY NaturalBounds DEF Counted, Typed, TypeOK
<1>4. UNCHANGED <<line, response, recorded, late, faults, copies>>
    BY DEF DeleteTruckingLog, server
<1>5. CASE sent[c].data = {} /\ Done(c) /\ UNCHANGED <<table, sent>>
    <2>1. \A d \in Coroutines \ {c} : todo'[d] = todo[d] /\ sent'[d] = sent[d]
        BY <1>2, <1>5 DEF Done, Then
    <2>2. \A l \in Logs : /\ ~Asking(c, l)' /\ ~Holding(c, l)
                          /\ Present(l)' => Present(l)
        <3>1. ~At(c, "readID")' /\ ~At(c, "send")'
            BY <1>1, <1>2, <1>5, Advance DEF At
        <3>. QED
            BY <1>1, <1>4, <1>5, <3>1 DEF Asking, Holding, Present, At
    <2>3. ASSUME "send" \notin overlap', "send" \notin overlap, OneSender, IsFiniteSet(late)
          PROVE  IsFiniteSet(late') /\ \A l \in Logs : Steady(l)
        BY <1>4, <2>1, <2>2, <2>3, SteadyStep
    <2>4. \A d \in Coroutines : sent'[d].data \subseteq 1 .. recorded'
        BY <1>3, <1>4, <1>5
    <2>. QED
        BY <2>3, <2>4, CountedStep
<1>6. ASSUME NEW k \in sent[c].data, table' = table \ {k},
             sent' = [sent EXCEPT ![c].data = @ \ {k}], UNCHANGED todo
      PROVE  Counted'
    <2>1. sent[c] \in Requests \/ sent[c] = NoRequest
        BY <1>2
    <2>2. /\ sent'[c].req = sent[c].req /\ sent'[c].data = sent[c].data \ {k}
          /\ \A d \in Coroutines \ {c} : todo'[d] = todo[d] /\ sent'[d] = sent[d]
        BY <1>2, <1>6, <2>1 DEF Requests, NoRequest
    <2>3. k \in 1 .. recorded
        BY <1>3, <1>6
    <2>4. \A l \in Logs : /\ ~Asking(c, l)'
                          /\ Present(l)' => Present(l) /\ l # k
                          /\ l # k /\ Holding(c, l) => Holding(c, l)'
        BY <1>1, <1>3, <1>4, <1>6, <2>2, <2>3 DEF Asking, Present, Holding, At, Running, Logs, Sending
    <2>5. ASSUME "send" \notin overlap', "send" \notin overlap, OneSender, IsFiniteSet(late)
          PROVE  IsFiniteSet(late') /\ \A l \in Logs : Steady(l)
        BY <1>4, <2>2, <2>4, <2>5, SteadyStep
    <2>6. \A d \in Coroutines : sent'[d].data \subseteq 1 .. recorded'
        BY <1>3, <1>4, <2>2
    <2>. QED
        BY <2>5, <2>6, CountedStep
<1>. QED
    BY <1>5, <1>6 DEF DeleteTruckingLog

(* The server answers with OK, and the sender goes on to delete; or with a *)
(* refusal, and it does not; or the handler fails.                         *)
LEMMA CountedServer ==
    ASSUME Typed, Typed', Apart, Counted, Grows, NEW c \in Coroutines, Answer(c) \/ AnswerLost(c)
    PROVE  Counted'
<1>1. /\ line[c] = "request" /\ At(c, "wait") /\ Sending(c) /\ sent[c] \in Requests
      /\ UNCHANGED <<todo, sent, response, table, recorded, late>>
    BY DEF Answer, AnswerLost, Served, Typed, Connected, Sending
<1>2. /\ \A d \in Coroutines \ {c} : line'[d] = line[d]
      /\ line'[c] # "request"
    BY DEF Answer, AnswerLost, Typed, TypeOK, Codes
<1>3. \A d \in Coroutines : sent'[d].data \subseteq 1 .. recorded'
    BY <1>1 DEF Counted
<1>4. (\E code \in Codes : Handled(sent[c], code)) \/ Abandoned(sent[c])
    BY DEF Answer, AnswerLost
<1>5. ASSUME "send" \notin overlap', "send" \notin overlap, OneSender, IsFiniteSet(late),
             NEW l \in Logs
      PROVE  CostsAFault(l) \/ Steady(l) \/ TakesUp(l) \/ LetsGo(l)
    <2>1. /\ Asking(c, l) <=> sent[c].req = "UPDATE_LOGS" /\ l \in sent[c].data
          /\ ~Asking(c, l)'
        BY <1>1, <1>2 DEF Asking, At, Running
    <2>2. \A d \in Coroutines \ {c} : /\ Holding(d, l)' <=> Holding(d, l)
                                      /\ Asking(d, l)' <=> Asking(d, l)
        BY <1>1, <1>2, HoldingFrame
    <2>3. /\ Underway(l)' \in Nat /\ Underway(l) \in Nat /\ Underway(l)' <= Underway(l)
          /\ Asking(c, l) => Underway(l)' + 1 <= Underway(l)
        <3>1. /\ Askers(l)' \subseteq Askers(l) \ {c}
              /\ Askers(l) \in SUBSET Coroutines /\ Askers(l)' \in SUBSET Coroutines
              /\ Asking(c, l) => c \in Askers(l)
            BY <2>1, <2>2 DEF Askers
        <3>. QED
            BY <3>1, Headcount DEF Underway
    <2>4. /\ copies[l] \in Nat /\ copies'[l] \in Nat
          /\ copies'[l] <= copies[l] + 1
          /\ ~Asking(c, l) => copies'[l] = copies[l]
        BY <1>1, <1>4, <2>1, RowsOfRequest
    <2>5. Belated(l)' = Belated(l) /\ Cardinality(Belated(l)) \in Nat
        BY <1>1, <1>5, CountsAreNumbers DEF Belated
    <2>6. /\ Due(l)' <= Due(l)
          /\ Asking(c, l) /\ copies'[l] = copies[l] => Due(l)' + 1 <= Due(l)
        BY <2>3, <2>4, <2>5 DEF Due
    <2>8. Present(l)' <=> Present(l)
        BY <1>1 DEF Present
    <2>9. CASE faults' = faults + 1
        BY <2>6, <2>9 DEF CostsAFault
    <2>10. CASE Answer(c) /\ faults' = faults
        <3>1. faults \in Nat
            BY NaturalBounds DEF Typed, TypeOK
        <3>2. PICK code \in Codes : /\ Handled(sent[c], code)
                                    /\ line' = [line EXCEPT ![c] = code]
            BY <2>10, <3>1 DEF Answer, Fault
        <3>3. line'[c] = code
            BY <3>2 DEF Typed, TypeOK
        <3>4. CASE Asking(c, l) /\ code # "OK"
            <4>1. copies'[l] = copies[l]
                BY <2>1, <3>2, <3>4 DEF Handled
            <4>2. Holders(l) \ {c} \subseteq Holders(l)'
                BY <2>2 DEF Holders
            <4>. QED
                BY <2>6, <2>8, <2>10, <3>4, <4>1, <4>2 DEF LetsGo
        <3>5. CASE Asking(c, l) /\ code = "OK"
            <4>1. Holding(c, l)'
                BY <1>1, <2>1, <3>3, <3>5 DEF Holding, At, Running
            <4>2. Holders(l) \subseteq Holders(l)'
                BY <2>2, <4>1 DEF Holders
            <4>. QED
                BY <2>6, <2>8, <2>10, <4>2 DEF Steady
        <3>6. CASE ~Asking(c, l)
            <4>1. ~Holding(c, l)
                BY <1>1, <2>1, <3>6 DEF Holding, At
            <4>2. Holders(l) \subseteq Holders(l)'
                BY <2>2, <4>1 DEF Holders
            <4>. QED
                BY <2>6, <2>8, <2>10, <4>2 DEF Steady
        <3>. QED
            BY <3>4, <3>5, <3>6
    <2>. QED
        BY <2>9, <2>10 DEF Answer, AnswerLost, Fault
<1>6. ASSUME "send" \notin overlap', "send" \notin overlap, OneSender, IsFiniteSet(late)
      PROVE  /\ IsFiniteSet(late')
             /\ \A l \in Logs : CostsAFault(l) \/ Steady(l) \/ TakesUp(l) \/ LetsGo(l)
    BY <1>1, <1>5, <1>6
<1>. QED
    BY <1>3, <1>6, CountedStep

(* A request arrives after its sender has given up.                        *)
LEMMA CountedLate ==
    ASSUME Typed, Typed', Apart, Counted, Grows, HandleLate
    PROVE  Counted'
<1>1. PICK q \in late :
          /\ late' = late \ {q}
          /\ (\E code \in Codes : Handled(q.request, code)) \/ Abandoned(q.request)
          /\ UNCHANGED faults \/ faults' = faults + 1
    BY DEF HandleLate, Fault
<1>2. UNCHANGED <<todo, sent, line, response, table, recorded>>
    BY DEF HandleLate, phone
<1>3. \A d \in Coroutines : sent'[d].data \subseteq 1 .. recorded'
    BY <1>2 DEF Counted
<1>4. ASSUME IsFiniteSet(late), NEW l \in Logs
      PROVE  Steady(l) \/ CostsAFault(l)
    <2>1. \A d \in Coroutines : (Holding(d, l)' <=> Holding(d, l)) /\ (Asking(d, l)' <=> Asking(d, l))
        BY <1>2, HoldingFrame
    <2>2. Underway(l)' = Underway(l) /\ Holders(l) \subseteq Holders(l)'
        BY <2>1 DEF Underway, Askers, Holders
    <2>3. q.request \in Requests
        BY DEF Typed, TypeOK
    <2>4. /\ copies[l] \in Nat /\ copies'[l] \in Nat
          /\ copies'[l] <= copies[l] + 1
          /\ q \notin Belated(l) => copies'[l] = copies[l]
        BY <1>1, <2>3, RowsOfRequest DEF Belated
    <2>. DEFINE B == Belated(l)
    <2>5. Belated(l)' = B \ {q}
        BY <1>1 DEF Belated
    <2>6. IsFiniteSet(B) /\ Cardinality(B) \in Nat /\ Underway(l) \in Nat
        BY <1>4, CountsAreNumbers, FS_Subset DEF Belated
    <2>7. Cardinality(B \ {q}) = IF q \in B THEN Cardinality(B) - 1 ELSE Cardinality(B)
        <3>. HIDE DEF B
        <3>. QED
            BY <2>6, FS_RemoveElement, ZenonT(20)
    <2>8. Due(l)' <= Due(l)
        <3>1. /\ Due(l)' = copies'[l] + Cardinality(B \ {q}) + Underway(l)
              /\ Due(l) = copies[l] + Cardinality(B) + Underway(l)
              /\ q \notin B => copies'[l] = copies[l]
            BY <2>2, <2>4, <2>5 DEF Due
        <3>. HIDE DEF B
        <3>. QED
            BY <2>4, <2>6, <2>7, <3>1
    <2>. QED
        BY <1>1, <1>2, <2>2, <2>8 DEF Steady, CostsAFault, Present
<1>5. ASSUME IsFiniteSet(late) PROVE IsFiniteSet(late')
    BY <1>1, <1>5, FS_Subset
<1>. QED
    BY <1>3, <1>4, <1>5, CountedStep

(* The app and the manager apart from the calls.                           *)
LEMMA CountedRest ==
    ASSUME Typed, Typed', Apart, Counted, Grows,
           OnItemSelected \/ WriteToDisk \/ AppKilled \/ UNCHANGED vars
             \/ \E i \in Ids : ResetTrucker(i)
    PROVE  Counted'
<1>1. CASE AppKilled
    <2>1. /\ UNCHANGED <<recorded, copies>> /\ faults' = faults + 1
          /\ \A c \in Coroutines : sent'[c].data = {} /\ line'[c] = "closed" /\ ~Running(c)'
        BY <1>1 DEF AppKilled, Fault, server, NoRequest, Running
    <2>2. PICK C \in SUBSET {c \in Coroutines : line[c] = "request"} :
              late' = late \cup {GivenUp(c) : c \in C}
        BY <1>1 DEF AppKilled
    <2>3. \A l \in Logs, d \in Coroutines : ~Asking(d, l)'
        BY <2>1 DEF Asking, At
    <2>4. ASSUME OneSender, IsFiniteSet(late), NEW l \in Logs
          PROVE  IsFiniteSet(late') /\ CostsAFault(l)
        BY <2>1, <2>2, <2>3, <2>4, GivenUpIsDue DEF CostsAFault
    <2>5. ASSUME OneSender, IsFiniteSet(late) PROVE IsFiniteSet(late')
        <3>1. \A c, d \in C : c = d
            BY <2>5 DEF OneSender, Typed, Connected, Sending
        <3>2. CASE C = {}
            BY <2>2, <2>5, <3>2
        <3>3. CASE C # {}
            <4>1. PICK c \in C : TRUE
                BY <3>3
            <4>. DEFINE g == GivenUp(c)
            <4>2. late' = late \cup {g}
                BY <2>2, <3>1, <4>1
            <4>. HIDE DEF g
            <4>3. IsFiniteSet(late \cup {g})
                BY <2>5, FS_AddElement, ZenonT(20)
            <4>. QED
                BY <4>2, <4>3
        <3>. QED
            BY <3>2, <3>3
    <2>. QED
        BY <2>1, <2>4, <2>5, CountedStep
<1>2. CASE OnItemSelected \/ WriteToDisk \/ UNCHANGED vars \/ \E i \in Ids : ResetTrucker(i)
    <2>1. UNCHANGED <<todo, sent, line, response, table, recorded, late, faults, copies>>
        BY <1>2 DEF OnItemSelected, WriteToDisk, ResetTrucker, vars, phone, server
    <2>2. ASSUME IsFiniteSet(late), NEW l \in Logs PROVE Steady(l)
        <3>1. Present(l)' <=> Present(l)
            BY <2>1 DEF Present
        <3>2. \A d \in Coroutines : (Holding(d, l)' <=> Holding(d, l)) /\ (Asking(d, l)' <=> Asking(d, l))
            BY <2>1, HoldingFrame
        <3>3. Holders(l)' = Holders(l) /\ Underway(l)' = Underway(l) /\ Belated(l)' = Belated(l)
            BY <2>1, <3>2 DEF Holders, Underway, Askers, Belated
        <3>4. Due(l)' = Due(l) /\ Due(l) \in Nat
            BY <2>1, <2>2, <3>3, CountsAreNumbers DEF Due
        <3>. QED
            BY <2>1, <3>1, <3>3, <3>4 DEF Steady
    <2>3. \A d \in Coroutines : sent'[d].data \subseteq 1 .. recorded'
        BY <2>1 DEF Counted
    <2>. QED
        BY <2>1, <2>2, <2>3, CountedStep
<1>. QED
    BY <1>1, <1>2

LEMMA CountedNext == Typed /\ Typed' /\ Apart /\ Counted /\ [Next]_vars => Counted'
<1>. SUFFICES ASSUME Typed, Typed', Apart, Counted, [Next]_vars PROVE Counted'
    OBVIOUS
<1>1. Grows
    BY Growing
<1>2. ASSUME NEW c \in Coroutines, CallStep(c) PROVE Counted'
    BY <1>1, <1>2, CountedOther, CountedPage, CountedSend, CountedReply, CountedReturn, CountedDelete
    DEF CallStep
<1>. QED
    BY <1>1, <1>2, CountedStarts, CountedServer, CountedLate, CountedRest DEF Next

(* However requests, replies, apps and servers are lost, the server stores *)
(* a record at most once for each coroutine, and as often again for each   *)
(* fault, as long as calls of sendMessage do not overlap.                  *)
THEOREM StoredNoOftener == Spec => []CopiesBounded
<1>1. Init => Counted
    <2>. SUFFICES ASSUME Init PROVE Counted
        OBVIOUS
    <2>1. \A c \in Coroutines : sent[c].data \subseteq 1 .. recorded
        BY DEF Init, NoRequest
    <2>2. IsFiniteSet(late)
        BY FS_EmptySet DEF Init
    <2>3. ASSUME NEW l \in Logs PROVE Due(l) <= Allowed(l)
        <3>1. Belated(l) = {} /\ Askers(l) = {}
            BY DEF Init, Belated, Askers, Asking, NoRequest
        <3>2. Due(l) = 0
            BY <3>1, FS_EmptySet DEF Due, Underway, Init
        <3>3. Cardinality(Holders(l)) \in Nat /\ Cardinality(Coroutines) \in Nat
            BY FewCoroutines DEF Holders
        <3>4. Cardinality(Coroutines) * faults = 0
            BY <3>3 DEF Init
        <3>. QED
            BY <3>2, <3>3, <3>4 DEF Allowed
    <2>. QED
        BY <2>1, <2>2, <2>3 DEF Counted
<1>2. IInv /\ Counted /\ [Next]_vars => Counted'
    BY TypedNext, CountedNext DEF IInv
<1>3. IInv /\ Counted => CopiesBounded
    <2>. SUFFICES ASSUME Typed, Counted, "send" \notin overlap, NEW l \in 1 .. recorded
                  PROVE  copies[l] <= Cardinality(Coroutines) * (1 + faults)
        BY DEF IInv, CopiesBounded
    <2>. DEFINE N == Cardinality(Coroutines)
                H == Cardinality(Holders(l))
    <2>1. l \in Logs
        BY NaturalBounds DEF Typed, TypeOK, Logs
    <2>2. Due(l) <= Allowed(l) /\ IsFiniteSet(late)
        BY <2>1 DEF Counted
    <2>3. /\ Due(l) \in Nat /\ copies[l] \in Nat /\ faults \in Nat
          /\ Cardinality(Belated(l)) \in Nat /\ Underway(l) \in Nat
        BY <2>1, <2>2, CountsAreNumbers
    <2>4. copies[l] <= Due(l)
        BY <2>3 DEF Due
    <2>5. N \in Nat /\ H \in Nat /\ H <= N
        BY FewCoroutines DEF Holders
    <2>6. Allowed(l) = N * faults + (IF Present(l) THEN H ELSE N)
        BY DEF Allowed
    <2>7. N * faults \in Nat /\ N * (1 + faults) = N * faults + N
        BY <2>3, <2>5
    <2>. DEFINE M == N * faults
                P == N * (1 + faults)
    <2>8. M \in Nat /\ P = M + N /\ Allowed(l) = M + (IF Present(l) THEN H ELSE N)
        BY <2>6, <2>7
    <2>9. copies[l] <= P
        <3>. HIDE DEF M, N, H, P
        <3>. QED
            BY <2>2, <2>3, <2>4, <2>5, <2>8
    <2>. QED
        BY <2>9
<1>. QED
    BY <1>1, <1>2, <1>3, Invariance, PTL DEF Spec

================================================================================
