------------------------- MODULE MainRepository_proofs -------------------------
(***************************************************************************)
(* Theorems about MainRepository, for any number of coroutines, records,   *)
(* IDs and faults: as long as calls of sendMessage do not overlap, no      *)
(* record is lost, and the phone counts itself verified only under a pair  *)
(* of ID and UUID that the server registered.                              *)
(***************************************************************************)
EXTENDS MainRepository, SequenceTheorems, TLAPS

--------------------------------------------------------------------------------
(* The inductive invariant *)

(* What a coroutine still has to do is the rest of one of the calls.  In   *)
(* uploadLogs up to the UUID of the request, and again from an OK on, the   *)
(* request is one for logs.                                                 *)
QuietPlans ==
    {<<>>,
     <<"fetchRest">>, <<"fetchID", "fetchRest">>,
     <<"gate">>, <<"insert", "gate">>, <<"fetchRest", "insert", "gate">>,
     <<"fetchID", "fetchRest", "insert", "gate">>,
     <<"return">>, <<"wait", "return">>,
     <<"invalidate", "fetchID", "fetchRest">>, <<"store", "fetchID", "fetchRest">>}

SendPlans == {<<"send", "wait", "return">>}

UpdatePlans ==
    {<<"fetchRest", "send", "wait", "return">>,
     <<"fetchID", "fetchRest", "send", "wait", "return">>}

UploadPlans ==
    {<<"readID", "send", "wait", "return">>, <<"page", "readID", "send", "wait", "return">>,
     <<"fetchRest", "page", "readID", "send", "wait", "return">>,
     <<"fetchID", "fetchRest", "page", "readID", "send", "wait", "return">>,
     <<"count">>, <<"delete", "count">>}

Plans == QuietPlans \cup SendPlans \cup UpdatePlans \cup UploadPlans

Asks(c) ==
    \/ todo[c] \in QuietPlans
    \/ todo[c] \in SendPlans /\ sent[c].req # "NONE"
    \/ todo[c] \in UpdatePlans /\ sent[c].req = "UPDATE_ID"
    \/ todo[c] \in UploadPlans /\ sent[c].req = "UPDATE_LOGS"

(* A registration names an ID of the manager and a UUID.                   *)
WellFormed(r) == r.req = "UPDATE_ID" => r.id \in Ids /\ r.uuid \in Uuids

(* A connection is open only while its call waits for the reply.           *)
Connected(c) ==
    /\ line[c] # "closed" => At(c, "wait")
    /\ line[c] = "request" => sent[c] \in Requests

Typed ==
    /\ TypeOK
    /\ todo \in [Coroutines -> Plans]
    /\ \A c \in Coroutines : WellFormed(sent[c]) /\ Connected(c) /\ Asks(c)
    /\ \A q \in late : WellFormed(q.request)

(* The server has registered the ID, or stored the records, that c asked   *)
(* it to.                                                                  *)
Backed(c) == sent[c].req = "UPDATE_ID" => <<sent[c].id, sent[c].uuid>> \in registered

Kept(c) ==
    sent[c].req = "UPDATE_LOGS" => \A k \in sent[c].data : copies[k] > 0

(* An OK that a call waits for, returns or acts upon is an answer to its   *)
(* own request.                                                            *)
Vouched(c) ==
    /\ (At(c, "wait") /\ line[c] = "OK") \/ (At(c, "return") /\ response = "OK") =>
          Backed(c) /\ Kept(c)
    /\ At(c, "delete") => sent[c].req = "UPDATE_LOGS" /\ Kept(c)
    /\ At(c, "store") => sent[c].req = "UPDATE_ID" /\ Backed(c)

OneSender == \A c, d \in Coroutines : Sending(c) /\ Sending(d) => c = d

BackedSettings(s) == s.VERIFIED => <<s.ID, s.UUID>> \in registered

Apart ==
    "send" \notin overlap =>
        /\ OneSender
        /\ \A c \in Coroutines : Vouched(c)
        /\ BackedSettings(prefs) /\ BackedSettings(disk)

IInv == Typed /\ Apart /\ NothingLost

--------------------------------------------------------------------------------
(* Plans and their steps *)

LEMMA PlansAreSteps == Plans \subseteq Seq(Steps)
BY DEF Plans, QuietPlans, SendPlans, UpdatePlans, UploadPlans, Steps

(* What may follow a step.                                                 *)
PlanStep(p, q) ==
    /\ q \in Plans
    /\ Head(p) \in {"gate", "return", "count"} => q = <<>>
    /\ q # <<>> => /\ Head(q) \notin {"delete", "store", "invalidate"}
                   /\ Head(q) = "return" => Head(p) = "wait"
                   /\ Head(q) = "wait" => Head(p) = "send"
                   /\ Head(q) = "send" => Head(p) \in {"readID", "fetchRest"}
                   /\ Head(q) = "readID" => Head(p) = "page"
                   /\ Head(p) = "fetchID" => Head(q) = "fetchRest"
                   /\ Head(p) \in {"invalidate", "store"} => Head(q) = "fetchID"
                   /\ Head(q) = "fetchRest" => Head(p) = "fetchID"
    /\ Head(p) = "wait" => q # <<>> /\ Head(q) = "return"
    /\ Head(p) = "send" => q # <<>> /\ Head(q) = "wait"
    /\ Head(p) = "page" => q # <<>> /\ Head(q) = "readID"
    /\ Head(p) = "readID" => q # <<>> /\ Head(q) = "send"
    /\ p \in QuietPlans =>
          Head(p) \notin {"page", "readID", "send", "delete", "count"} /\ q \in QuietPlans
    /\ p \in SendPlans => Head(p) = "send" /\ q \in QuietPlans
    /\ p \in UpdatePlans =>
          /\ Head(p) \notin {"page", "readID", "send", "delete", "count"}
          /\ q \in UpdatePlans \cup SendPlans
    /\ p \in UploadPlans => Head(p) # "send" /\ q \in QuietPlans \cup SendPlans \cup UploadPlans
    /\ Head(p) = "fetchRest" /\ q # <<>> /\ Head(q) = "send" =>
          p \in UpdatePlans /\ p \notin QuietPlans \cup SendPlans \cup UploadPlans

LEMMA PlanTail ==
    ASSUME NEW p \in Plans, p # <<>>
    PROVE  <<>> \o Tail(p) \in Plans /\ PlanStep(p, Tail(p))
<1>1. CASE p = <<"fetchRest">>
  <2>1. /\ Head(p) = "fetchRest" /\ Tail(p) = <<>> /\ <<>> \o Tail(p) = <<>>
        /\ Len(p) = 1
    BY <1>1
  <2>2. <<>> \in QuietPlans
    BY DEF QuietPlans
  <2>3. p \in QuietPlans /\ p \notin SendPlans \cup UpdatePlans \cup UploadPlans
    BY <1>1, SMTT(30) DEF QuietPlans, SendPlans, UpdatePlans, UploadPlans
  <2> QED
    BY <2>1, <2>2, <2>3 DEF PlanStep, Plans
<1>2. CASE p = <<"fetchID", "fetchRest">>
  <2>1. /\ Head(p) = "fetchID" /\ Tail(p) = <<"fetchRest">> /\ <<>> \o Tail(p) = <<"fetchRest">>
        /\ Head(<<"fetchRest">>) = "fetchRest" /\ <<"fetchRest">> # <<>>
        /\ Len(p) = 2
    BY <1>2
  <2>2. <<"fetchRest">> \in QuietPlans
    BY DEF QuietPlans
  <2>3. p \in QuietPlans /\ p \notin SendPlans \cup UpdatePlans \cup UploadPlans
    BY <1>2, SMTT(30) DEF QuietPlans, SendPlans, UpdatePlans, UploadPlans
  <2> QED
    BY <2>1, <2>2, <2>3 DEF PlanStep, Plans
<1>3. CASE p = <<"gate">>
  <2>1. /\ Head(p) = "gate" /\ Tail(p) = <<>> /\ <<>> \o Tail(p) = <<>>
        /\ Len(p) = 1
    BY <1>3
  <2>2. <<>> \in QuietPlans
    BY DEF QuietPlans
  <2>3. p \in QuietPlans /\ p \notin SendPlans \cup UpdatePlans \cup UploadPlans
    BY <1>3, SMTT(30) DEF QuietPlans, SendPlans, UpdatePlans, UploadPlans
  <2> QED
    BY <2>1, <2>2, <2>3 DEF PlanStep, Plans
<1>4. CASE p = <<"insert", "gate">>
  <2>1. /\ Head(p) = "insert" /\ Tail(p) = <<"gate">> /\ <<>> \o Tail(p) = <<"gate">>
        /\ Head(<<"gate">>) = "gate" /\ <<"gate">> # <<>>
        /\ Len(p) = 2
    BY <1>4
  <2>2. <<"gate">> \in QuietPlans
    BY DEF QuietPlans
  <2>3. p \in QuietPlans /\ p \notin SendPlans \cup UpdatePlans \cup UploadPlans
    BY <1>4, SMTT(30) DEF QuietPlans, SendPlans, UpdatePlans, UploadPlans
  <2> QED
    BY <2>1, <2>2, <2>3 DEF PlanStep, Plans
<1>5. CASE p = <<"fetchRest", "insert", "gate">>
  <2>1. /\ Head(p) = "fetchRest" /\ Tail(p) = <<"insert", "gate">> /\ <<>> \o Tail(p) = <<"insert", "gate">>
        /\ Head(<<"insert", "gate">>) = "insert" /\ <<"insert", "gate">> # <<>>
        /\ Len(p) = 3
    BY <1>5
  <2>2. <<"insert", "gate">> \in QuietPlans
    BY DEF QuietPlans
  <2>3. p \in QuietPlans /\ p \notin SendPlans \cup UpdatePlans \cup UploadPlans
    BY <1>5, SMTT(30) DEF QuietPlans, SendPlans, UpdatePlans, UploadPlans
  <2> QED
    BY <2>1, <2>2, <2>3 DEF PlanStep, Plans
<1>6. CASE p = <<"fetchID", "fetchRest", "insert", "gate">>
  <2>1. /\ Head(p) = "fetchID" /\ Tail(p) = <<"fetchRest", "insert", "gate">> /\ <<>> \o Tail(p) = <<"fetchRest", "insert", "gate">>
        /\ Head(<<"fetchRest", "insert", "gate">>) = "fetchRest" /\ <<"fetchRest", "insert", "gate">> # <<>>
        /\ Len(p) = 4
    BY <1>6
  <2>2. <<"fetchRest", "insert", "gate">> \in QuietPlans
    BY DEF QuietPlans
  <2>3. p \in QuietPlans /\ p \notin SendPlans \cup UpdatePlans \cup UploadPlans
    BY <1>6, SMTT(30) DEF QuietPlans, SendPlans, UpdatePlans, UploadPlans
  <2> QED
    BY <2>1, <2>2, <2>3 DEF PlanStep, Plans
<1>7. CASE p = <<"return">>
  <2>1. /\ Head(p) = "return" /\ Tail(p) = <<>> /\ <<>> \o Tail(p) = <<>>
        /\ Len(p) = 1
    BY <1>7
  <2>2. <<>> \in QuietPlans
    BY DEF QuietPlans
  <2>3. p \in QuietPlans /\ p \notin SendPlans \cup UpdatePlans \cup UploadPlans
    BY <1>7, SMTT(30) DEF QuietPlans, SendPlans, UpdatePlans, UploadPlans
  <2> QED
    BY <2>1, <2>2, <2>3 DEF PlanStep, Plans
<1>8. CASE p = <<"wait", "return">>
  <2>1. /\ Head(p) = "wait" /\ Tail(p) = <<"return">> /\ <<>> \o Tail(p) = <<"return">>
        /\ Head(<<"return">>) = "return" /\ <<"return">> # <<>>
        /\ Len(p) = 2
    BY <1>8
  <2>2. <<"return">> \in QuietPlans
    BY DEF QuietPlans
  <2>3. p \in QuietPlans /\ p \notin SendPlans \cup UpdatePlans \cup UploadPlans
    BY <1>8, SMTT(30) DEF QuietPlans, SendPlans, UpdatePlans, UploadPlans
  <2> QED
    BY <2>1, <2>2, <2>3 DEF PlanStep, Plans
<1>9. CASE p = <<"invalidate", "fetchID", "fetchRest">>
  <2>1. /\ Head(p) = "invalidate" /\ Tail(p) = <<"fetchID", "fetchRest">> /\ <<>> \o Tail(p) = <<"fetchID", "fetchRest">>
        /\ Head(<<"fetchID", "fetchRest">>) = "fetchID" /\ <<"fetchID", "fetchRest">> # <<>>
        /\ Len(p) = 3
    BY <1>9
  <2>2. <<"fetchID", "fetchRest">> \in QuietPlans
    BY DEF QuietPlans
  <2>3. p \in QuietPlans /\ p \notin SendPlans \cup UpdatePlans \cup UploadPlans
    BY <1>9, SMTT(30) DEF QuietPlans, SendPlans, UpdatePlans, UploadPlans
  <2> QED
    BY <2>1, <2>2, <2>3 DEF PlanStep, Plans
<1>10. CASE p = <<"store", "fetchID", "fetchRest">>
  <2>1. /\ Head(p) = "store" /\ Tail(p) = <<"fetchID", "fetchRest">> /\ <<>> \o Tail(p) = <<"fetchID", "fetchRest">>
        /\ Head(<<"fetchID", "fetchRest">>) = "fetchID" /\ <<"fetchID", "fetchRest">> # <<>>
        /\ Len(p) = 3
    BY <1>10
  <2>2. <<"fetchID", "fetchRest">> \in QuietPlans
    BY DEF QuietPlans
  <2>3. p \in QuietPlans /\ p \notin SendPlans \cup UpdatePlans \cup UploadPlans
    BY <1>10, SMTT(30) DEF QuietPlans, SendPlans, UpdatePlans, UploadPlans
  <2> QED
    BY <2>1, <2>2, <2>3 DEF PlanStep, Plans
<1>11. CASE p = <<"send", "wait", "return">>
  <2>1. /\ Head(p) = "send" /\ Tail(p) = <<"wait", "return">> /\ <<>> \o Tail(p) = <<"wait", "return">>
        /\ Head(<<"wait", "return">>) = "wait" /\ <<"wait", "return">> # <<>>
        /\ Len(p) = 3
    BY <1>11
  <2>2. <<"wait", "return">> \in QuietPlans
    BY DEF QuietPlans
  <2>3. p \in SendPlans /\ p \notin QuietPlans \cup UpdatePlans \cup UploadPlans
    BY <1>11, SMTT(30) DEF QuietPlans, SendPlans, UpdatePlans, UploadPlans
  <2> QED
    BY <2>1, <2>2, <2>3 DEF PlanStep, Plans
<1>12. CASE p = <<"fetchRest", "send", "wait", "return">>
  <2>1. /\ Head(p) = "fetchRest" /\ Tail(p) = <<"send", "wait", "return">> /\ <<>> \o Tail(p) = <<"send", "wait", "return">>
        /\ Head(<<"send", "wait", "return">>) = "send" /\ <<"send", "wait", "return">> # <<>>
        /\ Len(p) = 4
    BY <1>12
  <2>2. <<"send", "wait", "return">> \in SendPlans
    BY DEF SendPlans
  <2>3. p \in UpdatePlans /\ p \notin QuietPlans \cup SendPlans \cup UploadPlans
    BY <1>12, SMTT(30) DEF QuietPlans, SendPlans, UpdatePlans, UploadPlans
  <2> QED
    BY <2>1, <2>2, <2>3 DEF PlanStep, Plans
<1>13. CASE p = <<"fetchID", "fetchRest", "send", "wait", "return">>
  <2>1. /\ Head(p) = "fetchID" /\ Tail(p) = <<"fetchRest", "send", "wait", "return">> /\ <<>> \o Tail(p) = <<"fetchRest", "send", "wait", "return">>
        /\ Head(<<"fetchRest", "send", "wait", "return">>) = "fetchRest" /\ <<"fetchRest", "send", "wait", "return">> # <<>>
        /\ Len(p) = 5
    BY <1>13
  <2>2. <<"fetchRest", "send", "wait", "return">> \in UpdatePlans
    BY DEF UpdatePlans
  <2>3. p \in UpdatePlans /\ p \notin QuietPlans \cup SendPlans \cup UploadPlans
    BY <1>13, SMTT(30) DEF QuietPlans, SendPlans, UpdatePlans, UploadPlans
  <2> QED
    BY <2>1, <2>2, <2>3 DEF PlanStep, Plans
<1>14. CASE p = <<"readID", "send", "wait", "return">>
  <2>1. /\ Head(p) = "readID" /\ Tail(p) = <<"send", "wait", "return">> /\ <<>> \o Tail(p) = <<"send", "wait", "return">>
        /\ Head(<<"send", "wait", "return">>) = "send" /\ <<"send", "wait", "return">> # <<>>
        /\ Len(p) = 4
    BY <1>14
  <2>2. <<"send", "wait", "return">> \in SendPlans
    BY DEF SendPlans
  <2>3. p \in UploadPlans /\ p \notin QuietPlans \cup SendPlans \cup UpdatePlans
    BY <1>14, SMTT(30) DEF QuietPlans, SendPlans, UpdatePlans, UploadPlans
  <2> QED
    BY <2>1, <2>2, <2>3 DEF PlanStep, Plans
<1>15. CASE p = <<"page", "readID", "send", "wait", "return">>
  <2>1. /\ Head(p) = "page" /\ Tail(p) = <<"readID", "send", "wait", "return">> /\ <<>> \o Tail(p) = <<"readID", "send", "wait", "return">>
        /\ Head(<<"readID", "send", "wait", "return">>) = "readID" /\ <<"readID", "send", "wait", "return">> # <<>>
        /\ Len(p) = 5
    BY <1>15
  <2>2. <<"readID", "send", "wait", "return">> \in UploadPlans
    BY DEF UploadPlans
  <2>3. p \in UploadPlans /\ p \notin QuietPlans \cup SendPlans \cup UpdatePlans
    BY <1>15, SMTT(30) DEF QuietPlans, SendPlans, UpdatePlans, UploadPlans
  <2> QED
    BY <2>1, <2>2, <2>3 DEF PlanStep, Plans
<1>16. CASE p = <<"fetchRest", "page", "readID", "send", "wait", "return">>
  <2>1. /\ Head(p) = "fetchRest" /\ Tail(p) = <<"page", "readID", "send", "wait", "return">> /\ <<>> \o Tail(p) = <<"page", "readID", "send", "wait", "return">>
        /\ Head(<<"page", "readID", "send", "wait", "return">>) = "page" /\ <<"page", "readID", "send", "wait", "return">> # <<>>
        /\ Len(p) = 6
    BY <1>16
  <2>2. <<"page", "readID", "send", "wait", "return">> \in UploadPlans
    BY DEF UploadPlans
  <2>3. p \in UploadPlans /\ p \notin QuietPlans \cup SendPlans \cup UpdatePlans
    BY <1>16, SMTT(30) DEF QuietPlans, SendPlans, UpdatePlans, UploadPlans
  <2> QED
    BY <2>1, <2>2, <2>3 DEF PlanStep, Plans
<1>17. CASE p = <<"fetchID", "fetchRest", "page", "readID", "send", "wait", "return">>
  <2>1. /\ Head(p) = "fetchID" /\ Tail(p) = <<"fetchRest", "page", "readID", "send", "wait", "return">> /\ <<>> \o Tail(p) = <<"fetchRest", "page", "readID", "send", "wait", "return">>
        /\ Head(<<"fetchRest", "page", "readID", "send", "wait", "return">>) = "fetchRest" /\ <<"fetchRest", "page", "readID", "send", "wait", "return">> # <<>>
        /\ Len(p) = 7
    BY <1>17
  <2>2. <<"fetchRest", "page", "readID", "send", "wait", "return">> \in UploadPlans
    BY DEF UploadPlans
  <2>3. p \in UploadPlans /\ p \notin QuietPlans \cup SendPlans \cup UpdatePlans
    BY <1>17, SMTT(30) DEF QuietPlans, SendPlans, UpdatePlans, UploadPlans
  <2> QED
    BY <2>1, <2>2, <2>3 DEF PlanStep, Plans
<1>18. CASE p = <<"count">>
  <2>1. /\ Head(p) = "count" /\ Tail(p) = <<>> /\ <<>> \o Tail(p) = <<>>
        /\ Len(p) = 1
    BY <1>18
  <2>2. <<>> \in QuietPlans
    BY DEF QuietPlans
  <2>3. p \in UploadPlans /\ p \notin QuietPlans \cup SendPlans \cup UpdatePlans
    BY <1>18, SMTT(30) DEF QuietPlans, SendPlans, UpdatePlans, UploadPlans
  <2> QED
    BY <2>1, <2>2, <2>3 DEF PlanStep, Plans
<1>19. CASE p = <<"delete", "count">>
  <2>1. /\ Head(p) = "delete" /\ Tail(p) = <<"count">> /\ <<>> \o Tail(p) = <<"count">>
        /\ Head(<<"count">>) = "count" /\ <<"count">> # <<>>
        /\ Len(p) = 2
    BY <1>19
  <2>2. <<"count">> \in UploadPlans
    BY DEF UploadPlans
  <2>3. p \in UploadPlans /\ p \notin QuietPlans \cup SendPlans \cup UpdatePlans
    BY <1>19, SMTT(30) DEF QuietPlans, SendPlans, UpdatePlans, UploadPlans
  <2> QED
    BY <2>1, <2>2, <2>3 DEF PlanStep, Plans
<1> QED
  BY <1>1, <1>2, <1>3, <1>4, <1>5, <1>6, <1>7, <1>8, <1>9, <1>10, <1>11, <1>12, <1>13, <1>14, <1>15, <1>16, <1>17, <1>18, <1>19 DEF Plans, QuietPlans, SendPlans, UpdatePlans, UploadPlans

(* A call goes on to its next step.                                        *)
LEMMA Advance ==
    ASSUME NEW c \in Coroutines, todo \in [Coroutines -> Plans], Running(c), Done(c)
    PROVE  /\ todo' \in [Coroutines -> Plans]
           /\ \A d \in Coroutines \ {c} : todo'[d] = todo[d]
           /\ ~At(c, "delete")' /\ ~At(c, "store")' /\ ~At(c, "invalidate")'
           /\ At(c, "return")' <=> At(c, "wait")
           /\ At(c, "wait")' <=> At(c, "send")
           /\ At(c, "send")' => At(c, "readID") \/ At(c, "fetchRest")
           /\ At(c, "readID")' <=> At(c, "page")
           /\ At(c, "readID") => At(c, "send")'
           /\ At(c, "fetchRest")' => At(c, "fetchID")
           /\ Running(c)' /\ At(c, "fetchID") => At(c, "fetchRest")'
           /\ Running(c)' /\ (At(c, "invalidate") \/ At(c, "store")) => At(c, "fetchID")'
           /\ PlanStep(todo[c], todo'[c])
<1>1. todo[c] \in Plans /\ todo[c] # <<>>
  BY DEF Running
<1>2. todo' = [todo EXCEPT ![c] = <<>> \o Tail(todo[c])]
  BY DEF Done, Then
<1>3. <<>> \o Tail(todo[c]) \in Plans /\ PlanStep(todo[c], Tail(todo[c]))
  BY <1>1, PlanTail
<1>4. todo'[c] = Tail(todo[c])
  <2>1. todo[c] \in Seq(Steps)
    BY <1>1, PlansAreSteps
  <2>2. Tail(todo[c]) \in Seq(Steps)
    BY <1>1, <2>1, HeadTailProperties
  <2>3. <<>> \o Tail(todo[c]) = Tail(todo[c])
    BY <2>2, ConcatEmptySeq
  <2> QED
    BY <1>2, <2>3
<1>5. PlanStep(todo[c], todo'[c]) /\ todo' \in [Coroutines -> Plans]
      /\ \A d \in Coroutines \ {c} : todo'[d] = todo[d]
  BY <1>2, <1>3, <1>4
<1> QED
  BY <1>1, <1>5 DEF At, Running, PlanStep

(* ... still with the request it had.                                      *)
LEMMA AsksOn ==
    ASSUME NEW c \in Coroutines, todo \in [Coroutines -> Plans], Running(c), Done(c),
           Asks(c), sent'[c].req = sent[c].req
    PROVE  Asks(c)'
<1>1. PlanStep(todo[c], todo'[c])
  BY Advance
<1> QED
  BY <1>1 DEF Asks, PlanStep, Plans

(* The request of a call that is about to be sent, or was answered OK.     *)
LEMMA AsksFor ==
    ASSUME NEW c \in Coroutines, todo \in [Coroutines -> Plans], Asks(c)
    PROVE  /\ At(c, "send") => sent[c].req # "NONE"
           /\ At(c, "page") \/ At(c, "readID") \/ At(c, "delete") \/ At(c, "count")
                 => sent[c].req = "UPDATE_LOGS"
<1>1. CASE ~Running(c)
  BY <1>1 DEF At
<1>2. CASE Running(c)
  <2>1. PlanStep(todo[c], Tail(todo[c]))
    BY <1>2, PlanTail DEF Running
  <2> QED
    BY <2>1 DEF Asks, At, PlanStep
<1> QED
  BY <1>1, <1>2

(* What is sent without reading the ID was made by updateID.               *)
LEMMA AsksToRegister ==
    ASSUME NEW c \in Coroutines, todo \in [Coroutines -> Plans], Asks(c),
           At(c, "fetchRest"), Done(c), At(c, "send")'
    PROVE  sent[c].req = "UPDATE_ID"
<1>1. PlanStep(todo[c], todo'[c])
  BY Advance DEF At
<1> QED
  BY <1>1 DEF Asks, PlanStep, At, Running

(* A call goes on with steps it has just decided on.                       *)
LEMMA Decide ==
    ASSUME NEW c \in Coroutines, todo \in [Coroutines -> Plans], NEW steps \in Plans,
           At(c, "gate") \/ At(c, "return") \/ At(c, "count"), Then(c, steps)
    PROVE  todo' = [todo EXCEPT ![c] = steps] /\ todo' \in [Coroutines -> Plans]
<1>1. todo[c] \in Plans /\ todo[c] # <<>> /\ Tail(todo[c]) = <<>>
  BY PlanTail DEF At, Running, PlanStep
<1>2. steps \o <<>> = steps
  BY PlansAreSteps, ConcatEmptySeq
<1> QED
  BY <1>1, <1>2 DEF Then

(* The plans the calls begin with, and how the first steps look.           *)
LEMMA Starts ==
    /\ {<<>>, Fetch, Exchange, Upload, Update, ProcessLocation, Invalidated, Registered,
        <<"count">>, <<"delete", "count">>} \subseteq Plans
    /\ {<<>>, Fetch, ProcessLocation, Invalidated, Registered} \subseteq QuietPlans
    /\ Update \in UpdatePlans
    /\ {Exchange, Upload, <<"delete", "count">>} \subseteq UploadPlans
    /\ \A s \in {Fetch, Upload, Update, ProcessLocation} : s # <<>> /\ Head(s) = "fetchID"
    /\ Exchange # <<>> /\ Head(Exchange) = "page"
    /\ Invalidated # <<>> /\ Head(Invalidated) = "invalidate"
    /\ Registered # <<>> /\ Head(Registered) = "store"
    /\ <<"delete", "count">> # <<>> /\ Head(<<"delete", "count">>) = "delete"
<1>1. Fetch # <<>> /\ Head(Fetch) = "fetchID"
  BY DEF Fetch
<1>2. Upload # <<>> /\ Head(Upload) = "fetchID" /\ Update # <<>> /\ Head(Update) = "fetchID"
  BY DEF Upload, Update
<1>3. ProcessLocation # <<>> /\ Head(ProcessLocation) = "fetchID"
  BY DEF ProcessLocation
<1>4. /\ Exchange # <<>> /\ Head(Exchange) = "page"
      /\ Invalidated # <<>> /\ Head(Invalidated) = "invalidate"
  BY DEF Exchange, Invalidated
<1>5. /\ Registered # <<>> /\ Head(Registered) = "store"
      /\ <<"delete", "count">> # <<>> /\ Head(<<"delete", "count">>) = "delete"
  BY DEF Registered
<1>6. {<<>>, Fetch, ProcessLocation, Invalidated, Registered} \subseteq QuietPlans
  BY DEF QuietPlans, Fetch, ProcessLocation, Invalidated, Registered
<1>7. Update \in UpdatePlans /\ {Exchange, Upload, <<"delete", "count">>} \subseteq UploadPlans
  BY DEF UpdatePlans, UploadPlans, Update, Exchange, Upload
<1>8. <<"count">> \in Plans
  BY DEF Plans, UploadPlans
<1> QED
  BY <1>1, <1>2, <1>3, <1>4, <1>5, <1>6, <1>7, <1>8 DEF Plans

--------------------------------------------------------------------------------
(* Types *)

LEMMA TypedInit == Init => Typed
<1> SUFFICES ASSUME Init PROVE Typed
  OBVIOUS
<1>1. <<>> \in QuietPlans /\ <<>> \in Plans /\ <<>> \in Seq(Steps)
  BY DEF Plans, QuietPlans
<1>2. Unregistered \in Settings
  BY SomeFrequency DEF Unregistered, Settings
<1>3. TypeOK
  BY <1>1, <1>2, NaturalBounds DEF Init, TypeOK, Codes, Logs
<1>4. \A c \in Coroutines : WellFormed(sent[c]) /\ Connected(c) /\ Asks(c)
  BY <1>1 DEF Init, WellFormed, Connected, Asks, NoRequest
<1> QED
  BY <1>1, <1>3, <1>4 DEF Init, Typed

(* A call begins: it waits for nothing yet.                                *)
LEMMA TypedBegin ==
    ASSUME Typed, NEW c \in Coroutines, NEW steps \in {Fetch, Upload, Update, ProcessLocation},
           NEW r \in Requests \cup {NoRequest}, WellFormed(r), Begin(c, steps, r),
           steps = Upload => r.req = "UPDATE_LOGS",
           steps = Update => r.req = "UPDATE_ID",
           located' \in 0 .. MaxLogs, fix' \in [Coroutines -> 0 .. MaxLogs], UNCHANGED tim,
           registered' \subseteq registered
    PROVE  Typed'
<1>1. steps \in Plans /\ steps \in Seq(Steps)
  BY Starts, PlansAreSteps
<1>2. todo' \in [Coroutines -> Plans] /\ todo' \in [Coroutines -> Seq(Steps)]
  BY <1>1, PlansAreSteps DEF Begin, Typed
<1>3. sent' \in [Coroutines -> Requests \cup {NoRequest}]
  BY DEF Begin, Typed, TypeOK
<1>4. line[c] = "closed"
  BY DEF Begin, Typed, Connected, At
<1>5. \A d \in Coroutines : WellFormed(sent[d])' /\ Connected(d)' /\ Asks(d)'
  <2>1. SUFFICES ASSUME NEW d \in Coroutines
                 PROVE  WellFormed(sent[d])' /\ Connected(d)' /\ Asks(d)'
    OBVIOUS
  <2>2. CASE d = c
    <3>1. todo'[c] = steps /\ sent'[c] = r
      BY DEF Begin, Typed, TypeOK
    <3>2. Asks(c)'
      BY <3>1, Starts DEF Asks
    <3> QED
      BY <1>4, <2>2, <3>1, <3>2 DEF Begin, Typed, TypeOK, WellFormed, Connected
  <2>3. CASE d # c
    BY <2>3 DEF Begin, Typed, TypeOK, WellFormed, Connected, Asks, At, Running
  <2> QED
    BY <2>2, <2>3
<1>6. overlap' \subseteq {"call", "send"}
  BY DEF Begin, Typed, TypeOK
<1>7. TypeOK'
  BY <1>2, <1>3, <1>6 DEF Begin, Typed, TypeOK
<1> QED
  BY <1>2, <1>5, <1>7 DEF Begin, Typed

(* A step of a call that changes no connection.                            *)
LEMMA TypedFrame ==
    ASSUME Typed, NEW c \in Coroutines,
           todo' \in [Coroutines -> Plans],
           \A d \in Coroutines \ {c} : todo'[d] = todo[d] /\ sent'[d] = sent[d],
           sent'[c] \in Requests \cup {NoRequest}, WellFormed(sent[c])',
           sent' \in [Coroutines -> Requests \cup {NoRequest}],
           ~At(c, "wait"), UNCHANGED <<line, late>>, Asks(c)',
           TypeOK'
    PROVE  Typed'
<1>1. ASSUME NEW d \in Coroutines PROVE WellFormed(sent[d])' /\ Connected(d)' /\ Asks(d)'
  <2>1. CASE d = c
    BY <2>1 DEF Typed, WellFormed, Connected
  <2>2. CASE d # c
    BY <2>2 DEF Typed, WellFormed, Connected, Asks, At, Running
  <2> QED
    BY <2>1, <2>2
<1> QED
  BY <1>1 DEF Typed, WellFormed

LEMMA TypedCallStep ==
    ASSUME Typed, NEW c \in Coroutines, CallStep(c)
    PROVE  Typed'
<1> USE DEF Typed
<1>1. todo[c] \in Plans /\ sent[c] \in Requests \cup {NoRequest} /\ WellFormed(sent[c])
  BY DEF TypeOK
<1>2. ASSUME todo' \in [Coroutines -> Plans] PROVE todo' \in [Coroutines -> Seq(Steps)]
  BY <1>2, PlansAreSteps
<1>3. CASE FetchID(c)
  <2>1. todo' \in [Coroutines -> Plans] /\ \A d \in Coroutines \ {c} : todo'[d] = todo[d]
    BY <1>3, Advance DEF FetchID, At
  <2>2. TypeOK'
    BY <1>2, <1>3, <2>1 DEF FetchID, TypeOK, Settings, server, clock
  <2>3. Asks(c)'
    BY <1>3, AsksOn DEF FetchID, At
  <2> QED
    BY <1>1, <1>3, <2>1, <2>2, <2>3, TypedFrame DEF FetchID, TypeOK, At, WellFormed
<1>4. CASE FetchRest(c)
  <2>1. todo' \in [Coroutines -> Plans] /\ \A d \in Coroutines \ {c} : todo'[d] = todo[d]
    BY <1>4, Advance DEF FetchRest, At
  <2>2. TypeOK'
    BY <1>2, <1>4, <2>1 DEF FetchRest, TypeOK, Settings, server, clock
  <2>3. Asks(c)'
    BY <1>4, AsksOn DEF FetchRest, At
  <2> QED
    BY <1>1, <1>4, <2>1, <2>2, <2>3, TypedFrame DEF FetchRest, TypeOK, At, WellFormed
<1>5. CASE InsertTruckingLog(c)
  <2>1. todo' \in [Coroutines -> Plans] /\ \A d \in Coroutines \ {c} : todo'[d] = todo[d]
    BY <1>5, Advance DEF InsertTruckingLog, At
  <2>2. recorded' \in 0 .. MaxLogs /\ table' \subseteq 1 .. recorded'
    BY <1>5, NaturalBounds DEF InsertTruckingLog, TypeOK
  <2>3. tim' \in [Logs -> 0 .. MaxLogs] /\ fix' \in [Coroutines -> 0 .. MaxLogs]
    <3>1. 0 \in 0 .. MaxLogs
      BY NaturalBounds
    <3> QED
      BY <1>5, <3>1 DEF InsertTruckingLog, TypeOK
  <2>4. TypeOK'
    BY <1>2, <1>5, <2>1, <2>2, <2>3 DEF InsertTruckingLog, TypeOK, server
  <2>5. Asks(c)'
    BY <1>5, AsksOn DEF InsertTruckingLog, At
  <2> QED
    BY <1>1, <1>5, <2>1, <2>4, <2>5, TypedFrame DEF InsertTruckingLog, TypeOK, At, WellFormed
<1>6. CASE Gate(c)
  <2>1. todo' \in [Coroutines -> Plans] /\ \A d \in Coroutines \ {c} : todo'[d] = todo[d]
    BY <1>6, Decide, Starts DEF Gate, Done
  <2>2. /\ sent' \in [Coroutines -> Requests \cup {NoRequest}]
        /\ sent'[c] \in Requests \cup {NoRequest} /\ WellFormed(sent'[c])
        /\ \A d \in Coroutines \ {c} : sent'[d] = sent[d]
    <3>1. [sent[c] EXCEPT !.req = "UPDATE_LOGS"] \in Requests
      BY <1>1 DEF Requests, NoRequest
    <3>2. sent' \in {sent, [sent EXCEPT ![c] = [sent[c] EXCEPT !.req = "UPDATE_LOGS"]]}
      BY <1>6 DEF Gate
    <3>3. WellFormed([sent[c] EXCEPT !.req = "UPDATE_LOGS"])
      BY <3>1 DEF WellFormed, Requests
    <3> QED
      BY <1>1, <3>1, <3>2, <3>3 DEF TypeOK
  <2>3. TypeOK'
    BY <1>2, <1>6, <2>1, <2>2 DEF Gate, TypeOK, server, clock
  <2>4. Asks(c)'
    <3>1. CASE Done(c)
      <4>1. todo'[c] = <<>>
        BY <1>6, <3>1, Decide, Starts DEF Gate, Done
      <4> QED
        BY <4>1, Starts DEF Asks
    <3>2. CASE Then(c, Upload) /\ sent' = [sent EXCEPT ![c].req = "UPDATE_LOGS"]
      <4>1. todo'[c] = Upload
        BY <1>6, <3>2, Decide, Starts DEF Gate
      <4>2. sent'[c].req = "UPDATE_LOGS"
        BY <1>1, <3>2 DEF TypeOK, Requests, NoRequest
      <4> QED
        BY <4>1, <4>2, Starts DEF Asks
    <3> QED
      BY <1>6, <3>1, <3>2 DEF Gate
  <2> QED
    BY <1>6, <2>1, <2>2, <2>3, <2>4, TypedFrame DEF Gate, At, WellFormed
<1>7. CASE Return(c)
  <2>1. AfterUpload(response) \in Plans /\ AfterUpdate(response) \in Plans
    BY Starts DEF AfterUpload, AfterUpdate
  <2>2. todo' \in [Coroutines -> Plans] /\ \A d \in Coroutines \ {c} : todo'[d] = todo[d]
    BY <1>7, <2>1, Decide DEF Return
  <2>3. /\ sent' \in [Coroutines -> Requests \cup {NoRequest}]
        /\ sent'[c] \in Requests \cup {NoRequest} /\ WellFormed(sent'[c])
        /\ \A d \in Coroutines \ {c} : sent'[d] = sent[d]
    BY <1>1, <1>7 DEF Return, TypeOK, WellFormed, NoRequest
  <2>4. asked' \subseteq Ids
    BY <1>1, <1>7 DEF Return, TypeOK, WellFormed
  <2>5. TypeOK'
    BY <1>2, <1>7, <2>2, <2>3, <2>4 DEF Return, TypeOK, server, clock
  <2>6. Asks(c)'
    <3>1. /\ AfterUpload(response) = <<"delete", "count">> \/ AfterUpload(response) \in QuietPlans
          /\ AfterUpdate(response) \in QuietPlans
          /\ AfterUpload(response) = <<"delete", "count">> => response = "OK"
      BY Starts DEF AfterUpload, AfterUpdate
    <3>2. CASE sent[c].req = "UPDATE_LOGS" /\ Then(c, AfterUpload(response))
      <4>1. todo'[c] = AfterUpload(response)
        BY <1>7, <2>1, <3>2, Decide DEF Return
      <4>2. CASE AfterUpload(response) = <<"delete", "count">>
        BY <1>7, <3>1, <3>2, <4>1, <4>2, Starts DEF Return, Asks
      <4> QED
        BY <3>1, <4>1, <4>2 DEF Asks
    <3>3. CASE Then(c, AfterUpdate(response))
      <4>1. todo'[c] = AfterUpdate(response)
        BY <1>7, <2>1, <3>3, Decide DEF Return
      <4> QED
        BY <3>1, <4>1 DEF Asks
    <3> QED
      BY <1>7, <3>2, <3>3 DEF Return
  <2> QED
    BY <1>7, <2>2, <2>3, <2>5, <2>6, TypedFrame DEF Return, At, WellFormed
<1>8. CASE DeleteTruckingLog(c)
  <2>1. todo' \in [Coroutines -> Plans] /\ \A d \in Coroutines \ {c} : todo'[d] = todo[d]
    BY <1>8, Advance DEF DeleteTruckingLog, At
  <2>2. /\ sent' \in [Coroutines -> Requests \cup {NoRequest}]
        /\ sent'[c] \in Requests \cup {NoRequest} /\ WellFormed(sent'[c])
        /\ \A d \in Coroutines \ {c} : sent'[d] = sent[d]
    <3>1. CASE UNCHANGED sent
      BY <1>1, <3>1 DEF TypeOK
    <3>2. ASSUME NEW k \in sent[c].data, sent' = [sent EXCEPT ![c].data = @ \ {k}]
          PROVE  /\ sent' \in [Coroutines -> Requests \cup {NoRequest}]
                 /\ sent'[c] \in Requests \cup {NoRequest} /\ WellFormed(sent'[c])
                 /\ \A d \in Coroutines \ {c} : sent'[d] = sent[d]
      <4>1. sent[c] \in Requests
        BY <1>1, <3>2 DEF NoRequest
      <4>2. [sent[c] EXCEPT !.data = @ \ {k}] \in Requests
        BY <4>1 DEF Requests
      <4>3. WellFormed([sent[c] EXCEPT !.data = @ \ {k}])
        BY <1>1, <4>1 DEF WellFormed, Requests
      <4> QED
        BY <3>2, <4>2, <4>3 DEF TypeOK
    <3> QED
      BY <1>8, <3>1, <3>2 DEF DeleteTruckingLog
  <2>3. TypeOK'
    BY <1>2, <1>8, <2>1, <2>2 DEF DeleteTruckingLog, TypeOK, server, clock
  <2>4. Asks(c)'
    <3>1. sent'[c].req = sent[c].req
      BY <1>1, <1>8 DEF DeleteTruckingLog, TypeOK, Requests, NoRequest
    <3>2. CASE UNCHANGED todo
      BY <3>1, <3>2 DEF Asks
    <3>3. CASE Done(c)
      BY <1>8, <3>1, <3>3, AsksOn DEF DeleteTruckingLog, At
    <3> QED
      BY <1>8, <3>2, <3>3 DEF DeleteTruckingLog
  <2> QED
    BY <1>8, <2>1, <2>2, <2>3, <2>4, TypedFrame DEF DeleteTruckingLog, At, WellFormed
<1>9. CASE Count(c)
  <2>1. todo' \in [Coroutines -> Plans] /\ \A d \in Coroutines \ {c} : todo'[d] = todo[d]
    BY <1>9, Decide, Starts DEF Count
  <2>2. /\ sent' \in [Coroutines -> Requests \cup {NoRequest}]
        /\ sent'[c] \in Requests \cup {NoRequest} /\ WellFormed(sent'[c])
        /\ \A d \in Coroutines \ {c} : sent'[d] = sent[d]
    BY <1>1, <1>9 DEF Count, TypeOK, WellFormed, NoRequest
  <2>3. TypeOK'
    BY <1>2, <1>9, <2>1, <2>2 DEF Count, TypeOK, server, clock
  <2>4. Asks(c)'
    <3>1. sent[c].req = "UPDATE_LOGS"
      BY <1>9, AsksFor DEF Count
    <3>2. CASE table # {}
      <4>1. todo'[c] = Exchange /\ sent'[c] = sent[c]
        BY <1>9, <3>2, Decide, Starts DEF Count, TypeOK
      <4> QED
        BY <3>1, <4>1, Starts DEF Asks
    <3>3. CASE table = {}
      <4>1. todo'[c] = Fetch
        BY <1>9, <3>3, Decide, Starts DEF Count
      <4> QED
        BY <4>1, Starts DEF Asks
    <3> QED
      BY <3>2, <3>3
  <2> QED
    BY <1>9, <2>1, <2>2, <2>3, <2>4, TypedFrame DEF Count, At, WellFormed
<1>10. CASE Invalidate(c)
  <2>1. todo' \in [Coroutines -> Plans] /\ \A d \in Coroutines \ {c} : todo'[d] = todo[d]
    BY <1>10, Advance DEF Invalidate, At
  <2>2. TypeOK'
    BY <1>2, <1>10, <2>1 DEF Invalidate, TypeOK, Settings, server, clock
  <2>3. Asks(c)'
    BY <1>10, AsksOn DEF Invalidate, At
  <2> QED
    BY <1>1, <1>10, <2>1, <2>2, <2>3, TypedFrame DEF Invalidate, TypeOK, At, WellFormed
<1>11. CASE StoreId(c)
  <2>1. todo' \in [Coroutines -> Plans] /\ \A d \in Coroutines \ {c} : todo'[d] = todo[d]
    BY <1>11, Advance DEF StoreId, At
  <2>2. /\ sent' \in [Coroutines -> Requests \cup {NoRequest}]
        /\ sent'[c] \in Requests \cup {NoRequest} /\ WellFormed(sent'[c])
        /\ \A d \in Coroutines \ {c} : sent'[d] = sent[d]
    BY <1>11 DEF StoreId, TypeOK, WellFormed, NoRequest
  <2>3. prefs' \in Settings
    <3>1. sent[c].id \in Ids \cup {NoId} /\ sent[c].uuid \in Uuids \cup {NoUuid}
      BY <1>1 DEF Requests, NoRequest
    <3>2. prefs \in Settings
      BY DEF TypeOK
    <3> QED
      BY <1>11, <3>1, <3>2 DEF StoreId, Settings
  <2>4. TypeOK'
    BY <1>2, <1>11, <2>1, <2>2, <2>3 DEF StoreId, TypeOK, server, clock
  <2>5. Asks(c)'
    <3>1. todo[c] \in Plans /\ todo[c] # <<>> /\ Head(todo[c]) = "store"
      BY <1>11 DEF StoreId, At, Running
    <3>2. PlanStep(todo[c], Tail(todo[c])) /\ PlanStep(todo[c], todo'[c])
      BY <1>11, <3>1, PlanTail, Advance DEF StoreId, At
    <3>3. todo[c] \in QuietPlans
      BY <3>1 DEF Plans, SendPlans, UpdatePlans, UploadPlans
    <3> QED
      BY <3>2, <3>3 DEF Asks, PlanStep
  <2> QED
    BY <1>11, <2>1, <2>2, <2>4, <2>5, TypedFrame DEF StoreId, At, WellFormed
<1>12. CASE SendMessage(c)
  <2>1. /\ todo' \in [Coroutines -> Plans] /\ \A d \in Coroutines \ {c} : todo'[d] = todo[d]
        /\ At(c, "wait")'
    BY <1>12, Advance DEF SendMessage, At
  <2>2. sent'[c] \in Requests /\ WellFormed(sent'[c]) /\ sent'[c].req = sent[c].req
    <3>1. sent[c] \in Requests
      BY <1>1, <1>12, AsksFor DEF SendMessage, NoRequest
    <3>2. CASE sent[c].req = "UPDATE_ID"
      BY <1>1, <1>12, <3>1, <3>2 DEF SendMessage
    <3>3. CASE sent[c].req # "UPDATE_ID"
      <4>1. sent'[c] = [sent[c] EXCEPT !.uuid = appSettings.UUID]
        BY <1>12, <3>3 DEF SendMessage, TypeOK
      <4> QED
        BY <3>1, <3>3, <4>1 DEF Requests, WellFormed, TypeOK, Settings
    <3> QED
      BY <3>2, <3>3
  <2>3. /\ sent' \in [Coroutines -> Requests \cup {NoRequest}]
        /\ \A d \in Coroutines \ {c} : sent'[d] = sent[d]
    BY <1>12, <2>2 DEF SendMessage, TypeOK
  <2>4. Asks(c)'
    BY <1>12, <2>2, AsksOn DEF SendMessage, At
  <2>5. TypeOK'
    BY <1>2, <1>12, <2>1, <2>3 DEF SendMessage, TypeOK, server, clock
  <2>6. ASSUME NEW d \in Coroutines PROVE WellFormed(sent[d])' /\ Connected(d)' /\ Asks(d)'
    <3>1. CASE d = c
      BY <2>1, <2>2, <2>4, <3>1 DEF WellFormed, Connected
    <3>2. CASE d # c
      BY <1>12, <2>1, <2>3, <3>2 DEF SendMessage, WellFormed, Connected, Asks, At, Running, TypeOK
    <3> QED
      BY <3>1, <3>2
  <2> QED
    BY <1>12, <2>1, <2>5, <2>6 DEF SendMessage
<1>14. CASE TakePage(c) \/ ReadID(c)
  <2>1. todo' \in [Coroutines -> Plans] /\ \A d \in Coroutines \ {c} : todo'[d] = todo[d]
    BY <1>14, Advance DEF TakePage, ReadID, At
  <2>2. sent[c].req = "UPDATE_LOGS" /\ sent[c] \in Requests
    BY <1>1, <1>14, AsksFor DEF TakePage, ReadID, NoRequest
  <2>3. Oldest \subseteq Logs
    <3>1. recorded \in 0 .. MaxLogs /\ MaxLogs \in Nat /\ table \subseteq 1 .. recorded
      BY NaturalBounds DEF TypeOK
    <3>2. \A k \in 1 .. recorded : k \in 1 .. MaxLogs
      BY <3>1
    <3>3. Oldest \subseteq table
      BY DEF Oldest
    <3> QED
      BY <3>1, <3>2, <3>3 DEF Logs
  <2>4. PICK r \in Requests : sent' = [sent EXCEPT ![c] = r] /\ r.req = "UPDATE_LOGS"
    <3>1. CASE TakePage(c)
      <4>1. [sent[c] EXCEPT !.data = Oldest] \in Requests
            /\ [sent[c] EXCEPT !.data = Oldest].req = "UPDATE_LOGS"
        BY <2>2, <2>3 DEF Requests
      <4>2. sent' = [sent EXCEPT ![c] = [sent[c] EXCEPT !.data = Oldest]]
        BY <3>1 DEF TakePage
      <4> QED
        BY <4>1, <4>2
    <3>2. CASE ReadID(c)
      <4>1. appSettings.ID \in Ids \cup {NoId}
        BY DEF TypeOK, Settings
      <4>2. [sent[c] EXCEPT !.id = appSettings.ID] \in Requests
            /\ [sent[c] EXCEPT !.id = appSettings.ID].req = "UPDATE_LOGS"
        BY <2>2, <4>1 DEF Requests
      <4>3. sent' = [sent EXCEPT ![c] = [sent[c] EXCEPT !.id = appSettings.ID]]
        BY <3>2 DEF ReadID
      <4> QED
        BY <4>2, <4>3
    <3> QED
      BY <1>14, <3>1, <3>2
  <2>5. /\ sent' \in [Coroutines -> Requests \cup {NoRequest}]
        /\ sent'[c] \in Requests \cup {NoRequest} /\ WellFormed(sent'[c])
        /\ sent'[c].req = sent[c].req
        /\ \A d \in Coroutines \ {c} : sent'[d] = sent[d]
    BY <2>2, <2>4 DEF TypeOK, WellFormed
  <2>6. TypeOK'
    BY <1>2, <1>14, <2>1, <2>5 DEF TakePage, ReadID, TypeOK, server, clock
  <2>7. Asks(c)'
    BY <1>14, <2>5, AsksOn DEF TakePage, ReadID, At
  <2> QED
    BY <1>14, <2>1, <2>5, <2>6, <2>7, TypedFrame DEF TakePage, ReadID, At, WellFormed
<1>13. CASE ReceiveReply(c) \/ TimesOut(c)
  <2>1. todo' \in [Coroutines -> Plans] /\ \A d \in Coroutines \ {c} : todo'[d] = todo[d]
    BY <1>13, Advance DEF ReceiveReply, TimesOut, At
  <2>2. sent' = sent /\ line' = [line EXCEPT ![c] = "closed"] /\ response' \in Codes
    BY <1>13 DEF ReceiveReply, TimesOut, Codes
  <2>3. line' \in [Coroutines -> Codes \cup {"closed", "request", "silent"}]
    BY <2>2 DEF TypeOK
  <2>4. \A d \in Coroutines : WellFormed(sent[d])' /\ Connected(d)' /\ Asks(d)'
    <3>1. Asks(c)'
      BY <1>13, <2>2, AsksOn DEF ReceiveReply, TimesOut, At
    <3> QED
      BY <2>1, <2>2, <3>1 DEF WellFormed, Connected, Asks, At, Running, TypeOK
  <2>5. faults' \in 0 .. MaxFaults
    BY <1>13, NaturalBounds DEF ReceiveReply, TimesOut, Fault, TypeOK
  <2>6. \A q \in late' : /\ q.from \in Coroutines /\ q.n \in 0 .. MaxFaults
                         /\ q.request \in Requests /\ WellFormed(q.request)
    <3>1. late' = late \/ (late' = late \cup {GivenUp(c)} /\ line[c] = "request")
      BY <1>13 DEF ReceiveReply, TimesOut
    <3>2. line[c] = "request" => sent[c] \in Requests
      BY DEF Connected
    <3> QED
      BY <1>1, <3>1, <3>2 DEF GivenUp, TypeOK
  <2>7. /\ UNCHANGED <<appSettings, prefs, disk, table, recorded>>
        /\ UNCHANGED <<trucker, copies, registered, asked, overlap, located, fix, tim>>
    BY <1>13 DEF ReceiveReply, TimesOut, server, clock
  <2>8. TypeOK'
    BY <1>2, <2>1, <2>2, <2>3, <2>5, <2>6, <2>7 DEF TypeOK
  <2> QED
    BY <2>1, <2>4, <2>6, <2>8
<1> QED
  BY <1>3, <1>4, <1>5, <1>6, <1>7, <1>8, <1>9, <1>10, <1>11, <1>12, <1>13, <1>14 DEF CallStep

(* Storing a batch adds rows, and takes none away.                         *)
LEMMA StoredRows ==
    ASSUME Typed, NEW data, Stored(data)
    PROVE  copies' \in [Logs -> 0 .. MaxCopies] /\ \A k \in Logs : copies[k] > 0 => copies'[k] > 0
<1>1. \A k \in Logs : copies[k] \in 0 .. MaxCopies
  BY DEF Typed, TypeOK
<1>2. \A k \in Logs : copies'[k] = IF k \in data THEN copies[k] + 1 ELSE copies[k]
  BY DEF Stored
<1>3. \A k \in Logs : copies'[k] \in 0 .. MaxCopies /\ (copies[k] > 0 => copies'[k] > 0)
  BY <1>1, <1>2, NaturalBounds DEF Stored
<1> QED
  BY <1>3 DEF Stored

(* What the server does to its rows when it handles a request, to the end  *)
(* or not.                                                                 *)
LEMMA TypedHandled ==
    ASSUME Typed, NEW r \in Requests, WellFormed(r),
           (\E code \in Codes : Handled(r, code)) \/ Abandoned(r)
    PROVE  /\ trucker' \in [Ids -> [Verified : BOOLEAN, AndroidID : Uuids \cup {NoUuid}]]
           /\ copies' \in [Logs -> 0 .. MaxCopies]
           /\ registered \subseteq registered' /\ registered' \subseteq Ids \X Uuids
           /\ \A k \in Logs : copies[k] > 0 => copies'[k] > 0
<1>1. copies' = copies \/ \E data : Stored(data)
  BY DEF Handled, Abandoned, server
<1>2. copies' \in [Logs -> 0 .. MaxCopies] /\ \A k \in Logs : copies[k] > 0 => copies'[k] > 0
  <2>1. CASE copies' = copies
    BY <2>1 DEF Typed, TypeOK
  <2> QED
    BY <1>1, <2>1, StoredRows
<1>3. \/ UNCHANGED <<trucker, registered>>
      \/ r.req = "UPDATE_ID" /\ Registers(r)
  BY DEF Handled, Abandoned, server
<1>4. CASE UNCHANGED <<trucker, registered>>
  BY <1>2, <1>4 DEF Typed, TypeOK
<1>5. CASE r.req = "UPDATE_ID" /\ Registers(r)
  <2>1. r.id \in Ids /\ r.uuid \in Uuids
    BY <1>5 DEF WellFormed
  <2>2. [Verified |-> TRUE, AndroidID |-> r.uuid]
           \in [Verified : BOOLEAN, AndroidID : Uuids \cup {NoUuid}]
    BY <2>1
  <2>3. trucker' \in [Ids -> [Verified : BOOLEAN, AndroidID : Uuids \cup {NoUuid}]]
    BY <1>5, <2>2 DEF Registers, Typed, TypeOK
  <2>4. <<r.id, r.uuid>> \in Ids \X Uuids
    BY <2>1
  <2>5. registered \subseteq registered' /\ registered' \subseteq Ids \X Uuids
    BY <1>5, <2>4 DEF Registers, Typed, TypeOK
  <2> QED
    BY <1>2, <2>3, <2>5
<1> QED
  BY <1>3, <1>4, <1>5

(* The server and a request that is under way.                             *)
LEMMA TypedServer ==
    ASSUME Typed, NEW c \in Coroutines, Answer(c) \/ AnswerLost(c)
    PROVE  Typed' /\ registered \subseteq registered'
                  /\ \A k \in Logs : copies[k] > 0 => copies'[k] > 0
<1>1. /\ line[c] = "request" /\ UNCHANGED <<todo, sent, response, appSettings, prefs, disk>>
      /\ UNCHANGED <<table, recorded, located, fix, tim, late, asked, overlap>>
  BY DEF Answer, AnswerLost, Served, clock
<1>2. At(c, "wait") /\ sent[c] \in Requests /\ WellFormed(sent[c])
  BY <1>1 DEF Typed, Connected
<1>3. /\ trucker' \in [Ids -> [Verified : BOOLEAN, AndroidID : Uuids \cup {NoUuid}]]
      /\ copies' \in [Logs -> 0 .. MaxCopies]
      /\ registered \subseteq registered' /\ registered' \subseteq Ids \X Uuids
      /\ \A k \in Logs : copies[k] > 0 => copies'[k] > 0
  <2>1. (\E code \in Codes : Handled(sent[c], code)) \/ Abandoned(sent[c])
    BY DEF Answer, AnswerLost
  <2> QED
    BY <1>2, <2>1, TypedHandled
<1>4. /\ \E l \in Codes \cup {"silent"} : line' = [line EXCEPT ![c] = l]
      /\ faults' \in 0 .. MaxFaults
  <2>1. faults' = faults \/ (faults < MaxFaults /\ faults' = faults + 1)
    BY DEF Answer, AnswerLost, Fault
  <2>2. faults \in 0 .. MaxFaults /\ MaxFaults \in Nat
    BY NaturalBounds DEF Typed, TypeOK
  <2> QED
    BY <2>1, <2>2 DEF Answer, AnswerLost, Codes
<1>5. line' \in [Coroutines -> Codes \cup {"closed", "request", "silent"}]
  BY <1>4 DEF Typed, TypeOK
<1>6. \A d \in Coroutines : Connected(d)' /\ Asks(d)'
  BY <1>1, <1>2, <1>4 DEF Typed, TypeOK, Connected, Asks, At, Running
<1>7. TypeOK'
  BY <1>1, <1>3, <1>4, <1>5 DEF Typed, TypeOK
<1> QED
  BY <1>1, <1>3, <1>6, <1>7 DEF Typed, WellFormed

(* The app and the server apart from the calls.                            *)
LEMMA TypedRest ==
    ASSUME Typed,
           OnItemSelected \/ WriteToDisk \/ AppKilled \/ HandleLate
             \/ \E i \in Ids : ResetTrucker(i)
    PROVE  Typed'
<1>1. CASE OnItemSelected
  <2>1. prefs' \in Settings
    BY <1>1 DEF OnItemSelected, Typed, TypeOK, Settings
  <2> QED
    BY <1>1, <2>1 DEF OnItemSelected, Typed, TypeOK, WellFormed, Connected, Asks, At, Running, server, clock
<1>2. CASE WriteToDisk
  BY <1>2 DEF WriteToDisk, Typed, TypeOK, WellFormed, Connected, Asks, At, Running, server, clock
<1>3. CASE AppKilled
  <2>1. <<>> \in QuietPlans /\ <<>> \in Plans /\ <<>> \in Seq(Steps)
    BY DEF Plans, QuietPlans
  <2>2. Unregistered \in Settings
    BY SomeFrequency DEF Unregistered, Settings
  <2>3. \A q \in late' : /\ q.from \in Coroutines /\ q.n \in 0 .. MaxFaults
                         /\ q.request \in Requests /\ WellFormed(q.request)
    <3>1. PICK C \in SUBSET {c \in Coroutines : line[c] = "request"} :
            late' = late \cup {GivenUp(c) : c \in C}
      BY <1>3 DEF AppKilled
    <3>2. ASSUME NEW c \in C
          PROVE  c \in Coroutines /\ sent[c] \in Requests /\ WellFormed(sent[c])
      BY DEF Typed, Connected
    <3>3. faults \in 0 .. MaxFaults
      BY DEF Typed, TypeOK
    <3> QED
      BY <3>1, <3>2, <3>3 DEF GivenUp, Typed, TypeOK
  <2>4. faults' \in 0 .. MaxFaults
    BY <1>3, NaturalBounds DEF AppKilled, Fault, Typed, TypeOK
  <2>5. 0 \in 0 .. MaxLogs
    BY NaturalBounds
  <2>6. TypeOK'
    BY <1>3, <2>1, <2>2, <2>3, <2>4, <2>5 DEF AppKilled, Typed, TypeOK, Codes, server
  <2> QED
    BY <1>3, <2>1, <2>3, <2>6 DEF AppKilled, Typed, WellFormed, Connected, Asks, NoRequest
<1>4. CASE HandleLate
  <2>1. PICK q \in late :
          /\ late' = late \ {q}
          /\ (\E code \in Codes : Handled(q.request, code)) \/ Abandoned(q.request)
    BY <1>4 DEF HandleLate
  <2>2. /\ trucker' \in [Ids -> [Verified : BOOLEAN, AndroidID : Uuids \cup {NoUuid}]]
        /\ copies' \in [Logs -> 0 .. MaxCopies]
        /\ registered' \subseteq Ids \X Uuids
    BY <2>1, TypedHandled DEF Typed, TypeOK
  <2>3. UNCHANGED <<todo, sent, line, response, appSettings, prefs, disk, table, recorded>>
        /\ UNCHANGED <<located, fix, tim, asked, overlap>> /\ faults' \in 0 .. MaxFaults
    BY <1>4, NaturalBounds DEF HandleLate, Fault, phone, clock, Typed, TypeOK
  <2>4. TypeOK'
    BY <2>1, <2>2, <2>3 DEF Typed, TypeOK
  <2> QED
    BY <2>1, <2>3, <2>4 DEF Typed, WellFormed, Connected, Asks, At, Running
<1>5. ASSUME NEW i \in Ids, ResetTrucker(i)
      PROVE  Typed'
  <2>1. trucker' \in [Ids -> [Verified : BOOLEAN, AndroidID : Uuids \cup {NoUuid}]]
    BY <1>5 DEF ResetTrucker, Typed, TypeOK
  <2> QED
    BY <1>5, <2>1 DEF ResetTrucker, Typed, TypeOK, WellFormed, Connected, Asks, At, Running, phone, clock
<1> QED
  BY <1>1, <1>2, <1>3, <1>4, <1>5

LEMMA PlansDiffer ==
    /\ Fetch # Upload /\ Fetch # Update /\ ProcessLocation # Upload
    /\ ProcessLocation # Update /\ Update # Upload
<1>1. Len(Fetch) = 2 /\ Len(ProcessLocation) = 4 /\ Len(Update) = 5 /\ Len(Upload) = 7
  BY DEF Fetch, ProcessLocation, Update, Upload
<1> QED
  BY <1>1

LEMMA TypedStarts ==
    ASSUME Typed, NEW c \in Coroutines,
           Location(c) \/ PressUpload(c) \/ UpdateUI(c) \/ \E i \in Ids : EnterId(c, i)
    PROVE  Typed'
<1>0. \A x \in 0 .. MaxLogs : x < MaxLogs => x + 1 \in 0 .. MaxLogs
  BY NaturalBounds
<1> located \in 0 .. MaxLogs /\ fix \in [Coroutines -> 0 .. MaxLogs]
  BY DEF Typed, TypeOK
<1>1. WellFormed(NoRequest)
  BY DEF WellFormed, NoRequest
<1>2. CASE Location(c)
  BY <1>0, <1>1, <1>2, PlansDiffer, TypedBegin DEF Location
<1>3. CASE PressUpload(c)
  <2>1. [NoRequest EXCEPT !.req = "UPDATE_LOGS"] \in Requests
        /\ WellFormed([NoRequest EXCEPT !.req = "UPDATE_LOGS"])
    BY DEF Requests, NoRequest, WellFormed
  <2> QED
    BY <1>3, <2>1, PlansDiffer, TypedBegin DEF PressUpload, clock, NoRequest
<1>4. CASE UpdateUI(c)
  BY <1>1, <1>4, PlansDiffer, TypedBegin DEF UpdateUI, clock
<1>5. ASSUME NEW i \in Ids, EnterId(c, i)
      PROVE  Typed'
  <2> DEFINE u == CHOOSE v \in Uuids : Fresh(v)
             r == [req |-> "UPDATE_ID", id |-> i, uuid |-> u, data |-> {}]
  <2>1. u \in Uuids
    BY <1>5 DEF EnterId
  <2> HIDE DEF u
  <2>2. r \in Requests /\ WellFormed(r)
    BY <2>1 DEF Requests, WellFormed
  <2>3. Begin(c, Update, r) /\ registered' \subseteq registered /\ UNCHANGED clock
    BY <1>5 DEF EnterId, u
  <2> QED
    BY <2>2, <2>3, PlansDiffer, TypedBegin DEF clock
<1> QED
  BY <1>2, <1>3, <1>4, <1>5

LEMMA TypedNext == Typed /\ [Next]_vars => Typed'
<1> SUFFICES ASSUME Typed, [Next]_vars PROVE Typed'
  OBVIOUS
<1>1. CASE UNCHANGED vars
  BY <1>1 DEF vars, phone, server, clock, Typed, TypeOK, WellFormed, Connected, Asks, At, Running
<1>2. CASE Next
  BY <1>2, TypedStarts, TypedCallStep, TypedServer, TypedRest DEF Next
<1> QED
  BY <1>1, <1>2

--------------------------------------------------------------------------------
(* What a call was answered stays true *)

(* Overlaps and stored rows are never taken back.                          *)
Grows ==
    /\ overlap \subseteq overlap'
    /\ \A k \in Logs : copies[k] > 0 => copies'[k] > 0

LEMMA Growing == Typed /\ [Next]_vars => Grows
<1> SUFFICES ASSUME Typed, [Next]_vars PROVE Grows
  OBVIOUS
<1>1. CASE UNCHANGED <<overlap, copies>>
  BY <1>1 DEF Grows
<1>2. ASSUME NEW c \in Coroutines, NEW steps, NEW r, Begin(c, steps, r)
      PROVE  Grows
  BY <1>2 DEF Begin, Grows
<1>3. ASSUME NEW c \in Coroutines, CallStep(c)
      PROVE  Grows
  <2>1. UNCHANGED copies /\ overlap \subseteq overlap'
    BY <1>3 DEF CallStep, FetchID, FetchRest, InsertTruckingLog, Gate, TakePage, ReadID, SendMessage, ReceiveReply,
         TimesOut, Return, DeleteTruckingLog, Count, Invalidate, StoreId, server
  <2> QED
    BY <2>1 DEF Grows
<1>4. ASSUME NEW c \in Coroutines, Answer(c) \/ AnswerLost(c)
      PROVE  Grows
  BY <1>4, TypedServer DEF Answer, AnswerLost, Served, Grows
<1>5. CASE HandleLate
  BY <1>5, TypedHandled DEF HandleLate, Grows, Typed, TypeOK
<1>6. CASE OnItemSelected \/ WriteToDisk \/ AppKilled \/ \E i \in Ids : ResetTrucker(i)
  BY <1>1, <1>6 DEF OnItemSelected, WriteToDisk, AppKilled, ResetTrucker, server
<1> QED
  BY <1>1, <1>2, <1>3, <1>4, <1>5, <1>6
     DEF Next, vars, server, Location, PressUpload, UpdateUI, EnterId

(* The answer of a call that a step does not touch.                        *)
LEMMA VouchedFrame ==
    ASSUME Typed, Grows, NEW d \in Coroutines, Vouched(d),
           todo'[d] = todo[d], sent'[d] = sent[d], line'[d] = line[d],
           response' = response \/ ~At(d, "return"),
           <<sent[d].id, sent[d].uuid>> \in registered => <<sent[d].id, sent[d].uuid>> \in registered'
    PROVE  Vouched(d)'
<1>1. \A step : At(d, step)' <=> At(d, step)
  BY DEF At, Running
<1>2. Backed(d) => Backed(d)'
  BY DEF Backed
<1>3. sent[d].data \subseteq Logs
  <2>1. sent[d] \in Requests \cup {NoRequest}
    BY DEF Typed, TypeOK
  <2> QED
    BY <2>1 DEF Requests, NoRequest
<1>4. Kept(d) => Kept(d)'
  BY <1>3 DEF Kept, Grows
<1> QED
  BY <1>1, <1>2, <1>4 DEF Vouched

LEMMA Quiet ==
    ASSUME NEW c \in Coroutines, ~Sending(c)', ~At(c, "delete")', ~At(c, "store")'
    PROVE  Vouched(c)'
BY DEF Vouched, Sending

(* A step of c or of the server on c's connection.                         *)
LEMMA ApartStep ==
    ASSUME Typed, Apart, Grows, NEW c \in Coroutines,
           \A d \in Coroutines \ {c} :
               /\ todo'[d] = todo[d] /\ sent'[d] = sent[d] /\ line'[d] = line[d]
               /\ <<sent[d].id, sent[d].uuid>> \in registered
                     => <<sent[d].id, sent[d].uuid>> \in registered',
           response' = response \/ At(c, "wait"),
           "send" \notin overlap' =>
               /\ Sending(c)' => Sending(c) \/ \A d \in Coroutines \ {c} : ~Sending(d)
               /\ Vouched(c)'
               /\ BackedSettings(prefs)' /\ BackedSettings(disk)'
    PROVE  Apart'
<1> SUFFICES ASSUME "send" \notin overlap'
             PROVE  /\ OneSender' /\ \A d \in Coroutines : Vouched(d)'
                    /\ BackedSettings(prefs)' /\ BackedSettings(disk)'
  BY DEF Apart
<1>1. OneSender /\ \A d \in Coroutines : Vouched(d)
  BY DEF Apart, Grows
<1>2. \A d \in Coroutines \ {c} : Sending(d)' <=> Sending(d)
  BY DEF Sending, At, Running
<1>3. OneSender'
  BY <1>1, <1>2 DEF OneSender
<1>4. ASSUME NEW d \in Coroutines \ {c}
      PROVE  Vouched(d)'
  <2>1. response' = response \/ ~At(d, "return")
    BY <1>1 DEF OneSender, Sending
  <2> QED
    BY <1>1, <2>1, VouchedFrame
<1> QED
  BY <1>3, <1>4

(* A call begins: it has asked for nothing, and a new UUID is in no pair   *)
(* that anyone still uses.                                                 *)
LEMMA ApartStarts ==
    ASSUME Typed, Apart, Grows, NEW c \in Coroutines,
           Location(c) \/ PressUpload(c) \/ UpdateUI(c) \/ \E i \in Ids : EnterId(c, i)
    PROVE  Apart'
<1>1. PICK steps \in {Fetch, Upload, Update, ProcessLocation} : \E r : Begin(c, steps, r)
  BY DEF Location, PressUpload, UpdateUI, EnterId
<1>2. PICK r : Begin(c, steps, r)
  BY <1>1
<1>3. At(c, "fetchID")'
  <2>1. todo'[c] = steps
    BY <1>2 DEF Begin, Typed
  <2> QED
    BY <2>1, Starts DEF At, Running
<1>4. ~Sending(c)' /\ Vouched(c)'
  <2>1. ~Sending(c)' /\ ~At(c, "delete")' /\ ~At(c, "store")'
    BY <1>3 DEF At, Sending
  <2> QED
    BY <2>1, Quiet
<1>5. /\ \A d \in Coroutines \ {c} : todo'[d] = todo[d] /\ sent'[d] = sent[d] /\ line'[d] = line[d]
      /\ UNCHANGED <<response, prefs, disk>>
  BY <1>2 DEF Begin, Typed, TypeOK
<1> DEFINE Remains(i, u) == <<i, u>> \in registered => <<i, u>> \in registered'
<1>6. /\ \A d \in Coroutines : Remains(sent[d].id, sent[d].uuid)
      /\ \A s \in {prefs, disk} : Remains(s.ID, s.UUID)
  <2>1. CASE UNCHANGED registered
    BY <2>1
  <2>2. ASSUME NEW i \in Ids, EnterId(c, i)
        PROVE  /\ \A d \in Coroutines : Remains(sent[d].id, sent[d].uuid)
               /\ \A s \in {prefs, disk} : Remains(s.ID, s.UUID)
    <3> DEFINE u == CHOOSE v \in Uuids : Fresh(v)
    <3>1. Fresh(u) /\ registered' = {q \in registered : q[2] # u}
      BY <2>2 DEF EnterId
    <3> HIDE DEF u
    <3> QED
      BY <3>1 DEF Fresh
  <2> QED
    BY <2>1, <2>2 DEF Location, PressUpload, UpdateUI
<1>7. "send" \notin overlap' => BackedSettings(prefs)' /\ BackedSettings(disk)'
  BY <1>5, <1>6 DEF Apart, Grows, BackedSettings
<1> QED
  BY <1>4, <1>5, <1>6, <1>7, ApartStep

(* A step of a call that does not lead into sendMessage, to a deletion or  *)
(* to the storing of an ID.                                                *)
LEMMA ApartQuiet ==
    ASSUME Typed, Apart, Grows, NEW c \in Coroutines,
           \A d \in Coroutines \ {c} : todo'[d] = todo[d] /\ sent'[d] = sent[d],
           UNCHANGED <<line, response, registered>>,
           ~Sending(c)', ~At(c, "delete")', ~At(c, "store")',
           "send" \notin overlap' => BackedSettings(prefs)' /\ BackedSettings(disk)'
    PROVE  Apart'
<1>1. Vouched(c)'
  BY Quiet
<1> QED
  BY <1>1, ApartStep

LEMMA ApartCallStep ==
    ASSUME Typed, Apart, Grows, NEW c \in Coroutines, CallStep(c)
    PROVE  Apart'
<1>1. todo \in [Coroutines -> Plans] /\ sent \in [Coroutines -> Requests \cup {NoRequest}]
  BY DEF Typed, TypeOK
<1>2. "send" \notin overlap' => /\ OneSender /\ Vouched(c)
                              /\ BackedSettings(prefs) /\ BackedSettings(disk)
  BY DEF Apart, Grows
<1>3. CASE FetchID(c) \/ FetchRest(c) \/ InsertTruckingLog(c) \/ TakePage(c) \/ ReadID(c)
  <2>1. /\ Done(c) /\ Running(c) /\ ~At(c, "send") /\ ~At(c, "wait")
        /\ UNCHANGED <<line, response, prefs, disk, registered>>
        /\ \A d \in Coroutines \ {c} : sent'[d] = sent[d]
    BY <1>1, <1>3 DEF FetchID, FetchRest, InsertTruckingLog, TakePage, ReadID, At, server
  <2>2. /\ \A d \in Coroutines \ {c} : todo'[d] = todo[d]
        /\ ~Sending(c)' /\ ~At(c, "delete")' /\ ~At(c, "store")'
    BY <1>1, <2>1, Advance DEF Sending
  <2> QED
    BY <1>2, <2>1, <2>2, ApartQuiet DEF BackedSettings
<1>4. CASE Gate(c) \/ Count(c)
  <2>1. PICK steps \in {<<>>, Fetch, Exchange, Upload} : Then(c, steps)
    BY <1>4 DEF Gate, Count, Done
  <2>2. todo' = [todo EXCEPT ![c] = steps]
    BY <1>1, <1>4, <2>1, Decide, Starts DEF Gate, Count
  <2>3. ~Sending(c)' /\ ~At(c, "delete")' /\ ~At(c, "store")'
    BY <1>1, <2>2, Starts DEF Sending, At, Running
  <2>4. \A d \in Coroutines \ {c} : todo'[d] = todo[d] /\ sent'[d] = sent[d]
    BY <1>1, <1>4, <2>2 DEF Gate, Count
  <2>5. UNCHANGED <<line, response, registered, prefs, disk>>
    BY <1>4 DEF Gate, Count, server
  <2> QED
    BY <1>2, <2>3, <2>4, <2>5, ApartQuiet DEF BackedSettings
<1>5. CASE Invalidate(c) \/ StoreId(c)
  <2>1. /\ Done(c) /\ Running(c) /\ ~At(c, "send") /\ ~At(c, "wait")
        /\ UNCHANGED <<line, response, disk, registered>>
    BY <1>5 DEF Invalidate, StoreId, At, server
  <2>2. /\ \A d \in Coroutines \ {c} : todo'[d] = todo[d]
        /\ ~Sending(c)' /\ ~At(c, "delete")' /\ ~At(c, "store")'
    BY <1>1, <2>1, Advance DEF Sending
  <2>3. \A d \in Coroutines \ {c} : sent'[d] = sent[d]
    BY <1>1, <1>5 DEF Invalidate, StoreId
  <2>4. "send" \notin overlap' => BackedSettings(prefs)'
    <3>1. prefs \in Settings
      BY DEF Typed, TypeOK
    <3>2. CASE Invalidate(c)
      BY <3>1, <3>2 DEF Invalidate, BackedSettings, Settings
    <3>3. CASE StoreId(c)
      <4>1. prefs'.ID = sent[c].id /\ prefs'.UUID = sent[c].uuid
        BY <3>1, <3>3 DEF StoreId, Settings
      <4> QED
        BY <1>2, <2>1, <3>3, <4>1 DEF StoreId, BackedSettings, Vouched, Backed
    <3> QED
      BY <1>5, <3>2, <3>3
  <2> QED
    BY <1>2, <2>1, <2>2, <2>3, <2>4, ApartQuiet DEF BackedSettings
<1>6. CASE SendMessage(c)
  <2>1. /\ \A d \in Coroutines \ {c} : todo'[d] = todo[d]
        /\ ~At(c, "delete")' /\ ~At(c, "store")' /\ ~At(c, "return")'
    BY <1>1, <1>6, Advance DEF SendMessage, At
  <2>2. line' = [line EXCEPT ![c] = "request"] /\ UNCHANGED <<response, prefs, disk, registered>>
    BY <1>6 DEF SendMessage, server
  <2>3. Vouched(c)'
    BY <2>1, <2>2 DEF Vouched, Typed, TypeOK
  <2>4. "send" \notin overlap' => \A d \in Coroutines \ {c} : ~Sending(d)
    BY <1>6 DEF SendMessage
  <2>5. \A d \in Coroutines \ {c} : sent'[d] = sent[d] /\ line'[d] = line[d]
    BY <1>1, <1>6, <2>2 DEF SendMessage, Typed, TypeOK
  <2> QED
    BY <1>2, <2>1, <2>2, <2>3, <2>4, <2>5, ApartStep DEF BackedSettings
<1>7. CASE ReceiveReply(c) \/ TimesOut(c)
  <2>1. /\ \A d \in Coroutines \ {c} : todo'[d] = todo[d]
        /\ ~At(c, "delete")' /\ ~At(c, "store")' /\ ~At(c, "wait")'
    BY <1>1, <1>7, Advance DEF ReceiveReply, TimesOut, At
  <2>2. /\ line' = [line EXCEPT ![c] = "closed"]
        /\ At(c, "wait") /\ response' \in {line[c], "TIMEOUT"}
        /\ UNCHANGED <<sent, prefs, disk, registered, copies>>
    BY <1>7 DEF ReceiveReply, TimesOut, server
  <2>3. "send" \notin overlap' => Vouched(c)'
    BY <1>2, <2>1, <2>2 DEF Vouched, Backed, Kept
  <2>4. \A d \in Coroutines \ {c} : line'[d] = line[d]
    BY <2>2 DEF Typed, TypeOK
  <2> QED
    BY <1>2, <2>1, <2>2, <2>3, <2>4, ApartStep DEF BackedSettings, Sending
<1>8. CASE Return(c)
  <2>1. UNCHANGED <<line, response, prefs, disk, registered, copies>>
    BY <1>8 DEF Return, server
  <2>2. AfterUpload(response) \in Plans /\ AfterUpdate(response) \in Plans
    BY Starts DEF AfterUpload, AfterUpdate
  <2>3. todo' \in {[todo EXCEPT ![c] = AfterUpload(response)], [todo EXCEPT ![c] = AfterUpdate(response)]}
    BY <1>1, <1>8, <2>2, Decide DEF Return
  <2>4. \A d \in Coroutines \ {c} : todo'[d] = todo[d] /\ sent'[d] = sent[d]
    BY <1>1, <1>8, <2>3 DEF Return
  <2>5. CASE response # "OK"
    <3>1. todo'[c] \in {Fetch, Invalidated}
      BY <1>1, <2>3, <2>5 DEF AfterUpload, AfterUpdate
    <3>2. ~Sending(c)' /\ ~At(c, "delete")' /\ ~At(c, "store")'
      BY <3>1, Starts DEF Sending, At, Running
    <3> QED
      BY <1>2, <2>1, <2>4, <3>2, ApartQuiet DEF BackedSettings
  <2>6. CASE response = "OK"
    <3>1. sent' = sent
      BY <1>8, <2>6 DEF Return
    <3>2. "send" \notin overlap' => Backed(c) /\ Kept(c)
      BY <1>2, <1>8, <2>6 DEF Return, Vouched
    <3>3. \/ sent[c].req = "UPDATE_LOGS" /\ todo'[c] = <<"delete", "count">>
          \/ sent[c].req = "UPDATE_ID" /\ todo'[c] = Registered
      BY <1>1, <1>8, <2>2, <2>6, Decide DEF Return, AfterUpload, AfterUpdate
    <3>4. ~Sending(c)' /\ ("send" \notin overlap' => Vouched(c)')
      BY <2>1, <3>1, <3>2, <3>3, Starts DEF Sending, At, Running, Vouched, Backed, Kept
    <3> QED
      BY <1>2, <2>1, <2>4, <3>4, ApartStep DEF BackedSettings
  <2> QED
    BY <2>5, <2>6
<1>9. CASE DeleteTruckingLog(c)
  <2>1. UNCHANGED <<line, response, prefs, disk, registered, copies>>
    BY <1>9 DEF DeleteTruckingLog, server
  <2>2. CASE Done(c)
    <3>1. /\ \A d \in Coroutines \ {c} : todo'[d] = todo[d]
          /\ ~Sending(c)' /\ ~At(c, "delete")' /\ ~At(c, "store")'
      BY <1>1, <1>9, <2>2, Advance DEF DeleteTruckingLog, At, Sending
    <3>2. \A d \in Coroutines \ {c} : sent'[d] = sent[d]
      BY <1>1, <1>9 DEF DeleteTruckingLog
    <3> QED
      BY <1>2, <2>1, <3>1, <3>2, ApartQuiet DEF BackedSettings
  <2>3. ASSUME NEW k \in sent[c].data, UNCHANGED todo,
               sent' = [sent EXCEPT ![c].data = @ \ {k}]
        PROVE  Apart'
    <3>1. sent[c] \in Requests
      BY <1>1, <2>3 DEF NoRequest
    <3>2. sent'[c].req = sent[c].req /\ sent'[c].data \subseteq sent[c].data
      BY <1>1, <2>3, <3>1 DEF Requests
    <3>3. At(c, "delete")' /\ ~Sending(c)'
      BY <1>9, <2>3 DEF DeleteTruckingLog, At, Running, Sending
    <3>4. "send" \notin overlap' => Vouched(c)'
      BY <1>2, <1>9, <2>1, <3>2, <3>3 DEF DeleteTruckingLog, Vouched, Kept, At
    <3>5. \A d \in Coroutines \ {c} : todo'[d] = todo[d] /\ sent'[d] = sent[d]
      BY <1>1, <2>3
    <3> QED
      BY <1>2, <2>1, <3>3, <3>4, <3>5, ApartStep DEF BackedSettings
  <2> QED
    BY <1>9, <2>2, <2>3 DEF DeleteTruckingLog
<1> QED
  BY <1>3, <1>4, <1>5, <1>6, <1>7, <1>8, <1>9 DEF CallStep

(* The server's OK means that it did what c asked for.                     *)
LEMMA ApartServer ==
    ASSUME Typed, Apart, Grows, NEW c \in Coroutines, Answer(c) \/ AnswerLost(c)
    PROVE  Apart'
<1>1. /\ line[c] = "request" /\ At(c, "wait") /\ sent[c] \in Requests
      /\ UNCHANGED <<todo, sent, response, prefs, disk>>
      /\ registered \subseteq registered'
  BY TypedServer DEF Answer, AnswerLost, Served, Typed, Connected
<1>2. Sending(c)
  BY <1>1 DEF Sending
<1>3. \A d \in Coroutines \ {c} : line'[d] = line[d]
  BY DEF Answer, AnswerLost, Typed, TypeOK
<1>4. line'[c] = "OK" => Backed(c)' /\ Kept(c)'
  <2>1. SUFFICES ASSUME line'[c] = "OK" PROVE Backed(c)' /\ Kept(c)'
    OBVIOUS
  <2>2. Handled(sent[c], "OK")
    BY <2>1 DEF Answer, AnswerLost, Typed, TypeOK
  <2>3. sent[c].data \subseteq Logs /\ copies \in [Logs -> 0 .. MaxCopies]
    BY <1>1 DEF Typed, TypeOK, Requests
  <2>4. CASE Handled(sent[c], "OK")
    <3>1. CASE sent[c].req = "UPDATE_ID"
      BY <1>1, <2>4, <3>1 DEF Handled, Registers, Backed, Kept
    <3>2. CASE sent[c].req = "UPDATE_LOGS"
      <4>1. Stored(sent[c].data)
        BY <2>4, <3>2 DEF Handled
      <4>2. \A k \in sent[c].data : copies'[k] > 0
        BY <2>3, <4>1 DEF Stored
      <4> QED
        BY <1>1, <3>2, <4>2 DEF Backed, Kept
    <3> QED
      BY <2>4, <3>1, <3>2 DEF Handled
  <2> QED
    BY <2>2, <2>4
<1>5. Vouched(c)'
  BY <1>1, <1>4 DEF Vouched, At, Running
<1> QED
  BY <1>1, <1>2, <1>3, <1>5, ApartStep DEF Apart, Grows, BackedSettings

LEMMA ApartRest ==
    ASSUME Typed, Apart, Grows,
           OnItemSelected \/ WriteToDisk \/ AppKilled \/ HandleLate
             \/ \E i \in Ids : ResetTrucker(i)
    PROVE  Apart'
<1> SUFFICES ASSUME "send" \notin overlap'
             PROVE  /\ OneSender' /\ \A d \in Coroutines : Vouched(d)'
                    /\ BackedSettings(prefs)' /\ BackedSettings(disk)'
  BY DEF Apart
<1>1. /\ OneSender /\ \A d \in Coroutines : Vouched(d)
      /\ BackedSettings(prefs) /\ BackedSettings(disk)
  BY DEF Apart, Grows
<1>2. prefs \in Settings
  BY DEF Typed, TypeOK
<1>3. CASE AppKilled
  <2>1. \A d \in Coroutines : ~Running(d)'
    BY <1>3 DEF AppKilled, Running
  <2>2. prefs' = disk /\ UNCHANGED <<disk, registered>>
    BY <1>3 DEF AppKilled, server
  <2> QED
    BY <1>1, <2>1, <2>2 DEF OneSender, Vouched, Sending, At, BackedSettings
<1>4. CASE OnItemSelected \/ WriteToDisk \/ HandleLate \/ \E i \in Ids : ResetTrucker(i)
  <2>1. UNCHANGED <<todo, sent, line, response>> /\ registered \subseteq registered'
    <3>1. CASE HandleLate
      BY <3>1, TypedHandled DEF HandleLate, phone, Typed, TypeOK
    <3> QED
      BY <1>4, <3>1 DEF OnItemSelected, WriteToDisk, ResetTrucker, phone, server
  <2>2. \A d \in Coroutines : Vouched(d)'
    BY <1>1, <2>1, VouchedFrame
  <2>3. OneSender'
    BY <1>1, <2>1 DEF OneSender, Sending, At, Running
  <2>4. /\ prefs'.ID = prefs.ID /\ prefs'.UUID = prefs.UUID /\ prefs'.VERIFIED = prefs.VERIFIED
        /\ disk' \in {disk, prefs}
    BY <1>2, <1>4 DEF OnItemSelected, WriteToDisk, HandleLate, ResetTrucker, phone, Settings
  <2> QED
    BY <1>1, <2>1, <2>2, <2>3, <2>4 DEF BackedSettings
<1> QED
  BY <1>3, <1>4

LEMMA ApartNext == Typed /\ Apart /\ [Next]_vars => Apart'
<1> SUFFICES ASSUME Typed, Apart, [Next]_vars PROVE Apart'
  OBVIOUS
<1>1. Grows
  BY Growing
<1>2. CASE UNCHANGED vars
  BY <1>2 DEF vars, phone, server, Apart, OneSender, Vouched, BackedSettings, Backed, Kept,
              Sending, At, Running
<1>3. CASE Next
  BY <1>1, <1>3, ApartStarts, ApartCallStep, ApartServer, ApartRest DEF Next
<1> QED
  BY <1>2, <1>3

--------------------------------------------------------------------------------
(* Records *)

(* A record leaves the table only by a deletion, after an OK that stands   *)
(* for its row.                                                            *)
LEMMA NothingLostNext == Typed /\ Apart /\ NothingLost /\ [Next]_vars => NothingLost'
<1> SUFFICES ASSUME Typed, Apart, NothingLost, [Next]_vars,
                    "send" \notin overlap',
                    NEW l \in 1 .. recorded'
             PROVE  l \in table' \/ copies'[l] > 0
  BY DEF NothingLost, ClearedOnlyWhenTransmitted
<1>1. Grows
  BY Growing
<1>2. recorded \in 0 .. MaxLogs /\ MaxLogs \in Nat
  BY NaturalBounds DEF Typed, TypeOK
<1>3. \A k \in 1 .. recorded : k \in Logs /\ (k \in table \/ copies[k] > 0)
  BY <1>1, <1>2 DEF NothingLost, ClearedOnlyWhenTransmitted, Grows, Logs
<1>4. CASE recorded' = recorded /\ table \subseteq table'
  BY <1>1, <1>3, <1>4 DEF Grows
<1>5. ASSUME NEW c \in Coroutines, InsertTruckingLog(c)
      PROVE  l \in table' \/ copies'[l] > 0
  <2>1. recorded' = recorded + 1 /\ table' = table \cup {recorded + 1}
    BY <1>5 DEF InsertTruckingLog
  <2>2. l \in 1 .. recorded \/ l = recorded + 1
    BY <1>2, <2>1
  <2> QED
    BY <1>1, <1>3, <2>1, <2>2 DEF Grows
<1>6. ASSUME NEW c \in Coroutines, DeleteTruckingLog(c)
      PROVE  l \in table' \/ copies'[l] > 0
  <2>1. recorded' = recorded /\ (table' = table \/ \E k \in sent[c].data : table' = table \ {k})
    BY <1>6 DEF DeleteTruckingLog
  <2>2. \A k \in sent[c].data : copies[k] > 0
    BY <1>1, <1>6 DEF DeleteTruckingLog, Apart, Vouched, Kept, Grows
  <2> QED
    BY <1>1, <1>3, <2>1, <2>2 DEF Grows
<1>7. ASSUME NEW c \in Coroutines, NEW steps, NEW r, Begin(c, steps, r)
      PROVE  recorded' = recorded /\ table' = table
  BY <1>7 DEF Begin
<1>8. ASSUME NEW c \in Coroutines, CallStep(c), ~InsertTruckingLog(c), ~DeleteTruckingLog(c)
      PROVE  recorded' = recorded /\ table' = table
  BY <1>8 DEF CallStep, FetchID, FetchRest, Gate, TakePage, ReadID, SendMessage, ReceiveReply, TimesOut,
              Return, Count, Invalidate, StoreId
<1>9. ASSUME NEW c \in Coroutines, Answer(c) \/ AnswerLost(c)
      PROVE  recorded' = recorded /\ table' = table
  BY <1>9 DEF Answer, AnswerLost, Served
<1>10. CASE \/ OnItemSelected \/ WriteToDisk \/ AppKilled \/ HandleLate \/ UNCHANGED vars
            \/ \E i \in Ids : ResetTrucker(i)
  BY <1>4, <1>10 DEF OnItemSelected, WriteToDisk, AppKilled, HandleLate, ResetTrucker, phone, vars
<1> QED
  BY <1>4, <1>5, <1>6, <1>7, <1>8, <1>9, <1>10
     DEF Next, Location, PressUpload, UpdateUI, EnterId

--------------------------------------------------------------------------------
(* Theorems *)

(* The invariant: types and plans; with calls of sendMessage apart, every  *)
(* OK stands for what was asked and the settings on the phone are backed;  *)
(* no record is lost.                                                      *)
THEOREM Invariance == Spec => []IInv
<1>1. Init => IInv
  <2> SUFFICES ASSUME Init PROVE IInv
    OBVIOUS
  <2>1. Typed
    BY TypedInit
  <2>2. Apart
    BY DEF Init, Apart, OneSender, Vouched, BackedSettings, Unregistered, Sending, At, Running
  <2>3. NothingLost
    BY DEF Init, NothingLost, ClearedOnlyWhenTransmitted
  <2> QED
    BY <2>1, <2>2, <2>3 DEF IInv
<1>2. IInv /\ [Next]_vars => IInv'
  BY TypedNext, ApartNext, NothingLostNext DEF IInv
<1> QED
  BY <1>1, <1>2, PTL DEF Spec

(* Every variable keeps its type: coroutines take the steps of            *)
(* MainRepository.kt, the preferences hold IDs the manager added, and no   *)
(* count passes its bound.                                                 *)
THEOREM TypeCorrect == Spec => []TypeOK
<1>1. IInv => TypeOK
  BY DEF IInv, Typed
<1> QED
  BY <1>1, Invariance, PTL

(* Whatever messages, replies, apps and servers are lost, and however the  *)
(* calls of MainRepository interleave outside sendMessage, a record stays  *)
(* in tblTruckLogs until the server has stored it.                         *)
THEOREM NeverLost == Spec => []NothingLost
<1>1. IInv => NothingLost
  BY DEF IInv
<1> QED
  BY <1>1, Invariance, PTL

(* The preferences call the phone verified only under an ID and a UUID     *)
(* that the server once registered, across kills that restore an old file. *)
THEOREM VerifiedImpliesRegistered == Spec => []VerifiedIsBacked
<1>1. IInv => VerifiedIsBacked
  BY DEF IInv, Apart, BackedSettings, VerifiedIsBacked
<1> QED
  BY <1>1, Invariance, PTL

================================================================================
