------------------------ MODULE MainRepository_refinement ------------------------
(***************************************************************************)
(* Until calls of sendMessage overlap, MainRepository, the table and the   *)
(* server take only steps of LogDelivery, for any number of coroutines,    *)
(* records and faults, also where records are inserted after newer ones    *)
(* and pages are read long before they are sent.                           *)
(***************************************************************************)
EXTENDS MainRepository_proofs, FiniteSetTheorems

--------------------------------------------------------------------------------
(* The invariant beside IInv *)

(* j must not be overtaken by k.                                           *)
Before(j, k) == j < k /\ tim[j] < tim[k]

(* A page, or what is left of it to be deleted, has with a record all that *)
(* the record must not overtake in the table.                              *)
OldestPart(D) ==
    /\ D \subseteq 1 .. recorded
    /\ \A k \in D : \A j \in table : Before(j, k) => j \in D

Pages == \A c \in Coroutines : OldestPart(sent[c].data)

(* What a record of a request must not overtake is in the request too, or  *)
(* on the server.                                                          *)
InOrder(D) ==
    /\ D \subseteq 1 .. recorded
    /\ \A k \in D : \A j \in 1 .. recorded : Before(j, k) => j \in D \/ copies[j] > 0

(* So it is for every page, from the moment it is read to the deletion of  *)
(* its last record, and for every request the server may still handle.     *)
Waiting ==
    "send" \notin overlap =>
        /\ \A c \in Coroutines : InOrder(sent[c].data)
        /\ \A q \in late : InOrder(q.request.data)

RInv == IInv /\ Pages /\ Waiting

--------------------------------------------------------------------------------
(* Pages *)

LEMMA OldestIsOldest ==
    ASSUME Typed
    PROVE  OldestPart(Oldest)
<1>1. table \subseteq 1 .. recorded /\ recorded \in Nat
  BY NaturalBounds DEF Typed, TypeOK
<1>2. IsFiniteSet(table)
  <2>1. IsFiniteSet(1 .. recorded)
    BY <1>1, FS_Interval
  <2> QED
    BY <1>1, <2>1, FS_Subset
<1>3. Oldest \subseteq table
  BY DEF Oldest
<1>4. ASSUME NEW k \in Oldest, NEW j \in table, Before(j, k)
      PROVE  j \in Oldest
  <2> DEFINE below(n) == {m \in table : tim[m] < tim[n]}
  <2>1. below(j) \subseteq below(k) /\ below(k) \subseteq table
    <3>1. \A m \in table : tim[m] \in Int
      <4>1. \A m \in table : m \in Logs
        BY <1>1, NaturalBounds DEF Typed, TypeOK, Logs
      <4> QED
        BY <4>1, NaturalBounds DEF Typed, TypeOK
    <3>2. \A m \in table : tim[m] < tim[j] => tim[m] < tim[k]
      BY <1>3, <1>4, <3>1 DEF Before
    <3> QED
      BY <3>2
  <2>2. IsFiniteSet(below(k))
    BY <1>2, <2>1, FS_Subset
  <2>3. IsFiniteSet(below(j)) /\ Cardinality(below(j)) <= Cardinality(below(k))
    BY <2>1, <2>2, FS_Subset
  <2>4. Cardinality(below(j)) \in Nat /\ Cardinality(below(k)) \in Nat
    BY <2>2, <2>3, FS_CardinalityType
  <2>5. Cardinality(below(k)) < Limit
    BY <1>4 DEF Oldest
  <2>6. Cardinality(below(j)) < Limit
    BY <2>3, <2>4, <2>5, NaturalBounds
  <2> QED
    BY <1>4, <2>6 DEF Oldest
<1> QED
  BY <1>1, <1>3, <1>4 DEF OldestPart

(* Records are inserted at the end of the table and keep their times.      *)
Moves ==
    \/ UNCHANGED <<table, recorded, tim>>
    \/ /\ recorded' = recorded + 1 /\ table' = table \cup {recorded + 1}
       /\ \E t : tim' = [tim EXCEPT ![recorded + 1] = t]
    \/ recorded' = recorded /\ table' \subseteq table /\ tim' = tim

LEMMA Moving == [Next]_vars => Moves
<1> SUFFICES ASSUME [Next]_vars PROVE Moves
  OBVIOUS
<1>1. ASSUME NEW c \in Coroutines,
             Location(c) \/ PressUpload(c) \/ UpdateUI(c) \/ \E i \in Ids : EnterId(c, i)
      PROVE  Moves
  BY <1>1 DEF Location, PressUpload, UpdateUI, EnterId, Begin, clock, Moves
<1>2. ASSUME NEW c \in Coroutines, InsertTruckingLog(c)
      PROVE  Moves
  BY <1>2 DEF InsertTruckingLog, Moves
<1>3. ASSUME NEW c \in Coroutines, DeleteTruckingLog(c)
      PROVE  Moves
  BY <1>3 DEF DeleteTruckingLog, clock, Moves
<1>4. ASSUME NEW c \in Coroutines, CallStep(c), ~InsertTruckingLog(c), ~DeleteTruckingLog(c)
      PROVE  Moves
  BY <1>4 DEF CallStep, FetchID, FetchRest, Gate, TakePage, ReadID, SendMessage, ReceiveReply,
              TimesOut, Return, Count, Invalidate, StoreId, clock, Moves
<1>5. ASSUME NEW c \in Coroutines, Answer(c) \/ AnswerLost(c)
      PROVE  Moves
  BY <1>5 DEF Answer, AnswerLost, Served, clock, Moves
<1>6. CASE OnItemSelected \/ WriteToDisk \/ AppKilled \/ HandleLate \/ UNCHANGED vars
           \/ \E i \in Ids : ResetTrucker(i)
  BY <1>6 DEF OnItemSelected, WriteToDisk, AppKilled, HandleLate, ResetTrucker, phone, clock, vars,
              Moves
<1> QED
  BY <1>1, <1>2, <1>3, <1>4, <1>5, <1>6 DEF Next

LEMMA Grown ==
    ASSUME Typed, Moves
    PROVE  /\ recorded \in Nat /\ recorded' \in Nat /\ recorded <= recorded'
           /\ \A j \in 1 .. recorded : tim'[j] = tim[j]
           /\ \A k \in 1 .. recorded : \A j \in 1 .. recorded' :
                 Before(j, k)' => j \in 1 .. recorded /\ Before(j, k)
<1>1. recorded \in Nat
  BY NaturalBounds DEF Typed, TypeOK
<1>2. recorded' \in Nat /\ recorded <= recorded'
  BY <1>1 DEF Moves
<1>3. ASSUME NEW j \in 1 .. recorded
      PROVE  tim'[j] = tim[j]
  <2>1. j \in Logs /\ j # recorded + 1
    BY <1>1, NaturalBounds DEF Typed, TypeOK, Logs
  <2>2. tim \in [Logs -> 0 .. MaxLogs]
    BY DEF Typed, TypeOK
  <2> QED
    BY <2>1, <2>2 DEF Moves
<1>4. ASSUME NEW k \in 1 .. recorded, NEW j \in 1 .. recorded', Before(j, k)'
      PROVE  j \in 1 .. recorded /\ Before(j, k)
  <2>1. j \in 1 .. recorded
    BY <1>1, <1>2, <1>4 DEF Before
  <2> QED
    BY <1>3, <1>4, <2>1 DEF Before
<1> QED
  BY <1>1, <1>2, <1>3, <1>4

LEMMA OldestStays ==
    ASSUME Typed, NEW D, OldestPart(D), Moves
    PROVE  /\ D \subseteq 1 .. recorded'
           /\ \A k \in D : \A j \in table' : Before(j, k)' => j \in D
<1>1. recorded \in Nat /\ recorded' \in Nat /\ recorded <= recorded'
  BY Grown
<1>2. D \subseteq 1 .. recorded /\ table \subseteq 1 .. recorded
  BY DEF OldestPart, Typed, TypeOK
<1>3. ASSUME NEW k \in D, NEW j \in table', Before(j, k)'
      PROVE  j \in D
  <2>1. j \in 1 .. recorded'
    <3>1. CASE table' \subseteq table
      BY <1>1, <1>2, <3>1
    <3>2. CASE recorded' = recorded + 1 /\ table' = table \cup {recorded + 1}
      BY <1>1, <1>2, <3>2
    <3> QED
      BY <3>1, <3>2 DEF Moves
  <2>2. j \in 1 .. recorded /\ Before(j, k)
    BY <1>2, <1>3, <2>1, Grown
  <2>3. j \in table
    BY <1>1, <2>2 DEF Moves
  <2> QED
    BY <2>2, <2>3 DEF OldestPart
<1> QED
  BY <1>1, <1>2, <1>3

LEMMA PagesNext == Typed /\ Pages /\ [Next]_vars => Pages'
<1> SUFFICES ASSUME Typed, Pages, [Next]_vars PROVE Pages'
  OBVIOUS
<1>0. Moves
  BY Moving
<1>1. sent \in [Coroutines -> Requests \cup {NoRequest}] /\ NoRequest.data = {}
  BY DEF Typed, TypeOK, NoRequest
<1>2. ASSUME \A d \in Coroutines : sent'[d].data \in {sent[d].data, {}}
      PROVE  Pages'
  <2>1. SUFFICES ASSUME NEW d \in Coroutines PROVE OldestPart(sent[d].data)'
    BY DEF Pages
  <2>2. OldestPart(sent[d].data)
    BY DEF Pages
  <2>3. CASE sent'[d].data = sent[d].data
    <3>1. /\ sent[d].data \subseteq 1 .. recorded'
          /\ \A k \in sent[d].data : \A j \in table' : Before(j, k)' => j \in sent[d].data
      BY <1>0, <2>2, OldestStays
    <3> QED
      BY <2>3, <3>1 DEF OldestPart
  <2>4. CASE sent'[d].data = {}
    BY <2>4 DEF OldestPart
  <2> QED
    BY <1>2, <2>3, <2>4
<1>3. ASSUME NEW c \in Coroutines, NEW steps, NEW r, r.data = {}, Begin(c, steps, r)
      PROVE  Pages'
  BY <1>1, <1>2, <1>3 DEF Begin
<1>4. ASSUME NEW c \in Coroutines,
             Location(c) \/ PressUpload(c) \/ UpdateUI(c) \/ \E i \in Ids : EnterId(c, i)
      PROVE  Pages'
  <2>1. [NoRequest EXCEPT !.req = "UPDATE_LOGS"].data = {}
    BY DEF NoRequest
  <2>2. CASE Location(c) \/ PressUpload(c) \/ UpdateUI(c)
    BY <1>1, <1>3, <2>1, <2>2 DEF Location, PressUpload, UpdateUI
  <2>3. ASSUME NEW i \in Ids, EnterId(c, i)
        PROVE  Pages'
    <3> DEFINE u == CHOOSE u \in Uuids : Fresh(u)
    <3>1. Begin(c, Update, [req |-> "UPDATE_ID", id |-> i, uuid |-> u, data |-> {}])
      BY <2>3 DEF EnterId
    <3>2. [req |-> "UPDATE_ID", id |-> i, uuid |-> u, data |-> {}].data = {}
      OBVIOUS
    <3> QED
      BY <1>3, <3>1, <3>2
  <2> QED
    BY <1>4, <2>2, <2>3
<1>5. ASSUME NEW c \in Coroutines, InsertTruckingLog(c)
      PROVE  Pages'
  BY <1>2, <1>5 DEF InsertTruckingLog
<1>6. ASSUME NEW c \in Coroutines,
             FetchID(c) \/ FetchRest(c) \/ ReadID(c) \/ SendMessage(c) \/ ReceiveReply(c)
             \/ TimesOut(c) \/ Invalidate(c) \/ Answer(c) \/ AnswerLost(c)
      PROVE  Pages'
  <2>1. ASSUME sent' = sent PROVE Pages'
    BY <1>2, <2>1
  <2>2. CASE ReadID(c) \/ SendMessage(c)
    <3>1. \A d \in Coroutines : sent'[d].data = sent[d].data
      BY <1>1, <2>2 DEF ReadID, SendMessage, Requests, NoRequest
    <3> QED
      BY <1>2, <3>1
  <2> QED
    BY <1>6, <2>1, <2>2
       DEF FetchID, FetchRest, ReceiveReply, TimesOut, Invalidate, Answer, AnswerLost, Served
<1>7. ASSUME NEW c \in Coroutines, Gate(c) \/ Return(c) \/ Count(c) \/ StoreId(c)
      PROVE  Pages'
  <2>1. UNCHANGED <<table, recorded>>
    BY <1>7 DEF Gate, Return, Count, StoreId
  <2>2. \A d \in Coroutines : sent'[d].data \in {sent[d].data, {}}
    BY <1>1, <1>7 DEF Gate, Return, Count, StoreId, Requests, NoRequest
  <2> QED
    BY <1>2, <2>1, <2>2
<1>8. ASSUME NEW c \in Coroutines, TakePage(c)
      PROVE  Pages'
  <2>1. UNCHANGED <<table, recorded, tim>>
    BY <1>8 DEF TakePage, clock
  <2>2. OldestPart(Oldest)
    BY OldestIsOldest
  <2>3. \A d \in Coroutines : sent'[d].data = sent[d].data \/ sent'[d].data = Oldest
    BY <1>1, <1>8 DEF TakePage, Requests, NoRequest
  <2> QED
    BY <2>1, <2>2, <2>3 DEF Pages, OldestPart, Before
<1>9. ASSUME NEW c \in Coroutines, DeleteTruckingLog(c)
      PROVE  Pages'
  <2>1. CASE UNCHANGED <<table, sent, recorded>>
    BY <1>2, <2>1
  <2>2. ASSUME NEW l \in sent[c].data, table' = table \ {l},
               sent' = [sent EXCEPT ![c].data = @ \ {l}], UNCHANGED <<recorded, tim>>
        PROVE  Pages'
    <3>1. SUFFICES ASSUME NEW d \in Coroutines PROVE OldestPart(sent[d].data)'
      BY DEF Pages
    <3>2. OldestPart(sent[d].data)
      BY DEF Pages
    <3>3. sent'[d].data = IF d = c THEN sent[c].data \ {l} ELSE sent[d].data
      BY <1>1, <2>2 DEF Requests, NoRequest
    <3> QED
      BY <2>2, <3>2, <3>3 DEF OldestPart, Before
  <2> QED
    BY <1>9, <2>1, <2>2 DEF DeleteTruckingLog, clock
<1>10. CASE AppKilled
  BY <1>1, <1>2, <1>10 DEF AppKilled
<1>11. CASE OnItemSelected \/ WriteToDisk \/ HandleLate \/ UNCHANGED vars
            \/ \E i \in Ids : ResetTrucker(i)
  BY <1>2, <1>11 DEF OnItemSelected, WriteToDisk, HandleLate, ResetTrucker, phone, vars
<1> QED
  BY <1>4, <1>5, <1>6, <1>7, <1>8, <1>9, <1>10, <1>11 DEF Next, CallStep

--------------------------------------------------------------------------------
(* Requests under way *)

LEMMA InOrderStays ==
    ASSUME Typed, [Next]_vars, NEW D, InOrder(D)
    PROVE  /\ D \subseteq 1 .. recorded'
           /\ \A k \in D : \A j \in 1 .. recorded' : Before(j, k)' => j \in D \/ copies'[j] > 0
<1>1. recorded \in Nat /\ recorded' \in Nat /\ recorded <= recorded' /\ Grows
  BY Moving, Grown, Growing
<1>2. 1 .. recorded \subseteq Logs
  BY NaturalBounds DEF Typed, TypeOK, Logs
<1>3. D \subseteq 1 .. recorded
  BY DEF InOrder
<1>4. ASSUME NEW k \in D, NEW j \in 1 .. recorded', Before(j, k)'
      PROVE  j \in D \/ copies'[j] > 0
  <2>1. j \in 1 .. recorded /\ Before(j, k)
    BY <1>3, <1>4, Moving, Grown
  <2>2. j \in D \/ copies[j] > 0
    BY <1>4, <2>1 DEF InOrder
  <2> QED
    BY <1>1, <1>2, <2>1, <2>2 DEF Grows
<1> QED
  BY <1>1, <1>3, <1>4

(* A page is taken when what it leaves out has been deleted, and so stored. *)
LEMMA PageInOrder ==
    ASSUME Typed, NothingLost, NEW c \in Coroutines, TakePage(c), "send" \notin overlap
    PROVE  InOrder(sent[c].data)'
<1>1. sent'[c].data = Oldest /\ UNCHANGED <<recorded, copies, table, tim>>
  BY DEF TakePage, Typed, TypeOK, server, clock, Requests, NoRequest
<1>2. OldestPart(Oldest)
  BY OldestIsOldest
<1>3. \A j \in 1 .. recorded : j \in table \/ copies[j] > 0
  BY DEF NothingLost, ClearedOnlyWhenTransmitted
<1> QED
  BY <1>1, <1>2, <1>3 DEF InOrder, OldestPart, Before

LEMMA WaitingNext == Typed /\ Apart /\ NothingLost /\ Waiting /\ [Next]_vars => Waiting'
<1> SUFFICES ASSUME Typed, Apart, NothingLost, Waiting, [Next]_vars, "send" \notin overlap'
             PROVE  (\A c \in Coroutines : InOrder(sent[c].data)') /\ \A q \in late' : InOrder(q.request.data)'
  BY DEF Waiting
<1>1. /\ "send" \notin overlap
      /\ \A c \in Coroutines : InOrder(sent[c].data)
      /\ \A q \in late : InOrder(q.request.data)
  BY Growing DEF Waiting, Grows
<1>2. sent \in [Coroutines -> Requests \cup {NoRequest}]
  BY DEF Typed, TypeOK
<1> DEFINE Kind(d) == sent'[d].data = sent[d].data \/ sent'[d].data = {} \/ InOrder(sent[d].data)'
           OldRequest(q) == q \in late \/ \E d \in Coroutines : q.request = sent[d]
<1>3. ASSUME \A d \in Coroutines : Kind(d), \A q \in late' : OldRequest(q)
      PROVE  (\A c \in Coroutines : InOrder(sent[c].data)') /\ \A q \in late' : InOrder(q.request.data)'
  <2>1. ASSUME NEW d \in Coroutines PROVE InOrder(sent[d].data)'
    <3>1. CASE sent'[d].data = sent[d].data
      BY <1>1, <3>1, InOrderStays DEF InOrder
    <3>2. CASE sent'[d].data = {}
      BY <3>2 DEF InOrder
    <3> QED
      BY <1>3, <3>1, <3>2
  <2>2. ASSUME NEW q \in late' PROVE InOrder(q.request.data)'
    <3>1. InOrder(q.request.data)
      BY <1>1, <1>3, <2>2
    <3> QED
      BY <3>1, InOrderStays DEF InOrder
  <2> QED
    BY <2>1, <2>2
<1>4. ASSUME NEW c \in Coroutines,
             Location(c) \/ PressUpload(c) \/ UpdateUI(c) \/ \E i \in Ids : EnterId(c, i)
      PROVE  late' = late /\ \A d \in Coroutines : Kind(d)
  <2>1. PICK steps, r : Begin(c, steps, r) /\ r.data = {}
    <3>1. NoRequest.data = {} /\ [NoRequest EXCEPT !.req = "UPDATE_LOGS"].data = {}
      BY DEF NoRequest
    <3>2. ASSUME NEW i \in Ids, EnterId(c, i)
          PROVE  \E steps, r : Begin(c, steps, r) /\ r.data = {}
      <4> DEFINE u == CHOOSE v \in Uuids : Fresh(v)
      <4>1. Begin(c, Update, [req |-> "UPDATE_ID", id |-> i, uuid |-> u, data |-> {}])
        BY <3>2 DEF EnterId
      <4>2. [req |-> "UPDATE_ID", id |-> i, uuid |-> u, data |-> {}].data = {}
        OBVIOUS
      <4> QED
        BY <4>1, <4>2
    <3> QED
      BY <1>4, <3>1, <3>2 DEF Location, PressUpload, UpdateUI
  <2> QED
    BY <1>2, <2>1 DEF Begin
<1>5. ASSUME NEW c \in Coroutines, FetchID(c) \/ FetchRest(c) \/ InsertTruckingLog(c) \/ Invalidate(c)
      PROVE  late' = late /\ \A d \in Coroutines : Kind(d)
  BY <1>5 DEF FetchID, FetchRest, InsertTruckingLog, Invalidate
<1>6. ASSUME NEW c \in Coroutines,
             Gate(c) \/ Return(c) \/ Count(c) \/ StoreId(c) \/ ReadID(c) \/ SendMessage(c)
      PROVE  late' = late /\ \A d \in Coroutines : Kind(d)
  <2>1. late' = late /\ \A d \in Coroutines \ {c} : sent'[d] = sent[d]
    BY <1>2, <1>6 DEF Gate, Return, Count, StoreId, ReadID, SendMessage
  <2>2. Kind(c)
    <3>1. NoRequest.data = {} /\ sent[c] \in Requests \cup {NoRequest}
      BY <1>2 DEF NoRequest
    <3>2. CASE Return(c) \/ Count(c) \/ StoreId(c)
      BY <1>2, <3>1, <3>2 DEF Return, Count, StoreId
    <3>3. CASE ReadID(c) \/ SendMessage(c) \/ Gate(c)
      <4>1. sent'[c].data = sent[c].data
        BY <1>2, <3>1, <3>3 DEF ReadID, SendMessage, Gate, Requests, NoRequest
      <4> QED
        BY <4>1
    <3> QED
      BY <1>6, <3>2, <3>3
  <2> QED
    BY <2>1, <2>2
<1>7. ASSUME NEW c \in Coroutines, TakePage(c)
      PROVE  late' = late /\ \A d \in Coroutines : Kind(d)
  <2>1. InOrder(sent[c].data)'
    BY <1>1, <1>7, PageInOrder
  <2> QED
    BY <1>2, <1>7, <2>1 DEF TakePage
<1>8. ASSUME NEW c \in Coroutines, DeleteTruckingLog(c)
      PROVE  late' = late /\ \A d \in Coroutines : Kind(d)
  <2>1. late' = late /\ UNCHANGED <<recorded, tim, copies>>
    BY <1>8 DEF DeleteTruckingLog, clock, server
  <2>2. ASSUME NEW l \in sent[c].data, sent' = [sent EXCEPT ![c].data = @ \ {l}]
        PROVE  \A d \in Coroutines : Kind(d)
    <3>1. \A k \in sent[c].data : copies[k] > 0
      BY <1>1, <1>8 DEF DeleteTruckingLog, Apart, Vouched, Kept
    <3>2. sent'[c].data = sent[c].data \ {l}
      BY <1>2, <2>2 DEF Requests, NoRequest
    <3>3. InOrder(sent[c].data)'
      BY <1>1, <2>1, <3>1, <3>2 DEF InOrder, Before
    <3> QED
      BY <1>2, <2>2, <3>3
  <2> QED
    BY <1>8, <2>1, <2>2 DEF DeleteTruckingLog
<1>9. ASSUME NEW c \in Coroutines, ReceiveReply(c) \/ TimesOut(c) \/ Answer(c) \/ AnswerLost(c)
      PROVE  (\A d \in Coroutines : Kind(d)) /\ \A q \in late' : OldRequest(q)
  <2>1. sent' = sent
    BY <1>9 DEF ReceiveReply, TimesOut, Answer, AnswerLost, Served
  <2>2. late' = late \/ late' = late \cup {GivenUp(c)}
    BY <1>9 DEF ReceiveReply, TimesOut, Answer, AnswerLost, Served
  <2>3. GivenUp(c).request = sent[c]
    BY DEF GivenUp
  <2> QED
    BY <2>1, <2>2, <2>3
<1>10. CASE AppKilled
  <2>1. \A d \in Coroutines : sent'[d].data = {}
    BY <1>10 DEF AppKilled, NoRequest
  <2>2. \A q \in late' : OldRequest(q)
    BY <1>10 DEF AppKilled, GivenUp
  <2> QED
    BY <1>3, <2>1, <2>2
<1>11. CASE OnItemSelected \/ WriteToDisk \/ HandleLate \/ UNCHANGED vars
            \/ \E i \in Ids : ResetTrucker(i)
  <2>1. sent' = sent /\ late' \subseteq late
    BY <1>11 DEF OnItemSelected, WriteToDisk, HandleLate, ResetTrucker, phone, vars
  <2> QED
    BY <1>3, <2>1
<1> HIDE DEF Kind, OldRequest
<1>12. \A q \in late : OldRequest(q)
  BY DEF OldRequest
<1> QED
  BY <1>3, <1>4, <1>5, <1>6, <1>7, <1>8, <1>9, <1>10, <1>11, <1>12 DEF Next, CallStep

--------------------------------------------------------------------------------
(* The steps of LogDelivery *)

Delivered == {l \in Logs : copies[l] > 0}

(* What matters to LogDelivery is unchanged.                               *)
LEMMA Stutters ==
    ASSUME UNCHANGED <<table, recorded, tim, copies>>
    PROVE  UNCHANGED Delivery!vars
BY DEF Delivery!vars

(* A batch, or the part of it before some record, is stored.               *)
LEMMA Delivers ==
    ASSUME Typed, NothingLost, "send" \notin overlap,
           NEW data, InOrder(data),
           NEW D \in SUBSET data, \A k \in D : \A j \in data : Before(j, k) => j \in D,
           Stored(D), UNCHANGED <<table, recorded, tim>>
    PROVE  Delivery!Deliver
<1> DEFINE S == D \ Delivered
<1>1. /\ recorded \in Nat /\ 1 .. recorded \subseteq Logs
      /\ copies \in [Logs -> Nat]
  BY NaturalBounds DEF Typed, TypeOK, Logs
<1>2. data \subseteq 1 .. recorded
  BY DEF InOrder
<1>3. {l \in Logs : copies'[l] > 0} = Delivered \cup S
  <2>1. \A l \in Logs : copies'[l] = IF l \in D THEN copies[l] + 1 ELSE copies[l]
    BY DEF Stored
  <2>2. \A l \in Logs : copies'[l] > 0 <=> copies[l] > 0 \/ l \in D
    BY <1>1, <2>1
  <2> QED
    BY <1>1, <1>2, <2>2 DEF Delivered
<1>4. S \in SUBSET (1 .. recorded)
  BY <1>2
<1>5. /\ S \subseteq table
      /\ \A l \in S : {j \in 1 .. recorded : Before(j, l)} \subseteq Delivered \cup S
  <2>1. \A j \in 1 .. recorded : j \in table \/ j \in Delivered
    BY <1>1 DEF NothingLost, ClearedOnlyWhenTransmitted, Delivered
  <2>2. \A l \in S : \A j \in 1 .. recorded : Before(j, l) => j \in D \/ j \in Delivered
    BY <1>1 DEF InOrder, Delivered
  <2> QED
    BY <1>4, <2>1, <2>2
<1>6. Delivered = {l \in Logs : copies[l] > 0}
  BY DEF Delivered
<1> QED
  BY <1>3, <1>4, <1>5, <1>6 DEF Delivery!Deliver, Delivery!Older, Before

(* The prefixes of a batch are its oldest records.                         *)
LEMMA PrefixesAreOldest ==
    ASSUME Typed, NEW data, data \subseteq 1 .. recorded, NEW D \in Prefixes(data)
    PROVE  /\ D \in SUBSET data
           /\ \A k \in D : \A j \in data : Before(j, k) => j \in D
<1>1. PICK m \in data : D = {l \in data : tim[l] < tim[m]}
  BY DEF Prefixes
<1>2. \A l \in data : tim[l] \in Int
  <2>1. data \subseteq Logs
    BY NaturalBounds DEF Typed, TypeOK, Logs
  <2> QED
    BY <2>1, NaturalBounds DEF Typed, TypeOK
<1> QED
  BY <1>1, <1>2 DEF Before

(* A request is handled, to its end or not.                                *)
LEMMA Handles ==
    ASSUME Typed, NothingLost, "send" \notin overlap, NEW r, InOrder(r.data),
           UNCHANGED <<table, recorded, tim>>,
           (\E code \in Codes : Handled(r, code)) \/ Abandoned(r)
    PROVE  Delivery!Deliver \/ UNCHANGED Delivery!vars
<1>1. CASE UNCHANGED copies
  BY <1>1, Stutters
<1>2. CASE Stored(r.data)
  BY <1>2, Delivers
<1>3. ASSUME NEW D \in Prefixes(r.data), Stored(D)
      PROVE  Delivery!Deliver
  <2>1. /\ D \in SUBSET r.data
        /\ \A k \in D : \A j \in r.data : Before(j, k) => j \in D
    BY <1>3, PrefixesAreOldest DEF InOrder
  <2> QED
    BY <1>3, <2>1, Delivers
<1> QED
  BY <1>1, <1>2, <1>3 DEF Handled, Abandoned, server

LEMMA NextDelivers ==
    ASSUME RInv, [Next]_vars, "send" \notin overlap
    PROVE  [Delivery!Next]_Delivery!vars
<1>1. /\ Typed /\ Apart /\ NothingLost /\ Pages
      /\ \A c \in Coroutines : InOrder(sent[c].data)
      /\ \A q \in late : InOrder(q.request.data)
  BY DEF RInv, IInv, Waiting
<1>2. CASE UNCHANGED <<table, recorded, tim, copies>>
  BY <1>2, Stutters
<1>3. ASSUME NEW c \in Coroutines,
             Location(c) \/ PressUpload(c) \/ UpdateUI(c) \/ \E i \in Ids : EnterId(c, i)
      PROVE  UNCHANGED <<table, recorded, tim, copies>>
  BY <1>3 DEF Location, PressUpload, UpdateUI, EnterId, Begin, clock
<1>4. ASSUME NEW c \in Coroutines, CallStep(c), ~InsertTruckingLog(c), ~DeleteTruckingLog(c)
      PROVE  UNCHANGED <<table, recorded, tim, copies>>
  BY <1>4 DEF CallStep, FetchID, FetchRest, Gate, TakePage, ReadID, SendMessage, ReceiveReply,
              TimesOut, Return, Count, Invalidate, StoreId, server, clock
<1>5. ASSUME NEW c \in Coroutines, InsertTruckingLog(c)
      PROVE  Delivery!Make
  <2>1. /\ recorded < MaxLogs /\ recorded' = recorded + 1 /\ table' = table \cup {recorded + 1}
        /\ tim' = [tim EXCEPT ![recorded + 1] = fix[c]] /\ UNCHANGED copies
    BY <1>5 DEF InsertTruckingLog, server
  <2>2. recorded \in Nat /\ MaxLogs \in Nat
    BY <1>1, NaturalBounds DEF Typed, TypeOK
  <2>3. /\ recorded + 1 \in Logs \ (1 .. recorded)
        /\ \A k \in 1 .. recorded : k < recorded + 1
        /\ 1 .. recorded' = (1 .. recorded) \cup {recorded + 1}
    BY <2>1, <2>2 DEF Logs
  <2>4. fix[c] \in 0 .. MaxLogs
    BY <1>1 DEF Typed, TypeOK
  <2> QED
    BY <2>1, <2>3, <2>4 DEF Delivery!Make
<1>6. ASSUME NEW c \in Coroutines, DeleteTruckingLog(c)
      PROVE  Delivery!Forget \/ UNCHANGED <<table, recorded, tim, copies>>
  <2>1. /\ At(c, "delete") /\ UNCHANGED <<recorded, tim, copies>>
        /\ \/ table' = table
           \/ \E l \in sent[c].data : (\A k \in sent[c].data : tim[l] <= tim[k]) /\ table' = table \ {l}
    BY <1>6 DEF DeleteTruckingLog, server, clock
  <2>2. ASSUME NEW l \in sent[c].data, \A k \in sent[c].data : tim[l] <= tim[k], table' = table \ {l},
               l \in table
        PROVE  Delivery!Forget
    <3>1. OldestPart(sent[c].data)
      BY <1>1 DEF Pages
    <3>2. recorded \in Nat /\ 1 .. recorded \subseteq Logs /\ table \subseteq 1 .. recorded
      BY <1>1, NaturalBounds DEF Typed, TypeOK, Logs
    <3>3. l \in Nat /\ l \in Logs /\ table \subseteq Nat
      BY <2>2, <3>1, <3>2 DEF OldestPart
    <3>4. ASSUME NEW j \in table, Before(j, l)
          PROVE  FALSE
      <4>1. j \in sent[c].data
        BY <2>2, <3>1, <3>4 DEF OldestPart
      <4>2. tim[l] \in Int /\ tim[j] \in Int
        <5>1. tim \in [Logs -> 0 .. MaxLogs] /\ j \in Logs
          BY <1>1, <3>2 DEF Typed, TypeOK
        <5> QED
          BY <3>3, <5>1, NaturalBounds
      <4> QED
        BY <2>2, <3>4, <4>1, <4>2 DEF Before
    <3>5. {j \in table : j < l /\ tim[j] < tim[l]} = {}
      BY <3>4 DEF Before
    <3>6. l \in {k \in Logs : copies[k] > 0}
      BY <1>1, <2>1, <2>2, <3>3 DEF Apart, Vouched, Kept
    <3> QED
      BY <2>1, <2>2, <3>5, <3>6 DEF Delivery!Forget, Delivery!Older
  <2> QED
    BY <2>1, <2>2
<1>7. ASSUME NEW c \in Coroutines, Answer(c) \/ AnswerLost(c)
      PROVE  Delivery!Deliver \/ UNCHANGED Delivery!vars
  <2>1. UNCHANGED <<table, recorded, tim>> /\ InOrder(sent[c].data)
    BY <1>1, <1>7 DEF Answer, AnswerLost, Served, clock
  <2>2. (\E code \in Codes : Handled(sent[c], code)) \/ Abandoned(sent[c])
    BY <1>7 DEF Answer, AnswerLost
  <2> QED
    BY <1>1, <2>1, <2>2, Handles
<1>8. CASE HandleLate
  <2>1. PICK q \in late : (\E code \in Codes : Handled(q.request, code)) \/ Abandoned(q.request)
    BY <1>8 DEF HandleLate
  <2>2. UNCHANGED <<table, recorded, tim>> /\ InOrder(q.request.data)
    BY <1>1, <1>8 DEF HandleLate, phone, clock
  <2>3. Delivery!Deliver \/ UNCHANGED Delivery!vars
    BY <1>1, <2>1, <2>2, Handles
  <2> QED
    BY <2>3 DEF Delivery!Next
<1>9. CASE OnItemSelected \/ WriteToDisk \/ AppKilled \/ UNCHANGED vars
           \/ \E i \in Ids : ResetTrucker(i)
  BY <1>2, <1>9 DEF OnItemSelected, WriteToDisk, AppKilled, ResetTrucker, phone, server, clock, vars
<1> QED
  BY <1>2, <1>3, <1>4, <1>5, <1>6, <1>7, <1>8, <1>9 DEF Next, Delivery!Next

--------------------------------------------------------------------------------
(* Theorems *)

(* Beside IInv: a page holds with a record all that the record must not    *)
(* overtake in the table, and what it must not overtake at all is with it  *)
(* or has arrived.                                                         *)
THEOREM OrderInvariance == Spec => []RInv
<1>1. Init => Pages /\ Waiting
  BY DEF Init, Pages, OldestPart, Waiting, InOrder, NoRequest
<1>2. IInv /\ Pages /\ Waiting /\ [Next]_vars => Pages' /\ Waiting'
  BY PagesNext, WaitingNext DEF IInv
<1>3. RInv <=> IInv /\ Pages /\ Waiting
  BY DEF RInv
<1> QED
  BY <1>1, <1>2, <1>3, Invariance, PTL DEF Spec

LEMMA StartsEmpty == Init => Delivery!Init
BY DEF Init, Delivery!Init

(* However the coroutines interleave, in whatever order they insert the    *)
(* records and read their pages, and whatever is lost, late or killed:     *)
(* until calls of sendMessage overlap the table and the server take only   *)
(* steps of LogDelivery.                                                   *)
THEOREM DeliveredWhileApart == Spec => DeliversWhileApart
<1>1. RInv /\ [Next]_vars => [Delivery!Next \/ UNCHANGED Delivery!vars \/ "send" \in overlap]_vars
  BY NextDelivers
<1> QED
  BY <1>1, StartsEmpty, OrderInvariance, PTL DEF Spec, DeliversWhileApart

(* In a behaviour without such an overlap they keep its whole promise: a   *)
(* record is not forgotten before it is stored, and neither stored nor     *)
(* forgotten before one it must not overtake.                              *)
THEOREM DeliveryImplemented == Spec /\ []("send" \notin overlap) => ImplementsDelivery
<1>1. RInv /\ [Next]_vars /\ "send" \notin overlap => [Delivery!Next]_Delivery!vars
  BY NextDelivers
<1> QED
  BY <1>1, StartsEmpty, OrderInvariance, PTL DEF Spec, ImplementsDelivery, Delivery!Spec

================================================================================
