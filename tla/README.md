# Fleet tracker: verification project

TLA+ models, TLC runs and TLAPS proofs for the fleet tracker: an Android app that logs
where a truck drives (`src/TruckLogger`), a C++ server that takes the logs
(`src/fleet-io`), and an ASP.NET web application in which a manager looks after truckers
and trips (`src/FleetTracker`). The two servers share a MySQL database.

## 1. The system

| component | state | operations | interacts through |
|---|---|---|---|
| fleet-io event loop (`ssl_server.cpp`) | open sessions, each with a socket and a result buffer; one thread | accept, handshake, read and handle, write and delete | TLS connections of phones; constructs a request handler per request |
| fleet-io request handler (`request_handler.cpp`) | a MySQL connection and a query object, for one request | UPDATE_ID, VERIFY_ID, UPDATE_LOGS | SQL on `Trucker`, `TruckerLog`, `AspNetUsers` |
| database | `Trucker(ID, Verified, AndroidID, ...)`, `TruckerLog` | autocommitted statements | fleet-io and the web application |
| web application, forms (`AddTrucker.cshtml`, `SetRules.cshtml` with `jquery.validate` and `jquery.validate.unobtrusive`) | the rules of each input, which inputs were found wrong, the message spans | parse, onkeyup, onfocusout, form (submit), onError, onSuccess | posts to the fleet controller, which drops what does not bind |
| web application, fleet controller (`FleetController.cs`) | none between requests | AddTrucker, ResetTrucker, SetRules, ViewTrucker, ViewTrip | Entity Framework on the same tables |
| web application, trip algorithms (`ViewTruckerViewModel.cs`) | the queried logs of one page | AggregateNearbyLogs, FindStopPoints, AddSegment | called by ViewTrucker |
| phone, server connector (`ServerConnector.kt`) | socket, writer, reader, reply, response: fields of one shared object | sendMessage | TLS to fleet-io; called by every coroutine |
| phone, main repository (`MainRepository.kt`, `TruckLogDAO.kt`) | Room table of records, SharedPreferences, the shared appSettings | uploadLogs, updateID, fetchSettings, insert, delete | the connector |
| phone, tracking service (`TrackingService.kt`) | started, isTracking, isRunning, sensor axes | onStartCommand, processLocation, onSensorChanged | one coroutine per location calls the repository |
| phone, main activity (`MainActivity.kt`) | switch, labels, dialog | buttons, spinner, observers | commands to the service, coroutines on the repository |

What is hard in it, and so what the properties are about:

- **Two processes on the same rows.** A fleet-io handler executes several statements without
  a transaction while the web application reads a row and later writes all of it back.
- **Handlers that end in the middle.** A statement that fails throws `BadQuery`
  (`Connection(false)` silences the connection only: the `Query` is constructed with its
  exceptions on). `handle_request` catches it and answers PARSE_FAIL, and what it executed before
  stays: a registration no phone knows of, or the first rows of a batch that is sent again.
- **Records out of order.** Each location is inserted by a coroutine of its own, under the time of
  the location.
- **At-least-once delivery.** The phone deletes records after an OK; requests and replies are
  lost, or handled after the phone has given up, and the app or the server may be killed
  at any point.
- **Shared mutable fields under concurrent coroutines.** One connector and one `appSettings`
  serve every location, button and screen refresh.
- **Preferences written later.** `apply()` returns before the file is written.
- **Queries that are repeated.** The logs of a page are an `IQueryable`: the aggregation, each
  segment and the map query the table anew while phones upload rows, old ones too.
- **Feedback between switch and service.** Commands to the service travel as intents, its
  state comes back by a `LiveData`, and the observer moves the switch, whose listener takes that
  for another command of the user.
- **Checks at three moments.** An input is checked when a key, the focus or a submit says so; the
  value may have changed since without any of them, and before `parse` nothing is checked.

What makes each part correct: a trucker ID belongs to the device that registered it last,
until the manager resets it, and every stored row comes from that device (server and
database); a call returns the reply to its own request (connector); a record is on the phone
until the server has it, follows those made before it of an earlier time, and gets there in the
end (repository); the phone considers itself
registered exactly when the server does (repository and server); the trips of a page cover the
aggregated drive without gaps and count each row once (trip algorithms); at rest, screen and
service say the same, and a press of the switch made at rest decides (activity and service); the
message beside an input is about its present value, and what is posted satisfies the attributes
of the model (forms).

## 2. Modules

| module | models | extends / uses |
|---|---|---|
| `TruckerRegistry` | what server, database and web application promise together: an ID is free or held; a device takes a free one, the manager releases it, an admitted batch is stored row by row or abandoned | |
| `FleetIO` | event loop, request handler statement by statement, the two tables, AddTrucker and ResetTrucker | INSTANCE of `TruckerRegistry` with a refinement mapping |
| `FleetIO_proofs` | the theorems about `FleetIO` | EXTENDS `FleetIO`, TLAPS |
| `ServerConnector` | `sendMessage`, one field access per step, overlapping calls | |
| `ServerConnector_proofs` | the theorems about `ServerConnector` | EXTENDS `ServerConnector`, TLAPS |
| `MainRepository` | uploadLogs, updateID, fetchSettings, processLocation, the Room table, the preferences in memory and on disk, the server as one step per request | INSTANCE of `LogDelivery` with a refinement mapping |
| `LogDelivery` | what store-and-forward promises: a record is held until the server has stored it, once or more, and is stored and forgotten after those made before it of an earlier time | |
| `MainRepository_proofs` | the theorems about `MainRepository` | EXTENDS `MainRepository`, TLAPS |
| `MainRepository_refinement` | the theorems that `MainRepository` takes steps of `LogDelivery` and implements it | EXTENDS `MainRepository_proofs` |
| `MainRepository_exchange` | the theorems on forgotten registrations and on repeated storing | EXTENDS `MainRepository_proofs` |
| `TripSegmentation` | the page of ViewTrucker: AggregateNearbyLogs, FindStopPoints, AddSegment, and rows arriving between their queries | |
| `TripSegmentation_proofs` | the theorems about `TripSegmentation` | EXTENDS `TripSegmentation`, TLAPS |
| `TrackingControl` | the switch, its listener and observer, the service from CREATE to onDestroy, leaving, relaunch, permission, death of the process | |
| `TrackingControl_proofs` | the theorems about `TrackingControl` | EXTENDS `TrackingControl`, TLAPS |
| `FormValidation` | the forms AddTrucker and SetRules: from `data-val` attributes to rules, checks, messages, posts and what the controller drops | |
| `FormValidation_proofs` | the theorems about `FormValidation` | EXTENDS `FormValidation`, TLAPS |
| `MC...` | values, symmetry sets and batches for TLC | the module of that name |

### FleetIO

One action per completion handler of the event loop and one per SQL statement. `conn[s]`
is what the session's socket waits for; `active`, `at`, `job` and `rest` are the handler that
`handle_read` is in, its next statement, its request and the part of the batch not yet
inserted. The loop has one thread, so completions are taken only when no handler is
active (`LoopFree`); the web application's steps interleave with the statements. A
statement executes, or fails (`BadQuery`): the handler is left at once and the reply is
PARSE_FAIL, whatever it executed before. A failed connection leaves the constructor instead, and
`handle_read` writes the text OK (`BareOK`).
A request that is cut, malformed or lacks a member is the value `Unparsable`. An accept
that fails and an unknown request code change nothing and are left out.
`owner` and the `uuid` of a row of `TruckerLog` are history variables.

### ServerConnector

`sendMessage` line by line. Sockets, writers and readers are objects named after the call
that made them, and the fields refer to them: an overlapping call replaces the field and
the first call goes on with the objects of the second. The server reads a connection once and
answers the first request it finds in it; the reply may be lost, or be the text `OK` of a
server without a database. `overlapped` is a history variable.

### MainRepository

A coroutine's remaining work is a sequence of steps (`todo`). `fetchSettings` takes two steps,
because another coroutine may read `appSettings` between the assignments; `response` is the
connector's field, assigned when the reply is parsed and read when the call returns. A page is read
(`TakePage`), then the ID and the UUID of the request (`ReadID`, `SendMessage`), each in a step of
its own, so that a page may be old and a pair mixed when the request leaves. Records are numbered as
they are inserted; `fix` is the location a coroutine is at work on and `tim` the location a record
was made of, so that records of overlapping coroutines may be inserted in any order of `tim`, which
is the order of `getAllTruckLogs`. `WriteToDisk` is what `apply()` does later; `AppKilled` leaves
the table and the file. A request whose sender has given up stays in `late` and may be handled at
any later time, or never. The server handles a request in one step; that is what
`FleetIO_proofs!Refinement` justifies (the registry's state changes are single steps). What a
handler leaves that throws or is killed is `Abandoned`: nothing, the UPDATE of a registration, or a
prefix of the batch, answered with PARSE_FAIL or not at all. Other phones are not modelled; what
they do to this one's ID is contained in the manager's reset. Of `appSettings` the ID, UUID,
VERIFIED and the upload schedule are kept; the names shown on screen are not. `registered` (the
pairs of ID and UUID the server ever accepted) and `overlap` (whether two calls, or two calls of
`sendMessage`, ran at once) are history variables. The mapping to `LogDelivery`: `held` is the Room
table, `delivered` the records with a copy on the server.

### TripSegmentation

One action per query and per turn of a loop. `TruckerLogs` is evaluated wherever the code
evaluates it: `Count`, `ToList` (row by row), one query per `AddSegment`, one for the map;
`RowArrives`, of any time and place, may come between any two of them. `lst` is the list the
aggregation walks, `l` and `i` are the variables of the two loops, and a trip is a record of its pin,
its ends, the rows its query returned and its delay. Distances are a relation `Far` between
places, times are numbers; speeds, accelerations and their counts do not influence where
trips are cut and are left out of a segment.

### TrackingControl

`channel` holds the activity manager's orders for the app, `looper` the messages of its main
thread; `service` is the service object, `record` whether the activity manager believes there is
one. `postValue` keeps one message and replaces its value. `Observe` is the observer of
`isRunning`, which sets the switch and thereby may send a command itself. `leaked` are location
updates whose service object was destroyed. `Crash` is a kill of the app and the `TODO()` in
`onAccuracyChanged`, which throws. History variables: `wanted`, what the last press asked for;
`settled`, whether it was made at rest with neither a death of the process nor a new activity before its
outcome; `hasty`, whether any press or new activity ever came amid messages; `late`.

### FormValidation

A value is a class of texts that a rule, the browser or the binder tells apart. `rules` is what
`parse` put into the form's options, `submitted` and `invalid` are the validator's fields of that name,
`container` is the span of an input with its class and labels, `untold` a history variable: inputs
whose value changed without an event since they were checked. `Submit` is `form` with
what follows it: every element is checked with its present value, whatever earlier checks found.
Inputs of type number are given the class of what `.val()` returns for them.

## 3. Runs

| run | instance | shows |
|---|---|---|
| `fleetio_safety` | 2 sessions, 2 truckers, 2 devices, 1 web request, batches of 1 and 2 rows, 1 failed statement or kill | type and ownership invariants, exclusive registrations, attribution of rows, OK only for whole batches, no displacement, and the refinement of `TruckerRegistry` |
| `fleetio_live` | 2 sessions, no web application, 1 failed statement or kill | every request that was read is answered and its session deleted |
| `connector_calls` | 2 calls | own replies, and a return, unless calls overlap; no failure turns into a success |
| `phone_faults` | 1 coroutine, 2 records in one page, 3 UUIDs, 2 faults | VERIFIED agrees with the server through every pair of faults; the refinement of `LogDelivery` |
| `phone_overlap` | 2 coroutines, 1 record, 1 fault | nothing is lost, and copies are bounded, unless exchanges overlap |
| `phone_order` | 2 coroutines, 2 records, both schedules, pages of 1 | each step is one of `LogDelivery` until exchanges overlap, records inserted out of order included |
| `phone_live` | 1 coroutine, 1 record, 4 UUIDs, 1 fault | every record is delivered |
| `phone_lost` | 2 coroutines, 1 record | finding: overlapping exchanges lose a record |
| `trips` | every drive of 7 seconds over 3 places, a row or none per second, 1 row that arrives | aggregation, cuts, counts, and that `AddSegment` finds rows for each trip |
| `tracking` | 4 presses, 1 departure, 1 crash | screen and service agree at rest, locations are recorded while the switch is on, no leak without haste; a press made at rest decides |
| `tracking_leak` | 3 presses | finding: IDLE on the screen and locations recorded |
| `form` | both forms with their attributes, 2 to 5 classes of values per input | one message per input, about its present value; what is posted satisfies the attributes; what the controller drops |

**Bounds.** Failures are counted (`MaxFaults`): a run explores every place at
which that many can strike. `MaxRows` and `MaxLogs` end the supply of batches and records;
two of each give pages and prefixes shorter than a batch (LIMIT 70 becomes 1 or 2, the 20
records of the hourly schedule 0 or 1). Two devices, two sessions and one web request are the
fewest with which a reset falls between the statements of a registration or a batch while
another device waits for the ID. Two overlapping calls suffice for a wrong reply, and two coroutines
with a record each for one that is inserted after a newer one has left. `MaxCopies` is
above what `CopiesBounded` allows, so that it never hides a violation. UUIDs that have
disappeared from everywhere are used again, which bounds them without bounding
registrations. Seven seconds over three places with `STOP_TIME` 2 hold two stops, and a spike between
them, and a place that is near both others; one arriving row, of any time and place, can fall
into any trip or between two. Three presses suffice for the leak; the fourth lets the effects
of it reach the screen again.
A call runs once, and presses, departures and crashes are counted: the runs `connector_calls`,
`tracking` and `tracking_leak` may stop and do not check deadlock; all others do.

**Fairness.** `FleetIO`: weak fairness of the handler's steps (a MySQL call returns, with rows or an
error); strong fairness of each session's write, which completes whatever the peer does (a reply
fits the buffer of the socket) and which the loop takes in its turn although it is busy in between.
Nothing is assumed of a handshake or a read: the server sets no timeout, and a session whose peer
falls silent stays, so that `RequestsAnswered` begins when a request was read. `ServerConnector`:
weak fairness of each call, none of the server: the timeout is what ends a call. `TrackingControl`:
weak fairness of the activity manager (it hands over its orders) and of the main thread (it handles
its messages); nothing of the user. `MainRepository`: weak fairness of coroutines, of answers that
are not lost, and of the write of the preferences. The rest concerns people and is an assumption
about them, not about the code: uploads are attempted again and again, the driver enters the ID
again while it is crossed out, the manager resets the IDs he is asked about, and from some time on
the driver leaves a verified ID alone and the manager resets only on request. Without the last two
no record is ever delivered for good: each re-registration needs a reset and each reset invalidates
a registration. `TripSegmentation` and `FormValidation` state no liveness.

## 4. Findings

Two runs end in a violation, each of a statement in the report (`src/docs/report/report`),
which PROJECT.json quotes:

- `phone_lost`: `response` is a field all coroutines assign; the OK of one call makes another
  delete records the server never got.
- `tracking_leak`: `onDestroy` removes no location updates. A STOP the observer caused, followed
  by a START before the object is destroyed, leaves updates registered under an IDLE screen.

The models show three more departures that no run repeats, because other properties state their
limits. A server without a database answers with the text OK, which is no result code
(`BareOK` in `ServerConnector`; `RepliesWereHandled` says it never becomes a success). Overlapping
calls of `sendMessage` return each other's replies (`OwnReplyUnlessOverlapped` names the
condition). A press of the switch amid messages may be undone by the value under way, or set off
commands and values that undo each other without end; `LastToggleWins` is about presses made at rest
(without `settled` in its condition, TLC shows both).

## 5. Proofs

All theorems hold for every value of the constants, under the assumptions named in the modules,
which TLC evaluates in the runs. Two of these say more than what kind of value a constant is:
`FinitelyManyCoroutines`, and `ModelBehindInput` in `FormValidation`, that the attributes and the
type of an input let a text through which the binder refuses only if it is of blanks, a fraction or
too large. The tag helpers derive both from the property the binder reads too.

| module | theorem | property |
|---|---|---|
| `FleetIO_proofs` | `Invariance` | `IInv` is an invariant |
| | `TypeCorrect` | `TypeOK` |
| | `VerifiedIsOwner` | `HolderIsOwner`: a verified row names the device whose registration committed last |
| | `ExclusiveClaim` | `ClaimIsExclusive`: nobody verifies a row between the check and the update of a registration |
| | `BatchIsOwners` | `BatchFromOwner` |
| | `AcknowledgedMeansStored` | `AcknowledgedLogsStored`: OK only when every row of the batch is in the table |
| | `RowsComeFromOwner` | `[][...]`: each stored row comes from the owner of its ID |
| | `NeverDisplaced` | `[][...]`: a verified device loses its ID only to a reset |
| | `Refinement` | `Spec` implements the specification of `TruckerRegistry` |
| `ServerConnector_proofs` | `Invariance`, `TypeCorrect` | `IInv`, `TypeOK` |
| | `LoneCallsGetTheirOwnReply` | `OwnReplyUnlessOverlapped` |
| | `NoFailureBecomesSuccess` | `RepliesWereHandled` |
| `MainRepository_proofs` | `Invariance`, `TypeCorrect` | `IInv`, `TypeOK` |
| | `NeverLost` | `NothingLost` |
| | `VerifiedImpliesRegistered` | `VerifiedIsBacked` |
| `MainRepository_refinement` | `OrderInvariance` | `RInv` |
| | `DeliveredWhileApart` | `DeliversWhileApart`: steps of `LogDelivery` until calls of `sendMessage` overlap |
| | `DeliveryImplemented` | `ImplementsDelivery`, in behaviours without such an overlap |
| `MainRepository_exchange` | `RegistrationNotForgotten` | `Recognised` |
| | `StoredNoOftener` | `CopiesBounded` |
| `TripSegmentation_proofs` | `Invariance`, `TypeCorrect` | `IInv`, `TypeOK` |
| | `NeighboursApart`, `NoSpikes` | `AggregatedApart`, `SpikesLeftOut` |
| | `CutAtStops` | `SegmentsAreTrips` |
| | `NothingMissed`, `NothingCountedTwice` | `NoRowMissed`, `CountedOnce` |
| | `AlwaysRenders` | `PageRenders`: no query of `AddSegment` is empty |
| `TrackingControl_proofs` | `Invariance`, `TypeCorrect` | `IInv`, `TypeOK` |
| | `ScreenAgrees` | `UIAgreesAtRest` |
| | `RecordsWhileOn` | `LogsWhileOn` |
| | `NoLeakWithoutHaste` | `NoLeakUnlessHasty` |
| `FormValidation_proofs` | `Invariance`, `TypeCorrect` | `IInv`, `TypeOK` |
| | `OneMessagePerInput` | `OneMessage` |
| | `ErrorsAreCurrent` | `ErrorIsCurrent` |
| | `PostedIsValid` | `PostedSatisfiesRules` |
| | `DropsAreUnseen` | `DroppedOnlyUnseen` |

Each proof has one step per action and under it one per conjunct the action can disturb.

**FleetIO.** `HolderIsOwner` alone is not inductive. ResetTrucker writes back an
`AndroidID` that may be stale, which is harmless only because the same statement clears
`Verified`; a registration relies on nobody having verified the row since its SELECT, which
holds because the only other writer of `Verified` is the reset and only one handler is
active; and a row inserted late in a batch belongs to a device that may by then have been
reset, so attribution is about `owner`, which only a committed registration changes, and the
loop can be in no other handler while the batch is inserted. `IInv` is the conjunction of
those facts, the shape of the loop (`LoopShape`) and the position of the batch in the table
(`RestIsSuffix`, `BatchContiguous`), which is there because a statement that fails leaves the
handler. The refinement maps an ID's holder to
`AndroidID` where `Verified`, an admitted batch to the handler in its inserts, and shows each
statement to be one step of the registry or a stutter.

**ServerConnector.** A call that runs alone relies on three fields that any call may assign.
`Together` says that two calls under way have both overlapped, so what a lone call finds
in a field it put there itself (`Own`, `Fields`): its socket, the writer and reader of that socket
(`Streams`). Hence its objects have carried its request only, and the line it reads and the reply
it parses are its own (`Alone`). A reply in any field, of a lone call or not, is of a request that was
handled (`RepliesBacked`), for the server writes a line only then.

**MainRepository.** Losing no record depends on what an OK stands for. What a coroutine has left to do
is the rest of one of the functions (`Plans`, which says where a `delete` or a `store` can come
from). While calls of `sendMessage` do not overlap there is one sender (`OneSender`), so that
`response` is the answer to the request of the coroutine that reads it, and an OK that is read, returned
or acted upon is backed: every record of that page has a copy on the server, or the pair
of that request was registered (`Vouched`). The preferences in memory and on disk therefore hold
VERIFIED only with a registered pair (`BackedSettings`), a kill included, and a `delete` removes only
records that are stored.

The refinement adds the order. A record must not overtake one that was inserted before it and is of an
earlier time (`Before`); one that is inserted when a newer one has left is free. A page, and what is
left of it while it is deleted, has with a record all it must not overtake in the table (`Pages`),
since `getAllTruckLogs` and the deletion both go by `tim` and a record inserted meanwhile is a later one.
Whatever a record of a page or a request must not overtake is in that request too or on the
server (`Waiting`): a record leaves the table only by a deletion that an OK vouches for. Each step is
then a step of `LogDelivery` or a stutter. Once two calls of `sendMessage` overlap
the theorems say nothing more of that behaviour; `phone_lost` shows why.

`MainRepository_exchange` adds two invariants to `IInv`. `Apprised` is about a phone that makes one
call at a time. The server comes to recognise a pair only by handling a registration, so a
registration that is under way, or given up and not yet handled, must have a UUID that neither the
preferences nor the file have (`Claim`, `LateClaims`); it enters the preferences together with
VERIFIED, and only after the reply said that no such request is left. A refusal clears VERIFIED
later than the server gave it, and is justified because the pair it was about is still that of
the preferences (`Mirrored`, and `Aware`'s last conjunct) and nothing handled since can have been
for it. Hence a pair the server recognises is one with VERIFIED (`Known`), in memory and in the file.

`Counted` is the bookkeeping behind `CopiesBounded`. The rows of a record, and those that pages
already read and requests under way or given up may still add, are `Due`. A row that is paid for by
no fault belongs to a coroutine that holds the record and will delete it, as long as the record is
in the table; once it has been deleted nobody sends it again. A fault gives nothing new to store,
but takes the record from every coroutine that held it, and so leaves up to one row for each unpaid.
Each step is of one of four kinds (`CostsAFault`, `Steady`, `TakesUp`, `LetsGo`), and
`WithinAllowance` does the arithmetic for all of them.

**TripSegmentation.** Rows are never deleted and the list is in the order of time (`Sorted`), so a
later query between the times of two of its rows returns every row of the list between
them: `TripsWhole`. The ends of a trip lie after the end of the one before by more than `STOP_TIME`
(`TripsApart`), so that no arriving row falls into two. The loops never pass the list's
ends (`Loops`), which is why no query of `AddSegment` is empty. `Aggregating` says of the first loop
that a row skipped so far lies near the entry it follows; `Cutting` says of the second that the
segments cut so far end at the gaps found so far and that none lies behind `startLog`. At the
loops' ends these are `SpikesLeftOut` and `SegmentsAreTrips`.

**TrackingControl.** What is under way is one sequence, the `Line`: the messages of the main thread,
then the activity manager's orders. Posting a value inserts a message between the two, a crash
leaves the orders to be redelivered; lemmas on sequences say what of the order survives
(`OrdersTail`, `OrdersInserted` and the like). At most one service is on the way to be made and one
to be destroyed, the older first (`OneAtATime`), and every command reaches a service
(`Addressed`). The value `isRunning` has, or will have once what was posted is set, is that of the
service (`Followed`). The switch may differ from the service, but then something is under way that
will post, so that the observer corrects it (`Repaired`): nothing is under way at rest, and
screen and service agree. While the user waits for what he asked for, what is under way says what the
switch does and no start follows a stop (`InStep`), and only a start that follows a stop
finds the updates of a service about to be destroyed.

**FormValidation.** `onError` takes the errorClass from the label it places, by which
`showLabel` would find it next time. So none is ever found (`ShownIsShowing`) and each message is
a new one in an emptied container: what a check shows depends on the value alone
(`Showing`). `Checked` says what a check of a set of inputs does to the rest of the page and
serves keys, focus and submit alike; that a ready page has the rules of its attributes
(`Parsed`) gives `PostedSatisfiesRules`. `Vetted` adds the rule of the type number and what the
controller saves, from which `DroppedOnlyUnseen` follows with `ModelBehindInput`.

Only model-checked: liveness (`RequestsAnswered`, `CallsReturnUnlessOverlapped`,
`EventuallyDelivered`, `LastToggleWins`), which is out of the prover's reach, as it needs ENABLED.
Every invariant and every safety property of steps that a passing run checks is a theorem.

## 6. Plan

Done: `TruckerRegistry`, `FleetIO`, `ServerConnector`, `MainRepository`, `LogDelivery`,
`TripSegmentation`, `TrackingControl`, `FormValidation`, and the proofs above.

Left, in this order:

1. The composition of several phones with `FleetIO` statement by statement, if a state space for
   two devices can be had.
2. Lemmas towards the liveness properties that need no ENABLED: that a step of a call shortens what
   is left of it, and that a redelivered order is handled once.

A module for the sensor axes and the conversion of speeds was planned and dropped: no
decision of the program depends on those values, so that it would repeat three assignments.

## 7. Not modelled, and why

- TLS, the size of records and buffers: pure I/O; a request that does not arrive whole is
  `Unparsable`.
- The page of one trip (`ViewTrip`): a single query with strict bounds, which keeps nothing. It leaves out
  the rows at both ends, and fails when a trip has no others; no document says it should not.
- ASP.NET Identity, routing, start-up, style sheets: configuration and presentation. The
  thresholds SetRules saves are read only to count accelerations on a page.
- Of `jquery.validate` and its unobtrusive adapter: adapters of attributes that no model of the
  application carries (compare, remote, regex, length, range, password, file types), validation summaries, and
  `onReset`, since no form has a reset button. `site.js` holds only comments.
- The other vendored libraries (jQuery itself, Bootstrap), migrations, the APK and the
  database dump: generated or third-party.
- The axes of the sensor, `MPS_TO_KMH`, the notification, toasts and labels: payload and formatting.
- Memory: the connection that leaks when the handler's constructor throws, and sockets the
  phone leaves to the collector.
- Clock and time zone: a time is a number; the strict bounds at both midnights are in
  `TripSegmentation`'s query, a row stamped exactly at one in no run.
