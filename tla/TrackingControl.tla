---------------------------- MODULE TrackingControl ----------------------------
(***************************************************************************)
(* The switch of MainActivity and the TrackingService it starts and stops. *)
(*                                                                         *)
(* Commands travel as intents: startService and stopSelf are calls to the  *)
(* activity manager, whose orders reach the main thread of the app in      *)
(* their sequence but later.  What the service posts to the LiveData       *)
(* isRunning is delivered by the main thread too, and the observer sets    *)
(* the switch, whose listener takes every change for a wish of the user.   *)
(***************************************************************************)
EXTENDS Naturals, Sequences, FiniteSets, SequencesExt

CONSTANTS
    MaxToggles,   \* bound: presses of the switch
    MaxDepartures,\* bound: times the user leaves the activity
    MaxCrashes,   \* bound: deaths of the process
    Unset         \* no value

ASSUME Bounds == MaxToggles \in Nat /\ MaxDepartures \in Nat /\ MaxCrashes \in Nat
ASSUME UnsetIsNoBoolean == Unset \notin BOOLEAN

VARIABLES
    ui,         \* the activity: shown, hidden, or dead with its process
    switch,     \* switchStatus.isChecked; of a hidden activity, what it saved
    viewStatus, \* "RUNNING" or "IDLE"
    isRunning,  \* the value of the LiveData
    pending,    \* the value that was posted to it last and is not set yet
    unseen,     \* the value was set while the activity was hidden
    record,     \* the activity manager has a TrackingService for the app
    channel,    \* its orders on their way to the app
    looper,     \* messages of the main thread
    service,    \* the TrackingService object, if there is one
    leaked,     \* updates registered by an object that was destroyed
    permission, \* hasLocationPermissions
    wanted,     \* history: what the last press of the switch asked for
    settled,    \* history: it was made at rest, and neither the death of the
                \* process nor a new activity came between it and its outcome
    hasty,      \* history: the user did not wait until the app was at rest
    late,       \* history: the permission was granted to a service at work
    count       \* toggles, departures and crashes, for the bounds

screen == <<ui, switch, viewStatus>>
live == <<isRunning, pending, unseen>>
orders == <<record, channel>>
tracking == <<service, leaked>>
history == <<wanted, settled, hasty, late, count>>
vars == <<screen, live, orders, looper, tracking, permission, history>>

NoService == [exists |-> FALSE, started |-> FALSE, isTracking |-> FALSE, registered |-> FALSE]
NewService == [NoService EXCEPT !.exists = TRUE]

Busy == looper # <<>> \/ channel # <<>>
Rest == ui = "shown" /\ ~Busy

Init ==
    /\ ui = "shown" /\ switch = FALSE /\ viewStatus = "IDLE"
    /\ isRunning = Unset /\ pending = Unset /\ unseen = FALSE
    /\ record = FALSE /\ channel = <<>> /\ looper = <<>>
    /\ service = NoService /\ leaked = FALSE
    /\ permission \in BOOLEAN
    /\ wanted = FALSE /\ settled = TRUE /\ hasty = FALSE /\ late = FALSE
    /\ count = [toggles |-> 0, departures |-> 0, crashes |-> 0]

--------------------------------------------------------------------------------
(* MainActivity *)

Command(checked) == IF checked THEN "START" ELSE "STOP"

(* startService for each command: the activity manager has the service     *)
(* created unless it runs already.                                         *)
SendCommands(commands) ==
    /\ record' = (record \/ commands # <<>>)
    /\ channel' = channel \o (IF record \/ commands = <<>> THEN <<>> ELSE <<"CREATE">>)
                          \o commands

(* The listener is called when the switch changes. *)
Changes(from, to) == IF from = to THEN <<>> ELSE <<Command(to)>>

(* The observer of isRunning. *)
Observe(running) ==
    /\ switch' = running
    /\ viewStatus' = IF running THEN "RUNNING" ELSE "IDLE"
    /\ SendCommands(Changes(switch, running))

Toggle ==
    /\ ui = "shown" /\ count.toggles < MaxToggles
    /\ switch' = ~switch
    /\ SendCommands(<<Command(~switch)>>)
    /\ wanted' = ~switch /\ settled' = ~Busy
    /\ hasty' = (hasty \/ Busy)
    /\ count' = [count EXCEPT !.toggles = @ + 1]
    /\ UNCHANGED <<ui, viewStatus, live, looper, tracking, permission, late>>

Leave ==
    /\ ui = "shown" /\ count.departures < MaxDepartures
    /\ ui' = "hidden"
    /\ count' = [count EXCEPT !.departures = @ + 1]
    /\ UNCHANGED <<switch, viewStatus, live, orders, looper, tracking, permission,
                   wanted, settled, hasty, late>>

(* A LiveData tells an observer that becomes active what it missed. *)
Return ==
    /\ ui = "hidden"
    /\ ui' = "shown"
    /\ unseen' = FALSE
    /\ IF unseen THEN Observe(isRunning) ELSE UNCHANGED <<switch, viewStatus, orders>>
    /\ UNCHANGED <<isRunning, pending, looper, tracking, permission, history>>

(* A new object of the activity: the observer is told the value, then the  *)
(* saved state, if any, is restored to the switch.                         *)
Relaunch ==
    /\ ui # "shown"
    /\ \E restored \in BOOLEAN :
         LET told == isRunning = TRUE
             now == IF restored THEN switch ELSE told
         IN  /\ switch' = now
             /\ SendCommands(Changes(FALSE, told) \o Changes(told, now))
             /\ viewStatus' = IF told THEN "RUNNING" ELSE "IDLE"
    /\ ui' = "shown"
    /\ unseen' = FALSE
    /\ settled' = (settled /\ ~Busy)
    /\ hasty' = (hasty \/ Busy)
    /\ UNCHANGED <<isRunning, pending, looper, tracking, permission, wanted, late, count>>

(* The request of onCreate is granted; nobody tells the service. *)
GrantPermission ==
    /\ ~permission
    /\ permission' = TRUE
    /\ late' = (service.started \/ Busy)
    /\ UNCHANGED <<screen, live, orders, looper, tracking, wanted, settled, hasty, count>>

--------------------------------------------------------------------------------
(* TrackingService, on the main thread *)

(* Mutant: every value has a message of its own. *)
PostAlways(value) == pending' = value /\ looper' = Append(Tail(looper), "DELIVER")

(* postValue: a value that is not delivered yet is replaced. *)
PostValue(value) ==
    /\ pending' = value
    /\ looper' = IF pending = Unset THEN Append(Tail(looper), "DELIVER") ELSE Tail(looper)

(* The next message of the main thread. *)
Message(m) == looper # <<>> /\ Head(looper) = m

Arrive ==
    /\ channel # <<>>
    /\ looper' = Append(looper, Head(channel))
    /\ channel' = Tail(channel)
    /\ UNCHANGED <<screen, live, record, tracking, permission, history>>

OnCreate ==
    /\ Message("CREATE")
    /\ looper' = Tail(looper)
    /\ service' = NewService
    /\ UNCHANGED <<screen, live, orders, leaked, permission, history>>

(* Mutant: isTracking is set too late for updateTracking. *)
StartTrackingLate ==
    /\ Message("START")
    /\ IF service.started
       THEN looper' = Tail(looper) /\ UNCHANGED <<pending, service>>
       ELSE /\ service' = [service EXCEPT !.started = TRUE, !.isTracking = TRUE]
            /\ PostValue(TRUE)
    /\ UNCHANGED <<screen, isRunning, unseen, orders, leaked, permission, history>>

(* ACTION_START_SERVICE and updateTracking. *)
StartTracking ==
    /\ Message("START")
    /\ IF service.started
       THEN looper' = Tail(looper) /\ UNCHANGED <<pending, service>>
       ELSE /\ service' = [service EXCEPT !.started = TRUE, !.isTracking = TRUE,
                                          !.registered = permission]
            /\ PostValue(TRUE)
    /\ UNCHANGED <<screen, isRunning, unseen, orders, leaked, permission, history>>

(* stopSelf counts for the activity manager unless it has given up this    *)
(* object already, or has asked for another one.                           *)
StopSelf ==
    IF record /\ "CREATE" \notin Range(looper \o channel)
    THEN record' = FALSE /\ channel' = Append(channel, "DESTROY")
    ELSE UNCHANGED orders

(* Mutant: updateTracking before isTracking is false. *)
StopTrackingLate ==
    /\ Message("STOP")
    /\ service' = [service EXCEPT !.isTracking = FALSE,
                                  !.registered = service.isTracking /\ permission]
    /\ PostValue(FALSE)
    /\ StopSelf
    /\ UNCHANGED <<screen, isRunning, unseen, leaked, permission, history>>

(* Mutant: the service is not stopped. *)
StopTrackingStays ==
    /\ Message("STOP")
    /\ service' = [service EXCEPT !.isTracking = FALSE, !.registered = FALSE]
    /\ PostValue(FALSE)
    /\ UNCHANGED <<screen, isRunning, unseen, orders, leaked, permission, history>>

(* ACTION_STOP_SERVICE and updateTracking. *)
StopTracking ==
    /\ Message("STOP")
    /\ service' = [service EXCEPT !.isTracking = FALSE, !.registered = FALSE]
    /\ PostValue(FALSE)
    /\ StopSelf
    /\ UNCHANGED <<screen, isRunning, unseen, leaked, permission, history>>

(* The intent of a service that is restarted after a crash is null. *)
RestartedIdle ==
    /\ Message("NULL")
    /\ looper' = Tail(looper)
    /\ UNCHANGED <<screen, live, orders, tracking, permission, history>>

(* Mutant: isRunning is left to the STOP. *)
OnDestroySilent ==
    /\ Message("DESTROY")
    /\ looper' = Tail(looper)
    /\ leaked' = (leaked \/ service.registered)
    /\ service' = NoService
    /\ UNCHANGED <<screen, live, orders, permission, history>>

(* onDestroy removes no updates. *)
OnDestroy ==
    /\ Message("DESTROY")
    /\ leaked' = (leaked \/ service.registered)
    /\ service' = NoService
    /\ PostValue(FALSE)
    /\ UNCHANGED <<screen, isRunning, unseen, orders, permission, history>>

(* The posted value is set; observers that are active are told. *)
Deliver ==
    /\ Message("DELIVER")
    /\ looper' = Tail(looper)
    /\ isRunning' = pending /\ pending' = Unset
    /\ IF ui = "shown" THEN Observe(pending) /\ UNCHANGED unseen
       ELSE unseen' = TRUE /\ UNCHANGED <<switch, viewStatus, orders>>
    /\ UNCHANGED <<ui, tracking, permission, history>>

--------------------------------------------------------------------------------
(* The end of the process *)

(* The entries of q at the positions P, in their order.                    *)
Entries(q, P) ==
    [k \in 1 .. Cardinality(P) |->
        q[CHOOSE n \in P : Cardinality({m \in P : m < n}) = k - 1]]

(* Commands for the service of the record that were not handled: those for *)
(* the one before it are forgotten with its DESTROY.                       *)
Unhandled ==
    LET all == looper \o channel
    IN  Entries(all, {n \in DOMAIN all :
                        /\ all[n] \in {"START", "STOP"}
                        /\ \A d \in n .. Len(all) : all[d] # "DESTROY"})

(* The activity manager restarts a sticky service with the commands it had *)
(* not handled, or else with a null intent.                                *)
Crash ==
    /\ count.crashes < MaxCrashes
    /\ ui' = "dead" /\ viewStatus' = "IDLE"
    /\ isRunning' = Unset /\ pending' = Unset /\ unseen' = FALSE
    /\ looper' = <<>>
    /\ channel' = IF ~record THEN <<>>
                  ELSE <<"CREATE">> \o IF Unhandled = <<>> THEN <<"NULL">> ELSE Unhandled
    /\ service' = NoService /\ leaked' = FALSE
    /\ settled' = FALSE
    /\ count' = [count EXCEPT !.crashes = @ + 1]
    /\ UNCHANGED <<switch, record, permission, wanted, hasty, late>>

(* onAccuracyChanged is TODO(), which throws. *)
OnAccuracyChanged == (service.registered \/ leaked) /\ Crash

AppKilled == Crash

--------------------------------------------------------------------------------
HandleMessage ==
    \/ OnCreate \/ StartTracking \/ StopTracking \/ RestartedIdle \/ OnDestroy
    \/ Deliver

Next ==
    \/ Toggle \/ Leave \/ Return \/ Relaunch \/ GrantPermission
    \/ Arrive \/ HandleMessage
    \/ OnAccuracyChanged \/ AppKilled

(* The activity manager hands its orders over and the main thread handles  *)
(* its messages; the user does as he pleases.                              *)
Fairness == WF_vars(Arrive) /\ WF_vars(HandleMessage)

Spec == Init /\ [][Next]_vars /\ Fairness

--------------------------------------------------------------------------------
(* Properties *)

Messages == {"CREATE", "START", "STOP", "NULL", "DESTROY"}

TypeOK ==
    /\ ui \in {"shown", "hidden", "dead"} /\ viewStatus \in {"RUNNING", "IDLE"}
    /\ {switch, unseen, record, leaked, permission} \subseteq BOOLEAN
    /\ {wanted, settled, hasty, late} \subseteq BOOLEAN
    /\ {isRunning, pending} \subseteq BOOLEAN \cup {Unset}
    /\ looper \in Seq(Messages \cup {"DELIVER"}) /\ channel \in Seq(Messages)
    /\ pending # Unset <=> "DELIVER" \in Range(looper)
    /\ service \in [exists : BOOLEAN, started : BOOLEAN, isTracking : BOOLEAN,
                    registered : BOOLEAN]
    /\ count \in [toggles : 0 .. MaxToggles, departures : 0 .. MaxDepartures,
                  crashes : 0 .. MaxCrashes]

(* Whatever the user did, once all messages are handled the switch, the    *)
(* text beside it and the service say the same: the feedback through       *)
(* isRunning repairs what crossed.                                         *)
UIAgreesAtRest ==
    Rest => /\ switch <=> viewStatus = "RUNNING"
            /\ switch <=> service.isTracking
            /\ service.started => service.isTracking

(* While the switch is on locations are recorded, unless the permission    *)
(* came when the service had already been started without it.              *)
LogsWhileOn == Rest /\ switch /\ permission /\ ~late => service.registered

(* Updates outlive their service only if the user did not wait for the     *)
(* outcome of a command, or turned the device meanwhile.                   *)
NoLeakUnlessHasty == leaked => hasty

(* A press of the switch made at rest decides whether the device tracks, if *)
(* no other follows it: the commands and values it sets off come to an end, *)
(* with the switch and the service where the user put them.  A press amid   *)
(* messages has no such outcome (the value under way turns into a command   *)
(* against it), nor has one whose process dies: nothing starts the service  *)
(* for it again.  Later presses made at rest are covered once more.         *)
LastToggleWins ==
    <>[](ui = "shown" /\ settled => Rest /\ switch = wanted /\ service.isTracking = wanted)

(* implementation.tex:44-45, of the idle state: "The application performs  *)
(* no logging in this state."                                              *)
IdleMeansNoLogging == Rest /\ viewStatus = "IDLE" => ~service.registered /\ ~leaked

================================================================================
