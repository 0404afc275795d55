---------------------------- MODULE TruckerRegistry ----------------------------
(***************************************************************************)
(* What fleet-io and the manager's web pages together promise about the    *)
(* Trucker and TruckerLog tables, with no sessions, statements, failures   *)
(* or concurrency in it:                                                   *)
(*                                                                         *)
(*   - a trucker ID is held by at most one device; a device takes an ID    *)
(*     only while nobody holds it, and only a manager releases it;         *)
(*   - logs are stored for an ID only out of a batch that was admitted     *)
(*     while its sender held the ID, one batch at a time, in the order of  *)
(*     the batch and without a gap.                                        *)
(*                                                                         *)
(* A batch may be cut short at any point (Abandon), and a batch that was   *)
(* admitted keeps being stored after the manager released the ID.          *)
(* FleetIO implements this specification; see FleetIO!Registry.            *)
(***************************************************************************)
EXTENDS Sequences

CONSTANTS
    Truckers,   \* IDs of Trucker rows
    Uuids,      \* device UUIDs
    Logs,       \* contents of a log record
    Batches,    \* the batches devices send: sequences of Logs
    Nobody      \* the holder of an ID that no verified device has

VARIABLES
    holder,     \* ID -> the device that holds it, or Nobody
    admitted,   \* the batch being stored: {} or one [id, uuid, rest]
    rows        \* the stored logs, oldest first: [TruckerID, uuid, log]

registryVars == <<holder, admitted, rows>>

Init ==
    /\ holder = [t \in Truckers |-> Nobody]
    /\ admitted = {}
    /\ rows = <<>>

Take(t, u) ==
    /\ holder[t] = Nobody
    /\ holder' = [holder EXCEPT ![t] = u]
    /\ UNCHANGED <<admitted, rows>>

Release(t) ==
    /\ holder' = [holder EXCEPT ![t] = Nobody]
    /\ UNCHANGED <<admitted, rows>>

Admit(t, u, batch) ==
    /\ admitted = {}
    /\ holder[t] = u
    /\ admitted' = {[id |-> t, uuid |-> u, rest |-> batch]}
    /\ UNCHANGED <<holder, rows>>

Store(b) ==
    /\ b.rest # <<>>
    /\ rows' = Append(rows, [TruckerID |-> b.id, uuid |-> b.uuid, log |-> Head(b.rest)])
    /\ admitted' = {[b EXCEPT !.rest = Tail(b.rest)]}
    /\ UNCHANGED holder

Abandon ==
    /\ admitted' = {}
    /\ UNCHANGED <<holder, rows>>

Next ==
    \/ \E t \in Truckers, u \in Uuids : Take(t, u)
    \/ \E t \in Truckers : Release(t)
    \/ \E t \in Truckers, u \in Uuids, batch \in Batches : Admit(t, u, batch)
    \/ \E b \in admitted : Store(b)
    \/ Abandon

Spec == Init /\ [][Next]_registryVars

================================================================================
