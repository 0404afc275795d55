-------------------------- MODULE MCTripSegmentation --------------------------
(* Instances of TripSegmentation for TLC. *)
EXTENDS TripSegmentation

CONSTANT Length   \* bound: the seconds of a drive

MCPlaces == 0 .. 2

(* Places on a road; a neighbour is near. *)
MCFar == {p \in MCPlaces \X MCPlaces : p[1] - p[2] > 1 \/ p[2] - p[1] > 1}

MCTimes == 1 .. Length

(* Every drive in which a second has a row or none; IDs in order of time. *)
Drives == [MCTimes -> MCPlaces \cup {Null}]

MCTables ==
    {{[id |-> Cardinality({u \in 1 .. t : d[u] # Null}), time |-> t, place |-> d[t]]
        : t \in {u \in MCTimes : d[u] # Null}} : d \in Drives}

================================================================================
