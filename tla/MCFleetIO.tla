------------------------------- MODULE MCFleetIO -------------------------------
(* Instances of FleetIO for TLC. *)
EXTENDS FleetIO, TLC

CONSTANTS l1, l2

(* A batch of one and a batch of two, whose first logs differ. *)
MCBatches == {<<l2>>, <<l1, l2>>}

(* Sessions, truckers, devices and web requests are interchangeable. *)
Symmetry ==
    Permutations(Sessions) \cup Permutations(Truckers) \cup Permutations(Uuids)
        \cup Permutations(WebRequests)

================================================================================
