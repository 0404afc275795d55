------------------------------ MODULE LogDelivery ------------------------------
(***************************************************************************)
(* What the phone's store-and-forward promises of its log records, whatever*)
(* happens to the messages, the app and the server in between: a record is *)
(* held from the moment it is made until the server has stored it, and the *)
(* server has then stored every record that was made before it of an       *)
(* earlier time; records are forgotten in the same order.  A record that is*)
(* made when a newer one has already left is stored after it.  How often a *)
(* record is stored is left open.                                          *)
(***************************************************************************)
EXTENDS Naturals

CONSTANTS
    Records,     \* natural numbers, in the order the records are made
    Times        \* natural numbers, the times their locations can have

VARIABLES
    made,        \* the records the phone has made
    tim,         \* record -> the time of its location, once it is made
    held,        \* the records it has not forgotten
    delivered    \* the records the server has stored, once or more

vars == <<made, tim, held, delivered>>

(* The records of S that r must not overtake. *)
Older(r, S) == {k \in S : k < r /\ tim[k] < tim[r]}

Init ==
    /\ made = {}
    /\ tim = [r \in Records |-> 0]
    /\ held = {}
    /\ delivered = {}

Make ==
    /\ \E r \in Records \ made, t \in Times :
         /\ \A k \in made : k < r
         /\ made' = made \cup {r}
         /\ tim' = [tim EXCEPT ![r] = t]
         /\ held' = held \cup {r}
    /\ UNCHANGED delivered

(* A page of records is stored, whole or cut short. *)
Deliver ==
    /\ \E S \in SUBSET held :
         /\ \A r \in S : Older(r, made) \subseteq delivered \cup S
         /\ delivered' = delivered \cup S
    /\ UNCHANGED <<made, tim, held>>

Forget ==
    /\ \E r \in held \cap delivered :
         /\ Older(r, held) = {}
         /\ held' = held \ {r}
    /\ UNCHANGED <<made, tim, delivered>>

Next == Make \/ Deliver \/ Forget

Spec == Init /\ [][Next]_vars

================================================================================
