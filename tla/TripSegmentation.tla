--------------------------- MODULE TripSegmentation ---------------------------
(***************************************************************************)
(* The page ViewTrucker: FleetController.ViewTrucker, the algorithms of    *)
(* ViewTruckerViewModel, and the query of the view.  The page ViewTrip     *)
(* behind each trip is not modelled: it runs one query and keeps nothing.  *)
(*                                                                         *)
(* TruckerLogs is an IQueryable: every use of it is a query of its own,    *)
(* and fleet-io stores rows, old ones too, between two of them.  A list is *)
(* read in the order of TimeStamp, row by row; lists and aggregated lists  *)
(* are indexed from 1, where the code indexes from 0.                      *)
(***************************************************************************)
EXTENDS Integers, Sequences, FiniteSets

CONSTANTS
    Places,     \* where a truck can be
    Far,        \* the pairs of places whose GetDelta exceeds THRESHHOLD
    STOP_TIME,  \* STOP_TIME_SECONDS
    LowerDate,  \* the bounds of the period the page was asked for
    UpperDate,
    Tables,     \* the tables a page can start with
    Times,      \* bound: the time stamps of rows that arrive
    MaxArrivals, \* bound: rows that arrive
    Null        \* the Delay of the first trip

Rows == [id : Nat, time : Nat, place : Places]

(* ID is the primary key. *)
Keyed(T) == \A r, s \in T : r.id = s.id => r = s

ASSUME Thresholds ==
    /\ STOP_TIME \in Nat \ {0} /\ LowerDate \in Nat /\ UpperDate \in Nat
    /\ Times \subseteq Nat /\ MaxArrivals \in Nat
ASSUME FarIsApart == Far \subseteq {p \in Places \X Places : p[1] # p[2]}
ASSUME TablesHoldRows == \A T \in Tables : T \subseteq Rows /\ IsFiniteSet(T) /\ Keyed(T)
ASSUME NullIsNoTime == Null \notin Int

VARIABLES
    table,      \* the rows of TruckerLog of this trucker
    arrived,    \* rows that arrived, for the bound
    step,       \* what the page does next
    unread,     \* rows of a query that are still to be delivered
    lst,        \* the rows delivered, TruckerLogs.ToList()
    l,          \* the loop of AggregateNearbyLogs
    aggregated, \* AggregatedLogs, as indices of lst
    i,          \* the loop of FindStopPoints
    startPin,   \* startPinCount
    startLog,   \* startLogCount
    segments,   \* Segments
    points      \* the rows the view draws on the map

page == <<step, unread, lst, l, aggregated, i, startPin, startLog, segments, points>>
vars == <<table, arrived, page>>

--------------------------------------------------------------------------------
(* The query of ViewTrucker: both bounds are excluded. *)
TruckerLogs == {r \in table : LowerDate < r.time /\ r.time < UpperDate}

Apart(r, s) == <<r.place, s.place>> \in Far

(* Mutant: strict bounds, like those of ViewTrip's query. *)
WindowInside(from, to) == {r \in TruckerLogs : from.time < r.time /\ r.time < to.time}
(* Mutant: everything since the trip began. *)
WindowOpen(from, to) == {r \in TruckerLogs : from.time <= r.time}

(* The rows of a trip. *)
Window(from, to) == {r \in TruckerLogs : from.time <= r.time /\ r.time <= to.time}

Init ==
    /\ table \in Tables /\ arrived = 0
    /\ step = "count"
    /\ unread = {}
    /\ lst = <<>> /\ l = 1
    /\ aggregated = <<>>
    /\ i = 1 /\ startPin = 1 /\ startLog = 1
    /\ segments = <<>>
    /\ points = {}

(* fleet-io stores a row at any time, with any time stamp: an old one, a    *)
(* copy of one that is there, or another place in the same second.          *)
RowArrives ==
    /\ arrived < MaxArrivals
    /\ arrived' = arrived + 1
    /\ \E t \in Times, p \in Places :
         table' = table \cup {[id |-> Cardinality(table) + 1, time |-> t, place |-> p]}
    /\ \A r \in table : r.id # Cardinality(table) + 1
    /\ UNCHANGED page

--------------------------------------------------------------------------------
(* AggregateNearbyLogs *)

Count ==
    /\ step = "count"
    /\ step' = IF TruckerLogs = {} THEN "draw" ELSE "list"
    /\ UNCHANGED <<table, arrived, unread, lst, l, aggregated, i, startPin, startLog, segments, points>>

ToList ==
    /\ step = "list"
    /\ step' = "read"
    /\ unread' = TruckerLogs
    /\ UNCHANGED <<table, arrived, lst, l, aggregated, i, startPin, startLog, segments, points>>

(* ORDER BY TimeStamp ASC; the order of rows of one second is any. *)
ReadRow ==
    /\ step = "read"
    /\ \E r \in unread :
         /\ \A s \in unread : r.time <= s.time
         /\ unread' = unread \ {r}
         /\ lst' = Append(lst, r)
    /\ \/ unread' # {} /\ UNCHANGED <<step, aggregated>>
       \/ unread' = {} /\ step' = "aggregate" /\ aggregated' = <<1>>
    /\ UNCHANGED <<table, arrived, l, i, startPin, startLog, segments, points>>

(* The n-th aggregated log. *)
Log(n) == lst[aggregated[n]]

Last == Log(Len(aggregated))

(* Mutant: the row after it is not looked at, as before the correction of  *)
(* the report.                                                             *)
LeavesAlone(n) == Apart(lst[n], Last)
(* Mutant: only the row after it is looked at. *)
LeavesNext(n) == Apart(lst[n + 1], Last)

(* Row n and the one after it are both far from the last aggregated one: it *)
(* is no spike.                                                             *)
Leaves(n) == Apart(lst[n], Last) /\ Apart(lst[n + 1], Last)

Aggregate ==
    /\ step = "aggregate"
    /\ \/ /\ l < Len(lst)
          /\ aggregated' = IF Leaves(l) THEN Append(aggregated, l) ELSE aggregated
          /\ l' = l + 1
          /\ UNCHANGED step
       \/ /\ l >= Len(lst)
          /\ step' = "find"
          /\ UNCHANGED <<l, aggregated>>
    /\ UNCHANGED <<table, arrived, unread, lst, i, startPin, startLog, segments, points>>

--------------------------------------------------------------------------------
(* FindStopPoints *)

(* The trip between two indices of the aggregated list and its pin; Max and *)
(* Average of a trip without rows throw.                                    *)
Segment(pin, from, to) ==
    [pin |-> pin, from |-> from, to |-> to,
     rows |-> Window(Log(from), Log(to)),
     delay |-> IF segments # <<>> THEN Log(from).time - Log(pin).time ELSE Null]

AddSegment(segment, then) ==
    IF segment.rows = {} THEN step' = "error" /\ UNCHANGED segments
    ELSE step' = then /\ segments' = Append(segments, segment)

StopsAt(n) == Log(n + 1).time - Log(n).time > STOP_TIME

(* Mutant: a stop at the first record ends a trip of one record. *)
FindStopPointFirst ==
    /\ step = "find" /\ i < Len(aggregated) /\ i' = i + 1
    /\ \/ ~StopsAt(i) /\ UNCHANGED <<step, startPin, startLog, segments>>
       \/ /\ StopsAt(i)
          /\ AddSegment(Segment(startPin, startLog, i), "find")
          /\ startPin' = i /\ startLog' = i + 1
    /\ UNCHANGED <<table, arrived, unread, lst, l, aggregated, points>>

(* Mutant: the pin is taken for a log of the trip. *)
FindStopPointSkips ==
    /\ step = "find" /\ i < Len(aggregated) /\ i' = i + 1
    /\ \/ ~StopsAt(i) /\ UNCHANGED <<step, startPin, startLog, segments>>
       \/ /\ StopsAt(i)
          /\ startLog' = i + 2 /\ startPin' = i
          /\ UNCHANGED <<step, segments>>
    /\ UNCHANGED <<table, arrived, unread, lst, l, aggregated, points>>

(* One turn of the loop: no stop, a stop at the first record, a stop that  *)
(* ends a trip.                                                            *)
FindStopPoint ==
    /\ step = "find" /\ i < Len(aggregated)
    /\ i' = i + 1
    /\ \/ ~StopsAt(i) /\ UNCHANGED <<step, startPin, startLog, segments>>
       \/ /\ StopsAt(i) /\ i = 1
          /\ startLog' = startLog + 1
          /\ UNCHANGED <<step, startPin, segments>>
       \/ /\ StopsAt(i) /\ i # 1
          /\ AddSegment(Segment(startPin, startLog, i), "find")
          /\ startPin' = i
          /\ startLog' = i + 1
    /\ UNCHANGED <<table, arrived, unread, lst, l, aggregated, points>>

(* The trip that is left at the end of the loop. *)
LastSegment ==
    /\ step = "find" /\ i >= Len(aggregated)
    /\ AddSegment(Segment(startPin, startLog, Len(aggregated)), "draw")
    /\ UNCHANGED <<table, arrived, unread, lst, l, aggregated, i, startPin, startLog, points>>

--------------------------------------------------------------------------------
(* The view *)

(* ViewTrucker.cshtml lists TruckerLogs once more for the map. *)
Draw ==
    /\ step = "draw"
    /\ step' = "done"
    /\ points' = TruckerLogs
    /\ UNCHANGED <<table, arrived, unread, lst, l, aggregated, i, startPin, startLog, segments>>

(* The page is asked for again. *)
ViewTrucker ==
    /\ step \in {"done", "error"}
    /\ step' = "count"
    /\ unread' = {}
    /\ lst' = <<>> /\ l' = 1
    /\ aggregated' = <<>>
    /\ i' = 1 /\ startPin' = 1 /\ startLog' = 1
    /\ segments' = <<>>
    /\ points' = {}
    /\ UNCHANGED <<table, arrived>>

Next ==
    \/ RowArrives
    \/ Count \/ ToList \/ ReadRow \/ Aggregate
    \/ FindStopPoint \/ LastSegment
    \/ Draw \/ ViewTrucker

Spec == Init /\ [][Next]_vars

--------------------------------------------------------------------------------
(* Properties *)

Trips == [pin : Nat, from : Nat, to : Nat, rows : SUBSET Rows, delay : Int \cup {Null}]

TypeOK ==
    /\ table \subseteq Rows /\ arrived \in 0 .. MaxArrivals
    /\ step \in {"count", "list", "read", "aggregate", "find", "draw", "done", "error"}
    /\ unread \subseteq table
    /\ lst \in Seq(table)
    /\ l \in Nat \ {0} /\ i \in Nat \ {0}
    /\ startPin \in Nat \ {0} /\ startLog \in Nat \ {0}
    /\ step = "find" => startPin <= startLog /\ startLog <= Len(aggregated)
    /\ aggregated \in Seq(Nat \ {0})
    /\ segments \in Seq(Trips)
    /\ points \subseteq table

Aggregated == step \in {"find", "draw", "done"}
Segmented == step \in {"draw", "done"}

(* The output of the first algorithm of design.tex: "Aggregated list of     *)
(* logs, where each log is a significant distance away from the next".      *)
AggregatedApart == \A n \in 1 .. Len(aggregated) - 1 : Apart(Log(n + 1), Log(n))

(* What AggregateNearbyLogs leaves out, the last row excepted, is near the  *)
(* aggregated log before it or a spike, after which the truck is near it    *)
(* again; and no spike is aggregated (evaluation.tex:20-23).                *)
SpikesLeftOut ==
    Aggregated =>
        \A k \in DOMAIN aggregated :
            /\ \A n \in aggregated[k] + 1 .. Len(lst) - 1 :
                  (k < Len(aggregated) => n < aggregated[k + 1])
                  => ~(Apart(lst[n], Log(k)) /\ Apart(lst[n + 1], Log(k)))
            /\ k < Len(aggregated) => Apart(lst[aggregated[k + 1] + 1], Log(k))

Gaps == {n \in 1 .. Len(aggregated) - 1 : StopsAt(n)}

(* FindStopPoints cuts the aggregated list at its gaps and nowhere else: a  *)
(* trip ends at each of them, except that a stop at the first log is the    *)
(* pin of the first trip; a trip is pinned to the end of the one before,    *)
(* and its delay is longer than STOP_TIME.                                  *)
SegmentsAreTrips ==
    Segmented /\ aggregated # <<>> =>
        /\ {segments[k].to : k \in DOMAIN segments} = (Gaps \ {1}) \cup {Len(aggregated)}
        /\ \A k \in DOMAIN segments :
             LET s == segments[k]
             IN  /\ s.from <= s.to
                 /\ Gaps \cap (s.from .. s.to - 1) = {}
                 /\ IF k = 1 THEN /\ s.pin = 1 /\ s.delay = Null
                                  /\ s.from = IF 1 \in Gaps THEN 2 ELSE 1
                    ELSE /\ s.pin = segments[k - 1].to /\ s.from = s.pin + 1
                         /\ s.delay > STOP_TIME

(* Although each trip is a query of its own, it has every row that was read *)
(* between its ends, ...                                                    *)
NoRowMissed ==
    \A k \in DOMAIN segments :
        \A n \in aggregated[segments[k].from] .. aggregated[segments[k].to] :
            lst[n] \in segments[k].rows

(* ... and rows that arrive in the meantime are counted in one trip at most. *)
CountedOnce ==
    \A j, k \in DOMAIN segments : j # k => segments[j].rows \cap segments[k].rows = {}

(* AddSegment takes Max and Average of a query made after the list was      *)
(* read; it never finds that query empty.  This is the page of the trucker; *)
(* the page of one trip asks with strict bounds and may find nothing.       *)
PageRenders == step # "error"

================================================================================
