------------------------ MODULE TripSegmentation_proofs ------------------------
(***************************************************************************)
(* Theorems about TripSegmentation, for every map, threshold, period and   *)
(* table and any number of rows that arrive while a page is made: the      *)
(* trips of a page have all the rows between their ends, share none, and   *)
(* no query AddSegment makes for one is empty.                             *)
(***************************************************************************)
EXTENDS TripSegmentation, FiniteSetTheorems, TLAPS

--------------------------------------------------------------------------------
(* The inductive invariant *)

(* What was read lies in the period, and is in the table still.            *)
ReadOK ==
    /\ table \subseteq Rows /\ IsFiniteSet(table)
    /\ arrived \in 0 .. MaxArrivals
    /\ step \in {"count", "list", "read", "aggregate", "find", "draw", "done", "error"}
    /\ unread \subseteq TruckerLogs
    /\ lst \in Seq(TruckerLogs)
    /\ points \subseteq table

(* The list is in the order of time, and what is unread belongs at its end. *)
Sorted ==
    /\ \A m, n \in 1 .. Len(lst) : m <= n => lst[m].time <= lst[n].time
    /\ \A n \in 1 .. Len(lst) : \A r \in unread : lst[n].time <= r.time

(* The aggregated list picks rows of the list in its order.                *)
Increasing ==
    /\ aggregated \in Seq(1 .. Len(lst))
    /\ \A m, n \in 1 .. Len(aggregated) : m < n => aggregated[m] < aggregated[n]

(* Where the loops are: row l is still to be looked at, and the trip that  *)
(* is open began at startLog.                                              *)
Loops ==
    /\ l \in Nat \ {0} /\ i \in Nat \ {0}
    /\ startPin \in Nat \ {0} /\ startLog \in Nat \ {0}
    /\ step \in {"count", "list", "read"} => aggregated = <<>> /\ l = 1
    /\ step \in {"count", "list"} => lst = <<>>
    /\ step \in {"count", "list", "read", "aggregate"} =>
          i = 1 /\ startPin = 1 /\ startLog = 1 /\ segments = <<>>
    /\ step \in {"aggregate", "find"} => Len(aggregated) > 0
    /\ step = "aggregate" =>
          \A n \in 1 .. Len(aggregated) : aggregated[n] < l \/ (l = 1 /\ aggregated[n] = 1)
    /\ step = "find" =>
          /\ i <= Len(aggregated) /\ startPin <= startLog /\ startLog <= i
          /\ i = 1 => startLog = 1

(* A trip lies between its ends in time, and has every row of the list     *)
(* that does.                                                              *)
Whole(s) ==
    /\ s.from \in 1 .. Len(aggregated) /\ s.to \in 1 .. Len(aggregated) /\ s.from <= s.to
    /\ s.rows \subseteq table
    /\ \A r \in s.rows : Log(s.from).time <= r.time /\ r.time <= Log(s.to).time
    /\ \A n \in aggregated[s.from] .. aggregated[s.to] : lst[n] \in s.rows

TripsWhole == segments \in Seq(Trips) /\ \A k \in 1 .. Len(segments) : Whole(segments[k])

(* A trip begins after those before it have ended.                         *)
TripsApart ==
    /\ \A j, k \in 1 .. Len(segments) :
          j < k => Log(segments[j].to).time < Log(segments[k].from).time
    /\ step = "find" =>
          \A j \in 1 .. Len(segments) : Log(segments[j].to).time < Log(startLog).time

Core == ReadOK /\ Sorted /\ Increasing /\ Loops

Trip == TripsWhole /\ TripsApart

IInv == Core /\ Trip /\ AggregatedApart /\ PageRenders

--------------------------------------------------------------------------------
(* The rows a query returns stay in the table.                             *)
LEMMA QueryGrows ==
    ASSUME table \subseteq table'
    PROVE  TruckerLogs \subseteq TruckerLogs'
BY DEF TruckerLogs

LEMMA ReadIsRow ==
    ASSUME ReadOK
    PROVE  /\ TruckerLogs \subseteq Rows
           /\ \A n \in 1 .. Len(lst) : lst[n] \in TruckerLogs /\ lst[n] \in table
                                     /\ lst[n] \in Rows /\ lst[n].time \in Nat
BY DEF ReadOK, TruckerLogs, Rows

(* The aggregated logs are in the order of time.                           *)
LEMMA LogsSorted ==
    ASSUME ReadOK, Sorted, Increasing
    PROVE  /\ \A n \in 1 .. Len(aggregated) :
                /\ aggregated[n] \in 1 .. Len(lst)
                /\ Log(n) \in table /\ Log(n).time \in Nat
           /\ \A m, n \in 1 .. Len(aggregated) :
                m <= n => aggregated[m] <= aggregated[n] /\ Log(m).time <= Log(n).time
<1>1. \A n \in 1 .. Len(aggregated) : aggregated[n] \in 1 .. Len(lst)
  BY DEF Increasing
<1>2. \A m, n \in 1 .. Len(aggregated) : m <= n => aggregated[m] <= aggregated[n]
  BY <1>1 DEF Increasing
<1> QED
  BY <1>1, <1>2, ReadIsRow DEF Log, Sorted

(* A row that arrives changes nothing of the page.                         *)
LEMMA ArrivalKeepsTable ==
    ASSUME ReadOK, RowArrives
    PROVE  /\ table \subseteq table' /\ table' \subseteq Rows /\ IsFiniteSet(table')
           /\ arrived' \in 0 .. MaxArrivals
           /\ UNCHANGED page
<1>1. PICK t \in Times, p \in Places :
         table' = table \cup {[id |-> Cardinality(table) + 1, time |-> t, place |-> p]}
  BY DEF RowArrives
<1>2. Cardinality(table) \in Nat
  BY FS_CardinalityType DEF ReadOK
<1>3. [id |-> Cardinality(table) + 1, time |-> t, place |-> p] \in Rows
  BY <1>2, Thresholds DEF Rows
<1>4. IsFiniteSet(table')
  BY <1>1, FS_AddElement DEF ReadOK
<1>5. arrived' \in 0 .. MaxArrivals
  BY Thresholds DEF RowArrives, ReadOK
<1> QED
  BY <1>1, <1>3, <1>4, <1>5 DEF ReadOK, RowArrives

LEMMA CoreInit == Init => Core
<1> SUFFICES ASSUME Init PROVE Core
  OBVIOUS
<1>1. ReadOK
  <2>1. table \subseteq Rows /\ IsFiniteSet(table)
    BY TablesHoldRows DEF Init
  <2> QED
    BY <2>1, Thresholds DEF Init, ReadOK
<1>2. Sorted /\ Increasing /\ Loops
  BY DEF Init, Sorted, Increasing, Loops
<1> QED
  BY <1>1, <1>2 DEF Core

(* When the table alone changes, the list is a list of its rows still.     *)
LEMMA CoreArrives ==
    ASSUME Core, RowArrives
    PROVE  Core'
<1> USE DEF Core
<1>1. /\ table \subseteq table' /\ table' \subseteq Rows /\ IsFiniteSet(table')
      /\ arrived' \in 0 .. MaxArrivals
      /\ UNCHANGED page
  BY ArrivalKeepsTable
<1>2. TruckerLogs \subseteq TruckerLogs'
  BY <1>1, QueryGrows
<1>3. lst' \in Seq(TruckerLogs')
  <2>1. lst \in Seq(TruckerLogs) /\ lst' = lst
    BY <1>1 DEF page, ReadOK
  <2> QED
    BY <2>1, <1>2
<1>4. ReadOK'
  BY <1>1, <1>2, <1>3 DEF ReadOK, page
<1>5. Sorted' /\ Increasing' /\ Loops'
  BY <1>1 DEF Sorted, Increasing, Loops, page
<1> QED
  BY <1>4, <1>5

(* ReadRow appends a row that no unread one precedes.                      *)
LEMMA CoreReadRow ==
    ASSUME Core, ReadRow
    PROVE  Core'
<1> USE DEF Core
<1>1. PICK r \in unread :
        /\ \A s \in unread : r.time <= s.time
        /\ unread' = unread \ {r}
        /\ lst' = Append(lst, r)
  BY DEF ReadRow
<1>2. /\ lst \in Seq(TruckerLogs) /\ r \in TruckerLogs /\ r.time \in Nat
      /\ table' = table /\ TruckerLogs' = TruckerLogs
  BY <1>1 DEF ReadRow, ReadOK, TruckerLogs, Rows
<1>3. /\ lst' \in Seq(TruckerLogs) /\ Len(lst') = Len(lst) + 1
      /\ \A n \in 1 .. Len(lst) : lst'[n] = lst[n]
      /\ lst'[Len(lst) + 1] = r
      /\ Len(lst) \in Nat
  BY <1>1, <1>2
<1>4. ReadOK'
  BY <1>1, <1>2, <1>3 DEF ReadOK, ReadRow
<1>5. Sorted'
  <2>1. \A n \in 1 .. Len(lst) : lst[n].time \in Nat
    BY ReadIsRow
  <2>2. \A n \in 1 .. Len(lst') : \/ n \in 1 .. Len(lst) /\ lst'[n] = lst[n]
                                  \/ n = Len(lst) + 1 /\ lst'[n] = r
    BY <1>3
  <2>3. \A m, n \in 1 .. Len(lst') : m <= n => lst'[m].time <= lst'[n].time
    BY <1>1, <1>2, <1>3, <2>1, <2>2 DEF Sorted
  <2>4. \A n \in 1 .. Len(lst') : \A s \in unread' : lst'[n].time <= s.time
    BY <1>1, <2>2 DEF Sorted
  <2> QED
    BY <2>3, <2>4 DEF Sorted
<1>6. Increasing' /\ Loops'
  <2>1. aggregated = <<>> /\ aggregated' \in {<<>>, <<1>>}
    BY DEF ReadRow, Loops
  <2>2. Increasing'
    <3>1. <<1>> \in Seq(1 .. Len(lst')) /\ Len(<<1>>) = 1
      BY <1>3
    <3>2. CASE aggregated' = <<1>>
      BY <3>1, <3>2 DEF Increasing
    <3>3. CASE aggregated' = <<>>
      BY <3>3 DEF Increasing
    <3> QED
      BY <2>1, <3>2, <3>3
  <2>3. Loops'
    BY <2>1 DEF ReadRow, Loops
  <2> QED
    BY <2>2, <2>3
<1> QED
  BY <1>4, <1>5, <1>6

(* Aggregate appends an index that is greater than those before.           *)
LEMMA CoreAggregate ==
    ASSUME Core, Aggregate
    PROVE  Core'
<1> USE DEF Core
<1>1. ReadOK' /\ Sorted'
  BY DEF Aggregate, ReadOK, Sorted, TruckerLogs
<1>2. /\ aggregated \in Seq(1 .. Len(lst)) /\ Len(aggregated) \in Nat \ {0}
      /\ l \in Nat \ {0} /\ Len(lst) \in Nat
  BY DEF Increasing, Loops, Aggregate, ReadOK
<1>3. ASSUME l < Len(lst), Leaves(l)
      PROVE  \A n \in 1 .. Len(aggregated) : aggregated[n] < l
  <2>1. aggregated[Len(aggregated)] # l
    BY <1>3, FarIsApart DEF Leaves, Apart, Last, Log
  <2>2. \A n \in 1 .. Len(aggregated) :
           aggregated[n] \in Nat /\ aggregated[n] <= aggregated[Len(aggregated)]
    BY <1>2 DEF Increasing
  <2> QED
    BY <1>2, <2>1, <2>2 DEF Loops, Aggregate
<1>4. CASE l < Len(lst) /\ Leaves(l)
  <2>1. aggregated' = Append(aggregated, l) /\ l' = l + 1 /\ step' = step /\ lst' = lst
    BY <1>2, <1>4 DEF Aggregate
  <2>2. l \in 1 .. Len(lst)
    BY <1>2, <1>4
  <2>3. /\ aggregated' \in Seq(1 .. Len(lst)) /\ Len(aggregated') = Len(aggregated) + 1
        /\ \A n \in 1 .. Len(aggregated) : aggregated'[n] = aggregated[n]
        /\ aggregated'[Len(aggregated) + 1] = l
    BY <1>2, <2>1, <2>2
  <2>4. Increasing'
    <3>1. \A n \in 1 .. Len(aggregated') :
             \/ n \in 1 .. Len(aggregated) /\ aggregated'[n] = aggregated[n]
             \/ n = Len(aggregated) + 1 /\ aggregated'[n] = l
      BY <1>2, <2>3
    <3>2. \A n \in 1 .. Len(aggregated) : aggregated[n] < l
      BY <1>3, <1>4
    <3>3. \A m, n \in 1 .. Len(aggregated') : m < n => aggregated'[m] < aggregated'[n]
      <4>1. \A n \in 1 .. Len(aggregated) : aggregated[n] \in Nat
        BY <1>2
      <4>2. SUFFICES ASSUME NEW m \in 1 .. Len(aggregated'), NEW n \in 1 .. Len(aggregated'),
                            m < n
                     PROVE  aggregated'[m] < aggregated'[n]
        OBVIOUS
      <4>3. m \in 1 .. Len(aggregated) /\ aggregated'[m] = aggregated[m]
        BY <1>2, <2>3, <4>2
      <4>4. CASE n \in 1 .. Len(aggregated) /\ aggregated'[n] = aggregated[n]
        BY <4>2, <4>3, <4>4 DEF Increasing
      <4>5. CASE n = Len(aggregated) + 1 /\ aggregated'[n] = l
        BY <3>2, <4>3, <4>5
      <4> QED
        BY <3>1, <4>2, <4>4, <4>5
    <3> QED
      BY <2>1, <2>3, <3>3 DEF Increasing
  <2>5. \A n \in 1 .. Len(aggregated') : aggregated'[n] < l'
    BY <1>2, <1>3, <1>4, <2>1, <2>3
  <2>6. Loops'
    BY <1>2, <2>1, <2>3, <2>5 DEF Loops, Aggregate
  <2> QED
    BY <1>1, <2>4, <2>6
<1>5. CASE l < Len(lst) /\ ~Leaves(l)
  <2>1. aggregated' = aggregated /\ l' = l + 1 /\ step' = step /\ lst' = lst
    BY <1>2, <1>5 DEF Aggregate
  <2>2. \A n \in 1 .. Len(aggregated) : aggregated[n] \in Nat
    BY <1>2
  <2> QED
    BY <1>1, <1>2, <2>1, <2>2 DEF Aggregate, Increasing, Loops
<1>6. CASE l >= Len(lst)
  BY <1>1, <1>2, <1>6 DEF Aggregate, Increasing, Loops
<1> QED
  BY <1>2, <1>4, <1>5, <1>6

(* The remaining actions leave the two lists alone or start anew.          *)
LEMMA CoreFind ==
    ASSUME Core, FindStopPoint \/ LastSegment
    PROVE  Core'
<1> USE DEF Core
<1>1. /\ table' = table /\ arrived' = arrived /\ unread' = unread /\ lst' = lst
      /\ aggregated' = aggregated /\ l' = l /\ points' = points /\ step = "find"
      /\ step' \in {"find", "draw", "error"}
  BY DEF FindStopPoint, LastSegment, AddSegment
<1>2. ReadOK' /\ Sorted' /\ Increasing'
  BY <1>1 DEF ReadOK, Sorted, Increasing, TruckerLogs
<1>3. Len(aggregated) \in Nat
  BY DEF Increasing
<1>4. CASE FindStopPoint
  <2>1. i < Len(aggregated) /\ i' = i + 1 /\ startLog' \in {startLog, startLog + 1, i + 1}
    BY <1>4 DEF FindStopPoint
  <2>2. /\ startPin' \in Nat \ {0} /\ startLog' \in Nat \ {0}
        /\ step' = "find" => startPin' <= startLog' /\ startLog' <= i'
    BY <1>1, <1>4, <2>1 DEF FindStopPoint, Loops
  <2> QED
    BY <1>1, <1>2, <1>3, <2>1, <2>2 DEF Loops
<1>5. CASE LastSegment
  <2>1. /\ i' = i /\ startPin' = startPin /\ startLog' = startLog
        /\ step' \in {"draw", "error"}
    BY <1>5 DEF LastSegment, AddSegment
  <2> QED
    BY <1>1, <1>2, <2>1 DEF Loops
<1> QED
  BY <1>4, <1>5

LEMMA CoreStep == Core /\ [Next]_vars => Core'
<1> SUFFICES ASSUME Core, [Next]_vars PROVE Core'
  OBVIOUS
<1> USE DEF Core
<1>1. CASE RowArrives
  BY <1>1, CoreArrives
<1>2. CASE Count
  BY <1>2 DEF Count, ReadOK, Sorted, Increasing, Loops, TruckerLogs
<1>3. CASE ToList
  <2>1. ReadOK'
    BY <1>3 DEF ToList, ReadOK, TruckerLogs
  <2>2. lst = <<>> 
    BY <1>3 DEF ToList, Loops
  <2> QED
    BY <1>3, <2>1, <2>2 DEF ToList, Sorted, Increasing, Loops
<1>4. CASE ReadRow
  BY <1>4, CoreReadRow
<1>5. CASE Aggregate
  BY <1>5, CoreAggregate
<1>6. CASE FindStopPoint \/ LastSegment
  BY <1>6, CoreFind
<1>7. CASE Draw
  BY <1>7 DEF Draw, ReadOK, Sorted, Increasing, Loops, TruckerLogs
<1>8. CASE ViewTrucker
  BY <1>8 DEF ViewTrucker, ReadOK, Sorted, Increasing, Loops, TruckerLogs
<1>9. CASE UNCHANGED vars
  BY <1>9 DEF vars, page, ReadOK, Sorted, Increasing, Loops, TruckerLogs
<1> QED
  BY <1>1, <1>2, <1>3, <1>4, <1>5, <1>6, <1>7, <1>8, <1>9 DEF Next

--------------------------------------------------------------------------------
(* A trip that is cut out of the aggregated list is whole, and has a row at *)
(* least: the query made for it returns what the list has, or more.        *)
LEMMA SegmentIsWhole ==
    ASSUME Core, NEW pin \in 1 .. Len(aggregated),
           NEW from \in 1 .. Len(aggregated), NEW to \in 1 .. Len(aggregated), from <= to
    PROVE  /\ Segment(pin, from, to) \in Trips
           /\ Segment(pin, from, to).from = from /\ Segment(pin, from, to).to = to
           /\ Segment(pin, from, to).rows # {}
           /\ Whole(Segment(pin, from, to))
<1> DEFINE s == Segment(pin, from, to)
<1>1. s.pin = pin /\ s.from = from /\ s.to = to /\ s.rows = Window(Log(from), Log(to))
  BY DEF Segment
<1>2. \A n \in 1 .. Len(aggregated) :
         aggregated[n] \in 1 .. Len(lst) /\ Log(n).time \in Nat
  BY LogsSorted DEF Core
<1>3. s \in Trips
  <2>1. s.rows \subseteq Rows
    BY <1>1, ReadIsRow DEF Core, Window
  <2>2. (IF segments # <<>> THEN Log(from).time - Log(pin).time ELSE Null) \in Int \cup {Null}
    BY <1>2
  <2> HIDE DEF s
  <2>3. s = [pin |-> pin, from |-> from, to |-> to, rows |-> s.rows,
             delay |-> IF segments # <<>> THEN Log(from).time - Log(pin).time ELSE Null]
    BY <1>1 DEF s, Segment
  <2>4. pin \in Nat /\ from \in Nat /\ to \in Nat
    BY DEF Core, Increasing
  <2> QED
    BY <2>1, <2>2, <2>3, <2>4 DEF Trips
<1>4. \A n \in aggregated[from] .. aggregated[to] : lst[n] \in s.rows
  <2>1. SUFFICES ASSUME NEW n \in aggregated[from] .. aggregated[to]
                 PROVE  lst[n] \in Window(Log(from), Log(to))
    BY <1>1
  <2>2. n \in 1 .. Len(lst) /\ aggregated[from] <= n /\ n <= aggregated[to]
    BY <1>2 DEF Core, ReadOK
  <2>3. lst[n] \in TruckerLogs
    BY <2>2, ReadIsRow DEF Core
  <2>4. Log(from).time <= lst[n].time /\ lst[n].time <= Log(to).time
    BY <1>2, <2>2 DEF Core, Sorted, Log
  <2> QED
    BY <2>3, <2>4 DEF Window
<1>5. lst[aggregated[from]] \in s.rows
  <2>1. aggregated[from] <= aggregated[to]
    BY LogsSorted DEF Core
  <2> QED
    BY <1>2, <1>4, <2>1
<1>6. /\ s.rows \subseteq table
      /\ \A r \in s.rows : Log(from).time <= r.time /\ r.time <= Log(to).time
  BY <1>1 DEF Window, TruckerLogs
<1> QED
  BY <1>1, <1>3, <1>4, <1>5, <1>6 DEF Whole

(* What is true of the trips stays so while the lists and the trips do.    *)
LEMMA TripKept ==
    ASSUME Core, Trip, table \subseteq table',
           UNCHANGED <<lst, aggregated, segments>>,
           step' = "find" => step = "find" /\ startLog' = startLog
    PROVE  TripsWhole' /\ TripsApart'
<1>1. TripsWhole'
  <2>1. \A s : Whole(s) => Whole(s)'
    BY DEF Whole, Log
  <2> QED
    BY <2>1 DEF Trip, TripsWhole
<1> QED
  BY <1>1 DEF Trip, TripsApart, Log

LEMMA TripFindStopPoint ==
    ASSUME Core, Trip, FindStopPoint
    PROVE  Trip' /\ PageRenders'
<1>1. /\ step = "find" /\ i < Len(aggregated)
      /\ UNCHANGED <<table, lst, aggregated>>
      /\ Len(aggregated) \in Nat /\ startPin \in 1 .. startLog /\ startLog \in 1 .. i
      /\ i \in 1 .. Len(aggregated) /\ i + 1 \in 1 .. Len(aggregated)
  BY DEF FindStopPoint, Core, Loops, Increasing
<1>2. \A n \in 1 .. Len(aggregated) : Log(n).time \in Nat /\ Log(n)' = Log(n)
  BY <1>1, LogsSorted DEF Core, Log
<1>3. CASE ~StopsAt(i)
  BY <1>1, <1>3, TripKept DEF FindStopPoint, Trip, PageRenders
<1>4. StopsAt(i) => Log(startLog).time < Log(i + 1).time /\ Log(i).time < Log(i + 1).time
  <2>1. Log(startLog).time <= Log(i).time
    BY <1>1, LogsSorted DEF Core
  <2> QED
    BY <1>1, <1>2, <2>1, Thresholds DEF StopsAt
<1>5. CASE StopsAt(i) /\ i = 1
  <2>1. UNCHANGED <<step, segments>> /\ startLog' = i + 1 /\ startLog = 1
    BY <1>1, <1>5 DEF FindStopPoint, Core, Loops
  <2>2. TripsWhole'
    <3>1. \A s : Whole(s) => Whole(s)'
      BY <1>1 DEF Whole, Log
    <3> QED
      BY <1>1, <2>1, <3>1 DEF Trip, TripsWhole
  <2>3. TripsApart'
    <3>1. \A j \in 1 .. Len(segments) : Log(segments[j].to).time < Log(i + 1).time
      <4>1. \A j \in 1 .. Len(segments) : segments[j].to \in 1 .. Len(aggregated)
        BY DEF Trip, TripsWhole, Whole
      <4> QED
        BY <1>1, <1>2, <1>4, <1>5, <4>1 DEF Trip, TripsApart
    <3> QED
      BY <1>1, <2>1, <3>1 DEF Trip, TripsApart, Log
  <2> QED
    BY <1>1, <2>1, <2>2, <2>3 DEF Trip, PageRenders
<1>6. CASE StopsAt(i) /\ i # 1
  <2> DEFINE s == Segment(startPin, startLog, i)
  <2>1. /\ s \in Trips /\ s.from = startLog /\ s.to = i /\ s.rows # {} /\ Whole(s)
    BY <1>1, SegmentIsWhole
  <2>2. segments' = Append(segments, s) /\ step' = "find" /\ startLog' = i + 1
    BY <1>6, <2>1 DEF FindStopPoint, AddSegment
  <2> HIDE DEF s
  <2>3. /\ segments \in Seq(Trips) /\ segments' \in Seq(Trips)
        /\ Len(segments') = Len(segments) + 1 /\ Len(segments) \in Nat
        /\ \A k \in 1 .. Len(segments) : segments'[k] = segments[k]
        /\ segments'[Len(segments) + 1] = s
    BY <2>1, <2>2 DEF Trip, TripsWhole
  <2>4. \A k \in 1 .. Len(segments') :
           \/ k \in 1 .. Len(segments) /\ segments'[k] = segments[k]
           \/ k = Len(segments) + 1 /\ segments'[k] = s
    BY <2>3
  <2>5. TripsWhole'
    <3>1. \A z : Whole(z) => Whole(z)'
      BY <1>1 DEF Whole, Log
    <3>2. \A k \in 1 .. Len(segments') : Whole(segments'[k])
      BY <2>1, <2>4 DEF Trip, TripsWhole
    <3>3. \A k \in 1 .. Len(segments') : Whole(segments[k])'
      BY <3>1, <3>2
    <3> QED
      BY <2>3, <3>3 DEF TripsWhole
  <2>6. \A j \in 1 .. Len(segments) : segments[j].to \in 1 .. Len(aggregated)
    BY DEF Trip, TripsWhole, Whole
  <2>7. \A j \in 1 .. Len(segments') : Log(segments'[j].to).time < Log(i + 1).time
    <3>1. SUFFICES ASSUME NEW j \in 1 .. Len(segments')
                   PROVE  Log(segments'[j].to).time < Log(i + 1).time
      OBVIOUS
    <3>2. CASE j \in 1 .. Len(segments) /\ segments'[j] = segments[j]
      <4>1. Log(segments[j].to).time < Log(startLog).time
        BY <1>1, <3>2 DEF Trip, TripsApart
      <4>2. /\ segments[j].to \in 1 .. Len(aggregated)
            /\ startLog \in 1 .. Len(aggregated)
        BY <1>1, <2>6, <3>2
      <4>3. /\ Log(segments[j].to).time \in Nat /\ Log(startLog).time \in Nat
            /\ Log(i + 1).time \in Nat
        BY <1>1, <1>2, <4>2
      <4>4. Log(startLog).time < Log(i + 1).time
        BY <1>4, <1>6
      <4> QED
        BY <3>2, <4>1, <4>3, <4>4
    <3>3. CASE segments'[j] = s
      BY <1>4, <1>6, <2>1, <3>3
    <3> QED
      BY <2>4, <3>2, <3>3
  <2>8. \A j, k \in 1 .. Len(segments') :
           j < k => Log(segments'[j].to).time < Log(segments'[k].from).time
    <3>1. SUFFICES ASSUME NEW j \in 1 .. Len(segments'), NEW k \in 1 .. Len(segments'), j < k
                   PROVE  Log(segments'[j].to).time < Log(segments'[k].from).time
      OBVIOUS
    <3>2. j \in 1 .. Len(segments) /\ segments'[j] = segments[j]
      BY <2>3, <2>4, <3>1
    <3> QED
      BY <1>1, <2>1, <2>4, <3>1, <3>2 DEF Trip, TripsApart
  <2>9. TripsApart'
    BY <1>1, <2>2, <2>7, <2>8 DEF TripsApart, Log
  <2> QED
    BY <2>2, <2>5, <2>9 DEF Trip, PageRenders
<1> QED
  BY <1>3, <1>5, <1>6

LEMMA TripLastSegment ==
    ASSUME Core, Trip, LastSegment
    PROVE  Trip' /\ PageRenders'
<1> DEFINE s == Segment(startPin, startLog, Len(aggregated))
<1>1. /\ step = "find" /\ UNCHANGED <<table, lst, aggregated>>
      /\ startPin \in 1 .. Len(aggregated) /\ startLog \in 1 .. Len(aggregated)
      /\ Len(aggregated) \in 1 .. Len(aggregated) /\ startLog <= Len(aggregated)
  BY DEF LastSegment, Core, Loops, Increasing
<1>2. /\ s \in Trips /\ s.from = startLog /\ s.to = Len(aggregated) /\ s.rows # {}
      /\ Whole(s)
  BY <1>1, SegmentIsWhole
<1>3. segments' = Append(segments, s) /\ step' = "draw"
  BY <1>2 DEF LastSegment, AddSegment
<1> HIDE DEF s
<1>4. /\ segments' \in Seq(Trips) /\ Len(segments') = Len(segments) + 1
      /\ Len(segments) \in Nat
      /\ \A k \in 1 .. Len(segments) : segments'[k] = segments[k]
      /\ segments'[Len(segments) + 1] = s
  BY <1>2, <1>3 DEF Trip, TripsWhole
<1>5. \A k \in 1 .. Len(segments') :
         \/ k \in 1 .. Len(segments) /\ segments'[k] = segments[k]
         \/ k = Len(segments) + 1 /\ segments'[k] = s
  <2>1. SUFFICES ASSUME NEW k \in 1 .. Len(segments')
                 PROVE  \/ k \in 1 .. Len(segments) /\ segments'[k] = segments[k]
                        \/ k = Len(segments) + 1 /\ segments'[k] = s
    OBVIOUS
  <2>2. k \in 1 .. Len(segments) \/ k = Len(segments) + 1
    BY <1>4
  <2>3. CASE k \in 1 .. Len(segments)
    BY <1>4, <2>3
  <2> QED
    BY <1>4, <2>2, <2>3
<1>6. TripsWhole'
  <2>1. \A z : Whole(z) => Whole(z)'
    BY <1>1 DEF Whole, Log
  <2>2. \A k \in 1 .. Len(segments') : Whole(segments'[k])
    BY <1>2, <1>5 DEF Trip, TripsWhole
  <2>3. \A k \in 1 .. Len(segments') : Whole(segments[k])'
    BY <2>1, <2>2
  <2> QED
    BY <1>4, <2>3 DEF TripsWhole
<1>7. TripsApart'
  <2>1. SUFFICES ASSUME NEW j \in 1 .. Len(segments'), NEW k \in 1 .. Len(segments'), j < k
                 PROVE  Log(segments'[j].to).time < Log(segments'[k].from).time
    BY <1>1, <1>3 DEF TripsApart, Log
  <2>2. j \in 1 .. Len(segments) /\ segments'[j] = segments[j]
    BY <1>4, <1>5, <2>1
  <2> QED
    BY <1>1, <1>2, <1>5, <2>1, <2>2 DEF Trip, TripsApart
<1> QED
  BY <1>3, <1>6, <1>7 DEF Trip, PageRenders

(* While there are no trips, there is nothing to say of them.              *)
LEMMA TripNone ==
    ASSUME segments' = <<>>
    PROVE  Trip'
BY DEF Trip, TripsWhole, TripsApart

LEMMA TripStep == Core /\ Trip /\ PageRenders /\ [Next]_vars => Trip' /\ PageRenders'
<1> SUFFICES ASSUME Core, Trip, PageRenders, [Next]_vars PROVE Trip' /\ PageRenders'
  OBVIOUS
<1>1. CASE RowArrives
  <2>1. table \subseteq table' /\ UNCHANGED page
    BY <1>1, ArrivalKeepsTable DEF Core
  <2>2. TripsWhole' /\ TripsApart'
    BY <2>1, TripKept DEF page
  <2> QED
    BY <2>1, <2>2 DEF page, Trip, PageRenders
<1>2. CASE Count \/ ToList \/ ReadRow \/ Aggregate
  <2>1. segments' = <<>> /\ step' # "error"
    BY <1>2 DEF Count, ToList, ReadRow, Aggregate, Core, Loops
  <2> QED
    BY <2>1, TripNone DEF PageRenders
<1>3. CASE FindStopPoint
  BY <1>3, TripFindStopPoint
<1>4. CASE LastSegment
  BY <1>4, TripLastSegment
<1>5. CASE Draw
  <2>1. TripsWhole' /\ TripsApart'
    BY <1>5, TripKept DEF Draw
  <2> QED
    BY <1>5, <2>1 DEF Draw, Trip, PageRenders
<1>6. CASE ViewTrucker
  <2>1. Trip'
    BY <1>6, TripNone DEF ViewTrucker
  <2> QED
    BY <1>6, <2>1 DEF ViewTrucker, PageRenders
<1>7. CASE UNCHANGED vars
  <2>1. TripsWhole' /\ TripsApart'
    BY <1>7, TripKept DEF vars, page
  <2> QED
    BY <1>7, <2>1 DEF vars, page, Trip, PageRenders
<1> QED
  BY <1>1, <1>2, <1>3, <1>4, <1>5, <1>6, <1>7 DEF Next

(* Aggregate takes a row only if it is far from the last one taken.        *)
LEMMA ApartStep == Core /\ AggregatedApart /\ [Next]_vars => AggregatedApart'
<1> SUFFICES ASSUME Core, AggregatedApart, [Next]_vars PROVE AggregatedApart'
  OBVIOUS
<1>1. Len(aggregated) \in Nat
  BY DEF Core, Increasing
<1>2. CASE Aggregate /\ aggregated' = Append(aggregated, l)
  <2>1. /\ Len(aggregated') = Len(aggregated) + 1 /\ lst' = lst
        /\ \A n \in 1 .. Len(aggregated) : aggregated'[n] = aggregated[n]
        /\ aggregated'[Len(aggregated) + 1] = l
    BY <1>2 DEF Aggregate, Core, Increasing
  <2>2. Len(aggregated) > 0 /\ Apart(lst[l], Log(Len(aggregated)))
    <3>1. aggregated' # aggregated
      BY <1>1, <2>1
    <3> QED
      BY <1>2, <3>1 DEF Aggregate, Leaves, Last, Core, Loops
  <2>3. SUFFICES ASSUME NEW n \in 1 .. Len(aggregated') - 1
                 PROVE  Apart(lst[aggregated'[n + 1]], lst[aggregated'[n]])
    BY <2>1 DEF AggregatedApart, Log, Apart
  <2>4. CASE n = Len(aggregated)
    BY <1>1, <2>1, <2>2, <2>4 DEF Log
  <2>5. CASE n \in 1 .. Len(aggregated) - 1
    BY <1>1, <2>1, <2>5 DEF AggregatedApart, Log
  <2> QED
    BY <1>1, <2>1, <2>4, <2>5
<1>3. CASE Len(aggregated') \in {0, 1}
  <2>1. \A m \in {0, 1} : \A n \in 1 .. m - 1 : FALSE
    OBVIOUS
  <2>2. \A n \in 1 .. Len(aggregated') - 1 : FALSE
    BY <1>3, <2>1
  <2> QED
    BY <2>2 DEF AggregatedApart
<1>4. CASE aggregated' = aggregated /\ (lst' = lst \/ aggregated = <<>>)
  BY <1>4 DEF AggregatedApart, Log, Apart
<1>5. CASE UNCHANGED <<aggregated, lst>>
  BY <1>5, <1>4
<1>6. CASE RowArrives \/ Count \/ ToList \/ FindStopPoint \/ LastSegment \/ Draw
  BY <1>5, <1>6 DEF RowArrives, page, Count, ToList, FindStopPoint, LastSegment, Draw
<1>7. CASE ReadRow
  <2>1. aggregated' = <<>> \/ aggregated' = <<1>>
    BY <1>7 DEF ReadRow, Core, Loops
  <2> QED
    BY <1>3, <2>1
<1>8. CASE Aggregate
  BY <1>2, <1>5, <1>8 DEF Aggregate
<1>9. CASE ViewTrucker
  BY <1>3, <1>9 DEF ViewTrucker
<1>10. CASE UNCHANGED vars
  BY <1>5, <1>10 DEF vars, page
<1> QED
  BY <1>6, <1>7, <1>8, <1>9, <1>10 DEF Next

--------------------------------------------------------------------------------
(* IInv holds in every reachable state, whatever arrives between the       *)
(* queries of ViewTruckerViewModel.                                        *)
THEOREM Invariance == Spec => []IInv
<1>1. Init => IInv
  <2>1. Init => Trip /\ AggregatedApart /\ PageRenders
    BY DEF Init, Trip, TripsWhole, TripsApart, AggregatedApart, PageRenders
  <2> QED
    BY <2>1, CoreInit DEF IInv
<1>2. IInv /\ [Next]_vars => IInv'
  BY CoreStep, TripStep, ApartStep DEF IInv
<1> QED
  BY <1>1, <1>2, PTL DEF Spec

(* The lists, loops and trips keep their types, and the trip being looked  *)
(* for lies within the aggregated list.                                    *)
THEOREM TypeCorrect == Spec => []TypeOK
<1>1. IInv => TypeOK
  <2> SUFFICES ASSUME IInv PROVE TypeOK
    OBVIOUS
  <2> USE DEF IInv, Core
  <2>1. unread \subseteq table /\ lst \in Seq(table)
    BY DEF ReadOK, TruckerLogs
  <2>2. aggregated \in Seq(Nat \ {0}) /\ Len(aggregated) \in Nat
    <3>1. Len(lst) \in Nat /\ 1 .. Len(lst) \subseteq Nat \ {0}
      BY <2>1
    <3> QED
      BY <3>1 DEF Increasing
  <2>3. step = "find" => startPin <= startLog /\ startLog <= Len(aggregated)
    BY <2>2 DEF Loops
  <2> QED
    BY <2>1, <2>2, <2>3 DEF TypeOK, ReadOK, Loops, Trip, TripsWhole
<1> QED
  BY <1>1, Invariance, PTL

(* AggregateNearbyLogs: each aggregated log is far from the next.          *)
THEOREM NeighboursApart == Spec => []AggregatedApart
<1>1. IInv => AggregatedApart
  BY DEF IInv
<1> QED
  BY <1>1, Invariance, PTL

(* AddSegment queries the table once more, and finds every row that        *)
(* AggregateNearbyLogs has read between the ends of the trip.              *)
THEOREM NothingMissed == Spec => []NoRowMissed
<1>1. IInv => NoRowMissed
  BY DEF IInv, Trip, TripsWhole, Whole, NoRowMissed
<1> QED
  BY <1>1, Invariance, PTL

(* No row is counted in two trips of a page, even one that arrived between *)
(* their queries.                                                          *)
THEOREM NothingCountedTwice == Spec => []CountedOnce
<1>1. IInv => CountedOnce
  <2> SUFFICES ASSUME IInv, NEW j \in 1 .. Len(segments), NEW k \in 1 .. Len(segments),
                      j < k
               PROVE  segments[j].rows \cap segments[k].rows = {}
    <3>1. segments \in Seq(Trips) => DOMAIN segments = 1 .. Len(segments) /\ Len(segments) \in Nat
      OBVIOUS
    <3> QED
      BY <3>1 DEF CountedOnce, IInv, Trip, TripsWhole
  <2>1. Log(segments[j].to).time < Log(segments[k].from).time
    BY DEF IInv, Trip, TripsApart
  <2>2. Log(segments[j].to).time \in Nat /\ Log(segments[k].from).time \in Nat
    BY LogsSorted DEF IInv, Core, Trip, TripsWhole, Whole
  <2>3. \A r \in segments[j].rows : r.time \in Nat /\ r.time <= Log(segments[j].to).time
    BY DEF IInv, Core, Trip, TripsWhole, Whole, ReadOK, Rows
  <2>4. \A r \in segments[k].rows : r.time \in Nat /\ Log(segments[k].from).time <= r.time
    BY DEF IInv, Core, Trip, TripsWhole, Whole, ReadOK, Rows
  <2>5. \A r \in segments[j].rows : r \notin segments[k].rows
    BY <2>1, <2>2, <2>3, <2>4
  <2> QED
    BY <2>5
<1> QED
  BY <1>1, Invariance, PTL

(* AddSegment takes the maximum and the average of no empty set of rows,   *)
(* so the page of a trucker is made.  The page of one trip is another      *)
(* query, about which this says nothing.                                   *)
THEOREM AlwaysRenders == Spec => []PageRenders
<1>1. IInv => PageRenders
  BY DEF IInv
<1> QED
  BY <1>1, Invariance, PTL

--------------------------------------------------------------------------------
(* The cuts *)

(* A trip is pinned to the end of the one before, or to the first log, and *)
(* has no gap inside.                                                      *)
Cut(k) ==
    LET s == segments[k]
    IN  /\ s.from <= s.to
        /\ Gaps \cap (s.from .. s.to - 1) = {}
        /\ IF k = 1 THEN /\ s.pin = 1 /\ s.delay = Null
                         /\ s.from = IF 1 \in Gaps THEN 2 ELSE 1
           ELSE /\ s.pin = segments[k - 1].to /\ s.from = s.pin + 1
                /\ s.delay > STOP_TIME

Ends == {segments[k].to : k \in 1 .. Len(segments)}

(* What FindStopPoints has done of the gaps before i.                      *)
Cutting ==
    step = "find" =>
        /\ Ends = {n \in Gaps : 1 < n /\ n < i}
        /\ \A k \in 1 .. Len(segments) : Cut(k)
        /\ Gaps \cap (startLog .. i - 1) = {}
        /\ IF segments = <<>>
           THEN startPin = 1 /\ startLog = IF 1 < i /\ 1 \in Gaps THEN 2 ELSE 1
           ELSE /\ startPin = segments[Len(segments)].to /\ startLog = startPin + 1
                /\ StopsAt(startPin)

(* What the loop appends is a cut.                                         *)
LEMMA CutAppended ==
    ASSUME Core, Trip, Cutting, step = "find",
           NEW to \in 1 .. Len(aggregated), startLog <= to, 1 < i \/ 1 \notin Gaps,
           Gaps \cap (startLog .. to - 1) = {},
           segments' = Append(segments, Segment(startPin, startLog, to)),
           UNCHANGED <<lst, aggregated>>
    PROVE  /\ segments' # <<>> /\ Len(segments') \in Nat /\ DOMAIN segments' = 1 .. Len(segments')
           /\ segments'[Len(segments')].to = to
           /\ Ends' = Ends \cup {to}
           /\ \A k \in 1 .. Len(segments') : Cut(k)'
<1> DEFINE s == Segment(startPin, startLog, to)
<1>1. /\ segments \in Seq(Trips) /\ Len(segments) \in Nat
      /\ Len(aggregated) \in Nat /\ startPin \in Nat \ {0} /\ startLog \in Nat \ {0}
      /\ startPin \in 1 .. Len(aggregated) /\ startLog \in 1 .. Len(aggregated)
  BY DEF Trip, TripsWhole, Core, Increasing, Loops
<1>2. s \in Trips
  BY <1>1, SegmentIsWhole
<1>3. /\ s.pin = startPin /\ s.from = startLog /\ s.to = to
      /\ s.delay = IF segments # <<>> THEN Log(startLog).time - Log(startPin).time ELSE Null
  BY DEF Segment
<1>4. /\ segments' \in Seq(Trips) /\ Len(segments') = Len(segments) + 1
      /\ segments'[Len(segments) + 1] = s
      /\ \A k \in 1 .. Len(segments) : segments'[k] = segments[k]
  BY <1>1, <1>2
<1>5. Gaps' = Gaps
  BY DEF Gaps, StopsAt, Log
<1>6. ASSUME NEW k \in 1 .. Len(segments)
      PROVE  Cut(k)'
  <2>1. Cut(k) /\ segments'[k] = segments[k]
    BY <1>4 DEF Cutting
  <2>2. k # 1 => segments'[k - 1] = segments[k - 1]
    BY <1>1, <1>4
  <2> QED
    BY <1>5, <2>1, <2>2 DEF Cut
<1>7. PICK m \in Nat : m = Len(segments) + 1
  BY <1>1
<1>8. ASSUME segments = <<>>
      PROVE  Cut(m)'
  <2>1. m = 1 /\ segments'[m] = s
    BY <1>4, <1>7, <1>8
  <2>2. startPin = 1 /\ startLog = IF 1 \in Gaps THEN 2 ELSE 1
    BY <1>8 DEF Cutting
  <2> QED
    BY <1>3, <1>5, <1>8, <2>1, <2>2 DEF Cut
<1>9. ASSUME segments # <<>>
      PROVE  Cut(m)'
  <2>1. Len(segments) \in 1 .. Len(segments) /\ m # 1 /\ m - 1 = Len(segments)
    BY <1>1, <1>7, <1>9
  <2>2. startPin = segments[Len(segments)].to /\ startLog = startPin + 1 /\ StopsAt(startPin)
    BY <1>9 DEF Cutting
  <2>3. s.delay > STOP_TIME
    BY <1>3, <1>9, <2>2 DEF StopsAt
  <2>4. segments'[m] = s /\ segments'[m - 1] = segments[m - 1]
    BY <1>4, <1>7, <2>1
  <2>5. s.pin = segments[m - 1].to /\ s.from = s.pin + 1
    BY <1>3, <2>1, <2>2
  <2> QED
    BY <1>3, <1>5, <2>1, <2>3, <2>4, <2>5 DEF Cut
<1>10. \A k \in 1 .. Len(segments') : Cut(k)'
  <2>1. Cut(m)'
    BY <1>8, <1>9
  <2>2. \A k \in 1 .. Len(segments') : k \in 1 .. Len(segments) \/ k = m
    BY <1>1, <1>4, <1>7
  <2> QED
    BY <1>6, <2>1, <2>2
<1>11. Ends' = Ends \cup {to}
  BY <1>1, <1>3, <1>4 DEF Ends
<1> QED
  BY <1>1, <1>3, <1>4, <1>10, <1>11

LEMMA CutFindStopPoint ==
    ASSUME Core, Trip, Cutting, FindStopPoint
    PROVE  Cutting' /\ SegmentsAreTrips'
<1>1. /\ step = "find" /\ i < Len(aggregated) /\ i' = i + 1
      /\ UNCHANGED <<table, lst, aggregated>>
      /\ Len(aggregated) \in Nat /\ i \in 1 .. Len(aggregated) - 1
      /\ startPin \in Nat \ {0} /\ startLog \in Nat \ {0} /\ startLog <= i
      /\ segments \in Seq(Trips) /\ Len(segments) \in Nat
  BY DEF FindStopPoint, Core, Increasing, Loops, Trip, TripsWhole
<1>2. Gaps' = Gaps /\ \A n : StopsAt(n)' = StopsAt(n)
  BY <1>1 DEF Gaps, StopsAt, Log
<1>3. /\ Ends = {n \in Gaps : 1 < n /\ n < i}
      /\ \A k \in 1 .. Len(segments) : Cut(k)
      /\ Gaps \cap (startLog .. i - 1) = {}
  BY <1>1 DEF Cutting
<1>4. i \in Gaps <=> StopsAt(i)
  BY <1>1 DEF Gaps
<1>5. \A n \in Gaps : n \in Nat /\ (n < i + 1 <=> n < i \/ n = i)
  BY <1>1 DEF Gaps
<1>6. CASE ~StopsAt(i)
  <2>1. step' = "find" /\ UNCHANGED <<startPin, startLog, segments>>
    BY <1>1, <1>6 DEF FindStopPoint
  <2>2. Ends' = {n \in Gaps : 1 < n /\ n < i + 1}
    <3>1. {n \in Gaps : 1 < n /\ n < i + 1} = {n \in Gaps : 1 < n /\ n < i}
      BY <1>4, <1>5, <1>6
    <3> QED
      BY <1>3, <2>1, <3>1 DEF Ends
  <2>3. \A k \in 1 .. Len(segments') : Cut(k)'
    BY <1>2, <1>3, <2>1 DEF Cut
  <2>4. Gaps \cap (startLog .. i) = {}
    BY <1>1, <1>3, <1>4, <1>6
  <2>5. i = 1 => 1 \notin Gaps
    BY <1>4, <1>6
  <2>6. Cutting'
    BY <1>1, <1>2, <2>1, <2>2, <2>3, <2>4, <2>5 DEF Cutting
  <2> QED
    BY <2>1, <2>6 DEF SegmentsAreTrips, Segmented
<1>7. CASE StopsAt(i) /\ i = 1
  <2>1. step' = "find" /\ UNCHANGED <<startPin, segments>> /\ startLog' = startLog + 1
    BY <1>1, <1>7 DEF FindStopPoint
  <2>2. Ends = {} /\ segments = <<>> /\ startPin = 1 /\ startLog = 1
    <3>1. {n \in Gaps : 1 < n /\ n < i} = {}
      BY <1>5, <1>7
    <3>2. Ends = {}
      BY <1>3, <3>1
    <3>3. segments = <<>>
      <4>1. ASSUME segments # <<>> PROVE FALSE
        <5>1. 1 \in 1 .. Len(segments)
          BY <1>1, <4>1
        <5> QED
          BY <3>2, <5>1 DEF Ends
      <4> QED
        BY <4>1
    <3> QED
      BY <1>1, <1>7, <3>2, <3>3 DEF Cutting
  <2>3. {n \in Gaps : 1 < n /\ n < i + 1} = {}
    BY <1>5, <1>7
  <2>4. Ends' = {}
    BY <2>1, <2>2 DEF Ends
  <2>5. 2 .. 1 = {} /\ i' = 2 /\ startLog' = 2 /\ 1 \in Gaps
    BY <1>1, <1>4, <1>7, <2>1, <2>2
  <2>6. \A k \in 1 .. Len(segments') : Cut(k)'
    BY <2>1, <2>2
  <2>7. Cutting'
    BY <1>1, <1>2, <1>7, <2>1, <2>2, <2>3, <2>4, <2>5, <2>6 DEF Cutting
  <2> QED
    BY <2>1, <2>7 DEF SegmentsAreTrips, Segmented
<1>8. CASE StopsAt(i) /\ i # 1
  <2>1. /\ AddSegment(Segment(startPin, startLog, i), "find")
        /\ startPin' = i /\ startLog' = i + 1
    BY <1>8 DEF FindStopPoint
  <2>2. Segment(startPin, startLog, i).rows # {}
    <3>1. startPin \in 1 .. Len(aggregated) /\ startLog \in 1 .. Len(aggregated) /\ i \in 1 .. Len(aggregated)
      BY <1>1 DEF Core, Loops
    <3> QED
      BY <1>1, <3>1, SegmentIsWhole
  <2>3. step' = "find" /\ segments' = Append(segments, Segment(startPin, startLog, i))
    BY <2>1, <2>2 DEF AddSegment
  <2>4. i \in 1 .. Len(aggregated) /\ 1 < i
    BY <1>1, <1>8
  <2>5. /\ segments' # <<>> /\ Len(segments') = Len(segments) + 1
        /\ segments'[Len(segments')].to = i
        /\ Ends' = Ends \cup {i}
        /\ \A k \in 1 .. Len(segments') : Cut(k)'
    <3>1. Len(segments') = Len(segments) + 1
      BY <1>1, <2>3
    <3> QED
      BY <1>1, <1>3, <2>3, <2>4, <3>1, CutAppended
  <2>6. Ends' = {n \in Gaps : 1 < n /\ n < i + 1}
    BY <1>3, <1>4, <1>5, <1>8, <2>4, <2>5
  <2>7. i + 1 .. i = {}
    BY <1>1
  <2>8. Cutting'
    BY <1>1, <1>2, <1>8, <2>1, <2>3, <2>5, <2>6, <2>7 DEF Cutting
  <2> QED
    BY <2>3, <2>8 DEF SegmentsAreTrips, Segmented
<1> QED
  BY <1>6, <1>7, <1>8

LEMMA CutLastSegment ==
    ASSUME Core, Trip, Cutting, LastSegment
    PROVE  Cutting' /\ SegmentsAreTrips'
<1>1. /\ step = "find" /\ UNCHANGED <<table, lst, aggregated>>
      /\ Len(aggregated) \in Nat \ {0} /\ i = Len(aggregated)
      /\ startPin \in 1 .. Len(aggregated) /\ startLog \in 1 .. Len(aggregated)
  BY DEF LastSegment, Core, Increasing, Loops
<1>2. Gaps \subseteq 1 .. i - 1
  BY <1>1 DEF Gaps
<1>3. Segment(startPin, startLog, Len(aggregated)).rows # {}
  BY <1>1, SegmentIsWhole
<1>4. step' = "draw" /\ segments' = Append(segments, Segment(startPin, startLog, Len(aggregated)))
  BY <1>3 DEF LastSegment, AddSegment
<1>5. 1 < i \/ 1 \notin Gaps
  BY <1>1, <1>2
<1>6. /\ Gaps \cap (startLog .. i - 1) = {} /\ Ends = {n \in Gaps : 1 < n /\ n < i}
  BY <1>1 DEF Cutting
<1>7. /\ DOMAIN segments' = 1 .. Len(segments')
      /\ Ends' = Ends \cup {i}
      /\ \A k \in 1 .. Len(segments') : Cut(k)'
  BY <1>1, <1>4, <1>5, <1>6, CutAppended
<1>8. Ends = Gaps \ {1}
  <2>1. \A n \in Gaps : n < i /\ (1 < n <=> n # 1)
    BY <1>1, <1>2
  <2> QED
    BY <1>6, <2>1
<1>9. Gaps' = Gaps
  BY <1>1 DEF Gaps, StopsAt, Log
<1>10. Ends' = (Gaps' \ {1}) \cup {Len(aggregated')}
  BY <1>1, <1>7, <1>8, <1>9
<1> QED
  BY <1>4, <1>7, <1>10 DEF Cutting, SegmentsAreTrips, Cut, Ends

LEMMA CutStep ==
    Core /\ Trip /\ Cutting /\ SegmentsAreTrips /\ [Next]_vars => Cutting' /\ SegmentsAreTrips'
<1> SUFFICES ASSUME Core, Trip, Cutting, SegmentsAreTrips, [Next]_vars
             PROVE  Cutting' /\ SegmentsAreTrips'
  OBVIOUS
<1>1. CASE UNCHANGED <<step, lst, aggregated, i, startPin, startLog, segments>>
  <2>1. Gaps' = Gaps /\ \A n : StopsAt(n)' = StopsAt(n)
    BY <1>1 DEF Gaps, StopsAt, Log
  <2>2. Ends' = Ends /\ \A k : Cut(k)' = Cut(k)
    BY <1>1, <2>1 DEF Ends, Cut
  <2> QED
    BY <1>1, <2>1, <2>2 DEF Cutting, SegmentsAreTrips, Segmented
<1>2. CASE RowArrives \/ UNCHANGED vars
  BY <1>1, <1>2, ArrivalKeepsTable DEF Core, page, vars
<1>3. CASE Count
  BY <1>3 DEF Count, Core, Loops, Cutting, SegmentsAreTrips
<1>4. CASE ToList \/ ReadRow \/ ViewTrucker
  BY <1>4 DEF ToList, ReadRow, ViewTrucker, Cutting, SegmentsAreTrips, Segmented
<1>5. CASE Aggregate
  <2>1. /\ i' = 1 /\ startPin' = 1 /\ startLog' = 1 /\ segments' = <<>>
        /\ step' \in {"aggregate", "find"}
    BY <1>5 DEF Aggregate, Core, Loops
  <2>2. Ends' = {} /\ 1 .. 0 = {} /\ Len(segments') = 0 /\ 1 .. Len(segments') = {}
    BY <2>1 DEF Ends
  <2>3. {n \in Gaps' : 1 < n /\ n < 1} = {}
    <3>1. Len(aggregated') \in Int
      BY <1>5, CoreStep DEF Core, Increasing
    <3> QED
      BY <3>1 DEF Gaps
  <2> QED
    BY <2>1, <2>2, <2>3 DEF Cutting, SegmentsAreTrips, Segmented
<1>6. CASE FindStopPoint
  BY <1>6, CutFindStopPoint
<1>7. CASE LastSegment
  BY <1>7, CutLastSegment
<1>8. CASE Draw
  <2>1. /\ step = "draw" /\ step' = "done" /\ UNCHANGED <<lst, aggregated, segments>>
    BY <1>8 DEF Draw
  <2>2. Gaps' = Gaps
    BY <2>1 DEF Gaps, StopsAt, Log
  <2> QED
    BY <2>1, <2>2 DEF Cutting, SegmentsAreTrips, Segmented
<1> QED
  BY <1>2, <1>3, <1>4, <1>5, <1>6, <1>7, <1>8 DEF Next

(* FindStopPoints ends a trip at each gap longer than STOP_TIME, the first *)
(* log's excepted, at the last log, and nowhere else.                      *)
THEOREM CutAtStops == Spec => []SegmentsAreTrips
<1>1. Init => Cutting /\ SegmentsAreTrips
  BY DEF Init, Cutting, SegmentsAreTrips, Segmented
<1>2. IInv /\ Cutting /\ SegmentsAreTrips /\ [Next]_vars => Cutting' /\ SegmentsAreTrips'
  BY CutStep DEF IInv
<1> QED
  BY <1>1, <1>2, Invariance, PTL DEF Spec

--------------------------------------------------------------------------------
(* The spikes *)

(* Row n and its follower are not both far from the k-th aggregated log,   *)
(* unless a later log has been aggregated by then.                         *)
Near(k, n) ==
    (k < Len(aggregated) => n < aggregated[k + 1])
        => ~(Apart(lst[n], Log(k)) /\ Apart(lst[n + 1], Log(k)))

(* What AggregateNearbyLogs has done of the rows before l.                 *)
Aggregating ==
    step = "aggregate" =>
        \A k \in 1 .. Len(aggregated) :
            /\ \A n \in aggregated[k] + 1 .. l - 1 : Near(k, n)
            /\ k < Len(aggregated) => Apart(lst[aggregated[k + 1] + 1], Log(k))

LEMMA SpikeAggregate ==
    ASSUME Core, Aggregating, Aggregate
    PROVE  Aggregating' /\ SpikesLeftOut'
<1>1. /\ step = "aggregate" /\ lst' = lst /\ l \in Nat \ {0} /\ Len(lst) \in Nat
      /\ aggregated \in Seq(1 .. Len(lst)) /\ Len(aggregated) \in Nat \ {0}
      /\ \A k \in 1 .. Len(aggregated) : aggregated[k] \in Nat
      /\ \A k \in 1 .. Len(aggregated) :
           /\ \A n \in aggregated[k] + 1 .. l - 1 : Near(k, n)
           /\ k < Len(aggregated) => Apart(lst[aggregated[k + 1] + 1], Log(k))
  BY DEF Aggregate, Aggregating, Core, ReadOK, Increasing, Loops
<1>2. \A k \in 1 .. Len(aggregated) : aggregated[k] < l \/ (l = 1 /\ aggregated[k] = 1)
  BY <1>1 DEF Core, Loops
<1>3. CASE l < Len(lst) /\ Leaves(l)
  <2>1. /\ step' = "aggregate" /\ l' = l + 1 /\ aggregated' = Append(aggregated, l)
        /\ l \in 1 .. Len(lst)
    BY <1>1, <1>3 DEF Aggregate
  <2>2. /\ Len(aggregated') = Len(aggregated) + 1 /\ aggregated'[Len(aggregated) + 1] = l
        /\ \A k \in 1 .. Len(aggregated) : aggregated'[k] = aggregated[k]
    BY <1>1, <2>1
  <2>3. \A k \in 1 .. Len(aggregated) : Log(k)' = Log(k)
    BY <1>1, <2>2 DEF Log
  <2>4. ASSUME NEW k \in 1 .. Len(aggregated')
        PROVE  /\ \A n \in aggregated'[k] + 1 .. l' - 1 : Near(k, n)'
               /\ k < Len(aggregated') => Apart(lst[aggregated[k + 1] + 1], Log(k))'
    <3>1. CASE k = Len(aggregated) + 1
      BY <1>1, <2>1, <2>2, <3>1
    <3>2. CASE k < Len(aggregated)
      <4>1. k + 1 \in 1 .. Len(aggregated) /\ aggregated'[k + 1] = aggregated[k + 1]
        BY <1>1, <2>2, <3>2
      <4>2. aggregated[k + 1] <= l
        BY <1>1, <1>2, <4>1
      <4>3. Apart(lst[aggregated[k + 1] + 1], Log(k))' <=> Apart(lst[aggregated[k + 1] + 1], Log(k))
        BY <1>1, <2>3, <3>2, <4>1 DEF Apart
      <4>4. ASSUME NEW n \in aggregated[k] + 1 .. l, n < aggregated[k + 1]
            PROVE  ~(Apart(lst[n], Log(k)) /\ Apart(lst[n + 1], Log(k)))
        <5>1. n \in aggregated[k] + 1 .. l - 1
          BY <1>1, <4>1, <4>2, <4>4
        <5>2. k \in 1 .. Len(aggregated)
          BY <1>1, <3>2
        <5>3. Near(k, n)
          BY <1>1, <5>1, <5>2
        <5> QED
          BY <4>4, <5>3 DEF Near
      <4> QED
        BY <1>1, <2>1, <2>2, <2>3, <3>2, <4>1, <4>3, <4>4 DEF Near, Apart
    <3>3. CASE k = Len(aggregated)
      <4>1. Log(k) = Last /\ Log(k)' = Log(k) /\ aggregated'[k + 1] = l /\ aggregated'[k] = aggregated[k]
        BY <1>1, <2>2, <2>3, <3>3 DEF Last
      <4>2. Apart(lst[aggregated[k + 1] + 1], Log(k))'
        BY <1>1, <1>3, <4>1 DEF Leaves, Apart
      <4>3. ASSUME NEW n \in aggregated[k] + 1 .. l, n < l
            PROVE  ~(Apart(lst[n], Log(k)) /\ Apart(lst[n + 1], Log(k)))
        <5>1. n \in aggregated[k] + 1 .. l - 1
          BY <1>1, <3>3, <4>3
        <5>2. Near(k, n)
          BY <1>1, <3>3, <5>1
        <5>3. ~(k < Len(aggregated))
          BY <1>1, <3>3
        <5> QED
          BY <5>2, <5>3 DEF Near
      <4> QED
        BY <1>1, <2>1, <2>2, <3>3, <4>1, <4>2, <4>3 DEF Near, Apart
    <3> QED
      BY <1>1, <2>2, <3>1, <3>2, <3>3
  <2> QED
    BY <2>1, <2>4 DEF Aggregating, SpikesLeftOut, Aggregated
<1>4. CASE l < Len(lst) /\ ~Leaves(l)
  <2>1. step' = "aggregate" /\ l' = l + 1 /\ aggregated' = aggregated
    BY <1>1, <1>4 DEF Aggregate
  <2>2. ASSUME NEW k \in 1 .. Len(aggregated), NEW n \in aggregated[k] + 1 .. l
        PROVE  Near(k, n)
    <3>1. CASE n \in aggregated[k] + 1 .. l - 1
      BY <1>1, <3>1
    <3>2. CASE n = l /\ k = Len(aggregated)
      BY <1>1, <1>4, <3>2 DEF Near, Leaves, Last
    <3>3. CASE n = l /\ k < Len(aggregated)
      <4>1. k + 1 \in 1 .. Len(aggregated)
        BY <1>1, <3>3
      <4>2. ~(l < aggregated[k + 1])
        BY <1>1, <1>2, <4>1
      <4> QED
        BY <3>3, <4>2 DEF Near
    <3> QED
      BY <1>1, <3>1, <3>2, <3>3
  <2>3. \A k, n : Near(k, n)' = Near(k, n)
    BY <1>1, <2>1 DEF Near, Log, Apart
  <2> QED
    BY <1>1, <2>1, <2>2, <2>3 DEF Aggregating, SpikesLeftOut, Aggregated, Log, Apart
<1>5. CASE l >= Len(lst)
  <2>1. step' = "find" /\ aggregated' = aggregated
    BY <1>1, <1>5 DEF Aggregate
  <2>2. \A k \in 1 .. Len(aggregated) :
          aggregated[k] + 1 .. Len(lst) - 1 \subseteq aggregated[k] + 1 .. l - 1
    BY <1>1, <1>5
  <2>3. \A k \in 1 .. Len(aggregated) : \A n \in aggregated[k] + 1 .. Len(lst) - 1 : Near(k, n)
    BY <1>1, <2>2
  <2>4. /\ DOMAIN aggregated' = 1 .. Len(aggregated)
        /\ \A k, n : Near(k, n)' = Near(k, n)
        /\ \A k : Log(k)' = Log(k)
    BY <1>1, <2>1 DEF Near, Log, Apart
  <2>5. \A k \in DOMAIN aggregated' :
           \A n \in aggregated'[k] + 1 .. Len(lst') - 1 : Near(k, n)'
    BY <1>1, <2>1, <2>3, <2>4
  <2>6. \A k \in DOMAIN aggregated' :
           k < Len(aggregated') => Apart(lst[aggregated[k + 1] + 1], Log(k))'
    BY <1>1, <2>1, <2>4 DEF Apart
  <2>7. SpikesLeftOut'
    BY <2>5, <2>6 DEF SpikesLeftOut, Near
  <2> QED
    BY <2>1, <2>7 DEF Aggregating
<1> QED
  BY <1>1, <1>3, <1>4, <1>5

LEMMA SpikeStep ==
    Core /\ Aggregating /\ SpikesLeftOut /\ [Next]_vars => Aggregating' /\ SpikesLeftOut'
<1> SUFFICES ASSUME Core, Aggregating, SpikesLeftOut, [Next]_vars
             PROVE  Aggregating' /\ SpikesLeftOut'
  OBVIOUS
<1>1. CASE UNCHANGED <<step, lst, l, aggregated>>
  BY <1>1 DEF Aggregating, SpikesLeftOut, Aggregated, Near, Log, Apart
<1>2. CASE RowArrives \/ UNCHANGED vars
  BY <1>1, <1>2, ArrivalKeepsTable DEF Core, page, vars
<1>3. CASE Count
  <2>1. aggregated' = <<>> /\ step' # "aggregate"
    BY <1>3 DEF Count, Core, Loops
  <2> QED
    BY <2>1 DEF Aggregating, SpikesLeftOut
<1>4. CASE ToList \/ ViewTrucker
  BY <1>4 DEF ToList, ViewTrucker, Aggregating, SpikesLeftOut, Aggregated
<1>5. CASE ReadRow
  <2>1. step' = "read" \/ (step' = "aggregate" /\ aggregated' = <<1>> /\ l' = 1)
    BY <1>5 DEF ReadRow, Core, Loops
  <2>2. CASE step' = "read"
    BY <2>2 DEF Aggregating, SpikesLeftOut, Aggregated
  <2>3. CASE step' = "aggregate" /\ aggregated' = <<1>> /\ l' = 1
    <3>1. Len(aggregated') = 1 /\ aggregated'[1] = 1 /\ 2 .. 0 = {}
      BY <2>3
    <3> QED
      BY <2>3, <3>1 DEF Aggregating, SpikesLeftOut, Aggregated
  <2> QED
    BY <2>1, <2>2, <2>3
<1>6. CASE Aggregate
  BY <1>6, SpikeAggregate
<1>7. CASE FindStopPoint \/ LastSegment \/ Draw
  <2>1. /\ UNCHANGED <<lst, aggregated>> /\ Aggregated
        /\ step' # "aggregate"
    BY <1>7 DEF FindStopPoint, LastSegment, Draw, AddSegment, Aggregated
  <2> QED
    BY <2>1 DEF Aggregating, SpikesLeftOut, Log, Apart
<1> QED
  BY <1>2, <1>3, <1>4, <1>5, <1>6, <1>7 DEF Next

(* AggregateNearbyLogs leaves out the rows near the log before them and    *)
(* the spikes, and aggregates no spike.                                    *)
THEOREM NoSpikes == Spec => []SpikesLeftOut
<1>1. Init => Aggregating /\ SpikesLeftOut
  BY DEF Init, Aggregating, SpikesLeftOut, Aggregated
<1>2. IInv /\ Aggregating /\ SpikesLeftOut /\ [Next]_vars => Aggregating' /\ SpikesLeftOut'
  BY SpikeStep DEF IInv
<1> QED
  BY <1>1, <1>2, Invariance, PTL DEF Spec

================================================================================
