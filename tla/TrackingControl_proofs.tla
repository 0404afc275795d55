------------------------ MODULE TrackingControl_proofs ------------------------
(***************************************************************************)
(* Theorems about TrackingControl, for any number of presses, departures   *)
(* and crashes: what the screen says and what the service does agree when  *)
(* nothing is under way, locations are recorded while the switch is on,    *)
(* and no updates outlive their service unless the user was hasty.         *)
(***************************************************************************)
EXTENDS TrackingControl, SequenceTheorems, FiniteSetTheorems, TLAPS

--------------------------------------------------------------------------------
(* The inductive invariant *)

Commands == {"START", "STOP"}
Queued == Messages \cup {"DELIVER"}

(* What is under way, in the order in which it reaches the main thread     *)
(* unless the service posts something meanwhile.                           *)
Line == looper \o channel

In(m, q) == \E n \in 1 .. Len(q) : q[n] = m

(* Of the orders q at most one makes a service and at most one destroys    *)
(* one, the older.  The activity manager has a record if it is to be made, *)
(* or exists and is not to be destroyed.                                   *)
OneAtATime(q, recorded, exists) ==
    /\ \A m, n \in 1 .. Len(q) : q[m] = q[n] /\ q[n] \in {"CREATE", "DESTROY"} => m = n
    /\ \A m, n \in 1 .. Len(q) : q[m] = "CREATE" /\ q[n] = "DESTROY" => n < m
    /\ recorded <=> In("CREATE", q) \/ (exists /\ ~In("DESTROY", q))
    /\ In("CREATE", q) /\ exists => In("DESTROY", q)
    /\ In("DESTROY", q) => exists

(* A command comes to a service: the present one, or one made before.      *)
Addressed(q, exists) ==
    \A n \in 1 .. Len(q) : q[n] \in Commands \cup {"NULL"} =>
        \/ exists /\ \A d \in 1 .. n : q[d] # "DESTROY"
        \/ \E c \in 1 .. n : q[c] = "CREATE"

(* No start comes after a stop.                                            *)
StopsLast(q) == \A m, n \in 1 .. Len(q) : q[m] = "STOP" /\ q[n] = "START" => n < m

Orders(q, recorded, exists) == OneAtATime(q, recorded, exists) /\ Addressed(q, exists)

(* One value at most waits to be set, and the service is there if made.    *)
Kept ==
    /\ \A m, n \in 1 .. Len(looper) : looper[m] = "DELIVER" /\ looper[n] = "DELIVER" => m = n
    /\ ~service.exists => service = NoService

(* What isRunning will be when what was posted is set.                     *)
Latest == IF pending # Unset THEN pending ELSE isRunning

(* isRunning follows the service, and the text follows isRunning.  A       *)
(* service that has stopped is on its way to be destroyed.                 *)
Followed ==
    /\ Latest = TRUE <=> service.isTracking
    /\ service.isTracking => service.started
    /\ service.started /\ ~service.isTracking => In("DESTROY", Line)
    /\ unseen => isRunning # Unset
    /\ ui = "shown" => ~unseen
    /\ ui # "dead" /\ ~unseen => (viewStatus = "RUNNING" <=> isRunning = TRUE)

(* A switch that differs from the service will be told: something that     *)
(* posts is under way.                                                     *)
Repaired ==
    /\ ui # "dead" /\ ~unseen /\ pending = Unset
    /\ ~In("STOP", Line) /\ ~In("DESTROY", Line)
    /\ service.isTracking \/ ~In("START", Line)
    => (switch <=> service.isTracking)

(* Locations are recorded by a service that tracks.                        *)
Recording == service.isTracking /\ permission /\ ~late => service.registered

(* While the user waits nothing crosses: what is under way says what the   *)
(* switch does, and no start follows a stop.                               *)
InStep ==
    ~hasty =>
        /\ ~leaked
        /\ StopsLast(Line)
        /\ In("DESTROY", Line) => ~In("START", Line) /\ ~service.registered
        /\ ui # "dead" =>
              /\ pending # Unset => (pending <=> switch)
              /\ unseen => (isRunning <=> switch)
              /\ In("STOP", Line) \/ In("DESTROY", Line) => ~switch
              /\ In("START", Line) /\ ~service.isTracking => switch

IInv ==
    /\ TypeOK /\ Orders(Line, record, service.exists) /\ Kept
    /\ Followed /\ Repaired /\ Recording /\ InStep

--------------------------------------------------------------------------------
(* Queues *)

LEMMA RangeIn ==
    ASSUME NEW S, NEW q \in Seq(S), NEW m
    PROVE  m \in Range(q) <=> In(m, q)
BY LenProperties DEF Range, In

(* The head leaves.                                                        *)
LEMMA InTail ==
    ASSUME NEW q \in Seq(Queued), q # <<>>, NEW m
    PROVE  /\ In(m, Tail(q)) => In(m, q)
           /\ In(m, q) => In(m, Tail(q)) \/ m = Head(q)
           /\ In(Head(q), q)
<1>1. /\ Len(q) \in Nat \ {0} /\ Len(Tail(q)) = Len(q) - 1
      /\ \A n \in 1 .. Len(Tail(q)) : Tail(q)[n] = q[n + 1]
    BY HeadTailProperties, EmptySeq
<1>2. q[1] = Head(q)
    OBVIOUS
<1>3. ASSUME NEW n \in 1 .. Len(q), n # 1
      PROVE  n - 1 \in 1 .. Len(Tail(q)) /\ Tail(q)[n - 1] = q[n]
    BY <1>1, <1>3
<1>. QED
    BY <1>1, <1>2, <1>3 DEF In

LEMMA OrdersTail ==
    ASSUME NEW q \in Seq(Queued), q # <<>>, NEW recorded \in BOOLEAN, NEW exists \in BOOLEAN,
           Orders(q, recorded, exists)
    PROVE  LET now == CASE Head(q) = "CREATE" -> TRUE
                        [] Head(q) = "DESTROY" -> FALSE
                        [] OTHER -> exists
           IN  /\ Orders(Tail(q), recorded, now)
               /\ Head(q) = "CREATE" => ~exists
               /\ Head(q) = "DESTROY" => exists /\ ~In("DESTROY", Tail(q))
               /\ Head(q) \in Commands \cup {"NULL"} => exists
<1>1. /\ Len(q) \in Nat \ {0} /\ Len(Tail(q)) = Len(q) - 1
      /\ \A n \in 1 .. Len(Tail(q)) : Tail(q)[n] = q[n + 1]
    BY HeadTailProperties, EmptySeq
<1>2. q[1] = Head(q)
    OBVIOUS
<1>3. \A m : In(m, q) <=> In(m, Tail(q)) \/ m = Head(q)
    BY InTail
<1>4. Head(q) \in {"CREATE", "DESTROY"} => ~In(Head(q), Tail(q))
    BY <1>1, <1>2 DEF Orders, OneAtATime, In
<1>5. Head(q) = "CREATE" => ~In("DESTROY", q)
    BY <1>1, <1>2 DEF Orders, OneAtATime, In
<1>6. /\ Head(q) = "CREATE" => ~exists
      /\ Head(q) = "DESTROY" => exists /\ ~In("DESTROY", Tail(q))
    BY <1>3, <1>4, <1>5 DEF Orders, OneAtATime
<1>7. Head(q) \in Commands \cup {"NULL"} => exists
    BY <1>1, <1>2 DEF Orders, Addressed, Commands
<1>. DEFINE now == CASE Head(q) = "CREATE" -> TRUE [] Head(q) = "DESTROY" -> FALSE [] OTHER -> exists
<1>8. OneAtATime(Tail(q), recorded, now)
    <2>1. \A m, n \in 1 .. Len(Tail(q)) :
              Tail(q)[m] = Tail(q)[n] /\ Tail(q)[n] \in {"CREATE", "DESTROY"} => m = n
        BY <1>1 DEF Orders, OneAtATime
    <2>2. \A m, n \in 1 .. Len(Tail(q)) :
              Tail(q)[m] = "CREATE" /\ Tail(q)[n] = "DESTROY" => n < m
        BY <1>1 DEF Orders, OneAtATime
    <2>. QED
        BY <2>1, <2>2, <1>3, <1>4, <1>5 DEF Orders, OneAtATime
<1>9. Addressed(Tail(q), now)
    <2>. SUFFICES ASSUME NEW n \in 1 .. Len(Tail(q)), Tail(q)[n] \in Commands \cup {"NULL"},
                         \A c \in 1 .. n : Tail(q)[c] # "CREATE"
                  PROVE  now /\ \A d \in 1 .. n : Tail(q)[d] # "DESTROY"
        BY DEF Addressed
    <2>1. /\ n + 1 \in 1 .. Len(q) /\ q[n + 1] = Tail(q)[n]
          /\ \A d \in 1 .. n : d + 1 \in 1 .. n + 1 /\ q[d + 1] = Tail(q)[d]
        BY <1>1
    <2>2. ASSUME NEW c \in 1 .. n + 1, c # 1
          PROVE  c - 1 \in 1 .. n /\ q[c] = Tail(q)[c - 1]
        <3>1. c - 1 \in 1 .. n /\ c - 1 \in 1 .. Len(Tail(q))
            BY <1>1, <2>2
        <3>. QED
            BY <1>1, <3>1
    <2>3. CASE Head(q) = "CREATE"
        BY <2>1, <2>3, <1>1, <1>5 DEF In
    <2>4. CASE Head(q) # "CREATE"
        <3>1. exists /\ \A d \in 1 .. n + 1 : q[d] # "DESTROY"
            BY <2>1, <2>2, <2>4, <1>2 DEF Orders, Addressed
        <3>. QED
            BY <3>1, <2>1, <2>4, <1>1, <1>2
    <2>. QED
        BY <2>3, <2>4
<1>. QED
    BY <1>6, <1>7, <1>8, <1>9 DEF Orders

(* A value that is posted goes between what has reached the main thread    *)
(* and what has not.                                                       *)
LEMMA Inserted ==
    ASSUME NEW p \in Seq(Queued), NEW c \in Seq(Queued)
    PROVE  LET q == p \o c
               r == Append(p, "DELIVER") \o c
           IN  /\ r \in Seq(Queued) /\ Len(r) = Len(q) + 1
               /\ \A n \in 1 .. Len(q) : IF n <= Len(p) THEN r[n] = q[n] ELSE r[n + 1] = q[n]
               /\ r[Len(p) + 1] = "DELIVER"
               /\ Len(p) \in 0 .. Len(q)
<1>1. /\ Append(p, "DELIVER") \in Seq(Queued) /\ Len(Append(p, "DELIVER")) = Len(p) + 1
      /\ \A n \in 1 .. Len(p) : Append(p, "DELIVER")[n] = p[n]
      /\ Append(p, "DELIVER")[Len(p) + 1] = "DELIVER"
      /\ Len(p) \in Nat /\ Len(c) \in Nat
    BY AppendProperties, LenProperties DEF Queued
<1>2. /\ p \o c \in Seq(Queued) /\ Len(p \o c) = Len(p) + Len(c)
      /\ \A n \in 1 .. Len(p) + Len(c) :
            (p \o c)[n] = IF n <= Len(p) THEN p[n] ELSE c[n - Len(p)]
    BY ConcatProperties
<1>. DEFINE a == Append(p, "DELIVER")
            r == a \o c
<1>3. /\ r \in Seq(Queued) /\ Len(r) = Len(a) + Len(c)
      /\ \A n \in 1 .. Len(a) + Len(c) : r[n] = IF n <= Len(a) THEN a[n] ELSE c[n - Len(a)]
    BY <1>1, ConcatProperties
<1>. HIDE DEF r, a
<1>4. ASSUME NEW n \in 1 .. Len(p \o c)
      PROVE  IF n <= Len(p) THEN r[n] = (p \o c)[n] ELSE r[n + 1] = (p \o c)[n]
    BY <1>1, <1>2, <1>3 DEF a
<1>. QED
    BY <1>1, <1>2, <1>3, <1>4 DEF r, a

LEMMA InInserted ==
    ASSUME NEW p \in Seq(Queued), NEW c \in Seq(Queued), NEW m
    PROVE  In(m, Append(p, "DELIVER") \o c) <=> In(m, p \o c) \/ m = "DELIVER"
<1>. DEFINE q == p \o c
            r == Append(p, "DELIVER") \o c
<1>1. /\ q \in Seq(Queued) /\ Len(q) \in Nat /\ Len(r) = Len(q) + 1
      /\ \A n \in 1 .. Len(q) : IF n <= Len(p) THEN r[n] = q[n] ELSE r[n + 1] = q[n]
      /\ r[Len(p) + 1] = "DELIVER" /\ Len(p) \in 0 .. Len(q)
    BY Inserted, ConcatProperties, LenProperties
<1>. HIDE DEF q, r
<1>2. ASSUME NEW n \in 1 .. Len(r), n # Len(p) + 1
      PROVE  \E k \in 1 .. Len(q) : r[n] = q[k]
    <2>1. CASE n <= Len(p)
        BY <1>1, <2>1
    <2>2. CASE n > Len(p) + 1
        <3>1. n - 1 \in 1 .. Len(q) /\ n - 1 > Len(p) /\ (n - 1) + 1 = n
            BY <1>1, <2>2
        <3>2. r[n] = q[n - 1]
            BY <1>1, <3>1
        <3>. QED
            BY <3>1, <3>2
    <2>. QED
        BY <1>1, <1>2, <2>1, <2>2
<1>3. ASSUME NEW n \in 1 .. Len(q)
      PROVE  \E k \in 1 .. Len(r) : r[k] = q[n]
    BY <1>1
<1>4. Len(p) + 1 \in 1 .. Len(r)
    BY <1>1
<1>5. In(m, r) => In(m, q) \/ m = "DELIVER"
    BY <1>1, <1>2 DEF In
<1>6. In(m, q) \/ m = "DELIVER" => In(m, r)
    BY <1>1, <1>3, <1>4 DEF In
<1>. QED
    BY <1>5, <1>6 DEF q, r

LEMMA OrdersInserted ==
    ASSUME NEW p \in Seq(Queued), NEW c \in Seq(Queued),
           NEW recorded \in BOOLEAN, NEW exists \in BOOLEAN
    PROVE  /\ Orders(p \o c, recorded, exists) => Orders(Append(p, "DELIVER") \o c, recorded, exists)
           /\ StopsLast(p \o c) => StopsLast(Append(p, "DELIVER") \o c)
<1>. DEFINE q == p \o c
            r == Append(p, "DELIVER") \o c
<1>1. /\ q \in Seq(Queued) /\ Len(q) \in Nat /\ Len(r) = Len(q) + 1
      /\ \A n \in 1 .. Len(q) : IF n <= Len(p) THEN r[n] = q[n] ELSE r[n + 1] = q[n]
      /\ r[Len(p) + 1] = "DELIVER" /\ Len(p) \in 0 .. Len(q)
    BY Inserted, ConcatProperties, LenProperties
<1>2. \A m : In(m, r) <=> In(m, q) \/ m = "DELIVER"
    BY InInserted
<1>. HIDE DEF q, r
<1>. DEFINE old == [n \in 1 .. Len(r) |-> IF n <= Len(p) THEN n ELSE n - 1]
<1>3. ASSUME NEW n \in 1 .. Len(r), r[n] # "DELIVER"
      PROVE  old[n] \in 1 .. Len(q) /\ r[n] = q[old[n]]
    <2>1. CASE n <= Len(p)
        BY <1>1, <2>1
    <2>2. CASE n > Len(p) + 1
        <3>1. n - 1 \in 1 .. Len(q) /\ n - 1 > Len(p) /\ (n - 1) + 1 = n
            BY <1>1, <2>2
        <3>. QED
            BY <1>1, <3>1
    <2>. QED
        BY <1>1, <1>3, <2>1, <2>2
<1>4. ASSUME NEW m \in 1 .. Len(r), NEW n \in 1 .. Len(r), r[m] # "DELIVER", r[n] # "DELIVER"
      PROVE  (m = n <=> old[m] = old[n]) /\ (m < n <=> old[m] < old[n])
    <2>1. m # Len(p) + 1 /\ n # Len(p) + 1
        BY <1>1, <1>4
    <2>. QED
        BY <1>1, <2>1
<1>5. ASSUME NEW n \in 1 .. Len(q)
      PROVE  \E k \in 1 .. Len(r) : k # Len(p) + 1 /\ old[k] = n /\ r[k] = q[n]
    <2>1. CASE n <= Len(p)
        BY <1>1, <2>1
    <2>2. CASE n > Len(p)
        <3>1. n + 1 \in 1 .. Len(r) /\ ~(n + 1 <= Len(p)) /\ (n + 1) - 1 = n /\ r[n + 1] = q[n]
            BY <1>1, <2>2
        <3>. QED
            BY <3>1, <2>2, <1>1
    <2>. QED
        BY <1>1, <2>1, <2>2
<1>. HIDE DEF old
<1>6. ASSUME OneAtATime(q, recorded, exists) PROVE OneAtATime(r, recorded, exists)
    <2>1. \A m, n \in 1 .. Len(r) : r[m] = r[n] /\ r[n] \in {"CREATE", "DESTROY"} => m = n
        BY <1>3, <1>4, <1>6 DEF OneAtATime
    <2>2. \A m, n \in 1 .. Len(r) : r[m] = "CREATE" /\ r[n] = "DESTROY" => n < m
        BY <1>3, <1>4, <1>6 DEF OneAtATime
    <2>. QED
        BY <2>1, <2>2, <1>2, <1>6 DEF OneAtATime
<1>7. ASSUME Addressed(q, exists) PROVE Addressed(r, exists)
    <2>. SUFFICES ASSUME NEW n \in 1 .. Len(r), r[n] \in Commands \cup {"NULL"},
                         \A k \in 1 .. n : r[k] # "CREATE"
                  PROVE  exists /\ \A d \in 1 .. n : r[d] # "DESTROY"
        BY DEF Addressed
    <2>1. r[n] # "DELIVER" /\ old[n] \in 1 .. Len(q) /\ q[old[n]] = r[n]
        BY <1>3 DEF Commands
    <2>2. ASSUME NEW k \in 1 .. old[n]
          PROVE  q[k] # "CREATE"
        <3>1. k \in 1 .. Len(q)
            BY <2>1, <1>1
        <3>2. PICK j \in 1 .. Len(r) : j # Len(p) + 1 /\ old[j] = k /\ r[j] = q[k]
            BY <3>1, <1>5
        <3>3. ASSUME q[k] = "CREATE" PROVE FALSE
            <4>1. r[j] # "DELIVER" /\ j <= n
                BY <1>4, <2>1, <3>2, <3>3
            <4>. QED
                BY <4>1, <3>2, <3>3
        <3>. QED
            BY <3>3
    <2>3. exists /\ \A d \in 1 .. old[n] : q[d] # "DESTROY"
        BY <1>7, <2>1, <2>2 DEF Addressed
    <2>4. ASSUME NEW d \in 1 .. n, r[d] = "DESTROY" PROVE FALSE
        <3>1. d \in 1 .. Len(r)
            BY <1>1
        <3>2. old[d] \in 1 .. Len(q) /\ q[old[d]] = "DESTROY" /\ old[d] <= old[n]
            BY <3>1, <1>3, <1>4, <2>1, <2>4
        <3>. QED
            BY <3>2, <2>1, <2>3
    <2>. QED
        BY <2>3, <2>4
<1>8. ASSUME StopsLast(q) PROVE StopsLast(r)
    BY <1>3, <1>4, <1>8 DEF StopsLast
<1>. QED
    BY <1>6, <1>7, <1>8 DEF Orders, q, r

(* What SendCommands adds to the channel.                                  *)
Sent(recorded, commands) ==
    (IF recorded \/ commands = <<>> THEN <<>> ELSE <<"CREATE">>) \o commands

LEMMA SentEntries ==
    ASSUME NEW q \in Seq(Queued), NEW commands \in Seq(Commands), NEW recorded \in BOOLEAN
    PROVE  LET s == Sent(recorded, commands)
               r == q \o s
               new == ~recorded /\ commands # <<>>
           IN  /\ s \in Seq(Messages) /\ r \in Seq(Queued)
               /\ Len(q) \in Nat /\ Len(r) \in Nat /\ Len(q) <= Len(r)
               /\ \A n \in 1 .. Len(q) : r[n] = q[n]
               /\ new => Len(q) < Len(r) /\ r[Len(q) + 1] = "CREATE"
               /\ \A n \in Len(q) + 1 .. Len(r) :
                     \/ \E k \in 1 .. Len(commands) :
                           r[n] = commands[k] /\ n = Len(r) - Len(commands) + k
                     \/ new /\ r[n] = "CREATE" /\ n = Len(q) + 1
               /\ \A k \in 1 .. Len(commands) :
                     /\ Len(r) - Len(commands) + k \in Len(q) + 1 .. Len(r)
                     /\ r[Len(r) - Len(commands) + k] = commands[k]
               /\ commands = <<>> => r = q
<1>. DEFINE s == Sent(recorded, commands)
            r == q \o s
            new == ~recorded /\ commands # <<>>
            first == IF new THEN <<"CREATE">> ELSE <<>>
<1>1. /\ Len(commands) \in Nat /\ commands \in Seq(Messages) /\ Len(q) \in Nat
      /\ commands # <<>> => Len(commands) > 0
    BY SeqMonotonic, LenProperties, EmptySeq DEF Commands, Messages
<1>2. /\ first \in Seq(Messages) /\ Len(first) = (IF new THEN 1 ELSE 0)
      /\ new => first[1] = "CREATE"
    BY DEF Messages
<1>3. s = first \o commands
    BY DEF Sent
<1>. HIDE DEF first
<1>4. /\ s \in Seq(Messages) /\ Len(s) = Len(first) + Len(commands)
      /\ \A n \in 1 .. Len(first) + Len(commands) :
            s[n] = IF n <= Len(first) THEN first[n] ELSE commands[n - Len(first)]
    BY <1>1, <1>2, <1>3, ConcatProperties
<1>5. s \in Seq(Queued)
    BY <1>4, SeqMonotonic DEF Queued
<1>. HIDE DEF s
<1>6. /\ r \in Seq(Queued) /\ Len(r) = Len(q) + Len(s)
      /\ \A n \in 1 .. Len(q) + Len(s) : r[n] = IF n <= Len(q) THEN q[n] ELSE s[n - Len(q)]
    BY <1>5, ConcatProperties
<1>7. commands = <<>> => r = q
    <2>1. commands = <<>> => s = <<>>
        BY DEF s, Sent
    <2>. QED
        BY <2>1, ConcatEmptySeq
<1>. HIDE DEF r
<1>8. ASSUME NEW n \in Len(q) + 1 .. Len(r)
      PROVE  \/ \E k \in 1 .. Len(commands) :
                   r[n] = commands[k] /\ n = Len(r) - Len(commands) + k
             \/ new /\ r[n] = "CREATE" /\ n = Len(q) + 1
    <2>1. n - Len(q) \in 1 .. Len(s) /\ r[n] = s[n - Len(q)]
        BY <1>1, <1>2, <1>4, <1>6
    <2>2. CASE n - Len(q) <= Len(first)
        BY <2>1, <2>2, <1>1, <1>2, <1>4
    <2>3. CASE n - Len(q) > Len(first)
        <3>. DEFINE k == n - Len(q) - Len(first)
        <3>1. /\ k \in 1 .. Len(commands) /\ n = Len(r) - Len(commands) + k
              /\ n - Len(q) \in 1 .. Len(first) + Len(commands)
              /\ ~(n - Len(q) <= Len(first)) /\ (n - Len(q)) - Len(first) = k
            BY <2>1, <2>3, <1>1, <1>2, <1>4, <1>6
        <3>. HIDE DEF k
        <3>2. s[n - Len(q)] = commands[k]
            BY <3>1, <1>4
        <3>. QED
            BY <2>1, <3>1, <3>2
    <2>. QED
        BY <2>2, <2>3, <1>1, <1>2
<1>9. ASSUME NEW k \in 1 .. Len(commands)
      PROVE  /\ Len(r) - Len(commands) + k \in Len(q) + 1 .. Len(r)
             /\ r[Len(r) - Len(commands) + k] = commands[k]
    <2>1. /\ Len(r) - Len(commands) + k = Len(q) + Len(first) + k
          /\ Len(first) + k \in 1 .. Len(s) /\ Len(q) + Len(first) + k \in 1 .. Len(r)
        BY <1>1, <1>2, <1>4, <1>6
    <2>2. s[Len(first) + k] = commands[k]
        BY <2>1, <1>1, <1>2, <1>4
    <2>3. /\ ~(Len(q) + Len(first) + k <= Len(q))
          /\ (Len(q) + Len(first) + k) - Len(q) = Len(first) + k
          /\ Len(q) + Len(first) + k \in Len(q) + 1 .. Len(r)
        BY <2>1, <1>1, <1>2
    <2>4. r[Len(q) + Len(first) + k] = s[Len(first) + k]
        BY <2>1, <2>3, <1>6
    <2>. QED
        BY <2>1, <2>2, <2>3, <2>4
<1>10. /\ Len(r) \in Nat /\ Len(q) <= Len(r)
       /\ \A n \in 1 .. Len(q) : r[n] = q[n]
    <2>1. Len(s) \in Nat
        BY <1>1, <1>2, <1>4
    <2>. QED
        BY <2>1, <1>1, <1>6
<1>11. ASSUME new PROVE Len(q) < Len(r) /\ r[Len(q) + 1] = "CREATE"
    <2>1. Len(first) = 1 /\ Len(s) > 0 /\ (Len(q) + 1) - Len(q) = 1
        BY <1>1, <1>2, <1>4, <1>11
    <2>2. s[1] = "CREATE"
        BY <2>1, <1>1, <1>2, <1>4, <1>11
    <2>. QED
        BY <2>1, <2>2, <1>1, <1>4, <1>6
<1>. QED
    BY <1>1, <1>4, <1>6, <1>7, <1>8, <1>9, <1>10, <1>11 DEF r, s

LEMMA OrdersSent ==
    ASSUME NEW q \in Seq(Queued), NEW commands \in Seq(Commands),
           NEW recorded \in BOOLEAN, NEW exists \in BOOLEAN, Orders(q, recorded, exists)
    PROVE  LET r == q \o Sent(recorded, commands)
           IN  /\ Orders(r, recorded \/ commands # <<>>, exists)
               /\ \A m : In(m, r) <=>
                     In(m, q) \/ In(m, commands) \/ (m = "CREATE" /\ ~recorded /\ commands # <<>>)
               /\ StopsLast(q) /\ StopsLast(commands) /\ ~In("STOP", q) => StopsLast(r)
<1>. DEFINE r == q \o Sent(recorded, commands)
            new == ~recorded /\ commands # <<>>
<1>1. /\ Len(q) \in Nat /\ Len(r) \in Nat /\ Len(q) <= Len(r)
      /\ \A n \in 1 .. Len(q) : r[n] = q[n]
      /\ new => Len(q) < Len(r) /\ r[Len(q) + 1] = "CREATE"
      /\ \A n \in Len(q) + 1 .. Len(r) :
            \/ \E k \in 1 .. Len(commands) : r[n] = commands[k] /\ n = Len(r) - Len(commands) + k
            \/ new /\ r[n] = "CREATE" /\ n = Len(q) + 1
      /\ \A k \in 1 .. Len(commands) :
            /\ Len(r) - Len(commands) + k \in Len(q) + 1 .. Len(r)
            /\ r[Len(r) - Len(commands) + k] = commands[k]
      /\ commands = <<>> => r = q
    BY SentEntries
<1>. HIDE DEF r
<1>0. /\ \A n \in 1 .. Len(r) : n <= Len(q) => n \in 1 .. Len(q) /\ r[n] = q[n]
      /\ \A n \in 1 .. Len(q) : n \in 1 .. Len(r)
    BY <1>1
<1>2. /\ \A k \in 1 .. Len(commands) : commands[k] \in Commands
      /\ Len(commands) \in Nat /\ (commands # <<>> <=> Len(commands) > 0)
    BY ElementOfSeq, LenProperties, EmptySeq
<1>3. ASSUME NEW m
      PROVE  In(m, r) <=> In(m, q) \/ In(m, commands) \/ (m = "CREATE" /\ new)
    <2>1. ASSUME In(m, r) PROVE In(m, q) \/ In(m, commands) \/ (m = "CREATE" /\ new)
        <3>1. PICK n \in 1 .. Len(r) : r[n] = m
            BY <2>1 DEF In
        <3>2. CASE n <= Len(q)
            BY <3>1, <3>2, <1>1 DEF In
        <3>3. CASE n > Len(q)
            <4>1. n \in Len(q) + 1 .. Len(r)
                BY <3>3, <1>1
            <4>. QED
                BY <3>1, <4>1, <1>1 DEF In
        <3>. QED
            BY <3>2, <3>3, <1>1
    <2>2. In(m, q) => In(m, r)
        BY <1>0, <1>1 DEF In
    <2>3. In(m, commands) => In(m, r)
        <3>1. ASSUME NEW k \in 1 .. Len(commands), commands[k] = m PROVE In(m, r)
            <4>1. Len(r) - Len(commands) + k \in 1 .. Len(r)
                BY <1>1, <1>2
            <4>. QED
                BY <3>1, <4>1, <1>1 DEF In
        <3>. QED
            BY <3>1 DEF In
    <2>4. m = "CREATE" /\ new => In(m, r)
        <3>1. new => Len(q) + 1 \in 1 .. Len(r)
            BY <1>1
        <3>. QED
            BY <3>1, <1>1 DEF In
    <2>. QED
        BY <2>1, <2>2, <2>3, <2>4
<1>4. ASSUME NEW n \in 1 .. Len(r), n > Len(q)
      PROVE  r[n] \in Commands \/ (new /\ r[n] = "CREATE" /\ n = Len(q) + 1)
    <2>1. n \in Len(q) + 1 .. Len(r)
        BY <1>1, <1>4
    <2>. QED
        BY <2>1, <1>1, <1>2
<1>5. ~In("CREATE", commands) /\ ~In("DESTROY", commands)
    BY <1>2 DEF In, Commands
<1>6. new => ~In("CREATE", q)
    BY DEF Orders, OneAtATime
<1>7. \A m, n \in 1 .. Len(r) : r[m] = r[n] /\ r[n] \in {"CREATE", "DESTROY"} => m = n
    <2>. SUFFICES ASSUME NEW m \in 1 .. Len(r), NEW n \in 1 .. Len(r),
                         r[m] = r[n], r[n] \in {"CREATE", "DESTROY"}
                  PROVE  m = n
        OBVIOUS
    <2>1. CASE m <= Len(q) /\ n <= Len(q)
        BY <2>1, <1>0 DEF Orders, OneAtATime
    <2>2. CASE m > Len(q) /\ n > Len(q)
        BY <2>2, <1>4 DEF Commands
    <2>3. CASE m <= Len(q) /\ n > Len(q)
        BY <2>3, <1>0, <1>4, <1>6 DEF Commands, In
    <2>4. CASE m > Len(q) /\ n <= Len(q)
        BY <2>4, <1>0, <1>4, <1>6 DEF Commands, In
    <2>. QED
        BY <1>1, <2>1, <2>2, <2>3, <2>4
<1>8. \A m, n \in 1 .. Len(r) : r[m] = "CREATE" /\ r[n] = "DESTROY" => n < m
    <2>. SUFFICES ASSUME NEW m \in 1 .. Len(r), NEW n \in 1 .. Len(r),
                         r[m] = "CREATE", r[n] = "DESTROY"
                  PROVE  n < m
        OBVIOUS
    <2>1. n <= Len(q)
        BY <1>1, <1>4 DEF Commands
    <2>2. CASE m <= Len(q)
        BY <2>1, <2>2, <1>0 DEF Orders, OneAtATime
    <2>. QED
        BY <2>1, <2>2, <1>1
<1>9. OneAtATime(r, recorded \/ commands # <<>>, exists)
    BY <1>3, <1>5, <1>7, <1>8 DEF Orders, OneAtATime
<1>10. Addressed(r, exists)
    <2>. SUFFICES ASSUME NEW n \in 1 .. Len(r), r[n] \in Commands \cup {"NULL"},
                         \A k \in 1 .. n : r[k] # "CREATE"
                  PROVE  exists /\ \A d \in 1 .. n : r[d] # "DESTROY"
        BY DEF Addressed
    <2>1. CASE n <= Len(q)
        <3>1. n \in 1 .. Len(q) /\ \A k \in 1 .. n : k \in 1 .. Len(q) /\ r[k] = q[k]
            BY <2>1, <1>0, <1>1
        <3>2. q[n] \in Commands \cup {"NULL"} /\ \A k \in 1 .. n : q[k] # "CREATE"
            BY <3>1
        <3>. QED
            BY <3>1, <3>2 DEF Orders, Addressed
    <2>2. CASE n > Len(q)
        <3>1. ~new
            <4>1. Len(q) + 1 \in 1 .. n
                BY <1>1, <2>2
            <4>. QED
                BY <4>1, <1>1
        <3>2. commands # <<>>
            BY <1>1, <2>2
        <3>3. ~In("CREATE", q)
            BY <1>1, <2>2 DEF In
        <3>4. exists /\ ~In("DESTROY", q)
            BY <3>1, <3>2, <3>3 DEF Orders, OneAtATime
        <3>5. ~In("DESTROY", r)
            BY <3>4, <1>3, <1>5
        <3>. QED
            BY <3>4, <3>5, <1>1 DEF In
    <2>. QED
        BY <2>1, <2>2, <1>1
<1>11. ASSUME StopsLast(q), StopsLast(commands), ~In("STOP", q)
       PROVE  StopsLast(r)
    <2>. SUFFICES ASSUME NEW m \in 1 .. Len(r), NEW n \in 1 .. Len(r),
                         r[m] = "STOP", r[n] = "START", ~(n < m)
                  PROVE  FALSE
        BY DEF StopsLast
    <2>1. m \in Len(q) + 1 .. Len(r) /\ n \in Len(q) + 1 .. Len(r)
        BY <1>1, <1>11 DEF In
    <2>2. PICK j \in 1 .. Len(commands) : r[m] = commands[j] /\ m = Len(r) - Len(commands) + j
        BY <2>1, <1>1
    <2>3. PICK k \in 1 .. Len(commands) : r[n] = commands[k] /\ n = Len(r) - Len(commands) + k
        BY <2>1, <1>1
    <2>. QED
        BY <2>2, <2>3, <1>1, <1>2, <1>11 DEF StopsLast
<1>. QED
    BY <1>3, <1>9, <1>10, <1>11 DEF r, Orders

LEMMA OrdersDestroyed ==
    ASSUME NEW q \in Seq(Queued), NEW exists \in BOOLEAN, Orders(q, TRUE, exists), ~In("CREATE", q)
    PROVE  LET r == Append(q, "DESTROY")
           IN  /\ exists /\ Orders(r, FALSE, exists)
               /\ \A m : In(m, r) <=> In(m, q) \/ m = "DESTROY"
               /\ StopsLast(q) => StopsLast(r)
<1>. DEFINE r == Append(q, "DESTROY")
<1>1. /\ Len(q) \in Nat /\ Len(r) = Len(q) + 1 /\ r[Len(q) + 1] = "DESTROY"
      /\ \A n \in 1 .. Len(q) : r[n] = q[n]
    BY AppendProperties, LenProperties DEF Queued, Messages
<1>. HIDE DEF r
<1>2. exists /\ ~In("DESTROY", q)
    BY DEF Orders, OneAtATime
<1>3. /\ \A n \in 1 .. Len(r) : n = Len(q) + 1 \/ n \in 1 .. Len(q)
      /\ \A n \in 1 .. Len(q) : n \in 1 .. Len(r)
      /\ Len(q) + 1 \in 1 .. Len(r)
    BY <1>1
<1>4. \A m : In(m, r) <=> In(m, q) \/ m = "DESTROY"
    BY <1>1, <1>3 DEF In
<1>5. \A n \in 1 .. Len(r) : r[n] = "DESTROY" => n = Len(q) + 1
    BY <1>1, <1>2, <1>3 DEF In
<1>6. \A n \in 1 .. Len(r) : r[n] # "CREATE"
    BY <1>1, <1>3 DEF In
<1>7. OneAtATime(r, FALSE, exists)
    BY <1>2, <1>4, <1>5, <1>6
    DEF OneAtATime
<1>8. Addressed(r, exists)
    <2>. SUFFICES ASSUME NEW n \in 1 .. Len(r), r[n] \in Commands \cup {"NULL"}
                  PROVE  \A d \in 1 .. n : r[d] # "DESTROY"
        BY <1>2 DEF Addressed
    <2>1. n # Len(q) + 1
        BY <1>1 DEF Commands
    <2>. QED
        BY <2>1, <1>1, <1>3, <1>5
<1>9. StopsLast(q) => StopsLast(r)
    BY <1>1, <1>3 DEF StopsLast
<1>. QED
    BY <1>2, <1>4, <1>7, <1>8, <1>9 DEF Orders, r

(* What the activity manager has delivered again: the service is made first. *)
LEMMA OrdersAgain ==
    ASSUME NEW commands \in Seq(Commands \cup {"NULL"})
    PROVE  LET r == <<"CREATE">> \o commands
           IN  /\ r \in Seq(Messages) /\ Orders(r, TRUE, FALSE)
               /\ ~In("DESTROY", r) /\ ~In("DELIVER", r)
               /\ StopsLast(commands) => StopsLast(r)
<1>. DEFINE one == <<"CREATE">>
            r == one \o commands
<1>1. /\ one \in Seq(Messages) /\ Len(one) = 1 /\ one[1] = "CREATE"
      /\ commands \in Seq(Messages) /\ Len(commands) \in Nat
      /\ \A n \in 1 .. Len(commands) : commands[n] \in Commands \cup {"NULL"}
    BY SeqMonotonic, LenProperties, ElementOfSeq DEF Messages, Commands
<1>. HIDE DEF one
<1>2. /\ r \in Seq(Messages) /\ Len(r) = 1 + Len(commands)
      /\ \A n \in 1 .. 1 + Len(commands) : r[n] = IF n <= 1 THEN one[n] ELSE commands[n - 1]
    <2>1. /\ r \in Seq(Messages) /\ Len(r) = Len(one) + Len(commands)
          /\ \A n \in 1 .. Len(one) + Len(commands) :
                r[n] = IF n <= Len(one) THEN one[n] ELSE commands[n - Len(one)]
        BY <1>1, ConcatProperties
    <2>. QED
        BY <1>1, <2>1
<1>. HIDE DEF r
<1>3. /\ r[1] = "CREATE" /\ 1 \in 1 .. Len(r)
      /\ \A n \in 1 .. Len(r) : n # 1 =>
            n - 1 \in 1 .. Len(commands) /\ r[n] = commands[n - 1]
    BY <1>1, <1>2
<1>4. \A n \in 1 .. Len(r) : n # 1 => r[n] \in Commands \cup {"NULL"}
    BY <1>1, <1>3
<1>5. ~In("DESTROY", r) /\ ~In("DELIVER", r) /\ In("CREATE", r)
    BY <1>3, <1>4 DEF In, Commands
<1>6. OneAtATime(r, TRUE, FALSE)
    BY <1>3, <1>4, <1>5 DEF OneAtATime, Commands, In
<1>7. Addressed(r, FALSE)
    <2>1. \A n \in 1 .. Len(r) : 1 \in 1 .. n
        BY <1>1, <1>2
    <2>. QED
        BY <2>1, <1>3 DEF Addressed
<1>8. StopsLast(commands) => StopsLast(r)
    <2>. SUFFICES ASSUME StopsLast(commands), NEW m \in 1 .. Len(r), NEW n \in 1 .. Len(r),
                         r[m] = "STOP", r[n] = "START"
                  PROVE  n < m
        BY DEF StopsLast
    <2>1. m # 1 /\ n # 1
        BY <1>3
    <2>2. n - 1 < m - 1
        BY <2>1, <1>3 DEF StopsLast
    <2>. QED
        BY <2>2
<1>. QED
    BY <1>2, <1>5, <1>6, <1>7, <1>8 DEF r, one, Orders

(* Entries(q, P) has the entries of q at P, in their order.                *)
LEMMA EntriesInOrder ==
    ASSUME NEW S, NEW q \in Seq(S), NEW P \in SUBSET (1 .. Len(q))
    PROVE  LET e == Entries(q, P)
           IN  /\ e \in Seq({q[n] : n \in P})
               /\ \A i, j \in 1 .. Len(e) : i <= j =>
                     \E m, n \in P : m <= n /\ e[i] = q[m] /\ e[j] = q[n]
<1>. DEFINE Below(n) == {m \in P : m < n}
            rank == [n \in P |-> Cardinality(Below(n)) + 1]
            c == Cardinality(P)
<1>1. /\ IsFiniteSet(P) /\ c \in Nat /\ P \subseteq Nat
      /\ IsFiniteSet(1 .. c) /\ Cardinality(1 .. c) = c
    <2>1. Len(q) \in Nat /\ 1 \in Int /\ Len(q) \in Int
        BY LenProperties
    <2>2. IsFiniteSet(1 .. Len(q))
        BY <2>1, FS_Interval
    <2>3. IsFiniteSet(P)
        BY <2>2, FS_Subset
    <2>4. c \in Nat
        BY <2>3, FS_CardinalityType
    <2>5. IsFiniteSet(1 .. c) /\ Cardinality(1 .. c) = IF 1 > c THEN 0 ELSE c - 1 + 1
        <3>1. 1 \in Int /\ c \in Int
            BY <2>4
        <3>. QED
            BY <3>1, FS_Interval
    <2>. QED
        BY <2>1, <2>3, <2>4, <2>5
<1>2. ASSUME NEW n \in P
      PROVE  IsFiniteSet(Below(n)) /\ Cardinality(Below(n)) \in Nat /\ Cardinality(Below(n)) < c
    <2>1. IsFiniteSet(Below(n)) /\ Cardinality(Below(n)) <= c /\ Cardinality(Below(n)) # c
        <3>1. Below(n) \in SUBSET P /\ Below(n) # P
            BY <1>1
        <3>. QED
            BY <3>1, <1>1, FS_Subset
    <2>. QED
        BY <2>1, <1>1, FS_CardinalityType
<1>3. \A n \in P : rank[n] = Cardinality(Below(n)) + 1
    OBVIOUS
<1>4. ASSUME NEW m \in P, NEW n \in P, m < n
      PROVE  rank[m] < rank[n]
    <2>1. m \in Nat /\ n \in Nat
        BY <1>1
    <2>2. Below(m) \in SUBSET Below(n) /\ Below(m) # Below(n)
        <3>1. m \in Below(n) /\ m \notin Below(m)
            BY <1>4, <2>1
        <3>2. \A k \in P : k < m => k < n
            BY <1>1, <1>4, <2>1
        <3>. QED
            BY <3>1, <3>2
    <2>3. Cardinality(Below(m)) <= Cardinality(Below(n)) /\ Cardinality(Below(m)) # Cardinality(Below(n))
        BY <2>2, <1>2, FS_Subset
    <2>. HIDE DEF Below, rank
    <2>. QED
        BY <2>3, <1>2, <1>3
<1>. HIDE DEF c, Below
<1>5. rank \in [P -> 1 .. c]
    BY <1>1, <1>2
<1>. HIDE DEF rank
<1>6. rank \in Surjection(P, 1 .. c)
    <2>1. ASSUME NEW m \in P, NEW n \in P, m # n
          PROVE  rank[m] # rank[n]
        <3>1. m < n \/ n < m
            BY <1>1, <2>1
        <3>. QED
            BY <3>1, <1>4, <1>5
    <2>2. rank \in Injection(P, 1 .. c)
        BY <2>1, <1>5 DEF Injection, IsInjective
    <2>. QED
        BY <2>2, <1>1, FS_Injection DEF c
<1>7. ASSUME NEW k \in 1 .. c
      PROVE  \E n \in P : Cardinality(Below(n)) = k - 1
    <2>1. PICK n \in P : rank[n] = k
        BY <1>6 DEF Surjection
    <2>2. rank[n] = Cardinality(Below(n)) + 1 /\ Cardinality(Below(n)) \in Nat
        BY <1>2, <1>3
    <2>. QED
        BY <2>1, <2>2
<1>. DEFINE at(k) == CHOOSE n \in P : Cardinality(Below(n)) = k - 1
            e == [k \in 1 .. c |-> q[at(k)]]
<1>8. ASSUME NEW k \in 1 .. c
      PROVE  at(k) \in P /\ rank[at(k)] = k
    <2>1. at(k) \in P /\ Cardinality(Below(at(k))) = k - 1
        BY <1>7
    <2>. HIDE DEF at
    <2>2. rank[at(k)] = (k - 1) + 1
        BY <2>1, <1>3
    <2>. QED
        BY <2>1, <2>2
<1>9. e = Entries(q, P)
    BY DEF Entries, Below, c
<1>. HIDE DEF at
<1>10. e \in Seq({q[n] : n \in P}) /\ Len(e) = c
    <2>1. \A k \in 1 .. c : e[k] \in {q[n] : n \in P}
        BY <1>8
    <2>. QED
        BY <2>1, <1>1
<1>11. ASSUME NEW i \in 1 .. c, NEW j \in 1 .. c, i <= j
       PROVE  at(i) <= at(j) /\ e[i] = q[at(i)] /\ e[j] = q[at(j)]
    <2>1. at(i) \in Nat /\ at(j) \in Nat /\ rank[at(i)] = i /\ rank[at(j)] = j
        BY <1>1, <1>8
    <2>2. ~(at(j) < at(i))
        <3>1. ~(j < i)
            BY <1>11
        <3>. QED
            BY <3>1, <2>1, <1>4, <1>8
    <2>. QED
        BY <2>1, <2>2
<1>12. \A i, j \in 1 .. Len(e) : i <= j =>
           \E m, n \in P : m <= n /\ e[i] = q[m] /\ e[j] = q[n]
    BY <1>8, <1>10, <1>11
<1>. HIDE DEF e
<1>. QED
    BY <1>9, <1>10, <1>12

--------------------------------------------------------------------------------
(* What the steps do to the line *)

LEMMA LineTyped ==
    ASSUME TypeOK
    PROVE  /\ looper \in Seq(Queued) /\ channel \in Seq(Messages) /\ channel \in Seq(Queued)
           /\ Line \in Seq(Queued)
           /\ pending # Unset <=> In("DELIVER", looper)
<1>1. looper \in Seq(Queued) /\ channel \in Seq(Messages)
    BY DEF TypeOK, Queued
<1>2. channel \in Seq(Queued)
    BY <1>1, SeqMonotonic DEF Queued
<1>. QED
    BY <1>1, <1>2, ConcatProperties, RangeIn DEF Line, TypeOK

LEMMA TailOfLine ==
    ASSUME NEW p \in Seq(Queued), NEW c \in Seq(Queued), p # <<>>
    PROVE  p \o c # <<>> /\ Head(p \o c) = Head(p) /\ Tail(p \o c) = Tail(p) \o c
<1>1. /\ Len(p) \in Nat \ {0} /\ Len(c) \in Nat /\ Len(p \o c) = Len(p) + Len(c)
      /\ p \o c \in Seq(Queued)
      /\ \A n \in 1 .. Len(p) + Len(c) : (p \o c)[n] = IF n <= Len(p) THEN p[n] ELSE c[n - Len(p)]
    BY ConcatProperties, LenProperties, EmptySeq
<1>2. p \o c # <<>>
    BY <1>1
<1>3. /\ Tail(p) \in Seq(Queued) /\ Len(Tail(p)) = Len(p) - 1
      /\ \A n \in 1 .. Len(Tail(p)) : Tail(p)[n] = p[n + 1]
    BY <1>1, HeadTailProperties
<1>. DEFINE q == p \o c
            a == Tail(q)
            b == Tail(p) \o c
<1>4. /\ a \in Seq(Queued) /\ Len(a) = Len(q) - 1
      /\ \A n \in 1 .. Len(a) : a[n] = q[n + 1]
    BY <1>1, <1>2, HeadTailProperties
<1>5. /\ b \in Seq(Queued) /\ Len(b) = Len(Tail(p)) + Len(c)
      /\ \A n \in 1 .. Len(Tail(p)) + Len(c) :
            b[n] = IF n <= Len(Tail(p)) THEN Tail(p)[n] ELSE c[n - Len(Tail(p))]
    BY <1>3, ConcatProperties
<1>6. Head(q) = Head(p)
    BY <1>1, <1>2
<1>. HIDE DEF a, b, q
<1>7. ASSUME NEW n \in 1 .. Len(a)
      PROVE  a[n] = b[n]
    <2>1. n + 1 \in 1 .. Len(p) + Len(c) /\ n \in 1 .. Len(Tail(p)) + Len(c) /\ a[n] = q[n + 1]
        BY <1>1, <1>3, <1>4 DEF q
    <2>2. CASE n <= Len(Tail(p))
        BY <2>1, <2>2, <1>1, <1>3, <1>5 DEF q
    <2>3. CASE n > Len(Tail(p))
        <3>1. ~(n <= Len(Tail(p))) /\ ~(n + 1 <= Len(p)) /\ (n + 1) - Len(p) = n - Len(Tail(p))
            BY <2>1, <2>3, <1>1, <1>3
        <3>2. b[n] = c[n - Len(Tail(p))]
            BY <3>1, <2>1, <1>5
        <3>3. q[n + 1] = c[(n + 1) - Len(p)]
            BY <3>1, <2>1, <1>1 DEF q
        <3>. QED
            BY <2>1, <3>1, <3>2, <3>3
    <2>. QED
        BY <2>1, <2>2, <2>3, <1>1, <1>3
<1>8. Len(a) = Len(b)
    BY <1>1, <1>3, <1>4, <1>5 DEF q
<1>9. a = b
    BY <1>4, <1>5, <1>7, <1>8, SeqEqual
<1>. QED
    BY <1>2, <1>6, <1>9 DEF a, b, q

LEMMA ArrivedLine ==
    ASSUME NEW p \in Seq(Queued), NEW c \in Seq(Queued), c # <<>>
    PROVE  Append(p, Head(c)) \o Tail(c) = p \o c
<1>1. Head(c) \in Queued /\ Tail(c) \in Seq(Queued)
    BY HeadTailProperties
<1>2. Append(p, Head(c)) = p \o <<Head(c)>>
    BY <1>1, AppendIsConcat
<1>3. <<Head(c)>> \in Seq(Queued)
    BY <1>1
<1>4. (p \o <<Head(c)>>) \o Tail(c) = p \o (<<Head(c)>> \o Tail(c))
    BY <1>1, <1>3, ConcatAssociative
<1>5. <<Head(c)>> \o Tail(c) = c
    OBVIOUS
<1>. QED
    BY <1>2, <1>4, <1>5

LEMMA AppendedLine ==
    ASSUME NEW p \in Seq(Queued), NEW c \in Seq(Queued), NEW m \in Queued
    PROVE  p \o Append(c, m) = Append(p \o c, m)
<1>1. /\ <<m>> \in Seq(Queued) /\ p \o c \in Seq(Queued)
      /\ Append(c, m) = c \o <<m>>
    BY AppendIsConcat, ConcatProperties
<1>2. Append(p \o c, m) = (p \o c) \o <<m>>
    BY <1>1, AppendIsConcat
<1>. QED
    BY <1>1, <1>2, ConcatAssociative

LEMMA SentLine ==
    ASSUME NEW p \in Seq(Queued), NEW c \in Seq(Messages), NEW commands \in Seq(Commands),
           NEW recorded \in BOOLEAN
    PROVE  LET d == c \o (IF recorded \/ commands = <<>> THEN <<>> ELSE <<"CREATE">>) \o commands
           IN  /\ d \in Seq(Messages)
               /\ p \o d = (p \o c) \o Sent(recorded, commands)
<1>. DEFINE first == IF recorded \/ commands = <<>> THEN <<>> ELSE <<"CREATE">>
<1>1. first \in Seq(Messages) /\ commands \in Seq(Messages) /\ c \in Seq(Queued)
    <2>1. Messages \subseteq Queued /\ Commands \subseteq Messages
        BY DEF Messages, Commands, Queued
    <2>2. <<>> \in Seq(Messages) /\ <<"CREATE">> \in Seq(Messages)
        BY DEF Messages
    <2>3. first \in {<<>>, <<"CREATE">>}
        OBVIOUS
    <2>. QED
        BY <2>1, <2>2, <2>3, SeqMonotonic
<1>2. Sent(recorded, commands) = first \o commands
    BY DEF Sent
<1>. HIDE DEF first
<1>3. first \o commands \in Seq(Messages) /\ c \o (first \o commands) \in Seq(Messages)
    BY <1>1, ConcatProperties
<1>4. first \o commands \in Seq(Queued)
    BY <1>3, SeqMonotonic DEF Queued
<1>5. (c \o first) \o commands = c \o (first \o commands)
    BY <1>1, ConcatAssociative
<1>. DEFINE s == first \o commands
<1>6. (p \o c) \o s = p \o (c \o s)
    <2>. HIDE DEF s
    <2>1. c \in Seq(Queued) /\ s \in Seq(Queued)
        BY <1>1, <1>4 DEF s
    <2>. QED
        BY <2>1, ConcatAssociative
<1>. QED
    BY <1>2, <1>3, <1>5, <1>6 DEF first

LEMMA InConcat ==
    ASSUME NEW p \in Seq(Queued), NEW c \in Seq(Queued), NEW m
    PROVE  In(m, p \o c) <=> In(m, p) \/ In(m, c)
<1>1. /\ p \o c \in Seq(Queued)
      /\ Range(p \o c) = Range(p) \cup Range(c)
    BY ConcatProperties, RangeConcatenation
<1>. QED
    BY <1>1, RangeIn

(* The message that is handled, and what is left.                          *)
LEMMA HeadLeaves ==
    ASSUME TypeOK, Orders(Line, record, service.exists), Kept, NEW m, Message(m)
    PROVE  LET q == Tail(looper) \o channel
           IN  /\ m \in Queued /\ Tail(looper) \in Seq(Queued) /\ q \in Seq(Queued)
               /\ Orders(q, record, CASE m = "CREATE" -> TRUE [] m = "DESTROY" -> FALSE
                                      [] OTHER -> service.exists)
               /\ m = "CREATE" => ~service.exists
               /\ m = "DESTROY" => service.exists /\ ~In("DESTROY", q)
               /\ m \in Commands \cup {"NULL"} => service.exists
               /\ \A x : In(x, Line) <=> In(x, q) \/ x = m
               /\ StopsLast(Line) => StopsLast(q) /\ (m = "STOP" => ~In("START", q))
               /\ In("DELIVER", Tail(looper)) <=> pending # Unset /\ m # "DELIVER"
               /\ m = "DELIVER" => pending # Unset
               /\ \A i, j \in 1 .. Len(Tail(looper)) :
                     Tail(looper)[i] = "DELIVER" /\ Tail(looper)[j] = "DELIVER" => i = j
<1>. DEFINE q == Tail(looper) \o channel
<1>1. /\ looper # <<>> /\ m = Head(looper) /\ m \in Queued
      /\ looper \in Seq(Queued) /\ channel \in Seq(Queued) /\ Line \in Seq(Queued)
    BY LineTyped, HeadTailProperties DEF Message
<1>2. /\ Line # <<>> /\ Head(Line) = m /\ Tail(Line) = q
    BY <1>1, TailOfLine DEF Line
<1>3. q \in Seq(Queued) /\ Tail(looper) \in Seq(Queued)
    BY <1>1, <1>2, HeadTailProperties
<1>4. record \in BOOLEAN /\ service.exists \in BOOLEAN
    BY DEF TypeOK
<1>. HIDE DEF q
<1>5. /\ Orders(q, record, CASE m = "CREATE" -> TRUE [] m = "DESTROY" -> FALSE
                             [] OTHER -> service.exists)
      /\ m = "CREATE" => ~service.exists
      /\ m = "DESTROY" => service.exists /\ ~In("DESTROY", q)
      /\ m \in Commands \cup {"NULL"} => service.exists
    BY <1>1, <1>2, <1>4, OrdersTail
<1>6. ASSUME NEW x
      PROVE  In(x, Line) <=> In(x, q) \/ x = m
    <2>1. /\ In(x, Tail(Line)) => In(x, Line)
          /\ In(x, Line) => In(x, Tail(Line)) \/ x = Head(Line)
          /\ In(Head(Line), Line)
        BY <1>1, <1>2, InTail
    <2>. QED
        BY <2>1, <1>2
<1>7. /\ Len(Line) \in Nat \ {0} /\ Len(q) = Len(Line) - 1 /\ Line[1] = m
      /\ \A n \in 1 .. Len(q) : q[n] = Line[n + 1] /\ n + 1 \in 1 .. Len(Line)
    BY <1>1, <1>2, HeadTailProperties, EmptySeq
<1>8. ASSUME StopsLast(Line)
      PROVE  StopsLast(q) /\ (m = "STOP" => ~In("START", q))
    <2>1. \A i, j \in 1 .. Len(q) : q[i] = "STOP" /\ q[j] = "START" => j < i
        BY <1>7, <1>8 DEF StopsLast
    <2>2. m = "STOP" => \A n \in 1 .. Len(q) : q[n] # "START"
        BY <1>7, <1>8 DEF StopsLast
    <2>. QED
        BY <2>1, <2>2 DEF StopsLast, In
<1>9. /\ Len(looper) \in Nat \ {0} /\ Len(Tail(looper)) = Len(looper) - 1 /\ looper[1] = m
      /\ \A n \in 1 .. Len(Tail(looper)) :
            Tail(looper)[n] = looper[n + 1] /\ n + 1 \in 1 .. Len(looper)
    BY <1>1, HeadTailProperties, EmptySeq
<1>10. \A i, j \in 1 .. Len(Tail(looper)) :
           Tail(looper)[i] = "DELIVER" /\ Tail(looper)[j] = "DELIVER" => i = j
    BY <1>9 DEF Kept
<1>11. m = "DELIVER" => ~In("DELIVER", Tail(looper))
    BY <1>9 DEF Kept, In
<1>12. In("DELIVER", looper) <=> In("DELIVER", Tail(looper)) \/ m = "DELIVER"
    BY <1>1, InTail
<1>13. pending # Unset <=> In("DELIVER", looper)
    BY LineTyped
<1>. QED
    BY <1>1, <1>3, <1>5, <1>6, <1>8, <1>10, <1>11, <1>12, <1>13 DEF q

(* The service posts a value instead.                                      *)
LEMMA ValuePosted ==
    ASSUME TypeOK, Orders(Line, record, service.exists), Kept,
           NEW m, Message(m), m # "DELIVER", NEW v \in BOOLEAN, PostValue(v)
    PROVE  LET q == Tail(looper) \o channel
               r == looper' \o channel
           IN  /\ looper' \in Seq(Queued) /\ r \in Seq(Queued)
               /\ pending' = v /\ v # Unset /\ In("DELIVER", looper')
               /\ \A i, j \in 1 .. Len(looper') :
                     looper'[i] = "DELIVER" /\ looper'[j] = "DELIVER" => i = j
               /\ \A x : In(x, r) <=> In(x, q) \/ x = "DELIVER"
               /\ StopsLast(q) => StopsLast(r)
               /\ \A recorded, exists \in BOOLEAN :
                     Orders(q, recorded, exists) => Orders(r, recorded, exists)
<1>. DEFINE p == Tail(looper)
            q == p \o channel
            r == looper' \o channel
<1>1. /\ p \in Seq(Queued) /\ channel \in Seq(Queued) /\ q \in Seq(Queued)
      /\ In("DELIVER", p) <=> pending # Unset
      /\ \A i, j \in 1 .. Len(p) : p[i] = "DELIVER" /\ p[j] = "DELIVER" => i = j
    <2>1. channel \in Seq(Queued)
        BY LineTyped
    <2>2. /\ Tail(looper) \in Seq(Queued) /\ Tail(looper) \o channel \in Seq(Queued)
          /\ In("DELIVER", Tail(looper)) <=> pending # Unset /\ m # "DELIVER"
          /\ \A i, j \in 1 .. Len(Tail(looper)) :
                Tail(looper)[i] = "DELIVER" /\ Tail(looper)[j] = "DELIVER" => i = j
        BY HeadLeaves
    <2>. QED
        BY <2>1, <2>2
<1>2. pending' = v /\ v # Unset
    BY UnsetIsNoBoolean DEF PostValue
<1>. HIDE DEF p
<1>3. CASE pending # Unset
    <2>1. looper' = p /\ r = q
        BY <1>3 DEF PostValue, p
    <2>2. In("DELIVER", q)
        BY <1>1, <1>3, InConcat
    <2>. QED
        BY <1>1, <1>2, <1>3, <2>1, <2>2 DEF p
<1>4. CASE pending = Unset
    <2>1. looper' = Append(p, "DELIVER")
        BY <1>4 DEF PostValue, p
    <2>2. /\ looper' \in Seq(Queued) /\ Len(looper') = Len(p) + 1 /\ Len(p) \in Nat
          /\ \A n \in 1 .. Len(p) : looper'[n] = p[n]
          /\ looper'[Len(p) + 1] = "DELIVER"
        BY <1>1, <2>1, AppendProperties, LenProperties DEF Queued
    <2>3. \A i, j \in 1 .. Len(looper') :
              looper'[i] = "DELIVER" /\ looper'[j] = "DELIVER" => i = j
        <3>1. \A n \in 1 .. Len(p) : looper'[n] # "DELIVER"
            BY <1>1, <1>4, <2>2 DEF In
        <3>. QED
            BY <3>1, <2>2
    <2>4. In("DELIVER", looper')
        <3>1. Len(p) + 1 \in 1 .. Len(looper')
            BY <2>2
        <3>. QED
            BY <2>2, <3>1 DEF In
    <2>5. r \in Seq(Queued)
        BY <1>1, <2>2, ConcatProperties
    <2>6. \A x : In(x, r) <=> In(x, q) \/ x = "DELIVER"
        BY <1>1, <2>1, InInserted
    <2>7. /\ StopsLast(q) => StopsLast(r)
          /\ \A recorded, exists \in BOOLEAN :
                Orders(q, recorded, exists) => Orders(r, recorded, exists)
        BY <1>1, <2>1, OrdersInserted
    <2>. QED
        BY <1>2, <2>2, <2>3, <2>4, <2>5, <2>6, <2>7 DEF p
<1>. QED
    BY <1>3, <1>4

(* The activity sends commands.                                            *)
LEMMA CommandsSent ==
    ASSUME channel \in Seq(Messages), record \in BOOLEAN, looper' \in Seq(Queued),
           NEW exists \in BOOLEAN, Orders(looper' \o channel, record, exists),
           NEW commands \in Seq(Commands), SendCommands(commands)
    PROVE  LET q == looper' \o channel
           IN  /\ channel' \in Seq(Messages) /\ record' = (record \/ commands # <<>>)
               /\ Orders(Line', record', exists)
               /\ \A x : In(x, Line') <=>
                     In(x, q) \/ In(x, commands) \/ (x = "CREATE" /\ ~record /\ commands # <<>>)
               /\ StopsLast(q) /\ StopsLast(commands) /\ ~In("STOP", q) => StopsLast(Line')
<1>. DEFINE q == looper' \o channel
<1>1. /\ channel' \in Seq(Messages) /\ record' = (record \/ commands # <<>>)
      /\ Line' = q \o Sent(record, commands)
    BY SentLine DEF SendCommands, Line
<1>2. q \in Seq(Queued)
    <2>1. channel \in Seq(Queued)
        BY SeqMonotonic DEF Queued
    <2>. QED
        BY <2>1, ConcatProperties
<1>. HIDE DEF q
<1>3. Orders(q, record, exists)
    BY DEF q
<1>. DEFINE r == q \o Sent(record, commands)
<1>4. /\ Orders(r, record \/ commands # <<>>, exists)
      /\ \A x : In(x, r) <=>
            In(x, q) \/ In(x, commands) \/ (x = "CREATE" /\ ~record /\ commands # <<>>)
      /\ StopsLast(q) /\ StopsLast(commands) /\ ~In("STOP", q) => StopsLast(r)
    BY <1>2, <1>3, OrdersSent
<1>5. Line' = r
    BY <1>1
<1>. HIDE DEF r
<1>. QED
    BY <1>1, <1>4, <1>5 DEF q

LEMMA ChangesSent ==
    ASSUME NEW a \in BOOLEAN, NEW b \in BOOLEAN
    PROVE  LET commands == Changes(a, b)
           IN  /\ commands \in Seq(Commands) /\ StopsLast(commands)
               /\ In("START", commands) <=> ~a /\ b
               /\ In("STOP", commands) <=> a /\ ~b
               /\ \A x : In(x, commands) => x \in Commands
               /\ commands = <<>> <=> a = b
<1>1. CASE a = b
    <2>1. Changes(a, b) = <<>>
        BY <1>1 DEF Changes
    <2>. QED
        BY <1>1, <2>1 DEF In, StopsLast
<1>2. CASE a # b
    <2>. DEFINE c == Command(b)
    <2>1. Changes(a, b) = <<c>>
        BY <1>2 DEF Changes
    <2>2. c \in Commands /\ (c = "START" <=> b) /\ (c = "STOP" <=> ~b)
        BY DEF Command, Commands
    <2>. HIDE DEF c
    <2>3. <<c>> \in Seq(Commands) /\ Len(<<c>>) = 1 /\ <<c>>[1] = c /\ <<c>> # <<>>
        BY <2>2
    <2>4. \A x : In(x, <<c>>) <=> x = c
        BY <2>3 DEF In
    <2>5. StopsLast(<<c>>)
        BY <2>3 DEF StopsLast
    <2>. QED
        BY <1>2, <2>1, <2>2, <2>3, <2>4, <2>5
<1>. QED
    BY <1>1, <1>2

(* The commands of an activity that is made anew.                          *)
LEMMA RestoredSent ==
    ASSUME NEW a \in BOOLEAN, NEW b \in BOOLEAN
    PROVE  LET commands == Changes(FALSE, a) \o Changes(a, b)
           IN  /\ commands \in Seq(Commands) /\ StopsLast(commands)
               /\ In("START", commands) <=> a \/ b
               /\ In("STOP", commands) <=> a /\ ~b
               /\ \A x : In(x, commands) => x \in Commands
<1>1. CASE ~a
    <2>1. Changes(FALSE, a) = <<>> /\ Changes(a, b) \in Seq(Commands)
        BY <1>1, ChangesSent DEF Changes
    <2>2. Changes(FALSE, a) \o Changes(a, b) = Changes(a, b)
        BY <2>1, ConcatEmptySeq
    <2>. QED
        BY <1>1, <2>2, ChangesSent
<1>2. CASE a /\ b
    <2>1. Changes(a, b) = <<>> /\ Changes(FALSE, a) \in Seq(Commands)
        BY <1>2, ChangesSent DEF Changes
    <2>2. Changes(FALSE, a) \o Changes(a, b) = Changes(FALSE, a)
        BY <2>1, ConcatEmptySeq
    <2>. QED
        BY <1>2, <2>2, ChangesSent
<1>3. CASE a /\ ~b
    <2>. DEFINE first == <<"START">>
                second == <<"STOP">>
                c == first \o second
    <2>1. Changes(FALSE, a) \o Changes(a, b) = c
        <3>1. Changes(FALSE, a) = first /\ Changes(a, b) = second
            BY <1>3 DEF Changes, Command
        <3>. QED
            BY <3>1
    <2>2. c \in Seq(Commands) /\ Len(c) = 2 /\ c[1] = "START" /\ c[2] = "STOP"
        <3>1. /\ first \in Seq(Commands) /\ Len(first) = 1 /\ first[1] = "START"
              /\ second \in Seq(Commands) /\ Len(second) = 1 /\ second[1] = "STOP"
            BY DEF Commands
        <3>. HIDE DEF first, second
        <3>. QED
            BY <3>1, ConcatProperties
    <2>. HIDE DEF c
    <2>3. \A n \in 1 .. Len(c) : n = 1 \/ n = 2
        BY <2>2
    <2>4. StopsLast(c)
        BY <2>2, <2>3 DEF StopsLast
    <2>5. \A x : In(x, c) <=> x \in {"START", "STOP"}
        BY <2>2, <2>3 DEF In
    <2>. QED
        BY <1>3, <2>1, <2>2, <2>4, <2>5 DEF Commands
<1>. QED
    BY <1>1, <1>2, <1>3

(* What the user waits for: nothing is under way.                          *)
LEMMA NothingUnderWay ==
    ASSUME TypeOK, ~Busy
    PROVE  /\ looper \o channel = <<>> /\ Line = <<>> /\ pending = Unset
           /\ \A x : ~In(x, Line)
<1>1. looper = <<>> /\ channel = <<>>
    BY DEF Busy
<1>2. Line = <<>>
    BY <1>1 DEF Line
<1>3. ~In("DELIVER", looper)
    BY <1>1 DEF In
<1>. QED
    BY <1>2, <1>3, LineTyped DEF In, Line

(* The type invariant, of a step that has typed queues.                    *)
LEMMA Delivered ==
    ASSUME looper' \in Seq(Queued), (pending # Unset)' <=> In("DELIVER", looper')
    PROVE  /\ looper' \in Seq(Messages \cup {"DELIVER"})
           /\ (pending # Unset <=> "DELIVER" \in Range(looper))'
BY RangeIn DEF Queued

--------------------------------------------------------------------------------
(* Each action preserves the invariant *)

LEMMA ToggleIInv ==
    ASSUME IInv, Toggle
    PROVE  IInv'
<1>. DEFINE commands == <<Command(~switch)>>
<1>1. TypeOK /\ switch \in BOOLEAN /\ looper' = looper /\ ui = "shown"
    BY DEF IInv, TypeOK, Toggle
<1>2. commands = Changes(switch, ~switch)
    BY <1>1 DEF Changes
<1>3. /\ commands \in Seq(Commands) /\ StopsLast(commands) /\ commands # <<>>
      /\ In("START", commands) <=> ~switch
      /\ In("STOP", commands) <=> switch
      /\ \A x : In(x, commands) => x \in Commands
    BY <1>1, <1>2, ChangesSent
<1>. HIDE DEF commands
<1>4. /\ channel' \in Seq(Messages) /\ record' = TRUE
      /\ Orders(Line', record', service.exists)
      /\ \A x : In(x, Line') <=>
            In(x, Line) \/ In(x, commands) \/ (x = "CREATE" /\ ~record)
      /\ StopsLast(Line) /\ ~In("STOP", Line) => StopsLast(Line')
    <2>1. /\ channel \in Seq(Messages) /\ record \in BOOLEAN /\ looper' \in Seq(Queued)
          /\ service.exists \in BOOLEAN /\ Orders(looper' \o channel, record, service.exists)
          /\ SendCommands(commands) /\ looper' \o channel = Line
        BY <1>1, LineTyped DEF IInv, TypeOK, Toggle, commands, Line
    <2>. QED
        BY <2>1, <1>3, CommandsSent
<1>5. TypeOK'
    <2>1. looper' \in Seq(Queued) /\ ((pending # Unset)' <=> In("DELIVER", looper'))
        BY <1>1, LineTyped DEF Toggle, live
    <2>2. /\ looper' \in Seq(Messages \cup {"DELIVER"})
          /\ (pending # Unset <=> "DELIVER" \in Range(looper))'
        BY <2>1, Delivered
    <2>3. count' \in [toggles : 0 .. MaxToggles, departures : 0 .. MaxDepartures,
                      crashes : 0 .. MaxCrashes]
        BY <1>1, Bounds DEF TypeOK, Toggle
    <2>4. hasty' \in BOOLEAN
        BY <1>1 DEF TypeOK, Toggle
    <2>. QED
        BY <1>1, <1>4, <2>2, <2>3, <2>4
        DEF TypeOK, Toggle, screen, live, tracking
<1>6. Kept'
    BY DEF IInv, Kept, Toggle, tracking
<1>7. Followed'
    BY <1>3, <1>4 DEF IInv, Followed, Latest, Toggle, live, tracking, Commands
<1>8. Repaired'
    BY <1>1, <1>3, <1>4 DEF Repaired, Toggle
<1>9. Recording'
    BY DEF IInv, Recording, Toggle, tracking
<1>10. InStep'
    <2>. SUFFICES ASSUME ~hasty'
                  PROVE  InStep'
        BY DEF InStep
    <2>1. ~hasty /\ ~Busy
        BY DEF Toggle
    <2>2. Line = <<>> /\ pending = Unset /\ \A x : ~In(x, Line)
        BY <2>1, <1>1, NothingUnderWay
    <2>3. ~leaked /\ StopsLast(Line) /\ ~unseen
        BY <2>1, <1>1 DEF IInv, InStep, Followed
    <2>4. StopsLast(Line') /\ ~leaked' /\ pending' = Unset /\ ~unseen' /\ switch' = ~switch
        BY <2>2, <2>3, <1>4 DEF Toggle, live, tracking
    <2>5. \A x : In(x, Line') => In(x, commands) \/ x = "CREATE"
        BY <2>2, <1>4
    <2>6. ~In("DESTROY", Line')
        BY <2>5, <1>3 DEF Commands
    <2>7. In("STOP", Line') => ~switch'
        BY <2>4, <2>5, <1>3
    <2>8. In("START", Line') => switch'
        BY <2>4, <2>5, <1>3
    <2>. QED
        BY <2>4, <2>6, <2>7, <2>8 DEF InStep
<1>. QED
    BY <1>4, <1>5, <1>6, <1>7, <1>8, <1>9, <1>10 DEF IInv, Toggle, tracking

LEMMA LeaveIInv ==
    ASSUME IInv, Leave
    PROVE  IInv'
<1>1. TypeOK'
    <2>1. count' \in [toggles : 0 .. MaxToggles, departures : 0 .. MaxDepartures,
                      crashes : 0 .. MaxCrashes]
        BY Bounds DEF IInv, TypeOK, Leave
    <2>. QED
        BY <2>1 DEF IInv, TypeOK, Leave, live, orders, tracking
<1>2. Line' = Line
    BY DEF Line, Leave, orders
<1>3. Orders(Line, record, service.exists)'
    BY <1>2 DEF IInv, Leave, orders, tracking
<1>4. Kept' /\ Followed' /\ Repaired' /\ Recording' /\ InStep'
    BY <1>2 DEF IInv, Kept, Followed, Latest, Repaired, Recording, InStep, Leave, live, orders,
                tracking
<1>. QED
    BY <1>1, <1>3, <1>4 DEF IInv

(* The observer is told a value: the switch and the text follow it.        *)
LEMMA Observed ==
    ASSUME TypeOK, looper' \in Seq(Queued), Orders(looper' \o channel, record, service.exists),
           NEW v \in BOOLEAN, Observe(v)
    PROVE  LET q == looper' \o channel
           IN  /\ switch' = v /\ viewStatus' = (IF v THEN "RUNNING" ELSE "IDLE")
               /\ channel' \in Seq(Messages) /\ record' \in BOOLEAN
               /\ Orders(Line', record', service.exists)
               /\ \A x : In(x, q) => In(x, Line')
               /\ In("DESTROY", Line') <=> In("DESTROY", q)
               /\ v = switch => Line' = q
<1>. DEFINE commands == Changes(switch, v)
            q == looper' \o channel
<1>1. switch \in BOOLEAN /\ record \in BOOLEAN /\ service.exists \in BOOLEAN
    BY DEF TypeOK
<1>2. /\ commands \in Seq(Commands) /\ (commands = <<>> <=> switch = v)
      /\ \A x : In(x, commands) => x \in Commands
    BY <1>1, ChangesSent
<1>3. channel \in Seq(Messages) /\ SendCommands(commands)
    BY LineTyped DEF Observe
<1>. HIDE DEF commands
<1>4. /\ channel' \in Seq(Messages) /\ record' = (record \/ commands # <<>>)
      /\ Orders(Line', record', service.exists)
      /\ \A x : In(x, Line') <=>
            In(x, q) \/ In(x, commands) \/ (x = "CREATE" /\ ~record /\ commands # <<>>)
    BY <1>1, <1>2, <1>3, CommandsSent
<1>5. v = switch => Line' = q
    <2>. SUFFICES ASSUME v = switch
                  PROVE  channel' = channel
        BY DEF Line
    <2>1. commands = <<>>
        BY <1>2
    <2>2. channel' = (channel \o <<>>) \o <<>>
        BY <2>1, <1>3 DEF SendCommands
    <2>. QED
        BY <2>2, <1>3, ConcatEmptySeq
<1>. QED
    BY <1>1, <1>2, <1>4, <1>5 DEF Observe, Commands

LEMMA ReturnIInv ==
    ASSUME IInv, Return
    PROVE  IInv'
<1>1. CASE ~unseen
    <2>1. /\ unseen' = FALSE /\ unseen = FALSE
          /\ UNCHANGED <<switch, viewStatus, orders, isRunning, pending, looper, tracking,
                         permission, history>>
          /\ ui = "hidden" /\ ui' = "shown"
        BY <1>1 DEF Return, IInv, TypeOK
    <2>2. TypeOK'
        BY <2>1 DEF IInv, TypeOK, orders, tracking, history
    <2>3. Line' = Line
        BY <2>1 DEF Line, orders
    <2>4. Orders(Line, record, service.exists)'
        BY <2>1, <2>3 DEF IInv, orders, tracking
    <2>5. Kept' /\ Followed' /\ Repaired' /\ Recording' /\ InStep'
        BY <2>1, <2>3 DEF IInv, Kept, Followed, Latest, Repaired, Recording, InStep, orders,
                          tracking, history
    <2>. QED
        BY <2>2, <2>4, <2>5 DEF IInv
<1>2. CASE unseen
    <2>1. /\ TypeOK /\ isRunning \in BOOLEAN /\ Observe(isRunning) /\ looper' = looper
          /\ unseen' = FALSE /\ ui = "hidden" /\ ui' = "shown"
          /\ UNCHANGED <<isRunning, pending, looper, tracking, permission, history>>
        BY <1>2 DEF IInv, TypeOK, Followed, Return
    <2>2. looper' \o channel = Line
        BY <2>1 DEF Line
    <2>3. looper' \in Seq(Queued) /\ (pending # Unset <=> In("DELIVER", looper))
        BY <2>1, LineTyped
    <2>4. /\ switch' = isRunning /\ viewStatus' = (IF isRunning THEN "RUNNING" ELSE "IDLE")
          /\ channel' \in Seq(Messages) /\ record' \in BOOLEAN
          /\ Orders(Line', record', service.exists)
          /\ \A x : In(x, Line) => In(x, Line')
          /\ In("DESTROY", Line') <=> In("DESTROY", Line)
          /\ isRunning = switch => Line' = Line
        <3>1. Orders(looper' \o channel, record, service.exists)
            BY <2>2 DEF IInv
        <3>. QED
            BY <2>1, <2>2, <2>3, <3>1, Observed
    <2>5. TypeOK'
        <3>1. /\ looper' \in Seq(Messages \cup {"DELIVER"})
              /\ (pending # Unset <=> "DELIVER" \in Range(looper))'
            BY <2>1, <2>3, Delivered
        <3>. QED
            BY <2>1, <2>4, <3>1 DEF TypeOK, tracking, history
    <2>6. Orders(Line, record, service.exists)'
        BY <2>1, <2>4 DEF tracking
    <2>7. Kept' /\ Followed' /\ Recording'
        BY <2>1, <2>4 DEF IInv, Kept, Followed, Latest, Recording, tracking, history
    <2>8. Repaired'
        BY <2>1, <2>4 DEF IInv, Repaired, Followed, Latest, tracking
    <2>9. InStep'
        <3>. SUFFICES ASSUME ~hasty'
                      PROVE  InStep'
            BY DEF InStep
        <3>1. ~hasty /\ isRunning = switch
            BY <2>1, <1>2 DEF IInv, InStep, TypeOK, history
        <3>. QED
            BY <3>1, <2>1, <2>4 DEF IInv, InStep, tracking, history
    <2>. QED
        BY <2>5, <2>6, <2>7, <2>8, <2>9 DEF IInv
<1>. QED
    BY <1>1, <1>2

LEMMA RelaunchIInv ==
    ASSUME IInv, Relaunch
    PROVE  IInv'
<1>. DEFINE told == isRunning = TRUE
            commands == Changes(FALSE, told) \o Changes(told, switch')
<1>1. /\ TypeOK /\ looper' = looper /\ ui' = "shown" /\ unseen' = FALSE
      /\ viewStatus' = (IF told THEN "RUNNING" ELSE "IDLE")
      /\ hasty' = (hasty \/ Busy)
      /\ UNCHANGED <<isRunning, pending, looper, tracking, permission, wanted, late, count>>
    BY DEF IInv, Relaunch
<1>2. switch' \in BOOLEAN /\ settled' \in BOOLEAN /\ SendCommands(commands)
    BY <1>1 DEF Relaunch, TypeOK
<1>3. /\ commands \in Seq(Commands) /\ StopsLast(commands)
      /\ In("START", commands) <=> told \/ switch'
      /\ In("STOP", commands) <=> told /\ ~switch'
      /\ \A x : In(x, commands) => x \in Commands
    BY <1>2, RestoredSent
<1>. HIDE DEF commands
<1>4. /\ channel' \in Seq(Messages) /\ record' \in BOOLEAN
      /\ Orders(Line', record', service.exists)
      /\ \A x : In(x, Line) \/ In(x, commands) => In(x, Line')
      /\ \A x : In(x, Line') => In(x, Line) \/ In(x, commands) \/ x = "CREATE"
      /\ StopsLast(Line) /\ ~In("STOP", Line) => StopsLast(Line')
    <2>1. /\ channel \in Seq(Messages) /\ record \in BOOLEAN /\ looper' \in Seq(Queued)
          /\ service.exists \in BOOLEAN /\ Orders(looper' \o channel, record, service.exists)
          /\ looper' \o channel = Line
        BY <1>1, LineTyped DEF IInv, TypeOK, Line
    <2>2. /\ channel' \in Seq(Messages) /\ record' = (record \/ commands # <<>>)
          /\ Orders(Line', record', service.exists)
          /\ \A x : In(x, Line') <=> In(x, Line) \/ In(x, commands)
                                     \/ (x = "CREATE" /\ ~record /\ commands # <<>>)
          /\ StopsLast(Line) /\ StopsLast(commands) /\ ~In("STOP", Line) => StopsLast(Line')
        BY <2>1, <1>2, <1>3, CommandsSent
    <2>. QED
        BY <2>1, <2>2, <1>3
<1>5. TypeOK'
    <2>1. looper' \in Seq(Queued) /\ ((pending # Unset)' <=> In("DELIVER", looper'))
        BY <1>1, LineTyped
    <2>2. /\ looper' \in Seq(Messages \cup {"DELIVER"})
          /\ (pending # Unset <=> "DELIVER" \in Range(looper))'
        BY <2>1, Delivered
    <2>3. hasty' \in BOOLEAN
        BY <1>1 DEF TypeOK
    <2>. QED
        BY <1>1, <1>2, <1>4, <2>2, <2>3 DEF TypeOK, tracking
<1>6. Kept' /\ Recording'
    BY <1>1 DEF IInv, Kept, Recording, tracking
<1>7. Followed'
    BY <1>1, <1>4 DEF IInv, Followed, Latest, tracking
<1>8. Repaired'
    <2>. SUFFICES ASSUME pending = Unset, ~In("STOP", Line'),
                         service.isTracking \/ ~In("START", Line')
                  PROVE  switch' <=> service.isTracking
        BY <1>1 DEF Repaired, tracking
    <2>1. told <=> service.isTracking
        BY DEF IInv, Followed, Latest
    <2>. QED
        BY <2>1, <1>2, <1>3, <1>4
<1>9. InStep'
    <2>. SUFFICES ASSUME ~hasty'
                  PROVE  InStep'
        BY DEF InStep
    <2>1. ~hasty /\ ~Busy
        BY <1>1
    <2>2. Line = <<>> /\ pending = Unset /\ \A x : ~In(x, Line)
        BY <2>1, <1>1, NothingUnderWay
    <2>3. told <=> service.isTracking
        BY <2>2 DEF IInv, Followed, Latest
    <2>4. ~leaked /\ StopsLast(Line)
        BY <2>1 DEF IInv, InStep
    <2>5. StopsLast(Line') /\ ~leaked' /\ pending' = Unset /\ ~unseen'
        BY <2>2, <2>4, <1>1, <1>4 DEF tracking
    <2>6. ~In("DESTROY", Line')
        BY <2>2, <1>3, <1>4 DEF Commands
    <2>7. In("STOP", Line') => ~switch'
        BY <2>2, <1>2, <1>3, <1>4
    <2>8. In("START", Line') /\ ~service'.isTracking => switch'
        BY <2>2, <2>3, <1>1, <1>2, <1>3, <1>4 DEF tracking
    <2>. QED
        BY <2>5, <2>6, <2>7, <2>8 DEF InStep
<1>10. Orders(Line, record, service.exists)'
    BY <1>1, <1>4 DEF tracking
<1>. QED
    BY <1>5, <1>6, <1>7, <1>8, <1>9, <1>10 DEF IInv

LEMMA GrantPermissionIInv ==
    ASSUME IInv, GrantPermission
    PROVE  IInv'
<1>1. late' \in BOOLEAN
    <2>1. service.started \in BOOLEAN /\ Busy \in BOOLEAN
        BY DEF IInv, TypeOK, Busy
    <2>. QED
        BY <2>1 DEF GrantPermission
<1>2. TypeOK'
    BY <1>1 DEF IInv, TypeOK, GrantPermission, screen, live, orders, tracking
<1>3. Line' = Line
    BY DEF Line, GrantPermission, orders
<1>4. Orders(Line, record, service.exists)'
    BY <1>3 DEF IInv, GrantPermission, orders, tracking
<1>5. Kept' /\ Followed' /\ Repaired' /\ InStep'
    BY <1>3 DEF IInv, Kept, Followed, Latest, Repaired, InStep, GrantPermission, screen, live,
                tracking
<1>6. Recording'
    BY DEF IInv, Followed, Recording, GrantPermission, tracking
<1>. QED
    BY <1>2, <1>4, <1>5, <1>6 DEF IInv

LEMMA ArriveIInv ==
    ASSUME IInv, Arrive
    PROVE  IInv'
<1>1. /\ looper \in Seq(Queued) /\ channel \in Seq(Messages) /\ channel \in Seq(Queued)
      /\ channel # <<>> /\ looper' = Append(looper, Head(channel)) /\ channel' = Tail(channel)
      /\ (pending # Unset <=> In("DELIVER", looper))
      /\ UNCHANGED <<screen, live, record, tracking, permission, history>>
    BY LineTyped DEF IInv, Arrive
<1>2. Line' = Line
    BY <1>1, ArrivedLine DEF Line
<1>3. Head(channel) \in Messages /\ channel' \in Seq(Messages) /\ Head(channel) # "DELIVER"
    BY <1>1, HeadTailProperties DEF Messages
<1>4. /\ looper' \in Seq(Queued) /\ Len(looper') = Len(looper) + 1 /\ Len(looper) \in Nat
      /\ \A n \in 1 .. Len(looper) : looper'[n] = looper[n]
      /\ looper'[Len(looper) + 1] = Head(channel)
    BY <1>1, <1>3, AppendProperties, LenProperties DEF Queued
<1>5. /\ \A n \in 1 .. Len(looper') : n \in 1 .. Len(looper) \/ n = Len(looper) + 1
      /\ \A n \in 1 .. Len(looper) : n \in 1 .. Len(looper')
    BY <1>4
<1>6. In("DELIVER", looper') <=> In("DELIVER", looper)
    BY <1>3, <1>4, <1>5 DEF In
<1>7. TypeOK'
    <2>1. (pending # Unset)' <=> In("DELIVER", looper')
        BY <1>1, <1>6 DEF live
    <2>2. /\ looper' \in Seq(Messages \cup {"DELIVER"})
          /\ (pending # Unset <=> "DELIVER" \in Range(looper))'
        BY <2>1, <1>4, Delivered
    <2>. QED
        BY <2>2, <1>1, <1>3 DEF IInv, TypeOK, screen, live, tracking, history
<1>8. Kept'
    <2>1. service.exists \/ service = NoService
        BY DEF IInv, Kept
    <2>2. \A m, n \in 1 .. Len(looper') :
              looper'[m] = "DELIVER" /\ looper'[n] = "DELIVER" => m = n
        BY <1>3, <1>4, <1>5 DEF IInv, Kept
    <2>. QED
        BY <2>1, <2>2, <1>1 DEF Kept, tracking
<1>9. Orders(Line, record, service.exists)'
    BY <1>1, <1>2 DEF IInv, tracking
<1>10. Followed' /\ Repaired' /\ Recording' /\ InStep'
    BY <1>1, <1>2 DEF IInv, Followed, Latest, Repaired, Recording, InStep, screen, live, tracking,
                      history
<1>. QED
    BY <1>7, <1>8, <1>9, <1>10 DEF IInv

(* A message that is taken off and nothing else sent or posted.            *)
LEMMA Taken ==
    ASSUME IInv, NEW m, Message(m), m # "DELIVER", looper' = Tail(looper), UNCHANGED channel
    PROVE  /\ looper' \in Seq(Queued) /\ Line' = Tail(looper) \o channel
           /\ In("DELIVER", looper') <=> pending # Unset
           /\ \A x : In(x, Line) <=> In(x, Line') \/ x = m
           /\ StopsLast(Line) => StopsLast(Line')
           /\ \A i, j \in 1 .. Len(looper') :
                 looper'[i] = "DELIVER" /\ looper'[j] = "DELIVER" => i = j
           /\ m \in Commands \cup {"NULL"} => Orders(Line', record, service.exists)
           /\ m = "CREATE" => Orders(Line', record, TRUE) /\ ~service.exists
<1>. DEFINE q == Tail(looper) \o channel
<1>1. TypeOK /\ Orders(Line, record, service.exists) /\ Kept
    BY DEF IInv
<1>2. /\ Tail(looper) \in Seq(Queued)
      /\ Orders(q, record, CASE m = "CREATE" -> TRUE [] m = "DESTROY" -> FALSE
                             [] OTHER -> service.exists)
      /\ m = "CREATE" => ~service.exists
      /\ \A x : In(x, Line) <=> In(x, q) \/ x = m
      /\ StopsLast(Line) => StopsLast(q)
      /\ In("DELIVER", Tail(looper)) <=> pending # Unset /\ m # "DELIVER"
      /\ \A i, j \in 1 .. Len(Tail(looper)) :
            Tail(looper)[i] = "DELIVER" /\ Tail(looper)[j] = "DELIVER" => i = j
    BY <1>1, HeadLeaves
<1>3. Line' = q
    BY DEF Line
<1>. HIDE DEF q
<1>. QED
    BY <1>2, <1>3 DEF Commands, q

LEMMA OnCreateIInv ==
    ASSUME IInv, OnCreate
    PROVE  IInv'
<1>1. /\ Message("CREATE") /\ looper' = Tail(looper) /\ service' = NewService
      /\ UNCHANGED <<screen, live, orders, leaked, permission, history>>
    BY DEF OnCreate
<1>2. /\ looper' \in Seq(Queued) /\ Orders(Line', record, TRUE) /\ ~service.exists
      /\ In("DELIVER", looper') <=> pending # Unset
      /\ \A x : In(x, Line) <=> In(x, Line') \/ x = "CREATE"
      /\ StopsLast(Line) => StopsLast(Line')
      /\ \A i, j \in 1 .. Len(looper') :
            looper'[i] = "DELIVER" /\ looper'[j] = "DELIVER" => i = j
    <2>1. UNCHANGED channel
        BY <1>1 DEF orders
    <2>. QED
        BY <2>1, <1>1, Taken
<1>3. /\ ~service.isTracking /\ ~service.started
      /\ service'.exists /\ ~service'.started /\ ~service'.isTracking /\ ~service'.registered
    <2>1. service = NoService
        BY <1>2 DEF IInv, Kept
    <2>. QED
        BY <2>1, <1>1 DEF NewService, NoService
<1>4. TypeOK'
    <2>1. /\ looper' \in Seq(Messages \cup {"DELIVER"})
          /\ (pending # Unset <=> "DELIVER" \in Range(looper))'
        BY <1>1, <1>2, Delivered DEF live
    <2>2. service' \in [exists : BOOLEAN, started : BOOLEAN, isTracking : BOOLEAN,
                        registered : BOOLEAN]
        BY <1>1 DEF NewService, NoService
    <2>. QED
        BY <2>1, <2>2, <1>1 DEF IInv, TypeOK, screen, live, orders, history
<1>5. Orders(Line, record, service.exists)'
    <2>1. service'.exists = TRUE
        BY <1>1 DEF NewService, NoService
    <2>. QED
        BY <2>1, <1>1, <1>2 DEF orders
<1>6. Kept' /\ Followed' /\ Repaired' /\ Recording'
    BY <1>1, <1>2, <1>3 DEF IInv, Kept, Followed, Latest, Repaired, Recording, screen, live
<1>7. InStep'
    BY <1>1, <1>2, <1>3 DEF IInv, InStep, screen, live, history
<1>. QED
    BY <1>4, <1>5, <1>6, <1>7 DEF IInv

LEMMA RestartedIdleIInv ==
    ASSUME IInv, RestartedIdle
    PROVE  IInv'
<1>1. /\ Message("NULL") /\ looper' = Tail(looper)
      /\ UNCHANGED <<screen, live, orders, tracking, permission, history>>
    BY DEF RestartedIdle
<1>2. /\ looper' \in Seq(Queued) /\ Orders(Line', record, service.exists)
      /\ In("DELIVER", looper') <=> pending # Unset
      /\ \A x : In(x, Line) <=> In(x, Line') \/ x = "NULL"
      /\ StopsLast(Line) => StopsLast(Line')
      /\ \A i, j \in 1 .. Len(looper') :
            looper'[i] = "DELIVER" /\ looper'[j] = "DELIVER" => i = j
    <2>1. UNCHANGED channel
        BY <1>1 DEF orders
    <2>. QED
        BY <2>1, <1>1, Taken
<1>3. TypeOK'
    <2>1. /\ looper' \in Seq(Messages \cup {"DELIVER"})
          /\ (pending # Unset <=> "DELIVER" \in Range(looper))'
        BY <1>1, <1>2, Delivered DEF live
    <2>. QED
        BY <2>1, <1>1 DEF IInv, TypeOK, screen, live, orders, tracking, history
<1>4. Orders(Line, record, service.exists)'
    BY <1>1, <1>2 DEF orders, tracking
<1>5. Kept' /\ Followed' /\ Repaired' /\ Recording' /\ InStep'
    BY <1>1, <1>2 DEF IInv, Kept, Followed, Latest, Repaired, Recording, InStep, screen, live,
                      tracking, history
<1>. QED
    BY <1>3, <1>4, <1>5 DEF IInv

(* A message whose handler posts a value.                                  *)
LEMMA Posted ==
    ASSUME IInv, NEW m, Message(m), m # "DELIVER", NEW v \in BOOLEAN, PostValue(v)
    PROVE  LET r == looper' \o channel
           IN  /\ looper' \in Seq(Queued) /\ r \in Seq(Queued)
               /\ pending' = v /\ v # Unset /\ In("DELIVER", looper')
               /\ \A i, j \in 1 .. Len(looper') :
                     looper'[i] = "DELIVER" /\ looper'[j] = "DELIVER" => i = j
               /\ \A x : x # "DELIVER" => (In(x, Line) <=> In(x, r) \/ x = m)
               /\ StopsLast(Line) => StopsLast(r) /\ (m = "STOP" => ~In("START", r))
               /\ m \in Commands => service.exists /\ Orders(r, record, service.exists)
               /\ m = "DESTROY" =>
                     service.exists /\ ~In("DESTROY", r) /\ Orders(r, record, FALSE)
<1>. DEFINE q == Tail(looper) \o channel
            r == looper' \o channel
<1>1. /\ TypeOK /\ Orders(Line, record, service.exists) /\ Kept
      /\ record \in BOOLEAN /\ service.exists \in BOOLEAN
    BY DEF IInv, TypeOK
<1>2. /\ Orders(q, record, CASE m = "CREATE" -> TRUE [] m = "DESTROY" -> FALSE
                             [] OTHER -> service.exists)
      /\ m = "DESTROY" => service.exists /\ ~In("DESTROY", q)
      /\ m \in Commands \cup {"NULL"} => service.exists
      /\ \A x : In(x, Line) <=> In(x, q) \/ x = m
      /\ StopsLast(Line) => StopsLast(q) /\ (m = "STOP" => ~In("START", q))
    BY <1>1, HeadLeaves
<1>3. /\ looper' \in Seq(Queued) /\ r \in Seq(Queued)
      /\ pending' = v /\ v # Unset /\ In("DELIVER", looper')
      /\ \A i, j \in 1 .. Len(looper') :
            looper'[i] = "DELIVER" /\ looper'[j] = "DELIVER" => i = j
      /\ \A x : In(x, r) <=> In(x, q) \/ x = "DELIVER"
      /\ StopsLast(q) => StopsLast(r)
      /\ \A recorded, exists \in BOOLEAN :
            Orders(q, recorded, exists) => Orders(r, recorded, exists)
    BY <1>1, ValuePosted
<1>. HIDE DEF q, r
<1>4. m \in Commands => service.exists /\ Orders(r, record, service.exists)
    BY <1>1, <1>2, <1>3 DEF Commands
<1>5. m = "DESTROY" => Orders(r, record, FALSE)
    BY <1>1, <1>2, <1>3
<1>. QED
    BY <1>2, <1>3, <1>4, <1>5 DEF r

LEMMA StartTrackingIInv ==
    ASSUME IInv, StartTracking
    PROVE  IInv'
<1>1. /\ Message("START") /\ In("START", Line)
      /\ UNCHANGED <<screen, isRunning, unseen, orders, leaked, permission, history>>
    <2>1. Message("START")
        BY DEF StartTracking
    <2>2. In(Head(looper), looper) /\ looper \in Seq(Queued) /\ channel \in Seq(Queued)
        BY <2>1, LineTyped, InTail DEF IInv, Message
    <2>. QED
        BY <2>1, <2>2, InConcat DEF StartTracking, Message, Line
<1>2. CASE service.started
    <2>1. looper' = Tail(looper) /\ UNCHANGED <<pending, service>>
        BY <1>2 DEF StartTracking
    <2>2. /\ looper' \in Seq(Queued) /\ Orders(Line', record, service.exists)
          /\ In("DELIVER", looper') <=> pending # Unset
          /\ \A x : In(x, Line) <=> In(x, Line') \/ x = "START"
          /\ StopsLast(Line) => StopsLast(Line')
          /\ \A i, j \in 1 .. Len(looper') :
                looper'[i] = "DELIVER" /\ looper'[j] = "DELIVER" => i = j
        <3>1. UNCHANGED channel
            BY <1>1 DEF orders
        <3>. QED
            BY <3>1, <2>1, <1>1, Taken DEF Commands
    <2>3. TypeOK'
        <3>1. /\ looper' \in Seq(Messages \cup {"DELIVER"})
              /\ (pending # Unset <=> "DELIVER" \in Range(looper))'
            BY <2>1, <2>2, Delivered
        <3>. QED
            BY <3>1, <2>1, <1>1 DEF IInv, TypeOK, screen, orders, history
    <2>4. Orders(Line, record, service.exists)'
        BY <2>1, <2>2, <1>1 DEF orders
    <2>5. Kept' /\ Followed' /\ Recording'
        BY <2>1, <2>2, <1>1 DEF IInv, Kept, Followed, Latest, Recording, screen, history
    <2>6. Repaired'
        BY <2>1, <2>2, <1>1, <1>2 DEF IInv, Followed, Repaired, screen
    <2>7. InStep'
        BY <2>1, <2>2, <1>1 DEF IInv, InStep, screen, history
    <2>. QED
        BY <2>3, <2>4, <2>5, <2>6, <2>7 DEF IInv
<1>3. CASE ~service.started
    <2>1. /\ service' = [service EXCEPT !.started = TRUE, !.isTracking = TRUE,
                                        !.registered = permission]
          /\ PostValue(TRUE)
        BY <1>3 DEF StartTracking
    <2>2. /\ service \in [exists : BOOLEAN, started : BOOLEAN, isTracking : BOOLEAN,
                          registered : BOOLEAN]
          /\ permission \in BOOLEAN
        BY DEF IInv, TypeOK
    <2>3. /\ service' \in [exists : BOOLEAN, started : BOOLEAN, isTracking : BOOLEAN,
                           registered : BOOLEAN]
          /\ service'.exists = service.exists /\ service'.started /\ service'.isTracking
          /\ service'.registered = permission
        BY <2>1, <2>2
    <2>4. ~service.isTracking
        BY <1>3 DEF IInv, Followed
    <2>5. /\ looper' \in Seq(Queued)
          /\ pending' = TRUE /\ TRUE # Unset /\ In("DELIVER", looper')
          /\ \A i, j \in 1 .. Len(looper') :
                looper'[i] = "DELIVER" /\ looper'[j] = "DELIVER" => i = j
          /\ \A x : x # "DELIVER" => (In(x, Line) <=> In(x, Line') \/ x = "START")
          /\ StopsLast(Line) => StopsLast(Line')
          /\ service.exists /\ Orders(Line', record, service.exists)
        <3>1. Line' = looper' \o channel
            BY <1>1 DEF Line, orders
        <3>. QED
            BY <3>1, <2>1, <1>1, Posted DEF Commands
    <2>6. TypeOK'
        <3>1. /\ looper' \in Seq(Messages \cup {"DELIVER"})
              /\ (pending # Unset <=> "DELIVER" \in Range(looper))'
            BY <2>5, Delivered
        <3>. QED
            BY <3>1, <2>3, <2>5, <1>1 DEF IInv, TypeOK, screen, orders, history
    <2>7. Orders(Line, record, service.exists)'
        BY <2>3, <2>5, <1>1 DEF orders
    <2>8. Kept' /\ Followed' /\ Repaired' /\ Recording'
        BY <2>3, <2>5, <1>1 DEF IInv, Kept, Followed, Latest, Repaired, Recording, screen
    <2>9. InStep'
        <3>. SUFFICES ASSUME ~hasty'
                      PROVE  InStep'
            BY DEF InStep
        <3>1. ~hasty
            BY <1>1 DEF history
        <3>2. ~In("DESTROY", Line) /\ ~In("DESTROY", Line')
            BY <3>1, <2>5, <1>1 DEF IInv, InStep
        <3>3. ui # "dead" => switch
            BY <3>1, <2>4, <1>1 DEF IInv, InStep
        <3>. QED
            BY <3>1, <3>2, <3>3, <2>3, <2>5, <1>1 DEF IInv, InStep, screen
    <2>. QED
        BY <2>6, <2>7, <2>8, <2>9 DEF IInv
<1>. QED
    BY <1>2, <1>3

LEMMA StopTrackingIInv ==
    ASSUME IInv, StopTracking
    PROVE  IInv'
<1>1. /\ Message("STOP") /\ PostValue(FALSE) /\ StopSelf
      /\ service' = [service EXCEPT !.isTracking = FALSE, !.registered = FALSE]
      /\ UNCHANGED <<screen, isRunning, unseen, leaked, permission, history>>
    BY DEF StopTracking
<1>2. /\ looper \in Seq(Queued) /\ channel \in Seq(Queued) /\ channel \in Seq(Messages)
      /\ Line \in Seq(Queued) /\ In("STOP", Line)
    <2>1. looper \in Seq(Queued) /\ channel \in Seq(Queued) /\ channel \in Seq(Messages)
        BY LineTyped DEF IInv
    <2>2. Line \in Seq(Queued)
        BY LineTyped DEF IInv
    <2>3. In(Head(looper), looper)
        BY <2>1, <1>1, InTail DEF Message
    <2>. QED
        BY <2>1, <2>2, <2>3, <1>1, InConcat DEF Message, Line
<1>3. /\ service' \in [exists : BOOLEAN, started : BOOLEAN, isTracking : BOOLEAN,
                       registered : BOOLEAN]
      /\ service'.exists = service.exists /\ service'.started = service.started
      /\ ~service'.isTracking /\ ~service'.registered
      /\ record \in BOOLEAN /\ service.exists \in BOOLEAN
    BY <1>1 DEF IInv, TypeOK
<1>. DEFINE r == looper' \o channel
<1>4. /\ looper' \in Seq(Queued) /\ r \in Seq(Queued)
      /\ pending' = FALSE /\ FALSE # Unset /\ In("DELIVER", looper')
      /\ \A i, j \in 1 .. Len(looper') :
            looper'[i] = "DELIVER" /\ looper'[j] = "DELIVER" => i = j
      /\ \A x : x # "DELIVER" => (In(x, Line) <=> In(x, r) \/ x = "STOP")
      /\ StopsLast(Line) => StopsLast(r) /\ ~In("START", r)
      /\ service.exists /\ Orders(r, record, service.exists)
    BY <1>1, Posted DEF Commands
<1>. HIDE DEF r
<1>5. /\ Orders(Line', record', service.exists) /\ record' \in BOOLEAN
      /\ channel' \in Seq(Messages)
      /\ In("DESTROY", Line')
      /\ \A x : In(x, Line') => In(x, r) \/ x = "DESTROY"
      /\ StopsLast(r) => StopsLast(Line')
    <2>1. "CREATE" \in Range(looper \o channel) <=> In("CREATE", r)
        BY <1>2, <1>4, RangeIn DEF Line
    <2>2. CASE record /\ ~In("CREATE", r)
        <3>1. record' = FALSE /\ channel' = Append(channel, "DESTROY")
            BY <1>1, <2>1, <2>2 DEF StopSelf
        <3>2. Line' = Append(r, "DESTROY") /\ channel' \in Seq(Messages)
            <4>1. "DESTROY" \in Queued /\ "DESTROY" \in Messages
                BY DEF Queued, Messages
            <4>. QED
                BY <4>1, <3>1, <1>2, <1>4, AppendedLine, AppendProperties DEF Line, r
        <3>. DEFINE d == Append(r, "DESTROY")
        <3>3. /\ Orders(d, FALSE, service.exists)
              /\ \A x : In(x, d) <=> In(x, r) \/ x = "DESTROY"
              /\ StopsLast(r) => StopsLast(d)
            <4>1. Orders(r, TRUE, service.exists)
                BY <2>2, <1>3, <1>4
            <4>2. r \in Seq(Queued) /\ service.exists \in BOOLEAN /\ ~In("CREATE", r)
                BY <2>2, <1>3, <1>4
            <4>. QED
                BY ONLY <4>1, <4>2, OrdersDestroyed
        <3>. QED
            BY <3>1, <3>2, <3>3
    <2>3. CASE ~(record /\ ~In("CREATE", r))
        <3>1. UNCHANGED orders
            BY <1>1, <2>1, <2>3 DEF StopSelf
        <3>2. Line' = r /\ record' = record /\ channel' = channel
            BY <3>1 DEF Line, orders, r
        <3>3. In("DESTROY", r)
            BY <2>3, <1>4 DEF Orders, OneAtATime
        <3>. QED
            BY <3>2, <3>3, <1>2, <1>3, <1>4
    <2>. QED
        BY <2>2, <2>3
<1>6. TypeOK'
    <2>1. /\ looper' \in Seq(Messages \cup {"DELIVER"})
          /\ (pending # Unset <=> "DELIVER" \in Range(looper))'
        BY <1>4, Delivered
    <2>. QED
        BY <2>1, <1>1, <1>3, <1>4, <1>5 DEF IInv, TypeOK, screen, history
<1>7. Orders(Line, record, service.exists)'
    BY <1>3, <1>5
<1>8. Kept' /\ Followed' /\ Repaired' /\ Recording'
    BY <1>1, <1>3, <1>4, <1>5 DEF IInv, Kept, Followed, Latest, Repaired, Recording, screen
<1>9. InStep'
    <2>. SUFFICES ASSUME ~hasty'
                  PROVE  InStep'
        BY DEF InStep
    <2>1. ~hasty /\ ~leaked' /\ unseen' = unseen /\ isRunning' = isRunning /\ ui' = ui
          /\ switch' = switch
        BY <1>1 DEF IInv, InStep, screen, history
    <2>2. StopsLast(Line') /\ ~In("START", Line')
        BY <2>1, <1>4, <1>5 DEF IInv, InStep
    <2>3. ui # "dead" => ~switch /\ (unseen => (isRunning <=> switch))
        BY <2>1, <1>2 DEF IInv, InStep
    <2>. QED
        BY <2>1, <2>2, <2>3, <1>3, <1>4 DEF InStep
<1>. QED
    BY <1>6, <1>7, <1>8, <1>9 DEF IInv

LEMMA OnDestroyIInv ==
    ASSUME IInv, OnDestroy
    PROVE  IInv'
<1>1. /\ Message("DESTROY") /\ PostValue(FALSE) /\ service' = NoService
      /\ leaked' = (leaked \/ service.registered)
      /\ UNCHANGED <<screen, isRunning, unseen, orders, permission, history>>
    BY DEF OnDestroy
<1>2. In("DESTROY", Line)
    <2>1. looper \in Seq(Queued) /\ channel \in Seq(Queued)
        BY LineTyped DEF IInv
    <2>2. In(Head(looper), looper)
        BY <2>1, <1>1, InTail DEF Message
    <2>. QED
        BY <2>1, <2>2, <1>1, InConcat DEF Message, Line
<1>3. /\ service' \in [exists : BOOLEAN, started : BOOLEAN, isTracking : BOOLEAN,
                       registered : BOOLEAN]
      /\ service'.exists = FALSE /\ ~service'.started
      /\ ~service'.isTracking /\ ~service'.registered
    BY <1>1 DEF NoService
<1>4. /\ looper' \in Seq(Queued)
      /\ pending' = FALSE /\ FALSE # Unset /\ In("DELIVER", looper')
      /\ \A i, j \in 1 .. Len(looper') :
            looper'[i] = "DELIVER" /\ looper'[j] = "DELIVER" => i = j
      /\ \A x : x # "DELIVER" => (In(x, Line) <=> In(x, Line') \/ x = "DESTROY")
      /\ StopsLast(Line) => StopsLast(Line')
      /\ ~In("DESTROY", Line') /\ Orders(Line', record, FALSE)
    <2>1. Line' = looper' \o channel
        BY <1>1 DEF Line, orders
    <2>. QED
        BY <2>1, <1>1, Posted
<1>5. TypeOK'
    <2>1. /\ looper' \in Seq(Messages \cup {"DELIVER"})
          /\ (pending # Unset <=> "DELIVER" \in Range(looper))'
        BY <1>4, Delivered
    <2>2. leaked' \in BOOLEAN
        BY <1>1 DEF IInv, TypeOK
    <2>. QED
        BY <2>1, <2>2, <1>1, <1>3, <1>4 DEF IInv, TypeOK, screen, orders, history
<1>6. Orders(Line, record, service.exists)'
    BY <1>1, <1>3, <1>4 DEF orders
<1>7. Kept' /\ Followed' /\ Repaired' /\ Recording'
    BY <1>1, <1>3, <1>4 DEF IInv, Kept, Followed, Latest, Repaired, Recording, screen
<1>8. InStep'
    <2>. SUFFICES ASSUME ~hasty'
                  PROVE  InStep'
        BY DEF InStep
    <2>1. /\ ~hasty /\ ~leaked' /\ ~In("START", Line) /\ StopsLast(Line)
          /\ ui # "dead" => ~switch /\ (unseen => (isRunning <=> switch))
        BY <1>1, <1>2 DEF IInv, InStep, history
    <2>2. StopsLast(Line') /\ ~In("START", Line')
        BY <2>1, <1>4
    <2>. QED
        BY <2>1, <2>2, <1>1, <1>3, <1>4 DEF InStep, screen
<1>. QED
    BY <1>5, <1>6, <1>7, <1>8 DEF IInv

LEMMA DeliverIInv ==
    ASSUME IInv, Deliver
    PROVE  IInv'
<1>1. /\ Message("DELIVER") /\ looper' = Tail(looper) /\ isRunning' = pending /\ pending' = Unset
      /\ UNCHANGED <<ui, tracking, permission, history>>
    BY DEF Deliver
<1>. DEFINE q == looper' \o channel
<1>2. /\ looper' \in Seq(Queued) /\ q \in Seq(Queued) /\ Orders(q, record, service.exists)
      /\ pending # Unset /\ ~In("DELIVER", looper')
      /\ \A x : x # "DELIVER" => (In(x, Line) <=> In(x, q))
      /\ StopsLast(Line) => StopsLast(q)
      /\ \A i, j \in 1 .. Len(looper') :
            looper'[i] = "DELIVER" /\ looper'[j] = "DELIVER" => i = j
    <2>1. TypeOK /\ Orders(Line, record, service.exists) /\ Kept
        BY DEF IInv
    <2>2. /\ Tail(looper) \in Seq(Queued) /\ Tail(looper) \o channel \in Seq(Queued)
          /\ Orders(Tail(looper) \o channel, record, service.exists)
          /\ \A x : In(x, Line) <=> In(x, Tail(looper) \o channel) \/ x = "DELIVER"
          /\ StopsLast(Line) => StopsLast(Tail(looper) \o channel)
          /\ ~In("DELIVER", Tail(looper)) /\ pending # Unset
          /\ \A i, j \in 1 .. Len(Tail(looper)) :
                Tail(looper)[i] = "DELIVER" /\ Tail(looper)[j] = "DELIVER" => i = j
        BY <2>1, <1>1, HeadLeaves
    <2>. QED
        BY <2>2, <1>1
<1>3. TypeOK /\ pending \in BOOLEAN /\ (pending <=> service.isTracking)
    BY <1>2 DEF IInv, TypeOK, Followed, Latest
<1>4. /\ looper' \in Seq(Messages \cup {"DELIVER"})
      /\ (pending # Unset <=> "DELIVER" \in Range(looper))'
    BY <1>1, <1>2, Delivered
<1>5. CASE ui = "shown"
    <2>1. Observe(pending) /\ unseen' = unseen
        BY <1>5 DEF Deliver
    <2>2. /\ switch' = pending /\ viewStatus' = (IF pending THEN "RUNNING" ELSE "IDLE")
          /\ channel' \in Seq(Messages) /\ record' \in BOOLEAN
          /\ Orders(Line', record', service.exists)
          /\ \A x : In(x, q) => In(x, Line')
          /\ In("DESTROY", Line') <=> In("DESTROY", q)
          /\ pending = switch => Line' = q
        BY <2>1, <1>2, <1>3, Observed
    <2>. HIDE DEF q
    <2>3. TypeOK'
        BY <2>1, <2>2, <1>1, <1>3, <1>4 DEF TypeOK, tracking, history
    <2>4. Orders(Line, record, service.exists)'
        BY <2>2, <1>1 DEF tracking
    <2>5. Kept' /\ Followed' /\ Repaired' /\ Recording'
        BY <2>1, <2>2, <1>1, <1>2, <1>3, <1>5
        DEF IInv, Kept, Followed, Latest, Repaired, Recording, tracking, history
    <2>6. InStep'
        <3>. SUFFICES ASSUME ~hasty'
                      PROVE  InStep'
            BY DEF InStep
        <3>1. ~hasty /\ pending = switch /\ ~unseen
            BY <1>1, <1>2, <1>3, <1>5 DEF IInv, InStep, Followed, TypeOK, history
        <3>2. Line' = q /\ switch' = switch /\ ~unseen'
            BY <3>1, <2>1, <2>2
        <3>. QED
            BY <3>1, <3>2, <1>1, <1>2 DEF IInv, InStep, tracking, history
    <2>. QED
        BY <2>3, <2>4, <2>5, <2>6 DEF IInv
<1>6. CASE ui # "shown"
    <2>1. unseen' = TRUE /\ UNCHANGED <<switch, viewStatus, orders>>
        BY <1>6 DEF Deliver
    <2>2. Line' = q
        BY <2>1 DEF Line, orders
    <2>. HIDE DEF q
    <2>3. TypeOK'
        BY <2>1, <1>1, <1>3, <1>4 DEF TypeOK, orders, tracking, history
    <2>4. Orders(Line, record, service.exists)'
        BY <2>1, <2>2, <1>1, <1>2 DEF orders, tracking
    <2>5. Kept' /\ Followed' /\ Repaired' /\ Recording'
        BY <2>1, <2>2, <1>1, <1>2, <1>3, <1>6
        DEF IInv, Kept, Followed, Latest, Repaired, Recording, tracking, history
    <2>6. InStep'
        BY <2>1, <2>2, <1>1, <1>2 DEF IInv, InStep, tracking, history
    <2>. QED
        BY <2>3, <2>4, <2>5, <2>6 DEF IInv
<1>. QED
    BY <1>5, <1>6

LEMMA UnhandledInOrder ==
    ASSUME TypeOK
    PROVE  Unhandled \in Seq(Commands) /\ (StopsLast(Line) => StopsLast(Unhandled))
<1>. DEFINE P == {n \in 1 .. Len(Line) :
                    /\ Line[n] \in {"START", "STOP"}
                    /\ \A d \in n .. Len(Line) : Line[d] # "DESTROY"}
            e == Entries(Line, P)
<1>1. Line \in Seq(Queued) /\ P \in SUBSET (1 .. Len(Line))
    BY LineTyped
<1>2. Unhandled = e
    <2>1. DOMAIN Line = 1 .. Len(Line)
        BY <1>1, LenProperties
    <2>. QED
        BY <2>1 DEF Unhandled, Line
<1>3. \A n \in P : Line[n] \in Commands
    BY DEF Commands
<1>. HIDE DEF P, e
<1>4. /\ e \in Seq({Line[n] : n \in P})
      /\ \A i, j \in 1 .. Len(e) : i <= j =>
            \E m, n \in P : m <= n /\ e[i] = Line[m] /\ e[j] = Line[n]
    <2>1. LET f == Entries(Line, P)
          IN  /\ f \in Seq({Line[n] : n \in P})
              /\ \A i, j \in 1 .. Len(f) : i <= j =>
                    \E m, n \in P : m <= n /\ f[i] = Line[m] /\ f[j] = Line[n]
        BY ONLY <1>1, EntriesInOrder
    <2>. QED
        BY <2>1 DEF e
<1>5. e \in Seq(Commands)
    <2>1. {Line[n] : n \in P} \subseteq Commands
        BY <1>3
    <2>. QED
        BY <2>1, <1>4, SeqMonotonic
<1>6. ASSUME StopsLast(Line), NEW i \in 1 .. Len(e), NEW j \in 1 .. Len(e),
             e[i] = "STOP", e[j] = "START"
      PROVE  j < i
    <2>1. i \in Nat /\ j \in Nat /\ Len(Line) \in Nat
        BY <1>1, <1>5, LenProperties
    <2>2. ASSUME i <= j PROVE FALSE
        <3>1. PICK m \in P, n \in P : m <= n /\ e[i] = Line[m] /\ e[j] = Line[n]
            BY <1>4, <2>2
        <3>2. m \in 1 .. Len(Line) /\ n \in 1 .. Len(Line)
            BY <1>1
        <3>3. n < m
            BY <3>1, <3>2, <1>6 DEF StopsLast
        <3>. QED
            BY <3>1, <3>2, <3>3, <2>1
    <2>. QED
        BY <2>1, <2>2
<1>. QED
    BY <1>2, <1>5, <1>6 DEF StopsLast

LEMMA CrashIInv ==
    ASSUME IInv, Crash
    PROVE  IInv'
<1>1. /\ ui' = "dead" /\ viewStatus' = "IDLE"
      /\ isRunning' = Unset /\ pending' = Unset /\ unseen' = FALSE
      /\ looper' = <<>> /\ service' = NoService /\ leaked' = FALSE
      /\ UNCHANGED <<switch, record, permission, wanted, hasty, late>>
    BY DEF Crash
<1>2. Line' = channel' /\ channel' \in Seq(Messages) /\ Orders(Line', record, FALSE)
      /\ ~In("DESTROY", Line') /\ (StopsLast(Line) => StopsLast(Line'))
    <2>1. CASE record
        <3>. DEFINE again == IF Unhandled = <<>> THEN <<"NULL">> ELSE Unhandled
        <3>1. Unhandled \in Seq(Commands) /\ (StopsLast(Line) => StopsLast(Unhandled))
            BY UnhandledInOrder DEF IInv
        <3>2. again \in Seq(Commands \cup {"NULL"}) /\ (StopsLast(Line) => StopsLast(again))
            <4>1. CASE Unhandled = <<>>
                <5>1. <<"NULL">> \in Seq(Commands \cup {"NULL"})
                    OBVIOUS
                <5>2. StopsLast(<<"NULL">>)
                    BY DEF StopsLast
                <5>. QED
                    BY <5>1, <5>2, <4>1
            <4>2. CASE Unhandled # <<>>
                BY <3>1, <4>2, SeqMonotonic
            <4>. QED
                BY <4>1, <4>2
        <3>3. channel' = <<"CREATE">> \o again
            BY <2>1 DEF Crash
        <3>. HIDE DEF again
        <3>4. /\ channel' \in Seq(Messages) /\ Orders(channel', TRUE, FALSE)
              /\ ~In("DESTROY", channel') /\ (StopsLast(again) => StopsLast(channel'))
            BY <3>2, <3>3, OrdersAgain
        <3>5. Line' = channel'
            BY <1>1, <3>4, ConcatEmptySeq DEF Line
        <3>6. record = TRUE
            BY <2>1 DEF IInv, TypeOK
        <3>. QED
            BY <3>2, <3>4, <3>5, <3>6
    <2>2. CASE ~record
        <3>1. channel' = <<>>
            BY <2>2 DEF Crash
        <3>2. Line' = <<>>
            BY <3>1, <1>1 DEF Line
        <3>3. /\ Orders(<<>>, FALSE, FALSE) /\ ~In("DESTROY", <<>>) /\ StopsLast(<<>>)
              /\ <<>> \in Seq(Messages)
            BY DEF Orders, OneAtATime, Addressed, In, StopsLast
        <3>4. record = FALSE
            BY <2>2 DEF IInv, TypeOK
        <3>. QED
            BY <3>1, <3>2, <3>3, <3>4
    <2>. QED
        BY <2>1, <2>2
<1>3. /\ ~service'.exists /\ ~service'.started /\ ~service'.isTracking /\ ~service'.registered
      /\ service'.exists = FALSE
    BY <1>1 DEF NoService
<1>4. TypeOK'
    <2>1. looper' \in Seq(Queued) /\ ~In("DELIVER", looper')
        BY <1>1 DEF In
    <2>2. /\ looper' \in Seq(Messages \cup {"DELIVER"})
          /\ (pending # Unset <=> "DELIVER" \in Range(looper))'
        BY <1>1, <2>1, Delivered
    <2>3. settled' \in BOOLEAN /\ record \in BOOLEAN
        BY DEF Crash, IInv, TypeOK
    <2>4. count' \in [toggles : 0 .. MaxToggles, departures : 0 .. MaxDepartures,
                      crashes : 0 .. MaxCrashes]
        BY Bounds DEF IInv, TypeOK, Crash
    <2>5. service' \in [exists : BOOLEAN, started : BOOLEAN, isTracking : BOOLEAN,
                        registered : BOOLEAN]
        BY <1>1 DEF NoService
    <2>. QED
        BY <2>2, <2>3, <2>4, <2>5, <1>1, <1>2 DEF IInv, TypeOK
<1>5. Orders(Line, record, service.exists)'
    BY <1>1, <1>2, <1>3
<1>6. Kept'
    BY <1>1 DEF Kept
<1>7. Followed' /\ Repaired' /\ Recording'
    BY <1>1, <1>3, UnsetIsNoBoolean DEF Followed, Latest, Repaired, Recording
<1>8. InStep'
    BY <1>1, <1>2, <1>3 DEF IInv, InStep
<1>. QED
    BY <1>4, <1>5, <1>6, <1>7, <1>8 DEF IInv

--------------------------------------------------------------------------------
(* The theorems *)

LEMMA InitIInv ==
    ASSUME Init
    PROVE  IInv
<1>1. Line = <<>> /\ \A x : ~In(x, Line)
    BY DEF Init, Line, In
<1>2. looper \in Seq(Queued) /\ ~In("DELIVER", looper)
    BY DEF Init, In
<1>3. TypeOK
    <2>1. looper \in Seq(Messages \cup {"DELIVER"}) /\ "DELIVER" \notin Range(looper)
        BY <1>2, RangeIn DEF Queued
    <2>2. count \in [toggles : 0 .. MaxToggles, departures : 0 .. MaxDepartures,
                     crashes : 0 .. MaxCrashes]
        BY Bounds DEF Init
    <2>3. service \in [exists : BOOLEAN, started : BOOLEAN, isTracking : BOOLEAN,
                        registered : BOOLEAN]
        BY DEF Init, NoService
    <2>4. channel \in Seq(Messages)
        BY DEF Init
    <2>. QED
        BY <2>1, <2>2, <2>3, <2>4 DEF Init, TypeOK
<1>4. Orders(Line, record, service.exists)
    BY <1>1 DEF Init, Orders, OneAtATime, Addressed, NoService
<1>5. Kept /\ Followed /\ Repaired /\ Recording
    <2>1. /\ ~service.started /\ ~service.isTracking /\ service = NoService
          /\ isRunning # TRUE /\ pending = Unset /\ ~unseen /\ switch = FALSE
          /\ viewStatus = "IDLE" /\ looper = <<>>
        BY UnsetIsNoBoolean DEF Init, NoService
    <2>2. Kept
        BY <2>1 DEF Kept
    <2>3. Followed
        BY <2>1 DEF Followed, Latest
    <2>4. Repaired /\ Recording
        BY <2>1 DEF Repaired, Recording
    <2>. QED
        BY <2>2, <2>3, <2>4
<1>6. InStep
    BY <1>1 DEF Init, InStep, StopsLast, NoService
<1>. QED
    BY <1>3, <1>4, <1>5, <1>6 DEF IInv

LEMMA NextIInv ==
    ASSUME IInv, [Next]_vars
    PROVE  IInv'
<1>1. ASSUME Next
      PROVE  IInv'
    BY <1>1, ToggleIInv, LeaveIInv, ReturnIInv, RelaunchIInv, GrantPermissionIInv, ArriveIInv,
       OnCreateIInv, StartTrackingIInv, StopTrackingIInv, RestartedIdleIInv, OnDestroyIInv,
       DeliverIInv, CrashIInv
    DEF Next, HandleMessage, OnAccuracyChanged, AppKilled
<1>2. ASSUME UNCHANGED vars
      PROVE  IInv'
    BY <1>2
    DEF vars, screen, live, orders, tracking, history, IInv, TypeOK, Line, Kept, Followed, Latest,
        Repaired, Recording, InStep
<1>. QED
    BY <1>1, <1>2

(* The orders under way, the posted value, the switch and the service are  *)
(* always in the relations of IInv, whatever the user, the activity        *)
(* manager and the crashes do.                                             *)
THEOREM Invariance == Spec => []IInv
<1>1. Init => IInv
    BY InitIInv
<1>2. IInv /\ [Next]_vars => IInv'
    BY NextIInv
<1>. QED
    BY <1>1, <1>2, PTL DEF Spec

(* The variables stay within their types; a message that has a value set   *)
(* waits exactly when a posted value does.                                 *)
THEOREM TypeCorrect == Spec => []TypeOK
<1>1. IInv => TypeOK
    BY DEF IInv
<1>. QED
    BY <1>1, Invariance, PTL

(* Once all messages are handled the switch, the text beside it and the    *)
(* service say the same, however often commands and feedback crossed.      *)
THEOREM ScreenAgrees == Spec => []UIAgreesAtRest
<1>1. IInv => UIAgreesAtRest
    <2>. SUFFICES ASSUME IInv, Rest
                  PROVE  /\ switch <=> viewStatus = "RUNNING"
                         /\ switch <=> service.isTracking
                         /\ service.started => service.isTracking
        BY DEF UIAgreesAtRest
    <2>1. ui = "shown" /\ pending = Unset /\ \A x : ~In(x, Line)
        BY NothingUnderWay DEF IInv, Rest
    <2>2. ~unseen /\ (isRunning = TRUE <=> service.isTracking)
        BY <2>1 DEF IInv, Followed, Latest
    <2>3. (viewStatus = "RUNNING" <=> isRunning = TRUE) /\ (service.started => service.isTracking)
        BY <2>1, <2>2 DEF IInv, Followed
    <2>4. switch <=> service.isTracking
        BY <2>1, <2>2 DEF IInv, Repaired
    <2>. QED
        BY <2>2, <2>3, <2>4
<1>. QED
    BY <1>1, Invariance, PTL

(* At rest with the switch on the service has registered for updates,      *)
(* unless it was at work when the permission came.                         *)
THEOREM RecordsWhileOn == Spec => []LogsWhileOn
<1>1. IInv => LogsWhileOn
    <2>. SUFFICES ASSUME IInv, Rest, switch, permission, ~late
                  PROVE  service.registered
        BY DEF LogsWhileOn
    <2>1. ui = "shown" /\ pending = Unset /\ \A x : ~In(x, Line)
        BY NothingUnderWay DEF IInv, Rest
    <2>2. service.isTracking
        BY <2>1 DEF IInv, Followed, Repaired
    <2>. QED
        BY <2>2 DEF IInv, Recording
<1>. QED
    BY <1>1, Invariance, PTL

(* Only a user who did not wait for what he had asked for, or turned the   *)
(* device meanwhile, leaves updates behind that no service removes.        *)
THEOREM NoLeakWithoutHaste == Spec => []NoLeakUnlessHasty
<1>1. IInv => NoLeakUnlessHasty
    BY DEF IInv, InStep, NoLeakUnlessHasty
<1>. QED
    BY <1>1, Invariance, PTL

================================================================================
