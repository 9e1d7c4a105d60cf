-------------------------- MODULE OrdersPath_proofs --------------------------
(***************************************************************************)
(* Theorems of ZoneWindows and of OrdersPath, for any orders, zones, event *)
(* times and lengths, any delivery and any cuts into batches, with crashes *)
(* anywhere in either process.                                             *)
(*                                                                         *)
(* The first part is about the zone query alone, for any commits of        *)
(* silver.  Two watermarks do two jobs.  The one a batch closes windows by *)
(* is the one the next batch drops late orders by, so what has been        *)
(* reported and what may still be opened never meet (Separated).  And      *)
(* neither outruns the orders before the batch (Justified), so only an     *)
(* order that is late by its position in silver can be dropped.            *)
(*                                                                         *)
(* The second part joins it to the cleaner: the invariant of SilverClean   *)
(* makes silver_orders the stream the first part is about, so what is      *)
(* proved there holds on the path as well.                                 *)
(***************************************************************************)
EXTENDS OrdersPath, FiniteSetTheorems, TLAPS

Cleaner == INSTANCE SilverClean_proofs WITH
        Records <- Orders, silver <- InSilver,
        up <- cleanerUp, pos <- cleanerPos, stop <- cleanerStop, stage <- cleanerStage,
        lateMark <- cleanerLate, mark <- cleanerMark, nextMark <- cleanerNext, ran <- cleanerRan,
        deadPos <- 0, deadStop <- 0, deadStage <- "committed", dead <- [o \in Orders |-> 0]

-----------------------------------------------------------------------------
(* The zone query.                                                         *)


(* The watermark of the last batch that ran: what is reported is below it. *)
Past == IF stage = "planned" THEN lateMark ELSE mark

Behind(m, n) == m > 0 => \E p \in Read(0, n) : m <= EventTime[p] - Watermark

Justified == /\ lateMark <= mark /\ mark <= nextMark
             /\ Behind(mark, pos) /\ Behind(nextMark, stop)
             /\ stage # "committed" => nextMark = mark

Separated == /\ \A o \in open : WindowEnd(o) > Past
             /\ \A o \in Reported : WindowEnd(o) <= Past
             /\ Reported \subseteq Orders

ZoneInv == TypeOK /\ Justified /\ Separated /\ WindowReportedOnce /\ OnTimeCounted /\ RowsComplete

-----------------------------------------------------------------------------
(* Arithmetic of windows.                                                  *)
LEMMA WindowEndPositive ==
  ASSUME NEW o \in Orders
  PROVE  WindowEnd(o) \in Int /\ WindowEnd(o) > 0
<1>1. EventTime[o] \in Nat /\ WindowLength \in Nat \ {0}
  BY WindowAssumption
<1>2. EventTime[o] \div WindowLength \in Nat
  BY <1>1
<1>3. \A a, b \in Nat : b > 0 => (a + 1) * b \in Int /\ (a + 1) * b > 0
  OBVIOUS
<1> QED  BY <1>1, <1>2, <1>3 DEF WindowEnd

(* Silver is read forward, and appending to it takes nothing away.         *)
LEMMA ReadIsOrders ==
  ASSUME TypeOK, NEW a \in Nat, NEW b \in Nat, b <= Len(silver)
  PROVE  Read(a, b) \subseteq Orders
BY DEF TypeOK, Read

LEMMA ReadGrows ==
  ASSUME NEW a \in Nat, NEW b \in Nat, a <= b
  PROVE  Read(0, a) \subseteq Read(0, b)
BY DEF Read

LEMMA ReadKept ==
  ASSUME TypeOK, NEW commit, silver' = Append(silver, commit),
         NEW a \in Nat, NEW b \in Nat, b <= Len(silver)
  PROVE  UNION {silver'[i] : i \in (a + 1) .. b} = Read(a, b)
<1>1. \A i \in (a + 1) .. b : silver'[i] = silver[i]
  BY DEF TypeOK
<1> QED  BY <1>1 DEF Read

(* An order whose window a watermark has passed is late for every commit   *)
(* after those the watermark comes from.                                   *)
LEMMA PassedIsLate ==
  ASSUME TypeOK, NEW o \in Orders, NEW m \in Int, NEW n \in Nat, n <= Len(silver),
         Behind(m, n), WindowEnd(o) <= m
  PROVE  \E p \in Read(0, n) : ~(WindowEnd(o) > EventTime[p] - Watermark)
<1>1. WindowEnd(o) \in Int /\ WindowEnd(o) > 0
  BY WindowEndPositive
<1>2. PICK p \in Read(0, n) : m <= EventTime[p] - Watermark
  BY <1>1 DEF Behind
<1>3. EventTime[p] \in Nat /\ Watermark \in Nat
  BY <1>2, ReadIsOrders, WindowAssumption
<1> QED  BY <1>1, <1>2, <1>3

LEMMA LateByPosition ==
  ASSUME TypeOK, NEW i \in 1 .. Len(silver), NEW o \in silver[i],
         NEW m \in Int, NEW n \in Nat, n < i, Behind(m, n), WindowEnd(o) <= m
  PROVE  ~OnTime(o, i)
<1>1. o \in Orders /\ i - 1 \in Nat /\ n <= i - 1 /\ n <= Len(silver)
  BY DEF TypeOK
<1>2. PICK p \in Read(0, n) : ~(WindowEnd(o) > EventTime[p] - Watermark)
  BY <1>1, PassedIsLate
<1>3. p \in Read(0, i - 1)
  BY <1>1, <1>2, ReadGrows
<1> QED  BY <1>2, <1>3 DEF OnTime

(* The rows of a report partition the orders it closes.                    *)
LEMMA ReportPartitions ==
  ASSUME NEW X
  PROVE  /\ UNION ReportRows(X) = X
         /\ \A r, q \in ReportRows(X) : (\E o \in r, p \in q : SameRow(o, p)) => r = q
         /\ \A r \in ReportRows(X), o \in X : (\E p \in r : SameRow(o, p)) => o \in r
<1>1. \A o : SameRow(o, o)
  BY DEF SameRow
<1>2. \A o, p : SameRow(o, p) => SameRow(p, o)
  BY DEF SameRow
<1>3. \A o, p, q : SameRow(o, p) /\ SameRow(p, q) => SameRow(o, q)
  BY DEF SameRow
<1>4. UNION ReportRows(X) = X
  BY <1>1 DEF ReportRows
<1>5. ASSUME NEW r \in ReportRows(X), NEW o \in X, NEW p \in r, SameRow(o, p)
      PROVE  o \in r
  BY <1>2, <1>3, <1>5 DEF ReportRows
<1>6. ASSUME NEW r \in ReportRows(X), NEW q \in ReportRows(X),
             NEW o \in r, NEW p \in q, SameRow(o, p)
      PROVE  r = q
  <2>1. PICK a \in X : r = {z \in X : SameRow(a, z)}
    BY DEF ReportRows
  <2>2. PICK b \in X : q = {z \in X : SameRow(b, z)}
    BY DEF ReportRows
  <2>3. SameRow(a, b) /\ SameRow(b, a)
    BY <1>2, <1>3, <1>6, <2>1, <2>2
  <2>4. \A z : SameRow(a, z) <=> SameRow(b, z)
    BY <1>3, <2>3
  <2> QED  BY <2>1, <2>2, <2>4
<1> QED  BY <1>4, <1>5, <1>6

-----------------------------------------------------------------------------
LEMMA InitEstablishes == Init => ZoneInv
<1> SUFFICES ASSUME Init PROVE ZoneInv
  OBVIOUS
<1> USE DEF Init
<1>1. TypeOK
  <2>1. silver \in Seq(SUBSET Orders) /\ gold \in Seq(SUBSET SUBSET Orders)
    OBVIOUS
  <2>2. pos \in 0 .. stop /\ stop \in 0 .. Len(silver)
    OBVIOUS
  <2>3. up \in BOOLEAN /\ ran \in BOOLEAN
    OBVIOUS
  <2> QED  BY <2>1, <2>2, <2>3 DEF TypeOK
<1>2. Justified /\ Separated
  BY DEF Justified, Behind, Separated, Reported
<1>3. WindowReportedOnce /\ OnTimeCounted /\ RowsComplete
  BY DEF WindowReportedOnce, OnTimeCounted, RowsComplete, Done
<1> QED  BY <1>1, <1>2, <1>3 DEF ZoneInv

LEMMA MarkIsInt ==
  ASSUME TypeOK, NEW m \in MaxMark(Read(pos, stop))
  PROVE  m \in Int /\ mark <= m /\ (m = mark \/ \E p \in Read(pos, stop) : m = EventTime[p] - Watermark)
<1>1. Read(pos, stop) \subseteq Orders
  BY ReadIsOrders DEF TypeOK
<1>2. \A p \in Read(pos, stop) : EventTime[p] - Watermark \in Int
  BY <1>1, WindowAssumption
<1> QED  BY <1>2 DEF MaxMark, Marks, TypeOK

LEMMA ArrivePreserves ==
  ASSUME ZoneInv, NEW commit \in SUBSET Orders, Arrive(commit)
  PROVE  ZoneInv'
<1> USE DEF ZoneInv
<1>1. silver' = Append(silver, commit) /\ silver \in Seq(SUBSET Orders) /\ UNCHANGED <<up, query>>
  BY DEF Arrive, TypeOK
<1>2. /\ silver' \in Seq(SUBSET Orders) /\ Len(silver') = Len(silver) + 1
      /\ \A i \in 1 .. Len(silver) : silver'[i] = silver[i]
      /\ silver'[Len(silver) + 1] = commit
  BY <1>1
<1>3. TypeOK'
  BY <1>1, <1>2 DEF TypeOK, query
<1>4. ASSUME NEW n \in Nat, n <= Len(silver)
      PROVE  Read(0, n)' = Read(0, n)
  BY <1>1, <1>4, ReadKept DEF Read
<1>5. Justified'
  <2>1. pos \in Nat /\ stop \in Nat /\ pos <= Len(silver) /\ stop <= Len(silver)
    BY DEF TypeOK
  <2>2. Read(0, pos)' = Read(0, pos) /\ Read(0, stop)' = Read(0, stop)
    BY <1>1, <1>4, <2>1 DEF query, Read
  <2> QED  BY <1>1, <2>2 DEF Justified, Behind, query
<1>6. Separated' /\ WindowReportedOnce'
  BY <1>1 DEF Separated, Reported, Past, WindowReportedOnce, query
<1>7. ASSUME NEW i \in 1 .. Len(silver), NEW o
      PROVE  OnTime(o, i)' <=> OnTime(o, i)
  <2>1. i - 1 \in Nat /\ i - 1 <= Len(silver)
    OBVIOUS
  <2>2. Read(0, i - 1)' = Read(0, i - 1)
    BY <1>4, <2>1
  <2> QED  BY <2>2 DEF OnTime
<1>8. OnTimeCounted'
  <2>1. Done' = Done /\ Done \in 0 .. Len(silver) /\ open' = open /\ Reported' = Reported
    BY <1>1 DEF Done, Reported, TypeOK, query
  <2> SUFFICES ASSUME NEW i \in 1 .. Done, NEW o \in silver'[i], OnTime(o, i)'
               PROVE  o \in open \cup Reported
    BY <2>1 DEF OnTimeCounted
  <2>2. i \in 1 .. Len(silver)
    BY <2>1
  <2> QED  BY <1>2, <1>7, <2>2 DEF OnTimeCounted
<1>9. RowsComplete'
  <2> SUFFICES ASSUME NEW i \in 1 .. Len(silver) + 1, NEW j \in DOMAIN gold,
                      NEW o \in silver'[i], NEW r \in gold[j],
                      OnTime(o, i)', NEW p \in r, SameRow(o, p)
               PROVE  o \in r
    BY <1>1, <1>2 DEF RowsComplete, query
  <2>1. CASE i \in 1 .. Len(silver)
    BY <1>2, <1>7, <2>1 DEF RowsComplete
  <2>2. CASE i = Len(silver) + 1
    <3>1. o \in Orders
      BY <1>2, <2>2
    <3>2. WindowEnd(o) \in Int /\ WindowEnd(o) <= mark
      <4>1. p \in Reported
        BY DEF Reported
      <4>2. WindowEnd(o) <= Past
        BY <4>1 DEF Separated, SameRow
      <4>3. Past <= mark /\ Past \in Int /\ mark \in Int
        BY DEF Past, Justified, TypeOK
      <4> QED  BY <3>1, <4>2, <4>3, WindowEndPositive
    <3>3. mark \in Int /\ pos \in Nat /\ pos <= Len(silver) /\ Behind(mark, pos)
      BY DEF TypeOK, Justified
    <3>4. PICK w \in Read(0, pos) : ~(WindowEnd(o) > EventTime[w] - Watermark)
      BY <3>1, <3>2, <3>3, PassedIsLate
    <3>5. w \in Read(0, i - 1)'
      <4>1. Len(silver) \in Nat /\ i - 1 = Len(silver)
        BY <1>1, <2>2
      <4>2. w \in Read(0, Len(silver))
        BY <3>3, <3>4, <4>1, ReadGrows
      <4>3. Read(0, i - 1)' = Read(0, i - 1)
        BY <1>4, <4>1
      <4> QED  BY <4>1, <4>2, <4>3
    <3> QED  BY <3>4, <3>5 DEF OnTime
  <2> QED  BY <2>1, <2>2
<1> QED  BY <1>3, <1>5, <1>6, <1>8, <1>9

LEMMA PlanPreserves ==
  ASSUME ZoneInv, Plan
  PROVE  ZoneInv'
<1> USE DEF ZoneInv
<1>1. /\ pos' = stop /\ stop' \in stop .. Len(silver)
      /\ lateMark' = mark /\ mark' = nextMark /\ nextMark' = nextMark
      /\ stage = "committed" /\ stage' = "planned" /\ ran' = FALSE
      /\ UNCHANGED <<silver, up, open, gold>>
  BY DEF Plan, Ends
<1>2. TypeOK'
  <2>1. pos' \in 0 .. stop' /\ stop' \in 0 .. Len(silver')
    BY <1>1 DEF TypeOK
  <2>2. ran' \in BOOLEAN
    BY <1>1
  <2> QED  BY <1>1, <2>1, <2>2 DEF TypeOK
<1>3. Justified'
  <2>1. Read(0, stop) \subseteq Read(0, stop')
    BY <1>1, ReadGrows DEF TypeOK
  <2>2. Read(0, stop)' = Read(0, stop') /\ Read(0, pos)' = Read(0, stop)
    BY <1>1 DEF Read
  <2>3. mark \in Int /\ nextMark \in Int /\ mark <= nextMark
    BY DEF TypeOK, Justified
  <2>4. nextMark > 0 => \E p \in Read(0, stop) : nextMark <= EventTime[p] - Watermark
    BY DEF Justified, Behind
  <2> QED  BY <1>1, <2>1, <2>2, <2>3, <2>4 DEF Justified, Behind
<1>4. Past' = Past /\ Done' = Done /\ Reported' = Reported
  BY <1>1 DEF Past, Done, Reported
<1>5. Separated'
  BY <1>1, <1>4 DEF Separated
<1>6. WindowReportedOnce' /\ OnTimeCounted' /\ RowsComplete'
  BY <1>1, <1>4 DEF WindowReportedOnce, OnTimeCounted, RowsComplete, OnTime, Read
<1> QED  BY <1>2, <1>3, <1>5, <1>6

LEMMA CommitPreserves ==
  ASSUME ZoneInv, Commit
  PROVE  ZoneInv'
<1> USE DEF ZoneInv
<1>1. /\ stage = "sunk" /\ stage' = "committed"
      /\ UNCHANGED <<silver, up, pos, stop, lateMark, mark, open, gold>> /\ ran' = TRUE
      /\ nextMark' \in MaxMark(Read(pos, stop)) \/ nextMark' = mark
  BY DEF Commit
<1>2. nextMark' \in Int /\ mark <= nextMark'
      /\ (nextMark' = mark \/ \E p \in Read(pos, stop) : nextMark' = EventTime[p] - Watermark)
  BY <1>1, MarkIsInt DEF TypeOK
<1>3. TypeOK'
  BY <1>1, <1>2 DEF TypeOK
<1>4. Justified'
  <2>1. Read(0, pos) \subseteq Read(0, stop) /\ Read(pos, stop) \subseteq Read(0, stop)
    BY DEF TypeOK, Read
  <2>2. Behind(nextMark', stop)
    BY <1>2, <2>1 DEF Justified, Behind
  <2>3. Read(0, stop)' = Read(0, stop) /\ Read(0, pos)' = Read(0, pos)
    BY <1>1 DEF Read
  <2> QED  BY <1>1, <1>2, <2>2, <2>3 DEF Justified, Behind
<1>5. Past' = Past /\ Done' = Done /\ Reported' = Reported
  BY <1>1 DEF Past, Done, Reported
<1>6. Separated'
  BY <1>1, <1>5 DEF Separated
<1>7. WindowReportedOnce' /\ OnTimeCounted' /\ RowsComplete'
  BY <1>1, <1>5 DEF WindowReportedOnce, OnTimeCounted, RowsComplete, OnTime, Read
<1> QED  BY <1>3, <1>4, <1>6, <1>7

LEMMA ProcessPreserves ==
  ASSUME ZoneInv, Start \/ Crash \/ UNCHANGED vars
  PROVE  ZoneInv'
<1> USE DEF ZoneInv
<1>1. /\ UNCHANGED <<silver, pos, stop, stage, lateMark, mark, nextMark, open, gold>>
      /\ up' \in BOOLEAN /\ ran' \in BOOLEAN
  BY DEF Start, Crash, vars, query, TypeOK
<1>2. TypeOK'
  BY <1>1 DEF TypeOK
<1>3. Justified' /\ Separated'
  BY <1>1 DEF Justified, Behind, Separated, Past, Reported, Read
<1>4. WindowReportedOnce' /\ OnTimeCounted' /\ RowsComplete'
  BY <1>1 DEF WindowReportedOnce, OnTimeCounted, RowsComplete, Reported, Done, OnTime, Read
<1> QED  BY <1>2, <1>3, <1>4

-----------------------------------------------------------------------------
(* The batch itself.                                                       *)
Held == open \cup NotLate(Read(pos, stop))

(* What it counts is not late, and what it closes has not been reported.   *)
LEMMA HeldIsOpen ==
  ASSUME ZoneInv, Sink
  PROVE  /\ Held \subseteq Orders /\ Read(pos, stop) \subseteq Orders
         /\ \A o \in Held : WindowEnd(o) > lateMark
         /\ \A o \in Held : WindowEnd(o) \in Int
         /\ \A o \in Reported : WindowEnd(o) <= lateMark /\ WindowEnd(o) \in Int
<1>1. Read(pos, stop) \subseteq Orders
  BY ReadIsOrders DEF ZoneInv, TypeOK
<1>2. Past = lateMark
  BY DEF Sink, Past
<1>3. open \subseteq Orders /\ Reported \subseteq Orders
  BY DEF ZoneInv, TypeOK, Separated
<1> QED  BY <1>1, <1>2, <1>3, WindowEndPositive DEF ZoneInv, Separated, Held, NotLate

LEMMA SinkReports ==
  ASSUME ZoneInv, Sink
  PROVE  /\ open' = Held \ Closing(Held)
         /\ Reported' = Reported \cup Closing(Held)
         /\ \A j \in DOMAIN gold' : \A r \in gold'[j] :
               \/ j \in DOMAIN gold /\ r \in gold[j]
               \/ j = Len(gold) + 1 /\ j \notin DOMAIN gold /\ r \in ReportRows(Closing(Held))
<1>1. gold \in Seq(SUBSET SUBSET Orders)
  BY DEF ZoneInv, TypeOK
<1>2. open' = Held \ Closing(Held)
      /\ gold' = IF Closing(Held) = {} THEN gold ELSE Append(gold, ReportRows(Closing(Held)))
  BY DEF Sink, Held
<1>3. UNION ReportRows(Closing(Held)) = Closing(Held)
  BY ReportPartitions
<1>4. CASE Closing(Held) = {}
  BY <1>2, <1>4 DEF Reported
<1>5. CASE Closing(Held) # {}
  <2>1. /\ DOMAIN gold' = 1 .. (Len(gold) + 1) /\ DOMAIN gold = 1 .. Len(gold)
        /\ \A j \in 1 .. Len(gold) : gold'[j] = gold[j]
        /\ gold'[Len(gold) + 1] = ReportRows(Closing(Held)) /\ Len(gold) \in Nat
    BY <1>1, <1>2, <1>5
  <2>2. Reported' = Reported \cup UNION ReportRows(Closing(Held))
    BY <2>1 DEF Reported
  <2> QED  BY <1>2, <1>3, <2>1, <2>2
<1> QED  BY <1>4, <1>5

LEMMA SinkPreserves ==
  ASSUME ZoneInv, Sink
  PROVE  ZoneInv'
<1>1. /\ stage = "planned" /\ stage' = "sunk" /\ ran' = TRUE
      /\ UNCHANGED <<silver, up, pos, stop, lateMark, mark, nextMark>>
  BY DEF Sink
<1> DEFINE X == Closing(Held)
<1>2. /\ Held \subseteq Orders /\ Read(pos, stop) \subseteq Orders
      /\ \A o \in Held : WindowEnd(o) > lateMark
      /\ \A o \in Held : WindowEnd(o) \in Int
      /\ \A o \in Reported : WindowEnd(o) <= lateMark /\ WindowEnd(o) \in Int
  BY HeldIsOpen
<1>3. /\ open' = Held \ X
      /\ Reported' = Reported \cup X
      /\ \A j \in DOMAIN gold' : \A r \in gold'[j] :
            \/ j \in DOMAIN gold /\ r \in gold[j]
            \/ j = Len(gold) + 1 /\ j \notin DOMAIN gold /\ r \in ReportRows(X)
  BY SinkReports
<1>4. X \subseteq Held /\ \A o \in Held : o \in X <=> WindowEnd(o) <= mark
  BY DEF Closing
<1>5. /\ UNION ReportRows(X) = X
      /\ \A r, q \in ReportRows(X) : (\E o \in r, p \in q : SameRow(o, p)) => r = q
      /\ \A r \in ReportRows(X), o \in X : (\E p \in r : SameRow(o, p)) => o \in r
  BY ReportPartitions
<1>6. /\ lateMark \in Int /\ mark \in Int /\ lateMark <= mark
      /\ pos \in Nat /\ stop \in Nat /\ pos <= stop /\ stop <= Len(silver)
  BY DEF ZoneInv, TypeOK, Justified
<1>7. TypeOK'
  <2>1. gold' \in Seq(SUBSET SUBSET Orders)
    <3>1. ReportRows(X) \in SUBSET SUBSET Orders
      BY <1>2, <1>4, <1>5
    <3>2. gold' = gold \/ gold' = Append(gold, ReportRows(X))
      BY DEF Sink, Held
    <3> QED  BY <3>1, <3>2 DEF ZoneInv, TypeOK
  <2>2. open' \subseteq Orders
    BY <1>2, <1>3
  <2> QED  BY <1>1, <2>1, <2>2 DEF ZoneInv, TypeOK
<1>8. Justified'
  <2>1. Read(0, stop)' = Read(0, stop) /\ Read(0, pos)' = Read(0, pos)
    BY <1>1 DEF Read
  <2> QED  BY <1>1, <2>1 DEF ZoneInv, Justified, Behind
<1>9. Separated'
  <2>1. Past' = mark
    BY <1>1 DEF Past
  <2> QED  BY <1>2, <1>3, <1>4, <1>6, <2>1 DEF ZoneInv, Separated
<1>10. ASSUME NEW o, NEW p \in Reported, NEW q \in Held
       PROVE  ~SameRow(p, q) /\ ~SameRow(q, p)
  BY <1>2, <1>6 DEF SameRow
<1>11. WindowReportedOnce'
  <2> SUFFICES ASSUME NEW i \in DOMAIN gold', NEW j \in DOMAIN gold',
                      NEW r \in gold'[i], NEW q \in gold'[j],
                      NEW o \in r, NEW p \in q, SameRow(o, p)
               PROVE  i = j /\ r = q
    BY DEF WindowReportedOnce
  <2>1. CASE i \in DOMAIN gold /\ r \in gold[i] /\ j \in DOMAIN gold /\ q \in gold[j]
    BY <2>1 DEF ZoneInv, WindowReportedOnce
  <2>2. CASE r \in ReportRows(X) /\ q \in ReportRows(X) /\ i = Len(gold) + 1 /\ j = Len(gold) + 1
    BY <1>5, <2>2
  <2>3. CASE i \in DOMAIN gold /\ r \in gold[i] /\ q \in ReportRows(X)
    <3>1. o \in Reported /\ p \in Held
      BY <1>4, <1>5, <2>3 DEF Reported
    <3> QED  BY <1>10, <3>1
  <2>4. CASE r \in ReportRows(X) /\ j \in DOMAIN gold /\ q \in gold[j]
    <3>1. o \in Held /\ p \in Reported
      BY <1>4, <1>5, <2>4 DEF Reported
    <3> QED  BY <1>10, <3>1
  <2> QED  BY <1>3, <2>1, <2>2, <2>3, <2>4
<1>12. ASSUME NEW i \in 1 .. Len(silver), i > pos, NEW o \in silver[i], OnTime(o, i)
       PROVE  ~(WindowEnd(o) <= mark)
  BY <1>6, <1>12, LateByPosition DEF ZoneInv, Justified
<1>13. \A i \in 1 .. Len(silver) : silver[i] \subseteq Orders
  BY DEF ZoneInv, TypeOK
<1>14. OnTimeCounted'
  <2>1. Done = pos /\ Done' = stop
    BY <1>1 DEF Done
  <2> SUFFICES ASSUME NEW i \in 1 .. stop, NEW o \in silver[i], OnTime(o, i)
               PROVE  o \in Held \cup Reported
    BY <1>1, <1>3, <2>1 DEF OnTimeCounted, OnTime, Read
  <2>2. CASE i <= pos
    BY <2>1, <2>2 DEF ZoneInv, OnTimeCounted, Held
  <2>3. CASE i > pos
    <3>1. i \in 1 .. Len(silver)
      BY <1>6
    <3>2. o \in Orders /\ ~(WindowEnd(o) <= mark)
      BY <1>12, <1>13, <2>3, <3>1
    <3>3. WindowEnd(o) \in Int
      BY <3>2, WindowEndPositive
    <3>4. o \in Read(pos, stop)
      BY <1>6, <2>3 DEF Read
    <3> QED  BY <1>6, <3>2, <3>3, <3>4 DEF Held, NotLate
  <2> QED  BY <1>6, <2>2, <2>3
<1>15. RowsComplete'
  <2> SUFFICES ASSUME NEW i \in 1 .. Len(silver), NEW j \in DOMAIN gold',
                      NEW o \in silver[i], NEW r \in gold'[j],
                      OnTime(o, i), NEW p \in r, SameRow(o, p)
               PROVE  o \in r
    BY <1>1 DEF RowsComplete, OnTime, Read
  <2>1. CASE j \in DOMAIN gold /\ r \in gold[j]
    BY <2>1 DEF ZoneInv, RowsComplete
  <2>2. CASE r \in ReportRows(X)
    <3>1. p \in X /\ p \in Held /\ WindowEnd(o) = WindowEnd(p)
      BY <1>4, <1>5, <2>2 DEF SameRow
    <3>2. WindowEnd(o) <= mark
      BY <1>4, <3>1
    <3>3. i <= pos
      BY <1>6, <1>12, <3>2
    <3>4. o \in open \cup Reported
      BY <1>1, <1>6, <3>3 DEF ZoneInv, OnTimeCounted, Done
    <3>5. o \in Held
      BY <1>10, <3>1, <3>4 DEF Held
    <3> QED  BY <1>4, <1>5, <2>2, <3>2, <3>5
  <2> QED  BY <1>3, <2>1, <2>2
<1> QED  BY <1>7, <1>8, <1>9, <1>11, <1>14, <1>15 DEF ZoneInv

-----------------------------------------------------------------------------
LEMMA Invariance == Spec => []ZoneInv
<1>1. ZoneInv /\ [Next]_vars => ZoneInv'
  <2> SUFFICES ASSUME ZoneInv, [Next]_vars
               PROVE  ZoneInv'
    OBVIOUS
  <2>1. CASE \E commit \in SUBSET Orders : Arrive(commit)
    BY <2>1, ArrivePreserves
  <2>2. CASE Plan
    BY <2>2, PlanPreserves
  <2>3. CASE Sink
    BY <2>3, SinkPreserves
  <2>4. CASE Commit
    BY <2>4, CommitPreserves
  <2>5. CASE Start \/ Crash \/ UNCHANGED vars
    BY <2>5, ProcessPreserves
  <2> QED  BY <2>1, <2>2, <2>3, <2>4, <2>5 DEF Next, QueryStep
<1> QED  BY <1>1, InitEstablishes, PTL DEF Spec

(* The zone query keeps its state well typed and never reads past silver.  *)
THEOREM TypeCorrect == Spec => []TypeOK
BY Invariance, PTL DEF ZoneInv

(* A window of a zone is reported at most once, whatever arrives late and  *)
(* whatever is replayed, so the dashboard's rows sum to the period total.  *)
THEOREM NoWindowTwice == Spec => []WindowReportedOnce
BY Invariance, PTL DEF ZoneInv

(* No order on time is dropped, wherever batches are cut.                  *)
THEOREM OnTimeOrdersCount == Spec => []OnTimeCounted
BY Invariance, PTL DEF ZoneInv

(* A reported row is final: it has every order of its window that is on    *)
(* time, the ones the query has not read yet included.                     *)
THEOREM RowsAreFinal == Spec => []RowsComplete
BY Invariance, PTL DEF ZoneInv

-----------------------------------------------------------------------------
(* What a row is made of: orders of one window, each of them from silver.  *)
Counts == /\ open \cup Reported \subseteq Read(0, Len(silver))
          /\ \A j \in DOMAIN gold : \A r \in gold[j] : \A o, p \in r : WindowEnd(o) = WindowEnd(p)

LEMMA CountsStep == ASSUME ZoneInv, Counts, [Next]_vars PROVE Counts'
<1>0. silver \in Seq(SUBSET Orders) /\ Len(silver) \in Nat
      /\ pos \in Nat /\ stop \in Nat /\ stop <= Len(silver)
  BY DEF ZoneInv, TypeOK
<1>1. ASSUME NEW commit \in SUBSET Orders, Arrive(commit) PROVE Counts'
  <2>1. silver' = Append(silver, commit) /\ UNCHANGED <<open, gold>>
    BY <1>1 DEF Arrive, query
  <2>2. Len(silver') = Len(silver) + 1 /\ \A i \in 1 .. Len(silver) : silver'[i] = silver[i]
    BY <1>0, <2>1
  <2>3. Read(0, Len(silver)) \subseteq Read(0, Len(silver))'
    BY <1>0, <2>2 DEF Read
  <2>4. Reported' = Reported
    BY <2>1 DEF Reported
  <2> QED
    BY <2>1, <2>3, <2>4 DEF Counts
<1>2. CASE Sink
  <2>1. /\ open' = Held \ Closing(Held)
        /\ Reported' = Reported \cup Closing(Held)
        /\ \A j \in DOMAIN gold' : \A r \in gold'[j] :
              \/ j \in DOMAIN gold /\ r \in gold[j]
              \/ j = Len(gold) + 1 /\ j \notin DOMAIN gold /\ r \in ReportRows(Closing(Held))
    BY <1>2, SinkReports
  <2>2. Held \subseteq Read(0, Len(silver)) /\ Closing(Held) \subseteq Held
    <3>1. Read(pos, stop) \subseteq Read(0, Len(silver))
      BY <1>0 DEF Read
    <3> QED
      BY <3>1 DEF Held, NotLate, Closing, Counts
  <2>3. Read(0, Len(silver))' = Read(0, Len(silver))
    BY <1>2 DEF Sink, Read
  <2>4. \A r \in ReportRows(Closing(Held)) : \A o, p \in r : WindowEnd(o) = WindowEnd(p)
    BY DEF ReportRows, SameRow
  <2>5. open' \cup Reported' \subseteq Read(0, Len(silver))'
    BY <2>1, <2>2, <2>3 DEF Counts
  <2>6. ASSUME NEW j \in DOMAIN gold', NEW r \in gold'[j], NEW o \in r, NEW p \in r
        PROVE  WindowEnd(o) = WindowEnd(p)
    BY <2>1, <2>4 DEF Counts
  <2> QED
    BY <2>5, <2>6 DEF Counts
<1>3. CASE UNCHANGED <<silver, open, gold>>
  BY <1>3 DEF Counts, Reported, Read
<1> QED
  BY <1>1, <1>2, <1>3 DEF Next, QueryStep, Plan, Commit, Start, Crash, vars, query

LEMMA CountsInvariance == Spec => []Counts
<1>1. Init => Counts
  BY DEF Init, Counts, Reported
<1>2. ZoneInv /\ Counts /\ [Next]_vars => Counts'
  BY CountsStep
<1> QED
  BY <1>1, <1>2, Invariance, PTL DEF Spec

-----------------------------------------------------------------------------
(* The path implements the cleaner.                                        *)

LEMMA CleanerInit == PathInit => Cleaner!Init
BY DEF PathInit, S!Init, Cleaner!Init

(* Bronze grows, or the cleaner takes a step of its own, or it idles.      *)
LEMMA CleanerNext == [PathNext]_path_vars => [Cleaner!Next]_Cleaner!vars
<1> SUFFICES ASSUME [PathNext]_path_vars PROVE Cleaner!Next \/ UNCHANGED Cleaner!vars
  OBVIOUS
<1>1. ASSUME NEW e \in Orders, Deliver(e) PROVE Cleaner!Next
  <2>1. Cleaner!Arrive(e)
    BY <1>1 DEF Deliver, S!Arrive, Cleaner!Arrive, S!dedupQuery, S!deadQuery,
                Cleaner!dedupQuery, Cleaner!deadQuery
  <2> QED
    BY <2>1 DEF Cleaner!Next
<1>2. CASE CleanerSink
  <2>1. Cleaner!Sink
    BY <1>2 DEF CleanerSink, S!Sink, Cleaner!Sink, S!Deduplicate, Cleaner!Deduplicate,
                S!Unknown, Cleaner!Unknown, S!SameEvent, Cleaner!SameEvent,
                S!NotLate, Cleaner!NotLate, S!Clean, Cleaner!Clean, S!Rows, Cleaner!Rows,
                S!Unexpired, Cleaner!Unexpired, S!deadQuery, Cleaner!deadQuery
  <2> QED
    BY <2>1 DEF Cleaner!Next, Cleaner!SilverStep
<1>3. CASE S!Plan
  <2>1. Cleaner!Plan
    BY <1>3 DEF S!Plan, Cleaner!Plan, S!Ends, Cleaner!Ends, S!deadQuery, Cleaner!deadQuery
  <2> QED
    BY <2>1 DEF Cleaner!Next, Cleaner!SilverStep
<1>4. CASE S!Commit
  <2>1. Cleaner!Commit
    BY <1>4 DEF S!Commit, Cleaner!Commit, S!MaxMark, Cleaner!MaxMark, S!Marks, Cleaner!Marks,
                S!Clean, Cleaner!Clean, S!Rows, Cleaner!Rows, S!deadQuery, Cleaner!deadQuery
  <2> QED
    BY <2>1 DEF Cleaner!Next, Cleaner!SilverStep
<1>5. CASE CleanerStart \/ CleanerCrash
  <2>1. Cleaner!Start \/ Cleaner!Crash
    BY <1>5 DEF CleanerStart, CleanerCrash, S!Start, S!Crash, Cleaner!Start, Cleaner!Crash,
                S!dedupQuery, S!deadQuery, Cleaner!dedupQuery, Cleaner!deadQuery
  <2> QED
    BY <2>1 DEF Cleaner!Next
<1>6. CASE UNCHANGED <<bronze, cleaner, silver>>
  BY <1>6 DEF cleaner, InSilver, Cleaner!vars, Cleaner!dedupQuery, Cleaner!deadQuery
<1>7. CASE ZoneStep \/ ZoneStart \/ ZoneCrash \/ UNCHANGED path_vars
  <2>1. UNCHANGED <<bronze, cleaner, silver>>
    BY <1>7 DEF ZoneStep, ZoneStart, ZoneCrash, path_vars, vars, QueryStep, Plan, Sink,
                Commit, Start, Crash
  <2> QED
    BY <1>6, <2>1
<1> QED
  BY <1>1, <1>2, <1>3, <1>4, <1>5, <1>7 DEF PathNext, CleanerStep

LEMMA CleanerInvariant == PathSpec => []Cleaner!IInv
<1>1. PathSpec => Cleaner!Spec
  BY CleanerInit, CleanerNext, PTL DEF PathSpec, Cleaner!Spec
<1>2. Cleaner!SilverAssumption
  BY PathAssumption DEF PathAssumption, Cleaner!SilverAssumption
<1>3. Cleaner!Spec => []Cleaner!IInv
  BY <1>2, Cleaner!Invariant
<1> QED
  BY <1>1, <1>3, PTL

-----------------------------------------------------------------------------
(* The path implements the zone query.  Its premise is that no row comes   *)
(* in two commits, which is what the cleaner's invariant says of the state *)
(* after the commit.                                                       *)

Commits == silver \in Seq(SUBSET Orders)

LEMMA OnceInSilver ==
    ASSUME NEW commits \in Seq(SUBSET Orders), NEW e,
           Cardinality({k \in DOMAIN commits : e \in commits[k]}) <= 1,
           NEW i \in DOMAIN commits, NEW j \in DOMAIN commits, e \in commits[i], e \in commits[j]
    PROVE  i = j
<1> DEFINE holders == {k \in DOMAIN commits : e \in commits[k]}
<1>1. Len(commits) \in Nat /\ DOMAIN commits = 1 .. Len(commits)
  OBVIOUS
<1>2. IsFiniteSet(holders) /\ Cardinality(holders) \in Nat
  <2>1. IsFiniteSet(1 .. Len(commits))
    BY <1>1, FS_Interval
  <2>2. holders \in SUBSET (1 .. Len(commits))
    BY <1>1
  <2>3. IsFiniteSet(holders)
    BY <2>1, <2>2, FS_Subset
  <2> QED
    BY <2>3, FS_CardinalityType
<1>3. Cardinality(holders) <= 1 /\ {i, j} \in SUBSET holders
  OBVIOUS
<1> HIDE DEF holders
<1>4. Cardinality({i, j}) <= Cardinality(holders)
  BY <1>2, <1>3, FS_Subset
<1> SUFFICES ASSUME i # j PROVE FALSE
  OBVIOUS
<1>5. Cardinality({i, j}) = 2
  <2>1. IsFiniteSet({i}) /\ Cardinality({i}) = 1
    BY FS_Singleton
  <2>2. Cardinality({i} \cup {j}) = 2
    <3>1. j \notin {i}
      OBVIOUS
    <3>2. Cardinality({i} \cup {j}) = Cardinality({i}) + 1
      BY <2>1, <3>1, FS_AddElement
    <3> QED
      BY <2>1, <3>2
  <2>3. {i} \cup {j} = {i, j}
    OBVIOUS
  <2> QED
    BY <2>2, <2>3
<1> QED
  BY <1>2, <1>3, <1>4, <1>5

LEMMA FreshCommit ==
    ASSUME Cleaner!Types, Cleaner!Positions,
           NEW fresh \in S!Deduplicate(S!Clean(S!Rows(cleanerPos, cleanerStop)))
    PROVE  /\ fresh \subseteq Orders
           /\ \A p \in fresh : p \notin Malformed /\ \E j \in cleanerPos + 1 .. cleanerStop : bronze[j] = p
<1>1. bronze \in Seq(Orders) /\ cleanerPos \in Nat /\ cleanerStop \in 0 .. Len(bronze)
  BY DEF Cleaner!Types, Cleaner!Positions
<1>2. S!Rows(cleanerPos, cleanerStop) \subseteq Orders
  BY <1>1 DEF S!Rows
<1> QED
  BY <1>2 DEF S!Deduplicate, S!Unknown, S!NotLate, S!Clean, S!Rows

LEMMA SinkArrives ==
    ASSUME Commits, Cleaner!IInv, Cleaner!IInv', CleanerSink
    PROVE  Commits' /\ (Next \/ UNCHANGED vars)
<1>1. PICK fresh \in S!Deduplicate(S!Clean(S!Rows(cleanerPos, cleanerStop))) :
         silver' = IF fresh = {} THEN silver ELSE Append(silver, fresh)
  BY DEF CleanerSink
<1>2. fresh \subseteq Orders /\ silver' = IF fresh = {} THEN silver ELSE Append(silver, fresh)
  BY <1>1, FreshCommit DEF Cleaner!IInv
<1>3. UNCHANGED <<up, query>>
  BY DEF CleanerSink
<1>4. Commits'
  BY <1>2 DEF Commits
<1>5. CASE fresh = {}
  BY <1>2, <1>3, <1>4, <1>5 DEF vars
<1>6. CASE fresh # {}
  <2>1. /\ Len(silver) \in Nat /\ Len(silver') = Len(silver) + 1 /\ silver'[Len(silver) + 1] = fresh
        /\ \A i \in 1 .. Len(silver) : silver'[i] = silver[i]
    BY <1>2, <1>6 DEF Commits
  <2>2. ASSUME NEW i \in 1 .. Len(silver), NEW e \in fresh, e \in silver[i] PROVE FALSE
    <3>1. /\ silver' \in Seq(SUBSET Orders) /\ i # Len(silver') /\ e \in Orders
          /\ i \in DOMAIN silver' /\ Len(silver') \in DOMAIN silver'
          /\ e \in silver'[i] /\ e \in silver'[Len(silver')]
      BY <1>2, <1>4, <2>1, <2>2 DEF Commits
    <3>2. Cardinality({k \in DOMAIN silver' : e \in silver'[k]}) <= 1
      BY <3>1 DEF Cleaner!IInv, Cleaner!NoDuplicates, InSilver
    <3> QED
      BY <3>1, <3>2, OnceInSilver
  <2>3. fresh \cap Read(0, Len(silver)) = {}
    BY <2>1, <2>2 DEF Read
  <2>4. Arrive(fresh)
    BY <1>2, <1>3, <1>6, <2>3 DEF Arrive
  <2> QED
    BY <1>2, <1>4, <2>4 DEF Next
<1> QED
  BY <1>5, <1>6

LEMMA ZoneNext ==
    ASSUME Commits, Cleaner!IInv, Cleaner!IInv', [PathNext]_path_vars
    PROVE  Commits' /\ [Next]_vars
<1> SUFFICES Commits' /\ (Next \/ UNCHANGED vars)
  OBVIOUS
<1>1. CASE CleanerSink
  BY <1>1, SinkArrives
<1>2. CASE UNCHANGED vars
  BY <1>2 DEF Commits, vars
<1>3. CASE ZoneStep \/ ZoneStart \/ ZoneCrash
  <2>1. Next
    BY <1>3 DEF ZoneStep, ZoneStart, ZoneCrash, Next
  <2>2. silver' = silver
    BY <1>3 DEF ZoneStep, ZoneStart, ZoneCrash, QueryStep, Plan, Sink, Commit, Start, Crash
  <2> QED
    BY <2>1, <2>2 DEF Commits
<1> QED
  BY <1>1, <1>2, <1>3 DEF PathNext, Deliver, CleanerStep, CleanerStart, CleanerCrash, path_vars

(* Whatever is delivered again, crashes or is replayed upstream, the path  *)
(* behaves towards the zone query as ZoneWindows has it: silver_orders     *)
(* only grows and no row comes in two commits (silver_clean.py, 97-111).   *)
THEOREM PathFeedsGold == PathSpec => SilverFeedsGold
<1>1. PathInit => Commits /\ Init
  BY DEF PathInit, Init, Commits
<1>2. Cleaner!IInv /\ Cleaner!IInv' /\ Commits /\ [PathNext]_path_vars => Commits' /\ [Next]_vars
  BY ZoneNext
<1> QED
  BY <1>1, <1>2, CleanerInvariant, PTL DEF PathSpec, SilverFeedsGold, Spec

-----------------------------------------------------------------------------
(* What is proved of ZoneWindows holds on the path.                        *)

LEMMA PathZones == PathSpec => [](ZoneInv /\ Counts)
BY Invariance, CountsInvariance, PathFeedsGold, PTL DEF SilverFeedsGold

(* A window of a zone is reported once, however often its orders come into *)
(* bronze, and whatever crashes on the path (gold_aggregates.py, 38-43).   *)
THEOREM PathReportsOnce == PathSpec => []WindowReportedOnce
BY PathZones, PTL DEF ZoneInv

-----------------------------------------------------------------------------
(* On time for the cleaner is on time for the zone query: the orders whose *)
(* commits come before an order's own came before it in bronze.            *)

LEMMA WindowEndsLater ==
    ASSUME NEW e \in Orders
    PROVE  /\ EventTime[e] \in Nat /\ WindowEnd(e) \in Int /\ WindowLength \in Nat
           /\ WindowEnd(e) > EventTime[e] /\ WindowEnd(e) <= EventTime[e] + WindowLength
<1>1. EventTime[e] \in Nat /\ WindowLength \in Nat \ {0}
  BY WindowAssumption DEF WindowAssumption
<1>2. ASSUME NEW t \in Nat, NEW n \in Nat \ {0}
      PROVE  /\ ((t \div n) + 1) * n \in Int /\ ((t \div n) + 1) * n > t
             /\ ((t \div n) + 1) * n <= t + n
  <2>1. t \div n \in Int /\ t % n \in 0 .. n - 1 /\ t = n * (t \div n) + (t % n)
    OBVIOUS
  <2>2. PICK d \in Int : d = t \div n
    BY <2>1
  <2>3. (d + 1) * n = n * d + n /\ n * d \in Int
    OBVIOUS
  <2> QED
    BY <2>1, <2>2, <2>3
<1> QED
  BY <1>1, <1>2 DEF WindowEnd

LEMMA OnTimeForBoth ==
    ASSUME NEW e \in Orders, NEW p \in Orders, EventTime[e] > EventTime[p] - WatermarkDelay
    PROVE  WindowEnd(e) > EventTime[p] - Watermark
<1>1. /\ EventTime[e] \in Nat /\ EventTime[p] \in Nat
      /\ WindowEnd(e) \in Int /\ WindowEnd(e) > EventTime[e]
  BY WindowEndsLater
<1>2. WatermarkDelay \in Nat /\ Watermark \in Nat /\ WatermarkDelay <= Watermark
  BY PathAssumption, WindowAssumption DEF PathAssumption, WindowAssumption
<1> QED
  BY <1>1, <1>2

(* What is in silver comes from rows the cleaner is done with.             *)
Linked == \A k \in DOMAIN silver : \A p \in silver[k] :
             p \notin Malformed /\ \E j \in 1 .. Cleaner!Done : bronze[j] = p

OnTimeInSilver == \A k \in DOMAIN silver, i \in 1 .. Len(bronze) :
                     bronze[i] \in silver[k] /\ Cleaner!OnTime(i) =>
                         OnTime(bronze[i], k) \/ Superseded(bronze[i])

Link == Commits /\ Linked /\ OnTimeInSilver

(* A row after all that the cleaner has done is on time for any commit.    *)
LEMMA NewRowOnTime ==
    ASSUME Cleaner!IInv, Commits, Linked,
           NEW e \in Orders, NEW n \in Nat, n <= Len(silver),
           \A j \in 1 .. Cleaner!Done : bronze[j] \notin Malformed =>
               EventTime[e] > EventTime[bronze[j]] - WatermarkDelay
    PROVE  \A p \in Read(0, n) : WindowEnd(e) > EventTime[p] - Watermark
<1> SUFFICES ASSUME NEW p \in Read(0, n)
             PROVE  WindowEnd(e) > EventTime[p] - Watermark
  OBVIOUS
<1>1. PICK k \in 1 .. n : p \in silver[k]
  BY DEF Read
<1>2. k \in DOMAIN silver /\ p \in Orders
  BY <1>1 DEF Commits
<1>3. PICK j \in 1 .. Cleaner!Done : bronze[j] = p /\ p \notin Malformed
  BY <1>1, <1>2 DEF Linked
<1>4. EventTime[e] > EventTime[p] - WatermarkDelay
  BY <1>3
<1> QED
  BY <1>2, <1>4, OnTimeForBoth

LEMMA CleanerBounds ==
    ASSUME Cleaner!IInv
    PROVE  /\ bronze \in Seq(Orders) /\ Len(bronze) \in Nat /\ Cleaner!Done \in 0 .. Len(bronze)
           /\ cleanerPos \in Nat /\ cleanerStop \in Nat /\ cleanerPos <= cleanerStop
           /\ cleanerStop <= Len(bronze)
BY DEF Cleaner!IInv, Cleaner!Types, Cleaner!Positions, Cleaner!Done

(* The order of an on-time row that the cleaner is done with is in one of  *)
(* the commits.                                                            *)
LEMMA KeptInCommit ==
    ASSUME Cleaner!OnTimeKept, NEW i \in 1 .. Cleaner!Done, Cleaner!OnTime(i), bronze[i] \in Orders
    PROVE  \E k \in DOMAIN silver : \E p \in silver[k] : EventId[p] = EventId[bronze[i]]
<1>1. PICK p \in Orders : EventId[p] = EventId[bronze[i]] /\ InSilver[p] > 0
  BY DEF Cleaner!OnTimeKept, Cleaner!SameEvent
<1> DEFINE holders == {k \in DOMAIN silver : p \in silver[k]}
<1>2. Cardinality(holders) > 0
  BY <1>1 DEF InSilver
<1>3. holders # {}
  BY <1>2, FS_EmptySet
<1> QED
  BY <1>1, <1>3

LEMMA LinkArrive ==
    ASSUME Cleaner!IInv, Link, NEW e \in Orders, Deliver(e)
    PROVE  Link'
<1>1. /\ bronze' = Append(bronze, e) /\ silver' = silver /\ Cleaner!Done' = Cleaner!Done
  BY DEF Deliver, vars, S!Arrive, S!dedupQuery, Cleaner!Done
<1>2. /\ Len(bronze') = Len(bronze) + 1 /\ bronze'[Len(bronze) + 1] = e
      /\ \A j \in 1 .. Len(bronze) : bronze'[j] = bronze[j]
  BY <1>1, CleanerBounds
<1>3. Commits' /\ Linked'
  BY <1>1, <1>2, CleanerBounds DEF Link, Commits, Linked
<1>4. ASSUME NEW k \in DOMAIN silver, NEW i \in 1 .. Len(bronze'),
             bronze'[i] \in silver[k], Cleaner!OnTime(i)'
      PROVE  OnTime(bronze'[i], k) \/ Superseded(bronze'[i])
  <2>1. CASE i <= Len(bronze)
    <3>1. i \in 1 .. Len(bronze) /\ \A j \in 1 .. i : j \in 1 .. Len(bronze) /\ bronze'[j] = bronze[j]
      BY <1>2, <2>1, CleanerBounds
    <3>2. Cleaner!OnTime(i)
      BY <1>4, <3>1 DEF Cleaner!OnTime
    <3> QED
      BY <1>4, <3>1, <3>2 DEF Link, OnTimeInSilver
  <2>2. CASE i = Len(bronze) + 1
    <3>1. \A j \in 1 .. Cleaner!Done : bronze[j] \notin Malformed =>
             EventTime[e] > EventTime[bronze[j]] - WatermarkDelay
      <4> SUFFICES ASSUME NEW j \in 1 .. Cleaner!Done, bronze[j] \notin Malformed
                   PROVE  EventTime[e] > EventTime[bronze[j]] - WatermarkDelay
        OBVIOUS
      <4>1. j \in 1 .. i - 1 /\ bronze'[j] = bronze[j] /\ bronze[j] \in Orders \ Malformed /\ bronze'[i] = e
        BY <1>2, <2>2, CleanerBounds
      <4> QED
        BY <1>4, <4>1 DEF Cleaner!OnTime
    <3>2. k \in Nat /\ k - 1 \in Nat /\ k - 1 <= Len(silver)
      BY DEF Link, Commits
    <3>3. bronze'[i] = e
      BY <1>2, <2>2
    <3> QED
      BY <3>1, <3>2, <3>3, NewRowOnTime DEF Link, OnTime
  <2> QED
    BY <1>2, <2>1, <2>2, CleanerBounds
<1>5. OnTimeInSilver'
  BY <1>1, <1>4 DEF OnTimeInSilver, OnTime, Read, Superseded
<1> QED
  BY <1>3, <1>5 DEF Link

(* A new commit holds rows of the open batch only: an on-time row before   *)
(* it is in silver already.                                                *)
LEMMA LinkSink ==
    ASSUME Cleaner!IInv, Cleaner!IInv', Cleaner!OnTimeKept, Link, CleanerSink
    PROVE  Link'
<1> DEFINE n == Len(silver)
<1>1. PICK fresh \in S!Deduplicate(S!Clean(S!Rows(cleanerPos, cleanerStop))) :
         silver' = IF fresh = {} THEN silver ELSE Append(silver, fresh)
  BY DEF CleanerSink
<1>2. /\ bronze' = bronze /\ Cleaner!Done = cleanerPos /\ Cleaner!Done' = cleanerStop
      /\ silver' = IF fresh = {} THEN silver ELSE Append(silver, fresh)
  BY <1>1 DEF CleanerSink, S!Sink, Cleaner!Done
<1>3. fresh \subseteq Orders /\ silver \in Seq(SUBSET Orders) /\ n \in Nat
  BY <1>1, FreshCommit DEF Cleaner!IInv, Link, Commits
<1>4. ASSUME NEW p \in fresh
      PROVE  p \notin Malformed /\ \E j \in cleanerPos + 1 .. cleanerStop : bronze[j] = p
  BY <1>1, FreshCommit DEF Cleaner!IInv
<1>5. /\ silver' \in Seq(SUBSET Orders) /\ n <= Len(silver') /\ Len(silver') <= n + 1
      /\ \A k \in 1 .. n : silver'[k] = silver[k]
      /\ Len(silver') = n + 1 => fresh # {} /\ silver'[n + 1] = fresh
  <2>1. CASE fresh = {}
    BY <1>2, <1>3, <2>1
  <2>2. CASE fresh # {}
    BY <1>2, <1>3, <2>2
  <2> QED
    BY <2>1, <2>2
<1>6. Linked'
  <2> SUFFICES ASSUME NEW k \in DOMAIN silver', NEW p \in silver'[k]
               PROVE  p \notin Malformed /\ \E j \in 1 .. cleanerStop : bronze[j] = p
    BY <1>2 DEF Linked
  <2>1. CASE k <= n
    <3>1. k \in DOMAIN silver /\ p \in silver[k]
      BY <1>3, <1>5, <2>1
    <3>2. p \notin Malformed /\ \E j \in 1 .. cleanerPos : bronze[j] = p
      BY <1>2, <3>1 DEF Link, Linked
    <3> QED
      BY <3>2, CleanerBounds
  <2>2. CASE k = n + 1
    <3>1. p \in fresh
      BY <1>3, <1>5, <2>2
    <3> QED
      BY <1>4, <3>1, CleanerBounds
  <2> QED
    BY <1>3, <1>5, <2>1, <2>2
<1>7. ASSUME NEW i \in 1 .. Len(bronze), Superseded(bronze[i]) PROVE Superseded(bronze[i])'
  <2>1. PICK k \in DOMAIN silver :
           \E p \in silver[k] : p # bronze[i] /\ EventId[p] = EventId[bronze[i]]
    BY <1>7 DEF Superseded
  <2>2. k \in DOMAIN silver' /\ silver'[k] = silver[k]
    BY <1>3, <1>5
  <2> QED
    BY <1>2, <2>1, <2>2 DEF Superseded
<1>8. ASSUME NEW k \in DOMAIN silver', NEW i \in 1 .. Len(bronze),
             bronze[i] \in silver'[k], Cleaner!OnTime(i)
      PROVE  \/ \A p \in UNION {silver'[c] : c \in 0 + 1 .. k - 1} :
                   WindowEnd(bronze[i]) > EventTime[p] - Watermark
             \/ Superseded(bronze[i])'
  <2>0. UNION {silver'[c] : c \in 0 + 1 .. k - 1} = Read(0, k - 1) /\ k \in Nat /\ k - 1 \in 0 .. n
    <3>1. k \in Nat /\ k - 1 \in 0 .. n
      BY <1>3, <1>5
    <3>2. \A c \in 0 + 1 .. k - 1 : silver'[c] = silver[c]
      BY <1>3, <1>5, <3>1
    <3> QED
      BY <3>1, <3>2 DEF Read
  <2>1. CASE k <= n
    <3>1. k \in DOMAIN silver /\ bronze[i] \in silver[k]
      BY <1>3, <1>5, <1>8, <2>1
    <3>2. OnTime(bronze[i], k) \/ Superseded(bronze[i])
      BY <1>8, <3>1 DEF Link, OnTimeInSilver
    <3> QED
      BY <1>7, <2>0, <3>2 DEF OnTime
  <2>2. CASE k = n + 1
    <3>1. bronze[i] \in fresh /\ bronze[i] \in Orders
      BY <1>3, <1>5, <1>8, <2>2
    <3>2. CASE i <= cleanerPos
      <4>1. i \in 1 .. Cleaner!Done
        BY <1>2, <3>2, CleanerBounds
      <4>2. PICK c \in DOMAIN silver : \E p \in silver[c] : EventId[p] = EventId[bronze[i]]
        BY <1>8, <3>1, <4>1, KeptInCommit
      <4>3. PICK p \in silver[c] : EventId[p] = EventId[bronze[i]]
        BY <4>2
      <4>4. c \in DOMAIN silver' /\ n + 1 \in DOMAIN silver' /\ c # n + 1 /\ p \in silver'[c]
            /\ bronze[i] \in silver'[n + 1]
        BY <1>3, <1>5, <2>2, <3>1, <4>3
      <4>5. p # bronze[i]
        <5> SUFFICES ASSUME p = bronze[i] PROVE FALSE
          OBVIOUS
        <5>1. Cardinality({c1 \in DOMAIN silver' : bronze[i] \in silver'[c1]}) <= 1
          BY <3>1 DEF Cleaner!IInv, Cleaner!NoDuplicates, InSilver
        <5> QED
          BY <1>5, <4>4, <5>1, OnceInSilver
      <4> QED
        BY <1>2, <4>3, <4>4, <4>5 DEF Superseded
    <3>3. CASE i > cleanerPos
      <4>1. \A j \in 1 .. Cleaner!Done : bronze[j] \notin Malformed =>
               EventTime[bronze[i]] > EventTime[bronze[j]] - WatermarkDelay
        <5> SUFFICES ASSUME NEW j \in 1 .. Cleaner!Done, bronze[j] \notin Malformed
                     PROVE  EventTime[bronze[i]] > EventTime[bronze[j]] - WatermarkDelay
          OBVIOUS
        <5>1. j \in 1 .. i - 1 /\ bronze[j] \in Orders \ Malformed
          BY <1>2, <3>3, CleanerBounds
        <5> QED
          BY <1>8, <5>1 DEF Cleaner!OnTime
      <4> QED
        BY <1>3, <2>0, <3>1, <4>1, NewRowOnTime DEF Link
    <3> QED
      BY <3>2, <3>3, CleanerBounds
  <2> QED
    BY <1>3, <1>5, <2>1, <2>2
<1>9. OnTimeInSilver'
  BY <1>2, <1>8 DEF OnTimeInSilver, OnTime, Read, Cleaner!OnTime
<1> QED
  BY <1>5, <1>6, <1>9 DEF Link, Commits

LEMMA LinkStep ==
    ASSUME Cleaner!IInv, Cleaner!IInv', Cleaner!OnTimeKept, Link, [PathNext]_path_vars
    PROVE  Link'
<1>1. ASSUME NEW e \in Orders, Deliver(e) PROVE Link'
  BY <1>1, LinkArrive
<1>2. CASE CleanerSink
  BY <1>2, LinkSink
<1>3. CASE UNCHANGED <<bronze, silver>> /\ Cleaner!Done' = Cleaner!Done
  <2>1. Commits' /\ Linked'
    BY <1>3 DEF Link, Commits, Linked
  <2>2. ASSUME NEW k \in DOMAIN silver, NEW i \in 1 .. Len(bronze)
        PROVE  /\ Cleaner!OnTime(i)' <=> Cleaner!OnTime(i)
               /\ OnTime(bronze[i], k)' <=> OnTime(bronze[i], k)
               /\ Superseded(bronze[i])' <=> Superseded(bronze[i])
    BY <1>3 DEF Cleaner!OnTime, OnTime, Read, Superseded
  <2>3. OnTimeInSilver'
    BY <1>3, <2>2 DEF Link, OnTimeInSilver
  <2> QED
    BY <2>1, <2>3 DEF Link
<1>4. CASE (UNCHANGED vars /\ (S!Plan \/ S!Commit)) \/ CleanerStart \/ CleanerCrash
  <2>1. bronze' = bronze /\ Cleaner!Done' = Cleaner!Done
    BY <1>4 DEF S!Plan, S!Commit, CleanerStart, CleanerCrash, S!Start, S!Crash, S!dedupQuery,
                Cleaner!Done
  <2> QED
    BY <1>3, <1>4, <2>1 DEF CleanerStart, CleanerCrash, vars
<1>5. CASE ZoneStep \/ ZoneStart \/ ZoneCrash \/ UNCHANGED path_vars
  <2>1. UNCHANGED <<bronze, cleaner, silver>>
    BY <1>5 DEF ZoneStep, ZoneStart, ZoneCrash, path_vars, vars, QueryStep, Plan, Sink, Commit,
                Start, Crash
  <2> QED
    BY <1>3, <2>1 DEF cleaner, Cleaner!Done
<1> QED
  BY <1>1, <1>2, <1>3, <1>4, <1>5 DEF PathNext, CleanerStep

LEMMA PathLinked == PathSpec => [](Link /\ Cleaner!IInv /\ Cleaner!OnTimeKept)
<1>1. PathInit => Link
  BY DEF PathInit, Init, Link, Commits, Linked, OnTimeInSilver
<1>2. Cleaner!IInv /\ Cleaner!IInv' /\ Cleaner!OnTimeKept /\ Link /\ [PathNext]_path_vars => Link'
  BY LinkStep
<1>3. PathSpec => []Cleaner!OnTimeKept
  <2>1. Cleaner!SilverAssumption
    BY PathAssumption DEF PathAssumption, Cleaner!SilverAssumption
  <2>2. Cleaner!Spec => []Cleaner!OnTimeKept
    BY <2>1, Cleaner!SilverKeepsOnTimeRows
  <2> QED
    BY <2>2, CleanerInit, CleanerNext, PTL DEF PathSpec, Cleaner!Spec
<1> QED
  BY <1>1, <1>2, <1>3, CleanerInvariant, PTL DEF PathSpec

LEMMA LinkCounts ==
    ASSUME Link, Cleaner!IInv, Cleaner!OnTimeKept, ZoneInv
    PROVE  OnTimeReachesGold
<1> SUFFICES ASSUME NEW i \in 1 .. Cleaner!Done, Cleaner!OnTime(i), ~Superseded(bronze[i])
             PROVE  \E k \in DOMAIN silver :
                       bronze[i] \in silver[k] /\ (k <= Done => bronze[i] \in open \cup Reported)
  BY DEF OnTimeReachesGold, Counted, S!Done, S!OnTime, Cleaner!Done, Cleaner!OnTime
<1>1. i \in 1 .. Len(bronze) /\ bronze[i] \in Orders
  BY CleanerBounds
<1>2. PICK k \in DOMAIN silver : bronze[i] \in silver[k]
  BY <1>1, KeptInCommit DEF Superseded
<1>3. OnTime(bronze[i], k)
  BY <1>1, <1>2 DEF Link, OnTimeInSilver
<1>4. ASSUME k <= Done PROVE bronze[i] \in open \cup Reported
  <2>1. k \in 1 .. Done
    BY <1>4 DEF Link, Commits, ZoneInv, TypeOK, Done
  <2> QED
    BY <1>2, <1>3, <2>1 DEF ZoneInv, OnTimeCounted
<1> QED
  BY <1>2, <1>4

(* Wherever either process cuts its batches and whenever it crashes, an    *)
(* order on time in bronze is in silver once the cleaner is done with it,  *)
(* and counted once the zone query is, unless silver had another record of *)
(* the order in its place (silver_clean.py, 31; gold_aggregates.py, 25).   *)
THEOREM PathCountsOnTime == PathSpec => []OnTimeReachesGold
BY LinkCounts, PathLinked, PathZones, PTL

LEMMA LinkFinal ==
    ASSUME Link, Cleaner!IInv, Cleaner!OnTimeKept, ZoneInv
    PROVE  RowsFinal
<1> SUFFICES ASSUME NEW i \in 1 .. Len(bronze), NEW j \in DOMAIN gold, Cleaner!OnTime(i),
                    NEW r \in gold[j], NEW p \in r, SameRow(p, bronze[i]), ~Superseded(bronze[i])
             PROVE  bronze[i] \in r
  BY DEF RowsFinal, S!OnTime, Cleaner!OnTime
<1>1. bronze[i] \in Orders /\ WindowEnd(p) = WindowEnd(bronze[i]) /\ SameRow(bronze[i], p)
  BY CleanerBounds DEF SameRow
<1>2. CASE i <= Cleaner!Done
  <2>1. PICK k \in DOMAIN silver : bronze[i] \in silver[k]
    BY <1>1, <1>2, CleanerBounds, KeptInCommit DEF Superseded
  <2>2. OnTime(bronze[i], k)
    BY <2>1 DEF Link, OnTimeInSilver
  <2>3. k \in 1 .. Len(silver)
    BY DEF Link, Commits
  <2> QED
    BY <1>1, <2>1, <2>2, <2>3 DEF ZoneInv, RowsComplete, SameRow
<1>3. CASE i > Cleaner!Done
  <2>1. /\ p \in Reported /\ mark \in Int /\ lateMark \in Int /\ lateMark <= mark
        /\ pos \in Nat /\ pos <= Len(silver)
    BY DEF Reported, ZoneInv, Justified, TypeOK
  <2>2. WindowEnd(p) <= mark
    <3>1. WindowEnd(p) <= Past
      BY <2>1 DEF ZoneInv, Separated
    <3> QED
      BY <1>1, <2>1, <3>1, WindowEndsLater DEF Past
  <2>3. mark > 0
    BY <1>1, <2>1, <2>2, WindowEndsLater
  <2>4. PICK q \in Read(0, pos) : mark <= EventTime[q] - Watermark
    BY <2>3 DEF ZoneInv, Justified, Behind
  <2>5. \A n \in 1 .. Cleaner!Done : bronze[n] \notin Malformed =>
           EventTime[bronze[i]] > EventTime[bronze[n]] - WatermarkDelay
    <3> SUFFICES ASSUME NEW n \in 1 .. Cleaner!Done, bronze[n] \notin Malformed
                 PROVE  EventTime[bronze[i]] > EventTime[bronze[n]] - WatermarkDelay
      OBVIOUS
    <3>1. n \in 1 .. i - 1 /\ bronze[n] \in Orders \ Malformed
      BY <1>3, CleanerBounds
    <3> QED
      BY <3>1 DEF Cleaner!OnTime
  <2>6. WindowEnd(bronze[i]) > EventTime[q] - Watermark
    BY <1>1, <2>1, <2>4, <2>5, NewRowOnTime DEF Link
  <2>7. q \in Orders /\ EventTime[q] \in Nat /\ Watermark \in Nat
    <3>1. PICK k \in 1 .. pos : q \in silver[k]
      BY <2>4 DEF Read
    <3>2. q \in Orders
      BY <2>1, <3>1 DEF Link, Commits
    <3> QED
      BY <3>2, WindowEndsLater, WindowAssumption DEF WindowAssumption
  <2> QED
    BY <1>1, <2>1, <2>2, <2>4, <2>6, <2>7, WindowEndsLater
<1> QED
  BY <1>2, <1>3, CleanerBounds

(* Once a window is reported, every order of it that is on time in bronze  *)
(* is in its row, also one that the cleaner has yet to read: it would be   *)
(* late (gold_aggregates.py, 38-43).  The order may be there, or in        *)
(* another window, in another record.                                      *)
THEOREM PathRowsFinal == PathSpec => []RowsFinal
BY LinkFinal, PathLinked, PathZones, PTL

-----------------------------------------------------------------------------
(* Two records of an order are in silver only if more than the cleaner's   *)
(* delay lies between them, and a window is no longer than that.           *)

LEMMA RowHoldsOrderOnce ==
    ASSUME Commits, Cleaner!IInv, Counts
    PROVE  NoOrderTwice
<1> SUFFICES ASSUME NEW j \in DOMAIN gold, NEW r \in gold[j], NEW o \in r, NEW p \in r,
                    EventId[o] = EventId[p], o # p
             PROVE  FALSE
  BY DEF NoOrderTwice
<1>1. WindowEnd(o) = WindowEnd(p) /\ o \in Reported /\ p \in Reported
  BY DEF Counts, Reported
<1>2. ASSUME NEW q \in Reported PROVE q \in Orders /\ InSilver[q] > 0
  <2>1. PICK k \in 1 .. Len(silver) : q \in silver[k]
    BY <1>2 DEF Counts, Read
  <2>2. q \in Orders /\ k \in DOMAIN silver
    BY <2>1 DEF Commits
  <2> DEFINE holders == {i \in DOMAIN silver : q \in silver[i]}
  <2>3. IsFiniteSet(holders) /\ holders # {}
    <3>1. IsFiniteSet(1 .. Len(silver)) /\ holders \in SUBSET (1 .. Len(silver))
      BY FS_Interval DEF Commits
    <3> QED
      BY <2>1, <2>2, <3>1, FS_Subset
  <2>4. Cardinality(holders) \in Nat /\ Cardinality(holders) # 0
    BY <2>3, FS_CardinalityType, FS_EmptySet
  <2>5. InSilver[q] = Cardinality(holders)
    BY <2>2 DEF InSilver
  <2> HIDE DEF holders
  <2> QED
    BY <2>2, <2>4, <2>5
<1>3. \/ EventTime[o] > EventTime[p] + WatermarkDelay
      \/ EventTime[p] > EventTime[o] + WatermarkDelay
  BY <1>1, <1>2 DEF Cleaner!IInv, Cleaner!NoDuplicates, Cleaner!SameEvent
<1>4. WindowLength <= WatermarkDelay /\ WatermarkDelay \in Nat
  BY PathAssumption DEF PathAssumption
<1> QED
  BY <1>1, <1>2, <1>3, <1>4, WindowEndsLater

(* No row of gold counts an order twice, however far apart in time the     *)
(* producer publishes it again and whatever the cleaner has forgotten      *)
(* (silver_clean.py, 97-111 and gold_aggregates.py, 38-43).                *)
THEOREM PathCountsOnce == PathSpec => []NoOrderTwice
<1>1. Link /\ Cleaner!IInv /\ Counts => NoOrderTwice
  BY RowHoldsOrderOnce DEF Link
<1> QED
  BY <1>1, PathLinked, PathZones, PTL
=============================================================================
