------------------------- MODULE SilverClean_proofs -------------------------
(***************************************************************************)
(* Proofs about SilverClean, for any records and times of their events,    *)
(* arrival order, redelivery and micro-batch cuts, with crashes anywhere.  *)
(***************************************************************************)
EXTENDS SilverClean, FiniteSetTheorems, TLAPS

(* Dedup state and watermark are each insufficient: the invariant says how *)
(* what one forgets the other still drops.                                 *)
IInv == Types /\ Positions /\ WatermarkJustified /\ Remembered /\ NoDuplicates

LEMMA RowsAreRecords ==
    ASSUME Types, NEW from \in Nat, NEW to \in Nat, to <= Len(bronze)
    PROVE  Rows(from, to) \subseteq Records
  BY DEF Types, Rows

(* What a batch lets through: clean, not late, of an event the state store *)
(* does not know, and one record of each such event.                       *)
LEMMA DeduplicateLemma ==
    ASSUME SilverAssumption, Types, Positions,
           NEW fresh \in Deduplicate(Clean(Rows(pos, stop)))
    PROVE  /\ fresh \subseteq Records \ Malformed
           /\ \A r \in fresh : EventTime[r] > lateMark /\ \A s \in seen : ~SameEvent(r, s)
           /\ \A r, s \in fresh : SameEvent(r, s) => r = s
           /\ \A r \in Unknown(Clean(Rows(pos, stop))) : \E s \in fresh : SameEvent(s, r)
<1> DEFINE U == Unknown(Clean(Rows(pos, stop)))
<1>1. U \subseteq Records \ Malformed
  BY RowsAreRecords DEF Unknown, NotLate, Clean, Positions, Types
<1>2. \A r \in U : EventTime[r] > lateMark /\ \A s \in seen : ~SameEvent(r, s)
  BY DEF Unknown, NotLate
<1>3. fresh \subseteq U /\ \A r \in U : \E s \in fresh : {q \in fresh : SameEvent(q, r)} = {s}
  BY DEF Deduplicate
<1> HIDE DEF U
<1>4. ASSUME NEW r \in fresh, NEW s \in fresh, SameEvent(r, s) PROVE r = s
  <2>1. PICK x \in fresh : {q \in fresh : SameEvent(q, r)} = {x}
    BY <1>3
  <2>2. SameEvent(r, r) /\ SameEvent(s, r)
    BY <1>4 DEF SameEvent
  <2> QED
    BY <2>1, <2>2
<1>5. ASSUME NEW r \in U PROVE \E s \in fresh : SameEvent(s, r)
  BY <1>3
<1> QED
  BY <1>1, <1>2, <1>3, <1>4, <1>5 DEF U

LEMMA CopiesCounted ==
    ASSUME NEW e, NEW from \in Nat, NEW to \in Nat
    PROVE  IsFiniteSet(Copies(e, from, to)) /\ Cardinality(Copies(e, from, to)) \in Nat
<1>1. IsFiniteSet((from + 1) .. to)
  BY FS_Interval
<1>2. Copies(e, from, to) \in SUBSET ((from + 1) .. to)
  BY DEF Copies
<1> QED
  BY <1>1, <1>2, FS_Subset, FS_CardinalityType

LEMMA TypeStep == ASSUME SilverAssumption, Types, Positions, [Next]_vars PROVE Types'
<1> USE DEF Types, Stages
<1>1. ASSUME NEW e \in Records, Arrive(e) PROVE Types'
  BY <1>1 DEF Arrive, dedupQuery, deadQuery
<1>2. CASE Plan
  <2>1. Len(bronze) \in Nat
    OBVIOUS
  <2>2. stop' \in Nat
    BY <1>2, <2>1 DEF Plan, Ends
  <2> QED
    BY <1>2, <2>2 DEF Plan, deadQuery
<1>3. CASE Sink
  <2>1. PICK fresh \in Deduplicate(Clean(Rows(pos, stop))) :
           /\ silver' = [r \in Records |-> IF r \in fresh THEN silver[r] + 1 ELSE silver[r]]
           /\ seen' = Unexpired(seen \cup fresh)
    BY <1>3 DEF Sink
  <2>2. seen' \subseteq Records
    BY <2>1, DeduplicateLemma DEF Unexpired
  <2>3. silver' \in [Records -> Nat]
    BY <2>1
  <2> QED
    BY <1>3, <2>2, <2>3 DEF Sink, deadQuery
<1>4. CASE Commit
  <2>1. \A e \in Records : EventTime[e] - WatermarkDelay \in Int
    BY SilverAssumption DEF SilverAssumption
  <2>2. nextMark' \in Int
    BY <1>4, <2>1, RowsAreRecords DEF Commit, MaxMark, Marks, Clean, Positions
  <2> QED
    BY <1>4, <2>2 DEF Commit, deadQuery
<1>5. CASE DeadPlan
  <2>1. Len(bronze) \in Nat
    OBVIOUS
  <2> QED
    BY <2>1, <1>5 DEF DeadPlan, dedupQuery
<1>6. CASE DeadSink
  <2>1. \A e \in Records : Cardinality(Copies(e, deadPos, deadStop)) \in Nat
    BY CopiesCounted
  <2>2. dead' \in [Records -> Nat]
    BY <1>6, <2>1 DEF DeadSink
  <2> QED
    BY <1>6, <2>2 DEF DeadSink, dedupQuery
<1>7. CASE DeadCommit
  BY <1>7 DEF DeadCommit, dedupQuery
<1>8. CASE Start
  BY <1>8 DEF Start, dedupQuery, deadQuery
<1>9. CASE Crash
  BY <1>9 DEF Crash, deadQuery
<1>10. CASE UNCHANGED vars
  BY <1>10 DEF vars, dedupQuery, deadQuery
<1> QED
  BY <1>1, <1>2, <1>3, <1>4, <1>5, <1>6, <1>7, <1>8, <1>9, <1>10
     DEF Next, SilverStep, DeadStep

(* Bronze only grows at its end: a row keeps its place.                    *)
LEMMA ArriveAppends ==
    ASSUME Types, NEW e \in Records, Arrive(e)
    PROVE  /\ Len(bronze') = Len(bronze) + 1
           /\ \A i \in 1 .. Len(bronze) : bronze'[i] = bronze[i]
  BY DEF Arrive, Types

LEMMA PositionsStep == ASSUME SilverAssumption, Types, Positions, [Next]_vars PROVE Positions'
<1> USE DEF Types, Positions
<1>0. Len(bronze) \in Nat
  OBVIOUS
<1>1. ASSUME NEW e \in Records, Arrive(e) PROVE Positions'
  BY <1>0, <1>1, ArriveAppends DEF Arrive, dedupQuery, deadQuery
<1>2. CASE SilverStep
  BY <1>0, <1>2 DEF SilverStep, Plan, Ends, Sink, Commit, deadQuery
<1>3. CASE DeadStep
  BY <1>0, <1>3 DEF DeadStep, DeadPlan, DeadSink, DeadCommit, dedupQuery
<1>4. CASE Start \/ Crash \/ UNCHANGED vars
  BY <1>4 DEF Start, Crash, vars, dedupQuery, deadQuery
<1> QED
  BY <1>1, <1>2, <1>3, <1>4 DEF Next

(* A mark that the first n rows justify, more rows justify.                *)
LEMMA BehindStays ==
    ASSUME Types, NEW m \in Int, NEW n \in Nat, n <= Len(bronze), Behind(m, n),
           NEW k \in Nat, n <= k, k <= Len(bronze)
    PROVE  Behind(m, k)
  BY DEF Behind

LEMMA WatermarkStep ==
    ASSUME SilverAssumption, Types, Positions, WatermarkJustified, [Next]_vars
    PROVE  WatermarkJustified'
<1>0. /\ pos \in Nat /\ stop \in Nat /\ pos <= stop /\ stop <= Len(bronze)
      /\ lateMark \in Int /\ mark \in Int /\ nextMark \in Int /\ Len(bronze) \in Nat
      /\ Behind(lateMark, pos) /\ Behind(nextMark, stop) /\ lateMark <= mark /\ mark <= nextMark
      /\ stage = "committed" \/ nextMark = mark
  BY DEF Types, Positions, WatermarkJustified
<1>1. ASSUME UNCHANGED <<pos, stop, stage, lateMark, mark, nextMark>>,
             bronze' = bronze \/ \E e \in Records : Arrive(e)
      PROVE  WatermarkJustified'
  <2>1. Behind(lateMark, pos)' /\ Behind(nextMark, stop)'
    <3>1. \A i \in 1 .. Len(bronze) : bronze'[i] = bronze[i]
      BY <1>1, ArriveAppends
    <3>2. Behind(lateMark, pos)'
      BY <1>0, <1>1, <3>1 DEF Behind
    <3>3. Behind(nextMark, stop)'
      BY <1>0, <1>1, <3>1 DEF Behind
    <3> QED
      BY <3>2, <3>3
  <2> QED
    BY <1>0, <1>1, <2>1 DEF WatermarkJustified
<1>2. CASE Plan
  <2>1. Behind(mark, stop)
    <3>1. \A j \in 1 .. stop : bronze[j] \in Records
      BY <1>0 DEF Types
    <3>2. \A e \in Records : EventTime[e] - WatermarkDelay \in Int
      BY DEF SilverAssumption
    <3> QED
      BY <1>0, <3>1, <3>2 DEF Behind
  <2>2. /\ bronze' = bronze /\ pos' = stop /\ lateMark' = mark /\ mark' = nextMark
        /\ nextMark' = nextMark /\ stop' \in stop .. Len(bronze)
    BY <1>2 DEF Plan, Ends
  <2>3. Behind(nextMark, stop')
    BY <1>0, <2>2, BehindStays
  <2>4. Behind(lateMark, pos)' /\ Behind(nextMark, stop)'
    BY <2>1, <2>2, <2>3 DEF Behind
  <2> QED
    BY <1>0, <2>2, <2>4 DEF WatermarkJustified
<1>3. CASE Sink
  BY <1>0, <1>3 DEF Sink, WatermarkJustified, Behind
<1>4. CASE Commit
  <2>1. bronze' = bronze /\ UNCHANGED <<pos, stop, lateMark, mark>> /\ stage' = "committed"
    BY <1>4 DEF Commit
  <2>2. nextMark = mark
    BY <1>0, <1>4 DEF Commit
  <2>3. mark <= nextMark' /\ Behind(nextMark', stop)
    <3>1. CASE nextMark' = mark
      BY <1>0, <2>2, <3>1
    <3>2. CASE nextMark' \in MaxMark(Rows(pos, stop))
      <4>1. nextMark' \in Marks(Rows(pos, stop)) /\ mark <= nextMark'
        BY <3>2 DEF MaxMark, Marks
      <4>2. ASSUME NEW e \in Clean(Rows(pos, stop)), nextMark' = EventTime[e] - WatermarkDelay
            PROVE  Behind(nextMark', stop)
        <5>1. PICK j \in (pos + 1) .. stop : e = bronze[j]
          BY DEF Clean, Rows
        <5>2. e \notin Malformed /\ j \in 1 .. stop
          BY <1>0 DEF Clean
        <5>3. EventTime[e] - WatermarkDelay \in Int
          <6>1. e \in Records
            BY <1>0, RowsAreRecords DEF Clean
          <6> QED
            BY <6>1 DEF SilverAssumption
        <5> QED
          BY <4>2, <5>1, <5>2, <5>3 DEF Behind
      <4> QED
        BY <1>0, <2>2, <4>1, <4>2 DEF Marks
    <3> QED
      BY <1>4, <3>1, <3>2 DEF Commit
  <2>4. Behind(lateMark, pos)' /\ Behind(nextMark, stop)'
    BY <1>0, <2>1, <2>3 DEF Behind
  <2> QED
    BY <1>0, <2>1, <2>3, <2>4 DEF WatermarkJustified
<1>5. ASSUME NEW e \in Records, Arrive(e) PROVE WatermarkJustified'
  BY <1>1, <1>5 DEF Arrive, dedupQuery
<1>6. CASE DeadStep \/ Start \/ Crash \/ UNCHANGED vars
  BY <1>1, <1>6 DEF DeadStep, DeadPlan, DeadSink, DeadCommit, Start, Crash, vars, dedupQuery
<1> QED
  BY <1>2, <1>3, <1>4, <1>5, <1>6 DEF Next, SilverStep

(* What one batch does to the rows and the state of an event.              *)
LEMMA RememberedStep ==
    ASSUME SilverAssumption, Types, Positions, WatermarkJustified, Remembered, NoDuplicates,
           [Next]_vars
    PROVE  Remembered' /\ NoDuplicates'
<1>0. /\ lateMark \in Int /\ mark \in Int /\ lateMark <= mark
      /\ \A e \in Records : EventTime[e] \in Nat /\ silver[e] \in Nat
      /\ WatermarkDelay \in Nat
  BY DEF Types, WatermarkJustified, SilverAssumption
<1>1. ASSUME UNCHANGED <<stage, lateMark, mark, seen, silver>> PROVE Remembered' /\ NoDuplicates'
  BY <1>1 DEF Remembered, NoDuplicates
<1>2. CASE Plan
  <2>1. /\ stage = "committed" /\ stage' = "planned" /\ lateMark' = mark
        /\ seen' = seen /\ silver' = silver
    BY <1>2 DEF Plan
  <2> QED
    BY <2>1 DEF Remembered, NoDuplicates
<1>3. CASE Sink
  <2>1. /\ stage = "planned" /\ stage' = "sunk" /\ lateMark' = lateMark /\ mark' = mark
    BY <1>3 DEF Sink
  <2>2. PICK fresh \in Deduplicate(Clean(Rows(pos, stop))) :
           /\ silver' = [r \in Records |-> IF r \in fresh THEN silver[r] + 1 ELSE silver[r]]
           /\ seen' = Unexpired(seen \cup fresh)
    BY <1>3 DEF Sink
  <2>3. /\ fresh \subseteq Records /\ seen \subseteq Records
        /\ \A r \in fresh : EventTime[r] > lateMark /\ \A s \in seen : ~SameEvent(r, s)
        /\ \A r, s \in fresh : SameEvent(r, s) => r = s
        /\ \A r \in Records : silver'[r] = IF r \in fresh THEN silver[r] + 1 ELSE silver[r]
    BY <2>2, DeduplicateLemma DEF Types
  <2>4. ASSUME NEW r \in fresh, NEW s \in Records, SameEvent(r, s), silver[s] > 0
        PROVE  EventTime[r] > EventTime[s] + WatermarkDelay
    <3>1. s \notin seen
      BY <2>3, <2>4
    <3>2. EventTime[s] + WatermarkDelay <= lateMark
      BY <2>1, <2>4, <3>1 DEF Remembered
    <3> QED
      BY <1>0, <2>3, <3>2
  <2>5. NoDuplicates'
    <3>1. ASSUME NEW r \in Records PROVE silver'[r] <= 1
      <4>1. CASE r \in fresh
        <5>1. SameEvent(r, r)
          BY DEF SameEvent
        <5>2. silver[r] = 0
          BY <1>0, <2>4, <4>1, <5>1
        <5> QED
          BY <2>3, <4>1, <5>2
      <4>2. CASE r \notin fresh
        BY <2>3, <4>2 DEF NoDuplicates
      <4> QED
        BY <4>1, <4>2
    <3>2. ASSUME NEW r \in Records, NEW s \in Records, r # s, SameEvent(r, s),
                 silver'[r] > 0, silver'[s] > 0
          PROVE  \/ EventTime[r] > EventTime[s] + WatermarkDelay
                 \/ EventTime[s] > EventTime[r] + WatermarkDelay
      <4>1. SameEvent(s, r)
        BY <3>2 DEF SameEvent
      <4>2. CASE r \in fresh
        <5>1. s \notin fresh
          BY <2>3, <3>2, <4>2
        <5> QED
          BY <2>3, <2>4, <3>2, <4>2, <5>1
      <4>3. CASE s \in fresh
        <5>1. r \notin fresh
          BY <2>3, <3>2, <4>3
        <5> QED
          BY <2>3, <2>4, <3>2, <4>1, <4>3, <5>1
      <4>4. CASE r \notin fresh /\ s \notin fresh
        BY <2>3, <3>2, <4>4 DEF NoDuplicates
      <4> QED
        BY <4>2, <4>3, <4>4
    <3> QED
      BY <3>1, <3>2 DEF NoDuplicates, SameEvent
  <2>6. ASSUME NEW r \in Records, silver'[r] > 0
        PROVE  r \in seen' \/ EventTime[r] + WatermarkDelay <= mark
    <3>1. r \in fresh \/ r \in seen \/ EventTime[r] + WatermarkDelay <= lateMark
      BY <2>1, <2>3, <2>6 DEF Remembered
    <3>2. CASE EventTime[r] + WatermarkDelay <= lateMark
      BY <1>0, <3>2
    <3>3. CASE r \in fresh \cup seen
      BY <1>0, <2>2, <3>3 DEF Unexpired
    <3> QED
      BY <3>1, <3>2, <3>3
  <2>7. \A r \in seen' : silver'[r] > 0
    BY <1>0, <2>2, <2>3 DEF Unexpired, Remembered
  <2> QED
    BY <2>1, <2>5, <2>6, <2>7 DEF Remembered
<1>4. CASE Commit
  <2>1. /\ stage = "sunk" /\ stage' = "committed" /\ lateMark' = lateMark /\ mark' = mark
        /\ seen' = seen /\ silver' = silver
    BY <1>4 DEF Commit
  <2> QED
    BY <2>1 DEF Remembered, NoDuplicates
<1>5. CASE DeadStep \/ Start \/ Crash \/ UNCHANGED vars \/ \E e \in Records : Arrive(e)
  BY <1>1, <1>5 DEF DeadStep, DeadPlan, DeadSink, DeadCommit, Start, Crash, Arrive, vars, dedupQuery
<1> QED
  BY <1>2, <1>3, <1>4, <1>5 DEF Next, SilverStep

LEMMA Invariant == Spec => []IInv
<1>1. Init => IInv
  <2> SUFFICES ASSUME Init PROVE IInv
    OBVIOUS
  <2>1. Types
    <3>1. bronze \in Seq(Records) /\ seen \subseteq Records
      BY DEF Init
    <3>2. silver \in [Records -> Nat] /\ dead \in [Records -> Nat]
      BY DEF Init
    <3>3. up \in BOOLEAN /\ ran \in BOOLEAN /\ stage \in Stages /\ deadStage \in Stages
      BY Zenon DEF Init, Stages
    <3>4. /\ pos \in Nat /\ stop \in Nat /\ deadPos \in Nat /\ deadStop \in Nat
          /\ lateMark \in Int /\ mark \in Int /\ nextMark \in Int
      BY DEF Init
    <3> QED
      BY <3>1, <3>2, <3>3, <3>4 DEF Types
  <2>2. Positions /\ WatermarkJustified
    BY DEF Init, Positions, WatermarkJustified, Behind
  <2>3. Remembered /\ NoDuplicates
    BY DEF Init, Remembered, NoDuplicates
  <2> QED
    BY <2>1, <2>2, <2>3 DEF IInv
<1>2. IInv /\ [Next]_vars => IInv'
  BY SilverAssumption, TypeStep, PositionsStep, WatermarkStep, RememberedStep DEF IInv
<1> QED
  BY <1>1, <1>2, PTL DEF Spec

(* Type correctness of both queries and their tables.                      *)
THEOREM TypeCorrect == Spec => []TypeOK
<1>1. IInv => TypeOK
  BY DEF IInv, TypeOK
<1> QED
  BY <1>1, Invariant, PTL

(* No watermark of a batch outruns the rows silver has read before it, not *)
(* even after a replay that left no event-time statistics behind.          *)
THEOREM SilverWatermarkJustified == Spec => []WatermarkJustified
  BY Invariant, PTL DEF IInv

(* However often and late copies of an event arrive, and wherever the      *)
(* process crashed in between: silver holds no record twice, and two       *)
(* records of an event only if more than WatermarkDelay lies between them. *)
THEOREM SilverNoDuplicates == Spec => []NoDuplicates
  BY Invariant, PTL DEF IInv

-----------------------------------------------------------------------------
(* On-time rows.                                                           *)

LEMMA OnTimeStep ==
    ASSUME SilverAssumption, IInv, IInv', OnTimeKept, [Next]_vars
    PROVE  OnTimeKept'
<1> USE DEF IInv
<1>0. /\ pos \in Nat /\ stop \in Nat /\ pos <= stop /\ stop <= Len(bronze)
      /\ Len(bronze) \in Nat /\ lateMark \in Int /\ WatermarkDelay \in Nat
      /\ \A i \in 1 .. Len(bronze) : bronze[i] \in Records
      /\ \A e \in Records : EventTime[e] \in Nat \ {0} /\ silver[e] \in Nat /\ silver[e] <= 1
  BY DEF Types, Positions, SilverAssumption, NoDuplicates
<1>1. ASSUME UNCHANGED <<bronze, silver>>, Done' = Done PROVE OnTimeKept'
  BY <1>1 DEF OnTimeKept, OnTime
<1>2. ASSUME NEW e \in Records, Arrive(e) PROVE OnTimeKept'
  <2>1. Done' = Done /\ silver' = silver /\ Done \in 0 .. Len(bronze)
    BY <1>0, <1>2 DEF Arrive, dedupQuery, Done
  <2>2. ASSUME NEW i \in 1 .. Done, OnTime(i)' PROVE OnTime(i) /\ bronze'[i] = bronze[i]
    <3>1. \A j \in 1 .. i : bronze'[j] = bronze[j]
      BY <1>0, <1>2, <2>1, ArriveAppends
    <3> QED
      BY <2>1, <2>2, <3>1 DEF OnTime
  <2> QED
    BY <2>1, <2>2 DEF OnTimeKept
<1>3. CASE Sink
  <2>1. stage = "planned" /\ stage' = "sunk" /\ bronze' = bronze /\ stop' = stop
    BY <1>3 DEF Sink
  <2>2. PICK fresh \in Deduplicate(Clean(Rows(pos, stop))) :
           silver' = [r \in Records |-> IF r \in fresh THEN silver[r] + 1 ELSE silver[r]]
    BY <1>3 DEF Sink
  <2>3. /\ fresh \subseteq Records /\ seen \subseteq Records
        /\ \A r \in Unknown(Clean(Rows(pos, stop))) : \E s \in fresh : SameEvent(s, r)
        /\ \A r \in Records : (silver[r] > 0 \/ r \in fresh) => silver'[r] > 0
    <3>1. \A r \in Records : silver[r] \in Nat
      BY DEF Types
    <3> QED
      BY <2>2, <3>1, DeduplicateLemma DEF Types
  <2>4. ASSUME NEW i \in 1 .. stop, OnTime(i)
        PROVE  \E r \in Records : SameEvent(r, bronze[i]) /\ silver'[r] > 0
    <3> DEFINE e == bronze[i]
    <3>1. e \in Records /\ e \notin Malformed
      BY <1>0, <2>4 DEF OnTime
    <3>2. CASE i <= pos
      <4>1. PICK r \in Records : SameEvent(r, e) /\ silver[r] > 0
        BY <1>0, <2>1, <2>4, <3>2 DEF OnTimeKept, Done
      <4> QED
        BY <2>3, <4>1
    <3>3. CASE i > pos
      <4>1. e \in Clean(Rows(pos, stop))
        BY <1>0, <3>1, <3>3 DEF Clean, Rows
      <4>2. EventTime[e] > lateMark
        <5>1. CASE lateMark <= 0
          BY <1>0, <3>1, <5>1
        <5>2. CASE lateMark > 0
          <6>1. PICK j \in 1 .. pos : /\ bronze[j] \notin Malformed
                                     /\ lateMark <= EventTime[bronze[j]] - WatermarkDelay
            BY <5>2 DEF WatermarkJustified, Behind
          <6>2. j \in 1 .. (i - 1)
            BY <1>0, <3>3, <6>1
          <6>3. EventTime[e] > EventTime[bronze[j]] - WatermarkDelay
            BY <2>4, <6>1, <6>2 DEF OnTime
          <6>4. EventTime[bronze[j]] \in Nat
            BY <1>0, <6>1
          <6> QED
            BY <1>0, <3>1, <6>1, <6>3, <6>4
        <5> QED
          BY <1>0, <5>1, <5>2
      <4>3. CASE \E s \in seen : SameEvent(e, s)
        <5>1. PICK s \in seen : SameEvent(e, s)
          BY <4>3
        <5>2. silver[s] > 0 /\ SameEvent(s, e)
          BY <5>1 DEF Remembered, SameEvent
        <5> QED
          BY <2>3, <5>1, <5>2
      <4>4. CASE \A s \in seen : ~SameEvent(e, s)
        <5>1. e \in Unknown(Clean(Rows(pos, stop)))
          BY <4>1, <4>2, <4>4 DEF Unknown, NotLate
        <5> QED
          BY <2>3, <5>1
      <4> QED
        BY <4>3, <4>4
    <3> QED
      BY <1>0, <3>2, <3>3
  <2> QED
    BY <2>1, <2>4 DEF OnTimeKept, OnTime, Done, SameEvent
<1>4. CASE Plan \/ Commit
  BY <1>1, <1>4 DEF Plan, Commit, Done
<1>5. CASE DeadStep \/ Start \/ Crash \/ UNCHANGED vars
  BY <1>1, <1>5 DEF DeadStep, DeadPlan, DeadSink, DeadCommit, Start, Crash, vars, dedupQuery, Done
<1> QED
  BY <1>2, <1>3, <1>4, <1>5 DEF Next, SilverStep

(* The watermark never costs an event: of a clean row that is less than    *)
(* WatermarkDelay behind every clean row before it, the event is in silver *)
(* once the row has been read, whatever the order, cuts and crashes.       *)
THEOREM SilverKeepsOnTimeRows == Spec => []OnTimeKept
<1>1. Init => OnTimeKept
  BY DEF Init, OnTimeKept, Done
<1>2. IInv /\ IInv' /\ OnTimeKept /\ [Next]_vars => OnTimeKept'
  BY OnTimeStep, SilverAssumption
<1> QED
  BY <1>1, <1>2, Invariant, PTL DEF Spec

-----------------------------------------------------------------------------
(* The dead letters.                                                       *)

LEMMA CopiesSplit ==
    ASSUME NEW e, NEW k \in Nat, NEW n \in Nat, k <= n
    PROVE  Cardinality(Copies(e, 0, n)) = Cardinality(Copies(e, 0, k)) + Cardinality(Copies(e, k, n))
<1>1. Copies(e, 0, n) = Copies(e, 0, k) \cup Copies(e, k, n)
  BY DEF Copies
<1>2. Copies(e, 0, k) \cap Copies(e, k, n) = {}
  BY DEF Copies
<1>3. /\ IsFiniteSet(Copies(e, 0, k)) /\ Cardinality(Copies(e, 0, k)) \in Nat
      /\ IsFiniteSet(Copies(e, k, n)) /\ Cardinality(Copies(e, k, n)) \in Nat
  BY CopiesCounted
<1>4. Cardinality({}) = 0
  BY FS_EmptySet
<1> QED
  BY <1>1, <1>2, <1>3, <1>4, FS_Union

LEMMA QuarantineStep ==
    ASSUME SilverAssumption, IInv, MalformedQuarantined, [Next]_vars
    PROVE  MalformedQuarantined'
<1> USE DEF IInv
<1>0. /\ deadPos \in Nat /\ deadStop \in Nat /\ deadPos <= deadStop /\ deadStop <= Len(bronze)
      /\ Len(bronze) \in Nat /\ Malformed \subseteq Records
      /\ DeadDone \in Nat /\ DeadDone <= Len(bronze)
  BY DEF Types, Positions, SilverAssumption, DeadDone
<1>1. ASSUME UNCHANGED <<bronze, silver, dead>>, DeadDone' = DeadDone PROVE MalformedQuarantined'
  BY <1>1 DEF MalformedQuarantined, Copies
<1>2. ASSUME NEW e \in Records, Arrive(e) PROVE MalformedQuarantined'
  <2>1. DeadDone' = DeadDone /\ silver' = silver /\ dead' = dead
    BY <1>2 DEF Arrive, dedupQuery, deadQuery, DeadDone
  <2>2. \A i \in 1 .. DeadDone : bronze'[i] = bronze[i]
    BY <1>0, <1>2, ArriveAppends
  <2>3. ASSUME NEW f \in Malformed PROVE Copies(f, 0, DeadDone)' = Copies(f, 0, DeadDone)
    BY <1>0, <2>1, <2>2 DEF Copies
  <2> QED
    BY <2>1, <2>3 DEF MalformedQuarantined
<1>3. CASE Sink
  <2>1. \A e \in Malformed : silver'[e] = silver[e]
    <3>1. PICK fresh \in Deduplicate(Clean(Rows(pos, stop))) :
             silver' = [r \in Records |-> IF r \in fresh THEN silver[r] + 1 ELSE silver[r]]
      BY <1>3 DEF Sink
    <3> QED
      BY <1>0, <3>1, DeduplicateLemma
  <2>2. UNCHANGED <<bronze, dead>> /\ DeadDone' = DeadDone
    BY <1>3 DEF Sink, deadQuery, DeadDone
  <2> QED
    BY <2>1, <2>2 DEF MalformedQuarantined, Copies
<1>4. CASE DeadSink
  <2>1. /\ DeadDone = deadPos /\ DeadDone' = deadStop /\ bronze' = bronze /\ silver' = silver
        /\ \A e \in Malformed : dead'[e] = dead[e] + Cardinality(Copies(e, deadPos, deadStop))
    BY <1>0, <1>4 DEF DeadSink, DeadDone, dedupQuery
  <2>2. ASSUME NEW e \in Malformed
        PROVE  Cardinality(Copies(e, 0, deadStop)) =
                   Cardinality(Copies(e, 0, deadPos)) + Cardinality(Copies(e, deadPos, deadStop))
    BY <1>0, CopiesSplit
  <2>3. \A e \in Malformed : dead[e] = Cardinality(Copies(e, 0, deadPos))
    BY <2>1 DEF MalformedQuarantined
  <2>4. ASSUME NEW e \in Malformed PROVE Copies(e, 0, DeadDone)' = Copies(e, 0, deadStop)
    BY <2>1 DEF Copies
  <2> QED
    BY <2>1, <2>2, <2>3, <2>4 DEF MalformedQuarantined
<1>5. CASE Plan \/ Commit \/ Start \/ Crash \/ UNCHANGED vars
  BY <1>1, <1>5 DEF Plan, Commit, Start, Crash, vars, dedupQuery, deadQuery, DeadDone
<1>6. CASE DeadPlan \/ DeadCommit
  BY <1>1, <1>6 DEF DeadPlan, DeadCommit, dedupQuery, DeadDone
<1> QED
  BY <1>2, <1>3, <1>4, <1>5, <1>6 DEF Next, SilverStep, DeadStep

(* Every copy of a malformed event that was read is dead-lettered exactly  *)
(* once, and none of them is ever in silver.                               *)
THEOREM DeadLettersComplete == Spec => []MalformedQuarantined
<1>1. Init => MalformedQuarantined
  <2>1. \A e : Copies(e, 0, 0) = {}
    BY DEF Copies
  <2> QED
    BY <2>1, FS_EmptySet, SilverAssumption
       DEF Init, MalformedQuarantined, DeadDone, SilverAssumption
<1>2. IInv /\ MalformedQuarantined /\ [Next]_vars => MalformedQuarantined'
  BY QuarantineStep, SilverAssumption
<1> QED
  BY <1>1, <1>2, Invariant, PTL DEF Spec

-----------------------------------------------------------------------------
(* The state store.                                                        *)

(* What a batch leaves in the store is not older than its watermark, from  *)
(* the moment it ran until the next one is planned: a batch that has been  *)
(* planned has a new watermark, and the state of the batch before.         *)
Trimmed == stage # "planned" => \A e \in seen : EventTime[e] + WatermarkDelay > mark

(* A store that has nothing left to do remembers no record from twice the  *)
(* delay before the newest one, whatever crashed on the way.               *)
THEOREM StateIsBounded == Spec => []StateBounded
<1>1. Init => Trimmed
  BY DEF Init, Trimmed
<1>2. Trimmed /\ [Next]_vars => Trimmed'
  <2> SUFFICES ASSUME Trimmed, [Next]_vars PROVE Trimmed'
    OBVIOUS
  <2>1. CASE UNCHANGED <<stage, mark, seen>>
    BY <2>1 DEF Trimmed
  <2>2. CASE Plan
    BY <2>2 DEF Plan, Trimmed
  <2>3. CASE Sink
    <3>1. mark' = mark /\ \A e \in seen' : EventTime[e] + WatermarkDelay > mark
      BY <2>3 DEF Sink, Unexpired
    <3> QED
      BY <3>1 DEF Trimmed
  <2>4. CASE Commit
    BY <2>4 DEF Commit, Trimmed
  <2> QED
    BY <2>1, <2>2, <2>3, <2>4
       DEF Next, Arrive, SilverStep, DeadStep, DeadPlan, DeadSink, DeadCommit, Start, Crash,
           vars, dedupQuery, deadQuery
<1>3. Trimmed => StateBounded
  BY DEF Trimmed, StateBounded, Quiet
<1> QED
  BY <1>1, <1>2, <1>3, PTL DEF Spec
=============================================================================
