------------------------ MODULE GoldInventory_proofs ------------------------
(***************************************************************************)
(* Theorems of GoldInventory, for any events, pairs and event times.       *)
(*                                                                         *)
(* The invariant that carries them adds to TypeOK and InventoryCurrent     *)
(* what is true inside a batch: where the query is says whether a MERGE    *)
(* runs and what its source is (Bookkeeping), a batch that is merged but   *)
(* not yet committed is reflected already (so its replay finds nothing     *)
(* newer), and a transaction that no commit has overtaken still holds the  *)
(* table (Snapshots).                                                      *)
(***************************************************************************)
EXTENDS GoldInventory, TLAPS

Bookkeeping ==
    /\ merge.active <=> phase = "merging"
    /\ phase = "merging" => source \in LatestInventory(Rows(pos, stop))
    /\ up /\ phase = "idle" => committed
    /\ phase # "idle" => up /\ ~committed

Snapshots == \A t \in {merge, optimize} : t.active /\ ~t.stale => t.rows = row

FromEvents == \A k \in Keys : row[k] # None => row[k] \in Rows(0, stop)
Finished   == IF committed \/ phase = "merged" THEN stop ELSE pos
AllReflected == \A e \in Rows(0, Finished) : Reflected(e)

IInv == TypeOK /\ Bookkeeping /\ Snapshots /\ FromEvents /\ AllReflected

-----------------------------------------------------------------------------
(* The rows of a range are events, and a longer range has them all.        *)
LEMMA RowsAreEvents ==
  ASSUME NEW s \in Seq(Events), NEW a \in Nat, NEW b \in Nat, b <= Len(s)
  PROVE  {s[i] : i \in (a + 1) .. b} \subseteq Events
OBVIOUS

LEMMA RowsSplit ==
  ASSUME NEW p \in Nat, NEW q \in Nat, p <= q
  PROVE  /\ Rows(0, q) = Rows(0, p) \cup Rows(p, q)
         /\ Rows(0, p) \subseteq Rows(0, q)
BY DEF Rows

(* What latest_inventory says of a pair: nothing, or an event of the batch *)
(* about that pair and no older than any other.                            *)
LEMMA SourceIsLatest ==
  ASSUME NEW batch \in SUBSET Events, NEW s \in LatestInventory(batch), NEW k \in Keys
  PROVE  /\ s \in Levels
         /\ s[k] # None => s[k] \in batch /\ KeyOf[s[k]] = k
         /\ \A e \in batch : KeyOf[e] = k => s[k] # None /\ EventTime[e] <= EventTime[s[k]]
<1>1. CASE Mentions(k, batch) = {}
  BY <1>1 DEF LatestInventory, Mentions
<1>2. CASE Mentions(k, batch) # {}
  <2>1. s \in Levels /\ s[k] \in Latest(k, batch)
    BY <1>2 DEF LatestInventory
  <2> QED  BY <2>1, InventoryAssumption DEF Latest, Mentions
<1> QED  BY <1>1, <1>2

(* The guard of the MERGE: the row it leaves is the old one or the         *)
(* source's, and no older than either.                                     *)
LEMMA UpsertIsNewest ==
  ASSUME NEW s \in Events \cup {None}, NEW t \in Events \cup {None}
  PROVE  /\ Upsert(s, t) \in {s, t}
         /\ s # None => Upsert(s, t) # None /\ EventTime[s] <= EventTime[Upsert(s, t)]
         /\ t # None => Upsert(s, t) # None /\ EventTime[t] <= EventTime[Upsert(s, t)]
         /\ t # None /\ Upsert(s, t) # t => EventTime[Upsert(s, t)] > EventTime[t]
<1>1. \A e \in Events : EventTime[e] \in Nat /\ e # None
  BY InventoryAssumption
<1> QED  BY <1>1 DEF Upsert, Newer

-----------------------------------------------------------------------------
THEOREM InitEstablishes == Init => IInv
<1> SUFFICES ASSUME Init PROVE IInv
  OBVIOUS
<1> USE DEF Init, Nothing, Idle
<1>1. TypeOK
  <2>1. silver \in Seq(Events) /\ pos \in 0 .. stop /\ stop \in 0 .. Len(silver)
    OBVIOUS
  <2>2. Nothing \in Levels /\ Idle \in Transactions
    BY DEF Levels, Transactions
  <2>3. /\ source \in Levels /\ row \in Levels
        /\ \A k \in Keys : row[k] # None => KeyOf[row[k]] = k
        /\ merge \in Transactions /\ optimize \in Transactions
    BY <2>2
  <2>4. up \in BOOLEAN /\ exists \in BOOLEAN /\ committed \in BOOLEAN
    OBVIOUS
  <2> QED  BY <2>1, <2>3, <2>4 DEF TypeOK
<1>2. Bookkeeping /\ Snapshots /\ FromEvents
  BY DEF Bookkeeping, Snapshots, FromEvents
<1>3. AllReflected
  BY DEF AllReflected, Finished, Rows
<1> QED  BY <1>1, <1>2, <1>3 DEF IInv

(* One lemma per action that touches what the invariant is about.          *)
LEMMA ArrivePreserves ==
  ASSUME IInv, NEW e \in Events, Arrive(e)
  PROVE  IInv'
<1> USE DEF IInv
<1>1. TypeOK'
  BY DEF TypeOK, Arrive, batchVars, query, table
<1>2. /\ Rows(pos, stop)' = Rows(pos, stop)
      /\ Rows(0, stop)' = Rows(0, stop)
      /\ Rows(0, Finished)' = Rows(0, Finished)
  <2>1. pos \in Nat /\ stop \in Nat /\ pos <= stop /\ stop <= Len(silver)
    BY DEF TypeOK
  <2>2. UNCHANGED <<pos, stop, committed, phase>>
    BY DEF Arrive, batchVars, query
  <2>3. TypeOK /\ silver' = Append(silver, e)
    BY DEF Arrive
  <2>4. ASSUME NEW p \in Nat, NEW q \in Nat, q <= Len(silver)
        PROVE  {silver'[i] : i \in (p + 1) .. q} = Rows(p, q)
    BY <2>3, <2>4 DEF Rows, TypeOK
  <2>5. Finished' = Finished /\ Finished \in Nat /\ Finished <= Len(silver)
    BY <2>1, <2>2 DEF Finished
  <2> QED  BY <2>1, <2>2, <2>4, <2>5 DEF Rows
<1>3. UNCHANGED <<batchVars, query, table>>
  BY DEF Arrive
<1>4. Bookkeeping'
  <2>1. LatestInventory(Rows(pos, stop))' = LatestInventory(Rows(pos, stop))
    BY <1>2 DEF LatestInventory, Latest, Mentions
  <2> QED  BY <1>3, <2>1 DEF Bookkeeping, batchVars, query, table
<1>5. Snapshots' /\ FromEvents' /\ AllReflected'
  BY <1>2, <1>3 DEF Snapshots, FromEvents, AllReflected, Reflected, batchVars, query, table
<1> QED  BY <1>1, <1>4, <1>5

LEMMA PlanPreserves ==
  ASSUME IInv, Plan
  PROVE  IInv'
<1> USE DEF IInv
<1>1. committed /\ phase = "idle" /\ stop \in Nat /\ stop' \in Nat /\ stop < stop'
  BY DEF Plan, Bookkeeping, TypeOK
<1>2. TypeOK'
  <2>1. pos' \in 0 .. stop' /\ stop' \in 0 .. Len(silver)
    BY DEF TypeOK, Plan
  <2>2. UNCHANGED <<silver, up, source, row, exists, merge, optimize>>
        /\ phase' = "planned" /\ committed' \in BOOLEAN
    BY DEF Plan, table
  <2> QED  BY <2>1, <2>2 DEF TypeOK
<1>3. Bookkeeping' /\ Snapshots'
  BY <1>1 DEF Plan, Bookkeeping, Snapshots, table
<1>4. UNCHANGED <<silver, row>>
  BY DEF Plan, table
<1>5. FromEvents'
  <2>1. Rows(0, stop) \subseteq Rows(0, stop')
    BY <1>1, RowsSplit
  <2> QED  BY <1>4, <2>1 DEF FromEvents, Rows
<1>6. AllReflected'
  <2>1. Finished = stop /\ Finished' = stop
    BY <1>1 DEF Plan, Finished
  <2> QED  BY <1>4, <2>1 DEF AllReflected, Reflected, Rows
<1> QED  BY <1>2, <1>3, <1>5, <1>6

LEMMA BeginPreserves ==
  ASSUME IInv, Begin
  PROVE  IInv'
<1> USE DEF IInv
<1>1. Rows(pos, stop) \in SUBSET Events
  BY RowsAreEvents DEF TypeOK, Rows
<1>2. source' \in Levels
  BY DEF Begin, LatestInventory
<1>3. TypeOK'
  BY <1>2 DEF TypeOK, Begin, OnSnapshot, Transactions, batchVars
<1>4. Bookkeeping' /\ Snapshots'
  BY DEF Begin, OnSnapshot, Bookkeeping, Snapshots, Rows, LatestInventory, Latest, Mentions, batchVars
<1>5. FromEvents' /\ AllReflected'
  BY DEF Begin, FromEvents, AllReflected, Finished, Reflected, Rows, batchVars
<1> QED  BY <1>3, <1>4, <1>5

(* A MERGE that is not overtaken read the table as it still is.            *)
LEMMA MergeReadTheTable ==
  ASSUME IInv, Merge
  PROVE  /\ source \in LatestInventory(Rows(pos, stop)) /\ source \in Levels
         /\ Rows(pos, stop) \in SUBSET Events /\ row \in Levels
         /\ row' = [k \in Keys |-> Upsert(source[k], row[k])]
<1>1. merge.active /\ ~merge.stale /\ phase = "merging"
  BY DEF IInv, Merge, Conflict, Bookkeeping
<1>2. merge.rows = row
  BY <1>1 DEF IInv, Snapshots
<1>3. Rows(pos, stop) \in SUBSET Events
  BY RowsAreEvents DEF IInv, TypeOK, Rows
<1> QED  BY <1>1, <1>2, <1>3 DEF IInv, Bookkeeping, LatestInventory, TypeOK, Merge

LEMMA MergePreserves ==
  ASSUME IInv, Merge
  PROVE  IInv'
<1>1. /\ source \in LatestInventory(Rows(pos, stop)) /\ source \in Levels
      /\ Rows(pos, stop) \in SUBSET Events /\ row \in Levels
      /\ row' = [k \in Keys |-> Upsert(source[k], row[k])]
  BY MergeReadTheTable
<1>2. \A k \in Keys :
        /\ row'[k] \in {source[k], row[k]}
        /\ source[k] # None => row'[k] # None /\ EventTime[source[k]] <= EventTime[row'[k]]
        /\ row[k] # None => row'[k] # None /\ EventTime[row[k]] <= EventTime[row'[k]]
  BY <1>1, UpsertIsNewest DEF Levels
<1>3. \A k \in Keys :
        /\ source[k] # None => source[k] \in Rows(pos, stop) /\ KeyOf[source[k]] = k
        /\ \A e \in Rows(pos, stop) : KeyOf[e] = k =>
              source[k] # None /\ EventTime[e] <= EventTime[source[k]]
  BY <1>1, SourceIsLatest
<1>4. /\ pos \in Nat /\ stop \in Nat /\ pos <= stop
      /\ UNCHANGED <<silver, pos, stop, committed, up>>
      /\ phase = "merging" /\ phase' = "merged"
  BY DEF IInv, TypeOK, Merge, batchVars
<1>5. row' \in Levels
  BY <1>1, <1>2 DEF Levels
<1>6. TypeOK'
  <2>1. \A k \in Keys : row'[k] # None => KeyOf[row'[k]] = k
    BY <1>2, <1>3 DEF IInv, TypeOK
  <2>2. merge' \in Transactions /\ optimize' \in Transactions /\ source' \in Levels /\ exists'
    BY DEF IInv, TypeOK, Merge, Overtaken, Transactions, Idle, Nothing, Levels
  <2> QED  BY <1>4, <1>5, <2>1, <2>2 DEF IInv, TypeOK
<1>7. Bookkeeping'
  BY <1>4 DEF IInv, Merge, Bookkeeping, Idle
<1>8. Snapshots'
  BY DEF IInv, TypeOK, Transactions, Merge, Snapshots, Idle, Overtaken
<1>9. Rows(0, stop) = Rows(0, pos) \cup Rows(pos, stop)
  BY <1>4, RowsSplit
<1>10. FromEvents'
  BY <1>2, <1>3, <1>4, <1>9 DEF IInv, FromEvents, Rows
<1>11. AllReflected'
  <2>1. Finished = pos /\ Finished' = stop
    BY <1>4 DEF IInv, Bookkeeping, Finished
  <2> SUFFICES ASSUME NEW e \in Rows(0, stop)
               PROVE  Reflected(e)'
    BY <1>4, <2>1 DEF AllReflected, Rows
  <2>2. e \in Events /\ KeyOf[e] \in Keys
    <3>1. Rows(0, stop) \subseteq Events
      BY RowsAreEvents DEF IInv, TypeOK, Rows
    <3> QED  BY <3>1, InventoryAssumption
  <2> DEFINE k == KeyOf[e]
  <2>3. \A f \in Events : EventTime[f] \in Nat
    BY InventoryAssumption
  <2>4. (row[k] # None => row[k] \in Events) /\ (source[k] # None => source[k] \in Events)
        /\ (row'[k] # None => row'[k] \in Events)
    BY <1>1, <1>5, <2>2 DEF Levels
  <2>5. CASE e \in Rows(0, pos)
    <3>1. row[k] # None /\ EventTime[e] <= EventTime[row[k]]
      BY <2>1, <2>5 DEF IInv, AllReflected, Reflected
    <3> QED  BY <1>2, <2>2, <2>3, <2>4, <3>1 DEF Reflected
  <2>6. CASE e \in Rows(pos, stop)
    <3>1. source[k] # None /\ EventTime[e] <= EventTime[source[k]]
      BY <1>3, <2>2, <2>6
    <3> QED  BY <1>2, <2>2, <2>3, <2>4, <3>1 DEF Reflected
  <2> QED  BY <1>9, <2>5, <2>6
<1> QED  BY <1>6, <1>7, <1>8, <1>10, <1>11 DEF IInv

LEMMA QueryPreserves ==
  ASSUME IInv, Launch \/ Commit \/ Die
  PROVE  IInv'
<1> USE DEF IInv
<1>1. UNCHANGED <<silver, pos, stop, row, optimize>>
  BY DEF Launch, Commit, Die, batchVars, table
<1>2. Snapshots' /\ FromEvents'
  BY <1>1 DEF Launch, Commit, Die, Idle, Snapshots, FromEvents, Rows, table
<1>3. TypeOK'
  <2>1. Nothing \in Levels /\ Idle \in Transactions
    BY DEF Nothing, Idle, Levels, Transactions
  <2>2. /\ source' \in Levels /\ merge' \in Transactions /\ exists' \in BOOLEAN
        /\ phase' \in {"idle", "planned", "merging", "merged"}
    BY <2>1 DEF TypeOK, Launch, ResumePhase, Commit, Die, table
  <2>3. up' \in BOOLEAN /\ committed' \in BOOLEAN
    BY DEF TypeOK, Launch, Commit, Die, batchVars
  <2> QED  BY <1>1, <2>2, <2>3 DEF TypeOK
<1>4. Bookkeeping'
  BY DEF Launch, ResumePhase, Commit, Die, batchVars, table, Bookkeeping, Idle, TypeOK
<1>5. AllReflected'
  <2>1. Rows(0, Finished') \subseteq Rows(0, Finished)
    <3>1. pos \in Nat /\ stop \in Nat /\ pos <= stop
      BY DEF TypeOK
    <3>2. Finished' = Finished \/ (Finished' = pos /\ Finished = stop)
      BY DEF Launch, ResumePhase, Commit, Die, batchVars, Bookkeeping, Finished
    <3> QED  BY <3>1, <3>2, RowsSplit
  <2> QED  BY <1>1, <2>1 DEF AllReflected, Reflected, Rows
<1> QED  BY <1>2, <1>3, <1>4, <1>5

LEMMA MaintenancePreserves ==
  ASSUME IInv, Maintenance
  PROVE  IInv'
<1> USE DEF IInv
<1>1. row' = row
  BY DEF Maintenance, BeginOptimize, Optimize, AbandonOptimize, Conflict, Snapshots
<1>2. UNCHANGED <<silver, batchVars, query, exists>> /\ merge'.active = merge.active
  BY DEF Maintenance, BeginOptimize, Optimize, AbandonOptimize, Overtaken, TypeOK, Transactions
<1>3. merge' \in Transactions /\ optimize' \in Transactions
  <2>1. OnSnapshot \in Transactions /\ Idle \in Transactions
    BY DEF OnSnapshot, Idle, Nothing, Transactions, Levels, TypeOK
  <2>2. Overtaken(merge) \in Transactions
    BY DEF Overtaken, Transactions, TypeOK
  <2> QED  BY <2>1, <2>2 DEF Maintenance, BeginOptimize, Optimize, AbandonOptimize, TypeOK
<1>4. Snapshots'
  BY <1>1 DEF Maintenance, BeginOptimize, Optimize, AbandonOptimize, Overtaken, OnSnapshot,
              Idle, Snapshots, TypeOK, Transactions
<1>5. TypeOK'
  BY <1>1, <1>2, <1>3 DEF TypeOK, batchVars, query
<1>6. FromEvents' /\ AllReflected'
  BY <1>1, <1>2 DEF FromEvents, AllReflected, Finished, Reflected, Rows, batchVars, query
<1>7. Bookkeeping'
  <2>1. LatestInventory(Rows(pos, stop))' = LatestInventory(Rows(pos, stop))
    BY <1>2 DEF LatestInventory, Latest, Mentions, Rows, batchVars
  <2> QED  BY <1>2, <2>1 DEF Bookkeeping, batchVars, query
<1> QED  BY <1>4, <1>5, <1>6, <1>7

LEMMA StutterPreserves ==
  ASSUME IInv, UNCHANGED vars
  PROVE  IInv'
BY DEF IInv, TypeOK, Bookkeeping, Snapshots, FromEvents, AllReflected, Finished, Reflected, Rows,
       LatestInventory, Latest, Mentions, vars, batchVars, query, table

-----------------------------------------------------------------------------
THEOREM Invariance == Spec => []IInv
<1>1. IInv /\ [Next]_vars => IInv'
  <2> SUFFICES ASSUME IInv, [Next]_vars
               PROVE  IInv'
    OBVIOUS
  <2>1. CASE \E e \in Events : Arrive(e)
    BY <2>1, ArrivePreserves
  <2>2. CASE Launch \/ Commit \/ MergeConflict \/ Crash
    BY <2>2, QueryPreserves DEF MergeConflict, Crash
  <2>3. CASE Plan
    BY <2>3, PlanPreserves
  <2>4. CASE Begin
    BY <2>4, BeginPreserves
  <2>5. CASE Merge
    BY <2>5, MergePreserves
  <2>6. CASE Maintenance
    BY <2>6, MaintenancePreserves
  <2>7. CASE UNCHANGED vars
    BY <2>7, StutterPreserves
  <2> QED  BY <2>1, <2>2, <2>3, <2>4, <2>5, <2>6, <2>7 DEF Next, QueryStep
<1> QED  BY <1>1, InitEstablishes, PTL DEF Spec

(* The gold inventory query, its table and the maintenance job keep their  *)
(* state well typed, and a row stays with the pair it is about.            *)
THEOREM TypeCorrect == Spec => []TypeOK
BY Invariance, PTL DEF IInv

(* Whatever the order of events, batches, replays, crashes and conflicts,  *)
(* the level of a pair is never staler than a batch that is finished (the  *)
(* claim of upsert_inventory_batch).                                       *)
THEOREM LevelsAreCurrent == Spec => []InventoryCurrent
<1>1. IInv => InventoryCurrent
  <2> SUFFICES ASSUME IInv PROVE InventoryCurrent
    OBVIOUS
  <2>1. Rows(0, Done) \subseteq Rows(0, Finished)
    <3>1. pos \in Nat /\ stop \in Nat /\ pos <= stop
      BY DEF IInv, TypeOK
    <3>2. Done = Finished \/ (Done = pos /\ Finished = stop)
      BY DEF Done, Finished
    <3> QED  BY <3>1, <3>2, RowsSplit
  <2> QED  BY <2>1 DEF IInv, AllReflected, FromEvents, Reflected, InventoryCurrent
<1> QED  BY <1>1, Invariance, PTL

(* A pair's row is replaced only by a strictly newer event, so two runs of *)
(* a batch agree on it, and neither a staler batch nor OPTIMIZE takes it   *)
(* back.                                                                   *)
THEOREM LevelsNeverGoBack == Spec => NeverBackInTime
<1>1. IInv /\ [Next]_vars => [\A k \in Keys : row[k] # None /\ row'[k] # row[k] =>
                                 row'[k] # None /\ EventTime[row'[k]] > EventTime[row[k]]]_vars
  <2> SUFFICES ASSUME IInv, Next,
                      NEW k \in Keys, row[k] # None, row'[k] # row[k]
               PROVE  row'[k] # None /\ EventTime[row'[k]] > EventTime[row[k]]
    OBVIOUS
  <2>1. CASE Merge
    <3>1. /\ source \in Levels /\ row \in Levels
          /\ row' = [j \in Keys |-> Upsert(source[j], row[j])]
      BY <2>1, MergeReadTheTable
    <3>2. source[k] \in Events \cup {None} /\ row[k] \in Events \cup {None}
          /\ row'[k] = Upsert(source[k], row[k])
      BY <3>1 DEF Levels
    <3> QED  BY <3>2, UpsertIsNewest
  <2>2. CASE Maintenance
    <3>1. row' = row
      BY <2>2 DEF Maintenance, BeginOptimize, Optimize, AbandonOptimize, Conflict, IInv, Snapshots
    <3> QED  BY <3>1
  <2>3. CASE ~Merge /\ ~Maintenance
    <3>1. row' = row
      BY <2>3 DEF Next, QueryStep, Arrive, Launch, Plan, Begin, Commit, MergeConflict, Crash, Die, table
    <3> QED  BY <3>1
  <2> QED  BY <2>1, <2>2, <2>3
<1> QED  BY <1>1, Invariance, PTL DEF Spec, NeverBackInTime

=============================================================================
