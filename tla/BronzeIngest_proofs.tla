------------------------ MODULE BronzeIngest_proofs ------------------------
(***************************************************************************)
(* Proofs about BronzeIngest, for any set of topics and partitions and any *)
(* bounds.  IInv is inductive; ExactlyOnce and NoSilentLoss follow, and    *)
(* the refinement of ExactlyOnceLog rests on it.                           *)
(***************************************************************************)
EXTENDS BronzeIngest, AggregateTheorems, TLAPS

(* The inductive invariant: a bound on the copies cannot be kept without   *)
(* knowing what the checkpoint and the Delta log say of each other.        *)
IInv == TypeOK /\ RestartContract /\ ExactlyOnce /\ NoSilentLoss

LEMMA Numbers ==
    ASSUME BronzeAssumption, TypeOK, NEW t \in Topics, NEW p \in Partitions
    PROVE  /\ logEnd[t][p] \in Offsets /\ logStart[t][p] \in Offsets
           /\ start[t][p] \in Offsets /\ end[t][p] \in Offsets
           /\ Offsets \subseteq Nat
  BY DEF BronzeAssumption, TypeOK, Cursors, Offsets

LEMMA MoveCursor ==
    ASSUME NEW f \in [Topics -> Cursors], NEW t \in Topics, NEW p \in Partitions,
           NEW v \in Offsets
    PROVE  [f EXCEPT ![t][p] = v] \in [Topics -> Cursors]
<1>1. [f[t] EXCEPT ![p] = v] \in Cursors
  BY DEF Cursors
<1> QED
  BY <1>1

LEMMA PublishInRange ==
    ASSUME BronzeAssumption, TypeOK, NEW t \in Topics, NEW p \in Partitions, Publish(t, p)
    PROVE  logEnd[t][p] + 1 \in Offsets
<1>1. logEnd[t][p] \in Offsets /\ logEnd[t][p] < MaxOffset /\ MaxOffset \in Nat
  BY Numbers DEF Publish, BronzeAssumption
<1> QED
  BY <1>1 DEF Offsets

LEMMA ExpireInRange ==
    ASSUME BronzeAssumption, TypeOK, NEW t \in Topics, NEW p \in Partitions, Expire(t, p)
    PROVE  logStart[t][p] + 1 \in Offsets
<1>1. /\ logEnd[t][p] \in Offsets /\ logStart[t][p] \in Offsets
      /\ logStart[t][p] < logEnd[t][p] /\ MaxOffset \in Nat
  BY Numbers DEF Expire, BronzeAssumption
<1> QED
  BY <1>1 DEF Offsets

LEMMA TypeStep == ASSUME BronzeAssumption, TypeOK, [Next]_vars PROVE TypeOK'
<1> USE BronzeAssumption DEF TypeOK, Phases, BatchIds
<1>1. ASSUME NEW t \in Topics, NEW p \in Partitions, Publish(t, p) PROVE TypeOK'
  <2>1. logEnd[t][p] + 1 \in Offsets
    BY <1>1, PublishInRange
  <2>2. logEnd' \in [Topics -> Cursors]
    BY <1>1, <2>1, MoveCursor DEF Publish
  <2> QED
    BY <1>1, <2>2 DEF Publish, checkpoint, table
<1>2. ASSUME NEW t \in Topics, NEW p \in Partitions, Expire(t, p) PROVE TypeOK'
  <2>1. logStart[t][p] + 1 \in Offsets
    BY <1>2, ExpireInRange
  <2>2. logStart' \in [Topics -> Cursors]
    BY <1>2, <2>1, MoveCursor DEF Expire
  <2> QED
    BY <1>2, <2>2 DEF Expire, checkpoint, table
<1>3. CASE Launch
  <2>1. run' \in [Topics -> 0 .. MaxRuns]
    BY <1>3 DEF Launch, Fresh
  <2>2. gap' \in [Topics -> [Partitions -> SUBSET Offsets]]
    BY <1>3 DEF Launch
  <2>3. phase' \in [Topics -> Phases]
    BY <1>3 DEF Launch, Resume
  <2>4. start' \in [Topics -> Cursors] /\ end' \in [Topics -> Cursors]
    BY <1>3 DEF Launch, StartingOffsets
  <2> QED
    BY <1>3, <2>1, <2>2, <2>3, <2>4 DEF Launch, kafka, table
<1>4. ASSUME NEW t \in Topics, PlanBatch(t) PROVE TypeOK'
  <2>1. PICK e \in NextEnds(t) : start' = [start EXCEPT ![t] = end[t]]
                                  /\ end' = [end EXCEPT ![t] = e]
    BY <1>4 DEF PlanBatch
  <2>2. e \in Cursors
    BY <2>1 DEF NextEnds
  <2>3. start' \in [Topics -> Cursors] /\ end' \in [Topics -> Cursors]
    BY <2>1, <2>2
  <2>4. batch' \in [Topics -> BatchIds]
    BY <1>4 DEF PlanBatch
  <2> QED
    BY <1>4, <2>3, <2>4 DEF PlanBatch, kafka, table
<1>5. ASSUME NEW t \in Topics, AppendBatch(t) PROVE TypeOK'
  <2>1. copies' \in [Topics -> [Partitions -> [Offsets -> Nat]]]
    <3> DEFINE rows == [p \in Partitions |-> [o \in Offsets |->
                   IF o \in Readable(t, p) THEN copies[t][p][o] + 1 ELSE copies[t][p][o]]]
    <3>1. rows \in [Partitions -> [Offsets -> Nat]]
      OBVIOUS
    <3>2. copies' = [copies EXCEPT ![t] = rows]
      BY <1>5 DEF AppendBatch
    <3> HIDE DEF rows
    <3> QED
      BY <3>1, <3>2
  <2>2. txn' \in [Topics -> [Runs -> BatchIds]]
    BY <1>5 DEF AppendBatch
  <2> QED
    BY <1>5, <2>1, <2>2 DEF AppendBatch, kafka, checkpoint
<1>6. ASSUME NEW t \in Topics, SkipBatch(t) PROVE TypeOK'
  BY <1>6 DEF SkipBatch, kafka, checkpoint, table
<1>7. ASSUME NEW t \in Topics, CommitBatch(t) PROVE TypeOK'
  BY <1>7 DEF CommitBatch, kafka, table
<1>8. CASE Die
  BY <1>8 DEF Die, kafka, checkpoint, table
<1>9. ASSUME NEW t \in Topics, ResetCheckpoint(t) PROVE TypeOK'
  BY <1>9 DEF ResetCheckpoint, kafka, table
<1>10. CASE UNCHANGED vars
  BY <1>10 DEF vars, kafka, checkpoint, table
<1> QED
  BY <1>1, <1>2, <1>3, <1>4, <1>5, <1>6, <1>7, <1>8, <1>9, <1>10
     DEF Next, Broker, Step, FailOnDataLoss, Crash

LEMMA TypeInit == Init => TypeOK
<1> SUFFICES ASSUME Init PROVE TypeOK
  OBVIOUS
<1> USE BronzeAssumption DEF Init, Everywhere, Offsets
<1>1. /\ logEnd \in [Topics -> Cursors] /\ logStart \in [Topics -> Cursors]
      /\ start \in [Topics -> Cursors] /\ end \in [Topics -> Cursors]
  BY DEF Cursors
<1>2. copies \in [Topics -> [Partitions -> [Offsets -> Nat]]]
  OBVIOUS
<1>3. gap \in [Topics -> [Partitions -> SUBSET Offsets]]
  OBVIOUS
<1>4. txn \in [Topics -> [Runs -> BatchIds]]
  BY DEF BatchIds
<1>5. /\ run \in [Topics -> 0 .. MaxRuns] /\ batch \in [Topics -> BatchIds]
      /\ phase \in [Topics -> Phases]
  BY DEF Phases, BatchIds
<1> QED
  BY <1>1, <1>2, <1>3, <1>4, <1>5 DEF TypeOK

(* Type correctness of the ingestion's state.                              *)
THEOREM TypeCorrect == Spec => []TypeOK
<1>1. Init => TypeOK
  BY TypeInit
<1>2. TypeOK /\ [Next]_vars => TypeOK'
  BY TypeStep, BronzeAssumption
<1> QED
  BY <1>1, <1>2, PTL DEF Spec

-----------------------------------------------------------------------------
(* What an action does to the frontier of a topic, in the states the       *)
(* invariant allows.                                                       *)

(* Planning a batch does not move it: the batch's range starts there.      *)
LEMMA PlanKeepsFrontier ==
    ASSUME BronzeAssumption, TypeOK, RestartContract, NEW t \in Topics, PlanBatch(t)
    PROVE  /\ Frontier' = Frontier /\ Frontier[t] = end[t] /\ ~AlreadyInTable(t)'
           /\ run[t] > 0 /\ txn[t][run[t]] = batch[t]
<1>1. run[t] > 0 /\ txn[t][run[t]] = batch[t]
  BY DEF RestartContract, Bookkeeping, PlanBatch, AlreadyInTable, TypeOK, BatchIds, Runs
<1>2. batch'[t] = batch[t] + 1 /\ run' = run /\ txn' = txn /\ start'[t] = end[t]
  BY DEF PlanBatch, table, TypeOK, BatchIds
<1>3. ~AlreadyInTable(t)' /\ AlreadyInTable(t)
  BY <1>1, <1>2 DEF AlreadyInTable, TypeOK, BatchIds
<1>4. \A u \in Topics : u # t => /\ start'[u] = start[u] /\ end'[u] = end[u]
                                 /\ batch'[u] = batch[u]
  BY DEF PlanBatch, TypeOK, BatchIds
<1>5. \A u \in Topics : u # t => (AlreadyInTable(u)' <=> AlreadyInTable(u))
  BY <1>2, <1>4 DEF AlreadyInTable
<1> QED
  BY <1>1, <1>2, <1>3, <1>4, <1>5 DEF Frontier

(* Appending one moves it from the start of the range to its end.          *)
LEMMA AppendMovesFrontier ==
    ASSUME BronzeAssumption, TypeOK, RestartContract, NEW t \in Topics, AppendBatch(t)
    PROVE  /\ Frontier[t] = start[t]
           /\ Frontier' = [Frontier EXCEPT ![t] = end[t]]
           /\ run[t] > 0
           /\ AlreadyInTable(t)'
           /\ \A u \in Topics : u # t => (AlreadyInTable(u)' <=> AlreadyInTable(u))
<1>1. run[t] > 0 /\ run[t] \in Runs
  BY DEF RestartContract, Bookkeeping, AppendBatch, TypeOK, BatchIds, Runs
<1>2. Frontier[t] = start[t]
  BY DEF AppendBatch, Frontier
<1>3. /\ txn'[t][run[t]] = batch[t]
      /\ \A u \in Topics : u # t => txn'[u] = txn[u]
      /\ run' = run /\ batch' = batch /\ start' = start /\ end' = end
  BY <1>1 DEF AppendBatch, checkpoint, TypeOK, BatchIds
<1>4. AlreadyInTable(t)' /\ \A u \in Topics : u # t => (AlreadyInTable(u)' <=> AlreadyInTable(u))
  BY <1>1, <1>3 DEF AlreadyInTable, TypeOK, BatchIds
<1> QED
  BY <1>1, <1>2, <1>3, <1>4 DEF Frontier

(* A launch takes it to the oldest retained record where it starts afresh, *)
(* and leaves it alone where a checkpoint is found.                        *)
LEMMA LaunchMovesFrontier ==
    ASSUME BronzeAssumption, TypeOK, RestartContract, Launch
    PROVE  /\ Frontier' = [t \in Topics |-> IF t \in Fresh THEN logStart[t] ELSE Frontier[t]]
           /\ \A t \in Fresh : AlreadyInTable(t)' /\ txn'[t][run'[t]] = -1
           /\ \A t \in Topics \ Fresh : AlreadyInTable(t)' <=> AlreadyInTable(t)
<1>1. ASSUME NEW t \in Fresh
      PROVE  /\ run'[t] = run[t] + 1 /\ txn'[t][run'[t]] = -1 /\ batch'[t] = -1
             /\ end'[t] = logStart[t]
  BY <1>1 DEF Launch, Fresh, RestartContract, Bookkeeping, TypeOK, BatchIds, Runs, table, StartingOffsets
<1>2. ASSUME NEW t \in Topics \ Fresh
      PROVE  /\ run'[t] = run[t] /\ txn'[t] = txn[t] /\ batch'[t] = batch[t]
             /\ start'[t] = start[t] /\ end'[t] = end[t]
  BY <1>2 DEF Launch, table
<1>3. \A t \in Fresh : AlreadyInTable(t)' /\ run'[t] > 0
  BY <1>1 DEF AlreadyInTable, Fresh, TypeOK, BatchIds
<1>4. \A t \in Topics \ Fresh : AlreadyInTable(t)' <=> AlreadyInTable(t)
  BY <1>2 DEF AlreadyInTable
<1> QED
  BY <1>1, <1>2, <1>3, <1>4 DEF Frontier, Fresh
(* Nothing else moves it.                                                  *)
LEMMA SameFrontier ==
    ASSUME UNCHANGED <<run, batch, start, end, txn>>
    PROVE  /\ Frontier' = Frontier
           /\ \A t \in Topics : AlreadyInTable(t)' <=> AlreadyInTable(t)
  BY DEF Frontier, AlreadyInTable

(* A step that touches neither the checkpoint's ids nor the Delta log.     *)
LEMMA SameRows ==
    ASSUME UNCHANGED <<run, batch, start, end, txn, copies>>, NEW t \in Topics, NothingAhead(t)
    PROVE  NothingAhead(t)'
  BY SameFrontier DEF NothingAhead

(* The inductive step for what a restart relies on.                        *)
LEMMA ContractStep ==
    ASSUME BronzeAssumption, TypeOK, RestartContract, ExactlyOnce, TypeOK', [Next]_vars
    PROVE  RestartContract'
<1> USE BronzeAssumption
<1>1. ASSUME NEW t \in Topics, NEW p \in Partitions, Publish(t, p) PROVE RestartContract'
  <2> USE <1>1 DEF Publish, checkpoint, table
  <2>1. \A u \in Topics : Bookkeeping(u)'
    BY SameFrontier DEF RestartContract, Bookkeeping
  <2>2. ASSUME NEW u \in Topics, NEW q \in Partitions
        PROVE  logEnd'[u][q] = IF u = t /\ q = p THEN logEnd[u][q] + 1 ELSE logEnd[u][q]
    BY DEF TypeOK, Cursors
  <2>3. ASSUME NEW u \in Topics PROVE RangesInOrder(u)'
    BY <2>2, Numbers DEF RestartContract, RangesInOrder
  <2> QED
    BY <2>1, <2>3, SameRows DEF RestartContract
<1>2. ASSUME NEW t \in Topics, NEW p \in Partitions, Expire(t, p) PROVE RestartContract'
  <2> USE <1>2 DEF Expire, checkpoint, table
  <2>1. \A u \in Topics : Bookkeeping(u)'
    BY SameFrontier DEF RestartContract, Bookkeeping
  <2>2. ASSUME NEW u \in Topics, NEW q \in Partitions
        PROVE  logStart'[u][q] = IF u = t /\ q = p THEN logStart[u][q] + 1 ELSE logStart[u][q]
    BY DEF TypeOK, Cursors
  <2>3. ASSUME NEW u \in Topics PROVE RangesInOrder(u)'
    BY <2>2, Numbers DEF RestartContract, RangesInOrder
  <2> QED
    BY <2>1, <2>3, SameRows DEF RestartContract
<1>3. CASE Launch
  <2>0. /\ Frontier' = [t \in Topics |-> IF t \in Fresh THEN logStart[t] ELSE Frontier[t]]
        /\ \A t \in Fresh : AlreadyInTable(t)' /\ txn'[t][run'[t]] = -1
        /\ \A t \in Topics \ Fresh : AlreadyInTable(t)' <=> AlreadyInTable(t)
    BY <1>3, LaunchMovesFrontier
  <2> USE <1>3 DEF Launch, kafka, table
  <2>1. ASSUME NEW t \in Topics PROVE Bookkeeping(t)'
    <3>1. CASE t \in Fresh
      <4>1. /\ run'[t] = run[t] + 1 /\ run[t] \in Nat /\ batch'[t] = -1
            /\ phase'[t] = "idle"
        BY <3>1 DEF Resume, TypeOK
      <4>2. kept'[t] /\ committed'[t] /\ up'
        BY <3>1, Zenon
      <4>3. txn'[t][run'[t]] = -1 /\ AlreadyInTable(t)'
        BY <3>1, <2>0
      <4>4. \A r \in Runs : r > run[t] + 1 => txn'[t][r] = -1
        BY <4>1 DEF RestartContract, Bookkeeping, Runs
      <4> QED
        BY <4>1, <4>2, <4>3, <4>4 DEF Bookkeeping
    <3>2. CASE t \notin Fresh
      BY <3>2, <2>0
         DEF RestartContract, Bookkeeping, Resume, Fresh, TypeOK
    <3> QED
      BY <3>1, <3>2
  <2>2. ASSUME NEW t \in Topics PROVE RangesInOrder(t)'
    BY Numbers DEF RestartContract, RangesInOrder, StartingOffsets
  <2>3. ASSUME NEW t \in Topics PROVE NothingAhead(t)'
    <3>1. CASE t \in Fresh
      <4>1. run'[t] = run[t] + 1 /\ run[t] \in Nat
        BY <3>1 DEF TypeOK
      <4>2. \A p \in Partitions, o \in Offsets : copies[t][p][o] \in Nat /\ copies[t][p][o] <= run[t]
        BY DEF TypeOK, ExactlyOnce
      <4> QED
        BY <4>1, <4>2 DEF NothingAhead
    <3>2. CASE t \notin Fresh
      <4>1. run'[t] = run[t] /\ run[t] > 0
        BY <3>2 DEF Fresh, RestartContract, Bookkeeping
      <4>2. Frontier'[t] = Frontier[t]
        BY <3>2, <2>0
      <4> QED
        BY <4>1, <4>2 DEF RestartContract, NothingAhead
    <3> QED
      BY <3>1, <3>2
  <2> QED
    BY <2>1, <2>2, <2>3 DEF RestartContract
<1>4. ASSUME NEW t \in Topics, PlanBatch(t) PROVE RestartContract'
  <2>1. /\ Frontier' = Frontier /\ Frontier[t] = end[t] /\ ~AlreadyInTable(t)'
        /\ run[t] > 0 /\ txn[t][run[t]] = batch[t]
    BY <1>4, PlanKeepsFrontier
  <2> USE <1>4 DEF PlanBatch, kafka, table
  <2>2. ASSUME NEW u \in Topics PROVE Bookkeeping(u)'
    <3>1. CASE u = t
      BY <2>1, <3>1 DEF RestartContract, Bookkeeping, TypeOK, BatchIds
    <3>2. CASE u # t
      BY <3>2 DEF RestartContract, Bookkeeping, AlreadyInTable, TypeOK
    <3> QED
      BY <3>1, <3>2
  <2>3. ASSUME NEW u \in Topics PROVE RangesInOrder(u)'
    <3>1. CASE u = t
      BY <3>1, Numbers DEF RestartContract, RangesInOrder, NextEnds, TypeOK
    <3>2. CASE u # t
      BY <3>2 DEF RestartContract, RangesInOrder, TypeOK
    <3> QED
      BY <3>1, <3>2
  <2>4. ASSUME NEW u \in Topics PROVE NothingAhead(u)'
    BY <2>1 DEF RestartContract, NothingAhead
  <2> QED
    BY <2>2, <2>3, <2>4 DEF RestartContract
<1>5. ASSUME NEW t \in Topics, AppendBatch(t) PROVE RestartContract'
  <2>0. /\ Frontier[t] = start[t] /\ Frontier' = [Frontier EXCEPT ![t] = end[t]]
        /\ run[t] > 0 /\ AlreadyInTable(t)'
        /\ \A u \in Topics : u # t => (AlreadyInTable(u)' <=> AlreadyInTable(u))
    BY <1>5, AppendMovesFrontier
  <2> USE <1>5 DEF AppendBatch, kafka, checkpoint
  <2>1. ASSUME NEW u \in Topics PROVE Bookkeeping(u)'
    <3>1. CASE u = t
      <4>1. run[t] \in Runs /\ txn' = [txn EXCEPT ![t][run[t]] = batch[t]] /\ batch[t] \in Int
        BY <2>0 DEF TypeOK, Runs, BatchIds
      <4>2. /\ txn'[t][run[t]] = batch[t]
            /\ \A r \in Runs : r # run[t] => txn'[t][r] = txn[t][r]
        BY <4>1 DEF TypeOK
      <4> QED
        BY <3>1, <4>1, <4>2, <2>0 DEF RestartContract, Bookkeeping, TypeOK, Runs
    <3>2. CASE u # t
      BY <3>2, <2>0 DEF RestartContract, Bookkeeping, TypeOK
    <3> QED
      BY <3>1, <3>2
  <2>2. ASSUME NEW u \in Topics PROVE RangesInOrder(u)'
    BY DEF RestartContract, RangesInOrder
  <2>3. ASSUME NEW u \in Topics PROVE NothingAhead(u)'
    <3>1. CASE u = t
      <4>1. Frontier'[t] = end[t] /\ Frontier[t] = start[t] /\ run[t] > 0
        BY <2>0 DEF Frontier
      <4>2. ASSUME NEW p \in Partitions, NEW o \in Offsets, o >= end[t][p]
            PROVE  copies'[t][p][o] = copies[t][p][o] /\ o >= start[t][p]
        BY <4>2, Numbers DEF RestartContract, RangesInOrder, Readable, TypeOK
      <4> QED
        BY <3>1, <4>1, <4>2 DEF RestartContract, NothingAhead
    <3>2. CASE u # t
      <4>1. Frontier'[u] = Frontier[u] /\ copies'[u] = copies[u]
        BY <3>2, <2>0 DEF Frontier, TypeOK
      <4> QED
        BY <4>1 DEF RestartContract, NothingAhead
    <3> QED
      BY <3>1, <3>2
  <2> QED
    BY <2>1, <2>2, <2>3 DEF RestartContract
<1>6. ASSUME NEW t \in Topics, SkipBatch(t) PROVE RestartContract'
  <2> USE <1>6 DEF SkipBatch, kafka, checkpoint, table
  <2>1. ASSUME NEW u \in Topics PROVE Bookkeeping(u)'
    BY SameFrontier DEF RestartContract, Bookkeeping, TypeOK
  <2> QED
    BY <2>1, SameRows DEF RestartContract, RangesInOrder
<1>7. ASSUME NEW t \in Topics, CommitBatch(t) PROVE RestartContract'
  <2> USE <1>7 DEF CommitBatch, kafka, table
  <2>1. ASSUME NEW u \in Topics PROVE Bookkeeping(u)'
    BY SameFrontier DEF RestartContract, Bookkeeping, TypeOK
  <2> QED
    BY <2>1, SameRows DEF RestartContract, RangesInOrder
<1>8. CASE Die
  <2> USE <1>8 DEF Die, kafka, checkpoint, table
  <2>1. ASSUME NEW u \in Topics PROVE Bookkeeping(u)'
    BY SameFrontier DEF RestartContract, Bookkeeping
  <2> QED
    BY <2>1, SameRows DEF RestartContract, RangesInOrder
<1>9. ASSUME NEW t \in Topics, ResetCheckpoint(t) PROVE RestartContract'
  <2> USE <1>9 DEF ResetCheckpoint, kafka, table
  <2>1. ASSUME NEW u \in Topics PROVE Bookkeeping(u)'
    BY SameFrontier DEF RestartContract, Bookkeeping, TypeOK
  <2> QED
    BY <2>1, SameRows DEF RestartContract, RangesInOrder
<1>10. CASE UNCHANGED vars
  <2> USE <1>10 DEF vars, kafka, checkpoint, table
  <2>1. ASSUME NEW u \in Topics PROVE Bookkeeping(u)'
    BY SameFrontier DEF RestartContract, Bookkeeping
  <2> QED
    BY <2>1, SameRows DEF RestartContract, RangesInOrder
<1> QED
  BY <1>1, <1>2, <1>3, <1>4, <1>5, <1>6, <1>7, <1>8, <1>9, <1>10
     DEF Next, Broker, Step, FailOnDataLoss, Crash

(* The inductive step for the rows themselves: an append writes the range  *)
(* that starts at the frontier, so it duplicates nothing and skips nothing *)
LEMMA RowsStep ==
    ASSUME BronzeAssumption, TypeOK, RestartContract, ExactlyOnce, NoSilentLoss, [Next]_vars
    PROVE  ExactlyOnce' /\ NoSilentLoss'
<1> USE BronzeAssumption
<1>1. ASSUME UNCHANGED <<run, copies, gap>>, Frontier' = Frontier
      PROVE  ExactlyOnce' /\ NoSilentLoss'
  BY <1>1 DEF ExactlyOnce, NoSilentLoss
<1>2. ASSUME NEW t \in Topics, AppendBatch(t) PROVE ExactlyOnce' /\ NoSilentLoss'
  <2>1. /\ Frontier[t] = start[t] /\ Frontier' = [Frontier EXCEPT ![t] = end[t]]
        /\ run[t] > 0
    BY <1>2, AppendMovesFrontier
  <2>2. Frontier'[t] = end[t] /\ \A u \in Topics : u # t => Frontier'[u] = Frontier[u]
    BY <2>1 DEF Frontier
  <2>3. run' = run /\ gap' = gap
    BY <1>2 DEF AppendBatch, checkpoint
  <2>4. ASSUME NEW u \in Topics, u # t PROVE copies'[u] = copies[u]
    BY <1>2, <2>4 DEF AppendBatch, TypeOK
  <2>5. ASSUME NEW p \in Partitions, NEW o \in Offsets
        PROVE  /\ copies'[t][p][o] <= run[t]
               /\ o < end[t][p] => copies'[t][p][o] > 0 \/ o \in gap[t][p]
    <3>1. copies'[t][p][o] = IF o \in Readable(t, p) THEN copies[t][p][o] + 1 ELSE copies[t][p][o]
      BY <1>2 DEF AppendBatch, TypeOK
    <3>2. copies[t][p][o] \in Nat /\ run[t] \in Nat /\ copies[t][p][o] <= run[t]
      BY DEF TypeOK, ExactlyOnce
    <3>3. CASE start[t][p] <= o /\ o < end[t][p]
      <4>1. copies[t][p][o] < run[t]
        BY <2>1, <3>3 DEF RestartContract, NothingAhead
      <4>2. start[t][p] < end[t][p]
        BY <3>3, Numbers
      <4>3. logStart[t][p] <= start[t][p]
        BY <1>2, <4>2, Numbers DEF AppendBatch, Expired
      <4>4. o \in Readable(t, p)
        BY <3>3, <4>3, Numbers DEF Readable
      <4> QED
        BY <3>1, <3>2, <4>1, <4>4
    <3>4. CASE ~(start[t][p] <= o /\ o < end[t][p])
      <4>1. o \notin Readable(t, p)
        BY <3>4 DEF Readable
      <4>2. o < end[t][p] => o < Frontier[t][p]
        BY <2>1, <3>4, Numbers
      <4> QED
        BY <3>1, <3>2, <4>1, <4>2 DEF NoSilentLoss
    <3> QED
      BY <3>3, <3>4
  <2> QED
    BY <2>2, <2>3, <2>4, <2>5 DEF ExactlyOnce, NoSilentLoss
<1>3. CASE Launch
  <2>1. Frontier' = [t \in Topics |-> IF t \in Fresh THEN logStart[t] ELSE Frontier[t]]
    BY <1>3, LaunchMovesFrontier
  <2>2. ASSUME NEW t \in Topics PROVE run'[t] >= run[t] /\ run[t] \in Nat /\ run'[t] \in Nat
    BY <1>3 DEF Launch, TypeOK
  <2>3. copies' = copies
    BY <1>3 DEF Launch, table
  <2>4. ExactlyOnce'
    BY <2>2, <2>3 DEF ExactlyOnce, TypeOK
  <2>5. ASSUME NEW t \in Topics, NEW p \in Partitions, NEW o \in Offsets, o < Frontier'[t][p]
        PROVE  copies[t][p][o] > 0 \/ o \in gap'[t][p]
    <3>1. CASE t \in Fresh
      BY <1>3, <2>1, <2>5, <3>1 DEF Launch
    <3>2. CASE t \notin Fresh
      BY <1>3, <2>1, <2>5, <3>2 DEF Launch, NoSilentLoss
    <3> QED
      BY <3>1, <3>2
  <2> QED
    BY <2>3, <2>4, <2>5 DEF NoSilentLoss
<1>4. ASSUME NEW t \in Topics, PlanBatch(t) PROVE ExactlyOnce' /\ NoSilentLoss'
  BY <1>1, <1>4, PlanKeepsFrontier DEF PlanBatch, table
<1>5. ASSUME UNCHANGED <<run, batch, start, end, table, gap>>
      PROVE  ExactlyOnce' /\ NoSilentLoss'
  BY <1>1, <1>5, SameFrontier DEF table
<1>6. ASSUME NEW t \in Topics, SkipBatch(t) \/ CommitBatch(t) \/ ResetCheckpoint(t)
      PROVE  ExactlyOnce' /\ NoSilentLoss'
  BY <1>5, <1>6 DEF SkipBatch, CommitBatch, ResetCheckpoint, checkpoint
<1>7. CASE Broker \/ Die \/ UNCHANGED vars
  BY <1>5, <1>7 DEF Broker, Publish, Expire, Die, vars, checkpoint, table
<1> QED
  BY <1>2, <1>3, <1>4, <1>6, <1>7 DEF Next, Step, FailOnDataLoss, Crash

(* The invariant, from the lemmas.                                         *)
LEMMA Invariant == Spec => []IInv
<1>1. Init => IInv
  <2> SUFFICES ASSUME Init PROVE IInv
    OBVIOUS
  <2>1. Frontier = Everywhere(0)
    BY DEF Init, Frontier, Everywhere
  <2>2. TypeOK
    BY TypeInit
  <2>3. \A t \in Topics : Bookkeeping(t)
    BY BronzeAssumption DEF Init, Bookkeeping, Runs
  <2>4. \A t \in Topics : RangesInOrder(t)
    BY DEF Init, RangesInOrder, Everywhere
  <2>5. \A t \in Topics, p \in Partitions, o \in Offsets : copies[t][p][o] = 0
    BY DEF Init, Everywhere
  <2>6. \A t \in Topics : NothingAhead(t)
    BY <2>1, <2>5 DEF Init, NothingAhead, Everywhere
  <2>7. ExactlyOnce /\ NoSilentLoss
    BY <2>1, <2>5, BronzeAssumption DEF Init, ExactlyOnce, NoSilentLoss, Everywhere, Offsets
  <2> QED
    BY <2>2, <2>3, <2>4, <2>6, <2>7 DEF IInv, RestartContract
<1>2. IInv /\ [Next]_vars => IInv'
  BY BronzeAssumption, TypeStep, ContractStep, RowsStep DEF IInv
<1> QED
  BY <1>1, <1>2, PTL DEF Spec

(* A restarted query finds checkpoint and Delta log in step, whatever the  *)
(* crash left behind.                                                      *)
THEOREM RestartIsSafe == Spec => []RestartContract
  BY Invariant, PTL DEF IInv

(* At most one row per record and checkpoint, for any number of topics,    *)
(* partitions, crashes and replays.                                        *)
THEOREM BronzeExactlyOnce == Spec => []ExactlyOnce
  BY Invariant, PTL DEF IInv

(* No record the frontier passed is missing, except the ones a fresh       *)
(* checkpoint found expired.                                               *)
THEOREM BronzeLosesNothing == Spec => []NoSilentLoss
  BY Invariant, PTL DEF IInv

-----------------------------------------------------------------------------
(* The size of a batch.                                                    *)

Size(t)    == SumFunctionOnSet([p \in Partitions |-> end[t][p] - start[t][p]], Partitions)
Bounded(t) == Size(t) < MaxOffsetsPerTrigger + Cardinality(Partitions)

(* A partition's share d of a batch that is over the limit m, where b is   *)
(* its backlog and total that of all partitions: at most the proportional  *)
(* one, or one record.                                                     *)
LEMMA ShareBounded ==
    ASSUME NEW m \in Nat \ {0}, NEW total \in Nat, total > m, NEW b \in Nat, NEW d \in Nat,
           d <= b,
           LET prorated == (m * b) \div total
           IN  d <= IF prorated = 0 THEN 1 ELSE prorated
    PROVE  total * d <= m * b + (total - 1)
<1> DEFINE q == (m * b) \div total
<1>1. m * b \in Nat /\ q \in Nat /\ total * q <= m * b
  <2>1. m * b \in Nat /\ total \in Nat \ {0}
    BY SMT
  <2>2. \A u \in Nat, v \in Nat \ {0} : u \div v \in Nat /\ v * (u \div v) <= u
    BY SMT
  <2> QED
    BY <2>1, <2>2
<1>2. CASE q = 0
  <2>1. d = 0 \/ (d = 1 /\ b >= 1)
    BY <1>2
  <2>2. b >= 1 => m * b >= 1
    BY SMT
  <2>3. total * 0 = 0 /\ total * 1 = total
    BY SMT
  <2> QED
    BY <1>1, <2>1, <2>2, <2>3
<1>3. CASE q # 0
  <2>1. d <= q
    BY <1>3
  <2>2. \A u, v, w \in Nat : v <= w => u * v <= u * w
    BY SMT
  <2>3. total * d <= total * q
    BY <1>1, <2>1, <2>2
  <2>4. total * d \in Nat /\ total * q \in Nat
    BY <1>1, SMT
  <2> HIDE DEF q
  <2> QED
    BY <1>1, <2>3, <2>4
<1> QED
  BY <1>2, <1>3

(* Shares that add up to no more than the limit and one for each partition *)
LEMMA SharesAddUp ==
    ASSUME NEW m \in Nat \ {0}, NEW total \in Nat, total > m, NEW n \in Nat, NEW size \in Int,
           total * size <= m * total + (total - 1) * n, n = 0 => total = 0
    PROVE  size < m + n
<1>1. SUFFICES ASSUME size >= m + n PROVE FALSE
  OBVIOUS
<1>2. n >= 1
  OBVIOUS
<1>3. total * (m + n) <= total * size
  <2>1. \A u \in Nat, v, w \in Int : v <= w => u * v <= u * w
    BY SMT
  <2> QED
    BY <1>1, <2>1
<1>4. /\ total * (m + n) = m * total + total * n
      /\ (total - 1) * n = total * n - n
      /\ m * total \in Int /\ total * n \in Int /\ total * size \in Int
  BY SMT
<1> QED
  BY <1>2, <1>3, <1>4

(* What is planned is what a batch may take.                               *)
LEMMA PlanBounded ==
    ASSUME BronzeAssumption, TypeOK, NEW t \in Topics, RangesInOrder(t),
           NEW ends \in NextEnds(t)
    PROVE  SumFunctionOnSet([p \in Partitions |-> ends[p] - end[t][p]], Partitions)
               < MaxOffsetsPerTrigger + Cardinality(Partitions)
<1> DEFINE d == [p \in Partitions |-> ends[p] - end[t][p]]
           b == Backlog(t)
           m == MaxOffsetsPerTrigger
           total == SumFunctionOnSet(b, Partitions)
           size  == SumFunctionOnSet(d, Partitions)
           n     == Cardinality(Partitions)
<1>1. m \in Nat \ {0} /\ IsFiniteSet(Partitions) /\ n \in Nat
  BY FS_CardinalityType DEF BronzeAssumption
<1>2. ASSUME NEW p \in Partitions
      PROVE  /\ d[p] \in Nat /\ b[p] \in Nat /\ d[p] <= b[p]
             /\ d[p] = ends[p] - end[t][p] /\ b[p] = logEnd[t][p] - end[t][p]
  <2>1. /\ end[t][p] \in Nat /\ logEnd[t][p] \in Nat /\ ends[p] \in Nat
        /\ end[t][p] <= ends[p] /\ ends[p] <= logEnd[t][p]
    BY <1>2, Numbers DEF NextEnds, Cursors, Offsets
  <2> QED
    BY <2>1 DEF Backlog
<1>3. \A p \in Partitions :
         IF Target(t, p) <= logEnd[t][p] THEN ends[p] = Target(t, p) ELSE ends[p] = logEnd[t][p]
  BY DEF NextEnds
<1>4. \A p \in Partitions :
         Target(t, p) = IF total <= m THEN logEnd[t][p]
                        ELSE end[t][p] + (IF (m * b[p]) \div total = 0 THEN 1
                                                                       ELSE (m * b[p]) \div total)
  BY DEF Target
<1>5. n = 0 => size = 0 /\ total = 0
  <2>1. n = 0 => Partitions = {}
    BY <1>1, FS_EmptySet
  <2> HIDE DEF d, b
  <2> QED
    BY <2>1, SumEmpty
<1>6. b = [p \in Partitions |-> b[p]] /\ d = [p \in Partitions |-> d[p]]
  BY DEF Backlog
<1> HIDE DEF d, b
<1>7. total \in Nat /\ size \in Int
  <2>1. total \in Int /\ size \in Int
    BY <1>1, <1>2, SumInt
  <2>2. \A p \in Partitions : b[p] \in Int /\ 0 <= b[p]
    BY <1>2
  <2>3. 0 * n <= total
    <3>1. 0 \in Int
      OBVIOUS
    <3> QED
      BY <1>1, <2>2, <3>1, SumAtLeast, Zenon
  <2> QED
    BY <1>1, <2>1, <2>3
<1> HIDE DEF m, n, total, size
<1>8. CASE total <= m
  <2>1. \A p \in Partitions : logEnd[t][p] <= logEnd[t][p]
    BY Numbers
  <2>2. \A p \in Partitions : d[p] = b[p]
    BY <1>2, <1>3, <1>4, <1>8, <2>1
  <2>3. d = b
    BY <1>6, <2>2
  <2>4. size = total
    BY <2>3 DEF size, total
  <2> QED
    BY <1>1, <1>5, <1>7, <1>8, <2>4 DEF size, d, m, n
<1>9. CASE total > m
  <2>1. ASSUME NEW p \in Partitions PROVE total * d[p] <= m * b[p] + (total - 1)
    <3> DEFINE q == (m * b[p]) \div total
    <3>1. d[p] <= IF q = 0 THEN 1 ELSE q
      <4>1. Target(t, p) = end[t][p] + (IF q = 0 THEN 1 ELSE q)
        BY <1>4, <1>7, <1>9, <1>1
      <4>2. q \in Nat
        <5>1. m * b[p] \in Nat /\ total \in Nat \ {0}
          BY <1>1, <1>2, <1>7, <1>9
        <5>2. \A u \in Nat : u \div total \in Nat
          BY <5>1
        <5> QED
          BY <5>1, <5>2
      <4>3. end[t][p] \in Nat /\ logEnd[t][p] \in Nat /\ ends[p] \in Nat
        BY Numbers DEF NextEnds, Cursors, Offsets
      <4> HIDE DEF q
      <4> QED
        BY <1>2, <1>3, <4>1, <4>2, <4>3
    <3> QED
      BY <1>1, <1>2, <1>7, <1>9, <3>1, ShareBounded
  <2>2. EachLinear(Partitions, total, d, m, b, total - 1)
    BY <2>1 DEF EachLinear
  <2>3. InTotal(Partitions, total, d, m, b, total - 1)
    <3>1. total \in Int /\ m \in Int /\ total - 1 \in Int
      BY <1>1, <1>7
    <3>2. \A p \in Partitions : d[p] \in Int /\ b[p] \in Int
      BY <1>2
    <3> QED
      BY <1>1, <2>2, <3>1, <3>2, SumLinear
  <2>4. total * size <= m * total + (total - 1) * n
    BY <2>3 DEF InTotal, total, size, n
  <2>5. size < m + n
    BY <1>1, <1>5, <1>7, <1>9, <2>4, SharesAddUp
  <2> QED
    BY <2>5 DEF size, d, m, n
<1> QED
  BY <1>1, <1>7, <1>8, <1>9

(* No record in the range is no batch too large.                           *)
LEMMA EmptyRange ==
    ASSUME BronzeAssumption, NEW from, NEW to, \A p \in Partitions : to[p] - from[p] = 0
    PROVE  SumFunctionOnSet([p \in Partitions |-> to[p] - from[p]], Partitions)
               < MaxOffsetsPerTrigger + Cardinality(Partitions)
<1> DEFINE f == [p \in Partitions |-> to[p] - from[p]]
           n == Cardinality(Partitions)
           total == SumFunctionOnSet(f, Partitions)
<1>1. IsFiniteSet(Partitions) /\ n \in Nat /\ MaxOffsetsPerTrigger \in Nat \ {0}
  BY FS_CardinalityType DEF BronzeAssumption
<1>2. \A p \in Partitions : f[p] \in Int /\ f[p] <= 0
  OBVIOUS
<1> HIDE DEF f
<1>3. total \in Int /\ total <= 0 * n
  <2>1. \A p \in Partitions : f[p] \in Int
    BY <1>2
  <2>2. total \in Int
    BY <1>1, <2>1, SumInt
  <2>3. total <= 0 * n
    <3>1. 0 \in Int
      OBVIOUS
    <3> QED
      BY <1>1, <1>2, <3>1, SumAtMost, Zenon
  <2> QED
    BY <2>2, <2>3
<1> HIDE DEF n, total
<1>4. total < MaxOffsetsPerTrigger + n
  BY <1>1, <1>3
<1> QED
  BY <1>4 DEF total, f, n

(* Batches are bounded, whatever the backlogs, retention and restarts: the *)
(* recorded range of a batch is at most the limit and one record for each  *)
(* partition but one (bronze_ingest.py, 140-153).                          *)
THEOREM BatchesAreBounded == Spec => []BoundedBatch
<1>1. Init => BoundedBatch
  <2> SUFFICES ASSUME Init, NEW t \in Topics PROVE Bounded(t)
    BY DEF BoundedBatch, Bounded, Size
  <2>1. \A p \in Partitions : end[t][p] - start[t][p] = 0
    BY DEF Init, Everywhere
  <2> QED
    BY <2>1, EmptyRange, BronzeAssumption DEF Bounded, Size
<1>2. IInv /\ BoundedBatch /\ [Next]_vars => BoundedBatch'
  <2> SUFFICES ASSUME IInv, BoundedBatch, [Next]_vars, NEW t \in Topics PROVE Bounded(t)'
    BY DEF BoundedBatch, Bounded, Size
  <2>1. Bounded(t)
    BY DEF BoundedBatch, Bounded, Size
  <2>2. CASE PlanBatch(t)
    <3>1. PICK ends \in NextEnds(t) : start'[t] = end[t] /\ end'[t] = ends
      BY <2>2 DEF PlanBatch, IInv, TypeOK
    <3>2. Size(t)' = SumFunctionOnSet([p \in Partitions |-> ends[p] - end[t][p]], Partitions)
      BY <3>1 DEF Size
    <3> QED
      BY <3>2, PlanBounded, BronzeAssumption DEF Bounded, IInv, RestartContract
  <2>3. CASE Launch /\ t \in Fresh
    <3>1. \A p \in Partitions : logStart[t][p] - logStart[t][p] = 0
      BY Numbers, BronzeAssumption DEF IInv, Offsets
    <3>2. end'[t] = logStart[t] /\ start'[t] = logStart[t]
      BY <2>3 DEF Launch, StartingOffsets
    <3>3. Size(t)' = SumFunctionOnSet([p \in Partitions |-> logStart[t][p] - logStart[t][p]], Partitions)
      BY <3>2 DEF Size
    <3> QED
      BY <3>1, <3>3, EmptyRange, BronzeAssumption DEF Bounded
  <2>4. CASE start'[t] = start[t] /\ end'[t] = end[t]
    BY <2>1, <2>4 DEF Bounded, Size
  <2>5. ASSUME NEW u \in Topics, Step(u) \/ ResetCheckpoint(u) PROVE Bounded(t)'
    <3>1. CASE PlanBatch(u) /\ u # t
      <4>1. start'[t] = start[t] /\ end'[t] = end[t]
        BY <3>1 DEF PlanBatch, IInv, TypeOK
      <4> QED
        BY <2>4, <4>1
    <3>2. CASE SkipBatch(u) \/ CommitBatch(u) \/ FailOnDataLoss(u) \/ ResetCheckpoint(u)
      BY <2>4, <3>2 DEF SkipBatch, CommitBatch, FailOnDataLoss, Die, ResetCheckpoint, checkpoint
    <3>3. CASE AppendBatch(u)
      BY <2>4, <3>3 DEF AppendBatch, checkpoint
    <3> QED
      BY <2>2, <2>5, <3>1, <3>2, <3>3 DEF Step
  <2>6. CASE Launch
    <3>1. CASE t \notin Fresh
      <4>1. start'[t] = start[t] /\ end'[t] = end[t]
        BY <2>6, <3>1 DEF Launch
      <4> QED
        BY <2>4, <4>1
    <3> QED
      BY <2>3, <2>6, <3>1
  <2>7. CASE Broker \/ Crash \/ UNCHANGED vars
    BY <2>4, <2>7 DEF Broker, Publish, Expire, Crash, Die, vars, checkpoint
  <2> QED
    BY <2>5, <2>6, <2>7 DEF Next
<1> QED
  BY <1>1, <1>2, Invariant, PTL DEF Spec

-----------------------------------------------------------------------------
(* The refinement.                                                         *)

LEMMA LogInit == Init => Log!Init
<1> SUFFICES ASSUME Init PROVE Log!Init
  OBVIOUS
<1>1. Frontier = [t \in Topics |-> [p \in Partitions |-> 0]]
  BY DEF Init, Frontier, Everywhere
<1> QED
  BY <1>1 DEF Init, Everywhere, Log!Init, Log!Offsets, Offsets

LEMMA LogStep == ASSUME BronzeAssumption, IInv, [Next]_vars PROVE [Log!Next]_(Log!vars)
<1> USE BronzeAssumption DEF IInv, Log!vars
<1>1. ASSUME NEW t \in Topics, NEW p \in Partitions, Publish(t, p) PROVE Log!Publish(t, p)
  <2>1. Frontier' = Frontier
    BY <1>1, SameFrontier DEF Publish, checkpoint, table
  <2>2. logEnd[t][p] < MaxOffset
    <3>1. logEnd[t][p] \in Nat /\ logEnd[t][p] < Quota[t][p]
      BY <1>1, Numbers DEF Publish
    <3>2. Quota[t][p] \in 0 .. MaxOffset /\ MaxOffset \in Nat
      BY DEF BronzeAssumption
    <3> QED
      BY <3>1, <3>2
  <2> QED
    BY <1>1, <2>1, <2>2 DEF Publish, table, Log!Publish
<1>2. ASSUME NEW t \in Topics, NEW p \in Partitions, Expire(t, p) PROVE Log!Expire(t, p)
  <2>1. Frontier' = Frontier
    BY <1>2, SameFrontier DEF Expire, checkpoint, table
  <2> QED
    BY <1>2, <2>1 DEF Expire, table, Log!Expire
<1>3. ASSUME Launch PROVE Log!Reopen(Fresh)
  <2>1. Frontier' = [t \in Topics |-> IF t \in Fresh THEN logStart[t] ELSE Frontier[t]]
    BY <1>3, LaunchMovesFrontier
  <2> QED
    BY <1>3, <2>1 DEF Launch, kafka, table, Log!Reopen
<1>4. ASSUME NEW t \in Topics, AppendBatch(t) PROVE Log!Deliver(t, end[t])
  <2>1. Frontier[t] = start[t] /\ Frontier' = [Frontier EXCEPT ![t] = end[t]]
    BY <1>4, AppendMovesFrontier
  <2>2. ASSUME NEW p \in Partitions
        PROVE  /\ end[t][p] \in Frontier[t][p] .. logEnd[t][p]
               /\ Frontier[t][p] < end[t][p] => Frontier[t][p] >= logStart[t][p]
    BY <1>4, <2>1, Numbers DEF AppendBatch, Expired, RestartContract, RangesInOrder
  <2>3. ASSUME NEW p \in Partitions, NEW o \in Offsets
        PROVE  o \in Readable(t, p) <=> Frontier[t][p] <= o /\ o < end[t][p]
    BY <2>1, <2>2, Numbers DEF Readable
  <2>4. copies' = [copies EXCEPT ![t] = [p \in Partitions |-> [o \in Log!Offsets |->
                     IF Frontier[t][p] <= o /\ o < end[t][p] THEN copies[t][p][o] + 1
                                                           ELSE copies[t][p][o]]]]
    BY <1>4, <2>3 DEF AppendBatch, Offsets, Log!Offsets
  <2> QED
    BY <1>4, <2>1, <2>2, <2>4 DEF AppendBatch, kafka, Log!Deliver
<1>5. ASSUME NEW t \in Topics, PlanBatch(t) PROVE UNCHANGED Log!vars
  BY <1>5, PlanKeepsFrontier DEF PlanBatch, kafka, table
<1>6. ASSUME UNCHANGED <<kafka, run, batch, start, end, table>> PROVE UNCHANGED Log!vars
  BY <1>6, SameFrontier DEF kafka, table
<1>7. ASSUME NEW t \in Topics, SkipBatch(t) \/ CommitBatch(t) \/ ResetCheckpoint(t)
      PROVE  UNCHANGED Log!vars
  BY <1>6, <1>7 DEF SkipBatch, CommitBatch, ResetCheckpoint, checkpoint
<1>8. CASE Die \/ UNCHANGED vars
  BY <1>6, <1>8 DEF Die, vars, checkpoint
<1>9. \A t \in Topics : end[t] \in [Partitions -> Log!Offsets]
  BY DEF TypeOK, Cursors, Offsets, Log!Offsets
<1>10. Fresh \in SUBSET Topics
  BY DEF Fresh
<1> QED
  BY <1>1, <1>2, <1>3, <1>4, <1>5, <1>7, <1>8, <1>9, <1>10
     DEF Next, Broker, Step, FailOnDataLoss, Crash, Log!Next

(* The three separate writes of a micro-batch, with crashes and replays    *)
(* between them, are the one atomic delivery of ExactlyOnceLog.            *)
THEOREM BronzeImplementsLog == Spec => ImplementsLog
<1>1. Init => Log!Init
  BY LogInit
<1>2. IInv /\ [Next]_vars => [Log!Next]_(Log!vars)
  BY LogStep, BronzeAssumption
<1> QED
  BY <1>1, <1>2, Invariant, PTL DEF Spec, ImplementsLog, Log!Spec
=============================================================================
