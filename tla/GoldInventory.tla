---------------------------- MODULE GoldInventory ----------------------------
(***************************************************************************)
(* streaming/gold_aggregates.py, query 2: the current level of every       *)
(* store/SKU, kept by a foreachBatch sink that MERGEs each micro-batch of  *)
(* silver_inventory_updates into a Delta table, while a maintenance job    *)
(* OPTIMIZEs the same table.                                               *)
(*                                                                         *)
(* foreachBatch has no (query, batch) marker: a batch whose MERGE went     *)
(* through before a crash is merged again, with rows of equal event_time   *)
(* possibly reduced to another one.  A table row is the event it was       *)
(* written from.  MERGE and OPTIMIZE are optimistic transactions: each     *)
(* writes what it made of the rows it read, and fails if another commit    *)
(* has replaced their files since (the table is small: one file).          *)
(*                                                                         *)
(* Modelled: any order of arrival and of batch cuts, crashes anywhere, the *)
(* first batch that creates the table, conflicts.  Left out: the window    *)
(* query of the same process (ZoneWindows), except that either takes the   *)
(* other down, and that main() starts it first: if Spark does not take its *)
(* plan, the process ends there and this query is never started.           *)
(***************************************************************************)
EXTENDS Integers, Sequences, FiniteSets

CONSTANTS Events,     \* inventory events, by event_id
          Keys,       \* store/SKU pairs
          KeyOf,      \* the pair an event is about
          EventTime,
          None,       \* no row
          PlanAccepted   \* does Spark take the plan of main()'s first query?

ASSUME InventoryAssumption == /\ PlanAccepted \in BOOLEAN
                              /\ KeyOf \in [Events -> Keys]
                              /\ EventTime \in [Events -> Nat]
                              /\ None \notin Events

VARIABLES
    silver,     \* silver_inventory_updates, in commit order
    up,         \* is the gold process running?
    pos, stop,  \* last batch of the offset log reads silver[pos+1 .. stop]
    committed,  \* is it in the commit log?
    phase,      \* where the running query is inside it
    source,     \* its batch reduced, while a MERGE runs: pair -> event
    row,        \* the table: pair -> event
    exists,     \* is it a Delta table yet?
    merge,      \* the running MERGE: what it read, and is that stale?
    optimize    \* the running OPTIMIZE likewise

batchVars == <<pos, stop, committed>>
query     == <<up, phase, source>>
table     == <<row, exists, merge, optimize>>
vars      == <<silver, batchVars, query, table>>

Levels == [Keys -> Events \cup {None}]
Transactions == [active : BOOLEAN, rows : Levels, stale : BOOLEAN]

TypeOK == /\ silver \in Seq(Events) /\ up \in BOOLEAN
          /\ pos \in 0 .. stop /\ stop \in 0 .. Len(silver) /\ committed \in BOOLEAN
          /\ phase \in {"idle", "planned", "merging", "merged"}
          /\ source \in Levels /\ row \in Levels /\ exists \in BOOLEAN
          /\ \A k \in Keys : row[k] # None => KeyOf[row[k]] = k
          /\ merge \in Transactions /\ optimize \in Transactions

Nothing == [k \in Keys |-> None]
Idle    == [active |-> FALSE, rows |-> Nothing, stale |-> FALSE]
OnSnapshot == [active |-> TRUE, rows |-> row, stale |-> FALSE]
Overtaken(t) == [t EXCEPT !.stale = t.active]

Init == /\ silver = <<>> /\ up = FALSE
        /\ pos = 0 /\ stop = 0 /\ committed = TRUE
        /\ phase = "idle" /\ source = Nothing
        /\ row = Nothing /\ exists = FALSE /\ merge = Idle /\ optimize = Idle

Rows(from, to) == {silver[i] : i \in (from + 1) .. to}

(* Silver appends an event: once each, in any order of event_time.         *)
Arrive(e) == /\ e \notin Rows(0, Len(silver))
             /\ silver' = Append(silver, e)
             /\ UNCHANGED <<batchVars, query, table>>

-----------------------------------------------------------------------------
(* latest_inventory: per store/SKU the row with the largest event_time;    *)
(* row_number breaks ties any way it likes.                                *)
Mentions(k, batch) == {e \in batch : KeyOf[e] = k}
Latest(k, batch) == {e \in Mentions(k, batch) :
                        \A f \in Mentions(k, batch) : EventTime[f] <= EventTime[e]}

LatestInventory(batch) ==
    {r \in Levels : \A k \in Keys : IF Mentions(k, batch) = {} THEN r[k] = None
                                                                ELSE r[k] \in Latest(k, batch)}

-----------------------------------------------------------------------------
(* The query.                                                              *)

ForgetOpenBatch == "idle"                    \* mutant: the open batch is not run again
ResumePhase == IF committed THEN "idle" ELSE "planned"

Launch == /\ PlanAccepted /\ ~up
          /\ up' = TRUE
          /\ phase' = ResumePhase
          /\ UNCHANGED <<silver, batchVars, source, table>>

Plan == /\ up /\ phase = "idle"
        /\ stop' \in (stop + 1) .. Len(silver) /\ pos' = stop
        /\ committed' = FALSE
        /\ phase' = "planned"
        /\ UNCHANGED <<silver, up, source, table>>

(* upsert_inventory_batch: the batch is reduced, and a MERGE begun on the  *)
(* table as it is, or on no rows if it has to be created.                  *)
Begin == /\ up /\ phase = "planned"
         /\ source' \in LatestInventory(Rows(pos, stop))
         /\ merge' = OnSnapshot
         /\ phase' = "merging"
         /\ UNCHANGED <<silver, batchVars, up, row, exists, optimize>>

EqualIsNewer(s, t) == EventTime[s] >= EventTime[t]   \* mutant: s.as_of >= t.as_of
Newer(s, t) == EventTime[s] > EventTime[t]           \* s.as_of > t.as_of

(* whenMatchedUpdate if newer, whenNotMatchedInsertAll.                    *)
Upsert(s, t) == IF t = None \/ (s # None /\ Newer(s, t)) THEN s ELSE t

LastWriterWins(t) == FALSE                   \* mutant: no conflict detection
Conflict(t) == t.stale

Merge == /\ up /\ phase = "merging"
         /\ ~Conflict(merge)
         /\ row' = [k \in Keys |-> Upsert(source[k], merge.rows[k])]
         /\ exists' = TRUE /\ optimize' = Overtaken(optimize)
         /\ phase' = "merged" /\ merge' = Idle /\ source' = Nothing
         /\ UNCHANGED <<silver, batchVars, up>>

Commit == /\ up /\ phase = "merged"
          /\ committed' = TRUE
          /\ phase' = "idle"
          /\ UNCHANGED <<silver, pos, stop, up, source, table>>

(* awaitAnyTermination: the process ends with the first query that fails.  *)
Die == /\ up /\ up' = FALSE
       /\ phase' = "idle" /\ source' = Nothing /\ merge' = Idle
       /\ UNCHANGED <<silver, batchVars, row, exists, optimize>>

MergeConflict == /\ phase = "merging" /\ Conflict(merge) /\ Die

Crash == Die

-----------------------------------------------------------------------------
(* optimize_and_zorder, in a process of its own.                           *)

BeginOptimize == /\ exists /\ ~optimize.active
                 /\ optimize' = OnSnapshot
                 /\ UNCHANGED <<silver, batchVars, query, row, exists, merge>>

Optimize == /\ optimize.active /\ ~Conflict(optimize)
            /\ row' = optimize.rows
            /\ optimize' = Idle /\ merge' = Overtaken(merge)
            /\ UNCHANGED <<silver, batchVars, query, exists>>

(* It loses a conflict, or its job is stopped.                             *)
AbandonOptimize == /\ optimize.active
                   /\ optimize' = Idle
                   /\ UNCHANGED <<silver, batchVars, query, row, exists, merge>>

-----------------------------------------------------------------------------
QueryStep == Plan \/ Begin \/ Merge \/ Commit \/ MergeConflict
Maintenance == BeginOptimize \/ Optimize \/ AbandonOptimize

Next == (\E e \in Events : Arrive(e)) \/ Launch \/ QueryStep \/ Crash \/ Maintenance

Spec == Init /\ [][Next]_vars

(* The 30-second trigger keeps the query going, a dead job is restarted,   *)
(* and crashes stop sometime, other than those of a lost conflict: these   *)
(* may go on for ever, but OPTIMIZE, a periodic job and not inline in the  *)
(* stream (gold_aggregates.py, 224-226), does not overtake every MERGE.    *)
LiveSpec == /\ Spec
            /\ WF_vars(Launch) /\ WF_vars(QueryStep) /\ SF_vars(Merge)
            /\ <>[][Crash => MergeConflict]_vars

-----------------------------------------------------------------------------
(* Properties.                                                             *)

Done == IF committed THEN stop ELSE pos

(* The table holds, for every pair an event of a finished batch is about,  *)
(* an event at least as new: neither an out-of-order batch, nor a replayed *)
(* one, nor a lost conflict leaves a staler level (188-191).               *)
InventoryCurrent ==
    /\ \A k \in Keys : row[k] # None => row[k] \in Rows(0, stop)
    /\ \A e \in Rows(0, Done) : /\ row[KeyOf[e]] # None
                                /\ EventTime[e] <= EventTime[row[KeyOf[e]]]

(* A pair's level changes only for an event that is strictly newer, so two *)
(* runs of one batch cannot flip a level between events of equal time.     *)
NeverBackInTime ==
    [][\A k \in Keys : row[k] # None /\ row'[k] # row[k] =>
                            row'[k] # None /\ EventTime[row'[k]] > EventTime[row[k]]]_vars

(* Once main() gets as far as this query: every event is reflected in the  *)
(* table sometime, though MERGEs go on losing conflicts (227-233, 258-266).*)
Reflected(e) == row[KeyOf[e]] # None /\ EventTime[e] <= EventTime[row[KeyOf[e]]]
EveryLevelArrives == \A e \in Events : e \in Rows(0, Len(silver)) ~> Reflected(e)
=============================================================================
